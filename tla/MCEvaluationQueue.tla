-------------------------- MODULE MCEvaluationQueue --------------------------
(* EvaluationQueue on a small instance.  No symmetry: the run also checks    *)
(* liveness.                                                                *)
EXTENDS EvaluationQueue

=============================================================================
