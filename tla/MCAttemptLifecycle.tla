------------------------- MODULE MCAttemptLifecycle -------------------------
(***************************************************************************)
(* AttemptLifecycle for TLC: interchangeable request slots.                *)
(***************************************************************************)
EXTENDS AttemptLifecycle, TLC

CONSTANTS r1, r2

Interchangeable == Permutations(Requests)
=============================================================================
