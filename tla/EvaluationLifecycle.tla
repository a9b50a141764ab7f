------------------------- MODULE EvaluationLifecycle -------------------------
(***************************************************************************)
(* What the rest of the program may assume of an evaluation run, without   *)
(* workers, leases or stale reads: the status values of migration 028 with *)
(* "queued" and "retryable_failure" seen as one phase, waiting.            *)
(*                                                                         *)
(* A run is executed at most MaxBudget times, is reviewed at most once and *)
(* with one result, and only an operator brings a blocked run back.        *)
(***************************************************************************)
EXTENDS Integers

CONSTANTS Runs, Outcomes, None, MaxBudget

VARIABLES
  phase,   \* phase[r]
  tries,   \* tries[r]: executions started
  result   \* result[r]: what was handed to review

vars == <<phase, tries, result>>

Init ==
  /\ phase = [r \in Runs |-> "absent"]
  /\ tries = [r \in Runs |-> 0]
  /\ result = [r \in Runs |-> None]

Move(r, from, to) ==
  /\ phase[r] \in from
  /\ phase' = [phase EXCEPT ![r] = to]

Submit(r) == Move(r, {"absent"}, "waiting") /\ UNCHANGED <<tries, result>>

Start(r) ==
  /\ Move(r, {"waiting", "running"}, "running")
  /\ tries[r] < MaxBudget
  /\ tries' = [tries EXCEPT ![r] = @ + 1]
  /\ UNCHANGED result

GiveBack(r) == Move(r, {"running"}, "waiting") /\ UNCHANGED <<tries, result>>
Block(r)    == Move(r, {"waiting", "running"}, "blocked") /\ UNCHANGED <<tries, result>>
Requeue(r)  == Move(r, {"blocked"}, "waiting") /\ UNCHANGED <<tries, result>>
Cancel(r)   == Move(r, {"waiting", "running", "blocked"}, "canceled") /\ UNCHANGED <<tries, result>>
Release(r)  == Move(r, {"human_review"}, "ready") /\ UNCHANGED <<tries, result>>

Review(r, outcome) ==
  /\ Move(r, {"running"}, "human_review")
  /\ result' = [result EXCEPT ![r] = outcome]
  /\ UNCHANGED tries

Step(r) ==
  \/ Submit(r) \/ Start(r) \/ GiveBack(r) \/ Block(r) \/ Requeue(r) \/ Cancel(r) \/ Release(r)
  \/ \E outcome \in Outcomes : Review(r, outcome)

Next == \E r \in Runs : Step(r)

Spec == Init /\ [][Next]_vars

=============================================================================
