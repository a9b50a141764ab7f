-------------------------- MODULE SubmissionLedger --------------------------
(***************************************************************************)
(* What everyone else may assume of a candidate's work on one attempt,     *)
(* without requests, retries or deaths between two statements.  At most    *)
(* one piece of work is ever recorded, and it is never replaced; an        *)
(* attempt that was submitted or withdrawn is over for good; an attempt    *)
(* counts as submitted only with work recorded; and only recorded work of  *)
(* an attempt that is over is evaluated.                                   *)
(*                                                                         *)
(* Work may be recorded on an attempt that was withdrawn meanwhile: the    *)
(* submit checked the status before, and its insert does not.              *)
(***************************************************************************)
CONSTANTS
  Submissions,  \* what can be recorded
  None          \* nothing yet

VARIABLES
  phase,     \* "before" the start, "open", "submitted" or "withdrawn"
  recorded,  \* the work
  queued     \* whether it is evaluated

vars == <<phase, recorded, queued>>

Init == phase \in {"before", "open"} /\ recorded = None /\ queued = FALSE

Open ==
  /\ phase = "before" /\ phase' = "open"
  /\ UNCHANGED <<recorded, queued>>

Withdraw ==
  /\ phase \in {"before", "open"} /\ phase' = "withdrawn"
  /\ UNCHANGED <<recorded, queued>>

Record(work) ==
  /\ phase # "before"
  /\ recorded = None /\ recorded' = work
  /\ UNCHANGED <<phase, queued>>

Close ==
  /\ recorded # None
  /\ phase = "open" /\ phase' = "submitted"
  /\ UNCHANGED <<recorded, queued>>

Evaluate ==
  /\ recorded # None /\ phase \in {"submitted", "withdrawn"}
  /\ queued' = TRUE
  /\ UNCHANGED <<phase, recorded>>

Next ==
  \/ Open \/ Withdraw \/ Close \/ Evaluate
  \/ \E work \in Submissions : Record(work)

Spec == Init /\ [][Next]_vars
=============================================================================
