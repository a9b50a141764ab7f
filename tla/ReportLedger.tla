---------------------------- MODULE ReportLedger ----------------------------
(***************************************************************************)
(* What a candidate is promised about reports: the versions they have been *)
(* shown form a list that only grows, one version at a time; a version     *)
(* shown once is never changed or withdrawn, only followed by a next one.  *)
(***************************************************************************)
EXTENDS Sequences

CONSTANT Texts  \* what a report can say

VARIABLE shown  \* what each version says, in the order they were released

Init == shown = << >>

Publish(text) == shown' = Append(shown, text)

Next == \E text \in Texts : Publish(text)

Spec == Init /\ [][Next]_shown
=============================================================================
