---------------------------- MODULE DraftReview ----------------------------
(***************************************************************************)
(* What the authoring of a work sample promises: a content is published    *)
(* only after its checks passed, somebody opened it as a candidate sees    *)
(* it, and then approved it.  Nothing recorded is taken back.              *)
(***************************************************************************)
VARIABLES
  passed,    \* contents that passed their checks
  opened,    \* pairs of a person and a content
  approved,  \* pairs of a person and a content
  published  \* contents given to candidates

vars == <<passed, opened, approved, published>>

Init == passed = {} /\ opened = {} /\ approved = {} /\ published = {}

Pass(c) ==
  /\ passed' = passed \cup {c}
  /\ UNCHANGED <<opened, approved, published>>

Open(v) ==
  /\ opened' = opened \cup {v}
  /\ UNCHANGED <<passed, approved, published>>

Approve(v) ==
  /\ v[2] \in passed /\ v \in opened
  /\ approved' = approved \cup {v}
  /\ UNCHANGED <<passed, opened, published>>

Publish(c) ==
  /\ \E v \in approved : v[2] = c
  /\ published' = published \cup {c}
  /\ UNCHANGED <<passed, opened, approved>>

(* One record at a time is added.                                          *)
Next ==
  \/ \E c \in passed' \ passed : Pass(c)
  \/ \E v \in opened' \ opened : Open(v)
  \/ \E v \in approved' \ approved : Approve(v)
  \/ \E c \in published' \ published : Publish(c)

Spec == Init /\ [][Next]_vars
=============================================================================
