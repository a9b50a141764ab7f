---------------------------- MODULE DraftsProofs ----------------------------
(***************************************************************************)
(* Proofs about Drafts, for any people, workers, edits and requests.  Two  *)
(* facts carry them: a revision names a package, so that a write which     *)
(* finds the revision it read finds the package it read (ReadFits), and    *)
(* what the gate of a publication saw is never taken back (GateFits).      *)
(***************************************************************************)
EXTENDS Drafts, SequenceTheorems, TLAPS

Checks == [on : Contents, ok : BOOLEAN]
Verdicts == [by : People, on : Contents, ok : BOOLEAN]
Packages == [on : Contents, retired : BOOLEAN]

Cleared(c) == c \in Passed /\ \E p \in People : <<p, c>> \in Approvals

(* What a request read is the row at an earlier time, or as it is.         *)
ReadFits(s) ==
  s.pc # "idle" /\ ~(s.kind = "generate" /\ s.pc = "end") =>
    /\ s.row.revision <= draft.revision
    /\ s.row.revision = draft.revision => s.row.pkg = draft.pkg

(* The requests that saw, of what they read, that its check passed, that   *)
(* they had opened it, that it is approved.                                *)
SawCheck(s) ==
  \/ s.kind = "review" /\ (s.pc = "opened" \/ (s.pc = "write" /\ s.decision))
  \/ s.kind = "publish" /\ s.pc \in {"approval", "expect", "write"}

SawPreview(s) == s.kind = "review" /\ s.pc = "write" /\ s.decision

SawApproval(s) == s.kind = "publish" /\ s.pc \in {"check", "expect", "write"}

GateFits(a, s) ==
  /\ SawCheck(s) => <<s.row.pkg, s.prot>> \in Passed
  /\ SawPreview(s) => <<a, <<s.row.pkg, s.prot>>>> \in previews
  /\ SawApproval(s) => \E p \in People : <<p, <<s.row.pkg, s.prot>>>> \in Approvals

ReviewFits(s) ==
  s.kind = "review" /\ s.pc = "end" /\ s.decision =>
    \E v \in Approvals : v[2][1] = s.row.pkg

(* Kinds of requests are those of the actor; only two write materials.     *)
KindFits(a, s) ==
  /\ s.pc # "idle" => s.kind \in Kinds(a)
  /\ s.pc = "protect" => s.kind \in {"save", "generate"}

SlotFits(a, s) == ReadFits(s) /\ GateFits(a, s) /\ ReviewFits(s) /\ KindFits(a, s)

ApprovalsFit == \A v \in Approvals : v[2] \in Passed /\ v \in previews

PublishedFit == \A c \in Published : Cleared(c)

(* The inductive invariant. *)
IInv ==
  /\ TypeOK
  /\ ApprovalsFit
  /\ PublishedFit
  /\ InReviewWasApproved
  /\ \A a \in Actors : SlotFits(a, req[a])

USE ActorsAssumption, BoundsAssumption

-----------------------------------------------------------------------------
(* What an appended record adds *)

LEMMA Appended ==
  ASSUME NEW S, NEW s \in Seq(S), NEW e \in S
  PROVE  /\ Append(s, e) \in Seq(S)
         /\ DOMAIN Append(s, e) = DOMAIN s \cup {Len(s) + 1}
         /\ Append(s, e)[Len(s) + 1] = e
         /\ \A i \in DOMAIN s : Append(s, e)[i] = s[i]
  BY AppendProperties, LenProperties

LEMMA PassedGrows ==
  ASSUME TypeOK, NEW c \in Contents, NEW ok \in BOOLEAN,
         checked' = Append(checked, [on |-> c, ok |-> ok])
  PROVE  /\ checked' \in Seq(Checks)
         /\ Passed' = IF ok THEN Passed \cup {c} ELSE Passed
<1> DEFINE e == [on |-> c, ok |-> ok]
<1>1. e \in Checks /\ checked \in Seq(Checks)
  BY DEF Checks, TypeOK
<1>2. /\ checked' \in Seq(Checks)
      /\ DOMAIN checked' = DOMAIN checked \cup {Len(checked) + 1}
      /\ checked'[Len(checked) + 1] = e
      /\ \A i \in DOMAIN checked : checked'[i] = checked[i]
  BY <1>1, Appended
<1>3. e.on = c /\ e.ok = ok
  OBVIOUS
<1> HIDE DEF e
<1>4. QED  BY <1>2, <1>3 DEF Passed

LEMMA ApprovalsGrow ==
  ASSUME TypeOK, NEW p \in People, NEW c \in Contents, NEW ok \in BOOLEAN,
         reviews' = Append(reviews, [by |-> p, on |-> c, ok |-> ok])
  PROVE  /\ reviews' \in Seq(Verdicts)
         /\ Approvals' = IF ok THEN Approvals \cup {<<p, c>>} ELSE Approvals
<1> DEFINE e == [by |-> p, on |-> c, ok |-> ok]
<1>1. e \in Verdicts /\ reviews \in Seq(Verdicts)
  BY DEF Verdicts, TypeOK
<1>2. /\ reviews' \in Seq(Verdicts)
      /\ DOMAIN reviews' = DOMAIN reviews \cup {Len(reviews) + 1}
      /\ reviews'[Len(reviews) + 1] = e
      /\ \A i \in DOMAIN reviews : reviews'[i] = reviews[i]
  BY <1>1, Appended
<1>3. e.by = p /\ e.on = c /\ e.ok = ok
  OBVIOUS
<1> HIDE DEF e
<1>4. QED  BY <1>2, <1>3 DEF Approvals

LEMMA PublishedGrows ==
  ASSUME TypeOK, NEW c \in Contents,
         versions' = Append(versions, [on |-> c, retired |-> FALSE])
  PROVE  versions' \in Seq(Packages) /\ Published' = Published \cup {c}
<1> DEFINE e == [on |-> c, retired |-> FALSE]
<1>1. e \in Packages /\ versions \in Seq(Packages)
  BY DEF Packages, TypeOK
<1>2. /\ versions' \in Seq(Packages)
      /\ DOMAIN versions' = DOMAIN versions \cup {Len(versions) + 1}
      /\ versions'[Len(versions) + 1] = e
      /\ \A i \in DOMAIN versions : versions'[i] = versions[i]
  BY <1>1, Appended
<1>3. e.on = c
  OBVIOUS
<1> HIDE DEF e
<1>4. QED  BY <1>2, <1>3 DEF Published

LEMMA RetiringKeeps ==
  ASSUME TypeOK,
         versions' = [v \in DOMAIN versions |-> [versions[v] EXCEPT !.retired = TRUE]]
  PROVE  versions' \in Seq(Packages) /\ Published' = Published
<1>1. versions \in Seq(Packages)
  BY DEF TypeOK, Packages
<1>2. /\ DOMAIN versions = 1..Len(versions) /\ Len(versions) \in Nat
      /\ \A v \in DOMAIN versions : versions[v] \in Packages
  BY <1>1, LenProperties, ElementOfSeq
<1>3. \A v \in DOMAIN versions :
        versions'[v] \in Packages /\ versions'[v].on = versions[v].on
  BY <1>2 DEF Packages
<1>4. DOMAIN versions' = DOMAIN versions
  OBVIOUS
<1>5. versions' \in Seq(Packages)
  <2>1. versions' \in [1..Len(versions) -> Packages]
    BY <1>2, <1>3
  <2>2. QED  BY <1>2, <2>1, SeqDef
<1>6. Published' = Published
  BY <1>3, <1>4 DEF Published
<1>7. QED  BY <1>5, <1>6

LEMMA IdleType == Idle(Blank) \in RequestStates
  BY DEF Idle, Blank, RequestStates, Drafted, DraftStatuses, Edits

LEMMA IdleFits ==
  ASSUME NEW a \in Actors
  PROVE  SlotFits(a, Idle(Blank)) /\ SlotFits(a, Idle(Blank))'
  BY DEF SlotFits, ReadFits, GateFits, SawCheck, SawPreview,
     SawApproval, ReviewFits, KindFits, Idle

LEMMA InitIInv == Init => IInv
<1> SUFFICES ASSUME Init PROVE IInv
  OBVIOUS
<1>1. draft \in Drafted /\ prot \in Edits /\ edits \in Edits /\ draft.status = "draft"
  <2>1. PICK first \in {0, 1} \cap Edits :
          /\ draft = [revision |-> 1, pkg |-> first, status |-> "draft"]
          /\ prot = first /\ edits = first
    BY DEF Init
  <2>2. QED  BY <2>1 DEF Drafted, DraftStatuses
<1>2. checked = << >> /\ reviews = << >> /\ previews = {} /\ versions = << >>
  BY DEF Init
<1>3. req \in [Actors -> RequestStates] /\ \A a \in Actors : req[a] = Idle(Blank)
  BY IdleType DEF Init
<1>4. asked \in 0..MaxRequests
  BY DEF Init
<1>5. TypeOK
  BY <1>1, <1>2, <1>3, <1>4 DEF TypeOK
<1>6. Approvals = {} /\ Published = {}
  BY <1>2 DEF Approvals, Published
<1>7. ApprovalsFit /\ PublishedFit /\ InReviewWasApproved
  BY <1>1, <1>6 DEF ApprovalsFit, PublishedFit, InReviewWasApproved
<1>8. \A a \in Actors : SlotFits(a, req[a])
  BY <1>3, IdleFits
<1>9. QED  BY <1>5, <1>7, <1>8 DEF IInv

-----------------------------------------------------------------------------
(* Steps of one actor *)

(* The draft goes on: another package comes with another revision.         *)
GoesOn ==
  /\ draft' \in Drafted
  /\ draft'.revision >= draft.revision
  /\ draft'.revision = draft.revision => draft'.pkg = draft.pkg

(* What was recorded stays recorded.                                       *)
RecordsKept ==
  Passed \subseteq Passed' /\ previews \subseteq previews' /\ Approvals \subseteq Approvals'

RowTypes ==
  /\ prot \in Edits
  /\ checked \in Seq(Checks)
  /\ reviews \in Seq(Verdicts)
  /\ previews \subseteq People \X Contents
  /\ versions \in Seq(Packages)
  /\ edits \in Edits /\ asked \in 0..MaxRequests

LEMMA ActorSteps ==
  ASSUME IInv, NEW a \in Actors, NEW r \in RequestStates,
         req' = [req EXCEPT ![a] = r], GoesOn, RecordsKept, RowTypes',
         ApprovalsFit', PublishedFit', InReviewWasApproved', SlotFits(a, r)'
  PROVE  IInv'
<1>1. TypeOK
  BY DEF IInv
<1>2. TypeOK'
  BY <1>1 DEF TypeOK, RowTypes, GoesOn, Checks, Verdicts, Packages
<1>3. ASSUME NEW b \in Actors PROVE SlotFits(b, req[b])'
  <2>1. CASE b = a
    BY <1>1, <2>1 DEF TypeOK
  <2>2. CASE b # a
    <3>1. req'[b] = req[b] /\ req[b] \in RequestStates /\ SlotFits(b, req[b])
      BY <1>1, <2>2 DEF TypeOK, IInv
    <3>2. draft.revision \in Nat /\ draft'.revision \in Nat /\ req[b].row.revision \in Nat
      BY <1>1, <3>1 DEF TypeOK, GoesOn, Drafted, RequestStates
    <3>3. ReadFits(req[b])'
      BY <3>1, <3>2 DEF SlotFits, ReadFits, GoesOn
    <3>4. GateFits(b, req[b])'
      BY <3>1 DEF SlotFits, GateFits, SawCheck, SawPreview, SawApproval, RecordsKept
    <3>5. ReviewFits(req[b])'
      BY <3>1 DEF SlotFits, ReviewFits, RecordsKept
    <3>6. KindFits(b, req[b])'
      BY <3>1 DEF SlotFits, KindFits
    <3>7. QED  BY <3>3, <3>4, <3>5, <3>6 DEF SlotFits
  <2>3. QED  BY <2>1, <2>2
<1>4. QED  BY <1>2, <1>3 DEF IInv

(* Nothing recorded changes.                                               *)
LEMMA UnrecordedSteps ==
  ASSUME IInv, NEW a \in Actors, NEW r \in RequestStates,
         req' = [req EXCEPT ![a] = r], GoesOn, UNCHANGED rows,
         prot' \in Edits, edits' \in Edits, asked' \in 0..MaxRequests,
         InReviewWasApproved', SlotFits(a, r)'
  PROVE  IInv'
<1>1. /\ Passed' = Passed /\ Approvals' = Approvals /\ Published' = Published
      /\ previews' = previews
  BY DEF rows, Passed, Approvals, Published
<1>2. RowTypes'
  BY DEF IInv, TypeOK, RowTypes, rows, Checks, Verdicts, Packages
<1>3. RecordsKept /\ ApprovalsFit' /\ PublishedFit'
  BY <1>1 DEF IInv, RecordsKept, ApprovalsFit, PublishedFit, Cleared
<1>4. QED  BY <1>2, <1>3, ActorSteps

LEMMA DraftStays == ASSUME IInv, UNCHANGED draft PROVE GoesOn
  BY DEF IInv, TypeOK, GoesOn, Drafted

(* Only what a request read changes.                                       *)
LEMMA ReadingSteps ==
  ASSUME IInv, NEW a \in Actors, NEW r \in RequestStates,
         req' = [req EXCEPT ![a] = r], UNCHANGED <<draft, rows>>,
         prot' \in Edits, edits' \in Edits, asked' \in 0..MaxRequests,
         SlotFits(a, r)'
  PROVE  IInv'
<1>1. InReviewWasApproved'
  BY DEF IInv, InReviewWasApproved, rows, Approvals
<1>2. QED  BY <1>1, DraftStays, UnrecordedSteps

-----------------------------------------------------------------------------
(* The actions *)

LEMMA ReadDraftIInv ==
  ASSUME IInv, NEW a \in Actors, NEW kind \in Kinds(a), ReadDraft(a, kind)
  PROVE  IInv'
<1> DEFINE pc == IF kind = "archive" THEN "write" ELSE "materials"
           slot == [Idle(draft) EXCEPT !.kind = kind, !.pc = pc]
<1>1. TypeOK /\ req' = [req EXCEPT ![a] = slot] /\ UNCHANGED <<draft, prot, rows, edits>>
  BY DEF IInv, ReadDraft
<1>2. prot' \in Edits /\ edits' \in Edits /\ asked' \in 0..MaxRequests
  BY <1>1 DEF ReadDraft, TypeOK
<1>3. /\ draft \in Drafted /\ 0 \in Edits /\ draft.revision \in Nat
      /\ kind \in {"save", "preview", "review", "publish", "archive", "generate", "test"}
  BY <1>1 DEF TypeOK, Drafted, Edits, Kinds
<1>4. pc \in {"write", "materials"} /\ (pc = "write" => kind = "archive")
  OBVIOUS
<1> HIDE DEF pc
<1>5. /\ slot \in RequestStates
      /\ slot.row = draft /\ slot.pc = pc /\ slot.kind = kind
  BY <1>3, <1>4 DEF Idle, RequestStates
<1> HIDE DEF slot
<1> PICK r \in RequestStates : r = slot
  BY <1>5
<1>6. SlotFits(a, r)'
  BY <1>1, <1>3, <1>4, <1>5 DEF SlotFits, ReadFits, GateFits, SawCheck, SawPreview,
     SawApproval, ReviewFits, KindFits
<1>7. QED  BY <1>1, <1>2, <1>6, ReadingSteps

LEMMA ReadProtectedIInv ==
  ASSUME IInv, NEW a \in Actors, ReadProtected(a)
  PROVE  IInv'
<1> DEFINE pc == IF req[a].kind \in {"review", "publish"} THEN "gate" ELSE "write"
           slot == [req[a] EXCEPT !.prot = prot, !.pc = pc]
<1>1. /\ TypeOK /\ SlotFits(a, req[a]) /\ UNCHANGED <<draft, prot, rows, edits, asked>>
      /\ req[a].pc = "materials" /\ req[a] \in RequestStates
  BY DEF IInv, TypeOK, ReadProtected
<1>2. req' = [req EXCEPT ![a] = slot]
  BY <1>1 DEF ReadProtected, TypeOK
<1>3. prot \in Edits /\ prot' \in Edits /\ edits' \in Edits /\ asked' \in 0..MaxRequests
  BY <1>1 DEF TypeOK
<1>4. pc \in {"gate", "write"} /\ (pc = "write" => req[a].kind \notin {"review", "publish"})
  OBVIOUS
<1> HIDE DEF pc
<1>5. /\ slot \in RequestStates
      /\ slot.row = req[a].row /\ slot.pc = pc /\ slot.kind = req[a].kind
  BY <1>1, <1>3, <1>4 DEF RequestStates
<1> HIDE DEF slot
<1> PICK r \in RequestStates : r = slot
  BY <1>5
<1>6. SlotFits(a, r)'
  BY <1>1, <1>4, <1>5 DEF SlotFits, ReadFits, GateFits, SawCheck, SawPreview,
     SawApproval, ReviewFits, KindFits
<1>7. QED  BY <1>1, <1>2, <1>3, <1>6, ReadingSteps

(* An actor answers, and nothing is recorded. *)
LEMMA AnswerSteps ==
  ASSUME IInv, NEW a \in Actors, Answer(a), GoesOn,
         UNCHANGED <<prot, rows, asked>>, edits' \in Edits, InReviewWasApproved'
  PROVE  IInv'
<1>1. prot' \in Edits /\ asked' \in 0..MaxRequests
  BY DEF IInv, TypeOK
<1>2. QED  BY <1>1, IdleType, IdleFits, UnrecordedSteps DEF Answer

(* The package a request writes over the one it read. *)
LEMMA Rewriting ==
  ASSUME IInv, NEW a \in Actors, req[a].pc = "write", req[a].kind \in {"save", "generate"},
         Matches(a), edits < MaxEdits, draft' = Rewritten(a), edits' = edits + 1
  PROVE  /\ GoesOn /\ InReviewWasApproved' /\ edits' \in Edits
         /\ draft'.revision = draft.revision + 1
<1>1. /\ TypeOK /\ req[a] \in RequestStates
      /\ req[a].row.revision \in Nat /\ draft.revision \in Nat /\ edits \in Nat
  BY DEF IInv, TypeOK, RequestStates, Drafted, Edits
<1>2. edits + 1 \in Edits
  BY <1>1 DEF Edits
<1>3. /\ draft' \in Drafted /\ draft'.revision = draft.revision + 1
      /\ draft'.status = "draft"
  BY <1>1, <1>2 DEF Rewritten, Matches, Drafted, DraftStatuses
<1>4. QED  BY <1>1, <1>2, <1>3 DEF GoesOn, InReviewWasApproved

(* A rewrite goes on to the protected materials. *)
LEMMA ToProtect ==
  ASSUME IInv, NEW a \in Actors, req[a].pc = "write", req[a].kind \in {"save", "generate"},
         edits < MaxEdits, edits' = edits + 1, GoesOn,
         req' = [req EXCEPT ![a].pc = "protect", ![a].edit = edits + 1],
         draft' = draft \/ draft'.revision = draft.revision + 1,
         InReviewWasApproved', UNCHANGED <<prot, rows, asked>>
  PROVE  IInv'
<1> DEFINE e == edits + 1
           slot == [req[a] EXCEPT !.pc = "protect", !.edit = e]
<1>1. TypeOK /\ req[a] \in RequestStates /\ SlotFits(a, req[a])
  BY DEF IInv, TypeOK
<1>2. /\ e \in Edits /\ edits' \in Edits /\ prot' \in Edits
      /\ asked' \in 0..MaxRequests
  BY <1>1 DEF TypeOK, Edits
<1>3. req' = [req EXCEPT ![a] = slot]
  BY <1>1 DEF TypeOK
<1> HIDE DEF e
<1>4. /\ slot \in RequestStates
      /\ slot.row = req[a].row /\ slot.pc = "protect" /\ slot.kind = req[a].kind
  BY <1>1, <1>2 DEF RequestStates
<1>5. draft.revision \in Nat /\ draft'.revision \in Nat /\ req[a].row.revision \in Nat
  BY <1>1 DEF TypeOK, GoesOn, Drafted, RequestStates
<1> HIDE DEF slot
<1> PICK r \in RequestStates : r = slot
  BY <1>4
<1>6. SlotFits(a, r)'
  BY <1>1, <1>4, <1>5 DEF SlotFits, ReadFits, GateFits, SawCheck, SawPreview,
     SawApproval, ReviewFits, KindFits, GoesOn
<1>7. QED  BY <1>2, <1>3, <1>6, UnrecordedSteps

LEMMA SaveSectionIInv ==
  ASSUME IInv, NEW a \in Actors, SaveSection(a)
  PROVE  IInv'
<1>1. /\ req[a].pc = "write" /\ req[a].kind = "save" /\ Matches(a)
      /\ edits < MaxEdits /\ edits' = edits + 1 /\ draft' = Rewritten(a)
      /\ UNCHANGED <<prot, rows, asked>>
  BY DEF SaveSection, At
<1>2. /\ GoesOn /\ InReviewWasApproved' /\ edits' \in Edits
      /\ draft'.revision = draft.revision + 1
  BY <1>1, Rewriting
<1>3. CASE Answer(a)
  BY <1>1, <1>2, <1>3, AnswerSteps
<1>4. CASE req' = [req EXCEPT ![a].pc = "protect", ![a].edit = edits + 1]
  BY <1>1, <1>2, <1>4, ToProtect
<1>5. QED  BY <1>3, <1>4 DEF SaveSection

LEMMA StoreDraftIInv ==
  ASSUME IInv, NEW a \in Actors, StoreDraft(a)
  PROVE  IInv'
<1>1. /\ req[a].pc = "write" /\ req[a].kind = "generate"
      /\ edits < MaxEdits /\ edits' = edits + 1
      /\ UNCHANGED <<prot, rows, asked>>
      /\ req' = [req EXCEPT ![a].pc = "protect", ![a].edit = edits + 1]
  BY DEF StoreDraft, At
<1>2. CASE Matches(a)
  <2>1. draft' = Rewritten(a)
    BY <1>2 DEF StoreDraft
  <2>2. GoesOn /\ InReviewWasApproved' /\ draft'.revision = draft.revision + 1
    BY <1>1, <1>2, <2>1, Rewriting
  <2>3. QED  BY <1>1, <2>2, ToProtect
<1>3. CASE ~Matches(a)
  <2>1. draft' = draft
    BY <1>3 DEF StoreDraft
  <2>2. GoesOn /\ InReviewWasApproved'
    BY <1>1, <2>1, DraftStays DEF IInv, InReviewWasApproved, rows, Approvals
  <2>3. QED  BY <1>1, <2>1, <2>2, ToProtect
<1>4. QED  BY <1>2, <1>3

LEMMA SaveProtectedIInv ==
  ASSUME IInv, NEW a \in Actors, SaveProtected(a)
  PROVE  IInv'
<1>1. /\ TypeOK /\ req[a] \in RequestStates /\ SlotFits(a, req[a])
      /\ req[a].pc = "protect" /\ UNCHANGED <<draft, rows, edits, asked>>
  BY DEF IInv, TypeOK, SaveProtected
<1>2. /\ req[a].edit \in Edits /\ prot' \in Edits /\ edits' \in Edits
      /\ asked' \in 0..MaxRequests
  BY <1>1 DEF SaveProtected, TypeOK, RequestStates
<1>3. CASE Answer(a)
  BY <1>1, <1>2, <1>3, IdleType, IdleFits, ReadingSteps DEF Answer
<1>4. CASE ~Answer(a)
  <2> DEFINE e == req[a].edit
             row == [req[a].row EXCEPT !.pkg = e]
             slot == [req[a] EXCEPT !.pc = "end", !.prot = e, !.row = row]
  <2>1. req[a].kind # "save" /\ req' = [req EXCEPT ![a] = slot]
    <3>1. /\ req[a].kind # "save"
          /\ req' = [req EXCEPT ![a].pc = "end", ![a].prot = e, ![a].row.pkg = e]
      BY <1>4 DEF SaveProtected
    <3>2. QED  BY <1>1, <3>1 DEF TypeOK, RequestStates
  <2>2. row \in Drafted
    BY <1>1, <1>2 DEF RequestStates, Drafted
  <2> HIDE DEF row
  <2>3. slot \in RequestStates /\ slot.pc = "end" /\ slot.kind = req[a].kind
    BY <1>1, <1>2, <2>2 DEF RequestStates
  <2> HIDE DEF slot
  <2> PICK r \in RequestStates : r = slot
    BY <2>3
  <2>4. req[a].kind = "generate"
    BY <1>1, <2>1 DEF SlotFits, KindFits
  <2>5. SlotFits(a, r)'
    BY <1>1, <2>3, <2>4 DEF SlotFits, ReadFits, GateFits, SawCheck, SawPreview,
     SawApproval, ReviewFits, KindFits
  <2>6. QED  BY <1>1, <1>2, <2>1, <2>5, ReadingSteps
<1>5. QED  BY <1>3, <1>4

LEMMA ShaType ==
  ASSUME TypeOK, NEW a \in Actors
  PROVE  Sha(a) \in Contents
  BY DEF TypeOK, Sha, Contents, RequestStates, Drafted

LEMMA LeaveIInv ==
  ASSUME IInv, NEW a \in Actors, Leave(a)
  PROVE  IInv'
<1>1. Answer(a) /\ UNCHANGED <<draft, prot, rows, edits, asked>>
  BY DEF Leave
<1>2. edits' \in Edits /\ GoesOn /\ InReviewWasApproved'
  BY <1>1, DraftStays DEF IInv, TypeOK, InReviewWasApproved, rows, Approvals
<1>3. QED  BY <1>1, <1>2, AnswerSteps

LEMMA RecordValidationIInv ==
  ASSUME IInv, NEW a \in Actors, RecordValidation(a)
  PROVE  IInv'
<1>1. /\ TypeOK /\ Sha(a) \in Contents /\ Answer(a)
      /\ UNCHANGED <<draft, prot, reviews, previews, versions, edits, asked>>
  BY ShaType DEF IInv, RecordValidation
<1>2. PICK ok \in BOOLEAN : checked' = Append(checked, [on |-> Sha(a), ok |-> ok])
  BY DEF RecordValidation
<1>3. checked' \in Seq(Checks) /\ Passed \subseteq Passed'
  BY <1>1, <1>2, PassedGrows
<1>4. Approvals' = Approvals /\ Published' = Published
  BY <1>1 DEF Approvals, Published
<1>5. RowTypes'
  BY <1>1, <1>3 DEF TypeOK, RowTypes, Verdicts, Packages
<1>6. RecordsKept /\ ApprovalsFit' /\ PublishedFit' /\ InReviewWasApproved'
  BY <1>1, <1>3, <1>4 DEF IInv, RecordsKept, ApprovalsFit, PublishedFit, Cleared,
     InReviewWasApproved
<1>7. QED  BY <1>1, <1>5, <1>6, DraftStays, IdleType, IdleFits, ActorSteps DEF Answer

(* A preview is a member's. *)
LEMMA OpenPreviewIInv ==
  ASSUME IInv, NEW a \in Actors, OpenPreview(a)
  PROVE  IInv'
<1>1. /\ TypeOK /\ Sha(a) \in Contents /\ Answer(a)
      /\ previews' = previews \cup {<<a, Sha(a)>>}
      /\ UNCHANGED <<draft, prot, checked, reviews, versions, edits, asked>>
  BY ShaType DEF IInv, OpenPreview
<1>2. a \in People
  BY DEF IInv, SlotFits, KindFits, Kinds, OpenPreview, At
<1>3. RowTypes'
  BY <1>1, <1>2 DEF TypeOK, RowTypes, Checks, Verdicts, Packages
<1>4. Passed' = Passed /\ Approvals' = Approvals /\ Published' = Published
  BY <1>1 DEF Passed, Approvals, Published
<1>5. RecordsKept /\ ApprovalsFit' /\ PublishedFit' /\ InReviewWasApproved'
  BY <1>1, <1>4 DEF IInv, RecordsKept, ApprovalsFit, PublishedFit, Cleared,
     InReviewWasApproved
<1>6. QED  BY <1>1, <1>3, <1>5, DraftStays, IdleType, IdleFits, ActorSteps DEF Answer

(* The newest check, if it passed, is one that passed. *)
LEMMA NewestPassed ==
  ASSUME TypeOK, NEW c, checked # << >>, Last(checked) = [on |-> c, ok |-> TRUE]
  PROVE  c \in Passed
<1>1. Len(checked) \in DOMAIN checked
  BY EmptySeq, LenProperties DEF TypeOK
<1>2. checked[Len(checked)].on = c /\ checked[Len(checked)].ok
  BY DEF Last
<1>3. QED  BY <1>1, <1>2 DEF Passed

LEMMA NewestApproved ==
  ASSUME TypeOK, reviews # << >>, Last(reviews).ok
  PROVE  \E p \in People : <<p, Last(reviews).on>> \in Approvals
<1> reviews \in Seq(Verdicts)
  BY DEF TypeOK, Verdicts
<1>1. Len(reviews) \in 1..Len(reviews) /\ Len(reviews) \in DOMAIN reviews
  BY EmptySeq, LenProperties
<1>2. reviews[Len(reviews)] \in Verdicts
  BY <1>1, ElementOfSeq
<1>3. reviews[Len(reviews)].by \in People
  BY <1>2 DEF Verdicts
<1>4. QED  BY <1>1, <1>3 DEF Approvals, Last

(* A review or a publication goes on with what it read. *)
LEMMA GateSteps ==
  ASSUME IInv, NEW a \in Actors, NEW r \in RequestStates,
         req' = [req EXCEPT ![a] = r], UNCHANGED <<draft, prot, rows, edits, asked>>,
         req[a].pc \in {"gate", "opened", "check", "approval", "expect"},
         r.kind = req[a].kind, r.row = req[a].row, r.prot = req[a].prot,
         r.pc \in {"opened", "check", "approval", "expect", "write"}, GateFits(a, r)
  PROVE  IInv'
<1>1. /\ TypeOK /\ SlotFits(a, req[a])
      /\ Passed' = Passed /\ Approvals' = Approvals /\ previews' = previews
  BY DEF IInv, rows, Passed, Approvals
<1>2. /\ prot' \in Edits /\ edits' \in Edits /\ asked' \in 0..MaxRequests
  BY <1>1 DEF TypeOK
<1>3. GateFits(a, r)'
  BY <1>1 DEF GateFits, SawCheck, SawPreview, SawApproval
<1>4. SlotFits(a, r)'
  BY <1>1, <1>3 DEF SlotFits, ReadFits, ReviewFits, KindFits
<1>5. QED  BY <1>2, <1>4, ReadingSteps

LEMMA GateGoes ==
  ASSUME IInv, NEW a \in Actors,
         NEW pc \in {"opened", "check", "approval", "expect", "write"}, Goto(a, pc)
  PROVE  \E r \in RequestStates :
           /\ req' = [req EXCEPT ![a] = r] /\ r.kind = req[a].kind /\ r.pc = pc
           /\ r.row = req[a].row /\ r.prot = req[a].prot /\ r.decision = req[a].decision
<1> DEFINE slot == [req[a] EXCEPT !.pc = pc]
<1>1. req[a] \in RequestStates /\ req' = [req EXCEPT ![a] = slot]
  BY DEF IInv, TypeOK, Goto
<1>2. /\ slot \in RequestStates /\ slot.kind = req[a].kind /\ slot.pc = pc
      /\ slot.row = req[a].row /\ slot.prot = req[a].prot
      /\ slot.decision = req[a].decision
  BY <1>1 DEF RequestStates
<1>3. QED  BY <1>1, <1>2

LEMMA ReviewCheckIInv ==
  ASSUME IInv, NEW a \in Actors, NEW ok \in BOOLEAN, ReviewCheck(a, ok)
  PROVE  IInv'
<1> DEFINE pc == IF ok THEN "opened" ELSE "write"
           slot == [req[a] EXCEPT !.decision = ok, !.pc = pc]
<1>1. /\ TypeOK /\ req[a] \in RequestStates
      /\ req[a].kind = "review" /\ req[a].pc = "gate"
      /\ UNCHANGED <<draft, prot, rows, edits, asked>>
      /\ ok => Sha(a) \in Passed
  BY NewestPassed DEF IInv, TypeOK, ReviewCheck, At, CheckPassed
<1>2. req' = [req EXCEPT ![a] = slot]
  BY <1>1 DEF ReviewCheck, TypeOK
<1>3. pc \in {"opened", "write"} /\ (ok => pc = "opened")
  OBVIOUS
<1> HIDE DEF pc
<1>4. /\ slot \in RequestStates /\ slot.kind = "review" /\ slot.pc = pc
      /\ slot.row = req[a].row /\ slot.prot = req[a].prot /\ slot.decision = ok
  BY <1>1, <1>3 DEF RequestStates
<1> HIDE DEF slot
<1>5. GateFits(a, slot)
  <2>1. CASE ok
    BY <1>1, <1>3, <1>4, <2>1 DEF GateFits, SawCheck, SawPreview, SawApproval, Sha
  <2>2. CASE ~ok
    <3>1. pc = "write"
      BY <2>2 DEF pc
    <3>2. QED  BY <1>4, <2>2, <3>1 DEF GateFits, SawCheck, SawPreview, SawApproval
  <2>3. QED  BY <2>1, <2>2
<1>6. QED  BY <1>1, <1>2, <1>3, <1>4, <1>5, GateSteps

LEMMA ReviewPreviewIInv ==
  ASSUME IInv, NEW a \in Actors, ReviewPreview(a)
  PROVE  IInv'
<1>1. /\ GateFits(a, req[a]) /\ req[a].kind = "review" /\ req[a].pc = "opened"
      /\ UNCHANGED <<draft, prot, rows, edits, asked>> /\ Goto(a, "write")
      /\ <<a, Sha(a)>> \in previews
  BY DEF IInv, SlotFits, ReviewPreview, At, HasOpened
<1>2. PICK r \in RequestStates :
        /\ req' = [req EXCEPT ![a] = r] /\ r.kind = req[a].kind /\ r.pc = "write"
        /\ r.row = req[a].row /\ r.prot = req[a].prot
  BY <1>1, GateGoes
<1>3. GateFits(a, r)
  BY <1>1, <1>2 DEF GateFits, SawCheck, SawPreview, SawApproval, Sha
<1>4. QED  BY <1>1, <1>2, <1>3, GateSteps

(* An approval is of what passed, by somebody who had opened it.           *)
LEMMA ApprovalIsAllowed ==
  ASSUME IInv, NEW a \in Actors, RecordApproval(a), req[a].decision
  PROVE  Sha(a) \in Passed /\ <<a, Sha(a)>> \in previews
  BY DEF IInv, SlotFits, GateFits, SawCheck, SawPreview, RecordApproval, At, Sha

LEMMA RecordApprovalIInv ==
  ASSUME IInv, NEW a \in Actors, RecordApproval(a)
  PROVE  IInv'
<1> DEFINE ok == req[a].decision
<1>1. /\ TypeOK /\ Sha(a) \in Contents /\ req[a] \in RequestStates
      /\ SlotFits(a, req[a]) /\ ok \in BOOLEAN
      /\ req[a].kind = "review" /\ req[a].pc = "write"
      /\ UNCHANGED <<draft, prot, checked, previews, versions, edits, asked>>
  BY ShaType DEF IInv, TypeOK, RecordApproval, At, RequestStates
<1>2. a \in People
  BY <1>1 DEF SlotFits, KindFits, Kinds
<1>3. /\ reviews' \in Seq(Verdicts)
      /\ Approvals' = IF ok THEN Approvals \cup {<<a, Sha(a)>>} ELSE Approvals
  BY <1>1, <1>2, ApprovalsGrow DEF RecordApproval
<1>4. Passed' = Passed /\ Published' = Published
  BY <1>1 DEF Passed, Published
<1>5. ok => Sha(a) \in Passed /\ <<a, Sha(a)>> \in previews
  BY ApprovalIsAllowed
<1>6. RowTypes'
  BY <1>1, <1>3 DEF TypeOK, RowTypes, Checks, Packages
<1>7. RecordsKept /\ ApprovalsFit'
  BY <1>1, <1>3, <1>4, <1>5 DEF IInv, RecordsKept, ApprovalsFit
<1>8. PublishedFit' /\ InReviewWasApproved'
  BY <1>1, <1>4, <1>7 DEF IInv, RecordsKept, PublishedFit, Cleared, InReviewWasApproved
<1> DEFINE slot == [req[a] EXCEPT !.pc = "end"]
<1>9. req' = [req EXCEPT ![a] = slot]
  BY <1>1 DEF RecordApproval, Goto, TypeOK
<1>10. /\ slot \in RequestStates /\ slot.pc = "end" /\ slot.kind = "review"
       /\ slot.row = req[a].row /\ slot.decision = ok
  BY <1>1 DEF RequestStates
<1> HIDE DEF slot
<1> PICK r \in RequestStates : r = slot
  BY <1>10
<1>11. ReviewFits(r)'
  <2>1. CASE ok
    <3>1. <<a, Sha(a)>> \in Approvals' /\ <<a, Sha(a)>>[2][1] = r.row.pkg
      BY <1>3, <1>10, <2>1 DEF Sha
    <3>2. QED  BY <3>1 DEF ReviewFits
  <2>2. CASE ~ok
    BY <1>10, <2>2 DEF ReviewFits
  <2>3. QED  BY <2>1, <2>2
<1>12. SlotFits(a, r)'
  BY <1>1, <1>10, <1>11 DEF SlotFits, ReadFits, GateFits, SawCheck, SawPreview, SawApproval,
     KindFits
<1>13. QED
  BY <1>1, <1>6, <1>7, <1>8, <1>9, <1>12, DraftStays, ActorSteps

(* The revision that was reviewed is still there, and so is its package.   *)
LEMMA MarkReviewedIInv ==
  ASSUME IInv, NEW a \in Actors, MarkReviewed(a)
  PROVE  IInv'
<1>1. /\ TypeOK /\ SlotFits(a, req[a]) /\ req[a].kind = "review" /\ req[a].pc = "end"
      /\ req[a].decision \in BOOLEAN
      /\ Answer(a) /\ UNCHANGED <<prot, rows, edits, asked>>
  BY DEF IInv, TypeOK, MarkReviewed, At, RequestStates
<1>2. edits' \in Edits /\ Approvals' = Approvals
  BY <1>1 DEF TypeOK, rows, Approvals
<1>3. CASE Matches(a)
  <2>1. draft' = [draft EXCEPT !.status = StatusAfter(req[a].decision)]
    BY <1>3 DEF MarkReviewed
  <2>2. /\ draft' \in Drafted /\ draft'.pkg = draft.pkg
        /\ draft'.revision = draft.revision /\ draft.revision \in Nat
        /\ draft'.status = "in_review" => req[a].decision
    BY <1>1, <2>1 DEF TypeOK, Drafted, DraftStatuses, StatusAfter
  <2>3. req[a].row.pkg = draft.pkg
    BY <1>1, <1>3 DEF SlotFits, ReadFits, Matches
  <2>4. InReviewWasApproved'
    BY <1>1, <1>2, <2>2, <2>3 DEF SlotFits, ReviewFits, InReviewWasApproved
  <2>5. QED  BY <1>1, <1>2, <2>2, <2>4, AnswerSteps DEF GoesOn
<1>4. CASE ~Matches(a)
  <2>1. UNCHANGED draft
    BY <1>4 DEF MarkReviewed
  <2>2. GoesOn /\ InReviewWasApproved'
    BY <1>2, <2>1, DraftStays DEF IInv, InReviewWasApproved
  <2>3. QED  BY <1>1, <1>2, <2>2, AnswerSteps
<1>5. QED  BY <1>3, <1>4

(* The gate of a publication, on what it read: the content passed, and was *)
(* approved.                                                               *)
LEMMA PublishCheckIInv ==
  ASSUME IInv, NEW a \in Actors, PublishCheck(a)
  PROVE  IInv'
<1> DEFINE next == IF req[a].pc = "gate" THEN "approval" ELSE "expect"
<1>1. /\ TypeOK /\ GateFits(a, req[a]) /\ req[a].kind = "publish"
      /\ req[a].pc \in {"gate", "check"} /\ Goto(a, next)
      /\ UNCHANGED <<draft, prot, rows, edits, asked>> /\ Sha(a) \in Passed
  BY NewestPassed DEF IInv, SlotFits, PublishCheck, At, CheckPassed
<1>2. next \in {"approval", "expect"} /\ (next = "expect" => req[a].pc = "check")
  BY <1>1
<1> HIDE DEF next
<1>3. PICK r \in RequestStates :
        /\ req' = [req EXCEPT ![a] = r] /\ r.kind = req[a].kind /\ r.pc = next
        /\ r.row = req[a].row /\ r.prot = req[a].prot
  BY <1>1, <1>2, GateGoes
<1>4. GateFits(a, r)
  BY <1>1, <1>2, <1>3 DEF GateFits, SawCheck, SawPreview, SawApproval, Sha
<1>5. QED  BY <1>1, <1>2, <1>3, <1>4, GateSteps

LEMMA PublishApprovalIInv ==
  ASSUME IInv, NEW a \in Actors, PublishApproval(a)
  PROVE  IInv'
<1> DEFINE next == IF req[a].pc = "gate" THEN "check" ELSE "expect"
<1>1. /\ TypeOK /\ GateFits(a, req[a]) /\ req[a].kind = "publish"
      /\ req[a].pc \in {"gate", "approval"} /\ Goto(a, next)
      /\ UNCHANGED <<draft, prot, rows, edits, asked>>
      /\ \E p \in People : <<p, Sha(a)>> \in Approvals
  BY NewestApproved DEF IInv, SlotFits, PublishApproval, At
<1>2. next \in {"check", "expect"} /\ (next = "expect" => req[a].pc = "approval")
  BY <1>1
<1> HIDE DEF next
<1>3. PICK r \in RequestStates :
        /\ req' = [req EXCEPT ![a] = r] /\ r.kind = req[a].kind /\ r.pc = next
        /\ r.row = req[a].row /\ r.prot = req[a].prot
  BY <1>1, <1>2, GateGoes
<1>4. GateFits(a, r)
  BY <1>1, <1>2, <1>3 DEF GateFits, SawCheck, SawPreview, SawApproval, Sha
<1>5. QED  BY <1>1, <1>2, <1>3, <1>4, GateSteps

LEMMA ReadExpectedIInv ==
  ASSUME IInv, NEW a \in Actors, ReadExpected(a)
  PROVE  IInv'
<1>1. /\ TypeOK /\ req[a] \in RequestStates /\ GateFits(a, req[a])
      /\ req[a].kind = "publish" /\ req[a].pc = "expect"
      /\ UNCHANGED <<draft, prot, rows, edits, asked>> /\ draft.revision \in Nat
  BY DEF IInv, TypeOK, SlotFits, ReadExpected, At, Drafted
<1> DEFINE slot == [req[a] EXCEPT !.pc = "write", !.expected = draft.revision]
<1>2. req' = [req EXCEPT ![a] = slot]
  BY <1>1 DEF ReadExpected, TypeOK
<1>3. /\ slot \in RequestStates /\ slot.pc = "write" /\ slot.kind = req[a].kind
      /\ slot.row = req[a].row /\ slot.prot = req[a].prot
  BY <1>1 DEF RequestStates
<1> HIDE DEF slot
<1>4. GateFits(a, slot)
  BY <1>1, <1>3 DEF GateFits, SawCheck, SawPreview, SawApproval
<1>5. QED  BY <1>1, <1>2, <1>3, <1>4, GateSteps

LEMMA PublishDraftIInv ==
  ASSUME IInv, NEW a \in Actors, PublishDraft(a)
  PROVE  IInv'
<1>1. /\ TypeOK /\ Sha(a) \in Contents /\ Answer(a)
      /\ req[a].kind = "publish" /\ req[a].pc = "write"
      /\ versions' = Append(versions, [on |-> Sha(a), retired |-> FALSE])
      /\ draft' = [draft EXCEPT !.status = "published"]
      /\ UNCHANGED <<prot, checked, reviews, previews, edits, asked>>
  BY ShaType DEF IInv, PublishDraft, At
<1>2. versions' \in Seq(Packages) /\ Published' = Published \cup {Sha(a)}
  BY <1>1, PublishedGrows
<1>3. Passed' = Passed /\ Approvals' = Approvals
  BY <1>1 DEF Passed, Approvals
<1>4. Cleared(Sha(a))
  BY <1>1 DEF IInv, SlotFits, GateFits, SawCheck, SawApproval, Cleared, Sha
<1>5. RowTypes'
  BY <1>1, <1>2 DEF TypeOK, RowTypes, Checks, Verdicts
<1>6. GoesOn /\ InReviewWasApproved'
  <2>1. /\ draft' \in Drafted /\ draft'.revision = draft.revision
        /\ draft'.pkg = draft.pkg /\ draft'.status = "published"
        /\ draft.revision \in Nat
    BY <1>1 DEF TypeOK, Drafted, DraftStatuses
  <2>2. QED  BY <2>1 DEF GoesOn, InReviewWasApproved
<1>7. RecordsKept /\ ApprovalsFit' /\ PublishedFit'
  BY <1>1, <1>2, <1>3, <1>4 DEF IInv, RecordsKept, ApprovalsFit, PublishedFit, Cleared
<1>8. QED  BY <1>1, <1>5, <1>6, <1>7, IdleType, IdleFits, ActorSteps DEF Answer

LEMMA ArchiveDraftIInv ==
  ASSUME IInv, NEW a \in Actors, ArchiveDraft(a)
  PROVE  IInv'
<1>1. /\ TypeOK /\ req[a] \in RequestStates /\ SlotFits(a, req[a])
      /\ req[a].kind = "archive" /\ req[a].pc = "write" /\ Goto(a, "end")
      /\ draft' = [draft EXCEPT !.status = "archived"]
      /\ UNCHANGED <<prot, rows, edits, asked>>
  BY DEF IInv, TypeOK, ArchiveDraft, At
<1>2. /\ prot' \in Edits /\ edits' \in Edits /\ asked' \in 0..MaxRequests
  BY <1>1 DEF TypeOK
<1>3. /\ GoesOn /\ InReviewWasApproved' /\ draft'.revision = draft.revision
      /\ draft'.pkg = draft.pkg
  <2>1. /\ draft' \in Drafted /\ draft'.revision = draft.revision
        /\ draft'.pkg = draft.pkg /\ draft'.status = "archived"
        /\ draft.revision \in Nat
    BY <1>1 DEF TypeOK, Drafted, DraftStatuses
  <2>2. QED  BY <2>1 DEF GoesOn, InReviewWasApproved
<1> DEFINE slot == [req[a] EXCEPT !.pc = "end"]
<1>4. req' = [req EXCEPT ![a] = slot]
  BY <1>1 DEF Goto, TypeOK
<1>5. /\ slot \in RequestStates /\ slot.pc = "end" /\ slot.kind = "archive"
      /\ slot.row = req[a].row
  BY <1>1 DEF RequestStates
<1> HIDE DEF slot
<1> PICK r \in RequestStates : r = slot
  BY <1>5
<1>6. SlotFits(a, r)'
  BY <1>1, <1>3, <1>5 DEF SlotFits, ReadFits, GateFits, SawCheck, SawPreview,
     SawApproval, ReviewFits, KindFits
<1>7. QED  BY <1>1, <1>2, <1>3, <1>4, <1>6, UnrecordedSteps

LEMMA RetireVersionsIInv ==
  ASSUME IInv, NEW a \in Actors, RetireVersions(a)
  PROVE  IInv'
<1>1. /\ TypeOK /\ Answer(a)
      /\ UNCHANGED <<draft, prot, checked, reviews, previews, edits, asked>>
  BY DEF IInv, RetireVersions
<1>2. versions' \in Seq(Packages) /\ Published' = Published
  BY <1>1, RetiringKeeps DEF RetireVersions
<1>3. Passed' = Passed /\ Approvals' = Approvals
  BY <1>1 DEF Passed, Approvals
<1>4. RowTypes'
  BY <1>1, <1>2 DEF TypeOK, RowTypes, Checks, Verdicts
<1>5. RecordsKept /\ ApprovalsFit' /\ PublishedFit' /\ InReviewWasApproved'
  BY <1>1, <1>2, <1>3 DEF IInv, RecordsKept, ApprovalsFit, PublishedFit, Cleared,
     InReviewWasApproved
<1>6. QED  BY <1>1, <1>4, <1>5, DraftStays, IdleType, IdleFits, ActorSteps DEF Answer

LEMMA NextIInv ==
  ASSUME IInv, [Next]_vars
  PROVE  IInv'
<1>1. ASSUME NEW a \in Actors, Step(a) PROVE IInv'
  <2>1. ASSUME NEW kind \in Kinds(a), ReadDraft(a, kind) PROVE IInv'
    BY <2>1, ReadDraftIInv
  <2>2. ASSUME NEW ok \in BOOLEAN, ReviewCheck(a, ok) PROVE IInv'
    BY <2>2, ReviewCheckIInv
  <2>3. QED
    BY <1>1, <2>1, <2>2, ReadProtectedIInv, SaveSectionIInv, StoreDraftIInv,
       SaveProtectedIInv, RecordValidationIInv, OpenPreviewIInv, ReviewPreviewIInv,
       RecordApprovalIInv, MarkReviewedIInv, PublishCheckIInv, PublishApprovalIInv,
       ReadExpectedIInv, PublishDraftIInv, ArchiveDraftIInv, RetireVersionsIInv, LeaveIInv
       DEF Step
<1>2. CASE UNCHANGED vars
  <2>1. /\ UNCHANGED <<draft, rows, req>> /\ Passed' = Passed
        /\ Approvals' = Approvals /\ Published' = Published
        /\ UNCHANGED <<previews, prot, checked, reviews, versions, edits, asked>>
    BY <1>2 DEF vars, rows, Passed, Approvals, Published
  <2>2. TypeOK' /\ ApprovalsFit' /\ PublishedFit' /\ InReviewWasApproved'
    BY <2>1 DEF IInv, TypeOK, ApprovalsFit, PublishedFit, Cleared, InReviewWasApproved
  <2>3. \A a \in Actors : SlotFits(a, req[a])'
    BY <2>1 DEF IInv, SlotFits, ReadFits, GateFits, ReviewFits, KindFits, Cleared
  <2>4. QED  BY <2>2, <2>3 DEF IInv
<1>3. QED  BY <1>1, <1>2 DEF Next

(* What every request under way still relies on (ReadFits, GateFits).      *)
THEOREM DraftsInvariant == Spec => []IInv
<1>1. Init => IInv
  BY InitIInv
<1>2. IInv /\ [Next]_vars => IInv'
  BY NextIInv
<1>3. QED  BY <1>1, <1>2, PTL DEF Spec

(* The rows and the requests stay in their types.                          *)
THEOREM DraftTypes == Spec => []TypeOK
<1>1. IInv => TypeOK
  BY DEF IInv
<1>2. QED  BY <1>1, DraftsInvariant, PTL

(* A draft shown as reviewed has a package somebody approved               *)
(* (recordApproval, saveSection).                                            *)
THEOREM ReviewedHolds == Spec => []InReviewWasApproved
<1>1. IInv => InReviewWasApproved
  BY DEF IInv
<1>2. QED  BY <1>1, DraftsInvariant, PTL

-----------------------------------------------------------------------------
(* No package is overwritten unread *)

LEMMA NextKeepsPackage ==
  ASSUME IInv, [Next]_vars, draft'.pkg # draft.pkg
  PROVE  \E a \in Actors : req'[a] # req[a] /\ req[a].row.pkg = draft.pkg
<1>1. TypeOK /\ draft \in Drafted
  BY DEF IInv, TypeOK
<1>2. ASSUME NEW a \in Actors, ReadProtected(a)
        \/ SaveProtected(a) \/ RecordValidation(a) \/ OpenPreview(a)
        \/ (\E ok \in BOOLEAN : ReviewCheck(a, ok)) \/ (\E k \in Kinds(a) : ReadDraft(a, k))
        \/ ReviewPreview(a) \/ RecordApproval(a) \/ PublishCheck(a) \/ PublishApproval(a)
        \/ ReadExpected(a) \/ RetireVersions(a) \/ Leave(a)
      PROVE FALSE
  BY <1>2, Zenon DEF ReadDraft, ReadProtected, SaveProtected, RecordValidation, OpenPreview,
     ReviewCheck, ReviewPreview, RecordApproval, PublishCheck, PublishApproval, ReadExpected,
     RetireVersions, Leave
<1>3. ASSUME NEW a \in Actors, MarkReviewed(a) \/ PublishDraft(a) \/ ArchiveDraft(a)
      PROVE FALSE
  BY <1>1, <1>3 DEF MarkReviewed, PublishDraft, ArchiveDraft, Drafted
<1>4. ASSUME NEW a \in Actors, SaveSection(a) \/ StoreDraft(a)
      PROVE req'[a] # req[a] /\ req[a].row.pkg = draft.pkg
  <2>1. req[a].pc = "write" /\ Matches(a)
    BY <1>4 DEF SaveSection, StoreDraft, At
  <2>2. req[a].row.pkg = draft.pkg
    BY <2>1 DEF IInv, SlotFits, ReadFits, Matches
  <2>3. req'[a].pc \in {"idle", "protect"}
    BY <1>1, <1>4 DEF SaveSection, StoreDraft, Answer, Idle, TypeOK, RequestStates
  <2>4. QED  BY <2>1, <2>2, <2>3
<1>5. CASE UNCHANGED vars
  BY <1>5 DEF vars
<1>6. QED  BY <1>2, <1>3, <1>4, <1>5 DEF Next, Step

(* A package is replaced only by a writer that had read it (saveSection,   *)
(* the stage "assemble" of a generation).                                  *)
THEOREM PackagesHold == Spec => PackageIsNotOverwritten
<1>1. IInv /\ [Next]_vars =>
        [draft'.pkg # draft.pkg =>
           \E a \in Actors : req'[a] # req[a] /\ req[a].row.pkg = draft.pkg]_vars
  BY NextKeepsPackage
<1>2. QED  BY <1>1, DraftsInvariant, PTL DEF Spec, PackageIsNotOverwritten

-----------------------------------------------------------------------------
(* The refinement *)

LEMMA InitReview == Init => Review!Init
  BY DEF Init, Review!Init, Passed, Approvals, Published

LEMMA NextReview ==
  ASSUME IInv, [Next]_vars
  PROVE  [Review!Next]_Review!vars
<1>1. TypeOK
  BY DEF IInv
<1>2. ASSUME UNCHANGED rows PROVE UNCHANGED Review!vars
  BY <1>2 DEF rows, Review!vars, Passed, Approvals, Published
<1>3. ASSUME NEW a \in Actors, RecordValidation(a)
      PROVE [Review!Next]_Review!vars
  <2>1. PICK ok \in BOOLEAN : checked' = Append(checked, [on |-> Sha(a), ok |-> ok])
    BY <1>3 DEF RecordValidation
  <2>2. Sha(a) \in Contents
    BY <1>1, ShaType
  <2>3. Passed' = IF ok THEN Passed \cup {Sha(a)} ELSE Passed
    BY <1>1, <2>1, <2>2, PassedGrows
  <2>4. Approvals' = Approvals /\ Published' = Published /\ previews' = previews
    BY <1>3 DEF RecordValidation, Approvals, Published
  <2>5. QED  BY <2>2, <2>3, <2>4 DEF Review!Next, Review!Pass, Review!vars
<1>4. ASSUME NEW a \in Actors, OpenPreview(a)
      PROVE [Review!Next]_Review!vars
  <2>1. Sha(a) \in Contents /\ a \in People
    BY <1>1, <1>4, ShaType DEF IInv, SlotFits, KindFits, Kinds, OpenPreview, At
  <2>2. /\ previews' = previews \cup {<<a, Sha(a)>>}
        /\ Approvals' = Approvals /\ Published' = Published /\ Passed' = Passed
    BY <1>4 DEF OpenPreview, Approvals, Published, Passed
  <2>3. QED  BY <2>1, <2>2 DEF Review!Next, Review!Open, Review!vars
<1>5. ASSUME NEW a \in Actors, RecordApproval(a)
      PROVE [Review!Next]_Review!vars
  <2> DEFINE ok == req[a].decision
  <2>1. Sha(a) \in Contents /\ a \in People /\ ok \in BOOLEAN
    BY <1>1, <1>5, ShaType DEF IInv, SlotFits, KindFits, Kinds, RecordApproval, At, TypeOK,
       RequestStates
  <2>2. Approvals' = IF ok THEN Approvals \cup {<<a, Sha(a)>>} ELSE Approvals
    BY <1>1, <1>5, <2>1, ApprovalsGrow DEF RecordApproval
  <2>3. Passed' = Passed /\ Published' = Published /\ previews' = previews
    BY <1>5 DEF RecordApproval, Passed, Published
  <2>4. ok => Sha(a) \in Passed /\ <<a, Sha(a)>> \in previews
    BY <1>5, ApprovalIsAllowed
  <2>5. QED  BY <2>1, <2>2, <2>3, <2>4 DEF Review!Next, Review!Approve, Review!vars
<1>6. ASSUME NEW a \in Actors, PublishDraft(a)
      PROVE [Review!Next]_Review!vars
  <2>1. Sha(a) \in Contents /\ Cleared(Sha(a))
    BY <1>1, <1>6, ShaType DEF IInv, SlotFits, GateFits, SawCheck, SawApproval, Cleared, Sha,
       PublishDraft, At
  <2>2. Published' = Published \cup {Sha(a)}
    BY <1>1, <1>6, <2>1, PublishedGrows DEF PublishDraft
  <2>3. Passed' = Passed /\ Approvals' = Approvals /\ previews' = previews
    BY <1>6 DEF PublishDraft, Passed, Approvals
  <2>4. QED  BY <2>1, <2>2, <2>3 DEF Review!Next, Review!Publish, Review!vars, Cleared
<1>7. ASSUME NEW a \in Actors, RetireVersions(a)
      PROVE UNCHANGED Review!vars
  <2>1. Published' = Published
    BY <1>1, <1>7, RetiringKeeps DEF RetireVersions
  <2>2. QED  BY <1>7, <2>1 DEF RetireVersions, Passed, Approvals, Review!vars
<1>8. ASSUME NEW a \in Actors, ReadProtected(a) \/ SaveSection(a) \/ StoreDraft(a)
        \/ SaveProtected(a) \/ MarkReviewed(a) \/ ReadExpected(a) \/ ArchiveDraft(a)
        \/ ReviewPreview(a) \/ PublishCheck(a) \/ PublishApproval(a) \/ Leave(a)
        \/ (\E k \in Kinds(a) : ReadDraft(a, k)) \/ (\E ok \in BOOLEAN : ReviewCheck(a, ok))
      PROVE UNCHANGED rows
  BY <1>8, Zenon DEF ReadProtected, SaveSection, StoreDraft, SaveProtected, MarkReviewed,
     ReviewCheck, ReviewPreview, PublishCheck, PublishApproval, ReadExpected, ArchiveDraft,
     Leave, ReadDraft
<1>9. CASE UNCHANGED vars
  BY <1>2, <1>9 DEF vars, rows
<1>10. QED
  BY <1>2, <1>3, <1>4, <1>5, <1>6, <1>7, <1>8, <1>9 DEF Next, Step

(* What is published was checked, opened and approved, in that order:      *)
(* Drafts implements DraftReview (recordApproval, publishDraft).           *)
THEOREM DraftsImplementReview == Spec => ImplementsReview
<1>1. Init => Review!Init
  BY InitReview
<1>2. IInv /\ [Next]_vars => [Review!Next]_Review!vars
  BY NextReview
<1>3. QED  BY <1>1, <1>2, DraftsInvariant, PTL DEF Spec, ImplementsReview, Review!Spec

(* A content that is published passed, and a reviewer who had opened       *)
(* exactly it approved it, whatever was edited meanwhile (publishBlockers).*)
THEOREM PublicationsAreReviewed == Spec => []PublishedAsReviewed
<1>1. IInv => PublishedAsReviewed
  BY DEF IInv, PublishedFit, ApprovalsFit, Cleared, PublishedAsReviewed
<1>2. QED  BY <1>1, DraftsInvariant, PTL
-----------------------------------------------------------------------------
(* What a draft that is marked as published has *)

(* A publication between its two reads of the row. *)
Reading == {"materials", "gate", "check", "approval", "expect"}

(* The package is edited while a publication has read the row but not yet  *)
(* the revision it will expect.                                            *)
EditedBetweenReads ==
  /\ draft'.revision # draft.revision
  /\ \E a \in People : /\ req[a].kind = "publish"
                       /\ req[a].pc \in Reading

(* A draft marked as published has the package of a published version      *)
(* (publishDraft, drafts.ts 498-537).                                      *)
MarkedIsPublished ==
  draft.status = "published" => \E c \in Published : c[1] = draft.pkg

(* A publication still has the revision it first read, and expects it.     *)
ExpectsWhatItRead(s) ==
  s.kind = "publish" =>
    /\ s.pc \in Reading =>
         s.row.revision = draft.revision
    /\ s.pc = "write" => s.expected = s.row.revision

PublicationsFit == \A a \in Actors : ExpectsWhatItRead(req[a])

(* Only an edit and a generation change the row's revision and package,    *)
(* and they take its mark away.                                            *)
LEMMA RevisionMoves ==
  ASSUME IInv, Next
  PROVE  \/ draft' = draft
         \/ /\ draft'.revision = draft.revision /\ draft'.pkg = draft.pkg
            /\ \/ draft'.status # "published"
               \/ \E a \in Actors : PublishDraft(a)
         \/ draft'.status = "draft"
<1>1. TypeOK /\ draft \in Drafted
  BY DEF IInv, TypeOK
<1> PICK a \in Actors : Step(a)
  BY DEF Next
<1>2. CASE SaveSection(a) \/ StoreDraft(a)
  BY <1>2 DEF SaveSection, StoreDraft, Rewritten
<1>3. CASE MarkReviewed(a)
  BY <1>1, <1>3 DEF MarkReviewed, StatusAfter, Drafted
<1>4. CASE ArchiveDraft(a) \/ PublishDraft(a)
  BY <1>1, <1>4 DEF ArchiveDraft, PublishDraft, Drafted
<1>5. CASE \/ ReadProtected(a) \/ SaveProtected(a) \/ RecordValidation(a)
           \/ OpenPreview(a) \/ ReviewPreview(a) \/ RecordApproval(a)
           \/ PublishCheck(a) \/ PublishApproval(a) \/ ReadExpected(a)
           \/ RetireVersions(a) \/ Leave(a)
           \/ \E ok \in BOOLEAN : ReviewCheck(a, ok)
           \/ \E kind \in Kinds(a) : ReadDraft(a, kind)
  BY <1>5, Zenon
  DEF ReadProtected, SaveProtected, RecordValidation, OpenPreview, ReviewCheck,
      ReviewPreview, RecordApproval, PublishCheck, PublishApproval, ReadExpected,
      RetireVersions, Leave, ReadDraft
<1>6. QED  BY <1>2, <1>3, <1>4, <1>5 DEF Step

(* The request that moves: a publication is given the row as it is, and    *)
(* expects the revision the row still has.                                 *)
LEMMA MovingPublicationFits ==
  ASSUME IInv, PublicationsFit, NEW a \in Actors, Step(a)
  PROVE  /\ ExpectsWhatItRead(req[a])' \/ req'[a] = req[a]
         /\ \A b \in Actors \ {a} : req'[b] = req[b]
<1>1. /\ req \in [Actors -> RequestStates] /\ req[a] \in RequestStates
      /\ ExpectsWhatItRead(req[a]) /\ KindFits(a, req[a]) /\ draft \in Drafted
  BY DEF IInv, TypeOK, PublicationsFit, SlotFits
<1>2. CASE Answer(a)
  BY <1>1, <1>2 DEF Answer, Idle, ExpectsWhatItRead
<1>3. ASSUME NEW kind \in Kinds(a), ReadDraft(a, kind)
      PROVE  /\ ExpectsWhatItRead(req[a])'
             /\ \A b \in Actors \ {a} : req'[b] = req[b]
  <2>1. /\ req'[a].row = draft /\ draft' = draft
        /\ req'[a].kind = kind
        /\ req'[a].pc = IF kind = "archive" THEN "write" ELSE "materials"
        /\ \A b \in Actors \ {a} : req'[b] = req[b]
    BY <1>1, <1>3 DEF ReadDraft, Idle
  <2>2. QED  BY <2>1 DEF ExpectsWhatItRead
<1>4. CASE ReadProtected(a) \/ PublishCheck(a) \/ PublishApproval(a) \/ ReadExpected(a)
  <2>1. /\ req'[a].kind = req[a].kind /\ req'[a].row = req[a].row
        /\ draft' = draft
        /\ \A b \in Actors \ {a} : req'[b] = req[b]
    BY <1>1, <1>4
    DEF ReadProtected, PublishCheck, PublishApproval, ReadExpected, Goto, RequestStates
  <2>2. CASE ReadProtected(a)
    <3>1. /\ req[a].pc = "materials"
          /\ req[a].kind = "publish" => req'[a].pc = "gate"
      BY <1>1, <2>2 DEF ReadProtected, RequestStates
    <3>2. QED  BY <1>1, <2>1, <3>1 DEF ExpectsWhatItRead, Reading
  <2>3. CASE PublishCheck(a) \/ PublishApproval(a)
    <3>1. /\ req[a].pc \in {"gate", "check", "approval"}
          /\ req'[a].pc \in {"check", "approval", "expect"}
      BY <1>1, <2>3 DEF PublishCheck, PublishApproval, At, Goto, RequestStates
    <3>2. QED  BY <1>1, <2>1, <3>1 DEF ExpectsWhatItRead, Reading
  <2>4. CASE ReadExpected(a)
    <3>1. /\ req[a].pc = "expect" /\ req'[a].pc = "write"
          /\ req'[a].expected = draft.revision
      BY <1>1, <2>4 DEF ReadExpected, At, RequestStates
    <3>2. QED  BY <1>1, <2>1, <3>1 DEF ExpectsWhatItRead, Reading
  <2>5. QED  BY <1>4, <2>2, <2>3, <2>4
<1>5. CASE \/ ~Answer(a) /\ (SaveSection(a) \/ SaveProtected(a))
           \/ StoreDraft(a) \/ ArchiveDraft(a) \/ ReviewPreview(a) \/ RecordApproval(a)
           \/ \E ok \in BOOLEAN : ReviewCheck(a, ok)
  <2>1. req[a].kind # "publish"
    BY <1>1, <1>5
    DEF SaveSection, SaveProtected, StoreDraft, ArchiveDraft, ReviewCheck, ReviewPreview,
        RecordApproval, At, KindFits
  <2>2. /\ req'[a].kind = req[a].kind
        /\ \A b \in Actors \ {a} : req'[b] = req[b]
    <3>1. CASE ~Answer(a) /\ SaveSection(a)
      BY <1>1, <3>1 DEF SaveSection, RequestStates
    <3>2. CASE ~Answer(a) /\ SaveProtected(a)
      BY <1>1, <3>2 DEF SaveProtected, RequestStates
    <3>3. CASE StoreDraft(a)
      BY <1>1, <3>3 DEF StoreDraft, RequestStates
    <3>4. CASE ArchiveDraft(a) \/ ReviewPreview(a) \/ RecordApproval(a)
      BY <1>1, <3>4 DEF ArchiveDraft, ReviewPreview, RecordApproval, Goto, RequestStates
    <3>5. CASE \E ok \in BOOLEAN : ReviewCheck(a, ok)
      BY <1>1, <3>5 DEF ReviewCheck, RequestStates
    <3>6. QED  BY <1>5, <3>1, <3>2, <3>3, <3>4, <3>5
  <2>3. QED  BY <2>1, <2>2 DEF ExpectsWhatItRead
<1>6. QED
  BY <1>2, <1>3, <1>4, <1>5
  DEF Step, RecordValidation, OpenPreview, MarkReviewed, PublishDraft,
      RetireVersions, Leave

LEMMA PublicationsKeepFitting ==
  ASSUME IInv, PublicationsFit, Next, ~EditedBetweenReads
  PROVE  PublicationsFit'
<1> PICK a \in Actors : Step(a)
  BY DEF Next
<1>1. ASSUME NEW b \in Actors, req'[b] = req[b]
      PROVE  ExpectsWhatItRead(req[b])'
  <2>1. CASE req[b].kind = "publish" /\ req[b].pc \in Reading
    <3>1. b \in People
      BY <2>1 DEF IInv, SlotFits, KindFits, Kinds, Actors, Reading
    <3>2. draft'.revision = draft.revision
      BY <2>1, <3>1 DEF EditedBetweenReads
    <3>3. QED  BY <1>1, <3>2 DEF PublicationsFit, ExpectsWhatItRead
  <2>2. QED  BY <1>1, <2>1 DEF PublicationsFit, ExpectsWhatItRead
<1>2. QED  BY <1>1, MovingPublicationFits DEF PublicationsFit

LEMMA PublishedStays ==
  ASSUME IInv, Next
  PROVE  Published \subseteq Published'
<1>1. TypeOK
  BY DEF IInv
<1> PICK a \in Actors : Step(a)
  BY DEF Next
<1>2. CASE PublishDraft(a)
  <2>1. Published' = Published \cup {Sha(a)}
    BY <1>1, <1>2, ShaType, PublishedGrows DEF PublishDraft
  <2>2. QED  BY <2>1
<1>3. CASE RetireVersions(a)
  <2>1. Published' = Published
    BY <1>1, <1>3, RetiringKeeps DEF RetireVersions
  <2>2. QED  BY <2>1
<1>4. CASE versions' = versions
  BY <1>4 DEF Published
<1>5. ~PublishDraft(a) /\ ~RetireVersions(a) => versions' = versions
  BY Zenon
  DEF Step, ReadDraft, ReadProtected, SaveSection, StoreDraft, SaveProtected,
      RecordValidation, OpenPreview, ReviewCheck, ReviewPreview, RecordApproval,
      MarkReviewed, PublishCheck, PublishApproval, ReadExpected, ArchiveDraft, Leave, rows
<1>6. QED  BY <1>2, <1>3, <1>4, <1>5

(* If nobody edits the package between the two reads of a publication, a   *)
(* draft marked as published has a published package: the second read of   *)
(* the row (drafts.ts 519) is the one way for the mark to be wrong.        *)
THEOREM MarkedIsPublishedUnlessEdited ==
  Spec /\ [][~EditedBetweenReads]_vars => []MarkedIsPublished
<1>1. Init => PublicationsFit /\ MarkedIsPublished
  BY DEF Init, PublicationsFit, ExpectsWhatItRead, Idle, MarkedIsPublished
<1>2. ASSUME IInv, PublicationsFit, [Next]_vars, [~EditedBetweenReads]_vars
      PROVE  PublicationsFit'
  <2>1. CASE UNCHANGED vars
    BY <1>2, <2>1 DEF vars, PublicationsFit, ExpectsWhatItRead
  <2>2. CASE Next /\ ~EditedBetweenReads
    BY <1>2, <2>2, PublicationsKeepFitting
  <2>3. QED  BY <1>2, <2>1, <2>2
<1>3. ASSUME IInv, PublicationsFit, MarkedIsPublished, [Next]_vars
      PROVE  MarkedIsPublished'
  <2>1. CASE UNCHANGED vars
    BY <1>3, <2>1 DEF vars, rows, MarkedIsPublished, Published
  <2>2. ASSUME NEW a \in Actors, PublishDraft(a) PROVE MarkedIsPublished'
    <3>1. /\ req[a].row.pkg = draft.pkg
          /\ draft'.pkg = draft.pkg
      BY <1>3, <2>2
      DEF PublishDraft, At, PublicationsFit, ExpectsWhatItRead, IInv, SlotFits,
          ReadFits, TypeOK, Drafted
    <3>2. Published' = Published \cup {Sha(a)} /\ Sha(a)[1] = req[a].row.pkg
      BY <1>3, <2>2, ShaType, PublishedGrows DEF PublishDraft, IInv, Sha
    <3>3. QED  BY <3>1, <3>2 DEF MarkedIsPublished
  <2>3. CASE Next /\ ~(\E a \in Actors : PublishDraft(a))
    BY <1>3, <2>3, RevisionMoves, PublishedStays DEF MarkedIsPublished
  <2>4. QED  BY <1>3, <2>1, <2>2, <2>3
<1>4. QED  BY <1>1, <1>2, <1>3, DraftsInvariant, PTL DEF Spec
-----------------------------------------------------------------------------
(* Whose materials they are *)

(* A generation goes on to its protected materials although its package    *)
(* was not stored.                                                         *)
GoesOnUnstored == \E a \in Actors : StoreDraft(a) /\ ~Matches(a)

(* The protected materials were written for the package of the draft or    *)
(* for one it has replaced, never for one that is not there                *)
(* (runGenerateJob, saveSection).                                          *)
MaterialsHadTheirPackage == prot <= draft.pkg

(* So were those that are about to be written; contents have one count.    *)
ComingMaterialsHaveTheirPackage ==
  /\ draft.pkg <= edits
  /\ \A a \in Actors : req[a].pc = "protect" => req[a].edit <= draft.pkg

LEMMA MaterialsKeep ==
  ASSUME IInv, MaterialsHadTheirPackage, ComingMaterialsHaveTheirPackage,
         Next, ~GoesOnUnstored
  PROVE  MaterialsHadTheirPackage' /\ ComingMaterialsHaveTheirPackage'
<1> PICK a \in Actors : Step(a)
  BY DEF Next
<1>1. /\ req \in [Actors -> RequestStates] /\ req[a] \in RequestStates
      /\ draft \in Drafted /\ draft.pkg \in Nat /\ edits \in Nat
      /\ prot \in Nat /\ \A b \in Actors : req[b].edit \in Nat
  BY DEF IInv, TypeOK, Drafted, RequestStates, Edits
<1>2. CASE SaveSection(a) \/ StoreDraft(a)
  <2>1. /\ draft'.pkg = edits + 1 /\ edits' = edits + 1 /\ prot' = prot
        /\ Answer(a) \/ req' = [req EXCEPT ![a].pc = "protect",
                                           ![a].edit = edits + 1]
    BY <1>2 DEF SaveSection, StoreDraft, Rewritten, GoesOnUnstored
  <2>2. \A b \in Actors \ {a} : req'[b] = req[b]
    BY <1>1, <2>1 DEF Answer
  <2>3. req'[a].pc = "protect" => req'[a].edit = edits + 1
    BY <1>1, <2>1 DEF Answer, Idle, RequestStates
  <2>4. MaterialsHadTheirPackage'
    BY <1>1, <2>1
    DEF MaterialsHadTheirPackage, ComingMaterialsHaveTheirPackage
  <2>5. QED
    BY <1>1, <2>1, <2>2, <2>3, <2>4 DEF ComingMaterialsHaveTheirPackage
<1>3. CASE ~SaveSection(a) /\ ~StoreDraft(a)
  <2>1. draft'.pkg = draft.pkg /\ edits' = edits
    <3>1. CASE MarkReviewed(a) \/ PublishDraft(a) \/ ArchiveDraft(a)
      BY <1>1, <3>1 DEF MarkReviewed, PublishDraft, ArchiveDraft, Drafted
    <3>2. CASE ~(MarkReviewed(a) \/ PublishDraft(a) \/ ArchiveDraft(a))
      BY <1>3, <3>2, Zenon
      DEF Step, ReadDraft, ReadProtected, SaveProtected, RecordValidation,
          OpenPreview, ReviewCheck, ReviewPreview, RecordApproval, PublishCheck,
          PublishApproval, ReadExpected, RetireVersions, Leave
    <3>3. QED  BY <3>1, <3>2
  <2>2. prot' = prot \/ (req[a].pc = "protect" /\ prot' = req[a].edit)
    BY <1>3, Zenon
    DEF Step, ReadDraft, ReadProtected, SaveProtected, RecordValidation,
        OpenPreview, ReviewCheck, ReviewPreview, RecordApproval, MarkReviewed, PublishCheck,
        PublishApproval, ReadExpected, PublishDraft, ArchiveDraft, RetireVersions, Leave
  <2>3. /\ \A b \in Actors \ {a} : req'[b] = req[b]
        /\ req'[a].pc # "protect"
    <3>1. CASE Answer(a)
      BY <1>1, <3>1 DEF Answer, Idle
    <3>2. CASE \E kind \in Kinds(a) : ReadDraft(a, kind)
      BY <1>1, <3>2 DEF ReadDraft, Idle
    <3>3. CASE ReadProtected(a)
      BY <1>1, <3>3 DEF ReadProtected, RequestStates
    <3>4. CASE SaveProtected(a) /\ ~Answer(a)
      BY <1>1, <3>4 DEF SaveProtected, RequestStates
    <3>5. CASE \E ok \in BOOLEAN : ReviewCheck(a, ok)
      BY <1>1, <3>5 DEF ReviewCheck, RequestStates
    <3>6. CASE \/ ReviewPreview(a) \/ RecordApproval(a) \/ ArchiveDraft(a)
               \/ PublishCheck(a) \/ PublishApproval(a)
      BY <1>1, <3>6
      DEF ReviewPreview, RecordApproval, ArchiveDraft, PublishCheck, PublishApproval, Goto,
          RequestStates
    <3>7. CASE ReadExpected(a)
      BY <1>1, <3>7 DEF ReadExpected, RequestStates
    <3>8. QED
      BY <1>3, <3>1, <3>2, <3>3, <3>4, <3>5, <3>6, <3>7
      DEF Step, RecordValidation, OpenPreview, MarkReviewed, PublishDraft,
          RetireVersions, Leave
  <2>4. QED
    BY <1>1, <2>1, <2>2, <2>3
    DEF MaterialsHadTheirPackage, ComingMaterialsHaveTheirPackage
<1>4. QED  BY <1>2, <1>3

(* If no generation goes on after a package it could not store, the        *)
(* protected materials of a draft are those of a package it has or had:    *)
(* that step (jobs.ts 383-389) is the one way to materials of a package    *)
(* that never was.                                                         *)
THEOREM MaterialsFollowUnlessUnstored ==
  Spec /\ [][~GoesOnUnstored]_vars => []MaterialsHadTheirPackage
<1>1. Init => MaterialsHadTheirPackage /\ ComingMaterialsHaveTheirPackage
  BY DEF Init, MaterialsHadTheirPackage, ComingMaterialsHaveTheirPackage, Idle,
         Edits
<1>2. ASSUME IInv, MaterialsHadTheirPackage, ComingMaterialsHaveTheirPackage,
             [Next]_vars, [~GoesOnUnstored]_vars
      PROVE  MaterialsHadTheirPackage' /\ ComingMaterialsHaveTheirPackage'
  <2>1. CASE UNCHANGED vars
    BY <1>2, <2>1
    DEF vars, MaterialsHadTheirPackage, ComingMaterialsHaveTheirPackage
  <2>2. CASE Next /\ ~GoesOnUnstored
    BY <1>2, <2>2, MaterialsKeep
  <2>3. QED  BY <1>2, <2>1, <2>2
<1>3. QED  BY <1>1, <1>2, DraftsInvariant, PTL DEF Spec
=============================================================================
