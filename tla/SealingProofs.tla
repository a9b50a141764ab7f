--------------------------- MODULE SealingProofs ---------------------------
(***************************************************************************)
(* Proofs about Sealing, for any requests and any bounds.  An archive is   *)
(* owned by the request that sealed it until it is recorded or given back; *)
(* no two requests own the same one, and what a cleaning up lists is never *)
(* the submission's.                                                       *)
(***************************************************************************)
EXTENDS Sealing, TLAPS

(* The archive of a slot is its own, and not one found by a cleaning up.   *)
Owns(s) ==
  \/ s.pc \in {"store", "insert", "record"}
  \/ s.pc \in {"mark", "remove"} /\ s.then # "next"

Completing == {"accept", "close", "queue", "rows", "next", "bucket", "strays"}

SlotFits(s) ==
  /\ s.pc \in {"store", "insert", "record", "mark", "remove"} => s.on \in Archives
  /\ s.pc \in Completing \/ s.then # "idle" => submission # None
  /\ Owns(s) => s.on <= seals
  /\ s.pc \in {"store", "insert", "record"} => s.on # submission
  /\ s.pc \in {"mark", "remove"} => s.on # submission \/ lost > 0
  /\ s.todo # {} => submission # None
  /\ submission \notin s.todo

OwnersDiffer ==
  \A q, r \in Requests :
    q # r /\ Owns(req[q]) /\ Owns(req[r]) => req[q].on # req[r].on

(* The inductive invariant. *)
IInv ==
  /\ TypeOK
  /\ OnlyTheSubmissionIsAccepted
  /\ submission # None => submission <= seals
  /\ OwnersDiffer
  /\ \A r \in Requests : SlotFits(req[r])

USE NoneAssumption, BoundsAssumption

-----------------------------------------------------------------------------
LEMMA ArchivesAreNumbers == \A a \in Archives : a \in Nat /\ a # None
  BY DEF Archives

LEMMA IdleType == Idle \in RequestStates
  BY DEF Idle, RequestStates

LEMMA IdleFits == SlotFits(Idle) /\ SlotFits(Idle)' /\ ~Owns(Idle)
  BY DEF SlotFits, Owns, Idle, Completing

LEMMA InitIInv == Init => IInv
<1> SUFFICES ASSUME Init PROVE IInv
  OBVIOUS
<1>1. req = [r \in Requests |-> Idle]
  BY DEF Init
<1>2. TypeOK
  <2>1. req \in [Requests -> RequestStates]
    BY <1>1, IdleType
  <2>2. 0 \in 0..MaxSeals /\ 0 \in 0..MaxDeaths /\ 0 \in 0..MaxLost
    OBVIOUS
  <2>3. failed \in [Calls -> 0..MaxFails]
    BY DEF Init
  <2>4. QED  BY <2>1, <2>2, <2>3 DEF Init, TypeOK
<1>3. OnlyTheSubmissionIsAccepted /\ submission = None
  BY DEF Init, OnlyTheSubmissionIsAccepted
<1>4. OwnersDiffer /\ \A r \in Requests : SlotFits(req[r])
  BY <1>1, IdleFits DEF OwnersDiffer
<1>5. QED  BY <1>2, <1>3, <1>4 DEF IInv

-----------------------------------------------------------------------------
(* Steps of one request *)

RowTypes ==
  /\ attempt \in {"in_progress", "submitted", "withdrawn"}
  /\ objects \subseteq Archives
  /\ uploads \in [Archives -> {"none", "initiated", "accepted", "failed"}]
  /\ submission \in Archives \cup {None}
  /\ queued \in BOOLEAN
  /\ seals \in 0..MaxSeals /\ deaths \in 0..MaxDeaths /\ lost \in 0..MaxLost
  /\ failed \in [Calls -> 0..MaxFails]

(* A call whose error nothing looks at is counted when it fails.           *)
LEMMA FailedCounts ==
  ASSUME TypeOK, NEW call \in Calls, Works \/ Fails(call)
  PROVE  failed' \in [Calls -> 0..MaxFails]
<1>1. failed \in [Calls -> 0..MaxFails]
  BY DEF TypeOK
<1>2. CASE Works
  BY <1>1, <1>2 DEF Works
<1>3. CASE Fails(call)
  <2>1. {failed["update"], failed["remove"], failed["list"]} \subseteq Nat
    BY <1>1 DEF Calls
  <2>2. failed[call] \in Nat /\ failed[call] + 1 <= MaxFails
    BY <1>3, <2>1 DEF Fails, Calls
  <2>3. failed[call] + 1 \in 0..MaxFails
    BY <2>2
  <2>4. QED  BY <1>1, <1>3, <2>3 DEF Fails
<1>4. QED  BY <1>2, <1>3

(* A submission stays, or is one no other request owns. *)
Recorded(r) ==
  \/ submission' = submission
  \/ submission = None /\ submission' = req[r].on /\ req[r].pc = "record"

(* The archive a slot owns is the one it owned, or a new one.              *)
OwnsFits(r, s) ==
  Owns(s) => (Owns(req[r]) /\ s.on = req[r].on) \/ s.on > seals

LEMMA RequestSteps ==
  ASSUME IInv, NEW r \in Requests, NEW s \in RequestStates,
         req' = [req EXCEPT ![r] = s], RowTypes', OnlyTheSubmissionIsAccepted',
         seals' >= seals, lost' >= lost, Recorded(r), OwnsFits(r, s), SlotFits(s)'
  PROVE  IInv'
<1>1. /\ TypeOK /\ req[r] \in RequestStates /\ SlotFits(req[r]) /\ seals \in Nat
      /\ seals' \in Nat /\ lost \in Nat /\ lost' \in Nat
  BY DEF IInv, TypeOK, RowTypes
<1>2. TypeOK'
  BY <1>1 DEF TypeOK, RowTypes
<1>3. req'[r] = s /\ \A q \in Requests \ {r} : req'[q] = req[q]
  BY <1>1 DEF TypeOK
<1>4. submission' # None => submission' <= seals'
  <2>1. CASE submission' = submission
    <3>1. submission # None => submission \in Nat /\ submission <= seals
      BY <1>1, ArchivesAreNumbers DEF IInv, TypeOK
    <3>2. QED  BY <1>1, <2>1, <3>1
  <2>2. CASE submission' = req[r].on /\ req[r].pc = "record"
    <3>1. req[r].on \in Archives /\ req[r].on <= seals
      BY <1>1, <2>2 DEF SlotFits, Owns
    <3>2. QED  BY <1>1, <2>2, <3>1, ArchivesAreNumbers
  <2>3. QED  BY <2>1, <2>2 DEF Recorded
<1>5. \A q \in Requests : Owns(req[q]) => req[q].on \in Nat /\ req[q].on <= seals
  <2> TAKE q \in Requests
  <2> HAVE Owns(req[q])
  <2>1. SlotFits(req[q])
    BY DEF IInv
  <2>2. QED  BY <2>1, ArchivesAreNumbers DEF SlotFits, Owns
<1>6. OwnersDiffer'
  <2>1. ASSUME NEW q \in Requests \ {r}, Owns(req[q]), Owns(s)
        PROVE  req[q].on # s.on
    <3>1. CASE Owns(req[r]) /\ s.on = req[r].on
      BY <2>1, <3>1 DEF IInv, OwnersDiffer
    <3>2. CASE s.on > seals
      BY <1>1, <1>5, <2>1, <3>2
    <3>3. QED  BY <2>1, <3>1, <3>2 DEF OwnsFits
  <2>2. \A p, q \in Requests \ {r} :
          p # q /\ Owns(req[p]) /\ Owns(req[q]) => req[p].on # req[q].on
    BY DEF IInv, OwnersDiffer
  <2>3. QED  BY <1>3, <2>1, <2>2 DEF OwnersDiffer, Owns
<1>7. ASSUME NEW q \in Requests PROVE SlotFits(req[q])'
  <2>1. CASE q = r
    BY <1>3, <2>1
  <2>2. CASE q # r
    <3>1. /\ req'[q] = req[q] /\ SlotFits(req[q]) /\ req[q] \in RequestStates
          /\ req[q].todo \subseteq Archives
      BY <1>1, <1>3, <2>2 DEF IInv, TypeOK, RequestStates
    <3>2. CASE submission' = submission
      <4>1. Owns(req[q]) => req[q].on <= seals'
        BY <1>1, <1>5
      <4>2. QED  BY <1>1, <3>1, <3>2, <4>1 DEF SlotFits, Owns
    <3>3. CASE submission = None /\ submission' = req[r].on /\ req[r].pc = "record"
      <4>1. Owns(req[q]) => req[q].on <= seals' /\ req[q].on # submission'
        BY <1>1, <1>5, <2>2, <3>3 DEF IInv, OwnersDiffer, Owns
      <4>2. req[q].pc \notin Completing /\ req[q].then = "idle"
        BY <3>1, <3>3 DEF SlotFits
      <4>3. submission' \notin req[q].todo
        BY <3>1, <3>3 DEF SlotFits
      <4>4. QED  BY <1>1, <3>1, <3>3, <4>1, <4>2, <4>3 DEF SlotFits, Owns
    <3>4. QED  BY <3>2, <3>3 DEF Recorded
  <2>3. QED  BY <2>1, <2>2
<1>8. QED  BY <1>2, <1>4, <1>6, <1>7 DEF IInv

LEMMA Unsubmitted ==
  ASSUME IInv, NEW r \in Requests, submission = None
  PROVE  req[r].todo = {} /\ req[r].then = "idle" /\ req[r].pc \notin Completing
  BY DEF IInv, SlotFits

LEMMA AnswerSteps ==
  ASSUME IInv, NEW r \in Requests, Answer(r), RowTypes', OnlyTheSubmissionIsAccepted',
         UNCHANGED <<submission, seals>>, lost' >= lost
  PROVE  IInv'
<1>1. seals' >= seals
  BY DEF IInv, TypeOK
<1>2. Recorded(r) /\ OwnsFits(r, Idle)
  BY IdleFits DEF Recorded, OwnsFits
<1>3. QED  BY <1>1, <1>2, IdleType, IdleFits, RequestSteps DEF Answer

(* A request goes on with what it has. *)
LEMMA GotoLeaves ==
  ASSUME IInv, NEW r \in Requests, NEW pc \in {"insert", "record", "remove"} \cup Completing,
         Goto(r, pc)
  PROVE  \E s \in RequestStates :
           /\ req' = [req EXCEPT ![r] = s] /\ s.pc = pc /\ s.on = req[r].on
           /\ s.then = req[r].then /\ s.todo = req[r].todo
<1> DEFINE s == [req[r] EXCEPT !.pc = pc]
<1>1. req[r] \in RequestStates /\ req' = [req EXCEPT ![r] = s]
  BY DEF IInv, TypeOK, Goto
<1>2. /\ s \in RequestStates /\ s.pc = pc /\ s.on = req[r].on
      /\ s.then = req[r].then /\ s.todo = req[r].todo
  BY <1>1 DEF RequestStates, Completing
<1>3. QED  BY <1>1, <1>2

(* followThrough goes on, of a submission that is there. *)
LEMMA CompletingSteps ==
  ASSUME IInv, NEW r \in Requests, NEW pc \in Completing, Goto(r, pc),
         RowTypes', OnlyTheSubmissionIsAccepted', Recorded(r), submission' # None,
         UNCHANGED <<seals, lost>>
  PROVE  IInv'
<1>1. PICK s \in RequestStates :
        /\ req' = [req EXCEPT ![r] = s] /\ s.pc = pc /\ s.on = req[r].on
        /\ s.then = req[r].then /\ s.todo = req[r].todo
  <2>1. pc \in {"insert", "record", "remove"} \cup Completing
    OBVIOUS
  <2>2. QED  BY <2>1, GotoLeaves
<1>2. SlotFits(req[r]) /\ seals' >= seals /\ lost' >= lost
  BY DEF IInv, TypeOK
<1>3. ~Owns(s) /\ s.pc \notin {"store", "insert", "record", "mark", "remove"}
  BY <1>1 DEF Owns, Completing
<1>4. submission' \notin s.todo
  BY <1>1, <1>2 DEF SlotFits, Recorded
<1>5. SlotFits(s)'
  BY <1>3, <1>4 DEF SlotFits, Owns
<1>6. OwnsFits(r, s)
  BY <1>3 DEF OwnsFits
<1>7. QED  BY <1>1, <1>2, <1>5, <1>6, RequestSteps

(* A request that has its own archive goes on with it. *)
LEMMA OwnerSteps ==
  ASSUME IInv, NEW r \in Requests, NEW s \in RequestStates,
         req' = [req EXCEPT ![r] = s], RowTypes', OnlyTheSubmissionIsAccepted',
         UNCHANGED seals, lost' >= lost, Recorded(r),
         Owns(req[r]), s.pc \in {"insert", "record", "mark", "remove"},
         s.on = req[r].on, s.todo = req[r].todo,
         s.then # "idle" => submission' # None,
         s.pc \in {"insert", "record"} => s.on # submission',
         s.pc \in {"mark", "remove"} => s.on # submission' \/ lost' > 0,
         submission' = submission \/ s.pc = "mark"
  PROVE  IInv'
<1>1. SlotFits(req[r]) /\ seals' >= seals
  BY DEF IInv, TypeOK
<1>2. req[r].on \in Archives /\ req[r].on <= seals
  BY <1>1 DEF SlotFits, Owns
<1>3. OwnsFits(r, s)
  BY DEF OwnsFits
<1>4. /\ s.todo # {} => submission' # None
      /\ submission' \notin s.todo
  <2>1. CASE submission' = submission
    BY <1>1, <2>1 DEF SlotFits
  <2>2. CASE submission = None
    BY <2>2, Unsubmitted
  <2>3. QED  BY <2>1, <2>2 DEF Recorded
<1>5. SlotFits(s)'
  BY <1>2, <1>4 DEF SlotFits, Owns, Completing
<1>6. QED  BY <1>1, <1>3, <1>5, RequestSteps

LEMMA RowsKept == ASSUME IInv PROVE RowTypes
  BY DEF IInv, TypeOK, RowTypes

-----------------------------------------------------------------------------
(* Submitting *)

LEMMA SubmitIInv ==
  ASSUME IInv, NEW r \in Requests, Submit(r)
  PROVE  IInv'
<1>1. /\ TypeOK /\ req[r].pc = "idle" /\ req[r] \in RequestStates
      /\ UNCHANGED <<world, objects, uploads, submission, deaths, lost, failed>>
      /\ OnlyTheSubmissionIsAccepted'
  BY DEF IInv, TypeOK, Submit, At, OnlyTheSubmissionIsAccepted
<1>2. CASE submission # None
  <2>1. Goto(r, "accept") /\ UNCHANGED seals /\ "accept" \in Completing
    BY <1>2 DEF Submit, Completing
  <2>2. RowTypes' /\ Recorded(r)
    BY <1>1, <2>1, RowsKept DEF RowTypes, world, Recorded
  <2>3. QED  BY <1>1, <1>2, <2>1, <2>2, CompletingSteps
<1>3. CASE submission = None
  <2> DEFINE new == seals + 1
             slot == [req[r] EXCEPT !.pc = "store", !.on = new]
  <2>1. /\ seals < MaxSeals /\ seals' = new /\ seals \in Nat /\ lost' = lost
        /\ lost \in Nat /\ req' = [req EXCEPT ![r] = slot]
    <3>1. seals \in Nat /\ lost \in Nat /\ lost' = lost /\ req \in [Requests -> RequestStates]
      BY <1>1 DEF TypeOK
    <3>2. /\ seals < MaxSeals /\ seals' = seals + 1
          /\ req' = [req EXCEPT ![r].pc = "store", ![r].on = seals + 1]
      BY <1>3 DEF Submit
    <3>3. QED  BY <3>1, <3>2
  <2>2. new \in Archives /\ new > seals /\ seals' \in 0..MaxSeals /\ new \in Nat
    BY <2>1 DEF Archives
  <2> HIDE DEF new
  <2>3. slot \in RequestStates /\ slot.pc = "store" /\ slot.on = new
        /\ slot.then = req[r].then /\ slot.todo = req[r].todo
    BY <1>1, <2>2 DEF RequestStates
  <2> HIDE DEF slot
  <2> PICK s \in RequestStates : s = slot
    BY <2>3
  <2>4. RowTypes' /\ Recorded(r)
    BY <1>1, <2>1, <2>2, RowsKept DEF RowTypes, world, Recorded
  <2>5. OwnsFits(r, s)
    BY <2>2, <2>3 DEF OwnsFits
  <2>6. SlotFits(s)'
    <3>1. s.todo = {} /\ s.then = "idle"
      BY <1>3, <2>3, Unsubmitted
    <3>2. s.on # None /\ s.on <= seals' /\ s.on \in Archives
      BY <2>1, <2>2, <2>3, ArchivesAreNumbers
    <3>3. QED  BY <1>1, <1>3, <2>3, <3>1, <3>2 DEF SlotFits, Completing
  <2>7. seals' >= seals /\ lost' >= lost /\ req' = [req EXCEPT ![r] = s]
    BY <2>1, <2>2, <2>3
  <2>8. QED  BY <1>1, <2>4, <2>5, <2>6, <2>7, RequestSteps
<1>4. QED  BY <1>2, <1>3

LEMMA StoreObjectIInv ==
  ASSUME IInv, NEW r \in Requests, StoreObject(r)
  PROVE  IInv'
<1>1. /\ TypeOK /\ req[r].pc = "store" /\ SlotFits(req[r])
      /\ UNCHANGED <<world, uploads, submission, counts>>
      /\ objects' \in {objects, objects \cup {req[r].on}}
      /\ Goto(r, "insert") \/ Answer(r)
      /\ OnlyTheSubmissionIsAccepted'
  BY DEF IInv, StoreObject, At, OnlyTheSubmissionIsAccepted
<1>2. /\ req[r].on \in Archives /\ req[r].on # submission /\ Owns(req[r])
      /\ req[r].then # "idle" => submission # None
  BY <1>1 DEF SlotFits, Owns
<1>3. RowTypes' /\ Recorded(r) /\ UNCHANGED seals /\ lost' >= lost
  BY <1>1, <1>2, RowsKept DEF RowTypes, world, counts, Recorded
<1>4. CASE Goto(r, "insert")
  <2>1. PICK s \in RequestStates :
          /\ req' = [req EXCEPT ![r] = s] /\ s.pc = "insert" /\ s.on = req[r].on
          /\ s.then = req[r].then /\ s.todo = req[r].todo
    BY <1>4, GotoLeaves
  <2>2. QED  BY <1>1, <1>2, <1>3, <2>1, OwnerSteps
<1>5. CASE Answer(r)
  BY <1>1, <1>3, <1>5, AnswerSteps
<1>6. QED  BY <1>1, <1>4, <1>5

LEMMA InsertUploadIInv ==
  ASSUME IInv, NEW r \in Requests, InsertUpload(r)
  PROVE  IInv'
<1>1. /\ TypeOK /\ req[r].pc = "insert" /\ SlotFits(req[r]) /\ req[r] \in RequestStates
      /\ UNCHANGED <<world, objects, submission, seals, deaths, failed>>
      /\ uploads' \in {uploads, Inserted(r)}
      /\ Seen \/ Missed
  BY DEF IInv, TypeOK, InsertUpload, At
<1>2. /\ req[r].on \in Archives /\ req[r].on # submission /\ Owns(req[r])
      /\ req[r].then # "idle" => submission # None
  BY <1>1 DEF SlotFits, Owns
<1>3. lost' \in 0..MaxLost /\ lost' >= lost
  BY <1>1 DEF Seen, Missed, TypeOK
<1>4. uploads' \in [Archives -> {"none", "initiated", "accepted", "failed"}]
      /\ OnlyTheSubmissionIsAccepted'
  BY <1>1, <1>2 DEF IInv, TypeOK, OnlyTheSubmissionIsAccepted, Inserted
<1>5. RowTypes' /\ Recorded(r)
  BY <1>1, <1>3, <1>4, RowsKept DEF RowTypes, world, Recorded
<1>6. CASE Goto(r, "record")
  <2>1. PICK s \in RequestStates :
          /\ req' = [req EXCEPT ![r] = s] /\ s.pc = "record" /\ s.on = req[r].on
          /\ s.then = req[r].then /\ s.todo = req[r].todo
    BY <1>6, GotoLeaves
  <2>2. QED  BY <1>1, <1>2, <1>3, <1>4, <1>5, <2>1, OwnerSteps
<1>7. CASE req' = [req EXCEPT ![r].pc = "remove", ![r].then = "idle"]
  <2> DEFINE slot == [req[r] EXCEPT !.pc = "remove", !.then = "idle"]
  <2>1. req' = [req EXCEPT ![r] = slot]
    BY <1>1, <1>7 DEF TypeOK
  <2>2. /\ slot \in RequestStates /\ slot.pc = "remove" /\ slot.on = req[r].on
        /\ slot.then = "idle" /\ slot.todo = req[r].todo
    BY <1>1 DEF RequestStates
  <2> HIDE DEF slot
  <2>3. QED  BY <1>1, <1>2, <1>3, <1>4, <1>5, <2>1, <2>2, OwnerSteps
<1>8. QED  BY <1>6, <1>7 DEF InsertUpload

(* Discarding an archive, to go on with "then". *)
LEMMA DiscardLeaves ==
  ASSUME IInv, NEW r \in Requests, NEW then \in {"idle", "accept", "next"},
         req[r].on \in Archives, Discard(r, req[r].on, then)
  PROVE  \E s \in RequestStates :
           /\ req' = [req EXCEPT ![r] = s] /\ s.pc = "mark" /\ s.on = req[r].on
           /\ s.then = then /\ s.todo = req[r].todo
<1> DEFINE s == [req[r] EXCEPT !.pc = "mark", !.then = then]
<1>1. req[r] \in RequestStates
  BY DEF IInv, TypeOK
<1>2. req' = [req EXCEPT ![r] = s]
  BY <1>1 DEF IInv, TypeOK, Discard, RequestStates
<1>3. /\ s \in RequestStates /\ s.pc = "mark" /\ s.on = req[r].on
      /\ s.then = then /\ s.todo = req[r].todo
  BY <1>1 DEF RequestStates
<1>4. QED  BY <1>2, <1>3

LEMMA RecordSubmissionIInv ==
  ASSUME IInv, NEW r \in Requests, RecordSubmission(r)
  PROVE  IInv'
<1>1. /\ TypeOK /\ req[r].pc = "record" /\ SlotFits(req[r])
      /\ UNCHANGED <<world, objects, uploads, seals, deaths, failed>>
      /\ Seen \/ Missed
  BY DEF IInv, RecordSubmission, At
<1>2. req[r].on \in Archives /\ req[r].on # submission /\ Owns(req[r]) /\ req[r].on # None
  BY <1>1, ArchivesAreNumbers DEF SlotFits, Owns
<1>3. /\ lost' \in 0..MaxLost /\ lost' >= lost /\ (Seen => lost' = lost)
      /\ Missed => lost' > 0
  BY <1>1 DEF Seen, Missed, TypeOK
<1>4. Recorded(r) /\ submission' \in {submission, req[r].on}
  BY <1>1 DEF RecordSubmission, Recorded
<1>5. RowTypes'
  BY <1>1, <1>2, <1>3, <1>4, RowsKept DEF RowTypes, world
<1>6. OnlyTheSubmissionIsAccepted'
  <2>1. CASE submission' = submission
    BY <1>1, <2>1 DEF IInv, OnlyTheSubmissionIsAccepted
  <2>2. CASE submission = None
    <3>1. \A a \in Archives : uploads[a] # "accepted"
      BY <2>2, ArchivesAreNumbers DEF IInv, OnlyTheSubmissionIsAccepted
    <3>2. QED  BY <1>1, <3>1 DEF OnlyTheSubmissionIsAccepted
  <2>3. QED  BY <1>4, <2>1, <2>2 DEF Recorded
<1>7. CASE submission' = req[r].on /\ Goto(r, "accept") /\ Seen
  <2>1. "accept" \in Completing
    BY DEF Completing
  <2>2. QED  BY <1>1, <1>2, <1>3, <1>4, <1>5, <1>6, <1>7, <2>1, CompletingSteps
<1>8. CASE /\ GiveBack(r)
           /\ Missed \/ (UNCHANGED submission /\ Seen)
  <2>1. PICK s \in RequestStates :
          /\ req' = [req EXCEPT ![r] = s] /\ s.pc = "mark" /\ s.on = req[r].on
          /\ s.then = "idle" /\ s.todo = req[r].todo
    BY <1>2, <1>8, DiscardLeaves DEF GiveBack
  <2>2. s.on # submission' \/ lost' > 0
    BY <1>2, <1>3, <1>8, <2>1
  <2>3. QED  BY <1>1, <1>2, <1>3, <1>4, <1>5, <1>6, <2>1, <2>2, OwnerSteps
<1>9. CASE /\ submission # None /\ UNCHANGED submission
           /\ Discard(r, req[r].on, "accept") /\ Seen
  <2>1. PICK s \in RequestStates :
          /\ req' = [req EXCEPT ![r] = s] /\ s.pc = "mark" /\ s.on = req[r].on
          /\ s.then = "accept" /\ s.todo = req[r].todo
    BY <1>2, <1>9, DiscardLeaves
  <2>2. QED  BY <1>1, <1>2, <1>3, <1>4, <1>5, <1>6, <1>9, <2>1, OwnerSteps
<1>10. QED  BY <1>7, <1>8, <1>9 DEF RecordSubmission

-----------------------------------------------------------------------------
(* Discarding *)

LEMMA MarkFailedIInv ==
  ASSUME IInv, NEW r \in Requests, MarkFailed(r)
  PROVE  IInv'
<1>1. /\ TypeOK /\ req[r].pc = "mark" /\ SlotFits(req[r]) /\ Goto(r, "remove")
      /\ UNCHANGED <<world, objects, submission, seals, deaths, lost>>
      /\ uploads' \in {uploads, MarkedFailed(r)} /\ (Works \/ Fails("update"))
  BY DEF IInv, MarkFailed, At
<1>2. req[r].on \in Archives /\ (req[r].on # submission \/ lost > 0)
  BY <1>1 DEF SlotFits
<1>3. /\ uploads' \in [Archives -> {"none", "initiated", "accepted", "failed"}]
      /\ OnlyTheSubmissionIsAccepted'
  BY <1>1, <1>2 DEF IInv, TypeOK, OnlyTheSubmissionIsAccepted, MarkedFailed
<1>4. RowTypes' /\ Recorded(r) /\ UNCHANGED <<seals, lost>>
  <2>1. failed' \in [Calls -> 0..MaxFails]
    BY <1>1, FailedCounts DEF Calls
  <2>2. QED  BY <1>1, <1>3, <2>1, RowsKept DEF RowTypes, world, Recorded
<1>5. PICK s \in RequestStates :
        /\ req' = [req EXCEPT ![r] = s] /\ s.pc = "remove" /\ s.on = req[r].on
        /\ s.then = req[r].then /\ s.todo = req[r].todo
  BY <1>1, GotoLeaves
<1>6. seals' >= seals /\ lost' >= lost
  BY <1>1, <1>4 DEF TypeOK
<1>7. OwnsFits(r, s) /\ (Owns(s) => Owns(req[r]))
  BY <1>1, <1>5 DEF OwnsFits, Owns
<1>8. SlotFits(s)'
  BY <1>1, <1>2, <1>4, <1>5, <1>7 DEF SlotFits, Owns, Completing
<1>9. QED  BY <1>1, <1>3, <1>4, <1>5, <1>6, <1>7, <1>8, RequestSteps

LEMMA RemoveObjectIInv ==
  ASSUME IInv, NEW r \in Requests, RemoveObject(r)
  PROVE  IInv'
<1> DEFINE slot == [Idle EXCEPT !.pc = req[r].then, !.todo = req[r].todo]
<1>1. /\ TypeOK /\ req[r].pc = "remove" /\ SlotFits(req[r]) /\ req[r] \in RequestStates
      /\ UNCHANGED <<world, uploads, submission, seals, deaths, lost>>
      /\ req' = [req EXCEPT ![r] = slot] /\ objects' \subseteq objects
      /\ Works \/ Fails("remove")
  BY DEF IInv, TypeOK, RemoveObject, At
<1>2. /\ slot \in RequestStates /\ slot.pc = req[r].then /\ slot.todo = req[r].todo
      /\ slot.then = "idle" /\ req[r].then \in {"idle", "accept", "next"}
  BY <1>1 DEF Idle, RequestStates
<1> HIDE DEF slot
<1> PICK s \in RequestStates : s = slot
  BY <1>2
<1>3. OnlyTheSubmissionIsAccepted'
  BY <1>1 DEF IInv, OnlyTheSubmissionIsAccepted
<1>4. RowTypes' /\ Recorded(r) /\ seals' >= seals /\ lost' >= lost
  <2>1. failed' \in [Calls -> 0..MaxFails]
    BY <1>1, FailedCounts DEF Calls
  <2>2. QED  BY <1>1, <2>1, RowsKept DEF RowTypes, world, Recorded
<1>5. ~Owns(s)
  BY <1>2 DEF Owns
<1>6. SlotFits(s)'
  BY <1>1, <1>2, <1>5 DEF SlotFits, Owns, Completing
<1>7. QED  BY <1>1, <1>3, <1>4, <1>5, <1>6, RequestSteps DEF OwnsFits

-----------------------------------------------------------------------------
(* followThrough *)

(* Of a submission that is there.                                          *)
LEMMA FollowingSteps ==
  ASSUME IInv, NEW r \in Requests, NEW pc \in Completing, Goto(r, pc),
         req[r].pc \in Completing, RowTypes', OnlyTheSubmissionIsAccepted',
         UNCHANGED <<submission, seals, lost>>
  PROVE  IInv'
<1>1. submission # None /\ submission' # None /\ Recorded(r)
  BY DEF IInv, SlotFits, Recorded
<1>2. QED  BY <1>1, CompletingSteps

LEMMA AcceptUploadIInv ==
  ASSUME IInv, NEW r \in Requests, AcceptUpload(r)
  PROVE  IInv'
<1>1. /\ TypeOK /\ Goto(r, "close") /\ req[r].pc \in Completing /\ "close" \in Completing
      /\ uploads' \in {uploads, Accepted} /\ (Works \/ Fails("update"))
      /\ UNCHANGED <<world, objects, submission, seals, deaths, lost>>
  BY DEF IInv, AcceptUpload, At, Completing
<1>2. submission \in Archives
  BY <1>1 DEF IInv, SlotFits, TypeOK
<1>3. /\ uploads' \in [Archives -> {"none", "initiated", "accepted", "failed"}]
      /\ OnlyTheSubmissionIsAccepted'
  BY <1>1, <1>2 DEF IInv, TypeOK, OnlyTheSubmissionIsAccepted, Accepted
<1>4. RowTypes' /\ UNCHANGED <<submission, seals, lost>>
  <2>1. failed' \in [Calls -> 0..MaxFails]
    BY <1>1, FailedCounts DEF Calls
  <2>2. QED  BY <1>1, <1>3, <2>1, RowsKept DEF RowTypes, world
<1>5. QED  BY <1>1, <1>3, <1>4, FollowingSteps

LEMMA FollowIInv ==
  ASSUME IInv, NEW r \in Requests, CloseAttempt(r) \/ QueueRun(r)
  PROVE  IInv'
<1>1. PICK pc \in {"queue", "rows"} : Goto(r, pc)
  BY DEF CloseAttempt, QueueRun
<1>2. /\ UNCHANGED <<objects, uploads, submission, counts>> /\ req[r].pc \in Completing
      /\ attempt' \in {attempt, "submitted"} /\ queued' \in {queued, TRUE}
  BY DEF CloseAttempt, QueueRun, At, Completing
<1>3. RowTypes' /\ UNCHANGED <<submission, seals, lost>>
  BY <1>2, RowsKept DEF RowTypes, counts
<1>4. OnlyTheSubmissionIsAccepted' /\ pc \in Completing
  BY <1>2 DEF IInv, OnlyTheSubmissionIsAccepted, Completing
<1>5. QED  BY <1>1, <1>2, <1>3, <1>4, FollowingSteps

(* A list is made of what is not the submission's. *)
LEMMA ListingSteps ==
  ASSUME IInv, NEW r \in Requests, NEW pc \in {"next", "strays"},
         NEW todo \in SUBSET Archives, submission \notin todo,
         req' = [req EXCEPT ![r].pc = pc, ![r].todo = todo],
         req[r].pc \in Completing, Works \/ Fails("list"),
         UNCHANGED <<world, objects, uploads, submission, seals, deaths, lost>>
  PROVE  IInv'
<1> DEFINE slot == [req[r] EXCEPT !.pc = pc, !.todo = todo]
<1>1. /\ TypeOK /\ req[r] \in RequestStates /\ SlotFits(req[r])
      /\ req' = [req EXCEPT ![r] = slot]
  BY DEF IInv, TypeOK
<1>2. /\ slot \in RequestStates /\ slot.pc = pc /\ slot.todo = todo
      /\ slot.then = req[r].then
  BY <1>1 DEF RequestStates
<1> HIDE DEF slot
<1> PICK s \in RequestStates : s = slot
  BY <1>2
<1>3. submission # None /\ ~Owns(s)
  BY <1>1, <1>2 DEF SlotFits, Owns
<1>4. SlotFits(s)'
  BY <1>2, <1>3 DEF SlotFits, Owns
<1>5. OnlyTheSubmissionIsAccepted'
  BY DEF IInv, OnlyTheSubmissionIsAccepted
<1>6. RowTypes' /\ Recorded(r) /\ seals' >= seals /\ lost' >= lost
  <2>1. failed' \in [Calls -> 0..MaxFails]
    BY <1>1, FailedCounts DEF Calls
  <2>2. QED  BY <1>1, <2>1, RowsKept DEF RowTypes, world, Recorded
<1>7. QED  BY <1>1, <1>3, <1>4, <1>5, <1>6, RequestSteps DEF OwnsFits

LEMMA ListIInv ==
  ASSUME IInv, NEW r \in Requests, ListRows(r) \/ ListBucket(r)
  PROVE  IInv'
<1>1. /\ UNCHANGED <<world, objects, uploads, submission, seals, deaths, lost>>
      /\ req[r].pc \in Completing
  BY DEF ListRows, ListBucket, At, Completing
<1>2. ASSUME NEW pc \in {"next", "strays"}, NEW list \in SUBSET Archives,
             submission \notin list, Found(r, pc, list)
      PROVE  IInv'
  <2>1. CASE req' = [req EXCEPT ![r].pc = pc, ![r].todo = list] /\ Works
    BY <1>1, <1>2, <2>1, ListingSteps
  <2>2. CASE req' = [req EXCEPT ![r].pc = pc, ![r].todo = {}] /\ Fails("list")
    <3>1. {} \in SUBSET Archives /\ submission \notin {}
      OBVIOUS
    <3>2. QED  BY <1>1, <2>2, <3>1, ListingSteps
  <2>3. QED  BY <1>2, <2>1, <2>2 DEF Found
<1>3. OrphanedRows \in SUBSET Archives /\ submission \notin OrphanedRows
  BY DEF OrphanedRows, Initiated
<1>4. Strays \in SUBSET Archives /\ submission \notin Strays
  BY DEF Strays, IInv, TypeOK
<1>5. QED  BY <1>2, <1>3, <1>4 DEF ListRows, ListBucket

LEMMA NextOrphanIInv ==
  ASSUME IInv, NEW r \in Requests, NextOrphan(r)
  PROVE  IInv'
<1>1. /\ TypeOK /\ SlotFits(req[r]) /\ req[r] \in RequestStates /\ req[r].pc = "next"
      /\ UNCHANGED <<world, objects, uploads, submission, counts>>
  BY DEF IInv, TypeOK, NextOrphan, At
<1>2. RowTypes' /\ UNCHANGED <<submission, seals, lost>> /\ OnlyTheSubmissionIsAccepted'
  BY <1>1, RowsKept DEF IInv, RowTypes, world, counts, OnlyTheSubmissionIsAccepted
<1>3. "next" \in Completing /\ "bucket" \in Completing
  BY DEF Completing
<1>4. CASE Goto(r, "bucket")
  BY <1>1, <1>2, <1>3, <1>4, FollowingSteps
<1>5. CASE ~Goto(r, "bucket")
  <2>1. PICK a \in req[r].todo :
          req' = [req EXCEPT ![r] = [pc |-> "mark", on |-> a, then |-> "next",
                                     todo |-> req[r].todo \ {a}]]
    BY <1>5 DEF NextOrphan
  <2> DEFINE slot == [pc |-> "mark", on |-> a, then |-> "next", todo |-> req[r].todo \ {a}]
  <2>2. req[r].todo \subseteq Archives /\ a \in Archives
    BY <1>1 DEF RequestStates
  <2>3. /\ slot \in RequestStates /\ slot.pc = "mark" /\ slot.on = a /\ slot.then = "next"
        /\ slot.todo \subseteq req[r].todo
    BY <2>2 DEF RequestStates
  <2>4. req' = [req EXCEPT ![r] = slot]
    BY <2>1
  <2> HIDE DEF slot
  <2> PICK s \in RequestStates : s = slot
    BY <2>3
  <2>5. ~Owns(s)
    BY <2>3 DEF Owns
  <2>6. submission # None /\ submission \notin req[r].todo
    BY <1>1, <1>3 DEF SlotFits
  <2>7. SlotFits(s)'
    BY <1>2, <2>2, <2>3, <2>5, <2>6 DEF SlotFits, Owns, Completing
  <2>8. Recorded(r) /\ seals' >= seals /\ lost' >= lost
    BY <1>1, <1>2 DEF Recorded, TypeOK
  <2>9. QED  BY <1>2, <2>4, <2>5, <2>7, <2>8, RequestSteps DEF OwnsFits
<1>6. QED  BY <1>4, <1>5

(* Requests that end, and what comes from outside.                         *)
LEMMA EndIInv ==
  ASSUME IInv, NEW r \in Requests, RemoveStrays(r) \/ Dies(r)
  PROVE  IInv'
<1>1. /\ TypeOK /\ Answer(r) /\ objects' \subseteq objects /\ deaths' \in 0..MaxDeaths
      /\ UNCHANGED <<world, uploads, submission, seals, lost>>
      /\ Works \/ Fails("remove")
  BY DEF IInv, TypeOK, RemoveStrays, Dies, Works
<1>2. failed' \in [Calls -> 0..MaxFails]
  BY <1>1, FailedCounts DEF Calls
<1>3. RowTypes' /\ OnlyTheSubmissionIsAccepted' /\ lost' >= lost
  BY <1>1, <1>2, RowsKept DEF IInv, RowTypes, world, OnlyTheSubmissionIsAccepted
<1>4. QED  BY <1>1, <1>3, AnswerSteps

LEMMA LoadPageIInv ==
  ASSUME IInv, NEW r \in Requests, LoadPage(r)
  PROVE  IInv'
<1>1. /\ Goto(r, "accept") /\ submission # None /\ "accept" \in Completing
      /\ UNCHANGED <<world, objects, uploads, submission, counts>>
  BY DEF LoadPage, Completing
<1>2. RowTypes' /\ OnlyTheSubmissionIsAccepted' /\ UNCHANGED <<seals, lost>>
      /\ Recorded(r)
  BY <1>1, RowsKept DEF IInv, RowTypes, world, counts, OnlyTheSubmissionIsAccepted, Recorded
<1>3. QED  BY <1>1, <1>2, CompletingSteps

LEMMA OutsideIInv ==
  ASSUME IInv, Withdraw \/ UNCHANGED vars
  PROVE  IInv'
<1>1. /\ attempt' \in {attempt, "withdrawn"}
      /\ UNCHANGED <<objects, uploads, submission, queued, req, seals, deaths, lost, failed>>
  BY DEF Withdraw, vars, world, counts
<1>2. TypeOK'
  BY <1>1 DEF IInv, TypeOK
<1>3. /\ OnlyTheSubmissionIsAccepted' /\ OwnersDiffer'
      /\ submission' # None => submission' <= seals'
      /\ \A r \in Requests : SlotFits(req[r])'
  BY <1>1 DEF IInv, OnlyTheSubmissionIsAccepted, OwnersDiffer, Owns, SlotFits
<1>4. QED  BY <1>2, <1>3 DEF IInv

-----------------------------------------------------------------------------
LEMMA NextIInv ==
  ASSUME IInv, [Next]_vars
  PROVE  IInv'
  BY SubmitIInv, LoadPageIInv, StoreObjectIInv, InsertUploadIInv, RecordSubmissionIInv,
     MarkFailedIInv, RemoveObjectIInv, AcceptUploadIInv, FollowIInv, ListIInv,
     NextOrphanIInv, EndIInv, OutsideIInv DEF Next, Step

(* Who owns which archive, and what a cleaning up may list.                *)
THEOREM SealingInvariant == Spec => []IInv
<1>1. Init => IInv
  BY InitIInv
<1>2. IInv /\ [Next]_vars => IInv'
  BY NextIInv
<1>3. QED  BY <1>1, <1>2, PTL DEF Spec

(* The rows, the bucket and the requests stay in their types.              *)
THEOREM SealingTypes == Spec => []TypeOK
<1>1. IInv => TypeOK
  BY DEF IInv
<1>2. QED  BY <1>1, SealingInvariant, PTL

(* No archive but the submission's is ever accepted (submitAuthored).      *)
THEOREM AcceptanceHolds == Spec => []OnlyTheSubmissionIsAccepted
<1>1. IInv => OnlyTheSubmissionIsAccepted
  BY DEF IInv
<1>2. QED  BY <1>1, SealingInvariant, PTL

-----------------------------------------------------------------------------
(* The submission's archive *)

LEMMA NextLeavesTheSubmission ==
  ASSUME IInv, [Next]_vars, NEW a \in objects \ objects', submission = a
  PROVE  \E r \in Requests : At(r, "remove") /\ req[r].on = a /\ lost > 0
<1>1. a \in Archives /\ a # None
  BY ArchivesAreNumbers DEF IInv, TypeOK
<1>2. ASSUME NEW r \in Requests, RemoveObject(r)
      PROVE  At(r, "remove") /\ req[r].on = a /\ lost > 0
  BY <1>2 DEF IInv, SlotFits, RemoveObject, At
<1>3. ASSUME NEW r \in Requests, RemoveStrays(r) PROVE FALSE
  BY <1>3 DEF IInv, SlotFits, RemoveStrays
<1>4. ASSUME NEW r \in Requests, Submit(r) \/ LoadPage(r) \/ Dies(r) \/ StoreObject(r)
        \/ InsertUpload(r) \/ RecordSubmission(r) \/ MarkFailed(r) \/ AcceptUpload(r)
        \/ CloseAttempt(r) \/ QueueRun(r) \/ ListRows(r) \/ NextOrphan(r) \/ ListBucket(r)
      PROVE FALSE
  BY <1>4, Zenon DEF Submit, LoadPage, Dies, StoreObject, InsertUpload, RecordSubmission,
     MarkFailed, AcceptUpload, CloseAttempt, QueueRun, ListRows, NextOrphan, ListBucket
<1>5. CASE Withdraw \/ UNCHANGED vars
  BY <1>5 DEF Withdraw, vars
<1>6. QED  BY <1>2, <1>3, <1>4, <1>5 DEF Next, Step

(* No cleaning up removes the archive of a submission; only the request    *)
(* that recorded it can, when it missed the answer (discardSealed,         *)
(* discardOrphanedUploads).                                                *)
THEOREM SubmissionIsLeft == Spec => OthersLeaveTheSubmission
<1>1. IInv /\ [Next]_vars =>
        [\A a \in objects \ objects' : submission = a =>
           \E r \in Requests : At(r, "remove") /\ req[r].on = a /\ lost > 0]_vars
  BY NextLeavesTheSubmission
<1>2. QED  BY <1>1, SealingInvariant, PTL DEF Spec, OthersLeaveTheSubmission

-----------------------------------------------------------------------------
(* What is left behind *)

(* A request that will remove the archive, or make it the submission.      *)
Holds(q, a) == Owns(req[q]) /\ req[q].pc # "store" /\ req[q].on = a

(* Nothing else is in the bucket. *)
ObjectsHeld == \A a \in objects : a = submission \/ \E q \in Requests : Holds(q, a)

(* No other row is "initiated" than one that somebody is going to settle.  *)
RowsHeld == \A a \in Archives : uploads[a] = "initiated" =>
  \/ a = submission /\ \E q \in Requests : At(q, "accept")
  \/ \E q \in Requests : Holds(q, a) /\ req[q].pc \in {"record", "mark"}

(* The submission has its archive, and so has what may become it. *)
Kept ==
  /\ submission # None =>
       submission \in objects /\ uploads[submission] \in {"initiated", "accepted"}
  /\ submission = None => \A q \in Requests :
       /\ At(q, "insert") \/ At(q, "record") => req[q].on \in objects
       /\ At(q, "record") => uploads[req[q].on] = "initiated"

CleanInv ==
  deaths = 0 /\ lost = 0 =>
    /\ Kept
    /\ failed["remove"] = 0 => ObjectsHeld
    /\ failed["update"] = 0 => RowsHeld

(* What a step keeps, whichever of its calls fail. *)
KeepsClean ==
  /\ Kept'
  /\ ObjectsHeld /\ failed'["remove"] = failed["remove"] => ObjectsHeld'
  /\ RowsHeld /\ failed'["update"] = failed["update"] => RowsHeld'

LEMMA InitClean == Init => CleanInv
  BY ArchivesAreNumbers DEF Init, CleanInv, ObjectsHeld, RowsHeld, Kept, At, Idle

(* A step of a request that holds nothing, before and after. *)
LEMMA QuietSteps ==
  ASSUME IInv, Kept, NEW r \in Requests, NEW s,
         req' = [req EXCEPT ![r] = s], ~Owns(req[r]), req[r].pc # "accept",
         s.pc \notin {"insert", "record"}, UNCHANGED <<objects, uploads, submission>>
  PROVE  KeepsClean
<1>1. req'[r] = s /\ \A q \in Requests \ {r} : req'[q] = req[q]
  BY DEF IInv, TypeOK
<1>2. \A q \in Requests, a \in Archives : Holds(q, a) => Holds(q, a)' /\ req'[q] = req[q]
  BY <1>1 DEF Holds, Owns
<1>3. \A q \in Requests : At(q, "accept") => At(q, "accept")'
  BY <1>1 DEF At
<1>4. objects \subseteq Archives
  BY DEF IInv, TypeOK
<1>5. \A q \in Requests : At(q, "insert")' \/ At(q, "record")' => req'[q] = req[q]
  BY <1>1 DEF At
<1>6. Kept'
  BY <1>5 DEF Kept, At
<1>7. (ObjectsHeld => ObjectsHeld') /\ (RowsHeld => RowsHeld')
  BY <1>2, <1>3, <1>4 DEF ObjectsHeld, RowsHeld
<1>8. QED  BY <1>6, <1>7 DEF KeepsClean

LEMMA FollowingClean ==
  ASSUME IInv, Kept, NEW r \in Requests,
         CloseAttempt(r) \/ QueueRun(r) \/ ListRows(r) \/ NextOrphan(r) \/ ListBucket(r)
  PROVE  KeepsClean
<1>1. /\ UNCHANGED <<objects, uploads, submission>>
      /\ req[r].pc \in Completing \ {"accept"}
  BY DEF CloseAttempt, QueueRun, ListRows, NextOrphan, ListBucket, At, Completing
<1>2. ~Owns(req[r])
  BY <1>1 DEF Owns, Completing
<1>3. \E s : req' = [req EXCEPT ![r] = s] /\ s.pc \notin {"insert", "record"}
  <2>1. req \in [Requests -> RequestStates] /\ req[r] \in RequestStates
    BY DEF IInv, TypeOK
  <2>2. ASSUME NEW pc \in {"queue", "rows", "bucket"}, Goto(r, pc)
        PROVE  \E s : req' = [req EXCEPT ![r] = s] /\ s.pc \notin {"insert", "record"}
    <3>1. pc \in {"insert", "record", "remove"} \cup Completing
      BY DEF Completing
    <3>2. PICK s \in RequestStates : req' = [req EXCEPT ![r] = s] /\ s.pc = pc
      BY <2>2, <3>1, GotoLeaves
    <3>3. QED  BY <3>2
  <2>3. ASSUME NEW pc \in {"next", "strays"}, NEW todo,
               req' = [req EXCEPT ![r].pc = pc, ![r].todo = todo]
        PROVE  \E s : req' = [req EXCEPT ![r] = s] /\ s.pc \notin {"insert", "record"}
    <3> DEFINE s == [req[r] EXCEPT !.pc = pc, !.todo = todo]
    <3>1. req' = [req EXCEPT ![r] = s] /\ s.pc = pc
      BY <2>1, <2>3 DEF RequestStates
    <3>2. QED  BY <3>1
  <2>4. CASE NextOrphan(r) /\ req[r].todo # {}
    <3>1. PICK a \in req[r].todo :
            req' = [req EXCEPT ![r] = [pc |-> "mark", on |-> a, then |-> "next",
                                       todo |-> req[r].todo \ {a}]]
      BY <2>4 DEF NextOrphan
    <3> DEFINE s == [pc |-> "mark", on |-> a, then |-> "next", todo |-> req[r].todo \ {a}]
    <3>2. req' = [req EXCEPT ![r] = s] /\ s.pc = "mark"
      BY <3>1
    <3> HIDE DEF s
    <3>3. QED  BY <3>2
  <2>5. QED
    BY <2>2, <2>3, <2>4
       DEF CloseAttempt, QueueRun, ListRows, NextOrphan, ListBucket, Found
<1>4. QED  BY <1>1, <1>2, <1>3, QuietSteps

LEMMA StartingClean ==
  ASSUME IInv, Kept, NEW r \in Requests, Submit(r) \/ LoadPage(r)
  PROVE  KeepsClean
<1>1. UNCHANGED <<objects, uploads, submission>> /\ req[r].pc = "idle" /\ ~Owns(req[r])
  BY DEF Submit, LoadPage, At, Owns
<1>2. req[r] \in RequestStates /\ req \in [Requests -> RequestStates]
  BY DEF IInv, TypeOK
<1>3. CASE Goto(r, "accept")
  <2> DEFINE s == [req[r] EXCEPT !.pc = "accept"]
  <2>1. req' = [req EXCEPT ![r] = s] /\ s.pc = "accept"
    BY <1>2, <1>3 DEF Goto, RequestStates
  <2>2. QED  BY <1>1, <2>1, QuietSteps
<1>4. CASE req' = [req EXCEPT ![r].pc = "store", ![r].on = seals + 1]
  <2> DEFINE s == [req[r] EXCEPT !.pc = "store", !.on = seals + 1]
  <2>1. req' = [req EXCEPT ![r] = s] /\ s.pc = "store"
    BY <1>2, <1>4 DEF RequestStates
  <2>2. QED  BY <1>1, <2>1, QuietSteps
<1>5. QED  BY <1>3, <1>4 DEF Submit, LoadPage

(* A request that goes on with the archive it holds, or begins to hold it. *)
LEMMA StoreClean ==
  ASSUME IInv, Kept, NEW r \in Requests, StoreObject(r)
  PROVE  KeepsClean
<1>1. /\ req[r].pc = "store" /\ UNCHANGED <<uploads, submission>>
      /\ req \in [Requests -> RequestStates] /\ req[r] \in RequestStates
      /\ SlotFits(req[r]) /\ objects \subseteq Archives /\ objects \subseteq objects'
  BY DEF IInv, TypeOK, StoreObject, At
<1>2. \A q \in Requests \ {r} : req'[q] = req[q]
  BY <1>1 DEF StoreObject, Goto, Answer
<1>3. \A q \in Requests : Holds(q, req[q].on) \/ At(q, "accept") => q # r
  BY <1>1 DEF Holds, At
<1>4. \/ objects' = objects \cup {req[r].on} /\ req'[r] = [req[r] EXCEPT !.pc = "insert"]
      \/ objects' = objects /\ req'[r] = Idle
  BY <1>1 DEF StoreObject, Goto, Answer
<1>5. \A q \in Requests, a \in Archives : Holds(q, a) => q # r /\ Holds(q, a)'
  BY <1>2, <1>3 DEF Holds, Owns
<1>6. ObjectsHeld => ObjectsHeld'
  <2> SUFFICES ASSUME ObjectsHeld
               PROVE  \A a \in objects' : a = submission' \/ \E q \in Requests : Holds(q, a)'
    BY DEF ObjectsHeld
  <2>1. CASE objects' = objects \cup {req[r].on} /\ req'[r] = [req[r] EXCEPT !.pc = "insert"]
    <3>1. Owns(req[r])' /\ req'[r].pc # "store" /\ req'[r].on = req[r].on
      <4>1. req'[r].pc = "insert" /\ req'[r].on = req[r].on
        BY <1>1, <2>1 DEF RequestStates
      <4>2. QED  BY <4>1 DEF Owns
    <3>2. \A a \in objects : a = submission \/ \E q \in Requests : Holds(q, a)
      BY DEF ObjectsHeld
    <3>3. \A a \in objects' : a \in objects \/ Holds(r, a)'
      <4>1. \A a \in objects' : a \in objects \/ a = req[r].on
        BY <2>1
      <4>2. QED  BY <3>1, <4>1 DEF Holds
    <3>4. QED  BY <1>1, <1>5, <3>2, <3>3
  <2>2. CASE objects' = objects
    BY <1>1, <1>5, <2>2 DEF ObjectsHeld
  <2>3. QED  BY <1>4, <2>1, <2>2
<1>7. \A q \in Requests : At(q, "accept") => At(q, "accept")'
  BY <1>2, <1>3 DEF At
<1>8. RowsHeld => RowsHeld'
  BY <1>1, <1>2, <1>5, <1>7 DEF RowsHeld
<1>9. submission' = None => \A q \in Requests :
       /\ At(q, "insert")' \/ At(q, "record")' => req'[q].on \in objects'
       /\ At(q, "record")' => uploads'[req'[q].on] = "initiated"
  <2> SUFFICES ASSUME submission = None, NEW q \in Requests
               PROVE /\ At(q, "insert")' \/ At(q, "record")' => req'[q].on \in objects'
                     /\ At(q, "record")' => uploads'[req'[q].on] = "initiated"
    BY <1>1
  <2>1. CASE q = r
    BY <1>1, <1>4, <2>1 DEF At, Idle, RequestStates
  <2>2. CASE q # r
    BY <1>1, <1>2, <2>2 DEF Kept, At
  <2>3. QED  BY <2>1, <2>2
<1>10. Kept'
  BY <1>1, <1>9 DEF Kept
<1>11. QED  BY <1>6, <1>8, <1>10 DEF KeepsClean

LEMMA InsertClean ==
  ASSUME IInv, Kept, NEW r \in Requests, InsertUpload(r), lost' = 0
  PROVE  KeepsClean
<1> DEFINE b == req[r].on
<1>1. /\ req[r].pc = "insert" /\ UNCHANGED <<objects, submission>>
      /\ req \in [Requests -> RequestStates] /\ req[r] \in RequestStates
      /\ SlotFits(req[r]) /\ objects \subseteq Archives /\ lost \in Nat
      /\ uploads \in [Archives -> {"none", "initiated", "accepted", "failed"}]
  BY DEF IInv, TypeOK, InsertUpload, At
<1>2. b \in Archives /\ b # submission
  BY <1>1 DEF SlotFits
<1>3. \/ uploads' = [uploads EXCEPT ![b] = "initiated"] /\ req'[r] = [req[r] EXCEPT !.pc = "record"]
      \/ uploads' = uploads /\ req'[r] = [req[r] EXCEPT !.pc = "remove", !.then = "idle"]
  <2>1. ~Missed
    BY <1>1 DEF Missed
  <2>2. CASE uploads' = Inserted(r) /\ Goto(r, "record")
    BY <1>1, <2>2 DEF Inserted, Goto
  <2>3. CASE uploads' = uploads /\ req' = [req EXCEPT ![r].pc = "remove", ![r].then = "idle"]
    BY <1>1, <2>3
  <2>4. QED  BY <2>1, <2>2, <2>3 DEF InsertUpload
<1>4. \A q \in Requests \ {r} : req'[q] = req[q]
  BY <1>1 DEF InsertUpload, Goto
<1>5. /\ Owns(req[r])' /\ req'[r].on = b /\ req'[r].pc \in {"record", "remove"}
      /\ uploads' # uploads => req'[r].pc = "record"
      /\ req'[r].pc = "record" => uploads'[b] = "initiated"
  BY <1>1, <1>2, <1>3 DEF Owns, RequestStates
<1>6. \A q \in Requests, a \in Archives : Holds(q, a) => Holds(q, a)'
  <2> TAKE q \in Requests, a \in Archives
  <2>1. CASE q = r
    BY <1>5, <2>1 DEF Holds
  <2>2. CASE q # r
    BY <1>4, <2>2 DEF Holds, Owns
  <2>3. QED  BY <2>1, <2>2
<1>7. \A q \in Requests : At(q, "accept") => At(q, "accept")'
  BY <1>1, <1>4 DEF At
<1>8. \A a \in Archives \ {b} : uploads'[a] = uploads[a]
  BY <1>1, <1>3
<1>9. ASSUME RowsHeld, NEW a \in Archives, uploads'[a] = "initiated"
      PROVE \/ a = submission' /\ \E q \in Requests : At(q, "accept")'
            \/ \E q \in Requests : Holds(q, a)' /\ req'[q].pc \in {"record", "mark"}
  <2>1. CASE a = b /\ uploads' # uploads
    BY <1>5, <2>1 DEF Holds
  <2>2. CASE uploads'[a] = uploads[a]
    <3>1. ASSUME NEW q \in Requests, Holds(q, a), req[q].pc \in {"record", "mark"}
          PROVE  Holds(q, a)' /\ req'[q].pc \in {"record", "mark"}
      BY <1>1, <1>4, <1>6, <3>1
    <3>2. QED  BY <1>1, <1>7, <1>9, <2>2, <3>1 DEF RowsHeld
  <2>3. QED  BY <1>8, <2>1, <2>2
<1>10. submission' # None =>
         submission' \in objects' /\ uploads'[submission'] \in {"initiated", "accepted"}
  <2>1. submission \in Archives \cup {None}
    BY DEF IInv, TypeOK
  <2>2. QED  BY <1>1, <1>2, <1>8, <2>1 DEF Kept
<1>11. submission' = None => \A q \in Requests :
       /\ At(q, "insert")' \/ At(q, "record")' => req'[q].on \in objects'
       /\ At(q, "record")' => uploads'[req'[q].on] = "initiated"
  <2> SUFFICES ASSUME submission = None, NEW q \in Requests
               PROVE /\ At(q, "insert")' \/ At(q, "record")' => req'[q].on \in objects'
                     /\ At(q, "record")' => uploads'[req'[q].on] = "initiated"
    BY <1>1
  <2>1. CASE q = r
    BY <1>1, <1>5, <2>1 DEF Kept, At
  <2>2. CASE q # r
    <3>1. At(q, "record") => req[q].on \in Archives /\ uploads[req[q].on] = "initiated"
      BY <1>1 DEF Kept, At
    <3>2. At(q, "record") => uploads'[req[q].on] = "initiated"
      BY <1>1, <1>2, <1>3, <3>1
    <3>3. QED  BY <1>1, <1>4, <2>2, <3>2 DEF Kept, At
  <2>3. QED  BY <2>1, <2>2
<1>12. ObjectsHeld => ObjectsHeld'
  BY <1>1, <1>6 DEF ObjectsHeld
<1>13. RowsHeld => RowsHeld'
  BY <1>9 DEF RowsHeld
<1>14. Kept'
  BY <1>10, <1>11 DEF Kept
<1>15. QED  BY <1>12, <1>13, <1>14 DEF KeepsClean

LEMMA RecordClean ==
  ASSUME IInv, Kept, NEW r \in Requests, RecordSubmission(r), lost' = 0
  PROVE  KeepsClean
<1> DEFINE b == req[r].on
<1>1. /\ req[r].pc = "record" /\ UNCHANGED <<objects, uploads>>
      /\ req \in [Requests -> RequestStates] /\ req[r] \in RequestStates
      /\ SlotFits(req[r]) /\ objects \subseteq Archives /\ lost \in Nat /\ ~Missed
  BY DEF IInv, TypeOK, RecordSubmission, At, Missed
<1>2. b \in Archives /\ b # submission /\ b # None /\ Holds(r, b)
  BY <1>1, ArchivesAreNumbers DEF SlotFits, Holds, Owns
<1>3. \A q \in Requests \ {r} : req'[q] = req[q]
  BY <1>1 DEF RecordSubmission, GiveBack, Discard, Goto
<1>4. \A q \in Requests : At(q, "accept") => At(q, "accept")'
  BY <1>1, <1>3 DEF At
<1>5. CASE submission = None /\ submission' = b /\ Goto(r, "accept")
  <2>1. At(r, "accept")' /\ b \in objects /\ uploads[b] = "initiated"
    BY <1>1, <1>5 DEF Kept, At, Goto
  <2>2. \A q \in Requests, a \in Archives \ {b} :
          Holds(q, a) => Holds(q, a)' /\ req'[q] = req[q]
    BY <1>2, <1>3 DEF Holds, Owns
  <2>3. ObjectsHeld => ObjectsHeld'
    BY <1>1, <1>5, <2>2, ArchivesAreNumbers DEF ObjectsHeld
  <2>4. RowsHeld => RowsHeld'
    <3>1. RowsHeld => \A a \in Archives \ {b} : uploads'[a] = "initiated" =>
            \E q \in Requests : Holds(q, a)' /\ req'[q].pc \in {"record", "mark"}
      BY <1>1, <1>5, <2>2, ArchivesAreNumbers DEF RowsHeld
    <3>2. QED  BY <1>5, <2>1, <3>1 DEF RowsHeld
  <2>5. Kept'
    BY <1>1, <1>2, <1>5, <2>1 DEF Kept
  <2>6. QED  BY <2>3, <2>4, <2>5 DEF KeepsClean
<1>6. CASE UNCHANGED submission /\ \E then \in {"idle", "accept"} : Discard(r, b, then)
  <2>1. /\ req'[r].pc = "mark" /\ req'[r].on = b /\ req'[r].then # "next"
    BY <1>1, <1>6 DEF Discard, RequestStates
  <2>2. \A q \in Requests, a \in Archives : Holds(q, a) =>
          Holds(q, a)' /\ (req[q].pc \in {"record", "mark"} => req'[q].pc \in {"record", "mark"})
    <3> TAKE q \in Requests, a \in Archives
    <3>1. CASE q = r
      BY <2>1, <3>1 DEF Holds, Owns
    <3>2. CASE q # r
      BY <1>3, <3>2 DEF Holds, Owns
    <3>3. QED  BY <3>1, <3>2
  <2>3. ObjectsHeld => ObjectsHeld'
    BY <1>1, <1>6, <2>2 DEF ObjectsHeld
  <2>4. RowsHeld => RowsHeld'
    BY <1>1, <1>4, <1>6, <2>2 DEF RowsHeld
  <2>5. submission' = None => \A q \in Requests :
          /\ At(q, "insert")' \/ At(q, "record")' => req'[q].on \in objects'
          /\ At(q, "record")' => uploads'[req'[q].on] = "initiated"
    BY <1>1, <1>3, <1>6, <2>1 DEF Kept, At
  <2>6. Kept'
    BY <1>1, <1>6, <2>5 DEF Kept
  <2>7. QED  BY <2>3, <2>4, <2>6 DEF KeepsClean
<1>7. QED  BY <1>1, <1>5, <1>6 DEF RecordSubmission, GiveBack

(* An archive is discarded, or left out of the lists of the others.        *)
LEMMA DiscardClean ==
  ASSUME IInv, Kept, NEW r \in Requests, MarkFailed(r) \/ RemoveObject(r), lost = 0
  PROVE  KeepsClean
<1>1. /\ req[r].pc \in {"mark", "remove"} /\ UNCHANGED submission
      /\ req \in [Requests -> RequestStates] /\ req[r] \in RequestStates
      /\ SlotFits(req[r]) /\ objects \subseteq Archives
      /\ uploads \in [Archives -> {"none", "initiated", "accepted", "failed"}]
      /\ submission \in Archives \cup {None}
  BY DEF IInv, TypeOK, MarkFailed, RemoveObject, At
<1>2. req[r].on \in Archives /\ req[r].on # submission
  BY <1>1 DEF SlotFits
<1> PICK b \in Archives : b = req[r].on
  BY <1>2
<1>3. \A q \in Requests \ {r} : req'[q] = req[q]
  BY <1>1 DEF MarkFailed, RemoveObject, Goto
<1>4. \A q \in Requests : At(q, "accept") => At(q, "accept")'
  BY <1>1, <1>3 DEF At
<1>5. \A q \in Requests, a \in Archives \ {b} :
        Holds(q, a) => Holds(q, a)' /\ req'[q] = req[q]
  BY <1>3 DEF Holds, Owns
<1>6. /\ req'[r].pc \notin {"insert", "record"}
      /\ \A a \in Archives \ {b} : uploads'[a] = uploads[a] /\ (a \in objects <=> a \in objects')
      /\ objects' \subseteq objects
  <2>1. CASE MarkFailed(r)
    <3>1. req'[r].pc = "remove"
      BY <1>1, <2>1 DEF MarkFailed, Goto, RequestStates
    <3>2. QED  BY <1>1, <2>1, <3>1 DEF MarkFailed, MarkedFailed
  <2>2. CASE RemoveObject(r)
    <3>1. req'[r].pc = req[r].then /\ req[r].then \in {"idle", "accept", "next"}
      BY <1>1, <2>2 DEF RemoveObject, RequestStates, Idle
    <3>2. QED  BY <1>1, <2>2, <3>1 DEF RemoveObject
  <2>3. QED  BY <2>1, <2>2
<1>7. /\ failed'["remove"] = failed["remove"] => MarkFailed(r) \/ b \notin objects'
      /\ failed'["update"] = failed["update"] =>
           RemoveObject(r) \/ (MarkFailed(r) /\ uploads'[b] # "initiated")
  <2>1. failed \in [Calls -> 0..MaxFails]
    BY DEF IInv, TypeOK
  <2>2. ASSUME NEW call \in Calls, Fails(call) PROVE failed'[call] # failed[call]
    BY <2>1, <2>2 DEF Fails
  <2>3. CASE MarkFailed(r)
    <3>1. uploads' = MarkedFailed(r) \/ Fails("update")
      BY <2>3 DEF MarkFailed
    <3>2. QED  BY <1>1, <2>2, <2>3, <3>1 DEF MarkedFailed, Calls
  <2>4. CASE RemoveObject(r)
    <3>1. objects' = objects \ {b} \/ Fails("remove")
      BY <2>4 DEF RemoveObject
    <3>2. QED  BY <2>2, <2>4, <3>1 DEF Calls
  <2>5. QED  BY <2>3, <2>4
<1>8. ASSUME ObjectsHeld
      PROVE  \A a \in objects' \ {b} : a = submission' \/ \E q \in Requests : Holds(q, a)'
  BY <1>1, <1>5, <1>6, <1>8 DEF ObjectsHeld
<1>9. ASSUME ObjectsHeld, failed'["remove"] = failed["remove"], b \in objects'
      PROVE  \E q \in Requests : Holds(q, b)'
  <2>1. MarkFailed(r)
    BY <1>7, <1>9
  <2>2. PICK q \in Requests : Holds(q, b)
    BY <1>2, <1>6, <1>9 DEF ObjectsHeld
  <2>3. CASE q = r
    <3>1. req'[r].pc = "remove" /\ req'[r].on = b /\ req'[r].then = req[r].then
      BY <1>1, <2>1 DEF MarkFailed, Goto, RequestStates
    <3>2. req[r].pc = "mark"
      BY <2>1 DEF MarkFailed, At
    <3>3. QED  BY <2>2, <2>3, <3>1, <3>2 DEF Holds, Owns
  <2>4. CASE q # r
    BY <1>3, <2>2, <2>4 DEF Holds, Owns
  <2>5. QED  BY <2>3, <2>4
<1>10. ASSUME RowsHeld, failed'["update"] = failed["update"]
       PROVE  RowsHeld'
  <2>1. \A a \in Archives \ {b} : uploads'[a] = "initiated" =>
          \/ a = submission' /\ \E q \in Requests : At(q, "accept")'
          \/ \E q \in Requests : Holds(q, a)' /\ req'[q].pc \in {"record", "mark"}
    BY <1>1, <1>4, <1>5, <1>6, <1>10 DEF RowsHeld
  <2>2. ASSUME uploads'[b] = "initiated"
        PROVE  \E q \in Requests : Holds(q, b)' /\ req'[q].pc \in {"record", "mark"}
    <3>1. uploads' = uploads /\ req[r].pc = "remove"
      BY <1>7, <1>10, <2>2 DEF RemoveObject, At
    <3>2. PICK q \in Requests : Holds(q, b) /\ req[q].pc \in {"record", "mark"}
      BY <1>2, <1>10, <2>2, <3>1 DEF RowsHeld
    <3>3. QED  BY <1>3, <3>1, <3>2 DEF Holds, Owns
  <2>3. QED  BY <2>1, <2>2 DEF RowsHeld
<1>11. submission' = None => \A q \in Requests :
         /\ At(q, "insert")' \/ At(q, "record")' => req'[q].on \in objects'
         /\ At(q, "record")' => uploads'[req'[q].on] = "initiated"
  <2> SUFFICES ASSUME submission = None, NEW q \in Requests, At(q, "insert")' \/ At(q, "record")'
               PROVE  req'[q].on \in objects' /\ (At(q, "record")' => uploads'[req'[q].on] = "initiated")
    BY <1>1
  <2>1. q # r /\ req'[q] = req[q]
    BY <1>3, <1>6 DEF At
  <2>2. Owns(req[q]) /\ Owns(req[r])
    BY <1>1, <2>1 DEF At, Owns, SlotFits
  <2>3. req[q].on # b
    BY <2>1, <2>2 DEF IInv, OwnersDiffer
  <2>4. QED  BY <1>1, <1>6, <2>1, <2>3 DEF Kept, At
<1>12. Kept'
  BY <1>1, <1>2, <1>6, <1>11 DEF Kept
<1>13. QED  BY <1>8, <1>9, <1>10, <1>12 DEF KeepsClean, ObjectsHeld

LEMMA AcceptClean ==
  ASSUME IInv, Kept, NEW r \in Requests, AcceptUpload(r)
  PROVE  KeepsClean
<1>1. /\ req[r].pc = "accept" /\ UNCHANGED <<objects, submission>>
      /\ uploads' = Accepted \/ (uploads' = uploads /\ Fails("update"))
      /\ req \in [Requests -> RequestStates] /\ objects \subseteq Archives
      /\ uploads \in [Archives -> {"none", "initiated", "accepted", "failed"}]
      /\ submission \in Archives /\ failed \in [Calls -> 0..MaxFails]
  BY DEF IInv, TypeOK, AcceptUpload, At, SlotFits, Completing
<1>2. /\ uploads'[submission] \in {"initiated", "accepted"}
      /\ \A a \in Archives \ {submission} : uploads'[a] = uploads[a]
      /\ failed'["update"] = failed["update"] => uploads'[submission] = "accepted"
  <2>1. CASE uploads' = Accepted
    BY <1>1, <2>1, ArchivesAreNumbers DEF Accepted, Kept
  <2>2. CASE uploads' = uploads /\ Fails("update")
    <3>1. failed'["update"] # failed["update"]
      BY <1>1, <2>2 DEF Fails, Calls
    <3>2. QED  BY <1>1, <2>2, <3>1, ArchivesAreNumbers DEF Kept
  <2>3. QED  BY <1>1, <2>1, <2>2
<1>3. \A q \in Requests, a \in Archives : Holds(q, a) => Holds(q, a)' /\ req'[q] = req[q]
  <2>1. \A q \in Requests \ {r} : req'[q] = req[q]
    BY <1>1 DEF AcceptUpload, Goto
  <2>2. QED  BY <1>1, <2>1 DEF Holds, Owns
<1>4. Kept'
  BY <1>1, <1>2, ArchivesAreNumbers DEF Kept
<1>5. ObjectsHeld => ObjectsHeld'
  BY <1>1, <1>3 DEF ObjectsHeld
<1>6. RowsHeld /\ failed'["update"] = failed["update"] => RowsHeld'
  BY <1>1, <1>2, <1>3 DEF RowsHeld
<1>7. QED  BY <1>4, <1>5, <1>6 DEF KeepsClean

LEMMA StraysClean ==
  ASSUME IInv, Kept, NEW r \in Requests, RemoveStrays(r)
  PROVE  KeepsClean
<1>1. /\ req[r].pc = "strays" /\ UNCHANGED <<uploads, submission>> /\ Answer(r)
      /\ objects' \in {objects, objects \ req[r].todo} /\ submission \notin req[r].todo
      /\ submission # None /\ objects \subseteq Archives
      /\ req \in [Requests -> RequestStates]
  BY DEF IInv, TypeOK, RemoveStrays, At, SlotFits, Completing
<1>2. \A q \in Requests \ {r} : req'[q] = req[q]
  BY <1>1 DEF Answer
<1>3. /\ \A q \in Requests, a \in Archives : Holds(q, a) => Holds(q, a)' /\ req'[q] = req[q]
      /\ \A q \in Requests : At(q, "accept") => At(q, "accept")'
  BY <1>1, <1>2 DEF Holds, Owns, At
<1>4. Kept'
  BY <1>1 DEF Kept
<1>5. ObjectsHeld => ObjectsHeld'
  BY <1>1, <1>3 DEF ObjectsHeld
<1>6. RowsHeld => RowsHeld'
  BY <1>1, <1>3 DEF RowsHeld
<1>7. QED  BY <1>4, <1>5, <1>6 DEF KeepsClean

(* Failures are only ever added. *)
LEMMA FailuresStay ==
  ASSUME IInv, [Next]_vars, NEW call \in Calls, failed'[call] = 0
  PROVE  failed[call] = 0 /\ failed'[call] = failed[call]
<1>1. failed \in [Calls -> 0..MaxFails]
  BY DEF IInv, TypeOK
<1>2. UNCHANGED failed \/ \E c \in Calls : Fails(c)
  <2>1. {"update", "remove", "list"} \subseteq Calls
    BY DEF Calls
  <2>2. QED
    BY <2>1, Zenon DEF Next, vars, counts, Withdraw, Submit, LoadPage, Dies, Step, StoreObject,
       InsertUpload, RecordSubmission, MarkFailed, RemoveObject, AcceptUpload, CloseAttempt,
       QueueRun, ListRows, NextOrphan, ListBucket, RemoveStrays, Found, Works
<1>3. CASE UNCHANGED failed
  BY <1>3
<1>4. ASSUME NEW c \in Calls, Fails(c) PROVE failed'[call] >= failed[call]
  BY <1>1, <1>4 DEF Fails
<1>5. QED  BY <1>1, <1>2, <1>3, <1>4

LEMMA NextClean ==
  ASSUME IInv, CleanInv, [Next]_vars
  PROVE  CleanInv'
<1> SUFFICES ASSUME deaths' = 0, lost' = 0
             PROVE  /\ Kept'
                    /\ failed'["remove"] = 0 => ObjectsHeld'
                    /\ failed'["update"] = 0 => RowsHeld'
  BY DEF CleanInv
<1>1. deaths \in Nat /\ lost \in Nat
  BY DEF IInv, TypeOK
<1>2. ASSUME NEW r \in Requests, Dies(r) PROVE FALSE
  BY <1>1, <1>2 DEF Dies
<1>3. CASE Withdraw \/ UNCHANGED vars
  <2>1. UNCHANGED <<objects, uploads, submission, req, deaths, lost, failed>>
    BY <1>3 DEF Withdraw, vars, counts
  <2>2. QED
    BY <2>1 DEF CleanInv, Kept, ObjectsHeld, RowsHeld, Holds, Owns, At
<1>4. ASSUME NEW r \in Requests, Submit(r) \/ LoadPage(r) \/ Step(r)
      PROVE  /\ Kept'
             /\ failed'["remove"] = 0 => ObjectsHeld'
             /\ failed'["update"] = 0 => RowsHeld'
  <2>1. UNCHANGED deaths /\ (UNCHANGED lost \/ lost' = lost + 1)
    BY <1>4, Zenon DEF Submit, LoadPage, Step, StoreObject, InsertUpload, RecordSubmission,
       MarkFailed, RemoveObject, AcceptUpload, CloseAttempt, QueueRun, ListRows, NextOrphan,
       ListBucket, RemoveStrays, counts, Seen, Missed
  <2>2. CleanInv /\ deaths = 0 /\ lost = 0
    BY <1>1, <2>1
  <2>3. /\ Kept
        /\ failed["remove"] = 0 => ObjectsHeld
        /\ failed["update"] = 0 => RowsHeld
    BY <2>2 DEF CleanInv
  <2>4. KeepsClean
    BY <1>4, <2>2, <2>3, StartingClean, StoreClean, InsertClean, RecordClean, DiscardClean,
       AcceptClean, FollowingClean, StraysClean DEF Step
  <2>5. "remove" \in Calls /\ "update" \in Calls
    BY DEF Calls
  <2>6. QED  BY <2>3, <2>4, <2>5, FailuresStay DEF KeepsClean
<1>5. QED  BY <1>2, <1>3, <1>4 DEF Next

(* Races, refusals and failed inserts leave no archive lying about: of     *)
(* what is left when no request died, missed an answer or is under way,    *)
(* an archive that is not the submission's is the work of a removal that   *)
(* failed, and an unsettled row that of an update that failed; lists that  *)
(* fail leave neither (submitAuthored, discardSealed, followThrough).      *)
THEOREM NothingIsLeft == Spec => []NothingIsLeftBehind
<1>1. Init => CleanInv
  BY InitClean
<1>2. IInv /\ CleanInv /\ [Next]_vars => CleanInv'
  BY NextClean
<1>3. IInv /\ CleanInv => NothingIsLeftBehind
  <2> SUFFICES ASSUME IInv, CleanInv, deaths = 0, lost = 0, \A r \in Requests : At(r, "idle")
               PROVE  /\ failed["remove"] = 0 => objects = {submission} \ {None}
                      /\ failed["update"] = 0 => \A a \in Archives : uploads[a] \in
                           IF a = submission THEN {"accepted"} ELSE {"none", "failed"}
    BY DEF NothingIsLeftBehind
  <2>1. \A q \in Requests, a \in Archives : ~Holds(q, a) /\ ~At(q, "accept")
    BY DEF At, Holds, Owns
  <2>2. /\ objects \subseteq Archives /\ submission \in Archives \cup {None} /\ Kept
        /\ uploads \in [Archives -> {"none", "initiated", "accepted", "failed"}]
    BY DEF IInv, TypeOK, CleanInv
  <2>3. ASSUME failed["remove"] = 0 PROVE objects = {submission} \ {None}
    <3>1. ObjectsHeld
      BY <2>3 DEF CleanInv
    <3>2. QED  BY <2>1, <2>2, <3>1, ArchivesAreNumbers DEF ObjectsHeld, Kept
  <2>4. ASSUME failed["update"] = 0, NEW a \in Archives
        PROVE  uploads[a] \in IF a = submission THEN {"accepted"} ELSE {"none", "failed"}
    <3>1. uploads[a] # "initiated"
      BY <2>1, <2>4 DEF CleanInv, RowsHeld
    <3>2. CASE a = submission
      BY <2>2, <3>1, <3>2, ArchivesAreNumbers DEF Kept
    <3>3. CASE a # submission
      BY <2>2, <3>1, <3>3 DEF IInv, OnlyTheSubmissionIsAccepted
    <3>4. QED  BY <3>2, <3>3
  <2>5. QED  BY <2>3, <2>4
<1>4. QED  BY <1>1, <1>2, <1>3, SealingInvariant, PTL DEF Spec

-----------------------------------------------------------------------------
(* What only a missed answer can take away *)

(* The archive a request is about to record is stored, as long as there is *)
(* nothing recorded yet and so no cleaning up.                             *)
Stored ==
  /\ SubmissionKeepsItsArchive
  /\ submission = None => \A q \in Requests :
       At(q, "insert") \/ At(q, "record") => req[q].on \in objects

StoredInv == lost = 0 => Stored

LEMMA InitStored == Init => StoredInv
  BY DEF Init, StoredInv, Stored, SubmissionKeepsItsArchive, At, Idle

(* A step that takes nothing from the bucket and leaves its request        *)
(* elsewhere than before an insert.                                        *)
LEMMA NothingTaken ==
  ASSUME IInv, Stored, NEW r \in Requests, objects \subseteq objects',
         UNCHANGED submission, \A q \in Requests \ {r} : req'[q] = req[q],
         req'[r].pc \notin {"insert", "record"}
  PROVE  Stored'
  BY DEF Stored, SubmissionKeepsItsArchive, At

LEMMA GotoMoves ==
  ASSUME IInv, NEW r \in Requests, NEW pc, Goto(r, pc)
  PROVE  /\ req'[r].pc = pc /\ req'[r].on = req[r].on
         /\ \A q \in Requests \ {r} : req'[q] = req[q]
<1>1. req \in [Requests -> RequestStates] /\ req[r] \in RequestStates
  BY DEF IInv, TypeOK
<1>2. req'[r] = [req[r] EXCEPT !.pc = pc] /\ \A q \in Requests \ {r} : req'[q] = req[q]
  BY <1>1 DEF Goto
<1>3. QED  BY <1>1, <1>2 DEF RequestStates

LEMMA TakingStored ==
  ASSUME IInv, Stored, NEW r \in Requests, RemoveObject(r) \/ RemoveStrays(r), lost = 0
  PROVE  Stored'
<1>1. /\ req \in [Requests -> RequestStates] /\ req[r] \in RequestStates /\ SlotFits(req[r])
      /\ UNCHANGED submission
  BY DEF IInv, TypeOK, RemoveObject, RemoveStrays
<1>2. \A q \in Requests \ {r} : req'[q] = req[q]
  BY <1>1 DEF RemoveObject, RemoveStrays, Answer
<1>3. req'[r].pc \notin {"insert", "record"}
  <2>1. CASE RemoveObject(r)
    <3>1. req'[r].pc = req[r].then /\ req[r].then \in {"idle", "accept", "next"}
      BY <1>1, <2>1 DEF RemoveObject, RequestStates, Idle
    <3>2. QED  BY <3>1
  <2>2. CASE RemoveStrays(r)
    BY <1>1, <2>2 DEF RemoveStrays, Answer, Idle
  <2>3. QED  BY <2>1, <2>2
<1>4. submission # None => submission \in objects'
  BY <1>1 DEF Stored, SubmissionKeepsItsArchive, SlotFits, RemoveObject, RemoveStrays, At
<1>5. ASSUME submission = None, NEW q \in Requests, At(q, "insert")' \/ At(q, "record")'
      PROVE  req'[q].on \in objects'
  <2>1. q # r /\ req'[q] = req[q] /\ (At(q, "insert") \/ At(q, "record"))
    BY <1>2, <1>3, <1>5 DEF At
  <2>2. RemoveObject(r) /\ Owns(req[r])
    <3>1. req[r].pc \notin Completing /\ req[r].then = "idle"
      BY <1>5, Unsubmitted
    <3>2. QED  BY <3>1 DEF RemoveObject, RemoveStrays, At, Completing, Owns
  <2>3. req[q].on # req[r].on
    BY <2>1, <2>2 DEF IInv, OwnersDiffer, Owns, At
  <2>4. QED  BY <1>5, <2>1, <2>2, <2>3 DEF Stored, RemoveObject
<1>6. QED  BY <1>1, <1>4, <1>5 DEF Stored, SubmissionKeepsItsArchive

LEMMA SealingStored ==
  ASSUME IInv, Stored, NEW r \in Requests,
         StoreObject(r) \/ InsertUpload(r) \/ RecordSubmission(r), lost' = 0
  PROVE  Stored'
<1>1. /\ req \in [Requests -> RequestStates] /\ req[r] \in RequestStates /\ SlotFits(req[r])
      /\ lost \in Nat
  BY DEF IInv, TypeOK
<1>2. \A q \in Requests \ {r} : req'[q] = req[q]
  BY <1>1 DEF StoreObject, InsertUpload, RecordSubmission, GiveBack, Discard, Goto, Answer
<1>3. CASE StoreObject(r)
  <2>1. CASE Goto(r, "insert")
    <3>1. objects' = objects \cup {req[r].on} \/ (objects' = objects /\ Answer(r))
      BY <1>3 DEF StoreObject
    <3>2. req'[r].pc = "insert" /\ req'[r].on = req[r].on
      BY <2>1, GotoMoves
    <3>3. objects' = objects \cup {req[r].on}
      BY <1>1, <3>1, <3>2 DEF Answer, Idle
    <3>4. QED
      BY <1>2, <1>3, <3>2, <3>3 DEF StoreObject, Stored, SubmissionKeepsItsArchive, At
  <2>2. CASE objects' = objects /\ Answer(r)
    BY <1>1, <1>2, <1>3, <2>2, NothingTaken DEF StoreObject, Answer, Idle
  <2>3. QED  BY <1>3, <2>1, <2>2 DEF StoreObject
<1>4. CASE InsertUpload(r)
  <2>1. /\ UNCHANGED <<objects, submission>> /\ At(r, "insert")
        /\ \/ Goto(r, "record")
           \/ req' = [req EXCEPT ![r].pc = "remove", ![r].then = "idle"]
    BY <1>4 DEF InsertUpload
  <2>2. CASE Goto(r, "record")
    <3>1. req'[r].on = req[r].on
      BY <2>2, GotoMoves
    <3>2. QED  BY <1>2, <2>1, <3>1 DEF Stored, SubmissionKeepsItsArchive, At
  <2>3. CASE req' = [req EXCEPT ![r].pc = "remove", ![r].then = "idle"]
    <3>1. req'[r].pc = "remove"
      BY <1>1, <2>3 DEF RequestStates
    <3>2. QED  BY <1>2, <2>1, <3>1, NothingTaken
  <2>4. QED  BY <2>1, <2>2, <2>3
<1>5. CASE RecordSubmission(r)
  <2>1. UNCHANGED objects /\ At(r, "record") /\ ~Missed
    BY <1>1, <1>5 DEF RecordSubmission, Missed
  <2>2. CASE submission = None /\ submission' = req[r].on
    <3>1. req[r].on \in objects /\ req[r].on \in Archives
      BY <1>1, <2>1, <2>2 DEF Stored, SlotFits, At
    <3>2. QED  BY <2>1, <2>2, <3>1, ArchivesAreNumbers DEF Stored, SubmissionKeepsItsArchive
  <2>3. CASE UNCHANGED submission /\ \E then \in {"idle", "accept"} : Discard(r, req[r].on, then)
    <3>1. req'[r].pc = "mark"
      BY <1>1, <2>3 DEF Discard, RequestStates
    <3>2. QED  BY <1>2, <2>1, <2>3, <3>1, NothingTaken
  <2>4. QED  BY <1>5, <2>1, <2>2, <2>3 DEF RecordSubmission, GiveBack
<1>6. QED  BY <1>3, <1>4, <1>5

LEMMA OthersStored ==
  ASSUME IInv, Stored, NEW r \in Requests,
         \/ Submit(r) \/ LoadPage(r) \/ Dies(r) \/ MarkFailed(r) \/ AcceptUpload(r)
         \/ CloseAttempt(r) \/ QueueRun(r) \/ ListRows(r) \/ NextOrphan(r) \/ ListBucket(r)
  PROVE  Stored'
<1>1. /\ req \in [Requests -> RequestStates] /\ req[r] \in RequestStates
      /\ UNCHANGED <<objects, submission>>
  BY DEF IInv, TypeOK, Submit, LoadPage, Dies, MarkFailed, AcceptUpload, CloseAttempt, QueueRun,
     ListRows, NextOrphan, ListBucket
<1>2. \A q \in Requests \ {r} : req'[q] = req[q]
  BY <1>1 DEF Submit, LoadPage, Dies, MarkFailed, AcceptUpload, CloseAttempt, QueueRun, ListRows,
     NextOrphan, ListBucket, Found, Goto, Answer
<1>3. req'[r].pc \notin {"insert", "record"}
  <2>1. CASE \E pc \in {"accept", "remove", "close", "queue", "rows", "bucket"} : Goto(r, pc)
    BY <2>1, GotoMoves
  <2>2. CASE Answer(r)
    BY <1>1, <2>2 DEF Answer, Idle
  <2>3. CASE Submit(r) /\ req' = [req EXCEPT ![r].pc = "store", ![r].on = seals + 1]
    BY <1>1, <2>3 DEF RequestStates
  <2>4. CASE ListRows(r)
    BY <1>1, <2>4 DEF ListRows, Found, RequestStates
  <2>5. CASE ListBucket(r)
    BY <1>1, <2>5 DEF ListBucket, Found, RequestStates
  <2>6. CASE NextOrphan(r) /\ req[r].todo # {}
    <3>1. PICK a \in req[r].todo :
            req' = [req EXCEPT ![r] = [pc |-> "mark", on |-> a, then |-> "next",
                                       todo |-> req[r].todo \ {a}]]
      BY <2>6 DEF NextOrphan
    <3>2. QED  BY <1>1, <3>1
  <2>7. QED
    BY <2>1, <2>2, <2>3, <2>4, <2>5, <2>6
       DEF Submit, LoadPage, Dies, MarkFailed, AcceptUpload, CloseAttempt, QueueRun, NextOrphan
<1>4. QED  BY <1>1, <1>2, <1>3, NothingTaken

LEMMA NextStored ==
  ASSUME IInv, StoredInv, [Next]_vars
  PROVE  StoredInv'
<1> SUFFICES ASSUME lost' = 0 PROVE Stored'
  BY DEF StoredInv
<1>1. lost = 0 /\ Stored
  <2>1. lost' = lost \/ lost' = lost + 1
    BY Zenon DEF Next, vars, counts, Withdraw, Submit, LoadPage, Dies, Step, StoreObject,
       InsertUpload, RecordSubmission, MarkFailed, RemoveObject, AcceptUpload, CloseAttempt,
       QueueRun, ListRows, NextOrphan, ListBucket, RemoveStrays, Seen, Missed
  <2>2. lost \in Nat
    BY DEF IInv, TypeOK
  <2>3. QED  BY <2>1, <2>2 DEF StoredInv
<1>2. CASE Withdraw \/ UNCHANGED vars
  BY <1>1, <1>2 DEF Withdraw, vars, Stored, SubmissionKeepsItsArchive, At
<1>3. QED
  BY <1>1, <1>2, TakingStored, SealingStored, OthersStored DEF Next, Step

(* The recorded submission keeps its stored archive, whatever requests die *)
(* and whatever calls fail, as long as every answer of the database        *)
(* arrives: the missed answer of RecordSubmission is the only way to lose  *)
(* it (submitAuthored, discardSealed).                                     *)
THEOREM ArchiveIsKeptUnlessMissed == Spec => [](lost = 0 => SubmissionKeepsItsArchive)
<1>1. Init => StoredInv
  BY InitStored
<1>2. IInv /\ StoredInv /\ [Next]_vars => StoredInv'
  BY NextStored
<1>3. StoredInv => (lost = 0 => SubmissionKeepsItsArchive)
  BY DEF StoredInv, Stored
<1>4. QED  BY <1>1, <1>2, <1>3, SealingInvariant, PTL DEF Spec

-----------------------------------------------------------------------------
(* The ledger *)

(* A request that is about to queue has seen the attempt over.             *)
OverBeforeQueue == \A r \in Requests : At(r, "queue") => attempt # "in_progress"

LEMMA AttemptStaysOver ==
  ASSUME [Next]_vars, attempt # "in_progress"
  PROVE  attempt' # "in_progress"
  BY DEF Next, vars, world, Withdraw, Submit, LoadPage, Dies, Step, StoreObject, InsertUpload,
     RecordSubmission, MarkFailed, RemoveObject, AcceptUpload, CloseAttempt, QueueRun, ListRows,
     NextOrphan, ListBucket, RemoveStrays

LEMMA NextOverBeforeQueue ==
  ASSUME IInv, OverBeforeQueue, [Next]_vars
  PROVE  OverBeforeQueue'
<1> SUFFICES ASSUME NEW q \in Requests, At(q, "queue")' PROVE attempt' # "in_progress"
  BY DEF OverBeforeQueue
<1>1. CASE At(q, "queue")
  BY <1>1, AttemptStaysOver DEF OverBeforeQueue
<1>2. CASE ~At(q, "queue")
  <2>1. req \in [Requests -> RequestStates]
    BY DEF IInv, TypeOK
  <2>2. CASE \E r \in Requests : CloseAttempt(r)
    BY <2>2 DEF CloseAttempt
  <2>3. CASE Withdraw \/ UNCHANGED vars
    BY <1>2, <2>3 DEF Withdraw, vars, At
  <2>4. ASSUME NEW r \in Requests,
               \/ Submit(r) \/ LoadPage(r) \/ Dies(r) \/ StoreObject(r) \/ InsertUpload(r)
               \/ RecordSubmission(r) \/ MarkFailed(r) \/ RemoveObject(r) \/ AcceptUpload(r)
               \/ QueueRun(r) \/ ListRows(r) \/ NextOrphan(r) \/ ListBucket(r) \/ RemoveStrays(r)
        PROVE  FALSE
    <3>1. \A p \in Requests \ {r} : req'[p] = req[p]
      BY <2>1, <2>4 DEF Submit, LoadPage, Dies, StoreObject, InsertUpload, RecordSubmission,
         MarkFailed, RemoveObject, AcceptUpload, QueueRun, ListRows, NextOrphan, ListBucket,
         RemoveStrays, GiveBack, Discard, Found, Goto, Answer
    <3>2. req'[r].pc # "queue"
      <4>1. req[r] \in RequestStates
        BY <2>1
      <4>2. CASE \E pc \in {"accept", "insert", "record", "remove", "close", "rows", "bucket"} :
                   Goto(r, pc)
        BY <4>2, GotoMoves
      <4>3. CASE Answer(r)
        BY <2>1, <4>3 DEF Answer, Idle
      <4>4. CASE \/ Submit(r) /\ req' = [req EXCEPT ![r].pc = "store", ![r].on = seals + 1]
                 \/ ListRows(r) \/ ListBucket(r)
        <5>1. \/ req' = [req EXCEPT ![r].pc = "store", ![r].on = seals + 1]
              \/ \E pc \in {"next", "strays"}, todo \in SUBSET Archives :
                   req' = [req EXCEPT ![r].pc = pc, ![r].todo = todo]
          <6>1. {OrphanedRows, Strays, {}} \subseteq SUBSET Archives
            BY DEF OrphanedRows, Initiated, Strays, IInv, TypeOK
          <6>2. QED  BY <4>4, <6>1 DEF ListRows, ListBucket, Found
        <5>2. QED  BY <2>1, <4>1, <5>1 DEF RequestStates
      <4>5. CASE RemoveObject(r)
        <5>1. req'[r].pc = req[r].then /\ req[r].then \in {"idle", "accept", "next"}
          BY <2>1, <4>1, <4>5 DEF RemoveObject, RequestStates, Idle
        <5>2. QED  BY <5>1
      <4>6. CASE NextOrphan(r) /\ req[r].todo # {}
        <5>1. PICK a \in req[r].todo :
                req' = [req EXCEPT ![r] = [pc |-> "mark", on |-> a, then |-> "next",
                                           todo |-> req[r].todo \ {a}]]
          BY <4>6 DEF NextOrphan
        <5>2. QED  BY <2>1, <5>1
      <4>7. CASE \/ InsertUpload(r) /\ req' = [req EXCEPT ![r].pc = "remove", ![r].then = "idle"]
                 \/ \E then \in {"idle", "accept"} : Discard(r, req[r].on, then)
        BY <2>1, <4>1, <4>7 DEF Discard, RequestStates
      <4>8. QED
        BY <2>4, <4>2, <4>3, <4>4, <4>5, <4>6, <4>7
           DEF Submit, LoadPage, Dies, StoreObject, InsertUpload, RecordSubmission, MarkFailed,
               AcceptUpload, QueueRun, NextOrphan, RemoveStrays, GiveBack
    <3>3. QED  BY <1>2, <3>1, <3>2 DEF At
  <2>5. QED  BY <2>2, <2>3, <2>4 DEF Next, Step
<1>3. QED  BY <1>1, <1>2

LEMMA LedgerSteps ==
  ASSUME IInv, OverBeforeQueue, [Next]_vars
  PROVE  [Ledger!Next]_(Ledger!vars)
<1>1. attempt \in {"in_progress", "submitted", "withdrawn"}
  BY DEF IInv, TypeOK
<1>2. ASSUME UNCHANGED <<attempt, submission, queued>> PROVE UNCHANGED Ledger!vars
  BY <1>2 DEF Ledger!vars
<1>3. ASSUME NEW r \in Requests, RecordSubmission(r), submission' # submission
      PROVE  Ledger!Next
  <2>1. /\ submission = None /\ submission' = req[r].on /\ UNCHANGED <<attempt, queued>>
        /\ req[r].on \in Archives
    BY <1>3 DEF RecordSubmission, world, IInv, SlotFits, At
  <2>2. Ledger!Record(req[r].on)
    BY <1>1, <2>1 DEF Ledger!Record
  <2>3. QED  BY <2>1, <2>2 DEF Ledger!Next
<1>4. ASSUME NEW r \in Requests, CloseAttempt(r) PROVE [Ledger!Next]_(Ledger!vars)
  <2>1. submission # None /\ UNCHANGED <<submission, queued>>
    BY <1>4 DEF CloseAttempt, IInv, SlotFits, At, Completing
  <2>2. CASE attempt = "in_progress"
    <3>1. Ledger!Close
      BY <1>4, <2>1, <2>2 DEF CloseAttempt, Ledger!Close
    <3>2. QED  BY <3>1 DEF Ledger!Next
  <2>3. CASE attempt # "in_progress"
    BY <1>2, <1>4, <2>1, <2>3 DEF CloseAttempt
  <2>4. QED  BY <2>2, <2>3
<1>5. ASSUME NEW r \in Requests, QueueRun(r) PROVE Ledger!Next
  <2>1. submission # None /\ attempt # "in_progress" /\ queued' = TRUE
        /\ UNCHANGED <<submission, attempt>>
    BY <1>5 DEF QueueRun, IInv, SlotFits, At, Completing, OverBeforeQueue
  <2>2. Ledger!Evaluate
    BY <1>1, <2>1 DEF Ledger!Evaluate
  <2>3. QED  BY <2>2 DEF Ledger!Next
<1>6. CASE Withdraw
  <2>1. Ledger!Withdraw
    BY <1>6 DEF Withdraw, Ledger!Withdraw
  <2>2. QED  BY <2>1 DEF Ledger!Next
<1>7. ASSUME NEW r \in Requests,
             \/ Submit(r) \/ LoadPage(r) \/ Dies(r) \/ StoreObject(r) \/ InsertUpload(r)
             \/ MarkFailed(r) \/ RemoveObject(r) \/ AcceptUpload(r) \/ ListRows(r)
             \/ NextOrphan(r) \/ ListBucket(r) \/ RemoveStrays(r)
             \/ RecordSubmission(r) /\ submission' = submission
      PROVE  UNCHANGED <<attempt, submission, queued>>
  BY <1>7 DEF Submit, LoadPage, Dies, StoreObject, InsertUpload, MarkFailed, RemoveObject,
     AcceptUpload, ListRows, NextOrphan, ListBucket, RemoveStrays, RecordSubmission, world
<1>8. CASE UNCHANGED vars
  BY <1>2, <1>8 DEF vars, world
<1>9. QED
  BY <1>2, <1>3, <1>4, <1>5, <1>6, <1>7, <1>8 DEF Next, Step

(* The requests of an authored attempt, with their sealing, recording and  *)
(* cleaning up, keep the same ledger as those of AttemptLifecycle          *)
(* (submitAuthored, followThrough).                                        *)
THEOREM SealingImplementsLedger == Spec => ImplementsLedger
<1>1. Init => Ledger!Init /\ OverBeforeQueue
  BY DEF Init, Ledger!Init, OverBeforeQueue, At, Idle
<1>2. IInv /\ OverBeforeQueue /\ [Next]_vars => OverBeforeQueue'
  BY NextOverBeforeQueue
<1>3. IInv /\ OverBeforeQueue /\ [Next]_vars => [Ledger!Next]_(Ledger!vars)
  BY LedgerSteps
<1>4. QED
  BY <1>1, <1>2, <1>3, SealingInvariant, PTL DEF Spec, ImplementsLedger, Ledger!Spec
=============================================================================
