------------------------------ MODULE Sealing ------------------------------
(***************************************************************************)
(* How the files of an authored attempt become its submission: sealed in   *)
(* storage, recorded, accepted, and everything else cleared away           *)
(* (submitAuthored, followThrough, discardOrphanedUploads and              *)
(* settleRecordedSubmission in src/lib/eng/authored/runtime.ts).           *)
(*                                                                         *)
(* An archive is a row of eng_uploads and an object of the bucket, named   *)
(* by the same id, each written by a call of its own.  What a submission   *)
(* does to the attempt is in AttemptLifecycle; here its two steps are kept *)
(* because a page load looks at them.                                      *)
(*                                                                         *)
(* The updates, removals and lists of accepting and cleaning up look at no *)
(* error: one that fails changes nothing, or finds nothing, and the        *)
(* request goes on (Fails).                                                *)
(***************************************************************************)
EXTENDS Naturals

CONSTANTS
  Requests,   \* slots for the candidate's requests
  None,       \* no archive
  MaxSeals,   \* bound: archives sealed
  MaxDeaths,  \* bound: requests that die or throw part way
  MaxLost,    \* bound: answers of the database that do not arrive
  MaxFails    \* bound: calls that fail unnoticed

ASSUME NoneAssumption == None \notin Nat
ASSUME BoundsAssumption ==
  {MaxSeals, MaxDeaths, MaxLost, MaxFails} \subseteq Nat

VARIABLES
  attempt,     \* eng_attempts.status
  objects,     \* archives in the bucket
  uploads,     \* eng_uploads.status of each archive
  submission,  \* the archive of the row of eng_submissions
  queued,      \* the evaluation run exists
  req,         \* what each request is doing
  seals, deaths, lost, failed  \* how often each bounded thing has happened

world == <<attempt, queued>>
counts == <<seals, deaths, lost, failed>>
vars == <<attempt, objects, uploads, submission, queued, req, counts>>

Archives == 1..MaxSeals

(* The calls whose error nothing looks at. *)
Calls == {"update", "remove", "list"}

(* on: the archive being sealed or discarded.  then: where a discard       *)
(* returns to.  todo: archives found by a list.                            *)
RequestStates ==
  [pc : {"idle", "store", "insert", "record", "mark", "remove", "accept",
         "close", "queue", "rows", "next", "bucket", "strays"},
   on : Archives \cup {None}, then : {"idle", "accept", "next"},
   todo : SUBSET Archives]

Idle == [pc |-> "idle", on |-> None, then |-> "idle", todo |-> {}]

TypeOK ==
  /\ attempt \in {"in_progress", "submitted", "withdrawn"}
  /\ objects \subseteq Archives
  /\ uploads \in [Archives -> {"none", "initiated", "accepted", "failed"}]
  /\ submission \in Archives \cup {None}
  /\ queued \in BOOLEAN
  /\ req \in [Requests -> RequestStates]
  /\ seals \in 0..MaxSeals /\ deaths \in 0..MaxDeaths /\ lost \in 0..MaxLost
  /\ failed \in [Calls -> 0..MaxFails]

Init ==
  /\ attempt = "in_progress" /\ objects = {} /\ submission = None /\ queued = FALSE
  /\ uploads = [a \in Archives |-> "none"]
  /\ req = [r \in Requests |-> Idle]
  /\ seals = 0 /\ deaths = 0 /\ lost = 0 /\ failed = [c \in Calls |-> 0]

At(r, pc) == req[r].pc = pc
Goto(r, pc) == req' = [req EXCEPT ![r].pc = pc]
Answer(r) == req' = [req EXCEPT ![r] = Idle]
Discard(r, a, then) ==
  req' = [req EXCEPT ![r].pc = "mark", ![r].on = a, ![r].then = then]

Works == UNCHANGED failed
Fails(call) ==
  /\ failed["update"] + failed["remove"] + failed["list"] < MaxFails
  /\ failed' = [failed EXCEPT ![call] = @ + 1]

-----------------------------------------------------------------------------
(* Submitting *)

(* existingAuthoredReceipt and the same read in submitAuthored.            *)
Submit(r) ==
  /\ At(r, "idle")
  /\ IF submission # None THEN Goto(r, "accept") /\ UNCHANGED seals
     ELSE /\ attempt = "in_progress"
          /\ seals < MaxSeals /\ seals' = seals + 1
          /\ req' = [req EXCEPT ![r].pc = "store", ![r].on = seals + 1]
  /\ UNCHANGED <<world, objects, uploads, submission, deaths, lost, failed>>

(* The workspace is written, and its archive stored; or storage fails.     *)
StoreObject(r) ==
  /\ At(r, "store")
  /\ \/ objects' = objects \cup {req[r].on} /\ Goto(r, "insert")
     \/ objects' = objects /\ Answer(r)
  /\ UNCHANGED <<world, uploads, submission, counts>>

Seen == UNCHANGED lost
Missed == lost < MaxLost /\ lost' = lost + 1

Inserted(r) == [uploads EXCEPT ![req[r].on] = "initiated"]

(* When the insert fails, or seems to, the object is removed.              *)
InsertUpload(r) ==
  /\ At(r, "insert")
  /\ \/ uploads' = Inserted(r) /\ Seen /\ Goto(r, "record")
     \/ /\ (uploads' = uploads /\ Seen) \/ (uploads' = Inserted(r) /\ Missed)
        /\ req' = [req EXCEPT ![r].pc = "remove", ![r].then = "idle"]
  /\ UNCHANGED <<world, objects, submission, seals, deaths, failed>>

(* Slip: the answer is an error, and the archive stays.                    *)
AnswerOnly(r) == Answer(r)

GiveBack(r) == Discard(r, req[r].on, "idle")

(* One submission for an attempt: a later insert is a 23505.  An insert    *)
(* that fails, or seems to, makes the request discard its archive.         *)
RecordSubmission(r) ==
  /\ At(r, "record")
  /\ \/ /\ submission = None /\ submission' = req[r].on
        /\ (Goto(r, "accept") /\ Seen) \/ (GiveBack(r) /\ Missed)
     \/ /\ submission # None /\ UNCHANGED submission
        /\ Discard(r, req[r].on, "accept") /\ Seen
     \/ UNCHANGED submission /\ GiveBack(r) /\ Seen
  /\ UNCHANGED <<world, objects, uploads, seals, deaths, failed>>

-----------------------------------------------------------------------------
(* discardSealed: two calls *)

MarkedFailed(r) ==
  IF uploads[req[r].on] = "initiated"
  THEN [uploads EXCEPT ![req[r].on] = "failed"] ELSE uploads

MarkFailed(r) ==
  /\ At(r, "mark")
  /\ \/ uploads' = MarkedFailed(r) /\ Works
     \/ uploads' = uploads /\ Fails("update")
  /\ Goto(r, "remove")
  /\ UNCHANGED <<world, objects, submission, seals, deaths, lost>>

RemoveObject(r) ==
  /\ At(r, "remove")
  /\ \/ objects' = objects \ {req[r].on} /\ Works
     \/ objects' = objects /\ Fails("remove")
  /\ req' = [req EXCEPT ![r] =
       [Idle EXCEPT !.pc = req[r].then, !.todo = req[r].todo]]
  /\ UNCHANGED <<world, uploads, submission, seals, deaths, lost>>

-----------------------------------------------------------------------------
(* followThrough *)

(* Slip: the upload gets the status of the attempt.                        *)
AcceptedAsSubmitted == [uploads EXCEPT ![submission] = "submitted"]

Accepted == IF uploads[submission] = "initiated"
            THEN [uploads EXCEPT ![submission] = "accepted"] ELSE uploads

AcceptUpload(r) ==
  /\ At(r, "accept")
  /\ \/ uploads' = Accepted /\ Works
     \/ uploads' = uploads /\ Fails("update")
  /\ Goto(r, "close")
  /\ UNCHANGED <<world, objects, submission, seals, deaths, lost>>

(* completeSubmission: the attempt, then the run.                          *)
CloseAttempt(r) ==
  /\ At(r, "close")
  /\ attempt' = IF attempt = "in_progress" THEN "submitted" ELSE attempt
  /\ Goto(r, "queue")
  /\ UNCHANGED <<objects, uploads, submission, queued, counts>>

QueueRun(r) ==
  /\ At(r, "queue")
  /\ queued' = TRUE
  /\ Goto(r, "rows")
  /\ UNCHANGED <<attempt, objects, uploads, submission, counts>>

Initiated == {a \in Archives : uploads[a] = "initiated"}

(* What a list finds; one that fails finds nothing.                        *)
Found(r, pc, list) ==
  \/ req' = [req EXCEPT ![r].pc = pc, ![r].todo = list] /\ Works
  \/ req' = [req EXCEPT ![r].pc = pc, ![r].todo = {}] /\ Fails("list")

(* discardOrphanedUploads: rows first, then what else is in the bucket.    *)
OrphanedRows == Initiated \ {submission}

ListRows(r) ==
  /\ At(r, "rows")
  /\ Found(r, "next", OrphanedRows)
  /\ UNCHANGED <<world, objects, uploads, submission, seals, deaths, lost>>

NextOrphan(r) ==
  /\ At(r, "next")
  /\ IF req[r].todo = {} THEN Goto(r, "bucket")
     ELSE \E a \in req[r].todo :
            req' = [req EXCEPT ![r] = [pc |-> "mark", on |-> a, then |-> "next",
                                       todo |-> req[r].todo \ {a}]]
  /\ UNCHANGED <<world, objects, uploads, submission, counts>>

(* Slip: the newest archive is kept, not the one of the submission.        *)
AllButTheNewest == {a \in objects : \E b \in objects : a < b}

(* Slip: only what a row says was discarded is looked for in the bucket.   *)
DiscardedOnly == {a \in objects : uploads[a] = "failed"} \ {submission}

Strays == objects \ {submission}

ListBucket(r) ==
  /\ At(r, "bucket")
  /\ Found(r, "strays", Strays)
  /\ UNCHANGED <<world, objects, uploads, submission, seals, deaths, lost>>

RemoveStrays(r) ==
  /\ At(r, "strays")
  /\ \/ objects' = objects \ req[r].todo /\ Works
     \/ objects' = objects /\ Fails("remove")
  /\ Answer(r)
  /\ UNCHANGED <<world, uploads, submission, seals, deaths, lost>>

-----------------------------------------------------------------------------
(* Slip: a submitted attempt is settled, whether or not its run exists.    *)
SettledWhenClosed == attempt # "in_progress"

Settled == attempt = "withdrawn" \/ (attempt = "submitted" /\ queued)

(* A page load: settleRecordedSubmission.                                  *)
LoadPage(r) ==
  /\ At(r, "idle") /\ submission # None /\ ~Settled
  /\ Goto(r, "accept")
  /\ UNCHANGED <<world, objects, uploads, submission, counts>>

(* A request dies, or throws on a call that failed.                        *)
Dies(r) ==
  /\ ~At(r, "idle") /\ deaths < MaxDeaths /\ deaths' = deaths + 1
  /\ Answer(r)
  /\ UNCHANGED <<world, objects, uploads, submission, seals, lost, failed>>

(* The employer withdraws the invitation (Invitations, AttemptLifecycle).  *)
Withdraw ==
  /\ attempt = "in_progress" /\ attempt' = "withdrawn"
  /\ UNCHANGED <<objects, uploads, submission, queued, req, counts>>

Step(r) ==
  \/ StoreObject(r) \/ InsertUpload(r) \/ RecordSubmission(r)
  \/ MarkFailed(r) \/ RemoveObject(r)
  \/ AcceptUpload(r) \/ CloseAttempt(r) \/ QueueRun(r)
  \/ ListRows(r) \/ NextOrphan(r) \/ ListBucket(r) \/ RemoveStrays(r)

Next ==
  \/ \E r \in Requests : Submit(r) \/ LoadPage(r) \/ Step(r) \/ Dies(r)
  \/ Withdraw

(* Requests go on, and the candidate opens the page again.                 *)
Fairness == \A r \in Requests : WF_vars(Step(r)) /\ WF_vars(LoadPage(r))

Spec == Init /\ [][Next]_vars /\ Fairness

-----------------------------------------------------------------------------
(* "The upload is accepted only once the submission exists, so a failed or *)
(* lost race leaves no accepted archive behind" (submitAuthored).          *)
OnlyTheSubmissionIsAccepted ==
  \A a \in Archives : uploads[a] = "accepted" => submission = a

(* What races, refusals and failed inserts leave when no request is under  *)
(* way, as long as none died or missed an answer: an archive besides the   *)
(* submission's only if a removal failed, a row that was not settled only  *)
(* if an update did; a list that fails leaves neither (submitAuthored,     *)
(* discardSealed, followThrough).                                          *)
NothingIsLeftBehind ==
  (deaths = 0 /\ lost = 0 /\ \A r \in Requests : At(r, "idle")) =>
    /\ failed["remove"] = 0 => objects = {submission} \ {None}
    /\ failed["update"] = 0 => \A a \in Archives :
         uploads[a] \in IF a = submission THEN {"accepted"} ELSE {"none", "failed"}

(* "Finishes the work of a request that died part way" (followThrough):    *)
(* whatever died, failed or was missed, a submit that is repeated clears   *)
(* away every archive that is not the submission's, and settles every row. *)
RepeatedSubmitsClear ==
  []<><<\E r \in Requests : Submit(r)>>_vars =>
    <>[](submission # None =>
           /\ objects \subseteq {submission}
           /\ \A a \in Archives : uploads[a] # "initiated")

(* No cleaning up removes the archive of a submission, whenever its lists  *)
(* were made; only the request that recorded it can (RecordSubmission).    *)
OthersLeaveTheSubmission ==
  [][\A a \in objects \ objects' : submission = a =>
       \E r \in Requests : At(r, "remove") /\ req[r].on = a /\ lost > 0]_vars

(* Recorded work is evaluated, or the attempt was withdrawn: a request     *)
(* that dies part way is completed by a page load.                         *)
RecordedIsQueued == submission # None ~> queued \/ attempt = "withdrawn"

(* Seen from outside, the work on an authored attempt is an entry of the   *)
(* same SubmissionLedger as in AttemptLifecycle: one archive is recorded,  *)
(* no later seal replaces it, and only it is queued, once the attempt is   *)
(* over (submitAuthored, followThrough, settleRecordedSubmission).         *)
Ledger == INSTANCE SubmissionLedger
  WITH Submissions <- Archives, recorded <- submission,
       phase <- IF attempt = "in_progress" THEN "open" ELSE attempt

ImplementsLedger == Ledger!Spec

(* "A sealed archive that never became the submission is marked failed and *)
(* its stored copy removed" (discardSealed): the submission's is not.      *)
SubmissionKeepsItsArchive == submission # None => submission \in objects
=============================================================================
