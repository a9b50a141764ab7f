----------------------------- MODULE ImportJobs -----------------------------
(***************************************************************************)
(* The import of a repository into a work record: its job, the workers     *)
(* that race for it, the owner and the operators who cancel and repeat it, *)
(* and the snapshot it saves (src/lib/passport/import-store.ts,            *)
(* saveProjectVersion in store.ts, claim_durable_job in migration 047, the *)
(* import actions and the ledger of src/lib/ops/ops-actions.ts).           *)
(*                                                                         *)
(* One job, so one repository, commit and owner.  An analysis is complete  *)
(* and has findings: a partial one, which a complete one may replace, is   *)
(* left out.  A worker is one execution of runImportJob, its name unique;  *)
(* a slot is used again once it is over.                                   *)
(***************************************************************************)
EXTENDS Naturals

CONSTANTS
  Workers,      \* slots for runImportJob
  People,       \* slots for requests of the owner and of operators
  Cron,         \* the scheduled reconciliation
  Keys,         \* idempotency keys of the operators' requests
  Nobody,       \* no owner of a lease
  MaxAttempts,  \* IMPORT_MAX_ATTEMPTS
  MaxRequests   \* bound: requests of the owner and the operators

ASSUME CallersAssumption ==
  Nobody \notin Workers /\ Cron \notin People
ASSUME CountsAssumption == MaxAttempts \in Nat \ {0} /\ MaxRequests \in Nat

VARIABLES
  job,       \* the row of durable_jobs
  snapshot,  \* the row of passport_projects, and the evidence stored for it
  worker,    \* what each worker does
  request,   \* what each caller has read and does
  ledger,    \* ops_actions by idempotency key
  asked,     \* requests made
  requeued,  \* how often the job was put back in the queue
  acted      \* how often the action of each key was carried out

people == <<request, ledger, asked, requeued, acted>>
vars == <<job, snapshot, worker, people>>

Callers == People \cup {Cron}

(* code: why it ended.  beat: of a running job, whether heartbeat_at is    *)
(* within the lease.  That a retry falls due after some time is not kept:  *)
(* any claim may come late.                                                *)
Jobs ==
  [state : {"queued", "running", "failed", "succeeded", "dead_letter"},
   code : {"none", "cancelled", "attempts_exhausted", "final"},
   owner : Workers \cup {Nobody}, attempts : Nat, max : Nat,
   cancel : BOOLEAN, beat : {"fresh", "stale"}]

Saving == {"lookup", "upsert", "clear", "insert", "report"}
WorkerStates == {"idle", "extract"} \cup Saving

(* late: the heartbeat was renewed since this caller listed the job.       *)
RequestStates ==
  [pc : {"idle", "key", "read", "flag", "close", "requeue", "list", "reap",
         "settle"},
   act : {"none", "cancel", "retry", "again", "resume"},
   key : Keys \cup {Nobody}, attempts : Nat, late : BOOLEAN]

NoRequest == [pc |-> "idle", act |-> "none", key |-> Nobody, attempts |-> 0,
              late |-> FALSE]

TypeOK ==
  /\ job \in Jobs
  /\ snapshot \in [row : BOOLEAN, evidence : BOOLEAN]
  /\ worker \in [Workers -> WorkerStates]
  /\ request \in [Callers -> RequestStates]
  /\ ledger \in [Keys -> {"none", "pending", "settled"}]
  /\ asked \in 0..MaxRequests /\ requeued \in Nat
  /\ acted \in [Keys -> Nat]

(* enqueueImport has inserted the job.                                     *)
Init ==
  /\ job = [state |-> "queued", code |-> "none", owner |-> Nobody,
            attempts |-> 0, max |-> MaxAttempts, cancel |-> FALSE,
            beat |-> "stale"]
  /\ snapshot = [row |-> FALSE, evidence |-> FALSE]
  /\ worker = [w \in Workers |-> "idle"]
  /\ request = [c \in Callers |-> NoRequest]
  /\ ledger = [k \in Keys |-> "none"] /\ acted = [k \in Keys |-> 0]
  /\ asked = 0 /\ requeued = 0

Ended == job.state \in {"succeeded", "dead_letter"}
Waiting == job.state \in {"queued", "failed"}

At(w, pc) == worker[w] = pc
Goto(w, pc) == worker' = [worker EXCEPT ![w] = pc]
Rest(w) == Goto(w, "idle")

(* A heartbeat makes every list of stale jobs made before it out of date.  *)
Beats == request' = [c \in Callers |->
                       [request[c] EXCEPT !.late = @ \/ request[c].pc = "reap"]]

-----------------------------------------------------------------------------
(* runImportJob *)

(* Slip: the budget of tries is not looked at.                             *)
ClaimableSpent ==
  /\ ~job.cancel
  /\ \/ Waiting
     \/ job.state = "running" /\ job.beat = "stale"

Claimable ==
  /\ ~job.cancel /\ job.attempts < job.max
  /\ \/ Waiting
     \/ job.state = "running" /\ job.beat = "stale"

Claim(w) ==
  /\ At(w, "idle") /\ Claimable
  /\ job' = [job EXCEPT !.state = "running", !.owner = w, !.beat = "fresh",
                        !.attempts = @ + 1]
  /\ Goto(w, "extract")
  /\ Beats
  /\ UNCHANGED <<snapshot, ledger, asked, requeued, acted>>

(* Slip: a worker writes whether or not it still has the job.              *)
UnfencedUpdate(w, row) == row

(* update: fenced by the owner and the state.                              *)
Update(w, row) == IF job.owner = w /\ job.state = "running" THEN row ELSE job

(* The heartbeat is renewed with every stage, and while files are fetched. *)
Renew(w) ==
  /\ job' = Update(w, [job EXCEPT !.beat = "fresh"])
  /\ IF job.owner = w THEN Beats ELSE UNCHANGED request
  /\ UNCHANGED <<snapshot, ledger, asked, requeued, acted>>

Heartbeat(w) == At(w, "extract") /\ Renew(w) /\ UNCHANGED worker

Released(row, state) ==
  [row EXCEPT !.state = state, !.owner = Nobody, !.beat = "stale"]

(* Slip: the visible state is stored.                                      *)
DeadLetterByCode(row, code) ==
  [Released(row, code) EXCEPT !.code = code]

DeadLetter(row, code) ==
  [Released(row, "dead_letter") EXCEPT !.code = code]

(* scheduleOrFail decides by the tries and the budget the claim returned:  *)
(* they are still the row's as long as this worker's updates match it.     *)
ScheduleOrFail(w, retryable) ==
  /\ job' = Update(w,
       IF ~retryable THEN DeadLetter(job, "final")
       ELSE IF job.attempts >= job.max
            THEN DeadLetter(job, "attempts_exhausted")
            ELSE Released(job, "failed"))
  /\ Rest(w)

ExtractFails(w) ==
  /\ At(w, "extract")
  /\ \E retryable \in BOOLEAN : ScheduleOrFail(w, retryable)
  /\ UNCHANGED <<snapshot, people>>

(* cancelRequested, once everything is extracted.  The read and the write  *)
(* that follows it are one step: what comes between them could as well     *)
(* have come after, as the write only counts while the job is still held.  *)
CheckCancel(w) ==
  /\ At(w, "extract")
  /\ IF job.cancel
     THEN /\ job' = Update(w, DeadLetter(job, "cancelled")) /\ Rest(w)
          /\ UNCHANGED <<snapshot, people>>
     ELSE Goto(w, "lookup") /\ Renew(w)

(* saveProjectVersion keeps a complete snapshot that exists.               *)
LookUp(w) ==
  /\ At(w, "lookup")
  /\ Goto(w, IF snapshot.row THEN "report" ELSE "upsert")
  /\ UNCHANGED <<job, snapshot, people>>

(* Slip: the saved project is not waited for.                              *)
SaveProjectLater(w) ==
  /\ At(w, "upsert")
  /\ Goto(w, "report")
  /\ UNCHANGED <<job, snapshot, people>>

SaveProject(w) ==
  /\ At(w, "upsert")
  /\ snapshot' = [snapshot EXCEPT !.row = TRUE]
  /\ Goto(w, "clear")
  /\ UNCHANGED <<job, people>>

ClearEvidence(w) ==
  /\ At(w, "clear")
  /\ snapshot' = [snapshot EXCEPT !.evidence = FALSE]
  /\ Goto(w, "insert")
  /\ UNCHANGED <<job, people>>

(* The ids of findings are their own: the insert fails if they are there.  *)
InsertEvidence(w) ==
  /\ At(w, "insert") /\ ~snapshot.evidence
  /\ snapshot' = [snapshot EXCEPT !.evidence = TRUE]
  /\ Goto(w, "report")
  /\ UNCHANGED <<job, people>>

(* Any statement of the saving fails, or the receipt or the report does.   *)
SaveFails(w) ==
  /\ worker[w] \in Saving
  /\ ScheduleOrFail(w, TRUE)
  /\ UNCHANGED <<snapshot, people>>

Succeed(w) ==
  /\ At(w, "report")
  /\ job' = Update(w, Released(job, "succeeded"))
  /\ Rest(w)
  /\ UNCHANGED <<snapshot, people>>

WorkerDies(w) ==
  /\ ~At(w, "idle") /\ Rest(w)
  /\ UNCHANGED <<job, snapshot, people>>

HeartbeatAges ==
  /\ job.state = "running" /\ job.beat = "fresh"
  /\ job' = [job EXCEPT !.beat = "stale"]
  /\ UNCHANGED <<snapshot, worker, people>>

-----------------------------------------------------------------------------
(* Requests *)

Ask(c) == /\ request[c].pc = "idle"
          /\ asked < MaxRequests /\ asked' = asked + 1
Does(c, pc) == request[c].pc = pc
GoOn(c, pc) == request' = [request EXCEPT ![c].pc = pc]

(* Where a request ends: one with a key, an operator's, has its outcome    *)
(* recorded.                                                               *)
Over(c) == request' = [request EXCEPT ![c] =
             IF request[c].key # Nobody
               THEN [NoRequest EXCEPT !.pc = "settle", !.key = request[c].key]
               ELSE NoRequest]

(* cancelImport, retryImport, enqueueImport on a job that exists, and      *)
(* resumeImport, of the owner.                                             *)
OwnerAsks(c) ==
  /\ c \in People /\ Ask(c)
  /\ \E act \in {"cancel", "retry", "again", "resume"} :
       request' = [request EXCEPT ![c] = [NoRequest EXCEPT !.pc = "read", !.act = act]]
  /\ UNCHANGED <<job, snapshot, worker, ledger, requeued, acted>>

Retryable == job.state = "dead_letter" /\ job.code = "attempts_exhausted"

NeedsWorker == Waiting \/ (job.state = "running" /\ job.beat = "stale")

(* What a request does to the job as it reads it.                          *)
Then(act) ==
  CASE act = "cancel" /\ ~Ended -> "flag"
    [] act = "retry" /\ Retryable -> "requeue"
    [] act = "again" /\ job.state = "dead_letter" -> "requeue"
    [] act = "resume" /\ NeedsWorker -> "list"
    [] OTHER -> "over"

Read(c) ==
  /\ Does(c, "read")
  /\ IF Then(request[c].act) = "over" THEN Over(c)
     ELSE request' = [request EXCEPT ![c] = [@ EXCEPT !.act = "none",
            !.pc = Then(request[c].act),
            !.attempts = IF Then(request[c].act) = "requeue" THEN job.attempts ELSE 0]]
  /\ UNCHANGED <<job, snapshot, worker, ledger, asked, requeued, acted>>

(* By the id alone, whatever the state has become.                         *)
FlagCancel(c) ==
  /\ Does(c, "flag")
  /\ job' = [job EXCEPT !.cancel = TRUE]
  /\ GoOn(c, "close")
  /\ UNCHANGED <<snapshot, worker, ledger, asked, requeued, acted>>

(* An operator's cancellation goes on to reconcileImports.                 *)
CloseCancelled(c) ==
  /\ Does(c, "close")
  /\ job' = IF Waiting THEN DeadLetter(job, "cancelled") ELSE job
  /\ IF request[c].key # Nobody THEN GoOn(c, "list") ELSE Over(c)
  /\ UNCHANGED <<snapshot, worker, ledger, asked, requeued, acted>>

(* The budget is counted from the tries that were read.                    *)
Requeue(c) ==
  /\ Does(c, "requeue")
  /\ IF job.state = "dead_letter"
     THEN /\ job' = [job EXCEPT !.state = "queued", !.code = "none",
                       !.cancel = FALSE,
                       !.max = request[c].attempts + MaxAttempts]
          /\ requeued' = requeued + 1
     ELSE UNCHANGED <<job, requeued>>
  /\ Over(c)
  /\ UNCHANGED <<snapshot, worker, ledger, asked, acted>>

(* reconcileImports: a list, then a conditional update.                    *)
List(c) ==
  /\ Does(c, "list") \/ (c = Cron /\ Does(c, "idle"))
  /\ IF /\ job.state = "running" /\ job.beat = "stale"
        /\ job.cancel \/ job.attempts >= job.max
     THEN request' = [request EXCEPT ![c].pc = "reap", ![c].late = FALSE,
            ![c].act = IF job.cancel THEN "cancel" ELSE "retry"]
     ELSE Over(c)
  /\ UNCHANGED <<job, snapshot, worker, ledger, asked, requeued, acted>>

(* Slip: lost workers are left alone.                                      *)
NeverLost(c) == FALSE

Lost(c) == job.state = "running" /\ job.beat = "stale" /\ ~request[c].late

Reap(c) ==
  /\ Does(c, "reap")
  /\ job' = IF Lost(c)
            THEN DeadLetter(job, IF request[c].act = "cancel" THEN "cancelled"
                                 ELSE "attempts_exhausted")
            ELSE job
  /\ Over(c)
  /\ UNCHANGED <<snapshot, worker, ledger, asked, requeued, acted>>

-----------------------------------------------------------------------------
(* performOpsAction *)

(* The key is new, and the import is read: what is refused by then changes *)
(* nothing but the ledger.                                                 *)
OperatorAsks(c, key) ==
  /\ c \in People /\ ledger[key] = "none" /\ Ask(c)
  /\ \E act \in {"cancel", "retry"} :
       request' = [request EXCEPT ![c] =
         [NoRequest EXCEPT !.pc = "key", !.key = key, !.act =
            CASE act = "cancel" /\ ~Ended -> "cancel"
              [] act = "retry" /\ Retryable -> "retry"
              [] act = "retry" /\ ~Ended -> "resume"
              [] OTHER -> "none"]]
  /\ UNCHANGED <<job, snapshot, worker, ledger, requeued, acted>>

(* Slip: the key read as new is taken for new.                             *)
FreshOnce(c) == TRUE

Fresh(c) == ledger[request[c].key] = "none"

(* One row for a key: who comes second is answered with the first's row.   *)
ClaimKey(c) ==
  /\ Does(c, "key")
  /\ IF Fresh(c)
     THEN /\ ledger' = [ledger EXCEPT ![request[c].key] = "pending"]
          /\ acted' = [acted EXCEPT ![request[c].key] = @ + 1]
          /\ GoOn(c, "read")
     ELSE /\ request' = [request EXCEPT ![c] = NoRequest]
          /\ UNCHANGED <<ledger, acted>>
  /\ UNCHANGED <<job, snapshot, worker, asked, requeued>>

Settle(c) ==
  /\ Does(c, "settle")
  /\ ledger' = [ledger EXCEPT ![request[c].key] = "settled"]
  /\ request' = [request EXCEPT ![c] = NoRequest]
  /\ UNCHANGED <<job, snapshot, worker, asked, requeued, acted>>

-----------------------------------------------------------------------------
Save(w) ==
  \/ LookUp(w) \/ SaveProject(w) \/ ClearEvidence(w) \/ InsertEvidence(w)
  \/ SaveFails(w) \/ Succeed(w)

Work(w) ==
  \/ ExtractFails(w) \/ CheckCancel(w) \/ Save(w)

Reconcile(c) == List(c) \/ Reap(c)

Serve(c) ==
  \/ Read(c) \/ FlagCancel(c) \/ CloseCancelled(c) \/ Requeue(c)
  \/ Reconcile(c) \/ ClaimKey(c) \/ Settle(c)

Next ==
  \/ \E w \in Workers : Claim(w) \/ Heartbeat(w) \/ Work(w) \/ WorkerDies(w)
  \/ \E c \in Callers : Serve(c) \/ OwnerAsks(c)
  \/ \E c \in People, key \in Keys : OperatorAsks(c, key)
  \/ HeartbeatAges

(* The schedule lists what is due and runs it; a worker goes on or dies;   *)
(* the clock goes on.  Nobody has to ask for anything, and a request that  *)
(* dies is one that stays where it is.                                     *)
Fairness ==
  /\ WF_vars(Reconcile(Cron))
  /\ \A w \in Workers : WF_vars(Claim(w)) /\ WF_vars(Work(w) \/ WorkerDies(w))
  /\ WF_vars(HeartbeatAges)

Spec == Init /\ [][Next]_vars /\ Fairness

-----------------------------------------------------------------------------
(* A job that succeeded has its snapshot, whoever saved it ("The project   *)
(* row is written before this transition", runImportJob).                  *)
SucceededIsSaved == job.state = "succeeded" => snapshot.row

(* Each budget of tries is paid for by one requeue: racing requests to     *)
(* repeat an import do not add up, and no lost worker is a free try.       *)
TriesAreBounded ==
  /\ job.max <= MaxAttempts * (1 + requeued)
  /\ job.attempts <= MaxAttempts * (1 + requeued)

(* "a double click, a network retry or two operators racing with the same  *)
(* key act at most once" (ops-actions.ts).                                 *)
KeyActsOnce == \A k \in Keys : acted[k] <= 1

(* What has ended stays as it ended, until it is put back on request: late *)
(* workers, late cancellations and late lists change nothing ("a replaced  *)
(* worker cannot overwrite the result", runImportJob).                     *)
EndedStays ==
  [][Ended => \/ job' = [job EXCEPT !.cancel = job'.cancel]
              \/ job.state = "dead_letter" /\ requeued' > requeued]_vars

(* A waiting job that no worker can claim: it failed with a cancellation   *)
(* recorded, or was put back on a count of tries read long before.         *)
Stranded == Waiting /\ (job.cancel \/ job.attempts >= job.max)

(* An import ends, whatever happens to its workers, or is stranded ("closed*)
(* out as failed rather than left running forever", reconcileImports).     *)
ImportEnds == []<>(Ended \/ Stranded)

(* "The analysis finished but could not be saved. Fydell will retry        *)
(* automatically.": what has succeeded in the end has all that was found.  *)
SucceededHasItsFindings ==
  job.state = "succeeded" => snapshot.evidence
=============================================================================
