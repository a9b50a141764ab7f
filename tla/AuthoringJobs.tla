--------------------------- MODULE AuthoringJobs ---------------------------
(***************************************************************************)
(* The lease and the tries of the jobs that generate and test a work       *)
(* sample (src/lib/eng/authoring/jobs.ts, migration 062).                  *)
(*                                                                         *)
(* A draft has at most one live job of a kind.  These are its jobs of one  *)
(* kind; a job of the other kind may run beside them on a row of its own,  *)
(* and can do no more to them than SaveSection: move the draft's revision. *)
(*                                                                         *)
(* Of the draft only its revision is kept: what a job writes to it, and    *)
(* what people do meanwhile, is in Drafts.  A worker is one execution of   *)
(* processJob.  A lease of four minutes may end while its worker is alive: *)
(* the host allows five, and a stage renews its lease only at its start.   *)
(***************************************************************************)
EXTENDS Naturals

CONSTANTS
  Workers,      \* slots for processJob
  Nobody,       \* no owner
  MaxAttempts,  \* eng_authoring_jobs.max_attempts
  Stages,       \* stages of a generation before "assemble"
  MaxJobs,      \* bound: jobs queued
  MaxRevision,  \* bound: revisions of the draft
  MaxWaits      \* bound: rate limits met

ASSUME NobodyAssumption == Nobody \notin Workers
ASSUME CountsAssumption ==
  /\ {MaxAttempts, MaxJobs, MaxRevision} \subseteq Nat \ {0}
  /\ {Stages, MaxWaits} \subseteq Nat

VARIABLES
  revision,  \* of the draft
  job,       \* the newest row of eng_authoring_jobs of the kind
  worker,    \* what each worker has read and is doing
  stored,    \* how often each job wrote the package
  waits      \* rate limits met so far

vars == <<revision, job, worker, stored, waits>>

Live == {"queued", "running"}

Jobs == [id : 1..MaxJobs, kind : {"generate", "test"},
         status : Live \cup {"succeeded", "failed"},
         owner : Workers \cup {Nobody}, lease : {"none", "future", "past"},
         attempts : 0..MaxAttempts, revision : 1..MaxRevision,
         done : 0..(Stages + 1)]

NewJob(id, kind, read) ==
  [id |-> id, kind |-> kind, status |-> "queued", owner |-> Nobody,
   lease |-> "none", attempts |-> 0, revision |-> read, done |-> 0]

(* copy: the row as the worker knows it.  moved: a stage has ended since   *)
(* the claim.  since: the leases given since this worker read the row, if  *)
(* any: to a worker that claimed it, or only by renewals and back-offs.    *)
WorkerStates ==
  [pc : {"idle", "claim", "work", "store", "record", "finish"},
   copy : Jobs, moved : BOOLEAN, since : {"nothing", "renewed", "claimed"}]

TypeOK ==
  /\ revision \in 1..MaxRevision
  /\ job \in Jobs
  /\ worker \in [Workers -> WorkerStates]
  /\ stored \in [1..MaxJobs -> 0..MaxRevision]
  /\ waits \in 0..MaxWaits

Idle(copy) ==
  [pc |-> "idle", copy |-> copy, moved |-> FALSE, since |-> "nothing"]

Init ==
  /\ revision = 1
  /\ \E kind \in {"generate", "test"} : job = NewJob(1, kind, 1)
  /\ worker = [w \in Workers |-> Idle(job)]
  /\ stored = [j \in 1..MaxJobs |-> 0]
  /\ waits = 0

-----------------------------------------------------------------------------
(* The lease *)

(* Nobody holds the job and it is due.                                     *)
IsClaimable == job.status \in Live /\ job.lease # "future"

ReadJob(w) ==
  /\ worker[w].pc = "idle" /\ IsClaimable
  /\ worker' = [worker EXCEPT ![w] = [Idle(job) EXCEPT !.pc = "claim"]]
  /\ UNCHANGED <<revision, job, stored, waits>>

WorkerLost(copy) == copy.status = "running" /\ copy.owner # Nobody

(* Slip: a lost try is not counted.                                        *)
TriesUncounted(copy) == copy.attempts

Tries(copy) == IF WorkerLost(copy) THEN copy.attempts + 1 ELSE copy.attempts

(* Slip: the last try may be lost again and again.                         *)
NeverSpent(copy) == FALSE

Spent(copy) == WorkerLost(copy) /\ Tries(copy) >= MaxAttempts

Done(w) == worker' = [worker EXCEPT ![w] = Idle(job')]

Ended(row, status) ==
  [row EXCEPT !.status = status, !.owner = Nobody, !.lease = "none"]

(* The row a claim read has the same owner.  Every claim makes an owner of *)
(* its own: one that claimed the job since the read is another.            *)
SameOwner(w) == /\ job.id = worker[w].copy.id
                /\ job.owner = worker[w].copy.owner
                /\ job.owner = Nobody \/ worker[w].since # "claimed"

(* The last try was lost: the job fails instead of being claimed.  The     *)
(* lease is not compared: an owner that renewed it since is ended too.     *)
GiveUp(w) ==
  LET copy == worker[w].copy IN
  /\ worker[w].pc = "claim" /\ Spent(copy)
  /\ job' = IF job.status = "running" /\ SameOwner(w)
            THEN [Ended(job, "failed") EXCEPT !.attempts = Tries(copy)]
            ELSE job
  /\ Done(w)
  /\ UNCHANGED <<revision, stored, waits>>

(* A lease given to w ends after the time with which everybody who read    *)
(* the row before compares it.                                             *)
Leases(w, state, how) ==
  [v \in Workers |->
     IF v = w THEN state
     ELSE IF worker[v].pc = "claim" /\ worker[v].since # "claimed"
     THEN [worker[v] EXCEPT !.since = how]
     ELSE worker[v]]

Due(w) ==
  job.lease = "none" \/ (job.lease = "past" /\ worker[w].since = "nothing")

Claimed(w) == job.status \in Live /\ Due(w) /\ SameOwner(w)

Claim(w) ==
  LET mine == [job EXCEPT !.status = "running", !.owner = w,
                 !.lease = "future", !.attempts = Tries(worker[w].copy)]
  IN
  /\ worker[w].pc = "claim" /\ ~Spent(worker[w].copy)
  /\ IF Claimed(w)
     THEN /\ job' = mine
          /\ worker' = Leases(w, [Idle(mine) EXCEPT !.pc = "work"], "claimed")
     ELSE job' = job /\ Done(w)
  /\ UNCHANGED <<revision, stored, waits>>

(* Slip: a row is written by its id alone.                                 *)
SavedById(w, row) == IF job.id = worker[w].copy.id THEN row ELSE job

(* save: fenced by the owner alone, and silent when it matches nothing.    *)
Saved(w, row) ==
  IF job.id = worker[w].copy.id /\ job.owner = w THEN row ELSE job

LeaseEnds ==
  /\ job.status \in Live /\ job.lease = "future"
  /\ job' = [job EXCEPT !.lease = "past"]
  /\ UNCHANGED <<revision, worker, stored, waits>>

-----------------------------------------------------------------------------
(* The work *)

(* Slip: "assemble" is saved as finished before it ran.                    *)
StageAhead(w) ==
  LET next == worker[w].copy.done + 1 IN
  /\ worker[w].pc = "work" /\ worker[w].copy.kind = "generate" /\ next <= Stages + 1
  /\ job' = Saved(w, [job EXCEPT !.done = next, !.lease = "future"])
  /\ worker' = Leases(w, [worker[w] EXCEPT !.copy.done = next, !.moved = TRUE],
                    "renewed")
  /\ UNCHANGED <<revision, stored, waits>>

(* A stage of the model ends and is saved; the next one renews the lease.  *)
FinishStage(w) ==
  LET next == worker[w].copy.done + 1 IN
  /\ worker[w].pc = "work" /\ worker[w].copy.kind = "generate" /\ next <= Stages
  /\ job' = Saved(w, [job EXCEPT !.done = next, !.lease = "future"])
  /\ worker' = Leases(w, [worker[w] EXCEPT !.copy.done = next, !.moved = TRUE],
                    "renewed")
  /\ UNCHANGED <<revision, stored, waits>>

(* The time budget is over before a stage that is not the first one.       *)
OutOfTime(w) ==
  /\ worker[w].pc = "work" /\ worker[w].moved /\ worker[w].copy.done <= Stages
  /\ job' = Saved(w, Ended(job, "queued"))
  /\ Done(w)
  /\ UNCHANGED <<revision, stored, waits>>

Later(w, row) ==
  /\ job' = Saved(w, [Ended(row, "queued") EXCEPT !.lease = "future"])
  /\ worker' = Leases(w, Idle(job'), "renewed")

(* The model's rate limit: the job waits, no try is used.                  *)
RateLimited(w) ==
  /\ worker[w].pc = "work" /\ worker[w].copy.kind = "generate"
  /\ worker[w].copy.done < Stages
  /\ waits < MaxWaits /\ waits' = waits + 1
  /\ Later(w, job)
  /\ UNCHANGED <<revision, stored>>

(* Another error ends the try: the job waits, or fails.                    *)
Failed(w, retryable) ==
  LET tries == worker[w].copy.attempts + 1
      row == [job EXCEPT !.attempts = tries]
  IN
  /\ IF retryable /\ tries < MaxAttempts THEN Later(w, row)
     ELSE job' = Saved(w, Ended(row, "failed")) /\ Done(w)
  /\ UNCHANGED <<revision, stored, waits>>

Busy(w) == worker[w].pc \in {"work", "store", "record", "finish"}

Fails(w) == Busy(w) /\ \E retryable \in BOOLEAN : Failed(w, retryable)

(* Killed, or its last save did not reach the database.                    *)
WorkerDies(w) ==
  /\ worker[w].pc # "idle"
  /\ worker' = [worker EXCEPT ![w] = Idle(job)]
  /\ UNCHANGED <<revision, job, stored, waits>>

(* Slip: the newest draft is taken, whatever the job was queued for.       *)
AnyRevision(copy) == TRUE

SameRevision(copy) == revision = copy.revision

(* loadDraft: the draft must be at the revision the job was queued for.    *)
LoadDraft(w) ==
  LET copy == worker[w].copy IN
  /\ worker[w].pc = "work"
  /\ copy.kind = "test" \/ copy.done = Stages
  /\ IF ~SameRevision(copy) THEN Failed(w, FALSE)
     ELSE /\ worker' = [worker EXCEPT ![w].copy.revision = revision,
               ![w].pc = IF copy.kind = "test" THEN "record" ELSE "store"]
          /\ UNCHANGED <<revision, job, stored, waits>>

(* The package, conditional on the revision that was loaded.               *)
StoreDraft(w) ==
  LET copy == worker[w].copy IN
  /\ worker[w].pc = "store"
  /\ IF revision = copy.revision
     THEN /\ revision < MaxRevision /\ revision' = revision + 1
          /\ stored' = [stored EXCEPT ![copy.id] = @ + 1]
     ELSE UNCHANGED <<revision, stored>>
  /\ worker' = [worker EXCEPT ![w].pc = "record"]
  /\ UNCHANGED <<job, waits>>

(* The protected materials and the checks; "assemble" is a finished stage. *)
RecordValidation(w) ==
  /\ worker[w].pc = "record"
  /\ IF worker[w].copy.kind = "test" THEN job' = job
     ELSE job' = Saved(w, [job EXCEPT !.done = Stages + 1])
  /\ worker' = [worker EXCEPT ![w].pc = "finish"]
  /\ UNCHANGED <<revision, stored, waits>>

(* Also of a worker that finds every stage done.                           *)
FinishJob(w) ==
  /\ \/ worker[w].pc = "finish"
     \/ worker[w].pc = "work" /\ worker[w].copy.done = Stages + 1
  /\ job' = Saved(w, Ended(job, "succeeded"))
  /\ Done(w)
  /\ UNCHANGED <<revision, stored, waits>>

-----------------------------------------------------------------------------
(* requestRegeneration, requestTestRun: one live job of the kind, for the  *)
(* revision that the request read before.                                  *)
EnqueueJob ==
  /\ job.status \notin Live /\ job.id < MaxJobs
  /\ \E read \in 1..revision : job' = NewJob(job.id + 1, job.kind, read)
  /\ UNCHANGED <<revision, worker, stored, waits>>

(* An edit, or what a job of the other kind stored.                        *)
SaveSection ==
  /\ revision < MaxRevision /\ revision' = revision + 1
  /\ UNCHANGED <<job, worker, stored, waits>>

Settle(w) == GiveUp(w) \/ Claim(w)

Work(w) ==
  \/ FinishStage(w) \/ OutOfTime(w) \/ RateLimited(w) \/ Fails(w)
  \/ LoadDraft(w) \/ StoreDraft(w) \/ RecordValidation(w) \/ FinishJob(w)

Next ==
  \/ \E w \in Workers : ReadJob(w) \/ Settle(w) \/ Work(w) \/ WorkerDies(w)
  \/ LeaseEnds \/ SaveSection \/ EnqueueJob

(* The scheduled worker polls (processDueJobs), is not killed between its  *)
(* read and its claim every time, and what it runs goes on or dies; the    *)
(* clock goes on.  That people stop editing, asking and meeting limits is  *)
(* not assumed: the bounds do it.                                          *)
Fairness ==
  /\ \A w \in Workers : WF_vars(ReadJob(w)) /\ SF_vars(Settle(w))
  /\ \A w \in Workers : WF_vars(Work(w) \/ WorkerDies(w))
  /\ WF_vars(LeaseEnds)

Spec == Init /\ [][Next]_vars /\ Fairness

-----------------------------------------------------------------------------
(* A job that has ended stays as it ended, whoever still works for it      *)
(* (claim, save).                                                          *)
EndedJobsStay ==
  [][job.status \notin Live => job'.id # job.id \/ job' = job]_vars

(* A generation writes the draft once, however often it is repeated, also  *)
(* after a worker that died between the draft and its own record.          *)
StoredOnce == \A j \in 1..MaxJobs : stored[j] <= 1

(* A generation that succeeds leaves a newer draft: its own, or one that   *)
(* was edited under it; a repeat that skips its last stage does too.       *)
SucceededIsStored ==
  job.status = "succeeded" /\ job.kind = "generate" => revision > job.revision

(* A job ends: it does not stay queued or leased for ever, whatever        *)
(* happens to its workers ("instead of being reclaimed forever").          *)
EveryJobEnds == []<>(job.status \notin Live)
=============================================================================
