------------------------ MODULE AuthoringJobsProofs ------------------------
(***************************************************************************)
(* Proofs about AuthoringJobs, for any workers and any bounds.  A worker   *)
(* acts on a copy of its job that may be old, of a job that may be over;   *)
(* what its copy says of the draft's revision stays true (CopyFits).       *)
(***************************************************************************)
EXTENDS AuthoringJobs, TLAPS

JobFits ==
  /\ job.revision <= revision
  /\ job.status \in Live => job.attempts < MaxAttempts
  /\ job.status \notin Live => job.owner = Nobody
  /\ stored[job.id] >= 1 => revision > job.revision
  /\ \A j \in 1..MaxJobs : j > job.id => stored[j] = 0
  /\ job.kind = "generate" /\ (job.done = Stages + 1 \/ job.status = "succeeded") =>
       revision > job.revision

(* What a worker's copy still says of the job and of the draft.            *)
CopyFits(s) ==
  /\ s.copy.id <= job.id /\ s.copy.revision <= revision
  /\ s.copy.id = job.id => s.copy.revision = job.revision /\ s.copy.kind = job.kind
  /\ stored[s.copy.id] >= 1 => revision > s.copy.revision
  /\ s.copy.kind = "generate"
       /\ (s.pc \in {"record", "finish"} \/ s.copy.done = Stages + 1) =>
     revision > s.copy.revision
  /\ s.pc # "idle" => s.copy.attempts < MaxAttempts

(* The inductive invariant. *)
IInv ==
  /\ TypeOK
  /\ StoredOnce
  /\ JobFits
  /\ \A w \in Workers : CopyFits(worker[w])

USE NobodyAssumption, CountsAssumption

-----------------------------------------------------------------------------
LEMMA NewJobType ==
  ASSUME revision \in 1..MaxRevision, NEW id \in 1..MaxJobs,
         NEW kind \in {"generate", "test"}, NEW read \in 1..revision
  PROVE  /\ NewJob(id, kind, read) \in Jobs
         /\ NewJob(id, kind, read).id = id /\ NewJob(id, kind, read).kind = kind
         /\ NewJob(id, kind, read).revision = read /\ NewJob(id, kind, read).done = 0
         /\ NewJob(id, kind, read).attempts = 0
         /\ NewJob(id, kind, read).status = "queued"
  BY DEF NewJob, Jobs, Live

LEMMA IdleType ==
  ASSUME NEW copy \in Jobs
  PROVE  Idle(copy) \in WorkerStates /\ Idle(copy).pc = "idle" /\ Idle(copy).copy = copy
  BY DEF Idle, WorkerStates

LEMMA IdleFits ==
  ASSUME job \in Jobs, JobFits
  PROVE  CopyFits(Idle(job))
  BY IdleType DEF CopyFits, JobFits, Jobs

LEMMA InitIInv == Init => IInv
<1> SUFFICES ASSUME Init PROVE IInv
  OBVIOUS
<1>1. PICK kind \in {"generate", "test"} : job = NewJob(1, kind, 1)
  BY DEF Init
<1>2. /\ revision = 1 /\ revision \in 1..MaxRevision /\ 1 \in 1..MaxJobs
      /\ stored = [j \in 1..MaxJobs |-> 0] /\ waits = 0
      /\ worker = [w \in Workers |-> Idle(job)]
  BY DEF Init
<1>3. /\ job \in Jobs /\ job.id = 1 /\ job.revision = 1 /\ job.done = 0
      /\ job.attempts = 0 /\ job.status = "queued"
  BY <1>1, <1>2, NewJobType
<1>4. TypeOK
  BY <1>2, <1>3, IdleType DEF TypeOK
<1>5. StoredOnce /\ JobFits
  BY <1>2, <1>3 DEF StoredOnce, JobFits, Live
<1>6. \A w \in Workers : CopyFits(worker[w])
  BY <1>2, <1>3, <1>5, IdleFits
<1>7. QED  BY <1>4, <1>5, <1>6 DEF IInv

-----------------------------------------------------------------------------
(* Steps of one worker *)

(* The others may learn that a lease was given, and nothing else.          *)
Moved(w, s) ==
  /\ worker' \in [Workers -> WorkerStates] /\ worker'[w] = s
  /\ \A v \in Workers \ {w} :
       worker'[v].copy = worker[v].copy /\ worker'[v].pc = worker[v].pc

LEMMA LeasesMove ==
  ASSUME TypeOK, NEW w \in Workers, NEW s \in WorkerStates,
         NEW how \in {"renewed", "claimed"}, worker' = Leases(w, s, how)
  PROVE  Moved(w, s)
<1>1. ASSUME NEW v \in Workers \ {w}
      PROVE  /\ worker'[v] \in WorkerStates
             /\ worker'[v].copy = worker[v].copy /\ worker'[v].pc = worker[v].pc
  <2>1. worker'[v] \in {worker[v], [worker[v] EXCEPT !.since = how]}
    BY DEF Leases
  <2>2. worker[v] \in WorkerStates
    BY DEF TypeOK
  <2>3. QED  BY <2>1, <2>2 DEF WorkerStates
<1>2. worker'[w] = s /\ worker' = [v \in Workers |-> worker'[v]]
  BY DEF Leases
<1>3. QED  BY <1>1, <1>2 DEF Moved

LEMMA OneMoves ==
  ASSUME TypeOK, NEW w \in Workers, NEW s \in WorkerStates,
         worker' = [worker EXCEPT ![w] = s]
  PROVE  Moved(w, s)
  BY DEF TypeOK, Moved

(* The job is the same job. *)
SameJob ==
  /\ job' \in Jobs
  /\ job'.id = job.id /\ job'.kind = job.kind /\ job'.revision = job.revision

LEMMA WorkerSteps ==
  ASSUME IInv, NEW w \in Workers, NEW s \in WorkerStates, Moved(w, s), SameJob,
         UNCHANGED <<revision, stored>>, waits' \in 0..MaxWaits,
         JobFits', CopyFits(s)'
  PROVE  IInv'
<1>1. TypeOK' /\ StoredOnce'
  BY DEF IInv, TypeOK, Moved, SameJob, StoredOnce
<1>2. ASSUME NEW v \in Workers PROVE CopyFits(worker[v])'
  <2>1. CASE v = w
    BY <2>1 DEF Moved
  <2>2. CASE v # w
    BY <2>2 DEF IInv, Moved, SameJob, CopyFits
  <2>3. QED  BY <2>1, <2>2
<1>3. QED  BY <1>1, <1>2 DEF IInv

(* The worker is done, and its slot is blank. *)
LEMMA DoneSteps ==
  ASSUME IInv, NEW w \in Workers, worker' = [worker EXCEPT ![w] = Idle(job')]
           \/ worker' = Leases(w, Idle(job'), "renewed"), SameJob,
         UNCHANGED <<revision, stored>>, waits' \in 0..MaxWaits, JobFits'
  PROVE  IInv'
<1>1. PICK s \in WorkerStates : s = Idle(job')
  BY IdleType DEF SameJob
<1>2. CopyFits(s)'
  <2>1. CopyFits(Idle(job))'
    BY IdleType DEF CopyFits, JobFits, SameJob, Jobs
  <2>2. QED  BY <1>1, <2>1
<1>3. Moved(w, s)
  BY <1>1, OneMoves, LeasesMove DEF IInv
<1>4. QED  BY <1>1, <1>2, <1>3, WorkerSteps

(* The row is what it was, or what a worker makes of it. *)
LEMMA RowSteps ==
  ASSUME IInv, UNCHANGED <<revision, stored>>,
         \/ job' = job
         \/ /\ SameJob
            /\ job'.status \in Live => job'.attempts < MaxAttempts
            /\ job'.status \notin Live => job'.owner = Nobody
            /\ job'.kind = "generate"
                 /\ (job'.done = Stages + 1 \/ job'.status = "succeeded") =>
               revision > job'.revision
  PROVE  SameJob /\ JobFits'
<1>1. CASE job' = job
  BY <1>1 DEF IInv, TypeOK, SameJob, JobFits
<1>2. CASE SameJob
  BY <1>2 DEF IInv, SameJob, JobFits
<1>3. QED  BY <1>1, <1>2

LEMMA EndedType ==
  ASSUME NEW row \in Jobs, NEW status \in {"queued", "running", "succeeded", "failed"}
  PROVE  /\ Ended(row, status) \in Jobs
         /\ Ended(row, status).id = row.id /\ Ended(row, status).kind = row.kind
         /\ Ended(row, status).revision = row.revision
         /\ Ended(row, status).attempts = row.attempts
         /\ Ended(row, status).done = row.done
         /\ Ended(row, status).owner = Nobody
         /\ Ended(row, status).status = status
  BY DEF Ended, Jobs, Live

-----------------------------------------------------------------------------
(* Claims *)

LEMMA TriesType ==
  ASSUME IInv, NEW w \in Workers, worker[w].pc # "idle"
  PROVE  /\ Tries(worker[w].copy) \in 0..MaxAttempts
         /\ ~Spent(worker[w].copy) => Tries(worker[w].copy) < MaxAttempts
<1>1. worker[w].copy.attempts \in 0..MaxAttempts /\ worker[w].copy.attempts < MaxAttempts
  BY DEF IInv, TypeOK, WorkerStates, Jobs, CopyFits
<1>2. QED  BY <1>1 DEF Tries, Spent

LEMMA ReadJobIInv ==
  ASSUME IInv, NEW w \in Workers, ReadJob(w)
  PROVE  IInv'
<1> DEFINE slot == [Idle(job) EXCEPT !.pc = "claim"]
<1>1. TypeOK /\ JobFits /\ job \in Jobs /\ job.status \in Live
  BY DEF IInv, TypeOK, ReadJob, IsClaimable
<1>2. slot \in WorkerStates /\ slot.pc = "claim" /\ slot.copy = job
  BY <1>1 DEF Idle, WorkerStates
<1>3. worker' = [worker EXCEPT ![w] = slot] /\ UNCHANGED <<revision, job, stored, waits>>
  BY DEF ReadJob
<1> HIDE DEF slot
<1> PICK s \in WorkerStates : s = slot
  BY <1>2
<1>4. CopyFits(s)'
  BY <1>1, <1>2, <1>3 DEF CopyFits, JobFits, Jobs
<1>5. SameJob /\ JobFits' /\ waits' \in 0..MaxWaits
  BY <1>1, <1>3, RowSteps DEF TypeOK
<1>6. QED  BY <1>1, <1>3, <1>4, <1>5, OneMoves, WorkerSteps

LEMMA GiveUpIInv ==
  ASSUME IInv, NEW w \in Workers, GiveUp(w)
  PROVE  IInv'
<1> DEFINE tries == Tries(worker[w].copy)
           row == [Ended(job, "failed") EXCEPT !.attempts = tries]
<1>1. /\ TypeOK /\ JobFits /\ job \in Jobs /\ worker[w].pc = "claim"
      /\ job' \in {row, job} /\ worker' = [worker EXCEPT ![w] = Idle(job')]
      /\ UNCHANGED <<revision, stored, waits>> /\ waits' \in 0..MaxWaits
  BY DEF IInv, TypeOK, GiveUp, Done
<1>2. tries \in 0..MaxAttempts
  BY <1>1, TriesType
<1> HIDE DEF tries
<1>3. /\ row \in Jobs /\ row.id = job.id /\ row.kind = job.kind /\ row.status = "failed"
      /\ row.revision = job.revision /\ row.owner = Nobody /\ row.done = job.done
  BY <1>1, <1>2 DEF Ended, Jobs, Live
<1> HIDE DEF row
<1>4. SameJob /\ JobFits'
  <2>1. CASE job' = row
    <3>1. SameJob /\ job'.status \notin Live /\ job'.owner = Nobody
      BY <1>3, <2>1 DEF SameJob, Live
    <3>2. job'.kind = "generate" /\ (job'.done = Stages + 1 \/ job'.status = "succeeded")
            => revision > job'.revision
      BY <1>1, <1>3, <2>1 DEF JobFits
    <3>3. QED  BY <1>1, <3>1, <3>2, RowSteps
  <2>2. CASE job' = job
    BY <1>1, <2>2, RowSteps
  <2>3. QED  BY <1>1, <2>1, <2>2
<1>5. QED  BY <1>1, <1>4, DoneSteps

LEMMA ClaimIInv ==
  ASSUME IInv, NEW w \in Workers, Claim(w)
  PROVE  IInv'
<1> DEFINE tries == Tries(worker[w].copy)
           mine == [job EXCEPT !.status = "running", !.owner = w,
                      !.lease = "future", !.attempts = tries]
           slot == [Idle(mine) EXCEPT !.pc = "work"]
<1>1. /\ TypeOK /\ JobFits /\ job \in Jobs /\ worker[w].pc = "claim"
      /\ UNCHANGED <<revision, stored, waits>> /\ waits' \in 0..MaxWaits
  BY DEF IInv, TypeOK, Claim
<1>2. tries \in 0..MaxAttempts /\ tries < MaxAttempts
  BY <1>1, TriesType DEF Claim
<1> HIDE DEF tries
<1>3. CASE Claimed(w)
  <2>1. job' = mine /\ worker' = Leases(w, slot, "claimed")
    BY <1>3 DEF Claim, tries
  <2>2. /\ mine \in Jobs /\ mine.id = job.id /\ mine.kind = job.kind
        /\ mine.revision = job.revision /\ mine.status = "running"
        /\ mine.attempts = tries /\ mine.done = job.done
    BY <1>1, <1>2 DEF Jobs, Live
  <2> HIDE DEF mine
  <2>3. slot \in WorkerStates /\ slot.pc = "work" /\ slot.copy = mine
    BY <2>2 DEF Idle, WorkerStates
  <2> HIDE DEF slot
  <2>4. SameJob /\ JobFits'
    <3>1. SameJob /\ job'.status \in Live /\ job'.attempts < MaxAttempts
      BY <1>2, <2>1, <2>2 DEF SameJob, Live
    <3>2. job'.kind = "generate" /\ (job'.done = Stages + 1 \/ job'.status = "succeeded")
            => revision > job'.revision
      BY <1>1, <2>1, <2>2 DEF JobFits
    <3>3. QED  BY <1>1, <3>1, <3>2, RowSteps
  <2> PICK s \in WorkerStates : s = slot
    BY <2>3
  <2>5. CopyFits(s)'
    BY <1>1, <1>2, <2>1, <2>2, <2>3, <2>4 DEF CopyFits, JobFits, Jobs
  <2>6. QED  BY <1>1, <2>1, <2>4, <2>5, LeasesMove, WorkerSteps
<1>4. CASE ~Claimed(w)
  <2>1. job' = job /\ worker' = [worker EXCEPT ![w] = Idle(job')]
    BY <1>4 DEF Claim, Done
  <2>2. QED  BY <1>1, <2>1, RowSteps, DoneSteps
<1>5. QED  BY <1>3, <1>4

-----------------------------------------------------------------------------
(* Work *)

(* A worker that owns the job it has a copy of: the job is live, and the   *)
(* copy is of this kind and revision.                                      *)
Holds(w) == job.id = worker[w].copy.id /\ job.owner = w

LEMMA HolderFits ==
  ASSUME IInv, NEW w \in Workers, Holds(w)
  PROVE  /\ job.status \in Live /\ job.attempts < MaxAttempts
         /\ job.kind = worker[w].copy.kind /\ job.revision = worker[w].copy.revision
  BY DEF IInv, JobFits, CopyFits, Holds

(* A fenced write. *)
LEMMA SavedSteps ==
  ASSUME IInv, NEW w \in Workers, NEW row \in Jobs, job' = Saved(w, row),
         row.id = job.id, row.kind = job.kind, row.revision = job.revision,
         UNCHANGED <<revision, stored>>,
         Holds(w) =>
           /\ row.status \in Live => row.attempts < MaxAttempts
           /\ row.status \notin Live => row.owner = Nobody
           /\ row.kind = "generate"
                /\ (row.done = Stages + 1 \/ row.status = "succeeded") =>
              revision > row.revision
  PROVE  SameJob /\ JobFits'
<1>1. CASE Holds(w)
  <2>1. job' = row
    BY <1>1 DEF Holds, Saved
  <2>2. QED  BY <1>1, <2>1, RowSteps DEF SameJob
<1>2. CASE ~Holds(w)
  BY <1>2, RowSteps DEF Holds, Saved
<1>3. QED  BY <1>1, <1>2

LEMMA FinishStageIInv ==
  ASSUME IInv, NEW w \in Workers, FinishStage(w)
  PROVE  IInv'
<1> DEFINE next == worker[w].copy.done + 1
           copy == [worker[w].copy EXCEPT !.done = next]
           slot == [worker[w] EXCEPT !.copy = copy, !.moved = TRUE]
           row == [job EXCEPT !.done = next, !.lease = "future"]
<1>1. /\ TypeOK /\ job \in Jobs /\ worker[w] \in WorkerStates /\ CopyFits(worker[w])
      /\ worker[w].copy \in Jobs /\ worker[w].pc = "work" /\ JobFits
      /\ UNCHANGED <<revision, stored, waits>> /\ waits' \in 0..MaxWaits
  BY DEF IInv, TypeOK, FinishStage, WorkerStates
<1>2. next \in 0..(Stages + 1) /\ next # Stages + 1
  BY <1>1 DEF FinishStage, Jobs
<1>3. job' = Saved(w, row) /\ worker' = Leases(w, slot, "renewed")
  BY <1>1 DEF FinishStage, WorkerStates
<1> HIDE DEF next
<1>4. /\ row \in Jobs /\ row.id = job.id /\ row.kind = job.kind
      /\ row.revision = job.revision /\ row.status = job.status
      /\ row.attempts = job.attempts /\ row.done = next
  BY <1>1, <1>2 DEF Jobs
<1> HIDE DEF row
<1>5. /\ copy \in Jobs /\ copy.id = worker[w].copy.id /\ copy.kind = worker[w].copy.kind
      /\ copy.revision = worker[w].copy.revision /\ copy.done = next
      /\ copy.attempts = worker[w].copy.attempts
  BY <1>1, <1>2 DEF Jobs
<1> HIDE DEF copy
<1>6. slot \in WorkerStates /\ slot.copy = copy /\ slot.pc = "work"
  BY <1>1, <1>5 DEF WorkerStates
<1> HIDE DEF slot
<1>7. SameJob /\ JobFits'
  <2>1. Holds(w) => row.status \in Live /\ row.attempts < MaxAttempts
    BY <1>4, HolderFits
  <2>2. Holds(w) => row.status # "succeeded" /\ row.done # Stages + 1
    BY <1>2, <1>4, HolderFits DEF Live
  <2>3. QED  BY <1>1, <1>3, <1>4, <2>1, <2>2, SavedSteps
<1> PICK s \in WorkerStates : s = slot
  BY <1>6
<1>8. CopyFits(s)'
  BY <1>1, <1>2, <1>5, <1>6, <1>7 DEF CopyFits, SameJob
<1>9. QED  BY <1>1, <1>3, <1>7, <1>8, LeasesMove, WorkerSteps

(* Back in the queue, at once or later: with the tries it has, or one more.*)
LEMMA RequeueSteps ==
  ASSUME IInv, NEW w \in Workers, NEW row \in Jobs, NEW lease \in {"none", "future"},
         row.id = job.id, row.kind = job.kind, row.revision = job.revision,
         row.done = job.done, Holds(w) => row.attempts < MaxAttempts,
         job' = Saved(w, [Ended(row, "queued") EXCEPT !.lease = lease]),
         \/ worker' = [worker EXCEPT ![w] = Idle(job')]
         \/ worker' = Leases(w, Idle(job'), "renewed"),
         UNCHANGED <<revision, stored>>, waits' \in 0..MaxWaits
  PROVE  IInv'
<1> DEFINE new == [Ended(row, "queued") EXCEPT !.lease = lease]
<1>1. /\ new \in Jobs /\ new.id = job.id /\ new.kind = job.kind /\ new.done = job.done
      /\ new.revision = job.revision /\ new.status = "queued"
      /\ new.attempts = row.attempts
  BY DEF Ended, Jobs, Live
<1> HIDE DEF new
<1>2. Holds(w) => new.status \in Live /\ new.attempts < MaxAttempts
  BY <1>1 DEF Live
<1>3. new.kind = "generate" /\ (new.done = Stages + 1 \/ new.status = "succeeded")
        => revision > new.revision
  BY <1>1 DEF IInv, JobFits
<1>4. job' = Saved(w, new)
  BY DEF new
<1>5. SameJob /\ JobFits'
  BY <1>1, <1>2, <1>3, <1>4, SavedSteps
<1>6. QED  BY <1>5, DoneSteps

LEMMA OutOfTimeIInv ==
  ASSUME IInv, NEW w \in Workers, OutOfTime(w)
  PROVE  IInv'
<1>1. /\ job \in Jobs /\ UNCHANGED <<revision, stored, waits>> /\ waits' \in 0..MaxWaits
      /\ job' = Saved(w, Ended(job, "queued"))
      /\ worker' = [worker EXCEPT ![w] = Idle(job')]
  BY DEF IInv, TypeOK, OutOfTime, Done
<1>2. [Ended(job, "queued") EXCEPT !.lease = "none"] = Ended(job, "queued")
  BY <1>1 DEF Ended, Jobs
<1>3. Holds(w) => job.attempts < MaxAttempts
  BY HolderFits
<1>4. QED  BY <1>1, <1>2, <1>3, RequeueSteps

LEMMA RateLimitedIInv ==
  ASSUME IInv, NEW w \in Workers, RateLimited(w)
  PROVE  IInv'
<1>1. /\ job \in Jobs /\ UNCHANGED <<revision, stored>> /\ waits' \in 0..MaxWaits
      /\ job' = Saved(w, [Ended(job, "queued") EXCEPT !.lease = "future"])
      /\ worker' = Leases(w, Idle(job'), "renewed")
  BY DEF IInv, TypeOK, RateLimited, Later
<1>2. Holds(w) => job.attempts < MaxAttempts
  BY HolderFits
<1>3. QED  BY <1>1, <1>2, RequeueSteps

LEMMA FailedIInv ==
  ASSUME IInv, NEW w \in Workers, NEW retryable \in BOOLEAN,
         Failed(w, retryable), worker[w].pc # "idle"
  PROVE  IInv'
<1> DEFINE tries == worker[w].copy.attempts + 1
           row == [job EXCEPT !.attempts = tries]
<1>1. /\ job \in Jobs /\ UNCHANGED <<revision, stored, waits>> /\ waits' \in 0..MaxWaits
  BY DEF IInv, TypeOK, Failed
<1>2. tries \in 0..MaxAttempts
  <2>1. /\ worker[w].copy.attempts \in 0..MaxAttempts
        /\ worker[w].copy.attempts < MaxAttempts
    BY DEF IInv, TypeOK, CopyFits, WorkerStates, Jobs
  <2>2. QED  BY <2>1
<1>3. \/ tries < MaxAttempts /\ Later(w, row)
      \/ job' = Saved(w, Ended(row, "failed")) /\ Done(w)
  BY DEF Failed
<1> HIDE DEF tries
<1>4. /\ row \in Jobs /\ row.id = job.id /\ row.kind = job.kind /\ row.done = job.done
      /\ row.revision = job.revision /\ row.attempts = tries
  BY <1>1, <1>2 DEF Jobs
<1> HIDE DEF row
<1>5. CASE tries < MaxAttempts /\ Later(w, row)
  BY <1>1, <1>4, <1>5, RequeueSteps DEF Later
<1>6. CASE job' = Saved(w, Ended(row, "failed")) /\ Done(w)
  <2> DEFINE new == Ended(row, "failed")
  <2>1. /\ new \in Jobs /\ new.id = job.id /\ new.kind = job.kind /\ new.done = job.done
        /\ new.revision = job.revision /\ new.status = "failed" /\ new.owner = Nobody
    BY <1>4, EndedType
  <2> HIDE DEF new
  <2>2. new.status \notin Live /\ new.status # "succeeded"
    BY <2>1 DEF Live
  <2>3. new.kind = "generate" /\ new.done = Stages + 1 => revision > new.revision
    BY <2>1 DEF IInv, JobFits
  <2>4. job' = Saved(w, new)
    BY <1>6 DEF new
  <2>5. SameJob /\ JobFits'
    BY <1>1, <2>1, <2>2, <2>3, <2>4, SavedSteps
  <2>6. QED  BY <1>1, <1>6, <2>5, DoneSteps DEF Done
<1>7. QED  BY <1>3, <1>5, <1>6

LEMMA WorkerDiesIInv ==
  ASSUME IInv, NEW w \in Workers, WorkerDies(w)
  PROVE  IInv'
<1>1. /\ UNCHANGED <<revision, job, stored, waits>> /\ waits' \in 0..MaxWaits
      /\ worker' = [worker EXCEPT ![w] = Idle(job')]
  BY DEF IInv, TypeOK, WorkerDies
<1>2. QED  BY <1>1, RowSteps, DoneSteps

LEMMA LoadDraftIInv ==
  ASSUME IInv, NEW w \in Workers, LoadDraft(w)
  PROVE  IInv'
<1>1. /\ TypeOK /\ job \in Jobs /\ worker[w] \in WorkerStates /\ CopyFits(worker[w])
      /\ worker[w].copy \in Jobs /\ worker[w].pc = "work" /\ revision \in 1..MaxRevision
  BY DEF IInv, TypeOK, LoadDraft, WorkerStates
<1>2. CASE ~SameRevision(worker[w].copy)
  BY <1>1, <1>2, FailedIInv DEF LoadDraft
<1>3. CASE SameRevision(worker[w].copy)
  <2> DEFINE copy == [worker[w].copy EXCEPT !.revision = revision]
             pc == IF worker[w].copy.kind = "test" THEN "record" ELSE "store"
             slot == [worker[w] EXCEPT !.copy = copy, !.pc = pc]
  <2>1. /\ worker' = [worker EXCEPT ![w] = slot]
        /\ UNCHANGED <<revision, job, stored, waits>> /\ waits' \in 0..MaxWaits
    BY <1>1, <1>3 DEF LoadDraft, TypeOK, WorkerStates
  <2>2. copy = worker[w].copy
    BY <1>1, <1>3 DEF SameRevision, Jobs
  <2>3. pc \in {"record", "store"} /\ (pc = "record" => worker[w].copy.kind = "test")
    OBVIOUS
  <2> HIDE DEF copy, pc
  <2>4. slot \in WorkerStates /\ slot.copy = worker[w].copy /\ slot.pc = pc
    BY <1>1, <2>2, <2>3 DEF WorkerStates
  <2> HIDE DEF slot
  <2> PICK s \in WorkerStates : s = slot
    BY <2>4
  <2>5. CopyFits(s)'
    BY <1>1, <2>1, <2>3, <2>4 DEF CopyFits
  <2>6. SameJob /\ JobFits'
    BY <2>1, RowSteps
  <2>7. QED  BY <1>1, <2>1, <2>5, <2>6, OneMoves, WorkerSteps
<1>4. QED  BY <1>2, <1>3

(* The package is written: no copy of this job will find its revision      *)
(* again.                                                                  *)
LEMMA StoreDraftIInv ==
  ASSUME IInv, NEW w \in Workers, StoreDraft(w)
  PROVE  IInv'
<1> DEFINE slot == [worker[w] EXCEPT !.pc = "record"]
           id == worker[w].copy.id
<1>1. /\ TypeOK /\ StoredOnce /\ JobFits /\ job \in Jobs
      /\ worker[w] \in WorkerStates /\ CopyFits(worker[w]) /\ worker[w].pc = "store"
      /\ worker[w].copy \in Jobs /\ revision \in Nat /\ id \in 1..MaxJobs
      /\ UNCHANGED <<job, waits>> /\ worker' = [worker EXCEPT ![w] = slot]
  <2>1. /\ TypeOK /\ StoredOnce /\ JobFits /\ CopyFits(worker[w])
        /\ worker[w].pc = "store" /\ UNCHANGED <<job, waits>>
        /\ worker' = [worker EXCEPT ![w] = slot]
    BY DEF IInv, StoreDraft
  <2>2. job \in Jobs /\ worker[w] \in WorkerStates /\ revision \in Nat
    BY <2>1 DEF TypeOK
  <2>3. worker[w].copy \in Jobs
    BY <2>2 DEF WorkerStates
  <2>4. id \in 1..MaxJobs
    BY <2>3 DEF Jobs
  <2>5. QED  BY <2>1, <2>2, <2>3, <2>4
<1>2. slot \in WorkerStates /\ slot.pc = "record" /\ slot.copy = worker[w].copy
  BY <1>1 DEF WorkerStates
<1> HIDE DEF slot
<1>3. worker' \in [Workers -> WorkerStates] /\ worker'[w] = slot
      /\ \A v \in Workers \ {w} : worker'[v] = worker[v]
  BY <1>1, <1>2 DEF TypeOK
<1>4. CASE revision = worker[w].copy.revision
  <2>1. /\ revision < MaxRevision /\ revision' = revision + 1
        /\ stored' = [stored EXCEPT ![id] = stored[id] + 1]
    BY <1>4 DEF StoreDraft
  <2>2. stored[id] = 0
    BY <1>1, <1>4 DEF CopyFits, StoredOnce, TypeOK
  <2> HIDE DEF id
  <2>3. /\ stored' \in [1..MaxJobs -> 0..MaxRevision]
        /\ StoredOnce' /\ revision' \in 1..MaxRevision
    BY <1>1, <2>1, <2>2 DEF TypeOK, StoredOnce
  <2>4. TypeOK'
    BY <1>1, <1>3, <2>3 DEF TypeOK
  <2>5. id <= job.id
    BY <1>1 DEF CopyFits, id
  <2>6. JobFits'
    <3>1. \A j \in 1..MaxJobs : j > job.id => stored'[j] = 0
      <4>1. job.id \in Nat /\ id \in Nat /\ DOMAIN stored = 1..MaxJobs
        <5>1. job.id \in 1..MaxJobs
          BY <1>1 DEF Jobs
        <5>2. DOMAIN stored = 1..MaxJobs
          BY <1>1 DEF TypeOK
        <5>3. QED  BY <1>1, <5>1, <5>2
      <4>2. \A j \in 1..MaxJobs : j > job.id => j # id /\ stored[j] = 0
        BY <1>1, <2>5, <4>1 DEF JobFits
      <4>3. QED  BY <2>1, <4>1, <4>2
    <3>2. job.revision \in Nat /\ job.revision <= revision /\ revision' > job.revision
      BY <1>1, <2>1 DEF JobFits, Jobs
    <3>3. QED  BY <1>1, <3>1, <3>2, <2>1 DEF JobFits
  <2>7. ASSUME NEW v \in Workers PROVE CopyFits(worker[v])'
    <3>1. /\ worker'[v].copy = worker[v].copy /\ CopyFits(worker[v])
          /\ worker[v].copy.revision \in Nat
          /\ worker'[v].pc # "idle" => worker[v].pc # "idle"
      <4>1. CopyFits(worker[v]) /\ worker[v] \in WorkerStates
        BY DEF IInv, TypeOK
      <4>2. worker[v].copy.revision \in Nat
        BY <4>1 DEF WorkerStates, Jobs
      <4>3. CASE v = w
        BY <1>1, <1>2, <1>3, <4>1, <4>2, <4>3
      <4>4. CASE v # w
        BY <1>3, <4>1, <4>2, <4>4
      <4>5. QED  BY <4>3, <4>4
    <3>2. worker[v].copy.revision <= revision /\ revision' > worker[v].copy.revision
      BY <1>1, <2>1, <3>1 DEF CopyFits
    <3>3. QED  BY <1>1, <3>1, <3>2, <2>1 DEF CopyFits
  <2>8. QED  BY <2>3, <2>4, <2>6, <2>7 DEF IInv
<1>5. CASE revision # worker[w].copy.revision
  <2>1. UNCHANGED <<revision, stored>> /\ waits' \in 0..MaxWaits
    BY <1>1, <1>5 DEF StoreDraft, TypeOK
  <2>2. SameJob /\ JobFits'
    BY <1>1, <2>1, RowSteps
  <2> PICK s \in WorkerStates : s = slot
    BY <1>2
  <2>3. revision > worker[w].copy.revision
    BY <1>1, <1>5 DEF CopyFits, Jobs
  <2>4. CopyFits(s)'
    BY <1>1, <1>2, <2>1, <2>3 DEF CopyFits
  <2>5. QED  BY <1>1, <2>1, <2>2, <2>4, OneMoves, WorkerSteps
<1>6. QED  BY <1>4, <1>5

LEMMA RecordValidationIInv ==
  ASSUME IInv, NEW w \in Workers, RecordValidation(w)
  PROVE  IInv'
<1> DEFINE slot == [worker[w] EXCEPT !.pc = "finish"]
           done == Stages + 1
           row == [job EXCEPT !.done = done]
<1>1. /\ TypeOK /\ JobFits /\ job \in Jobs
      /\ worker[w] \in WorkerStates /\ CopyFits(worker[w]) /\ worker[w].pc = "record"
      /\ UNCHANGED <<revision, stored, waits>> /\ waits' \in 0..MaxWaits
      /\ worker' = [worker EXCEPT ![w] = slot]
  BY DEF IInv, TypeOK, RecordValidation
<1>2. slot \in WorkerStates /\ slot.pc = "finish" /\ slot.copy = worker[w].copy
  BY <1>1 DEF WorkerStates
<1> HIDE DEF slot
<1>3. done \in 0..(Stages + 1)
  OBVIOUS
<1> HIDE DEF done
<1>4. /\ row \in Jobs /\ row.id = job.id /\ row.kind = job.kind
      /\ row.revision = job.revision /\ row.status = job.status
      /\ row.attempts = job.attempts
  BY <1>1, <1>3 DEF Jobs
<1>5. SameJob /\ JobFits'
  <2>1. CASE worker[w].copy.kind = "test"
    BY <1>1, <2>1, RowSteps DEF RecordValidation
  <2>2. CASE worker[w].copy.kind # "test"
    <3>1. job' = Saved(w, row)
      BY <2>2 DEF RecordValidation, done
    <3> HIDE DEF row
    <3>2. Holds(w) => /\ row.status \in Live /\ row.attempts < MaxAttempts
                      /\ row.kind = "generate" => revision > row.revision
      BY <1>1, <1>4, HolderFits DEF CopyFits
    <3>3. QED  BY <1>1, <1>4, <3>1, <3>2, SavedSteps
  <2>3. QED  BY <2>1, <2>2
<1> PICK s \in WorkerStates : s = slot
  BY <1>2
<1>6. CopyFits(s)'
  BY <1>1, <1>2, <1>5 DEF CopyFits, SameJob
<1>7. QED  BY <1>1, <1>5, <1>6, OneMoves, WorkerSteps

LEMMA FinishJobIInv ==
  ASSUME IInv, NEW w \in Workers, FinishJob(w)
  PROVE  IInv'
<1> DEFINE row == Ended(job, "succeeded")
<1>1. /\ job \in Jobs /\ CopyFits(worker[w]) /\ UNCHANGED <<revision, stored, waits>>
      /\ waits' \in 0..MaxWaits /\ job' = Saved(w, row)
      /\ worker' = [worker EXCEPT ![w] = Idle(job')]
      /\ worker[w].pc = "finish" \/ worker[w].copy.done = Stages + 1
  BY DEF IInv, TypeOK, FinishJob, Done
<1>2. /\ row \in Jobs /\ row.id = job.id /\ row.kind = job.kind
      /\ row.revision = job.revision /\ row.status = "succeeded" /\ row.owner = Nobody
  BY <1>1, EndedType
<1> HIDE DEF row
<1>3. row.status \notin Live
  BY <1>2 DEF Live
<1>4. Holds(w) => (row.kind = "generate" => revision > row.revision)
  BY <1>1, <1>2, HolderFits DEF CopyFits
<1>5. SameJob /\ JobFits'
  BY <1>1, <1>2, <1>3, <1>4, SavedSteps
<1>6. QED  BY <1>1, <1>5, DoneSteps

-----------------------------------------------------------------------------
(* Steps of nobody *)

LEMMA LeaseEndsIInv ==
  ASSUME IInv, LeaseEnds
  PROVE  IInv'
<1>1. job \in Jobs /\ UNCHANGED <<revision, worker, stored, waits>>
  BY DEF IInv, TypeOK, LeaseEnds
<1>2. /\ SameJob /\ job'.status = job.status /\ job'.attempts = job.attempts
      /\ job'.owner = job.owner /\ job'.done = job.done
  BY <1>1 DEF LeaseEnds, SameJob, Jobs
<1>3. JobFits'
  BY <1>1, <1>2 DEF IInv, JobFits, SameJob
<1>4. TypeOK' /\ StoredOnce' /\ \A w \in Workers : CopyFits(worker[w])'
  BY <1>1, <1>2 DEF IInv, TypeOK, StoredOnce, CopyFits, SameJob
<1>5. QED  BY <1>3, <1>4 DEF IInv

LEMMA SaveSectionIInv ==
  ASSUME IInv, SaveSection
  PROVE  IInv'
<1>1. /\ revision' = revision + 1 /\ revision' \in 1..MaxRevision /\ revision \in Nat
      /\ UNCHANGED <<job, worker, stored, waits>>
      /\ job.revision \in Nat
  BY DEF IInv, TypeOK, SaveSection, Jobs
<1>2. TypeOK' /\ StoredOnce'
  BY <1>1 DEF IInv, TypeOK, StoredOnce
<1>3. JobFits'
  BY <1>1 DEF IInv, JobFits
<1>4. ASSUME NEW w \in Workers PROVE CopyFits(worker[w])'
  <2>1. worker[w].copy.revision \in Nat /\ CopyFits(worker[w])
    BY DEF IInv, TypeOK, WorkerStates, Jobs
  <2>2. QED  BY <1>1, <2>1 DEF CopyFits
<1>5. QED  BY <1>2, <1>3, <1>4 DEF IInv

LEMMA EnqueueJobIInv ==
  ASSUME IInv, EnqueueJob
  PROVE  IInv'
<1> PICK read \in 1..revision : job' = NewJob(job.id + 1, job.kind, read)
  BY DEF EnqueueJob
<1>1. /\ TypeOK /\ StoredOnce /\ JobFits /\ job \in Jobs /\ job.id \in 1..MaxJobs
      /\ job.id < MaxJobs /\ revision \in 1..MaxRevision
      /\ job.kind \in {"generate", "test"}
      /\ UNCHANGED <<revision, worker, stored, waits>>
  BY DEF IInv, TypeOK, EnqueueJob, Jobs
<1>2. job.id + 1 \in 1..MaxJobs
  BY <1>1
<1>3. /\ job' \in Jobs /\ job'.id = job.id + 1 /\ job'.kind = job.kind
      /\ job'.revision = read /\ job'.done = 0 /\ job'.attempts = 0
      /\ job'.status = "queued"
  BY <1>1, <1>2, NewJobType
<1>4. TypeOK' /\ StoredOnce'
  BY <1>1, <1>3 DEF TypeOK, StoredOnce
<1>5. JobFits'
  BY <1>1, <1>2, <1>3 DEF JobFits, Live
<1>6. ASSUME NEW w \in Workers PROVE CopyFits(worker[w])'
  <2>1. worker[w].copy.id \in Nat /\ CopyFits(worker[w])
    BY DEF IInv, TypeOK, WorkerStates, Jobs
  <2>2. QED  BY <1>1, <1>3, <2>1 DEF CopyFits
<1>7. QED  BY <1>4, <1>5, <1>6 DEF IInv

-----------------------------------------------------------------------------
LEMMA NextIInv ==
  ASSUME IInv, [Next]_vars
  PROVE  IInv'
<1>1. ASSUME NEW w \in Workers, Work(w) PROVE IInv'
  <2>1. CASE Fails(w)
    BY <2>1, FailedIInv DEF Fails, Busy
  <2>2. QED
    BY <1>1, <2>1, FinishStageIInv, OutOfTimeIInv, RateLimitedIInv, LoadDraftIInv,
       StoreDraftIInv, RecordValidationIInv, FinishJobIInv DEF Work
<1>2. ASSUME NEW w \in Workers, ReadJob(w) \/ Settle(w) \/ WorkerDies(w) PROVE IInv'
  BY <1>2, ReadJobIInv, GiveUpIInv, ClaimIInv, WorkerDiesIInv DEF Settle
<1>3. CASE UNCHANGED vars
  BY <1>3 DEF vars, IInv, TypeOK, StoredOnce, JobFits, CopyFits
<1>4. QED
  BY <1>1, <1>2, <1>3, LeaseEndsIInv, SaveSectionIInv, EnqueueJobIInv DEF Next

(* What a worker's copy of its job says stays true while it works.         *)
THEOREM JobsInvariant == Spec => []IInv
<1>1. Init => IInv
  BY InitIInv
<1>2. IInv /\ [Next]_vars => IInv'
  BY NextIInv
<1>3. QED  BY <1>1, <1>2, PTL DEF Spec

(* The row, its tries and the workers stay in their types: no try is       *)
(* counted beyond max_attempts (claim, fail).                              *)
THEOREM JobTypes == Spec => []TypeOK
<1>1. IInv => TypeOK
  BY DEF IInv
<1>2. QED  BY <1>1, JobsInvariant, PTL

(* A generation writes the draft once (the stage "assemble").              *)
THEOREM StoresHold == Spec => []StoredOnce
<1>1. IInv => StoredOnce
  BY DEF IInv
<1>2. QED  BY <1>1, JobsInvariant, PTL

(* A generation that succeeded left a newer draft (processJob).            *)
THEOREM SuccessHolds == Spec => []SucceededIsStored
<1>1. IInv => SucceededIsStored
  BY DEF IInv, JobFits, SucceededIsStored
<1>2. QED  BY <1>1, JobsInvariant, PTL

-----------------------------------------------------------------------------
(* What has ended *)

LEMMA NextKeepsEnded ==
  ASSUME IInv, [Next]_vars, job.status \notin Live
  PROVE  job'.id # job.id \/ job' = job
<1>1. job.owner = Nobody /\ job \in Jobs
  BY DEF IInv, JobFits, TypeOK
<1>2. ASSUME NEW w \in Workers, NEW row PROVE Saved(w, row) = job
  BY <1>1 DEF Saved
<1>3. ASSUME NEW w \in Workers, ReadJob(w) \/ Settle(w) \/ WorkerDies(w)
      PROVE job' = job
  BY <1>3 DEF ReadJob, Settle, GiveUp, Claim, Claimed, WorkerDies, Live
<1>4. ASSUME NEW w \in Workers, NEW retryable, Failed(w, retryable) PROVE job' = job
  BY <1>2, <1>4, Zenon DEF Failed, Later
<1>5. ASSUME NEW w \in Workers, Work(w) PROVE job' = job
  <2>1. CASE FinishStage(w)
    BY <1>2, <2>1 DEF FinishStage
  <2>2. CASE OutOfTime(w)
    BY <1>2, <2>2 DEF OutOfTime
  <2>3. CASE RateLimited(w)
    BY <1>2, <2>3, Zenon DEF RateLimited, Later
  <2>4. CASE Fails(w)
    BY <1>4, <2>4 DEF Fails
  <2>5. CASE LoadDraft(w)
    BY <1>4, <2>5 DEF LoadDraft
  <2>6. CASE StoreDraft(w)
    BY <2>6 DEF StoreDraft
  <2>7. CASE RecordValidation(w)
    BY <1>2, <2>7 DEF RecordValidation
  <2>8. CASE FinishJob(w)
    BY <1>2, <2>8 DEF FinishJob
  <2>9. QED  BY <1>5, <2>1, <2>2, <2>3, <2>4, <2>5, <2>6, <2>7, <2>8 DEF Work
<1>6. CASE EnqueueJob
  <2>1. PICK read \in 1..revision : job' = NewJob(job.id + 1, job.kind, read)
    BY <1>6 DEF EnqueueJob
  <2>2. job'.id = job.id + 1 /\ job.id \in Nat
    BY <1>1, <2>1 DEF NewJob, Jobs
  <2>3. QED  BY <2>2
<1>7. CASE LeaseEnds \/ SaveSection \/ UNCHANGED vars
  BY <1>7 DEF LeaseEnds, SaveSection, vars
<1>8. QED  BY <1>3, <1>5, <1>6, <1>7 DEF Next

(* A job that has ended stays as it ended, whoever still works for it      *)
(* (claim, save).                                                          *)
THEOREM EndedJobsHold == Spec => EndedJobsStay
<1>1. IInv /\ [Next]_vars =>
        [job.status \notin Live => job'.id # job.id \/ job' = job]_vars
  BY NextKeepsEnded
<1>2. QED  BY <1>1, JobsInvariant, PTL DEF Spec, EndedJobsStay
=============================================================================
