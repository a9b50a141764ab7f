------------------------ MODULE EvaluationQueueProofs ------------------------
(***************************************************************************)
(* Proofs about EvaluationQueue for any sets of runs, workers, operators   *)
(* and outcomes, and any budgets.                                          *)
(*                                                                         *)
(* What an actor read is older than the row it writes.  The strengthening  *)
(* IInv says how old reads still bound the row: tries only grow, so a read *)
(* whose status and tries still match is as good as fresh.                 *)
(***************************************************************************)
EXTENDS EvaluationQueue, TLAPS

(* What an operator read of a run was open to the action then. *)
DeskReads ==
  \A o \in Operators :
    desk[o] # NoDesk =>
      /\ desk[o].run \in Runs
      /\ desk[o].status \in {"queued", "blocked", "retryable_failure", "running"}
      /\ desk[o].kind = "requeue" => desk[o].status \in {"blocked", "retryable_failure"}

JobsNameRuns == \A w \in Workers : job[w] # NoJob => job[w].run \in Runs

(* Where a run waits, and which tries it has behind it. *)
RowsAreOrderly ==
  \A r \in Runs :
    /\ run[r].retry = "waiting" => run[r].status = "retryable_failure"
    /\ run[r].status = "running" => run[r].attempts > 0

IInv ==
  /\ TypeOK
  /\ LeaseOnlyWhileRunning
  /\ ResultsOnlyWhenFinished
  /\ FencedCopyIsCurrent
  /\ JobsNameRuns
  /\ RowsAreOrderly
  /\ ScanReads
  /\ DeskReads

-----------------------------------------------------------------------------
USE NoneIsNoValue, BudgetsAreOrdered

LEMMA InitTypeOK == Init => TypeOK
  BY DEF Init, TypeOK, Row, AbsentRow, Statuses, Finished, NotSeen, SnapshotOf, Snapshot,
         NoJob, Job, NoDesk, Desk, DeskKinds, NoEvent, Event, EventTypes

(* The row operators keep rows rows, and change the columns they name. *)
LEMMA UnleasedRow ==
  ASSUME NEW row \in Row, NEW status \in Statuses
  PROVE  LET new == Unleased(row, status) IN
         /\ new \in Row
         /\ new.status = status /\ new.owner = None /\ new.lease = "none" /\ new.retry = row.retry
         /\ new.attempts = row.attempts /\ new.budget = row.budget /\ new.results = row.results
<1>1. Unleased(row, status) \in Row
  BY DEF Unleased, Row
<1>2. QED  BY <1>1 DEF Unleased, Row

LEMMA LeasedRow ==
  ASSUME NEW row \in Row, NEW w \in Workers, NEW try \in 0..MaxBudget
  PROVE  LET new == Leased(row, w, try) IN
         /\ new \in Row
         /\ new.status = "running" /\ new.owner = w /\ new.lease = "live" /\ new.retry = row.retry
         /\ new.attempts = try /\ new.budget = row.budget /\ new.results = row.results
<1>1. "running" \in Statuses
  BY DEF Statuses
<1>2. Leased(row, w, try) \in Row
  BY <1>1 DEF Leased, Row
<1>3. QED  BY <1>2 DEF Leased, Row

LEMMA QueuedRow ==
  ASSUME NEW row \in Row, NEW budget \in 0..MaxBudget
  PROVE  LET new == Queued(row, budget) IN
         /\ new \in Row
         /\ new.status = "queued" /\ new.owner = row.owner /\ new.lease = row.lease /\ new.retry = "none"
         /\ new.attempts = row.attempts /\ new.budget = budget /\ new.results = row.results
<1>1. "queued" \in Statuses
  BY DEF Statuses
<1>2. Queued(row, budget) \in Row
  BY <1>1 DEF Queued, Row
<1>3. QED  BY <1>2 DEF Queued, Row

(* So do the updates of one column. *)
LEMMA StatusUpdate ==
  ASSUME NEW row \in Row, NEW v \in Statuses
  PROVE  LET new == [row EXCEPT !.status = v] IN
         /\ new \in Row
         /\ new.status = v /\ new.owner = row.owner /\ new.lease = row.lease /\ new.retry = row.retry
         /\ new.attempts = row.attempts /\ new.budget = row.budget /\ new.results = row.results
<1>1. [row EXCEPT !.status = v] \in Row
  BY DEF Row
<1>2. QED  BY <1>1 DEF Row

LEMMA LeaseUpdate ==
  ASSUME NEW row \in Row
  PROVE  LET new == [row EXCEPT !.lease = "lapsed"] IN
         /\ new \in Row
         /\ new.status = row.status /\ new.owner = row.owner /\ new.lease = "lapsed" /\ new.retry = row.retry
         /\ new.attempts = row.attempts /\ new.budget = row.budget /\ new.results = row.results
<1>1. [row EXCEPT !.lease = "lapsed"] \in Row
  BY DEF Row
<1>2. QED  BY <1>1 DEF Row

LEMMA RetryUpdate ==
  ASSUME NEW row \in Row, NEW v \in {"none", "waiting", "due"}
  PROVE  LET new == [row EXCEPT !.retry = v] IN
         /\ new \in Row
         /\ new.status = row.status /\ new.owner = row.owner /\ new.lease = row.lease /\ new.retry = v
         /\ new.attempts = row.attempts /\ new.budget = row.budget /\ new.results = row.results
<1>1. [row EXCEPT !.retry = v] \in Row
  BY DEF Row
<1>2. QED  BY <1>1 DEF Row

LEMMA ResultsUpdate ==
  ASSUME NEW row \in Row, NEW v \in Outcomes
  PROVE  LET new == [row EXCEPT !.results = v] IN
         /\ new \in Row
         /\ new.status = row.status /\ new.owner = row.owner /\ new.lease = row.lease /\ new.retry = row.retry
         /\ new.attempts = row.attempts /\ new.budget = row.budget /\ new.results = v
<1>1. [row EXCEPT !.results = v] \in Row
  BY DEF Row
<1>2. QED  BY <1>1 DEF Row

(* A snapshot of a row is a snapshot. *)
LEMMA SnapshotType == \A row \in Row : SnapshotOf(row) \in Snapshot
  BY DEF Row, Snapshot, SnapshotOf

LEMMA NotSeenType == NotSeen \in Snapshot
  BY DEF NotSeen, SnapshotOf, AbsentRow, Snapshot, Statuses, Finished

(* Row r is written and no other. *)
Writes(r, new) ==
  /\ new \in Row
  /\ run' = [run EXCEPT ![r] = new]

(* The row that each step which writes one leaves. *)
LEMMA EnqueueWrites ==
  ASSUME TypeOK, NEW r \in Runs, Enqueue(r)
  PROVE  LET new == Queued(run[r], FirstBudget) IN
         /\ Writes(r, new)
         /\ new.status = "queued" /\ new.owner = run[r].owner /\ new.lease = run[r].lease /\ new.retry = "none"
         /\ new.attempts = run[r].attempts /\ new.results = run[r].results
<1>1. run[r] \in Row /\ FirstBudget \in 0..MaxBudget
  BY DEF TypeOK
<1>2. QED  BY <1>1, QueuedRow DEF Enqueue, Writes

LEMMA LeaseLapsesWrites ==
  ASSUME TypeOK, NEW r \in Runs, LeaseLapses(r)
  PROVE  LET new == [run[r] EXCEPT !.lease = "lapsed"] IN
         /\ Writes(r, new)
         /\ new.status = run[r].status /\ new.owner = run[r].owner /\ new.lease = "lapsed" /\ new.retry = run[r].retry
         /\ new.attempts = run[r].attempts /\ new.budget = run[r].budget /\ new.results = run[r].results
<1>1. run[r] \in Row
  BY DEF TypeOK
<1>2. QED  BY <1>1, LeaseUpdate DEF LeaseLapses, Writes

LEMMA RetryFallsDueWrites ==
  ASSUME TypeOK, NEW r \in Runs, RetryFallsDue(r)
  PROVE  LET new == [run[r] EXCEPT !.retry = "due"] IN
         /\ Writes(r, new)
         /\ new.status = run[r].status /\ new.owner = run[r].owner /\ new.lease = run[r].lease /\ new.retry = "due"
         /\ new.attempts = run[r].attempts /\ new.budget = run[r].budget /\ new.results = run[r].results
<1>1. run[r] \in Row
  BY DEF TypeOK
<1>2. QED  BY <1>1, RetryUpdate DEF RetryFallsDue, Writes

LEMMA ReleaseWrites ==
  ASSUME TypeOK, NEW r \in Runs, Release(r)
  PROVE  LET new == [run[r] EXCEPT !.status = "ready"] IN
         /\ Writes(r, new)
         /\ new.status = "ready" /\ new.owner = run[r].owner /\ new.lease = run[r].lease /\ new.retry = run[r].retry
         /\ new.attempts = run[r].attempts /\ new.budget = run[r].budget /\ new.results = run[r].results
<1>1. run[r] \in Row /\ "ready" \in Statuses
  BY DEF TypeOK, Statuses, Finished
<1>2. QED  BY <1>1, StatusUpdate DEF Release, Writes

LEMMA ClaimWrites ==
  ASSUME TypeOK, NEW w \in Workers, NEW r \in Runs, Claim(w, r), Unmoved(r, seen[w][r])
  PROVE  LET new == Leased(run[r], w, run[r].attempts + 1) IN
         /\ Writes(r, new)
         /\ new.status = "running" /\ new.owner = w /\ new.lease = "live" /\ new.retry = run[r].retry
         /\ new.attempts = run[r].attempts + 1 /\ new.budget = run[r].budget /\ new.results = run[r].results
         /\ run[r].attempts + 1 \in 0..MaxBudget
         /\ job' = [job EXCEPT ![w] = [run |-> r, attempt |-> run[r].attempts + 1, budget |-> run[r].budget]]
         /\ seen' = [seen EXCEPT ![w] = [s \in Runs |-> NotSeen]]
<1>1. seen[w][r] \in Snapshot /\ run[r] \in Row
  BY DEF TypeOK
<1>2. seen[w][r].attempts = run[r].attempts
  BY DEF Unmoved
<1>3. run[r].attempts + 1 \in 0..MaxBudget
  BY <1>1, <1>2 DEF Snapshot, Claim, Exhausted
<1>4. /\ run' = [run EXCEPT ![r] = Leased(run[r], w, run[r].attempts + 1)]
      /\ job' = [job EXCEPT ![w] = [run |-> r, attempt |-> run[r].attempts + 1, budget |-> run[r].budget]]
      /\ seen' = [seen EXCEPT ![w] = [s \in Runs |-> NotSeen]]
  BY <1>2 DEF Claim, TypeOK
<1>5. QED  BY <1>1, <1>3, <1>4, LeasedRow DEF Writes

LEMMA ExhaustWrites ==
  ASSUME TypeOK, NEW w \in Workers, NEW r \in Runs, Exhaust(w, r), Unmoved(r, seen[w][r])
  PROVE  LET new == Unleased(run[r], "blocked") IN
         /\ Writes(r, new)
         /\ new.status = "blocked" /\ new.owner = None /\ new.lease = "none" /\ new.retry = run[r].retry
         /\ new.attempts = run[r].attempts /\ new.budget = run[r].budget /\ new.results = run[r].results
<1>1. run[r] \in Row /\ "blocked" \in Statuses
  BY DEF TypeOK, Statuses
<1>2. QED  BY <1>1, UnleasedRow DEF Exhaust, Writes

LEMMA FailWrites ==
  ASSUME TypeOK, NEW w \in Workers, NEW retryable \in BOOLEAN, Fail(w, retryable), Fenced(w), job[w].run \in Runs
  PROVE  LET r == job[w].run IN
         \E new \in Row :
           /\ Writes(r, new)
           /\ new.status \in {"blocked", "retryable_failure"}
           /\ new.retry = "waiting" => new.status = "retryable_failure"
           /\ new.owner = None /\ new.lease = "none"
           /\ new.attempts = run[r].attempts /\ new.budget = run[r].budget /\ new.results = run[r].results
<1> DEFINE r == job[w].run
<1>1. PICK status \in {"blocked", "retryable_failure"}, retry \in {"none", "waiting"} :
        /\ run' = [run EXCEPT ![r] = [Unleased(run[r], status) EXCEPT !.retry = retry]]
        /\ retry = "waiting" => status = "retryable_failure"
  <2>1. CASE ~retryable \/ job[w].attempt >= job[w].budget
    <3>1. run' = [run EXCEPT ![r] = [Unleased(run[r], "blocked") EXCEPT !.retry = "none"]]
      BY <2>1 DEF Fail, TypeOK
    <3>2. QED  BY <3>1
  <2>2. CASE ~(~retryable \/ job[w].attempt >= job[w].budget)
    <3>1. run' = [run EXCEPT ![r] = [Unleased(run[r], "retryable_failure") EXCEPT !.retry = "waiting"]]
      BY <2>2 DEF Fail, TypeOK
    <3>2. QED  BY <3>1
  <2>3. QED  BY <2>1, <2>2
<1>2. run[r] \in Row /\ status \in Statuses
  BY DEF TypeOK, Statuses
<1> DEFINE mid == Unleased(run[r], status)
<1>3. /\ mid \in Row
      /\ mid.status = status /\ mid.owner = None /\ mid.lease = "none"
      /\ mid.attempts = run[r].attempts /\ mid.budget = run[r].budget /\ mid.results = run[r].results
  BY <1>2, UnleasedRow
<1> DEFINE new == [mid EXCEPT !.retry = retry]
<1>4. /\ new \in Row
      /\ new.status = status /\ new.owner = None /\ new.lease = "none" /\ new.retry = retry
      /\ new.attempts = run[r].attempts /\ new.budget = run[r].budget /\ new.results = run[r].results
  <2> HIDE DEF mid
  <2>1. retry \in {"none", "waiting", "due"}
    OBVIOUS
  <2>2. QED  BY <1>3, <2>1, RetryUpdate
<1>5. run' = [run EXCEPT ![r] = new]
  BY <1>1
<1> HIDE DEF new
<1>6. QED  BY <1>1, <1>4, <1>5 DEF Writes

LEMMA CompleteWrites ==
  ASSUME TypeOK, NEW w \in Workers, NEW outcome \in Outcomes, Complete(w, outcome), run' # run, job[w].run \in Runs
  PROVE  LET r == job[w].run IN
         \E new \in Row :
           /\ Writes(r, new)
           /\ Fenced(w)
           /\ new.status = "human_review" /\ new.owner = None /\ new.lease = "none" /\ new.retry = run[r].retry
           /\ new.attempts = run[r].attempts /\ new.budget = run[r].budget /\ new.results = outcome
<1> DEFINE r == job[w].run
           mid == Unleased(run[r], "human_review")
           new == [mid EXCEPT !.results = outcome]
<1>1. Fenced(w) /\ run' = [run EXCEPT ![r] = new]
  BY DEF Complete
<1>2. run[r] \in Row /\ "human_review" \in Statuses
  BY DEF TypeOK, Statuses, Finished
<1>3. /\ mid \in Row
      /\ mid.status = "human_review" /\ mid.owner = None /\ mid.lease = "none" /\ mid.retry = run[r].retry
      /\ mid.attempts = run[r].attempts /\ mid.budget = run[r].budget
  BY <1>2, UnleasedRow
<1>4. /\ new \in Row
      /\ new.status = "human_review" /\ new.owner = None /\ new.lease = "none" /\ new.retry = run[r].retry
      /\ new.attempts = run[r].attempts /\ new.budget = run[r].budget /\ new.results = outcome
  <2> HIDE DEF mid
  <2>1. QED  BY <1>3, ResultsUpdate
<1> HIDE DEF new
<1>5. QED  BY <1>1, <1>4 DEF Writes

LEMMA FreshBudgetType ==
  ASSUME TypeOK, NEW o \in Operators
  PROVE  FreshBudget(desk[o].attempts) \in 0..MaxBudget
<1>1. desk[o].attempts \in 0..MaxBudget
  BY DEF TypeOK, Desk
<1>2. QED  BY <1>1 DEF FreshBudget

LEMMA RequeueWrites ==
  ASSUME TypeOK, NEW o \in Operators, Requeue(o), run' # run, desk[o].run \in Runs
  PROVE  LET r == desk[o].run IN
         \E new \in Row :
           /\ Writes(r, new)
           /\ desk[o].kind = "requeue" /\ desk[o] # NoDesk /\ run[r].status = desk[o].status
           /\ new.status = "queued" /\ new.owner = run[r].owner /\ new.lease = run[r].lease /\ new.retry = "none"
           /\ new.attempts = run[r].attempts /\ new.results = run[r].results
<1> DEFINE r == desk[o].run
           new == Queued(run[r], FreshBudget(desk[o].attempts))
<1>1. /\ desk[o].kind = "requeue" /\ desk[o] # NoDesk /\ run[r].status = desk[o].status
      /\ run' = [run EXCEPT ![r] = new]
  BY DEF Requeue
<1>2. run[r] \in Row
  BY DEF TypeOK
<1>3. /\ new \in Row
      /\ new.status = "queued" /\ new.owner = run[r].owner /\ new.lease = run[r].lease /\ new.retry = "none"
      /\ new.attempts = run[r].attempts /\ new.results = run[r].results
  BY <1>2, FreshBudgetType, QueuedRow
<1> HIDE DEF new
<1>4. QED  BY <1>1, <1>3 DEF Writes

LEMMA OpsRequeueWrites ==
  ASSUME TypeOK, NEW o \in Operators, OpsRequeue(o), run' # run, desk[o].run \in Runs
  PROVE  LET r == desk[o].run IN
         \E new \in Row :
           /\ Writes(r, new)
           /\ desk[o] # NoDesk /\ DeskMatches(o)
           /\ new.status = "queued" /\ new.owner = None /\ new.lease = "none" /\ new.retry = "none"
           /\ new.attempts = run[r].attempts /\ new.results = run[r].results
<1> DEFINE r == desk[o].run
           mid == Unleased(run[r], "queued")
           new == Queued(mid, FreshBudget(desk[o].attempts))
<1>1. desk[o] # NoDesk /\ DeskMatches(o) /\ run' = [run EXCEPT ![r] = new]
  BY DEF OpsRequeue
<1>2. run[r] \in Row /\ "queued" \in Statuses
  BY DEF TypeOK, Statuses
<1>3. /\ mid \in Row /\ mid.owner = None /\ mid.lease = "none"
      /\ mid.attempts = run[r].attempts /\ mid.results = run[r].results
  BY <1>2, UnleasedRow
<1>4. /\ new \in Row
      /\ new.status = "queued" /\ new.owner = None /\ new.lease = "none" /\ new.retry = "none"
      /\ new.attempts = run[r].attempts /\ new.results = run[r].results
  <2> HIDE DEF mid
  <2>1. QED  BY <1>3, FreshBudgetType, QueuedRow
<1> HIDE DEF new
<1>5. QED  BY <1>1, <1>4 DEF Writes

LEMMA OpsCancelWrites ==
  ASSUME TypeOK, NEW o \in Operators, OpsCancel(o), run' # run, desk[o].run \in Runs
  PROVE  LET r == desk[o].run IN
         \E new \in Row :
           /\ Writes(r, new)
           /\ desk[o] # NoDesk /\ DeskMatches(o)
           /\ new.status = "canceled" /\ new.owner = None /\ new.lease = "none" /\ new.retry = "none"
           /\ new.attempts = run[r].attempts /\ new.results = run[r].results
<1> DEFINE r == desk[o].run
           mid == Unleased(run[r], "canceled")
           new == [mid EXCEPT !.retry = "none"]
<1>1. desk[o] # NoDesk /\ DeskMatches(o) /\ run' = [run EXCEPT ![r] = new]
  BY DEF OpsCancel
<1>2. run[r] \in Row /\ "canceled" \in Statuses
  BY DEF TypeOK, Statuses
<1>3. /\ mid \in Row /\ mid.status = "canceled" /\ mid.owner = None /\ mid.lease = "none"
      /\ mid.attempts = run[r].attempts /\ mid.results = run[r].results
  BY <1>2, UnleasedRow
<1>4. /\ new \in Row
      /\ new.status = "canceled" /\ new.owner = None /\ new.lease = "none" /\ new.retry = "none"
      /\ new.attempts = run[r].attempts /\ new.results = run[r].results
  <2> HIDE DEF mid
  <2>1. QED  BY <1>3, RetryUpdate
<1> HIDE DEF new
<1>5. QED  BY <1>1, <1>4 DEF Writes

-----------------------------------------------------------------------------
(* Every step keeps the rows rows. *)
LEMMA RowsStayRows ==
  ASSUME TypeOK, [Next]_vars
  PROVE  run' \in [Runs -> Row]
<1>0. /\ run \in [Runs -> Row]
      /\ \A r, new : Writes(r, new) => run' \in [Runs -> Row]
  BY DEF TypeOK, Writes
<1>1. ASSUME NEW r \in Runs, Enqueue(r) \/ LeaseLapses(r) \/ RetryFallsDue(r) \/ Release(r)
      PROVE  run' \in [Runs -> Row]
  BY <1>0, <1>1, EnqueueWrites, LeaseLapsesWrites, RetryFallsDueWrites, ReleaseWrites
<1>2. ASSUME NEW w \in Workers, NEW r \in Runs, Claim(w, r)
      PROVE  run' \in [Runs -> Row]
  <2>1. CASE Unmoved(r, seen[w][r])
    BY <1>0, <1>2, <2>1, ClaimWrites
  <2>2. CASE ~Unmoved(r, seen[w][r])
    BY <1>0, <1>2, <2>2 DEF Claim
  <2>3. QED  BY <2>1, <2>2
<1>3. ASSUME NEW w \in Workers, NEW r \in Runs, Exhaust(w, r)
      PROVE  run' \in [Runs -> Row]
  <2>1. CASE Unmoved(r, seen[w][r])
    BY <1>0, <1>3, <2>1, ExhaustWrites
  <2>2. CASE ~Unmoved(r, seen[w][r])
    BY <1>0, <1>3, <2>2 DEF Exhaust
  <2>3. QED  BY <2>1, <2>2
<1>4. ASSUME NEW w \in Workers, NEW retryable \in BOOLEAN, Fail(w, retryable)
      PROVE  run' \in [Runs -> Row]
  <2>1. CASE Fenced(w) /\ job[w].run \in Runs
    BY <1>0, <1>4, <2>1, FailWrites
  <2>2. CASE ~Fenced(w) \/ job[w].run \notin Runs
    BY <1>0, <1>4, <2>2 DEF Fail
  <2>3. QED  BY <2>1, <2>2
<1>5. ASSUME NEW w \in Workers, NEW outcome \in Outcomes, Complete(w, outcome)
      PROVE  run' \in [Runs -> Row]
  <2>1. CASE run' # run /\ job[w].run \in Runs
    BY <1>0, <1>5, <2>1, CompleteWrites
  <2>2. CASE run' = run \/ job[w].run \notin Runs
    BY <1>0, <1>5, <2>2 DEF Complete
  <2>3. QED  BY <2>1, <2>2
<1>6. ASSUME NEW o \in Operators, Requeue(o) \/ OpsRequeue(o) \/ OpsCancel(o)
      PROVE  run' \in [Runs -> Row]
  <2>1. CASE run' # run /\ desk[o].run \in Runs
    BY <1>0, <1>6, <2>1, RequeueWrites, OpsRequeueWrites, OpsCancelWrites
  <2>2. CASE run' = run \/ desk[o].run \notin Runs
    BY <1>0, <1>6, <2>2 DEF Requeue, OpsRequeue, OpsCancel
  <2>3. QED  BY <2>1, <2>2
<1>7. CASE UNCHANGED run
  BY <1>0, <1>7
<1>8. QED
  BY <1>1, <1>2, <1>3, <1>4, <1>5, <1>6, <1>7
     DEF Next, DatabaseStep, WorkerStep, TryCandidate, EndJob, OperatorStep,
         Scan, Crash, RecordEvent, OperatorGone, OperatorReads, vars

(* Every step keeps every variable in its type. *)
LEMMA NextTypeOK == TypeOK /\ [Next]_vars => TypeOK'
<1> SUFFICES ASSUME TypeOK, [Next]_vars
             PROVE  TypeOK'
  OBVIOUS
<1> USE DEF TypeOK
<1>0. run' \in [Runs -> Row]
  BY RowsStayRows
<1>1. ASSUME NEW r \in Runs, Enqueue(r) \/ LeaseLapses(r) \/ RetryFallsDue(r) \/ Release(r)
      PROVE  TypeOK'
  BY <1>0, <1>1 DEF Enqueue, LeaseLapses, RetryFallsDue, Release
<1>2. ASSUME NEW w \in Workers, Scan(w)
      PROVE  TypeOK'
  BY <1>2, SnapshotType, NotSeenType DEF Scan
<1>3. ASSUME NEW w \in Workers, NEW r \in Runs, Claim(w, r)
      PROVE  TypeOK'
  <2>1. run[r] \in Row /\ seen[w][r] \in Snapshot /\ w \in Actors
    BY DEF Actors
  <2>2. CASE Unmoved(r, seen[w][r])
    <3>1. job' \in [Workers -> Job]
      <4>1. run[r].budget \in 0..MaxBudget
        BY <2>1 DEF Row
      <4>2. /\ run[r].attempts + 1 \in 0..MaxBudget
            /\ job' = [job EXCEPT ![w] = [run |-> r, attempt |-> run[r].attempts + 1, budget |-> run[r].budget]]
        BY <1>3, <2>2, ClaimWrites
      <4>3. [run |-> r, attempt |-> run[r].attempts + 1, budget |-> run[r].budget] \in Job
        BY <4>1, <4>2 DEF Job
      <4>4. QED  BY <4>2, <4>3
    <3>2. seen' \in [Workers -> [Runs -> Snapshot]]
      BY <1>3, <2>2, NotSeenType DEF Claim
    <3>3. pending' \in [Actors -> Event]
      BY <1>3, <2>1, <2>2 DEF Claim, Event, EventTypes, NoEvent
    <3>4. QED  BY <1>0, <1>3, <3>1, <3>2, <3>3 DEF Claim
  <2>3. CASE ~Unmoved(r, seen[w][r])
    <3>1. seen' = [seen EXCEPT ![w][r] = NotSeen] /\ UNCHANGED <<run, job, desk, pending, history>>
      BY <1>3, <2>3 DEF Claim
    <3>2. QED  BY <3>1, NotSeenType
  <2>4. QED  BY <2>2, <2>3
<1>4. ASSUME NEW w \in Workers, NEW r \in Runs, Exhaust(w, r)
      PROVE  TypeOK'
  <2>1. seen' \in [Workers -> [Runs -> Snapshot]]
    BY <1>4, NotSeenType DEF Exhaust
  <2>2. pending' \in [Actors -> Event]
    BY <1>4 DEF Exhaust, Event, EventTypes, Actors
  <2>3. QED  BY <1>0, <1>4, <2>1, <2>2 DEF Exhaust
<1>5. ASSUME NEW w \in Workers, NEW retryable \in BOOLEAN, Fail(w, retryable)
      PROVE  TypeOK'
  <2>1. job' \in [Workers -> Job] /\ UNCHANGED <<seen, desk, history>>
    BY <1>5 DEF Fail, NoJob, Job
  <2>2. job[w].run \in Runs \cup {None} /\ w \in Actors
    BY DEF Actors, Job
  <2>3. pending' = pending \/ \E type \in EventTypes : pending' = [pending EXCEPT ![w] = [run |-> job[w].run, type |-> type]]
    BY <1>5 DEF Fail, EventTypes
  <2>4. pending' \in [Actors -> Event]
    BY <2>2, <2>3 DEF Event
  <2>5. QED  BY <1>0, <2>1, <2>4
<1>6. ASSUME NEW w \in Workers, NEW outcome \in Outcomes, Complete(w, outcome)
      PROVE  TypeOK'
  <2>1. job' \in [Workers -> Job] /\ UNCHANGED <<seen, desk, history>>
    BY <1>6 DEF Complete, NoJob, Job
  <2>2. job[w].run \in Runs \cup {None} /\ w \in Actors
    BY DEF Actors, Job
  <2>3. pending' = pending \/ \E type \in EventTypes : pending' = [pending EXCEPT ![w] = [run |-> job[w].run, type |-> type]]
    BY <1>6 DEF Complete, EventTypes
  <2>4. pending' \in [Actors -> Event]
    BY <2>2, <2>3 DEF Event
  <2>5. QED  BY <1>0, <2>1, <2>4
<1>7. ASSUME NEW w \in Workers, Crash(w)
      PROVE  TypeOK'
  BY <1>7, NotSeenType DEF Crash, Actors, NoJob, Job, NoEvent, Event, EventTypes
<1>8. ASSUME NEW a \in Actors, RecordEvent(a)
      PROVE  TypeOK'
  BY <1>8 DEF RecordEvent, NoEvent, Event, EventTypes
<1>9. ASSUME NEW o \in Operators, OperatorGone(o)
      PROVE  TypeOK'
  BY <1>9 DEF OperatorGone, Actors, NoEvent, Event, EventTypes, NoDesk, Desk, DeskKinds, Statuses, Finished
<1>10. ASSUME NEW o \in Operators, NEW kind \in DeskKinds, NEW r \in Runs, OperatorReads(o, kind, r)
       PROVE  TypeOK'
  <2>1. run[r].status \in Statuses /\ run[r].attempts \in 0..MaxBudget
    BY DEF Row
  <2>2. desk' \in [Operators -> Desk]
    BY <1>10, <2>1 DEF OperatorReads, Desk
  <2>3. QED  BY <1>10, <2>2 DEF OperatorReads
<1>11. ASSUME NEW o \in Operators, Requeue(o) \/ OpsRequeue(o) \/ OpsCancel(o)
       PROVE  TypeOK'
  <2>1. desk' \in [Operators -> Desk] /\ UNCHANGED <<seen, job, history>>
    BY <1>11 DEF Requeue, OpsRequeue, OpsCancel, NoDesk, Desk, DeskKinds, Statuses, Finished
  <2>2. desk[o].run \in Runs \cup {None} /\ o \in Actors
    BY DEF Actors, Desk
  <2>3. pending' = pending \/ \E type \in EventTypes : pending' = [pending EXCEPT ![o] = [run |-> desk[o].run, type |-> type]]
    BY <1>11 DEF Requeue, OpsRequeue, OpsCancel, EventTypes
  <2>4. pending' \in [Actors -> Event]
    BY <2>2, <2>3 DEF Event
  <2>5. QED  BY <1>0, <2>1, <2>4
<1>12. CASE UNCHANGED vars
  BY <1>12 DEF vars
<1>13. QED
  BY <1>1, <1>2, <1>3, <1>4, <1>5, <1>6, <1>7, <1>8, <1>9, <1>10, <1>11, <1>12
     DEF Next, DatabaseStep, WorkerStep, TryCandidate, EndJob, OperatorStep, Actors

(* Every variable stays in its type; in particular no run is ever executed  *)
(* more than MaxBudget times, whatever stale requeues do to its budget.     *)
THEOREM TypeCorrect == Spec => []TypeOK
  BY InitTypeOK, NextTypeOK, PTL DEF Spec

-----------------------------------------------------------------------------
LEMMA InitIInv == Init => IInv
<1> SUFFICES ASSUME Init PROVE IInv
  OBVIOUS
<1>1. TypeOK
  BY InitTypeOK
<1>2. \A r \in Runs : run[r] = AbsentRow
  BY DEF Init
<1>3. LeaseOnlyWhileRunning /\ ResultsOnlyWhenFinished /\ RowsAreOrderly
  BY <1>2 DEF LeaseOnlyWhileRunning, ResultsOnlyWhenFinished, RowsAreOrderly, AbsentRow, Finished
<1>4. FencedCopyIsCurrent /\ JobsNameRuns /\ ScanReads /\ DeskReads
  BY DEF Init, FencedCopyIsCurrent, JobsNameRuns, ScanReads, DeskReads
<1>5. QED  BY <1>1, <1>3, <1>4 DEF IInv

(* A row that is written keeps the row parts of the invariant, and keeps    *)
(* every old read a bound of it, when the step respects these conditions.   *)
RowStep(r, new) ==
  /\ new.status = "running" <=> new.owner # None
  /\ new.status = "running" <=> new.lease # "none"
  /\ new.results # None <=> new.status \in Finished
  /\ new.retry = "waiting" => new.status = "retryable_failure"
  /\ new.status = "running" => new.attempts > 0
  /\ new.attempts >= run[r].attempts

LEMMA RowInvariants ==
  ASSUME IInv, NEW r \in Runs, NEW new \in Row, Writes(r, new), RowStep(r, new)
  PROVE  (LeaseOnlyWhileRunning /\ ResultsOnlyWhenFinished /\ RowsAreOrderly)'
<1>1. /\ run' \in [Runs -> Row] /\ run'[r] = new
      /\ \A s \in Runs : s # r => run'[s] = run[s]
  BY DEF Writes, IInv, TypeOK
<1>2. QED
  BY <1>1 DEF RowStep, IInv, LeaseOnlyWhileRunning, ResultsOnlyWhenFinished, RowsAreOrderly

(* Old reads survive a written row: either it begins a new try, or it takes *)
(* up no lease and starts no wait that an old read could mistake for what   *)
(* it saw.                                                                  *)
ReadStep(r, new) ==
  \/ new.attempts > run[r].attempts
  \/ /\ new.attempts = run[r].attempts
     /\ new.status = "running" => run[r].status = "running" /\ new.lease # "live"
     /\ new.retry = "waiting" => run[r].status = "running"

(* What a step may do to the scans: drop reads, never invent one. *)
OnlyForgets == \A w \in Workers, r \in Runs : seen'[w][r] \in {seen[w][r], NotSeen}

LEMMA ScansSurvive ==
  ASSUME IInv, NEW r \in Runs, NEW new \in Row, Writes(r, new), RowStep(r, new), ReadStep(r, new), OnlyForgets
  PROVE  ScanReads'
<1> SUFFICES ASSUME NEW v \in Workers, NEW s \in Runs, seen'[v][s] # NotSeen
             PROVE  LET read == seen[v][s] IN
                    /\ read.status \in {"queued", "retryable_failure", "running"}
                    /\ read.attempts <= run'[s].attempts
                    /\ read.status = "running" => read.attempts > 0
                    /\ read.status = "retryable_failure" /\ read.attempts = run'[s].attempts => run'[s].status # "running"
                    /\ run'[s].status = read.status /\ run'[s].attempts = read.attempts
                         => run'[s].lease # "live" /\ run'[s].retry # "waiting"
  BY DEF OnlyForgets, ScanReads, Unmoved
<1> DEFINE read == seen[v][s]
<1>1. /\ run' \in [Runs -> Row] /\ run'[r] = new
      /\ s # r => run'[s] = run[s]
      /\ run[s].attempts \in 0..MaxBudget /\ new.attempts \in 0..MaxBudget /\ read.attempts \in 0..MaxBudget
  BY DEF Writes, IInv, TypeOK, Row, Snapshot
<1>2. /\ read.status \in {"queued", "retryable_failure", "running"}
      /\ read.attempts <= run[s].attempts
      /\ read.status = "running" => read.attempts > 0
      /\ read.status = "retryable_failure" /\ read.attempts = run[s].attempts => run[s].status # "running"
      /\ run[s].status = read.status /\ run[s].attempts = read.attempts
           => run[s].lease # "live" /\ run[s].retry # "waiting"
  BY DEF IInv, ScanReads, OnlyForgets, Unmoved
<1>3. CASE s # r
  BY <1>1, <1>2, <1>3
<1>4. CASE s = r
  <2>1. CASE new.attempts > run[r].attempts
    BY <1>1, <1>2, <1>4, <2>1
  <2>2. CASE new.attempts = run[r].attempts
    <3>1. /\ new.status = "running" => run[r].status = "running" /\ new.lease # "live"
          /\ new.retry = "waiting" => run[r].status = "running" /\ new.status = "retryable_failure"
          /\ new.status # "running" => new.lease = "none"
      BY <2>2, <1>1, <1>4 DEF ReadStep, RowStep
    <3>2. QED  BY <1>1, <1>2, <1>4, <2>2, <3>1
  <2>3. QED  BY <1>1, <1>4, <2>1, <2>2 DEF ReadStep
<1>5. QED  BY <1>3, <1>4

(* What a step other than a claim may do to the fence: nothing, or end it. *)
FenceStep(r, new) ==
  new.status = "running" =>
    /\ run[r].status = "running" /\ new.owner = run[r].owner
    /\ new.attempts = run[r].attempts /\ new.budget = run[r].budget

LEMMA FenceSurvives ==
  ASSUME IInv, NEW r \in Runs, NEW new \in Row, Writes(r, new), FenceStep(r, new),
         \A w \in Workers : job'[w] \in {job[w], NoJob}
  PROVE  FencedCopyIsCurrent'
<1> SUFFICES ASSUME NEW w \in Workers, job'[w] # NoJob, Fenced(w)'
             PROVE  /\ job'[w].attempt = run'[job'[w].run].attempts
                    /\ job'[w].budget = run'[job'[w].run].budget
  BY DEF FencedCopyIsCurrent
<1>1. job'[w] = job[w] /\ job[w] # NoJob /\ job[w].run \in Runs
  BY DEF IInv, JobsNameRuns
<1>2. /\ run'[job[w].run].owner = w /\ run'[job[w].run].status = "running"
      /\ run'[r] = new
      /\ \A s \in Runs : s # r => run'[s] = run[s]
  BY <1>1 DEF Fenced, Writes, IInv, TypeOK
<1>3. Fenced(w)
  BY <1>1, <1>2 DEF Fenced, FenceStep
<1>4. job[w].attempt = run[job[w].run].attempts /\ job[w].budget = run[job[w].run].budget
  BY <1>1, <1>3 DEF IInv, FencedCopyIsCurrent
<1>5. QED  BY <1>1, <1>2, <1>4 DEF FenceStep

(* The steps that write no row. *)
LEMMA QuietStep ==
  ASSUME IInv, UNCHANGED run, OnlyForgets, \A w \in Workers : job'[w] \in {job[w], NoJob}
  PROVE  (LeaseOnlyWhileRunning /\ ResultsOnlyWhenFinished /\ FencedCopyIsCurrent /\ RowsAreOrderly /\ ScanReads)'
<1>1. (LeaseOnlyWhileRunning /\ ResultsOnlyWhenFinished /\ RowsAreOrderly)'
  BY DEF IInv, LeaseOnlyWhileRunning, ResultsOnlyWhenFinished, RowsAreOrderly
<1>2. FencedCopyIsCurrent'
  BY DEF IInv, FencedCopyIsCurrent, Fenced
<1>3. ScanReads'
  BY DEF IInv, ScanReads, OnlyForgets, Unmoved
<1>4. QED  BY <1>1, <1>2, <1>3

RowParts == LeaseOnlyWhileRunning /\ ResultsOnlyWhenFinished /\ FencedCopyIsCurrent /\ RowsAreOrderly /\ ScanReads

(* The steps, other than a claim, that write a row. *)
LEMMA WriteStep ==
  ASSUME IInv, NEW r \in Runs, NEW new \in Row, Writes(r, new),
         RowStep(r, new), ReadStep(r, new), FenceStep(r, new),
         OnlyForgets, \A w \in Workers : job'[w] \in {job[w], NoJob}
  PROVE  RowParts'
  BY RowInvariants, ScansSurvive, FenceSurvives DEF RowParts

(* What the invariant says of one row, in the vocabulary of the steps. *)
LEMMA RowFacts ==
  ASSUME IInv, NEW r \in Runs
  PROVE  /\ run[r] \in Row /\ run[r].attempts \in 0..MaxBudget
         /\ run[r].status = "running" <=> run[r].owner # None
         /\ run[r].status = "running" <=> run[r].lease # "none"
         /\ run[r].results # None <=> run[r].status \in Finished
         /\ run[r].retry = "waiting" => run[r].status = "retryable_failure"
         /\ run[r].status = "running" => run[r].attempts > 0
  BY DEF IInv, TypeOK, Row, LeaseOnlyWhileRunning, ResultsOnlyWhenFinished, RowsAreOrderly

LEMMA DatabaseStepKeeps ==
  ASSUME IInv, NEW r \in Runs, Enqueue(r) \/ LeaseLapses(r) \/ RetryFallsDue(r) \/ Release(r)
  PROVE  RowParts'
<1>0. TypeOK /\ None \notin Workers
  BY NoneIsNoValue DEF IInv
<1>1. OnlyForgets /\ \A w \in Workers : job'[w] \in {job[w], NoJob}
  BY DEF OnlyForgets, Enqueue, LeaseLapses, RetryFallsDue, Release
<1>2. CASE Enqueue(r)
  <2> DEFINE new == Queued(run[r], FirstBudget)
  <2>1. /\ Writes(r, new) /\ run[r].status = "absent"
        /\ new.status = "queued" /\ new.owner = run[r].owner /\ new.lease = run[r].lease /\ new.retry = "none"
        /\ new.attempts = run[r].attempts /\ new.results = run[r].results
    BY <1>0, <1>2, EnqueueWrites DEF Enqueue
  <2> HIDE DEF new
  <2>2. RowStep(r, new) /\ ReadStep(r, new) /\ FenceStep(r, new)
    BY <2>1, RowFacts DEF RowStep, ReadStep, FenceStep, Finished
  <2>3. QED  BY <1>1, <2>1, <2>2, WriteStep DEF Writes
<1>3. CASE LeaseLapses(r)
  <2> DEFINE new == [run[r] EXCEPT !.lease = "lapsed"]
  <2>1. /\ Writes(r, new) /\ run[r].lease = "live"
        /\ new.status = run[r].status /\ new.owner = run[r].owner /\ new.lease = "lapsed" /\ new.retry = run[r].retry
        /\ new.attempts = run[r].attempts /\ new.budget = run[r].budget /\ new.results = run[r].results
    BY <1>0, <1>3, LeaseLapsesWrites DEF LeaseLapses
  <2> HIDE DEF new
  <2>2. RowStep(r, new) /\ ReadStep(r, new) /\ FenceStep(r, new)
    BY <2>1, RowFacts DEF RowStep, ReadStep, FenceStep, Finished
  <2>3. QED  BY <1>1, <2>1, <2>2, WriteStep DEF Writes
<1>4. CASE RetryFallsDue(r)
  <2> DEFINE new == [run[r] EXCEPT !.retry = "due"]
  <2>1. /\ Writes(r, new) /\ run[r].retry = "waiting"
        /\ new.status = run[r].status /\ new.owner = run[r].owner /\ new.lease = run[r].lease /\ new.retry = "due"
        /\ new.attempts = run[r].attempts /\ new.budget = run[r].budget /\ new.results = run[r].results
    BY <1>0, <1>4, RetryFallsDueWrites DEF RetryFallsDue
  <2> HIDE DEF new
  <2>2. RowStep(r, new) /\ ReadStep(r, new) /\ FenceStep(r, new)
    BY <2>1, RowFacts DEF RowStep, ReadStep, FenceStep, Finished
  <2>3. QED  BY <1>1, <2>1, <2>2, WriteStep DEF Writes
<1>5. CASE Release(r)
  <2> DEFINE new == [run[r] EXCEPT !.status = "ready"]
  <2>1. /\ Writes(r, new) /\ run[r].status = "human_review"
        /\ new.status = "ready" /\ new.owner = run[r].owner /\ new.lease = run[r].lease /\ new.retry = run[r].retry
        /\ new.attempts = run[r].attempts /\ new.budget = run[r].budget /\ new.results = run[r].results
    BY <1>0, <1>5, ReleaseWrites DEF Release
  <2> HIDE DEF new
  <2>2. RowStep(r, new) /\ ReadStep(r, new) /\ FenceStep(r, new)
    BY <2>1, RowFacts DEF RowStep, ReadStep, FenceStep, Finished
  <2>3. QED  BY <1>1, <2>1, <2>2, WriteStep DEF Writes
<1>6. QED  BY <1>2, <1>3, <1>4, <1>5

LEMMA ScanKeeps ==
  ASSUME IInv, NEW w \in Workers, Scan(w)
  PROVE  RowParts'
<1>1. (LeaseOnlyWhileRunning /\ ResultsOnlyWhenFinished /\ RowsAreOrderly /\ FencedCopyIsCurrent)'
  BY DEF Scan, IInv, LeaseOnlyWhileRunning, ResultsOnlyWhenFinished, RowsAreOrderly, FencedCopyIsCurrent, Fenced
<1>2. ScanReads'
  <2> SUFFICES ASSUME NEW v \in Workers, NEW r \in Runs, seen'[v][r] # NotSeen
               PROVE  LET read == seen'[v][r] IN
                      /\ read.status \in {"queued", "retryable_failure", "running"}
                      /\ read.attempts <= run[r].attempts
                      /\ read.status = "running" => read.attempts > 0
                      /\ read.status = "retryable_failure" /\ read.attempts = run[r].attempts => run[r].status # "running"
                      /\ run[r].status = read.status /\ run[r].attempts = read.attempts
                           => run[r].lease # "live" /\ run[r].retry # "waiting"
    BY DEF Scan, ScanReads, Unmoved
  <2>1. CASE v # w
    <3>1. seen'[v][r] = seen[v][r]
      BY <2>1 DEF Scan, IInv, TypeOK
    <3>2. QED  BY <3>1 DEF IInv, ScanReads, Unmoved
  <2>2. CASE v = w
    <3>1. Runnable(r) /\ seen'[v][r] = SnapshotOf(run[r])
      BY <2>2 DEF Scan, IInv, TypeOK
    <3>2. seen'[v][r].status = run[r].status /\ seen'[v][r].attempts = run[r].attempts
      BY <3>1 DEF SnapshotOf
    <3>3. QED  BY <3>1, <3>2, RowFacts DEF Runnable
  <2>3. QED  BY <2>1, <2>2
<1>3. QED  BY <1>1, <1>2 DEF RowParts

LEMMA ClaimKeeps ==
  ASSUME IInv, NEW w \in Workers, NEW r \in Runs, Claim(w, r)
  PROVE  RowParts'
<1>0. TypeOK
  BY DEF IInv
<1>1. CASE Unmoved(r, seen[w][r])
  <2> DEFINE new == Leased(run[r], w, run[r].attempts + 1)
  <2>1. /\ Writes(r, new)
        /\ new.status = "running" /\ new.owner = w /\ new.lease = "live" /\ new.retry = run[r].retry
        /\ new.attempts = run[r].attempts + 1 /\ new.budget = run[r].budget /\ new.results = run[r].results
        /\ job' = [job EXCEPT ![w] = [run |-> r, attempt |-> run[r].attempts + 1, budget |-> run[r].budget]]
        /\ seen' = [seen EXCEPT ![w] = [s \in Runs |-> NotSeen]]
    BY <1>0, <1>1, ClaimWrites
  <2> HIDE DEF new
  <2>2. seen[w][r] # NotSeen
    BY DEF Claim, Candidates
  <2>3. run[r].status \in {"queued", "retryable_failure", "running"} /\ run[r].retry # "waiting"
    BY <1>1, <2>2 DEF IInv, ScanReads, Unmoved
  <2>4. RowStep(r, new) /\ ReadStep(r, new)
    BY <2>1, <2>3, RowFacts, NoneIsNoValue DEF RowStep, ReadStep, Finished
  <2>5. OnlyForgets
    BY <1>0, <2>1 DEF OnlyForgets, TypeOK
  <2>6. (LeaseOnlyWhileRunning /\ ResultsOnlyWhenFinished /\ RowsAreOrderly /\ ScanReads)'
    BY <2>1, <2>4, <2>5, RowInvariants, ScansSurvive DEF Writes
  <2>7. FencedCopyIsCurrent'
    <3> SUFFICES ASSUME NEW v \in Workers, job'[v] # NoJob, Fenced(v)'
                 PROVE  /\ job'[v].attempt = run'[job'[v].run].attempts
                        /\ job'[v].budget = run'[job'[v].run].budget
      BY DEF FencedCopyIsCurrent
    <3>1. run'[r] = new /\ \A s \in Runs : s # r => run'[s] = run[s]
      BY <1>0, <2>1 DEF Writes, TypeOK
    <3>2. CASE v = w
      BY <1>0, <2>1, <3>1, <3>2 DEF TypeOK
    <3>3. CASE v # w
      <4>1. job'[v] = job[v] /\ job[v].run \in Runs
        BY <1>0, <2>1, <3>3 DEF TypeOK, IInv, JobsNameRuns
      <4>2. job[v].run # r
        BY <2>1, <3>1, <3>3, <4>1 DEF Fenced
      <4>3. QED  BY <3>1, <4>1, <4>2 DEF IInv, FencedCopyIsCurrent, Fenced
    <3>4. QED  BY <3>2, <3>3
  <2>8. QED  BY <2>6, <2>7 DEF RowParts
<1>2. CASE ~Unmoved(r, seen[w][r])
  <2>1. seen' = [seen EXCEPT ![w][r] = NotSeen] /\ UNCHANGED <<run, job>>
    BY <1>2 DEF Claim
  <2>2. OnlyForgets
    BY <1>0, <2>1 DEF OnlyForgets, TypeOK
  <2>3. QED  BY <2>1, <2>2, QuietStep DEF RowParts
<1>3. QED  BY <1>1, <1>2

LEMMA ExhaustKeeps ==
  ASSUME IInv, NEW w \in Workers, NEW r \in Runs, Exhaust(w, r)
  PROVE  RowParts'
<1>0. TypeOK
  BY DEF IInv
<1>1. OnlyForgets /\ \A v \in Workers : job'[v] \in {job[v], NoJob}
  BY <1>0 DEF Exhaust, OnlyForgets, TypeOK
<1>2. CASE Unmoved(r, seen[w][r])
  <2> DEFINE new == Unleased(run[r], "blocked")
  <2>1. /\ Writes(r, new)
        /\ new.status = "blocked" /\ new.owner = None /\ new.lease = "none" /\ new.retry = run[r].retry
        /\ new.attempts = run[r].attempts /\ new.budget = run[r].budget /\ new.results = run[r].results
    BY <1>0, <1>2, ExhaustWrites
  <2> HIDE DEF new
  <2>2. run[r].status \in {"queued", "retryable_failure", "running"} /\ run[r].retry # "waiting"
    BY <1>2 DEF IInv, ScanReads, Unmoved, Exhaust, Candidates
  <2>3. RowStep(r, new) /\ ReadStep(r, new) /\ FenceStep(r, new)
    BY <2>1, <2>2, RowFacts DEF RowStep, ReadStep, FenceStep, Finished
  <2>4. QED  BY <1>1, <2>1, <2>3, WriteStep DEF Writes
<1>3. CASE ~Unmoved(r, seen[w][r])
  BY <1>1, <1>3, QuietStep DEF Exhaust, RowParts
<1>4. QED  BY <1>2, <1>3

LEMMA FailKeeps ==
  ASSUME IInv, NEW w \in Workers, NEW retryable \in BOOLEAN, Fail(w, retryable)
  PROVE  RowParts'
<1>0. TypeOK
  BY DEF IInv
<1>1. OnlyForgets /\ \A v \in Workers : job'[v] \in {job[v], NoJob}
  BY <1>0 DEF Fail, OnlyForgets, TypeOK
<1> DEFINE r == job[w].run
<1>2. r \in Runs
  BY DEF IInv, JobsNameRuns, Fail, Working
<1>3. CASE Fenced(w)
  <2>1. PICK new \in Row :
          /\ Writes(r, new)
          /\ new.status \in {"blocked", "retryable_failure"}
          /\ new.retry = "waiting" => new.status = "retryable_failure"
          /\ new.owner = None /\ new.lease = "none"
          /\ new.attempts = run[r].attempts /\ new.budget = run[r].budget /\ new.results = run[r].results
    BY <1>0, <1>2, <1>3, FailWrites
  <2>2. run[r].status = "running"
    BY <1>3 DEF Fenced
  <2>3. RowStep(r, new) /\ ReadStep(r, new) /\ FenceStep(r, new)
    BY <1>2, <2>1, <2>2, RowFacts DEF RowStep, ReadStep, FenceStep, Finished
  <2>4. QED  BY <1>1, <1>2, <2>1, <2>3, WriteStep
<1>4. CASE ~Fenced(w)
  BY <1>1, <1>4, QuietStep DEF RowParts, Fail
<1>5. QED  BY <1>3, <1>4

LEMMA CompleteKeeps ==
  ASSUME IInv, NEW w \in Workers, NEW outcome \in Outcomes, Complete(w, outcome)
  PROVE  RowParts'
<1>0. TypeOK
  BY DEF IInv
<1>1. OnlyForgets /\ \A v \in Workers : job'[v] \in {job[v], NoJob}
  BY <1>0 DEF Complete, OnlyForgets, TypeOK
<1> DEFINE r == job[w].run
<1>2. r \in Runs
  BY DEF IInv, JobsNameRuns, Complete, Working
<1>3. CASE run' # run
  <2>1. PICK new \in Row :
          /\ Writes(r, new)
          /\ Fenced(w)
          /\ new.status = "human_review" /\ new.owner = None /\ new.lease = "none" /\ new.retry = run[r].retry
          /\ new.attempts = run[r].attempts /\ new.budget = run[r].budget /\ new.results = outcome
    BY <1>0, <1>2, <1>3, CompleteWrites
  <2>2. run[r].status = "running" /\ outcome # None
    BY <2>1, NoneIsNoValue DEF Fenced
  <2>3. RowStep(r, new) /\ ReadStep(r, new) /\ FenceStep(r, new)
    BY <1>2, <2>1, <2>2, RowFacts DEF RowStep, ReadStep, FenceStep, Finished
  <2>4. QED  BY <1>1, <1>2, <2>1, <2>3, WriteStep
<1>4. CASE run' = run
  BY <1>1, <1>4, QuietStep DEF RowParts
<1>5. QED  BY <1>3, <1>4

LEMMA DeskStepKeeps ==
  ASSUME IInv, NEW o \in Operators, Requeue(o) \/ OpsRequeue(o) \/ OpsCancel(o)
  PROVE  RowParts'
<1>0. TypeOK
  BY DEF IInv
<1>1. OnlyForgets /\ \A v \in Workers : job'[v] \in {job[v], NoJob}
  BY <1>0 DEF Requeue, OpsRequeue, OpsCancel, OnlyForgets, TypeOK
<1> DEFINE r == desk[o].run
<1>2. /\ r \in Runs
      /\ desk[o].status \in {"queued", "blocked", "retryable_failure", "running"}
      /\ desk[o].kind = "requeue" => desk[o].status \in {"blocked", "retryable_failure"}
  BY DEF IInv, DeskReads, Requeue, OpsRequeue, OpsCancel
<1>3. CASE Requeue(o) /\ run' # run
  <2>1. PICK new \in Row :
          /\ Writes(r, new)
          /\ desk[o].kind = "requeue" /\ desk[o] # NoDesk /\ run[r].status = desk[o].status
          /\ new.status = "queued" /\ new.owner = run[r].owner /\ new.lease = run[r].lease /\ new.retry = "none"
          /\ new.attempts = run[r].attempts /\ new.results = run[r].results
    BY <1>0, <1>2, <1>3, RequeueWrites
  <2>2. RowStep(r, new) /\ ReadStep(r, new) /\ FenceStep(r, new)
    BY <1>2, <2>1, RowFacts DEF RowStep, ReadStep, FenceStep, Finished
  <2>3. QED  BY <1>1, <1>2, <2>1, <2>2, WriteStep
<1>4. CASE OpsRequeue(o) /\ run' # run
  <2>1. PICK new \in Row :
          /\ Writes(r, new)
          /\ desk[o] # NoDesk /\ DeskMatches(o)
          /\ new.status = "queued" /\ new.owner = None /\ new.lease = "none" /\ new.retry = "none"
          /\ new.attempts = run[r].attempts /\ new.results = run[r].results
    BY <1>0, <1>2, <1>4, OpsRequeueWrites
  <2>2. run[r].status = desk[o].status
    BY <2>1 DEF DeskMatches, Unmoved
  <2>3. RowStep(r, new) /\ ReadStep(r, new) /\ FenceStep(r, new)
    BY <1>2, <2>1, <2>2, RowFacts DEF RowStep, ReadStep, FenceStep, Finished
  <2>4. QED  BY <1>1, <1>2, <2>1, <2>3, WriteStep
<1>5. CASE OpsCancel(o) /\ run' # run
  <2>1. PICK new \in Row :
          /\ Writes(r, new)
          /\ desk[o] # NoDesk /\ DeskMatches(o)
          /\ new.status = "canceled" /\ new.owner = None /\ new.lease = "none" /\ new.retry = "none"
          /\ new.attempts = run[r].attempts /\ new.results = run[r].results
    BY <1>0, <1>2, <1>5, OpsCancelWrites
  <2>2. run[r].status = desk[o].status
    BY <2>1 DEF DeskMatches, Unmoved
  <2>3. RowStep(r, new) /\ ReadStep(r, new) /\ FenceStep(r, new)
    BY <1>2, <2>1, <2>2, RowFacts DEF RowStep, ReadStep, FenceStep, Finished
  <2>4. QED  BY <1>1, <1>2, <2>1, <2>3, WriteStep
<1>6. CASE run' = run
  BY <1>1, <1>6, QuietStep DEF RowParts
<1>7. QED
  BY <1>3, <1>4, <1>5, <1>6

LEMMA RestKeeps ==
  ASSUME IInv, NEW a \in Actors,
         \/ a \in Workers /\ Crash(a)
         \/ a \in Operators /\ OperatorGone(a)
         \/ RecordEvent(a)
         \/ a \in Operators /\ \E kind \in DeskKinds, r \in Runs : OperatorReads(a, kind, r)
  PROVE  RowParts'
<1>1. UNCHANGED run /\ OnlyForgets /\ \A v \in Workers : job'[v] \in {job[v], NoJob}
  BY DEF IInv, TypeOK, OnlyForgets, Crash, OperatorGone, RecordEvent, OperatorReads
<1>2. QED  BY <1>1, QuietStep DEF RowParts

LEMMA NextRowParts == IInv /\ [Next]_vars => RowParts'
<1> SUFFICES ASSUME IInv, [Next]_vars PROVE RowParts'
  OBVIOUS
<1>1. CASE DatabaseStep
  BY <1>1, DatabaseStepKeeps DEF DatabaseStep
<1>2. ASSUME NEW w \in Workers, WorkerStep(w) PROVE RowParts'
  <2>1. CASE TryCandidate(w)
    BY <2>1, ClaimKeeps, ExhaustKeeps DEF TryCandidate
  <2>2. CASE EndJob(w)
    BY <2>2, FailKeeps, CompleteKeeps DEF EndJob
  <2>3. CASE RecordEvent(w) \/ Crash(w)
    BY <2>3, RestKeeps DEF Actors
  <2>4. QED  BY <1>2, <2>1, <2>2, <2>3, ScanKeeps DEF WorkerStep
<1>3. ASSUME NEW o \in Operators, OperatorStep(o) PROVE RowParts'
  BY <1>3, DeskStepKeeps, RestKeeps DEF OperatorStep, Actors
<1>4. CASE UNCHANGED vars
  <2>1. UNCHANGED run /\ OnlyForgets /\ \A v \in Workers : job'[v] \in {job[v], NoJob}
    BY <1>4 DEF vars, OnlyForgets
  <2>2. QED  BY <2>1, QuietStep DEF RowParts
<1>5. QED  BY <1>1, <1>2, <1>3, <1>4 DEF Next

(* A desk is filled by a read and emptied by the write or the loss of the   *)
(* request; a job is filled by a claim.                                     *)
LEMMA NextDeskReads == IInv /\ [Next]_vars => DeskReads'
<1> SUFFICES ASSUME IInv, [Next]_vars, NEW o \in Operators, desk'[o] # NoDesk
             PROVE  /\ desk'[o].run \in Runs
                    /\ desk'[o].status \in {"queued", "blocked", "retryable_failure", "running"}
                    /\ desk'[o].kind = "requeue" => desk'[o].status \in {"blocked", "retryable_failure"}
  BY DEF DeskReads
<1>0. desk \in [Operators -> Desk]
  BY DEF IInv, TypeOK
<1>1. CASE desk'[o] = desk[o]
  BY <1>1 DEF IInv, DeskReads
<1>2. ASSUME NEW p \in Operators, NEW kind \in DeskKinds, NEW r \in Runs, OperatorReads(p, kind, r), p = o
      PROVE  /\ desk'[o].run \in Runs
             /\ desk'[o].status \in {"queued", "blocked", "retryable_failure", "running"}
             /\ desk'[o].kind = "requeue" => desk'[o].status \in {"blocked", "retryable_failure"}
  <2>1. /\ DeskAllows(kind, run[r])
        /\ desk'[o] = [run |-> r, kind |-> kind, status |-> run[r].status, attempts |-> run[r].attempts]
    BY <1>0, <1>2 DEF OperatorReads
  <2>2. kind = "requeue" \/ kind = "ops_requeue" \/ kind = "ops_cancel"
    BY DEF DeskKinds
  <2>3. /\ run[r].status \in {"queued", "blocked", "retryable_failure", "running"}
        /\ kind = "requeue" => run[r].status \in {"blocked", "retryable_failure"}
    BY <2>1, <2>2 DEF DeskAllows
  <2>4. QED  BY <2>1, <2>3
<1>3. \/ desk'[o] \in {desk[o], NoDesk}
      \/ \E p \in Operators, kind \in DeskKinds, r \in Runs : OperatorReads(p, kind, r) /\ p = o
  BY <1>0 DEF Next, DatabaseStep, WorkerStep, TryCandidate, EndJob, OperatorStep, vars,
         Enqueue, LeaseLapses, RetryFallsDue, Release, Scan, Claim, Exhaust, Fail, Complete, Crash,
         OperatorReads, Requeue, OpsRequeue, OpsCancel, RecordEvent, OperatorGone
<1>4. QED  BY <1>1, <1>2, <1>3

LEMMA NextJobsNameRuns == IInv /\ [Next]_vars => JobsNameRuns'
<1> SUFFICES ASSUME IInv, [Next]_vars, NEW w \in Workers, job'[w] # NoJob
             PROVE  job'[w].run \in Runs
  BY DEF JobsNameRuns
<1>0. job \in [Workers -> Job]
  BY DEF IInv, TypeOK
<1>1. CASE job'[w] = job[w]
  BY <1>1 DEF IInv, JobsNameRuns
<1>2. ASSUME NEW v \in Workers, NEW r \in Runs, Claim(v, r)
      PROVE  job'[w] = job[w] \/ job'[w].run = r
  BY <1>0, <1>2 DEF Claim
<1>3. \/ job'[w] \in {job[w], NoJob}
      \/ \E v \in Workers, r \in Runs : Claim(v, r)
  BY <1>0 DEF Next, DatabaseStep, WorkerStep, TryCandidate, EndJob, OperatorStep, vars,
         Enqueue, LeaseLapses, RetryFallsDue, Release, Scan, Exhaust, Fail, Complete, Crash,
         OperatorReads, Requeue, OpsRequeue, OpsCancel, RecordEvent, OperatorGone
<1>4. QED  BY <1>1, <1>2, <1>3

LEMMA NextIInv == IInv /\ [Next]_vars => IInv'
  BY NextTypeOK, NextRowParts, NextDeskReads, NextJobsNameRuns DEF IInv, RowParts

THEOREM Inductive == Spec => []IInv
  BY InitIInv, NextIInv, PTL DEF Spec

(* No lease outlives its execution, and no execution goes without one.      *)
THEOREM LeasesEnd == Spec => []LeaseOnlyWhileRunning
<1>1. IInv => LeaseOnlyWhileRunning
  BY DEF IInv
<1>2. QED  BY Inductive, <1>1, PTL

(* Results are on record exactly for the runs handed to review.             *)
THEOREM ResultsAreReviewed == Spec => []ResultsOnlyWhenFinished
<1>1. IInv => ResultsOnlyWhenFinished
  BY DEF IInv
<1>2. QED  BY Inductive, <1>1, PTL

(* A worker the fence lets through decides from the row as it is now.       *)
THEOREM FenceIsSufficient == Spec => []FencedCopyIsCurrent
<1>1. IInv => FencedCopyIsCurrent
  BY DEF IInv
<1>2. QED  BY Inductive, <1>1, PTL

-----------------------------------------------------------------------------
(* Refinement: what one written row is to the lifecycle. *)
Phase == [r \in Runs |-> PhaseOf(run[r].status)]
Tries == [r \in Runs |-> run[r].attempts]
Result == [r \in Runs |-> run[r].results]

LEMMA InitRefines == Init => Lifecycle!Init
  BY DEF Init, Lifecycle!Init, AbsentRow, PhaseOf

LEMMA MappedWrite ==
  ASSUME TypeOK, NEW r \in Runs, NEW new \in Row, Writes(r, new)
  PROVE  /\ Phase' = [Phase EXCEPT ![r] = PhaseOf(new.status)]
         /\ Tries' = [Tries EXCEPT ![r] = new.attempts]
         /\ Result' = [Result EXCEPT ![r] = new.results]
<1>1. run'[r] = new /\ \A s \in Runs : s # r => run'[s] = run[s]
  BY DEF Writes, TypeOK
<1>2. QED  BY <1>1 DEF Phase, Tries, Result

LEMMA MappedRow ==
  ASSUME NEW r \in Runs
  PROVE  /\ Phase[r] = PhaseOf(run[r].status) /\ Tries[r] = run[r].attempts /\ Result[r] = run[r].results
         /\ [Phase EXCEPT ![r] = Phase[r]] = Phase
         /\ [Tries EXCEPT ![r] = Tries[r]] = Tries
         /\ [Result EXCEPT ![r] = Result[r]] = Result
  BY DEF Phase, Tries, Result

(* A written row that follows one of the lifecycle's moves. *)
Follows(r, new) ==
  LET from == PhaseOf(run[r].status)
      to == PhaseOf(new.status)
      same == new.attempts = run[r].attempts /\ new.results = run[r].results
  IN
  \/ to = from /\ same
  \/ from = "absent" /\ to = "waiting" /\ same
  \/ /\ from \in {"waiting", "running"} /\ to = "running" /\ run[r].attempts < MaxBudget
     /\ new.attempts = run[r].attempts + 1 /\ new.results = run[r].results
  \/ from \in {"running", "blocked"} /\ to = "waiting" /\ same
  \/ from \in {"waiting", "running"} /\ to = "blocked" /\ same
  \/ from \in {"waiting", "running", "blocked"} /\ to = "canceled" /\ same
  \/ from = "human_review" /\ to = "ready" /\ same
  \/ /\ from = "running" /\ to = "human_review"
     /\ new.attempts = run[r].attempts /\ new.results \in Outcomes

LifecycleStep == [Lifecycle!Next]_(Lifecycle!vars)

LEMMA FollowedWrite ==
  ASSUME TypeOK, NEW r \in Runs, NEW new \in Row, Writes(r, new), Follows(r, new)
  PROVE  LifecycleStep
<1> DEFINE from == PhaseOf(run[r].status)
           to == PhaseOf(new.status)
<1>1. /\ Phase' = [Phase EXCEPT ![r] = to]
      /\ Tries' = [Tries EXCEPT ![r] = new.attempts]
      /\ Result' = [Result EXCEPT ![r] = new.results]
  BY MappedWrite
<1>2. /\ Phase[r] = from /\ Tries[r] = run[r].attempts /\ Result[r] = run[r].results
      /\ [Phase EXCEPT ![r] = Phase[r]] = Phase
      /\ [Tries EXCEPT ![r] = Tries[r]] = Tries
      /\ [Result EXCEPT ![r] = Result[r]] = Result
  BY MappedRow
<1>3. Lifecycle!Step(r) => LifecycleStep
  BY DEF LifecycleStep, Lifecycle!Next
<1>4. Phase' = Phase /\ Tries' = Tries /\ Result' = Result => LifecycleStep
  BY DEF LifecycleStep, Lifecycle!vars, Phase, Tries, Result
<1> DEFINE same == new.attempts = run[r].attempts /\ new.results = run[r].results
<1>5. same => Tries' = Tries /\ Result' = Result
  BY <1>1, <1>2
<1> HIDE DEF from, to
<1>6. CASE to = from /\ same
  BY <1>1, <1>2, <1>4, <1>5, <1>6
<1>7. CASE from = "absent" /\ to = "waiting" /\ same
  <2>1. Lifecycle!Submit(r)
    BY <1>1, <1>2, <1>5, <1>7 DEF Lifecycle!Submit, Lifecycle!Move, Phase, Tries, Result
  <2>2. QED  BY <1>3, <2>1 DEF Lifecycle!Step
<1>8. CASE /\ from \in {"waiting", "running"} /\ to = "running" /\ run[r].attempts < MaxBudget
           /\ new.attempts = run[r].attempts + 1 /\ new.results = run[r].results
  <2>1. Lifecycle!Start(r)
    BY <1>1, <1>2, <1>8 DEF Lifecycle!Start, Lifecycle!Move, Phase, Tries, Result
  <2>2. QED  BY <1>3, <2>1 DEF Lifecycle!Step
<1>9. CASE from \in {"running", "blocked"} /\ to = "waiting" /\ same
  <2>1. Lifecycle!GiveBack(r) \/ Lifecycle!Requeue(r)
    BY <1>1, <1>2, <1>5, <1>9 DEF Lifecycle!GiveBack, Lifecycle!Requeue, Lifecycle!Move, Phase, Tries, Result
  <2>2. QED  BY <1>3, <2>1 DEF Lifecycle!Step
<1>10. CASE from \in {"waiting", "running"} /\ to = "blocked" /\ same
  <2>1. Lifecycle!Block(r)
    BY <1>1, <1>2, <1>5, <1>10 DEF Lifecycle!Block, Lifecycle!Move, Phase, Tries, Result
  <2>2. QED  BY <1>3, <2>1 DEF Lifecycle!Step
<1>11. CASE from \in {"waiting", "running", "blocked"} /\ to = "canceled" /\ same
  <2>1. Lifecycle!Cancel(r)
    BY <1>1, <1>2, <1>5, <1>11 DEF Lifecycle!Cancel, Lifecycle!Move, Phase, Tries, Result
  <2>2. QED  BY <1>3, <2>1 DEF Lifecycle!Step
<1>12. CASE from = "human_review" /\ to = "ready" /\ same
  <2>1. Lifecycle!Release(r)
    BY <1>1, <1>2, <1>5, <1>12 DEF Lifecycle!Release, Lifecycle!Move, Phase, Tries, Result
  <2>2. QED  BY <1>3, <2>1 DEF Lifecycle!Step
<1>13. CASE /\ from = "running" /\ to = "human_review"
            /\ new.attempts = run[r].attempts /\ new.results \in Outcomes
  <2>1. Lifecycle!Review(r, new.results)
    BY <1>1, <1>2, <1>13 DEF Lifecycle!Review, Lifecycle!Move, Phase, Tries, Result
  <2>2. QED  BY <1>3, <1>13, <2>1 DEF Lifecycle!Step
<1>14. QED
  BY <1>6, <1>7, <1>8, <1>9, <1>10, <1>11, <1>12, <1>13 DEF Follows, from, to

LEMMA NextRefines == IInv /\ [Next]_vars => LifecycleStep
<1> SUFFICES ASSUME IInv, [Next]_vars PROVE LifecycleStep
  OBVIOUS
<1>0. TypeOK
  BY DEF IInv
<1>1. CASE UNCHANGED run
  BY <1>1 DEF LifecycleStep, Lifecycle!vars
<1>2. ASSUME NEW r \in Runs, Enqueue(r) \/ LeaseLapses(r) \/ RetryFallsDue(r) \/ Release(r)
      PROVE  LifecycleStep
  <2>1. PICK new \in Row :
          /\ Writes(r, new)
          /\ new.attempts = run[r].attempts /\ new.results = run[r].results
          /\ \/ new.status = run[r].status
             \/ run[r].status = "absent" /\ new.status = "queued"
             \/ run[r].status = "human_review" /\ new.status = "ready"
    <3>1. CASE Enqueue(r)
      BY <1>0, <3>1, EnqueueWrites DEF Writes, Enqueue
    <3>2. CASE LeaseLapses(r)
      BY <1>0, <3>2, LeaseLapsesWrites DEF Writes
    <3>3. CASE RetryFallsDue(r)
      BY <1>0, <3>3, RetryFallsDueWrites DEF Writes
    <3>4. CASE Release(r)
      BY <1>0, <3>4, ReleaseWrites DEF Writes, Release
    <3>5. QED  BY <1>2, <3>1, <3>2, <3>3, <3>4
  <2>2. QED  BY <1>0, <2>1, FollowedWrite DEF Follows, PhaseOf
<1>3. ASSUME NEW w \in Workers, NEW r \in Runs, Claim(w, r), run' # run
      PROVE  LifecycleStep
  <2>1. Unmoved(r, seen[w][r]) /\ seen[w][r] # NotSeen
    BY <1>3 DEF Claim, Candidates
  <2>2. run[r].status \in {"queued", "retryable_failure", "running"}
    BY <2>1 DEF IInv, ScanReads, Unmoved
  <2>3. PICK new \in Row :
          /\ Writes(r, new) /\ new.status = "running"
          /\ new.attempts = run[r].attempts + 1 /\ new.results = run[r].results
          /\ run[r].attempts + 1 \in 0..MaxBudget
    BY <1>0, <1>3, <2>1, ClaimWrites DEF Writes
  <2>4. run[r].attempts < MaxBudget
    BY <2>3, RowFacts
  <2>5. QED  BY <1>0, <2>2, <2>3, <2>4, FollowedWrite DEF Follows, PhaseOf
<1>4. ASSUME NEW w \in Workers, NEW r \in Runs, Exhaust(w, r), run' # run
      PROVE  LifecycleStep
  <2>1. Unmoved(r, seen[w][r]) /\ seen[w][r] # NotSeen
    BY <1>4 DEF Exhaust, Candidates
  <2>2. run[r].status \in {"queued", "retryable_failure", "running"}
    BY <2>1 DEF IInv, ScanReads, Unmoved
  <2>3. PICK new \in Row :
          /\ Writes(r, new) /\ new.status = "blocked"
          /\ new.attempts = run[r].attempts /\ new.results = run[r].results
    BY <1>0, <1>4, <2>1, ExhaustWrites DEF Writes
  <2>4. QED  BY <1>0, <2>2, <2>3, FollowedWrite DEF Follows, PhaseOf
<1>5. ASSUME NEW w \in Workers, NEW retryable \in BOOLEAN, Fail(w, retryable), run' # run
      PROVE  LifecycleStep
  <2> DEFINE r == job[w].run
  <2>1. Fenced(w) /\ r \in Runs /\ run[r].status = "running"
    BY <1>5 DEF Fail, Fenced, IInv, JobsNameRuns, Working
  <2>2. PICK new \in Row :
          /\ Writes(r, new) /\ new.status \in {"blocked", "retryable_failure"}
          /\ new.attempts = run[r].attempts /\ new.results = run[r].results
    BY <1>0, <1>5, <2>1, FailWrites
  <2>3. QED  BY <1>0, <2>1, <2>2, FollowedWrite DEF Follows, PhaseOf
<1>6. ASSUME NEW w \in Workers, NEW outcome \in Outcomes, Complete(w, outcome), run' # run
      PROVE  LifecycleStep
  <2> DEFINE r == job[w].run
  <2>1. r \in Runs
    BY <1>6 DEF Complete, IInv, JobsNameRuns, Working
  <2>2. PICK new \in Row :
          /\ Writes(r, new) /\ Fenced(w) /\ new.status = "human_review"
          /\ new.attempts = run[r].attempts /\ new.results = outcome
    BY <1>0, <1>6, <2>1, CompleteWrites
  <2>3. run[r].status = "running"
    BY <2>2 DEF Fenced
  <2>4. QED  BY <1>0, <2>1, <2>2, <2>3, FollowedWrite DEF Follows, PhaseOf
<1>7. ASSUME NEW o \in Operators, Requeue(o) \/ OpsRequeue(o) \/ OpsCancel(o), run' # run
      PROVE  LifecycleStep
  <2> DEFINE r == desk[o].run
  <2>1. r \in Runs /\ desk[o].status \in {"queued", "blocked", "retryable_failure", "running"}
    BY <1>7 DEF Requeue, OpsRequeue, OpsCancel, IInv, DeskReads
  <2>2. run[r].status = desk[o].status
    BY <1>7 DEF Requeue, OpsRequeue, OpsCancel, DeskMatches, Unmoved
  <2>3. PICK new \in Row :
          /\ Writes(r, new) /\ new.status \in {"queued", "canceled"}
          /\ new.attempts = run[r].attempts /\ new.results = run[r].results
    BY <1>0, <1>7, <2>1, RequeueWrites, OpsRequeueWrites, OpsCancelWrites
  <2>4. QED  BY <1>0, <2>1, <2>2, <2>3, FollowedWrite DEF Follows, PhaseOf
<1>8. QED
  BY <1>1, <1>2, <1>3, <1>4, <1>5, <1>6, <1>7
     DEF Next, DatabaseStep, WorkerStep, TryCandidate, EndJob, OperatorStep, vars,
         Scan, Crash, RecordEvent, OperatorReads, OperatorGone

(* The queue implements the lifecycle of EvaluationLifecycle, for any       *)
(* number of workers and operators, dying or acting on stale reads.         *)
THEOREM QueueImplementsLifecycle == Spec => ImplementsLifecycle
<1>1. Init => Lifecycle!Init
  BY InitRefines
<1>2. IInv /\ [Next]_vars => [Lifecycle!Next]_(Lifecycle!vars)
  BY NextRefines DEF LifecycleStep
<1>3. QED  BY Inductive, <1>1, <1>2, PTL DEF Spec, ImplementsLifecycle, Lifecycle!Spec

-----------------------------------------------------------------------------
(* Action properties. *)

(* The lifecycle has no move out of review but the release and none out of  *)
(* canceled, keeps the result, and only ever starts executions.             *)
LEMMA RunsMoveForward ==
  ASSUME IInv, [Next]_vars, NEW r \in Runs
  PROVE  /\ run[r].status \in Finished =>
              /\ run'[r].status \in Finished
              /\ run'[r].results = run[r].results
              /\ run'[r].attempts = run[r].attempts
         /\ run[r].status = "canceled" => run'[r].status = "canceled"
         /\ run'[r].attempts >= run[r].attempts
<1>1. /\ Phase[r] = PhaseOf(run[r].status) /\ Tries[r] = run[r].attempts /\ Result[r] = run[r].results
      /\ Phase'[r] = PhaseOf(run'[r].status) /\ Tries'[r] = run'[r].attempts /\ Result'[r] = run'[r].results
      /\ Tries[r] \in Nat
  BY RowFacts DEF Phase, Tries, Result
<1> DEFINE Forward ==
      /\ Phase[r] \in Finished => Phase'[r] \in Finished /\ Result'[r] = Result[r] /\ Tries'[r] = Tries[r]
      /\ Phase[r] = "canceled" => Phase'[r] = "canceled"
      /\ Tries'[r] >= Tries[r]
<1>2. Forward
  <2>1. CASE UNCHANGED Lifecycle!vars
    BY <1>1, <2>1 DEF Lifecycle!vars, Phase, Tries, Result
  <2>2. ASSUME NEW s \in Runs, Lifecycle!Step(s) PROVE Forward
    <3> USE DEF Lifecycle!Move
    <3>1. CASE s = r
      <4>1. CASE Phase[r] \in Finished
        <5>1. Lifecycle!Release(r)
          BY <2>2, <3>1, <4>1 DEF Lifecycle!Step, Lifecycle!Submit, Lifecycle!Start, Lifecycle!GiveBack,
               Lifecycle!Block, Lifecycle!Requeue, Lifecycle!Cancel, Lifecycle!Release, Lifecycle!Review,
               Phase, Finished
        <5>2. Phase' = [Phase EXCEPT ![r] = "ready"] /\ Tries' = Tries /\ Result' = Result
          BY <5>1 DEF Lifecycle!Release, Phase, Tries, Result
        <5>3. Phase'[r] = "ready"
          BY <5>2 DEF Phase
        <5>4. QED  BY <1>1, <4>1, <5>2, <5>3 DEF Finished
      <4>2. CASE Phase[r] = "canceled"
        BY <2>2, <3>1, <4>2 DEF Lifecycle!Step, Lifecycle!Submit, Lifecycle!Start, Lifecycle!GiveBack,
             Lifecycle!Block, Lifecycle!Requeue, Lifecycle!Cancel, Lifecycle!Release, Lifecycle!Review,
             Phase, Tries, Result, Finished
      <4>3. CASE Phase[r] \notin Finished \cup {"canceled"}
        <5>1. Tries' = [Tries EXCEPT ![r] = Tries[r] + 1] \/ Tries' = Tries
          BY <2>2, <3>1 DEF Lifecycle!Step, Lifecycle!Submit, Lifecycle!Start, Lifecycle!GiveBack,
             Lifecycle!Block, Lifecycle!Requeue, Lifecycle!Cancel, Lifecycle!Release, Lifecycle!Review, Tries
        <5>2. Tries'[r] >= Tries[r]
          BY <1>1, <5>1 DEF Tries
        <5>3. QED  BY <4>3, <5>2 DEF Finished
      <4>4. QED  BY <4>1, <4>2, <4>3
    <3>2. CASE s # r
      <4>1. /\ Phase'[r] = Phase[r] /\ Tries'[r] = Tries[r] /\ Result'[r] = Result[r]
        BY <2>2, <3>2 DEF Lifecycle!Step, Lifecycle!Submit, Lifecycle!Start, Lifecycle!GiveBack,
             Lifecycle!Block, Lifecycle!Requeue, Lifecycle!Cancel, Lifecycle!Release, Lifecycle!Review,
             Phase, Tries, Result
      <4>2. QED  BY <1>1, <4>1
    <3>3. QED  BY <3>1, <3>2
  <2>3. QED  BY <2>1, <2>2, NextRefines DEF LifecycleStep, Lifecycle!Next
<1>3. QED  BY <1>1, <1>2 DEF PhaseOf, Finished

(* Results and tries of a finished run are frozen, whatever stale workers   *)
(* and operators still write.                                               *)
THEOREM FinishedStaysFinished == Spec => FinishedIsFrozen
<1>1. IInv /\ [Next]_vars =>
        [\A r \in Runs :
           run[r].status \in Finished =>
             /\ run'[r].status \in Finished
             /\ run'[r].results = run[r].results
             /\ run'[r].attempts = run[r].attempts]_vars
  BY RunsMoveForward
<1>2. QED  BY Inductive, <1>1, PTL DEF Spec, FinishedIsFrozen

(* Every execution that starts uses up one try of the row as it is then.    *)
THEOREM StartsUseTries == Spec => EveryStartUsesATry
<1>1. IInv /\ [Next]_vars =>
        [\A w \in Workers :
           job[w] = NoJob /\ job'[w] # NoJob =>
             LET r == job'[w].run IN
             /\ run'[r].attempts = run[r].attempts + 1
             /\ run'[r].attempts <= MaxBudget]_vars
  <2> SUFFICES ASSUME IInv, [Next]_vars, NEW w \in Workers, job[w] = NoJob, job'[w] # NoJob
               PROVE  /\ run'[job'[w].run].attempts = run[job'[w].run].attempts + 1
                      /\ run'[job'[w].run].attempts <= MaxBudget
    OBVIOUS
  <2>0. TypeOK /\ job \in [Workers -> Job]
    BY DEF IInv, TypeOK
  <2>1. PICK v \in Workers, r \in Runs : Claim(v, r) /\ job' # job
    BY <2>0 DEF Next, DatabaseStep, WorkerStep, TryCandidate, EndJob, OperatorStep, vars,
         Enqueue, LeaseLapses, RetryFallsDue, Release, Scan, Exhaust, Fail, Complete, Crash,
         OperatorReads, Requeue, OpsRequeue, OpsCancel, RecordEvent, OperatorGone
  <2>2. Unmoved(r, seen[v][r])
    BY <2>1 DEF Claim
  <2>3. PICK new \in Row :
          /\ Writes(r, new) /\ new.attempts = run[r].attempts + 1 /\ new.attempts \in 0..MaxBudget
          /\ job' = [job EXCEPT ![v] = [run |-> r, attempt |-> run[r].attempts + 1, budget |-> run[r].budget]]
    BY <2>0, <2>1, <2>2, ClaimWrites DEF Writes
  <2>4. v = w /\ job'[w].run = r
    BY <2>0, <2>3
  <2>5. run'[r] = new
    BY <2>0, <2>3 DEF Writes, TypeOK
  <2>6. QED  BY <2>3, <2>4, <2>5
<1>2. QED  BY Inductive, <1>1, PTL DEF Spec, EveryStartUsesATry

(* A live lease is broken by nobody.  A scan's or an operator's old read    *)
(* cannot do it: ScanReads and the desk's condition on the lease.           *)
THEOREM LeasesAreRespected == Spec => LiveLeaseIsRespected
<1>1. IInv /\ [Next]_vars =>
        [\A r \in Runs :
           run[r].lease = "live" /\ run'[r] # run[r] =>
             \/ run'[r] = [run[r] EXCEPT !.lease = "lapsed"]
             \/ job[run[r].owner].run = r /\ job'[run[r].owner] = NoJob]_vars
  <2> SUFFICES ASSUME IInv, [Next]_vars, NEW r \in Runs, run[r].lease = "live", run'[r] # run[r]
               PROVE  \/ run'[r] = [run[r] EXCEPT !.lease = "lapsed"]
                      \/ job[run[r].owner].run = r /\ job'[run[r].owner] = NoJob
    OBVIOUS
  <2>0. run \in [Runs -> Row] /\ job \in [Workers -> Job] /\ run[r].status = "running" /\ run[r].retry # "waiting"
    BY RowFacts DEF IInv, TypeOK
  <2>1. CASE DatabaseStep
    BY <2>0, <2>1 DEF DatabaseStep, Enqueue, LeaseLapses, RetryFallsDue, Release
  <2>2. ASSUME NEW w \in Workers, NEW s \in Runs, Claim(w, s) \/ Exhaust(w, s)
        PROVE  FALSE
    <3>1. s = r
      BY <2>0, <2>2 DEF Claim, Exhaust
    <3>2. Unmoved(r, seen[w][r]) /\ seen[w][r] # NotSeen
      BY <2>2, <3>1 DEF Claim, Exhaust, Candidates
    <3>3. QED  BY <3>2 DEF IInv, ScanReads
  <2>3. ASSUME NEW w \in Workers, EndJob(w)
        PROVE  job[run[r].owner].run = r /\ job'[run[r].owner] = NoJob
    BY <2>0, <2>3 DEF EndJob, Fail, Complete, Fenced
  <2>4. ASSUME NEW o \in Operators, Requeue(o) \/ OpsRequeue(o) \/ OpsCancel(o)
        PROVE  FALSE
    <3>1. desk[o].run = r
      BY <2>0, <2>4 DEF Requeue, OpsRequeue, OpsCancel
    <3>2. desk[o].kind = "requeue" => desk[o].status # "running"
      BY <2>4 DEF Requeue, OpsRequeue, OpsCancel, IInv, DeskReads
    <3>3. QED  BY <2>0, <2>4, <3>1, <3>2 DEF Requeue, OpsRequeue, OpsCancel, DeskMatches, Unmoved
  <2>5. QED
    BY <2>1, <2>2, <2>3, <2>4
       DEF Next, WorkerStep, TryCandidate, OperatorStep, vars,
           Scan, Crash, RecordEvent, OperatorReads, OperatorGone
<1>2. QED  BY Inductive, <1>1, PTL DEF Spec, LiveLeaseIsRespected

-----------------------------------------------------------------------------
(* The history.  An event is recorded some steps after the write it         *)
(* reports; it stays true because runs only move forward.                   *)
Events == history \cup ({pending[a] : a \in Actors} \ {NoEvent})

IsTrue(e) ==
  /\ e.type = "completed" => run[e.run].status \in Finished
  /\ e.type = "canceled" => run[e.run].status = "canceled"
  /\ e.type = "lease_reclaimed" => run[e.run].attempts > 1

EventsAreTrue == \A e \in Events : e.run \in Runs /\ IsTrue(e)

LEMMA OneNewEvent ==
  ASSUME TypeOK, NEW a \in Actors, NEW e,
         history' = history, pending' \in {pending, [pending EXCEPT ![a] = e], [pending EXCEPT ![a] = NoEvent]}
  PROVE  \A f \in Events' : f \in Events \/ f = e
<1> SUFFICES ASSUME NEW f \in Events', f # e PROVE f \in Events
  OBVIOUS
<1>1. CASE f \in history
  BY <1>1 DEF Events
<1>2. CASE f \notin history
  <2>1. PICK b \in Actors : f = pending'[b] /\ f # NoEvent
    BY <1>2 DEF Events
  <2>2. f = pending[b]
    BY <2>1 DEF TypeOK
  <2>3. QED  BY <2>1, <2>2 DEF Events
<1>3. QED  BY <1>1, <1>2

LEMMA NewEventsAreTrue ==
  ASSUME IInv, [Next]_vars, NEW f \in Events'
  PROVE  f \in Events \/ (f.run \in Runs /\ IsTrue(f)')
<1>0. TypeOK
  BY DEF IInv
<1>1. CASE UNCHANGED <<pending, history>>
  BY <1>1 DEF Events
<1>2. ASSUME NEW w \in Workers, NEW r \in Runs, Claim(w, r)
      PROVE  f \in Events \/ (f.run \in Runs /\ IsTrue(f)')
  <2> DEFINE e == [run |-> r, type |-> "lease_reclaimed"]
  <2>1. /\ w \in Actors /\ history' = history
        /\ pending' \in {pending, [pending EXCEPT ![w] = e], [pending EXCEPT ![w] = NoEvent]}
    BY <1>2 DEF Claim, Actors
  <2>2. f \in Events \/ f = e
    BY <1>0, <2>1, OneNewEvent
  <2>3. CASE pending' = [pending EXCEPT ![w] = e]
    <3>1. Unmoved(r, seen[w][r]) /\ seen[w][r].status = "running" /\ seen[w][r] # NotSeen
      <4>1. w \in Actors /\ pending[w] = NoEvent /\ pending'[w] = e
        BY <1>0, <1>2, <2>1, <2>3 DEF Claim, TypeOK
      <4>2. e # NoEvent
        BY DEF NoEvent
      <4>3. QED  BY <1>0, <1>2, <4>1, <4>2 DEF Claim, Candidates, TypeOK
    <3>2. run[r].attempts > 0
      BY <3>1, RowFacts DEF Unmoved
    <3>3. PICK new \in Row : Writes(r, new) /\ new.attempts = run[r].attempts + 1
      BY <1>0, <1>2, <3>1, ClaimWrites DEF Writes
    <3>4. run'[r].attempts > 1
      BY <1>0, <3>2, <3>3, RowFacts DEF Writes, TypeOK
    <3>5. QED  BY <2>2, <3>4 DEF IsTrue
  <2>4. CASE pending' # [pending EXCEPT ![w] = e]
    <3>1. pending' \in {pending, [pending EXCEPT ![w] = NoEvent]}
      BY <2>1, <2>4
    <3>2. \A g \in Events' : g \in Events \/ g = NoEvent
      BY <1>0, <2>1, <3>1, OneNewEvent
    <3>3. f \in Events \/ f = NoEvent
      BY <3>2
    <3>4. CASE f \in history'
      BY <2>1, <3>4 DEF Events
    <3>5. QED  BY <3>3, <3>4 DEF Events
  <2>5. QED  BY <2>3, <2>4
<1>3. ASSUME NEW w \in Workers, NEW r \in Runs, Exhaust(w, r)
      PROVE  f \in Events \/ (f.run \in Runs /\ IsTrue(f)')
  <2> DEFINE e == [run |-> r, type |-> "retries_exhausted"]
  <2>1. f \in Events \/ f = e
    BY <1>0, <1>3, OneNewEvent DEF Exhaust, Actors
  <2>2. QED  BY <2>1 DEF IsTrue
<1>4. ASSUME NEW w \in Workers, NEW retryable \in BOOLEAN, Fail(w, retryable)
      PROVE  f \in Events \/ (f.run \in Runs /\ IsTrue(f)')
  <2>1. job[w].run \in Runs /\ w \in Actors
    BY <1>4 DEF IInv, JobsNameRuns, Fail, Working, Actors
  <2>2. PICK type \in {"blocked", "retry_scheduled"} :
           /\ history' = history
           /\ pending' \in {pending, [pending EXCEPT ![w] = [run |-> job[w].run, type |-> type]]}
    BY <1>4 DEF Fail
  <2> DEFINE e == [run |-> job[w].run, type |-> type]
  <2>3. f \in Events \/ f = e
    BY <1>0, <2>1, <2>2, OneNewEvent
  <2>4. QED  BY <2>1, <2>3 DEF IsTrue
<1>5. ASSUME NEW w \in Workers, NEW outcome \in Outcomes, Complete(w, outcome)
      PROVE  f \in Events \/ (f.run \in Runs /\ IsTrue(f)')
  <2> DEFINE r == job[w].run
             e == [run |-> r, type |-> "completed"]
  <2>1. r \in Runs /\ w \in Actors
    BY <1>5 DEF IInv, JobsNameRuns, Complete, Working, Actors
  <2>2. CASE Fenced(w) /\ run' # run
    <3>1. PICK new \in Row : Writes(r, new) /\ new.status = "human_review"
      BY <1>0, <1>5, <2>1, <2>2, CompleteWrites
    <3>2. run'[r].status \in Finished
      BY <1>0, <2>1, <3>1 DEF Writes, TypeOK, Finished
    <3>3. f \in Events \/ f = e
      BY <1>0, <1>5, <2>1, OneNewEvent DEF Complete
    <3>4. QED  BY <2>1, <3>2, <3>3 DEF IsTrue
  <2>3. CASE ~(Fenced(w) /\ run' # run)
    <3>1. CASE UNCHANGED pending
      BY <1>5, <3>1 DEF Events, Complete
    <3>2. CASE pending' # pending
      <4>1. Fenced(w) /\ run' = run /\ run' = [run EXCEPT ![r] = [Unleased(run[r], "human_review") EXCEPT !.results = outcome]]
        BY <1>5, <2>3, <3>2 DEF Complete
      <4>2. run'[r].status = "human_review"
        BY <1>0, <2>1, <4>1 DEF TypeOK, Unleased, Row
      <4>3. QED  BY <4>1, <4>2 DEF Fenced
    <3>3. QED  BY <3>1, <3>2
  <2>4. QED  BY <2>2, <2>3
<1>6. ASSUME NEW o \in Operators, Requeue(o) \/ OpsRequeue(o)
      PROVE  f \in Events \/ (f.run \in Runs /\ IsTrue(f)')
  <2> DEFINE e == [run |-> desk[o].run, type |-> "requeued"]
  <2>1. desk[o].run \in Runs /\ o \in Actors
    BY <1>6 DEF IInv, DeskReads, Requeue, OpsRequeue, Actors
  <2>2. f \in Events \/ f = e
    BY <1>0, <1>6, <2>1, OneNewEvent DEF Requeue, OpsRequeue
  <2>3. QED  BY <2>1, <2>2 DEF IsTrue
<1>7. ASSUME NEW o \in Operators, OpsCancel(o)
      PROVE  f \in Events \/ (f.run \in Runs /\ IsTrue(f)')
  <2> DEFINE r == desk[o].run
             e == [run |-> r, type |-> "canceled"]
  <2>1. r \in Runs /\ o \in Actors
    BY <1>7 DEF IInv, DeskReads, OpsCancel, Actors
  <2>2. CASE UNCHANGED pending
    BY <1>7, <2>2 DEF Events, OpsCancel
  <2>3. CASE pending' # pending
    <3>1. run' = [run EXCEPT ![r] = [Unleased(run[r], "canceled") EXCEPT !.retry = "none"]]
      BY <1>7, <2>3 DEF OpsCancel
    <3>2. run'[r].status = "canceled"
      BY <1>0, <2>1, <3>1 DEF TypeOK, Unleased, Row
    <3>3. f \in Events \/ f = e
      BY <1>0, <1>7, <2>1, OneNewEvent DEF OpsCancel
    <3>4. QED  BY <2>1, <3>2, <3>3 DEF IsTrue
  <2>4. QED  BY <2>2, <2>3
<1>8. ASSUME NEW a \in Actors, RecordEvent(a)
      PROVE  f \in Events
  BY <1>0, <1>8 DEF RecordEvent, Events, TypeOK
<1>9. ASSUME NEW a \in Actors, history' = history, pending' = [pending EXCEPT ![a] = NoEvent]
      PROVE  f \in Events
  BY <1>0, <1>9 DEF Events, TypeOK
<1>10. QED
  BY <1>1, <1>2, <1>3, <1>4, <1>5, <1>6, <1>7, <1>8, <1>9
     DEF Next, DatabaseStep, WorkerStep, TryCandidate, EndJob, OperatorStep, vars, Actors,
         Enqueue, LeaseLapses, RetryFallsDue, Release, Scan, Crash, OperatorReads, OperatorGone

(* The history never reports an end that did not happen.                    *)
THEOREM HistoryStaysTrue == Spec => []HistoryIsTrue
<1>1. Init => EventsAreTrue
  BY DEF Init, EventsAreTrue, Events
<1>2. IInv /\ EventsAreTrue /\ [Next]_vars => EventsAreTrue'
  <2> SUFFICES ASSUME IInv, EventsAreTrue, [Next]_vars, NEW f \in Events'
               PROVE  f.run \in Runs /\ IsTrue(f)'
    BY DEF EventsAreTrue
  <2>1. CASE f \in Events
    <3>1. f.run \in Runs /\ IsTrue(f)
      BY <2>1 DEF EventsAreTrue
    <3>2. run[f.run].attempts \in Nat /\ run'[f.run].attempts \in Nat
      BY <3>1, RowsStayRows DEF IInv, TypeOK, Row
    <3>3. QED  BY <3>1, <3>2, RunsMoveForward DEF IsTrue
  <2>2. QED  BY <2>1, NewEventsAreTrue
<1>3. EventsAreTrue => HistoryIsTrue
  BY DEF EventsAreTrue, Events, IsTrue, HistoryIsTrue
<1>4. QED  BY Inductive, <1>1, <1>2, <1>3, PTL DEF Spec

=============================================================================
