--------------------------- MODULE EvaluationQueue ---------------------------
(***************************************************************************)
(* The durable queue of evaluation runs                                    *)
(* (src/src/lib/eng/evaluation/queue.ts over the table of migration 028).  *)
(*                                                                         *)
(* A worker is one call of processPendingRuns.  Every access to the        *)
(* database is a transaction of its own, so each is a step, and between    *)
(* two steps a worker holds what it read: the candidates of its scan       *)
(* (seen), the row its claim returned (job), the history event it has yet  *)
(* to record (pending).  A worker may die at any of these points.  An      *)
(* operator reads a run, decides, and writes, in the same way (desk).      *)
(*                                                                         *)
(* Time is abstracted to the two comparisons the code makes: a lease is    *)
(* live until it lapses, a retry waits until it is due.                    *)
(***************************************************************************)
EXTENDS Integers, FiniteSets

CONSTANTS
  Runs,           \* evaluation runs, one per submission (unique run_key)
  Workers,        \* concurrent calls of processPendingRuns
  Operators,      \* people and routes that requeue or cancel runs
  Outcomes,       \* what one execution of the tests can report
  None,           \* SQL null
  FirstBudget,    \* max_attempts of a new run                        (3)
  RequeueBudget,  \* tries a requeue adds to those already used       (3)
  MaxBudget,      \* upper bound of max_attempts                     (10)
  CandidateLimit  \* rows one scan reads                              (5)

ASSUME NoneIsNoValue == None \notin Runs \cup Workers \cup Outcomes

ASSUME BudgetsAreOrdered ==
  /\ FirstBudget \in Nat \ {0}
  /\ RequeueBudget \in Nat \ {0}
  /\ MaxBudget \in Nat
  /\ FirstBudget <= MaxBudget

VARIABLES
  run,      \* run[r]: the row of run r; "absent" until it is inserted
  seen,     \* seen[w][r]: what worker w read of candidate r in its scan
  job,      \* job[w]: the claimed row worker w is processing
  desk,     \* desk[o]: the row operator o read and what o decided
  pending,  \* pending[a]: the event actor a has still to record
  history   \* the recorded events of eng_attempt_events

vars == <<run, seen, job, desk, pending, history>>

Finished == {"human_review", "ready"}
Statuses == Finished \cup {"absent", "queued", "running", "retryable_failure", "blocked", "canceled"}

Row == [status   : Statuses,
        attempts : 0..MaxBudget,
        budget   : 0..MaxBudget,
        owner    : Workers \cup {None},
        lease    : {"none", "live", "lapsed"},
        retry    : {"none", "waiting", "due"},
        results  : Outcomes \cup {None}]

AbsentRow == [status |-> "absent", attempts |-> 0, budget |-> 0, owner |-> None,
              lease |-> "none", retry |-> "none", results |-> None]

(* The row as the code that takes it out of "running" leaves it. *)
Unleased(row, status) == [row EXCEPT !.status = status, !.owner = None, !.lease = "none"]

Leased(row, w, try) == [row EXCEPT !.status = "running", !.attempts = try, !.owner = w, !.lease = "live"]

Queued(row, budget) == [row EXCEPT !.status = "queued", !.budget = budget, !.retry = "none"]

(* What a reader keeps of a row: the columns its later write is guarded by. *)
Snapshot == [status : Statuses, attempts : 0..MaxBudget, budget : 0..MaxBudget]
SnapshotOf(row) == [status |-> row.status, attempts |-> row.attempts, budget |-> row.budget]
NotSeen == SnapshotOf(AbsentRow)

Job == [run : Runs \cup {None}, attempt : 0..MaxBudget, budget : 0..MaxBudget]
NoJob == [run |-> None, attempt |-> 0, budget |-> 0]

DeskKinds == {"requeue", "ops_requeue", "ops_cancel"}
Desk == [run : Runs \cup {None}, kind : DeskKinds, status : Statuses, attempts : 0..MaxBudget]
NoDesk == [run |-> None, kind |-> "requeue", status |-> "absent", attempts |-> 0]

EventTypes == {"lease_reclaimed", "retries_exhausted", "blocked", "retry_scheduled",
               "completed", "requeued", "canceled"}
Event == [run : Runs \cup {None}, type : EventTypes]
NoEvent == [run |-> None, type |-> "completed"]

Actors == Workers \cup Operators

Init ==
  /\ run = [r \in Runs |-> AbsentRow]
  /\ seen = [w \in Workers |-> [r \in Runs |-> NotSeen]]
  /\ job = [w \in Workers |-> NoJob]
  /\ desk = [o \in Operators |-> NoDesk]
  /\ pending = [a \in Actors |-> NoEvent]
  /\ history = {}

-----------------------------------------------------------------------------
(* The database. *)

(* enqueueEvaluation: a second insert for the submission meets the unique  *)
(* run_key and is ignored, whatever became of the first.                   *)
Enqueue(r) ==
  /\ run[r].status = "absent"
  /\ run' = [run EXCEPT ![r] = Queued(@, FirstBudget)]
  /\ UNCHANGED <<seen, job, desk, pending, history>>

LeaseLapses(r) ==
  /\ run[r].lease = "live"
  /\ run' = [run EXCEPT ![r].lease = "lapsed"]
  /\ UNCHANGED <<seen, job, desk, pending, history>>

RetryFallsDue(r) ==
  /\ run[r].retry = "waiting"
  /\ run' = [run EXCEPT ![r].retry = "due"]
  /\ UNCHANGED <<seen, job, desk, pending, history>>

(* The release of a report marks its run ready, in the release transaction. *)
Release(r) ==
  /\ run[r].status = "human_review"
  /\ run' = [run EXCEPT ![r].status = "ready"]
  /\ UNCHANGED <<seen, job, desk, pending, history>>

(* A definition marked as a slip is a plausible error in the one that       *)
(* follows it, which the properties must notice; no definition uses it.     *)
(* Slips: dead workers forgotten; blocked runs taken up.                    *)
NeverReclaimed(r) == run[r].status = "queued" \/ (run[r].status = "retryable_failure" /\ run[r].retry = "due")
BlockedToo(r)     == run[r].status \in {"queued", "blocked"}

(* The filter claimRun and scheduleIfRunnable share. *)
Runnable(r) ==
  \/ run[r].status = "queued"
  \/ run[r].status = "retryable_failure" /\ run[r].retry = "due"
  \/ run[r].status = "running" /\ run[r].lease = "lapsed"

(* eng_run_guard: the trigger refuses to leave a final status and to change *)
(* recorded results.                                                        *)
RunGuardAllows(r, row) ==
  /\ run[r].status \in {"ready", "canceled"} => row.status = run[r].status
  /\ run[r].results # None => row.results = run[r].results

-----------------------------------------------------------------------------
(* Workers. *)

Candidates(w) == {r \in Runs : seen[w][r] # NotSeen}

(* Between two calls of the loop in processPendingRuns. *)
Idle(w) == job[w] = NoJob /\ Candidates(w) = {} /\ pending[w] = NoEvent

(* claimRun reads up to CandidateLimit runnable rows. *)
Scan(w) ==
  /\ Idle(w)
  /\ \E found \in SUBSET {r \in Runs : Runnable(r)} :
       /\ found # {}
       /\ \/ found = {r \in Runs : Runnable(r)} /\ Cardinality(found) <= CandidateLimit
          \/ Cardinality(found) = CandidateLimit
       /\ seen' = [seen EXCEPT ![w] = [r \in Runs |-> IF r \in found THEN SnapshotOf(run[r]) ELSE NotSeen]]
  /\ UNCHANGED <<run, job, desk, pending, history>>

UnmovedByStatus(r, read) == run[r].status = read.status  \* slip: tries not compared

(* The compare-and-set both writes of claimRun share. *)
Unmoved(r, read) == run[r].status = read.status /\ run[r].attempts = read.attempts

Exhausted(read) == read.attempts >= read.budget

(* The next candidate of the loop in claimRun, still with tries left. *)
Claim(w, r) ==
  LET read == seen[w][r] IN
  /\ pending[w] = NoEvent
  /\ r \in Candidates(w)
  /\ ~Exhausted(read)
  /\ IF Unmoved(r, read)
     THEN /\ run' = [run EXCEPT ![r] = Leased(@, w, read.attempts + 1)]
          /\ job' = [job EXCEPT ![w] = [run |-> r, attempt |-> read.attempts + 1, budget |-> run[r].budget]]
          /\ seen' = [seen EXCEPT ![w] = [s \in Runs |-> NotSeen]]
          /\ pending' = [pending EXCEPT ![w] = IF read.status = "running"
                                               THEN [run |-> r, type |-> "lease_reclaimed"]
                                               ELSE NoEvent]
     ELSE /\ seen' = [seen EXCEPT ![w][r] = NotSeen]
          /\ UNCHANGED <<run, job, pending>>
  /\ UNCHANGED <<desk, history>>

(* The same candidate with no tries left: blocked if it has not moved.  The *)
(* event follows whether or not the update matched the row.                 *)
Exhaust(w, r) ==
  LET read == seen[w][r] IN
  /\ pending[w] = NoEvent
  /\ r \in Candidates(w)
  /\ Exhausted(read)
  /\ run' = IF Unmoved(r, read)
            THEN [run EXCEPT ![r] = Unleased(@, "blocked")]
            ELSE run
  /\ seen' = [seen EXCEPT ![w][r] = NotSeen]
  /\ pending' = [pending EXCEPT ![w] = [run |-> r, type |-> "retries_exhausted"]]
  /\ UNCHANGED <<job, desk, history>>

Working(w) == job[w] # NoJob /\ pending[w] = NoEvent

FencedByStatus(w) == run[job[w].run].status = "running"  \* slip: owner not compared
FencedByNothing(w) == TRUE                               \* slip: no fence

(* The fence every write of a worker to its run carries. *)
Fenced(w) ==
  LET r == job[w].run IN run[r].owner = w /\ run[r].status = "running"

(* failRun.  The budget is the one the claim returned. *)
Fail(w, retryable) ==
  LET r == job[w].run
      exhausted == ~retryable \/ job[w].attempt >= job[w].budget
      status == IF exhausted THEN "blocked" ELSE "retryable_failure"
  IN
  /\ Working(w)
  /\ job' = [job EXCEPT ![w] = NoJob]
  /\ IF Fenced(w)
     THEN /\ run' = [run EXCEPT ![r] = [Unleased(@, status) EXCEPT !.retry = IF exhausted THEN "none" ELSE "waiting"]]
          /\ pending' = [pending EXCEPT ![w] = [run |-> r, type |-> IF exhausted THEN "blocked" ELSE "retry_scheduled"]]
     ELSE UNCHANGED <<run, pending>>
  /\ UNCHANGED <<seen, desk, history>>

(* The end of processRun: the results and the hand-over to review.         *)
Complete(w, outcome) ==
  LET r == job[w].run
      row == [Unleased(run[r], "human_review") EXCEPT !.results = outcome]
  IN
  /\ Working(w)
  /\ job' = [job EXCEPT ![w] = NoJob]
  /\ IF Fenced(w) /\ RunGuardAllows(r, row)
     THEN /\ run' = [run EXCEPT ![r] = row]
          /\ pending' = [pending EXCEPT ![w] = [run |-> r, type |-> "completed"]]
     ELSE UNCHANGED <<run, pending>>
  /\ UNCHANGED <<seen, desk, history>>

(* The process ends: a deployment, the platform's time limit, or an        *)
(* exception that leaves processPendingRuns.                               *)
Crash(w) ==
  /\ ~Idle(w)
  /\ job' = [job EXCEPT ![w] = NoJob]
  /\ seen' = [seen EXCEPT ![w] = [r \in Runs |-> NotSeen]]
  /\ pending' = [pending EXCEPT ![w] = NoEvent]
  /\ UNCHANGED <<run, desk, history>>

-----------------------------------------------------------------------------
(* Operators. *)

(* What each action refuses at its read.  requeueRun reads only the status; *)
(* the operations desk also spares a run whose lease is live, and a run     *)
(* that has used every try.                                                 *)
DeskAllows(kind, row) ==
  CASE kind = "requeue"     -> row.status \in {"blocked", "retryable_failure"}
    [] kind = "ops_requeue" -> /\ \/ row.status \in {"blocked", "retryable_failure"}
                                  \/ row.status = "running" /\ row.lease = "lapsed"
                               /\ row.attempts < MaxBudget
    [] kind = "ops_cancel"  -> \/ row.status \in {"queued", "blocked", "retryable_failure"}
                               \/ row.status = "running" /\ row.lease = "lapsed"

OperatorReads(o, kind, r) ==
  /\ desk[o] = NoDesk
  /\ pending[o] = NoEvent
  /\ DeskAllows(kind, run[r])
  /\ desk' = [desk EXCEPT ![o] = [run |-> r, kind |-> kind, status |-> run[r].status, attempts |-> run[r].attempts]]
  /\ UNCHANGED <<run, seen, job, pending, history>>

BudgetWithoutBound(attempts) == attempts + RequeueBudget  \* slip: no cap

FreshBudget(attempts) ==
  IF attempts + RequeueBudget < MaxBudget THEN attempts + RequeueBudget ELSE MaxBudget

(* requeueRun compares the status only, and records its event even when the *)
(* update matched no row.                                                   *)
Requeue(o) ==
  LET read == desk[o] r == desk[o].run IN
  /\ read # NoDesk /\ read.kind = "requeue"
  /\ run' = IF run[r].status = read.status
            THEN [run EXCEPT ![r] = Queued(@, FreshBudget(read.attempts))]
            ELSE run
  /\ desk' = [desk EXCEPT ![o] = NoDesk]
  /\ pending' = [pending EXCEPT ![o] = [run |-> r, type |-> "requeued"]]
  /\ UNCHANGED <<seen, job, history>>

(* The compare-and-set of both desk actions. *)
DeskMatches(o) ==
  LET read == desk[o] r == desk[o].run IN
  /\ Unmoved(r, read)
  /\ read.status = "running" => run[r].lease = "lapsed"

OpsRequeue(o) ==
  LET read == desk[o] r == desk[o].run IN
  /\ read # NoDesk /\ read.kind = "ops_requeue"
  /\ desk' = [desk EXCEPT ![o] = NoDesk]
  /\ IF DeskMatches(o)
     THEN /\ run' = [run EXCEPT ![r] = Queued(Unleased(@, "queued"), FreshBudget(read.attempts))]
          /\ pending' = [pending EXCEPT ![o] = [run |-> r, type |-> "requeued"]]
     ELSE UNCHANGED <<run, pending>>
  /\ UNCHANGED <<seen, job, history>>

OpsCancel(o) ==
  LET read == desk[o] r == desk[o].run IN
  /\ read # NoDesk /\ read.kind = "ops_cancel"
  /\ desk' = [desk EXCEPT ![o] = NoDesk]
  /\ IF DeskMatches(o)
     THEN /\ run' = [run EXCEPT ![r] = [Unleased(@, "canceled") EXCEPT !.retry = "none"]]
          /\ pending' = [pending EXCEPT ![o] = [run |-> r, type |-> "canceled"]]
     ELSE UNCHANGED <<run, pending>>
  /\ UNCHANGED <<seen, job, history>>

-----------------------------------------------------------------------------
(* recordEngEvent, the call that follows a worker's or operator's write. *)
RecordEvent(a) ==
  /\ pending[a] # NoEvent
  /\ history' = history \cup {pending[a]}
  /\ pending' = [pending EXCEPT ![a] = NoEvent]
  /\ UNCHANGED <<run, seen, job, desk>>

(* The request of an operator is lost between two of its calls. *)
OperatorGone(o) ==
  /\ desk[o] # NoDesk \/ pending[o] # NoEvent
  /\ desk' = [desk EXCEPT ![o] = NoDesk]
  /\ pending' = [pending EXCEPT ![o] = NoEvent]
  /\ UNCHANGED <<run, seen, job, history>>

DatabaseStep ==
  \E r \in Runs : Enqueue(r) \/ LeaseLapses(r) \/ RetryFallsDue(r) \/ Release(r)

TryCandidate(w) == \E r \in Runs : Claim(w, r) \/ Exhaust(w, r)

EndJob(w) == \/ \E retryable \in BOOLEAN : Fail(w, retryable)
             \/ \E outcome \in Outcomes : Complete(w, outcome)

WorkerStep(w) == Scan(w) \/ TryCandidate(w) \/ EndJob(w) \/ RecordEvent(w) \/ Crash(w)

OperatorStep(o) ==
  \/ \E kind \in DeskKinds, r \in Runs : OperatorReads(o, kind, r)
  \/ Requeue(o) \/ OpsRequeue(o) \/ OpsCancel(o)
  \/ RecordEvent(o) \/ OperatorGone(o)

Next == DatabaseStep \/ (\E w \in Workers : WorkerStep(w)) \/ (\E o \in Operators : OperatorStep(o))

Spec == Init /\ [][Next]_vars

-----------------------------------------------------------------------------
(* What the queue owes. *)

TypeOK ==
  /\ run \in [Runs -> Row]
  /\ seen \in [Workers -> [Runs -> Snapshot]]
  /\ job \in [Workers -> Job]
  /\ desk \in [Operators -> Desk]
  /\ pending \in [Actors -> Event]
  /\ history \subseteq Event

(* A run has an owner and a lease exactly while it is running: every way    *)
(* out of "running", including the two a stale scan or an operator takes,   *)
(* gives both up, so no lease outlives its execution.                       *)
LeaseOnlyWhileRunning ==
  \A r \in Runs :
    /\ run[r].status = "running" <=> run[r].owner # None
    /\ run[r].status = "running" <=> run[r].lease # "none"

(* Whenever the fence would let a worker write, the row is still at the try *)
(* and the budget that worker's claim returned: what failRun decides from   *)
(* its old copy of the row is what it would decide from the row itself.     *)
FencedCopyIsCurrent ==
  \A w \in Workers :
    job[w] # NoJob /\ Fenced(w) =>
      /\ job[w].attempt = run[job[w].run].attempts
      /\ job[w].budget = run[job[w].run].budget

(* What a scan read of a run was claimable then, and while status and tries *)
(* are unmoved it still is: its lease has not been renewed and its retry is *)
(* not waiting again.  This is why claimRun may compare these two columns   *)
(* and no other.  A run read between two tries runs next at a new try.      *)
ScanReads ==
  \A w \in Workers, r \in Runs :
    LET read == seen[w][r] IN
    read # NotSeen =>
      /\ read.status \in {"queued", "retryable_failure", "running"}
      /\ read.attempts <= run[r].attempts
      /\ read.status = "running" => read.attempts > 0
      /\ read.status = "retryable_failure" /\ read.attempts = run[r].attempts => run[r].status # "running"
      /\ Unmoved(r, read) => run[r].lease # "live" /\ run[r].retry # "waiting"

(* Results are on record exactly for the runs handed to review; a run that  *)
(* was blocked, canceled or put back carries none.                          *)
ResultsOnlyWhenFinished ==
  \A r \in Runs : run[r].results # None <=> run[r].status \in Finished

(* The history never reports an end that did not happen, although each      *)
(* event is a separate call that follows the write it reports.              *)
HistoryIsTrue ==
  \A e \in history \cup ({pending[a] : a \in Actors} \ {NoEvent}) :
    /\ e.type = "completed" => run[e.run].status \in Finished
    /\ e.type = "canceled" => run[e.run].status = "canceled"
    /\ e.type = "lease_reclaimed" => run[e.run].attempts > 1

(* A live lease is broken by nobody: the row changes only when the lease    *)
(* lapses or when the owner's own job ends.                                 *)
LiveLeaseIsRespected ==
  [][\A r \in Runs :
       run[r].lease = "live" /\ run'[r] # run[r] =>
         \/ run'[r] = [run[r] EXCEPT !.lease = "lapsed"]
         \/ job[run[r].owner].run = r /\ job'[run[r].owner] = NoJob]_vars

(* Every execution that starts uses up one try of the row as it is then, so *)
(* two workers that read the same candidate cannot share one.               *)
EveryStartUsesATry ==
  [][\A w \in Workers :
       job[w] = NoJob /\ job'[w] # NoJob =>
         LET r == job'[w].run IN
         /\ run'[r].attempts = run[r].attempts + 1
         /\ run'[r].attempts <= MaxBudget]_vars

(* "Candidate results are never re-run": results and tries of a finished    *)
(* run are frozen, and no operator, stale or not, brings it back.           *)
FinishedIsFrozen ==
  [][\A r \in Runs :
       run[r].status \in Finished =>
         /\ run'[r].status \in Finished
         /\ run'[r].results = run[r].results
         /\ run'[r].attempts = run[r].attempts]_vars

(* The queue implements the lifecycle the rest of the program relies on.    *)
PhaseOf(status) == IF status \in {"queued", "retryable_failure"} THEN "waiting" ELSE status

Lifecycle == INSTANCE EvaluationLifecycle WITH
  phase  <- [r \in Runs |-> PhaseOf(run[r].status)],
  tries  <- [r \in Runs |-> run[r].attempts],
  result <- [r \in Runs |-> run[r].results]

(* Every behaviour of workers and operators, stale and crashing ones        *)
(* included, is a behaviour of EvaluationLifecycle for each run.            *)
ImplementsLifecycle == Lifecycle!Spec

-----------------------------------------------------------------------------
(* Time passes, the scheduler keeps calling the worker route, a call ends   *)
(* or is killed, and not every call dies between its scan and its claim.    *)
(* Nothing is assumed of operators.                                         *)
Fairness ==
  /\ \A r \in Runs : WF_vars(LeaseLapses(r)) /\ WF_vars(RetryFallsDue(r))
  /\ \A w \in Workers :
       /\ WF_vars(Scan(w))
       /\ SF_vars(TryCandidate(w))
       /\ WF_vars(EndJob(w) \/ RecordEvent(w) \/ Crash(w))

FairSpec == Spec /\ Fairness

Settled(r) == run[r].status \in Finished \cup {"blocked", "canceled"}

(* No run waits for ever: whatever workers die and whatever operators do,   *)
(* a queued run is reviewed, blocked for an operator, or canceled.          *)
EveryRunSettles == \A r \in Runs : run[r].status # "absent" ~> Settled(r)

=============================================================================
