-------------------------- MODULE ImportJobsProofs --------------------------
(***************************************************************************)
(* Proofs about ImportJobs, for any number of workers, callers, keys, tries*)
(* and requests.  A worker and a caller each act on something they read    *)
(* before; the invariant says what of it is still true when they act.      *)
(***************************************************************************)
EXTENDS ImportJobs, TLAPS

(* The tries that n requeues pay for. *)
Budget(n) == MaxAttempts * (1 + n)

(* A worker past its upsert has its snapshot.                              *)
WorkFits(w) == worker[w] \in {"clear", "insert", "report"} => snapshot.row

(* A count of tries that was read was paid for; a key is a key.            *)
RequestFits(c) ==
  /\ request[c].attempts <= Budget(requeued)
  /\ request[c].pc \in {"key", "settle"} => request[c].key \in Keys

(* A key nobody used has not acted.                                        *)
KeyFits(k) == ledger[k] = "none" => acted[k] = 0

(* The inductive invariant. *)
IInv ==
  /\ TypeOK
  /\ SucceededIsSaved
  /\ TriesAreBounded
  /\ KeyActsOnce
  /\ \A w \in Workers : WorkFits(w)
  /\ \A c \in Callers : RequestFits(c)
  /\ \A k \in Keys : KeyFits(k)

USE CallersAssumption, CountsAssumption

-----------------------------------------------------------------------------
(* Budgets *)

LEMMA BudgetIsNat == \A n \in Nat : Budget(n) \in Nat
  BY DEF Budget

LEMMA BudgetOfNone == Budget(0) = MaxAttempts
  BY DEF Budget

LEMMA BudgetGrows == \A n \in Nat : Budget(n + 1) = Budget(n) + MaxAttempts
<1> TAKE n \in Nat
<1>1. MaxAttempts * (1 + (n + 1)) = MaxAttempts * (1 + n) + MaxAttempts
  BY Z3
<1>2. QED  BY <1>1 DEF Budget

LEMMA BudgetHolds ==
  TriesAreBounded <=> job.max <= Budget(requeued) /\ job.attempts <= Budget(requeued)
  BY DEF TriesAreBounded, Budget

-----------------------------------------------------------------------------
LEMMA NoRequestType == NoRequest \in RequestStates
  BY DEF NoRequest, RequestStates

LEMMA InitIInv == Init => IInv
<1> SUFFICES ASSUME Init PROVE IInv
  OBVIOUS
<1>1. TypeOK
  BY NoRequestType DEF Init, TypeOK, Jobs, WorkerStates
<1>2. SucceededIsSaved /\ KeyActsOnce
  BY DEF Init, SucceededIsSaved, KeyActsOnce
<1>3. TriesAreBounded
  BY BudgetOfNone, BudgetHolds DEF Init
<1>4. \A w \in Workers : WorkFits(w)
  BY DEF Init, WorkFits
<1>5. \A c \in Callers : RequestFits(c)
  BY BudgetOfNone DEF Init, RequestFits, NoRequest
<1>6. \A k \in Keys : KeyFits(k)
  BY DEF Init, KeyFits
<1>7. QED  BY <1>1, <1>2, <1>3, <1>4, <1>5, <1>6 DEF IInv

-----------------------------------------------------------------------------
(* Workers *)

(* What a heartbeat does to the requests, and what else leaves them alone. *)
LEMMA RequestsKept ==
  ASSUME IInv, Beats \/ UNCHANGED request, UNCHANGED requeued
  PROVE  request' \in [Callers -> RequestStates] /\ \A c \in Callers : RequestFits(c)'
<1>1. request \in [Callers -> RequestStates] /\ \A c \in Callers : RequestFits(c)
  BY DEF IInv, TypeOK
<1>2. CASE Beats
  <2>1. ASSUME NEW c \in Callers
        PROVE  request'[c] \in RequestStates /\ RequestFits(c)'
    <3> DEFINE late == request[c].late \/ request[c].pc = "reap"
    <3>1. request'[c] = [request[c] EXCEPT !.late = late]
      BY <1>2 DEF Beats
    <3>2. late \in BOOLEAN
      BY <1>1 DEF RequestStates
    <3> HIDE DEF late
    <3>3. /\ request'[c] \in RequestStates /\ request'[c].attempts = request[c].attempts
          /\ request'[c].pc = request[c].pc /\ request'[c].key = request[c].key
      BY <1>1, <3>1, <3>2 DEF RequestStates
    <3>4. Budget(requeued)' = Budget(requeued)
      BY DEF Budget
    <3>5. QED  BY <1>1, <3>3, <3>4 DEF RequestFits
  <2>2. request' = [c \in Callers |-> request'[c]]
    BY <1>2 DEF Beats
  <2>3. QED  BY <2>1, <2>2
<1>3. CASE UNCHANGED request
  BY <1>1, <1>3 DEF RequestFits, Budget
<1>4. QED  BY <1>2, <1>3

(* A worker goes on: it never lowers the budget, and never loses the row.  *)
LEMMA WorkerSteps ==
  ASSUME IInv, NEW w \in Workers, NEW pc \in WorkerStates, Goto(w, pc),
         job' \in Jobs, job'.max = job.max, job'.attempts <= Budget(requeued),
         job'.state = "succeeded" => snapshot'.row,
         snapshot' \in [row : BOOLEAN, evidence : BOOLEAN],
         snapshot.row => snapshot'.row,
         pc \in {"clear", "insert", "report"} => snapshot'.row,
         Beats \/ UNCHANGED request, UNCHANGED <<ledger, asked, requeued, acted>>
  PROVE  IInv'
<1>1. request' \in [Callers -> RequestStates] /\ \A c \in Callers : RequestFits(c)'
  BY RequestsKept
<1>2. TypeOK'
  BY <1>1 DEF IInv, TypeOK, Goto
<1>3. SucceededIsSaved'
  BY DEF SucceededIsSaved
<1>4. TriesAreBounded'
  BY DEF IInv, TriesAreBounded, Budget
<1>5. KeyActsOnce' /\ \A k \in Keys : KeyFits(k)'
  BY DEF IInv, KeyActsOnce, KeyFits
<1>6. \A v \in Workers : WorkFits(v)'
  BY DEF IInv, TypeOK, Goto, WorkFits
<1>7. QED  BY <1>1, <1>2, <1>3, <1>4, <1>5, <1>6 DEF IInv

(* The row a fenced write leaves. *)
LEMMA Fenced ==
  ASSUME TypeOK, NEW w \in Workers, NEW row \in Jobs,
         row.max = job.max, row.attempts = job.attempts
  PROVE  /\ Update(w, row) \in Jobs
         /\ Update(w, row).max = job.max /\ Update(w, row).attempts = job.attempts
         /\ Update(w, row).state \in {row.state, job.state}
  BY DEF Update, TypeOK

LEMMA ReleasedType ==
  ASSUME TypeOK, NEW state \in {"failed", "succeeded"}
  PROVE  /\ Released(job, state) \in Jobs
         /\ Released(job, state).state = state
         /\ Released(job, state).max = job.max
         /\ Released(job, state).attempts = job.attempts
  BY DEF Released, TypeOK, Jobs

LEMMA DeadLetterType ==
  ASSUME TypeOK, NEW code \in {"cancelled", "attempts_exhausted", "final"}
  PROVE  /\ DeadLetter(job, code) \in Jobs
         /\ DeadLetter(job, code).state = "dead_letter"
         /\ DeadLetter(job, code).max = job.max
         /\ DeadLetter(job, code).attempts = job.attempts
  BY DEF DeadLetter, Released, TypeOK, Jobs

LEMMA BeatingType ==
  ASSUME TypeOK, NEW beat \in {"fresh", "stale"}
  PROVE  /\ [job EXCEPT !.beat = beat] \in Jobs
         /\ [job EXCEPT !.beat = beat].state = job.state
         /\ [job EXCEPT !.beat = beat].max = job.max
         /\ [job EXCEPT !.beat = beat].attempts = job.attempts
  BY DEF TypeOK, Jobs

(* scheduleOrFail never succeeds. *)
LEMMA ScheduleSteps ==
  ASSUME IInv, NEW w \in Workers, NEW retryable \in BOOLEAN,
         ScheduleOrFail(w, retryable), UNCHANGED <<snapshot, people>>
  PROVE  IInv'
<1>1. TypeOK
  BY DEF IInv
<1> DEFINE row == IF ~retryable THEN DeadLetter(job, "final")
                  ELSE IF job.attempts >= job.max
                       THEN DeadLetter(job, "attempts_exhausted")
                       ELSE Released(job, "failed")
<1>2. /\ row \in Jobs /\ row.max = job.max /\ row.attempts = job.attempts
      /\ row.state # "succeeded"
  BY <1>1, ReleasedType, DeadLetterType
<1>3. job' = Update(w, row) /\ Goto(w, "idle")
  BY DEF ScheduleOrFail, Rest
<1> HIDE DEF row
<1>4. /\ job' \in Jobs /\ job'.max = job.max /\ job'.attempts = job.attempts
      /\ job'.state = "succeeded" => job.state = "succeeded"
  BY <1>1, <1>2, <1>3, Fenced
<1>5. "idle" \in WorkerStates
  BY DEF WorkerStates
<1>6. job.attempts <= Budget(requeued)
  BY BudgetHolds DEF IInv
<1>7. snapshot' \in [row : BOOLEAN, evidence : BOOLEAN] /\ UNCHANGED snapshot
  BY <1>1 DEF TypeOK
<1>8. job'.state = "succeeded" => snapshot'.row
  BY <1>4, <1>7 DEF IInv, SucceededIsSaved
<1>9. UNCHANGED request /\ UNCHANGED <<ledger, asked, requeued, acted>>
  BY DEF people
<1>10. QED  BY <1>3, <1>4, <1>5, <1>6, <1>7, <1>8, <1>9, WorkerSteps

LEMMA ClaimIInv ==
  ASSUME IInv, NEW w \in Workers, Claim(w)
  PROVE  IInv'
<1>1. TypeOK /\ TriesAreBounded
  BY DEF IInv
<1>2. /\ job' \in Jobs /\ job'.max = job.max /\ job'.state = "running"
      /\ job'.attempts = job.attempts + 1
  <2> DEFINE try == job.attempts + 1
  <2>1. job' = [job EXCEPT !.state = "running", !.owner = w, !.beat = "fresh",
                           !.attempts = try]
    BY DEF Claim
  <2>2. job \in Jobs /\ try \in Nat
    BY <1>1 DEF TypeOK, Jobs
  <2> HIDE DEF try
  <2>3. job' \in Jobs /\ job'.max = job.max /\ job'.state = "running" /\ job'.attempts = try
    BY <2>1, <2>2 DEF Jobs
  <2>4. QED  BY <2>3 DEF try
<1>3. job'.attempts <= Budget(requeued)
  <2>1. job.attempts < job.max /\ job.max <= Budget(requeued)
    BY <1>1, BudgetHolds DEF Claim, Claimable
  <2>2. job.attempts \in Nat /\ job.max \in Nat /\ Budget(requeued) \in Nat
    BY <1>1, BudgetIsNat DEF TypeOK, Jobs
  <2>3. QED  BY <1>2, <2>1, <2>2
<1>4. /\ "extract" \in WorkerStates /\ Goto(w, "extract") /\ Beats
      /\ UNCHANGED <<snapshot, ledger, asked, requeued, acted>>
  BY DEF Claim, WorkerStates
<1>5. snapshot' \in [row : BOOLEAN, evidence : BOOLEAN] /\ snapshot' = snapshot
  BY <1>1, <1>4 DEF TypeOK
<1>6. QED  BY <1>2, <1>3, <1>4, <1>5, WorkerSteps

(* A heartbeat, alone or before the saving. *)
LEMMA RenewSteps ==
  ASSUME IInv, NEW w \in Workers, NEW pc \in {"extract", "lookup"},
         Goto(w, pc), Renew(w)
  PROVE  IInv'
<1>1. TypeOK
  BY DEF IInv
<1>2. /\ job' \in Jobs /\ job'.max = job.max /\ job'.attempts = job.attempts
      /\ job'.state = job.state
  BY <1>1, BeatingType, Fenced DEF Renew
<1>3. job.attempts <= Budget(requeued)
  BY BudgetHolds DEF IInv
<1>4. /\ pc \in WorkerStates /\ pc \notin {"clear", "insert", "report"}
      /\ Beats \/ UNCHANGED request
      /\ UNCHANGED <<snapshot, ledger, asked, requeued, acted>>
  BY DEF Renew, WorkerStates, Saving
<1>5. /\ snapshot' \in [row : BOOLEAN, evidence : BOOLEAN] /\ snapshot' = snapshot
      /\ job.state = "succeeded" => snapshot'.row
  BY <1>1, <1>4 DEF TypeOK, IInv, SucceededIsSaved
<1>6. QED  BY <1>2, <1>3, <1>4, <1>5, WorkerSteps

LEMMA HeartbeatIInv ==
  ASSUME IInv, NEW w \in Workers, Heartbeat(w)
  PROVE  IInv'
<1>1. Goto(w, "extract") /\ Renew(w)
  BY DEF Heartbeat, Goto, At, IInv, TypeOK
<1>2. QED  BY <1>1, RenewSteps

(* A step of the saving leaves the job alone. *)
LEMMA SavingSteps ==
  ASSUME IInv, NEW w \in Workers, NEW pc \in WorkerStates, Goto(w, pc),
         UNCHANGED <<job, people>>,
         snapshot' \in [row : BOOLEAN, evidence : BOOLEAN],
         snapshot.row => snapshot'.row,
         pc \in {"clear", "insert", "report"} => snapshot'.row
  PROVE  IInv'
<1>1. job' \in Jobs /\ job' = job
  BY DEF IInv, TypeOK
<1>2. job'.attempts <= Budget(requeued)
  BY BudgetHolds DEF IInv
<1>3. job'.state = "succeeded" => snapshot'.row
  BY <1>1 DEF IInv, SucceededIsSaved
<1>4. UNCHANGED request /\ UNCHANGED <<ledger, asked, requeued, acted>>
  BY DEF people
<1>5. QED  BY <1>1, <1>2, <1>3, <1>4, WorkerSteps

LEMMA SaveIInv ==
  ASSUME IInv, NEW w \in Workers, Save(w)
  PROVE  IInv'
<1>1. TypeOK /\ WorkFits(w)
  BY DEF IInv
<1>2. {"idle", "extract", "lookup", "upsert", "clear", "insert", "report"}
        \subseteq WorkerStates
  BY DEF WorkerStates, Saving
<1>3. CASE LookUp(w)
  <2>1. PICK pc \in {"report", "upsert"} :
          Goto(w, pc) /\ (pc = "report" => snapshot.row)
    BY <1>3 DEF LookUp
  <2>2. UNCHANGED <<job, snapshot, people>>
    BY <1>3 DEF LookUp
  <2>3. QED  BY <1>1, <1>2, <2>1, <2>2, SavingSteps DEF TypeOK
<1>4. CASE SaveProject(w)
  <2>1. /\ snapshot' \in [row : BOOLEAN, evidence : BOOLEAN] /\ snapshot'.row
        /\ Goto(w, "clear") /\ UNCHANGED <<job, people>>
    BY <1>1, <1>4 DEF SaveProject, TypeOK
  <2>2. QED  BY <1>2, <2>1, SavingSteps
<1>5. CASE ClearEvidence(w)
  <2>1. /\ snapshot' \in [row : BOOLEAN, evidence : BOOLEAN] /\ snapshot'.row
        /\ Goto(w, "insert") /\ UNCHANGED <<job, people>>
    BY <1>1, <1>5 DEF ClearEvidence, TypeOK, WorkFits, At
  <2>2. QED  BY <1>2, <2>1, SavingSteps
<1>6. CASE InsertEvidence(w)
  <2>1. /\ snapshot' \in [row : BOOLEAN, evidence : BOOLEAN] /\ snapshot'.row
        /\ Goto(w, "report") /\ UNCHANGED <<job, people>>
    BY <1>1, <1>6 DEF InsertEvidence, TypeOK, WorkFits, At
  <2>2. QED  BY <1>2, <2>1, SavingSteps
<1>7. CASE SaveFails(w)
  BY <1>7, ScheduleSteps DEF SaveFails
<1>8. CASE Succeed(w)
  <2>1. job' = Update(w, Released(job, "succeeded")) /\ Goto(w, "idle")
    BY <1>8 DEF Succeed, Rest
  <2>2. job' \in Jobs /\ job'.max = job.max /\ job'.attempts = job.attempts
    BY <1>1, <2>1, ReleasedType, Fenced
  <2>3. job.attempts <= Budget(requeued)
    BY BudgetHolds DEF IInv
  <2>4. /\ snapshot' \in [row : BOOLEAN, evidence : BOOLEAN] /\ snapshot'.row
        /\ UNCHANGED request /\ UNCHANGED <<ledger, asked, requeued, acted>>
    BY <1>1, <1>8 DEF Succeed, TypeOK, WorkFits, At, people
  <2>5. QED  BY <1>2, <2>1, <2>2, <2>3, <2>4, WorkerSteps
<1>9. QED  BY <1>3, <1>4, <1>5, <1>6, <1>7, <1>8 DEF Save

LEMMA CheckCancelIInv ==
  ASSUME IInv, NEW w \in Workers, CheckCancel(w)
  PROVE  IInv'
<1>1. TypeOK
  BY DEF IInv
<1>2. CASE job.cancel
  <2>1. /\ job' = Update(w, DeadLetter(job, "cancelled")) /\ Goto(w, "idle")
        /\ UNCHANGED <<snapshot, people>>
    BY <1>2 DEF CheckCancel, Rest
  <2>2. /\ job' \in Jobs /\ job'.max = job.max /\ job'.attempts = job.attempts
        /\ job'.state = "succeeded" => job.state = "succeeded"
    BY <1>1, <2>1, DeadLetterType, Fenced
  <2>3. job.attempts <= Budget(requeued)
    BY BudgetHolds DEF IInv
  <2>4. /\ snapshot' \in [row : BOOLEAN, evidence : BOOLEAN] /\ snapshot' = snapshot
        /\ job'.state = "succeeded" => snapshot'.row
    BY <1>1, <2>1, <2>2 DEF TypeOK, IInv, SucceededIsSaved
  <2>5. /\ "idle" \in WorkerStates /\ UNCHANGED request
        /\ UNCHANGED <<ledger, asked, requeued, acted>>
    BY <2>1 DEF WorkerStates, people
  <2>6. QED  BY <2>1, <2>2, <2>3, <2>4, <2>5, WorkerSteps
<1>3. CASE ~job.cancel
  BY <1>3, RenewSteps DEF CheckCancel
<1>4. QED  BY <1>2, <1>3

LEMMA WorkIInv ==
  ASSUME IInv, NEW w \in Workers, Work(w)
  PROVE  IInv'
<1>1. CASE ExtractFails(w)
  BY <1>1, ScheduleSteps DEF ExtractFails
<1>2. QED  BY <1>1, CheckCancelIInv, SaveIInv DEF Work

LEMMA WorkerDiesIInv ==
  ASSUME IInv, NEW w \in Workers, WorkerDies(w)
  PROVE  IInv'
<1>1. /\ Goto(w, "idle") /\ UNCHANGED <<job, snapshot, people>>
      /\ snapshot \in [row : BOOLEAN, evidence : BOOLEAN]
  BY DEF WorkerDies, Rest, IInv, TypeOK
<1>2. "idle" \in WorkerStates
  BY DEF WorkerStates
<1>3. QED  BY <1>1, <1>2, SavingSteps

LEMMA AgesIInv ==
  ASSUME IInv, HeartbeatAges
  PROVE  IInv'
<1>1. TypeOK /\ UNCHANGED <<snapshot, worker, people>>
  BY DEF IInv, HeartbeatAges
<1>2. /\ job' \in Jobs /\ job'.max = job.max /\ job'.attempts = job.attempts
      /\ job'.state = job.state
  BY <1>1, BeatingType DEF HeartbeatAges
<1>3. TypeOK'
  BY <1>1, <1>2 DEF TypeOK, people
<1>4. SucceededIsSaved' /\ TriesAreBounded' /\ KeyActsOnce'
  BY <1>1, <1>2 DEF IInv, SucceededIsSaved, TriesAreBounded, KeyActsOnce, people
<1>5. /\ \A w \in Workers : WorkFits(w)'
      /\ \A c \in Callers : RequestFits(c)'
      /\ \A k \in Keys : KeyFits(k)'
  BY <1>1 DEF IInv, WorkFits, RequestFits, KeyFits, people, Budget
<1>6. QED  BY <1>3, <1>4, <1>5 DEF IInv

-----------------------------------------------------------------------------
(* Requests *)

(* A caller goes on: the job is no further, and the budget, if it is       *)
(* raised, is paid for.                                                    *)
LEMMA CallerSteps ==
  ASSUME IInv, NEW c \in Callers, NEW r \in RequestStates,
         request' = [request EXCEPT ![c] = r],
         requeued' \in {requeued, requeued + 1},
         r.attempts <= Budget(requeued'),
         r.pc \in {"key", "settle"} => r.key \in Keys,
         job' \in Jobs, job'.attempts = job.attempts,
         job'.max <= Budget(requeued'),
         job'.state = "succeeded" => job.state = "succeeded",
         asked' \in 0..MaxRequests, UNCHANGED <<snapshot, worker>>,
         ledger' \in [Keys -> {"none", "pending", "settled"}],
         acted' \in [Keys -> Nat],
         KeyActsOnce', \A k \in Keys : KeyFits(k)'
  PROVE  IInv'
<1>1. TypeOK /\ requeued \in Nat /\ requeued' \in Nat
  BY DEF IInv, TypeOK
<1>2. Budget(requeued) <= Budget(requeued')
  <2>1. CASE requeued' = requeued
    BY <1>1, <2>1, BudgetIsNat DEF Budget
  <2>2. CASE requeued' = requeued + 1
    <3>1. Budget(requeued') = Budget(requeued) + MaxAttempts
      BY <1>1, <2>2, BudgetGrows
    <3>2. QED  BY <1>1, <3>1, BudgetIsNat
  <2>3. QED  BY <2>1, <2>2
<1>3. Budget(requeued) \in Nat /\ Budget(requeued') \in Nat
  BY <1>1, BudgetIsNat
<1>4. TypeOK'
  BY <1>1 DEF TypeOK
<1>5. SucceededIsSaved'
  BY DEF IInv, SucceededIsSaved
<1>6. TriesAreBounded'
  <2>1. job.attempts <= Budget(requeued) /\ job.attempts \in Nat
    BY <1>1, BudgetHolds DEF IInv, TypeOK, Jobs
  <2>2. job'.attempts <= Budget(requeued')
    BY <1>2, <1>3, <2>1
  <2>3. QED  BY <2>2 DEF TriesAreBounded, Budget
<1>7. \A w \in Workers : WorkFits(w)'
  BY DEF IInv, WorkFits
<1>8. ASSUME NEW d \in Callers PROVE RequestFits(d)'
  <2>1. Budget(requeued)' = Budget(requeued')
    BY DEF Budget
  <2>2. CASE d = c
    BY <1>1, <2>1, <2>2 DEF RequestFits, TypeOK
  <2>3. CASE d # c
    <3>1. request'[d] = request[d] /\ RequestFits(d) /\ request[d].attempts \in Nat
      BY <1>1, <2>3 DEF IInv, TypeOK, RequestStates
    <3>2. QED  BY <1>2, <1>3, <2>1, <3>1 DEF RequestFits
  <2>4. QED  BY <2>2, <2>3
<1>9. QED  BY <1>4, <1>5, <1>6, <1>7, <1>8 DEF IInv

(* What a request leaves in its slot when it goes on, and when it is over. *)
LEMMA GoOnLeaves ==
  ASSUME IInv, NEW c \in Callers, NEW pc \in {"flag", "close", "requeue",
         "list", "reap", "read"}, GoOn(c, pc)
  PROVE  \E r \in RequestStates :
           /\ request' = [request EXCEPT ![c] = r]
           /\ r.attempts <= Budget(requeued)
           /\ r.pc \notin {"key", "settle"}
<1> DEFINE r == [request[c] EXCEPT !.pc = pc]
<1>1. request[c] \in RequestStates /\ request[c].attempts <= Budget(requeued)
  BY DEF IInv, TypeOK, RequestFits
<1>2. r \in RequestStates /\ r.attempts = request[c].attempts /\ r.pc = pc
  BY <1>1 DEF RequestStates
<1>3. request' = [request EXCEPT ![c] = r]
  BY DEF GoOn
<1>4. QED  BY <1>1, <1>2, <1>3

LEMMA OverLeaves ==
  ASSUME IInv, NEW c \in Callers, Over(c)
  PROVE  \E r \in RequestStates :
           /\ request' = [request EXCEPT ![c] = r]
           /\ r.attempts = 0
           /\ r.pc \in {"key", "settle"} => r.key \in Keys
<1>1. request[c] \in RequestStates
  BY DEF IInv, TypeOK
<1>2. CASE request[c].key = Nobody
  <2>1. NoRequest.attempts = 0 /\ NoRequest.pc = "idle"
    BY DEF NoRequest
  <2>2. QED  BY <1>2, <2>1, NoRequestType DEF Over
<1>3. CASE request[c].key # Nobody
  <2> DEFINE r == [NoRequest EXCEPT !.pc = "settle", !.key = request[c].key]
  <2>1. request[c].key \in Keys
    BY <1>1, <1>3 DEF RequestStates
  <2>2. r \in RequestStates /\ r.attempts = 0 /\ r.key = request[c].key
    BY <2>1 DEF NoRequest, RequestStates
  <2>3. QED  BY <1>3, <2>1, <2>2 DEF Over
<1>4. QED  BY <1>2, <1>3

(* A caller that touches neither the job nor a key. *)
LEMMA ReaderSteps ==
  ASSUME IInv, NEW c \in Callers, NEW r \in RequestStates,
         request' = [request EXCEPT ![c] = r],
         r.attempts <= Budget(requeued),
         r.pc \in {"key", "settle"} => r.key \in Keys,
         asked' \in 0..MaxRequests,
         job' \in Jobs, job'.attempts = job.attempts, job'.max = job.max,
         job'.state = "succeeded" => job.state = "succeeded",
         UNCHANGED <<snapshot, worker, ledger, requeued, acted>>
  PROVE  IInv'
<1>1. job'.max <= Budget(requeued') /\ r.attempts <= Budget(requeued')
  BY BudgetHolds DEF IInv
<1>2. /\ ledger' \in [Keys -> {"none", "pending", "settled"}]
      /\ acted' \in [Keys -> Nat]
  BY DEF IInv, TypeOK
<1>3. KeyActsOnce' /\ \A k \in Keys : KeyFits(k)'
  BY DEF IInv, KeyActsOnce, KeyFits
<1>4. QED  BY <1>1, <1>2, <1>3, CallerSteps

LEMMA AskIInv ==
  ASSUME IInv, NEW c \in Callers, OwnerAsks(c) \/ \E key \in Keys : OperatorAsks(c, key)
  PROVE  IInv'
<1>1. TypeOK /\ Budget(requeued) \in Nat
  BY BudgetIsNat DEF IInv, TypeOK
<1>2. /\ UNCHANGED <<job, snapshot, worker, ledger, requeued, acted>>
      /\ asked' \in 0..MaxRequests
  <2>1. Ask(c) /\ UNCHANGED <<job, snapshot, worker, ledger, requeued, acted>>
    BY Zenon DEF OwnerAsks, OperatorAsks
  <2>2. QED  BY <1>1, <2>1 DEF Ask, TypeOK
<1>3. job' \in Jobs /\ job' = job
  BY <1>1, <1>2 DEF TypeOK
<1>4. CASE OwnerAsks(c)
  <2>1. PICK act \in {"cancel", "retry", "again", "resume"} :
          request' = [request EXCEPT ![c] = [NoRequest EXCEPT !.pc = "read", !.act = act]]
    BY <1>4 DEF OwnerAsks
  <2> DEFINE r == [NoRequest EXCEPT !.pc = "read", !.act = act]
  <2>2. request' = [request EXCEPT ![c] = r]
    BY <2>1
  <2>3. r \in RequestStates /\ r.attempts = 0 /\ r.pc = "read"
    BY DEF NoRequest, RequestStates
  <2> HIDE DEF r
  <2>4. r.attempts <= Budget(requeued)
    BY <1>1, <2>3
  <2>5. QED  BY <1>2, <1>3, <2>2, <2>3, <2>4, ReaderSteps
<1>5. ASSUME NEW key \in Keys, OperatorAsks(c, key) PROVE IInv'
  <2>1. PICK act \in {"cancel", "retry", "resume", "none"} :
          request' = [request EXCEPT ![c] =
            [NoRequest EXCEPT !.pc = "key", !.key = key, !.act = act]]
    BY <1>5 DEF OperatorAsks
  <2> DEFINE r == [NoRequest EXCEPT !.pc = "key", !.key = key, !.act = act]
  <2>2. request' = [request EXCEPT ![c] = r]
    BY <2>1
  <2>3. r \in RequestStates /\ r.attempts = 0 /\ r.key = key
    BY DEF NoRequest, RequestStates
  <2> HIDE DEF r
  <2>4. r.attempts <= Budget(requeued)
    BY <1>1, <2>3
  <2>5. QED  BY <1>2, <1>3, <2>2, <2>3, <2>4, ReaderSteps
<1>6. QED  BY <1>4, <1>5

LEMMA ReadIInv ==
  ASSUME IInv, NEW c \in Callers, Read(c)
  PROVE  IInv'
<1>1. /\ TypeOK /\ Budget(requeued) \in Nat
      /\ job.attempts \in Nat /\ job.attempts <= Budget(requeued)
  BY BudgetIsNat, BudgetHolds DEF IInv, TypeOK, Jobs
<1>2. /\ UNCHANGED <<job, snapshot, worker, ledger, asked, requeued, acted>>
      /\ asked' \in 0..MaxRequests /\ job' \in Jobs /\ job' = job
  BY <1>1 DEF Read, TypeOK
<1>3. CASE Over(c)
  BY <1>1, <1>2, <1>3, OverLeaves, ReaderSteps
<1>4. CASE ~Over(c)
  <2>1. Then(request[c].act) \in {"flag", "requeue", "list", "over"}
    BY Zenon DEF Then
  <2> DEFINE pc == Then(request[c].act)
             attempts == IF pc = "requeue" THEN job.attempts ELSE 0
             r == [request[c] EXCEPT !.act = "none", !.pc = pc, !.attempts = attempts]
  <2>2. pc \in {"flag", "requeue", "list"} /\ request' = [request EXCEPT ![c] = r]
    BY <1>4, <2>1 DEF Read
  <2> HIDE DEF pc
  <2>3. request[c] \in RequestStates /\ attempts \in Nat /\ attempts <= Budget(requeued)
    BY <1>1 DEF TypeOK
  <2> HIDE DEF attempts
  <2>4. r \in RequestStates /\ r.attempts = attempts /\ r.pc = pc
    BY <2>2, <2>3 DEF RequestStates
  <2>5. QED  BY <1>1, <1>2, <2>2, <2>3, <2>4, ReaderSteps
<1>5. QED  BY <1>3, <1>4

LEMMA FlagCancelIInv ==
  ASSUME IInv, NEW c \in Callers, FlagCancel(c)
  PROVE  IInv'
<1>1. TypeOK /\ asked \in 0..MaxRequests
  BY DEF IInv, TypeOK
<1>2. /\ job' \in Jobs /\ job'.attempts = job.attempts /\ job'.max = job.max
      /\ job'.state = job.state
  BY <1>1 DEF FlagCancel, TypeOK, Jobs
<1>3. /\ GoOn(c, "close") /\ UNCHANGED <<snapshot, worker, ledger, requeued, acted>>
      /\ asked' \in 0..MaxRequests
  BY <1>1 DEF FlagCancel
<1>4. QED  BY <1>2, <1>3, GoOnLeaves, ReaderSteps

(* The two places that close an import, and the places that only look.     *)
LEMMA ClosingSteps ==
  ASSUME IInv, NEW c \in Callers, Over(c) \/ GoOn(c, "list"),
         NEW code \in {"cancelled", "attempts_exhausted", "final"},
         job' \in {job, DeadLetter(job, code)},
         UNCHANGED <<snapshot, worker, ledger, asked, requeued, acted>>
  PROVE  IInv'
<1>1. TypeOK /\ asked' \in 0..MaxRequests /\ Budget(requeued) \in Nat
  BY BudgetIsNat DEF IInv, TypeOK
<1>2. /\ job' \in Jobs /\ job'.attempts = job.attempts /\ job'.max = job.max
      /\ job'.state = "succeeded" => job.state = "succeeded"
  BY <1>1, DeadLetterType DEF TypeOK
<1>3. CASE Over(c)
  BY <1>1, <1>2, <1>3, OverLeaves, ReaderSteps
<1>4. CASE GoOn(c, "list")
  BY <1>1, <1>2, <1>4, GoOnLeaves, ReaderSteps
<1>5. QED  BY <1>3, <1>4

LEMMA CloseCancelledIInv ==
  ASSUME IInv, NEW c \in Callers, CloseCancelled(c)
  PROVE  IInv'
  BY ClosingSteps DEF CloseCancelled

LEMMA ReapIInv ==
  ASSUME IInv, NEW c \in Callers, Reap(c)
  PROVE  IInv'
<1>1. PICK code \in {"cancelled", "attempts_exhausted"} :
        job' \in {job, DeadLetter(job, code)}
  BY DEF Reap
<1>2. Over(c) /\ UNCHANGED <<snapshot, worker, ledger, asked, requeued, acted>>
  BY DEF Reap
<1>3. QED  BY <1>1, <1>2, ClosingSteps

LEMMA ListIInv ==
  ASSUME IInv, NEW c \in Callers, List(c)
  PROVE  IInv'
<1>1. TypeOK /\ RequestFits(c)
  BY DEF IInv
<1>2. UNCHANGED <<job, snapshot, worker, ledger, asked, requeued, acted>>
  BY DEF List
<1>3. CASE Over(c)
  BY <1>2, <1>3, ClosingSteps
<1>4. CASE ~Over(c)
  <2> DEFINE act == IF job.cancel THEN "cancel" ELSE "retry"
             r == [request[c] EXCEPT !.pc = "reap", !.late = FALSE, !.act = act]
  <2>1. request' = [request EXCEPT ![c] = r]
    BY <1>4 DEF List
  <2>2. r \in RequestStates /\ r.attempts = request[c].attempts /\ r.pc = "reap"
    BY <1>1 DEF TypeOK, RequestStates
  <2>3. r.attempts <= Budget(requeued) /\ asked' \in 0..MaxRequests /\ job' \in Jobs
    BY <1>1, <1>2, <2>2 DEF RequestFits, TypeOK
  <2>4. QED  BY <1>2, <2>1, <2>2, <2>3, ReaderSteps
<1>5. QED  BY <1>3, <1>4

(* The budget a requeue gives is the one of the tries that were read: no   *)
(* more than what one more requeue pays for.                               *)
LEMMA RequeueIInv ==
  ASSUME IInv, NEW c \in Callers, Requeue(c)
  PROVE  IInv'
<1>1. TypeOK /\ RequestFits(c) /\ requeued \in Nat /\ Budget(requeued) \in Nat
  BY BudgetIsNat DEF IInv, TypeOK
<1>2. /\ Over(c) /\ UNCHANGED <<snapshot, worker, ledger, asked, acted>>
  BY DEF Requeue
<1>3. CASE UNCHANGED <<job, requeued>>
  <2>1. job' \in {job, DeadLetter(job, "final")}
    BY <1>3
  <2>2. QED  BY <1>2, <1>3, <2>1, ClosingSteps
<1>4. CASE ~UNCHANGED <<job, requeued>>
  <2> DEFINE max == request[c].attempts + MaxAttempts
  <2>1. /\ job' = [job EXCEPT !.state = "queued", !.code = "none",
                              !.cancel = FALSE, !.max = max]
        /\ requeued' = requeued + 1
    BY <1>4 DEF Requeue
  <2>2. /\ job \in Jobs /\ request[c].attempts \in Nat
        /\ request[c].attempts <= Budget(requeued)
    BY <1>1 DEF TypeOK, RequestStates, RequestFits
  <2>3. /\ max \in Nat /\ max <= Budget(requeued + 1)
    BY <1>1, <2>2, BudgetGrows
  <2> HIDE DEF max
  <2>4. /\ job' \in Jobs /\ job'.attempts = job.attempts /\ job'.max = max
        /\ job'.state = "queued"
    BY <2>1, <2>2, <2>3 DEF Jobs
  <2>5. Budget(requeued') \in Nat /\ requeued' \in Nat
    BY <1>1, <2>1, BudgetIsNat
  <2>6. PICK r \in RequestStates :
          /\ request' = [request EXCEPT ![c] = r] /\ r.attempts = 0
          /\ r.pc \in {"key", "settle"} => r.key \in Keys
    BY <1>2, OverLeaves
  <2>7. /\ ledger' \in [Keys -> {"none", "pending", "settled"}]
        /\ acted' \in [Keys -> Nat] /\ asked' \in 0..MaxRequests
    BY <1>1, <1>2 DEF TypeOK
  <2>8. KeyActsOnce' /\ \A k \in Keys : KeyFits(k)'
    BY <1>2 DEF IInv, KeyActsOnce, KeyFits
  <2>9. /\ r.attempts <= Budget(requeued') /\ job'.max <= Budget(requeued')
        /\ requeued' \in {requeued, requeued + 1}
    BY <2>1, <2>3, <2>4, <2>5, <2>6
  <2>10. QED  BY <1>2, <2>4, <2>6, <2>7, <2>8, <2>9, CallerSteps
<1>5. QED  BY <1>3, <1>4

(* A key is used up as it acts. *)
LEMMA ClaimKeyIInv ==
  ASSUME IInv, NEW c \in Callers, ClaimKey(c)
  PROVE  IInv'
<1>1. /\ TypeOK /\ Budget(requeued) \in Nat /\ NoRequest.attempts = 0
      /\ NoRequest.pc = "idle"
  BY BudgetIsNat DEF IInv, TypeOK, NoRequest
<1>2. /\ UNCHANGED <<job, snapshot, worker, asked, requeued>>
      /\ job' \in Jobs /\ asked' \in 0..MaxRequests
  BY <1>1 DEF ClaimKey, TypeOK
<1> DEFINE key == request[c].key
<1>3. key \in Keys
  BY DEF ClaimKey, Does, IInv, RequestFits
<1>4. CASE Fresh(c)
  <2>1. /\ ledger' = [ledger EXCEPT ![key] = "pending"]
        /\ acted' = [acted EXCEPT ![key] = acted[key] + 1]
        /\ GoOn(c, "read") /\ ledger[key] = "none"
    BY <1>4 DEF ClaimKey, Fresh
  <2>2. acted[key] = 0
    BY <1>3, <2>1 DEF IInv, KeyFits
  <2> HIDE DEF key
  <2>3. /\ ledger' \in [Keys -> {"none", "pending", "settled"}]
        /\ acted' \in [Keys -> Nat]
    BY <1>1, <1>3, <2>1 DEF TypeOK
  <2>4. KeyActsOnce' /\ \A k \in Keys : KeyFits(k)'
    BY <1>1, <1>3, <2>1, <2>2 DEF IInv, TypeOK, KeyActsOnce, KeyFits
  <2>5. PICK r \in RequestStates :
          /\ request' = [request EXCEPT ![c] = r]
          /\ r.attempts <= Budget(requeued)
          /\ r.pc \notin {"key", "settle"}
    BY <2>1, GoOnLeaves
  <2>6. job'.max <= Budget(requeued')
    BY <1>2, BudgetHolds DEF IInv
  <2>7. QED  BY <1>2, <2>3, <2>4, <2>5, <2>6, CallerSteps
<1>5. CASE ~Fresh(c)
  <2>1. /\ request' = [request EXCEPT ![c] = NoRequest]
        /\ UNCHANGED <<ledger, acted>>
    BY <1>5 DEF ClaimKey
  <2>2. NoRequest.attempts <= Budget(requeued)
    BY <1>1
  <2>3. QED  BY <1>1, <1>2, <2>1, <2>2, NoRequestType, ReaderSteps
<1>6. QED  BY <1>4, <1>5

LEMMA SettleIInv ==
  ASSUME IInv, NEW c \in Callers, Settle(c)
  PROVE  IInv'
<1>1. /\ TypeOK /\ Budget(requeued) \in Nat /\ NoRequest.attempts = 0
      /\ NoRequest.pc = "idle"
  BY BudgetIsNat DEF IInv, TypeOK, NoRequest
<1>2. /\ UNCHANGED <<job, snapshot, worker, asked, requeued, acted>>
      /\ job' \in Jobs /\ asked' \in 0..MaxRequests /\ acted' \in [Keys -> Nat]
      /\ request' = [request EXCEPT ![c] = NoRequest]
  BY <1>1 DEF Settle, TypeOK
<1> DEFINE key == request[c].key
<1>3. key \in Keys /\ ledger' = [ledger EXCEPT ![key] = "settled"]
  BY DEF Settle, Does, IInv, RequestFits
<1> HIDE DEF key
<1>4. /\ ledger' \in [Keys -> {"none", "pending", "settled"}]
      /\ KeyActsOnce' /\ \A k \in Keys : KeyFits(k)'
  BY <1>1, <1>2, <1>3 DEF IInv, TypeOK, KeyActsOnce, KeyFits
<1>5. job'.max <= Budget(requeued') /\ NoRequest.attempts <= Budget(requeued')
  BY <1>1, <1>2, BudgetHolds DEF IInv
<1>6. QED  BY <1>1, <1>2, <1>4, <1>5, NoRequestType, CallerSteps

-----------------------------------------------------------------------------
LEMMA NextIInv ==
  ASSUME IInv, [Next]_vars
  PROVE  IInv'
<1>1. ASSUME NEW w \in Workers, Claim(w) \/ Heartbeat(w) \/ Work(w) \/ WorkerDies(w)
      PROVE IInv'
  BY <1>1, ClaimIInv, HeartbeatIInv, WorkIInv, WorkerDiesIInv
<1>2. ASSUME NEW c \in Callers, Serve(c) PROVE IInv'
  BY <1>2, ReadIInv, FlagCancelIInv, CloseCancelledIInv, RequeueIInv, ListIInv,
     ReapIInv, ClaimKeyIInv, SettleIInv DEF Serve, Reconcile
<1>3. ASSUME NEW c \in Callers, OwnerAsks(c) PROVE IInv'
  BY <1>3, AskIInv
<1>4. ASSUME NEW c \in People, NEW key \in Keys, OperatorAsks(c, key) PROVE IInv'
  <2>1. c \in Callers
    BY DEF Callers
  <2>2. QED  BY <1>4, <2>1, AskIInv
<1>5. CASE HeartbeatAges
  BY <1>5, AgesIInv
<1>6. CASE UNCHANGED vars
  BY <1>6 DEF vars, people, IInv, TypeOK, SucceededIsSaved, TriesAreBounded,
     KeyActsOnce, WorkFits, RequestFits, KeyFits, Budget
<1>7. QED  BY <1>1, <1>2, <1>3, <1>4, <1>5, <1>6 DEF Next

(* What a worker, a caller and a key still rely on when they act.          *)
THEOREM ImportInvariant == Spec => []IInv
<1>1. Init => IInv
  BY InitIInv
<1>2. IInv /\ [Next]_vars => IInv'
  BY NextIInv
<1>3. QED  BY <1>1, <1>2, PTL DEF Spec

(* The rows and the slots of workers and callers stay in their types.      *)
THEOREM ImportTypes == Spec => []TypeOK
<1>1. IInv => TypeOK
  BY DEF IInv
<1>2. QED  BY <1>1, ImportInvariant, PTL

(* An import that succeeded has its snapshot (runImportJob).               *)
THEOREM SavedHolds == Spec => []SucceededIsSaved
<1>1. IInv => SucceededIsSaved
  BY DEF IInv
<1>2. QED  BY <1>1, ImportInvariant, PTL

(* Every budget of tries was paid for by a requeue (requeue,               *)
(* claim_durable_job).                                                     *)
THEOREM TriesHold == Spec => []TriesAreBounded
<1>1. IInv => TriesAreBounded
  BY DEF IInv
<1>2. QED  BY <1>1, ImportInvariant, PTL

(* A key of an operator acts at most once (performOpsAction).              *)
THEOREM KeysHold == Spec => []KeyActsOnce
<1>1. IInv => KeyActsOnce
  BY DEF IInv
<1>2. QED  BY <1>1, ImportInvariant, PTL

-----------------------------------------------------------------------------
(* What has ended *)

LEMMA WorkKeepsEnded ==
  ASSUME Ended, NEW w \in Workers, Heartbeat(w) \/ Work(w) \/ WorkerDies(w)
  PROVE  job' = job
<1>1. \A row : Update(w, row) = job
  BY DEF Ended, Update
<1>2. CASE Heartbeat(w)
  BY <1>1, <1>2 DEF Heartbeat, Renew
<1>3. CASE ExtractFails(w) \/ SaveFails(w)
  BY <1>1, <1>3, Zenon DEF ExtractFails, SaveFails, ScheduleOrFail
<1>4. CASE CheckCancel(w)
  BY <1>1, <1>4 DEF CheckCancel, Renew
<1>5. CASE Succeed(w)
  BY <1>1, <1>5 DEF Succeed
<1>6. CASE LookUp(w) \/ SaveProject(w) \/ ClearEvidence(w) \/ InsertEvidence(w)
             \/ WorkerDies(w)
  BY <1>6 DEF LookUp, SaveProject, ClearEvidence, InsertEvidence, WorkerDies
<1>7. QED  BY <1>2, <1>3, <1>4, <1>5, <1>6 DEF Work, Save

LEMMA NextKeepsEnded ==
  ASSUME IInv, [Next]_vars, Ended
  PROVE  \/ job' = [job EXCEPT !.cancel = job'.cancel]
         \/ job.state = "dead_letter" /\ requeued' > requeued
<1>1. job \in Jobs /\ job = [job EXCEPT !.cancel = job.cancel] /\ requeued \in Nat
  BY DEF IInv, TypeOK, Jobs
<1>2. ASSUME NEW w \in Workers PROVE ~Claim(w)
  BY DEF Claim, Claimable, Waiting, Ended
<1>3. ASSUME NEW w \in Workers, Heartbeat(w) \/ Work(w) \/ WorkerDies(w)
      PROVE job' = job
  BY <1>3, WorkKeepsEnded
<1>4. ASSUME NEW c \in Callers, FlagCancel(c)
      PROVE job' = [job EXCEPT !.cancel = job'.cancel]
  <2>1. job' = [job EXCEPT !.cancel = TRUE]
    BY <1>4 DEF FlagCancel
  <2>2. job'.cancel = TRUE
    BY <1>1, <2>1 DEF Jobs
  <2>3. QED  BY <2>1, <2>2
<1>5. ASSUME NEW c \in Callers, Requeue(c)
      PROVE job' = job \/ (job.state = "dead_letter" /\ requeued' > requeued)
  BY <1>1, <1>5 DEF Requeue
<1>6. ASSUME NEW c \in Callers,
             Read(c) \/ CloseCancelled(c) \/ Reconcile(c) \/ ClaimKey(c)
               \/ Settle(c) \/ OwnerAsks(c)
      PROVE job' = job
  BY <1>6, Zenon DEF Ended, Read, CloseCancelled, Waiting, Reconcile, List, Reap, Lost,
     ClaimKey, Settle, OwnerAsks
<1>7. ASSUME NEW c \in People, NEW key \in Keys, OperatorAsks(c, key)
      PROVE job' = job
  BY <1>7 DEF OperatorAsks
<1>8. CASE HeartbeatAges
  BY <1>8 DEF HeartbeatAges, Ended
<1>9. CASE UNCHANGED vars
  BY <1>1, <1>9 DEF vars
<1>10. QED
  BY <1>1, <1>2, <1>3, <1>4, <1>5, <1>6, <1>7, <1>8, <1>9 DEF Next, Serve

(* What has ended stays as it ended until it is put back on request,       *)
(* whatever late workers, cancellations and lists do (update,              *)
(* cancelImport, reconcileImports).                                        *)
THEOREM EndedHolds == Spec => EndedStays
<1>1. IInv /\ [Next]_vars =>
        [Ended => \/ job' = [job EXCEPT !.cancel = job'.cancel]
                  \/ job.state = "dead_letter" /\ requeued' > requeued]_vars
  BY NextKeepsEnded
<1>2. QED  BY <1>1, ImportInvariant, PTL DEF Spec, EndedStays
-----------------------------------------------------------------------------
(* The findings of a snapshot *)

Replacing(w) == worker[w] \in {"clear", "insert"}

(* A worker is over after it wrote the project and before its findings are *)
(* stored: it died, or a statement failed.                                 *)
CutShort ==
  /\ ~snapshot.evidence
  /\ \E w \in Workers : Replacing(w) /\ worker'[w] = "idle"

FoundOrComing ==
  snapshot.row => snapshot.evidence \/ \E w \in Workers : Replacing(w)

(* Who replaces the findings goes on with it, or is cut short.             *)
LEMMA ReplacersGoOn ==
  ASSUME TypeOK, [Next]_vars, NEW w \in Workers, Replacing(w), ~snapshot.evidence
  PROVE  worker'[w] = "idle" \/ Replacing(w)' \/ snapshot'.evidence
<1>1. worker \in [Workers -> WorkerStates]
      /\ snapshot \in [row : BOOLEAN, evidence : BOOLEAN]
  BY DEF TypeOK
<1>2. ASSUME NEW v \in Workers, NEW pc, Goto(v, pc), v # w PROVE Replacing(w)'
  BY <1>1, <1>2 DEF Goto, Replacing
<1>3. ASSUME NEW v \in Workers, Claim(v) \/ CheckCancel(v) \/ LookUp(v) \/ SaveProject(v)
             \/ ExtractFails(v) \/ Succeed(v)
      PROVE Replacing(w)'
  <2>1. v # w
    BY <1>3 DEF Claim, CheckCancel, LookUp, SaveProject, ExtractFails, Succeed, At,
       Replacing
  <2>2. \E pc : Goto(v, pc)
    BY <1>3, Zenon DEF Claim, CheckCancel, LookUp, SaveProject, ExtractFails, Succeed,
       ScheduleOrFail, Rest
  <2>3. QED  BY <1>2, <2>1, <2>2
<1>4. ASSUME NEW v \in Workers, SaveFails(v) \/ WorkerDies(v)
      PROVE worker'[w] = "idle" \/ Replacing(w)'
  <2>1. Goto(v, "idle")
    BY <1>4 DEF SaveFails, WorkerDies, ScheduleOrFail, Rest
  <2>2. CASE v = w
    BY <1>1, <2>1, <2>2 DEF Goto
  <2>3. QED  BY <1>2, <2>1, <2>2
<1>5. ASSUME NEW v \in Workers, ClearEvidence(v) PROVE Replacing(w)'
  <2>1. Goto(v, "insert")
    BY <1>5 DEF ClearEvidence
  <2>2. CASE v = w
    BY <1>1, <2>1, <2>2 DEF Goto, Replacing
  <2>3. QED  BY <1>2, <2>1, <2>2
<1>6. ASSUME NEW v \in Workers, InsertEvidence(v) PROVE snapshot'.evidence
  BY <1>1, <1>6 DEF InsertEvidence
<1>7. ASSUME UNCHANGED worker PROVE Replacing(w)'
  BY <1>7 DEF Replacing
<1>8. ASSUME NEW c \in Callers, Serve(c) \/ OwnerAsks(c) PROVE UNCHANGED worker
  BY <1>8, Zenon DEF Serve, Reconcile, Read, FlagCancel, CloseCancelled, Requeue, List,
     Reap, ClaimKey, Settle, OwnerAsks
<1>9. ASSUME NEW c \in People, NEW key \in Keys, OperatorAsks(c, key)
      PROVE UNCHANGED worker
  BY <1>9 DEF OperatorAsks
<1>10. ASSUME NEW v \in Workers, Heartbeat(v) PROVE UNCHANGED worker
  BY <1>10 DEF Heartbeat
<1>11. CASE HeartbeatAges \/ UNCHANGED vars
  BY <1>7, <1>11 DEF HeartbeatAges, vars
<1>12. QED
  BY <1>3, <1>4, <1>5, <1>6, <1>7, <1>8, <1>9, <1>10, <1>11 DEF Next, Work, Save

(* A project without findings, or findings that are deleted, are the work  *)
(* of a worker that replaces them.                                         *)
LEMMA FindingsGoByReplacing ==
  ASSUME TypeOK, [Next]_vars, snapshot' # snapshot
  PROVE  snapshot'.evidence \/ \E w \in Workers : Replacing(w)'
<1>1. worker \in [Workers -> WorkerStates]
      /\ snapshot \in [row : BOOLEAN, evidence : BOOLEAN]
  BY DEF TypeOK
<1>2. ASSUME NEW v \in Workers, SaveProject(v) \/ ClearEvidence(v) PROVE Replacing(v)'
  BY <1>1, <1>2 DEF SaveProject, ClearEvidence, Goto, Replacing
<1>3. ASSUME NEW v \in Workers, InsertEvidence(v) PROVE snapshot'.evidence
  BY <1>1, <1>3 DEF InsertEvidence
<1>4. ASSUME NEW v \in Workers,
             Claim(v) \/ Heartbeat(v) \/ WorkerDies(v) \/ CheckCancel(v) \/ LookUp(v)
               \/ ExtractFails(v) \/ SaveFails(v) \/ Succeed(v)
      PROVE UNCHANGED snapshot
  BY <1>4, Zenon DEF Claim, Heartbeat, Renew, WorkerDies, CheckCancel, LookUp,
     ExtractFails, SaveFails, Succeed
<1>5. ASSUME NEW c \in Callers, Serve(c) \/ OwnerAsks(c) PROVE UNCHANGED snapshot
  BY <1>5, Zenon DEF Serve, Reconcile, Read, FlagCancel, CloseCancelled, Requeue, List,
     Reap, ClaimKey, Settle, OwnerAsks
<1>6. ASSUME NEW c \in People, NEW key \in Keys, OperatorAsks(c, key)
      PROVE UNCHANGED snapshot
  BY <1>6 DEF OperatorAsks
<1>7. CASE HeartbeatAges \/ UNCHANGED vars
  BY <1>7 DEF HeartbeatAges, vars
<1>8. QED  BY <1>2, <1>3, <1>4, <1>5, <1>6, <1>7 DEF Next, Work, Save

(* If nobody is cut short between the project and its findings, a snapshot *)
(* lacks its findings only while a worker stores them: cutting one short   *)
(* there is the only way to the import that succeeded without them         *)
(* (saveProjectVersion; the run import_findings shows that way).           *)
THEOREM FindingsMissOnlyWhenCutShort ==
  Spec /\ [][~CutShort]_vars => []FoundOrComing
<1>1. Init => FoundOrComing
  BY DEF Init, FoundOrComing
<1>2. ASSUME IInv, FoundOrComing, [Next]_vars, [~CutShort]_vars PROVE FoundOrComing'
  <2>1. TypeOK
    BY <1>2 DEF IInv
  <2>2. CASE snapshot' # snapshot
    BY <1>2, <2>1, <2>2, FindingsGoByReplacing DEF FoundOrComing
  <2>3. CASE snapshot' = snapshot
    <3> SUFFICES ASSUME snapshot.row, ~snapshot.evidence
                 PROVE  \E w \in Workers : Replacing(w)'
      BY <2>3 DEF FoundOrComing
    <3>1. PICK w \in Workers : Replacing(w)
      BY <1>2 DEF FoundOrComing
    <3>2. CASE UNCHANGED vars
      BY <3>1, <3>2 DEF vars, Replacing
    <3>3. CASE worker'[w] # "idle"
      BY <1>2, <2>1, <2>3, <3>1, <3>3, ReplacersGoOn
    <3>4. QED  BY <1>2, <3>1, <3>2, <3>3 DEF CutShort
  <2>4. QED  BY <2>2, <2>3
<1>3. QED  BY <1>1, <1>2, ImportInvariant, PTL DEF Spec
=============================================================================
