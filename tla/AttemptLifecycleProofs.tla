----------------------- MODULE AttemptLifecycleProofs -----------------------
(***************************************************************************)
(* Proofs about AttemptLifecycle, for any number of requests and any       *)
(* values of the bounds.                                                   *)
(***************************************************************************)
EXTENDS AttemptLifecycle, TLAPS

Started == {"in_progress", "submitted", "withdrawn"}

(* The attempt has been started with consent, whatever became of it since. *)
WasStarted == attempt.status \in Started /\ attempt.consented

(* What a slot may hold, given the tables: the copy is no further than the *)
(* row, and each point of a handler is reached only after what it relies   *)
(* on has been written.                                                    *)
SlotFine(s) ==
  /\ s.seen.updated => attempt.updated
  /\ s.seen.consented => attempt.consented
  /\ s.seen.status \in {"in_progress", "submitted"} => WasStarted
  /\ s.kind \in CandidateKinds \cup {"extend"} => attempt.status # "absent"
  /\ s.pc = "release" \/ s.back = "before" => WasStarted
  /\ s.pc \in {"post", "announce"} => s.seen.updated
  /\ s.pc = "record" => s.back = "before"
  /\ s.pc \in {"close", "accepted", "enqueue"} => submission # "none"
  /\ s.pc \in {"accepted", "enqueue"} =>
       attempt.status \in {"submitted", "withdrawn"}
  /\ s.pc = "enqueue" => "submission_accepted" \in events
  /\ ~CallsFail =>
       /\ s.pc = "record" => attempt.updated
       /\ s.pc = "reread" /\ s.back = "before" => attempt.updated

RowsFine ==
  /\ attempt.status = "absent" => ~attempt.updated /\ ~attempt.consented
  /\ attempt.status \in {"preflight_passed", "in_progress", "submitted"} =>
       attempt.consented
  /\ submission # "none" => WasStarted
  /\ ~CallsFail /\ submission # "none" => attempt.updated

(* The inductive invariant. *)
IInv ==
  /\ TypeOK
  /\ RowsFine
  /\ CompletionIsOrdered
  /\ ReceiptsAreHonoured
  /\ \A q \in Requests : SlotFine(req[q])

-----------------------------------------------------------------------------
USE TimesAssumption, CallsFailAssumption

LEMMA NoAttemptType == NoAttempt \in Attempts
  BY DEF NoAttempt, Attempts, Statuses

LEMMA IdleType == Idle \in Slots
  BY NoAttemptType DEF Idle, Slots, Pcs, Lateness

LEMMA IdleFine == SlotFine(Idle)
  BY DEF SlotFine, Idle, NoAttempt, CandidateKinds

LEMMA InitIInv == Init => IInv
<1> SUFFICES ASSUME Init PROVE IInv
  OBVIOUS
<1>1. TypeOK
  BY NoAttemptType, IdleType DEF Init, TypeOK, Events
<1>2. RowsFine /\ CompletionIsOrdered /\ ReceiptsAreHonoured
  BY DEF Init, RowsFine, CompletionIsOrdered, ReceiptsAreHonoured, NoAttempt
<1>3. \A q \in Requests : SlotFine(req[q])
  BY IdleFine DEF Init
<1>4. QED  BY <1>1, <1>2, <1>3 DEF IInv

-----------------------------------------------------------------------------
(* One slot changes *)

Stepped(q) ==
  /\ req' \in [Requests -> Slots]
  /\ \A p \in Requests \ {q} : req'[p] = req[p]

LEMMA GoSteps ==
  ASSUME TypeOK, NEW q \in Requests, NEW pc \in Pcs, Go(q, pc)
  PROVE  /\ Stepped(q)
         /\ req'[q].pc = pc
         /\ req'[q].seen = req[q].seen
         /\ req'[q].back = req[q].back
         /\ req'[q].kind = req[q].kind
  BY DEF TypeOK, Go, Stepped, Slots

LEMMA GoWithSteps ==
  ASSUME TypeOK, NEW q \in Requests, NEW pc \in Pcs, NEW row \in Attempts,
         GoWith(q, pc, row)
  PROVE  /\ Stepped(q)
         /\ req'[q].pc = pc
         /\ req'[q].seen = row
         /\ req'[q].back = req[q].back
         /\ req'[q].kind = req[q].kind
  BY DEF TypeOK, GoWith, Stepped, Slots

LEMMA CallSteps ==
  ASSUME TypeOK, NEW q \in Requests, NEW from \in {"gate", "before", "load"},
         Call(q, from)
  PROVE  /\ Stepped(q)
         /\ req'[q].pc = "release"
         /\ req'[q].seen = req[q].seen
         /\ req'[q].back = from
         /\ req'[q].kind = req[q].kind
<1> DEFINE new == [req[q] EXCEPT !.pc = "release", !.back = from]
<1>1. req' = [req EXCEPT ![q] = new]
  BY DEF TypeOK, Call
<1>2. /\ new \in Slots
      /\ new.pc = "release" /\ new.seen = req[q].seen /\ new.back = from
      /\ new.kind = req[q].kind
  BY DEF TypeOK, Slots, Pcs
<1>3. QED  BY <1>1, <1>2 DEF TypeOK, Stepped

LEMMA FinishSteps ==
  ASSUME TypeOK, NEW q \in Requests, Finish(q)
  PROVE  Stepped(q) /\ req'[q] = Idle
  BY IdleType DEF TypeOK, Finish, Stepped

(* Where releaseUpdate returns to. *)
LEMMA ReturnSteps ==
  ASSUME TypeOK, NEW q \in Requests, NEW row \in Attempts, Return(q, row)
  PROVE  /\ Stepped(q)
         /\ \/ /\ req[q].back \in {"gate", "start"}
               /\ req'[q].pc \in {"body", "settle"}
               /\ req'[q].seen = row
               /\ req'[q].back = req[q].back
               /\ req'[q].kind = req[q].kind
            \/ req'[q] = Idle
            \/ /\ req[q].back = "before" /\ ~row.updated
               /\ req'[q].pc = "record"
               /\ req'[q].seen = req[q].seen
               /\ req'[q].back = req[q].back
               /\ req'[q].kind = req[q].kind
<1>1. req[q].back \in {"gate", "before", "load", "start"}
  BY DEF TypeOK, Slots
<1>2. CASE req[q].back = "gate"
  <2>1. GoWith(q, "body", row)
    BY <1>2 DEF Return
  <2>2. QED  BY <2>1, <1>2, GoWithSteps DEF Pcs
<1>3. CASE req[q].back = "start"
  <2>1. GoWith(q, "settle", row)
    BY <1>3 DEF Return
  <2>2. QED  BY <2>1, <1>3, GoWithSteps DEF Pcs
<1>4. CASE req[q].back = "load"
  <2>1. Finish(q)
    BY <1>4 DEF Return
  <2>2. QED  BY <2>1, FinishSteps
<1>5. CASE req[q].back = "before" /\ row.updated
  <2>1. Finish(q)
    BY <1>5 DEF Return
  <2>2. QED  BY <2>1, FinishSteps
<1>6. CASE req[q].back = "before" /\ ~row.updated
  <2>1. Go(q, "record")
    BY <1>6 DEF Return
  <2>2. QED  BY <2>1, <1>6, GoSteps DEF Pcs
<1>7. QED  BY <1>1, <1>2, <1>3, <1>4, <1>5, <1>6

-----------------------------------------------------------------------------
(* The tables only move forward, so what held of a slot still holds. *)

Grows ==
  /\ attempt.updated => attempt'.updated
  /\ attempt.consented => attempt'.consented
  /\ attempt.status # "absent" => attempt'.status # "absent"
  /\ WasStarted => WasStarted'
  /\ attempt.status \in {"submitted", "withdrawn"} =>
       attempt'.status \in {"submitted", "withdrawn"}
  /\ submission # "none" => submission' # "none"
  /\ events \subseteq events'

LEMMA FineStays ==
  ASSUME NEW s \in Slots, Grows, SlotFine(s)
  PROVE  SlotFine(s)'
  BY DEF Grows, SlotFine

LEMMA SlotsStay ==
  ASSUME IInv, NEW q \in Requests, Stepped(q), Grows, SlotFine(req[q])'
  PROVE  (\A p \in Requests : SlotFine(req[p]))'
<1> SUFFICES ASSUME NEW p \in Requests PROVE SlotFine(req[p])'
  OBVIOUS
<1>1. CASE p = q
  BY <1>1
<1>2. CASE p # q
  <2>1. req'[p] = req[p] /\ req[p] \in Slots
    BY <1>2 DEF Stepped, IInv, TypeOK
  <2>2. SlotFine(req[p])
    BY DEF IInv
  <2>3. \A s \in Slots : SlotFine(s) => SlotFine(s)'
    BY FineStays
  <2>4. QED  BY <2>1, <2>2, <2>3 DEF SlotFine, WasStarted
<1>3. QED  BY <1>1, <1>2

(* A step that only reads. *)
LEMMA ReadKeeps ==
  ASSUME IInv, NEW q \in Requests, Stepped(q), Reads, SlotFine(req[q])'
  PROVE  IInv'
<1>1. Grows
  BY DEF Grows, Reads, WasStarted
<1>2. (\A p \in Requests : SlotFine(req[p]))'
  BY <1>1, SlotsStay
<1>3. TypeOK'
  BY DEF IInv, TypeOK, Reads, Stepped
<1>4. (RowsFine /\ CompletionIsOrdered /\ ReceiptsAreHonoured)'
  BY DEF IInv, RowsFine, CompletionIsOrdered, ReceiptsAreHonoured, WasStarted,
         Reads
<1>5. QED  BY <1>2, <1>3, <1>4 DEF IInv

(* A step that writes the attempt and moves it forward. *)
LEMMA AttemptWriteKeeps ==
  ASSUME IInv, NEW q \in Requests, Stepped(q), WritesAttempt, Grows,
         attempt' \in Attempts,
         attempt'.status \in {"preflight_passed", "in_progress", "submitted"}
           => attempt'.consented,
         attempt'.status = "absent" =>
           ~attempt'.updated /\ ~attempt'.consented,
         attempt'.status = "submitted" => submission # "none",
         SlotFine(req[q])'
  PROVE  IInv'
<1>1. (\A p \in Requests : SlotFine(req[p]))'
  BY SlotsStay
<1>2. TypeOK'
  BY DEF IInv, TypeOK, WritesAttempt, Stepped
<1>3. (RowsFine /\ CompletionIsOrdered /\ ReceiptsAreHonoured)'
  BY DEF IInv, RowsFine, CompletionIsOrdered, ReceiptsAreHonoured, WasStarted,
         WritesAttempt, Grows
<1>4. QED  BY <1>1, <1>2, <1>3 DEF IInv

(* A step that records an event. *)
LEMMA LogKeeps ==
  ASSUME IInv, NEW q \in Requests, Stepped(q), NEW event \in Events,
         event = "submission_accepted" =>
           submission # "none" /\ attempt.status \in {"submitted", "withdrawn"},
         events' = events \cup {event},
         UNCHANGED <<invitation, attempt, submission, queued, extensions,
                     thread, elapsed, told, deaths>>,
         SlotFine(req[q])'
  PROVE  IInv'
<1>1. Grows
  BY DEF Grows, WasStarted
<1>2. (\A p \in Requests : SlotFine(req[p]))'
  BY <1>1, SlotsStay
<1>3. TypeOK'
  BY DEF IInv, TypeOK, Stepped
<1>4. (RowsFine /\ CompletionIsOrdered /\ ReceiptsAreHonoured)'
  BY DEF IInv, RowsFine, CompletionIsOrdered, ReceiptsAreHonoured, WasStarted
<1>5. QED  BY <1>2, <1>3, <1>4 DEF IInv

(* A step that writes tables no property of a slot depends on. *)
LEMMA AsideKeeps ==
  ASSUME IInv, NEW q \in Requests, Stepped(q),
         invitation' \in {"invited", "accepted", "withdrawn"},
         thread' \subseteq {"kickoff", "update"},
         extensions' \in Nat, deaths' \in Nat,
         UNCHANGED <<attempt, submission, queued, events, elapsed,
                     told>>,
         SlotFine(req[q])'
  PROVE  IInv'
<1>1. Grows
  BY DEF Grows, WasStarted
<1>2. (\A p \in Requests : SlotFine(req[p]))'
  BY <1>1, SlotsStay
<1>3. TypeOK'
  BY DEF IInv, TypeOK, Stepped
<1>4. (RowsFine /\ CompletionIsOrdered /\ ReceiptsAreHonoured)'
  BY DEF IInv, RowsFine, CompletionIsOrdered, ReceiptsAreHonoured, WasStarted
<1>5. QED  BY <1>2, <1>3, <1>4 DEF IInv

-----------------------------------------------------------------------------
(* Arrivals, deaths and the clock *)

LEMMA CopyFine ==
  ASSUME IInv, NEW s \in Slots, s.seen \in {attempt, NoAttempt},
         s.back = "gate", s.pc \in {"gate", "body", "find"},
         s.kind \in CandidateKinds \cup {"extend"} => attempt.status # "absent"
  PROVE  SlotFine(s)
<1>1. attempt.status \in {"in_progress", "submitted"} => WasStarted
  BY DEF IInv, RowsFine, WasStarted, Started
<1>2. QED  BY <1>1 DEF SlotFine, NoAttempt

LEMMA ArriveKeeps ==
  ASSUME IInv, NEW q \in Requests, NEW kind \in Kinds, Arrive(q, kind)
  PROVE  IInv'
<1> DEFINE new == [Idle EXCEPT !.kind = kind,
                    !.pc = IF kind \in CandidateKinds THEN "gate"
                           ELSE IF kind = "extend" THEN "body" ELSE "find",
                    !.inv = IF kind = "accept" THEN invitation ELSE "invited",
                    !.seen = IF kind \in {"accept", "withdraw"}
                             THEN NoAttempt ELSE attempt]
<1>1. TypeOK
  BY DEF IInv
<1>2. attempt.updated \in BOOLEAN
  BY <1>1 DEF TypeOK, Attempts
<1>3. /\ new \in Slots
      /\ new.seen \in {attempt, NoAttempt} /\ new.back = "gate"
      /\ new.pc \in {"gate", "body", "find"}
      /\ new.kind = kind
  BY <1>1, <1>2, NoAttemptType DEF TypeOK, Idle, Slots, Pcs, Lateness
<1>4. req' = [req EXCEPT ![q] = new]
  BY DEF Arrive
<1>5. Stepped(q) /\ req'[q] = new
  BY <1>1, <1>3, <1>4 DEF TypeOK, Stepped
<1>6. Reads
  BY DEF Arrive, Reads
<1> HIDE DEF new
<1>7. SlotFine(new)
  BY <1>3, CopyFine DEF Arrive, CandidateKinds
<1>8. SlotFine(req[q])'
  BY <1>5, <1>6, <1>7 DEF SlotFine, Reads, WasStarted
<1>9. QED  BY <1>5, <1>6, <1>8, ReadKeeps

LEMMA IdleFineNext ==
  ASSUME NEW q \in Requests, req'[q] = Idle
  PROVE  SlotFine(req[q])'
  BY DEF SlotFine, Idle, NoAttempt, CandidateKinds

LEMMA DieKeeps ==
  ASSUME IInv, NEW q \in Requests, Die(q)
  PROVE  IInv'
<1>1. TypeOK
  BY DEF IInv
<1>2. Stepped(q) /\ req'[q] = Idle
  BY <1>1, FinishSteps DEF Die
<1>3. QED  BY <1>1, <1>2, IdleFineNext, AsideKeeps DEF Die, TypeOK

LEMMA TimeKeeps ==
  ASSUME IInv, TimePasses
  PROVE  IInv'
<1>1. TypeOK'
  BY DEF IInv, TypeOK, TimePasses
<1>2. (RowsFine /\ CompletionIsOrdered /\ ReceiptsAreHonoured)'
  BY DEF IInv, RowsFine, CompletionIsOrdered, ReceiptsAreHonoured, WasStarted,
         TimePasses
<1>3. (\A p \in Requests : SlotFine(req[p]))'
  BY DEF IInv, SlotFine, WasStarted, TimePasses
<1>4. QED  BY <1>1, <1>2, <1>3 DEF IInv

-----------------------------------------------------------------------------
(* Invitations *)

LEMMA AcceptKeeps ==
  ASSUME IInv, NEW q \in Requests, AcceptInvitation(q)
  PROVE  IInv'
<1>1. TypeOK /\ req[q] \in Slots /\ SlotFine(req[q])
  BY DEF IInv, TypeOK
<1>2. CASE AcceptFinds(q)
  <2>1. Stepped(q) /\ SlotFine(req[q])'
    BY <1>1, <1>2, FinishSteps, GoSteps, IdleFineNext
       DEF AcceptFinds, SlotFine, Reads, WasStarted, Pcs
  <2>2. QED  BY <2>1, <1>2, ReadKeeps DEF AcceptFinds
<1>3. CASE AcceptCreates(q)
  <2>1. CASE attempt.status = "absent"
    <3>1. Stepped(q) /\ req'[q].pc = "mark" /\ req'[q].seen = req[q].seen
          /\ req'[q].back = req[q].back
      BY <1>1, <1>3, <2>1, GoSteps DEF AcceptCreates, Pcs
    <3>2. attempt' = [NoAttempt EXCEPT !.status = "accepted"]
      BY <1>3, <2>1 DEF AcceptCreates
    <3>3. attempt' \in Attempts /\ attempt'.status = "accepted"
      BY <3>2, NoAttemptType DEF Attempts, Statuses
    <3>4. Grows
      BY <1>1, <1>3, <2>1, <3>3 DEF IInv, RowsFine, Grows, WasStarted, Started,
         AcceptCreates, WritesAttempt
    <3>5. SlotFine(req[q])'
      BY <1>1, <1>3, <3>1, <3>3, <3>4
         DEF SlotFine, Grows, AcceptCreates, WritesAttempt, In
    <3>6. QED
      BY <1>3, <3>1, <3>3, <3>4, <3>5, AttemptWriteKeeps DEF AcceptCreates
  <2>2. CASE attempt.status # "absent"
    <3>1. Stepped(q) /\ req'[q] = Idle /\ Reads
      BY <1>1, <1>3, <2>2, FinishSteps DEF AcceptCreates, WritesAttempt, Reads
    <3>2. QED  BY <3>1, IdleFineNext, ReadKeeps
  <2>3. QED  BY <2>1, <2>2
<1>4. CASE AcceptMarks(q)
  <2>1. Stepped(q) /\ SlotFine(req[q])'
    BY <1>1, <1>4, GoSteps DEF AcceptMarks, SlotFine, WasStarted, Pcs
  <2>2. QED  BY <1>1, <2>1, <1>4, AsideKeeps DEF AcceptMarks, TypeOK
<1>5. CASE AcceptLogs(q)
  <2>1. Stepped(q) /\ SlotFine(req[q])'
    BY <1>1, <1>5, FinishSteps, IdleFineNext DEF AcceptLogs, Log
  <2>2. QED  BY <2>1, <1>5, LogKeeps DEF AcceptLogs, Log, Events
<1>6. QED  BY <1>2, <1>3, <1>4, <1>5 DEF AcceptInvitation

LEMMA WithdrawKeeps ==
  ASSUME IInv, NEW q \in Requests, WithdrawInvitation(q)
  PROVE  IInv'
<1>1. TypeOK /\ req[q] \in Slots /\ SlotFine(req[q]) /\ attempt \in Attempts
  BY DEF IInv, TypeOK
<1>2. CASE WithdrawFinds(q)
  <2>1. CASE attempt.status = "submitted"
    <3>1. Stepped(q) /\ req'[q] = Idle
      BY <1>1, <1>2, <2>1, FinishSteps DEF WithdrawFinds
    <3>2. QED  BY <1>2, <3>1, IdleFineNext, ReadKeeps DEF WithdrawFinds
  <2>2. CASE attempt.status # "submitted"
    <3>1. /\ Stepped(q) /\ req'[q].pc = "mark" /\ req'[q].seen = attempt
          /\ req'[q].back = req[q].back /\ req'[q].kind = req[q].kind
      BY <1>1, <1>2, <2>2, GoWithSteps DEF WithdrawFinds, Pcs
    <3>2. SlotFine(req[q])'
      BY <1>1, <1>2, <3>1
         DEF IInv, RowsFine, SlotFine, WithdrawFinds, Reads, WasStarted, Started
    <3>3. QED  BY <1>2, <3>1, <3>2, ReadKeeps DEF WithdrawFinds
  <2>3. QED  BY <2>1, <2>2
<1>3. CASE WithdrawMarks(q)
  <2>1. Stepped(q) /\ SlotFine(req[q])'
    BY <1>1, <1>3, GoSteps, FinishSteps, IdleFineNext
       DEF WithdrawMarks, SlotFine, WasStarted, Pcs
  <2>2. QED  BY <1>1, <2>1, <1>3, AsideKeeps DEF WithdrawMarks, TypeOK
<1>4. CASE WithdrawShuts(q)
  <2> DEFINE row == [attempt EXCEPT !.status = "withdrawn"]
  <2>1. /\ row \in Attempts
        /\ row.status = "withdrawn" /\ row.updated = attempt.updated
        /\ row.consented = attempt.consented
    BY <1>1 DEF Attempts, Statuses
  <2>2. \/ attempt' = row /\ GoWith(q, "log", row)
        \/ attempt' = attempt /\ Go(q, "log")
    BY <1>4 DEF WithdrawShuts, Update, Served
  <2>3. \/ /\ attempt' = row /\ Stepped(q) /\ req'[q].seen = row
           /\ req'[q].pc = "log" /\ req'[q].back = req[q].back
           /\ req'[q].kind = req[q].kind
        \/ /\ attempt' = attempt /\ Stepped(q) /\ req'[q].seen = req[q].seen
           /\ req'[q].pc = "log" /\ req'[q].back = req[q].back
           /\ req'[q].kind = req[q].kind
    BY <1>1, <2>1, <2>2, GoSteps, GoWithSteps DEF Pcs
  <2> HIDE DEF row
  <2>4. WritesAttempt
    BY <1>4 DEF WithdrawShuts
  <2>5. Grows
    BY <2>1, <2>3, <2>4 DEF Grows, WritesAttempt, WasStarted, Started
  <2>6. SlotFine(req[q])'
    BY <1>1, <2>1, <2>3, <2>4, <2>5 DEF SlotFine, Grows, WritesAttempt
  <2>7. QED
    BY <1>1, <2>1, <2>3, <2>4, <2>5, <2>6, AttemptWriteKeeps
       DEF IInv, RowsFine, CompletionIsOrdered
<1>5. CASE WithdrawLogs(q)
  <2>1. Stepped(q) /\ SlotFine(req[q])'
    BY <1>1, <1>5, FinishSteps, IdleFineNext DEF WithdrawLogs, Log
  <2>2. QED  BY <2>1, <1>5, LogKeeps DEF WithdrawLogs, Log, Events
<1>6. QED  BY <1>2, <1>3, <1>4, <1>5 DEF WithdrawInvitation

-----------------------------------------------------------------------------
(* Releasing the update *)

LEMMA ReleasingKeeps ==
  ASSUME IInv, NEW q \in Requests, Releasing(q)
  PROVE  IInv'
<1>1. TypeOK /\ req[q] \in Slots /\ SlotFine(req[q]) /\ attempt \in Attempts
  BY DEF IInv, TypeOK
<1>2. CASE Gate(q)
  <2>1. /\ Stepped(q) /\ req'[q].seen = req[q].seen
        /\ req'[q].kind = req[q].kind
        /\ \/ req'[q].pc = "body" /\ req'[q].back = req[q].back
           \/ /\ req'[q].pc = "release" /\ req'[q].back = "gate"
              /\ req[q].seen.status = "in_progress"
    BY <1>1, <1>2, GoSteps, CallSteps DEF Gate, UpdateDue, Seen, Pcs
  <2>2. SlotFine(req[q])'
    BY <1>1, <1>2, <2>1 DEF Gate, SlotFine, Reads, WasStarted
  <2>3. QED  BY <2>1, <2>2, <1>2, ReadKeeps DEF Gate
<1>3. CASE Load(q)
  <2>1. /\ Stepped(q)
        /\ \/ req'[q] = Idle
           \/ /\ req'[q].pc = "release" /\ req'[q].back = "load"
              /\ req'[q].seen = req[q].seen /\ req'[q].kind = req[q].kind
              /\ req[q].seen.status = "in_progress"
    BY <1>1, <1>3, FinishSteps, CallSteps DEF Load, UpdateDue, Seen
  <2>2. SlotFine(req[q])'
    BY <1>1, <1>3, <2>1, IdleFineNext DEF Load, SlotFine, Reads, WasStarted
  <2>3. QED  BY <2>1, <2>2, <1>3, ReadKeeps DEF Load
<1>4. CASE ReleaseUpdate(q)
  <2> DEFINE row == [attempt EXCEPT !.updated = TRUE]
  <2>1. /\ row \in Attempts
        /\ row.status = attempt.status /\ row.updated
        /\ row.consented = attempt.consented
    BY <1>1 DEF Attempts
  <2>2. \/ attempt' = row /\ GoWith(q, "post", row)
        \/ /\ attempt' = attempt /\ Go(q, "reread")
           /\ ~CallsFail => attempt.updated
    BY <1>1, <1>4 DEF ReleaseUpdate, Update, Served, Attempts
  <2>3. \/ /\ attempt' = row /\ Stepped(q) /\ req'[q].seen = row
           /\ req'[q].pc = "post" /\ req'[q].back = req[q].back
           /\ req'[q].kind = req[q].kind
        \/ /\ attempt' = attempt /\ Stepped(q) /\ req'[q].seen = req[q].seen
           /\ req'[q].pc = "reread" /\ req'[q].back = req[q].back
           /\ req'[q].kind = req[q].kind
           /\ ~CallsFail => attempt.updated
    BY <1>1, <2>1, <2>2, GoSteps, GoWithSteps DEF Pcs
  <2> HIDE DEF row
  <2>4. WritesAttempt /\ WasStarted
    BY <1>1, <1>4 DEF ReleaseUpdate, SlotFine
  <2>5. Grows
    BY <2>1, <2>3, <2>4 DEF Grows, WritesAttempt, WasStarted
  <2>6. SlotFine(req[q])'
    BY <1>1, <2>1, <2>3, <2>4, <2>5 DEF SlotFine, Grows, WritesAttempt
  <2>7. QED
    BY <1>1, <2>1, <2>3, <2>4, <2>5, <2>6, AttemptWriteKeeps
       DEF IInv, RowsFine, CompletionIsOrdered, WasStarted, Started
<1>5. CASE PostUpdate(q)
  <2>1. Stepped(q) /\ SlotFine(req[q])'
    BY <1>1, <1>5, GoSteps DEF PostUpdate, SlotFine, WasStarted, Pcs
  <2>2. QED  BY <1>1, <2>1, <1>5, AsideKeeps DEF PostUpdate, TypeOK
<1>6. CASE AnnounceUpdate(q)
  <2>1. Seen(q) \in Attempts /\ Seen(q) = req[q].seen
    BY <1>1 DEF Seen, Slots
  <2>2. Return(q, Seen(q))
    BY <1>6 DEF AnnounceUpdate, Log
  <2>3. req[q].pc = "announce" /\ events' = events \cup {"requirement_update_released"}
    BY <1>6 DEF AnnounceUpdate, Log
  <2>4. UNCHANGED <<attempt, submission>>
    BY <1>6 DEF AnnounceUpdate, Log
  <2>5. Stepped(q)
    BY <1>1, <2>1, <2>2, ReturnSteps
  <2>6. SlotFine(req[q])'
    BY <1>1, <2>1, <2>2, <2>3, <2>4, ReturnSteps, IdleFineNext
       DEF SlotFine, WasStarted
  <2>7. QED  BY <2>5, <2>6, <1>6, LogKeeps DEF AnnounceUpdate, Log, Events
<1>7. CASE Reread(q)
  <2>1. Return(q, attempt) /\ Reads
    BY <1>7 DEF Reread
  <2>2. Stepped(q)
    BY <1>1, <2>1, ReturnSteps
  <2>3. SlotFine(req[q])'
    BY <1>1, <1>7, <2>1, ReturnSteps, IdleFineNext
       DEF IInv, RowsFine, Reread, SlotFine, Reads, WasStarted, Started
  <2>4. QED  BY <2>1, <2>2, <2>3, ReadKeeps
<1>8. QED  BY <1>2, <1>3, <1>4, <1>5, <1>6, <1>7 DEF Releasing

-----------------------------------------------------------------------------
(* Setup, acknowledging, extending *)

(* What a handler's body may make of the attempt. *)
Better(row) ==
  /\ row.updated = attempt.updated
  /\ attempt.consented => row.consented
  /\ row.status # "absent"
  /\ attempt.status \in Started => row.status = attempt.status
  /\ row.status \in {"preflight_passed", "in_progress"} => row.consented
  /\ row.status = "submitted" => attempt.status = "submitted"

LEMMA BodyWriteKeeps ==
  ASSUME IInv, NEW q \in Requests, WritesAttempt, req[q].pc = "body",
         NEW row \in Attempts, Better(row),
         attempt' = row, GoWith(q, "log", row)
  PROVE  IInv'
<1>1. TypeOK /\ req[q] \in Slots /\ SlotFine(req[q])
  BY DEF IInv, TypeOK
<1>2. /\ Stepped(q) /\ req'[q].seen = row /\ req'[q].pc = "log"
      /\ req'[q].back = req[q].back /\ req'[q].kind = req[q].kind
  BY <1>1, GoWithSteps DEF Pcs
<1>3. Grows
  BY DEF Grows, WritesAttempt, WasStarted, Better, Started
<1>4. attempt.status = "submitted" => submission # "none" /\ WasStarted
  BY DEF IInv, CompletionIsOrdered, RowsFine
<1>5. attempt'.status \in {"in_progress", "submitted"} => WasStarted'
  BY <1>4 DEF Better, WasStarted, Started
<1>6. SlotFine(req[q])'
  BY <1>1, <1>2, <1>3, <1>5 DEF SlotFine, Grows, WritesAttempt, Better
<1>7. QED
  BY <1>2, <1>3, <1>4, <1>6, AttemptWriteKeeps DEF Better, WasStarted

(* An update that matched nothing leaves the handler with its old copy. *)
LEMMA BodyMissKeeps ==
  ASSUME IInv, NEW q \in Requests, WritesAttempt, req[q].pc = "body",
         attempt' = attempt, Go(q, "log")
  PROVE  IInv'
<1>1. TypeOK /\ req[q] \in Slots /\ SlotFine(req[q])
  BY DEF IInv, TypeOK
<1>2. Stepped(q) /\ Reads /\ SlotFine(req[q])'
  BY <1>1, GoSteps DEF SlotFine, Reads, WritesAttempt, WasStarted, Pcs
<1>3. QED  BY <1>2, ReadKeeps

LEMMA PreparingKeeps ==
  ASSUME IInv, NEW q \in Requests, Preparing(q)
  PROVE  IInv'
<1>1. TypeOK /\ req[q] \in Slots /\ SlotFine(req[q]) /\ attempt \in Attempts
  BY DEF IInv, TypeOK
<1>2. CASE Refuse(q)
  <2>1. Stepped(q) /\ req'[q] = Idle
    BY <1>1, <1>2, FinishSteps DEF Refuse
  <2>2. QED  BY <2>1, <1>2, IdleFineNext, ReadKeeps DEF Refuse
<1>3. CASE Repeat(q)
  <2>1. Stepped(q) /\ SlotFine(req[q])'
    BY <1>1, <1>3, FinishSteps, GoSteps, IdleFineNext
       DEF Repeat, SlotFine, Reads, WasStarted, Pcs
  <2>2. QED  BY <2>1, <1>3, ReadKeeps DEF Repeat
<1>4. CASE RecordConsent(q)
  <2> DEFINE row == [attempt EXCEPT !.consented = TRUE]
  <2>1. /\ req[q].pc = "body" /\ WritesAttempt
        /\ \/ attempt' = row /\ GoWith(q, "log", row)
           \/ attempt' = attempt /\ Go(q, "log")
    BY <1>4 DEF RecordConsent, Proceeds, In, Update
  <2>2. attempt.status # "absent"
    BY <1>1, <1>4 DEF RecordConsent, Proceeds, In, SlotFine, CandidateKinds
  <2>3. row \in Attempts /\ Better(row)
    BY <1>1, <2>2 DEF Attempts, Better
  <2>4. QED  BY <2>1, <2>3, BodyWriteKeeps, BodyMissKeeps
<1>5. CASE SubmitSetupCode(q)
  <2> DEFINE row == [attempt EXCEPT !.status = "preflight_passed"]
  <2>1. /\ req[q].pc = "body" /\ WritesAttempt
        /\ \/ attempt.status = "accepted" /\ attempt' = row /\ GoWith(q, "log", row)
           \/ attempt' = attempt /\ Go(q, "log")
    BY <1>5 DEF SubmitSetupCode, Proceeds, In, Update
  <2>2. attempt.consented
    BY <1>1, <1>5 DEF SubmitSetupCode, Proceeds, In, Refused, Seen, SlotFine
  <2>3. row \in Attempts /\ (attempt.status = "accepted" => Better(row))
    BY <1>1, <2>2 DEF Attempts, Statuses, Better, Started
  <2>4. QED  BY <2>1, <2>3, BodyWriteKeeps, BodyMissKeeps
<1>6. CASE AcknowledgeUpdate(q)
  <2> DEFINE row == [attempt EXCEPT !.acknowledged = TRUE]
  <2>1. /\ req[q].pc = "body" /\ WritesAttempt
        /\ \/ attempt' = row /\ GoWith(q, "log", row)
           \/ attempt' = attempt /\ Go(q, "log")
    BY <1>6 DEF AcknowledgeUpdate, Proceeds, In, Update
  <2>2. attempt.status # "absent"
    BY <1>1, <1>6 DEF AcknowledgeUpdate, Proceeds, In, SlotFine, CandidateKinds
  <2>3. row \in Attempts /\ Better(row)
    BY <1>1, <2>2 DEF Attempts, Better, IInv, RowsFine
  <2>4. QED  BY <2>1, <2>3, BodyWriteKeeps, BodyMissKeeps
<1>7. CASE StartAttempt(q)
  <2> DEFINE row == [attempt EXCEPT !.status = "in_progress"]
             new == [req[q] EXCEPT !.pc = "reread", !.back = "start"]
  <2>1. /\ req[q].pc = "body" /\ WritesAttempt
        /\ \/ /\ attempt.status = "preflight_passed"
              /\ attempt' = row /\ GoWith(q, "log", row)
           \/ /\ attempt' = attempt
              /\ req' = [req EXCEPT ![q].pc = "reread", ![q].back = "start"]
    BY <1>7 DEF StartAttempt, Proceeds, In
  <2>2. row \in Attempts /\ (attempt.status = "preflight_passed" => Better(row))
    BY <1>1 DEF Attempts, Statuses, Better, Started, IInv, RowsFine
  <2>3. CASE attempt.status = "preflight_passed" /\ attempt' = row /\ GoWith(q, "log", row)
    BY <2>1, <2>2, <2>3, BodyWriteKeeps
  <2>4. CASE /\ attempt' = attempt
             /\ req' = [req EXCEPT ![q].pc = "reread", ![q].back = "start"]
    <3>1. req' = [req EXCEPT ![q] = new]
      BY <1>1, <2>4 DEF TypeOK
    <3>2. /\ new \in Slots
          /\ new.pc = "reread" /\ new.back = "start"
          /\ new.seen = req[q].seen /\ new.kind = req[q].kind
      BY <1>1 DEF Slots, Pcs
    <3>3. Stepped(q) /\ req'[q] = new
      BY <1>1, <3>1, <3>2 DEF TypeOK, Stepped
    <3>4. Reads
      BY <2>1, <2>4 DEF Reads, WritesAttempt
    <3> HIDE DEF new
    <3>5. SlotFine(req[q])'
      BY <1>1, <3>2, <3>3, <3>4 DEF SlotFine, Reads, WasStarted
    <3>6. QED  BY <3>3, <3>4, <3>5, ReadKeeps
  <2>5. QED  BY <2>1, <2>3, <2>4
<1>8. CASE LogSetup(q)
  <2>1. PICK event \in Events \ {"submission_accepted"} :
          \/ Log(q, event, Go(q, "settle"))
          \/ Log(q, event, Go(q, "kickoff"))
          \/ Log(q, event, Finish(q))
    BY <1>8 DEF LogSetup, Events
  <2>2. Stepped(q) /\ SlotFine(req[q])'
    BY <1>1, <2>1, GoSteps, FinishSteps, IdleFineNext
       DEF Log, SlotFine, WasStarted, Pcs
  <2>3. QED  BY <2>1, <2>2, LogKeeps DEF Log
<1>9. CASE PostKickoff(q)
  <2>1. Stepped(q) /\ SlotFine(req[q])'
    BY <1>1, <1>9, GoSteps DEF PostKickoff, SlotFine, WasStarted, Pcs
  <2>2. QED  BY <1>1, <2>1, <1>9, AsideKeeps DEF PostKickoff, TypeOK
<1>10. CASE ExtendAttempt(q)
  <2> DEFINE row == [attempt EXCEPT !.extension = Seen(q).extension + 1]
  <2>1. /\ req[q].pc = "body" /\ WritesAttempt
        /\ \/ attempt' = row /\ Go(q, "log")
           \/ attempt' = attempt /\ Finish(q)
    BY <1>10 DEF ExtendAttempt, Proceeds, In
  <2>2. Seen(q).extension \in Nat /\ attempt.status # "absent"
    BY <1>1, <1>10
       DEF Seen, Slots, Attempts, ExtendAttempt, Proceeds, In, SlotFine
  <2>3. /\ row \in Attempts /\ row.status = attempt.status
        /\ row.updated = attempt.updated /\ row.consented = attempt.consented
    BY <1>1, <2>2 DEF Attempts
  <2> HIDE DEF row
  <2>4. Stepped(q) /\ SlotFine(req[q])'
    BY <1>1, <2>1, <2>3, GoSteps, FinishSteps, IdleFineNext
       DEF SlotFine, WritesAttempt, WasStarted, Pcs
  <2>5. Grows
    BY <2>1, <2>3 DEF Grows, WritesAttempt, WasStarted
  <2>6. QED
    BY <1>1, <2>1, <2>3, <2>4, <2>5, AttemptWriteKeeps
       DEF IInv, RowsFine, CompletionIsOrdered
<1>11. CASE LogExtension(q)
  <2>1. Stepped(q) /\ SlotFine(req[q])'
    BY <1>1, <1>11, FinishSteps, IdleFineNext DEF LogExtension
  <2>2. QED  BY <1>1, <2>1, <1>11, AsideKeeps DEF LogExtension, TypeOK
<1>12. QED
  BY <1>2, <1>3, <1>4, <1>5, <1>6, <1>7, <1>8, <1>9, <1>10, <1>11
     DEF Preparing

-----------------------------------------------------------------------------
(* Submission *)

LEMMA SubmitChecksKeeps ==
  ASSUME IInv, NEW q \in Requests, SubmitChecks(q)
  PROVE  IInv'
<1>1. TypeOK /\ req[q] \in Slots /\ SlotFine(req[q])
  BY DEF IInv, TypeOK
<1>2. CASE submission # "none"
  <2>1. Stepped(q) /\ SlotFine(req[q])'
    BY <1>1, <1>2, GoSteps DEF SubmitChecks, SlotFine, Reads, WasStarted, Pcs
  <2>2. QED  BY <2>1, ReadKeeps DEF SubmitChecks
<1>3. CASE /\ submission = "none"
           /\ Seen(q).status # "in_progress" \/ Closed(Seen(q))
  <2>1. Stepped(q) /\ req'[q] = Idle
    BY <1>1, <1>3, FinishSteps DEF SubmitChecks
  <2>2. QED  BY <2>1, IdleFineNext, ReadKeeps DEF SubmitChecks
<1>4. CASE /\ submission = "none"
           /\ ~(Seen(q).status # "in_progress" \/ Closed(Seen(q)))
  <2> DEFINE pc == IF Seen(q).updated THEN "record" ELSE "release"
             window == IF Late(Seen(q)) THEN "late" ELSE "on_time"
             new == [req[q] EXCEPT !.pc = pc, !.back = "before", !.window = window]
  <2>1. req' = [req EXCEPT ![q].pc = pc, ![q].back = "before", ![q].window = window]
    BY <1>4 DEF SubmitChecks
  <2>2. pc \in Pcs /\ window \in Lateness
    BY DEF Pcs, Lateness
  <2>3. /\ pc = "record" \/ pc = "release"
        /\ pc = "record" => req[q].seen.updated
        /\ req[q].seen.status = "in_progress"
    BY <1>4 DEF Seen
  <2> HIDE DEF pc, window
  <2>4. req' = [req EXCEPT ![q] = new]
    BY <1>1, <2>1 DEF TypeOK
  <2>5. /\ new \in Slots /\ new.pc = pc /\ new.back = "before"
        /\ new.seen = req[q].seen /\ new.kind = req[q].kind
    BY <1>1, <2>2 DEF Slots
  <2>6. Stepped(q) /\ req'[q] = new
    BY <1>1, <2>4, <2>5 DEF TypeOK, Stepped
  <2> HIDE DEF new
  <2>7. Reads
    BY DEF SubmitChecks
  <2>8. SlotFine(req[q])'
    BY <1>1, <2>3, <2>5, <2>6, <2>7 DEF SlotFine, Reads, WasStarted
  <2>9. QED  BY <2>6, <2>7, <2>8, ReadKeeps
<1>5. QED  BY <1>2, <1>3, <1>4

LEMMA RecordSubmissionKeeps ==
  ASSUME IInv, NEW q \in Requests, RecordSubmission(q)
  PROVE  IInv'
<1>1. TypeOK /\ req[q] \in Slots /\ SlotFine(req[q])
  BY DEF IInv, TypeOK
<1>2. /\ WasStarted
      /\ ~CallsFail => attempt.updated
  BY <1>1 DEF RecordSubmission, SlotFine
<1>3. /\ Stepped(q) /\ req'[q].pc = "close" /\ req'[q].seen = req[q].seen
      /\ req'[q].back = req[q].back /\ req'[q].kind = req[q].kind
  BY <1>1, GoSteps DEF RecordSubmission, Pcs
<1>4. /\ submission' \in Lateness
      /\ submission # "none" => submission' = submission
      /\ UNCHANGED <<invitation, attempt, queued, events, extensions, thread,
                     elapsed, told, deaths>>
  BY <1>1 DEF RecordSubmission, Slots, TypeOK
<1>5. Grows
  BY <1>4 DEF Grows, WasStarted, Lateness
<1>6. SlotFine(req[q])'
  BY <1>1, <1>3, <1>4, <1>5 DEF SlotFine, Grows, Lateness, WasStarted
<1>7. (\A p \in Requests : SlotFine(req[p]))'
  BY <1>3, <1>5, <1>6, SlotsStay
<1>8. TypeOK'
  BY <1>1, <1>3, <1>4 DEF TypeOK, Stepped
<1>9. (RowsFine /\ CompletionIsOrdered)'
  BY <1>2, <1>4 DEF IInv, RowsFine, CompletionIsOrdered, WasStarted, Lateness
<1>10. ReceiptsAreHonoured'
  BY <1>4 DEF IInv, CompletionIsOrdered, ReceiptsAreHonoured
<1>11. QED  BY <1>7, <1>8, <1>9, <1>10 DEF IInv

LEMMA CloseAttemptKeeps ==
  ASSUME IInv, NEW q \in Requests, CloseAttempt(q)
  PROVE  IInv'
<1>1. TypeOK /\ req[q] \in Slots /\ SlotFine(req[q]) /\ attempt \in Attempts
  BY DEF IInv, TypeOK
<1>2. /\ Stepped(q) /\ req'[q].pc = "accepted" /\ req'[q].seen = req[q].seen
      /\ req'[q].back = req[q].back /\ req'[q].kind = req[q].kind
      /\ WritesAttempt
  BY <1>1, GoSteps DEF CloseAttempt, Pcs
<1>3. submission # "none" /\ WasStarted
  BY <1>1 DEF CloseAttempt, SlotFine, IInv, RowsFine
<1>4. /\ attempt' \in Attempts
      /\ attempt'.status \in {"submitted", "withdrawn"}
      /\ attempt'.updated = attempt.updated
      /\ attempt'.consented = attempt.consented
  BY <1>1, <1>3 DEF CloseAttempt, Attempts, Statuses, WasStarted, Started
<1>5. Grows
  BY <1>2, <1>4 DEF Grows, WritesAttempt, WasStarted, Started
<1>6. SlotFine(req[q])'
  BY <1>1, <1>2, <1>3, <1>4, <1>5 DEF SlotFine, Grows, WritesAttempt
<1>7. QED
  BY <1>2, <1>3, <1>4, <1>5, <1>6, AttemptWriteKeeps DEF WasStarted

LEMMA EnqueueKeeps ==
  ASSUME IInv, NEW q \in Requests, EnqueueEvaluation(q)
  PROVE  IInv'
<1>1. TypeOK /\ req[q] \in Slots /\ SlotFine(req[q])
  BY DEF IInv, TypeOK
<1>2. submission # "none" /\ "submission_accepted" \in events
  BY <1>1 DEF EnqueueEvaluation, SlotFine
<1>3. /\ queued' /\ told' \in {told, told \cup {submission}}
      /\ UNCHANGED <<invitation, attempt, submission, events, extensions,
                     thread, elapsed, deaths>>
  BY DEF EnqueueEvaluation
<1>4. Stepped(q) /\ SlotFine(req[q])'
  BY <1>1, <1>3, GoSteps, FinishSteps, IdleFineNext
     DEF EnqueueEvaluation, SlotFine, WasStarted, Pcs
<1>5. Grows
  BY <1>3 DEF Grows, WasStarted
<1>6. (\A p \in Requests : SlotFine(req[p]))'
  BY <1>4, <1>5, SlotsStay
<1>7. TypeOK'
  <2>1. queued' = TRUE
    BY DEF EnqueueEvaluation
  <2>2. QED  BY <1>1, <1>2, <1>3, <1>4, <2>1 DEF TypeOK, Stepped
<1>8. (RowsFine /\ CompletionIsOrdered)'
  BY <1>2, <1>3 DEF IInv, RowsFine, CompletionIsOrdered, WasStarted
<1>9. told \subseteq {submission}
  BY DEF IInv, ReceiptsAreHonoured
<1>10. ReceiptsAreHonoured'
  BY <1>2, <1>3, <1>9 DEF ReceiptsAreHonoured
<1>11. QED  BY <1>6, <1>7, <1>8, <1>10 DEF IInv

LEMMA SubmittingKeeps ==
  ASSUME IInv, NEW q \in Requests, Submitting(q)
  PROVE  IInv'
<1>1. TypeOK /\ req[q] \in Slots /\ SlotFine(req[q]) /\ attempt \in Attempts
  BY DEF IInv, TypeOK
<1>2. CASE LogAccepted(q)
  <2>1. Stepped(q) /\ SlotFine(req[q])'
    BY <1>1, <1>2, GoSteps DEF LogAccepted, Log, SlotFine, WasStarted, Pcs
  <2>2. submission # "none" /\ attempt.status \in {"submitted", "withdrawn"}
    BY <1>1, <1>2 DEF LogAccepted, SlotFine
  <2>3. QED  BY <2>1, <2>2, <1>2, LogKeeps DEF LogAccepted, Log, Events
<1>3. CASE Settle(q)
  <2>1. Stepped(q) /\ SlotFine(req[q])'
    BY <1>1, <1>3, GoSteps DEF Settle, SlotFine, Reads, WasStarted, Pcs
  <2>2. QED  BY <2>1, <1>3, ReadKeeps DEF Settle
<1>4. CASE Resume(q)
  <2>1. attempt.status \in {"in_progress", "submitted"} => WasStarted
    BY DEF IInv, RowsFine, WasStarted, Started
  <2>2. Stepped(q) /\ SlotFine(req[q])'
    BY <1>1, <1>4, <2>1, GoWithSteps
       DEF Resume, SlotFine, Reads, WasStarted, Pcs
  <2>3. QED  BY <2>2, <1>4, ReadKeeps DEF Resume
<1>5. QED
  BY <1>2, <1>3, <1>4, SubmitChecksKeeps, RecordSubmissionKeeps,
     CloseAttemptKeeps, EnqueueKeeps
     DEF Submitting

-----------------------------------------------------------------------------
(* The theorems *)

LEMMA NextKeeps == IInv /\ [Next]_vars => IInv'
<1> SUFFICES ASSUME IInv, [Next]_vars PROVE IInv'
  OBVIOUS
<1>1. CASE Next
  <2>1. ASSUME NEW q \in Requests, NEW kind \in Offered, Arrive(q, kind)
        PROVE  IInv'
    <3>1. kind \in Kinds
      BY OfferedAssumption DEF Kinds, CandidateKinds
    <3>2. QED  BY <2>1, <3>1, ArriveKeeps
  <2>2. ASSUME NEW q \in Requests, Handle(q) PROVE IInv'
    BY <2>2, AcceptKeeps, WithdrawKeeps, ReleasingKeeps, PreparingKeeps,
       SubmittingKeeps DEF Handle
  <2>3. ASSUME NEW q \in Requests, Die(q) PROVE IInv'
    BY <2>3, DieKeeps
  <2>4. CASE TimePasses
    BY <2>4, TimeKeeps
  <2>5. QED  BY <1>1, <2>1, <2>2, <2>3, <2>4 DEF Next
<1>2. CASE UNCHANGED vars
  BY <1>2 DEF vars, IInv, TypeOK, RowsFine, CompletionIsOrdered,
              ReceiptsAreHonoured, SlotFine, WasStarted
<1>3. QED  BY <1>1, <1>2

(* The inductive invariant holds in every reachable state. *)
THEOREM AttemptInvariant == Spec => []IInv
<1>1. QED  BY InitIInv, NextKeeps, PTL DEF Spec

(* Every column keeps the values its table allows (migration 028). *)
THEOREM AttemptTypes == Spec => []TypeOK
<1>1. IInv => TypeOK
  BY DEF IInv
<1>2. QED  BY <1>1, AttemptInvariant, PTL

(* However many submits race, repeat or die, every receipt the candidate   *)
(* holds is for the one submission, logged and queued (submissions.ts      *)
(* 62-145).                                                                *)
THEOREM ReceiptsHold == Spec => []ReceiptsAreHonoured
<1>1. IInv => ReceiptsAreHonoured
  BY DEF IInv
<1>2. QED  BY <1>1, AttemptInvariant, PTL

(* Nothing is evaluated, logged as accepted or closed as submitted before  *)
(* the step it follows (submissions.ts 62-85).                             *)
THEOREM CompletionHolds == Spec => []CompletionIsOrdered
<1>1. IInv => CompletionIsOrdered
  BY DEF IInv
<1>2. QED  BY <1>1, AttemptInvariant, PTL

(* When no statement fails silently, no submission is recorded before the  *)
(* requirement update is released (attempts.ts 58-67, submissions.ts       *)
(* 104-112).                                                               *)
THEOREM UpdateComesFirst ==
  ASSUME ~CallsFail
  PROVE  Spec => []SubmissionsHadTheUpdate
<1>1. IInv => SubmissionsHadTheUpdate
  BY DEF IInv, RowsFine, WasStarted, Started, SubmissionsHadTheUpdate
<1>2. QED  BY <1>1, AttemptInvariant, PTL
=============================================================================
