------------------------ MODULE AttemptHistoryProofs ------------------------
(***************************************************************************)
(* Proofs about what AttemptLifecycle records after the fact: events and   *)
(* extensions.  Both are written from a copy that may be old, by a         *)
(* statement after the one that changed the row.                           *)
(***************************************************************************)
EXTENDS AttemptLifecycleProofs, FiniteSetTheorems

(* Over for good, and not through the setup check yet.                     *)
Over == {"submitted", "withdrawn"}
Fresh == {"absent", "accepted"}

(* What a request is about to record is so. *)
AboutToSay(s) ==
  /\ s.kind = "accept" /\ s.pc \in {"mark", "log"} => attempt.status # "absent"
  /\ s.kind = "accept" /\ s.pc = "log" => invitation # "invited"
  /\ s.kind = "withdraw" /\ s.pc = "log" => attempt.status \in Over
  /\ s.kind = "setup" /\ s.pc = "log" => attempt.consented /\ attempt.status \notin Fresh
  /\ s.kind = "consent" /\ s.pc = "log" => attempt.consented
  /\ s.kind = "start" /\ s.pc = "log" => WasStarted
  /\ s.kind = "acknowledge" /\ s.pc = "log" => attempt.updated /\ attempt.acknowledged
  /\ s.pc = "announce" => "update" \in thread

AbsentIsEmpty ==
  attempt.status = "absent" => ~attempt.acknowledged /\ attempt.extension = 0

HistoryInv ==
  /\ AbsentIsEmpty
  /\ HistoryIsTrue
  /\ \A q \in Requests : AboutToSay(req[q])

(* Requests whose extension is in the total and not yet in the history.    *)
(* There may be infinitely many slots, never infinitely many such requests:*)
(* each has added one to the total.                                        *)
Extending == {q \in Requests : In(q, "extend", "log")}

ExtensionInv ==
  /\ AbsentIsEmpty
  /\ IsFiniteSet(Extending)
  /\ extensions + Cardinality(Extending) <= attempt.extension
  /\ attempt.extension <= MaxExtension

-----------------------------------------------------------------------------
USE TimesAssumption, CallsFailAssumption

(* What no step takes back. *)
Moves ==
  /\ attempt.consented => attempt'.consented
  /\ attempt.updated => attempt'.updated
  /\ attempt.acknowledged => attempt'.acknowledged
  /\ attempt.status \in Started => attempt'.status \in Started
  /\ attempt.status \in Over => attempt'.status \in Over
  /\ attempt.status \notin Fresh => attempt'.status \notin Fresh
  /\ invitation # "invited" => invitation' # "invited"
  /\ attempt'.status = "absent" => attempt' = attempt
  /\ thread \subseteq thread'

Same(q) == attempt'.extension = attempt.extension /\ UNCHANGED extensions
           /\ ~(req'[q].kind = "extend" /\ req'[q].pc = "log")

(* The event of the completion, whose order the invariant IInv keeps.      *)
Aside == {"submission_accepted"}

(* A step that leaves its request with nothing to say. *)
Quiet(q) ==
  /\ Stepped(q) /\ Moves /\ Same(q)
  /\ events' \subseteq events \cup Aside
  /\ req'[q].pc \notin {"announce", "mark", "log"}

(* One after which what it is going to say is so.                          *)
Leads(q) ==
  /\ Stepped(q) /\ Moves /\ Same(q) /\ events' = events
  /\ ~CallsFail /\ AboutToSay(req[q]) => AboutToSay(req[q])'

(* One that says it.                                                       *)
Spoken == {"invitation_accepted", "attempt_withdrawn", "preflight_passed",
           "consent_recorded", "attempt_started", "requirement_update_acknowledged",
           "requirement_update_released"}

Records(q) ==
  /\ Stepped(q) /\ UNCHANGED <<attempt, thread, extensions, invitation>>
  /\ req'[q].pc \notin {"announce", "mark", "log"}
  /\ \E event \in Spoken :
       /\ events' = events \cup {event}
       /\ event = "invitation_accepted" => In(q, "accept", "log")
       /\ event = "attempt_withdrawn" => In(q, "withdraw", "log")
       /\ event = "preflight_passed" => In(q, "setup", "log")
       /\ event = "consent_recorded" => In(q, "consent", "log")
       /\ event = "attempt_started" => In(q, "start", "log")
       /\ event = "requirement_update_acknowledged" => In(q, "acknowledge", "log")
       /\ event = "requirement_update_released" => req[q].pc = "announce"

LEMMA UnwrittenMoves ==
  ASSUME UNCHANGED <<attempt, thread, invitation>>
  PROVE  Moves
  BY DEF Moves

LEMMA IdleIsQuiet ==
  ASSUME IInv, NEW q \in Requests, Finish(q), Moves,
         attempt'.extension = attempt.extension, UNCHANGED extensions,
         events' \subseteq events \cup Aside
  PROVE  Quiet(q)
<1>1. Stepped(q) /\ req'[q] = Idle
  BY FinishSteps DEF IInv
<1>2. QED  BY <1>1 DEF Quiet, Same, Idle

(* A request that goes on to a statement that is not one of the events.    *)
LEMMA GoingIsQuiet ==
  ASSUME IInv, NEW q \in Requests, NEW pc \in Pcs \ {"announce", "mark", "log"},
         Go(q, pc) \/ (\E row \in Attempts : GoWith(q, pc, row)), Moves,
         attempt'.extension = attempt.extension, UNCHANGED extensions,
         events' \subseteq events \cup Aside
  PROVE  Quiet(q)
<1>1. Stepped(q) /\ req'[q].pc = pc
  BY GoSteps, GoWithSteps DEF IInv
<1>2. QED  BY <1>1 DEF Quiet, Same

-----------------------------------------------------------------------------
(* Which steps are quiet *)

LEMMA ReadsMove ==
  ASSUME Reads
  PROVE  /\ Moves /\ attempt'.extension = attempt.extension /\ UNCHANGED extensions
         /\ events' \subseteq events \cup Aside
  BY UnwrittenMoves DEF Reads

LEMMA WritesLeave ==
  ASSUME WritesAttempt
  PROVE  /\ UNCHANGED <<thread, extensions, invitation>> /\ events' \subseteq events \cup Aside
         /\ attempt' = attempt => Moves /\ attempt'.extension = attempt.extension
  BY UnwrittenMoves DEF WritesAttempt

LEMMA ArriveIsQuiet ==
  ASSUME IInv, NEW q \in Requests, NEW kind \in Kinds, Arrive(q, kind)
  PROVE  Quiet(q)
<1> DEFINE new == [Idle EXCEPT !.kind = kind,
                    !.pc = IF kind \in CandidateKinds THEN "gate"
                           ELSE IF kind = "extend" THEN "body" ELSE "find",
                    !.inv = IF kind = "accept" THEN invitation ELSE "invited",
                    !.seen = IF kind \in {"accept", "withdraw"}
                             THEN NoAttempt ELSE attempt]
<1>1. new \in Slots /\ new.pc \in {"gate", "body", "find"}
  BY NoAttemptType DEF IInv, TypeOK, Idle, Slots, Pcs, Lateness
<1>2. req' = [req EXCEPT ![q] = new] /\ Reads
  BY DEF Arrive
<1> HIDE DEF new
<1>3. Stepped(q) /\ req'[q].pc \in {"gate", "body", "find"}
  BY <1>1, <1>2 DEF IInv, TypeOK, Stepped
<1>4. QED  BY <1>2, <1>3, ReadsMove DEF Quiet, Same

LEMMA DieIsQuiet ==
  ASSUME IInv, NEW q \in Requests, Die(q)
  PROVE  Quiet(q)
  BY IdleIsQuiet, UnwrittenMoves DEF Die

LEMMA ReturningLeaves ==
  ASSUME IInv, NEW q \in Requests, NEW row \in Attempts, Return(q, row)
  PROVE  Stepped(q) /\ req'[q].pc \notin {"announce", "mark", "log"}
  BY ReturnSteps DEF IInv, Idle

LEMMA CallingIsQuiet ==
  ASSUME IInv, NEW q \in Requests, NEW from \in {"gate", "before", "load"}, Call(q, from),
         Reads
  PROVE  Quiet(q)
  BY CallSteps, ReadsMove DEF IInv, Quiet, Same

(* All of it but the message and the event. *)
LEMMA ReleasingIsQuiet ==
  ASSUME IInv, NEW q \in Requests, Gate(q) \/ Load(q) \/ ReleaseUpdate(q) \/ Reread(q)
  PROVE  Quiet(q)
<1>1. attempt \in Attempts /\ SlotFine(req[q])
  BY DEF IInv, TypeOK
<1>2. CASE Gate(q)
  BY <1>2, ReadsMove, GoingIsQuiet, CallingIsQuiet DEF Gate, Pcs
<1>3. CASE Load(q)
  BY <1>3, ReadsMove, IdleIsQuiet, CallingIsQuiet DEF Load
<1>4. CASE ReleaseUpdate(q)
  <2> DEFINE row == [attempt EXCEPT !.updated = TRUE]
  <2>1. /\ row \in Attempts /\ row.status = attempt.status /\ row.updated
        /\ row.consented = attempt.consented /\ row.acknowledged = attempt.acknowledged
        /\ row.extension = attempt.extension
    BY <1>1 DEF Attempts
  <2>2. \/ attempt' = row /\ GoWith(q, "post", row)
        \/ attempt' = attempt /\ Go(q, "reread")
    BY <1>4 DEF ReleaseUpdate, Update
  <2>3. WritesAttempt /\ attempt.status # "absent"
    BY <1>1, <1>4 DEF ReleaseUpdate, SlotFine, WasStarted, Started
  <2> HIDE DEF row
  <2>4. attempt' = row => Moves
    BY <2>1, <2>3, WritesLeave DEF Moves
  <2>5. QED  BY <2>1, <2>2, <2>3, <2>4, WritesLeave, GoingIsQuiet DEF Pcs
<1>5. CASE Reread(q)
  BY <1>1, <1>5, ReturningLeaves, ReadsMove DEF Reread, Quiet, Same
<1>6. QED  BY <1>2, <1>3, <1>4, <1>5

(* Submitting, settling and loading say nothing of the setup. *)
LEMMA SubmittingIsQuiet ==
  ASSUME IInv, NEW q \in Requests, Submitting(q)
  PROVE  Quiet(q)
<1>1. attempt \in Attempts /\ req[q] \in Slots
  BY DEF IInv, TypeOK
<1>2. CASE SubmitChecks(q)
  <2> DEFINE pc == IF Seen(q).updated THEN "record" ELSE "release"
             window == IF Late(Seen(q)) THEN "late" ELSE "on_time"
             new == [req[q] EXCEPT !.pc = pc, !.back = "before", !.window = window]
  <2>1. \/ Go(q, "close") \/ Finish(q)
        \/ req' = [req EXCEPT ![q].pc = pc, ![q].back = "before", ![q].window = window]
    BY <1>2 DEF SubmitChecks
  <2>2. Reads
    BY <1>2 DEF SubmitChecks
  <2>3. CASE Go(q, "close") \/ Finish(q)
    BY <2>2, <2>3, ReadsMove, IdleIsQuiet, GoingIsQuiet DEF Pcs
  <2>4. CASE req' = [req EXCEPT ![q].pc = pc, ![q].back = "before", ![q].window = window]
    <3>1. pc \in {"record", "release"} /\ window \in Lateness
      BY DEF Lateness
    <3> HIDE DEF pc, window
    <3>2. req' = [req EXCEPT ![q] = new]
      BY <1>1, <2>4 DEF IInv, TypeOK
    <3>3. new \in Slots /\ new.pc = pc
      BY <1>1, <3>1 DEF Slots, Pcs
    <3> HIDE DEF new
    <3>4. Stepped(q) /\ req'[q] = new
      BY <3>2, <3>3 DEF IInv, TypeOK, Stepped
    <3>5. QED  BY <2>2, <3>1, <3>3, <3>4, ReadsMove DEF Quiet, Same
  <2>5. QED  BY <2>1, <2>3, <2>4
<1>3. CASE RecordSubmission(q)
  BY <1>3, UnwrittenMoves, GoingIsQuiet DEF RecordSubmission, Pcs
<1>4. CASE CloseAttempt(q)
  <2>1. /\ attempt' = attempt \/ attempt' = [attempt EXCEPT !.status = "submitted"]
        /\ Go(q, "accepted") /\ WritesAttempt
    BY <1>4 DEF CloseAttempt
  <2>2. CASE attempt' = [attempt EXCEPT !.status = "submitted"]
    <3>1. /\ attempt'.status = "submitted" /\ attempt'.updated = attempt.updated
          /\ attempt'.consented = attempt.consented
          /\ attempt'.acknowledged = attempt.acknowledged
          /\ attempt'.extension = attempt.extension
      BY <1>1, <2>2 DEF Attempts
    <3>2. Moves
      BY <2>1, <3>1, WritesLeave DEF Moves, Started, Over, Fresh
    <3>3. QED  BY <2>1, <3>1, <3>2, WritesLeave, GoingIsQuiet DEF Pcs
  <2>3. CASE attempt' = attempt
    BY <2>1, <2>3, WritesLeave, GoingIsQuiet DEF Pcs
  <2>4. QED  BY <2>1, <2>2, <2>3
<1>5. CASE LogAccepted(q)
  BY <1>5, UnwrittenMoves, GoingIsQuiet DEF LogAccepted, Log, Aside, Pcs
<1>6. CASE EnqueueEvaluation(q)
  BY <1>6, UnwrittenMoves, IdleIsQuiet, GoingIsQuiet DEF EnqueueEvaluation, Pcs
<1>7. CASE Settle(q)
  BY <1>7, ReadsMove, GoingIsQuiet DEF Settle, Pcs
<1>8. CASE Resume(q)
  BY <1>1, <1>8, ReadsMove, GoingIsQuiet DEF Resume, Pcs
<1>9. QED
  BY <1>2, <1>3, <1>4, <1>5, <1>6, <1>7, <1>8 DEF Submitting

(* The part of the setup that leads to no event.                           *)
LEMMA PreparingIsQuiet ==
  ASSUME IInv, NEW q \in Requests, Refuse(q) \/ Repeat(q) \/ PostKickoff(q)
  PROVE  Quiet(q)
<1>1. CASE Refuse(q)
  BY <1>1, ReadsMove, IdleIsQuiet DEF Refuse
<1>2. CASE Repeat(q)
  BY <1>2, ReadsMove, IdleIsQuiet, GoingIsQuiet DEF Repeat, Pcs
<1>3. CASE PostKickoff(q)
  <2>1. Moves
    BY <1>3 DEF PostKickoff, Moves
  <2>2. QED  BY <1>3, <2>1, GoingIsQuiet DEF PostKickoff, Pcs
<1>4. QED  BY <1>1, <1>2, <1>3

-----------------------------------------------------------------------------
(* Which steps lead to an event *)

LEMMA AcceptLeads ==
  ASSUME IInv, AbsentIsEmpty, NEW q \in Requests, AcceptInvitation(q)
  PROVE  Quiet(q) \/ Leads(q) \/ Records(q)
<1>1. CASE AcceptFinds(q)
  BY <1>1, ReadsMove, IdleIsQuiet, GoingIsQuiet DEF AcceptFinds, Pcs
<1>2. CASE AcceptCreates(q)
  <2>1. CASE attempt.status = "absent"
    <3>1. Go(q, "mark") /\ attempt' = [NoAttempt EXCEPT !.status = "accepted"]
          /\ WritesAttempt
      BY <1>2, <2>1 DEF AcceptCreates
    <3>2. attempt'.status = "accepted" /\ attempt'.extension = 0
      BY <3>1 DEF NoAttempt
    <3>3. ~attempt.consented /\ ~attempt.updated /\ ~attempt.acknowledged
          /\ attempt.extension = 0
      BY <2>1 DEF IInv, RowsFine, AbsentIsEmpty
    <3>4. Moves /\ UNCHANGED <<extensions, events>>
      BY <2>1, <3>1, <3>2, <3>3, WritesLeave DEF Moves, Started, Over, Fresh, WritesAttempt
    <3>5. Stepped(q) /\ req'[q].pc = "mark" /\ req'[q].kind = "accept"
      BY <1>2, <3>1, GoSteps DEF IInv, AcceptCreates, In, Pcs
    <3>6. QED  BY <3>2, <3>3, <3>4, <3>5 DEF Leads, Same, AboutToSay
  <2>2. CASE attempt.status # "absent"
    BY <1>2, <2>2, WritesLeave, IdleIsQuiet DEF AcceptCreates
  <2>3. QED  BY <2>1, <2>2
<1>3. CASE AcceptMarks(q)
  <2>1. /\ UNCHANGED <<attempt, thread, extensions, events>>
        /\ invitation # "invited" => invitation' # "invited"
        /\ ~CallsFail => invitation' # "invited"
        /\ AboutToSay(req[q]) => attempt.status # "absent"
    BY <1>3 DEF AcceptMarks, Served, AboutToSay, In
  <2>2. Stepped(q) /\ req'[q].pc = "log" /\ req'[q].kind = "accept"
    BY <1>3, GoSteps DEF IInv, AcceptMarks, In, Pcs
  <2>3. Moves
    BY <2>1 DEF Moves
  <2>4. QED  BY <2>1, <2>2, <2>3 DEF Leads, Same, AboutToSay
<1>4. CASE AcceptLogs(q)
  BY <1>4, FinishSteps DEF IInv, AcceptLogs, Log, Records, Spoken, Idle
<1>5. QED  BY <1>1, <1>2, <1>3, <1>4 DEF AcceptInvitation

LEMMA WithdrawLeads ==
  ASSUME IInv, NEW q \in Requests, WithdrawInvitation(q)
  PROVE  Quiet(q) \/ Leads(q) \/ Records(q)
<1>1. attempt \in Attempts
  BY DEF IInv, TypeOK
<1>2. CASE WithdrawFinds(q)
  <2>1. CASE GoWith(q, "mark", attempt)
    <3>1. Stepped(q) /\ req'[q].pc = "mark" /\ req'[q].kind = "withdraw"
      BY <1>1, <1>2, <2>1, GoWithSteps DEF IInv, WithdrawFinds, In, Pcs
    <3>2. Moves /\ UNCHANGED <<attempt, extensions, events>>
      BY <1>2, ReadsMove DEF WithdrawFinds, Reads
    <3>3. QED  BY <3>1, <3>2 DEF Leads, Same, AboutToSay
  <2>2. QED  BY <1>2, <2>1, ReadsMove, IdleIsQuiet DEF WithdrawFinds
<1>3. CASE WithdrawMarks(q)
  <2>1. Moves /\ UNCHANGED <<attempt, extensions, events>>
    BY <1>3 DEF WithdrawMarks, Moves
  <2>2. QED  BY <1>3, <2>1, IdleIsQuiet, GoingIsQuiet DEF WithdrawMarks, Pcs
<1>4. CASE WithdrawShuts(q)
  <2> DEFINE row == [attempt EXCEPT !.status = "withdrawn"]
  <2>1. /\ row \in Attempts /\ row.status = "withdrawn" /\ row.updated = attempt.updated
        /\ row.consented = attempt.consented /\ row.acknowledged = attempt.acknowledged
        /\ row.extension = attempt.extension
    BY <1>1 DEF Attempts, Statuses
  <2>2. \/ attempt' = row /\ GoWith(q, "log", row)
        \/ /\ attempt' = attempt /\ Go(q, "log")
           /\ ~CallsFail => attempt.status \in Over
    BY <1>4 DEF WithdrawShuts, Update, Served, Over
  <2>3. WritesAttempt /\ req[q].kind = "withdraw"
    BY <1>4 DEF WithdrawShuts, In
  <2> HIDE DEF row
  <2>4. Moves /\ UNCHANGED <<extensions, events>> /\ attempt'.extension = attempt.extension
    BY <2>1, <2>2, <2>3, WritesLeave DEF Moves, Started, Over, Fresh, WritesAttempt
  <2>5. Stepped(q) /\ req'[q].pc = "log" /\ req'[q].kind = "withdraw"
    BY <2>1, <2>2, <2>3, GoSteps, GoWithSteps DEF IInv, Pcs
  <2>6. ~CallsFail => attempt'.status \in Over
    BY <2>1, <2>2 DEF Over
  <2>7. QED  BY <2>4, <2>5, <2>6 DEF Leads, Same, AboutToSay
<1>5. CASE WithdrawLogs(q)
  BY <1>5, FinishSteps DEF IInv, WithdrawLogs, Log, Records, Spoken, Idle
<1>6. QED  BY <1>2, <1>3, <1>4, <1>5 DEF WithdrawInvitation

LEMMA ConsentLeads ==
  ASSUME IInv, NEW q \in Requests, RecordConsent(q)
  PROVE  Leads(q)
<1> DEFINE row == [attempt EXCEPT !.consented = TRUE]
<1>1. attempt \in Attempts /\ SlotFine(req[q]) /\ req[q].kind = "consent"
  BY DEF IInv, TypeOK, RecordConsent, Proceeds, In
<1>2. /\ row \in Attempts /\ row.status = attempt.status /\ row.updated = attempt.updated
      /\ row.consented /\ row.acknowledged = attempt.acknowledged
      /\ row.extension = attempt.extension
  BY <1>1 DEF Attempts
<1>3. \/ attempt' = row /\ GoWith(q, "log", row)
      \/ attempt' = attempt /\ Go(q, "log") /\ (~CallsFail => attempt.consented)
  BY <1>1 DEF RecordConsent, Update, Served, Attempts
<1> HIDE DEF row
<1>4. WritesAttempt /\ attempt.status # "absent"
  BY <1>1 DEF RecordConsent, SlotFine, CandidateKinds
<1>5. Moves /\ UNCHANGED extensions /\ events' = events
  BY <1>2, <1>3, <1>4, WritesLeave DEF Moves, WritesAttempt
<1>6. Stepped(q) /\ req'[q].pc = "log" /\ req'[q].kind = "consent"
  BY <1>1, <1>2, <1>3, GoSteps, GoWithSteps DEF IInv, Pcs
<1>7. ~CallsFail => attempt'.consented
  BY <1>2, <1>3
<1>8. QED  BY <1>2, <1>3, <1>5, <1>6, <1>7 DEF Leads, Same, AboutToSay

LEMMA AcknowledgeLeads ==
  ASSUME IInv, NEW q \in Requests, AcknowledgeUpdate(q)
  PROVE  Leads(q)
<1> DEFINE row == [attempt EXCEPT !.acknowledged = TRUE]
<1>1. attempt \in Attempts /\ SlotFine(req[q]) /\ req[q].kind = "acknowledge"
  BY DEF IInv, TypeOK, AcknowledgeUpdate, Proceeds, In
<1>2. /\ row \in Attempts /\ row.status = attempt.status /\ row.updated = attempt.updated
      /\ row.consented = attempt.consented /\ row.acknowledged
      /\ row.extension = attempt.extension
  BY <1>1 DEF Attempts
<1>3. \/ attempt' = row /\ GoWith(q, "log", row)
      \/ attempt' = attempt /\ Go(q, "log") /\ (~CallsFail => attempt.acknowledged)
  BY <1>1 DEF AcknowledgeUpdate, Update, Served, Attempts
<1> HIDE DEF row
<1>4. WritesAttempt /\ attempt.status # "absent"
  BY <1>1 DEF AcknowledgeUpdate, SlotFine, CandidateKinds
<1>5. Moves /\ UNCHANGED extensions /\ events' = events
  BY <1>2, <1>3, <1>4, WritesLeave DEF Moves, WritesAttempt
<1>6. Stepped(q) /\ req'[q].pc = "log" /\ req'[q].kind = "acknowledge"
  BY <1>1, <1>2, <1>3, GoSteps, GoWithSteps DEF IInv, Pcs
<1>7. attempt.updated
  BY <1>1 DEF AcknowledgeUpdate, Proceeds, Refused, Seen, SlotFine
<1>8. attempt'.updated /\ (~CallsFail => attempt'.acknowledged)
  BY <1>2, <1>3, <1>7
<1>9. QED  BY <1>2, <1>3, <1>5, <1>6, <1>8 DEF Leads, Same, AboutToSay

LEMMA SetupLeads ==
  ASSUME IInv, NEW q \in Requests, SubmitSetupCode(q)
  PROVE  Leads(q)
<1> DEFINE row == [attempt EXCEPT !.status = "preflight_passed"]
<1>1. /\ attempt \in Attempts /\ SlotFine(req[q]) /\ req[q].kind = "setup" /\ WritesAttempt
      /\ Seen(q).consented
  BY DEF IInv, TypeOK, SubmitSetupCode, Proceeds, In, Refused
<1>2. /\ row \in Attempts /\ row.status = "preflight_passed"
      /\ row.updated = attempt.updated /\ row.consented = attempt.consented
      /\ row.acknowledged = attempt.acknowledged /\ row.extension = attempt.extension
  BY <1>1 DEF Attempts, Statuses
<1>3. \/ attempt.status = "accepted" /\ attempt' = row /\ GoWith(q, "log", row)
      \/ /\ attempt' = attempt /\ Go(q, "log")
         /\ ~CallsFail => attempt.status # "accepted"
  BY DEF SubmitSetupCode, Update, Served
<1> HIDE DEF row
<1>4. attempt.consented /\ attempt.status # "absent"
  BY <1>1 DEF SlotFine, Seen, CandidateKinds
<1>5. Moves /\ UNCHANGED <<extensions, events>> /\ attempt'.extension = attempt.extension
  BY <1>1, <1>2, <1>3, WritesLeave DEF Moves, Started, Over, Fresh, WritesAttempt
<1>6. Stepped(q) /\ req'[q].pc = "log" /\ req'[q].kind = "setup"
  BY <1>1, <1>2, <1>3, GoSteps, GoWithSteps DEF IInv, Pcs
<1>7. attempt'.consented /\ (~CallsFail => attempt'.status \notin Fresh)
  BY <1>2, <1>3, <1>4 DEF Fresh
<1>8. QED  BY <1>5, <1>6, <1>7 DEF Leads, Same, AboutToSay

LEMMA StartLeads ==
  ASSUME IInv, NEW q \in Requests, StartAttempt(q)
  PROVE  Leads(q)
<1> DEFINE row == [attempt EXCEPT !.status = "in_progress"]
           new == [req[q] EXCEPT !.pc = "reread", !.back = "start"]
<1>1. attempt \in Attempts /\ req[q] \in Slots /\ req[q].kind = "start" /\ WritesAttempt
  BY DEF IInv, TypeOK, StartAttempt, Proceeds, In
<1>2. /\ row \in Attempts /\ row.status = "in_progress" /\ row.updated = attempt.updated
      /\ row.consented = attempt.consented /\ row.acknowledged = attempt.acknowledged
      /\ row.extension = attempt.extension
  BY <1>1 DEF Attempts, Statuses
<1>3. \/ attempt.status = "preflight_passed" /\ attempt' = row /\ GoWith(q, "log", row)
      \/ /\ attempt' = attempt
         /\ req' = [req EXCEPT ![q].pc = "reread", ![q].back = "start"]
  BY DEF StartAttempt
<1> HIDE DEF row
<1>4. UNCHANGED extensions /\ events' = events
  BY <1>1 DEF WritesAttempt
<1>5. CASE attempt.status = "preflight_passed" /\ attempt' = row /\ GoWith(q, "log", row)
  <2>1. attempt.consented
    BY <1>5 DEF IInv, RowsFine
  <2>2. Moves
    BY <1>1, <1>2, <1>5, WritesLeave DEF Moves, Started, Over, Fresh
  <2>3. Stepped(q) /\ req'[q].pc = "log" /\ req'[q].kind = "start"
    BY <1>1, <1>2, <1>5, GoWithSteps DEF IInv, Pcs
  <2>4. WasStarted'
    BY <1>2, <1>5, <2>1 DEF WasStarted, Started
  <2>5. QED  BY <1>2, <1>4, <1>5, <2>2, <2>3, <2>4 DEF Leads, Same, AboutToSay
<1>6. CASE /\ attempt' = attempt
           /\ req' = [req EXCEPT ![q].pc = "reread", ![q].back = "start"]
  <2>1. req' = [req EXCEPT ![q] = new]
    BY <1>6 DEF IInv, TypeOK
  <2>2. new \in Slots /\ new.pc = "reread"
    BY <1>1 DEF Slots, Pcs
  <2> HIDE DEF new
  <2>3. Stepped(q) /\ req'[q].pc = "reread"
    BY <2>1, <2>2 DEF IInv, TypeOK, Stepped
  <2>4. Moves
    BY <1>1, <1>6, WritesLeave
  <2>5. QED  BY <1>4, <1>6, <2>3, <2>4 DEF Leads, Same, AboutToSay
<1>7. QED  BY <1>3, <1>5, <1>6

LEMMA PostLeads ==
  ASSUME IInv, NEW q \in Requests, PostUpdate(q)
  PROVE  Leads(q)
<1>1. Stepped(q) /\ req'[q].pc = "announce"
  BY GoSteps DEF IInv, PostUpdate, Pcs
<1>2. /\ thread' \in {thread, thread \cup {"update"}}
      /\ ~CallsFail => "update" \in thread'
      /\ UNCHANGED <<attempt, events, extensions, invitation>>
  BY DEF PostUpdate, Served
<1>3. Moves
  BY <1>2 DEF Moves
<1>4. QED  BY <1>1, <1>2, <1>3 DEF Leads, Same, AboutToSay

-----------------------------------------------------------------------------
(* Which steps record one *)

LEMMA SetupRecords ==
  ASSUME IInv, NEW q \in Requests, LogSetup(q)
  PROVE  Records(q)
<1>1. CASE In(q, "consent", "log") /\ Log(q, "consent_recorded", Go(q, "settle"))
  BY <1>1, GoSteps DEF IInv, Records, Spoken, Log, Pcs
<1>2. CASE In(q, "start", "log") /\ Log(q, "attempt_started", Go(q, "kickoff"))
  BY <1>2, GoSteps DEF IInv, Records, Spoken, Log, Pcs
<1>3. CASE /\ In(q, "acknowledge", "log")
           /\ Log(q, "requirement_update_acknowledged", Finish(q))
  BY <1>3, FinishSteps DEF IInv, Records, Spoken, Log, Idle
<1>4. CASE In(q, "setup", "log") /\ Log(q, "preflight_passed", Go(q, "settle"))
  BY <1>4, GoSteps DEF IInv, Records, Spoken, Log, Pcs
<1>5. QED  BY <1>1, <1>2, <1>3, <1>4 DEF LogSetup

LEMMA AnnounceRecords ==
  ASSUME IInv, NEW q \in Requests, AnnounceUpdate(q)
  PROVE  Records(q)
<1>1. Seen(q) \in Attempts
  BY DEF IInv, TypeOK, Seen, Slots
<1>2. QED  BY <1>1, ReturningLeaves DEF AnnounceUpdate, Log, Records, Spoken

-----------------------------------------------------------------------------
Steps(q) == (\E kind \in Offered : Arrive(q, kind)) \/ Handle(q) \/ Die(q)

LEMMA KindsOfSteps ==
  ASSUME IInv, AbsentIsEmpty, NEW q \in Requests, Steps(q)
  PROVE  Quiet(q) \/ Leads(q) \/ Records(q) \/ ExtendAttempt(q) \/ LogExtension(q)
<1>1. ASSUME NEW kind \in Offered, Arrive(q, kind) PROVE Quiet(q)
  <2>1. kind \in Kinds
    BY OfferedAssumption DEF Kinds, CandidateKinds
  <2>2. QED  BY <1>1, <2>1, ArriveIsQuiet
<1>2. CASE AcceptInvitation(q) \/ WithdrawInvitation(q) \/ Submitting(q) \/ Die(q)
  BY <1>2, AcceptLeads, WithdrawLeads, SubmittingIsQuiet, DieIsQuiet
<1>3. CASE Releasing(q)
  BY <1>3, ReleasingIsQuiet, PostLeads, AnnounceRecords DEF Releasing
<1>4. CASE Preparing(q)
  <2>1. CASE LogSetup(q)
    BY <2>1, SetupRecords
  <2>2. CASE RecordConsent(q) \/ SubmitSetupCode(q) \/ AcknowledgeUpdate(q) \/ StartAttempt(q)
    BY <2>2, ConsentLeads, SetupLeads, AcknowledgeLeads, StartLeads
  <2>3. QED  BY <1>4, <2>1, <2>2, PreparingIsQuiet DEF Preparing
<1>5. QED  BY <1>1, <1>2, <1>3, <1>4 DEF Steps, Handle

(* An extension adds one to the total the request had read, or ends.       *)
LEMMA ExtendMoves ==
  ASSUME IInv, NEW q \in Requests, ExtendAttempt(q)
  PROVE  /\ Stepped(q) /\ Moves /\ events' = events /\ UNCHANGED extensions
         /\ ~In(q, "extend", "log")
         /\ \/ /\ attempt'.extension = attempt.extension
               /\ req'[q].pc = "idle"
            \/ /\ attempt'.extension = attempt.extension + 1
               /\ attempt'.extension <= MaxExtension
               /\ req'[q].kind = "extend" /\ req'[q].pc = "log"
<1>1. /\ attempt \in Attempts /\ SlotFine(req[q]) /\ WritesAttempt /\ req[q].pc = "body"
      /\ req[q].kind = "extend" /\ req[q] \in Slots
  BY DEF IInv, TypeOK, ExtendAttempt, Proceeds, In
<1>2. UNCHANGED <<extensions, events>> /\ ~In(q, "extend", "log")
  BY <1>1 DEF WritesAttempt, In
<1>3. CASE attempt.extension = Seen(q).extension
  <2> DEFINE row == [attempt EXCEPT !.extension = Seen(q).extension + 1]
  <2>1. attempt' = row /\ Go(q, "log")
    BY <1>3 DEF ExtendAttempt
  <2>2. Seen(q).extension \in Nat /\ ~(Seen(q).extension >= MaxExtension)
    BY <1>1 DEF Seen, Slots, Attempts, ExtendAttempt, Proceeds, In, Refused
  <2>3. /\ row.extension = attempt.extension + 1 /\ row.status = attempt.status
        /\ row.updated = attempt.updated /\ row.consented = attempt.consented
        /\ row.acknowledged = attempt.acknowledged
    BY <1>1, <1>3 DEF Attempts
  <2> HIDE DEF row
  <2>4. attempt'.extension <= MaxExtension
    BY <1>3, <2>1, <2>2, <2>3
  <2>5. attempt.status # "absent"
    BY <1>1 DEF SlotFine
  <2>6. Moves
    BY <1>1, <2>1, <2>3, <2>5, WritesLeave DEF Moves
  <2>7. Stepped(q) /\ req'[q].kind = "extend" /\ req'[q].pc = "log"
    BY <1>1, <2>1, GoSteps DEF IInv, Pcs
  <2>8. QED  BY <1>2, <2>1, <2>3, <2>4, <2>6, <2>7
<1>4. CASE attempt.extension # Seen(q).extension
  <2>1. attempt' = attempt /\ Finish(q)
    BY <1>4 DEF ExtendAttempt
  <2>2. QED  BY <1>1, <1>2, <2>1, FinishSteps, WritesLeave DEF IInv, Idle
<1>5. QED  BY <1>3, <1>4

-----------------------------------------------------------------------------
(* The history *)

LEMMA InitHistory == Init => HistoryInv /\ ExtensionInv
<1> SUFFICES ASSUME Init PROVE HistoryInv /\ ExtensionInv
  OBVIOUS
<1>1. AbsentIsEmpty /\ HistoryIsTrue
  BY DEF Init, AbsentIsEmpty, HistoryIsTrue, NoAttempt
<1>2. \A q \in Requests : AboutToSay(req[q])
  BY DEF Init, Idle, AboutToSay
<1>3. Extending = {}
  BY DEF Init, Idle, Extending, In
<1>4. Cardinality(Extending) = 0 /\ IsFiniteSet(Extending)
  BY <1>3, FS_EmptySet
<1>5. extensions + Cardinality(Extending) <= attempt.extension
      /\ attempt.extension <= MaxExtension
  BY <1>4 DEF Init, NoAttempt
<1>6. QED  BY <1>1, <1>2, <1>4, <1>5 DEF HistoryInv, ExtensionInv

(* What was true to say stays true. *)
LEMMA SaidStays ==
  ASSUME IInv, HistoryIsTrue, Moves, events' \subseteq events \cup Aside,
         CompletionIsOrdered'
  PROVE  HistoryIsTrue'
<1>1. "attempt_started" \in events => attempt.status \in Started
  BY DEF HistoryIsTrue, IInv, TypeOK, Attempts, Statuses, RowsFine, Started, Unsubmitted
<1>2. /\ "invitation_accepted" \in events' => "invitation_accepted" \in events
      /\ "attempt_withdrawn" \in events' => "attempt_withdrawn" \in events
      /\ "preflight_passed" \in events' => "preflight_passed" \in events
      /\ "attempt_started" \in events' => "attempt_started" \in events
      /\ "consent_recorded" \in events' => "consent_recorded" \in events
      /\ "requirement_update_released" \in events' => "requirement_update_released" \in events
      /\ "requirement_update_acknowledged" \in events' =>
           "requirement_update_acknowledged" \in events
  BY DEF Aside
<1>3. /\ "invitation_accepted" \in events => attempt'.status # "absent" /\ invitation' # "invited"
      /\ "attempt_withdrawn" \in events => attempt'.status \in {"withdrawn", "submitted"}
      /\ "preflight_passed" \in events =>
           attempt'.consented /\ attempt'.status \notin {"absent", "accepted"}
  BY DEF HistoryIsTrue, Moves, Over, Fresh
<1>4. QED
  BY <1>1, <1>2, <1>3
     DEF HistoryIsTrue, CompletionIsOrdered, Moves, Started, Unsubmitted

LEMMA SlotsStillSay ==
  ASSUME HistoryInv, Moves, NEW q \in Requests, Stepped(q), AboutToSay(req[q])'
  PROVE  (\A p \in Requests : AboutToSay(req[p]))'
<1> SUFFICES ASSUME NEW p \in Requests PROVE AboutToSay(req[p])'
  OBVIOUS
<1>1. CASE p = q
  BY <1>1
<1>2. CASE p # q
  <2>1. req'[p] = req[p] /\ AboutToSay(req[p])
    BY <1>2 DEF Stepped, HistoryInv
  <2>2. QED  BY <2>1 DEF AboutToSay, Moves, WasStarted, Over, Fresh
<1>3. QED  BY <1>1, <1>2

LEMMA EmptyStays ==
  ASSUME AbsentIsEmpty, Moves
  PROVE  AbsentIsEmpty'
  BY DEF AbsentIsEmpty, Moves

LEMMA StepKeepsHistory ==
  ASSUME ~CallsFail, IInv, HistoryInv, NEW q \in Requests, Steps(q)
  PROVE  HistoryInv'
<1>1. /\ AbsentIsEmpty /\ HistoryIsTrue /\ AboutToSay(req[q]) /\ SlotFine(req[q])
      /\ CompletionIsOrdered'
  <2>1. Next
    BY DEF Next, Steps
  <2>2. QED  BY <2>1, NextKeeps DEF HistoryInv, IInv
<1>2. CASE Quiet(q)
  <2>1. AboutToSay(req[q])'
    BY <1>2 DEF Quiet, AboutToSay
  <2>2. QED  BY <1>1, <1>2, <2>1, SaidStays, SlotsStillSay, EmptyStays DEF Quiet, HistoryInv
<1>3. CASE Leads(q)
  BY <1>1, <1>3, SaidStays, SlotsStillSay, EmptyStays DEF Leads, HistoryInv
<1>4. CASE Records(q)
  <2>1. Moves /\ AboutToSay(req[q])'
    BY <1>4, UnwrittenMoves DEF Records, AboutToSay
  <2>2. PICK event \in Spoken :
          /\ events' = events \cup {event}
          /\ event = "invitation_accepted" =>
               attempt.status # "absent" /\ invitation # "invited"
          /\ event = "attempt_withdrawn" => attempt.status \in Over
          /\ event = "preflight_passed" => attempt.consented /\ attempt.status \notin Fresh
          /\ event = "consent_recorded" => attempt.consented
          /\ event = "attempt_started" => WasStarted
          /\ event = "requirement_update_acknowledged" =>
               attempt.updated /\ attempt.acknowledged
          /\ event = "requirement_update_released" =>
               attempt.updated /\ "update" \in thread
    BY <1>1, <1>4 DEF Records, In, AboutToSay, SlotFine
  <2>3. HistoryIsTrue'
    BY <1>1, <1>4, <2>2
       DEF Records, HistoryIsTrue, CompletionIsOrdered, WasStarted, Started, Unsubmitted,
           Over, Fresh, Spoken
  <2>4. QED  BY <1>1, <1>4, <2>1, <2>3, SlotsStillSay, EmptyStays DEF Records, HistoryInv
<1>5. CASE ExtendAttempt(q)
  <2>1. Stepped(q) /\ Moves /\ events' = events /\ AboutToSay(req[q])'
    BY <1>5, ExtendMoves DEF AboutToSay
  <2>2. QED  BY <1>1, <2>1, SaidStays, SlotsStillSay, EmptyStays DEF HistoryInv
<1>6. CASE LogExtension(q)
  <2>1. Stepped(q) /\ Moves /\ events' = events /\ req'[q] = Idle
    BY <1>6, FinishSteps, UnwrittenMoves DEF IInv, LogExtension
  <2>2. AboutToSay(req[q])'
    BY <2>1 DEF AboutToSay, Idle
  <2>3. QED  BY <1>1, <2>1, <2>2, SaidStays, SlotsStillSay, EmptyStays DEF HistoryInv
<1>7. QED  BY <1>1, <1>2, <1>3, <1>4, <1>5, <1>6, KindsOfSteps

LEMMA NextKeepsHistory ==
  ASSUME ~CallsFail, IInv, HistoryInv, [Next]_vars
  PROVE  HistoryInv'
<1>1. ASSUME NEW q \in Requests, Steps(q) PROVE HistoryInv'
  BY <1>1, StepKeepsHistory
<1>2. CASE TimePasses \/ UNCHANGED vars
  BY <1>2 DEF TimePasses, vars, HistoryInv, AbsentIsEmpty, HistoryIsTrue, AboutToSay, WasStarted
<1>3. QED  BY <1>1, <1>2 DEF Next, Steps

(* The history says of the setup and of the update what the row says, when *)
(* no statement fails unnoticed (attempts.ts 69-202).                      *)
THEOREM HistoryHolds ==
  ASSUME ~CallsFail
  PROVE  Spec => []HistoryIsTrue
<1>1. Init => HistoryInv
  BY InitHistory
<1>2. IInv /\ HistoryInv /\ [Next]_vars => HistoryInv'
  BY NextKeepsHistory
<1>3. HistoryInv => HistoryIsTrue
  BY DEF HistoryInv
<1>4. QED  BY <1>1, <1>2, <1>3, AttemptInvariant, PTL DEF Spec

-----------------------------------------------------------------------------
(* The extensions *)

LEMMA ExtendingMoves ==
  ASSUME NEW q \in Requests, Stepped(q)
  PROVE  /\ Extending' \subseteq Extending \cup {q}
         /\ ~(req'[q].kind = "extend" /\ req'[q].pc = "log") => Extending' = Extending \ {q}
         /\ req'[q].kind = "extend" /\ req'[q].pc = "log" => Extending' = Extending \cup {q}
  BY DEF Stepped, Extending, In

LEMMA StepKeepsExtensions ==
  ASSUME IInv, ExtensionInv, NEW q \in Requests, Steps(q)
  PROVE  ExtensionInv'
<1> DEFINE n == Cardinality(Extending)
           m == Cardinality(Extending \ {q})
<1>1. /\ IsFiniteSet(Extending) /\ n \in Nat /\ AbsentIsEmpty
      /\ extensions \in Nat /\ attempt.extension \in Nat
      /\ extensions + n <= attempt.extension /\ attempt.extension <= MaxExtension
  BY FS_CardinalityType DEF ExtensionInv, IInv, TypeOK, Attempts
<1>2. m \in Nat /\ m = IF q \in Extending THEN n - 1 ELSE n
  BY <1>1, FS_RemoveElement, FS_CardinalityType
<1> HIDE DEF n, m
<1>3. ASSUME Stepped(q), Moves, Same(q) PROVE ExtensionInv'
  <2>0. Extending' = Extending \ {q} /\ IsFiniteSet(Extending \ {q})
    BY <1>1, <1>3, ExtendingMoves, FS_RemoveElement DEF Same
  <2>1. Cardinality(Extending') = m /\ IsFiniteSet(Extending')
    BY <2>0 DEF m
  <2>2. QED
    BY <1>1, <1>2, <1>3, <2>1, EmptyStays DEF Same, ExtensionInv
<1>4. CASE Quiet(q) \/ Leads(q)
  BY <1>3, <1>4 DEF Quiet, Leads
<1>5. CASE Records(q)
  BY <1>3, <1>5, UnwrittenMoves DEF Records, Same
<1>6. CASE ExtendAttempt(q)
  <2>1. /\ Stepped(q) /\ Moves /\ extensions' = extensions /\ q \notin Extending
        /\ AbsentIsEmpty'
    BY <1>1, <1>6, ExtendMoves, EmptyStays DEF Extending
  <2>2. CASE attempt'.extension = attempt.extension /\ req'[q].pc = "idle"
    BY <1>3, <2>1, <2>2 DEF Same
  <2>3. CASE /\ attempt'.extension = attempt.extension + 1
             /\ attempt'.extension <= MaxExtension
             /\ req'[q].kind = "extend" /\ req'[q].pc = "log"
    <3>1. Extending' = Extending \cup {q}
      BY <2>1, <2>3, ExtendingMoves
    <3>2. Cardinality(Extending') = n + 1 /\ IsFiniteSet(Extending')
      BY <1>1, <2>1, <3>1, FS_AddElement DEF n
    <3>3. QED  BY <1>1, <2>1, <2>3, <3>2 DEF ExtensionInv
  <2>4. QED  BY <1>6, <2>2, <2>3, ExtendMoves
<1>7. CASE LogExtension(q)
  <2>1. /\ Stepped(q) /\ req'[q] = Idle /\ q \in Extending /\ extensions' = extensions + 1
        /\ attempt' = attempt
    BY <1>7, FinishSteps DEF IInv, LogExtension, Extending
  <2>2. Extending' = Extending \ {q}
    BY <2>1, ExtendingMoves DEF Idle
  <2>3. Cardinality(Extending') = m /\ IsFiniteSet(Extending')
    BY <1>1, <2>2, FS_RemoveElement DEF m
  <2>4. QED  BY <1>1, <1>2, <2>1, <2>3 DEF ExtensionInv, AbsentIsEmpty
<1>8. QED  BY <1>1, <1>4, <1>5, <1>6, <1>7, KindsOfSteps

LEMMA NextKeepsExtensions ==
  ASSUME IInv, ExtensionInv, [Next]_vars
  PROVE  ExtensionInv'
<1>1. ASSUME NEW q \in Requests, Steps(q) PROVE ExtensionInv'
  BY <1>1, StepKeepsExtensions
<1>2. CASE TimePasses \/ UNCHANGED vars
  <2>1. UNCHANGED <<attempt, extensions, req>>
    BY <1>2 DEF TimePasses, vars
  <2>2. Extending' = Extending
    BY <2>1 DEF Extending, In
  <2>3. QED  BY <2>1, <2>2 DEF ExtensionInv, AbsentIsEmpty
<1>3. QED  BY <1>1, <1>2 DEF Next, Steps

(* No extension that is in the history is missing in the total, which is   *)
(* never above the limit, however many employers extend at once and        *)
(* whatever fails or dies (attempts.ts 204-233).                           *)
THEOREM ExtensionsHold == Spec => []ExtensionsAllCount
<1>1. Init => ExtensionInv
  BY InitHistory
<1>2. IInv /\ ExtensionInv /\ [Next]_vars => ExtensionInv'
  BY NextKeepsExtensions
<1>3. IInv /\ ExtensionInv => ExtensionsAllCount
  <2> SUFFICES ASSUME IInv, ExtensionInv PROVE ExtensionsAllCount
    OBVIOUS
  <2>1. Cardinality(Extending) \in Nat /\ extensions \in Nat /\ attempt.extension \in Nat
    BY FS_CardinalityType DEF ExtensionInv, IInv, TypeOK, Attempts
  <2>2. QED  BY <2>1 DEF ExtensionInv, ExtensionsAllCount
<1>4. QED  BY <1>1, <1>2, <1>3, AttemptInvariant, PTL DEF Spec

-----------------------------------------------------------------------------
(* The ledger *)

LEMMA LedgerStays ==
  ASSUME UNCHANGED <<attempt, submission, queued>>
  PROVE  UNCHANGED Ledger!vars
  BY DEF Ledger!vars, Phase

(* An update of the row that leaves its status alone, or moves it within   *)
(* the setup.                                                              *)
LEMMA RowIsTheSame ==
  ASSUME UNCHANGED <<submission, queued>>,
         \/ attempt'.status = attempt.status
         \/ /\ attempt.status \in {"absent", "accepted", "preflight_passed"}
            /\ attempt'.status \in {"absent", "accepted", "preflight_passed"}
  PROVE  UNCHANGED Ledger!vars
  BY DEF Ledger!vars, Phase

(* Every handler but these does not touch what the ledger shows.           *)
LEMMA OtherStepsStutter ==
  ASSUME IInv, NEW q \in Requests,
         \/ \E kind \in Offered : Arrive(q, kind)
         \/ Die(q)
         \/ AcceptInvitation(q)
         \/ WithdrawFinds(q) \/ WithdrawMarks(q) \/ WithdrawLogs(q)
         \/ Releasing(q)
         \/ Refuse(q) \/ Repeat(q) \/ RecordConsent(q) \/ SubmitSetupCode(q)
         \/ AcknowledgeUpdate(q) \/ LogSetup(q) \/ PostKickoff(q) \/ ExtendAttempt(q)
         \/ LogExtension(q)
         \/ SubmitChecks(q) \/ LogAccepted(q) \/ Settle(q) \/ Resume(q)
  PROVE  UNCHANGED Ledger!vars
<1>1. attempt \in Attempts
  BY DEF IInv, TypeOK
<1>2. CASE \/ \E kind \in Offered : Arrive(q, kind)
           \/ Die(q)
           \/ WithdrawFinds(q) \/ WithdrawMarks(q) \/ WithdrawLogs(q)
           \/ Refuse(q) \/ Repeat(q) \/ LogSetup(q) \/ PostKickoff(q)
           \/ LogExtension(q)
           \/ SubmitChecks(q) \/ LogAccepted(q) \/ Settle(q) \/ Resume(q)
  <2>1. UNCHANGED <<attempt, submission, queued>>
    BY <1>2 DEF Arrive, Die, WithdrawFinds, WithdrawMarks, WithdrawLogs, Refuse, Repeat,
                LogSetup, PostKickoff, LogExtension, SubmitChecks, LogAccepted, Settle,
                Resume, Reads, Log
  <2>2. QED  BY <2>1, LedgerStays
<1>3. CASE AcceptInvitation(q)
  <2>1. UNCHANGED <<submission, queued>>
        /\ \/ attempt' = attempt
           \/ attempt.status = "absent" /\ attempt' = [NoAttempt EXCEPT !.status = "accepted"]
    BY <1>3 DEF AcceptInvitation, AcceptFinds, AcceptCreates, AcceptMarks, AcceptLogs, Reads,
                WritesAttempt, Log
  <2>2. QED  BY <2>1, RowIsTheSame DEF NoAttempt
<1>4. CASE Releasing(q)
  <2>1. UNCHANGED <<submission, queued>>
        /\ (attempt' = attempt \/ attempt' = [attempt EXCEPT !.updated = TRUE])
    BY <1>4 DEF Releasing, Gate, Load, ReleaseUpdate, PostUpdate, AnnounceUpdate, Reread,
                Reads, WritesAttempt, Log, Update
  <2>2. attempt'.status = attempt.status
    BY <1>1, <2>1 DEF Attempts
  <2>3. QED  BY <2>1, <2>2, RowIsTheSame
<1>5. CASE RecordConsent(q) \/ AcknowledgeUpdate(q) \/ ExtendAttempt(q)
  <2>1. UNCHANGED <<submission, queued>>
        /\ \/ attempt' = attempt
           \/ attempt' = [attempt EXCEPT !.consented = TRUE]
           \/ attempt' = [attempt EXCEPT !.acknowledged = TRUE]
           \/ attempt' = [attempt EXCEPT !.extension = Seen(q).extension + 1]
    BY <1>5 DEF RecordConsent, AcknowledgeUpdate, ExtendAttempt, Update, WritesAttempt
  <2>2. attempt'.status = attempt.status
    BY <1>1, <2>1 DEF Attempts
  <2>3. QED  BY <2>1, <2>2, RowIsTheSame
<1>6. CASE SubmitSetupCode(q)
  <2>1. UNCHANGED <<submission, queued>>
        /\ \/ attempt' = attempt
           \/ /\ attempt.status = "accepted"
              /\ attempt' = [attempt EXCEPT !.status = "preflight_passed"]
    BY <1>6 DEF SubmitSetupCode, Update, WritesAttempt
  <2>2. QED  BY <1>1, <2>1, RowIsTheSame DEF Attempts
<1>7. QED  BY <1>2, <1>3, <1>4, <1>5, <1>6

LEMMA WithdrawIsWithdraw ==
  ASSUME IInv, NEW q \in Requests, WithdrawShuts(q)
  PROVE  Ledger!Withdraw \/ UNCHANGED Ledger!vars
<1>1. UNCHANGED <<submission, queued>> /\ attempt \in Attempts
      /\ \/ attempt' = attempt
         \/ /\ attempt.status # "submitted"
            /\ attempt' = [attempt EXCEPT !.status = "withdrawn"]
  BY DEF IInv, TypeOK, WithdrawShuts, Update, WritesAttempt
<1>2. CASE attempt'.status = attempt.status
  BY <1>1, <1>2, RowIsTheSame
<1>3. CASE attempt'.status = "withdrawn" /\ attempt.status \notin {"submitted", "withdrawn"}
  <2>1. Phase \in {"before", "open"} /\ Phase' = "withdrawn"
    BY <1>1, <1>3 DEF Phase, Attempts, Statuses
  <2>2. QED  BY <1>1, <2>1 DEF Ledger!Withdraw
<1>4. QED  BY <1>1, <1>2, <1>3 DEF Attempts

LEMMA StartIsOpen ==
  ASSUME IInv, NEW q \in Requests, StartAttempt(q)
  PROVE  Ledger!Open \/ UNCHANGED Ledger!vars
<1>1. UNCHANGED <<submission, queued>> /\ attempt \in Attempts
      /\ \/ attempt' = attempt
         \/ /\ attempt.status = "preflight_passed"
            /\ attempt' = [attempt EXCEPT !.status = "in_progress"]
  BY DEF IInv, TypeOK, StartAttempt, WritesAttempt
<1>2. CASE attempt' = attempt
  BY <1>1, <1>2, LedgerStays
<1>3. CASE attempt.status = "preflight_passed" /\ attempt'.status = "in_progress"
  BY <1>1, <1>3 DEF Ledger!Open, Phase
<1>4. QED  BY <1>1, <1>2, <1>3 DEF Attempts

LEMMA RecordIsRecord ==
  ASSUME IInv, NEW q \in Requests, RecordSubmission(q)
  PROVE  (\E work \in Lateness : Ledger!Record(work)) \/ UNCHANGED Ledger!vars
<1>1. UNCHANGED <<attempt, queued>> /\ SlotFine(req[q]) /\ req[q].window \in Lateness
      /\ req[q].pc = "record"
  BY DEF IInv, TypeOK, Slots, RecordSubmission
<1>2. Phase # "before" /\ Phase' = Phase
  BY <1>1 DEF SlotFine, WasStarted, Started, Phase
<1>3. CASE submission = "none"
  <2>1. submission' = req[q].window
    BY <1>3 DEF RecordSubmission
  <2>2. Ledger!Record(req[q].window)
    BY <1>1, <1>2, <1>3, <2>1 DEF Ledger!Record
  <2>3. QED  BY <1>1, <2>2
<1>4. CASE submission # "none"
  BY <1>1, <1>4, LedgerStays DEF RecordSubmission
<1>5. QED  BY <1>3, <1>4

LEMMA CloseIsClose ==
  ASSUME IInv, NEW q \in Requests, CloseAttempt(q)
  PROVE  Ledger!Close \/ UNCHANGED Ledger!vars
<1>1. UNCHANGED <<submission, queued>> /\ attempt \in Attempts /\ submission # "none"
  BY DEF IInv, TypeOK, SlotFine, CloseAttempt, WritesAttempt
<1>2. CASE attempt.status = "in_progress"
  <2>1. attempt'.status = "submitted"
    BY <1>1, <1>2 DEF CloseAttempt, Attempts
  <2>2. QED  BY <1>1, <1>2, <2>1 DEF Ledger!Close, Phase
<1>3. CASE attempt.status # "in_progress"
  BY <1>1, <1>3, LedgerStays DEF CloseAttempt
<1>4. QED  BY <1>2, <1>3

LEMMA EnqueueIsEvaluate ==
  ASSUME IInv, NEW q \in Requests, EnqueueEvaluation(q)
  PROVE  Ledger!Evaluate
<1>1. UNCHANGED <<attempt, submission>> /\ queued' = TRUE
  BY DEF EnqueueEvaluation
<1>2. submission # "none" /\ attempt.status \in {"submitted", "withdrawn"}
  BY DEF IInv, SlotFine, EnqueueEvaluation
<1>3. QED  BY <1>1, <1>2 DEF Ledger!Evaluate, Phase

(* However requests interleave, fail and die, an attempt seen from outside *)
(* is an entry of the SubmissionLedger: work is recorded once and never    *)
(* replaced, an attempt that is over stays over, and only its recorded     *)
(* work is evaluated (submissions.ts 62-145, invitations.ts 211-232).      *)
THEOREM AttemptImplementsLedger == Spec => ImplementsLedger
<1>1. Init => Ledger!Init
  BY DEF Init, NoAttempt, Phase, Ledger!Init
<1>2. ASSUME IInv, [Next]_vars PROVE [Ledger!Next]_(Ledger!vars)
  <2>1. ASSUME NEW q \in Requests, Steps(q) PROVE [Ledger!Next]_(Ledger!vars)
    <3>1. CASE WithdrawShuts(q) \/ StartAttempt(q) \/ RecordSubmission(q)
               \/ CloseAttempt(q) \/ EnqueueEvaluation(q)
      BY <1>2, <3>1, WithdrawIsWithdraw, StartIsOpen, RecordIsRecord, CloseIsClose,
         EnqueueIsEvaluate
         DEF Ledger!Next
    <3>2. CASE ~(WithdrawShuts(q) \/ StartAttempt(q) \/ RecordSubmission(q)
               \/ CloseAttempt(q) \/ EnqueueEvaluation(q))
      <4>1. UNCHANGED Ledger!vars
        BY <1>2, <2>1, <3>2, OtherStepsStutter
           DEF Steps, Handle, WithdrawInvitation, Preparing, Submitting
      <4>2. QED  BY <4>1
    <3>3. QED  BY <3>1, <3>2
  <2>2. CASE TimePasses \/ UNCHANGED vars
    <3>1. UNCHANGED <<attempt, submission, queued>>
      BY <2>2 DEF TimePasses, vars
    <3>2. QED  BY <3>1, LedgerStays
  <2>3. QED  BY <1>2, <2>1, <2>2 DEF Next, Steps
<1>3. QED
  BY <1>1, <1>2, AttemptInvariant, PTL DEF Spec, ImplementsLedger, Ledger!Spec
-----------------------------------------------------------------------------
(* Withdrawals *)

(* The attempt is created from an invitation read before its withdrawal.   *)
CreatesLate(q) ==
  AcceptCreates(q) /\ attempt.status = "absent" /\ invitation = "withdrawn"

(* The withdrawal ends because it read no attempt, and there is one.       *)
MissesAttempt(q) ==
  WithdrawMarks(q) /\ Seen(q).status = "absent" /\ attempt.status # "absent"

(* The withdrawal goes on, or dies, and has not withdrawn the attempt.     *)
GivesUp(q) ==
  In(q, "withdraw", "shut") /\ req'[q] # req[q] /\ attempt'.status \in Unsubmitted

WithdrawalMisses == \E q \in Requests : CreatesLate(q) \/ MissesAttempt(q) \/ GivesUp(q)

WithdrawnIsShut ==
  invitation = "withdrawn" /\ attempt.status \in Unsubmitted =>
    \E q \in Requests : In(q, "withdraw", "shut")

LEMMA StepIsStepped ==
  ASSUME IInv, AbsentIsEmpty, NEW q \in Requests, Steps(q)
  PROVE  Stepped(q) /\ (attempt.status \in Over => attempt'.status \in Over)
<1>1. CASE LogExtension(q)
  BY <1>1, FinishSteps DEF LogExtension, IInv
<1>2. CASE ~LogExtension(q)
  BY <1>2, KindsOfSteps, ExtendMoves, UnwrittenMoves DEF Quiet, Leads, Records, Moves
<1>3. QED  BY <1>1, <1>2

LEMMA InvitationMoves ==
  ASSUME NEW q \in Requests, Steps(q), ~WithdrawMarks(q), invitation' = "withdrawn"
  PROVE  invitation = "withdrawn"
<1>1. CASE AcceptMarks(q)
  BY <1>1 DEF AcceptMarks
<1>2. CASE \/ \E kind \in Offered : Arrive(q, kind)
           \/ Die(q)
           \/ AcceptFinds(q) \/ AcceptCreates(q) \/ AcceptLogs(q)
           \/ WithdrawFinds(q) \/ WithdrawShuts(q) \/ WithdrawLogs(q)
  BY <1>2 DEF Arrive, Die, AcceptFinds, AcceptCreates, AcceptLogs, WithdrawFinds,
              WithdrawShuts, WithdrawLogs, Reads, WritesAttempt, Log
<1>3. CASE Releasing(q)
  BY <1>3 DEF Releasing, Gate, Load, ReleaseUpdate, PostUpdate, AnnounceUpdate, Reread,
              Reads, WritesAttempt, Log
<1>4. CASE Preparing(q)
  BY <1>4 DEF Preparing, Refuse, Repeat, RecordConsent, SubmitSetupCode,
              AcknowledgeUpdate, StartAttempt, LogSetup, PostKickoff, ExtendAttempt,
              LogExtension, Reads, WritesAttempt, Log
<1>5. CASE Submitting(q)
  BY <1>5 DEF Submitting, SubmitChecks, RecordSubmission, CloseAttempt, LogAccepted,
              EnqueueEvaluation, Settle, Resume, Reads, WritesAttempt, Log
<1>6. QED
  BY <1>1, <1>2, <1>3, <1>4, <1>5 DEF Steps, Handle, AcceptInvitation, WithdrawInvitation

(* Only an acceptance makes an attempt that can be worked on.              *)
LEMMA AttemptsAreCreated ==
  ASSUME IInv, NEW q \in Requests, Steps(q), attempt.status = "absent",
         attempt'.status \in Unsubmitted
  PROVE  AcceptCreates(q)
<1>1. attempt \in Attempts /\ attempt'.status # attempt.status
  BY DEF IInv, TypeOK, Unsubmitted
<1>2. ASSUME ~AcceptCreates(q), AcceptInvitation(q) PROVE FALSE
  BY <1>1, <1>2 DEF AcceptInvitation, AcceptFinds, AcceptMarks, AcceptLogs, Reads, Log
<1>3. ASSUME WithdrawInvitation(q) PROVE FALSE
  <2>1. attempt' = attempt \/ attempt' = [attempt EXCEPT !.status = "withdrawn"]
    BY <1>3 DEF WithdrawInvitation, WithdrawFinds, WithdrawMarks, WithdrawShuts,
                WithdrawLogs, Reads, Log, Update
  <2>2. QED  BY <1>1, <2>1 DEF Attempts, Unsubmitted
<1>4. ASSUME Releasing(q) PROVE FALSE
  <2>1. attempt' = attempt \/ attempt' = [attempt EXCEPT !.updated = TRUE]
    BY <1>4 DEF Releasing, Gate, Load, ReleaseUpdate, PostUpdate, AnnounceUpdate, Reread,
                Reads, WritesAttempt, Log, Update
  <2>2. QED  BY <1>1, <2>1 DEF Attempts
<1>5. ASSUME Preparing(q) PROVE FALSE
  <2>1. CASE SubmitSetupCode(q) \/ StartAttempt(q)
    BY <1>1, <2>1 DEF SubmitSetupCode, StartAttempt, Update
  <2>2. CASE RecordConsent(q) \/ AcknowledgeUpdate(q) \/ ExtendAttempt(q)
    <3>1. \/ attempt' = attempt
          \/ attempt' = [attempt EXCEPT !.consented = TRUE]
          \/ attempt' = [attempt EXCEPT !.acknowledged = TRUE]
          \/ attempt' = [attempt EXCEPT !.extension = Seen(q).extension + 1]
      BY <2>2 DEF RecordConsent, AcknowledgeUpdate, ExtendAttempt, Update
    <3>2. QED  BY <1>1, <3>1 DEF Attempts
  <2>3. CASE Refuse(q) \/ Repeat(q) \/ LogSetup(q) \/ PostKickoff(q) \/ LogExtension(q)
    BY <1>1, <2>3 DEF Refuse, Repeat, LogSetup, PostKickoff, LogExtension, Reads, Log
  <2>4. QED  BY <1>5, <2>1, <2>2, <2>3 DEF Preparing
<1>6. ASSUME Submitting(q) PROVE FALSE
  <2>1. attempt' = attempt
    BY <1>6 DEF Submitting, SubmitChecks, RecordSubmission, CloseAttempt, LogAccepted,
                EnqueueEvaluation, Settle, Resume, Reads, Log
  <2>2. QED  BY <1>1, <2>1
<1>7. ASSUME (\E kind \in Offered : Arrive(q, kind)) \/ Die(q) PROVE FALSE
  BY <1>1, <1>7 DEF Arrive, Die, Reads
<1>8. QED  BY <1>2, <1>3, <1>4, <1>5, <1>6, <1>7 DEF Steps, Handle

LEMMA StepKeepsShut ==
  ASSUME IInv, AbsentIsEmpty, WithdrawnIsShut, NEW q \in Requests, Steps(q),
         ~WithdrawalMisses
  PROVE  WithdrawnIsShut'
<1> SUFFICES ASSUME invitation' = "withdrawn", attempt'.status \in Unsubmitted
             PROVE  \E p \in Requests : In(p, "withdraw", "shut")'
  BY DEF WithdrawnIsShut
<1>1. attempt \in Attempts
  BY DEF IInv, TypeOK
<1>2. Stepped(q) /\ attempt.status \notin Over
  BY <1>1, StepIsStepped DEF Over, Unsubmitted
<1>3. CASE WithdrawMarks(q)
  <2>1. attempt' = attempt /\ Seen(q).status # "absent" /\ Go(q, "shut")
    BY <1>3 DEF WithdrawMarks, WithdrawalMisses, MissesAttempt, Unsubmitted
  <2>2. In(q, "withdraw", "shut")'
    BY <1>3, <2>1, GoSteps DEF WithdrawMarks, In, IInv, Pcs
  <2>3. QED  BY <2>2
<1>4. CASE ~WithdrawMarks(q)
  <2>1. invitation = "withdrawn"
    BY <1>4, InvitationMoves
  <2>2. attempt.status # "absent"
    BY <2>1, AttemptsAreCreated DEF WithdrawalMisses, CreatesLate
  <2>3. attempt.status \in Unsubmitted
    BY <1>1, <1>2, <2>2 DEF Attempts, Statuses, Over, Unsubmitted
  <2>4. PICK p \in Requests : In(p, "withdraw", "shut")
    BY <2>1, <2>3 DEF WithdrawnIsShut
  <2>5. req'[p] = req[p]
    BY <1>2, <2>4 DEF Stepped, WithdrawalMisses, GivesUp
  <2>6. QED  BY <2>4, <2>5 DEF In
<1>5. QED  BY <1>3, <1>4

(* The ways to an attempt that is started under a withdrawn invitation     *)
(* are three: an acceptance that read the invitation before and creates    *)
(* the attempt after, a withdrawal that read no attempt and ends beside    *)
(* one, and one that dies or fails between its two updates (invitations.ts *)
(* 213-232, 274-300; the run attempt_withdrawn_start shows one).  Without  *)
(* them a withdrawal that is over has ended what can be started.           *)
THEOREM WithdrawnCannotStartUnlessMissed ==
  Spec /\ [][~WithdrawalMisses]_vars => WithdrawnCannotStart
<1>1. Init => WithdrawnIsShut
  BY DEF Init, WithdrawnIsShut
<1>2. ASSUME IInv, ExtensionInv, WithdrawnIsShut, [Next]_vars, [~WithdrawalMisses]_vars
      PROVE  WithdrawnIsShut'
  <2>1. CASE UNCHANGED vars
    BY <1>2, <2>1 DEF vars, WithdrawnIsShut, In
  <2>2. CASE TimePasses
    BY <1>2, <2>2 DEF TimePasses, WithdrawnIsShut, In
  <2>3. ASSUME NEW q \in Requests, Steps(q), ~WithdrawalMisses PROVE WithdrawnIsShut'
    BY <1>2, <2>3, StepKeepsShut DEF ExtensionInv
  <2>4. QED  BY <1>2, <2>1, <2>2, <2>3 DEF Next, Steps
<1>3. ASSUME IInv, ExtensionInv, WithdrawnIsShut, [Next]_vars
      PROVE  [(invitation = "withdrawn" /\ \A q \in Requests : req[q].kind # "withdraw")
              => (attempt'.status = "in_progress" => attempt.status = "in_progress")]_vars
  <2> SUFFICES ASSUME invitation = "withdrawn", \A q \in Requests : req[q].kind # "withdraw",
                      attempt'.status = "in_progress", attempt.status # "in_progress"
               PROVE  FALSE
    OBVIOUS
  <2>1. attempt \in Attempts /\ attempt.status \notin Unsubmitted
    BY <1>3 DEF WithdrawnIsShut, In, IInv, TypeOK
  <2>2. PICK q \in Requests : Steps(q)
    BY <1>3 DEF Next, Steps, TimePasses, vars
  <2>3. attempt.status \notin Over
    BY <1>3, <2>2, StepIsStepped DEF Over, ExtensionInv
  <2>4. attempt.status = "absent"
    BY <2>1, <2>3 DEF Attempts, Statuses, Over, Unsubmitted
  <2>5. AcceptCreates(q)
    BY <1>3, <2>2, <2>4, AttemptsAreCreated DEF Unsubmitted
  <2>6. QED  BY <2>4, <2>5 DEF AcceptCreates, NoAttempt
<1>4. Init => ExtensionInv
  BY InitHistory
<1>5. IInv /\ ExtensionInv /\ [Next]_vars => ExtensionInv'
  BY NextKeepsExtensions
<1>6. QED
  BY <1>1, <1>2, <1>3, <1>4, <1>5, AttemptInvariant, PTL DEF Spec, WithdrawnCannotStart
=============================================================================
