-------------------------- MODULE AttemptLifecycle --------------------------
(***************************************************************************)
(* One candidate's attempt, from the invitation to the queued evaluation,  *)
(* under concurrent requests (src/lib/eng/invitations.ts, attempts.ts,     *)
(* submissions.ts, candidate-view.ts; tables of migration 028).  Attempts  *)
(* share no row, so one of them shows every interleaving.                  *)
(*                                                                         *)
(* A request reads the attempt when it arrives and keeps that copy: every  *)
(* later decision is taken on the copy, every later call is a statement of *)
(* its own, and the process may die between any two.  Statements whose     *)
(* error the code ignores may also fail (CallsFail) and the handler goes   *)
(* on; an error the code throws on is a death of the request.              *)
(***************************************************************************)
EXTENDS Naturals

CONSTANTS
  Requests,      \* requests that can be in progress at once
  Offered,       \* bound: the kinds of request that arrive
  UpdateAfter,   \* minutes until the requirement update is due
  Allowed,       \* minutes until the deadline
  Grace,         \* minutes of grace after the deadline
  MaxExtension,  \* the 1440 minutes all extensions may total
  MaxElapsed,    \* bound: the clock stops here
  MaxDeaths,     \* bound: requests that die half-way
  CallsFail      \* whether a statement whose error is ignored can fail

ASSUME TimesAssumption ==
  /\ UpdateAfter \in Nat /\ Allowed \in Nat /\ Grace \in Nat
  /\ MaxExtension \in Nat /\ MaxElapsed \in Nat /\ MaxDeaths \in Nat
ASSUME OfferedAssumption ==
  Offered \subseteq {"accept", "withdraw", "consent", "setup", "start",
                     "acknowledge", "extend", "submit", "view"}
ASSUME CallsFailAssumption == CallsFail \in BOOLEAN

VARIABLES
  invitation,  \* eng_invitations.status
  attempt,     \* the eng_attempts row ("absent" before acceptance)
  submission,  \* the eng_submissions row: "none", or its late flag
  queued,      \* whether eng_evaluation_runs has the submission's run
  events,      \* types in eng_attempt_events that have a fixed client id
  extensions,  \* number of deadline_extended events
  thread,      \* the authored messages in eng_messages
  elapsed,     \* minutes since the attempt started
  req,         \* the request each slot is working on
  told,        \* history: receipts given to the candidate
  deaths

vars == <<invitation, attempt, submission, queued, events, extensions, thread,
          elapsed, req, told, deaths>>

Statuses == {"absent", "accepted", "preflight_passed", "in_progress",
             "submitted", "withdrawn"}

Unsubmitted == {"accepted", "preflight_passed", "in_progress"}

Attempts == [status : Statuses, consented : BOOLEAN, updated : BOOLEAN,
             acknowledged : BOOLEAN, extension : Nat]

NoAttempt == [status |-> "absent", consented |-> FALSE, updated |-> FALSE,
              acknowledged |-> FALSE, extension |-> 0]

CandidateKinds ==
  {"consent", "setup", "start", "acknowledge", "submit", "view"}

Kinds == CandidateKinds \cup {"accept", "withdraw", "extend"}

Lateness == {"on_time", "late"}

Pcs == {"idle", "find", "create", "mark", "shut", "log", "gate", "body",
        "before", "record", "release", "reread", "post", "announce",
        "kickoff", "settle", "close", "accepted", "enqueue", "resume",
        "load"}

(***************************************************************************)
(* back: where releaseUpdate was called from and returns to ("gate" while  *)
(* the request is loaded, "before" in submitAttempt, "load" in the view,   *)
(* "start" when startAttempt re-reads).                                    *)
(***************************************************************************)
Slots == [kind : Kinds \cup {"none"}, pc : Pcs, seen : Attempts,
          inv : {"invited", "accepted", "withdrawn"},
          back : {"gate", "before", "load", "start"},
          window : Lateness]

Idle == [kind |-> "none", pc |-> "idle", seen |-> NoAttempt,
         inv |-> "invited", back |-> "gate", window |-> "on_time"]

Events == {"invitation_accepted", "attempt_withdrawn", "consent_recorded",
           "preflight_passed", "attempt_started",
           "requirement_update_released", "requirement_update_acknowledged",
           "submission_accepted"}

TypeOK ==
  /\ invitation \in {"invited", "accepted", "withdrawn"}
  /\ attempt \in Attempts
  /\ submission \in Lateness \cup {"none"}
  /\ queued \in BOOLEAN
  /\ events \subseteq Events
  /\ extensions \in Nat
  /\ thread \subseteq {"kickoff", "update"}
  /\ elapsed \in Nat
  /\ req \in [Requests -> Slots]
  /\ told \subseteq Lateness
  /\ deaths \in Nat

Init ==
  /\ invitation = "invited"
  /\ attempt = NoAttempt
  /\ submission = "none"
  /\ queued = FALSE
  /\ events = {}
  /\ extensions = 0
  /\ thread = {}
  /\ elapsed = 0
  /\ req = [q \in Requests |-> Idle]
  /\ told = {}
  /\ deaths = 0

-----------------------------------------------------------------------------
(* The request machinery *)

(* A step that changes its request only, and one that also changes the     *)
(* attempt.                                                                *)
Reads == UNCHANGED <<invitation, attempt, submission, queued, events,
                     extensions, thread, elapsed, told, deaths>>

WritesAttempt == UNCHANGED <<invitation, submission, queued, events,
                             extensions, thread, elapsed, told,
                             deaths>>

In(q, kind, pc) == req[q].kind = kind /\ req[q].pc = pc

Seen(q) == req[q].seen

Go(q, pc) == req' = [req EXCEPT ![q].pc = pc]

GoWith(q, pc, row) == req' = [req EXCEPT ![q].pc = pc, ![q].seen = row]

Call(q, from) == req' = [req EXCEPT ![q].pc = "release", ![q].back = from]

Finish(q) == req' = [req EXCEPT ![q] = Idle]

(* Outcomes of a statement whose error the handler never looks at. *)
Served == IF CallsFail THEN BOOLEAN ELSE {TRUE}

(* A conditional update of the attempt: the row comes back when the filter *)
(* matched, and the handler keeps its old copy when nothing did.           *)
Update(q, matches, row, hit, miss) ==
  \E served \in Served :
    IF served /\ matches
    THEN attempt' = row /\ GoWith(q, hit, row)
    ELSE attempt' = attempt /\ Go(q, miss)

(* A request arrives and its route loads the row (invitation or attempt). *)
Arrive(q, kind) ==
  /\ req[q].pc = "idle"
  /\ kind \notin {"accept", "withdraw"} => attempt.status # "absent"
  /\ kind = "withdraw" => invitation # "withdrawn"
  /\ req' = [req EXCEPT ![q] =
       [Idle EXCEPT !.kind = kind,
                    !.pc = IF kind \in CandidateKinds THEN "gate"
                           ELSE IF kind = "extend" THEN "body" ELSE "find",
                    !.inv = IF kind = "accept" THEN invitation ELSE "invited",
                    !.seen = IF kind \in {"accept", "withdraw"}
                             THEN NoAttempt ELSE attempt]]
  /\ Reads

(* recordEngEvent: the fixed client event id makes a repeat a no-op. *)
Log(q, event, next) ==
  /\ events' = events \cup {event}
  /\ next
  /\ UNCHANGED <<invitation, attempt, submission, queued, extensions, thread,
                 elapsed, told, deaths>>

-----------------------------------------------------------------------------
(* Invitations *)

(* acceptLoaded: an attempt that exists is the answer; otherwise the stale *)
(* invitation decides.                                                     *)
AcceptFinds(q) ==
  /\ In(q, "accept", "find")
  /\ IF attempt.status # "absent" \/ req[q].inv = "withdrawn"
     THEN Finish(q) ELSE Go(q, "create")
  /\ Reads

(* The unique invitation_id lets one request create the attempt. *)
AcceptCreates(q) ==
  /\ In(q, "accept", "create")
  /\ IF attempt.status = "absent"
     THEN /\ attempt' = [NoAttempt EXCEPT !.status = "accepted"]
          /\ Go(q, "mark")
     ELSE attempt' = attempt /\ Finish(q)
  /\ WritesAttempt

AcceptMarks(q) ==
  /\ In(q, "accept", "mark")
  /\ \E served \in Served :
       invitation' = IF served /\ invitation = "invited"
                     THEN "accepted" ELSE invitation
  /\ Go(q, "log")
  /\ UNCHANGED <<attempt, submission, queued, events, extensions, thread,
                 elapsed, told, deaths>>

AcceptLogs(q) ==
  /\ In(q, "accept", "log")
  /\ Log(q, "invitation_accepted", Finish(q))

AcceptInvitation(q) ==
  AcceptFinds(q) \/ AcceptCreates(q) \/ AcceptMarks(q) \/ AcceptLogs(q)

WithdrawFinds(q) ==
  /\ In(q, "withdraw", "find")
  /\ IF attempt.status = "submitted" THEN Finish(q)
     ELSE GoWith(q, "mark", attempt)
  /\ Reads

WithdrawMarks(q) ==
  /\ In(q, "withdraw", "mark")
  /\ invitation' = "withdrawn"
  /\ IF Seen(q).status = "absent" THEN Finish(q) ELSE Go(q, "shut")
  /\ UNCHANGED <<attempt, submission, queued, events, extensions, thread,
                 elapsed, told, deaths>>

(* Slip: the update does not ask for the status. *)
WithdrawnAnyhow(q) ==
  /\ In(q, "withdraw", "shut")
  /\ Update(q, TRUE, [attempt EXCEPT !.status = "withdrawn"], "log", "log")
  /\ WritesAttempt

WithdrawShuts(q) ==
  /\ In(q, "withdraw", "shut")
  /\ Update(q, attempt.status # "submitted",
            [attempt EXCEPT !.status = "withdrawn"], "log", "log")
  /\ WritesAttempt

WithdrawLogs(q) ==
  /\ In(q, "withdraw", "log")
  /\ Log(q, "attempt_withdrawn", Finish(q))

WithdrawInvitation(q) ==
  WithdrawFinds(q) \/ WithdrawMarks(q) \/ WithdrawShuts(q) \/ WithdrawLogs(q)

-----------------------------------------------------------------------------
(* releaseUpdate, called from three places *)

(* releaseUpdateIfDue on the request's copy, while the request is loaded   *)
(* ("gate", then the handler's body) and again in the view ("load").       *)
UpdateDue(row) ==
  row.status = "in_progress" /\ ~row.updated /\ elapsed >= UpdateAfter

Gate(q) ==
  /\ req[q].pc = "gate"
  /\ IF UpdateDue(Seen(q)) THEN Call(q, "gate") ELSE Go(q, "body")
  /\ Reads

Load(q) ==
  /\ req[q].pc = "load"
  /\ IF UpdateDue(Seen(q)) THEN Call(q, "load") ELSE Finish(q)
  /\ Reads

(* Slip: the update is announced without its message in the thread. *)
ReleasedUnposted(q) ==
  /\ req[q].pc = "release"
  /\ Update(q, ~attempt.updated, [attempt EXCEPT !.updated = TRUE],
            "announce", "reread")
  /\ WritesAttempt

ReleaseUpdate(q) ==
  /\ req[q].pc = "release"
  /\ Update(q, ~attempt.updated, [attempt EXCEPT !.updated = TRUE],
            "post", "reread")
  /\ WritesAttempt

PostUpdate(q) ==
  /\ req[q].pc = "post"
  /\ \E served \in Served :
       thread' = IF served THEN thread \cup {"update"} ELSE thread
  /\ Go(q, "announce")
  /\ UNCHANGED <<invitation, attempt, submission, queued, events, extensions,
                 elapsed, told, deaths>>

(* Where the caller goes on with the row releaseUpdate gave it: a request  *)
(* to submit is refused when the row shows the update released, and        *)
(* otherwise carries on to record the submission.                          *)
Return(q, row) ==
  CASE req[q].back = "gate"   -> GoWith(q, "body", row)
    [] req[q].back = "start"  -> GoWith(q, "settle", row)
    [] req[q].back = "load"   -> Finish(q)
    [] req[q].back = "before" -> IF row.updated THEN Finish(q)
                                 ELSE Go(q, "record")

AnnounceUpdate(q) ==
  /\ req[q].pc = "announce"
  /\ Log(q, "requirement_update_released", Return(q, Seen(q)))

Reread(q) ==
  /\ req[q].pc = "reread"
  /\ Return(q, attempt)
  /\ Reads

Releasing(q) ==
  Gate(q) \/ Load(q) \/ ReleaseUpdate(q) \/ PostUpdate(q) \/ AnnounceUpdate(q)
    \/ Reread(q)
-----------------------------------------------------------------------------
(* Setup: consent, the setup check, start; acknowledging; extending *)

(* The handler's checks on its copy that end the request with an error. *)
Refused(kind, row) ==
  CASE kind = "consent"     -> row.status = "withdrawn"
    [] kind = "setup"       -> row.status = "withdrawn" \/ ~row.consented
    [] kind = "start"       -> row.status \in {"withdrawn", "accepted"}
    [] kind = "acknowledge" -> ~row.updated
    [] kind = "extend"      -> \/ row.status \notin Unsubmitted
                               \/ row.extension >= MaxExtension
    [] OTHER                -> FALSE

(* The checks that return the copy at once: it was done before. *)
Repeated(kind, row) ==
  CASE kind = "consent"     -> row.consented
    [] kind = "setup"       -> row.status # "accepted"
    [] kind = "start"       -> row.status \in {"in_progress", "submitted"}
    [] kind = "acknowledge" -> row.acknowledged
    [] OTHER                -> FALSE

Proceeds(q, kind) ==
  /\ In(q, kind, "body")
  /\ ~Refused(kind, Seen(q))
  /\ ~Repeated(kind, Seen(q))

Refuse(q) ==
  /\ req[q].pc = "body"
  /\ Refused(req[q].kind, Seen(q))
  /\ Finish(q)
  /\ Reads

Repeat(q) ==
  /\ req[q].pc = "body"
  /\ ~Refused(req[q].kind, Seen(q)) /\ Repeated(req[q].kind, Seen(q))
  /\ IF req[q].kind = "acknowledge" THEN Finish(q) ELSE Go(q, "settle")
  /\ Reads

RecordConsent(q) ==
  /\ Proceeds(q, "consent")
  /\ Update(q, ~attempt.consented, [attempt EXCEPT !.consented = TRUE],
            "log", "log")
  /\ WritesAttempt

SubmitSetupCode(q) ==
  /\ Proceeds(q, "setup")
  /\ Update(q, attempt.status = "accepted",
            [attempt EXCEPT !.status = "preflight_passed"], "log", "log")
  /\ WritesAttempt

AcknowledgeUpdate(q) ==
  /\ Proceeds(q, "acknowledge")
  /\ Update(q, ~attempt.acknowledged,
            [attempt EXCEPT !.acknowledged = TRUE], "log", "log")
  /\ WritesAttempt

StartAttempt(q) ==
  /\ Proceeds(q, "start")
  /\ \E served \in Served :
       IF served /\ attempt.status = "preflight_passed"
       THEN /\ attempt' = [attempt EXCEPT !.status = "in_progress"]
            /\ GoWith(q, "log", attempt')
       ELSE /\ attempt' = attempt
            /\ req' = [req EXCEPT ![q].pc = "reread", ![q].back = "start"]
  /\ WritesAttempt

(* The event of a setup step is recorded whether or not the update matched. *)
LogSetup(q) ==
  \/ In(q, "consent", "log") /\ Log(q, "consent_recorded", Go(q, "settle"))
  \/ In(q, "setup", "log") /\ Log(q, "preflight_passed", Go(q, "settle"))
  \/ In(q, "start", "log") /\ Log(q, "attempt_started", Go(q, "kickoff"))
  \/ /\ In(q, "acknowledge", "log")
     /\ Log(q, "requirement_update_acknowledged", Finish(q))

PostKickoff(q) ==
  /\ req[q].pc = "kickoff"
  /\ \E served \in Served :
       thread' = IF served THEN thread \cup {"kickoff"} ELSE thread
  /\ Go(q, "settle")
  /\ UNCHANGED <<invitation, attempt, submission, queued, events, extensions,
                 elapsed, told, deaths>>

(* Slip: the total is written whatever it has become since. *)
ExtendedBlindly(q) ==
  /\ Proceeds(q, "extend")
  /\ attempt' = [attempt EXCEPT !.extension = Seen(q).extension + 1]
  /\ Go(q, "log")
  /\ WritesAttempt

(* The status is checked on the copy; the update is conditional on the     *)
(* total alone.  An error is not ignored here.                             *)
ExtendAttempt(q) ==
  /\ Proceeds(q, "extend")
  /\ IF attempt.extension = Seen(q).extension
     THEN /\ attempt' = [attempt EXCEPT !.extension = Seen(q).extension + 1]
          /\ Go(q, "log")
     ELSE attempt' = attempt /\ Finish(q)
  /\ WritesAttempt

LogExtension(q) ==
  /\ In(q, "extend", "log")
  /\ extensions' = extensions + 1
  /\ Finish(q)
  /\ UNCHANGED <<invitation, attempt, submission, queued, events, thread,
                 elapsed, told, deaths>>

Preparing(q) ==
  \/ Refuse(q) \/ Repeat(q) \/ RecordConsent(q) \/ SubmitSetupCode(q)
  \/ AcknowledgeUpdate(q) \/ StartAttempt(q) \/ LogSetup(q) \/ PostKickoff(q)
  \/ ExtendAttempt(q) \/ LogExtension(q)

-----------------------------------------------------------------------------
(* Submission *)

(* submissionWindow of the copy. *)
Late(row)   == elapsed > Allowed + row.extension
Closed(row) == elapsed > Allowed + row.extension + Grace

(* Slip: the update is not released before an early submission. *)
SubmittedUnprepared(q) ==
  /\ In(q, "submit", "body")
  /\ IF submission # "none" THEN Go(q, "close")
     ELSE IF Seen(q).status # "in_progress" \/ Closed(Seen(q)) THEN Finish(q)
     ELSE req' = [req EXCEPT
            ![q].pc     = "record",
            ![q].window = IF Late(Seen(q)) THEN "late" ELSE "on_time"]
  /\ Reads

(* Slip: a repeated submit is answered without completing the first. *)
RepeatAnswered(q) ==
  /\ In(q, "submit", "body")
  /\ IF \/ submission # "none"
        \/ Seen(q).status # "in_progress" \/ Closed(Seen(q))
     THEN Finish(q)
     ELSE req' = [req EXCEPT
            ![q].pc     = IF Seen(q).updated THEN "record" ELSE "release",
            ![q].back   = "before",
            ![q].window = IF Late(Seen(q)) THEN "late" ELSE "on_time"]
  /\ Reads

(* submitAttempt: a recorded submission is completed again; otherwise the  *)
(* copy decides, and an update not yet released is released first.         *)
SubmitChecks(q) ==
  /\ In(q, "submit", "body")
  /\ IF submission # "none" THEN Go(q, "close")
     ELSE IF Seen(q).status # "in_progress" \/ Closed(Seen(q)) THEN Finish(q)
     ELSE req' = [req EXCEPT
            ![q].pc     = IF Seen(q).updated THEN "record" ELSE "release",
            ![q].back   = "before",
            ![q].window = IF Late(Seen(q)) THEN "late" ELSE "on_time"]
  /\ Reads

(* Slip: nothing makes the submission of an attempt unique. *)
RecordedTwice(q) ==
  /\ req[q].pc = "record"
  /\ submission' = req[q].window
  /\ Go(q, "close")
  /\ UNCHANGED <<invitation, attempt, queued, events, extensions, thread,
                 elapsed, told, deaths>>

(* The insert, whose unique attempt_id makes the second one complete the   *)
(* first.  An archive that was not accepted ends the request (Die).        *)
RecordSubmission(q) ==
  /\ req[q].pc = "record"
  /\ IF submission = "none"
     THEN submission' = req[q].window
     ELSE UNCHANGED submission
  /\ Go(q, "close")
  /\ UNCHANGED <<invitation, attempt, queued, events, extensions, thread,
                 elapsed, told, deaths>>

(* Slip: a status the table has no name for. *)
ClosedUnnamed(q) ==
  /\ req[q].pc = "close"
  /\ attempt' = IF attempt.status = "in_progress"
                THEN [attempt EXCEPT !.status = "completed"] ELSE attempt
  /\ Go(q, "accepted")
  /\ WritesAttempt

(* completeSubmission, from submitAttempt and from the candidate's view. *)
CloseAttempt(q) ==
  /\ req[q].pc = "close"
  /\ attempt' = IF attempt.status = "in_progress"
                THEN [attempt EXCEPT !.status = "submitted"] ELSE attempt
  /\ Go(q, "accepted")
  /\ WritesAttempt

LogAccepted(q) ==
  /\ req[q].pc = "accepted"
  /\ Log(q, "submission_accepted", Go(q, "enqueue"))

(* enqueueEvaluation, whose unique run key makes a repeat a no-op; then    *)
(* submitAttempt answers with the receipt and the view reads the attempt.  *)
EnqueueEvaluation(q) ==
  /\ req[q].pc = "enqueue"
  /\ queued' = TRUE
  /\ IF req[q].kind = "submit"
     THEN told' = told \cup {submission} /\ Finish(q)
     ELSE told' = told /\ Go(q, "resume")
  /\ UNCHANGED <<invitation, attempt, submission, events, extensions, thread,
                 elapsed, deaths>>

(* settleRecordedSubmission: only a copy that is in progress looks for a   *)
(* submission to complete.                                                 *)
Settle(q) ==
  /\ req[q].pc = "settle" \/ In(q, "view", "body")
  /\ IF Seen(q).status = "in_progress" /\ submission # "none"
     THEN Go(q, "close") ELSE Go(q, "load")
  /\ Reads

Resume(q) ==
  /\ req[q].pc = "resume"
  /\ GoWith(q, "load", attempt)
  /\ Reads

Submitting(q) ==
  \/ SubmitChecks(q) \/ RecordSubmission(q) \/ CloseAttempt(q)
  \/ LogAccepted(q) \/ EnqueueEvaluation(q) \/ Settle(q) \/ Resume(q)

-----------------------------------------------------------------------------
(* The specification *)

TimePasses ==
  /\ attempt.status \notin {"absent", "accepted", "preflight_passed"}
  /\ elapsed < MaxElapsed
  /\ elapsed' = elapsed + 1
  /\ UNCHANGED <<invitation, attempt, submission, queued, events, extensions,
                 thread, req, told, deaths>>

(* The process dies, a statement throws, or an input is refused. *)
Die(q) ==
  /\ req[q].pc # "idle"
  /\ deaths < MaxDeaths
  /\ deaths' = deaths + 1
  /\ Finish(q)
  /\ UNCHANGED <<invitation, attempt, submission, queued, events, extensions,
                 thread, elapsed, told>>

Handle(q) ==
  \/ AcceptInvitation(q) \/ WithdrawInvitation(q) \/ Releasing(q)
  \/ Preparing(q) \/ Submitting(q)

Next ==
  \/ \E q \in Requests : \/ \E kind \in Offered : Arrive(q, kind)
                         \/ Handle(q)
                         \/ Die(q)
  \/ TimePasses

Spec == Init /\ [][Next]_vars

(* Every request the platform does not kill runs to its end. *)
Progress == \A q \in Requests : WF_vars(Handle(q))

FairSpec == Spec /\ Progress

-----------------------------------------------------------------------------
(* Properties *)

(* A receipt the candidate was given is for the one recorded submission,   *)
(* with the lateness it was recorded with, and by then its evaluation is   *)
(* queued and its acceptance is in the history (submissions.ts 87-145),    *)
(* whichever of several submits answered first or died.                    *)
ReceiptsAreHonoured ==
  told # {} => /\ told = {submission}
               /\ queued
               /\ "submission_accepted" \in events

(* completeSubmission runs after the record and in order: no evaluation    *)
(* without an accepted submission in the history, no acceptance without a  *)
(* recorded submission and an attempt that is over, and no attempt that is *)
(* closed as submitted with nothing recorded (submissions.ts 62-85).       *)
CompletionIsOrdered ==
  /\ queued => "submission_accepted" \in events
  /\ "submission_accepted" \in events =>
       submission # "none" /\ attempt.status \in {"submitted", "withdrawn"}
  /\ attempt.status = "submitted" => submission # "none"

(* Every submission is recorded after the requirement update was released, *)
(* on an attempt its candidate consented to and started, whichever request *)
(* released it (attempts.ts 58-62, submissions.ts 104-112).                *)
SubmissionsHadTheUpdate ==
  submission # "none" =>
    /\ attempt.updated /\ attempt.consented
    /\ attempt.status \in {"in_progress", "submitted", "withdrawn"}

(* What the history says is what the rows say, although the copy that led  *)
(* to an event may be old and another request may have made the change     *)
(* (attempts.ts 69-202, invitations.ts 211-315): an invitation recorded as *)
(* accepted has its attempt; an attempt recorded as withdrawn is withdrawn *)
(* or was submitted first, and nothing brings it back; an acceptance has   *)
(* its submission, and every run its acceptance.                           *)
HistoryIsTrue ==
  /\ "invitation_accepted" \in events =>
       attempt.status # "absent" /\ invitation # "invited"
  /\ "attempt_withdrawn" \in events =>
       attempt.status \in {"withdrawn", "submitted"}
  /\ "preflight_passed" \in events =>
       attempt.consented /\ attempt.status \notin {"absent", "accepted"}
  /\ "attempt_started" \in events =>
       attempt.consented /\ attempt.status \notin Unsubmitted \ {"in_progress"}
  /\ "consent_recorded" \in events => attempt.consented
  /\ "requirement_update_released" \in events =>
       attempt.updated /\ "update" \in thread
  /\ "requirement_update_acknowledged" \in events =>
       attempt.updated /\ attempt.acknowledged
  /\ "submission_accepted" \in events =>
       submission # "none" /\ attempt.status \in {"submitted", "withdrawn"}
  /\ queued => "submission_accepted" \in events

(* Seen from outside, an attempt is its entry in the SubmissionLedger: its *)
(* work is recorded once and never replaced, whichever submits race with   *)
(* each other and with a withdrawal, an attempt that is over stays over,   *)
(* and only recorded work of such an attempt is queued (submissions.ts     *)
(* 62-145, invitations.ts 211-232).                                        *)
Phase == IF attempt.status \in {"absent", "accepted", "preflight_passed"}
         THEN "before"
         ELSE IF attempt.status = "in_progress" THEN "open" ELSE attempt.status

Ledger == INSTANCE SubmissionLedger
  WITH Submissions <- Lateness, None <- "none", phase <- Phase, recorded <- submission

ImplementsLedger == Ledger!Spec

(* Two employers extending at once lose no extension and never pass the    *)
(* 24 hours: every recorded extension is part of the total (attempts.ts    *)
(* 204-233).                                                               *)
ExtensionsAllCount ==
  extensions <= attempt.extension /\ attempt.extension <= MaxExtension

(* "The candidate will no longer be able to work on or submit the task"    *)
(* (RoleControls.tsx 293): once an invitation is withdrawn and the request *)
(* that withdrew it is over, the attempt cannot be started.                *)
WithdrawnCannotStart ==
  [][(invitation = "withdrawn" /\ \A q \in Requests : req[q].kind # "withdraw")
     => (attempt'.status = "in_progress" => attempt.status = "in_progress")]_vars

(* A candidate who submits again and again gets recorded work evaluated,   *)
(* wherever the request that recorded it died (submissions.ts 88-92).  The *)
(* repetition is the premise: nothing makes the candidate repeat.          *)
RepeatedSubmitsComplete ==
  []<><<\E q \in Requests : Arrive(q, "submit")>>_vars
    => (submission # "none" ~> queued)

(* "A process that died between recording the submission and queueing its  *)
(* evaluation is completed by the next retry or page load" (submissions.ts *)
(* 66): page loads alone, as many as it takes, do what the submits do.     *)
RepeatedLoadsComplete ==
  []<><<\E q \in Requests : Arrive(q, "view")>>_vars
    => (submission # "none" ~> queued)
=============================================================================
