# Fydell: verification of the engineering assessment core

This directory holds TLA+ models of the part of the program that decides what
happens to a candidate's work: the assessment core under `src/src/lib/eng`,
from the authoring of a work sample to the decision on a report, and the
imports of `src/src/lib/passport`, with the tables, triggers and functions of
`src/supabase/migrations` they rely on.

## 1. The system

Fydell is a Next.js application over a Postgres database (Supabase), with a
desktop application in Rust.  Every `db.from(...)` call is an HTTP request and
a transaction of its own; a request handler is a sequence of such calls with
no transaction around it, may be running many times at once, and may die
between any two calls (deployment, time limit of the platform, an exception
in a later call).  Work that follows a response (`after(...)`) may never run.
What keeps the data consistent is therefore compare-and-set updates
(`.eq("status", ...)`), unique keys with error 23505 treated as "already
done", triggers, and a few SQL functions that are one transaction.  These are
what the models are about.

### Inventory

| Component | State it keeps | Operations | Interacts through | Hard behaviour | What makes it correct |
|---|---|---|---|---|---|
| Evaluation queue (`eng/evaluation/queue.ts`, `route-helpers.ts`) | `eng_evaluation_runs`: status, tries, budget, lease, retry time, results | enqueue, scan, claim, exhaust, fail, complete, requeue | submissions enqueue; every view of an attempt may schedule a worker; release of a report finalises the run | concurrent workers, stale scans, lapsed leases, deaths, stale requeues | one try per execution, fence, frozen results, every run settles |
| Operations desk (`ops/ops-actions.ts`) | `ops_actions`, one row per idempotency key | requeue, cancel, enqueue, reset upload, retry or cancel import | writes runs, uploads, import jobs | double click, retry of a lost answer, races with workers | each key acts at most once; a lost race is a `noop` |
| Authored evaluation (`eng/authored/evaluation-run.ts`) | `eng_authored_evaluations`, `eng_reports` drafts | evaluate, record, draft, hand over | a run of the queue | a second worker repeats every write of the first | a run in review has its record and draft; record, draft and results describe one execution (they may not) |
| Reports and decisions (`eng/reports.ts`, `employer.ts`, migrations 028, 081, 091) | `eng_reports`, `eng_decisions` | draft, validate, release, correct, decide | the queue's run, the review workspace | validation reads a draft that another reviewer rewrites before the release | what is released is what was validated; at most one current release |
| Invitations, attempts, submissions (`eng/invitations.ts`, `attempts.ts`, `submissions.ts`, `state.ts`) | `eng_invitations`, `eng_attempts`, `eng_events`, `eng_submissions` | invite, accept, withdraw, consent, setup, start, reveal update, extend, submit | each other, the queue, the clock | acceptance races withdrawal; submission dies half-way; the clock passes during a request | an attempt never moves backwards; one submission; every recorded submission is evaluated |
| Uploads (`eng/uploads.ts`) | `eng_uploads` and object storage | initiate, upload, finalize, load | submissions read an accepted upload | a death while validating; two finalisations | an accepted upload is the object that was checked |
| Authored runtime (`eng/authored/runtime.ts`) | workspace revisions, sealed archives | save, run public tests, submit, follow through | attempts, storage, queue | sealed objects orphaned by a lost race | the submission's archive, and only it, is accepted and kept (a lost answer may remove it) |
| Work-sample authoring (`eng/authoring/drafts.ts`, `jobs.ts`, migrations 061 to 064) | drafts with revisions, protected materials, checks, previews, approvals, versions, jobs with leases | generate, edit, test, preview, review, publish, archive | jobs run after a response or on a schedule, on the draft people edit | two tables written one after the other; a job ending on a draft that moved on; workers that come late | a published version was checked, opened and approved as it is; a generation writes once; a job ends |
| Imports (`passport/import-store.ts`, `store.ts`, migration 047) | `durable_jobs`, snapshots and their evidence | enqueue, claim, save, cancel, retry, resume, reconcile | `claim_durable_job`, the schedule, the operations desk | lost workers, late cancellations, requests to repeat that race | what ended stays; tries are bounded; a success has its snapshot and its evidence (it may not have the evidence) |
| Simulations (`lib/simulations`, migrations 030, 033) | sessions, submissions, transfers | start, event, submit, transfer | `submit_session_atomic` | concurrent submits | one submission per session |
| Profile evidence, share grants, receipts, billing, outbox, desktop sync | see PROJECT.json | | | idempotency keys, revocation, retries | not modelled yet |

The remaining parts (rendering, content, scoring arithmetic, authentication)
are listed in PROJECT.json with the reason they are left out.

## 2. The modules, and what is left

| Module | Models | Runs | Theorems |
|---|---|---|---|
| `EvaluationQueue` (implements `EvaluationLifecycle`) | the queue and the desk's actions on it | `queue_safety` | `EvaluationQueueProofs` |
| `AttemptLifecycle` (implements `SubmissionLedger`) | invitation, attempt, submission | `attempt_safety`, `attempt_retries`, `attempt_page_load`, `attempt_withdrawn_start` | `AttemptLifecycleProofs`, `AttemptHistoryProofs` |
| `Reports` (implements `ReportLedger`) | evaluation records, reports, decisions | `reports_safety` | `ReportsProofs` |
| `Drafts` (implements `DraftReview`) | a draft and its review | `drafts_safety` | `DraftsProofs` |
| `AuthoringJobs` | leases and tries of authoring jobs | `authoring_jobs` | `AuthoringJobsProofs` |
| `Sealing` (implements `SubmissionLedger`) | the archive of an authored submission | `sealing_safety`, `sealing_kept` | `SealingProofs` |
| `ImportJobs` | an import, its workers and operators | `imports_safety`, `imports_findings` | `ImportJobsProofs` |

The modules meet in the rows they share.  `Drafts` and `AuthoringJobs` split
one system: the first keeps what is written and lets any job run at any time,
the second keeps who may run and of the draft only its revision.  `Sealing`
stops where `AttemptLifecycle` goes into detail, and hands over to
`EvaluationQueue`, whose run `Reports` reduces to its status and owner.
That the two describe one thing is a theorem: both implement
`SubmissionLedger`, what the rest of the system may assume of a candidate's
work (it is recorded once and never replaced, an attempt that is over stays
over, and only recorded work of such an attempt is queued).

| Left | Models | Worth stating |
|---|---|---|
| `Uploads` | `uploads.ts` with `prepareUploadReset` of the desk and late bytes in storage | an accepted upload is the object that was checked although two finalisations overlap after a reset |
| public test runs | `runPublicTests` and migration 065 | the allowance is kept; a run whose request died |
| collaboration | `authored/collaboration.ts`, follow-ups | a reply for each message, once |
| more | `submit_session_atomic`, billing ledger, share grants, email outbox, desktop sync | |

There is one passing run per module, one more where liveness needs a request
to die (the attempt), and four that show the code disagree with what it says of
itself.  Other disagreements are listed in section 10.

Each module is parameterised by CONSTANTS, has no RECURSIVE operator and one
action per step of the code, so that it can be proved about.

## 3. The evaluation queue

`EvaluationQueue` models `queue.ts` with the rows of migration 028.

| In the model | In the code |
|---|---|
| `run[r]` | the row of `eng_evaluation_runs`; `budget` is `max_attempts`, `attempts` is `attempt_count`, `lease` and `retry` abstract the two timestamps to what a comparison with the clock answers |
| `seen[w]` | the candidates `claimRun` read and has still to try |
| `job[w]` | the row the claim returned, with the budget it had then |
| `desk[o]` | what `requeueRun`, or `prepareRunRequeue`/`prepareRunCancel` of the operations desk, read before it writes |
| `pending[a]`, `history` | the event an actor records after its write, and `eng_attempt_events` |
| `Scan`, `Claim`, `Exhaust` | the select of `claimRun` and one iteration of its loop with or without tries left; an iteration whose update matches no row drops the candidate |
| `Fail`, `Complete` | `failRun` and the end of `processRun`, both fenced by owner and status |
| `Requeue`, `OpsRequeue`, `OpsCancel` | the writes of operators |
| `Crash`, `OperatorGone` | the end of a process or request between two calls |
| `LeaseLapses`, `RetryFallsDue` | the clock |

The scan reads the oldest rows first.  The model lets it read any
`CandidateLimit` of them, which includes the oldest.

### What the runs check

`EvaluationQueue_safety.cfg` has one run, two workers and two operators, two
outcomes, and budgets 2, 1 and 2 (in the code 3, 3 and 10).  All conflicts are
on one row, so one run is enough; two tries let a run be tried, canceled,
requeued and tried again up to the cap, which is when old reads of an earlier
round meet a later one; two operators let two stale requeues follow each
other.  The safety properties are proved for any budgets.

* `FencedCopyIsCurrent`: `failRun` decides from the row its claim returned.
  Whenever its fenced write can match, that copy is still the row's.
* `HistoryIsTrue`: the events recorded after the fact never report a
  completion, cancelation or reclaim that did not happen.  The events
  `retries_exhausted` and `requeued` are left out on purpose: `claimRun` and
  `requeueRun` record them whether or not their update matched the row, so
  after a lost race they can be in the history of a run that completed.
* `LiveLeaseIsRespected`, `EveryStartUsesATry`: action properties about every
  step of every actor.
* `ImplementsLifecycle`: for each run, the whole is a behaviour of
  `EvaluationLifecycle`.

* `EveryRunSettles`: under the fairness below, whoever dies and whatever is
  requeued, a run is reviewed, blocked or canceled.

### Fairness

Time passes (`LeaseLapses`, `RetryFallsDue`), a scheduler keeps calling the
worker route (`WF(Scan)`), a call ends or is killed
(`WF(EndJob \/ RecordEvent \/ Crash)`), and not every call dies between its
scan and its claim (`SF(TryCandidate)`).  Weak fairness would not do for the
last: a worker that always dies after its scan disables the claim again and
again.  Operators are not fair: nothing depends on a person acting.

### What is proved

`EvaluationQueueProofs` proves, for any sets of runs, workers, operators and
outcomes and any budgets that satisfy `BudgetsAreOrdered`, every property of
the safety run, and three more that follow from the same invariant and have no
run of their own: a lease exists only while its run is running
(`LeaseOnlyWhileRunning`; `requeueRun` does not clear it, and no status it
accepts has one), results only for finished runs (`ResultsOnlyWhenFinished`),
and those stay as they are (`FinishedIsFrozen`).  `TypeOK` is inductive alone.
The others need what actors read earlier: `IInv` adds `ScanReads` (an old read whose status and
tries still match is as good as a fresh one, because tries only grow and a
live lease or a waiting retry always starts at a new try), `DeskReads` (what
an operator read was open to its action), `JobsNameRuns` and `RowsAreOrderly`.
`RowStep`, `ReadStep` and `FenceStep` say which changes of one row keep it;
each action is then shown to be such a change.  The refinement and the action
properties follow from `IInv`; `HistoryIsTrue` follows from the refinement,
because runs only move forward.  Liveness stays with TLC.

## 4. The attempt

`AttemptLifecycle` models one attempt from its invitation to the queued
evaluation.  Attempts share no row, so one is enough; what makes it hard is
that several requests work on it at once, each from the copy it read when it
arrived.

| In the model | In the code |
|---|---|
| `invitation`, `attempt`, `submission`, `queued` | the rows of `eng_invitations`, `eng_attempts`, `eng_submissions` and `eng_evaluation_runs`; of an attempt the status, whether consent and the update have a time, the acknowledgement and the extension |
| `events`, `extensions`, `thread` | the events with a fixed client id, the number of `deadline_extended` events, the authored messages |
| `elapsed` | minutes since the start; the release of the update and the deadline are computed from it and from the copy |
| `req[q]` | one request: its kind, the next statement, the copy of the row (`seen`), where `releaseUpdate` returns to (`back`) |
| `Arrive`, `Gate` | `route-helpers.ts`: the row is read, an update that is due is released first |
| `AcceptInvitation`, `WithdrawInvitation` | `acceptLoaded`, `withdrawInvitation`, statement by statement |
| `ReleaseUpdate`, `PostUpdate`, `AnnounceUpdate`, `Reread` | `releaseUpdate`, from its four callers |
| `RecordConsent`, `SubmitSetupCode`, `StartAttempt`, `AcknowledgeUpdate`, `ExtendAttempt`, `LogSetup`, ... | the handlers of `attempts.ts`; `Refuse` and `Repeat` are their early returns |
| `SubmitChecks`, `RecordSubmission`, `CloseAttempt`, `LogAccepted`, `EnqueueEvaluation` | `submitAttempt` and `completeSubmission` |
| `Settle`, `Resume`, `Load` | `settleRecordedSubmission` and the view of a page load |
| `Die` | the process ends, a statement throws, an input is refused (a wrong setup code, an archive that was not accepted) |
| `told` | history: the receipts given |

`CallsFail` says whether statements whose error the code never looks at may
fail; the handler then goes on as the code does.  Expiry and resending of
invitations, drafts of the handoff, messages of the candidate and starter
downloads are left out: no modelled operation reads what they write.

### What the runs check

`AttemptLifecycle_safety.cfg`: any two of the nine kinds of request at once,
two minutes of clock (update due after one, deadline at once, one minute of
grace), one extension.  Two requests suffice for every race of a copy with a
write, and two minutes reach before the update, after it, late and closed.

* `ReceiptsAreHonoured`: every receipt is for the one submission and its
  lateness, and by then the work is queued.
* `ImplementsLedger`: the attempt, seen from outside, is its entry in
  `SubmissionLedger`.  The ledger lets work be recorded on an attempt that was
  withdrawn meanwhile, because the code does: the submit checks the status and
  its insert does not.
* `SubmissionsHadTheUpdate`: no submission before the release of the update,
  consent and start.
* `HistoryIsTrue`: events recorded from old copies say what the rows say, for
  every kind of event.  Of `attempt_withdrawn` it says what the code
  guarantees: the attempt is withdrawn or was submitted first, since the event
  is recorded whatever the update before it did.
* `ExtensionsAllCount`: two extensions at once lose none and keep the limit.

`AttemptLifecycle_retries.cfg` lets statements fail and one request die, with
the clock before the update (an early submit releases it) and page loads in
between, and checks that a candidate who goes on submitting gets recorded work
queued (`RepeatedSubmitsComplete`).  That the candidate does is the premise of
the property, not an assumption of the specification.

`AttemptLifecycle_page_load.cfg` shows a disagreement: `completeSubmission`
promises completion "by the next retry or page load"
(`submissions.ts:66`), and page loads alone do not keep it
(`RepeatedLoadsComplete`).  When the request dies after it has closed the
attempt and before it has queued the evaluation, `settleRecordedSubmission`
(`candidate-view.ts:71`) finds an attempt that is not in progress and returns:
the work stays unevaluated until somebody submits again.

`AttemptLifecycle_withdrawn_start.cfg` shows a disagreement: an acceptance
that races a withdrawal leaves an attempt that can be started, although the
employer is told that the candidate no longer can.

### Fairness

`Progress` is weak fairness of the next statement of each request: the
platform runs a request until it ends or kills it (`Die`, bounded).
Nothing is assumed of candidates, employers or the clock; the
two liveness properties name the repetition they need as their premise.

### What is proved

`AttemptLifecycleProofs`, for any number of requests and any times: `TypeOK`,
`ReceiptsAreHonoured` and, whatever fails or dies, `CompletionIsOrdered`
(nothing is queued, logged or closed before the step it follows; no run checks
it alone, `ImplementsLedger` and `HistoryIsTrue` fail with it), and
`SubmissionsHadTheUpdate` when no statement fails unnoticed (`~CallsFail`; it
is not true otherwise).  None is inductive: `SubmissionsHadTheUpdate` needs to
know that a request about to record knows of the update.  `IInv` adds
`RowsFine`, about the tables, and `SlotFine` for every request: its copy is no
further than the row, and each of its statements is reached only after the
ones it relies on.  `Grows` lists what no step takes back; a step of one
request keeps `SlotFine` of the others because of it.  Liveness is
model-checked only.

`AttemptHistoryProofs` builds on the same invariant.  `HistoryIsTrue`, again
with `~CallsFail`, holds because what a request is about to record of an
attempt is so when it gets to the statement (`AboutToSay`), and no step of
another request (`Moves`) takes it back.  `ExtensionsAllCount` counts: the
extensions in the history and the requests that have written one and not
recorded it (`Extending`) are together no more than the row's total.  That
there are finitely many of the latter is part of the invariant, so nothing is
assumed of the number of requests.

`AttemptImplementsLedger` is the refinement.  Of every step it is enough to
know where it may move the status, the submission and the queue (`Stepped`);
a status only moves forward because every update in the code asks for the one
it leaves.

`WithdrawnCannotStartUnlessMissed` is about the property that
`attempt_withdrawn_start` refutes.  It holds of every behaviour in which no
withdrawal misses its attempt (`WithdrawalMisses`): no acceptance creates the
attempt from an invitation read before it was withdrawn, no withdrawal ends
because it read no attempt where there is one by now, none dies or fails
between the invitation and the attempt.  So these three are all the ways there
are, and a repair has to close each of them.

## 5. The reports

`Reports` models what evaluation workers and people write after a submission:
the record of an authored evaluation, drafts, releases, corrections and
decisions.  The run is the one of `EvaluationQueue`, reduced to its status,
its owner and its results: a claim may follow another at any time, which
covers every lapsed lease and requeue.  `origin` chooses between tasks
reviewed by people (`saveReportDraft`, `releaseReport`) and authored ones
(`processAuthoredRun`, `releaseAuthoredReport`); the routes of one throw on
the other.

| In the model | In the code |
|---|---|
| `record` | the row of `eng_authored_evaluations`, whose key is the run |
| `reports[v]` | version `v` in `eng_reports`; `text` stands for brief and findings |
| `decisions` | `eng_decisions` with `supersedes_key` as `after` |
| `Listing` | what `listReports` answers: the draft, the newest and the released version |
| `Redrafted`, `Inserted`, `Released` | the update of a draft, the insert under both unique indexes, `eng_release_report_with_event` |
| `Claim` ... `HandOver`, `WorkerDies` | `processAuthoredRun`, statement by statement, and the end of `processRun` for other tasks |
| `ReadRun`, `ListReports`, `SaveDraft`, `CheckDraft`, `PrepareRelease`, `Release` | the handlers of people, from lists they keep |
| `ReadLatest`, `RecordDecision` | `recordDecision` |
| `Leave` | a request dies, is refused or throws |

`Sound` are the texts `validateForRelease` accepts.

### What the runs check

`Reports_safety.cfg` has two workers, two people, three versions, three tries,
two texts and two decisions, for both origins: enough for a stale worker to
write while another's report is released and corrected.

* `VersionsAreALine`: every writer inserts above the newest version of an old
  list, and still versions have no gap, at most the newest is a draft, and
  each supersedes the one before it.
* `ReviewHasSomething`: no run is in review with nothing to review.
* `ReadyMeansReleased`: released exactly when the run is ready.
* `DecisionsAreALine`: no decision replaces one its reviewer did not see.
* `ImplementsLedger`: what the candidate saw is an append-only list
  (`ReportLedger`).

No liveness is claimed here: that a run is reviewed at
all is a property of the queue, and releasing is up to people.

### What is proved

All properties of the safety run, for any sets and bounds.  `IInv` adds
`ListFits` (what an old list still says truly: its versions exist, and with
no draft on it its newest version was the released one), the points of workers
and requests that follow a record, a draft or a finished run, and
`WrittenAfterwards`.  `RedraftMoves`, `InsertMoves` and `ReleaseMoves` are the
three changes of the table; the key step is that an insert succeeds only if
nothing was added since the list was read, so the version it supersedes is
still the released one.  `Worded` (every version says something) is a second
invariant, on which the refinement rests.

Two of the disagreements in section 10 are races that break what one would
like to say of reports, and two theorems say that nothing else does.

* `SoundIsReleasedUnlessRewritten`: if no draft gets another text while its
  release has listed it and not yet released it (`Rewritten`), a candidate on
  a reviewed task is shown sound reports only.  `ReleaseFits` is the invariant:
  the text a release checks is the draft's, and still is when it is released.
* `AuthoredIsRecordedUnlessIgnored`: if no second execution ends otherwise than
  the one on record (`Ignored`), every version of an authored report, and the
  results its run hands to review, say what the record says; workers may die,
  lose their lease and write late.  `WritersAreRecorded` says so of what workers
  and requests are about to write.

## 6. The draft of a work sample

`Drafts` models everything people do to one draft, and what the jobs write to
it.  Every write of a table is a step of its own, and so is every read that a
decision depends on: the checks and the previews that a review reads one after
the other, the checks and the reviews that a publication reads side by side, in
either order.  A read that only fills a field (the time of a preview, the
running job) is left out.

| In the model | In the code |
|---|---|
| `draft`, `prot` | the rows of `eng_scenario_drafts` and `eng_scenario_draft_protected`; a content is the number of the edit that made it, 0 while there is none |
| `checked`, `reviews`, `previews`, `versions` | `eng_scenario_validations`, `_approvals`, `_previews`, `_versions`; a pair of contents stands for `packageSha256` |
| `req[a]` | a request of a person, or a job of a worker: what it has read and its next statement |
| `ReadDraft`, `ReadProtected` | `draftForOrg` and `protectedFor`, with the refusals that need the row alone |
| `SaveSection`, `StoreDraft`, `SaveProtected` | the two writes of `saveSection` and of the stage "assemble" |
| `RecordValidation`, `OpenPreview` | `recordValidation`, `openPreview` |
| `ReviewCheck`, `ReviewPreview`, `RecordApproval`, `MarkReviewed` | the two reads of `recordApproval` that decide (a request for changes needs only the first) and its two writes |
| `PublishCheck`, `PublishApproval`, `ReadExpected`, `PublishDraft` | the two reads of `getDraft` behind `publishBlockers`, the second read of `publishDraft`, `eng_publish_authored_version` |
| `ArchiveDraft`, `RetireVersions`, `Leave` | `archiveDraft`; a request that is refused, throws or dies |

`Drafts_safety.cfg` has two people and one worker, three contents and five
requests: enough to edit, test, preview, approve and publish, with one of
them old.  The draft begins with or without content, as a copy or to be
generated.  Requests may be used up, so deadlock is not checked.

* `ImplementsReview`: what is published, as a pair of package and protected
  materials, passed its checks, and somebody who had opened exactly it
  approved it; as a refinement of `DraftReview`, whose records are only added,
  each after the one it needs.  This is what two tables without a transaction,
  a hash of two reads and a gate that reads before the publication could
  break.
* `InReviewWasApproved`: no review that was under way marks a package it did
  not see.
* `PackageIsNotOverwritten`: a package is replaced only by who had read it.
  Nothing like it holds of the protected materials (section 10).

`DraftsProofs` proves all of them, for any people, workers and bounds, and
`PublishedAsReviewed`, the refinement said as an invariant.  `IInv` says what a
request may still rely on: a row it read is not ahead of the draft, and if the
revision is the same the package is (`ReadFits`; this is why a compare of the
revision is enough); what a review or a publication has seen so far of the pair
it read (that the check passed, that the reviewer opened it, that it is
approved) is true of that pair (`GateFits`); a review that is about to mark the
draft has an approval (`ReviewFits`).  `GateFits` survives every other request
between two of those reads because checks, previews and approvals are only
added.

`MarkedIsPublishedUnlessEdited` is about the second read of a publication: if
nobody edits between its two reads of the row (`EditedBetweenReads`), a draft
marked as published has a package that is published.  Without that hypothesis
it does not hold (section 10), and the theorem says that no other interleaving
leads there.
`MaterialsFollowUnlessUnstored` does the same for the protected materials: unless
a generation goes on after its package was not stored (`GoesOnUnstored`), they
were written for the package the draft has or for an earlier one.  That a late
saver may put back those of an earlier one is not excluded by anything.

## 7. The jobs of the authoring

`AuthoringJobs` models `jobs.ts`: who may run a job, what tries are counted,
and how a worker that lost its lease meets the one that took over.  A draft has
at most one live job of a kind, so the module follows its jobs of one kind,
either of them.  A job of the other kind may be live beside them: it has a row of
its own, and all that these jobs see of it is the draft's revision moving
(`SaveSection`).

| In the model | In the code |
|---|---|
| `job` | the newest row of `eng_authoring_jobs` of the kind; `done` counts its finished stages, "assemble" the last; `lease` is what a comparison with the clock answers, also the back-off of a queued job |
| `revision` | of the draft; everything else about it is in `Drafts` |
| `worker[w]` | one execution of `processJob`: the row as it knows it; `since` says which leases were given since it read the row: after any, its comparison with the time of its read fails; after another claim, its comparison of the owner fails too |
| `stored` | history: how often a job wrote the package |
| `ReadJob`, `GiveUp`, `Claim` | the read of `claim` and its two conditional updates |
| `FinishStage`, `OutOfTime`, `RateLimited`, `Fails` | a stage and its saves, the time budget, the model's rate limit, every other error |
| `LoadDraft`, `StoreDraft`, `RecordValidation`, `FinishJob` | the stage "assemble" and the end of both kinds of job |
| `WorkerDies`, `LeaseEnds` | the host kills a worker; the clock |
| `EnqueueJob`, `SaveSection` | `requestRegeneration` or `requestTestRun`, for a revision read earlier; an edit, or what a job of the other kind stored |

`AuthoringJobs_safety.cfg`: two workers, two jobs, two tries, one stage before
the last, three revisions, one rate limit.  A worker of the first job can
meet the second, and a lost try can be followed by a last one.

* `StoredOnce`: a generation writes the draft once, although a worker may die
  after the write, or lose its lease before it.
* `SucceededIsStored`: a generation that succeeds leaves a newer draft; of its
  own, or one that was edited under it.
* `EndedJobsStay`: who comes late does not change it.
* `EveryJobEnds`: a job ends, under the fairness below.

The schedule polls (`WF(ReadJob)`); it is not killed between read and claim
every time (`SF(Settle)`; a worker that always dies there disables the claim
again and again); what it runs goes on or dies (`WF(Work \/ WorkerDies)`), so
that a stage may fail or be killed every time; the clock goes on.  Edits, jobs
and rate limits are bounded: a model that answers "later" for ever keeps a job
queued for ever, in the code as well.

`AuthoringJobsProofs` proves the safety properties, for any workers and bounds.
`JobFits` ties the row to the draft (a generation that is past "assemble" has a
newer draft), and `CopyFits` says what an old copy still says truly: it is of
this job or an earlier one, its revision is not ahead, and if its package was
stored the draft has moved on, so that a second store finds another revision.
`EveryJobEnds` is model-checked only.

## 8. The archive of a submission

`Sealing` models `submitAuthored`, `followThrough`, both discards and
`settleRecordedSubmission`: object, row and submission are written by calls of
their own.

| In the model | In the code |
|---|---|
| `objects`, `uploads` | the archives in the bucket, `eng_uploads.status` of each |
| `submission`, `attempt`, `queued` | the upload of the row of `eng_submissions`, the status of the attempt, whether the run exists |
| `Submit`, `StoreObject`, `InsertUpload`, `RecordSubmission` | `submitAuthored`; an insert may fail, and its answer may be lost (`lost`) |
| `MarkFailed`, `RemoveObject` | `discardSealed` for its three callers, and the removal after an insert that failed |
| `AcceptUpload`, `CloseAttempt`, `QueueRun` | `followThrough` up to `completeSubmission` |
| `ListRows`, `NextOrphan`, `ListBucket`, `RemoveStrays` | `discardOrphanedUploads`, on lists that grow old |
| `LoadPage`, `Dies`, `Withdraw` | a page load; a request that dies or throws; the employer |

The updates, lists and removals of accepting and cleaning up never look at an
error (`runtime.ts:342-346`, `357`, `363-365`, `370-375`, `457`): the request
goes on as if the call had worked.  In the model each of them may fail
(`Fails`): an update or a removal that fails changes nothing, a list that fails
is empty.  `failed` counts the failures of each kind.  So a single silent
failure, with nobody dying, does leave something:

* a removal that fails leaves the object of a discarded archive in the bucket;
* an update that fails leaves a row "initiated", be it of a discarded archive or
  of the submission itself, which is then queued with an upload that was never
  accepted;
* a list that fails leaves what requests before this one left.

The code never looks for these again by itself: a page load of a settled
attempt does nothing.  Only a submit that is repeated comes by here again
(`existingAuthoredReceipt`), and clears all of it.  A failed read of the
submission or the run is not a step of its own: it shows the row as not yet
there, as a read made earlier does.

`Sealing_safety.cfg`: two requests, three archives, one death, one lost answer
and one call that fails unnoticed (`MaxFails`, of any kind).  Three archives
let one be sealed, one lose the race and one be sealed while lists of the
bucket are old.

* `NothingIsLeftBehind`: when every request is over and none died or missed an
  answer, the bucket holds nothing but the submission's archive unless a
  removal failed, and every row is settled unless an update failed.
* `RepeatedSubmitsClear`: whatever died, failed or was missed, when submits are
  repeated there comes a time from which the bucket holds no archive but the
  submission's and no row is "initiated".  The repetition is the premise of the
  property (`[]<><<\E r : Submit(r)>>_vars`), not an assumption about
  candidates.
* `OthersLeaveTheSubmission`: no clean-up of another request touches the
  submission's archive, however old its lists are.
* `RecordedIsQueued`: recorded work is evaluated, or the attempt withdrawn.
  Requests go on (`WF(Step)`, deaths are bounded) and the page is opened again
  (`WF(LoadPage)`).

`Sealing_kept.cfg` shows a disagreement: the insert of a submission commits,
its answer is lost, and the request that recorded it discards its archive.

`SealingProofs` proves `TypeOK`, `OthersLeaveTheSubmission` and
`NothingIsLeftBehind`, for any requests and bounds, and
`OnlyTheSubmissionIsAccepted` ("a failed or lost race leaves no accepted
archive behind"), which has no run of its own.  An archive is owned by
the request that sealed it until it is recorded or given back (`Owns`), no two
requests own one (`OwnersDiffer`), and a request that is to discard an archive
does not have the submission's, unless an answer was lost; lists of strays are
made of a submission that is there, and there is only one (`SlotFits`).

`NothingIsLeftBehind` needs the other direction, for as long as no request died
or missed an answer (`CleanInv`): as long as no removal failed, each archive of
the bucket is the submission's or held by a request that will remove or record
it (`ObjectsHeld`); as long as no update failed, each row still "initiated"
belongs to a request at `record` or `mark` or to a submission somebody is about
to accept (`RowsHeld`); and, whatever fails, before there is a submission nobody
touches the archive of another, so the one that is recorded is there (`Kept`).

`ArchiveIsKeptUnlessMissed` is the boundary of what `sealing_kept` shows: as
long as every answer of the database arrives (`lost = 0`), the submission keeps
its archive, also when requests die and inserts fail.
`SealingImplementsLedger` shows that these requests keep the `SubmissionLedger`
of section 4.  `RecordedIsQueued` and `RepeatedSubmitsClear` are model-checked
only.

## 9. Imports and the operations desk

`ImportJobs` models one import: `import-store.ts`, the saving of
`store.ts`, `claim_durable_job`, and the import actions and the ledger of
`ops-actions.ts`.

| In the model | In the code |
|---|---|
| `job` | the row of `durable_jobs`; `code` is `error_code` as far as it is looked at ("final": a failure that is not retried) |
| `snapshot` | whether `passport_projects` has the row and `passport_evidence` its findings |
| `worker[w]` | one execution of `runImportJob` |
| `request[c]` | `cancelImport`, `retryImport`, `enqueueImport` on an existing job, `resumeImport`, `reconcileImports`, and `performOpsAction` around them (`key`) |
| `ledger`, `acted` | `ops_actions` by key; history: how often a key acted |
| `requeued` | history: how often the job was put back |
| `Claim`, `Heartbeat`, `ExtractFails`, `CheckCancel` | `claim_durable_job`; `runImportJob` up to the saving |
| `LookUp`, `SaveProject`, `ClearEvidence`, `InsertEvidence`, `SaveFails`, `Succeed` | `saveProjectVersion`, `saveProject` and the end of the job |
| `FlagCancel`, `CloseCancelled`, `Requeue`, `List`, `Reap` | the statements of requests, each on what was read earlier |
| `OperatorAsks`, `ClaimKey`, `Settle` | the first reads, the insert and the outcome of `performOpsAction` |

`ImportJobs_safety.cfg`: two workers, two slots for requests and the schedule,
one key, two tries, two requests.  Deadlock is checked: the schedule always
can run.

* `EndedStays`: late workers, cancellations and lists change nothing that has
  ended; only a requeue does, and only of a dead letter.
* `TriesAreBounded`: the budget and the tries are no more than the requeues
  paid for, although `requeue` writes a budget counted from an old read.
* `SucceededIsSaved`, `KeyActsOnce`.
* `ImportEnds`: an import ends whatever happens to its workers, or is
  `Stranded`: it failed with a cancellation recorded, or was put back with a
  budget counted from an old read, and then nothing can claim it.

The schedule lists and runs (`WF(Reconcile(Cron))`, `WF(Claim)`), workers go
on or die, the clock goes on.  No request is fair.  That the schedule lists this
import is a property of a queue that is not full: it takes the 20 oldest rows
that are queued, failed or running (`cron/passport-imports/route.ts:19`), and
stranded ones stay among them.  Twenty stranded imports would keep every newer
one from being listed by it; with one job, the model does not reach that.

`ImportJobs_findings.cfg` shows a disagreement: a snapshot whose evidence
could not be stored is taken as it is by the retry, and the job succeeds
without its evidence.

`ImportJobsProofs` proves the safety properties, for any workers, callers, keys
and bounds.  `IInv` adds that a count of tries a caller read was paid for, that
a key that is unused has not acted, and that a worker past its upsert has its
snapshot.  `TriesAreBounded` is inductive only with the first: the budget a
requeue writes is its old count plus `MaxAttempts`, and the history variable
`requeued` has grown by then at least once.  `FindingsMissOnlyWhenCutShort` is
the boundary of what `imports_findings` shows: if no worker ends between the
upsert of the snapshot and its evidence (`CutShort`), a snapshot lacks its
evidence only while a worker is storing it.  `ImportEnds` is model-checked only.

## 10. Other disagreements met

Each of these is a behaviour of the code that a property would not hold of;
the hazards of PROJECT.json have those that bite hardest with their lines.

* `requeueRun` gives a run at the cap of ten tries no try, though its comment
  promises a fresh budget.
* A clean-up call of an authored submit that fails is not noticed, and nothing
  but a repeated submit makes up for it (section 8).
* A submit may release the update it was to be informed by.
* A repeated evaluation keeps the record of the first and replaces its draft.
* A draft of a report saved between validation and release is released
  unchecked.
* `publishDraft` reads the row again for the revision to expect, so an edit
  since the approval is not noticed: what is published was approved, and the
  newer package is marked published.
* Protected materials are overwritten by id alone, by a second saver or a
  generation whose package was not even stored.
* A worker that follows one that died after writing the draft reports that
  the draft was edited.

## 11. What the provers leave to TLC

Liveness and fairness, ENABLED, induction over data and RECURSIVE operators
are beyond the proof system; `EveryRunSettles`, `RepeatedSubmitsComplete`,
`EveryJobEnds`, `RecordedIsQueued`, `RepeatedSubmitsClear` and `ImportEnds` are
model-checked on the instances above.  The bounds on versions, tries,
decisions, deaths and the clock are constants of the theorems, so these hold
for any value of them; no module has a RECURSIVE operator.  Every
safety property, every action property and every refinement of the passing
runs is proved.

Where the code breaks a property (three of the four runs that expect a violation, and
the disagreements at `reports.ts`, `evaluation-run.ts` and `drafts.ts` in
section 10), the theorems named `...Unless...` and `...OnlyWhen...` prove it of
every behaviour that avoids one named step, `Spec /\ [][~X]_vars => []P`.  The
hypothesis is the defect itself: the steps it excludes are ones the code takes,
the property fails with them and holds without, so a repair has to remove those
steps and nothing else.  TLC agrees on the instances above with the next-state
relation `Next /\ ~X`.

## 12. Not modelled

PROJECT.json lists every part.  Left out for good: rendering and pages, static
content and scenario text, scoring arithmetic without state, authentication
and row-level security (single-statement checks), mail delivery beyond its
outbox row, and the Rust desktop shell's window handling.  Listed for later:
the parts in the plan above.
