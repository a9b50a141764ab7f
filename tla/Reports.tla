------------------------------ MODULE Reports ------------------------------
(***************************************************************************)
(* The reports on one submitted attempt: how evaluation workers and people *)
(* write drafts, how one is released to the candidate, corrected, and      *)
(* decided upon (src/lib/eng/authored/evaluation-run.ts, authored/         *)
(* reports.ts, reports.ts, employer.ts; migrations 028, 081 and 091).      *)
(*                                                                         *)
(* The run is the one of EvaluationQueue with its budget and its clock     *)
(* abstracted: a claim may follow another at any time.  Every read and     *)
(* every write is a statement of its own; a worker or a request may end    *)
(* between any two.                                                        *)
(***************************************************************************)
EXTENDS Naturals, Sequences

CONSTANTS
  Workers,      \* slots that process the run
  People,       \* requests of reviewers and employers
  Texts,        \* what a report, or an execution of the tests, can say
  Sound,        \* the texts whose every citation is in the evidence
  None,         \* no worker, no text
  MaxVersion,   \* bound: versions of the report
  MaxTries,     \* executions the run's budget allows
  MaxDecisions  \* bound: decisions recorded

ASSUME SoundAssumption == Sound \subseteq Texts
ASSUME NoneAssumption == None \notin Workers /\ None \notin Texts
ASSUME BoundsAssumption ==
  MaxVersion \in Nat /\ MaxTries \in Nat /\ MaxDecisions \in Nat

VARIABLES
  origin,     \* eng_scenario_versions.origin of the attempt's task
  run,        \* the attempt's eng_evaluation_runs row
  tries,      \* its attempt_count
  record,     \* the text in eng_authored_evaluations for the run
  reports,    \* eng_reports of the attempt, by version
  decisions,  \* eng_decisions of the attempt, in the order of their inserts
  job,        \* what each worker is doing
  req         \* what each request is doing

vars == <<origin, run, tries, record, reports, decisions, job, req>>

Versions == 1..MaxVersion

Rows == [status : {"absent", "draft", "released", "superseded"},
         text : Texts \cup {None}, supersedes : 0..MaxVersion]

NoReport == [status |-> "absent", text |-> None, supersedes |-> 0]

Decisions == [on : Versions, after : Nat]

(* The answer of listReports: the draft, the newest version, the released  *)
(* one (0 for none of them), and what the draft says.                      *)
Listings == [draft : 0..MaxVersion, top : 0..MaxVersion,
             released : 0..MaxVersion, text : Texts \cup {None}]

Newest(vs) == CHOOSE v \in vs \cup {0} : \A u \in vs : u <= v

With(status) == {v \in Versions : reports[v].status = status}

Present == {v \in Versions : reports[v].status # "absent"}

Listing ==
  LET draft == Newest(With("draft"))
  IN  [draft |-> draft, top |-> Newest(Present),
       released |-> Newest(With("released")),
       text |-> IF draft = 0 THEN None ELSE reports[draft].text]

NoListing == [draft |-> 0, top |-> 0, released |-> 0, text |-> None]

Jobs == [pc : {"idle", "evaluate", "held", "record", "list", "write", "finish"},
         text : Texts \cup {None}, list : Listings]

NoJob == [pc |-> "idle", text |-> None, list |-> NoListing]

Requests ==
  [kind : {"none", "save", "release", "publish", "decide"},
   pc : {"idle", "run", "list", "write", "check", "prepare", "release",
         "latest", "insert"},
   text : Texts \cup {None}, list : Listings, after : Nat]

NoRequest == [kind |-> "none", pc |-> "idle", text |-> None,
              list |-> NoListing, after |-> 0]

TypeOK ==
  /\ origin \in {"fydell_reviewed", "employer_authored"}
  /\ run \in [status : {"waiting", "running", "human_review", "ready"},
              owner : Workers \cup {None}, results : Texts \cup {None}]
  /\ tries \in Nat
  /\ record \in Texts \cup {None}
  /\ reports \in [Versions -> Rows]
  /\ decisions \in Seq(Decisions)
  /\ job \in [Workers -> Jobs]
  /\ req \in [People -> Requests]

Init ==
  /\ origin \in {"fydell_reviewed", "employer_authored"}
  /\ run = [status |-> "waiting", owner |-> None, results |-> None]
  /\ tries = 0
  /\ record = None
  /\ reports = [v \in Versions |-> NoReport]
  /\ decisions = << >>
  /\ job = [w \in Workers |-> NoJob]
  /\ req = [q \in People |-> NoRequest]

Finished == run.status \in {"human_review", "ready"}

-----------------------------------------------------------------------------
(* The table of reports *)

(* Slip: an update by id alone.                                            *)
RedraftedAnyway(v, text) ==
  IF v \in Present THEN [reports EXCEPT ![v].text = text] ELSE reports

(* An update of a draft by id, conditional on its status.                  *)
Redrafted(v, text) ==
  IF v \in With("draft") THEN [reports EXCEPT ![v].text = text] ELSE reports

(* Both unique indexes must allow the insert: one row per version, one     *)
(* draft per attempt.                                                      *)
Insertable(v) == v \in Versions /\ v \notin Present /\ With("draft") = {}

(* A draft above the newest version a listing showed, replacing the        *)
(* released one it showed.                                                 *)
Inserted(list, text) ==
  IF Insertable(list.top + 1)
  THEN [reports EXCEPT ![list.top + 1] =
         [status |-> "draft", text |-> text, supersedes |-> list.released]]
  ELSE reports

(* Slips: the released version is left as it is; a status the table has no *)
(* name for.                                                               *)
ReleasedBeside(v) == [reports EXCEPT ![v].status = "released"]
ReleasedUnnamed(v) == [reports EXCEPT ![v].status = "published"]

(* eng_release_report_with_event: one transaction.                         *)
Released(v) ==
  [u \in Versions |->
    IF u = v THEN [reports[u] EXCEPT !.status = "released"]
    ELSE IF u \in With("released")
    THEN [reports[u] EXCEPT !.status = "superseded"]
    ELSE reports[u]]

-----------------------------------------------------------------------------
(* Workers: processAuthoredRun, and the end of processRun otherwise *)

WorkerReads == UNCHANGED <<origin, run, tries, record, reports, decisions, req>>

Work(w, pc) == job[w].pc = pc

Step(w, pc) == job' = [job EXCEPT ![w].pc = pc]

Stop(w) == job' = [job EXCEPT ![w] = NoJob]

Holds(w) == run.status = "running" /\ run.owner = w

(* A claim, of a run that waits or whose lease lapsed.                     *)
Claim(w) ==
  /\ Work(w, "idle")
  /\ run.status \in {"waiting", "running"} /\ tries < MaxTries
  /\ run' = [run EXCEPT !.status = "running", !.owner = w]
  /\ tries' = tries + 1
  /\ Step(w, "evaluate")
  /\ UNCHANGED <<origin, record, reports, decisions, req>>

(* The sandbox runs the tests; two executions may end differently.         *)
Evaluate(w) ==
  /\ Work(w, "evaluate")
  /\ \E text \in Texts :
       job' = [job EXCEPT ![w].text = text,
                          ![w].pc = IF origin = "employer_authored"
                                    THEN "held" ELSE "finish"]
  /\ WorkerReads

(* failRun, from the evaluation or from a record that could not be stored. *)
Fail(w) ==
  /\ job[w].pc \in {"evaluate", "record"}
  /\ run' = IF Holds(w)
            THEN [run EXCEPT !.status = "waiting", !.owner = None] ELSE run
  /\ Stop(w)
  /\ UNCHANGED <<origin, tries, record, reports, decisions, req>>

CheckHeld(w) ==
  /\ Work(w, "held")
  /\ IF Holds(w) THEN Step(w, "record") ELSE Stop(w)
  /\ WorkerReads

(* Slip: the record of an execution is dropped.                            *)
RecordDropped(w) ==
  /\ Work(w, "record")
  /\ record' = record
  /\ Step(w, "list")
  /\ UNCHANGED <<origin, run, tries, reports, decisions, req>>

(* The primary key is the run: a second record is not stored.              *)
StoreRecord(w) ==
  /\ Work(w, "record")
  /\ record' = IF record = None THEN job[w].text ELSE record
  /\ Step(w, "list")
  /\ UNCHANGED <<origin, run, tries, reports, decisions, req>>

ListForDraft(w) ==
  /\ Work(w, "list")
  /\ job' = [job EXCEPT ![w].list = Listing, ![w].pc = "write"]
  /\ WorkerReads

(* writeDraftReport: not fenced, and a lost race is ignored.               *)
WriteDraft(w) ==
  /\ Work(w, "write")
  /\ LET list == job[w].list
     IN  /\ list.draft = 0 => list.top < MaxVersion
         /\ reports' = IF list.draft # 0
                       THEN Redrafted(list.draft, job[w].text)
                       ELSE Inserted(list, job[w].text)
  /\ Step(w, "finish")
  /\ UNCHANGED <<origin, run, tries, record, decisions, req>>

HandOver(w) ==
  /\ Work(w, "finish")
  /\ run' = IF Holds(w)
            THEN [status |-> "human_review", owner |-> None,
                  results |-> job[w].text]
            ELSE run
  /\ Stop(w)
  /\ UNCHANGED <<origin, tries, record, reports, decisions, req>>

WorkerDies(w) ==
  /\ ~Work(w, "idle")
  /\ Stop(w)
  /\ WorkerReads

WorkerStep(w) ==
  \/ Claim(w) \/ Evaluate(w) \/ Fail(w) \/ CheckHeld(w) \/ StoreRecord(w)
  \/ ListForDraft(w) \/ WriteDraft(w) \/ HandOver(w) \/ WorkerDies(w)

-----------------------------------------------------------------------------
(* People: saveReportDraft, releaseReport, releaseAuthoredReport,          *)
(* recordDecision                                                          *)

PersonReads == UNCHANGED <<origin, run, tries, record, reports, decisions, job>>

At(q, kind, pc) == req[q].kind = kind /\ req[q].pc = pc

Go(q, pc) == req' = [req EXCEPT ![q].pc = pc]

End(q) == req' = [req EXCEPT ![q] = NoRequest]

(* Both routes of a reviewed task throw on an authored one, and the other  *)
(* way round.                                                              *)
Arrive(q) ==
  /\ req[q].pc = "idle"
  /\ \/ /\ origin = "fydell_reviewed"
        /\ \E text \in Texts :
             req' = [req EXCEPT ![q] = [NoRequest EXCEPT
                       !.kind = "save", !.pc = "run", !.text = text]]
     \/ /\ origin = "fydell_reviewed"
        /\ req' = [req EXCEPT ![q].kind = "release", ![q].pc = "list"]
     \/ /\ origin = "employer_authored"
        /\ req' = [req EXCEPT ![q].kind = "publish", ![q].pc = "list"]
     \/ req' = [req EXCEPT ![q].kind = "decide", ![q].pc = "list"]
  /\ PersonReads

(* Slip: a report is released before its evaluation has finished.          *)
RunUnread(q) ==
  /\ req[q].pc = "run"
  /\ Go(q, IF req[q].kind = "save" THEN "list" ELSE "prepare")
  /\ PersonReads

(* The read of the run in saveReportDraft and releaseAuthoredReport.       *)
ReadRun(q) ==
  /\ req[q].pc = "run"
  /\ IF ~Finished THEN End(q)
     ELSE Go(q, IF req[q].kind = "save" THEN "list" ELSE "prepare")
  /\ PersonReads

(* The list of reports; a release needs a draft on it, a decision a        *)
(* released version.                                                       *)
ListReports(q) ==
  /\ req[q].pc = "list"
  /\ LET next == CASE req[q].kind = "save"    -> "write"
                   [] req[q].kind = "release" -> "check"
                   [] req[q].kind = "publish" -> "run"
                   [] req[q].kind = "decide"  -> "latest"
     IN  IF \/ req[q].kind \in {"release", "publish"} /\ Listing.draft = 0
            \/ req[q].kind = "decide" /\ Listing.released = 0
         THEN End(q)
         ELSE req' = [req EXCEPT ![q].list = Listing, ![q].pc = next]
  /\ PersonReads

SaveDraft(q) ==
  /\ req[q].pc = "write"
  /\ LET list == req[q].list
     IN  /\ list.draft = 0 => list.top < MaxVersion
         /\ reports' = IF list.draft # 0
                       THEN Redrafted(list.draft, req[q].text)
                       ELSE Inserted(list, req[q].text)
  /\ End(q)
  /\ UNCHANGED <<origin, run, tries, record, decisions, job>>

(* validateForRelease, of the draft as it was listed.                      *)
CheckDraft(q) ==
  /\ req[q].pc = "check"
  /\ IF req[q].list.text \in Sound THEN Go(q, "release") ELSE End(q)
  /\ PersonReads

(* releaseAuthoredReport writes the draft it listed back, with its note.   *)
PrepareRelease(q) ==
  /\ req[q].pc = "prepare"
  /\ reports' = Redrafted(req[q].list.draft, req[q].list.text)
  /\ Go(q, "release")
  /\ UNCHANGED <<origin, run, tries, record, decisions, job>>

Release(q) ==
  /\ req[q].pc = "release"
  /\ IF req[q].list.draft \in With("draft")
     THEN /\ reports' = Released(req[q].list.draft)
          /\ run' = IF run.status = "human_review"
                    THEN [run EXCEPT !.status = "ready"] ELSE run
     ELSE UNCHANGED <<reports, run>>
  /\ End(q)
  /\ UNCHANGED <<origin, tries, record, decisions, job>>

ReadLatest(q) ==
  /\ req[q].pc = "latest"
  /\ req' = [req EXCEPT ![q].after = Len(decisions), ![q].pc = "insert"]
  /\ PersonReads

(* Slip: nothing makes the decision that is replaced unique.               *)
RecordedBeside(q) ==
  /\ req[q].pc = "insert"
  /\ Len(decisions) < MaxDecisions
  /\ decisions' = Append(decisions, [on |-> req[q].list.released,
                                     after |-> req[q].after])
  /\ End(q)
  /\ UNCHANGED <<origin, run, tries, record, reports, job>>

(* The insert names the decision it replaces, under a unique index.        *)
RecordDecision(q) ==
  /\ req[q].pc = "insert"
  /\ Len(decisions) < MaxDecisions
  /\ decisions' =
       IF \E i \in 1..Len(decisions) : decisions[i].after = req[q].after
       THEN decisions
       ELSE Append(decisions, [on |-> req[q].list.released,
                               after |-> req[q].after])
  /\ End(q)
  /\ UNCHANGED <<origin, run, tries, record, reports, job>>

(* A request dies, a statement throws, or its input is refused.            *)
Leave(q) ==
  /\ req[q].pc # "idle"
  /\ End(q)
  /\ PersonReads

PersonStep(q) ==
  \/ Arrive(q) \/ ReadRun(q) \/ ListReports(q) \/ SaveDraft(q)
  \/ CheckDraft(q) \/ PrepareRelease(q) \/ Release(q) \/ ReadLatest(q)
  \/ RecordDecision(q) \/ Leave(q)

-----------------------------------------------------------------------------
(* The specification *)

Next == (\E w \in Workers : WorkerStep(w)) \/ (\E q \in People : PersonStep(q))

Spec == Init /\ [][Next]_vars

-----------------------------------------------------------------------------
(* Properties *)

(* The newest of the reports is version n.                                 *)
LineTo(n) ==
  \A v \in Versions :
    /\ v > n  <=> reports[v].status = "absent"
    /\ v < n  =>  reports[v].status # "draft"
    /\ v <= n =>  reports[v].supersedes = v - 1
    /\ reports[v].status = "released" <=>
         \/ v = n /\ reports[v].status # "draft"
         \/ v + 1 = n /\ reports[n].status = "draft"

(* Versions form a line (migration 028, 385-431): they are numbered        *)
(* without gaps, only the newest can be a draft, exactly the newest one    *)
(* that is no draft is released, and each names the version before it as   *)
(* the one it supersedes, although every writer works from an old list.    *)
VersionsAreALine == \E n \in 0..MaxVersion : LineTo(n)

(* A run handed to review has its results, and for an authored task its    *)
(* record and at least a draft, whichever worker died or lost its lease    *)
(* (evaluation-run.ts 110-112).                                            *)
ReviewHasSomething ==
  Finished => /\ run.results # None
              /\ origin = "employer_authored" => record # None /\ Present # {}

(* A report is released exactly when its run is ready: no release of an    *)
(* evaluation that has not finished, none the run does not show            *)
(* (reports.ts 52-55 under authored; migration 091).                       *)
ReadyMeansReleased == run.status = "ready" <=> With("released") # {}

(* Each decision replaces the one before it, and was taken on a report     *)
(* that was released (employer.ts 42-72, migration 081).                   *)
DecisionsAreALine ==
  \A i \in 1..Len(decisions) :
    /\ decisions[i].after = i - 1
    /\ reports[decisions[i].on].status \in {"released", "superseded"}

Shown == {v \in Versions : reports[v].status \in {"released", "superseded"}}

Told == [v \in Shown |-> reports[v].text]

Ledger == INSTANCE ReportLedger WITH shown <- Told

(* What the candidate has been shown is an append-only list of versions:   *)
(* no release changes, skips or takes back an earlier one (migration 028,  *)
(* 410-450).                                                               *)
ImplementsLedger == Ledger!Spec
=============================================================================
