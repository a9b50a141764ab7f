------------------------------- MODULE Drafts -------------------------------
(***************************************************************************)
(* One draft of a work sample: the people who edit, preview, review,       *)
(* publish and archive it, and the jobs that generate and test it          *)
(* (src/lib/eng/authoring/drafts.ts, the draft's side of jobs.ts,          *)
(* migrations 061 and 064).                                                *)
(*                                                                         *)
(* The package of a draft and its protected materials are rows of two      *)
(* tables, each read and written by a statement of its own.  A content is  *)
(* named by the number of the edit that made it; a pair of them stands for *)
(* packageSha256.  How jobs are leased and repeated is in AuthoringJobs:   *)
(* here a job is a request like the others, of an actor of its own, that   *)
(* may run beside another of its kind.  A job that finds another revision  *)
(* than the one it was queued for does nothing: it is one that never ran.  *)
(***************************************************************************)
EXTENDS Naturals, Sequences

CONSTANTS
  People,       \* members of the organisation, one request each at a time
  Workers,      \* executions of generation and test jobs
  MaxEdits,     \* bound: contents written
  MaxRequests   \* bound: requests made

ASSUME ActorsAssumption == People \cap Workers = {}
ASSUME BoundsAssumption == MaxEdits \in Nat /\ MaxRequests \in Nat

VARIABLES
  draft,       \* the row of eng_scenario_drafts
  prot,        \* the row of eng_scenario_draft_protected
  checked,     \* eng_scenario_validations, oldest first
  reviews,     \* eng_scenario_approvals, oldest first
  previews,    \* eng_scenario_previews
  versions,    \* eng_scenario_versions of the draft, oldest first
  req,         \* what each request has read and is doing
  edits,       \* contents written so far
  asked        \* requests made so far

rows == <<checked, reviews, previews, versions>>
vars == <<draft, prot, rows, req, edits, asked>>

Actors == People \cup Workers
Edits == 0..MaxEdits
Contents == Edits \X Edits
DraftStatuses == {"draft", "in_review", "published", "archived"}

Drafted == [revision : Nat, pkg : Edits, status : DraftStatuses]

Kinds(a) == IF a \in People
            THEN {"save", "preview", "review", "publish", "archive"}
            ELSE {"generate", "test"}

(* row, prot: what was read.  edit: the content being written.  decision:  *)
(* of a review.  expected: the revision a publication gives the database.  *)
RequestStates ==
  [kind : {"none", "save", "preview", "review", "publish", "archive",
           "generate", "test"},
   pc : {"idle", "materials", "gate", "opened", "check", "approval", "expect",
         "write", "protect", "end"},
   row : Drafted, prot : Edits, edit : Edits,
   decision : BOOLEAN, expected : Nat]

Idle(row) == [kind |-> "none", pc |-> "idle", row |-> row, prot |-> 0,
              edit |-> 0, decision |-> FALSE, expected |-> 0]

Blank == [revision |-> 0, pkg |-> 0, status |-> "draft"]

TypeOK ==
  /\ draft \in Drafted
  /\ prot \in Edits
  /\ checked \in Seq([on : Contents, ok : BOOLEAN])
  /\ reviews \in Seq([by : People, on : Contents, ok : BOOLEAN])
  /\ previews \subseteq People \X Contents
  /\ versions \in Seq([on : Contents, retired : BOOLEAN])
  /\ req \in [Actors -> RequestStates]
  /\ edits \in Edits /\ asked \in 0..MaxRequests

(* createDraft: a copy or an import has its content, number 1, at once; a  *)
(* generated draft has none until its first job ends.                      *)
Init ==
  /\ \E first \in {0, 1} \cap Edits :
       /\ draft = [revision |-> 1, pkg |-> first, status |-> "draft"]
       /\ prot = first /\ edits = first
  /\ checked = << >> /\ reviews = << >> /\ previews = {} /\ versions = << >>
  /\ req = [a \in Actors |-> Idle(Blank)]
  /\ asked = 0

Sha(a) == <<req[a].row.pkg, req[a].prot>>

Last(s) == s[Len(s)]

At(a, kind, pc) == req[a].kind = kind /\ req[a].pc = pc

Goto(a, pc) == req' = [req EXCEPT ![a].pc = pc]

Answer(a) == req' = [req EXCEPT ![a] = Idle(Blank)]

-----------------------------------------------------------------------------
(* draftForOrg and loadDraft, with the refusals that need nothing else.    *)
ReadDraft(a, kind) ==
  /\ req[a].pc = "idle" /\ asked < MaxRequests /\ asked' = asked + 1
  /\ kind \in {"save", "preview", "review", "publish", "test"} => draft.pkg # 0
  /\ kind \in {"save", "publish"} => draft.status # "archived"
  /\ req' = [req EXCEPT ![a] =
       [Idle(draft) EXCEPT !.kind = kind,
          !.pc = IF kind = "archive" THEN "write" ELSE "materials"]]
  /\ UNCHANGED <<draft, prot, rows, edits>>

ReadProtected(a) ==
  /\ req[a].pc = "materials"
  /\ req' = [req EXCEPT ![a].prot = prot,
       ![a].pc = IF req[a].kind \in {"review", "publish"} THEN "gate" ELSE "write"]
  /\ UNCHANGED <<draft, prot, rows, edits, asked>>

(* The package that an edit or a generation writes over the one it read.   *)
Rewritten(a) ==
  [revision |-> req[a].row.revision + 1, pkg |-> edits + 1, status |-> "draft"]

(* Slip: the revision is not compared.                                     *)
MatchesAny(a) == TRUE

Matches(a) == draft.revision = req[a].row.revision

(* saveSection; an edit of a protected field goes on to SaveProtected.     *)
SaveSection(a) ==
  /\ At(a, "save", "write") /\ Matches(a)
  /\ edits < MaxEdits /\ edits' = edits + 1
  /\ draft' = Rewritten(a)
  /\ \/ Answer(a)
     \/ req' = [req EXCEPT ![a].pc = "protect", ![a].edit = edits + 1]
  /\ UNCHANGED <<prot, rows, asked>>

(* The stage "assemble" of a generation: conditional on the revision, but  *)
(* that no row matched is not noticed.                                     *)
StoreDraft(a) ==
  /\ At(a, "generate", "write")
  /\ edits < MaxEdits /\ edits' = edits + 1
  /\ draft' = IF Matches(a) THEN Rewritten(a) ELSE draft
  /\ req' = [req EXCEPT ![a].pc = "protect", ![a].edit = edits + 1]
  /\ UNCHANGED <<prot, rows, asked>>

SaveProtected(a) ==
  /\ req[a].pc = "protect"
  /\ prot' = req[a].edit
  /\ IF req[a].kind = "save" THEN Answer(a)
     ELSE req' = [req EXCEPT ![a].pc = "end", ![a].prot = req[a].edit,
                             ![a].row.pkg = req[a].edit]
  /\ UNCHANGED <<draft, rows, edits, asked>>

(* The checks of what was generated, or read.                              *)
RecordValidation(a) ==
  /\ At(a, "test", "write") \/ At(a, "generate", "end")
  /\ \E ok \in BOOLEAN : checked' = Append(checked, [on |-> Sha(a), ok |-> ok])
  /\ Answer(a)
  /\ UNCHANGED <<draft, prot, reviews, previews, versions, edits, asked>>

OpenPreview(a) ==
  /\ At(a, "preview", "write")
  /\ previews' = previews \cup {<<a, Sha(a)>>}
  /\ Answer(a)
  /\ UNCHANGED <<draft, prot, checked, reviews, versions, edits, asked>>

-----------------------------------------------------------------------------
(* Review and publication *)

(* The newest check speaks of this content. *)
CheckPassed(a) ==
  checked # << >> /\ Last(checked) = [on |-> Sha(a), ok |-> TRUE]

(* Slip: a preview of another content will do.                             *)
OpenedAnything(a) == \E v \in previews : v[1] = a

HasOpened(a) == <<a, Sha(a)>> \in previews

(* recordApproval reads the newest check, then this reviewer's previews;   *)
(* a request for changes does without the latter.                          *)
ReviewCheck(a, ok) ==
  /\ At(a, "review", "gate")
  /\ checked # << >> /\ (ok => CheckPassed(a))
  /\ req' = [req EXCEPT ![a].decision = ok, ![a].pc = IF ok THEN "opened" ELSE "write"]
  /\ UNCHANGED <<draft, prot, rows, edits, asked>>

ReviewPreview(a) ==
  /\ At(a, "review", "opened") /\ HasOpened(a)
  /\ Goto(a, "write")
  /\ UNCHANGED <<draft, prot, rows, edits, asked>>

RecordApproval(a) ==
  /\ At(a, "review", "write")
  /\ reviews' = Append(reviews, [by |-> a, on |-> Sha(a), ok |-> req[a].decision])
  /\ Goto(a, "end")
  /\ UNCHANGED <<draft, prot, checked, previews, versions, edits, asked>>

(* Slip: the decision itself becomes the status.                           *)
DecisionStatus(ok) == IF ok THEN "approved" ELSE "changes_requested"

StatusAfter(ok) == IF ok THEN "in_review" ELSE "draft"

(* Slip: the draft is marked whatever its revision is by now.              *)
MarkedAnyway(a) ==
  /\ At(a, "review", "end")
  /\ draft' = [draft EXCEPT !.status = StatusAfter(req[a].decision)]
  /\ Answer(a)
  /\ UNCHANGED <<prot, rows, edits, asked>>

(* The draft's status, if it is still the revision that was reviewed.      *)
MarkReviewed(a) ==
  /\ At(a, "review", "end")
  /\ draft' = IF Matches(a)
              THEN [draft EXCEPT !.status = StatusAfter(req[a].decision)]
              ELSE draft
  /\ Answer(a)
  /\ UNCHANGED <<prot, rows, edits, asked>>

(* getDraft reads the newest check and the newest review side by side, for *)
(* publishBlockers.                                                        *)
PublishCheck(a) ==
  /\ At(a, "publish", "gate") \/ At(a, "publish", "check")
  /\ CheckPassed(a)
  /\ Goto(a, IF req[a].pc = "gate" THEN "approval" ELSE "expect")
  /\ UNCHANGED <<draft, prot, rows, edits, asked>>

PublishApproval(a) ==
  /\ At(a, "publish", "gate") \/ At(a, "publish", "approval")
  /\ reviews # << >> /\ Last(reviews).on = Sha(a) /\ Last(reviews).ok
  /\ Goto(a, IF req[a].pc = "gate" THEN "check" ELSE "expect")
  /\ UNCHANGED <<draft, prot, rows, edits, asked>>

(* The row is read again, for the revision to expect.                      *)
ReadExpected(a) ==
  /\ At(a, "publish", "expect")
  /\ req' = [req EXCEPT ![a].pc = "write", ![a].expected = draft.revision]
  /\ UNCHANGED <<draft, prot, rows, edits, asked>>

(* eng_publish_authored_version, one transaction.                          *)
PublishDraft(a) ==
  /\ At(a, "publish", "write")
  /\ draft.revision = req[a].expected /\ draft.status # "archived"
  /\ versions' = Append(versions, [on |-> Sha(a), retired |-> FALSE])
  /\ draft' = [draft EXCEPT !.status = "published"]
  /\ Answer(a)
  /\ UNCHANGED <<prot, checked, reviews, previews, edits, asked>>

ArchiveDraft(a) ==
  /\ At(a, "archive", "write")
  /\ draft' = [draft EXCEPT !.status = "archived"]
  /\ Goto(a, "end")
  /\ UNCHANGED <<prot, rows, edits, asked>>

(* Versions are retired if the row that was read had one.                  *)
RetireVersions(a) ==
  /\ At(a, "archive", "end")
  /\ versions' = [v \in DOMAIN versions |-> [versions[v] EXCEPT !.retired = TRUE]]
  /\ Answer(a)
  /\ UNCHANGED <<draft, prot, checked, reviews, previews, edits, asked>>

(* A request is refused, throws, or dies; so does a job.                   *)
Leave(a) ==
  /\ req[a].pc # "idle"
  /\ Answer(a)
  /\ UNCHANGED <<draft, prot, rows, edits, asked>>

Step(a) ==
  \/ \E kind \in Kinds(a) : ReadDraft(a, kind)
  \/ ReadProtected(a) \/ SaveSection(a) \/ StoreDraft(a) \/ SaveProtected(a)
  \/ RecordValidation(a) \/ OpenPreview(a)
  \/ (\E ok \in BOOLEAN : ReviewCheck(a, ok)) \/ ReviewPreview(a)
  \/ RecordApproval(a) \/ MarkReviewed(a)
  \/ PublishCheck(a) \/ PublishApproval(a) \/ ReadExpected(a) \/ PublishDraft(a)
  \/ ArchiveDraft(a) \/ RetireVersions(a) \/ Leave(a)

Next == \E a \in Actors : Step(a)

Spec == Init /\ [][Next]_vars

-----------------------------------------------------------------------------
Passed == {checked[i].on : i \in {j \in DOMAIN checked : checked[j].ok}}
Approvals == {<<reviews[i].by, reviews[i].on>> : i \in {j \in DOMAIN reviews : reviews[j].ok}}
Published == {versions[v].on : v \in DOMAIN versions}

(* What a candidate is given was checked, and a reviewer who had opened    *)
(* exactly it approved it, whatever was edited meanwhile.                  *)
PublishedAsReviewed ==
  \A c \in Published :
    /\ c \in Passed
    /\ \E p \in People : <<p, c>> \in Approvals \cap previews

(* The same as a refinement: each of these records comes in its order, and *)
(* none is taken back (publishDraft, recordApproval, openPreview).         *)
Review == INSTANCE DraftReview WITH
  passed <- Passed, opened <- previews, approved <- Approvals,
  published <- Published
ImplementsReview == Review!Spec

(* A draft shown as reviewed has a package somebody approved: no review    *)
(* that was under way marks a package it did not see.                      *)
InReviewWasApproved ==
  draft.status = "in_review" => \E a \in Approvals : a[2][1] = draft.pkg

(* A package is replaced only by a writer that had read it (saveSection,   *)
(* "A stale revision is a conflict").                                      *)
PackageIsNotOverwritten ==
  [][draft'.pkg # draft.pkg =>
       \E a \in Actors : req'[a] # req[a] /\ req[a].row.pkg = draft.pkg]_vars
=============================================================================
