--------------------------- MODULE ReportsProofs ---------------------------
(***************************************************************************)
(* Proofs about Reports, for any sets of workers, people and texts and any *)
(* bounds.  Every writer works from an old list; what makes that safe is   *)
(* that reports are only added and only move forward (Grows), so that an   *)
(* old list stays true in what a writer relies on (ListFits).              *)
(***************************************************************************)
EXTENDS Reports, SequenceTheorems, TLAPS

Numbers == 0..MaxVersion

ListFits(list) ==
  /\ list.top = 0 \/ list.top \in Present
  /\ list.draft = 0 \/ list.draft \in Present
  /\ list.draft = 0 => list.released = list.top
  /\ list.released = 0 \/ list.released \in Shown

JobFits(j) ==
  /\ ListFits(j.list)
  /\ j.pc \in {"held", "record", "list", "write"} =>
       origin = "employer_authored"
  /\ j.pc \in {"held", "record", "list", "write", "finish"} => j.text # None
  /\ origin = "employer_authored" =>
       /\ j.pc \in {"list", "write", "finish"} => record # None
       /\ j.pc = "finish" => Present # {}

ReqFits(r) ==
  /\ ListFits(r.list)
  /\ r.kind = "release" => origin = "fydell_reviewed"
  /\ r.pc = "check" => r.kind = "release" /\ r.list.draft # 0
  /\ r.pc = "list" => r.kind # "none"
  /\ r.pc = "list" /\ r.kind = "save" => Finished
  /\ r.pc \in {"write", "prepare", "release"} => Finished
  /\ r.pc \in {"latest", "insert"} => r.list.released # 0
  /\ r.pc = "insert" => r.after <= Len(decisions)

(* Drafts of a reviewed task are written by people, who wait for the run.  *)
WrittenAfterwards == origin = "fydell_reviewed" /\ Present # {} => Finished

(* The inductive invariant. *)
IInv ==
  /\ TypeOK
  /\ VersionsAreALine
  /\ ReviewHasSomething
  /\ ReadyMeansReleased
  /\ DecisionsAreALine
  /\ WrittenAfterwards
  /\ \A w \in Workers : JobFits(job[w])
  /\ \A q \in People : ReqFits(req[q])

(* What no step takes back. *)
Grows ==
  /\ origin' = origin
  /\ Present \subseteq Present'
  /\ Shown \subseteq Shown'
  /\ Finished => Finished'
  /\ record # None => record' # None
  /\ Len(decisions) <= Len(decisions')

USE SoundAssumption, NoneAssumption, BoundsAssumption

-----------------------------------------------------------------------------
(* Old lists *)

LEMMA JobsKeepFitting ==
  ASSUME Grows, NEW j \in Jobs, JobFits(j)
  PROVE  JobFits(j)'
  BY DEF Grows, JobFits, ListFits

LEMMA RequestsKeepFitting ==
  ASSUME TypeOK, TypeOK', Grows, NEW r \in Requests, ReqFits(r)
  PROVE  ReqFits(r)'
<1>1. Len(decisions) \in Nat /\ Len(decisions') \in Nat /\ r.after \in Nat
  BY DEF TypeOK, Requests
<1>2. QED  BY <1>1 DEF Grows, ReqFits, ListFits

LEMMA NoListingFits == NoListing \in Listings /\ ListFits(NoListing)
  BY DEF NoListing, Listings, ListFits

LEMMA NoJobFits == NoJob \in Jobs /\ JobFits(NoJob)
  BY NoListingFits DEF NoJob, Jobs, JobFits

LEMMA NoRequestFits == NoRequest \in Requests /\ ReqFits(NoRequest)
  BY NoListingFits DEF NoRequest, Requests, ReqFits

(* CHOOSE finds the largest of a set that has one. *)
LEMMA NewestIs ==
  ASSUME NEW vs \in SUBSET Nat, NEW m \in vs \cup {0}, \A u \in vs : u <= m
  PROVE  Newest(vs) = m
<1> DEFINE P(v) == v \in vs \cup {0} /\ \A u \in vs : u <= v
<1>1. P(m)
  OBVIOUS
<1>2. P(Newest(vs))
  BY <1>1 DEF Newest
<1>3. \A v : P(v) => v = m
  BY <1>1
<1>4. QED  BY <1>2, <1>3

LEMMA ListingFits ==
  ASSUME TypeOK, VersionsAreALine
  PROVE  /\ Listing \in Listings
         /\ ListFits(Listing)
<1>1. PICK n \in Numbers : LineTo(n)
  BY DEF VersionsAreALine, Numbers
<1>2. Present = {v \in Versions : v <= n}
  BY <1>1 DEF Present, LineTo, Versions, Numbers
<1>3. Newest(Present) = n
  BY <1>2, NewestIs DEF Versions, Numbers
<1>4. CASE n # 0 /\ reports[n].status = "draft"
  <2>1. With("draft") = {n}
    BY <1>1, <1>4 DEF With, LineTo, Versions, Numbers
  <2>2. Newest(With("draft")) = n
    BY <2>1, NewestIs DEF Numbers
  <2>3. With("released") = {v \in Versions : v + 1 = n}
    BY <1>1, <1>4 DEF With, LineTo, Versions, Numbers
  <2>4. Newest(With("released")) = n - 1
    BY <2>3, <1>4, NewestIs DEF Versions, Numbers
  <2>5. n - 1 = 0 \/ n - 1 \in Shown
    BY <2>3, <1>4 DEF Versions, Numbers, Shown, With
  <2>6. n \in Versions /\ reports[n] \in Rows
    BY <1>4 DEF TypeOK, Versions, Numbers
  <2>7. QED
    BY <1>3, <2>2, <2>4, <2>5, <2>6, <1>2
    DEF Listing, Listings, ListFits, Rows, Versions, Numbers
<1>5. CASE ~(n # 0 /\ reports[n].status = "draft")
  <2>1. With("draft") = {}
    BY <1>1, <1>5 DEF With, LineTo, Versions, Numbers
  <2>2. Newest(With("draft")) = 0
    BY <2>1, NewestIs
  <2>3. With("released") = {v \in Versions : v = n}
    BY <1>1, <1>5 DEF With, LineTo, Versions, Numbers
  <2>4. Newest(With("released")) = n
    BY <2>3, NewestIs DEF Versions, Numbers
  <2>5. n = 0 \/ n \in Shown
    BY <2>3 DEF Versions, Numbers, Shown, With
  <2>6. QED
    BY <1>3, <2>2, <2>4, <2>5, <1>2
    DEF Listing, Listings, ListFits, Versions, Numbers
<1>6. QED  BY <1>4, <1>5

-----------------------------------------------------------------------------
(* The three changes of the table, and what each keeps *)

Moved ==
  /\ reports' \in [Versions -> Rows]
  /\ VersionsAreALine'
  /\ Present \subseteq Present'
  /\ Shown \subseteq Shown'

(* Nothing the candidate has been shown changes. *)
Undisclosed ==
  /\ With("released")' = With("released")
  /\ Shown' = Shown
  /\ \A v \in Shown : reports'[v].text = reports[v].text

LEMMA RedraftMoves ==
  ASSUME TypeOK, VersionsAreALine, NEW v, NEW text \in Texts \cup {None},
         reports' = Redrafted(v, text)
  PROVE  Moved /\ Undisclosed
<1>1. /\ reports' \in [Versions -> Rows]
      /\ \A u \in Versions :
           /\ reports'[u].status = reports[u].status
           /\ reports'[u].supersedes = reports[u].supersedes
           /\ reports[u].status # "draft" => reports'[u] = reports[u]
  BY DEF TypeOK, Redrafted, With, Rows
<1>2. PICK n \in Numbers : LineTo(n)
  BY DEF VersionsAreALine, Numbers
<1>3. LineTo(n)'
  BY <1>1, <1>2 DEF LineTo, Versions, Numbers
<1>4. VersionsAreALine'
  BY <1>2, <1>3 DEF VersionsAreALine, Numbers
<1>5. Present' = Present /\ Undisclosed
  BY <1>1 DEF Present, With, Shown, Undisclosed
<1>6. QED  BY <1>1, <1>4, <1>5 DEF Moved, Undisclosed

LEMMA InsertMoves ==
  ASSUME TypeOK, VersionsAreALine, NEW list \in Listings, ListFits(list),
         list.draft = 0, list.top < MaxVersion,
         NEW text \in Texts \cup {None}, reports' = Inserted(list, text)
  PROVE  Moved /\ Undisclosed /\ Present' # {}
<1> DEFINE t == list.top + 1
<1>1. t \in Versions /\ list.released = list.top
  BY DEF Listings, Versions, ListFits
<1>2. PICK n \in Numbers : LineTo(n)
  BY DEF VersionsAreALine, Numbers
<1>3. CASE Insertable(t)
  <2> DEFINE new == [status |-> "draft", text |-> text,
                     supersedes |-> list.released]
  <2>1. reports' = [reports EXCEPT ![t] = new]
    BY <1>3 DEF Inserted
  <2>2. new \in Rows
    BY DEF Rows, Listings
  <2>3. /\ reports' \in [Versions -> Rows]
        /\ reports'[t] = new
        /\ \A u \in Versions \ {t} : reports'[u] = reports[u]
    BY <1>1, <2>1, <2>2 DEF TypeOK
  <2>4. list.top = n
    BY <1>1, <1>2, <1>3
    DEF Insertable, Present, LineTo, ListFits, Versions, Numbers, Listings
  <2>5. n = 0 \/ reports[n].status = "released"
    BY <1>2, <1>3 DEF Insertable, With, LineTo, Versions, Numbers
  <2>6. LineTo(t)'
    BY <1>1, <1>2, <2>3, <2>4, <2>5 DEF LineTo, Versions, Numbers
  <2>7. VersionsAreALine'
    BY <2>6, <1>1 DEF VersionsAreALine, Versions
  <2>8. reports[t].status = "absent"
    BY <1>1, <1>3 DEF Insertable, Present
  <2>9. Present' = Present \cup {t} /\ Undisclosed
    BY <1>1, <2>3, <2>8 DEF Present, With, Shown, Undisclosed
  <2>10. QED  BY <2>3, <2>7, <2>9 DEF Moved, Undisclosed
<1>4. CASE ~Insertable(t)
  <2>1. reports' = reports
    BY <1>4 DEF Inserted
  <2>2. Present # {}
    BY <1>1, <1>4 DEF Insertable, Present, With
  <2>3. Present' = Present /\ Undisclosed /\ VersionsAreALine'
    BY <2>1, <1>2
    DEF Present, With, Shown, Undisclosed, VersionsAreALine, LineTo, Numbers
  <2>4. QED  BY <2>1, <2>2, <2>3 DEF Moved, Undisclosed, TypeOK
<1>5. QED  BY <1>3, <1>4

(* A release shows the candidate one more version: the newest. *)
LEMMA ReleaseMoves ==
  ASSUME TypeOK, VersionsAreALine, NEW v \in With("draft"),
         reports' = Released(v)
  PROVE  /\ Moved
         /\ v \in With("released")'
         /\ Shown = 1..(v - 1) /\ Shown' = 1..v
         /\ \A u \in Versions : reports'[u].text = reports[u].text
<1>1. PICK n \in Numbers : LineTo(n)
  BY DEF VersionsAreALine, Numbers
<1>2. v = n /\ v \in Versions
  BY <1>1 DEF With, LineTo, Versions, Numbers
<1>3. /\ reports' \in [Versions -> Rows]
      /\ reports'[v].status = "released"
      /\ \A u \in Versions :
           /\ reports'[u].text = reports[u].text
           /\ reports'[u].supersedes = reports[u].supersedes
           /\ u # v => reports'[u].status =
                          IF reports[u].status = "released" THEN "superseded"
                          ELSE reports[u].status
  BY <1>2 DEF Released, With, TypeOK, Rows
<1>4. LineTo(n)'
  BY <1>1, <1>2, <1>3 DEF LineTo, Versions, Numbers
<1>5. VersionsAreALine'
  BY <1>4 DEF VersionsAreALine, Numbers
<1>6. Shown = 1..(v - 1) /\ Shown' = 1..v
  <2>1. \A u \in Versions : reports[u].status \in
          {"absent", "draft", "released", "superseded"}
    BY DEF TypeOK, Rows
  <2>2. Shown = {u \in Versions : u < n}
    BY <2>1, <1>1, <1>2 DEF Shown, LineTo, With, Versions, Numbers
  <2>3. Shown' = {u \in Versions : u <= n}
    BY <2>1, <1>1, <1>2, <1>3 DEF Shown, LineTo, Versions, Numbers
  <2>4. QED  BY <2>2, <2>3, <1>2 DEF Versions, Numbers
<1>7. Present \subseteq Present'
  BY <1>3 DEF Present
<1>8. QED
  BY <1>2, <1>3, <1>5, <1>6, <1>7 DEF Moved, With, Versions

-----------------------------------------------------------------------------
(* What a step leaves to show *)

LEMMA SameReports ==
  ASSUME reports' = reports
  PROVE  /\ Present' = Present /\ Shown' = Shown
         /\ With("released")' = With("released")
         /\ VersionsAreALine => VersionsAreALine'
  BY DEF Present, Shown, With, VersionsAreALine, LineTo

LEMMA DecisionsStay ==
  ASSUME IInv, Grows, decisions' = decisions
  PROVE  DecisionsAreALine'
<1> SUFFICES ASSUME NEW i \in 1..Len(decisions)
             PROVE  /\ decisions[i].after = i - 1
                    /\ reports'[decisions[i].on].status \in
                         {"released", "superseded"}
  BY DEF DecisionsAreALine
<1>1. decisions[i] \in Decisions
  BY DEF IInv, TypeOK
<1>2. decisions[i].on \in Shown /\ decisions[i].after = i - 1
  BY <1>1 DEF IInv, DecisionsAreALine, Shown, Decisions
<1>3. decisions[i].on \in Shown'
  BY <1>2 DEF Grows
<1>4. QED  BY <1>2, <1>3 DEF Shown

(* A worker's step, once it is known to take nothing back. *)
LEMMA WorkerMoves ==
  ASSUME IInv, TypeOK', Grows, NEW w \in Workers, NEW j \in Jobs, JobFits(j)',
         job' = [job EXCEPT ![w] = j], req' = req, decisions' = decisions
  PROVE  /\ \A u \in Workers : JobFits(job[u])'
         /\ \A q \in People : ReqFits(req[q])'
         /\ DecisionsAreALine'
<1>1. \A u \in Workers : JobFits(job[u])'
  <2>1. SUFFICES ASSUME NEW u \in Workers PROVE JobFits(job[u])'
    OBVIOUS
  <2>2. CASE u = w
    <3>1. job'[u] = j
      BY <2>2 DEF IInv, TypeOK
    <3>2. QED  BY <3>1
  <2>3. CASE u # w
    <3>1. job'[u] = job[u] /\ job[u] \in Jobs /\ JobFits(job[u])
      BY <2>3 DEF IInv, TypeOK
    <3>2. QED  BY <3>1, JobsKeepFitting
  <2>4. QED  BY <2>2, <2>3
<1>2. \A q \in People : ReqFits(req[q])'
  BY RequestsKeepFitting DEF IInv, TypeOK
<1>3. DecisionsAreALine'
  BY DecisionsStay
<1>4. QED  BY <1>1, <1>2, <1>3

LEMMA PersonMoves ==
  ASSUME IInv, TypeOK', Grows, NEW q \in People, NEW r \in Requests,
         ReqFits(r)', req' = [req EXCEPT ![q] = r], job' = job
  PROVE  /\ \A w \in Workers : JobFits(job[w])'
         /\ \A p \in People : ReqFits(req[p])'
<1>1. \A w \in Workers : JobFits(job[w])'
  BY JobsKeepFitting DEF IInv, TypeOK
<1>2. \A p \in People : ReqFits(req[p])'
  <2>1. SUFFICES ASSUME NEW p \in People PROVE ReqFits(req[p])'
    OBVIOUS
  <2>2. CASE p = q
    <3>1. req'[p] = r
      BY <2>2 DEF IInv, TypeOK
    <3>2. QED  BY <3>1
  <2>3. CASE p # q
    <3>1. req'[p] = req[p] /\ req[p] \in Requests /\ ReqFits(req[p])
      BY <2>3 DEF IInv, TypeOK
    <3>2. QED  BY <3>1, RequestsKeepFitting DEF IInv
  <2>4. QED  BY <2>2, <2>3
<1>3. QED  BY <1>1, <1>2

(* A step that only reads, of a worker and of a person. *)
LEMMA WorkerReading ==
  ASSUME IInv, NEW w \in Workers, NEW j \in Jobs, JobFits(j),
         job' = [job EXCEPT ![w] = j], WorkerReads
  PROVE  IInv'
<1>1. TypeOK' /\ Grows
  BY SameReports DEF IInv, TypeOK, WorkerReads, Grows, Finished
<1>2. JobFits(j)'
  BY <1>1, JobsKeepFitting
<1>3. /\ VersionsAreALine' /\ ReviewHasSomething' /\ ReadyMeansReleased'
      /\ WrittenAfterwards'
  BY SameReports
  DEF IInv, WorkerReads, ReviewHasSomething, ReadyMeansReleased,
      WrittenAfterwards, Finished
<1>4. QED  BY <1>1, <1>2, <1>3, WorkerMoves DEF IInv, WorkerReads

LEMMA PersonReading ==
  ASSUME IInv, NEW q \in People, NEW r \in Requests, ReqFits(r),
         req' = [req EXCEPT ![q] = r], PersonReads
  PROVE  IInv'
<1>1. TypeOK' /\ Grows
  <2>1. Len(decisions) \in Nat
    BY DEF IInv, TypeOK
  <2>2. QED
    BY <2>1, SameReports DEF IInv, TypeOK, PersonReads, Grows, Finished
<1>2. ReqFits(r)'
  BY <1>1, RequestsKeepFitting DEF IInv
<1>3. /\ VersionsAreALine' /\ ReviewHasSomething' /\ ReadyMeansReleased'
      /\ WrittenAfterwards'
  BY SameReports
  DEF IInv, PersonReads, ReviewHasSomething, ReadyMeansReleased,
      WrittenAfterwards, Finished
<1>4. DecisionsAreALine'
  BY <1>1, DecisionsStay DEF PersonReads
<1>5. QED  BY <1>1, <1>2, <1>3, <1>4, PersonMoves DEF IInv, PersonReads

-----------------------------------------------------------------------------
(* Workers *)

LEMMA StepIs ==
  ASSUME TypeOK, NEW w \in Workers,
         NEW pc \in {"idle", "evaluate", "held", "record", "list", "write",
                     "finish"}, Step(w, pc)
  PROVE  \E j \in Jobs : /\ job' = [job EXCEPT ![w] = j]
                         /\ j.pc = pc
                         /\ j.text = job[w].text /\ j.list = job[w].list
<1> DEFINE j == [job[w] EXCEPT !.pc = pc]
<1>1. j \in Jobs /\ j.pc = pc /\ j.text = job[w].text /\ j.list = job[w].list
  BY DEF TypeOK, Jobs
<1>2. job' = [job EXCEPT ![w] = j]
  BY DEF TypeOK, Step
<1>3. QED  BY <1>1, <1>2

LEMMA ClaimKeeps ==
  ASSUME IInv, NEW w \in Workers, Claim(w)
  PROVE  IInv'
<1>1. PICK j \in Jobs : /\ job' = [job EXCEPT ![w] = j]
                        /\ j.pc = "evaluate"
                        /\ j.text = job[w].text /\ j.list = job[w].list
  BY StepIs DEF Claim, IInv
<1>2. TypeOK' /\ Grows
  <2>1. TypeOK'
    <3>1. job' \in [Workers -> Jobs]
      BY <1>1 DEF IInv, TypeOK
    <3>2. run' \in [status : {"waiting", "running", "human_review", "ready"},
                    owner : Workers \cup {None},
                    results : Texts \cup {None}]
      BY DEF IInv, TypeOK, Claim
    <3>3. tries' \in Nat
      BY DEF IInv, TypeOK, Claim
    <3>4. QED  BY <3>1, <3>2, <3>3 DEF IInv, TypeOK, Claim
  <2>2. Grows
    BY SameReports DEF IInv, TypeOK, Claim, Grows, Finished
  <2>3. QED  BY <2>1, <2>2
<1>3. JobFits(j)'
  <2>1. JobFits(j)
    BY <1>1 DEF IInv, JobFits
  <2>2. QED  BY <1>2, <2>1, JobsKeepFitting
<1>4. VersionsAreALine' /\ ReadyMeansReleased'
  BY SameReports DEF IInv, Claim, ReadyMeansReleased, TypeOK
<1>5. ReviewHasSomething' /\ WrittenAfterwards'
  BY SameReports
  DEF IInv, Claim, ReviewHasSomething, WrittenAfterwards, Finished, TypeOK
<1>6. QED  BY <1>1, <1>2, <1>3, <1>4, <1>5, WorkerMoves DEF IInv, Claim

LEMMA EvaluateKeeps ==
  ASSUME IInv, NEW w \in Workers, Evaluate(w)
  PROVE  IInv'
<1>1. PICK text \in Texts :
        job' = [job EXCEPT ![w].text = text,
                           ![w].pc = IF origin = "employer_authored"
                                     THEN "held" ELSE "finish"]
  BY DEF Evaluate
<1> DEFINE j == [job[w] EXCEPT !.text = text,
                               !.pc = IF origin = "employer_authored"
                                      THEN "held" ELSE "finish"]
<1>2. job' = [job EXCEPT ![w] = j]
  BY <1>1 DEF IInv, TypeOK
<1>3. j \in Jobs
  BY DEF IInv, TypeOK, Jobs
<1>4. JobFits(j)
  BY DEF IInv, TypeOK, Jobs, JobFits
<1>5. QED  BY <1>2, <1>3, <1>4, WorkerReading DEF Evaluate

LEMMA FailKeeps ==
  ASSUME IInv, NEW w \in Workers, Fail(w)
  PROVE  IInv'
<1>1. TypeOK' /\ Grows
  <2>1. TypeOK'
    BY NoJobFits DEF IInv, TypeOK, Fail, Stop
  <2>2. Grows
    BY SameReports DEF IInv, TypeOK, Fail, Holds, Grows, Finished
  <2>3. QED  BY <2>1, <2>2
<1>2. JobFits(NoJob)'
  BY <1>1, NoJobFits, JobsKeepFitting
<1>3. VersionsAreALine' /\ ReadyMeansReleased'
  BY SameReports DEF IInv, Fail, Holds, ReadyMeansReleased, TypeOK
<1>4. ReviewHasSomething' /\ WrittenAfterwards'
  BY SameReports
  DEF IInv, Fail, Holds, ReviewHasSomething, WrittenAfterwards, Finished,
      TypeOK
<1>5. QED
  BY <1>1, <1>2, <1>3, <1>4, NoJobFits, WorkerMoves DEF IInv, Fail, Stop

LEMMA CheckHeldKeeps ==
  ASSUME IInv, NEW w \in Workers, CheckHeld(w)
  PROVE  IInv'
<1>1. CASE Holds(w)
  <2>1. PICK j \in Jobs : /\ job' = [job EXCEPT ![w] = j]
                          /\ j.pc = "record"
                          /\ j.text = job[w].text /\ j.list = job[w].list
    BY <1>1, StepIs DEF CheckHeld, IInv
  <2>2. JobFits(j)
    BY <2>1 DEF IInv, JobFits, CheckHeld, Work
  <2>3. QED  BY <2>1, <2>2, WorkerReading DEF CheckHeld
<1>2. CASE ~Holds(w)
  BY <1>2, NoJobFits, WorkerReading DEF CheckHeld, Stop
<1>3. QED  BY <1>1, <1>2

LEMMA StoreRecordKeeps ==
  ASSUME IInv, NEW w \in Workers, StoreRecord(w)
  PROVE  IInv'
<1>1. PICK j \in Jobs : /\ job' = [job EXCEPT ![w] = j]
                        /\ j.pc = "list"
                        /\ j.text = job[w].text /\ j.list = job[w].list
  BY StepIs DEF StoreRecord, IInv
<1>2. record' # None /\ record' \in Texts
  BY DEF IInv, TypeOK, StoreRecord, Work, JobFits, Jobs
<1>3. TypeOK' /\ Grows
  BY <1>1, <1>2, SameReports DEF IInv, TypeOK, StoreRecord, Grows, Finished
<1>4. JobFits(j)'
  <2>1. ListFits(j.list)'
    BY <1>1, <1>3 DEF IInv, JobFits, ListFits, Grows
  <2>2. QED
    BY <1>1, <1>2, <2>1 DEF IInv, JobFits, StoreRecord, Work
<1>5. VersionsAreALine' /\ ReadyMeansReleased'
  BY SameReports DEF IInv, StoreRecord, ReadyMeansReleased
<1>6. ReviewHasSomething' /\ WrittenAfterwards'
  BY <1>2, SameReports
  DEF IInv, StoreRecord, ReviewHasSomething, WrittenAfterwards, Finished
<1>7. QED
  BY <1>1, <1>3, <1>4, <1>5, <1>6, WorkerMoves DEF IInv, StoreRecord

LEMMA ListForDraftKeeps ==
  ASSUME IInv, NEW w \in Workers, ListForDraft(w)
  PROVE  IInv'
<1> DEFINE j == [job[w] EXCEPT !.list = Listing, !.pc = "write"]
<1>1. Listing \in Listings /\ ListFits(Listing)
  BY ListingFits DEF IInv
<1>2. j \in Jobs /\ job' = [job EXCEPT ![w] = j]
  BY <1>1 DEF IInv, TypeOK, Jobs, ListForDraft
<1>3. JobFits(j)
  BY <1>1 DEF IInv, TypeOK, Jobs, JobFits, ListForDraft, Work
<1>4. QED  BY <1>2, <1>3, WorkerReading DEF ListForDraft

LEMMA WriteDraftKeeps ==
  ASSUME IInv, NEW w \in Workers, WriteDraft(w)
  PROVE  IInv'
<1>1. PICK j \in Jobs : /\ job' = [job EXCEPT ![w] = j]
                        /\ j.pc = "finish"
                        /\ j.text = job[w].text /\ j.list = job[w].list
  BY StepIs DEF WriteDraft, IInv
<1>2. /\ job[w] \in Jobs /\ JobFits(job[w]) /\ job[w].pc = "write"
      /\ job[w].list \in Listings /\ job[w].text \in Texts
  BY DEF IInv, TypeOK, Jobs, WriteDraft, Work, JobFits
<1>3. Moved /\ Undisclosed /\ Present' # {}
  <2>1. CASE job[w].list.draft # 0
    <3>1. reports' = Redrafted(job[w].list.draft, job[w].text)
      BY <2>1 DEF WriteDraft
    <3>2. Present # {}
      BY <1>2, <2>1 DEF JobFits, ListFits
    <3>3. QED  BY <1>2, <3>1, <3>2, RedraftMoves DEF IInv, Moved
  <2>2. CASE job[w].list.draft = 0
    <3>1. /\ reports' = Inserted(job[w].list, job[w].text)
          /\ job[w].list.top < MaxVersion
      BY <2>2 DEF WriteDraft
    <3>2. QED  BY <1>2, <2>2, <3>1, InsertMoves DEF IInv, JobFits
  <2>3. QED  BY <2>1, <2>2
<1>4. TypeOK' /\ Grows
  BY <1>1, <1>3 DEF IInv, TypeOK, WriteDraft, Grows, Finished, Moved
<1>5. JobFits(j)'
  <2>1. ListFits(j.list)'
    BY <1>1, <1>2, <1>4 DEF JobFits, ListFits, Grows
  <2>2. QED
    BY <1>1, <1>2, <1>3, <2>1 DEF JobFits, WriteDraft
<1>6. /\ VersionsAreALine' /\ ReadyMeansReleased' /\ ReviewHasSomething'
      /\ WrittenAfterwards'
  BY <1>2, <1>3
  DEF IInv, WriteDraft, JobFits, Moved, Undisclosed, ReadyMeansReleased,
      ReviewHasSomething, WrittenAfterwards, Finished
<1>7. QED
  BY <1>1, <1>4, <1>5, <1>6, WorkerMoves DEF IInv, WriteDraft

LEMMA HandOverKeeps ==
  ASSUME IInv, NEW w \in Workers, HandOver(w)
  PROVE  IInv'
<1>1. /\ job[w] \in Jobs /\ JobFits(job[w]) /\ job[w].pc = "finish"
      /\ job[w].text \in Texts
  BY DEF IInv, TypeOK, Jobs, HandOver, Work, JobFits
<1>2. TypeOK' /\ Grows
  BY <1>1, SameReports, NoJobFits
  DEF IInv, TypeOK, HandOver, Stop, Holds, Grows, Finished
<1>3. JobFits(NoJob)'
  BY <1>2, NoJobFits, JobsKeepFitting
<1>4. VersionsAreALine' /\ ReadyMeansReleased'
  BY SameReports DEF IInv, HandOver, Holds, ReadyMeansReleased, TypeOK
<1>5. ReviewHasSomething' /\ WrittenAfterwards'
  BY <1>1, SameReports
  DEF IInv, HandOver, Holds, ReviewHasSomething, WrittenAfterwards, Finished,
      TypeOK, JobFits
<1>6. QED
  BY <1>2, <1>3, <1>4, <1>5, NoJobFits, WorkerMoves DEF IInv, HandOver, Stop

LEMMA WorkerKeeps ==
  ASSUME IInv, NEW w \in Workers, WorkerStep(w)
  PROVE  IInv'
<1>1. CASE WorkerDies(w)
  BY <1>1, NoJobFits, WorkerReading DEF WorkerDies, Stop
<1>2. QED
  BY <1>1, ClaimKeeps, EvaluateKeeps, FailKeeps, CheckHeldKeeps,
     StoreRecordKeeps, ListForDraftKeeps, WriteDraftKeeps, HandOverKeeps
  DEF WorkerStep

-----------------------------------------------------------------------------
(* People *)

LEMMA ArriveKeeps ==
  ASSUME IInv, NEW q \in People, Arrive(q)
  PROVE  IInv'
<1>1. PICK r \in Requests :
        /\ req' = [req EXCEPT ![q] = r]
        /\ ListFits(r.list)
        /\ \/ r.pc = "run" /\ r.kind = "save"
           \/ /\ r.pc = "list" /\ r.kind \in {"release", "publish", "decide"}
              /\ r.kind = "release" => origin = "fydell_reviewed"
  <2>1. req[q] \in Requests /\ ReqFits(req[q]) /\ req[q].pc = "idle"
    BY DEF IInv, TypeOK, Arrive
  <2>2. CASE \E text \in Texts :
               req' = [req EXCEPT ![q] = [NoRequest EXCEPT
                         !.kind = "save", !.pc = "run", !.text = text]]
    <3>1. PICK text \in Texts :
            req' = [req EXCEPT ![q] = [NoRequest EXCEPT
                      !.kind = "save", !.pc = "run", !.text = text]]
      BY <2>2
    <3> DEFINE r == [NoRequest EXCEPT
                      !.kind = "save", !.pc = "run", !.text = text]
    <3>2. /\ r \in Requests /\ r.pc = "run" /\ r.kind = "save"
          /\ r.list = NoListing
      BY NoRequestFits, NoListingFits DEF NoRequest, Requests
    <3>3. QED  BY <3>1, <3>2, NoListingFits
  <2>3. CASE \E kind \in {"release", "publish", "decide"} :
               /\ kind = "release" => origin = "fydell_reviewed"
               /\ req' = [req EXCEPT ![q].kind = kind, ![q].pc = "list"]
    <3>1. PICK kind \in {"release", "publish", "decide"} :
            /\ kind = "release" => origin = "fydell_reviewed"
            /\ req' = [req EXCEPT ![q].kind = kind, ![q].pc = "list"]
      BY <2>3
    <3> DEFINE r == [req[q] EXCEPT !.kind = kind, !.pc = "list"]
    <3>2. /\ r \in Requests /\ r.pc = "list" /\ r.kind = kind
          /\ r.list = req[q].list
      BY <2>1 DEF Requests
    <3>3. req' = [req EXCEPT ![q] = r]
      BY <3>1 DEF IInv, TypeOK
    <3>4. QED  BY <3>1, <3>2, <3>3, <2>1 DEF ReqFits
  <2>4. QED  BY <2>2, <2>3 DEF Arrive
<1>2. ReqFits(r)
  BY <1>1 DEF ReqFits
<1>3. QED  BY <1>1, <1>2, PersonReading DEF Arrive

LEMMA GoIs ==
  ASSUME TypeOK, NEW q \in People,
         NEW pc \in {"idle", "run", "list", "write", "check", "prepare",
                     "release", "latest", "insert"}, Go(q, pc)
  PROVE  \E r \in Requests :
           /\ req' = [req EXCEPT ![q] = r]
           /\ r.pc = pc /\ r.kind = req[q].kind /\ r.list = req[q].list
<1> DEFINE r == [req[q] EXCEPT !.pc = pc]
<1>1. /\ r \in Requests
      /\ r.pc = pc /\ r.kind = req[q].kind /\ r.list = req[q].list
  BY DEF TypeOK, Requests
<1>2. req' = [req EXCEPT ![q] = r]
  BY DEF TypeOK, Go
<1>3. QED  BY <1>1, <1>2

LEMMA ReadRunKeeps ==
  ASSUME IInv, NEW q \in People, ReadRun(q)
  PROVE  IInv'
<1>1. CASE Finished
  <2>1. PICK r \in Requests :
          /\ req' = [req EXCEPT ![q] = r]
          /\ r.pc = IF req[q].kind = "save" THEN "list" ELSE "prepare"
          /\ r.kind = req[q].kind /\ r.list = req[q].list
    BY <1>1, GoIs DEF ReadRun, IInv
  <2>2. ReqFits(r)
    BY <1>1, <2>1 DEF ReadRun, IInv, ReqFits
  <2>3. QED  BY <2>1, <2>2, PersonReading DEF ReadRun
<1>2. CASE ~Finished
  BY <1>2, NoRequestFits, PersonReading DEF ReadRun, End
<1>3. QED  BY <1>1, <1>2

LEMMA ListReportsKeeps ==
  ASSUME IInv, NEW q \in People, ListReports(q)
  PROVE  IInv'
<1>1. Listing \in Listings /\ ListFits(Listing)
  BY ListingFits DEF IInv
<1>2. /\ req[q] \in Requests /\ ReqFits(req[q]) /\ req[q].pc = "list"
      /\ req[q].kind \in {"save", "release", "publish", "decide"}
  BY DEF IInv, TypeOK, ListReports, ReqFits, Requests
<1> DEFINE next == CASE req[q].kind = "save"    -> "write"
                     [] req[q].kind = "release" -> "check"
                     [] req[q].kind = "publish" -> "run"
                     [] req[q].kind = "decide"  -> "latest"
           stops == \/ req[q].kind \in {"release", "publish"}
                       /\ Listing.draft = 0
                    \/ req[q].kind = "decide" /\ Listing.released = 0
<1>3. CASE stops
  BY <1>3, NoRequestFits, PersonReading DEF ListReports, End
<1>4. CASE ~stops
  <2> DEFINE r == [req[q] EXCEPT !.list = Listing, !.pc = next]
  <2>1. /\ r \in Requests
        /\ r.kind = req[q].kind /\ r.list = Listing
        /\ req[q].kind = "save" => r.pc = "write"
        /\ req[q].kind = "release" => r.pc = "check"
        /\ req[q].kind = "publish" => r.pc = "run"
        /\ req[q].kind = "decide" => r.pc = "latest"
    BY <1>1, <1>2 DEF Requests
  <2>2. req' = [req EXCEPT ![q].list = Listing, ![q].pc = next]
    BY <1>4 DEF ListReports
  <2>3. req' = [req EXCEPT ![q] = r]
    <3> HIDE DEF next
    <3>1. QED  BY <2>2 DEF IInv, TypeOK
  <2>4. ReqFits(r)
    BY <1>1, <1>2, <1>4, <2>1 DEF ReqFits
  <2>5. QED  BY <2>1, <2>3, <2>4, PersonReading DEF ListReports
<1>5. QED  BY <1>3, <1>4

LEMMA CheckDraftKeeps ==
  ASSUME IInv, NEW q \in People, CheckDraft(q)
  PROVE  IInv'
<1>1. CASE req[q].list.text \in Sound
  <2>1. PICK r \in Requests :
          /\ req' = [req EXCEPT ![q] = r]
          /\ r.pc = "release" /\ r.kind = req[q].kind /\ r.list = req[q].list
    BY <1>1, GoIs DEF CheckDraft, IInv
  <2>2. ReqFits(r)
    BY <2>1 DEF CheckDraft, IInv, ReqFits, ListFits, WrittenAfterwards
  <2>3. QED  BY <2>1, <2>2, PersonReading DEF CheckDraft
<1>2. CASE req[q].list.text \notin Sound
  BY <1>2, NoRequestFits, PersonReading DEF CheckDraft, End
<1>3. QED  BY <1>1, <1>2

LEMMA ReadLatestKeeps ==
  ASSUME IInv, NEW q \in People, ReadLatest(q)
  PROVE  IInv'
<1> DEFINE r == [req[q] EXCEPT !.after = Len(decisions), !.pc = "insert"]
<1>1. Len(decisions) \in Nat
  BY DEF IInv, TypeOK
<1>2. r \in Requests /\ req' = [req EXCEPT ![q] = r]
  BY <1>1 DEF IInv, TypeOK, Requests, ReadLatest
<1>3. ReqFits(r)
  BY <1>1 DEF IInv, TypeOK, Requests, ReadLatest, ReqFits
<1>4. QED  BY <1>2, <1>3, PersonReading DEF ReadLatest

(* Steps of a person that write: the request ends, or moves on unchanged.  *)
LEMMA SaveDraftKeeps ==
  ASSUME IInv, NEW q \in People, SaveDraft(q)
  PROVE  IInv'
<1>1. /\ req[q] \in Requests /\ ReqFits(req[q]) /\ Finished
      /\ req[q].list \in Listings /\ req[q].text \in Texts \cup {None}
  BY DEF IInv, TypeOK, SaveDraft, ReqFits, Requests
<1>2. Moved /\ Undisclosed
  <2>1. CASE req[q].list.draft # 0
    <3>1. reports' = Redrafted(req[q].list.draft, req[q].text)
      BY <2>1 DEF SaveDraft
    <3>2. QED  BY <1>1, <3>1, RedraftMoves DEF IInv
  <2>2. CASE req[q].list.draft = 0
    <3>1. /\ reports' = Inserted(req[q].list, req[q].text)
          /\ req[q].list.top < MaxVersion
      BY <2>2 DEF SaveDraft
    <3>2. QED  BY <1>1, <2>2, <3>1, InsertMoves DEF IInv, ReqFits
  <2>3. QED  BY <2>1, <2>2
<1>3. TypeOK' /\ Grows
  <2>1. TypeOK'
    BY <1>2, NoRequestFits DEF IInv, TypeOK, SaveDraft, End, Moved
  <2>2. Grows
    BY <1>2 DEF IInv, TypeOK, SaveDraft, Grows, Finished, Moved
  <2>3. QED  BY <2>1, <2>2
<1>4. ReqFits(NoRequest)'
  BY <1>3, NoRequestFits, RequestsKeepFitting DEF IInv
<1>5. /\ VersionsAreALine' /\ ReadyMeansReleased' /\ ReviewHasSomething'
      /\ WrittenAfterwards'
  BY <1>1, <1>2
  DEF IInv, SaveDraft, Moved, Undisclosed, ReadyMeansReleased,
      ReviewHasSomething, WrittenAfterwards, Finished
<1>6. DecisionsAreALine'
  BY <1>3, DecisionsStay DEF SaveDraft
<1>7. QED
  BY <1>3, <1>4, <1>5, <1>6, NoRequestFits, PersonMoves
  DEF IInv, SaveDraft, End

LEMMA PrepareReleaseKeeps ==
  ASSUME IInv, NEW q \in People, PrepareRelease(q)
  PROVE  IInv'
<1>1. /\ req[q] \in Requests /\ ReqFits(req[q]) /\ Finished
      /\ req[q].list \in Listings /\ req[q].list.text \in Texts \cup {None}
  BY DEF IInv, TypeOK, PrepareRelease, ReqFits, Requests, Listings
<1>2. Moved /\ Undisclosed
  BY <1>1, RedraftMoves DEF PrepareRelease, IInv
<1>3. PICK r \in Requests :
        /\ req' = [req EXCEPT ![q] = r]
        /\ r.pc = "release" /\ r.kind = req[q].kind /\ r.list = req[q].list
  BY GoIs DEF PrepareRelease, IInv
<1>4. TypeOK' /\ Grows
  <2>1. TypeOK'
    BY <1>2, <1>3 DEF IInv, TypeOK, PrepareRelease, Moved
  <2>2. Grows
    BY <1>2 DEF IInv, TypeOK, PrepareRelease, Grows, Finished, Moved
  <2>3. QED  BY <2>1, <2>2
<1>5. ReqFits(r)'
  <2>1. ReqFits(r)
    BY <1>1, <1>3 DEF ReqFits
  <2>2. QED  BY <1>4, <2>1, RequestsKeepFitting DEF IInv
<1>6. /\ VersionsAreALine' /\ ReadyMeansReleased' /\ ReviewHasSomething'
      /\ WrittenAfterwards'
  BY <1>1, <1>2
  DEF IInv, PrepareRelease, Moved, Undisclosed, ReadyMeansReleased,
      ReviewHasSomething, WrittenAfterwards, Finished
<1>7. DecisionsAreALine'
  BY <1>4, DecisionsStay DEF PrepareRelease
<1>8. QED
  BY <1>3, <1>4, <1>5, <1>6, <1>7, PersonMoves DEF IInv, PrepareRelease

LEMMA ReleaseKeeps ==
  ASSUME IInv, NEW q \in People, Release(q)
  PROVE  IInv'
<1>1. CASE req[q].list.draft \in With("draft")
  <2>1. /\ reports' = Released(req[q].list.draft)
        /\ run' = IF run.status = "human_review"
                  THEN [run EXCEPT !.status = "ready"] ELSE run
    BY <1>1 DEF Release
  <2>2. Moved /\ With("released")' # {}
    BY <1>1, <2>1, ReleaseMoves DEF IInv
  <2>3. Finished
    BY DEF IInv, Release, ReqFits
  <2>4. /\ run'.status = "ready" /\ run'.results = run.results
        /\ run' \in [status : {"waiting", "running", "human_review", "ready"},
                     owner : Workers \cup {None},
                     results : Texts \cup {None}]
    BY <2>1, <2>3 DEF IInv, TypeOK, Finished
  <2>5. TypeOK'
    BY <2>2, <2>4, NoRequestFits DEF IInv, TypeOK, Release, End, Moved
  <2>6. Grows
    BY <2>2, <2>4 DEF IInv, TypeOK, Release, Grows, Finished, Moved
  <2>7. ReqFits(NoRequest)'
    BY <2>6, <2>5, NoRequestFits, RequestsKeepFitting DEF IInv
  <2>8. /\ VersionsAreALine' /\ ReadyMeansReleased' /\ ReviewHasSomething'
        /\ WrittenAfterwards'
    BY <2>2, <2>3, <2>4
    DEF IInv, Release, Moved, ReadyMeansReleased, ReviewHasSomething,
        WrittenAfterwards, Finished
  <2>9. DecisionsAreALine'
    BY <2>6, DecisionsStay DEF Release
  <2>10. QED
    BY <2>5, <2>6, <2>7, <2>8, <2>9, NoRequestFits, PersonMoves
    DEF IInv, Release, End
<1>2. CASE req[q].list.draft \notin With("draft")
  BY <1>2, NoRequestFits, PersonReading DEF Release, End, PersonReads
<1>3. QED  BY <1>1, <1>2

LEMMA RecordDecisionKeeps ==
  ASSUME IInv, NEW q \in People, RecordDecision(q)
  PROVE  IInv'
<1> DEFINE d == [on |-> req[q].list.released, after |-> req[q].after]
<1>1. CASE \E i \in 1..Len(decisions) : decisions[i].after = req[q].after
  BY <1>1, NoRequestFits, PersonReading DEF RecordDecision, End, PersonReads
<1>2. CASE ~\E i \in 1..Len(decisions) : decisions[i].after = req[q].after
  <2>1. decisions' = Append(decisions, d)
    BY <1>2 DEF RecordDecision
  <2>2. /\ Len(decisions) \in Nat /\ decisions \in Seq(Decisions)
        /\ req[q] \in Requests /\ ReqFits(req[q])
        /\ req[q].after \in Nat /\ req[q].after <= Len(decisions)
        /\ req[q].list.released \in Shown
    BY DEF IInv, TypeOK, RecordDecision, ReqFits, Requests, ListFits
  <2>3. d \in Decisions
    BY <2>2 DEF Decisions, Shown
  <2>4. req[q].after = Len(decisions)
    <3>1. SUFFICES ASSUME req[q].after < Len(decisions) PROVE FALSE
      BY <2>2
    <3>2. req[q].after + 1 \in 1..Len(decisions)
      BY <3>1, <2>2
    <3>3. decisions[req[q].after + 1].after = (req[q].after + 1) - 1
      BY <3>2 DEF IInv, DecisionsAreALine
    <3>4. QED  BY <3>2, <3>3, <1>2, <2>2
  <2>5. /\ decisions' \in Seq(Decisions)
        /\ Len(decisions') = Len(decisions) + 1
        /\ \A i \in 1..Len(decisions) : decisions'[i] = decisions[i]
        /\ decisions'[Len(decisions) + 1] = d
    BY <2>1, <2>2, <2>3, AppendProperties
  <2>6. DecisionsAreALine'
    <3>1. SUFFICES ASSUME NEW i \in 1..Len(decisions')
                   PROVE  /\ decisions'[i].after = i - 1
                          /\ reports[decisions'[i].on].status \in
                               {"released", "superseded"}
      BY DEF DecisionsAreALine, RecordDecision
    <3>2. CASE i \in 1..Len(decisions)
      BY <3>2, <2>5 DEF IInv, DecisionsAreALine
    <3>3. CASE i = Len(decisions) + 1
      BY <3>3, <2>2, <2>4, <2>5 DEF Shown
    <3>4. QED  BY <3>2, <3>3, <2>2, <2>5
  <2>7. TypeOK'
    BY <2>5, NoRequestFits DEF IInv, TypeOK, RecordDecision, End
  <2>8. Grows
    BY <2>2, <2>5, SameReports DEF RecordDecision, Grows, Finished
  <2>9. ReqFits(NoRequest)'
    BY <2>7, <2>8, NoRequestFits, RequestsKeepFitting DEF IInv
  <2>10. /\ VersionsAreALine' /\ ReadyMeansReleased' /\ ReviewHasSomething'
         /\ WrittenAfterwards'
    BY SameReports
    DEF IInv, RecordDecision, ReadyMeansReleased, ReviewHasSomething,
        WrittenAfterwards, Finished
  <2>11. QED
    BY <2>6, <2>7, <2>8, <2>9, <2>10, NoRequestFits, PersonMoves
    DEF IInv, RecordDecision, End
<1>3. QED  BY <1>1, <1>2

LEMMA PersonKeeps ==
  ASSUME IInv, NEW q \in People, PersonStep(q)
  PROVE  IInv'
<1>1. CASE Leave(q)
  BY <1>1, NoRequestFits, PersonReading DEF Leave, End
<1>2. QED
  BY <1>1, ArriveKeeps, ReadRunKeeps, ListReportsKeeps, SaveDraftKeeps,
     CheckDraftKeeps, PrepareReleaseKeeps, ReleaseKeeps, ReadLatestKeeps,
     RecordDecisionKeeps
  DEF PersonStep

-----------------------------------------------------------------------------
(* The invariant, and the properties it contains *)

LEMMA InitHolds == Init => IInv
<1> SUFFICES ASSUME Init PROVE IInv
  OBVIOUS
<1>1. NoReport \in Rows
  BY DEF NoReport, Rows
<1>2. Present = {} /\ With("released") = {}
  BY DEF Init, Present, With, NoReport
<1>3. decisions \in Seq(Decisions) /\ Len(decisions) = 0
  BY DEF Init
<1>4. TypeOK
  BY <1>1, <1>3, NoJobFits, NoRequestFits DEF Init, TypeOK
<1>5. LineTo(0)
  BY DEF Init, LineTo, Versions, NoReport
<1>6. VersionsAreALine
  BY <1>5 DEF VersionsAreALine
<1>7. /\ ReviewHasSomething /\ ReadyMeansReleased /\ DecisionsAreALine
      /\ WrittenAfterwards
  BY <1>2, <1>3
  DEF Init, ReviewHasSomething, ReadyMeansReleased, DecisionsAreALine,
      WrittenAfterwards, Finished
<1>8. QED
  BY <1>4, <1>6, <1>7, NoJobFits, NoRequestFits DEF IInv, Init

LEMMA StutterKeeps == IInv /\ UNCHANGED vars => IInv'
<1> SUFFICES ASSUME IInv, UNCHANGED vars PROVE IInv'
  OBVIOUS
<1>1. TypeOK' /\ Grows
  <2>1. Len(decisions) \in Nat
    BY DEF IInv, TypeOK
  <2>2. QED
    BY <2>1, SameReports DEF IInv, TypeOK, vars, Grows, Finished
<1>2. /\ VersionsAreALine' /\ ReviewHasSomething' /\ ReadyMeansReleased'
      /\ WrittenAfterwards'
  BY SameReports
  DEF IInv, vars, ReviewHasSomething, ReadyMeansReleased, WrittenAfterwards,
      Finished
<1>3. DecisionsAreALine'
  BY <1>1, DecisionsStay DEF vars
<1>4. /\ \A w \in Workers : JobFits(job[w])'
      /\ \A q \in People : ReqFits(req[q])'
  BY <1>1, JobsKeepFitting, RequestsKeepFitting DEF IInv, TypeOK, vars
<1>5. QED  BY <1>1, <1>2, <1>3, <1>4 DEF IInv

(* The invariant on which the other theorems rest: what old lists and the  *)
(* points reached by workers and requests say is still true of the tables. *)
THEOREM ReportsInvariant == Spec => []IInv
<1>1. IInv /\ [Next]_vars => IInv'
  BY WorkerKeeps, PersonKeeps, StutterKeeps DEF Next
<1>2. QED  BY <1>1, InitHolds, PTL DEF Spec

(* Every table, worker and request stays in its type. *)
THEOREM ReportTypes == Spec => []TypeOK
<1>1. IInv => TypeOK
  BY DEF IInv
<1>2. QED  BY <1>1, ReportsInvariant, PTL

(* The versions of a report form one line, although every writer inserts   *)
(* above the newest version of an old list.                                *)
THEOREM LineHolds == Spec => []VersionsAreALine
<1>1. IInv => VersionsAreALine
  BY DEF IInv
<1>2. QED  BY <1>1, ReportsInvariant, PTL

(* A run in review has what the review needs, whoever died. *)
THEOREM ReviewHolds == Spec => []ReviewHasSomething
<1>1. IInv => ReviewHasSomething
  BY DEF IInv
<1>2. QED  BY <1>1, ReportsInvariant, PTL

(* A run is ready exactly when a report on it is released. *)
THEOREM ReadyHolds == Spec => []ReadyMeansReleased
<1>1. IInv => ReadyMeansReleased
  BY DEF IInv
<1>2. QED  BY <1>1, ReportsInvariant, PTL

(* Decisions replace each other in one line, each on a released report. *)
THEOREM DecisionsHold == Spec => []DecisionsAreALine
<1>1. IInv => DecisionsAreALine
  BY DEF IInv
<1>2. QED  BY <1>1, ReportsInvariant, PTL

-----------------------------------------------------------------------------
(* Every report says something *)

RequestIsWorded(r) ==
  /\ r.kind = "save" => r.text # None
  /\ r.pc = "write" => r.kind = "save"
  /\ r.pc = "prepare" => r.kind # "save"
  /\ r.pc \in {"run", "prepare"} /\ r.kind # "save" => r.list.text # None

Worded ==
  /\ \A v \in Present : reports[v].text # None
  /\ \A q \in People : RequestIsWorded(req[q])

LEMMA RedraftIsWorded ==
  ASSUME TypeOK, Worded, NEW v, NEW text \in Texts, reports' = Redrafted(v, text)
  PROVE  \A u \in Present' : reports'[u].text # None
  BY DEF Worded, Redrafted, With, Present, TypeOK, Rows

LEMMA InsertIsWorded ==
  ASSUME TypeOK, Worded, NEW list \in Listings, NEW text \in Texts,
         reports' = Inserted(list, text)
  PROVE  \A u \in Present' : reports'[u].text # None
<1> DEFINE new == [status |-> "draft", text |-> text,
                   supersedes |-> list.released]
<1>1. CASE Insertable(list.top + 1)
  <2>1. reports' = [reports EXCEPT ![list.top + 1] = new]
    BY <1>1 DEF Inserted
  <2>2. \A u \in Versions : reports'[u] = new \/ reports'[u] = reports[u]
    BY <2>1 DEF TypeOK
  <2>3. QED  BY <2>2 DEF Worded, Present
<1>2. CASE ~Insertable(list.top + 1)
  BY <1>2 DEF Inserted, Worded, Present
<1>3. QED  BY <1>1, <1>2

LEMMA ListingIsWorded ==
  ASSUME IInv, Worded, Listing.draft # 0
  PROVE  Listing.text # None
<1>1. ListFits(Listing)
  BY ListingFits DEF IInv
<1>2. Listing.draft \in Present
  BY <1>1 DEF ListFits
<1>3. Listing.text = reports[Listing.draft].text
  BY DEF Listing
<1>4. QED  BY <1>2, <1>3 DEF Worded

LEMMA WordedKeeps == IInv /\ Worded /\ [Next]_vars => Worded'
<1> SUFFICES ASSUME IInv, Worded, [Next]_vars PROVE Worded'
  OBVIOUS
<1> DEFINE Texted == \A v \in Present : reports[v].text # None
<1>1. CASE UNCHANGED vars
  BY <1>1, SameReports DEF Worded, vars
<1>2. ASSUME NEW w \in Workers, WorkerStep(w) PROVE Worded'
  <2>1. req' = req
    BY <1>2
    DEF WorkerStep, Claim, Evaluate, Fail, CheckHeld, StoreRecord,
        ListForDraft, WriteDraft, HandOver, WorkerDies, WorkerReads
  <2>2. CASE WriteDraft(w)
    <3>1. /\ job[w].text \in Texts /\ job[w].list \in Listings
      BY <2>2 DEF IInv, TypeOK, Jobs, WriteDraft, Work, JobFits
    <3>2. Texted'
      BY <2>2, <3>1, RedraftIsWorded, InsertIsWorded DEF WriteDraft, IInv
    <3>3. QED  BY <2>1, <3>2 DEF Worded
  <2>3. CASE ~WriteDraft(w)
    <3>1. reports' = reports
      BY <1>2, <2>3
      DEF WorkerStep, Claim, Evaluate, Fail, CheckHeld, StoreRecord,
          ListForDraft, HandOver, WorkerDies, WorkerReads
    <3>2. QED  BY <2>1, <3>1, SameReports DEF Worded
  <2>4. QED  BY <2>2, <2>3
<1>3. ASSUME NEW q \in People, PersonStep(q) PROVE Worded'
  <2>1. RequestIsWorded(NoRequest)
    BY DEF NoRequest, RequestIsWorded
  <2>2. \A p \in People : RequestIsWorded(req'[p])
    <3>1. SUFFICES RequestIsWorded(req'[q]) /\ \A p \in People \ {q} : req'[p] = req[p]
      BY DEF Worded
    <3>2. req[q] \in Requests /\ RequestIsWorded(req[q]) /\ req \in [People -> Requests]
      BY DEF IInv, TypeOK, Worded
    <3>3. CASE Arrive(q)
      <4>1. CASE \E text \in Texts :
                   req' = [req EXCEPT ![q] = [NoRequest EXCEPT
                             !.kind = "save", !.pc = "run", !.text = text]]
        BY <3>2, <4>1 DEF RequestIsWorded, NoRequest
      <4>2. CASE \E kind \in {"release", "publish", "decide"} :
                   req' = [req EXCEPT ![q].kind = kind, ![q].pc = "list"]
        BY <3>2, <4>2 DEF RequestIsWorded, Requests
      <4>3. QED  BY <3>3, <4>1, <4>2 DEF Arrive
    <3>4. CASE ReadRun(q)
      BY <2>1, <3>2, <3>4 DEF ReadRun, RequestIsWorded, Requests, Go, End
    <3>5. CASE ListReports(q)
      <4>1. CASE req' = [req EXCEPT ![q] = NoRequest]
        BY <2>1, <3>2, <4>1
      <4>2. CASE ~(req' = [req EXCEPT ![q] = NoRequest])
        <5>1. req[q].kind \in {"save", "release", "publish", "decide"}
          BY <3>2, <3>5 DEF IInv, ReqFits, ListReports, Requests
        <5>2. req[q].kind = "publish" => Listing.text # None
          BY <3>5, <4>2, ListingIsWorded DEF ListReports, End
        <5>3. PICK pc :
                /\ req' = [req EXCEPT ![q].list = Listing, ![q].pc = pc]
                /\ req[q].kind = "save" => pc = "write"
                /\ req[q].kind = "release" => pc = "check"
                /\ req[q].kind = "publish" => pc = "run"
                /\ req[q].kind = "decide" => pc = "latest"
          BY <3>5, <4>2, <5>1 DEF ListReports, End
        <5>4. /\ req'[q].kind = req[q].kind /\ req'[q].text = req[q].text
              /\ req'[q].pc = pc /\ req'[q].list = Listing
              /\ \A p \in People \ {q} : req'[p] = req[p]
          BY <3>2, <5>3 DEF Requests
        <5>5. QED  BY <3>2, <5>1, <5>2, <5>3, <5>4 DEF RequestIsWorded
      <4>3. QED  BY <4>1, <4>2
    <3>6. CASE SaveDraft(q) \/ Release(q) \/ RecordDecision(q) \/ Leave(q)
      BY <2>1, <3>2, <3>6 DEF SaveDraft, Release, RecordDecision, Leave, End
    <3>7. CASE CheckDraft(q)
      BY <2>1, <3>2, <3>7 DEF CheckDraft, RequestIsWorded, Requests, Go, End
    <3>8. CASE PrepareRelease(q) \/ ReadLatest(q)
      BY <3>2, <3>8 DEF PrepareRelease, ReadLatest, RequestIsWorded, Requests, Go
    <3>9. QED
      BY <1>3, <3>3, <3>4, <3>5, <3>6, <3>7, <3>8 DEF PersonStep
  <2>3. Texted'
    <3>1. req[q] \in Requests /\ RequestIsWorded(req[q]) /\ ReqFits(req[q])
      BY DEF IInv, TypeOK, Worded
    <3>2. CASE SaveDraft(q)
      <4>1. req[q].text \in Texts /\ req[q].list \in Listings
        BY <3>1, <3>2 DEF SaveDraft, RequestIsWorded, Requests
      <4>2. QED
        BY <3>2, <4>1, RedraftIsWorded, InsertIsWorded DEF SaveDraft, IInv
    <3>3. CASE PrepareRelease(q)
      <4>1. req[q].list.text \in Texts
        BY <3>1, <3>3 DEF PrepareRelease, RequestIsWorded, Requests, Listings
      <4>2. QED  BY <3>3, <4>1, RedraftIsWorded DEF PrepareRelease, IInv
    <3>4. CASE Release(q) /\ req[q].list.draft \in With("draft")
      <4>1. reports' = Released(req[q].list.draft)
        BY <3>4 DEF Release
      <4>2. /\ \A v \in Versions : reports'[v].text = reports[v].text
            /\ \A v \in Versions : reports'[v].status # "absent"
                                      => reports[v].status # "absent"
        BY <3>4, <4>1 DEF Released, With, IInv, TypeOK, Rows
      <4>3. QED  BY <4>2 DEF Worded, Present
    <3>5. CASE reports' = reports
      BY <3>5, SameReports DEF Worded
    <3>6. QED
      BY <1>3, <3>2, <3>3, <3>4, <3>5
      DEF PersonStep, Arrive, ReadRun, ListReports, CheckDraft, Release,
          ReadLatest, RecordDecision, Leave, PersonReads
  <2>4. QED  BY <2>2, <2>3 DEF Worded
<1>4. QED  BY <1>1, <1>2, <1>3 DEF Next

-----------------------------------------------------------------------------
(* The candidate's list of versions *)

LEMMA ToldIsASequence ==
  ASSUME NEW n \in Nat, NEW f, \A v \in 1..n : f[v] \in Texts
  PROVE  /\ [v \in 1..n |-> f[v]] \in Seq(Texts)
         /\ Len([v \in 1..n |-> f[v]]) = n
  OBVIOUS

(* A release appends what it says. *)
LEMMA ReleaseIsTold ==
  ASSUME IInv, Worded, NEW d \in With("draft"), reports' = Released(d)
  PROVE  /\ reports[d].text \in Texts
         /\ Told' = Append(Told, reports[d].text)
<1>1. /\ d \in Versions
      /\ Shown = 1..(d - 1) /\ Shown' = 1..d
      /\ \A u \in Versions : reports'[u].text = reports[u].text
  BY ReleaseMoves DEF IInv, With
<1>2. \A v \in 1..d : reports[v].text \in Texts
  <2>1. \A v \in 1..(d - 1) : v \in Present
    BY <1>1 DEF Shown, Present
  <2>2. d \in Present
    BY <1>1 DEF With, Present
  <2>3. \A v \in Present : reports[v].text \in Texts
    BY DEF Worded, IInv, TypeOK, Rows, Present
  <2>4. QED  BY <1>1, <2>1, <2>2, <2>3 DEF Versions
<1> DEFINE before == [v \in 1..(d - 1) |-> reports[v].text]
           after  == [v \in 1..d |-> reports[v].text]
<1>3. Told = before /\ Told' = after
  <2>1. \A v \in 1..d : v \in Versions
    BY <1>1 DEF Versions
  <2>2. QED  BY <1>1, <2>1 DEF Told
<1>4. d - 1 \in Nat /\ d \in Nat
  BY <1>1 DEF Versions
<1>5. before \in Seq(Texts) /\ Len(before) = d - 1
  BY <1>2, <1>4
<1>6. after \in Seq(Texts) /\ Len(after) = d
  BY <1>2, <1>4
<1>7. after = Append(before, reports[d].text)
  BY <1>2, <1>4, <1>5, <1>6
<1>8. QED  BY <1>2, <1>3, <1>4, <1>7

LEMMA OtherwiseNothingIsTold ==
  ASSUME Shown' = Shown, \A v \in Shown : reports'[v].text = reports[v].text
  PROVE  Told' = Told
  BY DEF Told

LEMMA StepIsTold == IInv /\ Worded /\ [Next]_vars => [Ledger!Next]_Told
<1> SUFFICES ASSUME IInv, Worded, [Next]_vars PROVE [Ledger!Next]_Told
  OBVIOUS
<1>1. CASE reports' = reports
  BY <1>1, SameReports, OtherwiseNothingIsTold
<1>2. ASSUME NEW w \in Workers, WorkerStep(w), reports' # reports
      PROVE  [Ledger!Next]_Told
  <2>1. WriteDraft(w)
    BY <1>2
    DEF WorkerStep, Claim, Evaluate, Fail, CheckHeld, StoreRecord,
        ListForDraft, HandOver, WorkerDies, WorkerReads
  <2>2. /\ job[w].list \in Listings /\ job[w].text \in Texts
        /\ ListFits(job[w].list)
    BY <2>1 DEF IInv, TypeOK, Jobs, WriteDraft, Work, JobFits
  <2>3. Undisclosed
    <3>1. CASE job[w].list.draft # 0
      <4>1. reports' = Redrafted(job[w].list.draft, job[w].text)
        BY <2>1, <3>1 DEF WriteDraft
      <4>2. QED  BY <2>2, <4>1, RedraftMoves DEF IInv
    <3>2. CASE job[w].list.draft = 0
      <4>1. /\ reports' = Inserted(job[w].list, job[w].text)
            /\ job[w].list.top < MaxVersion
        BY <2>1, <3>2 DEF WriteDraft
      <4>2. QED  BY <2>2, <3>2, <4>1, InsertMoves DEF IInv
    <3>3. QED  BY <3>1, <3>2
  <2>4. QED  BY <2>3, OtherwiseNothingIsTold DEF Undisclosed
<1>3. ASSUME NEW q \in People, PersonStep(q), reports' # reports
      PROVE  [Ledger!Next]_Told
  <2>1. /\ req[q] \in Requests /\ ListFits(req[q].list)
        /\ req[q].list \in Listings /\ req[q].text \in Texts \cup {None}
        /\ req[q].list.text \in Texts \cup {None}
    BY DEF IInv, TypeOK, ReqFits, Requests, Listings
  <2>2. CASE SaveDraft(q)
    <3>1. CASE req[q].list.draft # 0
      <4>1. reports' = Redrafted(req[q].list.draft, req[q].text)
        BY <2>2, <3>1 DEF SaveDraft
      <4>2. QED
        BY <2>1, <4>1, RedraftMoves, OtherwiseNothingIsTold
        DEF IInv, Undisclosed
    <3>2. CASE req[q].list.draft = 0
      <4>1. /\ reports' = Inserted(req[q].list, req[q].text)
            /\ req[q].list.top < MaxVersion
        BY <2>2, <3>2 DEF SaveDraft
      <4>2. QED
        BY <2>1, <3>2, <4>1, InsertMoves, OtherwiseNothingIsTold
        DEF IInv, Undisclosed
    <3>3. QED  BY <3>1, <3>2
  <2>3. CASE PrepareRelease(q)
    BY <2>1, <2>3, RedraftMoves, OtherwiseNothingIsTold
    DEF PrepareRelease, IInv, Undisclosed
  <2>4. CASE Release(q)
    <3>1. /\ req[q].list.draft \in With("draft")
          /\ reports' = Released(req[q].list.draft)
      BY <1>3, <2>4 DEF Release
    <3>2. QED  BY <3>1, ReleaseIsTold DEF Ledger!Next, Ledger!Publish
  <2>5. QED
    BY <1>3, <2>2, <2>3, <2>4
    DEF PersonStep, Arrive, ReadRun, ListReports, CheckDraft, ReadLatest,
        RecordDecision, Leave, PersonReads
<1>4. QED  BY <1>1, <1>2, <1>3 DEF Next, vars

(* What a candidate has been shown is an append-only list of versions.     *)
THEOREM ReportsImplementLedger == Spec => ImplementsLedger
<1>1. Init => Ledger!Init
  <2>1. SUFFICES ASSUME Init PROVE Told = << >>
    BY DEF Ledger!Init
  <2>2. \A v \in Versions : reports[v].status = "absent"
    BY <2>1 DEF Init, NoReport
  <2>3. Shown = {}
    BY <2>2 DEF Shown
  <2>4. QED  BY <2>3 DEF Told
<1>2. Init => Worded
  BY DEF Init, Worded, Present, NoReport, NoRequest, RequestIsWorded
<1>3. IInv /\ Worded /\ [Next]_vars => Worded'
  BY WordedKeeps
<1>4. IInv /\ Worded /\ [Next]_vars => [Ledger!Next]_Told
  BY StepIsTold
<1>5. QED
  BY <1>1, <1>2, <1>3, <1>4, ReportsInvariant, PTL
  DEF Spec, ImplementsLedger, Ledger!Spec
-----------------------------------------------------------------------------
(* What a release relies on *)

(* A draft is given another text while the release of it that listed it    *)
(* has yet to check it or to release it.                                   *)
Rewritten ==
  \E q \in People :
    /\ req[q].kind = "release" /\ req[q].pc \in {"check", "release"}
    /\ reports'[req[q].list.draft].text # reports[req[q].list.draft].text

(* On a reviewed task the candidate is shown only what passed the check of *)
(* validateForRelease (reports.ts 152-162).                                *)
SoundIsReleased ==
  origin = "fydell_reviewed" => \A v \in Shown : reports[v].text \in Sound

(* What a request knows of the draft it is about to release. *)
ReleaseFits(r) ==
  /\ r.kind = "publish" => origin = "employer_authored"
  /\ r.pc = "run" => r.kind \in {"save", "publish"}
  /\ r.pc = "prepare" => r.kind = "publish"
  /\ r.pc = "release" => r.kind \in {"release", "publish"}
  /\ r.kind = "release" /\ r.pc \in {"check", "release"} =>
       /\ r.list.draft # 0
       /\ reports[r.list.draft].text = r.list.text
       /\ r.pc = "release" => r.list.text \in Sound

ReleasesFit == \A q \in People : ReleaseFits(req[q])

LEMMA NoRequestReleases == ReleaseFits(NoRequest)
  BY DEF ReleaseFits, NoRequest

(* A request that stands still keeps what it knows, unless its draft is    *)
(* rewritten.                                                              *)
LEMMA StandingRequestsFit ==
  ASSUME ReleasesFit, ~Rewritten, origin' = origin,
         NEW q \in People, req'[q] = req[q]
  PROVE  ReleaseFits(req[q])'
  BY DEF ReleasesFit, ReleaseFits, Rewritten

LEMMA WorkersLeaveRequests ==
  ASSUME NEW w \in Workers, WorkerStep(w)
  PROVE  req' = req /\ origin' = origin
  BY DEF WorkerStep, Claim, Evaluate, Fail, CheckHeld, StoreRecord,
         ListForDraft, WriteDraft, HandOver, WorkerDies, WorkerReads

LEMMA PersonMovesOneRequest ==
  ASSUME IInv, NEW q \in People, PersonStep(q)
  PROVE  /\ \A p \in People \ {q} : req'[p] = req[p]
         /\ origin' = origin
<1>1. req \in [People -> Requests]
  BY DEF IInv, TypeOK
<1>2. CASE Arrive(q)
  BY <1>1, <1>2 DEF Arrive, PersonReads
<1>3. CASE ~Arrive(q)
  BY <1>1, <1>3
  DEF PersonStep, ReadRun, ListReports, SaveDraft, CheckDraft, PrepareRelease,
      Release, ReadLatest, RecordDecision, Leave, Go, End, PersonReads
<1>4. QED  BY <1>2, <1>3

(* The step of ListReports that goes on, with all it writes. *)
LEMMA ListedRequest ==
  ASSUME IInv, NEW q \in People, ListReports(q),
         ~(req' = [req EXCEPT ![q] = NoRequest])
  PROVE  /\ reports' = reports /\ record' = record
         /\ req'[q].kind = req[q].kind /\ req'[q].text = req[q].text
         /\ req'[q].list = Listing
         /\ req[q].kind \in {"save", "release", "publish", "decide"}
         /\ req[q].kind \in {"release", "publish"} =>
              /\ Listing.draft # 0 /\ Listing.draft \in Present
              /\ Listing.text = reports[Listing.draft].text
         /\ req[q].kind = "save" => req'[q].pc = "write"
         /\ req[q].kind = "release" => req'[q].pc = "check"
         /\ req[q].kind = "publish" => req'[q].pc = "run"
         /\ req[q].kind = "decide" => req'[q].pc = "latest"
<1>1. req[q] \in Requests /\ req \in [People -> Requests] /\ ReqFits(req[q])
  BY DEF IInv, TypeOK
<1>2. req[q].kind \in {"save", "release", "publish", "decide"}
  BY <1>1 DEF ReqFits, ListReports, Requests
<1>3. PICK pc :
        /\ req' = [req EXCEPT ![q].list = Listing, ![q].pc = pc]
        /\ req[q].kind = "save" => pc = "write"
        /\ req[q].kind = "release" => pc = "check"
        /\ req[q].kind = "publish" => pc = "run"
        /\ req[q].kind = "decide" => pc = "latest"
  BY <1>2 DEF ListReports, End
<1>4. /\ req'[q].kind = req[q].kind /\ req'[q].text = req[q].text
      /\ req'[q].pc = pc /\ req'[q].list = Listing
  BY <1>1, <1>3 DEF Requests
<1>5. req[q].kind \in {"release", "publish"} => Listing.draft # 0
  BY DEF ListReports, End
<1>6. Listing.draft # 0 =>
        Listing.draft \in Present /\ Listing.text = reports[Listing.draft].text
  BY ListingFits DEF IInv, ListFits, Listing
<1>7. reports' = reports /\ record' = record
  BY DEF ListReports, PersonReads
<1>8. QED  BY <1>2, <1>3, <1>4, <1>5, <1>6, <1>7

LEMMA MovingRequestFits ==
  ASSUME IInv, ReleasesFit, NEW q \in People, PersonStep(q)
  PROVE  ReleaseFits(req[q])'
<1>1. /\ req[q] \in Requests /\ req \in [People -> Requests]
      /\ ReqFits(req[q]) /\ ReleaseFits(req[q])
  BY DEF IInv, TypeOK, ReleasesFit
<1>2. CASE req' = [req EXCEPT ![q] = NoRequest]
  <2>1. req'[q] = NoRequest
    BY <1>1, <1>2
  <2>2. QED  BY <2>1 DEF ReleaseFits, NoRequest
<1>3. CASE Arrive(q)
  <2>1. origin' = origin /\ reports' = reports
    BY <1>3 DEF Arrive, PersonReads
  <2>2. CASE \E text \in Texts :
               req' = [req EXCEPT ![q] = [NoRequest EXCEPT
                         !.kind = "save", !.pc = "run", !.text = text]]
    BY <1>1, <2>2 DEF ReleaseFits, NoRequest
  <2>3. CASE \E kind \in {"release", "publish", "decide"} :
               /\ req' = [req EXCEPT ![q].kind = kind, ![q].pc = "list"]
               /\ kind = "publish" => origin = "employer_authored"
    <3>1. PICK kind \in {"release", "publish", "decide"} :
            /\ req' = [req EXCEPT ![q].kind = kind, ![q].pc = "list"]
            /\ kind = "publish" => origin = "employer_authored"
      BY <2>3
    <3>2. req'[q].kind = kind /\ req'[q].pc = "list"
      BY <1>1, <3>1 DEF Requests
    <3>3. QED  BY <3>1, <3>2, <2>1 DEF ReleaseFits
  <2>4. QED  BY <1>3, <2>2, <2>3 DEF Arrive
<1>4. CASE ListReports(q) /\ ~(req' = [req EXCEPT ![q] = NoRequest])
  <2>1. origin' = origin
    BY <1>4 DEF ListReports, PersonReads
  <2>2. QED  BY <1>1, <1>4, <2>1, ListedRequest DEF ReleaseFits
<1>5. ASSUME ~(req' = [req EXCEPT ![q] = NoRequest]),
             ReadRun(q) \/ CheckDraft(q) \/ PrepareRelease(q) \/ ReadLatest(q)
      PROVE  ReleaseFits(req[q])'
  <2>1. /\ req'[q].kind = req[q].kind /\ req'[q].list = req[q].list
        /\ ReadRun(q) => /\ req[q].pc = "run"
                         /\ req'[q].pc \in {"list", "prepare"}
                         /\ req'[q].pc = "prepare" => req[q].kind # "save"
        /\ CheckDraft(q) => /\ req[q].pc = "check" /\ req'[q].pc = "release"
                            /\ req[q].list.text \in Sound
        /\ PrepareRelease(q) => req[q].pc = "prepare" /\ req'[q].pc = "release"
        /\ ReadLatest(q) => req[q].pc = "latest" /\ req'[q].pc = "insert"
    BY <1>1, <1>5
    DEF ReadRun, CheckDraft, PrepareRelease, ReadLatest, Go, End, Requests
  <2>2. /\ origin' = origin
        /\ ~PrepareRelease(q) => reports' = reports
    BY <1>5
    DEF ReadRun, CheckDraft, PrepareRelease, ReadLatest, PersonReads
  <2>3. QED  BY <1>1, <1>5, <2>1, <2>2 DEF ReleaseFits, ReqFits
<1>6. QED
  BY <1>2, <1>3, <1>4, <1>5
  DEF PersonStep, SaveDraft, Release, RecordDecision, Leave, End

LEMMA ReleasesKeepFitting ==
  ASSUME IInv, ReleasesFit, [Next]_vars, ~Rewritten
  PROVE  ReleasesFit'
<1>1. CASE UNCHANGED vars
  BY <1>1 DEF vars, ReleasesFit, ReleaseFits
<1>2. ASSUME NEW w \in Workers, WorkerStep(w) PROVE ReleasesFit'
  BY <1>2, WorkersLeaveRequests, StandingRequestsFit DEF ReleasesFit
<1>3. ASSUME NEW q \in People, PersonStep(q) PROVE ReleasesFit'
  BY <1>3, PersonMovesOneRequest, MovingRequestFits, StandingRequestsFit
  DEF ReleasesFit
<1>4. QED  BY <1>1, <1>2, <1>3 DEF Next

(* Every step but a release leaves alone what the candidate has been shown. *)
LEMMA OnlyReleasesDisclose ==
  ASSUME IInv, [Next]_vars
  PROVE  \/ Undisclosed
         \/ \E q \in People : /\ Release(q)
                              /\ req[q].list.draft \in With("draft")
<1>1. CASE reports' = reports
  BY <1>1, SameReports DEF Undisclosed
<1>2. ASSUME NEW w \in Workers, WorkerStep(w), reports' # reports
      PROVE  Undisclosed
  <2>1. WriteDraft(w)
    BY <1>2
    DEF WorkerStep, Claim, Evaluate, Fail, CheckHeld, StoreRecord,
        ListForDraft, HandOver, WorkerDies, WorkerReads
  <2>2. /\ job[w].list \in Listings /\ job[w].text \in Texts
        /\ ListFits(job[w].list)
    BY <2>1 DEF IInv, TypeOK, Jobs, WriteDraft, Work, JobFits
  <2>3. CASE job[w].list.draft # 0
    <3>1. reports' = Redrafted(job[w].list.draft, job[w].text)
      BY <2>1, <2>3 DEF WriteDraft
    <3>2. QED  BY <2>2, <3>1, RedraftMoves DEF IInv
  <2>4. CASE job[w].list.draft = 0
    <3>1. /\ reports' = Inserted(job[w].list, job[w].text)
          /\ job[w].list.top < MaxVersion
      BY <2>1, <2>4 DEF WriteDraft
    <3>2. QED  BY <2>2, <2>4, <3>1, InsertMoves DEF IInv
  <2>5. QED  BY <2>3, <2>4
<1>3. ASSUME NEW q \in People, PersonStep(q), reports' # reports, ~Release(q)
      PROVE  Undisclosed
  <2>1. /\ req[q] \in Requests /\ ListFits(req[q].list)
        /\ req[q].list \in Listings /\ req[q].text \in Texts \cup {None}
        /\ req[q].list.text \in Texts \cup {None}
    BY DEF IInv, TypeOK, ReqFits, Requests, Listings
  <2>2. CASE SaveDraft(q) /\ req[q].list.draft # 0
    BY <2>1, <2>2, RedraftMoves DEF IInv, SaveDraft
  <2>3. CASE SaveDraft(q) /\ req[q].list.draft = 0
    BY <2>1, <2>3, InsertMoves DEF IInv, SaveDraft
  <2>4. CASE PrepareRelease(q)
    BY <2>1, <2>4, RedraftMoves DEF PrepareRelease, IInv
  <2>5. QED
    BY <1>3, <2>2, <2>3, <2>4
    DEF PersonStep, Arrive, ReadRun, ListReports, CheckDraft, ReadLatest,
        RecordDecision, Leave, PersonReads
<1>4. QED  BY <1>1, <1>2, <1>3 DEF Next, vars, Release

(* If no draft is rewritten between the check of its release and the       *)
(* release, a candidate on a reviewed task is shown sound reports only:    *)
(* the release by id alone is the one way past validateForRelease.         *)
THEOREM SoundIsReleasedUnlessRewritten ==
  Spec /\ [][~Rewritten]_vars => []SoundIsReleased
<1>1. Init => ReleasesFit /\ SoundIsReleased
  BY NoRequestReleases
  DEF Init, ReleasesFit, SoundIsReleased, Shown, NoReport, ReleaseFits,
      NoRequest
<1>2. ASSUME IInv, ReleasesFit, [Next]_vars, [~Rewritten]_vars
      PROVE  ReleasesFit'
  <2>1. CASE vars' = vars
    BY <1>2, <2>1 DEF vars, ReleasesFit, ReleaseFits
  <2>2. CASE ~Rewritten
    BY <1>2, <2>2, ReleasesKeepFitting
  <2>3. QED  BY <1>2, <2>1, <2>2
<1>3. ASSUME IInv, ReleasesFit, SoundIsReleased, [Next]_vars
      PROVE  SoundIsReleased'
  <2>1. origin' = origin
    BY <1>3, WorkersLeaveRequests, PersonMovesOneRequest DEF Next, vars
  <2>2. CASE Undisclosed
    BY <1>3, <2>1, <2>2 DEF SoundIsReleased, Undisclosed
  <2>3. ASSUME NEW q \in People, Release(q),
               req[q].list.draft \in With("draft"),
               origin = "fydell_reviewed"
        PROVE  \A v \in Shown' : reports'[v].text \in Sound
    <3> DEFINE d == req[q].list.draft
    <3>1. /\ req[q].kind = "release" /\ req[q].pc = "release"
          /\ reports[d].text \in Sound
      BY <1>3, <2>3 DEF Release, ReleasesFit, ReleaseFits
    <3>2. /\ Shown = 1..(d - 1) /\ Shown' = 1..d
          /\ d \in Versions
          /\ \A u \in Versions : reports'[u].text = reports[u].text
      BY <1>3, <2>3, ReleaseMoves DEF Release, IInv, With
    <3>3. QED  BY <1>3, <2>3, <3>1, <3>2 DEF SoundIsReleased, Versions
  <2>4. QED
    BY <1>3, <2>1, <2>2, <2>3, OnlyReleasesDisclose DEF SoundIsReleased
<1>4. QED  BY <1>1, <1>2, <1>3, ReportsInvariant, PTL DEF Spec
-----------------------------------------------------------------------------
(* What an authored report says *)

(* A second execution of the tests ends otherwise than the recorded one,   *)
(* and its record is not stored.                                           *)
Ignored ==
  \E w \in Workers : StoreRecord(w) /\ record # None /\ record # job[w].text

(* Every version of an authored report, and the results its run hands to   *)
(* review, say what the stored record of the execution says                *)
(* (evaluation-run.ts 113-145).                                            *)
AuthoredIsRecorded ==
  origin = "employer_authored" =>
    /\ \A v \in Present : reports[v].text = record
    /\ Finished => run.results = record

JobIsRecorded(j) == j.pc \in {"list", "write", "finish"} => j.text = record

RequestIsRecorded(r) ==
  r.kind # "save" /\ (r.pc \in {"run", "prepare"} => r.list.text = record)

(* What the record says is what workers and requests are about to write.   *)
WritersAreRecorded ==
  origin = "employer_authored" =>
    /\ \A w \in Workers : JobIsRecorded(job[w])
    /\ \A q \in People : RequestIsRecorded(req[q])

LEMMA TextsAfterRedraft ==
  ASSUME TypeOK, NEW v, NEW text, reports' = Redrafted(v, text),
         \A u \in Present : reports[u].text = text
  PROVE  \A u \in Present' : reports'[u].text = text
<1>1. \A u \in Versions : /\ reports'[u].status = reports[u].status
                          /\ \/ reports'[u].text = text
                             \/ reports'[u].text = reports[u].text
  BY DEF TypeOK, Redrafted, With, Rows
<1>2. QED  BY <1>1 DEF Present

LEMMA TextsAfterInsert ==
  ASSUME TypeOK, NEW list, NEW text, reports' = Inserted(list, text),
         \A u \in Present : reports[u].text = text
  PROVE  \A u \in Present' : reports'[u].text = text
<1> DEFINE new == [status |-> "draft", text |-> text,
                   supersedes |-> list.released]
<1>1. new.text = text
  OBVIOUS
<1>2. \A u \in Versions : reports'[u] = new \/ reports'[u] = reports[u]
  BY DEF TypeOK, Inserted
<1>3. QED  BY <1>1, <1>2 DEF Present

LEMMA TextsAfterRelease ==
  ASSUME TypeOK, NEW v \in With("draft"), reports' = Released(v),
         NEW text, \A u \in Present : reports[u].text = text
  PROVE  \A u \in Present' : reports'[u].text = text
<1>1. \A u \in Versions :
        /\ reports'[u].text = reports[u].text
        /\ reports'[u].status # "absent" => reports[u].status # "absent"
  BY DEF Released, With, TypeOK, Rows
<1>2. QED  BY <1>1 DEF Present

(* The record of a run is stored once. *)
LEMMA RecordStays ==
  ASSUME [Next]_vars
  PROVE  origin' = origin /\ (record # None => record' = record)
<1>1. ASSUME NEW w \in Workers, WorkerStep(w)
      PROVE  origin' = origin /\ (record # None => record' = record)
  BY <1>1 DEF WorkerStep, Claim, Evaluate, Fail, CheckHeld, StoreRecord,
              ListForDraft, WriteDraft, HandOver, WorkerDies, WorkerReads
<1>2. ASSUME NEW q \in People, PersonStep(q)
      PROVE  origin' = origin /\ record' = record
  BY <1>2, Zenon
  DEF PersonStep, Arrive, ReadRun, ListReports, SaveDraft, CheckDraft,
      PrepareRelease, Release, ReadLatest, RecordDecision, Leave, PersonReads
<1>3. QED  BY <1>1, <1>2 DEF Next, vars

(* Where there is a report, there is a record, and it stays. *)
LEMMA ReportsAreOnRecord ==
  ASSUME IInv, Worded, AuthoredIsRecorded, WritersAreRecorded, [Next]_vars,
         origin = "employer_authored"
  PROVE  /\ Present # {} => record' = record
         /\ \A w \in Workers :
              job[w].pc \in {"list", "write", "finish"} => record' = record
         /\ \A q \in People :
              req[q].pc \in {"run", "prepare"} => record' = record
         /\ Finished => record' = record
<1>1. Present # {} => record # None
  BY DEF Worded, AuthoredIsRecorded
<1>2. \A w \in Workers :
        job[w].pc \in {"list", "write", "finish"} => record # None
  BY DEF IInv, JobFits
<1>3. \A q \in People : req[q].pc \in {"run", "prepare"} => record # None
  BY DEF Worded, RequestIsWorded, WritersAreRecorded, RequestIsRecorded
<1>4. Finished => record # None
  BY DEF IInv, ReviewHasSomething
<1>5. QED  BY <1>1, <1>2, <1>3, <1>4, RecordStays

LEMMA WorkerKeepsRecord ==
  ASSUME IInv, Worded, AuthoredIsRecorded, WritersAreRecorded,
         NEW w \in Workers, WorkerStep(w), Next, ~Ignored,
         origin = "employer_authored"
  PROVE  AuthoredIsRecorded' /\ WritersAreRecorded'
<1>1. /\ job \in [Workers -> Jobs] /\ job[w] \in Jobs /\ JobFits(job[w])
      /\ JobIsRecorded(job[w]) /\ run.status \in
           {"waiting", "running", "human_review", "ready"}
  BY DEF IInv, TypeOK, WritersAreRecorded
<1>2. req' = req /\ origin' = origin
  BY WorkersLeaveRequests
<1>3. \A q \in People : RequestIsRecorded(req[q])'
  BY <1>2, ReportsAreOnRecord DEF WritersAreRecorded, RequestIsRecorded
<1>4. \A u \in Workers \ {w} : job'[u] = job[u]
  BY <1>1
  DEF WorkerStep, Claim, Evaluate, Fail, CheckHeld, StoreRecord, ListForDraft,
      WriteDraft, HandOver, WorkerDies, Step, Stop
<1>5. JobIsRecorded(job[w])'
  <2>1. CASE Stop(w)
    BY <1>1, <2>1 DEF Stop, NoJob, JobIsRecorded
  <2>2. CASE Claim(w) \/ Evaluate(w) \/ (CheckHeld(w) /\ ~Stop(w))
    <3>1. job'[w].pc \in {"evaluate", "held", "record"}
      <4>1. CASE Evaluate(w)
        <5>1. PICK text \in Texts :
                job' = [job EXCEPT ![w].text = text, ![w].pc = "held"]
          BY <4>1 DEF Evaluate
        <5>2. QED  BY <1>1, <5>1 DEF Jobs
      <4>2. CASE Claim(w) \/ (CheckHeld(w) /\ ~Stop(w))
        BY <1>1, <4>2 DEF Claim, CheckHeld, Step, Jobs
      <4>3. QED  BY <2>2, <4>1, <4>2
    <3>2. QED  BY <3>1 DEF JobIsRecorded
  <2>3. CASE StoreRecord(w)
    <3>1. job'[w].pc = "list" /\ job'[w].text = job[w].text
      BY <1>1, <2>3 DEF StoreRecord, Step, Jobs
    <3>2. record' = job[w].text
      BY <2>3 DEF StoreRecord, Ignored
    <3>3. QED  BY <3>1, <3>2 DEF JobIsRecorded
  <2>4. CASE ListForDraft(w) \/ WriteDraft(w)
    <3>1. /\ job'[w].text = job[w].text
          /\ job[w].pc \in {"list", "write"}
      BY <1>1, <2>4 DEF ListForDraft, WriteDraft, Work, Step, Jobs
    <3>2. record' = record
      BY <3>1, ReportsAreOnRecord
    <3>3. QED  BY <1>1, <3>1, <3>2 DEF JobIsRecorded
  <2>5. QED
    BY <2>1, <2>2, <2>3, <2>4
    DEF WorkerStep, Fail, HandOver, WorkerDies
<1>6. \A u \in Workers : JobIsRecorded(job[u])'
  <2>1. SUFFICES ASSUME NEW u \in Workers, u # w PROVE JobIsRecorded(job[u])'
    BY <1>5
  <2>2. job'[u] = job[u]
    BY <1>4, <2>1
  <2>3. QED
    BY <2>1, <2>2, ReportsAreOnRecord DEF WritersAreRecorded, JobIsRecorded
<1>7. \A v \in Present' : reports'[v].text = record'
  <2>1. CASE WriteDraft(w)
    <3>1. /\ job[w].pc = "write" /\ record' = record
          /\ \/ reports' = Redrafted(job[w].list.draft, job[w].text)
             \/ reports' = Inserted(job[w].list, job[w].text)
      BY <2>1 DEF WriteDraft, Work
    <3>2. job[w].text = record
      BY <1>1, <3>1 DEF JobIsRecorded
    <3>3. QED
      BY <3>1, <3>2, TextsAfterRedraft, TextsAfterInsert
      DEF IInv, AuthoredIsRecorded
  <2>2. CASE ~WriteDraft(w)
    <3>1. reports' = reports
      BY <2>2
      DEF WorkerStep, Claim, Evaluate, Fail, CheckHeld, StoreRecord,
          ListForDraft, HandOver, WorkerDies, WorkerReads
    <3>2. QED
      BY <3>1, SameReports, ReportsAreOnRecord DEF AuthoredIsRecorded
  <2>3. QED  BY <2>1, <2>2
<1>8. Finished' => run'.results = record'
  <2>1. CASE run' = run
    BY <2>1, ReportsAreOnRecord DEF Finished, AuthoredIsRecorded
  <2>2. CASE HandOver(w) /\ Holds(w)
    <3>1. job[w].pc = "finish" /\ run'.results = job[w].text
      BY <2>2 DEF HandOver, Work
    <3>2. QED
      BY <1>1, <3>1, ReportsAreOnRecord DEF JobIsRecorded
  <2>3. CASE Claim(w) \/ (Fail(w) /\ Holds(w))
    <3>1. run'.status \in {"running", "waiting"}
      BY <1>1, <2>3 DEF Claim, Fail, IInv, TypeOK
    <3>2. QED  BY <3>1 DEF Finished
  <2>4. QED
    BY <2>1, <2>2, <2>3
    DEF WorkerStep, Evaluate, Fail, CheckHeld, StoreRecord, ListForDraft,
        WriteDraft, HandOver, WorkerDies, WorkerReads
<1>9. QED
  BY <1>3, <1>6, <1>7, <1>8 DEF AuthoredIsRecorded, WritersAreRecorded

LEMMA PersonKeepsRecord ==
  ASSUME IInv, Worded, AuthoredIsRecorded, WritersAreRecorded,
         NEW q \in People, PersonStep(q), Next,
         origin = "employer_authored"
  PROVE  AuthoredIsRecorded' /\ WritersAreRecorded'
<1>1. /\ req \in [People -> Requests] /\ req[q] \in Requests
      /\ RequestIsRecorded(req[q]) /\ RequestIsWorded(req[q])
  BY DEF IInv, TypeOK, WritersAreRecorded, Worded
<1>2. job' = job /\ record' = record /\ origin' = origin
  BY Zenon
  DEF PersonStep, Arrive, ReadRun, ListReports, SaveDraft, CheckDraft,
      PrepareRelease, Release, ReadLatest, RecordDecision, Leave, PersonReads
<1>3. ~SaveDraft(q)
  BY <1>1 DEF SaveDraft, RequestIsWorded, RequestIsRecorded
<1>4. \A w \in Workers : JobIsRecorded(job[w])'
  BY <1>2 DEF WritersAreRecorded, JobIsRecorded
<1>5. RequestIsRecorded(req[q])'
  <2>1. CASE End(q)
    BY <1>1, <2>1 DEF End, NoRequest, RequestIsRecorded
  <2>2. CASE Arrive(q)
    <3>1. PICK kind \in {"publish", "decide"} :
            req' = [req EXCEPT ![q].kind = kind, ![q].pc = "list"]
      BY <2>2 DEF Arrive
    <3>2. req'[q].kind = kind /\ req'[q].pc = "list"
      BY <1>1, <3>1 DEF Requests
    <3>3. QED  BY <3>2 DEF RequestIsRecorded
  <2>3. CASE ListReports(q) /\ ~End(q)
    <3>1. /\ req'[q].kind = req[q].kind /\ req'[q].list = Listing
          /\ req[q].kind # "save"
          /\ req[q].kind \in {"release", "publish", "decide"}
          /\ req[q].kind = "publish" => Listing.text = record
          /\ req[q].kind # "publish" => req'[q].pc \in {"check", "latest"}
      BY <1>1, <2>3, ListedRequest
      DEF RequestIsRecorded, AuthoredIsRecorded, End
    <3>2. QED  BY <1>2, <3>1 DEF RequestIsRecorded
  <2>4. CASE ReadRun(q) /\ ~End(q)
    <3>1. /\ req'[q].kind = req[q].kind /\ req'[q].list = req[q].list
          /\ req[q].pc = "run"
      BY <1>1, <2>4 DEF ReadRun, Go, Requests
    <3>2. QED  BY <1>1, <1>2, <3>1 DEF RequestIsRecorded
  <2>5. CASE \/ CheckDraft(q) /\ ~End(q)
             \/ PrepareRelease(q) \/ ReadLatest(q)
    <3>1. req'[q].kind = req[q].kind /\ req'[q].pc \in {"release", "insert"}
      BY <1>1, <2>5 DEF CheckDraft, PrepareRelease, ReadLatest, Go, Requests
    <3>2. QED  BY <1>1, <3>1 DEF RequestIsRecorded
  <2>6. QED
    BY <1>3, <2>1, <2>2, <2>3, <2>4, <2>5
    DEF PersonStep, Release, RecordDecision, Leave
<1>6. \A p \in People : RequestIsRecorded(req[p])'
  <2>1. SUFFICES ASSUME NEW p \in People, p # q PROVE RequestIsRecorded(req[p])'
    BY <1>5
  <2>2. req'[p] = req[p]
    BY <2>1, PersonMovesOneRequest
  <2>3. QED  BY <1>2, <2>1, <2>2 DEF WritersAreRecorded, RequestIsRecorded
<1>7. \A v \in Present' : reports'[v].text = record'
  <2>1. CASE PrepareRelease(q)
    <3>1. /\ req[q].list.text = record
          /\ reports' = Redrafted(req[q].list.draft, record)
      BY <1>1, <2>1 DEF PrepareRelease, RequestIsRecorded
    <3>2. QED
      BY <1>2, <3>1, TextsAfterRedraft DEF IInv, AuthoredIsRecorded
  <2>2. CASE Release(q) /\ req[q].list.draft \in With("draft")
    <3>1. reports' = Released(req[q].list.draft)
      BY <2>2 DEF Release
    <3>2. QED
      BY <1>2, <2>2, <3>1, TextsAfterRelease DEF IInv, AuthoredIsRecorded
  <2>3. CASE reports' = reports
    BY <1>2, <2>3, SameReports DEF AuthoredIsRecorded
  <2>4. QED
    BY <1>3, <2>1, <2>2, <2>3
    DEF PersonStep, Arrive, ReadRun, ListReports, CheckDraft, Release,
        ReadLatest, RecordDecision, Leave, PersonReads
<1>8. Finished' => run'.results = record'
  <2>1. CASE run' = run
    BY <1>2, <2>1 DEF Finished, AuthoredIsRecorded
  <2>2. CASE Release(q) /\ run.status = "human_review"
    <3>1. run'.results = run.results /\ Finished
      BY <2>2 DEF Release, Finished, IInv, TypeOK
    <3>2. QED  BY <1>2, <3>1 DEF AuthoredIsRecorded
  <2>3. QED
    BY <1>3, <2>1, <2>2
    DEF PersonStep, Arrive, ReadRun, ListReports, CheckDraft, PrepareRelease,
        Release, ReadLatest, RecordDecision, Leave, PersonReads
<1>9. QED
  BY <1>4, <1>6, <1>7, <1>8 DEF AuthoredIsRecorded, WritersAreRecorded

(* If no second execution of the tests ends otherwise than the recorded    *)
(* one, every version of an authored report and the run's results say what *)
(* the record says, whoever died, came late or lost a race: the ignored    *)
(* insert is the one way for a report to depart from its record.           *)
THEOREM AuthoredIsRecordedUnlessIgnored ==
  Spec /\ [][~Ignored]_vars => []AuthoredIsRecorded
<1>1. Init => Worded /\ AuthoredIsRecorded /\ WritersAreRecorded
  BY DEF Init, Worded, RequestIsWorded, AuthoredIsRecorded, Present, Finished,
         WritersAreRecorded, JobIsRecorded, RequestIsRecorded, NoReport,
         NoRequest, NoJob
<1>2. IInv /\ Worded /\ [Next]_vars => Worded'
  BY WordedKeeps
<1>3. ASSUME IInv, Worded, AuthoredIsRecorded, WritersAreRecorded,
             [Next]_vars, [~Ignored]_vars
      PROVE  AuthoredIsRecorded' /\ WritersAreRecorded'
  <2>1. CASE UNCHANGED vars
    <3>1. AuthoredIsRecorded'
      BY <1>3, <2>1, SameReports DEF vars, AuthoredIsRecorded, Finished
    <3>2. WritersAreRecorded'
      BY <1>3, <2>1
      DEF vars, WritersAreRecorded, JobIsRecorded, RequestIsRecorded
    <3>3. QED  BY <3>1, <3>2
  <2>2. CASE Next /\ ~Ignored /\ origin = "employer_authored"
    BY <1>3, <2>2, WorkerKeepsRecord, PersonKeepsRecord DEF Next
  <2>3. CASE origin # "employer_authored"
    BY <1>3, <2>3, RecordStays DEF AuthoredIsRecorded, WritersAreRecorded
  <2>4. QED  BY <1>3, <2>1, <2>2, <2>3
<1>4. QED  BY <1>1, <1>2, <1>3, ReportsInvariant, PTL DEF Spec
=============================================================================
