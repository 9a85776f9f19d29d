---------------------------- MODULE WebUiProofs -----------------------------
(***************************************************************************)
(* Theorems about the web interface for any number of servers, runs,       *)
(* requests, clicks and files: the browser of the dialog that starts a     *)
(* restore shows its directory, a command stops only the run it names, and *)
(* the pages of a list of reports fit together.                            *)
(***************************************************************************)
EXTENDS FiniteSetTheorems, SequenceTheorems, WebUi, TLAPS

-----------------------------------------------------------------------------
(* Pages of files. *)

\* The beginning of a path is a path.
LEMMA Beginning ==
  ASSUME NEW p \in Seq(Nat), NEW n \in 0..Len(p)
  PROVE  /\ SubSeq(p, 1, n) \in Seq(Nat)
         /\ Len(SubSeq(p, 1, n)) = n
         /\ \A i \in 1..n : SubSeq(p, 1, n)[i] = p[i]
<1>1. 1 \in Int /\ n \in Int /\ \A i \in 1..n : p[i] \in Nat
  OBVIOUS
<1> QED BY <1>1, SubSeqProperties

\* What comes before a directory in the order of local_path comes before all that is in it.
LEMMA BeforeChild ==
  ASSUME NEW p \in Seq(Nat), NEW q \in Seq(Nat), Before(q, Parent(p))
  PROVE  Before(q, p)
<1>1. CASE p = <<>>
  <2>1. Parent(p) = p
    BY <1>1 DEF Parent
  <2> QED BY <2>1
<1>2. CASE p # <<>>
  <2> DEFINE r == Parent(p)
  <2>1. /\ Len(p) \in Nat \ {0} /\ r \in Seq(Nat) /\ Len(r) = Len(p) - 1
        /\ \A i \in 1..Len(r) : r[i] = p[i]
    <3>1. Len(p) \in Nat \ {0} /\ \A i \in 1..Len(p) : p[i] \in Nat
      BY <1>2
    <3>2. \A i \in 1..(Len(p) - 1) : p[i] \in Nat
      BY <3>1
    <3>3. Len(p) - 1 \in 0..Len(p)
      BY <3>1
    <3> HIDE DEF r
    <3>4. r \in Seq(Nat) /\ Len(r) = Len(p) - 1 /\ \A i \in 1..(Len(p) - 1) : r[i] = p[i]
      BY <3>3, Beginning DEF r, Parent
    <3> QED BY <3>1, <3>4
  <2>2. ASSUME NEW n \in 0..Len(r) PROVE SubSeq(r, 1, n) = SubSeq(p, 1, n)
    BY <2>1, <2>2
  <2>3. CASE Len(q) < Len(r) /\ q = SubSeq(r, 1, Len(q))
    <3>1. Len(q) \in 0..Len(r)
      BY <2>1, <2>3
    <3>2. q = SubSeq(p, 1, Len(q))
      BY <2>2, <2>3, <3>1
    <3> HIDE DEF r
    <3> QED BY <2>1, <2>3, <3>2 DEF Before
  <2>4. CASE \E i \in 1..Len(q) : /\ i <= Len(r) /\ q[i] < r[i]
                                 /\ SubSeq(q, 1, i - 1) = SubSeq(r, 1, i - 1)
    <3>1. PICK i \in 1..Len(q) : /\ i <= Len(r) /\ q[i] < r[i]
                                 /\ SubSeq(q, 1, i - 1) = SubSeq(r, 1, i - 1)
      BY <2>4
    <3> HIDE DEF r
    <3>2. i - 1 \in 0..Len(r) /\ i \in 1..Len(r)
      BY <2>1, <3>1
    <3>3. SubSeq(q, 1, i - 1) = SubSeq(p, 1, i - 1)
      BY <2>2, <3>1, <3>2
    <3>4. i <= Len(p) /\ q[i] < p[i]
      BY <2>1, <3>1, <3>2
    <3> QED BY <3>1, <3>3, <3>4 DEF Before
  <2> QED BY <2>3, <2>4 DEF Before
<1> QED BY <1>1, <1>2

\* A run backed up finitely many paths.
LEMMA TreeFinite ==
  ASSUME NEW run
  PROVE  IsFiniteSet(Tree(run)) /\ Tree(run) \subseteq Seq(Nat)
<1> DEFINE G == {g \in Files : g.run = run}
<1>1. IsFiniteSet(G)
  BY PageAssumption, FS_Subset
<1>2. Tree(run) = {f.path : f \in G}
  BY DEF Tree
<1>3. IsFiniteSet({f.path : f \in G})
  <2> DEFINE T == {f.path : f \in G}
             F == [f \in G |-> f.path]
  <2>1. F \in Surjection(G, T)
    BY DEF Surjection
  <2>2. ExistsSurjection(G, T)
    BY <2>1 DEF ExistsSurjection
  <2> HIDE DEF G, T
  <2>3. IsFiniteSet(T)
    BY <1>1, <2>1, FS_Surjection, Zenon
  <2> QED BY <2>3 DEF T
<1>4. Tree(run) \subseteq Seq(Nat)
  BY <1>2, PageAssumption
<1> QED BY <1>2, <1>3, <1>4

\* A first page has with a path also its parent, if the run has the parent.
LEMMA PageHasParents ==
  ASSUME NEW run, NEW p \in FilePage(run, <<>>), Parent(p) \in Tree(run)
  PROVE  Parent(p) \in FilePage(run, <<>>)
<1> DEFINE C(r) == {q \in Tree(run) : Before(q, r)}
<1>1. FilePage(run, <<>>) = {r \in Tree(run) : Cardinality(C(r)) < FileLimit}
  BY DEF FilePage
<1>2. p \in Tree(run) /\ Cardinality(C(p)) < FileLimit
  BY <1>1
<1>3. C(Parent(p)) \subseteq C(p)
  BY <1>2, TreeFinite, BeforeChild
<1>4. IsFiniteSet(C(p)) /\ IsFiniteSet(C(Parent(p)))
  BY TreeFinite, FS_Subset
<1> HIDE DEF C
<1>5. Cardinality(C(Parent(p))) <= Cardinality(C(p))
  BY <1>3, <1>4, FS_Subset
<1>6. Cardinality(C(Parent(p))) \in Nat /\ Cardinality(C(p)) \in Nat /\ FileLimit \in Nat
  BY <1>4, FS_CardinalityType, PageAssumption
<1>7. Cardinality(C(Parent(p))) < FileLimit
  BY <1>2, <1>5, <1>6
<1> QED BY <1>1, <1>7

\* What loadDir() shows of a page is what the directory holds, as far as it is on the page:
\* at the roots the parents that the page lacks are those that the run lacks.
LEMMA EntriesAreHeld ==
  ASSUME NEW run, NEW path
  PROVE  Entries(run, path) = Holds(run, path) \cap FilePage(run, path)
<1>1. CASE path = <<>>
  <2>1. FilePage(run, <<>>) \subseteq Tree(run)
    BY DEF FilePage
  <2>2. Entries(run, path) = {p \in FilePage(run, <<>>) : Parent(p) \notin FilePage(run, <<>>)}
    BY <1>1 DEF Entries
  <2>3. Holds(run, path) = {p \in Tree(run) : Parent(p) \notin Tree(run)}
    BY <1>1 DEF Holds
  <2> QED BY <1>1, <2>1, <2>2, <2>3, PageHasParents
<1>2. CASE path # <<>>
  <2>1. FilePage(run, path) \subseteq {p \in Tree(run) : Parent(p) = path}
    BY <1>2 DEF FilePage
  <2> QED BY <1>2, <2>1 DEF Entries, Holds
<1> QED BY <1>1, <1>2

-----------------------------------------------------------------------------
(* The browser of the dialog that starts a restore. *)

\* The components of the dialog.
Fields ==
  {"sourceJobs", "sourceLoading", "sourceJobId", "auto", "allFiles", "cwd", "stack", "entries",
   "browsing", "lists", "selected", "submitting", "late"}

\* Requests for a listing, of any runs and any paths.
Requests(R, P) == [run : R, path : P, late : BOOLEAN]

\* The dialog has its components, and its requests are a sequence of requests.
DialogOK(d) == DOMAIN d = Fields /\ \E R, P : d.lists \in Seq(Requests(R, P))

\* The last listing that was requested is the one of the current directory of the chosen
\* run, and so is what is shown once every request was answered, unless that came late.
Follows(d) ==
  IF Len(d.lists) = 0
  THEN d.late \/ d.entries = Entries(d.sourceJobId, d.cwd)
  ELSE LET l == d.lists[Len(d.lists)] IN l.late \/ (l.run = d.sourceJobId /\ l.path = d.cwd)

\* The dialog shows files of a run.
Browses(d) == ~d.allFiles /\ d.sourceJobId # 0

BrowserInv == DialogOK(start) /\ (IsOpen /\ Browses(start) => Follows(start))

\* loadDir() of the current directory.
LEMMA LoadDirFollows ==
  ASSUME NEW d, DialogOK(d), NEW path, path = d.cwd
  PROVE  /\ DialogOK(LoadDir(d, path))
         /\ Browses(LoadDir(d, path)) => Follows(LoadDir(d, path))
<1>1. CASE d.sourceJobId = 0
  BY <1>1 DEF LoadDir, Browses
<1>2. CASE d.sourceJobId # 0
  <2> DEFINE l == [run |-> d.sourceJobId, path |-> path, late |-> FALSE]
             e == LoadDir(d, path)
  <2>1. PICK R, P : d.lists \in Seq(Requests(R, P))
    BY DEF DialogOK
  <2>2. /\ DOMAIN e = Fields
        /\ e.lists = Append(d.lists, l)
        /\ e.sourceJobId = d.sourceJobId /\ e.cwd = d.cwd
    BY <1>2 DEF DialogOK, LoadDir, Fields
  <2>r. PICK R2, P2 : R2 = R \cup {d.sourceJobId} /\ P2 = P \cup {path}
    OBVIOUS
  <2>s. Requests(R, P) \subseteq Requests(R2, P2) /\ l \in Requests(R2, P2)
    BY <2>r DEF Requests
  <2>3. e.lists \in Seq(Requests(R2, P2)) /\ Len(e.lists) # 0 /\ e.lists[Len(e.lists)] = l
    <3> HIDE DEF l, e
    <3> QED BY <2>1, <2>2, <2>s
  <2>4. l.run = d.sourceJobId /\ l.path = d.cwd
    OBVIOUS
  <2> HIDE DEF l, e
  <2>5. DialogOK(e)
    BY <2>2, <2>3 DEF DialogOK
  <2>6. Follows(e)
    BY <2>2, <2>3, <2>4 DEF Follows
  <2> QED BY <2>5, <2>6 DEF e
<1> QED BY <1>1, <1>2

\* The effect that goes back to the roots, from any dialog.
LEMMA FromRootFollows ==
  ASSUME NEW d, DialogOK(d)
  PROVE  /\ DialogOK(FromRoot(d))
         /\ Browses(FromRoot(d)) => Follows(FromRoot(d))
<1>1. CASE d.allFiles
  BY <1>1 DEF FromRoot, Browses
<1>2. CASE ~d.allFiles
  <2> DEFINE e == [d EXCEPT !.entries = {}, !.stack = <<>>, !.cwd = <<>>]
  <2>1. DOMAIN e = Fields /\ e.lists = d.lists /\ e.cwd = <<>>
    BY DEF DialogOK, Fields
  <2>2. FromRoot(d) = LoadDir(e, <<>>)
    BY <1>2 DEF FromRoot
  <2> HIDE DEF e
  <2>3. DialogOK(e)
    BY <2>1 DEF DialogOK
  <2> QED BY <2>1, <2>2, <2>3, LoadDirFollows
<1> QED BY <1>1, <1>2

\* A step that leaves alone what the browser shows and awaits.
Same(d, e) ==
  /\ DOMAIN e = DOMAIN d /\ e.lists = d.lists /\ e.late = d.late /\ e.entries = d.entries
  /\ e.sourceJobId = d.sourceJobId /\ e.cwd = d.cwd /\ e.allFiles = d.allFiles

\* Such a step keeps what the invariant says.
LEMMA SameFollows ==
  ASSUME NEW d, NEW e, Same(d, e), DialogOK(d)
  PROVE  /\ DialogOK(e) /\ (Browses(e) <=> Browses(d)) /\ (Follows(e) <=> Follows(d))
<1>1. DialogOK(e)
  BY DEF Same, DialogOK
<1>2. Browses(e) <=> Browses(d)
  BY DEF Same, Browses
<1>3. Follows(e) <=> Follows(d)
  BY DEF Same, Follows
<1> QED BY <1>1, <1>2, <1>3

\* The same for the dialog before and after a step.
LEMMA SameKeeps ==
  ASSUME BrowserInv, Same(start, start'), IsOpen' => IsOpen
  PROVE  BrowserInv'
<1>1. DialogOK(start') /\ (Browses(start') <=> Browses(start)) /\ (Follows(start') <=> Follows(start))
  BY SameFollows DEF BrowserInv
<1> QED BY <1>1 DEF BrowserInv

\* After an answer the last request is the one it was before, or it is late.
LEMMA RemainingKnown ==
  ASSUME DialogOK(start), NEW i \in DOMAIN start.lists
  PROVE  /\ \E R, P : Remaining(i) \in Seq(Requests(R, P))
         /\ Len(Remaining(i)) = Len(start.lists) - 1
         /\ Len(start.lists) \in Nat \ {0}
         /\ Len(start.lists) > 1 =>
              \/ Remaining(i)[Len(Remaining(i))].late
              \/ /\ i # Len(start.lists)
                 /\ Remaining(i)[Len(Remaining(i))] = start.lists[Len(start.lists)]
<1> DEFINE L == start.lists
           M == Remaining(i)
           n == Len(L) - 1
<1>1. PICK R, P : L \in Seq(Requests(R, P))
  BY DEF DialogOK
<1>2. Len(L) \in Nat \ {0} /\ i \in 1..Len(L) /\ n \in Nat /\ n + 1 = Len(L)
  BY <1>1
<1>3. \A k \in 1..Len(L) : L[k] \in Requests(R, P)
  BY <1>1
<1>4. M = [k \in 1..n |-> IF k < i THEN [L[k] EXCEPT !.late = TRUE] ELSE L[k + 1]]
  BY DEF Remaining
<1> HIDE DEF L, M, n
<1>5. \A k \in 1..Len(L) : /\ [L[k] EXCEPT !.late = TRUE] \in Requests(R, P)
                           /\ [L[k] EXCEPT !.late = TRUE].late
  BY <1>3 DEF Requests
<1>6. \A k \in 1..n : k \in 1..Len(L) /\ k + 1 \in 1..Len(L)
  BY <1>2
<1>7. \A k \in 1..n : M[k] \in Requests(R, P)
  BY <1>3, <1>4, <1>5, <1>6
<1>8. M \in Seq(Requests(R, P)) /\ Len(M) = n
  <2>1. M \in [1..n -> Requests(R, P)]
    BY <1>4, <1>7
  <2>2. n \in Nat
    BY <1>2
  <2> QED BY <2>1, <2>2
<1>9. ASSUME Len(L) > 1
      PROVE  M[Len(M)].late \/ (i # Len(L) /\ M[Len(M)] = L[Len(L)])
  <2>0. n \in 1..n
    BY <1>2, <1>9
  <2>1. M[n] = IF n < i THEN [L[n] EXCEPT !.late = TRUE] ELSE L[n + 1]
    BY <1>4, <2>0
  <2>2. CASE n < i
    BY <1>5, <1>6, <1>8, <2>0, <2>1, <2>2
  <2>3. CASE ~(n < i)
    BY <1>2, <1>8, <2>1, <2>3
  <2> QED BY <2>2, <2>3
<1>10. \E R3, P3 : M \in Seq(Requests(R3, P3))
  BY <1>8
<1>11. Len(M) = Len(L) - 1
  BY <1>8 DEF n
<1> QED BY <1>2, <1>9, <1>10, <1>11 DEF L, M

\* A dialog after an answer to the request at i, which may be a failure.
Answered(i, e) ==
  /\ DOMAIN e = Fields /\ e.lists = Remaining(i)
  /\ e.sourceJobId = start.sourceJobId /\ e.cwd = start.cwd /\ e.allFiles = start.allFiles
  /\ \/ e.late
     \/ /\ e.late = start.lists[i].late
        /\ e.entries = Entries(start.lists[i].run, start.lists[i].path)

\* An answer to any of the requests under way keeps the browser in step.
LEMMA AnswerFollows ==
  ASSUME DialogOK(start), Browses(start) => Follows(start), NEW i \in DOMAIN start.lists,
         NEW e, Answered(i, e)
  PROVE  DialogOK(e) /\ (Browses(e) => Follows(e))
<1>1. e.lists = Remaining(i)
  BY DEF Answered
<1>2. DialogOK(e)
  BY <1>1, RemainingKnown DEF DialogOK, Answered
<1>3. ASSUME Browses(e) PROVE Follows(e)
  <2>1. Follows(start)
    BY <1>3 DEF Browses, Answered
  <2>2. Len(start.lists) \in Nat \ {0} /\ Len(e.lists) = Len(start.lists) - 1
    BY <1>1, RemainingKnown
  <2>a. PICK n \in Nat \ {0} : n = Len(start.lists)
    BY <2>2
  <2>b. n = 1 \/ n > 1
    BY <2>a
  <2>3. LET l == start.lists[Len(start.lists)]
        IN  l.late \/ (l.run = start.sourceJobId /\ l.path = start.cwd)
    BY <2>1, <2>2 DEF Follows
  <2>4. CASE Len(start.lists) = 1
    <3>1. Len(e.lists) = 0
      BY <2>2, <2>4
    <3>2. i = 1
      BY <2>4 DEF DialogOK
    <3>3. start.lists[1].late \/ (start.lists[1].run = e.sourceJobId /\ start.lists[1].path = e.cwd)
      BY <2>3, <2>4 DEF Answered
    <3>4. e.late \/ e.entries = Entries(e.sourceJobId, e.cwd)
      BY <3>2, <3>3 DEF Answered
    <3> QED BY <3>1, <3>4 DEF Follows
  <2>5. CASE Len(start.lists) > 1
    <3>a. n > 1
      BY <2>5, <2>a
    <3>b. n - 1 # 0
      BY <3>a
    <3>1. Len(e.lists) # 0
      BY <2>2, <2>a, <3>b
    <3>2. \/ e.lists[Len(e.lists)].late
          \/ e.lists[Len(e.lists)] = start.lists[Len(start.lists)]
      BY <1>1, <2>5, RemainingKnown
    <3>3. e.sourceJobId = start.sourceJobId /\ e.cwd = start.cwd
      BY DEF Answered
    <3> QED BY <2>3, <3>1, <3>2, <3>3 DEF Follows
  <2> QED BY <2>4, <2>5, <2>a, <2>b
<1> QED BY <1>2, <1>3

\* The page opens no dialog.
LEMMA AppKeepsDialogs ==
  ASSUME NextApp
  PROVE  modal' = modal
BY DEF NextApp, RunEffects, Tick, VersionAnswer, ServeList, ServeRestores, ServeCommand, RefreshDone,
       RefreshFailed, CommandDone, CommandFailed, RunEnds, OnSaveConn, OtherStart, OnStart, OnStop,
       OnStopRestore, OnRefresh, Press

\* The dialogs with reports do not open the one that starts a restore.
LEMMA ReportsKeepDialog ==
  ASSUME NextReports, IsOpen'
  PROVE  IsOpen
<1>1. ASSUME NEW kind \in Keys, OpenReports(kind) PROVE FALSE
  BY <1>1 DEF OpenReports, IsOpen
<1>2. ASSUME CloseReports PROVE FALSE
  BY <1>2 DEF CloseReports, IsOpen
<1>3. CASE ServePage \/ PageDone \/ PageFailed \/ LoadMore
  BY <1>3 DEF ServePage, PageDone, PageFailed, LoadMore, appVars, IsOpen
<1>4. ASSUME NEW i \in 1..MaxRuns, OpenDetail(i) \/ DetailDone(i) \/ DetailFailed(i) \/ OtherResume(i)
      PROVE  IsOpen
  BY <1>4 DEF OpenDetail, DetailDone, DetailFailed, OtherResume, appVars, IsOpen
<1>5. CASE BackToList \/ ConfigDone \/ ConfigFailed \/ \E t \in Targets : PickTarget(t)
  BY <1>5 DEF BackToList, ConfigDone, ConfigFailed, PickTarget, appVars, IsOpen
<1>6. CASE OnResume \/ ServeResume \/ ResumeFailed
  BY <1>6 DEF OnResume, ServeResume, ResumeFailed, appVars, IsOpen
<1>7. CASE ResumeDone
  BY <1>7 DEF ResumeDone, IsOpen
<1> QED BY <1>1, <1>2, <1>3, <1>4, <1>5, <1>6, <1>7 DEF NextReports

\* A dialog that is opened, and one that is closed, browses no run.
LEMMA NewDialog ==
  /\ DialogOK(FreshStart) /\ ~Browses(FreshStart)
  /\ DialogOK(ClosedStart) /\ ~Browses(ClosedStart)
<1>1. DOMAIN FreshStart = Fields /\ FreshStart.lists = <<>> /\ FreshStart.sourceJobId = 0
  BY DEF FreshStart, Fields
<1>2. DOMAIN ClosedStart = Fields /\ ClosedStart.lists = <<>> /\ ClosedStart.sourceJobId = 0
  BY <1>1 DEF ClosedStart, Fields
<1>3. <<>> \in Seq(Requests({}, {}))
  OBVIOUS
<1> QED BY <1>1, <1>2, <1>3 DEF DialogOK, Browses

\* The steps of the dialog.
LEMMA StartKeepsBrowser ==
  ASSUME BrowserInv, NextStart
  PROVE  BrowserInv'
<1>0. DialogOK(start) /\ DOMAIN start = Fields
  BY DEF BrowserInv, DialogOK
<1>f. ASSUME NEW d, DOMAIN d = Fields, d.lists = start.lists, start' = FromRoot(d)
      PROVE  BrowserInv'
  <2>1. DialogOK(d)
    BY <1>0, <1>f DEF DialogOK
  <2> QED BY <1>f, <2>1, FromRootFollows DEF BrowserInv
<1>l. ASSUME NEW d, DOMAIN d = Fields, d.lists = start.lists, start' = LoadDir(d, d.cwd)
      PROVE  BrowserInv'
  <2>1. DialogOK(d)
    BY <1>0, <1>l DEF DialogOK
  <2> QED BY <1>l, <2>1, LoadDirFollows DEF BrowserInv
<1>1. CASE OpenRestoreStart
  BY <1>1, NewDialog DEF OpenRestoreStart, BrowserInv
<1>2. CASE CloseRestoreStart
  BY <1>2, NewDialog DEF CloseRestoreStart, BrowserInv
<1>3. CASE SourcesDone
  <2> DEFINE items    == ReportPage(s, "backup", NoToken).items
             finished == SelectSeq(items, LAMBDA x : x.state = "finished")
  <2>1. PICK pick, n :
          LET d == [start EXCEPT !.sourceJobs = n, !.sourceLoading = FALSE,
                                 !.sourceJobId = pick, !.auto = pick]
          IN  start' = IF pick = start.sourceJobId THEN d ELSE FromRoot(d)
    <3> DEFINE q == IF finished # <<>> THEN Head(finished).run
                    ELSE IF items # <<>> THEN Head(items).run ELSE start.sourceJobId
    <3>1. LET d == [start EXCEPT !.sourceJobs = items, !.sourceLoading = FALSE,
                                 !.sourceJobId = q, !.auto = q]
          IN  start' = IF q = start.sourceJobId THEN d ELSE FromRoot(d)
      BY <1>3 DEF SourcesDone
    <3> HIDE DEF q, items
    <3> QED BY <3>1
  <2> DEFINE d == [start EXCEPT !.sourceJobs = n, !.sourceLoading = FALSE,
                                !.sourceJobId = pick, !.auto = pick]
  <2>2. DOMAIN d = Fields /\ d.lists = start.lists
    BY <1>0 DEF Fields
  <2>3. CASE pick = start.sourceJobId
    <3>1. start' = d
      BY <2>1, <2>3
    <3>2. Same(start, start')
      BY <1>0, <2>3, <3>1 DEF Same, Fields
    <3>3. modal' = modal
      BY <1>3 DEF SourcesDone, appVars
    <3> QED BY <3>2, <3>3, SameKeeps DEF IsOpen
  <2>4. CASE pick # start.sourceJobId
    <3>1. start' = FromRoot(d)
      BY <2>1, <2>4
    <3> HIDE DEF d
    <3> QED BY <1>f, <2>2, <3>1
  <2> QED BY <2>3, <2>4
<1>4. CASE SourcesFailed
  <2>1. Same(start, start')
    BY <1>0, <1>4 DEF SourcesFailed, Same, Fields
  <2> QED BY <1>4, <2>1, SameKeeps DEF SourcesFailed, appVars, IsOpen
<1>5. ASSUME NEW i \in 0..MaxRuns, SelectSource(i) PROVE BrowserInv'
  <2> DEFINE d == [start EXCEPT !.sourceJobId = i, !.auto = 0]
  <2>1. DOMAIN d = Fields /\ d.lists = start.lists
    BY <1>0 DEF Fields
  <2>2. start' = FromRoot(d)
    BY <1>5 DEF SelectSource
  <2> HIDE DEF d
  <2> QED BY <1>f, <2>1, <2>2
<1>6. CASE ToggleAllFiles
  <2> DEFINE d == [start EXCEPT !.allFiles = ~@]
  <2>1. DOMAIN d = Fields /\ d.lists = start.lists
    BY <1>0 DEF Fields
  <2>2. start' = FromRoot(d)
    BY <1>6 DEF ToggleAllFiles
  <2> HIDE DEF d
  <2> QED BY <1>f, <2>1, <2>2
<1>a. ASSUME NEW i \in DOMAIN start.lists, NEW e, Answered(i, e), start' = e, modal' = modal
      PROVE  BrowserInv'
  <2>1. CASE IsOpen
    <3>1. Browses(start) => Follows(start)
      BY <2>1 DEF BrowserInv
    <3>2. DialogOK(e) /\ (Browses(e) => Follows(e))
      BY <1>0, <1>a, <3>1, AnswerFollows
    <3> QED BY <1>a, <3>2 DEF BrowserInv
  <2>2. CASE ~IsOpen
    <3>1. DialogOK(e)
      BY <1>0, <1>a, RemainingKnown DEF Answered, DialogOK
    <3> QED BY <1>a, <2>2, <3>1 DEF BrowserInv, IsOpen
  <2> QED BY <2>1, <2>2
<1>7. ASSUME NEW i \in 1..MaxClicks, ListDone(i) PROVE BrowserInv'
  <2>1. i \in DOMAIN start.lists /\ modal' = modal
    BY <1>7 DEF ListDone, appVars
  <2>2. Answered(i, start')
    BY <1>0, <1>7 DEF ListDone, Listed, Answered, Fields
  <2> QED BY <1>a, <2>1, <2>2
<1>8. ASSUME NEW i \in 1..MaxClicks, ListFailed(i) PROVE BrowserInv'
  <2>1. i \in DOMAIN start.lists /\ modal' = modal
    BY <1>8 DEF ListFailed, appVars
  <2>2. Answered(i, start')
    BY <1>0, <1>8 DEF ListFailed, Listed, Answered, Fields
  <2> QED BY <1>a, <2>1, <2>2
<1>9. ASSUME NEW p \in Paths, EnterDir(p) PROVE BrowserInv'
  <2> DEFINE d == [start EXCEPT !.stack = Append(@, start.cwd), !.cwd = p]
  <2>1. DOMAIN d = Fields /\ d.lists = start.lists /\ d.cwd = p
    BY <1>0 DEF Fields
  <2>2. start' = LoadDir(d, p)
    BY <1>9 DEF EnterDir
  <2> HIDE DEF d
  <2> QED BY <1>l, <2>1, <2>2
<1>10. ASSUME NEW p \in Paths, ToggleSelect(p) PROVE BrowserInv'
  <2>1. Same(start, start')
    BY <1>0, <1>10 DEF ToggleSelect, Same, Fields
  <2> QED BY <1>10, <2>1, SameKeeps DEF ToggleSelect, appVars, IsOpen
<1>11. CASE GoUp
  <2> DEFINE q == Last(start.stack)
             d == [start EXCEPT !.stack = Front(@), !.cwd = q]
  <2>1. DOMAIN d = Fields /\ d.lists = start.lists /\ d.cwd = q
    <3> HIDE DEF q
    <3> QED BY <1>0 DEF Fields
  <2>2. start' = LoadDir(d, q)
    BY <1>11 DEF GoUp
  <2> HIDE DEF d, q
  <2> QED BY <1>l, <2>1, <2>2
<1>12. CASE RefreshDir
  <2>1. start' = LoadDir(start, start.cwd)
    BY <1>12 DEF RefreshDir
  <2> QED BY <1>0, <1>l, <2>1
<1>13. CASE OnSubmit
  <2>1. Same(start, start')
    BY <1>0, <1>13 DEF OnSubmit, Same, Fields
  <2> QED BY <1>13, <2>1, SameKeeps DEF OnSubmit, appVars, IsOpen
<1>14. CASE ServeSubmit
  <2>1. Same(start, start') /\ modal' = modal
    BY <1>14 DEF ServeSubmit, Same
  <2> QED BY <2>1, SameKeeps DEF IsOpen
<1>15. CASE SubmitDone
  <2>1. CASE IsOpen
    BY <1>15, <2>1, NewDialog DEF SubmitDone, BrowserInv
  <2>2. CASE ~IsOpen
    <3>1. Same(start, start') /\ modal' = modal
      BY <1>15, <2>2 DEF SubmitDone, Same
    <3> QED BY <3>1, SameKeeps DEF IsOpen
  <2> QED BY <2>1, <2>2
<1>16. CASE SubmitFailed
  <2>1. Same(start, start')
    BY <1>0, <1>16 DEF SubmitFailed, Same, Fields
  <2> QED BY <1>16, <2>1, SameKeeps DEF SubmitFailed, appVars, IsOpen
<1> QED BY <1>1, <1>2, <1>3, <1>4, <1>5, <1>6, <1>7, <1>8, <1>9, <1>10, <1>11, <1>12, <1>13, <1>14,
           <1>15, <1>16 DEF NextStart

\* Whatever the order in which listings are answered, once the last one was neither late nor
\* a failure the browser shows the current directory of the chosen run (loadDir, enterDir,
\* goUp and the effect that goes back to the roots).
THEOREM BrowserShowsItsDirectory == Spec => []ListingIsCurrent
<1>1. Init => BrowserInv
  BY NewDialog DEF Init, InitStart, BrowserInv
<1>2. BrowserInv /\ [Next]_vars => BrowserInv'
  <2> SUFFICES ASSUME BrowserInv, [Next]_vars PROVE BrowserInv'
    OBVIOUS
  <2>1. CASE UNCHANGED <<start, modal>>
    BY <2>1 DEF BrowserInv, IsOpen
  <2>2. CASE NextApp /\ UNCHANGED startVars
    BY <2>1, <2>2, AppKeepsDialogs DEF startVars
  <2>3. CASE Others /\ UNCHANGED startVars
    BY <2>1, <2>3 DEF Others, RunEnds, OtherStart, startVars
  <2>4. CASE NextReports /\ UNCHANGED startVars
    <3>1. Same(start, start') /\ (IsOpen' => IsOpen)
      BY <2>4, ReportsKeepDialog DEF startVars, Same
    <3> QED BY <3>1, SameKeeps
  <2>5. CASE NextStart
    BY <2>5, StartKeepsBrowser
  <2>6. CASE UNCHANGED vars
    BY <2>1, <2>6 DEF vars, appVars, startVars
  <2> QED BY <2>2, <2>3, <2>4, <2>5, <2>6 DEF Next
<1>3. BrowserInv => ListingIsCurrent
  <2> SUFFICES ASSUME BrowserInv, IsOpen, ~start.allFiles, start.lists = <<>>, ~start.late,
                      start.sourceJobId # 0
               PROVE  start.entries = Holds(start.sourceJobId, start.cwd)
                                        \cap FilePage(start.sourceJobId, start.cwd)
    BY DEF ListingIsCurrent
  <2>1. Len(start.lists) = 0
    OBVIOUS
  <2>2. start.entries = Entries(start.sourceJobId, start.cwd)
    BY <2>1 DEF BrowserInv, Browses, Follows
  <2> QED BY <2>2, EntriesAreHeld
<1> QED BY <1>1, <1>2, <1>3, PTL DEF Spec

-----------------------------------------------------------------------------
(* Commands to stop a run. *)

CallFields == {"op", "conn", "key", "run", "of", "list", "restores"}

\* What a server says of an active run names the run.
CardOK(card) == card.state \in Active => card.run # 0

\* What the page shows of an active run names the run and its server.
ShownOK(shown) == shown.state \in Active => shown.run # 0 /\ shown.from # None

\* A call goes to a server, and a command to stop names a run and its server.
CallOK(call) ==
  /\ DOMAIN call = CallFields
  /\ call.op # "none" => call.conn \in Conns
  /\ call.op = "stop" => call.run # 0 /\ call.of # None
  /\ CardOK(call.list) /\ CardOK(call.restores)

RequestOK(request) ==
  {"is", "conn"} \subseteq DOMAIN request /\ (request.is # "none" => request.conn \in Conns)

ServersOK == server \in [Conns -> Seq(Runs)]

CallsOK == DOMAIN calls = Slots /\ \A k \in Slots : CallOK(calls[k])

ShownBothOK == ShownOK(jobs) /\ ShownOK(restores)

CommandInv ==
  /\ ServersOK /\ conn \in Conns /\ CallsOK /\ ShownBothOK
  /\ RequestOK(resume) /\ RequestOK(submit)

\* What StopsNamedRun says of a step.
StopStep ==
  \A c \in Conns : \A i \in DOMAIN server[c] :
    server[c][i].state = "started" /\ server'[c][i].state = "stopping" =>
      \E k \in Slots : calls[k].op = "stop" /\ calls[k].run = i /\ calls[k].of = c

\* /backup/list and /restore/list name the run they report as active.
LEMMA CardIsOK ==
  ASSUME NEW q \in Seq(Runs), NEW type
  PROVE  CardOK(Card(q, type))
<1>1. CASE ActiveRuns(q, {type}) = {}
  BY <1>1 DEF Card, CardOK, Active
<1>2. CASE ActiveRuns(q, {type}) # {}
  <2>1. PICK i \in ActiveRuns(q, {type}) : Card(q, type) = [run |-> i, state |-> q[i].state]
    BY <1>2 DEF Card
  <2>2. i # 0
    BY DEF ActiveRuns
  <2> QED BY <2>1, <2>2 DEF CardOK
<1> QED BY <1>1, <1>2

\* A refresh.
LEMMA NewCallsOK ==
  /\ CallOK(NoCall)
  /\ \A c \in Conns : \A key : CallOK(Refresh(c, key))
<1>1. CardOK(Unasked)
  BY DEF CardOK, Unasked, Active
<1>2. /\ DOMAIN NoCall = CallFields /\ NoCall.op = "none"
      /\ NoCall.list = Unasked /\ NoCall.restores = Unasked
  BY DEF NoCall, CallFields
<1>3. ASSUME NEW c \in Conns, NEW key PROVE CallOK(Refresh(c, key))
  <2>1. /\ DOMAIN Refresh(c, key) = CallFields /\ Refresh(c, key).op = "refresh"
        /\ Refresh(c, key).conn = c
        /\ Refresh(c, key).list = Unasked /\ Refresh(c, key).restores = Unasked
    BY <1>2 DEF Refresh, CallFields
  <2> QED BY <1>1, <2>1 DEF CallOK
<1> QED BY <1>1, <1>2, <1>3 DEF CallOK

\* A call that is replaced by another, that is made, and that ends.
LEMMA CallReplaced ==
  ASSUME CallsOK, NEW k, NEW call, CallOK(call), calls' = [calls EXCEPT ![k] = call]
  PROVE  CallsOK'
BY DEF CallsOK

LEMMA CallMade ==
  ASSUME CallsOK, NEW call, CallOK(call), Make(call)
  PROVE  CallsOK'
<1>1. PICK k : calls' = [calls EXCEPT ![k] = call]
  BY DEF Make
<1> QED BY <1>1, CallReplaced

LEMMA CallEnded ==
  ASSUME CallsOK, NEW k, Ends(k)
  PROVE  CallsOK'
BY NewCallsOK, CallReplaced DEF Ends

\* A run that is started, and a run whose state becomes another than "stopping".
LEMMA RunStarted ==
  ASSUME ServersOK, NEW c \in Conns, NEW type \in Keys,
         server' = [server EXCEPT ![c] = Started(@, type)]
  PROVE  ServersOK' /\ StopStep
<1>1. RunOf(type) \in Runs
  BY DEF RunOf, Runs, Keys, Active
<1>2. server[c] \in Seq(Runs)
  BY DEF ServersOK
<1>3. Started(server[c], type) \in Seq(Runs)
  BY <1>1, <1>2 DEF Started
<1>4. ServersOK'
  BY <1>3 DEF ServersOK
<1>5. ASSUME NEW b \in Conns, NEW i \in DOMAIN server[b]
      PROVE  server'[b][i] = server[b][i]
  <2>1. CASE b = c
    <3>1. server'[b] = Append(server[b], RunOf(type))
      BY <2>1 DEF ServersOK, Started
    <3> QED BY <1>1, <1>2, <2>1, <3>1
  <2>2. CASE b # c
    BY <2>2 DEF ServersOK
  <2> QED BY <2>1, <2>2
<1> QED BY <1>4, <1>5 DEF StopStep

LEMMA StateChanged ==
  ASSUME ServersOK, NEW c \in Conns, NEW j \in DOMAIN server[c], NEW state,
         state \in {"started", "finished", "failed", "cancelled"},
         server' = [server EXCEPT ![c] = [@ EXCEPT ![j].state = state]]
  PROVE  ServersOK' /\ StopStep
<1>1. server[c] \in Seq(Runs) /\ server[c][j] \in Runs
  BY DEF ServersOK
<1>2. [server[c][j] EXCEPT !.state = state] \in Runs
  BY <1>1 DEF Runs, Active
<1>3. server'[c] = [server[c] EXCEPT ![j] = [server[c][j] EXCEPT !.state = state]]
  BY DEF ServersOK
<1>4. server'[c] \in Seq(Runs)
  BY <1>1, <1>2, <1>3
<1>5. ServersOK'
  BY <1>4 DEF ServersOK
<1>6. [server[c][j] EXCEPT !.state = state].state = state
  BY <1>1 DEF Runs
<1>7. ASSUME NEW b \in Conns, NEW i \in DOMAIN server[b], b # c \/ i # j
      PROVE  server'[b][i] = server[b][i]
  BY <1>3, <1>7 DEF ServersOK
<1>8. server'[c][j].state # "stopping"
  BY <1>3, <1>6
<1> QED BY <1>5, <1>7, <1>8 DEF StopStep

\* A command to stop that the server accepts: of what the page showed of another server it
\* accepts nothing.
LEMMA RunStopped ==
  ASSUME ServersOK, CallsOK, NEW k \in Slots, ServeCommand(k), calls[k].op = "stop"
  PROVE  ServersOK' /\ StopStep
<1> DEFINE c == calls[k].conn
           run == calls[k].run
<1>1. c \in Conns /\ run # 0 /\ calls[k].of # None
  BY DEF CallsOK, CallOK
<1>2. /\ IsRunning(server[c], Named(calls[k]))
      /\ server' = [server EXCEPT ![c] = Stopped(server[c], run)]
  BY DEF ServeCommand
<1>3. server[c] \in Seq(Runs)
  BY <1>1 DEF ServersOK
<1>4. calls[k].of = c
  <2>1. PICK i \in DOMAIN server[c] : Named(calls[k]) \in {0, i}
    BY <1>2 DEF IsRunning, ActiveRuns
  <2>2. i \in Nat
    BY <1>3
  <2>3. Named(calls[k]) # -1
    BY <2>1, <2>2
  <2> QED BY <1>1, <2>3 DEF Named
<1> HIDE DEF c, run
<1>5. \A r \in Runs : [r EXCEPT !.state = "stopping"] \in Runs
  BY DEF Runs, Active
<1>6. Stopped(server[c], run) \in [1..Len(server[c]) -> Runs]
  BY <1>3, <1>5 DEF Stopped
<1>7. Stopped(server[c], run) \in Seq(Runs)
  BY <1>3, <1>6
<1>8. ServersOK'
  BY <1>2, <1>7 DEF ServersOK
<1>9. ASSUME NEW b \in Conns, NEW i \in DOMAIN server[b], server'[b][i] # server[b][i]
      PROVE  b = c /\ i = run
  <2>1. b = c
    BY <1>2, <1>9 DEF ServersOK
  <2>2. server'[c][i] = IF server[c][i].state \in Active /\ run \in {0, i}
                        THEN [server[c][i] EXCEPT !.state = "stopping"] ELSE server[c][i]
    BY <1>1, <1>2, <1>9, <2>1 DEF ServersOK, Stopped
  <2> QED BY <1>1, <1>9, <2>1, <2>2
<1> QED BY <1>4, <1>8, <1>9 DEF StopStep, c, run

\* A step that changes no run.
LEMMA NoRunChanges ==
  ASSUME ServersOK, server' = server
  PROVE  ServersOK' /\ StopStep
BY DEF ServersOK, StopStep

\* A step that leaves alone everything the invariant speaks of.
LEMMA NothingChanges ==
  ASSUME CommandInv, UNCHANGED <<server, conn, jobs, restores, calls, resume, submit>>
  PROVE  CommandInv' /\ StopStep
<1>1. ServersOK' /\ StopStep
  BY NoRunChanges DEF CommandInv
<1>2. CallsOK' /\ ShownBothOK'
  BY DEF CommandInv, CallsOK, ShownBothOK
<1> QED BY <1>1, <1>2 DEF CommandInv

\* A step that only makes a refresh.
LEMMA OnlyRefreshes ==
  ASSUME CommandInv, NEW c \in Conns, NEW key, Make(Refresh(c, key)),
         UNCHANGED <<server, jobs, restores>>, conn' \in Conns, RequestOK(resume'), RequestOK(submit')
  PROVE  CommandInv' /\ StopStep
<1>1. ServersOK' /\ StopStep
  BY NoRunChanges DEF CommandInv
<1>2. CallOK(Refresh(c, key))
  BY NewCallsOK
<1>3. CallsOK'
  BY <1>2, CallMade DEF CommandInv
<1>4. ShownBothOK'
  BY DEF CommandInv, ShownBothOK
<1> QED BY <1>1, <1>3, <1>4 DEF CommandInv

\* A step that changes only the runs.
LEMMA OnlyRunsChange ==
  ASSUME CommandInv, ServersOK', StopStep, UNCHANGED <<conn, jobs, restores, calls>>,
         RequestOK(resume'), RequestOK(submit')
  PROVE  CommandInv' /\ StopStep
<1>1. CallsOK' /\ ShownBothOK'
  BY DEF CommandInv, CallsOK, ShownBothOK
<1> QED BY <1>1 DEF CommandInv

\* A step that only changes calls.
LEMMA OnlyCallsChange ==
  ASSUME CommandInv, CallsOK', UNCHANGED <<server, conn, jobs, restores, resume, submit>>
  PROVE  CommandInv' /\ StopStep
<1>1. ServersOK' /\ StopStep
  BY NoRunChanges DEF CommandInv
<1>2. ShownBothOK'
  BY DEF CommandInv, ShownBothOK
<1> QED BY <1>1, <1>2 DEF CommandInv

\* Runs that others start, and the ends of runs.
LEMMA OthersKeep ==
  ASSUME CommandInv, Others, UNCHANGED <<resume, submit>>
  PROVE  CommandInv' /\ StopStep
<1>0. ServersOK /\ RequestOK(resume') /\ RequestOK(submit')
  BY DEF CommandInv
<1>1. ASSUME NEW c \in Conns, RunEnds(c) PROVE CommandInv' /\ StopStep
  <2>1. PICK i \in ActiveRuns(server[c], Keys) :
          /\ \E state \in (IF server[c][i].state = "stopping" THEN {"cancelled"} ELSE {"finished", "failed"}) :
               server' = [server EXCEPT ![c][i].state = state]
          /\ UNCHANGED <<conn, jobs, restores, calls>>
    BY <1>1 DEF RunEnds
  <2>2. i \in DOMAIN server[c]
    BY DEF ActiveRuns
  <2>3. PICK state \in {"started", "finished", "failed", "cancelled"} :
          server' = [server EXCEPT ![c] = [@ EXCEPT ![i].state = state]]
    BY <2>1
  <2>4. ServersOK' /\ StopStep
    BY <1>0, <2>2, <2>3, StateChanged
  <2> QED BY <1>0, <2>1, <2>4, OnlyRunsChange
<1>2. ASSUME NEW c \in Conns, NEW type \in Keys, OtherStart(c, type) PROVE CommandInv' /\ StopStep
  <2>1. ServersOK' /\ StopStep
    BY <1>0, <1>2, RunStarted DEF OtherStart
  <2> QED BY <1>0, <1>2, <2>1, OnlyRunsChange DEF OtherStart
<1> QED BY <1>1, <1>2 DEF Others

\* A button; one that stops a run is there only for a run that is shown as active.
LEMMA PressKeeps ==
  ASSUME CommandInv, NEW op, NEW key, NEW shown, Press(op, key, shown), UNCHANGED <<resume, submit>>,
         op # "none", op = "stop" => shown.run # 0 /\ shown.from # None
  PROVE  CommandInv' /\ StopStep
<1> DEFINE call == Command(op, key, shown)
<1>1. /\ DOMAIN call = CallFields /\ call.op = op /\ call.conn = conn /\ call.run = shown.run
      /\ call.of = shown.from /\ call.list = Unasked /\ call.restores = Unasked
  BY DEF Command, NoCall, CallFields
<1>2. CardOK(Unasked)
  BY DEF CardOK, Unasked, Active
<1>3. Make(call) /\ UNCHANGED <<server, conn, jobs, restores>>
  BY DEF Press
<1> HIDE DEF call
<1>4. CallOK(call)
  BY <1>1, <1>2 DEF CallOK, CommandInv
<1>5. CallsOK'
  BY <1>3, <1>4, CallMade DEF CommandInv
<1> QED BY <1>3, <1>5, OnlyCallsChange

\* The steps of the page.
LEMMA AppKeepsCommands ==
  ASSUME CommandInv, NextApp, UNCHANGED <<resume, submit>>
  PROVE  CommandInv' /\ StopStep
<1>0. /\ ServersOK /\ CallsOK /\ conn \in Conns
      /\ RequestOK(resume) /\ RequestOK(submit) /\ RequestOK(resume') /\ RequestOK(submit')
  BY DEF CommandInv
<1>1. CASE RunEffects
  BY <1>0, <1>1, OnlyRefreshes DEF RunEffects
<1>2. CASE Tick
  BY <1>0, <1>2, OnlyRefreshes DEF Tick
<1>3. CASE \E r \in asking : VersionAnswer(r)
  BY <1>3, NothingChanges DEF VersionAnswer
<1>k. ASSUME NEW k \in Slots
      PROVE  /\ CallOK(calls[k]) /\ DOMAIN calls[k] = CallFields
             /\ calls[k].op # "none" => calls[k].conn \in Conns /\ server[calls[k].conn] \in Seq(Runs)
  BY <1>0 DEF CallsOK, CallOK, ServersOK
<1>4. ASSUME NEW k \in Slots, ServeList(k) PROVE CommandInv' /\ StopStep
  <2>1. calls[k].op # "none"
    BY <1>4 DEF ServeList
  <2>2. PICK card : card = Card(server[calls[k].conn], "backup")
    OBVIOUS
  <2>3. CardOK(card)
    BY <1>k, <2>1, <2>2, CardIsOK
  <2>4. calls' = [calls EXCEPT ![k] = [calls[k] EXCEPT !.list = card]]
    BY <1>4, <2>2 DEF ServeList
  <2>5. CallOK([calls[k] EXCEPT !.list = card])
    BY <1>k, <2>3 DEF CallOK, CallFields
  <2>6. CallsOK'
    BY <1>0, <2>4, <2>5, CallReplaced
  <2> QED BY <1>4, <2>6, OnlyCallsChange DEF ServeList
<1>5. ASSUME NEW k \in Slots, ServeRestores(k) PROVE CommandInv' /\ StopStep
  <2>1. calls[k].op # "none"
    BY <1>5 DEF ServeRestores
  <2>2. PICK card : card = Card(server[calls[k].conn], "restore")
    OBVIOUS
  <2>3. CardOK(card)
    BY <1>k, <2>1, <2>2, CardIsOK
  <2>4. calls' = [calls EXCEPT ![k] = [calls[k] EXCEPT !.restores = card]]
    BY <1>5, <2>2 DEF ServeRestores
  <2>5. CallOK([calls[k] EXCEPT !.restores = card])
    BY <1>k, <2>3 DEF CallOK, CallFields
  <2>6. CallsOK'
    BY <1>0, <2>4, <2>5, CallReplaced
  <2> QED BY <1>5, <2>6, OnlyCallsChange DEF ServeRestores
<1>6. ASSUME NEW k \in Slots, ServeCommand(k) PROVE CommandInv' /\ StopStep
  <2>1. calls[k].op \in {"start", "stop"}
    BY <1>6 DEF ServeCommand
  <2>2. ServersOK' /\ StopStep
    <3>1. CASE calls[k].op = "start"
      <4>1. server' = [server EXCEPT ![calls[k].conn] = Started(@, "backup")]
        BY <1>6, <3>1 DEF ServeCommand
      <4> QED BY <1>0, <1>k, <3>1, <4>1, RunStarted DEF Keys
    <3>2. CASE calls[k].op = "stop"
      BY <1>0, <1>6, <3>2, RunStopped
    <3> QED BY <2>1, <3>1, <3>2
  <2>3. CallOK([calls[k] EXCEPT !.op = "accepted"])
    BY <1>k, <2>1 DEF CallOK, CallFields
  <2>4. calls' = [calls EXCEPT ![k] = [calls[k] EXCEPT !.op = "accepted"]]
    BY <1>6 DEF ServeCommand
  <2>5. CallsOK'
    BY <1>0, <2>3, <2>4, CallReplaced
  <2>6. ShownBothOK'
    BY <1>6 DEF ServeCommand, CommandInv, ShownBothOK
  <2>7. conn' = conn
    BY <1>6 DEF ServeCommand
  <2> QED BY <1>0, <2>2, <2>5, <2>6, <2>7 DEF CommandInv
<1>7. ASSUME NEW k \in Slots, RefreshDone(k) PROVE CommandInv' /\ StopStep
  <2>1. ShownOK(jobs') /\ ShownOK(restores')
    <3>1. calls[k].conn # None /\ CardOK(calls[k].list) /\ CardOK(calls[k].restores)
      BY <1>7, <1>k, WebAppAssumption DEF RefreshDone, CallOK
    <3>2. /\ jobs' = Shown(calls[k].conn, calls[k].list)
          /\ restores' = Shown(calls[k].conn, calls[k].restores)
      BY <1>7 DEF RefreshDone
    <3> QED BY <3>1, <3>2 DEF Shown, ShownOK, CardOK
  <2>2. CallsOK'
    BY <1>0, <1>7, CallEnded DEF RefreshDone
  <2>3. ServersOK' /\ StopStep
    BY <1>0, <1>7, NoRunChanges DEF RefreshDone
  <2>4. conn' = conn
    BY <1>7 DEF RefreshDone
  <2> QED BY <1>0, <2>1, <2>2, <2>3, <2>4 DEF CommandInv, ShownBothOK
<1>8. ASSUME NEW k \in Slots, RefreshFailed(k) PROVE CommandInv' /\ StopStep
  <2>1. CallsOK'
    BY <1>0, <1>8, CallEnded DEF RefreshFailed
  <2> QED BY <1>8, <2>1, OnlyCallsChange DEF RefreshFailed
<1>9. ASSUME NEW k \in Slots, CommandDone(k) PROVE CommandInv' /\ StopStep
  <2>1. calls[k].op # "none"
    BY <1>9 DEF CommandDone
  <2>2. CallOK(Refresh(calls[k].conn, calls[k].key))
    BY <1>k, <2>1, NewCallsOK
  <2>3. calls' = [calls EXCEPT ![k] = Refresh(calls[k].conn, calls[k].key)]
    BY <1>9 DEF CommandDone
  <2>4. CallsOK'
    BY <1>0, <2>2, <2>3, CallReplaced
  <2> QED BY <1>9, <2>4, OnlyCallsChange DEF CommandDone
<1>10. ASSUME NEW k \in Slots, CommandFailed(k) PROVE CommandInv' /\ StopStep
  <2>1. CallsOK'
    BY <1>0, <1>10, CallEnded DEF CommandFailed
  <2> QED BY <1>10, <2>1, OnlyCallsChange DEF CommandFailed
<1>11. CASE Others
  BY <1>11, OthersKeep
<1>12. ASSUME NEW c \in Conns, OnSaveConn(c) PROVE CommandInv' /\ StopStep
  <2>1. ServersOK' /\ StopStep
    BY <1>0, <1>12, NoRunChanges DEF OnSaveConn
  <2>2. CallsOK' /\ ShownBothOK' /\ conn' \in Conns
    BY <1>12 DEF OnSaveConn, CommandInv, CallsOK, ShownBothOK
  <2> QED BY <1>0, <2>1, <2>2 DEF CommandInv
<1>13. CASE OnStart
  <2>1. Press("start", "backup", Nothing)
    BY <1>13 DEF OnStart
  <2> QED BY <2>1, PressKeeps
<1>14. CASE OnStop
  <2>1. Press("stop", "backup", jobs) /\ jobs.run # 0 /\ jobs.from # None
    BY <1>14 DEF OnStop, Running, CommandInv, ShownBothOK, ShownOK
  <2> QED BY <2>1, PressKeeps
<1>15. CASE OnStopRestore
  <2>1. Press("stop", "restore", restores) /\ restores.run # 0 /\ restores.from # None
    BY <1>15 DEF OnStopRestore, Running, CommandInv, ShownBothOK, ShownOK
  <2> QED BY <2>1, PressKeeps
<1>16. CASE OnRefresh
  BY <1>0, <1>16, OnlyRefreshes DEF OnRefresh
<1> QED BY <1>1, <1>2, <1>3, <1>4, <1>5, <1>6, <1>7, <1>8, <1>9, <1>10, <1>11, <1>12, <1>13, <1>14,
           <1>15, <1>16 DEF NextApp, Others

\* The steps of the dialogs with reports: a resumed run is started, not stopping.
LEMMA ReportsKeepCommands ==
  ASSUME CommandInv, NextReports, submit' = submit
  PROVE  CommandInv' /\ StopStep
<1>0. /\ ServersOK /\ CallsOK /\ conn \in Conns /\ server[conn] \in Seq(Runs)
      /\ RequestOK(resume) /\ RequestOK(submit')
  BY DEF CommandInv, ServersOK
<1>1. CASE (\E kind \in Keys : OpenReports(kind)) \/ CloseReports
  BY <1>1, NothingChanges DEF OpenReports, CloseReports
<1>2. CASE ServePage \/ PageDone \/ PageFailed \/ LoadMore
  BY <1>2, NothingChanges DEF ServePage, PageDone, PageFailed, LoadMore, appVars
<1>3. ASSUME NEW i \in 1..MaxRuns, OpenDetail(i) \/ DetailDone(i) \/ DetailFailed(i)
      PROVE  CommandInv' /\ StopStep
  BY <1>3, NothingChanges DEF OpenDetail, DetailDone, DetailFailed, appVars
<1>r. ASSUME NEW c \in Conns, NEW i, CanResume(server[c], i),
             server' = [server EXCEPT ![c] = Resumed(@, i)], UNCHANGED <<conn, jobs, restores, calls>>,
             RequestOK(resume')
      PROVE  CommandInv' /\ StopStep
  <2>1. i \in DOMAIN server[c]
    BY <1>r DEF CanResume
  <2>2. server' = [server EXCEPT ![c] = [@ EXCEPT ![i].state = "started"]]
    BY <1>r DEF Resumed
  <2>3. ServersOK' /\ StopStep
    BY <1>0, <2>1, <2>2, StateChanged
  <2> QED BY <1>0, <1>r, <2>3, OnlyRunsChange
<1>4. ASSUME NEW i \in 1..MaxRuns, OtherResume(i) PROVE CommandInv' /\ StopStep
  <2>1. /\ CanResume(server[conn], i) /\ server' = [server EXCEPT ![conn] = Resumed(@, i)]
        /\ UNCHANGED <<conn, jobs, restores, calls, resume>>
    BY <1>4 DEF OtherResume, s
  <2>2. RequestOK(resume')
    BY <1>0, <2>1
  <2> QED BY <1>0, <1>r, <2>1, <2>2
<1>5. CASE BackToList \/ ConfigDone \/ ConfigFailed \/ \E t \in Targets : PickTarget(t)
  BY <1>5, NothingChanges DEF BackToList, ConfigDone, ConfigFailed, PickTarget, appVars
<1>6. CASE OnResume
  <2>1. RequestOK(resume')
    BY <1>0, <1>6 DEF OnResume, RequestOK
  <2>2. ServersOK' /\ StopStep
    BY <1>0, <1>6, NoRunChanges DEF OnResume, appVars
  <2> QED BY <1>0, <1>6, <2>1, <2>2, OnlyRunsChange DEF OnResume, appVars
<1>7. CASE ServeResume
  <2>1. resume.conn \in Conns
    BY <1>0, <1>7 DEF ServeResume, RequestOK
  <2>2. RequestOK(resume')
    BY <1>0, <1>7, <2>1 DEF ServeResume, RequestOK
  <2> QED BY <1>7, <1>r, <2>1, <2>2 DEF ServeResume
<1>n. RequestOK(NoResume)
  BY DEF RequestOK, NoResume
<1>8. CASE ResumeDone
  <2>1. resume.conn \in Conns
    BY <1>0, <1>8 DEF ResumeDone, RequestOK
  <2>2. RequestOK(resume')
    BY <1>8, <1>n DEF ResumeDone
  <2> QED BY <1>0, <1>8, <2>1, <2>2, OnlyRefreshes DEF ResumeDone
<1>9. CASE ResumeFailed
  <2>1. RequestOK(resume')
    BY <1>9, <1>n DEF ResumeFailed
  <2>2. ServersOK' /\ StopStep
    BY <1>0, <1>9, NoRunChanges DEF ResumeFailed, appVars
  <2> QED BY <1>0, <1>9, <2>1, <2>2, OnlyRunsChange DEF ResumeFailed, appVars
<1> QED BY <1>1, <1>2, <1>3, <1>4, <1>5, <1>6, <1>7, <1>8, <1>9 DEF NextReports

\* The steps of the dialog that starts a restore.
LEMMA StartKeepsCommands ==
  ASSUME CommandInv, NextStart
  PROVE  CommandInv' /\ StopStep
<1>0. /\ ServersOK /\ CallsOK /\ conn \in Conns /\ RequestOK(resume) /\ RequestOK(submit)
  BY DEF CommandInv
<1>1. CASE OpenRestoreStart \/ CloseRestoreStart
  BY <1>1, NothingChanges DEF OpenRestoreStart, CloseRestoreStart, reportVars
<1>2. CASE SourcesDone \/ SourcesFailed \/ ToggleAllFiles \/ \E i \in 0..MaxRuns : SelectSource(i)
  <2>1. UNCHANGED <<server, conn, jobs, restores, calls, resume, submit>>
    BY <1>2 DEF SourcesDone, SourcesFailed, ToggleAllFiles, SelectSource, appVars, reportVars
  <2> QED BY <2>1, NothingChanges
<1>3. CASE \E i \in 1..MaxClicks : ListDone(i) \/ ListFailed(i)
  <2>1. UNCHANGED <<server, conn, jobs, restores, calls, resume, submit>>
    BY <1>3 DEF ListDone, ListFailed, appVars, reportVars
  <2> QED BY <2>1, NothingChanges
<1>4. CASE GoUp \/ RefreshDir \/ \E p \in Paths : EnterDir(p) \/ ToggleSelect(p)
  <2>1. UNCHANGED <<server, conn, jobs, restores, calls, resume, submit>>
    BY <1>4 DEF GoUp, RefreshDir, EnterDir, ToggleSelect, appVars
  <2> QED BY <2>1, NothingChanges
<1>5. CASE OnSubmit
  <2>1. RequestOK(submit')
    BY <1>0, <1>5 DEF OnSubmit, RequestOK
  <2>2. UNCHANGED <<server, conn, jobs, restores, calls, resume>>
    BY <1>5 DEF OnSubmit, appVars
  <2>3. ServersOK' /\ StopStep
    BY <1>0, <2>2, NoRunChanges
  <2> QED BY <1>0, <2>1, <2>2, <2>3, OnlyRunsChange
<1>6. CASE ServeSubmit
  <2>1. submit.conn \in Conns
    BY <1>0, <1>6 DEF ServeSubmit, RequestOK
  <2>2. RequestOK(submit')
    BY <1>0, <1>6, <2>1 DEF ServeSubmit, RequestOK
  <2>3. ServersOK' /\ StopStep
    BY <1>0, <1>6, <2>1, RunStarted DEF ServeSubmit, Keys
  <2>4. UNCHANGED <<conn, jobs, restores, calls, resume>>
    BY <1>6 DEF ServeSubmit, reportVars
  <2> QED BY <1>0, <2>2, <2>3, <2>4, OnlyRunsChange
<1>n. RequestOK(NoSubmit)
  BY DEF RequestOK, NoSubmit
<1>7. CASE SubmitDone
  <2>1. submit.conn \in Conns
    BY <1>0, <1>7 DEF SubmitDone, RequestOK
  <2>2. RequestOK(submit') /\ resume' = resume
    BY <1>7, <1>n DEF SubmitDone, reportVars
  <2> QED BY <1>0, <1>7, <2>1, <2>2, OnlyRefreshes DEF SubmitDone
<1>8. CASE SubmitFailed
  <2>1. RequestOK(submit')
    BY <1>8, <1>n DEF SubmitFailed
  <2>2. UNCHANGED <<server, conn, jobs, restores, calls, resume>>
    BY <1>8 DEF SubmitFailed, appVars, reportVars
  <2>3. ServersOK' /\ StopStep
    BY <1>0, <2>2, NoRunChanges
  <2> QED BY <1>0, <2>1, <2>2, <2>3, OnlyRunsChange
<1> QED BY <1>1, <1>2, <1>3, <1>4, <1>5, <1>6, <1>7, <1>8 DEF NextStart

\* Every step.
LEMMA NextKeepsCommands ==
  ASSUME CommandInv, [Next]_vars
  PROVE  CommandInv' /\ StopStep
<1>1. CASE NextApp /\ UNCHANGED <<reportVars, startVars>>
  BY <1>1, AppKeepsCommands DEF reportVars, startVars
<1>2. CASE Others /\ UNCHANGED <<reportVars, startVars>>
  BY <1>2, OthersKeep DEF reportVars, startVars
<1>3. CASE NextReports /\ UNCHANGED startVars
  BY <1>3, ReportsKeepCommands DEF startVars
<1>4. CASE NextStart
  BY <1>4, StartKeepsCommands
<1>5. CASE UNCHANGED vars
  BY <1>5, NothingChanges DEF vars, appVars, reportVars, startVars
<1> QED BY <1>1, <1>2, <1>3, <1>4, <1>5 DEF Next

\* The invariant holds.
LEMMA CommandInvHolds == Spec => []CommandInv
<1>1. Init => CommandInv
  <2> SUFFICES ASSUME Init PROVE CommandInv
    OBVIOUS
  <2>1. ServersOK /\ conn \in Conns
    BY WebAppAssumption DEF Init, InitApp, ServersOK
  <2>2. CallsOK
    BY NewCallsOK DEF Init, InitApp, CallsOK
  <2>3. ShownBothOK
    BY DEF Init, InitApp, ShownBothOK, ShownOK, Nothing, Active
  <2>4. RequestOK(resume) /\ RequestOK(submit)
    BY DEF Init, InitReports, InitStart, RequestOK, NoResume, NoSubmit
  <2> QED BY <2>1, <2>2, <2>3, <2>4 DEF CommandInv
<1>2. CommandInv /\ [Next]_vars => CommandInv'
  BY NextKeepsCommands
<1> QED BY <1>1, <1>2, PTL DEF Spec

\* Only a request that names a run and its server makes that run stop, however out of date
\* the card was (onStop, onStopRestore and the check of the id by the server).
THEOREM CommandsStopWhatTheyName == Spec => StopsNamedRun
<1>1. CommandInv /\ [Next]_vars => [StopStep]_appVars
  BY NextKeepsCommands
<1>2. [StopStep]_appVars =>
        [\A c \in Conns : \A i \in DOMAIN server[c] :
           server[c][i].state = "started" /\ server'[c][i].state = "stopping" =>
             \E k \in Slots : calls[k].op = "stop" /\ calls[k].run = i /\ calls[k].of = c]_appVars
  BY DEF StopStep
<1> QED BY <1>1, <1>2, CommandInvHolds, PTL DEF Spec, StopsNamedRun

-----------------------------------------------------------------------------
(* Pages of reports. *)

ReportFields ==
  {"kind", "items", "nextToken", "page", "detail", "detailJobId", "detailState", "shows", "config",
   "targets", "pickedTarget", "resuming", "seen", "loaded", "disturbed"}

\* Rows of a list.
Rows == [run : Nat, state : {"started", "stopping", "finished", "cancelled", "failed", "stopped", "crashed"}]

\* The runs of rows.
RunsOf(rows) == [n \in DOMAIN rows |-> rows[n].run]

\* Rows that are the first of a set of runs, in order.
Begins(rows, S) == \A n \in 1..Len(rows) : rows[n].run \in S /\ Rank(S, rows[n].run) = n - 1

\* Whether a token continues the rows, and none means that nothing is missing of what was seen.
Continues(token, rows, q, kind, seen) ==
  IF token = NoToken THEN seen \subseteq {rows[n].run : n \in 1..Len(rows)}
  ELSE /\ token.offset = Len(rows) /\ token.until \in 0..Len(q)
       /\ Len(rows) <= Cardinality(Over(q, kind, token.until))
       /\ seen \subseteq Over(q, kind, token.until)

\* The list when the page that was served is put in.
Joined(r) == (IF r.page.token = NoToken THEN <<>> ELSE r.items) \o r.page.answer.items

\* Of runs in the order of their start, only the last one may be active.
OnlyLastActive(q) == \A i \in 1..Len(q) : q[i].state \in Active => i = Len(q)

\* The rows are a beginning of the list and the token continues them, now and when the page
\* that was served is put in.
PagesOK(r, q) ==
  /\ OnlyLastActive(q)
  /\ r.items \in Seq(Rows) /\ Begins(r.items, Over(q, r.kind, Len(q)))
  /\ r.nextToken # NoToken => r.loaded
  /\ r.loaded => Continues(r.nextToken, r.items, q, r.kind, r.seen)
  /\ r.page.is # "idle" => /\ r.page.token = r.nextToken
                           /\ r.page.token # NoToken <=> r.loaded
  /\ r.page.is = "done" => /\ Joined(r) \in Seq(Rows) /\ Begins(Joined(r), Over(q, r.kind, Len(q)))
                           /\ Continues(r.page.answer.next, Joined(r), q, r.kind, r.seen)

ReportsOK(r) == DOMAIN r = ReportFields /\ DOMAIN r.page = {"is", "token", "answer"}

PagesInv == ReportsOK(reports) /\ (Open /\ ~reports.disturbed => PagesOK(reports, server[conn]))

\* The rank of a run in a set of runs: below the size of the set, and growing with the runs.
LEMMA RankBounds ==
  ASSUME NEW S \in SUBSET Nat, IsFiniteSet(S), NEW i \in S
  PROVE  Rank(S, i) \in Nat /\ Cardinality(S) \in Nat /\ Rank(S, i) < Cardinality(S)
<1> DEFINE B == {j \in S : j < i}
<1>1. B \in SUBSET S /\ i \notin B
  OBVIOUS
<1>2. Rank(S, i) = Cardinality(B)
  BY DEF Rank
<1> HIDE DEF B
<1>3. IsFiniteSet(B) /\ Cardinality(B) <= Cardinality(S) /\ Cardinality(S) # Cardinality(B)
  BY <1>1, FS_Subset
<1>4. Cardinality(B) \in Nat /\ Cardinality(S) \in Nat
  BY <1>3, FS_CardinalityType
<1> QED BY <1>2, <1>3, <1>4

LEMMA RankGrows ==
  ASSUME NEW S \in SUBSET Nat, IsFiniteSet(S), NEW i \in S, NEW k \in S, i < k
  PROVE  Rank(S, i) < Rank(S, k)
<1> DEFINE B == {j \in S : j < k}
<1>1. B \in SUBSET Nat /\ B \in SUBSET S /\ i \in B
  OBVIOUS
<1>2. IsFiniteSet(B)
  BY <1>1, FS_Subset
<1>3. {j \in B : j < i} = {j \in S : j < i}
  <2>1. i \in Nat /\ k \in Nat /\ \A j \in S : j \in Nat
    OBVIOUS
  <2>2. \A j \in S : j < i => j < k
    BY <2>1
  <2> QED BY <2>2
<1>4. Rank(B, i) = Rank(S, i)
  BY <1>3 DEF Rank
<1>5. Rank(S, k) = Cardinality(B)
  BY DEF Rank
<1> HIDE DEF B
<1> QED BY <1>1, <1>2, <1>4, <1>5, RankBounds

LEMMA RankUnique ==
  ASSUME NEW S \in SUBSET Nat, IsFiniteSet(S), NEW i \in S, NEW k \in S, Rank(S, i) = Rank(S, k)
  PROVE  i = k
<1>1. Rank(S, i) \in Nat /\ Rank(S, k) \in Nat
  BY RankBounds
<1>2. ~(i < k) /\ ~(k < i)
  BY <1>1, RankGrows
<1> QED BY <1>2

\* Every number below the size of the set is a rank.
LEMMA RankTaken ==
  ASSUME NEW S \in SUBSET Nat, IsFiniteSet(S), NEW n \in 1..Cardinality(S)
  PROVE  \E i \in S : Rank(S, i) = n - 1
<1>1. PICK c \in Nat : c = Cardinality(S)
  BY FS_CardinalityType
<1> DEFINE T == 0..(c - 1)
           f == [i \in S |-> Rank(S, i)]
<1>2. IsFiniteSet(T) /\ Cardinality(T) = c
  <2>1. 0 \in Int /\ c - 1 \in Int /\ (IF 0 > c - 1 THEN 0 ELSE c - 1 - 0 + 1) = c
    OBVIOUS
  <2> QED BY <2>1, FS_Interval
<1>3. \A i \in S : Rank(S, i) \in T
  <2>1. \A i \in S : Rank(S, i) \in Nat /\ Rank(S, i) < c
    BY <1>1, RankBounds
  <2> QED BY <2>1
<1>4. f \in Injection(S, T)
  <2>1. f \in [S -> T]
    BY <1>3
  <2>2. \A i, k \in S : f[i] = f[k] => i = k
    BY RankUnique
  <2> HIDE DEF T, f
  <2> QED BY <2>1, <2>2 DEF Injection, IsInjective
<1>5. f \in Surjection(S, T)
  <2> HIDE DEF T, f
  <2> QED BY <1>1, <1>2, <1>4, FS_Injection
<1>6. n - 1 \in T
  BY <1>1
<1>7. \E i \in S : f[i] = n - 1
  <2> HIDE DEF f, T
  <2> QED BY <1>5, <1>6 DEF Surjection
<1> QED BY <1>7

\* A set of runs in order: each place has the run of its rank.
LEMMA InOrderRanks ==
  ASSUME NEW S \in SUBSET Nat, IsFiniteSet(S)
  PROVE  /\ Cardinality(S) \in Nat /\ InOrder(S) \in Seq(S) /\ Len(InOrder(S)) = Cardinality(S)
         /\ \A n \in 1..Cardinality(S) : InOrder(S)[n] \in S /\ Rank(S, InOrder(S)[n]) = n - 1
<1>1. PICK c \in Nat : c = Cardinality(S)
  BY FS_CardinalityType
<1>2. ASSUME NEW n \in 1..Cardinality(S)
      PROVE  InOrder(S)[n] \in S /\ Rank(S, InOrder(S)[n]) = n - 1
  <2>1. \E i \in S : Rank(S, i) = n - 1
    BY RankTaken
  <2>2. InOrder(S)[n] = CHOOSE i \in S : Rank(S, i) = n - 1
    BY DEF InOrder
  <2> QED BY <2>1, <2>2
<1>3. DOMAIN InOrder(S) = 1..c /\ InOrder(S) = [n \in 1..c |-> InOrder(S)[n]]
  BY <1>1 DEF InOrder
<1>4. InOrder(S) \in [1..c -> S]
  BY <1>1, <1>2, <1>3
<1>5. InOrder(S) \in Seq(S) /\ Len(InOrder(S)) = c
  BY <1>4
<1> QED BY <1>1, <1>2, <1>5

\* Rows that begin a set of runs are a beginning of the set in order.
LEMMA BeginsIsPrefix ==
  ASSUME NEW S \in SUBSET Nat, IsFiniteSet(S), NEW rows \in Seq(Rows), Begins(rows, S)
  PROVE  IsPrefix(RunsOf(rows), InOrder(S))
<1> DEFINE t == InOrder(S)
           r == RunsOf(rows)
<1>1. PICK m \in Nat : m = Len(rows) /\ DOMAIN rows = 1..m
  OBVIOUS
<1>2. PICK c \in Nat : c = Cardinality(S) /\ c = Len(t)
  BY InOrderRanks
<1>3. /\ t \in Seq(S)
      /\ \A n \in 1..c : t[n] \in S /\ Rank(S, t[n]) = n - 1
  BY <1>2, InOrderRanks
<1>4. r \in Seq(Nat) /\ Len(r) = m /\ \A n \in 1..m : r[n] = rows[n].run
  <2>1. r = [n \in 1..m |-> rows[n].run]
    BY <1>1 DEF RunsOf
  <2>r. \A n \in 1..m : rows[n] \in Rows
    BY <1>1
  <2>2. \A n \in 1..m : rows[n].run \in Nat
    BY <2>r DEF Rows
  <2> HIDE DEF r
  <2>3. r \in [1..m -> Nat]
    BY <2>1, <2>2
  <2>4. r \in Seq(Nat) /\ Len(r) = m
    BY <2>3
  <2> QED BY <2>1, <2>4
<1>5. \A n \in 1..m : r[n] \in S /\ Rank(S, r[n]) = n - 1
  BY <1>1, <1>4 DEF Begins
<1> HIDE DEF t, r
<1>6. m <= c
  <2>1. CASE m = 0
    BY <2>1
  <2>2. CASE m # 0
    <3>1. m \in 1..m
      BY <2>2
    <3>2. r[m] \in S /\ Rank(S, r[m]) = m - 1
      BY <1>5, <3>1
    <3>3. m - 1 < c
      BY <1>2, <3>2, RankBounds
    <3> QED BY <3>3
  <2> QED BY <2>1, <2>2
<1>7. \A n \in 1..m : n \in 1..c
  BY <1>6
<1>8. ASSUME NEW n \in 1..m PROVE r[n] = t[n]
  <2>1. PICK x \in S : x = r[n] /\ Rank(S, x) = n - 1
    BY <1>5
  <2>2. PICK y \in S : y = t[n] /\ Rank(S, y) = n - 1
    BY <1>3, <1>7
  <2>3. x = y
    BY <2>1, <2>2, RankUnique
  <2> QED BY <2>1, <2>2, <2>3
<1>9. SubSeq(r, 1, m) = SubSeq(t, 1, m)
  <2>1. SubSeq(r, 1, m) = [n \in 1..m |-> r[n]]
    BY <1>4
  <2>2. SubSeq(t, 1, m) = [n \in 1..m |-> t[n]]
    BY <1>2, <1>3, <1>6
  <2> QED BY <1>8, <2>1, <2>2
<1> QED BY <1>2, <1>4, <1>6, <1>9 DEF IsPrefix, t, r

\* Rows that begin a set, as many as the runs up to a moment, have all of these.
LEMMA BeginsWithAll ==
  ASSUME NEW S \in SUBSET Nat, IsFiniteSet(S), NEW rows \in Seq(Rows), Begins(rows, S),
         NEW U \in SUBSET S, \A i \in U : \A j \in S : j < i => j \in U,
         Cardinality(U) <= Len(rows)
  PROVE  U \subseteq {rows[n].run : n \in 1..Len(rows)}
<1> SUFFICES ASSUME NEW i \in U PROVE \E n \in 1..Len(rows) : rows[n].run = i
  OBVIOUS
<1>1. IsFiniteSet(U) /\ U \in SUBSET Nat
  BY FS_Subset
<1>2. {j \in U : j < i} = {j \in S : j < i}
  OBVIOUS
<1>3. Rank(U, i) = Rank(S, i)
  BY <1>2 DEF Rank
<1>4. PICK k \in Nat : k = Rank(S, i)
  BY RankBounds
<1>5. k < Cardinality(U) /\ Cardinality(U) \in Nat
  BY <1>1, <1>3, <1>4, RankBounds
<1>6. PICK m \in Nat : m = Len(rows)
  OBVIOUS
<1>7. k < m
  BY <1>5, <1>6
<1>8. k + 1 \in 1..m /\ (k + 1) - 1 = k
  BY <1>7
<1>9. rows[k + 1].run \in S /\ Rank(S, rows[k + 1].run) = k
  BY <1>6, <1>8 DEF Begins
<1>10. rows[k + 1].run = i
  BY <1>4, <1>9, RankUnique
<1> QED BY <1>6, <1>8, <1>10

\* The ranks of a set do not change when later runs are added.
LEMMA RankStays ==
  ASSUME NEW S \in SUBSET Nat, NEW T \in SUBSET Nat, S \subseteq T,
         \A i \in S : \A j \in T \ S : i < j, NEW i \in S
  PROVE  Rank(T, i) = Rank(S, i)
<1>1. \A j \in T : j < i => j \in S
  <2> SUFFICES ASSUME NEW j \in T, j < i, j \notin S PROVE FALSE
    OBVIOUS
  <2>1. i < j /\ i \in Nat /\ j \in Nat
    OBVIOUS
  <2> QED BY <2>1
<1>2. {j \in T : j < i} = {j \in S : j < i}
  BY <1>1
<1> QED BY <1>2 DEF Rank

LEMMA BeginsStays ==
  ASSUME NEW S \in SUBSET Nat, NEW T \in SUBSET Nat, S \subseteq T,
         \A i \in S : \A j \in T \ S : i < j, NEW rows, Begins(rows, S)
  PROVE  Begins(rows, T)
BY RankStays DEF Begins

\* The reports on runs that were started up to a moment.
LEMMA OverFinite ==
  ASSUME NEW q, NEW kind, NEW u \in Nat
  PROVE  Over(q, kind, u) \in SUBSET Nat /\ IsFiniteSet(Over(q, kind, u))
<1>1. Over(q, kind, u) \in SUBSET (1..u) /\ 1..u \subseteq Nat
  BY DEF Over
<1>2. IsFiniteSet(1..u)
  BY FS_Interval
<1>3. Over(q, kind, u) \in SUBSET Nat
  BY <1>1
<1>4. IsFiniteSet(Over(q, kind, u))
  BY <1>1, <1>2, FS_Subset
<1> QED BY <1>3, <1>4

LEMMA OverUpTo ==
  ASSUME NEW q, NEW kind, NEW v \in Nat, NEW u \in 0..v
  PROVE  /\ Over(q, kind, u) \subseteq Over(q, kind, v)
         /\ \A i \in Over(q, kind, u) : \A j \in Over(q, kind, v) : j < i => j \in Over(q, kind, u)
         /\ \A i \in Over(q, kind, u) : \A j \in Over(q, kind, v) \ Over(q, kind, u) : i < j
<1> DEFINE P(i) == q[i].type = kind /\ q[i].state \notin Active
<1>1. /\ \A i : i \in Over(q, kind, u) <=> i \in 1..u /\ P(i)
      /\ \A i : i \in Over(q, kind, v) <=> i \in 1..v /\ P(i)
  BY DEF Over
<1> HIDE DEF P
<1> QED BY <1>1

\* A page: the reports that follow the ones before it, up to the last one if it is not full.
LEMMA PageServed ==
  ASSUME NEW q \in Seq(Runs), NEW kind, NEW token, token.offset \in Nat, NEW u \in 0..Len(q),
         u = (IF token = NoToken THEN Len(q) ELSE token.until),
         token.offset <= Cardinality(Over(q, kind, u)), NEW a, a = ReportPage(q, kind, token)
  PROVE  /\ a.items \in Seq(Rows)
         /\ \A n \in 1..Len(a.items) :
              /\ a.items[n].run \in Over(q, kind, u)
              /\ Rank(Over(q, kind, u), a.items[n].run) = token.offset + n - 1
         /\ token.offset + Len(a.items) <= Cardinality(Over(q, kind, u))
         /\ a.next = NoToken => token.offset + Len(a.items) = Cardinality(Over(q, kind, u))
         /\ a.next # NoToken => a.next.offset = token.offset + Len(a.items) /\ a.next.until = u
<1> DEFINE S == Over(q, kind, u)
           all == InOrder(S)
           o == token.offset
           last == IF o + PageSize < Len(all) THEN o + PageSize ELSE Len(all)
           runs == SubSeq(all, o + 1, last)
           items == [n \in DOMAIN runs |-> [run |-> runs[n], state |-> q[runs[n]].state]]
           next == IF Len(items) = PageSize THEN [offset |-> o + PageSize, until |-> u] ELSE NoToken
<1>1. a = [items |-> items, until |-> u, next |-> next]
  BY DEF ReportPage, Listing
<1>2. S \in SUBSET Nat /\ IsFiniteSet(S) /\ \A i \in S : i \in 1..Len(q)
  <2>1. u \in Nat
    OBVIOUS
  <2>2. \A i \in S : i \in 1..u
    BY DEF Over
  <2> QED BY <2>1, <2>2, OverFinite
<1>p. PageSize \in Nat \ {0}
  BY PageAssumption
<1>o. o \in Nat
  OBVIOUS
<1> HIDE DEF S
<1>3. PICK c \in Nat : c = Cardinality(S)
  BY <1>2, FS_CardinalityType
<1>4. all \in Seq(S) /\ Len(all) = c /\ \A n \in 1..c : all[n] \in S /\ Rank(S, all[n]) = n - 1
  BY <1>2, <1>3, InOrderRanks
<1>5. o <= c
  BY <1>3 DEF S
<1> HIDE DEF all
<1>6. /\ last \in 0..c /\ o <= last
      /\ last = o + PageSize \/ (last = c /\ last < o + PageSize) \/ (last = c /\ last = o + PageSize)
      /\ last <= o + PageSize
  BY <1>3, <1>4, <1>5, <1>p, <1>o
<1> HIDE DEF o, last
<1>7. PICK k \in Nat : k = last - o
  BY <1>6, <1>o
<1>8. /\ runs \in Seq(S) /\ Len(runs) = k
      /\ \A n \in 1..k : o + n \in 1..c /\ runs[n] = all[o + n]
  <2>1. \A n \in 1..k : o + n \in 1..c
    BY <1>o, <1>6, <1>7
  <2>2. last = o + k /\ o + 1 \in Int /\ last \in Int
    BY <1>6, <1>7, <1>o
  <2>a. ASSUME NEW i \in (o + 1)..(o + k) PROVE i \in 1..c
    BY <1>6, <1>7, <1>o, <2>a
  <2>3. \A i \in (o + 1)..(o + k) : all[i] \in S
    BY <1>4, <2>a
  <2>4. Len(runs) = (IF o + 1 <= last THEN last - (o + 1) + 1 ELSE 0)
    BY <1>4, <2>2, SubSeqProperties
  <2>5. Len(runs) = k
    BY <1>7, <1>6, <1>o, <2>2, <2>4
  <2>6. runs = [n \in 1..k |-> all[o + n]]
    BY <1>o, <1>4, <1>6, <1>7, <2>2
  <2> HIDE DEF runs
  <2>7. runs \in [1..k -> S]
    <3>1. \A n \in 1..k : all[o + n] \in S
      BY <1>4, <2>1
    <3> QED BY <2>6, <3>1
  <2>8. runs \in Seq(S)
    BY <2>7
  <2>9. \A n \in 1..k : runs[n] = all[o + n]
    BY <2>6
  <2> QED BY <2>1, <2>5, <2>8, <2>9
<1> HIDE DEF runs
<1>9. ASSUME NEW n \in 1..k PROVE runs[n] \in S /\ Rank(S, runs[n]) = o + n - 1
  <2>1. PICK i \in 1..c : i = o + n /\ runs[n] = all[i]
    BY <1>8
  <2>2. all[i] \in S /\ Rank(S, all[i]) = i - 1
    BY <1>4
  <2>3. i - 1 = o + n - 1
    BY <1>o, <2>1
  <2> QED BY <2>1, <2>2, <2>3
<1>10. items = [n \in 1..k |-> [run |-> runs[n], state |-> q[runs[n]].state]]
  BY <1>8
<1>11. \A n \in 1..k : [run |-> runs[n], state |-> q[runs[n]].state] \in Rows
  <2> SUFFICES ASSUME NEW n \in 1..k PROVE [run |-> runs[n], state |-> q[runs[n]].state] \in Rows
    OBVIOUS
  <2>1. runs[n] \in Nat /\ runs[n] \in 1..Len(q)
    BY <1>2, <1>9
  <2>2. q[runs[n]] \in Runs
    BY <2>1
  <2>3. PICK x : x = runs[n]
    OBVIOUS
  <2>4. q[x].state \in {"started", "stopping", "finished", "cancelled", "failed", "stopped", "crashed"}
    BY <2>2, <2>3 DEF Runs, Active
  <2> QED BY <2>1, <2>3, <2>4 DEF Rows
<1> HIDE DEF items
<1>12. items \in Seq(Rows) /\ Len(items) = k
  <2>1. items \in [1..k -> Rows]
    BY <1>10, <1>11
  <2> QED BY <2>1
<1>13. \A n \in 1..k : items[n].run = runs[n]
  BY <1>10
<1>14. o + k <= c
  BY <1>6, <1>7, <1>o
<1>15. next = NoToken => o + k = c
  <2>1. [offset |-> o + PageSize, until |-> u] # NoToken
    <3>1. o + PageSize # 0
      BY <1>o, <1>p
    <3> QED BY <3>1 DEF NoToken
  <2>2. next = NoToken => k # PageSize
    BY <1>12, <2>1
  <2>3. k # PageSize => o + k = c
    BY <1>6, <1>7, <1>o, <1>p
  <2> QED BY <2>2, <2>3
<1>16. next # NoToken => next.offset = o + k /\ next.until = u
  BY <1>12
<1> HIDE DEF next
<1>17. a.items = items /\ a.next = next
  BY <1>1
<1> QED BY <1>3, <1>9, <1>12, <1>13, <1>14, <1>15, <1>16, <1>17 DEF S, o

\* A server whose runs start, stop and end, and none is resumed.
Grown(p, q) ==
  /\ q \in Seq(Runs) /\ Len(p) <= Len(q) /\ OnlyLastActive(q)
  /\ \A i \in 1..Len(p) : /\ q[i].type = p[i].type
                          /\ p[i].state \notin Active => q[i].state \notin Active

\* Reports are added behind the ones that are there.
LEMMA GrownOver ==
  ASSUME NEW p \in Seq(Runs), NEW q, OnlyLastActive(p), Grown(p, q), NEW kind
  PROVE  /\ \A u \in 0..Len(p) : Over(p, kind, u) \subseteq Over(q, kind, u)
         /\ Over(p, kind, Len(p)) \subseteq Over(q, kind, Len(q))
         /\ \A i \in Over(p, kind, Len(p)) : \A j \in Over(q, kind, Len(q)) \ Over(p, kind, Len(p)) : i < j
<1> DEFINE P(i) == p[i].type = kind /\ p[i].state \notin Active
           Q(i) == q[i].type = kind /\ q[i].state \notin Active
<1>1. PICK m \in Nat, n \in Nat : m = Len(p) /\ n = Len(q) /\ m <= n
  BY DEF Grown
<1>2. \A i \in 1..m : P(i) => Q(i)
  BY <1>1 DEF Grown
<1>3. \A i \in 1..m : i # m /\ Q(i) => P(i)
  BY <1>1 DEF Grown, OnlyLastActive
<1>4. /\ \A i, u : i \in Over(p, kind, u) <=> i \in 1..u /\ P(i)
      /\ \A i, u : i \in Over(q, kind, u) <=> i \in 1..u /\ Q(i)
  BY DEF Over
<1> HIDE DEF P, Q
<1>5. \A u \in 0..m : Over(p, kind, u) \subseteq Over(q, kind, u)
  <2> SUFFICES ASSUME NEW u \in 0..m, NEW i \in Over(p, kind, u) PROVE i \in Over(q, kind, u)
    OBVIOUS
  <2>1. i \in 1..u /\ P(i)
    BY <1>4
  <2>2. i \in 1..m
    BY <2>1
  <2> QED BY <1>2, <1>4, <2>1, <2>2
<1>6. Over(p, kind, m) \subseteq Over(q, kind, n)
  <2> SUFFICES ASSUME NEW i \in Over(p, kind, m) PROVE i \in Over(q, kind, n)
    OBVIOUS
  <2>1. i \in 1..m /\ P(i)
    BY <1>4
  <2>2. i \in 1..n
    BY <1>1, <2>1
  <2> QED BY <1>2, <1>4, <2>1, <2>2
<1>7. ASSUME NEW i \in Over(p, kind, m), NEW j \in Over(q, kind, n) \ Over(p, kind, m)
      PROVE  i < j
  <2>1. i \in 1..m /\ P(i)
    BY <1>4
  <2>2. j \in 1..n /\ Q(j)
    BY <1>4
  <2>3. ~(j \in 1..m /\ P(j))
    BY <1>4
  <2>4. ~(j < m)
    <3> SUFFICES ASSUME j < m PROVE FALSE
      OBVIOUS
    <3>1. j \in 1..m /\ j # m
      BY <2>2
    <3> QED BY <1>3, <2>2, <2>3, <3>1
  <2>5. i # j
    BY <2>1, <2>3
  <2> QED BY <2>1, <2>2, <2>4, <2>5
<1> QED BY <1>1, <1>5, <1>6, <1>7

LEMMA GrownKeeps ==
  ASSUME NEW p \in Seq(Runs), NEW q, Grown(p, q), NEW r, PagesOK(r, p)
  PROVE  PagesOK(r, q)
<1>0. PICK m \in Nat, n \in Nat : m = Len(p) /\ n = Len(q) /\ m <= n
  BY DEF Grown
<1>1. OnlyLastActive(p) /\ OnlyLastActive(q)
  BY DEF PagesOK, Grown
<1>2. PICK S, T : S = Over(p, r.kind, m) /\ T = Over(q, r.kind, n)
  OBVIOUS
<1>3. S \in SUBSET Nat /\ T \in SUBSET Nat
  BY <1>2, OverFinite
<1>4. S \subseteq T /\ \A i \in S : \A j \in T \ S : i < j
  BY <1>0, <1>1, <1>2, GrownOver
<1>5. \A rows : Begins(rows, S) => Begins(rows, T)
  BY <1>3, <1>4, BeginsStays
<1>6. ASSUME NEW token, NEW rows \in Seq(Rows), Continues(token, rows, p, r.kind, r.seen)
      PROVE  Continues(token, rows, q, r.kind, r.seen)
  <2>1. CASE token = NoToken
    BY <1>6, <2>1 DEF Continues
  <2>2. CASE token # NoToken
    <3>1. /\ token.offset = Len(rows) /\ token.until \in 0..m
          /\ Len(rows) <= Cardinality(Over(p, r.kind, token.until))
          /\ r.seen \subseteq Over(p, r.kind, token.until)
      BY <1>0, <1>6, <2>2 DEF Continues
    <3>2. PICK u \in 0..m : u = token.until
      BY <3>1
    <3>a. \A v \in 0..Len(p) : Over(p, r.kind, v) \subseteq Over(q, r.kind, v)
      BY <1>1, GrownOver
    <3>b. u \in Nat
      OBVIOUS
    <3>3. Over(p, r.kind, u) \subseteq Over(q, r.kind, u) /\ IsFiniteSet(Over(q, r.kind, u))
      BY <1>0, <3>a, <3>b, OverFinite
    <3>4. PICK A, B : A = Over(p, r.kind, u) /\ B = Over(q, r.kind, u)
      OBVIOUS
    <3>5. /\ IsFiniteSet(A) /\ Cardinality(A) \in Nat /\ Cardinality(B) \in Nat
          /\ Cardinality(A) <= Cardinality(B)
      BY <3>3, <3>4, FS_Subset, FS_CardinalityType
    <3>6. Len(rows) \in Nat /\ Len(rows) <= Cardinality(A)
      BY <3>1, <3>2, <3>4
    <3>7. Len(rows) <= Cardinality(B)
      BY <3>5, <3>6
    <3>8. u \in 0..n
      BY <1>0
    <3> QED BY <1>0, <2>2, <3>1, <3>2, <3>3, <3>4, <3>7, <3>8 DEF Continues
  <2> QED BY <2>1, <2>2
<1>7. /\ r.items \in Seq(Rows) /\ Begins(r.items, S)
      /\ r.loaded => Continues(r.nextToken, r.items, p, r.kind, r.seen)
      /\ r.page.is = "done" => /\ Joined(r) \in Seq(Rows) /\ Begins(Joined(r), S)
                               /\ Continues(r.page.answer.next, Joined(r), p, r.kind, r.seen)
  BY <1>0, <1>2 DEF PagesOK
<1>8. /\ r.items \in Seq(Rows) /\ Begins(r.items, T)
      /\ r.loaded => Continues(r.nextToken, r.items, q, r.kind, r.seen)
      /\ r.page.is = "done" => /\ Joined(r) \in Seq(Rows) /\ Begins(Joined(r), T)
                               /\ Continues(r.page.answer.next, Joined(r), q, r.kind, r.seen)
  BY <1>5, <1>6, <1>7
<1>9. /\ r.nextToken # NoToken => r.loaded
      /\ r.page.is # "idle" => /\ r.page.token = r.nextToken
                               /\ r.page.token # NoToken <=> r.loaded
  BY DEF PagesOK
<1> QED BY <1>0, <1>1, <1>2, <1>8, <1>9 DEF PagesOK

-----------------------------------------------------------------------------
(* The runs of the servers. *)

\* On every server runs start, stop and end, and none is resumed.
ServerStep == \A c \in Conns : OnlyLastActive(server[c]) => Grown(server[c], server'[c])

LEMMA SameGrown ==
  ASSUME NEW p \in Seq(Runs), OnlyLastActive(p)
  PROVE  Grown(p, p)
BY DEF Grown

LEMMA StartedGrown ==
  ASSUME NEW p \in Seq(Runs), NEW type \in Keys, ~IsRunning(p, 0)
  PROVE  Grown(p, Started(p, type))
<1>1. PICK m \in Nat : m = Len(p)
  OBVIOUS
<1>2. \A i \in 1..m : p[i].state \notin Active
  <2> SUFFICES ASSUME NEW i \in 1..m, p[i].state \in Active PROVE FALSE
    OBVIOUS
  <2>1. p[i] \in Runs /\ i \in DOMAIN p
    BY <1>1
  <2>2. p[i].type \in {"backup", "restore"}
    BY <2>1 DEF Runs
  <2>3. i \in ActiveRuns(p, {"backup", "restore"})
    BY <2>1, <2>2 DEF ActiveRuns
  <2> QED BY <2>3 DEF IsRunning
<1>3. RunOf(type) \in Runs
  BY DEF RunOf, Runs, Keys, Active
<1>4. PICK q : q = Append(p, RunOf(type))
  OBVIOUS
<1>5. q \in Seq(Runs) /\ Len(q) = m + 1 /\ \A i \in 1..m : q[i] = p[i]
  BY <1>1, <1>3, <1>4
<1>6. OnlyLastActive(q)
  <2> SUFFICES ASSUME NEW i \in 1..(m + 1), q[i].state \in Active PROVE i = m + 1
    BY <1>5 DEF OnlyLastActive
  <2>1. i \in 1..m => FALSE
    BY <1>2, <1>5
  <2> QED BY <2>1
<1>7. m <= m + 1
  OBVIOUS
<1>8. Grown(p, q)
  BY <1>1, <1>5, <1>6, <1>7 DEF Grown
<1> QED BY <1>4, <1>8 DEF Started

LEMMA StoppedGrown ==
  ASSUME NEW p \in Seq(Runs), NEW run, OnlyLastActive(p)
  PROVE  Grown(p, Stopped(p, run))
<1>1. PICK m \in Nat : m = Len(p) /\ DOMAIN p = 1..m
  OBVIOUS
<1>2. PICK q : q = Stopped(p, run)
  OBVIOUS
<1>3. \A i \in 1..m : p[i] \in Runs
  BY <1>1
<1>4. q = [i \in 1..m |-> IF p[i].state \in Active /\ run \in {0, i}
                          THEN [p[i] EXCEPT !.state = "stopping"] ELSE p[i]]
  BY <1>1, <1>2 DEF Stopped
<1>5. \A i \in 1..m : /\ q[i] \in Runs /\ q[i].type = p[i].type
                      /\ q[i].state \in Active <=> p[i].state \in Active
  <2> SUFFICES ASSUME NEW i \in 1..m
               PROVE  /\ q[i] \in Runs /\ q[i].type = p[i].type
                      /\ q[i].state \in Active <=> p[i].state \in Active
    OBVIOUS
  <2>1. CASE q[i] = p[i]
    BY <1>3, <2>1
  <2>2. CASE q[i] = [p[i] EXCEPT !.state = "stopping"] /\ p[i].state \in Active
    <3>1. p[i] \in Runs
      BY <1>3
    <3>2. q[i] \in Runs /\ q[i].type = p[i].type /\ q[i].state = "stopping"
      BY <2>2, <3>1 DEF Runs, Active
    <3> QED BY <2>2, <3>2 DEF Active
  <2> QED BY <1>4, <2>1, <2>2
<1>6. q \in [1..m -> Runs]
  BY <1>4, <1>5
<1>7. q \in Seq(Runs) /\ Len(q) = m
  BY <1>6
<1>8. OnlyLastActive(q)
  BY <1>1, <1>5, <1>7 DEF OnlyLastActive
<1> QED BY <1>1, <1>2, <1>5, <1>7, <1>8 DEF Grown

LEMMA EndedGrown ==
  ASSUME NEW p \in Seq(Runs), NEW j \in 1..Len(p), NEW state \in {"cancelled", "finished", "failed"},
         OnlyLastActive(p), p[j].state \in Active
  PROVE  Grown(p, [p EXCEPT ![j].state = state])
<1>1. PICK m \in Nat : m = Len(p) /\ DOMAIN p = 1..m
  OBVIOUS
<1>2. PICK q : q = [p EXCEPT ![j] = [p[j] EXCEPT !.state = state]]
  OBVIOUS
<1>3. p[j] \in Runs
  OBVIOUS
<1>4. PICK e : e = [p[j] EXCEPT !.state = state]
  OBVIOUS
<1>5. e \in Runs /\ e.type = p[j].type /\ e.state \notin Active
  BY <1>3, <1>4 DEF Runs, Active
<1>6. q \in Seq(Runs) /\ Len(q) = m /\ q[j] = e /\ \A i \in 1..m : i # j => q[i] = p[i]
  BY <1>1, <1>2, <1>4, <1>5
<1>7. OnlyLastActive(q)
  BY <1>1, <1>5, <1>6 DEF OnlyLastActive
<1>8. Grown(p, q)
  BY <1>1, <1>5, <1>6, <1>7 DEF Grown
<1> QED BY <1>2, <1>8

\* The steps of others, of the page and of the dialog that starts a restore.
LEMMA OneServerGrows ==
  ASSUME ServersOK, NEW c \in Conns, NEW q, server' = [server EXCEPT ![c] = q],
         OnlyLastActive(server[c]) => Grown(server[c], q)
  PROVE  ServerStep
<1> SUFFICES ASSUME NEW b \in Conns, OnlyLastActive(server[b]) PROVE Grown(server[b], server'[b])
  BY DEF ServerStep
<1>1. server[b] \in Seq(Runs)
  BY DEF ServersOK
<1>2. CASE b = c
  <2>1. server'[b] = q
    BY <1>2 DEF ServersOK
  <2> QED BY <1>2, <2>1
<1>3. CASE b # c
  <2>1. server'[b] = server[b]
    BY <1>3 DEF ServersOK
  <2> QED BY <1>1, <2>1, SameGrown
<1> QED BY <1>2, <1>3

LEMMA NoServerChanges ==
  ASSUME ServersOK, server' = server
  PROVE  ServerStep
<1> SUFFICES ASSUME NEW b \in Conns, OnlyLastActive(server[b]) PROVE Grown(server[b], server'[b])
  BY DEF ServerStep
<1>1. server[b] \in Seq(Runs) /\ server'[b] = server[b]
  BY DEF ServersOK
<1> QED BY <1>1, SameGrown

LEMMA OthersGrow ==
  ASSUME ServersOK, Others
  PROVE  ServerStep
<1>1. ASSUME NEW c \in Conns, RunEnds(c) PROVE ServerStep
  <2>0. server[c] \in Seq(Runs)
    BY DEF ServersOK
  <2>1. PICK i \in ActiveRuns(server[c], Keys) :
          \E state \in {"cancelled", "finished", "failed"} :
            server' = [server EXCEPT ![c][i].state = state]
    BY <1>1 DEF RunEnds
  <2>2. PICK state \in {"cancelled", "finished", "failed"} :
          server' = [server EXCEPT ![c] = [server[c] EXCEPT ![i].state = state]]
    BY <2>1
  <2>3. i \in 1..Len(server[c]) /\ server[c][i].state \in Active
    BY <2>0 DEF ActiveRuns
  <2>4. OnlyLastActive(server[c]) => Grown(server[c], [server[c] EXCEPT ![i].state = state])
    BY <2>0, <2>3, EndedGrown
  <2> QED BY <2>2, <2>4, OneServerGrows
<1>2. ASSUME NEW c \in Conns, NEW type \in Keys, OtherStart(c, type) PROVE ServerStep
  <2>0. server[c] \in Seq(Runs)
    BY DEF ServersOK
  <2>1. ~IsRunning(server[c], 0) /\ server' = [server EXCEPT ![c] = Started(server[c], type)]
    BY <1>2 DEF OtherStart
  <2>2. Grown(server[c], Started(server[c], type))
    BY <2>0, <2>1, StartedGrown
  <2> QED BY <2>1, <2>2, OneServerGrows
<1> QED BY <1>1, <1>2 DEF Others

LEMMA AppGrows ==
  ASSUME CommandInv, NextApp
  PROVE  ServerStep /\ modal' = modal /\ (modal # "none" => conn' = conn)
<1>0. ServersOK /\ CallsOK
  BY DEF CommandInv
<1>1. CASE Others
  BY <1>0, <1>1, OthersGrow DEF Others, RunEnds, OtherStart
<1>2. ASSUME NEW k \in Slots, ServeCommand(k)
      PROVE  ServerStep /\ modal' = modal /\ conn' = conn
  <2>1. calls[k].op \in {"start", "stop"} /\ modal' = modal /\ conn' = conn
    BY <1>2 DEF ServeCommand
  <2>2. PICK c \in Conns : c = calls[k].conn
    BY <1>0, <2>1 DEF CallsOK, CallOK
  <2>3. server[c] \in Seq(Runs)
    BY <1>0 DEF ServersOK
  <2>4. \/ ~IsRunning(server[c], 0) /\ server' = [server EXCEPT ![c] = Started(server[c], "backup")]
        \/ server' = [server EXCEPT ![c] = Stopped(server[c], calls[k].run)]
    BY <1>2, <2>2 DEF ServeCommand
  <2>5. CASE ~IsRunning(server[c], 0) /\ server' = [server EXCEPT ![c] = Started(server[c], "backup")]
    <3>1. Grown(server[c], Started(server[c], "backup"))
      BY <2>3, <2>5, StartedGrown DEF Keys
    <3> QED BY <1>0, <2>1, <2>5, <3>1, OneServerGrows
  <2>6. CASE server' = [server EXCEPT ![c] = Stopped(server[c], calls[k].run)]
    <3>1. OnlyLastActive(server[c]) => Grown(server[c], Stopped(server[c], calls[k].run))
      BY <2>3, StoppedGrown
    <3> QED BY <1>0, <2>1, <2>6, <3>1, OneServerGrows
  <2> QED BY <2>4, <2>5, <2>6
<1>3. ASSUME NEW c \in Conns, OnSaveConn(c)
      PROVE  server' = server /\ modal' = modal /\ (modal # "none" => conn' = conn)
  BY <1>3 DEF OnSaveConn
<1>4. CASE \E k \in Slots : \/ ServeList(k) \/ ServeRestores(k)
                            \/ RefreshDone(k) \/ RefreshFailed(k) \/ CommandDone(k) \/ CommandFailed(k)
  <2>1. server' = server /\ modal' = modal /\ conn' = conn
    BY <1>4 DEF ServeList, ServeRestores, RefreshDone, RefreshFailed, CommandDone, CommandFailed
  <2> QED BY <1>0, <2>1, NoServerChanges
<1>5. CASE RunEffects \/ Tick \/ \E r \in asking : VersionAnswer(r)
  <2>1. server' = server /\ modal' = modal /\ conn' = conn
    BY <1>5 DEF RunEffects, Tick, VersionAnswer
  <2> QED BY <1>0, <2>1, NoServerChanges
<1>6. CASE OnStart \/ OnStop \/ OnStopRestore \/ OnRefresh
  <2>1. server' = server /\ modal' = modal /\ conn' = conn
    BY <1>6 DEF OnStart, OnStop, OnStopRestore, OnRefresh, Press
  <2> QED BY <1>0, <2>1, NoServerChanges
<1>7. CASE \E c \in Conns : OnSaveConn(c)
  <2>1. server' = server /\ modal' = modal /\ (modal # "none" => conn' = conn)
    BY <1>3, <1>7
  <2> QED BY <1>0, <2>1, NoServerChanges
<1> QED BY <1>1, <1>2, <1>4, <1>5, <1>6, <1>7 DEF NextApp, Others

LEMMA StartGrows ==
  ASSUME CommandInv, NextStart
  PROVE  ServerStep /\ conn' = conn /\ reports' = reports /\ (Open' => Open)
<1>0. ServersOK /\ RequestOK(submit)
  BY DEF CommandInv
<1>1. CASE ServeSubmit
  <2>1. PICK c \in Conns : c = submit.conn
    BY <1>0, <1>1 DEF ServeSubmit, RequestOK
  <2>2. ~IsRunning(server[c], 0) /\ server' = [server EXCEPT ![c] = Started(server[c], "restore")]
    BY <1>1, <2>1 DEF ServeSubmit
  <2>3. server[c] \in Seq(Runs)
    BY <1>0 DEF ServersOK
  <2>4. Grown(server[c], Started(server[c], "restore"))
    BY <2>2, <2>3, StartedGrown DEF Keys
  <2>5. ServerStep
    BY <1>0, <2>2, <2>4, OneServerGrows
  <2> QED BY <1>1, <2>5 DEF ServeSubmit, reportVars, Open
<1>2. CASE OpenRestoreStart \/ CloseRestoreStart
  <2>1. server' = server /\ conn' = conn /\ reports' = reports /\ ~Open'
    BY <1>2 DEF OpenRestoreStart, CloseRestoreStart, reportVars, Open
  <2> QED BY <1>0, <2>1, NoServerChanges
<1>3. CASE SourcesDone \/ SourcesFailed \/ ToggleAllFiles \/ \E i \in 0..MaxRuns : SelectSource(i)
  <2>1. server' = server /\ conn' = conn /\ reports' = reports /\ modal' = modal
    BY <1>3 DEF SourcesDone, SourcesFailed, ToggleAllFiles, SelectSource, appVars, reportVars
  <2> QED BY <1>0, <2>1, NoServerChanges DEF Open
<1>4. CASE \E i \in 1..MaxClicks : ListDone(i) \/ ListFailed(i)
  <2>1. server' = server /\ conn' = conn /\ reports' = reports /\ modal' = modal
    BY <1>4 DEF ListDone, ListFailed, appVars, reportVars
  <2> QED BY <1>0, <2>1, NoServerChanges DEF Open
<1>5. CASE GoUp \/ RefreshDir \/ \E p \in Paths : EnterDir(p) \/ ToggleSelect(p)
  <2>1. server' = server /\ conn' = conn /\ reports' = reports /\ modal' = modal
    BY <1>5 DEF GoUp, RefreshDir, EnterDir, ToggleSelect, appVars
  <2> QED BY <1>0, <2>1, NoServerChanges DEF Open
<1>6. CASE OnSubmit \/ SubmitFailed
  <2>1. server' = server /\ conn' = conn /\ reports' = reports /\ modal' = modal
    BY <1>6 DEF OnSubmit, SubmitFailed, appVars, reportVars
  <2> QED BY <1>0, <2>1, NoServerChanges DEF Open
<1>7. CASE SubmitDone
  <2>1. /\ server' = server /\ conn' = conn /\ reports' = reports
        /\ modal' = IF IsOpen THEN "none" ELSE modal
    BY <1>7 DEF SubmitDone, reportVars
  <2> QED BY <1>0, <2>1, NoServerChanges DEF Open
<1> QED BY <1>1, <1>2, <1>3, <1>4, <1>5, <1>6, <1>7 DEF NextStart

-----------------------------------------------------------------------------
(* The list of reports. *)

\* A dialog when it is opened, and when it is closed.
LEMMA NewReports ==
  /\ \A kind : /\ ReportsOK(FreshReports(kind)) /\ FreshReports(kind).items = <<>>
               /\ FreshReports(kind).nextToken = NoToken /\ ~FreshReports(kind).loaded
               /\ FreshReports(kind).page.is = "sent" /\ FreshReports(kind).page.token = NoToken
  /\ ReportsOK(Closed)
  /\ DOMAIN Idle = {"is", "token", "answer"} /\ Idle.is = "idle"
<1>1. DOMAIN Idle = {"is", "token", "answer"} /\ Idle.is = "idle" /\ Idle.token = NoToken
  BY DEF Idle
<1>2. ASSUME NEW kind
      PROVE  /\ ReportsOK(FreshReports(kind)) /\ FreshReports(kind).items = <<>>
             /\ FreshReports(kind).nextToken = NoToken /\ ~FreshReports(kind).loaded
             /\ FreshReports(kind).page.is = "sent" /\ FreshReports(kind).page.token = NoToken
  <2>1. PICK page : page = [Idle EXCEPT !.is = "sent"]
    OBVIOUS
  <2>2. DOMAIN page = {"is", "token", "answer"} /\ page.is = "sent" /\ page.token = NoToken
    BY <1>1, <2>1
  <2>3. /\ DOMAIN FreshReports(kind) = ReportFields /\ FreshReports(kind).page = page
        /\ FreshReports(kind).items = <<>> /\ FreshReports(kind).nextToken = NoToken
        /\ ~FreshReports(kind).loaded
    BY <2>1 DEF FreshReports, ReportFields
  <2> QED BY <2>2, <2>3 DEF ReportsOK
<1>3. ReportsOK(Closed)
  <2>1. PICK r : r = FreshReports("backup") /\ DOMAIN r = ReportFields
    BY <1>2 DEF ReportsOK
  <2>2. Closed = [r EXCEPT !.page = Idle]
    BY <2>1 DEF Closed
  <2>3. DOMAIN Closed = ReportFields /\ Closed.page = Idle
    BY <2>1, <2>2 DEF ReportFields
  <2> QED BY <1>1, <2>3 DEF ReportsOK
<1> QED BY <1>1, <1>2, <1>3

LEMMA OpenedOK ==
  ASSUME NEW kind, NEW q \in Seq(Runs), OnlyLastActive(q), NEW r, ReportsOK(r), r.items = <<>>,
         r.nextToken = NoToken, ~r.loaded, r.page.is = "sent", r.page.token = NoToken
  PROVE  PagesOK(r, q)
<1>1. r.items \in Seq(Rows) /\ Len(r.items) = 0
  OBVIOUS
<1>2. \A S : Begins(r.items, S)
  BY <1>1 DEF Begins
<1> QED BY <1>1, <1>2 DEF PagesOK

\* A dialog that has the same pages.
SamePages(r, e) ==
  /\ ReportsOK(e) /\ e.kind = r.kind /\ e.items = r.items /\ e.nextToken = r.nextToken
  /\ e.page = r.page /\ e.seen = r.seen /\ e.loaded = r.loaded

LEMMA SamePagesOK ==
  ASSUME NEW r, NEW e, NEW q, SamePages(r, e), PagesOK(r, q)
  PROVE  PagesOK(e, q)
<1>1. Joined(e) = Joined(r)
  BY DEF SamePages, Joined
<1> QED BY <1>1 DEF SamePages, PagesOK

\* The server answers with a page.
LEMMA ServedOK ==
  ASSUME NEW r, NEW q \in Seq(Runs), PagesOK(r, q), r.page.is = "sent",
         NEW a, a = ReportPage(q, r.kind, r.page.token),
         NEW e, e.kind = r.kind, e.items = r.items, e.nextToken = r.nextToken, e.loaded = r.loaded,
         e.page.is = "done", e.page.token = r.page.token, e.page.answer = a,
         e.seen = IF r.page.token = NoToken THEN Range(Listing(q, r.kind, Len(q))) ELSE r.seen
  PROVE  PagesOK(e, q)
<1>0. PICK m \in Nat : m = Len(q)
  OBVIOUS
<1>1. /\ OnlyLastActive(q) /\ r.items \in Seq(Rows) /\ Begins(r.items, Over(q, r.kind, m))
      /\ r.loaded => Continues(r.nextToken, r.items, q, r.kind, r.seen)
      /\ r.page.token = r.nextToken /\ (r.page.token # NoToken <=> r.loaded)
      /\ r.nextToken # NoToken => r.loaded
  BY <1>0 DEF PagesOK
<1>2. PICK token : token = r.page.token
  OBVIOUS
<1>3. PICK rows : rows = IF token = NoToken THEN <<>> ELSE r.items
  OBVIOUS
<1>4. PICK u : u = IF token = NoToken THEN m ELSE token.until
  OBVIOUS
<1>S. PICK S : S = Over(q, r.kind, m)
  OBVIOUS
<1>U. PICK U : U = Over(q, r.kind, u)
  OBVIOUS
<1>5. /\ rows \in Seq(Rows) /\ token.offset = Len(rows) /\ u \in 0..m
      /\ Len(rows) <= Cardinality(U) /\ Begins(rows, S) /\ e.seen \subseteq U
  <2>1. CASE token = NoToken
    <3>1. rows = <<>> /\ u = m
      BY <1>3, <1>4, <2>1
    <3>2. rows \in Seq(Rows) /\ Len(rows) = 0 /\ token.offset = 0 /\ u \in 0..m
      BY <2>1, <3>1 DEF NoToken
    <3>3. Begins(rows, S)
      BY <3>2 DEF Begins
    <3>4. U \in SUBSET Nat /\ IsFiniteSet(U)
      BY <1>U, <3>1, OverFinite
    <3>5. PICK c \in Nat : c = Cardinality(U)
      BY <3>4, FS_CardinalityType
    <3>6. 0 <= Cardinality(U)
      BY <3>5
    <3>7. e.seen = Range(InOrder(U))
      BY <1>0, <1>2, <1>U, <2>1, <3>1 DEF Listing
    <3>8. PICK t \in Seq(U) : t = InOrder(U)
      BY <3>4, InOrderRanks
    <3>a. \A n \in DOMAIN t : t[n] \in U
      OBVIOUS
    <3>9. e.seen \subseteq U
      BY <3>7, <3>8, <3>a DEF Range
    <3> QED BY <3>2, <3>3, <3>6, <3>9
  <2>2. CASE token # NoToken
    <3>1. Continues(token, r.items, q, r.kind, r.seen)
      BY <1>1, <1>2, <2>2
    <3>2. /\ token.offset = Len(r.items) /\ token.until \in 0..m
          /\ Len(r.items) <= Cardinality(Over(q, r.kind, token.until))
          /\ r.seen \subseteq Over(q, r.kind, token.until)
      BY <1>0, <2>2, <3>1 DEF Continues
    <3>3. rows = r.items /\ u = token.until /\ e.seen = r.seen
      BY <1>2, <1>3, <1>4, <2>2
    <3> QED BY <1>1, <1>S, <1>U, <3>2, <3>3
  <2> QED BY <2>1, <2>2
<1>6. S \in SUBSET Nat /\ IsFiniteSet(S)
  BY <1>S, OverFinite
<1>7. /\ U \subseteq S
      /\ \A i \in U : \A j \in S : j < i => j \in U
      /\ \A i \in U : \A j \in S \ U : i < j
  BY <1>5, <1>S, <1>U, OverUpTo
<1>8. U \in SUBSET Nat /\ IsFiniteSet(U)
  BY <1>6, <1>7, FS_Subset
<1>9. PICK c \in Nat : c = Cardinality(U)
  BY <1>8, FS_CardinalityType
<1>10. PICK l \in Nat : l = Len(rows) /\ l = token.offset /\ l <= c
  BY <1>5, <1>9
<1>11. PICK items : items = a.items
  OBVIOUS
<1>12. /\ items \in Seq(Rows)
       /\ \A n \in 1..Len(items) : items[n].run \in U /\ Rank(U, items[n].run) = l + n - 1
       /\ l + Len(items) <= c
       /\ a.next = NoToken => l + Len(items) = c
       /\ a.next # NoToken => a.next.offset = l + Len(items) /\ a.next.until = u
  <2>1. token.offset \in Nat /\ u \in 0..Len(q) /\ token.offset <= Cardinality(Over(q, r.kind, u))
    BY <1>0, <1>5, <1>9, <1>10, <1>U
  <2>2. u = IF token = NoToken THEN Len(q) ELSE token.until
    BY <1>0, <1>4
  <2>3. a = ReportPage(q, r.kind, token)
    BY <1>2
  <2> QED BY <1>9, <1>10, <1>11, <1>U, <2>1, <2>2, <2>3, PageServed
<1>13. PICK k \in Nat : k = Len(items)
  BY <1>12
<1>14. PICK all : all = rows \o items
  OBVIOUS
<1>15. /\ all \in Seq(Rows) /\ Len(all) = l + k
       /\ \A n \in 1..l + k : all[n] = IF n <= l THEN rows[n] ELSE items[n - l]
  BY <1>5, <1>10, <1>12, <1>13, <1>14, ConcatProperties
<1>16. Begins(all, S)
  <2> SUFFICES ASSUME NEW n \in 1..l + k
               PROVE  all[n].run \in S /\ Rank(S, all[n].run) = n - 1
    BY <1>15 DEF Begins
  <2>1. CASE n <= l
    <3>1. n \in 1..l /\ all[n] = rows[n]
      BY <1>15, <2>1
    <3> QED BY <1>5, <1>10, <3>1 DEF Begins
  <2>2. CASE ~(n <= l)
    <3>1. PICK i \in 1..k : i = n - l
      BY <2>2
    <3>2. all[n] = items[i]
      BY <1>15, <2>2, <3>1
    <3>3. items[i].run \in U /\ Rank(U, items[i].run) = l + i - 1
      BY <1>12, <1>13
    <3>4. PICK x \in U : x = items[i].run
      BY <3>3
    <3>5. Rank(S, x) = Rank(U, x)
      BY <1>6, <1>7, <1>8, RankStays
    <3>6. l + i - 1 = n - 1
      BY <3>1
    <3> QED BY <1>7, <3>2, <3>3, <3>4, <3>5, <3>6
  <2> QED BY <2>1, <2>2
<1>17. Continues(a.next, all, q, r.kind, e.seen)
  <2>1. CASE a.next = NoToken
    <3>1. Cardinality(U) <= Len(all)
      BY <1>9, <1>12, <1>13, <1>15, <2>1
    <3>2. U \subseteq {all[n].run : n \in 1..Len(all)}
      BY <1>6, <1>7, <1>15, <1>16, <3>1, BeginsWithAll
    <3> QED BY <1>5, <2>1, <3>2 DEF Continues
  <2>2. CASE a.next # NoToken
    <3>1. a.next.offset = Len(all) /\ a.next.until = u /\ Len(all) <= Cardinality(U)
      BY <1>9, <1>12, <1>13, <1>15, <2>2
    <3> QED BY <1>0, <1>5, <1>U, <2>2, <3>1 DEF Continues
  <2> QED BY <2>1, <2>2
<1>18. Joined(e) = all
  BY <1>2, <1>3, <1>11, <1>14 DEF Joined
<1>19. e.loaded => Continues(e.nextToken, e.items, q, e.kind, e.seen)
  <2> SUFFICES ASSUME e.loaded PROVE Continues(e.nextToken, e.items, q, e.kind, e.seen)
    OBVIOUS
  <2>1. token # NoToken
    BY <1>1, <1>2
  <2>2. e.seen = r.seen
    BY <1>2, <2>1
  <2> QED BY <1>1, <2>2
<1>20. e.page.is # "idle" /\ e.page.is = "done" /\ e.page.token = e.nextToken /\ (e.page.token # NoToken <=> e.loaded)
  BY <1>1
<1> QED BY <1>0, <1>1, <1>16, <1>17, <1>15, <1>18, <1>19, <1>20, <1>S DEF PagesOK

\* A page is put in, or its request failed, or the next one is requested.
LEMMA PutIn ==
  ASSUME NEW r, NEW q, PagesOK(r, q), r.page.is = "done",
         NEW e, e.kind = r.kind, e.items = Joined(r), e.nextToken = r.page.answer.next,
         e.page.is = "idle", e.loaded, e.seen = r.seen
  PROVE  PagesOK(e, q)
BY DEF PagesOK

LEMMA PageEnds ==
  ASSUME NEW r, NEW q, PagesOK(r, q),
         NEW e, e.kind = r.kind, e.items = r.items, e.nextToken = r.nextToken, e.loaded = r.loaded,
         e.seen = r.seen,
         \/ e.page.is = "idle"
         \/ e.page.is = "sent" /\ e.page.token = r.nextToken /\ r.nextToken # NoToken
  PROVE  PagesOK(e, q)
BY DEF PagesOK

\* The steps of the dialogs with reports.
LEMMA ReportsKeepPages ==
  ASSUME CommandInv, PagesInv, NextReports
  PROVE  PagesInv'
<1>0. /\ ReportsOK(reports) /\ DOMAIN reports = ReportFields /\ DOMAIN reports.page = {"is", "token", "answer"}
      /\ conn \in Conns /\ server[conn] \in Seq(Runs)
  BY DEF PagesInv, ReportsOK, CommandInv, ServersOK
<1>d. ASSUME ReportsOK(reports'), ~Open' \/ reports'.disturbed PROVE PagesInv'
  BY <1>d DEF PagesInv
<1>k. ASSUME ReportsOK(reports'), Open' => Open, reports'.disturbed = reports.disturbed,
             UNCHANGED <<server, conn>>,
             PagesOK(reports, server[conn]) => PagesOK(reports', server[conn])
      PROVE  PagesInv'
  BY <1>k DEF PagesInv
<1>s. ASSUME SamePages(reports, reports'), Open' => Open, reports'.disturbed = reports.disturbed,
             UNCHANGED <<server, conn>>
      PROVE  PagesInv'
  BY <1>k, <1>s, SamePagesOK DEF SamePages
<1>1. ASSUME NEW kind \in Keys, OpenReports(kind) PROVE PagesInv'
  <2>1. PICK r : r = FreshReports(kind)
    OBVIOUS
  <2>2. PICK b : b = \E i \in ActiveRuns(s, Keys) : i # Len(s)
    OBVIOUS
  <2>3. reports' = [r EXCEPT !.disturbed = b] /\ UNCHANGED <<server, conn>>
    BY <1>1, <2>1, <2>2 DEF OpenReports
  <2>4. DOMAIN r = ReportFields /\ ReportsOK(r)
    BY <2>1, NewReports DEF ReportsOK
  <2>5. /\ DOMAIN reports' = ReportFields /\ reports'.disturbed = b
        /\ reports'.items = r.items /\ reports'.nextToken = r.nextToken /\ reports'.loaded = r.loaded
        /\ reports'.page = r.page
    BY <2>3, <2>4 DEF ReportFields
  <2>6. ReportsOK(reports')
    BY <2>4, <2>5 DEF ReportsOK
  <2>7. ~b => OnlyLastActive(server[conn])
    <3> SUFFICES ASSUME ~b, NEW i \in 1..Len(server[conn]), server[conn][i].state \in Active
                 PROVE  i = Len(server[conn])
      BY DEF OnlyLastActive
    <3>1. server[conn][i] \in Runs /\ i \in DOMAIN server[conn]
      BY <1>0
    <3>2. server[conn][i].type \in Keys
      BY <3>1 DEF Runs, Keys
    <3>3. i \in ActiveRuns(server[conn], Keys)
      BY <3>1, <3>2 DEF ActiveRuns
    <3> QED BY <2>2, <3>3 DEF s
  <2>8. ~b => PagesOK(reports', server[conn])
    BY <1>0, <2>1, <2>5, <2>6, <2>7, NewReports, OpenedOK
  <2> QED BY <2>3, <2>5, <2>6, <2>8 DEF PagesInv
<1>2. CASE CloseReports
  BY <1>2, <1>d, NewReports DEF CloseReports, Open
<1>3. CASE ServePage
  <2> DEFINE a == ReportPage(s, reports.kind, reports.page.token)
             seen == IF reports.page.token = NoToken THEN Range(Listing(s, reports.kind, Len(s)))
                     ELSE reports.seen
  <2>1. /\ reports.page.is = "sent" /\ UNCHANGED <<server, conn, modal>>
        /\ reports' = [reports EXCEPT !.page.is = "done", !.page.answer = a, !.seen = seen]
    BY <1>3 DEF ServePage, appVars
  <2>2. a = ReportPage(server[conn], reports.kind, reports.page.token)
    BY DEF s
  <2>3. seen = IF reports.page.token = NoToken THEN Range(Listing(server[conn], reports.kind, Len(server[conn])))
               ELSE reports.seen
    BY DEF s
  <2> HIDE DEF a, seen
  <2>4. /\ DOMAIN reports' = ReportFields /\ DOMAIN reports'.page = {"is", "token", "answer"}
        /\ reports'.kind = reports.kind /\ reports'.items = reports.items
        /\ reports'.nextToken = reports.nextToken /\ reports'.loaded = reports.loaded
        /\ reports'.page.is = "done" /\ reports'.page.token = reports.page.token
        /\ reports'.page.answer = a /\ reports'.seen = seen /\ reports'.disturbed = reports.disturbed
    BY <1>0, <2>1 DEF ReportFields
  <2>5. ReportsOK(reports')
    BY <2>4 DEF ReportsOK
  <2>6. PagesOK(reports, server[conn]) => PagesOK(reports', server[conn])
    BY <1>0, <2>1, <2>2, <2>3, <2>4, ServedOK
  <2> QED BY <1>k, <2>1, <2>4, <2>5, <2>6 DEF Open
<1>4. CASE PageDone
  <2>1. /\ reports.page.is = "done" /\ UNCHANGED <<server, conn, modal>>
        /\ reports' = [reports EXCEPT !.items = Joined(reports), !.nextToken = reports.page.answer.next,
                                      !.page = Idle, !.loaded = TRUE]
    BY <1>4 DEF PageDone, appVars, Joined
  <2>2. /\ DOMAIN reports' = ReportFields /\ reports'.page = Idle
        /\ reports'.kind = reports.kind /\ reports'.items = Joined(reports)
        /\ reports'.nextToken = reports.page.answer.next /\ reports'.loaded
        /\ reports'.seen = reports.seen /\ reports'.disturbed = reports.disturbed
    BY <1>0, <2>1 DEF ReportFields
  <2>3. ReportsOK(reports') /\ reports'.page.is = "idle"
    BY <2>2, NewReports DEF ReportsOK
  <2>4. PagesOK(reports, server[conn]) => PagesOK(reports', server[conn])
    BY <2>1, <2>2, <2>3, PutIn
  <2> QED BY <1>k, <2>1, <2>2, <2>3, <2>4 DEF Open
<1>p. ASSUME NEW page, reports' = [reports EXCEPT !.page = page], UNCHANGED <<server, conn, modal>>,
             DOMAIN page = {"is", "token", "answer"},
             \/ page.is = "idle"
             \/ page.is = "sent" /\ page.token = reports.nextToken /\ reports.nextToken # NoToken
      PROVE  PagesInv'
  <2>1. /\ DOMAIN reports' = ReportFields /\ reports'.page = page
        /\ reports'.kind = reports.kind /\ reports'.items = reports.items
        /\ reports'.nextToken = reports.nextToken /\ reports'.loaded = reports.loaded
        /\ reports'.seen = reports.seen /\ reports'.disturbed = reports.disturbed
    BY <1>0, <1>p DEF ReportFields
  <2>2. ReportsOK(reports')
    BY <1>p, <2>1 DEF ReportsOK
  <2>3. PagesOK(reports, server[conn]) => PagesOK(reports', server[conn])
    BY <1>p, <2>1, PageEnds
  <2> QED BY <1>k, <1>p, <2>1, <2>2, <2>3 DEF Open
<1>5. CASE PageFailed
  <2>1. reports' = [reports EXCEPT !.page = Idle] /\ UNCHANGED <<server, conn, modal>>
    BY <1>5 DEF PageFailed, appVars
  <2> QED BY <1>p, <2>1, NewReports
<1>6. CASE LoadMore
  <2>1. PICK page : page = [Idle EXCEPT !.is = "sent", !.token = reports.nextToken]
    OBVIOUS
  <2>2. DOMAIN page = {"is", "token", "answer"} /\ page.is = "sent" /\ page.token = reports.nextToken
    BY <2>1, NewReports
  <2>3. /\ reports' = [reports EXCEPT !.page = page] /\ UNCHANGED <<server, conn, modal>>
        /\ reports.nextToken # NoToken
    BY <1>6, <2>1 DEF LoadMore, appVars
  <2> QED BY <1>p, <2>2, <2>3
<1>7. ASSUME NEW i, OpenDetail(i) \/ DetailDone(i) \/ DetailFailed(i) PROVE PagesInv'
  <2>2. UNCHANGED <<server, conn, modal>>
    BY <1>7 DEF OpenDetail, DetailDone, DetailFailed, appVars
  <2>3. SamePages(reports, reports') /\ reports'.disturbed = reports.disturbed
    <3>1. CASE OpenDetail(i)
      BY <1>0, <3>1 DEF OpenDetail, SamePages, ReportsOK, ReportFields
    <3>2. CASE DetailDone(i)
      BY <1>0, <3>2 DEF DetailDone, SamePages, ReportsOK, ReportFields
    <3>3. CASE DetailFailed(i)
      BY <1>0, <3>3 DEF DetailFailed, SamePages, ReportsOK, ReportFields
    <3> QED BY <1>7, <3>1, <3>2, <3>3
  <2> QED BY <1>s, <2>2, <2>3 DEF Open
<1>8. CASE BackToList
  <2>1. SamePages(reports, reports') /\ reports'.disturbed = reports.disturbed
    BY <1>0, <1>8 DEF BackToList, SamePages, ReportsOK, ReportFields
  <2> QED BY <1>8, <1>s, <2>1 DEF BackToList, appVars, Open
<1>9. CASE ConfigDone \/ ConfigFailed \/ \E t \in Targets : PickTarget(t)
  <2>2. UNCHANGED <<server, conn, modal>>
    BY <1>9 DEF ConfigDone, ConfigFailed, PickTarget, appVars
  <2>3. SamePages(reports, reports') /\ reports'.disturbed = reports.disturbed
    <3>1. CASE ConfigDone
      BY <1>0, <3>1 DEF ConfigDone, SamePages, ReportsOK, ReportFields
    <3>2. CASE ConfigFailed
      BY <1>0, <3>2 DEF ConfigFailed, SamePages, ReportsOK, ReportFields
    <3>3. CASE \E t \in Targets : PickTarget(t)
      BY <1>0, <3>3 DEF PickTarget, SamePages, ReportsOK, ReportFields
    <3> QED BY <1>9, <3>1, <3>2, <3>3
  <2> QED BY <1>s, <2>2, <2>3 DEF Open
<1>10. CASE OnResume \/ ResumeFailed
  <2>1. SamePages(reports, reports') /\ reports'.disturbed = reports.disturbed
    BY <1>0, <1>10 DEF OnResume, ResumeFailed, SamePages, ReportsOK, ReportFields
  <2> QED BY <1>10, <1>s, <2>1 DEF OnResume, ResumeFailed, appVars, Open
<1>11. ASSUME reports' = [reports EXCEPT !.disturbed = TRUE] PROVE PagesInv'
  <2>1. ReportsOK(reports') /\ reports'.disturbed
    BY <1>0, <1>11 DEF ReportsOK, ReportFields
  <2> QED BY <1>d, <2>1
<1>12. CASE ServeResume \/ \E i \in 1..MaxRuns : OtherResume(i)
  BY <1>11, <1>12 DEF ServeResume, OtherResume
<1>13. CASE ResumeDone
  <2>1. CASE modal = "restoreReports"
    BY <1>13, <1>d, <2>1, NewReports DEF ResumeDone, Open
  <2>2. CASE modal # "restoreReports"
    <3>1. UNCHANGED <<reports, server, conn, modal>>
      BY <1>13, <2>2 DEF ResumeDone
    <3> QED BY <1>0, <1>s, <3>1 DEF SamePages, Open
  <2> QED BY <2>1, <2>2
<1> QED BY <1>1, <1>2, <1>3, <1>4, <1>5, <1>6, <1>7, <1>8, <1>9, <1>10, <1>12, <1>13 DEF NextReports

\* A step of others, of the page or of the other dialog.
LEMMA AwayKeepsPages ==
  ASSUME CommandInv, PagesInv, ServerStep, reports' = reports, Open' => Open /\ conn' = conn
  PROVE  PagesInv'
<1>1. ReportsOK(reports')
  BY DEF PagesInv
<1>2. ASSUME Open', ~reports'.disturbed PROVE PagesOK(reports', server'[conn'])
  <2>1. PagesOK(reports, server[conn]) /\ conn' = conn
    BY <1>2 DEF PagesInv
  <2>2. conn \in Conns /\ server[conn] \in Seq(Runs)
    BY DEF CommandInv, ServersOK
  <2>3. OnlyLastActive(server[conn])
    BY <2>1 DEF PagesOK
  <2>4. Grown(server[conn], server'[conn])
    BY <2>2, <2>3 DEF ServerStep
  <2>5. PagesOK(reports, server'[conn])
    BY <2>1, <2>2, <2>4, GrownKeeps
  <2> QED BY <2>1, <2>5
<1> QED BY <1>1, <1>2 DEF PagesInv

\* Unless a resumed restore is or was active meanwhile, the pages of a list of reports put
\* together are a beginning of the list with nothing twice, whatever starts and ends between
\* one page and the next, and after the last page nothing is missing that was listed at first
\* (loadPage, the next token and the order of the list).
THEOREM PagesFitTogether == Spec => []PagesExact
<1>1. Init => PagesInv
  <2> SUFFICES ASSUME Init PROVE PagesInv
    OBVIOUS
  <2>1. reports = Closed /\ ~Open
    BY DEF Init, InitApp, InitReports, Open
  <2> QED BY <2>1, NewReports DEF PagesInv
<1>2. CommandInv /\ PagesInv /\ [Next]_vars => PagesInv'
  <2> SUFFICES ASSUME CommandInv, PagesInv, [Next]_vars PROVE PagesInv'
    OBVIOUS
  <2>0. ServersOK
    BY DEF CommandInv
  <2>1. CASE NextApp /\ UNCHANGED reportVars
    <3>1. ServerStep /\ modal' = modal /\ (modal # "none" => conn' = conn) /\ reports' = reports
      BY <2>1, AppGrows DEF reportVars
    <3>2. Open' => Open /\ conn' = conn
      BY <3>1 DEF Open
    <3> QED BY <3>1, <3>2, AwayKeepsPages
  <2>2. CASE Others /\ UNCHANGED reportVars
    <3>1. ServerStep /\ reports' = reports
      BY <2>0, <2>2, OthersGrow DEF reportVars
    <3>2. UNCHANGED <<modal, conn>>
      BY <2>2 DEF Others, RunEnds, OtherStart
    <3> QED BY <3>1, <3>2, AwayKeepsPages DEF Open
  <2>3. CASE NextReports
    BY <2>3, ReportsKeepPages
  <2>4. CASE NextStart
    BY <2>4, StartGrows, AwayKeepsPages
  <2>5. CASE UNCHANGED vars
    <3>1. UNCHANGED <<server, conn, modal, reports>>
      BY <2>5 DEF vars, appVars, reportVars
    <3> QED BY <2>0, <3>1, NoServerChanges, AwayKeepsPages DEF Open
  <2> QED BY <2>1, <2>2, <2>3, <2>4, <2>5 DEF Next
<1>3. CommandInv /\ PagesInv => PagesExact
  <2> SUFFICES ASSUME CommandInv, PagesInv, Open, ~reports.disturbed
               PROVE  /\ IsPrefix(RunsOf(reports.items), Listing(s, reports.kind, Len(s)))
                      /\ reports.loaded /\ reports.nextToken = NoToken =>
                           reports.seen \subseteq Range(RunsOf(reports.items))
    BY DEF PagesExact, RunsOf
  <2>1. PagesOK(reports, server[conn]) /\ server[conn] \in Seq(Runs)
    BY DEF PagesInv, CommandInv, ServersOK
  <2>2. PICK S : S = Over(server[conn], reports.kind, Len(server[conn]))
    OBVIOUS
  <2>3. PICK rows \in Seq(Rows) : rows = reports.items /\ Begins(rows, S)
    BY <2>1, <2>2 DEF PagesOK
  <2>4. Len(server[conn]) \in Nat
    BY <2>1
  <2>5. S \in SUBSET Nat /\ IsFiniteSet(S)
    BY <2>2, <2>4, OverFinite
  <2>6. IsPrefix(RunsOf(rows), InOrder(S))
    BY <2>3, <2>5, BeginsIsPrefix
  <2>7. Range(RunsOf(rows)) = {rows[n].run : n \in 1..Len(rows)}
    <3>1. DOMAIN rows = 1..Len(rows)
      OBVIOUS
    <3> QED BY <3>1 DEF Range, RunsOf
  <2>8. reports.loaded /\ reports.nextToken = NoToken => reports.seen \subseteq {rows[n].run : n \in 1..Len(rows)}
    BY <2>1, <2>3 DEF PagesOK, Continues
  <2> QED BY <2>2, <2>3, <2>6, <2>7, <2>8 DEF Listing, s
<1> QED BY <1>1, <1>2, <1>3, CommandInvHolds, PTL DEF Spec
=============================================================================
