-------------------------- MODULE BackupItemProofs --------------------------
(***************************************************************************)
(* Theorems about BackupItem for any number of items, targets, jobs, edits *)
(* and faults.                                                             *)
(***************************************************************************)
EXTENDS BackupItem, FiniteSetTheorems, TLAPS

\* A transaction is open.
InTx == pc \in {"targets", "rollback"}

Marking == InTx /\ cur.op = "mark"

Count(p, t) == Cardinality(RowsOf(p, t))

-----------------------------------------------------------------------------
(* The invariants, in parts. *)

\* The rows of the open transaction: one at most for each target that the loop has
\* passed, exactly one unless the item was passed over, each with the version that is next.
PendingOK ==
  InTx =>
    /\ IsFiniteSet(cur.rows)
    /\ \A r \in cur.rows :
         /\ r.path = cur.path /\ r.version = Count(r.path, r.target) + 1
         /\ r.del = (cur.op = "mark") /\ r.rec = cur.rec
         /\ \E i \in 1..Len(Targets) : i < cur.k /\ r.target = Targets[i]
    /\ \A r, q \in cur.rows : r.target = q.target => r = q
    /\ \A i \in 1..Len(Targets) :
         i < cur.k => cur.path \in skipped \/ \E r \in cur.rows : r.target = Targets[i]

\* What the table files says of the item in work and of those to be marked.
WorkOK ==
  /\ InTx /\ cur.op = "metadata-update" => files[cur.path] # None /\ files[cur.path].c = cur.rec.c
  /\ Marking => ~cur.cancelled
  /\ \A p \in found : /\ files[p] # None
                      /\ pc = "mark" \/ (Marking /\ cur.path # p)

\* A version that has to be restorable.
Real(r) == ~r.del /\ r.path \notin skipped

\* The object that row r names has the content that was examined or what the file
\* became later, though not later than now.
Holds(r) ==
  \E o \in store[r.target].objects :
    /\ o.path = r.path /\ o.rv = r.rv
    /\ r.rec.c <= o.c /\ o.c <= edits
    /\ disk[r.path] # None => o.c <= disk[r.path].c

\* Identifiers that are given out later differ from that of row r.
Taken(r) ==
  /\ r.rv[1] = "v"
  /\ r.rv[2] <= IF Kind[r.target] = "azure" THEN r.version ELSE store[r.target].gen

ContentOK ==
  /\ \A r \in rows : Real(r) => Holds(r) /\ Taken(r)
  /\ pc = "targets" => \A r \in cur.rows : Real(r) => Holds(r) /\ Taken(r)

\* What a rollback deletes is not what a row names.
SentOK ==
  InTx => \A i \in DOMAIN cur.sent : \A r \in rows :
            Real(r) /\ r.path = cur.path /\ r.target = cur.sent[i].target => r.rv # cur.sent[i].rv

\* Contents are numbered by the edits, so that they only grow.
EditsOK ==
  /\ \A p \in Paths : disk[p] # None => disk[p].c <= edits
  /\ InTx /\ ~Marking =>
       cur.rec.c <= edits /\ (disk[cur.path] # None => cur.rec.c <= disk[cur.path].c)

-----------------------------------------------------------------------------
(* What a job has done so far that met neither a fault nor an edit. *)

\* On disk and to be backed up.
Present(p) == p \in wanted /\ disk[p] # None

\* Recorded, and in the collection of the job for every target.
Kept(p) ==
  /\ files[p] = disk[p]
  /\ \A t \in TargetSet : \E e \in coll :
       /\ e.job = job /\ e.target = t /\ e.row.path = p /\ ~e.row.del /\ e.row.rec = disk[p]

\* No longer present, and not marked yet.
Stale(p) == p \notin skipped /\ ~Present(p) /\ files[p] # None

Calm == calm /\ pc # "idle"

\* Where the scan is.
ScanOK ==
  Calm => /\ ~ctx /\ todo \subseteq wanted /\ failed \subseteq skipped
          /\ pc = "scan" \/ (InTx /\ ~Marking) \/ todo = {}
          /\ pc = "rollback" => cur.path \in skipped
          /\ InTx => ~cur.cancelled
          /\ Marking => ~Present(cur.path)
          /\ InTx /\ ~Marking =>
               Present(cur.path) /\ cur.rec = disk[cur.path] /\ cur.path \notin todo

\* Whatever the scan has passed is kept.
KeptOK ==
  Calm => \A p \in Paths \ skipped :
            Present(p) /\ p \notin todo /\ ~(InTx /\ cur.path = p) => Kept(p)

\* What is to be marked is found by FindAndMarkDeleted(), in the end.
StaleOK ==
  Calm => \A p \in Paths : Stale(p) =>
            /\ pc # "end"
            /\ \A e \in coll : e.job = job => e.row.path # p
            /\ (pc = "mark" \/ Marking) /\ batch < MaxResults =>
                 p \in found \/ (Marking /\ cur.path = p)

-----------------------------------------------------------------------------
(* Versions. *)

\* The maximum of an interval.
LEMMA MaxUpTo == ASSUME NEW n \in Nat PROVE Max0(1..n) = n
<1>1. (1..n) \cup {0} = 0..n OBVIOUS
<1>2. n \in 0..n /\ \A y \in 0..n : n >= y OBVIOUS
<1>3. Max(0..n) \in 0..n /\ \A y \in 0..n : Max(0..n) >= y BY <1>2 DEF Max
<1>4. Max(0..n) = n BY <1>2, <1>3
<1> QED BY <1>1, <1>4 DEF Max0

\* The rows of an item on a target can be counted.
LEMMA RowsCounted ==
  ASSUME IsFiniteSet(rows), NEW p, NEW t
  PROVE  IsFiniteSet(RowsOf(p, t)) /\ Count(p, t) \in Nat
<1>1. RowsOf(p, t) \subseteq rows BY DEF RowsOf
<1> QED BY <1>1, FS_Subset, FS_CardinalityType DEF Count

\* calcRemoteFileVersion() returns one more than the number of rows.
LEMMA NextIs ==
  ASSUME VersionsDense, IsFiniteSet(rows), NEW p \in Paths, NEW t \in TargetSet
  PROVE  NextVersion(p, t) = Count(p, t) + 1 /\ NextVersion(p, t) \in Nat \ {0}
<1>1. Count(p, t) \in Nat BY RowsCounted
<1> DEFINE V == {r.version : r \in RowsOf(p, t)}
<1>2. V = 1..Count(p, t) BY DEF VersionsDense, Count
<1>3. NextVersion(p, t) = Max0(V) + 1 BY DEF NextVersion
<1> HIDE DEF V
<1>4. Max0(V) = Count(p, t) BY <1>1, <1>2, MaxUpTo
<1> QED BY <1>1, <1>3, <1>4

\* The target in hand.
LEMMA AtOne ==
  ASSUME TypeOK, AtTarget
  PROVE  /\ InTx /\ cur \in Work /\ cur.path \in Paths /\ cur.k \in 1..Len(Targets)
         /\ Target \in TargetSet /\ Target = Targets[cur.k]
         /\ cur.k + 1 \in 1..(Len(Targets) + 1)
<1>1. cur \in Work /\ InTx BY DEF TypeOK, AtTarget, InTx
<1>2. Len(Targets) \in Nat BY BackupAssumption
<1>3. cur.k \in 1..(Len(Targets) + 1) /\ cur.k <= Len(Targets) BY <1>1 DEF Work, AtTarget
<1> QED BY <1>1, <1>2, <1>3 DEF Target, TargetSet, Work

LEMMA VersionIs ==
  ASSUME TypeOK, VersionsDense, IsFiniteSet(rows), AtTarget
  PROVE  Version = Count(cur.path, Target) + 1 /\ Version \in Nat \ {0}
  BY AtOne, NextIs DEF Version

-----------------------------------------------------------------------------
(* Types. *)

\* The ways in which the item in work changes keep its type.
LEMMA NextTargetType ==
  ASSUME TypeOK, VersionsDense, IsFiniteSet(rows), AtTarget, NEW rv \in RemoteVersions,
         NEW sent \in Seq([target : TargetSet, rv : RemoteVersions]), NextTarget(rv, sent)
  PROVE  /\ cur' \in Work
         /\ cur'.path = cur.path /\ cur'.op = cur.op /\ cur'.rec = cur.rec /\ cur'.k = cur.k + 1
         /\ cur'.rows = cur.rows \cup
              {Row(cur.path, Target, Version, rv, cur.op = "mark", cur.rec)}
         /\ cur'.sent = cur.sent \o sent
<1> DEFINE new == Row(cur.path, Target, Version, rv, cur.op = "mark", cur.rec)
<1>0. cur \in Work /\ Target \in TargetSet /\ cur.k + 1 \in 1..(Len(Targets) + 1) BY AtOne
<1>1. Version \in Nat \ {0} BY VersionIs
<1>2. job \in 1..MaxJobs BY BackupAssumption DEF TypeOK, AtTarget
<1>3. new \in RemoteRow BY <1>0, <1>1, <1>2 DEF RemoteRow, Row, Work
<1>4. cur.rows \cup {new} \in SUBSET RemoteRow BY <1>0, <1>3 DEF Work
<1>5. cur.sent \o sent \in Seq([target : TargetSet, rv : RemoteVersions]) BY <1>0 DEF Work
<1>6. cur' = [cur EXCEPT !.k = cur.k + 1, !.rows = cur.rows \cup {new}, !.sent = cur.sent \o sent]
  BY DEF NextTarget
<1> HIDE DEF new
<1> QED BY <1>0, <1>4, <1>5, <1>6 DEF Work, new

LEMMA AbandonType ==
  ASSUME cur \in Work, NEW b \in BOOLEAN, Abandon(b)
  PROVE  /\ cur' \in Work /\ pc' = "rollback"
         /\ cur'.path = cur.path /\ cur'.op = cur.op /\ cur'.rec = cur.rec /\ cur'.k = cur.k
         /\ cur'.rows = cur.rows /\ cur'.sent = cur.sent
  BY DEF Abandon, Work

LEMMA DropSentType ==
  ASSUME cur \in Work, cur.sent # <<>>, DropSent
  PROVE  /\ cur' \in Work
         /\ cur'.path = cur.path /\ cur'.op = cur.op /\ cur'.rec = cur.rec /\ cur'.k = cur.k
         /\ cur'.rows = cur.rows /\ cur'.sent = Tail(cur.sent)
<1>1. Tail(cur.sent) \in Seq([target : TargetSet, rv : RemoteVersions]) BY DEF Work
<1> QED BY <1>1 DEF DropSent, Work

\* The stores keep their type.
LEMMA BucketTypes ==
  ASSUME NEW kind, NEW st \in Bucket, NEW p \in Paths, NEW v \in Nat
  PROVE  /\ UploadId(kind, st, v) \in RemoteVersions /\ MarkId(kind, st, v) \in RemoteVersions
         /\ \A c \in 0..MaxEdits : Uploaded(kind, st, p, v, c) \in Bucket
         /\ MarkedDeleted(kind, st, p, v) \in Bucket
         /\ \A rv \in RemoteVersions : Deleted(kind, st, p, rv) \in Bucket
<1>1. UploadId(kind, st, v) \in RemoteVersions /\ MarkId(kind, st, v) \in RemoteVersions
  BY DEF UploadId, MarkId, RemoteVersions, Bucket
<1>2. ASSUME NEW rv \in RemoteVersions, NEW c \in 0..MaxEdits
      PROVE  Put(st, p, rv, c) \in SUBSET [path : Paths, rv : RemoteVersions, c : 0..MaxEdits]
  BY <1>2 DEF Put, Named, Bucket
<1>3. ASSUME NEW c \in 0..MaxEdits PROVE Uploaded(kind, st, p, v, c) \in Bucket
  <2>1. Put(st, p, UploadId(kind, st, v), c)
          \in SUBSET [path : Paths, rv : RemoteVersions, c : 0..MaxEdits]
    BY <1>1, <1>2
  <2> QED BY <2>1 DEF Uploaded, Bucket
<1>4. MarkedDeleted(kind, st, p, v) \in Bucket
  <2>1. Put(st, p, MarkId(kind, st, v), Marker)
          \in SUBSET [path : Paths, rv : RemoteVersions, c : 0..MaxEdits]
    <3>1. Marker \in 0..MaxEdits BY BackupAssumption DEF Marker
    <3> QED BY <1>1, <1>2, <3>1
  <2> QED BY <2>1 DEF MarkedDeleted, Bucket
<1>5. ASSUME NEW rv \in RemoteVersions PROVE Deleted(kind, st, p, rv) \in Bucket
  BY DEF Deleted, Bucket
<1> QED BY <1>1, <1>3, <1>4, <1>5

\* A store that is changed.
LEMMA StoreType ==
  ASSUME TypeOK, NEW t \in TargetSet, NEW b \in Bucket, store' = [store EXCEPT ![t] = b]
  PROVE  /\ store' \in [TargetSet -> Bucket] /\ store'[t] = b
         /\ \A u \in TargetSet : u # t => store'[u] = store[u]
  BY DEF TypeOK

\* The item examined is what it is on disk.
LEMMA OperationType ==
  ASSUME TypeOK, NEW p \in Paths, Operation(p) # "up-to-date"
  PROVE  Operation(p) \in Operations \ {"mark"}
  BY DEF Operation, Operations

\* The beginning of a transaction.
LEMMA BeginType ==
  ASSUME NEW p \in Paths, NEW o \in Operations, NEW i \in Item,
         cur' = [path |-> p, op |-> o, rec |-> i, k |-> 1,
                 rows |-> {}, sent |-> <<>>, cancelled |-> FALSE]
  PROVE  cur' \in Work
<1>1. 1 \in 1..(Len(Targets) + 1) BY BackupAssumption
<1>2. <<>> \in Seq([target : TargetSet, rv : RemoteVersions]) OBVIOUS
<1> QED BY <1>1, <1>2 DEF Work

\* The collection with more rows of the database.
LEMMA CollectedType ==
  ASSUME job \in Nat \ {0}, NEW R, NEW S, S \subseteq R
  PROVE  \A e \in Collected(S) : e.row \in R /\ e.target = e.row.target /\ e.job \in 1..job
                                 /\ e.job = job /\ e.row \in S
  BY DEF Collected

\* The first of a list and the others.
LEMMA HeadFacts ==
  ASSUME NEW S, NEW s \in Seq(S), s # <<>>
  PROVE  /\ Head(s) \in S /\ 1 \in DOMAIN s /\ Head(s) = s[1] /\ Tail(s) \in Seq(S)
         /\ \A i \in DOMAIN Tail(s) : i + 1 \in DOMAIN s /\ Tail(s)[i] = s[i + 1]
  OBVIOUS

\* The smaller of two numbers.
LEMMA MinIs ==
  ASSUME NEW a \in Nat, NEW b \in Nat
  PROVE  Min({a, b}) \in Nat /\ Min({a, b}) <= b /\ Min({a, b}) = IF a <= b THEN a ELSE b
<1>1. PICK m \in {a, b} : \A y \in {a, b} : m <= y OBVIOUS
<1>2. Min({a, b}) \in {a, b} /\ \A y \in {a, b} : Min({a, b}) <= y BY <1>1 DEF Min
<1> QED BY <1>2

-----------------------------------------------------------------------------
\* Every step keeps the types.
LEMMA TypeStep ==
  ASSUME TypeOK, VersionsDense, IsFiniteSet(rows), WorkOK, [Next]_vars
  PROVE  TypeOK'
<1>0. /\ MaxEdits \in Nat /\ MaxJobs \in Nat /\ MaxFaults \in Nat /\ MaxResults \in Nat \ {0}
  BY BackupAssumption
<1>1. CASE StartJob BY <1>0, <1>1 DEF StartJob, TypeOK, envvars
<1>2. ASSUME NEW p \in Paths, Write(p) \/ Chmod(p) \/ Remove(p) PROVE TypeOK'
  <2>1. PICK i \in Item \cup {None} : Change(p, i)
    <3>1. ASSUME edits < MaxEdits PROVE edits + 1 \in 1..MaxEdits BY <1>0, <3>1 DEF TypeOK
    <3>2. CASE Write(p)
      <4>1. [c |-> edits + 1, m |-> edits + 1] \in Item BY <3>1, <3>2 DEF Write, Change, Item
      <4> QED BY <3>2, <4>1 DEF Write
    <3>3. CASE Chmod(p)
      <4>1. disk[p] \in Item BY <3>3 DEF Chmod, TypeOK
      <4>2. [disk[p] EXCEPT !.m = edits + 1] \in Item BY <3>1, <3>3, <4>1 DEF Chmod, Change, Item
      <4> QED BY <3>3, <4>2 DEF Chmod
    <3>4. CASE Remove(p) BY <3>4 DEF Remove
    <3> QED BY <1>2, <3>2, <3>3, <3>4
  <2> QED BY <1>0, <2>1 DEF Change, TypeOK, jobvars
<1>3. ASSUME NEW W \in SUBSET Paths, Reconfigure(W) PROVE TypeOK'
  BY <1>0, <1>3 DEF Reconfigure, TypeOK, dbvars, jobvars
<1>4. CASE Cancel \/ Crash
  BY <1>0, <1>4 DEF Cancel, Crash, TypeOK, envvars, dbvars
<1>5. ASSUME NEW p \in Paths, ScanAbsent(p) \/ ScanUnseen(p) PROVE TypeOK'
  BY <1>0, <1>5 DEF ScanAbsent, ScanUnseen, TypeOK, envvars, dbvars
<1>6. ASSUME NEW p \in Paths, ExamineChanged(p) PROVE TypeOK'
  <2>1. disk[p] \in Item BY <1>6 DEF ExamineChanged, TypeOK
  <2>2. Operation(p) \in Operations BY <1>6, OperationType DEF ExamineChanged
  <2>3. cur' \in Work BY <1>6, <2>1, <2>2, BeginType DEF ExamineChanged
  <2> QED BY <1>6, <2>3 DEF ExamineChanged, TypeOK, envvars, dbvars
<1>7. ASSUME NEW p \in Paths, ExamineUnchanged(p) \/ ExamineUnchangedPartly(p) PROVE TypeOK'
  <2>1. PICK S \in SUBSET rows : coll' = coll \cup Collected(S)
    <3>1. \A T \in SUBSET TargetSet : UNION {NewestRows(p, t) : t \in T} \in SUBSET rows
      BY DEF NewestRows, RowsOf
    <3>2. TargetSet \in SUBSET TargetSet OBVIOUS
    <3> QED BY <1>7, <3>1, <3>2 DEF ExamineUnchanged, ExamineUnchangedPartly
  <2>2. job \in Nat \ {0}
    BY <1>0, <1>7 DEF ExamineUnchanged, ExamineUnchangedPartly, TypeOK
  <2>3. \A e \in Collected(S) : e.row \in rows /\ e.target = e.row.target /\ e.job \in 1..job
    BY <2>2, CollectedType
  <2>4. \A e \in coll' : e.row \in rows /\ e.target = e.row.target /\ e.job \in 1..job
    BY <2>1, <2>3 DEF TypeOK
  <2> QED BY <1>0, <1>7, <2>4
         DEF ExamineUnchanged, ExamineUnchangedPartly, TypeOK, envvars
<1>8. ASSUME NEW p \in Paths, ExamineFails(p) PROVE TypeOK'
  BY <1>0, <1>8 DEF ExamineFails, MarkItemAsFailed, TypeOK, envvars
<1>9. CASE ScanAborts \/ ScanDone \/ CancelSeen
  BY <1>0, <1>9 DEF ScanAborts, ScanDone, CancelSeen, TypeOK, envvars, dbvars
<1>10. CASE Skip
  <2>1. cur \in Work /\ cur.k + 1 \in 1..(Len(Targets) + 1) /\ cur.path \in Paths
    BY <1>10, AtOne DEF Skip
  <2>2. cur' \in Work BY <1>10, <2>1 DEF Skip, Work
  <2> QED BY <1>10, <2>1, <2>2 DEF Skip, AtTarget, TypeOK, envvars, dbvars
<1>11. ASSUME NEW c \in 0..MaxEdits, AtTarget
       PROVE  /\ Uploaded(Kind[Target], store[Target], cur.path, Version, c) \in Bucket
              /\ UploadId(Kind[Target], store[Target], Version) \in RemoteVersions
  BY <1>11, AtOne, VersionIs, BucketTypes DEF TypeOK
<1>12. ASSUME NEW rv \in RemoteVersions, AtTarget
       PROVE  Sent(rv) \in Seq([target : TargetSet, rv : RemoteVersions])
  BY <1>12, AtOne DEF Sent
<1>13. CASE Upload
  <2>1. AtTarget /\ disk[cur.path].c \in 0..MaxEdits
    BY <1>0, <1>13, AtOne DEF Upload, TypeOK, Item
  <2>2. store' \in [TargetSet -> Bucket] BY <1>11, <1>13, <2>1, AtOne, StoreType DEF Upload
  <2>3. cur' \in Work BY <1>11, <1>12, <1>13, <2>1, NextTargetType DEF Upload
  <2> QED BY <1>13, <2>1, <2>2, <2>3 DEF Upload, AtTarget, TypeOK, envvars, dbvars
<1>14. CASE UploadAnswerLost
  <2>1. AtTarget /\ disk[cur.path].c \in 0..MaxEdits
    BY <1>0, <1>14, AtOne DEF UploadAnswerLost, TypeOK, Item
  <2>2. store' \in [TargetSet -> Bucket]
    BY <1>11, <1>14, <2>1, AtOne, StoreType DEF UploadAnswerLost
  <2>3. cur' \in Work /\ pc' = "rollback" BY <1>14, <2>1, AtOne, AbandonType DEF UploadAnswerLost
  <2> QED BY <1>0, <1>14, <2>1, <2>2, <2>3
         DEF UploadAnswerLost, AtTarget, TypeOK, envvars, dbvars
<1>15. CASE UploadFails \/ UploadCancelled \/ UpdateFails \/ MarkFails
  <2>1. AtTarget BY <1>15 DEF UploadFails, UploadCancelled, UpdateFails, MarkFails
  <2>2. cur' \in Work /\ pc' = "rollback"
    BY <1>15, <2>1, AtOne, AbandonType DEF UploadFails, UploadCancelled, UpdateFails, MarkFails
  <2> QED BY <1>15, <2>1, <2>2
         DEF UploadFails, UploadCancelled, UpdateFails, MarkFails, AtTarget, TypeOK, envvars, dbvars
<1>16. CASE UpdateMetadata
  <2>1. PICK r \in VersionRows(cur.path, Target, Version - 1) : NextTarget(r.rv, <<>>)
    BY <1>16 DEF UpdateMetadata
  <2>2. r.rv \in RemoteVersions BY DEF VersionRows, RowsOf, TypeOK, RemoteRow
  <2>3. <<>> \in Seq([target : TargetSet, rv : RemoteVersions]) OBVIOUS
  <2>4. cur' \in Work BY <1>16, <2>1, <2>2, <2>3, NextTargetType DEF UpdateMetadata
  <2> QED BY <1>16, <2>4 DEF UpdateMetadata, AtTarget, TypeOK, envvars, dbvars
<1>17. CASE Mark
  <2>1. AtTarget BY <1>17 DEF Mark
  <2>2. /\ MarkedDeleted(Kind[Target], store[Target], cur.path, Version) \in Bucket
        /\ MarkId(Kind[Target], store[Target], Version) \in RemoteVersions
    BY <2>1, AtOne, VersionIs, BucketTypes DEF TypeOK
  <2>3. store' \in [TargetSet -> Bucket] BY <1>17, <2>1, <2>2, AtOne, StoreType DEF Mark
  <2>4. cur' \in Work BY <1>12, <1>17, <2>1, <2>2, NextTargetType DEF Mark
  <2> QED BY <1>17, <2>1, <2>3, <2>4 DEF Mark, AtTarget, TypeOK, envvars, dbvars
<1>18. CASE StatementFails
  <2>1. cur' \in Work /\ pc' = "rollback" BY <1>18, AbandonType DEF StatementFails, TypeOK
  <2> QED BY <1>0, <1>18, <2>1 DEF StatementFails, TypeOK, envvars, dbvars
<1>19. CASE Commit
  <2>1. cur \in Work BY <1>19 DEF Commit, TypeOK
  <2>2. files' \in [Paths -> Item \cup {None}] BY <1>19, <2>1 DEF Commit, TypeOK, Work
  <2>3. rows' \subseteq RemoteRow /\ cur.rows \subseteq rows' /\ rows \subseteq rows'
    BY <1>19, <2>1 DEF Commit, TypeOK, Work
  <2>4. job \in Nat \ {0} /\ job' = job BY <1>0, <1>19 DEF Commit, TypeOK
  <2>5. \A e \in coll' : e.row \in rows' /\ e.target = e.row.target /\ e.job \in 1..job'
    <3>1. \A e \in Collected(cur.rows) :
            e.row \in rows' /\ e.target = e.row.target /\ e.job \in 1..job
      BY <2>3, <2>4, CollectedType
    <3>2. coll' = coll \cup Collected(cur.rows) BY <1>19 DEF Commit
    <3> QED BY <2>3, <2>4, <3>1, <3>2 DEF TypeOK
  <2>6. cur' = None /\ pc' \in {"mark", "scan"} BY <1>19 DEF Commit, Leave, AfterItem
  <2> QED BY <1>19, <2>2, <2>3, <2>5, <2>6 DEF Commit, TypeOK, envvars
<1>20. CASE CommitFails
  <2>1. cur \in Work BY <1>20 DEF CommitFails, TypeOK
  <2>2. cur' = None /\ pc' \in {"mark", "scan"} BY <1>20 DEF CommitFails, Leave, AfterItem
  <2>3. failed' \subseteq Paths BY <1>20, <2>1 DEF CommitFails, MarkItemAsFailed, TypeOK, Work
  <2> QED BY <1>0, <1>20, <2>2, <2>3 DEF CommitFails, TypeOK, envvars
<1>21. CASE Undo
  <2>1. cur \in Work /\ cur.sent # <<>> BY <1>21 DEF Undo, TypeOK
  <2>2. cur' \in Work BY <1>21, <2>1, DropSentType DEF Undo
  <2>3. PICK e \in [target : TargetSet, rv : RemoteVersions] : e = Head(cur.sent)
    <3>1. cur.sent \in Seq([target : TargetSet, rv : RemoteVersions]) BY <2>1 DEF Work
    <3> QED BY <2>1, <3>1, HeadFacts
  <2>4. store' = [store EXCEPT ![e.target] =
                    Deleted(Kind[e.target], store[e.target], cur.path, e.rv)]
    BY <1>21, <2>3 DEF Undo
  <2>5. Deleted(Kind[e.target], store[e.target], cur.path, e.rv) \in Bucket
    <3>1. store[e.target] \in Bucket /\ cur.path \in Paths /\ e.rv \in RemoteVersions
      BY <2>1 DEF TypeOK, Work
    <3>2. 0 \in Nat OBVIOUS
    <3> QED BY <3>1, <3>2, BucketTypes
  <2>6. store' \in [TargetSet -> Bucket] BY <2>4, <2>5, StoreType
  <2> QED BY <1>21, <2>2, <2>6 DEF Undo, TypeOK, envvars, dbvars
<1>22. CASE UndoFails
  <2>1. cur' \in Work BY <1>22, DropSentType DEF UndoFails, TypeOK
  <2> QED BY <1>22, <2>1 DEF UndoFails, TypeOK, envvars, dbvars
<1>23. CASE RolledBack
  <2>1. cur \in Work BY <1>23 DEF RolledBack, TypeOK
  <2>2. cur' = None /\ pc' \in {"mark", "scan", "end"} BY <1>23 DEF RolledBack, Leave, AfterItem
  <2>3. failed' \subseteq Paths BY <1>23, <2>1 DEF RolledBack, MarkItemAsFailed, TypeOK, Work
  <2> QED BY <1>23, <2>2, <2>3 DEF RolledBack, TypeOK, envvars
<1>24. CASE Query
  <2>1. PICK S \in SUBSET Unmet : /\ Cardinality(S) = Min({Cardinality(Unmet), MaxResults})
                                  /\ found' = S /\ batch' = Cardinality(S)
    BY <1>24 DEF Query
  <2>2. Unmet \subseteq Paths BY DEF Unmet
  <2>3. Cardinality(Unmet) \in Nat BY <2>2, BackupAssumption, FS_Subset, FS_CardinalityType
  <2>4. Min({Cardinality(Unmet), MaxResults}) \in 0..MaxResults BY <1>0, <2>3, MinIs
  <2> QED BY <1>24, <2>1, <2>2, <2>4 DEF Query, TypeOK, envvars, dbvars
<1>25. CASE QueryFails \/ MarkDone \/ EndJob
  BY <1>0, <1>25 DEF QueryFails, MarkDone, EndJob, TypeOK, envvars, dbvars
<1>26. ASSUME NEW p \in Paths, MarkSkips(p) \/ MarkBeginFails(p) PROVE TypeOK'
  BY <1>0, <1>26 DEF MarkSkips, MarkBeginFails, TypeOK, envvars, dbvars
<1>27. ASSUME NEW p \in Paths, MarkBegins(p) PROVE TypeOK'
  <2>1. files[p] \in Item BY <1>27 DEF MarkBegins, WorkOK, TypeOK
  <2>2. "mark" \in Operations BY DEF Operations
  <2>3. cur' \in Work BY <1>27, <2>1, <2>2, BeginType DEF MarkBegins
  <2> QED BY <1>27, <2>3 DEF MarkBegins, TypeOK, envvars, dbvars
<1>28. CASE UNCHANGED vars BY <1>28 DEF vars, TypeOK
<1> QED
  BY <1>1, <1>2, <1>3, <1>4, <1>5, <1>6, <1>7, <1>8, <1>9, <1>10, <1>13, <1>14, <1>15, <1>16,
     <1>17, <1>18, <1>19, <1>20, <1>21, <1>22, <1>23, <1>24, <1>25, <1>26, <1>27, <1>28
     DEF Next, Environment, Scan, Transaction, FindAndMarkDeleted, Job

-----------------------------------------------------------------------------
(* What the steps do to the item in work. *)

SameTables == rows' = rows /\ files' = files /\ skipped' = skipped

SameWork ==
  /\ pc' = pc /\ found' = found /\ job' = job
  /\ cur'.path = cur.path /\ cur'.op = cur.op /\ cur'.rec = cur.rec
  /\ cur'.cancelled = cur.cancelled

\* A round of the loop over the targets that leaves a row behind.
Adds(rv) ==
  /\ AtTarget /\ SameTables /\ SameWork
  /\ cur'.k = cur.k + 1
  /\ cur'.rows = cur.rows \cup {Row(cur.path, Target, Version, rv, cur.op = "mark", cur.rec)}

\* One that does not.
Passes ==
  /\ AtTarget /\ SameWork /\ rows' = rows /\ files' = files
  /\ skipped' = skipped \cup {cur.path}
  /\ cur'.k = cur.k + 1 /\ cur'.rows = cur.rows

\* A transaction begins, goes on to its end, or is over.
Opens(p) ==
  /\ ~InTx /\ pc' = "targets" /\ SameTables
  /\ cur'.path = p /\ cur'.k = 1 /\ cur'.rows = {} /\ cur'.sent = <<>> /\ ~cur'.cancelled

Stays ==
  /\ InTx /\ InTx' /\ SameTables /\ found' = found
  /\ pc' = pc \/ pc' = "rollback"
  /\ cur'.path = cur.path /\ cur'.op = cur.op /\ cur'.rec = cur.rec
  /\ cur'.k = cur.k /\ cur'.rows = cur.rows
  /\ Marking /\ cur'.cancelled => cur.cancelled

Ends ==
  /\ ~InTx' /\ SameTables
  /\ found' = {} \/ (pc' = "mark" /\ \A p \in found' : p \in Unmet \/ p \in found)

\* What AbandonType and DropSentType say of the item, for each action.
LEMMA TransactionSteps ==
  ASSUME TypeOK, VersionsDense, IsFiniteSet(rows), WorkOK, Transaction
  PROVE  Commit \/ (\E rv \in RemoteVersions : Adds(rv)) \/ Passes \/ Stays \/ Ends
<1>0. InTx /\ cur \in Work
  BY AtOne DEF Transaction, InTx, TypeOK, AtTarget, Skip, Upload, UploadFails,
     UploadAnswerLost, UploadCancelled, UpdateMetadata, UpdateFails, Mark, MarkFails,
     StatementFails, Commit, CommitFails, Undo,
     UndoFails, RolledBack
<1>1. CASE Skip
  <2>1. cur'.k = cur.k + 1 /\ cur'.rows = cur.rows /\ SameWork
    BY <1>0, <1>1 DEF Skip, SameWork, Work
  <2> QED BY <1>1, <2>1 DEF Skip, Passes, dbvars
<1>2. ASSUME AtTarget, NEW rv \in RemoteVersions,
             NEW sent \in Seq([target : TargetSet, rv : RemoteVersions]), NextTarget(rv, sent),
             SameTables, pc' = pc, found' = found, job' = job
      PROVE  Adds(rv)
  <2>1. cur'.cancelled = cur.cancelled BY <1>0, <1>2 DEF NextTarget, Work
  <2> QED BY <1>2, <2>1, NextTargetType DEF Adds, SameWork
<1>3. ASSUME NEW rv \in RemoteVersions, AtTarget
      PROVE  Sent(rv) \in Seq([target : TargetSet, rv : RemoteVersions])
  BY <1>3, AtOne DEF Sent
<1>4. CASE Upload
  <2>1. PICK rv \in RemoteVersions : NextTarget(rv, Sent(rv))
    BY <1>4, AtOne, VersionIs, BucketTypes DEF Upload, TypeOK
  <2> QED BY <1>2, <1>3, <1>4, <2>1 DEF Upload, SameTables, dbvars
<1>5. CASE Mark
  <2>1. PICK rv \in RemoteVersions : NextTarget(rv, Sent(rv))
    BY <1>5, AtOne, VersionIs, BucketTypes DEF Mark, TypeOK
  <2> QED BY <1>2, <1>3, <1>5, <2>1 DEF Mark, SameTables, dbvars
<1>6. CASE UpdateMetadata
  <2>1. PICK rv \in RemoteVersions : NextTarget(rv, <<>>)
    BY <1>6 DEF UpdateMetadata, VersionRows, RowsOf, TypeOK, RemoteRow
  <2>2. <<>> \in Seq([target : TargetSet, rv : RemoteVersions]) OBVIOUS
  <2> QED BY <1>2, <1>6, <2>1, <2>2 DEF UpdateMetadata, SameTables, dbvars
<1>7. ASSUME NEW b \in BOOLEAN, Abandon(b), b => ~Marking, SameTables, found' = found PROVE Stays
  <2>1. cur'.cancelled = b BY <1>0, <1>7 DEF Abandon, Work
  <2> QED BY <1>0, <1>7, <2>1, AbandonType DEF Stays, InTx
<1>8. CASE UploadFails \/ UpdateFails \/ MarkFails \/ StatementFails
  <2>1. Abandon(FALSE) /\ SameTables /\ found' = found
    BY <1>8 DEF UploadFails, UpdateFails, MarkFails, StatementFails, SameTables, dbvars
  <2> QED BY <1>7, <2>1
<1>9. CASE UploadCancelled \/ UploadAnswerLost
  <2>1. /\ Abandon(TRUE) \/ Abandon(FALSE)
        /\ SameTables /\ found' = found /\ ~Marking
    BY <1>9 DEF UploadCancelled, UploadAnswerLost, Uploads, Marking, SameTables, dbvars
  <2> QED BY <1>7, <2>1
<1>10. CASE Undo \/ UndoFails
  <2>1. DropSent /\ SameTables /\ found' = found /\ pc' = pc /\ cur.sent # <<>>
    BY <1>10 DEF Undo, UndoFails, SameTables, dbvars
  <2>2. cur'.cancelled = cur.cancelled BY <1>0, <2>1 DEF DropSent, Work
  <2> QED BY <1>0, <2>1, <2>2, DropSentType DEF Stays, InTx
<1>11. CASE CommitFails \/ RolledBack
  <2>1. SameTables /\ found' = found BY <1>11 DEF CommitFails, RolledBack, SameTables
  <2>2. pc' = (IF Marking THEN "mark" ELSE "scan") \/ (cur.cancelled /\ pc' = "end")
    BY <1>0, <1>11 DEF CommitFails, RolledBack, Leave, AfterItem, Marking
  <2>3. ~Marking => found = {} BY <1>0 DEF WorkOK, InTx
  <2>4. Marking => ~cur.cancelled BY DEF WorkOK
  <2> QED BY <2>1, <2>2, <2>3, <2>4 DEF Ends, InTx
<1> QED BY <1>1, <1>4, <1>5, <1>6, <1>8, <1>9, <1>10, <1>11 DEF Transaction

\* What the other steps do.
LEMMA Steps ==
  ASSUME TypeOK, VersionsDense, IsFiniteSet(rows), WorkOK, [Next]_vars
  PROVE  \/ Commit \/ (\E rv \in RemoteVersions : Adds(rv)) \/ Passes \/ Stays \/ Ends
         \/ \E p \in Paths : Opens(p) /\ (ExamineChanged(p) \/ MarkBegins(p))
<1>1. CASE Transaction BY <1>1, TransactionSteps
<1>2. ASSUME NEW p \in Paths, ExamineChanged(p) \/ MarkBegins(p) PROVE Opens(p)
  BY <1>2 DEF ExamineChanged, MarkBegins, Opens, InTx, SameTables, dbvars
<1>3. ASSUME SameTables, pc' = pc, found' = found, cur' = cur PROVE Stays \/ Ends
  BY <1>3 DEF Stays, Ends, InTx, WorkOK, Marking
<1>4. ASSUME NEW p \in Paths, Write(p) \/ Chmod(p) \/ Remove(p) PROVE Stays \/ Ends
  <2>1. PICK i : Change(p, i) BY <1>4 DEF Write, Chmod, Remove
  <2> QED BY <1>3, <2>1 DEF Change, SameTables, jobvars
<1>5. ASSUME NEW W, Reconfigure(W) PROVE Stays \/ Ends
  BY <1>3, <1>5 DEF Reconfigure, SameTables, dbvars, jobvars
<1>6. CASE Cancel BY <1>3, <1>6 DEF Cancel, SameTables, dbvars
<1>7. CASE Crash BY <1>7 DEF Crash, Ends, InTx, SameTables, dbvars
<1>8. ASSUME ~InTx, pc # "mark", pc' \notin {"targets", "rollback"}, SameTables,
             found' = found
      PROVE  Ends
  BY <1>8 DEF Ends, InTx, WorkOK, Marking
<1>9. CASE StartJob BY <1>8, <1>9 DEF StartJob, InTx, SameTables
<1>10. ASSUME NEW p \in Paths, \/ ScanAbsent(p) \/ ScanUnseen(p) \/ ExamineUnchanged(p)
                               \/ ExamineUnchangedPartly(p) \/ ExamineFails(p)
       PROVE  Ends
  BY <1>8, <1>10 DEF ScanAbsent, ScanUnseen, ExamineUnchanged, ExamineUnchangedPartly,
     ExamineFails, InTx, SameTables, dbvars
<1>11. CASE ScanAborts \/ ScanDone \/ QueryFails \/ EndJob
  BY <1>8, <1>11 DEF ScanAborts, ScanDone, QueryFails, EndJob, InTx, SameTables, dbvars
<1>12. CASE CancelSeen BY <1>12 DEF CancelSeen, Ends, InTx, SameTables, dbvars
<1>13. CASE Query BY <1>13 DEF Query, Ends, InTx, SameTables, dbvars
<1>14. ASSUME NEW p \in Paths, MarkSkips(p) \/ MarkBeginFails(p) PROVE Ends
  BY <1>14 DEF MarkSkips, MarkBeginFails, Ends, InTx, SameTables, dbvars
<1>15. CASE MarkDone BY <1>15 DEF MarkDone, Ends, InTx, SameTables, dbvars
<1>16. CASE UNCHANGED vars BY <1>3, <1>16 DEF vars, SameTables
<1> QED
  BY <1>1, <1>2, <1>4, <1>5, <1>6, <1>7, <1>9, <1>10, <1>11, <1>12, <1>13, <1>14, <1>15, <1>16
     DEF Next, Environment, Scan, FindAndMarkDeleted, Job

-----------------------------------------------------------------------------
(* Versions and tables. *)

\* The rows of item p on target t that a commit adds: at most one, with the next version.
LEMMA CommitAdds ==
  ASSUME TypeOK, VersionsDense, IsFiniteSet(rows), PendingOK, Commit,
         NEW p \in Paths, NEW t \in TargetSet
  PROVE  \/ RowsOf(p, t)' = RowsOf(p, t) /\ \A r \in cur.rows : r.path # p \/ r.target # t
         \/ \E r \in cur.rows : /\ r.path = p /\ r.target = t
                                /\ r.version = Count(p, t) + 1 /\ r \notin RowsOf(p, t)
                                /\ RowsOf(p, t)' = RowsOf(p, t) \cup {r}
<1>0. InTx /\ rows' = rows \cup cur.rows BY DEF Commit, InTx
<1>1. CASE \A r \in cur.rows : r.path # p \/ r.target # t BY <1>0, <1>1 DEF RowsOf
<1>2. ASSUME NEW r \in cur.rows, r.path = p, r.target = t
      PROVE  \E q \in cur.rows : /\ q.path = p /\ q.target = t
                                 /\ q.version = Count(p, t) + 1 /\ q \notin RowsOf(p, t)
                                 /\ RowsOf(p, t)' = RowsOf(p, t) \cup {q}
  <2>1. r.version = Count(p, t) + 1 BY <1>0, <1>2 DEF PendingOK
  <2>2. \A q \in cur.rows : q.target = t => q = r BY <1>0, <1>2 DEF PendingOK
  <2>3. RowsOf(p, t)' = RowsOf(p, t) \cup {r} BY <1>0, <1>2, <2>2 DEF RowsOf
  <2>4. r \notin RowsOf(p, t)
    <3>1. Count(p, t) \in Nat BY RowsCounted
    <3>2. \A q \in RowsOf(p, t) : q.version \in 1..Count(p, t) BY DEF VersionsDense, Count
    <3> QED BY <2>1, <3>1, <3>2
  <2> QED BY <1>2, <2>1, <2>3, <2>4
<1> QED BY <1>1, <1>2

\* The database stays finite, and versions have no gaps.
LEMMA DenseStep ==
  ASSUME TypeOK, VersionsDense, IsFiniteSet(rows), PendingOK, WorkOK, [Next]_vars
  PROVE  VersionsDense' /\ IsFiniteSet(rows)'
<1>1. CASE rows' = rows BY <1>1 DEF VersionsDense, RowsOf
<1>2. CASE Commit
  <2>1. IsFiniteSet(rows)'
    <3>1. IsFiniteSet(cur.rows) /\ rows' = rows \cup cur.rows BY <1>2 DEF PendingOK, InTx, Commit
    <3> QED BY <3>1, FS_Union
  <2>2. ASSUME NEW p \in Paths, NEW t \in TargetSet
        PROVE  {r.version : r \in RowsOf(p, t)'} = 1..Cardinality(RowsOf(p, t)')
    <3>1. /\ IsFiniteSet(RowsOf(p, t)) /\ Count(p, t) \in Nat
          /\ {r.version : r \in RowsOf(p, t)} = 1..Count(p, t)
      BY RowsCounted DEF VersionsDense, Count
    <3>2. CASE RowsOf(p, t)' = RowsOf(p, t) BY <3>1, <3>2 DEF Count
    <3>3. ASSUME NEW r, r.version = Count(p, t) + 1, r \notin RowsOf(p, t),
                 RowsOf(p, t)' = RowsOf(p, t) \cup {r}
          PROVE  {q.version : q \in RowsOf(p, t)'} = 1..Cardinality(RowsOf(p, t)')
      <4>1. Cardinality(RowsOf(p, t)') = Count(p, t) + 1 BY <3>1, <3>3, FS_AddElement DEF Count
      <4>2. {q.version : q \in RowsOf(p, t)'} = (1..Count(p, t)) \cup {Count(p, t) + 1}
        BY <3>1, <3>3
      <4>3. (1..Count(p, t)) \cup {Count(p, t) + 1} = 1..(Count(p, t) + 1) BY <3>1
      <4> QED BY <4>1, <4>2, <4>3
    <3> QED BY <1>2, <3>2, <3>3, CommitAdds
  <2> QED BY <2>1, <2>2 DEF VersionsDense
<1> QED BY <1>1, <1>2, Steps DEF Adds, Passes, Stays, Ends, Opens, SameTables

\* A round of the loop adds the next version of the item to the transaction.
LEMMA PendingStep ==
  ASSUME TypeOK, VersionsDense, IsFiniteSet(rows), PendingOK, WorkOK, [Next]_vars
  PROVE  PendingOK'
<1>0. ASSUME rows' = rows PROVE \A p, t : Count(p, t)' = Count(p, t) BY <1>0 DEF Count, RowsOf
<1>1. CASE Commit BY <1>1 DEF Commit, Leave, AfterItem, PendingOK, InTx
<1>2. ASSUME NEW rv, Adds(rv) PROVE PendingOK'
  <2> DEFINE new == Row(cur.path, Target, Version, rv, cur.op = "mark", cur.rec)
  <2>1. /\ InTx /\ InTx' /\ cur.k \in 1..Len(Targets) /\ Target = Targets[cur.k]
        /\ cur'.k = cur.k + 1 /\ cur'.rows = cur.rows \cup {new} /\ rows' = rows
        /\ cur'.path = cur.path /\ cur'.op = cur.op /\ cur'.rec = cur.rec /\ skipped' = skipped
    BY <1>2, AtOne DEF Adds, SameWork, SameTables, InTx
  <2>2. /\ new.path = cur.path /\ new.target = Target /\ new.del = (cur.op = "mark")
        /\ new.rec = cur.rec /\ new.version = Count(new.path, new.target) + 1
    BY <1>2, VersionIs DEF Row, Adds
  <2>3. \A p, t : Count(p, t)' = Count(p, t) BY <1>0, <2>1
  <2> HIDE DEF new
  <2>4. IsFiniteSet(cur'.rows)
    <3>1. IsFiniteSet(cur.rows) BY <2>1 DEF PendingOK
    <3>2. IsFiniteSet(cur.rows \cup {new}) BY <3>1, FS_AddElement
    <3> QED BY <2>1, <3>2
  <2>5. ASSUME NEW r \in cur'.rows
        PROVE  /\ r.path = cur'.path /\ r.version = Count(r.path, r.target)' + 1
               /\ r.del = (cur'.op = "mark") /\ r.rec = cur'.rec
               /\ \E i \in 1..Len(Targets) : i < cur'.k /\ r.target = Targets[i]
    <3>1. CASE r = new BY <2>1, <2>2, <2>3, <3>1
    <3>2. CASE r \in cur.rows
      <4>1. \E i \in 1..Len(Targets) : i < cur.k /\ r.target = Targets[i]
        BY <2>1, <3>2 DEF PendingOK
      <4> QED BY <2>1, <2>3, <3>2, <4>1 DEF PendingOK
    <3> QED BY <2>1, <3>1, <3>2
  <2>6. \A r \in cur.rows : r.target # Target
    <3>1. ASSUME NEW r \in cur.rows PROVE r.target # Target
      <4>1. PICK i \in 1..Len(Targets) : i < cur.k /\ r.target = Targets[i] BY <2>1 DEF PendingOK
      <4> QED BY <2>1, <4>1, BackupAssumption
    <3> QED BY <3>1
  <2>7. \A r, q \in cur'.rows : r.target = q.target => r = q
    BY <2>1, <2>2, <2>6 DEF PendingOK
  <2>8. ASSUME NEW i \in 1..Len(Targets), i < cur'.k
        PROVE  cur'.path \in skipped' \/ \E r \in cur'.rows : r.target = Targets[i]
    <3>1. CASE i = cur.k BY <2>1, <2>2, <3>1
    <3>2. CASE i < cur.k BY <2>1, <3>2 DEF PendingOK
    <3> QED BY <2>1, <2>8, <3>1, <3>2
  <2> QED BY <2>4, <2>5, <2>7, <2>8 DEF PendingOK
<1>3. CASE Passes
  <2>1. /\ InTx /\ InTx' /\ cur.k \in 1..Len(Targets)
        /\ cur'.k = cur.k + 1 /\ cur'.rows = cur.rows /\ rows' = rows
        /\ cur'.path = cur.path /\ cur'.op = cur.op /\ cur'.rec = cur.rec
        /\ skipped' = skipped \cup {cur.path}
    BY <1>3, AtOne DEF Passes, SameWork, InTx
  <2>2. \A p, t : Count(p, t)' = Count(p, t) BY <1>0, <2>1
  <2>3. \A r \in cur.rows : \E i \in 1..Len(Targets) : i < cur.k + 1 /\ r.target = Targets[i]
    BY <2>1 DEF PendingOK
  <2> QED BY <2>1, <2>2, <2>3 DEF PendingOK
<1>4. CASE Stays
  <2>1. \A p, t : Count(p, t)' = Count(p, t) BY <1>0, <1>4 DEF Stays, SameTables
  <2> QED BY <1>4, <2>1 DEF Stays, SameTables, PendingOK
<1>5. CASE Ends BY <1>5 DEF Ends, PendingOK
<1>6. ASSUME NEW p \in Paths, Opens(p) PROVE PendingOK'
  BY <1>6, FS_EmptySet, BackupAssumption DEF Opens, PendingOK
<1> QED BY <1>1, <1>2, <1>3, <1>4, <1>5, <1>6, Steps

\* What is in work keeps its record in files, and what is to be marked too.
LEMMA WorkStep ==
  ASSUME TypeOK, VersionsDense, IsFiniteSet(rows), WorkOK, [Next]_vars
  PROVE  WorkOK'
<1>1. CASE Commit
  <2>1. cur \in Work BY <1>1 DEF Commit, TypeOK
  <2>2. ~InTx' /\ found' = found /\ (pc' = "mark" <=> Marking)
    BY <1>1 DEF Commit, Leave, AfterItem, InTx, Marking
  <2>3. \A p \in Paths : p # cur.path => files'[p] = files[p] BY <1>1, <2>1 DEF Commit, TypeOK, Work
  <2>4. found \subseteq Paths BY DEF TypeOK
  <2>5. \A p \in found : files[p] # None /\ Marking /\ cur.path # p
    BY <1>1 DEF WorkOK, Commit
  <2> QED BY <2>2, <2>3, <2>4, <2>5 DEF WorkOK, Marking
<1>2. CASE (\E rv : Adds(rv)) \/ Passes \/ Stays
  BY <1>2 DEF Adds, Passes, Stays, AtTarget, SameTables, SameWork, WorkOK, Marking, InTx
<1>3. CASE Ends BY <1>3 DEF Ends, SameTables, WorkOK, Marking, Unmet
<1>4. ASSUME NEW p \in Paths, ExamineChanged(p) PROVE WorkOK'
  <2>1. cur'.op = Operation(p) /\ cur'.path = p /\ cur'.rec = disk[p] /\ files' = files
    BY <1>4 DEF ExamineChanged, dbvars
  <2>2. cur'.op # "mark" BY <1>4, <2>1, OperationType DEF ExamineChanged
  <2>3. cur'.op = "metadata-update" => files[p] # None /\ files[p].c = disk[p].c
    BY <2>1 DEF Operation
  <2>4. found' = {} BY <1>4 DEF ExamineChanged, WorkOK, Marking, InTx
  <2> QED BY <2>1, <2>2, <2>3, <2>4 DEF WorkOK, Marking
<1>5. ASSUME NEW p \in Paths, MarkBegins(p) PROVE WorkOK'
  <2>1. cur'.op = "mark" /\ cur'.path = p /\ ~cur'.cancelled /\ files' = files /\ InTx'
    BY <1>5 DEF MarkBegins, dbvars, InTx
  <2>2. found' = found \ {p} BY <1>5 DEF MarkBegins
  <2> QED BY <2>1, <2>2 DEF WorkOK, Marking
<1> QED BY <1>1, <1>2, <1>3, <1>4, <1>5, Steps

\* The newest version of an item on a target tells what files does.
LEMMA TrackedStep ==
  ASSUME TypeOK, VersionsDense, IsFiniteSet(rows), PendingOK, WorkOK, FilesTracked, [Next]_vars
  PROVE  FilesTracked'
<1>1. CASE rows' = rows /\ files' = files /\ skipped \subseteq skipped'
  BY <1>1 DEF FilesTracked, RowsOf
<1>2. CASE Commit
  <2>0. cur \in Work /\ InTx /\ skipped' = skipped /\ cur.path \in Paths /\ cur.rec \in Item
    BY <1>2 DEF Commit, TypeOK, InTx, Work
  <2>1. files'[cur.path] = (IF cur.op = "mark" THEN None ELSE cur.rec)
        /\ \A p \in Paths : p # cur.path => files'[p] = files[p]
    BY <1>2, <2>0 DEF Commit, TypeOK
  <2>2. SUFFICES ASSUME NEW p \in Paths \ skipped, NEW t \in TargetSet
                 PROVE  LET Newest == {r \in RowsOf(p, t)' :
                                         \A q \in RowsOf(p, t)' : q.version <= r.version}
                        IN  IF files'[p] = None THEN \A r \in Newest : r.del
                            ELSE \E r \in Newest : ~r.del /\ r.rec = files'[p]
    BY <2>0 DEF FilesTracked
  <2>3. CASE p # cur.path
    <3>1. \A r \in cur.rows : r.path # p BY <2>0, <2>3 DEF PendingOK
    <3>2. RowsOf(p, t)' = RowsOf(p, t) BY <1>2, <3>1 DEF Commit, RowsOf
    <3>3. files'[p] = files[p] BY <2>1, <2>3
    <3> QED BY <3>2, <3>3 DEF FilesTracked
  <2>4. CASE p = cur.path
    <3>1. PICK i \in 1..Len(Targets) : t = Targets[i] BY DEF TargetSet
    <3>2. i < cur.k
      <4>1. cur.k \in 1..(Len(Targets) + 1) /\ cur.k > Len(Targets) BY <1>2, <2>0 DEF Commit, Work
      <4> QED BY <4>1, BackupAssumption
    <3>3. \E r \in cur.rows : r.target = t BY <2>0, <2>4, <3>1, <3>2 DEF PendingOK
    <3>4. PICK r \in cur.rows : /\ r.path = p /\ r.target = t
                                /\ r.version = Count(p, t) + 1 /\ r \notin RowsOf(p, t)
                                /\ RowsOf(p, t)' = RowsOf(p, t) \cup {r}
      <4>1. \A q \in cur.rows : q.path = p BY <2>0, <2>4 DEF PendingOK
      <4> QED BY <1>2, <3>3, <4>1, CommitAdds
    <3>5. r.del = (cur.op = "mark") /\ r.rec = cur.rec BY <2>0 DEF PendingOK
    <3>6. Count(p, t) \in Nat BY RowsCounted
    <3>7. \A q \in RowsOf(p, t) : q.version \in 1..Count(p, t) BY DEF VersionsDense, Count
    <3>8. {q \in RowsOf(p, t)' : \A s \in RowsOf(p, t)' : s.version <= q.version} = {r}
      BY <3>4, <3>6, <3>7
    <3>9. cur.rec # None BY <2>0, NoneAssumption
    <3> QED BY <2>1, <2>4, <3>5, <3>8, <3>9
  <2> QED BY <2>3, <2>4
<1> QED BY <1>1, <1>2, Steps DEF Adds, Passes, Stays, Ends, Opens, SameTables

-----------------------------------------------------------------------------
(* Objects. *)

\* What the operations of a store leave in it of the objects it had.
LEMMA StoreKeeps ==
  ASSUME NEW kind, NEW st \in Bucket, NEW p, NEW v, NEW c, NEW rv, NEW o \in st.objects
  PROVE  /\ o.path # p \/ o.rv # UploadId(kind, st, v) => o \in Uploaded(kind, st, p, v, c).objects
         /\ o.path # p \/ o.rv[1] = "v" => o \in MarkedDeleted(kind, st, p, v).objects
         /\ o.path # p \/ o.rv # rv => o \in Deleted(kind, st, p, rv).objects
<1>1. ASSUME o.path # p \/ o.rv # UploadId(kind, st, v)
      PROVE  o \in Uploaded(kind, st, p, v, c).objects
  BY <1>1 DEF Uploaded, Put, Named
<1>2. ASSUME o.path # p \/ o.rv[1] = "v" PROVE o \in MarkedDeleted(kind, st, p, v).objects
  <2>1. MarkId(kind, st, v)[1] = "d" BY DEF MarkId
  <2>2. o.path # p \/ o.rv # MarkId(kind, st, v) BY <1>2, <2>1
  <2> QED BY <2>2 DEF MarkedDeleted, Put, Named
<1>3. ASSUME o.path # p \/ o.rv # rv PROVE o \in Deleted(kind, st, p, rv).objects
  BY <1>3 DEF Deleted, Named, Bucket
<1> QED BY <1>1, <1>2, <1>3

\* A store never gives an identifier twice.
LEMMA StoreCounts ==
  ASSUME NEW kind, NEW st \in Bucket, NEW p, NEW v, NEW c, NEW rv
  PROVE  /\ Uploaded(kind, st, p, v, c).gen >= st.gen
         /\ MarkedDeleted(kind, st, p, v).gen >= st.gen
         /\ Deleted(kind, st, p, rv).gen = st.gen
         /\ [path |-> p, rv |-> UploadId(kind, st, v), c |-> c]
              \in Uploaded(kind, st, p, v, c).objects
         /\ kind # "azure" => /\ UploadId(kind, st, v) = <<"v", st.gen + 1>>
                              /\ Uploaded(kind, st, p, v, c).gen = st.gen + 1
         /\ kind = "azure" => UploadId(kind, st, v) = <<"v", v>>
         /\ MarkId(kind, st, v)[1] = "d"
<1>1. st.gen \in Nat BY DEF Bucket
<1>2. Uploaded(kind, st, p, v, c).gen >= st.gen /\ MarkedDeleted(kind, st, p, v).gen >= st.gen
  BY <1>1 DEF Uploaded, MarkedDeleted
<1>3. Deleted(kind, st, p, rv).gen = st.gen BY DEF Deleted, Bucket
<1>4. [path |-> p, rv |-> UploadId(kind, st, v), c |-> c] \in Uploaded(kind, st, p, v, c).objects
  BY DEF Uploaded, Put
<1>5. kind # "azure" => /\ UploadId(kind, st, v) = <<"v", st.gen + 1>>
                        /\ Uploaded(kind, st, p, v, c).gen = st.gen + 1
  BY DEF UploadId, Uploaded
<1>6. kind = "azure" => UploadId(kind, st, v) = <<"v", v>> BY DEF UploadId
<1>7. MarkId(kind, st, v)[1] = "d" BY DEF MarkId
<1> QED BY <1>2, <1>3, <1>4, <1>5, <1>6, <1>7

\* The store of a row may change, as long as it keeps what the row names.
LEMMA RowKept ==
  ASSUME NEW r, disk' = disk, edits' = edits, Holds(r), Taken(r),
         store[r.target].gen \in Nat, store'[r.target].gen \in Nat,
         store'[r.target].gen >= store[r.target].gen, r.rv[2] \in Nat,
         \A o \in store[r.target].objects :
           o.path = r.path /\ o.rv = r.rv => o \in store'[r.target].objects
  PROVE  Holds(r)' /\ Taken(r)'
<1>1. Holds(r)' BY DEF Holds
<1>2. Taken(r)'
  <2>1. CASE Kind[r.target] = "azure" BY <2>1 DEF Taken
  <2>2. CASE Kind[r.target] # "azure" BY <2>2 DEF Taken
  <2> QED BY <2>1, <2>2
<1> QED BY <1>1, <1>2

\* The identifier of an upload is not that of a row.
LEMMA UploadFresh ==
  ASSUME TypeOK, VersionsDense, IsFiniteSet(rows), AtTarget, NEW r \in rows, Taken(r),
         r.path = cur.path, r.target = Target
  PROVE  r.rv # UploadId(Kind[Target], store[Target], Version)
<1>1. Target \in TargetSet /\ cur.path \in Paths BY AtOne
<1>2. Version = Count(cur.path, Target) + 1 BY VersionIs
<1>3. Count(cur.path, Target) \in Nat BY RowsCounted
<1>4. r \in RowsOf(cur.path, Target) BY DEF RowsOf
<1>5. r.version \in 1..Count(cur.path, Target) BY <1>1, <1>4 DEF VersionsDense, Count
<1>6. store[Target] \in Bucket /\ store[Target].gen \in Nat BY <1>1 DEF TypeOK, Bucket
<1>7. r.rv[2] \in Nat BY DEF TypeOK, RemoteRow, RemoteVersions
<1>8. CASE Kind[Target] = "azure"
  <2>1. UploadId(Kind[Target], store[Target], Version)[2] = Version BY <1>8 DEF UploadId
  <2>2. r.rv[2] <= r.version BY <1>8 DEF Taken
  <2> QED BY <1>2, <1>3, <1>5, <1>7, <2>1, <2>2
<1>9. CASE Kind[Target] # "azure"
  <2>1. UploadId(Kind[Target], store[Target], Version)[2] = store[Target].gen + 1
    BY <1>9 DEF UploadId
  <2>2. r.rv[2] <= store[Target].gen BY <1>9 DEF Taken
  <2> QED BY <1>6, <1>7, <2>1, <2>2
<1> QED BY <1>8, <1>9

-----------------------------------------------------------------------------
\* A step that touches neither disk nor stores and adds no row.
Quiet ==
  /\ store' = store /\ disk' = disk /\ edits' = edits /\ rows' = rows
  /\ skipped \subseteq skipped'
  /\ InTx' =>
       \/ /\ cur'.sent = <<>> /\ cur'.rows = {}
          /\ Marking' \/ (disk[cur'.path] # None /\ cur'.rec = disk[cur'.path])
       \/ /\ InTx /\ cur'.path = cur.path /\ cur'.op = cur.op /\ cur'.rec = cur.rec
          /\ cur'.rows = cur.rows /\ (pc' = "targets" => pc = "targets")
          /\ \A i \in DOMAIN cur'.sent : \E j \in DOMAIN cur.sent : cur'.sent[i] = cur.sent[j]

Touches == Commit \/ Upload \/ UploadAnswerLost \/ UpdateMetadata \/ Mark \/ Undo

\* The list of what was sent, without its first element.
LEMMA TailSent ==
  ASSUME cur \in Work, cur.sent # <<>>
  PROVE  \A i \in DOMAIN Tail(cur.sent) : \E j \in DOMAIN cur.sent : Tail(cur.sent)[i] = cur.sent[j]
<1>1. cur.sent \in Seq([target : TargetSet, rv : RemoteVersions]) BY DEF Work
<1> QED BY <1>1, HeadFacts

\* Which steps touch disk, stores or rows.
LEMMA StoreSteps ==
  ASSUME TypeOK, [Next]_vars
  PROVE  Touches \/ Quiet \/ \E p \in Paths : Write(p) \/ Chmod(p) \/ Remove(p)
<1>1. ASSUME store' = store, disk' = disk, edits' = edits, rows' = rows, skipped' = skipped,
             ~InTx' \/ (InTx /\ cur' = cur /\ pc' = pc)
      PROVE  Quiet
  BY <1>1 DEF Quiet
<1>2. ASSUME NEW W, Reconfigure(W) PROVE Quiet
  BY <1>1, <1>2 DEF Reconfigure, InTx, dbvars, jobvars
<1>3. CASE Cancel \/ Crash \/ StartJob
  BY <1>1, <1>3 DEF Cancel, Crash, StartJob, InTx, envvars, dbvars
<1>4. ASSUME NEW p \in Paths, \/ ScanAbsent(p) \/ ScanUnseen(p) \/ ExamineUnchanged(p)
                              \/ ExamineUnchangedPartly(p) \/ ExamineFails(p)
      PROVE  Quiet
  BY <1>1, <1>4 DEF ScanAbsent, ScanUnseen, ExamineUnchanged, ExamineUnchangedPartly,
     ExamineFails, InTx, envvars, dbvars
<1>5. CASE ScanAborts \/ ScanDone \/ QueryFails \/ EndJob \/ CancelSeen \/ Query \/ MarkDone
  BY <1>1, <1>5 DEF ScanAborts, ScanDone, QueryFails, EndJob, CancelSeen, Query, MarkDone, InTx,
     envvars, dbvars
<1>6. ASSUME NEW p \in Paths, MarkSkips(p) \/ MarkBeginFails(p) PROVE Quiet
  BY <1>1, <1>6 DEF MarkSkips, MarkBeginFails, InTx, envvars, dbvars
<1>7. CASE CommitFails \/ RolledBack
  <2>1. ~InTx' BY <1>7 DEF CommitFails, RolledBack, Leave, AfterItem, InTx
  <2> QED BY <1>1, <1>7, <2>1 DEF CommitFails, RolledBack, envvars
<1>8. ASSUME NEW p \in Paths, ExamineChanged(p) \/ MarkBegins(p) PROVE Quiet
  <2>1. /\ cur'.sent = <<>> /\ cur'.rows = {} /\ store' = store /\ disk' = disk /\ edits' = edits
        /\ rows' = rows /\ skipped' = skipped /\ InTx'
        /\ cur'.op = "mark" \/ (disk[cur'.path] # None /\ cur'.rec = disk[cur'.path])
    BY <1>8 DEF ExamineChanged, MarkBegins, InTx, envvars, dbvars
  <2> QED BY <2>1 DEF Quiet, Marking
<1>9. CASE Skip
  <2>1. /\ cur'.path = cur.path /\ cur'.op = cur.op /\ cur'.rec = cur.rec /\ InTx
        /\ cur'.rows = cur.rows /\ cur'.sent = cur.sent
    BY <1>9, AtOne DEF Skip, Work
  <2> QED BY <1>9, <2>1 DEF Skip, Quiet, envvars, dbvars
<1>10. CASE UploadFails \/ UploadCancelled \/ UpdateFails \/ MarkFails \/ StatementFails
  <2>1. cur \in Work /\ InTx
    BY <1>10, AtOne DEF UploadFails, UploadCancelled, UpdateFails, MarkFails, StatementFails,
       TypeOK, InTx
  <2>2. Abandon(TRUE) \/ Abandon(FALSE)
    BY <1>10 DEF UploadFails, UploadCancelled, UpdateFails, MarkFails, StatementFails
  <2>3. /\ cur'.path = cur.path /\ cur'.op = cur.op /\ cur'.rec = cur.rec
        /\ cur'.rows = cur.rows /\ cur'.sent = cur.sent /\ pc' = "rollback"
    BY <2>1, <2>2, AbandonType
  <2>4. /\ store' = store /\ disk' = disk /\ edits' = edits /\ rows' = rows /\ skipped' = skipped
    BY <1>10 DEF UploadFails, UploadCancelled, UpdateFails, MarkFails, StatementFails, envvars,
       dbvars
  <2> QED BY <2>1, <2>3, <2>4 DEF Quiet
<1>11. CASE UndoFails
  <2>1. cur \in Work /\ InTx /\ cur.sent # <<>> /\ pc' = pc BY <1>11 DEF UndoFails, TypeOK, InTx
  <2>2. /\ cur'.path = cur.path /\ cur'.op = cur.op /\ cur'.rec = cur.rec
        /\ cur'.rows = cur.rows /\ cur'.sent = Tail(cur.sent)
    BY <1>11, <2>1, DropSentType DEF UndoFails
  <2> QED BY <1>11, <2>1, <2>2, TailSent DEF UndoFails, Quiet, envvars, dbvars
<1>12. CASE UNCHANGED vars BY <1>1, <1>12 DEF vars, InTx
<1> QED
  BY <1>2, <1>3, <1>4, <1>5, <1>6, <1>7, <1>8, <1>9, <1>10, <1>11, <1>12
     DEF Next, Environment, Scan, Transaction, FindAndMarkDeleted, Job, Touches

\* A change on disk gives the item a later content, or takes it away.
LEMMA ChangeIs ==
  ASSUME TypeOK, NEW p \in Paths, Write(p) \/ Chmod(p) \/ Remove(p)
  PROVE  /\ edits' = edits + 1 /\ edits \in Nat
         /\ \A q \in Paths : q # p => disk'[q] = disk[q]
         /\ disk'[p] = None \/ disk'[p].c = edits + 1
            \/ (disk[p] # None /\ disk'[p].c = disk[p].c)
         /\ store' = store /\ rows' = rows /\ skipped' = skipped /\ cur' = cur /\ pc' = pc
<1>0. edits \in Nat /\ disk \in [Paths -> Item \cup {None}] BY BackupAssumption DEF TypeOK
<1>1. PICK i : Change(p, i) /\ (i = None \/ i.c = edits + 1 \/ (disk[p] # None /\ i.c = disk[p].c))
  <2>1. CASE Write(p) BY <2>1 DEF Write
  <2>2. CASE Chmod(p)
    <3>1. disk[p] \in Item BY <1>0, <2>2 DEF Chmod
    <3>2. [disk[p] EXCEPT !.m = edits + 1].c = disk[p].c BY <3>1 DEF Item
    <3> QED BY <2>2, <3>2 DEF Chmod
  <2>3. CASE Remove(p) BY <2>3 DEF Remove
  <2> QED BY <2>1, <2>2, <2>3
<1>2. disk'[p] = i /\ \A q \in Paths : q # p => disk'[q] = disk[q] BY <1>0, <1>1 DEF Change
<1> QED BY <1>0, <1>1, <1>2 DEF Change, jobvars

\* What a round of the loop does to disk and item.
LEMMA RoundKeeps ==
  ASSUME TypeOK, VersionsDense, IsFiniteSet(rows), Upload \/ Mark \/ UpdateMetadata
  PROVE  /\ disk' = disk /\ edits' = edits /\ rows' = rows /\ skipped' = skipped /\ pc' = pc
         /\ cur'.path = cur.path /\ cur'.op = cur.op /\ cur'.rec = cur.rec /\ AtTarget
<1>1. \E rv \in RemoteVersions : NextTarget(rv, Sent(rv)) \/ NextTarget(rv, <<>>)
  <2>1. CASE Upload BY <2>1, AtOne, VersionIs, BucketTypes DEF Upload, TypeOK
  <2>2. CASE Mark BY <2>2, AtOne, VersionIs, BucketTypes DEF Mark, TypeOK
  <2>3. CASE UpdateMetadata BY <2>3 DEF UpdateMetadata, VersionRows, RowsOf, TypeOK, RemoteRow
  <2> QED BY <2>1, <2>2, <2>3
<1>2. AtTarget /\ cur \in Work BY AtOne DEF Upload, Mark, UpdateMetadata
<1>3. cur'.path = cur.path /\ cur'.op = cur.op /\ cur'.rec = cur.rec
  BY <1>1, <1>2 DEF NextTarget, Work
<1> QED BY <1>2, <1>3 DEF Upload, Mark, UpdateMetadata, envvars, dbvars

\* The contents of the disk, and of what was examined, are numbered by the edits.
LEMMA EditsStep ==
  ASSUME TypeOK, TypeOK', VersionsDense, IsFiniteSet(rows), EditsOK, [Next]_vars
  PROVE  EditsOK'
<1>0. edits \in Nat /\ \A p \in Paths : disk[p] # None => disk[p].c \in Nat
  BY BackupAssumption DEF TypeOK, Item
<1>1. ASSUME NEW p \in Paths, Write(p) \/ Chmod(p) \/ Remove(p) PROVE EditsOK'
  <2>1. InTx => cur.path \in Paths /\ cur.rec.c \in Nat BY DEF InTx, TypeOK, Work, Item
  <2>2. \A q \in Paths : disk'[q] # None =>
          disk'[q].c = edits + 1 \/ (disk[q] # None /\ disk'[q].c = disk[q].c)
    BY <1>1, ChangeIs
  <2>3. edits' = edits + 1 /\ cur' = cur /\ pc' = pc BY <1>1, ChangeIs
  <2>4. \A q \in Paths : disk'[q] # None => disk'[q].c <= edits' BY <1>0, <2>2, <2>3 DEF EditsOK
  <2>5. ASSUME InTx, ~Marking
        PROVE  cur.rec.c <= edits' /\ (disk'[cur.path] # None => cur.rec.c <= disk'[cur.path].c)
    <3>1. cur.rec.c <= edits /\ (disk[cur.path] # None => cur.rec.c <= disk[cur.path].c)
      BY <2>5 DEF EditsOK
    <3> QED BY <1>0, <2>1, <2>2, <2>3, <2>5, <3>1
  <2> QED BY <2>3, <2>4, <2>5 DEF EditsOK, InTx, Marking
<1>2. CASE Quiet
  <2>1. CASE ~InTx' BY <1>2, <2>1 DEF Quiet, EditsOK
  <2>2. CASE InTx' /\ cur'.sent = <<>> /\ cur'.rows = {}
             /\ (Marking' \/ (disk[cur'.path] # None /\ cur'.rec = disk[cur'.path]))
    <3>1. cur'.path \in Paths BY <2>2 DEF TypeOK, InTx, Work
    <3>2. disk' = disk /\ edits' = edits BY <1>2 DEF Quiet
    <3>3. \A p \in Paths : disk[p] # None => disk[p].c <= edits BY DEF EditsOK
    <3>4. CASE Marking' BY <3>2, <3>3, <3>4 DEF EditsOK
    <3>5. CASE disk[cur'.path] # None /\ cur'.rec = disk[cur'.path]
      BY <1>0, <3>1, <3>2, <3>3, <3>5 DEF EditsOK
    <3> QED BY <2>2, <3>4, <3>5
  <2>3. CASE InTx' /\ InTx /\ cur'.path = cur.path /\ cur'.op = cur.op /\ cur'.rec = cur.rec
    BY <1>2, <2>3 DEF Quiet, EditsOK, Marking
  <2> QED BY <1>2, <2>1, <2>2, <2>3 DEF Quiet
<1>3. CASE Commit
  <2>1. ~InTx' /\ disk' = disk /\ edits' = edits
    BY <1>3 DEF Commit, Leave, AfterItem, InTx, envvars
  <2> QED BY <2>1 DEF EditsOK
<1>4. CASE Upload \/ Mark \/ UpdateMetadata
  BY <1>4, RoundKeeps DEF EditsOK, Marking, InTx
<1>5. CASE UploadAnswerLost \/ Undo
  <2>1. /\ disk' = disk /\ edits' = edits /\ InTx /\ InTx'
        /\ cur'.path = cur.path /\ cur'.op = cur.op /\ cur'.rec = cur.rec
    <3>1. CASE UploadAnswerLost
      BY <3>1, AtOne, AbandonType DEF UploadAnswerLost, InTx, envvars
    <3>2. CASE Undo BY <3>2, DropSentType DEF Undo, TypeOK, InTx, envvars
    <3> QED BY <1>5, <3>1, <3>2
  <2> QED BY <2>1 DEF EditsOK, Marking
<1> QED BY <1>1, <1>2, <1>3, <1>4, <1>5, StoreSteps DEF Touches

\* No version is given twice.
LEMMA OneRow ==
  ASSUME VersionsDense, IsFiniteSet(rows), NEW p \in Paths, NEW t \in TargetSet,
         NEW q \in RowsOf(p, t), NEW n \in RowsOf(p, t), q.version = n.version
  PROVE  q = n
<1> DEFINE S == RowsOf(p, t)
           f == [r \in S |-> r.version]
<1>1. IsFiniteSet(S) /\ Count(p, t) \in Nat BY RowsCounted
<1>2. {r.version : r \in S} = 1..Count(p, t) BY DEF VersionsDense, Count
<1>3. f \in Surjection(S, 1..Count(p, t)) BY <1>2 DEF Surjection
<1>4. Cardinality(1..Count(p, t)) = Count(p, t)
  <2>1. 1 \in Int /\ Count(p, t) \in Int BY <1>1
  <2>2. Cardinality(1..Count(p, t)) = IF 1 > Count(p, t) THEN 0 ELSE Count(p, t) - 1 + 1
    BY <2>1, FS_Interval
  <2> QED BY <1>1, <2>2
<1>5. Cardinality(S) = Cardinality(1..Count(p, t)) BY <1>4 DEF Count
<1> HIDE DEF f
<1>6. f \in Injection(S, 1..Count(p, t)) BY <1>1, <1>3, <1>5, FS_SurjSameCardinalityImpliesInj
<1>7. f[q] = f[n] BY DEF f
<1> QED BY <1>6, <1>7 DEF Injection, IsInjective

\* The columns of a row.
LEMMA RowFacts ==
  ASSUME NEW r \in RemoteRow
  PROVE  /\ r.target \in TargetSet /\ r.path \in Paths /\ r.version \in Nat
         /\ r.rv \in RemoteVersions /\ r.rv[2] \in Nat /\ r.rec.c \in Nat /\ r.rec.c > 0
  BY DEF RemoteRow, RemoteVersions, Item

\* A set of rows stays restorable when store t keeps what those of t name.
LEMMA RowsKept ==
  ASSUME TypeOK, TypeOK', disk' = disk, edits' = edits, skipped' = skipped,
         NEW t \in TargetSet, \A u \in TargetSet : u # t => store'[u] = store[u],
         store'[t].gen >= store[t].gen,
         NEW R \in SUBSET RemoteRow, \A r \in R : Real(r) => Holds(r) /\ Taken(r),
         \A r \in R : Real(r) /\ r.target = t =>
           \A o \in store[t].objects : o.path = r.path /\ o.rv = r.rv => o \in store'[t].objects
  PROVE  \A r \in R : Real(r)' => Holds(r)' /\ Taken(r)'
<1> SUFFICES ASSUME NEW r \in R, Real(r)' PROVE Holds(r)' /\ Taken(r)' OBVIOUS
<1>1. Real(r) BY DEF Real
<1>2. r.target \in TargetSet /\ r.rv[2] \in Nat BY RowFacts
<1>3. \A u \in TargetSet : store[u].gen \in Nat /\ store'[u].gen \in Nat BY DEF TypeOK, Bucket
<1>4. store'[r.target].gen >= store[r.target].gen BY <1>2, <1>3
<1>5. \A o \in store[r.target].objects :
        o.path = r.path /\ o.rv = r.rv => o \in store'[r.target].objects
  BY <1>1, <1>2
<1> QED BY <1>1, <1>2, <1>3, <1>4, <1>5, RowKept

\* An upload keeps what the rows of the database name, and what the rows of the transaction
\* name on the targets before.
LEMMA UploadKeeps ==
  ASSUME TypeOK, TypeOK', VersionsDense, IsFiniteSet(rows), PendingOK, ContentOK,
         Upload \/ UploadAnswerLost
  PROVE  /\ \A r \in rows : Real(r)' => Holds(r)' /\ Taken(r)'
         /\ \A r \in cur.rows : Real(r)' => Holds(r)' /\ Taken(r)'
<1>0. /\ AtTarget /\ pc = "targets" /\ disk' = disk /\ edits' = edits /\ skipped' = skipped
      /\ store' = [store EXCEPT ![Target] = Uploaded(Kind[Target], store[Target], cur.path,
                                                     Version, disk[cur.path].c)]
  BY DEF Upload, UploadAnswerLost, envvars, AtTarget
<1>1. /\ Target \in TargetSet /\ InTx /\ cur \in Work /\ cur.path \in Paths
      /\ cur.k \in 1..Len(Targets) /\ Target = Targets[cur.k]
  BY <1>0, AtOne
<1>2. store[Target] \in Bucket BY <1>1 DEF TypeOK
<1> DEFINE new == Uploaded(Kind[Target], store[Target], cur.path, Version, disk[cur.path].c)
<1>3. /\ store'[Target] = new
      /\ \A u \in TargetSet : u # Target => store'[u] = store[u]
  BY <1>0, <1>1 DEF TypeOK
<1>4. new.gen >= store[Target].gen BY <1>2, StoreCounts
<1>5. \A o \in store[Target].objects :
        o.path # cur.path \/ o.rv # UploadId(Kind[Target], store[Target], Version)
          => o \in new.objects
  BY <1>2, StoreKeeps
<1>6. rows \in SUBSET RemoteRow /\ cur.rows \in SUBSET RemoteRow BY <1>1 DEF TypeOK, Work
<1>7. \A r \in rows : Real(r) => Holds(r) /\ Taken(r) BY DEF ContentOK
<1>8. \A r \in cur.rows : Real(r) => Holds(r) /\ Taken(r) BY <1>0 DEF ContentOK
<1> HIDE DEF new
<1>9. ASSUME NEW r \in rows, Real(r), r.target = Target, NEW o \in store[Target].objects,
             o.path = r.path, o.rv = r.rv
      PROVE  o \in new.objects
  <2>1. r.path = cur.path => r.rv # UploadId(Kind[Target], store[Target], Version)
    BY <1>0, <1>7, <1>9, UploadFresh
  <2> QED BY <1>5, <1>9, <2>1
<1>10. ASSUME NEW r \in cur.rows PROVE r.target # Target
  <2>1. PICK i \in 1..Len(Targets) : i < cur.k /\ r.target = Targets[i] BY <1>1 DEF PendingOK
  <2> QED BY <1>1, <2>1, BackupAssumption
<1>11. \A r \in rows : Real(r)' => Holds(r)' /\ Taken(r)'
  BY <1>0, <1>1, <1>3, <1>4, <1>6, <1>7, <1>9, RowsKept
<1>12. \A r \in cur.rows : Real(r)' => Holds(r)' /\ Taken(r)'
  BY <1>0, <1>1, <1>3, <1>4, <1>6, <1>8, <1>10, RowsKept
<1> QED BY <1>11, <1>12

\* The row of an upload names what was uploaded.
LEMMA UploadHolds ==
  ASSUME TypeOK, TypeOK', VersionsDense, IsFiniteSet(rows), EditsOK, Upload,
         NEW rv, rv = UploadId(Kind[Target], store[Target], Version), NEW r,
         r = Row(cur.path, Target, Version, rv, cur.op = "mark", cur.rec)
  PROVE  Holds(r)' /\ Taken(r)'
<1>0. /\ AtTarget /\ Uploads /\ disk[cur.path] # None /\ disk' = disk /\ edits' = edits
      /\ store' = [store EXCEPT ![Target] = Uploaded(Kind[Target], store[Target], cur.path,
                                                     Version, disk[cur.path].c)]
  BY DEF Upload, envvars
<1>1. Target \in TargetSet /\ InTx /\ cur \in Work /\ cur.path \in Paths BY <1>0, AtOne
<1>2. store[Target] \in Bucket /\ store[Target].gen \in Nat BY <1>1 DEF TypeOK, Bucket
<1>3. Version \in Nat BY <1>0, VersionIs
<1> DEFINE new == Uploaded(Kind[Target], store[Target], cur.path, Version, disk[cur.path].c)
           o == [path |-> cur.path, rv |-> rv, c |-> disk[cur.path].c]
<1>4. store'[Target] = new BY <1>0, <1>1 DEF TypeOK
<1>5. o \in new.objects BY <1>2, StoreCounts
<1>6. /\ r.path = cur.path /\ r.target = Target /\ r.version = Version /\ r.rv = rv
      /\ r.rec = cur.rec
  BY DEF Row
<1>7. cur.rec.c <= disk[cur.path].c /\ disk[cur.path].c <= edits
  BY <1>0, <1>1 DEF EditsOK, Marking, Uploads
<1>8. disk[cur.path].c \in Nat BY <1>0, <1>1 DEF TypeOK, Item
<1>9. /\ o.path = r.path /\ o.rv = r.rv /\ r.rec.c <= o.c /\ o.c <= edits
      /\ o.c <= disk[r.path].c
  BY <1>6, <1>7, <1>8
<1>10. Holds(r)'
  <2>1. o \in store'[r.target].objects BY <1>4, <1>5, <1>6
  <2> HIDE DEF o
  <2> QED BY <1>0, <1>9, <2>1 DEF Holds
<1>11. Taken(r)'
  <2>1. CASE Kind[Target] = "azure"
    <3>1. rv = <<"v", Version>> BY <1>2, <2>1, StoreCounts
    <3>2. rv[1] = "v" /\ rv[2] <= Version BY <1>3, <3>1
    <3> QED BY <1>6, <2>1, <3>2 DEF Taken
  <2>2. CASE Kind[Target] # "azure"
    <3>0. rv = <<"v", store[Target].gen + 1>> BY <2>2 DEF UploadId
    <3>1. rv = <<"v", store[Target].gen + 1>> /\ new.gen = store[Target].gen + 1
      BY <2>2, <3>0 DEF Uploaded
    <3>2. rv[1] = "v" /\ rv[2] <= new.gen BY <1>2, <3>1
    <3> HIDE DEF new
    <3> QED BY <1>4, <1>6, <2>2, <3>2 DEF Taken
  <2> QED BY <2>1, <2>2
<1> QED BY <1>10, <1>11

\* The row of a metadata update names what the newest row names.
LEMMA UpdateHolds ==
  ASSUME TypeOK, VersionsDense, IsFiniteSet(rows), WorkOK, FilesTracked, ContentOK,
         UpdateMetadata, NEW q \in VersionRows(cur.path, Target, Version - 1), NEW r,
         r = Row(cur.path, Target, Version, q.rv, cur.op = "mark", cur.rec), Real(r)
  PROVE  Holds(r)' /\ Taken(r)'
<1>0. AtTarget /\ store' = store /\ disk' = disk /\ edits' = edits
      /\ cur.op = "metadata-update"
  BY DEF UpdateMetadata, envvars
<1>1. Target \in TargetSet /\ InTx /\ cur \in Work /\ cur.path \in Paths BY <1>0, AtOne
<1>2. /\ r.path = cur.path /\ r.target = Target /\ r.version = Version /\ r.rv = q.rv
      /\ r.rec = cur.rec
  BY DEF Row
<1>3. cur.path \notin skipped BY <1>2 DEF Real
<1>4. Count(cur.path, Target) \in Nat /\ Version = Count(cur.path, Target) + 1
  BY <1>0, VersionIs, RowsCounted
<1>5. /\ q \in rows /\ q \in RowsOf(cur.path, Target) /\ q.path = cur.path /\ q.target = Target
      /\ q.version = Count(cur.path, Target)
  BY <1>4 DEF VersionRows, RowsOf
<1>6. files[cur.path] # None /\ files[cur.path].c = cur.rec.c BY <1>0, <1>1 DEF WorkOK
<1>7. PICK n \in RowsOf(cur.path, Target) :
            /\ \A s \in RowsOf(cur.path, Target) : s.version <= n.version
            /\ ~n.del /\ n.rec = files[cur.path]
  BY <1>1, <1>3, <1>6 DEF FilesTracked
<1>8. \A s \in RowsOf(cur.path, Target) : s.version \in 1..Count(cur.path, Target)
  BY <1>1 DEF VersionsDense, Count
<1>9. q.version = n.version BY <1>4, <1>5, <1>7, <1>8
<1>10. q = n BY <1>1, <1>5, <1>7, <1>9, OneRow
<1>11. Holds(q) /\ Taken(q) /\ q.rec.c = cur.rec.c
  BY <1>3, <1>5, <1>6, <1>7, <1>10 DEF ContentOK, Real
<1>12. Holds(r)' BY <1>0, <1>2, <1>5, <1>11 DEF Holds
<1>13. Taken(r)'
  <2>1. q.version <= Version /\ q.rv[2] \in Nat /\ q.version \in Nat /\ Version \in Nat
    BY <1>4, <1>5, RowFacts DEF TypeOK
  <2>2. CASE Kind[Target] = "azure"
    <3>1. q.rv[1] = "v" /\ q.rv[2] <= q.version BY <1>5, <1>11, <2>2 DEF Taken
    <3> QED BY <1>2, <2>1, <2>2, <3>1 DEF Taken
  <2>3. CASE Kind[Target] # "azure" BY <1>0, <1>2, <1>5, <1>11, <2>3 DEF Taken
  <2> QED BY <2>2, <2>3
<1> QED BY <1>12, <1>13

\* What a round of the loop adds to the transaction.
LEMMA RoundAdds ==
  ASSUME TypeOK, VersionsDense, IsFiniteSet(rows), AtTarget, NEW rv \in RemoteVersions,
         NextTarget(rv, Sent(rv))
  PROVE  /\ cur'.path = cur.path
         /\ cur'.rows = cur.rows \cup
              {Row(cur.path, Target, Version, rv, cur.op = "mark", cur.rec)}
         /\ \A i \in DOMAIN cur'.sent :
              \/ \E j \in DOMAIN cur.sent : cur'.sent[i] = cur.sent[j]
              \/ cur'.sent[i] = [target |-> Target, rv |-> rv]
<1>1. cur \in Work /\ Target \in TargetSet BY AtOne
<1> DEFINE e == [target |-> Target, rv |-> rv]
           T == [target : TargetSet, rv : RemoteVersions]
<1>2. e \in T BY <1>1
<1>3. cur.sent \in Seq(T) BY <1>1 DEF Work
<1>4. Sent(rv) = <<e>> BY DEF Sent
<1> HIDE DEF e, T
<1>5. Sent(rv) \in Seq(T) BY <1>2, <1>4
<1>6. /\ cur'.path = cur.path /\ cur'.sent = cur.sent \o Sent(rv)
      /\ cur'.rows = cur.rows \cup
           {Row(cur.path, Target, Version, rv, cur.op = "mark", cur.rec)}
  BY <1>5, NextTargetType DEF T
<1>7. ASSUME NEW i \in DOMAIN (cur.sent \o <<e>>)
      PROVE  \/ \E j \in DOMAIN cur.sent : (cur.sent \o <<e>>)[i] = cur.sent[j]
             \/ (cur.sent \o <<e>>)[i] = e
  BY <1>2, <1>3
<1> QED BY <1>4, <1>6, <1>7 DEF e

\* What a rollback would delete is never what a row names.
LEMMA SentStep ==
  ASSUME TypeOK, TypeOK', VersionsDense, IsFiniteSet(rows), ContentOK, SentOK, [Next]_vars
  PROVE  SentOK'
<1>1. ASSUME rows' = rows, skipped \subseteq skipped', InTx, cur'.path = cur.path,
             \A i \in DOMAIN cur'.sent : \E j \in DOMAIN cur.sent : cur'.sent[i] = cur.sent[j]
      PROVE  SentOK'
  BY <1>1 DEF SentOK, Real
<1>2. ASSUME NEW p \in Paths, Write(p) \/ Chmod(p) \/ Remove(p) PROVE SentOK'
  <2>1. rows' = rows /\ skipped' = skipped /\ cur' = cur /\ pc' = pc BY <1>2, ChangeIs
  <2> QED BY <2>1 DEF SentOK, InTx, Real
<1>3. CASE Quiet
  <2>1. CASE ~InTx' BY <2>1 DEF SentOK
  <2>2. CASE cur'.sent = <<>> BY <2>2 DEF SentOK
  <2> QED BY <1>1, <1>3, <2>1, <2>2 DEF Quiet
<1>4. CASE Commit BY <1>4 DEF Commit, Leave, AfterItem, SentOK, InTx
<1>5. ASSUME AtTarget, NEW rv \in RemoteVersions, NextTarget(rv, Sent(rv)), rows' = rows,
             skipped' = skipped,
             \A r \in rows : Real(r) /\ r.path = cur.path /\ r.target = Target => r.rv # rv
      PROVE  SentOK'
  <2>1. /\ cur'.path = cur.path /\ InTx
        /\ \A i \in DOMAIN cur'.sent :
             \/ \E j \in DOMAIN cur.sent : cur'.sent[i] = cur.sent[j]
             \/ cur'.sent[i] = [target |-> Target, rv |-> rv]
    BY <1>5, AtOne, RoundAdds
  <2>2. SUFFICES ASSUME NEW i \in DOMAIN cur'.sent, NEW r \in rows, Real(r), r.path = cur.path,
                        r.target = cur'.sent[i].target
                 PROVE  r.rv # cur'.sent[i].rv
    BY <1>5, <2>1 DEF SentOK, Real
  <2>3. CASE \E j \in DOMAIN cur.sent : cur'.sent[i] = cur.sent[j]
    BY <2>1, <2>2, <2>3 DEF SentOK
  <2>4. CASE cur'.sent[i] = [target |-> Target, rv |-> rv] BY <1>5, <2>2, <2>4
  <2> QED BY <2>1, <2>3, <2>4
<1>6. CASE Upload
  <2>1. AtTarget /\ rows' = rows /\ skipped' = skipped BY <1>6 DEF Upload, dbvars
  <2> DEFINE rv == UploadId(Kind[Target], store[Target], Version)
  <2>2. rv \in RemoteVersions BY <2>1, AtOne, VersionIs, BucketTypes DEF TypeOK
  <2>3. NextTarget(rv, Sent(rv)) BY <1>6 DEF Upload
  <2>4. ASSUME NEW r \in rows, Real(r), r.path = cur.path, r.target = Target PROVE r.rv # rv
    BY <2>1, <2>4, UploadFresh DEF ContentOK
  <2> HIDE DEF rv
  <2> QED BY <1>5, <2>1, <2>2, <2>3, <2>4
<1>7. CASE Mark
  <2>1. AtTarget /\ rows' = rows /\ skipped' = skipped BY <1>7 DEF Mark, dbvars
  <2> DEFINE rv == MarkId(Kind[Target], store[Target], Version)
  <2>2. rv \in RemoteVersions BY <2>1, AtOne, VersionIs, BucketTypes DEF TypeOK
  <2>3. NextTarget(rv, Sent(rv)) BY <1>7 DEF Mark
  <2>4. rv[1] = "d" BY DEF MarkId
  <2> HIDE DEF rv
  <2>5. ASSUME NEW r \in rows, Real(r) PROVE r.rv # rv
    BY <2>4, <2>5 DEF ContentOK, Taken
  <2> QED BY <1>5, <2>1, <2>2, <2>3, <2>5
<1>8. CASE UpdateMetadata
  <2>1. AtTarget /\ rows' = rows /\ skipped' = skipped BY <1>8 DEF UpdateMetadata, dbvars
  <2>2. PICK q \in VersionRows(cur.path, Target, Version - 1) : NextTarget(q.rv, <<>>)
    BY <1>8 DEF UpdateMetadata
  <2>3. q.rv \in RemoteVersions BY DEF VersionRows, RowsOf, TypeOK, RemoteRow
  <2>4. <<>> \in Seq([target : TargetSet, rv : RemoteVersions]) OBVIOUS
  <2>5. cur'.path = cur.path /\ cur'.sent = cur.sent \o <<>>
    BY <2>1, <2>2, <2>3, <2>4, NextTargetType
  <2>6. cur.sent \in Seq([target : TargetSet, rv : RemoteVersions]) /\ InTx
    BY <2>1, AtOne DEF Work
  <2>7. cur'.sent = cur.sent BY <2>5, <2>6
  <2> QED BY <1>1, <2>1, <2>5, <2>6, <2>7
<1>9. CASE UploadAnswerLost
  <2>1. InTx /\ cur'.path = cur.path /\ cur'.sent = cur.sent
    BY <1>9, AtOne, AbandonType DEF UploadAnswerLost
  <2> QED BY <1>1, <1>9, <2>1 DEF UploadAnswerLost, dbvars
<1>10. CASE Undo
  <2>1. cur \in Work /\ InTx /\ cur.sent # <<>> BY <1>10 DEF Undo, TypeOK, InTx
  <2>2. cur'.path = cur.path /\ cur'.sent = Tail(cur.sent)
    BY <1>10, <2>1, DropSentType DEF Undo
  <2> QED BY <1>1, <1>10, <2>1, <2>2, TailSent DEF Undo, dbvars
<1> QED BY <1>2, <1>3, <1>4, <1>6, <1>7, <1>8, <1>9, <1>10, StoreSteps DEF Touches

\* An item that is edited leaves the objects as they are.
LEMMA ChangeHolds ==
  ASSUME TypeOK, NEW p \in Paths, Write(p) \/ Chmod(p) \/ Remove(p), EditsOK,
         NEW r \in RemoteRow, Holds(r)
  PROVE  Holds(r)'
<1>1. /\ edits' = edits + 1 /\ edits \in Nat /\ store' = store
      /\ \A q \in Paths : disk'[q] # None =>
           disk'[q].c = edits + 1 \/ (disk[q] # None /\ disk'[q].c = disk[q].c)
  BY ChangeIs
<1>2. r.path \in Paths /\ r.target \in TargetSet /\ r.rec.c \in Nat BY RowFacts
<1>3. PICK o \in store[r.target].objects :
            /\ o.path = r.path /\ o.rv = r.rv /\ r.rec.c <= o.c /\ o.c <= edits
            /\ disk[r.path] # None => o.c <= disk[r.path].c
  BY DEF Holds
<1>4. o.c \in Nat BY <1>2, BackupAssumption DEF TypeOK, Bucket
<1>5. o.c <= edits' /\ (disk'[r.path] # None => o.c <= disk'[r.path].c) BY <1>1, <1>2, <1>3, <1>4
<1> QED BY <1>1, <1>3, <1>5 DEF Holds

\* What a row names stays in its store.
LEMMA ContentStep ==
  ASSUME TypeOK, TypeOK', VersionsDense, IsFiniteSet(rows), PendingOK, PendingOK', WorkOK,
         FilesTracked, EditsOK, ContentOK, SentOK, [Next]_vars
  PROVE  ContentOK'
<1>0. rows \in SUBSET RemoteRow BY DEF TypeOK
<1>1. ASSUME NEW p \in Paths, Write(p) \/ Chmod(p) \/ Remove(p) PROVE ContentOK'
  <2>1. rows' = rows /\ skipped' = skipped /\ cur' = cur /\ pc' = pc /\ store' = store
    BY <1>1, ChangeIs
  <2>2. pc = "targets" => cur.rows \in SUBSET RemoteRow BY DEF TypeOK, Work
  <2>3. \A r \in RemoteRow : Holds(r) => Holds(r)' BY <1>1, ChangeHolds
  <2>4. \A r : (Taken(r) => Taken(r)') /\ (Real(r)' => Real(r)) BY <2>1 DEF Taken, Real
  <2> QED BY <1>0, <2>1, <2>2, <2>3, <2>4 DEF ContentOK
<1>2. ASSUME store' = store, disk' = disk, edits' = edits, skipped \subseteq skipped'
      PROVE  \A r : /\ Real(r)' => Real(r)
                    /\ Holds(r) => Holds(r)'
                    /\ Taken(r) => Taken(r)'
  BY <1>2 DEF Real, Holds, Taken
<1>3. CASE Quiet
  <2>1. \A r : (Real(r)' => Real(r)) /\ (Holds(r) => Holds(r)') /\ (Taken(r) => Taken(r)')
    BY <1>2, <1>3 DEF Quiet
  <2>2. rows' = rows BY <1>3 DEF Quiet
  <2>3. pc' = "targets" => cur'.rows = {} \/ (cur'.rows = cur.rows /\ pc = "targets")
    BY <1>3 DEF Quiet, InTx
  <2> QED BY <2>1, <2>2, <2>3 DEF ContentOK
<1>4. CASE Commit
  <2>1. /\ store' = store /\ disk' = disk /\ edits' = edits /\ skipped' = skipped
        /\ rows' = rows \cup cur.rows /\ pc = "targets" /\ pc' # "targets"
    BY <1>4 DEF Commit, Leave, AfterItem, envvars
  <2>2. \A r : (Real(r)' => Real(r)) /\ (Holds(r) => Holds(r)') /\ (Taken(r) => Taken(r)')
    BY <1>2, <2>1
  <2> QED BY <2>1, <2>2 DEF ContentOK
<1>5. CASE Upload
  <2>1. /\ AtTarget /\ rows' = rows /\ pc' = pc BY <1>5 DEF Upload, dbvars
  <2>2. PICK rv \in RemoteVersions : rv = UploadId(Kind[Target], store[Target], Version)
    BY <2>1, AtOne, VersionIs, BucketTypes DEF TypeOK
  <2>3. NextTarget(rv, Sent(rv)) BY <1>5, <2>2 DEF Upload
  <2>4. PICK new : new = Row(cur.path, Target, Version, rv, cur.op = "mark", cur.rec) OBVIOUS
  <2>5. Holds(new)' /\ Taken(new)' BY <1>5, <2>2, <2>4, UploadHolds
  <2>6. cur'.rows = cur.rows \cup {new} BY <2>1, <2>3, <2>4, RoundAdds
  <2>7. /\ \A r \in rows : Real(r)' => Holds(r)' /\ Taken(r)'
        /\ \A r \in cur.rows : Real(r)' => Holds(r)' /\ Taken(r)'
    BY <1>5, UploadKeeps
  <2> QED BY <2>1, <2>5, <2>6, <2>7 DEF ContentOK
<1>6. CASE UploadAnswerLost
  <2>1. rows' = rows /\ pc' = "rollback" BY <1>6 DEF UploadAnswerLost, Abandon, dbvars
  <2>2. \A r \in rows : Real(r)' => Holds(r)' /\ Taken(r)' BY <1>6, UploadKeeps
  <2> QED BY <2>1, <2>2 DEF ContentOK
<1>7. CASE UpdateMetadata
  <2>1. /\ AtTarget /\ rows' = rows /\ store' = store /\ disk' = disk /\ edits' = edits
        /\ skipped' = skipped /\ pc' = pc /\ pc = "targets"
    BY <1>7 DEF UpdateMetadata, AtTarget, dbvars, envvars
  <2>2. PICK q \in VersionRows(cur.path, Target, Version - 1) : NextTarget(q.rv, <<>>)
    BY <1>7 DEF UpdateMetadata
  <2>3. q.rv \in RemoteVersions BY DEF VersionRows, RowsOf, TypeOK, RemoteRow
  <2>4. <<>> \in Seq([target : TargetSet, rv : RemoteVersions]) OBVIOUS
  <2>5. PICK new : new = Row(cur.path, Target, Version, q.rv, cur.op = "mark", cur.rec) OBVIOUS
  <2>6. cur'.rows = cur.rows \cup {new} BY <2>1, <2>2, <2>3, <2>4, <2>5, NextTargetType
  <2>7. \A r : (Real(r)' => Real(r)) /\ (Holds(r) => Holds(r)') /\ (Taken(r) => Taken(r)')
    BY <1>2, <2>1
  <2>8. Real(new) => Holds(new)' /\ Taken(new)' BY <1>7, <2>5, UpdateHolds
  <2> QED BY <2>1, <2>6, <2>7, <2>8 DEF ContentOK
<1>8. CASE Mark
  <2>1. /\ AtTarget /\ rows' = rows /\ disk' = disk /\ edits' = edits /\ skipped' = skipped
        /\ store' = [store EXCEPT ![Target] =
                       MarkedDeleted(Kind[Target], store[Target], cur.path, Version)]
    BY <1>8 DEF Mark, dbvars, envvars
  <2>2. Target \in TargetSet /\ cur.op = "mark" BY <1>8, <2>1, AtOne DEF Mark
  <2>3. store[Target] \in Bucket BY <2>2 DEF TypeOK
  <2> DEFINE new == MarkedDeleted(Kind[Target], store[Target], cur.path, Version)
  <2>4. store'[Target] = new /\ \A u \in TargetSet : u # Target => store'[u] = store[u]
    BY <2>1, <2>2 DEF TypeOK
  <2>5. new.gen >= store[Target].gen BY <2>3, StoreCounts
  <2>6. \A o \in store[Target].objects : o.rv[1] = "v" => o \in new.objects BY <2>3, StoreKeeps
  <2> HIDE DEF new
  <2>7. \A r \in rows : Real(r) => Holds(r) /\ Taken(r) BY DEF ContentOK
  <2>8. \A r \in rows : Real(r) /\ r.target = Target =>
          \A o \in store[Target].objects :
            o.path = r.path /\ o.rv = r.rv => o \in store'[Target].objects
    BY <2>4, <2>6, <2>7 DEF Taken
  <2>9. \A r \in rows : Real(r)' => Holds(r)' /\ Taken(r)'
    BY <1>0, <2>1, <2>2, <2>4, <2>5, <2>7, <2>8, RowsKept
  <2>10. \A r \in cur'.rows : r.del
    <3>1. InTx' /\ cur'.op = "mark" BY <1>8, <2>2, RoundKeeps DEF InTx, AtTarget
    <3> QED BY <3>1 DEF PendingOK
  <2> QED BY <2>1, <2>9, <2>10 DEF ContentOK, Real
<1>9. CASE Undo
  <2>1. /\ cur \in Work /\ InTx /\ cur.sent # <<>> /\ rows' = rows /\ pc' = "rollback"
        /\ disk' = disk /\ edits' = edits /\ skipped' = skipped
    BY <1>9 DEF Undo, TypeOK, InTx, dbvars, envvars
  <2>2. cur.sent \in Seq([target : TargetSet, rv : RemoteVersions]) BY <2>1 DEF Work
  <2>3. PICK e \in [target : TargetSet, rv : RemoteVersions] :
              e = Head(cur.sent) /\ e = cur.sent[1] /\ 1 \in DOMAIN cur.sent
    BY <2>1, <2>2, HeadFacts
  <2>4. store' = [store EXCEPT ![e.target] =
                    Deleted(Kind[e.target], store[e.target], cur.path, e.rv)]
    BY <1>9, <2>3 DEF Undo
  <2> DEFINE new == Deleted(Kind[e.target], store[e.target], cur.path, e.rv)
  <2>5. e.target \in TargetSet /\ store[e.target] \in Bucket BY DEF TypeOK
  <2>6. store'[e.target] = new /\ \A u \in TargetSet : u # e.target => store'[u] = store[u]
    BY <2>4, <2>5 DEF TypeOK
  <2>7. new.gen = store[e.target].gen /\ store[e.target].gen \in Nat
    BY <2>5 DEF Deleted, Bucket
  <2>8. \A o \in store[e.target].objects : o.path # cur.path \/ o.rv # e.rv => o \in new.objects
    BY <2>5, StoreKeeps
  <2> HIDE DEF new
  <2>9. \A r \in rows : Real(r) => Holds(r) /\ Taken(r) BY DEF ContentOK
  <2>10. \A r \in rows : Real(r) /\ r.path = cur.path /\ r.target = e.target => r.rv # e.rv
    BY <2>1, <2>3 DEF SentOK
  <2>11. \A r \in rows : Real(r) /\ r.target = e.target =>
           \A o \in store[e.target].objects :
             o.path = r.path /\ o.rv = r.rv => o \in store'[e.target].objects
    BY <2>6, <2>8, <2>10
  <2>12. store'[e.target].gen >= store[e.target].gen BY <2>6, <2>7
  <2>13. \A r \in rows : Real(r)' => Holds(r)' /\ Taken(r)'
    BY <1>0, <2>1, <2>5, <2>6, <2>9, <2>11, <2>12, RowsKept
  <2> QED BY <2>1, <2>13 DEF ContentOK
<1> QED BY <1>1, <1>3, <1>4, <1>5, <1>6, <1>7, <1>8, <1>9, StoreSteps DEF Touches

-----------------------------------------------------------------------------
(* The invariant. *)

Inv ==
  /\ TypeOK /\ IsFiniteSet(rows) /\ VersionsDense /\ PendingOK /\ WorkOK
  /\ FilesTracked /\ EditsOK /\ ContentOK /\ SentOK

LEMMA InvInit == ASSUME Init PROVE Inv
<1>0. MaxEdits \in Nat /\ MaxJobs \in Nat /\ MaxResults \in Nat BY BackupAssumption
<1>1. store \in [TargetSet -> Bucket]
  <2>1. EmptyStore \in Bucket BY DEF EmptyStore, Bucket
  <2> QED BY <2>1 DEF Init
<1>2. TypeOK BY <1>0, <1>1 DEF Init, TypeOK
<1>3. IsFiniteSet(rows) BY FS_EmptySet DEF Init
<1>4. VersionsDense
  <2>1. \A p, t : RowsOf(p, t) = {} BY DEF Init, RowsOf
  <2>2. Cardinality({}) = 0 BY FS_EmptySet
  <2> QED BY <2>1, <2>2 DEF VersionsDense
<1>5. PendingOK /\ WorkOK /\ SentOK /\ EditsOK BY DEF Init, PendingOK, WorkOK, SentOK, EditsOK,
  InTx, Marking
<1>6. FilesTracked BY DEF Init, FilesTracked, RowsOf
<1>7. ContentOK BY DEF Init, ContentOK
<1> QED BY <1>2, <1>3, <1>4, <1>5, <1>6, <1>7 DEF Inv

LEMMA InvStep == ASSUME Inv, [Next]_vars PROVE Inv'
<1>0. /\ TypeOK /\ IsFiniteSet(rows) /\ VersionsDense /\ PendingOK /\ WorkOK
      /\ FilesTracked /\ EditsOK /\ ContentOK /\ SentOK
  BY DEF Inv
<1>1. TypeOK' BY <1>0, TypeStep
<1>2. VersionsDense' /\ IsFiniteSet(rows)' BY <1>0, DenseStep
<1>3. PendingOK' BY <1>0, PendingStep
<1>4. WorkOK' BY <1>0, WorkStep
<1>5. FilesTracked' BY <1>0, TrackedStep
<1>6. EditsOK' BY <1>0, <1>1, EditsStep
<1>7. ContentOK' BY <1>0, <1>1, <1>3, ContentStep
<1>8. SentOK' BY <1>0, <1>1, SentStep
<1> QED BY <1>1, <1>2, <1>3, <1>4, <1>5, <1>6, <1>7, <1>8 DEF Inv

LEMMA InvHolds == Spec => []Inv
<1>1. Init => Inv BY InvInit
<1>2. Inv /\ [Next]_vars => Inv' BY InvStep
<1> QED BY <1>1, <1>2, PTL DEF Spec

-----------------------------------------------------------------------------
(* The theorems. *)

\* The types of the tables, and that an item is in work exactly while its transaction is
\* open, whatever UploadAndUpdateDB() and markDeleted() meet.
THEOREM TypesHold == Spec => []TypeOK
<1>1. Inv => TypeOK BY DEF Inv
<1> QED BY <1>1, InvHolds, PTL

\* The versions that calcRemoteFileVersion() gives to an item on a target have no gap and
\* none is given twice, through rollbacks, failed commits and crashes.
THEOREM VersionsAreDense == Spec => []VersionsDense
<1>1. Inv => VersionsDense BY DEF Inv
<1> QED BY <1>1, InvHolds, PTL

\* The tables files and remote_files agree on every target, whatever becomes of the
\* transactions of UploadAndUpdateDB() and markDeleted().
THEOREM TablesAgree == Spec => []FilesTracked
<1>1. Inv => FilesTracked BY DEF Inv
<1> QED BY <1>1, InvHolds, PTL

\* Every version in remote_files that is no delete marker has its object, with the content
\* examined or a later one: no cleanup of UploadAndUpdateDB() or markDeleted(), no lost
\* answer, no crash and no version number used again takes it away.
THEOREM VersionsCanBeRestored == Spec => []RowsRestorable
<1>1. ASSUME Inv, NEW r \in rows, ~r.del, r.path \notin skipped
      PROVE  \E c \in Stored(r) : c # Marker /\ c >= r.rec.c
  <2>1. TypeOK /\ Holds(r) BY <1>1 DEF Inv, ContentOK, Real
  <2>2. PICK o \in store[r.target].objects : o.path = r.path /\ o.rv = r.rv /\ r.rec.c <= o.c
    BY <2>1 DEF Holds
  <2>3. r \in RemoteRow BY <2>1 DEF TypeOK
  <2>4. r.target \in TargetSet /\ r.rec.c \in Nat /\ r.rec.c > 0 BY <2>3, RowFacts
  <2>5. o.c \in Nat BY <2>1, <2>4, BackupAssumption DEF TypeOK, Bucket
  <2>6. o.c \in Stored(r) BY <2>2 DEF Stored, Named
  <2>7. o.c # Marker /\ o.c >= r.rec.c BY <2>2, <2>4, <2>5 DEF Marker
  <2> QED BY <2>6, <2>7
<1>2. Inv => RowsRestorable BY <1>1 DEF RowsRestorable
<1> QED BY <1>2, InvHolds, PTL

-----------------------------------------------------------------------------
(* Jobs without faults and edits, on targets where a mark is not refused. *)

\* A step within the loop over the targets, or within the rollback.
Works ==
  /\ InTx /\ InTx' /\ cur'.path = cur.path /\ cur'.op = cur.op /\ cur'.rec = cur.rec
  /\ cur'.cancelled => cur.cancelled
  /\ files' = files /\ coll' = coll /\ failed' = failed /\ todo' = todo /\ found' = found
  /\ batch' = batch /\ ctx' = ctx /\ skipped \subseteq skipped' /\ rows' = rows
  /\ pc' = "rollback" => pc = "rollback" \/ cur.path \in skipped

\* The steps of the job that are not faults.
ScanSteps(p) == ScanAbsent(p) \/ ExamineChanged(p) \/ ExamineUnchanged(p)

MarkSteps(p) == MarkSkips(p) \/ MarkBegins(p)

CalmWork ==
  \/ \E p \in Paths : ScanSteps(p) \/ MarkSteps(p)
  \/ ScanDone \/ Works \/ Commit \/ RolledBack \/ Query \/ MarkDone \/ UNCHANGED vars

\* A metadata update finds the row before, unless the item was passed over once.
LEMMA UpdateFailsOf ==
  ASSUME Inv, UpdateFails PROVE cur.path \in skipped
<1>0. TypeOK /\ IsFiniteSet(rows) /\ VersionsDense /\ WorkOK /\ FilesTracked BY DEF Inv
<1>1. AtTarget /\ cur.op = "metadata-update" /\ VersionRows(cur.path, Target, Version - 1) = {}
  BY DEF UpdateFails
<1>2. InTx /\ Target \in TargetSet /\ cur.path \in Paths BY <1>0, <1>1, AtOne
<1>3. files[cur.path] # None BY <1>0, <1>1, <1>2 DEF WorkOK
<1>4. SUFFICES ASSUME cur.path \notin skipped PROVE FALSE OBVIOUS
<1>5. PICK n \in RowsOf(cur.path, Target) :
            \A s \in RowsOf(cur.path, Target) : s.version <= n.version
  BY <1>0, <1>2, <1>3, <1>4 DEF FilesTracked
<1>6. Count(cur.path, Target) \in Nat /\ Version = Count(cur.path, Target) + 1
  BY <1>0, <1>1, VersionIs, RowsCounted
<1>7. {r.version : r \in RowsOf(cur.path, Target)} = 1..Count(cur.path, Target)
  BY <1>0, <1>2 DEF VersionsDense, Count
<1>8. n.version \in 1..Count(cur.path, Target) BY <1>7
<1>9. Count(cur.path, Target) \in 1..Count(cur.path, Target) BY <1>6, <1>8
<1>10. PICK s \in RowsOf(cur.path, Target) : s.version = Count(cur.path, Target) BY <1>7, <1>9
<1>11. s \in VersionRows(cur.path, Target, Version - 1) BY <1>6, <1>10 DEF VersionRows
<1> QED BY <1>1, <1>11

\* The steps of the loop that are not faults.
LEMMA LoopWorks ==
  ASSUME Inv, Skip \/ Upload \/ UpdateMetadata \/ UpdateFails \/ Mark \/ Undo
  PROVE  Works
<1>0. TypeOK /\ IsFiniteSet(rows) /\ VersionsDense BY DEF Inv
<1>1. InTx /\ cur \in Work
  BY <1>0, AtOne DEF Skip, Upload, UpdateMetadata, UpdateFails, Mark, Undo, TypeOK, InTx
<1>2. CASE Skip
  <2>1. /\ cur'.path = cur.path /\ cur'.op = cur.op /\ cur'.rec = cur.rec
        /\ cur'.cancelled = cur.cancelled
    BY <1>1, <1>2 DEF Skip, Work
  <2> QED BY <1>1, <1>2, <2>1 DEF Skip, Works, InTx, AtTarget, dbvars
<1>3. CASE Upload \/ UpdateMetadata \/ Mark
  <2>1. \E rv, sent : NextTarget(rv, sent) BY <1>3 DEF Upload, UpdateMetadata, Mark
  <2>2. /\ cur'.path = cur.path /\ cur'.op = cur.op /\ cur'.rec = cur.rec
        /\ cur'.cancelled = cur.cancelled
    BY <1>1, <2>1 DEF NextTarget, Work
  <2> QED BY <1>1, <1>3, <2>2 DEF Upload, UpdateMetadata, Mark, Works, InTx, AtTarget, dbvars
<1>4. CASE UpdateFails
  <2>1. cur.path \in skipped BY <1>4, UpdateFailsOf
  <2>2. /\ cur'.path = cur.path /\ cur'.op = cur.op /\ cur'.rec = cur.rec
        /\ cur'.cancelled = FALSE /\ pc' = "rollback"
    BY <1>1, <1>4 DEF UpdateFails, Abandon, Work
  <2> QED BY <1>1, <1>4, <2>1, <2>2 DEF UpdateFails, Works, InTx, dbvars
<1>5. CASE Undo
  <2>1. /\ cur'.path = cur.path /\ cur'.op = cur.op /\ cur'.rec = cur.rec
        /\ cur'.cancelled = cur.cancelled
    BY <1>1, <1>5 DEF Undo, DropSent, Work
  <2> QED BY <1>1, <1>5, <2>1 DEF Undo, Works, InTx, dbvars
<1> QED BY <1>2, <1>3, <1>4, <1>5

\* A step that leaves the job without a fault is its start or one of these.
LEMMA CalmSteps ==
  ASSUME Inv, ScanOK, \A t \in TargetSet : Kind[t] # "gcp", [Next]_vars, Calm'
  PROVE  StartJob \/ (Calm /\ disk' = disk /\ wanted' = wanted /\ job' = job /\ CalmWork)
<1>0. TypeOK BY DEF Inv
<1>1. CASE StartJob BY <1>1
<1>2. ASSUME NEW f, Fault(f) PROVE FALSE BY <1>2 DEF Fault, Calm
<1>3. ASSUME NEW p \in Paths, Write(p) \/ Chmod(p) \/ Remove(p) PROVE FALSE
  BY <1>3 DEF Write, Chmod, Remove, Change, Calm
<1>4. ASSUME NEW W, Reconfigure(W) PROVE FALSE BY <1>2, <1>4 DEF Reconfigure
<1>5. CASE Cancel \/ Crash BY <1>2, <1>5 DEF Cancel, Crash
<1>6. ASSUME NEW p \in Paths, ScanUnseen(p) \/ ExamineUnchangedPartly(p) \/ ExamineFails(p)
                              \/ MarkBeginFails(p)
      PROVE  FALSE
  BY <1>2, <1>6 DEF ScanUnseen, ExamineUnchangedPartly, ExamineFails, MarkBeginFails
<1>7. CASE ScanAborts \/ StatementFails \/ CommitFails \/ QueryFails
  BY <1>2, <1>7 DEF ScanAborts, StatementFails, CommitFails, QueryFails
<1>8. CASE EndJob BY <1>8 DEF EndJob, Calm
<1>9. ASSUME NoFault, pc # "idle", disk' = disk, wanted' = wanted, job' = job, CalmWork
      PROVE  Calm /\ disk' = disk /\ wanted' = wanted /\ job' = job /\ CalmWork
  BY <1>9 DEF NoFault, Calm
<1>10. ASSUME NoFault, pc # "idle" PROVE ~ctx /\ calm
  BY <1>10 DEF NoFault, Calm, ScanOK
<1>11. CASE CancelSeen BY <1>10, <1>11 DEF CancelSeen
<1>12. CASE UploadCancelled \/ UploadAnswerLost
  BY <1>2, <1>10, <1>12 DEF UploadCancelled, UploadAnswerLost, AtTarget
<1>13. CASE UndoFails BY <1>2, <1>10, <1>13 DEF UndoFails
<1>14. CASE UploadFails
  <2>1. disk[cur.path] = None /\ NoFault BY <1>2, <1>14 DEF UploadFails
  <2>2. AtTarget /\ pc # "idle" /\ ~Marking BY <1>14 DEF UploadFails, Uploads, Marking, AtTarget
  <2>3. InTx BY <1>0, <2>2, AtOne
  <2>4. Present(cur.path) BY <1>10, <2>1, <2>2, <2>3 DEF ScanOK, Calm
  <2> QED BY <2>1, <2>4 DEF Present
<1>15. CASE MarkFails
  <2>1. AtTarget /\ pc # "idle" BY <1>15 DEF MarkFails, AtTarget
  <2>2. ~MarkRefused(Kind[Target], store[Target], cur.path) BY <1>0, <2>1, AtOne DEF MarkRefused
  <2>3. ctx /\ NoFault BY <1>2, <1>15, <2>2 DEF MarkFails
  <2> QED BY <1>10, <2>1, <2>3
<1>16. CASE Skip \/ Upload \/ UpdateMetadata \/ UpdateFails \/ Mark \/ Undo
  <2>1. CalmWork BY <1>16, LoopWorks DEF CalmWork
  <2>2. NoFault /\ pc # "idle" /\ disk' = disk /\ wanted' = wanted /\ job' = job
    BY <1>16 DEF Skip, Upload, UpdateMetadata, UpdateFails, Mark, Undo, AtTarget, envvars
  <2> QED BY <1>9, <2>1, <2>2
<1>17. CASE Commit \/ RolledBack \/ Query \/ MarkDone \/ ScanDone
  <2>1. CalmWork BY <1>17 DEF CalmWork
  <2>2. NoFault /\ pc # "idle" /\ disk' = disk /\ wanted' = wanted /\ job' = job
    BY <1>17 DEF Commit, RolledBack, Query, MarkDone, ScanDone, envvars
  <2> QED BY <1>9, <2>1, <2>2
<1>18. ASSUME NEW p \in Paths, ScanSteps(p) \/ MarkSteps(p)
       PROVE  Calm /\ disk' = disk /\ wanted' = wanted /\ job' = job /\ CalmWork
  <2>1. CalmWork BY <1>18 DEF CalmWork
  <2>2. NoFault /\ pc # "idle" /\ disk' = disk /\ wanted' = wanted /\ job' = job
    BY <1>18 DEF ScanSteps, MarkSteps, ScanAbsent, ExamineChanged, ExamineUnchanged, MarkSkips,
       MarkBegins, envvars
  <2> QED BY <1>9, <2>1, <2>2
<1>19. CASE UNCHANGED vars BY <1>19 DEF vars, Calm, CalmWork
<1> QED
  BY <1>1, <1>3, <1>4, <1>5, <1>6, <1>7, <1>8, <1>11, <1>12, <1>13, <1>14, <1>15, <1>16, <1>17,
     <1>18, <1>19
     DEF Next, Environment, Scan, Transaction, FindAndMarkDeleted, Job, ScanSteps, MarkSteps

\* Where the scan is, after a step without a fault.
LEMMA ScanStep ==
  ASSUME Inv, ScanOK, \A t \in TargetSet : Kind[t] # "gcp", [Next]_vars
  PROVE  ScanOK'
<1> SUFFICES ASSUME Calm' PROVE ScanOK' BY DEF ScanOK
<1>0. TypeOK BY DEF Inv
<1>1. CASE StartJob BY <1>1 DEF StartJob, ScanOK, InTx, Marking, envvars
<1> SUFFICES ASSUME Calm, disk' = disk, wanted' = wanted, job' = job, CalmWork PROVE ScanOK'
  BY <1>1, CalmSteps
<1>2. /\ ~ctx /\ todo \subseteq wanted /\ failed \subseteq skipped
      /\ pc = "scan" \/ (InTx /\ ~Marking) \/ todo = {}
      /\ pc = "rollback" => cur.path \in skipped
      /\ InTx => ~cur.cancelled
      /\ Marking => ~Present(cur.path)
      /\ InTx /\ ~Marking => Present(cur.path) /\ cur.rec = disk[cur.path] /\ cur.path \notin todo
  BY DEF ScanOK
<1>3. \A p : Present(p)' = Present(p) BY DEF Present
<1>4. ASSUME ~InTx', ctx' = ctx, todo' \subseteq todo, failed' \subseteq skipped,
             skipped' = skipped, pc' = "scan" \/ todo' = {}
      PROVE  ScanOK'
  BY <1>2, <1>4 DEF ScanOK, InTx, Marking
<1>5. ASSUME NEW p \in Paths, ScanAbsent(p) \/ ExamineUnchanged(p) PROVE ScanOK'
  BY <1>2, <1>4, <1>5 DEF ScanAbsent, ExamineUnchanged, InTx, dbvars
<1>6. ASSUME NEW p \in Paths, ExamineChanged(p) PROVE ScanOK'
  <2>1. /\ cur'.path = p /\ cur'.op = Operation(p) /\ cur'.rec = disk[p] /\ ~cur'.cancelled
        /\ pc' = "targets" /\ todo' = todo \ {p} /\ p \in todo /\ disk[p] # None
        /\ ctx' = ctx /\ failed' = failed /\ skipped' = skipped
    BY <1>6 DEF ExamineChanged, dbvars
  <2>2. ~Marking' BY <1>0, <1>6, <2>1, OperationType DEF ExamineChanged, Marking
  <2>3. Present(p) BY <1>2, <2>1 DEF Present
  <2> QED BY <1>2, <1>3, <2>1, <2>2, <2>3 DEF ScanOK, InTx
<1>7. CASE ScanDone \/ Query \/ MarkDone
  <2>1. ~InTx' /\ ctx' = ctx /\ todo' = todo /\ failed' = failed /\ skipped' = skipped
    BY <1>7 DEF ScanDone, Query, MarkDone, InTx, dbvars
  <2>2. todo = {} BY <1>2, <1>7 DEF ScanDone, Query, MarkDone, InTx
  <2> QED BY <1>2, <1>4, <2>1, <2>2
<1>8. CASE Works
  <2>1. Marking' <=> Marking BY <1>8 DEF Works, Marking
  <2>2. pc' # "scan" /\ pc # "scan" BY <1>8 DEF Works, InTx
  <2>3. /\ InTx /\ InTx' /\ ctx' = ctx /\ todo' = todo /\ failed' = failed /\ cur'.path = cur.path
        /\ cur'.rec = cur.rec /\ (cur'.cancelled => cur.cancelled) /\ skipped \subseteq skipped'
        /\ pc' = "rollback" => pc = "rollback" \/ cur.path \in skipped
    BY <1>8 DEF Works
  <2> QED BY <1>2, <1>3, <2>1, <2>2, <2>3 DEF ScanOK
<1>9. CASE Commit
  <2>1. /\ ~InTx' /\ ctx' = ctx /\ todo' = todo /\ failed' = failed /\ skipped' = skipped
        /\ InTx /\ pc # "scan" /\ (pc' = "scan" \/ Marking)
    BY <1>9 DEF Commit, Leave, AfterItem, InTx, Marking
  <2> QED BY <1>2, <1>4, <2>1
<1>10. CASE RolledBack
  <2>1. /\ ~InTx' /\ ctx' = ctx /\ skipped' = skipped /\ InTx /\ pc = "rollback"
        /\ failed' \subseteq failed \cup {cur.path}
    BY <1>10 DEF RolledBack, Leave, AfterItem, MarkItemAsFailed, InTx
  <2>2. todo' = todo /\ (pc' = "scan" \/ Marking)
    BY <1>2, <1>10, <2>1 DEF RolledBack, Leave, AfterItem, Marking
  <2> QED BY <1>2, <1>4, <2>1, <2>2
<1>11. ASSUME NEW p \in Paths, MarkSkips(p) PROVE ScanOK'
  <2>1. ~InTx' /\ ctx' = ctx /\ todo' = todo /\ failed' = failed /\ skipped' = skipped
    BY <1>11 DEF MarkSkips, InTx, dbvars
  <2>2. todo = {} BY <1>2, <1>11 DEF MarkSkips, InTx
  <2> QED BY <1>2, <1>4, <2>1, <2>2
<1>12. ASSUME NEW p \in Paths, MarkBegins(p) PROVE ScanOK'
  <2>1. /\ cur'.path = p /\ cur'.op = "mark" /\ ~cur'.cancelled /\ pc' = "targets" /\ todo' = todo
        /\ ctx' = ctx /\ failed' = failed /\ skipped' = skipped /\ pc = "mark"
    BY <1>12 DEF MarkBegins, dbvars
  <2>2. ~Present(p) BY <1>12 DEF MarkBegins, Present
  <2>3. todo = {} BY <1>2, <2>1 DEF InTx
  <2> QED BY <1>2, <1>3, <2>1, <2>2, <2>3 DEF ScanOK, InTx, Marking
<1>13. CASE UNCHANGED vars BY <1>2, <1>3, <1>13 DEF vars, ScanOK, InTx, Marking
<1> QED BY <1>5, <1>6, <1>7, <1>8, <1>9, <1>10, <1>11, <1>12, <1>13
        DEF CalmWork, ScanSteps, MarkSteps

\* What is unchanged is in the collection of the job for every target.
LEMMA UnchangedKept ==
  ASSUME Inv, NEW p \in Paths, ExamineUnchanged(p), p \notin skipped
  PROVE  Kept(p)'
<1>0. TypeOK /\ FilesTracked BY DEF Inv
<1>1. /\ disk[p] # None /\ Operation(p) = "up-to-date" /\ files' = files /\ disk' = disk
      /\ job' = job
      /\ coll' = coll \cup Collected(UNION {NewestRows(p, t) : t \in TargetSet})
  BY DEF ExamineUnchanged, envvars
<1>2. files[p] # None /\ files[p].c = disk[p].c /\ files[p].m = disk[p].m BY <1>1 DEF Operation
<1>3. files[p] \in Item /\ disk[p] \in Item BY <1>0, <1>1, <1>2 DEF TypeOK
<1>4. files[p] = disk[p] BY <1>2, <1>3 DEF Item
<1>5. ASSUME NEW t \in TargetSet
      PROVE  \E e \in coll' : /\ e.job = job /\ e.target = t /\ e.row.path = p /\ ~e.row.del
                              /\ e.row.rec = disk[p]
  <2>1. PICK n \in RowsOf(p, t) : /\ \A s \in RowsOf(p, t) : s.version <= n.version
                                  /\ ~n.del /\ n.rec = files[p]
    BY <1>0, <1>2 DEF FilesTracked
  <2>2. n \in NewestRows(p, t) BY <2>1 DEF NewestRows
  <2>3. n.path = p /\ n.target = t BY DEF RowsOf
  <2> DEFINE e == [row |-> n, job |-> job, target |-> n.target]
  <2>4. e \in coll' BY <1>1, <2>2 DEF Collected
  <2>5. e.job = job /\ e.target = t /\ e.row = n BY <2>3
  <2> HIDE DEF e
  <2> QED BY <1>4, <2>1, <2>3, <2>4, <2>5
<1> QED BY <1>1, <1>4, <1>5 DEF Kept

\* What is uploaded or updated, too.
LEMMA CommitKept ==
  ASSUME Inv, Commit, ~Marking, NEW p \in Paths, p = cur.path, p \notin skipped,
         cur.rec = disk[p]
  PROVE  Kept(p)'
<1>0. TypeOK /\ PendingOK BY DEF Inv
<1>1. /\ InTx /\ cur \in Work /\ cur.op # "mark" /\ cur.k > Len(Targets) /\ disk' = disk
      /\ job' = job /\ coll' = coll \cup Collected(cur.rows)
  BY <1>0 DEF Commit, InTx, Marking, TypeOK, envvars
<1>2. files'[p] = disk[p] BY <1>0, <1>1 DEF Commit, TypeOK
<1>3. ASSUME NEW t \in TargetSet
      PROVE  \E e \in coll' : /\ e.job = job /\ e.target = t /\ e.row.path = p /\ ~e.row.del
                              /\ e.row.rec = disk[p]
  <2>1. PICK i \in 1..Len(Targets) : t = Targets[i] BY DEF TargetSet
  <2>2. i < cur.k
    <3>1. cur.k \in 1..(Len(Targets) + 1) BY <1>1 DEF Work
    <3> QED BY <1>1, <3>1, BackupAssumption
  <2>3. PICK r \in cur.rows : r.target = t BY <1>0, <1>1, <2>1, <2>2 DEF PendingOK
  <2>4. r.path = p /\ ~r.del /\ r.rec = disk[p] BY <1>0, <1>1 DEF PendingOK
  <2> DEFINE e == [row |-> r, job |-> job, target |-> r.target]
  <2>5. e \in coll' BY <1>1 DEF Collected
  <2>6. e.job = job /\ e.target = t /\ e.row = r BY <2>3
  <2> HIDE DEF e
  <2> QED BY <2>4, <2>5, <2>6
<1> QED BY <1>1, <1>2, <1>3 DEF Kept

\* What the scan has passed is kept, after a step without a fault.
LEMMA KeptStep ==
  ASSUME Inv, ScanOK, KeptOK, \A t \in TargetSet : Kind[t] # "gcp", [Next]_vars
  PROVE  KeptOK'
<1> SUFFICES ASSUME Calm' PROVE KeptOK' BY DEF KeptOK
<1>0. TypeOK BY DEF Inv
<1>1. CASE StartJob BY <1>1 DEF StartJob, KeptOK, Present, envvars
<1> SUFFICES ASSUME Calm, disk' = disk, wanted' = wanted, job' = job, CalmWork PROVE KeptOK'
  BY <1>1, CalmSteps
<1>2. \A p : Present(p)' = Present(p) BY DEF Present
<1>3. \A p \in Paths \ skipped : Present(p) /\ p \notin todo /\ ~(InTx /\ cur.path = p) => Kept(p)
  BY DEF KeptOK
<1>4. ASSUME coll \subseteq coll', NEW p, files'[p] = files[p], Kept(p) PROVE Kept(p)'
  BY <1>4 DEF Kept
<1>5. ASSUME coll \subseteq coll', skipped \subseteq skipped',
             \A p \in Paths \ skipped' :
               Present(p) /\ p \notin todo' /\ ~(InTx' /\ cur'.path = p) =>
                 \/ Kept(p)'
                 \/ files'[p] = files[p] /\ p \notin todo /\ ~(InTx /\ cur.path = p)
      PROVE  KeptOK'
  <2>1. SUFFICES ASSUME NEW p \in Paths \ skipped', Present(p), p \notin todo',
                        ~(InTx' /\ cur'.path = p)
                 PROVE  Kept(p)'
    BY <1>2 DEF KeptOK
  <2>2. CASE files'[p] = files[p] /\ p \notin todo /\ ~(InTx /\ cur.path = p)
    <3>1. Kept(p) BY <1>3, <1>5, <2>1, <2>2
    <3> QED BY <1>4, <1>5, <2>2, <3>1
  <2> QED BY <1>5, <2>1, <2>2
<1>6. ASSUME NEW p \in Paths, ScanAbsent(p) PROVE KeptOK'
  <2>1. /\ coll' = coll /\ skipped' = skipped /\ files' = files /\ ~InTx
        /\ todo' = todo \ {p} /\ ~Present(p)
    BY <1>6 DEF ScanAbsent, InTx, Present, dbvars
  <2> QED BY <1>5, <2>1
<1>7. ASSUME NEW p \in Paths, ExamineChanged(p) PROVE KeptOK'
  <2>1. /\ coll' = coll /\ skipped' = skipped /\ files' = files /\ ~InTx /\ InTx'
        /\ todo' = todo \ {p} /\ cur'.path = p
    BY <1>7 DEF ExamineChanged, InTx, dbvars
  <2> QED BY <1>5, <2>1
<1>8. ASSUME NEW p \in Paths, ExamineUnchanged(p) PROVE KeptOK'
  <2>1. /\ coll \subseteq coll' /\ skipped' = skipped /\ files' = files /\ ~InTx
        /\ todo' = todo \ {p}
    BY <1>8 DEF ExamineUnchanged, InTx
  <2>2. p \notin skipped => Kept(p)' BY <1>8, UnchangedKept
  <2> QED BY <1>5, <2>1, <2>2
<1>9. CASE ScanDone \/ Query \/ MarkDone
  <2>1. /\ coll' = coll /\ skipped' = skipped /\ files' = files /\ ~InTx /\ todo' = todo
    BY <1>9 DEF ScanDone, Query, MarkDone, InTx, dbvars
  <2> QED BY <1>5, <2>1
<1>10. CASE Works BY <1>5, <1>10 DEF Works
<1>11. CASE Commit
  <2>1. /\ coll \subseteq coll' /\ skipped' = skipped /\ todo' = todo /\ InTx /\ cur \in Work
        /\ files' = [files EXCEPT ![cur.path] = IF cur.op = "mark" THEN None ELSE cur.rec]
    BY <1>0, <1>11 DEF Commit, InTx, TypeOK
  <2>2. \A p \in Paths : p # cur.path => files'[p] = files[p] BY <1>0, <2>1 DEF TypeOK
  <2>3. ASSUME NEW p \in Paths, p = cur.path, p \notin skipped, Present(p) PROVE Kept(p)'
    <3>1. ~Marking /\ cur.rec = disk[p] BY <2>1, <2>3 DEF ScanOK
    <3> QED BY <1>11, <2>3, <3>1, CommitKept
  <2>4. ASSUME NEW p \in Paths \ skipped', Present(p), p \notin todo'
        PROVE  Kept(p)' \/ (files'[p] = files[p] /\ p \notin todo /\ ~(InTx /\ cur.path = p))
    BY <2>1, <2>2, <2>3, <2>4
  <2> QED BY <1>5, <2>1, <2>4
<1>12. CASE RolledBack
  <2>1. /\ coll' = coll /\ skipped' = skipped /\ files' = files /\ InTx /\ pc = "rollback"
    BY <1>12 DEF RolledBack, InTx
  <2>2. cur.path \in skipped /\ ~cur.cancelled BY <2>1 DEF ScanOK
  <2>3. todo' = todo BY <1>12, <2>2 DEF RolledBack
  <2> QED BY <1>5, <2>1, <2>2, <2>3
<1>13. ASSUME NEW p \in Paths, MarkSteps(p) PROVE KeptOK'
  <2>1. /\ coll' = coll /\ skipped' = skipped /\ files' = files /\ ~InTx /\ todo' = todo
    BY <1>13 DEF MarkSteps, MarkSkips, MarkBegins, InTx, dbvars
  <2> QED BY <1>5, <2>1
<1>14. CASE UNCHANGED vars BY <1>5, <1>14 DEF vars, InTx
<1> QED BY <1>6, <1>7, <1>8, <1>9, <1>10, <1>11, <1>12, <1>13, <1>14 DEF CalmWork, ScanSteps

\* What is to be marked is found in the end, after a step without a fault.
LEMMA StaleStep ==
  ASSUME Inv, ScanOK, StaleOK, \A t \in TargetSet : Kind[t] # "gcp", [Next]_vars
  PROVE  StaleOK'
<1> SUFFICES ASSUME Calm' PROVE StaleOK' BY DEF StaleOK
<1>0. TypeOK BY DEF Inv
<1>1. CASE StartJob
  <2>1. /\ pc' = "scan" /\ coll' = coll /\ job' = job + 1 BY <1>1 DEF StartJob
  <2>2. \A e \in coll' : e.job # job' BY <1>0, <2>1, BackupAssumption DEF TypeOK
  <2> QED BY <2>1, <2>2 DEF StaleOK, Marking, InTx
<1> SUFFICES ASSUME Calm, disk' = disk, wanted' = wanted, job' = job, CalmWork PROVE StaleOK'
  BY <1>1, CalmSteps
<1>2. \A p : Present(p)' = Present(p) BY DEF Present
<1>3. ASSUME NEW p \in Paths, Stale(p)
      PROVE  /\ pc # "end"
             /\ \A e \in coll : e.job = job => e.row.path # p
             /\ (pc = "mark" \/ Marking) /\ batch < MaxResults =>
                  p \in found \/ (Marking /\ cur.path = p)
  BY <1>3 DEF StaleOK
<1>4. ASSUME coll' = coll, files' = files, skipped \subseteq skipped'
      PROVE  /\ \A p : Stale(p)' => Stale(p)
             /\ \A p \in Paths : Stale(p)' => \A e \in coll' : e.job = job' => e.row.path # p
  <2>1. \A p : Stale(p)' => Stale(p) BY <1>2, <1>4 DEF Stale
  <2> QED BY <1>3, <1>4, <2>1
<1>5. ASSUME coll' = coll, files' = files, skipped \subseteq skipped', pc' # "end",
             pc' # "mark", ~Marking'
      PROVE  StaleOK'
  BY <1>4, <1>5 DEF StaleOK
<1>6. ASSUME NEW p \in Paths, ScanAbsent(p) \/ ExamineChanged(p) PROVE StaleOK'
  <2>1. coll' = coll /\ files' = files /\ skipped' = skipped /\ pc' # "end" /\ pc' # "mark"
    BY <1>6 DEF ScanAbsent, ExamineChanged, dbvars
  <2>2. ~Marking'
    BY <1>0, <1>6, OperationType DEF ScanAbsent, ExamineChanged, Marking, InTx
  <2> QED BY <1>5, <2>1, <2>2
<1>7. ASSUME NEW p \in Paths, ExamineUnchanged(p) PROVE StaleOK'
  <2>1. /\ files' = files /\ skipped' = skipped /\ pc' = "scan" /\ ~Marking' /\ Present(p)
        /\ coll' = coll \cup Collected(UNION {NewestRows(p, t) : t \in TargetSet})
    BY <1>7 DEF ExamineUnchanged, Marking, InTx, Present, ScanOK
  <2>2. \A e \in Collected(UNION {NewestRows(p, t) : t \in TargetSet}) : e.row.path = p
    BY DEF Collected, NewestRows, RowsOf
  <2>3. \A q : Stale(q)' => Stale(q) /\ q # p BY <1>2, <2>1 DEF Stale
  <2>4. \A q \in Paths : Stale(q)' => \A e \in coll' : e.job = job' => e.row.path # q
    BY <1>3, <2>1, <2>2, <2>3
  <2> QED BY <2>1, <2>4 DEF StaleOK
<1>8. CASE ScanDone
  BY <1>5, <1>8 DEF ScanDone, Marking, InTx, dbvars
<1>9. CASE Works
  <2>1. /\ coll' = coll /\ files' = files /\ skipped \subseteq skipped' /\ pc' # "end"
        /\ pc' # "mark" /\ batch' = batch /\ found' = found /\ cur'.path = cur.path
        /\ (Marking' <=> Marking)
    BY <1>9 DEF Works, InTx, Marking
  <2> QED BY <1>3, <1>4, <2>1 DEF StaleOK
<1>10. CASE Commit
  <2>1. /\ InTx /\ cur \in Work /\ skipped' = skipped /\ found' = found /\ batch' = batch
        /\ coll' = coll \cup Collected(cur.rows) /\ ~Marking' /\ pc' # "end"
        /\ files' = [files EXCEPT ![cur.path] = IF cur.op = "mark" THEN None ELSE cur.rec]
        /\ (pc' = "mark" => Marking)
    BY <1>0, <1>10 DEF Commit, Leave, AfterItem, InTx, TypeOK, Marking
  <2>2. \A e \in Collected(cur.rows) : e.row.path = cur.path
    BY <2>1 DEF Collected, PendingOK, Inv
  <2>3. \A p \in Paths : p # cur.path => files'[p] = files[p] BY <1>0, <2>1 DEF TypeOK
  <2>4. files'[cur.path] = (IF cur.op = "mark" THEN None ELSE cur.rec)
    BY <1>0, <2>1 DEF TypeOK, Work
  <2>5. cur.op # "mark" => Present(cur.path) BY <2>1 DEF ScanOK, Marking
  <2>6. \A p \in Paths : Stale(p)' => Stale(p) /\ p # cur.path
    BY <1>2, <2>1, <2>3, <2>4, <2>5 DEF Stale
  <2>7. \A p \in Paths : Stale(p)' => \A e \in coll' : e.job = job' => e.row.path # p
    BY <1>3, <2>1, <2>2, <2>6
  <2> QED BY <1>3, <2>1, <2>6, <2>7 DEF StaleOK
<1>11. CASE RolledBack
  <2>1. /\ coll' = coll /\ skipped' = skipped /\ files' = files /\ InTx /\ pc = "rollback"
        /\ found' = found /\ batch' = batch
    BY <1>11 DEF RolledBack, InTx
  <2>2. cur.path \in skipped /\ ~cur.cancelled BY <2>1 DEF ScanOK
  <2>3. pc' # "end" /\ ~Marking' /\ (pc' = "mark" => Marking)
    BY <1>11, <2>1, <2>2 DEF RolledBack, Leave, AfterItem, Marking, InTx
  <2>4. \A p : Stale(p)' => Stale(p) /\ p # cur.path BY <1>4, <2>1, <2>2 DEF Stale
  <2> QED BY <1>3, <1>4, <2>1, <2>3, <2>4 DEF StaleOK
<1>12. CASE Query
  <2>1. /\ coll' = coll /\ files' = files /\ skipped' = skipped /\ pc' = "mark" /\ ~Marking'
    BY <1>12 DEF Query, Marking, InTx, dbvars
  <2>2. PICK S \in SUBSET Unmet : /\ Cardinality(S) = Min({Cardinality(Unmet), MaxResults})
                                  /\ found' = S /\ batch' = Cardinality(S)
    BY <1>12 DEF Query
  <2>3. IsFiniteSet(Unmet)
    <3>1. Unmet \subseteq Paths BY DEF Unmet
    <3> QED BY <3>1, BackupAssumption, FS_Subset
  <2>4. Cardinality(Unmet) \in Nat BY <2>3, FS_CardinalityType
  <2>5. ASSUME batch' < MaxResults PROVE S = Unmet
    <3>1. Min({Cardinality(Unmet), MaxResults})
            = IF Cardinality(Unmet) <= MaxResults THEN Cardinality(Unmet) ELSE MaxResults
      BY <2>4, BackupAssumption, MinIs
    <3>2. Cardinality(S) = Cardinality(Unmet) BY <2>2, <2>4, <2>5, <3>1, BackupAssumption
    <3> QED BY <2>3, <3>2, FS_Subset
  <2>6. ASSUME NEW p \in Paths, Stale(p) PROVE p \in Unmet
    <3>1. failed \subseteq skipped BY DEF ScanOK
    <3>2. \A e \in coll : ~(e.job = job /\ e.target = Targets[1] /\ e.row.path = p)
      BY <1>3, <2>6
    <3> QED BY <2>6, <3>1, <3>2 DEF Unmet, Stale
  <2> QED BY <1>4, <2>1, <2>2, <2>5, <2>6 DEF StaleOK
<1>13. CASE MarkDone
  <2>1. /\ coll' = coll /\ files' = files /\ skipped' = skipped /\ pc = "mark" /\ found = {}
        /\ pc' = IF batch >= MaxResults THEN "query" ELSE "end"
    BY <1>13 DEF MarkDone, dbvars
  <2>2. ~Marking /\ ~Marking' BY <2>1 DEF Marking, InTx
  <2>3. CASE batch >= MaxResults BY <1>5, <2>1, <2>2, <2>3
  <2>4. CASE ~(batch >= MaxResults)
    <3>1. batch < MaxResults BY <1>0, <2>4, BackupAssumption DEF TypeOK
    <3>2. \A p \in Paths : ~Stale(p) BY <1>3, <2>1, <2>2, <3>1
    <3> QED BY <1>4, <2>1, <3>2 DEF StaleOK
  <2> QED BY <2>3, <2>4
<1>14. ASSUME NEW p \in Paths, MarkSkips(p) PROVE StaleOK'
  <2>1. /\ coll' = coll /\ files' = files /\ skipped' = skipped /\ pc = "mark" /\ pc' = "mark"
        /\ found' = found \ {p} /\ batch' = batch /\ Present(p)
    BY <1>14 DEF MarkSkips, Present, dbvars
  <2>2. ~Marking BY <2>1 DEF Marking, InTx
  <2>3. \A q : Stale(q) => q # p BY <2>1 DEF Stale
  <2> QED BY <1>3, <1>4, <2>1, <2>2, <2>3 DEF StaleOK
<1>15. ASSUME NEW p \in Paths, MarkBegins(p) PROVE StaleOK'
  <2>1. /\ coll' = coll /\ files' = files /\ skipped' = skipped /\ pc = "mark" /\ pc' = "targets"
        /\ found' = found \ {p} /\ batch' = batch /\ cur'.path = p /\ cur'.op = "mark"
    BY <1>15 DEF MarkBegins, dbvars
  <2>2. ~Marking /\ Marking' BY <2>1 DEF Marking, InTx
  <2> QED BY <1>3, <1>4, <2>1, <2>2 DEF StaleOK
<1>16. CASE UNCHANGED vars
  <2>1. /\ coll' = coll /\ files' = files /\ skipped' = skipped /\ pc' = pc /\ found' = found
        /\ batch' = batch /\ cur' = cur
    BY <1>16 DEF vars
  <2> QED BY <1>3, <1>4, <2>1 DEF StaleOK, Marking, InTx
<1> QED BY <1>6, <1>7, <1>8, <1>9, <1>10, <1>11, <1>12, <1>13, <1>14, <1>15, <1>16
        DEF CalmWork, ScanSteps, MarkSteps

\* Backups recover by themselves, on targets that do not refuse a mark: a job that meets no
\* fault and no edit ends with the disk in the backup, whatever Do(), UploadAndUpdateDB() and
\* FindAndMarkDeleted() left behind in the jobs before.
THEOREM BackupsConverge ==
  ASSUME \A t \in TargetSet : Kind[t] # "gcp"
  PROVE  Spec => []Converges
<1> DEFINE CInv == Inv /\ ScanOK /\ KeptOK /\ StaleOK
<1>1. Init => CInv BY InvInit DEF Init, ScanOK, KeptOK, StaleOK, Calm
<1>2. CInv /\ [Next]_vars => CInv' BY InvStep, ScanStep, KeptStep, StaleStep
<1>3. ASSUME CInv, pc = "end", calm, NEW p \in Paths \ skipped
      PROVE  IF p \in wanted /\ disk[p] # None
             THEN /\ files[p] = disk[p]
                  /\ \A t \in TargetSet : \E e \in coll :
                       /\ e.job = job /\ e.target = t /\ e.row.path = p /\ ~e.row.del
                       /\ e.row.rec = disk[p] /\ disk[p].c \in Stored(e.row)
             ELSE files[p] = None
  <2>0. Calm /\ ~InTx /\ TypeOK /\ ContentOK BY <1>3 DEF Calm, InTx, Inv
  <2>1. CASE Present(p)
    <3>1. todo = {} BY <1>3, <2>0 DEF ScanOK
    <3>2. Kept(p) BY <1>3, <2>0, <2>1, <3>1 DEF KeptOK
    <3>3. ASSUME NEW e \in coll, e.row.path = p, ~e.row.del, e.row.rec = disk[p]
          PROVE  disk[p].c \in Stored(e.row)
      <4>1. e.row \in rows /\ e.row \in RemoteRow BY <2>0 DEF TypeOK
      <4>2. Holds(e.row) BY <1>3, <2>0, <3>3, <4>1 DEF ContentOK, Real
      <4>3. PICK o \in store[e.row.target].objects :
                  /\ o.path = e.row.path /\ o.rv = e.row.rv
                  /\ e.row.rec.c <= o.c
                  /\ disk[e.row.path] # None => o.c <= disk[e.row.path].c
        BY <4>2 DEF Holds
      <4>4. e.row.target \in TargetSet /\ e.row.rec.c \in Nat BY <4>1, RowFacts
      <4>5. o.c \in Nat BY <2>0, <4>4, BackupAssumption DEF TypeOK, Bucket
      <4>6. o.c = disk[p].c BY <2>1, <3>3, <4>3, <4>4, <4>5 DEF Present
      <4> QED BY <4>3, <4>6 DEF Stored, Named
    <3> QED BY <2>1, <3>2, <3>3 DEF Kept, Present
  <2>2. CASE ~Present(p) BY <1>3, <2>0, <2>2 DEF StaleOK, Stale, Present
  <2> QED BY <2>1, <2>2
<1>4. CInv => Converges BY <1>3 DEF Converges
<1> QED BY <1>1, <1>2, <1>4, PTL DEF Spec
=============================================================================
