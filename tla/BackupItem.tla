----------------------------- MODULE BackupItem -----------------------------
(***************************************************************************)
(* What a backup job does with its items (backup/backup.go,                *)
(* backup/scan/scan.go): it examines each of them, uploads what is new or  *)
(* changed to every target within one database transaction, records what   *)
(* is unchanged, and at the end marks as deleted what it did not meet.     *)
(*                                                                         *)
(* One backup definition, hence one job at a time (module Scheduler shows  *)
(* that), and a sequence of jobs over the same database and the same       *)
(* stores, while the items on disk are edited and removed at any moment,   *)
(* also between the stat() of an item and the reading of its content.      *)
(* Items are regular files: directories and symbolic links take the same   *)
(* path through the database but put nothing in a store.                   *)
(***************************************************************************)
EXTENDS ObjectStore, Sequences, FiniteSetsExt

CONSTANTS
  Paths,       \* items
  Targets,     \* the targets of the backup definition, in their order
  Kind,        \* the kind of each target
  Reserved,    \* items with the segment ".cbcrypt" in their path
  TooLarge,    \* per target, the contents beyond its MaxObjectSize
  MaxResults,  \* how many items one query of FindAndMarkDeleted returns
  Faults,      \* the faults that may happen, see Fault
  MaxFaults, MaxJobs, MaxEdits,   \* bounds of a behaviour
  None         \* no record

FaultKinds == {"db", "commit", "upload", "lost", "mark", "delete", "unseen", "cancel", "crash",
               "config"}

TargetSet == {Targets[k] : k \in 1..Len(Targets)}

ASSUME BackupAssumption ==
  /\ IsFiniteSet(Paths)
  /\ Targets \in Seq(TargetSet) /\ Len(Targets) > 0
  /\ \A i, j \in 1..Len(Targets) : Targets[i] = Targets[j] => i = j
  /\ Kind \in [TargetSet -> Kinds]
  /\ Reserved \subseteq Paths
  /\ TooLarge \in [TargetSet -> SUBSET (1..MaxEdits)]
  /\ MaxResults \in Nat \ {0}
  /\ Faults \subseteq FaultKinds
  /\ MaxFaults \in Nat /\ MaxJobs \in Nat /\ MaxEdits \in Nat

VARIABLES
  disk,    \* each item on disk: content and metadata, or None
  wanted,  \* the items the configuration includes and does not exclude
  files,   \* table files: what was last backed up of each item, or None
  rows,    \* table remote_files
  coll,    \* table backup_collections
  failed,  \* table failed_files, of the current job
  store,   \* the content of each target
  job,     \* number of the current job, or of the last one
  pc,      \* what the job is doing
  todo,    \* items the scan has not come to
  found,   \* items FindAndMarkDeleted has still to treat
  batch,   \* how many items its query returned
  cur,     \* the item in work, with its open transaction, or None
  ctx,     \* the job's context is cancelled
  settled, \* items this job counted as up to date
  skipped, \* items ever passed over before an upload
  edits,   \* number of changes on disk
  faults,  \* number of faults
  calm     \* neither a fault nor a change on disk since the job started

dbvars == <<files, rows, coll, failed>>
envvars == <<disk, wanted, edits>>
jobvars == <<job, pc, todo, found, batch, cur, ctx, settled>>
vars == <<disk, wanted, files, rows, coll, failed, store, job, pc, todo, found, batch, cur,
          ctx, settled, skipped, edits, faults, calm>>

\* What the evaluation of an item tells apart: its content (size and mtime,
\* or checksum) and its metadata (ctime).  Both are numbered by the edits.
Item == [c : 1..MaxEdits, m : 1..MaxEdits]

ASSUME NoneAssumption == None \notin Item

Max0(S) == Max(S \cup {0})
-----------------------------------------------------------------------------
(* The database *)

RowsOf(p, t) == {r \in rows : r.path = p /\ r.target = t}

\* Mutated form: delete markers are left out of the count.
NextVersion_NoMarkers(p, t) == Max0({r.version : r \in {q \in RowsOf(p, t) : ~q.del}}) + 1

\* calcRemoteFileVersion(): delete markers count.
NextVersion(p, t) == Max0({r.version : r \in RowsOf(p, t)}) + 1

\* getRemoteVersionForVersion(): the rows a given version has.
VersionRows(p, t, v) == {r \in RowsOf(p, t) : r.version = v}

\* getNewestRemoteFileUuid(): the newest row that is not a delete marker, as
\* a set that is empty when there is none.
NewestRows(p, t) ==
  LET S == {r \in RowsOf(p, t) : ~r.del}
  IN  {r \in S : \A q \in S : q.version <= r.version}

Row(p, t, v, rv, del, rec) ==
  [path |-> p, target |-> t, version |-> v, rv |-> rv, del |-> del, rec |-> rec, job |-> job]

Collected(S) == {[row |-> r, job |-> job, target |-> r.target] : r \in S}

\* FindDeletedItemsStmt: files this job has neither in its collection for the
\* first target nor among its failed items.
Unmet ==
  {p \in Paths : files[p] # None
                 /\ p \notin failed
                 /\ \A e \in coll : ~(e.job = job /\ e.target = Targets[1] /\ e.row.path = p)}

\* Mutated form: a changed ctime is not looked at.
Operation_NoMetadata(p) ==
  IF files[p] = None THEN "new"
  ELSE IF files[p].c # disk[p].c THEN "content-update"
  ELSE "up-to-date"

\* needsUpload()
Operation(p) ==
  IF files[p] = None THEN "new"
  ELSE IF files[p].c # disk[p].c THEN "content-update"
  ELSE IF files[p].m # disk[p].m THEN "metadata-update"
  ELSE "up-to-date"
-----------------------------------------------------------------------------
Init ==
  /\ disk = [p \in Paths |-> None]
  /\ wanted = Paths
  /\ files = [p \in Paths |-> None]
  /\ rows = {} /\ coll = {} /\ failed = {}
  /\ store = [t \in TargetSet |-> EmptyStore]
  /\ job = 0 /\ pc = "idle"
  /\ todo = {} /\ found = {} /\ batch = 0
  /\ cur = None /\ ctx = FALSE
  /\ settled = {} /\ skipped = {}
  /\ edits = 0 /\ faults = 0 /\ calm = TRUE

\* A fault of kind f happens now.
Fault(f) ==
  /\ f \in Faults /\ faults < MaxFaults
  /\ faults' = faults + 1
  /\ calm' = FALSE

NoFault == UNCHANGED <<faults, calm>>
-----------------------------------------------------------------------------
(* The disk and the configuration *)

Change(p, item) ==
  /\ edits < MaxEdits
  /\ edits' = edits + 1
  /\ disk' = [disk EXCEPT ![p] = item]
  /\ calm' = FALSE
  /\ UNCHANGED <<wanted, files, rows, coll, failed, store, jobvars, skipped, faults>>

Write(p) == Change(p, [c |-> edits + 1, m |-> edits + 1])

Chmod(p) == disk[p] # None /\ Change(p, [disk[p] EXCEPT !.m = edits + 1])

Remove(p) == disk[p] # None /\ Change(p, None)

\* A job works with the configuration as it was when the job started.
Reconfigure(W) ==
  /\ pc = "idle" /\ W # wanted
  /\ Fault("config")
  /\ wanted' = W
  /\ UNCHANGED <<disk, edits, dbvars, store, jobvars, skipped>>
-----------------------------------------------------------------------------
(* The job *)

StartJob ==
  /\ pc = "idle" /\ job < MaxJobs
  /\ job' = job + 1
  /\ pc' = "scan" /\ todo' = wanted
  /\ failed' = {} /\ settled' = {} /\ ctx' = FALSE
  /\ calm' = TRUE
  /\ UNCHANGED <<envvars, files, rows, coll, store, found, batch, cur, skipped, faults>>

Cancel ==
  /\ pc # "idle" /\ ~ctx
  /\ Fault("cancel")
  /\ ctx' = TRUE
  /\ UNCHANGED <<envvars, dbvars, store, job, pc, todo, found, batch, cur, settled, skipped>>

\* The process dies; the open transaction is lost, the stores keep what they have.
Crash ==
  /\ pc # "idle"
  /\ Fault("crash")
  /\ pc' = "idle" /\ cur' = None /\ todo' = {} /\ found' = {} /\ batch' = 0
  /\ UNCHANGED <<envvars, dbvars, store, job, ctx, settled, skipped>>

\* The job goes on after the item in work.
Leave(next) == pc' = next /\ cur' = None

\* MarkItemAsFailed(): the insert itself may fail and is only logged then.
MarkItemAsFailed(p) == failed' = failed \cup {p} \/ ("db" \in Faults /\ failed' = failed)

\* The directory listing has no such item.
ScanAbsent(p) ==
  /\ pc = "scan" /\ p \in todo /\ ~ctx /\ disk[p] = None
  /\ todo' = todo \ {p}
  /\ NoFault
  /\ UNCHANGED <<envvars, dbvars, store, job, pc, found, batch, cur, ctx, settled, skipped>>

\* The listing of its directory or its stat() fails: counted, but not among
\* the failed items.
ScanUnseen(p) ==
  /\ pc = "scan" /\ p \in todo /\ ~ctx
  /\ Fault("unseen")
  /\ todo' = todo \ {p}
  /\ UNCHANGED <<envvars, dbvars, store, job, pc, found, batch, cur, ctx, settled, skipped>>

\* Do() and the beginning of UploadAndUpdateDB()
ExamineChanged(p) ==
  /\ pc = "scan" /\ p \in todo /\ ~ctx /\ disk[p] # None
  /\ Operation(p) # "up-to-date"
  /\ todo' = todo \ {p}
  /\ pc' = "targets"
  /\ cur' = [path |-> p, op |-> Operation(p), rec |-> disk[p], k |-> 1,
             rows |-> {}, sent |-> <<>>, cancelled |-> FALSE]
  /\ NoFault
  /\ UNCHANGED <<envvars, dbvars, store, job, found, batch, ctx, settled, skipped>>

\* Do() of an unchanged item; a target without a row is left out (logged).
ExamineUnchanged(p) ==
  /\ pc = "scan" /\ p \in todo /\ ~ctx /\ disk[p] # None
  /\ Operation(p) = "up-to-date"
  /\ todo' = todo \ {p}
  /\ coll' = coll \cup Collected(UNION {NewestRows(p, t) : t \in TargetSet})
  /\ settled' = settled \cup {p}
  /\ NoFault
  /\ UNCHANGED <<envvars, files, rows, failed, store, job, pc, found, batch, cur, ctx, skipped>>

\* The entries are no transaction: some may be missing, which is only logged.
ExamineUnchangedPartly(p) ==
  /\ pc = "scan" /\ p \in todo /\ ~ctx /\ disk[p] # None
  /\ Operation(p) = "up-to-date"
  /\ Fault("db")
  /\ todo' = todo \ {p}
  /\ \E T \in SUBSET TargetSet \ {TargetSet} :
       coll' = coll \cup Collected(UNION {NewestRows(p, t) : t \in T})
  /\ settled' = settled \cup {p}
  /\ UNCHANGED <<envvars, files, rows, failed, store, job, pc, found, batch, cur, ctx, skipped>>

\* The lookup, the start of the transaction or the first statement fails.
ExamineFails(p) ==
  /\ pc = "scan" /\ p \in todo /\ ~ctx /\ disk[p] # None
  /\ Fault("db")
  /\ todo' = todo \ {p}
  /\ MarkItemAsFailed(p)
  /\ UNCHANGED <<envvars, files, rows, coll, store, job, pc, found, batch, cur, ctx, settled,
                 skipped>>

\* One of the configured paths itself cannot be examined or recorded: the
\* whole job is given up.
ScanAborts ==
  /\ pc = "scan" /\ todo # {} /\ ~ctx
  /\ Fault("unseen")
  /\ pc' = "end" /\ todo' = {}
  /\ UNCHANGED <<envvars, dbvars, store, job, found, batch, cur, ctx, settled, skipped>>

ScanDone ==
  /\ pc = "scan" /\ todo = {}
  /\ pc' = "query"
  /\ NoFault
  /\ UNCHANGED <<envvars, dbvars, store, job, todo, found, batch, cur, ctx, settled, skipped>>

CancelSeen ==
  /\ ctx
  /\ \/ pc = "scan" /\ todo # {}
     \/ pc = "query" /\ Unmet # {}
     \/ pc = "mark" /\ found # {}
  /\ pc' = "end" /\ todo' = {} /\ found' = {}
  /\ NoFault
  /\ UNCHANGED <<envvars, dbvars, store, job, batch, cur, ctx, settled, skipped>>
-----------------------------------------------------------------------------
(* UploadAndUpdateDB() and markDeleted(): one target after the other *)

AtTarget == pc = "targets" /\ cur.k <= Len(Targets)
Target == Targets[cur.k]
Version == NextVersion(cur.path, Target)
Uploads == cur.op \in {"new", "content-update"}

\* The rows of this target join the transaction, and the loop goes on.
NextTarget(rv, sent) ==
  cur' = [cur EXCEPT !.k = @ + 1,
                     !.rows = @ \cup {Row(cur.path, Target, Version, rv, cur.op = "mark", cur.rec)},
                     !.sent = @ \o sent]

\* The loop is left, the transaction rolled back.
Abandon(cancelled) ==
  /\ pc' = "rollback"
  /\ cur' = [cur EXCEPT !.cancelled = cancelled]

Sent(rv) == <<[target |-> Target, rv |-> rv]>>

\* preUploadReservedPathCheck() and preUploadSizeCheck()
PreUploadSkips == cur.path \in Reserved \/ cur.rec.c \in TooLarge[Target]

\* No row, no error.
Skip ==
  /\ AtTarget /\ Uploads /\ PreUploadSkips
  /\ cur' = [cur EXCEPT !.k = @ + 1]
  /\ skipped' = skipped \cup {cur.path}
  /\ NoFault
  /\ UNCHANGED <<envvars, dbvars, store, job, pc, todo, found, batch, ctx, settled>>

\* The content goes as it is on disk now.
Upload ==
  /\ AtTarget /\ Uploads /\ ~ctx /\ ~PreUploadSkips
  /\ disk[cur.path] # None
  /\ store' = [store EXCEPT ![Target] =
                 Uploaded(Kind[Target], @, cur.path, Version, disk[cur.path].c)]
  /\ LET rv == UploadId(Kind[Target], store[Target], Version) IN NextTarget(rv, Sent(rv))
  /\ NoFault
  /\ UNCHANGED <<envvars, dbvars, job, pc, todo, found, batch, ctx, settled, skipped>>

\* Upload() returns an error; the file may be gone by now.
UploadFails ==
  /\ AtTarget /\ Uploads /\ ~ctx /\ ~PreUploadSkips
  /\ IF disk[cur.path] = None THEN NoFault ELSE Fault("upload")
  /\ Abandon(FALSE)
  /\ UNCHANGED <<envvars, dbvars, store, job, todo, found, batch, ctx, settled, skipped>>

\* The object is stored, but the answer is lost or has no version in it, or
\* the context is cancelled before the answer is there.
UploadAnswerLost ==
  /\ AtTarget /\ Uploads /\ ~PreUploadSkips
  /\ disk[cur.path] # None
  /\ \/ ctx /\ NoFault /\ Abandon(TRUE)
     \/ ~ctx /\ Fault("lost") /\ Abandon(FALSE)
  /\ store' = [store EXCEPT ![Target] =
                 Uploaded(Kind[Target], @, cur.path, Version, disk[cur.path].c)]
  /\ UNCHANGED <<envvars, dbvars, job, todo, found, batch, ctx, settled, skipped>>

\* The client library gives up on the cancelled context, with nothing stored.
UploadCancelled ==
  /\ AtTarget /\ Uploads /\ ctx /\ ~PreUploadSkips
  /\ Abandon(TRUE)
  /\ NoFault
  /\ UNCHANGED <<envvars, dbvars, store, job, todo, found, batch, ctx, settled, skipped>>

\* Only the metadata changed: a new row that points to the object of the row before.
UpdateMetadata ==
  /\ AtTarget /\ cur.op = "metadata-update"
  /\ \E r \in VersionRows(cur.path, Target, Version - 1) : NextTarget(r.rv, <<>>)
  /\ NoFault
  /\ UNCHANGED <<envvars, dbvars, store, job, pc, todo, found, batch, ctx, settled, skipped>>

\* There is no row before.
UpdateFails ==
  /\ AtTarget /\ cur.op = "metadata-update"
  /\ VersionRows(cur.path, Target, Version - 1) = {}
  /\ Abandon(FALSE)
  /\ NoFault
  /\ UNCHANGED <<envvars, dbvars, store, job, todo, found, batch, ctx, settled, skipped>>

Mark ==
  /\ AtTarget /\ cur.op = "mark" /\ ~ctx
  /\ ~MarkRefused(Kind[Target], store[Target], cur.path)
  /\ store' = [store EXCEPT ![Target] = MarkedDeleted(Kind[Target], @, cur.path, Version)]
  /\ LET rv == MarkId(Kind[Target], store[Target], Version) IN NextTarget(rv, Sent(rv))
  /\ NoFault
  /\ UNCHANGED <<envvars, dbvars, job, pc, todo, found, batch, ctx, settled, skipped>>

\* An error, also when the context is cancelled: markDeleted() looks at the
\* error before it looks at the cancellation.
MarkFails ==
  /\ AtTarget /\ cur.op = "mark"
  /\ IF ctx \/ MarkRefused(Kind[Target], store[Target], cur.path) THEN NoFault ELSE Fault("mark")
  /\ Abandon(FALSE)
  /\ UNCHANGED <<envvars, dbvars, store, job, todo, found, batch, ctx, settled, skipped>>

\* A statement of the transaction fails after what was done in the store.
StatementFails ==
  /\ pc = "targets" /\ cur.k > 1
  /\ Fault("db")
  /\ Abandon(FALSE)
  /\ UNCHANGED <<envvars, dbvars, store, job, todo, found, batch, ctx, settled, skipped>>

AfterItem == IF cur.op = "mark" THEN "mark" ELSE "scan"

\* Mutated form: the row in files survives the marking.
Commit_KeepsFiles ==
  /\ pc = "targets" /\ cur.k > Len(Targets)
  /\ files' = [files EXCEPT ![cur.path] = cur.rec]
  /\ rows' = rows \cup cur.rows
  /\ coll' = coll \cup Collected(cur.rows)
  /\ Leave(AfterItem)
  /\ NoFault
  /\ UNCHANGED <<envvars, failed, store, job, todo, found, batch, ctx, settled, skipped>>

Commit ==
  /\ pc = "targets" /\ cur.k > Len(Targets)
  /\ files' = [files EXCEPT ![cur.path] = IF cur.op = "mark" THEN None ELSE cur.rec]
  /\ rows' = rows \cup cur.rows
  /\ coll' = coll \cup Collected(cur.rows)
  /\ Leave(AfterItem)
  /\ NoFault
  /\ UNCHANGED <<envvars, failed, store, job, todo, found, batch, ctx, settled, skipped>>

\* What was uploaded stays where it is.
CommitFails ==
  /\ pc = "targets" /\ cur.k > Len(Targets)
  /\ Fault("commit")
  /\ IF cur.op = "mark" THEN UNCHANGED failed ELSE MarkItemAsFailed(cur.path)
  /\ Leave(AfterItem)
  /\ UNCHANGED <<envvars, files, rows, coll, store, job, todo, found, batch, ctx, settled, skipped>>

DropSent == cur' = [cur EXCEPT !.sent = Tail(@)]

\* Delete() of one object, with the context of the job.
Undo ==
  /\ pc = "rollback" /\ cur.sent # <<>> /\ ~ctx
  /\ LET e == Head(cur.sent) IN
       store' = [store EXCEPT ![e.target] = Deleted(Kind[e.target], @, cur.path, e.rv)]
  /\ DropSent
  /\ NoFault
  /\ UNCHANGED <<envvars, dbvars, job, pc, todo, found, batch, ctx, settled, skipped>>

\* A failing Delete() is only logged; with a cancelled context each one fails.
UndoFails ==
  /\ pc = "rollback" /\ cur.sent # <<>>
  /\ IF ctx THEN NoFault ELSE Fault("delete")
  /\ DropSent
  /\ UNCHANGED <<envvars, dbvars, store, job, pc, todo, found, batch, ctx, settled, skipped>>

RolledBack ==
  /\ pc = "rollback" /\ cur.sent = <<>>
  /\ IF cur.op = "mark" \/ cur.cancelled THEN UNCHANGED failed ELSE MarkItemAsFailed(cur.path)
  /\ Leave(IF cur.cancelled THEN "end" ELSE AfterItem)
  /\ todo' = IF cur.cancelled THEN {} ELSE todo
  /\ NoFault
  /\ UNCHANGED <<envvars, files, rows, coll, store, job, found, batch, ctx, settled, skipped>>
-----------------------------------------------------------------------------
(* FindAndMarkDeleted() *)

\* The query has a LIMIT and no order.
Query ==
  /\ pc = "query" /\ ~(ctx /\ Unmet # {})
  /\ \E S \in SUBSET Unmet :
       /\ Cardinality(S) = Min({Cardinality(Unmet), MaxResults})
       /\ found' = S /\ batch' = Cardinality(S)
  /\ pc' = "mark"
  /\ NoFault
  /\ UNCHANGED <<envvars, dbvars, store, job, todo, cur, ctx, settled, skipped>>

QueryFails ==
  /\ pc = "query"
  /\ Fault("db")
  /\ pc' = "end"
  /\ UNCHANGED <<envvars, dbvars, store, job, todo, found, batch, cur, ctx, settled, skipped>>

\* An item that is still wanted and on disk keeps its row in files.
MarkSkips(p) ==
  /\ pc = "mark" /\ p \in found /\ ~ctx
  /\ p \in wanted /\ disk[p] # None
  /\ found' = found \ {p}
  /\ NoFault
  /\ UNCHANGED <<envvars, dbvars, store, job, pc, todo, batch, cur, ctx, settled, skipped>>

MarkBegins(p) ==
  /\ pc = "mark" /\ p \in found /\ ~ctx
  /\ ~(p \in wanted /\ disk[p] # None)
  /\ found' = found \ {p}
  /\ pc' = "targets"
  /\ cur' = [path |-> p, op |-> "mark", rec |-> files[p], k |-> 1,
             rows |-> {}, sent |-> <<>>, cancelled |-> FALSE]
  /\ NoFault
  /\ UNCHANGED <<envvars, dbvars, store, job, todo, batch, ctx, settled, skipped>>

\* The lookup, the start of the transaction or its first statement fails.
MarkBeginFails(p) ==
  /\ pc = "mark" /\ p \in found /\ ~ctx
  /\ Fault("db")
  /\ found' = found \ {p}
  /\ UNCHANGED <<envvars, dbvars, store, job, pc, todo, batch, cur, ctx, settled, skipped>>

\* A full batch: the function calls itself.
MarkDone ==
  /\ pc = "mark" /\ found = {}
  /\ pc' = IF batch >= MaxResults THEN "query" ELSE "end"
  /\ batch' = 0
  /\ NoFault
  /\ UNCHANGED <<envvars, dbvars, store, job, todo, found, cur, ctx, settled, skipped>>

EndJob ==
  /\ pc = "end"
  /\ pc' = "idle"
  /\ NoFault
  /\ UNCHANGED <<envvars, dbvars, store, job, todo, found, batch, cur, ctx, settled, skipped>>
-----------------------------------------------------------------------------
Environment ==
  \/ \E p \in Paths : Write(p) \/ Chmod(p) \/ Remove(p)
  \/ \E W \in SUBSET Paths : Reconfigure(W)
  \/ Cancel
  \/ Crash

Scan ==
  \/ \E p \in Paths : \/ ScanAbsent(p) \/ ScanUnseen(p)
                      \/ ExamineChanged(p) \/ ExamineUnchanged(p)
                      \/ ExamineUnchangedPartly(p) \/ ExamineFails(p)
  \/ ScanAborts
  \/ ScanDone
  \/ CancelSeen

Transaction ==
  \/ Skip \/ Upload \/ UploadFails \/ UploadAnswerLost \/ UploadCancelled
  \/ UpdateMetadata \/ UpdateFails
  \/ Mark \/ MarkFails
  \/ StatementFails \/ Commit \/ CommitFails
  \/ Undo \/ UndoFails \/ RolledBack

FindAndMarkDeleted ==
  \/ Query \/ QueryFails
  \/ \E p \in Paths : MarkSkips(p) \/ MarkBegins(p) \/ MarkBeginFails(p)
  \/ MarkDone

Job == Scan \/ Transaction \/ FindAndMarkDeleted \/ EndJob

Next == Environment \/ StartJob \/ Job

Spec == Init /\ [][Next]_vars

\* A running job goes on; nothing makes users edit files or start jobs.
FairSpec == Spec /\ WF_vars(Job)
-----------------------------------------------------------------------------
(* Properties *)

Operations == {"new", "content-update", "metadata-update", "mark"}

RemoteVersions == {"v", "d"} \X Nat

RemoteRow == [path : Paths, target : TargetSet, version : Nat \ {0}, rv : RemoteVersions,
              del : BOOLEAN, rec : Item, job : 1..MaxJobs]

\* The item in work and its transaction.
Work == [path : Paths, op : Operations, rec : Item, k : 1..(Len(Targets) + 1),
         rows : SUBSET RemoteRow, sent : Seq([target : TargetSet, rv : RemoteVersions]),
         cancelled : BOOLEAN]

Bucket == [objects : SUBSET [path : Paths, rv : RemoteVersions, c : 0..MaxEdits],
           live : SUBSET Paths, gen : Nat]

\* Type invariant: an item is in work exactly while its transaction is open,
\* and every record has the columns and the ranges of its table.
TypeOK ==
  /\ disk \in [Paths -> Item \cup {None}] /\ wanted \subseteq Paths
  /\ files \in [Paths -> Item \cup {None}]
  /\ rows \subseteq RemoteRow
  /\ \A e \in coll : e.row \in rows /\ e.target = e.row.target /\ e.job \in 1..job
  /\ failed \subseteq Paths /\ settled \subseteq Paths /\ skipped \subseteq Paths
  /\ todo \subseteq Paths /\ found \subseteq Paths
  /\ store \in [TargetSet -> Bucket]
  /\ job \in 0..MaxJobs /\ batch \in 0..MaxResults
  /\ edits \in 0..MaxEdits
  /\ pc \in {"idle", "scan", "targets", "rollback", "query", "mark", "end"}
  /\ pc # "idle" => job > 0
  /\ IF pc \in {"targets", "rollback"} THEN cur \in Work ELSE cur = None

\* The content of the object that row r names.
Stored(r) == {o.c : o \in Named(store[r.target], r.path, r.rv)}

\* Every version recorded in remote_files that is not a delete marker has what
\* it takes to be restored: the object it names is in its store, is no delete
\* marker, and holds the content that was examined or what the file had become
\* when it was read.  Neither the cleanup after a failed upload or a failed
\* mark, nor a crash, a lost answer or a reused version number takes it away.
RowsRestorable ==
  \A r \in rows : ~r.del /\ r.path \notin skipped
                   => \E c \in Stored(r) : c # Marker /\ c >= r.rec.c

\* The versions of an item on a target are 1, 2, 3, ... without a gap and
\* without a number given twice, through rollbacks, failed commits and
\* crashes: restore and metadata update look a row up by its version.
VersionsDense ==
  \A p \in Paths, t \in TargetSet :
    {r.version : r \in RowsOf(p, t)} = 1..Cardinality(RowsOf(p, t))

\* The tables files and remote_files tell the same story on every target: an
\* item in files has as newest version one with just those properties; an
\* item that is not in files has no version or was last marked deleted.
FilesTracked ==
  \A p \in Paths \ skipped, t \in TargetSet :
    LET Newest == {r \in RowsOf(p, t) : \A q \in RowsOf(p, t) : q.version <= r.version}
    IN  IF files[p] = None THEN \A r \in Newest : r.del
        ELSE \E r \in Newest : ~r.del /\ r.rec = files[p]

\* Backups recover by themselves from what went wrong in earlier jobs: a job
\* that runs without a fault while the disk stands still ends with the disk
\* in the backup: what is on disk and wanted is in its collection on every
\* target with the content of the disk, and everything else is out of files:
\* FindAndMarkDeleted() "will mark deleted all files/dir/symlinks which are not
\* listed in the current backup and also don't exist any more on disk".  So it
\* is when no target is a GCP bucket, which the run BackupItem_safety checks
\* and the theorem assumes; with one it is not (README, section 4).
Converges ==
  pc = "end" /\ calm =>
    \A p \in Paths \ skipped :
      IF p \in wanted /\ disk[p] # None
      THEN /\ files[p] = disk[p]
           /\ \A t \in TargetSet : \E e \in coll :
                /\ e.job = job /\ e.target = t /\ e.row.path = p /\ ~e.row.del
                /\ e.row.rec = disk[p] /\ disk[p].c \in Stored(e.row)
      ELSE files[p] = None

\* An item counted as up to date is in the backup: Do() (backup.go) calls it
\* "up to date (aka we got a copy in the backup)", and the collection of the
\* job has, on every target, a version with the content recorded in files.
UpToDateBackedUp ==
  \A p \in settled : files[p] # None =>
    \A t \in TargetSet : \E e \in coll :
      /\ e.job = job /\ e.target = t /\ e.row.path = p
      /\ \E c \in Stored(e.row) : c >= files[p].c

\* A restore finds what it asks for: Get() is given version and remote_version
\* of a row, and "it's up to the implementation to decide which of the two makes
\* sense to be used in order to fetch the appropriate item" (common.go).
RestoreFinds ==
  \A r \in rows : ~r.del /\ r.path \notin skipped =>
    \E o \in Got(Kind[r.target], store[r.target], r.path, r.version, r.rv) : o.c >= r.rec.c

\* The cleanup in UploadAndUpdateDB() is there to "ensure that any
\* successfully uploaded file/dir/symlink is removed": between two items,
\* every object of a store has its row in remote_files.
NoOrphans ==
  cur = None => \A t \in TargetSet : \A o \in store[t].objects :
    \E r \in rows : r.target = t /\ r.path = o.path /\ r.rv = o.rv

\* FindAndMarkDeleted() calls itself "until all DB records are processed",
\* and then the job ends.
JobEnds == pc # "idle" ~> pc = "idle"
=============================================================================
