----------------------------- MODULE RestoreJob -----------------------------
(***************************************************************************)
(* One restore job, from its start over crashes, cancellations and resumes *)
(* to its end (restore/restore.go, database/dbops/restore_dbops.go).  The  *)
(* restore database keeps the row of the job, the manifest with a state    *)
(* for each item, and counters; every statement is a transaction of its    *)
(* own, so a crash may fall between any two.  The download of a file is a  *)
(* goroutine that a cancelled run leaves behind.  How the job gets and     *)
(* leaves its place in the table of jobs is in Scheduler.                  *)
(***************************************************************************)
EXTENDS Integers, FiniteSets

CONSTANTS
  Files,       \* items whose content is downloaded
  Dirs,        \* directories and symbolic links, made without a download
  Markers,     \* items the backup recorded as deleted
  MaxRuns,     \* bound on the start and the resumes
  MaxCrashes   \* bound on crashes of the daemon

ASSUME RestoreJobAssumption ==
  /\ Files \cap Dirs = {} /\ Files \cap Markers = {} /\ Dirs \cap Markers = {}
  /\ IsFiniteSet(Files \cup Dirs \cup Markers)
  /\ MaxRuns \in Nat \ {0} /\ MaxCrashes \in Nat

Items == Files \cup Dirs \cup Markers

VARIABLES
  row,        \* the state of the job in the table jobs
  file,       \* the state of each item in restore_files
  counters,   \* the row of restore_counters
  live,       \* the counters in memory, which watch streams and reports show
  run,        \* the goroutine of the job: where it is and what it works on
  cancelled,  \* its context is cancelled
  runs,       \* the number of the present or last run
  gets,       \* the download of each run
  disk,       \* each file: the run that created it last, and whether it is complete
  crashes,    \* crashes of the daemon so far
  leaked      \* history: files whose download outlived the run

vars == <<row, file, counters, live, run, cancelled, runs, gets, disk, crashes, leaked>>
db == <<row, file, counters>>
downloads == <<gets, disk, leaked>>
bounds == <<runs, crashes>>

None == "none"

Zero == [restored |-> 0, failed |-> 0, skipped |-> 0]

Gone == [pc |-> "gone", todo |-> {}, item |-> None, any |-> FALSE, result |-> None]

NoGet == [pc |-> "none", item |-> None]

Init ==
  /\ row = "none"
  /\ file = [i \in Items |-> "absent"]
  /\ counters = Zero /\ live = Zero
  /\ run = Gone
  /\ cancelled = FALSE
  /\ runs = 0 /\ crashes = 0
  /\ gets = [k \in 1 .. MaxRuns |-> NoGet]
  /\ disk = [i \in Files |-> [by |-> 0, whole |-> FALSE]]
  /\ leaked = {}

Resumable == {"cancelled", "failed", "crashed", "stopped"}

At(pc) == run.pc = pc

Goto(pc) == run' = [run EXCEPT !.pc = pc]

\* Do() returns: cleanupAfterRestore() is next.
Return(result) == run' = [run EXCEPT !.pc = "record", !.result = result]

-----------------------------------------------------------------------------
(* Commands. *)

\* runRestore() of a new id, or runResume() of one whose row says it may be resumed.
Begin ==
  /\ At("gone") /\ row \in {"none"} \cup Resumable /\ runs < MaxRuns
  /\ run' = [Gone EXCEPT !.pc = "init"]
  /\ runs' = runs + 1
  /\ UNCHANGED <<db, live, cancelled, downloads, crashes>>

\* The command "stop".
Cancel ==
  /\ ~At("gone") /\ ~cancelled
  /\ cancelled' = TRUE
  /\ UNCHANGED <<db, live, run, bounds, downloads>>

-----------------------------------------------------------------------------
(* Do(). *)

\* The job or its target is not found, or a resume cannot read its record: the outcome
\* is recorded nowhere (PreserveRecord, or no target name).
InitRefused ==
  /\ At("init")
  /\ Goto("remove")
  /\ UNCHANGED <<db, live, cancelled, bounds, downloads>>

\* The store, the directory, a database or the keys cannot be had.
InitFails ==
  /\ At("init")
  /\ Return("failed")
  /\ UNCHANGED <<db, live, cancelled, bounds, downloads>>

\* initFreshRestoreJob() writes the row of the job and the one of its counters ...
InsertRestoreJob ==
  /\ At("init") /\ row = "none"
  /\ row' = "started"
  /\ Goto("manifest")
  /\ UNCHANGED <<file, counters, live, cancelled, bounds, downloads>>

\* ... and then the manifest, in one transaction; there may be no such files.
InsertManifest ==
  /\ At("manifest")
  /\ \/ file' = [i \in Items |-> "pending"] /\ Goto("load")
     \/ UNCHANGED file /\ Return("failed")
  /\ UNCHANGED <<row, counters, live, cancelled, bounds, downloads>>

\* resumeRestoreJob(): the counters in memory go on from those in the database.
ResumeRestoreJob ==
  /\ At("init") /\ row # "none"
  /\ live' = counters
  /\ row' = "started"
  /\ Goto("load")
  /\ UNCHANGED <<file, counters, cancelled, bounds, downloads>>

\* Mutated forms: only items never begun; every item.
PendingOnlyNew == {i \in Items : file[i] = "pending"}
PendingAll == {i \in Items : file[i] # "absent"}

\* LoadPendingManifest(): "WHERE ... state != 'done'".
Pending == {i \in Items : file[i] \notin {"absent", "done"}}

Load ==
  /\ At("load")
  /\ IF Pending = {} THEN Return("finished")
     ELSE run' = [run EXCEPT !.pc = "loop", !.todo = Pending]
  /\ UNCHANGED <<db, live, cancelled, bounds, downloads>>

LoopCancelled ==
  /\ At("loop") /\ run.todo # {} /\ cancelled
  /\ Return("cancelled")
  /\ UNCHANGED <<db, live, cancelled, bounds, downloads>>

\* The next item; the order, by type and path, makes no difference here.
Next1(pc, i) == run' = [run EXCEPT !.pc = pc, !.item = i, !.todo = @ \ {i}]

\* A delete marker is counted ...
SkipCount(i) ==
  /\ At("loop") /\ ~cancelled /\ i \in run.todo \cap Markers
  /\ Next1("skip", i)
  /\ live' = [live EXCEPT !.skipped = @ + 1]
  /\ counters' = [counters EXCEPT !.skipped = @ + 1]
  /\ UNCHANGED <<row, file, cancelled, bounds, downloads>>

\* ... and then marked.
SkipMark ==
  /\ At("skip")
  /\ file' = [file EXCEPT ![run.item] = "skipped"]
  /\ Goto("loop")
  /\ UNCHANGED <<row, counters, live, cancelled, bounds, downloads>>

BeginItem(i) ==
  /\ At("loop") /\ ~cancelled /\ i \in run.todo \ Markers
  /\ Next1("item", i)
  /\ file' = [file EXCEPT ![i] = "in_progress"]
  /\ UNCHANGED <<row, counters, live, cancelled, bounds, downloads>>

\* restoreOne() counts what came of the item in memory.
Outcome(pc, counter) ==
  /\ live' = [live EXCEPT ![counter] = @ + 1]
  /\ Goto(pc)

\* restoreOne() of a directory or link; a file's directory may not be had either.
RestoreLocal ==
  /\ At("item")
  /\ \/ run.item \in Dirs /\ Outcome("done", "restored")
     \/ Outcome("failed", "failed")
  /\ UNCHANGED <<db, cancelled, bounds, downloads>>

\* restoreOne() of a file starts the download.
StartGet ==
  /\ At("item") /\ run.item \in Files
  /\ gets' = [gets EXCEPT ![runs] = [pc |-> "asked", item |-> run.item]]
  /\ Goto("wait")
  /\ UNCHANGED <<db, live, cancelled, bounds, disk, leaked>>

\* Mutated form: only the error is looked at.
GotResultErrOnly ==
  /\ At("wait")
  /\ \/ gets[runs].pc \in {"ok", "cancelled"} /\ Outcome("done", "restored")
     \/ gets[runs].pc = "err" /\ Outcome("failed", "failed")
  /\ gets' = [gets EXCEPT ![runs] = NoGet]
  /\ UNCHANGED <<db, cancelled, bounds, disk, leaked>>

\* The download is over: restoreOne() returns what it returned.
GotResult ==
  /\ At("wait")
  /\ \/ gets[runs].pc = "ok" /\ Outcome("done", "restored")
     \/ gets[runs].pc = "err" /\ Outcome("failed", "failed")
     \/ gets[runs].pc = "cancelled" /\ Return("cancelled") /\ UNCHANGED live
  /\ gets' = [gets EXCEPT ![runs] = NoGet]
  /\ UNCHANGED <<db, cancelled, bounds, disk, leaked>>

Over == {"none", "ok", "err", "cancelled"}

\* Mutated form: the cancellation is noticed when the download is over.
GetAbandonedLate ==
  /\ At("wait") /\ cancelled /\ gets[runs].pc \in Over
  /\ Return("cancelled")
  /\ UNCHANGED <<db, live, cancelled, bounds, downloads>>

\* The context is done: the download is left to itself and the item stays in_progress.
GetAbandoned ==
  /\ At("wait") /\ cancelled
  /\ Return("cancelled")
  /\ IF gets[runs].pc \in Over
     THEN gets' = [gets EXCEPT ![runs] = NoGet] /\ UNCHANGED leaked
     ELSE leaked' = leaked \cup {run.item} /\ UNCHANGED gets
  /\ UNCHANGED <<db, live, cancelled, bounds, disk>>

MarkDone ==
  /\ At("done")
  /\ file' = [file EXCEPT ![run.item] = "done"]
  /\ Goto("countDone")
  /\ UNCHANGED <<row, counters, live, cancelled, bounds, downloads>>

CountDone ==
  /\ At("countDone")
  /\ counters' = [counters EXCEPT !.restored = @ + 1]
  /\ run' = [run EXCEPT !.pc = "loop", !.any = TRUE]
  /\ UNCHANGED <<row, file, live, cancelled, bounds, downloads>>

MarkFailed ==
  /\ At("failed")
  /\ file' = [file EXCEPT ![run.item] = "failed"]
  /\ Goto("countFailed")
  /\ UNCHANGED <<row, counters, live, cancelled, bounds, downloads>>

CountFailed ==
  /\ At("countFailed")
  /\ counters' = [counters EXCEPT !.failed = @ + 1]
  /\ Goto("loop")
  /\ UNCHANGED <<row, file, live, cancelled, bounds, downloads>>

LoopEnds ==
  /\ At("loop") /\ run.todo = {}
  /\ Return(IF cancelled THEN "cancelled" ELSE IF run.any THEN "finished" ELSE "failed")
  /\ UNCHANGED <<db, live, cancelled, bounds, downloads>>

\* cleanupAfterRestore(): FinalizeJobRecord() updates the row, if there is one ...
Record ==
  /\ At("record")
  /\ row' = IF row = "none" THEN row ELSE run.result
  /\ Goto("remove")
  /\ UNCHANGED <<file, counters, live, cancelled, bounds, downloads>>

\* ... and the job leaves the table, and with it go its context and counters.
Remove ==
  /\ At("remove")
  /\ run' = Gone
  /\ cancelled' = FALSE
  /\ live' = Zero
  /\ UNCHANGED <<db, bounds, downloads>>

-----------------------------------------------------------------------------
(* Downloads: Get() of the stores. *)

\* os.Create() empties the file, whoever wrote it.
GetCreate(k) ==
  /\ gets[k].pc = "asked"
  /\ gets' = [gets EXCEPT ![k].pc = "open"]
  /\ disk' = [disk EXCEPT ![gets[k].item] = [by |-> k, whole |-> FALSE]]
  /\ UNCHANGED <<db, live, run, cancelled, bounds, leaked>>

\* The run that waits takes the result; nobody reads the one of a run that left.
Returns(k, result) ==
  gets' = [gets EXCEPT ![k] = IF k = runs /\ At("wait") THEN [@ EXCEPT !.pc = result] ELSE NoGet]

\* All is written; the file is complete unless it was emptied meanwhile.
GetDone(k) ==
  /\ gets[k].pc = "open"
  /\ Returns(k, "ok")
  /\ disk' = [disk EXCEPT ![gets[k].item].whole = @ \/ disk[gets[k].item].by = k]
  /\ UNCHANGED <<db, live, run, cancelled, bounds, leaked>>

\* An error, which is a cancellation when the context of the run is cancelled.
GetFails(k) ==
  /\ gets[k].pc \in {"asked", "open"}
  /\ Returns(k, IF cancelled THEN "cancelled" ELSE "err")
  /\ UNCHANGED <<db, live, run, cancelled, bounds, disk, leaked>>

-----------------------------------------------------------------------------
\* The daemon dies and is started again: CheckForCrashedRestoreJobs().
Crash ==
  /\ crashes < MaxCrashes
  /\ crashes' = crashes + 1
  /\ run' = Gone
  /\ gets' = [k \in 1 .. MaxRuns |-> NoGet]
  /\ cancelled' = FALSE
  /\ live' = Zero
  /\ row' = IF row = "started" THEN "crashed" ELSE row
  /\ UNCHANGED <<file, counters, runs, disk, leaked>>

Working ==
  \/ InitRefused \/ InitFails \/ InsertRestoreJob \/ InsertManifest \/ ResumeRestoreJob \/ Load
  \/ LoopCancelled \/ LoopEnds \/ SkipMark \/ RestoreLocal \/ StartGet
  \/ GotResult \/ GetAbandoned \/ MarkDone \/ CountDone \/ MarkFailed \/ CountFailed
  \/ Record \/ Remove
  \/ \E i \in Items : SkipCount(i) \/ BeginItem(i)

Downloading == \E k \in 1 .. MaxRuns : GetCreate(k) \/ GetDone(k) \/ GetFails(k)

Next == Begin \/ Cancel \/ Working \/ Downloading \/ Crash

\* The goroutine of the job does not stand still; a download may, since nothing bounds
\* the time a store takes.
Spec == Init /\ [][Next]_vars /\ WF_vars(Working)

-----------------------------------------------------------------------------
(* Properties. *)

Done == {i \in Items : file[i] = "done"}

\* A file recorded as done, which no resume will look at again, is complete on disk,
\* whatever crashed or was cancelled before; only where a cancelled run left the download
\* of that very file behind may it have been emptied since (Do, restoreOne, Get).
DoneIsWhole == \A i \in Done \cap Files : disk[i].whole \/ i \in leaked

\* A restore recorded as finished has taken up every item of its manifest: none is left
\* pending or half done by an earlier run that crashed or was cancelled (Do, Resume).
FinishedComplete ==
  row = "finished" => \A i \in Items : file[i] \notin {"pending", "in_progress"}

\* The counter of restored items in the database counts every item done once, over all
\* runs; a crash between the two statements loses at most one (SetFileState, BumpCounter).
\* Between two items the counters in memory are those in the database: "so that watch
\* clients see a consistent total including the work done before the crash" (SeedCounter).
CountersTrack ==
  /\ counters.restored <= Cardinality(Done)
  /\ Cardinality(Done) <= counters.restored + crashes + (IF At("countDone") THEN 1 ELSE 0)
  /\ At("loop") => live = counters

\* A cancelled restore ends although its download never does (restoreOne: "so a cancel
\* request returns immediately").
CancelEnds == (~At("gone") /\ cancelled) ~> At("gone")

\* "Resume landed on an already-complete job. Treat as a no-op success." (Do): a restore
\* recorded as finished has restored something.
FinishedRestored == row = "finished" => Done # {}
=============================================================================
