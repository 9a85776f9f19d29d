----------------------------- MODULE Scheduler ------------------------------
(***************************************************************************)
(* The daemon's scheduler with the jobs it runs (scheduler/scheduler.go),  *)
(* from the start of the process to its exit and its next start            *)
(* (daemon/daemon.go, daemon/daemon_unix.go).                              *)
(*                                                                         *)
(* One goroutine, eventProcessor, serves commands one at a time.  A start  *)
(* command makes an entry in the table of running jobs (JobsState) and a   *)
(* goroutine, runBackup or runRestore, that goes on by itself and removes  *)
(* the entry at its end.  Jobs, the scheduler and the HTTP report handlers *)
(* share one database per backup name, guarded by a gate and a counter of  *)
(* clients (DbEntry; the opening of a database is one step here and is     *)
(* taken apart in DbAccess).  What survives the process is the jobs table  *)
(* of each database: one row for each job, with its state.                 *)
(***************************************************************************)
EXTENDS DbEntry, JobsState, FiniteSets

CONSTANTS
  Names,     \* names of backup definitions
  Ids,       \* job ids; the number of jobs a behaviour may start
  Readers,   \* HTTP report handlers
  DbFails,   \* a statement may fail although its database could be opened
  Notices,   \* FindAndMarkDeleted() may be the one to notice a cancellation
  Reloads,   \* the configuration may be changed through the REST API
  Exits      \* how the process may end: "sigint", "sigterm", "crash"

ASSUME SchedulerAssumption ==
  /\ IsFiniteSet(Ids) /\ IsFiniteSet(Readers)
  /\ Empty \notin Names /\ Empty \notin Ids /\ Ids \cap Readers = {}
  /\ DbFails \in BOOLEAN /\ Notices \in BOOLEAN /\ Reloads \in BOOLEAN
  /\ Exits \subseteq {"sigint", "sigterm", "crash"}
  /\ Cardinality(Ids) + Cardinality(Readers) + 1 < Modulus

VARIABLES
  running,  \* the table of running jobs
  ctx,      \* ids whose context is cancelled
  job,      \* the goroutine of each id
  row,      \* the row of each id in the jobs table of its database
  db,       \* the gate and the counter of each database
  sched,    \* what the scheduler's goroutine is doing
  reader,   \* the database each report handler has open
  leaving,  \* the handles of clients that are counted out and not yet closed
  config,   \* the names defined in the configuration
  mode      \* "up", "closing", or how the process that is now down ended

vars == <<running, ctx, job, row, db, sched, reader, leaving, config, mode>>

BackupPCs == {"launched", "prepare", "work", "markdel", "check", "post", "record", "detach",
              "shut", "drain", "copy", "reopen", "finish", "remove", "leave"}

RestorePCs == {"rLaunched", "rInit", "rWork", "rRecord", "rRemove"}

SlotPCs == (BackupPCs \ {"leave"}) \cup RestorePCs

PCs == {"gone"} \cup BackupPCs \cup RestorePCs

Outcomes == {"finished", "cancelled", "failed"}

RowStates == {"none", "started", "crashed"} \cup Outcomes

Conns == {"none", "open", "stale"}

Passes == {"once", "first", "second"}

Job == [pc : {"unused"} \cup PCs,
        type : JobTypes,
        name : Names \cup {Empty},
        conn : Conns,
        outcome : Outcomes \cup {"unrecorded"},
        pass : Passes]

Sched == [pc : {"idle", "probe", "probed", "mark", "stopMark", "stopCancel", "waiting"},
          type : JobTypes,
          name : Names \cup {Empty},
          id : Ids \cup {Empty},
          target : Ids \cup {Empty}]

\* Who may have a database open: jobs, reports, and the scheduler (Empty).
Clients == Ids \cup Readers \cup {Empty}

JobOK(g) ==
  /\ g.pc # "unused" => g.name # Empty
  /\ g.outcome = "unrecorded" => g.pc \in {"rRecord", "rRemove"}

SchedOK ==
  /\ sched.pc \in {"probe", "probed", "mark", "stopMark", "stopCancel"} => sched.name # Empty
  /\ sched.pc \in {"stopMark", "stopCancel"} => sched.target # Empty

TypeOK ==
  /\ running \subseteq [type : JobTypes, name : Names, id : Ids, state : {"running", "stopping"}]
  /\ ctx \subseteq Ids
  /\ job \in [Ids -> Job] /\ \A j \in Ids : JobOK(job[j])
  /\ row \in [Ids -> RowStates]
  /\ db \in [Names -> Entry]
  /\ sched \in Sched /\ SchedOK
  /\ reader \in [Readers -> Names \cup {Empty}]
  /\ leaving \subseteq [who : Clients, name : Names]
  /\ config \subseteq Names
  /\ mode \in {"up", "closing", "sigint", "sigterm", "crash"}

-----------------------------------------------------------------------------
(* The process.                                                            *)

Unused == [pc |-> "unused", type |-> "backup", name |-> Empty,
           conn |-> "none", outcome |-> "finished", pass |-> "once"]

Idle == [pc |-> "idle", type |-> "backup", name |-> Empty, id |-> Empty, target |-> Empty]

\* What is left of a goroutine: the columns type and name of its row.
Gone(g) == [Unused EXCEPT !.pc = "gone", !.type = g.type, !.name = g.name]

Init ==
  /\ running = {}
  /\ ctx = {}
  /\ job = [j \in Ids |-> Unused]
  /\ row = [j \in Ids |-> "none"]
  /\ db = [n \in Names |-> IdleEntry]
  /\ sched = Idle
  /\ reader = [r \in Readers |-> Empty]
  /\ leaving = {}
  /\ config = Names
  /\ mode = "up"

Up == mode \in {"up", "closing"}

\* The process ends: only rows, and the configuration file, survive.
ProcessEnds(how) ==
  /\ mode' = how
  /\ running' = {}
  /\ ctx' = {}
  /\ job' = [j \in Ids |-> IF job[j].pc = "unused" THEN Unused ELSE Gone(job[j])]
  /\ db' = [n \in Names |-> IdleEntry]
  /\ sched' = Idle
  /\ reader' = [r \in Readers |-> Empty]
  /\ leaving' = {}
  /\ UNCHANGED <<row, config>>

Crash == "crash" \in Exits /\ Up /\ ProcessEnds("crash")

\* ProcessSignal(): on SIGTERM the process exits as soon as the scheduler's
\* goroutine has taken the message from the Shutdown channel ...
Sigterm == "sigterm" \in Exits /\ mode = "up" /\ sched.pc = "idle" /\ ProcessEnds("sigterm")

\* ... and on SIGINT it waits for the scheduler.  stopAllBackups() cancels
\* the jobs, backups and restores alike, that are still configured ...
StopAll ==
  /\ "sigint" \in Exits
  /\ mode = "up" /\ sched.pc = "idle"
  /\ mode' = "closing"
  /\ ctx' = ctx \cup {e.id : e \in {x \in running : x.name \in config}}
  /\ sched' = [sched EXCEPT !.pc = "waiting"]
  /\ UNCHANGED <<running, job, row, db, reader, leaving, config>>

\* Mutated form: restores are not waited for.
AllStopped_Backups ==
  /\ sched.pc = "waiting"
  /\ \A e \in running : e.type # "backup"
  /\ ProcessEnds("sigint")

\* ... and waitForAllBackupToBeStopped() polls the table until it is empty.
AllStopped ==
  /\ sched.pc = "waiting"
  /\ running = {}
  /\ ProcessEnds("sigint")

\* Mutated form: restores that were running are not looked for.
Boot_Backups ==
  /\ ~Up
  /\ mode' = "up"
  /\ row' = [j \in Ids |-> IF row[j] = "started" /\ job[j].name \in config
                              /\ job[j].type = "backup"
                           THEN "crashed" ELSE row[j]]
  /\ UNCHANGED <<running, ctx, job, db, sched, reader, leaving, config>>

\* Start-up: CheckForCrashedJobs() and CheckForCrashedRestoreJobs() look into
\* the databases of the configured names for rows nobody finished.
Boot ==
  /\ ~Up
  /\ mode' = "up"
  /\ row' = [j \in Ids |-> IF row[j] = "started" /\ job[j].name \in config
                           THEN "crashed" ELSE row[j]]
  /\ UNCHANGED <<running, ctx, job, db, sched, reader, leaving, config>>

\* PUT config: the set of defined backups changes while the daemon runs.
PutConfig ==
  /\ Reloads /\ mode = "up"
  /\ \E c \in SUBSET Names : config' = c
  /\ UNCHANGED <<running, ctx, job, row, db, sched, reader, leaving, mode>>

-----------------------------------------------------------------------------
(* DisconnectFromDb() counts the client out and then closes its handle,    *)
(* which may take its time; the goroutine goes on when it has returned.    *)

\* The handle of c on the database of n is counted out and not yet closed.
Leaves(c, n) == leaving' = leaving \cup {[who |-> c, name |-> n]}

Returned(c) == \A h \in leaving : h.who # c

CloseHandle(c) ==
  /\ \E h \in leaving : h.who = c
  /\ leaving' = {h \in leaving : h.who # c}
  /\ UNCHANGED <<running, ctx, job, row, db, sched, reader, config, mode>>

-----------------------------------------------------------------------------
(* Commands.  The scheduler serves one and returns to its select.          *)

\* The goroutine of j goes on, or comes into being, as g.
Becomes(j, g) == job' = [job EXCEPT ![j] = g]

\* Mutated form: a new id is not compared with those in use.
Fresh_Any == Ids

\* The ids GenerateJobUuid() may return: in no table, whatever it holds.
Fresh == {j \in Ids : job[j].pc = "unused"}

\* "start" of a backup or of a restore: GenerateJobUuid() first ...
StartCmd(t, n) ==
  /\ mode = "up" /\ sched.pc = "idle"
  /\ Fresh # {}
  /\ sched' = [sched EXCEPT !.pc = "probe", !.type = t, !.name = n]
  /\ UNCHANGED <<running, ctx, job, row, db, reader, leaving, config, mode>>

\* ... opens the database of that name, waiting for its gate, ...
ProbeOpen ==
  /\ sched.pc = "probe"
  /\ db[sched.name].free
  /\ db' = [db EXCEPT ![sched.name] = AddClient(@)]
  /\ sched' = [sched EXCEPT !.pc = "probed"]
  /\ UNCHANGED <<running, ctx, job, row, reader, leaving, config, mode>>

\* Mutated form: the connection made to look for the id is not closed.
ProbeLeave_Connected ==
  /\ sched.pc = "probed"
  /\ sched' = [sched EXCEPT !.pc = "mark"]
  /\ UNCHANGED <<running, ctx, job, row, db, reader, leaving, config, mode>>

\* ... looks for the id, and disconnects.
ProbeLeave ==
  /\ sched.pc = "probed"
  /\ db' = [db EXCEPT ![sched.name] = DropClient(@)]
  /\ Leaves(Empty, sched.name)
  /\ sched' = [sched EXCEPT !.pc = "mark"]
  /\ UNCHANGED <<running, ctx, job, row, reader, config, mode>>

\* The command is refused when the database could not be opened, or when the
\* statement that looks for the id failed.
ProbeRefused ==
  /\ sched.pc = "probe" \/ (DbFails /\ sched.pc = "mark" /\ Returned(Empty))
  /\ sched' = Idle
  /\ UNCHANGED <<running, ctx, job, row, db, reader, leaving, config, mode>>

\* Otherwise MarkRunning() or MarkRestoreRunning() refuses a name that has an
\* entry, or the goroutine of the job is launched.
StartJob ==
  /\ sched.pc = "mark" /\ Returned(Empty)
  /\ sched' = Idle
  /\ IF CanMarkRunning(running, sched.name)
     THEN \E j \in Fresh :
            /\ running' = MarkRunning(running, sched.type, sched.name, j)
            /\ Becomes(j, [Unused EXCEPT !.pc = IF sched.type = "backup" THEN "launched"
                                                                        ELSE "rLaunched",
                                         !.type = sched.type, !.name = sched.name])
     ELSE UNCHANGED <<running, job>>
  /\ UNCHANGED <<ctx, row, db, reader, leaving, config, mode>>

\* "resume" of a restore: its id gets an entry, with a new context, again.
ResumeCmd(j) ==
  /\ mode = "up" /\ sched.pc = "idle"
  /\ job[j].pc = "gone" /\ job[j].type = "restore"
  /\ CanMarkRunning(running, job[j].name)
  /\ running' = MarkRunning(running, "restore", job[j].name, j)
  /\ Becomes(j, [job[j] EXCEPT !.pc = "rLaunched"])
  /\ ctx' = ctx \ {j}
  /\ UNCHANGED <<row, db, sched, reader, leaving, config, mode>>

\* "stop", with an id or without one: refused when nothing matches or the
\* match is stopping already; otherwise the context to cancel is looked up,
StopCmd(n, i) ==
  /\ mode = "up" /\ sched.pc = "idle"
  /\ IsRunning(running, n, i) /\ ~IsStopping(running, n, i)
  /\ sched' = [sched EXCEPT !.pc = "stopMark", !.name = n, !.id = i,
                            !.target = CancelTarget(running, n, i)]
  /\ UNCHANGED <<running, ctx, job, row, db, reader, leaving, config, mode>>

\* the entry is marked as stopping, unless it is gone by now,
StopMark ==
  /\ sched.pc = "stopMark"
  /\ running' = MarkStopped(running, sched.name, sched.id, FALSE)
  /\ sched' = IF IsRunning(running, sched.name, sched.id)
              THEN [sched EXCEPT !.pc = "stopCancel"] ELSE Idle
  /\ UNCHANGED <<ctx, job, row, db, reader, leaving, config, mode>>

\* and the context is cancelled.
StopCancel ==
  /\ sched.pc = "stopCancel"
  /\ ctx' = ctx \cup {sched.target}
  /\ sched' = Idle
  /\ UNCHANGED <<running, job, row, db, reader, leaving, config, mode>>

-----------------------------------------------------------------------------
(* A backup job: runBackup() and cleanupAfterBackup().                     *)

\* The definition of the backup is looked up and then the job's context: a
\* job whose entry is not in the table leaves without cleaning up.
BackupStart(j) ==
  /\ job[j].pc = "launched"
  /\ \/ Becomes(j, IF IsRunning(running, job[j].name, j)
                   THEN [job[j] EXCEPT !.pc = "prepare"] ELSE Gone(job[j]))
     \/ Becomes(j, [job[j] EXCEPT !.pc = "check", !.outcome = "failed"])
  /\ UNCHANGED <<running, ctx, row, db, sched, reader, leaving, config, mode>>

\* PrepareDb() cannot open the database.
BackupRefused(j) ==
  /\ job[j].pc = "prepare"
  /\ Becomes(j, [job[j] EXCEPT !.pc = "check", !.outcome = "failed"])
  /\ UNCHANGED <<running, ctx, row, db, sched, reader, leaving, config, mode>>

\* PrepareDb() for a new run: open, then insert the row; the statements on
\* the way to it may fail.
BackupPrepareDb(j) ==
  /\ job[j].pc = "prepare"
  /\ db[job[j].name].free
  /\ db' = [db EXCEPT ![job[j].name] = AddClient(@)]
  /\ \/ /\ Becomes(j, [job[j] EXCEPT !.pc = "work", !.conn = "open"])
        /\ row' = [row EXCEPT ![j] = "started"]
     \/ /\ Becomes(j, [job[j] EXCEPT !.pc = "check", !.conn = "open", !.outcome = "failed"])
        /\ UNCHANGED row
  /\ UNCHANGED <<running, ctx, sched, reader, leaving, config, mode>>

\* Object stores, keystores and the script before the run; then every path is
\* scanned.  A cancellation is noticed between two items, so not always.
BackupWork(j) ==
  /\ job[j].pc = "work"
  /\ \/ Becomes(j, [job[j] EXCEPT !.pc = "markdel"])
     \/ Becomes(j, [job[j] EXCEPT !.pc = "check", !.outcome = "failed"])
     \/ j \in ctx /\ Becomes(j, [job[j] EXCEPT !.pc = "check", !.outcome = "cancelled"])
  /\ UNCHANGED <<running, ctx, row, db, sched, reader, leaving, config, mode>>

\* FindAndMarkDeleted().  When it reports a cancellation the job cleans up
\* and, for want of a return statement, then cleans up once again.
BackupMarkDeleted(j) ==
  /\ job[j].pc = "markdel"
  /\ \/ Becomes(j, [job[j] EXCEPT !.pc = "check"])
     \/ /\ Notices /\ j \in ctx
        /\ Becomes(j, [job[j] EXCEPT !.pc = "check", !.outcome = "cancelled", !.pass = "first"])
  /\ UNCHANGED <<running, ctx, row, db, sched, reader, leaving, config, mode>>

\* Mutated form: without the second look at the context.
CleanupCheck_Trusting(j) ==
  /\ job[j].pc = "check"
  /\ Becomes(j, [job[j] EXCEPT !.pc = "post"])
  /\ UNCHANGED <<running, ctx, row, db, sched, reader, leaving, config, mode>>

\* cleanupAfterBackup(): a cancellation nobody noticed is looked up, as long
\* as the job has its entry.  The script after the run follows.
CleanupCheck(j) ==
  /\ job[j].pc = "check" /\ Returned(j)
  /\ Becomes(j, [job[j] EXCEPT !.pc = "post",
                               !.outcome = IF /\ @ = "finished" /\ j \in ctx
                                              /\ IsRunning(running, job[j].name, j)
                                           THEN "cancelled" ELSE @])
  /\ UNCHANGED <<running, ctx, row, db, sched, reader, leaving, config, mode>>

CleanupStopping(j) ==
  /\ job[j].pc = "post"
  /\ Becomes(j, [job[j] EXCEPT !.pc = "record"])
  /\ running' = MarkStopped(running, job[j].name, j, FALSE)
  /\ UNCHANGED <<ctx, row, db, sched, reader, leaving, config, mode>>

\* UpdateJobDetails(), through a usable handle and for an existing row.
RowAfter(j) ==
  IF job[j].conn = "open" /\ row[j] # "none" THEN job[j].outcome ELSE row[j]

Recorded(j) ==
  \/ row' = [row EXCEPT ![j] = RowAfter(j)]
  \/ DbFails /\ UNCHANGED row

\* Only a job that finished goes on to upload a copy of its database.
CleanupRecord(j) ==
  /\ job[j].pc = "record"
  /\ Recorded(j)
  /\ Becomes(j, [job[j] EXCEPT !.pc = IF job[j].outcome = "finished" THEN "detach" ELSE "finish"])
  /\ UNCHANGED <<running, ctx, db, sched, reader, leaving, config, mode>>

\* CloseStatementsAndDisconnectFromDb(): whatever became of the handle, a job
\* that believes to be connected is counted out; a closed handle stays closed.
Disconnected(j) ==
  IF job[j].conn = "none" THEN db ELSE [db EXCEPT ![job[j].name] = DropClient(@)]

Disconnect(j) ==
  /\ db' = Disconnected(j)
  /\ IF job[j].conn = "open" THEN Leaves(j, job[j].name) ELSE UNCHANGED leaving

CleanupDetach(j) ==
  /\ job[j].pc = "detach"
  /\ Disconnect(j)
  /\ Becomes(j, [job[j] EXCEPT !.pc = "shut", !.conn = "none"])
  /\ UNCHANGED <<running, ctx, row, sched, reader, config, mode>>

\* CloseDb(): take the gate ...
CleanupShut(j) ==
  /\ job[j].pc = "shut" /\ Returned(j)
  /\ db[job[j].name].free
  /\ db' = [db EXCEPT ![job[j].name] = GetLock(@)]
  /\ Becomes(j, [job[j] EXCEPT !.pc = "drain"])
  /\ UNCHANGED <<running, ctx, row, sched, reader, leaving, config, mode>>

\* Mutated form: the clients are not waited for.
CleanupDrained_AtOnce(j) ==
  /\ job[j].pc = "drain"
  /\ Becomes(j, [job[j] EXCEPT !.pc = "copy"])
  /\ UNCHANGED <<running, ctx, row, db, sched, reader, leaving, config, mode>>

\* ... and wait for the clients.
CleanupDrained(j) ==
  /\ job[j].pc = "drain"
  /\ db[job[j].name].clients = 0
  /\ Becomes(j, [job[j] EXCEPT !.pc = "copy"])
  /\ UNCHANGED <<running, ctx, row, db, sched, reader, leaving, config, mode>>

\* Mutated form: the gate stays closed.
CleanupUnlock_Locked(j) ==
  /\ job[j].pc = "copy"
  /\ Becomes(j, [job[j] EXCEPT !.pc = "reopen"])
  /\ UNCHANGED <<running, ctx, row, db, sched, reader, leaving, config, mode>>

\* UploadBackupDatabase() is over, well or not; UnlockDb().
CleanupUnlock(j) ==
  /\ job[j].pc = "copy"
  /\ db' = [db EXCEPT ![job[j].name] = ReleaseLock(@)]
  /\ Becomes(j, [job[j] EXCEPT !.pc = "reopen"])
  /\ UNCHANGED <<running, ctx, row, sched, reader, leaving, config, mode>>

\* PrepareDb() once more, without a new row.  If a statement fails after the
\* opening, the job disconnects here and still believes to be connected.
CleanupReopen(j) ==
  /\ job[j].pc = "reopen"
  /\ \/ /\ db[job[j].name].free
        /\ db' = [db EXCEPT ![job[j].name] = AddClient(@)]
        /\ Becomes(j, [job[j] EXCEPT !.pc = "finish", !.conn = "open"])
        /\ UNCHANGED leaving
     \/ /\ DbFails
        /\ db[job[j].name].free
        /\ Becomes(j, [job[j] EXCEPT !.pc = "finish", !.conn = "stale"])
        /\ Leaves(j, job[j].name)
        /\ UNCHANGED db
  /\ UNCHANGED <<running, ctx, row, sched, reader, config, mode>>

CleanupReopenRefused(j) ==
  /\ job[j].pc = "reopen"
  /\ Becomes(j, [job[j] EXCEPT !.pc = "finish"])
  /\ UNCHANGED <<running, ctx, row, db, sched, reader, leaving, config, mode>>

\* The job's own context is released, if the entry is there to find it ...
CleanupFinish(j) ==
  /\ job[j].pc = "finish" /\ Returned(j)
  /\ ctx' = IF IsRunning(running, job[j].name, j) THEN ctx \cup {j} ELSE ctx
  /\ Becomes(j, [job[j] EXCEPT !.pc = "remove"])
  /\ UNCHANGED <<running, row, db, sched, reader, leaving, config, mode>>

\* Mutated form: the entry stays.
CleanupRemove_Kept(j) ==
  /\ job[j].pc = "remove"
  /\ Becomes(j, [job[j] EXCEPT !.pc = "leave"])
  /\ UNCHANGED <<running, ctx, row, db, sched, reader, leaving, config, mode>>

\* ... notifications are sent, and the entry is removed.
CleanupRemove(j) ==
  /\ job[j].pc = "remove"
  /\ running' = MarkStopped(running, job[j].name, j, TRUE)
  /\ Becomes(j, [job[j] EXCEPT !.pc = "leave"])
  /\ UNCHANGED <<ctx, row, db, sched, reader, leaving, config, mode>>

\* The row is written once more and the database left.
CleanupLeave(j) ==
  /\ job[j].pc = "leave"
  /\ Recorded(j)
  /\ Disconnect(j)
  /\ Becomes(j, IF job[j].pass = "first"
                THEN [job[j] EXCEPT !.pc = "check", !.outcome = "finished", !.pass = "second",
                                    !.conn = IF @ = "none" THEN @ ELSE "stale"]
                ELSE Gone(job[j]))
  /\ UNCHANGED <<running, ctx, sched, reader, config, mode>>

BackupJob(j) ==
  \/ BackupStart(j) \/ BackupRefused(j) \/ BackupPrepareDb(j)
  \/ BackupWork(j) \/ BackupMarkDeleted(j)
  \/ CleanupCheck(j) \/ CleanupStopping(j) \/ CleanupRecord(j)
  \/ CleanupDetach(j) \/ CleanupShut(j) \/ CleanupDrained(j) \/ CleanupUnlock(j)
  \/ CleanupReopen(j) \/ CleanupReopenRefused(j) \/ CleanupFinish(j) \/ CleanupRemove(j) \/ CleanupLeave(j)

-----------------------------------------------------------------------------
(* A restore job: runRestore() or runResume(), cleanupAfterRestore().  The *)
(* row is in a database of the restore's own, which nobody ever closes.    *)

Resumable == {"cancelled", "failed", "crashed"}

\* Mutated form: the state of the row is not looked at.
CanRestore_Any(j) == TRUE

\* Resume() refuses a restore whose row is not in a resumable state.
CanRestore(j) == row[j] \in {"none"} \cup Resumable

\* Resume() of a restore that is not resumable, or any error before the
\* target is known: the row is left alone.
RestoreRefused(j) ==
  /\ job[j].pc = "rLaunched"
  /\ Becomes(j, [job[j] EXCEPT !.pc = "rRecord", !.outcome = "unrecorded"])
  /\ UNCHANGED <<running, ctx, row, db, sched, reader, leaving, config, mode>>

\* An error before the backup's database is open: in Do() for a restore that
\* may run, or in Resume() before the state of the row has been looked at.
RestoreFailed(j) ==
  /\ job[j].pc = "rLaunched"
  /\ CanRestore(j) \/ DbFails
  /\ Becomes(j, [job[j] EXCEPT !.pc = "rRecord", !.outcome = "failed"])
  /\ UNCHANGED <<running, ctx, row, db, sched, reader, leaving, config, mode>>

\* Do(): open the database of the backup.
RestoreOpenDb(j) ==
  /\ job[j].pc = "rLaunched"
  /\ CanRestore(j)
  /\ db[job[j].name].free
  /\ db' = [db EXCEPT ![job[j].name] = AddClient(@)]
  /\ Becomes(j, [job[j] EXCEPT !.pc = "rInit", !.conn = "open"])
  /\ UNCHANGED <<running, ctx, row, sched, reader, leaving, config, mode>>

\* initFreshRestoreJob() inserts the row, resumeRestoreJob() flips its state.
RestoreInit(j) ==
  /\ job[j].pc = "rInit"
  /\ row' = [row EXCEPT ![j] = "started"]
  /\ Becomes(j, [job[j] EXCEPT !.pc = "rWork"])
  /\ UNCHANGED <<running, ctx, db, sched, reader, leaving, config, mode>>

\* The return from Do(), on an error before or after the row is written or
\* with the files restored; the database is left.  A restore that has nothing
\* left to do is finished even when it has been cancelled.
RestoreEnd(j) ==
  /\ job[j].pc \in {"rInit", "rWork"}
  /\ \/ Becomes(j, [job[j] EXCEPT !.pc = "rRecord", !.conn = "none", !.outcome = "failed"])
     \/ /\ job[j].pc = "rWork"
        /\ Becomes(j, [job[j] EXCEPT !.pc = "rRecord", !.conn = "none", !.outcome = "finished"])
     \/ /\ job[j].pc = "rWork" /\ j \in ctx
        /\ Becomes(j, [job[j] EXCEPT !.pc = "rRecord", !.conn = "none", !.outcome = "cancelled"])
  /\ db' = [db EXCEPT ![job[j].name] = DropClient(@)]
  /\ Leaves(j, job[j].name)
  /\ UNCHANGED <<running, ctx, row, sched, reader, config, mode>>

\* FinalizeJobRecord(), unless the record is to be preserved.
RestoreRecord(j) ==
  /\ job[j].pc = "rRecord" /\ Returned(j)
  /\ \/ row' = IF job[j].outcome = "unrecorded" \/ row[j] = "none" THEN row
               ELSE [row EXCEPT ![j] = job[j].outcome]
     \/ DbFails /\ UNCHANGED row
  /\ Becomes(j, [job[j] EXCEPT !.pc = "rRemove"])
  /\ UNCHANGED <<running, ctx, db, sched, reader, leaving, config, mode>>

\* The context is released and the entry removed.
RestoreRemove(j) ==
  /\ job[j].pc = "rRemove"
  /\ ctx' = IF IsRunning(running, job[j].name, j) THEN ctx \cup {j} ELSE ctx
  /\ running' = MarkStopped(running, job[j].name, j, TRUE)
  /\ Becomes(j, Gone(job[j]))
  /\ UNCHANGED <<row, db, sched, reader, leaving, config, mode>>

RestoreJob(j) ==
  \/ RestoreRefused(j) \/ RestoreFailed(j) \/ RestoreOpenDb(j) \/ RestoreInit(j)
  \/ RestoreEnd(j) \/ RestoreRecord(j) \/ RestoreRemove(j)

-----------------------------------------------------------------------------
(* Report handlers: getDbAccess() and its deferred disconnect.             *)

ReaderOpen(r, n) ==
  /\ mode = "up" /\ reader[r] = Empty /\ Returned(r)
  /\ db[n].free
  /\ db' = [db EXCEPT ![n] = AddClient(@)]
  /\ reader' = [reader EXCEPT ![r] = n]
  /\ UNCHANGED <<running, ctx, job, row, sched, leaving, config, mode>>

ReaderClose(r) ==
  /\ reader[r] # Empty
  /\ db' = [db EXCEPT ![reader[r]] = DropClient(@)]
  /\ Leaves(r, reader[r])
  /\ reader' = [reader EXCEPT ![r] = Empty]
  /\ UNCHANGED <<running, ctx, job, row, sched, config, mode>>

-----------------------------------------------------------------------------
Command ==
  \/ \E t \in JobTypes, n \in Names : StartCmd(t, n)
  \/ \E j \in Ids : ResumeCmd(j)
  \/ \E n \in Names, i \in Ids \cup {Empty} : StopCmd(n, i)

Serve ==
  ProbeOpen \/ ProbeLeave \/ ProbeRefused \/ StartJob \/ StopMark \/ StopCancel

Process == Crash \/ Sigterm \/ StopAll \/ AllStopped \/ Boot \/ PutConfig

Next ==
  \/ Process \/ Command \/ Serve
  \/ \E j \in Ids : BackupJob(j) \/ RestoreJob(j)
  \/ \E r \in Readers : ReaderClose(r) \/ \E n \in Names : ReaderOpen(r, n)
  \/ \E c \in Clients : CloseHandle(c)

Spec == Init /\ [][Next]_vars

(***************************************************************************)
(* Fairness: a goroutine that can go on does.  Strong fairness where it    *)
(* waits for a gate, as in DbAccess: the runtime serves the goroutines     *)
(* that wait for a lock in their order.  No fairness for new commands, for *)
(* signals, crashes and reloads, nor for the ways an opening can fail.     *)
(***************************************************************************)
WaitsForGate(j) ==
  BackupPrepareDb(j) \/ CleanupShut(j) \/ CleanupReopen(j) \/ RestoreOpenDb(j)

GoesOn(j) ==
  \/ BackupStart(j) \/ BackupWork(j) \/ BackupMarkDeleted(j)
  \/ CleanupCheck(j) \/ CleanupStopping(j) \/ CleanupRecord(j)
  \/ CleanupDetach(j) \/ CleanupDrained(j) \/ CleanupUnlock(j)
  \/ CleanupFinish(j) \/ CleanupRemove(j) \/ CleanupLeave(j)
  \/ RestoreRefused(j) /\ ~CanRestore(j)
  \/ RestoreInit(j) \/ RestoreEnd(j) \/ RestoreRecord(j) \/ RestoreRemove(j)

Fairness ==
  /\ \A j \in Ids : WF_vars(GoesOn(j)) /\ SF_vars(WaitsForGate(j))
  /\ WF_vars(ProbeLeave \/ StartJob \/ StopMark \/ StopCancel \/ AllStopped)
  /\ SF_vars(ProbeOpen)
  /\ \A r \in Readers : WF_vars(ReaderClose(r))
  /\ \A c \in Clients : WF_vars(CloseHandle(c))

FairSpec == Spec /\ Fairness

-----------------------------------------------------------------------------
(* The abstract specification: a slot per name, claimed and released.      *)

EntryOf(n) == CHOOSE e \in running : e.name = n

SlotOf(n) ==
  IF IsRunning(running, n, Empty)
  THEN [id |-> EntryOf(n).id, state |-> EntryOf(n).state]
  ELSE [id |-> Empty, state |-> "free"]

Slots == INSTANCE JobSlots WITH slot <- [n \in Names |-> SlotOf(n)]

\* Each name is a slot that one job at a time claims, may be told to stop in,
\* and releases; only the end of the process clears slots otherwise.
ImplementsSlots == Slots!Spec

\* And every slot that is claimed is free again later, whatever the job waits for.
SlotsAreReleased == Slots!FairSpec

-----------------------------------------------------------------------------
(* Properties.                                                             *)

\* The goroutine of j has not yet removed its entry from the table.
Holds(g) == g.pc \in SlotPCs /\ g.pass # "second"

HoldsSlot(j) == Holds(job[j])

\* A name has at most one entry in the table, whoever starts, stops, resumes
\* and finishes: the "CRITICAL assumption" of IncrementCounter() and of the
\* other methods that find a job by its name.
OneJobPerName ==
  \A e, f \in running : e.name = f.name => e = f

\* Goroutines and entries belong together.  A job that is under way finds its
\* entry (GetContextForJob() in runBackup() never fails, IsCancelled() looks
\* at the job's own context), and no entry is left without a goroutine that
\* will remove it, which would block its name until the daemon restarts.
SlotsOwned ==
  /\ \A j \in Ids : HoldsSlot(j) => IsRunning(running, job[j].name, j)
  /\ \A e \in running : HoldsSlot(e.id) /\ job[e.id].name = e.name

Users(n) == {j \in Ids : job[j].conn = "open" /\ job[j].name = n}
ReadersOf(n) == {r \in Readers : reader[r] = n}
Probing(n) == sched.pc = "probed" /\ sched.name = n

\* The counter CloseDb() polls is the number of connected clients, as long as
\* no statement fails and no job cleans up twice (~DbFails, ~Notices).  With
\* failing statements the code violates it (README, section 4).
ClientsCounted ==
  \A n \in Names :
    db[n].clients = Cardinality(Users(n)) + Cardinality(ReadersOf(n)) + (IF Probing(n) THEN 1 ELSE 0)

\* While a job copies its database it has closed its own handle, and nobody is
\* a client who could still run a statement: no other job (an earlier one of the
\* same name may be in its last step), no report, no command.  A handle of
\* theirs that is counted out may still be open, see CopyClosed.
CopyAlone ==
  \A j \in Ids : job[j].pc = "copy" =>
    /\ Returned(j)
    /\ Users(job[j].name) = {} /\ ReadersOf(job[j].name) = {} /\ ~Probing(job[j].name)

\* "this closes down the DB but keeps a lock" (scheduler.go:493): while a job
\* copies its database, no handle to it is open any more, not even of a client
\* that is counted out.  The code violates it: DisconnectFromDb() counts the
\* client out first and closes its handle then.
CopyClosed ==
  \A j \in Ids : job[j].pc = "copy" => \A h \in leaving : h.name # job[j].name

\* A row that says "started" is the row of a job that is running and has yet
\* to record its outcome: after a crash the next start corrects it.
StartedRowsAreLive ==
  Up => \A j \in Ids : row[j] = "started" =>
          job[j].pc \in {"work", "markdel", "check", "post", "record", "rWork", "rRecord"}

\* The process that leaves on SIGINT leaves no row behind that says "started",
\* of a backup or of a restore: it waits for both.
CleanExit ==
  mode = "sigint" => \A j \in Ids : row[j] # "started"

\* "right now only backups are stopped" (scheduler.go:95): the shutdown cancels
\* no restore.  The code violates it, stopAllBackups() cancels every entry.
OnlyBackupsStopped ==
  [][ mode = "up" /\ mode' = "closing" =>
        \A j \in ctx' \ ctx : job[j].type = "backup" ]_vars

\* A recorded outcome is final: no later step of the job, no resume and no
\* restart changes it, except that a restore which did not finish may be run
\* again.  This is for jobs that clean up once and statements that succeed
\* (~Notices, ~DbFails): a second cleanup does change it.
RowsFinal ==
  [][\A j \in Ids : row[j] \in Outcomes \cup {"crashed"} /\ row'[j] # row[j] =>
       job[j].type = "restore" /\ row[j] \in Resumable]_vars

\* A backup that is cancelled before its cleanup has looked (scheduler.go:418)
\* is never recorded as finished, whether its scan notices or nobody does.  The
\* step after the scan is the exception (Notices): when FindAndMarkDeleted()
\* notices, the second cleanup may record "finished".
CancelHonoured ==
  \A j \in Ids :
    []( j \in ctx /\ job[j].pc \in {"launched", "prepare", "work", "markdel", "check"}
          => [](row[j] # "finished") )

\* Every command is answered: the scheduler returns to its select (~Notices;
\* with a second cleanup it may wait for a gate for ever).
CommandsServed ==
  sched.pc \in {"probe", "probed", "mark", "stopMark", "stopCancel"} ~> sched.pc = "idle"

=============================================================================
