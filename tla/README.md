# Cloudbackup: TLA+ models, checks and proofs

Cloudbackup is a daemon that backs files up to object stores and restores them,
with a web interface and a searchable documentation that it serves itself. This
directory holds TLA+ specifications of the daemon's concurrent core, of the web
interface and of the search, the TLC runs that check them on small instances, and
TLAPS proofs of the properties that matter most for every size of the instance. All paths below are relative to
`src/`.

## 1. Inventory

### The parts, their state and how they interact

| Part | Source | State | Operations | Status |
|---|---|---|---|---|
| Daemon process | `daemon/daemon.go`, `daemon/daemon_unix.go` | the process itself; configuration file | start-up (create databases, look for crashed jobs), SIGINT, SIGTERM | `Scheduler` |
| Scheduler | `scheduler/scheduler.go` | one goroutine, `eventProcessor`; a goroutine for each job | commands start, stop, resume; shutdown; `runBackup`, `cleanupAfterBackup`, `runRestore`, `runResume`, `cleanupAfterRestore` | `Scheduler` |
| Table of running jobs | `shared/structs_scheduler.go` | `Running`: name, id, type, state, context of each job; one lock | `IsRunning`, `IsStopping`, `MarkRunning`, `MarkRestoreRunning`, `MarkStopped`, `IsCancelled`, `GetCancelFunctionForJob`; counters | `JobsState`, abstract `JobSlots`; counters not modelled |
| Database access | `database/database.go`, `utils/lock.go`, `shared/structs_dbops.go` | map name -> (gate, counter of clients); the SQLite file | `OpenDb`, `DisconnectFromDb`, `CloseDb`, `UnlockDb`, `ValidateAndCreate`, `Start` | `DbEntry`, `DbAccess` |
| Jobs tables, recovery | `database/database.go`, `database/restore_db.go`, `database/dbops/` | a row for each job: started, finished, failed, cancelled, crashed | insert at the start, update at the end, correct at start-up | `Scheduler` |
| Restore | `restore/restore.go`, `database/dbops/restore_dbops.go` | per-target restore database: job row, manifest, file states, counters | `Do`, `Resume`, `FinalizeJobRecord` | life cycle in `Scheduler`, manifest and downloads in `RestoreJob` |
| Backup of items | `backup/backup.go`, `backup/preupload.go`, `backup/scan/scan.go` | tables `files`, `remote_files`, `backup_collections`, `failed_files` | examine, upload to every target, record, roll back, mark deleted | `BackupItem` (regular files); one step of `Scheduler` |
| Scheduler channels, cron | `httpd/api_rest_backup.go`, `httpd/api_rest_restore.go`, `scheduler/cron.go` | unbuffered channels for commands and responses, with timeouts | send, answer, give up; fire, reload; shutdown | `SchedulerComm` |
| Watcher | `watcher/watcher.go`, `shared/structs_watcher.go` | list of consumers, a buffered channel for each | add, remove, multiplex, stop | `Watcher` |
| Object stores | `objectstore/store_*.go`, `objectstore/common.go` | remote objects of three kinds of bucket | `Upload`, `MarkDeleted`, `Delete`, `Get` | `ObjectStore` |
| Encryption | `objectstore/encryption.go`, `cbcrypto/` | keystore sidecar | bootstrap of the keystore | not modelled |
| Configuration | `config/`, `httpd/api_rest_config.go` | the set of backup definitions | PUT config, PUT config/backup | the set of names in `Scheduler`, the reload in `SchedulerComm` |
| Reports | `httpd/api_rest_report.go` | none of its own | opens a database, queries, disconnects; lists in pages | a client of the databases; `ApiServer` |
| Web interface | `webstatic/ui/src/app.ts`, `webstatic/ui/src/api.ts` | connection, card of each definition, dialogs, requests under way | poll, start, stop, change the connection; reports, resume, new restore, watch | `WebApp`, `WebReports`, `WebRestoreStart`, `WebUi`, `WatchModal` |
| Documentation search | `webstatic/docs/search/` (`main.js`, `worker.js`, `lunr.js`) | documents, index, the text typed, the results shown | build the index, search, show | `SearchPage`, `LunrTokenSet`, `LunrQuery`, `LunrIndex`, `DocSearch` |
| Command line client | `client/`, `cliargs/` | none shared | one request for each call; watch | the watch command in `WatchModal` |
| Notifications | `notifications/` | none shared | run scripts, send mail | not modelled |

The interactions that make the daemon hard are these. A command is served by the
event loop, but the job it starts is a goroutine of its own, which removes itself
from the table at its end. The event loop and the jobs and the report handlers of
one backup name share one SQLite file; at the end of a backup the job closes the
database to everybody, waits for the clients that are connected, copies the file,
and opens it again. What survives the process is the row of each job. So a stop
command, the end of a job, a report, a second job of the same name, a signal, a
crash and a reload of the configuration can fall between any two steps of a
cleanup that has some fifteen of them.

Within a job, each changed file goes to all targets one after the other inside one
database transaction, but no transaction covers the stores. A step that fails, a
cancellation or a crash leaves objects the database does not know of, which the
code tries to take back; meanwhile the file itself changes on disk, and the next
job decides from the database alone what there is to do. A restore keeps its
manifest in a database of its own, statement by statement, so that a crash may fall
between a download, its record and its count, and a cancelled restore leaves a
download behind that may still be writing when the resume begins.

Commands and their results pass through unbuffered channels that several handlers
and the schedule share without a lock, every side with a timeout. What a job is
doing goes to its watchers through channels that overflow by design. And in the
browser nothing is ordered: polls overlap, answers overtake one another, the user
clicks on while a request is under way or changes the server.

### What makes each part correct

- table: one job for each name; a job finds its own entry, and no entry outlives
  its job (else the name is blocked until the daemon restarts);
- databases: the counter that is polled is the number of clients; the gate
  excludes; the file is copied while nobody uses it; nobody waits for ever;
- rows: "started" means that the job is running; an outcome is final; a cancelled
  backup is not recorded as finished, and only finished ones upload their database;
- items: every recorded version has its object; versions have no gaps; the tables
  agree; a job that runs undisturbed repairs what earlier ones left;
- process: every slot is released, every command is answered, a shutdown ends and
  leaves no row "started";
- channels: a client gets the result of its own command; the last configuration is
  the one that is scheduled; no timeout leaves anybody waiting;
- restores: what is recorded as done is whole on disk; a finished restore has left
  nothing out; the counters follow the states over crashes and resumes;
- watching: nothing is sent on a closed channel, no consumer is lost, what arrives
  is in order, and the end is told;
- web interface: what is shown becomes true, a command concerns the run the user
  saw, lists are complete, a listing belongs to its directory;
- search: an answer is what the query means, a document is found by its words, and
  the results shown belong to the latest text.

`PROJECT.json` lists the hazards at their lines with the properties that watch
them; those without a property have a note.

## 2. Modules

| Module | What it is |
|---|---|
| `DbEntry` | a gate and a wrapping counter: operators on an entry of `DbOpenAllowed` |
| `DbAccess` | the opening, leaving, closing and copying of ONE database, step by step, by jobs and report handlers |
| `MCDbAccess` | instances of `DbAccess` |
| `JobsState` | operators on the table of running jobs, one for each method |
| `JobSlots` | abstract specification: each name is a slot that is claimed, told to stop, released |
| `Scheduler` | the process, the event loop, the jobs, the rows, the databases and the reports together; EXTENDS `DbEntry` and `JobsState`, refines `JobSlots` |
| `MCScheduler` | instances of `Scheduler` |
| `SchedulerProofs` | theorems about `Scheduler`: types, the table, the refinement, rows, cancellations, exits, counters, copies |
| `ObjectStore` | operators on what a bucket of each kind holds, one for each method of a store |
| `BackupItem` | a sequence of jobs of one backup over its items, its tables and its targets; EXTENDS `ObjectStore` |
| `MCBackupItem` | instances of `BackupItem` |
| `BackupItemProofs` | theorems about `BackupItem` and the operators of `ObjectStore` |
| `SchedulerComm` | the channels between handlers, schedule, scheduler, cron manager and signal routine, with their timeouts |
| `RestoreJob` | one restore over its runs: row, manifest, counters, downloads |
| `Watcher` | the multiplexer, its consumers and their handlers |
| `WatchModal` | the dialog that reads a watch stream, composed with the server side: EXTENDS `Watcher` |
| `ApiServer` | operators: what the REST API answers to the web interface, and what its commands do |
| `WebApp` | the page with its card, poll, connection and commands; EXTENDS `ApiServer` |
| `WebReports` | the dialogs with reports, and resume; EXTENDS `WebApp` |
| `WebRestoreStart` | the dialog for a new restore, with its browser of files; EXTENDS `WebReports` |
| `WebUi` | page and dialogs together |
| `WebUiProofs` | theorems about `WebUi` |
| `LunrTokenSet` | operators: the automata of terms, their builder and their intersection |
| `LunrQuery` | operators: lexer and parser of a query |
| `LunrIndex` | operators: tokenizer, pipelines, index builder, vectors, and the query; EXTENDS the two |
| `SearchPage` | the search page and its worker; what the index answers is a parameter |
| `DocSearch` | the search with its index: EXTENDS `SearchPage` and `LunrIndex` |
| `DbAccessProofs`, `SchedulerCommProofs`, `RestoreJobProofs`, `WatcherProofs`, `SearchPageProofs` | theorems about the modules they are named after; `WatcherProofs` covers the dialogs of `WatchModal` too |
| `MCSchedulerComm`, `MCRestoreJob`, `MCWatch`, `MCWebUi`, `MCDocSearch` | instances |

### DbAccess

`entries` is the heap of `DbAccess` objects, `reg` the one the map points to (0:
none), `ref[p]` the one goroutine `p` looked up. Both matter because `OpenDb` and
`CloseDb` hold on to the pointer they read, whereas `DisconnectFromDb` and
`UnlockDb` look it up again. `file` is absent, bare (a file without tables) or
ready; `task` tells the opening that creates the tables from the one that uses
them. The gate is the one-slot channel of `utils/lock.go`, whose release is a
no-op when it is released.

| Action | Code |
|---|---|
| `Start`, `Report` | `database.Start` with `ValidateAndCreate`; `getDbAccess` |
| `OpenDbLookup`, `OpenDbGate`, `OpenDbTimeout`, `OpenDbFile` | `OpenDb` with an entry |
| `OpenDbFirst`, `OpenDbRegister` | `OpenDb` without one |
| `CreateDb` | `CreateDb` or `CreateRestoreDb`, and the decrement of the disconnect after it. When the statements fail the file stays, except that `CreateRestoreDb` tries to remove it (`AfterFailure`) |
| `Disconnect`, `CloseHandle` | `DisconnectFromDb`: decrement, then `db.Close` |
| `CloseDbLookup`, `CloseDbGate`, `CloseDbDrained`, `UnlockDb` | `CloseDb(.., false)`, the copy, `UnlockDb` |

`kind` is chosen from `Kinds`: the database of a backup that went through start-up
("backup", copied at the end of a job), of one that was added by PUT config/backup
and did not ("added": only PUT config calls `ValidateAndCreateDB`), or of a restore
("restore": opened for the first time by whoever comes first, and never copied).

### Scheduler

`running` is the table, `ctx` the ids whose context is cancelled, `job[j]` the
goroutine of id `j` (its place, type, name, connection, outcome and, for backups,
which cleanup it is in), `row[j]` its row, `db[n]` gate and counter of a name's
database, `sched` the event loop between two of its steps, `reader` the report
handlers, `leaving` the handles whose client is counted out and that are not closed
yet, `config` the configured names, `mode` the process.

Each method of the table holds one lock from its first to its last line and is
one step. A handler is cut where another goroutine can come in between: a stop
command is `StopCmd` (look up), `StopMark` and `StopCancel`; a start is
`StartCmd`, `ProbeOpen` (`GenerateJobUuid` opens the database, waiting for the
gate), `ProbeLeave` (it has looked for the id and disconnects) and `StartJob`
(`MarkRunning` and the goroutine), or `ProbeRefused`; `cleanupAfterBackup` is the
sequence `CleanupCheck` ... `CleanupLeave`. `DisconnectFromDb` is two steps for jobs,
reports and event loop alike: the client is counted out (`Leaves`), and some time later
its handle is closed (`CloseHandle`); whoever called it goes on after that (`Returned`).
A command that is refused leaves everything as it was and is a
stuttering step.

Four constants switch faults on: `DbFails` (a statement fails although the
database could be opened), `Notices` (`FindAndMarkDeleted` is the one to notice a
cancellation), `Reloads`, and `Exits` (the ways the process ends). The table is
proved and checked with all of them; the other invariants are checked without the
faults under which the code violates them, and section 4 says what happens with
them.

Abstractions, beyond the obvious ones on data:

- opening a database is one step, except for the wait for the gate (`DbAccess`
  takes it apart); every name has its entry from start-up;
- the databases of restores have no gate here: nobody closes them;
- ids are taken from a finite set and used once, so `GenerateJobUuid` finds a
  fresh one when there is one; the collision of random ids is not modelled;
- a resume names a restore that was started earlier, under its own name; other
  ids only fail, without touching anything;
- a backup's work on its files is one step with the outcomes the code
  distinguishes (`BackupWork`); so is a restore's;
- start-up is atomic: nothing else runs in the process yet.

### ObjectStore and BackupItem

`disk` has each item's content and metadata, numbered by the edits, or nothing;
`files`, `rows` (`remote_files`), `coll` (`backup_collections`) and `failed` are
the tables; `store[t]` the objects of a target. `cur` is the item in work with its
open transaction: which target is next, the rows to be committed, what was sent.

| Action | Code |
|---|---|
| `ScanAbsent`, `ScanUnseen`, `ScanAborts`, `ScanDone`, `CancelSeen` | `scan.Path`, `walk` and the loop over the paths in `runBackup` |
| `ExamineChanged`, `ExamineUnchanged`, `ExamineUnchangedPartly`, `ExamineFails` | `Do` with `needsUpload`, up to the first statement of the transaction |
| `Skip` (a reserved name or too large: `PreUploadSkips`), `Upload`, `UploadFails`, `UploadAnswerLost`, `UploadCancelled`, `UpdateMetadata`, `UpdateFails` | one round of the loop over the targets in `UploadAndUpdateDB` |
| `Mark`, `MarkFails` | one round of that loop in `markDeleted` |
| `StatementFails`, `Commit`, `CommitFails`, `Undo`, `UndoFails`, `RolledBack` | the end of both |
| `Query`, `QueryFails`, `MarkSkips`, `MarkBegins`, `MarkBeginFails`, `MarkDone` | `FindAndMarkDeleted` and the beginning of `markDeleted` |
| `Write`, `Chmod`, `Remove`, `Reconfigure`, `Cancel`, `Crash` | the surroundings |

Edits happen at any moment, also between the stat() of a file and its reading for
each target. `Reconfigure` changes what is included or excluded, between jobs. The
faults of `Faults` happen at most `MaxFaults` times in a behaviour. `skipped` and
`calm` are history: the items ever passed over for their size, and whether the job
has met neither a fault nor an edit. An upload whose context is cancelled ends with
nothing stored (`UploadCancelled`) or with the object in the store and no version known
(`UploadAnswerLost`, which is also the lost answer without a cancellation).

Abstractions: items are regular files, as directories and links take the same path
through the tables but put nothing in a store; each write makes a content that is
new, so that `needsUpload` is exact about contents (with the comparison of size and
mtime a change that keeps both is missed, which is what `checksum` is for); `Collected` entries are a set, so that a duplicate of one
does not show; the client libraries' own retries are part of one step; a `MarkDeleted`
that is carried out and whose answer is lost is left out.

`RowsRestorable`, `FilesTracked`, `Converges` and `RestoreFinds` leave out the
items that were ever skipped, for their size or their name; `UpToDateBackedUp` is about
those.

### SchedulerComm

`client[c]` is a handler or a firing schedule entry: where it is and whose result it
got; `sched` the event loop with the client whose command it has; `toSched` and
`toCron` count messages on a changed configuration; `entries` is the configuration
whose entries are registered. A send or receive on an unbuffered channel is one step
of two parties, and a timeout fires only when its channel is not ready.

| Action | Code |
|---|---|
| `Ask`, `SendTimeout`, `Listen`, `WaitTimeout` | the handlers of start, stop and resume (`handlerPostBackupStart` and its like) |
| `Ask`, `Abandon`, `Refreshed` | `fireBackup` and `refreshNextRuns` |
| `ReceiveCommand`, `Process`, `Respond`, `RespondTimeout`, `PassOn`, `Shutdown`, `Stopped`, `Reply` | `eventProcessor` |
| `ChangeConfig` | PUT config, up to the message |
| `CronTake`, `CronStopped`, `Rebuild`, `CronExit` | the cron manager: `run` and `rebuild` |
| `Signal` | `ProcessSignal` |

What a command does is one step here (`Process`) and is taken apart in `Scheduler`.
`dropped` is history: a result found nobody waiting for it within 5 seconds.

### RestoreJob

`row`, `file` and `counters` are the three tables of the restore database, `live` the
counters in memory, `run` the goroutine, `gets[k]` the download of run `k`, `disk`
what each file is on disk. One statement is one step, so that a crash falls between
any two; `Get` empties the local file (`GetCreate`) before it fills it (`GetDone`).
`leaked` is history: the files whose download outlived its run.

| Action | Code |
|---|---|
| `Begin`, `Cancel`, `InitRefused`, `InitFails` | the start, the stop and what fails before the loop |
| `InsertRestoreJob`, `InsertManifest`, `ResumeRestoreJob` | `initFreshRestoreJob`, `resumeRestoreJob` |
| `Load`, `Next1`, `LoopCancelled`, `LoopEnds` | the loop in `Do` |
| `SkipCount`, `SkipMark`, `BeginItem`, `MarkDone`, `CountDone`, `MarkFailed`, `CountFailed` | one round of it |
| `RestoreLocal`, `StartGet`, `GotResult`, `GetAbandoned` | `restoreOne` |
| `GetCreate`, `GetDone`, `GetFails` | the goroutine of the download |
| `Record`, `Remove`, `Crash` | `FinalizeJobRecord`, `cleanupAfterRestore`, the next start of the daemon |

Left out: which files a request selects, and failing statements of the restore
database, which the code only logs.

### Watcher and WatchModal

`main` is the channel of the multiplexer, `mux` the multiplexer with the message in
hand and the consumers it has yet to serve under the lock, `consumers` the slice,
`watch[w]` the handler of a request with its channel and the lines it wrote. A
message has the number of its item (`seq`), its place among all that the job sent (`at`,
which only the properties look at) and says whether it is partial, a success or a
failure. The job tells any number of these of an item, in any order (`Report`): progress
starts again for each target, there is a success for each, and an error may follow a
success. The rate limit of `clientSendAllowed` is that a partial message may be held
back at any time. `WatchModal` adds the dialog: the stream comes in chunks that may
end in the middle of a line, and the list keeps one event for an item. A line that is cut
at the end of the stream is handled like a whole one: it is no event, but the beginning of
the text that tells the end is enough.

| Action | Code |
|---|---|
| `Report`, `TellClientsJobFinished`, `CancelJob`, `RemoveJob` | the job: `IncrementCounter`, `SendMsgToWatcher`, its end |
| `MuxStart`, `MuxTake`, `MuxSend`, `MuxDrop`, `MuxRetry`, `Stop`, `MuxExit`, `TellClientsToExit` | `watcher.Start`, `sendMsgToClients` with the ring buffer, the shutdown |
| `Request`, `AddConsumer`, `Receive`, `Leave`, `RemoveConsumer`, `CloseChan` | the watch handlers |
| `OpenWatch`, `ReadChunk`, `StreamEnds`, `StreamFails`, `CloseWatch`, `ClearEvents` | `streamSseEvents` and the component `WatchModal` |
| `Attach`, `Interrupt` | `Watch` of the command line client |

How the list follows the scroll position is left out, and so is that the progress of a
script before the first item has the number 0 of a text; it is taken as an item.

### The web interface

A server is the sequence of its runs (`ApiServer`); `jobs` and `restores` are what
the card shows, with the server that reported it; `calls` the requests under way, each
with the connection it was made with, as the closures have it. A request is served
and answered in two steps, or fails at any moment; answers come in any order. An
effect of the component is one step after the change it depends on (`RunEffects`).
A file has a path and the type that was recorded with it. The restores of several
targets are sorted by the text of their start time (`api_rest_report.go:604`), which is
taken to be the order of their start; a definition has one target, so that a page counts
rows as the code does; paths are those of a POSIX system, where the root listing asks for
every path that begins with a separator. On Windows that finds nothing.

| Action | Code |
|---|---|
| `RunEffects`, `Tick`, `VersionAnswer`, `OnSaveConn`, `OnRefresh` | `App` with its effects, `ConnectionModal` |
| `OnStart`, `OnStop`, `OnStopRestore`, `CommandDone`, `CommandFailed`, `RefreshDone`, `RefreshFailed` | the handlers of the buttons, `refresh` |
| `ServeList`, `ServeRestores`, `ServeCommand`, `ServePage`, `ServeResume`, `ServeSubmit` | the requests of `api.ts` at the server |
| `OpenReports`, `PageDone`, `PageFailed`, `LoadMore`, `OpenDetail`, `DetailDone`, `DetailFailed`, `BackToList`, `CloseReports` | `ReportsModal`, `RestoreReportsModal` |
| `ConfigDone`, `ConfigFailed`, `PickTarget`, `OnResume`, `ResumeDone`, `ResumeFailed` | resume |
| `OpenRestoreStart`, `SourcesDone`, `SourcesFailed`, `SelectSource`, `ToggleAllFiles`, `EnterDir`, `GoUp`, `RefreshDir`, `ListDone`, `ListFailed`, `ToggleSelect`, `OnSubmit`, `SubmitDone`, `SubmitFailed`, `CloseRestoreStart` | `RestoreStartModal` |
| `RunEnds`, `OtherStart`, `OtherResume` | the server and its other clients |

One definition is shown. Once a dialog is open the page stands still (`OnPage`): its
polls go on in reality, but matter to a dialog only through a flag that may then have
any value. A dialog is opened from a page that is up to date, and one more event may
happen after that; both are bounds.

### The documentation search

Words are sequences of character codes, because the code compares them, recognises
digits and glues labels and numbers together. `LunrTokenSet` keeps the heap of
automaton nodes, numbered as the code numbers them; `LunrQuery` is the lexer's and
the parser's state machine; `LunrIndex` builds the index of a set of documents and
answers a query. `SearchPage` has the page, the worker and the two queues between
them: `InitWorker`, `OnJSONLoaded`, `OnScriptsLoaded`, `SearchMessage` (worker.js),
`Type` with `DoSearch`, `OnConfig`, `OnAllowSearch`, `OnResults` (main.js). It takes
the answers as a parameter, `Answer`; `DocSearch` builds the index of each site and
gives `Answer` its value (`SiteAnswer`).

The stemmer is a parameter; the weight of a term is the number of its occurrences,
which leaves out the order of the results and nothing else. What a text means is given
beside it (`Meaning`: words, presence, fields, wildcards, edits, weight), so that lexer
and parser are checked too. The reference definitions of `DocSearch` (`Words`, `Places`,
`Near`, `Glob`, `Meant`, `Hits`, `Expected`) say from the characters of the documents what
should be found, without tokenizer, pipelines, automata, vectors or state machines; they
share with the index the classes of characters, the stop words and the stemmer. `Near` edits from left to right, as `fromFuzzyString` is built: "ca" is two
edits from "abc" (exchange a and b, then delete b) but is not found by "abc~2", because
a character that was exchanged is not touched again.

## 3. Runs

All configurations of `DbAccess` and `Scheduler` use `Modulus = 8` for 2^32: it exceeds the number of clients
any instance can have, and one decrement below zero wraps as it does with 2^32.
Deadlock is checked in the runs of `DbAccess` and `Scheduler`; the behaviours of the
other modules stop when their bounds are used up, or when the daemon has ended.

| Run | Instance | States | Shows |
|---|---|---|---|
| `DbAccess` | 1 job, 2 reports, kinds backup and restore, `FairSpec` | 177 517 | the number of clients is exact, the database is copied only while no other client is counted, and every opener gets in or is told that it timed out |
| `Scheduler_faults` | 2 names, 2 jobs, every fault of a step | 1 178 141 | a name has at most one job in its table, a slot is held by exactly the job it names, and the scheduler implements `JobSlots` |
| `Scheduler_safety` | 2 names, 2 jobs, 1 report, SIGINT and crash | 509 928 | clients are counted, a copy has no other client, a started row belongs to a live job, and an exit in order leaves nothing running |
| `Scheduler_life` | 1 name, 2 jobs, 1 report, SIGINT, crash, reloads, `FairSpec` | 275 914 | a final row stays, a noticed cancellation is recorded, every command is answered and every slot is released |
| `SchedulerComm` | 1 backup and 1 restore request, 1 firing, channels of 1, 3 changes of the configuration | 568 550 | a client gets the result of its own command unless a response was dropped, the cron entries catch up with the configuration, and a signal ends the daemon |
| `BackupItem_safety` | 2 files and one with a reserved name, an S3 and an Azure target, 3 jobs, 3 edits, 2 faults, content 2 too large for S3 | 3 727 388 | recorded versions can be restored and are numbered without gaps, no file is lost from sight, and a job without a fault repairs what earlier ones left |
| `BackupItem_metadata` | 1 file, the same targets, 2 jobs, 2 edits, no faults | violation | see section 4 |
| `RestoreJob` | 1 file, 1 directory, 1 marker, 3 runs, 2 crashes | 797 294 | an item recorded as done is whole, a restore recorded as finished has no item left, the counters follow the items, and a cancelled restore ends |
| `RestoreJob_finished` | the same | violation | see section 4 |
| `Watch` | 1 dialog, 2 command line clients, 2 messages, channels of 1 | 909 068 | nothing is sent on a closed channel, the consumers of a job are exact, messages keep the order of their sending and none is told twice, the dialog's list is what arrived, a shutdown releases every handler and an end is shown |
| `WebUi` | 2 servers, 2 requests, pages of 2, 3 events, 4 clicks | 812 073 | pages joined together are the whole listing, a listing belongs to what is selected, a stop names the run on display, and a card converges to the state of its job |
| `DocSearch` | 100 sites, 30 texts, links with and without a term | 171 600 | the automaton of the index holds exactly its terms, a text that means something and no other is answered with what it means, a document is found by its words without a star, and what is shown belongs to the latest text |

Why these bounds. For items: two targets make "one succeeded, the next failed"
happen; three edits and three jobs allow a file to be backed up, changed or
removed with a fault in that job, and to be repaired by the next; two faults allow
the cleanup of a fault to fail too; two files make a page of two (`MaxResults`)
full and less than full.

A table, a gate or a counter is disturbed by a second party, so
two jobs suffice for every pairwise interleaving: two of one name (one in its last
step while the next runs, is stopped or copies), one of each name, a backup and a
restore, and a restore that is resumed any number of times. One report handler
adds a client that is neither a job nor the event loop; the gate itself is checked
with two of them and a job. A process may crash and start again any number of
times. Symmetry is used in safety runs only.

For the channels: two clients of the shared backup channels (a request and a firing)
can exchange their results, a restore has channels of its own, and three changes
overflow a channel of one. For restores: one item of each kind, since the items of
one kind are treated alike and each is met by every run; two resumes and two crashes
let a run repeat, undo or miscount what two earlier ones left. For watching: three
consumers make the removal from the middle of the slice happen, and with channels of
one every overflow happens at the second message. For the web interface: two servers,
two requests at a time, so that one overtakes the other, six runs in pages of two,
directories two deep. For the search: all pairs of ten documents that share
prefixes, suffixes, stop words, digits, separators and special characters, and a list of
30 texts with every operator, alone and combined, malformed ones included. The sites are
too small for two keys of automaton nodes to collide (`lunr.js:1660`).

Fairness. A goroutine that can go on does (weak fairness). At a gate strong
fairness is assumed: a Go channel keeps the goroutines that wait for it in a queue
and hands a value to the first of them, so that a waiter is not passed over again
and again (the comment of `utils/lock.go` is more pessimistic than the runtime).
In `SchedulerComm` a timeout is fair like any step: it fires in the end when nobody
comes. In `RestoreJob` the goroutine of the job goes on, its downloads need not: a
store may hang, and a cancelled restore must end all the same. In `Watcher` the
multiplexer and the handlers go on; in the browser a request is answered or fails,
and the interval fires. There is no fairness for
edits, new commands, signals, crashes, reloads, clicks or failures, and none that makes a job notice a cancellation. The work of a backup is assumed to
end: a step of it that never returns (an object store that hangs) is outside the model.

## 4. Where the code departs from what it says

Each of these runs must find a violation; `PROJECT.json` quotes the line that
promises otherwise.

| Run | What happens |
|---|---|
| `BackupItem_metadata` | after a change of the metadata only, `Get` of the Azure store (`store_azure_blob.go:315`) asks for a blob that was never uploaded: the file cannot be restored |
| `RestoreJob_finished` | a restore whose process dies, or that matches no file, between its row and its manifest is resumed: nothing is pending, and it is recorded as finished (`restore.go:177`) although nothing was restored |

Further departures are stated as properties of the modules, and no run lists them. TLC
finds each with a small change of a configuration:

- `CommandsServed` with `Notices = TRUE` (one name, two ids, `Exits = {"crash"}`,
  `FairSpec`): `scheduler.go:399-403` lacks a return, a job whose cancellation
  `FindAndMarkDeleted` notices cleans up twice, the second cleanup disconnects a
  client that is gone, the counter wraps, `CloseDb` keeps the gate for ever and the
  event loop blocks at the next start of that name. `httpd/api_rest_backup.go:126-128`
  says of a scheduler that does not answer "This is abnormal unless your system is
  starved of CPU resources".
- `RowsFinal` and `CancelHonoured` with `Notices = TRUE` (one name, one id, one report):
  when a report is connected the counter does not block the second cleanup, which uploads
  the database of the cancelled job and overwrites its row with "finished". The extra check
  of `scheduler.go:417` does not help, because the first cleanup removed the entry it
  looks for.
- `CopyClosed` of `Scheduler` (one name, one id, one report, no faults): a client is
  counted out (`database.go:198`) before its handle is closed (`database.go:201`), so the
  copy may begin while a handle is open, although `scheduler.go:493` says "this closes
  down the DB". What does hold is `CopyAlone`.
- `OnlyBackupsStopped` of `Scheduler` with `Exits = {"sigint"}`: `scheduler.go:95` says
  "TODO - add code to stop restores too (right now only backups are stopped)", but
  `stopAllBackups` cancels, and the shutdown waits for, every entry of the table, restores
  included. The comment is out of date; `CleanExit` says what the code does.
- `UpToDateBackedUp` of `BackupItem` with `Large = {2}` and no faults: a file skipped
  for its size is recorded in `files` all the same (`backup.go:245`), and counts as
  up to date from the next job on, with an older version or none in the collection.
- `JobEnds` of `BackupItem` with `FairSpec`, `MaxResults = 1` and the fault "unseen":
  items on disk that the scan could not see keep a page of `FindAndMarkDeleted` full,
  and it calls itself for ever (`backup.go:955`).
- `NoOrphans` of `BackupItem` with the fault "cancel": the cleanup after a cancelled
  upload uses the cancelled context (`backup.go:315`), and objects stay that no row
  names.
- `Converges` with `Kind <- GcpAndAzure` and the fault "upload": when a cleanup has
  deleted the live generation on GCP, a file removed from disk can never be marked
  deleted (`store_gcp_storage.go:280`).
- `OwnResult` of `SchedulerComm`: the mutex that `shared/structs_scheduler.go:44-46`
  wants locked is never locked. Once a response was dropped (`scheduler.go:130`) a
  client may take the result of another's command; nobody looks at the id in it.
- `AutoPicksMostRecent` of `WebRestoreStart` with `PageSize = 4`: the comment at
  `app.ts:970` says "most recent", but reports are listed in ascending order of
  their start (`dbops.go:143-144`), and the oldest finished run is picked.
- `CountExact` and `CopyExclusive` with `Kinds = {"added"}` (for `CountExact` without
  its guard): `database.go:179` overwrites the entry of a racing first open.
- `ClientsCounted` with `DbFails = TRUE`: a reopening after the copy that fails
  half-way (`scheduler.go:503-506` and `563`) is disconnected twice, although
  `scheduler.go:505` says "This operation is safe even if it did not succeed opening".
  `RowsFinal` with it: `restore.go:375` and `382` refuse a resume without asking for the record to be
  preserved, and a finished restore becomes failed.
- `StartedRowsAreLive` with `Reloads = TRUE` and two names: after a crash, start-up
  recovery looks only at the configured names.
- `FoundWhenEscaped` of `DocSearch`: `lunr.js:1896` says that special characters can be
  escaped, but `parseTerm` (`lunr.js:3331`) cannot tell an escaped star from a wildcard
  and does not send the word through the pipeline, so that a word with a star is not
  found when its stem is another one.

And these were seen while modelling, or are steps of the models that no property
forbids.

Daemon. On SIGTERM (`daemon_unix.go:58-64`) the process exits without waiting for
the jobs or for the scheduler's reply. A
report on a database that does not exist leaves a file without tables, which `Start`
takes for a complete one (`database.go:350`). `cron.go:24-26` says that only one
goroutine uses the cron object, but `refreshNextRuns` reads it from the goroutine of
a firing entry. A target that is added to a definition later does not receive
unchanged items (`backup.go:600`). `FileExists` dereferences a nil pointer when
`Lstat` fails for another reason than a missing file.

Restores. Skipped items are taken up, and counted, again by every resume. A resume
with nothing but delete markers left ends as failed. A finished restore with failed
items cannot be resumed. A download left behind by a cancelled run may empty a file
that the resume has already recorded as done (`DoneIsWhole` allows exactly that). A
crash between `SetFileState` and `BumpCounter` loses a count.

Watching. The message that the job has ended is dropped when the channel is full and
is missed by a consumer that registers after it; the dialog then waits until it is
closed or the daemon shuts down. The text at shutdown is not one that the dialog
recognises, which says "stream ended".

Web interface. A late answer, of an earlier poll or the earlier server, may overwrite
newer cards until the next poll, and a failing refresh leaves them. A report that
arrives late is shown after Back, or instead of the one clicked last, with the resume
bar of the other. Pages are read by offset, so that a resume by another client
between two pages repeats or skips an entry. The selection survives a change of the
source. Entering two directories quickly makes Up lead elsewhere. A listing uses the
first page only, and a failed one leaves the entries of the directory before. A late
`onStarted` or `onResumed` closes a dialog that was opened since.

Search. A text that does not parse gets no answer, and the results of the text before
stay. An answer that arrives after the field was cleared is shown. The search
pipeline has no trimmer, so that "foo," does not find "foo". A text of separators
only returns every document. "a - b" prohibits b. A text typed before the worker is
ready is not searched for.

## 5. Proofs

All theorems hold for any finite sets of names, ids, reports, clients, items or
watchers and for any bounds. `PROJECT.json` lists them with the properties of the runs
they state.

### The table of running jobs (`SchedulerProofs`)

With every fault switched on (assumptions: `SchedulerAssumption`,
`ModulusAssumption`):

- `TypeCorrect`: `Spec => []TypeOK`. `TypeOK` is inductive as it stands because it
  contains the links between a place and the fields that are set there (`JobOK`,
  `SchedOK`).
- `JobsExclusive` and `EntriesOwned`: `Spec => []OneJobPerName`, `Spec =>
  []SlotsOwned`. Neither is inductive alone. `MarkStopped` drops every entry of a
  name, so the claim that a job still finds its entry needs that a name has one
  entry only; a name has one entry only because `MarkRunning` refuses it otherwise
  and because a second cleanup, which acts for a job that no longer has an entry,
  finds none by its id. The inductive invariant `SlotInv` is their conjunction with
  `RepeatsCleanup`: only a job in its cleanup is in a second pass. The proof goes by
  what a step does to table and goroutines: nothing (`IdleSlots`), a move within
  the claim (`MoveKeepsSlots`), a claim (`StartTakesSlot`), a marking
  (`StoppingKeepsSlots`, `StepKeepsSlots`), a removal (`EndFreesSlot`), or the end
  of the process.
- `SlotsImplemented`: `Spec => ImplementsSlots`, the refinement of `JobSlots`
  under the mapping of each name to its entry (`SlotOf`): `ClaimStep`,
  `StoppingStep`, `ReleaseStep`, and `NextRefines`, on top of the invariants.

### Rows, counters and copies (`SchedulerProofs`)

These assume the faults off under which section 4 shows the code to violate them, and
no others:

| Theorem | States | Assumes |
|---|---|---|
| `CancelsAreHonoured` | `CancelHonoured` | `~Notices` |
| `OutcomesAreFinal` | `RowsFinal` | `~Notices`, `~DbFails` |
| `EveryClientCounted`, `CopiesAreAlone` | `ClientsCounted`, `CopyAlone` | `~Notices`, `~DbFails` |
| `StartedRowsHaveJobs`, `ExitsAreClean` | `StartedRowsAreLive`, `CleanExit` | `~Notices`, `~DbFails`, `~Reloads` |

- The effect of each step on a goroutine and its row is stated once, field by field
  (`BackupEffect`, `RestoreEffect`, `OtherEffect`); the invariants use these and no
  longer the actions.
- `Rows` says which rows a job can have at each place, `Connections` that a goroutine
  is connected where it believes to be, `Records` that the row is written where it has
  to be and that a restore runs only for a row it may run for. With `TypeOK`, `SlotInv`
  and `Down` (nothing runs in a process that ended) they are `RecordInv`, and `RowsFinal` is
  a consequence of one step from it.
- `CancelHonoured` is of the form `[](P => []Q)`; `Doomed(j)` is what `P` starts and
  every step keeps: the context of `j` stays cancelled until the check, which then sets
  the outcome to "cancelled".
- `Live` adds to `RecordInv` that, while the process is up, no "started" row belongs to
  a goroutine that is gone, about to be resumed or past its record, and that an exit on
  SIGINT leaves none.
- For the counters, `Users`, `ReadersOf` and `Probing` are changed by one element at a
  time (cardinality of a finite set with one element more or less), and the modulus
  exceeds the number of all clients, so nothing wraps. `Gates` says that whoever waits
  for the clients of its database to leave, or copies it, has closed the gate: it needs
  `SlotsOwned`, because a second job of the name would open it. `OwnClosed` says that its
  own handle is closed. `CopyAlone` follows: at the copy the counter was zero, and nobody
  passes the gate. It speaks of clients; handles of others that are counted out may still
  be open (`CopyClosed`, section 4).

### One database (`DbAccessProofs`)

The invariant is `TypeOK`, `EntryOK` (a database known at start-up has one entry and
everybody uses it), `GateOK` (who holds the gate of an entry has closed it, and is
alone), `CountExact` and `CopyOK`. `ClientsAreCounted` proves `CountExact` without a
further assumption. `CopiesAreExclusive` and `GatesAreExclusive` assume `"added" \notin
Kinds`: for a database that did not go through start-up two first openers install an
entry each, and the second replaces the first (`database.go:179`, section 4).

### Channels (`SchedulerCommProofs`)

`ResultsReachTheirClients`: `OwnResultUnlessDropped` with `OneAnswerOutstanding`, that
whoever waits for a result is the one whose command the scheduler has.
`NoReloadLost`: `ReloadUnderWay`, the invariant behind the liveness property
`ReloadConverges`: entries that lag behind the configuration always have a message or
a rebuild ahead of them, although messages are thrown away when the channel is full.

### Restores (`RestoreJobProofs`)

The invariant has a part for each relation between two pieces of state: `LoopOK` (the
items the loop has before it are in the manifest and not done), `RowOK` (which row goes
with which place), `GetsOK` (a download is the one the run waits for or one of a file
recorded as left behind), `DiskOK` (a download that succeeded left its file whole, unless
one left behind emptied it since), `LeftOK` (what is pending or in progress is in hand or
still to do, and nothing is when the row says finished), `LiveOK` (memory against
database) and `NumOK` (counter against states, with a loss of at most one for a crash).
`DoneFilesAreWhole`, `FinishedMeansNoneLeft` and `CountersAreRight` follow for any number
of items, runs and crashes.

### Watching (`WatcherProofs`)

The invariant is `TypeOK`, `SliceOK` (the slice holds the registered handlers, each
once, with open channels), `TodoOK` (those yet to be served are among them) and
`OrderOK` (what was written comes before what is in the channel of a consumer, that
before what is in the channel of the multiplexer, and that before what the job says
next). The order is that of sending, and with it of the items, whatever the job says of
an item and however often. `NeverSendsOnClosed`, `SliceIsExact` and `ToldInOrder` hold for any number of
watchers and messages and for channels of any size, hence also where the ring buffer
discards.

`ListIsExact` (`ListExact`) is about the dialog. `DialogsOK` says of a dialog that streams
that it has read no more pieces than were written, that it keeps half a line exactly when
their number is odd (`HalfRead`), and that its list is right for the whole lines before
(`ListOK`: some function `at` leads from the events to the last words of the items,
`LastWords`, upwards and without a gap). A text leaves the last words alone; a message takes
the place of the one before on the same item, however many there are (`WordsNext`), and since lines are in the order
of the items (`OrderOK`) that one is the last event of the list or not in it (`ShowReplaces`,
`ShowAppends`). A chunk is a number of such pieces (`PieceStep`, `ChunkRead`). That needs
induction on their number, which `Least` and `Induction` get from the well-foundedness of
`<` on the naturals: what a recursive function such as the one in `Decode` computes is
derived from its defining equation (`AfterExists`, `DecodeIs`).

### The backup of items (`BackupItemProofs`)

From `BackupAssumption` and `NoneAssumption` only, for any number of items, targets, jobs,
edits and faults of any kind, and for every mix of S3, Azure and GCP targets:

- `VersionsAreDense` (`VersionsDense`) and `TablesAgree` (`FilesTracked`). They need
  `PendingOK`: the open transaction has one row at most for each target that its loop has
  passed, exactly one unless the item was skipped, and each has the number that
  `calcRemoteFileVersion` would give now. A commit therefore adds at most one row for an
  item and a target, with the next number. `WorkOK` says that what is being updated or
  marked still has its row in `files`.
- `VersionsCanBeRestored` (`RowsRestorable`). `ContentOK` says of each row that its object
  is in the store with a content not older than the one examined and not newer than the
  disk (`Holds`), and that no identifier given out later is that of the row (`Taken`: on
  Azure because versions are dense, on S3 and GCP because the store counts). `SentOK` is
  why the cleanup is harmless: what it has on its list is named by no row. A metadata
  update names the object of the newest row, which `FilesTracked` and the uniqueness of
  versions (`OneRow`) show to be the one with the content in `files`.
- `BackupsConverge` (`Converges`), without a GCP target: section 4 has the violation with
  one. While a job is calm, `ScanOK` says where the scan is, `KeptOK` that whatever it has
  passed is recorded and collected for every target, and `StaleOK` that what is neither on
  disk nor wanted is not in the collection and is found by the query, because a batch that
  is not full is everything there is. `Holds` then makes the stored content exactly that
  of the disk.

The steps are sorted once by what they do (`Steps`, `StoreSteps`, `CalmSteps`), and the
invariants use these effects and no longer the actions.

### The web interface (`WebUiProofs`)

From `PageAssumption` and `WebAppAssumption` (the files are finitely many, their paths
sequences of numbers, and the servers' histories sequences of runs), for any number of
servers, runs, requests, clicks and files:

- `BrowserShowsItsDirectory` (`ListingIsCurrent`). `Follows` says of the last request under
  way that it is for the current directory of the chosen run or late, and of the entries,
  when nothing is under way, that they are that directory's or that the last answer came
  late. Every step either leaves that alone, appends a request (`LoadDirFollows`,
  `FromRootFollows`), or answers one and marks those before it late (`AnswerFollows`). That
  the filter of `loadDir` at the roots is right on a first page is `EntriesAreHeld`: a page
  in the order of `local_path` has with a path also its parent (`PageHasParents`).
- `CommandsStopWhatTheyName` (`StopsNamedRun`). `CommandInv` says that a request to stop
  names a run and a server, because the button is there only while an active run is shown,
  and what is shown as active has both. A server accepts the request only when the run is
  its own (`RunStopped`), and no other step makes a run stopping.
- `PagesFitTogether` (`PagesExact`). `PagesOK` says of the rows of a report that they are
  the first of its set in the order of the listing (`Rank`), and of the token, also of
  one in a page that was served and has not arrived, that it continues them, as long as
  `disturbed` is not set. It holds although the servers go on while the dialog is open
  (`ServerStep`): as long as only the last run of a server may be active
  (`OnlyLastActive`), a run that ends adds its report behind the ones that are listed
  (`GrownOver`), so offsets keep their meaning. A resumed restore is active among
  earlier runs, and that is what sets `disturbed`.

### The documentation search (`SearchPageProofs`)

From `SearchPageAssumption`, for any site, any texts and whatever the index answers:
`LatestIsShown` (`LatestShown`). Until the page listens nothing is asked (`Started`); from
then on (`Running`) the worker is ready, only texts travel one way and only answers the
other, and `Follows` says where the latest text is: it is the last one the worker has to
answer, or its answer is the last one the page has to show, or it is shown.

### What stays with TLC

- Liveness under fairness, and with it `OpenersServed`, `CommandsServed`,
  `SlotsAreReleased`, `ReloadConverges`, `SignalEndsDaemon`, `CancelEnds`,
  `ShutdownReleases`, `EndShown` and `CardConverges`.
- What the index and the query language of the search compute: `AnswersRight`,
  `TokenSetExact` and `FoundByItsWords`. The automata, lexer and parser are recursive
  operators, about which the provers cannot reason.

`TypeOK` and `GateExclusive` of `DbAccess` and `TypeOK` of `BackupItem` are stated for
proofs; no run lists them.

## 6. Not modelled, and the plan

Not modelled: the formats of ciphers and of the keystore sidecar (data; its bootstrap
is one conditional upload for each target), notifications (scripts and mail after a
job, which change no state of the daemon), the command line client but for its watch
command (each call is one request), the SDKs of the object stores
with their retries, layout, formatting and scrolling of the web interface, the
stemmer and the ranking of the search, which files a restore request selects, and
next-run times. In the backup of items, directories and links, scripts, the dry run
and the upload of the database copy are left out, as is a change of the list of
targets between two jobs. In restores, the failing statements of `MarkDone`, `CountDone`
and `Load`, which the code logs and passes over. In watching, the message that a second
cleanup (section 4) sends after the end.

What is left, in this order:

1. `BackupItem`: a change of the list of targets, paths that change their type.
2. `RestoreJob`: failing statements.
