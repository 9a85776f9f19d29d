--------------------------- MODULE SchedulerComm ----------------------------
(***************************************************************************)
(* How commands reach the scheduler and how their results come back        *)
(* (shared/structs_scheduler.go: CommWithSchedulerForBackup and            *)
(* CommWithSchedulerForRestore; the handlers in httpd/; fireBackup and the *)
(* reload in scheduler/cron.go; eventProcessor in scheduler/scheduler.go;  *)
(* daemon/daemon_unix.go).  The channels have no buffers and nobody locks  *)
(* their mutex: whoever waits for a result takes the next one.  A timeout  *)
(* fires when its channel is not ready.  What a command does is in         *)
(* Scheduler.                                                              *)
(***************************************************************************)
EXTENDS Integers, FiniteSets

CONSTANTS
  BackupClients,   \* requests to start or stop a backup
  RestoreClients,  \* requests to start, stop or resume a restore
  Firings,         \* schedule entries that fire
  CronSize,        \* capacity of the channel to the cron manager
  MaxChanges       \* bound on changes of the configuration

ASSUME SchedulerCommAssumption == CronSize \in Nat \ {0} /\ MaxChanges \in Nat

Clients == BackupClients \cup RestoreClients \cup Firings

VARIABLES
  client,   \* each client: where it is, and whose result it got
  sched,    \* the scheduler: where it is, and the client whose command it has
  daemon,   \* the routine that waits for signals
  config,   \* the number of the present configuration
  toSched,  \* messages on a changed configuration, to the scheduler
  toCron,   \* and from there to the cron manager
  cron,     \* the cron manager
  entries,  \* the configuration whose entries are registered
  dropped   \* history: a result found nobody waiting

vars == <<client, sched, daemon, config, toSched, toCron, cron, entries, dropped>>

None == "none"

Init ==
  /\ client = [c \in Clients |-> [pc |-> "idle", result |-> None]]
  /\ sched = [pc |-> "select", of |-> None]
  /\ daemon = "wait"
  /\ config = 1
  /\ toSched = 0 /\ toCron = 0
  /\ cron = "writing" /\ entries = 0
  /\ dropped = FALSE

\* The backup and the restore commands have channels of their own.
Same(c, d) == c \in RestoreClients <=> d \in RestoreClients

\* The context of the cron manager is cancelled when the scheduler shuts down.
CtxDone == sched.pc \in {"stopping", "ready", "exited"}

Goes(c, pc) == client' = [client EXCEPT ![c].pc = pc]

-----------------------------------------------------------------------------
(* The clients. *)

\* A handler sends its command; the HTTP server takes no requests once it is stopped.
\* An entry fires while the entries are active.
Ask(c) ==
  /\ client[c].pc = "idle"
  /\ IF c \in Firings THEN cron = "idle" /\ ~CtxDone ELSE daemon = "wait"
  /\ Goes(c, "sending")
  /\ UNCHANGED <<sched, daemon, config, toSched, toCron, cron, entries, dropped>>

\* Mutated form: the client goes on to wait for a result.
SendTimeoutWaits(c) ==
  /\ client[c].pc = "sending" /\ sched.pc # "select"
  /\ Goes(c, "waiting")
  /\ UNCHANGED <<sched, daemon, config, toSched, toCron, cron, entries, dropped>>

\* Nobody has taken the command for 5 seconds.
SendTimeout(c) ==
  /\ client[c].pc = "sending" /\ sched.pc # "select"
  /\ Goes(c, "done")
  /\ UNCHANGED <<sched, daemon, config, toSched, toCron, cron, entries, dropped>>

\* Between the two selects the routine may be delayed as long as it pleases the machine.
Listen(c) ==
  /\ client[c].pc = "sent"
  /\ Goes(c, "waiting")
  /\ UNCHANGED <<sched, daemon, config, toSched, toCron, cron, entries, dropped>>

Offered(c) == sched.pc = "responding" /\ Same(c, sched.of)

\* No result has come for 20 seconds.
WaitTimeout(c) ==
  /\ client[c].pc = "waiting" /\ ~Offered(c)
  /\ Goes(c, "done")
  /\ UNCHANGED <<sched, daemon, config, toSched, toCron, cron, entries, dropped>>

\* fireBackup() also gives up when the context is cancelled.
Abandon(c) ==
  /\ c \in Firings /\ client[c].pc \in {"sending", "waiting"} /\ CtxDone
  /\ Goes(c, "done")
  /\ UNCHANGED <<sched, daemon, config, toSched, toCron, cron, entries, dropped>>

\* refreshNextRuns() after a scheduled start: the firing reads what rebuild() writes.
Refreshed(c) ==
  /\ client[c].pc = "refreshing"
  /\ Goes(c, "done")
  /\ UNCHANGED <<sched, daemon, config, toSched, toCron, cron, entries, dropped>>

-----------------------------------------------------------------------------
(* The scheduler: eventProcessor(). *)

ReceiveCommand(c) ==
  /\ sched.pc = "select" /\ client[c].pc = "sending"
  /\ sched' = [pc |-> "processing", of |-> c]
  /\ Goes(c, "sent")
  /\ UNCHANGED <<daemon, config, toSched, toCron, cron, entries, dropped>>

\* processBackupCommand() and processRestoreCommand() return before the select that
\* sends their result, and its timer, begin.
Process ==
  /\ sched.pc = "processing"
  /\ sched' = [sched EXCEPT !.pc = "responding"]
  /\ UNCHANGED <<client, daemon, config, toSched, toCron, cron, entries, dropped>>

Ready == [pc |-> "select", of |-> None]

\* The result goes to any client that waits; a scheduled start that succeeded goes on.
Respond(c) ==
  /\ client[c].pc = "waiting" /\ Offered(c)
  /\ sched' = Ready
  /\ \E pc \in {"done"} \cup (IF c \in Firings THEN {"refreshing"} ELSE {}) :
       client' = [client EXCEPT ![c] = [pc |-> pc, result |-> sched.of]]
  /\ UNCHANGED <<daemon, config, toSched, toCron, cron, entries, dropped>>

\* The result is dropped when nobody has waited for it for 5 seconds.
RespondTimeout ==
  /\ sched.pc = "responding" /\ ~\E c \in Clients : client[c].pc = "waiting" /\ Offered(c)
  /\ sched' = Ready
  /\ dropped' = TRUE
  /\ UNCHANGED <<client, daemon, config, toSched, toCron, cron, entries>>

\* A changed configuration is passed on, unless the channel is full.
PassOn ==
  /\ sched.pc = "select" /\ toSched > 0
  /\ toSched' = toSched - 1
  /\ toCron' = IF toCron < CronSize THEN toCron + 1 ELSE toCron
  /\ UNCHANGED <<client, sched, daemon, config, cron, entries, dropped>>

\* Shutdown: cancelCron() and stopAllBackups().
Shutdown ==
  /\ sched.pc = "select" /\ daemon \in {"int", "term"}
  /\ sched' = [pc |-> "stopping", of |-> None]
  /\ daemon' = IF daemon = "int" THEN "waiting" ELSE "exited"
  /\ UNCHANGED <<client, config, toSched, toCron, cron, entries, dropped>>

\* Mutated form: the scheduler returns without its reply.
StoppedSilent ==
  /\ sched.pc = "stopping"
  /\ sched' = [sched EXCEPT !.pc = "exited"]
  /\ UNCHANGED <<client, daemon, config, toSched, toCron, cron, entries, dropped>>

\* The backups have stopped (Scheduler) and the reply is offered.
Stopped ==
  /\ sched.pc = "stopping"
  /\ sched' = [sched EXCEPT !.pc = "ready"]
  /\ UNCHANGED <<client, daemon, config, toSched, toCron, cron, entries, dropped>>

Reply ==
  /\ sched.pc = "ready" /\ daemon = "waiting"
  /\ sched' = [sched EXCEPT !.pc = "exited"]
  /\ daemon' = "exited"
  /\ UNCHANGED <<client, config, toSched, toCron, cron, entries, dropped>>

-----------------------------------------------------------------------------
(* The daemon and the configuration. *)

\* PUT /config saves the configuration, then WaitForEvent() passes the message on.
ChangeConfig ==
  /\ daemon = "wait" /\ config <= MaxChanges
  /\ config' = config + 1
  /\ toSched' = toSched + 1
  /\ UNCHANGED <<client, sched, daemon, toCron, cron, entries, dropped>>

\* ProcessSignal(): SIGINT waits for the reply of the scheduler, SIGTERM does not.
Signal(s) ==
  /\ daemon = "wait"
  /\ daemon' = s
  /\ UNCHANGED <<client, sched, config, toSched, toCron, cron, entries, dropped>>

-----------------------------------------------------------------------------
(* The cron manager. *)

\* A message of a change: the entries are stopped.
CronTake ==
  /\ cron = "idle" /\ toCron > 0
  /\ toCron' = toCron - 1
  /\ cron' = "waiting"
  /\ UNCHANGED <<client, sched, daemon, config, toSched, entries, dropped>>

Firing == {c \in Firings : client[c].pc \notin {"idle", "done"}}

\* Mutated form: the reload is given up when a firing takes longer than 2 seconds.
CronStoppedGivesUp ==
  /\ cron = "waiting"
  /\ cron' = IF Firing = {} THEN "writing" ELSE "idle"
  /\ UNCHANGED <<client, sched, daemon, config, toSched, toCron, entries, dropped>>

\* The firings under way have ended, or 2 seconds are over.
CronStopped ==
  /\ cron = "waiting"
  /\ cron' = "writing"
  /\ UNCHANGED <<client, sched, daemon, config, toSched, toCron, entries, dropped>>

\* rebuild() registers the entries of the present configuration.
Rebuild ==
  /\ cron = "writing"
  /\ cron' = "idle"
  /\ entries' = config
  /\ UNCHANGED <<client, sched, daemon, config, toSched, toCron, dropped>>

CronExit ==
  /\ cron = "idle" /\ CtxDone
  /\ cron' = "exited"
  /\ UNCHANGED <<client, sched, daemon, config, toSched, toCron, entries, dropped>>

Scheduling ==
  \/ \E c \in Clients : ReceiveCommand(c) \/ Respond(c)
  \/ Process \/ RespondTimeout \/ PassOn \/ Shutdown \/ Stopped \/ Reply

Managing == CronTake \/ CronStopped \/ Rebuild \/ CronExit

Waits(c) == SendTimeout(c) \/ Listen(c) \/ WaitTimeout(c) \/ Abandon(c) \/ Refreshed(c)

\* Nothing happens once the process has exited.
Next ==
  /\ daemon # "exited"
  /\ \/ Scheduling \/ Managing \/ ChangeConfig
     \/ \E s \in {"int", "term"} : Signal(s)
     \/ \E c \in Clients : Ask(c) \/ Waits(c)

\* The routines of the daemon do not stand still; its select serves what waits in the
\* end, since clients are finitely many here.
Spec ==
  /\ Init /\ [][Next]_vars
  /\ WF_vars(daemon # "exited" /\ Scheduling)
  /\ WF_vars(daemon # "exited" /\ Managing)
  /\ \A c \in Clients : WF_vars(daemon # "exited" /\ Waits(c))

-----------------------------------------------------------------------------
(* Properties. *)

\* As long as no result was dropped, every client gets the result of its own command,
\* although nobody locks the channels: only a client that was not yet waiting 5 seconds
\* after its result was ready makes it possible to take the result of another
\* (eventProcessor, the handlers, fireBackup).
OwnResultUnlessDropped ==
  ~dropped => \A c \in Clients : client[c].result \in {None, c}

\* "this needs to be locked before acquiring the channel to send messages to the
\* scheduler goroutine or read messages sent by the scheduler goroutine"
\* (shared/structs_scheduler.go, above Mutex): with the lock a client would only ever
\* read the result of its own command.
OwnResult == \A c \in Clients : client[c].result \in {None, c}

\* The entries of the last configuration are registered in the end, although messages
\* are dropped when the channel is full and firings hold up the reload (PassOn, rebuild).
ReloadConverges == <>[](entries = config \/ daemon # "wait")

\* After SIGINT or SIGTERM the daemon exits: no command, result, firing or reload under
\* way makes the scheduler or the signal routine wait for ever (ProcessSignal, Shutdown).
SignalEndsDaemon == (daemon # "wait") ~> (daemon = "exited")
=============================================================================
