------------------------------- MODULE WebApp -------------------------------
(***************************************************************************)
(* The page of the web interface that shows the card of each backup        *)
(* definition (webstatic/ui/src/app.ts: App, JobCard, ConnectionModal),    *)
(* with one definition.  The page polls its server, and a button sends a   *)
(* command and then refreshes.  Requests are answered in any order or fail *)
(* at any moment, and nothing but their closures remembers which server    *)
(* they went to.                                                           *)
(***************************************************************************)
EXTENDS ApiServer

CONSTANTS
  Conns,      \* connections: a server with its credentials
  None,       \* no connection
  Home,       \* the connection the page starts with
  Histories,  \* what the servers may have run before the page is opened
  MaxRuns,    \* bound on the runs of a server
  Slots,      \* bound: the requests that may be under way at a time
  MaxEvents   \* bound on what the user and others do

ASSUME WebAppAssumption ==
  /\ None \notin Conns /\ Home \in Conns /\ MaxRuns \in Nat /\ MaxEvents \in Nat
  /\ Histories \subseteq [Conns -> Seq(Runs)]

VARIABLES
  server,    \* the runs of each server
  conn,      \* the connection in use
  timer,     \* the connection of the interval that polls
  jobs,      \* the backup on the card, and the server that reported it
  restores,  \* the restore on the card
  error,     \* an error is on display
  busy,      \* the buttons that wait for an answer
  version,   \* the connection whose version is on display
  asking,    \* requests for a version
  calls,     \* requests and refreshes under way
  modal,     \* the dialog that is open
  events,    \* what the user and others did so far
  clicks     \* what the user did in dialogs so far

appVars == <<server, conn, timer, jobs, restores, error, busy, version, asking, calls, modal, events>>

Keys == {"backup", "restore"}

Unasked == [run |-> 0, state |-> "none"]

\* A call of the page: the button or effect that waits for it, the run it names, and
\* the answers of a refresh.
NoCall == [op |-> "none", conn |-> None, key |-> "none", run |-> 0, of |-> None,
           list |-> Unasked, restores |-> Unasked]

\* refresh(): listBackups() and listRestores().
Refresh(c, key) == [NoCall EXCEPT !.op = "refresh", !.conn = c, !.key = key]

Nothing == [from |-> None, run |-> 0, state |-> "stopped"]

Shown(c, card) == [from |-> c, run |-> card.run, state |-> card.state]

InitApp ==
  /\ server \in Histories
  /\ conn = Home
  /\ timer = None
  /\ jobs = Nothing /\ restores = Nothing
  /\ error = FALSE
  /\ busy = [key \in Keys |-> FALSE]
  /\ version = None /\ asking = {}
  /\ calls = [k \in Slots |-> NoCall]
  /\ modal = "none"
  /\ events = 0 /\ clicks = 0

-----------------------------------------------------------------------------
(* Effects and requests. *)

\* Something that happens to the page, within the bound.
Event == events < MaxEvents /\ events' = events + 1

Free == {k \in Slots : calls[k] = NoCall}

\* A call that is made if the bound allows one more.
Make(call) == /\ Free # {}
              /\ calls' = [calls EXCEPT ![CHOOSE k \in Free : TRUE] = call]

\* Mutated form: the interval of the first connection stays.
RunEffectsOnce ==
  /\ timer = None
  /\ timer' = conn
  /\ version' = None
  /\ asking' = {[r EXCEPT !.stopped = TRUE] : r \in asking} \cup {[conn |-> conn, stopped |-> FALSE]}
  /\ Make(Refresh(conn, "none"))
  /\ UNCHANGED <<server, conn, jobs, restores, error, busy, modal, events>>

\* After a render with another connection the effects of App are cleaned up and run
\* again: the interval, with a poll at once, and the request for the version.
RunEffects ==
  /\ timer # conn
  /\ timer' = conn
  /\ version' = None
  /\ asking' = {[r EXCEPT !.stopped = TRUE] : r \in asking} \cup {[conn |-> conn, stopped |-> FALSE]}
  /\ Make(Refresh(conn, "none"))
  /\ UNCHANGED <<server, conn, jobs, restores, error, busy, modal, events>>

\* The interval fires whether or not the poll before it has been answered.  Effects
\* run at once after a render, before the next firing.
Tick ==
  /\ timer = conn
  /\ Make(Refresh(conn, "none"))
  /\ UNCHANGED <<server, conn, timer, jobs, restores, error, busy, version, asking, modal, events>>

\* getVersion() answers or fails; after the cleanup of its effect it is ignored.
VersionAnswer(r) ==
  /\ r \in asking
  /\ asking' = asking \ {r}
  /\ version' \in {version} \cup (IF r.stopped THEN {} ELSE {r.conn})
  /\ UNCHANGED <<server, conn, timer, jobs, restores, error, busy, calls, modal, events>>

\* The server handles the two requests of a refresh, in either order.
ServeList(k) ==
  /\ calls[k].op = "refresh" /\ calls[k].list = Unasked
  /\ calls' = [calls EXCEPT ![k].list = Card(server[calls[k].conn], "backup")]
  /\ UNCHANGED <<server, conn, timer, jobs, restores, error, busy, version, asking, modal, events>>

ServeRestores(k) ==
  /\ calls[k].op = "refresh" /\ calls[k].restores = Unasked
  /\ calls' = [calls EXCEPT ![k].restores = Card(server[calls[k].conn], "restore")]
  /\ UNCHANGED <<server, conn, timer, jobs, restores, error, busy, version, asking, modal, events>>

\* The run that a request names, to the server that gets it: ids are unique, so the
\* run of another server is unknown (-1).
Named(call) == IF call.of \in {None, call.conn} THEN call.run ELSE -1

\* The server carries out a command: it starts a run unless one is active, and stops
\* the run that the request names unless that is stopping.  A refusal changes nothing and is one of the ways
\* in which CommandFailed may come about.
ServeCommand(k) ==
  LET c == calls[k].conn
  IN  /\ \/ /\ calls[k].op = "start" /\ ~IsRunning(server[c], 0) /\ Len(server[c]) < MaxRuns
            /\ server' = [server EXCEPT ![c] = Started(@, "backup")]
         \/ /\ calls[k].op = "stop" /\ IsRunning(server[c], Named(calls[k]))
            /\ ~IsStopping(server[c], Named(calls[k]))
            /\ server' = [server EXCEPT ![c] = Stopped(@, calls[k].run)]
      /\ calls' = [calls EXCEPT ![k].op = "accepted"]
      /\ UNCHANGED <<conn, timer, jobs, restores, error, busy, version, asking, modal, events>>

\* What the page does when a call has ended: the button of a command is enabled.
Ends(k) ==
  /\ calls' = [calls EXCEPT ![k] = NoCall]
  /\ busy' = [key \in Keys |-> busy[key] /\ key # calls[k].key]

\* refresh() has both answers: they replace what is shown.
RefreshDone(k) ==
  /\ calls[k].op = "refresh" /\ Unasked \notin {calls[k].list, calls[k].restores}
  /\ jobs' = Shown(calls[k].conn, calls[k].list)
  /\ restores' = Shown(calls[k].conn, calls[k].restores)
  /\ error' = FALSE
  /\ Ends(k)
  /\ UNCHANGED <<server, conn, timer, version, asking, modal, events>>

\* refresh() fails at any moment: what was shown before stays.
RefreshFailed(k) ==
  /\ calls[k].op = "refresh"
  /\ error' = TRUE
  /\ Ends(k)
  /\ UNCHANGED <<server, conn, timer, jobs, restores, version, asking, modal, events>>

\* A command that was carried out is followed by a refresh, with the button disabled.
CommandDone(k) ==
  /\ calls[k].op = "accepted"
  /\ calls' = [calls EXCEPT ![k] = Refresh(calls[k].conn, calls[k].key)]
  /\ UNCHANGED <<server, conn, timer, jobs, restores, error, busy, version, asking, modal, events>>

\* A command is refused, does not reach the server, or its answer is lost.
CommandFailed(k) ==
  /\ calls[k].op \in {"start", "stop", "accepted"}
  /\ error' = TRUE
  /\ Ends(k)
  /\ UNCHANGED <<server, conn, timer, jobs, restores, version, asking, modal, events>>

-----------------------------------------------------------------------------
(* Runs that others start, and their ends. *)

\* A schedule or another client starts a run.
OtherStart(c, type) ==
  /\ Event
  /\ Len(server[c]) < MaxRuns /\ ~IsRunning(server[c], 0)
  /\ server' = [server EXCEPT ![c] = Started(@, type)]
  /\ UNCHANGED <<conn, timer, jobs, restores, error, busy, version, asking, calls, modal>>

\* A run ends: as cancelled once it is stopping.
RunEnds(c) ==
  \E i \in ActiveRuns(server[c], Keys) :
    /\ Event
    /\ \E state \in (IF server[c][i].state = "stopping" THEN {"cancelled"} ELSE {"finished", "failed"}) :
         server' = [server EXCEPT ![c][i].state = state]
    /\ UNCHANGED <<conn, timer, jobs, restores, error, busy, version, asking, calls, modal>>

-----------------------------------------------------------------------------
(* The user. *)

\* isRunning()
Running(shown) == shown.state \in Active

Command(op, key, shown) ==
  [NoCall EXCEPT !.op = op, !.conn = conn, !.key = key, !.run = shown.run, !.of = shown.from]

Press(op, key, shown) ==
  /\ modal = "none" /\ ~busy[key]
  /\ Event
  /\ busy' = [busy EXCEPT ![key] = TRUE]
  /\ Make(Command(op, key, shown))
  /\ UNCHANGED <<server, conn, timer, jobs, restores, error, version, asking, modal>>

\* onStart(): the button is there unless a run is shown.
OnStart ==
  /\ jobs # Nothing /\ ~Running(jobs) /\ ~Running(restores)
  /\ Press("start", "backup", Nothing)

\* Mutated form: the request does not name the run.
OnStopUnnamed == Running(jobs) /\ Press("stop", "backup", Nothing)

\* onStop(): the request names the run on the card.
OnStop == Running(jobs) /\ Press("stop", "backup", jobs)

\* onStopRestore()
OnStopRestore == Running(restores) /\ Press("stop", "restore", restores)

OnRefresh ==
  /\ modal = "none" /\ Event /\ Make(Refresh(conn, "none"))
  /\ UNCHANGED <<server, conn, timer, jobs, restores, error, busy, version, asking, modal>>

\* ConnectionModal: Save closes the dialog and changes the connection; requests under
\* way go on.  (Saving an unchanged connection only restarts the polling.)
OnSaveConn(c) ==
  /\ modal = "none" /\ Event /\ c # conn
  /\ conn' = c
  /\ UNCHANGED <<server, timer, jobs, restores, error, busy, version, asking, calls, modal>>

NextApp ==
  \/ RunEffects \/ Tick
  \/ \E r \in asking : VersionAnswer(r)
  \/ \E k \in Slots :
       \/ ServeList(k) \/ ServeRestores(k) \/ ServeCommand(k)
       \/ RefreshDone(k) \/ RefreshFailed(k) \/ CommandDone(k) \/ CommandFailed(k)
  \/ \E c \in Conns : RunEnds(c) \/ OnSaveConn(c) \/ \E type \in Keys : OtherStart(c, type)
  \/ OnStart \/ OnStop \/ OnStopRestore \/ OnRefresh

\* The page shows the present runs of the present server.
UpToDate ==
  /\ jobs = Shown(conn, Card(server[conn], "backup"))
  /\ restores = Shown(conn, Card(server[conn], "restore"))

\* (Bound: the page stands still once a dialog has been opened.)
OnPage == clicks = 0

\* Effects run, the interval fires, and every call is answered or fails in the end,
\* until a dialog is opened.  Nothing is said of the user and of the runs.
FairApp ==
  /\ WF_appVars(OnPage /\ RunEffects) /\ WF_appVars(OnPage /\ Tick)
  /\ \A k \in Slots :
       /\ WF_appVars(OnPage /\ ServeList(k)) /\ WF_appVars(OnPage /\ ServeRestores(k))
       /\ WF_appVars(OnPage /\ (RefreshDone(k) \/ RefreshFailed(k)))
       /\ WF_appVars(OnPage /\ (CommandDone(k) \/ CommandFailed(k)))

-----------------------------------------------------------------------------
(* Properties. *)

\* A run is stopped only by a request that names it: a card that is out of date, of
\* an earlier run or of an earlier connection, never stops the present run (onStop,
\* stopBackup and the check of the id by the server).
StopsNamedRun ==
  [][\A c \in Conns : \A i \in DOMAIN server[c] :
        server[c][i].state = "started" /\ server'[c][i].state = "stopping" =>
          \E k \in Slots : calls[k].op = "stop" /\ calls[k].run = i /\ calls[k].of = c]_appVars

\* Once runs and connections no longer change, a page without dialogs shows the
\* present server's present runs or an error, whatever was under way before (the poll effect:
\* an answer of an earlier connection or an earlier moment may be shown, but not for
\* ever).
CardConverges == <>[](error \/ UpToDate \/ ~OnPage)
=============================================================================
