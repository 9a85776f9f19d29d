------------------------------ MODULE Watcher -------------------------------
(***************************************************************************)
(* What a job tells those who watch it (watcher/watcher.go,                *)
(* shared/structs_watcher.go, handlerPostBackupWatch and                   *)
(* handlerPostRestoreWatch in httpd/): the job sends messages to a channel *)
(* and drops them when it is full; one routine forwards them to the        *)
(* channel of every registered consumer, a ring buffer; and a handler for  *)
(* each consumer writes them to its connection.                            *)
(***************************************************************************)
EXTENDS Integers, Sequences, FiniteSets

CONSTANTS
  Watches,   \* requests to watch the job
  Dialogs,   \* those of the web interface; what is written to the others is not kept
  Messages,  \* bound on the messages of the job before the last one
  MainSize,  \* capacity of the channel of the multiplexer
  ChanSize   \* capacity of the channel of a consumer

ASSUME WatcherAssumption ==
  Dialogs \subseteq Watches /\ Messages \in Nat /\ MainSize \in Nat \ {0} /\ ChanSize \in Nat \ {0}

VARIABLES
  job,        \* the job: its state, whether it was cancelled, the item and what was sent
  main,       \* the channel of the multiplexer
  mux,        \* the multiplexer: where it is, the message in hand, the consumers left
  running,    \* the multiplexer accepts consumers
  consumers,  \* the consumers in the multiplexer's slice
  watch       \* the handler of each request with its channel

watcherVars == <<job, main, mux, running, consumers, watch>>

\* The last message of a job.  A message has the sequence number of its item, and its
\* place among the messages of the job, which only the properties look at.
End == [seq |-> 0, at |-> 0, kind |-> "end"]

\* A line that is not a message.
Text(kind) == [seq |-> 0, at |-> 0, kind |-> kind]

Handler0 == [pc |-> "none", chan |-> <<>>, open |-> FALSE, cancelled |-> FALSE,
             path |-> 0, gone |-> FALSE, lines |-> <<>>]

InitWatcher ==
  /\ job = [state |-> "running", cancelled |-> FALSE, seq |-> 0, sent |-> 0]
  /\ main = <<>>
  /\ mux = [pc |-> "starting", msg |-> End, todo |-> <<>>, stop |-> FALSE]
  /\ running = FALSE
  /\ consumers = <<>>
  /\ watch = [w \in Watches |-> Handler0]

-----------------------------------------------------------------------------
(* The job. *)

\* SendMsgToWatcher(): a message is dropped when the channel is full.
SendMsgToWatcher(m) == main' = IF Len(main) < MainSize THEN Append(main, m) ELSE main

\* What is told of an item by IncrementRateCounter() and IncrementCounter(), any number
\* of times: the progress of an upload from the start for each target, a success for each
\* target, and an error that may come after a success.  The item is the one before or,
\* after IncrementSequence(), the next one; what a script tells before the first item is
\* taken as an item of its own.  A job that is cancelled still tells of an upload under
\* way, or of the copy of its database.
Report(kind, next) ==
  LET seq == IF next THEN job.seq + 1 ELSE job.seq
  IN  /\ job.state = "running" /\ job.sent < Messages
      /\ seq # 0
      /\ job' = [job EXCEPT !.seq = seq, !.sent = @ + 1]
      /\ SendMsgToWatcher([seq |-> seq, at |-> job.sent + 1, kind |-> kind])
      /\ UNCHANGED <<mux, running, consumers, watch>>

CancelJob ==
  /\ job.state = "running" /\ ~job.cancelled
  /\ job' = [job EXCEPT !.cancelled = TRUE]
  /\ UNCHANGED <<main, mux, running, consumers, watch>>

\* TellClientsJobFinished(): the last message of a job is sent like the others, while
\* the job is still in the table of running jobs.
TellClientsJobFinished ==
  /\ job.state = "running"
  /\ job' = [job EXCEPT !.state = "told"]
  /\ SendMsgToWatcher(End)
  /\ UNCHANGED <<mux, running, consumers, watch>>

\* The scheduler cancels the context of the job and removes it from the table.
RemoveJob ==
  /\ job.state = "told"
  /\ job' = [job EXCEPT !.state = "over"]
  /\ UNCHANGED <<main, mux, running, consumers, watch>>

-----------------------------------------------------------------------------
(* The multiplexer. *)

MuxStart ==
  /\ mux.pc = "starting"
  /\ mux' = [mux EXCEPT !.pc = "idle"]
  /\ running' = TRUE
  /\ UNCHANGED <<job, main, consumers, watch>>

\* The multiplexer holds its read lock while it forwards a message.
Locked == mux.pc \in {"send", "full", "retry"}

\* It goes on with the consumers that are left.
On(msg, todo) ==
  IF todo = <<>> THEN [mux EXCEPT !.pc = "idle", !.msg = End, !.todo = <<>>]
                 ELSE [mux EXCEPT !.pc = "send", !.msg = msg, !.todo = todo]

MuxTake ==
  /\ mux.pc = "idle" /\ main # <<>>
  /\ mux' = On(Head(main), consumers)
  /\ main' = Tail(main)
  /\ UNCHANGED <<job, running, consumers, watch>>

\* clientSendAllowed(): the first message of an item, errors and the last message of
\* an item are allowed; anything else is up to the rate limit.
Allowed(h, m) ==
  IF h.path = 0 \/ m.kind = "error" \/ h.path # m.seq \/ m.kind = "full" THEN {TRUE} ELSE BOOLEAN

PathAfter(h, m) == IF h.path # 0 /\ m.kind = "error" THEN h.path ELSE m.seq

\* sendMsgToClients() for the next consumer: the first select.
MuxSend ==
  /\ mux.pc = "send"
  /\ LET w == Head(mux.todo)
     IN  \E allowed \in Allowed(watch[w], mux.msg) :
           LET room == Len(watch[w].chan) < ChanSize
           IN  /\ watch' = [watch EXCEPT ![w].path = PathAfter(watch[w], mux.msg),
                                         ![w].chan = IF allowed /\ room THEN Append(@, mux.msg) ELSE @]
               /\ mux' = IF allowed /\ ~room THEN [mux EXCEPT !.pc = "full"] ELSE On(mux.msg, Tail(mux.todo))
  /\ UNCHANGED <<job, main, running, consumers>>

\* The second select: the oldest message is taken out, unless the handler has emptied
\* the channel meanwhile, when the new one is discarded.
MuxDrop ==
  /\ mux.pc = "full"
  /\ LET w == Head(mux.todo)
     IN  IF watch[w].chan = <<>>
         THEN mux' = On(mux.msg, Tail(mux.todo)) /\ UNCHANGED watch
         ELSE /\ watch' = [watch EXCEPT ![w].chan = Tail(@)]
              /\ mux' = [mux EXCEPT !.pc = "retry"]
  /\ UNCHANGED <<job, main, running, consumers>>

\* Mutated form: the same consumer is served again.
MuxRetryAgain ==
  /\ mux.pc = "retry"
  /\ LET w == Head(mux.todo)
     IN  watch' = [watch EXCEPT ![w].chan = IF Len(@) < ChanSize THEN Append(@, mux.msg) ELSE @]
  /\ mux' = On(mux.msg, mux.todo)
  /\ UNCHANGED <<job, main, running, consumers>>

\* The third select: only the multiplexer sends, so there is room.
MuxRetry ==
  /\ mux.pc = "retry"
  /\ LET w == Head(mux.todo)
     IN  watch' = [watch EXCEPT ![w].chan = IF Len(@) < ChanSize THEN Append(@, mux.msg) ELSE @]
  /\ mux' = On(mux.msg, Tail(mux.todo))
  /\ UNCHANGED <<job, main, running, consumers>>

\* Stop(), by the scheduler when the daemon shuts down: the context is cancelled.
Stop ==
  /\ ~mux.stop
  /\ mux' = [mux EXCEPT !.stop = TRUE]
  /\ UNCHANGED <<job, main, running, consumers, watch>>

\* Mutated form: consumers are accepted by a multiplexer that has stopped.
MuxExitOpen ==
  /\ mux.pc = "idle" /\ mux.stop
  /\ mux' = [mux EXCEPT !.pc = "exiting"]
  /\ UNCHANGED <<job, main, running, consumers, watch>>

\* Start() sees that its context is cancelled; no consumer is accepted from now on.
MuxExit ==
  /\ mux.pc = "idle" /\ mux.stop
  /\ mux' = [mux EXCEPT !.pc = "exiting"]
  /\ running' = FALSE
  /\ UNCHANGED <<job, main, consumers, watch>>

TellClientsToExit ==
  /\ mux.pc = "exiting"
  /\ mux' = [mux EXCEPT !.pc = "stopped"]
  /\ watch' = [w \in Watches |->
                 [watch[w] EXCEPT !.cancelled = @ \/ \E k \in DOMAIN consumers : consumers[k] = w]]
  /\ UNCHANGED <<job, main, running, consumers>>

-----------------------------------------------------------------------------
(* The handlers. *)

Written(w, line) == IF w \in Dialogs THEN Append(watch[w].lines, line) ELSE <<>>

\* The request is refused unless the job is running (IsRunning) and not being stopped
\* (IsStopping).
Request(w) ==
  /\ watch[w].pc = "none"
  /\ watch' = [watch EXCEPT ![w].pc = IF job.state # "over" /\ ~job.cancelled THEN "checked" ELSE "refused"]
  /\ UNCHANGED <<job, main, mux, running, consumers>>

\* AddConsumer(), under the lock: by now the job may have ended.
AddConsumer(w) ==
  /\ watch[w].pc = "checked" /\ ~Locked
  /\ consumers' = IF running THEN Append(consumers, w) ELSE consumers
  /\ watch' = [watch EXCEPT ![w].pc = IF running THEN "watching" ELSE "closed", ![w].open = running,
                            ![w].lines = IF running THEN @ ELSE Written(w, Text("notReady"))]
  /\ UNCHANGED <<job, main, mux, running>>

\* The select of a handler: a message is written, unless it is the last one.
Receive(w) ==
  /\ watch[w].pc = "watching" /\ watch[w].chan # <<>>
  /\ LET m == Head(watch[w].chan)
     IN  watch' = [watch EXCEPT ![w].chan = Tail(@),
                                ![w].pc = IF m = End THEN "ended" ELSE @,
                                ![w].lines = IF m = End THEN @ ELSE Written(w, m)]
  /\ UNCHANGED <<job, main, mux, running, consumers>>

\* Mutated form: the channel is closed at once, before the consumer is removed.
LeaveCloses(w) ==
  /\ watch[w].pc = "watching"
  /\ \/ watch[w].cancelled /\ watch' = [watch EXCEPT ![w].pc = "exit", ![w].open = FALSE]
     \/ watch[w].gone /\ watch' = [watch EXCEPT ![w].pc = "left", ![w].open = FALSE]
  /\ UNCHANGED <<job, main, mux, running, consumers>>

\* The select of a handler: the daemon shuts down, or the client is gone.
Leave(w) ==
  /\ watch[w].pc = "watching"
  /\ \/ watch[w].cancelled /\ watch' = [watch EXCEPT ![w].pc = "exit"]
     \/ watch[w].gone /\ watch' = [watch EXCEPT ![w].pc = "left"]
  /\ UNCHANGED <<job, main, mux, running, consumers>>

\* Mutated form: the slice is cut at the entry that is removed.
WithoutCut(w) ==
  LET k == CHOOSE k \in DOMAIN consumers : consumers[k] = w
  IN  SubSeq(consumers, 1, k - 1)

\* The last entry of the slice takes the place of the one that is removed.
Without(w) ==
  LET k == CHOOSE k \in DOMAIN consumers : consumers[k] = w
      n == Len(consumers)
  IN  SubSeq([consumers EXCEPT ![k] = consumers[n]], 1, n - 1)

\* RemoveConsumer(), under the lock.
RemoveConsumer(w) ==
  /\ watch[w].pc \in {"ended", "exit", "left"} /\ ~Locked
  /\ consumers' = Without(w)
  /\ watch' = [watch EXCEPT ![w].pc = IF @ = "ended" THEN "finishing" ELSE IF @ = "exit" THEN "exiting" ELSE "leaving"]
  /\ UNCHANGED <<job, main, mux, running>>

\* Mutated form: nothing is written when the job is over.
CloseChanSilent(w) ==
  /\ watch[w].pc \in {"finishing", "exiting", "leaving"}
  /\ watch' = [watch EXCEPT ![w].pc = "closed", ![w].open = FALSE, ![w].chan = <<>>, ![w].path = 0,
                 ![w].lines = IF watch[w].pc = "exiting" THEN Written(w, Text("exits")) ELSE @]
  /\ UNCHANGED <<job, main, mux, running, consumers>>

\* The last line is written, the channel is closed and the handler returns.
CloseChan(w) ==
  /\ watch[w].pc \in {"finishing", "exiting", "leaving"}
  /\ watch' = [watch EXCEPT ![w].pc = "closed", ![w].open = FALSE, ![w].chan = <<>>, ![w].path = 0,
                 ![w].lines = CASE watch[w].pc = "finishing" -> Written(w, Text("jobOver"))
                                [] watch[w].pc = "exiting" -> Written(w, Text("exits"))
                                [] OTHER -> @]
  /\ UNCHANGED <<job, main, mux, running, consumers>>

NextWatcher ==
  \/ CancelJob \/ TellClientsJobFinished \/ RemoveJob
  \/ \E kind \in {"part", "full", "error"} : \E next \in BOOLEAN : Report(kind, next)
  \/ MuxStart \/ MuxTake \/ MuxSend \/ MuxDrop \/ MuxRetry
  \/ Stop \/ MuxExit \/ TellClientsToExit
  \/ \E w \in Watches : AddConsumer(w) \/ Receive(w) \/ Leave(w) \/ RemoveConsumer(w) \/ CloseChan(w)

\* The multiplexer and the handlers do not stand still.
FairWatcher ==
  /\ WF_watcherVars(MuxStart \/ MuxTake \/ MuxSend \/ MuxDrop \/ MuxRetry)
  /\ WF_watcherVars(MuxExit \/ TellClientsToExit)
  /\ \A w \in Watches :
       WF_watcherVars(AddConsumer(w) \/ Receive(w) \/ Leave(w) \/ RemoveConsumer(w) \/ CloseChan(w))

-----------------------------------------------------------------------------
(* Properties. *)

\* The multiplexer never sends to a channel that its handler has closed, which would
\* end the daemon: a handler closes its channel only after it has removed its consumer
\* under the lock (sendMsgToClients, RemoveConsumer and the handlers).
NoSendOnClosed == mux.pc \in {"send", "full", "retry"} => watch[Head(mux.todo)].open

\* The slice holds exactly the consumers whose handlers wait for messages or are about
\* to remove themselves: however many leave in whatever order, none is lost and none
\* stays behind (AddConsumer, RemoveConsumer).
ConsumersExact ==
  /\ \A w \in Watches :
       Cardinality({k \in DOMAIN consumers : consumers[k] = w})
         = IF watch[w].pc \in {"watching", "ended", "exit", "left"} THEN 1 ELSE 0
  /\ \A k \in DOMAIN consumers : consumers[k] \in Watches

\* Of two messages about items, the first was sent earlier, and about the same item or an
\* earlier one.
Before(a, b) ==
  a.seq # 0 /\ b.seq # 0 => a.at < b.at /\ a.seq <= b.seq

\* A consumer is told of the items in the order of the job, and nothing twice: what it is
\* told are messages of the job in the order in which they were sent, although messages
\* are dropped at both channels, and the ring buffer of a consumer loses its oldest one
\* while the handler may be taking it (SendMsgToWatcher, sendMsgToClients, the handlers).
LinesInOrder ==
  \A w \in Watches : \A i, j \in DOMAIN watch[w].lines :
    i < j => Before(watch[w].lines[i], watch[w].lines[j])

\* When the multiplexer has stopped, every handler returns, also one that registered
\* while it was stopping: nobody is left waiting for messages that never come (Start,
\* tellClientsToExit, AddConsumer).
ShutdownReleases ==
  [](mux.pc = "stopped" =>
       <>(\A w \in Watches : watch[w].pc \in {"none", "refused", "closed"}))
=============================================================================
