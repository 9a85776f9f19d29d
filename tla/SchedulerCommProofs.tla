------------------------ MODULE SchedulerCommProofs -------------------------
(***************************************************************************)
(* Theorems about SchedulerComm for any number of requests, firings and    *)
(* changes of the configuration and any capacity of the channel.           *)
(***************************************************************************)
EXTENDS SchedulerComm, TLAPS

ClientPCs == {"idle", "sending", "sent", "waiting", "refreshing", "done"}

\* Type invariant of the state the theorems are about.
TypeOK ==
  /\ client \in [Clients -> [pc : ClientPCs, result : Clients \cup {None}]]
  /\ sched \in [pc : {"select", "processing", "responding", "stopping", "ready", "exited"},
                of : Clients \cup {None}]
  /\ config \in Nat /\ entries \in Nat
  /\ toSched \in Nat /\ toCron \in Nat
  /\ cron \in {"writing", "idle", "waiting", "exited"}
  /\ sched.pc \in {"processing", "responding"} => sched.of \in Clients

\* A client that has handed its command over and not yet turned away is the one
\* whose command the scheduler has, as long as no result was dropped.
OneAnswerOutstanding ==
  ~dropped => \A c \in Clients : client[c].pc \in {"sent", "waiting"} =>
                sched.pc \in {"processing", "responding"} /\ sched.of = c

\* A change of the configuration that is not registered yet is not forgotten: a
\* message is on its way or the cron manager is about to rebuild.  The manager that
\* has exited is excused.
ReloadUnderWay ==
  cron # "exited" =>
    entries = config \/ toSched > 0 \/ toCron > 0 \/ cron \in {"waiting", "writing"}

-----------------------------------------------------------------------------
\* Every step of the clients, the scheduler and the cron manager keeps the types.
LEMMA TypeCorrect == Spec => []TypeOK
<1>1. Init => TypeOK
  BY DEF Init, TypeOK, ClientPCs
<1>2. TypeOK /\ [Next]_vars => TypeOK'
  <2> SUFFICES ASSUME TypeOK, [Next]_vars PROVE TypeOK'
    OBVIOUS
  <2> USE DEF TypeOK
  <2>1. ASSUME NEW c \in Clients, NEW p \in ClientPCs, Goes(c, p),
               UNCHANGED <<sched, config, toSched, toCron, cron, entries>>
        PROVE  TypeOK'
    BY <2>1 DEF Goes
  <2>2. ASSUME NEW c \in Clients, Ask(c) \/ Waits(c) PROVE TypeOK'
    BY <2>1, <2>2
       DEF Ask, Waits, SendTimeout, Listen, WaitTimeout, Abandon, Refreshed, ClientPCs
  <2>3. ASSUME NEW c \in Clients, ReceiveCommand(c) PROVE TypeOK'
    BY <2>3 DEF ReceiveCommand, Goes, ClientPCs
  <2>4. ASSUME NEW c \in Clients, Respond(c) PROVE TypeOK'
    BY <2>4 DEF Respond, Ready, ClientPCs
  <2>5. CASE Process \/ RespondTimeout \/ PassOn \/ Shutdown \/ Stopped \/ Reply
    BY <2>5, SchedulerCommAssumption
       DEF Process, RespondTimeout, PassOn, Shutdown, Stopped, Reply, Ready
  <2>6. CASE Managing \/ ChangeConfig \/ (\E s \in {"int", "term"} : Signal(s))
    BY <2>6 DEF Managing, CronTake, CronStopped, Rebuild, CronExit, ChangeConfig, Signal
  <2>7. CASE UNCHANGED vars
    BY <2>7 DEF vars
  <2> QED BY <2>2, <2>3, <2>4, <2>5, <2>6, <2>7 DEF Next, Scheduling
<1> QED BY <1>1, <1>2, PTL DEF Spec

-----------------------------------------------------------------------------
\* At most one client is between its command and its result, and every step keeps it
\* so: the scheduler takes the next command only after it got rid of the last result,
\* and a result that nobody takes is recorded as dropped.
LEMMA OneAnswerStep ==
  ASSUME TypeOK, OneAnswerOutstanding, OwnResultUnlessDropped, [Next]_vars
  PROVE  OneAnswerOutstanding' /\ OwnResultUnlessDropped'
<1> USE DEF OneAnswerOutstanding, OwnResultUnlessDropped, TypeOK
<1>1. ASSUME NEW c \in Clients, Ask(c) \/ Waits(c)
      PROVE  OneAnswerOutstanding' /\ OwnResultUnlessDropped'
  BY <1>1 DEF Ask, Waits, SendTimeout, Listen, WaitTimeout, Abandon, Refreshed, Goes, ClientPCs
<1>2. ASSUME NEW c \in Clients, ReceiveCommand(c)
      PROVE  OneAnswerOutstanding' /\ OwnResultUnlessDropped'
  BY <1>2 DEF ReceiveCommand, Goes
<1>3. ASSUME NEW c \in Clients, Respond(c)
      PROVE  OneAnswerOutstanding' /\ OwnResultUnlessDropped'
  <2>1. ~dropped => sched.of = c
    BY <1>3 DEF Respond
  <2>2. dropped' = dropped
    BY <1>3 DEF Respond
  <2>3. PICK p \in {"done", "refreshing"} :
            client' = [client EXCEPT ![c] = [pc |-> p, result |-> sched.of]]
    BY <1>3 DEF Respond
  <2> QED BY <2>1, <2>2, <2>3
<1>4. CASE Process \/ RespondTimeout \/ PassOn \/ Shutdown \/ Stopped \/ Reply
  BY <1>4 DEF Process, RespondTimeout, PassOn, Shutdown, Stopped, Reply, Ready
<1>5. CASE Managing \/ ChangeConfig \/ (\E s \in {"int", "term"} : Signal(s))
  BY <1>5 DEF Managing, CronTake, CronStopped, Rebuild, CronExit, ChangeConfig, Signal
<1>6. CASE UNCHANGED vars
  BY <1>6 DEF vars
<1> QED BY <1>1, <1>2, <1>3, <1>4, <1>5, <1>6 DEF Next, Scheduling

\* The property of the run SchedulerComm for any number of clients: without the lock
\* that structs_scheduler.go asks for, nobody reads a foreign result before the
\* scheduler has dropped one (eventProcessor, the handlers, fireBackup).
THEOREM ResultsReachTheirClients == Spec => []OwnResultUnlessDropped
<1>1. Init => OneAnswerOutstanding /\ OwnResultUnlessDropped
  BY DEF Init, OneAnswerOutstanding, OwnResultUnlessDropped
<1>2. TypeOK /\ OneAnswerOutstanding /\ OwnResultUnlessDropped /\ [Next]_vars
      => OneAnswerOutstanding' /\ OwnResultUnlessDropped'
  BY OneAnswerStep
<1> QED BY <1>1, <1>2, TypeCorrect, PTL DEF Spec

-----------------------------------------------------------------------------
\* No reload is lost: although the scheduler throws a message away when the channel
\* to the cron manager is full, a changed configuration that is not registered has a
\* message or a rebuild ahead of it (PassOn and Rebuild; the safety half of
\* ReloadConverges).
THEOREM NoReloadLost == Spec => []ReloadUnderWay
<1>1. Init => ReloadUnderWay
  BY DEF Init, ReloadUnderWay
<1>2. TypeOK /\ ReloadUnderWay /\ [Next]_vars => ReloadUnderWay'
  <2> SUFFICES ASSUME TypeOK, ReloadUnderWay, [Next]_vars PROVE ReloadUnderWay'
    OBVIOUS
  <2> USE DEF ReloadUnderWay, TypeOK
  <2>1. CASE PassOn
    BY <2>1, SchedulerCommAssumption DEF PassOn
  <2>2. CASE ChangeConfig
    BY <2>2 DEF ChangeConfig
  <2>3. CASE Managing
    BY <2>3 DEF Managing, CronTake, CronStopped, Rebuild, CronExit
  <2>4. CASE UNCHANGED <<config, toSched, toCron, cron, entries>>
    BY <2>4
  <2>5. ASSUME NEW c \in Clients, Ask(c) \/ Waits(c) \/ ReceiveCommand(c) \/ Respond(c)
        PROVE  UNCHANGED <<config, toSched, toCron, cron, entries>>
    BY <2>5 DEF Ask, Waits, SendTimeout, Listen, WaitTimeout, Abandon, Refreshed,
                ReceiveCommand, Respond
  <2>6. ASSUME \/ Process \/ RespondTimeout \/ Shutdown \/ Stopped \/ Reply
               \/ \E s \in {"int", "term"} : Signal(s)
        PROVE  UNCHANGED <<config, toSched, toCron, cron, entries>>
    BY <2>6 DEF Process, RespondTimeout, Shutdown, Stopped, Reply, Signal
  <2>7. CASE UNCHANGED vars
    BY <2>7 DEF vars
  <2> QED BY <2>1, <2>2, <2>3, <2>4, <2>5, <2>6, <2>7 DEF Next, Scheduling
<1> QED BY <1>1, <1>2, TypeCorrect, PTL DEF Spec
=============================================================================
