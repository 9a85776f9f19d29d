--------------------------- MODULE WatcherProofs ----------------------------
(***************************************************************************)
(* Theorems about Watcher, with the dialogs of WatchModal, for any number  *)
(* of watchers and messages, channels and lists of any size, and whatever  *)
(* way the lines of a stream are cut into chunks.                          *)
(***************************************************************************)
EXTENDS WatchModal, FiniteSetTheorems, SequenceTheorems, WellFoundedInduction, TLAPS

Kinds == {"part", "full", "error", "end", "jobOver", "exits", "notReady"}

Msg == [seq : Nat, at : Nat, kind : Kinds]

\* The handlers that are in the slice of consumers, and those whose channel is open.
Members == {"watching", "ended", "exit", "left"}
Opened == Members \cup {"finishing", "exiting", "leaving"}

HandlerType ==
  [pc : Opened \cup {"none", "checked", "refused", "closed"}, chan : Seq(Msg), open : BOOLEAN,
   cancelled : BOOLEAN, path : Nat, gone : BOOLEAN, lines : Seq(Msg)]

JobType == [state : {"running", "told", "over"}, cancelled : BOOLEAN, seq : Nat, sent : Nat]

MuxType == [pc : {"starting", "idle", "send", "full", "retry", "exiting", "stopped"}, msg : Msg,
            todo : Seq(Watches), stop : BOOLEAN]

\* Type invariant.
TypeOK ==
  /\ job \in JobType
  /\ main \in Seq(Msg)
  /\ mux \in MuxType
  /\ running \in BOOLEAN
  /\ consumers \in Seq(Watches)
  /\ watch \in [Watches -> HandlerType]

-----------------------------------------------------------------------------
(* The invariant, in parts. *)

Distinct(s) == \A i, j \in DOMAIN s : s[i] = s[j] => i = j

In(w, s) == \E k \in DOMAIN s : s[k] = w

\* The slice holds the members, each once, and their channels are open.
SliceOK ==
  /\ Distinct(consumers)
  /\ \A w \in Watches : In(w, consumers) <=> watch[w].pc \in Members
  /\ \A w \in Watches : watch[w].pc \in Opened => watch[w].open

\* While a message is forwarded, those that are left are members, each once.
TodoOK ==
  Locked => /\ mux.todo # <<>>
            /\ Distinct(mux.todo)
            /\ \A k \in DOMAIN mux.todo : watch[mux.todo[k]].pc \in Members

Ordered(s) == \A i, j \in DOMAIN s : i < j => Before(s[i], s[j])

AllBefore(s, m) == \A i \in DOMAIN s : Before(s[i], m)

Precedes(s, t) == \A j \in DOMAIN t : AllBefore(s, t[j])

\* Message m is one that job j has sent, about an item it has come to.
SaidBy(j, m) == m.seq # 0 => m.seq <= j.seq /\ m.at <= j.sent

AllSaid(j, s) == \A i \in DOMAIN s : SaidBy(j, s[i])

\* What is written comes before what is in the channel of the consumer, that before what is
\* in the channel of the multiplexer, and that before what job j says next.
Pipe(j, lines, chan, queue) ==
  /\ Ordered(lines) /\ Ordered(chan) /\ Ordered(queue)
  /\ Precedes(lines, chan) /\ Precedes(lines, queue) /\ Precedes(chan, queue)
  /\ AllSaid(j, lines) /\ AllSaid(j, chan) /\ AllSaid(j, queue)

\* The message that is forwarded comes before those in the channel of the multiplexer and
\* after what those that wait for it have.
OrderOK ==
  /\ Pipe(job, <<>>, <<>>, main)
  /\ \A w \in Watches : Pipe(job, watch[w].lines, watch[w].chan, main)
  /\ Locked =>
       /\ SaidBy(job, mux.msg)
       /\ \A i \in DOMAIN main : Before(mux.msg, main[i])
       /\ \A w \in Watches : In(w, mux.todo) =>
            AllBefore(watch[w].lines, mux.msg) /\ AllBefore(watch[w].chan, mux.msg)

-----------------------------------------------------------------------------
(* Sequences. *)

\* A queue with one element more.
LEMMA AppendFacts ==
  ASSUME NEW S, NEW s \in Seq(S), NEW m \in S
  PROVE  /\ Append(s, m) \in Seq(S) /\ Append(s, m)[Len(s) + 1] = m
         /\ DOMAIN s = 1 .. Len(s) /\ Len(s) \in Nat
         /\ DOMAIN Append(s, m) = 1 .. Len(s) + 1
         /\ \A i \in DOMAIN s : Append(s, m)[i] = s[i]
  OBVIOUS

\* A queue without its first element.
LEMMA TailFacts ==
  ASSUME NEW S, NEW s \in Seq(S), s # <<>>
  PROVE  /\ Tail(s) \in Seq(S) /\ Head(s) = s[1] /\ Head(s) \in S /\ 1 \in DOMAIN s
         /\ DOMAIN s = 1 .. Len(s) /\ Len(s) \in Nat
         /\ \A i \in DOMAIN Tail(s) : i \in Nat /\ i > 0 /\ i + 1 \in DOMAIN s /\ Tail(s)[i] = s[i + 1]
  OBVIOUS

\* A message at the end of a queue.
LEMMA OrderAppend ==
  ASSUME NEW s \in Seq(Msg), NEW m \in Msg, NEW t
  PROVE  /\ Ordered(s) /\ AllBefore(s, m) => Ordered(Append(s, m))
         /\ Precedes(t, s) /\ AllBefore(t, m) => Precedes(t, Append(s, m))
         /\ Precedes(s, t) /\ (\A j \in DOMAIN t : Before(m, t[j])) => Precedes(Append(s, m), t)
         /\ \A n : AllBefore(s, n) /\ Before(m, n) => AllBefore(Append(s, m), n)
<1> DEFINE q == Append(s, m)
<1>1. ASSUME NEW i \in DOMAIN q PROVE (i \in DOMAIN s /\ q[i] = s[i]) \/ (i = Len(s) + 1 /\ q[i] = m)
  BY AppendFacts
<1>2. \A i \in DOMAIN s : i < Len(s) + 1 /\ i \in Nat BY AppendFacts
<1>3. Ordered(s) /\ AllBefore(s, m) => Ordered(q)
  <2>1. SUFFICES ASSUME Ordered(s), AllBefore(s, m), NEW i \in DOMAIN q, NEW j \in DOMAIN q, i < j
                 PROVE  Before(q[i], q[j])
    BY DEF Ordered
  <2>2. i \in DOMAIN s /\ q[i] = s[i] BY <1>1, <1>2, <2>1
  <2>3. CASE j \in DOMAIN s /\ q[j] = s[j] BY <2>1, <2>2, <2>3 DEF Ordered
  <2>4. CASE q[j] = m BY <2>1, <2>2, <2>4 DEF AllBefore
  <2> QED BY <1>1, <2>3, <2>4
<1>4. Precedes(t, s) /\ AllBefore(t, m) => Precedes(t, q) BY <1>1 DEF Precedes
<1>5. Precedes(s, t) /\ (\A j \in DOMAIN t : Before(m, t[j])) => Precedes(q, t)
  BY <1>1 DEF Precedes, AllBefore
<1>6. \A n : AllBefore(s, n) /\ Before(m, n) => AllBefore(q, n) BY <1>1 DEF AllBefore
<1> QED BY <1>3, <1>4, <1>5, <1>6

\* A message taken from the front of a queue.
LEMMA OrderTail ==
  ASSUME NEW s \in Seq(Msg), s # <<>>, NEW t
  PROVE  /\ Ordered(s) => Ordered(Tail(s)) /\ \A j \in DOMAIN Tail(s) : Before(Head(s), Tail(s)[j])
         /\ Precedes(t, s) => Precedes(t, Tail(s)) /\ AllBefore(t, Head(s))
         /\ Precedes(s, t) => Precedes(Tail(s), t) /\ (\A j \in DOMAIN t : Before(Head(s), t[j]))
         /\ \A n : AllBefore(s, n) => AllBefore(Tail(s), n) /\ Before(Head(s), n)
<1>1. \A i \in DOMAIN Tail(s) : i \in Nat /\ i > 0 /\ i + 1 \in DOMAIN s /\ Tail(s)[i] = s[i + 1]
  BY TailFacts
<1>2. Head(s) = s[1] /\ 1 \in DOMAIN s BY TailFacts
<1>3. Ordered(s) => Ordered(Tail(s))
  <2>1. SUFFICES ASSUME Ordered(s), NEW i \in DOMAIN Tail(s), NEW j \in DOMAIN Tail(s), i < j
                 PROVE  Before(Tail(s)[i], Tail(s)[j])
    BY DEF Ordered
  <2>2. i + 1 < j + 1 BY <1>1, <2>1
  <2> QED BY <1>1, <2>1, <2>2 DEF Ordered
<1>4. Ordered(s) => \A j \in DOMAIN Tail(s) : Before(Head(s), Tail(s)[j])
  <2>1. SUFFICES ASSUME Ordered(s), NEW j \in DOMAIN Tail(s) PROVE Before(Head(s), Tail(s)[j])
    OBVIOUS
  <2>2. 1 < j + 1 BY <1>1
  <2> QED BY <1>1, <1>2, <2>1, <2>2 DEF Ordered
<1>5. Precedes(t, s) => Precedes(t, Tail(s)) /\ AllBefore(t, Head(s)) BY <1>1, <1>2 DEF Precedes
<1>6. Precedes(s, t) => Precedes(Tail(s), t) /\ (\A j \in DOMAIN t : Before(Head(s), t[j]))
  BY <1>1, <1>2 DEF Precedes, AllBefore
<1>7. \A n : AllBefore(s, n) => AllBefore(Tail(s), n) /\ Before(Head(s), n)
  BY <1>1, <1>2 DEF AllBefore
<1> QED BY <1>3, <1>4, <1>5, <1>6, <1>7

\* The rest of a list without repetitions.
LEMMA DistinctTail ==
  ASSUME NEW S, NEW s \in Seq(S), s # <<>>, Distinct(s)
  PROVE  Distinct(Tail(s)) /\ ~In(Head(s), Tail(s)) /\ \A w : In(w, Tail(s)) => In(w, s)
<1>1. \A i \in DOMAIN Tail(s) : i \in Nat /\ i > 0 /\ i + 1 \in DOMAIN s /\ Tail(s)[i] = s[i + 1]
  BY TailFacts
<1>2. Head(s) = s[1] /\ 1 \in DOMAIN s BY TailFacts
<1>3. Distinct(Tail(s))
  <2>1. SUFFICES ASSUME NEW i \in DOMAIN Tail(s), NEW j \in DOMAIN Tail(s), Tail(s)[i] = Tail(s)[j]
                 PROVE  i = j
    BY DEF Distinct
  <2>2. i + 1 = j + 1 BY <1>1, <2>1 DEF Distinct
  <2> QED BY <1>1, <2>2
<1>4. ~In(Head(s), Tail(s))
  <2>1. SUFFICES ASSUME NEW i \in DOMAIN Tail(s), Tail(s)[i] = Head(s) PROVE FALSE BY DEF In
  <2>2. i + 1 = 1 BY <1>1, <1>2, <2>1 DEF Distinct
  <2> QED BY <1>1, <2>2
<1>5. \A w : In(w, Tail(s)) => In(w, s) BY <1>1 DEF In
<1> QED BY <1>3, <1>4, <1>5

\* AddConsumer() of one that is not there, and RemoveConsumer() of one that is.
LEMMA SliceAppend ==
  ASSUME NEW s \in Seq(Watches), Distinct(s), NEW w \in Watches, ~In(w, s)
  PROVE  Distinct(Append(s, w)) /\ \A v : In(v, Append(s, w)) <=> In(v, s) \/ v = w
<1> DEFINE q == Append(s, w)
<1>1. ASSUME NEW i \in DOMAIN q PROVE (i \in DOMAIN s /\ q[i] = s[i]) \/ (i = Len(s) + 1 /\ q[i] = w)
  BY AppendFacts
<1>2. Len(s) + 1 \in DOMAIN q /\ q[Len(s) + 1] = w BY AppendFacts
<1>3. \A i \in DOMAIN s : i \in DOMAIN q /\ q[i] = s[i] BY AppendFacts
<1> QED BY <1>1, <1>2, <1>3 DEF Distinct, In

\* RemoveConsumer() overwrites the leaving channel with the last one and cuts the slice by
\* one: every other channel is still there, once.
LEMMA SliceWithout ==
  ASSUME consumers \in Seq(Watches), Distinct(consumers), NEW w \in Watches, In(w, consumers)
  PROVE  /\ Without(w) \in Seq(Watches) /\ Distinct(Without(w))
         /\ \A v : In(v, Without(w)) <=> In(v, consumers) /\ v # w
<1> DEFINE n == Len(consumers)
           k == CHOOSE k \in DOMAIN consumers : consumers[k] = w
           s == [consumers EXCEPT ![k] = consumers[n]]
           q == SubSeq(s, 1, n - 1)
<1>1. k \in DOMAIN consumers /\ consumers[k] = w BY DEF In
<1>2. n \in Nat /\ DOMAIN consumers = 1 .. n OBVIOUS
<1>3. n > 0 /\ n \in DOMAIN consumers BY <1>1, <1>2
<1>4. s \in Seq(Watches) /\ Len(s) = n BY <1>1, <1>3
<1>5. q \in Seq(Watches) /\ DOMAIN q = 1 .. n - 1 BY <1>3, <1>4
<1>6. \A i \in 1 .. n - 1 : q[i] = s[i] BY <1>3, <1>4
<1>7. \A i \in 1 .. n - 1 : i \in DOMAIN consumers /\ i # n
                            /\ q[i] = IF i = k THEN consumers[n] ELSE consumers[i]
  BY <1>2, <1>6
<1>8. Without(w) = q BY DEF Without
<1> HIDE DEF q, s, k, n
<1>9. Distinct(q) BY <1>3, <1>5, <1>7 DEF Distinct
<1>10. ASSUME NEW v, In(v, q) PROVE In(v, consumers) /\ v # w
  <2>1. PICK i \in 1 .. n - 1 : q[i] = v BY <1>5, <1>10 DEF In
  <2> QED BY <1>1, <1>3, <1>7, <2>1 DEF In, Distinct
<1>11. ASSUME NEW v, In(v, consumers), v # w PROVE In(v, q)
  <2>1. PICK i \in DOMAIN consumers : consumers[i] = v BY <1>11 DEF In
  <2>2. CASE i = n
    <3>1. k # n BY <1>1, <1>11, <2>1, <2>2
    <3>2. k \in 1 .. n - 1 BY <1>1, <1>2, <3>1
    <3> QED BY <1>5, <1>7, <2>1, <2>2, <3>2 DEF In
  <2>3. CASE i # n
    <3>1. i \in 1 .. n - 1 /\ i # k BY <1>1, <1>2, <1>11, <2>1, <2>3
    <3> QED BY <1>5, <1>7, <2>1, <3>1 DEF In
  <2> QED BY <2>2, <2>3
<1> QED BY <1>5, <1>8, <1>9, <1>10, <1>11

-----------------------------------------------------------------------------
(* What each step does to the fields the invariant is about. *)

\* The multiplexer goes on with the handlers that are left, or is done with the message.
LEMMA OnFields ==
  ASSUME mux \in MuxType, NEW m \in Msg, NEW t \in Seq(Watches)
  PROVE  /\ On(m, t) \in MuxType
         /\ t = <<>> => On(m, t).pc = "idle"
         /\ t # <<>> => On(m, t).pc = "send" /\ On(m, t).msg = m /\ On(m, t).todo = t
  BY DEF On, MuxType, End, Msg, Kinds

\* The job says something of its item, or that it is over.
SendEffect(m) ==
  /\ m \in Msg
  /\ main' = main \/ main' = Append(main, m)
  /\ UNCHANGED <<mux, running, consumers, watch>>

\* The message that the job sends with a report.
Reported(kind) == [seq |-> job'.seq, at |-> job'.sent, kind |-> kind]

\* What the job does when it reports on an item.
LEMMA ReportEffect ==
  ASSUME TypeOK, NEW kind \in {"part", "full", "error"}, NEW next \in BOOLEAN, Report(kind, next)
  PROVE  /\ job' \in JobType /\ job'.seq >= job.seq /\ job'.sent = job.sent + 1
         /\ SendEffect(Reported(kind))
<1> DEFINE seq == IF next THEN job.seq + 1 ELSE job.seq
<1>1. seq \in Nat /\ seq >= job.seq /\ job.sent + 1 \in Nat BY DEF TypeOK, JobType
<1>2. /\ job' = [job EXCEPT !.seq = seq, !.sent = @ + 1]
      /\ SendMsgToWatcher([seq |-> seq, at |-> job.sent + 1, kind |-> kind])
      /\ UNCHANGED <<mux, running, consumers, watch>>
  BY DEF Report
<1> HIDE DEF seq
<1>3. job' \in JobType /\ job'.seq = seq /\ job'.sent = job.sent + 1
  BY <1>1, <1>2 DEF TypeOK, JobType
<1>4. Reported(kind) = [seq |-> seq, at |-> job.sent + 1, kind |-> kind] BY <1>3 DEF Reported
<1>5. Reported(kind) \in Msg BY <1>1, <1>4 DEF Msg, Kinds
<1> QED BY <1>1, <1>2, <1>3, <1>4, <1>5 DEF SendEffect, SendMsgToWatcher

\* What the job does when it is over, cancelled or removed.
LEMMA JobEffect ==
  ASSUME TypeOK
  PROVE  /\ TellClientsJobFinished => /\ job' \in JobType /\ job'.seq = job.seq /\ job'.sent = job.sent
                                      /\ SendEffect(End)
         /\ CancelJob \/ RemoveJob => /\ job' \in JobType /\ job'.seq = job.seq /\ job'.sent = job.sent
                                      /\ UNCHANGED <<main, mux, running, consumers, watch>>
<1>1. End \in Msg BY DEF End, Msg, Kinds
<1>2. ASSUME TellClientsJobFinished
      PROVE  job' \in JobType /\ job'.seq = job.seq /\ job'.sent = job.sent
  BY <1>2 DEF TellClientsJobFinished, TypeOK, JobType
<1>3. TellClientsJobFinished => SendEffect(End)
  BY <1>1 DEF TellClientsJobFinished, SendEffect, SendMsgToWatcher
<1>4. ASSUME CancelJob \/ RemoveJob
      PROVE  job' \in JobType /\ job'.seq = job.seq /\ job'.sent = job.sent
  BY <1>4 DEF CancelJob, RemoveJob, TypeOK, JobType
<1>5. CancelJob \/ RemoveJob => UNCHANGED <<main, mux, running, consumers, watch>>
  BY DEF CancelJob, RemoveJob
<1> QED BY <1>2, <1>3, <1>4, <1>5

\* The multiplexer starts, stops or is told to, and holds no lock.
IdleEffect ==
  /\ mux' \in MuxType /\ mux'.msg = mux.msg /\ mux'.todo = mux.todo
  /\ Locked' => mux'.pc = mux.pc
  /\ running' \in BOOLEAN
  /\ UNCHANGED <<job, main, consumers>>

\* Starting and stopping the multiplexer touch no handler and no message.
LEMMA MuxIdle ==
  ASSUME TypeOK, MuxStart \/ Stop \/ MuxExit
  PROVE  IdleEffect /\ watch' = watch
<1>1. CASE MuxStart BY <1>1 DEF MuxStart, IdleEffect, TypeOK, MuxType, Locked
<1>2. CASE Stop BY <1>2 DEF Stop, IdleEffect, TypeOK, MuxType, Locked
<1>3. CASE MuxExit BY <1>3 DEF MuxExit, IdleEffect, TypeOK, MuxType, Locked
<1> QED BY <1>1, <1>2, <1>3

\* Only where the handlers are, which of their channels are open and what has been said
\* to them matters here.
SameHandlers ==
  /\ watch' \in [Watches -> HandlerType]
  /\ \A w \in Watches : /\ watch'[w].pc = watch[w].pc /\ watch'[w].open = watch[w].open
                        /\ watch'[w].chan = watch[w].chan /\ watch'[w].lines = watch[w].lines

\* TellClientsToExit() only sets flags that the handlers look at.
LEMMA ExitEffect ==
  ASSUME TypeOK, TellClientsToExit
  PROVE  IdleEffect /\ SameHandlers
<1>1. IdleEffect BY DEF TellClientsToExit, IdleEffect, TypeOK, MuxType, Locked
<1>2. SameHandlers
  <2> DEFINE c(w) == watch[w].cancelled \/ \E k \in DOMAIN consumers : consumers[k] = w
  <2>1. watch' = [w \in Watches |-> [watch[w] EXCEPT !.cancelled = c(w)]] BY DEF TellClientsToExit
  <2>2. \A w \in Watches : c(w) \in BOOLEAN OBVIOUS
  <2> HIDE DEF c
  <2>3. ASSUME NEW w \in Watches
        PROVE  /\ watch'[w] \in HandlerType
               /\ watch'[w].pc = watch[w].pc /\ watch'[w].open = watch[w].open
               /\ watch'[w].chan = watch[w].chan /\ watch'[w].lines = watch[w].lines
    <3>1. watch[w] \in HandlerType BY DEF TypeOK
    <3>2. watch'[w] = [watch[w] EXCEPT !.cancelled = c(w)] BY <2>1
    <3> QED BY <2>2, <3>1, <3>2 DEF HandlerType
  <2>4. watch' \in [Watches -> HandlerType] BY <2>1, <2>3
  <2> QED BY <2>3, <2>4 DEF SameHandlers
<1> QED BY <1>1, <1>2

\* The client of a request goes away.
SetGone(w) ==
  /\ watch' = [watch EXCEPT ![w].gone = TRUE]
  /\ UNCHANGED <<job, main, mux, running, consumers>>

\* A client that goes away only sets a flag of its handler.
LEMMA GoneEffect ==
  ASSUME TypeOK, NEW w \in Watches, SetGone(w)
  PROVE  SameHandlers
<1>1. watch[w] \in HandlerType BY DEF TypeOK
<1> QED BY <1>1 DEF SetGone, SameHandlers, TypeOK, HandlerType

\* Only handler w changes.
Only(w) ==
  /\ watch' \in [Watches -> HandlerType]
  /\ \A v \in Watches \ {w} : watch'[v] = watch[v]

\* A request is checked against the job, or refused.
LEMMA RequestEffect ==
  ASSUME TypeOK, NEW w \in Watches, Request(w)
  PROVE  /\ Only(w)
         /\ watch[w].pc = "none" /\ watch'[w].pc \in {"checked", "refused"}
         /\ watch'[w].open = watch[w].open
         /\ watch'[w].chan = watch[w].chan /\ watch'[w].lines = watch[w].lines
         /\ UNCHANGED <<job, main, mux, running, consumers>>
<1>1. watch[w] \in HandlerType BY DEF TypeOK
<1> DEFINE pc == IF job.state # "over" /\ ~job.cancelled THEN "checked" ELSE "refused"
<1>2. pc \in {"checked", "refused"} OBVIOUS
<1>3. watch' = [watch EXCEPT ![w].pc = pc] /\ watch[w].pc = "none" BY DEF Request
<1> HIDE DEF pc
<1>4. watch'[w] = [watch[w] EXCEPT !.pc = pc] BY <1>1, <1>3 DEF TypeOK
<1>5. watch'[w] \in HandlerType BY <1>1, <1>2, <1>4 DEF HandlerType
<1>6. Only(w) BY <1>3, <1>5 DEF Only, TypeOK
<1>7. watch'[w].pc = pc /\ watch'[w].open = watch[w].open
      /\ watch'[w].chan = watch[w].chan /\ watch'[w].lines = watch[w].lines
  BY <1>1, <1>4 DEF HandlerType
<1> QED BY <1>2, <1>3, <1>6, <1>7 DEF Request

\* A line is written, or not kept.
LEMMA WrittenFields ==
  ASSUME TypeOK, NEW w \in Watches, NEW m \in Msg
  PROVE  /\ Written(w, m) \in Seq(Msg)
         /\ Written(w, m) = <<>> \/ Written(w, m) = Append(watch[w].lines, m)
         /\ w \in Dialogs => Written(w, m) = Append(watch[w].lines, m)
<1>1. watch[w].lines \in Seq(Msg) BY DEF TypeOK, HandlerType
<1> QED BY <1>1 DEF Written

\* A line of text that is not a message of the job carries no number.
LEMMA TextType == ASSUME NEW k \in Kinds PROVE Text(k) \in Msg /\ Text(k).seq = 0
  BY DEF Text, Msg

\* What was written for a dialog stays; one line may follow.
Grows(w) ==
  w \in Dialogs => \/ watch'[w].lines = watch[w].lines
                   \/ \E m \in Msg : watch'[w].lines = Append(watch[w].lines, m)

\* The lines of a handler stay, are forgotten, or a text follows them.
TextAfter(w) ==
  /\ \/ watch'[w].lines \in {watch[w].lines, <<>>}
     \/ \E m \in Msg : m.seq = 0 /\ watch'[w].lines = Append(watch[w].lines, m)
  /\ Grows(w)

\* AddConsumer() appends the channel as long as the multiplexer runs.
LEMMA AddEffect ==
  ASSUME TypeOK, NEW w \in Watches, AddConsumer(w)
  PROVE  /\ Only(w) /\ ~Locked /\ watch[w].pc = "checked" /\ watch'[w].chan = watch[w].chan
         /\ IF running THEN /\ consumers' = Append(consumers, w)
                            /\ watch'[w].pc = "watching" /\ watch'[w].open
                       ELSE consumers' = consumers /\ watch'[w].pc = "closed"
         /\ TextAfter(w)
         /\ UNCHANGED <<job, main, mux, running>>
<1>1. watch[w] \in HandlerType /\ running \in BOOLEAN BY DEF TypeOK
<1> DEFINE pc == IF running THEN "watching" ELSE "closed"
           lines == IF running THEN watch[w].lines ELSE Written(w, Text("notReady"))
<1>2. pc \in {"watching", "closed"} OBVIOUS
<1>3. Text("notReady") \in Msg /\ Text("notReady").seq = 0 BY TextType DEF Kinds
<1>4. lines \in Seq(Msg) BY <1>1, <1>3, WrittenFields DEF HandlerType
<1>5. /\ \/ lines \in {watch[w].lines, <<>>}
         \/ \E m \in Msg : m.seq = 0 /\ lines = Append(watch[w].lines, m)
      /\ w \in Dialogs => \/ lines = watch[w].lines
                          \/ \E m \in Msg : lines = Append(watch[w].lines, m)
  BY <1>3, WrittenFields
<1>6. watch' = [watch EXCEPT ![w].pc = pc, ![w].open = running, ![w].lines = lines]
  BY DEF AddConsumer
<1> HIDE DEF pc, lines
<1>7. watch'[w] = [watch[w] EXCEPT !.pc = pc, !.open = running, !.lines = lines]
  BY <1>1, <1>6 DEF TypeOK
<1>8. watch'[w] \in HandlerType
  BY <1>1, <1>2, <1>4, <1>7 DEF HandlerType, Opened, Members
<1>9. Only(w) BY <1>6, <1>8 DEF Only, TypeOK
<1>10. /\ watch'[w].pc = pc /\ watch'[w].open = running /\ watch'[w].lines = lines
       /\ watch'[w].chan = watch[w].chan
  BY <1>1, <1>7 DEF HandlerType
<1>11. TextAfter(w) BY <1>5, <1>10 DEF TextAfter, Grows
<1> QED BY <1>9, <1>10, <1>11 DEF AddConsumer, pc

\* A handler takes the first message of its channel.
LEMMA ReceiveEffect ==
  ASSUME TypeOK, NEW w \in Watches, Receive(w)
  PROVE  /\ Only(w) /\ watch[w].pc = "watching" /\ watch'[w].pc \in {"watching", "ended"}
         /\ watch'[w].open = watch[w].open
         /\ watch[w].chan # <<>> /\ watch'[w].chan = Tail(watch[w].chan)
         /\ \/ watch'[w].lines \in {watch[w].lines, <<>>}
            \/ watch'[w].lines = Append(watch[w].lines, Head(watch[w].chan))
         /\ Grows(w)
         /\ UNCHANGED <<job, main, mux, running, consumers>>
<1>1. watch[w] \in HandlerType BY DEF TypeOK
<1> DEFINE m == Head(watch[w].chan)
           chan == Tail(watch[w].chan)
           pc == IF m = End THEN "ended" ELSE watch[w].pc
           lines == IF m = End THEN watch[w].lines ELSE Written(w, m)
<1>2. watch[w].pc = "watching" /\ watch[w].chan # <<>> BY DEF Receive
<1>3. pc \in {"watching", "ended"} BY <1>2
<1>4. m \in Msg /\ chan \in Seq(Msg) BY <1>1, <1>2, TailFacts DEF HandlerType
<1>5. /\ lines \in Seq(Msg) /\ lines \in {watch[w].lines, <<>>, Append(watch[w].lines, m)}
      /\ w \in Dialogs => lines \in {watch[w].lines, Append(watch[w].lines, m)}
  BY <1>1, <1>4, WrittenFields DEF HandlerType
<1>6. watch' = [watch EXCEPT ![w].chan = chan, ![w].pc = pc, ![w].lines = lines]
  BY DEF Receive
<1> HIDE DEF m, chan, pc, lines
<1>7. watch'[w] = [watch[w] EXCEPT !.chan = chan, !.pc = pc, !.lines = lines]
  BY <1>1, <1>6 DEF TypeOK
<1>8. watch'[w] \in HandlerType
  BY <1>1, <1>3, <1>4, <1>5, <1>7 DEF HandlerType, Opened, Members
<1>9. Only(w) BY <1>6, <1>8 DEF Only, TypeOK
<1>10. /\ watch'[w].pc = pc /\ watch'[w].open = watch[w].open /\ watch'[w].lines = lines
       /\ watch'[w].chan = chan
  BY <1>1, <1>7 DEF HandlerType
<1>11. Grows(w) BY <1>4, <1>5, <1>10 DEF Grows
<1> QED BY <1>2, <1>3, <1>5, <1>9, <1>10, <1>11 DEF Receive, m, chan

\* A handler decides to leave; its channel stays in the slice for now.
LEMMA LeaveEffect ==
  ASSUME TypeOK, NEW w \in Watches, Leave(w)
  PROVE  /\ Only(w) /\ watch[w].pc = "watching" /\ watch'[w].pc \in {"exit", "left"}
         /\ watch'[w].open = watch[w].open
         /\ watch'[w].chan = watch[w].chan /\ watch'[w].lines = watch[w].lines
         /\ UNCHANGED <<job, main, mux, running, consumers>>
<1>1. watch[w] \in HandlerType BY DEF TypeOK
<1>2. PICK pc \in {"exit", "left"} : watch' = [watch EXCEPT ![w].pc = pc] BY DEF Leave
<1>3. watch'[w] = [watch[w] EXCEPT !.pc = pc] BY <1>1, <1>2 DEF TypeOK
<1>4. watch'[w] \in HandlerType BY <1>1, <1>3 DEF HandlerType, Opened, Members
<1>5. Only(w) BY <1>2, <1>4 DEF Only, TypeOK
<1>6. watch'[w].pc = pc /\ watch'[w].open = watch[w].open
      /\ watch'[w].chan = watch[w].chan /\ watch'[w].lines = watch[w].lines
  BY <1>1, <1>3 DEF HandlerType
<1> QED BY <1>5, <1>6 DEF Leave

\* RemoveConsumer() takes the channel out of the slice.
LEMMA RemoveEffect ==
  ASSUME TypeOK, NEW w \in Watches, RemoveConsumer(w)
  PROVE  /\ Only(w) /\ ~Locked /\ watch[w].pc \in Members
         /\ watch'[w].pc \in Opened \ Members /\ watch'[w].open = watch[w].open
         /\ watch'[w].chan = watch[w].chan /\ watch'[w].lines = watch[w].lines
         /\ consumers' = Without(w)
         /\ UNCHANGED <<job, main, mux, running>>
<1>1. watch[w] \in HandlerType BY DEF TypeOK
<1> DEFINE pc == IF watch[w].pc = "ended" THEN "finishing"
                 ELSE IF watch[w].pc = "exit" THEN "exiting" ELSE "leaving"
<1>2. pc \in Opened \ Members BY DEF Opened, Members
<1>3. watch' = [watch EXCEPT ![w].pc = pc] BY DEF RemoveConsumer
<1> HIDE DEF pc
<1>4. watch'[w] = [watch[w] EXCEPT !.pc = pc] BY <1>1, <1>3 DEF TypeOK
<1>5. watch'[w] \in HandlerType BY <1>1, <1>2, <1>4 DEF HandlerType
<1>6. Only(w) BY <1>3, <1>5 DEF Only, TypeOK
<1>7. watch'[w].pc = pc /\ watch'[w].open = watch[w].open
      /\ watch'[w].chan = watch[w].chan /\ watch'[w].lines = watch[w].lines
  BY <1>1, <1>4 DEF HandlerType
<1> QED BY <1>2, <1>6, <1>7 DEF RemoveConsumer, Members

\* Only then is the channel closed, and a last line written.
LEMMA CloseEffect ==
  ASSUME TypeOK, NEW w \in Watches, CloseChan(w)
  PROVE  /\ Only(w) /\ watch[w].pc \in Opened \ Members /\ watch'[w].pc = "closed"
         /\ watch'[w].chan = <<>> /\ TextAfter(w)
         /\ UNCHANGED <<job, main, mux, running, consumers>>
<1>1. watch[w] \in HandlerType BY DEF TypeOK
<1> DEFINE lines == CASE watch[w].pc = "finishing" -> Written(w, Text("jobOver"))
                      [] watch[w].pc = "exiting" -> Written(w, Text("exits"))
                      [] OTHER -> watch[w].lines
<1>2. /\ Text("jobOver") \in Msg /\ Text("jobOver").seq = 0
      /\ Text("exits") \in Msg /\ Text("exits").seq = 0
  BY TextType DEF Kinds
<1>3. lines \in {watch[w].lines, Written(w, Text("jobOver")), Written(w, Text("exits"))} OBVIOUS
<1>4. lines \in Seq(Msg) BY <1>1, <1>2, <1>3, WrittenFields DEF HandlerType
<1>5. /\ \/ lines \in {watch[w].lines, <<>>}
         \/ \E m \in Msg : m.seq = 0 /\ lines = Append(watch[w].lines, m)
      /\ w \in Dialogs => \/ lines = watch[w].lines
                          \/ \E m \in Msg : lines = Append(watch[w].lines, m)
  BY <1>2, <1>3, WrittenFields
<1>6. watch' = [watch EXCEPT ![w].pc = "closed", ![w].open = FALSE, ![w].chan = <<>>, ![w].path = 0,
                             ![w].lines = lines]
  BY DEF CloseChan
<1> HIDE DEF lines
<1>7. watch'[w] = [watch[w] EXCEPT !.pc = "closed", !.open = FALSE, !.chan = <<>>, !.path = 0,
                                   !.lines = lines]
  BY <1>1, <1>6 DEF TypeOK
<1>8. watch'[w] \in HandlerType
  <2>1. <<>> \in Seq(Msg) /\ 0 \in Nat /\ FALSE \in BOOLEAN OBVIOUS
  <2> DEFINE h == [watch[w] EXCEPT !.pc = "closed", !.open = FALSE, !.path = 0]
  <2>2. h \in HandlerType BY <1>1, <2>1 DEF HandlerType
  <2>3. watch'[w] = [h EXCEPT !.chan = <<>>, !.lines = lines] BY <1>1, <1>7 DEF HandlerType
  <2> HIDE DEF h
  <2> QED BY <1>4, <2>1, <2>2, <2>3 DEF HandlerType
<1>9. Only(w) BY <1>6, <1>8 DEF Only, TypeOK
<1>10. watch'[w].pc = "closed" /\ watch'[w].chan = <<>> /\ watch'[w].lines = lines
  BY <1>1, <1>7 DEF HandlerType
<1>11. TextAfter(w) BY <1>5, <1>10 DEF TextAfter, Grows
<1> QED BY <1>9, <1>10, <1>11 DEF CloseChan, Opened, Members

\* The multiplexer takes a message for all consumers; there may be none.
LEMMA TakeEffect ==
  ASSUME TypeOK, MuxTake
  PROVE  /\ main # <<>> /\ main' = Tail(main) /\ ~Locked
         /\ mux' \in MuxType
         /\ \/ ~Locked'
            \/ mux'.msg = Head(main) /\ mux'.todo = consumers /\ consumers # <<>>
         /\ UNCHANGED <<job, running, consumers, watch>>
<1>1. main # <<>> /\ mux' = On(Head(main), consumers) /\ mux.pc = "idle" BY DEF MuxTake
<1>2. Head(main) \in Msg BY <1>1, TailFacts DEF TypeOK
<1>3. mux' \in MuxType /\ (consumers = <<>> => mux'.pc = "idle")
      /\ (consumers # <<>> => mux'.msg = Head(main) /\ mux'.todo = consumers)
  BY <1>1, <1>2, OnFields DEF TypeOK
<1>4. ~Locked' \/ (mux'.msg = Head(main) /\ mux'.todo = consumers /\ consumers # <<>>)
  BY <1>3 DEF Locked
<1> QED BY <1>1, <1>3, <1>4 DEF MuxTake, Locked

\* The message in hand is put at the end of the channel of the next consumer or not, after
\* the first one of it may have been taken out.
ForwardEffect(w) ==
  /\ w \in Watches /\ w = Head(mux.todo)
  /\ Only(w) /\ watch'[w].pc = watch[w].pc /\ watch'[w].open = watch[w].open
  /\ watch'[w].lines = watch[w].lines
  /\ mux' \in MuxType
  /\ \/ watch'[w].chan = watch[w].chan
     \/ watch[w].chan # <<>> /\ watch'[w].chan = Tail(watch[w].chan)
     \/ watch'[w].chan = Append(watch[w].chan, mux.msg) /\ (Locked' => mux'.todo = Tail(mux.todo))
  /\ Locked' => /\ mux'.msg = mux.msg
                /\ mux'.todo = mux.todo \/ (mux'.todo = Tail(mux.todo) /\ Tail(mux.todo) # <<>>)
  /\ UNCHANGED <<job, main, running, consumers>>

\* On() for the consumers after the first one.
LEMMA OnNext ==
  ASSUME TypeOK, mux.todo # <<>>, mux' = On(mux.msg, Tail(mux.todo))
  PROVE  /\ mux' \in MuxType
         /\ Locked' => /\ mux'.msg = mux.msg
                       /\ mux'.todo = Tail(mux.todo) /\ Tail(mux.todo) # <<>>
<1>1. mux.msg \in Msg /\ mux.todo \in Seq(Watches) BY DEF TypeOK, MuxType
<1>2. Tail(mux.todo) \in Seq(Watches) BY <1>1, TailFacts
<1>3. /\ mux' \in MuxType
      /\ Tail(mux.todo) = <<>> => mux'.pc = "idle"
      /\ Tail(mux.todo) # <<>> => mux'.msg = mux.msg /\ mux'.todo = Tail(mux.todo)
  BY <1>1, <1>2, OnFields DEF TypeOK
<1> QED BY <1>3 DEF Locked

\* The multiplexer sends to the first handler that is left, or finds its channel full.
LEMMA SendStepEffect ==
  ASSUME TypeOK, TodoOK, MuxSend
  PROVE  Locked /\ ForwardEffect(Head(mux.todo))
<1> DEFINE w == Head(mux.todo)
<1>1. Locked /\ mux.todo # <<>> BY DEF MuxSend, Locked, TodoOK
<1>2. mux \in MuxType /\ mux.msg \in Msg /\ mux.todo \in Seq(Watches) BY DEF TypeOK, MuxType
<1>3. w \in Watches BY <1>1, <1>2, TailFacts
<1>4. watch[w] \in HandlerType BY <1>3 DEF TypeOK
<1> DEFINE path == PathAfter(watch[w], mux.msg)
           room == Len(watch[w].chan) < ChanSize
<1>5. path \in Nat BY <1>2, <1>4 DEF PathAfter, HandlerType, Msg
<1>6. PICK allowed \in Allowed(watch[w], mux.msg) :
        /\ watch' = [watch EXCEPT ![w].path = path,
                                  ![w].chan = IF allowed /\ room THEN Append(@, mux.msg) ELSE @]
        /\ mux' = IF allowed /\ ~room THEN [mux EXCEPT !.pc = "full"] ELSE On(mux.msg, Tail(mux.todo))
  BY DEF MuxSend
<1> DEFINE chan == IF allowed /\ room THEN Append(watch[w].chan, mux.msg) ELSE watch[w].chan
<1>7. watch' = [watch EXCEPT ![w].path = path, ![w].chan = chan] BY <1>6
<1>8. chan \in Seq(Msg) BY <1>2, <1>4 DEF HandlerType
<1>9. chan = watch[w].chan \/ (chan = Append(watch[w].chan, mux.msg) /\ allowed /\ room) OBVIOUS
<1>10. /\ mux' \in MuxType
       /\ allowed /\ room /\ Locked' => mux'.todo = Tail(mux.todo)
       /\ Locked' => /\ mux'.msg = mux.msg
                     /\ mux'.todo = mux.todo \/ (mux'.todo = Tail(mux.todo) /\ Tail(mux.todo) # <<>>)
  <2>1. CASE allowed /\ ~room
    <3>1. mux' = [mux EXCEPT !.pc = "full"] BY <1>6, <2>1
    <3>2. mux' \in MuxType /\ mux'.msg = mux.msg /\ mux'.todo = mux.todo BY <1>2, <3>1 DEF MuxType
    <3> QED BY <2>1, <3>2
  <2>2. CASE ~(allowed /\ ~room)
    <3>1. mux' = On(mux.msg, Tail(mux.todo)) BY <1>6, <2>2
    <3> QED BY <1>1, <3>1, OnNext
  <2> QED BY <2>1, <2>2
<1> HIDE DEF chan, path, w, room
<1>11. watch'[w] = [watch[w] EXCEPT !.path = path, !.chan = chan] BY <1>3, <1>4, <1>7 DEF TypeOK
<1>12. watch'[w] \in HandlerType BY <1>4, <1>5, <1>8, <1>11 DEF HandlerType
<1>13. Only(w) BY <1>3, <1>7, <1>12 DEF Only, TypeOK
<1>14. /\ watch'[w].pc = watch[w].pc /\ watch'[w].open = watch[w].open
       /\ watch'[w].lines = watch[w].lines /\ watch'[w].chan = chan
  BY <1>4, <1>11 DEF HandlerType
<1>15. UNCHANGED <<job, main, running, consumers>> BY DEF MuxSend
<1>16. ForwardEffect(w) BY <1>3, <1>9, <1>10, <1>13, <1>14, <1>15 DEF ForwardEffect, w
<1> QED BY <1>1, <1>16 DEF w

\* It drops the oldest message of a full channel.
LEMMA DropEffect ==
  ASSUME TypeOK, TodoOK, MuxDrop
  PROVE  Locked /\ ForwardEffect(Head(mux.todo))
<1> DEFINE w == Head(mux.todo)
<1>1. Locked /\ mux.todo # <<>> BY DEF MuxDrop, Locked, TodoOK
<1>2. mux \in MuxType /\ mux.todo \in Seq(Watches) BY DEF TypeOK, MuxType
<1>3. w \in Watches BY <1>1, <1>2, TailFacts
<1>4. watch[w] \in HandlerType BY <1>3 DEF TypeOK
<1>5. UNCHANGED <<job, main, running, consumers>> BY DEF MuxDrop
<1>6. CASE watch[w].chan = <<>>
  <2>1. mux' = On(mux.msg, Tail(mux.todo)) /\ watch' = watch BY <1>6 DEF MuxDrop
  <2>2. Only(w) BY <2>1 DEF Only, TypeOK
  <2> QED BY <1>1, <1>3, <1>5, <2>1, <2>2, OnNext DEF ForwardEffect
<1>7. CASE watch[w].chan # <<>>
  <2> DEFINE chan == Tail(watch[w].chan)
  <2>1. watch' = [watch EXCEPT ![w].chan = chan] /\ mux' = [mux EXCEPT !.pc = "retry"]
    BY <1>7 DEF MuxDrop
  <2>2. mux' \in MuxType /\ mux'.msg = mux.msg /\ mux'.todo = mux.todo BY <1>2, <2>1 DEF MuxType
  <2>3. chan \in Seq(Msg) BY <1>4, <1>7, TailFacts DEF HandlerType
  <2> HIDE DEF chan, w
  <2>4. watch'[w] = [watch[w] EXCEPT !.chan = chan] BY <1>3, <1>4, <2>1 DEF TypeOK
  <2>5. watch'[w] \in HandlerType BY <1>4, <2>3, <2>4 DEF HandlerType
  <2>6. Only(w) BY <1>3, <2>1, <2>5 DEF Only, TypeOK
  <2>7. /\ watch'[w].pc = watch[w].pc /\ watch'[w].open = watch[w].open
        /\ watch'[w].lines = watch[w].lines /\ watch'[w].chan = chan
    BY <1>4, <2>4 DEF HandlerType
  <2>8. ForwardEffect(w) BY <1>3, <1>5, <1>7, <2>2, <2>6, <2>7 DEF ForwardEffect, w, chan
  <2> QED BY <1>1, <2>8 DEF w
<1> QED BY <1>1, <1>6, <1>7

\* It tries again after that.
LEMMA RetryEffect ==
  ASSUME TypeOK, TodoOK, MuxRetry
  PROVE  Locked /\ ForwardEffect(Head(mux.todo))
<1> DEFINE w == Head(mux.todo)
           chan == IF Len(watch[w].chan) < ChanSize THEN Append(watch[w].chan, mux.msg)
                                                    ELSE watch[w].chan
<1>1. Locked /\ mux.todo # <<>> BY DEF MuxRetry, Locked, TodoOK
<1>2. mux \in MuxType /\ mux.msg \in Msg /\ mux.todo \in Seq(Watches) BY DEF TypeOK, MuxType
<1>3. w \in Watches BY <1>1, <1>2, TailFacts
<1>4. watch[w] \in HandlerType BY <1>3 DEF TypeOK
<1>5. chan \in Seq(Msg) /\ chan \in {watch[w].chan, Append(watch[w].chan, mux.msg)}
  BY <1>2, <1>4 DEF HandlerType
<1>6. watch' = [watch EXCEPT ![w].chan = chan] /\ mux' = On(mux.msg, Tail(mux.todo))
      /\ UNCHANGED <<job, main, running, consumers>>
  BY DEF MuxRetry
<1>7. /\ mux' \in MuxType
      /\ Locked' => mux'.msg = mux.msg /\ mux'.todo = Tail(mux.todo) /\ Tail(mux.todo) # <<>>
  BY <1>1, <1>6, OnNext
<1> HIDE DEF chan, w
<1>8. watch'[w] = [watch[w] EXCEPT !.chan = chan] BY <1>3, <1>4, <1>6 DEF TypeOK
<1>9. watch'[w] \in HandlerType BY <1>4, <1>5, <1>8 DEF HandlerType
<1>10. Only(w) BY <1>3, <1>6, <1>9 DEF Only, TypeOK
<1>11. /\ watch'[w].pc = watch[w].pc /\ watch'[w].open = watch[w].open
       /\ watch'[w].lines = watch[w].lines /\ watch'[w].chan = chan
  BY <1>4, <1>8 DEF HandlerType
<1>12. ForwardEffect(w) BY <1>3, <1>5, <1>6, <1>7, <1>10, <1>11 DEF ForwardEffect, w
<1> QED BY <1>1, <1>12 DEF w

-----------------------------------------------------------------------------
(* The invariant. *)

\* Where the steps of dialogs and clients meet the server.
LEMMA Steps ==
  ASSUME [Next]_vars
  PROVE  \/ CancelJob \/ RemoveJob \/ TellClientsJobFinished
         \/ \E kind \in {"part", "full", "error"} : \E next \in BOOLEAN : Report(kind, next)
         \/ MuxStart \/ Stop \/ MuxExit \/ TellClientsToExit
         \/ MuxTake \/ MuxSend \/ MuxDrop \/ MuxRetry
         \/ \E w \in Watches : \/ AddConsumer(w) \/ Receive(w) \/ Leave(w) \/ RemoveConsumer(w)
                               \/ CloseChan(w) \/ Request(w) \/ SetGone(w)
         \/ UNCHANGED watcherVars
<1>1. CASE NextWatcher BY <1>1 DEF NextWatcher
<1>2. ASSUME NEW d \in Dialogs, NextDialog(d)
      PROVE  Request(d) \/ SetGone(d) \/ UNCHANGED watcherVars
  BY <1>2 DEF NextDialog, OpenWatch, ReadChunk, StreamEnds, StreamFails, CloseWatch, ClearEvents,
     SetGone
<1>3. ASSUME NEW w \in Watches, Attach(w) \/ Interrupt(w) PROVE Request(w) \/ SetGone(w)
  BY <1>3 DEF Attach, Interrupt, SetGone
<1>4. CASE UNCHANGED vars BY <1>4 DEF vars
<1> QED BY <1>1, <1>2, <1>3, <1>4, WatcherAssumption DEF Next

\* Every action of job, multiplexer and handlers keeps the types.
LEMMA TypeStep == ASSUME TypeOK, SliceOK, TodoOK, [Next]_vars PROVE TypeOK'
<1> USE DEF TypeOK
<1>1. ASSUME NEW m, SendEffect(m), job' \in JobType PROVE TypeOK'
  BY <1>1 DEF SendEffect
<1>2. CASE \E kind \in {"part", "full", "error"} : \E next \in BOOLEAN : Report(kind, next) BY <1>1, <1>2, ReportEffect
<1>3. CASE CancelJob \/ RemoveJob BY <1>3, JobEffect
<1>4. CASE TellClientsJobFinished BY <1>1, <1>4, JobEffect
<1>5. CASE MuxStart \/ Stop \/ MuxExit BY <1>5, MuxIdle DEF IdleEffect
<1>6. CASE TellClientsToExit BY <1>6, ExitEffect DEF IdleEffect, SameHandlers
<1>7. CASE MuxTake BY <1>7, TakeEffect, TailFacts
<1>8. CASE MuxSend \/ MuxDrop \/ MuxRetry
  BY <1>8, SendStepEffect, DropEffect, RetryEffect DEF ForwardEffect, Only
<1>9. ASSUME NEW w \in Watches, AddConsumer(w) PROVE TypeOK'
  <2>1. consumers' \in Seq(Watches) BY <1>9, AddEffect, AppendFacts
  <2> QED BY <1>9, <2>1, AddEffect DEF Only
<1>10. ASSUME NEW w \in Watches, Receive(w) PROVE TypeOK' BY <1>10, ReceiveEffect DEF Only
<1>11. ASSUME NEW w \in Watches, Leave(w) PROVE TypeOK' BY <1>11, LeaveEffect DEF Only
<1>12. ASSUME NEW w \in Watches, RemoveConsumer(w) PROVE TypeOK'
  BY <1>12, RemoveEffect, SliceWithout DEF Only, SliceOK
<1>13. ASSUME NEW w \in Watches, CloseChan(w) PROVE TypeOK' BY <1>13, CloseEffect DEF Only
<1>14. ASSUME NEW w \in Watches, Request(w) PROVE TypeOK' BY <1>14, RequestEffect DEF Only
<1>15. ASSUME NEW w \in Watches, SetGone(w) PROVE TypeOK'
  BY <1>15, GoneEffect DEF SetGone, SameHandlers
<1>16. CASE UNCHANGED watcherVars BY <1>16 DEF watcherVars
<1> QED BY Steps, <1>2, <1>3, <1>4, <1>5, <1>6, <1>7, <1>8, <1>9, <1>10, <1>11, <1>12, <1>13,
           <1>14, <1>15, <1>16

\* The slice of consumers is changed only by those who enter and leave it (AddConsumer,
\* RemoveConsumer, the handlers).
LEMMA SliceStep == ASSUME TypeOK, SliceOK, TodoOK, [Next]_vars PROVE SliceOK'
<1>1. ASSUME consumers' = consumers,
             \A w \in Watches : watch'[w].pc = watch[w].pc /\ watch'[w].open = watch[w].open
      PROVE  SliceOK'
  BY <1>1 DEF SliceOK
<1>2. ASSUME NEW w \in Watches, Only(w), consumers' = consumers,
             watch[w].pc \in Members <=> watch'[w].pc \in Members,
             watch'[w].pc \in Opened => watch'[w].open
      PROVE  SliceOK'
  BY <1>2 DEF SliceOK, Only
<1>3. CASE \E kind \in {"part", "full", "error"} : \E next \in BOOLEAN : Report(kind, next)
  BY <1>1, <1>3, ReportEffect DEF SendEffect
<1>4. CASE CancelJob \/ RemoveJob \/ TellClientsJobFinished
  BY <1>1, <1>4, JobEffect DEF SendEffect
<1>5. CASE MuxStart \/ Stop \/ MuxExit BY <1>1, <1>5, MuxIdle DEF IdleEffect
<1>6. CASE TellClientsToExit BY <1>1, <1>6, ExitEffect DEF IdleEffect, SameHandlers
<1>7. CASE MuxTake BY <1>1, <1>7, TakeEffect
<1>8. CASE MuxSend \/ MuxDrop \/ MuxRetry
  BY <1>1, <1>8, SendStepEffect, DropEffect, RetryEffect DEF ForwardEffect, Only
<1>9. ASSUME NEW w \in Watches, AddConsumer(w) PROVE SliceOK'
  <2>1. ~In(w, consumers) BY <1>9, AddEffect DEF SliceOK, Members
  <2>2. Distinct(Append(consumers, w)) /\ \A v : In(v, Append(consumers, w)) <=> In(v, consumers) \/ v = w
    BY <2>1, SliceAppend DEF TypeOK, SliceOK
  <2>3. CASE running
    <3>1. consumers' = Append(consumers, w) /\ Only(w) /\ watch'[w].pc = "watching" /\ watch'[w].open
      BY <1>9, <2>3, AddEffect
    <3> QED BY <2>2, <3>1 DEF SliceOK, Only, Members
  <2>4. CASE ~running BY <1>2, <1>9, <2>4, AddEffect DEF Members, Opened
  <2> QED BY <2>3, <2>4
<1>10. ASSUME NEW w \in Watches, Receive(w) PROVE SliceOK'
  BY <1>2, <1>10, ReceiveEffect DEF SliceOK, Members, Opened
<1>11. ASSUME NEW w \in Watches, Leave(w) PROVE SliceOK'
  BY <1>2, <1>11, LeaveEffect DEF SliceOK, Members, Opened
<1>12. ASSUME NEW w \in Watches, RemoveConsumer(w) PROVE SliceOK'
  <2>1. In(w, consumers) BY <1>12, RemoveEffect DEF SliceOK
  <2>2. Distinct(Without(w)) /\ \A v : In(v, Without(w)) <=> In(v, consumers) /\ v # w
    BY <2>1, SliceWithout DEF TypeOK, SliceOK
  <2>3. /\ consumers' = Without(w) /\ Only(w) /\ watch[w].pc \in Members
        /\ watch'[w].pc \in Opened \ Members /\ watch'[w].open = watch[w].open
    BY <1>12, RemoveEffect
  <2> QED BY <2>2, <2>3 DEF SliceOK, Only, Opened
<1>13. ASSUME NEW w \in Watches, CloseChan(w) PROVE SliceOK'
  BY <1>2, <1>13, CloseEffect DEF Members, Opened
<1>14. ASSUME NEW w \in Watches, Request(w) PROVE SliceOK'
  BY <1>2, <1>14, RequestEffect DEF Members, Opened
<1>15. ASSUME NEW w \in Watches, SetGone(w) PROVE SliceOK'
  BY <1>1, <1>15, GoneEffect DEF SetGone, SameHandlers
<1>16. CASE UNCHANGED watcherVars BY <1>1, <1>16 DEF watcherVars
<1> QED BY Steps, <1>3, <1>4, <1>5, <1>6, <1>7, <1>8, <1>9, <1>10, <1>11, <1>12, <1>13,
           <1>14, <1>15, <1>16

\* While the multiplexer holds its lock, those it has yet to serve stay registered
\* (sendMsgToClients against AddConsumer and RemoveConsumer).
LEMMA TodoStep == ASSUME TypeOK, SliceOK, TodoOK, [Next]_vars PROVE TodoOK'
<1>0. \A k \in DOMAIN mux.todo : mux.todo[k] \in Watches BY DEF TypeOK, MuxType
<1>1. ASSUME mux'.todo = mux.todo, Locked' => Locked,
             \A w \in Watches : watch[w].pc \in Members => watch'[w].pc \in Members
      PROVE  TodoOK'
  BY <1>0, <1>1 DEF TodoOK
<1>2. ASSUME NEW w \in Watches, Only(w), mux' = mux,
             watch[w].pc \in Members => watch'[w].pc \in Members
      PROVE  TodoOK'
  BY <1>1, <1>2 DEF Only, Locked
<1>3. CASE \E kind \in {"part", "full", "error"} : \E next \in BOOLEAN : Report(kind, next)
  BY <1>1, <1>3, ReportEffect DEF SendEffect, Locked
<1>4. CASE CancelJob \/ RemoveJob \/ TellClientsJobFinished
  BY <1>1, <1>4, JobEffect DEF SendEffect, Locked
<1>5. CASE MuxStart \/ Stop \/ MuxExit BY <1>1, <1>5, MuxIdle DEF IdleEffect, Locked
<1>6. CASE TellClientsToExit BY <1>1, <1>6, ExitEffect DEF IdleEffect, SameHandlers, Locked
<1>7. CASE MuxTake
  <2>1. /\ ~Locked' \/ (mux'.todo = consumers /\ consumers # <<>>)
        /\ watch' = watch
    BY <1>7, TakeEffect
  <2>2. \A k \in DOMAIN consumers : watch[consumers[k]].pc \in Members
    BY DEF TypeOK, SliceOK, In
  <2> QED BY <2>1, <2>2 DEF TodoOK, SliceOK
<1>8. CASE MuxSend \/ MuxDrop \/ MuxRetry
  <2>1. Locked /\ ForwardEffect(Head(mux.todo))
    BY <1>8, SendStepEffect, DropEffect, RetryEffect
  <2>2. \A w \in Watches : watch'[w].pc = watch[w].pc BY <2>1 DEF ForwardEffect, Only
  <2>3. CASE mux'.todo = mux.todo BY <1>1, <2>1, <2>2, <2>3
  <2>4. CASE ~Locked' BY <2>4 DEF TodoOK
  <2>5. CASE mux'.todo = Tail(mux.todo) /\ Tail(mux.todo) # <<>>
    <3>1. mux.todo # <<>> /\ Distinct(mux.todo) /\ mux.todo \in Seq(Watches)
      BY <2>1 DEF TodoOK, TypeOK, MuxType
    <3>2. Distinct(mux'.todo) /\ \A w : In(w, mux'.todo) => In(w, mux.todo)
      BY <2>5, <3>1, DistinctTail
    <3>3. \A k \in DOMAIN mux'.todo : \E j \in DOMAIN mux.todo : mux.todo[j] = mux'.todo[k]
      BY <3>2 DEF In
    <3> QED BY <1>0, <2>1, <2>2, <2>5, <3>2, <3>3 DEF TodoOK
  <2> QED BY <2>1, <2>3, <2>4, <2>5 DEF ForwardEffect
<1>9. ASSUME NEW w \in Watches, AddConsumer(w) PROVE TodoOK'
  BY <1>2, <1>9, AddEffect DEF Members
<1>10. ASSUME NEW w \in Watches, Receive(w) PROVE TodoOK'
  BY <1>2, <1>10, ReceiveEffect DEF Members
<1>11. ASSUME NEW w \in Watches, Leave(w) PROVE TodoOK'
  BY <1>2, <1>11, LeaveEffect DEF Members
<1>12. ASSUME NEW w \in Watches, RemoveConsumer(w) PROVE TodoOK'
  BY <1>12, RemoveEffect DEF TodoOK, Locked
<1>13. ASSUME NEW w \in Watches, CloseChan(w) PROVE TodoOK'
  BY <1>2, <1>13, CloseEffect
<1>14. ASSUME NEW w \in Watches, Request(w) PROVE TodoOK'
  BY <1>2, <1>14, RequestEffect DEF Members
<1>15. ASSUME NEW w \in Watches, SetGone(w) PROVE TodoOK'
  BY <1>1, <1>15, GoneEffect DEF SetGone, SameHandlers, Locked
<1>16. CASE UNCHANGED watcherVars BY <1>1, <1>16 DEF watcherVars, Locked
<1> QED BY Steps, <1>3, <1>4, <1>5, <1>6, <1>7, <1>8, <1>9, <1>10, <1>11, <1>12, <1>13,
           <1>14, <1>15, <1>16

-----------------------------------------------------------------------------
(* The order of the messages. *)

\* The job says something that comes after all it has said.
LEMMA PipeSay ==
  ASSUME NEW j \in JobType, NEW k \in JobType, NEW m \in Msg, SaidBy(k, m),
         \A x \in Msg : SaidBy(j, x) => SaidBy(k, x) /\ Before(x, m),
         NEW lines \in Seq(Msg), NEW chan \in Seq(Msg), NEW queue \in Seq(Msg),
         Pipe(j, lines, chan, queue)
  PROVE  Pipe(k, lines, chan, queue) /\ Pipe(k, lines, chan, Append(queue, m))
<1>1. ASSUME NEW s \in Seq(Msg), AllSaid(j, s) PROVE AllSaid(k, s) /\ AllBefore(s, m)
  <2>1. \A i \in DOMAIN s : s[i] \in Msg OBVIOUS
  <2> QED BY <1>1, <2>1 DEF AllSaid, AllBefore
<1>2. AllSaid(k, Append(queue, m))
  <2>1. AllSaid(k, queue) BY <1>1 DEF Pipe
  <2>2. \A i \in DOMAIN Append(queue, m) :
          (i \in DOMAIN queue /\ Append(queue, m)[i] = queue[i]) \/ Append(queue, m)[i] = m
    BY AppendFacts
  <2> QED BY <2>1, <2>2 DEF AllSaid
<1> QED BY <1>1, <1>2, OrderAppend DEF Pipe

\* The handler takes a message out of its channel and writes it, keeps it to itself, or
\* what it wrote is forgotten.
LEMMA PipeReceive ==
  ASSUME NEW j, NEW lines \in Seq(Msg), NEW chan \in Seq(Msg), NEW queue \in Seq(Msg),
         Pipe(j, lines, chan, queue), chan # <<>>
  PROVE  /\ Pipe(j, lines, Tail(chan), queue)
         /\ Pipe(j, Append(lines, Head(chan)), Tail(chan), queue)
<1>1. Head(chan) \in Msg BY TailFacts
<1>2. AllSaid(j, Tail(chan)) /\ SaidBy(j, Head(chan)) BY TailFacts DEF Pipe, AllSaid
<1>3. \A i \in DOMAIN Append(lines, Head(chan)) :
        \/ i \in DOMAIN lines /\ Append(lines, Head(chan))[i] = lines[i]
        \/ Append(lines, Head(chan))[i] = Head(chan)
  BY <1>1, AppendFacts
<1>4. AllSaid(j, Append(lines, Head(chan))) BY <1>2, <1>3 DEF Pipe, AllSaid
<1>5. Ordered(Tail(chan)) /\ (\A i \in DOMAIN Tail(chan) : Before(Head(chan), Tail(chan)[i]))
  BY OrderTail DEF Pipe
<1>6. Precedes(lines, Tail(chan)) /\ AllBefore(lines, Head(chan)) BY OrderTail DEF Pipe
<1>7. Precedes(Tail(chan), queue) /\ (\A i \in DOMAIN queue : Before(Head(chan), queue[i]))
  BY OrderTail DEF Pipe
<1>8. Pipe(j, lines, Tail(chan), queue) BY <1>2, <1>5, <1>6, <1>7 DEF Pipe
<1>9. /\ Ordered(Append(lines, Head(chan))) /\ Precedes(Append(lines, Head(chan)), Tail(chan))
      /\ Precedes(Append(lines, Head(chan)), queue)
  BY <1>1, <1>5, <1>6, <1>7, OrderAppend DEF Pipe
<1> QED BY <1>2, <1>4, <1>5, <1>7, <1>8, <1>9 DEF Pipe

\* Nothing has an order with a text, and nothing with what is forgotten.
LEMMA PipeText ==
  ASSUME NEW j, NEW lines \in Seq(Msg), NEW chan \in Seq(Msg), NEW queue \in Seq(Msg),
         Pipe(j, lines, chan, queue)
  PROVE  /\ Pipe(j, <<>>, chan, queue) /\ Pipe(j, lines, <<>>, queue)
         /\ \A m \in Msg : m.seq = 0 => Pipe(j, Append(lines, m), chan, queue)
<1>1. Pipe(j, <<>>, chan, queue) /\ Pipe(j, lines, <<>>, queue)
  BY DEF Pipe, Ordered, Precedes, AllBefore, AllSaid
<1>2. ASSUME NEW m \in Msg, m.seq = 0 PROVE Pipe(j, Append(lines, m), chan, queue)
  <2>1. \A x : Before(x, m) /\ Before(m, x) BY <1>2 DEF Before
  <2>2. AllBefore(lines, m) BY <2>1 DEF AllBefore
  <2>3. Ordered(Append(lines, m)) /\ Precedes(Append(lines, m), chan) /\ Precedes(Append(lines, m), queue)
    BY <2>1, <2>2, OrderAppend DEF Pipe
  <2>4. \A i \in DOMAIN Append(lines, m) :
          (i \in DOMAIN lines /\ Append(lines, m)[i] = lines[i]) \/ Append(lines, m)[i] = m
    BY AppendFacts
  <2>5. AllSaid(j, Append(lines, m)) BY <1>2, <2>4 DEF Pipe, AllSaid, SaidBy
  <2> QED BY <2>3, <2>5 DEF Pipe
<1> QED BY <1>1, <1>2

\* The multiplexer puts a message into the channel of a consumer.
LEMMA PipeForward ==
  ASSUME NEW j, NEW lines \in Seq(Msg), NEW chan \in Seq(Msg), NEW queue \in Seq(Msg),
         NEW m \in Msg, Pipe(j, lines, chan, queue), AllBefore(lines, m), AllBefore(chan, m),
         SaidBy(j, m), \A i \in DOMAIN queue : Before(m, queue[i])
  PROVE  Pipe(j, lines, Append(chan, m), queue)
<1>1. /\ Ordered(Append(chan, m)) /\ Precedes(lines, Append(chan, m))
      /\ Precedes(Append(chan, m), queue)
  BY OrderAppend DEF Pipe
<1>2. \A i \in DOMAIN Append(chan, m) :
        (i \in DOMAIN chan /\ Append(chan, m)[i] = chan[i]) \/ Append(chan, m)[i] = m
  BY AppendFacts
<1>3. AllSaid(j, Append(chan, m)) BY <1>2 DEF Pipe, AllSaid
<1> QED BY <1>1, <1>3 DEF Pipe

\* The multiplexer takes a message out of its own channel.
LEMMA PipeTake ==
  ASSUME NEW j, NEW lines \in Seq(Msg), NEW chan \in Seq(Msg), NEW queue \in Seq(Msg),
         Pipe(j, lines, chan, queue), queue # <<>>
  PROVE  /\ Pipe(j, lines, chan, Tail(queue)) /\ SaidBy(j, Head(queue))
         /\ AllBefore(lines, Head(queue)) /\ AllBefore(chan, Head(queue))
         /\ \A i \in DOMAIN Tail(queue) : Before(Head(queue), Tail(queue)[i])
<1>1. AllSaid(j, Tail(queue)) /\ SaidBy(j, Head(queue)) BY TailFacts DEF Pipe, AllSaid
<1> QED BY <1>1, OrderTail DEF Pipe

\* Report() and TellClientsJobFinished() say what comes after all that was said.
LEMMA SayNext ==
  ASSUME NEW j \in JobType, NEW k \in JobType, k.seq >= j.seq
  PROVE  /\ k.sent = j.sent + 1 =>
              \A m \in Msg : m.seq = k.seq /\ m.at = k.sent =>
                /\ SaidBy(k, m)
                /\ \A x \in Msg : SaidBy(j, x) => SaidBy(k, x) /\ Before(x, m)
         /\ k.sent = j.sent =>
              SaidBy(k, End) /\ \A x \in Msg : SaidBy(j, x) => SaidBy(k, x) /\ Before(x, End)
  BY DEF JobType, Msg, SaidBy, Before, End

\* Messages are passed on in the order in which the job said them (SendMsgToWatcher,
\* sendMsgToClients, the handlers).
LEMMA OrderStep == ASSUME TypeOK, TodoOK, OrderOK, TypeOK', [Next]_vars PROVE OrderOK'
<1>0. ASSUME NEW w \in Watches PROVE watch[w].lines \in Seq(Msg) /\ watch[w].chan \in Seq(Msg)
  BY DEF TypeOK, HandlerType
<1>1. ASSUME NEW m \in Msg, SendEffect(m), job' \in JobType, SaidBy(job', m),
             \A x \in Msg : SaidBy(job, x) => SaidBy(job', x) /\ Before(x, m)
      PROVE  OrderOK'
  <2>1. ASSUME NEW lines \in Seq(Msg), NEW chan \in Seq(Msg), Pipe(job, lines, chan, main)
        PROVE  Pipe(job', lines, chan, main')
    BY <1>1, <2>1, PipeSay DEF TypeOK, SendEffect
  <2>2. Pipe(job', <<>>, <<>>, main')
    <3>1. <<>> \in Seq(Msg) OBVIOUS
    <3>2. Pipe(job, <<>>, <<>>, main) BY DEF OrderOK
    <3> QED BY <2>1, <3>1, <3>2
  <2>3. \A w \in Watches : Pipe(job', watch[w].lines, watch[w].chan, main')
    BY <1>0, <2>1 DEF OrderOK
  <2>4. ASSUME Locked
        PROVE  SaidBy(job', mux.msg) /\ \A i \in DOMAIN main' : Before(mux.msg, main'[i])
    <3>1. mux.msg \in Msg BY DEF TypeOK, MuxType
    <3>2. SaidBy(job, mux.msg) /\ \A i \in DOMAIN main : Before(mux.msg, main[i])
      BY <2>4 DEF OrderOK
    <3>3. \A i \in DOMAIN main' : (i \in DOMAIN main /\ main'[i] = main[i]) \/ main'[i] = m
      BY <1>1, AppendFacts DEF SendEffect, TypeOK
    <3> QED BY <1>1, <3>1, <3>2, <3>3
  <2>5. watch' = watch /\ mux' = mux BY <1>1 DEF SendEffect
  <2>6. Locked' <=> Locked BY <2>5 DEF Locked
  <2>7. Locked => \A w \in Watches : In(w, mux.todo) =>
                    AllBefore(watch[w].lines, mux.msg) /\ AllBefore(watch[w].chan, mux.msg)
    BY DEF OrderOK
  <2> QED BY <2>2, <2>3, <2>4, <2>5, <2>6, <2>7 DEF OrderOK
<1>2. ASSUME job'.seq = job.seq, job'.sent = job.sent, main' = main, Locked' => Locked,
             mux'.msg = mux.msg, mux'.todo = mux.todo,
             \A w \in Watches : watch'[w].chan = watch[w].chan /\ watch'[w].lines = watch[w].lines
      PROVE  OrderOK'
  BY <1>2 DEF OrderOK, Pipe, AllSaid, SaidBy
<1>3. ASSUME NEW w \in Watches, Only(w), UNCHANGED <<job, main, mux>>,
             Pipe(job, watch'[w].lines, watch'[w].chan, main),
             \A n : AllBefore(watch[w].lines, n) /\ AllBefore(watch[w].chan, n) /\ n = mux.msg =>
                      AllBefore(watch'[w].lines, n) /\ AllBefore(watch'[w].chan, n)
      PROVE  OrderOK'
  <2>1. Locked' <=> Locked BY <1>3 DEF Locked
  <2> QED BY <1>3, <2>1 DEF OrderOK, Only
<1>4. ASSUME NEW w \in Watches, TextAfter(w), watch'[w].chan \in {watch[w].chan, <<>>}
      PROVE  /\ Pipe(job, watch'[w].lines, watch'[w].chan, main)
             /\ \A n : AllBefore(watch[w].lines, n) /\ AllBefore(watch[w].chan, n) =>
                         AllBefore(watch'[w].lines, n) /\ AllBefore(watch'[w].chan, n)
  <2>1. Pipe(job, watch[w].lines, watch[w].chan, main) BY DEF OrderOK
  <2>2. main \in Seq(Msg) BY DEF TypeOK
  <2>3. <<>> \in Seq(Msg) OBVIOUS
  <2>4. Pipe(job, watch[w].lines, watch'[w].chan, main) /\ watch'[w].chan \in Seq(Msg)
    BY <1>0, <1>4, <2>1, <2>2, <2>3, PipeText
  <2>5. Pipe(job, watch'[w].lines, watch'[w].chan, main)
    BY <1>0, <1>4, <2>2, <2>4, PipeText DEF TextAfter
  <2>6. \A n : AllBefore(<<>>, n) BY DEF AllBefore
  <2>7. \A m \in Msg : m.seq = 0 => \A n : Before(m, n) BY DEF Before
  <2>8. \A n : AllBefore(watch[w].lines, n) => AllBefore(watch'[w].lines, n)
    <3>1. ASSUME NEW m \in Msg, m.seq = 0, NEW n, AllBefore(watch[w].lines, n)
          PROVE  AllBefore(Append(watch[w].lines, m), n)
      BY <1>0, <2>7, <3>1, OrderAppend
    <3> QED BY <1>4, <2>6, <3>1 DEF TextAfter
  <2> QED BY <1>4, <2>5, <2>6, <2>8
<1>5. ASSUME NEW kind \in {"part", "full", "error"}, NEW next \in BOOLEAN, Report(kind, next) PROVE OrderOK'
  <2>1. /\ job' \in JobType /\ job'.seq >= job.seq /\ job'.sent = job.sent + 1
        /\ SendEffect(Reported(kind))
    BY <1>5, ReportEffect
  <2>2. job \in JobType BY DEF TypeOK
  <2>3. Reported(kind) \in Msg /\ Reported(kind).seq = job'.seq /\ Reported(kind).at = job'.sent
    BY <2>1 DEF SendEffect, Reported
  <2>4. /\ SaidBy(job', Reported(kind))
        /\ \A x \in Msg : SaidBy(job, x) => SaidBy(job', x) /\ Before(x, Reported(kind))
    BY <2>1, <2>2, <2>3, SayNext
  <2> QED BY <1>1, <2>1, <2>3, <2>4
<1>6. CASE TellClientsJobFinished
  <2>1. job' \in JobType /\ SendEffect(End) /\ job'.seq = job.seq /\ job'.sent = job.sent
    BY <1>6, JobEffect
  <2>2. job \in JobType BY DEF TypeOK
  <2>3. SaidBy(job', End) /\ \A x \in Msg : SaidBy(job, x) => SaidBy(job', x) /\ Before(x, End)
    <3>1. job'.seq >= job.seq BY <2>1, <2>2 DEF JobType
    <3> QED BY <2>1, <2>2, <3>1, SayNext
  <2> QED BY <1>1, <2>1, <2>3 DEF SendEffect
<1>7. CASE CancelJob \/ RemoveJob BY <1>2, <1>7, JobEffect DEF Locked
<1>8. CASE MuxStart \/ Stop \/ MuxExit BY <1>2, <1>8, MuxIdle DEF IdleEffect, Locked
<1>9. CASE TellClientsToExit BY <1>2, <1>9, ExitEffect DEF IdleEffect, SameHandlers, Locked
<1>10. CASE MuxTake
  <2>1. /\ main # <<>> /\ main' = Tail(main) /\ watch' = watch /\ job' = job
        /\ Locked' => mux'.msg = Head(main)
    BY <1>10, TakeEffect
  <2>2. main \in Seq(Msg) BY DEF TypeOK
  <2>3. /\ Pipe(job, <<>>, <<>>, Tail(main)) /\ SaidBy(job, Head(main))
        /\ \A i \in DOMAIN Tail(main) : Before(Head(main), Tail(main)[i])
    <3>1. <<>> \in Seq(Msg) OBVIOUS
    <3>2. Pipe(job, <<>>, <<>>, main) BY DEF OrderOK
    <3> QED BY <2>1, <2>2, <3>1, <3>2, PipeTake
  <2>4. ASSUME NEW w \in Watches
        PROVE  /\ Pipe(job, watch[w].lines, watch[w].chan, Tail(main))
               /\ AllBefore(watch[w].lines, Head(main)) /\ AllBefore(watch[w].chan, Head(main))
    BY <1>0, <2>1, <2>2, PipeTake DEF OrderOK
  <2> QED BY <2>1, <2>3, <2>4 DEF OrderOK
<1>11. CASE MuxSend \/ MuxDrop \/ MuxRetry
  <2> DEFINE w == Head(mux.todo)
  <2>1. Locked /\ ForwardEffect(w) BY <1>11, SendStepEffect, DropEffect, RetryEffect
  <2>2. mux.msg \in Msg /\ mux.todo \in Seq(Watches) /\ main \in Seq(Msg) BY DEF TypeOK, MuxType
  <2>3. mux.todo # <<>> /\ Distinct(mux.todo) BY <2>1 DEF TodoOK
  <2>4. In(w, mux.todo) BY <2>2, <2>3, TailFacts DEF In
  <2>5. ~In(w, Tail(mux.todo)) /\ \A v : In(v, Tail(mux.todo)) => In(v, mux.todo)
    BY <2>2, <2>3, DistinctTail
  <2> HIDE DEF w
  <2>6. w \in Watches /\ Only(w) /\ watch'[w].lines = watch[w].lines BY <2>1 DEF ForwardEffect
  <2>7. /\ SaidBy(job, mux.msg) /\ \A i \in DOMAIN main : Before(mux.msg, main[i])
        /\ AllBefore(watch[w].lines, mux.msg) /\ AllBefore(watch[w].chan, mux.msg)
        /\ Pipe(job, watch[w].lines, watch[w].chan, main)
    BY <2>1, <2>4, <2>6 DEF OrderOK
  <2>8. Pipe(job, watch'[w].lines, watch'[w].chan, main)
    <3>1. CASE watch'[w].chan = watch[w].chan BY <2>6, <2>7, <3>1
    <3>2. CASE watch[w].chan # <<>> /\ watch'[w].chan = Tail(watch[w].chan)
      BY <1>0, <2>2, <2>6, <2>7, <3>2, PipeReceive
    <3>3. CASE watch'[w].chan = Append(watch[w].chan, mux.msg)
      BY <1>0, <2>2, <2>6, <2>7, <3>3, PipeForward
    <3> QED BY <2>1, <3>1, <3>2, <3>3 DEF ForwardEffect
  <2>9. ASSUME Locked', In(w, mux'.todo) PROVE AllBefore(watch'[w].chan, mux.msg)
    <3>1. watch'[w].chan # Append(watch[w].chan, mux.msg) \/ watch'[w].chan = watch[w].chan
          \/ (watch[w].chan # <<>> /\ watch'[w].chan = Tail(watch[w].chan))
      BY <2>1, <2>5, <2>9 DEF ForwardEffect
    <3>2. watch'[w].chan = watch[w].chan
          \/ (watch[w].chan # <<>> /\ watch'[w].chan = Tail(watch[w].chan))
      BY <2>1, <3>1 DEF ForwardEffect
    <3> QED BY <1>0, <2>6, <2>7, <3>2, OrderTail
  <2>10. Locked' => mux'.msg = mux.msg /\ \A v : In(v, mux'.todo) => In(v, mux.todo)
    BY <2>1, <2>5 DEF ForwardEffect
  <2>11. UNCHANGED <<job, main>> BY <2>1 DEF ForwardEffect
  <2>12. ASSUME NEW v \in Watches
         PROVE  /\ Pipe(job, watch'[v].lines, watch'[v].chan, main)
                /\ Locked' /\ In(v, mux'.todo) => /\ AllBefore(watch'[v].lines, mux.msg)
                                                  /\ AllBefore(watch'[v].chan, mux.msg)
    <3>1. CASE v = w BY <2>6, <2>7, <2>8, <2>9, <3>1
    <3>2. CASE v # w
      <4>1. watch'[v] = watch[v] BY <2>6, <3>2 DEF Only
      <4> QED BY <2>1, <2>10, <4>1 DEF OrderOK
    <3> QED BY <3>1, <3>2
  <2>13. Pipe(job, <<>>, <<>>, main) BY DEF OrderOK
  <2> QED BY <2>7, <2>10, <2>11, <2>12, <2>13 DEF OrderOK
<1>12. ASSUME NEW w \in Watches, AddConsumer(w) PROVE OrderOK'
  BY <1>3, <1>4, <1>12, AddEffect
<1>13. ASSUME NEW w \in Watches, Receive(w) PROVE OrderOK'
  <2> DEFINE c == watch[w].chan
             l == watch[w].lines
  <2>1. /\ Only(w) /\ c # <<>> /\ watch'[w].chan = Tail(c) /\ UNCHANGED <<job, main, mux>>
        /\ watch'[w].lines \in {l, <<>>, Append(l, Head(c))}
    BY <1>13, ReceiveEffect
  <2>2. c \in Seq(Msg) /\ l \in Seq(Msg) /\ main \in Seq(Msg) BY <1>0 DEF TypeOK
  <2>3. Pipe(job, l, c, main) BY DEF OrderOK
  <2> HIDE DEF c, l
  <2>4. Head(c) \in Msg /\ Tail(c) \in Seq(Msg) BY <2>1, <2>2, TailFacts
  <2>5. Pipe(job, l, Tail(c), main) /\ Pipe(job, Append(l, Head(c)), Tail(c), main)
    BY <2>1, <2>2, <2>3, PipeReceive
  <2>6. Pipe(job, <<>>, Tail(c), main) BY <2>2, <2>4, <2>5, PipeText
  <2>7. ASSUME NEW n, AllBefore(l, n), AllBefore(c, n)
        PROVE  AllBefore(watch'[w].lines, n) /\ AllBefore(Tail(c), n)
    <3>1. AllBefore(Tail(c), n) /\ Before(Head(c), n) BY <2>1, <2>2, <2>7, OrderTail
    <3>2. AllBefore(Append(l, Head(c)), n) BY <2>2, <2>4, <2>7, <3>1, OrderAppend
    <3>3. AllBefore(<<>>, n) BY DEF AllBefore
    <3> QED BY <2>1, <2>7, <3>1, <3>2, <3>3
  <2> QED BY <1>3, <2>1, <2>5, <2>6, <2>7 DEF c, l
<1>14. ASSUME NEW w \in Watches, Leave(w) PROVE OrderOK'
  BY <1>3, <1>4, <1>14, LeaveEffect DEF TextAfter, Grows
<1>15. ASSUME NEW w \in Watches, RemoveConsumer(w) PROVE OrderOK'
  BY <1>3, <1>4, <1>15, RemoveEffect DEF TextAfter, Grows
<1>16. ASSUME NEW w \in Watches, CloseChan(w) PROVE OrderOK'
  BY <1>3, <1>4, <1>16, CloseEffect
<1>17. ASSUME NEW w \in Watches, Request(w) PROVE OrderOK'
  BY <1>3, <1>4, <1>17, RequestEffect DEF TextAfter, Grows
<1>18. ASSUME NEW w \in Watches, SetGone(w) PROVE OrderOK'
  BY <1>2, <1>18, GoneEffect DEF SetGone, SameHandlers, Locked
<1>19. CASE UNCHANGED watcherVars BY <1>2, <1>19 DEF watcherVars, Locked
<1> QED BY Steps, <1>5, <1>6, <1>7, <1>8, <1>9, <1>10, <1>11, <1>12, <1>13, <1>14, <1>15, <1>16,
           <1>17, <1>18, <1>19

-----------------------------------------------------------------------------
(* Theorems. *)

Inv == TypeOK /\ SliceOK /\ TodoOK /\ OrderOK

\* The invariant holds of a job that nobody watches yet.
LEMMA InvInit == ASSUME Init PROVE Inv
<1> USE DEF Init, InitWatcher
<1>1. Handler0 \in HandlerType /\ Handler0.pc = "none" /\ Handler0.chan = <<>> /\ Handler0.lines = <<>>
  BY DEF Handler0, HandlerType
<1>2. \A w \in Watches : watch[w] = Handler0 OBVIOUS
<1>3. watch \in [Watches -> HandlerType] BY <1>1
<1>4. End \in Msg BY DEF End, Msg, Kinds
<1>5. job \in JobType BY DEF JobType
<1>6. mux \in MuxType /\ mux.pc = "starting" BY <1>4 DEF MuxType
<1>7. TypeOK
  <2>1. main \in Seq(Msg) /\ consumers \in Seq(Watches) OBVIOUS
  <2>2. running \in BOOLEAN OBVIOUS
  <2> QED BY <1>3, <1>5, <1>6, <2>1, <2>2 DEF TypeOK
<1>8. SliceOK BY <1>1, <1>2 DEF SliceOK, Distinct, In, Members, Opened
<1>9. TodoOK BY <1>6 DEF TodoOK, Locked
<1>10. Pipe(job, <<>>, <<>>, <<>>) BY DEF Pipe, Ordered, Precedes, AllSaid
<1>11. OrderOK BY <1>1, <1>2, <1>6, <1>10 DEF OrderOK, Locked
<1> QED BY <1>7, <1>8, <1>9, <1>11 DEF Inv

\* Every step of the job, the multiplexer, the handlers and the clients keeps it.
LEMMA InvStep == ASSUME Inv, [Next]_vars PROVE Inv'
  BY TypeStep, SliceStep, TodoStep, OrderStep DEF Inv

\* The invariant holds throughout.
LEMMA InvHolds == Spec => []Inv
  BY InvInit, InvStep, PTL DEF Spec

\* The multiplexer never sends on a channel that a handler has closed, however many watch
\* and whenever they come and go: the one it sends to next is registered while it holds
\* the lock, and a handler closes its channel after it has removed itself (sendMsgToClients,
\* RemoveConsumer, handlerPostBackupWatch, handlerPostRestoreWatch).
THEOREM NeverSendsOnClosed == Spec => []NoSendOnClosed
<1>1. ASSUME Inv PROVE NoSendOnClosed
  <2>1. SUFFICES ASSUME Locked PROVE watch[Head(mux.todo)].open BY DEF NoSendOnClosed, Locked
  <2>2. mux.todo \in Seq(Watches) /\ mux.todo # <<>> BY <1>1, <2>1 DEF Inv, TypeOK, MuxType, TodoOK
  <2>3. Head(mux.todo) = mux.todo[1] /\ Head(mux.todo) \in Watches /\ 1 \in DOMAIN mux.todo
    BY <2>2, TailFacts
  <2>4. watch[Head(mux.todo)].pc \in Members BY <1>1, <2>1, <2>3 DEF Inv, TodoOK
  <2> QED BY <1>1, <2>3, <2>4 DEF Inv, SliceOK, Opened
<1> QED BY <1>1, InvHolds, PTL

\* The slice holds each consumer that waits for messages or is about to remove itself
\* once and nothing else, although an entry is removed by moving the last one into its
\* place (AddConsumer, RemoveConsumer).
THEOREM SliceIsExact == Spec => []ConsumersExact
<1>1. ASSUME Inv PROVE ConsumersExact
  <2>1. \A k \in DOMAIN consumers : consumers[k] \in Watches BY <1>1 DEF Inv, TypeOK
  <2>2. ASSUME NEW w \in Watches, watch[w].pc \in Members
        PROVE  Cardinality({k \in DOMAIN consumers : consumers[k] = w}) = 1
    <3>1. PICK k \in DOMAIN consumers : consumers[k] = w BY <1>1, <2>2 DEF Inv, SliceOK, In
    <3>2. {j \in DOMAIN consumers : consumers[j] = w} = {k}
      BY <1>1, <3>1 DEF Inv, SliceOK, Distinct
    <3> QED BY <3>2, FS_Singleton
  <2>3. ASSUME NEW w \in Watches, watch[w].pc \notin Members
        PROVE  Cardinality({k \in DOMAIN consumers : consumers[k] = w}) = 0
    <3>1. {k \in DOMAIN consumers : consumers[k] = w} = {} BY <1>1, <2>3 DEF Inv, SliceOK, In
    <3> QED BY <3>1, FS_EmptySet
  <2>4. \A w \in Watches :
          Cardinality({k \in DOMAIN consumers : consumers[k] = w})
            = IF watch[w].pc \in {"watching", "ended", "exit", "left"} THEN 1 ELSE 0
    <3> TAKE w \in Watches
    <3>1. Members = {"watching", "ended", "exit", "left"} BY DEF Members
    <3> QED BY <2>2, <2>3, <3>1
  <2> QED BY <2>1, <2>4 DEF ConsumersExact
<1> QED BY <1>1, InvHolds, PTL

\* Whatever is dropped at the two channels and whatever the rate limit holds back, a
\* consumer is told of the items in their order, and no message twice or before one that
\* was sent earlier, however often and in whatever order the job reports progress, success
\* and errors of an item on its targets (IncrementRateCounter, IncrementCounter,
\* SendMsgToWatcher, clientSendAllowed, sendMsgToClients).
THEOREM ToldInOrder == Spec => []LinesInOrder
<1>1. Inv => LinesInOrder BY DEF Inv, OrderOK, Pipe, Ordered, LinesInOrder
<1> QED BY <1>1, InvHolds, PTL

-----------------------------------------------------------------------------
(* Induction. *)

\* A set of numbers that is not empty has a least one.
LEMMA Least ==
  ASSUME NEW T \in SUBSET Nat, T # {}
  PROVE  \E x \in T : \A y \in T : x <= y
<1> DEFINE R == OpToRel(<, Nat)
<1>1. IsWellFoundedOn(R, Nat) BY NatLessThanWellFounded
<1>2. \A x, y \in Nat : x < y => <<x, y>> \in R BY DEF OpToRel
<1> HIDE DEF R
<1>3. PICK x \in T : \A y \in T : ~(<<y, x>> \in R) BY <1>1, WFMin
<1>4. ASSUME NEW y \in T PROVE x <= y
  <2>1. x \in Nat /\ y \in Nat OBVIOUS
  <2>2. ~(y < x) BY <1>2, <1>3, <2>1
  <2> QED BY <2>1, <2>2
<1> QED BY <1>4

\* What holds of 0 and goes on to the next number holds of all.
LEMMA Induction ==
  ASSUME NEW T \in SUBSET Nat, NEW n \in Nat, 0 \in T, \A k \in T : k < n => k + 1 \in T
  PROVE  \A k \in 0..n : k \in T
<1> SUFFICES ASSUME NEW k \in 0..n, k \notin T PROVE FALSE OBVIOUS
<1> DEFINE F == {j \in 0..n : j \notin T}
<1>1. F \in SUBSET Nat /\ F # {} OBVIOUS
<1>2. \A j : j \in F <=> j \in 0..n /\ j \notin T OBVIOUS
<1> HIDE DEF F
<1>3. PICK x \in F : \A y \in F : x <= y BY <1>1, Least
<1>4. x \in 0..n /\ x \notin T /\ x # 0 BY <1>2
<1>5. PICK m \in Nat : m + 1 = x /\ m < x /\ m \in 0..n /\ m < n
  <2>1. x - 1 \in Nat /\ x - 1 + 1 = x /\ x - 1 < x /\ x - 1 \in 0..n /\ x - 1 < n BY <1>4
  <2> QED BY <2>1
<1>6. m \notin F
  <2>1. ~(x <= m) BY <1>4, <1>5
  <2> QED BY <1>3, <2>1
<1>7. m \in T BY <1>2, <1>5, <1>6
<1> QED BY <1>4, <1>5, <1>7

-----------------------------------------------------------------------------
(* The pieces of a chunk. *)

\* g tells what is there after each piece.
IsAfter(g, s, pieces, n) ==
  g = [k \in 0..n |-> IF k = 0 THEN s ELSE HandlePiece(g[k - 1], pieces[k])]

\* There is such a function, however many pieces there are.
LEMMA AfterExists ==
  ASSUME NEW s, NEW pieces, NEW n \in Nat
  PROVE  \E g : IsAfter(g, s, pieces, n)
<1> DEFINE T == {k \in Nat : \E g : IsAfter(g, s, pieces, k)}
<1>1. 0 \in T
  <2> DEFINE g == [k \in 0..0 |-> s]
  <2>1. g = [k \in 0..0 |-> IF k = 0 THEN s ELSE HandlePiece(g[k - 1], pieces[k])] OBVIOUS
  <2>2. IsAfter(g, s, pieces, 0) BY <2>1 DEF IsAfter
  <2> QED BY <2>2
<1>2. ASSUME NEW k \in T PROVE k + 1 \in T
  <2>1. PICK g : IsAfter(g, s, pieces, k) OBVIOUS
  <2>2. k \in Nat /\ k + 1 \in Nat OBVIOUS
  <2> DEFINE V(j) == IF j = 0 THEN s ELSE HandlePiece(g[j - 1], pieces[j])
             h == [j \in 0..k + 1 |-> V(j)]
  <2>3. g = [j \in 0..k |-> V(j)] BY <2>1 DEF IsAfter
  <2> HIDE DEF V
  <2>4. \A j \in 0..k : h[j] = g[j]
    <3>1. \A j \in 0..k : j \in 0..k + 1 BY <2>2
    <3> QED BY <2>3, <3>1
  <2>5. \A j \in 0..k + 1 : j # 0 => j - 1 \in 0..k BY <2>2
  <2>6. \A j \in 0..k + 1 : V(j) = IF j = 0 THEN s ELSE HandlePiece(h[j - 1], pieces[j])
    BY <2>4, <2>5 DEF V
  <2>7. h = [j \in 0..k + 1 |-> IF j = 0 THEN s ELSE HandlePiece(h[j - 1], pieces[j])]
    BY <2>6
  <2>8. IsAfter(h, s, pieces, k + 1) BY <2>7 DEF IsAfter
  <2> QED BY <2>2, <2>8
<1> HIDE DEF T
<1>3. T \in SUBSET Nat BY DEF T
<1>4. n \in T
  <2>1. \A k \in 0..n : k \in T BY <1>1, <1>2, <1>3, Induction
  <2> QED BY <2>1
<1> QED BY <1>4 DEF T

\* A chunk is handled piece by piece.
LEMMA DecodeIs ==
  ASSUME NEW s, NEW pieces, Len(pieces) \in Nat
  PROVE  \E g : /\ g[0] = s /\ g[Len(pieces)] = Decode(s, pieces)
                /\ \A k \in 1..Len(pieces) : g[k] = HandlePiece(g[k - 1], pieces[k])
<1>1. PICK n \in Nat : n = Len(pieces) OBVIOUS
<1> DEFINE after == CHOOSE g : IsAfter(g, s, pieces, n)
<1>2. IsAfter(after, s, pieces, n) BY AfterExists
<1>3. Decode(s, pieces) = after[n] BY <1>1 DEF Decode, IsAfter
<1> HIDE DEF after
<1>4. after[0] = s /\ \A k \in 1..n : after[k] = HandlePiece(after[k - 1], pieces[k])
  <2>1. 0 \in 0..n /\ \A k \in 1..n : k \in 0..n /\ k # 0 OBVIOUS
  <2> QED BY <1>2, <2>1 DEF IsAfter
<1> QED BY <1>1, <1>3, <1>4

-----------------------------------------------------------------------------
(* The list of a dialog. *)

\* Event k of a list is what line at[k] says, and no word in W after it is left out.
ShownAt(events, lines, W, at) ==
  /\ at \in [1 .. Len(events) -> W]
  /\ \A k \in 1 .. Len(events) : events[k] = lines[at[k]]
  /\ \A k, l \in 1 .. Len(events) : k < l => at[k] < at[l]
  /\ \A k \in 1 .. Len(events) : \A i \in W : at[k] <= i => \E l \in 1 .. Len(events) : at[l] = i

\* The list after the first n lines.
ListOK(events, lines, n) ==
  /\ events \in Seq(Msg) /\ Len(events) <= MaxShown
  /\ \E at : ShownAt(events, lines, LastWords(lines, n), at)

\* An empty list leaves nothing out.
LEMMA ListEmpty == ASSUME NEW lines, NEW n PROVE ListOK(<<>>, lines, n)
<1> DEFINE W == LastWords(lines, n)
           at == [k \in 1 .. 0 |-> 0]
<1> HIDE DEF W
<1>1. at \in [1 .. 0 -> W] OBVIOUS
<1>2. <<>> \in Seq(Msg) /\ Len(<<>>) = 0 /\ 0 <= MaxShown BY WatchModalAssumption
<1> HIDE DEF at
<1>3. ShownAt(<<>>, lines, W, at) BY <1>1, <1>2 DEF ShownAt
<1> QED BY <1>2, <1>3 DEF ListOK, W

\* A line more: a text changes nothing, a message takes the place of the one before on the
\* same item.
LEMMA WordsNext ==
  ASSUME NEW lines \in Seq(Msg), NEW n \in Nat, n + 1 <= Len(lines)
  PROVE  /\ lines[n + 1].seq = 0 => LastWords(lines, n + 1) = LastWords(lines, n)
         /\ lines[n + 1].seq # 0 =>
              \A i : i \in LastWords(lines, n + 1) <=>
                       i = n + 1 \/ (i \in LastWords(lines, n) /\ lines[i].seq # lines[n + 1].seq)
<1>1. ASSUME NEW i \in 1 .. n
      PROVE  i \in LastWords(lines, n + 1) <=>
               i \in LastWords(lines, n) /\ lines[i].seq # lines[n + 1].seq
  <2>1. i + 1 .. n + 1 = (i + 1 .. n) \cup {n + 1} OBVIOUS
  <2>2. i \in 1 .. n + 1 OBVIOUS
  <2> QED BY <2>1, <2>2 DEF LastWords
<1>2. n + 1 \in LastWords(lines, n + 1) <=> lines[n + 1].seq # 0
  <2>1. (n + 1) + 1 .. n + 1 = {} /\ n + 1 \in 1 .. n + 1 OBVIOUS
  <2> QED BY <2>1 DEF LastWords
<1>3. \A i \in LastWords(lines, n + 1) : i \in 1 .. n \/ i = n + 1
  <2>1. \A i \in 1 .. n + 1 : i \in 1 .. n \/ i = n + 1 OBVIOUS
  <2> QED BY <2>1 DEF LastWords
<1>4. \A i \in LastWords(lines, n) : i \in 1 .. n /\ lines[i].seq # 0 BY DEF LastWords
<1>5. ASSUME lines[n + 1].seq = 0 PROVE LastWords(lines, n + 1) = LastWords(lines, n)
  <2>1. ASSUME NEW i PROVE i \in LastWords(lines, n + 1) <=> i \in LastWords(lines, n)
    BY <1>1, <1>2, <1>3, <1>4, <1>5
  <2> QED BY <2>1
<1> QED BY <1>1, <1>2, <1>3, <1>4, <1>5

\* The words come in the order of their items, and none is about a later item than the next
\* line.
LEMMA WordsInOrder ==
  ASSUME NEW lines \in Seq(Msg), Ordered(lines), NEW n \in Nat, n + 1 <= Len(lines),
         NEW i \in LastWords(lines, n), lines[n + 1].seq # 0
  PROVE  /\ i \in 1 .. n /\ lines[i].seq \in Nat /\ lines[n + 1].seq \in Nat
         /\ lines[i].seq <= lines[n + 1].seq
         /\ \A j \in LastWords(lines, n) : i < j => lines[i].seq < lines[j].seq
<1>1. i \in 1 .. n /\ lines[i].seq # 0 BY DEF LastWords
<1>2. \A j \in 1 .. n + 1 : j \in DOMAIN lines /\ lines[j] \in Msg BY <1>1
<1>3. n + 1 \in 1 .. n + 1 /\ i \in 1 .. n + 1 /\ i < n + 1 BY <1>1
<1>4. \A j \in 1 .. n + 1 : lines[j].seq \in Nat BY <1>2 DEF Msg
<1>5. lines[i].seq <= lines[n + 1].seq
  <2>1. Before(lines[i], lines[n + 1]) BY <1>2, <1>3 DEF Ordered
  <2> QED BY <1>1, <1>3, <1>4, <2>1 DEF Before
<1>6. ASSUME NEW j \in LastWords(lines, n), i < j PROVE lines[i].seq < lines[j].seq
  <2>1. j \in 1 .. n /\ lines[j].seq # 0 BY DEF LastWords
  <2>2. j \in i + 1 .. n BY <1>1, <1>6, <2>1
  <2>3. lines[j].seq # lines[i].seq BY <2>2 DEF LastWords
  <2>4. j \in 1 .. n + 1 BY <2>1
  <2>5. Before(lines[i], lines[j]) BY <1>2, <1>3, <1>6, <2>4 DEF Ordered
  <2> QED BY <1>1, <1>3, <1>4, <2>1, <2>3, <2>4, <2>5 DEF Before
<1> QED BY <1>1, <1>3, <1>4, <1>5, <1>6

\* A list without its first element.
LEMMA DropFirst ==
  ASSUME NEW S, NEW s \in Seq(S), Len(s) # 0
  PROVE  /\ SubSeq(s, 2, Len(s)) \in Seq(S) /\ Len(SubSeq(s, 2, Len(s))) = Len(s) - 1
         /\ \A k \in 1 .. Len(s) - 1 : SubSeq(s, 2, Len(s))[k] = s[k + 1]
<1>1. PICK m \in Nat : m = Len(s) /\ m # 0 OBVIOUS
<1>2. \A i \in 2 .. m : s[i] \in S BY <1>1
<1>3. 2 \in Int /\ m \in Int OBVIOUS
<1>4. /\ SubSeq(s, 2, m) \in Seq(S)
      /\ Len(SubSeq(s, 2, m)) = IF 2 <= m THEN m - 2 + 1 ELSE 0
      /\ \A i \in 1 .. m - 2 + 1 : SubSeq(s, 2, m)[i] = s[2 + i - 1]
  BY <1>2, <1>3, SubSeqProperties
<1>5. m - 2 + 1 = m - 1 /\ (IF 2 <= m THEN m - 2 + 1 ELSE 0) = m - 1 BY <1>1
<1>6. \A i \in 1 .. m - 1 : 2 + i - 1 = i + 1 OBVIOUS
<1> QED BY <1>1, <1>4, <1>5, <1>6

\* An event is added at the end, and the first one goes when the list is full.
LEMMA ShowAdds ==
  ASSUME NEW events \in Seq(Msg), Len(events) <= MaxShown, NEW e \in Msg,
         events # <<>> => events[Len(events)].seq # e.seq
  PROVE  /\ Show(events, e) \in Seq(Msg)
         /\ \E d \in 0 .. 1 :
              /\ d <= Len(events) /\ Len(events) + 1 - d <= MaxShown
              /\ Len(Show(events, e)) = Len(events) + 1 - d
              /\ \A k \in 1 .. Len(Show(events, e)) :
                   Show(events, e)[k] = IF k + d <= Len(events) THEN events[k + d] ELSE e
<1>1. PICK m \in Nat : m = Len(events) OBVIOUS
<1>2. MaxShown \in Nat /\ MaxShown # 0 BY WatchModalAssumption
<1>3. CASE m >= MaxShown
  <2>1. m = MaxShown /\ m - MaxShown + 2 = 2 /\ m # 0 BY <1>1, <1>2, <1>3
  <2>2. PICK kept \in Seq(Msg) : /\ kept = SubSeq(events, 2, Len(events)) /\ Len(kept) = m - 1
                                 /\ \A k \in 1 .. m - 1 : kept[k] = events[k + 1]
    <3>1. Len(events) # 0 BY <1>1, <2>1
    <3>2. /\ SubSeq(events, 2, Len(events)) \in Seq(Msg)
          /\ Len(SubSeq(events, 2, Len(events))) = m - 1
          /\ \A k \in 1 .. m - 1 : SubSeq(events, 2, Len(events))[k] = events[k + 1]
      BY <1>1, <3>1, DropFirst
    <3> QED BY <3>2
  <2>3. Show(events, e) = Append(kept, e) BY <1>1, <1>3, <2>1, <2>2 DEF Show, Last
  <2>4. /\ Append(kept, e) \in Seq(Msg) /\ Len(Append(kept, e)) = m
        /\ \A k \in 1 .. m : Append(kept, e)[k] = IF k + 1 <= m THEN events[k + 1] ELSE e
    BY <2>1, <2>2
  <2>5. m + 1 - 1 = m /\ 1 <= m /\ m <= MaxShown BY <2>1
  <2> QED BY <1>1, <2>3, <2>4, <2>5
<1>4. CASE ~(m >= MaxShown)
  <2>1. Show(events, e) = Append(events, e) BY <1>1, <1>4 DEF Show, Last
  <2>2. Append(events, e) \in Seq(Msg) /\ Len(Append(events, e)) = m + 1 BY <1>1
  <2>3. \A k \in 1 .. m + 1 : Append(events, e)[k] = IF k <= m THEN events[k] ELSE e
    BY <1>1
  <2>4. \A k \in 1 .. m + 1 : k + 0 = k OBVIOUS
  <2>5. m + 1 - 0 = m + 1 /\ 0 <= m /\ m + 1 <= MaxShown BY <1>2, <1>4
  <2>6. 0 \in 0 .. 1 OBVIOUS
  <2>7. \A k \in 1 .. m + 1 : Append(events, e)[k] = IF k + 0 <= m THEN events[k + 0] ELSE e
    BY <2>3, <2>4
  <2> QED BY <1>1, <2>1, <2>2, <2>5, <2>6, <2>7
<1> QED BY <1>3, <1>4

\* setEvents() replaces the last event by what is said next of the same item: then no other
\* event is about that item.
LEMMA ShowReplaces ==
  ASSUME NEW lines \in Seq(Msg), Ordered(lines), NEW n \in Nat, n + 1 <= Len(lines),
         NEW events, ListOK(events, lines, n), lines[n + 1].seq # 0,
         events # <<>>, events[Len(events)].seq = lines[n + 1].seq
  PROVE  ListOK(Show(events, lines[n + 1]), lines, n + 1)
<1>1. PICK e \in Msg : e = lines[n + 1] OBVIOUS
<1>2. PICK W : W = LastWords(lines, n) OBVIOUS
<1>3. PICK V : V = LastWords(lines, n + 1) OBVIOUS
<1>4. events \in Seq(Msg) /\ Len(events) <= MaxShown BY DEF ListOK
<1>5. PICK m \in Nat : m = Len(events) /\ m # 0 /\ m \in 1 .. m BY <1>4
<1>6. PICK at : ShownAt(events, lines, W, at) BY <1>2 DEF ListOK
<1>7. /\ at \in [1 .. m -> W] /\ \A k \in 1 .. m : events[k] = lines[at[k]]
      /\ \A k, l \in 1 .. m : k < l => at[k] < at[l]
      /\ \A k \in 1 .. m : \A i \in W : at[k] <= i => \E l \in 1 .. m : at[l] = i
  BY <1>5, <1>6 DEF ShownAt
<1>8. PICK q \in Seq(Msg) : /\ q = Show(events, e) /\ Len(q) = m /\ q[m] = e
                            /\ \A k \in 1 .. m : k # m => q[k] = events[k]
  <2>1. Show(events, e) = [events EXCEPT ![m] = e] BY <1>1, <1>5 DEF Show, Last
  <2>2. [events EXCEPT ![m] = e] \in Seq(Msg) /\ Len([events EXCEPT ![m] = e]) = m BY <1>4, <1>5
  <2>3. DOMAIN events = 1 .. m BY <1>4, <1>5
  <2>4. PICK q : q = [events EXCEPT ![m] = e] OBVIOUS
  <2>5. q[m] = e /\ \A k \in 1 .. m : k # m => q[k] = events[k] BY <1>5, <2>3, <2>4
  <2> QED BY <2>1, <2>2, <2>4, <2>5
<1>9. \A i : i \in V <=> i = n + 1 \/ (i \in W /\ lines[i].seq # e.seq)
  BY <1>1, <1>2, <1>3, WordsNext
<1>10. \A i \in W : i \in 1 .. n /\ lines[i].seq \in Nat BY <1>2, WordsInOrder
<1>11. \A i, j \in W : i < j => lines[i].seq < lines[j].seq BY <1>2, WordsInOrder
<1>12. \A k \in 1 .. m : at[k] \in W BY <1>7
<1>13. lines[at[m]].seq = e.seq BY <1>1, <1>5, <1>7
<1>14. ASSUME NEW k \in 1 .. m, k # m PROVE at[k] \in V
  <2>1. at[k] < at[m] BY <1>5, <1>7, <1>14
  <2>2. lines[at[k]].seq < lines[at[m]].seq BY <1>5, <1>11, <1>12, <2>1
  <2>3. at[k] \in W /\ at[m] \in W BY <1>5, <1>12
  <2>4. lines[at[k]].seq \in Nat /\ lines[at[m]].seq \in Nat BY <1>10, <2>3
  <2>5. lines[at[k]].seq # e.seq BY <1>13, <2>2, <2>4
  <2> QED BY <1>9, <2>3, <2>5
<1> DEFINE to == [k \in 1 .. m |-> IF k = m THEN n + 1 ELSE at[k]]
<1>15. to[m] = n + 1 /\ \A k \in 1 .. m : k # m => to[k] = at[k] BY <1>5
<1>16. to \in [1 .. m -> V] BY <1>9, <1>14
<1> HIDE DEF to
<1>17. \A k \in 1 .. m : q[k] = lines[to[k]] BY <1>1, <1>7, <1>8, <1>15
<1>18. ASSUME NEW k \in 1 .. m, NEW l \in 1 .. m, k < l PROVE to[k] < to[l]
  <2>1. k # m /\ to[k] = at[k] /\ at[k] \in 1 .. n BY <1>10, <1>12, <1>15, <1>18
  <2>2. CASE l = m BY <1>15, <2>1, <2>2
  <2>3. CASE l # m BY <1>7, <1>15, <1>18, <2>1, <2>3
  <2> QED BY <2>2, <2>3
<1>19. ASSUME NEW k \in 1 .. m, NEW i \in V, to[k] <= i PROVE \E l \in 1 .. m : to[l] = i
  <2>1. CASE i = n + 1 BY <1>5, <1>15, <2>1
  <2>2. CASE i # n + 1
    <3>1. i \in W /\ lines[i].seq # e.seq /\ i \in 1 .. n BY <1>9, <1>10, <2>2
    <3>2. k # m BY <1>15, <1>19, <3>1
    <3>3. at[k] <= i BY <1>15, <1>19, <3>2
    <3>4. PICK l \in 1 .. m : at[l] = i BY <1>7, <3>1, <3>3
    <3>5. l # m BY <1>13, <3>1, <3>4
    <3> QED BY <1>15, <3>4, <3>5
  <2> QED BY <2>1, <2>2
<1>20. ShownAt(q, lines, V, to) BY <1>8, <1>16, <1>17, <1>18, <1>19 DEF ShownAt
<1> QED BY <1>1, <1>3, <1>4, <1>5, <1>8, <1>20 DEF ListOK

\* setEvents() adds what is said first of an item.
LEMMA ShowAppends ==
  ASSUME NEW lines \in Seq(Msg), Ordered(lines), NEW n \in Nat, n + 1 <= Len(lines),
         NEW events, ListOK(events, lines, n), lines[n + 1].seq # 0,
         events # <<>> => events[Len(events)].seq # lines[n + 1].seq
  PROVE  ListOK(Show(events, lines[n + 1]), lines, n + 1)
<1>1. PICK e \in Msg : e = lines[n + 1] OBVIOUS
<1>2. PICK W : W = LastWords(lines, n) OBVIOUS
<1>3. PICK V : V = LastWords(lines, n + 1) OBVIOUS
<1>4. events \in Seq(Msg) /\ Len(events) <= MaxShown BY DEF ListOK
<1>5. PICK m \in Nat : m = Len(events) BY <1>4
<1>6. PICK at : ShownAt(events, lines, W, at) BY <1>2 DEF ListOK
<1>7. /\ at \in [1 .. m -> W] /\ \A k \in 1 .. m : events[k] = lines[at[k]]
      /\ \A k, l \in 1 .. m : k < l => at[k] < at[l]
      /\ \A k \in 1 .. m : \A i \in W : at[k] <= i => \E l \in 1 .. m : at[l] = i
  BY <1>5, <1>6 DEF ShownAt
<1>8. PICK q \in Seq(Msg), d \in 0 .. 1 :
        /\ q = Show(events, e) /\ d <= m /\ m + 1 - d <= MaxShown /\ Len(q) = m + 1 - d
        /\ \A k \in 1 .. Len(q) : q[k] = IF k + d <= m THEN events[k + d] ELSE e
  <2>1. events # <<>> => events[Len(events)].seq # e.seq BY <1>1
  <2>2. /\ Show(events, e) \in Seq(Msg)
        /\ \E d \in 0 .. 1 :
              /\ d <= m /\ m + 1 - d <= MaxShown
              /\ Len(Show(events, e)) = m + 1 - d
              /\ \A k \in 1 .. Len(Show(events, e)) :
                   Show(events, e)[k] = IF k + d <= m THEN events[k + d] ELSE e
    BY <1>4, <1>5, <2>1, ShowAdds
  <2> QED BY <2>2
<1>9. \A i : i \in V <=> i = n + 1 \/ (i \in W /\ lines[i].seq # e.seq)
  BY <1>1, <1>2, <1>3, WordsNext
<1>10. \A i \in W : i \in 1 .. n /\ lines[i].seq \in Nat /\ lines[i].seq <= e.seq /\ e.seq \in Nat
  BY <1>1, <1>2, WordsInOrder
<1>11. \A i, j \in W : i < j => lines[i].seq < lines[j].seq BY <1>2, WordsInOrder
<1>12. \A k \in 1 .. m : at[k] \in W BY <1>7
<1>13. ASSUME NEW k \in 1 .. m PROVE at[k] \in V
  <2>1. m \in 1 .. m /\ events # <<>> BY <1>4, <1>5
  <2>2. lines[at[m]].seq # e.seq BY <1>1, <1>5, <1>7, <2>1
  <2>3. at[k] \in W /\ at[m] \in W BY <1>12, <2>1
  <2>4. lines[at[k]].seq # e.seq
    <3>1. CASE k = m BY <2>2, <3>1
    <3>2. CASE k # m
      <4>1. at[k] < at[m] BY <1>7, <2>1, <3>2
      <4>2. lines[at[k]].seq < lines[at[m]].seq BY <1>11, <2>3, <4>1
      <4>3. /\ lines[at[m]].seq <= e.seq /\ lines[at[k]].seq \in Nat /\ lines[at[m]].seq \in Nat
            /\ e.seq \in Nat
        BY <1>10, <2>3
      <4> QED BY <4>2, <4>3
    <3> QED BY <3>1, <3>2
  <2> QED BY <1>9, <2>3, <2>4
<1>14. PICK p \in Nat : p = Len(q) /\ p = m + 1 - d /\ p # 0 /\ p \in 1 .. p /\ p + d = m + 1
  <2>1. m + 1 - d \in Nat /\ m + 1 - d # 0 /\ m + 1 - d + d = m + 1 BY <1>8
  <2>2. m + 1 - d \in 1 .. m + 1 - d BY <2>1
  <2> QED BY <1>8, <2>1, <2>2
<1> DEFINE to == [k \in 1 .. p |-> IF k + d <= m THEN at[k + d] ELSE n + 1]
<1>15. \A k \in 1 .. p : k + d <= m => k + d \in 1 .. m BY <1>8
<1>16. \A k \in 1 .. p : IF k + d <= m THEN to[k] = at[k + d] ELSE to[k] = n + 1 OBVIOUS
<1>17. to[p] = n + 1
  <2>1. ~(p + d <= m) BY <1>14
  <2> QED BY <1>14, <1>16, <2>1
<1>18. to \in [1 .. p -> V] BY <1>9, <1>13, <1>15
<1> HIDE DEF to
<1>19. \A k \in 1 .. p : q[k] = lines[to[k]]
  BY <1>1, <1>7, <1>8, <1>14, <1>15, <1>16
<1>20. ASSUME NEW k \in 1 .. p, NEW l \in 1 .. p, k < l PROVE to[k] < to[l]
  <2>1. k + d <= m /\ k + d \in 1 .. m /\ k + d < l + d BY <1>8, <1>14, <1>15, <1>20
  <2>2. to[k] = at[k + d] /\ at[k + d] \in 1 .. n BY <1>10, <1>12, <1>16, <2>1
  <2>3. CASE l + d <= m
    <3>1. to[l] = at[l + d] /\ l + d \in 1 .. m BY <1>15, <1>16, <2>3
    <3> QED BY <1>7, <2>1, <2>2, <3>1
  <2>4. CASE ~(l + d <= m)
    <3>1. to[l] = n + 1 BY <1>16, <2>4
    <3> QED BY <2>2, <3>1
  <2> QED BY <2>3, <2>4
<1>21. ASSUME NEW k \in 1 .. p, NEW i \in V, to[k] <= i PROVE \E l \in 1 .. p : to[l] = i
  <2>1. CASE i = n + 1 BY <1>14, <1>17, <2>1
  <2>2. CASE i # n + 1
    <3>1. i \in W /\ i \in 1 .. n BY <1>9, <1>10, <2>2
    <3>2. k + d <= m /\ to[k] = at[k + d] /\ k + d \in 1 .. m BY <1>15, <1>16, <1>21, <3>1
    <3>3. at[k + d] <= i BY <1>21, <3>2
    <3>4. PICK j \in 1 .. m : at[j] = i BY <1>7, <3>1, <3>2, <3>3
    <3>5. ~(j < k + d)
      <4>1. SUFFICES ASSUME j < k + d PROVE FALSE OBVIOUS
      <4>2. at[j] < at[k + d] BY <1>7, <3>2, <4>1
      <4>3. at[k + d] \in 1 .. n BY <1>10, <1>12, <3>2
      <4> QED BY <3>1, <3>3, <3>4, <4>2, <4>3
    <3>6. PICK l \in 1 .. p : l + d = j
      <4>1. j - d \in 1 .. p /\ j - d + d = j BY <1>8, <1>14, <3>2, <3>5
      <4> QED BY <4>1
    <3>7. l + d <= m BY <3>6
    <3> QED BY <1>16, <3>4, <3>6, <3>7
  <2> QED BY <2>1, <2>2
<1>22. ShownAt(q, lines, V, to) BY <1>14, <1>18, <1>19, <1>20, <1>21 DEF ShownAt
<1>23. Len(q) <= MaxShown BY <1>8
<1> QED BY <1>1, <1>3, <1>8, <1>22, <1>23 DEF ListOK

\* The list after a line more.
LEMMA ListNext ==
  ASSUME NEW lines \in Seq(Msg), Ordered(lines), NEW n \in Nat, n + 1 <= Len(lines),
         NEW events, ListOK(events, lines, n)
  PROVE  ListOK(IF lines[n + 1].seq # 0 THEN Show(events, lines[n + 1]) ELSE events, lines, n + 1)
<1>1. CASE lines[n + 1].seq = 0
  <2>1. LastWords(lines, n + 1) = LastWords(lines, n) BY <1>1, WordsNext
  <2> QED BY <1>1, <2>1 DEF ListOK
<1>2. CASE lines[n + 1].seq # 0 BY <1>2, ShowReplaces, ShowAppends
<1> QED BY <1>1, <1>2

-----------------------------------------------------------------------------
(* A dialog reads the lines piece by piece. *)

Piece == [of : Msg, end : BOOLEAN]

DialogType ==
  [status : {"closed", "no job", "streaming", "job over", "stream ended", "error", "left"},
   read : Nat, buf : Seq(Piece), events : Seq(Msg)]

\* What dialog t has of the first r pieces: half a line is kept for the next piece, and the
\* list is the one after the h whole lines.
HalfRead(t, lines, r, h) ==
  /\ \/ r = 2 * h /\ t.buf = <<>>
     \/ r = 2 * h + 1 /\ t.buf = <<[of |-> lines[h + 1], end |-> FALSE]>>
  /\ ListOK(t.events, lines, h)

ReaderOK(t, lines, r) ==
  /\ t \in DialogType /\ t.status \in {"streaming", "job over"}
  /\ t.status = "streaming" => \E h \in Nat : HalfRead(t, lines, r, h)

\* The two pieces of a line.
LEMMA PieceIs ==
  ASSUME NEW lines \in Seq(Msg), NEW h \in Nat, NEW r \in Nat, r + 1 <= 2 * Len(lines)
  PROVE  /\ r = 2 * h => Pieces(lines)[r + 1] = [of |-> lines[h + 1], end |-> FALSE]
         /\ r = 2 * h + 1 => Pieces(lines)[r + 1] = [of |-> lines[h + 1], end |-> TRUE]
         /\ r = 2 * h \/ r = 2 * h + 1 => h + 1 <= Len(lines) /\ lines[h + 1] \in Msg
<1>1. PICK n \in Nat : n = Len(lines) OBVIOUS
<1>2. r + 1 \in 1 .. 2 * Len(lines) BY <1>1
<1>3. Pieces(lines)[r + 1] = [of |-> lines[(r + 1 + 1) \div 2], end |-> (r + 1) % 2 = 0]
  BY <1>2 DEF Pieces
<1>4. r = 2 * h => (r + 1 + 1) \div 2 = h + 1 /\ (r + 1) % 2 = 1 OBVIOUS
<1>5. r = 2 * h + 1 => (r + 1 + 1) \div 2 = h + 1 /\ (r + 1) % 2 = 0 OBVIOUS
<1>6. r = 2 * h \/ r = 2 * h + 1 => h + 1 \in 1 .. n BY <1>1
<1>7. r = 2 * h \/ r = 2 * h + 1 => h + 1 <= Len(lines) /\ lines[h + 1] \in Msg
  BY <1>1, <1>6
<1>8. ASSUME r = 2 * h PROVE Pieces(lines)[r + 1] = [of |-> lines[h + 1], end |-> FALSE]
  <2>1. ((r + 1) % 2 = 0) = FALSE BY <1>4, <1>8
  <2>2. (r + 1 + 1) \div 2 = h + 1 BY <1>4, <1>8
  <2> QED BY <1>3, <2>1, <2>2, Zenon
<1>9. ASSUME r = 2 * h + 1 PROVE Pieces(lines)[r + 1] = [of |-> lines[h + 1], end |-> TRUE]
  <2>1. ((r + 1) % 2 = 0) = TRUE BY <1>5, <1>9
  <2>2. (r + 1 + 1) \div 2 = h + 1 BY <1>5, <1>9
  <2> QED BY <1>3, <2>1, <2>2, Zenon
<1> QED BY <1>7, <1>8, <1>9

\* A number is even or odd.
LEMMA Halves == ASSUME NEW r \in Nat PROVE \E h \in Nat : r = 2 * h \/ r = 2 * h + 1
<1>1. r \div 2 \in Nat /\ (r = 2 * (r \div 2) \/ r = 2 * (r \div 2) + 1) OBVIOUS
<1> QED BY <1>1

\* handleLine() of a whole line: the job is over, an event is shown or a text ignored.
LEMMA WholeLine ==
  ASSUME NEW t, t.status = "streaming", NEW line, Len(line) = 2, NEW e, line[1].of = e, ~line[1].end
  PROVE  \/ HandleLine(t, line) = [t EXCEPT !.status = "job over"]
         \/ e.seq # 0 /\ HandleLine(t, line) = [t EXCEPT !.events = Show(t.events, e)]
         \/ e.seq = 0 /\ HandleLine(t, line) = t
<1>1. PICK x : x = [t EXCEPT !.status = "job over"] OBVIOUS
<1>2. PICK y : y = [t EXCEPT !.events = Show(t.events, e)] OBVIOUS
<1>3. HandleLine(t, line) = CASE e.kind = "jobOver" -> [t EXCEPT !.status = "job over"]
                              [] e.seq # 0 -> [t EXCEPT !.events = Show(t.events, e)]
                              [] OTHER -> t
  BY DEF HandleLine
<1>4. HandleLine(t, line) = CASE e.kind = "jobOver" -> x [] e.seq # 0 -> y [] OTHER -> t
  BY <1>1, <1>2, <1>3, Zenon
<1>5. ASSUME NEW P \in BOOLEAN, NEW Q \in BOOLEAN, NEW v, v = CASE P -> x [] Q -> y [] OTHER -> t
      PROVE  v = x \/ (Q /\ v = y) \/ (~Q /\ v = t)
  BY <1>5
<1>6. (e.kind = "jobOver") \in BOOLEAN /\ (e.seq # 0) \in BOOLEAN OBVIOUS
<1> QED BY <1>1, <1>2, <1>4, <1>5, <1>6

\* A piece more.
LEMMA PieceStep ==
  ASSUME NEW lines \in Seq(Msg), Ordered(lines), NEW r \in Nat, r + 1 <= 2 * Len(lines),
         NEW t, ReaderOK(t, lines, r)
  PROVE  ReaderOK(HandlePiece(t, Pieces(lines)[r + 1]), lines, r + 1)
<1>1. t \in DialogType /\ t.status \in {"streaming", "job over"} BY DEF ReaderOK
<1>2. PICK p \in Piece : p = Pieces(lines)[r + 1]
  <2>1. PICK h \in Nat : r = 2 * h \/ r = 2 * h + 1 BY Halves
  <2>2. lines[h + 1] \in Msg BY <2>1, PieceIs
  <2>3. PICK b \in BOOLEAN : Pieces(lines)[r + 1] = [of |-> lines[h + 1], end |-> b] BY <2>1, PieceIs
  <2>4. Pieces(lines)[r + 1] \in Piece BY <2>2, <2>3 DEF Piece
  <2> QED BY <2>4
<1>3. SUFFICES ReaderOK(HandlePiece(t, p), lines, r + 1) BY <1>2
<1>4. p.end \in BOOLEAN /\ t.buf \in Seq(Piece) /\ t.events \in Seq(Msg) BY <1>1 DEF Piece, DialogType
<1>5. Append(t.buf, p) \in Seq(Piece) /\ <<>> \in Seq(Piece) BY <1>4
<1>6. CASE t.status # "streaming"
  <2>1. PICK b \in Seq(Piece) : HandlePiece(t, p) = [t EXCEPT !.buf = b]
    BY <1>5, <1>6 DEF HandlePiece, HandleLine
  <2>2. [t EXCEPT !.buf = b] \in DialogType /\ [t EXCEPT !.buf = b].status = t.status
    BY <1>1 DEF DialogType
  <2> QED BY <1>1, <1>6, <2>1, <2>2 DEF ReaderOK
<1>7. ASSUME t.status = "streaming", NEW h \in Nat, r = 2 * h, t.buf = <<>>, ListOK(t.events, lines, h)
      PROVE  ReaderOK(HandlePiece(t, p), lines, r + 1)
  <2>1. p = [of |-> lines[h + 1], end |-> FALSE] BY <1>2, <1>7, PieceIs
  <2>2. Append(t.buf, p) = <<p>> BY <1>7
  <2>3. HandlePiece(t, p) = [t EXCEPT !.buf = <<p>>] BY <2>1, <2>2 DEF HandlePiece
  <2>4. PICK u : u = [t EXCEPT !.buf = <<p>>] OBVIOUS
  <2>5. <<p>> \in Seq(Piece) OBVIOUS
  <2>6. u \in DialogType /\ u.status = t.status /\ u.buf = <<p>> /\ u.events = t.events
    BY <1>1, <2>4, <2>5 DEF DialogType
  <2>7. r + 1 = 2 * h + 1 BY <1>7
  <2>8. HalfRead(u, lines, r + 1, h) BY <1>7, <2>1, <2>6, <2>7 DEF HalfRead
  <2> QED BY <1>1, <2>3, <2>4, <2>6, <2>8 DEF ReaderOK
<1>8. ASSUME t.status = "streaming", NEW h \in Nat, r = 2 * h + 1,
             t.buf = <<[of |-> lines[h + 1], end |-> FALSE]>>, ListOK(t.events, lines, h)
      PROVE  ReaderOK(HandlePiece(t, p), lines, r + 1)
  <2>1. p = [of |-> lines[h + 1], end |-> TRUE] /\ h + 1 <= Len(lines) /\ lines[h + 1] \in Msg
    BY <1>2, <1>8, PieceIs
  <2>2. PICK line : line = Append(t.buf, p) OBVIOUS
  <2>3. Len(line) = 2 /\ line[1].of = lines[h + 1] /\ ~line[1].end
    <3>1. Len(t.buf) = 1 /\ t.buf[1] = [of |-> lines[h + 1], end |-> FALSE] BY <1>8
    <3>2. Len(line) = 2 BY <1>4, <2>2, <3>1
    <3>3. 1 \in DOMAIN t.buf BY <1>4, <3>1
    <3>4. line[1] = t.buf[1] BY <1>4, <2>2, <3>3, AppendFacts
    <3> QED BY <3>1, <3>2, <3>4
  <2>4. HandlePiece(t, p) = [HandleLine(t, line) EXCEPT !.buf = <<>>]
    BY <2>1, <2>2 DEF HandlePiece
  <2>5. PICK e \in Msg : e = lines[h + 1] /\ p.of = e BY <2>1
  <2>6. \/ HandleLine(t, line) = [t EXCEPT !.status = "job over"]
        \/ e.seq # 0 /\ HandleLine(t, line) = [t EXCEPT !.events = Show(t.events, e)]
        \/ e.seq = 0 /\ HandleLine(t, line) = t
    BY <1>8, <2>3, <2>5, WholeLine
  <2>7. ListOK(IF e.seq # 0 THEN Show(t.events, e) ELSE t.events, lines, h + 1)
    BY <1>8, <2>1, <2>5, ListNext
  <2>8. PICK w : w = HandleLine(t, line) OBVIOUS
  <2>9. /\ w \in DialogType /\ w.status \in {"streaming", "job over"}
        /\ w.status = "streaming" => ListOK(w.events, lines, h + 1)
    <3>1. CASE w = [t EXCEPT !.status = "job over"] BY <1>1, <3>1 DEF DialogType
    <3>2. CASE e.seq # 0 /\ w = [t EXCEPT !.events = Show(t.events, e)]
      <4>1. PICK q : q = Show(t.events, e) OBVIOUS
      <4>2. w = [t EXCEPT !.events = q] BY <3>2, <4>1
      <4>3. ListOK(q, lines, h + 1) BY <2>7, <3>2, <4>1
      <4>4. q \in Seq(Msg) BY <4>3 DEF ListOK
      <4>5. w \in DialogType /\ w.status = t.status /\ w.events = q BY <1>1, <4>2, <4>4 DEF DialogType
      <4> QED BY <1>1, <4>3, <4>5
    <3>3. CASE e.seq = 0 /\ w = t BY <1>1, <2>7, <3>3
    <3> QED BY <2>6, <2>8, <3>1, <3>2, <3>3
  <2>10. PICK u : u = [w EXCEPT !.buf = <<>>] OBVIOUS
  <2>11. u \in DialogType /\ u.status = w.status /\ u.events = w.events /\ u.buf = <<>>
    BY <1>5, <2>9, <2>10 DEF DialogType
  <2>12. r + 1 = 2 * (h + 1) /\ h + 1 \in Nat BY <1>8
  <2>13. u.status = "streaming" => HalfRead(u, lines, r + 1, h + 1)
    BY <2>9, <2>11, <2>12 DEF HalfRead
  <2> QED BY <2>4, <2>8, <2>9, <2>10, <2>11, <2>12, <2>13 DEF ReaderOK
<1> QED BY <1>6, <1>7, <1>8 DEF ReaderOK, HalfRead

\* However the pieces are cut into chunks, what is read of the next one is what follows.
LEMMA ChunkRead ==
  ASSUME NEW lines \in Seq(Msg), Ordered(lines), NEW r \in Nat, NEW n \in Nat, r <= n,
         n <= 2 * Len(lines), NEW t, ReaderOK(t, lines, r)
  PROVE  ReaderOK(Decode(t, SubSeq(Pieces(lines), r + 1, n)), lines, n)
<1>1. PICK m \in Nat : m = n - r
  <2>1. n - r \in Nat OBVIOUS
  <2> QED BY <2>1
<1>2. PICK all : all = Pieces(lines) OBVIOUS
<1>3. PICK s : s = SubSeq(all, r + 1, n) OBVIOUS
<1>4. Len(s) = m /\ \A k \in 1 .. m : s[k] = all[r + k]
  <2> DEFINE S == {all[i] : i \in r + 1 .. n}
  <2>1. \A i \in r + 1 .. n : all[i] \in S OBVIOUS
  <2> HIDE DEF S
  <2>2. r + 1 \in Int /\ n \in Int OBVIOUS
  <2>3. /\ Len(s) = IF r + 1 <= n THEN n - (r + 1) + 1 ELSE 0
        /\ \A i \in 1 .. n - (r + 1) + 1 : s[i] = all[r + 1 + i - 1]
    BY <1>3, <2>1, <2>2, SubSeqProperties
  <2>4. n - (r + 1) + 1 = m /\ (IF r + 1 <= n THEN n - (r + 1) + 1 ELSE 0) = m BY <1>1
  <2>5. \A i \in 1 .. m : r + 1 + i - 1 = r + i OBVIOUS
  <2> QED BY <2>3, <2>4, <2>5
<1>5. PICK g : /\ g[0] = t /\ g[m] = Decode(t, s)
               /\ \A k \in 1 .. m : g[k] = HandlePiece(g[k - 1], s[k])
  <2>1. Len(s) \in Nat BY <1>4
  <2>2. PICK g : /\ g[0] = t /\ g[Len(s)] = Decode(t, s)
                 /\ \A k \in 1 .. Len(s) : g[k] = HandlePiece(g[k - 1], s[k])
    BY <2>1, DecodeIs
  <2> QED BY <1>4, <2>2
<1> DEFINE T == {k \in Nat : ReaderOK(g[k], lines, r + k)}
<1>6. 0 \in T
  <2>1. r + 0 = r OBVIOUS
  <2> QED BY <1>5, <2>1
<1>7. ASSUME NEW k \in T, k < m PROVE k + 1 \in T
  <2>1. k \in Nat /\ k + 1 \in Nat /\ r + k \in Nat /\ k + 1 \in 1 .. m BY <1>7
  <2>2. r + k + 1 <= 2 * Len(lines) BY <1>1, <1>7, <2>1
  <2>3. (k + 1) - 1 = k /\ r + (k + 1) = r + k + 1 BY <2>1
  <2>4. g[k + 1] = HandlePiece(g[k], all[r + k + 1]) BY <1>4, <1>5, <2>1, <2>3
  <2>5. ReaderOK(g[k], lines, r + k) OBVIOUS
  <2>6. ReaderOK(g[k + 1], lines, r + k + 1) BY <1>2, <2>1, <2>2, <2>4, <2>5, PieceStep
  <2> QED BY <2>1, <2>3, <2>6
<1>8. T \in SUBSET Nat OBVIOUS
<1> HIDE DEF T
<1>9. m \in T
  <2>1. \A k \in 0 .. m : k \in T BY <1>6, <1>7, <1>8, Induction
  <2> QED BY <2>1
<1>10. ReaderOK(g[m], lines, r + m) BY <1>9 DEF T
<1>11. r + m = n BY <1>1
<1> QED BY <1>2, <1>3, <1>5, <1>10, <1>11

-----------------------------------------------------------------------------
(* The dialogs. *)

\* A dialog that streams has read no more than was written, and one that is closed nothing.
DialogOK(t, lines) ==
  /\ t.status = "streaming" => ReaderOK(t, lines, t.read) /\ t.read <= 2 * Len(lines)
  /\ t.status = "closed" => t.read = 0 /\ t.buf = <<>> /\ t.events = <<>>

DialogsOK ==
  /\ dialog \in [Dialogs -> DialogType]
  /\ \A d \in Dialogs : DialogOK(dialog[d], watch[d].lines)

\* What was read stays read when a line is written.
LEMMA ReaderGrows ==
  ASSUME NEW lines \in Seq(Msg), NEW m \in Msg, NEW t \in DialogType, DialogOK(t, lines)
  PROVE  DialogOK(t, Append(lines, m))
<1> DEFINE more == Append(lines, m)
<1>1. PICK n \in Nat : n = Len(lines) OBVIOUS
<1>2. Len(more) = n + 1 /\ \A i \in 1 .. n : more[i] = lines[i] BY <1>1
<1> HIDE DEF more
<1>3. ASSUME t.status = "streaming" PROVE ReaderOK(t, more, t.read) /\ t.read <= 2 * Len(more)
  <2>1. PICK r \in Nat : r = t.read BY DEF DialogType
  <2>2. ReaderOK(t, lines, r) /\ r <= 2 * n BY <1>1, <1>3, <2>1 DEF DialogOK
  <2>3. PICK h \in Nat : HalfRead(t, lines, r, h) BY <1>3, <2>2 DEF ReaderOK
  <2>4. h \in 0 .. n /\ (r = 2 * h + 1 => h + 1 \in 1 .. n) BY <2>2, <2>3 DEF HalfRead
  <2>5. \A i \in 1 .. h : more[i] = lines[i] /\ \A j \in i + 1 .. h : more[j] = lines[j]
    BY <1>2, <2>4
  <2>6. LastWords(more, h) = LastWords(lines, h) BY <2>5 DEF LastWords
  <2>7. ListOK(t.events, lines, h) BY <2>3 DEF HalfRead
  <2>8. PICK W : W = LastWords(lines, h) OBVIOUS
  <2>9. PICK at : ShownAt(t.events, lines, W, at) BY <2>7, <2>8 DEF ListOK
  <2>10. \A i \in W : i \in 1 .. h BY <2>8 DEF LastWords
  <2>11. ShownAt(t.events, more, W, at) BY <2>5, <2>9, <2>10 DEF ShownAt
  <2>12. ListOK(t.events, more, h) BY <2>6, <2>7, <2>8, <2>11 DEF ListOK
  <2>13. r = 2 * h + 1 => more[h + 1] = lines[h + 1] BY <1>2, <2>4
  <2>14. HalfRead(t, more, r, h) BY <2>3, <2>12, <2>13 DEF HalfRead
  <2>15. r <= 2 * Len(more) BY <1>2, <2>2
  <2> QED BY <1>3, <2>1, <2>14, <2>15 DEF ReaderOK
<1> QED BY <1>3 DEF DialogOK, more

\* The lines of a dialog only grow.
LEMMA LinesGrow == ASSUME TypeOK, SliceOK, TodoOK, [Next]_vars, NEW d \in Dialogs PROVE Grows(d)
<1>1. d \in Watches BY WatcherAssumption
<1>2. ASSUME watch' = watch PROVE Grows(d) BY <1>2 DEF Grows
<1>3. ASSUME NEW w \in Watches, Only(w), w # d PROVE Grows(d)
  <2>1. watch'[d] = watch[d] BY <1>1, <1>3 DEF Only
  <2> QED BY <2>1 DEF Grows
<1>4. ASSUME NEW kind \in {"part", "full", "error"}, NEW next \in BOOLEAN, Report(kind, next) PROVE Grows(d)
  BY <1>2, <1>4, ReportEffect DEF SendEffect
<1>5. CASE TellClientsJobFinished BY <1>2, <1>5, JobEffect DEF SendEffect
<1>6. CASE CancelJob \/ RemoveJob BY <1>2, <1>6, JobEffect
<1>7. CASE MuxStart \/ Stop \/ MuxExit BY <1>2, <1>7, MuxIdle
<1>8. CASE TellClientsToExit BY <1>1, <1>8, ExitEffect DEF SameHandlers, Grows
<1>9. CASE MuxTake BY <1>2, <1>9, TakeEffect
<1>10. CASE MuxSend \/ MuxDrop \/ MuxRetry
  <2>1. PICK w : ForwardEffect(w) BY <1>10, SendStepEffect, DropEffect, RetryEffect
  <2>2. w \in Watches /\ Only(w) /\ watch'[w].lines = watch[w].lines BY <2>1 DEF ForwardEffect
  <2> QED BY <1>3, <2>2 DEF Grows
<1>11. ASSUME NEW w \in Watches, AddConsumer(w) \/ CloseChan(w) PROVE Grows(d)
  <2>1. Only(w) /\ Grows(w) BY <1>11, AddEffect, CloseEffect DEF TextAfter
  <2> QED BY <1>3, <2>1
<1>12. ASSUME NEW w \in Watches, Receive(w) PROVE Grows(d)
  <2>1. Only(w) /\ Grows(w) BY <1>12, ReceiveEffect
  <2> QED BY <1>3, <2>1
<1>13. ASSUME NEW w \in Watches, Leave(w) \/ RemoveConsumer(w) \/ Request(w) PROVE Grows(d)
  <2>1. Only(w) /\ watch'[w].lines = watch[w].lines
    BY <1>13, LeaveEffect, RemoveEffect, RequestEffect
  <2> QED BY <1>3, <2>1 DEF Grows
<1>14. ASSUME NEW w \in Watches, SetGone(w) PROVE Grows(d)
  BY <1>1, <1>14, GoneEffect DEF SameHandlers, Grows
<1>15. CASE UNCHANGED watcherVars BY <1>2, <1>15 DEF watcherVars
<1> QED BY Steps, <1>4, <1>5, <1>6, <1>7, <1>8, <1>9, <1>10, <1>11, <1>12, <1>13, <1>14, <1>15

\* A dialog that does nothing.
LEMMA DialogRests ==
  ASSUME Inv, [Next]_vars, NEW d \in Dialogs, dialog[d] \in DialogType,
         DialogOK(dialog[d], watch[d].lines)
  PROVE  DialogOK(dialog[d], watch'[d].lines)
<1>1. Grows(d) BY LinesGrow DEF Inv
<1>2. watch[d].lines \in Seq(Msg) BY WatcherAssumption DEF Inv, TypeOK, HandlerType
<1>3. PICK lines \in Seq(Msg) : lines = watch[d].lines BY <1>2
<1>4. PICK t \in DialogType : t = dialog[d] OBVIOUS
<1>5. watch'[d].lines = lines \/ \E m \in Msg : watch'[d].lines = Append(lines, m)
  BY <1>1, <1>3 DEF Grows
<1>6. DialogOK(t, lines) BY <1>3, <1>4
<1>7. DialogOK(t, watch'[d].lines) BY <1>5, <1>6, ReaderGrows
<1> QED BY <1>4, <1>7

\* What a dialog does, and what that leaves of it.
LEMMA DialogMoves ==
  ASSUME Inv, DialogsOK, NEW d \in Dialogs, NextDialog(d)
  PROVE  /\ dialog' = [dialog EXCEPT ![d] = dialog'[d]]
         /\ dialog'[d] \in DialogType
         /\ DialogOK(dialog'[d], watch[d].lines)
<1>1. PICK t \in DialogType : t = dialog[d] BY DEF DialogsOK
<1>2. PICK lines \in Seq(Msg) : lines = watch[d].lines
  <2>1. watch[d].lines \in Seq(Msg) BY WatcherAssumption DEF Inv, TypeOK, HandlerType
  <2> QED BY <2>1
<1>0. 0 = 2 * 0 /\ 0 \in Nat /\ 0 <= 2 * Len(lines)
  <2>1. Len(lines) \in Nat OBVIOUS
  <2> QED BY <2>1
<1>3. Ordered(lines) BY <1>2, WatcherAssumption DEF Inv, OrderOK, Pipe
<1>4. DialogOK(t, lines) BY <1>1, <1>2 DEF DialogsOK
<1>5. dialog \in [Dialogs -> DialogType] BY DEF DialogsOK
<1>6. ASSUME NEW u \in DialogType, dialog' = [dialog EXCEPT ![d] = u], DialogOK(u, lines)
      PROVE  /\ dialog' = [dialog EXCEPT ![d] = dialog'[d]]
             /\ dialog'[d] \in DialogType
             /\ DialogOK(dialog'[d], watch[d].lines)
  <2>1. dialog'[d] = u BY <1>5, <1>6
  <2> QED BY <1>2, <1>6, <2>1
<1>7. ASSUME NEW u \in DialogType, u.status \notin {"streaming", "closed"} PROVE DialogOK(u, lines)
  BY <1>7 DEF DialogOK
<1>8. Dialog0 \in DialogType
  <2>1. <<>> \in Seq(Piece) /\ <<>> \in Seq(Msg) OBVIOUS
  <2> QED BY <2>1 DEF Dialog0, DialogType
<1>9. CASE OpenWatch(d)
  <2>1. t.status = "closed" BY <1>1, <1>9 DEF OpenWatch
  <2>2. PICK status \in {"streaming", "no job"} : dialog' = [dialog EXCEPT ![d].status = status]
    BY <1>9 DEF OpenWatch
  <2>3. PICK u : u = [t EXCEPT !.status = status] OBVIOUS
  <2>4. dialog' = [dialog EXCEPT ![d] = u] BY <1>1, <1>5, <2>2, <2>3
  <2>5. /\ u \in DialogType /\ u.status = status /\ u.read = t.read
        /\ u.buf = t.buf /\ u.events = t.events
    BY <2>3 DEF DialogType
  <2>6. u.read = 0 /\ u.buf = <<>> /\ u.events = <<>> BY <1>4, <2>1, <2>5 DEF DialogOK
  <2>7. HalfRead(u, lines, 0, 0) BY <1>0, <2>6, ListEmpty DEF HalfRead
  <2>8. u.status = "streaming" => ReaderOK(u, lines, 0) BY <1>0, <2>5, <2>7 DEF ReaderOK
  <2>9. DialogOK(u, lines) BY <1>0, <2>5, <2>6, <2>8 DEF DialogOK
  <2> QED BY <1>6, <2>4, <2>5, <2>9
<1>10. CASE ReadChunk(d)
  <2>1. t.status = "streaming" BY <1>1, <1>10 DEF ReadChunk
  <2>2. PICK r \in Nat : r = t.read BY DEF DialogType
  <2>3. ReaderOK(t, lines, r) /\ r <= 2 * Len(lines) BY <1>4, <2>1, <2>2 DEF DialogOK
  <2>4. Len(Pieces(lines)) = 2 * Len(lines) BY DEF Pieces
  <2>5. PICK n \in r + 1 .. 2 * Len(lines) :
          dialog' = [dialog EXCEPT ![d] = [Decode(t, SubSeq(Pieces(lines), r + 1, n)) EXCEPT !.read = n]]
    BY <1>1, <1>2, <1>10, <2>2, <2>4 DEF ReadChunk
  <2>6. n \in Nat /\ r <= n /\ n <= 2 * Len(lines) OBVIOUS
  <2>7. PICK v : v = Decode(t, SubSeq(Pieces(lines), r + 1, n)) OBVIOUS
  <2>8. ReaderOK(v, lines, n) BY <1>3, <2>3, <2>6, <2>7, ChunkRead
  <2>9. PICK u : u = [v EXCEPT !.read = n] OBVIOUS
  <2>10. dialog' = [dialog EXCEPT ![d] = u] BY <2>5, <2>7, <2>9
  <2>11. v \in DialogType BY <2>8 DEF ReaderOK
  <2>12. /\ u \in DialogType /\ u.status = v.status /\ u.read = n
         /\ u.buf = v.buf /\ u.events = v.events
    BY <2>6, <2>9, <2>11 DEF DialogType
  <2>13. ReaderOK(u, lines, n) BY <2>8, <2>12 DEF ReaderOK, HalfRead
  <2>14. u.status # "closed" BY <2>8, <2>12 DEF ReaderOK
  <2>15. DialogOK(u, lines) BY <2>6, <2>12, <2>13, <2>14 DEF DialogOK
  <2> QED BY <1>6, <2>10, <2>12, <2>15
<1>11. CASE StreamEnds(d)
  <2>1. t.status = "streaming" /\ t.read = 2 * Len(lines) BY <1>1, <1>2, <1>11 DEF StreamEnds
  <2>2. t.buf = <<>>
    <3>1. PICK h \in Nat : HalfRead(t, lines, t.read, h) BY <1>4, <2>1 DEF DialogOK, ReaderOK
    <3>2. PICK n \in Nat : n = Len(lines) OBVIOUS
    <3>3. 2 * n # 2 * h + 1 OBVIOUS
    <3> QED BY <2>1, <3>1, <3>2, <3>3 DEF HalfRead
  <2>3. PICK u : u = [t EXCEPT !.status = "stream ended"] OBVIOUS
  <2>4. dialog' = [dialog EXCEPT ![d] = u] BY <1>1, <1>11, <2>1, <2>2, <2>3 DEF StreamEnds
  <2>5. u \in DialogType /\ u.status = "stream ended" BY <2>3 DEF DialogType
  <2> QED BY <1>6, <1>7, <2>4, <2>5
<1>12. CASE StreamFails(d)
  <2>1. PICK u : u = [Dialog0 EXCEPT !.status = "error", !.events = t.events] OBVIOUS
  <2>2. dialog' = [dialog EXCEPT ![d] = u] BY <1>1, <1>12, <2>1 DEF StreamFails
  <2>3. u \in DialogType /\ u.status = "error" BY <1>8, <2>1 DEF DialogType
  <2> QED BY <1>6, <1>7, <2>2, <2>3
<1>13. CASE CloseWatch(d)
  <2>1. PICK u : u = [Dialog0 EXCEPT !.status = "left"] OBVIOUS
  <2>2. dialog' = [dialog EXCEPT ![d] = u] BY <1>13, <2>1 DEF CloseWatch
  <2>3. u \in DialogType /\ u.status = "left" BY <1>8, <2>1 DEF DialogType
  <2> QED BY <1>6, <1>7, <2>2, <2>3
<1>14. CASE ClearEvents(d)
  <2>1. PICK u : u = [t EXCEPT !.events = <<>>] OBVIOUS
  <2>2. dialog' = [dialog EXCEPT ![d] = u] BY <1>1, <1>5, <1>14, <2>1 DEF ClearEvents
  <2>3. <<>> \in Seq(Msg) OBVIOUS
  <2>4. /\ u \in DialogType /\ u.status = t.status /\ u.read = t.read
        /\ u.buf = t.buf /\ u.events = <<>>
    BY <2>1, <2>3 DEF DialogType
  <2>5. ASSUME t.status = "streaming" PROVE ReaderOK(u, lines, t.read)
    <3>1. PICK h \in Nat : HalfRead(t, lines, t.read, h) BY <1>4, <2>5 DEF DialogOK, ReaderOK
    <3>2. HalfRead(u, lines, t.read, h) BY <2>4, <3>1, ListEmpty DEF HalfRead
    <3> QED BY <2>4, <2>5, <3>2 DEF ReaderOK
  <2>6. DialogOK(u, lines) BY <1>4, <2>4, <2>5 DEF DialogOK
  <2> QED BY <1>6, <2>2, <2>4, <2>6
<1> QED BY <1>9, <1>10, <1>11, <1>12, <1>13, <1>14 DEF NextDialog

\* Nobody has read anything at first.
LEMMA DialogsInit == ASSUME Init PROVE DialogsOK
<1>1. <<>> \in Seq(Piece) /\ <<>> \in Seq(Msg) OBVIOUS
<1>2. PICK t : t = Dialog0 OBVIOUS
<1>3. /\ t \in DialogType /\ t.status = "closed" /\ t.read = 0 /\ t.buf = <<>> /\ t.events = <<>>
  BY <1>1, <1>2 DEF Dialog0, DialogType
<1>4. dialog = [d \in Dialogs |-> t] BY <1>2 DEF Init
<1>5. ASSUME NEW lines PROVE DialogOK(t, lines) BY <1>3 DEF DialogOK
<1> QED BY <1>3, <1>4, <1>5 DEF DialogsOK

\* Every step keeps what the dialogs have read.
LEMMA DialogsStep == ASSUME Inv, DialogsOK, [Next]_vars PROVE DialogsOK'
<1>1. dialog \in [Dialogs -> DialogType] /\ \A d \in Dialogs : DialogOK(dialog[d], watch[d].lines)
  BY DEF DialogsOK
<1>2. \A d \in Dialogs : DialogOK(dialog[d], watch'[d].lines) BY <1>1, DialogRests
<1>3. CASE dialog' = dialog BY <1>1, <1>2, <1>3 DEF DialogsOK
<1>4. ASSUME NEW d \in Dialogs, NextDialog(d) PROVE DialogsOK'
  <2>1. PICK t \in DialogType : /\ t = dialog'[d] /\ dialog' = [dialog EXCEPT ![d] = t]
                                /\ DialogOK(t, watch[d].lines)
    BY <1>4, DialogMoves
  <2>2. dialog' \in [Dialogs -> DialogType] BY <1>1, <2>1
  <2>3. DialogOK(t, watch'[d].lines)
    <3>1. Grows(d) BY LinesGrow DEF Inv
    <3>2. PICK lines \in Seq(Msg) : lines = watch[d].lines
      <4>1. watch[d].lines \in Seq(Msg) BY WatcherAssumption DEF Inv, TypeOK, HandlerType
      <4> QED BY <4>1
    <3>3. watch'[d].lines = lines \/ \E m \in Msg : watch'[d].lines = Append(lines, m)
      BY <3>1, <3>2 DEF Grows
    <3> QED BY <2>1, <3>2, <3>3, ReaderGrows
  <2>4. ASSUME NEW c \in Dialogs PROVE DialogOK(dialog'[c], watch'[c].lines)
    <3>1. CASE c = d BY <2>1, <2>3, <3>1
    <3>2. CASE c # d
      <4>1. dialog'[c] = dialog[c] BY <1>1, <2>1, <3>2
      <4> QED BY <1>2, <4>1
    <3> QED BY <3>1, <3>2
  <2> QED BY <2>2, <2>4 DEF DialogsOK
<1>5. dialog' = dialog \/ \E d \in Dialogs : NextDialog(d)
  BY DEF Next, Attach, Interrupt, vars
<1> QED BY <1>3, <1>4, <1>5

\* However the stream is cut into chunks, the list of a dialog holds in order the last word
\* on each of the last items of which whole lines were read, and no more than MAX_EVENTS: half
\* a line waits for its end, and the job speaks of its items one after the other, so the event
\* that is replaced is the only one of its item (streamSseEvents, handleLine, setEvents).
THEOREM ListIsExact == Spec => []ListExact
<1>1. Spec => []DialogsOK BY DialogsInit, DialogsStep, InvHolds, PTL DEF Spec
<1>2. ASSUME DialogsOK PROVE ListExact
  <2> SUFFICES ASSUME NEW d \in Dialogs, dialog[d].status = "streaming"
               PROVE  LET shown == dialog[d].events
                          lines == watch[d].lines
                          words == LastWords(lines, dialog[d].read \div 2)
                      IN  /\ Len(shown) <= MaxShown
                          /\ \E at \in [DOMAIN shown -> words] :
                               /\ \A k \in DOMAIN shown : shown[k] = lines[at[k]]
                               /\ \A k, l \in DOMAIN shown : k < l => at[k] < at[l]
                               /\ \A k \in DOMAIN shown : \A i \in words : at[k] <= i => i \in Range(at)
    BY DEF ListExact
  <2> DEFINE t == dialog[d]
             lines == watch[d].lines
             W == LastWords(lines, t.read \div 2)
  <2>1. t.status = "streaming" OBVIOUS
  <2>2. DialogOK(t, lines) BY <1>2 DEF DialogsOK
  <2>3. PICK h \in Nat : HalfRead(t, lines, t.read, h) BY <2>1, <2>2 DEF DialogOK, ReaderOK
  <2>4. t.read \div 2 = h
    <3>1. (2 * h) \div 2 = h /\ (2 * h + 1) \div 2 = h OBVIOUS
    <3> QED BY <2>3, <3>1 DEF HalfRead
  <2>5. ListOK(t.events, lines, h) BY <2>3 DEF HalfRead
  <2>6. t.events \in Seq(Msg) /\ Len(t.events) <= MaxShown BY <2>5 DEF ListOK
  <2>7. DOMAIN t.events = 1 .. Len(t.events) BY <2>6
  <2>8. PICK at : ShownAt(t.events, lines, W, at) BY <2>4, <2>5 DEF ListOK
  <2>9. at \in [DOMAIN t.events -> W] BY <2>7, <2>8 DEF ShownAt
  <2>10. ASSUME NEW k \in DOMAIN t.events, NEW i \in W, at[k] <= i PROVE i \in Range(at)
    BY <2>7, <2>8, <2>9, <2>10 DEF ShownAt, Range
  <2>11. /\ \A k \in DOMAIN t.events : t.events[k] = lines[at[k]]
         /\ \A k, l \in DOMAIN t.events : k < l => at[k] < at[l]
    BY <2>7, <2>8 DEF ShownAt
  <2> QED BY <2>6, <2>9, <2>10, <2>11
<1> QED BY <1>1, <1>2, PTL
=============================================================================
