-------------------------- MODULE SearchPageProofs --------------------------
(***************************************************************************)
(* A theorem about SearchPage for any site, any texts and any index.       *)
(***************************************************************************)
EXTENDS SearchPage, TLAPS

Texts == Queries \cup LinkTerms

Query == [type : {"query"}, query : Texts, matches : {<<>>}]

Matches == {Answer[c][q].matches : c \in Corpora, q \in Texts}

Result == [type : {"results"}, query : Texts, matches : Matches]

-----------------------------------------------------------------------------
(* The invariant, in parts: nothing is asked before the worker is ready    *)
(* and the page listens.                                                   *)

Idle == ~listening /\ asked = <<>>

Started ==
  \/ worker = "new" /\ toWorker = <<Message("init")>> /\ toPage = <<>> /\ Idle
  \/ worker \in {"fetching", "building"} /\ toWorker = <<>> /\ toPage = <<>> /\ Idle
  \/ worker = "ready" /\ toWorker = <<>> /\ Idle
     /\ \/ toPage = <<Message("config"), Message("allowSearch")>>
        \/ toPage = <<Message("allowSearch")>>

\* The latest text is the last one the worker is to answer, its answer is the last one the
\* page is to show, or it is shown.
Follows(queries, results, display) ==
  LET answer == [query |-> asked, matches |-> Answer[docs][asked].matches]
  IN  asked # <<>> /\ Len(asked) > minimum /\ Answer[docs][asked].ok =>
        \/ queries # <<>> /\ queries[Len(queries)].query = asked
        \/ /\ queries = <<>> /\ results # <<>>
           /\ results[Len(results)].query = answer.query
           /\ results[Len(results)].matches = answer.matches
        \/ queries = <<>> /\ results = <<>> /\ display = answer

Running ==
  /\ worker = "ready" /\ listening
  /\ toWorker \in Seq(Query) /\ toPage \in Seq(Result)
  /\ Follows(toWorker, toPage, shown)

Inv ==
  /\ docs \in Corpora /\ link \in LinkTerms
  /\ Started \/ Running

-----------------------------------------------------------------------------
(* The steps. *)

\* A queue without its first message.
LEMMA TailFacts ==
  ASSUME NEW S, NEW s \in Seq(S), s # <<>>
  PROVE  /\ Tail(s) \in Seq(S) /\ Head(s) \in S /\ Head(s) = s[1]
         /\ Tail(s) = <<>> => s[Len(s)] = Head(s)
         /\ Tail(s) # <<>> => Tail(s)[Len(Tail(s))] = s[Len(s)]
<1>1. PICK n \in Nat : n = Len(s) /\ n # 0 OBVIOUS
<1>2. Tail(s) \in Seq(S) /\ Len(Tail(s)) = n - 1 /\ Head(s) \in S /\ Head(s) = s[1] BY <1>1
<1>3. ASSUME Tail(s) = <<>> PROVE s[Len(s)] = Head(s)
  <2>1. PICK t \in Seq(S) : t = Tail(s) /\ Len(t) = n - 1 BY <1>2
  <2>2. n - 1 = 0 BY <1>3, <2>1
  <2>3. n = 1 BY <2>2
  <2> QED BY <1>1, <1>2, <2>3
<1>4. ASSUME Tail(s) # <<>> PROVE Tail(s)[Len(Tail(s))] = s[Len(s)]
  <2>1. n - 1 # 0 BY <1>2, <1>4
  <2>2. n - 1 \in 1 .. n - 1 BY <1>1, <2>1
  <2>3. Tail(s)[n - 1] = s[n - 1 + 1] BY <1>1, <1>2, <2>2
  <2>4. n - 1 + 1 = n OBVIOUS
  <2> QED BY <1>1, <1>2, <2>3, <2>4
<1> QED BY <1>2, <1>3, <1>4

\* A queue with a message more.
LEMMA AppendFacts ==
  ASSUME NEW S, NEW s \in Seq(S), NEW m \in S
  PROVE  /\ Append(s, m) \in Seq(S) /\ Append(s, m) # <<>>
         /\ Append(s, m)[Len(Append(s, m))] = m /\ s \o <<m>> = Append(s, m) /\ s \o <<>> = s
  OBVIOUS

\* doSearch() posts the text, or clears the results of a short one.
LEMMA SearchFollows ==
  ASSUME toWorker \in Seq(Query), NEW query \in Texts, DoSearch(query), UNCHANGED <<docs, minimum>>
  PROVE  toWorker' \in Seq(Query) /\ Follows(toWorker, toPage, shown)'
<1>1. PICK m \in Query : m = [Message("query") EXCEPT !.query = query] /\ m.query = query
  <2>1. [Message("query") EXCEPT !.query = query] = [type |-> "query", query |-> query, matches |-> <<>>]
    BY DEF Message
  <2> QED BY <2>1 DEF Query
<1>2. asked' = query BY DEF DoSearch
<1>3. CASE Len(query) > minimum
  <2>1. toWorker' = Append(toWorker, m) BY <1>1, <1>3 DEF DoSearch
  <2>2. toWorker' \in Seq(Query) /\ toWorker' # <<>> /\ toWorker'[Len(toWorker')] = m
    BY <2>1, AppendFacts
  <2> QED BY <1>1, <1>2, <2>2 DEF Follows
<1>4. CASE ~(Len(query) > minimum)
  <2>1. toWorker' = toWorker BY <1>4 DEF DoSearch
  <2> QED BY <1>2, <1>4, <2>1 DEF Follows
<1> QED BY <1>3, <1>4

\* The worker answers the first text that is waiting.
LEMMA AnswerFollows ==
  ASSUME docs \in Corpora, Running, SearchMessage
  PROVE  Running'
<1> DEFINE q == Head(toWorker)
<1>1. /\ toWorker # <<>> /\ toWorker' = Tail(toWorker) /\ toPage' = toPage \o Posted(q.query)
      /\ UNCHANGED <<docs, worker, minimum, listening, shown, asked>>
  BY DEF SearchMessage, site, page
<1>2. /\ Tail(toWorker) \in Seq(Query) /\ q \in Query
      /\ Tail(toWorker) = <<>> => toWorker[Len(toWorker)] = q
      /\ Tail(toWorker) # <<>> => Tail(toWorker)[Len(Tail(toWorker))] = toWorker[Len(toWorker)]
  BY <1>1, TailFacts DEF Running
<1> HIDE DEF q
<1>3. q.query \in Texts BY <1>2 DEF Query
<1>4. toPage \in Seq(Result) /\ worker = "ready" BY DEF Running
<1> DEFINE a == Answer[docs][q.query]
           m == [type |-> "results", query |-> q.query, matches |-> a.matches]
<1>5. m \in Result
  <2>1. a.matches \in Matches BY <1>3 DEF Matches
  <2> QED BY <1>3, <2>1 DEF Result
<1>6. m.query = q.query /\ m.matches = a.matches OBVIOUS
<1>7. Posted(q.query) = IF q.query # <<>> /\ a.ok THEN <<m>> ELSE <<>> BY <1>4 DEF Posted
<1>8. toPage' = IF q.query # <<>> /\ a.ok THEN Append(toPage, m) ELSE toPage
  BY <1>1, <1>4, <1>5, <1>7, AppendFacts
<1>9. toPage' \in Seq(Result) BY <1>4, <1>5, <1>8, AppendFacts
<1>10. Follows(toWorker, toPage, shown)'
  <2>1. SUFFICES ASSUME asked # <<>>, Len(asked) > minimum, Answer[docs][asked].ok
                 PROVE  \/ toWorker' # <<>> /\ toWorker'[Len(toWorker')].query = asked
                        \/ /\ toWorker' = <<>> /\ toPage' # <<>>
                           /\ toPage'[Len(toPage')].query = asked
                           /\ toPage'[Len(toPage')].matches = Answer[docs][asked].matches
    BY <1>1 DEF Follows
  <2>2. toWorker[Len(toWorker)].query = asked BY <1>1, <2>1 DEF Running, Follows
  <2>3. CASE Tail(toWorker) # <<>> BY <1>1, <1>2, <2>2, <2>3
  <2>4. CASE Tail(toWorker) = <<>>
    <3>1. q.query = asked BY <1>2, <2>2, <2>4
    <3>2. toPage' = Append(toPage, m) BY <1>8, <2>1, <3>1
    <3>3. toPage' # <<>> /\ toPage'[Len(toPage')] = m BY <1>4, <1>5, <3>2, AppendFacts
    <3> QED BY <1>1, <1>6, <2>4, <3>1, <3>3
  <2> QED BY <2>3, <2>4
<1> QED BY <1>1, <1>2, <1>9, <1>10 DEF Running

\* The page shows the first answer that is waiting.
LEMMA ResultFollows == ASSUME Running, OnResults PROVE Running'
<1> DEFINE p == Head(toPage)
<1>1. /\ toPage # <<>> /\ toPage' = Tail(toPage)
      /\ shown' = [query |-> p.query, matches |-> p.matches]
      /\ UNCHANGED <<docs, worker, toWorker, minimum, listening, asked>>
  BY DEF OnResults, site
<1>2. /\ Tail(toPage) \in Seq(Result)
      /\ Tail(toPage) = <<>> => toPage[Len(toPage)] = p
      /\ Tail(toPage) # <<>> => Tail(toPage)[Len(Tail(toPage))] = toPage[Len(toPage)]
  BY <1>1, TailFacts DEF Running
<1> HIDE DEF p
<1>3. Follows(toWorker, toPage, shown)' BY <1>1, <1>2 DEF Running, Follows
<1> QED BY <1>1, <1>2, <1>3 DEF Running

\* What a message is taken for.
LEMMA Heads ==
  /\ Started => /\ toWorker # <<>> =>
                     worker = "new" /\ Idle /\ toPage = <<>>
                     /\ Head(toWorker).type = "init" /\ Tail(toWorker) = <<>>
                /\ toPage # <<>> =>
                     worker = "ready" /\ toWorker = <<>> /\ Idle
                     /\ \/ Head(toPage).type = "config" /\ Tail(toPage) = <<Message("allowSearch")>>
                        \/ Head(toPage).type = "allowSearch" /\ Tail(toPage) = <<>>
  /\ Running => /\ toWorker # <<>> => Head(toWorker).type = "query"
                /\ toPage # <<>> => Head(toPage).type = "results"
<1>1. PICK i, c, a : i = Message("init") /\ c = Message("config") /\ a = Message("allowSearch")
  OBVIOUS
<1>2. i.type = "init" /\ c.type = "config" /\ a.type = "allowSearch" BY <1>1 DEF Message
<1>3. /\ Head(<<i>>) = i /\ Tail(<<i>>) = <<>> /\ Head(<<a>>) = a /\ Tail(<<a>>) = <<>>
      /\ Head(<<c, a>>) = c /\ Tail(<<c, a>>) = <<a>>
  OBVIOUS
<1>4. ASSUME Started, toWorker # <<>>
      PROVE  /\ worker = "new" /\ Idle /\ toPage = <<>>
             /\ Head(toWorker).type = "init" /\ Tail(toWorker) = <<>>
  BY <1>1, <1>2, <1>3, <1>4 DEF Started
<1>5. ASSUME Started, toPage # <<>>
      PROVE  /\ worker = "ready" /\ toWorker = <<>> /\ Idle
             /\ \/ Head(toPage).type = "config" /\ Tail(toPage) = <<Message("allowSearch")>>
                \/ Head(toPage).type = "allowSearch" /\ Tail(toPage) = <<>>
  BY <1>1, <1>2, <1>3, <1>5 DEF Started
<1>6. ASSUME Running, toWorker # <<>> PROVE Head(toWorker).type = "query"
  <2>1. Head(toWorker) \in Query BY <1>6, TailFacts DEF Running
  <2> QED BY <2>1 DEF Query
<1>7. ASSUME Running, toPage # <<>> PROVE Head(toPage).type = "results"
  <2>1. Head(toPage) \in Result BY <1>7, TailFacts DEF Running
  <2> QED BY <2>1 DEF Result
<1> QED BY <1>4, <1>5, <1>6, <1>7

\* Every step of page and worker keeps the invariant.
LEMMA InvStep == ASSUME Inv, [Next]_vars PROVE Inv'
<1>1. docs \in Corpora /\ link \in LinkTerms /\ (Started \/ Running) BY DEF Inv
<1>2. SUFFICES (docs \in Corpora /\ link \in LinkTerms)' /\ (Started' \/ Running') BY DEF Inv
<1>3. CASE InitWorker
  <2>1. /\ toWorker # <<>> /\ Head(toWorker).type = "init" /\ toWorker' = Tail(toWorker)
        /\ worker' = "fetching" /\ UNCHANGED <<docs, link, toPage, listening, asked>>
    BY <1>3 DEF InitWorker, site, page
  <2> QED BY <1>1, <2>1, Heads DEF Started, Idle
<1>4. CASE OnJSONLoaded
  <2>1. worker = "fetching" /\ worker' = "building"
        /\ UNCHANGED <<docs, link, toWorker, toPage, listening, asked>>
    BY <1>4 DEF OnJSONLoaded, site, page
  <2> QED BY <1>1, <2>1 DEF Started, Running, Idle
<1>5. CASE OnScriptsLoaded
  <2>1. /\ worker = "building" /\ worker' = "ready"
        /\ toPage' = toPage \o <<Message("config"), Message("allowSearch")>>
        /\ UNCHANGED <<docs, link, toWorker, listening, asked>>
    BY <1>5 DEF OnScriptsLoaded, site, page
  <2>2. toWorker = <<>> /\ toPage = <<>> /\ Idle BY <1>1, <2>1 DEF Started, Running
  <2>3. toPage' = <<Message("config"), Message("allowSearch")>>
    <3>1. \A c, a : <<>> \o <<c, a>> = <<c, a>> OBVIOUS
    <3> QED BY <2>1, <2>2, <3>1
  <2> QED BY <1>1, <2>1, <2>2, <2>3 DEF Started, Idle
<1>6. CASE SearchMessage
  <2>1. toWorker # <<>> /\ Head(toWorker).type = "query" /\ UNCHANGED <<docs, link>>
    BY <1>6 DEF SearchMessage, site
  <2>2. Running BY <1>1, <2>1, Heads
  <2> QED BY <1>1, <1>6, <2>1, <2>2, AnswerFollows
<1>7. CASE OnConfig
  <2>1. /\ toPage # <<>> /\ Head(toPage).type = "config" /\ toPage' = Tail(toPage)
        /\ UNCHANGED <<docs, link, worker, toWorker, listening, asked>>
    BY <1>7 DEF OnConfig, site
  <2> QED BY <1>1, <2>1, Heads DEF Started, Idle
<1>8. CASE OnAllowSearch
  <2>1. /\ toPage # <<>> /\ Head(toPage).type = "allowSearch" /\ toPage' = Tail(toPage)
        /\ listening' /\ UNCHANGED <<docs, link, worker, minimum>>
        /\ IF link = <<>> THEN UNCHANGED <<toWorker, shown, asked>> ELSE DoSearch(link)
    BY <1>8 DEF OnAllowSearch, site
  <2>2. worker = "ready" /\ toWorker = <<>> /\ asked = <<>> /\ toPage' = <<>>
    BY <1>1, <2>1, Heads DEF Idle
  <2>3. toWorker \in Seq(Query) /\ toPage' \in Seq(Result) BY <2>2
  <2>4. toWorker' \in Seq(Query) /\ Follows(toWorker, toPage, shown)'
    <3>1. CASE link = <<>> BY <2>1, <2>2, <2>3, <3>1 DEF Follows
    <3>2. CASE link # <<>>
      <4>1. link \in Texts BY <1>1 DEF Texts
      <4> QED BY <2>1, <2>3, <3>2, <4>1, SearchFollows
    <3> QED BY <3>1, <3>2
  <2> QED BY <1>1, <2>1, <2>2, <2>3, <2>4 DEF Running
<1>9. CASE OnResults
  <2>1. toPage # <<>> /\ Head(toPage).type = "results" /\ UNCHANGED <<docs, link>>
    BY <1>9 DEF OnResults, site
  <2>2. Running BY <1>1, <2>1, Heads
  <2> QED BY <1>1, <1>9, <2>1, <2>2, ResultFollows
<1>10. ASSUME NEW query \in Queries, Type(query)
       PROVE  (docs \in Corpora /\ link \in LinkTerms)' /\ (Started' \/ Running')
  <2>1. /\ UNCHANGED <<docs, link, worker, toPage, minimum, listening>>
        /\ IF listening THEN DoSearch(query) ELSE UNCHANGED <<toWorker, shown, asked>>
    BY <1>10 DEF Type, site
  <2>2. CASE listening
    <3>1. Running BY <1>1, <2>2 DEF Started, Idle
    <3>2. query \in Texts BY DEF Texts
    <3>3. toWorker' \in Seq(Query) /\ Follows(toWorker, toPage, shown)'
      BY <2>1, <2>2, <3>1, <3>2, SearchFollows DEF Running
    <3> QED BY <1>1, <2>1, <3>1, <3>3 DEF Running
  <2>3. CASE ~listening
    <3>1. Started BY <1>1, <2>3 DEF Running
    <3> QED BY <1>1, <2>1, <2>3, <3>1 DEF Started, Idle
  <2> QED BY <2>2, <2>3
<1>11. CASE UNCHANGED vars BY <1>1, <1>11 DEF vars, Started, Idle, Running, Follows
<1> QED BY <1>3, <1>4, <1>5, <1>6, <1>7, <1>8, <1>9, <1>10, <1>11, SearchPageAssumption DEF Next

\* Whatever is typed while earlier texts are being answered, when no message is under way
\* the page shows the answer to the latest text, if that is long enough and parses: both
\* queues are first in, first out, so its answer is the last one to be shown (main.js
\* doSearch, onWorkerMessage; worker.js onmessage, search).
THEOREM LatestIsShown == Spec => []LatestShown
<1>1. ASSUME Init PROVE Inv
  BY <1>1 DEF Init, Inv, Started, Idle
<1>2. ASSUME Inv PROVE LatestShown
  <2>1. ASSUME Started PROVE LatestShown
    <3>1. worker = "ready" => toPage # <<>> BY <2>1 DEF Started
    <3> QED BY <3>1 DEF LatestShown
  <2>2. ASSUME Running PROVE LatestShown BY <2>2 DEF Running, Follows, LatestShown
  <2> QED BY <1>2, <2>1, <2>2 DEF Inv
<1> QED BY <1>1, <1>2, InvStep, PTL DEF Spec
=============================================================================
