----------------------------- MODULE SearchPage -----------------------------
(***************************************************************************)
(* The page of the documentation search and its worker                     *)
(* (webstatic/docs/search/main.js and worker.js): the page starts a worker *)
(* that fetches the documents and builds the index, then sends it the text *)
(* of the search field on every key; the worker answers in order, and not  *)
(* at all when the text does not parse.  Messages between the two are      *)
(* first in, first out.  What the index answers is a parameter.            *)
(***************************************************************************)
EXTENDS Integers, Sequences

CONSTANTS Corpora,     \* the documents a site may have: functions from names to documents
          Queries,     \* the texts a user may type
          NextQueries, \* the texts a user may type after the first one
          LinkTerms,   \* the search terms a link to the page may carry; <<>> is none
          MinLength,   \* min_search_length of the site's configuration
          Answer,      \* of each site to each text: whether it parses (ok), and the matches
          Keys         \* bound on the texts that are typed

ASSUME SearchPageAssumption ==
    /\ NextQueries \subseteq Queries
    /\ MinLength \in Nat /\ Keys \in Nat

VARIABLES
    docs,      \* the documents of the site
    worker,    \* "new", "fetching", "building" or "ready" (allowSearch)
    toWorker,  \* messages the page has posted
    toPage,    \* messages the worker has posted
    minimum,   \* min_search_length in the page, -1 until the configuration arrives
    listening, \* the page reacts to keys
    link,      \* the search term of the link that opened the page
    input,     \* the text of the search field
    shown,     \* the query and the matches on display
    keys,      \* number of texts typed so far
    asked      \* history: the text of the latest doSearch

vars == <<docs, worker, toWorker, toPage, minimum, listening, link, input,
          shown, keys, asked>>

site == <<docs, link>>
page == <<minimum, listening, input, shown, keys, asked>>

\* What is on display when there is nothing to show.
Cleared == [query |-> <<>>, matches |-> <<>>]

Message(type) == [type |-> type, query |-> <<>>, matches |-> <<>>]

Init ==
    /\ docs \in Corpora
    /\ worker = "new"
    /\ toWorker = <<Message("init")>>
    /\ toPage = <<>>
    /\ minimum = -1
    /\ listening = FALSE
    /\ link \in LinkTerms
    /\ input = <<>>
    /\ shown = Cleared
    /\ keys = 0
    /\ asked = <<>>

-----------------------------------------------------------------------------
(* The worker. *)

\* onmessage {init}: request the documents.
InitWorker ==
    /\ toWorker # <<>> /\ Head(toWorker).type = "init"
    /\ toWorker' = Tail(toWorker)
    /\ worker' = "fetching"
    /\ UNCHANGED <<site, toPage, page>>

\* onJSONLoaded: the documents have arrived and the scripts are loaded.
OnJSONLoaded ==
    /\ worker = "fetching"
    /\ worker' = "building"
    /\ UNCHANGED <<site, toWorker, toPage, page>>

\* onScriptsLoaded builds the index of docs, then posts the configuration and the
\* permission to search.  No message is handled in between.
OnScriptsLoaded ==
    /\ worker = "building"
    /\ worker' = "ready"
    /\ toPage' = toPage \o <<Message("config"), Message("allowSearch")>>
    /\ UNCHANGED <<site, toWorker, page>>

\* What the worker posts for a text.  search throws when the text does not parse,
\* and nothing is posted; before allowSearch it returns undefined, which the page
\* ignores.  A message with an empty text is not recognised as a query.
Posted(query) ==
    LET Post(answer) ==
            IF worker = "ready" /\ answer.ok
            THEN <<[type |-> "results", query |-> query, matches |-> answer.matches]>>
            ELSE <<>>
    IN  IF query = <<>> THEN <<>> ELSE Post(Answer[docs][query])

\* Mutant: the worker takes the newest message first.
SearchMessageNewestFirst ==
    /\ toWorker # <<>> /\ toWorker[Len(toWorker)].type = "query"
    /\ toWorker' = SubSeq(toWorker, 1, Len(toWorker) - 1)
    /\ toPage' = toPage \o Posted(toWorker[Len(toWorker)].query)
    /\ UNCHANGED <<site, worker, page>>

\* onmessage {query}
SearchMessage ==
    /\ toWorker # <<>> /\ Head(toWorker).type = "query"
    /\ toWorker' = Tail(toWorker)
    /\ toPage' = toPage \o Posted(Head(toWorker).query)
    /\ UNCHANGED <<site, worker, page>>

-----------------------------------------------------------------------------
(* The page. *)

\* doSearch: a text that is long enough is posted, a short one clears the results.
DoSearch(query) ==
    /\ asked' = query
    /\ IF Len(query) > minimum
       THEN /\ toWorker' = Append(toWorker, [Message("query") EXCEPT !.query = query])
            /\ UNCHANGED shown
       ELSE /\ shown' = Cleared
            /\ UNCHANGED toWorker

\* onWorkerMessage {config}
OnConfig ==
    /\ toPage # <<>> /\ Head(toPage).type = "config"
    /\ toPage' = Tail(toPage)
    /\ minimum' = MinLength - 1
    /\ UNCHANGED <<site, worker, toWorker, listening, input, shown, keys, asked>>

\* onWorkerMessage {allowSearch}: initSearch attaches the listener and puts the
\* term of the link, if there is one, into the field and searches for it.
OnAllowSearch ==
    /\ toPage # <<>> /\ Head(toPage).type = "allowSearch"
    /\ toPage' = Tail(toPage)
    /\ listening' = TRUE
    /\ IF link = <<>> THEN UNCHANGED <<toWorker, input, shown, asked>>
       ELSE input' = link /\ DoSearch(link)
    /\ UNCHANGED <<site, worker, minimum, keys>>

\* onWorkerMessage {results}: displayResults replaces what is on display.
OnResults ==
    /\ toPage # <<>> /\ Head(toPage).type = "results"
    /\ toPage' = Tail(toPage)
    /\ shown' = [query |-> Head(toPage).query, matches |-> Head(toPage).matches]
    /\ UNCHANGED <<site, worker, toWorker, minimum, listening, input, keys, asked>>

\* The user types; keyup calls doSearch once the listener is there.
Type(query) ==
    /\ keys < Keys
    /\ keys' = keys + 1
    /\ input' = query
    /\ IF listening THEN DoSearch(query) ELSE UNCHANGED <<toWorker, shown, asked>>
    /\ UNCHANGED <<site, worker, toPage, minimum, listening>>

Next ==
    \/ InitWorker
    \/ OnJSONLoaded
    \/ OnScriptsLoaded
    \/ SearchMessage
    \/ OnConfig
    \/ OnAllowSearch
    \/ OnResults
    \/ \E query \in (IF keys = 0 THEN Queries ELSE NextQueries) : Type(query)

\* Workers and pages handle their messages; nobody has to type.
Spec ==
    /\ Init /\ [][Next]_vars
    /\ WF_vars(InitWorker) /\ WF_vars(OnJSONLoaded) /\ WF_vars(OnScriptsLoaded)
    /\ WF_vars(SearchMessage)
    /\ WF_vars(OnConfig) /\ WF_vars(OnAllowSearch) /\ WF_vars(OnResults)

-----------------------------------------------------------------------------
(* Properties. *)

\* When no message is under way, the page shows the answer to the latest text it
\* searched for, provided that text is long enough and parses: answers to earlier
\* texts never stay on display after it (main.js doSearch, displayResults; worker.js
\* onmessage, search).
LatestShown ==
    /\ toWorker = <<>> /\ toPage = <<>> /\ worker = "ready"
    /\ asked # <<>> /\ Len(asked) > minimum
    /\ Answer[docs][asked].ok
    => shown = [query |-> asked, matches |-> Answer[docs][asked].matches]
=============================================================================
