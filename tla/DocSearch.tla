----------------------------- MODULE DocSearch -----------------------------
(***************************************************************************)
(* The search of the documentation the daemon serves under /docs: the page *)
(* and its worker with the index of the site.                              *)
(***************************************************************************)
EXTENDS SearchPage, LunrIndex

LOCAL INSTANCE SequencesExt
LOCAL INSTANCE FiniteSetsExt
LOCAL INSTANCE Functions

\* What the user means by a text: clauses, each with a word in some fields, whether
\* the word has wildcards (wild), the edits that are allowed (-1: none were given),
\* a weight, and whether a document must, may or must not have the word.  A text
\* that is not in the domain means nothing.
CONSTANT Meaning

\* The index of every site, which onScriptsLoaded makes by adding every document in
\* the order of the file and building, and the answer to every text.  Both are
\* fixed by the documents.
Index == [c \in Corpora |->
             Build(FoldLeft(LAMBDA b, ref : Add(b, ref, c[ref]), Builder, Sorted(DOMAIN c)))]

SiteAnswer == [c \in Corpora |->
                  [query \in Queries \cup LinkTerms |-> Search(Index[c], query)]]

-----------------------------------------------------------------------------
(* What a search should find, from the documents and from what the user means  *)
(* rather than from the index and the text: neither tokenizer nor pipelines,   *)
(* lexer, parser, vectors or token sets are used.                              *)

\* The words of a text: between separators, from the first to the last word
\* character, as the positions of both.
Words(text) ==
    {w \in (DOMAIN text) \X (DOMAIN text) :
        /\ w[1] <= w[2] /\ text[w[1]] \in WordChars /\ text[w[2]] \in WordChars
        /\ \A k \in w[1]..w[2] : text[k] \notin Separators
        /\ \A k \in DOMAIN text \ (w[1]..w[2]) :
              text[k] \in WordChars =>
                  \E s \in DOMAIN text : /\ text[s] \in Separators
                                         /\ (k < s /\ s < w[1]) \/ (w[2] < s /\ s < k)}

Word(text, w) == Lower(SubSeq(text, w[1], w[2]))

\* Where a text has a term; a stop word is none.
Places(text, term) ==
    {w \in Words(text) : Word(text, w) \notin StopWords /\ Stem(Word(text, w)) = term}

TermsIn(ref, field) ==
    LET text == docs[ref][field]
    IN  {Stem(Word(text, w)) : w \in {v \in Words(text) : Word(text, v) \notin StopWords}}

\* A word is the other one after at most n edits made from left to right: an
\* insertion, a deletion, a substitution, or a transposition of the next two
\* characters as they were typed.
RECURSIVE Near(_, _, _)
Near(typed, w, n) ==
    \/ typed = <<>> /\ w = <<>>
    \/ /\ typed # <<>> /\ w # <<>> /\ Head(typed) = Head(w)
       /\ Near(Tail(typed), Tail(w), n)
    \/ n > 0 /\ \/ w # <<>> /\ Near(typed, Tail(w), n - 1)
                \/ typed # <<>> /\ Near(Tail(typed), w, n - 1)
                \/ typed # <<>> /\ w # <<>> /\ Near(Tail(typed), Tail(w), n - 1)
                \/ /\ Len(typed) > 1 /\ w # <<>> /\ Head(w) = typed[2]
                   /\ Near(RemoveAt(typed, 2), Tail(w), n - 1)

\* A word matches a pattern in which a wildcard stands for any characters.
RECURSIVE Glob(_, _)
Glob(pattern, w) ==
    IF pattern = <<>> THEN w = <<>>
    ELSE IF Head(pattern) = Wildcard
         THEN Glob(Tail(pattern), w) \/ (w # <<>> /\ Glob(pattern, Tail(w)))
         ELSE w # <<>> /\ Head(w) = Head(pattern) /\ Glob(Tail(pattern), Tail(w))

\* The terms a clause stands for: a word with wildcards is compared as it is, any
\* other by its stem.
Meant(clause, t) ==
    CASE clause.wild       -> Glob(clause.word, t)
      [] clause.edits >= 0 -> Near(Stem(clause.word), t, clause.edits)
      [] OTHER             -> t = Stem(clause.word)

\* Where a clause hits a document: terms and fields.
Hits(clause, ref) ==
    UNION {{<<t, f>> : t \in {u \in TermsIn(ref, f) : Meant(clause, u)}} : f \in clause.fields}

Wanted(clauses, presence) == {i \in DOMAIN clauses : clauses[i].presence = presence}

\* The matches a query should have: every required clause hits, no prohibited one
\* does, and some clause hits unless all are prohibited.
Expected(clauses) ==
    LET positive == DOMAIN clauses \ Wanted(clauses, "PROHIBITED")
        found == {d \in DOMAIN docs :
                    /\ \A i \in Wanted(clauses, "REQUIRED") : Hits(clauses[i], d) # {}
                    /\ \A i \in Wanted(clauses, "PROHIBITED") : Hits(clauses[i], d) = {}
                    /\ positive = {} \/ \E i \in positive : Hits(clauses[i], d) # {}}
        Weight(i, d) ==
            clauses[i].weight
            * MapThenSumSet(LAMBDA tf : Cardinality(Places(docs[d][tf[2]], tf[1])), Hits(clauses[i], d))
    IN  [d \in found |->
            [score     |-> MapThenSumSet(LAMBDA i : Weight(i, d), positive),
             matchData |-> UNION {Hits(clauses[i], d) : i \in positive}]]

-----------------------------------------------------------------------------
(* Properties. *)

\* The worker answers a text that means something, and no other, and its answer
\* names exactly the documents that were meant, with the terms that were found in
\* them and the products that make up their scores: lexer and parser, tokenizer and
\* pipelines, wildcards, edit distances, required and prohibited terms, the vectors'
\* binary search and the intersection of the token sets agree with a definition that
\* uses none of them (Index.search and below).
AnswersRight ==
    \A i \in DOMAIN toPage :
        toPage[i].type = "results" =>
            /\ toPage[i].query \in DOMAIN Meaning
            /\ toPage[i].matches = Expected(Meaning[toPage[i].query])

\* The terms of a field of a document, as they are put into the index.
TermsOf(ref, field) == Range(IndexPipeline(Tokenizer(docs[ref][field])))

\* The nodes of the index's token set that a word can reach.
RECURSIVE Reachable(_, _)
Reachable(h, n) == {n} \cup UNION {Reachable(h, h[n].edges[c]) : c \in DOMAIN h[n].edges}

\* The token set built word by word has exactly the terms of the documents, and no
\* two of its nodes stand for the same endings (Builder.insert and minimize).
TokenSetExact ==
    worker = "ready" /\ minimum = -1 =>
        LET Exact(b) ==
                /\ ~b.thrown
                /\ ToArray(b.heap, b.root)
                     = UNION {TermsOf(d, f) : d \in DOMAIN docs, f \in Fields}
                /\ \A m, n \in Reachable(b.heap, b.root) :
                       ToArray(b.heap, m) = ToArray(b.heap, n) => m = n
        IN  Exact(Index[docs].tokenSet)

\* A word with every character escaped, as a user can type it.
Escaped(w) == FlattenSeq([i \in DOMAIN w |-> <<Backslash, w[i]>>])

\* Every word of a document that is not a stop word, and is one of those looked for,
\* finds the document when it is typed with every character escaped.
Finds(LookedFor(_)) ==
    worker = "ready" /\ minimum = -1 =>
        \A d \in DOMAIN docs, f \in Fields : \A p \in Words(docs[d][f]) :
            LET w == Word(docs[d][f], p)
            IN  w \notin StopWords /\ LookedFor(w) =>
                    d \in DOMAIN Search(Index[docs], Escaped(w)).matches

\* A document is found by each of its own words that is not a stop word, whatever
\* special characters but the star are in the word, when they are escaped: the
\* tokenizer, the pipelines and the lexer agree about words (lexText, sliceString,
\* parseTerm).
FoundByItsWords == Finds(LAMBDA w : Star \notin Range(w))

\* The same for every word, the star included, as lunr.js:1896-1898 says of escaped
\* characters.  (parseTerm cannot tell an escaped star from a wildcard.)
FoundWhenEscaped == Finds(LAMBDA w : TRUE)
=============================================================================
