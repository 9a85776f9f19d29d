----------------------------- MODULE LunrIndex -----------------------------
(***************************************************************************)
(* The index of the documentation search (webstatic/docs/search/lunr.js:   *)
(* lunr.tokenizer, lunr.Pipeline, lunr.Builder, lunr.Vector, lunr.Set,     *)
(* lunr.MatchData and lunr.Index.query): documents are added one by one,   *)
(* the builder makes field vectors and a token set, and a query looks up   *)
(* the terms its clauses stand for.                                        *)
(*                                                                         *)
(* The stemmer is a parameter.  The weight of a term in a field vector is  *)
(* the number of its occurrences: the code scales that number with         *)
(* logarithms and roots, which only change the order of the results, so a  *)
(* result has the products the code sums up but no rank.                   *)
(***************************************************************************)
EXTENDS LunrTokenSet, LunrQuery

LOCAL INSTANCE SequencesExt
LOCAL INSTANCE Functions

CONSTANTS FieldNames,   \* the fields of a document, a sequence of names
          StopWords,    \* the words the stop word filter removes
          Stem(_)       \* lunr.stemmer

\* Builder.field refuses a name with a slash.
ASSUME FieldsAssumption ==
    /\ IsInjective(FieldNames)
    /\ \A f \in Range(FieldNames) : 47 \notin Range(f)

Fields == Range(FieldNames)

\* lunr.FieldRef: a field of a document is named field/document.  A document's name
\* may hold slashes, so the first one ends the field's name.
Joiner == 47

FieldRef(docRef, fieldName) == fieldName \o <<Joiner>> \o docRef

FirstJoiner(s) == CHOOSE i \in DOMAIN s : s[i] = Joiner /\ \A j \in 1..(i - 1) : s[j] # Joiner

FieldOf(s) == SubSeq(s, 1, FirstJoiner(s) - 1)
DocOf(s)   == SubSeq(s, FirstJoiner(s) + 1, Len(s))

-----------------------------------------------------------------------------
(* From a text to terms. *)

\* lunr.tokenizer: lower case, split at every separator, empty slices dropped.
RECURSIVE Tokenizer(_)
Tokenizer(text) ==
    LET ends == {i \in DOMAIN text : text[i] \in Separators}
        cut  == IF ends = {} THEN Len(text) + 1 ELSE CHOOSE i \in ends : \A j \in ends : i <= j
        word == SubSeq(Lower(text), 1, cut - 1)
    IN  IF text = <<>> THEN <<>>
        ELSE (IF word = <<>> THEN <<>> ELSE <<word>>)
             \o Tokenizer(SubSeq(text, cut + 1, Len(text)))

WordChars == 48..57 \cup 65..90 \cup 97..122 \cup {95}

\* lunr.trimmer: no characters but word characters at either end.
Trimmer(w) ==
    LET inner == {i \in DOMAIN w : w[i] \in WordChars}
    IN  IF inner = {} THEN <<>>
        ELSE SubSeq(w, CHOOSE i \in inner : \A j \in inner : i <= j,
                       CHOOSE i \in inner : \A j \in inner : i >= j)

\* lunr.stopWordFilter: whether a token goes on; its list of English words is StopWords.
StopWordFilter(w) == w \notin StopWords

\* lunr.Pipeline.run: every function sees what the one before it let through.  A
\* token the trimmer emptied is an object and stays; a stop word becomes undefined
\* and goes.
IndexPipeline(tokens) ==
    LET trimmed == [i \in DOMAIN tokens |-> Trimmer(tokens[i])]
        kept    == SelectSeq(trimmed, StopWordFilter)
    IN  [i \in DOMAIN kept |-> Stem(kept[i])]

\* The search pipeline has the stemmer only.
SearchPipeline(term) == <<Stem(term)>>

-----------------------------------------------------------------------------
(* lunr.Vector: elements is <<index, value, index, value, ...>>. *)

\* The loop of positionForIndex; position p of the pairs holds index el[2p + 1].
RECURSIVE Bisect(_, _, _, _, _)
Bisect(el, index, start, end, pivot) ==
    LET pivotIndex == el[2 * pivot + 1]
        s  == IF pivotIndex < index THEN pivot ELSE start
        e  == IF pivotIndex > index THEN pivot ELSE end
    IN  IF end - start <= 1 \/ pivotIndex = index
        THEN IF pivotIndex < index THEN (pivot + 1) * 2 ELSE pivot * 2
        ELSE Bisect(el, index, s, e, s + (e - s) \div 2)

PositionForIndex(el, index) ==
    IF el = <<>> THEN 0
    ELSE LET n == Len(el) \div 2 IN Bisect(el, index, 0, n, n \div 2)

\* upsert with the addition query uses; insert is the same where no index repeats.
Upsert(el, index, val) ==
    LET p == PositionForIndex(el, index)
    IN  IF p < Len(el) /\ el[p + 1] = index
        THEN [el EXCEPT ![p + 2] = @ + val]
        ELSE SubSeq(el, 1, p) \o <<index, val>> \o SubSeq(el, p + 1, Len(el))

\* dot: a merge of the two vectors.
RECURSIVE Dot(_, _)
Dot(a, b) ==
    IF a = <<>> \/ b = <<>> THEN 0
    ELSE IF a[1] < b[1] THEN Dot(SubSeq(a, 3, Len(a)), b)
    ELSE IF a[1] > b[1] THEN Dot(a, SubSeq(b, 3, Len(b)))
    ELSE a[2] * b[2] + Dot(SubSeq(a, 3, Len(a)), SubSeq(b, 3, Len(b)))

-----------------------------------------------------------------------------
(* lunr.Builder *)

\* posting(t) is [index, docs: field -> the documents with t in that field];
\* freqs maps a field reference to its terms in the order in which
\* they were first met, each with its number of occurrences.
Builder == [invertedIndex |-> <<>>, freqs |-> <<>>, termIndex |-> 0, documentCount |-> 0]

AddTerm(b, ref, field, term) ==
    LET posting == [index |-> b.termIndex, docs |-> [f \in Fields |-> {}]]
        isNew   == term \notin DOMAIN b.invertedIndex
        index   == IF isNew THEN b.invertedIndex @@ (term :> posting) ELSE b.invertedIndex
        terms   == b.freqs[FieldRef(ref, field)]
        seen    == {i \in DOMAIN terms : terms[i][1] = term}
    IN  [b EXCEPT
            !.invertedIndex = [index EXCEPT ![term].docs[field] = @ \cup {ref}],
            !.termIndex     = IF isNew THEN @ + 1 ELSE @,
            !.freqs[FieldRef(ref, field)] =
                IF seen = {} THEN Append(@, <<term, 1>>)
                ELSE [@ EXCEPT ![CHOOSE i \in seen : TRUE][2] = @ + 1]]

\* add: every field of a document, term by term.
Add(b, ref, doc) ==
    LET AddField(acc, field) ==
            LET fresh == [acc EXCEPT !.freqs = (FieldRef(ref, field) :> <<>>) @@ @]
            IN  FoldLeft(LAMBDA x, term : AddTerm(x, ref, field, term),
                         fresh, IndexPipeline(Tokenizer(doc[field])))
    IN  FoldLeft(AddField, [b EXCEPT !.documentCount = @ + 1], FieldNames)

\* createFieldVectors: one insert per term, in the order of the terms.
FieldVector(b, fieldRef) ==
    FoldLeft(LAMBDA el, t : Upsert(el, b.invertedIndex[t[1]].index, t[2]),
             <<>>, b.freqs[fieldRef])

\* build: the vectors of all fields and the token set of all terms, in order.
Build(b) ==
    [invertedIndex |-> b.invertedIndex,
     fieldVectors  |-> [r \in DOMAIN b.freqs |-> FieldVector(b, r)],
     tokenSet      |-> FromArray(Sorted(DOMAIN b.invertedIndex))]

-----------------------------------------------------------------------------
(* lunr.Set: sets of documents, with the set of all documents. *)

Complete == [all |-> TRUE,  elements |-> {}]
Empty    == [all |-> FALSE, elements |-> {}]

SetContains(s, x) == s.all \/ x \in s.elements

SetIntersect(s, t) ==
    IF s.all THEN t ELSE IF t.all THEN s
    ELSE [all |-> FALSE, elements |-> s.elements \cap t.elements]

SetUnion(s, t) ==
    IF s.all \/ t.all THEN Complete
    ELSE [all |-> FALSE, elements |-> s.elements \cup t.elements]

-----------------------------------------------------------------------------
(* lunr.Index.query *)

\* The state of a query.  required and prohibited hold a set for the fields some
\* clause spoke of; matchingFields maps a field reference to the term and field
\* pairs of its match data.
NewQuery == [queryVectors |-> [f \in Fields |-> <<>>], required |-> <<>>,
             prohibited |-> <<>>, matchingFields |-> <<>>]

\* MatchData.add, or a new MatchData for a field reference met for the first time.
AddMatch(matching, docRef, field, term) ==
    LET fieldRef == FieldRef(docRef, field)
        pair     == {<<term, field>>}
    IN  IF fieldRef \in DOMAIN matching
        THEN [matching EXCEPT ![fieldRef] = @ \cup pair]
        ELSE matching @@ (fieldRef :> pair)

\* A term of the index that a clause stands for, in one of the clause's fields.
TermInField(ix, clause, q, term, field) ==
    LET posting == ix.invertedIndex[term]
        docs    == [all |-> FALSE, elements |-> posting.docs[field]]
        known   == IF field \in DOMAIN q.prohibited THEN q.prohibited[field] ELSE Empty
    IN  IF clause.presence = "PROHIBITED"
        THEN [q EXCEPT !.prohibited = (field :> SetUnion(known, docs)) @@ @]
        ELSE [q EXCEPT
                !.required = IF clause.presence = "REQUIRED" THEN @ @@ (field :> Complete) ELSE @,
                !.queryVectors[field] = Upsert(@, posting.index, clause.boost),
                !.matchingFields =
                    FoldSet(LAMBDA d, m : AddMatch(m, d, field, term),
                            @, posting.docs[field])]

\* After a required clause its fields keep the documents that match it.
NarrowRequired(required, clause, matches) ==
    [f \in DOMAIN required |->
        IF f \in clause.fields THEN SetIntersect(required[f], matches) ELSE required[f]]

\* The terms in fields a clause stands for are looked up.  A required term that the
\* index does not have leaves nothing in the clause's fields; otherwise a document
\* needs the term in any one of them.
LookUp(ix, q, clause, termFields) ==
    LET matches == [all |-> FALSE,
                    elements |-> UNION {ix.invertedIndex[tf[1]].docs[tf[2]] : tf \in termFields}]
        none    == [f \in clause.fields |-> Empty]
    IN  [FoldSet(LAMBDA tf, acc : TermInField(ix, clause, acc, tf[1], tf[2]), q, termFields)
            EXCEPT !.required =
                IF clause.presence # "REQUIRED" THEN @
                ELSE NarrowRequired(IF termFields = {} THEN none @@ @ ELSE @, clause, matches)]

\* One clause, whose term goes through the pipeline first unless it has wildcards.
QueryClause(ix, q, clause0) ==
    LET Query(clause) ==
            LookUp(ix, q, clause, ExpandedTerms(ix.tokenSet, clause) \X clause.fields)
    IN  Query([clause0 EXCEPT !.term =
                  IF clause0.usePipeline THEN SearchPipeline(@)[1] ELSE @])

\* The documents of a finished query, with their scores and match data.  A query of
\* prohibited terms only starts from every field reference there is.
Results(ix, q, clauses) ==
    LET allRequired   == FoldFunction(SetIntersect, Complete, q.required)
        allProhibited == FoldFunction(SetUnion, Empty, q.prohibited)
        fieldRefs     == IF IsNegated(clauses) THEN DOMAIN ix.fieldVectors
                         ELSE DOMAIN q.matchingFields
        refs          == {r \in fieldRefs : /\ SetContains(allRequired, DocOf(r))
                                            /\ ~SetContains(allProhibited, DocOf(r))}
        Score(r)      == Dot(q.queryVectors[FieldOf(r)], ix.fieldVectors[r])
        Data(r)       == IF IsNegated(clauses) THEN {} ELSE q.matchingFields[r]
    IN  [d \in {DocOf(r) : r \in refs} |->
            [score     |-> MapThenSumSet(Score, {r \in refs : DocOf(r) = d}),
             matchData |-> UNION {Data(r) : r \in {s \in refs : DocOf(s) = d}}]]

\* search: parse the string, then query; a string that does not parse throws.
Search(ix, str) ==
    LET Query(clauses) ==
            Results(ix, FoldLeft(LAMBDA q, c : QueryClause(ix, q, c), NewQuery, clauses), clauses)
        Found(p) == [ok |-> p.ok, matches |-> IF p.ok THEN Query(p.clauses) ELSE <<>>]
    IN  Found(Parse(str, Fields))

=============================================================================
