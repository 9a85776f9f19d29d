---------------------------- MODULE LunrTokenSet ----------------------------
(***************************************************************************)
(* The token sets of the search library that the daemon ships with its     *)
(* documentation (webstatic/docs/search/lunr.js, lunr.TokenSet and         *)
(* lunr.TokenSet.Builder): finite automata whose edges are labelled with   *)
(* characters and the wildcard.  The index keeps one, a minimal automaton  *)
(* of all its terms, and intersects it with the one of each query clause.  *)
(*                                                                         *)
(* A character is its code and a word a sequence of codes, because the     *)
(* code compares words, recognises digits and glues labels and numbers     *)
(* together.  The objects of the heap are numbered in the order of their   *)
(* creation, which is what lunr.TokenSet._nextId does.                     *)
(***************************************************************************)
EXTENDS Integers, Sequences, FiniteSets, TLC

LOCAL INSTANCE SequencesExt

Wildcard == 42    \* "*"

\* A heap is the sequence of all token sets created so far; an id is a position.
TokenSet(final) == [final |-> final, edges |-> <<>>]

\* A heap with one more object, and the edge of node n that leads to it.
Grow(h, n, c, final) ==
    [Append(h, TokenSet(final)) EXCEPT ![n].edges = @ @@ (c :> Len(h) + 1)]

\* Follow the edge c of node n, creating it when it is missing.
Edge(h, n, c) == IF c \in DOMAIN h[n].edges THEN h ELSE Grow(h, n, c, FALSE)

\* JavaScript compares strings by their codes, a prefix before its extensions.
Less(v, w) ==
    \/ /\ Len(v) < Len(w)
       /\ \A i \in 1..Len(v) : v[i] = w[i]
    \/ \E i \in 1..Len(v) :
          /\ i <= Len(w)
          /\ v[i] < w[i]
          /\ \A j \in 1..(i - 1) : v[j] = w[j]

\* The words of a set in that order, as Object.keys(...).sort().
RECURSIVE Sorted(_)
Sorted(words) ==
    IF words = {} THEN <<>>
    ELSE LET w == CHOOSE w \in words : \A v \in words : ~Less(v, w)
         IN  <<w>> \o Sorted(words \ {w})

-----------------------------------------------------------------------------
(* lunr.TokenSet.Builder: the minimal automaton of words inserted in order. *)

\* The decimal digits of n, as String(n).
RECURSIVE Decimal(_)
Decimal(n) == IF n < 10 THEN <<48 + n>> ELSE Append(Decimal(n \div 10), 48 + (n % 10))

\* Mutant: the key without the final bit.
NodeKeyNoFinal(h, n) ==
    LET labels == Sorted({<<c>> : c \in DOMAIN h[n].edges})
    IN  FlattenSeq(<<<<48>>>> \o [i \in DOMAIN labels |->
                          labels[i] \o Decimal(h[n].edges[labels[i][1]])])

\* toString: the final bit, then every label followed by the number of the node
\* it leads to, with nothing in between.
NodeKey(h, n) ==
    LET labels == Sorted({<<c>> : c \in DOMAIN h[n].edges})
    IN  (IF h[n].final THEN <<49>> ELSE <<48>>)
        \o FlattenSeq([i \in DOMAIN labels |->
                          labels[i] \o Decimal(h[n].edges[labels[i][1]])])

NewBuilder == [heap |-> <<TokenSet(FALSE)>>, root |-> 1, previousWord |-> <<>>,
               uncheckedNodes |-> <<>>, minimizedNodes |-> <<>>, thrown |-> FALSE]

RECURSIVE Minimize(_, _)
Minimize(b, downTo) ==
    IF Len(b.uncheckedNodes) <= downTo THEN b
    ELSE LET u     == Last(b.uncheckedNodes)
             key   == NodeKey(b.heap, u.child)
             known == key \in DOMAIN b.minimizedNodes
         IN  Minimize([b EXCEPT
                 !.uncheckedNodes = Front(@),
                 !.heap = IF known
                          THEN [@ EXCEPT ![u.parent].edges[u.char] = b.minimizedNodes[key]]
                          ELSE @,
                 !.minimizedNodes = IF known THEN @ ELSE @ @@ (key :> u.child)],
                 downTo)

\* How many leading characters two words share.
CommonPrefix(v, w) ==
    Cardinality({i \in 1..Len(v) : i <= Len(w) /\ \A j \in 1..i : v[j] = w[j]})

\* Hang one new node per remaining character below node n.
RECURSIVE Extend(_, _, _)
Extend(b, n, chars) ==
    IF chars = <<>> THEN [b EXCEPT !.heap[n].final = TRUE]
    ELSE LET child == Len(b.heap) + 1
         IN  Extend([b EXCEPT
                 !.heap = Grow(@, n, Head(chars), FALSE),
                 !.uncheckedNodes =
                     Append(@, [parent |-> n, char |-> Head(chars), child |-> child])],
                 child, Tail(chars))

\* insert: a word out of order throws and leaves the builder as it was.
Insert(b, word) ==
    IF Less(word, b.previousWord) THEN [b EXCEPT !.thrown = TRUE]
    ELSE LET common == CommonPrefix(word, b.previousWord)
             m      == Minimize(b, common)
             n      == IF m.uncheckedNodes = <<>> THEN m.root ELSE Last(m.uncheckedNodes).child
         IN  [Extend(m, n, SubSeq(word, common + 1, Len(word))) EXCEPT !.previousWord = word]

Finish(b) == Minimize(b, 0)

FromArray(words) == Finish(FoldLeft(Insert, NewBuilder, words))

-----------------------------------------------------------------------------
(* The automaton of a query clause, on top of a heap h. *)

\* fromString: a wildcard is an edge from a node to itself.
FromString(h, str) ==
    LET Step(acc, i) ==
            IF str[i] = Wildcard
            THEN [acc EXCEPT !.heap[acc.node].edges = (Wildcard :> acc.node) @@ @,
                             !.heap[acc.node].final = (i = Len(str))]
            ELSE [heap |-> [Append(acc.heap, TokenSet(i = Len(str))) EXCEPT
                               ![acc.node].edges = (str[i] :> Len(acc.heap) + 1) @@ @],
                  node |-> Len(acc.heap) + 1]
        acc0 == [heap |-> Append(h, TokenSet(FALSE)), node |-> Len(h) + 1]
    IN  [heap |-> FoldLeft(Step, acc0, [i \in 1..Len(str) |-> i]).heap,
         root |-> Len(h) + 1]

\* One edit of a frame: follow the edge c, mark the node final when it ends the
\* string, and go on with what is left of the string and of the edits.
Edited(acc, f, c, isFinal, edits, rest) ==
    LET h == Edge(acc.heap, f.node, c)
        n == h[f.node].edges[c]
    IN  [heap  |-> IF isFinal THEN [h EXCEPT ![n].final = TRUE] ELSE h,
         stack |-> Append(acc.stack, [node |-> n, editsRemaining |-> edits, str |-> rest])]

\* The edits of a frame f, in the order of the code.
Unedited(acc, f) ==
    IF f.str = <<>> THEN acc
    ELSE Edited(acc, f, f.str[1], Len(f.str) = 1, f.editsRemaining, Tail(f.str))

Insertion(acc, f) == Edited(acc, f, Wildcard, f.str = <<>>, f.editsRemaining - 1, f.str)

\* The last character is removed at once; an earlier one by a frame of its own.
Deletion(acc, f) ==
    [acc EXCEPT
        !.stack = IF Len(f.str) > 1
                  THEN Append(@, [f EXCEPT !.editsRemaining = @ - 1, !.str = Tail(@)])
                  ELSE @,
        !.heap[f.node].final = @ \/ Len(f.str) = 1]

Substitution(acc, f) ==
    IF f.str = <<>> THEN acc
    ELSE Edited(acc, f, Wildcard, Len(f.str) = 1, f.editsRemaining - 1, Tail(f.str))

Transposition(acc, f) ==
    IF Len(f.str) < 2 THEN acc
    ELSE Edited(acc, f, f.str[2], FALSE, f.editsRemaining - 1,
                <<f.str[1]>> \o SubSeq(f.str, 3, Len(f.str)))

Edits(acc, f) ==
    IF f.editsRemaining = 0 THEN acc
    ELSE Transposition(Substitution(Deletion(Insertion(acc, f), f), f), f)

\* fromFuzzyString, one turn of its loop: the last frame is taken off the stack.
FuzzyStep(acc) ==
    LET f == Last(acc.stack)
    IN  Edits(Unedited([acc EXCEPT !.stack = Front(@)], f), f)

RECURSIVE FuzzyLoop(_)
FuzzyLoop(acc) == IF acc.stack = <<>> THEN acc.heap ELSE FuzzyLoop(FuzzyStep(acc))

FromFuzzyString(h, str, editDistance) ==
    LET root == Len(h) + 1
    IN  [heap |-> FuzzyLoop([heap  |-> Append(h, TokenSet(FALSE)),
                             stack |-> <<[node |-> root, editsRemaining |-> editDistance,
                                          str |-> str]>>]),
         root |-> root]

\* A clause without an edit distance carries none (-1).
FromClause(h, clause) ==
    IF clause.editDistance >= 0
    THEN FromFuzzyString(h, clause.term, clause.editDistance)
    ELSE FromString(h, clause.term)

-----------------------------------------------------------------------------
(* Intersection and enumeration. *)

\* Mutant: a node met again takes the final bit of the latest pair.
IntersectStepLatest(acc) ==
    LET f     == Last(acc.stack)
        h0    == acc.heap
        pairs == {p \in (DOMAIN h0[f.qNode].edges) \X (DOMAIN h0[f.node].edges) :
                    p[2] = p[1] \/ p[1] = Wildcard}
        Pair(p, a) ==
            LET node  == h0[f.node].edges[p[2]]
                qNode == h0[f.qNode].edges[p[1]]
                h     == Edge(a.heap, f.output, p[2])
                next  == h[f.output].edges[p[2]]
            IN  [heap  |-> [h EXCEPT ![next].final = h0[node].final /\ h0[qNode].final],
                 stack |-> Append(a.stack, [qNode |-> qNode, output |-> next, node |-> node])]
    IN  FoldSet(Pair, [acc EXCEPT !.stack = Front(@)], pairs)

\* One turn of intersect: the edges of the last frame's two nodes that agree.
IntersectStep(acc) ==
    LET f     == Last(acc.stack)
        h0    == acc.heap
        pairs == {p \in (DOMAIN h0[f.qNode].edges) \X (DOMAIN h0[f.node].edges) :
                    p[2] = p[1] \/ p[1] = Wildcard}
        Pair(p, a) ==
            LET node  == h0[f.node].edges[p[2]]
                qNode == h0[f.qNode].edges[p[1]]
                final == h0[node].final /\ h0[qNode].final
                h     == Edge(a.heap, f.output, p[2])
                next  == h[f.output].edges[p[2]]
            IN  [heap  |-> [h EXCEPT ![next].final = @ \/ final],
                 stack |-> Append(a.stack, [qNode |-> qNode, output |-> next, node |-> node])]
    IN  FoldSet(Pair, [acc EXCEPT !.stack = Front(@)], pairs)

RECURSIVE IntersectLoop(_)
IntersectLoop(acc) == IF acc.stack = <<>> THEN acc.heap ELSE IntersectLoop(IntersectStep(acc))

Intersect(h, node, qNode) ==
    LET output == Len(h) + 1
    IN  [heap |-> IntersectLoop([heap  |-> Append(h, TokenSet(FALSE)),
                                 stack |-> <<[qNode |-> qNode, output |-> output, node |-> node]>>]),
         root |-> output]

\* toArray, as the set of the words: their order only decides the order in which
\* the terms of a clause are looked up.
RECURSIVE ToArray(_, _)
ToArray(h, n) ==
    (IF h[n].final THEN {<<>>} ELSE {})
    \cup UNION {{<<c>> \o w : w \in ToArray(h, h[n].edges[c])} : c \in DOMAIN h[n].edges}

\* The terms of the index (builder b) that a clause stands for.
ExpandedTerms(b, clause) ==
    LET Words(i)  == ToArray(i.heap, i.root)
        Common(q) == Intersect(q.heap, b.root, q.root)
    IN  Words(Common(FromClause(b.heap, clause)))

=============================================================================
