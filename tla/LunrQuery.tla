----------------------------- MODULE LunrQuery -----------------------------
(***************************************************************************)
(* How a query string becomes clauses (webstatic/docs/search/lunr.js:      *)
(* lunr.QueryLexer, lunr.QueryParser and lunr.Query).  The lexer is a      *)
(* machine over the characters, with a position, the start of the current  *)
(* lexeme and the positions of the escape characters in it; the parser is  *)
(* a machine over the lexemes.  A clause lacks what the query left out.    *)
(*                                                                         *)
(* Positions count from 0, as in the code; character i is str[i + 1].      *)
(***************************************************************************)
EXTENDS Integers, Sequences, FiniteSets

LOCAL INSTANCE SequencesExt

Space     == 32
Star      == 42
Plus      == 43
Minus     == 45
Colon     == 58
Backslash == 92
Caret     == 94
Tilde     == 126
Digits    == 48..57

\* lunr.QueryLexer.termSeparator, a copy of the separator the tokenizer had when
\* the library was loaded.
Separators == {Space, Minus}

\* The same string in lower case.
Lower(str) == [i \in DOMAIN str |-> IF str[i] \in 65..90 THEN str[i] + 32 ELSE str[i]]

-----------------------------------------------------------------------------
(* lunr.QueryLexer *)

Lexer(str) == [str |-> str, pos |-> 0, start |-> 0, escapes |-> {}, lexemes |-> <<>>]

Width(l)  == l.pos - l.start
More(l)   == l.pos < Len(l.str)
Backup(l) == [l EXCEPT !.pos = @ - 1]

\* ignore: skip what was read, and one character when nothing was.
Ignore(l) ==
    LET p == IF l.start = l.pos THEN l.pos + 1 ELSE l.pos
    IN  [l EXCEPT !.pos = p, !.start = p]

\* Mutant: the escape characters stay.
SliceStringAll(l) == SubSeq(l.str, l.start + 1, l.pos)

\* sliceString: the characters of the lexeme without the escape characters.
SliceString(l) ==
    LET kept == {i \in l.start..(l.pos - 1) : i < Len(l.str) /\ i \notin l.escapes}
        ith(n) == CHOOSE i \in kept : Cardinality({j \in kept : j < i}) = n - 1
    IN  [n \in 1..Cardinality(kept) |-> l.str[ith(n) + 1]]

Emit(l, type) ==
    [l EXCEPT !.lexemes = Append(@, [type |-> type, str |-> SliceString(l)]),
              !.escapes = {}, !.start = l.pos]

\* What ~ and ^ do to the term before them.
EmitPending(l) == IF Width(l) > 0 THEN Emit(l, "TERM") ELSE l

RECURSIVE AcceptDigitRun(_)
AcceptDigitRun(l) ==
    IF More(l) /\ l.str[l.pos + 1] \in Digits
    THEN AcceptDigitRun([l EXCEPT !.pos = @ + 1])
    ELSE l

\* lexText and the states it hands over to and that hand back to it.
RECURSIVE LexText(_)
LexText(l) ==
    IF ~More(l) THEN EmitPending(l).lexemes
    ELSE LET c == l.str[l.pos + 1]
             m == [l EXCEPT !.pos = @ + 1]
             t == Ignore(IF Width(m) > 1 THEN Emit(Backup(m), "TERM") ELSE m)
         IN  CASE c = Backslash ->
                    LexText([m EXCEPT !.escapes = @ \cup {m.pos - 1}, !.pos = @ + 1])
               [] c = Colon -> LexText(Ignore(Emit(Backup(m), "FIELD")))
               [] c = Tilde ->
                    LexText(Emit(AcceptDigitRun(Ignore(EmitPending(Backup(m)))), "EDIT_DISTANCE"))
               [] c = Caret ->
                    LexText(Emit(AcceptDigitRun(Ignore(EmitPending(Backup(m)))), "BOOST"))
               [] c \in {Plus, Minus} /\ Width(m) = 1 -> LexText(Emit(m, "PRESENCE"))
               [] c \in Separators /\ ~(c = Minus /\ Width(m) = 1) ->
                    IF More(t) THEN LexText(t) ELSE t.lexemes
               [] OTHER -> LexText(m)

Lex(str) == LexText(Lexer(str))

-----------------------------------------------------------------------------
(* lunr.Query.clause: the values a clause takes when the query is silent. *)

NoClause(allFields) ==
    [fields |-> allFields, term |-> <<>>, presence |-> "OPTIONAL",
     editDistance |-> -1, boost |-> 1, usePipeline |-> TRUE]

IsNegated(clauses) == \A i \in DOMAIN clauses : clauses[i].presence = "PROHIBITED"

-----------------------------------------------------------------------------
(* lunr.QueryParser *)

\* parseInt(str, 10) of a run of digits; the empty run is NaN (-1).
ParseInt(str) ==
    IF str = <<>> THEN -1
    ELSE FoldLeft(LAMBDA acc, c : 10 * acc + (c - 48), 0, str)

Rejected == [ok |-> FALSE, clauses |-> <<>>]

\* A parser p has the lexemes that are left, the clause under construction and the
\* clauses that are complete.  Error texts are left out.
NextClause(p, allFields) ==
    [p EXCEPT !.clauses = Append(@, p.clause), !.clause = NoClause(allFields)]

Consume(p) == [p EXCEPT !.lexemes = Tail(@)]

RECURSIVE ParseClause(_, _, _)

\* What may follow a complete term, an edit distance or a boost.
AfterTerm(p, allFields) ==
    IF p.lexemes = <<>> THEN [ok |-> TRUE, clauses |-> NextClause(p, allFields).clauses]
    ELSE LET type == Head(p.lexemes).type
         IN  ParseClause(type,
                         IF type \in {"EDIT_DISTANCE", "BOOST"} THEN p ELSE NextClause(p, allFields),
                         allFields)

\* The type of the lexeme that follows.
Follow(p) == IF p.lexemes = <<>> THEN "nothing" ELSE Head(p.lexemes).type

\* Mutant: + and - are exchanged.
ParsePresenceExchanged(lexeme, p, allFields) ==
    IF Follow(p) \in {"FIELD", "TERM"}
    THEN ParseClause(Follow(p),
             [p EXCEPT !.clause.presence =
                 IF lexeme.str = <<Plus>> THEN "PROHIBITED" ELSE "REQUIRED"],
             allFields)
    ELSE Rejected

\* + or -: a field or a term must follow.
ParsePresence(lexeme, p, allFields) ==
    IF Follow(p) \in {"FIELD", "TERM"}
    THEN ParseClause(Follow(p),
             [p EXCEPT !.clause.presence =
                 IF lexeme.str = <<Minus>> THEN "PROHIBITED" ELSE "REQUIRED"],
             allFields)
    ELSE Rejected

\* A field of the index, and its term.
ParseField(lexeme, p, allFields) ==
    IF lexeme.str \in allFields /\ Follow(p) = "TERM"
    THEN ParseClause("TERM", [p EXCEPT !.clause.fields = {lexeme.str}], allFields)
    ELSE Rejected

\* A term with a star, also an escaped one, does not go through the pipeline.
ParseTerm(lexeme, p, allFields) ==
    AfterTerm([p EXCEPT !.clause.term = Lower(lexeme.str),
                        !.clause.usePipeline =
                            @ /\ \A i \in DOMAIN lexeme.str : lexeme.str[i] # Star],
              allFields)

ParseEditDistance(lexeme, p, allFields) ==
    IF ParseInt(lexeme.str) < 0 THEN Rejected
    ELSE AfterTerm([p EXCEPT !.clause.editDistance = ParseInt(lexeme.str)], allFields)

ParseBoost(lexeme, p, allFields) ==
    IF ParseInt(lexeme.str) < 0 THEN Rejected
    ELSE AfterTerm([p EXCEPT !.clause.boost = ParseInt(lexeme.str)], allFields)

\* The state of the parser that consumes a lexeme of the given type.
ParseClause(type, p, allFields) ==
    LET lexeme == Head(p.lexemes)
        q      == Consume(p)
    IN  CASE type = "PRESENCE"      -> ParsePresence(lexeme, q, allFields)
          [] type = "FIELD"         -> ParseField(lexeme, q, allFields)
          [] type = "TERM"          -> ParseTerm(lexeme, q, allFields)
          [] type = "EDIT_DISTANCE" -> ParseEditDistance(lexeme, q, allFields)
          [] type = "BOOST"         -> ParseBoost(lexeme, q, allFields)

\* parse: the clauses of a query string, or the refusal that throws.
Parse(str, allFields) ==
    LET Start(p) ==
            IF p.lexemes = <<>> THEN [ok |-> TRUE, clauses |-> <<>>]
            ELSE IF Follow(p) \in {"PRESENCE", "FIELD", "TERM"}
                 THEN ParseClause(Follow(p), p, allFields)
                 ELSE Rejected
    IN  Start([lexemes |-> Lex(str), clause |-> NoClause(allFields), clauses |-> <<>>])

=============================================================================
