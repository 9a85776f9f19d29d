---- MODULE MCDocSearch ----
(***************************************************************************)
(* A site of two documents with a title and a text each, over the letters  *)
(* a, b and c, a digit and special characters.  "bb" is a stop word, and   *)
(* the stemmer takes the last letter off a word of three or more.          *)
(***************************************************************************)
EXTENDS DocSearch

a == 97
b == 98
c == 99
one == 49
comma == 44

title == <<116>>
text  == <<116, 120>>

MCFieldNames == <<title, text>>
MCStopWords  == {<<b, b>>}
MCStem(w)    == IF Len(w) > 2 THEN SubSeq(w, 1, Len(w) - 1) ELSE w

Home  == <<a>>
Guide == <<a, Joiner, b>>

Titles == {<<>>, <<b, a, Space, a>>}
Texts  == {<<a, b, Space, b, a, Space, a, b, Space, a, a, b, a, Space, b, a, b, a>>,
           <<98, 65, comma, Minus, b, b, a, b, Space, c, a>>,
           <<a, Colon, b, Space, b, b, Space, a>>,
           <<comma, Space, a, one, Space, a, Tilde, one, Caret, b, Plus, Backslash, a>>,
           <<a, Star, b>>}

Documents  == {[f \in {title, text} |-> IF f = title THEN t ELSE x] : t \in Titles, x \in Texts}
MCCorpora  == {(Home :> d) @@ (Guide :> e) : d, e \in Documents}

\* A word that a document may have, the same with other presences and with modifiers.
May(w)       == [presence |-> "OPTIONAL", fields |-> {title, text}, word |-> w,
                 wild |-> FALSE, edits |-> -1, weight |-> 1]
Must(x)      == [x EXCEPT !.presence = "REQUIRED"]
MustNot(x)   == [x EXCEPT !.presence = "PROHIBITED"]
In(field, x) == [x EXCEPT !.fields = {field}]
Wild(w)      == [May(w) EXCEPT !.wild = TRUE]
Fuzzy(w, n)  == [May(w) EXCEPT !.edits = n]
Heavy(w, n)  == [May(w) EXCEPT !.weight = n]

ab == <<a, b>>
ba == <<b, a>>

Short == <<a>>

\* Texts with what they mean, and texts that are not queries.
MCMeaning ==
       (ab :> <<May(ab)>>) @@ (Short :> <<May(Short)>>) @@ (ba :> <<May(ba)>>)
    @@ (ab \o <<Space>> \o ba :> <<May(ab), May(ba)>>)
    @@ (<<Plus, a, b, Space, b, a>> :> <<Must(May(ab)), May(ba)>>)
    @@ (<<Minus, a, b>> :> <<MustNot(May(ab))>>)
    @@ (<<a, Space, Minus, b, a>> :> <<May(<<a>>), MustNot(May(ba))>>)
    @@ (<<Plus, a, b, Minus, Minus, b>> :> <<Must(May(ab)), MustNot(May(<<b>>))>>)
    @@ (<<Plus, b, b, Space, a>> :> <<Must(May(<<b, b>>)), May(<<a>>)>>)
    @@ (<<Minus, a, b, Space, Minus, a>> :> <<MustNot(May(ab)), MustNot(May(<<a>>))>>)
    @@ (<<a, Star>> :> <<Wild(<<a, Star>>)>>)
    @@ (<<Star, a>> :> <<Wild(<<Star, a>>)>>)
    @@ (<<Star, b, Star>> :> <<Wild(<<Star, b, Star>>)>>)
    @@ (<<b, a, b>> :> <<May(<<b, a, b>>)>>)
    @@ (<<a, b, Tilde, one>> :> <<Fuzzy(ab, 1)>>)
    @@ (<<b, a, b, Tilde, one>> :> <<Fuzzy(<<b, a, b>>, 1)>>)
    @@ (<<a, Tilde, 50>> :> <<Fuzzy(<<a>>, 2)>>)
    @@ (<<a, b, c, a, Tilde, 50>> :> <<Fuzzy(<<a, b, c, a>>, 2)>>)
    @@ (<<Plus, b, Tilde, one, Space, a>> :> <<Must(Fuzzy(<<b>>, 1)), May(<<a>>)>>)
    @@ (title \o <<Colon, a, b>> :> <<In(title, May(ab))>>)
    @@ (<<Plus>> \o title \o <<Colon, b, a, Space, Plus, a, b>> :> <<Must(In(title, May(ba))), Must(May(ab))>>)
    @@ (<<a, b, Caret, 51, Space, a, b>> :> <<Heavy(ab, 3), May(ab)>>)
    @@ (<<a, Backslash, Colon, b>> :> <<May(<<a, Colon, b>>)>>)
    @@ (<<Space, Space>> :> <<>>)
    @@ (<<65, 66>> :> <<May(ab)>>)

NotQueries == {<<a, Colon>>, <<a, Caret>>, <<a, b, Tilde>>, <<Plus, Plus, a>>, <<a, Colon, b>>}

MCNextQueries == {ab, Short, <<a, Colon>>}
MCQueries     == DOMAIN MCMeaning \cup NotQueries
MCLinkTerms   == {<<>>, ba}
====
