---------------------------- MODULE MCConfigFile ----------------------------
(***************************************************************************)
(* Files of two pieces of every kind, and of three with joins, for two     *)
(* settings A and B.  A buffer of 12 holds all lines but the longest.      *)
(***************************************************************************)
EXTENDS ConfigFile

SomeChars == {NUL, LF, CR, Blank, Hash, Backslash, ByteFF, "=", "A", "B", "C", "0", "1", "x"}
SomeLeftover == {NUL, "1"}
SomeSettings == {<<"A">>, <<"B">>}

T(text, words) == [text |-> text, words |-> words]
SetA == T(<<"A", "=", "1">>, <<<<"A">>, <<"1">>>>)
ClearA == T(<<"A", Blank, "=", Blank, "0", "1">>, <<<<"A">>, <<"0", "1">>>>)
ClearB == T(<<"B", Blank, "0", Blank>>, <<<<"B">>, <<"0">>>>)
OnlyB == T(<<"B", "=">>, <<<<"B">>>>)
Zero == T(<<Blank, "0">>, <<<<"0">>>>)
Unknown == T(<<"C", "=", "1">>, <<<<"C">>, <<"1">>>>)
Bad == T(<<"B", "=", "x">>, <<<<"B">>, <<"x">>>>)
Hashed == T(<<"A", "=", Backslash, Hash, "0">>, <<<<"A">>, <<"0">>>>)
Quoted == T(<<"A", "=", Backslash, "0">>, <<<<"A">>, <<Backslash, "0">>>>)
Long == T(<<"A", "=", "0", "x", "x", "x", "x", "x", "x", Backslash, "x">>,
          <<<<"A">>, <<"0", "x", "x", "x", "x", "x", "x", Backslash, "x">>>>)
Empty == T(<< >>, << >>)

Newlines == {<<LF>>, <<CR, LF>>, <<CR>>}
JoinEnds == {<<Backslash, LF>>, <<Backslash, CR, LF>>, <<Backslash, CR>>}

Pieces(texts, ends, comments) ==
    {[text |-> t.text, words |-> t.words, comment |-> c, end |-> e] :
        t \in texts, e \in ends, c \in comments}

All == {SetA, ClearB, OnlyB, Zero, Unknown, Bad, Hashed, Quoted, Long, Empty}

\* A comment goes on after a lone CR, and a word after a backslash and LF.
Sensible(p) == IF p.comment
               THEN LF \in Range(p.end) \/ p.end = << >>
               ELSE p.end \in JoinEnds /\ p.text # << >> => Last(p.text) \in {Blank, "="}
\* CR LF is one newline.
Distinct(p, q) == ~(p.end # << >> /\ Last(p.end) = CR /\ Raw(q) # << >> /\ Head(Raw(q)) = LF)

Two == LET first == {p \in Pieces(All, Newlines \cup JoinEnds, BOOLEAN) : Sensible(p)}
           last == {p \in Pieces(All, {<<LF>>, << >>, <<Backslash, LF>>}, BOOLEAN) : Sensible(p)}
       IN  {d \in {<<p, q>> : p \in first, q \in last} : Distinct(d[1], d[2])}
Three == LET first == Pieces({ClearA, OnlyB}, {<<LF>>, <<Backslash, LF>>}, {FALSE})
             second == Pieces({OnlyB, Zero, Empty}, {<<CR, LF>>, <<Backslash, LF>>}, {FALSE})
             last == Pieces({Zero, SetA, Bad}, {<<LF>>, << >>}, BOOLEAN)
         IN  {<<p, q, r>> : p \in {p \in first : Sensible(p)},
                            q \in {p \in second : Sensible(p)}, r \in last}
SomeDocuments == Two \cup Three
=============================================================================
