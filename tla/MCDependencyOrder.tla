-------------------------- MODULE MCDependencyOrder --------------------------
(***************************************************************************)
(* Small instances of DependencyOrder for TLC: every interfaces file of    *)
(* three names, and executors that print more.                             *)
(***************************************************************************)
EXTENDS DependencyOrder

\* All lists without repetitions of some of the names.
Lists(names) == UNION {SetToSeqs(s) : s \in SUBSET names}

\* Three names, any of them without a stanza, none requiring itself.
Three == {"a", "b", "c"}
ThreeCollections == Lists(Three) \ {<< >>}
ThreeGraphs == {g \in [Three -> Lists(Three)] : \A i \in Three : i \notin ToSet(g[i])}

\* An executor that repeats itself and prints a name that is part of one before it.
Talkative == {"b"}
Repeats == [i \in Talkative |-> <<"c", "a", "c">>]
Parts == {<<"a", "c">>}
=============================================================================
