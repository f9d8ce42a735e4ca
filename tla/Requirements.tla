---------------------------- MODULE Requirements ----------------------------
(***************************************************************************)
(* What ifup and ifdown promise of one host, without reference counts,     *)
(* state file, recursion or processes: operators change the set of         *)
(* interfaces they want up by name, and until they ask for something else  *)
(* the interfaces that are up become those that are needed for that, each  *)
(* one up after what it requires and down before it.                       *)
(***************************************************************************)
CONSTANTS
    Iface,     \* the interfaces
    Requires   \* what each one requires: an element of [Iface -> SUBSET Iface]

VARIABLES
    want,  \* the interfaces that operators asked for by name
    up     \* the interfaces that are up

vars == <<want, up>>

Closed(S) == \A i \in S : Requires[i] \subseteq S

\* The smallest set that contains S and what its members require.
Needed(S) ==
    {i \in Iface : \A T \in SUBSET Iface : S \subseteq T /\ Closed(T) => i \in T}

\* On a cycle no order is possible: there d requires i, if only indirectly.
RequiresBack(d, i) == i \in Needed({d})

\* Everything needed is up, and what is up was asked for or is required by
\* something else that is up.  Without cycles that is up = Needed(want);
\* interfaces that require each other may hold each other up.
Settled == /\ Needed(want) \subseteq up
           /\ \A i \in up \ want : \E r \in up \ {i} : i \in Requires[r]

Init == want = {} /\ up = {}

\* The next command is run when the last one has done its work.
Request == /\ Settled
           /\ want' \in SUBSET Iface
           /\ UNCHANGED up

BringUp(i) == /\ i \in Needed(want) \ up
              /\ \A d \in Requires[i] : d \in up \/ RequiresBack(d, i)
              /\ up' = up \cup {i}
              /\ UNCHANGED want

TakeDown(i) == /\ i \in up \ Needed(want)
               /\ \A r \in up : i \in Requires[r] => RequiresBack(i, r)
               /\ up' = up \ {i}
               /\ UNCHANGED want

Change == \E i \in Iface : BringUp(i) \/ TakeDown(i)

Next == Request \/ Change

Spec == Init /\ [][Next]_vars /\ WF_vars(~Settled /\ Change)
=============================================================================
