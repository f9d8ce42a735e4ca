--------------------------- MODULE DependencyOrder ---------------------------
(***************************************************************************)
(* lif_lifecycle_count_rdepends of libifupdown/lifecycle.c: every process  *)
(* walks the requires lists depth first, asks the executors of each stanza *)
(* for more requirements on the way, counts how deep each stanza lies and  *)
(* reorders the collection by that count.  ifup -a and ifdown -a go        *)
(* through the stanzas in the order that this leaves.  The variants named  *)
(* "Wrong..." are slips a programmer could make; nothing uses them.        *)
(***************************************************************************)
EXTENDS Integers, FiniteSets, SequencesExt, Selection

CONSTANTS
    Iface,        \* names that may occur in the interfaces file
    Collections,  \* the collections that the parser may leave, in file order
    Graphs,       \* the requires lists that the parser may leave
    Asked,        \* stanzas with an executor for the depend phase
    Learned,      \* the names that the executors of such a stanza print
    Within        \* pairs of names, the first a substring of the second

ASSUME DependencyAssumption ==
    /\ \A c \in Collections : c \in Seq(Iface) /\ IsInjective(c)
    /\ Graphs \subseteq [Iface -> Seq(Iface)]
    /\ Asked \subseteq Iface
    /\ Learned \in [Asked -> Seq(Iface)]
    /\ Within \subseteq Iface \X Iface

VARIABLES
    pc,        \* "count", "sort", "done" or "failed"
    list,      \* the collection
    requires,  \* the "requires" property of each stanza
    rdepends,  \* rdepends_count of each stanza
    pending,   \* stanzas with is_pending
    stack,     \* activations of count_interface_rdepends, innermost last
    root,      \* position of the loop over the collection
    temp,      \* the temporary list while sorting
    depth,     \* one more than curdepth while sorting
    queries    \* how often each stanza has been queried

vars == <<pc, list, requires, rdepends, pending, stack, root, temp, depth, queries>>
counting == <<requires, rdepends, pending, stack, root, queries>>

Activation == [iface : Iface, depth : Nat, next : Nat \ {0}]

Init == /\ pc = "count"
        /\ list \in Collections
        /\ requires \in Graphs
        /\ rdepends = [i \in Iface |-> 0]
        /\ pending = {}
        /\ stack = << >>
        /\ root = 1
        /\ temp = << >>
        /\ depth = 0
        /\ queries = [i \in Iface |-> 0]

-----------------------------------------------------------------------------
(* lif_lifecycle_query_dependents.                                         *)

WrongIsKeptSwapped(kept, t) ==                \* the arguments of strstr swapped
    \E k \in ToSet(kept) : t = k \/ <<k, t>> \in Within

\* strstr looks for the token anywhere in the list kept so far.
IsKept(kept, t) == \E k \in ToSet(kept) : t = k \/ <<t, k>> \in Within

\* What is kept of the first n tokens of s, for each n.
KeptFirst(s) ==
    LET k[n \in 0 .. Len(s)] ==
            IF n = 0 THEN << >>
            ELSE IF IsKept(k[n - 1], s[n]) THEN k[n - 1] ELSE Append(k[n - 1], s[n])
    IN  k

\* What the executors of i print.
Printed(i) == IF i \in Asked THEN Learned[i] ELSE << >>

\* The old list, then the names that the executors print, without repetitions.
Merged(i) ==
    LET all == requires[i] \o Printed(i)
    IN  KeptFirst(all)[Len(all)]

-----------------------------------------------------------------------------
(* count_interface_rdepends.                                               *)

Top == stack[Len(stack)]

WrongEnter(i, d, callers) ==  \* the pending mark is forgotten
    /\ stack' = Append(callers, [iface |-> i, depth |-> d, next |-> 1])
    /\ rdepends' = [rdepends EXCEPT ![i] = d]
    /\ requires' = [requires EXCEPT ![i] = Merged(i)]
    /\ queries' = [queries EXCEPT ![i] = @ + 1]
    /\ UNCHANGED pending

\* A call of count_interface_rdepends, up to its loop.
Enter(i, d, callers) ==
    \/ /\ i \in pending
       /\ stack' = callers
       /\ UNCHANGED <<requires, rdepends, pending, queries>>
    \/ /\ i \notin pending
       /\ stack' = Append(callers, [iface |-> i, depth |-> d, next |-> 1])
       /\ pending' = pending \cup {i}
       /\ rdepends' = [rdepends EXCEPT ![i] = d]
       /\ requires' = [requires EXCEPT ![i] = Merged(i)]
       /\ queries' = [queries EXCEPT ![i] = @ + 1]

\* The next stanza of the loop in lif_lifecycle_count_rdepends.
CountNext ==
    /\ pc = "count" /\ stack = << >>
    /\ root <= Len(list)
    /\ Enter(list[root], rdepends[list[root]], << >>)
    /\ root' = root + 1
    /\ UNCHANGED <<pc, list, temp, depth>>

Looping == pc = "count" /\ stack # << >> /\ Top.next <= Len(requires[Top.iface])

Token == requires[Top.iface][Top.next]

WrongDependentDepth == IF Top.next > 1 THEN Top.depth ELSE Top.depth + 1

DependentDepth == Top.depth + 1

WrongVisit ==               \* the token is consumed only after a full visit
    /\ Looping
    /\ list' = IF Token \in ToSet(list) THEN list ELSE Append(list, Token)
    /\ Enter(Token, DependentDepth,
             IF Token \in pending THEN stack ELSE [stack EXCEPT ![Len(stack)].next = @ + 1])
    /\ UNCHANGED <<pc, root, temp, depth>>

\* lif_interface_collection_find appends a stanza that is not there yet.
Visit ==
    /\ Looping
    /\ list' = IF Token \in ToSet(list) THEN list ELSE Append(list, Token)
    /\ Enter(Token, DependentDepth, [stack EXCEPT ![Len(stack)].next = @ + 1])
    /\ UNCHANGED <<pc, root, temp, depth>>

Return ==
    /\ pc = "count" /\ stack # << >>
    /\ Top.next > Len(requires[Top.iface])
    /\ pending' = pending \ {Top.iface}
    /\ stack' = Front(stack)
    /\ UNCHANGED <<pc, list, requires, rdepends, root, temp, depth, queries>>

\* The stanza that the next call of count_interface_rdepends is for.
Asking(i) ==
    /\ i \in Asked \ pending
    /\ \/ Looping /\ Token = i
       \/ pc = "count" /\ stack = << >> /\ root <= Len(list) /\ list[root] = i

\* An executor fails: the error goes through to the caller.
QueryFails ==
    /\ \E i \in Iface : Asking(i)
    /\ pc' = "failed"
    /\ stack' = << >>
    /\ pending' = {}
    /\ UNCHANGED <<list, requires, rdepends, root, temp, depth, queries>>

-----------------------------------------------------------------------------
(* The reordering.                                                         *)

WrongStartSort ==           \* maxdepth is computed from the first stanza only
    /\ pc = "count" /\ stack = << >>
    /\ root > Len(list)
    /\ pc' = "sort"
    /\ depth' = 1 + rdepends[list[1]]
    /\ temp' = Reverse(list)
    /\ list' = << >>
    /\ UNCHANGED counting

\* Each node goes to the head of the temporary list.
StartSort ==
    /\ pc = "count" /\ stack = << >>
    /\ root > Len(list)
    /\ pc' = "sort"
    /\ depth' = 1 + Max({0} \cup {rdepends[i] : i \in ToSet(list)})
    /\ temp' = Reverse(list)
    /\ list' = << >>
    /\ UNCHANGED counting

Deep(d) == {i \in Iface : rdepends[i] = d}

\* The nodes of one depth, each inserted at the head in its turn.
Reinserted(d) == Reverse(Chosen(temp, Deep(d)))

WrongSortDepth ==           \* nodes are inserted at the tail of the collection
    /\ pc = "sort" /\ depth > 0
    /\ list' = list \o Reinserted(depth - 1)
    /\ temp' = Chosen(temp, Iface \ Deep(depth - 1))
    /\ depth' = depth - 1
    /\ pc' = IF depth = 1 THEN "done" ELSE "sort"
    /\ UNCHANGED counting

SortDepth ==
    /\ pc = "sort" /\ depth > 0
    /\ list' = Reinserted(depth - 1) \o list
    /\ temp' = Chosen(temp, Iface \ Deep(depth - 1))
    /\ depth' = depth - 1
    /\ pc' = IF depth = 1 THEN "done" ELSE "sort"
    /\ UNCHANGED counting

\* lif_lifecycle_count_rdepends has returned.
Finished == pc \in {"done", "failed"} /\ UNCHANGED vars

Step == CountNext \/ Visit \/ Return \/ QueryFails \/ StartSort \/ SortDepth

Next == Step \/ Finished

Spec == Init /\ [][Next]_vars

(***************************************************************************)
(* The process runs, but lif_execute_fmt_with_result waits for the answer  *)
(* of an executor without a limit.                                         *)
(***************************************************************************)
FairSpec == Spec /\ WF_vars(Step /\ \A i \in Iface : ~Asking(i))

-----------------------------------------------------------------------------
(* Properties.                                                             *)

\* No stanza is counted inside of its own activation, so that the recursion
\* is no deeper than the collection is long, and is_pending says which are active.
CountedOnce ==
    /\ pending = {stack[n].iface : n \in DOMAIN stack}
    /\ Cardinality(pending) = Len(stack)

\* Every variable stays in its type: those of lifecycle.c and interface.h; and the
\* activations are as is_pending says.
TypeOK == /\ pc \in {"count", "sort", "done", "failed"}
          /\ list \in Seq(Iface)
          /\ requires \in [Iface -> Seq(Iface)]
          /\ rdepends \in [Iface -> Nat]
          /\ pending \in SUBSET Iface
          /\ stack \in Seq(Activation)
          /\ root \in Nat \ {0}
          /\ temp \in Seq(Iface)
          /\ depth \in Nat
          /\ queries \in [Iface -> Nat]
          /\ CountedOnce

\* The stanzas that require i.
Requirers(i) == {j \in ToSet(list) : i \in ToSet(requires[j])}

\* Whatever cycles the requires lists have, the walk ends, as long as every
\* executor that is asked gives an answer.
Terminates == []<>(\A i \in Iface : ~Asking(i)) => <>(pc \in {"done", "failed"})

\* "rdepends_count; /* > 0 if any reverse dependency */" (interface.h:61): the
\* count is positive exactly for what another stanza requires, cycles included.
CountsReverseDependency ==
    pc = "done" => \A i \in ToSet(list) : rdepends[i] > 0 <=> Requirers(i) \ {i} # {}

\* The sort loses no stanza and repeats none, so -a visits each one once; what
\* the walk found required has become a member.
NothingLost ==
    pc = "done" => /\ IsInjective(list)
                   /\ \A i \in ToSet(list) : ToSet(requires[i]) \subseteq ToSet(list)
                   /\ temp = << >>

\* No stanza requires itself through others.
Acyclic == \A S \in SUBSET ToSet(list) : S # {} => \E i \in S : Requirers(i) \cap S = {}

\* What requires a stanza comes before it.
InOrder == \A a, b \in DOMAIN list : list[b] \in ToSet(requires[list[a]]) => a < b

\* As long as nothing is required twice, what requires a stanza comes before it,
\* so that ifdown -a takes nothing down under what still requires it.
ForestInOrder ==
    pc = "done" /\ Acyclic /\ (\A i \in ToSet(list) : Cardinality(Requirers(i)) <= 1)
        => InOrder

\* However often a stanza is asked and its executors repeat themselves: its list has
\* each name once, asking again adds nothing, and of what they print only names are
\* missing that are a part of one in the list.
LearnedIsRequired ==
    \A i \in Iface : queries[i] > 0 =>
        /\ IsInjective(requires[i]) /\ Merged(i) = requires[i]
        /\ \A t \in ToSet(Printed(i)) :
               \E k \in ToSet(requires[i]) : t = k \/ <<t, k>> \in Within

-----------------------------------------------------------------------------
(* What the documentation says and the code does not keep up.              *)

\* "Those interface names will be merged into the dependency graph"
\* (ifupdown-executor.scd:21-23): whatever an executor prints becomes required.
PrintedIsRequired ==
    \A i \in Asked : queries[i] > 0 => ToSet(Learned[i]) \subseteq ToSet(requires[i])
=============================================================================
