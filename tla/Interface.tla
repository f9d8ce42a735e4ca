----------------------------- MODULE Interface -----------------------------
(***************************************************************************)
(* One stanza of the interfaces file and what the parser does with it:     *)
(* libifupdown/interface.c over the multidict of libifupdown/dict.c.  A    *)
(* collection is a record with the names in list order and the stanzas.    *)
(* Names with a dot, which use one more executor, are left out.  The       *)
(* variants named "Wrong..." are slips a programmer could make; nothing    *)
(* uses them.                                                              *)
(***************************************************************************)
EXTENDS Naturals, SequencesExt

CONSTANTS
    Name,           \* names of stanzas, "lo", "defaults" and "" among them
    DefaultPrefix   \* the prefix length of an address that has no other

ASSUME NameAssumption == {"lo", "defaults", ""} \subseteq Name
ASSUME PrefixAssumption == DefaultPrefix \in Nat \ {0}

VARIABLE config     \* lif_config: the booleans of ifupdown-ng.conf

Config == [allowAny : BOOLEAN, implicit : BOOLEAN, create : BOOLEAN,
           inheritVlans : BOOLEAN, autoExec : BOOLEAN, hostname : BOOLEAN]

\* A variable of a stanza; prefix is 0 for an address that has none.
Entry == [key : STRING, value : STRING, prefix : Nat]

Var(k, v) == [key |-> k, value |-> v, prefix |-> 0]

Stanza == [auto : BOOLEAN, explicit : BOOLEAN, template : BOOLEAN, nodefaults : BOOLEAN,
           error : BOOLEAN, bridge : BOOLEAN, bond : BOOLEAN, vars : Seq(Entry)]

HasKey(i, k) == \E n \in DOMAIN i.vars : i.vars[n].key = k

FirstOf(i, k) == i.vars[SelectInSeq(i.vars, LAMBDA e : e.key = k)]

Add(i, e) == [i EXCEPT !.vars = Append(@, e)]

AddOnce(i, e) == [i EXCEPT !.vars = IF e \in ToSet(@) THEN @ ELSE Append(@, e)]

DeleteKey(i, k) == [i EXCEPT !.vars = RemoveFirstMatch(@, LAMBDA e : e.key = k)]

UseExecutor(i, x) ==
    LET u == AddOnce([i EXCEPT !.bridge = @ \/ x = "bridge", !.bond = @ \/ x = "bond"],
                     Var("use", x))
    IN  IF x = "dhcp" /\ config.hostname THEN Add(u, Var("dhcp-hostname", "uname")) ELSE u

\* lif_interface_init.
NewStanza == [auto |-> FALSE, explicit |-> FALSE, template |-> FALSE, nodefaults |-> FALSE,
              error |-> FALSE, bridge |-> FALSE, bond |-> FALSE,
              vars |-> <<Var("use", "link")>>]

AddAddress(i, e) == Add(UseExecutor(i, "static"), e)

WrongFinalize(i) == i       \* left to the end

\* Addresses without a prefix length get the netmask of the stanza, which is then
\* dropped.
Finalize(i) ==
    LET p == IF HasKey(i, "netmask") THEN FirstOf(i, "netmask").prefix ELSE DefaultPrefix
        Complete(e) == IF e.key = "address" /\ e.prefix = 0 THEN [e EXCEPT !.prefix = p] ELSE e
    IN  DeleteKey([i EXCEPT !.vars = [n \in DOMAIN @ |-> Complete(@[n])]], "netmask")

-----------------------------------------------------------------------------
(* The collection.                                                         *)

Collection == [list : Seq(Name), stanza : [Name -> Stanza]]

WrongFind(c, n) == [c EXCEPT !.list = Append(@, n)]     \* added without looking

\* lif_interface_collection_find: a name that is not there is appended.
Find(c, n) == [c EXCEPT !.list = IF n \in ToSet(@) THEN @ ELSE Append(@, n)]

\* lif_interface_collection_init: the loopback interface is always there.
NewCollection ==
    [list |-> <<"lo">>,
     stanza |-> [n \in Name |->
         IF n = "lo" THEN UseExecutor([NewStanza EXCEPT !.auto = TRUE, !.explicit = TRUE],
                                      "loopback")
         ELSE NewStanza]]

\* lif_interface_collection_inherit: the variables of p are added to those of i.
Inherit(c, i, p) ==
    LET converted == [c.stanza EXCEPT ![p].template = @ \/ config.implicit]
        Copied(s, e) ==
            [s EXCEPT !.vars = IF e.key # "address" /\ e \in ToSet(@) THEN @ ELSE Append(@, e)]
        Child(child, parent) ==
            FoldLeft(Copied, [child EXCEPT !.bond = parent.bond, !.bridge = parent.bridge,
                                           !.vars = Append(@, Var("inherit", p))], parent.vars)
    IN  [c EXCEPT !.stanza = [converted EXCEPT ![i] = Child(@, c.stanza[p])]]

\* A stanza that inherits from itself copies its addresses to the end of the list
\* it is walking, without end.
InheritsForever(c, i, p) == i = p /\ HasKey(c.stanza[p], "address")
=============================================================================
