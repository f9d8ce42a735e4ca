----------------------------- MODULE MCIfUpDown -----------------------------
(***************************************************************************)
(* Small configurations of IfUpDown for TLC: interfaces files, command     *)
(* lines and failures, named for the configurations that use them.         *)
(***************************************************************************)
EXTENDS IfUpDownRefinement

CONSTANTS p1, p2, none

Options(up) == [up |-> up, force |-> FALSE, mock |-> FALSE, nolock |-> FALSE,
                auto |-> FALSE, args |-> << >>]

Named(up, keys) ==
    [Options(up) EXCEPT !.args = [n \in DOMAIN keys |-> [key |-> keys[n], as |-> none]]]

Automatic(up) == [Options(up) EXCEPT !.auto = TRUE]

\* A bridge on a VLAN and on its parent device, and the device itself.
Stack3 == {"eth0", "vlan", "br"}
Stack3Requires == [i \in Stack3 |-> CASE i = "eth0" -> << >>
                                      [] i = "vlan" -> <<"eth0">>
                                      [] i = "br"   -> <<"vlan", "eth0">>]
Stack3Order == <<"br", "vlan", "eth0">>

\* Two VLANs that share a device.
Fork3 == {"eth0", "vlan1", "vlan2"}
Fork3Requires == [i \in Fork3 |-> IF i = "eth0" THEN << >> ELSE <<"eth0">>]
Fork3Order == <<"vlan1", "vlan2", "eth0">>

\* Two interfaces that require each other, and a device that a third one
\* requires besides one of them.
Cycle4 == {"a", "b", "c", "dev"}
Cycle4Requires == [i \in Cycle4 |-> CASE i = "a" -> <<"b">>
                                      [] i = "b" -> <<"a">>
                                      [] i = "c" -> <<"dev", "b">>
                                      [] i = "dev" -> << >>]
Cycle4Order == <<"c", "a", "b", "dev">>

\* Operators that take down what requires an interface before the interface;
\* the members of a cycle go down in one command.
RequirersFirst == [k \in Key |-> {i \in Iface : k \in ToSet(Requires[i])}]
Cycle4Discipline == [k \in Key |-> {"c"} \ {k}]
NoDiscipline == [k \in Key |-> {}]

Singles(up, ifaces) == {Named(up, <<i>>) : i \in ifaces}

Stack3Commands == Singles(TRUE, Stack3) \cup Singles(FALSE, Stack3)
                  \cup {Named(TRUE, <<"eth0", "br">>), Named(FALSE, <<"br", "vlan">>),
                        Automatic(TRUE), Automatic(FALSE)}
Cycle4Commands ==
    Singles(TRUE, Cycle4) \cup {Named(FALSE, <<"c">>), Named(FALSE, <<"dev">>),
                                Named(FALSE, <<"a", "b">>), Named(FALSE, <<"b", "a">>),
                                Named(TRUE, <<"c", "dev">>)}

Fork3UpFlaky == {<<"vlan1", "post-up">>, <<"vlan2", "pre-up">>, <<"eth0", "create">>}
Fork3Ups == Singles(TRUE, Fork3)
\* What requires an automatic interface is automatic, too.
Stack3Auto == {"br", "vlan"}

Alias(up, key, stanza) == [Options(up) EXCEPT !.args = <<[key |-> key, as |-> stanza]>>]

\* The stack on a host with an uplink that does not always come up, a stanza with
\* errors, and operators who mistype names.
Host5 == Stack3 \cup {"wan", "bad"}
Host5Keys == Host5 \cup {"ghost"}
Host5Requires == [i \in Host5 |-> IF i \in Stack3 THEN Stack3Requires[i] ELSE << >>]
Host5Order == <<"wan", "br", "bad", "vlan", "eth0">>
Host5Auto == {"wan", "br", "bad", "vlan"}
Host5Flaky == {<<"wan", "query">>, <<"wan", "pre-up">>, <<"wan", "up">>}
Host5Commands == Stack3Commands \cup
    {Named(TRUE, <<"bad", "wan">>), Named(TRUE, <<"eth0", "ghost">>),
     Named(FALSE, <<"wan", "ghost", "br">>)}

\* Two interfaces that have nothing to do with each other.
Pair == {"eth0", "eth1"}
PairRequires == [i \in Pair |-> << >>]
PairOrder == <<"eth0", "eth1">>
PairCommands == Singles(TRUE, Pair)

\* For two processes, all options: a VLAN that requires its device and a stanza with
\* errors, a guest network that requires a template, and the device under another
\* name, too.
Mixed == {"eth0", "vlan1", "guest", "tpl", "bad"}
MixedKeys == Mixed \cup {"lan0"}
MixedRequires == [i \in Mixed |-> CASE i = "vlan1" -> <<"bad", "eth0">>
                                    [] i = "guest" -> <<"tpl">>
                                    [] OTHER -> << >>]
MixedOrder == <<"vlan1", "eth0", "guest", "tpl", "bad">>
MixedAuto == {"guest", "bad"}
MixedFlaky == {<<"eth0", "query">>, <<"eth0", "up">>, <<"vlan1", "down">>}
MixedCommands ==
    {Named(TRUE, <<"vlan1">>), Alias(TRUE, "lan0", "eth0"),
     [Named(FALSE, <<"vlan1">>) EXCEPT !.force = TRUE],
     [Named(TRUE, <<"eth0">>) EXCEPT !.mock = TRUE],
     [Automatic(TRUE) EXCEPT !.nolock = TRUE]}

BadStanza == {"bad"}
TplStanza == {"tpl"}
MaybeWritable == {TRUE, FALSE}

OnlyUps == {TRUE}
AnyCommand == BOOLEAN
OneProc == {p1}
TwoProcs == {p1, p2}
NoFlaky == {}
NoStanza == {}
AlwaysWritable == {TRUE}
=============================================================================
