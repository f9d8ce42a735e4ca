--------------------------- MODULE MCBootService ---------------------------
(***************************************************************************)
(* BootService on two VLANs that share a device.                           *)
(***************************************************************************)
EXTENDS BootService

CONSTANTS p1, none

OneShell == {p1}
VlanHost == {"eth0", "vlan1", "vlan2"}
Vlans == {"vlan1", "vlan2"}
VlanRequires == [i \in VlanHost |-> IF i = "eth0" THEN << >> ELSE <<"eth0">>]
VlanOrder == <<"vlan1", "vlan2", "eth0">>
VlanUpFlaky == {<<"vlan1", "post-up">>, <<"vlan2", "pre-up">>, <<"eth0", "create">>}
NoStanza == {}
Writable == {TRUE}
NoDiscipline == [k \in Key |-> {}]
OnlyUps == {TRUE}

\* The service for all interfaces, one for a VLAN, and one for a name that the
\* interfaces file does not have.
SomeServices == {none, "vlan1", "wan"}
HostNames == VlanHost \cup {"wan"}

ServiceCommands == {NameOnly(TRUE, FALSE, i) : i \in VlanHost}
                   \cup {NameOnly(FALSE, f, i) : f \in BOOLEAN, i \in VlanHost}
OperatorCommands == {NameOnly(TRUE, FALSE, "vlan1"), NameOnly(TRUE, FALSE, "eth0"),
                     NameOnly(FALSE, FALSE, "vlan2"), NameOnly(FALSE, FALSE, "eth0")}
=============================================================================
