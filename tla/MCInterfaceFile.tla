-------------------------- MODULE MCInterfaceFile --------------------------
(***************************************************************************)
(* Small instances of InterfaceFile for TLC: files made of the lines that  *)
(* bear on one question each.                                              *)
(***************************************************************************)
EXTENDS InterfaceFile

Names == {"lo", "defaults", "", "eth0", "eth1", "eth2", "br0", "net"}
Files == {"interfaces", "a", "b", "c"}

\* Alphabetical order: the table is in order but for two pairs of neighbours.
Order ==
    [n \in DOMAIN Tokens |->
        CASE Tokens[n][1] = "script" -> n + 1
          [] Tokens[n][1] = "rx-offload" -> n - 1
          [] Tokens[n][1] = "vxlan-remoteip" -> n + 1
          [] Tokens[n][1] = "vxlan-remote-ip" -> n - 1
          [] OTHER -> n]
Legacy == {Tokens[n][1] : n \in DOMAIN Tokens}
After(t) == 10 * Order[CHOOSE n \in DOMAIN Tokens : Tokens[n][1] = t]
Ranks ==
    [k \in Legacy |-> After(k)] @@ ("netmask" :> After("mode") + 5)
    @@ [k \in {"bridge-ports", "bridge-pvid", "bridge-vids"} |-> After("bond-slaves") + 5]

\* The part of a key before its first hyphen.
Keys == {Tokens[n][2] : n \in DOMAIN Tokens} \cup {"bridge-ports", "bridge-pvid", "bridge-vids"} \cup Legacy
Hyphens(k) == {n \in 1 .. Len(k) : SubSeq(k, n, n) = "-"}
Addons == [k \in {k \in Keys : Hyphens(k) # {}} |-> SubSeq(k, 1, Min(Hyphens(k)) - 1)]

Ports == [v \in {"eth1 eth2", "eth1", "none"} |->
             CASE v = "eth1 eth2" -> <<"eth1", "eth2">> [] v = "eth1" -> <<"eth1">> [] OTHER -> << >>]

L(kw, arg) == [kw |-> kw, arg |-> arg, value |-> "", prefix |-> 0, opts |-> << >>, files |-> << >>]
Key(k, v) == [L("generic", k) EXCEPT !.value = v]
Netmask(p) == [L("generic", "netmask") EXCEPT !.prefix = p]
WithOpts(line, o) == [line EXCEPT !.opts = o]
Sourcing(kw, fs) == [L(kw, "") EXCEPT !.files = fs]

Defaults == [allowAny |-> TRUE, implicit |-> TRUE, create |-> TRUE,
             inheritVlans |-> TRUE, autoExec |-> TRUE, hostname |-> TRUE]
OneFile(lines, cfg) == [files |-> [f \in {"interfaces"} |-> lines], config |-> cfg]

\* Up to three blocks of addresses and netmasks; eth0 in more than one of them, and
\* a template that the others may inherit from.
Bodies == {<< >>, <<L("address", "x")>>, <<L("address", "x"), Netmask(8)>>,
           <<Netmask(16), L("address", "x")>>, <<L("gateway", "g"), L("hostname", "h")>>,
           <<[L("address", "x") EXCEPT !.prefix = 30], Netmask(8), L("address", "z")>>}
Heads == {L("iface", "eth0"), WithOpts(L("iface", "eth0"), << <<"inherits", "net">> >>),
          L("template", "net"), L("defaults", "defaults")}
Renamed(b, v) == [n \in DOMAIN b |-> IF b[n].arg = "x" THEN [b[n] EXCEPT !.arg = v] ELSE b[n]]
Addresses ==
    {OneFile(<<L("auto", "eth0"), h1>> \o Renamed(b1, "x") \o <<h2>> \o Renamed(b2, "y"), Defaults) :
        h1 \in Heads, h2 \in Heads, b1 \in Bodies, b2 \in Bodies}

\* Sequences of lines about templates and inheritance, with and without the options.
TemplateLines == {L("auto", "net"), L("iface", "eth0"), L("template", "net"),
                  L("inherit", "net"), L("address", "x"),
                  WithOpts(L("iface", "net"), << <<"dhcp">>, <<"inherits", "eth0">>, <<"no-defaults">> >>)}
Nameless == {L("iface", "eth0"), L("auto", ""), L("iface", ""), L("inherit", "")}
Templates ==
    {OneFile(s, [Defaults EXCEPT !.allowAny = a, !.implicit = i]) :
        s \in [1 .. 4 -> TemplateLines] \cup [1 .. 2 -> Nameless],
        a \in BOOLEAN, i \in BOOLEAN}

\* A bridge and its ports in any order, ports with and without a stanza.
BridgeBlock(ports, vlans) == <<L("iface", "br0"), Key("bridge-ports", ports)>> \o vlans
BridgeFiles ==
    {OneFile(b1 \o b2, [Defaults EXCEPT !.create = c, !.inheritVlans = v, !.autoExec = c]) :
        c \in BOOLEAN, v \in BOOLEAN,
        b1 \in {<< >>, <<L("iface", "eth1")>>, <<L("iface", "eth1"), Key("bridge-pvid", "7")>>},
        b2 \in {BridgeBlock(p, w) \o <<L("iface", "eth2"), L("use", "link")>> :
                    p \in {"eth1 eth2", "none"},
                    w \in {<< >>, <<Key("bridge-pvid", "1")>>, <<Key("bridge-vids", "2")>>}}}

\* Files that source each other, themselves, and files that do not exist.
Includes == {<< >>, <<Sourcing("source", <<"a">>), Sourcing("source", <<"a", "b">>)>>,
             <<Sourcing("source", <<"interfaces">>)>>, <<Sourcing("source", <<"a", "b", "c">>)>>,
             <<L("auto", "eth0"), Sourcing("source", <<"c", "a">>), L("auto", "eth1")>>,
             <<Sourcing("source-directory", <<"a", "b", "c">>), Sourcing("source", << >>)>>}
Nested ==
    {[files |-> fs, config |-> Defaults] :
        fs \in UNION {[d -> Includes] : d \in {{"interfaces", "a"}, {"interfaces", "a", "b"}}}}

AllInputs == Addresses \cup Templates \cup BridgeFiles \cup Nested

\* Each legacy token in a stanza of its own file.
EachToken == {OneFile(<<L("iface", "eth0"), Key(t, "1")>>, Defaults) : t \in Legacy}
=============================================================================
