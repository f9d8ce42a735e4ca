--------------------------- MODULE InterfaceFile ---------------------------
(***************************************************************************)
(* lif_interface_file_parse of libifupdown/interface-file.c and            *)
(* lif_compat_apply of libifupdown/compat.c: the lines of the interfaces   *)
(* file and of the files it sources become a collection.  A line is taken  *)
(* as the tokens its handler looks at.                                     *)
(***************************************************************************)
EXTENDS Interface, FiniteSets

CONSTANTS
    File,      \* names of files
    Main,      \* the interfaces file
    Inputs,    \* files that can be read, with their lines, and a configuration
    Rank,      \* alphabetical order: a number for each token and each other key
    Addon,     \* the executor that the first word of a key names
    Members    \* the names in a bridge-ports value

Keyword == {"iface", "template", "defaults", "auto", "inherit", "address", "gateway",
            "hostname", "use", "generic", "source", "source-directory"}

Line == [kw : Keyword, arg : STRING, value : STRING, prefix : Nat,
         opts : Seq(Seq(STRING)), files : Seq(File)]

ASSUME InputAssumption ==
    \A in \in Inputs : /\ Main \in DOMAIN in.files
                      /\ DOMAIN in.files \subseteq File
                      /\ in.files \in [DOMAIN in.files -> Seq(Line)]
                      /\ in.config \in Config

NoName == "no stanza"

VARIABLES
    contents,  \* the file system
    open,      \* the activations of lif_interface_file_parse, innermost last
    loaded,    \* the files that have been opened
    parsed,    \* the collection
    cur,       \* cur_iface
    pc,        \* "parse", "parsed", "compat", "done", "failed" or "endless"
    visit      \* position of the loop of lif_compat_apply

vars == <<contents, config, open, loaded, parsed, cur, pc, visit>>

\* todo and strict belong to the source or source-directory line being handled.
OpenFile == [file : File, next : Nat \ {0}, todo : Seq(File), strict : BOOLEAN, ok : BOOLEAN]

Opened(f) == [file |-> f, next |-> 1, todo |-> << >>, strict |-> FALSE, ok |-> TRUE]

Init == /\ \E in \in Inputs : contents = in.files /\ config = in.config
        /\ open = <<Opened(Main)>>
        /\ loaded = {Main}
        /\ parsed = NewCollection
        /\ cur = NoName
        /\ pc = "parse"
        /\ visit = 1

-----------------------------------------------------------------------------
(* The handlers: what a line makes of a parser state [c, cur, endless].    *)

\* Legacy tokens and what ifupdown-ng calls them.
Tokens ==
    << <<"accept_ra", "ipv6-accept-ra">>, <<"autoconf", "ipv6-autoconf">>,
       <<"bond-ad-sys-priority", "bond-ad-actor-sys-prio">>, <<"bond-slaves", "bond-members">>,
       <<"client", "dhcp-client-id">>, <<"dad_transmits", "ipv6-dad-transmits">>,
       <<"driver-message-level", "ethtool-msglvl">>, <<"endpoint", "tunnel-remote">>,
       <<"ethernet-autoneg", "ethtool-ethernet-autoneg">>,
       <<"ethernet-pause-autoneg", "ethtool-pause-autoneg">>, <<"ethernet-pause-rx", "ethtool-pause-rx">>,
       <<"ethernet-pause-tx", "ethtool-pause-tx">>, <<"ethernet-port", "ethtool-ethernet-port">>,
       <<"ethernet-wol", "ethtool-ethernet-wol">>, <<"gro-offload", "ethtool-offload-gro">>,
       <<"gso-offload", "ethtool-offload-gso">>, <<"hardware-dma-ring-rx", "ethtool-dma-ring-rx">>,
       <<"hardware-dma-ring-rx-jumbo", "ethtool-dma-ring-rx-jumbo">>,
       <<"hardware-dma-ring-rx-mini", "ethtool-dma-ring-rx-mini">>,
       <<"hardware-dma-ring-tx", "ethtool-dma-ring-tx">>,
       <<"hardware-irq-coalesce-adaptive-rx", "ethtool-coalesce-adaptive-rx">>,
       <<"hardware-irq-coalesce-adaptive-tx", "ethtool-coalesce-adaptive-tx">>,
       <<"hardware-irq-coalesce-pkt-rate-high", "ethtool-coalesce-pkt-rate-high">>,
       <<"hardware-irq-coalesce-pkt-rate-low", "ethtool-coalesce-pkt-rate-low">>,
       <<"hardware-irq-coalesce-rx-frames", "ethtool-coalesce-rx-frames">>,
       <<"hardware-irq-coalesce-rx-frames-high", "ethtool-coalesce-rx-frames-high">>,
       <<"hardware-irq-coalesce-rx-frames-irq", "ethtool-coalesce-rx-frames-irq">>,
       <<"hardware-irq-coalesce-rx-frames-low", "ethtool-coalesce-rx-frames-low">>,
       <<"hardware-irq-coalesce-rx-usecs", "ethtool-coalesce-rx-usecs">>,
       <<"hardware-irq-coalesce-rx-usecs-high", "ethtool-coalesce-rx-usecs-high">>,
       <<"hardware-irq-coalesce-rx-usecs-irq", "ethtool-coalesce-rx-usecs-irq">>,
       <<"hardware-irq-coalesce-rx-usecs-low", "ethtool-coalesce-rx-usecs-low">>,
       <<"hardware-irq-coalesce-sample-interval", "ethtool-coalesce-sample-interval">>,
       <<"hardware-irq-coalesce-stats-block-usecs", "ethtool-coalesce-stats-block-usecs">>,
       <<"hardware-irq-coalesce-tx-frames", "ethtool-coalesce-tx-frames">>,
       <<"hardware-irq-coalesce-tx-frames-high", "ethtool-coalesce-tx-frames-high">>,
       <<"hardware-irq-coalesce-tx-frames-irq", "ethtool-coalesce-tx-frames-irq">>,
       <<"hardware-irq-coalesce-tx-frames-low", "ethtool-coalesce-tx-frames-low">>,
       <<"hardware-irq-coalesce-tx-usecs", "ethtool-coalesce-tx-usecs">>,
       <<"hardware-irq-coalesce-tx-usecs-high", "ethtool-coalesce-tx-usecs-high">>,
       <<"hardware-irq-coalesce-tx-usecs-irq", "ethtool-coalesce-tx-usecs-irq">>,
       <<"hardware-irq-coalesce-tx-usecs-low", "ethtool-coalesce-tx-usecs-low">>,
       <<"hostname", "dhcp-hostname">>, <<"key", "tunnel-key">>, <<"leasetime", "dhcp-leasetime">>,
       <<"link-autoneg", "ethtool-ethernet-autoneg">>, <<"link-duplex", "ethtool-link-duplex">>,
       <<"link-fec", "ethtool-link-fec">>, <<"link-speed", "ethtool-link-speed">>,
       <<"local", "tunnel-local">>, <<"lro-offload", "ethtool-offload-lro">>, <<"mode", "tunnel-mode">>,
       <<"offload-gro", "ethtool-offload-gro">>, <<"offload-gso", "ethtool-offload-gso">>,
       <<"offload-lro", "ethtool-offload-lro">>, <<"offload-rx", "ethtool-offload-rx">>,
       <<"offload-sg", "ethtool-offload-sg">>, <<"offload-tso", "ethtool-offload-tso">>,
       <<"offload-tx", "ethtool-offload-tx">>, <<"offload-ufo", "ethtool-offload-ufo">>,
       <<"pointopoint", "point-to-point">>, <<"provider", "ppp-provider">>, <<"script", "dhcp-script">>,
       <<"rx-offload", "ethtool-offload-rx">>, <<"tso-offload", "ethtool-offload-tso">>,
       <<"ttl", "tunnel-ttl">>, <<"tunnel-endpoint", "tunnel-remote">>, <<"tunnel-physdev", "tunnel-dev">>,
       <<"tx-offload", "ethtool-offload-tx">>, <<"ufo-offload", "ethtool-offload-ufo">>,
       <<"vendor", "dhcp-vendor">>, <<"vrf", "vrf-member">>, <<"vrrp", "vrrp-cfg">>,
       <<"vxlan-local-tunnelip", "vxlan-local-ip">>, <<"vxlan-remote-group", "vxlan-peer-group">>,
       <<"vxlan-remoteip", "vxlan-peer-ips">>, <<"vxlan-remote-ip", "vxlan-peer-ips">>,
       <<"vxlan-svcnodeip", "vxlan-peer-group">> >>

\* bsearch in the table; 0 if it does not come across the key.
Found(key) ==
    LET f[lo \in 1 .. Len(Tokens) + 1, hi \in 0 .. Len(Tokens)] ==
            LET mid == (lo + hi + 1) \div 2 IN
            CASE lo > hi -> 0
              [] lo <= hi /\ Tokens[mid][1] = key -> mid
              [] lo <= hi /\ Rank[key] < Rank[Tokens[mid][1]] -> f[lo, mid - 1]
              [] OTHER -> f[mid + 1, hi]
    IN  f[1, Len(Tokens)]

\* maybe_remap_token.
Remapped(key) == IF Found(key) = 0 THEN key ELSE Tokens[Found(key)][2]

State == [c |-> parsed, cur |-> cur, endless |-> FALSE]

Within(s, i) == [s EXCEPT !.c.stanza[s.cur] = i]

Current(s) == s.c.stanza[s.cur]

\* What most handlers do with a line that belongs to no stanza: nothing.
InStanza(s, i) == IF s.cur = NoName THEN s ELSE Within(s, i)

InheritFrom(s, p) ==
    LET f == Find(s.c, p)
    IN  [s EXCEPT !.c = Inherit(f, s.cur, p), !.endless = @ \/ InheritsForever(f, s.cur, p)]

HandleInherit(s, target) ==
    LET f == [s EXCEPT !.c = Find(@, target)]
    IN  CASE s.cur = NoName -> s
          [] s.cur # NoName /\ target = "" -> Within(s, [Current(s) EXCEPT !.error = TRUE])
          [] s.cur # NoName /\ target # "" /\ ~config.allowAny /\ ~f.c.stanza[target].template
               -> Within(f, [Current(f) EXCEPT !.error = TRUE])
          [] OTHER -> InheritFrom(s, target)

\* The words after the name of a stanza.
Option(s, o) ==
    CASE o[1] \in {"dhcp", "ppp"} -> Within(s, UseExecutor(Current(s), o[1]))
      [] o[1] = "inherits" -> HandleInherit(s, o[2])
      [] o[1] = "no-defaults" -> Within(s, [Current(s) EXCEPT !.nodefaults = TRUE])
      [] OTHER -> s

\* The stanza that was open is finished, then the new one is found or added.
OpenStanza(s, n) ==
    [s EXCEPT !.c = Find([@ EXCEPT !.stanza = IF s.cur = NoName THEN @
                                              ELSE [@ EXCEPT ![s.cur] = Finalize(@)]], n),
              !.cur = n]

WrongMarked(i, kw) ==       \* auto is not taken back
    IF kw = "iface" THEN i ELSE [i EXCEPT !.template = TRUE]

Marked(i, kw) == IF kw = "iface" THEN i ELSE [i EXCEPT !.template = TRUE, !.auto = FALSE]

TakeDefaults(s) ==
    IF Current(s).template \/ Current(s).nodefaults THEN s ELSE InheritFrom(s, "defaults")

HandleIface(s, line) ==
    LET o == [OpenStanza(s, line.arg) EXCEPT !.c.stanza[line.arg] = Marked(@, line.kw)]
    IN  IF line.arg = "" THEN s ELSE TakeDefaults(FoldLeft(Option, o, line.opts))

\* Inside of a stanza, "auto" without a name makes one with an empty name.
HandleAuto(s, n) ==
    LET f == [s EXCEPT !.c = Find(@, n), !.cur = n]
        a == Current(f).auto \/ ~Current(f).template
    IN  IF n = "" /\ s.cur = NoName THEN s
        ELSE Within(f, [Current(f) EXCEPT !.auto = a, !.explicit = @ \/ a])

Generic(i, line) ==
    LET k == Remapped(line.arg)
        a == Add([i EXCEPT !.bridge = @ \/ k = "bridge-ports"],
                 [key |-> k, value |-> line.value, prefix |-> line.prefix])
    IN  IF config.autoExec /\ k \in DOMAIN Addon THEN UseExecutor(a, Addon[k]) ELSE a

Handled(s, line) ==
    CASE line.kw \in {"iface", "template", "defaults"} -> HandleIface(s, line)
      [] line.kw = "auto" -> HandleAuto(s, line.arg)
      [] line.kw = "inherit" -> HandleInherit(s, line.arg)
      [] line.kw = "address" ->
           InStanza(s, AddAddress(Current(s), [Var("address", line.arg) EXCEPT !.prefix = line.prefix]))
      [] line.kw = "gateway" ->
           InStanza(s, Add(UseExecutor(Current(s), "static"), Var("gateway", line.arg)))
      [] line.kw = "hostname" ->
           InStanza(s, Add(DeleteKey(Current(s), "dhcp-hostname"), Var("dhcp-hostname", line.arg)))
      [] line.kw = "use" -> InStanza(s, UseExecutor(Current(s), line.arg))
      [] OTHER -> InStanza(s, Generic(Current(s), line))

-----------------------------------------------------------------------------
(* lif_interface_file_parse.                                               *)

Top == open[Len(open)]

WithTop(o) == [open EXCEPT ![Len(open)] = o]

\* A line is at hand, and no source line is in progress.
AtLine == /\ pc = "parse"
          /\ Top.ok /\ Top.todo = << >>
          /\ Top.next <= Len(contents[Top.file])

CurrentLine == contents[Top.file][Top.next]

ReadLine ==
    /\ AtLine
    /\ CurrentLine.kw \notin {"source", "source-directory"}
    /\ \E s \in {Handled(State, CurrentLine)} :
           /\ parsed' = s.c
           /\ cur' = s.cur
           /\ pc' = IF s.endless THEN "endless" ELSE pc
    /\ open' = WithTop([Top EXCEPT !.next = @ + 1])
    /\ UNCHANGED <<contents, config, loaded, visit>>

\* The words of the expanded pattern, unless the first of them does not exist.
Source ==
    /\ AtLine
    /\ CurrentLine.kw = "source"
    /\ LET f == CurrentLine.files
       IN  open' = WithTop([Top EXCEPT !.next = @ + 1, !.strict = FALSE,
                        !.todo = IF f # << >> /\ f[1] \in DOMAIN contents THEN f ELSE << >>])
    /\ UNCHANGED <<contents, config, loaded, parsed, cur, pc, visit>>

\* The regular files of a directory, in whatever order it lists them; the first
\* that fails is the last.
SourceDirectory ==
    /\ AtLine
    /\ CurrentLine.kw = "source-directory"
    /\ \E q \in SetToSeqs(ToSet(CurrentLine.files) \cap DOMAIN contents) :
           open' = WithTop([Top EXCEPT !.next = @ + 1, !.strict = TRUE, !.todo = q])
    /\ UNCHANGED <<contents, config, loaded, parsed, cur, pc, visit>>

Failed(o) == [o EXCEPT !.ok = FALSE, !.todo = IF o.strict THEN << >> ELSE @]

WrongOpenNext == \* a file is not remembered
    /\ pc = "parse"
    /\ Top.todo # << >>
    /\ LET f == Head(Top.todo)
           rest == [Top EXCEPT !.todo = Tail(@)]
       IN  \/ f \in loaded /\ open' = WithTop(rest)
           \/ f \notin loaded \cup DOMAIN contents /\ open' = WithTop(Failed(rest))
           \/ f \in DOMAIN contents \ loaded /\ open' = Append(WithTop(rest), Opened(f))
    /\ UNCHANGED <<contents, config, loaded, parsed, cur, pc, visit>>

WrongOpenNextInLine == \* a file that is already included ends the line
    /\ pc = "parse"
    /\ Top.todo # << >>
    /\ LET f == Head(Top.todo)
           rest == [Top EXCEPT !.todo = Tail(@)]
       IN  \/ f \in loaded /\ open' = WithTop([Top EXCEPT !.todo = << >>]) /\ UNCHANGED loaded
           \/ f \notin loaded \cup DOMAIN contents /\ open' = WithTop(Failed(rest)) /\ UNCHANGED loaded
           \/ /\ f \in DOMAIN contents \ loaded
              /\ open' = Append(WithTop(rest), Opened(f))
              /\ loaded' = loaded \cup {f}
    /\ UNCHANGED <<contents, config, parsed, cur, pc, visit>>

\* The next file of a source line: it is already included, cannot be opened, or is
\* parsed before the line goes on.  As in the code a file is known by its path as
\* written: an f reached by two paths (a and ./a) is two files here.
OpenNext ==
    /\ pc = "parse"
    /\ Top.todo # << >>
    /\ LET f == Head(Top.todo)
           rest == [Top EXCEPT !.todo = Tail(@)]
       IN  \/ f \in loaded /\ open' = WithTop(rest) /\ UNCHANGED loaded
           \/ f \notin loaded \cup DOMAIN contents /\ open' = WithTop(Failed(rest)) /\ UNCHANGED loaded
           \/ /\ f \in DOMAIN contents \ loaded
              /\ open' = Append(WithTop(rest), Opened(f))
              /\ loaded' = loaded \cup {f}
    /\ UNCHANGED <<contents, config, parsed, cur, pc, visit>>

EndOfFile ==
    /\ pc = "parse"
    /\ Top.ok /\ Top.todo = << >>
    /\ Top.next > Len(contents[Top.file])
    /\ parsed' = IF cur = NoName THEN parsed ELSE [parsed EXCEPT !.stanza[cur] = Finalize(@)]
    /\ open' = Front(open)
    /\ pc' = IF Len(open) = 1 THEN "parsed" ELSE pc
    /\ UNCHANGED <<contents, config, loaded, cur, visit>>

\* A parse that failed returns false to the source line it was called for.
ParseError ==
    /\ pc = "parse"
    /\ ~Top.ok /\ Top.todo = << >>
    /\ IF Len(open) = 1 THEN open' = << >> /\ pc' = "failed"
       ELSE open' = [Front(open) EXCEPT ![Len(open) - 1] = Failed(@)] /\ UNCHANGED pc
    /\ UNCHANGED <<contents, config, loaded, parsed, cur, visit>>

-----------------------------------------------------------------------------
(* lif_compat_apply: the VLANs of a bridge are passed to its ports.        *)

PortKeys == <<"bridge-pvid", "bridge-vids">>

WrongHasMembers(i) == \* a bridge must set both
    /\ i.bridge
    /\ \A n \in DOMAIN PortKeys : HasKey(i, PortKeys[n])
    /\ HasKey(i, "bridge-ports") /\ FirstOf(i, "bridge-ports").value # "none"

\* The bridges that have ports to pass something to.
HasMembers(i) ==
    /\ i.bridge
    /\ \E n \in DOMAIN PortKeys : HasKey(i, PortKeys[n])
    /\ HasKey(i, "bridge-ports") /\ FirstOf(i, "bridge-ports").value # "none"

MembersOf(i) == Members[FirstOf(i, "bridge-ports").value]

Bridges == {i \in ToSet(parsed.list) : HasMembers(parsed.stanza[i])}

\* Before that, lif_lifecycle_count_rdepends (module DependencyOrder) adds stanzas
\* that are required, here by the executors of bridges, and reorders the collection.
\* Only bridges make the order matter.
CountDependents ==
    /\ pc = "parsed"
    /\ LET ports == UNION {ToSet(MembersOf(parsed.stanza[i])) : i \in Bridges}
           Orders == IF config.inheritVlans /\ Bridges # {}
                     THEN UNION {SetToSeqs(ToSet(parsed.list) \cup s) : s \in SUBSET ports}
                     ELSE {parsed.list}
       IN  \E q \in Orders : parsed' = [parsed EXCEPT !.list = q]
    /\ pc' = "compat"
    /\ UNCHANGED <<contents, config, open, loaded, cur, visit>>

Pass(c, bridge, port) ==
    LET Copy(i, k) == IF HasKey(bridge, k) /\ ~HasKey(i, k)
                      THEN Add(i, Var(k, FirstOf(bridge, k).value)) ELSE i
    IN  IF port \in ToSet(c.list) \/ config.create
        THEN [Find(c, port) EXCEPT !.stanza[port] = FoldLeft(Copy, @, PortKeys)]
        ELSE c

WrongCompatBridge == \* "continue" skips the step of the loop
    /\ pc = "compat"
    /\ config.inheritVlans /\ visit <= Len(parsed.list)
    /\ LET bridge == parsed.stanza[parsed.list[visit]]
           PassOn(c, port) == Pass(c, bridge, port)
       IN  IF HasMembers(bridge)
           THEN parsed' = FoldLeft(PassOn, parsed, MembersOf(bridge)) /\ visit' = visit + 1
           ELSE UNCHANGED <<parsed, visit>>
    /\ UNCHANGED <<contents, config, open, loaded, cur, pc>>

CompatBridge ==
    /\ pc = "compat"
    /\ config.inheritVlans /\ visit <= Len(parsed.list)
    /\ LET bridge == parsed.stanza[parsed.list[visit]]
           PassOn(c, port) == Pass(c, bridge, port)
       IN  parsed' = IF HasMembers(bridge) THEN FoldLeft(PassOn, parsed, MembersOf(bridge)) ELSE parsed
    /\ visit' = visit + 1
    /\ UNCHANGED <<contents, config, open, loaded, cur, pc>>

CompatDone ==
    /\ pc = "compat"
    /\ config.inheritVlans => visit > Len(parsed.list)
    /\ pc' = "done"
    /\ UNCHANGED <<contents, config, open, loaded, parsed, cur, visit>>

Step == ReadLine \/ Source \/ SourceDirectory \/ OpenNext \/ EndOfFile \/ ParseError
        \/ CountDependents \/ CompatBridge \/ CompatDone

\* A collection is handed to the caller, or the program exits, or it copies on.
Finished == pc \in {"done", "failed", "endless"} /\ UNCHANGED vars

Next == Step \/ Finished

Spec == Init /\ [][Next]_vars

\* Parsing is a sequential program that waits for nobody.
FairSpec == Spec /\ WF_vars(Step)

-----------------------------------------------------------------------------
(* Properties.                                                             *)

\* The parser state is well formed: the names of the collection are distinct, its
\* stanzas are stanzas, and the current one is among them.
TypeOK ==
    /\ parsed \in Collection /\ IsInjective(parsed.list)
    /\ cur \in ToSet(parsed.list) \cup {NoName}
    /\ open \in Seq(OpenFile)
    /\ pc \in {"parse", "parsed", "compat", "done", "failed", "endless"}
    /\ open = << >> <=> pc \in {"parsed", "compat", "done", "failed"}
    /\ visit \in 1 .. Len(parsed.list) + 1

\* A file that is being parsed is never opened again below itself, whatever the
\* files source: this is what state->loaded is for (lif_interface_file_parse).
NestedOnce ==
    /\ \A m, n \in DOMAIN open : open[m].file = open[n].file => m = n
    /\ \A n \in DOMAIN open : open[n].file \in loaded

\* The source lines of a file.
SourceLines(f) == {n \in DOMAIN contents[f] : contents[f][n].kw \in {"source", "source-directory"}}

\* When the parse succeeds, every file that a source line of a parsed file names has
\* been parsed, although files that were included before are skipped.  Only a
\* pattern whose first word does not exist is passed over (handle_source).
AllSourced ==
    pc \in {"parsed", "compat", "done"} =>
        \A f \in loaded : \A n \in SourceLines(f) :
            LET line == contents[f][n] IN
            \/ ToSet(line.files) \cap DOMAIN contents \subseteq loaded
            \/ line.kw = "source" /\ line.files[1] \notin DOMAIN contents

\* Parsing ends, also when files source each other and when lif_compat_apply adds
\* stanzas to the collection it walks.  What does not end is the copy of a stanza
\* with an address into itself.
Terminates == [](pc # "endless") => <>(pc \in {"done", "failed"})

Opens(line) == line.kw \in {"iface", "template", "defaults"} /\ line.arg # ""

\* The lines from an opening line n of the interfaces file to the next one.
Block(n) ==
    LET lines == contents[Main]
    IN  {m \in DOMAIN lines : m > n /\ \A k \in n + 1 .. m : ~Opens(lines[k])}

Netmasks(n) == {m \in Block(n) : contents[Main][m].kw = "generic" /\ contents[Main][m].arg = "netmask"}

\* The ordinary files: auto lines first, at most one netmask in a block.
Plain ==
    /\ DOMAIN contents = {Main}
    /\ \A n \in DOMAIN contents[Main] :
           /\ contents[Main][n].kw = "auto" => \A m \in 1 .. n : contents[Main][m].kw = "auto"
           /\ Opens(contents[Main][n]) => Cardinality(Netmasks(n)) <= 1

\* An address written without a prefix length gets the netmask of its own block, or
\* the default if that has none, and never that of another block of the same
\* interface or of a template (lif_interface_finalize).
NetmaskOfBlock ==
    pc = "done" /\ Plain =>
        LET lines == contents[Main] IN
        \A n \in DOMAIN lines : Opens(lines[n]) =>
            \A m \in Block(n) : lines[m].kw = "address" =>
                [key |-> "address", value |-> lines[m].arg,
                 prefix |-> CASE lines[m].prefix # 0 -> lines[m].prefix
                              [] lines[m].prefix = 0 /\ Netmasks(n) = {} -> DefaultPrefix
                              [] OTHER -> lines[CHOOSE k \in Netmasks(n) : TRUE].prefix]
                    \in ToSet(parsed.stanza[lines[n].arg].vars)

InCollection == ToSet(parsed.list)

\* Whatever auto, iface, inherit and template lines come in whatever order: without
\* the implicit conversion, what is declared as a template is not brought up at boot
\* (handle_auto, handle_iface), and if the configuration requires it, an interface
\* takes over nothing but the defaults and templates (handle_inherit).
TemplatesApart ==
    \A i \in InCollection :
        /\ ~config.implicit /\ parsed.stanza[i].template => ~parsed.stanza[i].auto
        /\ ~config.allowAny =>
               \A e \in ToSet(parsed.stanza[i].vars) :
                   e.key = "inherit" /\ e.value # "defaults" => parsed.stanza[e.value].template

WithPorts(i) == HasKey(i, "bridge-ports") /\ FirstOf(i, "bridge-ports").value # "none"

\* i and j are stanzas and i is a port of the bridge j.
IsPort(i, j) == WithPorts(parsed.stanza[j]) /\ i \in ToSet(MembersOf(parsed.stanza[j]))

\* What a bridge b that is no port itself sets has been handed to its ports.
HandedOver(b) ==
    \A k \in ToSet(PortKeys) :
        HasKey(parsed.stanza[b], k) /\ (\A j \in InCollection \ {b} : ~IsPort(b, j)) =>
            \A i \in ToSet(MembersOf(parsed.stanza[b])) :
                i \in InCollection \/ config.create => HasKey(parsed.stanza[i], k)

\* Each port of a stanza that the parser marked as a bridge has the VLAN settings of
\* the bridge at the end, its own or inherited ones, also if a port has a stanza of
\* its own, before or after the bridge, or gets one on the way (lif_compat_apply).
FlaggedBridgesPass ==
    pc = "done" /\ config.inheritVlans =>
        \A b \in InCollection :
            parsed.stanza[b].bridge /\ WithPorts(parsed.stanza[b]) => HandedOver(b)

\* No stanza has a variable under a legacy name: they are "internally rewritten" to
\* those of ifupdown-ng, by a search that relies on the order of the table
\* (maybe_remap_token).
AllRewritten ==
    \A i \in InCollection : \A e \in ToSet(parsed.stanza[i].vars) :
        e.key \notin {Tokens[n][1] : n \in DOMAIN Tokens}
=============================================================================
