---------------------------- MODULE BootService ----------------------------
(***************************************************************************)
(* The OpenRC service dist/openrc/networking.initd around ifup, ifdown and *)
(* ifquery: start brings the automatic interfaces up one by one and forces *)
(* down what did not come up, stop takes down whatever the state file      *)
(* lists.  A service named networking.<interface> does so for that one     *)
(* interface.  Operators may run commands of their own between those of    *)
(* the script; one command runs at a time.                                 *)
(***************************************************************************)
EXTENDS IfUpDown

CONSTANTS
    Services,   \* suffixes of service names, NoIface for plain "networking"
    Operator,   \* the commands that operators run
    MaxVerbs,   \* bound: start and stop in a behaviour
    MaxMeddled  \* bound: operators run commands only as long as this many have run

ASSUME ServiceAssumption == /\ Services \subseteq Key \cup {NoIface}
                            /\ Operator \subseteq Commands
                            /\ MaxVerbs \in Nat
                            /\ MaxMeddled \in Nat

VARIABLES
    verb,     \* what the script was called for
    suffix,   \* the suffix of its service's name
    names,    \* the names its loop still has to handle
    step,     \* in the loop: next name, ifup, force down, ifdown --force, ifdown
    success,  \* the script's variable: an interface has been started
    verbs,    \* start and stop so far
    alone,    \* ghost: no operator has run a command since the verb began
    trouble   \* ghost: see Troubles

svars == <<verb, suffix, names, step, success, verbs, alone, trouble>>
allvars == <<vars, svars>>

Steps == {"next", "up", "force", "forced", "down"}

\* Why counts may be off: an operator's ifup failed and nobody cleaned up after
\* it ("leak"); an operator's command came between a failed ifup of the script
\* and its clean-up ("raced"); an interface went down by name while something
\* required it, by the script ("reversed"), or by an operator, or an operator came
\* between such a step of the script and the end of its stop ("undermined").
Troubles == {"leak", "raced", "undermined", "reversed"}

ServiceInit == /\ Init
               /\ verb = "none" /\ suffix = NoIface /\ names = << >>
               /\ step = "next" /\ success = FALSE /\ verbs = 0
               /\ alone = TRUE /\ trouble = {}

\* The one process: shell and operator take turns.
Shell == CHOOSE p \in Proc : TRUE
Resting == At(Shell, "idle")

NameOnly(up, force, i) ==
    [NoCommand EXCEPT !.up = up, !.force = force, !.args = <<[key |-> i, as |-> NoIface]>>]

\* ifquery <name>: lif_state_lookup, then the collection.
IsKnown(k) == \/ k \in Iface
              \/ HasRecord(ifstate, k) /\ RecordOf(ifstate, k).mapped \in Iface

\* ifquery --auto --list: list_interfaces on the sorted collection.
AutoList == SelectSeq(CollectionOrder, LAMBDA i : i \in IsAuto)

RunningList == [n \in DOMAIN ifstate |-> ifstate[n].key]

WrongSingleOr(s, list) == <<s>>              \* a service without suffix, too
\* single_interface || ...: a name nobody configured stands for all of them.
SingleOr(s, list) == IF s # NoIface /\ IsKnown(s) THEN <<s>> ELSE list

\* rc-service <service> start or stop, up to the for loop.
CallService ==
    /\ Resting /\ verb = "none" /\ verbs < MaxVerbs
    /\ verb' \in {"start", "stop"}
    /\ suffix' \in Services
    /\ names' = SingleOr(suffix', IF verb' = "start" THEN AutoList ELSE RunningList)
    /\ step' = "next" /\ success' = FALSE /\ verbs' = verbs + 1 /\ alone' = TRUE
    /\ UNCHANGED <<vars, trouble>>

Undermines(c) ==
    ~c.up /\ \E n \in DOMAIN c.args : Requirers(c.args[n].key) # {}

ScriptCauses(c) == {x \in {"reversed"} : Undermines(c)}

OperatorCauses(c) ==
    {x \in {"undermined"} : Undermines(c) \/ "reversed" \in trouble}
    \cup {x \in {"raced"} : step = "force"}

\* The command starts with memory for c.
Launch(c, causes) ==
    /\ Start(Shell)
    /\ mem'[Shell].cmd = c
    /\ trouble' = trouble \cup causes

\* The body of the loop runs a command for the first of the names.
RunForName(from, to, c) ==
    /\ Resting /\ verb # "none" /\ step = from /\ names # << >>
    /\ step' = to
    /\ UNCHANGED <<verb, suffix, names, success, verbs, alone>>
    /\ Launch(c, ScriptCauses(c))

IfUp == verb = "start" /\ RunForName("next", "up", NameOnly(TRUE, FALSE, Head(names)))
IfDown == verb = "stop" /\ RunForName("next", "down", NameOnly(FALSE, FALSE, Head(names)))
WrongForceDown ==                            \* without --force
    RunForName("force", "forced", NameOnly(FALSE, FALSE, Head(names)))
ForceDown == RunForName("force", "forced", NameOnly(FALSE, TRUE, Head(names)))

\* An operator's command, also between two of the script.
OperatorRuns ==
    /\ Resting /\ step \in {"next", "force"} /\ runs < MaxMeddled
    /\ alone' = FALSE
    /\ UNCHANGED <<verb, suffix, names, step, success, verbs>>
    /\ \E c \in Operator : Launch(c, OperatorCauses(c))

Exits == mem'[Shell].pc = "idle"
ExitsWell == Exits /\ At(Shell, "flush") /\ mem[Shell].ok

WrongAfterExit ==                            \* a failed ifup is passed over
    /\ names' = Tail(names) /\ step' = "next"
    /\ success' = (success \/ (step = "up" /\ ExitsWell))

\* What the loop does with an exit code.
AfterExit ==
    IF step = "up" /\ ~ExitsWell
    THEN step' = "force" /\ UNCHANGED <<names, success>>
    ELSE /\ names' = Tail(names) /\ step' = "next"
         /\ success' = (success \/ step = "up")

\* After this the host is as if freshly booted.
Clean == ifstate' = << >> /\ \A k \in Key : phys'[k] = "down"

CommandWorks ==
    /\ Work(Shell)
    /\ IF Exits /\ step \notin {"next", "force"}
       THEN AfterExit ELSE UNCHANGED <<names, step, success>>
    /\ trouble' = CASE Exits /\ step # "force" /\ Clean -> {}
                    [] Exits /\ step = "next" /\ ~Clean /\ ~ExitsWell
                         -> trouble \cup {"leak"}
                    [] OTHER -> trouble
    /\ UNCHANGED <<verb, suffix, verbs, alone>>

\* The loop is done: start returns ${success:-1}, stop returns 0.
ReturnFromService ==
    /\ Resting /\ verb # "none" /\ step = "next" /\ names = << >>
    /\ verb' = "none"
    /\ UNCHANGED <<vars, suffix, names, step, success, verbs, alone, trouble>>

Script == CallService \/ IfUp \/ IfDown \/ ForceDown \/ ReturnFromService
ServiceRest == Resting /\ verb = "none" /\ UNCHANGED allvars
ServiceNext == Script \/ OperatorRuns \/ CommandWorks \/ ServiceRest

\* Script and commands go on; nobody has to start a service.
ServiceSpec == /\ ServiceInit /\ [][ServiceNext]_allvars
               /\ WF_allvars(CommandWorks)
               /\ WF_allvars(verb # "none" /\ Script)

-----------------------------------------------------------------------------
ServiceTypeOK == /\ verb \in {"none", "start", "stop"}
                 /\ suffix \in Services
                 /\ names \in Seq(Key)
                 /\ step \in Steps
                 /\ success \in BOOLEAN /\ alone \in BOOLEAN
                 /\ verbs \in 0 .. MaxVerbs
                 /\ trouble \subseteq Troubles

\* The forced ifdown of the script undoes exactly what the failed ifup before it
\* had counted, whatever phase of whatever interface failed: between two commands
\* the records count what is up and nothing is left half configured.  After a
\* failed ifup of an operator a count may be too high, but never too low.
ServiceKeepsCounts ==
    Resting /\ step = "next" /\ trouble \subseteq {"leak"} =>
        \A i \in Iface : /\ Recorded(i) >= Owed(i)
                         /\ trouble = {} => Recorded(i) = Owed(i) /\ phys[i] # "partial"

\* The next ifup after a forced ifdown configures the device again: no phase of an
\* interface runs before what it requires is up, although its last ifup failed.
RequiredUpAfterRetry == trouble = {} /\ step # "forced" => RequiredUpFirst


\* Every start and every stop returns, failing commands and operators in between
\* included.
VerbsEnd == verb # "none" ~> verb = "none"
=============================================================================
