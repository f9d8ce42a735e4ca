------------------------- MODULE IfUpDownRefinement -------------------------
(***************************************************************************)
(* ifup and ifdown, one command after the other and none of them failing,  *)
(* implement Requirements: the counts, the explicit marks, the recursion   *)
(* and the state file between commands keep exactly those interfaces up    *)
(* that somebody asked for by name or that one of these needs.             *)
(***************************************************************************)
EXTENDS IfUpDown

\* The stanzas that lines of the state file mark explicit.
Explicit(lines) == {lines[n].mapped : n \in {k \in DOMAIN lines : lines[k].explicit}}

ArgumentsOf(c) == {c.args[n].key : n \in DOMAIN c.args}

\* A command that is no mock run asks for something once its dependency query is
\* answered.
Asks(m) == m.pc \notin {"idle", "read"} /\ ~m.cmd.mock

Wanted(m) == CASE ~Asks(m) -> Explicit(ifstate)
               [] Asks(m) /\ m.pc = "flush" -> Explicit(m.state)
               [] OTHER -> IF m.cmd.up THEN Explicit(ifstate) \cup ArgumentsOf(m.cmd)
                                       ELSE Explicit(ifstate) \ ArgumentsOf(m.cmd)

\* The only process there is; its stanzas are used under their own names.
Shell == CHOOSE p \in Proc : TRUE

Promise == INSTANCE Requirements WITH
    Requires <- [i \in Iface |-> ToSet(Requires[i])],
    want <- Wanted(mem[Shell]),
    up <- {i \in Iface : phys[i] = "up"}

\* Executors that answer the dependency query, too: then a command that runs
\* always takes its next step.
AnsweredSpec == Spec /\ \A p \in Proc : WF_vars(Work(p))

\* After every command the interfaces that are up are those that were asked for by
\* name and not taken down since, with all these need; on the way there each comes
\* up after what it requires and goes down before it, except along a cycle; and
\* the command gets there.  Relates the counts in the state file, the explicit
\* marks and the recursion of lif_lifecycle_run over any sequence of commands.
KeepsPromise == Promise!Spec
=============================================================================
