------------------------------ MODULE IfUpDown ------------------------------
(***************************************************************************)
(* ifup and ifdown: cmd/ifupdown.c over libifupdown/lifecycle.c and        *)
(* libifupdown/state.c.  A process reads the state file, walks the named   *)
(* or the automatic interfaces, brings each one up or down together with   *)
(* the interfaces it requires, and rewrites the state file before it       *)
(* exits.  Several processes may run at once; what they share is the state *)
(* file, one advisory lock per name, and the interfaces of the kernel.     *)
(***************************************************************************)
EXTENDS IfState, FiniteSets

CONSTANTS
    Proc,             \* processes that run ifup or ifdown, one command at a time
    NoProc,           \* owner of a free lock
    NoIface,          \* an argument without "=stanza"; a stanza that is not there
    Requires,         \* the "requires" list of each stanza, dependency query done
    CollectionOrder,  \* the stanzas in the order lif_lifecycle_count_rdepends leaves
    IsAuto,           \* stanzas marked auto
    Matched,          \* stanzas that the include and exclude patterns of -a select
    Template,         \* template stanzas
    ConfigError,      \* stanzas with configuration errors
    Flaky,            \* <<stanza, phase>> pairs whose commands may fail
    Commands,         \* the command lines that are run
    WriteOutcomes,    \* {TRUE} if the state file can always be opened for writing
    MaxRuns,          \* bound: commands started in a behaviour
    MaxCrashes,       \* bound: processes killed in a behaviour
    Killable,         \* which commands are killed: {TRUE} for ifup only
    NoRepeatedDown,   \* TRUE: nobody takes down an interface that is not up
    DownAfter         \* stanzas an operator takes down before the given name

UpStages   == <<"depend", "create", "pre-up", "up", "post-up", "ref">>
DownStages == <<"pre-down", "down", "post-down", "destroy", "depend", "unref">>

Phases == {"create", "pre-up", "up", "post-up",
           "pre-down", "down", "post-down", "destroy"}

Argument == [key : Key, as : Iface \cup {NoIface}]

Command == [up : BOOLEAN, force : BOOLEAN, mock : BOOLEAN, nolock : BOOLEAN,
            auto : BOOLEAN, args : Seq(Argument)]

ASSUME ProcAssumption == NoProc \notin Proc /\ NoIface \notin Iface
ASSUME ConfigAssumption ==
    /\ Requires \in [Iface -> Seq(Iface)]
    /\ CollectionOrder \in Seq(Iface)
    /\ IsAuto \subseteq Iface
    /\ Matched \subseteq Iface
    /\ Template \subseteq Iface
    /\ ConfigError \subseteq Iface
ASSUME CommandAssumption ==
    /\ Commands \subseteq Command
    /\ WriteOutcomes \subseteq BOOLEAN
    /\ MaxRuns \in Nat
    /\ MaxCrashes \in Nat
    /\ Killable \subseteq BOOLEAN
    /\ NoRepeatedDown \in BOOLEAN
    /\ DownAfter \in [Key -> SUBSET Iface]

VARIABLES
    ifstate,   \* the lines of the state file
    lock,      \* the owner of the lock file of each name
    phys,      \* what the phases have made of each kernel interface
    mem,       \* the memory of each process
    runs,      \* commands started so far
    crashes    \* processes killed so far

vars == <<ifstate, lock, phys, mem, runs, crashes>>

PcState == {"idle", "read", "sync", "select", "locked", "run", "finish",
            "write", "flush"}

\* An activation of lif_lifecycle_run: stage reached, next dependent to visit.
Frame == [iface : Iface, key : Key, at : 1 .. 6, next : Nat \ {0}]

Memory == [pc       : PcState,
           cmd      : Command,
           input    : Seq(Record),              \* lines not parsed yet
           todo     : Seq(Argument),            \* arguments not handled yet
           target   : [key : Key \cup {NoIface}, iface : Iface \cup {NoIface}],
           state    : Seq(Record),              \* the dictionary
           refcount : [Iface -> Nat],           \* of each struct lif_interface
           explicit : [Iface -> BOOLEAN],
           pending  : SUBSET Iface,
           stack    : Seq(Frame),               \* innermost activation last
           ok       : BOOLEAN]                  \* the exit code so far

NoCommand == [up |-> TRUE, force |-> FALSE, mock |-> FALSE, nolock |-> FALSE,
              auto |-> FALSE, args |-> << >>]
NoTarget == [key |-> NoIface, iface |-> NoIface]

\* A process that starts: zero-initialised, except that handle_auto and
\* lif_interface_collection_init mark the automatic stanzas explicit.
Fresh(pc, cmd, input) ==
    [pc |-> pc, cmd |-> cmd, input |-> input, todo |-> << >>, target |-> NoTarget,
     state |-> << >>, refcount |-> [i \in Iface |-> 0],
     explicit |-> [i \in Iface |-> i \in IsAuto], pending |-> {}, stack |-> << >>,
     ok |-> TRUE]

Idle == Fresh("idle", NoCommand, << >>)

Init == /\ ifstate = << >>
        /\ lock = [k \in Key |-> NoProc]
        /\ phys = [k \in Key |-> "down"]
        /\ mem = [p \in Proc |-> Idle]
        /\ runs = 0
        /\ crashes = 0

-----------------------------------------------------------------------------
(* The memory of a process after a call: functions of memory m.  The       *)
(* variants named "Wrong..." are slips a programmer could make; the system *)
(* does not use them, they show that the properties can tell.              *)

\* The record that describes stanza i under the name k.
Describe(m, k, i) == [key |-> k, mapped |-> i, refcount |-> m.refcount[i],
                      explicit |-> m.explicit[i]]

RefIf(m, k, i) ==
    LET r == [m EXCEPT !.refcount[i] = @ + 1]
    IN  [r EXCEPT !.state = Upsert(@, Describe(r, k, i))]

WrongUnrefIf(m, k, i) ==    \* no test for zero: size_t wraps around
    LET r == [m EXCEPT !.refcount[i] = @ - 1]
    IN  [r EXCEPT !.state = IF r.refcount[i] > 0 THEN Upsert(@, Describe(r, k, i))
                                                 ELSE Delete(@, k)]

WrongUnrefKeeps(m, k, i) == \* an entry of count zero stays
    LET r == [m EXCEPT !.refcount[i] = @ - 1]
    IN  IF m.refcount[i] = 0 THEN m
        ELSE [r EXCEPT !.state = Upsert(@, Describe(r, k, i))]

UnrefIf(m, k, i) ==
    LET r == [m EXCEPT !.refcount[i] = @ - 1]
    IN  IF m.refcount[i] = 0 THEN m
        ELSE [r EXCEPT !.state = IF r.refcount[i] > 0
                                 THEN Upsert(@, Describe(r, k, i))
                                 ELSE Delete(@, k)]

WrongMarkExplicit(m, k, i) == [m EXCEPT !.explicit[i] = TRUE]  \* not recorded

MarkExplicit(m, k, i) ==
    LET r == [m EXCEPT !.explicit[i] = TRUE]
    IN  [r EXCEPT !.state = Upsert(@, Describe(r, k, i))]

Top(m) == m.stack[Len(m.stack)]
Stages(m) == IF m.cmd.up THEN UpStages ELSE DownStages
Stage(m) == Stages(m)[Top(m).at]
SetTop(m, f) == [m EXCEPT !.stack[Len(m.stack)] = f]

\* handle_dependents sets is_pending on entry and clears it on every return.
Advance(m) ==
    LET f == Top(m)
        n == SetTop(m, [f EXCEPT !.at = @ + 1])
    IN  [n EXCEPT !.pending = CASE Stage(m) = "depend" -> @ \ {f.iface}
                                [] Stage(n) = "depend" -> @ \cup {f.iface}
                                [] OTHER -> @]

NextDependent(m) == SetTop(m, [Top(m) EXCEPT !.next = @ + 1])

WrongCall(m, k, i) ==       \* the pending mark is forgotten
    [m EXCEPT !.pc = "run",
              !.stack = Append(@, [iface |-> i, key |-> k, at |-> 1, next |-> 1])]

\* Call lif_lifecycle_run: going up, handle_dependents is its first call.
Call(m, k, i) ==
    [m EXCEPT !.pc = "run",
              !.stack = Append(@, [iface |-> i, key |-> k, at |-> 1, next |-> 1]),
              !.pending = IF m.cmd.up THEN @ \cup {i} ELSE @]

WrongReturn(m) ==           \* the reference of the interface itself is forgotten
    [m EXCEPT !.stack = Front(@), !.pc = IF Len(m.stack) = 1 THEN "finish" ELSE @]

Return(m) ==
    LET f == Top(m)
        r == IF m.cmd.up THEN RefIf(m, f.key, f.iface) ELSE UnrefIf(m, f.key, f.iface)
    IN  [r EXCEPT !.stack = Front(@), !.pc = IF Len(m.stack) = 1 THEN "finish" ELSE @]

WrongLeave(m, ok) ==        \* a mock run writes, too
    [m EXCEPT !.pc = "write", !.ok = ok, !.todo = << >>, !.target = NoTarget]

\* update_state_file_and_exit: a mock run leaves without writing.
Leave(m, ok) ==
    IF m.cmd.mock THEN Idle
    ELSE [m EXCEPT !.pc = "write", !.ok = ok, !.todo = << >>, !.target = NoTarget]

\* The activations of lif_lifecycle_run that are inside handle_dependents.
InDependents(m) == {n \in DOMAIN m.stack : Stages(m)[m.stack[n].at] = "depend"}

WrongUnwound(m) ==          \* only the innermost handle_dependents clears its mark
    [m EXCEPT !.stack = << >>,
              !.pending = @ \ {m.stack[n].iface : n \in InDependents(m) \cap {Len(m.stack)}}]

\* lif_lifecycle_run returns false through all its activations: each of them that is
\* inside handle_dependents clears the mark of its own stanza.
Unwound(m) ==
    [m EXCEPT !.stack = << >>,
              !.pending = @ \ {m.stack[n].iface : n \in InDependents(m)}]

WrongFail(m) ==             \* -a goes on and forgets that one of many has failed
    IF m.cmd.auto THEN [Unwound(m) EXCEPT !.pc = "select", !.target = NoTarget]
                  ELSE Leave(Unwound(m), FALSE)

\* change_interface returns false: -a goes on, an argument list ends.
Fail(m) ==
    LET u == Unwound(m)
    IN  IF m.cmd.auto
        THEN [u EXCEPT !.pc = "select", !.ok = FALSE, !.target = NoTarget]
        ELSE Leave(u, FALSE)

Done(m) == [m EXCEPT !.pc = "select", !.target = NoTarget]

UsesLock(m) == ~m.cmd.mock /\ ~m.cmd.nolock

WrongReleased(self) == lock \* the lock file stays open

\* Closing a lock file, or exiting, gives up the lock.
Released(self) == [k \in Key |-> IF lock[k] = self THEN NoProc ELSE lock[k]]

\* The stanza an argument names: through the state first, "k=stanza" directly.
Resolve(m, a) ==
    CASE m.cmd.auto -> a.key
      [] ~m.cmd.auto /\ a.as # NoIface -> a.as
      [] ~m.cmd.auto /\ a.as = NoIface /\ HasRecord(m.state, a.key)
           -> RecordOf(m.state, a.key).mapped
      [] OTHER -> IF a.key \in Iface THEN a.key ELSE NoIface

WrongSkips(m) ==            \* configuration errors are not looked at
    LET i == m.target.iface
    IN  i \notin Template /\ ~m.cmd.force /\ (m.cmd.up <=> m.refcount[i] > 0)

WrongSkipsUp(m) ==          \* ifup does not look at the count
    LET i == m.target.iface
    IN  /\ i \notin Template
        /\ ~m.cmd.force
        /\ i \in ConfigError \/ (~m.cmd.up /\ m.refcount[i] = 0)

\* skip_interface: nothing is to be done (templates are refused later on).
Skips(m) ==
    LET i == m.target.iface
    IN  /\ i \notin Template
        /\ \/ i \in ConfigError /\ ~m.cmd.force
           \/ i \notin ConfigError /\ ~m.cmd.force /\ (m.cmd.up <=> m.refcount[i] > 0)

-----------------------------------------------------------------------------
(* The actions of one process.                                             *)

Update(self, m) == mem' = [mem EXCEPT ![self] = m]

At(self, pc) == mem[self].pc = pc

\* How the operator uses ifdown: restrictions that a run may impose.
Allowed(c) ==
    ~c.up =>
        \A n \in DOMAIN c.args :
            LET k == c.args[n].key
                earlier == {c.args[m].key : m \in 1 .. n - 1}
            IN  /\ NoRepeatedDown => phys[k] = "up"
                /\ \A i \in DownAfter[k] \ earlier : phys[i] = "down"

\* exec, and lif_state_read_path up to the read that fills the stdio buffer.
Start(self) ==
    /\ At(self, "idle")
    /\ runs < MaxRuns
    /\ \E c \in Commands :
           /\ Allowed(c)
           /\ Update(self, Fresh("read", c, ifstate))
    /\ runs' = runs + 1
    /\ UNCHANGED <<ifstate, lock, phys, crashes>>

\* lif_state_read, one line.
ReadLine(self) ==
    LET m == mem[self]
    IN  /\ At(self, "read")
        /\ m.input # << >>
        /\ Update(self, [m EXCEPT !.input = Tail(@),
                                  !.state = Upsert(@, ParsedLine(Head(m.input)))])
        /\ UNCHANGED <<ifstate, lock, phys, runs, crashes>>

\* Dependency query of all stanzas: a failing executor ends the process.
QueryDependents(self) ==
    LET m == mem[self]
        fails == \E i \in Iface : <<i, "query">> \in Flaky
    IN  /\ At(self, "read")
        /\ m.input = << >>
        /\ \/ Update(self, [m EXCEPT !.pc = "sync"])
           \/ fails /\ Update(self, Idle)
        /\ UNCHANGED <<ifstate, lock, phys, runs, crashes>>

\* change_auto_interfaces walks the sorted collection.
WrongAutomaticArguments ==  \* from the other end
    [n \in DOMAIN CollectionOrder |->
        [key |-> CollectionOrder[Len(CollectionOrder) + 1 - n], as |-> NoIface]]

AutomaticArguments ==
    [n \in DOMAIN CollectionOrder |-> [key |-> CollectionOrder[n], as |-> NoIface]]

SyncState(self) ==
    LET m == mem[self]
    IN  /\ At(self, "sync")
        /\ Update(self, [m EXCEPT !.pc = "select",
                                  !.refcount = SyncedRefcount(m.state),
                                  !.explicit = SyncedExplicit(m.state, m.explicit),
                                  !.todo = IF m.cmd.auto THEN AutomaticArguments
                                                         ELSE m.cmd.args])
        /\ UNCHANGED <<ifstate, lock, phys, runs, crashes>>

\* change_auto_interfaces: not automatic, excluded or not included.
PassOver(self) ==
    LET m == mem[self]
    IN  /\ At(self, "select")
        /\ m.todo # << >>
        /\ m.cmd.auto /\ Head(m.todo).key \notin IsAuto \cap Matched
        /\ Update(self, [m EXCEPT !.todo = Tail(@)])
        /\ UNCHANGED <<ifstate, lock, phys, runs, crashes>>

UnknownInterface(self) ==
    LET m == mem[self]
    IN  /\ At(self, "select")
        /\ m.todo # << >>
        /\ ~m.cmd.auto
        /\ Resolve(m, Head(m.todo)) = NoIface
        /\ Update(self, Leave(m, FALSE))
        /\ UNCHANGED <<ifstate, lock, phys, runs, crashes>>

\* acquire_state_lock: it never waits, a lock held by another one is an error.
AcquireLock(self) ==
    LET m == mem[self]
        a == Head(m.todo)
        i == Resolve(m, a)
        n == [m EXCEPT !.todo = Tail(@), !.target = [key |-> a.key, iface |-> i]]
    IN  /\ At(self, "select")
        /\ m.todo # << >>
        /\ m.cmd.auto => a.key \in IsAuto \cap Matched
        /\ i # NoIface
        /\ \/ /\ ~UsesLock(m)
              /\ Update(self, [n EXCEPT !.pc = "locked"])
              /\ UNCHANGED lock
           \/ /\ UsesLock(m)
              /\ lock[a.key] = NoProc
              /\ Update(self, [n EXCEPT !.pc = "locked"])
              /\ lock' = [lock EXCEPT ![a.key] = self]
           \/ /\ UsesLock(m)
              /\ lock[a.key] # NoProc
              /\ Update(self, Fail(n))
              /\ UNCHANGED lock
        /\ UNCHANGED <<ifstate, phys, runs, crashes>>

WrongSkipInterface(self) == \* the loop goes on without the next argument
    LET m == mem[self]
        t == m.target
    IN  /\ At(self, "locked")
        /\ Skips(m)
        /\ lock' = Released(self)
        /\ Update(self, [Done(m) EXCEPT !.todo = <<[key |-> t.key, as |-> NoIface]>> \o @])
        /\ UNCHANGED <<ifstate, phys, runs, crashes>>

\* change_interface up to lif_lifecycle_run.
SkipInterface(self) ==
    LET m == mem[self]
        t == m.target
    IN  /\ At(self, "locked")
        /\ Skips(m)
        /\ lock' = Released(self)
        /\ Update(self, Done(IF m.cmd.up /\ ~m.cmd.auto /\ t.iface \notin ConfigError
                             THEN MarkExplicit(m, t.key, t.iface) ELSE m))
        /\ UNCHANGED <<ifstate, phys, runs, crashes>>

ChangeInterface(self) ==
    LET m == mem[self]
        t == m.target
    IN  /\ At(self, "locked")
        /\ ~Skips(m)
        /\ \/ /\ t.iface \in Template
              /\ Update(self, Fail(m))
              /\ lock' = Released(self)
           \/ /\ t.iface \notin Template
              /\ Update(self, Call(m, t.key, t.iface))
              /\ UNCHANGED lock
        /\ UNCHANGED <<ifstate, phys, runs, crashes>>

\* One iteration of handle_dependents.
Dependent(m) == Requires[Top(m).iface][Top(m).next]

AtDependent(self) ==
    LET m == mem[self]
    IN  /\ At(self, "run")
        /\ Stage(m) = "depend"
        /\ Top(m).next <= Len(Requires[Top(m).iface])

SkipBrokenDependent(self) ==
    LET m == mem[self]
    IN  /\ AtDependent(self)
        /\ Dependent(m) \in ConfigError /\ ~m.cmd.force
        /\ Update(self, NextDependent(m))
        /\ UNCHANGED <<ifstate, lock, phys, runs, crashes>>

\* d was counted from memory m to c: what handle_refcounting returns, and the
\* test for explicit interfaces after it.
WrongSettled(m, c, d) ==    \* one other dependent is overlooked
    IF m.cmd.up THEN m.refcount[d] > 0 ELSE c.refcount[d] > 2 \/ c.explicit[d]

Settled(m, c, d) ==
    IF m.cmd.up THEN m.refcount[d] > 0 ELSE c.refcount[d] > 1 \/ c.explicit[d]

\* handle_refcounting, then the recursive call unless there is a reason not to.
ChangeDependent(self) ==
    LET m == mem[self]
        d == Dependent(m)
        c == IF m.cmd.up THEN RefIf(m, d, d) ELSE UnrefIf(m, d, d)
        settled == Settled(m, c, d)
    IN  /\ AtDependent(self)
        /\ d \notin ConfigError \/ m.cmd.force
        /\ \/ /\ settled \/ d \in m.pending
              /\ Update(self, NextDependent(c))
              /\ UNCHANGED lock
           \/ /\ ~settled /\ d \notin m.pending /\ d \in Template
              /\ Update(self, Fail(c))
              /\ lock' = Released(self)
           \/ /\ ~settled /\ d \notin m.pending /\ d \notin Template
              /\ Update(self, Call(NextDependent(c), d, d))
              /\ UNCHANGED lock
        /\ UNCHANGED <<ifstate, phys, runs, crashes>>

DependentsDone(self) ==
    LET m == mem[self]
    IN  /\ At(self, "run")
        /\ Stage(m) = "depend"
        /\ Top(m).next > Len(Requires[Top(m).iface])
        /\ Update(self, Advance(m))
        /\ UNCHANGED <<ifstate, lock, phys, runs, crashes>>

\* What a phase leaves of the kernel interface (a mock run executes nothing).
PhaseEffect(m, good) ==
    CASE m.cmd.mock -> phys[Top(m).key]
      [] ~m.cmd.mock /\ good /\ Stage(m) = "post-up" -> "up"
      [] ~m.cmd.mock /\ good /\ Stage(m) = "destroy" -> "down"
      [] OTHER -> "partial"

\* lif_lifecycle_run_phase: executors and commands of the phase.
RunPhase(self) ==
    LET m == mem[self]
    IN  /\ At(self, "run")
        /\ Stage(m) \in Phases
        /\ \E good \in BOOLEAN :
               /\ ~good => <<Top(m).iface, Stage(m)>> \in Flaky /\ ~m.cmd.mock
               /\ phys' = [phys EXCEPT ![Top(m).key] = PhaseEffect(m, good)]
               /\ Update(self, IF good THEN Advance(m) ELSE Fail(m))
               /\ lock' = IF good THEN lock ELSE Released(self)
        /\ UNCHANGED <<ifstate, runs, crashes>>

\* The last statement of lif_lifecycle_run and its return.
ReturnFromRun(self) ==
    LET m == mem[self]
    IN  /\ At(self, "run")
        /\ Stage(m) \in {"ref", "unref"}
        /\ Update(self, Return(m))
        /\ UNCHANGED <<ifstate, lock, phys, runs, crashes>>

\* The rest of change_interface.
FinishInterface(self) ==
    LET m == mem[self]
    IN  /\ At(self, "finish")
        /\ lock' = Released(self)
        /\ Update(self, Done(IF m.cmd.up /\ ~m.cmd.auto
                             THEN MarkExplicit(m, m.target.key, m.target.iface)
                             ELSE m))
        /\ UNCHANGED <<ifstate, phys, runs, crashes>>

\* update_state_file_and_exit after the last interface.
NoMoreTargets(self) ==
    LET m == mem[self]
    IN  /\ At(self, "select")
        /\ m.todo = << >>
        /\ Update(self, Leave(m, m.ok))
        /\ UNCHANGED <<ifstate, lock, phys, runs, crashes>>

\* lif_state_write_path: fopen truncates the file, fclose writes it.
OpenStateFile(self) ==
    LET m == mem[self]
    IN  /\ At(self, "write")
        /\ \E good \in WriteOutcomes :
               IF good THEN /\ ifstate' = << >>
                            /\ Update(self, [m EXCEPT !.pc = "flush"])
                       ELSE /\ Update(self, Idle)
                            /\ UNCHANGED ifstate
        /\ UNCHANGED <<lock, phys, runs, crashes>>

FlushStateFile(self) ==
    /\ At(self, "flush")
    /\ ifstate' = Overwrite(ifstate, mem[self].state)
    /\ Update(self, Idle)
    /\ UNCHANGED <<lock, phys, runs, crashes>>

\* A process is killed: the kernel releases its locks.
Crash(self) ==
    /\ ~At(self, "idle")
    /\ mem[self].cmd.up \in Killable
    /\ crashes < MaxCrashes
    /\ Update(self, Idle)
    /\ lock' = Released(self)
    /\ crashes' = crashes + 1
    /\ UNCHANGED <<ifstate, phys, runs>>

Work(self) ==
    \/ ReadLine(self) \/ QueryDependents(self) \/ SyncState(self)
    \/ PassOver(self) \/ UnknownInterface(self) \/ AcquireLock(self)
    \/ SkipInterface(self) \/ ChangeInterface(self)
    \/ SkipBrokenDependent(self) \/ ChangeDependent(self) \/ DependentsDone(self)
    \/ RunPhase(self) \/ ReturnFromRun(self) \/ FinishInterface(self)
    \/ NoMoreTargets(self) \/ OpenStateFile(self) \/ FlushStateFile(self)

\* No command runs: the system may rest.
Rest == (\A p \in Proc : At(p, "idle")) /\ UNCHANGED vars

Next == Rest \/ \E self \in Proc : Start(self) \/ Work(self) \/ Crash(self)

Spec == Init /\ [][Next]_vars

(***************************************************************************)
(* A running process is scheduled, and process_monitor kills a command that*)
(* exceeds the timeout, so all its steps but one go on.  The exception is  *)
(* QueryDependents: lif_execute_fmt_with_result polls without a limit.     *)
(***************************************************************************)
TimedWork(self) == Work(self) /\ ~(At(self, "read") /\ mem[self].input = << >>)

FairSpec == Spec /\ \A p \in Proc : WF_vars(TimedWork(p))

-----------------------------------------------------------------------------
(* Properties.                                                             *)

\* Every variable stays in its type: the types of state.h, interface.h and of
\* the locals of ifupdown_main and lif_lifecycle_run.
TypeOK == /\ ifstate \in Seq(Record)
          /\ lock \in [Key -> Proc \cup {NoProc}]
          /\ phys \in [Key -> {"down", "partial", "up"}]
          /\ mem \in [Proc -> Memory]
          /\ runs \in Nat
          /\ crashes \in Nat

Holds(m, k) == UsesLock(m) /\ m.pc \in {"locked", "run", "finish"} /\ m.target.key = k

\* A lock file is locked by exactly the process that is between acquire_state_lock
\* and the close in change_interface for that name: no exit path of
\* change_interface leaks the lock, and two processes never change one name.
LockOwnership == \A k \in Key, p \in Proc : lock[k] = p <=> Holds(mem[p], k)

\* is_pending marks exactly the stanzas whose handle_dependents is active: it is
\* cleared on every way out, failures included.
MarksActive(m) == m.pending = {m.stack[n].iface : n \in InDependents(m)}
PendingIsActive == \A p \in Proc : MarksActive(mem[p])

\* A stanza never runs inside its own activation, whatever cycles the requires
\* lists have: the recursion of lif_lifecycle_run is at most one deep per stanza.
NestsOnce(m) ==
    \A a, b \in DOMAIN m.stack : m.stack[a].iface = m.stack[b].iface => a = b
NoReentry == \A p \in Proc : NestsOnce(mem[p])

\* The dictionary has one entry per name and no entry of count zero, even when
\* the state file it was read from has repeated lines.
DictionaryOK == \A p \in Proc : IsDictionary(mem[p].state)

Synced(m) == m.pc \notin {"idle", "read", "sync"}

\* lif_state_ref_if and lif_state_unref_if keep two copies of each count, one in
\* the dictionary and one in struct lif_interface, and they never drift apart
\* (as long as every stanza is used under its own name only).
CopiesAgree ==
    \A p \in Proc : Synced(mem[p]) =>
        \A i \in Iface :
            IF mem[p].refcount[i] = 0 THEN ~HasRecord(mem[p].state, i)
            ELSE /\ HasRecord(mem[p].state, i)
                 /\ RecordOf(mem[p].state, i) = Describe(mem[p], i, i)

Quiet == \A p \in Proc : At(p, "idle")

Recorded(i) == IF HasRecord(ifstate, i) THEN RecordOf(ifstate, i).refcount ELSE 0

Requirers(i) == {r \in Iface : phys[r] = "up" /\ i \in ToSet(Requires[r])}

\* What lif_lifecycle_run makes of a refcount: one reference of the interface itself
\* (lifecycle.c:476 and 496), one of each stanza that requires it (lifecycle.c:349).
Owed(i) == Cardinality(Requirers(i)) + IF phys[i] = "up" THEN 1 ELSE 0

\* Whatever sequence of ifup and ifdown has run, the state file counts exactly
\* the interfaces that keep each interface up, dependency cycles included.
RefcountExact == Quiet => \A i \in Iface : Recorded(i) = Owed(i)

\* A killed ifup leaves interfaces unrecorded, but what is recorded is there.
RefcountNeverOver == Quiet => \A i \in Iface : Recorded(i) <= Owed(i)

\* A stanza's own phases run only when all it requires is up, except for what is
\* waiting for it further up a dependency cycle, itself included.
RequiredUpFirst ==
    \A p \in Proc : LET m == mem[p] IN
        m.pc = "run" /\ m.cmd.up /\ ~m.cmd.mock /\ Stage(m) # "depend" =>
            \A d \in ToSet(Requires[Top(m).iface]) \ (m.pending \cup {Top(m).iface}) :
                phys[d] = "up"

TearsDown(m) == m.pc = "run" /\ ~m.cmd.up /\ ~m.cmd.mock /\ Stage(m) \in Phases

\* handle_dependents, and change_auto_interfaces in the order of the dependency
\* sort, never take down an interface that another one requires that is up and
\* recorded (a killed ifup leaves interfaces that are up without a record).
NoTeardownWhileRequired ==
    \A p \in Proc : LET m == mem[p] IN
        TearsDown(m) /\ (Len(m.stack) > 1 \/ m.cmd.auto) =>
            ~\E r \in Requirers(Top(m).iface) : HasRecord(m.state, r)

\* What a command line asks for: stanzas with configuration errors are passed over
\* with success, and with -a the names of the command line are ignored.
WantedBy(c) ==
    (IF c.auto THEN ToSet(CollectionOrder) \cap IsAuto \cap Matched
               ELSE {c.args[n].key : n \in DOMAIN c.args})
    \ (IF c.force THEN {} ELSE ConfigError)

\* The exit code is honest, whatever fails on the way and though -a goes on after
\* a failure.  When ifup exits with success, the file it leaves has a record of
\* everything it was asked for, explicit if it was named; when ifdown does,
\* everything it was asked for is down or was not recorded.
SuccessIsRecorded ==
    [][\A p \in Proc : LET m == mem[p] IN
        m.pc = "flush" /\ mem'[p].pc = "idle" /\ m.ok /\ crashes' = crashes =>
            \A k \in WantedBy(m.cmd) :
                IF m.cmd.up
                THEN /\ HasRecord(ifstate', k)
                     /\ ~m.cmd.auto => RecordOf(ifstate', k).explicit
                ELSE HasRecord(ifstate', k) => phys[k] = "down"]_vars

\* However an interface is reached, by name, through an alias, as a dependent or
\* by -a: no phase runs on a template, and on a stanza with configuration errors
\* only under --force.
OnlyConfigurable ==
    \A p \in Proc : LET m == mem[p] IN
        m.pc = "run" => /\ Top(m).iface \notin Template
                        /\ Top(m).iface \in ConfigError => m.cmd.force

\* A mock run changes nothing outside of its own memory.
MockIsInert ==
    [][\A p \in Proc : mem[p].cmd.mock /\ mem'[p] # mem[p] =>
        UNCHANGED <<ifstate, lock, phys>>]_vars

\* Every ifup and ifdown exits once its dependency query has, although others hold
\* its locks, fail or are killed meanwhile: acquire_state_lock does not wait, and
\* an interface whose lock is taken fails at once.
Termination ==
    \A p \in Proc : mem[p].pc \notin {"idle", "read"} ~> mem[p].pc = "idle"

-----------------------------------------------------------------------------
(* What the documentation says and the code does not keep up.              *)

\* "serialize state changes" (multicall-exec-options.c:91, the help of -L): at
\* rest every interface that is up has a record.
UpIsRecorded == Quiet => \A i \in Iface : phys[i] = "up" => HasRecord(ifstate, i)
=============================================================================
