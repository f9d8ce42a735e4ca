------------------------------ MODULE Execute ------------------------------
(***************************************************************************)
(* libifupdown/execute.c: a command runs in a child process and is waited  *)
(* for, until it exits or its timeout is over.  lif_execute_fmt looks at   *)
(* the exit code only; lif_execute_fmt_with_result first reads what the    *)
(* child prints.  A child prints, exits or hangs as it likes; time passes  *)
(* in the 50 ms slices of the busy loop.                                   *)
(***************************************************************************)
EXTENDS Integers, SequencesExt

CONSTANTS
    Says,            \* what a child may print, chunk by chunk, before it exits
    Kernels,         \* TRUE: pidfd_open is there, FALSE: it is not
    Timeouts,        \* values of --timeout, in seconds
    TicksPerSecond,  \* 20 in the code
    MillisPerTick,   \* 50 in the code
    IntMax,          \* INT_MAX
    MaxFds,          \* descriptors the process may open
    SpawnFails,      \* TRUE if posix_spawn may fail
    Lingers,         \* TRUE if a child may leave a process that keeps its stdout
    Faulty           \* TRUE: poll and read may fail, FALSE: they do not

ASSUME ExecuteAssumption ==
    /\ Kernels \subseteq BOOLEAN /\ Faulty \subseteq BOOLEAN /\ Timeouts \subseteq Nat
    /\ TicksPerSecond \in Nat \ {0} /\ MillisPerTick \in Nat \ {0}
    /\ IntMax \in Nat /\ MaxFds \in Nat
    /\ SpawnFails \in BOOLEAN /\ Lingers \in BOOLEAN
    /\ \A s \in Says : s \in Seq(STRING)

VARIABLES
    call,   \* lif_execute_fmt, lif_execute_fmt_with_result and the monitor
    child,  \* the child process
    pipe,   \* the pipe from the child
    fds,    \* descriptors open
    host    \* the kernel's abilities and --timeout: these do not change

xvars == <<call, child, pipe, fds, host>>

CallPc == {"idle", "pipe", "spawn", "answer", "open", "poll", "check", "sleep", "kill",
           "done"}

Call == [pc    : CallPc,
         asks  : BOOLEAN,                      \* with_result
         heard : Seq(STRING),                  \* resbuf
         ticks : Nat,                          \* since the monitor began
         via   : {"pidfd", "blind", "busy"},   \* how the child is watched
         ret   : BOOLEAN]

\* "zombie": exited, but not waited for; "lost": running or exited, and never
\* waited for again; says, good and at are ghosts.
Child == [is : {"none", "running", "zombie", "lost"}, left : Seq(STRING), says : Seq(STRING),
          good : BOOLEAN, at : Nat]

Pipe == [text : Seq(STRING), open : BOOLEAN]

Host == [pidfd : Kernels, faulty : Faulty, timeout : Timeouts]

NoCall == [pc |-> "idle", asks |-> FALSE, heard |-> << >>, ticks |-> 0, via |-> "busy",
           ret |-> TRUE]
NoChild == [is |-> "none", left |-> << >>, says |-> << >>, good |-> FALSE, at |-> 0]
NoPipe == [text |-> << >>, open |-> FALSE]

ExecuteInit == /\ call = NoCall /\ child = NoChild /\ pipe = NoPipe /\ fds = 0
               /\ host \in Host

-----------------------------------------------------------------------------
(* The process that calls.                                                 *)

\* Arithmetic of int: two's complement wraps around.
Wrapped(n) == ((n + IntMax + 1) % (2 * (IntMax + 1))) - (IntMax + 1)

WrongPollLimit == Wrapped(host.timeout)    \* seconds are not converted

\* poll(timeout_sec * 1000), counted in slices; negative: no limit.
PollLimit == Wrapped(host.timeout * TicksPerSecond * MillisPerTick) \div MillisPerTick
\* ticks < timeout_sec * 20
BusyLimit == Wrapped(host.timeout * TicksPerSecond)

TimeoutFits == host.timeout * TicksPerSecond * MillisPerTick <= IntMax

At(pc) == call.pc = pc
Done(good) == [call EXCEPT !.pc = "done", !.ret = good]
Awaited == child.is \in {"running", "zombie"}    \* the monitor is to wait for it

Execute(query) ==
    /\ At("idle")
    /\ call' = [NoCall EXCEPT !.pc = IF query THEN "pipe" ELSE "spawn", !.asks = query]
    /\ child' = NoChild /\ pipe' = NoPipe
    /\ UNCHANGED <<fds, host>>

WrongOpenPipe ==     \* room for one is taken for enough
    /\ At("pipe")
    /\ IF fds < MaxFds
       THEN call' = [call EXCEPT !.pc = "spawn"] /\ fds' = fds + 2
       ELSE call' = Done(FALSE) /\ UNCHANGED fds
    /\ UNCHANGED <<child, pipe, host>>

\* pipe() fails when there is no room for two more descriptors.
OpenPipe ==
    /\ At("pipe")
    /\ IF fds + 2 <= MaxFds
       THEN call' = [call EXCEPT !.pc = "spawn"] /\ fds' = fds + 2
       ELSE call' = Done(FALSE) /\ UNCHANGED fds
    /\ UNCHANGED <<child, pipe, host>>

\* Of the pipe, the read end stays open for good, and after a failure both ends.
SpawnFailure ==
    /\ At("spawn") /\ SpawnFails
    /\ call' = Done(FALSE)
    /\ UNCHANGED <<child, pipe, fds, host>>

Spawn ==
    /\ At("spawn")
    /\ \E s \in IF call.asks THEN Says ELSE {<< >>} :
           child' = [NoChild EXCEPT !.is = "running", !.left = s, !.says = s]
    /\ call' = [call EXCEPT !.pc = IF call.asks THEN "answer" ELSE "open"]
    /\ pipe' = [NoPipe EXCEPT !.open = call.asks]
    /\ fds' = IF call.asks THEN fds - 1 ELSE fds
    /\ UNCHANGED host

WrongReadAnswer ==   \* read without poll, on a pipe that does not block
    /\ At("answer")
    /\ call' = [call EXCEPT !.pc = "open", !.heard = pipe.text]
    /\ pipe' = [pipe EXCEPT !.text = << >>]
    /\ UNCHANGED <<child, fds, host>>

\* poll without a limit for text or for the end of it, then one read.
ReadAnswer ==
    /\ At("answer")
    /\ pipe.text # << >> \/ ~pipe.open
    /\ call' = [call EXCEPT !.pc = "open", !.heard = pipe.text]
    /\ pipe' = [pipe EXCEPT !.text = << >>]
    /\ UNCHANGED <<child, fds, host>>

\* pidfd_open: only ENOSYS leads to the busy loop; when there is no descriptor
\* left, poll gets the descriptor -1 and sees nothing.
OpenPidfd ==
    /\ At("open")
    /\ LET via == CASE ~host.pidfd -> "busy"
                    [] host.pidfd /\ fds < MaxFds -> "pidfd"
                    [] OTHER -> "blind"
       IN  /\ call' = [call EXCEPT !.pc = IF via = "busy" THEN "check" ELSE "poll",
                                   !.via = via]
           /\ fds' = IF via = "pidfd" THEN fds + 1 ELSE fds
    /\ UNCHANGED <<child, pipe, host>>

Reaped == [child EXCEPT !.is = "none"]

\* poll tells that the child has exited: waitpid, and the pidfd is closed.
PollReady ==
    /\ At("poll") /\ call.via = "pidfd" /\ child.is = "zombie"
    /\ call' = Done(child.good) /\ child' = Reaped
    /\ fds' = fds - 1
    /\ UNCHANGED <<pipe, host>>

PollTick ==
    /\ At("poll") /\ call.ticks < PollLimit
    /\ call.via = "blind" \/ child.is = "running"
    /\ call' = [call EXCEPT !.ticks = @ + 1]
    /\ UNCHANGED <<child, pipe, fds, host>>

PollTimeout ==
    /\ At("poll") /\ PollLimit >= 0 /\ call.ticks >= PollLimit
    /\ call.via = "blind" \/ child.is = "running"
    /\ call' = [call EXCEPT !.pc = "kill"]
    /\ UNCHANGED <<child, pipe, fds, host>>

\* One round of the busy loop: look at once, then sleep for the rest of the slice.
BusyCheck ==
    /\ At("check")
    /\ CASE call.ticks >= BusyLimit ->
              call' = [call EXCEPT !.pc = "kill"] /\ UNCHANGED child
         [] call.ticks < BusyLimit /\ child.is = "zombie" ->
              call' = Done(child.good) /\ child' = Reaped
         [] OTHER -> call' = [call EXCEPT !.pc = "sleep"] /\ UNCHANGED child
    /\ UNCHANGED <<pipe, fds, host>>

WrongBusySleep ==    \* ticks is not counted
    /\ At("sleep")
    /\ call' = [call EXCEPT !.pc = "check"]
    /\ UNCHANGED <<child, pipe, fds, host>>

BusySleep ==
    /\ At("sleep")
    /\ call' = [call EXCEPT !.pc = "check", !.ticks = @ + 1]
    /\ UNCHANGED <<child, pipe, fds, host>>

WrongKillChild ==    \* kill without waitpid
    /\ At("kill")
    /\ call' = Done(FALSE) /\ child' = [child EXCEPT !.is = "zombie"]
    /\ UNCHANGED <<pipe, fds, host>>

\* kill(SIGKILL) and waitpid; a pidfd stays open.  What the child has started
\* itself lives on.
KillChild ==
    /\ At("kill")
    /\ call' = Done(FALSE) /\ child' = Reaped
    /\ UNCHANGED <<pipe, fds, host>>

\* Signals or a shortage: the monitor's poll fails and is taken for a timeout,
WatchFails ==
    /\ At("poll") /\ host.faulty
    /\ call' = [call EXCEPT !.pc = "kill", !.via = "blind"]
    /\ UNCHANGED <<child, pipe, fds, host>>

\* the poll for an answer fails and nothing is read, but the child is watched,
NoAnswer ==
    /\ At("answer") /\ host.faulty
    /\ call' = [call EXCEPT !.pc = "open"]
    /\ UNCHANGED <<child, pipe, fds, host>>

\* or the read fails: the query does, and nobody watches or reaps its child.
ReadFails ==
    /\ At("answer") /\ host.faulty
    /\ pipe.text # << >> \/ ~pipe.open
    /\ call' = Done(FALSE)
    /\ child' = [child EXCEPT !.is = "lost"]
    /\ UNCHANGED <<pipe, fds, host>>

Faults == WatchFails \/ NoAnswer \/ ReadFails

Caller == \/ OpenPipe \/ SpawnFailure \/ Spawn \/ ReadAnswer \/ OpenPidfd
          \/ PollReady \/ PollTick \/ PollTimeout \/ BusyCheck \/ BusySleep
          \/ KillChild

-----------------------------------------------------------------------------
(* The child, and what it leaves behind.                                   *)

Prints ==
    /\ child.left # << >> /\ (child.is = "running" \/ pipe.open)
    /\ child' = [child EXCEPT !.left = Tail(@)]
    /\ pipe' = [pipe EXCEPT !.text = Append(@, Head(child.left))]
    /\ UNCHANGED <<call, fds, host>>

\* A program that succeeds has printed all, or left a process that does.
Exits ==
    /\ child.is = "running"
    /\ \E good \in BOOLEAN, lingers \in {FALSE} \cup IF Lingers THEN {pipe.open} ELSE {} :
           /\ good => child.left = << >> \/ lingers
           /\ child' = [child EXCEPT !.is = "zombie", !.good = good, !.at = call.ticks,
                                     !.left = IF lingers THEN @ ELSE << >>]
           /\ pipe' = [pipe EXCEPT !.open = lingers]
    /\ UNCHANGED <<call, fds, host>>

LingererExits ==
    /\ child.is # "running" /\ pipe.open /\ child.left = << >>
    /\ pipe' = [pipe EXCEPT !.open = FALSE]
    /\ UNCHANGED <<call, child, fds, host>>

Children == Prints \/ Exits \/ LingererExits
=============================================================================
