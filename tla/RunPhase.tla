------------------------------ MODULE RunPhase ------------------------------
(***************************************************************************)
(* lif_lifecycle_run_phase and lif_lifecycle_query_dependents down to the  *)
(* child processes: the loops over the variables of an interface that run  *)
(* its executors ("use"), the commands given for the phase and the addon   *)
(* scripts, with Execute for each of them.                                 *)
(***************************************************************************)
EXTENDS Execute, Selection

CONSTANTS
    Variables,   \* the variables of interfaces: sequences of entries
    Installed,   \* executors that are there and executable
    Jobs,        \* what lifecycle.c is asked to do, see Job
    Addon,       \* allow_addon_scripts, and /etc/network/if-<phase>.d exists
    MaxJobs      \* bound: phases and queries in a behaviour

Entry == [key : STRING, cmd : STRING]

\* "depend": the dependency query, which ignores mock and up.
Phases == {"depend", "create", "pre-up", "up", "post-up",
           "pre-down", "down", "post-down", "destroy"}

Job == [phase : Phases, up : BOOLEAN, mock : BOOLEAN]

RunParts == [key |-> "addon", cmd |-> "run-parts"]
NoEntry == [key |-> "", cmd |-> ""]
NoJob == [phase |-> "", up |-> TRUE, mock |-> FALSE]

ASSUME PhaseAssumption ==
    /\ \A v \in Variables : v \in Seq(Entry)
    /\ Jobs \subseteq Job
    /\ Addon \in BOOLEAN
    /\ MaxJobs \in Nat

VARIABLES
    entries,  \* the interface's variables
    job,      \* the job at hand, or the last one
    loop,     \* "none", or the loop that runs: "use", "command", "addon"
    left,     \* entries the loop has still to visit
    item,     \* the entry whose program is executed
    verdict,  \* the result of the last job
    learned,  \* what the last query appended to the requires list
    jobs      \* jobs so far

pvars == <<entries, job, loop, left, item, verdict, learned, jobs>>
vars == <<xvars, pvars>>

Query(j) == j.phase = "depend"
IsUse(e) == e.key = "use"

Init == /\ ExecuteInit
        /\ entries \in Variables
        /\ job = NoJob
        /\ loop = "none" /\ left = << >> /\ item = NoEntry
        /\ verdict = TRUE /\ learned = << >> /\ jobs = 0

WrongExecutors(j) == entries                 \* down in the same order as up
Executors(j) == IF Query(j) \/ j.up THEN entries ELSE Reverse(entries)

Begin ==
    /\ loop = "none" /\ jobs < MaxJobs
    /\ \E j \in Jobs : job' = j /\ left' = Executors(j)
    /\ loop' = "use" /\ item' = NoEntry /\ learned' = << >> /\ jobs' = jobs + 1
    /\ UNCHANGED <<xvars, entries, verdict>>

\* Entry e has a program to run in loop l of job j.
Runs(j, l, e) == /\ CASE l = "use" -> IsUse(e) /\ e.cmd \in Installed
                      [] l = "command" -> e.key = j.phase
                      [] OTHER -> TRUE
                 /\ Query(j) \/ ~j.mock

Visiting == loop # "none" /\ At("idle") /\ left # << >>

PassOver == /\ Visiting /\ ~Runs(job, loop, Head(left))
            /\ left' = Tail(left)
            /\ UNCHANGED <<xvars, entries, job, loop, item, verdict, learned, jobs>>

RunProgram == /\ Visiting /\ Runs(job, loop, Head(left))
              /\ Execute(Query(job))
              /\ item' = Head(left) /\ left' = Tail(left)
              /\ UNCHANGED <<entries, job, loop, verdict, learned, jobs>>

Finish(good) == loop' = "none" /\ left' = << >> /\ item' = NoEntry /\ verdict' = good

\* The rest of the loop's body: the first failure ends the job, but the addon
\* scripts are not asked how it went.
WrongProgramReturns ==                       \* goes on after a failure
    /\ At("done")
    /\ call' = [call EXCEPT !.pc = "idle"]
    /\ learned' = IF Query(job) THEN learned \o call.heard ELSE learned
    /\ item' = NoEntry
    /\ UNCHANGED <<child, pipe, fds, host, entries, job, loop, left, verdict, jobs>>

ProgramReturns ==
    /\ At("done")
    /\ call' = [call EXCEPT !.pc = "idle"]
    /\ IF call.ret \/ item = RunParts
       THEN /\ learned' = IF Query(job) THEN learned \o call.heard ELSE learned
            /\ item' = NoEntry
            /\ UNCHANGED <<loop, left, verdict>>
       ELSE Finish(FALSE) /\ UNCHANGED learned
    /\ UNCHANGED <<child, pipe, fds, host, entries, job, jobs>>

EndOfLoop ==
    /\ loop # "none" /\ At("idle") /\ left = << >>
    /\ CASE loop = "use" /\ ~Query(job) ->
              loop' = "command" /\ left' = entries /\ UNCHANGED <<item, verdict>>
         [] loop = "command" /\ Addon ->
              loop' = "addon" /\ left' = <<RunParts>> /\ UNCHANGED <<item, verdict>>
         [] OTHER -> Finish(TRUE)
    /\ UNCHANGED <<xvars, entries, job, learned, jobs>>

Program == \/ PassOver \/ RunProgram \/ ProgramReturns \/ EndOfLoop
           \/ Caller /\ UNCHANGED pvars

\* Nothing to do; or poll waits for no descriptor and without a limit.
Rest == /\ loop = "none" \/ (At("poll") /\ call.via = "blind" /\ PollLimit < 0)
        /\ UNCHANGED vars

Next == \/ Begin \/ Program \/ Rest
        \/ (Faults \/ Children) /\ UNCHANGED pvars

Spec == Init /\ [][Next]_vars

\* ifup is scheduled and time passes; children, what they leave and faults come as
\* they like.
FairSpec == Spec /\ WF_vars(Program)

-----------------------------------------------------------------------------
(* Properties.                                                             *)

\* Every variable stays in its type.  The counter of descriptors never exceeds the
\* limit, although each query leaves one open.
TypeOK == /\ call \in Call /\ child \in Child /\ pipe \in Pipe /\ host \in Host
          /\ fds \in 0 .. MaxFds
          /\ entries \in Variables /\ job \in Jobs \cup {NoJob}
          /\ loop \in {"none", "use", "command", "addon"}
          /\ item \in Entry \cup {RunParts, NoEntry}
          /\ left \in Seq(Entry \cup {RunParts}) /\ learned \in Seq(STRING)
          /\ verdict \in BOOLEAN /\ jobs \in 0 .. MaxJobs

Addons == IF Addon THEN <<RunParts>> ELSE << >>
NotStarted == IF call.pc \in {"pipe", "spawn"} THEN <<item>> ELSE << >>
HasFailed == At("done") /\ ~call.ret /\ item # RunParts
RestOf(j, l, s) == Chosen(s, {e \in ToSet(s) : Runs(j, l, e)})
LaterLoops ==
    CASE loop = "use" /\ ~Query(job) ->
           RestOf(job, "command", entries) \o RestOf(job, "addon", Addons)
      [] loop = "command" -> RestOf(job, "addon", Addons)
      [] OTHER -> << >>
Ahead == RestOf(job, loop, left) \o LaterLoops
StillToRun == IF HasFailed THEN << >> ELSE NotStarted \o Ahead
Stray == [key |-> "stray", cmd |-> ""]
Running == CASE ~Awaited -> NoEntry
             [] Awaited /\ item # NoEntry -> item
             [] OTHER -> Stray

Promise == INSTANCE PhasePromise WITH
    Nothing <- NoEntry,
    busy    <- loop # "none",
    plan    <- StillToRun,
    current <- Running,
    failed  <- HasFailed

\* The loops of lifecycle.c over the ways out of execute.c, timeouts, failing
\* spawns and missing descriptors included, run the programs of a phase as
\* PhasePromise says: in order, one at a time, none after a failure and none left
\* running or unreaped, save the executor of a query whose answer cannot be read:
\* the query fails at once and forgets it.
KeepsPhasePromise == Promise!Spec

WatchedUntil == IF call.via = "busy" THEN host.timeout * TicksPerSecond - 1
                                     ELSE host.timeout * TicksPerSecond

\* Whatever the monitor's timing, a program counts as good only if it exited with
\* success; and one that does so before its timeout counts as good, if it leaves the
\* busy loop a last slice to look, if the timeout fits into an int and if it could
\* be watched: there was a descriptor left, and neither poll nor read failed.
InTimeHonoured ==
    At("done") =>
        /\ call.ret => child.good
        /\ child.good /\ child.at < WatchedUntil /\ TimeoutFits
           /\ call.via # "blind" /\ child.is # "lost" => call.ret

\* What a successful query has read is the beginning of what the executor printed,
\* and all of it if it was printed in one piece and poll did not fail.
HeardInOnePiece ==
    At("done") /\ call.asks /\ call.ret =>
        /\ IsPrefix(call.heard, child.says)
        /\ Len(child.says) = 1 /\ ~host.faulty => call.heard = child.says

Ended == loop = "none" \/ ~TimeoutFits
Silent == At("answer") /\ pipe.text = << >>

\* As long as the timeout fits into an int, nothing a program does keeps a phase or
\* a query from ending, except for an executor that is asked and stays silent:
\* that read has no timeout.
OnlySilenceBlocks == []<>Ended \/ <>[]Silent
=============================================================================
