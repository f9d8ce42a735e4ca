---------------------------- MODULE PhasePromise ----------------------------
(***************************************************************************)
(* What running a phase of an interface promises: of its programs one runs *)
(* at a time, each once, in the order of the interfaces file, or in the    *)
(* opposite one for executors on the way down; none is started after one   *)
(* that failed; the phase succeeds exactly if all of them did; and when it *)
(* is over nothing of it still runs.  The dependency query does the same   *)
(* with the executors alone.                                               *)
(***************************************************************************)
EXTENDS SequencesExt, Selection

CONSTANTS
    Jobs,       \* phases to run: [phase, up, mock]
    Installed,  \* executors that there are
    Addons,     \* programs that run after all others, whose failure is ignored
    Nothing     \* no program

VARIABLES
    entries,  \* the interface's variables: a sequence of [key, cmd]
    job,      \* the phase that is being run, or the last one
    busy,     \* a phase is being run
    plan,     \* what it still has to run
    current,  \* the program that runs
    failed,   \* a program of the phase has failed
    verdict   \* the result of the last phase

vars == <<entries, job, busy, plan, current, failed, verdict>>

Used(v) == Chosen(v, {e \in ToSet(v) : e.key = "use" /\ e.cmd \in Installed})
Commands(v, phase) == Chosen(v, {e \in ToSet(v) : e.key = phase})

PlanOf(v, j) ==
    CASE j.phase = "depend" -> Used(v)
      [] j.phase # "depend" /\ j.mock -> << >>
      [] OTHER -> Used(IF j.up THEN v ELSE Reverse(v))
                  \o (Commands(v, j.phase) \o Addons)

Ignored(e) == Contains(Addons, e)

Init == /\ busy = FALSE /\ plan = << >> /\ current = Nothing
        /\ failed = FALSE /\ verdict = TRUE

Begin == /\ ~busy /\ busy'
         /\ job' \in Jobs
         /\ plan' = PlanOf(entries, job')
         /\ UNCHANGED <<entries, current, failed, verdict>>

Start == /\ current = Nothing /\ ~failed /\ plan # << >>
         /\ current' = Head(plan) /\ plan' = Tail(plan)
         /\ UNCHANGED <<entries, job, busy, failed, verdict>>

End == /\ current # Nothing /\ current' = Nothing
       /\ \/ UNCHANGED <<failed, plan>>
          \/ ~Ignored(current) /\ failed' /\ plan' = << >>
       /\ UNCHANGED <<entries, job, busy, verdict>>

\* A program that cannot be started has failed, too.
CannotStart == /\ current = Nothing /\ ~failed /\ plan # << >>
               /\ IF Ignored(Head(plan)) THEN plan' = Tail(plan) /\ UNCHANGED failed
                                         ELSE plan' = << >> /\ failed'
               /\ UNCHANGED <<entries, job, busy, current, verdict>>

Report == /\ busy /\ current = Nothing /\ plan = << >>
          /\ ~busy' /\ verdict' = ~failed /\ ~failed'
          /\ UNCHANGED <<entries, job, plan, current>>

Next == Begin \/ Start \/ End \/ CannotStart \/ Report

Spec == Init /\ [][Next]_vars
=============================================================================
