--------------------------- MODULE RunPhase_proofs ---------------------------
(***************************************************************************)
(* Whatever programs an interface has, however they behave and however     *)
(* long the timeout is, execute.c uses no more descriptors than there are, *)
(* a program that is in time is honoured, and an answer that comes in one  *)
(* piece is heard in full.                                                 *)
(***************************************************************************)
EXTENDS RunPhase, Selection_proofs

Waits == {"answer", "open", "poll", "check", "sleep", "kill"}
Seconds == host.timeout * TicksPerSecond

\* The descriptors that a step is about to close are open.
FdsOwned == /\ At("spawn") /\ call.asks => fds >= 2
            /\ At("poll") /\ call.via = "pidfd" => fds >= 1

\* There is a child while the monitor waits for one, and it is reaped at the end.
ChildKnown == /\ call.pc \in {"pipe", "spawn"} => child = NoChild
              /\ call.pc \in Waits <=> Awaited
              /\ child.is = "running" => ~child.good

\* How far time has run ahead of the child's exit in each state of the monitor.
Watched ==
    /\ call.pc \in {"pipe", "spawn", "answer", "open"} => call.ticks = 0
    /\ At("poll") => call.via \in {"pidfd", "blind"}
    /\ call.pc \in {"check", "sleep"} => call.via = "busy"
    /\ child.is = "zombie" /\ call.pc \in {"answer", "open"} => child.at = 0
    /\ child.is = "zombie" /\ At("check") => call.ticks <= child.at + 1
    /\ child.is = "zombie" /\ At("sleep") => call.ticks = child.at
    /\ At("kill") /\ TimeoutFits /\ call.via # "blind" => call.ticks >= Seconds
    /\ child.is = "zombie" /\ At("kill") /\ TimeoutFits /\ call.via # "blind" =>
           child.at >= WatchedUntil

\* TypeOK, for execute.c and for lifecycle.c.
CallType == /\ call \in Call /\ child \in Child /\ pipe \in Pipe /\ host \in Host
            /\ fds \in 0 .. MaxFds
LoopType == /\ entries \in Variables /\ job \in Jobs \cup {NoJob}
            /\ loop \in {"none", "use", "command", "addon"}
            /\ item \in Entry \cup {RunParts, NoEntry}
            /\ left \in Seq(Entry \cup {RunParts}) /\ learned \in Seq(STRING)
            /\ verdict \in BOOLEAN /\ jobs \in 0 .. MaxJobs

IInv == /\ TypeOK
        /\ FdsOwned /\ ChildKnown /\ Watched /\ InTimeHonoured

-----------------------------------------------------------------------------
(* Timeouts.                                                               *)

\* Arithmetic that the prover does not see inside larger terms.
LEMMA ModSmall == ASSUME NEW x \in Nat, NEW k \in Nat, x < k PROVE x % k = x
  OBVIOUS

\* Slices times their length is the timeout, in milliseconds.
LEMMA DivTimes == ASSUME NEW a \in Nat, NEW m \in Nat \ {0} PROVE (a * m) \div m = a
  OBVIOUS

\* A product of a positive factor is no smaller than the other one.
LEMMA TimesAtLeast ==
  ASSUME NEW a \in Nat, NEW m \in Nat \ {0}
  PROVE  a * m \in Nat /\ a <= a * m
  OBVIOUS

\* A number that fits into an int stays what it is.
LEMMA WrappedFits ==
  ASSUME NEW n \in Nat, n <= IntMax
  PROVE  Wrapped(n) = n
<1>1. IntMax \in Nat
  BY ExecuteAssumption
<1>2. (n + IntMax + 1) % (2 * (IntMax + 1)) = n + IntMax + 1
  BY <1>1, ModSmall
<1>3. QED
  BY <1>1, <1>2 DEF Wrapped

\* With a timeout that fits, both monitors wait for as many slices as it has.
LEMMA LimitsFit ==
  ASSUME host \in Host, TimeoutFits
  PROVE  PollLimit = Seconds /\ BusyLimit = Seconds /\ Seconds \in Nat
<1>1. host.timeout \in Nat /\ TicksPerSecond \in Nat /\ MillisPerTick \in Nat \ {0}
  BY ExecuteAssumption DEF Host
<1>2. Seconds \in Nat
  BY <1>1, TimesAtLeast DEF Seconds
<1>3. Seconds * MillisPerTick \in Nat /\ Seconds <= Seconds * MillisPerTick
  BY <1>1, <1>2, TimesAtLeast
<1>4. Seconds * MillisPerTick <= IntMax
  BY DEF TimeoutFits, Seconds
<1>5. PollLimit = Seconds
  <2>1. Wrapped(Seconds * MillisPerTick) = Seconds * MillisPerTick
    BY <1>3, <1>4, WrappedFits
  <2>2. (Seconds * MillisPerTick) \div MillisPerTick = Seconds
    BY <1>1, <1>2, DivTimes
  <2>3. QED
    BY <2>1, <2>2 DEF PollLimit, Seconds
<1>6. BusyLimit = Seconds
  <2>1. Seconds <= IntMax
    BY <1>2, <1>3, <1>4, ExecuteAssumption
  <2>2. QED
    BY <1>2, <2>1, WrappedFits DEF BusyLimit, Seconds
<1>7. QED
  BY <1>2, <1>5, <1>6

-----------------------------------------------------------------------------
(* The steps of execute.c.                                                 *)

\* TypeOK is about the two files separately, now and after a step.
LEMMA TypeParts == TypeOK <=> CallType /\ LoopType
  BY DEF TypeOK, CallType, LoopType

\* The same after a step.
LEMMA TypePartsNext ==
  ASSUME CallType', LoopType'
  PROVE  TypeOK'
  BY TypeParts, PTL

\* The types of the fields, one by one.
Fields ==
    /\ call.pc \in CallPc /\ call.asks \in BOOLEAN /\ call.heard \in Seq(STRING)
    /\ call.ticks \in Nat /\ call.via \in {"pidfd", "blind", "busy"}
    /\ call.ret \in BOOLEAN
    /\ child.is \in {"none", "running", "zombie", "lost"} /\ child.left \in Seq(STRING)
    /\ child.says \in Seq(STRING) /\ child.good \in BOOLEAN /\ child.at \in Nat
    /\ pipe.text \in Seq(STRING) /\ pipe.open \in BOOLEAN
    /\ fds \in 0 .. MaxFds /\ MaxFds \in Nat

\* They follow from the types of the records.
LEMMA CallFields ==
  ASSUME CallType
  PROVE  Fields
  BY ExecuteAssumption DEF CallType, Call, Child, Pipe, Fields

\* Assignments to fields keep records in their types.
LEMMA CallUpdate ==
  ASSUME NEW c \in Call, NEW p \in CallPc
  PROVE  /\ [c EXCEPT !.pc = p] \in Call
         /\ \A n \in Nat : [c EXCEPT !.pc = p, !.ticks = n] \in Call
         /\ \A b \in BOOLEAN : [c EXCEPT !.pc = p, !.ret = b] \in Call
         /\ \A h \in Seq(STRING) : [c EXCEPT !.pc = p, !.heard = h] \in Call
         /\ \A v \in {"pidfd", "blind", "busy"} : [c EXCEPT !.pc = p, !.via = v] \in Call
<1>1. [c EXCEPT !.pc = p] \in Call
  BY DEF Call
<1>2. \A n \in Nat : [c EXCEPT !.pc = p, !.ticks = n] \in Call
  BY Zenon DEF Call
<1>3. \A b \in BOOLEAN : [c EXCEPT !.pc = p, !.ret = b] \in Call
  BY Zenon DEF Call
<1>4. \A h \in Seq(STRING) : [c EXCEPT !.pc = p, !.heard = h] \in Call
  BY Zenon DEF Call
<1>5. \A v \in {"pidfd", "blind", "busy"} : [c EXCEPT !.pc = p, !.via = v] \in Call
  BY Zenon DEF Call
<1>6. QED
  BY <1>1, <1>2, <1>3, <1>4, <1>5

\* So it is for a slice of time,
LEMMA TickUpdate ==
  ASSUME NEW c \in Call, NEW n \in Nat
  PROVE  [c EXCEPT !.ticks = n] \in Call
  BY DEF Call

\* for a child that is spawned, prints, exits or is reaped,
LEMMA ChildUpdate ==
  ASSUME NEW c \in Child
  PROVE  /\ [c EXCEPT !.is = "none"] \in Child /\ [c EXCEPT !.is = "lost"] \in Child
         /\ \A t \in Seq(STRING) :
                /\ [c EXCEPT !.left = t] \in Child
                /\ [c EXCEPT !.is = "running", !.left = t, !.says = t] \in Child
                /\ \A b \in BOOLEAN, n \in Nat :
                       [c EXCEPT !.is = "zombie", !.good = b, !.at = n, !.left = t] \in Child
<1>1. /\ [c EXCEPT !.is = "none"] \in Child /\ [c EXCEPT !.is = "lost"] \in Child
      /\ \A t \in Seq(STRING) : [c EXCEPT !.left = t] \in Child
  BY DEF Child
<1>2. \A t \in Seq(STRING) : [c EXCEPT !.is = "running", !.left = t, !.says = t] \in Child
  BY Zenon DEF Child
<1>3. \A t \in Seq(STRING), b \in BOOLEAN, n \in Nat :
         [c EXCEPT !.is = "zombie", !.good = b, !.at = n, !.left = t] \in Child
  BY Zenon DEF Child
<1>4. QED
  BY <1>1, <1>2, <1>3

\* and for the pipe.
LEMMA PipeUpdate ==
  ASSUME NEW c \in Pipe
  PROVE  /\ \A t \in Seq(STRING) : [c EXCEPT !.text = t] \in Pipe
         /\ \A b \in BOOLEAN : [c EXCEPT !.open = b] \in Pipe
  BY DEF Pipe

\* What Execute begins with is of the right type.
LEMMA Fresh == NoCall \in Call /\ NoChild \in Child /\ NoPipe \in Pipe
  BY DEF NoCall, Call, CallPc, NoChild, Child, NoPipe, Pipe

\* So is a call that returns.
LEMMA DoneType ==
  ASSUME call \in Call
  PROVE  Done(TRUE) \in Call /\ Done(FALSE) \in Call
  BY CallUpdate DEF Done, CallPc

\* The types after a step, variable by variable.
LEMMA TypeNext ==
  ASSUME call' \in Call, child' \in Child, pipe' \in Pipe, host' \in Host,
         fds' \in 0 .. MaxFds
  PROVE  CallType'
  BY DEF CallType, Call, Child, Pipe, Host, CallPc

\* Operators on sequences stay within the sequences over a set.
LEMMA SeqFacts ==
  ASSUME NEW S
  PROVE  /\ << >> \in Seq(S)
         /\ \A q \in Seq(S) : q # << >> => Head(q) \in S /\ Tail(q) \in Seq(S)
         /\ \A q \in Seq(S), x \in S : Append(q, x) \in Seq(S)
         /\ \A q, r \in Seq(S) : q \o r \in Seq(S)
  OBVIOUS

\* Each way through execute.c keeps the types; descriptors are closed only if
\* they are owned.
LEMMA CallerType ==
  ASSUME IInv, Caller
  PROVE  CallType'
<1> USE DEF CallPc, At
<1>0. /\ call \in Call /\ child \in Child /\ pipe \in Pipe /\ host \in Host
      /\ fds \in 0 .. MaxFds /\ MaxFds \in Nat
      /\ FdsOwned
  BY TypeParts, ExecuteAssumption DEF IInv, CallType
<1>f. /\ call.ticks \in Nat /\ call.asks \in BOOLEAN /\ child.good \in BOOLEAN
      /\ pipe.text \in Seq(STRING)
  BY <1>0 DEF Call, Child, Pipe
<1>1. CASE OpenPipe
  <2>1. call' \in Call
    BY <1>0, <1>1, CallUpdate, DoneType DEF OpenPipe
  <2>2. fds' \in 0 .. MaxFds /\ UNCHANGED <<child, pipe, host>>
    BY <1>0, <1>1 DEF OpenPipe, Done
  <2>3. QED
    BY <1>0, <2>1, <2>2, TypeNext
<1>2. CASE SpawnFailure
  BY <1>0, <1>2, DoneType, TypeNext DEF SpawnFailure
<1>3. CASE Spawn
  <2>1. PICK t \in IF call.asks THEN Says ELSE {<< >>} :
            child' = [NoChild EXCEPT !.is = "running", !.left = t, !.says = t]
    BY <1>3 DEF Spawn
  <2>2. t \in Seq(STRING)
    BY <2>1, ExecuteAssumption, SeqFacts
  <2>3. child' \in Child
    BY <2>1, <2>2, Fresh, ChildUpdate
  <2>4. pipe' \in Pipe
    BY <1>f, <1>3, Fresh, PipeUpdate DEF Spawn
  <2>5. call' \in Call
    BY <1>0, <1>3, CallUpdate DEF Spawn
  <2>6. fds' \in 0 .. MaxFds
    BY <1>0, <1>3 DEF Spawn, FdsOwned
  <2>7. QED
    BY <1>0, <1>3, <2>3, <2>4, <2>5, <2>6, TypeNext DEF Spawn
<1>4. CASE ReadAnswer
  <2>1. call' \in Call /\ pipe' \in Pipe
    BY <1>0, <1>f, <1>4, CallUpdate, PipeUpdate, SeqFacts DEF ReadAnswer
  <2>2. QED
    BY <1>0, <1>4, <2>1, TypeNext DEF ReadAnswer
<1>5. CASE OpenPidfd
  <2>1. call' \in Call
    BY <1>0, <1>5, CallUpdate DEF OpenPidfd
  <2>2. fds' \in 0 .. MaxFds
    BY <1>0, <1>5 DEF OpenPidfd
  <2>3. QED
    BY <1>0, <1>5, <2>1, <2>2, TypeNext DEF OpenPidfd
<1>6. CASE PollReady
  <2>1. call' \in Call
    BY <1>0, <1>f, <1>6, CallUpdate DEF PollReady, Done
  <2>2. child' \in Child
    BY <1>0, <1>f, <1>6, ChildUpdate DEF PollReady, Reaped
  <2>3. fds' \in 0 .. MaxFds
    BY <1>0, <1>6 DEF PollReady, FdsOwned
  <2>4. QED
    BY <1>0, <1>6, <2>1, <2>2, <2>3, TypeNext DEF PollReady
<1>7. CASE PollTick \/ PollTimeout \/ BusySleep
  <2>1. call.ticks + 1 \in Nat
    BY <1>f
  <2>2. CASE PollTick
    BY <1>0, <2>1, <2>2, TickUpdate, TypeNext DEF PollTick
  <2>3. CASE PollTimeout
    BY <1>0, <2>3, CallUpdate, TypeNext DEF PollTimeout
  <2>4. CASE BusySleep
    BY <1>0, <2>1, <2>4, CallUpdate, TypeNext DEF BusySleep
  <2>5. QED
    BY <1>7, <2>2, <2>3, <2>4
<1>8. CASE BusyCheck
  <2>1. call' \in Call
    BY <1>0, <1>f, <1>8, CallUpdate DEF BusyCheck, Done
  <2>2. child' \in Child
    BY <1>0, <1>f, <1>8, ChildUpdate DEF BusyCheck, Reaped
  <2>3. QED
    BY <1>0, <1>8, <2>1, <2>2, TypeNext DEF BusyCheck
<1>9. CASE KillChild
  <2>1. call' \in Call /\ child' \in Child
    BY <1>0, <1>f, <1>9, DoneType, ChildUpdate DEF KillChild, Reaped
  <2>2. QED
    BY <1>0, <1>9, <2>1, TypeNext DEF KillChild
<1>10. QED
  BY <1>1, <1>2, <1>3, <1>4, <1>5, <1>6, <1>7, <1>8, <1>9 DEF Caller

\* So do the child and what it leaves behind.
LEMMA ChildrenType ==
  ASSUME IInv, Children
  PROVE  CallType'
<1>0. /\ call \in Call /\ child \in Child /\ pipe \in Pipe /\ host \in Host
      /\ fds \in 0 .. MaxFds
  BY TypeParts DEF IInv, CallType
<1>f. /\ call.ticks \in Nat /\ child.left \in Seq(STRING)
      /\ pipe.text \in Seq(STRING) /\ pipe.open \in BOOLEAN
  BY <1>0 DEF Call, Child, Pipe
<1>1. CASE Prints
  <2>1. Head(child.left) \in STRING /\ Tail(child.left) \in Seq(STRING)
    BY <1>f, <1>1, SeqFacts DEF Prints
  <2>2. Append(pipe.text, Head(child.left)) \in Seq(STRING)
    BY <1>f, <2>1, SeqFacts
  <2>3. child' \in Child /\ pipe' \in Pipe
    BY <1>0, <1>1, <2>1, <2>2, ChildUpdate, PipeUpdate DEF Prints
  <2>4. QED
    BY <1>0, <1>1, <2>3, TypeNext DEF Prints
<1>2. CASE Exits
  <2>1. PICK good \in BOOLEAN, lingers \in {FALSE} \cup IF Lingers THEN {pipe.open} ELSE {} :
            /\ child' = [child EXCEPT !.is = "zombie", !.good = good, !.at = call.ticks,
                                     !.left = IF lingers THEN @ ELSE << >>]
            /\ pipe' = [pipe EXCEPT !.open = lingers]
    BY <1>2 DEF Exits
  <2>2. lingers \in BOOLEAN
    BY <1>f, <2>1
  <2>3. (IF lingers THEN child.left ELSE << >>) \in Seq(STRING)
    BY <1>f, SeqFacts
  <2>4. child' \in Child
    BY <1>0, <1>f, <2>1, <2>3, ChildUpdate
  <2>5. pipe' \in Pipe
    BY <1>0, <2>1, <2>2, PipeUpdate
  <2>6. QED
    BY <1>0, <1>2, <2>4, <2>5, TypeNext DEF Exits
<1>3. CASE LingererExits
  <2>1. pipe' \in Pipe
    BY <1>0, <1>3, PipeUpdate DEF LingererExits
  <2>2. QED
    BY <1>0, <1>3, <2>1, TypeNext DEF LingererExits
<1>4. QED
  BY <1>1, <1>2, <1>3 DEF Children

\* So do a poll and a read that fail.
LEMMA FaultsType ==
  ASSUME IInv, Faults
  PROVE  CallType'
<1>0. /\ call \in Call /\ child \in Child /\ pipe \in Pipe /\ host \in Host
      /\ fds \in 0 .. MaxFds
  BY TypeParts DEF IInv, CallType
<1>1. [call EXCEPT !.pc = "kill", !.via = "blind"] \in Call /\ [call EXCEPT !.pc = "open"] \in Call
  BY <1>0, CallUpdate DEF CallPc
<1>2. call' \in Call /\ child' \in Child
  BY <1>0, <1>1, DoneType, ChildUpdate DEF Faults, WatchFails, NoAnswer, ReadFails
<1>3. UNCHANGED <<pipe, fds, host>>
  BY DEF Faults, WatchFails, NoAnswer, ReadFails
<1>4. QED
  BY <1>0, <1>2, <1>3, TypeNext

\* A remainder is an integer.
LEMMA ModInt == ASSUME NEW x \in Int, NEW k \in Nat \ {0} PROVE x % k \in Int
  OBVIOUS

\* The limit of the busy loop is an integer, even if the timeout does not fit.
LEMMA BusyInt ==
  ASSUME host \in Host
  PROVE  BusyLimit \in Int
<1>1. host.timeout * TicksPerSecond \in Nat /\ IntMax \in Nat
  BY ExecuteAssumption, TimesAtLeast DEF Host
<1>2. 2 * (IntMax + 1) \in Nat \ {0} /\ host.timeout * TicksPerSecond + IntMax + 1 \in Int
  BY <1>1
<1>3. (host.timeout * TicksPerSecond + IntMax + 1) % (2 * (IntMax + 1)) \in Int
  BY <1>2, ModInt
<1>4. QED
  BY <1>1, <1>3 DEF BusyLimit, Wrapped

\* What the conjuncts of the invariant read, and nothing else changes.
LEMMA HostFacts ==
  ASSUME UNCHANGED host
  PROVE  Seconds' = Seconds /\ TimeoutFits' = TimeoutFits
  BY DEF Seconds, TimeoutFits

\* The monitor never mistakes a program, whatever its timing.
LEMMA CallerWatches ==
  ASSUME IInv, Caller
  PROVE  (FdsOwned /\ ChildKnown /\ Watched /\ InTimeHonoured)'
<1> USE DEF At
<1>0. CallType /\ FdsOwned /\ ChildKnown /\ Watched /\ InTimeHonoured
  BY TypeParts DEF IInv
<1>h. TimeoutFits => PollLimit = Seconds /\ BusyLimit = Seconds /\ Seconds \in Nat
  BY <1>0, LimitsFit DEF CallType
<1>f. Fields
  BY <1>0, CallFields
<1> USE DEF Fields, CallPc, Waits, Awaited, FdsOwned, ChildKnown, InTimeHonoured, Watched, WatchedUntil
<1>1. CASE OpenPipe
  <2>1. /\ call'.pc \in {"spawn", "done"} /\ call'.asks = call.asks /\ call'.ticks = call.ticks
        /\ call'.via = call.via
        /\ call'.pc = "spawn" => fds' = fds + 2
        /\ call'.pc = "done" => ~call'.ret
    BY <1>0, <1>1, <1>f DEF OpenPipe, CallType, Call, Done
  <2>2. UNCHANGED <<child, host>> /\ child = NoChild
    BY <1>0, <1>1 DEF OpenPipe
  <2>3. QED
    BY <1>0, <1>1, <1>f, <2>1, <2>2, HostFacts DEF OpenPipe, NoChild
<1>2. CASE SpawnFailure
  <2>1. call'.pc = "done" /\ ~call'.ret
    BY <1>0, <1>2 DEF SpawnFailure, CallType, Call, Done
  <2>2. UNCHANGED <<child, host>> /\ child = NoChild
    BY <1>0, <1>2 DEF SpawnFailure
  <2>3. QED
    BY <1>0, <2>1, <2>2 DEF NoChild
<1>3. CASE Spawn
  BY <1>0, <1>3, <1>f, HostFacts DEF Spawn, CallType, Call, NoChild
<1>4. CASE ReadAnswer
  BY <1>0, <1>4, <1>f, HostFacts DEF ReadAnswer, CallType, Call
<1>5. CASE OpenPidfd
  BY <1>0, <1>5, <1>f, HostFacts DEF OpenPidfd, CallType, Call
<1>6. CASE PollReady
  BY <1>0, <1>6, <1>f, HostFacts DEF PollReady, CallType, Call, Child, Reaped, Done
<1>7. CASE PollTick
  BY <1>0, <1>7, <1>f, HostFacts DEF PollTick, CallType, Call
<1>8. CASE PollTimeout
  BY <1>0, <1>8, <1>f, <1>h, HostFacts DEF PollTimeout, CallType, Call, Seconds
<1>9. CASE BusyCheck
  <2>1. call.pc = "check" /\ call.via = "busy" /\ UNCHANGED <<pipe, fds, host>>
    BY <1>0, <1>9 DEF BusyCheck
  <2>i. BusyLimit \in Int
    BY <1>0, BusyInt DEF CallType
  <2>2. CASE call.ticks >= BusyLimit
    <3>1. call' = [call EXCEPT !.pc = "kill"] /\ UNCHANGED child
      <4>1. ~(call.ticks < BusyLimit)
        BY <1>f, <2>i, <2>2
      <4>2. QED
        BY <1>9, <2>2, <4>1 DEF BusyCheck
    <3>2. call'.pc = "kill" /\ call'.ticks = call.ticks /\ call'.via = "busy"
      BY <1>0, <2>1, <3>1 DEF CallType, Call
    <3>3. TimeoutFits => Seconds \in Nat /\ call.ticks >= Seconds
      BY <1>h, <2>2
    <3>4. TimeoutFits /\ child.is = "zombie" => child.at >= Seconds - 1
      BY <1>0, <1>f, <2>1, <3>3
    <3>5. TimeoutFits' /\ child'.is = "zombie" => child'.at >= WatchedUntil'
      BY <2>1, <3>1, <3>2, <3>4, HostFacts DEF Seconds
    <3>6. TimeoutFits' => call'.ticks >= Seconds'
      BY <2>1, <3>2, <3>3, HostFacts
    <3>7. Awaited' /\ (child'.is = "running" => ~child'.good)
      BY <1>0, <2>1, <3>1
    <3>8. QED
      BY <3>2, <3>5, <3>6, <3>7
  <2>3. CASE call.ticks < BusyLimit /\ child.is = "zombie"
    <3>1. call' = Done(child.good) /\ child' = Reaped
      BY <1>9, <2>3 DEF BusyCheck
    <3>2. call'.pc = "done" /\ call'.ret = child.good /\ child'.is = "none"
          /\ child'.good = child.good
      BY <1>0, <3>1 DEF CallType, Call, Child, Done, Reaped
    <3>3. QED
      BY <3>2
  <2>4. CASE ~(call.ticks >= BusyLimit)
             /\ ~(call.ticks < BusyLimit /\ child.is = "zombie")
    <3>1. call' = [call EXCEPT !.pc = "sleep"] /\ UNCHANGED child
      BY <1>9, <2>4 DEF BusyCheck
    <3>2. call'.pc = "sleep" /\ call'.ticks = call.ticks /\ call'.via = "busy"
      BY <1>0, <2>1, <3>1 DEF CallType, Call
    <3>3. child.is # "zombie"
      BY <1>f, <2>i, <2>4
    <3>4. QED
      BY <1>0, <1>f, <2>1, <3>1, <3>2, <3>3
  <2>5. QED
    BY <2>2, <2>3, <2>4
<1>10. CASE BusySleep
  BY <1>0, <1>10, <1>f, HostFacts DEF BusySleep, CallType, Call
<1>11. CASE KillChild
  BY <1>0, <1>11, <1>f, <1>h, HostFacts DEF KillChild, CallType, Call, Child, Reaped, Done, Seconds
<1>12. QED
  BY <1>1, <1>2, <1>3, <1>4, <1>5, <1>6, <1>7, <1>8, <1>9, <1>10, <1>11 DEF Caller

\* Nor does it matter to it when a program prints, exits or leaves others behind.
LEMMA ChildrenWatch ==
  ASSUME IInv, Children
  PROVE  (FdsOwned /\ ChildKnown /\ Watched /\ InTimeHonoured)'
<1> USE DEF At
<1>0. CallType /\ FdsOwned /\ ChildKnown /\ Watched /\ InTimeHonoured
  BY TypeParts DEF IInv
<1>f. Fields
  BY <1>0, CallFields
<1>c. UNCHANGED <<call, fds, host>>
  BY DEF Children, Prints, Exits, LingererExits
<1> USE DEF Fields, CallPc, Waits, Awaited, FdsOwned, ChildKnown, InTimeHonoured, Watched, WatchedUntil
<1>1. CASE Prints \/ LingererExits
  <2>1. /\ child'.is = child.is /\ child'.good = child.good /\ child'.at = child.at
        /\ call.pc \in {"pipe", "spawn"} => child' = child
    BY <1>0, <1>1, <1>f DEF Prints, LingererExits, CallType, Child, NoChild, Pipe
  <2>2. QED
    BY <1>0, <1>c, <1>f, <2>1, HostFacts
<1>2. CASE Exits
  <2>1. PICK good \in BOOLEAN, lingers \in {FALSE} \cup IF Lingers THEN {pipe.open} ELSE {} :
            child' = [child EXCEPT !.is = "zombie", !.good = good, !.at = call.ticks,
                                   !.left = IF lingers THEN @ ELSE << >>]
    BY <1>2 DEF Exits
  <2>2. child'.is = "zombie" /\ child'.at = call.ticks /\ child.is = "running"
    BY <1>0, <1>2, <2>1 DEF Exits, CallType, Child
  <2>3. call.pc \in Waits
    BY <1>0, <2>2
  <2>4. At("kill") /\ TimeoutFits /\ call.via # "blind" => child'.at >= WatchedUntil
    <3>1. TimeoutFits => Seconds \in Nat
      BY <1>0, LimitsFit DEF CallType
    <3>2. QED
      BY <1>0, <1>f, <2>2, <3>1 DEF Seconds
  <2>5. QED
    BY <1>0, <1>c, <1>f, <2>2, <2>3, <2>4, HostFacts
<1>3. QED
  BY <1>1, <1>2 DEF Children

\* Nor when a poll fails, which is a timeout without one, or the read.
LEMMA FaultsWatch ==
  ASSUME IInv, Faults
  PROVE  (FdsOwned /\ ChildKnown /\ Watched /\ InTimeHonoured)'
<1> USE DEF At
<1>0. CallType /\ FdsOwned /\ ChildKnown /\ Watched /\ InTimeHonoured
  BY TypeParts DEF IInv
<1>f. Fields
  BY <1>0, CallFields
<1> USE DEF Fields, CallPc, Waits, Awaited, FdsOwned, ChildKnown, InTimeHonoured, Watched,
            WatchedUntil
<1>1. CASE WatchFails
  BY <1>0, <1>1, <1>f, HostFacts DEF WatchFails, CallType, Call
<1>2. CASE NoAnswer
  BY <1>0, <1>2, <1>f, HostFacts DEF NoAnswer, CallType, Call
<1>3. CASE ReadFails
  <2>1. /\ call'.pc = "done" /\ ~call'.ret /\ child'.is = "lost"
    BY <1>0, <1>3 DEF ReadFails, Done, CallType, Call, Child
  <2>2. QED
    BY <2>1
<1>4. QED
  BY <1>1, <1>2, <1>3 DEF Faults

-----------------------------------------------------------------------------
(* The steps of lifecycle.c.                                               *)

\* The variables of an interface stay entries when they are visited in reverse.
LEMMA Reversed ==
  ASSUME NEW S, NEW q \in Seq(S)
  PROVE  Reverse(q) \in Seq(S)
<1>1. \A i \in 1 .. Len(q) : q[Len(q) - i + 1] \in S
  OBVIOUS
<1>2. QED
  BY <1>1 DEF Reverse

\* The variables of an interface are entries.
LEMMA EntriesType ==
  ASSUME LoopType
  PROVE  entries \in Seq(Entry \cup {RunParts}) /\ MaxJobs \in Nat
  BY PhaseAssumption DEF LoopType

\* Beginning, visiting and ending the loops keeps their variables in their types.
LEMMA LoopsType ==
  ASSUME IInv, Begin \/ PassOver \/ EndOfLoop
  PROVE  LoopType' /\ UNCHANGED xvars
<1>0. LoopType /\ entries \in Seq(Entry \cup {RunParts})
  BY TypeParts, EntriesType DEF IInv
<1>1. CASE Begin
  <2>1. PICK j \in Jobs : job' = j /\ left' = Executors(j)
    BY <1>1 DEF Begin
  <2>2. job' \in Jobs
    BY <2>1
  <2>3. left' \in Seq(Entry \cup {RunParts})
    BY <1>0, <2>1, Reversed DEF Executors
  <2>4. jobs' \in 0 .. MaxJobs
    BY <1>0, <1>1, PhaseAssumption DEF Begin, LoopType
  <2>5. /\ entries' \in Variables /\ item' = NoEntry /\ loop' = "use"
        /\ learned' = << >> /\ verdict' \in BOOLEAN
    BY <1>0, <1>1 DEF Begin, LoopType
  <2>6. learned' \in Seq(STRING)
    BY <2>5, SeqFacts
  <2>7. QED
    BY <1>1, <2>2, <2>3, <2>4, <2>5, <2>6 DEF Begin, LoopType
<1>2. CASE PassOver
  <2>1. left' \in Seq(Entry \cup {RunParts})
    BY <1>0, <1>2, SeqFacts DEF PassOver, Visiting, LoopType
  <2>2. QED
    BY <1>0, <1>2, <2>1 DEF PassOver, LoopType
<1>3. CASE EndOfLoop
  <2>1. left' \in Seq(Entry \cup {RunParts})
    <3>1. <<RunParts>> \in Seq(Entry \cup {RunParts}) /\ << >> \in Seq(Entry \cup {RunParts})
      BY <1>0
    <3>2. QED
      BY <1>0, <1>3, <3>1 DEF EndOfLoop, Finish
  <2>2. /\ loop' \in {"none", "use", "command", "addon"}
        /\ item' \in Entry \cup {RunParts, NoEntry} /\ verdict' \in BOOLEAN
    BY <1>0, <1>3 DEF EndOfLoop, Finish, LoopType
  <2>3. QED
    BY <1>0, <1>3, <2>1, <2>2 DEF EndOfLoop, LoopType
<1>4. QED
  BY <1>1, <1>2, <1>3

\* Starting a program starts it from scratch.
LEMMA RunIInv ==
  ASSUME IInv, RunProgram
  PROVE  IInv'
<1> USE DEF At
<1>0. CallType /\ LoopType /\ FdsOwned /\ ChildKnown /\ Watched /\ InTimeHonoured
  BY TypeParts DEF IInv
<1>1. Query(job) \in BOOLEAN
  BY DEF Query
<1>2. PICK p \in {"pipe", "spawn"}, b \in BOOLEAN :
          /\ b = Query(job)
          /\ p = IF b THEN "pipe" ELSE "spawn"
          /\ call' = [NoCall EXCEPT !.pc = p, !.asks = b]
  BY <1>1 DEF RunProgram, Execute
<1>3. child' = NoChild /\ pipe' = NoPipe /\ UNCHANGED <<fds, host>>
  BY DEF RunProgram, Execute
<1>4. call' = [pc |-> p, asks |-> b, heard |-> << >>, ticks |-> 0, via |-> "busy",
               ret |-> TRUE]
  BY <1>2 DEF NoCall
<1>c. call' \in Call
  <2>1. << >> \in Seq(STRING)
    BY SeqFacts
  <2>2. p \in CallPc /\ 0 \in Nat /\ "busy" \in {"pidfd", "blind", "busy"}
    BY DEF CallPc
  <2>3. QED
    BY <1>4, <2>1, <2>2, Zenon DEF Call
<1>5. call'.pc = p /\ call'.asks = b /\ call'.ticks = 0
  BY <1>4
<1>6. CallType'
  BY <1>0, <1>3, <1>c, Fresh, TypeNext DEF CallType
<1>7. LoopType'
  <2>1. Head(left) \in Entry \cup {RunParts} /\ Tail(left) \in Seq(Entry \cup {RunParts})
    BY <1>0, SeqFacts DEF RunProgram, Visiting, LoopType
  <2>2. QED
    BY <1>0, <2>1 DEF RunProgram, LoopType
<1>8. (FdsOwned /\ ChildKnown /\ Watched /\ InTimeHonoured)'
  BY <1>2, <1>3, <1>5 DEF FdsOwned, ChildKnown, Watched, InTimeHonoured, Waits, Awaited,
                         NoChild
<1>9. QED
  BY <1>6, <1>7, <1>8, TypePartsNext DEF IInv

\* After a program the caller is idle again, and what a query heard are strings.
LEMMA ReturnIInv ==
  ASSUME IInv, ProgramReturns
  PROVE  IInv'
<1> USE DEF At
<1>0. CallType /\ LoopType /\ FdsOwned /\ ChildKnown /\ Watched /\ InTimeHonoured
  BY TypeParts DEF IInv
<1>f. Fields
  BY <1>0, CallFields
<1>1. call' = [call EXCEPT !.pc = "idle"] /\ UNCHANGED <<child, pipe, fds, host>>
  BY DEF ProgramReturns
<1>c. call \in Call /\ "idle" \in CallPc
  BY <1>0 DEF CallType, CallPc
<1>2. call' \in Call /\ call'.pc = "idle"
  <2>1. call' \in Call
    BY <1>1, <1>c, CallUpdate
  <2>2. call'.pc = "idle"
    BY <1>1, <1>c DEF Call
  <2>3. QED
    BY <2>1, <2>2
<1>3. CallType'
  BY <1>0, <1>1, <1>2, TypeNext DEF CallType
<1>4. LoopType'
  <2>1. learned' \in Seq(STRING)
    <3>1. learned \o call.heard \in Seq(STRING)
      BY <1>0, <1>f, SeqFacts DEF LoopType, Fields
    <3>2. QED
      BY <1>0, <3>1 DEF ProgramReturns, LoopType
  <2>2. left' \in Seq(Entry \cup {RunParts})
    BY <1>0, SeqFacts DEF ProgramReturns, Finish, LoopType
  <2>3. /\ loop' \in {"none", "use", "command", "addon"}
        /\ item' = NoEntry /\ verdict' \in BOOLEAN
    BY <1>0 DEF ProgramReturns, Finish, LoopType
  <2>4. QED
    BY <1>0, <2>1, <2>2, <2>3 DEF ProgramReturns, LoopType
<1>5. ~Awaited
  BY <1>0, <1>f DEF ProgramReturns, ChildKnown, Waits, Fields
<1>6. (FdsOwned /\ ChildKnown /\ Watched /\ InTimeHonoured)'
  BY <1>1, <1>2, <1>5 DEF FdsOwned, ChildKnown, Watched, InTimeHonoured, Waits, Awaited
<1>7. QED
  BY <1>3, <1>4, <1>6, TypePartsNext DEF IInv

\* A step that leaves one half alone keeps what is said of it.
LEMMA LoopStays == ASSUME LoopType, UNCHANGED pvars PROVE LoopType'
  BY DEF LoopType, pvars

\* The same for the half of execute.c.
LEMMA CallStays ==
  ASSUME CallType, FdsOwned, ChildKnown, Watched, InTimeHonoured, UNCHANGED xvars
  PROVE  (CallType /\ FdsOwned /\ ChildKnown /\ Watched /\ InTimeHonoured)'
<1>1. UNCHANGED <<call, child, pipe, fds, host>>
  BY DEF xvars
<1>2. CallType'
  BY <1>1, TypeNext DEF CallType
<1>3. (FdsOwned /\ ChildKnown /\ Watched /\ InTimeHonoured)'
  BY <1>1 DEF FdsOwned, ChildKnown, Watched, InTimeHonoured, At, Seconds, WatchedUntil,
              TimeoutFits, Awaited
<1>4. QED
  BY <1>2, <1>3

\* The invariant holds at first: nothing runs.
LEMMA InitIInv == Init => IInv
<1> SUFFICES ASSUME Init PROVE IInv
  OBVIOUS
<1>1. CallType
  BY Fresh, ExecuteAssumption DEF Init, ExecuteInit, CallType
<1>2. LoopType
  BY PhaseAssumption, SeqFacts DEF Init, LoopType
<1>3. call.pc = "idle" /\ child.is = "none"
  BY DEF Init, ExecuteInit, NoCall, NoChild
<1>4. FdsOwned /\ ChildKnown /\ Watched /\ InTimeHonoured
  BY <1>3 DEF FdsOwned, ChildKnown, Watched, InTimeHonoured, Waits, Awaited, At
<1>5. QED
  BY <1>1, <1>2, <1>4, TypeParts DEF IInv

\* Every step of ifup, of a child and of what it leaves behind keeps it.
LEMMA NextIInv == IInv /\ [Next]_vars => IInv'
<1> SUFFICES ASSUME IInv, [Next]_vars PROVE IInv'
  OBVIOUS
<1>0. CallType /\ LoopType /\ FdsOwned /\ ChildKnown /\ Watched /\ InTimeHonoured
  BY TypeParts DEF IInv
<1>1. CASE Begin \/ PassOver \/ EndOfLoop
  BY <1>0, <1>1, LoopsType, CallStays, TypePartsNext DEF IInv
<1>2. CASE RunProgram
  BY <1>2, RunIInv
<1>3. CASE ProgramReturns
  BY <1>3, ReturnIInv
<1>4. CASE Caller /\ UNCHANGED pvars
  BY <1>0, <1>4, CallerType, CallerWatches, LoopStays, TypePartsNext DEF IInv
<1>5. CASE (Faults \/ Children) /\ UNCHANGED pvars
  BY <1>0, <1>5, FaultsType, ChildrenType, FaultsWatch, ChildrenWatch, LoopStays,
     TypePartsNext DEF IInv
<1>6. CASE Rest \/ UNCHANGED vars
  <2>1. UNCHANGED xvars /\ UNCHANGED pvars
    BY <1>6 DEF Rest, vars
  <2>2. QED
    BY <1>0, <2>1, CallStays, LoopStays, TypePartsNext DEF IInv
<1>7. QED
  BY <1>1, <1>2, <1>3, <1>4, <1>5, <1>6 DEF Next, Program

\* So it always holds.
LEMMA Inductive == Spec => []IInv
  BY InitIInv, NextIInv, PTL DEF Spec

-----------------------------------------------------------------------------
(* What is heard of what is said.                                          *)

\* While the answer is awaited, the pipe holds what the child has printed: the
\* beginning of what it says, and all of it at the end unless the child failed.
Printed ==
    At("answer") =>
        /\ child.is = "running" => pipe.open
        /\ pipe.open => pipe.text \o child.left = child.says
        /\ IsPrefix(pipe.text, child.says)
        /\ child.good /\ ~pipe.open => pipe.text = child.says

\* Unless poll failed, nothing was heard only of a child that has exited, and then
\* failed unless it had nothing to say.
Heard ==
    /\ call.pc \in {"pipe", "spawn", "answer"} => call.heard = << >>
    /\ call.pc \in {"open", "poll", "check", "sleep", "kill", "done"} =>
           /\ IsPrefix(call.heard, child.says)
           /\ call.heard = << >> /\ child.says # << >> /\ ~host.faulty =>
                  child.is # "running" /\ ~child.good

\* Sequences: what has been said and what is left of it.
LEMMA SayOne ==
  ASSUME NEW S, NEW q \in Seq(S), NEW r \in Seq(S), r # << >>
  PROVE  Append(q, Head(r)) \o Tail(r) = q \o r
  OBVIOUS

\* Nothing adds nothing.
LEMMA SayNone ==
  ASSUME NEW S, NEW q \in Seq(S)
  PROVE  q \o << >> = q /\ << >> \o q = q
  OBVIOUS

\* What has been said is the beginning of all.
LEMMA PrefixOfSum ==
  ASSUME NEW S, NEW q \in Seq(S), NEW r \in Seq(S)
  PROVE  IsPrefix(q, q \o r)
  BY DEF IsPrefix

\* All is a beginning of itself, and so is nothing.
LEMMA PrefixOfAll ==
  ASSUME NEW S, NEW q \in Seq(S)
  PROVE  IsPrefix(q, q) /\ IsPrefix(<< >>, q) /\ IsPrefix(<< >>, << >>)
  BY DEF IsPrefix

\* Of one piece, something is all.
LEMMA PrefixOfOne ==
  ASSUME NEW S, NEW q \in Seq(S), NEW r \in Seq(S), IsPrefix(q, r), Len(r) = 1, q # << >>
  PROVE  q = r
<1>1. Len(q) = 1 /\ Len(q) = Len(r)
  BY DEF IsPrefix
<1>2. SubSeq(q, 1, Len(q)) = q /\ SubSeq(r, 1, Len(r)) = r
  OBVIOUS
<1>3. QED
  BY <1>1, <1>2 DEF IsPrefix

\* Spawn starts with nothing said, ReadAnswer takes what has been said so far, and
\* no other step of execute.c touches it.
LEMMA CallerHears ==
  ASSUME IInv, Printed, Heard, Caller
  PROVE  Printed' /\ Heard'
<1> USE DEF At
<1>0. CallType /\ ChildKnown /\ CallType'
  BY TypeParts, CallerType DEF IInv
<1>f. Fields
  BY <1>0, CallFields
<1>1. CASE Spawn
  <2>1. PICK s \in IF call.asks THEN Says ELSE {<< >>} :
            child' = [NoChild EXCEPT !.is = "running", !.left = s, !.says = s]
    BY <1>1 DEF Spawn
  <2>2. s \in Seq(STRING)
    BY <2>1, ExecuteAssumption, SeqFacts
  <2>3. child'.is = "running" /\ child'.left = s /\ child'.says = s /\ ~child'.good
    BY <2>1 DEF NoChild
  <2>4. pipe'.text = << >> /\ pipe'.open = call.asks
    BY <1>1 DEF Spawn, NoPipe
  <2>5. call'.pc = (IF call.asks THEN "answer" ELSE "open") /\ call'.heard = << >>
    BY <1>0, <1>1 DEF Spawn, Heard, CallType, Call
  <2>6. << >> \o s = s /\ IsPrefix(<< >>, s)
    BY <2>2, SayNone, PrefixOfAll
  <2>7. Printed'
    BY <1>f, <2>3, <2>4, <2>5, <2>6 DEF Printed, Fields
  <2>8. ~call.asks => s = << >>
    BY <2>1
  <2>9. QED
    BY <1>f, <2>3, <2>5, <2>6, <2>7, <2>8 DEF Heard, Fields
<1>2. CASE ReadAnswer
  <2>1. call'.pc = "open" /\ call'.heard = pipe.text /\ UNCHANGED child
    BY <1>0, <1>2 DEF ReadAnswer, CallType, Call
  <2>2. pipe.text = << >> /\ child.says # << >> => child.is # "running" /\ ~child.good
    BY <1>f, <1>2 DEF ReadAnswer, Printed, Fields
  <2>3. QED
    BY <1>2, <2>1, <2>2 DEF ReadAnswer, Printed, Heard
<1>3. CASE OpenPipe \/ SpawnFailure
  <2>1. call'.pc \in {"spawn", "done"} /\ call'.heard = << >> /\ child' = NoChild
    BY <1>0, <1>3 DEF OpenPipe, SpawnFailure, Done, Heard, CallType, Call, ChildKnown
  <2>2. IsPrefix(<< >>, << >>)
    BY <1>f, PrefixOfAll DEF Fields
  <2>3. QED
    BY <2>1, <2>2 DEF Printed, Heard, NoChild
<1>4. CASE OpenPidfd \/ PollReady \/ PollTick \/ PollTimeout \/ BusyCheck \/ BusySleep \/ KillChild
  <2>1. /\ call.pc \in {"open", "poll", "check", "sleep", "kill"}
        /\ call'.pc \in {"poll", "check", "sleep", "kill", "done"}
        /\ call'.heard = call.heard
    <3>1. CASE OpenPidfd \/ PollTick \/ PollTimeout \/ BusySleep
      BY <1>0, <3>1 DEF OpenPidfd, PollTick, PollTimeout, BusySleep, CallType, Call
    <3>2. CASE PollReady \/ BusyCheck \/ KillChild
      BY <1>0, <3>2 DEF PollReady, BusyCheck, KillChild, Done, CallType, Call
    <3>3. QED
      BY <1>4, <3>1, <3>2
  <2>2. child' \in {child, Reaped} /\ UNCHANGED host
    BY <1>4 DEF OpenPidfd, PollReady, PollTick, PollTimeout, BusyCheck, BusySleep, KillChild
  <2>3. /\ child'.says = child.says /\ child'.good = child.good
        /\ child'.is \in {child.is, "none"}
    BY <1>0, <2>2 DEF Reaped, CallType, Child
  <2>4. QED
    BY <2>1, <2>2, <2>3 DEF Printed, Heard
<1>5. QED
  BY <1>1, <1>2, <1>3, <1>4 DEF Caller

\* When a poll or the read fails, nothing is heard.
LEMMA FaultsHear ==
  ASSUME IInv, Printed, Heard, Faults
  PROVE  Printed' /\ Heard'
<1> USE DEF At
<1>0. CallType
  BY TypeParts DEF IInv
<1>f. child.says \in Seq(STRING)
  BY <1>0, CallFields DEF Fields
<1>1. /\ call.pc \in {"answer", "poll"} /\ call'.pc \in {"open", "kill", "done"}
      /\ call'.heard = call.heard
      /\ call.pc = "poll" => UNCHANGED <<child, host>>
      /\ child'.says = child.says /\ host'.faulty
  BY <1>0 DEF Faults, WatchFails, NoAnswer, ReadFails, Done, CallType, Call, Child
<1>2. IsPrefix(<< >>, child.says)
  BY <1>f, PrefixOfAll
<1>3. QED
  BY <1>1, <1>2 DEF Printed, Heard

\* A child appends to the pipe what it has left to say, and exits well only when
\* that is nothing or left to another process.
LEMMA ChildrenHear ==
  ASSUME IInv, Printed, Heard, Children
  PROVE  Printed' /\ Heard'
<1> USE DEF At
<1>0. CallType /\ ChildKnown
  BY TypeParts DEF IInv
<1>f. Fields
  BY <1>0, CallFields
<1>c. UNCHANGED <<call, host>>
  BY DEF Children, Prints, Exits, LingererExits
<1>1. CASE Prints
  <2>1. /\ child'.is = child.is /\ child'.good = child.good /\ child'.says = child.says
        /\ child'.left = Tail(child.left)
        /\ pipe'.text = Append(pipe.text, Head(child.left)) /\ pipe'.open = pipe.open
    BY <1>0, <1>1 DEF Prints, CallType, Child, Pipe
  <2>2. /\ pipe'.text \in Seq(STRING) /\ child'.left \in Seq(STRING)
        /\ pipe'.text \o child'.left = pipe.text \o child.left
    <3>1. /\ pipe.text \in Seq(STRING) /\ child.left \in Seq(STRING)
          /\ child.left # << >>
      BY <1>f, <1>1 DEF Prints, Fields
    <3>2. Head(child.left) \in STRING /\ Tail(child.left) \in Seq(STRING)
      BY <3>1, SeqFacts
    <3>3. Append(pipe.text, Head(child.left)) \in Seq(STRING)
      BY <3>1, <3>2, SeqFacts
    <3>4. Append(pipe.text, Head(child.left)) \o Tail(child.left) = pipe.text \o child.left
      BY <3>1, SayOne
    <3>5. QED
      BY <2>1, <3>2, <3>3, <3>4
  <2>3. IsPrefix(pipe'.text, pipe'.text \o child'.left)
    BY <2>2, PrefixOfSum
  <2>4. At("answer") => pipe.open
    BY <1>1 DEF Prints, Printed
  <2>5. Printed'
    BY <1>c, <1>1, <2>1, <2>2, <2>3, <2>4 DEF Printed, Prints
  <2>6. Heard'
    BY <1>c, <2>1 DEF Heard
  <2>7. QED
    BY <2>5, <2>6
<1>2. CASE Exits
  <2>1. PICK good \in BOOLEAN, lingers \in {FALSE} \cup IF Lingers THEN {pipe.open} ELSE {} :
            /\ good => child.left = << >> \/ lingers
            /\ child' = [child EXCEPT !.is = "zombie", !.good = good, !.at = call.ticks,
                                     !.left = IF lingers THEN @ ELSE << >>]
            /\ pipe' = [pipe EXCEPT !.open = lingers]
    BY <1>2 DEF Exits
  <2>2. lingers \in {FALSE, pipe.open}
    BY <2>1
  <2>3. /\ child'.is = "zombie" /\ child'.good = good /\ child'.says = child.says
        /\ child'.left = (IF lingers THEN child.left ELSE << >>)
        /\ pipe'.text = pipe.text /\ pipe'.open = lingers
    BY <1>0, <2>1 DEF CallType, Child, Pipe
  <2>4. pipe.text \o << >> = pipe.text
    BY <1>f, SayNone DEF Fields
  <2>5. Printed'
    <3>1. SUFFICES ASSUME At("answer")'
                   PROVE  /\ lingers => pipe.text \o child'.left = child.says
                          /\ IsPrefix(pipe.text, child.says)
                          /\ good /\ ~lingers => pipe.text = child.says
      BY <2>3 DEF Printed
    <3>2. child.is = "running" /\ At("answer")
      BY <1>2, <1>c, <3>1 DEF Exits
    <3>3. pipe.open /\ pipe.text \o child.left = child.says /\ IsPrefix(pipe.text, child.says)
      BY <3>2 DEF Printed
    <3>4. lingers => child'.left = child.left
      BY <2>3
    <3>5. good /\ ~lingers => child.left = << >>
      BY <2>1
    <3>6. QED
      BY <2>4, <3>3, <3>4, <3>5
  <2>6. Heard'
    BY <1>c, <1>2, <2>3 DEF Heard, Exits
  <2>7. QED
    BY <2>5, <2>6
<1>3. CASE LingererExits
  <2>1. UNCHANGED child /\ pipe'.text = pipe.text /\ pipe'.open = FALSE
    BY <1>0, <1>3 DEF LingererExits, CallType, Pipe
  <2>2. pipe.text \o << >> = pipe.text
    BY <1>f, SayNone DEF Fields
  <2>3. QED
    BY <1>c, <1>3, <2>1, <2>2 DEF LingererExits, Printed, Heard
<1>4. QED
  BY <1>1, <1>2, <1>3 DEF Children

-----------------------------------------------------------------------------
(* Theorems.                                                               *)

\* Whatever the loops of lifecycle.c run and however execute.c watches it, every
\* variable keeps its type; in particular execute.c never has more descriptors open
\* than there are, and never closes one that it has not opened.
THEOREM PhaseTypes == Spec => []TypeOK
<1>1. IInv => TypeOK
  BY DEF IInv
<1>2. QED
  BY <1>1, Inductive, PTL

\* With any timeout and any kernel: lif_execute_fmt calls a program good only if it
\* has succeeded, and always if it did so in time.
THEOREM InTime == Spec => []InTimeHonoured
<1>1. IInv => InTimeHonoured
  BY DEF IInv
<1>2. QED
  BY <1>1, Inductive, PTL

\* Whatever an executor prints in pieces, and whatever it leaves behind: a query that
\* succeeds has read the beginning of it, and all if it came in one piece and poll did not fail, although
\* lif_execute_fmt_with_result reads once and before it waits for the exit.
THEOREM Hears == Spec => []HeardInOnePiece
<1> DEFINE HInv == IInv /\ Printed /\ Heard
<1>1. Init => HInv
  <2> SUFFICES ASSUME Init PROVE HInv
    OBVIOUS
  <2>1. call.pc = "idle"
    BY DEF Init, ExecuteInit, NoCall
  <2>2. QED
    BY <2>1, InitIInv DEF Printed, Heard, At
<1>2. HInv /\ [Next]_vars => HInv'
  <2> SUFFICES ASSUME HInv, [Next]_vars PROVE Printed' /\ Heard'
    BY NextIInv
  <2>1. CASE Caller /\ UNCHANGED pvars
    BY <2>1, CallerHears
  <2>2. CASE (Faults \/ Children) /\ UNCHANGED pvars
    BY <2>2, FaultsHear, ChildrenHear
  <2>3. CASE RunProgram
    <3>1. call'.pc \in {"pipe", "spawn"} /\ call'.heard = << >>
      BY <2>3 DEF RunProgram, Execute, NoCall
    <3>2. QED
      BY <3>1 DEF Printed, Heard, At
  <2>4. CASE ProgramReturns
    <3>1. call'.pc = "idle"
      BY <2>4, TypeParts DEF ProgramReturns, IInv, CallType, Call
    <3>2. QED
      BY <3>1 DEF Printed, Heard, At
  <2>5. CASE Begin \/ PassOver \/ EndOfLoop \/ Rest \/ UNCHANGED vars
    <3>1. UNCHANGED <<call, child, pipe, host>>
      BY <2>5, LoopsType DEF Rest, vars, xvars
    <3>2. QED
      BY <3>1 DEF Printed, Heard, At
  <2>6. QED
    BY <2>1, <2>2, <2>3, <2>4, <2>5 DEF Next, Program
<1>3. HInv => HeardInOnePiece
  <2> SUFFICES ASSUME HInv, At("done"), call.ret
               PROVE  /\ IsPrefix(call.heard, child.says)
                      /\ Len(child.says) = 1 /\ ~host.faulty => call.heard = child.says
    BY DEF HeardInOnePiece
  <2>1. Fields /\ child.good
    BY TypeParts, CallFields DEF IInv, InTimeHonoured
  <2>2. /\ IsPrefix(call.heard, child.says)
        /\ call.heard = << >> /\ ~host.faulty => child.says = << >>
    BY <2>1 DEF Heard, At
  <2>3. ASSUME Len(child.says) = 1, ~host.faulty PROVE call.heard = child.says
    <3>1. child.says # << >>
      BY <2>3
    <3>2. QED
      BY <2>1, <2>2, <2>3, <3>1, PrefixOfOne DEF Fields
  <2>4. QED
    BY <2>2, <2>3
<1>4. QED
  BY <1>1, <1>2, <1>3, PTL DEF Spec

-----------------------------------------------------------------------------
(* The lists of the loops.                                                 *)

Lists == Seq(Entry \cup {RunParts})

\* Lists with a first entry.
LEMMA FirstOf ==
  ASSUME NEW S, NEW x \in S, NEW q \in Seq(S), NEW r \in Seq(S)
  PROVE  /\ (<<x>> \o q) \o r = <<x>> \o (q \o r)
         /\ <<x>> \o q # << >> /\ Head(<<x>> \o q) = x /\ Tail(<<x>> \o q) = q
         /\ <<x>> \in Seq(S) /\ <<x>> \o << >> = <<x>>
  OBVIOUS

\* The members of a list are its entries.
LEMMA Members ==
  ASSUME NEW S, NEW s \in Seq(S)
  PROVE  /\ \A i \in 1 .. Len(s) : s[i] \in ToSet(s)
         /\ s # << >> => /\ Head(s) \in ToSet(s) /\ Tail(s) \in Seq(S)
                         /\ \A i \in 1 .. Len(Tail(s)) : Tail(s)[i] \in ToSet(s)
<1>1. s # << >> => \A i \in 1 .. Len(Tail(s)) : i + 1 \in 1 .. Len(s) /\ Tail(s)[i] = s[i + 1]
  OBVIOUS
<1>2. s # << >> => 1 \in 1 .. Len(s) /\ Head(s) = s[1] /\ Tail(s) \in Seq(S)
  OBVIOUS
<1>3. QED
  BY <1>1, <1>2 DEF ToSet

\* What a loop has to run are entries,
LEMMA RestType ==
  ASSUME NEW S, NEW s \in Seq(S), NEW j, NEW l
  PROVE  RestOf(j, l, s) \in Seq(S)
  BY ChosenType DEF RestOf

\* none of an empty list,
LEMMA RestNone == ASSUME NEW j, NEW l PROVE RestOf(j, l, << >>) = << >>
  BY ChosenNone DEF RestOf

\* or the first one, if it runs, and those of the rest,
LEMMA RestStep ==
  ASSUME NEW S, NEW s \in Seq(S), NEW j, NEW l, s # << >>
  PROVE  RestOf(j, l, s) = IF Runs(j, l, Head(s)) THEN <<Head(s)>> \o RestOf(j, l, Tail(s))
                                                  ELSE RestOf(j, l, Tail(s))
<1> DEFINE T == {e \in ToSet(s) : Runs(j, l, e)}
           U == {e \in ToSet(Tail(s)) : Runs(j, l, e)}
<1>1. Tail(s) \in Seq(S) /\ (Head(s) \in T <=> Runs(j, l, Head(s)))
  BY Members
<1>2. \A i \in 1 .. Len(Tail(s)) : Tail(s)[i] \in T <=> Tail(s)[i] \in U
  BY <1>1, Members
<1> HIDE DEF T, U
<1>3. Chosen(Tail(s), T) = Chosen(Tail(s), U)
  BY <1>1, <1>2, ChosenAgree
<1>4. Chosen(s, T) = IF Head(s) \in T THEN <<Head(s)>> \o Chosen(Tail(s), T)
                                      ELSE Chosen(Tail(s), T)
  BY ChosenStep
<1>5. QED
  BY <1>1, <1>3, <1>4 DEF RestOf, T, U

\* and only which of them run matters.
LEMMA RestAgree ==
  ASSUME NEW S, NEW s \in Seq(S), NEW j, NEW l, NEW T,
         \A e \in ToSet(s) : Runs(j, l, e) <=> e \in T
  PROVE  RestOf(j, l, s) = Chosen(s, T)
<1>1. \A i \in 1 .. Len(s) : s[i] \in {e \in ToSet(s) : Runs(j, l, e)} <=> s[i] \in T
  BY Members
<1>2. QED
  BY <1>1, ChosenAgree DEF RestOf

\* The addon scripts, unless they are mocked.
LEMMA AddonsRest ==
  ASSUME NEW j
  PROVE  RestOf(j, "addon", Addons) = IF Query(j) \/ ~j.mock THEN Addons ELSE << >>
<1>1. Addons \in {<< >>, <<RunParts>>}
  BY DEF Addons
<1>2. CASE Addons = << >>
  BY <1>2, RestNone
<1>3. CASE Addons = <<RunParts>>
  <2>1. <<RunParts>> \in Seq({RunParts}) /\ <<RunParts>> # << >>
        /\ Head(<<RunParts>>) = RunParts /\ Tail(<<RunParts>>) = << >>
        /\ <<RunParts>> \o << >> = <<RunParts>>
    <3>1. RunParts \in {RunParts}
      OBVIOUS
    <3> HIDE DEF RunParts
    <3>2. QED
      BY <3>1
  <2>2. Runs(j, "addon", RunParts) <=> Query(j) \/ ~j.mock
    BY DEF Runs
  <2>3. RestOf(j, "addon", <<RunParts>>) =
            IF Runs(j, "addon", RunParts) THEN <<RunParts>> \o RestOf(j, "addon", << >>)
                                          ELSE RestOf(j, "addon", << >>)
    <3> DEFINE s == <<RunParts>>
    <3>1. s \in Seq({RunParts}) /\ s # << >> /\ Head(s) = RunParts /\ Tail(s) = << >>
      BY <2>1
    <3> HIDE DEF s
    <3>2. RestOf(j, "addon", s) =
            IF Runs(j, "addon", Head(s)) THEN <<Head(s)>> \o RestOf(j, "addon", Tail(s))
                                         ELSE RestOf(j, "addon", Tail(s))
      BY <3>1, RestStep
    <3>3. QED
      BY <3>1, <3>2 DEF s
  <2>4. RestOf(j, "addon", << >>) = << >>
    BY RestNone
  <2>5. QED
    BY <1>3, <2>1, <2>2, <2>3, <2>4
<1>4. QED
  BY <1>1, <1>2, <1>3

\* The phases have names of their own.
LEMMA PhaseNames ==
  ASSUME NEW j \in Jobs
  PROVE  /\ j.phase \notin {"", "addon"} /\ j.up \in BOOLEAN /\ j.mock \in BOOLEAN
         /\ Query(j) \in BOOLEAN
  BY PhaseAssumption DEF Job, Phases, Query

\* PhasePromise and RunPhase mean the same by operators of a library.
LEMMA SameWords ==
  /\ \A s, T : Promise!Chosen(s, T) = Chosen(s, T)
  /\ \A s : Promise!ToSet(s) = ToSet(s)
  /\ \A s : Promise!Reverse(s) = Reverse(s)
  /\ \A s, e : Promise!Contains(s, e) <=> Contains(s, e)
<1>1. \A s, T : Promise!ChosenLast(s, T) = ChosenLast(s, T)
  BY DEF Promise!ChosenLast, ChosenLast
<1>2. \A s, T : Promise!Chosen(s, T) = Chosen(s, T)
  BY <1>1 DEF Promise!Chosen, Chosen
<1>3. QED
  BY <1>2 DEF Promise!ToSet, ToSet, Promise!Reverse, Reverse, Promise!Contains, Contains

\* What lifecycle.c is about to run when it begins is the plan of PhasePromise.
LEMMA PlanAtBegin ==
  ASSUME LoopType, NEW j \in Jobs
  PROVE  RestOf(j, "use", Executors(j))
             \o (IF ~Query(j) THEN RestOf(j, "command", entries) \o RestOf(j, "addon", Addons)
                              ELSE << >>)
           = Promise!PlanOf(entries, j)
<1> DEFINE v == entries
           x == Executors(j)
           use == {e \in ToSet(x) : e.key = "use" /\ e.cmd \in Installed}
           cmd == {e \in ToSet(v) : e.key = j.phase}
           on == Query(j) \/ ~j.mock
<1>0. /\ v \in Lists /\ x \in Lists /\ Chosen(x, use) \in Lists
      /\ (Query(j) => x = v) /\ x = (IF Query(j) \/ j.up THEN v ELSE Reverse(v))
  <2>1. v \in Lists
    BY EntriesType DEF Lists
  <2>2. x \in Lists
    BY <2>1, Reversed DEF Executors, Lists
  <2>3. QED
    BY <2>1, <2>2, ChosenType DEF Executors, Lists
<1>1. Promise!Used(x) = Chosen(x, use) /\ Promise!Commands(v, j.phase) = Chosen(v, cmd)
  BY SameWords DEF Promise!Used, Promise!Commands
<1> HIDE DEF x, v
<1>2. ASSUME on PROVE RestOf(j, "use", x) = Chosen(x, use)
  <2>1. \A e \in ToSet(x) : Runs(j, "use", e) <=> e \in use
    BY <1>2 DEF Runs, IsUse
  <2>2. QED
    BY <1>0, <2>1, RestAgree DEF Lists
<1>3. ASSUME on PROVE RestOf(j, "command", v) = Chosen(v, cmd)
  <2>1. \A e \in ToSet(v) : Runs(j, "command", e) <=> e \in cmd
    BY <1>3 DEF Runs
  <2>2. QED
    BY <1>0, <2>1, RestAgree DEF Lists
<1>4. ASSUME ~on PROVE RestOf(j, "use", x) = << >> /\ RestOf(j, "command", v) = << >>
  <2>1. /\ \A e \in ToSet(x) : Runs(j, "use", e) <=> e \in {}
        /\ \A e \in ToSet(v) : Runs(j, "command", e) <=> e \in {}
    BY <1>4 DEF Runs
  <2>2. RestOf(j, "use", x) = Chosen(x, {}) /\ RestOf(j, "command", v) = Chosen(v, {})
    BY <1>0, <2>1, RestAgree DEF Lists
  <2>3. QED
    BY <1>0, <2>2, ChosenFromNone DEF Lists
<1>5. RestOf(j, "addon", Addons) = IF on THEN Addons ELSE << >>
  BY AddonsRest
<1>6. CASE Query(j)
  <2>1. Chosen(x, use) \o << >> = Chosen(x, use)
    BY <1>0, SayNone DEF Lists
  <2>2. Promise!PlanOf(v, j) = Promise!Used(v)
    BY <1>6 DEF Promise!PlanOf, Query
  <2>3. QED
    BY <1>0, <1>1, <1>2, <1>6, <2>1, <2>2 DEF v, x
<1>7. CASE ~Query(j) /\ j.mock
  <2>1. Promise!PlanOf(v, j) = << >>
    BY <1>7 DEF Promise!PlanOf, Query
  <2>2. << >> \o << >> = << >>
    OBVIOUS
  <2>3. QED
    BY <1>4, <1>5, <1>7, <2>1, <2>2 DEF v, x
<1>8. CASE ~Query(j) /\ ~j.mock
  <2>1. Promise!PlanOf(v, j) = Promise!Used(IF j.up THEN v ELSE Reverse(v))
                                  \o (Promise!Commands(v, j.phase) \o Addons)
    BY <1>8, SameWords DEF Promise!PlanOf, Query
  <2>2. x = IF j.up THEN v ELSE Reverse(v)
    BY <1>0, <1>8
  <2>3. QED
    BY <1>1, <1>2, <1>3, <1>5, <1>8, <2>1, <2>2 DEF v, x
<1>9. QED
  BY <1>6, <1>7, <1>8, PhaseNames

-----------------------------------------------------------------------------
(* Where the loops are.                                                    *)

\* A program is executed exactly while there is an entry for it; only the addon
\* scripts run in the last loop, and never in another one; a query has one loop.
LoopsKnown ==
    /\ loop = "none" => left = << >> /\ item = NoEntry
    /\ At("idle") <=> item = NoEntry
    /\ loop # "none" => job \in Jobs
    /\ loop \in {"command", "addon"} => ~Query(job)
    /\ loop = "addon" => Addon /\ left \in {<< >>, <<RunParts>>} /\ item \in {NoEntry, RunParts}
    /\ loop \in {"use", "command"} => item # RunParts

\* Names of entries that no variable has.
LEMMA EntriesApart ==
  /\ RunParts # NoEntry
  /\ \A e : e.key = "use" => e # RunParts /\ e # NoEntry
  /\ \A j \in Jobs : \A e : e.key = j.phase => e # RunParts /\ e # NoEntry
<1>1. RunParts.key = "addon" /\ NoEntry.key = ""
  BY DEF RunParts, NoEntry
<1>2. QED
  BY <1>1, PhaseNames

\* execute.c stays busy until it is done.
LEMMA CallerBusy ==
  ASSUME IInv, Caller
  PROVE  ~At("idle") /\ call'.pc # "idle"
<1>0. call \in Call
  BY TypeParts DEF IInv, CallType
<1> USE DEF At
<1>1. CASE OpenPipe \/ SpawnFailure \/ Spawn \/ ReadAnswer
  BY <1>0, <1>1 DEF OpenPipe, SpawnFailure, Spawn, ReadAnswer, Done, Call
<1>2. CASE OpenPidfd \/ PollTick \/ PollTimeout \/ BusySleep
  BY <1>0, <1>2 DEF OpenPidfd, PollTick, PollTimeout, BusySleep, Call
<1>3. CASE PollReady \/ BusyCheck \/ KillChild
  BY <1>0, <1>3 DEF PollReady, BusyCheck, KillChild, Done, Call
<1>4. QED
  BY <1>1, <1>2, <1>3 DEF Caller

\* So it does when a poll or the read fails.
LEMMA FaultsBusy ==
  ASSUME IInv, Faults
  PROVE  ~At("idle") /\ call'.pc # "idle"
<1>0. call \in Call
  BY TypeParts DEF IInv, CallType
<1>1. QED
  BY <1>0 DEF Faults, WatchFails, NoAnswer, ReadFails, Done, Call, At

\* After a program the caller is idle.
LEMMA ReturnIdle ==
  ASSUME IInv, ProgramReturns
  PROVE  call'.pc = "idle" /\ ~At("idle")
  BY TypeParts DEF ProgramReturns, At, IInv, CallType, Call

\* While a program is chosen it is none that is called like the addon scripts,
\* except these.
LEMMA NextLoops == IInv /\ LoopsKnown /\ [Next]_vars => LoopsKnown'
<1> SUFFICES ASSUME IInv, LoopsKnown, [Next]_vars PROVE LoopsKnown'
  OBVIOUS
<1>0. left \in Lists
  BY TypeParts DEF IInv, LoopType, Lists
<1>1. CASE Begin
  <2>1. job' \in Jobs /\ loop' = "use" /\ item' = NoEntry /\ UNCHANGED call /\ loop = "none"
    BY <1>1 DEF Begin, xvars
  <2>2. QED
    BY <2>1, EntriesApart DEF LoopsKnown, At
<1>2. CASE PassOver
  <2>1. /\ UNCHANGED <<call, job, loop, item>> /\ left' = Tail(left)
        /\ loop # "none" /\ left # << >>
    BY <1>2 DEF PassOver, Visiting, xvars
  <2>2. loop = "addon" => left' = << >>
    <3>1. loop = "addon" => left = <<RunParts>>
      BY <2>1 DEF LoopsKnown
    <3>2. Tail(<<RunParts>>) = << >>
      OBVIOUS
    <3>3. QED
      BY <2>1, <3>1, <3>2
  <2>3. QED
    BY <2>1, <2>2 DEF LoopsKnown, At
<1>3. CASE RunProgram
  <2>1. /\ Visiting /\ Runs(job, loop, Head(left)) /\ item' = Head(left) /\ left' = Tail(left)
        /\ UNCHANGED <<job, loop>> /\ call'.pc # "idle"
    BY <1>3 DEF RunProgram, Execute, NoCall
  <2>2. CASE loop = "addon"
    <3>1. left = <<RunParts>>
      BY <2>1, <2>2 DEF Visiting, LoopsKnown
    <3>2. item' = RunParts /\ left' = << >>
      BY <2>1, <3>1
    <3>3. QED
      BY <2>1, <2>2, <3>2, EntriesApart DEF LoopsKnown, At
  <2>3. CASE loop \in {"use", "command"}
    <3>1. item' # RunParts /\ item' # NoEntry
      <4>1. loop # "none" /\ job \in Jobs
        BY <2>3 DEF LoopsKnown
      <4>2. CASE loop = "use"
        <5>1. item'.key = "use"
          BY <2>1, <4>2 DEF Runs, IsUse
        <5>2. QED
          BY <5>1, EntriesApart
      <4>3. CASE loop = "command"
        <5>1. item'.key = job.phase
          BY <2>1, <4>3 DEF Runs
        <5>2. QED
          BY <4>1, <5>1, EntriesApart
      <4>4. QED
        BY <2>3, <4>2, <4>3
    <3>2. QED
      BY <2>1, <2>3, <3>1 DEF LoopsKnown, At
  <2>4. QED
    BY <2>1, <2>2, <2>3, TypeParts DEF Visiting, IInv, LoopType
<1>4. CASE ProgramReturns
  <2>1. call'.pc = "idle" /\ item' = NoEntry /\ UNCHANGED job
        /\ (UNCHANGED <<loop, left>> \/ (loop' = "none" /\ left' = << >>))
    BY <1>4, ReturnIdle DEF ProgramReturns, Finish
  <2>2. loop # "none"
    BY <1>4, ReturnIdle DEF LoopsKnown
  <2>3. QED
    BY <2>1, <2>2, EntriesApart DEF LoopsKnown, At
<1>5. CASE EndOfLoop
  <2>1. /\ UNCHANGED <<call, job>> /\ loop # "none" /\ At("idle") /\ item = NoEntry
        /\ item' = NoEntry
    BY <1>5 DEF EndOfLoop, Finish, xvars, LoopsKnown
  <2>2. CASE loop = "use" /\ ~Query(job)
    BY <1>5, <2>1, <2>2, EntriesApart DEF EndOfLoop, LoopsKnown, At, Query
  <2>3. CASE loop = "command" /\ Addon
    BY <1>5, <2>1, <2>3, EntriesApart DEF EndOfLoop, LoopsKnown, At, Query
  <2>4. CASE ~(loop = "use" /\ ~Query(job)) /\ ~(loop = "command" /\ Addon)
    BY <1>5, <2>1, <2>4, EntriesApart DEF EndOfLoop, Finish, LoopsKnown, At
  <2>5. QED
    BY <2>2, <2>3, <2>4
<1>6. CASE (Caller \/ Faults) /\ UNCHANGED pvars
  BY <1>6, CallerBusy, FaultsBusy DEF LoopsKnown, At, pvars, Query
<1>7. CASE (Children /\ UNCHANGED pvars) \/ Rest \/ UNCHANGED vars
  <2>1. UNCHANGED <<call, job, loop, left, item>>
    BY <1>7 DEF Children, Prints, Exits, LingererExits, Rest, vars, xvars, pvars
  <2>2. QED
    BY <2>1 DEF LoopsKnown, At, Query
<1>8. QED
  BY <1>1, <1>2, <1>3, <1>4, <1>5, <1>6, <1>7 DEF Next, Program

\* At first no loop runs.
LEMMA InitLoops == Init => LoopsKnown
  BY DEF Init, ExecuteInit, NoCall, LoopsKnown, At

-----------------------------------------------------------------------------
(* The steps of PhasePromise.                                              *)

\* What is ahead are entries.
LEMMA AheadType ==
  ASSUME LoopType
  PROVE  LaterLoops \in Lists /\ RestOf(job, loop, left) \in Lists /\ Ahead \in Lists
<1>1. entries \in Lists /\ Addons \in Lists /\ left \in Lists /\ << >> \in Lists
  <2>1. entries \in Lists /\ left \in Lists /\ << >> \in Lists
    BY EntriesType, SeqFacts DEF Lists, LoopType
  <2>2. <<RunParts>> \in Lists
    <3>1. RunParts \in Entry \cup {RunParts}
      OBVIOUS
    <3> HIDE DEF RunParts
    <3>2. QED
      BY <3>1 DEF Lists
  <2>3. QED
    BY <2>1, <2>2 DEF Addons
<1>2. \A q, r \in Lists : q \o r \in Lists
  BY SeqFacts DEF Lists
<1>3. \A q \in Lists : \A j, l : RestOf(j, l, q) \in Lists
  BY RestType DEF Lists
<1>4. LaterLoops \in Lists
  BY <1>1, <1>2, <1>3 DEF LaterLoops
<1>5. QED
  BY <1>1, <1>2, <1>3, <1>4 DEF Ahead

\* The same after a step.
LEMMA AheadTypeNext == LoopType' => (Ahead \in Lists)'
<1>1. LoopType => Ahead \in Lists
  BY AheadType
<1>2. QED
  BY <1>1, PTL

\* A loop at its end has nothing to run: what is ahead is what comes after it.
LEMMA AheadAtEnd ==
  ASSUME LoopType, left = << >>
  PROVE  Ahead = LaterLoops
  BY RestNone, AheadType, SayNone DEF Ahead, Lists

\* A step of execute.c maps to a step of PhasePromise or to none.
LEMMA CallerKeeps ==
  ASSUME IInv, LoopsKnown, IInv', Caller \/ Faults, UNCHANGED pvars
  PROVE  [Promise!Next]_(Promise!vars)
<1>0. CallType /\ ChildKnown /\ LoopType /\ CallType' /\ ChildKnown' /\ Ahead \in Lists
  BY TypeParts, AheadType, PTL DEF IInv
<1>1. /\ UNCHANGED <<entries, job, loop, left, item, verdict>>
      /\ UNCHANGED Ahead
  BY DEF pvars, Ahead, LaterLoops
<1>b. UNCHANGED <<entries, job, loop # "none", verdict>>
  BY <1>1
<1>c. HasFailed \in BOOLEAN /\ HasFailed' \in BOOLEAN
  BY DEF HasFailed
<1>2. loop # "none" /\ item # NoEntry /\ item \in Entry \cup {RunParts}
  BY CallerBusy, FaultsBusy, <1>0 DEF LoopsKnown, LoopType
<1>3. item = RunParts <=> Promise!Ignored(item)
  <2>1. item = RunParts => Addon
    BY <1>0, <1>2 DEF LoopsKnown, LoopType
  <2>2. Addons = <<RunParts>> => 1 \in 1 .. Len(Addons) /\ Addons[1] = RunParts
    OBVIOUS
  <2>3. \A i \in 1 .. Len(Addons) : Addons[i] = RunParts
    BY DEF Addons
  <2>4. QED
    BY <2>1, <2>2, <2>3, SameWords DEF Addons, Promise!Ignored, Contains
<1>4. CASE OpenPipe \/ SpawnFailure \/ Spawn
  <2>1. /\ call.pc \in {"pipe", "spawn"} /\ ~Awaited
        /\ StillToRun = <<item>> \o Ahead /\ Running = NoEntry /\ ~HasFailed
    <3>1. call.pc \in {"pipe", "spawn"}
      BY <1>4 DEF OpenPipe, SpawnFailure, Spawn, At
    <3>2. ~Awaited
      BY <1>0, <3>1 DEF ChildKnown, Waits
    <3>3. ~HasFailed
      BY <3>1 DEF HasFailed, At
    <3>4. NotStarted = <<item>>
      BY <3>1 DEF NotStarted
    <3>5. QED
      BY <3>1, <3>2, <3>3, <3>4 DEF StillToRun, Running
  <2>2. StillToRun # << >> /\ Head(StillToRun) = item /\ Tail(StillToRun) = Ahead
    BY <1>0, <1>2, <2>1, FirstOf DEF Lists
  <2>3. CASE Spawn
    <3>1. /\ call'.pc \in {"answer", "open"} /\ Awaited'
      BY <1>0, <2>3 DEF Spawn, Call, CallType, NoChild, Awaited
    <3>2. StillToRun' = << >> \o Ahead /\ Running' = item /\ ~HasFailed'
      BY <1>1, <1>2, <3>1 DEF StillToRun, NotStarted, HasFailed, Running, At
    <3>3. StillToRun' = Ahead
      BY <1>0, <3>2, SayNone DEF Lists
    <3>f. HasFailed' = HasFailed
      BY <1>c, <2>1, <3>2
    <3>4. Promise!Start
      BY <1>b, <1>2, <2>1, <2>2, <3>2, <3>3, <3>f DEF Promise!Start
    <3>5. QED
      BY <3>4 DEF Promise!Next
  <2>4. CASE (OpenPipe \/ SpawnFailure) /\ call'.pc = "done"
    <3>1. ~call'.ret /\ child' = child
      BY <1>0, <2>4 DEF OpenPipe, SpawnFailure, Done, CallType, Call
    <3>2. Running' = NoEntry
      BY <2>1, <3>1 DEF Running, Awaited
    <3>3. CASE item = RunParts
      <4>1. ~HasFailed' /\ StillToRun' = << >> \o Ahead
        BY <1>1, <2>4, <3>3 DEF HasFailed, StillToRun, NotStarted
      <4>2. StillToRun' = Ahead
        BY <1>0, <4>1, SayNone DEF Lists
      <4>f. HasFailed' = HasFailed /\ Running' = Running
        BY <1>c, <2>1, <3>2, <4>1
      <4>3. Promise!CannotStart
        BY <1>b, <1>3, <2>1, <2>2, <3>3, <4>f, <4>2 DEF Promise!CannotStart
      <4>4. QED
        BY <4>3 DEF Promise!Next
    <3>4. CASE item # RunParts
      <4>1. HasFailed' /\ StillToRun' = << >>
        BY <1>1, <2>4, <3>1, <3>4 DEF HasFailed, StillToRun, At
      <4>2. Promise!CannotStart
        BY <1>1, <1>3, <2>1, <2>2, <3>2, <3>4, <4>1 DEF Promise!CannotStart
      <4>3. QED
        BY <4>2 DEF Promise!Next
    <3>5. QED
      BY <3>3, <3>4
  <2>5. CASE (OpenPipe \/ SpawnFailure) /\ call'.pc # "done"
    <3>1. call'.pc = "spawn" /\ child' = child
      BY <1>0, <2>5 DEF OpenPipe, SpawnFailure, Done, CallType, Call
    <3>2. StillToRun' = StillToRun /\ Running' = Running /\ HasFailed' = HasFailed
      BY <1>1, <2>1, <3>1 DEF StillToRun, NotStarted, HasFailed, Running, Awaited, At
    <3>3. QED
      BY <1>1, <3>2 DEF Promise!vars
  <2>6. QED
    BY <1>4, <2>3, <2>4, <2>5
<1>5. CASE (PollReady \/ BusyCheck \/ KillChild \/ ReadFails) /\ call'.pc = "done"
  <2>1. /\ call.pc \in Waits /\ call.pc \notin {"pipe", "spawn", "done"}
        /\ Awaited /\ ~Awaited'
    BY <1>0, <1>5 DEF PollReady, BusyCheck, KillChild, ReadFails, At, Waits, ChildKnown
  <2>2. /\ Running = item /\ ~HasFailed /\ StillToRun = << >> \o Ahead /\ Running' = NoEntry
    BY <1>2, <2>1 DEF Running, HasFailed, StillToRun, NotStarted, At
  <2>3. CASE HasFailed'
    <3>1. item # RunParts /\ StillToRun' = << >>
      BY <1>1, <2>3 DEF HasFailed, StillToRun
    <3>2. Promise!End
      BY <1>1, <1>2, <1>3, <2>2, <2>3, <3>1 DEF Promise!End
    <3>3. QED
      BY <3>2 DEF Promise!Next
  <2>4. CASE ~HasFailed'
    <3>1. StillToRun' = << >> \o Ahead
      BY <1>1, <1>5, <2>4 DEF StillToRun, NotStarted
    <3>f. HasFailed' = HasFailed /\ StillToRun' = StillToRun
      BY <1>c, <2>2, <2>4, <3>1
    <3>2. Promise!End
      BY <1>b, <1>2, <2>2, <3>f DEF Promise!End
    <3>3. QED
      BY <3>2 DEF Promise!Next
  <2>5. QED
    BY <2>3, <2>4
<1>6. CASE \/ ReadAnswer \/ OpenPidfd \/ PollTick \/ PollTimeout \/ BusySleep
           \/ WatchFails \/ NoAnswer \/ (BusyCheck /\ call'.pc # "done")
  <2>1. /\ call.pc \notin {"pipe", "spawn", "done"}
        /\ call'.pc \notin {"pipe", "spawn", "done"} /\ child' = child
    BY <1>0, <1>6 DEF ReadAnswer, OpenPidfd, PollTick, PollTimeout, BusySleep, BusyCheck,
                      WatchFails, NoAnswer, At, Done, CallType, Call
  <2>2. StillToRun' = StillToRun /\ Running' = Running /\ HasFailed' = HasFailed
    BY <1>1, <2>1 DEF StillToRun, NotStarted, HasFailed, Running, Awaited, At
  <2>3. QED
    BY <1>1, <2>2 DEF Promise!vars
<1>7. PollReady \/ KillChild \/ ReadFails => call'.pc = "done"
  BY <1>0 DEF PollReady, KillChild, ReadFails, Done, CallType, Call
<1>8. QED
  BY <1>4, <1>5, <1>6, <1>7 DEF Caller, Faults

\* So does beginning, with the plan of PhasePromise;
LEMMA BeginKeeps ==
  ASSUME IInv, LoopsKnown, Begin
  PROVE  Promise!Begin
<1>0. CallType /\ ChildKnown /\ LoopType
  BY TypeParts DEF IInv
<1>1. PICK j \in Jobs : job' = j /\ left' = Executors(j)
  BY DEF Begin
<1>2. /\ loop = "none" /\ loop' = "use" /\ UNCHANGED <<call, child, entries, verdict>>
      /\ call.pc = "idle" /\ ~Awaited
  BY <1>0 DEF Begin, xvars, LoopsKnown, At, ChildKnown, Waits
<1>3. Running = NoEntry /\ Running' = NoEntry
  BY <1>2 DEF Running, Awaited
<1>4. HasFailed = FALSE /\ HasFailed' = FALSE /\ NotStarted' = << >>
  BY <1>2 DEF HasFailed, At, NotStarted
<1>5. Ahead' = RestOf(j, "use", Executors(j))
                   \o (IF ~Query(j)
                       THEN RestOf(j, "command", entries) \o RestOf(j, "addon", Addons)
                       ELSE << >>)
  BY <1>1, <1>2 DEF Ahead, LaterLoops
<1>6. Ahead' = Promise!PlanOf(entries, job')
  BY <1>0, <1>1, <1>5, PlanAtBegin
<1>7. StillToRun' = Promise!PlanOf(entries, job')
  <2>1. LoopType'
    BY LoopsType
  <2>2. Ahead' \in Lists
    BY <2>1, AheadTypeNext DEF Lists, Entry
  <2>3. << >> \o Ahead' = Ahead'
    BY <2>2, SayNone DEF Lists
  <2>4. QED
    BY <1>4, <1>6, <2>3 DEF StillToRun
<1>8. QED
  BY <1>1, <1>2, <1>3, <1>4, <1>7 DEF Promise!Begin

\* visiting an entry changes nothing: it is ahead, then about to be started;
LEMMA VisitKeeps ==
  ASSUME IInv, LoopsKnown, PassOver \/ RunProgram
  PROVE  UNCHANGED Promise!vars
<1>0. CallType /\ ChildKnown /\ LoopType /\ left \in Lists /\ LaterLoops \in Lists
  BY TypeParts, AheadType DEF IInv, LoopType, Lists
<1> DEFINE h == Head(left)
           t == Tail(left)
           rest == RestOf(job, loop, t)
<1>1. /\ loop # "none" /\ call.pc = "idle" /\ left # << >> /\ left' = t
      /\ UNCHANGED <<entries, job, loop, verdict>> /\ ~Awaited
  BY <1>0 DEF PassOver, RunProgram, Visiting, At, ChildKnown, Waits
<1>2. HasFailed = FALSE /\ NotStarted = << >> /\ Running = NoEntry
  BY <1>1 DEF HasFailed, At, NotStarted, Running
<1>3. Ahead' = rest \o LaterLoops
  BY <1>1 DEF Ahead, LaterLoops
<1>t. h \in Entry \cup {RunParts} /\ t \in Lists
  BY <1>0, <1>1, SeqFacts DEF Lists
<1> HIDE DEF h, t
<1>4. rest \in Lists
  BY <1>t, RestType DEF Lists
<1>5. Ahead = (IF Runs(job, loop, h) THEN <<h>> \o rest ELSE rest) \o LaterLoops
  <2>1. RestOf(job, loop, left) = IF Runs(job, loop, h) THEN <<h>> \o rest ELSE rest
    BY <1>0, <1>1, RestStep DEF Lists, h, t
  <2>2. QED
    BY <2>1 DEF Ahead
<1> HIDE DEF rest
<1>6. << >> \o Ahead = Ahead
  BY <1>0, AheadType, SayNone DEF Lists
<1>7. CASE PassOver
  <2>1. UNCHANGED <<call, child, item>> /\ ~Runs(job, loop, h)
    BY <1>7 DEF PassOver, xvars, h
  <2>2. HasFailed' = FALSE /\ NotStarted' = << >> /\ Running' = NoEntry
    BY <1>1, <2>1 DEF HasFailed, At, NotStarted, Running, Awaited
  <2>3. Ahead' = Ahead
    BY <1>3, <1>5, <2>1
  <2>4. StillToRun' = StillToRun
    BY <1>2, <2>2, <2>3 DEF StillToRun
  <2>5. QED
    BY <1>1, <1>2, <2>2, <2>4 DEF Promise!vars
<1>8. CASE RunProgram
  <2>1. /\ Runs(job, loop, h) /\ item' = h /\ call'.pc \in {"pipe", "spawn"}
        /\ ~Awaited'
    BY <1>8 DEF RunProgram, Execute, NoCall, NoChild, Awaited, h
  <2>2. HasFailed' = FALSE /\ NotStarted' = <<h>> /\ Running' = NoEntry
    BY <2>1 DEF HasFailed, At, NotStarted, Running
  <2>3. (<<h>> \o rest) \o LaterLoops = <<h>> \o (rest \o LaterLoops)
    BY <1>0, <1>t, <1>4, FirstOf DEF Lists
  <2>4. StillToRun' = StillToRun
    BY <1>2, <1>3, <1>5, <1>6, <2>1, <2>2, <2>3 DEF StillToRun
  <2>5. QED
    BY <1>1, <1>2, <2>2, <2>4 DEF Promise!vars
<1>9. QED
  BY <1>7, <1>8

\* neither does the return of a program, unless its failure ends the phase;
LEMMA ReturnKeeps ==
  ASSUME IInv, LoopsKnown, ProgramReturns
  PROVE  [Promise!Next]_(Promise!vars)
<1>0. CallType /\ ChildKnown /\ LoopType /\ Ahead \in Lists
  BY TypeParts, AheadType DEF IInv
<1>1. /\ call.pc = "done" /\ call'.pc = "idle" /\ ~Awaited /\ ~Awaited'
      /\ UNCHANGED <<entries, job>> /\ loop # "none"
  BY <1>0, ReturnIdle DEF ProgramReturns, At, ChildKnown, Waits, Awaited, LoopsKnown
<1>2. /\ Running = NoEntry /\ Running' = NoEntry /\ HasFailed' = FALSE
      /\ NotStarted = << >> /\ NotStarted' = << >>
  BY <1>1 DEF Running, Awaited, HasFailed, At, NotStarted
<1>3. CASE call.ret \/ item = RunParts
  <2>1. UNCHANGED <<loop, left, verdict>> /\ HasFailed = FALSE
    BY <1>3 DEF ProgramReturns, HasFailed
  <2>2. Ahead' = Ahead
    BY <1>1, <2>1 DEF Ahead, LaterLoops
  <2>3. StillToRun' = StillToRun
    BY <1>2, <2>1, <2>2 DEF StillToRun
  <2>4. QED
    BY <1>1, <1>2, <2>1, <2>3 DEF Promise!vars
<1>4. CASE ~(call.ret \/ item = RunParts)
  <2>1. HasFailed = TRUE /\ StillToRun = << >>
    BY <1>1, <1>4 DEF HasFailed, At, StillToRun
  <2>2. loop' = "none" /\ left' = << >> /\ verdict' = FALSE
    BY <1>4 DEF ProgramReturns, Finish
  <2>3. Ahead' = << >>
    <3>1. LaterLoops' = << >> /\ RestOf(job, "none", << >>) = << >>
      BY <2>2, RestNone DEF LaterLoops
    <3>2. Ahead' = << >> \o << >>
      BY <1>1, <2>2, <3>1 DEF Ahead
    <3>3. QED
      BY <3>2
  <2>4. StillToRun' = << >>
    BY <1>2, <2>3 DEF StillToRun
  <2>5. Promise!Report
    BY <1>1, <1>2, <2>1, <2>2, <2>4 DEF Promise!Report
  <2>6. QED
    BY <2>5 DEF Promise!Next
<1>5. QED
  BY <1>3, <1>4

\* nor the end of a loop, unless it is the last one.
LEMMA EndKeeps ==
  ASSUME IInv, LoopsKnown, EndOfLoop
  PROVE  [Promise!Next]_(Promise!vars)
<1>0. CallType /\ ChildKnown /\ LoopType /\ LaterLoops \in Lists
  BY TypeParts, AheadType DEF IInv
<1>1. /\ loop # "none" /\ call.pc = "idle" /\ left = << >> /\ ~Awaited
      /\ UNCHANGED <<call, child, entries, job>>
  BY <1>0 DEF EndOfLoop, At, xvars, ChildKnown, Waits
<1>2. /\ Running = NoEntry /\ Running' = NoEntry /\ HasFailed = FALSE /\ HasFailed' = FALSE
      /\ NotStarted = << >> /\ NotStarted' = << >>
  BY <1>1 DEF Running, Awaited, HasFailed, At, NotStarted
<1>3. Ahead = LaterLoops /\ StillToRun = Ahead
  BY <1>0, <1>1, <1>2, AheadAtEnd, SayNone DEF StillToRun, Lists
<1>4. CASE loop = "use" /\ ~Query(job)
  <2>1. loop' = "command" /\ left' = entries /\ UNCHANGED <<item, verdict>>
    BY <1>4 DEF EndOfLoop
  <2>2. Ahead' = LaterLoops
    BY <1>1, <1>4, <2>1 DEF Ahead, LaterLoops
  <2>3. StillToRun' = StillToRun
    BY <1>2, <1>3, <2>2 DEF StillToRun
  <2>4. QED
    BY <1>1, <1>2, <2>1, <2>3 DEF Promise!vars
<1>5. CASE loop = "command" /\ Addon
  <2>1. loop' = "addon" /\ left' = <<RunParts>> /\ UNCHANGED <<item, verdict>>
    BY <1>5 DEF EndOfLoop
  <2>2. LaterLoops = RestOf(job, "addon", Addons) /\ LaterLoops' = << >>
    BY <1>5, <2>1 DEF LaterLoops
  <2>3. Ahead' = LaterLoops
    <3>1. Ahead' = RestOf(job, "addon", Addons) \o << >>
      BY <1>1, <1>5, <2>1, <2>2 DEF Ahead, Addons
    <3>2. QED
      BY <1>0, <2>2, <3>1, SayNone DEF Lists
  <2>4. StillToRun' = StillToRun
    BY <1>2, <1>3, <2>3 DEF StillToRun
  <2>5. QED
    BY <1>1, <1>2, <2>1, <2>4 DEF Promise!vars
<1>6. CASE ~(loop = "use" /\ ~Query(job)) /\ ~(loop = "command" /\ Addon)
  <2>1. loop' = "none" /\ left' = << >> /\ verdict' = TRUE
    BY <1>6 DEF EndOfLoop, Finish
  <2>2. LaterLoops = << >>
    <3>1. CASE loop = "command"
      <4>1. Addons = << >>
        BY <1>6, <3>1 DEF Addons
      <4>2. QED
        BY <3>1, <4>1, RestNone DEF LaterLoops
    <3>2. CASE loop # "command"
      BY <1>6, <3>2 DEF LaterLoops
    <3>3. QED
      BY <3>1, <3>2
  <2>3. Ahead' = << >>
    <3>1. LaterLoops' = << >> /\ RestOf(job, "none", << >>) = << >>
      BY <2>1, RestNone DEF LaterLoops
    <3>2. Ahead' = << >> \o << >>
      BY <1>1, <2>1, <3>1 DEF Ahead
    <3>3. QED
      BY <3>2
  <2>4. StillToRun' = << >>
    BY <1>2, <2>3 DEF StillToRun
  <2>5. Promise!Report
    BY <1>1, <1>2, <1>3, <2>1, <2>2, <2>4 DEF Promise!Report
  <2>6. QED
    BY <2>5 DEF Promise!Next
<1>7. QED
  BY <1>4, <1>5, <1>6

\* What the child does is not seen before it is waited for.
LEMMA ChildrenKeep ==
  ASSUME IInv, Children, UNCHANGED pvars
  PROVE  UNCHANGED Promise!vars
<1>0. CallType
  BY TypeParts DEF IInv
<1>1. /\ UNCHANGED <<call, entries, job, loop, left, item, verdict>>
      /\ UNCHANGED Awaited
  <2>1. UNCHANGED <<call, entries, job, loop, left, item, verdict>>
    BY DEF Children, Prints, Exits, LingererExits, pvars
  <2>2. CASE Prints \/ LingererExits
    BY <1>0, <2>1, <2>2 DEF Prints, LingererExits, Awaited, CallType, Child
  <2>3. CASE Exits
    <3>1. child.is = "running"
      BY <2>3 DEF Exits
    <3>2. child'.is = "zombie"
      BY <1>0, <2>3 DEF Exits, CallType, Child
    <3>3. QED
      BY <2>1, <3>1, <3>2 DEF Awaited
  <2>4. QED
    BY <2>2, <2>3 DEF Children
<1>2. UNCHANGED <<StillToRun, Running, HasFailed>>
  BY <1>1 DEF StillToRun, NotStarted, Ahead, LaterLoops, HasFailed, Running, At
<1>3. QED
  BY <1>1, <1>2 DEF Promise!vars

\* For any interface, any executors that are there and any phase, and whatever the
\* programs and the kernel do: lif_lifecycle_run_phase and the dependency query run,
\* through handle_executors_for_phase, handle_commands_for_phase and lif_execute_fmt,
\* what PhasePromise says, each program once, in order, none beside or after one that
\* failed, and report its failure.
THEOREM PhaseImplementsPromise == Spec => KeepsPhasePromise
<1> DEFINE PInv == IInv /\ LoopsKnown
<1>1. Init => PInv /\ Promise!Init
  <2> SUFFICES ASSUME Init PROVE PInv /\ Promise!Init
    OBVIOUS
  <2>1. /\ call.pc = "idle" /\ ~Awaited /\ loop = "none" /\ left = << >>
        /\ verdict = TRUE
    BY DEF Init, ExecuteInit, NoCall, NoChild, Awaited
  <2>2. HasFailed = FALSE /\ NotStarted = << >> /\ Running = NoEntry
    BY <2>1 DEF HasFailed, At, NotStarted, Running
  <2>3. Ahead = << >>
    <3>1. LaterLoops = << >> /\ RestOf(job, "none", << >>) = << >>
      BY <2>1, RestNone DEF LaterLoops
    <3>2. Ahead = << >> \o << >>
      BY <2>1, <3>1 DEF Ahead
    <3>3. QED
      BY <3>2
  <2>4. StillToRun = << >>
    BY <2>2, <2>3 DEF StillToRun
  <2>5. QED
    BY <2>1, <2>2, <2>4, InitIInv, InitLoops DEF Promise!Init
<1>2. PInv /\ [Next]_vars => PInv'
  BY NextIInv, NextLoops
<1>3. PInv /\ PInv' /\ [Next]_vars => [Promise!Next]_(Promise!vars)
  <2> SUFFICES ASSUME PInv, PInv', [Next]_vars PROVE [Promise!Next]_(Promise!vars)
    OBVIOUS
  <2>1. CASE Begin
    BY <2>1, BeginKeeps DEF Promise!Next
  <2>2. CASE PassOver \/ RunProgram
    BY <2>2, VisitKeeps
  <2>3. CASE ProgramReturns
    BY <2>3, ReturnKeeps
  <2>4. CASE EndOfLoop
    BY <2>4, EndKeeps
  <2>5. CASE (Caller \/ Faults) /\ UNCHANGED pvars
    BY <2>5, CallerKeeps
  <2>6. CASE Children /\ UNCHANGED pvars
    BY <2>6, ChildrenKeep
  <2>7. CASE Rest \/ UNCHANGED vars
    <3>1. UNCHANGED <<call, child, entries, job, loop, left, item, verdict>>
      BY <2>7 DEF Rest, vars, xvars, pvars
    <3>2. UNCHANGED <<StillToRun, Running, HasFailed>>
      BY <3>1 DEF StillToRun, NotStarted, Ahead, LaterLoops, HasFailed, Running, Awaited, At
    <3>3. QED
      BY <3>1, <3>2 DEF Promise!vars
  <2>8. QED
    BY <2>1, <2>2, <2>3, <2>4, <2>5, <2>6, <2>7 DEF Next, Program
<1>4. QED
  BY <1>1, <1>2, <1>3, PTL DEF Spec, KeepsPhasePromise, Promise!Spec
=============================================================================
