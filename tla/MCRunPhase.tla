----------------------------- MODULE MCRunPhase -----------------------------
(***************************************************************************)
(* Interfaces with two executors and commands of their own, two programs   *)
(* to a loop, with small numbers for seconds, slices and INT_MAX: a timeout*)
(* of 1 fits, with 2 the milliseconds of poll become negative, with 4 the  *)
(* slices of the busy loop do.                                             *)
(***************************************************************************)
EXTENDS RunPhase

Var(key, cmd) == [key |-> key, cmd |-> cmd]

Mixed == <<Var("use", "vlan"), Var("pre-up", "echo"), Var("use", "dhcp"),
           Var("use", "gone")>>
Bare == <<Var("mtu", "9000"), Var("use", "dhcp")>>
SomeVariables == {Mixed, Bare}
SomeInstalled == {"vlan", "dhcp"}
J(phase, up, mock) == [phase |-> phase, up |-> up, mock |-> mock]
SomeJobs == {J("pre-up", TRUE, FALSE), J("pre-down", FALSE, FALSE),
             J("pre-up", TRUE, TRUE), J("depend", TRUE, TRUE)}
Answers == {<< >>, <<"eth0 ">>, <<"eth0 ", "eth1 ">>}
AnyKernel == BOOLEAN
MayFail == BOOLEAN
SomeTimeouts == {0, 1, 2, 4}
=============================================================================
