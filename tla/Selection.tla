------------------------------ MODULE Selection ------------------------------
(***************************************************************************)
(* What is left of a list when a loop over it passes over some entries:    *)
(* SelectSeq with a set of entries in place of a test, and recursive over  *)
(* the length, so that proofs can follow the loop.                         *)
(***************************************************************************)
EXTENDS Integers, Sequences

\* The chosen ones among the last n entries of s, for each n.
ChosenLast(s, T) ==
    LET f[n \in 0 .. Len(s)] ==
            IF n = 0 THEN << >>
            ELSE IF s[Len(s) + 1 - n] \in T THEN <<s[Len(s) + 1 - n]>> \o f[n - 1]
                                            ELSE f[n - 1]
    IN  f

\* The entries of s that are in T, in their order.
Chosen(s, T) == ChosenLast(s, T)[Len(s)]
=============================================================================
