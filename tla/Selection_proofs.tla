-------------------------- MODULE Selection_proofs --------------------------
(***************************************************************************)
(* Chosen follows a loop over a list: an entry that is passed over leaves  *)
(* no trace, one that is visited comes first.                              *)
(***************************************************************************)
EXTENDS Selection, SequencesExt, WellFoundedInduction, TLAPS

\* Induction over the natural numbers, for a set.
LEMMA NatInd ==
  ASSUME NEW S, 0 \in S, \A n \in Nat : n \in S => n + 1 \in S
  PROVE  Nat \subseteq S
<1> DEFINE T == Nat \ S
<1> SUFFICES ASSUME T # {} PROVE FALSE
  OBVIOUS
<1>1. PICK x \in T : \A y \in T : ~ (<<y, x>> \in OpToRel(<, Nat))
  BY NatLessThanWellFounded, WFMin
<1>2. x # 0 /\ x - 1 \in Nat
  <2>1. x \in Nat /\ x \notin S
    OBVIOUS
  <2>2. x # 0
    BY <2>1
  <2>3. QED
    BY <2>1, <2>2
<1>3. x - 1 \notin S
  BY <1>2
<1>4. <<x - 1, x>> \in OpToRel(<, Nat)
  BY <1>1, <1>2 DEF OpToRel
<1>5. QED
  BY <1>1, <1>2, <1>3, <1>4

\* The n-th entry from the end, and what it makes of the entries after it.
FromEnd(s, n) == s[Len(s) + 1 - n]
Chose(s, T, n, rest) == IF FromEnd(s, n) \in T THEN <<FromEnd(s, n)>> \o rest ELSE rest

\* What ChosenLast is for the last m entries.
IsChosenLast(s, T, m, f) ==
    f = [n \in 0 .. m |-> IF n = 0 THEN << >> ELSE Chose(s, T, n, f[n - 1])]

\* There is a function that does what ChosenLast says.
LEMMA ChosenExists ==
  ASSUME NEW s, NEW T
  PROVE  \A m \in Nat : \E f : IsChosenLast(s, T, m, f)
<1> DEFINE S == {m \in Nat : \E f : IsChosenLast(s, T, m, f)}
<1>1. 0 \in S
  <2> DEFINE g == [n \in 0 .. 0 |-> << >>]
  <2>1. IsChosenLast(s, T, 0, g)
    BY DEF IsChosenLast
  <2>2. QED
    BY <2>1
<1>2. ASSUME NEW m \in Nat, m \in S PROVE m + 1 \in S
  <2>1. PICK f : IsChosenLast(s, T, m, f)
    BY <1>2
  <2> DEFINE g == [n \in 0 .. m + 1 |-> IF n <= m THEN f[n] ELSE Chose(s, T, n, f[m])]
             h == [n \in 0 .. m + 1 |-> IF n = 0 THEN << >> ELSE Chose(s, T, n, g[n - 1])]
  <2>2. ASSUME NEW n \in 0 .. m + 1 PROVE g[n] = h[n]
    <3>1. CASE n = 0
      <4>1. f[n] = << >>
        BY <2>1, <3>1 DEF IsChosenLast
      <4>2. QED
        BY <3>1, <4>1
    <3>2. CASE n # 0 /\ n <= m
      <4>1. n - 1 \in 0 .. m + 1 /\ n - 1 <= m /\ n \in 0 .. m
        BY <3>2
      <4>2. g[n - 1] = f[n - 1] /\ g[n] = f[n]
        BY <4>1, <3>2
      <4>3. f[n] = Chose(s, T, n, f[n - 1])
        BY <2>1, <3>2, <4>1 DEF IsChosenLast
      <4>4. h[n] = Chose(s, T, n, g[n - 1])
        BY <3>2
      <4>5. QED
        BY <4>2, <4>3, <4>4
    <3>3. CASE n = m + 1
      <4>1. g[n] = Chose(s, T, n, f[m]) /\ g[n - 1] = f[m] /\ h[n] = Chose(s, T, n, g[n - 1])
        BY <3>3
      <4>2. QED
        BY <4>1
    <3>4. QED
      BY <3>1, <3>2, <3>3
  <2>3. g = h
    BY <2>2
  <2>4. IsChosenLast(s, T, m + 1, g)
    BY <2>3 DEF IsChosenLast
  <2> HIDE DEF g
  <2>5. \E k : IsChosenLast(s, T, m + 1, k)
    BY <2>4
  <2>6. QED
    BY <2>5
<1>3. Nat \subseteq S
  <2> HIDE DEF S
  <2>1. QED
    BY <1>1, <1>2, NatInd
<1>4. QED
  BY <1>3

\* ChosenLast does what it says.
LEMMA ChosenLastIs ==
  ASSUME NEW S, NEW s \in Seq(S), NEW T
  PROVE  /\ ChosenLast(s, T)[0] = << >>
         /\ \A n \in 1 .. Len(s) :
                ChosenLast(s, T)[n] = Chose(s, T, n, ChosenLast(s, T)[n - 1])
<1>0. Len(s) \in Nat
  OBVIOUS
<1>1. \E f : IsChosenLast(s, T, Len(s), f)
  BY <1>0, ChosenExists
<1>2. ChosenLast(s, T) = CHOOSE f : IsChosenLast(s, T, Len(s), f)
  BY DEF ChosenLast, IsChosenLast, Chose, FromEnd
<1>3. IsChosenLast(s, T, Len(s), ChosenLast(s, T))
  BY <1>1, <1>2
<1> DEFINE c == ChosenLast(s, T)
<1>4. c = [n \in 0 .. Len(s) |-> IF n = 0 THEN << >> ELSE Chose(s, T, n, c[n - 1])]
  BY <1>3 DEF IsChosenLast
<1> HIDE DEF c
<1>5. c[0] = << >> /\ \A n \in 1 .. Len(s) : c[n] = Chose(s, T, n, c[n - 1])
  <2>1. 0 \in 0 .. Len(s) /\ \A n \in 1 .. Len(s) : n \in 0 .. Len(s) /\ n # 0
    BY <1>0
  <2>2. QED
    BY <1>4, <2>1, Zenon
<1>6. QED
  BY <1>5 DEF c

\* The last n entries of s are those of r, and chosen alike.
Alike(s, T, r, U, n) ==
    \A k \in 1 .. n : /\ FromEnd(s, k) = FromEnd(r, k)
                      /\ FromEnd(s, k) \in T <=> FromEnd(r, k) \in U

\* So is what ChosenLast makes of them.
LEMMA ChosenAlike ==
  ASSUME NEW S, NEW s \in Seq(S), NEW r \in Seq(S), NEW T, NEW U,
         NEW n \in Nat, n <= Len(s), n <= Len(r), Alike(s, T, r, U, n)
  PROVE  ChosenLast(s, T)[n] = ChosenLast(r, U)[n]
<1> DEFINE c == ChosenLast(s, T)
           d == ChosenLast(r, U)
           Q == {m \in Nat : m <= n => c[m] = d[m]}
<1>0. Len(s) \in Nat /\ Len(r) \in Nat
  OBVIOUS
<1>1. /\ c[0] = << >> /\ d[0] = << >>
      /\ \A m \in 1 .. Len(s) : c[m] = Chose(s, T, m, c[m - 1])
      /\ \A m \in 1 .. Len(r) : d[m] = Chose(r, U, m, d[m - 1])
  BY ChosenLastIs
<1> HIDE DEF c, d
<1>2. 0 \in Q
  BY <1>1
<1>3. ASSUME NEW m \in Nat, m \in Q PROVE m + 1 \in Q
  <2>1. SUFFICES ASSUME m + 1 <= n PROVE c[m + 1] = d[m + 1]
    OBVIOUS
  <2>2. c[m] = d[m] /\ (m + 1) - 1 = m
    BY <1>3, <2>1
  <2>3. m + 1 \in 1 .. Len(s) /\ m + 1 \in 1 .. Len(r) /\ m + 1 \in 1 .. n
    BY <1>0, <2>1
  <2>4. c[m + 1] = Chose(s, T, m + 1, c[m]) /\ d[m + 1] = Chose(r, U, m + 1, d[m])
    BY <1>1, <2>2, <2>3
  <2>5. /\ FromEnd(s, m + 1) = FromEnd(r, m + 1)
        /\ FromEnd(s, m + 1) \in T <=> FromEnd(r, m + 1) \in U
    BY <2>3 DEF Alike
  <2>6. QED
    BY <2>2, <2>4, <2>5 DEF Chose
<1>4. Nat \subseteq Q
  <2> HIDE DEF Q
  <2>1. QED
    BY <1>2, <1>3, NatInd
<1>5. QED
  BY <1>4 DEF c, d

\* A list without entries has none to choose.
LEMMA ChosenNone ==
  ASSUME NEW T
  PROVE  Chosen(<< >>, T) = << >>
<1>1. << >> \in Seq({}) /\ Len(<< >>) = 0
  OBVIOUS
<1>2. QED
  BY <1>1, ChosenLastIs DEF Chosen

\* The first entry is chosen or passed over; the rest does not depend on it.
LEMMA ChosenStep ==
  ASSUME NEW S, NEW s \in Seq(S), NEW T, s # << >>
  PROVE  Chosen(s, T) = IF Head(s) \in T THEN <<Head(s)>> \o Chosen(Tail(s), T)
                                         ELSE Chosen(Tail(s), T)
<1> DEFINE r == Tail(s)
           n == Len(r)
<1>1. /\ r \in Seq(S) /\ n \in Nat /\ Len(s) = n + 1 /\ Head(s) = s[1]
      /\ \A k \in 1 .. n : s[Len(s) + 1 - k] = r[n + 1 - k]
  OBVIOUS
<1>2. \A k \in 1 .. n : FromEnd(s, k) = FromEnd(r, k)
  BY <1>1 DEF FromEnd
<1>3. ChosenLast(s, T)[n] = ChosenLast(r, T)[n]
  <2>1. Alike(s, T, r, T, n)
    BY <1>2 DEF Alike
  <2>2. r \in Seq(S) /\ n \in Nat /\ n <= Len(s) /\ n <= Len(r)
    BY <1>1
  <2> HIDE DEF r, n
  <2>3. QED
    BY <2>1, <2>2, ChosenAlike
<1>4. ChosenLast(s, T)[n + 1] = Chose(s, T, n + 1, ChosenLast(s, T)[(n + 1) - 1])
  BY <1>1, ChosenLastIs
<1>5. (n + 1) - 1 = n /\ FromEnd(s, n + 1) = Head(s)
  BY <1>1 DEF FromEnd
<1>6. QED
  BY <1>1, <1>3, <1>4, <1>5 DEF Chose, Chosen

\* Only what is said of the list's own entries matters.
LEMMA ChosenAgree ==
  ASSUME NEW S, NEW s \in Seq(S), NEW T, NEW U,
         \A i \in 1 .. Len(s) : s[i] \in T <=> s[i] \in U
  PROVE  Chosen(s, T) = Chosen(s, U)
<1>1. Len(s) \in Nat
  OBVIOUS
<1> DEFINE n == Len(s)
<1>2. Alike(s, T, s, U, n)
  BY <1>1 DEF Alike, FromEnd
<1>3. n \in Nat /\ n <= Len(s)
  BY <1>1
<1>4. ChosenLast(s, T)[n] = ChosenLast(s, U)[n]
  <2> HIDE DEF n
  <2>1. QED
    BY <1>2, <1>3, ChosenAlike
<1>5. QED
  BY <1>4 DEF Chosen

\* Induction over lists.
LEMMA SeqInd ==
  ASSUME NEW S, NEW Q, << >> \in Q,
         \A s \in Seq(S) : s # << >> /\ Tail(s) \in Q => s \in Q
  PROVE  Seq(S) \subseteq Q
<1> DEFINE M == {n \in Nat : \A s \in Seq(S) : Len(s) = n => s \in Q}
<1>1. 0 \in M
  OBVIOUS
<1>2. ASSUME NEW n \in Nat, n \in M PROVE n + 1 \in M
  <2>1. SUFFICES ASSUME NEW s \in Seq(S), Len(s) = n + 1 PROVE s \in Q
    OBVIOUS
  <2>2. s # << >> /\ Tail(s) \in Seq(S) /\ Len(Tail(s)) = n
    BY <2>1
  <2>3. Tail(s) \in Q
    BY <1>2, <2>2
  <2>4. QED
    BY <2>2, <2>3
<1>3. Nat \subseteq M
  <2> HIDE DEF M
  <2>1. QED
    BY <1>1, <1>2, NatInd
<1>4. QED
  BY <1>3

\* What is chosen are entries of the list.
LEMMA ChosenType ==
  ASSUME NEW S, NEW s \in Seq(S), NEW T
  PROVE  Chosen(s, T) \in Seq(S)
<1> DEFINE Q == {r \in Seq(S) : Chosen(r, T) \in Seq(S)}
<1>1. << >> \in Q
  <2>1. << >> \in Seq(S)
    OBVIOUS
  <2>2. QED
    BY <2>1, ChosenNone
<1>2. ASSUME NEW r \in Seq(S), r # << >>, Tail(r) \in Q PROVE r \in Q
  <2>1. Head(r) \in S
    BY <1>2
  <2>2. \A q \in Seq(S) : <<Head(r)>> \o q \in Seq(S)
    BY <2>1
  <2>3. QED
    BY <1>2, <2>2, ChosenStep
<1>3. Seq(S) \subseteq Q
  <2> HIDE DEF Q
  <2>1. QED
    BY <1>1, <1>2, SeqInd
<1>4. QED
  BY <1>3

\* Of the empty set nothing is chosen.
LEMMA ChosenFromNone ==
  ASSUME NEW S, NEW s \in Seq(S)
  PROVE  Chosen(s, {}) = << >>
<1> DEFINE Q == {r \in Seq(S) : Chosen(r, {}) = << >>}
<1>1. << >> \in Q
  <2>1. << >> \in Seq(S)
    OBVIOUS
  <2>2. QED
    BY <2>1, ChosenNone
<1>2. ASSUME NEW r \in Seq(S), r # << >>, Tail(r) \in Q PROVE r \in Q
  BY <1>2, ChosenStep
<1>3. Seq(S) \subseteq Q
  <2> HIDE DEF Q
  <2>1. QED
    BY <1>1, <1>2, SeqInd
<1>4. QED
  BY <1>3

-----------------------------------------------------------------------------
(* Members and repetitions.                                                *)

\* The members of a list are its entries, wherever they are.
LEMMA SetOfSeq ==
  ASSUME NEW S, NEW s \in Seq(S)
  PROVE  /\ DOMAIN s = 1 .. Len(s) /\ Len(s) \in Nat
         /\ \A x : x \in ToSet(s) <=> \E i \in 1 .. Len(s) : s[i] = x
         /\ ToSet(s) \subseteq S
         /\ s # << >> => ToSet(s) = {Head(s)} \cup ToSet(Tail(s))
         /\ IsInjective(s) <=> \A i, j \in 1 .. Len(s) : s[i] = s[j] => i = j
<1>1. DOMAIN s = 1 .. Len(s) /\ Len(s) \in Nat
  OBVIOUS
<1>2. \A x : x \in ToSet(s) <=> \E i \in 1 .. Len(s) : s[i] = x
  BY <1>1 DEF ToSet
<1>3. ToSet(s) \subseteq S
  BY <1>2
<1>4. ASSUME s # << >> PROVE ToSet(s) = {Head(s)} \cup ToSet(Tail(s))
  <2> DEFINE r == Tail(s)
  <2>1. /\ r \in Seq(S) /\ Len(r) = Len(s) - 1 /\ Head(s) = s[1] /\ 1 \in 1 .. Len(s)
        /\ \A i \in 1 .. Len(r) : r[i] = s[i + 1] /\ i + 1 \in 1 .. Len(s)
    BY <1>4
  <2>2. \A i \in 1 .. Len(s) : i = 1 \/ (i - 1 \in 1 .. Len(r) /\ r[i - 1] = s[i])
    BY <1>1, <2>1
  <2>3. DOMAIN r = 1 .. Len(r)
    BY <2>1
  <2> HIDE DEF r
  <2>4. \A x : x \in ToSet(r) <=> \E i \in 1 .. Len(r) : r[i] = x
    BY <2>3 DEF ToSet
  <2>5. \A x \in ToSet(r) : x \in ToSet(s)
    BY <1>2, <2>1, <2>4
  <2>6. \A x \in ToSet(s) : x = Head(s) \/ x \in ToSet(r)
    BY <1>2, <2>1, <2>2, <2>4
  <2>7. Head(s) \in ToSet(s)
    BY <1>2, <2>1
  <2>8. QED
    BY <2>5, <2>6, <2>7 DEF r
<1>5. IsInjective(s) <=> \A i, j \in 1 .. Len(s) : s[i] = s[j] => i = j
  BY <1>1 DEF IsInjective
<1>6. QED
  BY <1>1, <1>2, <1>3, <1>4, <1>5

\* No entry, no member.
LEMMA SetOfNone == ToSet(<< >>) = {}
  BY DEF ToSet

\* Of two lists, one behind the other, the members are those of both, and none is
\* repeated if none is in either and none is in both.
LEMMA SetOfBoth ==
  ASSUME NEW S, NEW q \in Seq(S), NEW r \in Seq(S)
  PROVE  /\ q \o r \in Seq(S) /\ ToSet(q \o r) = ToSet(q) \cup ToSet(r)
         /\ IsInjective(q) /\ IsInjective(r) /\ ToSet(q) \cap ToSet(r) = {} =>
                IsInjective(q \o r)
<1> DEFINE b == q \o r
<1>1. /\ b \in Seq(S) /\ Len(b) = Len(q) + Len(r) /\ Len(q) \in Nat /\ Len(r) \in Nat
      /\ \A i \in 1 .. Len(q) : b[i] = q[i]
      /\ \A i \in 1 .. Len(r) : b[Len(q) + i] = r[i]
  OBVIOUS
<1>2. \A i \in 1 .. Len(b) : \/ i \in 1 .. Len(q) /\ b[i] = q[i]
                             \/ i - Len(q) \in 1 .. Len(r) /\ b[i] = r[i - Len(q)]
  <2>1. SUFFICES ASSUME NEW i \in 1 .. Len(b), i > Len(q)
                 PROVE  i - Len(q) \in 1 .. Len(r) /\ b[i] = r[i - Len(q)]
    BY <1>1
  <2>2. i - Len(q) \in 1 .. Len(r) /\ Len(q) + (i - Len(q)) = i
    BY <1>1, <2>1
  <2> HIDE DEF b
  <2>3. QED
    BY <1>1, <2>2
<1>3. /\ \A i \in 1 .. Len(q) : i \in 1 .. Len(b)
      /\ \A i \in 1 .. Len(r) : Len(q) + i \in 1 .. Len(b)
  BY <1>1
<1> HIDE DEF b
<1>4. ToSet(b) = ToSet(q) \cup ToSet(r)
  <2>1. /\ \A x : x \in ToSet(b) <=> \E i \in 1 .. Len(b) : b[i] = x
        /\ \A x : x \in ToSet(q) <=> \E i \in 1 .. Len(q) : q[i] = x
        /\ \A x : x \in ToSet(r) <=> \E i \in 1 .. Len(r) : r[i] = x
    <3>1. b \in Seq(S)  BY <1>1
    <3>2. \A x : x \in ToSet(b) <=> \E i \in 1 .. Len(b) : b[i] = x
      BY <3>1, SetOfSeq, Zenon
    <3>3. \A x : x \in ToSet(q) <=> \E i \in 1 .. Len(q) : q[i] = x
      BY SetOfSeq, Zenon
    <3>4. \A x : x \in ToSet(r) <=> \E i \in 1 .. Len(r) : r[i] = x
      BY SetOfSeq, Zenon
    <3>5. QED
      BY <3>2, <3>3, <3>4, Zenon
  <2>2. ASSUME NEW x \in ToSet(b) PROVE x \in ToSet(q) \cup ToSet(r)
    BY <1>2, <2>1
  <2>3. ASSUME NEW x \in ToSet(q) PROVE x \in ToSet(b)
    BY <1>1, <1>3, <2>1
  <2>4. ASSUME NEW x \in ToSet(r) PROVE x \in ToSet(b)
    BY <1>1, <1>3, <2>1
  <2>5. QED
    BY <2>2, <2>3, <2>4
<1>5. ASSUME IsInjective(q), IsInjective(r), ToSet(q) \cap ToSet(r) = {}
      PROVE  IsInjective(b)
  <2>1. /\ \A i, j \in 1 .. Len(q) : q[i] = q[j] => i = j
        /\ \A i, j \in 1 .. Len(r) : r[i] = r[j] => i = j
        /\ \A i \in 1 .. Len(q), j \in 1 .. Len(r) : q[i] # r[j]
    <3>1. /\ \A i \in 1 .. Len(q) : q[i] \in ToSet(q)
          /\ \A i \in 1 .. Len(r) : r[i] \in ToSet(r)
      BY SetOfSeq
    <3>2. QED
      BY <1>5, <3>1, SetOfSeq
  <2>2. SUFFICES ASSUME NEW i \in 1 .. Len(b), NEW j \in 1 .. Len(b), b[i] = b[j]
                 PROVE  i = j
    BY <1>1, SetOfSeq DEF IsInjective
  <2>3. CASE i \in 1 .. Len(q) /\ b[i] = q[i] /\ j \in 1 .. Len(q) /\ b[j] = q[j]
    BY <2>1, <2>2, <2>3
  <2>4. CASE /\ i - Len(q) \in 1 .. Len(r) /\ b[i] = r[i - Len(q)]
             /\ j - Len(q) \in 1 .. Len(r) /\ b[j] = r[j - Len(q)]
    <3>1. i - Len(q) = j - Len(q)
      BY <2>1, <2>2, <2>4
    <3>2. QED
      BY <1>1, <3>1
  <2>5. QED
    BY <1>2, <2>1, <2>2, <2>3, <2>4
<1>6. QED
  BY <1>1, <1>4, <1>5 DEF b

\* The same for one more entry at the end.
LEMMA SetOfAppend ==
  ASSUME NEW S, NEW s \in Seq(S), NEW e \in S
  PROVE  /\ Append(s, e) \in Seq(S) /\ ToSet(Append(s, e)) = ToSet(s) \cup {e}
         /\ IsInjective(s) /\ e \notin ToSet(s) => IsInjective(Append(s, e))
<1> DEFINE r == <<e>>
<1>1. r \in Seq(S) /\ Len(r) = 1 /\ r[1] = e /\ Append(s, e) = s \o r
  OBVIOUS
<1> HIDE DEF r
<1>2. ToSet(r) = {e} /\ IsInjective(r)
  <2>1. DOMAIN r = 1 .. 1
    BY <1>1
  <2>2. QED
    BY <1>1, <2>1 DEF ToSet, IsInjective
<1>3. QED
  BY <1>1, <1>2, SetOfBoth

\* and for a list in reverse.
LEMMA SetOfReverse ==
  ASSUME NEW S, NEW s \in Seq(S)
  PROVE  /\ Reverse(s) \in Seq(S) /\ ToSet(Reverse(s)) = ToSet(s)
         /\ IsInjective(s) => IsInjective(Reverse(s))
<1> DEFINE r == Reverse(s)
<1>1. /\ r \in Seq(S) /\ Len(r) = Len(s) /\ Len(s) \in Nat
      /\ \A i \in 1 .. Len(s) : r[i] = s[Len(s) - i + 1]
  <2>1. Len(s) \in Nat /\ \A i \in 1 .. Len(s) : s[Len(s) - i + 1] \in S
    OBVIOUS
  <2>2. QED
    BY <2>1 DEF Reverse
<1> HIDE DEF r
<1>2. \A i \in 1 .. Len(s) : Len(s) - i + 1 \in 1 .. Len(s)
                             /\ Len(s) - (Len(s) - i + 1) + 1 = i
  BY <1>1
<1>3. ToSet(r) = ToSet(s)
  <2>1. /\ \A x : x \in ToSet(r) <=> \E i \in 1 .. Len(s) : r[i] = x
        /\ \A x : x \in ToSet(s) <=> \E i \in 1 .. Len(s) : s[i] = x
    BY <1>1, SetOfSeq
  <2>2. ASSUME NEW i \in 1 .. Len(s) PROVE r[i] \in ToSet(s) /\ s[i] \in ToSet(r)
    <3>1. r[Len(s) - i + 1] = s[Len(s) - (Len(s) - i + 1) + 1]
      BY <1>1, <1>2
    <3>2. r[Len(s) - i + 1] = s[i]
      BY <1>2, <3>1
    <3>3. QED
      BY <1>1, <1>2, <2>1, <3>2
  <2>3. QED
    BY <2>1, <2>2
<1>4. ASSUME IsInjective(s) PROVE IsInjective(r)
  <2>1. SUFFICES ASSUME NEW i \in 1 .. Len(s), NEW j \in 1 .. Len(s), r[i] = r[j]
                 PROVE  i = j
    BY <1>1, SetOfSeq DEF IsInjective
  <2>2. Len(s) - i + 1 = Len(s) - j + 1
    <3> DEFINE k == Len(s) - i + 1
               l == Len(s) - j + 1
    <3>1. s[k] = s[l] /\ k \in 1 .. Len(s) /\ l \in 1 .. Len(s)
      BY <1>1, <1>2, <2>1
    <3> HIDE DEF k, l
    <3>2. k = l
      BY <1>4, <3>1, SetOfSeq
    <3>3. QED
      BY <3>2 DEF k, l
  <2>3. QED
    BY <1>1, <2>2
<1>5. QED
  BY <1>1, <1>3, <1>4 DEF r

\* What is chosen are the members that are in the set, each once if the list
\* repeats none.
LEMMA SetOfChosen ==
  ASSUME NEW S, NEW s \in Seq(S), NEW T
  PROVE  /\ Chosen(s, T) \in Seq(S) /\ ToSet(Chosen(s, T)) = ToSet(s) \cap T
         /\ IsInjective(s) => IsInjective(Chosen(s, T))
<1> DEFINE c(r) == Chosen(r, T)
           Q == {r \in Seq(S) : /\ ToSet(c(r)) = ToSet(r) \cap T
                                /\ IsInjective(r) => IsInjective(c(r))}
<1>1. << >> \in Q
  <2>1. << >> \in Seq(S)
    OBVIOUS
  <2>2. QED
    BY <2>1, ChosenNone, SetOfNone
<1>2. ASSUME NEW r \in Seq(S), r # << >>, Tail(r) \in Q PROVE r \in Q
  <2> DEFINE h == <<Head(r)>>
             t == Tail(r)
  <2>1. /\ Head(r) \in S /\ t \in Seq(S) /\ h \in Seq(S) /\ r = h \o t
        /\ ToSet(h) = {Head(r)} /\ IsInjective(h) /\ c(t) \in Seq(S)
    <3>1. Head(r) \in S /\ t \in Seq(S) /\ r = h \o t
      BY <1>2
    <3>2. h \in Seq(S) /\ Len(h) = 1 /\ h[1] = Head(r)
      BY <3>1
    <3>3. h \in Seq(S) /\ ToSet(h) = {Head(r)} /\ IsInjective(h)
      <4>1. /\ \A x : x \in ToSet(h) <=> \E i \in 1 .. Len(h) : h[i] = x
            /\ IsInjective(h) <=> \A i, j \in 1 .. Len(h) : h[i] = h[j] => i = j
        <5>1. h \in Seq(S)
          BY <3>2
        <5> HIDE DEF h
        <5>2. QED
          BY <5>1, SetOfSeq, Zenon
      <4> HIDE DEF h
      <4>2. QED
        BY <3>2, <4>1
    <3>4. QED
      BY <3>1, <3>3, ChosenType
  <2>2. c(r) = IF Head(r) \in T THEN h \o c(t) ELSE c(t)
    BY <1>2, ChosenStep
  <2>3. ToSet(c(t)) = ToSet(t) \cap T /\ (IsInjective(t) => IsInjective(c(t)))
    BY <1>2
  <2>4. ToSet(r) = ToSet(h) \cup ToSet(t)
    BY <1>2, <2>1, SetOfSeq
  <2>5. IsInjective(r) => IsInjective(t) /\ Head(r) \notin ToSet(t)
    <3>1. /\ Len(t) = Len(r) - 1 /\ Head(r) = r[1] /\ Len(r) \in Nat
          /\ \A i \in 1 .. Len(t) : t[i] = r[i + 1] /\ i + 1 \in 1 .. Len(r)
          /\ 1 \in 1 .. Len(r)
      BY <1>2
    <3>2. DOMAIN r = 1 .. Len(r) /\ DOMAIN t = 1 .. Len(t)
          /\ \A x : x \in ToSet(t) <=> \E i \in 1 .. Len(t) : t[i] = x
      BY <2>1, SetOfSeq
    <3> HIDE DEF t
    <3>3. ASSUME IsInjective(r), NEW i \in 1 .. Len(t), NEW j \in 1 .. Len(t), t[i] = t[j]
          PROVE  i = j
      <4>1. i + 1 = j + 1
        <5>1. r[i + 1] = r[j + 1] /\ i + 1 \in DOMAIN r /\ j + 1 \in DOMAIN r
          BY <3>1, <3>2, <3>3
        <5>2. QED
          BY <3>3, <5>1, Zenon DEF IsInjective
      <4>2. QED
        BY <4>1
    <3>4. ASSUME IsInjective(r), NEW i \in 1 .. Len(t) PROVE t[i] # Head(r)
      <4>1. t[i] = Head(r) => i + 1 = 1
        BY <3>1, <3>2, <3>4 DEF IsInjective
      <4>2. QED
        BY <4>1
    <3>5. QED
      BY <3>2, <3>3, <3>4 DEF IsInjective
  <2> HIDE DEF h, t, c
  <2>6. /\ ToSet(h \o c(t)) = {Head(r)} \cup (ToSet(t) \cap T)
        /\ IsInjective(c(t)) /\ Head(r) \notin ToSet(t) => IsInjective(h \o c(t))
    <3> DEFINE d == c(t)
    <3>1. d \in Seq(S) /\ h \in Seq(S) /\ ToSet(d) = ToSet(t) \cap T
      BY <2>1, <2>3
    <3> HIDE DEF d
    <3>2. /\ ToSet(h \o d) = ToSet(h) \cup ToSet(d)
          /\ IsInjective(h) /\ IsInjective(d) /\ ToSet(h) \cap ToSet(d) = {} =>
                 IsInjective(h \o d)
      BY <3>1, SetOfBoth
    <3>3. QED
      BY <2>1, <3>1, <3>2 DEF d
  <2>7. ToSet(c(r)) = ToSet(r) \cap T
    BY <2>1, <2>2, <2>3, <2>4, <2>6
  <2>8. IsInjective(r) => IsInjective(c(r))
    BY <2>2, <2>3, <2>5, <2>6
  <2>9. QED
    BY <2>7, <2>8
<1>3. Seq(S) \subseteq Q
  <2> HIDE DEF Q
  <2>1. QED
    BY <1>1, <1>2, SeqInd
<1>4. QED
  BY <1>3, ChosenType
=============================================================================
