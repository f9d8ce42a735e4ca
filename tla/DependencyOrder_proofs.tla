----------------------- MODULE DependencyOrder_proofs -----------------------
(***************************************************************************)
(* Whatever stanzas there are, whatever they require and whatever their    *)
(* executors print: the walk and the sort of lif_lifecycle_count_rdepends  *)
(* lose no stanza and repeat none, the count is positive for exactly what  *)
(* another stanza requires, and what is printed is merged as strstr does.  *)
(***************************************************************************)
EXTENDS DependencyOrder, Selection_proofs, FiniteSetTheorems

-----------------------------------------------------------------------------
(* The merged list.                                                        *)

KeepOne(kept, t) == IF IsKept(kept, t) THEN kept ELSE Append(kept, t)

\* What KeptFirst is for the first m tokens.
IsKeptFirst(s, m, k) ==
    k = [n \in 0 .. m |-> IF n = 0 THEN << >> ELSE KeepOne(k[n - 1], s[n])]

\* There is a function that does what KeptFirst says.
LEMMA KeptExists ==
  ASSUME NEW s
  PROVE  \A m \in Nat : \E k : IsKeptFirst(s, m, k)
<1> DEFINE S == {m \in Nat : \E k : IsKeptFirst(s, m, k)}
<1>1. 0 \in S
  <2> DEFINE g == [n \in 0 .. 0 |-> << >>]
  <2>1. IsKeptFirst(s, 0, g)
    BY DEF IsKeptFirst
  <2>2. QED
    BY <2>1
<1>2. ASSUME NEW m \in Nat, m \in S PROVE m + 1 \in S
  <2>1. PICK k : IsKeptFirst(s, m, k)
    BY <1>2
  <2> DEFINE g == [n \in 0 .. m + 1 |-> IF n <= m THEN k[n] ELSE KeepOne(k[m], s[n])]
             h == [n \in 0 .. m + 1 |-> IF n = 0 THEN << >> ELSE KeepOne(g[n - 1], s[n])]
  <2>2. ASSUME NEW n \in 0 .. m + 1 PROVE g[n] = h[n]
    <3>1. CASE n = 0
      <4>1. k[n] = << >>
        BY <2>1, <3>1 DEF IsKeptFirst
      <4>2. QED
        BY <3>1, <4>1
    <3>2. CASE n # 0 /\ n <= m
      <4>1. n - 1 \in 0 .. m + 1 /\ n - 1 <= m /\ n \in 0 .. m
        BY <3>2
      <4>2. g[n - 1] = k[n - 1] /\ g[n] = k[n]
        BY <4>1, <3>2
      <4>3. k[n] = KeepOne(k[n - 1], s[n])
        BY <2>1, <3>2, <4>1 DEF IsKeptFirst
      <4>4. h[n] = KeepOne(g[n - 1], s[n])
        BY <3>2
      <4>5. QED
        BY <4>2, <4>3, <4>4
    <3>3. CASE n = m + 1
      <4>1. g[n] = KeepOne(k[m], s[n]) /\ g[n - 1] = k[m] /\ h[n] = KeepOne(g[n - 1], s[n])
        BY <3>3
      <4>2. QED
        BY <4>1
    <3>4. QED
      BY <3>1, <3>2, <3>3
  <2>3. g = h
    BY <2>2
  <2>4. IsKeptFirst(s, m + 1, g)
    BY <2>3 DEF IsKeptFirst
  <2> HIDE DEF g
  <2>5. \E f : IsKeptFirst(s, m + 1, f)
    BY <2>4
  <2>6. QED
    BY <2>5
<1>3. Nat \subseteq S
  <2> HIDE DEF S
  <2>1. QED
    BY <1>1, <1>2, NatInd
<1>4. QED
  BY <1>3

\* KeptFirst does what it says.
LEMMA KeptFirstIs ==
  ASSUME NEW S, NEW s \in Seq(S)
  PROVE  /\ KeptFirst(s)[0] = << >>
         /\ \A n \in 1 .. Len(s) : KeptFirst(s)[n] = KeepOne(KeptFirst(s)[n - 1], s[n])
<1>0. Len(s) \in Nat
  OBVIOUS
<1>1. \E k : IsKeptFirst(s, Len(s), k)
  BY <1>0, KeptExists
<1>2. KeptFirst(s) = CHOOSE k : IsKeptFirst(s, Len(s), k)
  BY DEF KeptFirst, IsKeptFirst, KeepOne
<1>3. IsKeptFirst(s, Len(s), KeptFirst(s))
  BY <1>1, <1>2
<1> DEFINE c == KeptFirst(s)
<1>4. c = [n \in 0 .. Len(s) |-> IF n = 0 THEN << >> ELSE KeepOne(c[n - 1], s[n])]
  BY <1>3 DEF IsKeptFirst
<1> HIDE DEF c
<1>5. c[0] = << >> /\ \A n \in 1 .. Len(s) : c[n] = KeepOne(c[n - 1], s[n])
  <2>1. 0 \in 0 .. Len(s) /\ \A n \in 1 .. Len(s) : n \in 0 .. Len(s) /\ n # 0
    BY <1>0
  <2>2. QED
    BY <1>4, <2>1, Zenon
<1>6. QED
  BY <1>5 DEF c

\* No entry of q repeats an earlier one or is part of it.
Spread(q) == \A n \in 1 .. Len(q) : ~IsKept(SubSeq(q, 1, n - 1), q[n])

\* One more token: it is kept then, everything else stays as it is.
LEMMA KeepOneMore ==
  ASSUME NEW S, NEW q \in Seq(S), NEW t \in S, Spread(q)
  PROVE  /\ KeepOne(q, t) \in Seq(S) /\ Spread(KeepOne(q, t))
         /\ ToSet(q) \subseteq ToSet(KeepOne(q, t))
         /\ ToSet(KeepOne(q, t)) \subseteq ToSet(q) \cup {t}
         /\ IsKept(KeepOne(q, t), t)
         /\ IsInjective(q) => IsInjective(KeepOne(q, t))
<1>1. CASE IsKept(q, t)
  BY <1>1 DEF KeepOne
<1>2. CASE ~IsKept(q, t)
  <2> DEFINE r == Append(q, t)
  <2>1. /\ r \in Seq(S) /\ ToSet(r) = ToSet(q) \cup {t}
        /\ IsInjective(q) /\ t \notin ToSet(q) => IsInjective(r)
    BY SetOfAppend
  <2>2. t \notin ToSet(q) /\ IsKept(r, t)
    BY <1>2, <2>1 DEF IsKept
  <2>3. Spread(r)
    <3>1. /\ Len(r) = Len(q) + 1 /\ Len(q) \in Nat /\ r[Len(q) + 1] = t
          /\ SubSeq(r, 1, Len(q)) = q /\ (Len(q) + 1) - 1 = Len(q)
      OBVIOUS
    <3>2. \A n \in 1 .. Len(q) : r[n] = q[n] /\ SubSeq(r, 1, n - 1) = SubSeq(q, 1, n - 1)
      OBVIOUS
    <3>3. \A n \in 1 .. Len(q) + 1 : n \in 1 .. Len(q) \/ n = Len(q) + 1
      BY <3>1
    <3> HIDE DEF r
    <3>4. QED
      BY <1>2, <3>1, <3>2, <3>3 DEF Spread
  <2>4. KeepOne(q, t) = r
    BY <1>2 DEF KeepOne
  <2> HIDE DEF r
  <2>5. QED
    BY <2>1, <2>2, <2>3, <2>4
<1>3. QED
  BY <1>1, <1>2

\* What is kept once stays.
LEMMA KeptStays ==
  ASSUME NEW q, NEW r, NEW t, ToSet(q) \subseteq ToSet(r), IsKept(q, t)
  PROVE  IsKept(r, t)
  BY DEF IsKept

\* Of each token something is kept, none twice, and nothing else.
LEMMA KeptFacts ==
  ASSUME NEW S, NEW s \in Seq(S)
  PROVE  \A n \in 0 .. Len(s) :
             LET k == KeptFirst(s)[n]
             IN  /\ k \in Seq(S) /\ Spread(k) /\ IsInjective(k)
                 /\ ToSet(k) \subseteq ToSet(s)
                 /\ \A m \in 1 .. n : IsKept(k, s[m])
<1> DEFINE f == KeptFirst(s)
           P(n) == /\ f[n] \in Seq(S) /\ Spread(f[n]) /\ IsInjective(f[n])
                   /\ ToSet(f[n]) \subseteq ToSet(s)
                   /\ \A m \in 1 .. n : IsKept(f[n], s[m])
           Q == {n \in Nat : n <= Len(s) => P(n)}
<1>0. Len(s) \in Nat
  OBVIOUS
<1>1. 0 \in Q
  <2>1. f[0] = << >>
    BY KeptFirstIs
  <2> HIDE DEF f
  <2>2. << >> \in Seq(S) /\ Len(<< >>) = 0
    OBVIOUS
  <2>3. Spread(<< >>) /\ IsInjective(<< >>) /\ ToSet(<< >>) = {}
    BY <2>2, SetOfNone DEF Spread, IsInjective
  <2>4. P(0)
    BY <2>1, <2>2, <2>3
  <2>5. QED
    BY <2>4
<1>2. ASSUME NEW n \in Nat, n \in Q PROVE n + 1 \in Q
  <2>1. SUFFICES ASSUME n + 1 <= Len(s) PROVE P(n + 1)
    OBVIOUS
  <2>2. n + 1 \in 1 .. Len(s) /\ (n + 1) - 1 = n /\ P(n)
    BY <1>0, <1>2, <2>1
  <2>3. f[n + 1] = KeepOne(f[n], s[n + 1])
    BY <2>2, KeptFirstIs
  <2>4. s[n + 1] \in S /\ s[n + 1] \in ToSet(s)
    BY <2>2, SetOfSeq
  <2> HIDE DEF f
  <2>5. /\ f[n + 1] \in Seq(S) /\ Spread(f[n + 1]) /\ IsInjective(f[n + 1])
        /\ ToSet(f[n]) \subseteq ToSet(f[n + 1])
        /\ ToSet(f[n + 1]) \subseteq ToSet(f[n]) \cup {s[n + 1]}
        /\ IsKept(f[n + 1], s[n + 1])
    <3> DEFINE k == f[n]
               u == s[n + 1]
    <3>1. k \in Seq(S) /\ Spread(k) /\ IsInjective(k) /\ u \in S
      BY <2>2, <2>4
    <3> HIDE DEF k, u
    <3>2. /\ KeepOne(k, u) \in Seq(S) /\ Spread(KeepOne(k, u)) /\ IsInjective(KeepOne(k, u))
          /\ ToSet(k) \subseteq ToSet(KeepOne(k, u))
          /\ ToSet(KeepOne(k, u)) \subseteq ToSet(k) \cup {u}
          /\ IsKept(KeepOne(k, u), u)
      BY <3>1, KeepOneMore
    <3>3. QED
      BY <2>3, <3>2 DEF k, u
  <2>6. ToSet(f[n + 1]) \subseteq ToSet(s)
    BY <2>2, <2>4, <2>5
  <2>7. \A m \in 1 .. n + 1 : IsKept(f[n + 1], s[m])
    <3>1. \A m \in 1 .. n : IsKept(f[n + 1], s[m])
      BY <2>2, <2>5, KeptStays
    <3>2. \A m \in 1 .. n + 1 : m \in 1 .. n \/ m = n + 1
      OBVIOUS
    <3>3. QED
      BY <2>5, <3>1, <3>2
  <2>8. QED
    BY <2>5, <2>6, <2>7
<1>3. Nat \subseteq Q
  <2> HIDE DEF Q
  <2>1. QED
    BY <1>1, <1>2, NatInd
<1>4. \A n \in 0 .. Len(s) : P(n)
  BY <1>0, <1>3
<1>5. QED
  BY <1>4

\* Merging into a list what it has kept already changes nothing.
LEMMA KeptAgain ==
  ASSUME NEW S, NEW q \in Seq(S), NEW r \in Seq(S), Spread(q),
         \A i \in 1 .. Len(r) : IsKept(q, r[i])
  PROVE  KeptFirst(q \o r)[Len(q \o r)] = q
<1> DEFINE s == q \o r
           f == KeptFirst(s)
           part(n) == IF n <= Len(q) THEN SubSeq(q, 1, n) ELSE q
           Q == {n \in Nat : n <= Len(s) => f[n] = part(n)}
<1>0. /\ s \in Seq(S) /\ Len(s) = Len(q) + Len(r) /\ Len(q) \in Nat /\ Len(r) \in Nat
      /\ \A i \in 1 .. Len(q) : s[i] = q[i]
      /\ \A i \in 1 .. Len(r) : s[Len(q) + i] = r[i]
  OBVIOUS
<1>p. /\ part(0) = << >>
      /\ \A n \in Nat : n >= Len(q) => part(n) = q
      /\ \A n \in Nat : n + 1 <= Len(q) =>
             part(n) = SubSeq(q, 1, n) /\ part(n + 1) = Append(part(n), q[n + 1])
  <2>1. /\ Len(q) \in Nat /\ SubSeq(q, 1, Len(q)) = q /\ SubSeq(q, 1, 0) = << >>
        /\ \A n \in Nat : n + 1 <= Len(q) =>
               SubSeq(q, 1, n + 1) = Append(SubSeq(q, 1, n), q[n + 1])
    OBVIOUS
  <2>2. \A n \in Nat : n >= Len(q) => part(n) = q
    <3>1. SUFFICES ASSUME NEW n \in Nat, n >= Len(q) PROVE part(n) = q
      OBVIOUS
    <3>2. n <= Len(q) => n = Len(q)
      <4>1. Len(q) \in Nat
        OBVIOUS
      <4>2. QED
        BY <3>1, <4>1
    <3>3. CASE n <= Len(q)
      BY <2>1, <3>2, <3>3
    <3>4. CASE ~(n <= Len(q))
      BY <3>4
    <3>5. QED
      BY <3>3, <3>4
  <2>3. part(0) = << >>
    BY <2>1
  <2>4. \A n \in Nat : n + 1 <= Len(q) => n <= Len(q)
    BY <2>1
  <2>5. QED
    BY <2>1, <2>2, <2>3, <2>4
<1> HIDE DEF s, part
<1>1. f[0] = << >> /\ \A n \in 1 .. Len(s) : f[n] = KeepOne(f[n - 1], s[n])
  BY <1>0, KeptFirstIs
<1> HIDE DEF f
<1>2. 0 \in Q
  BY <1>1, <1>p
<1>3. ASSUME NEW n \in Nat, n \in Q PROVE n + 1 \in Q
  <2>1. SUFFICES ASSUME n + 1 <= Len(s) PROVE f[n + 1] = part(n + 1)
    OBVIOUS
  <2>2. n + 1 \in 1 .. Len(s) /\ (n + 1) - 1 = n /\ f[n] = part(n)
    <3>1. Len(s) \in Nat
      BY <1>0
    <3>2. n <= Len(s) /\ n + 1 \in 1 .. Len(s) /\ (n + 1) - 1 = n
      BY <2>1, <3>1
    <3>3. QED
      BY <1>3, <3>2
  <2>3. f[n + 1] = KeepOne(f[n], s[n + 1])
    BY <1>1, <2>2
  <2>4. CASE n + 1 <= Len(q)
    <3>1. n + 1 \in 1 .. Len(q) /\ s[n + 1] = q[n + 1] /\ f[n] = SubSeq(q, 1, n)
      BY <1>0, <1>p, <2>2, <2>4
    <3>2. ~IsKept(SubSeq(q, 1, n), q[n + 1])
      BY <2>2, <3>1 DEF Spread
    <3>3. QED
      BY <1>p, <2>2, <2>3, <2>4, <3>1, <3>2 DEF KeepOne
  <2>5. CASE n + 1 > Len(q)
    <3> DEFINE i == n + 1 - Len(q)
    <3>1. i \in 1 .. Len(r) /\ Len(q) + i = n + 1
      BY <1>0, <2>1, <2>5
    <3>2. s[n + 1] = r[i]
      <4> HIDE DEF i
      <4>1. QED
        BY <1>0, <3>1
    <3>3. n >= Len(q) /\ n + 1 >= Len(q) /\ n + 1 \in Nat
      BY <1>0, <2>5
    <3>4. f[n] = q /\ part(n + 1) = q
      BY <1>p, <2>2, <3>3
    <3>5. IsKept(q, s[n + 1])
      BY <3>1, <3>2
    <3>6. QED
      BY <2>3, <3>4, <3>5 DEF KeepOne
  <2>6. QED
    BY <1>0, <2>4, <2>5
<1>4. Nat \subseteq Q
  <2> HIDE DEF Q
  <2>1. QED
    BY <1>2, <1>3, NatInd
<1>5. f[Len(s)] = q
  <2>1. Len(s) \in Nat /\ Len(s) >= Len(q)
    BY <1>0
  <2>2. QED
    BY <1>p, <1>4, <2>1
<1>6. QED
  BY <1>5 DEF s, f

\* The merged list of a stanza is one without repetitions, of what it required and
\* what its executors print; all that they print is kept, and merging once more
\* changes nothing.
LEMMA MergedFacts ==
  ASSUME requires \in [Iface -> Seq(Iface)], NEW i \in Iface
  PROVE  /\ Printed(i) \in Seq(Iface)
         /\ Merged(i) \in Seq(Iface) /\ IsInjective(Merged(i))
         /\ \A t \in ToSet(Printed(i)) : IsKept(Merged(i), t)
         /\ LET all == Merged(i) \o Printed(i) IN KeptFirst(all)[Len(all)] = Merged(i)
<1> DEFINE r == requires[i]
           p == Printed(i)
           all == r \o p
           k == KeptFirst(all)[Len(all)]
<1>1. r \in Seq(Iface) /\ p \in Seq(Iface)
  <2>1. << >> \in Seq(Iface)
    OBVIOUS
  <2>2. i \in Asked => Learned[i] \in Seq(Iface)
    BY DependencyAssumption
  <2>3. QED
    BY <2>1, <2>2 DEF Printed
<1>2. Merged(i) = k
  BY DEF Merged
<1> HIDE DEF r, p
<1>3. /\ all \in Seq(Iface) /\ Len(all) \in 0 .. Len(all)
      /\ \A j \in 1 .. Len(p) : Len(r) + j \in 1 .. Len(all) /\ all[Len(r) + j] = p[j]
  BY <1>1
<1> HIDE DEF all
<1>4. /\ k \in Seq(Iface) /\ Spread(k) /\ IsInjective(k)
      /\ \A m \in 1 .. Len(all) : IsKept(k, all[m])
  BY <1>3, KeptFacts
<1> HIDE DEF k
<1>5. \A j \in 1 .. Len(p) : IsKept(k, p[j])
  BY <1>3, <1>4
<1>6. KeptFirst(k \o p)[Len(k \o p)] = k
  BY <1>1, <1>4, <1>5, KeptAgain
<1>7. \A t \in ToSet(p) : IsKept(k, t)
  BY <1>1, <1>5, SetOfSeq
<1>8. QED
  BY <1>1, <1>2, <1>4, <1>6, <1>7 DEF p

-----------------------------------------------------------------------------
(* Types.                                                                  *)

\* TypeOK without its last part, and what that needs: no two activations are of one
\* stanza.
Types == /\ pc \in {"count", "sort", "done", "failed"}
         /\ list \in Seq(Iface)
         /\ requires \in [Iface -> Seq(Iface)]
         /\ rdepends \in [Iface -> Nat]
         /\ pending \in SUBSET Iface
         /\ stack \in Seq(Activation)
         /\ root \in Nat \ {0}
         /\ temp \in Seq(Iface)
         /\ depth \in Nat
         /\ queries \in [Iface -> Nat]

Frames == /\ pending = {stack[n].iface : n \in 1 .. Len(stack)}
          /\ \A m, n \in 1 .. Len(stack) : stack[m].iface = stack[n].iface => m = n
          /\ IsFiniteSet(pending) /\ Cardinality(pending) = Len(stack)

\* These are TypeOK.
LEMMA TypesAre == Types /\ Frames => TypeOK
<1> SUFFICES ASSUME Types, Frames PROVE TypeOK
  OBVIOUS
<1>1. DOMAIN stack = 1 .. Len(stack)
  BY SetOfSeq DEF Types
<1>2. CountedOnce
  BY <1>1 DEF Frames, CountedOnce
<1>3. QED
  BY <1>2 DEF Types, TypeOK

\* The stack with the top activation at its next token.
Callers == [stack EXCEPT ![Len(stack)].next = @ + 1]

\* A token is consumed; nothing else changes.
LEMMA CallersAre ==
  ASSUME Types, stack # << >>
  PROVE  /\ Callers \in Seq(Activation) /\ Len(Callers) = Len(stack)
         /\ Len(stack) \in Nat \ {0} /\ Top \in Activation /\ Top.next \in Nat \ {0}
         /\ \A n \in 1 .. Len(stack) :
                /\ stack[n] \in Activation
                /\ Callers[n].iface = stack[n].iface
                /\ Callers[n].next = IF n = Len(stack) THEN Top.next + 1 ELSE stack[n].next
<1>1. Len(stack) \in Nat \ {0} /\ stack \in [1 .. Len(stack) -> Activation]
  BY DEF Types
<1>2. Top \in Activation /\ Top.next \in Nat \ {0} /\ Top.next + 1 \in Nat \ {0}
  BY <1>1 DEF Top, Activation
<1> DEFINE f == [Top EXCEPT !.next = Top.next + 1]
<1>3. f \in Activation /\ f.iface = Top.iface /\ f.next = Top.next + 1
  BY <1>2 DEF Activation
<1>4. Callers = [stack EXCEPT ![Len(stack)] = f]
  BY DEF Callers, Top
<1> HIDE DEF f
<1>5. /\ Callers \in [1 .. Len(stack) -> Activation]
      /\ \A n \in 1 .. Len(stack) : Callers[n] = IF n = Len(stack) THEN f ELSE stack[n]
  <2> DEFINE l == Len(stack)
  <2>1. l \in 1 .. l /\ stack \in [1 .. l -> Activation] /\ f \in Activation
    BY <1>1, <1>3
  <2>2. Callers = [stack EXCEPT ![l] = f]
    BY <1>4
  <2> HIDE DEF l
  <2>3. /\ Callers \in [1 .. l -> Activation]
        /\ \A n \in 1 .. l : Callers[n] = IF n = l THEN f ELSE stack[n]
    BY <2>1, <2>2
  <2>4. QED
    BY <2>3 DEF l
<1>6. Callers \in Seq(Activation) /\ Len(Callers) = Len(stack)
  <2> DEFINE l == Len(stack)
             c == Callers
  <2>1. l \in Nat /\ c \in [1 .. l -> Activation]
    BY <1>1, <1>5
  <2> HIDE DEF l, c
  <2>2. c \in Seq(Activation) /\ Len(c) = l
    BY <2>1
  <2>3. QED
    BY <2>2 DEF l, c
<1>7. QED
  BY <1>1, <1>2, <1>3, <1>5, <1>6 DEF Top

\* The names on a stack, and that on top of it.
LEMMA Push ==
  ASSUME NEW s \in Seq(Activation), NEW f \in Activation
  PROVE  /\ Append(s, f) \in Seq(Activation) /\ Len(Append(s, f)) = Len(s) + 1
         /\ Len(s) \in Nat /\ Append(s, f)[Len(s) + 1] = f
         /\ \A n \in 1 .. Len(s) : Append(s, f)[n] = s[n]
         /\ \A n \in 1 .. Len(Append(s, f)) : n \in 1 .. Len(s) \/ n = Len(s) + 1
  OBVIOUS

\* A call of count_interface_rdepends keeps the types, whoever calls.
LEMMA EnterTypes ==
  ASSUME Types, Frames, NEW i \in Iface, NEW d \in Nat, NEW c \in Seq(Activation),
         Len(c) = Len(stack), \A n \in 1 .. Len(stack) : c[n].iface = stack[n].iface,
         Enter(i, d, c)
  PROVE  /\ requires' \in [Iface -> Seq(Iface)] /\ rdepends' \in [Iface -> Nat]
         /\ pending' \in SUBSET Iface /\ stack' \in Seq(Activation)
         /\ queries' \in [Iface -> Nat] /\ Frames'
<1>1. CASE i \in pending
  <2>1. stack' = c /\ UNCHANGED <<requires, rdepends, pending, queries>>
    BY <1>1 DEF Enter
  <2>2. \A n \in 1 .. Len(stack) : stack'[n].iface = stack[n].iface
    BY <2>1
  <2>3. Len(stack') = Len(stack) /\ pending' = pending
    BY <2>1
  <2>4. {stack[n].iface : n \in 1 .. Len(stack)} = {stack'[n].iface : n \in 1 .. Len(stack)}
    BY <2>2
  <2>5. pending' = {stack'[n].iface : n \in 1 .. Len(stack')}
    BY <2>3, <2>4 DEF Frames
  <2>6. Frames'
    BY <2>2, <2>3, <2>5 DEF Frames
  <2>7. QED
    BY <2>1, <2>6 DEF Types
<1>2. CASE i \notin pending
  <2> DEFINE f == [iface |-> i, depth |-> d, next |-> 1]
  <2>1. /\ stack' = Append(c, f) /\ pending' = pending \cup {i}
        /\ rdepends' = [rdepends EXCEPT ![i] = d]
        /\ requires' = [requires EXCEPT ![i] = Merged(i)]
        /\ queries' = [queries EXCEPT ![i] = @ + 1]
    BY <1>2 DEF Enter
  <2>2. f \in Activation /\ f.iface = i
    BY DEF Activation
  <2> HIDE DEF f
  <2>3. /\ stack' \in Seq(Activation) /\ Len(stack') = Len(stack) + 1 /\ Len(stack) \in Nat
        /\ stack'[Len(stack) + 1] = f
        /\ \A n \in 1 .. Len(stack) : stack'[n] = c[n]
        /\ \A n \in 1 .. Len(stack') : n \in 1 .. Len(stack) \/ n = Len(stack) + 1
    BY <2>1, <2>2, Push
  <2>4. \A n \in 1 .. Len(stack) : stack'[n].iface = stack[n].iface
    BY <2>3
  <2>5. Merged(i) \in Seq(Iface)
    BY MergedFacts DEF Types
  <2>6. Cardinality(pending') = Cardinality(pending) + 1 /\ IsFiniteSet(pending')
    BY <1>2, <2>1, FS_AddElement DEF Frames
  <2>7. pending' = {stack'[n].iface : n \in 1 .. Len(stack')}
    <3>1. \A n \in 1 .. Len(stack) : n \in 1 .. Len(stack') /\ stack[n].iface = stack'[n].iface
      BY <2>3, <2>4
    <3>2. Len(stack) + 1 \in 1 .. Len(stack') /\ stack'[Len(stack) + 1].iface = i
      BY <2>2, <2>3
    <3>3. ASSUME NEW j \in pending' PROVE \E n \in 1 .. Len(stack') : stack'[n].iface = j
      <4>1. j = i \/ \E n \in 1 .. Len(stack) : stack[n].iface = j
        <5>1. j \in pending \cup {i}
          BY <2>1, <3>3
        <5>2. QED
          BY <5>1, Zenon DEF Frames
      <4>2. QED
        BY <3>1, <3>2, <4>1
    <3>4. ASSUME NEW n \in 1 .. Len(stack') PROVE stack'[n].iface \in pending'
      BY <2>1, <2>3, <2>4, <3>2 DEF Frames
    <3>5. QED
      BY <3>3, <3>4
  <2>8. ASSUME NEW m \in 1 .. Len(stack'), NEW n \in 1 .. Len(stack'),
               stack'[m].iface = stack'[n].iface
        PROVE  m = n
    <3>1. stack'[Len(stack) + 1].iface \notin {stack'[l].iface : l \in 1 .. Len(stack)}
      BY <1>2, <2>2, <2>3, <2>4 DEF Frames
    <3>2. CASE m \in 1 .. Len(stack) /\ n \in 1 .. Len(stack)
      BY <2>4, <2>8, <3>2 DEF Frames
    <3>3. QED
      BY <2>3, <2>8, <3>1, <3>2
  <2>9. Frames'
    BY <2>3, <2>6, <2>7, <2>8 DEF Frames
  <2>10. QED
    BY <2>1, <2>3, <2>5, <2>9 DEF Types
<1>3. QED
  BY <1>1, <1>2

\* An empty stack has no activation on it.
LEMMA NoFrames ==
  ASSUME Types, Frames, stack = << >>
  PROVE  pending = {} /\ Len(stack) = 0
<1>1. Len(stack) = 0
  OBVIOUS
<1>2. QED
  BY <1>1 DEF Frames

\* A list without its last entry.
LEMMA FrontIs ==
  ASSUME NEW S, NEW s \in Seq(S), s # << >>
  PROVE  /\ Front(s) \in Seq(S) /\ Len(Front(s)) = Len(s) - 1
         /\ \A n \in 1 .. Len(s) - 1 : Front(s)[n] = s[n]
<1> DEFINE m == Len(s) - 1
           r == SubSeq(s, 1, m)
<1>1. m \in Nat /\ m <= Len(s) /\ Len(s) \in Nat
  OBVIOUS
<1>2. Front(s) = r
  BY DEF Front
<1> HIDE DEF m
<1>3. Len(r) = m /\ r \in Seq(S) /\ \A n \in 1 .. m : r[n] = s[n]
  BY <1>1
<1> HIDE DEF r
<1>4. QED
  BY <1>2, <1>3 DEF m

\* Without the activation on top, the others are pending.
LEMMA Pop ==
  ASSUME Types, Frames, stack # << >>, pending' = pending \ {Top.iface},
         stack' = Front(stack)
  PROVE  /\ stack' \in Seq(Activation) /\ Len(stack') = Len(stack) - 1 /\ Frames'
         /\ Len(stack) \in Nat \ {0} /\ Top.iface \in pending
         /\ \A n \in 1 .. Len(stack') : n \in 1 .. Len(stack) /\ stack'[n] = stack[n]
<1>1. Len(stack) \in Nat \ {0} /\ Len(stack) \in 1 .. Len(stack)
  BY DEF Types
<1>3. /\ stack' \in Seq(Activation) /\ Len(stack') = Len(stack) - 1
      /\ \A n \in 1 .. Len(stack) - 1 : stack'[n] = stack[n]
  <2>1. stack \in Seq(Activation)
    BY DEF Types
  <2>2. QED
    BY <2>1, FrontIs
<1>4. \A n \in 1 .. Len(stack') : n \in 1 .. Len(stack) /\ stack'[n] = stack[n]
  BY <1>1, <1>3
<1>5. Top.iface \in pending
  BY <1>1 DEF Frames, Top
<1>6. \A n \in 1 .. Len(stack) : n \in 1 .. Len(stack') \/ n = Len(stack)
  BY <1>1, <1>3
<1>7. \A n \in 1 .. Len(stack') : stack'[n].iface # Top.iface
  <2>1. \A n \in 1 .. Len(stack') : n # Len(stack)
    BY <1>1, <1>3
  <2>2. QED
    BY <1>1, <1>4, <2>1 DEF Frames, Top
<1>8. pending' = {stack'[n].iface : n \in 1 .. Len(stack')}
  <2>1. ASSUME NEW j \in pending' PROVE \E n \in 1 .. Len(stack') : stack'[n].iface = j
    <3>1. PICK n \in 1 .. Len(stack) : stack[n].iface = j
      BY DEF Frames
    <3>2. n # Len(stack)
      BY <3>1 DEF Top
    <3>3. QED
      BY <1>4, <1>6, <3>1, <3>2
  <2>2. ASSUME NEW n \in 1 .. Len(stack') PROVE stack'[n].iface \in pending'
    BY <1>4, <1>7 DEF Frames
  <2>3. QED
    BY <2>1, <2>2
<1>9. \A m, n \in 1 .. Len(stack') : stack'[m].iface = stack'[n].iface => m = n
  BY <1>4 DEF Frames
<1>10. IsFiniteSet(pending') /\ Cardinality(pending') = Cardinality(pending) - 1
  BY <1>5, FS_RemoveElement DEF Frames
<1>11. Frames'
  BY <1>3, <1>8, <1>9, <1>10 DEF Frames
<1>12. QED
  BY <1>1, <1>3, <1>4, <1>5, <1>11

\* While the loop over a requires list runs, its next entry is a name.
LEMMA TokenIs ==
  ASSUME Types, Looping
  PROVE  /\ Token \in Iface /\ Top \in Activation /\ Top.iface \in Iface
         /\ DependentDepth \in Nat \ {0} /\ pc = "count" /\ stack # << >>
         /\ Top.next \in 1 .. Len(requires[Top.iface])
         /\ requires[Top.iface] \in Seq(Iface) /\ Token \in ToSet(requires[Top.iface])
<1>1. stack # << >> /\ pc = "count" /\ Top.next <= Len(requires[Top.iface])
  BY DEF Looping
<1>2. Top \in Activation /\ Top.next \in Nat \ {0}
  BY <1>1, CallersAre
<1>3. Top.iface \in Iface /\ Top.depth \in Nat
  BY <1>2 DEF Activation
<1>4. requires[Top.iface] \in Seq(Iface) /\ Len(requires[Top.iface]) \in Nat
  BY <1>3 DEF Types
<1>5. Top.next \in 1 .. Len(requires[Top.iface])
  BY <1>1, <1>2, <1>4
<1>6. Token \in Iface /\ Token \in ToSet(requires[Top.iface])
  BY <1>4, <1>5, SetOfSeq DEF Token
<1>7. QED
  BY <1>1, <1>2, <1>3, <1>4, <1>5, <1>6 DEF DependentDepth

-----------------------------------------------------------------------------
(* Types, action by action.                                                *)

\* The counts of a list of stanzas, and zero.
Counts(s) == {0} \cup {rdepends[i] : i \in ToSet(s)}

\* One of them is the largest: maxdepth.
LEMMA MaxDepth ==
  ASSUME rdepends \in [Iface -> Nat], NEW s \in Seq(Iface)
  PROVE  Max(Counts(s)) \in Nat /\ \A i \in ToSet(s) : rdepends[i] <= Max(Counts(s))
<1> DEFINE Q == {r \in Seq(Iface) : \E m \in Counts(r) : \A y \in Counts(r) : m >= y}
<1>1. << >> \in Q
  <2>1. << >> \in Seq(Iface) /\ Counts(<< >>) = {0}
    BY SetOfNone DEF Counts
  <2>2. \E m \in Counts(<< >>) : \A y \in Counts(<< >>) : m >= y
    <3> DEFINE c == Counts(<< >>)
    <3>1. c = {0}
      BY <2>1
    <3> HIDE DEF c
    <3>2. \E m \in c : \A y \in c : m >= y
      BY <3>1
    <3>3. QED
      BY <3>2 DEF c
  <2>3. QED
    BY <2>1, <2>2
<1>2. ASSUME NEW r \in Seq(Iface), r # << >>, Tail(r) \in Q PROVE r \in Q
  <2>1. Head(r) \in Iface /\ ToSet(r) = {Head(r)} \cup ToSet(Tail(r))
    BY <1>2, SetOfSeq
  <2>2. Counts(r) = Counts(Tail(r)) \cup {rdepends[Head(r)]}
    BY <2>1 DEF Counts
  <2>3. Tail(r) \in Seq(Iface) /\ Counts(Tail(r)) \subseteq Nat /\ rdepends[Head(r)] \in Nat
    <3>1. Tail(r) \in Seq(Iface)
      BY <1>2
    <3>2. ToSet(Tail(r)) \subseteq Iface
      BY <3>1, SetOfSeq
    <3>3. QED
      BY <2>1, <3>1, <3>2 DEF Counts
  <2>4. PICK m \in Counts(Tail(r)) : \A y \in Counts(Tail(r)) : m >= y
    BY <1>2
  <2> DEFINE d == rdepends[Head(r)]
  <2> HIDE DEF d
  <2>5. \E k \in Counts(Tail(r)) \cup {d} : \A y \in Counts(Tail(r)) \cup {d} : k >= y
    <3>1. d \in Nat /\ m \in Nat
      BY <2>3 DEF d
    <3>2. CASE m >= d
      BY <2>3, <2>4, <3>1, <3>2
    <3>3. CASE d >= m
      BY <2>3, <2>4, <3>1, <3>3
    <3>4. QED
      BY <3>1, <3>2, <3>3
  <2>6. QED
    BY <2>2, <2>5 DEF d
<1>3. Seq(Iface) \subseteq Q
  <2> HIDE DEF Q
  <2>1. QED
    BY <1>1, <1>2, SeqInd
<1>4. \E m \in Counts(s) : \A y \in Counts(s) : m >= y
  BY <1>3
<1>5. Max(Counts(s)) \in Counts(s) /\ \A y \in Counts(s) : Max(Counts(s)) >= y
  BY <1>4 DEF Max
<1>6. Counts(s) \subseteq Nat
  <2>1. ToSet(s) \subseteq Iface
    BY SetOfSeq
  <2>2. QED
    BY <2>1 DEF Counts
<1>7. ASSUME NEW i \in ToSet(s) PROVE rdepends[i] <= Max(Counts(s))
  <2>1. rdepends[i] \in Counts(s)
    BY DEF Counts
  <2>2. QED
    BY <1>5, <1>6, <2>1
<1>8. QED
  BY <1>5, <1>6, <1>7

\* A token that is no member becomes the last one.
Found(t) == IF t \in ToSet(list) THEN list ELSE Append(list, t)

\* lif_interface_collection_find changes nothing else.
LEMMA FoundIs ==
  ASSUME list \in Seq(Iface), NEW t \in Iface
  PROVE  /\ Found(t) \in Seq(Iface) /\ ToSet(Found(t)) = ToSet(list) \cup {t}
         /\ IsInjective(list) => IsInjective(Found(t))
         /\ Len(list) \in Nat /\ Len(Found(t)) \in Nat /\ Len(list) <= Len(Found(t))
         /\ \A n \in 1 .. Len(list) : Found(t)[n] = list[n]
<1>1. CASE t \in ToSet(list)
  BY <1>1 DEF Found
<1>2. CASE t \notin ToSet(list)
  <2>1. Found(t) = Append(list, t)
    BY <1>2 DEF Found
  <2>2. /\ Len(list) \in Nat /\ Len(Append(list, t)) = Len(list) + 1
        /\ \A n \in 1 .. Len(list) : Append(list, t)[n] = list[n]
    OBVIOUS
  <2>3. Len(list) <= Len(list) + 1
    BY <2>2
  <2>4. QED
    BY <1>2, <2>1, <2>2, <2>3, SetOfAppend
<1>3. QED
  BY <1>1, <1>2

\* The loop over the collection, up to the call.
LEMMA CountNextIs ==
  ASSUME Types, CountNext
  PROVE  /\ list[root] \in Iface /\ rdepends[list[root]] \in Nat /\ root \in 1 .. Len(list)
         /\ << >> \in Seq(Activation) /\ Len(<< >>) = Len(stack)
         /\ list[root] \in ToSet(list)
<1>1. stack = << >> /\ root <= Len(list) /\ root \in Nat \ {0} /\ list \in Seq(Iface)
  BY DEF CountNext, Types
<1>2. root \in 1 .. Len(list)
  BY <1>1
<1>3. list[root] \in Iface /\ list[root] \in ToSet(list)
  BY <1>1, <1>2, SetOfSeq
<1>4. << >> \in Seq(Activation)
  OBVIOUS
<1>5. QED
  BY <1>1, <1>2, <1>3, <1>4 DEF Types

\* The loop over a requires list, up to the call: Enter with the stack as Callers.
LEMMA VisitIs ==
  ASSUME Types, Visit
  PROVE  /\ Enter(Token, DependentDepth, Callers) /\ list' = Found(Token) /\ Looping
         /\ UNCHANGED <<pc, root, temp, depth>>
  BY DEF Visit, Callers, Found

\* The activations are of the walk only.
Typed == Types /\ Frames /\ (pc # "count" => stack = << >>)

\* Before the walk nothing is active.
LEMMA TypedInit == Init => Typed
<1> SUFFICES ASSUME Init PROVE Typed
  OBVIOUS
<1>1. list \in Seq(Iface) /\ requires \in [Iface -> Seq(Iface)]
  BY DependencyAssumption DEF Init
<1>2. Types
  <2>1. << >> \in Seq(Activation) /\ << >> \in Seq(Iface)
    OBVIOUS
  <2>2. QED
    BY <1>1, <2>1 DEF Types, Init
<1>3. Frames
  <2>1. Len(stack) = 0 /\ pending = {}
    BY DEF Init
  <2>2. QED
    BY <2>1, FS_EmptySet DEF Frames
<1>4. QED
  BY <1>2, <1>3 DEF Typed, Init

\* No step leaves the types, or makes a stanza active twice.
LEMMA TypedStep == Typed /\ [Next]_vars => Typed'
<1> SUFFICES ASSUME Typed, [Next]_vars PROVE Typed'
  OBVIOUS
<1>0. Types /\ Frames /\ (pc # "count" => stack = << >>)
  BY DEF Typed
<1>1. CASE CountNext
  <2>1. /\ Enter(list[root], rdepends[list[root]], << >>) /\ root' = root + 1
        /\ UNCHANGED <<pc, list, temp, depth>> /\ pc = "count" /\ stack = << >>
    BY <1>1 DEF CountNext
  <2>2. /\ list[root] \in Iface /\ rdepends[list[root]] \in Nat
        /\ << >> \in Seq(Activation) /\ Len(<< >>) = Len(stack)
    BY <1>0, <1>1, CountNextIs
  <2>3. \A n \in 1 .. Len(stack) : << >>[n].iface = stack[n].iface
    BY <2>1
  <2>4. /\ requires' \in [Iface -> Seq(Iface)] /\ rdepends' \in [Iface -> Nat]
        /\ pending' \in SUBSET Iface /\ stack' \in Seq(Activation)
        /\ queries' \in [Iface -> Nat] /\ Frames'
    BY <1>0, <2>1, <2>2, <2>3, EnterTypes
  <2>5. root' \in Nat \ {0}
    BY <1>0, <2>1 DEF Types
  <2>6. Types'
    BY <1>0, <2>1, <2>4, <2>5 DEF Types
  <2>7. QED
    BY <2>1, <2>4, <2>6 DEF Typed
<1>2. CASE Visit
  <2>1. /\ Enter(Token, DependentDepth, Callers) /\ list' = Found(Token) /\ Looping
        /\ UNCHANGED <<pc, root, temp, depth>>
    BY <1>0, <1>2, VisitIs
  <2>2. /\ Token \in Iface /\ DependentDepth \in Nat /\ stack # << >> /\ pc = "count"
    BY <1>0, <2>1, TokenIs
  <2>3. /\ Callers \in Seq(Activation) /\ Len(Callers) = Len(stack)
        /\ \A n \in 1 .. Len(stack) : Callers[n].iface = stack[n].iface
    BY <1>0, <2>2, CallersAre
  <2>4. /\ requires' \in [Iface -> Seq(Iface)] /\ rdepends' \in [Iface -> Nat]
        /\ pending' \in SUBSET Iface /\ stack' \in Seq(Activation)
        /\ queries' \in [Iface -> Nat] /\ Frames'
    BY <1>0, <2>1, <2>2, <2>3, EnterTypes
  <2>5. list' \in Seq(Iface)
    BY <1>0, <2>1, <2>2, FoundIs DEF Types
  <2>6. QED
    BY <1>0, <2>1, <2>2, <2>4, <2>5 DEF Types, Typed
<1>3. CASE Return
  <2>1. stack # << >> /\ pending' = pending \ {Top.iface} /\ stack' = Front(stack)
    BY <1>3 DEF Return
  <2>2. stack' \in Seq(Activation) /\ Frames'
    BY <1>0, <2>1, Pop
  <2>3. QED
    BY <1>0, <1>3, <2>2 DEF Return, Types, Typed
<1>4. CASE QueryFails
  <2>1. /\ pc' = "failed" /\ stack' = << >> /\ pending' = {}
        /\ UNCHANGED <<list, requires, rdepends, root, temp, depth, queries>>
    BY <1>4 DEF QueryFails
  <2>2. Frames'
    <3>1. Len(stack') = 0
      BY <2>1
    <3>2. QED
      BY <2>1, <3>1, FS_EmptySet DEF Frames
  <2>3. stack' \in Seq(Activation)
    BY <2>1
  <2>4. QED
    BY <1>0, <2>1, <2>2, <2>3 DEF Types, Typed
<1>5. CASE StartSort
  <2>1. /\ pc' = "sort" /\ depth' = 1 + Max(Counts(list)) /\ temp' = Reverse(list)
        /\ list' = << >> /\ UNCHANGED counting /\ stack = << >>
    BY <1>5 DEF StartSort, Counts
  <2>2. depth' \in Nat
    <3>1. Max(Counts(list)) \in Nat
      BY <1>0, MaxDepth DEF Types
    <3>2. QED
      BY <2>1, <3>1
  <2>3. temp' \in Seq(Iface) /\ list' \in Seq(Iface)
    <3>1. Reverse(list) \in Seq(Iface)
      BY <1>0, SetOfReverse DEF Types
    <3>2. QED
      BY <2>1, <3>1
  <2>4. Frames'
    BY <1>0, <2>1 DEF Frames, counting
  <2>5. QED
    BY <1>0, <2>1, <2>2, <2>3, <2>4 DEF Types, Typed, counting
<1>6. CASE SortDepth
  <2>1. /\ list' = Reinserted(depth - 1) \o list /\ depth' = depth - 1 /\ depth > 0
        /\ temp' = Chosen(temp, Iface \ Deep(depth - 1)) /\ UNCHANGED counting
        /\ pc' \in {"done", "sort"} /\ pc = "sort"
    BY <1>6 DEF SortDepth
  <2>2. depth' \in Nat
    BY <1>0, <2>1 DEF Types
  <2>3. temp' \in Seq(Iface)
    BY <1>0, <2>1, SetOfChosen DEF Types
  <2>4. list' \in Seq(Iface)
    <3>1. Chosen(temp, Deep(depth - 1)) \in Seq(Iface)
      BY <1>0, SetOfChosen DEF Types
    <3>2. Reinserted(depth - 1) \in Seq(Iface)
      BY <3>1, SetOfReverse DEF Reinserted
    <3>3. QED
      BY <1>0, <2>1, <3>2, SetOfBoth DEF Types
  <2>5. Frames'
    BY <1>0, <2>1 DEF Frames, counting
  <2>6. QED
    BY <1>0, <2>1, <2>2, <2>3, <2>4, <2>5 DEF Types, Typed, counting
<1>7. CASE UNCHANGED vars
  BY <1>0, <1>7 DEF vars, Types, Frames, Typed
<1>8. QED
  BY <1>1, <1>2, <1>3, <1>4, <1>5, <1>6, <1>7 DEF Next, Step, Finished

\* Every variable stays in its type, whatever is required and learned; and the
\* activations of count_interface_rdepends are as is_pending says, one for each
\* stanza at most, so that the recursion is no deeper than there are stanzas.
THEOREM DependencyTypes == Spec => []TypeOK
<1>1. Init => Typed
  BY TypedInit
<1>2. Typed /\ [Next]_vars => Typed'
  BY TypedStep
<1>3. Typed => TypeOK
  BY TypesAre DEF Typed
<1>4. QED
  BY <1>1, <1>2, <1>3, PTL DEF Spec

-----------------------------------------------------------------------------
(* No stanza is lost.                                                      *)

\* What a call of count_interface_rdepends for i changes: nothing of other stanzas, and
\* nothing of one that is active; i is active then, and on top of the callers if it was
\* not before.
LEMMA EnterFacts ==
  ASSUME Types, Frames, NEW i \in Iface, NEW d \in Nat, NEW c \in Seq(Activation),
         Len(c) = Len(stack), \A n \in 1 .. Len(stack) : c[n].iface = stack[n].iface,
         Enter(i, d, c)
  PROVE  /\ pending' = pending \cup {i}
         /\ \A j \in Iface : j # i \/ j \in pending =>
                /\ requires'[j] = requires[j] /\ rdepends'[j] = rdepends[j]
                /\ queries'[j] = queries[j]
         /\ i \notin pending =>
                requires'[i] = Merged(i) /\ rdepends'[i] = d /\ queries'[i] = queries[i] + 1
         /\ \A n \in 1 .. Len(stack) :
                n \in 1 .. Len(stack') /\ stack'[n] = c[n] /\ c[n].iface \in pending
         /\ \A n \in 1 .. Len(stack') :
                \/ n \in 1 .. Len(stack)
                \/ i \notin pending /\ stack'[n].iface = i /\ stack'[n].next = 1
<1>0. \A n \in 1 .. Len(stack) : c[n].iface \in pending
  BY DEF Frames
<1>1. CASE i \in pending
  <2>1. stack' = c /\ UNCHANGED <<requires, rdepends, pending, queries>>
    BY <1>1 DEF Enter
  <2>2. QED
    BY <1>0, <1>1, <2>1
<1>2. CASE i \notin pending
  <2> DEFINE f == [iface |-> i, depth |-> d, next |-> 1]
  <2>1. /\ stack' = Append(c, f) /\ pending' = pending \cup {i}
        /\ rdepends' = [rdepends EXCEPT ![i] = d]
        /\ requires' = [requires EXCEPT ![i] = Merged(i)]
        /\ queries' = [queries EXCEPT ![i] = @ + 1]
    BY <1>2 DEF Enter
  <2>2. f \in Activation /\ f.iface = i /\ f.next = 1
    BY DEF Activation
  <2> HIDE DEF f
  <2>3. /\ Len(stack') = Len(stack) + 1 /\ Len(stack) \in Nat
        /\ stack'[Len(stack) + 1] = f
        /\ \A n \in 1 .. Len(stack) : stack'[n] = c[n]
        /\ \A n \in 1 .. Len(stack') : n \in 1 .. Len(stack) \/ n = Len(stack) + 1
    BY <2>1, <2>2, Push
  <2>4. \A n \in 1 .. Len(stack) : n \in 1 .. Len(stack')
    BY <2>3
  <2>5. /\ requires'[i] = Merged(i) /\ rdepends'[i] = d /\ queries'[i] = queries[i] + 1
        /\ \A j \in Iface : j # i =>
               /\ requires'[j] = requires[j] /\ rdepends'[j] = rdepends[j]
               /\ queries'[j] = queries[j]
    BY <2>1 DEF Types
  <2>6. QED
    BY <1>0, <1>2, <2>1, <2>2, <2>3, <2>4, <2>5
<1>3. QED
  BY <1>1, <1>2

\* count_interface_rdepends has been called for i and did its work.
Visited(i) == queries[i] > 0

\* The first entries of the requires list of an activation, those before next, are members.
PartlySeen(a) ==
    \A m \in 1 .. Len(requires[a.iface]) :
        m < a.next => requires[a.iface][m] \in ToSet(list)

\* While the walk goes on: what has been visited is a member and, when it is not active
\* any more, so is all it requires; the loop over the collection visits one after another.
Walk == /\ IsInjective(list) /\ temp = << >> /\ root <= Len(list) + 1
        /\ \A i \in Iface : Visited(i) => i \in ToSet(list)
        /\ \A i \in Iface \ pending : Visited(i) => ToSet(requires[i]) \subseteq ToSet(list)
        /\ \A n \in 1 .. Len(stack) : Visited(stack[n].iface) /\ PartlySeen(stack[n])
        /\ \A m \in 1 .. Len(list) : m < root => Visited(list[m])

\* A call for a member that is one already, or just became the last one.
LEMMA EnterWalks ==
  ASSUME Typed, Walk, NEW i \in Iface, NEW d \in Nat, NEW c \in Seq(Activation),
         Len(c) = Len(stack), \A n \in 1 .. Len(stack) : c[n].iface = stack[n].iface,
         Enter(i, d, c), list' = Found(i), temp' = temp,
         \A n \in 1 .. Len(stack) : \A m \in 1 .. Len(requires[c[n].iface]) :
             m < c[n].next => requires[c[n].iface][m] \in ToSet(list'),
         \/ root' = root
         \/ root \in 1 .. Len(list) /\ list[root] = i /\ root' = root + 1
  PROVE  Walk'
<1>0. Types /\ Frames /\ root \in Nat \ {0} /\ list \in Seq(Iface)
  BY DEF Typed, Types
<1>1. /\ pending' = pending \cup {i}
      /\ \A j \in Iface : j # i \/ j \in pending =>
             /\ requires'[j] = requires[j] /\ rdepends'[j] = rdepends[j]
             /\ queries'[j] = queries[j]
      /\ i \notin pending =>
             requires'[i] = Merged(i) /\ rdepends'[i] = d /\ queries'[i] = queries[i] + 1
      /\ \A n \in 1 .. Len(stack) :
             n \in 1 .. Len(stack') /\ stack'[n] = c[n] /\ c[n].iface \in pending
      /\ \A n \in 1 .. Len(stack') :
             \/ n \in 1 .. Len(stack)
             \/ i \notin pending /\ stack'[n].iface = i /\ stack'[n].next = 1
  BY <1>0, EnterFacts
<1>2. /\ ToSet(list') = ToSet(list) \cup {i} /\ Len(list) \in Nat
      /\ IsInjective(list) => IsInjective(list')
      /\ Len(list') \in Nat /\ Len(list) <= Len(list')
      /\ \A n \in 1 .. Len(list) : list'[n] = list[n]
  BY <1>0, FoundIs
<1>3. queries'[i] > 0
  <2>1. CASE i \in pending
    <3>1. Visited(i)
      BY <1>0, <2>1 DEF Frames, Walk
    <3>2. QED
      BY <1>1, <2>1, <3>1 DEF Visited
  <2>2. CASE i \notin pending
    <3>1. queries[i] \in Nat
      BY <1>0 DEF Types
    <3>2. QED
      BY <1>1, <2>2, <3>1
  <2>3. QED
    BY <2>1, <2>2
<1>4. \A j \in Iface : Visited(j) => queries'[j] > 0
  BY <1>1, <1>3 DEF Visited
<1>5. IsInjective(list') /\ temp' = << >> /\ root' <= Len(list') + 1
  BY <1>0, <1>2 DEF Walk
<1>6. \A j \in Iface : queries'[j] > 0 => j \in ToSet(list')
  BY <1>1, <1>2 DEF Walk, Visited
<1>7. \A j \in Iface \ pending' : queries'[j] > 0 => ToSet(requires'[j]) \subseteq ToSet(list')
  BY <1>1, <1>2 DEF Walk, Visited
<1>8. ASSUME NEW n \in 1 .. Len(stack')
      PROVE  /\ queries'[stack'[n].iface] > 0
             /\ \A m \in 1 .. Len(requires'[stack'[n].iface]) :
                    m < stack'[n].next => requires'[stack'[n].iface][m] \in ToSet(list')
  <2>1. CASE n \in 1 .. Len(stack)
    <3>1. stack'[n] = c[n] /\ c[n].iface \in pending /\ c[n].iface = stack[n].iface
      BY <1>1, <2>1
    <3>2. c[n].iface \in Iface
      BY <1>0, <3>1 DEF Types
    <3>3. requires'[c[n].iface] = requires[c[n].iface]
      BY <1>1, <3>1, <3>2
    <3>4. Visited(c[n].iface)
      BY <2>1, <3>1 DEF Walk
    <3>5. QED
      BY <1>4, <2>1, <3>1, <3>2, <3>3, <3>4
  <2>2. CASE n \notin 1 .. Len(stack)
    <3>1. stack'[n].iface = i /\ stack'[n].next = 1
      BY <1>1, <2>2
    <3>2. \A m \in 1 .. Len(requires'[i]) : ~(m < 1)
      OBVIOUS
    <3>3. QED
      BY <1>3, <3>1, <3>2
  <2>3. QED
    BY <2>1, <2>2
<1>9. ASSUME NEW m \in 1 .. Len(list'), m < root' PROVE queries'[list'[m]] > 0
  <2>1. m \in 1 .. Len(list) /\ (m < root \/ (m = root /\ list[m] = i))
    <3>0. Len(list) \in Nat /\ root \in Nat
      BY <1>0, <1>2
    <3>1. root <= Len(list) + 1
      BY DEF Walk
    <3>2. CASE root' = root
      <4>1. m \in Nat /\ m >= 1 /\ m < root
        BY <1>2, <1>9, <3>2
      <4>2. QED
        BY <3>0, <3>1, <4>1
    <3>3. CASE root \in 1 .. Len(list) /\ list[root] = i /\ root' = root + 1
      <4>1. m \in Nat /\ m >= 1 /\ m < root + 1
        BY <1>2, <1>9, <3>3
      <4>2. m = root \/ m < root
        BY <3>0, <4>1
      <4>3. QED
        BY <3>0, <3>3, <4>1, <4>2
    <3>4. QED
      BY <3>2, <3>3
  <2>2. list'[m] = list[m] /\ list[m] \in Iface
    BY <1>0, <1>2, <2>1
  <2>3. QED
    BY <1>3, <1>4, <2>1, <2>2 DEF Walk
<1>10. QED
  BY <1>5, <1>6, <1>7, <1>8, <1>9 DEF Walk, Visited, PartlySeen

\* The loop over the collection keeps the walk.
LEMMA CountNextWalks ==
  ASSUME Typed, Walk, CountNext
  PROVE  Walk'
<1>0. Types
  BY DEF Typed
<1>1. /\ list[root] \in Iface /\ rdepends[list[root]] \in Nat /\ root \in 1 .. Len(list)
      /\ << >> \in Seq(Activation) /\ Len(<< >>) = Len(stack) /\ list[root] \in ToSet(list)
  BY <1>0, CountNextIs
<1>2. /\ Enter(list[root], rdepends[list[root]], << >>) /\ root' = root + 1
      /\ list' = list /\ temp' = temp /\ stack = << >>
  BY DEF CountNext
<1>3. list' = Found(list[root])
  BY <1>1, <1>2 DEF Found
<1>4. Len(stack) = 0
  BY <1>2
<1> DEFINE i == list[root]
           d == rdepends[i]
           c == << >>
<1>5. /\ i \in Iface /\ d \in Nat /\ c \in Seq(Activation) /\ Len(c) = Len(stack)
      /\ Enter(i, d, c) /\ list' = Found(i) /\ list[root] = i
  BY <1>1, <1>2, <1>3
<1>6. /\ \A n \in 1 .. Len(stack) : c[n].iface = stack[n].iface
      /\ \A n \in 1 .. Len(stack) : \A m \in 1 .. Len(requires[c[n].iface]) :
             m < c[n].next => requires[c[n].iface][m] \in ToSet(list')
  BY <1>4
<1> HIDE DEF i, d, c
<1>7. QED
  BY <1>1, <1>2, <1>5, <1>6, EnterWalks

\* The loop over a requires list keeps the walk: its next name is a member by then.
LEMMA VisitWalks ==
  ASSUME Typed, Walk, Visit
  PROVE  Walk'
<1>0. Types /\ list \in Seq(Iface)
  BY DEF Typed, Types
<1>1. /\ Enter(Token, DependentDepth, Callers) /\ list' = Found(Token) /\ Looping
      /\ root' = root /\ temp' = temp
  BY <1>0, VisitIs
<1>2. /\ Token \in Iface /\ DependentDepth \in Nat /\ stack # << >>
      /\ Top.next \in 1 .. Len(requires[Top.iface])
  BY <1>0, <1>1, TokenIs
<1>3. /\ Callers \in Seq(Activation) /\ Len(Callers) = Len(stack) /\ Len(stack) \in Nat \ {0}
      /\ \A n \in 1 .. Len(stack) :
             /\ Callers[n].iface = stack[n].iface
             /\ Callers[n].next = IF n = Len(stack) THEN Top.next + 1 ELSE stack[n].next
  BY <1>0, <1>2, CallersAre
<1>4. ToSet(list') = ToSet(list) \cup {Token}
  BY <1>0, <1>1, <1>2, FoundIs
<1>5. ASSUME NEW n \in 1 .. Len(stack), NEW m \in 1 .. Len(requires[Callers[n].iface]),
             m < Callers[n].next
      PROVE  requires[Callers[n].iface][m] \in ToSet(list')
  <2>1. Callers[n].iface = stack[n].iface /\ PartlySeen(stack[n])
    BY <1>3 DEF Walk
  <2>2. m < stack[n].next => requires[stack[n].iface][m] \in ToSet(list)
    BY <2>1 DEF PartlySeen
  <2>3. CASE m < stack[n].next
    BY <1>4, <2>1, <2>2, <2>3
  <2>4. CASE ~(m < stack[n].next)
    <3>1. stack[n] \in Activation
      BY <1>0 DEF Types
    <3>2. n = Len(stack) /\ stack[n] = Top
      BY <1>3, <1>5, <2>4 DEF Top
    <3>3. m \in Nat /\ m < Top.next + 1 /\ ~(m < Top.next)
      BY <1>3, <1>5, <2>4, <3>2
    <3>4. m = Top.next
      BY <1>2, <3>3
    <3>5. QED
      BY <1>4, <2>1, <3>2, <3>4 DEF Token
  <2>5. QED
    BY <2>3, <2>4
<1> DEFINE i == Token
           d == DependentDepth
           c == Callers
<1>6. /\ i \in Iface /\ d \in Nat /\ c \in Seq(Activation) /\ Len(c) = Len(stack)
      /\ \A n \in 1 .. Len(stack) : c[n].iface = stack[n].iface
      /\ Enter(i, d, c) /\ list' = Found(i)
      /\ \A n \in 1 .. Len(stack) : \A m \in 1 .. Len(requires[c[n].iface]) :
             m < c[n].next => requires[c[n].iface][m] \in ToSet(list')
  BY <1>1, <1>2, <1>3, <1>5
<1> HIDE DEF i, d, c
<1>7. QED
  BY <1>1, <1>6, EnterWalks

\* An activation that has seen all of its requires list ends.
LEMMA ReturnWalks ==
  ASSUME Typed, Walk, Return
  PROVE  Walk'
<1>0. Types /\ Frames /\ requires \in [Iface -> Seq(Iface)]
  BY DEF Typed, Types
<1>1. /\ stack # << >> /\ pending' = pending \ {Top.iface} /\ stack' = Front(stack)
      /\ Top.next > Len(requires[Top.iface])
      /\ UNCHANGED <<list, requires, root, temp, queries>>
  BY DEF Return
<1>2. /\ \A n \in 1 .. Len(stack') : n \in 1 .. Len(stack) /\ stack'[n] = stack[n]
      /\ Len(stack) \in Nat \ {0} /\ Top.iface \in pending
  BY <1>0, <1>1, Pop
<1>3. ToSet(requires[Top.iface]) \subseteq ToSet(list)
  <2>1. Top \in Activation /\ Len(stack) \in 1 .. Len(stack)
    BY <1>0, <1>1, <1>2, CallersAre
  <2>2. Top.iface \in Iface /\ Top.next \in Nat
    BY <2>1 DEF Activation
  <2>3. PartlySeen(Top)
    BY <2>1 DEF Walk, Top
  <2>4. requires[Top.iface] \in Seq(Iface) /\ Len(requires[Top.iface]) \in Nat
    BY <1>0, <2>2
  <2>5. \A m \in 1 .. Len(requires[Top.iface]) : requires[Top.iface][m] \in ToSet(list)
    BY <1>1, <2>2, <2>3, <2>4 DEF PartlySeen
  <2>6. QED
    BY <2>4, <2>5, SetOfSeq
<1>4. \A i \in Iface \ pending' :
          queries[i] > 0 => ToSet(requires[i]) \subseteq ToSet(list)
  BY <1>1, <1>3 DEF Walk, Visited
<1>5. \A n \in 1 .. Len(stack') :
          /\ queries[stack'[n].iface] > 0
          /\ \A m \in 1 .. Len(requires[stack'[n].iface]) :
                 m < stack'[n].next => requires[stack'[n].iface][m] \in ToSet(list)
  BY <1>2 DEF Walk, Visited, PartlySeen
<1>6. QED
  BY <1>1, <1>4, <1>5 DEF Walk, Visited, PartlySeen

\* Everything that is in the collection or still to be put back.
Nodes == ToSet(list) \cup ToSet(temp)

\* While the nodes are put back: each is in one place, and those of the depths done are
\* in theirs.
Sorting == /\ IsInjective(list) /\ IsInjective(temp) /\ ToSet(list) \cap ToSet(temp) = {}
           /\ \A i \in ToSet(temp) : rdepends[i] < depth
           /\ \A i \in Nodes : ToSet(requires[i]) \subseteq Nodes
           /\ pc = "done" <=> depth = 0

\* The walk ends: all are visited and none is active, so the collection is closed.
LEMMA SortStarts ==
  ASSUME Typed, Walk, StartSort
  PROVE  Sorting' /\ pc' = "sort" /\ Nodes' = ToSet(list)
<1>0. Types /\ Frames /\ list \in Seq(Iface)
  BY DEF Typed, Types
<1>1. /\ pc' = "sort" /\ depth' = 1 + Max(Counts(list)) /\ temp' = Reverse(list)
      /\ list' = << >> /\ UNCHANGED <<requires, rdepends>>
      /\ stack = << >> /\ root > Len(list)
  BY DEF StartSort, Counts, counting
<1>2. /\ ToSet(temp') = ToSet(list) /\ IsInjective(temp')
  BY <1>0, <1>1, SetOfReverse DEF Walk
<1>3. ToSet(list') = {} /\ IsInjective(list')
  BY <1>1, SetOfNone DEF IsInjective
<1>4. Max(Counts(list)) \in Nat /\ \A i \in ToSet(list) : rdepends[i] <= Max(Counts(list))
  BY <1>0, MaxDepth DEF Types
<1>5. ASSUME NEW i \in ToSet(list)
      PROVE  rdepends[i] < depth' /\ ToSet(requires[i]) \subseteq ToSet(list)
  <2>1. PICK m \in 1 .. Len(list) : list[m] = i
    BY <1>0, SetOfSeq
  <2>2. i \in Iface
    BY <1>0, SetOfSeq
  <2>3. m < root
    BY <1>0, <1>1 DEF Types
  <2>4. Visited(i) /\ pending = {}
    BY <1>0, <1>1, <2>1, <2>3, NoFrames DEF Walk
  <2>5. rdepends[i] < depth'
    <3>1. rdepends[i] \in Nat /\ rdepends[i] <= Max(Counts(list))
      BY <1>0, <1>4, <2>2 DEF Types
    <3>2. QED
      BY <1>1, <1>4, <3>1
  <2>6. QED
    BY <2>2, <2>4, <2>5 DEF Walk
<1>6. depth' # 0
  BY <1>1, <1>4
<1>7. QED
  BY <1>1, <1>2, <1>3, <1>5, <1>6 DEF Sorting, Nodes

\* The nodes of one depth go back to the collection, the others stay.
LEMMA SortKeeps ==
  ASSUME Typed, pc = "sort", Sorting, SortDepth
  PROVE  Sorting' /\ Nodes' = Nodes
<1> DEFINE back == Reinserted(depth - 1)
           deep == Deep(depth - 1)
<1>0. /\ Types /\ list \in Seq(Iface) /\ temp \in Seq(Iface) /\ depth \in Nat
      /\ rdepends \in [Iface -> Nat]
  BY DEF Typed, Types
<1>1. /\ list' = back \o list /\ depth' = depth - 1 /\ depth > 0
      /\ temp' = Chosen(temp, Iface \ deep) /\ UNCHANGED <<requires, rdepends>>
      /\ pc' = IF depth = 1 THEN "done" ELSE "sort"
  BY DEF SortDepth, counting
<1>2. back = Reverse(Chosen(temp, deep))
  BY DEF Reinserted
<1>3. \A i \in Iface : i \in deep <=> rdepends[i] = depth - 1
  BY DEF Deep
<1> HIDE DEF back, deep
<1>4. /\ Chosen(temp, deep) \in Seq(Iface) /\ IsInjective(Chosen(temp, deep))
      /\ ToSet(Chosen(temp, deep)) = ToSet(temp) \cap deep
  BY <1>0, SetOfChosen DEF Sorting
<1>5. back \in Seq(Iface) /\ IsInjective(back) /\ ToSet(back) = ToSet(temp) \cap deep
  <2> DEFINE c == Chosen(temp, deep)
  <2>1. c \in Seq(Iface) /\ IsInjective(c) /\ back = Reverse(c)
    BY <1>2, <1>4
  <2> HIDE DEF c
  <2>2. back \in Seq(Iface) /\ IsInjective(back) /\ ToSet(back) = ToSet(c)
    BY <2>1, SetOfReverse
  <2>3. QED
    BY <1>4, <2>2 DEF c
<1>6. /\ IsInjective(temp') /\ ToSet(temp') = ToSet(temp) \cap (Iface \ deep)
  BY <1>0, <1>1, SetOfChosen DEF Sorting
<1>7. IsInjective(list') /\ ToSet(list') = ToSet(back) \cup ToSet(list)
  <2>1. ToSet(back) \cap ToSet(list) = {}
    BY <1>5 DEF Sorting
  <2>2. QED
    BY <1>0, <1>1, <1>5, <2>1, SetOfBoth DEF Sorting
<1>8. ToSet(temp) \subseteq Iface
  BY <1>0, SetOfSeq
<1>9. Nodes' = Nodes
  BY <1>5, <1>6, <1>7, <1>8 DEF Nodes
<1>10. ToSet(list') \cap ToSet(temp') = {}
  BY <1>5, <1>6, <1>7 DEF Sorting
<1>11. ASSUME NEW i \in ToSet(temp') PROVE rdepends[i] < depth'
  <2>1. i \in Iface /\ i \in ToSet(temp) /\ rdepends[i] # depth - 1
    BY <1>3, <1>6, <1>8
  <2>2. rdepends[i] < depth /\ rdepends[i] \in Nat
    BY <1>0, <2>1 DEF Sorting
  <2>3. QED
    BY <1>0, <1>1, <2>1, <2>2
<1>12. pc' = "done" <=> depth' = 0
  <2>1. depth = 1 <=> depth' = 0
    BY <1>0, <1>1
  <2>2. QED
    BY <1>1, <2>1
<1>13. \A i \in Nodes' : ToSet(requires'[i]) \subseteq Nodes'
  BY <1>1, <1>9 DEF Sorting
<1>14. QED
  BY <1>1, <1>6, <1>7, <1>9, <1>10, <1>11, <1>12, <1>13 DEF Sorting

\* Nothing is lost on the way.
Losing == /\ Typed
          /\ pc = "count" => Walk
          /\ pc \in {"sort", "done"} => Sorting

\* A list without members is empty.
LEMMA Emptied ==
  ASSUME NEW S, NEW s \in Seq(S), ToSet(s) = {}
  PROVE  s = << >>
<1>1. SUFFICES ASSUME s # << >> PROVE FALSE
  OBVIOUS
<1>2. QED
  BY <1>1, SetOfSeq

\* When all depths are done, everything is back.
LEMMA LosingIs == Losing => NothingLost
<1> SUFFICES ASSUME Losing, pc = "done"
             PROVE  /\ IsInjective(list) /\ temp = << >>
                    /\ \A i \in ToSet(list) : ToSet(requires[i]) \subseteq ToSet(list)
  BY DEF NothingLost
<1>1. Sorting /\ depth = 0 /\ Types
  BY DEF Losing, Sorting, Typed
<1>2. ToSet(temp) = {}
  <2>1. \A i \in ToSet(temp) : i \in Iface
    BY <1>1, SetOfSeq DEF Types
  <2>2. \A i \in ToSet(temp) : rdepends[i] \in Nat /\ rdepends[i] < 0
    BY <1>1, <2>1 DEF Sorting, Types
  <2>3. \A n \in Nat : ~(n < 0)
    OBVIOUS
  <2>4. QED
    BY <2>2, <2>3
<1>3. temp = << >>
  BY <1>1, <1>2, Emptied DEF Types
<1>4. QED
  BY <1>1, <1>2, <1>3 DEF Sorting, Nodes

\* The parser leaves no stanza twice, and nothing has been visited.
LEMMA WalkInit == Init => Walk
<1> SUFFICES ASSUME Init PROVE Walk
  OBVIOUS
<1>1. list \in Seq(Iface) /\ IsInjective(list)
  BY DependencyAssumption DEF Init
<1>2. /\ stack = << >> /\ root = 1 /\ temp = << >>
      /\ \A i \in Iface : ~Visited(i)
  BY DEF Init, Visited
<1>3. Len(list) \in Nat /\ Len(stack) = 0
  BY <1>1, <1>2
<1>4. \A m \in 1 .. Len(list) : ~(m < root)
  BY <1>2
<1>5. root <= Len(list) + 1
  BY <1>2, <1>3
<1>6. QED
  BY <1>1, <1>2, <1>3, <1>4, <1>5 DEF Walk

\* Every step of the walk and of the sort keeps what they know about the members.
LEMMA LosingStep == Losing /\ [Next]_vars => Losing'
<1> SUFFICES ASSUME Losing, [Next]_vars PROVE Losing'
  OBVIOUS
<1>0. Typed /\ (pc = "count" => Walk) /\ (pc \in {"sort", "done"} => Sorting)
  BY DEF Losing
<1>1. Typed'
  BY <1>0, TypedStep
<1>2. CASE CountNext
  BY <1>0, <1>1, <1>2, CountNextWalks DEF CountNext, Losing
<1>3. CASE Visit
  BY <1>0, <1>1, <1>3, VisitWalks DEF Visit, Looping, Losing
<1>4. CASE Return
  BY <1>0, <1>1, <1>4, ReturnWalks DEF Return, Losing
<1>5. CASE QueryFails
  BY <1>1, <1>5 DEF QueryFails, Losing
<1>6. CASE StartSort
  BY <1>0, <1>1, <1>6, SortStarts DEF StartSort, Losing
<1>7. CASE SortDepth
  BY <1>0, <1>1, <1>7, SortKeeps DEF SortDepth, Losing
<1>8. CASE UNCHANGED vars
  BY <1>0, <1>1, <1>8 DEF vars, Losing, Walk, Sorting, Nodes, Visited, PartlySeen
<1>9. QED
  BY <1>2, <1>3, <1>4, <1>5, <1>6, <1>7, <1>8 DEF Next, Step, Finished

\* The walk makes what it finds required a member, and the sort loses no stanza and
\* repeats none, so that -a visits each exactly once.
THEOREM SortLosesNothing == Spec => []NothingLost
<1>1. Init => Losing
  BY TypedInit, WalkInit DEF Init, Losing
<1>2. Losing /\ [Next]_vars => Losing'
  BY LosingStep
<1>3. Losing => NothingLost
  BY LosingIs
<1>4. QED
  BY <1>1, <1>2, <1>3, PTL DEF Spec

-----------------------------------------------------------------------------
(* What the executors print is merged.                                     *)

\* The list of what has been visited has been merged: it has no repetitions, everything
\* printed is kept in it, and merging once more changes nothing.
Merging == \A i \in Iface : Visited(i) =>
               /\ IsInjective(requires[i])
               /\ \A t \in ToSet(Printed(i)) : IsKept(requires[i], t)
               /\ Merged(i) = requires[i]

\* What is learned is required once the executors have been asked.
LEMMA MergingIs == Merging => LearnedIsRequired
BY DEF Merging, Visited, LearnedIsRequired, IsKept

\* A call merges the list of its stanza, and touches no other.
LEMMA EnterMerges ==
  ASSUME Typed, Merging, NEW i \in Iface, NEW d \in Nat, NEW c \in Seq(Activation),
         Len(c) = Len(stack), \A n \in 1 .. Len(stack) : c[n].iface = stack[n].iface,
         Enter(i, d, c)
  PROVE  /\ Merging'
         /\ \A j \in Iface : Visited(j) => requires'[j] = requires[j]
<1>0. Types /\ Frames /\ requires \in [Iface -> Seq(Iface)]
  BY DEF Typed, Types
<1>1. /\ \A j \in Iface : j # i \/ j \in pending =>
             /\ requires'[j] = requires[j] /\ queries'[j] = queries[j]
      /\ i \notin pending =>
             requires'[i] = Merged(i) /\ queries'[i] = queries[i] + 1
  BY <1>0, EnterFacts
<1>2. ASSUME NEW j \in Iface, requires'[j] = requires[j] PROVE Merged(j)' = Merged(j)
  BY <1>2 DEF Merged
<1>3. ASSUME NEW j \in Iface, queries'[j] > 0
      PROVE  /\ IsInjective(requires'[j])
             /\ \A t \in ToSet(Printed(j)) : IsKept(requires'[j], t)
             /\ Merged(j)' = requires'[j]
  <2>1. CASE j # i \/ j \in pending
    BY <1>1, <1>2, <1>3, <2>1 DEF Merging, Visited
  <2>2. CASE j = i /\ j \notin pending
    <3> DEFINE m == Merged(i)
    <3>1. /\ IsInjective(m) /\ \A t \in ToSet(Printed(i)) : IsKept(m, t)
          /\ KeptFirst(m \o Printed(i))[Len(m \o Printed(i))] = m
      BY <1>0, MergedFacts
    <3>2. requires'[i] = m
      BY <1>1, <2>2
    <3>3. Merged(i)' = KeptFirst(requires'[i] \o Printed(i))[Len(requires'[i] \o Printed(i))]
      BY DEF Merged
    <3> HIDE DEF m
    <3>4. QED
      BY <2>2, <3>1, <3>2, <3>3
  <2>3. QED
    BY <2>1, <2>2
<1>4. ASSUME NEW j \in Iface, Visited(j) PROVE requires'[j] = requires[j]
  <2>1. CASE j # i \/ j \in pending
    BY <1>1, <2>1
  <2>2. CASE j = i /\ j \notin pending
    BY <1>1, <1>4, <2>2 DEF Merging
  <2>3. QED
    BY <2>1, <2>2
<1>5. QED
  BY <1>3, <1>4 DEF Merging, Visited

\* Every step that calls count_interface_rdepends does so for a name, at a depth, and
\* with the activations of before as callers.
LEMMA Calls ==
  ASSUME Typed, CountNext \/ Visit
  PROVE  \E i \in Iface : \E d \in Nat : \E c \in Seq(Activation) :
             /\ Len(c) = Len(stack) /\ \A n \in 1 .. Len(stack) : c[n].iface = stack[n].iface
             /\ Enter(i, d, c)
<1>0. Types
  BY DEF Typed
<1>1. CASE CountNext
  <2>1. /\ list[root] \in Iface /\ rdepends[list[root]] \in Nat
        /\ << >> \in Seq(Activation) /\ Len(<< >>) = Len(stack)
    BY <1>0, <1>1, CountNextIs
  <2>2. Enter(list[root], rdepends[list[root]], << >>) /\ stack = << >>
    BY <1>1 DEF CountNext
  <2>3. \A n \in 1 .. Len(stack) : << >>[n].iface = stack[n].iface
    BY <2>2
  <2>4. QED
    BY <2>1, <2>2, <2>3
<1>2. CASE Visit
  <2>1. Enter(Token, DependentDepth, Callers) /\ Looping
    BY <1>0, <1>2, VisitIs
  <2>2. Token \in Iface /\ DependentDepth \in Nat /\ stack # << >>
    BY <1>0, <2>1, TokenIs
  <2>3. /\ Callers \in Seq(Activation) /\ Len(Callers) = Len(stack)
        /\ \A n \in 1 .. Len(stack) : Callers[n].iface = stack[n].iface
    BY <1>0, <2>2, CallersAre
  <2>4. QED
    BY <2>1, <2>2, <2>3
<1>3. QED
  BY <1>1, <1>2

\* A list that has been merged stays as it is.
LEMMA MergingStep == Typed /\ Merging /\ [Next]_vars => Merging'
<1> SUFFICES ASSUME Typed, Merging, [Next]_vars PROVE Merging'
  OBVIOUS
<1>1. CASE CountNext \/ Visit
  <2>1. PICK i \in Iface, d \in Nat, c \in Seq(Activation) :
            /\ Len(c) = Len(stack) /\ \A n \in 1 .. Len(stack) : c[n].iface = stack[n].iface
            /\ Enter(i, d, c)
    BY <1>1, Calls
  <2>2. QED
    BY <2>1, EnterMerges
<1>2. CASE Return \/ QueryFails \/ StartSort \/ SortDepth \/ UNCHANGED vars
  <2>1. UNCHANGED <<requires, queries>>
    BY <1>2 DEF Return, QueryFails, StartSort, SortDepth, counting, vars
  <2>2. QED
    BY <2>1 DEF Merging, Visited, Merged
<1>3. QED
  BY <1>1, <1>2 DEF Next, Step, Finished

\* Once the executors of a stanza have been asked, its list names each requirement once
\* and covers all they print: a printed name is missing only if it is part of a name in
\* the list.  However often it is visited and whatever they repeat, the list then stays.
THEOREM LearnedIsMerged == Spec => []LearnedIsRequired
<1>1. Init => Typed /\ Merging
  <2>1. Init => Typed
    BY TypedInit
  <2>2. Init => Merging
    BY DEF Init, Merging, Visited
  <2>3. QED
    BY <2>1, <2>2
<1>2. Typed /\ Merging /\ [Next]_vars => Typed' /\ Merging'
  BY TypedStep, MergingStep
<1>3. QED
  BY <1>1, <1>2, MergingIs, PTL DEF Spec

-----------------------------------------------------------------------------
(* The count is positive for what another stanza requires.                 *)

\* What i requires counts a reverse dependency, unless it is i itself.
Secured(i, t) == t = i \/ rdepends[t] > 0

\* The stanzas of the loop over the collection before this one have been walked to the end.
Walked == IF stack = << >> THEN root ELSE root - 1

\* A counted stanza is required by another that has been visited.
Required == \A t \in Iface : rdepends[t] > 0 =>
                \E j \in Iface \ {t} : Visited(j) /\ t \in ToSet(requires[j])

\* The outermost activation is that of the loop over the collection; what it has seen of
\* its requires list is counted.
Outermost == stack # << >> =>
                 /\ root - 1 \in 1 .. Len(list) /\ stack[1].iface = list[root - 1]
                 /\ \A m \in 1 .. Len(requires[stack[1].iface]) :
                        m < stack[1].next =>
                            Secured(stack[1].iface, requires[stack[1].iface][m])

\* All that is required by the stanzas walked is counted.
Secure == \A m \in 1 .. Len(list) : m < Walked =>
              \A t \in ToSet(requires[list[m]]) : Secured(list[m], t)

Counting == Required /\ Outermost /\ Secure

\* A call never sets a positive count to zero, counts only what an activation requires
\* and leaves what the stanzas visited require as it is.
LEMMA EnterCounts ==
  ASSUME Typed, Walk, Merging, Counting,
         NEW i \in Iface, NEW d \in Nat, NEW c \in Seq(Activation),
         Len(c) = Len(stack), \A n \in 1 .. Len(stack) : c[n].iface = stack[n].iface,
         Enter(i, d, c), list' = Found(i),
         d = rdepends[i] \/ \E j \in pending : i \in ToSet(requires[j])
  PROVE  /\ \A t \in Iface : rdepends[t] > 0 /\ (t = i => d > 0) => rdepends'[t] > 0
         /\ Required'
         /\ \A j \in Iface : Visited(j) => requires'[j] = requires[j]
<1>0. Types /\ Frames /\ rdepends \in [Iface -> Nat] /\ queries \in [Iface -> Nat]
  BY DEF Typed, Types
<1>1. /\ \A j \in Iface : j # i \/ j \in pending =>
             rdepends'[j] = rdepends[j] /\ queries'[j] = queries[j]
      /\ i \notin pending => rdepends'[i] = d /\ queries'[i] = queries[i] + 1
  <2>1. /\ \A j \in Iface : j # i \/ j \in pending =>
               /\ requires'[j] = requires[j] /\ rdepends'[j] = rdepends[j]
               /\ queries'[j] = queries[j]
        /\ i \notin pending =>
               requires'[i] = Merged(i) /\ rdepends'[i] = d /\ queries'[i] = queries[i] + 1
    BY <1>0, EnterFacts, Zenon
  <2>2. QED
    BY <2>1
<1>2. \A j \in Iface : Visited(j) => requires'[j] = requires[j]
  BY EnterMerges
<1>3. \A t \in Iface : rdepends[t] > 0 /\ (t = i => d > 0) => rdepends'[t] > 0
  BY <1>1
<1>4. \A j \in Iface : Visited(j) => queries'[j] > 0
  <2>1. SUFFICES ASSUME NEW j \in Iface, queries[j] > 0 PROVE queries'[j] > 0
    BY DEF Visited
  <2>2. queries[j] \in Nat
    BY <1>0
  <2>3. queries'[j] = queries[j] \/ queries'[j] = queries[j] + 1
    BY <1>1
  <2>4. QED
    BY <2>1, <2>2, <2>3
<1>5. ASSUME NEW j \in pending PROVE j \in Iface /\ Visited(j)
  <2>1. PICK n \in 1 .. Len(stack) : stack[n].iface = j
    BY <1>0 DEF Frames
  <2>2. Visited(stack[n].iface)
    BY DEF Walk
  <2>3. QED
    BY <1>0, <2>1, <2>2 DEF Types
<1>6. ASSUME NEW t \in Iface, rdepends'[t] > 0
      PROVE  \E j \in Iface \ {t} : queries'[j] > 0 /\ t \in ToSet(requires'[j])
  <2>1. CASE rdepends[t] > 0
    <3>1. PICK j \in Iface \ {t} : Visited(j) /\ t \in ToSet(requires[j])
      BY <2>1 DEF Counting, Required
    <3>2. QED
      BY <1>2, <1>4, <3>1
  <2>2. CASE ~(rdepends[t] > 0)
    <3>1. t = i /\ i \notin pending /\ rdepends'[i] = d /\ d # rdepends[i]
      BY <1>1, <1>6, <2>2
    <3>2. PICK j \in pending : i \in ToSet(requires[j])
      BY <3>1
    <3>3. j # t /\ j \in Iface /\ Visited(j)
      BY <1>5, <3>1
    <3>4. QED
      BY <1>2, <1>4, <3>1, <3>2, <3>3
  <2>3. QED
    BY <2>1, <2>2
<1>7. QED
  BY <1>2, <1>3, <1>6 DEF Required, Visited

\* The loop over the collection starts the walk of the next stanza.
LEMMA CountNextCounts ==
  ASSUME Typed, Walk, Merging, Counting, CountNext
  PROVE  Counting'
<1>0. Types /\ Frames /\ requires \in [Iface -> Seq(Iface)]
  BY DEF Typed, Types
<1>1. /\ list[root] \in Iface /\ rdepends[list[root]] \in Nat /\ root \in 1 .. Len(list)
      /\ << >> \in Seq(Activation) /\ Len(<< >>) = Len(stack) /\ list[root] \in ToSet(list)
  BY <1>0, CountNextIs
<1>2. /\ Enter(list[root], rdepends[list[root]], << >>) /\ root' = root + 1
      /\ list' = list /\ stack = << >> /\ root \in Nat \ {0} /\ list \in Seq(Iface)
  BY <1>0 DEF CountNext, Types
<1>3. Len(stack) = 0 /\ pending = {}
  BY <1>0, <1>2, NoFrames
<1>4. \A n \in 1 .. Len(stack) : << >>[n].iface = stack[n].iface
  BY <1>3
<1>5. list' = Found(list[root])
  BY <1>1, <1>2 DEF Found
<1> DEFINE i == list[root]
           d == rdepends[i]
           c == << >>
<1>6. /\ i \in Iface /\ d \in Nat /\ c \in Seq(Activation) /\ Len(c) = Len(stack)
      /\ \A n \in 1 .. Len(stack) : c[n].iface = stack[n].iface
      /\ Enter(i, d, c) /\ list' = Found(i) /\ d = rdepends[i]
  BY <1>1, <1>2, <1>4, <1>5
<1>7. stack' = Append(c, [iface |-> i, depth |-> d, next |-> 1])
  BY <1>3, <1>6 DEF Enter
<1> HIDE DEF i, d, c
<1>8. /\ \A t \in Iface : rdepends[t] > 0 /\ (t = i => d > 0) => rdepends'[t] > 0
      /\ Required'
      /\ \A j \in Iface : Visited(j) => requires'[j] = requires[j]
  BY <1>6, EnterCounts
<1>9. stack' # << >> /\ stack'[1].iface = i /\ stack'[1].next = 1
  <2> DEFINE f == [iface |-> i, depth |-> d, next |-> 1]
  <2>1. f \in Activation /\ f.iface = i /\ f.next = 1
    BY <1>6 DEF Activation
  <2>2. stack' = Append(c, f) /\ Len(c) = 0
    BY <1>3, <1>6, <1>7
  <2> HIDE DEF f
  <2>3. stack'[1] = f /\ stack' # << >>
    BY <1>6, <2>1, <2>2
  <2>4. QED
    BY <2>1, <2>3
<1>10. Walked = root /\ Walked' = root /\ root' - 1 = root
  BY <1>2, <1>9 DEF Walked
<1>11. Outermost'
  <2>1. \A m \in 1 .. Len(requires'[stack'[1].iface]) : ~(m < stack'[1].next)
    BY <1>9
  <2>2. root' - 1 \in 1 .. Len(list') /\ stack'[1].iface = list'[root' - 1]
    BY <1>1, <1>2, <1>9, <1>10 DEF i
  <2>3. QED
    BY <2>1, <2>2 DEF Outermost
<1>12. ASSUME NEW m \in 1 .. Len(list'), m < Walked', NEW t \in ToSet(requires'[list'[m]])
       PROVE  t = list'[m] \/ rdepends'[t] > 0
  <2>1. m \in 1 .. Len(list) /\ m < Walked /\ m < root /\ list'[m] = list[m]
    BY <1>2, <1>10, <1>12
  <2>2. list[m] \in Iface /\ Visited(list[m])
    BY <1>2, <2>1 DEF Walk
  <2>3. requires'[list[m]] = requires[list[m]] /\ requires[list[m]] \in Seq(Iface)
    BY <1>0, <1>8, <2>2
  <2>4. t \in Iface /\ t \in ToSet(requires[list[m]])
    BY <1>12, <2>1, <2>3, SetOfSeq
  <2>5. Secured(list[m], t)
    BY <2>1, <2>4 DEF Counting, Secure
  <2>6. rdepends[t] > 0 => rdepends'[t] > 0
    BY <1>8, <2>4 DEF d
  <2>7. QED
    BY <2>1, <2>5, <2>6 DEF Secured
<1>13. Secure'
  BY <1>12 DEF Secure, Secured
<1>14. QED
  BY <1>8, <1>11, <1>13 DEF Counting

\* The next name of the outermost activation is counted, unless it is that of the
\* activation itself; deeper ones leave the outermost as it is.
LEMMA VisitCounts ==
  ASSUME Typed, Walk, Merging, Counting, Visit
  PROVE  Counting'
<1>0. Types /\ Frames /\ requires \in [Iface -> Seq(Iface)] /\ list \in Seq(Iface)
  BY DEF Typed, Types
<1>1. /\ Enter(Token, DependentDepth, Callers) /\ list' = Found(Token) /\ Looping
      /\ root' = root
  BY <1>0, VisitIs
<1>2. /\ Token \in Iface /\ DependentDepth \in Nat \ {0} /\ stack # << >>
      /\ Top.next \in 1 .. Len(requires[Top.iface])
      /\ Token \in ToSet(requires[Top.iface])
  BY <1>0, <1>1, TokenIs
<1>3. /\ Callers \in Seq(Activation) /\ Len(Callers) = Len(stack) /\ Len(stack) \in Nat \ {0}
      /\ \A n \in 1 .. Len(stack) :
             /\ stack[n] \in Activation
             /\ Callers[n].iface = stack[n].iface
             /\ Callers[n].next = IF n = Len(stack) THEN Top.next + 1 ELSE stack[n].next
  BY <1>0, <1>2, CallersAre
<1>4. Top.iface \in pending /\ 1 \in 1 .. Len(stack)
  BY <1>0, <1>3 DEF Frames, Top
<1> DEFINE i == Token
           d == DependentDepth
           c == Callers
           o == stack[1].iface
<1>5. /\ i \in Iface /\ d \in Nat /\ d > 0 /\ c \in Seq(Activation) /\ Len(c) = Len(stack)
      /\ \A n \in 1 .. Len(stack) : c[n].iface = stack[n].iface
      /\ Enter(i, d, c) /\ list' = Found(i) /\ \E j \in pending : i \in ToSet(requires[j])
  BY <1>1, <1>2, <1>3, <1>4
<1> HIDE DEF i, d, c, o
<1>6. /\ \A t \in Iface : rdepends[t] > 0 => rdepends'[t] > 0
      /\ Required'
      /\ \A j \in Iface : Visited(j) => requires'[j] = requires[j]
  BY <1>5, EnterCounts
<1>7. /\ i \notin pending => rdepends'[i] = d
      /\ \A n \in 1 .. Len(stack) : n \in 1 .. Len(stack') /\ stack'[n] = c[n]
  BY <1>0, <1>5, EnterFacts
<1>8. stack' # << >> /\ stack'[1] = c[1] /\ c[1].iface = o
  BY <1>4, <1>5, <1>7 DEF o
<1>9. Walked = root - 1 /\ Walked' = root - 1
  BY <1>1, <1>2, <1>8 DEF Walked
<1>10. /\ root - 1 \in 1 .. Len(list) /\ o = list[root - 1]
       /\ \A m \in 1 .. Len(requires[o]) :
              m < stack[1].next => Secured(o, requires[o][m])
  BY <1>2 DEF Counting, Outermost, o
<1>11. /\ Len(list) \in Nat /\ Len(list) <= Len(list') /\ Len(list') \in Nat
       /\ \A n \in 1 .. Len(list) : list'[n] = list[n]
  BY <1>0, <1>5, FoundIs
<1>12. o \in Iface /\ Visited(o) /\ requires'[o] = requires[o] /\ requires[o] \in Seq(Iface)
  <2>1. o \in Iface /\ Visited(o)
    BY <1>3, <1>4 DEF o, Activation, Walk
  <2>2. QED
    BY <1>0, <1>6, <2>1
<1>13. ASSUME NEW m \in 1 .. Len(requires[o]), m < c[1].next
       PROVE  requires[o][m] = o \/ rdepends'[requires[o][m]] > 0
  <2>1. requires[o][m] \in Iface
    BY <1>12
  <2>2. CASE m < stack[1].next
    BY <1>6, <1>10, <2>1, <2>2 DEF Secured
  <2>3. CASE ~(m < stack[1].next)
    <3>1. Len(stack) = 1 /\ c[1].next = Top.next + 1 /\ stack[1] = Top
      <4>1. c[1].next = IF 1 = Len(stack) THEN Top.next + 1 ELSE stack[1].next
        BY <1>3, <1>4 DEF c
      <4>2. QED
        BY <1>13, <2>3, <4>1 DEF Top
    <3>2. m = Top.next
      <4>1. m \in Nat /\ m < Top.next + 1 /\ ~(m < Top.next) /\ Top.next \in Nat
        BY <1>2, <1>13, <2>3, <3>1
      <4>2. QED
        BY <4>1
    <3>3. requires[o][m] = i
      BY <3>1, <3>2 DEF o, i, Token
    <3>4. CASE i \in pending
      <4>1. i = o
        BY <1>0, <3>1, <3>4 DEF Frames, o
      <4>2. QED
        BY <3>3, <4>1
    <3>5. CASE i \notin pending
      BY <1>5, <1>7, <3>3, <3>5
    <3>6. QED
      BY <3>4, <3>5
  <2>4. QED
    BY <2>2, <2>3
<1>14. Outermost'
  <2>1. root' - 1 \in 1 .. Len(list') /\ stack'[1].iface = list'[root' - 1]
    <3>1. root - 1 \in 1 .. Len(list')
      BY <1>10, <1>11
    <3>2. QED
      BY <1>1, <1>8, <1>10, <1>11, <3>1
  <2>2. \A m \in 1 .. Len(requires'[stack'[1].iface]) :
            m < stack'[1].next =>
                \/ requires'[stack'[1].iface][m] = stack'[1].iface
                \/ rdepends'[requires'[stack'[1].iface][m]] > 0
    BY <1>8, <1>12, <1>13
  <2>3. QED
    BY <2>1, <2>2 DEF Outermost, Secured
<1>15. ASSUME NEW m \in 1 .. Len(list'), m < Walked', NEW t \in ToSet(requires'[list'[m]])
       PROVE  t = list'[m] \/ rdepends'[t] > 0
  <2>1. m \in 1 .. Len(list) /\ m < root /\ m < Walked
    <3>1. m \in Nat /\ m >= 1 /\ m < root - 1 /\ root - 1 \in 1 .. Len(list)
      BY <1>9, <1>10, <1>11, <1>15
    <3>2. root - 1 \in Nat /\ root - 1 <= Len(list) /\ root \in Nat
      BY <1>0, <1>11, <3>1 DEF Types
    <3>3. QED
      BY <1>9, <1>11, <3>1, <3>2
  <2>2. list'[m] = list[m] /\ list[m] \in Iface /\ Visited(list[m])
    BY <1>0, <1>11, <2>1 DEF Walk
  <2>3. requires'[list[m]] = requires[list[m]] /\ requires[list[m]] \in Seq(Iface)
    BY <1>0, <1>6, <2>2
  <2>4. t \in Iface /\ t \in ToSet(requires[list[m]])
    BY <1>15, <2>2, <2>3, SetOfSeq
  <2>5. Secured(list[m], t)
    BY <2>1, <2>4 DEF Counting, Secure
  <2>6. QED
    BY <1>6, <2>2, <2>4, <2>5 DEF Secured
<1>16. Secure'
  BY <1>15 DEF Secure, Secured
<1>17. QED
  BY <1>6, <1>14, <1>16 DEF Counting

\* When the outermost activation ends, all that its stanza requires is counted.
LEMMA ReturnCounts ==
  ASSUME Typed, Walk, Counting, Return
  PROVE  Counting'
<1>0. Types /\ Frames /\ requires \in [Iface -> Seq(Iface)] /\ root \in Nat \ {0}
  BY DEF Typed, Types
<1>1. /\ stack # << >> /\ pending' = pending \ {Top.iface} /\ stack' = Front(stack)
      /\ Top.next > Len(requires[Top.iface])
      /\ UNCHANGED <<list, requires, rdepends, root, queries>>
  BY DEF Return
<1>2. /\ Len(stack') = Len(stack) - 1 /\ Len(stack) \in Nat \ {0} /\ stack' \in Seq(Activation)
      /\ \A n \in 1 .. Len(stack') : n \in 1 .. Len(stack) /\ stack'[n] = stack[n]
  BY <1>0, <1>1, Pop
<1>3. Required'
  BY <1>1 DEF Counting, Required, Visited
<1>4. Outermost'
  <2>1. SUFFICES ASSUME stack' # << >>
                 PROVE  /\ root - 1 \in 1 .. Len(list) /\ stack'[1].iface = list[root - 1]
                        /\ \A m \in 1 .. Len(requires[stack'[1].iface]) :
                               m < stack'[1].next =>
                                   Secured(stack'[1].iface, requires[stack'[1].iface][m])
    BY <1>1 DEF Outermost, Secured
  <2>2. 1 \in 1 .. Len(stack')
    BY <1>2, <2>1
  <2>3. stack'[1] = stack[1]
    BY <1>2, <2>2
  <2>4. QED
    BY <1>1, <2>3 DEF Counting, Outermost
<1>5. ASSUME NEW m \in 1 .. Len(list), m < Walked', NEW t \in ToSet(requires[list[m]])
      PROVE  Secured(list[m], t)
  <2>1. CASE m < Walked
    BY <2>1 DEF Counting, Secure
  <2>2. CASE ~(m < Walked)
    <3>1. stack' = << >> /\ m < root /\ ~(m < root - 1) /\ m \in Nat
      BY <1>1, <1>5, <2>2 DEF Walked
    <3>2. m = root - 1
      BY <1>0, <3>1
    <3>3. Len(stack') = 0
      BY <3>1
    <3>4. stack[1] = Top
      <4>1. Len(stack) = 1
        BY <1>2, <3>3
      <4>2. QED
        BY <4>1 DEF Top
    <3>5. /\ list[m] = Top.iface
          /\ \A n \in 1 .. Len(requires[Top.iface]) :
                 n < Top.next => Secured(Top.iface, requires[Top.iface][n])
      BY <1>1, <3>2, <3>4 DEF Counting, Outermost
    <3>6. Top.iface \in Iface /\ Top.next \in Nat
      <4>1. Top \in Activation
        BY <1>0, <1>1, CallersAre
      <4>2. QED
        BY <4>1 DEF Activation
    <3>7. requires[Top.iface] \in Seq(Iface) /\ Len(requires[Top.iface]) \in Nat
      BY <1>0, <3>6
    <3>8. PICK n \in 1 .. Len(requires[Top.iface]) : requires[Top.iface][n] = t
      BY <1>5, <3>5, <3>7, SetOfSeq
    <3>9. n < Top.next
      BY <1>1, <3>6, <3>7, <3>8
    <3>10. QED
      BY <3>5, <3>8, <3>9
  <2>3. QED
    BY <2>1, <2>2
<1>6. Secure'
  BY <1>1, <1>5 DEF Secure, Secured
<1>7. QED
  BY <1>3, <1>4, <1>6 DEF Counting

\* All that is to be sorted or has been: the count is positive for exactly what another
\* one of them requires.
Counted == \A i \in Nodes :
               rdepends[i] > 0 <=> \E j \in Nodes \ {i} : i \in ToSet(requires[j])

\* The walk ends: all has been counted.
LEMMA SortCounts ==
  ASSUME Typed, Walk, Counting, StartSort
  PROVE  Counted'
<1>0. Types /\ list \in Seq(Iface)
  BY DEF Typed, Types
<1>1. Nodes' = ToSet(list)
  BY SortStarts
<1>2. UNCHANGED <<requires, rdepends>> /\ stack = << >> /\ root > Len(list)
  BY DEF StartSort, counting
<1>3. ASSUME NEW i \in ToSet(list), rdepends[i] > 0
      PROVE  \E j \in ToSet(list) \ {i} : i \in ToSet(requires[j])
  <2>1. i \in Iface
    BY <1>0, SetOfSeq
  <2>2. PICK j \in Iface \ {i} : Visited(j) /\ i \in ToSet(requires[j])
    BY <1>3, <2>1 DEF Counting, Required
  <2>3. j \in ToSet(list)
    BY <2>2 DEF Walk
  <2>4. QED
    BY <2>2, <2>3
<1>4. ASSUME NEW i \in ToSet(list), NEW j \in ToSet(list) \ {i}, i \in ToSet(requires[j])
      PROVE  rdepends[i] > 0
  <2>1. PICK m \in 1 .. Len(list) : list[m] = j
    BY <1>0, SetOfSeq
  <2>2. m < Walked
    <3>1. Len(list) \in Nat /\ root \in Nat /\ m \in Nat /\ m <= Len(list)
      BY <1>0 DEF Types
    <3>2. QED
      BY <1>2, <3>1 DEF Walked
  <2>3. QED
    BY <1>4, <2>1, <2>2 DEF Counting, Secure, Secured
<1>5. QED
  BY <1>1, <1>2, <1>3, <1>4 DEF Counted

\* The walk counts, and the sort changes no count.
CountingRight == /\ Losing /\ Merging
                 /\ pc = "count" => Counting
                 /\ pc \in {"sort", "done"} => Counted

\* In the beginning nothing is counted.
LEMMA CountingInit == Init => Losing /\ Merging /\ Counting
<1> SUFFICES ASSUME Init PROVE Losing /\ Merging /\ Counting
  OBVIOUS
<1>1. Losing
  BY TypedInit, WalkInit DEF Init, Losing
<1>2. Merging
  BY DEF Init, Merging, Visited
<1>3. Required
  BY DEF Init, Required
<1>4. stack = << >> /\ root = 1 /\ Walked = 1
  BY DEF Init, Walked
<1>5. \A m \in 1 .. Len(list) : ~(m < Walked)
  BY <1>4
<1>6. QED
  BY <1>1, <1>2, <1>3, <1>4, <1>5 DEF Counting, Outermost, Secure

\* Every step keeps what is known about the counts.
LEMMA CountingStep == CountingRight /\ [Next]_vars => CountingRight'
<1> SUFFICES ASSUME CountingRight, [Next]_vars PROVE CountingRight'
  OBVIOUS
<1>0. /\ Losing /\ Merging /\ Typed
      /\ pc = "count" => Counting /\ Walk
      /\ pc \in {"sort", "done"} => Counted /\ Sorting
  BY DEF CountingRight, Losing
<1>1. Losing' /\ Merging'
  BY <1>0, LosingStep, MergingStep
<1>2. CASE CountNext
  BY <1>0, <1>1, <1>2, CountNextCounts DEF CountNext, CountingRight
<1>3. CASE Visit
  BY <1>0, <1>1, <1>3, VisitCounts DEF Visit, Looping, CountingRight
<1>4. CASE Return
  BY <1>0, <1>1, <1>4, ReturnCounts DEF Return, CountingRight
<1>5. CASE QueryFails
  BY <1>1, <1>5 DEF QueryFails, CountingRight
<1>6. CASE StartSort
  <2>1. pc = "count" /\ pc' = "sort"
    BY <1>6 DEF StartSort
  <2>2. Counted'
    BY <1>0, <1>6, <2>1, SortCounts
  <2>3. QED
    BY <1>1, <2>1, <2>2 DEF CountingRight
<1>7. CASE SortDepth
  <2>1. pc = "sort" /\ pc' # "count" /\ UNCHANGED <<requires, rdepends>>
    BY <1>7 DEF SortDepth, counting
  <2>2. Nodes' = Nodes
    BY <1>0, <1>7, <2>1, SortKeeps
  <2>3. Counted'
    BY <1>0, <2>1, <2>2 DEF Counted
  <2>4. QED
    BY <1>1, <2>1, <2>3 DEF CountingRight
<1>8. CASE UNCHANGED vars
  BY <1>0, <1>1, <1>8 DEF vars, CountingRight, Counting, Required, Outermost, Secure,
     Secured, Walked, Visited, Counted, Nodes
<1>9. QED
  BY <1>2, <1>3, <1>4, <1>5, <1>6, <1>7, <1>8 DEF Next, Step, Finished

\* rdepends_count is positive for exactly what another stanza requires, with whatever
\* cycles the requires lists have and wherever the recursion was cut.
THEOREM PositiveIfRequired == Spec => []CountsReverseDependency
<1>1. Init => CountingRight
  BY CountingInit DEF Init, CountingRight
<1>2. CountingRight /\ [Next]_vars => CountingRight'
  BY CountingStep
<1>3. CountingRight => CountsReverseDependency
  <2>1. SUFFICES ASSUME CountingRight, pc = "done"
                 PROVE  \A i \in ToSet(list) : rdepends[i] > 0 <=> Requirers(i) \ {i} # {}
    BY DEF CountsReverseDependency
  <2>2. Counted /\ temp = << >>
    BY <2>1, LosingIs DEF CountingRight, NothingLost
  <2>3. Nodes = ToSet(list)
    BY <2>2, SetOfNone DEF Nodes
  <2>4. QED
    BY <2>2, <2>3 DEF Counted, Requirers
<1>4. QED
  BY <1>1, <1>2, <1>3, PTL DEF Spec
=============================================================================
