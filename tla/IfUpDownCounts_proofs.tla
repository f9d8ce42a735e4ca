----------------------- MODULE IfUpDownCounts_proofs -----------------------
(***************************************************************************)
(* The reference counts of IfUpDown are exact as long as nothing disturbs  *)
(* the commands: one process at a time, no failures, no kills, no --force, *)
(* and operators who take requirers down first.  The last section, on what *)
(* a command that exits with success leaves, allows all of these.          *)
(***************************************************************************)
EXTENDS IfUpDown_proofs, FiniteSetTheorems

-----------------------------------------------------------------------------
(* The books: who holds a reference on an interface, for a command that    *)
(* goes up or down, its stack of activations s and the kernel's view ph.   *)

\* The stanzas that require i.
RequirersOf(i) == {r \in Iface : i \in ToSet(Requires[r])}

OnStack(s) == {s[n].iface : n \in DOMAIN s}

\* Activation f has counted i already (going up) or not yet given it up (going down).
Keeps(up, f, i) ==
    \E j \in DOMAIN Requires[f.iface] : Requires[f.iface][j] = i /\ (up <=> j < f.next)

\* Who holds a reference on i: what is up and requires it, and an activation of
\* lif_lifecycle_run as far as its handle_dependents has got.
Holders(up, s, ph, i) ==
    {r \in Iface : \/ r \notin OnStack(s) /\ ph[r] = "up" /\ i \in ToSet(Requires[r])
                   \/ \E n \in DOMAIN s : s[n].iface = r /\ Keeps(up, s[n], i)}

\* An interface holds a reference on itself from its return going up to its
\* return going down.
Itself(up, s, ph, i) ==
    IF \/ up /\ ph[i] = "up" /\ i \notin OnStack(s)
       \/ ~up /\ (ph[i] = "up" \/ i \in OnStack(s))
    THEN 1 ELSE 0

\* The count of an interface is the number of references held on it.
ExactFor(up, s, ph, count, i) ==
    count[i] = Cardinality(Holders(up, s, ph, i)) + Itself(up, s, ph, i)

Exact(up, s, ph, count) == \A i \in Iface : ExactFor(up, s, ph, count, i)

\* What somebody holds a reference on is up, or on its way.
HeldFor(up, s, ph, i) ==
    Holders(up, s, ph, i) # {} => ph[i] = "up" \/ (up /\ i \in OnStack(s))

\* How far an activation has got with the kernel's interface and with its dependents.
FrameOK(up, s, ph, f) ==
    IF up
    THEN /\ ph[f.iface] = "up" <=> f.at = 6
         /\ f.at > 1 => f.next > Len(Requires[f.iface])
    ELSE /\ ph[f.iface] = "up" <=> f.at = 1
         /\ f.at < 5 => f.next = 1
         /\ f.at = 6 => f.next > Len(Requires[f.iface])
         /\ Holders(up, s, ph, f.iface) = {}

FramesOK(up, s, ph) == \A n \in DOMAIN s : FrameOK(up, s, ph, s[n])

Books(up, s, ph, count) ==
    /\ Exact(up, s, ph, count)
    /\ \A i \in Iface : HeldFor(up, s, ph, i)
    /\ FramesOK(up, s, ph)

\* A stack of activations none of which nests in itself, for any counts.
Shape(up, s, ph, count) ==
    /\ up \in BOOLEAN
    /\ s \in Seq(Frame)
    /\ \A a, b \in DOMAIN s : s[a].iface = s[b].iface => a = b
    /\ count \in [Iface -> Nat]
    /\ ph \in [Key -> {"down", "partial", "up"}]

\* The innermost activation of s visits its next dependent d and becomes that of t.
Visits(s, t, d) ==
    LET l == Len(s)
        f == s[l]
    IN  /\ l \in Nat \ {0} /\ f.next <= Len(Requires[f.iface])
        /\ d = Requires[f.iface][f.next]
        /\ t \in Seq(Frame) /\ Len(t) = l /\ \A n \in 1 .. l - 1 : t[n] = s[n]
        /\ t[l].iface = f.iface /\ t[l].at = f.at /\ t[l].next = f.next + 1

\* An interface holds at most one reference on itself.
LEMMA ItselfType ==
    ASSUME NEW up, NEW s, NEW ph, NEW i
    PROVE  Itself(up, s, ph, i) \in {0, 1}
BY DEF Itself

\* No stanza requires another one twice.
RequiresDistinct ==
    \A i \in Iface, a, b \in Nat :
        a \in DOMAIN Requires[i] /\ b \in DOMAIN Requires[i] /\ Requires[i][a] = Requires[i][b]
            => a = b

\* The references held on an interface can be counted.
LEMMA HoldersFinite ==
    ASSUME IsFiniteSet(Iface), NEW up, NEW s, NEW ph, NEW i
    PROVE  /\ IsFiniteSet(Holders(up, s, ph, i))
           /\ Cardinality(Holders(up, s, ph, i)) \in Nat
<1>1. Holders(up, s, ph, i) \in SUBSET Iface  BY DEF Holders
<1> QED  BY <1>1, FS_Subset, FS_CardinalityType

\* The requires list of a stanza is a list of stanzas.
LEMMA RequiresType ==
    ASSUME NEW i \in Iface
    PROVE  /\ Requires[i] \in Seq(Iface) /\ Len(Requires[i]) \in Nat
           /\ DOMAIN Requires[i] = 1 .. Len(Requires[i])
           /\ \A n \in 1 .. Len(Requires[i]) : Requires[i][n] \in Iface
<1>1. Requires[i] \in Seq(Iface)  BY ConfigAssumption
<1> QED  BY <1>1, LenProperties, ElementOfSeq

\* The next dependent of a stanza that has one is a stanza.
LEMMA NextRequired ==
    ASSUME NEW f \in Frame, f.next <= Len(Requires[f.iface])
    PROVE  /\ f.next \in DOMAIN Requires[f.iface]
           /\ Requires[f.iface][f.next] \in Iface
<1> DEFINE n == f.next
           R == Requires[f.iface]
<1>1. f.iface \in Iface /\ n \in Nat \ {0}  BY DEF Frame
<1>2. Len(R) \in Nat /\ DOMAIN R = 1 .. Len(R) /\ \A m \in 1 .. Len(R) : R[m] \in Iface
  BY <1>1, RequiresType
<1>3. n <= Len(R)  OBVIOUS
<1> HIDE DEF n, R
<1>4. n \in 1 .. Len(R)  BY <1>1, <1>2, <1>3
<1>5. n \in DOMAIN R /\ R[n] \in Iface  BY <1>2, <1>4
<1> QED  BY <1>5 DEF n, R

\* So is the one that an activation visits.
LEMMA VisitedType ==
    ASSUME NEW s \in Seq(Frame), NEW t, NEW d, Visits(s, t, d)
    PROVE  t \in Seq(Frame) /\ d \in Iface
<1> DEFINE l == Len(s)
           f == s[l]
<1>1. /\ l \in Nat \ {0} /\ t \in Seq(Frame)
      /\ f.next <= Len(Requires[f.iface]) /\ d = Requires[f.iface][f.next]
  BY DEF Visits
<1>2. l \in 1 .. l  BY <1>1
<1>3. DOMAIN s = 1 .. l  BY LenProperties
<1> HIDE DEF l
<1>4. f \in Frame  BY <1>2, <1>3, ElementOfSeq
<1> HIDE DEF f
<1>5. Requires[f.iface][f.next] \in Iface  BY <1>1, <1>4, NextRequired
<1> QED  BY <1>1, <1>5

-----------------------------------------------------------------------------
(* What each step of lif_lifecycle_run does to the books.                  *)

\* The innermost activation counts its next dependent, or gives it up.
LEMMA VisitHolders ==
    ASSUME RequiresDistinct,
           NEW up, NEW s, NEW ph, NEW count, Shape(up, s, ph, count),
           NEW t, NEW d, Visits(s, t, d), NEW f, f = s[Len(s)]
    PROVE  /\ f.iface \in Iface /\ d \in Iface
           /\ OnStack(t) = OnStack(s)
           /\ \A i \in Iface \ {d} : Holders(up, t, ph, i) = Holders(up, s, ph, i)
           /\ up => /\ f.iface \notin Holders(up, s, ph, d)
                    /\ Holders(up, t, ph, d) = Holders(up, s, ph, d) \cup {f.iface}
           /\ ~up => /\ f.iface \in Holders(up, s, ph, d)
                     /\ Holders(up, t, ph, d) = Holders(up, s, ph, d) \ {f.iface}
<1> DEFINE l == Len(s)
<1>0. /\ l \in Nat \ {0} /\ f = s[l] /\ f.next <= Len(Requires[f.iface])
      /\ d = Requires[f.iface][f.next]
      /\ t \in Seq(Frame) /\ Len(t) = l /\ \A n \in 1 .. l - 1 : t[n] = s[n]
      /\ t[l].iface = f.iface /\ t[l].at = f.at /\ t[l].next = f.next + 1
  BY DEF Visits
<1>1. /\ DOMAIN s = 1 .. l /\ DOMAIN t = 1 .. l /\ f \in Frame
      /\ up \in BOOLEAN /\ s \in Seq(Frame)
      /\ \A n \in 1 .. l : s[n] \in Frame /\ t[n] \in Frame
      /\ \A a, b \in 1 .. l : s[a].iface = s[b].iface => a = b
  <2>1. /\ up \in BOOLEAN /\ s \in Seq(Frame)
        /\ \A a, b \in DOMAIN s : s[a].iface = s[b].iface => a = b
    BY DEF Shape
  <2>2. DOMAIN s = 1 .. l /\ DOMAIN t = 1 .. l  BY <1>0, <2>1, LenProperties
  <2>3. \A n \in 1 .. l : s[n] \in Frame /\ t[n] \in Frame  BY <1>0, <2>1, <2>2, ElementOfSeq
  <2>4. f \in Frame
    <3>1. l \in 1 .. l  BY <1>0
    <3> QED  BY <1>0, <2>3, <3>1
  <2> QED  BY <2>1, <2>2, <2>3, <2>4
<1> HIDE DEF l
<1> DEFINE R == Requires[f.iface]
<1>2. /\ f.iface \in Iface /\ f.next \in Nat \ {0}
      /\ Len(R) \in Nat /\ DOMAIN R = 1 .. Len(R) /\ f.next \in DOMAIN R /\ d \in Iface
  <2>1. f.iface \in Iface /\ f.next \in Nat \ {0}  BY <1>0, <1>1 DEF Frame
  <2>2. /\ Len(R) \in Nat /\ DOMAIN R = 1 .. Len(R)
        /\ \A n \in 1 .. Len(R) : R[n] \in Iface
    BY <2>1, RequiresType
  <2>3. f.next \in 1 .. Len(R)  BY <1>0, <2>1, <2>2
  <2> QED  BY <1>0, <2>1, <2>2, <2>3
<1>3. \A n \in 1 .. l : t[n].iface = s[n].iface  BY <1>0, <1>1
<1>4. OnStack(t) = OnStack(s)  BY <1>0, <1>1, <1>3 DEF OnStack
<1>5. \A i \in Iface : Keeps(up, t[l], i) <=> \E j \in DOMAIN R : R[j] = i /\ (up <=> j < f.next + 1)
  BY <1>0 DEF Keeps
<1>6. \A i \in Iface : Keeps(up, f, i) <=> \E j \in DOMAIN R : R[j] = i /\ (up <=> j < f.next)
  BY DEF Keeps
<1>7. \A j \in DOMAIN R : R[j] = d <=> j = f.next
  BY <1>0, <1>2 DEF RequiresDistinct
<1>8. \A i \in Iface \ {d} : Keeps(up, t[l], i) <=> Keeps(up, f, i)
  <2>1. \A j \in DOMAIN R : j # f.next => (j < f.next <=> j < f.next + 1)  BY <1>0, <1>2
  <2>2. \A i \in Iface \ {d} : \A j \in DOMAIN R : R[j] = i => j # f.next  BY <1>0, <1>7
  <2> QED  BY <1>0, <1>5, <1>6, <2>1, <2>2
<1>9. (Keeps(up, f, d) <=> ~up) /\ (Keeps(up, t[l], d) <=> up)
  <2>1. ~(f.next < f.next) /\ f.next < f.next + 1  BY <1>0, <1>2
  <2>2. Keeps(up, f, d) <=> (up <=> f.next < f.next)  BY <1>0, <1>2, <1>6, <1>7
  <2>3. Keeps(up, t[l], d) <=> (up <=> f.next < f.next + 1)  BY <1>0, <1>2, <1>5, <1>7
  <2> QED  BY <1>0, <1>1, <2>1, <2>2, <2>3
<1> HIDE DEF R
<1>10. \A i \in Iface, r \in Iface \ {f.iface} :
          r \in Holders(up, t, ph, i) <=> r \in Holders(up, s, ph, i)
  <2> SUFFICES ASSUME NEW i \in Iface, NEW r \in Iface, r # f.iface
               PROVE  r \in Holders(up, t, ph, i) <=> r \in Holders(up, s, ph, i)
    OBVIOUS
  <2>1. \A n \in 1 .. l : s[n].iface = r => t[n] = s[n]
    BY <1>0, <1>1
  <2>2. (\E n \in 1 .. l : t[n].iface = r /\ Keeps(up, t[n], i))
        <=> \E n \in 1 .. l : s[n].iface = r /\ Keeps(up, s[n], i)
    BY <1>0, <1>3, <2>1
  <2> QED  BY <1>0, <1>1, <1>4, <2>2 DEF Holders
<1>11. f.iface \in OnStack(s)  BY <1>0, <1>1 DEF OnStack
<1>12. \A i \in Iface : f.iface \in Holders(up, s, ph, i) <=> Keeps(up, f, i)
  <2>1. l \in 1 .. l /\ \A n \in 1 .. l : s[n].iface = f.iface <=> n = l  BY <1>0, <1>1
  <2> QED  BY <1>0, <1>1, <1>2, <1>11, <2>1 DEF Holders
<1>13. \A i \in Iface : f.iface \in Holders(up, t, ph, i) <=> Keeps(up, t[l], i)
  <2>1. l \in 1 .. l /\ \A n \in 1 .. l : t[n].iface = f.iface <=> n = l  BY <1>0, <1>1, <1>3
  <2> QED  BY <1>0, <1>1, <1>2, <1>4, <1>11, <2>1 DEF Holders
<1>14. \A i \in Iface : Holders(up, s, ph, i) \subseteq Iface /\ Holders(up, t, ph, i) \subseteq Iface
  BY DEF Holders
<1>15. \A i \in Iface \ {d} : Holders(up, t, ph, i) = Holders(up, s, ph, i)
  <2> SUFFICES ASSUME NEW i \in Iface \ {d}
               PROVE  Holders(up, t, ph, i) = Holders(up, s, ph, i)
    OBVIOUS
  <2>1. \A r \in Iface : r \in Holders(up, t, ph, i) <=> r \in Holders(up, s, ph, i)
    BY <1>0, <1>8, <1>10, <1>12, <1>13
  <2> QED  BY <1>0, <1>14, <2>1
<1>16. up => /\ f.iface \notin Holders(up, s, ph, d)
             /\ Holders(up, t, ph, d) = Holders(up, s, ph, d) \cup {f.iface}
  <2> SUFFICES ASSUME up  PROVE /\ f.iface \notin Holders(up, s, ph, d)
                                /\ Holders(up, t, ph, d) = Holders(up, s, ph, d) \cup {f.iface}
    OBVIOUS
  <2>1. f.iface \notin Holders(up, s, ph, d) /\ f.iface \in Holders(up, t, ph, d)
    BY <1>0, <1>2, <1>9, <1>12, <1>13
  <2>2. \A r \in Iface \ {f.iface} : r \in Holders(up, t, ph, d) <=> r \in Holders(up, s, ph, d)
    BY <1>0, <1>2, <1>10
  <2> QED  BY <1>0, <1>2, <1>14, <2>1, <2>2
<1>17. ~up => /\ f.iface \in Holders(up, s, ph, d)
              /\ Holders(up, t, ph, d) = Holders(up, s, ph, d) \ {f.iface}
  BY <1>0, <1>2, <1>9, <1>10, <1>12, <1>13, <1>14
<1> QED  BY <1>0, <1>2, <1>4, <1>15, <1>16, <1>17

\* Going up, the innermost activation counts its next dependent.
VisitsUp(s, t, d, ph, count, after) ==
    /\ Shape(TRUE, s, ph, count) /\ Books(TRUE, s, ph, count)
    /\ Visits(s, t, d) /\ s[Len(s)].at = 1
    /\ after[d] = count[d] + 1 /\ \A i \in Iface \ {d} : after[i] = count[i]

\* Going up, the counts stay exact; only the new dependent may not be up yet, in
\* which case nobody counted it before.
LEMMA VisitUp ==
    ASSUME IsFiniteSet(Iface), RequiresDistinct,
           NEW s, NEW ph, NEW count, NEW t, NEW d, NEW after,
           VisitsUp(s, t, d, ph, count, after)
    PROVE  /\ OnStack(t) = OnStack(s)
           /\ Exact(TRUE, t, ph, after) /\ FramesOK(TRUE, t, ph)
           /\ \A i \in Iface \ {d} : HeldFor(TRUE, t, ph, i)
           /\ count[d] > 0 \/ d \in OnStack(s) => HeldFor(TRUE, t, ph, d)
<1> DEFINE l == Len(s)
           f == s[l]
<1>. /\ Shape(TRUE, s, ph, count) /\ Books(TRUE, s, ph, count)
     /\ Visits(s, t, d) /\ s[Len(s)].at = 1
     /\ after[d] = count[d] + 1 /\ \A i \in Iface \ {d} : after[i] = count[i]
  BY DEF VisitsUp
<1>0. /\ Exact(TRUE, s, ph, count) /\ FramesOK(TRUE, s, ph)
      /\ \A i \in Iface : HeldFor(TRUE, s, ph, i)
  BY DEF Books
<1>1. /\ f.iface \in Iface /\ d \in Iface /\ OnStack(t) = OnStack(s)
      /\ \A i \in Iface \ {d} : Holders(TRUE, t, ph, i) = Holders(TRUE, s, ph, i)
      /\ f.iface \notin Holders(TRUE, s, ph, d)
      /\ Holders(TRUE, t, ph, d) = Holders(TRUE, s, ph, d) \cup {f.iface}
  <2> DEFINE up == TRUE
  <2> HIDE DEF up
  <2>1. Shape(up, s, ph, count)  BY DEF up
  <2>2. /\ f.iface \in Iface /\ d \in Iface
        /\ OnStack(t) = OnStack(s)
        /\ \A i \in Iface \ {d} : Holders(up, t, ph, i) = Holders(up, s, ph, i)
        /\ up => /\ f.iface \notin Holders(up, s, ph, d)
                 /\ Holders(up, t, ph, d) = Holders(up, s, ph, d) \cup {f.iface}
        /\ ~up => /\ f.iface \in Holders(up, s, ph, d)
                  /\ Holders(up, t, ph, d) = Holders(up, s, ph, d) \ {f.iface}
    BY <2>1, VisitHolders
  <2> QED  BY <2>2 DEF up
<1>2. /\ Cardinality(Holders(TRUE, s, ph, d)) \in Nat
      /\ Cardinality(Holders(TRUE, t, ph, d)) = Cardinality(Holders(TRUE, s, ph, d)) + 1
  <2> DEFINE H == Holders(TRUE, s, ph, d)
  <2>1. IsFiniteSet(H) /\ Cardinality(H) \in Nat  BY HoldersFinite
  <2> HIDE DEF H
  <2>2. Cardinality(H \cup {f.iface}) = IF f.iface \in H THEN Cardinality(H) ELSE Cardinality(H) + 1
    BY <2>1, FS_AddElement
  <2> QED  BY <1>1, <2>1, <2>2 DEF H
<1>3. \A i \in Iface : Itself(TRUE, t, ph, i) = Itself(TRUE, s, ph, i)
  BY <1>1 DEF Itself
<1>4. Exact(TRUE, t, ph, after)
  <2>1. ExactFor(TRUE, s, ph, count, d)  BY <1>0, <1>1 DEF Exact
  <2>2. ExactFor(TRUE, t, ph, after, d)
    <3> DEFINE h == Cardinality(Holders(TRUE, s, ph, d))
               n == Cardinality(Holders(TRUE, t, ph, d))
               e == Itself(TRUE, s, ph, d)
               g == Itself(TRUE, t, ph, d)
    <3>1. h \in Nat /\ n = h + 1 /\ g = e  BY <1>1, <1>2, <1>3
    <3>2. e \in {0, 1}  BY ItselfType
    <3> HIDE DEF h, n, e, g
    <3>3. n \in Nat /\ n + g = h + e + 1  BY <3>1, <3>2
    <3>4. count[d] = h + e  BY <2>1 DEF ExactFor, h, e
    <3>5. after[d] = n + g  BY <3>1, <3>3, <3>4
    <3> QED  BY <3>5 DEF ExactFor, n, g
  <2>3. \A i \in Iface \ {d} : ExactFor(TRUE, t, ph, after, i)
    BY <1>0, <1>1, <1>3 DEF Exact, ExactFor
  <2> QED  BY <2>2, <2>3 DEF Exact
<1>5. /\ DOMAIN s = 1 .. l /\ DOMAIN t = 1 .. l /\ l \in Nat \ {0}
      /\ \A n \in 1 .. l - 1 : t[n] = s[n]
      /\ t[l].iface = f.iface /\ t[l].at = f.at /\ f = s[l] /\ f.at = 1
      /\ \A n \in 1 .. l : s[n].iface \in Iface
  <2>1. /\ l \in Nat \ {0} /\ \A n \in 1 .. l - 1 : t[n] = s[n]
        /\ t[l].iface = f.iface /\ t[l].at = f.at /\ t \in Seq(Frame) /\ Len(t) = l
        /\ s \in Seq(Frame)
    BY DEF Shape, Visits
  <2>2. DOMAIN s = 1 .. l /\ DOMAIN t = 1 .. l  BY <2>1, LenProperties
  <2>3. \A n \in 1 .. l : s[n] \in Frame  BY <2>1, <2>2, ElementOfSeq
  <2> QED  BY <2>1, <2>2, <2>3 DEF Frame
<1> HIDE DEF l, f
<1>6. FramesOK(TRUE, t, ph)
  <2> SUFFICES ASSUME NEW n \in 1 .. l  PROVE FrameOK(TRUE, t, ph, t[n])
    BY <1>5 DEF FramesOK
  <2>1. FrameOK(TRUE, s, ph, s[n])  BY <1>0, <1>5 DEF FramesOK
  <2>2. t[n].iface = s[n].iface /\ t[n].at = s[n].at /\ (n # l => t[n] = s[n])
    <3>1. n # l => n \in 1 .. l - 1  BY <1>5
    <3> QED  BY <1>5, <3>1
  <2>3. CASE n # l  BY <2>1, <2>2, <2>3 DEF FrameOK
  <2>4. CASE n = l  BY <1>5, <2>1, <2>2, <2>4 DEF FrameOK
  <2> QED  BY <2>3, <2>4
<1>7. \A i \in Iface \ {d} : HeldFor(TRUE, t, ph, i)
  BY <1>0, <1>1 DEF HeldFor
<1>8. count[d] > 0 \/ d \in OnStack(s) => HeldFor(TRUE, t, ph, d)
  <2>1. CASE d \in OnStack(s)  BY <1>1, <2>1 DEF HeldFor
  <2>2. CASE count[d] > 0
    <3>1. ExactFor(TRUE, s, ph, count, d) /\ HeldFor(TRUE, s, ph, d)
      BY <1>0, <1>1 DEF Exact
    <3>2. CASE Itself(TRUE, s, ph, d) # 0
      BY <3>2 DEF Itself, HeldFor
    <3>3. CASE Itself(TRUE, s, ph, d) = 0
      <4>1. Cardinality(Holders(TRUE, s, ph, d)) # 0
        <5> DEFINE h == Cardinality(Holders(TRUE, s, ph, d))
        <5>1. count[d] = h + 0 /\ h \in Nat  BY <3>1, <3>3, <1>2 DEF ExactFor
        <5> HIDE DEF h
        <5>2. h # 0  BY <2>2, <5>1
        <5> QED  BY <5>2 DEF h
      <4>2. Holders(TRUE, s, ph, d) # {}  BY <4>1, FS_EmptySet
      <4> QED  BY <1>1, <3>1, <4>2 DEF HeldFor
    <3> QED  BY <3>2, <3>3
  <2> QED  BY <2>1, <2>2
<1> QED  BY <1>1, <1>4, <1>6, <1>7, <1>8

\* Going down, the innermost activation gives up the reference it holds on its
\* next dependent, which is up; if nothing else counts it, nobody requires it.
LEMMA VisitDown ==
    ASSUME IsFiniteSet(Iface), RequiresDistinct,
           NEW s, NEW ph, NEW count, Shape(FALSE, s, ph, count), Books(FALSE, s, ph, count),
           NEW t, NEW d, Visits(s, t, d), s[Len(s)].at = 5,
           NEW after, after[d] = count[d] - 1, \A i \in Iface \ {d} : after[i] = count[i]
    PROVE  /\ count[d] > 0
           /\ OnStack(t) = OnStack(s) /\ d \notin OnStack(s) /\ ph[d] = "up"
           /\ Books(FALSE, t, ph, after)
           /\ after[d] <= 1 => Holders(FALSE, t, ph, d) = {}
<1> DEFINE l == Len(s)
           f == s[l]
<1>0. /\ Exact(FALSE, s, ph, count) /\ FramesOK(FALSE, s, ph)
      /\ \A i \in Iface : HeldFor(FALSE, s, ph, i)
  BY DEF Books
<1>1. /\ f.iface \in Iface /\ d \in Iface /\ OnStack(t) = OnStack(s)
      /\ \A i \in Iface \ {d} : Holders(FALSE, t, ph, i) = Holders(FALSE, s, ph, i)
      /\ f.iface \in Holders(FALSE, s, ph, d)
      /\ Holders(FALSE, t, ph, d) = Holders(FALSE, s, ph, d) \ {f.iface}
  <2> DEFINE up == FALSE
  <2> HIDE DEF up
  <2>1. Shape(up, s, ph, count)  BY DEF up
  <2>2. /\ f.iface \in Iface /\ d \in Iface
        /\ OnStack(t) = OnStack(s)
        /\ \A i \in Iface \ {d} : Holders(up, t, ph, i) = Holders(up, s, ph, i)
        /\ up => /\ f.iface \notin Holders(up, s, ph, d)
                 /\ Holders(up, t, ph, d) = Holders(up, s, ph, d) \cup {f.iface}
        /\ ~up => /\ f.iface \in Holders(up, s, ph, d)
                  /\ Holders(up, t, ph, d) = Holders(up, s, ph, d) \ {f.iface}
    BY <2>1, VisitHolders
  <2> QED  BY <2>2 DEF up
<1>2. /\ Cardinality(Holders(FALSE, s, ph, d)) \in Nat
      /\ Cardinality(Holders(FALSE, t, ph, d)) \in Nat
      /\ Cardinality(Holders(FALSE, t, ph, d)) = Cardinality(Holders(FALSE, s, ph, d)) - 1
  <2> DEFINE H == Holders(FALSE, s, ph, d)
  <2>1. IsFiniteSet(H) /\ Cardinality(H) \in Nat  BY HoldersFinite
  <2>2. Cardinality(Holders(FALSE, t, ph, d)) \in Nat  BY HoldersFinite
  <2> HIDE DEF H
  <2>3. Cardinality(H \ {f.iface}) = IF f.iface \in H THEN Cardinality(H) - 1 ELSE Cardinality(H)
    BY <2>1, FS_RemoveElement
  <2> QED  BY <1>1, <2>1, <2>2, <2>3 DEF H
<1>3. \A i \in Iface : Itself(FALSE, t, ph, i) = Itself(FALSE, s, ph, i)
  BY <1>1 DEF Itself
<1>4. ph[d] = "up"  BY <1>0, <1>1 DEF HeldFor
<1>5. d \notin OnStack(s)
  <2> SUFFICES ASSUME NEW n \in DOMAIN s, s[n].iface = d  PROVE FALSE
    BY DEF OnStack
  <2>1. Holders(FALSE, s, ph, s[n].iface) = {}  BY <1>0 DEF FramesOK, FrameOK
  <2> QED  BY <1>1, <2>1
<1>6. ExactFor(FALSE, s, ph, count, d) /\ Itself(FALSE, s, ph, d) = 1
  BY <1>0, <1>1, <1>4 DEF Exact, Itself
<1>7. /\ count[d] > 0 /\ ExactFor(FALSE, t, ph, after, d)
      /\ after[d] = Cardinality(Holders(FALSE, t, ph, d)) + 1
  <2> DEFINE h == Cardinality(Holders(FALSE, s, ph, d))
             n == Cardinality(Holders(FALSE, t, ph, d))
             e == Itself(FALSE, s, ph, d)
             g == Itself(FALSE, t, ph, d)
  <2>1. h \in Nat /\ n \in Nat /\ n = h - 1 /\ g = e /\ e = 1
    BY <1>1, <1>2, <1>3, <1>6
  <2> HIDE DEF h, n, e, g
  <2>2. n + g = h + e - 1  BY <2>1
  <2>3. count[d] = h + e  BY <1>6 DEF ExactFor, h, e
  <2>4. count[d] > 0 /\ after[d] = n + g  BY <2>1, <2>2, <2>3
  <2>5. ExactFor(FALSE, t, ph, after, d)  BY <2>4 DEF ExactFor, n, g
  <2> QED  BY <2>1, <2>4, <2>5 DEF n
<1>8. Exact(FALSE, t, ph, after)
  <2>1. \A i \in Iface \ {d} : ExactFor(FALSE, t, ph, after, i)
    BY <1>0, <1>1, <1>3 DEF Exact, ExactFor
  <2> QED  BY <1>7, <2>1 DEF Exact
<1>9. /\ DOMAIN s = 1 .. l /\ DOMAIN t = 1 .. l /\ l \in Nat \ {0}
      /\ \A n \in 1 .. l - 1 : t[n] = s[n]
      /\ t[l].iface = f.iface /\ t[l].at = f.at /\ f = s[l] /\ f.at = 5
      /\ \A n \in 1 .. l : s[n].iface \in Iface
  <2>1. /\ l \in Nat \ {0} /\ \A n \in 1 .. l - 1 : t[n] = s[n]
        /\ t[l].iface = f.iface /\ t[l].at = f.at /\ t \in Seq(Frame) /\ Len(t) = l
        /\ s \in Seq(Frame)
    BY DEF Shape, Visits
  <2>2. DOMAIN s = 1 .. l /\ DOMAIN t = 1 .. l  BY <2>1, LenProperties
  <2>3. \A n \in 1 .. l : s[n] \in Frame  BY <2>1, <2>2, ElementOfSeq
  <2> QED  BY <2>1, <2>2, <2>3 DEF Frame
<1> HIDE DEF l, f
<1>10. FramesOK(FALSE, t, ph)
  <2> SUFFICES ASSUME NEW n \in 1 .. l  PROVE FrameOK(FALSE, t, ph, t[n])
    BY <1>9 DEF FramesOK
  <2>1. FrameOK(FALSE, s, ph, s[n])  BY <1>0, <1>9 DEF FramesOK
  <2>2. t[n].iface = s[n].iface /\ t[n].at = s[n].at /\ (n # l => t[n] = s[n])
    <3>1. n # l => n \in 1 .. l - 1  BY <1>9
    <3> QED  BY <1>9, <3>1
  <2>3. s[n].iface \in Iface
    BY <1>9
  <2>4. Holders(FALSE, t, ph, t[n].iface) = {}
    <3>1. Holders(FALSE, s, ph, s[n].iface) = {}  BY <2>1 DEF FrameOK
    <3>2. Holders(FALSE, t, ph, s[n].iface) = {}
      <4>1. CASE s[n].iface = d  BY <1>1, <3>1, <4>1
      <4>2. CASE s[n].iface # d  BY <1>1, <2>3, <3>1, <4>2
      <4> QED  BY <4>1, <4>2
    <3> QED  BY <2>2, <3>2
  <2>5. CASE n # l  BY <2>1, <2>2, <2>4, <2>5 DEF FrameOK
  <2>6. CASE n = l
    <3>1. t[n].at = 5 /\ s[n].at = 5  BY <1>9, <2>2, <2>6
    <3>2. ph[t[n].iface] # "up"  BY <2>1, <2>2, <3>1 DEF FrameOK
    <3>3. ~(t[n].at < 5) /\ t[n].at # 6 /\ t[n].at # 1  BY <3>1
    <3> QED  BY <2>4, <3>2, <3>3 DEF FrameOK
  <2> QED  BY <2>5, <2>6
<1>11. \A i \in Iface : HeldFor(FALSE, t, ph, i)
  <2>1. \A i \in Iface \ {d} : HeldFor(FALSE, t, ph, i)
    BY <1>0, <1>1 DEF HeldFor
  <2>2. HeldFor(FALSE, t, ph, d)  BY <1>4 DEF HeldFor
  <2> QED  BY <2>1, <2>2
<1>12. after[d] <= 1 => Holders(FALSE, t, ph, d) = {}
  <2> SUFFICES ASSUME after[d] <= 1  PROVE Holders(FALSE, t, ph, d) = {}
    OBVIOUS
  <2> DEFINE H == Holders(FALSE, t, ph, d)
  <2>1. IsFiniteSet(H) /\ Cardinality(H) \in Nat /\ after[d] = Cardinality(H) + 1
    BY <1>7, HoldersFinite
  <2> HIDE DEF H
  <2>2. Cardinality(H) = 0  BY <2>1
  <2>3. H = {}  BY <2>1, <2>2, FS_EmptySet
  <2> QED  BY <2>3 DEF H
<1> QED  BY <1>1, <1>4, <1>5, <1>7, <1>8, <1>10, <1>11, <1>12 DEF Books

\* The activation with which lif_lifecycle_run starts.
NewFrame(d) == [iface |-> d, key |-> d, at |-> 1, next |-> 1]

\* lif_lifecycle_run may be called for d, which is up if it is to go down.
Callable(up, s, ph, d) ==
    /\ up \in BOOLEAN /\ s \in Seq(Frame) /\ d \in Iface
    /\ d \notin OnStack(s) /\ (ph[d] = "up" <=> ~up)

\* A call adds an activation that has counted nothing (going up) or has nothing
\* given up (going down).
LEMMA PushHolders ==
    ASSUME NEW up, NEW s, NEW ph, NEW d, Callable(up, s, ph, d)
    PROVE  LET t == Append(s, NewFrame(d))
               l == Len(s)
           IN  /\ l \in Nat /\ DOMAIN s = 1 .. l /\ DOMAIN t = 1 .. l + 1
               /\ \A n \in 1 .. l : t[n] = s[n]
               /\ t[l + 1] = NewFrame(d)
               /\ OnStack(t) = OnStack(s) \cup {d}
               /\ \A i \in Iface : /\ Holders(up, t, ph, i) = Holders(up, s, ph, i)
                                   /\ Itself(up, t, ph, i) = Itself(up, s, ph, i)
<1> DEFINE f == NewFrame(d)
           t == Append(s, f)
           l == Len(s)
<1>0. /\ up \in BOOLEAN /\ s \in Seq(Frame) /\ d \in Iface
      /\ d \notin OnStack(s) /\ (ph[d] = "up" <=> ~up)
  BY DEF Callable
<1>1. f \in Frame /\ f.iface = d /\ f.next = 1 /\ f.at = 1
  BY <1>0, IfaceAssumption DEF NewFrame, Frame
<1> HIDE DEF f
<1>2. /\ l \in Nat /\ DOMAIN s = 1 .. l /\ DOMAIN t = 1 .. l + 1
      /\ \A n \in 1 .. l : t[n] = s[n]
      /\ t[l + 1] = f
  BY <1>0, <1>1, AppendProperties, LenProperties
<1> HIDE DEF t, l
<1>3. 1 .. l + 1 = 1 .. l \cup {l + 1}  BY <1>2
<1>4. OnStack(t) = OnStack(s) \cup {d}
  BY <1>1, <1>2, <1>3 DEF OnStack
<1>5. \A i \in Iface : Itself(up, t, ph, i) = Itself(up, s, ph, i)
  BY <1>0, <1>4 DEF Itself
<1>6. \A i \in Iface : Keeps(up, f, i) <=> ~up /\ i \in ToSet(Requires[d])
  <2>1. /\ Len(Requires[d]) \in Nat /\ DOMAIN Requires[d] = 1 .. Len(Requires[d])
    BY <1>0, RequiresType
  <2>2. \A j \in DOMAIN Requires[d] : ~(j < f.next)  BY <1>1, <2>1
  <2> QED  BY <1>1, <2>1, <2>2, <1>0 DEF Keeps, ToSet
<1>7. \A i \in Iface, r \in Iface :
         (\E n \in 1 .. l + 1 : t[n].iface = r /\ Keeps(up, t[n], i))
           <=> \/ \E n \in 1 .. l : s[n].iface = r /\ Keeps(up, s[n], i)
               \/ r = d /\ Keeps(up, f, i)
  BY <1>1, <1>2, <1>3
<1>8. \A i \in Iface : Holders(up, t, ph, i) = Holders(up, s, ph, i)
  <2> SUFFICES ASSUME NEW i \in Iface, NEW r \in Iface
               PROVE  r \in Holders(up, t, ph, i) <=> r \in Holders(up, s, ph, i)
    BY DEF Holders
  <2>1. CASE r = d
    <3>1. ~\E n \in 1 .. l : s[n].iface = d  BY <1>0, <1>2 DEF OnStack
    <3>2. r \in Holders(up, t, ph, i) <=> Keeps(up, f, i)
      BY <1>0, <1>2, <1>4, <1>7, <2>1, <3>1 DEF Holders
    <3>3. r \in Holders(up, s, ph, i) <=> ph[d] = "up" /\ i \in ToSet(Requires[d])
      BY <1>0, <1>2, <2>1, <3>1 DEF Holders
    <3> QED  BY <1>0, <1>6, <3>2, <3>3
  <2>2. CASE r # d
    BY <1>0, <1>2, <1>4, <1>7, <2>2 DEF Holders
  <2> QED  BY <2>1, <2>2
<1> QED  BY <1>2, <1>4, <1>5, <1>8 DEF t, l, f

\* lif_lifecycle_run is called for an interface that is not up (going up), or that
\* is up and nobody requires (going down).
LEMMA PushBooks ==
    ASSUME NEW up, NEW s, NEW ph, NEW count, NEW d, Callable(up, s, ph, d),
           Exact(up, s, ph, count), FramesOK(up, s, ph),
           \A i \in Iface \ {d} : HeldFor(up, s, ph, i),
           ~up => Holders(up, s, ph, d) = {}
    PROVE  Books(up, Append(s, NewFrame(d)), ph, count)
<1> DEFINE t == Append(s, NewFrame(d))
           l == Len(s)
<1>1. /\ l \in Nat /\ DOMAIN s = 1 .. l /\ DOMAIN t = 1 .. l + 1
      /\ \A n \in 1 .. l : t[n] = s[n]
      /\ t[l + 1] = NewFrame(d)
      /\ OnStack(t) = OnStack(s) \cup {d}
      /\ \A i \in Iface : /\ Holders(up, t, ph, i) = Holders(up, s, ph, i)
                          /\ Itself(up, t, ph, i) = Itself(up, s, ph, i)
  BY PushHolders
<1>2. /\ up \in BOOLEAN /\ d \in Iface /\ d \notin OnStack(s) /\ (ph[d] = "up" <=> ~up)
      /\ \A n \in 1 .. l : s[n].iface \in Iface
  <2>1. s \in Seq(Frame) /\ up \in BOOLEAN /\ d \in Iface /\ d \notin OnStack(s) /\ (ph[d] = "up" <=> ~up)
    BY DEF Callable
  <2>2. \A n \in 1 .. l : s[n] \in Frame  BY <1>1, <2>1, ElementOfSeq
  <2> QED  BY <2>1, <2>2 DEF Frame
<1> HIDE DEF t, l
<1>3. Exact(up, t, ph, count)  BY <1>1 DEF Exact, ExactFor
<1>4. \A i \in Iface : HeldFor(up, t, ph, i)
  <2>1. \A i \in Iface \ {d} : HeldFor(up, t, ph, i)  BY <1>1 DEF HeldFor
  <2>2. HeldFor(up, t, ph, d)  BY <1>1, <1>2 DEF HeldFor
  <2> QED  BY <2>1, <2>2
<1>5. FramesOK(up, t, ph)
  <2>1. FrameOK(up, t, ph, NewFrame(d))
    <3>1. /\ NewFrame(d).iface = d /\ NewFrame(d).at = 1 /\ NewFrame(d).next = 1
      BY DEF NewFrame
    <3> QED  BY <1>1, <1>2, <3>1 DEF FrameOK
  <2>2. ASSUME NEW n \in 1 .. l  PROVE FrameOK(up, t, ph, t[n])
    <3>1. FrameOK(up, s, ph, s[n])  BY <1>1 DEF FramesOK
    <3>2. Holders(up, t, ph, s[n].iface) = Holders(up, s, ph, s[n].iface)  BY <1>1, <1>2
    <3> QED  BY <1>1, <3>1, <3>2 DEF FrameOK
  <2>3. \A n \in 1 .. l + 1 : n = l + 1 \/ n \in 1 .. l  BY <1>1
  <2> QED  BY <1>1, <2>1, <2>2, <2>3 DEF FramesOK
<1> QED  BY <1>3, <1>4, <1>5 DEF Books, t

\* The innermost activation of s reaches its next stage and becomes that of t,
\* while its interface changes from ph to qh.
Advances(up, s, t, ph, qh) ==
    LET l == Len(s)
        f == s[l]
    IN  /\ l \in Nat \ {0} /\ f.at \in 1 .. 5
        /\ t \in Seq(Frame) /\ Len(t) = l /\ \A n \in 1 .. l - 1 : t[n] = s[n]
        /\ t[l].iface = f.iface /\ t[l].at = f.at + 1 /\ t[l].next = f.next
        /\ f.at = (IF up THEN 1 ELSE 5) => f.next > Len(Requires[f.iface])
        /\ qh[f.iface] = "up" <=> up /\ f.at = 5
        /\ \A r \in Iface \ {f.iface} : qh[r] = ph[r]

\* Who holds references does not change while an activation runs its phases.
LEMMA AdvanceHolders ==
    ASSUME NEW up, NEW s, NEW ph, NEW count, Shape(up, s, ph, count),
           NEW t, NEW qh, Advances(up, s, t, ph, qh)
    PROVE  /\ OnStack(t) = OnStack(s) /\ s[Len(s)].iface \in OnStack(s)
           /\ \A i \in Iface : Holders(up, t, qh, i) = Holders(up, s, ph, i)
<1> DEFINE l == Len(s)
           f == s[l]
<1>1. /\ l \in Nat \ {0} /\ f = s[l] /\ f.at \in 1 .. 5
      /\ t \in Seq(Frame) /\ Len(t) = l /\ \A n \in 1 .. l - 1 : t[n] = s[n]
      /\ t[l].iface = f.iface /\ t[l].at = f.at + 1 /\ t[l].next = f.next
      /\ f.at = (IF up THEN 1 ELSE 5) => f.next > Len(Requires[f.iface])
      /\ qh[f.iface] = "up" <=> up /\ f.at = 5
      /\ \A r \in Iface \ {f.iface} : qh[r] = ph[r]
  BY DEF Advances
<1>2. /\ up \in BOOLEAN /\ s \in Seq(Frame)
      /\ \A a, b \in DOMAIN s : s[a].iface = s[b].iface => a = b
  BY DEF Shape
<1>3. DOMAIN s = 1 .. l /\ DOMAIN t = 1 .. l  BY <1>1, <1>2, LenProperties
<1>4. \A n \in 1 .. l : s[n] \in Frame /\ s[n].iface \in Iface
  <2>1. \A n \in 1 .. l : s[n] \in Frame  BY <1>2, <1>3, ElementOfSeq
  <2> QED  BY <2>1 DEF Frame
<1> HIDE DEF l, f
<1>5. l \in 1 .. l /\ f.iface \in Iface /\ \A n \in 1 .. l : n # l => n \in 1 .. l - 1
  BY <1>1, <1>4
<1>6. \A n \in 1 .. l : t[n].iface = s[n].iface /\ t[n].next = s[n].next
  BY <1>1, <1>5
<1>7. OnStack(t) = OnStack(s) /\ f.iface \in OnStack(s)
  BY <1>1, <1>3, <1>5, <1>6 DEF OnStack
<1>8. \A i \in Iface, n \in 1 .. l : Keeps(up, t[n], i) <=> Keeps(up, s[n], i)
  BY <1>6 DEF Keeps
<1>9. \A i \in Iface : Holders(up, t, qh, i) = Holders(up, s, ph, i)
  <2> SUFFICES ASSUME NEW i \in Iface, NEW r \in Iface
               PROVE  r \in Holders(up, t, qh, i) <=> r \in Holders(up, s, ph, i)
    BY DEF Holders
  <2>1. (\E n \in DOMAIN t : t[n].iface = r /\ Keeps(up, t[n], i))
        <=> \E n \in DOMAIN s : s[n].iface = r /\ Keeps(up, s[n], i)
    BY <1>3, <1>6, <1>8
  <2>2. r \notin OnStack(s) => qh[r] = ph[r]  BY <1>1, <1>7
  <2> QED  BY <1>7, <2>1, <2>2 DEF Holders
<1> QED  BY <1>7, <1>9 DEF f, l

\* The phases of the innermost activation leave all counts exact: an interface that
\* goes up is counted by its own activation until it returns, and one that goes down
\* is not required any more.
LEMMA AdvanceBooks ==
    ASSUME NEW up, NEW s, NEW ph, NEW count, Shape(up, s, ph, count), Books(up, s, ph, count),
           NEW t, NEW qh, Advances(up, s, t, ph, qh)
    PROVE  Books(up, t, qh, count)
<1> DEFINE l == Len(s)
           f == s[l]
<1>1. /\ l \in Nat \ {0} /\ f = s[l] /\ f.at \in 1 .. 5
      /\ t \in Seq(Frame) /\ Len(t) = l /\ \A n \in 1 .. l - 1 : t[n] = s[n]
      /\ t[l].iface = f.iface /\ t[l].at = f.at + 1 /\ t[l].next = f.next
      /\ f.at = (IF up THEN 1 ELSE 5) => f.next > Len(Requires[f.iface])
      /\ qh[f.iface] = "up" <=> up /\ f.at = 5
      /\ \A r \in Iface \ {f.iface} : qh[r] = ph[r]
  BY DEF Advances
<1>2. /\ up \in BOOLEAN /\ s \in Seq(Frame)
      /\ \A a, b \in DOMAIN s : s[a].iface = s[b].iface => a = b
  BY DEF Shape
<1>3. DOMAIN s = 1 .. l /\ DOMAIN t = 1 .. l  BY <1>1, <1>2, LenProperties
<1>4. \A n \in 1 .. l : s[n] \in Frame /\ s[n].iface \in Iface
  <2>1. \A n \in 1 .. l : s[n] \in Frame  BY <1>2, <1>3, ElementOfSeq
  <2> QED  BY <2>1 DEF Frame
<1> HIDE DEF l, f
<1>5. l \in 1 .. l /\ f.iface \in Iface /\ \A n \in 1 .. l : n # l => n \in 1 .. l - 1
  BY <1>1, <1>4
<1>6. \A n \in 1 .. l : t[n].iface = s[n].iface /\ t[n].next = s[n].next
  BY <1>1, <1>5
<1>7. OnStack(t) = OnStack(s) /\ f.iface \in OnStack(s)
  BY AdvanceHolders DEF f, l
<1>9. \A i \in Iface : Holders(up, t, qh, i) = Holders(up, s, ph, i)
  BY AdvanceHolders
<1>10. /\ Exact(up, s, ph, count) /\ FramesOK(up, s, ph)
       /\ \A i \in Iface : HeldFor(up, s, ph, i)
  BY DEF Books
<1>11. FrameOK(up, s, ph, f)  BY <1>1, <1>3, <1>5, <1>10 DEF FramesOK
<1>12. up => ph[f.iface] # "up" /\ f.iface \in OnStack(s)
  BY <1>1, <1>7, <1>11 DEF FrameOK
<1>13. Exact(up, t, qh, count)
  <2>1. \A i \in Iface : Itself(up, t, qh, i) = Itself(up, s, ph, i)
    BY <1>1, <1>2, <1>5, <1>7 DEF Itself
  <2> QED  BY <1>9, <1>10, <2>1 DEF Exact, ExactFor
<1>14. \A i \in Iface : HeldFor(up, t, qh, i)
  <2> SUFFICES ASSUME NEW i \in Iface  PROVE HeldFor(up, t, qh, i)
    OBVIOUS
  <2>1. HeldFor(up, s, ph, i)  BY <1>10
  <2>2. CASE i # f.iface  BY <1>1, <1>7, <1>9, <2>1, <2>2 DEF HeldFor
  <2>3. CASE i = f.iface /\ up  BY <1>7, <2>3 DEF HeldFor
  <2>4. CASE i = f.iface /\ ~up
    <3>1. Holders(up, s, ph, i) = {}  BY <1>11, <2>4 DEF FrameOK
    <3> QED  BY <1>9, <3>1 DEF HeldFor
  <2> QED  BY <1>2, <2>2, <2>3, <2>4
<1>15. FramesOK(up, t, qh)
  <2> SUFFICES ASSUME NEW n \in 1 .. l  PROVE FrameOK(up, t, qh, t[n])
    BY <1>3 DEF FramesOK
  <2>1. FrameOK(up, s, ph, s[n])  BY <1>3, <1>10 DEF FramesOK
  <2>2. Holders(up, t, qh, t[n].iface) = Holders(up, s, ph, s[n].iface)
    BY <1>4, <1>6, <1>9
  <2>3. CASE n # l
    <3>1. t[n] = s[n]  BY <1>1, <1>5, <2>3
    <3>2. s[n].iface # f.iface  BY <1>1, <1>2, <1>3, <1>5, <2>3
    <3>3. qh[s[n].iface] = ph[s[n].iface]  BY <1>1, <1>4, <3>2
    <3> QED  BY <2>1, <2>2, <3>1, <3>3 DEF FrameOK
  <2>4. CASE n = l
    <3> DEFINE g == t[n]
    <3>1. g.iface = f.iface /\ g.at = f.at + 1 /\ g.next = f.next  BY <1>1, <2>4
    <3> HIDE DEF g
    <3>2. CASE up
      <4>1. f.at > 1 => f.next > Len(Requires[f.iface])  BY <1>11, <3>2 DEF FrameOK
      <4>2. f.at = 1 => f.next > Len(Requires[f.iface])  BY <1>1, <3>2
      <4>3. f.next > Len(Requires[f.iface])  BY <1>1, <4>1, <4>2
      <4>4. qh[g.iface] = "up" <=> g.at = 6  BY <1>1, <3>1, <3>2
      <4> QED  BY <3>1, <3>2, <4>3, <4>4 DEF FrameOK, g
    <3>3. CASE ~up
      <4>1. g.at \in 2 .. 6 /\ qh[g.iface] # "up"  BY <1>1, <3>1, <3>3
      <4>2. g.at < 5 => g.next = 1
        <5>1. f.at < 5 => f.next = 1  BY <1>11, <3>3 DEF FrameOK
        <5> QED  BY <1>1, <3>1, <5>1
      <4>3. g.at = 6 => g.next > Len(Requires[g.iface])  BY <1>1, <3>1, <3>3
      <4>4. Holders(up, t, qh, g.iface) = {}
        BY <1>11, <2>2, <2>4, <3>3, <1>1 DEF FrameOK, g
      <4>5. g.at # 1  BY <4>1
      <4> QED  BY <3>3, <4>1, <4>2, <4>3, <4>4, <4>5 DEF FrameOK, g
    <3> QED  BY <1>2, <3>2, <3>3
  <2> QED  BY <2>3, <2>4
<1> QED  BY <1>13, <1>14, <1>15 DEF Books

\* The innermost activation of s returns and leaves t; its interface is counted once
\* more (going up) or once less (going down).
Returns(up, s, t, count, after) ==
    LET l == Len(s)
        f == s[l]
    IN  /\ l \in Nat \ {0} /\ f.at = 6
        /\ t \in Seq(Frame) /\ Len(t) = l - 1 /\ \A n \in 1 .. l - 1 : t[n] = s[n]
        /\ after[f.iface] = IF up THEN count[f.iface] + 1 ELSE count[f.iface] - 1
        /\ \A i \in Iface \ {f.iface} : after[i] = count[i]

\* An activation that returns has counted all it requires (going up) or given all up
\* (going down): what it held is held by the interface itself, or by nobody.
LEMMA ReturnHolders ==
    ASSUME NEW up, NEW s, NEW ph, NEW count, Shape(up, s, ph, count), Books(up, s, ph, count),
           NEW t, NEW after, Returns(up, s, t, count, after)
    PROVE  LET f == s[Len(s)]
           IN  /\ f.iface \in Iface /\ (ph[f.iface] = "up" <=> up)
               /\ OnStack(s) = OnStack(t) \cup {f.iface} /\ f.iface \notin OnStack(t)
               /\ \A i \in Iface : Holders(up, t, ph, i) = Holders(up, s, ph, i)
<1> DEFINE l == Len(s)
           f == s[l]
           k == l - 1
<1>1. /\ l \in Nat \ {0} /\ f = s[l] /\ f.at = 6
      /\ t \in Seq(Frame) /\ Len(t) = k /\ \A n \in 1 .. k : t[n] = s[n]
      /\ after[f.iface] = (IF up THEN count[f.iface] + 1 ELSE count[f.iface] - 1)
      /\ \A i \in Iface \ {f.iface} : after[i] = count[i]
  BY DEF Returns
<1>2. /\ up \in BOOLEAN /\ s \in Seq(Frame)
      /\ \A a, b \in DOMAIN s : s[a].iface = s[b].iface => a = b
  BY DEF Shape
<1>3. DOMAIN s = 1 .. l /\ DOMAIN t = 1 .. k  BY <1>1, <1>2, LenProperties
<1>4. \A n \in 1 .. l : s[n] \in Frame /\ s[n].iface \in Iface
  <2>1. \A n \in 1 .. l : s[n] \in Frame  BY <1>2, <1>3, ElementOfSeq
  <2> QED  BY <2>1 DEF Frame
<1>5. k = l - 1  OBVIOUS
<1> HIDE DEF l, f, k
<1>6. /\ l \in 1 .. l /\ f.iface \in Iface /\ k \in Nat /\ k + 1 = l
      /\ 1 .. l = 1 .. k \cup {l} /\ l \notin 1 .. k
  BY <1>1, <1>4, <1>5
<1>7. /\ OnStack(s) = OnStack(t) \cup {f.iface} /\ f.iface \notin OnStack(t)
  <2>1. OnStack(s) = {s[n].iface : n \in 1 .. k} \cup {f.iface}
    BY <1>1, <1>3, <1>6 DEF OnStack
  <2>2. OnStack(t) = {s[n].iface : n \in 1 .. k}  BY <1>1, <1>3 DEF OnStack
  <2>3. \A n \in 1 .. k : s[n].iface # f.iface  BY <1>1, <1>2, <1>3, <1>6
  <2> QED  BY <2>1, <2>2, <2>3
<1>8. /\ Exact(up, s, ph, count) /\ FramesOK(up, s, ph)
      /\ \A i \in Iface : HeldFor(up, s, ph, i)
  BY DEF Books
<1>9. FrameOK(up, s, ph, f)  BY <1>1, <1>3, <1>6, <1>8 DEF FramesOK
<1>10. (ph[f.iface] = "up" <=> up) /\ f.next > Len(Requires[f.iface])
  BY <1>1, <1>2, <1>9 DEF FrameOK
<1>11. \A i \in Iface : Keeps(up, f, i) <=> up /\ i \in ToSet(Requires[f.iface])
  <2>1. /\ Len(Requires[f.iface]) \in Nat
        /\ DOMAIN Requires[f.iface] = 1 .. Len(Requires[f.iface])
    BY <1>6, RequiresType
  <2>2. f.next \in Nat  BY <1>1, <1>4, <1>6 DEF Frame
  <2>3. \A j \in DOMAIN Requires[f.iface] : j < f.next  BY <1>10, <2>1, <2>2
  <2> QED  BY <1>2, <2>3 DEF Keeps, ToSet
<1>12. \A i \in Iface : Holders(up, t, ph, i) = Holders(up, s, ph, i)
  <2> SUFFICES ASSUME NEW i \in Iface, NEW r \in Iface
               PROVE  r \in Holders(up, t, ph, i) <=> r \in Holders(up, s, ph, i)
    BY DEF Holders
  <2>1. (\E n \in DOMAIN s : s[n].iface = r /\ Keeps(up, s[n], i))
        <=> \/ \E n \in DOMAIN t : t[n].iface = r /\ Keeps(up, t[n], i)
            \/ r = f.iface /\ Keeps(up, f, i)
    BY <1>1, <1>3, <1>6
  <2>2. CASE r = f.iface
    <3>1. ~\E n \in DOMAIN t : t[n].iface = r  BY <1>7, <2>2 DEF OnStack
    <3>2. r \in Holders(up, s, ph, i) <=> Keeps(up, f, i)
      BY <1>7, <2>1, <2>2, <3>1 DEF Holders
    <3>3. r \in Holders(up, t, ph, i) <=> ph[r] = "up" /\ i \in ToSet(Requires[r])
      BY <1>7, <2>2, <3>1 DEF Holders
    <3> QED  BY <1>10, <1>11, <2>2, <3>2, <3>3
  <2>3. CASE r # f.iface
    BY <1>7, <2>1, <2>3 DEF Holders
  <2> QED  BY <2>2, <2>3
<1> QED  BY <1>6, <1>7, <1>10, <1>12 DEF f, l

\* The return of lif_lifecycle_run keeps the counts exact: the interface takes, or
\* gives up, the reference on itself.
LEMMA ReturnBooks ==
    ASSUME IsFiniteSet(Iface),
           NEW up, NEW s, NEW ph, NEW count, Shape(up, s, ph, count), Books(up, s, ph, count),
           NEW t, NEW after, Returns(up, s, t, count, after)
    PROVE  /\ Books(up, t, ph, after)
           /\ ~up => count[s[Len(s)].iface] > 0 /\ ph[s[Len(s)].iface] # "up"
<1> DEFINE l == Len(s)
           f == s[l]
           k == l - 1
<1>1. /\ l \in Nat \ {0} /\ f = s[l] /\ f.at = 6
      /\ t \in Seq(Frame) /\ Len(t) = k /\ \A n \in 1 .. k : t[n] = s[n]
      /\ after[f.iface] = (IF up THEN count[f.iface] + 1 ELSE count[f.iface] - 1)
      /\ \A i \in Iface \ {f.iface} : after[i] = count[i]
  BY DEF Returns
<1>2. /\ up \in BOOLEAN /\ s \in Seq(Frame)
      /\ \A a, b \in DOMAIN s : s[a].iface = s[b].iface => a = b
  BY DEF Shape
<1>3. DOMAIN s = 1 .. l /\ DOMAIN t = 1 .. k  BY <1>1, <1>2, LenProperties
<1>4. \A n \in 1 .. l : s[n] \in Frame /\ s[n].iface \in Iface
  <2>1. \A n \in 1 .. l : s[n] \in Frame  BY <1>2, <1>3, ElementOfSeq
  <2> QED  BY <2>1 DEF Frame
<1>5. k = l - 1  OBVIOUS
<1> HIDE DEF l, f, k
<1>6. /\ l \in 1 .. l /\ f.iface \in Iface /\ k \in Nat /\ k + 1 = l
      /\ 1 .. l = 1 .. k \cup {l} /\ l \notin 1 .. k
  BY <1>1, <1>4, <1>5
<1>7. /\ OnStack(s) = OnStack(t) \cup {f.iface} /\ f.iface \notin OnStack(t)
      /\ ph[f.iface] = "up" <=> up
      /\ \A i \in Iface : Holders(up, t, ph, i) = Holders(up, s, ph, i)
  BY ReturnHolders DEF f, l
<1>8. /\ Exact(up, s, ph, count) /\ FramesOK(up, s, ph)
      /\ \A i \in Iface : HeldFor(up, s, ph, i)
  BY DEF Books
<1>13. ExactFor(up, t, ph, after, f.iface) /\ (~up => count[f.iface] > 0)
  <2> DEFINE h == Cardinality(Holders(up, s, ph, f.iface))
             n == Cardinality(Holders(up, t, ph, f.iface))
             e == Itself(up, s, ph, f.iface)
             g == Itself(up, t, ph, f.iface)
  <2>1. h \in Nat /\ n = h  BY <1>6, <1>7, HoldersFinite
  <2>2. count[f.iface] = h + e  BY <1>6, <1>8 DEF Exact, ExactFor
  <2>3. up => e = 0 /\ g = 1  BY <1>7 DEF Itself
  <2>4. ~up => e = 1 /\ g = 0  BY <1>7 DEF Itself
  <2> HIDE DEF h, n, e, g
  <2>5. after[f.iface] = n + g  BY <1>1, <1>2, <2>1, <2>2, <2>3, <2>4
  <2>6. ~up => count[f.iface] > 0  BY <2>1, <2>2, <2>4
  <2> QED  BY <2>5, <2>6 DEF ExactFor, n, g
<1>14. Exact(up, t, ph, after)
  <2> SUFFICES ASSUME NEW i \in Iface, i # f.iface  PROVE ExactFor(up, t, ph, after, i)
    BY <1>13 DEF Exact
  <2>1. ExactFor(up, s, ph, count, i)  BY <1>8 DEF Exact
  <2>2. Itself(up, t, ph, i) = Itself(up, s, ph, i)  BY <1>7 DEF Itself
  <2>3. after[i] = count[i]  BY <1>1
  <2> QED  BY <1>7, <2>1, <2>2, <2>3 DEF ExactFor
<1>15. \A i \in Iface : HeldFor(up, t, ph, i)
  <2> SUFFICES ASSUME NEW i \in Iface  PROVE HeldFor(up, t, ph, i)
    OBVIOUS
  <2>1. HeldFor(up, s, ph, i)  BY <1>8
  <2>2. CASE i # f.iface  BY <1>7, <2>1, <2>2 DEF HeldFor
  <2>3. CASE i = f.iface  BY <1>2, <1>7, <2>1, <2>3 DEF HeldFor
  <2> QED  BY <2>2, <2>3
<1>16. FramesOK(up, t, ph)
  <2> SUFFICES ASSUME NEW n \in 1 .. k  PROVE FrameOK(up, t, ph, t[n])
    BY <1>3 DEF FramesOK
  <2>1. FrameOK(up, s, ph, s[n])  BY <1>3, <1>6, <1>8 DEF FramesOK
  <2>2. t[n] = s[n] /\ s[n].iface \in Iface  BY <1>1, <1>4, <1>6
  <2>3. Holders(up, t, ph, s[n].iface) = Holders(up, s, ph, s[n].iface)  BY <1>7, <2>2
  <2> QED  BY <2>1, <2>2, <2>3 DEF FrameOK
<1>17. Books(up, t, ph, after)  BY <1>14, <1>15, <1>16 DEF Books
<1>18. ~up => count[s[Len(s)].iface] > 0 /\ ph[s[Len(s)].iface] # "up"
  BY <1>7, <1>13 DEF f, l
<1> QED  BY <1>17, <1>18

-----------------------------------------------------------------------------
(* The order in which ifdown takes interfaces down.                        *)

\* Argument k is worked on: -a passes over what is not automatic or not matched.
Selects(c, k) == c.auto => k \in IsAuto \cap Matched

\* Whoever requires an interface on the list is not up, is being worked on, or
\* comes earlier on the list.
Ordered(c, list, ph, work) ==
    \A n \in DOMAIN list : Selects(c, list[n].key) =>
        \A r \in RequirersOf(list[n].key) :
            \/ ph[r] # "up"
            \/ r \in work
            \/ \E l \in 1 .. n - 1 : list[l].key = r /\ Selects(c, r)

\* Nobody who requires k is up.
Unrequired(k, ph) == \A r \in RequirersOf(k) : ph[r] # "up"

\* What goes down stays down, and what was worked on is down.
LEMMA OrderedLater ==
    ASSUME NEW c, NEW list, NEW ph, NEW work, Ordered(c, list, ph, work), NEW qh, NEW next,
           \A r \in Iface : qh[r] = "up" => ph[r] = "up" /\ (r \in work => r \in next)
    PROVE  Ordered(c, list, qh, next)
<1>1. \A k : RequirersOf(k) \subseteq Iface  BY DEF RequirersOf
<1> QED  BY <1>1 DEF Ordered

\* The next interface of the list is taken up, or passed over.
LEMMA OrderedTail ==
    ASSUME NEW c, NEW list \in Seq(Argument), list # << >>, NEW ph, Ordered(c, list, ph, {})
    PROVE  LET k == Head(list).key
           IN  /\ Ordered(c, Tail(list), ph, {k})
               /\ Selects(c, k) => Unrequired(k, ph)
               /\ ~Selects(c, k) => Ordered(c, Tail(list), ph, {})
<1> DEFINE k == Head(list).key
           t == Tail(list)
<1>1. Len(list) \in Nat \ {0} /\ DOMAIN list = 1 .. Len(list)  BY EmptySeq, LenProperties
<1>2. /\ Head(list) = list[1] /\ 1 \in DOMAIN list
      /\ DOMAIN t = 1 .. Len(list) - 1
      /\ \A n \in 1 .. Len(list) - 1 : t[n] = list[n + 1]
  BY <1>1, HeadTailProperties, LenProperties
<1>3. ASSUME NEW n \in DOMAIN t, Selects(c, t[n].key), NEW r \in RequirersOf(t[n].key), ph[r] = "up"
      PROVE  \/ r = k /\ Selects(c, k)
             \/ \E l \in 1 .. n - 1 : t[l].key = r /\ Selects(c, r)
  <2>1. n + 1 \in DOMAIN list /\ t[n] = list[n + 1] /\ n \in Nat  BY <1>1, <1>2
  <2>2. PICK l \in 1 .. (n + 1) - 1 : list[l].key = r /\ Selects(c, r)
    BY <1>3, <2>1 DEF Ordered
  <2>3. CASE l = 1  BY <1>2, <2>2, <2>3
  <2>4. CASE l # 1
    <3>1. l - 1 \in 1 .. n - 1 /\ l - 1 \in 1 .. Len(list) - 1 /\ (l - 1) + 1 = l
      BY <1>1, <1>2, <2>1, <2>2, <2>4
    <3>2. t[l - 1] = list[l]  BY <1>2, <3>1
    <3> QED  BY <2>2, <3>1, <3>2
  <2> QED  BY <2>3, <2>4
<1>4. Ordered(c, t, ph, {k})  BY <1>3 DEF Ordered
<1>5. Selects(c, k) => Unrequired(k, ph)
  <2>1. ~\E l \in 1 .. 1 - 1 : TRUE  OBVIOUS
  <2> QED  BY <1>2, <2>1 DEF Ordered, Unrequired
<1>6. ~Selects(c, k) => Ordered(c, t, ph, {})  BY <1>3 DEF Ordered
<1> QED  BY <1>4, <1>5, <1>6

-----------------------------------------------------------------------------
(* The inductive invariant: a process between commands has left the books  *)
(* of the state file in order, a running one keeps those of its memory.    *)

\* The counts that the lines of the state file stand for.
RecordedIn(file) ==
    [i \in Iface |-> IF HasRecord(file, i) THEN RecordOf(file, i).refcount ELSE 0]

\* The file counts what is up.
InOrder(file, ph) == IsDictionary(file) /\ Books(TRUE, << >>, ph, RecordedIn(file))

\* lif_state_read has read the lines of s and has those of t to go.
SplitInto(s, t, file) ==
    /\ Len(s) + Len(t) = Len(file)
    /\ \A n \in 1 .. Len(s) : s[n] = file[n]
    /\ \A n \in 1 .. Len(t) : t[n] = file[Len(s) + n]

\* The arguments that are still to be handled.
Coming(m) == IF m.pc \in {"read", "sync"}
             THEN IF m.cmd.auto THEN AutomaticArguments ELSE m.cmd.args
             ELSE m.todo

AtWork(m) == IF m.pc \in HoldingState THEN {m.target.key} ELSE {}

\* An ifdown takes requirers down first.
TakesInOrder(m, ph) ==
    /\ Ordered(m.cmd, Coming(m), ph, AtWork(m))
    /\ m.pc = "locked" => Unrequired(m.target.key, ph)
    /\ m.pc = "finish" => ph[m.target.key] # "up"

Keeping(m, ph) ==
    /\ Synced(m) => Books(m.cmd.up, m.stack, ph, m.refcount)
    /\ ~m.cmd.up => TakesInOrder(m, ph)

OnlyUsable(ph) == \A i \in Iface : ph[i] = "up" => i \notin Template \cup ConfigError

\* A process with memory m, the state file and the kernel's interfaces.
CountsOK(m, file, ph) ==
    /\ ~m.cmd.force
    /\ OnlyUsable(ph)
    /\ m.pc \in {"idle", "read", "sync"} \/ m.cmd.mock => InOrder(file, ph)
    /\ m.pc = "read" => SplitInto(m.state, m.input, file)
    /\ m.pc = "sync" => m.state = file
    /\ m.pc = "flush" => file = << >>
    /\ ~m.cmd.mock => Keeping(m, ph)

\* An ifdown -a that is not a mock run finds whoever requires an automatic interface
\* earlier in the order of the dependency sort.
AutomaticOrder ==
    \A n \in DOMAIN CollectionOrder : CollectionOrder[n] \in IsAuto \cap Matched =>
        \A r \in RequirersOf(CollectionOrder[n]) :
            r \in IsAuto \cap Matched /\ \E l \in 1 .. n - 1 : CollectionOrder[l] = r

(***************************************************************************)
(* One process at a time, no --force, no failing phase or write, only ifup *)
(* is killed; every stanza under its own name, requiring each other one    *)
(* once and none that is a template or broken; operators take requirers    *)
(* down first.                                                             *)
(***************************************************************************)
Undisturbed ==
    /\ IsFiniteSet(Iface) /\ \E p \in Proc : \A q \in Proc : q = p
    /\ RequiresDistinct /\ OwnStanzas
    /\ \A c \in Commands : ~c.force
    /\ \A i \in Iface, s \in Phases : <<i, s>> \notin Flaky
    /\ FALSE \notin WriteOutcomes /\ (MaxCrashes = 0 \/ FALSE \notin Killable)
    /\ \A i \in Iface : ToSet(Requires[i]) \cap (Template \cup ConfigError) = {}
    /\ \A i \in Iface : RequirersOf(i) \subseteq DownAfter[i]
    /\ (\E c \in Commands : c.auto /\ ~c.up /\ ~c.mock) => AutomaticOrder

\* What is up in ph is up in qh.
Within(ph, qh) == \A i \in Iface : ph[i] = "up" => qh[i] = "up"

\* The kernel's interfaces as the books know them: what a killed ifup has brought
\* up without recording it is not up.
Knows(ph, kernel) ==
    /\ ph \in [Key -> {"down", "partial", "up"}]
    /\ Within(ph, kernel) /\ (MaxCrashes = 0 => Within(kernel, ph))

\* If an ifup is killed, the file counts a part of what is up.
Fallback(m, file, ph) == m.cmd.up => \E oh : InOrder(file, oh) /\ Within(oh, ph)
                                            /\ oh \in [Key -> {"down", "partial", "up"}]

\* What an ifdown has begun to take down is not up any more.
Begun(m, kernel) ==
    m.pc = "run" /\ ~m.cmd.up /\ ~m.cmd.mock =>
        \A n \in DOMAIN m.stack : m.stack[n].at > 1 => kernel[m.stack[n].iface] # "up"

CountsInv == /\ Undisturbed /\ OptionsInv /\ OwnInv
             /\ \A p \in Proc : Begun(mem[p], phys)
             /\ \E ph : /\ Knows(ph, phys)
                         /\ \A p \in Proc : /\ CountsOK(mem[p], ifstate, ph)
                                            /\ Fallback(mem[p], ifstate, ph)

-----------------------------------------------------------------------------
(* Each action keeps the invariant.                                        *)

\* Without an activation it does not matter which way a command goes.
LEMMA BooksAtRest ==
    ASSUME NEW up \in BOOLEAN, NEW qp \in BOOLEAN, NEW ph, NEW count, Books(up, << >>, ph, count)
    PROVE  Books(qp, << >>, ph, count)
<1> DEFINE s == << >>
<1>1. OnStack(s) = {} /\ DOMAIN s = {}  BY DEF OnStack
<1> HIDE DEF s
<1>2. \A i \in Iface : Holders(qp, s, ph, i) = Holders(up, s, ph, i)  BY <1>1 DEF Holders
<1>3. \A i \in Iface : Itself(qp, s, ph, i) = Itself(up, s, ph, i)  BY <1>1 DEF Itself
<1>4. /\ Exact(up, s, ph, count) /\ \A i \in Iface : HeldFor(up, s, ph, i)
  BY DEF Books, s
<1>5. Exact(qp, s, ph, count)  BY <1>2, <1>3, <1>4 DEF Exact, ExactFor
<1>6. \A i \in Iface : HeldFor(qp, s, ph, i)  BY <1>1, <1>2, <1>4 DEF HeldFor
<1>7. FramesOK(qp, s, ph)  BY <1>1 DEF FramesOK
<1> QED  BY <1>5, <1>6, <1>7 DEF Books, s

\* Only the values of the counts matter.
LEMMA BooksSameCounts ==
    ASSUME NEW up, NEW s, NEW ph, NEW count, NEW after, Books(up, s, ph, count),
           \A i \in Iface : after[i] = count[i]
    PROVE  Books(up, s, ph, after)
BY DEF Books, Exact, ExactFor

\* A process that has ended, or was not started, leaves the file in order.
LEMMA IdleCounts ==
    ASSUME NEW file, NEW ph, InOrder(file, ph), OnlyUsable(ph)
    PROVE  CountsOK(Idle, file, ph)
<1>1. Idle.pc = "idle" /\ Idle.cmd = NoCommand /\ NoCommand.up /\ ~NoCommand.force
  BY DEF Idle, Fresh, NoCommand
<1> QED  BY <1>1 DEF CountsOK, Keeping, Synced

\* What the invariant says of a process, with what the other invariants add.
Counting(self, ph) ==
    /\ Undisturbed /\ OptionsInv /\ OwnInv /\ IInv /\ self \in Proc
    /\ Knows(ph, phys) /\ CountsOK(mem[self], ifstate, ph)

\* The start of ifup or ifdown.
LEMMA StartCounts ==
    ASSUME NEW self, NEW ph, Counting(self, ph), Start(self)
    PROVE  CountsOK(mem'[self], ifstate, ph)
<1>1. PICK c \in Commands : Allowed(c) /\ mem'[self] = Fresh("read", c, ifstate)
  BY Updated DEF Start, Counting
<1> DEFINE m == Fresh("read", c, ifstate)
<1>2. m.pc = "read" /\ m.cmd = c /\ m.state = << >> /\ m.input = ifstate
  BY DEF Fresh
<1>3. c \in Command /\ ~c.force  BY CommandAssumption DEF Counting, Undisturbed
<1>4. InOrder(ifstate, ph) /\ OnlyUsable(ph)
  BY DEF Counting, CountsOK, Start, At
<1>5. SplitInto(m.state, m.input, ifstate)
  <2>1. ifstate \in Seq(Record)  BY Before DEF Counting
  <2>2. Len(ifstate) \in Nat  BY <2>1, LenProperties
  <2>3. \A n \in 1 .. Len(ifstate) : 0 + n = n  BY <2>2
  <2>4. Len(<< >>) = 0 /\ \A n \in 1 .. 0 : FALSE  OBVIOUS
  <2> DEFINE e == << >>
  <2> HIDE DEF e
  <2>5. SplitInto(e, ifstate, ifstate)  BY <2>2, <2>3, <2>4 DEF SplitInto, e
  <2> QED  BY <1>2, <2>5 DEF e
<1>6. ASSUME ~c.up, ~c.mock  PROVE Ordered(c, Coming(m), ph, {})
  <2>1. CASE c.auto
    <3>1. AutomaticOrder  BY <1>3, <1>6, <2>1 DEF Counting, Undisturbed
    <3>2. Coming(m) = AutomaticArguments  BY <1>2, <2>1 DEF Coming
    <3>3. /\ DOMAIN AutomaticArguments = DOMAIN CollectionOrder
          /\ \A n \in DOMAIN CollectionOrder : AutomaticArguments[n].key = CollectionOrder[n]
      BY DEF AutomaticArguments
    <3>4. Len(CollectionOrder) \in Nat /\ DOMAIN CollectionOrder = 1 .. Len(CollectionOrder)
      BY ConfigAssumption, LenProperties
    <3>5. \A n \in DOMAIN CollectionOrder : \A l \in 1 .. n - 1 : l \in DOMAIN CollectionOrder
      BY <3>4
    <3> QED  BY <2>1, <3>1, <3>2, <3>3, <3>5 DEF AutomaticOrder, Ordered, Selects
  <2>2. CASE ~c.auto
    <3>1. Coming(m) = c.args  BY <1>2, <2>2 DEF Coming
    <3> SUFFICES ASSUME NEW n \in DOMAIN c.args, NEW r \in RequirersOf(c.args[n].key),
                        ph[r] = "up"
                 PROVE  \E l \in 1 .. n - 1 : c.args[l].key = r
      BY <2>2, <3>1 DEF Ordered, Selects
    <3>2. c.args[n].key \in Iface
      <4>1. r \in Iface /\ c.args[n].key \in ToSet(Requires[r])  BY DEF RequirersOf
      <4>2. Requires[r] \in Seq(Iface)  BY <4>1, ConfigAssumption
      <4> QED  BY <4>1, <4>2, ElementOfSeq DEF ToSet
    <3>3. r \in DownAfter[c.args[n].key]  BY <3>2 DEF Counting, Undisturbed
    <3>4. \A i \in DownAfter[c.args[n].key] \ {c.args[l].key : l \in 1 .. n - 1} : phys[i] = "down"
      BY <1>1, <1>6 DEF Allowed
    <3>5. phys[r] = "up"
      <4>1. r \in Iface  BY DEF RequirersOf
      <4> QED  BY <4>1 DEF Counting, Knows, Within
    <3>6. r \in {c.args[l].key : l \in 1 .. n - 1}  BY <3>3, <3>4, <3>5
    <3> QED  BY <3>6
  <2> QED  BY <2>1, <2>2
<1> HIDE DEF m
<1>7. ~c.mock => Keeping(m, ph)
  BY <1>2, <1>6 DEF Keeping, Synced, TakesInOrder, AtWork, HoldingState
<1>8. CountsOK(m, ifstate, ph)
  BY <1>2, <1>3, <1>4, <1>5, <1>7 DEF CountsOK
<1> QED  BY <1>1, <1>8 DEF m

\* A line of a file that is in order makes a new last entry.
LEMMA ReadOne ==
    ASSUME NEW s \in Seq(Record), NEW t \in Seq(Record), NEW file \in Seq(Record),
           t # << >>, IsDictionary(file), SplitInto(s, t, file)
    PROVE  SplitInto(Upsert(s, ParsedLine(Head(t))), Tail(t), file)
<1> DEFINE h == Head(t)
           u == Tail(t)
           a == Append(s, h)
           l == Len(s)
<1>1. /\ l \in Nat /\ DOMAIN s = 1 .. l
      /\ Len(t) \in Nat \ {0} /\ DOMAIN t = 1 .. Len(t)
      /\ Len(file) \in Nat /\ DOMAIN file = 1 .. Len(file)
  BY EmptySeq, LenProperties
<1>2. /\ h = t[1] /\ Len(u) = Len(t) - 1 /\ \A n \in 1 .. Len(u) : u[n] = t[n + 1]
  BY <1>1, HeadTailProperties, LenProperties
<1>3. h \in Record  BY <1>1, <1>2, ElementOfSeq
<1>4. /\ Len(a) = l + 1 /\ \A n \in 1 .. l : a[n] = s[n]
      /\ a[l + 1] = h
  BY <1>1, <1>3, AppendProperties
<1> HIDE DEF h, u, a, l
<1>5. /\ l + Len(t) = Len(file) /\ \A n \in 1 .. l : s[n] = file[n]
      /\ \A n \in 1 .. Len(t) : t[n] = file[l + n]
  BY DEF SplitInto, l
<1>6. l + 1 \in DOMAIN file /\ h = file[l + 1]
  BY <1>1, <1>2, <1>5
<1>7. ParsedLine(h) = h
  <2>1. h.refcount > 0 /\ h.refcount \in Nat  BY <1>3, <1>6 DEF IsDictionary, Record
  <2> QED  BY <1>3, <2>1 DEF ParsedLine, Record
<1>8. ~HasRecord(s, h.key)
  <2> SUFFICES ASSUME NEW n \in 1 .. l, s[n].key = h.key  PROVE FALSE
    BY <1>1 DEF HasRecord
  <2>1. n \in DOMAIN file /\ file[n].key = file[l + 1].key /\ n # l + 1
    BY <1>1, <1>5, <1>6
  <2> QED  BY <1>6, <2>1 DEF IsDictionary, KeysDistinct
<1>9. Upsert(s, ParsedLine(h)) = a
  <2>1. Delete(s, h.key) = s  BY <1>8 DEF Delete
  <2> QED  BY <1>7, <2>1 DEF Upsert, a
<1>10. SplitInto(a, u, file)
  <2>1. Len(a) + Len(u) = Len(file)
    <3> DEFINE k == Len(t)
    <3>1. Len(a) = l + 1 /\ Len(u) = k - 1 /\ l + k = Len(file) /\ l \in Nat /\ k \in Nat
      BY <1>1, <1>2, <1>4, <1>5
    <3> HIDE DEF k
    <3> QED  BY <3>1
  <2>2. \A n \in 1 .. Len(a) : a[n] = file[n]
    <3> SUFFICES ASSUME NEW n \in 1 .. l + 1  PROVE a[n] = file[n]
      BY <1>4
    <3>1. CASE n = l + 1  BY <1>4, <1>6, <3>1
    <3>2. CASE n # l + 1
      <4>1. n \in 1 .. l  BY <1>1, <3>2
      <4> QED  BY <1>4, <1>5, <4>1
    <3> QED  BY <3>1, <3>2
  <2>3. \A n \in 1 .. Len(u) : u[n] = file[Len(a) + n]
    <3> SUFFICES ASSUME NEW n \in 1 .. Len(u)  PROVE u[n] = file[Len(a) + n]
      OBVIOUS
    <3>1. n + 1 \in 1 .. Len(t) /\ l + (n + 1) = (l + 1) + n  BY <1>1, <1>2
    <3> QED  BY <1>2, <1>4, <1>5, <3>1
  <2> QED  BY <2>1, <2>2, <2>3 DEF SplitInto
<1> QED  BY <1>9, <1>10 DEF h, u

\* At the end of the file the dictionary is the file.
LEMMA ReadAll ==
    ASSUME NEW s \in Seq(Record), NEW file \in Seq(Record), SplitInto(s, << >>, file)
    PROVE  s = file
<1>1. Len(s) \in Nat /\ Len(file) \in Nat  BY LenProperties
<1> DEFINE e == << >>
<1>2. Len(e) = 0  OBVIOUS
<1> HIDE DEF e
<1>3. Len(s) = Len(file) /\ \A n \in 1 .. Len(s) : s[n] = file[n]
  BY <1>1, <1>2 DEF SplitInto, e
<1> QED  BY <1>3, SeqEqual

\* lif_state_read, line by line.
LEMMA ReadLineCounts ==
    ASSUME NEW self, NEW ph, Counting(self, ph), ReadLine(self)
    PROVE  CountsOK(mem'[self], ifstate, ph)
<1> DEFINE o == mem[self]
           s == Upsert(o.state, ParsedLine(Head(o.input)))
           t == Tail(o.input)
           m == [o EXCEPT !.input = t, !.state = s]
<1>1. /\ o \in Memory /\ ifstate \in Seq(Record) /\ CountsOK(o, ifstate, ph)
      /\ o.pc = "read" /\ o.input # << >> /\ mem'[self] = m
  BY Before, Updated DEF Counting, ReadLine, At
<1>2. InOrder(ifstate, ph) /\ SplitInto(o.state, o.input, ifstate)
  BY <1>1 DEF CountsOK
<1>3. SplitInto(s, t, ifstate)
  BY <1>1, <1>2, ReadOne DEF Memory, InOrder
<1> HIDE DEF s, t
<1>4. /\ m.pc = "read" /\ m.state = s /\ m.input = t /\ m.cmd = o.cmd /\ m.todo = o.todo
      /\ m.target = o.target
  BY <1>1 DEF Memory
<1> HIDE DEF m
<1>5. Keeping(o, ph) => Keeping(m, ph)
  BY <1>1, <1>4 DEF Keeping, Synced, TakesInOrder, AtWork, HoldingState, Coming
<1>6. CountsOK(m, ifstate, ph)
  BY <1>1, <1>2, <1>3, <1>4, <1>5 DEF CountsOK
<1> QED  BY <1>1, <1>6

\* The dependency query, whether it fails or not.
LEMMA QueryDependentsCounts ==
    ASSUME NEW self, NEW ph, Counting(self, ph), QueryDependents(self)
    PROVE  CountsOK(mem'[self], ifstate, ph)
<1> DEFINE o == mem[self]
           m == [o EXCEPT !.pc = "sync"]
<1>1. /\ o \in Memory /\ ifstate \in Seq(Record) /\ CountsOK(o, ifstate, ph)
      /\ o.pc = "read" /\ o.input = << >> /\ mem'[self] \in {m, Idle}
  BY Before, Updated DEF Counting, QueryDependents, At
<1>2. InOrder(ifstate, ph) /\ OnlyUsable(ph) /\ SplitInto(o.state, o.input, ifstate)
  BY <1>1 DEF CountsOK
<1>3. o.state = ifstate  BY <1>1, <1>2, ReadAll DEF Memory
<1>4. /\ m.pc = "sync" /\ m.state = o.state /\ m.cmd = o.cmd /\ m.todo = o.todo
      /\ m.target = o.target
  BY <1>1 DEF Memory
<1> HIDE DEF m
<1>5. Keeping(o, ph) => Keeping(m, ph)
  BY <1>1, <1>4 DEF Keeping, Synced, TakesInOrder, AtWork, HoldingState, Coming
<1>6. CountsOK(m, ifstate, ph)
  BY <1>1, <1>2, <1>3, <1>4, <1>5 DEF CountsOK
<1> QED  BY <1>1, <1>2, <1>6, IdleCounts

\* lif_state_sync fills the counts of the interfaces from those of the file.
LEMMA SyncStateCounts ==
    ASSUME NEW self, NEW ph, Counting(self, ph), SyncState(self)
    PROVE  CountsOK(mem'[self], ifstate, ph)
<1> DEFINE o == mem[self]
           c == SyncedRefcount(o.state)
           e == SyncedExplicit(o.state, o.explicit)
           t == IF o.cmd.auto THEN AutomaticArguments ELSE o.cmd.args
           m == [o EXCEPT !.pc = "select", !.refcount = c, !.explicit = e, !.todo = t]
<1>1. /\ o \in Memory /\ CountsOK(o, ifstate, ph) /\ o.pc = "sync" /\ mem'[self] = m
      /\ o.stack = << >> /\ IsDictionary(o.state) /\ OwnNames(o.state)
  BY Before, Updated DEF Counting, SyncState, At, OwnInv, OwnOK
<1>2. o.state = ifstate /\ InOrder(ifstate, ph) /\ OnlyUsable(ph)
  BY <1>1 DEF CountsOK
<1>3. \A i \in Iface : c[i] = RecordedIn(ifstate)[i]
  <2>1. o.state \in Seq(Record)  BY <1>1 DEF Memory
  <2>2. SUFFICES ASSUME NEW i \in Iface  PROVE c[i] = RecordedIn(o.state)[i]
    BY <1>2
  <2>3. IF HasRecord(o.state, i) THEN c[i] = RecordOf(o.state, i).refcount ELSE c[i] = 0
    BY <1>1, <2>1, SyncFinds
  <2> HIDE DEF c
  <2> QED  BY <2>3 DEF RecordedIn
<1> HIDE DEF c, e
<1>4. Books(TRUE, << >>, ph, c)
  BY <1>2, <1>3, BooksSameCounts DEF InOrder
<1>5. Books(o.cmd.up, << >>, ph, c)
  BY <1>1, <1>4, BooksAtRest DEF Memory, Command
<1>6. Coming(o) = t  BY <1>1 DEF Coming
<1> HIDE DEF t
<1>7. /\ m.pc = "select" /\ m.cmd = o.cmd /\ m.todo = t /\ m.target = o.target
      /\ m.refcount = c /\ m.stack = << >>
  BY <1>1 DEF Memory
<1> HIDE DEF m
<1>8. Keeping(o, ph) => Keeping(m, ph)
  BY <1>1, <1>5, <1>6, <1>7 DEF Keeping, TakesInOrder, AtWork, HoldingState, Coming
<1>9. CountsOK(m, ifstate, ph)
  BY <1>1, <1>2, <1>7, <1>8 DEF CountsOK
<1> QED  BY <1>1, <1>9

\* The dictionary and the explicit marks have no part in the books of a process
\* that has read the file.
LEMMA SameBooks ==
    ASSUME NEW m, NEW file, NEW ph, CountsOK(m, file, ph), Synced(m), NEW r,
           SameControl(r, m), r.refcount = m.refcount
    PROVE  CountsOK(r, file, ph) /\ Synced(r)
BY DEF CountsOK, SameControl, Keeping, Synced, TakesInOrder, AtWork, Coming

\* The interface that an ifdown works on is down.
Finished(m, ph) == ~m.cmd.up /\ m.pc \in HoldingState => ph[m.target.key] # "up"

\* The three ways out of change_interface.
LEMMA ExitCounts ==
    ASSUME NEW m \in Memory, NEW file, NEW ph, CountsOK(m, file, ph), Synced(m), ~m.cmd.mock,
           m.stack = << >>, m.pc \notin {"write", "flush"}, Finished(m, ph), NEW ok \in BOOLEAN
    PROVE  CountsOK(Leave(m, ok), file, ph) /\ CountsOK(Fail(m), file, ph)
           /\ CountsOK(Done(m), file, ph)
<1>1. /\ ~m.cmd.force /\ OnlyUsable(ph) /\ Books(m.cmd.up, m.stack, ph, m.refcount)
      /\ ~m.cmd.up => Ordered(m.cmd, m.todo, ph, AtWork(m))
  BY DEF CountsOK, Keeping, TakesInOrder, Synced, Coming
<1>2. ~m.cmd.up => Ordered(m.cmd, m.todo, ph, {})
  <2>1. ~m.cmd.up => \A r \in AtWork(m) : ph[r] # "up"  BY DEF Finished, AtWork
  <2>2. ~m.cmd.up => \A r \in Iface : ph[r] = "up" => ph[r] = "up" /\ (r \in AtWork(m) => r \in {})
    BY <2>1
  <2> QED  BY <1>1, <2>2, OrderedLater
<1>3. ASSUME NEW n \in Memory, n.cmd = m.cmd, n.refcount = m.refcount, n.stack = m.stack,
             NEW good \in BOOLEAN
      PROVE  CountsOK(Leave(n, good), file, ph)
  <2> DEFINE l == [n EXCEPT !.pc = "write", !.ok = good, !.todo = << >>, !.target = NoTarget]
  <2>1. Leave(n, good) = l  BY <1>3 DEF Leave
  <2>2. /\ l.pc = "write" /\ l.cmd = m.cmd /\ l.refcount = m.refcount /\ l.stack = m.stack
        /\ l.todo = << >>
    BY <1>3 DEF Memory
  <2> HIDE DEF l
  <2>3. Ordered(l.cmd, Coming(l), ph, {})
    <3>1. DOMAIN Coming(l) = {}  BY <2>2 DEF Coming
    <3> QED  BY <3>1 DEF Ordered
  <2>4. Keeping(l, ph)
    BY <1>1, <2>2, <2>3 DEF Keeping, TakesInOrder, AtWork, HoldingState
  <2> QED  BY <1>1, <2>1, <2>2, <2>4 DEF CountsOK
<1>4. ASSUME NEW n, n.pc = "select", n.cmd = m.cmd, n.refcount = m.refcount,
             n.stack = m.stack, n.todo = m.todo
      PROVE  CountsOK(n, file, ph)
  <2>1. Keeping(n, ph)
    BY <1>1, <1>2, <1>4 DEF Keeping, TakesInOrder, AtWork, HoldingState, Coming
  <2> QED  BY <1>1, <1>4, <2>1 DEF CountsOK
<1>5. CountsOK(Leave(m, ok), file, ph)  BY <1>3
<1>6. CountsOK(Done(m), file, ph)
  <2>1. /\ Done(m).pc = "select" /\ Done(m).cmd = m.cmd /\ Done(m).refcount = m.refcount
        /\ Done(m).stack = m.stack /\ Done(m).todo = m.todo
    BY DEF Done, Memory
  <2> QED  BY <1>4, <2>1
<1>7. CountsOK(Fail(m), file, ph)
  <2> DEFINE u == Unwound(m)
             v == [u EXCEPT !.pc = "select", !.ok = FALSE, !.target = NoTarget]
  <2>1. Fail(m) = IF m.cmd.auto THEN v ELSE Leave(u, FALSE)  BY DEF Fail
  <2>2. u \in Memory /\ u.cmd = m.cmd /\ u.refcount = m.refcount /\ u.stack = m.stack
        /\ u.todo = m.todo
    BY UnwoundData
  <2> HIDE DEF u
  <2>3. /\ v.pc = "select" /\ v.cmd = m.cmd /\ v.refcount = m.refcount
        /\ v.stack = m.stack /\ v.todo = m.todo
    BY <2>2 DEF Memory
  <2> HIDE DEF v
  <2>4. CountsOK(v, file, ph)  BY <1>4, <2>3
  <2>5. CountsOK(Leave(u, FALSE), file, ph)  BY <1>3, <2>2
  <2> QED  BY <2>1, <2>4, <2>5
<1> QED  BY <1>5, <1>6, <1>7

\* What the invariant says of a command that has read the file and is not a mock run.
LEMMA AtBooks ==
    ASSUME NEW self, NEW ph, Counting(self, ph), Synced(mem[self]), ~mem[self].cmd.mock
    PROVE  LET m == mem[self]
           IN  /\ m \in Memory /\ GoodMemory(m) /\ DataOK(m) /\ OwnOK(m) /\ Agree(m)
               /\ CountsOK(m, ifstate, ph) /\ OnlyUsable(ph) /\ ~m.cmd.force
               /\ Books(m.cmd.up, m.stack, ph, m.refcount)
               /\ ~m.cmd.up => /\ TakesInOrder(m, ph)
                               /\ Ordered(m.cmd, m.todo, ph, AtWork(m))
               /\ m.pc # "run" => m.stack = << >> /\ m.pending = {}
               /\ ph \in [Key -> {"down", "partial", "up"}] /\ m.cmd.up \in BOOLEAN
<1> DEFINE m == mem[self]
<1>1. /\ m \in Memory /\ GoodMemory(m) /\ DataOK(m) /\ OwnOK(m)
      /\ m.pc # "run" => m.stack = << >> /\ m.pending = {}
      /\ ph \in [Key -> {"down", "partial", "up"}]
  BY Before DEF Counting, OwnInv, Knows
<1>2. CountsOK(m, ifstate, ph)  BY DEF Counting
<1>3. Agree(m)  BY <1>1 DEF OwnOK
<1>4. Keeping(m, ph) /\ OnlyUsable(ph) /\ ~m.cmd.force  BY <1>2 DEF CountsOK
<1>5. Coming(m) = m.todo  BY DEF Coming, Synced
<1>6. m.cmd.up \in BOOLEAN  BY <1>1 DEF Memory, Command
<1> QED  BY <1>1, <1>2, <1>3, <1>4, <1>5, <1>6 DEF Keeping, TakesInOrder

\* An argument that change_auto_interfaces passes over.
LEMMA PassOverCounts ==
    ASSUME NEW self, NEW ph, Counting(self, ph), ~mem[self].cmd.mock, PassOver(self)
    PROVE  CountsOK(mem'[self], ifstate, ph)
<1> DEFINE o == mem[self]
           t == Tail(o.todo)
           m == [o EXCEPT !.todo = t]
<1>1. /\ o.pc = "select" /\ o.todo # << >> /\ ~Selects(o.cmd, Head(o.todo).key)
      /\ mem'[self] = m
  BY Updated DEF Counting, PassOver, At, Selects
<1>2. /\ o \in Memory /\ ~o.cmd.force /\ OnlyUsable(ph)
      /\ Books(o.cmd.up, o.stack, ph, o.refcount)
      /\ ~o.cmd.up => Ordered(o.cmd, o.todo, ph, AtWork(o))
  BY <1>1, AtBooks DEF Synced
<1>3. ~o.cmd.up => Ordered(o.cmd, t, ph, {})
  <2>1. AtWork(o) = {}  BY <1>1 DEF AtWork, HoldingState
  <2> QED  BY <1>1, <1>2, <2>1, OrderedTail DEF Memory
<1> HIDE DEF t
<1>4. /\ m.pc = "select" /\ m.cmd = o.cmd /\ m.refcount = o.refcount /\ m.stack = o.stack
      /\ m.todo = t
  BY <1>1, <1>2 DEF Memory
<1> HIDE DEF m
<1>5. Keeping(m, ph)
  BY <1>2, <1>3, <1>4 DEF Keeping, TakesInOrder, AtWork, HoldingState, Coming
<1>6. CountsOK(m, ifstate, ph)  BY <1>2, <1>4, <1>5 DEF CountsOK
<1> QED  BY <1>1, <1>6

\* The end of a command, after an unknown interface or after the last one.
LEMMA LeaveCounts ==
    ASSUME NEW self, NEW ph, Counting(self, ph), ~mem[self].cmd.mock,
           UnknownInterface(self) \/ NoMoreTargets(self)
    PROVE  CountsOK(mem'[self], ifstate, ph)
<1> DEFINE o == mem[self]
<1>1. o.pc = "select" /\ (mem'[self] = Leave(o, FALSE) \/ mem'[self] = Leave(o, o.ok))
  BY Updated DEF Counting, UnknownInterface, NoMoreTargets, At
<1>2. o \in Memory /\ CountsOK(o, ifstate, ph) /\ o.stack = << >> /\ Synced(o)
  BY <1>1, AtBooks DEF Synced
<1>3. Finished(o, ph)  BY <1>1 DEF Finished, HoldingState
<1>4. o.ok \in BOOLEAN  BY <1>2 DEF Memory
<1>5. \A ok \in BOOLEAN : CountsOK(Leave(o, ok), ifstate, ph)
  BY <1>1, <1>2, <1>3, ExitCounts
<1> QED  BY <1>1, <1>4, <1>5

\* The only process finds every lock free.
LEMMA AcquireStep ==
    ASSUME NEW self, NEW ph, Counting(self, ph), ~mem[self].cmd.mock, AcquireLock(self)
    PROVE  LET o == mem[self]
               a == Head(o.todo)
               g == [key |-> a.key, iface |-> Resolve(o, a)]
           IN  /\ o.pc = "select" /\ o.todo # << >> /\ Selects(o.cmd, a.key)
               /\ a \in Argument /\ g.iface # NoIface
               /\ mem'[self] = [o EXCEPT !.todo = Tail(o.todo), !.target = g, !.pc = "locked"]
<1> DEFINE o == mem[self]
           a == Head(o.todo)
           i == Resolve(o, a)
           g == [key |-> a.key, iface |-> i]
           n == [o EXCEPT !.todo = Tail(o.todo), !.target = g]
           m == [n EXCEPT !.pc = "locked"]
<1>1. /\ o.pc = "select" /\ o.todo # << >> /\ Selects(o.cmd, a.key) /\ i # NoIface
      /\ mem'[self] = m \/ lock[a.key] # NoProc
  <2>1. Update(self, m) \/ lock[a.key] # NoProc  BY DEF AcquireLock
  <2> QED  BY <2>1, Updated DEF Counting, AcquireLock, At, Selects
<1>2. o \in Memory  BY <1>1, AtBooks DEF Synced
<1>3. a \in Argument /\ a.key \in Key
  <2>1. o.todo \in Seq(Argument)  BY <1>2 DEF Memory
  <2>2. a \in Argument  BY <1>1, <2>1, HeadTailProperties
  <2> QED  BY <2>2 DEF Argument
<1>4. lock[a.key] = NoProc
  <2> SUFFICES ASSUME lock[a.key] # NoProc  PROVE FALSE
    OBVIOUS
  <2>1. lock[a.key] \in Proc  BY <1>3 DEF Counting, IInv, TypeOK
  <2>2. lock[a.key] = self
    <3>1. PICK p \in Proc : \A q \in Proc : q = p  BY DEF Counting, Undisturbed
    <3> QED  BY <2>1, <3>1 DEF Counting
  <2>3. Holds(o, a.key)  BY <1>3, <2>1, <2>2 DEF Counting, IInv, LockOwnership
  <2> QED  BY <1>1, <2>3 DEF Holds
<1> QED  BY <1>1, <1>3, <1>4

\* The lock of an interface is taken when whoever requires the interface is down.
LEMMA AcquireLockCounts ==
    ASSUME NEW self, NEW ph, Counting(self, ph), ~mem[self].cmd.mock, AcquireLock(self)
    PROVE  CountsOK(mem'[self], ifstate, ph)
<1> DEFINE o == mem[self]
           a == Head(o.todo)
           t == Tail(o.todo)
           g == [key |-> a.key, iface |-> Resolve(o, a)]
           m == [o EXCEPT !.todo = t, !.target = g, !.pc = "locked"]
<1>1. /\ o.pc = "select" /\ o.todo # << >> /\ Selects(o.cmd, a.key)
      /\ mem'[self] = m
  BY AcquireStep
<1>2. /\ o \in Memory /\ ~o.cmd.force /\ OnlyUsable(ph)
      /\ Books(o.cmd.up, o.stack, ph, o.refcount)
      /\ ~o.cmd.up => Ordered(o.cmd, o.todo, ph, AtWork(o))
  BY <1>1, AtBooks DEF Synced
<1>3. ~o.cmd.up => /\ Ordered(o.cmd, t, ph, {a.key})
                   /\ Unrequired(a.key, ph)
  <2>1. AtWork(o) = {}  BY <1>1 DEF AtWork, HoldingState
  <2> QED  BY <1>1, <1>2, <2>1, OrderedTail DEF Memory
<1>4. g.key = a.key  OBVIOUS
<1> HIDE DEF t, g, a
<1>5. /\ m.pc = "locked" /\ m.cmd = o.cmd /\ m.refcount = o.refcount /\ m.stack = o.stack
      /\ m.todo = t /\ m.target = g
  BY <1>2 DEF Memory
<1> HIDE DEF m
<1>6. ~m.cmd.up => TakesInOrder(m, ph)
  <2>1. AtWork(m) = {a.key} /\ Coming(m) = t
    BY <1>4, <1>5 DEF AtWork, HoldingState, Coming
  <2> QED  BY <1>3, <1>4, <1>5, <2>1 DEF TakesInOrder
<1>7. Keeping(m, ph)
  BY <1>2, <1>5, <1>6 DEF Keeping
<1>8. CountsOK(m, ifstate, ph)  BY <1>2, <1>5, <1>7 DEF CountsOK
<1> QED  BY <1>1, <1>8

\* An interface of count zero has no reference on itself.
LEMMA ZeroCount ==
    ASSUME IsFiniteSet(Iface), NEW up, NEW s, NEW ph, NEW count, Books(up, s, ph, count),
           NEW i \in Iface, count[i] = 0
    PROVE  Itself(up, s, ph, i) = 0
<1> DEFINE h == Cardinality(Holders(up, s, ph, i))
           e == Itself(up, s, ph, i)
<1>1. h \in Nat /\ e \in {0, 1}  BY HoldersFinite, ItselfType
<1>2. count[i] = h + e  BY DEF Books, Exact, ExactFor
<1> HIDE DEF h, e
<1>3. e = 0  BY <1>1, <1>2
<1> QED  BY <1>3 DEF e

\* change_interface marks the interface explicit or not, and returns true.
LEMMA DoneCounts ==
    ASSUME NEW self, NEW ph, Counting(self, ph), Synced(mem[self]), ~mem[self].cmd.mock,
           mem[self].pc \in {"locked", "finish"}, Finished(mem[self], ph),
           NEW n \in {mem[self], MarkExplicit(mem[self], mem[self].target.key,
                                              mem[self].target.iface)},
           n # mem[self] => mem[self].refcount[mem[self].target.iface] > 0
    PROVE  CountsOK(Done(n), ifstate, ph)
<1> DEFINE o == mem[self]
           k == o.target.key
           i == o.target.iface
           c == MarkExplicit(o, k, i)
<1>1. /\ o \in Memory /\ DataOK(o) /\ GoodMemory(o) /\ CountsOK(o, ifstate, ph)
      /\ o.stack = << >>
  BY AtBooks
<1>2. k \in Key /\ i \in Iface  BY <1>1, TargetType DEF HoldingState
<1>3. CASE n = o
  BY <1>1, <1>3, ExitCounts
<1>4. CASE n # o
  <2>1. n = c /\ o.refcount[i] > 0  BY <1>4
  <2>2. c \in Memory /\ SameControl(c, o) /\ c.refcount = o.refcount
    <3>1. DataOK(c) /\ SameControl(c, o)  BY <1>1, <1>2, <2>1, MarkExplicitData
    <3>2. c.refcount = o.refcount  BY <1>1 DEF MarkExplicit, Memory
    <3> QED  BY <3>1, <3>2 DEF DataOK
  <2> HIDE DEF c
  <2>3. CountsOK(c, ifstate, ph) /\ Synced(c)  BY <1>1, <2>2, SameBooks
  <2>4. Finished(c, ph) /\ c.stack = << >> /\ c.pc \notin {"write", "flush"} /\ ~c.cmd.mock
    BY <1>1, <2>2 DEF Finished, SameControl
  <2>5. CountsOK(Done(c), ifstate, ph)  BY <2>2, <2>3, <2>4, ExitCounts
  <2> QED  BY <2>1, <2>5
<1> QED  BY <1>3, <1>4

\* skip_interface: nothing is to be done, and an ifdown finds the interface down.
LEMMA SkipInterfaceCounts ==
    ASSUME NEW self, NEW ph, Counting(self, ph), ~mem[self].cmd.mock, SkipInterface(self)
    PROVE  CountsOK(mem'[self], ifstate, ph)
<1> DEFINE o == mem[self]
           i == o.target.iface
           k == o.target.key
           marks == o.cmd.up /\ ~o.cmd.auto /\ i \notin ConfigError
           n == IF marks THEN MarkExplicit(o, k, i) ELSE o
<1>1. o.pc = "locked" /\ Skips(o) /\ mem'[self] = Done(n)
  BY Updated DEF Counting, SkipInterface, At
<1>2. /\ o \in Memory /\ GoodMemory(o) /\ OwnOK(o) /\ OnlyUsable(ph) /\ ~o.cmd.force
      /\ Books(o.cmd.up, o.stack, ph, o.refcount) /\ o.stack = << >>
  BY <1>1, AtBooks DEF Synced
<1>3. k = i /\ i \in Iface /\ o.refcount[i] \in Nat
  BY <1>1, <1>2, TargetType DEF OwnOK, HoldingState, Memory
<1>4. i \in ConfigError \/ (i \notin ConfigError /\ (o.cmd.up <=> o.refcount[i] > 0))
  BY <1>1, <1>2 DEF Skips
<1>5. Finished(o, ph)
  <2> SUFFICES ASSUME ~o.cmd.up  PROVE ph[k] # "up"
    BY DEF Finished
  <2>1. CASE i \in ConfigError  BY <1>2, <1>3, <2>1 DEF OnlyUsable
  <2>2. CASE i \notin ConfigError
    <3>1. o.refcount[i] = 0  BY <1>3, <1>4, <2>2
    <3>2. Itself(o.cmd.up, o.stack, ph, i) = 0
      BY <1>2, <1>3, <3>1, ZeroCount DEF Counting, Undisturbed
    <3> QED  BY <1>3, <3>2 DEF Itself
  <2> QED  BY <2>1, <2>2
<1>6. n \in {o, MarkExplicit(o, k, i)} /\ (n # o => o.refcount[i] > 0)
  BY <1>4
<1> HIDE DEF n
<1>7. CountsOK(Done(n), ifstate, ph)
  BY <1>1, <1>5, <1>6, DoneCounts DEF Synced
<1> QED  BY <1>1, <1>7

\* The interface was changed.
LEMMA FinishInterfaceCounts ==
    ASSUME NEW self, NEW ph, Counting(self, ph), ~mem[self].cmd.mock, FinishInterface(self)
    PROVE  CountsOK(mem'[self], ifstate, ph)
<1> DEFINE o == mem[self]
           i == o.target.iface
           k == o.target.key
           n == IF o.cmd.up /\ ~o.cmd.auto THEN MarkExplicit(o, k, i) ELSE o
<1>1. o.pc = "finish" /\ mem'[self] = Done(n)
  BY Updated DEF Counting, FinishInterface, At
<1>2. GoodMemory(o) /\ (~o.cmd.up => TakesInOrder(o, ph))
  BY <1>1, AtBooks DEF Synced
<1>3. Finished(o, ph)  BY <1>1, <1>2 DEF Finished, TakesInOrder
<1>4. n \in {o, MarkExplicit(o, k, i)} /\ (n # o => o.refcount[i] > 0)
  BY <1>1, <1>2 DEF GoodMemory, CountedOK
<1> HIDE DEF n
<1>5. CountsOK(Done(n), ifstate, ph)
  BY <1>1, <1>3, <1>4, DoneCounts DEF Synced
<1> QED  BY <1>1, <1>5

\* fopen truncates the state file; it never fails here.
LEMMA OpenStateFileCounts ==
    ASSUME NEW self, NEW ph, Counting(self, ph), ~mem[self].cmd.mock, OpenStateFile(self)
    PROVE  CountsOK(mem'[self], ifstate', ph)
<1> DEFINE o == mem[self]
           m == [o EXCEPT !.pc = "flush"]
<1>1. o.pc = "write" /\ mem'[self] = m /\ ifstate' = << >>
  <2>1. PICK good \in WriteOutcomes : IF good THEN ifstate' = << >> /\ Update(self, m)
                                              ELSE Update(self, Idle)
    BY DEF OpenStateFile
  <2>2. good = TRUE  BY CommandAssumption DEF Counting, Undisturbed
  <2> QED  BY <2>1, <2>2, Updated DEF Counting, OpenStateFile, At
<1>2. /\ o \in Memory /\ ~o.cmd.force /\ OnlyUsable(ph) /\ o.stack = << >>
      /\ Books(o.cmd.up, o.stack, ph, o.refcount)
      /\ ~o.cmd.up => Ordered(o.cmd, o.todo, ph, AtWork(o))
  BY <1>1, AtBooks DEF Synced
<1>3. /\ m.pc = "flush" /\ m.cmd = o.cmd /\ m.refcount = o.refcount /\ m.stack = o.stack
      /\ m.todo = o.todo
  BY <1>2 DEF Memory
<1> HIDE DEF m
<1>4. Keeping(m, ph)
  BY <1>1, <1>2, <1>3 DEF Keeping, TakesInOrder, AtWork, HoldingState, Coming
<1>5. CountsOK(m, << >>, ph)  BY <1>2, <1>3, <1>4 DEF CountsOK
<1> QED  BY <1>1, <1>5

\* A file that was truncated holds what one process writes.
LEMMA OverwriteEmpty ==
    ASSUME NEW s \in Seq(Record)
    PROVE  Overwrite(<< >>, s) = s
<1>1. Len(s) \in Nat  BY LenProperties
<1> DEFINE e == SubSeq(<< >>, Len(s) + 1, 0)
<1>2. e \in Seq(Record) /\ Len(e) = 0
  <2>1. << >> \in Seq(Record) /\ \A n \in Len(s) + 1 .. 0 : FALSE  BY <1>1, EmptySeq
  <2> QED  BY <1>1, <2>1, SubSeqProperties
<1>3. Overwrite(<< >>, s) = s \o e  BY DEF Overwrite
<1> HIDE DEF e
<1>4. /\ s \o e \in Seq(Record) /\ Len(s \o e) = Len(s)
      /\ \A n \in 1 .. Len(s) : (s \o e)[n] = s[n]
  BY <1>1, <1>2, ConcatProperties
<1>5. s \o e = s  BY <1>4, SeqEqual
<1> QED  BY <1>3, <1>5

\* fclose writes what the process has counted.
LEMMA FlushStateFileCounts ==
    ASSUME NEW self, NEW ph, Counting(self, ph), ~mem[self].cmd.mock, FlushStateFile(self)
    PROVE  CountsOK(mem'[self], ifstate', ph)
<1> DEFINE o == mem[self]
<1>1. o.pc = "flush" /\ mem'[self] = Idle /\ ifstate' = Overwrite(ifstate, o.state)
  BY Updated DEF Counting, FlushStateFile, At
<1>2. /\ o \in Memory /\ OnlyUsable(ph) /\ o.stack = << >> /\ DataOK(o) /\ Agree(o)
      /\ Books(o.cmd.up, << >>, ph, o.refcount) /\ CountsOK(o, ifstate, ph)
      /\ o.cmd.up \in BOOLEAN
  BY <1>1, AtBooks DEF Synced
<1>3. ifstate = << >>  BY <1>1, <1>2 DEF CountsOK
<1>4. ifstate' = o.state  BY <1>1, <1>2, <1>3, OverwriteEmpty DEF Memory
<1>5. \A i \in Iface : RecordedIn(o.state)[i] = o.refcount[i]
  <2> SUFFICES ASSUME NEW i \in Iface  PROVE RecordedIn(o.state)[i] = o.refcount[i]
    OBVIOUS
  <2>1. RecordedIn(o.state)[i] = IF HasRecord(o.state, i) THEN RecordOf(o.state, i).refcount ELSE 0
    BY DEF RecordedIn
  <2>2. Describe(o, i, i).refcount = o.refcount[i]  BY DEF Describe
  <2> QED  BY <1>2, <2>1, <2>2 DEF Agree
<1>6. Books(TRUE, << >>, ph, RecordedIn(o.state))
  <2>1. Books(TRUE, << >>, ph, o.refcount)  BY <1>2, BooksAtRest
  <2> QED  BY <1>5, <2>1, BooksSameCounts
<1>7. InOrder(o.state, ph)  BY <1>2, <1>6 DEF InOrder, DataOK
<1> QED  BY <1>1, <1>2, <1>4, <1>7, IdleCounts

\* A call that lif_lifecycle_run is in, with its books.
LEMMA RunningCounts ==
    ASSUME NEW self, NEW ph, Counting(self, ph), mem[self].pc \in {"locked", "run"}, ~mem[self].cmd.mock,
           NEW r, NEW qh, r.cmd = mem[self].cmd, r.todo = mem[self].todo,
           r.target = mem[self].target, r.pc \in {"run", "finish"},
           Books(r.cmd.up, r.stack, qh, r.refcount), OnlyUsable(qh),
           ~r.cmd.up => /\ \A i \in Iface : qh[i] = "up" => ph[i] = "up"
                        /\ r.pc = "finish" => qh[r.target.key] # "up"
    PROVE  CountsOK(r, ifstate, qh)
<1> DEFINE o == mem[self]
<1>1. ~o.cmd.force /\ (~o.cmd.up => Ordered(o.cmd, o.todo, ph, AtWork(o)))
  BY AtBooks DEF Synced
<1>2. AtWork(r) = AtWork(o)  BY DEF AtWork, HoldingState
<1>3. ~r.cmd.up => Ordered(r.cmd, r.todo, qh, AtWork(r))
  BY <1>1, <1>2, OrderedLater
<1>4. Keeping(r, qh)  BY <1>3 DEF Keeping, TakesInOrder, Coming
<1> QED  BY <1>1, <1>4 DEF CountsOK

\* What Call does to a memory.
LEMMA CallStack ==
    ASSUME NEW m \in Memory, NEW i \in Iface
    PROVE  LET r == Call(m, i, i)
           IN  /\ r.pc = "run" /\ r.stack = Append(m.stack, NewFrame(i))
               /\ r.cmd = m.cmd /\ r.todo = m.todo /\ r.target = m.target
               /\ r.refcount = m.refcount
BY DEF Call, NewFrame, Memory

\* lif_lifecycle_run is called for an interface that is not up yet, or that is up
\* and required by nobody.
LEMMA ChangeInterfaceCounts ==
    ASSUME NEW self, NEW ph, Counting(self, ph), ~mem[self].cmd.mock, ChangeInterface(self)
    PROVE  CountsOK(mem'[self], ifstate, ph)
<1> DEFINE o == mem[self]
           i == o.target.iface
           k == o.target.key
           m == Call(o, k, i)
<1>1. /\ o.pc = "locked" /\ ~Skips(o)
      /\ \/ i \in Template /\ mem'[self] = Fail(o)
         \/ i \notin Template /\ mem'[self] = m
  BY Updated DEF Counting, ChangeInterface, At
<1>2. /\ o \in Memory /\ GoodMemory(o) /\ OwnOK(o) /\ OnlyUsable(ph) /\ ~o.cmd.force
      /\ Books(o.cmd.up, o.stack, ph, o.refcount) /\ o.stack = << >>
      /\ CountsOK(o, ifstate, ph) /\ o.cmd.up \in BOOLEAN
      /\ ~o.cmd.up => TakesInOrder(o, ph)
  BY <1>1, AtBooks DEF Synced
<1>3. k = i /\ i \in Iface /\ o.refcount[i] \in Nat
  BY <1>1, <1>2, TargetType DEF OwnOK, HoldingState, Memory
<1>4. CASE i \in Template
  <2>1. Finished(o, ph)  BY <1>2, <1>3, <1>4 DEF Finished, OnlyUsable
  <2> QED  BY <1>1, <1>2, <1>4, <2>1, ExitCounts DEF Synced
<1>5. CASE i \notin Template
  <2> DEFINE up == o.cmd.up
             s == o.stack
             h == Cardinality(Holders(up, s, ph, i))
             e == Itself(up, s, ph, i)
  <2>1. up <=> o.refcount[i] = 0  BY <1>1, <1>2, <1>3, <1>5 DEF Skips
  <2>2. OnStack(s) = {} /\ DOMAIN s = {}  BY <1>2 DEF OnStack
  <2>3. ~up => Holders(up, s, ph, i) = {}
    <3>1. ~up => Unrequired(i, ph)  BY <1>1, <1>2, <1>3 DEF TakesInOrder
    <3> QED  BY <2>2, <3>1 DEF Holders, Unrequired, RequirersOf
  <2>4. up => ph[i] # "up"
    <3>1. up => e = 0
      BY <1>2, <1>3, <2>1, ZeroCount DEF Counting, Undisturbed
    <3> QED  BY <2>2, <3>1 DEF Itself
  <2>5. ~up => ph[i] = "up"
    <3>1. ~up => h = 0  BY <2>3, FS_EmptySet
    <3>2. e \in {0, 1}  BY ItselfType
    <3>3. o.refcount[i] = h + e  BY <1>2, <1>3 DEF Books, Exact, ExactFor
    <3> HIDE DEF h, e
    <3>4. ~up => e = 1  BY <1>3, <2>1, <3>1, <3>2, <3>3
    <3> QED  BY <2>2, <3>4 DEF Itself, e
  <2> HIDE DEF up, s
  <2>6. up \in BOOLEAN /\ s \in Seq(Frame) /\ Books(up, s, ph, o.refcount)
    BY <1>2 DEF up, s, Memory
  <2>7. Callable(up, s, ph, i)
    BY <1>3, <2>2, <2>4, <2>5, <2>6 DEF Callable
  <2>8. Books(up, Append(s, NewFrame(i)), ph, o.refcount)
    <3>1. /\ Exact(up, s, ph, o.refcount) /\ FramesOK(up, s, ph)
          /\ \A j \in Iface \ {i} : HeldFor(up, s, ph, j)
      BY <2>6 DEF Books
    <3> QED  BY <2>3, <2>7, <3>1, PushBooks
  <2>9. /\ m.pc = "run" /\ m.stack = Append(s, NewFrame(i))
        /\ m.cmd = o.cmd /\ m.todo = o.todo /\ m.target = o.target
        /\ m.refcount = o.refcount
    BY <1>2, <1>3, CallStack DEF s
  <2> HIDE DEF m
  <2>10. Books(m.cmd.up, m.stack, ph, m.refcount)  BY <2>8, <2>9 DEF up
  <2>11. CountsOK(m, ifstate, ph)
    BY <1>1, <1>2, <2>9, <2>10, RunningCounts
  <2> QED  BY <1>1, <1>5, <2>11
<1> QED  BY <1>4, <1>5

\* Which stage an activation has reached.
LEMMA StageAt ==
    ASSUME NEW m \in Memory, m.stack # << >>
    PROVE  /\ Top(m).at \in 1 .. 6
           /\ Stage(m) = "depend" <=> Top(m).at = (IF m.cmd.up THEN 1 ELSE 5)
           /\ Stage(m) \in {"ref", "unref"} <=> Top(m).at = 6
           /\ Stage(m) \in Phases <=> Top(m).at \in (IF m.cmd.up THEN 2 .. 5 ELSE 1 .. 4)
           /\ Stage(m) = "post-up" <=> m.cmd.up /\ Top(m).at = 5
<1>1. Top(m).at \in 1 .. 6  BY TopType DEF Frame
<1>2. Top(m).at \in {1, 2, 3, 4, 5, 6}  BY <1>1
<1> DEFINE n == Top(m).at
<1> HIDE DEF n
<1>3. Stage(m) = Stages(m)[n]  BY DEF Stage, n
<1>4. CASE m.cmd.up
  <2>1. Stage(m) = UpStages[n]  BY <1>3, <1>4 DEF Stages
  <2> QED  BY <1>2, <1>4, <2>1 DEF UpStages, Phases, n
<1>5. CASE ~m.cmd.up
  <2>1. Stage(m) = DownStages[n]  BY <1>3, <1>5 DEF Stages
  <2> QED  BY <1>2, <1>5, <2>1 DEF DownStages, Phases, n
<1> QED  BY <1>4, <1>5

\* What the invariants say of a process in lif_lifecycle_run.
LEMMA AtRun ==
    ASSUME NEW self, NEW ph, Counting(self, ph), mem[self].pc = "run", ~mem[self].cmd.mock
    PROVE  LET m == mem[self]
               s == m.stack
               l == Len(s)
           IN  /\ Shape(m.cmd.up, s, ph, m.refcount) /\ Books(m.cmd.up, s, ph, m.refcount)
               /\ l \in Nat \ {0} /\ DOMAIN s = 1 .. l /\ s # << >> /\ s \in Seq(Frame)
               /\ Top(m) = s[l] /\ Top(m) \in Frame
               /\ Top(m).iface \in Iface /\ Top(m).key = Top(m).iface
               /\ s[1].iface = m.target.iface /\ s[1].key = m.target.key
               /\ m.target.key = m.target.iface
               /\ Top(m).iface \notin Template \cup ConfigError
<1> DEFINE m == mem[self]
           s == m.stack
           l == Len(s)
<1>1. /\ m \in Memory /\ GoodMemory(m) /\ OwnOK(m) /\ ~m.cmd.force
      /\ Books(m.cmd.up, s, ph, m.refcount) /\ m.cmd.up \in BOOLEAN
      /\ ph \in [Key -> {"down", "partial", "up"}]
  BY AtBooks DEF Synced
<1>2. s # << >> /\ s[1].iface = m.target.iface /\ s[1].key = m.target.key /\ NestsOnce(m)
  BY <1>1 DEF GoodMemory, ControlOK
<1>3. /\ l \in Nat \ {0} /\ DOMAIN s = 1 .. l /\ Top(m) = s[l] /\ Top(m) \in Frame
  BY <1>1, <1>2, TopType
<1>4. s \in Seq(Frame) /\ m.refcount \in [Iface -> Nat]  BY <1>1 DEF Memory
<1>5. Shape(m.cmd.up, s, ph, m.refcount)
  BY <1>1, <1>2, <1>4 DEF Shape, NestsOnce
<1> DEFINE a == [iface |-> Top(m).iface, key |-> Top(m).key]
<1>6. a \in Activations(m) /\ l \in 1 .. l  BY <1>3 DEF Activations
<1>7. a.iface = Top(m).iface /\ a.key = Top(m).key  OBVIOUS
<1> HIDE DEF a
<1>8. Top(m).iface \in Iface /\ Top(m).key = Top(m).iface
  BY <1>1, <1>3, <1>6, <1>7 DEF OwnOK, Frame
<1>9. m.target.key = m.target.iface  BY <1>1 DEF OwnOK, HoldingState
<1>10. Top(m).iface \notin Template \cup ConfigError
  <2>1. OptionsOK(m) /\ MayRun(m, a.iface)
    BY <1>6 DEF Counting, OptionsInv, OptionsOK
  <2> QED  BY <1>1, <1>7, <2>1 DEF MayRun
<1> QED  BY <1>1, <1>2, <1>3, <1>4, <1>5, <1>8, <1>9, <1>10

\* What Advance does to a memory.
LEMMA AdvanceStack ==
    ASSUME NEW m \in Memory, m.stack # << >>, Top(m).at \in 1 .. 5
    PROVE  LET r == Advance(m)
               l == Len(m.stack)
           IN  /\ r.stack \in Seq(Frame) /\ Len(r.stack) = l
               /\ \A n \in 1 .. l - 1 : r.stack[n] = m.stack[n]
               /\ r.stack[l].iface = Top(m).iface /\ r.stack[l].at = Top(m).at + 1
               /\ r.stack[l].next = Top(m).next
               /\ r.pc = m.pc /\ r.cmd = m.cmd /\ r.todo = m.todo /\ r.target = m.target
               /\ r.refcount = m.refcount
<1> DEFINE f == [Top(m) EXCEPT !.at = @ + 1]
           t == SetTop(m, f)
           l == Len(m.stack)
           p == CASE Stage(m) = "depend" -> t.pending \ {Top(m).iface}
                  [] Stage(t) = "depend" -> t.pending \cup {Top(m).iface}
                  [] OTHER -> t.pending
           r == [t EXCEPT !.pending = p]
<1>1. Top(m) \in Frame /\ Top(m) = m.stack[l]  BY TopType
<1>2. /\ f \in Frame /\ f.iface = Top(m).iface /\ f.at = Top(m).at + 1
      /\ f.next = Top(m).next
  BY <1>1 DEF Frame
<1>3. Advance(m) = r  BY DEF Advance
<1> HIDE DEF f, p
<1>4. /\ t \in Memory /\ l \in Nat \ {0} /\ Len(t.stack) = l
      /\ \A n \in 1 .. l : t.stack[n] = IF n = l THEN f ELSE m.stack[n]
      /\ t.stack \in Seq(Frame)
  BY <1>2, SetTopType DEF Memory
<1>5. /\ t.pc = m.pc /\ t.cmd = m.cmd /\ t.todo = m.todo /\ t.target = m.target
      /\ t.refcount = m.refcount
  BY DEF SetTop, Memory
<1> HIDE DEF t
<1>6. /\ r.stack = t.stack /\ r.pc = t.pc /\ r.cmd = t.cmd /\ r.todo = t.todo
      /\ r.target = t.target /\ r.refcount = t.refcount
  BY <1>4 DEF Memory
<1> HIDE DEF r
<1>7. l \in 1 .. l /\ \A n \in 1 .. l - 1 : n \in 1 .. l /\ n # l
  BY <1>4
<1> QED  BY <1>2, <1>3, <1>4, <1>5, <1>6, <1>7

\* A phase that succeeds, or the end of handle_dependents.
LEMMA AdvanceCounts ==
    ASSUME NEW self, NEW ph, Counting(self, ph), mem[self].pc = "run", ~mem[self].cmd.mock,
           Top(mem[self]).at \in 1 .. 5, NEW qh, OnlyUsable(qh),
           Advances(mem[self].cmd.up, mem[self].stack, Advance(mem[self]).stack, ph, qh)
    PROVE  CountsOK(Advance(mem[self]), ifstate, qh)
<1> DEFINE o == mem[self]
           r == Advance(o)
           f == o.stack[Len(o.stack)]
<1>1. /\ o \in Memory /\ Books(o.cmd.up, o.stack, ph, o.refcount) /\ o.stack # << >>
      /\ Shape(o.cmd.up, o.stack, ph, o.refcount)
  BY AtBooks, AtRun DEF Synced
<1>2. /\ r.pc = "run" /\ r.cmd = o.cmd /\ r.todo = o.todo /\ r.target = o.target
      /\ r.refcount = o.refcount
  BY <1>1, AdvanceStack
<1>3. ~o.cmd.up => \A i \in Iface : qh[i] = "up" => ph[i] = "up"
  <2>1. ~o.cmd.up => qh[f.iface] # "up" /\ \A i \in Iface \ {f.iface} : qh[i] = ph[i]
    BY DEF Advances
  <2> QED  BY <2>1
<1> DEFINE up == o.cmd.up
           s == o.stack
           c == o.refcount
           t == r.stack
<1> HIDE DEF up, s, c, t, r, f
<1>4. Shape(up, s, ph, c) /\ Books(up, s, ph, c) /\ Advances(up, s, t, ph, qh)
  BY <1>1 DEF up, s, c, t, r
<1>5. Books(up, t, qh, c)  BY <1>4, AdvanceBooks
<1>6. Books(r.cmd.up, r.stack, qh, r.refcount)  BY <1>2, <1>5 DEF up, t, c
<1>7. CountsOK(r, ifstate, qh)  BY <1>2, <1>3, <1>6, RunningCounts
<1> QED  BY <1>7 DEF r

\* handle_dependents returns.
LEMMA DependentsDoneStep ==
    ASSUME NEW self, NEW ph, Counting(self, ph), ~mem[self].cmd.mock, DependentsDone(self)
    PROVE  LET o == mem[self]
           IN  /\ o.pc = "run" /\ mem'[self] = Advance(o) /\ Top(o).at \in 1 .. 5
               /\ Advances(o.cmd.up, o.stack, Advance(o).stack, ph, ph)
<1> DEFINE o == mem[self]
           s == o.stack
           f == s[Len(s)]
           t == Advance(o).stack
           up == o.cmd.up
<1>1. /\ o.pc = "run" /\ Stage(o) = "depend" /\ mem'[self] = Advance(o)
      /\ Top(o).next > Len(Requires[Top(o).iface])
  BY Updated DEF Counting, DependentsDone, At
<1>2. /\ o \in Memory /\ OnlyUsable(ph) /\ up \in BOOLEAN
  BY <1>1, AtBooks DEF Synced
<1>3. /\ Books(up, s, ph, o.refcount) /\ s # << >> /\ DOMAIN s = 1 .. Len(s)
      /\ Len(s) \in Nat \ {0} /\ Top(o) = f
  BY <1>1, AtRun
<1>4. f.at \in 1 .. 6 /\ f.at = (IF up THEN 1 ELSE 5)
  BY <1>1, <1>2, <1>3, StageAt
<1>5. /\ t \in Seq(Frame) /\ Len(t) = Len(s)
      /\ \A n \in 1 .. Len(s) - 1 : t[n] = s[n]
      /\ t[Len(s)].iface = f.iface /\ t[Len(s)].at = f.at + 1 /\ t[Len(s)].next = f.next
  BY <1>2, <1>3, <1>4, AdvanceStack
<1>6. ph[f.iface] = "up" <=> up /\ f.at = 5
  <2>1. FrameOK(up, s, ph, f)  BY <1>3 DEF Books, FramesOK
  <2> QED  BY <1>4, <2>1 DEF FrameOK
<1>7. f.next > Len(Requires[f.iface])  BY <1>1, <1>3
<1>8. f.at \in 1 .. 5  BY <1>2, <1>4
<1> HIDE DEF t, f
<1>9. Advances(up, s, t, ph, ph)
  BY <1>3, <1>5, <1>6, <1>7, <1>8 DEF Advances, f
<1> QED  BY <1>1, <1>3, <1>8, <1>9 DEF t, f

LEMMA DependentsDoneCounts ==
    ASSUME NEW self, NEW ph, Counting(self, ph), ~mem[self].cmd.mock, DependentsDone(self)
    PROVE  CountsOK(mem'[self], ifstate, ph)
<1>1. OnlyUsable(ph)  BY DEF Counting, CountsOK
<1> QED  BY <1>1, DependentsDoneStep, AdvanceCounts

\* A phase succeeds, and the innermost activation goes on.
LEMMA PhaseStep ==
    ASSUME NEW self, NEW ph, Counting(self, ph), ~mem[self].cmd.mock, RunPhase(self)
    PROVE  LET o == mem[self]
               up == o.cmd.up
               f == Top(o)
               v == PhaseEffect(o, TRUE)
           IN  /\ o.pc = "run" /\ mem'[self] = Advance(o)
               /\ phys' = [phys EXCEPT ![f.iface] = v]
               /\ v \in {"down", "partial", "up"} /\ (v = "up" <=> up /\ f.at = 5)
               /\ f.at \in 1 .. 5 /\ f.at # (IF up THEN 1 ELSE 5)
<1> DEFINE o == mem[self]
           f == Top(o)
           up == o.cmd.up
           v == PhaseEffect(o, TRUE)
<1>0. o.pc = "run" /\ Stage(o) \in Phases  BY DEF RunPhase, At
<1>1. o \in Memory /\ up \in BOOLEAN  BY <1>0, AtBooks DEF Synced
<1>2. /\ o.stack # << >> /\ f.iface \in Iface /\ f.key = f.iface
  BY <1>0, AtRun
<1>3. /\ mem'[self] = Advance(o)
      /\ phys' = [phys EXCEPT ![f.iface] = v]
  <2>1. PICK good \in BOOLEAN :
          /\ ~good => <<Top(o).iface, Stage(o)>> \in Flaky /\ ~o.cmd.mock
          /\ phys' = [phys EXCEPT ![Top(o).key] = PhaseEffect(o, good)]
          /\ Update(self, IF good THEN Advance(o) ELSE Fail(o))
    BY DEF RunPhase
  <2>2. <<Top(o).iface, Stage(o)>> \notin Flaky
    BY <1>0, <1>2 DEF Counting, Undisturbed
  <2>3. good = TRUE  BY <2>1, <2>2
  <2> QED  BY <1>2, <2>1, <2>3, Updated DEF Counting
<1>4. /\ f.at \in 1 .. 6 /\ f.at \in (IF up THEN 2 .. 5 ELSE 1 .. 4)
      /\ Stage(o) = "post-up" <=> up /\ f.at = 5
  BY <1>0, <1>1, <1>2, StageAt
<1>5. v \in {"down", "partial", "up"} /\ (v = "up" <=> up /\ f.at = 5)
  BY <1>4 DEF PhaseEffect
<1>6. f.at \in 1 .. 5 /\ f.at # (IF up THEN 1 ELSE 5)  BY <1>1, <1>4
<1> QED  BY <1>0, <1>3, <1>5, <1>6

\* A phase, which succeeds.
LEMMA RunPhaseCounts ==
    ASSUME NEW self, NEW ph, Counting(self, ph), ~mem[self].cmd.mock, RunPhase(self)
    PROVE  \E qh : /\ Knows(qh, phys') /\ CountsOK(mem'[self], ifstate, qh)
                   /\ mem[self].cmd.up => Within(ph, qh)
<1> DEFINE o == mem[self]
           s == o.stack
           f == s[Len(s)]
           t == Advance(o).stack
           up == o.cmd.up
           v == PhaseEffect(o, TRUE)
           qh == [ph EXCEPT ![f.iface] = v]
<1>0. o.pc = "run" /\ Stage(o) \in Phases  BY DEF RunPhase, At
<1>1. /\ o \in Memory /\ OnlyUsable(ph) /\ up \in BOOLEAN
      /\ ph \in [Key -> {"down", "partial", "up"}]
  BY <1>0, AtBooks DEF Synced
<1>2. /\ s # << >> /\ Len(s) \in Nat \ {0} /\ Top(o) = f
      /\ f.iface \in Iface /\ f.key = f.iface /\ f.iface \notin Template \cup ConfigError
  BY <1>0, AtRun
<1>3. /\ mem'[self] = Advance(o)
      /\ phys' = [phys EXCEPT ![f.iface] = v]
      /\ v \in {"down", "partial", "up"} /\ (v = "up" <=> up /\ f.at = 5)
      /\ f.at \in 1 .. 5 /\ f.at # (IF up THEN 1 ELSE 5)
  <2> DEFINE g == Top(o)
  <2>1. /\ mem'[self] = Advance(o) /\ phys' = [phys EXCEPT ![g.iface] = v]
        /\ v \in {"down", "partial", "up"} /\ (v = "up" <=> up /\ g.at = 5)
        /\ g.at \in 1 .. 5 /\ g.at # (IF up THEN 1 ELSE 5)
    BY PhaseStep
  <2>2. g = f  BY <1>2
  <2> HIDE DEF f, g, v
  <2> QED  BY <2>1, <2>2
<1>7. /\ t \in Seq(Frame) /\ Len(t) = Len(s)
      /\ \A n \in 1 .. Len(s) - 1 : t[n] = s[n]
      /\ t[Len(s)].iface = f.iface /\ t[Len(s)].at = f.at + 1 /\ t[Len(s)].next = f.next
  BY <1>1, <1>2, <1>3, AdvanceStack
<1>8. /\ qh[f.iface] = v /\ \A r \in Iface \ {f.iface} : qh[r] = ph[r]
      /\ qh \in [Key -> {"down", "partial", "up"}]
  BY <1>1, <1>2, <1>3, IfaceAssumption
<1>9. OnlyUsable(qh)  BY <1>1, <1>2, <1>8 DEF OnlyUsable
<1> HIDE DEF t, v
<1>10. Knows(qh, phys')
  <2>1. /\ phys'[f.iface] = v /\ \A r \in Iface \ {f.iface} : phys'[r] = phys[r]
    <3>1. phys \in [Key -> {"down", "partial", "up"}]  BY Before DEF Counting
    <3> QED  BY <1>2, <1>3, <3>1, IfaceAssumption
  <2>2. Within(ph, phys) /\ (MaxCrashes = 0 => Within(phys, ph))
    BY DEF Counting, Knows
  <2> HIDE DEF qh, f
  <2> DEFINE kernel == phys'
  <2> HIDE DEF kernel
  <2>3. Within(qh, kernel) /\ (MaxCrashes = 0 => Within(kernel, qh))
    BY <1>8, <2>1, <2>2 DEF Within, kernel
  <2> QED  BY <1>8, <2>3 DEF Knows, kernel
<1>11. FrameOK(up, s, ph, f)
  <2>1. Len(s) \in DOMAIN s  BY <1>0, <1>2, AtRun
  <2> QED  BY <1>0, <1>2, <2>1, AtRun DEF Books, FramesOK
<1>12. up => Within(ph, qh)
  <2>1. up => ph[f.iface] # "up"  BY <1>3, <1>11 DEF FrameOK
  <2> HIDE DEF qh, f
  <2> QED  BY <1>8, <2>1 DEF Within
<1> HIDE DEF qh, f
<1>13. Advances(up, s, t, ph, qh)
  BY <1>2, <1>3, <1>7, <1>8 DEF Advances, f
<1>14. CountsOK(Advance(o), ifstate, qh)
  BY <1>0, <1>2, <1>3, <1>9, <1>13, AdvanceCounts DEF t
<1> QED  BY <1>3, <1>10, <1>12, <1>14

\* The count of one interface after lif_state_ref_if or lif_state_unref_if; no
\* interface is marked explicit by them.
LEMMA CountChange ==
    ASSUME NEW m, DataOK(m), NEW k \in Key, NEW i \in Iface
    PROVE  /\ RefIf(m, k, i).refcount = [m.refcount EXCEPT ![i] = @ + 1]
           /\ m.refcount[i] > 0 => UnrefIf(m, k, i).refcount = [m.refcount EXCEPT ![i] = @ - 1]
           /\ RefIf(m, k, i).explicit = m.explicit /\ UnrefIf(m, k, i).explicit = m.explicit
<1>0. m \in Memory /\ m.refcount[i] \in Nat  BY DEF DataOK, Memory
<1>1. /\ RefIf(m, k, i).refcount = [m.refcount EXCEPT ![i] = @ + 1]
      /\ RefIf(m, k, i).explicit = m.explicit
  <2> DEFINE r == [m EXCEPT !.refcount[i] = @ + 1]
             u == Upsert(r.state, Describe(r, k, i))
  <2>1. RefIf(m, k, i) = [r EXCEPT !.state = u]  BY DEF RefIf
  <2> HIDE DEF u
  <2> QED  BY <1>0, <2>1 DEF Memory
<1>2. ASSUME m.refcount[i] > 0
      PROVE  /\ UnrefIf(m, k, i).refcount = [m.refcount EXCEPT ![i] = @ - 1]
             /\ UnrefIf(m, k, i).explicit = m.explicit
  <2> DEFINE r == [m EXCEPT !.refcount[i] = @ - 1]
             u == IF r.refcount[i] > 0 THEN Upsert(r.state, Describe(r, k, i))
                                       ELSE Delete(r.state, k)
  <2>1. UnrefIf(m, k, i) = [r EXCEPT !.state = u]  BY <1>0, <1>2 DEF UnrefIf
  <2> HIDE DEF u
  <2> QED  BY <1>0, <2>1 DEF Memory
<1>3. m.refcount[i] = 0 => UnrefIf(m, k, i) = m  BY DEF UnrefIf
<1> QED  BY <1>0, <1>1, <1>2, <1>3

\* The innermost activation returns.
LEMMA ReturnStep ==
    ASSUME NEW self, NEW ph, Counting(self, ph), ~mem[self].cmd.mock, ReturnFromRun(self)
    PROVE  LET o == mem[self]
               r == mem'[self]
           IN  /\ o.pc = "run" /\ Returns(o.cmd.up, o.stack, r.stack, o.refcount, r.refcount)
               /\ r.pc = (IF Len(o.stack) = 1 THEN "finish" ELSE "run")
               /\ r.cmd = o.cmd /\ r.todo = o.todo /\ r.target = o.target
               /\ r.explicit = o.explicit
<1> DEFINE o == mem[self]
           s == o.stack
           l == Len(s)
           f == s[l]
           up == o.cmd.up
           c == IF up THEN RefIf(o, f.key, f.iface) ELSE UnrefIf(o, f.key, f.iface)
           t == Front(s)
           pc == IF l = 1 THEN "finish" ELSE c.pc
           r == [c EXCEPT !.stack = t, !.pc = pc]
           count == o.refcount
           after == [count EXCEPT ![f.iface] = IF up THEN @ + 1 ELSE @ - 1]
<1>0. o.pc = "run" /\ Stage(o) \in {"ref", "unref"}
  BY DEF ReturnFromRun, At
<1>1. o \in Memory /\ DataOK(o) /\ up \in BOOLEAN
  BY <1>0, AtBooks DEF Synced
<1>2. /\ Shape(up, s, ph, count) /\ Books(up, s, ph, count)
      /\ s # << >> /\ l \in Nat \ {0} /\ Top(o) = f /\ s \in Seq(Frame)
      /\ f.iface \in Iface /\ f.key = f.iface
  BY <1>0, AtRun
<1>3. DataOK(c) /\ SameControl(c, o) /\ mem'[self] = r
  <2>1. f.key \in Key  BY <1>2, IfaceAssumption
  <2>2. DataOK(c) /\ SameControl(c, o)
    BY <1>1, <1>2, <2>1, RefIfData, UnrefIfData
  <2>3. Return(o) = r  BY <1>2, <2>2 DEF Return, SameControl
  <2> QED  BY <2>2, <2>3, Updated DEF Counting, ReturnFromRun
<1>4. f.at = 6  BY <1>0, <1>1, <1>2, StageAt
<1>5. t \in Seq(Frame) /\ Len(t) = l - 1 /\ \A n \in 1 .. l - 1 : t[n] = s[n]
  <2>1. \A n \in 1 .. l - 1 : s[n] \in Frame
    BY <1>2, ElementOfSeq
  <2> QED  BY <1>2, <2>1, SubSeqProperties DEF Front
<1>6. /\ after[f.iface] = (IF up THEN count[f.iface] + 1 ELSE count[f.iface] - 1)
      /\ \A i \in Iface \ {f.iface} : after[i] = count[i]
  BY <1>1, <1>2 DEF Memory
<1> HIDE DEF t, f, after, count, up
<1>7. Returns(up, s, t, count, after)
  BY <1>2, <1>4, <1>5, <1>6 DEF Returns, f
<1>8. ~up => count[f.iface] > 0
  <2>1. ~up => count[s[Len(s)].iface] > 0
    BY <1>2, <1>7, ReturnBooks DEF Counting, Undisturbed
  <2> QED  BY <2>1 DEF f
<1>9. c.refcount = after /\ c.explicit = o.explicit
  <2> DEFINE k == f.key
             i == f.iface
  <2>1. k \in Key /\ i \in Iface  BY <1>2, IfaceAssumption
  <2> HIDE DEF k, i
  <2>2. /\ RefIf(o, k, i).refcount = [o.refcount EXCEPT ![i] = @ + 1]
        /\ o.refcount[i] > 0 => UnrefIf(o, k, i).refcount = [o.refcount EXCEPT ![i] = @ - 1]
        /\ RefIf(o, k, i).explicit = o.explicit /\ UnrefIf(o, k, i).explicit = o.explicit
    BY <1>1, <2>1, CountChange
  <2>3. ~up => o.refcount[i] > 0  BY <1>8 DEF count, i
  <2> QED  BY <2>2, <2>3 DEF after, count, k, i
<1>10. pc = (IF l = 1 THEN "finish" ELSE "run")
  BY <1>0, <1>3 DEF SameControl
<1> HIDE DEF c, pc
<1>11. /\ r.stack = t /\ r.pc = pc /\ r.cmd = o.cmd /\ r.todo = o.todo /\ r.target = o.target
       /\ r.refcount = after /\ r.explicit = o.explicit
  BY <1>3, <1>9 DEF DataOK, SameControl, Memory
<1> QED  BY <1>0, <1>3, <1>7, <1>10, <1>11 DEF count, up

\* The return of lif_lifecycle_run.
LEMMA ReturnFromRunCounts ==
    ASSUME NEW self, NEW ph, Counting(self, ph), ~mem[self].cmd.mock, ReturnFromRun(self)
    PROVE  CountsOK(mem'[self], ifstate, ph)
<1> DEFINE o == mem[self]
           r == mem'[self]
           up == o.cmd.up
           s == o.stack
           f == s[Len(s)]
<1>1. /\ o.pc = "run" /\ Returns(up, s, r.stack, o.refcount, r.refcount)
      /\ r.pc = (IF Len(s) = 1 THEN "finish" ELSE "run")
      /\ r.cmd = o.cmd /\ r.todo = o.todo /\ r.target = o.target
  BY ReturnStep
<1>2. /\ OnlyUsable(ph) /\ Shape(up, s, ph, o.refcount) /\ Books(up, s, ph, o.refcount)
      /\ s[1].iface = o.target.iface /\ o.target.key = o.target.iface
  BY <1>1, AtBooks, AtRun DEF Synced
<1> HIDE DEF r, f
<1>3. /\ Books(up, r.stack, ph, r.refcount)
      /\ ~up => ph[f.iface] # "up"
  BY <1>1, <1>2, ReturnBooks DEF Counting, Undisturbed, f
<1>4. ~up /\ r.pc = "finish" => ph[r.target.key] # "up"
  BY <1>1, <1>2, <1>3 DEF f
<1>5. CountsOK(r, ifstate, ph)
  BY <1>1, <1>2, <1>3, <1>4, RunningCounts
<1> QED  BY <1>5 DEF r

\* What handle_dependents leaves of the books, going up: it calls lif_lifecycle_run
\* for a dependent of count zero that is not on the stack.
LEMMA VisitUpBooks ==
    ASSUME IsFiniteSet(Iface), RequiresDistinct,
           NEW s, NEW ph, NEW count, NEW t, NEW d, NEW after,
           VisitsUp(s, t, d, ph, count, after)
    PROVE  IF count[d] > 0 \/ d \in OnStack(s)
           THEN Books(TRUE, t, ph, after)
           ELSE Books(TRUE, Append(t, NewFrame(d)), ph, after)
<1>1. /\ OnStack(t) = OnStack(s)
      /\ Exact(TRUE, t, ph, after) /\ FramesOK(TRUE, t, ph)
      /\ \A i \in Iface \ {d} : HeldFor(TRUE, t, ph, i)
      /\ count[d] > 0 \/ d \in OnStack(s) => HeldFor(TRUE, t, ph, d)
  BY VisitUp
<1>. /\ Shape(TRUE, s, ph, count) /\ Books(TRUE, s, ph, count)
     /\ Visits(s, t, d) /\ s[Len(s)].at = 1
     /\ after[d] = count[d] + 1 /\ \A i \in Iface \ {d} : after[i] = count[i]
  BY DEF VisitsUp
<1>2. t \in Seq(Frame) /\ d \in Iface
  <2>1. s \in Seq(Frame)  BY DEF Shape
  <2> QED  BY <2>1, VisitedType
<1>3. CASE count[d] > 0 \/ d \in OnStack(s)
  BY <1>1, <1>3 DEF Books
<1>4. CASE ~(count[d] > 0 \/ d \in OnStack(s))
  <2> DEFINE up == TRUE
  <2>1. count[d] = 0  BY <1>2, <1>4 DEF Shape
  <2>2. Itself(TRUE, s, ph, d) = 0  BY <1>2, <2>1, ZeroCount
  <2>3. ph[d] # "up"  BY <1>4, <2>2 DEF Itself
  <2> HIDE DEF up
  <2>4. Callable(up, t, ph, d)  BY <1>1, <1>2, <1>4, <2>3 DEF Callable, up
  <2>5. /\ Exact(up, t, ph, after) /\ FramesOK(up, t, ph) /\ up
        /\ \A i \in Iface \ {d} : HeldFor(up, t, ph, i)
    BY <1>1 DEF up
  <2>6. Books(up, Append(t, NewFrame(d)), ph, after)  BY <2>4, <2>5, PushBooks
  <2> QED  BY <1>4, <2>6 DEF up
<1> QED  BY <1>3, <1>4

\* Going down, the innermost activation gives up its next dependent.
VisitsDown(s, t, d, ph, count, after) ==
    /\ Shape(FALSE, s, ph, count) /\ Books(FALSE, s, ph, count)
    /\ Visits(s, t, d) /\ s[Len(s)].at = 5
    /\ after[d] = count[d] - 1 /\ \A i \in Iface \ {d} : after[i] = count[i]

\* Going down, it calls lif_lifecycle_run for a dependent that nobody else counts.
LEMMA VisitDownBooks ==
    ASSUME IsFiniteSet(Iface), RequiresDistinct,
           NEW s, NEW ph, NEW count, NEW t, NEW d, NEW after,
           VisitsDown(s, t, d, ph, count, after)
    PROVE  /\ count[d] > 0 /\ Books(FALSE, t, ph, after)
           /\ after[d] <= 1 => Books(FALSE, Append(t, NewFrame(d)), ph, after)
<1>. /\ Shape(FALSE, s, ph, count) /\ Books(FALSE, s, ph, count)
     /\ Visits(s, t, d) /\ s[Len(s)].at = 5
     /\ after[d] = count[d] - 1 /\ \A i \in Iface \ {d} : after[i] = count[i]
  BY DEF VisitsDown
<1>1. /\ count[d] > 0
      /\ OnStack(t) = OnStack(s) /\ d \notin OnStack(s) /\ ph[d] = "up"
      /\ Books(FALSE, t, ph, after)
      /\ after[d] <= 1 => Holders(FALSE, t, ph, d) = {}
  BY VisitDown
<1>2. t \in Seq(Frame)  BY DEF Visits
<1>3. d \in Iface
  <2>1. s \in Seq(Frame)  BY DEF Shape
  <2> QED  BY <2>1, VisitedType
<1>4. ASSUME after[d] <= 1
      PROVE  Books(FALSE, Append(t, NewFrame(d)), ph, after)
  <2> DEFINE up == FALSE
  <2> HIDE DEF up
  <2>1. Callable(up, t, ph, d)  BY <1>1, <1>2, <1>3 DEF Callable, up
  <2>2. Holders(up, t, ph, d) = {}  BY <1>1, <1>4 DEF up
  <2>3. /\ Exact(up, t, ph, after) /\ FramesOK(up, t, ph)
        /\ \A i \in Iface \ {d} : HeldFor(up, t, ph, i)
    BY <1>1 DEF Books, up
  <2>4. Books(up, Append(t, NewFrame(d)), ph, after)  BY <2>1, <2>2, <2>3, PushBooks
  <2> QED  BY <2>4 DEF up
<1> QED  BY <1>1, <1>4

\* What NextDependent does to a memory.
LEMMA NextDependentStack ==
    ASSUME NEW m \in Memory, m.stack # << >>
    PROVE  LET r == NextDependent(m)
               l == Len(m.stack)
           IN  /\ r \in Memory /\ r.stack \in Seq(Frame) /\ Len(r.stack) = l
               /\ \A n \in 1 .. l - 1 : r.stack[n] = m.stack[n]
               /\ r.stack[l].iface = Top(m).iface /\ r.stack[l].at = Top(m).at
               /\ r.stack[l].next = Top(m).next + 1
               /\ r.pc = m.pc /\ r.cmd = m.cmd /\ r.todo = m.todo /\ r.target = m.target
               /\ r.refcount = m.refcount /\ r.pending = m.pending
<1> DEFINE f == [Top(m) EXCEPT !.next = @ + 1]
           r == SetTop(m, f)
           l == Len(m.stack)
<1>1. Top(m) \in Frame /\ Top(m) = m.stack[l]  BY TopType
<1>2. /\ f \in Frame /\ f.iface = Top(m).iface /\ f.at = Top(m).at
      /\ f.next = Top(m).next + 1
  BY <1>1 DEF Frame
<1>3. NextDependent(m) = r  BY DEF NextDependent
<1> HIDE DEF f
<1>4. /\ r \in Memory /\ l \in Nat \ {0} /\ Len(r.stack) = l
      /\ \A n \in 1 .. l : r.stack[n] = IF n = l THEN f ELSE m.stack[n]
      /\ r.stack \in Seq(Frame)
  BY <1>2, SetTopType DEF Memory
<1>5. /\ r.pc = m.pc /\ r.cmd = m.cmd /\ r.todo = m.todo /\ r.target = m.target
      /\ r.refcount = m.refcount /\ r.pending = m.pending
  BY DEF SetTop, Memory
<1> HIDE DEF r
<1>6. l \in 1 .. l /\ \A n \in 1 .. l - 1 : n \in 1 .. l /\ n # l
  BY <1>4
<1> QED  BY <1>2, <1>3, <1>4, <1>5, <1>6

\* Every activation on the stack waits in handle_dependents for the innermost one.
LEMMA PendingStack ==
    ASSUME NEW m, GoodMemory(m), m.pc = "run", Stage(m) = "depend"
    PROVE  m.pending = OnStack(m.stack)
<1>1. AllWait(m) /\ MarksActive(m)  BY VisitorWaits DEF GoodMemory, ControlOK
<1>2. InDependents(m) = DOMAIN m.stack  BY <1>1 DEF AllWait, InDependents
<1> QED  BY <1>1, <1>2 DEF MarksActive, OnStack

\* handle_dependents counts the next dependent d, or gives it up, and calls
\* lif_lifecycle_run for it unless it is in use, explicit or waiting further up.
Calls(up, s, after, ex, d) ==
    /\ d \notin OnStack(s)
    /\ after[d] <= 1 /\ (~up => ~ex[d])

\* One iteration of the loop of handle_dependents.
LEMMA DependentStep ==
    ASSUME NEW self, NEW ph, Counting(self, ph), ~mem[self].cmd.mock, ChangeDependent(self)
    PROVE  LET o == mem[self]
               r == mem'[self]
               up == o.cmd.up
               s == o.stack
               d == Dependent(o)
           IN  /\ o.pc = "run" /\ r.pc = "run" /\ s[Len(s)].at = (IF up THEN 1 ELSE 5)
               /\ r.cmd = o.cmd /\ r.todo = o.todo /\ r.target = o.target
               /\ r.explicit = o.explicit
               /\ r.refcount[d] = (IF up THEN o.refcount[d] + 1 ELSE o.refcount[d] - 1)
               /\ \A i \in Iface \ {d} : r.refcount[i] = o.refcount[i]
               /\ \E t : /\ Visits(s, t, d)
                         /\ r.stack = IF Calls(up, s, r.refcount, r.explicit, d)
                                      THEN Append(t, NewFrame(d)) ELSE t
<1> DEFINE o == mem[self]
           s == o.stack
           l == Len(s)
           f == s[l]
           d == Dependent(o)
           up == o.cmd.up
           c == IF up THEN RefIf(o, d, d) ELSE UnrefIf(o, d, d)
           e == NextDependent(c)
           t == e.stack
           r == Call(e, d, d)
           count == o.refcount
           after == [count EXCEPT ![d] = IF up THEN @ + 1 ELSE @ - 1]
<1>0. /\ o.pc = "run" /\ Stage(o) = "depend"
      /\ Top(o).next <= Len(Requires[Top(o).iface])
      /\ \/ (Settled(o, c, d) \/ d \in o.pending) /\ mem'[self] = e
         \/ d \in Template
         \/ ~Settled(o, c, d) /\ d \notin o.pending /\ mem'[self] = r
  BY Updated DEF Counting, ChangeDependent, AtDependent, At
<1>1. /\ o \in Memory /\ DataOK(o) /\ GoodMemory(o) /\ up \in BOOLEAN
  BY <1>0, AtBooks DEF Synced
<1>2. /\ Shape(up, s, ph, count) /\ Books(up, s, ph, count)
      /\ s # << >> /\ l \in Nat \ {0} /\ Top(o) = f /\ s \in Seq(Frame)
      /\ f \in Frame /\ f.iface \in Iface
  BY <1>0, AtRun
<1>3. /\ d = Requires[f.iface][f.next] /\ d \in Iface /\ d \in Key /\ d \notin Template
      /\ f.next <= Len(Requires[f.iface])
  <2> DEFINE R == Requires[f.iface]
  <2>1. Len(R) \in Nat /\ DOMAIN R = 1 .. Len(R) /\ \A n \in 1 .. Len(R) : R[n] \in Iface
    BY <1>2, RequiresType
  <2>2. d = R[f.next] /\ f.next <= Len(R)  BY <1>0, <1>2 DEF Dependent
  <2>3. f.next \in DOMAIN R /\ R[f.next] \in Iface  BY <1>2, <2>2, NextRequired
  <2>4. d \in Iface /\ d \in ToSet(R)  BY <2>2, <2>3 DEF ToSet
  <2>5. ToSet(R) \cap (Template \cup ConfigError) = {}
    BY <1>2 DEF Counting, Undisturbed
  <2> QED  BY <2>2, <2>4, <2>5, IfaceAssumption
<1>4. f.at = (IF up THEN 1 ELSE 5)
  BY <1>0, <1>1, <1>2, StageAt
<1>5. DataOK(c) /\ SameControl(c, o)
  BY <1>1, <1>3, RefIfData, UnrefIfData
<1>6. o.pending = OnStack(s)  BY <1>0, <1>1, PendingStack
<1> HIDE DEF c
<1>7. /\ c \in Memory /\ c.stack = s /\ Top(c) = f
  BY <1>2, <1>5 DEF DataOK, SameControl, Top
<1>8. /\ e \in Memory /\ t \in Seq(Frame) /\ Len(t) = l
      /\ \A n \in 1 .. l - 1 : t[n] = s[n]
      /\ t[l].iface = f.iface /\ t[l].at = f.at /\ t[l].next = f.next + 1
      /\ e.pc = c.pc /\ e.cmd = c.cmd /\ e.todo = c.todo /\ e.target = c.target
      /\ e.refcount = c.refcount /\ e.explicit = c.explicit
  BY <1>2, <1>7, NextDependentStack, NextDependentEffect DEF SameData
<1>9. /\ e.pc = "run" /\ e.cmd = o.cmd /\ e.todo = o.todo /\ e.target = o.target
  BY <1>0, <1>5, <1>8 DEF SameControl
<1>10. /\ r.pc = "run" /\ r.stack = Append(t, NewFrame(d)) /\ r.cmd = o.cmd /\ r.todo = o.todo
       /\ r.target = o.target /\ r.refcount = e.refcount /\ r.explicit = e.explicit
  BY <1>3, <1>8, <1>9, CallStack, CallEffect DEF SameData
<1> HIDE DEF r, t, e, d
<1>11. /\ after[d] = (IF up THEN count[d] + 1 ELSE count[d] - 1)
       /\ \A i \in Iface \ {d} : after[i] = count[i]
       /\ count[d] \in Nat
  BY <1>1, <1>3 DEF Memory
<1>12. /\ RefIf(o, d, d).refcount = [o.refcount EXCEPT ![d] = @ + 1]
       /\ o.refcount[d] > 0 => UnrefIf(o, d, d).refcount = [o.refcount EXCEPT ![d] = @ - 1]
       /\ RefIf(o, d, d).explicit = o.explicit /\ UnrefIf(o, d, d).explicit = o.explicit
  <2>1. DataOK(o) /\ d \in Key /\ d \in Iface  BY <1>1, <1>3
  <2> HIDE DEF after
  <2> QED  BY <2>1, CountChange
<1>13. (up \/ count[d] > 0 => c.refcount = after) /\ c.explicit = o.explicit
  BY <1>12 DEF c
<1> HIDE DEF f, l, after, count, up, s
<1>14. Visits(s, t, d)
  BY <1>2, <1>3, <1>8 DEF Visits, f, l
<1>15. ~up => count[d] > 0
  <2> SUFFICES ASSUME ~up  PROVE count[d] > 0
    OBVIOUS
  <2>1. up = FALSE  BY <1>1 DEF up
  <2>2. Shape(FALSE, s, ph, count) /\ Books(FALSE, s, ph, count)
    BY <1>2, <2>1
  <2>3. s[Len(s)].at = 5 /\ after[d] = count[d] - 1
    BY <1>4, <1>11, <2>1 DEF f, l
  <2>4. VisitsDown(s, t, d, ph, count, after)
    BY <1>11, <1>14, <2>2, <2>3 DEF VisitsDown
  <2> QED  BY <2>4, VisitDownBooks DEF Counting, Undisturbed
<1>16. c.refcount = after  BY <1>13, <1>15
<1>17. Settled(o, c, d) <=> IF up THEN count[d] > 0 ELSE after[d] > 1 \/ o.explicit[d]
  BY <1>13, <1>16 DEF Settled, up, count
<1>18. after[d] \in Nat
  BY <1>11, <1>15
<1>19. (IF up THEN count[d] > 0 ELSE after[d] > 1 \/ o.explicit[d])
       <=> after[d] > 1 \/ (~up /\ o.explicit[d])
  BY <1>11, <1>15
<1>20. (~Settled(o, c, d) /\ d \notin o.pending) <=> Calls(up, s, after, o.explicit, d)
  <2>1. after[d] > 1 <=> ~(after[d] <= 1)  BY <1>18
  <2> QED  BY <1>6, <1>17, <1>19, <2>1 DEF Calls
<1>21. IF Calls(up, s, after, o.explicit, d) THEN mem'[self] = r ELSE mem'[self] = e
  BY <1>0, <1>3, <1>20
<1>22. mem'[self].stack = IF Calls(up, s, after, o.explicit, d) THEN Append(t, NewFrame(d)) ELSE t
  BY <1>10, <1>21 DEF t
<1>23. mem'[self].refcount = after /\ mem'[self].explicit = o.explicit
  BY <1>8, <1>10, <1>13, <1>16, <1>21
<1>24. /\ mem'[self].pc = "run" /\ mem'[self].cmd = o.cmd /\ mem'[self].todo = o.todo
       /\ mem'[self].target = o.target
  BY <1>9, <1>10, <1>21
<1> HIDE DEF o
<1> QED  BY <1>0, <1>4, <1>11, <1>14, <1>22, <1>23, <1>24 DEF f, l, up, count, s, d, o

\* handle_dependents keeps the books.
LEMMA ChangeDependentCounts ==
    ASSUME NEW self, NEW ph, Counting(self, ph), ~mem[self].cmd.mock, ChangeDependent(self)
    PROVE  CountsOK(mem'[self], ifstate, ph)
<1> DEFINE o == mem[self]
           r == mem'[self]
           s == o.stack
           d == Dependent(o)
           up == o.cmd.up
           calls == Calls(up, s, r.refcount, r.explicit, d)
<1>1. /\ o.pc = "run" /\ r.pc = "run" /\ s[Len(s)].at = (IF up THEN 1 ELSE 5)
      /\ r.cmd = o.cmd /\ r.todo = o.todo /\ r.target = o.target
      /\ r.refcount[d] = (IF up THEN o.refcount[d] + 1 ELSE o.refcount[d] - 1)
      /\ \A i \in Iface \ {d} : r.refcount[i] = o.refcount[i]
      /\ \E t : Visits(s, t, d) /\ r.stack = IF calls THEN Append(t, NewFrame(d)) ELSE t
  BY DependentStep
<1>2. PICK t : Visits(s, t, d) /\ r.stack = IF calls THEN Append(t, NewFrame(d)) ELSE t
  BY <1>1
<1>3. /\ OnlyUsable(ph) /\ up \in BOOLEAN
      /\ Shape(up, s, ph, o.refcount) /\ Books(up, s, ph, o.refcount)
  BY <1>1, AtBooks, AtRun DEF Synced
<1>4. IsFiniteSet(Iface) /\ RequiresDistinct  BY DEF Counting, Undisturbed
<1>5. d \in Iface /\ o.refcount[d] \in Nat
  BY <1>2, <1>3, VisitedType DEF Shape
<1> DEFINE after == r.refcount
           count == o.refcount
<1> HIDE DEF r, s, d, after, count
<1>6. Books(up, r.stack, ph, after)
  <2>1. CASE up
    <3>1. up = TRUE  BY <1>3, <2>1
    <3>2. VisitsUp(s, t, d, ph, count, after)
      BY <1>1, <1>2, <1>3, <3>1 DEF VisitsUp, after, count
    <3>3. IF count[d] > 0 \/ d \in OnStack(s)
          THEN Books(TRUE, t, ph, after)
          ELSE Books(TRUE, Append(t, NewFrame(d)), ph, after)
      BY <1>4, <3>2, VisitUpBooks
    <3>4. calls <=> ~(count[d] > 0 \/ d \in OnStack(s))
      BY <1>1, <1>5, <2>1 DEF Calls, after, count
    <3> QED  BY <1>2, <3>1, <3>3, <3>4
  <2>2. CASE ~up
    <3>1. up = FALSE  BY <1>3, <2>2
    <3>2. VisitsDown(s, t, d, ph, count, after)
      BY <1>1, <1>2, <1>3, <3>1 DEF VisitsDown, after, count
    <3>3. /\ Books(FALSE, t, ph, after)
          /\ after[d] <= 1 => Books(FALSE, Append(t, NewFrame(d)), ph, after)
      BY <1>4, <3>2, VisitDownBooks
    <3>4. calls => after[d] <= 1  BY DEF Calls, after
    <3> QED  BY <1>2, <3>1, <3>3, <3>4
  <2> QED  BY <2>1, <2>2
<1>7. CountsOK(r, ifstate, ph)
  BY <1>1, <1>3, <1>6, RunningCounts DEF after
<1> QED  BY <1>7 DEF r

\* No requires list names a stanza with configuration errors.
LEMMA NoBrokenDependent ==
    ASSUME NEW self, NEW ph, Counting(self, ph), ~mem[self].cmd.mock
    PROVE  ~SkipBrokenDependent(self)
<1> SUFFICES ASSUME SkipBrokenDependent(self)  PROVE FALSE
  OBVIOUS
<1> DEFINE o == mem[self]
           i == Top(o).iface
           n == Top(o).next
           R == Requires[i]
<1>1. o.pc = "run" /\ n <= Len(R) /\ R[n] \in ConfigError
  BY DEF SkipBrokenDependent, AtDependent, At, Dependent
<1>2. i \in Iface /\ n \in Nat \ {0}  BY <1>1, AtRun DEF Frame
<1> HIDE DEF i, n
<1>3. Len(R) \in Nat /\ DOMAIN R = 1 .. Len(R)  BY <1>2, RequiresType
<1>4. n \in DOMAIN R  BY <1>1, <1>2, <1>3
<1>5. R[n] \in ToSet(R)  BY <1>4 DEF ToSet
<1>6. ToSet(R) \cap (Template \cup ConfigError) = {}  BY <1>2 DEF Counting, Undisturbed
<1> QED  BY <1>1, <1>5, <1>6

\* A process that has read the state file works on its command until it ends, and does
\* not forget a failure.
Stays(m, o) == m = Idle \/ (m.cmd = o.cmd /\ Synced(m) /\ (m.ok => o.ok))

\* A command goes on, or ends.
LEMMA WorkStays ==
    ASSUME IInv, NEW self \in Proc, Work(self),
           ~(ReadLine(self) \/ QueryDependents(self) \/ SyncState(self))
    PROVE  Stays(mem'[self], mem[self])
<1> DEFINE o == mem[self]
<1>0. o \in Memory /\ DataOK(o) /\ GoodMemory(o)  BY Before
<1>1. ASSUME NEW m \in Memory, m.cmd = o.cmd, m.ok = o.ok
      PROVE  /\ \A ok \in BOOLEAN : (ok => o.ok) => Stays(Leave(m, ok), o)
             /\ Stays(Fail(m), o) /\ Stays(Done(m), o)
  <2>1. ASSUME NEW n \in Memory, n.cmd = o.cmd, NEW ok \in BOOLEAN, ok => o.ok
        PROVE  Stays(Leave(n, ok), o)
    <3>1. CASE n.cmd.mock  BY <3>1 DEF Leave, Stays
    <3>2. CASE ~n.cmd.mock
      <4> DEFINE l == [n EXCEPT !.pc = "write", !.ok = ok, !.todo = << >>, !.target = NoTarget]
      <4>1. Leave(n, ok) = l  BY <3>2 DEF Leave
      <4>2. l.pc = "write" /\ l.cmd = n.cmd /\ l.ok = ok  BY DEF Memory
      <4> HIDE DEF l
      <4> QED  BY <2>1, <4>1, <4>2 DEF Stays, Synced
    <3> QED  BY <3>1, <3>2
  <2>2. Stays(Fail(m), o)
    <3> DEFINE u == Unwound(m)
               v == [u EXCEPT !.pc = "select", !.ok = FALSE, !.target = NoTarget]
    <3>1. Fail(m) = IF m.cmd.auto THEN v ELSE Leave(u, FALSE)  BY DEF Fail
    <3>2. u \in Memory /\ u.cmd = m.cmd  BY UnwoundData
    <3> HIDE DEF u
    <3>3. v.pc = "select" /\ v.cmd = m.cmd /\ ~v.ok  BY <3>2 DEF Memory
    <3>4. Stays(Leave(u, FALSE), o)  BY <1>1, <2>1, <3>2
    <3> HIDE DEF v
    <3> QED  BY <1>1, <3>1, <3>3, <3>4 DEF Stays, Synced
  <2>3. Done(m).pc = "select" /\ Done(m).cmd = m.cmd /\ Done(m).ok = m.ok  BY DEF Done, Memory
  <2> QED  BY <1>1, <2>1, <2>2, <2>3 DEF Stays, Synced
<1>2. CASE PassOver(self)
  <2> DEFINE t == Tail(o.todo)
             m == [o EXCEPT !.todo = t]
  <2>1. mem'[self] = m /\ o.pc = "select"  BY <1>2, Updated DEF PassOver, At
  <2> HIDE DEF t
  <2>2. m.pc = o.pc /\ m.cmd = o.cmd /\ m.ok = o.ok  BY <1>0 DEF Memory
  <2> QED  BY <2>1, <2>2 DEF Stays, Synced
<1>3. CASE UnknownInterface(self) \/ NoMoreTargets(self)
  <2>1. o.ok \in BOOLEAN  BY <1>0 DEF Memory
  <2>2. mem'[self] = Leave(o, FALSE) \/ mem'[self] = Leave(o, o.ok)
    BY <1>3, Updated DEF UnknownInterface, NoMoreTargets
  <2> QED  BY <1>0, <1>1, <2>1, <2>2
<1>4. CASE AcquireLock(self)
  <2> DEFINE a == Head(o.todo)
             t == Tail(o.todo)
             g == [key |-> a.key, iface |-> Resolve(o, a)]
             n == [o EXCEPT !.todo = t, !.target = g]
             m == [n EXCEPT !.pc = "locked"]
  <2>1. Update(self, m) \/ Update(self, Fail(n))  BY <1>4 DEF AcquireLock
  <2>2. mem'[self] = m \/ mem'[self] = Fail(n)  BY <2>1, Updated
  <2>3. n \in Memory
    <3>1. o.todo # << >> /\ (o.cmd.auto => a.key \in IsAuto \cap Matched) /\ Resolve(o, a) # NoIface
      BY <1>4 DEF AcquireLock
    <3>2. a \in Argument /\ t \in Seq(Argument)
      BY <1>0, <3>1, HeadTailProperties DEF Memory
    <3>3. Resolve(o, a) \in Iface  BY <1>0, <3>1, <3>2, ResolveType, ConfigAssumption
    <3>4. g \in [key : Key, iface : Iface]  BY <3>2, <3>3 DEF Argument
    <3> HIDE DEF t, g
    <3> QED  BY <1>0, <3>2, <3>4 DEF Memory
  <2> HIDE DEF t, g
  <2>4. /\ m.pc = "locked" /\ m.cmd = o.cmd /\ n.cmd = o.cmd
        /\ m.ok = o.ok /\ n.ok = o.ok
    BY <1>0 DEF Memory
  <2> HIDE DEF n, m
  <2> QED  BY <1>1, <2>2, <2>3, <2>4 DEF Stays, Synced
<1>5. CASE SkipInterface(self) \/ FinishInterface(self)
  <2> DEFINE c == MarkExplicit(o, o.target.key, o.target.iface)
  <2>1. mem'[self] = Done(o) \/ mem'[self] = Done(c)
    BY <1>5, Updated DEF SkipInterface, FinishInterface
  <2>2. Done(c).pc = "select" /\ Done(c).cmd = o.cmd /\ Done(c).ok = o.ok
    <3> DEFINE e == [o.explicit EXCEPT ![o.target.iface] = TRUE]
               r == [o EXCEPT !.explicit = e]
               u == Upsert(r.state, Describe(r, o.target.key, o.target.iface))
    <3>1. c = [r EXCEPT !.state = u]  BY DEF MarkExplicit
    <3> HIDE DEF c, e, u
    <3>2. /\ c.cmd = o.cmd /\ Done(c).pc = "select" /\ Done(c).cmd = c.cmd
          /\ c.ok = o.ok /\ Done(c).ok = c.ok
      BY <1>0, <3>1 DEF Memory, Done
    <3> QED  BY <3>2
  <2> HIDE DEF c
  <2> QED  BY <1>0, <1>1, <2>1, <2>2 DEF Stays, Synced
<1>6. CASE ChangeInterface(self)
  <2> DEFINE k == o.target.key
             i == o.target.iface
  <2>1. (mem'[self] = Fail(o) \/ mem'[self] = Call(o, k, i)) /\ o.pc = "locked"
    BY <1>6, Updated DEF ChangeInterface, At
  <2>2. k \in Key /\ i \in Iface  BY <1>0, <2>1, TargetType DEF HoldingState
  <2>3. Call(o, k, i).pc = "run" /\ Call(o, k, i).cmd = o.cmd /\ Call(o, k, i).ok = o.ok
    BY <1>0, <2>2, CallEffect DEF SameData
  <2> QED  BY <1>0, <1>1, <2>1, <2>3 DEF Stays, Synced
<1>7. CASE SkipBrokenDependent(self)
  <2>1. mem'[self] = NextDependent(o) /\ o.pc = "run" /\ o.stack # << >>
    BY <1>0, <1>7, Updated DEF SkipBrokenDependent, AtDependent, At, GoodMemory, ControlOK
  <2>2. /\ NextDependent(o).pc = o.pc /\ NextDependent(o).cmd = o.cmd
        /\ NextDependent(o).ok = o.ok
    BY <1>0, <2>1, NextDependentStack, NextDependentEffect DEF SameData
  <2> QED  BY <2>1, <2>2 DEF Stays, Synced
<1>8. CASE ChangeDependent(self)
  <2> DEFINE d == Dependent(o)
             c == IF o.cmd.up THEN RefIf(o, d, d) ELSE UnrefIf(o, d, d)
             e == NextDependent(c)
  <2>1. /\ mem'[self] = e \/ mem'[self] = Fail(c) \/ mem'[self] = Call(e, d, d)
        /\ o.pc = "run" /\ o.stack # << >>
    BY <1>0, <1>8, Updated DEF ChangeDependent, AtDependent, At, GoodMemory, ControlOK
  <2>2. d \in Iface /\ d \in Key
    <3>1. o.pc = "run" /\ Top(o).next <= Len(Requires[Top(o).iface])
      BY <1>8 DEF ChangeDependent, AtDependent, At
    <3> QED  BY <1>0, <3>1, DependentType, IfaceAssumption
  <2>3. DataOK(c) /\ SameControl(c, o)  BY <1>0, <2>2, RefIfData, UnrefIfData
  <2> HIDE DEF c, d
  <2>4. c \in Memory /\ c.stack # << >> /\ c.pc = "run" /\ c.cmd = o.cmd /\ c.ok = o.ok
    BY <2>1, <2>3 DEF DataOK, SameControl
  <2>5. e \in Memory /\ e.pc = "run" /\ e.cmd = o.cmd /\ e.ok = o.ok
    BY <2>4, NextDependentStack, NextDependentEffect DEF SameData
  <2> HIDE DEF e
  <2>6. Call(e, d, d).pc = "run" /\ Call(e, d, d).cmd = e.cmd /\ Call(e, d, d).ok = e.ok
    BY <2>2, <2>5, CallEffect DEF SameData
  <2> QED  BY <1>1, <2>1, <2>4, <2>5, <2>6 DEF Stays, Synced
<1>9. CASE DependentsDone(self) \/ RunPhase(self)
  <2>1. /\ o.pc = "run" /\ o.stack # << >> /\ Stage(o) \notin {"ref", "unref"}
        /\ mem'[self] = Advance(o) \/ mem'[self] = Fail(o)
    <3>1. /\ Update(self, Advance(o)) \/ Update(self, Fail(o))
          /\ At(self, "run") /\ (Stage(o) = "depend" \/ Stage(o) \in Phases)
      BY <1>9 DEF DependentsDone, RunPhase
    <3> QED  BY <1>0, <3>1, Updated DEF At, GoodMemory, ControlOK, Phases
  <2>2. Top(o).at \in 1 .. 5  BY <1>0, <2>1, StageAt
  <2>3. Advance(o).pc = o.pc /\ Advance(o).cmd = o.cmd /\ Advance(o).ok = o.ok
    BY <1>0, <2>1, <2>2, AdvanceStack, AdvanceEffect DEF SameData
  <2> QED  BY <1>0, <1>1, <2>1, <2>3 DEF Stays, Synced
<1>10. CASE ReturnFromRun(self)
  <2>1. mem'[self] = Return(o) /\ o.pc = "run" /\ o.stack # << >>
    BY <1>0, <1>10, Updated DEF ReturnFromRun, At, GoodMemory, ControlOK
  <2> DEFINE c == Counted(o)
             s == Front(o.stack)
             pc == IF Len(o.stack) = 1 THEN "finish" ELSE c.pc
             r == [c EXCEPT !.stack = s, !.pc = pc]
  <2>2. DataOK(c) /\ SameControl(c, o)  BY <1>0, <2>1, ReturnEffect
  <2>3. Return(o) = r  BY <2>2 DEF Return, Counted, SameControl
  <2>4. pc \in {"run", "finish"}  BY <2>1, <2>2 DEF SameControl
  <2> HIDE DEF c, s, pc
  <2>5. r.pc = pc /\ r.cmd = c.cmd /\ r.ok = c.ok  BY <2>2 DEF DataOK, Memory
  <2>6. c.cmd = o.cmd /\ c.ok = o.ok  BY <2>2 DEF SameControl
  <2> HIDE DEF r
  <2> QED  BY <2>1, <2>3, <2>4, <2>5, <2>6 DEF Stays, Synced
<1>11. CASE OpenStateFile(self) \/ FlushStateFile(self)
  <2> DEFINE m == [o EXCEPT !.pc = "flush"]
  <2>1. mem'[self] = m \/ mem'[self] = Idle
    BY <1>11, Updated DEF OpenStateFile, FlushStateFile
  <2>2. m.pc = "flush" /\ m.cmd = o.cmd /\ m.ok = o.ok  BY <1>0 DEF Memory
  <2> QED  BY <2>1, <2>2 DEF Stays, Synced
<1> QED
  BY <1>2, <1>3, <1>4, <1>5, <1>6, <1>7, <1>8, <1>9, <1>10, <1>11 DEF Work

\* A mock run leaves everything as it was.
LEMMA MockCounts ==
    ASSUME NEW self, NEW ph, Counting(self, ph), mem[self].cmd.mock, Work(self)
    PROVE  /\ CountsOK(mem'[self], ifstate, ph)
           /\ ifstate' = ifstate /\ phys' = phys
<1> DEFINE o == mem[self]
           n == mem'[self]
<1>1. /\ OptionsInv /\ IInv /\ self \in Proc /\ WriteOK(o) /\ CountsOK(o, ifstate, ph)
  BY DEF Counting, OptionsInv, OptionsOK
<1>2. ifstate' = ifstate /\ phys' = phys  BY <1>1, MockStep
<1>3. CASE ReadLine(self) \/ QueryDependents(self) \/ SyncState(self)
  BY <1>2, <1>3, ReadLineCounts, QueryDependentsCounts, SyncStateCounts
<1>4. CASE ~(ReadLine(self) \/ QueryDependents(self) \/ SyncState(self))
  <2>1. Stays(n, o)  BY <1>1, <1>4, WorkStays
  <2>2. InOrder(ifstate, ph) /\ OnlyUsable(ph) /\ ~o.cmd.force  BY <1>1 DEF CountsOK
  <2>3. WriteOK(n)
    <3>1. OptionsInv'  BY <1>1, OptionsStep
    <3> QED  BY <1>1, <3>1 DEF OptionsInv, OptionsOK
  <2>4. CountsOK(Idle, ifstate, ph)  BY <2>2, IdleCounts
  <2>5. ASSUME n.cmd = o.cmd, Synced(n)  PROVE CountsOK(n, ifstate, ph)
    BY <2>2, <2>3, <2>5 DEF CountsOK, Synced, WriteOK
  <2>6. CountsOK(n, ifstate, ph)  BY <2>1, <2>4, <2>5 DEF Stays
  <2> QED  BY <1>2, <2>6
<1> QED  BY <1>3, <1>4

\* Every step of one process keeps the counts of memory, file and kernel together.
LEMMA WorkCounts ==
    ASSUME NEW self, NEW ph, Counting(self, ph), Work(self)
    PROVE  \E qh : /\ Knows(qh, phys') /\ CountsOK(mem'[self], ifstate', qh)
                   /\ mem[self].cmd.up => Within(ph, qh)
<1>1. Knows(ph, phys) /\ Within(ph, ph)  BY DEF Counting, Within
<1>2. CASE mem[self].cmd.mock
  <2>1. CountsOK(mem'[self], ifstate, ph) /\ ifstate' = ifstate /\ phys' = phys
    BY <1>2, MockCounts
  <2> QED  BY <1>1, <2>1
<1>3. CASE ~mem[self].cmd.mock
  <2>1. CASE OpenStateFile(self)
    BY <1>1, <1>3, <2>1, OpenStateFileCounts DEF OpenStateFile
  <2>2. CASE FlushStateFile(self)
    BY <1>1, <1>3, <2>2, FlushStateFileCounts DEF FlushStateFile
  <2>3. CASE RunPhase(self)
    BY <1>3, <2>3, RunPhaseCounts DEF RunPhase
  <2>4. CASE ~OpenStateFile(self) /\ ~FlushStateFile(self) /\ ~RunPhase(self)
    <3>1. ifstate' = ifstate /\ phys' = phys
      BY <2>4 DEF Work, ReadLine, QueryDependents, SyncState, PassOver, UnknownInterface,
            AcquireLock, SkipInterface, ChangeInterface, SkipBrokenDependent, ChangeDependent,
            DependentsDone, ReturnFromRun, FinishInterface, NoMoreTargets
    <3>2. CountsOK(mem'[self], ifstate, ph)
      <4>1. CASE ReadLine(self)             BY <4>1, ReadLineCounts
      <4>2. CASE QueryDependents(self)      BY <4>2, QueryDependentsCounts
      <4>3. CASE SyncState(self)            BY <4>3, SyncStateCounts
      <4>4. CASE PassOver(self)             BY <1>3, <4>4, PassOverCounts
      <4>5. CASE UnknownInterface(self) \/ NoMoreTargets(self)
        BY <1>3, <4>5, LeaveCounts
      <4>6. CASE AcquireLock(self)          BY <1>3, <4>6, AcquireLockCounts
      <4>7. CASE SkipInterface(self)        BY <1>3, <4>7, SkipInterfaceCounts
      <4>8. CASE ChangeInterface(self)      BY <1>3, <4>8, ChangeInterfaceCounts
      <4>9. CASE ChangeDependent(self)      BY <1>3, <4>9, ChangeDependentCounts
      <4>10. CASE DependentsDone(self)      BY <1>3, <4>10, DependentsDoneCounts
      <4>11. CASE ReturnFromRun(self)       BY <1>3, <4>11, ReturnFromRunCounts
      <4>12. CASE FinishInterface(self)     BY <1>3, <4>12, FinishInterfaceCounts
      <4>13. ~SkipBrokenDependent(self)     BY <1>3, NoBrokenDependent
      <4> QED
        BY <2>4, <4>1, <4>2, <4>3, <4>4, <4>5, <4>6, <4>7, <4>8, <4>9, <4>10, <4>11,
           <4>12, <4>13 DEF Work
    <3> QED  BY <1>1, <3>1, <3>2
  <2> QED  BY <2>1, <2>2, <2>3, <2>4
<1> QED  BY <1>2, <1>3

-----------------------------------------------------------------------------
(* A killed ifup leaves a file that counts a part of what is up.           *)

\* The kernel's interfaces before anything was brought up.
AllDown == [k \in Key |-> "down"]

\* An empty file is in order when nothing is up.
LEMMA EmptyInOrder ==
    ASSUME NEW ph, \A i \in Iface : ph[i] = "down"
    PROVE  InOrder(<< >>, ph) /\ OnlyUsable(ph)
<1> DEFINE e == << >>
           count == RecordedIn(e)
<1>1. /\ IsDictionary(e) /\ \A i \in Iface : count[i] = 0
      /\ OnStack(e) = {} /\ DOMAIN e = {}
  BY DEF IsDictionary, KeysDistinct, RecordedIn, HasRecord, OnStack
<1> HIDE DEF e, count
<1>2. \A i \in Iface : Holders(TRUE, e, ph, i) = {} /\ Itself(TRUE, e, ph, i) = 0
  BY <1>1 DEF Holders, Itself
<1>3. Books(TRUE, e, ph, count)
  <2>1. Exact(TRUE, e, ph, count)
    <3> SUFFICES ASSUME NEW i \in Iface  PROVE ExactFor(TRUE, e, ph, count, i)
      BY DEF Exact
    <3>1. Holders(TRUE, e, ph, i) = {} /\ Itself(TRUE, e, ph, i) = 0 /\ count[i] = 0
      BY <1>1, <1>2
    <3> DEFINE h == Cardinality(Holders(TRUE, e, ph, i))
               g == Itself(TRUE, e, ph, i)
    <3>2. h = 0 /\ g = 0  BY <3>1, FS_EmptySet
    <3> HIDE DEF h, g
    <3>3. count[i] = h + g  BY <3>1, <3>2
    <3> QED  BY <3>3 DEF ExactFor, h, g
  <2>2. \A i \in Iface : HeldFor(TRUE, e, ph, i)  BY <1>2 DEF HeldFor
  <2>3. FramesOK(TRUE, e, ph)  BY <1>1 DEF FramesOK
  <2> QED  BY <2>1, <2>2, <2>3 DEF Books
<1> QED  BY <1>1, <1>3 DEF InOrder, OnlyUsable, e, count

\* Whatever an ifup does, the file it would leave if it were killed counts a part of
\* what is up: what the file counted before, or nothing once it is truncated.
LEMMA WorkFallback ==
    ASSUME NEW self, NEW ph, Counting(self, ph), Fallback(mem[self], ifstate, ph), Work(self),
           NEW qh, Knows(qh, phys'), CountsOK(mem'[self], ifstate', qh),
           mem[self].cmd.up => Within(ph, qh)
    PROVE  Fallback(mem'[self], ifstate', qh)
<1> DEFINE o == mem[self]
           n == mem'[self]
           kinds == [Key -> {"down", "partial", "up"}]
<1>1. qh \in kinds /\ ph \in kinds  BY DEF Counting, Knows
<1>2. CASE n.pc \in {"idle", "read", "sync"} \/ n.cmd.mock
  <2> DEFINE file == ifstate'
  <2>1. InOrder(file, qh)  BY <1>2 DEF CountsOK
  <2>2. Within(qh, qh)  BY DEF Within
  <2> HIDE DEF file
  <2>3. Fallback(n, file, qh)  BY <1>1, <2>1, <2>2 DEF Fallback
  <2> QED  BY <2>3 DEF file
<1>3. CASE ~(n.pc \in {"idle", "read", "sync"} \/ n.cmd.mock)
  <2>1. ASSUME n.cmd = o.cmd, ifstate' = ifstate,
               NEW oh, oh \in kinds, InOrder(ifstate, oh), Within(oh, ph)
        PROVE  Fallback(n, ifstate', qh)
    <3>1. o.cmd.up => Within(oh, qh)  BY <2>1 DEF Within
    <3>2. Fallback(n, ifstate, qh)  BY <2>1, <3>1 DEF Fallback
    <3> QED  BY <2>1, <3>2
  <2>2. o \in Memory  BY Before DEF Counting
  <2>3. ~ReadLine(self) /\ ~QueryDependents(self) /\ ~FlushStateFile(self)
    <3>1. ASSUME ReadLine(self)  PROVE FALSE
      <4> DEFINE s == Upsert(o.state, ParsedLine(Head(o.input)))
                 t == Tail(o.input)
                 m == [o EXCEPT !.input = t, !.state = s]
      <4>1. o.pc = "read" /\ n = m  BY <3>1, Updated DEF Counting, ReadLine, At
      <4> HIDE DEF s, t
      <4>2. m.pc = o.pc  BY <2>2 DEF Memory
      <4> QED  BY <1>3, <4>1, <4>2
    <3>2. ASSUME QueryDependents(self)  PROVE FALSE
      <4>1. n.pc \in {"sync", "idle"}
        BY <2>2, <3>2, Updated DEF Counting, QueryDependents, Idle, Fresh, Memory
      <4> QED  BY <1>3, <4>1
    <3>3. ASSUME FlushStateFile(self)  PROVE FALSE
      <4>1. n.pc = "idle"  BY <3>3, Updated DEF Counting, FlushStateFile, Idle, Fresh
      <4> QED  BY <1>3, <4>1
    <3> QED  BY <3>1, <3>2, <3>3
  <2>4. CASE SyncState(self)
    <3> DEFINE c == SyncedRefcount(o.state)
               e == SyncedExplicit(o.state, o.explicit)
               t == IF o.cmd.auto THEN AutomaticArguments ELSE o.cmd.args
               m == [o EXCEPT !.pc = "select", !.refcount = c, !.explicit = e, !.todo = t]
    <3>1. o.pc = "sync" /\ n = m /\ ifstate' = ifstate
      BY <2>4, Updated DEF Counting, SyncState, At
    <3> HIDE DEF c, e, t
    <3>2. m.cmd = o.cmd  BY <2>2 DEF Memory
    <3>3. InOrder(ifstate, ph) /\ Within(ph, ph)
      BY <3>1 DEF Counting, CountsOK, Within
    <3> QED  BY <1>1, <2>1, <3>1, <3>2, <3>3
  <2>5. CASE OpenStateFile(self)
    <3>1. ifstate' = << >> \/ n = Idle
      BY <2>5, Updated DEF Counting, OpenStateFile
    <3>2. Idle.pc = "idle"  BY DEF Idle, Fresh
    <3>3. AllDown \in kinds /\ \A i \in Iface : AllDown[i] = "down"
      BY IfaceAssumption DEF AllDown
    <3>4. InOrder(<< >>, AllDown)  BY <3>3, EmptyInOrder
    <3>5. Within(AllDown, qh)  BY <3>3 DEF Within
    <3>6. ifstate' = << >>  BY <1>3, <3>1, <3>2
    <3> DEFINE e == << >>
    <3> HIDE DEF e
    <3>7. Fallback(n, e, qh)  BY <3>3, <3>4, <3>5 DEF Fallback, e
    <3> QED  BY <3>6, <3>7 DEF e
  <2>6. CASE ~SyncState(self) /\ ~OpenStateFile(self)
    <3>1. ifstate' = ifstate
      BY <2>3, <2>6 DEF Work, PassOver, UnknownInterface, AcquireLock, SkipInterface,
            ChangeInterface, SkipBrokenDependent, ChangeDependent, DependentsDone,
            RunPhase, ReturnFromRun, FinishInterface, NoMoreTargets
    <3>2. n.cmd = o.cmd
      <4>1. Stays(n, o)  BY <2>3, <2>6, WorkStays DEF Counting
      <4>2. Idle.pc = "idle"  BY DEF Idle, Fresh
      <4> QED  BY <1>3, <4>1, <4>2 DEF Stays
    <3>3. CASE ~n.cmd.up
      <4> DEFINE file == ifstate'
      <4> HIDE DEF file
      <4>1. Fallback(n, file, qh)  BY <3>3 DEF Fallback
      <4> QED  BY <4>1 DEF file
    <3>4. CASE n.cmd.up
      <4>1. PICK oh : InOrder(ifstate, oh) /\ Within(oh, ph) /\ oh \in kinds
        BY <3>2, <3>4 DEF Fallback
      <4> QED  BY <2>1, <3>1, <3>2, <4>1
    <3> QED  BY <3>3, <3>4
  <2> QED  BY <2>4, <2>5, <2>6
<1> QED  BY <1>2, <1>3

\* An activation that an ifdown has begun leaves its interface not up: the stack
\* after a step has one activation advanced, a new one, or one less.
LEMMA WorkBegun ==
    ASSUME NEW self, NEW ph, Counting(self, ph), Begun(mem[self], phys), Work(self)
    PROVE  Begun(mem'[self], phys')
<1> DEFINE o == mem[self]
           n == mem'[self]
           kernel == phys'
<1>0. o \in Memory /\ DataOK(o) /\ GoodMemory(o)  BY Before DEF Counting
<1> SUFFICES ASSUME n.pc = "run", ~n.cmd.up, ~n.cmd.mock,
                    NEW j \in DOMAIN n.stack, n.stack[j].at > 1
             PROVE  kernel[n.stack[j].iface] # "up"
  BY DEF Begun
<1>1. Recursing(self)
  <2>1. WriteOK(o)  BY DEF Counting, OptionsInv, OptionsOK
  <2> QED  BY <2>1, NotRecursing DEF Counting
<1>2. o.pc \in {"locked", "run"} /\ n.cmd = o.cmd
  <2>1. o.pc \in {"locked", "run"}
    BY <1>1 DEF Recursing, At, ChangeInterface, SkipBrokenDependent, ChangeDependent,
       AtDependent, DependentsDone, RunPhase, ReturnFromRun
  <2>2. ~ReadLine(self) /\ ~QueryDependents(self) /\ ~SyncState(self)
    BY <2>1 DEF At, ReadLine, QueryDependents, SyncState
  <2>3. Stays(n, o)  BY <2>2, WorkStays DEF Counting
  <2>4. Idle.pc = "idle"  BY DEF Idle, Fresh
  <2> QED  BY <2>1, <2>3, <2>4 DEF Stays
<1>3. ~o.cmd.up /\ ~o.cmd.mock  BY <1>2
<1>4. \A m \in Memory : Fail(m).pc # "run"  BY ExitOptions
<1>5. CASE ChangeInterface(self)
  <2> DEFINE i == o.target.iface
             k == o.target.key
             f == [iface |-> i, key |-> k, at |-> 1, next |-> 1]
             m == Call(o, k, i)
  <2>1. o.pc = "locked" /\ (n = m \/ n = Fail(o))
    BY <1>5, Updated DEF Counting, ChangeInterface, At
  <2>2. n = m
    <3>1. Fail(o).pc # "run"  BY <1>0, <1>4
    <3> QED  BY <2>1, <3>1
  <2>3. o.stack = << >>  BY <1>0, <2>1 DEF GoodMemory, ControlOK
  <2>4. m.stack = Append(o.stack, f)  BY <1>0 DEF Call, Memory
  <2>5. f.at = 1  OBVIOUS
  <2> HIDE DEF m, f
  <2>6. DOMAIN m.stack = {1} /\ m.stack[1] = f  BY <2>3, <2>4
  <2> QED  BY <2>2, <2>5, <2>6
<1>6. CASE ~ChangeInterface(self)
  <2> DEFINE s == o.stack
             l == Len(s)
             f == s[l]
  <2>1. o.pc = "run"
    BY <1>1, <1>6 DEF Recursing, At, SkipBrokenDependent, ChangeDependent, AtDependent,
       DependentsDone, RunPhase, ReturnFromRun
  <2>2. /\ l \in Nat \ {0} /\ DOMAIN s = 1 .. l /\ s # << >> /\ s \in Seq(Frame)
        /\ Top(o) = f /\ f \in Frame /\ f.iface \in Iface /\ f.key = f.iface
        /\ Shape(o.cmd.up, s, ph, o.refcount)
    BY <1>3, <2>1, AtRun
  <2>3. \A a \in DOMAIN s : s[a].at > 1 => phys[s[a].iface] # "up"
    BY <1>3, <2>1 DEF Begun
  <2>4. CASE ChangeDependent(self)
    <3> DEFINE d == Dependent(o)
               c == UnrefIf(o, d, d)
               e == NextDependent(c)
               r == Call(e, d, d)
    <3>1. n = e \/ n = Fail(c) \/ n = r
      BY <1>3, <2>4, Updated DEF Counting, ChangeDependent
    <3>2. kernel = phys  BY <2>4 DEF ChangeDependent
    <3>3. d \in Iface /\ d \in Key
      <4>1. Top(o).next <= Len(Requires[Top(o).iface])
        BY <2>4 DEF ChangeDependent, AtDependent
      <4> QED  BY <1>0, <2>1, <4>1, DependentType, IfaceAssumption
    <3>4. DataOK(c) /\ SameControl(c, o)  BY <1>0, <3>3, UnrefIfData
    <3> HIDE DEF c, d, kernel
    <3>5. c \in Memory /\ c.stack = s /\ Top(c) = f
      BY <2>2, <3>4 DEF DataOK, SameControl, Top
    <3>6. Fail(c).pc # "run"  BY <1>4, <3>5
    <3>7. /\ e \in Memory /\ e.stack \in Seq(Frame) /\ Len(e.stack) = l
          /\ \A a \in 1 .. l - 1 : e.stack[a] = s[a]
          /\ e.stack[l].iface = f.iface /\ e.stack[l].at = f.at
      BY <2>2, <3>5, NextDependentStack
    <3> HIDE DEF e
    <3> DEFINE t == e.stack
    <3> HIDE DEF t
    <3>8. /\ t \in Seq(Frame) /\ Len(t) = l /\ DOMAIN t = 1 .. l
          /\ \A a \in 1 .. l : t[a].iface = s[a].iface /\ t[a].at = s[a].at
      <4>1. DOMAIN t = 1 .. l  BY <3>7, LenProperties DEF t
      <4>2. \A a \in 1 .. l : a = l \/ a \in 1 .. l - 1  BY <2>2
      <4> QED  BY <3>7, <4>1, <4>2 DEF t
    <3>9. CASE n = e
      <4>1. j \in DOMAIN t /\ n.stack = t  BY <3>9 DEF t
      <4> QED  BY <2>2, <2>3, <3>2, <3>8, <4>1
    <3>10. CASE n = r
      <4>1. r.stack = Append(t, NewFrame(d))  BY <3>3, <3>7, CallStack DEF t
      <4>2. NewFrame(d).at = 1 /\ NewFrame(d) \in Frame
        BY <3>3 DEF NewFrame, Frame
      <4> HIDE DEF r
      <4> DEFINE g == NewFrame(d)
      <4> HIDE DEF g
      <4>3. /\ DOMAIN Append(t, g) = 1 .. l + 1 /\ Append(t, g)[l + 1] = g
            /\ \A a \in 1 .. l : Append(t, g)[a] = t[a]
        <5>1. g \in Frame  BY <4>2 DEF g
        <5> QED  BY <2>2, <3>8, <5>1, AppendProperties
      <4>4. j \in 1 .. l + 1 /\ n.stack = Append(t, g)  BY <3>10, <4>1, <4>3 DEF g
      <4>5. j # l + 1  BY <4>2, <4>3, <4>4 DEF g
      <4>6. j \in 1 .. l  BY <2>2, <4>4, <4>5
      <4>7. n.stack[j] = t[j]  BY <4>3, <4>4, <4>6
      <4>8. s[j].at > 1 /\ n.stack[j].iface = s[j].iface /\ j \in DOMAIN s
        BY <2>2, <3>8, <4>6, <4>7
      <4> QED  BY <2>3, <3>2, <4>8
    <3> QED  BY <3>1, <3>6, <3>9, <3>10
  <2>5. CASE DependentsDone(self) \/ RunPhase(self)
    <3> DEFINE r == Advance(o)
               t == r.stack
    <3>1. n = r
      <4>1. n = r \/ n = Fail(o)
        BY <2>5, Updated DEF Counting, DependentsDone, RunPhase
      <4>2. Fail(o).pc # "run"  BY <1>0, <1>4
      <4> QED  BY <4>1, <4>2
    <3>2. Top(o).at \in 1 .. 5 /\ (DependentsDone(self) => Top(o).at = 5)
      <4>1. Stage(o) \notin {"ref", "unref"} /\ (DependentsDone(self) => Stage(o) = "depend")
        BY <2>5 DEF DependentsDone, RunPhase, Phases
      <4> QED  BY <1>0, <1>3, <2>2, <4>1, StageAt
    <3>3. /\ t \in Seq(Frame) /\ Len(t) = l
          /\ \A a \in 1 .. l - 1 : t[a] = s[a]
          /\ t[l].iface = f.iface
      BY <1>0, <2>2, <3>2, AdvanceStack
    <3> HIDE DEF r, t
    <3>4. DOMAIN t = 1 .. l /\ j \in 1 .. l /\ n.stack = t
      <4>1. DOMAIN t = 1 .. l  BY <3>3, LenProperties
      <4> QED  BY <3>1, <4>1 DEF t
    <3>5. CASE j = l
      <4>2. kernel[f.iface] # "up"
        <5>1. CASE DependentsDone(self)
          <6>1. kernel = phys /\ l \in DOMAIN s  BY <2>2, <5>1 DEF DependentsDone
          <6>2. f.at > 1  BY <2>2, <3>2, <5>1
          <6> QED  BY <2>3, <6>1, <6>2
        <5>2. CASE RunPhase(self)
          <6>1. PICK good \in BOOLEAN :
                  phys' = [phys EXCEPT ![f.key] = PhaseEffect(o, good)]
            BY <2>2, <5>2 DEF RunPhase
          <6>2. PhaseEffect(o, good) # "up"
            <7>1. Stage(o) # "post-up"  BY <1>0, <1>3, <2>2, StageAt
            <7> QED  BY <1>3, <7>1 DEF PhaseEffect
          <6>3. kernel[f.iface] = PhaseEffect(o, good)
            BY <2>2, <6>1, Before, IfaceAssumption DEF Counting
          <6> QED  BY <6>2, <6>3
        <5> QED  BY <2>5, <5>1, <5>2
      <4> QED  BY <3>3, <3>4, <3>5, <4>2
    <3>6. CASE j # l
      <4>1. j \in 1 .. l - 1 /\ j \in DOMAIN s  BY <2>2, <3>4, <3>6
      <4>2. n.stack[j] = s[j]  BY <3>3, <3>4, <4>1
      <4>3. phys[s[j].iface] # "up"  BY <2>3, <4>1, <4>2
      <4>4. s[j].iface # f.iface
        <5>1. l \in DOMAIN s  BY <2>2
        <5> QED  BY <2>2, <3>6, <4>1, <5>1 DEF Shape
      <4>5. kernel[s[j].iface] = phys[s[j].iface]
        <5>1. CASE DependentsDone(self)  BY <5>1 DEF DependentsDone
        <5>2. CASE RunPhase(self)
          <6>1. PICK good \in BOOLEAN :
                  phys' = [phys EXCEPT ![f.key] = PhaseEffect(o, good)]
            BY <2>2, <5>2 DEF RunPhase
          <6>2. s[j].iface \in Key
            <7>1. s[j] \in Frame  BY <2>2, <4>1, ElementOfSeq
            <7> QED  BY <7>1, IfaceAssumption DEF Frame
          <6> QED  BY <2>2, <4>4, <6>1, <6>2, Before DEF Counting
        <5> QED  BY <2>5, <5>1, <5>2
      <4> QED  BY <4>2, <4>3, <4>5
    <3> QED  BY <3>5, <3>6
  <2>6. CASE ReturnFromRun(self)
    <3> DEFINE c == Counted(o)
               t == Front(s)
               pc == IF Len(o.stack) = 1 THEN "finish" ELSE c.pc
               r == [c EXCEPT !.stack = t, !.pc = pc]
    <3>1. DataOK(c) /\ SameControl(c, o)  BY <1>0, <2>1, <2>2, ReturnEffect
    <3>2. n = r /\ kernel = phys
      <4>1. n = Return(o) /\ kernel = phys  BY <2>6, Updated DEF Counting, ReturnFromRun
      <4>2. c.pc = o.pc /\ c.stack = o.stack  BY <3>1 DEF SameControl
      <4>3. Return(o) = r  BY <4>2 DEF Return, Counted
      <4> QED  BY <4>1, <4>3
    <3> HIDE DEF c, t, pc, kernel
    <3>3. r.stack = t  BY <3>1 DEF DataOK, Memory
    <3> HIDE DEF r
    <3>4. /\ DOMAIN t = 1 .. l - 1 /\ \A a \in 1 .. l - 1 : t[a] = s[a]
      <4>1. \A a \in 1 .. l - 1 : s[a] \in Frame  BY <2>2, ElementOfSeq
      <4> QED  BY <2>2, <4>1, SubSeqProperties DEF Front, t
    <3>5. j \in DOMAIN s /\ n.stack[j] = s[j]  BY <2>2, <3>2, <3>3, <3>4
    <3> QED  BY <2>3, <3>2, <3>5
  <2>7. ~SkipBrokenDependent(self)  BY <1>3, NoBrokenDependent
  <2> QED
    BY <1>1, <1>6, <2>4, <2>5, <2>6, <2>7 DEF Recursing
<1> QED  BY <1>5, <1>6

-----------------------------------------------------------------------------
(* The invariant of all processes.                                         *)

\* The invariant holds before the first command: nothing is up and nothing counted.
LEMMA CountsInit == Undisturbed /\ Init => CountsInv
<1> SUFFICES ASSUME Undisturbed, Init  PROVE CountsInv
  OBVIOUS
<1>1. OptionsInv /\ OwnInv  BY OptionsInit, OwnInit DEF Undisturbed
<1>2. ifstate = << >> /\ \A i \in Iface : phys[i] = "down"
  BY IfaceAssumption DEF Init
<1>3. InOrder(ifstate, phys) /\ OnlyUsable(phys)  BY <1>2, EmptyInOrder
<1>4. Knows(phys, phys)  BY DEF Init, Knows, Within
<1>5. \A p \in Proc : CountsOK(mem[p], ifstate, phys)  BY <1>3, IdleCounts DEF Init
<1>6. \A p \in Proc : Fallback(mem[p], ifstate, phys)  BY <1>3, <1>4 DEF Fallback, Knows, Within
<1>7. \A p \in Proc : Begun(mem[p], phys)  BY DEF Init, Begun, Idle, Fresh
<1> QED  BY <1>1, <1>4, <1>5, <1>6, <1>7 DEF CountsInv

\* A command starts: nothing has changed yet.
LEMMA StartStep ==
    ASSUME NEW self, NEW ph, Counting(self, ph), Start(self)
    PROVE  /\ CountsOK(mem'[self], ifstate, ph) /\ Fallback(mem'[self], ifstate, ph)
           /\ Begun(mem'[self], phys)
<1>1. CountsOK(mem'[self], ifstate, ph)  BY StartCounts
<1>2. mem'[self].pc = "read"
  <2>1. PICK c \in Commands : mem'[self] = Fresh("read", c, ifstate)
    BY Updated DEF Start, Counting
  <2> QED  BY <2>1 DEF Fresh
<1>3. InOrder(ifstate, ph) /\ Within(ph, ph) /\ ph \in [Key -> {"down", "partial", "up"}]
  BY <1>1, <1>2 DEF CountsOK, Within, Counting, Knows
<1> QED  BY <1>1, <1>2, <1>3 DEF Fallback, Begun

\* An ifup is killed: the file counts what it counted, or nothing.
LEMMA CrashStep ==
    ASSUME NEW self, NEW ph, Counting(self, ph), Fallback(mem[self], ifstate, ph), Crash(self)
    PROVE  /\ \E qh : /\ Knows(qh, phys) /\ CountsOK(mem'[self], ifstate, qh)
                      /\ Fallback(mem'[self], ifstate, qh)
           /\ Begun(mem'[self], phys)
<1>1. mem'[self] = Idle /\ mem[self].cmd.up \in Killable /\ MaxCrashes # 0
  BY Updated, Before, CommandAssumption DEF Counting, Crash
<1>2. mem[self].cmd.up
  <2>1. FALSE \notin Killable  BY <1>1 DEF Counting, Undisturbed
  <2>2. mem[self].cmd.up \in BOOLEAN  BY Before DEF Counting, Memory, Command
  <2> QED  BY <1>1, <2>1, <2>2
<1>3. PICK oh : /\ InOrder(ifstate, oh) /\ Within(oh, ph)
                /\ oh \in [Key -> {"down", "partial", "up"}]
  BY <1>2 DEF Fallback
<1>4. Knows(oh, phys)  BY <1>1, <1>3 DEF Counting, Knows, Within
<1>5. OnlyUsable(oh)  BY <1>3 DEF Counting, CountsOK, OnlyUsable, Within
<1>6. CountsOK(Idle, ifstate, oh)  BY <1>3, <1>5, IdleCounts
<1>7. Fallback(Idle, ifstate, oh)  BY <1>3 DEF Fallback, Within
<1>8. Begun(Idle, phys)  BY DEF Begun, Idle, Fresh
<1> QED  BY <1>1, <1>4, <1>6, <1>7, <1>8

\* Every step preserves the invariant.
LEMMA CountsStep ==
    ASSUME CountsInv, NEW self \in Proc, Start(self) \/ Work(self) \/ Crash(self)
    PROVE  CountsInv'
<1>1. PICK ph : /\ Knows(ph, phys)
                /\ \A p \in Proc : CountsOK(mem[p], ifstate, ph) /\ Fallback(mem[p], ifstate, ph)
  BY DEF CountsInv
<1>2. Counting(self, ph) /\ Fallback(mem[self], ifstate, ph) /\ Begun(mem[self], phys)
  BY <1>1 DEF CountsInv, Counting, OptionsInv
<1>3. OptionsInv' /\ OwnInv'  BY <1>2, OptionsStep, OwnStep DEF Counting
<1>4. \A p \in Proc : p = self  BY DEF CountsInv, Undisturbed
<1> DEFINE file == ifstate'
           kernel == phys'
           n == mem'[self]
<1>5. /\ \E qh : Knows(qh, kernel) /\ CountsOK(n, file, qh) /\ Fallback(n, file, qh)
      /\ Begun(n, kernel)
  <2>1. CASE Start(self)
    <3>1. file = ifstate /\ kernel = phys  BY <2>1 DEF Start
    <3> QED  BY <1>1, <1>2, <2>1, <3>1, StartStep
  <2>2. CASE Work(self)
    <3>1. PICK qh : /\ Knows(qh, phys') /\ CountsOK(mem'[self], ifstate', qh)
                    /\ mem[self].cmd.up => Within(ph, qh)
      BY <1>2, <2>2, WorkCounts
    <3>2. Fallback(mem'[self], ifstate', qh)  BY <1>2, <2>2, <3>1, WorkFallback
    <3>3. Begun(mem'[self], phys')  BY <1>2, <2>2, WorkBegun
    <3> QED  BY <3>1, <3>2, <3>3
  <2>3. CASE Crash(self)
    <3>1. file = ifstate /\ kernel = phys  BY <2>3 DEF Crash
    <3> QED  BY <1>2, <2>3, <3>1, CrashStep
  <2> QED  BY <2>1, <2>2, <2>3
<1>6. Undisturbed  BY DEF CountsInv
<1> QED  BY <1>3, <1>4, <1>5, <1>6 DEF CountsInv, Undisturbed

\* Stuttering and the end of all commands preserve it as well.
LEMMA CountsKept == CountsInv /\ [Next]_vars => CountsInv'
<1> SUFFICES ASSUME CountsInv, [Next]_vars  PROVE CountsInv'
  OBVIOUS
<1>1. ASSUME UNCHANGED vars  PROVE CountsInv'
  <2>1. OptionsInv' /\ OwnInv'
    BY <1>1, NextInv DEF vars, CountsInv, OptionsInv, OwnInv
  <2> QED  BY <1>1, <2>1 DEF vars, CountsInv, Undisturbed
<1>2. CASE Rest  BY <1>1, <1>2 DEF Rest
<1> QED  BY <1>1, <1>2, CountsStep DEF Next

\* The invariant holds in every state of every undisturbed behaviour.
LEMMA CountsInvariance == Undisturbed /\ Spec => []CountsInv
  BY CountsInit, CountsKept, PTL DEF Spec

-----------------------------------------------------------------------------
(* What the counts are good for.                                           *)

\* At rest the file records the references held in a view of the kernel's interfaces.
LEMMA RestingCounts ==
    ASSUME CountsInv, Quiet
    PROVE  \E ph : /\ Knows(ph, phys)
                   /\ \A i \in Iface :
                        Recorded(i) = Cardinality({r \in Iface : /\ ph[r] = "up"
                                                                 /\ i \in ToSet(Requires[r])})
                                      + IF ph[i] = "up" THEN 1 ELSE 0
<1>1. PICK ph : Knows(ph, phys) /\ \A p \in Proc : CountsOK(mem[p], ifstate, ph)
  BY DEF CountsInv
<1>2. InOrder(ifstate, ph)
  <2>1. PICK p \in Proc : TRUE  BY DEF CountsInv, Undisturbed
  <2> QED  BY <1>1, <2>1 DEF CountsOK, Quiet, At
<1> SUFFICES ASSUME NEW i \in Iface
             PROVE  Recorded(i) = Cardinality({r \in Iface : /\ ph[r] = "up"
                                                             /\ i \in ToSet(Requires[r])})
                                  + IF ph[i] = "up" THEN 1 ELSE 0
  BY <1>1
<1> DEFINE e == << >>
<1>3. OnStack(e) = {} /\ DOMAIN e = {}  BY DEF OnStack
<1> HIDE DEF e
<1>4. RecordedIn(ifstate)[i]
        = Cardinality(Holders(TRUE, e, ph, i)) + Itself(TRUE, e, ph, i)
  BY <1>2 DEF InOrder, Books, Exact, ExactFor, e
<1>5. Holders(TRUE, e, ph, i) = {r \in Iface : ph[r] = "up" /\ i \in ToSet(Requires[r])}
  BY <1>3 DEF Holders
<1>6. Itself(TRUE, e, ph, i) = IF ph[i] = "up" THEN 1 ELSE 0  BY <1>3 DEF Itself
<1>7. RecordedIn(ifstate)[i] = Recorded(i)  BY DEF RecordedIn, Recorded
<1> QED  BY <1>4, <1>5, <1>6, <1>7

\* Whatever ifup and ifdown have run, with dependency cycles going up and nobody killed,
\* at rest the state file counts one for an interface that is up and one for each that
\* requires it.
THEOREM CountsAreExact == Undisturbed /\ MaxCrashes = 0 /\ Spec => []RefcountExact
<1> SUFFICES ASSUME MaxCrashes = 0  PROVE Undisturbed /\ Spec => []RefcountExact
  OBVIOUS
<1>1. ASSUME CountsInv PROVE RefcountExact
  <2> SUFFICES ASSUME Quiet, NEW i \in Iface  PROVE Recorded(i) = Owed(i)
    BY DEF RefcountExact
  <2>1. PICK ph : /\ Knows(ph, phys)
                  /\ \A k \in Iface :
                       Recorded(k) = Cardinality({r \in Iface : /\ ph[r] = "up"
                                                                /\ k \in ToSet(Requires[r])})
                                     + IF ph[k] = "up" THEN 1 ELSE 0
    BY <1>1, RestingCounts
  <2>2. \A k \in Iface : ph[k] = "up" <=> phys[k] = "up"
    BY <2>1 DEF Knows, Within
  <2>3. {r \in Iface : ph[r] = "up" /\ i \in ToSet(Requires[r])} = Requirers(i)
    BY <2>2 DEF Requirers
  <2> QED  BY <2>1, <2>2, <2>3 DEF Owed
<1> QED  BY <1>1, CountsInvariance, PTL

\* If an ifup is killed at any point, even between the truncation of the file and the
\* write, and whatever runs after it, the state file never counts more than what is up.
THEOREM CountsAreNeverOver == Undisturbed /\ Spec => []RefcountNeverOver
<1>1. ASSUME CountsInv PROVE RefcountNeverOver
  <2> SUFFICES ASSUME Quiet, NEW i \in Iface  PROVE Recorded(i) <= Owed(i)
    BY DEF RefcountNeverOver
  <2>1. PICK ph : /\ Knows(ph, phys)
                  /\ \A k \in Iface :
                       Recorded(k) = Cardinality({r \in Iface : /\ ph[r] = "up"
                                                                /\ k \in ToSet(Requires[r])})
                                     + IF ph[k] = "up" THEN 1 ELSE 0
    BY <1>1, RestingCounts
  <2> DEFINE H == {r \in Iface : ph[r] = "up" /\ i \in ToSet(Requires[r])}
             R == Requirers(i)
  <2>2. \A k \in Iface : ph[k] = "up" => phys[k] = "up"  BY <2>1 DEF Knows, Within
  <2>3. H \subseteq R /\ R \subseteq Iface  BY <2>2 DEF Requirers
  <2>4. Recorded(i) = Cardinality(H) + IF ph[i] = "up" THEN 1 ELSE 0  BY <2>1
  <2>5. Owed(i) = Cardinality(R) + IF phys[i] = "up" THEN 1 ELSE 0  BY DEF Owed
  <2> HIDE DEF H, R
  <2>6. IsFiniteSet(R)  BY <1>1, <2>3, FS_Subset DEF CountsInv, Undisturbed
  <2>7. IsFiniteSet(H) /\ Cardinality(H) <= Cardinality(R)  BY <2>3, <2>6, FS_Subset
  <2>8. Cardinality(H) \in Nat /\ Cardinality(R) \in Nat  BY <2>6, <2>7, FS_CardinalityType
  <2> DEFINE h == Cardinality(H)
             c == Cardinality(R)
  <2> HIDE DEF h, c
  <2>9. h \in Nat /\ c \in Nat /\ h <= c  BY <2>7, <2>8 DEF h, c
  <2>10. Recorded(i) = h + (IF ph[i] = "up" THEN 1 ELSE 0)
         /\ Owed(i) = c + (IF phys[i] = "up" THEN 1 ELSE 0)
    BY <2>4, <2>5 DEF h, c
  <2> QED  BY <2>2, <2>9, <2>10
<1> QED  BY <1>1, CountsInvariance, PTL

\* No phase of an ifdown runs on an interface while another one requires it that is up
\* and recorded, whether it is named, a dependent or one of -a.
THEOREM NothingRequiredGoesDown == Undisturbed /\ Spec => []NoTeardownWhileRequired
<1>1. ASSUME CountsInv PROVE NoTeardownWhileRequired
  <2> SUFFICES ASSUME NEW p \in Proc, TearsDown(mem[p]),
                      NEW r \in Requirers(Top(mem[p]).iface), HasRecord(mem[p].state, r)
               PROVE  FALSE
    BY DEF NoTeardownWhileRequired
  <2> DEFINE m == mem[p]
             s == m.stack
             l == Len(s)
             i == Top(m).iface
             R == Requires[r]
  <2>1. PICK ph : Counting(p, ph)  BY <1>1 DEF CountsInv, Counting, OptionsInv
  <2>2. m.pc = "run" /\ ~m.cmd.mock /\ ~m.cmd.up /\ Begun(m, phys)
    BY <1>1 DEF CountsInv, TearsDown
  <2>3. /\ Books(m.cmd.up, s, ph, m.refcount) /\ l \in Nat \ {0} /\ DOMAIN s = 1 .. l
        /\ Top(m) = s[l] /\ s \in Seq(Frame) /\ i \in Iface
    BY <2>1, <2>2, AtRun
  <2>4. r \in Iface /\ phys[r] = "up" /\ i \in ToSet(R)  BY DEF Requirers
  <2>5. \A n \in DOMAIN s : FrameOK(m.cmd.up, s, ph, s[n])
    BY <2>3 DEF Books, FramesOK
  <2>6. Holders(m.cmd.up, s, ph, i) = {}
    <3>1. l \in DOMAIN s  BY <2>3
    <3> QED  BY <2>2, <2>3, <2>5, <3>1 DEF FrameOK
  <2>7. ph[r] = "up" \/ r \in OnStack(s)
    <3>1. m.refcount[r] # 0
      BY <2>1, <2>2, <2>4, AtBooks DEF Synced, Agree
    <3> DEFINE H == Holders(m.cmd.up, s, ph, r)
               e == Itself(m.cmd.up, s, ph, r)
    <3>2. CASE H # {}
      <4>1. HeldFor(m.cmd.up, s, ph, r)  BY <2>3, <2>4 DEF Books
      <4> QED  BY <2>2, <3>2, <4>1 DEF HeldFor
    <3>3. CASE H = {}
      <4>1. Cardinality(H) = 0 /\ e \in {0, 1}  BY <3>3, FS_EmptySet, ItselfType
      <4>2. m.refcount[r] = Cardinality(H) + e  BY <2>3, <2>4 DEF Books, Exact, ExactFor
      <4> DEFINE h == Cardinality(H)
      <4> HIDE DEF H, e, h
      <4>3. h = 0 /\ m.refcount[r] = h + e  BY <4>1, <4>2 DEF h
      <4>4. e = 1  BY <3>1, <4>1, <4>3
      <4> QED  BY <2>2, <4>4 DEF e, Itself
    <3> QED  BY <3>2, <3>3
  <2>8. r \in Holders(m.cmd.up, s, ph, i)
    <3>1. CASE r \notin OnStack(s)  BY <2>4, <2>7, <3>1 DEF Holders
    <3>2. CASE r \in OnStack(s)
      <4>1. PICK n \in DOMAIN s : s[n].iface = r  BY <3>2 DEF OnStack
      <4>2. s[n].at = 1
        <5>1. ~(s[n].at > 1)  BY <2>2, <2>4, <4>1 DEF Begun
        <5>2. s[n].at \in 1 .. 6
          <6>1. s[n] \in Frame  BY <2>3, <4>1, ElementOfSeq
          <6> QED  BY <6>1 DEF Frame
        <5> QED  BY <5>1, <5>2
      <4>3. s[n].next = 1
        <5>1. s[n].at < 5 => s[n].next = 1  BY <2>2, <2>5, <4>1 DEF FrameOK
        <5> QED  BY <4>2, <5>1
      <4>4. PICK j \in DOMAIN R : R[j] = i  BY <2>4 DEF ToSet
      <4>5. j \in Nat \ {0}
        <5>1. DOMAIN R = 1 .. Len(R)  BY <2>4, RequiresType
        <5> QED  BY <4>4, <5>1
      <4>6. ~(j < s[n].next)  BY <4>3, <4>5
      <4>7. Keeps(m.cmd.up, s[n], i)  BY <2>2, <4>1, <4>4, <4>6 DEF Keeps
      <4> QED  BY <2>4, <4>1, <4>7 DEF Holders
    <3> QED  BY <3>1, <3>2
  <2> QED  BY <2>6, <2>8
<1> QED  BY <1>1, CountsInvariance, PTL

\* An ifup runs its phases on an interface when all it requires is up, but for what
\* waits for it in a dependency cycle.
THEOREM RequiredComesFirst == Undisturbed /\ Spec => []RequiredUpFirst
<1>1. ASSUME CountsInv PROVE RequiredUpFirst
  <2> SUFFICES ASSUME NEW p \in Proc, mem[p].pc = "run", mem[p].cmd.up, ~mem[p].cmd.mock,
                      Stage(mem[p]) # "depend", NEW d \in ToSet(Requires[Top(mem[p]).iface]),
                      d \notin mem[p].pending, d # Top(mem[p]).iface
               PROVE  phys[d] = "up"
    BY DEF RequiredUpFirst
  <2> DEFINE m == mem[p]
             s == m.stack
             l == Len(s)
             f == s[l]
             R == Requires[f.iface]
  <2>1. PICK ph : Counting(p, ph)  BY <1>1 DEF CountsInv, Counting, OptionsInv
  <2>2. /\ Books(m.cmd.up, s, ph, m.refcount) /\ l \in Nat \ {0} /\ DOMAIN s = 1 .. l
        /\ Top(m) = f /\ s # << >> /\ f \in Frame /\ f.iface \in Iface
    BY <2>1, AtRun
  <2>3. m \in Memory /\ GoodMemory(m)  BY <2>1, AtBooks DEF Synced
  <2>4. l \in DOMAIN s  BY <2>2
  <2>5. f.at \in 1 .. 6 /\ f.at # 1  BY <2>2, <2>3, StageAt
  <2>6. f.next > Len(R)
    <3>1. FrameOK(m.cmd.up, s, ph, f)  BY <2>2, <2>4 DEF Books, FramesOK
    <3>2. f.at > 1  BY <2>5
    <3> QED  BY <3>1, <3>2 DEF FrameOK
  <2>7. d \in Iface /\ \E j \in DOMAIN R : R[j] = d /\ j < f.next
    <3>1. Len(R) \in Nat /\ DOMAIN R = 1 .. Len(R) /\ \A n \in 1 .. Len(R) : R[n] \in Iface
      BY <2>2, RequiresType
    <3>2. PICK j \in DOMAIN R : R[j] = d  BY <2>2 DEF ToSet
    <3>3. j \in Nat /\ j <= Len(R) /\ R[j] \in Iface
      <4> HIDE DEF R
      <4>1. j \in 1 .. Len(R)  BY <3>1, <3>2
      <4> QED  BY <3>1, <4>1
    <3>4. f.next \in Nat
      <4>1. f \in Frame  BY <2>2
      <4> QED  BY <4>1 DEF Frame
    <3> HIDE DEF R, f
    <3>5. j < f.next  BY <2>6, <3>1, <3>3, <3>4
    <3> QED  BY <3>2, <3>3, <3>5
  <2>8. f.iface \in Holders(m.cmd.up, s, ph, d)
    <3>1. Keeps(m.cmd.up, f, d)  BY <2>7 DEF Keeps
    <3> QED  BY <2>2, <2>4, <3>1 DEF Holders
  <2>9. ph[d] = "up" \/ d \in OnStack(s)
    BY <2>2, <2>7, <2>8 DEF Books, HeldFor
  <2>10. d \notin OnStack(s)
    <3> SUFFICES ASSUME NEW n \in 1 .. l, s[n].iface = d  PROVE FALSE
      BY <2>2 DEF OnStack
    <3>1. n # l  BY <2>2
    <3>2. n \in 1 .. l - 1  BY <2>2, <3>1
    <3>3. Stages(m)[s[n].at] = "depend" /\ MarksActive(m)
      BY <2>3, <3>2 DEF GoodMemory, ControlOK
    <3>4. n \in InDependents(m)  BY <2>2, <3>3 DEF InDependents
    <3> QED  BY <3>3, <3>4 DEF MarksActive
  <2>11. ph[d] = "up" => phys[d] = "up"  BY <2>1, <2>7 DEF Counting, Knows, Within
  <2> QED  BY <2>9, <2>10, <2>11
<1> QED  BY <1>1, CountsInvariance, PTL

-----------------------------------------------------------------------------
(* What the arguments of a command leave to do.                            *)

\* The stanzas of a list of arguments.
Keys(list) == {list[n].key : n \in DOMAIN list}

\* The stanzas that a process is not done with.
Undone(m) == Keys(m.todo) \cup AtWork(m)

\* The loops over the arguments take the first one off.
LEMMA KeysOfTail ==
    ASSUME NEW list \in Seq(Argument), list # << >>
    PROVE  Keys(list) = {Head(list).key} \cup Keys(Tail(list))
<1> DEFINE t == Tail(list)
<1>1. /\ Head(list) = list[1] /\ 1 \in DOMAIN list
      /\ \A n \in DOMAIN t : n + 1 \in DOMAIN list /\ t[n] = list[n + 1]
  BY TailOwn
<1>2. Len(list) \in Nat \ {0} /\ DOMAIN list = 1 .. Len(list)  BY EmptySeq, LenProperties
<1>3. DOMAIN t = 1 .. Len(list) - 1
  <2>1. t \in Seq(Argument) /\ Len(t) = Len(list) - 1  BY HeadTailProperties
  <2> QED  BY <2>1, LenProperties
<1> HIDE DEF t
<1>4. ASSUME NEW n \in DOMAIN list  PROVE list[n].key \in {Head(list).key} \cup Keys(t)
  <2>1. CASE n = 1  BY <1>1, <2>1
  <2>2. CASE n # 1
    <3>1. n - 1 \in DOMAIN t /\ (n - 1) + 1 = n  BY <1>2, <1>3, <2>2
    <3>2. t[n - 1] = list[n]  BY <1>1, <3>1
    <3> QED  BY <3>1, <3>2 DEF Keys
  <2> QED  BY <2>1, <2>2
<1>5. Keys(list) \subseteq {Head(list).key} \cup Keys(t)  BY <1>4 DEF Keys
<1>6. {Head(list).key} \cup Keys(t) \subseteq Keys(list)  BY <1>1 DEF Keys
<1> QED  BY <1>5, <1>6 DEF t

-----------------------------------------------------------------------------
(* What a command that exits with success leaves in the state file.  For   *)
(* this nothing has to succeed: phases, lookups, locks and the write of    *)
(* the state file may fail, processes are killed, the requires lists have  *)
(* cycles, repetitions and broken stanzas, and --force is used.            *)

\* One process at a time runs commands.
Alone == \A p, q \in Proc : p = q

\* The stanza at hand: going up until change_interface has marked it, going down
\* while its phases are under way, as a dependent too.
AtHand(m) ==
    {k \in Key :
        IF m.cmd.up THEN m.pc \in HoldingState /\ k = m.target.key
        ELSE \/ m.pc = "locked" /\ k = m.target.key
             \/ m.pc = "run" /\ Top(m).at \in 1 .. 4 /\ k = Top(m).key}

ToDo(m) == Keys(m.todo) \cup AtHand(m)

\* What the command wants of stanza k holds in memory m and of the interfaces ph.
Reached(m, ph, k) ==
    IF m.cmd.up THEN m.refcount[k] > 0 /\ (m.cmd.auto \/ m.explicit[k])
                ELSE m.refcount[k] = 0 \/ ph[k] = "down"

\* A command that has not failed so far has reached all it wants but what is to come.
Honest(m, file, ph) ==
    /\ m.pc \in {"write", "flush"} => m.todo = << >>
    /\ m.pc = "flush" => file = << >>
    /\ Synced(m) /\ m.ok /\ ~m.cmd.mock =>
           \A k \in WantedBy(m.cmd) \ ToDo(m) : k \in Iface /\ Reached(m, ph, k)

HonestInv == /\ Alone /\ OwnInv /\ OptionsInv
             /\ \A p \in Proc : Honest(mem[p], ifstate, phys)

\* A command goes on: what it has reached stays, what it gets done is reached.
LEMMA GoesOn ==
    ASSUME NEW o, NEW file, NEW ph, Honest(o, file, ph), Synced(o),
           NEW r, NEW left, NEW qh, r.cmd = o.cmd, r.ok => o.ok,
           r.pc \in {"write", "flush"} => r.todo = << >>, r.pc = "flush" => left = << >>,
           \A k \in ToDo(o) \ ToDo(r) :
               k \in WantedBy(o.cmd) /\ ~o.cmd.mock /\ r.ok => k \in Iface /\ Reached(r, qh, k),
           ~o.cmd.mock => \A i \in Iface \ ToDo(r) : Reached(o, ph, i) => Reached(r, qh, i)
    PROVE  Honest(r, left, qh)
<1>1. ASSUME r.ok, ~r.cmd.mock, NEW k \in WantedBy(r.cmd) \ ToDo(r)
      PROVE  k \in Iface /\ Reached(r, qh, k)
  <2>1. CASE k \in ToDo(o)  BY <1>1, <2>1
  <2>2. CASE k \notin ToDo(o)
    <3>1. k \in Iface /\ Reached(o, ph, k)  BY <1>1, <2>2 DEF Honest
    <3> QED  BY <1>1, <3>1
  <2> QED  BY <2>1, <2>2
<1> QED  BY <1>1 DEF Honest

\* A process that has ended promises nothing.
LEMMA IdleHonest == \A file, ph : Honest(Idle, file, ph)
BY DEF Honest, Idle, Fresh, Synced

\* A command fails, and does not exit with success.
LEMMA FailHonest ==
    ASSUME NEW m \in Memory, NEW file, NEW ph
    PROVE  Honest(Leave(m, FALSE), file, ph) /\ Honest(Fail(m), file, ph)
<1>1. ASSUME NEW n \in Memory  PROVE Honest(Leave(n, FALSE), file, ph)
  <2> DEFINE l == [n EXCEPT !.pc = "write", !.ok = FALSE, !.todo = << >>, !.target = NoTarget]
  <2>1. Leave(n, FALSE) = IF n.cmd.mock THEN Idle ELSE l  BY DEF Leave
  <2>2. l.pc = "write" /\ ~l.ok /\ l.todo = << >>  BY DEF Memory
  <2> HIDE DEF l
  <2>3. Honest(l, file, ph)  BY <2>2 DEF Honest
  <2> QED  BY <2>1, <2>3, IdleHonest
<1>2. Honest(Fail(m), file, ph)
  <2> DEFINE u == Unwound(m)
             v == [u EXCEPT !.pc = "select", !.ok = FALSE, !.target = NoTarget]
  <2>1. Fail(m) = IF m.cmd.auto THEN v ELSE Leave(u, FALSE)  BY DEF Fail
  <2>2. u \in Memory  BY UnwoundData
  <2> HIDE DEF u
  <2>3. ~v.ok /\ v.pc = "select"  BY <2>2 DEF Memory
  <2> HIDE DEF v
  <2>4. Honest(v, file, ph)  BY <2>3 DEF Honest
  <2> QED  BY <1>1, <2>1, <2>2, <2>4
<1> QED  BY <1>1, <1>2

\* Before lif_state_sync a process has only got its command.
LEMMA BeforeHonest ==
    ASSUME IInv, NEW self \in Proc, Start(self) \/ ReadLine(self) \/ QueryDependents(self),
           NEW file, NEW ph
    PROVE  Honest(mem'[self], file, ph)
<1> DEFINE o == mem[self]
<1>1. o \in Memory  BY Before
<1>2. CASE Start(self)
  <2>1. PICK c \in Commands : Update(self, Fresh("read", c, ifstate))  BY <1>2 DEF Start
  <2>2. mem'[self] = Fresh("read", c, ifstate)  BY <2>1, Updated
  <2> QED  BY <2>2 DEF Fresh, Honest, Synced
<1>3. CASE ReadLine(self)
  <2> DEFINE r == [o EXCEPT !.input = Tail(@), !.state = Upsert(@, ParsedLine(Head(o.input)))]
  <2>1. mem'[self] = r /\ o.pc = "read"  BY <1>3, Updated DEF ReadLine, At
  <2>2. r.pc = o.pc  BY <1>1 DEF Memory
  <2> HIDE DEF r
  <2> QED  BY <2>1, <2>2 DEF Honest, Synced
<1>4. CASE QueryDependents(self)
  <2> DEFINE r == [o EXCEPT !.pc = "sync"]
  <2>1. (mem'[self] = r \/ mem'[self] = Idle) /\ o.pc = "read"
    BY <1>4, Updated DEF QueryDependents, At
  <2>2. r.pc = "sync"  BY <1>1 DEF Memory
  <2> HIDE DEF r
  <2>3. Honest(r, file, ph)  BY <2>1, <2>2 DEF Honest, Synced
  <2> QED  BY <2>1, <2>3, IdleHonest
<1> QED  BY <1>2, <1>3, <1>4

\* lif_state_sync: all the command wants is still to come.
LEMMA SyncHonest ==
    ASSUME IInv, NEW self \in Proc, SyncState(self), NEW file, NEW ph
    PROVE  Honest(mem'[self], file, ph)
<1> DEFINE o == mem[self]
           t == IF o.cmd.auto THEN AutomaticArguments ELSE o.cmd.args
           r == [o EXCEPT !.pc = "select",
                          !.refcount = SyncedRefcount(o.state),
                          !.explicit = SyncedExplicit(o.state, o.explicit),
                          !.todo = t]
<1>1. mem'[self] = r /\ o \in Memory  BY Before, Updated DEF SyncState
<1>2. WantedBy(o.cmd) \subseteq Keys(t)
  <2>1. CASE o.cmd.auto
    <3>1. WantedBy(o.cmd) \subseteq ToSet(CollectionOrder)  BY <2>1 DEF WantedBy
    <3>2. ToSet(CollectionOrder) \subseteq Keys(AutomaticArguments)
      BY DEF ToSet, Keys, AutomaticArguments
    <3> QED  BY <2>1, <3>1, <3>2
  <2>2. CASE ~o.cmd.auto  BY <2>2 DEF WantedBy, Keys
  <2> QED  BY <2>1, <2>2
<1> HIDE DEF t
<1>3. r.pc = "select" /\ r.cmd = o.cmd /\ r.todo = t  BY <1>1 DEF Memory
<1> HIDE DEF r
<1>4. WantedBy(r.cmd) \ ToDo(r) = {}  BY <1>2, <1>3 DEF ToDo
<1> QED  BY <1>1, <1>3, <1>4 DEF Honest

\* An ifup gives up no count and no mark, an ifdown takes no reference.
LEMMA CountMoves ==
    ASSUME NEW m, DataOK(m), NEW k \in Key, NEW d \in Iface
    PROVE  /\ \A i \in Iface : m.refcount[i] > 0 => RefIf(m, k, d).refcount[i] > 0
           /\ \A i \in Iface : m.refcount[i] = 0 => UnrefIf(m, k, d).refcount[i] = 0
           /\ RefIf(m, k, d).explicit = m.explicit /\ UnrefIf(m, k, d).explicit = m.explicit
<1>1. m.refcount \in [Iface -> Nat]  BY DEF DataOK, Memory
<1>2. /\ RefIf(m, k, d).refcount = [m.refcount EXCEPT ![d] = @ + 1]
      /\ m.refcount[d] > 0 => UnrefIf(m, k, d).refcount = [m.refcount EXCEPT ![d] = @ - 1]
      /\ RefIf(m, k, d).explicit = m.explicit /\ UnrefIf(m, k, d).explicit = m.explicit
  BY CountChange
<1>3. m.refcount[d] = 0 => UnrefIf(m, k, d) = m  BY DEF UnrefIf
<1>4. \A i \in Iface : m.refcount[i] > 0 => RefIf(m, k, d).refcount[i] > 0
  BY <1>1, <1>2
<1>5. ASSUME NEW i \in Iface, m.refcount[i] = 0  PROVE UnrefIf(m, k, d).refcount[i] = 0
  <2>1. CASE m.refcount[d] = 0  BY <1>3, <1>5, <2>1
  <2>2. CASE m.refcount[d] # 0
    <3>1. m.refcount[d] > 0 /\ i # d  BY <1>1, <1>5, <2>2
    <3> QED  BY <1>1, <1>2, <1>5, <3>1
  <2> QED  BY <2>1, <2>2
<1> QED  BY <1>2, <1>4, <1>5

\* change_interface goes on: an interface that it gets done with is down, or, going
\* up, is still to be marked.
LEMMA MovesHonest ==
    ASSUME NEW o, NEW file, NEW ph, Honest(o, file, ph), o.pc \in HoldingState,
           NEW r, NEW left, NEW qh, r.cmd = o.cmd, r.ok => o.ok, r.todo = o.todo,
           r.target = o.target, r.pc \in HoldingState,
           o.cmd.up => \A i \in Iface : /\ o.refcount[i] > 0 => r.refcount[i] > 0
                                        /\ o.explicit[i] => r.explicit[i],
           ~o.cmd.up => \A i \in Iface : /\ o.refcount[i] = 0 => r.refcount[i] = 0
                                         /\ ph[i] = "down" => qh[i] = "down" \/ i \in AtHand(r),
           ~o.cmd.up => \A k \in AtHand(o) \ AtHand(r) : k \in Iface /\ qh[k] = "down"
    PROVE  Honest(r, left, qh)
<1>1. Synced(o) /\ r.pc \notin {"write", "flush"}  BY DEF Synced, HoldingState
<1>2. o.cmd.up => AtHand(r) = AtHand(o)  BY DEF AtHand
<1>3. \A k \in ToDo(o) \ ToDo(r) : k \in AtHand(o) \ AtHand(r)  BY DEF ToDo
<1>4. \A k \in ToDo(o) \ ToDo(r) : k \in Iface /\ Reached(r, qh, k)
  BY <1>2, <1>3 DEF Reached
<1>5. \A i \in Iface \ ToDo(r) : Reached(o, ph, i) => Reached(r, qh, i)
  BY DEF Reached, ToDo
<1> QED  BY <1>1, <1>4, <1>5, GoesOn

\* A step of lif_lifecycle_run or of its call.
LEMMA RunHonest ==
    ASSUME OwnInv, OptionsInv, NEW self \in Proc, ~mem[self].cmd.mock,
           Honest(mem[self], ifstate, phys), Recursing(self), NEW file
    PROVE  Honest(mem'[self], file, phys')
<1> DEFINE o == mem[self]
           r == mem'[self]
<1>0. /\ IInv /\ o \in Memory /\ DataOK(o) /\ GoodMemory(o) /\ OwnOK(o) /\ Work(self)
      /\ phys \in [Key -> {"down", "partial", "up"}]
  BY Before DEF OwnInv, Recursing, Work
<1>1. /\ o.pc \in HoldingState /\ o.pc \notin {"idle", "read", "sync"}
      /\ o.target.key = o.target.iface /\ o.target.key \in Key /\ o.target.iface \in Iface
  <2>1. o.pc \in HoldingState /\ o.pc \notin {"idle", "read", "sync"}
    BY DEF Recursing, ChangeInterface, SkipBrokenDependent, ChangeDependent, AtDependent,
           DependentsDone, RunPhase, ReturnFromRun, At, HoldingState
  <2> QED  BY <1>0, <2>1, TargetType DEF OwnOK
<1>2. r = Idle \/ (r.cmd = o.cmd /\ (r.ok => o.ok))
  <2>1. ~(ReadLine(self) \/ QueryDependents(self) \/ SyncState(self))
    BY <1>1 DEF ReadLine, QueryDependents, SyncState, At
  <2> QED  BY <1>0, <2>1, WorkStays DEF Stays
<1>3. r = Idle => Honest(r, file, phys')  BY IdleHonest
<1>4. ASSUME NEW m \in Memory, r = Fail(m)  PROVE Honest(r, file, phys')
  BY <1>4, FailHonest
<1>5. ASSUME o.pc = "run"
      PROVE  /\ o.stack # << >> /\ Top(o).key = Top(o).iface /\ Top(o).iface \in Iface
             /\ Top(o).key \in Key /\ Top(o).at \in 1 .. 6
  <2> DEFINE a == [iface |-> Top(o).iface, key |-> Top(o).key]
  <2>1. o.stack # << >>  BY <1>0, <1>5 DEF GoodMemory, ControlOK
  <2>2. Top(o) \in Frame /\ a \in Activations(o)
    BY <1>0, <2>1, TopType DEF Activations
  <2>3. a.key = a.iface  BY <1>0, <2>2 DEF OwnOK
  <2> QED  BY <2>1, <2>2, <2>3 DEF Frame
<1>6. \A k \in AtHand(o) : k \in Iface
  BY <1>1, <1>5 DEF AtHand
<1>7. CASE ChangeInterface(self)
  <2> DEFINE k == o.target.key
             i == o.target.iface
             m == Call(o, k, i)
  <2>1. (r = Fail(o) \/ r = m) /\ phys' = phys /\ o.pc = "locked"
    BY <1>0, <1>7, Updated DEF ChangeInterface, At
  <2>2. SameData(m, o) /\ m.pc = "run" /\ m.target = o.target
    BY <1>0, <1>1, CallEffect
  <2>3. Top(m).at = 1 /\ Top(m).key = k
    <3> DEFINE f == [iface |-> i, key |-> k, at |-> 1, next |-> 1]
               s == Append(o.stack, f)
    <3>1. f \in Frame /\ o.stack \in Seq(Frame)  BY <1>0, <1>1 DEF Frame, Memory
    <3>2. m.stack = s  BY <1>0 DEF Call, Memory
    <3>3. s[Len(s)] = f  BY <3>1, AppendProperties
    <3> QED  BY <3>2, <3>3 DEF Top
  <2>4. ~o.cmd.up => AtHand(o) \subseteq AtHand(m)
    BY <2>1, <2>2, <2>3 DEF AtHand, SameData
  <2> HIDE DEF m
  <2>5. Honest(m, file, phys)
    BY <1>1, <2>2, <2>4, MovesHonest DEF SameData, HoldingState
  <2> QED  BY <1>0, <1>4, <2>1, <2>5
<1>8. CASE SkipBrokenDependent(self) \/ DependentsDone(self)
  <2>1. /\ r = NextDependent(o) \/ r = Advance(o)
        /\ phys' = phys /\ o.pc = "run" /\ Stage(o) = "depend"
    BY <1>0, <1>8, Updated DEF SkipBrokenDependent, DependentsDone, AtDependent, At
  <2>2. SameData(r, o) /\ r.target = o.target /\ r.pc = "run"
    BY <1>0, <1>5, <2>1, NextDependentEffect, NextDependentGood, AdvanceEffect, AdvanceGood
       DEF GoodMemory
  <2>3. ~o.cmd.up => AtHand(o) = {}
    BY <1>0, <1>5, <2>1, StageAt DEF AtHand
  <2> QED  BY <1>1, <2>1, <2>2, <2>3, MovesHonest DEF SameData, HoldingState
<1>9. CASE ChangeDependent(self)
  <2> DEFINE d == Dependent(o)
             c == IF o.cmd.up THEN RefIf(o, d, d) ELSE UnrefIf(o, d, d)
             e == NextDependent(c)
             m == Call(e, d, d)
  <2>1. /\ r = Fail(c) \/ r = e \/ r = m
        /\ phys' = phys /\ o.pc = "run" /\ Stage(o) = "depend"
        /\ Top(o).next <= Len(Requires[Top(o).iface])
    BY <1>0, <1>9, Updated DEF ChangeDependent, AtDependent, At
  <2>2. d \in Iface /\ d \in Key  BY <1>0, <2>1, DependentType, IfaceAssumption
  <2> HIDE DEF d
  <2>3. /\ o.cmd.up => \A i \in Iface : o.refcount[i] > 0 => c.refcount[i] > 0
        /\ ~o.cmd.up => \A i \in Iface : o.refcount[i] = 0 => c.refcount[i] = 0
        /\ c.explicit = o.explicit
    BY <1>0, <2>2, CountMoves
  <2>4. DataOK(c) /\ SameControl(c, o) /\ c \in Memory
    BY <1>0, <2>2, RefIfData, UnrefIfData DEF DataOK
  <2> HIDE DEF c
  <2>5. c.stack # << >>  BY <1>5, <2>1, <2>4 DEF SameControl
  <2>6. SameData(e, c) /\ e.target = c.target /\ e \in Memory /\ e.pc = "run"
    <3>1. e.pc = c.pc  BY <2>4 DEF NextDependent, SetTop, Memory
    <3> QED  BY <2>1, <2>4, <2>5, <3>1, NextDependentEffect DEF SameControl
  <2> HIDE DEF e
  <2>7. SameData(m, e) /\ m.target = e.target /\ m.pc = "run"
    BY <2>2, <2>6, CallEffect
  <2> HIDE DEF m
  <2>8. ~o.cmd.up => AtHand(o) = {}
    BY <1>0, <1>5, <2>1, StageAt DEF AtHand
  <2>9. r = e \/ r = m =>
            /\ r.cmd = o.cmd /\ r.todo = o.todo /\ r.target = o.target /\ r.pc = "run"
            /\ r.refcount = c.refcount /\ r.explicit = o.explicit /\ r.ok = c.ok
    BY <2>3, <2>4, <2>6, <2>7 DEF SameData, SameControl
  <2>10. r = e \/ r = m => r # Idle
    BY <2>6, <2>7 DEF Idle, Fresh
  <2> HIDE DEF r, o
  <2>11. ASSUME r = e \/ r = m  PROVE Honest(r, file, phys')
    <3>1. /\ r.cmd = o.cmd /\ r.todo = o.todo /\ r.target = o.target /\ r.pc \in HoldingState
          /\ r.refcount = c.refcount /\ r.explicit = o.explicit /\ (r.ok => o.ok)
      BY <1>2, <2>9, <2>10, <2>11 DEF HoldingState
    <3>2. o.pc \in HoldingState /\ Honest(o, ifstate, phys)  BY <1>1 DEF o
    <3> QED  BY <2>1, <2>3, <2>8, <3>1, <3>2, MovesHonest
  <2> QED  BY <1>4, <2>1, <2>4, <2>11 DEF r
<1>10. CASE RunPhase(self)
  <2> DEFINE m == Advance(o)
             key == Top(o).key
  <2>1. PICK good \in BOOLEAN :
          /\ r = (IF good THEN m ELSE Fail(o))
          /\ phys' = [phys EXCEPT ![key] = PhaseEffect(o, good)]
    BY <1>0, <1>10, Updated DEF RunPhase
  <2>2. o.pc = "run" /\ Stage(o) \in Phases  BY <1>10 DEF RunPhase, At
  <2>3. CASE ~good  BY <1>0, <1>4, <2>1, <2>3
  <2>4. CASE good
    <3>1. /\ Stage(o) \notin {"ref", "unref"} /\ Top(o).at \in 1 .. 5 /\ o.stack # << >>
          /\ ~o.cmd.up => Top(o).at \in 1 .. 4
      BY <1>0, <1>5, <2>2, StageAt DEF Phases
    <3>2. SameData(m, o)  BY <1>0, <3>1, AdvanceEffect
    <3>3. m.pc = "run" /\ m.target = o.target  BY <1>0, <2>2, <3>1, AdvanceStack
    <3>4. Top(m).at = Top(o).at + 1 /\ Top(m).key = key
      <4>1. m.stack[Len(m.stack)].at = Top(o).at + 1
        BY <1>0, <3>1, AdvanceStack
      <4>2. m.stack[Len(m.stack)].key = key
        <5> DEFINE f == [Top(o) EXCEPT !.at = @ + 1]
                   t == SetTop(o, f)
                   l == Len(o.stack)
        <5>1. Top(o) \in Frame /\ f \in Frame /\ f.key = key
          BY <1>0, <3>1, TopType DEF Frame
        <5>2. m.stack = t.stack
          <6>1. t \in Memory  BY <1>0, <3>1, <5>1, SetTopType
          <6> QED  BY <6>1 DEF Advance, Memory
        <5>3. /\ l \in Nat \ {0} /\ Len(t.stack) = l
              /\ \A n \in 1 .. l : t.stack[n] = IF n = l THEN f ELSE o.stack[n]
          BY <1>0, <3>1, <5>1, SetTopType
        <5> HIDE DEF f, t, l
        <5>4. l \in 1 .. l  BY <5>3
        <5> QED  BY <5>1, <5>2, <5>3, <5>4
      <4> QED  BY <4>1, <4>2 DEF Top
    <3> HIDE DEF m
    <3>5. ~o.cmd.up /\ key \notin AtHand(m) => PhaseEffect(o, good) = "down"
      <4> SUFFICES ASSUME ~o.cmd.up, key \notin AtHand(m)  PROVE PhaseEffect(o, good) = "down"
        OBVIOUS
      <4>1. m.cmd = o.cmd /\ key \in Key  BY <1>5, <2>2, <3>2 DEF SameData
      <4>2. Top(m).at \notin 1 .. 4  BY <3>3, <3>4, <4>1 DEF AtHand
      <4>3. Top(o).at = 4  BY <3>1, <3>4, <4>2
      <4>4. Stage(o) = "destroy"  BY <4>3 DEF Stage, Stages, DownStages
      <4> QED  BY <2>4, <4>4 DEF PhaseEffect
    <3>6. ~o.cmd.up => AtHand(o) = {key}
      BY <1>5, <2>2, <3>1 DEF AtHand
    <3>7. \A i \in Key \ {key} : phys'[i] = phys[i]  BY <1>0, <2>1
    <3>8. ~o.cmd.up /\ key \notin AtHand(m) => phys'[key] = "down"
      BY <1>0, <1>5, <2>1, <2>2, <3>5
    <3>9. \A i \in Iface : i \in Key  BY IfaceAssumption
    <3>10. ~o.cmd.up =>
              /\ \A i \in Iface : phys[i] = "down" => phys'[i] = "down" \/ i \in AtHand(m)
              /\ \A k \in AtHand(o) \ AtHand(m) : k \in Iface /\ phys'[k] = "down"
      BY <1>6, <3>6, <3>7, <3>8, <3>9
    <3>11. Honest(m, file, phys')
      BY <1>1, <3>2, <3>3, <3>10, MovesHonest DEF SameData, HoldingState
    <3> QED  BY <2>1, <2>4, <3>11
  <2> QED  BY <2>3, <2>4
<1>11. CASE ReturnFromRun(self)
  <2> DEFINE c == Counted(o)
             k == Top(o).key
             i == Top(o).iface
  <2>1. r = Return(o) /\ phys' = phys /\ o.pc = "run" /\ Stage(o) \in {"ref", "unref"}
    BY <1>0, <1>11, Updated DEF ReturnFromRun, At
  <2>2. /\ SameControl(c, o) /\ SameData(r, c) /\ r.target = o.target
        /\ r.pc \in HoldingState
    BY <1>0, <1>5, <2>1, ReturnEffect, ReturnGood DEF HoldingState
  <2>3. /\ o.cmd.up => \A j \in Iface : o.refcount[j] > 0 => c.refcount[j] > 0
        /\ ~o.cmd.up => \A j \in Iface : o.refcount[j] = 0 => c.refcount[j] = 0
        /\ c.explicit = o.explicit
    BY <1>0, <1>5, <2>1, CountMoves DEF Counted
  <2> HIDE DEF c
  <2>4. ~o.cmd.up => AtHand(o) = {}
    BY <1>0, <1>5, <2>1, StageAt DEF AtHand
  <2>5. r # Idle  BY <2>2 DEF Idle, Fresh, HoldingState
  <2>6. /\ r.cmd = o.cmd /\ r.todo = o.todo /\ r.refcount = c.refcount /\ r.explicit = o.explicit
    BY <2>2, <2>3 DEF SameData, SameControl
  <2> HIDE DEF r, o
  <2>7. Honest(r, file, phys')
    BY <1>1, <1>2, <2>1, <2>2, <2>3, <2>4, <2>5, <2>6, MovesHonest DEF o, r
  <2> QED  BY <2>7 DEF r
<1> QED  BY <1>7, <1>8, <1>9, <1>10, <1>11 DEF Recursing

\* change_interface returns true: the interface has its record and its mark, or it was
\* broken, or it is down or not counted.
LEMMA DoneHonest ==
    ASSUME OwnInv, OptionsInv, NEW self \in Proc, ~mem[self].cmd.mock,
           Honest(mem[self], ifstate, phys), SkipInterface(self) \/ FinishInterface(self), NEW file
    PROVE  Honest(mem'[self], file, phys')
<1> DEFINE o == mem[self]
           r == mem'[self]
           i == o.target.iface
           k == o.target.key
           c == MarkExplicit(o, k, i)
           marks == o.cmd.up /\ ~o.cmd.auto /\ (SkipInterface(self) => i \notin ConfigError)
<1>1. /\ o.pc \in {"locked", "finish"} /\ Synced(o) /\ phys' = phys
      /\ SkipInterface(self) => o.pc = "locked" /\ Skips(o)
      /\ ~SkipInterface(self) => o.pc = "finish"
  BY DEF SkipInterface, FinishInterface, At, Synced
<1>2. /\ IInv /\ o \in Memory /\ DataOK(o) /\ GoodMemory(o) /\ OwnOK(o)
      /\ o.refcount \in [Iface -> Nat] /\ o.cmd.up \in BOOLEAN
  BY Before DEF OwnInv, Memory, Command
<1>3. k = i /\ i \in Iface /\ k \in Key
  BY <1>1, <1>2, TargetType DEF OwnOK, HoldingState
<1>4. SkipInterface(self) /\ i \in WantedBy(o.cmd) =>
          /\ i \notin ConfigError
          /\ IF o.cmd.up THEN o.refcount[i] > 0 ELSE o.refcount[i] = 0
  <2> SUFFICES ASSUME SkipInterface(self), i \in WantedBy(o.cmd)
               PROVE  /\ i \notin ConfigError
                      /\ IF o.cmd.up THEN o.refcount[i] > 0 ELSE o.refcount[i] = 0
    OBVIOUS
  <2>1. Skips(o) /\ o.refcount[i] \in Nat  BY <1>1, <1>2, <1>3
  <2>2. ~o.cmd.force  BY <2>1 DEF Skips
  <2>3. i \notin ConfigError
    <3>1. WantedBy(o.cmd) \cap ConfigError = {}  BY <2>2 DEF WantedBy
    <3> QED  BY <3>1
  <2> QED  BY <1>2, <2>1, <2>3 DEF Skips
<1>5. ~SkipInterface(self) /\ o.cmd.up => o.refcount[i] > 0
  BY <1>1, <1>2 DEF GoodMemory, CountedOK
<1>6. AtHand(o) \subseteq {i} /\ (o.pc = "finish" /\ ~o.cmd.up => AtHand(o) = {})
  BY <1>1, <1>3 DEF AtHand, HoldingState
<1>7. r = Done(IF marks THEN c ELSE o)
  BY <1>2, Updated DEF SkipInterface, FinishInterface
<1>8. /\ c.cmd = o.cmd /\ c.ok = o.ok /\ c.todo = o.todo /\ c.refcount = o.refcount
      /\ c.explicit = [o.explicit EXCEPT ![i] = TRUE] /\ Done(c).pc = "select"
      /\ Done(c).cmd = c.cmd /\ Done(c).ok = c.ok /\ Done(c).todo = c.todo
      /\ Done(c).refcount = c.refcount /\ Done(c).explicit = c.explicit
  <2> DEFINE e == [o.explicit EXCEPT ![i] = TRUE]
             m == [o EXCEPT !.explicit = e]
             u == Upsert(m.state, Describe(m, k, i))
  <2>1. c = [m EXCEPT !.state = u]  BY DEF MarkExplicit
  <2> HIDE DEF c, e, u
  <2>2. /\ c.cmd = o.cmd /\ c.ok = o.ok /\ c.todo = o.todo /\ c.refcount = o.refcount
        /\ c.explicit = e /\ Done(c).pc = "select"
        /\ Done(c).cmd = c.cmd /\ Done(c).ok = c.ok /\ Done(c).todo = c.todo
        /\ Done(c).refcount = c.refcount /\ Done(c).explicit = c.explicit
    BY <1>2, <2>1 DEF Memory, Done
  <2> QED  BY <2>2 DEF e
<1>9. /\ Done(o).pc = "select" /\ Done(o).cmd = o.cmd /\ Done(o).ok = o.ok
      /\ Done(o).todo = o.todo /\ Done(o).refcount = o.refcount
      /\ Done(o).explicit = o.explicit
  BY <1>2 DEF Memory, Done
<1> HIDE DEF c
<1>10. /\ r.pc = "select" /\ r.cmd = o.cmd /\ r.ok = o.ok /\ r.todo = o.todo
       /\ r.refcount = o.refcount
       /\ r.explicit = IF marks THEN [o.explicit EXCEPT ![i] = TRUE] ELSE o.explicit
  BY <1>7, <1>8, <1>9
<1>11. /\ \A j \in Iface : o.explicit[j] => r.explicit[j]
       /\ i \in WantedBy(o.cmd) /\ o.cmd.up => o.cmd.auto \/ r.explicit[i]
  <2>1. o.explicit \in [Iface -> BOOLEAN]  BY <1>2 DEF Memory
  <2>2. i \in WantedBy(o.cmd) /\ o.cmd.up /\ ~o.cmd.auto => marks  BY <1>4
  <2> HIDE DEF r, o, i, marks
  <2> QED  BY <1>3, <1>10, <2>1, <2>2
<1>12. \A j \in Iface : Reached(o, phys, j) => Reached(r, phys', j)
  BY <1>1, <1>10, <1>11 DEF Reached
<1>13. \A j \in ToDo(o) \ ToDo(r) : j = i /\ (o.cmd.up \/ o.pc = "locked")
  BY <1>6, <1>10, <1>1 DEF ToDo
<1>14. i \in WantedBy(o.cmd) /\ (o.cmd.up \/ o.pc = "locked") => Reached(r, phys', i)
  BY <1>1, <1>4, <1>5, <1>10, <1>11 DEF Reached
<1>15. \A j \in ToDo(o) \ ToDo(r) :
           j \in WantedBy(o.cmd) => j \in Iface /\ Reached(r, phys', j)
  BY <1>3, <1>13, <1>14
<1> HIDE DEF r, o
<1>16. Honest(r, file, phys')
  BY <1>1, <1>10, <1>12, <1>15, GoesOn DEF o
<1> QED  BY <1>16 DEF r

\* The loops over the arguments: what is passed over is not wanted.
LEMMA LoopHonest ==
    ASSUME OwnInv, NEW self \in Proc, ~mem[self].cmd.mock, Honest(mem[self], ifstate, phys),
           PassOver(self) \/ AcquireLock(self), NEW file
    PROVE  Honest(mem'[self], file, phys')
<1> DEFINE o == mem[self]
           a == Head(o.todo)
           t == Tail(o.todo)
           g == [key |-> a.key, iface |-> Resolve(o, a)]
           p == [o EXCEPT !.todo = t]
           n == [o EXCEPT !.todo = t, !.target = g]
           q == [n EXCEPT !.pc = "locked"]
<1>1. /\ IInv /\ o.pc = "select" /\ o.todo # << >> /\ o \in Memory /\ Synced(o) /\ phys' = phys
      /\ a \in Argument /\ t \in Seq(Argument)
  <2>1. /\ IInv /\ o.pc = "select" /\ o.todo # << >> /\ o \in Memory /\ Synced(o) /\ phys' = phys
    BY Before DEF PassOver, AcquireLock, At, OwnInv, Synced
  <2> QED  BY <2>1, HeadTailProperties DEF Memory
<1>2. ToDo(o) = {a.key} \cup Keys(t)
  <2>1. Keys(o.todo) = {a.key} \cup Keys(t)  BY <1>1, KeysOfTail DEF Memory
  <2>2. AtHand(o) = {}  BY <1>1 DEF AtHand, HoldingState
  <2> QED  BY <2>1, <2>2 DEF ToDo
<1>3. CASE PassOver(self)
  <2>1. mem'[self] = p /\ o.cmd.auto /\ a.key \notin IsAuto \cap Matched
    BY <1>1, <1>3, Updated DEF PassOver
  <2>2. a.key \notin WantedBy(o.cmd)  BY <2>1 DEF WantedBy
  <2> HIDE DEF t, a
  <2>3. /\ p.pc = "select" /\ p.cmd = o.cmd /\ p.ok = o.ok /\ p.todo = t
        /\ p.refcount = o.refcount /\ p.explicit = o.explicit
    BY <1>1 DEF Memory
  <2> HIDE DEF p
  <2>4. \A k \in ToDo(o) \ ToDo(p) : k = a.key  BY <1>2, <2>3 DEF ToDo
  <2>5. \A i \in Iface : Reached(o, phys, i) => Reached(p, phys', i)
    BY <1>1, <2>3 DEF Reached
  <2>6. Honest(p, file, phys')  BY <1>1, <2>2, <2>3, <2>4, <2>5, GoesOn
  <2> QED  BY <2>1, <2>6
<1>4. CASE AcquireLock(self)
  <2>1. mem'[self] = q \/ mem'[self] = Fail(n)
    BY <1>1, <1>4, Updated DEF AcquireLock
  <2>2. g.key = a.key /\ a.key \in Key  BY <1>1 DEF Argument
  <2>3. n \in Memory
    <3>1. g \in [key : Key \cup {NoIface}, iface : Iface \cup {NoIface}]
      <4>1. o.cmd.auto => a.key \in Iface  BY <1>4, ConfigAssumption DEF AcquireLock
      <4> QED  BY <1>1, <2>2, <4>1, ResolveType
    <3> HIDE DEF g, t
    <3> QED  BY <1>1, <3>1 DEF Memory
  <2> HIDE DEF t, a, g
  <2>4. /\ q.pc = "locked" /\ q.cmd = o.cmd /\ q.ok = o.ok /\ q.todo = t /\ q.target = g
        /\ q.refcount = o.refcount /\ q.explicit = o.explicit
    BY <1>1 DEF Memory
  <2>5. Honest(Fail(n), file, phys')  BY <2>3, FailHonest
  <2> HIDE DEF q, n
  <2>6. \A k \in ToDo(o) \ ToDo(q) : FALSE
    <3>1. a.key \in AtHand(q)  BY <2>2, <2>4 DEF AtHand, HoldingState
    <3> QED  BY <1>2, <2>4, <3>1 DEF ToDo
  <2>7. \A i \in Iface : Reached(o, phys, i) => Reached(q, phys', i)
    BY <1>1, <2>4 DEF Reached
  <2>8. Honest(q, file, phys')  BY <1>1, <2>4, <2>6, <2>7, GoesOn
  <2> QED  BY <2>1, <2>5, <2>8
<1> QED  BY <1>3, <1>4

\* update_state_file_and_exit after the last interface, or after one that is not known.
LEMMA LeaveHonest ==
    ASSUME OwnInv, NEW self \in Proc, ~mem[self].cmd.mock, Honest(mem[self], ifstate, phys),
           \/ UnknownInterface(self) \/ NoMoreTargets(self)
           \/ OpenStateFile(self) \/ FlushStateFile(self)
    PROVE  Honest(mem'[self], ifstate', phys')
<1> DEFINE o == mem[self]
           l == [o EXCEPT !.pc = "write", !.ok = o.ok, !.todo = << >>, !.target = NoTarget]
           w == [o EXCEPT !.pc = "flush"]
<1>1. IInv /\ o \in Memory /\ o.pc \notin HoldingState /\ Synced(o) /\ phys' = phys
  <2>1. IInv /\ o \in Memory  BY Before DEF OwnInv
  <2>2. o.pc \in {"select", "write", "flush"} /\ phys' = phys
    BY DEF UnknownInterface, NoMoreTargets, OpenStateFile, FlushStateFile, At
  <2> QED  BY <2>1, <2>2 DEF HoldingState, Synced
<1>2. CASE UnknownInterface(self)
  <2>1. mem'[self] = Leave(o, FALSE)  BY <1>1, <1>2, Updated DEF UnknownInterface
  <2> QED  BY <1>1, <2>1, FailHonest
<1>3. ASSUME NEW r, r.cmd = o.cmd, r.ok = o.ok, r.todo = << >>, o.todo = << >>,
             r.pc \in {"write", "flush"}, r.refcount = o.refcount, r.explicit = o.explicit,
             r.pc = "flush" => ifstate' = << >>
      PROVE  Honest(r, ifstate', phys')
  <2>1. ToDo(o) \ ToDo(r) = {}
    <3>1. ToDo(o) = {}  BY <1>1, <1>3 DEF ToDo, Keys, AtHand, HoldingState
    <3> QED  BY <3>1
  <2>2. \A i \in Iface : Reached(o, phys, i) => Reached(r, phys', i)
    BY <1>1, <1>3 DEF Reached
  <2> QED  BY <1>1, <1>3, <2>1, <2>2, GoesOn
<1>4. CASE NoMoreTargets(self)
  <2>1. mem'[self] = l /\ o.todo = << >>  BY <1>1, <1>4, Updated DEF NoMoreTargets, Leave
  <2>2. /\ l.pc = "write" /\ l.cmd = o.cmd /\ l.ok = o.ok /\ l.todo = << >>
        /\ l.refcount = o.refcount /\ l.explicit = o.explicit
    BY <1>1 DEF Memory
  <2> HIDE DEF l
  <2> QED  BY <1>3, <2>1, <2>2
<1>5. CASE OpenStateFile(self)
  <2>1. /\ (mem'[self] = w /\ ifstate' = << >>) \/ mem'[self] = Idle
        /\ o.pc = "write"
    BY <1>1, <1>5, Updated DEF OpenStateFile, At
  <2>2. o.todo = << >>  BY <2>1 DEF Honest
  <2>3. /\ w.pc = "flush" /\ w.cmd = o.cmd /\ w.ok = o.ok /\ w.todo = o.todo
        /\ w.refcount = o.refcount /\ w.explicit = o.explicit
    BY <1>1 DEF Memory
  <2> HIDE DEF w
  <2> QED  BY <1>3, <2>1, <2>2, <2>3, IdleHonest
<1>6. CASE FlushStateFile(self)
  <2>1. mem'[self] = Idle  BY <1>1, <1>6, Updated DEF FlushStateFile
  <2> QED  BY <2>1, IdleHonest
<1> QED  BY <1>2, <1>4, <1>5, <1>6


\* Every step of the command.
LEMMA WorkHonest ==
    ASSUME HonestInv, NEW self \in Proc, Work(self)
    PROVE  Honest(mem'[self], ifstate', phys')
<1> DEFINE o == mem[self]
           r == mem'[self]
<1>1. IInv /\ OwnInv /\ OptionsInv /\ Honest(o, ifstate, phys)
  BY DEF HonestInv, OwnInv
<1>2. CASE ReadLine(self) \/ QueryDependents(self)  BY <1>1, <1>2, BeforeHonest
<1>3. CASE SyncState(self)  BY <1>1, <1>3, SyncHonest
<1>4. CASE o.cmd.mock /\ ~(ReadLine(self) \/ QueryDependents(self) \/ SyncState(self))
  <2>1. Stays(r, o)  BY <1>1, <1>4, WorkStays
  <2>2. WriteOK(r)
    <3>1. OptionsInv'  BY <1>1, OptionsStep
    <3> QED  BY <3>1 DEF OptionsInv, OptionsOK
  <2> HIDE DEF r
  <2>3. r = Idle \/ Honest(r, ifstate', phys')
    BY <1>4, <2>1, <2>2 DEF Stays, Honest, WriteOK
  <2>4. Honest(r, ifstate', phys')  BY <2>3, IdleHonest
  <2> QED  BY <2>4 DEF r
<1>5. CASE ~o.cmd.mock /\ Recursing(self)  BY <1>1, <1>5, RunHonest
<1>6. CASE ~o.cmd.mock /\ (SkipInterface(self) \/ FinishInterface(self))
  BY <1>1, <1>6, DoneHonest
<1>7. CASE ~o.cmd.mock /\ (PassOver(self) \/ AcquireLock(self))
  BY <1>1, <1>7, LoopHonest
<1>8. CASE /\ ~o.cmd.mock
           /\ \/ UnknownInterface(self) \/ NoMoreTargets(self)
              \/ OpenStateFile(self) \/ FlushStateFile(self)
  BY <1>1, <1>8, LeaveHonest
<1> QED  BY <1>2, <1>3, <1>4, <1>5, <1>6, <1>7, <1>8 DEF Work, Recursing

\* Every step preserves the invariant.
LEMMA HonestStep == HonestInv /\ [Next]_vars => HonestInv'
<1> SUFFICES ASSUME HonestInv, [Next]_vars  PROVE HonestInv'
  OBVIOUS
<1>1. ASSUME UNCHANGED vars  PROVE HonestInv'
  <2>1. IInv'  BY NextInv DEF HonestInv, OwnInv
  <2> QED  BY <1>1, <2>1 DEF HonestInv, OwnInv, OptionsInv, vars, Alone
<1>2. ASSUME NEW self \in Proc, Start(self) \/ Work(self) \/ Crash(self)  PROVE HonestInv'
  <2>1. IInv /\ OwnInv' /\ OptionsInv'
    BY <1>2, OwnStep, OptionsStep DEF HonestInv, OwnInv
  <2>2. Honest(mem'[self], ifstate', phys')
    <3>1. CASE Start(self)  BY <2>1, <3>1, BeforeHonest
    <3>2. CASE Work(self)  BY <3>2, WorkHonest
    <3>3. CASE Crash(self)
      <4>1. mem'[self] = Idle  BY <2>1, <3>3, Updated DEF Crash
      <4> QED  BY <4>1, IdleHonest
    <3> QED  BY <1>2, <3>1, <3>2, <3>3
  <2>3. \A p \in Proc : p = self  BY DEF HonestInv, Alone
  <2>4. \A p \in Proc : Honest(mem'[p], ifstate', phys')  BY <2>2, <2>3
  <2> QED  BY <2>1, <2>4 DEF HonestInv, Alone
<1> QED  BY <1>1, <1>2 DEF Next, Rest

\* The invariant holds of every command.
LEMMA HonestInvariance == OwnStanzas /\ Alone /\ Spec => []HonestInv
<1>1. OwnStanzas /\ Alone /\ Init => HonestInv
  <2> SUFFICES ASSUME OwnStanzas, Alone, Init  PROVE HonestInv
    OBVIOUS
  <2>1. OwnInv /\ OptionsInv  BY OwnInit, OptionsInit
  <2>2. \A p \in Proc : mem[p] = Idle  BY DEF Init
  <2> QED  BY <2>1, <2>2, IdleHonest DEF HonestInv
<1> QED  BY <1>1, HonestStep, PTL DEF Spec

\* lif_state_write at the end of a command that never failed.
LEMMA HonestWritten ==
    ASSUME HonestInv, [Next]_vars, NEW p \in Proc, mem[p].pc = "flush", mem'[p].pc = "idle",
           mem[p].ok, crashes' = crashes, NEW k \in WantedBy(mem[p].cmd)
    PROVE  IF mem[p].cmd.up
           THEN /\ HasRecord(ifstate', k)
                /\ ~mem[p].cmd.auto => RecordOf(ifstate', k).explicit
           ELSE HasRecord(ifstate', k) => phys[k] = "down"
<1> DEFINE o == mem[p]
<1>1. IInv /\ OwnOK(o) /\ WriteOK(o) /\ Honest(o, ifstate, phys)
  BY DEF HonestInv, OwnInv, OptionsInv, OptionsOK
<1>2. Synced(o) /\ ~o.cmd.mock  BY <1>1 DEF Synced, WriteOK
<1>3. /\ o \in Memory /\ Agree(o) /\ ifstate = << >> /\ o.todo = << >>
      /\ o.refcount \in [Iface -> Nat] /\ o.state \in Seq(Record)
  BY <1>1, <1>2, Before DEF OwnOK, Honest, Memory
<1>4. ifstate' = o.state
  <2>1. PICK self \in Proc : Start(self) \/ Work(self) \/ Crash(self)
    BY DEF Next, Rest, vars
  <2>2. self = p  BY DEF HonestInv, Alone
  <2>3. ~Start(p)  BY DEF Start, At
  <2>4. ~Crash(p)
    <3>1. crashes \in Nat  BY <1>1 DEF IInv, TypeOK
    <3> QED  BY <3>1 DEF Crash
  <2>5. FlushStateFile(p)
    BY <2>1, <2>2, <2>3, <2>4
       DEF Work, ReadLine, QueryDependents, SyncState, PassOver, UnknownInterface, AcquireLock,
           SkipInterface, ChangeInterface, SkipBrokenDependent, ChangeDependent, AtDependent,
           DependentsDone, RunPhase, ReturnFromRun, FinishInterface, NoMoreTargets,
           OpenStateFile, At
  <2> QED  BY <1>3, <2>5, OverwriteEmpty DEF FlushStateFile
<1>5. k \in Iface /\ Reached(o, phys, k)
  <2>1. ToDo(o) = {}  BY <1>3 DEF ToDo, Keys, AtHand, HoldingState
  <2> QED  BY <1>1, <1>2, <2>1 DEF Honest
<1>6. o.refcount[k] \in Nat  BY <1>3, <1>5
<1>7. CASE o.cmd.up
  <2>1. HasRecord(o.state, k) /\ RecordOf(o.state, k) = Describe(o, k, k)
    BY <1>3, <1>5, <1>6, <1>7 DEF Agree, Reached
  <2>2. ~o.cmd.auto => o.explicit[k]  BY <1>5, <1>7 DEF Reached
  <2> QED  BY <1>4, <1>7, <2>1, <2>2 DEF Describe
<1>8. CASE ~o.cmd.up
  BY <1>3, <1>4, <1>5, <1>6, <1>8 DEF Agree, Reached
<1> QED  BY <1>7, <1>8

\* What the exit status 0 of a command promises of the file that
\* update_state_file_and_exit writes, whatever fails and though -a goes on after a
\* failure: ifup of named interfaces leaves a marked record of each of them, ifup -a a
\* record of each that it selects, and what ifdown was to take down is down or unrecorded.
THEOREM SuccessLeavesRecords == OwnStanzas /\ Alone /\ Spec => SuccessIsRecorded
<1>1. ASSUME HonestInv, [Next]_vars
      PROVE  \A p \in Proc : LET m == mem[p] IN
                 m.pc = "flush" /\ mem'[p].pc = "idle" /\ m.ok /\ crashes' = crashes =>
                     \A k \in WantedBy(m.cmd) :
                         IF m.cmd.up
                         THEN /\ HasRecord(ifstate', k)
                              /\ ~m.cmd.auto => RecordOf(ifstate', k).explicit
                         ELSE HasRecord(ifstate', k) => phys[k] = "down"
  BY <1>1, HonestWritten
<1> QED  BY <1>1, HonestInvariance, PTL DEF Spec, SuccessIsRecorded
=============================================================================
