---------------------- MODULE IfUpDownRefinement_proofs ----------------------
(***************************************************************************)
(* ifup and ifdown do what Requirements promises, for any interfaces and   *)
(* any sequence of commands: the initial states are its initial states,    *)
(* and each step is a step of it or changes nothing that it speaks of.     *)
(***************************************************************************)
EXTENDS IfUpDownRefinement, IfUpDownCounts_proofs

-----------------------------------------------------------------------------
(* What a running command has done so far and has left to do, in terms of  *)
(* its direction up, its stack s, the counts and explicit marks of its     *)
(* interfaces, the stanzas A that its arguments name, those of them, K,    *)
(* that it is not done with, and the stanzas that were wanted before.      *)

Marks(count, ex) == {i \in Iface : count[i] > 0 /\ ex[i]}

\* Each activation but the first was called for a stanza that the one before requires.
Chain(s) == \A n \in 1 .. Len(s) - 1 : s[n + 1].iface \in ToSet(Requires[s[n].iface])

\* An ifup marks what it is done with, and nothing else.
MarksUp(count, ex, A, K, want) ==
    /\ \A i \in Iface : ex[i] => count[i] > 0
    /\ want \subseteq Marks(count, ex)
    /\ Marks(count, ex) \subseteq want \cup A
    /\ A \subseteq Marks(count, ex) \cup K

\* An ifdown unmarks what it is done with; of the rest nothing that is marked goes down.
MarksDown(s, count, ex, A, K, want) ==
    /\ want \ A \subseteq Marks(count, ex)
    /\ Marks(count, ex) \subseteq want
    /\ Marks(count, ex) \cap A \subseteq K
    /\ \A n \in DOMAIN s : n > 1 => ~ex[s[n].iface]

Tracks(up, s, count, ex, A, K, want) ==
    /\ Chain(s) /\ K \subseteq A
    /\ s # << >> => s[1].iface \in K
    /\ IF up THEN MarksUp(count, ex, A, K, want) ELSE MarksDown(s, count, ex, A, K, want)

\* An interface that is up, or on its way, has a reason: an explicit mark, somebody who
\* holds a reference on it, the command that is going to mark it (W) or to take it down.
JustifiedFor(up, s, ph, count, ex, W, i) ==
    ph[i] = "up" \/ (up /\ i \in OnStack(s)) =>
        \/ i \in Marks(count, ex)
        \/ Holders(up, s, ph, i) # {}
        \/ i \in IF up THEN W ELSE OnStack(s)

Justified(up, s, ph, count, ex, W) ==
    \A i \in Iface : JustifiedFor(up, s, ph, count, ex, W, i)

\* The innermost activation calls lif_lifecycle_run for d.
LEMMA ChainGrows ==
    ASSUME NEW s \in Seq(Frame), Chain(s), NEW d \in Iface,
           s # << >> => d \in ToSet(Requires[s[Len(s)].iface])
    PROVE  Chain(Append(s, NewFrame(d)))
<1> DEFINE f == NewFrame(d)
           t == Append(s, f)
           l == Len(s)
<1>1. f \in Frame /\ f.iface = d  BY IfaceAssumption DEF NewFrame, Frame
<1> HIDE DEF f
<1>2. /\ l \in Nat /\ Len(t) = l + 1 /\ t[l + 1] = f
      /\ \A n \in 1 .. l : t[n] = s[n]
  BY <1>1, AppendProperties, LenProperties
<1>3. s = << >> => l = 0  OBVIOUS
<1> HIDE DEF t
<1> SUFFICES ASSUME NEW n \in 1 .. Len(t) - 1
             PROVE  t[n + 1].iface \in ToSet(Requires[t[n].iface])
  BY DEF Chain, t, f
<1>4. n \in 1 .. l /\ t[n] = s[n]
  <2> HIDE DEF l
  <2> QED  BY <1>2
<1>5. CASE n = l
  <2>1. s # << >>  BY <1>3, <1>4, <1>5
  <2>2. t[n] = s[l] /\ t[n + 1] = f  BY <1>2, <1>4, <1>5
  <2> QED  BY <1>1, <2>1, <2>2 DEF l
<1>6. CASE n # l
  <2> HIDE DEF l
  <2>1. n \in 1 .. l - 1 /\ n + 1 \in 1 .. l  BY <1>2, <1>4, <1>6
  <2>2. t[n + 1] = s[n + 1]  BY <1>2, <2>1
  <2> QED  BY <1>4, <2>1, <2>2 DEF Chain, l
<1> QED  BY <1>5, <1>6

\* Two stacks of the same stanzas.
LEMMA ChainKept ==
    ASSUME NEW s, NEW t, Chain(s), Len(t) \in Nat, Len(s) \in Nat, Len(t) <= Len(s),
           \A n \in 1 .. Len(t) : t[n].iface = s[n].iface
    PROVE  Chain(t)
<1> SUFFICES ASSUME NEW n \in 1 .. Len(t) - 1
             PROVE  t[n + 1].iface \in ToSet(Requires[t[n].iface])
  BY DEF Chain
<1>1. n \in 1 .. Len(t) /\ n + 1 \in 1 .. Len(t) /\ n \in 1 .. Len(s) - 1
  OBVIOUS
<1> QED  BY <1>1 DEF Chain

\* A stanza further up the stack requires one further down, if only indirectly.
LEMMA ChainReaches ==
    ASSUME NEW s, Chain(s), Len(s) \in Nat, NEW T,
           \A i \in T : ToSet(Requires[i]) \subseteq T,
           NEW a \in 1 .. Len(s), s[a].iface \in T
    PROVE  \A b \in a .. Len(s) : s[b].iface \in T
<1> SUFFICES ASSUME NEW c \in a .. Len(s), s[c].iface \notin T  PROVE FALSE
  OBVIOUS
<1> DEFINE B == {b \in a .. Len(s) : s[b].iface \notin T}
<1>1. B \in SUBSET Nat /\ B # {}  OBVIOUS
<1>2. PICK b \in B : \A y \in B : b <= y  BY <1>1, LeastElement
<1>3. b \in a .. Len(s) /\ s[b].iface \notin T /\ b # a  BY <1>2
<1> DEFINE p == b - 1
<1>4. p \in a .. Len(s) /\ p \in 1 .. Len(s) - 1 /\ p + 1 = b /\ ~(b <= p)  BY <1>3
<1>5. s[p].iface \in T  BY <1>2, <1>4
<1>6. s[p + 1].iface \in ToSet(Requires[s[p].iface])  BY <1>4 DEF Chain
<1> QED  BY <1>3, <1>4, <1>5, <1>6

\* A call of lif_lifecycle_run: for the target, or for a dependent that goes up with its
\* requirer, or that goes down because nothing is left that keeps it up.
LEMMA CallTracks ==
    ASSUME NEW up, NEW s, NEW ph, NEW d, Callable(up, s, ph, d),
           NEW count, NEW ex, NEW A, NEW K, NEW want, Tracks(up, s, count, ex, A, K, want),
           NEW W, \A i \in Iface \ {d} : JustifiedFor(up, s, ph, count, ex, W, i),
           IF s = << >> THEN d \in K /\ (up => d \in W)
           ELSE /\ d \in ToSet(Requires[s[Len(s)].iface])
                /\ up => Holders(up, s, ph, d) # {}
                /\ ~up => ~ex[d]
    PROVE  LET t == Append(s, NewFrame(d))
           IN  Tracks(up, t, count, ex, A, K, want) /\ Justified(up, t, ph, count, ex, W)
<1> DEFINE t == Append(s, NewFrame(d))
           l == Len(s)
<1>0. /\ up \in BOOLEAN /\ s \in Seq(Frame) /\ d \in Iface  BY DEF Callable
<1>1. /\ l \in Nat /\ DOMAIN s = 1 .. l /\ DOMAIN t = 1 .. l + 1
      /\ \A n \in 1 .. l : t[n] = s[n]
      /\ t[l + 1] = NewFrame(d)
      /\ OnStack(t) = OnStack(s) \cup {d}
      /\ \A i \in Iface : Holders(up, t, ph, i) = Holders(up, s, ph, i)
  BY PushHolders
<1>2. NewFrame(d).iface = d  BY DEF NewFrame
<1>3. Chain(t)  BY <1>0, ChainGrows DEF Tracks
<1>4. s # << >> => l >= 1  BY <1>0, EmptySeq
<1> HIDE DEF t
<1>5. t # << >> /\ t[1].iface \in K
  <2>1. 1 \in DOMAIN t  BY <1>1
  <2>2. t # << >>  BY <2>1
  <2>3. CASE s = << >>
    <3>1. l = 0  BY <2>3
    <3> HIDE DEF l
    <3>2. t[1] = NewFrame(d)  BY <1>1, <3>1
    <3> QED  BY <1>2, <2>2, <2>3, <3>2
  <2>4. CASE s # << >>
    <3> HIDE DEF l
    <3>1. t[1] = s[1]  BY <1>1, <1>4, <2>4
    <3> QED  BY <2>2, <2>4, <3>1 DEF Tracks
  <2> QED  BY <2>3, <2>4
<1>6. \A n \in DOMAIN t : n > 1 /\ ~up /\ (\A k \in DOMAIN s : k > 1 => ~ex[s[k].iface]) => ~ex[t[n].iface]
  <2> SUFFICES ASSUME NEW n \in DOMAIN t, n > 1, ~up, \A k \in DOMAIN s : k > 1 => ~ex[s[k].iface]
               PROVE  ~ex[t[n].iface]
    OBVIOUS
  <2>1. CASE n = l + 1
    <3>1. s # << >>
      <4>1. s = << >> => l = 0  OBVIOUS
      <4> QED  BY <2>1, <4>1
    <3> HIDE DEF l
    <3> QED  BY <1>1, <1>2, <2>1, <3>1
  <2>2. CASE n # l + 1
    <3> HIDE DEF l
    <3>1. n \in 1 .. l  BY <1>1, <2>2
    <3> QED  BY <1>1, <3>1
  <2> QED  BY <2>1, <2>2
<1>7. Tracks(up, t, count, ex, A, K, want)
  BY <1>3, <1>5, <1>6 DEF Tracks, MarksDown
<1>8. \A i \in Iface : JustifiedFor(up, t, ph, count, ex, W, i)
  <2> SUFFICES ASSUME NEW i \in Iface  PROVE JustifiedFor(up, t, ph, count, ex, W, i)
    OBVIOUS
  <2>1. CASE i # d
    <3>1. JustifiedFor(up, s, ph, count, ex, W, i)  BY <2>1
    <3> QED  BY <1>1, <2>1, <3>1 DEF JustifiedFor
  <2>2. CASE i = d
    BY <1>0, <1>1, <2>2 DEF JustifiedFor
  <2> QED  BY <2>1, <2>2
<1> QED  BY <1>7, <1>8 DEF t, Justified

\* What a command tracks depends only on which counts are zero.
LEMMA TracksSame ==
    ASSUME NEW up, NEW s, NEW count, NEW ex, NEW A, NEW K, NEW want,
           Tracks(up, s, count, ex, A, K, want),
           NEW t, NEW after, Chain(t), t # << >> => s # << >> /\ t[1].iface = s[1].iface,
           \A n \in DOMAIN t : n \in DOMAIN s /\ t[n].iface = s[n].iface,
           \A i \in Iface : ex[i] => (after[i] > 0 <=> count[i] > 0)
    PROVE  /\ Tracks(up, t, after, ex, A, K, want)
           /\ Marks(after, ex) = Marks(count, ex)
<1>1. Marks(after, ex) = Marks(count, ex)  BY DEF Marks
<1>2. Tracks(up, t, after, ex, A, K, want)
  BY <1>1 DEF Tracks, MarksUp, MarksDown
<1> QED  BY <1>1, <1>2

\* Going down, the dependent that an activation gives up is up, and so has the count of
\* its own reference and of those that others hold.
LEMMA VisitedDown ==
    ASSUME IsFiniteSet(Iface), RequiresDistinct,
           NEW s, NEW ph, NEW count, NEW t, NEW d, NEW after,
           VisitsDown(s, t, d, ph, count, after)
    PROVE  /\ ph[d] = "up" /\ d \notin OnStack(s) /\ count[d] > 0 /\ after[d] > 0
           /\ ~(after[d] <= 1) => Holders(FALSE, t, ph, d) # {}
<1>. /\ Shape(FALSE, s, ph, count) /\ Books(FALSE, s, ph, count)
     /\ Visits(s, t, d) /\ s[Len(s)].at = 5
     /\ after[d] = count[d] - 1 /\ \A i \in Iface \ {d} : after[i] = count[i]
  BY DEF VisitsDown
<1>1. /\ count[d] > 0
      /\ OnStack(t) = OnStack(s) /\ d \notin OnStack(s) /\ ph[d] = "up"
      /\ Books(FALSE, t, ph, after)
      /\ after[d] <= 1 => Holders(FALSE, t, ph, d) = {}
  BY VisitDown
<1>2. d \in Iface
  <2>1. s \in Seq(Frame)  BY DEF Shape
  <2> QED  BY <2>1, VisitedType
<1> DEFINE h == Cardinality(Holders(FALSE, t, ph, d))
<1>3. Itself(FALSE, t, ph, d) = 1  BY <1>1 DEF Itself
<1>4. h \in Nat  BY HoldersFinite
<1>5. after[d] = h + 1
  <2>1. after[d] = h + Itself(FALSE, t, ph, d)
    BY <1>1, <1>2 DEF Books, Exact, ExactFor
  <2> HIDE DEF h
  <2> QED  BY <2>1, <1>3
<1>6. h # 0 => Holders(FALSE, t, ph, d) # {}  BY FS_EmptySet
<1> HIDE DEF h
<1>7. after[d] > 0 /\ (~(after[d] <= 1) => h # 0)  BY <1>4, <1>5
<1> QED  BY <1>1, <1>6, <1>7

\* handle_dependents counts the next dependent, or gives it up: unless it is going to
\* call lif_lifecycle_run for it, the dependent has a reason to be up as before.
LEMMA VisitTracks ==
    ASSUME IsFiniteSet(Iface), RequiresDistinct,
           NEW up, NEW s, NEW ph, NEW count, Shape(up, s, ph, count), Books(up, s, ph, count),
           NEW t, NEW d, Visits(s, t, d), s[Len(s)].at = (IF up THEN 1 ELSE 5),
           NEW after, after[d] = (IF up THEN count[d] + 1 ELSE count[d] - 1),
           \A i \in Iface \ {d} : after[i] = count[i],
           NEW ex, NEW A, NEW K, NEW want, Tracks(up, s, count, ex, A, K, want),
           NEW W, Justified(up, s, ph, count, ex, W)
    PROVE  /\ OnStack(t) = OnStack(s) /\ Tracks(up, t, after, ex, A, K, want)
           /\ t # << >> /\ d \in Iface /\ d \in ToSet(Requires[t[Len(t)].iface])
           /\ up => Holders(up, t, ph, d) # {}
           /\ \A i \in Iface \ {d} : JustifiedFor(up, t, ph, after, ex, W, i)
           /\ ~Calls(up, s, after, ex, d) /\ d \notin OnStack(s) =>
                  JustifiedFor(up, t, ph, after, ex, W, d)
           /\ d \in OnStack(s) => JustifiedFor(up, t, ph, after, ex, W, d)
           /\ d \notin OnStack(s) => (after[d] <= 1 => (ph[d] = "up" <=> ~up))
<1> DEFINE l == Len(s)
           f == s[l]
<1>0. /\ up \in BOOLEAN /\ s \in Seq(Frame) /\ count \in [Iface -> Nat]
      /\ l \in Nat \ {0} /\ DOMAIN s = 1 .. l /\ f \in Frame
  <2>1. up \in BOOLEAN /\ s \in Seq(Frame) /\ count \in [Iface -> Nat]  BY DEF Shape
  <2>2. l \in Nat \ {0}  BY DEF Visits
  <2>3. DOMAIN s = 1 .. l  BY <2>1, LenProperties
  <2>4. l \in DOMAIN s
    <3> HIDE DEF l
    <3> QED  BY <2>2, <2>3
  <2>5. f \in Frame  BY <2>1, <2>4, ElementOfSeq
  <2> QED  BY <2>1, <2>2, <2>3, <2>5
<1>1. /\ f.iface \in Iface /\ d \in Iface /\ OnStack(t) = OnStack(s)
      /\ \A i \in Iface \ {d} : Holders(up, t, ph, i) = Holders(up, s, ph, i)
      /\ up => Holders(up, t, ph, d) = Holders(up, s, ph, d) \cup {f.iface}
  BY VisitHolders
<1>2. /\ Len(t) = l /\ DOMAIN t = 1 .. l /\ \A n \in 1 .. l : t[n].iface = s[n].iface
  <2>0. t[l].iface = s[l].iface  BY DEF Visits
  <2>1. t \in Seq(Frame) /\ Len(t) = l /\ \A n \in 1 .. l - 1 : t[n] = s[n]
    BY DEF Visits
  <2>2. DOMAIN t = 1 .. l  BY <2>1, LenProperties
  <2> HIDE DEF l
  <2>3. \A n \in 1 .. l : n = l \/ n \in 1 .. l - 1
    <3>1. l \in Nat \ {0}  BY <1>0
    <3> QED  BY <3>1
  <2>4. \A n \in 1 .. l : t[n].iface = s[n].iface
    <3> SUFFICES ASSUME NEW n \in 1 .. l  PROVE t[n].iface = s[n].iface
      OBVIOUS
    <3>1. CASE n = l  BY <2>0, <3>1
    <3>2. CASE n \in 1 .. l - 1  BY <2>1, <3>2
    <3> QED  BY <2>3, <3>1, <3>2
  <2> QED  BY <2>1, <2>2, <2>4
<1>3. d \in ToSet(Requires[f.iface])
  <2>1. d = Requires[f.iface][f.next] /\ f.next <= Len(Requires[f.iface])
    BY DEF Visits
  <2>2. f.next \in DOMAIN Requires[f.iface]  BY <1>0, <2>1, NextRequired
  <2> HIDE DEF f
  <2> QED  BY <2>1, <2>2 DEF ToSet
<1>4. ~up => /\ ph[d] = "up" /\ d \notin OnStack(s) /\ count[d] > 0 /\ after[d] > 0
             /\ ~(after[d] <= 1) => Holders(FALSE, t, ph, d) # {}
  <2> SUFFICES ASSUME ~up
               PROVE  /\ ph[d] = "up" /\ d \notin OnStack(s) /\ count[d] > 0 /\ after[d] > 0
                      /\ ~(after[d] <= 1) => Holders(FALSE, t, ph, d) # {}
    OBVIOUS
  <2>1. up = FALSE  BY <1>0
  <2>2. Shape(FALSE, s, ph, count) /\ Books(FALSE, s, ph, count)  BY <2>1
  <2>3. s[Len(s)].at = 5  OBVIOUS
  <2>4. after[d] = count[d] - 1  OBVIOUS
  <2>5. VisitsDown(s, t, d, ph, count, after)  BY <2>2, <2>3, <2>4 DEF VisitsDown
  <2>6. IsFiniteSet(Iface) /\ RequiresDistinct  OBVIOUS
  <2> QED  BY ONLY <2>5, <2>6, VisitedDown
<1>6. \A i \in Iface : ex[i] => (after[i] > 0 <=> count[i] > 0)
  <2> SUFFICES ASSUME NEW i \in Iface, ex[i]  PROVE after[i] > 0 <=> count[i] > 0
    OBVIOUS
  <2>1. CASE i # d  BY <2>1
  <2>2. CASE i = d /\ up
    <3>1. count[d] > 0  BY <2>2 DEF Tracks, MarksUp
    <3> QED  BY <1>0, <1>1, <2>2, <3>1
  <2>3. CASE i = d /\ ~up
    <3>1. count[d] > 0 /\ after[d] > 0  BY <1>4, <2>3
    <3> QED  BY <2>3, <3>1
  <2> QED  BY <1>0, <2>1, <2>2, <2>3
<1>7. Chain(t)
  <2>1. Chain(s) /\ Len(s) \in Nat /\ Len(t) \in Nat  BY <1>0, <1>2 DEF Tracks
  <2> QED  BY <1>2, <2>1, ChainKept
<1>8. t # << >> /\ s # << >> /\ t[1].iface = s[1].iface
  <2>1. 1 \in DOMAIN t /\ 1 \in DOMAIN s /\ t[1].iface = s[1].iface
    <3> HIDE DEF l
    <3> QED  BY <1>0, <1>2
  <2> QED  BY <2>1
<1>9. \A n \in DOMAIN t : n \in DOMAIN s /\ t[n].iface = s[n].iface
  BY <1>0, <1>2
<1>10. /\ Tracks(up, t, after, ex, A, K, want) /\ Marks(after, ex) = Marks(count, ex)
  <2> HIDE DEF l
  <2>1. t # << >> => s # << >> /\ t[1].iface = s[1].iface  BY <1>8
  <2> QED  BY <1>6, <1>7, <1>9, <2>1, TracksSame
<1>11. \A i \in Iface \ {d} : JustifiedFor(up, t, ph, after, ex, W, i)
  <2> SUFFICES ASSUME NEW i \in Iface \ {d}  PROVE JustifiedFor(up, t, ph, after, ex, W, i)
    OBVIOUS
  <2>1. JustifiedFor(up, s, ph, count, ex, W, i)  BY DEF Justified
  <2> QED  BY <1>1, <1>10, <2>1 DEF JustifiedFor
<1>12. up => Holders(up, t, ph, d) # {}  BY <1>1
<1>13. ~Calls(up, s, after, ex, d) => JustifiedFor(up, t, ph, after, ex, W, d)
  <2>1. CASE up  BY <1>12, <2>1 DEF JustifiedFor
  <2>2. CASE ~up
    <3> SUFFICES ASSUME ~Calls(up, s, after, ex, d)
                 PROVE  JustifiedFor(up, t, ph, after, ex, W, d)
      OBVIOUS
    <3>1. ~(after[d] <= 1) \/ ex[d]  BY <1>4, <2>2 DEF Calls
    <3>2. CASE ex[d]
      <4>1. after[d] > 0  BY <1>4, <2>2
      <4>2. d \in Marks(after, ex)  BY <1>1, <3>2, <4>1 DEF Marks
      <4> QED  BY <4>2 DEF JustifiedFor
    <3>3. CASE ~(after[d] <= 1)
      <4>1. Holders(FALSE, t, ph, d) # {}  BY <1>4, <2>2, <3>3
      <4>2. up = FALSE  BY <1>0, <2>2
      <4>3. Holders(up, t, ph, d) # {}  BY <4>1, <4>2
      <4> QED  BY <4>3 DEF JustifiedFor
    <3> QED  BY <3>1, <3>2, <3>3
  <2> QED  BY <2>1, <2>2
<1>14. d \notin OnStack(s) => (after[d] <= 1 => (ph[d] = "up" <=> ~up))
  <2>1. CASE ~up  BY <1>4, <2>1
  <2>2. CASE up
    <3> SUFFICES ASSUME d \notin OnStack(s), after[d] <= 1  PROVE ph[d] # "up"
      BY <2>2
    <3>1. count[d] = 0  BY <1>0, <1>1, <2>2
    <3>2. Itself(up, s, ph, d) = 0  BY <1>1, <3>1, ZeroCount
    <3> QED  BY <2>2, <3>2 DEF Itself
  <2> QED  BY <2>1, <2>2
<1>15. d \in ToSet(Requires[t[Len(t)].iface])
  <2>1. t[l].iface = f.iface
    <3> HIDE DEF l
    <3>1. l \in 1 .. l  BY <1>0
    <3> QED  BY <1>2, <3>1
  <2> QED  BY <1>2, <1>3, <2>1
<1>16. d \in OnStack(s) => JustifiedFor(up, t, ph, after, ex, W, d)
  BY <1>13 DEF Calls
<1> QED  BY <1>1, <1>8, <1>10, <1>11, <1>12, <1>13, <1>14, <1>15, <1>16

\* A phase succeeds, or handle_dependents returns: what goes up was on its way.
LEMMA AdvanceTracks ==
    ASSUME NEW up, NEW s, NEW ph, NEW count, Shape(up, s, ph, count),
           NEW t, NEW qh, Advances(up, s, t, ph, qh),
           NEW ex, NEW A, NEW K, NEW want, Tracks(up, s, count, ex, A, K, want),
           NEW W, Justified(up, s, ph, count, ex, W)
    PROVE  Tracks(up, t, count, ex, A, K, want) /\ Justified(up, t, qh, count, ex, W)
<1> DEFINE l == Len(s)
           f == s[l]
<1>1. /\ OnStack(t) = OnStack(s) /\ f.iface \in OnStack(s)
      /\ \A i \in Iface : Holders(up, t, qh, i) = Holders(up, s, ph, i)
  BY AdvanceHolders
<1>2. l \in Nat \ {0} /\ s \in Seq(Frame) /\ DOMAIN s = 1 .. l /\ DOMAIN t = 1 .. l /\ Len(t) = l
  <2>1. l \in Nat \ {0} /\ s \in Seq(Frame) /\ t \in Seq(Frame) /\ Len(t) = l
    BY DEF Advances, Shape
  <2>2. DOMAIN s = 1 .. l  BY <2>1, LenProperties
  <2>3. DOMAIN t = 1 .. l  BY <2>1, LenProperties
  <2> QED  BY <2>1, <2>2, <2>3
<1>3. \A n \in 1 .. l : t[n].iface = s[n].iface
  <2>1. t[l].iface = s[l].iface  BY DEF Advances
  <2>2. \A n \in 1 .. l - 1 : t[n] = s[n]  BY DEF Advances
  <2> HIDE DEF l
  <2>3. \A n \in 1 .. l : n = l \/ n \in 1 .. l - 1
    <3>1. l \in Nat \ {0}  BY <1>2
    <3> QED  BY <3>1
  <2> SUFFICES ASSUME NEW n \in 1 .. l  PROVE t[n].iface = s[n].iface
    OBVIOUS
  <2>4. CASE n = l  BY <2>1, <2>4
  <2>5. CASE n \in 1 .. l - 1  BY <2>2, <2>5
  <2> QED  BY <2>3, <2>4, <2>5
<1>4. Chain(t)
  <2>1. Chain(s) /\ Len(s) \in Nat /\ Len(t) \in Nat  BY <1>2 DEF Tracks
  <2> QED  BY <1>2, <1>3, <2>1, ChainKept
<1>5. t # << >> => s # << >> /\ t[1].iface = s[1].iface
  <2>1. 1 \in DOMAIN t /\ 1 \in DOMAIN s /\ t[1].iface = s[1].iface
    <3> HIDE DEF l
    <3> QED  BY <1>2, <1>3
  <2> QED  BY <2>1
<1>6. \A n \in DOMAIN t : n \in DOMAIN s /\ t[n].iface = s[n].iface
  BY <1>2, <1>3
<1>7. Tracks(up, t, count, ex, A, K, want)
  <2> HIDE DEF l
  <2> QED  BY <1>4, <1>5, <1>6, TracksSame
<1>8. ASSUME NEW i \in Iface  PROVE JustifiedFor(up, t, qh, count, ex, W, i)
  <2>1. JustifiedFor(up, s, ph, count, ex, W, i)  BY DEF Justified
  <2>2. qh[i] = "up" => ph[i] = "up" \/ (up /\ i \in OnStack(s))
    <3>1. qh[f.iface] = "up" => up  BY DEF Advances
    <3>2. i # f.iface => qh[i] = ph[i]  BY DEF Advances
    <3> QED  BY <1>1, <3>1, <3>2
  <2> QED  BY <1>1, <2>1, <2>2 DEF JustifiedFor
<1> QED  BY <1>7, <1>8 DEF Justified

\* lif_lifecycle_run returns: going up, its interface is up; going down, the target
\* gives up its explicit mark together with its count.
LEMMA ReturnTracks ==
    ASSUME IsFiniteSet(Iface),
           NEW up, NEW s, NEW ph, NEW count, Shape(up, s, ph, count), Books(up, s, ph, count),
           NEW t, NEW after, Returns(up, s, t, count, after),
           NEW ex, NEW A, NEW K, NEW want, Tracks(up, s, count, ex, A, K, want),
           NEW W, Justified(up, s, ph, count, ex, W)
    PROVE  Tracks(up, t, after, ex, A, K, want) /\ Justified(up, t, ph, after, ex, W)
<1> DEFINE l == Len(s)
           f == s[l]
           i == f.iface
<1>0. up \in BOOLEAN /\ count \in [Iface -> Nat]  BY DEF Shape
<1>1. /\ i \in Iface /\ (ph[i] = "up" <=> up)
      /\ OnStack(s) = OnStack(t) \cup {i} /\ i \notin OnStack(t)
      /\ \A j \in Iface : Holders(up, t, ph, j) = Holders(up, s, ph, j)
  BY ReturnHolders
<1>2. /\ l \in Nat \ {0} /\ s \in Seq(Frame) /\ t \in Seq(Frame) /\ Len(t) = l - 1
      /\ \A n \in 1 .. l - 1 : t[n] = s[n]
      /\ \A j \in Iface \ {i} : after[j] = count[j]
  BY DEF Returns, Shape
<1>3. DOMAIN s = 1 .. l /\ DOMAIN t = 1 .. l - 1
  BY <1>2, LenProperties
<1>4. \A n \in DOMAIN t : n \in DOMAIN s /\ t[n].iface = s[n].iface
  <2> HIDE DEF l
  <2>1. \A n \in 1 .. l - 1 : n \in 1 .. l  BY <1>2
  <2> QED  BY <1>2, <1>3, <2>1
<1>5. Chain(t)
  <2>1. Chain(s) /\ Len(s) \in Nat /\ Len(t) \in Nat /\ Len(t) <= Len(s)  BY <1>2 DEF Tracks
  <2>2. \A n \in 1 .. Len(t) : t[n].iface = s[n].iface  BY <1>2, <1>3, <1>4
  <2> QED  BY <2>1, <2>2, ChainKept
<1>6. s # << >> /\ (t # << >> => t[1].iface = s[1].iface)
  <2>1. s # << >>  BY <1>1 DEF OnStack
  <2>2. t # << >> => 1 \in DOMAIN t
    <3>1. t # << >> => Len(t) \in Nat \ {0}  BY <1>2, EmptySeq, LenProperties
    <3> HIDE DEF l
    <3> QED  BY <1>2, <1>3, <3>1
  <2> QED  BY <1>4, <2>1, <2>2
<1>7. CASE up
  <2>1. after[i] = count[i] + 1  BY <1>7 DEF Returns
  <2>2. \A j \in Iface : ex[j] => (after[j] > 0 <=> count[j] > 0)
    <3>1. \A j \in Iface : ex[j] => count[j] > 0  BY <1>7 DEF Tracks, MarksUp
    <3> HIDE DEF i
    <3>2. after[i] > 0  BY <1>0, <1>1, <2>1
    <3> QED  BY <1>2, <3>1, <3>2
  <2>3. Tracks(up, t, after, ex, A, K, want) /\ Marks(after, ex) = Marks(count, ex)
    <3>1. t # << >> => s # << >> /\ t[1].iface = s[1].iface  BY <1>6
    <3> HIDE DEF l, i
    <3> QED  BY <1>4, <1>5, <2>2, <3>1, TracksSame
  <2>4. ASSUME NEW j \in Iface  PROVE JustifiedFor(up, t, ph, after, ex, W, j)
    <3>1. JustifiedFor(up, s, ph, count, ex, W, j)  BY DEF Justified
    <3> HIDE DEF i
    <3> QED  BY <1>1, <1>7, <2>3, <3>1 DEF JustifiedFor
  <2> QED  BY <2>3, <2>4 DEF Justified
<1>8. CASE ~up
  <2>0. up = FALSE  BY <1>0, <1>8
  <2>1. ph[i] # "up" /\ i \in OnStack(s)  BY <1>1, <1>8
  <2>2. count[i] = 1
    <3>1. Holders(FALSE, s, ph, i) = {}
      <4>1. PICK n \in DOMAIN s : s[n].iface = i  BY <2>1 DEF OnStack
      <4>2. FrameOK(FALSE, s, ph, s[n])  BY <2>0 DEF Books, FramesOK
      <4> QED  BY <4>1, <4>2 DEF FrameOK
    <3> DEFINE h == Cardinality(Holders(FALSE, s, ph, i))
               e == Itself(FALSE, s, ph, i)
    <3>2. e = 1  BY <2>1 DEF Itself
    <3>3. count[i] = h + e  BY <1>1, <2>0 DEF Books, Exact, ExactFor
    <3>4. h = 0  BY <3>1, FS_EmptySet
    <3> HIDE DEF h, e, i
    <3> QED  BY <3>2, <3>3, <3>4
  <2>3. after[i] = 0
    <3>1. after[i] = count[i] - 1  BY <1>8 DEF Returns
    <3> QED  BY <2>2, <3>1
  <2>4. Marks(after, ex) = Marks(count, ex) \ {i}
    <3> HIDE DEF i
    <3> QED  BY <1>1, <1>2, <2>3 DEF Marks
  <2>5. i \in Marks(count, ex) => i \in A
    <3> SUFFICES ASSUME ex[i]  PROVE i \in A
      BY DEF Marks
    <3>1. l \in DOMAIN s
      <4> HIDE DEF l
      <4> QED  BY <1>2, <1>3
    <3>2. ~(l > 1)  BY <1>8, <3>1 DEF Tracks, MarksDown
    <3>3. l = 1
      <4> HIDE DEF l
      <4> QED  BY <1>2, <3>2
    <3>4. s[1].iface \in K /\ K \subseteq A  BY <1>6 DEF Tracks
    <3> QED  BY <3>3, <3>4
  <2>6. MarksDown(t, after, ex, A, K, want)
    <3>1. MarksDown(s, count, ex, A, K, want)  BY <1>8 DEF Tracks
    <3>2. \A n \in DOMAIN t : n > 1 => ~ex[t[n].iface]  BY <1>4, <3>1 DEF MarksDown
    <3> HIDE DEF i
    <3> QED  BY <2>4, <2>5, <3>1, <3>2 DEF MarksDown
  <2>7. Tracks(up, t, after, ex, A, K, want)
    <3>1. K \subseteq A /\ (t # << >> => t[1].iface \in K)  BY <1>6 DEF Tracks
    <3> QED  BY <1>5, <1>8, <2>6, <3>1 DEF Tracks
  <2>8. ASSUME NEW j \in Iface  PROVE JustifiedFor(up, t, ph, after, ex, W, j)
    <3>1. JustifiedFor(up, s, ph, count, ex, W, j)  BY DEF Justified
    <3> HIDE DEF i
    <3> QED  BY <1>1, <1>8, <2>1, <2>4, <3>1 DEF JustifiedFor
  <2> QED  BY <2>7, <2>8 DEF Justified
<1> QED  BY <1>7, <1>8

-----------------------------------------------------------------------------
(* What Requirements asks of a phase that brings an interface up or begins *)
(* to take it down.                                                        *)

\* What is needed for S, with the requires lists of the stanzas.
LEMMA NeededIs ==
    ASSUME NEW S, NEW i
    PROVE  i \in Promise!Needed(S) <=>
               /\ i \in Iface
               /\ \A T \in SUBSET Iface :
                      S \subseteq T /\ (\A j \in T : ToSet(Requires[j]) \subseteq T) => i \in T
<1>1. \A T \in SUBSET Iface :
          Promise!Closed(T) <=> \A j \in T : ToSet(Requires[j]) \subseteq T
  BY DEF Promise!Closed
<1> QED  BY <1>1 DEF Promise!Needed

\* What is further up the stack is needed for what is further down.
LEMMA ChainNeeded ==
    ASSUME NEW s \in Seq(Frame), Chain(s), NEW a \in 1 .. Len(s), NEW b \in a .. Len(s),
           NEW S, s[a].iface \in S
    PROVE  s[b].iface \in Promise!Needed(S)
<1>1. Len(s) \in Nat /\ DOMAIN s = 1 .. Len(s)  BY LenProperties
<1>2. b \in DOMAIN s  BY <1>1
<1>3. s[b] \in Frame  BY <1>2, ElementOfSeq
<1>4. s[b].iface \in Iface  BY <1>3 DEF Frame
<1>5. ASSUME NEW T \in SUBSET Iface, S \subseteq T, \A j \in T : ToSet(Requires[j]) \subseteq T
      PROVE  s[b].iface \in T
  <2>1. s[a].iface \in T  BY <1>5
  <2>2. \A c \in a .. Len(s) : s[c].iface \in T  BY <1>1, <1>5, <2>1, ChainReaches
  <2> QED  BY <2>2
<1> QED  BY <1>4, <1>5, NeededIs

\* The interface that a successful post-up brings up is needed for the arguments of
\* the command, and what it requires is up or waits for it further up a cycle.
LEMMA UpIsNeeded ==
    ASSUME NEW s, NEW ph, NEW count, Shape(TRUE, s, ph, count), Books(TRUE, s, ph, count),
           NEW l, l = Len(s), l \in Nat \ {0}, s[l].at = 5,
           NEW ex, NEW A, NEW K, NEW want, Tracks(TRUE, s, count, ex, A, K, want)
    PROVE  /\ s[l].iface \in Promise!Needed(want \cup A) /\ ph[s[l].iface] # "up"
           /\ \A d \in ToSet(Requires[s[l].iface]) :
                  ph[d] = "up" \/ s[l].iface \in Promise!Needed({d})
<1> DEFINE f == s[l]
<1>1. s \in Seq(Frame) /\ DOMAIN s = 1 .. l /\ l \in DOMAIN s
  <2>1. s \in Seq(Frame)  BY DEF Shape
  <2>2. DOMAIN s = 1 .. l  BY <2>1, LenProperties
  <2> QED  BY <2>1, <2>2
<1>2. f \in Frame  BY <1>1, ElementOfSeq
<1>3. FrameOK(TRUE, s, ph, f)  BY <1>1 DEF Books, FramesOK
<1>4. ph[f.iface] # "up" /\ f.next > Len(Requires[f.iface])
  BY <1>2, <1>3 DEF FrameOK
<1>5. Chain(s) /\ s[1].iface \in A
  <2>1. s # << >>  BY <1>1
  <2> QED  BY <2>1 DEF Tracks
<1>6. f.iface \in Promise!Needed(want \cup A)
  <2>1. 1 \in 1 .. Len(s) /\ l \in 1 .. Len(s)  OBVIOUS
  <2>2. s[1].iface \in want \cup A  BY <1>5
  <2> QED  BY <1>1, <1>5, <2>1, <2>2, ChainNeeded
<1>7. ASSUME NEW d \in ToSet(Requires[f.iface])
      PROVE  ph[d] = "up" \/ f.iface \in Promise!Needed({d})
  <2>1. f.iface \in Iface  BY <1>2 DEF Frame
  <2>2. /\ Len(Requires[f.iface]) \in Nat
        /\ DOMAIN Requires[f.iface] = 1 .. Len(Requires[f.iface])
        /\ \A n \in 1 .. Len(Requires[f.iface]) : Requires[f.iface][n] \in Iface
    BY <2>1, RequiresType
  <2>3. PICK j \in DOMAIN Requires[f.iface] : Requires[f.iface][j] = d
    BY DEF ToSet
  <2>4. d \in Iface  BY <2>2, <2>3
  <2>5. j < f.next
    <3>1. f.next \in Nat  BY <1>2 DEF Frame
    <3>2. j \in 1 .. Len(Requires[f.iface])  BY <2>2, <2>3
    <3> HIDE DEF f
    <3> QED  BY <1>4, <2>2, <3>1, <3>2
  <2>6. Keeps(TRUE, f, d)  BY <2>3, <2>5 DEF Keeps
  <2>7. f.iface \in Holders(TRUE, s, ph, d)  BY <1>1, <2>1, <2>6 DEF Holders
  <2>8. HeldFor(TRUE, s, ph, d)  BY <2>4 DEF Books
  <2>9. ph[d] = "up" \/ d \in OnStack(s)  BY <2>7, <2>8 DEF HeldFor
  <2>10. ASSUME d \in OnStack(s)  PROVE f.iface \in Promise!Needed({d})
    <3>1. PICK a \in DOMAIN s : s[a].iface = d  BY <2>10 DEF OnStack
    <3>2. a \in 1 .. Len(s) /\ l \in a .. Len(s)  BY <1>1, <3>1
    <3>3. s[a].iface \in {d}  BY <3>1
    <3> QED  BY <1>1, <1>5, <3>2, <3>3, ChainNeeded
  <2> QED  BY <2>9, <2>10
<1> QED  BY <1>4, <1>6, <1>7

\* The interface whose pre-down runs is up and not needed any more, and nothing that is
\* up requires it.
LEMMA DownIsUnneeded ==
    ASSUME NEW s, NEW ph, NEW count, Shape(FALSE, s, ph, count), Books(FALSE, s, ph, count),
           NEW l, l = Len(s), l \in Nat \ {0}, s[l].at = 1,
           NEW ex, NEW A, NEW K, NEW want, want \subseteq Iface,
           Tracks(FALSE, s, count, ex, A, K, want)
    PROVE  /\ ph[s[l].iface] = "up" /\ s[l].iface \in Iface
           /\ s[l].iface \notin Promise!Needed(want \ A)
           /\ \A r \in Iface : ph[r] = "up" => s[l].iface \notin ToSet(Requires[r])
<1> DEFINE f == s[l]
           T == {i \in Iface : ph[i] = "up" /\ i \notin OnStack(s)}
<1>1. s \in Seq(Frame) /\ DOMAIN s = 1 .. l /\ l \in DOMAIN s
  <2>1. s \in Seq(Frame)  BY DEF Shape
  <2>2. DOMAIN s = 1 .. l  BY <2>1, LenProperties
  <2> QED  BY <2>1, <2>2
<1>2. f \in Frame /\ f.iface \in Iface
  <2>1. f \in Frame  BY <1>1, ElementOfSeq
  <2> HIDE DEF f
  <2> QED  BY <2>1 DEF Frame
<1>3. ASSUME NEW n \in DOMAIN s
      PROVE  /\ ph[s[n].iface] = "up" <=> s[n].at = 1
             /\ s[n].at = 1 => s[n].next = 1
             /\ Holders(FALSE, s, ph, s[n].iface) = {}
  <2> DEFINE g == s[n]
  <2>1. FrameOK(FALSE, s, ph, g)  BY DEF Books, FramesOK
  <2> HIDE DEF g
  <2>2. /\ ph[g.iface] = "up" <=> g.at = 1
        /\ g.at < 5 => g.next = 1
        /\ Holders(FALSE, s, ph, g.iface) = {}
    BY <2>1 DEF FrameOK
  <2>3. g.at = 1 => g.at < 5  OBVIOUS
  <2> QED  BY <2>2, <2>3 DEF g
<1>4. ph[f.iface] = "up" /\ Holders(FALSE, s, ph, f.iface) = {} /\ f.iface \in OnStack(s)
  BY <1>1, <1>3 DEF OnStack
<1>5. ASSUME NEW r \in Iface, ph[r] = "up", f.iface \in ToSet(Requires[r])  PROVE FALSE
  <2>1. r \notin Holders(FALSE, s, ph, f.iface)  BY <1>4
  <2>2. r \in OnStack(s)  BY <1>5, <2>1 DEF Holders
  <2>3. PICK n \in DOMAIN s : s[n].iface = r  BY <2>2 DEF OnStack
  <2>4. s[n].next = 1  BY <1>3, <1>5, <2>3
  <2>5. PICK j \in DOMAIN Requires[r] : Requires[r][j] = f.iface  BY <1>5 DEF ToSet
  <2>6. ~(j < 1)
    <3>1. j \in 1 .. Len(Requires[r])  BY <2>5, RequiresType
    <3> QED  BY <3>1
  <2>7. Keeps(FALSE, s[n], f.iface)  BY <2>3, <2>4, <2>5, <2>6 DEF Keeps
  <2> QED  BY <2>1, <2>3, <2>7 DEF Holders
<1>6. want \ A \subseteq T
  <2> SUFFICES ASSUME NEW i \in Iface, i \in want, i \notin A  PROVE i \in T
    OBVIOUS
  <2>1. count[i] > 0 /\ ex[i]  BY DEF Tracks, MarksDown, Marks
  <2>2. i \notin OnStack(s)
    <3> SUFFICES ASSUME NEW n \in DOMAIN s, s[n].iface = i  PROVE FALSE
      BY DEF OnStack
    <3>1. ~(n > 1)  BY <2>1 DEF Tracks, MarksDown
    <3>2. n = 1  BY <1>1, <3>1
    <3>3. s # << >>  BY <1>1
    <3>4. s[1].iface \in A  BY <3>3 DEF Tracks
    <3> QED  BY <3>2, <3>4
  <2>3. ph[i] = "up"
    <3> SUFFICES ASSUME ph[i] # "up"  PROVE FALSE
      OBVIOUS
    <3> DEFINE h == Cardinality(Holders(FALSE, s, ph, i))
               e == Itself(FALSE, s, ph, i)
    <3>1. e = 0  BY <2>2 DEF Itself
    <3>2. count[i] = h + e  BY DEF Books, Exact, ExactFor
    <3>3. HeldFor(FALSE, s, ph, i)  BY DEF Books
    <3>4. Holders(FALSE, s, ph, i) = {}  BY <3>3 DEF HeldFor
    <3>5. h = 0  BY <3>4, FS_EmptySet
    <3> HIDE DEF h, e
    <3> QED  BY <2>1, <3>1, <3>2, <3>5
  <2> QED  BY <2>2, <2>3
<1>7. ASSUME NEW i \in T  PROVE ToSet(Requires[i]) \subseteq T
  <2> SUFFICES ASSUME NEW d \in ToSet(Requires[i])  PROVE d \in T
    OBVIOUS
  <2>1. d \in Iface  BY RequiresType DEF ToSet
  <2>2. i \in Holders(FALSE, s, ph, d)  BY <1>7 DEF Holders
  <2>3. HeldFor(FALSE, s, ph, d)  BY <2>1 DEF Books
  <2>4. ph[d] = "up"  BY <2>2, <2>3 DEF HeldFor
  <2>5. d \notin OnStack(s)  BY <1>3, <2>2 DEF OnStack
  <2> QED  BY <2>1, <2>4, <2>5
<1>8. f.iface \notin T /\ T \in SUBSET Iface  BY <1>4
<1>9. f.iface \notin Promise!Needed(want \ A)
  <2> HIDE DEF T, f
  <2> QED  BY <1>6, <1>7, <1>8, NeededIs
<1> QED  BY <1>2, <1>4, <1>5, <1>9

-----------------------------------------------------------------------------
(* The inductive invariant.                                                *)

(***************************************************************************)
(* Operators name the interfaces: there are no automatic ones, and what    *)
(* they name exists, is no template and free of errors.  None requires     *)
(* itself.                                                                 *)
(***************************************************************************)
ByName ==
    /\ IsAuto = {} /\ \A i \in Iface : i \notin ToSet(Requires[i])
    /\ \A c \in Commands : ~c.mock =>
           ~c.auto /\ ArgumentsOf(c) \subseteq Iface \ (Template \cup ConfigError)

\* Somebody else that is up requires i.
Required(i, ph) == \E r \in Iface \ {i} : ph[r] = "up" /\ i \in ToSet(Requires[r])

\* What is up is wanted or required.
Upheld(want, ph) == \A i \in Iface : ph[i] = "up" => i \in want \/ Required(i, ph)

\* The command of a process that operators run, and what it knows before lif_state_sync.
Plain(m) ==
    /\ ~m.cmd.mock => /\ ~m.cmd.auto
                      /\ ArgumentsOf(m.cmd) \subseteq Iface \ (Template \cup ConfigError)
    /\ ~Synced(m) => \A i \in Iface : ~m.explicit[i]

Working(m) == Synced(m) /\ ~m.cmd.mock

Follows(m, want, ph) ==
    /\ Justified(m.cmd.up, m.stack, ph, m.refcount, m.explicit, AtWork(m))
    /\ m.pc # "flush" => Tracks(m.cmd.up, m.stack, m.refcount, m.explicit,
                                ArgumentsOf(m.cmd), Undone(m), want)
    /\ m.pc = "write" => m.todo = << >>

\* A process with memory m, the state file and the kernel's interfaces.
Tracking(m, file, ph) ==
    /\ Plain(m)
    /\ IF Working(m) THEN Follows(m, Explicit(file), ph) ELSE Upheld(Explicit(file), ph)

\* A process that goes on, not about to end.
Continues(m, o) == m.cmd = o.cmd /\ Synced(m) /\ m.pc # "flush"

RefInv == /\ CountsInv /\ MaxCrashes = 0 /\ ByName
          /\ \A p \in Proc : Tracking(mem[p], ifstate, phys)

\* The stanzas that the lines of a dictionary mark explicit.
LEMMA ExplicitIs ==
    ASSUME NEW s \in Seq(Record), OwnNames(s), IsDictionary(s)
    PROVE  /\ Explicit(s) \subseteq Iface
           /\ \A i : i \in Explicit(s) <=> HasRecord(s, i) /\ RecordOf(s, i).explicit
<1>1. \A n \in DOMAIN s : s[n] \in Record  BY ElementOfSeq
<1>2. \A n \in DOMAIN s : s[n].mapped = s[n].key /\ s[n].mapped \in Iface
  BY <1>1 DEF OwnNames, Record
<1>3. KeysDistinct(s)  BY DEF IsDictionary
<1>4. ASSUME NEW i, i \in Explicit(s)  PROVE HasRecord(s, i) /\ RecordOf(s, i).explicit
  <2>1. PICK n \in DOMAIN s : s[n].explicit /\ s[n].mapped = i  BY <1>4 DEF Explicit
  <2>2. s[n].key = i  BY <1>2, <2>1
  <2> QED  BY <1>3, <2>1, <2>2, RecordIs
<1>5. ASSUME NEW i, HasRecord(s, i), RecordOf(s, i).explicit  PROVE i \in Explicit(s)
  <2>1. PICK n \in DOMAIN s : RecordOf(s, i) = s[n]  BY <1>5, RecordFound
  <2>2. s[n].key = i  BY <1>5, <2>1, RecordFound
  <2>3. s[n].mapped = i  BY <1>2, <2>2
  <2> QED  BY <1>5, <2>1, <2>3 DEF Explicit
<1> QED  BY <1>2, <1>4, <1>5 DEF Explicit

\* What a process writes marks what it has marked in memory and counts.
LEMMA AgreeMarks ==
    ASSUME NEW m, DataOK(m), OwnNames(m.state), Agree(m)
    PROVE  Explicit(m.state) = Marks(m.refcount, m.explicit)
<1>1. m.state \in Seq(Record) /\ IsDictionary(m.state) /\ m.refcount \in [Iface -> Nat]
  BY DEF DataOK, Memory
<1>2. ASSUME NEW i \in Iface
      PROVE  i \in Explicit(m.state) <=> m.refcount[i] > 0 /\ m.explicit[i]
  <2>1. i \in Explicit(m.state) <=> HasRecord(m.state, i) /\ RecordOf(m.state, i).explicit
    BY <1>1, ExplicitIs
  <2>2. CASE m.refcount[i] = 0
    <3>1. ~HasRecord(m.state, i)  BY <2>2 DEF Agree
    <3>2. ~(m.refcount[i] > 0)  BY <2>2
    <3> QED  BY <2>1, <3>1, <3>2
  <2>3. CASE m.refcount[i] # 0
    <3>1. HasRecord(m.state, i) /\ RecordOf(m.state, i) = Describe(m, i, i)
      BY <2>3 DEF Agree
    <3>2. m.refcount[i] > 0  BY <1>1, <2>3
    <3>3. Describe(m, i, i).explicit = m.explicit[i]  BY DEF Describe
    <3> QED  BY <2>1, <3>1, <3>2, <3>3
  <2> QED  BY <2>2, <2>3
<1>3. Explicit(m.state) \subseteq Iface  BY <1>1, ExplicitIs
<1> QED  BY <1>2, <1>3 DEF Marks

\* The books depend only on which interfaces are up.
LEMMA SeenBooks ==
    ASSUME NEW up, NEW s \in Seq(Frame), NEW ph, NEW qh, \A i \in Iface : ph[i] = "up" <=> qh[i] = "up",
           NEW count, Books(up, s, ph, count)
    PROVE  Books(up, s, qh, count)
<1>1. \A i \in Iface : Holders(up, s, qh, i) = Holders(up, s, ph, i)  BY DEF Holders
<1>2. \A i \in Iface : Itself(up, s, qh, i) = Itself(up, s, ph, i)  BY DEF Itself
<1>3. Exact(up, s, qh, count)  BY <1>1, <1>2 DEF Books, Exact, ExactFor
<1>4. \A i \in Iface : HeldFor(up, s, qh, i)  BY <1>1 DEF Books, HeldFor
<1>5. FramesOK(up, s, qh)
  <2> SUFFICES ASSUME NEW n \in DOMAIN s  PROVE FrameOK(up, s, qh, s[n])
    BY DEF FramesOK
  <2> DEFINE f == s[n]
  <2>1. FrameOK(up, s, ph, f)  BY DEF Books, FramesOK
  <2>2. f \in Frame  BY ElementOfSeq
  <2> HIDE DEF f
  <2>3. f.iface \in Iface  BY <2>2 DEF Frame
  <2>4. ph[f.iface] = "up" <=> qh[f.iface] = "up"  BY <2>3
  <2>5. Holders(up, s, qh, f.iface) = Holders(up, s, ph, f.iface)  BY <1>1, <2>3
  <2>6. FrameOK(up, s, qh, f)  BY <2>1, <2>4, <2>5 DEF FrameOK
  <2> QED  BY <2>6 DEF f
<1> QED  BY <1>3, <1>4, <1>5 DEF Books

\* So does what the counts say of a process.
LEMMA SeenCounts ==
    ASSUME NEW m, m \in Memory, OwnOK(m), GoodMemory(m),
           NEW ph, NEW qh, \A i \in Iface : ph[i] = "up" <=> qh[i] = "up",
           NEW file, CountsOK(m, file, ph)
    PROVE  CountsOK(m, file, qh)
<1>1. OnlyUsable(qh)  BY DEF CountsOK, OnlyUsable
<1>2. << >> \in Seq(Frame) /\ m.stack \in Seq(Frame)  BY DEF Memory
<1>3. InOrder(file, ph) => InOrder(file, qh)  BY <1>2, SeenBooks DEF InOrder
<1>4. Keeping(m, ph) => Keeping(m, qh)
  <2> SUFFICES ASSUME Keeping(m, ph)  PROVE Keeping(m, qh)
    OBVIOUS
  <2>1. Synced(m) => Books(m.cmd.up, m.stack, qh, m.refcount)
    BY <1>2, SeenBooks DEF Keeping
  <2>2. ASSUME TakesInOrder(m, ph)  PROVE TakesInOrder(m, qh)
    <3>1. \A k : \A r \in RequirersOf(k) : ph[r] # "up" <=> qh[r] # "up"
      BY DEF RequirersOf
    <3>2. Ordered(m.cmd, Coming(m), qh, AtWork(m))
      BY <2>2, <3>1 DEF TakesInOrder, Ordered
    <3>3. m.pc = "locked" => Unrequired(m.target.key, qh)
      BY <2>2, <3>1 DEF TakesInOrder, Unrequired
    <3>4. m.pc = "finish" => qh[m.target.key] # "up"
      <4> SUFFICES ASSUME m.pc = "finish"  PROVE qh[m.target.key] # "up"
        OBVIOUS
      <4>1. m.target \in [key : Key, iface : Iface]  BY DEF GoodMemory, ControlOK
      <4>2. m.target.key = m.target.iface  BY DEF OwnOK, HoldingState
      <4>3. m.target.key \in Iface  BY <4>1, <4>2
      <4>4. ph[m.target.key] # "up"  BY <2>2 DEF TakesInOrder
      <4> QED  BY <4>3, <4>4
    <3> QED  BY <3>2, <3>3, <3>4 DEF TakesInOrder
  <2> QED  BY <2>1, <2>2 DEF Keeping
<1> QED  BY <1>1, <1>3, <1>4 DEF CountsOK

\* Nobody is killed: the books know all that is up.
LEMMA CountsSeen ==
    ASSUME CountsInv, MaxCrashes = 0, NEW self \in Proc
    PROVE  Counting(self, phys)
<1>1. PICK ph : Knows(ph, phys) /\ \A p \in Proc : CountsOK(mem[p], ifstate, ph)
  BY DEF CountsInv
<1>2. \A i \in Iface : ph[i] = "up" <=> phys[i] = "up"  BY <1>1 DEF Knows, Within
<1>3. IInv /\ Undisturbed /\ OptionsInv /\ OwnInv /\ OwnOK(mem[self])
  BY DEF CountsInv, OptionsInv, OwnInv
<1>4. GoodMemory(mem[self]) /\ mem[self] \in Memory
      /\ phys \in [Key -> {"down", "partial", "up"}]
  BY <1>3, Before
<1>5. CountsOK(mem[self], ifstate, phys)  BY <1>1, <1>2, <1>3, <1>4, SeenCounts
<1>6. Knows(phys, phys)  BY <1>4 DEF Knows, Within
<1> QED  BY <1>3, <1>5, <1>6 DEF Counting

-----------------------------------------------------------------------------
(* Each action keeps the invariant.                                        *)

\* What the invariant says of a process, with what the other invariants add.
Tracked(self) ==
    /\ Counting(self, phys) /\ MaxCrashes = 0 /\ ByName
    /\ Tracking(mem[self], ifstate, phys)

\* A process that has ended, or was not started.
LEMMA IdleTracks ==
    ASSUME ByName, NEW file, NEW ph, Upheld(Explicit(file), ph)
    PROVE  Tracking(Idle, file, ph)
<1>1. /\ Idle.cmd = NoCommand /\ Idle.pc = "idle" /\ \A i \in Iface : ~Idle.explicit[i]
  BY DEF Idle, Fresh, ByName
<1>2. ~NoCommand.auto /\ ArgumentsOf(NoCommand) = {}  BY DEF NoCommand, ArgumentsOf
<1> QED  BY <1>1, <1>2 DEF Tracking, Plain, Working, Synced

\* The start of ifup or ifdown.
LEMMA StartTracks ==
    ASSUME NEW self, Tracked(self), Start(self)
    PROVE  Tracking(mem'[self], ifstate, phys)
<1>1. PICK c \in Commands : Update(self, Fresh("read", c, ifstate))  BY DEF Start
<1>2. mem'[self] = Fresh("read", c, ifstate)
  BY <1>1, Updated DEF Tracked, Counting
<1> DEFINE r == Fresh("read", c, ifstate)
<1>3. r.cmd = c /\ r.pc = "read" /\ \A i \in Iface : ~r.explicit[i]
  BY DEF Fresh, Tracked, ByName
<1>4. mem[self].pc = "idle"  BY DEF Start, At
<1>5. Upheld(Explicit(ifstate), phys)
  BY <1>4 DEF Tracked, Tracking, Working, Synced
<1> HIDE DEF r
<1>6. Plain(r)  BY <1>3 DEF Plain, Tracked, ByName, Synced
<1>7. ~Working(r)  BY <1>3 DEF Working, Synced
<1>8. Tracking(r, ifstate, phys)  BY <1>5, <1>6, <1>7 DEF Tracking
<1> QED  BY <1>2, <1>8 DEF r

\* lif_state_read and the dependency query leave the marks alone.
LEMMA ReadTracks ==
    ASSUME NEW self, Tracked(self), ReadLine(self) \/ QueryDependents(self)
    PROVE  /\ Tracking(mem'[self], ifstate, phys)
           /\ mem'[self] = Idle \/ (mem'[self].cmd = mem[self].cmd
                                     /\ mem'[self].pc \in {"read", "sync"})
<1> DEFINE o == mem[self]
<1>1. IInv /\ self \in Proc /\ o \in Memory
  BY Before DEF Tracked, Counting
<1>2. o.pc = "read"  BY DEF ReadLine, QueryDependents, At
<1>3. Upheld(Explicit(ifstate), phys) /\ Plain(o)
  BY <1>2 DEF Tracked, Tracking, Working, Synced
<1>4. PICK r : mem'[self] = r /\ (r = Idle \/ (r.cmd = o.cmd /\ r.explicit = o.explicit
                                               /\ r.pc \in {"read", "sync"}))
  <2>1. CASE ReadLine(self)
    <3> DEFINE r == [o EXCEPT !.input = Tail(@), !.state = Upsert(@, ParsedLine(Head(o.input)))]
    <3>1. mem'[self] = r  BY <1>1, <2>1, Updated DEF ReadLine
    <3>2. r.cmd = o.cmd /\ r.explicit = o.explicit /\ r.pc = o.pc  BY <1>1 DEF Memory
    <3> QED  BY <1>2, <3>1, <3>2
  <2>2. CASE QueryDependents(self)
    <3> DEFINE r == [o EXCEPT !.pc = "sync"]
    <3>1. mem'[self] = r \/ mem'[self] = Idle
      BY <1>1, <2>2, Updated DEF QueryDependents
    <3>2. r.cmd = o.cmd /\ r.explicit = o.explicit /\ r.pc = "sync"  BY <1>1 DEF Memory
    <3> QED  BY <3>1, <3>2
  <2> QED  BY <2>1, <2>2
<1>5. CASE r = Idle
  BY <1>3, <1>4, <1>5, IdleTracks DEF Tracked
<1>6. CASE r.cmd = o.cmd /\ r.explicit = o.explicit /\ r.pc \in {"read", "sync"}
  <2>1. Plain(r)  BY <1>2, <1>3, <1>6 DEF Plain, Synced
  <2>2. ~Working(r)  BY <1>6 DEF Working, Synced
  <2> QED  BY <1>3, <1>4, <2>1, <2>2 DEF Tracking
<1> QED  BY <1>4, <1>5, <1>6

\* A mock run works on nothing.
LEMMA MockTracks ==
    ASSUME NEW self, Tracked(self), mem[self].cmd.mock, Work(self)
    PROVE  /\ Tracking(mem'[self], ifstate, phys)
           /\ ifstate' = ifstate /\ phys' = phys
           /\ mem'[self] = Idle \/ mem'[self].cmd = mem[self].cmd
<1> DEFINE o == mem[self]
           r == mem'[self]
<1>1. /\ ifstate' = ifstate /\ phys' = phys  BY MockCounts DEF Tracked
<1>2. IInv /\ self \in Proc /\ o \in Memory  BY Before DEF Tracked, Counting
<1>3. Upheld(Explicit(ifstate), phys)  BY DEF Tracked, Tracking, Working
<1>4. ASSUME Stays(r, o)  PROVE Tracking(r, ifstate, phys) /\ (r = Idle \/ r.cmd = o.cmd)
  <2>1. CASE r = Idle  BY <1>3, <2>1, IdleTracks DEF Tracked
  <2>2. CASE r.cmd = o.cmd /\ Synced(r)
    BY <1>3, <2>2 DEF Tracking, Plain, Working
  <2> HIDE DEF r, o
  <2> QED  BY <1>4, <2>1, <2>2 DEF Stays
<1>5. CASE ReadLine(self) \/ QueryDependents(self)  BY <1>1, <1>5, ReadTracks
<1>6. CASE SyncState(self)
  <2>1. r.cmd = o.cmd /\ r.pc = "select" /\ r.ok = o.ok
    <3> DEFINE n == [o EXCEPT !.pc = "select",
                              !.refcount = SyncedRefcount(o.state),
                              !.explicit = SyncedExplicit(o.state, o.explicit),
                              !.todo = IF o.cmd.auto THEN AutomaticArguments ELSE o.cmd.args]
    <3>1. r = n  BY <1>2, <1>6, Updated DEF SyncState
    <3>2. n.cmd = o.cmd /\ n.pc = "select" /\ n.ok = o.ok  BY <1>2 DEF Memory
    <3> QED  BY <3>1, <3>2
  <2>2. Stays(r, o)  BY <2>1 DEF Stays, Synced
  <2> QED  BY <1>1, <1>4, <2>2
<1>7. CASE ~(ReadLine(self) \/ QueryDependents(self) \/ SyncState(self))
  <2>1. Stays(r, o)  BY <1>2, <1>7, WorkStays
  <2> QED  BY <1>1, <1>4, <2>1
<1> QED  BY <1>5, <1>6, <1>7

\* lif_state_sync reads the explicit marks back, and nothing else is marked.
LEMMA SyncMarks ==
    ASSUME NEW s \in Seq(Record), IsDictionary(s), OwnNames(s),
           NEW ex, \A i \in Iface : ~ex[i]
    PROVE  /\ Marks(SyncedRefcount(s), SyncedExplicit(s, ex)) = Explicit(s)
           /\ \A i \in Iface : SyncedExplicit(s, ex)[i] => SyncedRefcount(s)[i] > 0
<1> DEFINE count == SyncedRefcount(s)
           mark == SyncedExplicit(s, ex)
<1>1. ASSUME NEW i \in Iface
      PROVE  /\ count[i] > 0 /\ mark[i] <=> i \in Explicit(s)
             /\ mark[i] => count[i] > 0
  <2>1. i \in Explicit(s) <=> HasRecord(s, i) /\ RecordOf(s, i).explicit  BY ExplicitIs
  <2>2. IF HasRecord(s, i)
        THEN /\ count[i] = RecordOf(s, i).refcount /\ mark[i] = RecordOf(s, i).explicit
             /\ RecordOf(s, i).refcount > 0
        ELSE count[i] = 0
    BY SyncFinds
  <2>3. CASE HasRecord(s, i)
    <3>1. count[i] > 0 /\ mark[i] = RecordOf(s, i).explicit  BY <2>2, <2>3
    <3> HIDE DEF count, mark
    <3> QED  BY <2>1, <2>3, <3>1
  <2>4. CASE ~HasRecord(s, i)
    <3>1. ~IsMapped(s, i)  BY <2>4 DEF OwnNames, HasRecord, IsMapped
    <3>2. mark[i] = ex[i]  BY <3>1 DEF SyncedExplicit
    <3> HIDE DEF count, mark
    <3> QED  BY <2>1, <2>4, <3>2
  <2> QED  BY <2>3, <2>4
<1>2. Explicit(s) \subseteq Iface  BY ExplicitIs
<1> HIDE DEF count, mark
<1>3. Marks(count, mark) = Explicit(s)  BY <1>1, <1>2 DEF Marks
<1> QED  BY <1>1, <1>3 DEF count, mark

\* The process has read the state file and knows its arguments.
LEMMA SyncTracks ==
    ASSUME NEW self, Tracked(self), ~mem[self].cmd.mock, SyncState(self)
    PROVE  Tracking(mem'[self], ifstate, phys) /\ Continues(mem'[self], mem[self])
<1> DEFINE o == mem[self]
           r == [o EXCEPT !.pc = "select",
                          !.refcount = SyncedRefcount(o.state),
                          !.explicit = SyncedExplicit(o.state, o.explicit),
                          !.todo = IF o.cmd.auto THEN AutomaticArguments ELSE o.cmd.args]
           up == o.cmd.up
           want == Explicit(ifstate)
           A == ArgumentsOf(o.cmd)
<1>1. /\ Counting(self, phys) /\ ByName /\ Tracking(o, ifstate, phys)
      /\ IInv /\ OwnInv /\ self \in Proc /\ CountsOK(o, ifstate, phys)
  BY DEF Tracked, Counting
<1>2. o \in Memory /\ (o.pc # "run" => o.stack = << >>) /\ ifstate \in Seq(Record)
  BY <1>1, Before
<1>3. o.pc = "sync" /\ mem'[self] = r
  BY <1>1, Updated DEF SyncState, At
<1>4. ~Synced(o) /\ ~Working(o)  BY <1>3 DEF Synced, Working
<1>5. Plain(o) /\ Upheld(want, phys)  BY <1>1, <1>4 DEF Tracking
<1>6. /\ ~o.cmd.auto /\ A \subseteq Iface \ (Template \cup ConfigError)
      /\ \A i \in Iface : ~o.explicit[i]
  BY <1>4, <1>5 DEF Plain
<1>7. o.state = ifstate /\ IsDictionary(ifstate) /\ OwnNames(ifstate)
  BY <1>1, <1>3 DEF CountsOK, InOrder, OwnInv
<1>8. /\ r.pc = "select" /\ r.cmd = o.cmd /\ r.stack = << >> /\ r.todo = o.cmd.args
      /\ r.refcount = SyncedRefcount(ifstate)
      /\ r.explicit = SyncedExplicit(ifstate, o.explicit)
  BY <1>2, <1>3, <1>6, <1>7 DEF Memory
<1> HIDE DEF r
<1>9. /\ Marks(r.refcount, r.explicit) = want
      /\ \A i \in Iface : r.explicit[i] => r.refcount[i] > 0
  BY <1>2, <1>6, <1>7, <1>8, SyncMarks
<1>10. Synced(r) /\ Working(r) /\ AtWork(r) = {} /\ Undone(r) = A
  <2>1. Synced(r) /\ AtWork(r) = {}  BY <1>8 DEF Synced, AtWork, HoldingState
  <2>2. Keys(r.todo) = A  BY <1>8 DEF Keys, ArgumentsOf
  <2> QED  BY <1>8, <2>1, <2>2 DEF Working, Undone
<1>11. Plain(r)  BY <1>5, <1>8, <1>10 DEF Plain
<1>12. Justified(up, << >>, phys, r.refcount, r.explicit, {})
  <2> SUFFICES ASSUME NEW i \in Iface, phys[i] = "up" \/ i \in OnStack(<< >>)
               PROVE  \/ i \in want \/ Holders(up, << >>, phys, i) # {}
    BY <1>9 DEF Justified, JustifiedFor
  <2>1. OnStack(<< >>) = {}  BY DEF OnStack
  <2>2. CASE i \in want  BY <2>2
  <2>3. CASE i \notin want
    <3>1. PICK w \in Iface \ {i} : phys[w] = "up" /\ i \in ToSet(Requires[w])
      BY <1>5, <2>1, <2>3 DEF Upheld, Required
    <3>2. w \in Holders(up, << >>, phys, i)  BY <2>1, <3>1 DEF Holders
    <3> QED  BY <3>2
  <2> QED  BY <2>2, <2>3
<1>13. Tracks(up, << >>, r.refcount, r.explicit, A, A, want)
  <2>1. Chain(<< >>)  BY DEF Chain
  <2>2. MarksUp(r.refcount, r.explicit, A, A, want)  BY <1>9 DEF MarksUp
  <2>3. MarksDown(<< >>, r.refcount, r.explicit, A, A, want)  BY <1>9 DEF MarksDown
  <2> QED  BY <2>1, <2>2, <2>3 DEF Tracks
<1>14. Tracking(r, ifstate, phys)
  BY <1>8, <1>10, <1>11, <1>12, <1>13 DEF Tracking, Follows
<1>15. Continues(r, o)  BY <1>8, <1>10 DEF Continues
<1> QED  BY <1>3, <1>14, <1>15

\* What the invariants say of a process that works on a command of operators.
LEMMA AtWorking ==
    ASSUME NEW self, Tracked(self), Working(mem[self])
    PROVE  LET m == mem[self]
           IN  /\ Counting(self, phys) /\ ByName /\ ~m.cmd.mock /\ Synced(m)
               /\ m \in Memory /\ GoodMemory(m) /\ OwnOK(m) /\ Agree(m) /\ m.cmd.up \in BOOLEAN
               /\ m.refcount \in [Iface -> Nat] /\ m.explicit \in [Iface -> BOOLEAN]
               /\ IsFiniteSet(Iface) /\ RequiresDistinct
               /\ Books(m.cmd.up, m.stack, phys, m.refcount)
               /\ m.pc # "run" => m.stack = << >>
               /\ Plain(m) /\ Follows(m, Explicit(ifstate), phys)
               /\ ~m.cmd.auto /\ ArgumentsOf(m.cmd) \subseteq Iface \ (Template \cup ConfigError)
<1> DEFINE m == mem[self]
<1>1. /\ Counting(self, phys) /\ ByName /\ Tracking(m, ifstate, phys)  BY DEF Tracked
<1>2. ~m.cmd.mock /\ Synced(m)  BY DEF Working
<1>3. /\ m \in Memory /\ GoodMemory(m) /\ OwnOK(m) /\ Agree(m) /\ m.cmd.up \in BOOLEAN
      /\ Books(m.cmd.up, m.stack, phys, m.refcount)
      /\ m.pc # "run" => m.stack = << >>
  BY <1>1, <1>2, AtBooks
<1>4. m.refcount \in [Iface -> Nat] /\ m.explicit \in [Iface -> BOOLEAN]
  BY <1>3 DEF Memory
<1>5. IsFiniteSet(Iface) /\ RequiresDistinct  BY <1>1 DEF Counting, Undisturbed
<1>6. Plain(m) /\ Follows(m, Explicit(ifstate), phys)  BY <1>1 DEF Tracking
<1>7. ~m.cmd.auto /\ ArgumentsOf(m.cmd) \subseteq Iface \ (Template \cup ConfigError)
  BY <1>2, <1>6 DEF Plain
<1> QED  BY <1>1, <1>2, <1>3, <1>4, <1>5, <1>6, <1>7

\* A process that goes on with its command.
LEMMA WorkingOn ==
    ASSUME NEW o, Plain(o), Working(o), NEW r, r.cmd = o.cmd, Synced(r),
           NEW file, NEW ph, Follows(r, Explicit(file), ph)
    PROVE  Tracking(r, file, ph)
BY DEF Plain, Working, Tracking

\* Operators do not run ifup -a, and name nothing unknown.
LEMMA KnownArguments ==
    ASSUME NEW self, Tracked(self), Working(mem[self])
    PROVE  ~PassOver(self) /\ ~UnknownInterface(self)
<1> DEFINE o == mem[self]
<1>1. /\ o \in Memory /\ OwnOK(o) /\ ~o.cmd.auto /\ ArgumentsOf(o.cmd) \subseteq Iface
      /\ Follows(o, Explicit(ifstate), phys)
  BY AtWorking
<1>2. ~PassOver(self)  BY <1>1 DEF PassOver
<1>3. ASSUME UnknownInterface(self)  PROVE FALSE
  <2> DEFINE a == Head(o.todo)
  <2>1. o.pc = "select" /\ o.todo # << >> /\ Resolve(o, a) = NoIface
    BY <1>3 DEF UnknownInterface, At
  <2>2. a = o.todo[1] /\ 1 \in DOMAIN o.todo  BY <1>1, <2>1, TailOwn DEF Memory
  <2>3. a \in Argument  BY <1>1, <2>2, ElementOfSeq DEF Memory
  <2>4. a.key \in Keys(o.todo)  BY <2>2 DEF Keys
  <2>5. a.key \in Iface
    <3>1. Undone(o) \subseteq ArgumentsOf(o.cmd)  BY <1>1, <2>1 DEF Follows, Tracks
    <3> QED  BY <1>1, <2>4, <3>1 DEF Undone
  <2>6. a.as \in {NoIface, a.key}  BY <1>1, <2>2 DEF OwnOK, OwnArgs
  <2> HIDE DEF a
  <2>7. ASSUME HasRecord(o.state, a.key)  PROVE RecordOf(o.state, a.key).mapped \in Iface
    <3>1. RecordOf(o.state, a.key) \in Record  BY <1>1, <2>7, RecordFound DEF Memory
    <3> QED  BY <3>1 DEF Record
  <2>8. Resolve(o, a) \in Iface  BY <1>1, <2>5, <2>6, <2>7 DEF Resolve
  <2> QED  BY <2>1, <2>8, ProcAssumption
<1> QED  BY <1>2, <1>3

\* The next argument is the target now.
LEMMA AcquireTracks ==
    ASSUME NEW self, Tracked(self), Working(mem[self]), AcquireLock(self)
    PROVE  Tracking(mem'[self], ifstate, phys) /\ Continues(mem'[self], mem[self])
<1> DEFINE o == mem[self]
           a == Head(o.todo)
           t == Tail(o.todo)
           g == [key |-> a.key, iface |-> Resolve(o, a)]
           r == [o EXCEPT !.todo = t, !.target = g, !.pc = "locked"]
           want == Explicit(ifstate)
<1>1. /\ o \in Memory /\ Follows(o, want, phys) /\ Plain(o) /\ Counting(self, phys)
      /\ ~o.cmd.mock
  BY AtWorking
<1>2. o.pc = "select" /\ o.todo # << >> /\ mem'[self] = r  BY <1>1, AcquireStep
<1>3. Keys(o.todo) = Keys(t) \cup {a.key}  BY <1>1, <1>2, KeysOfTail DEF Memory
<1>4. g.key = a.key  OBVIOUS
<1> HIDE DEF t, a, g
<1>5. /\ r.pc = "locked" /\ r.cmd = o.cmd /\ r.refcount = o.refcount /\ r.stack = o.stack
      /\ r.explicit = o.explicit /\ r.todo = t /\ r.target = g
  BY <1>1 DEF Memory
<1> HIDE DEF r
<1>6. AtWork(o) = {} /\ AtWork(r) = {a.key}  BY <1>2, <1>4, <1>5 DEF AtWork, HoldingState
<1>7. Undone(r) = Undone(o)  BY <1>3, <1>5, <1>6 DEF Undone
<1>8. Justified(r.cmd.up, r.stack, phys, r.refcount, r.explicit, AtWork(r))
  BY <1>1, <1>5, <1>6 DEF Follows, Justified, JustifiedFor
<1>9. Follows(r, want, phys)  BY <1>1, <1>2, <1>5, <1>7, <1>8 DEF Follows
<1>10. Synced(r)  BY <1>5 DEF Synced
<1>11. Tracking(r, ifstate, phys)  BY <1>1, <1>5, <1>9, <1>10, WorkingOn
<1>12. Continues(r, o)  BY <1>5, <1>10 DEF Continues
<1> QED  BY <1>2, <1>11, <1>12

\* change_interface returns true for target t: an ifup has marked it, an ifdown finds
\* that nothing counts it any more.
LEMMA DoneMarks ==
    ASSUME NEW up, NEW ph, NEW count \in [Iface -> Nat], NEW ex, NEW t \in Iface,
           NEW A, NEW K, NEW want, Tracks(up, << >>, count, ex, A, K, want),
           Justified(up, << >>, ph, count, ex, {t}), t \in K,
           NEW L, L \subseteq K, K \subseteq L \cup {t},
           IF up THEN count[t] > 0 ELSE count[t] = 0,
           NEW mark, mark[t] <=> (up \/ ex[t]), \A i \in Iface \ {t} : mark[i] = ex[i]
    PROVE  Tracks(up, << >>, count, mark, A, L, want) /\ Justified(up, << >>, ph, count, mark, {})
<1>1. t \in A /\ L \subseteq A  BY DEF Tracks
<1>2. Marks(count, mark) = IF up THEN Marks(count, ex) \cup {t} ELSE Marks(count, ex)
  BY DEF Marks
<1>3. ~up => t \notin Marks(count, ex)  BY DEF Marks
<1>4. CASE up
  <2>1. MarksUp(count, ex, A, K, want)  BY <1>4 DEF Tracks
  <2>2. \A i \in Iface : mark[i] => count[i] > 0  BY <1>4, <2>1 DEF MarksUp
  <2>3. MarksUp(count, mark, A, L, want)
    BY <1>1, <1>2, <1>4, <2>1, <2>2 DEF MarksUp
  <2>4. Tracks(up, << >>, count, mark, A, L, want)  BY <1>1, <1>4, <2>3 DEF Tracks
  <2>5. Justified(up, << >>, ph, count, mark, {})
    BY <1>2, <1>4 DEF Justified, JustifiedFor
  <2> QED  BY <2>4, <2>5
<1>5. CASE ~up
  <2>1. MarksDown(<< >>, count, ex, A, K, want)  BY <1>5 DEF Tracks
  <2>2. DOMAIN << >> = {}  OBVIOUS
  <2>3. MarksDown(<< >>, count, mark, A, L, want)
    BY <1>2, <1>3, <1>5, <2>1, <2>2 DEF MarksDown
  <2>4. Tracks(up, << >>, count, mark, A, L, want)  BY <1>1, <1>5, <2>3 DEF Tracks
  <2>5. Justified(up, << >>, ph, count, mark, {})
    BY <1>2, <1>5 DEF Justified, JustifiedFor
  <2> QED  BY <2>4, <2>5
<1> QED  BY <1>4, <1>5

\* The target of a command is one of its arguments.
LEMMA TargetKnown ==
    ASSUME NEW self, Tracked(self), Working(mem[self]), mem[self].pc \in HoldingState
    PROVE  LET m == mem[self]
               i == m.target.iface
           IN  /\ m.target.key = i /\ i \in Iface /\ AtWork(m) = {i} /\ i \in Undone(m)
               /\ i \notin Template \cup ConfigError
<1> DEFINE m == mem[self]
           i == m.target.iface
<1>1. /\ m \in Memory /\ GoodMemory(m) /\ OwnOK(m)
      /\ Follows(m, Explicit(ifstate), phys)
      /\ ArgumentsOf(m.cmd) \subseteq Iface \ (Template \cup ConfigError)
  BY AtWorking
<1>2. m.target.key = i  BY <1>1 DEF OwnOK
<1>3. i \in Iface  BY <1>1, TargetType DEF HoldingState
<1>4. AtWork(m) = {i} /\ i \in Undone(m)  BY <1>2 DEF AtWork, Undone
<1>5. Undone(m) \subseteq ArgumentsOf(m.cmd)
  <2>1. m.pc # "flush"  BY DEF HoldingState
  <2> QED  BY <1>1, <2>1 DEF Follows, Tracks
<1> QED  BY <1>1, <1>2, <1>3, <1>4, <1>5

\* What change_interface makes of the memory when it returns true.
LEMMA DoneTracks ==
    ASSUME NEW self, Tracked(self), Working(mem[self]), mem[self].pc \in {"locked", "finish"},
           NEW r, LET m == mem[self]
                      i == m.target.iface
                  IN  /\ r = Done(IF m.cmd.up THEN MarkExplicit(m, i, i) ELSE m)
                      /\ IF m.cmd.up THEN m.refcount[i] > 0 ELSE m.refcount[i] = 0
    PROVE  Tracking(r, ifstate, phys) /\ Continues(r, mem[self])
<1> DEFINE o == mem[self]
           i == o.target.iface
           c == IF o.cmd.up THEN MarkExplicit(o, i, i) ELSE o
           want == Explicit(ifstate)
<1>1. /\ o \in Memory /\ Follows(o, want, phys) /\ Plain(o)
      /\ o.refcount \in [Iface -> Nat] /\ o.explicit \in [Iface -> BOOLEAN]
      /\ o.cmd.up \in BOOLEAN /\ o.stack = << >>
  BY AtWorking
<1>2. i \in Iface /\ AtWork(o) = {i} /\ i \in Undone(o)
  BY TargetKnown DEF HoldingState
<1>3. /\ c.cmd = o.cmd /\ c.stack = o.stack /\ c.todo = o.todo /\ c.refcount = o.refcount
      /\ c.explicit = (IF o.cmd.up THEN [o.explicit EXCEPT ![i] = TRUE] ELSE o.explicit)
      /\ c.pc = o.pc /\ DOMAIN c = DOMAIN o
  BY <1>1 DEF Memory, MarkExplicit
<1>4. /\ r.pc = "select" /\ r.cmd = o.cmd /\ r.stack = << >> /\ r.todo = o.todo
      /\ r.refcount = o.refcount /\ r.explicit = c.explicit
  <2>1. r = [c EXCEPT !.pc = "select", !.target = NoTarget]  BY DEF Done
  <2>2. DOMAIN c = {"pc", "cmd", "input", "todo", "target", "state", "refcount",
                    "explicit", "pending", "stack", "ok"}
    BY <1>1, <1>3 DEF Memory
  <2> HIDE DEF c
  <2> QED  BY <1>1, <1>3, <2>1, <2>2
<1> DEFINE ex == r.explicit
<1>5. /\ ex[i] <=> (o.cmd.up \/ o.explicit[i])
      /\ \A j \in Iface \ {i} : ex[j] = o.explicit[j]
  <2>1. ex = (IF o.cmd.up THEN [o.explicit EXCEPT ![i] = TRUE] ELSE o.explicit)
    BY <1>3, <1>4
  <2>2. o.explicit \in [Iface -> BOOLEAN] /\ i \in Iface  BY <1>1, <1>2
  <2> HIDE DEF ex, i, c
  <2>3. CASE o.cmd.up
    <3>1. ex = [o.explicit EXCEPT ![i] = TRUE]  BY <2>1, <2>3
    <3>2. ex[i] = TRUE  BY <2>2, <3>1
    <3>3. \A j \in Iface \ {i} : ex[j] = o.explicit[j]  BY <2>2, <3>1
    <3> QED  BY <2>3, <3>2, <3>3
  <2>4. CASE ~o.cmd.up
    <3>1. ex = o.explicit  BY <2>1, <2>4
    <3> QED  BY <2>4, <3>1
  <2> QED  BY <2>3, <2>4
<1> HIDE DEF ex, c
<1>6. /\ Tracks(o.cmd.up, << >>, o.refcount, o.explicit, ArgumentsOf(o.cmd), Undone(o), want)
      /\ Justified(o.cmd.up, << >>, phys, o.refcount, o.explicit, {i})
  BY <1>1, <1>2 DEF Follows
<1>7. AtWork(r) = {} /\ Undone(r) = Keys(o.todo) /\ Undone(o) = Keys(o.todo) \cup {i}
  BY <1>2, <1>4 DEF AtWork, HoldingState, Undone
<1>8. IF o.cmd.up THEN o.refcount[i] > 0 ELSE o.refcount[i] = 0  OBVIOUS
<1> HIDE DEF i, o
<1>9. /\ Tracks(o.cmd.up, << >>, o.refcount, ex, ArgumentsOf(o.cmd), Undone(r), want)
      /\ Justified(o.cmd.up, << >>, phys, o.refcount, ex, {})
  <2>1. Undone(r) \subseteq Undone(o) /\ Undone(o) \subseteq Undone(r) \cup {i}  BY <1>7
  <2>2. i \in Undone(o) /\ i \in Iface /\ o.refcount \in [Iface -> Nat]  BY <1>1, <1>2
  <2> QED  BY ONLY <1>5, <1>6, <1>8, <2>1, <2>2, DoneMarks
<1>10. Follows(r, want, phys)
  BY <1>4, <1>7, <1>9 DEF Follows, ex
<1>11. Synced(r)  BY <1>4 DEF Synced
<1>12. Continues(r, o)  BY <1>4, <1>11 DEF Continues
<1> QED  BY <1>1, <1>4, <1>10, <1>11, <1>12, WorkingOn DEF o

\* skip_interface: nothing is to be done.
LEMMA SkipTracks ==
    ASSUME NEW self, Tracked(self), Working(mem[self]), SkipInterface(self)
    PROVE  Tracking(mem'[self], ifstate, phys) /\ Continues(mem'[self], mem[self])
<1> DEFINE o == mem[self]
           i == o.target.iface
           r == mem'[self]
<1>1. /\ Counting(self, phys) /\ ~o.cmd.auto /\ o.refcount \in [Iface -> Nat]
      /\ CountsOK(o, ifstate, phys)
  BY AtWorking DEF Counting
<1>2. o.pc = "locked" /\ Skips(o)  BY DEF SkipInterface, At
<1>3. /\ o.target.key = i /\ i \in Iface /\ i \notin Template \cup ConfigError
  BY <1>2, TargetKnown DEF HoldingState
<1>4. r = Done(IF o.cmd.up /\ ~o.cmd.auto /\ i \notin ConfigError
               THEN MarkExplicit(o, o.target.key, i) ELSE o)
  BY <1>1, Updated DEF Counting, SkipInterface
<1>5. r = Done(IF o.cmd.up THEN MarkExplicit(o, i, i) ELSE o)
  <2> HIDE DEF i
  <2> QED  BY <1>1, <1>3, <1>4
<1>6. o.cmd.up <=> o.refcount[i] > 0  BY <1>2, <1>3 DEF Skips
<1>7. IF o.cmd.up THEN o.refcount[i] > 0 ELSE o.refcount[i] = 0
  <2>1. o.refcount[i] \in Nat  BY <1>1, <1>3
  <2> QED  BY <1>6, <2>1
<1> HIDE DEF r
<1>8. Tracking(r, ifstate, phys) /\ Continues(r, mem[self])
  BY <1>2, <1>5, <1>7, DoneTracks
<1> QED  BY <1>8 DEF r

\* The interface was changed: an ifup has counted it, an ifdown has taken it down.
LEMMA FinishTracks ==
    ASSUME NEW self, Tracked(self), Working(mem[self]), FinishInterface(self)
    PROVE  Tracking(mem'[self], ifstate, phys) /\ Continues(mem'[self], mem[self])
<1> DEFINE o == mem[self]
           i == o.target.iface
           r == mem'[self]
<1>1. /\ Counting(self, phys) /\ ~o.cmd.auto /\ ~o.cmd.mock /\ Synced(o) /\ GoodMemory(o)
      /\ o.refcount \in [Iface -> Nat] /\ o.cmd.up \in BOOLEAN
      /\ Books(o.cmd.up, o.stack, phys, o.refcount)
  BY AtWorking
<1>2. o.pc = "finish" /\ o.stack = << >>
  <2>1. o.pc = "finish"  BY DEF FinishInterface, At
  <2> QED  BY <2>1, AtWorking
<1>3. o.target.key = i /\ i \in Iface
  BY <1>2, TargetKnown DEF HoldingState
<1>4. r = Done(IF o.cmd.up /\ ~o.cmd.auto THEN MarkExplicit(o, o.target.key, i) ELSE o)
  BY <1>1, Updated DEF Counting, FinishInterface
<1>5. r = Done(IF o.cmd.up THEN MarkExplicit(o, i, i) ELSE o)
  <2> HIDE DEF i
  <2> QED  BY <1>1, <1>3, <1>4
<1>6. o.cmd.up => o.refcount[i] > 0  BY <1>1, <1>2 DEF GoodMemory, CountedOK
<1>7. ~o.cmd.up => o.refcount[i] = 0
  <2> SUFFICES ASSUME ~o.cmd.up  PROVE o.refcount[i] = 0
    OBVIOUS
  <2>1. phys[i] # "up"
    <3>1. TakesInOrder(o, phys)  BY <1>1, AtBooks
    <3> QED  BY <1>2, <1>3, <3>1 DEF TakesInOrder
  <2> DEFINE e == << >>
             h == Cardinality(Holders(FALSE, e, phys, i))
             t == Itself(FALSE, e, phys, i)
  <2>2. o.cmd.up = FALSE  BY <1>1
  <2>3. Books(FALSE, e, phys, o.refcount)  BY <1>1, <1>2, <2>2
  <2>4. OnStack(e) = {}  BY DEF OnStack
  <2> HIDE DEF e
  <2>5. HeldFor(FALSE, e, phys, i)  BY <1>3, <2>3 DEF Books
  <2>6. Holders(FALSE, e, phys, i) = {}  BY <2>1, <2>5 DEF HeldFor
  <2>7. h = 0  BY <2>6, FS_EmptySet
  <2>8. t = 0  BY <2>1, <2>4 DEF Itself
  <2>9. o.refcount[i] = h + t  BY <1>3, <2>3 DEF Books, Exact, ExactFor
  <2> HIDE DEF h, t, i, o
  <2> QED  BY <2>7, <2>8, <2>9
<1> HIDE DEF r
<1>8. IF o.cmd.up THEN o.refcount[i] > 0 ELSE o.refcount[i] = 0
  BY <1>6, <1>7
<1>9. Tracking(r, ifstate, phys) /\ Continues(r, mem[self])
  BY <1>2, <1>5, <1>8, DoneTracks
<1> QED  BY <1>9 DEF r

\* All arguments are done with.
LEMMA LeaveTracks ==
    ASSUME NEW self, Tracked(self), Working(mem[self]), NoMoreTargets(self)
    PROVE  Tracking(mem'[self], ifstate, phys) /\ Continues(mem'[self], mem[self])
<1> DEFINE o == mem[self]
           r == [o EXCEPT !.pc = "write", !.ok = o.ok, !.todo = << >>, !.target = NoTarget]
           want == Explicit(ifstate)
<1>1. /\ Counting(self, phys) /\ o \in Memory /\ ~o.cmd.mock /\ Plain(o)
      /\ Follows(o, want, phys)
  BY AtWorking
<1>2. o.pc = "select" /\ o.todo = << >>  BY DEF NoMoreTargets, At
<1>3. mem'[self] = r
  <2>1. Update(self, Leave(o, o.ok))  BY DEF NoMoreTargets
  <2> QED  BY <1>1, <2>1, Updated DEF Counting, Leave
<1>4. /\ r.pc = "write" /\ r.cmd = o.cmd /\ r.stack = o.stack /\ r.todo = << >>
      /\ r.refcount = o.refcount /\ r.explicit = o.explicit
  BY <1>1 DEF Memory
<1> HIDE DEF r
<1>5. AtWork(r) = AtWork(o) /\ Undone(r) = Undone(o)
  BY <1>2, <1>4 DEF AtWork, HoldingState, Undone
<1>6. Follows(r, want, phys)  BY <1>1, <1>2, <1>4, <1>5 DEF Follows
<1>7. Synced(r)  BY <1>4 DEF Synced
<1>8. Tracking(r, ifstate, phys)  BY <1>1, <1>4, <1>6, <1>7, WorkingOn
<1>9. Continues(r, o)  BY <1>4, <1>7 DEF Continues
<1> QED  BY <1>3, <1>8, <1>9

\* The explicit marks at the end of a command are those before it, and those of its
\* arguments, or without those of its arguments.
LEMMA MarksAtEnd ==
    ASSUME NEW self, Tracked(self), Working(mem[self]), mem[self].pc = "write"
    PROVE  LET m == mem[self]
               want == Explicit(ifstate)
               A == ArgumentsOf(m.cmd)
           IN  Explicit(m.state) = IF m.cmd.up THEN want \cup A ELSE want \ A
<1> DEFINE m == mem[self]
           want == Explicit(ifstate)
           A == ArgumentsOf(m.cmd)
           M == Marks(m.refcount, m.explicit)
<1>1. GoodMemory(m) /\ OwnOK(m) /\ Agree(m) /\ Follows(m, want, phys) /\ m.stack = << >>
  BY AtWorking
<1>2. Explicit(m.state) = M  BY <1>1, AgreeMarks DEF GoodMemory, OwnOK
<1>3. Tracks(m.cmd.up, m.stack, m.refcount, m.explicit, A, Undone(m), want)
  BY <1>1 DEF Follows
<1>4. m.todo = << >>  BY <1>1 DEF Follows
<1>5. Undone(m) = {}  BY <1>4 DEF Undone, Keys, AtWork, HoldingState
<1> QED  BY <1>2, <1>3, <1>5 DEF Tracks, MarksUp, MarksDown

\* A process that goes on with the recursion of lif_lifecycle_run.
LEMMA RunningTracks ==
    ASSUME NEW self, Tracked(self), Working(mem[self]), mem[self].pc \in {"locked", "run"},
           NEW r, r.cmd = mem[self].cmd, r.todo = mem[self].todo, r.target = mem[self].target,
           r.pc \in {"run", "finish"}, NEW qh,
           Tracks(r.cmd.up, r.stack, r.refcount, r.explicit, ArgumentsOf(r.cmd),
                  Undone(mem[self]), Explicit(ifstate)),
           Justified(r.cmd.up, r.stack, qh, r.refcount, r.explicit, AtWork(mem[self]))
    PROVE  Tracking(r, ifstate, qh) /\ Continues(r, mem[self])
<1> DEFINE o == mem[self]
<1>1. Plain(o)  BY AtWorking
<1>2. AtWork(r) = AtWork(o)  BY DEF AtWork, HoldingState
<1>3. Undone(r) = Undone(o)  BY <1>2 DEF Undone
<1>4. Follows(r, Explicit(ifstate), qh)  BY <1>2, <1>3 DEF Follows
<1>5. Synced(r)  BY DEF Synced
<1>6. Continues(r, o)  BY <1>5 DEF Continues
<1> QED  BY <1>1, <1>4, <1>5, <1>6, WorkingOn

\* lif_lifecycle_run is called for the target.
LEMMA ChangeInterfaceTracks ==
    ASSUME NEW self, Tracked(self), Working(mem[self]), ChangeInterface(self)
    PROVE  Tracking(mem'[self], ifstate, phys) /\ Continues(mem'[self], mem[self])
<1> DEFINE o == mem[self]
           i == o.target.iface
           m == Call(o, i, i)
           up == o.cmd.up
           s == o.stack
           h == Cardinality(Holders(up, s, phys, i))
           e == Itself(up, s, phys, i)
           want == Explicit(ifstate)
<1>1. /\ Counting(self, phys) /\ o \in Memory /\ Follows(o, want, phys) /\ up \in BOOLEAN
      /\ Books(up, s, phys, o.refcount) /\ o.refcount \in [Iface -> Nat]
      /\ IsFiniteSet(Iface) /\ ~o.cmd.mock /\ Synced(o)
  BY AtWorking
<1>2. o.pc = "locked" /\ ~Skips(o)  BY DEF ChangeInterface, At
<1>3. /\ o.target.key = i /\ i \in Iface /\ AtWork(o) = {i} /\ i \in Undone(o)
      /\ i \notin Template \cup ConfigError
  BY <1>2, TargetKnown DEF HoldingState
<1>4. mem'[self] = m  BY <1>1, <1>3, Updated DEF Counting, ChangeInterface
<1>5. s = << >>  BY <1>2, AtWorking
<1>6. OnStack(s) = {} /\ DOMAIN s = {}  BY <1>5 DEF OnStack
<1>7. up <=> o.refcount[i] = 0
  <2>1. ~o.cmd.force /\ o.refcount[i] \in Nat  BY <1>1, <1>3, AtBooks
  <2> QED  BY <1>2, <1>3, <2>1 DEF Skips
<1>8. phys[i] = "up" <=> ~up
  <2>1. CASE up
    <3>1. e = 0  BY <1>1, <1>3, <1>7, <2>1, ZeroCount
    <3> QED  BY <1>6, <2>1, <3>1 DEF Itself
  <2>2. CASE ~up
    <3>1. Unrequired(i, phys)
      <4>1. TakesInOrder(o, phys)  BY <1>1, <2>2, AtBooks
      <4> QED  BY <1>2, <1>3, <4>1 DEF TakesInOrder
    <3>2. Holders(up, s, phys, i) = {}
      BY <1>6, <2>2, <3>1 DEF Holders, Unrequired, RequirersOf
    <3>3. h = 0 /\ e \in {0, 1}  BY <3>2, FS_EmptySet, ItselfType
    <3>4. o.refcount[i] = h + e  BY <1>1, <1>3 DEF Books, Exact, ExactFor
    <3> HIDE DEF h, e
    <3>5. e = 1  BY <1>1, <1>3, <1>7, <2>2, <3>3, <3>4
    <3> QED  BY <1>6, <2>2, <3>5 DEF Itself, e
  <2> QED  BY <2>1, <2>2
<1>9. /\ m.pc = "run" /\ m.stack = Append(s, NewFrame(i)) /\ m.cmd = o.cmd
      /\ m.todo = o.todo /\ m.target = o.target /\ m.refcount = o.refcount
      /\ m.explicit = o.explicit
  <2>1. i \in Iface /\ i \in Key  BY <1>3, IfaceAssumption
  <2>2. /\ m.pc = "run" /\ m.stack = Append(s, NewFrame(i)) /\ m.cmd = o.cmd
        /\ m.todo = o.todo /\ m.target = o.target /\ m.refcount = o.refcount
    BY <1>1, <2>1, CallStack
  <2>3. m.explicit = o.explicit  BY <1>1, <2>1, CallEffect DEF SameData
  <2> QED  BY <2>2, <2>3
<1> DEFINE count == o.refcount
           ex == o.explicit
           A == ArgumentsOf(o.cmd)
           K == Undone(o)
<1>10. Tracks(up, s, count, ex, A, K, want) /\ Justified(up, s, phys, count, ex, {i})
  BY <1>1, <1>2, <1>3 DEF Follows
<1>11. Callable(up, s, phys, i)
  BY <1>1, <1>3, <1>6, <1>8 DEF Callable, Memory
<1> HIDE DEF m, up, s, count, ex, A, K, want
<1>12. /\ Tracks(up, Append(s, NewFrame(i)), count, ex, A, K, want)
       /\ Justified(up, Append(s, NewFrame(i)), phys, count, ex, {i})
  <2>1. \A j \in Iface \ {i} : JustifiedFor(up, s, phys, count, ex, {i}, j)
    BY <1>10 DEF Justified
  <2>2. i \in K /\ s = << >> /\ i \in {i}  BY <1>3, <1>5 DEF K
  <2> HIDE DEF i
  <2> QED  BY ONLY <1>10, <1>11, <2>1, <2>2, CallTracks
<1>13. Tracking(m, ifstate, phys) /\ Continues(m, o)
  BY <1>2, <1>3, <1>9, <1>12, RunningTracks DEF up, s, count, ex, A, K, want
<1> QED  BY <1>4, <1>13

\* handle_dependents visits the next dependent.
LEMMA ChangeDependentTracks ==
    ASSUME NEW self, Tracked(self), Working(mem[self]), ChangeDependent(self)
    PROVE  Tracking(mem'[self], ifstate, phys) /\ Continues(mem'[self], mem[self])
<1> DEFINE o == mem[self]
           r == mem'[self]
           s == o.stack
           d == Dependent(o)
           up == o.cmd.up
           after == r.refcount
           calls == Calls(up, s, after, r.explicit, d)
           want == Explicit(ifstate)
           A == ArgumentsOf(o.cmd)
           K == Undone(o)
           W == AtWork(o)
<1>1. /\ Counting(self, phys) /\ Follows(o, want, phys) /\ up \in BOOLEAN
      /\ IsFiniteSet(Iface) /\ RequiresDistinct /\ ~o.cmd.mock
  BY AtWorking
<1>2. /\ o.pc = "run" /\ r.pc = "run" /\ s[Len(s)].at = (IF up THEN 1 ELSE 5)
      /\ r.cmd = o.cmd /\ r.todo = o.todo /\ r.target = o.target
      /\ r.explicit = o.explicit
      /\ r.refcount[d] = (IF up THEN o.refcount[d] + 1 ELSE o.refcount[d] - 1)
      /\ \A i \in Iface \ {d} : r.refcount[i] = o.refcount[i]
      /\ \E t : Visits(s, t, d) /\ r.stack = IF calls THEN Append(t, NewFrame(d)) ELSE t
  BY <1>1, DependentStep
<1>3. PICK t : Visits(s, t, d) /\ r.stack = IF calls THEN Append(t, NewFrame(d)) ELSE t
  BY <1>2
<1>4. Shape(up, s, phys, o.refcount) /\ Books(up, s, phys, o.refcount)
  BY <1>1, <1>2, AtRun
<1> DEFINE count == o.refcount
           ex == r.explicit
<1>5. /\ Tracks(up, s, count, ex, A, K, want) /\ Justified(up, s, phys, count, ex, W)
      /\ Shape(up, s, phys, count) /\ Books(up, s, phys, count)
      /\ after[d] = (IF up THEN count[d] + 1 ELSE count[d] - 1)
      /\ \A i \in Iface \ {d} : after[i] = count[i]
  BY <1>1, <1>2, <1>4 DEF Follows
<1>6. s[Len(s)].at = (IF up THEN 1 ELSE 5)  BY <1>2
<1>7. /\ r.cmd = o.cmd /\ r.todo = o.todo /\ r.target = o.target /\ r.pc \in {"run", "finish"}
      /\ o.pc \in {"locked", "run"}
  BY <1>2
<1>8. t \in Seq(Frame)  BY <1>3 DEF Visits
<1> HIDE DEF r, s, d, after, count, ex, up, A, K, W, want
<1>9. /\ OnStack(t) = OnStack(s) /\ Tracks(up, t, after, ex, A, K, want)
      /\ t # << >> /\ d \in Iface /\ d \in ToSet(Requires[t[Len(t)].iface])
      /\ up => Holders(up, t, phys, d) # {}
      /\ \A i \in Iface \ {d} : JustifiedFor(up, t, phys, after, ex, W, i)
      /\ ~Calls(up, s, after, ex, d) /\ d \notin OnStack(s) =>
             JustifiedFor(up, t, phys, after, ex, W, d)
      /\ d \in OnStack(s) => JustifiedFor(up, t, phys, after, ex, W, d)
      /\ d \notin OnStack(s) => (after[d] <= 1 => (phys[d] = "up" <=> ~up))
  <2>1. Visits(s, t, d)  BY <1>3
  <2> QED  BY ONLY <1>1, <1>5, <1>6, <2>1, VisitTracks
<1>10. calls <=> Calls(up, s, after, ex, d)  BY DEF ex
<1> HIDE DEF calls
<1>11. Tracks(up, r.stack, after, ex, A, K, want) /\ Justified(up, r.stack, phys, after, ex, W)
  <2>1. CASE calls
    <3>1. d \notin OnStack(t) /\ after[d] <= 1 /\ (~up => ~ex[d])
      BY <1>9, <1>10, <2>1 DEF Calls
    <3>2. Callable(up, t, phys, d)
      BY <1>1, <1>8, <1>9, <3>1 DEF Callable, up
    <3>3. r.stack = Append(t, NewFrame(d))  BY <1>3, <2>1
    <3> DEFINE u == Append(t, NewFrame(d))
    <3>4. Tracks(up, u, after, ex, A, K, want) /\ Justified(up, u, phys, after, ex, W)
      BY ONLY <1>9, <3>1, <3>2, CallTracks
    <3> QED  BY <3>3, <3>4
  <2>2. CASE ~calls
    <3>1. r.stack = t  BY <1>3, <2>2
    <3>2. JustifiedFor(up, t, phys, after, ex, W, d)  BY <1>9, <1>10, <2>2
    <3>3. \A i \in Iface : JustifiedFor(up, t, phys, after, ex, W, i)  BY <1>9, <3>2
    <3> QED  BY <1>9, <3>1, <3>3 DEF Justified
  <2> QED  BY <2>1, <2>2
<1>12. Tracking(r, ifstate, phys) /\ Continues(r, o)
  BY <1>7, <1>11, RunningTracks DEF up, after, ex, A, K, W, want
<1> QED  BY <1>12 DEF r

\* handle_dependents returns, or a phase succeeds.
LEMMA AdvancingTracks ==
    ASSUME NEW self, Tracked(self), Working(mem[self]), mem[self].pc = "run",
           Top(mem[self]).at \in 1 .. 5, NEW qh,
           Advances(mem[self].cmd.up, mem[self].stack, Advance(mem[self]).stack, phys, qh)
    PROVE  /\ Tracking(Advance(mem[self]), ifstate, qh)
           /\ Continues(Advance(mem[self]), mem[self])
<1> DEFINE o == mem[self]
           r == Advance(o)
           s == o.stack
           t == r.stack
           up == o.cmd.up
           count == o.refcount
           ex == o.explicit
           want == Explicit(ifstate)
           A == ArgumentsOf(o.cmd)
           K == Undone(o)
           W == AtWork(o)
<1>1. Counting(self, phys) /\ Follows(o, want, phys) /\ o \in Memory /\ ~o.cmd.mock
  BY AtWorking
<1>2. Shape(up, s, phys, count) /\ s # << >>  BY <1>1, AtRun
<1>3. /\ r.pc = "run" /\ r.cmd = o.cmd /\ r.todo = o.todo /\ r.target = o.target
      /\ r.refcount = o.refcount /\ r.explicit = o.explicit
  <2>1. Stage(o) \notin {"ref", "unref"}  BY <1>1, <1>2, StageAt
  <2> QED  BY <1>1, <1>2, <2>1, AdvanceStack, AdvanceEffect DEF SameData
<1>4. Tracks(up, s, count, ex, A, K, want) /\ Justified(up, s, phys, count, ex, W)
  BY <1>1 DEF Follows
<1>5. Advances(up, s, t, phys, qh)  OBVIOUS
<1> HIDE DEF r, s, t, up, count, ex, want, A, K, W
<1>6. Tracks(up, t, count, ex, A, K, want) /\ Justified(up, t, qh, count, ex, W)
  BY ONLY <1>2, <1>4, <1>5, AdvanceTracks
<1>7. Tracking(r, ifstate, qh) /\ Continues(r, o)
  BY <1>3, <1>6, RunningTracks DEF t, up, count, ex, want, A, K, W
<1> QED  BY <1>7 DEF r

LEMMA DependentsDoneTracks ==
    ASSUME NEW self, Tracked(self), Working(mem[self]), DependentsDone(self)
    PROVE  Tracking(mem'[self], ifstate, phys) /\ Continues(mem'[self], mem[self])
<1> DEFINE o == mem[self]
<1>1. Counting(self, phys) /\ ~o.cmd.mock  BY AtWorking
<1>2. /\ o.pc = "run" /\ mem'[self] = Advance(o) /\ Top(o).at \in 1 .. 5
      /\ Advances(o.cmd.up, o.stack, Advance(o).stack, phys, phys)
  BY <1>1, DependentsDoneStep
<1> QED  BY <1>2, AdvancingTracks

LEMMA RunPhaseTracks ==
    ASSUME NEW self, Tracked(self), Working(mem[self]), RunPhase(self)
    PROVE  Tracking(mem'[self], ifstate, phys') /\ Continues(mem'[self], mem[self])
<1> DEFINE o == mem[self]
           s == o.stack
           f == s[Len(s)]
           t == Advance(o).stack
           v == PhaseEffect(o, TRUE)
<1>1. Counting(self, phys) /\ ~o.cmd.mock /\ o \in Memory  BY AtWorking
<1>2. /\ o.pc = "run" /\ mem'[self] = Advance(o)
      /\ phys' = [phys EXCEPT ![Top(o).iface] = v]
      /\ v \in {"down", "partial", "up"} /\ (v = "up" <=> o.cmd.up /\ Top(o).at = 5)
      /\ Top(o).at \in 1 .. 5 /\ Top(o).at # (IF o.cmd.up THEN 1 ELSE 5)
  BY <1>1, PhaseStep
<1>3. /\ s # << >> /\ Len(s) \in Nat \ {0} /\ Top(o) = f /\ f.iface \in Iface
      /\ phys \in [Key -> {"down", "partial", "up"}]
  BY <1>1, <1>2, AtRun DEF Shape
<1>4. /\ t \in Seq(Frame) /\ Len(t) = Len(s)
      /\ \A n \in 1 .. Len(s) - 1 : t[n] = s[n]
      /\ t[Len(s)].iface = f.iface /\ t[Len(s)].at = f.at + 1 /\ t[Len(s)].next = f.next
  BY <1>1, <1>2, <1>3, AdvanceStack
<1>5. phys'[f.iface] = v /\ \A r \in Iface \ {f.iface} : phys'[r] = phys[r]
  BY <1>2, <1>3, IfaceAssumption
<1> DEFINE qh == phys'
<1> HIDE DEF t, v, f, qh
<1>6. Advances(o.cmd.up, s, t, phys, qh)
  BY <1>2, <1>3, <1>4, <1>5 DEF Advances, f, qh
<1>7. Tracking(Advance(o), ifstate, qh) /\ Continues(Advance(o), o)
  BY <1>2, <1>6, AdvancingTracks DEF t
<1> QED  BY <1>2, <1>7 DEF qh

\* lif_lifecycle_run returns.
LEMMA ReturnFromRunTracks ==
    ASSUME NEW self, Tracked(self), Working(mem[self]), ReturnFromRun(self)
    PROVE  Tracking(mem'[self], ifstate, phys) /\ Continues(mem'[self], mem[self])
<1> DEFINE o == mem[self]
           r == mem'[self]
           s == o.stack
           t == r.stack
           up == o.cmd.up
           count == o.refcount
           after == r.refcount
           ex == o.explicit
           want == Explicit(ifstate)
           A == ArgumentsOf(o.cmd)
           K == Undone(o)
           W == AtWork(o)
<1>1. Counting(self, phys) /\ Follows(o, want, phys) /\ ~o.cmd.mock /\ IsFiniteSet(Iface)
  BY AtWorking
<1>2. /\ o.pc = "run" /\ Returns(up, s, t, count, after)
      /\ r.pc \in {"run", "finish"}
      /\ r.cmd = o.cmd /\ r.todo = o.todo /\ r.target = o.target /\ r.explicit = o.explicit
  BY <1>1, ReturnStep
<1>3. Shape(up, s, phys, count) /\ Books(up, s, phys, count)  BY <1>1, <1>2, AtRun
<1>4. Tracks(up, s, count, ex, A, K, want) /\ Justified(up, s, phys, count, ex, W)
  BY <1>1, <1>2 DEF Follows
<1> HIDE DEF r, s, t, up, count, after, ex, want, A, K, W
<1>5. Tracks(up, t, after, ex, A, K, want) /\ Justified(up, t, phys, after, ex, W)
  BY ONLY <1>1, <1>2, <1>3, <1>4, ReturnTracks
<1>6. Tracking(r, ifstate, phys) /\ Continues(r, o)
  BY <1>2, <1>5, RunningTracks DEF t, up, after, ex, want, A, K, W
<1> QED  BY <1>6 DEF r

\* lif_state_write_path opens the state file and so empties it.
LEMMA OpenTracks ==
    ASSUME NEW self, Tracked(self), Working(mem[self]), OpenStateFile(self)
    PROVE  /\ Tracking(mem'[self], ifstate', phys) /\ mem'[self].pc = "flush"
           /\ mem'[self].cmd = mem[self].cmd /\ mem'[self].state = mem[self].state
<1> DEFINE o == mem[self]
           r == [o EXCEPT !.pc = "flush"]
           want == Explicit(ifstate)
<1>1. /\ Counting(self, phys) /\ o \in Memory /\ Plain(o) /\ Follows(o, want, phys)
  BY AtWorking
<1>2. o.pc = "write"  BY DEF OpenStateFile, At
<1>3. mem'[self] = r
  <2>1. PICK good \in WriteOutcomes : IF good THEN Update(self, r) ELSE Update(self, Idle)
    BY DEF OpenStateFile
  <2>2. good = TRUE  BY <1>1, CommandAssumption DEF Counting, Undisturbed
  <2> QED  BY <1>1, <2>1, <2>2, Updated DEF Counting
<1>4. /\ r.pc = "flush" /\ r.cmd = o.cmd /\ r.refcount = o.refcount /\ r.stack = o.stack
      /\ r.explicit = o.explicit /\ r.state = o.state
  BY <1>1 DEF Memory
<1> HIDE DEF r
<1>5. AtWork(r) = AtWork(o)  BY <1>2, <1>4 DEF AtWork, HoldingState
<1>6. Follows(r, Explicit(ifstate'), phys)  BY <1>1, <1>4, <1>5 DEF Follows
<1>7. Synced(r)  BY <1>4 DEF Synced
<1>8. Tracking(r, ifstate', phys)  BY <1>1, <1>4, <1>6, <1>7, WorkingOn
<1> QED  BY <1>3, <1>4, <1>8

\* It writes the file: what is up is marked there or required.
LEMMA FlushTracks ==
    ASSUME NEW self, Tracked(self), Working(mem[self]), FlushStateFile(self)
    PROVE  /\ Tracking(mem'[self], ifstate', phys)
           /\ mem'[self] = Idle /\ ifstate' = mem[self].state
<1> DEFINE o == mem[self]
           M == Marks(o.refcount, o.explicit)
           e == << >>
<1>1. /\ Counting(self, phys) /\ ByName /\ o \in Memory /\ GoodMemory(o) /\ OwnOK(o)
      /\ Agree(o) /\ Follows(o, Explicit(ifstate), phys) /\ ~o.cmd.mock /\ Synced(o)
  BY AtWorking
<1>2. o.pc = "flush" /\ mem'[self] = Idle /\ ifstate' = Overwrite(ifstate, o.state)
  BY <1>1, Updated DEF Counting, FlushStateFile, At
<1>3. o.stack = e  BY <1>2, AtWorking
<1>4. CountsOK(o, ifstate, phys) /\ DataOK(o)  BY <1>1, AtBooks
<1>5. ifstate' = o.state
  <2>1. ifstate = << >>  BY <1>2, <1>4 DEF CountsOK
  <2> QED  BY <1>1, <1>2, <2>1, OverwriteEmpty DEF Memory
<1>6. Explicit(o.state) = M  BY <1>1, <1>4, AgreeMarks DEF OwnOK
<1>7. AtWork(o) = {}  BY <1>2 DEF AtWork, HoldingState
<1>8. Justified(o.cmd.up, e, phys, o.refcount, o.explicit, {})
  BY <1>1, <1>3, <1>7 DEF Follows
<1>9. OnStack(e) = {} /\ DOMAIN e = {}  BY DEF OnStack
<1>10. Upheld(M, phys)
  <2> SUFFICES ASSUME NEW i \in Iface, phys[i] = "up", i \notin M  PROVE Required(i, phys)
    BY DEF Upheld
  <2>1. PICK w : w \in Holders(o.cmd.up, e, phys, i)
    BY <1>8, <1>9 DEF Justified, JustifiedFor
  <2>2. w \in Iface /\ phys[w] = "up" /\ i \in ToSet(Requires[w])
    BY <1>9, <2>1 DEF Holders
  <2>3. w # i  BY <1>1, <2>2 DEF ByName
  <2> QED  BY <2>2, <2>3 DEF Required
<1>11. Tracking(Idle, o.state, phys)  BY <1>1, <1>6, <1>10, IdleTracks
<1> QED  BY <1>2, <1>5, <1>11

\* The actions that go on with a command and change nothing that others see.
Plods(self) ==
    \/ SyncState(self) \/ AcquireLock(self) \/ SkipInterface(self) \/ ChangeInterface(self)
    \/ ChangeDependent(self) \/ DependentsDone(self) \/ ReturnFromRun(self)
    \/ FinishInterface(self) \/ NoMoreTargets(self)

LEMMA PlodTracks ==
    ASSUME NEW self, Tracked(self), ~mem[self].cmd.mock, Plods(self)
    PROVE  /\ Tracking(mem'[self], ifstate, phys) /\ Continues(mem'[self], mem[self])
           /\ ifstate' = ifstate /\ phys' = phys
<1>1. ifstate' = ifstate /\ phys' = phys
  BY DEF Plods, SyncState, AcquireLock, SkipInterface, ChangeInterface, ChangeDependent,
         DependentsDone, ReturnFromRun, FinishInterface, NoMoreTargets
<1>2. CASE SyncState(self)  BY <1>1, <1>2, SyncTracks
<1>3. CASE ~SyncState(self)
  <2>1. mem[self].pc \in {"select", "locked", "run", "finish"}
    BY <1>3 DEF Plods, AcquireLock, SkipInterface, ChangeInterface, ChangeDependent,
       AtDependent, DependentsDone, ReturnFromRun, FinishInterface, NoMoreTargets, At
  <2>2. Working(mem[self])  BY <2>1 DEF Working, Synced
  <2> QED  BY <1>1, <1>3, <2>2, AcquireTracks, SkipTracks, ChangeInterfaceTracks,
              ChangeDependentTracks, DependentsDoneTracks, ReturnFromRunTracks,
              FinishTracks, LeaveTracks DEF Plods
<1> QED  BY <1>2, <1>3

\* What else a process does that is no mock run.
LEMMA WorksHow ==
    ASSUME NEW self, Tracked(self), ~mem[self].cmd.mock, Work(self)
    PROVE  \/ ReadLine(self) \/ QueryDependents(self) \/ Plods(self)
           \/ /\ Working(mem[self])
              /\ RunPhase(self) \/ OpenStateFile(self) \/ FlushStateFile(self)
<1>1. Counting(self, phys)  BY DEF Tracked
<1>2. ~SkipBrokenDependent(self)  BY <1>1, NoBrokenDependent
<1>3. ASSUME PassOver(self) \/ UnknownInterface(self) PROVE FALSE
  <2>1. mem[self].pc = "select"  BY <1>3 DEF PassOver, UnknownInterface, At
  <2>2. Working(mem[self])  BY <2>1 DEF Working, Synced
  <2> QED  BY <1>3, <2>2, KnownArguments
<1>4. ASSUME RunPhase(self) \/ OpenStateFile(self) \/ FlushStateFile(self)
      PROVE  Working(mem[self])
  <2>1. mem[self].pc \in {"run", "write", "flush"}
    BY <1>4 DEF RunPhase, OpenStateFile, FlushStateFile, At
  <2> QED  BY <2>1 DEF Working, Synced
<1> QED  BY <1>2, <1>3, <1>4 DEF Work, Plods

\* Each step of a process keeps what is known of it.
LEMMA WorkTracks ==
    ASSUME NEW self, Tracked(self), Work(self)
    PROVE  Tracking(mem'[self], ifstate', phys')
<1>1. CASE mem[self].cmd.mock  BY <1>1, MockTracks
<1>2. CASE ~mem[self].cmd.mock
  <2>1. CASE ReadLine(self) \/ QueryDependents(self)
    <3>1. ifstate' = ifstate /\ phys' = phys  BY <2>1 DEF ReadLine, QueryDependents
    <3> QED  BY <2>1, <3>1, ReadTracks
  <2>2. CASE Plods(self)  BY <1>2, <2>2, PlodTracks
  <2>3. CASE Working(mem[self]) /\ RunPhase(self)
    <3>1. ifstate' = ifstate  BY <2>3 DEF RunPhase
    <3> QED  BY <2>3, <3>1, RunPhaseTracks
  <2>4. CASE Working(mem[self]) /\ OpenStateFile(self)
    <3>1. phys' = phys  BY <2>4 DEF OpenStateFile
    <3> QED  BY <2>4, <3>1, OpenTracks
  <2>5. CASE Working(mem[self]) /\ FlushStateFile(self)
    <3>1. phys' = phys  BY <2>5 DEF FlushStateFile
    <3> QED  BY <2>5, <3>1, FlushTracks
  <2> QED  BY <1>2, <2>1, <2>2, <2>3, <2>4, <2>5, WorksHow
<1> QED  BY <1>1, <1>2

\* What the invariant says of the only process.
LEMMA AloneTracked ==
    ASSUME RefInv, NEW self \in Proc
    PROVE  Tracked(self) /\ \A p \in Proc : p = self
<1>1. Counting(self, phys)  BY CountsSeen DEF RefInv
<1>2. Tracked(self)  BY <1>1 DEF RefInv, Tracked
<1>3. \A p \in Proc : p = self  BY DEF RefInv, CountsInv, Undisturbed
<1> QED  BY <1>2, <1>3

LEMMA RefInit == Undisturbed /\ ByName /\ MaxCrashes = 0 /\ Init => RefInv
<1> SUFFICES ASSUME Undisturbed, ByName, MaxCrashes = 0, Init  PROVE RefInv
  OBVIOUS
<1>1. CountsInv  BY CountsInit
<1>2. \A i \in Iface : phys[i] = "down"  BY IfaceAssumption DEF Init
<1>3. Upheld(Explicit(ifstate), phys)  BY <1>2 DEF Upheld
<1>4. \A p \in Proc : Tracking(mem[p], ifstate, phys)
  BY <1>3, IdleTracks DEF Init
<1> QED  BY <1>1, <1>4 DEF RefInv

LEMMA RefStep == RefInv /\ [Next]_vars => RefInv'
<1> SUFFICES ASSUME RefInv, [Next]_vars  PROVE RefInv'
  OBVIOUS
<1>1. CASE UNCHANGED vars
  <2>1. OptionsInv' /\ OwnInv'
    BY <1>1, NextInv DEF vars, RefInv, CountsInv, OptionsInv, OwnInv
  <2>2. CountsInv'  BY <1>1, <2>1 DEF vars, RefInv, CountsInv, Undisturbed
  <2> QED  BY <1>1, <2>2 DEF RefInv, vars, ByName
<1>2. ASSUME NEW self \in Proc, Start(self) \/ Work(self) \/ Crash(self)
      PROVE  RefInv'
  <2>1. Tracked(self) /\ \A p \in Proc : p = self  BY AloneTracked
  <2>2. CountsInv'  BY <1>2, CountsStep DEF RefInv
  <2>3. ~Crash(self)
    <3>1. crashes \in Nat  BY <2>1, Before DEF Tracked, Counting
    <3> QED  BY <3>1 DEF RefInv, Crash
  <2>4. Tracking(mem'[self], ifstate', phys')
    <3>1. CASE Start(self)
      <4>1. ifstate' = ifstate /\ phys' = phys  BY <3>1 DEF Start
      <4> QED  BY <2>1, <3>1, <4>1, StartTracks
    <3> QED  BY <1>2, <2>1, <2>3, <3>1, WorkTracks
  <2>5. \A p \in Proc : Tracking(mem'[p], ifstate', phys')  BY <2>1, <2>4
  <2> QED  BY <2>2, <2>5 DEF RefInv, ByName
<1> QED  BY <1>1, <1>2 DEF Next, Rest

\* The interfaces that are up are justified in every state of every behaviour.
LEMMA RefInvariance == Undisturbed /\ ByName /\ MaxCrashes = 0 /\ Spec => []RefInv
BY RefInit, RefStep, PTL DEF Spec

-----------------------------------------------------------------------------
(* Each step is a step of Requirements, or changes nothing there.          *)

UpIn(ph) == {i \in Iface : ph[i] = "up"}

\* What a process with memory m wants up, given the state file.
WantedIn(m, file) ==
    CASE ~Asks(m) -> Explicit(file)
      [] Asks(m) /\ m.pc = "flush" -> Explicit(m.state)
      [] OTHER -> IF m.cmd.up THEN Explicit(file) \cup ArgumentsOf(m.cmd)
                              ELSE Explicit(file) \ ArgumentsOf(m.cmd)

\* When a command asks for something the last one has done its work.
LEMMA RestSettles ==
    ASSUME NEW self, Tracked(self), mem[self].pc = "read"
    PROVE  LET want == Explicit(ifstate)
           IN  /\ want \subseteq Iface /\ Promise!Needed(want) \subseteq UpIn(phys)
               /\ \A i \in UpIn(phys) \ want :
                      \E r \in UpIn(phys) \ {i} : i \in ToSet(Requires[r])
<1> DEFINE want == Explicit(ifstate)
           count == RecordedIn(ifstate)
           e == << >>
<1>1. /\ InOrder(ifstate, phys) /\ OwnNames(ifstate) /\ ifstate \in Seq(Record)
      /\ IsFiniteSet(Iface) /\ Upheld(want, phys)
  <2>1. Upheld(want, phys)  BY DEF Tracked, Tracking, Working, Synced
  <2>2. InOrder(ifstate, phys) /\ OwnNames(ifstate) /\ IsFiniteSet(Iface)
    BY DEF Tracked, Counting, CountsOK, OwnInv, Undisturbed
  <2> QED  BY <2>1, <2>2, Before DEF Tracked, Counting
<1>2. IsDictionary(ifstate) /\ Books(TRUE, e, phys, count)  BY <1>1 DEF InOrder
<1>3. OnStack(e) = {} /\ DOMAIN e = {}  BY DEF OnStack
<1> HIDE DEF e
<1>4. ASSUME NEW i \in want  PROVE i \in UpIn(phys)
  <2>1. i \in Iface /\ HasRecord(ifstate, i)  BY <1>1, <1>2, <1>4, ExplicitIs
  <2>2. RecordOf(ifstate, i).refcount > 0  BY <1>1, <1>2, <2>1, RecordFound DEF IsDictionary
  <2>3. count[i] # 0  BY <2>1, <2>2 DEF RecordedIn
  <2> DEFINE h == Cardinality(Holders(TRUE, e, phys, i))
             t == Itself(TRUE, e, phys, i)
  <2>4. count[i] = h + t  BY <1>2, <2>1 DEF Books, Exact, ExactFor
  <2>5. CASE Holders(TRUE, e, phys, i) = {}
    <3>1. h = 0  BY <2>5, FS_EmptySet
    <3>2. t \in {0, 1}  BY ItselfType
    <3> HIDE DEF h, t
    <3>3. t = 1  BY <2>3, <2>4, <3>1, <3>2
    <3> QED  BY <1>3, <2>1, <3>3 DEF Itself, UpIn, t
  <2>6. CASE Holders(TRUE, e, phys, i) # {}
    <3>1. HeldFor(TRUE, e, phys, i)  BY <1>2, <2>1 DEF Books
    <3> QED  BY <1>3, <2>1, <2>6, <3>1 DEF HeldFor, UpIn
  <2> QED  BY <2>5, <2>6
<1>5. ASSUME NEW r \in UpIn(phys)  PROVE ToSet(Requires[r]) \subseteq UpIn(phys)
  <2> SUFFICES ASSUME NEW i \in ToSet(Requires[r])  PROVE i \in UpIn(phys)
    OBVIOUS
  <2>1. r \in Iface /\ phys[r] = "up"  BY DEF UpIn
  <2>2. i \in Iface  BY <2>1, RequiresType DEF ToSet
  <2>3. r \in Holders(TRUE, e, phys, i)  BY <1>3, <2>1 DEF Holders
  <2>4. HeldFor(TRUE, e, phys, i)  BY <1>2, <2>2 DEF Books
  <2> QED  BY <1>3, <2>2, <2>3, <2>4 DEF HeldFor, UpIn
<1>6. UpIn(phys) \in SUBSET Iface  BY DEF UpIn
<1>7. Promise!Needed(want) \subseteq UpIn(phys)
  <2> SUFFICES ASSUME NEW i \in Promise!Needed(want)  PROVE i \in UpIn(phys)
    OBVIOUS
  <2> HIDE DEF want
  <2> QED  BY <1>4, <1>5, <1>6, NeededIs
<1>8. \A i \in UpIn(phys) \ want :
          \E r \in UpIn(phys) \ {i} : i \in ToSet(Requires[r])
  BY <1>1 DEF Upheld, Required, UpIn
<1>9. want \subseteq Iface  BY <1>1, <1>2, ExplicitIs
<1> QED  BY <1>7, <1>8, <1>9

\* A process that goes on wants what it wanted.
LEMMA WantedOn ==
    ASSUME NEW o, NEW m, Continues(m, o), Synced(o) \/ o.pc = "sync", o.pc # "flush",
           ~o.cmd.mock, NEW file
    PROVE  WantedIn(m, file) = WantedIn(o, file)
<1>1. /\ m.cmd = o.cmd /\ m.pc \notin {"idle", "read", "flush"}
      /\ o.pc \notin {"idle", "read", "flush"}
  BY DEF Continues, Synced
<1> QED  BY <1>1 DEF WantedIn, Asks

\* A step from wanted stanzas w and running interfaces u to v and x: nothing happens,
\* somebody asks for something, an interface comes up or goes down.
Stutters(w, u, v, x) == v = w /\ x = u

Asked(w, u, v, x) ==
    /\ Promise!Needed(w) \subseteq u
    /\ \A i \in u \ w : \E r \in u \ {i} : i \in ToSet(Requires[r])
    /\ v \in SUBSET Iface /\ x = u

Raised(w, u, v, x) ==
    /\ v = w
    /\ \E i \in Promise!Needed(w) \ u :
           /\ \A d \in ToSet(Requires[i]) : d \in u \/ i \in Promise!Needed({d})
           /\ x = u \cup {i}

Lowered(w, u, v, x) ==
    /\ v = w
    /\ \E i \in u \ Promise!Needed(w) :
           /\ \A r \in u : i \in ToSet(Requires[r]) => r \in Promise!Needed({i})
           /\ x = u \ {i}

Answers(w, u, v, x) ==
    Stutters(w, u, v, x) \/ Asked(w, u, v, x) \/ Raised(w, u, v, x) \/ Lowered(w, u, v, x)

\* A phase succeeds: post-up brings up what is needed, pre-down takes down what is not.
LEMMA PhaseAnswers ==
    ASSUME NEW self, Tracked(self), Working(mem[self]), RunPhase(self)
    PROVE  Answers(WantedIn(mem[self], ifstate), UpIn(phys),
                   WantedIn(mem'[self], ifstate'), UpIn(phys'))
<1> DEFINE o == mem[self]
           s == o.stack
           l == Len(s)
           f == Top(o)
           i == f.iface
           up == o.cmd.up
           count == o.refcount
           ex == o.explicit
           V == PhaseEffect(o, TRUE)
           want == Explicit(ifstate)
           A == ArgumentsOf(o.cmd)
           K == Undone(o)
           w == WantedIn(o, ifstate)
           u == UpIn(phys)
           v == WantedIn(mem'[self], ifstate')
           x == UpIn(phys')
<1>1. /\ Counting(self, phys) /\ Follows(o, want, phys) /\ up \in BOOLEAN /\ o \in Memory
      /\ ~o.cmd.mock /\ Synced(o)
  BY AtWorking
<1>2. /\ o.pc = "run" /\ phys' = [phys EXCEPT ![i] = V]
      /\ V \in {"down", "partial", "up"} /\ (V = "up" <=> up /\ f.at = 5)
      /\ f.at \in 1 .. 5 /\ f.at # (IF up THEN 1 ELSE 5)
  BY <1>1, PhaseStep
<1>3. /\ Shape(up, s, phys, count) /\ Books(up, s, phys, count)
      /\ l \in Nat \ {0} /\ l \in DOMAIN s /\ f = s[l] /\ i \in Iface
  BY <1>1, <1>2, AtRun
<1>4. v = w
  <2>1. Continues(mem'[self], o) /\ ifstate' = ifstate
    BY RunPhaseTracks DEF RunPhase
  <2>2. o.pc # "flush"  BY <1>2
  <2> QED  BY <1>1, <2>1, <2>2, WantedOn
<1>5. phys'[i] = V /\ \A r \in Iface \ {i} : phys'[r] = phys[r]
  <2>1. phys \in [Key -> {"down", "partial", "up"}]  BY <1>3 DEF Shape
  <2> QED  BY <1>2, <1>3, <2>1, IfaceAssumption
<1>6. Tracks(up, s, count, ex, A, K, want)  BY <1>1, <1>2 DEF Follows
<1>7. w = IF up THEN want \cup A ELSE want \ A
  BY <1>1, <1>2 DEF WantedIn, Asks
<1>8. FrameOK(up, s, phys, f)  BY <1>3 DEF Books, FramesOK
<1>9. want \subseteq Iface
  <2>1. ifstate \in Seq(Record)  BY <1>1, Before DEF Counting
  <2>2. \A n \in DOMAIN ifstate : ifstate[n] \in Record  BY ONLY <2>1, ElementOfSeq
  <2> QED  BY <2>2 DEF Explicit, Record
<1> DEFINE kernel == phys'
<1>10. \A r \in Iface \ {i} : r \in x <=> r \in u  BY <1>5 DEF UpIn
<1>11. i \in x <=> V = "up"  BY <1>3, <1>5 DEF UpIn
<1>12. i \in u <=> phys[i] = "up"  BY <1>3 DEF UpIn
<1>13. x \subseteq Iface /\ u \subseteq Iface  BY DEF UpIn
<1> HIDE DEF v, x, V, K, count, ex, A, want, s, l, i, f, kernel
<1>14. CASE up
  <2>0. up = TRUE  BY <1>1, <1>14
  <2>1. i \notin u  BY <1>2, <1>8, <1>12, <1>14 DEF FrameOK, i
  <2>2. CASE f.at = 5
    <3>1. x = u \cup {i}  BY <1>2, <1>3, <1>10, <1>11, <1>13, <1>14, <2>2
    <3>2. s[l].at = 5 /\ s[l].iface = i  BY <1>3, <2>2 DEF i
    <3>3. Shape(TRUE, s, phys, count) /\ Books(TRUE, s, phys, count)
          /\ Tracks(TRUE, s, count, ex, A, K, want)
      BY <1>3, <1>6, <2>0
    <3>4. /\ i \in Promise!Needed(want \cup A)
          /\ \A d \in ToSet(Requires[i]) : phys[d] = "up" \/ i \in Promise!Needed({d})
      <4>1. l = Len(s) /\ l \in Nat \ {0}  BY <1>3 DEF l
      <4>2. /\ s[l].iface \in Promise!Needed(want \cup A)
            /\ \A d \in ToSet(Requires[s[l].iface]) :
                   phys[d] = "up" \/ s[l].iface \in Promise!Needed({d})
        BY ONLY <3>2, <3>3, <4>1, UpIsNeeded
      <4> QED  BY <3>2, <4>2
    <3>5. \A d \in ToSet(Requires[i]) : d \in Iface
      BY <1>3, RequiresType DEF ToSet
    <3>6. \A d \in ToSet(Requires[i]) : d \in u \/ i \in Promise!Needed({d})
      BY <3>4, <3>5 DEF UpIn
    <3>7. i \in Promise!Needed(w) \ u  BY <1>7, <1>14, <2>1, <3>4
    <3> HIDE DEF w, u
    <3>8. Raised(w, u, v, x)  BY <1>4, <3>1, <3>6, <3>7 DEF Raised
    <3> QED  BY <3>8 DEF Answers, w, u, v, x, o
  <2>3. CASE f.at # 5
    <3>1. x = u  BY <1>2, <1>10, <1>11, <1>13, <2>1, <2>3
    <3> QED  BY <1>4, <3>1 DEF Answers, Stutters, v, x
  <2> QED  BY <2>2, <2>3
<1>15. CASE ~up
  <2>0. up = FALSE  BY <1>1, <1>15
  <2>1. i \notin x /\ (i \in u <=> f.at = 1)
    BY <1>2, <1>8, <1>11, <1>12, <1>15 DEF FrameOK, i
  <2>2. CASE f.at = 1
    <3>1. x = u \ {i}  BY <1>10, <1>13, <2>1
    <3>2. s[l].at = 1 /\ s[l].iface = i  BY <1>3, <2>2 DEF i
    <3>3. Shape(FALSE, s, phys, count) /\ Books(FALSE, s, phys, count)
          /\ Tracks(FALSE, s, count, ex, A, K, want)
      BY <1>3, <1>6, <2>0
    <3>4. /\ i \notin Promise!Needed(want \ A)
          /\ \A r \in Iface : phys[r] = "up" => i \notin ToSet(Requires[r])
      <4>1. l = Len(s) /\ l \in Nat \ {0}  BY <1>3 DEF l
      <4>2. /\ s[l].iface \notin Promise!Needed(want \ A)
            /\ \A r \in Iface : phys[r] = "up" => s[l].iface \notin ToSet(Requires[r])
        BY ONLY <1>9, <3>2, <3>3, <4>1, DownIsUnneeded
      <4> QED  BY <3>2, <4>2
    <3>5. i \in u \ Promise!Needed(w)  BY <1>7, <1>15, <2>1, <2>2, <3>4
    <3>6. \A r \in u : i \in ToSet(Requires[r]) => r \in Promise!Needed({i})
      BY <3>4 DEF UpIn
    <3> HIDE DEF w, u
    <3>7. Lowered(w, u, v, x)  BY <1>4, <3>1, <3>5, <3>6 DEF Lowered
    <3> QED  BY <3>7 DEF Answers, w, u, v, x, o
  <2>3. CASE f.at # 1
    <3>1. x = u  BY <1>10, <1>13, <2>1, <2>3
    <3> QED  BY <1>4, <3>1 DEF Answers, Stutters, v, x
  <2> QED  BY <2>2, <2>3
<1> QED  BY <1>14, <1>15

\* The dependency query is answered: a command that is no mock run asks.
LEMMA QueryAnswers ==
    ASSUME NEW self, Tracked(self), ~mem[self].cmd.mock, ReadLine(self) \/ QueryDependents(self)
    PROVE  Answers(WantedIn(mem[self], ifstate), UpIn(phys),
                   WantedIn(mem'[self], ifstate'), UpIn(phys'))
<1> DEFINE o == mem[self]
           r == mem'[self]
           want == Explicit(ifstate)
           A == ArgumentsOf(o.cmd)
           w == WantedIn(o, ifstate)
           v == WantedIn(r, ifstate)
           u == UpIn(phys)
<1>1. ifstate' = ifstate /\ phys' = phys  BY DEF ReadLine, QueryDependents
<1>2. o.pc = "read"  BY DEF ReadLine, QueryDependents, At
<1>3. r = Idle \/ (r.cmd = o.cmd /\ r.pc \in {"read", "sync"})  BY ReadTracks
<1>4. w = want  BY <1>2 DEF WantedIn, Asks
<1>5. want \subseteq Iface /\ Promise!Needed(want) \subseteq u
      /\ \A i \in u \ want : \E q \in u \ {i} : i \in ToSet(Requires[q])
  BY <1>2, RestSettles
<1>6. A \subseteq Iface
  BY <1>2 DEF Tracked, Tracking, Plain
<1> HIDE DEF r
<1>7. v \in {want, want \cup A, want \ A}
  <2>1. CASE r = Idle  BY <2>1 DEF WantedIn, Asks, Idle, Fresh
  <2>2. CASE r.cmd = o.cmd /\ r.pc \in {"read", "sync"}
    BY <2>2 DEF WantedIn, Asks
  <2> QED  BY <1>3, <2>1, <2>2
<1> HIDE DEF want, A, w, v, u
<1>8. v \in SUBSET Iface  BY <1>5, <1>6, <1>7
<1>9. Asked(w, u, v, u)  BY <1>4, <1>5, <1>8 DEF Asked
<1> QED  BY <1>1, <1>9 DEF Answers, r, w, v, u

\* A step of a process.
LEMMA WorkAnswers ==
    ASSUME NEW self, Tracked(self), Work(self)
    PROVE  Answers(WantedIn(mem[self], ifstate), UpIn(phys),
                   WantedIn(mem'[self], ifstate'), UpIn(phys'))
<1> DEFINE o == mem[self]
           r == mem'[self]
<1>0. SUFFICES ASSUME ~((ReadLine(self) \/ QueryDependents(self) \/ RunPhase(self))
                        /\ ~o.cmd.mock)
               PROVE  /\ WantedIn(r, ifstate') = WantedIn(o, ifstate) /\ phys' = phys
  <2>1. CASE RunPhase(self) /\ ~o.cmd.mock
    <3>1. Working(o)  BY <2>1 DEF RunPhase, At, Working, Synced
    <3> QED  BY <2>1, <3>1, PhaseAnswers
  <2>2. CASE (ReadLine(self) \/ QueryDependents(self)) /\ ~o.cmd.mock
    BY <2>2, QueryAnswers
  <2>3. ASSUME WantedIn(r, ifstate') = WantedIn(o, ifstate), phys' = phys
        PROVE  Answers(WantedIn(o, ifstate), UpIn(phys), WantedIn(r, ifstate'), UpIn(phys'))
    BY <2>3 DEF Answers, Stutters
  <2> QED  BY <2>1, <2>2, <2>3
<1>1. CASE o.cmd.mock
  <2>1. ifstate' = ifstate /\ phys' = phys /\ (r = Idle \/ r.cmd = o.cmd)
    BY <1>1, MockTracks
  <2>2. ~Asks(o)  BY <1>1 DEF Asks
  <2>3. ~Asks(r)
    <3>1. CASE r = Idle  BY <3>1 DEF Asks, Idle, Fresh
    <3>2. CASE r.cmd = o.cmd  BY <1>1, <3>2 DEF Asks
    <3> QED  BY <2>1, <3>1, <3>2
  <2> HIDE DEF o, r
  <2> QED  BY <2>1, <2>2, <2>3 DEF WantedIn
<1>2. CASE ~o.cmd.mock
  <2>1. CASE Plods(self)
    <3>1. Continues(r, o) /\ ifstate' = ifstate /\ phys' = phys
      BY <1>2, <2>1, PlodTracks
    <3>2. (Synced(o) \/ o.pc = "sync") /\ o.pc # "flush"
      BY <2>1 DEF Plods, SyncState, AcquireLock, SkipInterface, ChangeInterface,
         ChangeDependent, AtDependent, DependentsDone, ReturnFromRun, FinishInterface,
         NoMoreTargets, At, Synced
    <3> QED  BY <1>2, <3>1, <3>2, WantedOn
  <2>2. CASE Working(o) /\ OpenStateFile(self)
    <3>1. o.pc = "write" /\ phys' = phys  BY <2>2 DEF OpenStateFile, At
    <3>2. r.pc = "flush" /\ r.cmd = o.cmd /\ r.state = o.state  BY <2>2, OpenTracks
    <3>3. Explicit(o.state) = IF o.cmd.up THEN Explicit(ifstate) \cup ArgumentsOf(o.cmd)
                              ELSE Explicit(ifstate) \ ArgumentsOf(o.cmd)
      BY <2>2, <3>1, MarksAtEnd
    <3> HIDE DEF o, r
    <3>4. WantedIn(r, ifstate') = Explicit(o.state)
      BY <1>2, <3>2 DEF WantedIn, Asks
    <3>5. WantedIn(o, ifstate) = Explicit(o.state)
      BY <1>2, <3>1, <3>3 DEF WantedIn, Asks
    <3> QED  BY <3>1, <3>4, <3>5
  <2>3. CASE Working(o) /\ FlushStateFile(self)
    <3>1. o.pc = "flush" /\ phys' = phys  BY <2>3 DEF FlushStateFile, At
    <3>2. r = Idle /\ ifstate' = o.state  BY <2>3, FlushTracks
    <3>3. ~Asks(r)  BY <3>2 DEF Asks, Idle, Fresh
    <3> HIDE DEF o, r
    <3>4. WantedIn(r, ifstate') = Explicit(o.state)  BY <3>2, <3>3 DEF WantedIn
    <3>5. WantedIn(o, ifstate) = Explicit(o.state)  BY <1>2, <3>1 DEF WantedIn, Asks
    <3> QED  BY <3>1, <3>4, <3>5
  <2> QED  BY <1>0, <1>2, <2>1, <2>2, <2>3, WorksHow
<1> QED  BY <1>1, <1>2

LEMMA StartAnswers ==
    ASSUME NEW self, Tracked(self), Start(self)
    PROVE  Stutters(WantedIn(mem[self], ifstate), UpIn(phys),
                    WantedIn(mem'[self], ifstate'), UpIn(phys'))
<1>1. PICK c \in Commands : mem'[self] = Fresh("read", c, ifstate)
  BY Updated DEF Start, Tracked, Counting
<1>2. ~Asks(mem'[self])  BY <1>1 DEF Asks, Fresh
<1>3. ~Asks(mem[self])  BY DEF Start, At, Asks
<1>4. ifstate' = ifstate /\ phys' = phys  BY DEF Start
<1> QED  BY <1>2, <1>3, <1>4 DEF Stutters, WantedIn

\* A step keeps the promise.
LEMMA StepKeepsPromise ==
    ASSUME RefInv, [Next]_vars
    PROVE  [Promise!Next]_(Promise!vars)
<1> DEFINE self == Shell
           w == Wanted(mem[Shell])
           u == {i \in Iface : phys[i] = "up"}
<1>1. self \in Proc /\ Tracked(self) /\ \A p \in Proc : p = self
  <2>1. self \in Proc  BY DEF RefInv, CountsInv, Undisturbed, Shell
  <2> QED  BY <2>1, AloneTracked
<1>2. w = WantedIn(mem[self], ifstate) /\ w' = WantedIn(mem'[self], ifstate')
  BY DEF Wanted, WantedIn, Asks
<1>3. u = UpIn(phys) /\ u' = UpIn(phys')  BY DEF UpIn
<1>4. Answers(w, u, w', u')
  <2>1. CASE UNCHANGED vars
    <3>1. w' = w /\ u' = u  BY <1>2, <2>1 DEF vars
    <3> QED  BY <3>1 DEF Answers, Stutters
  <2>2. CASE Start(self)  BY <1>1, <1>2, <1>3, <2>2, StartAnswers DEF Answers
  <2>3. CASE Work(self)  BY <1>1, <1>2, <1>3, <2>3, WorkAnswers
  <2>4. ~Crash(self)
    <3>1. crashes \in Nat  BY <1>1, Before DEF Tracked, Counting
    <3> QED  BY <3>1 DEF RefInv, Crash
  <2> QED  BY <1>1, <2>1, <2>2, <2>3, <2>4 DEF Next, Rest
<1>5. CASE Stutters(w, u, w', u')  BY <1>5 DEF Stutters, Promise!vars
<1>6. CASE Asked(w, u, w', u')
  <2>1. Promise!Request
    BY <1>6 DEF Asked, Promise!Request, Promise!Settled
  <2> QED  BY <2>1 DEF Promise!Next
<1>7. CASE Raised(w, u, w', u')
  <2>1. PICK i \in Promise!Needed(w) \ u :
          /\ \A d \in ToSet(Requires[i]) : d \in u \/ i \in Promise!Needed({d})
          /\ u' = u \cup {i}
    BY <1>7 DEF Raised
  <2>2. w' = w  BY <1>7 DEF Raised
  <2>3. i \in Iface  BY <2>1, NeededIs
  <2>4. Promise!BringUp(i)
    BY <2>1, <2>2, <2>3 DEF Promise!BringUp, Promise!RequiresBack
  <2> QED  BY <2>3, <2>4 DEF Promise!Next, Promise!Change
<1>8. CASE Lowered(w, u, w', u')
  <2>1. PICK i \in u \ Promise!Needed(w) :
          /\ \A r \in u : i \in ToSet(Requires[r]) => r \in Promise!Needed({i})
          /\ u' = u \ {i}
    BY <1>8 DEF Lowered
  <2>2. w' = w  BY <1>8 DEF Lowered
  <2>3. i \in Iface  BY <2>1
  <2>4. Promise!TakeDown(i)
    BY <2>1, <2>2, <2>3 DEF Promise!TakeDown, Promise!RequiresBack
  <2> QED  BY <2>3, <2>4 DEF Promise!Next, Promise!Change
<1> QED  BY <1>4, <1>5, <1>6, <1>7, <1>8 DEF Answers

\* Nothing is wanted and nothing is up before the first command.
LEMMA InitKeepsPromise == Undisturbed /\ Init => Promise!Init
<1> SUFFICES ASSUME Undisturbed, Init  PROVE Promise!Init
  OBVIOUS
<1>1. Shell \in Proc  BY DEF Undisturbed, Shell
<1>2. mem[Shell].pc = "idle"  BY <1>1 DEF Init, Idle, Fresh
<1>3. Wanted(mem[Shell]) = {}  BY <1>2 DEF Init, Wanted, Asks, Explicit
<1>4. \A i \in Iface : phys[i] # "up"  BY IfaceAssumption DEF Init
<1> QED  BY <1>3, <1>4 DEF Promise!Init

(***************************************************************************)
(* THE THEOREM.  For any interfaces and any sequence of ifup and ifdown    *)
(* of named interfaces, one after the other and none failing, the steps    *)
(* that Requirements sees are steps of it: a command is asked for when the *)
(* last one has done its work, an interface comes up only if the names     *)
(* asked for need it and after what it requires, and goes down only if     *)
(* they do not and nothing that is up requires it.                         *)
(***************************************************************************)
THEOREM CommandsKeepPromise ==
    Undisturbed /\ ByName /\ MaxCrashes = 0 /\ Spec => Promise!Init /\ [][Promise!Next]_(Promise!vars)
<1>1. RefInv /\ [Next]_vars => [Promise!Next]_(Promise!vars)  BY StepKeepsPromise
<1> QED  BY <1>1, InitKeepsPromise, RefInvariance, PTL DEF Spec
=============================================================================
