--------------------------- MODULE IfUpDown_proofs ---------------------------
(***************************************************************************)
(* Theorems about IfUpDown for every set of processes, every interfaces    *)
(* file, every set of command lines and every bound, after the lemmas they *)
(* need about the dictionary operators of IfState: a dictionary with       *)
(* distinct keys and positive counts stays one under every operation.      *)
(* After the structure of a process come which stanzas are ever worked on, *)
(* what a mock run touches, and that the two copies of a count agree.      *)
(***************************************************************************)
EXTENDS IfUpDown, SequenceTheorems, WellFoundedInduction, TLAPS

-----------------------------------------------------------------------------
(* Least and greatest positions.                                           *)

\* Every non-empty set of naturals has a least element.
LEMMA LeastElement ==
    ASSUME NEW T \in SUBSET Nat, T # {}
    PROVE  \E x \in T : \A y \in T : x <= y
<1>1. PICK x \in T : \A y \in T : ~(<<y, x>> \in OpToRel(<, Nat))
  BY WFMin, NatLessThanWellFounded, Zenon
<1>2. ASSUME NEW y \in T PROVE x <= y
  <2>1. ~(<<y, x>> \in {ss \in Nat \X Nat : ss[1] < ss[2]})
    BY <1>1 DEF OpToRel
  <2> QED  BY <2>1
<1> QED  BY <1>2

\* The list search of lif_dict_find finds the entry if there is one.
LEMMA PositionFound ==
    ASSUME NEW s \in Seq(Record), NEW k, HasRecord(s, k)
    PROVE  Position(s, k) \in 1 .. Len(s) /\ s[Position(s, k)].key = k
<1> DEFINE T == {n \in DOMAIN s : s[n].key = k}
<1>1. Len(s) \in Nat /\ DOMAIN s = 1 .. Len(s)  BY LenProperties
<1>2. T \in SUBSET Nat /\ T # {}  BY <1>1 DEF HasRecord
<1>3. PICK n \in T : \A y \in T : n <= y  BY <1>2, LeastElement
<1>4. /\ n \in DOMAIN s /\ s[n].key = k
      /\ \A m \in 1 .. n - 1 : s[m].key # k
  <2>1. ASSUME NEW m \in 1 .. n - 1, s[m].key = k PROVE FALSE
    <3>1. m \in T  BY <2>1, <1>1, <1>3
    <3> QED  BY <3>1, <1>1, <1>3
  <2> QED  BY <2>1, <1>3
<1> QED  BY <1>1, <1>4 DEF Position

\* Walking the whole list ends with a last entry mapped to i if there is one.
LEMMA LastMappedFound ==
    ASSUME NEW s \in Seq(Record), NEW i, IsMapped(s, i)
    PROVE  LastMapped(s, i) \in 1 .. Len(s) /\ s[LastMapped(s, i)].mapped = i
<1> DEFINE T == {d \in 0 .. Len(s) : Len(s) - d \in DOMAIN s /\ s[Len(s) - d].mapped = i}
<1>1. Len(s) \in Nat /\ DOMAIN s = 1 .. Len(s)  BY LenProperties
<1>2. T \in SUBSET Nat /\ T # {}
  <2>1. PICK n \in DOMAIN s : s[n].mapped = i  BY DEF IsMapped
  <2>2. Len(s) - (Len(s) - n) = n /\ Len(s) - n \in 0 .. Len(s)  BY <2>1, <1>1
  <2>3. Len(s) - n \in T  BY <2>1, <2>2
  <2> QED  BY <2>3, <1>1
<1>3. PICK d \in T : \A y \in T : d <= y  BY <1>2, LeastElement
<1> DEFINE l == Len(s) - d
<1>4. /\ l \in DOMAIN s /\ s[l].mapped = i
      /\ \A m \in l + 1 .. Len(s) : s[m].mapped # i
  <2>1. ASSUME NEW m \in l + 1 .. Len(s), s[m].mapped = i PROVE FALSE
    <3>1. /\ Len(s) - m \in 0 .. Len(s) /\ Len(s) - (Len(s) - m) = m
          /\ m \in DOMAIN s /\ Len(s) - m < d
      BY <1>1, <1>3
    <3>2. Len(s) - m \in T  BY <3>1, <2>1
    <3> QED  BY <3>1, <3>2, <1>1, <1>3
  <2> QED  BY <2>1, <1>3
<1> QED  BY <1>1, <1>4 DEF LastMapped

-----------------------------------------------------------------------------
(* Sequences with one element taken out.                                   *)

LEMMA RemoveAtElements ==
    ASSUME NEW S, NEW s \in Seq(S), NEW i \in 1 .. Len(s)
    PROVE  /\ RemoveAt(s, i) \in Seq(S)
           /\ Len(RemoveAt(s, i)) = Len(s) - 1
           /\ \A n \in 1 .. Len(s) - 1 :
                  RemoveAt(s, i)[n] = IF n < i THEN s[n] ELSE s[n + 1]
<1> DEFINE a == SubSeq(s, 1, i - 1)
           b == SubSeq(s, i + 1, Len(s))
<1>1. /\ a \in Seq(S) /\ Len(a) = i - 1
      /\ \A n \in 1 .. i - 1 : a[n] = s[n]
  BY SubSeqProperties, LenProperties
<1>2. /\ b \in Seq(S) /\ Len(b) = Len(s) - i
      /\ \A n \in 1 .. Len(s) - i : b[n] = s[n + i]
  <2>1. Len(s) \in Nat  BY LenProperties
  <2>2. i + 1 <= Len(s) \/ i = Len(s)  BY <2>1
  <2> QED  BY <2>1, <2>2, SubSeqProperties, LenProperties, EmptySeq, SMT
<1>3. RemoveAt(s, i) = a \o b
  BY DEF RemoveAt
<1>4. Len(s) \in Nat  BY LenProperties
<1> HIDE DEF a, b
<1>5. /\ a \o b \in Seq(S)
      /\ Len(a \o b) = Len(a) + Len(b)
      /\ \A n \in 1 .. Len(a) + Len(b) :
            (a \o b)[n] = IF n <= Len(a) THEN a[n] ELSE b[n - Len(a)]
  BY <1>1, <1>2, ConcatProperties
<1>6. ASSUME NEW n \in 1 .. Len(s) - 1
      PROVE  (a \o b)[n] = IF n < i THEN s[n] ELSE s[n + 1]
  <2>0. n \in 1 .. Len(a) + Len(b) /\ n \in Nat /\ i \in Nat /\ Len(a) \in Nat
    BY <1>1, <1>2, <1>4
  <2>1. CASE n < i
    <3>1. n <= Len(a) /\ n \in 1 .. i - 1  BY <2>0, <2>1, <1>1, <1>4
    <3> QED  BY <3>1, <2>0, <2>1, <1>1, <1>5
  <2>2. CASE ~(n < i)
    <3>1. ~(n <= Len(a)) /\ n - Len(a) \in 1 .. Len(s) - i
      BY <2>0, <2>2, <1>1, <1>4
    <3>2. b[n - Len(a)] = s[(n - Len(a)) + i]  BY <3>1, <1>2
    <3>3. (n - Len(a)) + i = n + 1  BY <2>0, <1>1
    <3> QED  BY <3>1, <3>2, <3>3, <2>0, <2>2, <1>5
  <2> QED  BY <2>1, <2>2
<1>7. Len(a \o b) = Len(s) - 1
  BY <1>1, <1>2, <1>4, <1>5
<1> QED  BY <1>3, <1>5, <1>6, <1>7

-----------------------------------------------------------------------------
(* The dictionary operations.                                              *)

\* lif_state_delete returns a list of records.
LEMMA DeleteType ==
    ASSUME NEW s \in Seq(Record), NEW k
    PROVE  Delete(s, k) \in Seq(Record)
<1>1. CASE HasRecord(s, k)
  BY <1>1, PositionFound, RemoveAtElements DEF Delete
<1>2. CASE ~HasRecord(s, k)
  BY <1>2 DEF Delete
<1> QED  BY <1>1, <1>2

\* Every entry that lif_state_delete leaves was there before, and two of them at
\* different places came from different places.
LEMMA DeleteEntries ==
    ASSUME NEW s \in Seq(Record), NEW k, HasRecord(s, k)
    PROVE  /\ DOMAIN Delete(s, k) = 1 .. Len(s) - 1
           /\ \A n \in 1 .. Len(s) - 1 :
                 Delete(s, k)[n] = IF n < Position(s, k) THEN s[n] ELSE s[n + 1]
<1>1. Position(s, k) \in 1 .. Len(s)  BY PositionFound
<1>2. Delete(s, k) = RemoveAt(s, Position(s, k))  BY DEF Delete
<1>3. /\ Delete(s, k) \in Seq(Record)
      /\ Len(Delete(s, k)) = Len(s) - 1
      /\ \A n \in 1 .. Len(s) - 1 :
            Delete(s, k)[n] = IF n < Position(s, k) THEN s[n] ELSE s[n + 1]
  BY <1>1, <1>2, RemoveAtElements
<1> QED  BY <1>3, LenProperties

\* lif_state_delete keeps a dictionary and leaves no entry with the key.
LEMMA DeleteDictionary ==
    ASSUME NEW s \in Seq(Record), IsDictionary(s), NEW k
    PROVE  IsDictionary(Delete(s, k)) /\ ~HasRecord(Delete(s, k), k)
<1>1. CASE ~HasRecord(s, k)
  BY <1>1 DEF Delete
<1>2. CASE HasRecord(s, k)
  <2> DEFINE d == Delete(s, k)
             pos == Position(s, k)
             from(n) == IF n < pos THEN n ELSE n + 1
  <2>1. /\ Len(s) \in Nat /\ DOMAIN s = 1 .. Len(s)
        /\ pos \in 1 .. Len(s) /\ s[pos].key = k
    BY <1>2, LenProperties, PositionFound
  <2>2. DOMAIN d = 1 .. Len(s) - 1
    BY <1>2, DeleteEntries
  <2>3. \A n \in DOMAIN d : d[n] = s[from(n)] /\ from(n) \in DOMAIN s /\ from(n) # pos
    BY <1>2, <2>1, <2>2, DeleteEntries
  <2>4. \A m, n \in DOMAIN d : from(m) = from(n) => m = n
    BY <2>1, <2>2
  <2> HIDE DEF d, pos, from
  <2>5. KeysDistinct(d)
    BY <2>3, <2>4 DEF KeysDistinct, IsDictionary
  <2>6. \A n \in DOMAIN d : d[n].refcount > 0 /\ d[n].key # k
    BY <2>1, <2>3 DEF KeysDistinct, IsDictionary
  <2> QED  BY <2>5, <2>6 DEF IsDictionary, HasRecord, d
<1> QED  BY <1>1, <1>2

\* lif_state_upsert returns a list of records.
LEMMA UpsertType ==
    ASSUME NEW s \in Seq(Record), NEW r \in Record
    PROVE  Upsert(s, r) \in Seq(Record)
BY DeleteType, AppendProperties DEF Upsert

\* lif_state_upsert keeps a dictionary if it adds a positive count.
LEMMA UpsertDictionary ==
    ASSUME NEW s \in Seq(Record), IsDictionary(s), NEW r \in Record, r.refcount > 0
    PROVE  IsDictionary(Upsert(s, r))
<1> DEFINE d == Delete(s, r.key)
<1>1. d \in Seq(Record) /\ IsDictionary(d) /\ ~HasRecord(d, r.key)
  BY DeleteType, DeleteDictionary
<1>2. Upsert(s, r) = Append(d, r)  BY DEF Upsert
<1> HIDE DEF d
<1>3. /\ Len(d) \in Nat /\ DOMAIN d = 1 .. Len(d)
      /\ DOMAIN Append(d, r) = 1 .. Len(d) + 1
      /\ \A n \in 1 .. Len(d) : Append(d, r)[n] = d[n]
      /\ Append(d, r)[Len(d) + 1] = r
  BY <1>1, LenProperties, AppendProperties
<1>4. KeysDistinct(Append(d, r))
  BY <1>1, <1>3 DEF KeysDistinct, IsDictionary, HasRecord
<1>5. \A n \in DOMAIN Append(d, r) : Append(d, r)[n].refcount > 0
  BY <1>1, <1>3 DEF IsDictionary
<1> QED  BY <1>2, <1>4, <1>5 DEF IsDictionary

\* lif_state_sync gives every stanza a count and a mark.
LEMMA SyncType ==
    ASSUME NEW s \in Seq(Record), NEW e \in [Iface -> BOOLEAN]
    PROVE  /\ SyncedRefcount(s) \in [Iface -> Nat]
           /\ SyncedExplicit(s, e) \in [Iface -> BOOLEAN]
<1>1. ASSUME NEW i \in Iface, IsMapped(s, i) PROVE s[LastMapped(s, i)] \in Record
  BY <1>1, LastMappedFound, ElementOfSeq
<1> QED  BY <1>1 DEF SyncedRefcount, SyncedExplicit, Record
\* Whatever two writers leave in the state file is lines.
LEMMA OverwriteType ==
    ASSUME NEW old \in Seq(Record), NEW new \in Seq(Record)
    PROVE  Overwrite(old, new) \in Seq(Record)
<1>1. Len(old) \in Nat /\ Len(new) \in Nat  BY LenProperties
<1>2. \A n \in Len(new) + 1 .. Len(old) : old[n] \in Record
  BY <1>1, ElementOfSeq
<1>3. SubSeq(old, Len(new) + 1, Len(old)) \in Seq(Record)
  BY <1>1, <1>2, SubSeqProperties
<1> QED  BY <1>3, ConcatProperties DEF Overwrite

-----------------------------------------------------------------------------
(* What lif_dict_find finds after a change.                                *)

\* With one entry per key, the entry with the key is the one that is found.
LEMMA RecordIs ==
    ASSUME NEW s \in Seq(Record), KeysDistinct(s), NEW n \in DOMAIN s
    PROVE  HasRecord(s, s[n].key) /\ RecordOf(s, s[n].key) = s[n]
<1>1. HasRecord(s, s[n].key)  BY DEF HasRecord
<1>2. /\ Position(s, s[n].key) \in DOMAIN s
      /\ s[Position(s, s[n].key)].key = s[n].key
  BY <1>1, PositionFound, LenProperties
<1> QED  BY <1>1, <1>2 DEF KeysDistinct, RecordOf

\* What is found is an entry with the key.
LEMMA RecordFound ==
    ASSUME NEW s \in Seq(Record), NEW k, HasRecord(s, k)
    PROVE  /\ RecordOf(s, k) \in Record /\ RecordOf(s, k).key = k
           /\ \E n \in DOMAIN s : RecordOf(s, k) = s[n]
<1>1. Position(s, k) \in 1 .. Len(s) /\ s[Position(s, k)].key = k  BY PositionFound
<1> QED  BY <1>1, ElementOfSeq, LenProperties DEF RecordOf

\* lif_state_delete takes away nothing but the entry with the key.
LEMMA DeleteFinds ==
    ASSUME NEW s \in Seq(Record), IsDictionary(s), NEW k, NEW j, j # k
    PROVE  /\ HasRecord(Delete(s, k), j) <=> HasRecord(s, j)
           /\ HasRecord(s, j) => RecordOf(Delete(s, k), j) = RecordOf(s, j)
<1>1. CASE ~HasRecord(s, k)
  BY <1>1 DEF Delete
<1>2. CASE HasRecord(s, k)
  <2> DEFINE d == Delete(s, k)
             pos == Position(s, k)
             from(n) == IF n < pos THEN n ELSE n + 1
             to(n) == IF n < pos THEN n ELSE n - 1
  <2>1. /\ Len(s) \in Nat /\ DOMAIN s = 1 .. Len(s)
        /\ pos \in 1 .. Len(s) /\ s[pos].key = k
    BY <1>2, LenProperties, PositionFound
  <2>2. DOMAIN d = 1 .. Len(s) - 1 /\ d \in Seq(Record) /\ KeysDistinct(d)
    BY <1>2, DeleteEntries, DeleteType, DeleteDictionary DEF IsDictionary
  <2>3. \A n \in DOMAIN d : d[n] = s[from(n)] /\ from(n) \in DOMAIN s
    BY <1>2, <2>1, <2>2, DeleteEntries
  <2>4. \A n \in DOMAIN s : n # pos => to(n) \in DOMAIN d /\ from(to(n)) = n
    BY <2>1, <2>2
  <2> HIDE DEF d, pos, from, to
  <2>5. HasRecord(d, j) => HasRecord(s, j)  BY <2>3 DEF HasRecord
  <2>6. ASSUME HasRecord(s, j)
        PROVE  HasRecord(d, j) /\ RecordOf(d, j) = RecordOf(s, j)
    <3>1. PICK n \in DOMAIN s : RecordOf(s, j) = s[n] /\ s[n].key = j
      BY <2>6, RecordFound
    <3>2. n # pos  BY <2>1, <3>1
    <3>3. to(n) \in DOMAIN d /\ d[to(n)] = s[n]  BY <2>3, <2>4, <3>1, <3>2
    <3> QED  BY <2>2, <3>1, <3>3, RecordIs
  <2> QED  BY <2>5, <2>6 DEF d
<1> QED  BY <1>1, <1>2

\* lif_state_upsert changes nothing but the entry with the key of its record.
LEMMA UpsertFinds ==
    ASSUME NEW s \in Seq(Record), IsDictionary(s), NEW r \in Record, r.refcount > 0
    PROVE  /\ HasRecord(Upsert(s, r), r.key) /\ RecordOf(Upsert(s, r), r.key) = r
           /\ \A j : j # r.key =>
                /\ HasRecord(Upsert(s, r), j) <=> HasRecord(s, j)
                /\ HasRecord(s, j) => RecordOf(Upsert(s, r), j) = RecordOf(s, j)
<1> DEFINE d == Delete(s, r.key)
           u == Append(d, r)
<1>1. /\ d \in Seq(Record) /\ IsDictionary(d) /\ ~HasRecord(d, r.key)
      /\ u \in Seq(Record) /\ KeysDistinct(u) /\ Upsert(s, r) = u
  BY DeleteType, DeleteDictionary, UpsertType, UpsertDictionary DEF Upsert, IsDictionary
<1>2. \A j : j # r.key =>
          /\ HasRecord(d, j) <=> HasRecord(s, j)
          /\ HasRecord(s, j) => RecordOf(d, j) = RecordOf(s, j)
  BY DeleteFinds
<1> HIDE DEF d
<1>3. /\ Len(d) \in Nat /\ DOMAIN d = 1 .. Len(d)
      /\ DOMAIN u = 1 .. Len(d) + 1
      /\ \A n \in 1 .. Len(d) : u[n] = d[n]
      /\ u[Len(d) + 1] = r
  BY <1>1, LenProperties, AppendProperties
<1> HIDE DEF u
<1>4. HasRecord(u, r.key) /\ RecordOf(u, r.key) = r
  <2>1. Len(d) + 1 \in DOMAIN u  BY <1>3
  <2> QED  BY <1>1, <1>3, <2>1, RecordIs
<1>5. ASSUME NEW j, j # r.key
      PROVE  /\ HasRecord(u, j) <=> HasRecord(d, j)
             /\ HasRecord(d, j) => RecordOf(u, j) = RecordOf(d, j)
  <2>1. HasRecord(u, j) => HasRecord(d, j)
    <3> SUFFICES ASSUME NEW n \in DOMAIN u, u[n].key = j PROVE HasRecord(d, j)
      BY DEF HasRecord
    <3>1. n \in 1 .. Len(d)  BY <1>3, <1>5
    <3> QED  BY <1>3, <3>1 DEF HasRecord
  <2>2. ASSUME HasRecord(d, j)
        PROVE  HasRecord(u, j) /\ RecordOf(u, j) = RecordOf(d, j)
    <3>1. PICK n \in DOMAIN d : RecordOf(d, j) = d[n] /\ d[n].key = j
      BY <1>1, <2>2, RecordFound
    <3>2. n \in DOMAIN u /\ u[n] = d[n]  BY <1>3, <3>1
    <3> QED  BY <1>1, <3>1, <3>2, RecordIs
  <2> QED  BY <2>1, <2>2
<1> QED  BY <1>1, <1>2, <1>4, <1>5

-----------------------------------------------------------------------------
(* Stanzas that are used under their own name.                             *)

OwnNames(s) == \A n \in DOMAIN s : s[n].mapped = s[n].key

\* No operation of lif_state.c brings in an alias.
LEMMA OwnNamesKept ==
    ASSUME NEW s \in Seq(Record), OwnNames(s)
    PROVE  /\ \A k : OwnNames(Delete(s, k))
           /\ \A r \in Record : r.mapped = r.key => OwnNames(Upsert(s, r))
           /\ \A t \in Seq(Record) : OwnNames(t) => OwnNames(Overwrite(s, t))
<1>0. Len(s) \in Nat /\ DOMAIN s = 1 .. Len(s)  BY LenProperties
<1>1. ASSUME NEW k PROVE OwnNames(Delete(s, k))
  <2>1. CASE ~HasRecord(s, k)  BY <2>1 DEF Delete
  <2>2. CASE HasRecord(s, k)
    <3> DEFINE d == Delete(s, k)
    <3>1. Position(s, k) \in 1 .. Len(s)  BY <2>2, PositionFound
    <3>2. /\ DOMAIN d = 1 .. Len(s) - 1
          /\ \A n \in 1 .. Len(s) - 1 : d[n] = IF n < Position(s, k) THEN s[n] ELSE s[n + 1]
      BY <2>2, DeleteEntries
    <3> HIDE DEF d
    <3>3. \A n \in DOMAIN d : \E m \in DOMAIN s : d[n] = s[m]
      BY <1>0, <3>1, <3>2
    <3>4. OwnNames(d)  BY <3>3 DEF OwnNames
    <3> QED  BY <3>4 DEF d
  <2> QED  BY <2>1, <2>2
<1>2. ASSUME NEW r \in Record, r.mapped = r.key PROVE OwnNames(Upsert(s, r))
  <2> DEFINE d == Delete(s, r.key)
  <2>1. d \in Seq(Record) /\ OwnNames(d) /\ Upsert(s, r) = Append(d, r)
    BY <1>1, DeleteType DEF Upsert
  <2> HIDE DEF d
  <2>2. /\ DOMAIN Append(d, r) = 1 .. Len(d) + 1 /\ DOMAIN d = 1 .. Len(d) /\ Len(d) \in Nat
        /\ \A n \in 1 .. Len(d) : Append(d, r)[n] = d[n]
        /\ Append(d, r)[Len(d) + 1] = r
    BY <2>1, LenProperties, AppendProperties
  <2> QED  BY <1>2, <2>1, <2>2 DEF OwnNames
<1>3. ASSUME NEW t \in Seq(Record), OwnNames(t) PROVE OwnNames(Overwrite(s, t))
  <2> DEFINE b == SubSeq(s, Len(t) + 1, Len(s))
  <2>0. Len(t) \in Nat /\ DOMAIN t = 1 .. Len(t)  BY LenProperties
  <2>1. /\ b \in Seq(Record) /\ \A n \in DOMAIN b : b[n].mapped = b[n].key
    <3>1. CASE Len(t) + 1 <= Len(s)
      <4>1. /\ b \in Seq(Record) /\ Len(b) = Len(s) - Len(t) /\ DOMAIN b = 1 .. Len(b)
            /\ \A n \in 1 .. Len(s) - Len(t) : b[n] = s[n + Len(t)]
        BY <1>0, <2>0, <3>1, SubSeqProperties, LenProperties
      <4> HIDE DEF b
      <4>2. \A n \in DOMAIN b : n + Len(t) \in DOMAIN s /\ b[n] = s[n + Len(t)]
        BY <1>0, <2>0, <3>1, <4>1
      <4> QED  BY <4>1, <4>2 DEF OwnNames
    <3>2. CASE ~(Len(t) + 1 <= Len(s))
      <4>1. b = << >>  BY <1>0, <2>0, <3>2, SubSeqProperties, EmptySeq
      <4> HIDE DEF b
      <4> QED  BY <4>1, EmptySeq
    <3> QED  BY <3>1, <3>2
  <2> HIDE DEF b
  <2>2. /\ Len(b) \in Nat /\ DOMAIN b = 1 .. Len(b)
        /\ DOMAIN (t \o b) = 1 .. Len(t) + Len(b)
        /\ \A n \in 1 .. Len(t) + Len(b) :
              (t \o b)[n] = IF n <= Len(t) THEN t[n] ELSE b[n - Len(t)]
    BY <2>0, <2>1, ConcatProperties, LenProperties
  <2>3. ASSUME NEW n \in DOMAIN (t \o b)
        PROVE  (t \o b)[n].mapped = (t \o b)[n].key
    <3>1. CASE n <= Len(t)  BY <1>3, <2>0, <2>2, <2>3, <3>1 DEF OwnNames
    <3>2. CASE ~(n <= Len(t))
      <4>1. n - Len(t) \in DOMAIN b  BY <2>0, <2>2, <2>3, <3>2
      <4> QED  BY <2>1, <2>2, <2>3, <3>2, <4>1
    <3> QED  BY <3>1, <3>2
  <2>4. Overwrite(s, t) = t \o b  BY DEF Overwrite, b
  <2> QED  BY <2>3, <2>4 DEF OwnNames
<1> QED  BY <1>1, <1>2, <1>3

\* When no stanza has an alias, lif_state_sync takes over the one record of each.
LEMMA SyncFinds ==
    ASSUME NEW s \in Seq(Record), IsDictionary(s), OwnNames(s), NEW i \in Iface, NEW e
    PROVE  IF HasRecord(s, i)
           THEN /\ SyncedRefcount(s)[i] = RecordOf(s, i).refcount
                /\ SyncedExplicit(s, e)[i] = RecordOf(s, i).explicit
                /\ RecordOf(s, i).refcount > 0 /\ RecordOf(s, i).mapped = i
           ELSE SyncedRefcount(s)[i] = 0
<1>1. CASE HasRecord(s, i)
  <2>1. PICK n \in DOMAIN s : RecordOf(s, i) = s[n] /\ s[n].key = i
    BY <1>1, RecordFound
  <2>2. s[n].mapped = i /\ s[n].refcount > 0  BY <2>1 DEF OwnNames, IsDictionary
  <2>3. IsMapped(s, i)  BY <2>1, <2>2 DEF IsMapped
  <2>4. LastMapped(s, i) \in DOMAIN s /\ s[LastMapped(s, i)].mapped = i
    BY <2>3, LastMappedFound, LenProperties
  <2>5. s[LastMapped(s, i)].key = i  BY <2>4 DEF OwnNames
  <2>6. LastMapped(s, i) = n  BY <2>1, <2>4, <2>5 DEF IsDictionary, KeysDistinct
  <2> QED  BY <1>1, <2>1, <2>2, <2>3, <2>6 DEF SyncedRefcount, SyncedExplicit
<1>2. CASE ~HasRecord(s, i)
  <2>1. ~IsMapped(s, i)  BY <1>2 DEF IsMapped, HasRecord, OwnNames
  <2> QED  BY <1>2, <2>1 DEF SyncedRefcount
<1> QED  BY <1>1, <1>2

-----------------------------------------------------------------------------
(* The memory of a process after a call.                                   *)

\* Reference counting leaves these parts of the memory alone.
SameControl(r, m) ==
    /\ r.pc = m.pc /\ r.cmd = m.cmd /\ r.input = m.input /\ r.todo = m.todo
    /\ r.target = m.target /\ r.pending = m.pending /\ r.stack = m.stack /\ r.ok = m.ok

\* Replacing the reference counts of all stanzas.
LEMMA CountType ==
    ASSUME NEW m \in Memory, NEW i \in Iface, NEW n \in Nat
    PROVE  LET r == [m EXCEPT !.refcount[i] = n]
           IN  /\ r \in Memory /\ SameControl(r, m)
               /\ r.refcount[i] = n /\ r.state = m.state /\ r.explicit = m.explicit
<1> DEFINE c == [m.refcount EXCEPT ![i] = n]
<1>1. c \in [Iface -> Nat] /\ c[i] = n  BY DEF Memory
<1>2. [m EXCEPT !.refcount[i] = n] = [m EXCEPT !.refcount = c]  OBVIOUS
<1> HIDE DEF c
<1>3. [m EXCEPT !.refcount = c] \in Memory  BY <1>1 DEF Memory
<1>4. /\ SameControl([m EXCEPT !.refcount = c], m)
      /\ [m EXCEPT !.refcount = c].refcount = c
      /\ [m EXCEPT !.refcount = c].state = m.state
      /\ [m EXCEPT !.refcount = c].explicit = m.explicit
  BY DEF Memory, SameControl
<1> QED  BY <1>1, <1>2, <1>3, <1>4

\* Replacing the dictionary.
LEMMA StateType ==
    ASSUME NEW m \in Memory, NEW s \in Seq(Record)
    PROVE  LET r == [m EXCEPT !.state = s]
           IN  /\ r \in Memory /\ SameControl(r, m)
               /\ r.state = s /\ r.refcount = m.refcount /\ r.explicit = m.explicit
BY DEF Memory, SameControl

\* An entry of the dictionary is built from the struct lif_interface.
LEMMA DescribeType ==
    ASSUME NEW m \in Memory, NEW k \in Key, NEW i \in Iface
    PROVE  /\ Describe(m, k, i) \in Record
           /\ Describe(m, k, i).refcount = m.refcount[i]
BY DEF Describe, Record, Memory

\* The counts and the dictionary are in order.
DataOK(m) == m \in Memory /\ IsDictionary(m.state)

\* lif_state_ref_if keeps memory and dictionary in order.
LEMMA RefIfData ==
    ASSUME NEW m, DataOK(m), NEW k \in Key, NEW i \in Iface
    PROVE  /\ DataOK(RefIf(m, k, i)) /\ SameControl(RefIf(m, k, i), m)
           /\ RefIf(m, k, i).refcount[i] > 0
<1>0. m \in Memory /\ IsDictionary(m.state) /\ m.refcount[i] \in Nat
  BY DEF DataOK, Memory
<1> DEFINE r == [m EXCEPT !.refcount[i] = m.refcount[i] + 1]
           d == Describe(r, k, i)
           u == Upsert(r.state, d)
<1>1. /\ r \in Memory /\ SameControl(r, m)
      /\ r.refcount[i] = m.refcount[i] + 1 /\ r.state = m.state
  <2> DEFINE c == m.refcount[i] + 1
  <2>1. c \in Nat  BY <1>0
  <2> HIDE DEF c
  <2>2. LET q == [m EXCEPT !.refcount[i] = c]
        IN  q \in Memory /\ SameControl(q, m) /\ q.refcount[i] = c /\ q.state = m.state
    BY <1>0, <2>1, CountType
  <2> QED  BY <2>2 DEF c
<1>2. RefIf(m, k, i) = [r EXCEPT !.state = u]  BY DEF RefIf
<1> HIDE DEF r
<1>3. d \in Record /\ d.refcount > 0  BY <1>0, <1>1, DescribeType
<1>4. r.state \in Seq(Record) /\ IsDictionary(r.state)  BY <1>0, <1>1 DEF Memory
<1> HIDE DEF d
<1>5. u \in Seq(Record) /\ IsDictionary(u)
  BY <1>3, <1>4, UpsertType, UpsertDictionary
<1> HIDE DEF u
<1>6. /\ [r EXCEPT !.state = u] \in Memory /\ SameControl([r EXCEPT !.state = u], r)
      /\ [r EXCEPT !.state = u].state = u
      /\ [r EXCEPT !.state = u].refcount = r.refcount
  BY <1>1, <1>5, StateType
<1> QED  BY <1>0, <1>1, <1>2, <1>5, <1>6 DEF DataOK, SameControl

\* lif_state_unref_if keeps memory and dictionary in order.
LEMMA UnrefIfData ==
    ASSUME NEW m, DataOK(m), NEW k \in Key, NEW i \in Iface
    PROVE  DataOK(UnrefIf(m, k, i)) /\ SameControl(UnrefIf(m, k, i), m)
<1>0. m \in Memory /\ IsDictionary(m.state) /\ m.refcount[i] \in Nat
  BY DEF DataOK, Memory
<1>1. CASE m.refcount[i] = 0
  BY <1>1 DEF UnrefIf, SameControl
<1>2. CASE m.refcount[i] # 0
  <2> DEFINE r == [m EXCEPT !.refcount[i] = m.refcount[i] - 1]
             d == Describe(r, k, i)
             u == IF r.refcount[i] > 0 THEN Upsert(r.state, d) ELSE Delete(r.state, k)
  <2>0. m.refcount[i] - 1 \in Nat  BY <1>0, <1>2
  <2>1. /\ r \in Memory /\ SameControl(r, m)
        /\ r.refcount[i] = m.refcount[i] - 1 /\ r.state = m.state
    BY <1>0, <2>0, CountType
  <2>2. UnrefIf(m, k, i) = [r EXCEPT !.state = u]  BY <1>2 DEF UnrefIf
  <2> HIDE DEF r
  <2>3. d \in Record /\ d.refcount = r.refcount[i]  BY <2>1, DescribeType
  <2>4. r.state \in Seq(Record) /\ IsDictionary(r.state)  BY <1>0, <2>1 DEF Memory
  <2> HIDE DEF d
  <2>5. u \in Seq(Record) /\ IsDictionary(u)
    BY <2>3, <2>4, UpsertType, UpsertDictionary, DeleteType, DeleteDictionary
  <2> HIDE DEF u
  <2>6. /\ [r EXCEPT !.state = u] \in Memory /\ SameControl([r EXCEPT !.state = u], r)
        /\ [r EXCEPT !.state = u].state = u
    BY <2>1, <2>5, StateType
  <2> QED  BY <2>1, <2>2, <2>5, <2>6 DEF DataOK, SameControl
<1> QED  BY <1>1, <1>2

\* change_interface records the explicit mark of an interface that has a count.
LEMMA MarkExplicitData ==
    ASSUME NEW m, DataOK(m), NEW k \in Key, NEW i \in Iface, m.refcount[i] > 0
    PROVE  /\ DataOK(MarkExplicit(m, k, i)) /\ SameControl(MarkExplicit(m, k, i), m)
<1>0. m \in Memory /\ IsDictionary(m.state)  BY DEF DataOK
<1> DEFINE e == [m.explicit EXCEPT ![i] = TRUE]
           r == [m EXCEPT !.explicit = e]
           d == Describe(r, k, i)
           u == Upsert(r.state, d)
<1>1. e \in [Iface -> BOOLEAN]  BY <1>0 DEF Memory
<1>2. MarkExplicit(m, k, i) = [r EXCEPT !.state = u]  BY DEF MarkExplicit
<1> HIDE DEF e
<1>3. r \in Memory  BY <1>0, <1>1 DEF Memory
<1>4. SameControl(r, m) /\ r.state = m.state /\ r.refcount = m.refcount
  BY <1>0 DEF Memory, SameControl
<1> HIDE DEF r
<1>5. d \in Record /\ d.refcount > 0  BY <1>3, <1>4, DescribeType
<1>6. r.state \in Seq(Record) /\ IsDictionary(r.state)  BY <1>0, <1>3, <1>4 DEF Memory
<1> HIDE DEF d
<1>7. u \in Seq(Record) /\ IsDictionary(u)
  BY <1>5, <1>6, UpsertType, UpsertDictionary
<1> HIDE DEF u
<1>8. /\ [r EXCEPT !.state = u] \in Memory /\ SameControl([r EXCEPT !.state = u], r)
      /\ [r EXCEPT !.state = u].state = u
  BY <1>3, <1>7, StateType
<1> QED  BY <1>2, <1>4, <1>7, <1>8 DEF DataOK, SameControl

-----------------------------------------------------------------------------
(* The stack of activations.                                               *)

\* Where the process is: the stack belongs to the target, every activation but
\* the innermost waits in handle_dependents, none nests in itself, and the
\* pending marks tell exactly which ones wait.
ControlOK(m) ==
    /\ m.pc # "run" => m.stack = << >>
    /\ m.pc = "run" => /\ m.stack # << >>
                       /\ m.stack[1].iface = m.target.iface
                       /\ m.stack[1].key = m.target.key
    /\ m.pc \in {"locked", "run", "finish"} => m.target \in [key : Key, iface : Iface]
    /\ \A n \in 1 .. Len(m.stack) - 1 : Stages(m)[m.stack[n].at] = "depend"
    /\ NestsOnce(m)
    /\ MarksActive(m)

\* What change_interface marks explicit has been counted.
CountedOK(m) == m.pc = "finish" /\ m.cmd.up => m.refcount[m.target.iface] > 0

GoodMemory(m) == DataOK(m) /\ ControlOK(m) /\ CountedOK(m)

\* A process that starts, or has ended, is in order.
LEMMA FreshGood ==
    ASSUME NEW pc \in {"idle", "read"}, NEW c \in Command, NEW in \in Seq(Record)
    PROVE  GoodMemory(Fresh(pc, c, in))
<1> DEFINE m == Fresh(pc, c, in)
<1>1. m \in Memory
  <2>1. NoTarget \in [key : Key \cup {NoIface}, iface : Iface \cup {NoIface}]
    BY DEF NoTarget
  <2> QED  BY <2>1, EmptySeq DEF Fresh, Memory, PcState
<1>2. m.stack = << >> /\ m.pending = {} /\ m.state = << >> /\ m.pc = pc
  BY DEF Fresh
<1> HIDE DEF m
<1>3. DOMAIN m.stack = {} /\ DOMAIN m.state = {} /\ Len(m.stack) = 0
  BY <1>2
<1> QED
  BY <1>1, <1>2, <1>3
  DEF GoodMemory, DataOK, IsDictionary, KeysDistinct, ControlOK, CountedOK,
      NestsOnce, MarksActive, InDependents, m

\* A process that has exited, been killed or not been started is in order.
LEMMA IdleGood == GoodMemory(Idle)
<1>1. NoCommand \in Command  BY EmptySeq DEF NoCommand, Command
<1> QED  BY <1>1, FreshGood, EmptySeq DEF Idle

\* A process between two interfaces.
LEMMA BetweenGood ==
    ASSUME NEW m, DataOK(m), m.stack = << >>, m.pending = {}, m.pc \notin {"locked", "run", "finish"}
    PROVE  GoodMemory(m)
<1>1. DOMAIN m.stack = {} /\ Len(m.stack) = 0  OBVIOUS
<1> QED
  BY <1>1 DEF GoodMemory, ControlOK, CountedOK, NestsOnce, MarksActive, InDependents

\* update_state_file_and_exit, called with no activation left.
LEMMA LeaveGood ==
    ASSUME NEW m, DataOK(m), m.stack = << >>, m.pending = {}, NEW ok \in BOOLEAN
    PROVE  GoodMemory(Leave(m, ok))
<1>1. CASE m.cmd.mock  BY <1>1, IdleGood DEF Leave
<1>2. CASE ~m.cmd.mock
  <2> DEFINE l == [m EXCEPT !.pc = "write", !.ok = ok, !.todo = << >>, !.target = NoTarget]
  <2>1. l \in Memory  BY EmptySeq DEF DataOK, Memory, PcState, NoTarget
  <2>2. /\ l.stack = << >> /\ l.pending = {} /\ l.pc = "write" /\ l.state = m.state
    BY DEF DataOK, Memory
  <2>3. Leave(m, ok) = l  BY <1>2 DEF Leave
  <2> HIDE DEF l
  <2>4. DataOK(l)  BY <2>1, <2>2 DEF DataOK
  <2> QED  BY <2>2, <2>3, <2>4, BetweenGood
<1> QED  BY <1>1, <1>2

\* What returning through all activations leaves alone.
LEMMA UnwoundData ==
    ASSUME NEW m \in Memory
    PROVE  LET u == Unwound(m)
           IN  /\ u \in Memory /\ u.stack = << >>
               /\ u.pc = m.pc /\ u.cmd = m.cmd /\ u.input = m.input /\ u.todo = m.todo
               /\ u.target = m.target /\ u.state = m.state /\ u.refcount = m.refcount
               /\ u.explicit = m.explicit /\ u.ok = m.ok
BY EmptySeq DEF Unwound, Memory

\* Without an activation there is no mark.
LEMMA NothingActive ==
    ASSUME NEW m, m.stack = << >>, m.pending = {}
    PROVE  MarksActive(m)
<1>1. DOMAIN m.stack = {}  OBVIOUS
<1> QED  BY <1>1 DEF MarksActive, InDependents

\* change_interface returns false, from any depth of the recursion: no mark is left.
LEMMA FailGood ==
    ASSUME NEW m, DataOK(m), MarksActive(m)
    PROVE  GoodMemory(Fail(m))
<1> DEFINE u == Unwound(m)
           v == [u EXCEPT !.pc = "select", !.ok = FALSE, !.target = NoTarget]
<1>1. u \in Memory /\ u.stack = << >> /\ u.pending = {} /\ u.state = m.state /\ u.cmd = m.cmd
  <2>1. m \in Memory  BY DEF DataOK
  <2>2. u.pending = {}  BY <2>1 DEF Unwound, MarksActive, Memory
  <2> QED  BY <2>1, <2>2, UnwoundData
<1>2. Fail(m) = IF m.cmd.auto THEN v ELSE Leave(u, FALSE)  BY DEF Fail
<1> HIDE DEF u
<1>3. DataOK(u)  BY <1>1 DEF DataOK
<1>4. v \in Memory /\ v.stack = << >> /\ v.pending = {} /\ v.state = u.state /\ v.pc = "select"
  BY <1>1 DEF Memory, PcState, NoTarget
<1> HIDE DEF v
<1>5. GoodMemory(v)  BY <1>3, <1>4, BetweenGood DEF DataOK
<1> QED  BY <1>1, <1>2, <1>3, <1>5, LeaveGood

\* change_interface returns true.
LEMMA DoneGood ==
    ASSUME NEW m, DataOK(m), m.stack = << >>, m.pending = {}
    PROVE  GoodMemory(Done(m))
<1>1. /\ Done(m) \in Memory /\ Done(m).stack = << >> /\ Done(m).pending = {}
      /\ Done(m).state = m.state /\ Done(m).pc = "select"
  BY DEF Done, DataOK, Memory, PcState, NoTarget
<1> QED  BY <1>1, BetweenGood DEF DataOK

\* Changing the innermost activation.
LEMMA SetTopType ==
    ASSUME NEW m \in Memory, m.stack # << >>, NEW f \in Frame
    PROVE  LET r == SetTop(m, f)
               l == Len(m.stack)
           IN  /\ r \in Memory
               /\ l \in Nat \ {0} /\ DOMAIN m.stack = 1 .. l
               /\ Len(r.stack) = l /\ DOMAIN r.stack = 1 .. l
               /\ \A n \in 1 .. l : r.stack[n] = IF n = l THEN f ELSE m.stack[n]
               /\ r.pc = m.pc /\ r.cmd = m.cmd /\ r.target = m.target
               /\ r.pending = m.pending /\ r.state = m.state /\ r.refcount = m.refcount
<1> DEFINE t == [m.stack EXCEPT ![Len(m.stack)] = f]
<1>1. m.stack \in Seq(Frame) /\ Len(m.stack) \in Nat \ {0} /\ DOMAIN m.stack = 1 .. Len(m.stack)
  BY EmptySeq, LenProperties DEF Memory
<1>2. /\ t \in Seq(Frame) /\ Len(t) = Len(m.stack) /\ DOMAIN t = 1 .. Len(m.stack)
      /\ \A n \in 1 .. Len(m.stack) : t[n] = IF n = Len(m.stack) THEN f ELSE m.stack[n]
  BY <1>1, ExceptSeq, LenProperties
<1>3. SetTop(m, f) = [m EXCEPT !.stack = t]  BY DEF SetTop
<1> HIDE DEF t
<1>4. /\ [m EXCEPT !.stack = t] \in Memory
      /\ [m EXCEPT !.stack = t].stack = t
      /\ [m EXCEPT !.stack = t].pc = m.pc /\ [m EXCEPT !.stack = t].cmd = m.cmd
      /\ [m EXCEPT !.stack = t].target = m.target /\ [m EXCEPT !.stack = t].pending = m.pending
      /\ [m EXCEPT !.stack = t].state = m.state /\ [m EXCEPT !.stack = t].refcount = m.refcount
  BY <1>2 DEF Memory
<1> QED  BY <1>1, <1>2, <1>3, <1>4

\* The innermost activation is one of the stack.
LEMMA TopType ==
    ASSUME NEW m \in Memory, m.stack # << >>
    PROVE  /\ Top(m) \in Frame
           /\ Len(m.stack) \in Nat \ {0}
           /\ DOMAIN m.stack = 1 .. Len(m.stack)
           /\ Top(m) = m.stack[Len(m.stack)]
<1>1. m.stack \in Seq(Frame) /\ Len(m.stack) \in Nat \ {0} /\ DOMAIN m.stack = 1 .. Len(m.stack)
  BY EmptySeq, LenProperties DEF Memory
<1> QED  BY <1>1, ElementOfSeq DEF Top

\* The loop of handle_dependents takes the next token.
LEMMA NextDependentGood ==
    ASSUME NEW m, DataOK(m), ControlOK(m), m.pc = "run"
    PROVE  LET r == NextDependent(m)
           IN  /\ GoodMemory(r)
               /\ r.pc = "run" /\ r.cmd = m.cmd /\ r.target = m.target
               /\ r.pending = m.pending /\ r.stack # << >>
               /\ Stage(r) = Stage(m)
<1> DEFINE f == [Top(m) EXCEPT !.next = @ + 1]
           r == NextDependent(m)
           l == Len(m.stack)
<1>0. m \in Memory /\ m.stack # << >>  BY DEF DataOK, ControlOK
<1>1. /\ Top(m) \in Frame /\ Top(m) = m.stack[l]  BY <1>0, TopType
<1>2. /\ f \in Frame /\ f.iface = Top(m).iface /\ f.key = Top(m).key /\ f.at = Top(m).at
  BY <1>1 DEF Frame
<1> HIDE DEF f
<1>3. /\ r \in Memory /\ l \in Nat \ {0} /\ DOMAIN m.stack = 1 .. l
      /\ Len(r.stack) = l /\ DOMAIN r.stack = 1 .. l
      /\ \A n \in 1 .. l : r.stack[n] = IF n = l THEN f ELSE m.stack[n]
      /\ r.pc = m.pc /\ r.cmd = m.cmd /\ r.target = m.target
      /\ r.pending = m.pending /\ r.state = m.state
  BY <1>0, <1>2, SetTopType DEF NextDependent, f
<1>4. \A n \in 1 .. l : /\ r.stack[n].iface = m.stack[n].iface
                        /\ r.stack[n].key = m.stack[n].key
                        /\ r.stack[n].at = m.stack[n].at
  BY <1>1, <1>2, <1>3
<1> HIDE DEF r, l
<1>5. Stages(r) = Stages(m)  BY <1>3 DEF Stages
<1>6. r.stack # << >>  BY <1>3
<1>7. ControlOK(r)
  <2>1. \A n \in 1 .. Len(r.stack) - 1 : Stages(r)[r.stack[n].at] = "depend"
    BY <1>3, <1>4, <1>5 DEF ControlOK, l
  <2>2. NestsOnce(r)  BY <1>3, <1>4 DEF ControlOK, NestsOnce
  <2>3. InDependents(r) = InDependents(m)  BY <1>3, <1>4, <1>5 DEF InDependents
  <2>4. \A n \in InDependents(m) : r.stack[n].iface = m.stack[n].iface
    BY <1>3, <1>4 DEF InDependents
  <2>5. MarksActive(r)  BY <1>3, <2>3, <2>4 DEF ControlOK, MarksActive
  <2>6. r.stack[1].iface = m.target.iface /\ r.stack[1].key = m.target.key
    BY <1>3, <1>4 DEF ControlOK
  <2> QED  BY <1>3, <1>6, <2>1, <2>2, <2>5, <2>6 DEF ControlOK
<1>8. Stage(r) = Stage(m)
  BY <1>3, <1>4, <1>5 DEF Stage, Top, l
<1> QED  BY <1>3, <1>6, <1>7, <1>8 DEF GoodMemory, DataOK, CountedOK, r

\* lif_lifecycle_run goes on to its next call: the pending mark of the innermost
\* activation follows it into handle_dependents and out of it.
LEMMA AdvanceGood ==
    ASSUME NEW m, GoodMemory(m), m.pc = "run", Stage(m) \notin {"ref", "unref"}
    PROVE  LET r == Advance(m)
           IN  GoodMemory(r) /\ r.pc = "run" /\ r.cmd = m.cmd /\ r.target = m.target
<1> DEFINE f == [Top(m) EXCEPT !.at = @ + 1]
           t == SetTop(m, f)
           l == Len(m.stack)
           p == CASE Stage(m) = "depend" -> m.pending \ {Top(m).iface}
                  [] Stage(t) = "depend" -> m.pending \cup {Top(m).iface}
                  [] OTHER -> m.pending
           r == [t EXCEPT !.pending = p]
<1>0. /\ m \in Memory /\ m.stack # << >> /\ ControlOK(m) /\ IsDictionary(m.state)
  BY DEF GoodMemory, DataOK, ControlOK
<1>1. /\ Top(m) \in Frame /\ Top(m) = m.stack[l]  BY <1>0, TopType
<1>2. Top(m).at \in 1 .. 5
  BY <1>0, <1>1 DEF Stage, Stages, UpStages, DownStages, Frame
<1>3. /\ f \in Frame /\ f.iface = Top(m).iface /\ f.key = Top(m).key /\ f.at = Top(m).at + 1
  BY <1>1, <1>2 DEF Frame
<1> HIDE DEF f
<1>4. /\ t \in Memory /\ l \in Nat \ {0} /\ DOMAIN m.stack = 1 .. l
      /\ Len(t.stack) = l /\ DOMAIN t.stack = 1 .. l
      /\ \A n \in 1 .. l : t.stack[n] = IF n = l THEN f ELSE m.stack[n]
      /\ t.pc = m.pc /\ t.cmd = m.cmd /\ t.target = m.target
      /\ t.pending = m.pending /\ t.state = m.state
  BY <1>0, <1>3, SetTopType
<1>5. Advance(m) = r  BY <1>4 DEF Advance, f
<1>6. p \in SUBSET Iface
  BY <1>0, <1>1 DEF Memory, Frame
<1>7. Stages(t) = Stages(m) /\ Stage(t) = Stages(m)[f.at] /\ Stage(m) = Stages(m)[Top(m).at]
  BY <1>4 DEF Stages, Stage, Top
<1> HIDE DEF t, l
<1>8. /\ r \in Memory /\ r.stack = t.stack /\ r.pending = p /\ r.pc = t.pc
      /\ r.cmd = t.cmd /\ r.target = t.target /\ r.state = t.state
  BY <1>4, <1>6 DEF Memory
<1> HIDE DEF p, r
<1>9. /\ r.stack # << >> /\ DOMAIN r.stack = 1 .. l /\ Len(r.stack) = l
      /\ Stages(r) = Stages(m)
      /\ \A n \in 1 .. l : /\ r.stack[n].iface = m.stack[n].iface
                           /\ r.stack[n].key = m.stack[n].key
                           /\ r.stack[n].at = IF n = l THEN f.at ELSE m.stack[n].at
  BY <1>1, <1>3, <1>4, <1>7, <1>8 DEF Stages
<1>10. ControlOK(r)
  <2>1. \A n \in 1 .. Len(r.stack) - 1 : Stages(r)[r.stack[n].at] = "depend"
    BY <1>0, <1>4, <1>9 DEF ControlOK, l
  <2>2. NestsOnce(r)  BY <1>0, <1>4, <1>9 DEF ControlOK, NestsOnce
  <2>3. ~(Stage(m) = "depend" /\ Stage(t) = "depend")
    BY <1>2, <1>3, <1>7 DEF Stages, UpStages, DownStages
  <2>4. InDependents(m) = 1 .. l - 1 \cup (IF Stage(m) = "depend" THEN {l} ELSE {})
    BY <1>0, <1>1, <1>4, <1>7 DEF ControlOK, InDependents, l
  <2>5. InDependents(r) = 1 .. l - 1 \cup (IF Stage(t) = "depend" THEN {l} ELSE {})
    BY <1>4, <1>7, <1>9, <2>1 DEF InDependents
  <2>6. Top(m).iface \notin {m.stack[n].iface : n \in 1 .. l - 1}
    <3> SUFFICES ASSUME NEW n \in 1 .. l - 1, m.stack[n].iface = m.stack[l].iface
                 PROVE  FALSE
      BY <1>1
    <3>1. n \in DOMAIN m.stack /\ l \in DOMAIN m.stack /\ n # l  BY <1>4
    <3> QED  BY <1>0, <3>1 DEF ControlOK, NestsOnce
  <2>7. MarksActive(r)
    <3>1. m.pending = {m.stack[n].iface : n \in InDependents(m)}
      BY <1>0 DEF ControlOK, MarksActive
    <3>2. \A n \in 1 .. l : r.stack[n].iface = m.stack[n].iface  BY <1>9
    <3>3. CASE Stage(m) = "depend"
      BY <3>1, <3>2, <3>3, <2>3, <2>4, <2>5, <2>6, <1>1, <1>4, <1>8 DEF MarksActive, p
    <3>4. CASE Stage(t) = "depend"
      BY <3>1, <3>2, <3>4, <2>3, <2>4, <2>5, <2>6, <1>1, <1>4, <1>8 DEF MarksActive, p
    <3>5. CASE Stage(m) # "depend" /\ Stage(t) # "depend"
      BY <3>1, <3>2, <3>5, <2>4, <2>5, <1>1, <1>4, <1>8 DEF MarksActive, p
    <3> QED  BY <3>3, <3>4, <3>5
  <2> QED  BY <1>0, <1>4, <1>8, <1>9, <2>1, <2>2, <2>7 DEF ControlOK
<1> QED  BY <1>0, <1>4, <1>5, <1>8, <1>10 DEF GoodMemory, DataOK, CountedOK

\* Nobody but waiting activations is on the stack.
AllWait(m) == \A n \in DOMAIN m.stack : Stages(m)[m.stack[n].at] = "depend"

\* lif_lifecycle_run is called for a stanza that is not pending, either by
\* change_interface or by handle_dependents.
LEMMA CallGood ==
    ASSUME NEW m, DataOK(m), NEW k \in Key, NEW i \in Iface, i \notin m.pending,
           m.target \in [key : Key, iface : Iface],
           NestsOnce(m), MarksActive(m), AllWait(m),
           \/ m.stack = << >> /\ m.target.iface = i /\ m.target.key = k
           \/ /\ m.stack # << >>
              /\ m.stack[1].iface = m.target.iface /\ m.stack[1].key = m.target.key
    PROVE  LET r == Call(m, k, i)
           IN  GoodMemory(r) /\ r.pc = "run" /\ r.cmd = m.cmd /\ r.target = m.target
<1> DEFINE f == [iface |-> i, key |-> k, at |-> 1, next |-> 1]
           s == Append(m.stack, f)
           p == IF m.cmd.up THEN m.pending \cup {i} ELSE m.pending
           r == [m EXCEPT !.pc = "run", !.stack = s, !.pending = p]
           l == Len(m.stack)
<1>0. m \in Memory /\ IsDictionary(m.state) /\ m.stack \in Seq(Frame) /\ p \in SUBSET Iface
  BY DEF DataOK, Memory
<1>1. f \in Frame /\ f.iface = i /\ f.key = k /\ f.at = 1  BY DEF Frame
<1> HIDE DEF f
<1>2. /\ s \in Seq(Frame) /\ l \in Nat /\ DOMAIN m.stack = 1 .. l
      /\ Len(s) = l + 1 /\ DOMAIN s = 1 .. l + 1
      /\ \A n \in 1 .. l : s[n] = m.stack[n]
      /\ s[l + 1] = f
  BY <1>0, <1>1, AppendProperties, LenProperties
<1>3. Call(m, k, i) = r  BY DEF Call, f
<1> HIDE DEF s
<1>4. /\ r \in Memory /\ r.pc = "run" /\ r.stack = s /\ r.pending = p
      /\ r.cmd = m.cmd /\ r.target = m.target /\ r.state = m.state
  BY <1>0, <1>2 DEF Memory, PcState
<1>5. Stages(r) = Stages(m) /\ (Stages(m)[1] = "depend" <=> m.cmd.up)
  BY <1>4 DEF Stages, UpStages, DownStages
<1>6. m.pending = {m.stack[n].iface : n \in 1 .. l}
  BY <1>2 DEF MarksActive, InDependents, AllWait
<1> HIDE DEF p, r, l
<1>7. r.stack # << >> /\ r.stack[1].iface = r.target.iface /\ r.stack[1].key = r.target.key
  <2>1. CASE m.stack = << >>
    <3>1. l = 0  BY <2>1 DEF l
    <3>2. s[1] = f /\ Len(s) = 1  BY <3>1, <1>2
    <3>3. s # << >>  BY <3>2
    <3> QED  BY <3>2, <3>3, <2>1, <1>1, <1>4
  <2>2. CASE m.stack # << >>
    <3>1. l # 0  BY <2>2, <1>0, <1>2, EmptySeq DEF l
    <3> QED  BY <3>1, <2>2, <1>2, <1>4
  <2> QED  BY <2>1, <2>2
<1>8. \A n \in 1 .. Len(r.stack) - 1 : Stages(r)[r.stack[n].at] = "depend"
  BY <1>2, <1>4, <1>5 DEF AllWait
<1>9. NestsOnce(r)
  BY <1>1, <1>2, <1>4, <1>6 DEF NestsOnce
<1>10. MarksActive(r)
  <2>1. InDependents(r) = 1 .. l \cup (IF m.cmd.up THEN {l + 1} ELSE {})
    BY <1>1, <1>2, <1>4, <1>5 DEF InDependents, AllWait
  <2>2. \A n \in 1 .. l : r.stack[n].iface = m.stack[n].iface  BY <1>2, <1>4
  <2>3. r.stack[l + 1].iface = i  BY <1>1, <1>2, <1>4
  <2>4. CASE m.cmd.up
    <3>1. InDependents(r) = 1 .. l \cup {l + 1}  BY <2>1, <2>4
    <3>2. {r.stack[n].iface : n \in 1 .. l \cup {l + 1}}
            = {r.stack[n].iface : n \in 1 .. l} \cup {r.stack[l + 1].iface}
      OBVIOUS
    <3>4. {r.stack[n].iface : n \in 1 .. l} = {m.stack[n].iface : n \in 1 .. l}
      BY <2>2
    <3>3. r.pending = m.pending \cup {i}  BY <2>4, <1>4 DEF p
    <3> QED  BY <3>1, <3>2, <3>3, <3>4, <2>3, <1>6 DEF MarksActive
  <2>5. CASE ~m.cmd.up
    <3>1. InDependents(r) = 1 .. l  BY <2>1, <2>5
    <3>2. {r.stack[n].iface : n \in 1 .. l} = {m.stack[n].iface : n \in 1 .. l}
      BY <2>2
    <3>3. r.pending = m.pending  BY <2>5, <1>4 DEF p
    <3> QED  BY <3>1, <3>2, <3>3, <1>6 DEF MarksActive
  <2> QED  BY <2>4, <2>5
<1>11. ControlOK(r)
  BY <1>4, <1>7, <1>8, <1>9, <1>10 DEF ControlOK
<1> QED  BY <1>0, <1>3, <1>4, <1>11 DEF GoodMemory, DataOK, CountedOK

\* lif_lifecycle_run counts its own interface and returns to its caller.
LEMMA ReturnGood ==
    ASSUME NEW m, GoodMemory(m), m.pc = "run", Stage(m) \in {"ref", "unref"}
    PROVE  LET r == Return(m)
           IN  /\ GoodMemory(r)
               /\ r.pc \in {"run", "finish"} /\ r.cmd = m.cmd /\ r.target = m.target
<1> DEFINE f == Top(m)
           c == IF m.cmd.up THEN RefIf(m, f.key, f.iface) ELSE UnrefIf(m, f.key, f.iface)
           l == Len(m.stack)
           s == Front(m.stack)
           pc == IF l = 1 THEN "finish" ELSE "run"
           r == [c EXCEPT !.stack = s, !.pc = pc]
<1>0. /\ m \in Memory /\ m.stack # << >> /\ ControlOK(m) /\ DataOK(m)
      /\ m.stack \in Seq(Frame)
  BY DEF GoodMemory, DataOK, ControlOK, Memory
<1>1. /\ f \in Frame /\ f = m.stack[l] /\ l \in Nat \ {0} /\ DOMAIN m.stack = 1 .. l
  BY <1>0, TopType
<1>2. f.key \in Key /\ f.iface \in Iface  BY <1>1 DEF Frame
<1>3. /\ DataOK(c) /\ SameControl(c, m)
      /\ m.cmd.up => c.refcount[f.iface] > 0
  BY <1>0, <1>2, RefIfData, UnrefIfData
<1>4. /\ s \in Seq(Frame) /\ Len(s) = l - 1 /\ DOMAIN s = 1 .. l - 1
      /\ \A n \in 1 .. l - 1 : s[n] = m.stack[n]
  <2>1. s = SubSeq(m.stack, 1, l - 1)  BY DEF Front
  <2>2. l - 1 \in 0 .. Len(m.stack)  BY <1>1
  <2> QED  BY <2>1, <2>2, <1>0, <1>1, SubSeqProperties, LenProperties
<1>5. Return(m) = r  BY <1>3 DEF Return, SameControl
<1> HIDE DEF c, s, f
<1>6. /\ r \in Memory /\ r.pc = pc /\ r.stack = s /\ r.pending = m.pending
      /\ r.cmd = m.cmd /\ r.target = m.target /\ r.state = c.state
      /\ r.refcount = c.refcount
  BY <1>3, <1>4 DEF DataOK, Memory, SameControl, PcState
<1> HIDE DEF r
<1>7. Stages(r) = Stages(m)  BY <1>6 DEF Stages
<1>8. Stages(m)[m.stack[l].at] \in {"ref", "unref"}
  BY <1>1 DEF Stage, f
<1> HIDE DEF l
<1>9. InDependents(m) = 1 .. l - 1 /\ InDependents(r) = 1 .. l - 1
  <2>1. l \in Nat \ {0} /\ DOMAIN m.stack = 1 .. l /\ DOMAIN s = 1 .. l - 1
        /\ Len(m.stack) = l /\ \A n \in 1 .. l - 1 : s[n] = m.stack[n]
    BY <1>1, <1>4 DEF l
  <2>2. \A n \in 1 .. l - 1 : Stages(m)[m.stack[n].at] = "depend"
    BY <1>0, <2>1 DEF ControlOK
  <2>3. Stages(m)[m.stack[l].at] # "depend"  BY <1>8
  <2>4. \A n \in 1 .. l : n \in 1 .. l - 1 \/ n = l  BY <2>1
  <2>5. \A n \in 1 .. l - 1 : n \in 1 .. l  BY <2>1
  <2>6. InDependents(m) = 1 .. l - 1
    BY <2>1, <2>2, <2>3, <2>4, <2>5 DEF InDependents
  <2>7. InDependents(r) = 1 .. l - 1
    BY <1>6, <1>7, <2>1, <2>2 DEF InDependents
  <2> QED  BY <2>6, <2>7
<1>10. MarksActive(r)
  BY <1>0, <1>4, <1>6, <1>9 DEF ControlOK, MarksActive
<1>11. NestsOnce(r)
  BY <1>0, <1>1, <1>4, <1>6 DEF ControlOK, NestsOnce
<1>12. \A n \in 1 .. Len(r.stack) - 1 : Stages(r)[r.stack[n].at] = "depend"
  BY <1>0, <1>1, <1>4, <1>6, <1>7 DEF ControlOK, l
<1>13. CASE l = 1
  <2>1. r.stack = << >>  BY <1>13, <1>4, <1>6, EmptySeq
  <2>2. m.target.iface = f.iface  BY <1>13, <1>0, <1>1 DEF ControlOK
  <2>3. CountedOK(r)  BY <2>2, <1>3, <1>6 DEF CountedOK
  <2> QED  BY <2>1, <2>3, <1>0, <1>3, <1>5, <1>6, <1>10, <1>11, <1>12, <1>13
           DEF GoodMemory, DataOK, ControlOK
<1>14. CASE l # 1
  <2>1. r.stack # << >> /\ r.stack[1] = m.stack[1]
    BY <1>14, <1>1, <1>4, <1>6
  <2> QED  BY <2>1, <1>0, <1>3, <1>5, <1>6, <1>10, <1>11, <1>12, <1>14
           DEF GoodMemory, DataOK, ControlOK, CountedOK
<1> QED  BY <1>13, <1>14

-----------------------------------------------------------------------------
(* The state of the whole system.                                          *)

\* The inductive invariant: PendingIsActive, NoReentry and DictionaryOK are not
\* inductive without the shape of the stack, which ControlOK adds.
IInv == TypeOK /\ LockOwnership /\ \A p \in Proc : GoodMemory(mem[p])

HoldingState == {"locked", "run", "finish"}

\* What a step of a process does to the lock files when m is its new memory.
KeepsLock(self, m) == lock' = lock /\ \A k \in Key : Holds(m, k) <=> Holds(mem[self], k)
GivesUpLock(self, m) == lock' = Released(self) /\ m.pc \notin HoldingState
TakesLock(self, m) ==
    \E k \in Key : /\ lock[k] = NoProc /\ lock' = [lock EXCEPT ![k] = self]
                   /\ mem[self].pc \notin HoldingState
                   /\ \A j \in Key : Holds(m, j) <=> j = k

\* A step that leaves the process with memory m in order.
StepOK(self, m) ==
    /\ Update(self, m)
    /\ GoodMemory(m)
    /\ KeepsLock(self, m) \/ GivesUpLock(self, m) \/ TakesLock(self, m)

\* Steps that leave the process in order preserve the invariant.
LEMMA StepInv ==
    ASSUME IInv, NEW self \in Proc, NEW m, StepOK(self, m),
           ifstate' \in Seq(Record), phys' \in [Key -> {"down", "partial", "up"}],
           runs' \in Nat, crashes' \in Nat
    PROVE  IInv'
<1>1. /\ mem' = [mem EXCEPT ![self] = m] /\ mem \in [Proc -> Memory]
      /\ m \in Memory /\ GoodMemory(m)
  BY DEF IInv, TypeOK, StepOK, Update, GoodMemory, DataOK
<1>2. /\ mem' \in [Proc -> Memory] /\ mem'[self] = m
      /\ \A p \in Proc : p # self => mem'[p] = mem[p]
  BY <1>1
<1>3. \A p \in Proc : GoodMemory(mem'[p])  BY <1>1, <1>2 DEF IInv
<1>4. /\ lock \in [Key -> Proc \cup {NoProc}] /\ NoProc \notin Proc
      /\ \A k \in Key, p \in Proc : lock[k] = p <=> Holds(mem[p], k)
  BY ProcAssumption DEF IInv, TypeOK, LockOwnership
<1>5. /\ lock' \in [Key -> Proc \cup {NoProc}]
      /\ \A k \in Key, p \in Proc : lock'[k] = p <=> Holds(mem'[p], k)
  <2>1. CASE KeepsLock(self, m)
    BY <2>1, <1>2, <1>4 DEF KeepsLock
  <2>2. CASE GivesUpLock(self, m)
    <3>1. \A k \in Key : ~Holds(m, k)
      BY <2>2 DEF GivesUpLock, Holds, HoldingState
    <3>2. \A k \in Key : lock'[k] = IF lock[k] = self THEN NoProc ELSE lock[k]
      BY <2>2 DEF GivesUpLock, Released
    <3>3. lock' \in [Key -> Proc \cup {NoProc}]
      BY <2>2, <1>4 DEF GivesUpLock, Released
    <3> QED  BY <3>1, <3>2, <3>3, <1>2, <1>4
  <2>3. CASE TakesLock(self, m)
    <3>1. PICK k \in Key :
            /\ lock[k] = NoProc /\ lock' = [lock EXCEPT ![k] = self]
            /\ mem[self].pc \notin HoldingState
            /\ \A j \in Key : Holds(m, j) <=> j = k
      BY <2>3 DEF TakesLock
    <3>2. \A j \in Key : ~Holds(mem[self], j)
      BY <3>1 DEF Holds, HoldingState
    <3> QED  BY <3>1, <3>2, <1>2, <1>4
  <2> QED  BY <2>1, <2>2, <2>3 DEF StepOK
<1> QED  BY <1>2, <1>3, <1>5 DEF IInv, TypeOK, LockOwnership

\* The state before a step of one process.
LEMMA Before ==
    ASSUME IInv, NEW self \in Proc
    PROVE  /\ mem[self] \in Memory /\ GoodMemory(mem[self])
           /\ DataOK(mem[self]) /\ IsDictionary(mem[self].state)
           /\ mem[self].pc # "run" => mem[self].stack = << >> /\ mem[self].pending = {}
           /\ ifstate \in Seq(Record) /\ phys \in [Key -> {"down", "partial", "up"}]
           /\ runs \in Nat /\ crashes \in Nat
<1>1. /\ mem[self] \in Memory /\ GoodMemory(mem[self])
      /\ ifstate \in Seq(Record) /\ phys \in [Key -> {"down", "partial", "up"}]
      /\ runs \in Nat /\ crashes \in Nat
  BY DEF IInv, TypeOK
<1>2. ASSUME mem[self].pc # "run"
      PROVE  mem[self].stack = << >> /\ mem[self].pending = {}
  <2>1. mem[self].stack = << >>  BY <1>1, <1>2 DEF GoodMemory, ControlOK
  <2>2. DOMAIN mem[self].stack = {}  BY <2>1
  <2> QED  BY <1>1, <2>1, <2>2 DEF GoodMemory, ControlOK, MarksActive, InDependents
<1> QED  BY <1>1, <1>2 DEF GoodMemory, DataOK

\* Two memories outside of the locked part of change_interface.
LEMMA KeepsUnlocked ==
    ASSUME NEW self, NEW m, m.pc \notin HoldingState, mem[self].pc \notin HoldingState,
           lock' = lock
    PROVE  KeepsLock(self, m)
BY DEF KeepsLock, Holds, HoldingState

\* Two memories in the locked part of change_interface for the same argument.
LEMMA KeepsLocked ==
    ASSUME NEW self, NEW m, m.pc \in HoldingState, mem[self].pc \in HoldingState,
           m.cmd = mem[self].cmd, m.target = mem[self].target, lock' = lock
    PROVE  KeepsLock(self, m)
BY DEF KeepsLock, Holds, HoldingState, UsesLock

\* A process leaves change_interface by these three calls.
LEMMA LeavesLocked ==
    ASSUME NEW m
    PROVE  /\ \A ok \in BOOLEAN : m \in Memory => Leave(m, ok).pc \notin HoldingState
           /\ m \in Memory => Fail(m).pc \notin HoldingState
           /\ m \in Memory => Done(m).pc \notin HoldingState
<1>1. ASSUME NEW n \in Memory, NEW ok \in BOOLEAN
      PROVE  Leave(n, ok).pc \notin HoldingState
  BY <1>1 DEF Leave, Idle, Fresh, HoldingState, Memory
<1>2. ASSUME m \in Memory
      PROVE  Fail(m).pc \notin HoldingState
  <2> DEFINE u == Unwound(m)
             v == [u EXCEPT !.pc = "select", !.ok = FALSE, !.target = NoTarget]
  <2>1. u \in Memory  BY <1>2, UnwoundData
  <2>2. Fail(m) = IF m.cmd.auto THEN v ELSE Leave(u, FALSE)  BY DEF Fail
  <2>3. v.pc = "select"  BY <1>2 DEF Memory
  <2> HIDE DEF u, v
  <2> QED  BY <1>1, <2>1, <2>2, <2>3 DEF HoldingState
<1>3. ASSUME m \in Memory
      PROVE  Done(m).pc \notin HoldingState
  BY <1>3 DEF Done, HoldingState, Memory
<1> QED  BY <1>1, <1>2, <1>3

-----------------------------------------------------------------------------
(* One lemma per action.                                                   *)

\* A process starts with the lines that the state file has.
LEMMA StartInv ==
    ASSUME IInv, NEW self \in Proc, Start(self)
    PROVE  IInv'
<1>0. mem[self].pc = "idle" /\ ifstate \in Seq(Record) /\ runs \in Nat
  BY Before DEF Start, At
<1>1. PICK c \in Commands : Update(self, Fresh("read", c, ifstate))
  BY DEF Start
<1> DEFINE m == Fresh("read", c, ifstate)
<1>2. c \in Command  BY <1>1, CommandAssumption
<1>3. GoodMemory(m)  BY <1>0, <1>2, FreshGood
<1>4. m.pc = "read"  BY DEF Fresh
<1> HIDE DEF m
<1>5. KeepsLock(self, m)
  BY <1>0, <1>4, KeepsUnlocked DEF Start, HoldingState
<1>6. StepOK(self, m)  BY <1>1, <1>3, <1>5 DEF StepOK, m
<1> QED  BY <1>0, <1>6, Before, StepInv DEF Start

\* A line that is read keeps one entry per name.
LEMMA ReadLineInv ==
    ASSUME IInv, NEW self \in Proc, ReadLine(self)
    PROVE  IInv'
<1> DEFINE o == mem[self]
           s == Upsert(o.state, ParsedLine(Head(o.input)))
           t == Tail(o.input)
           m == [o EXCEPT !.input = t, !.state = s]
<1>0. /\ o \in Memory /\ IsDictionary(o.state) /\ o.pc = "read" /\ o.input # << >>
      /\ o.stack = << >> /\ o.pending = {} /\ Update(self, m)
  BY Before DEF ReadLine, At
<1>1. o.state \in Seq(Record) /\ o.input \in Seq(Record)  BY <1>0 DEF Memory
<1> HIDE DEF o
<1>2. Head(o.input) \in Record /\ t \in Seq(Record)  BY <1>0, <1>1, HeadTailProperties
<1>3. ParsedLine(Head(o.input)) \in Record /\ ParsedLine(Head(o.input)).refcount > 0
  BY <1>2 DEF ParsedLine, Record
<1>4. s \in Seq(Record) /\ IsDictionary(s)
  BY <1>0, <1>1, <1>3, UpsertType, UpsertDictionary
<1> HIDE DEF s, t
<1>5. /\ m \in Memory /\ m.state = s /\ m.stack = << >> /\ m.pending = {} /\ m.pc = "read"
  BY <1>0, <1>2, <1>4 DEF Memory
<1> HIDE DEF m
<1>6. GoodMemory(m)  BY <1>4, <1>5, BetweenGood DEF DataOK
<1>7. KeepsLock(self, m)
  BY <1>0, <1>5, KeepsUnlocked DEF ReadLine, HoldingState, o
<1>8. StepOK(self, m)  BY <1>0, <1>6, <1>7 DEF StepOK
<1> QED  BY <1>8, Before, StepInv DEF ReadLine

\* An exit before any interface has been changed.
LEMMA ToIdle ==
    ASSUME IInv, NEW self \in Proc, mem[self].pc \notin HoldingState,
           Update(self, Idle), lock' = lock
    PROVE  StepOK(self, Idle)
<1>1. Idle.pc \notin HoldingState  BY DEF Idle, Fresh, HoldingState
<1> QED  BY <1>1, IdleGood, KeepsUnlocked DEF StepOK

\* The dependency query ends the process or changes nothing here.
LEMMA QueryDependentsInv ==
    ASSUME IInv, NEW self \in Proc, QueryDependents(self)
    PROVE  IInv'
<1> DEFINE o == mem[self]
           m == [o EXCEPT !.pc = "sync"]
<1>0. /\ o \in Memory /\ IsDictionary(o.state) /\ o.pc = "read" /\ lock' = lock
      /\ o.stack = << >> /\ o.pending = {}
      /\ Update(self, m) \/ Update(self, Idle)
  BY Before DEF QueryDependents, At
<1>1. CASE Update(self, m)
  <2> HIDE DEF o
  <2>1. /\ m \in Memory /\ m.state = o.state /\ m.stack = << >> /\ m.pending = {}
        /\ m.pc = "sync"
    BY <1>0 DEF Memory, PcState
  <2> HIDE DEF m
  <2>2. GoodMemory(m)  BY <1>0, <2>1, BetweenGood DEF DataOK
  <2>3. KeepsLock(self, m)  BY <1>0, <2>1, KeepsUnlocked DEF HoldingState, o
  <2>4. StepOK(self, m)  BY <1>1, <2>2, <2>3 DEF StepOK
  <2> QED  BY <2>4, Before, StepInv DEF QueryDependents
<1>2. CASE Update(self, Idle)
  <2>1. StepOK(self, Idle)  BY <1>0, <1>2, ToIdle DEF HoldingState
  <2> QED  BY <2>1, Before, StepInv DEF QueryDependents
<1> QED  BY <1>0, <1>1, <1>2

\* What change_auto_interfaces walks is a list of arguments.
LEMMA AutomaticArgumentsType == AutomaticArguments \in Seq(Argument)
<1> DEFINE n == Len(CollectionOrder)
<1>1. n \in Nat /\ CollectionOrder \in [1 .. n -> Iface] /\ DOMAIN CollectionOrder = 1 .. n
  BY ConfigAssumption, LenProperties
<1> HIDE DEF n
<1>2. AutomaticArguments \in [1 .. n -> Argument]
  BY <1>1, IfaceAssumption DEF AutomaticArguments, Argument
<1> QED  BY <1>1, <1>2, SeqDef

\* lif_state_sync takes the counts over from the dictionary.
LEMMA SyncStateInv ==
    ASSUME IInv, NEW self \in Proc, SyncState(self)
    PROVE  IInv'
<1> DEFINE o == mem[self]
           t == IF o.cmd.auto THEN AutomaticArguments ELSE o.cmd.args
           c == SyncedRefcount(o.state)
           e == SyncedExplicit(o.state, o.explicit)
           m == [o EXCEPT !.pc = "select", !.refcount = c, !.explicit = e, !.todo = t]
<1>0. /\ o \in Memory /\ IsDictionary(o.state) /\ o.pc = "sync" /\ lock' = lock
      /\ o.stack = << >> /\ o.pending = {} /\ Update(self, m)
  BY Before DEF SyncState, At
<1> HIDE DEF o
<1>1. t \in Seq(Argument)  BY <1>0, AutomaticArgumentsType DEF Memory, Command
<1>2. c \in [Iface -> Nat] /\ e \in [Iface -> BOOLEAN]  BY <1>0, SyncType DEF Memory
<1> HIDE DEF t, c, e
<1>3. /\ m \in Memory /\ m.state = o.state /\ m.stack = << >> /\ m.pending = {}
      /\ m.pc = "select"
  BY <1>0, <1>1, <1>2 DEF Memory, PcState
<1> HIDE DEF m
<1>4. GoodMemory(m)  BY <1>0, <1>3, BetweenGood DEF DataOK
<1>5. KeepsLock(self, m)  BY <1>0, <1>3, KeepsUnlocked DEF HoldingState, o
<1>6. StepOK(self, m)  BY <1>0, <1>4, <1>5 DEF StepOK
<1> QED  BY <1>6, Before, StepInv DEF SyncState

\* change_auto_interfaces passes over a stanza.
LEMMA PassOverInv ==
    ASSUME IInv, NEW self \in Proc, PassOver(self)
    PROVE  IInv'
<1> DEFINE o == mem[self]
           t == Tail(o.todo)
           m == [o EXCEPT !.todo = t]
<1>0. /\ o \in Memory /\ IsDictionary(o.state) /\ o.pc = "select" /\ lock' = lock
      /\ o.stack = << >> /\ o.pending = {} /\ o.todo # << >>
      /\ Update(self, m)
  BY Before DEF PassOver, At
<1> HIDE DEF o
<1>1. t \in Seq(Argument)  BY <1>0, HeadTailProperties DEF Memory
<1> HIDE DEF t
<1>2. /\ m \in Memory /\ m.state = o.state /\ m.stack = << >> /\ m.pending = {}
      /\ m.pc = "select"
  BY <1>0, <1>1 DEF Memory
<1> HIDE DEF m
<1>3. GoodMemory(m)  BY <1>0, <1>2, BetweenGood DEF DataOK
<1>4. KeepsLock(self, m)  BY <1>0, <1>2, KeepsUnlocked DEF HoldingState, o
<1>5. StepOK(self, m)  BY <1>0, <1>3, <1>4 DEF StepOK
<1> QED  BY <1>5, Before, StepInv DEF PassOver

\* update_state_file_and_exit between two interfaces.
LEMMA LeaveInv ==
    ASSUME IInv, NEW self \in Proc, NEW ok \in BOOLEAN, mem[self].pc = "select",
           Update(self, Leave(mem[self], ok)), UNCHANGED <<ifstate, lock, phys, runs, crashes>>
    PROVE  IInv'
<1> DEFINE m == Leave(mem[self], ok)
<1>1. GoodMemory(m) /\ m.pc \notin HoldingState  BY Before, LeaveGood, LeavesLocked
<1> HIDE DEF m
<1>2. KeepsLock(self, m)  BY <1>1, KeepsUnlocked DEF HoldingState
<1>3. StepOK(self, m)  BY <1>1, <1>2 DEF StepOK, m
<1> QED  BY <1>3, Before, StepInv

\* An argument names a stanza or none.
LEMMA ResolveType ==
    ASSUME NEW m \in Memory, NEW a \in Argument, m.cmd.auto => a.key \in Iface
    PROVE  Resolve(m, a) \in Iface \cup {NoIface}
<1>1. m.state \in Seq(Record)  BY DEF Memory
<1>2. ASSUME HasRecord(m.state, a.key)
      PROVE  RecordOf(m.state, a.key).mapped \in Iface
  <2>1. Position(m.state, a.key) \in 1 .. Len(m.state)
    BY <1>1, <1>2, PositionFound
  <2>2. RecordOf(m.state, a.key) \in Record
    BY <1>1, <2>1, ElementOfSeq DEF RecordOf
  <2> QED  BY <2>2 DEF Record
<1> QED  BY <1>2 DEF Resolve, Argument

\* acquire_state_lock takes a free lock, needs none, or fails.
LEMMA AcquireLockInv ==
    ASSUME IInv, NEW self \in Proc, AcquireLock(self)
    PROVE  IInv'
<1> DEFINE o == mem[self]
           a == Head(o.todo)
           i == Resolve(o, a)
           t == Tail(o.todo)
           g == [key |-> a.key, iface |-> i]
           n == [o EXCEPT !.todo = t, !.target = g]
           m == [n EXCEPT !.pc = "locked"]
<1>0. /\ o \in Memory /\ IsDictionary(o.state) /\ o.pc = "select" /\ o.todo # << >>
      /\ o.stack = << >> /\ o.pending = {}
  BY Before DEF AcquireLock, At
<1>1. /\ o.cmd.auto => a.key \in IsAuto \cap Matched
      /\ i # NoIface
      /\ \/ ~UsesLock(o) /\ Update(self, m) /\ lock' = lock
         \/ /\ UsesLock(o) /\ lock[a.key] = NoProc /\ Update(self, m)
            /\ lock' = [lock EXCEPT ![a.key] = self]
         \/ Update(self, Fail(n)) /\ lock' = lock
  BY DEF AcquireLock
<1> HIDE DEF o
<1>2. a \in Argument /\ t \in Seq(Argument)  BY <1>0, HeadTailProperties DEF Memory
<1>3. i \in Iface  BY <1>0, <1>1, <1>2, ResolveType, ConfigAssumption
<1> HIDE DEF i
<1>4. g \in [key : Key, iface : Iface] /\ g.key = a.key /\ a.key \in Key
  BY <1>2, <1>3 DEF Argument
<1> HIDE DEF a, t, g
<1>5. /\ n \in Memory /\ n.state = o.state /\ n.stack = << >> /\ n.pending = {}
      /\ n.target = g /\ n.cmd = o.cmd
  BY <1>0, <1>2, <1>4 DEF Memory
<1> HIDE DEF n
<1>6. /\ m \in Memory /\ m.state = o.state /\ m.stack = << >> /\ m.pending = {}
      /\ m.target = g /\ m.cmd = o.cmd /\ m.pc = "locked"
  BY <1>5 DEF Memory, PcState
<1> HIDE DEF m
<1>7. GoodMemory(m)
  <2>1. DOMAIN m.stack = {} /\ Len(m.stack) = 0  BY <1>6
  <2> QED
    BY <2>1, <1>0, <1>4, <1>6
    DEF GoodMemory, DataOK, ControlOK, CountedOK, NestsOnce, MarksActive, InDependents
<1>8. CASE ~UsesLock(o) /\ Update(self, m) /\ lock' = lock
  <2>1. KeepsLock(self, m)
    BY <1>0, <1>6, <1>8 DEF KeepsLock, Holds, UsesLock, o
  <2>2. StepOK(self, m)  BY <1>7, <1>8, <2>1 DEF StepOK
  <2> QED  BY <2>2, Before, StepInv DEF AcquireLock
<1>9. CASE /\ UsesLock(o) /\ lock[a.key] = NoProc /\ Update(self, m)
           /\ lock' = [lock EXCEPT ![a.key] = self]
  <2>1. \A j \in Key : Holds(m, j) <=> j = a.key
    BY <1>4, <1>6, <1>9 DEF Holds, UsesLock
  <2>2. TakesLock(self, m)
    BY <1>0, <1>4, <1>9, <2>1 DEF TakesLock, HoldingState, o
  <2>3. StepOK(self, m)  BY <1>7, <1>9, <2>2 DEF StepOK
  <2> QED  BY <2>3, Before, StepInv DEF AcquireLock
<1>10. CASE Update(self, Fail(n)) /\ lock' = lock
  <2>1. GoodMemory(Fail(n)) /\ Fail(n).pc \notin HoldingState
    BY <1>0, <1>5, NothingActive, FailGood, LeavesLocked DEF DataOK
  <2>2. KeepsLock(self, Fail(n))
    BY <1>0, <1>10, <2>1, KeepsUnlocked DEF HoldingState, o
  <2>3. StepOK(self, Fail(n))  BY <1>10, <2>1, <2>2 DEF StepOK
  <2> QED  BY <2>3, Before, StepInv DEF AcquireLock
<1> QED  BY <1>1, <1>8, <1>9, <1>10

\* The name that a locked, running or finishing process changes.
LEMMA TargetType ==
    ASSUME NEW m, GoodMemory(m), m.pc \in HoldingState
    PROVE  m.target.key \in Key /\ m.target.iface \in Iface
BY DEF GoodMemory, ControlOK, HoldingState

\* change_interface returns true, after marking the interface explicit or not.
LEMMA DoneInv ==
    ASSUME IInv, NEW self \in Proc, NEW n, DataOK(n), SameControl(n, mem[self]),
           mem[self].pc \in {"locked", "finish"}, Update(self, Done(n)),
           lock' = Released(self), UNCHANGED <<ifstate, phys, runs, crashes>>
    PROVE  IInv'
<1>1. n.stack = << >> /\ n.pending = {} /\ n \in Memory
  BY Before DEF SameControl, DataOK
<1>2. GoodMemory(Done(n)) /\ Done(n).pc \notin HoldingState
  BY <1>1, DoneGood, LeavesLocked
<1>3. StepOK(self, Done(n))  BY <1>2 DEF StepOK, GivesUpLock
<1> QED  BY <1>3, Before, StepInv

\* skip_interface: what is already up has a count, and may be marked explicit.
LEMMA SkipInterfaceInv ==
    ASSUME IInv, NEW self \in Proc, SkipInterface(self)
    PROVE  IInv'
<1> DEFINE o == mem[self]
           i == o.target.iface
           k == o.target.key
           marks == o.cmd.up /\ ~o.cmd.auto /\ i \notin ConfigError
           n == IF marks THEN MarkExplicit(o, k, i) ELSE o
<1>1. /\ o.pc = "locked" /\ DataOK(o) /\ GoodMemory(o) /\ Skips(o)
      /\ Update(self, Done(n))
  BY Before DEF SkipInterface, At
<1>2. k \in Key /\ i \in Iface  BY <1>1, TargetType DEF HoldingState
<1>3. marks => o.refcount[i] > 0  BY <1>1 DEF Skips
<1>4. DataOK(n) /\ SameControl(n, o)
  BY <1>1, <1>2, <1>3, MarkExplicitData DEF SameControl
<1> HIDE DEF n
<1> QED  BY <1>1, <1>4, DoneInv DEF SkipInterface

\* What lif_lifecycle_run has counted is marked explicit.
LEMMA FinishInterfaceInv ==
    ASSUME IInv, NEW self \in Proc, FinishInterface(self)
    PROVE  IInv'
<1> DEFINE o == mem[self]
           i == o.target.iface
           k == o.target.key
           n == IF o.cmd.up /\ ~o.cmd.auto THEN MarkExplicit(o, k, i) ELSE o
<1>1. /\ o.pc = "finish" /\ DataOK(o) /\ GoodMemory(o) /\ Update(self, Done(n))
  BY Before DEF FinishInterface, At
<1>2. k \in Key /\ i \in Iface  BY <1>1, TargetType DEF HoldingState
<1>3. o.cmd.up => o.refcount[i] > 0  BY <1>1 DEF GoodMemory, CountedOK
<1>4. DataOK(n) /\ SameControl(n, o)
  BY <1>1, <1>2, <1>3, MarkExplicitData DEF SameControl
<1> HIDE DEF n
<1> QED  BY <1>1, <1>4, DoneInv DEF FinishInterface

\* change_interface fails with the lock file closed.
LEMMA FailInv ==
    ASSUME IInv, NEW self \in Proc, NEW n, DataOK(n), MarksActive(n), Update(self, Fail(n)),
           lock' = Released(self), ifstate' = ifstate,
           phys' \in [Key -> {"down", "partial", "up"}], UNCHANGED <<runs, crashes>>
    PROVE  IInv'
<1>1. GoodMemory(Fail(n)) /\ Fail(n).pc \notin HoldingState
  BY FailGood, LeavesLocked DEF DataOK
<1>2. StepOK(self, Fail(n))  BY <1>1 DEF StepOK, GivesUpLock
<1> QED  BY <1>2, Before, StepInv

\* A step inside of change_interface keeps the lock.
LEMMA InsideInv ==
    ASSUME IInv, NEW self \in Proc, NEW m, GoodMemory(m), m.pc \in HoldingState,
           mem[self].pc \in HoldingState, m.cmd = mem[self].cmd,
           m.target = mem[self].target, Update(self, m), lock' = lock, ifstate' = ifstate,
           phys' \in [Key -> {"down", "partial", "up"}], UNCHANGED <<runs, crashes>>
    PROVE  IInv'
<1>1. KeepsLock(self, m)  BY KeepsLocked
<1>2. StepOK(self, m)  BY <1>1 DEF StepOK
<1> QED  BY <1>2, Before, StepInv

\* change_interface calls lif_lifecycle_run, which refuses a template.
LEMMA ChangeInterfaceInv ==
    ASSUME IInv, NEW self \in Proc, ChangeInterface(self)
    PROVE  IInv'
<1> DEFINE o == mem[self]
           i == o.target.iface
           k == o.target.key
           m == Call(o, k, i)
<1>1. /\ o.pc = "locked" /\ DataOK(o) /\ GoodMemory(o)
      /\ o.stack = << >> /\ o.pending = {}
      /\ \/ Update(self, Fail(o)) /\ lock' = Released(self)
         \/ Update(self, m) /\ lock' = lock
  BY Before DEF ChangeInterface, At
<1>2. CASE Update(self, Fail(o)) /\ lock' = Released(self)
  BY <1>1, <1>2, NothingActive, FailInv, Before DEF ChangeInterface
<1>3. CASE Update(self, m) /\ lock' = lock
  <2>1. k \in Key /\ i \in Iface  BY <1>1, TargetType DEF HoldingState
  <2>2. /\ o.target \in [key : Key, iface : Iface] /\ NestsOnce(o) /\ MarksActive(o)
    BY <1>1 DEF GoodMemory, ControlOK
  <2>3. DOMAIN o.stack = {}  BY <1>1
  <2>4. AllWait(o)  BY <2>3 DEF AllWait
  <2>5. GoodMemory(m) /\ m.pc = "run" /\ m.cmd = o.cmd /\ m.target = o.target
    BY <1>1, <2>1, <2>2, <2>4, CallGood
  <2> HIDE DEF m
  <2> QED  BY <1>1, <1>3, <2>5, InsideInv, Before DEF ChangeInterface, HoldingState
<1> QED  BY <1>1, <1>2, <1>3

\* handle_dependents visits a stanza of the interfaces file.
LEMMA DependentType ==
    ASSUME NEW m, GoodMemory(m), m.pc = "run", Top(m).next <= Len(Requires[Top(m).iface])
    PROVE  Dependent(m) \in Iface
<1>1. m \in Memory /\ m.stack # << >>  BY DEF GoodMemory, DataOK, ControlOK
<1>2. Top(m).iface \in Iface /\ Top(m).next \in Nat \ {0}  BY <1>1, TopType DEF Frame
<1>3. Requires[Top(m).iface] \in Seq(Iface)  BY <1>2, ConfigAssumption
<1>4. Top(m).next \in 1 .. Len(Requires[Top(m).iface])  BY <1>2, <1>3, LenProperties
<1> QED  BY <1>3, <1>4, ElementOfSeq DEF Dependent

\* Reference counting does not move the process.
LEMMA SameControlOK ==
    ASSUME NEW m, ControlOK(m), NEW c, SameControl(c, m)
    PROVE  ControlOK(c) /\ Stage(c) = Stage(m)
BY DEF ControlOK, SameControl, NestsOnce, MarksActive, InDependents, Stages, Stage, Top

\* The activation that visits a dependent waits in handle_dependents like the others.
LEMMA VisitorWaits ==
    ASSUME NEW m, GoodMemory(m), m.pc = "run", Stage(m) = "depend"
    PROVE  AllWait(m)
<1>1. m \in Memory /\ m.stack # << >> /\ ControlOK(m)
  BY DEF GoodMemory, DataOK, ControlOK
<1>2. Len(m.stack) \in Nat \ {0} /\ DOMAIN m.stack = 1 .. Len(m.stack)  BY <1>1, TopType
<1>3. Stages(m)[m.stack[Len(m.stack)].at] = "depend"  BY DEF Stage, Top
<1> QED  BY <1>1, <1>2, <1>3 DEF AllWait, ControlOK

\* handle_dependents passes over a dependent with configuration errors.
LEMMA SkipBrokenDependentInv ==
    ASSUME IInv, NEW self \in Proc, SkipBrokenDependent(self)
    PROVE  IInv'
<1> DEFINE o == mem[self]
           m == NextDependent(o)
<1>1. /\ o.pc = "run" /\ DataOK(o) /\ ControlOK(o) /\ Update(self, m)
  BY Before DEF SkipBrokenDependent, AtDependent, At, GoodMemory
<1>2. GoodMemory(m) /\ m.pc = "run" /\ m.cmd = o.cmd /\ m.target = o.target
  BY <1>1, NextDependentGood
<1> HIDE DEF m
<1> QED  BY <1>1, <1>2, InsideInv, Before DEF SkipBrokenDependent, HoldingState

\* handle_dependents counts a dependent, and changes it if it is the first or last.
LEMMA ChangeDependentInv ==
    ASSUME IInv, NEW self \in Proc, ChangeDependent(self)
    PROVE  IInv'
<1> DEFINE o == mem[self]
           d == Dependent(o)
           c == IF o.cmd.up THEN RefIf(o, d, d) ELSE UnrefIf(o, d, d)
           n == NextDependent(c)
           m == Call(n, d, d)
<1>1. /\ o.pc = "run" /\ Stage(o) = "depend" /\ GoodMemory(o) /\ DataOK(o) /\ ControlOK(o)
      /\ Top(o).next <= Len(Requires[Top(o).iface])
  BY Before DEF ChangeDependent, AtDependent, At, GoodMemory
<1>2. \/ Update(self, n) /\ lock' = lock
      \/ Update(self, Fail(c)) /\ lock' = Released(self)
      \/ d \notin o.pending /\ Update(self, m) /\ lock' = lock
  BY DEF ChangeDependent
<1>3. d \in Iface /\ d \in Key  BY <1>1, DependentType, IfaceAssumption
<1> HIDE DEF d
<1>4. DataOK(c) /\ SameControl(c, o)  BY <1>1, <1>3, RefIfData, UnrefIfData
<1> HIDE DEF c
<1>5. /\ ControlOK(c) /\ Stage(c) = "depend" /\ c.pc = "run" /\ c.cmd = o.cmd
      /\ c.target = o.target /\ c.pending = o.pending
  BY <1>1, <1>4, SameControlOK DEF SameControl
<1>6. /\ GoodMemory(n) /\ n.pc = "run" /\ n.cmd = o.cmd /\ n.target = o.target
      /\ n.pending = o.pending /\ n.stack # << >> /\ Stage(n) = "depend"
  BY <1>4, <1>5, NextDependentGood
<1> HIDE DEF n
<1>7. CASE Update(self, n) /\ lock' = lock
  BY <1>1, <1>6, <1>7, InsideInv, Before DEF ChangeDependent, HoldingState
<1>8. CASE Update(self, Fail(c)) /\ lock' = Released(self)
  BY <1>4, <1>5, <1>8, FailInv, Before DEF ChangeDependent, ControlOK
<1>9. CASE d \notin o.pending /\ Update(self, m) /\ lock' = lock
  <2>1. AllWait(n)  BY <1>6, VisitorWaits
  <2>2. /\ n.target \in [key : Key, iface : Iface] /\ NestsOnce(n) /\ MarksActive(n)
        /\ n.stack[1].iface = n.target.iface /\ n.stack[1].key = n.target.key /\ DataOK(n)
    BY <1>6 DEF GoodMemory, ControlOK
  <2>3. GoodMemory(m) /\ m.pc = "run" /\ m.cmd = o.cmd /\ m.target = o.target
    BY <1>3, <1>6, <1>9, <2>1, <2>2, CallGood
  <2> HIDE DEF m
  <2> QED  BY <1>1, <1>9, <2>3, InsideInv, Before DEF ChangeDependent, HoldingState
<1> QED  BY <1>2, <1>7, <1>8, <1>9

\* handle_dependents returns true.
LEMMA DependentsDoneInv ==
    ASSUME IInv, NEW self \in Proc, DependentsDone(self)
    PROVE  IInv'
<1> DEFINE o == mem[self]
           m == Advance(o)
<1>1. o.pc = "run" /\ GoodMemory(o) /\ Update(self, m) /\ Stage(o) \notin {"ref", "unref"}
  BY Before DEF DependentsDone, At
<1>2. GoodMemory(m) /\ m.pc = "run" /\ m.cmd = o.cmd /\ m.target = o.target
  BY <1>1, AdvanceGood
<1> HIDE DEF m
<1> QED  BY <1>1, <1>2, InsideInv, Before DEF DependentsDone, HoldingState

\* A phase succeeds, or fails and takes change_interface with it.
LEMMA RunPhaseInv ==
    ASSUME IInv, NEW self \in Proc, RunPhase(self)
    PROVE  IInv'
<1> DEFINE o == mem[self]
           m == Advance(o)
<1>1. o.pc = "run" /\ GoodMemory(o) /\ DataOK(o) /\ Stage(o) \notin {"ref", "unref"}
  BY Before DEF RunPhase, At, Phases
<1>2. PICK good \in BOOLEAN :
        /\ phys' = [phys EXCEPT ![Top(o).key] = PhaseEffect(o, good)]
        /\ Update(self, IF good THEN m ELSE Fail(o))
        /\ lock' = IF good THEN lock ELSE Released(self)
  BY DEF RunPhase
<1>3. Top(o).key \in Key
  BY <1>1, TopType DEF GoodMemory, DataOK, ControlOK, Frame
<1>4. PhaseEffect(o, good) \in {"down", "partial", "up"}
  BY <1>1, <1>3, Before DEF PhaseEffect
<1>5. phys' \in [Key -> {"down", "partial", "up"}]  BY <1>2, <1>4, Before
<1>6. CASE good
  <2>1. GoodMemory(m) /\ m.pc = "run" /\ m.cmd = o.cmd /\ m.target = o.target
    BY <1>1, AdvanceGood
  <2> HIDE DEF m
  <2> QED  BY <1>1, <1>2, <1>5, <1>6, <2>1, InsideInv DEF RunPhase, HoldingState
<1>7. CASE ~good
  BY <1>1, <1>2, <1>5, <1>7, FailInv DEF RunPhase, GoodMemory, ControlOK
<1> QED  BY <1>6, <1>7

\* lif_lifecycle_run returns to handle_dependents or to change_interface.
LEMMA ReturnFromRunInv ==
    ASSUME IInv, NEW self \in Proc, ReturnFromRun(self)
    PROVE  IInv'
<1> DEFINE o == mem[self]
           m == Return(o)
<1>1. o.pc = "run" /\ GoodMemory(o) /\ Update(self, m) /\ Stage(o) \in {"ref", "unref"}
  BY Before DEF ReturnFromRun, At
<1>2. GoodMemory(m) /\ m.pc \in {"run", "finish"} /\ m.cmd = o.cmd /\ m.target = o.target
  BY <1>1, ReturnGood
<1> HIDE DEF m
<1> QED  BY <1>1, <1>2, InsideInv, Before DEF ReturnFromRun, HoldingState

\* lif_state_write_path: the file is empty once it is open.
LEMMA OpenStateFileInv ==
    ASSUME IInv, NEW self \in Proc, OpenStateFile(self)
    PROVE  IInv'
<1> DEFINE o == mem[self]
           m == [o EXCEPT !.pc = "flush"]
<1>0. /\ o \in Memory /\ IsDictionary(o.state) /\ o.pc = "write" /\ lock' = lock
      /\ o.stack = << >> /\ o.pending = {}
      /\ \/ Update(self, m) /\ ifstate' = << >>
         \/ Update(self, Idle) /\ ifstate' = ifstate
  BY Before DEF OpenStateFile, At
<1>1. << >> \in Seq(Record)  BY EmptySeq
<1>2. CASE Update(self, m) /\ ifstate' = << >>
  <2> HIDE DEF o
  <2>1. /\ m \in Memory /\ m.state = o.state /\ m.stack = << >> /\ m.pending = {}
        /\ m.pc = "flush"
    BY <1>0 DEF Memory, PcState
  <2> HIDE DEF m
  <2>2. GoodMemory(m)  BY <1>0, <2>1, BetweenGood DEF DataOK
  <2>3. KeepsLock(self, m)  BY <1>0, <2>1, KeepsUnlocked DEF HoldingState, o
  <2>4. StepOK(self, m)  BY <1>2, <2>2, <2>3 DEF StepOK
  <2> QED  BY <1>1, <1>2, <2>4, Before, StepInv DEF OpenStateFile
<1>3. CASE Update(self, Idle) /\ ifstate' = ifstate
  <2>1. StepOK(self, Idle)  BY <1>0, <1>3, ToIdle DEF HoldingState
  <2> QED  BY <1>3, <2>1, Before, StepInv DEF OpenStateFile
<1> QED  BY <1>0, <1>2, <1>3

\* fclose writes the dictionary.
LEMMA FlushStateFileInv ==
    ASSUME IInv, NEW self \in Proc, FlushStateFile(self)
    PROVE  IInv'
<1>1. mem[self].state \in Seq(Record) /\ mem[self].pc = "flush"
  BY Before DEF FlushStateFile, At, Memory
<1>2. ifstate' \in Seq(Record)  BY <1>1, Before, OverwriteType DEF FlushStateFile
<1>3. StepOK(self, Idle)  BY <1>1, ToIdle DEF FlushStateFile, HoldingState
<1> QED  BY <1>2, <1>3, Before, StepInv DEF FlushStateFile

\* A killed process leaves nothing behind but the lines and phases it finished.
LEMMA CrashInv ==
    ASSUME IInv, NEW self \in Proc, Crash(self)
    PROVE  IInv'
<1>1. Idle.pc \notin HoldingState  BY DEF Idle, Fresh, HoldingState
<1>2. StepOK(self, Idle)  BY <1>1, IdleGood DEF Crash, StepOK, GivesUpLock
<1>3. crashes' \in Nat  BY Before DEF Crash
<1> QED  BY <1>2, <1>3, Before, StepInv DEF Crash

-----------------------------------------------------------------------------
(* Theorems.                                                               *)

\* Before the first command nothing is recorded, locked or running.
LEMMA InitInv == Init => IInv
<1> SUFFICES ASSUME Init PROVE IInv
  OBVIOUS
<1>1. GoodMemory(Idle) /\ Idle \in Memory  BY IdleGood DEF GoodMemory, DataOK
<1>2. TypeOK  BY <1>1, EmptySeq DEF Init, TypeOK
<1>3. Idle.pc = "idle"  BY DEF Idle, Fresh
<1>4. LockOwnership  BY <1>3, ProcAssumption DEF Init, LockOwnership, Holds
<1>5. \A p \in Proc : GoodMemory(mem[p])  BY <1>1 DEF Init
<1> QED  BY <1>2, <1>4, <1>5 DEF IInv

\* Every step of every process preserves the inductive invariant.
LEMMA NextInv == IInv /\ [Next]_vars => IInv'
<1> SUFFICES ASSUME IInv, [Next]_vars PROVE IInv'
  OBVIOUS
<1>1. CASE UNCHANGED vars
  BY <1>1 DEF vars, IInv, TypeOK, LockOwnership
<1>2. CASE Rest
  BY <1>2 DEF Rest, vars, IInv, TypeOK, LockOwnership
<1>3. ASSUME NEW self \in Proc, Start(self)  PROVE IInv'
  BY <1>3, StartInv
<1>4. ASSUME NEW self \in Proc, Crash(self)  PROVE IInv'
  BY <1>4, CrashInv
<1>5. ASSUME NEW self \in Proc, Work(self)  PROVE IInv'
  <2>1. CASE ReadLine(self)             BY <2>1, ReadLineInv
  <2>2. CASE QueryDependents(self)      BY <2>2, QueryDependentsInv
  <2>3. CASE SyncState(self)            BY <2>3, SyncStateInv
  <2>4. CASE PassOver(self)             BY <2>4, PassOverInv
  <2>5. CASE UnknownInterface(self)     BY <2>5, LeaveInv DEF UnknownInterface, At
  <2>6. CASE AcquireLock(self)          BY <2>6, AcquireLockInv
  <2>7. CASE SkipInterface(self)        BY <2>7, SkipInterfaceInv
  <2>8. CASE ChangeInterface(self)      BY <2>8, ChangeInterfaceInv
  <2>9. CASE SkipBrokenDependent(self)  BY <2>9, SkipBrokenDependentInv
  <2>10. CASE ChangeDependent(self)     BY <2>10, ChangeDependentInv
  <2>11. CASE DependentsDone(self)      BY <2>11, DependentsDoneInv
  <2>12. CASE RunPhase(self)            BY <2>12, RunPhaseInv
  <2>13. CASE ReturnFromRun(self)       BY <2>13, ReturnFromRunInv
  <2>14. CASE FinishInterface(self)     BY <2>14, FinishInterfaceInv
  <2>15. CASE NoMoreTargets(self)
    <3>1. mem[self].ok \in BOOLEAN  BY Before DEF Memory
    <3> QED  BY <2>15, <3>1, LeaveInv DEF NoMoreTargets, At
  <2>16. CASE OpenStateFile(self)       BY <2>16, OpenStateFileInv
  <2>17. CASE FlushStateFile(self)      BY <2>17, FlushStateFileInv
  <2> QED
    BY <1>5, <2>1, <2>2, <2>3, <2>4, <2>5, <2>6, <2>7, <2>8, <2>9, <2>10, <2>11,
       <2>12, <2>13, <2>14, <2>15, <2>16, <2>17 DEF Work
<1> QED  BY <1>1, <1>2, <1>3, <1>4, <1>5 DEF Next

\* The inductive invariant holds in every state of every behaviour.
LEMMA Invariance == Spec => []IInv
BY InitInv, NextInv, PTL DEF Spec

\* Every variable keeps its type, for every interfaces file and command line.
THEOREM TypeCorrect == Spec => []TypeOK
<1>1. IInv => TypeOK  BY DEF IInv
<1> QED  BY <1>1, Invariance, PTL

\* No way out of change_interface leaks a lock file, and no two processes are in
\* the locked part of change_interface for one name.
THEOREM LocksAreOwned == Spec => []LockOwnership
<1>1. IInv => LockOwnership  BY DEF IInv
<1> QED  BY <1>1, Invariance, PTL

\* is_pending is set exactly while handle_dependents works on a stanza.
THEOREM PendingMarks == Spec => []PendingIsActive
<1>1. IInv => PendingIsActive  BY DEF IInv, GoodMemory, ControlOK, PendingIsActive
<1> QED  BY <1>1, Invariance, PTL

\* Whatever cycles the requires lists have, lif_lifecycle_run never runs for a
\* stanza inside of its own activation.
THEOREM NoStanzaReentered == Spec => []NoReentry
<1>1. IInv => NoReentry  BY DEF IInv, GoodMemory, ControlOK, NoReentry
<1> QED  BY <1>1, Invariance, PTL

\* The dictionary that lif_state_write prints has one line per name and no count
\* of zero, whatever the state file looked like when it was read.
THEOREM DictionaryInOrder == Spec => []DictionaryOK
<1>1. IInv => DictionaryOK  BY DEF IInv, GoodMemory, DataOK, DictionaryOK
<1> QED  BY <1>1, Invariance, PTL

-----------------------------------------------------------------------------
(* Which activations there are after a call.                               *)

\* The interfaces, under the names they are used by, of all activations.
Activations(m) == {[iface |-> m.stack[n].iface, key |-> m.stack[n].key] : n \in DOMAIN m.stack}

\* Parts of the memory that the stack of activations has nothing to do with.
SameData(r, m) ==
    /\ r.state = m.state /\ r.refcount = m.refcount /\ r.explicit = m.explicit
    /\ r.input = m.input /\ r.todo = m.todo /\ r.cmd = m.cmd /\ r.ok = m.ok

\* Changing the innermost activation leaves the rest of the memory alone.
LEMMA SetTopData ==
    ASSUME NEW m \in Memory, NEW f
    PROVE  SameData(SetTop(m, f), m) /\ SetTop(m, f).target = m.target
BY DEF SetTop, SameData, Memory

\* The loop of handle_dependents changes no activation's interface.
LEMMA NextDependentEffect ==
    ASSUME NEW m \in Memory, m.stack # << >>
    PROVE  /\ NextDependent(m) \in Memory /\ SameData(NextDependent(m), m)
           /\ NextDependent(m).target = m.target
           /\ Activations(NextDependent(m)) = Activations(m)
<1> DEFINE f == [Top(m) EXCEPT !.next = @ + 1]
           r == NextDependent(m)
           l == Len(m.stack)
<1>1. /\ Top(m) \in Frame /\ Top(m) = m.stack[l]  BY TopType
<1>2. /\ f \in Frame /\ f.iface = Top(m).iface /\ f.key = Top(m).key
  BY <1>1 DEF Frame
<1>3. r = SetTop(m, f)  BY DEF NextDependent
<1> HIDE DEF f, r
<1>4. /\ r \in Memory /\ DOMAIN m.stack = 1 .. l /\ DOMAIN r.stack = 1 .. l
      /\ \A n \in 1 .. l : r.stack[n] = IF n = l THEN f ELSE m.stack[n]
  BY <1>2, <1>3, SetTopType
<1>5. \A n \in 1 .. l : /\ r.stack[n].iface = m.stack[n].iface
                        /\ r.stack[n].key = m.stack[n].key
  BY <1>1, <1>2, <1>4
<1>6. Activations(r) = Activations(m)  BY <1>4, <1>5 DEF Activations
<1> QED  BY <1>3, <1>4, <1>6, SetTopData DEF r

\* Going on to the next call of lif_lifecycle_run changes no activation's interface.
LEMMA AdvanceEffect ==
    ASSUME NEW m \in Memory, m.stack # << >>, Stage(m) \notin {"ref", "unref"}
    PROVE  SameData(Advance(m), m) /\ Activations(Advance(m)) = Activations(m)
<1> DEFINE f == [Top(m) EXCEPT !.at = @ + 1]
           t == SetTop(m, f)
           l == Len(m.stack)
           p == CASE Stage(m) = "depend" -> t.pending \ {Top(m).iface}
                  [] Stage(t) = "depend" -> t.pending \cup {Top(m).iface}
                  [] OTHER -> t.pending
           r == [t EXCEPT !.pending = p]
<1>1. /\ Top(m) \in Frame /\ Top(m) = m.stack[l]  BY TopType
<1>2. Top(m).at \in 1 .. 5
  BY <1>1 DEF Stage, Stages, UpStages, DownStages, Frame
<1>3. /\ f \in Frame /\ f.iface = Top(m).iface /\ f.key = Top(m).key
  BY <1>1, <1>2 DEF Frame
<1>4. Advance(m) = r  BY DEF Advance
<1> HIDE DEF f
<1>5. /\ t \in Memory /\ DOMAIN m.stack = 1 .. l /\ DOMAIN t.stack = 1 .. l
      /\ \A n \in 1 .. l : t.stack[n] = IF n = l THEN f ELSE m.stack[n]
      /\ SameData(t, m)
  BY <1>3, SetTopType, SetTopData
<1> HIDE DEF t, p
<1>6. r.stack = t.stack /\ SameData(r, t)  BY <1>5 DEF Memory, SameData
<1> HIDE DEF r
<1>7. \A n \in 1 .. l : /\ r.stack[n].iface = m.stack[n].iface
                        /\ r.stack[n].key = m.stack[n].key
  BY <1>1, <1>3, <1>5, <1>6
<1>8. Activations(r) = Activations(m)  BY <1>5, <1>6, <1>7 DEF Activations
<1> QED  BY <1>4, <1>5, <1>6, <1>8 DEF SameData

\* A call of lif_lifecycle_run adds its interface.
LEMMA CallEffect ==
    ASSUME NEW m \in Memory, NEW k \in Key, NEW i \in Iface
    PROVE  /\ SameData(Call(m, k, i), m)
           /\ Call(m, k, i).pc = "run" /\ Call(m, k, i).target = m.target
           /\ Activations(Call(m, k, i)) = Activations(m) \cup {[iface |-> i, key |-> k]}
<1> DEFINE f == [iface |-> i, key |-> k, at |-> 1, next |-> 1]
           s == Append(m.stack, f)
           p == IF m.cmd.up THEN m.pending \cup {i} ELSE m.pending
           r == [m EXCEPT !.pc = "run", !.stack = s, !.pending = p]
           l == Len(m.stack)
<1>1. f \in Frame /\ f.iface = i /\ f.key = k  BY DEF Frame
<1>2. Call(m, k, i) = r  BY DEF Call
<1> HIDE DEF f
<1>3. m.stack \in Seq(Frame)  BY DEF Memory
<1>4. /\ l \in Nat /\ DOMAIN m.stack = 1 .. l /\ DOMAIN s = 1 .. l + 1
      /\ \A n \in 1 .. l : s[n] = m.stack[n]
      /\ s[l + 1] = f
  BY <1>1, <1>3, AppendProperties, LenProperties
<1> HIDE DEF s, p
<1>5. r.stack = s /\ SameData(r, m) /\ r.pc = "run" /\ r.target = m.target
  BY DEF Memory, SameData
<1> HIDE DEF r, l
<1>6. Activations(r) = Activations(m) \cup {[iface |-> i, key |-> k]}
  <2>1. 1 .. l + 1 = 1 .. l \cup {l + 1}  BY <1>4
  <2>2. Activations(r) = {[iface |-> s[n].iface, key |-> s[n].key] : n \in 1 .. l \cup {l + 1}}
    BY <1>4, <1>5, <2>1 DEF Activations
  <2>3. Activations(m) = {[iface |-> s[n].iface, key |-> s[n].key] : n \in 1 .. l}
    BY <1>4 DEF Activations
  <2>4. [iface |-> s[l + 1].iface, key |-> s[l + 1].key] = [iface |-> i, key |-> k]
    BY <1>1, <1>4
  <2> QED  BY <2>2, <2>3, <2>4, Zenon
<1> QED  BY <1>2, <1>5, <1>6

\* The interface that lif_lifecycle_run counts when it returns.
Counted(m) ==
    IF m.cmd.up THEN RefIf(m, Top(m).key, Top(m).iface) ELSE UnrefIf(m, Top(m).key, Top(m).iface)

\* lif_lifecycle_run returns: its activation goes.
LEMMA ReturnEffect ==
    ASSUME NEW m, DataOK(m), m.stack # << >>
    PROVE  /\ DataOK(Counted(m)) /\ SameControl(Counted(m), m)
           /\ SameData(Return(m), Counted(m))
           /\ Activations(Return(m)) \subseteq Activations(m)
<1> DEFINE c == Counted(m)
           l == Len(m.stack)
           s == Front(m.stack)
           pc == IF l = 1 THEN "finish" ELSE c.pc
           r == [c EXCEPT !.stack = s, !.pc = pc]
<1>0. m \in Memory /\ m.stack \in Seq(Frame)  BY DEF DataOK, Memory
<1>1. Top(m) \in Frame /\ l \in Nat \ {0} /\ DOMAIN m.stack = 1 .. l  BY <1>0, TopType
<1>2. DataOK(c) /\ SameControl(c, m)
  BY <1>1, RefIfData, UnrefIfData DEF Counted, Frame
<1>3. /\ DOMAIN s = 1 .. l - 1
      /\ \A n \in 1 .. l - 1 : s[n] = m.stack[n]
  <2>1. s = SubSeq(m.stack, 1, l - 1)  BY DEF Front
  <2>2. l - 1 \in 0 .. Len(m.stack)  BY <1>1
  <2> QED  BY <2>1, <2>2, <1>0, <1>1, SubSeqProperties, LenProperties
<1>4. Return(m) = r  BY <1>2 DEF Return, Counted, SameControl
<1> HIDE DEF c, s, pc
<1>5. r.stack = s /\ SameData(r, c)  BY <1>2 DEF DataOK, Memory, SameData
<1> HIDE DEF r, l
<1>6. Activations(r) \subseteq Activations(m)
  <2>1. 1 .. l - 1 \subseteq 1 .. l  BY <1>1
  <2> QED  BY <1>1, <1>3, <1>5, <2>1 DEF Activations
<1> QED  BY <1>2, <1>4, <1>5, <1>6 DEF c

\* Reference counting changes no activation.
LEMMA CountEffect ==
    ASSUME NEW m, NEW c, SameControl(c, m)
    PROVE  Activations(c) = Activations(m)
BY DEF SameControl, Activations

-----------------------------------------------------------------------------
(* Steps of one process: what they leave of the other processes, and which *)
(* of them leave an activation behind.                                     *)

\* A step of one process is a step of Next, and only its own memory changes.
LEMMA OneActor ==
    ASSUME IInv, NEW self \in Proc, Start(self) \/ Work(self) \/ Crash(self)
    PROVE  /\ \A p \in Proc : p # self => mem'[p] = mem[p]
           /\ IInv'
           /\ mem'[self].pc # "run" => mem'[self].stack = << >>
<1>1. \A p \in Proc : p # self => mem'[p] = mem[p]
  <2>1. mem \in [Proc -> Memory]  BY DEF IInv, TypeOK
  <2>2. \E m : Update(self, m)
    BY Zenon DEF Start, Work, Crash, ReadLine, QueryDependents, SyncState, PassOver, UnknownInterface,
           AcquireLock, SkipInterface, ChangeInterface, SkipBrokenDependent,
           ChangeDependent, DependentsDone, RunPhase, ReturnFromRun, FinishInterface,
           NoMoreTargets, OpenStateFile, FlushStateFile
  <2> QED  BY <2>1, <2>2 DEF Update
<1>2. IInv'
  <2>1. Next  BY DEF Next
  <2> QED  BY <2>1, NextInv
<1>3. GoodMemory(mem'[self])  BY <1>2 DEF IInv
<1> QED  BY <1>1, <1>2, <1>3 DEF GoodMemory, ControlOK

\* The memory of a process is replaced by m.
LEMMA Updated ==
    ASSUME IInv, NEW self \in Proc, NEW m, Update(self, m)
    PROVE  mem'[self] = m
BY DEF IInv, TypeOK, Update

\* The steps of lif_lifecycle_run and of its callers.
Recursing(self) ==
    \/ ChangeInterface(self) \/ SkipBrokenDependent(self) \/ ChangeDependent(self)
    \/ DependentsDone(self) \/ RunPhase(self) \/ ReturnFromRun(self)

\* A mock run is not on its way to the state file.
WriteOK(m) == m.pc \in {"write", "flush"} => ~m.cmd.mock

\* update_state_file_and_exit makes for the state file unless the run is a mock run.
LEMMA ExitOptions ==
    ASSUME NEW m \in Memory
    PROVE  /\ \A ok \in BOOLEAN : WriteOK(Leave(m, ok)) /\ Leave(m, ok).pc # "run"
           /\ WriteOK(Fail(m)) /\ Fail(m).pc # "run"
           /\ WriteOK(Done(m)) /\ Done(m).pc # "run"
<1>1. ASSUME NEW n \in Memory, NEW ok \in BOOLEAN  PROVE WriteOK(Leave(n, ok))
  <2>1. CASE n.cmd.mock  BY <2>1 DEF Leave, WriteOK, Idle, Fresh
  <2>2. CASE ~n.cmd.mock
    <3> DEFINE l == [n EXCEPT !.pc = "write", !.ok = ok, !.todo = << >>, !.target = NoTarget]
    <3>1. Leave(n, ok) = l  BY <2>2 DEF Leave
    <3>2. l.cmd = n.cmd  BY DEF Memory
    <3> QED  BY <2>2, <3>1, <3>2 DEF WriteOK
  <2> QED  BY <2>1, <2>2
<1>2. WriteOK(Fail(m))
  <2> DEFINE u == Unwound(m)
             v == [u EXCEPT !.pc = "select", !.ok = FALSE, !.target = NoTarget]
  <2>1. u \in Memory  BY UnwoundData
  <2>2. Fail(m) = IF m.cmd.auto THEN v ELSE Leave(u, FALSE)  BY DEF Fail
  <2>3. v.pc = "select"  BY DEF Memory
  <2> HIDE DEF u, v
  <2> QED  BY <1>1, <2>1, <2>2, <2>3 DEF WriteOK
<1>3. WriteOK(Done(m))  BY DEF Done, Memory, WriteOK
<1> QED  BY <1>1, <1>2, <1>3, LeavesLocked DEF HoldingState

\* Every other step leaves the process without an activation.
LEMMA NotRecursing ==
    ASSUME IInv, NEW self \in Proc, Start(self) \/ Work(self) \/ Crash(self), ~Recursing(self),
           WriteOK(mem[self])
    PROVE  mem'[self].pc # "run" /\ WriteOK(mem'[self])
<1> DEFINE o == mem[self]
<1> USE DEF WriteOK
<1>0. o \in Memory /\ Idle.pc = "idle" /\ Idle \in Memory
  BY Before, IdleGood DEF Idle, Fresh, GoodMemory, DataOK
<1>1. ASSUME NEW m \in Memory, NEW ok \in BOOLEAN
      PROVE  /\ Leave(m, ok).pc # "run" /\ WriteOK(Leave(m, ok))
             /\ Fail(m).pc # "run" /\ WriteOK(Fail(m))
             /\ Done(m).pc # "run" /\ WriteOK(Done(m))
  BY ExitOptions
<1>2. CASE Start(self)
  BY <1>2, Updated DEF Start, Fresh
<1>3. CASE Crash(self) \/ FlushStateFile(self)
  BY <1>0, <1>3, Updated DEF Crash, FlushStateFile
<1>4. CASE ReadLine(self)
  <2>1. [o EXCEPT !.input = Tail(@), !.state = Upsert(@, ParsedLine(Head(o.input)))].pc = o.pc
    BY <1>0 DEF Memory
  <2> QED  BY <1>4, <2>1, Updated DEF ReadLine, At
<1>5. CASE QueryDependents(self) \/ OpenStateFile(self)
  <2>1. [o EXCEPT !.pc = "sync"].pc = "sync" /\ [o EXCEPT !.pc = "flush"].pc = "flush"
        /\ [o EXCEPT !.pc = "flush"].cmd = o.cmd
    BY <1>0 DEF Memory
  <2> QED  BY <1>0, <1>5, <2>1, Updated DEF QueryDependents, OpenStateFile, At
<1>6. CASE SyncState(self)
  <2> DEFINE c == SyncedRefcount(o.state)
             e == SyncedExplicit(o.state, o.explicit)
             t == IF o.cmd.auto THEN AutomaticArguments ELSE o.cmd.args
             m == [o EXCEPT !.pc = "select", !.refcount = c, !.explicit = e, !.todo = t]
  <2>1. Update(self, m)  BY <1>6 DEF SyncState
  <2>2. mem'[self] = m  BY <2>1, Updated
  <2> HIDE DEF c, e, t
  <2>3. m.pc = "select"  BY <1>0 DEF Memory
  <2> QED  BY <2>2, <2>3
<1>7. CASE PassOver(self)
  <2>1. [o EXCEPT !.todo = Tail(@)].pc = o.pc  BY <1>0 DEF Memory
  <2> QED  BY <1>7, <2>1, Updated DEF PassOver, At
<1>8. CASE UnknownInterface(self) \/ NoMoreTargets(self)
  <2>1. o.ok \in BOOLEAN  BY <1>0 DEF Memory
  <2> QED  BY <1>0, <1>1, <1>8, <2>1, Updated DEF UnknownInterface, NoMoreTargets
<1>9. CASE AcquireLock(self)
  <2> DEFINE a == Head(o.todo)
             i == Resolve(o, a)
             t == Tail(o.todo)
             g == [key |-> a.key, iface |-> i]
             n == [o EXCEPT !.todo = t, !.target = g]
  <2>1. Update(self, [n EXCEPT !.pc = "locked"]) \/ Update(self, Fail(n))
    BY <1>9 DEF AcquireLock
  <2>2. n \in Memory
    <3>1. o.todo # << >> /\ (o.cmd.auto => a.key \in IsAuto \cap Matched) /\ i # NoIface
      BY <1>9 DEF AcquireLock
    <3>2. a \in Argument /\ t \in Seq(Argument)
      BY <1>0, <3>1, HeadTailProperties DEF Memory
    <3>3. i \in Iface  BY <1>0, <3>1, <3>2, ResolveType, ConfigAssumption
    <3>4. g \in [key : Key, iface : Iface]  BY <3>2, <3>3 DEF Argument
    <3> HIDE DEF t, g
    <3> QED  BY <1>0, <3>2, <3>4 DEF Memory
  <2> HIDE DEF n
  <2>3. [n EXCEPT !.pc = "locked"].pc = "locked"  BY <2>2 DEF Memory
  <2> QED  BY <1>1, <2>1, <2>2, <2>3, Updated
<1>10. CASE SkipInterface(self) \/ FinishInterface(self)
  <2>1. \E n \in Memory : Update(self, Done(n))
    <3> DEFINE k == o.target.key
               i == o.target.iface
    <3>1. GoodMemory(o) /\ DataOK(o) /\ o.pc \in HoldingState
      BY <1>10, Before DEF SkipInterface, FinishInterface, At, HoldingState
    <3>2. k \in Key /\ i \in Iface  BY <3>1, TargetType
    <3>3. MarkExplicit(o, k, i) \in Memory
      <4> DEFINE e == [o.explicit EXCEPT ![i] = TRUE]
                 r == [o EXCEPT !.explicit = e]
                 d == Describe(r, k, i)
                 u == Upsert(r.state, d)
      <4>1. e \in [Iface -> BOOLEAN]  BY <1>0 DEF Memory
      <4>2. MarkExplicit(o, k, i) = [r EXCEPT !.state = u]  BY DEF MarkExplicit
      <4> HIDE DEF e
      <4>3. r \in Memory  BY <1>0, <4>1 DEF Memory
      <4> HIDE DEF r
      <4>4. u \in Seq(Record)
        BY <3>2, <4>3, DescribeType, UpsertType DEF Memory
      <4> HIDE DEF u
      <4> QED  BY <4>2, <4>3, <4>4, StateType
    <3> QED  BY <1>0, <1>10, <3>3 DEF SkipInterface, FinishInterface
  <2> QED  BY <1>1, <2>1, Updated
<1> QED
  BY <1>2, <1>3, <1>4, <1>5, <1>6, <1>7, <1>8, <1>9, <1>10 DEF Work, Recursing

-----------------------------------------------------------------------------
(* Templates, configuration errors and mock runs.                          *)

MayRun(m, i) == i \notin Template /\ (i \in ConfigError => m.cmd.force)

\* Every activation, not only the innermost one, is of a stanza that may be run.
OptionsOK(m) == WriteOK(m) /\ \A a \in Activations(m) : MayRun(m, a.iface)

OptionsInv == IInv /\ \A p \in Proc : OptionsOK(mem[p])

\* Each step of lif_lifecycle_run and its callers works on stanzas that may be run.
LEMMA RecursingOptions ==
    ASSUME IInv, NEW self \in Proc, Recursing(self), OptionsOK(mem[self])
    PROVE  /\ WriteOK(mem'[self])
           /\ mem'[self].pc = "run" => OptionsOK(mem'[self])
<1> DEFINE o == mem[self]
           n == mem'[self]
<1>0. o \in Memory /\ GoodMemory(o) /\ DataOK(o) /\ IInv'
  <2>1. Next  BY DEF Recursing, Next, Work
  <2> QED  BY <2>1, Before, NextInv
<1>1. ASSUME n.cmd = o.cmd, n.pc \notin {"write", "flush"},
             \A a \in Activations(n) : a \in Activations(o) \/ MayRun(o, a.iface)
      PROVE  OptionsOK(n) /\ WriteOK(n)
  BY <1>1 DEF OptionsOK, WriteOK, MayRun
<1>2. ASSUME NEW m \in Memory, n = Fail(m)
      PROVE  WriteOK(n) /\ n.pc # "run"
  BY <1>2, ExitOptions
<1>3. CASE ChangeInterface(self)
  <2> DEFINE i == o.target.iface
             k == o.target.key
             m == Call(o, k, i)
  <2>1. /\ Update(self, Fail(o)) \/ (i \notin Template /\ Update(self, m))
        /\ ~Skips(o) /\ o.pc = "locked"
    BY <1>3 DEF ChangeInterface, At
  <2>2. i \in Iface /\ k \in Key  BY <1>0, <2>1, TargetType DEF HoldingState
  <2>3. i \notin Template => MayRun(o, i)  BY <2>1 DEF MayRun, Skips
  <2>4. /\ m.cmd = o.cmd /\ m.pc = "run"
        /\ Activations(m) = Activations(o) \cup {[iface |-> i, key |-> k]}
    BY <1>0, <2>2, CallEffect DEF SameData
  <2> HIDE DEF m
  <2>5. n = Fail(o) \/ (i \notin Template /\ n = m)  BY <2>1, Updated
  <2> QED  BY <1>0, <1>1, <1>2, <2>3, <2>4, <2>5
<1>4. ASSUME o.pc = "run"  PROVE o.stack # << >>
  BY <1>0, <1>4 DEF GoodMemory, ControlOK
<1>5. CASE SkipBrokenDependent(self)
  <2>1. n = NextDependent(o) /\ o.pc = "run"
    BY <1>5, Updated DEF SkipBrokenDependent, AtDependent, At
  <2>2. n.pc = "run"  BY <1>0, <2>1, NextDependentGood DEF GoodMemory
  <2> QED  BY <1>0, <1>1, <1>4, <2>1, <2>2, NextDependentEffect DEF SameData
<1>6. CASE ChangeDependent(self)
  <2> DEFINE d == Dependent(o)
             c == IF o.cmd.up THEN RefIf(o, d, d) ELSE UnrefIf(o, d, d)
             e == NextDependent(c)
             m == Call(e, d, d)
  <2>1. /\ d \notin ConfigError \/ o.cmd.force
        /\ n = e \/ n = Fail(c) \/ (d \notin Template /\ n = m)
        /\ o.pc = "run" /\ Top(o).next <= Len(Requires[Top(o).iface])
    BY <1>6, Updated DEF ChangeDependent, AtDependent, At
  <2>2. d \in Iface /\ d \in Key  BY <1>0, <2>1, DependentType, IfaceAssumption
  <2> HIDE DEF d
  <2>3. DataOK(c) /\ SameControl(c, o)  BY <1>0, <2>2, RefIfData, UnrefIfData
  <2> HIDE DEF c
  <2>4. /\ c \in Memory /\ c.cmd = o.cmd /\ c.stack # << >> /\ Activations(c) = Activations(o)
        /\ ControlOK(c) /\ c.pc = "run"
    BY <1>0, <1>4, <2>1, <2>3, CountEffect, SameControlOK DEF DataOK, SameControl, GoodMemory
  <2>5. /\ e \in Memory /\ e.cmd = o.cmd /\ Activations(e) = Activations(o) /\ e.pc = "run"
    BY <2>3, <2>4, NextDependentEffect, NextDependentGood DEF SameData
  <2> HIDE DEF e
  <2>6. /\ m.cmd = o.cmd /\ m.pc = "run"
        /\ Activations(m) = Activations(o) \cup {[iface |-> d, key |-> d]}
    BY <2>2, <2>5, CallEffect DEF SameData
  <2> HIDE DEF m
  <2>7. d \notin Template => MayRun(o, d)  BY <2>1 DEF MayRun
  <2> QED  BY <1>1, <1>2, <2>1, <2>4, <2>5, <2>6, <2>7
<1>7. CASE DependentsDone(self) \/ RunPhase(self)
  <2>1. /\ n = Advance(o) \/ n = Fail(o)
        /\ o.pc = "run" /\ Stage(o) \notin {"ref", "unref"}
    BY <1>7, Updated DEF DependentsDone, RunPhase, Phases, At
  <2>2. Advance(o).pc = "run"  BY <1>0, <2>1, AdvanceGood
  <2> QED  BY <1>0, <1>1, <1>2, <1>4, <2>1, <2>2, AdvanceEffect DEF SameData
<1>8. CASE ReturnFromRun(self)
  <2>1. n = Return(o) /\ o.pc = "run" /\ Stage(o) \in {"ref", "unref"}
    BY <1>8, Updated DEF ReturnFromRun, At
  <2>2. n.cmd = o.cmd /\ Activations(n) \subseteq Activations(o)
    BY <1>0, <1>4, <2>1, ReturnEffect DEF SameData, SameControl
  <2>3. n.pc \in {"run", "finish"}  BY <1>0, <2>1, ReturnGood
  <2> QED  BY <1>1, <2>2, <2>3
<1> QED  BY <1>3, <1>5, <1>6, <1>7, <1>8 DEF Recursing

\* The invariant holds before the first command.
LEMMA OptionsInit == Init => OptionsInv
<1> SUFFICES ASSUME Init PROVE OptionsInv
  OBVIOUS
<1>1. Idle.stack = << >> /\ Idle.pc = "idle"  BY DEF Idle, Fresh
<1>2. Activations(Idle) = {}  BY <1>1 DEF Activations
<1> QED  BY <1>1, <1>2, InitInv DEF Init, OptionsInv, OptionsOK, WriteOK

\* Every step of one process preserves the invariant.
LEMMA OptionsStep ==
    ASSUME OptionsInv, NEW self \in Proc, Start(self) \/ Work(self) \/ Crash(self)
    PROVE  OptionsInv'
<1>1. IInv /\ OptionsOK(mem[self]) /\ WriteOK(mem[self])  BY DEF OptionsInv, OptionsOK
<1>2. /\ \A p \in Proc : p # self => mem'[p] = mem[p]
      /\ IInv'
      /\ mem'[self].pc # "run" => mem'[self].stack = << >>
  BY <1>1, OneActor
<1>3. WriteOK(mem'[self])  BY <1>1, NotRecursing, RecursingOptions
<1>4. OptionsOK(mem'[self])
  <2>1. CASE mem'[self].pc = "run"
    BY <1>1, <2>1, NotRecursing, RecursingOptions
  <2>2. CASE mem'[self].pc # "run"
    <3>1. Activations(mem'[self]) = {}  BY <1>2, <2>2 DEF Activations
    <3> QED  BY <1>3, <3>1 DEF OptionsOK
  <2> QED  BY <2>1, <2>2
<1> QED  BY <1>1, <1>2, <1>4 DEF OptionsInv

\* The invariant holds in every state of every behaviour.
LEMMA OptionsInvariance == Spec => []OptionsInv
<1>1. ASSUME OptionsInv, [Next]_vars PROVE OptionsInv'
  <2>1. CASE UNCHANGED vars
    BY <1>1, <2>1, NextInv DEF vars, OptionsInv
  <2>2. CASE Rest
    BY <1>1, <2>2, NextInv DEF Rest, vars, OptionsInv
  <2> QED  BY <1>1, <2>1, <2>2, OptionsStep DEF Next
<1> QED  BY <1>1, OptionsInit, PTL DEF Spec

\* Whether it is named, an alias, a dependent at any depth or one of -a: no phase
\* runs for a template, and none for a broken stanza without --force.
THEOREM TemplatesAndErrorsRefused == Spec => []OnlyConfigurable
<1>1. ASSUME OptionsInv PROVE OnlyConfigurable
  <2> SUFFICES ASSUME NEW p \in Proc, mem[p].pc = "run"
               PROVE  MayRun(mem[p], Top(mem[p]).iface)
    BY DEF OnlyConfigurable, MayRun
  <2>1. mem[p] \in Memory /\ mem[p].stack # << >> /\ OptionsOK(mem[p])
    BY <1>1, Before DEF OptionsInv, GoodMemory, ControlOK
  <2> DEFINE m == mem[p]
             a == [iface |-> Top(m).iface, key |-> Top(m).key]
  <2>2. a \in Activations(m)  BY <2>1, TopType DEF Activations
  <2>3. a.iface = Top(m).iface  OBVIOUS
  <2> QED  BY <2>1, <2>2, <2>3 DEF OptionsOK
<1> QED  BY <1>1, OptionsInvariance, PTL

\* A mock run has no lock to give up.
LEMMA MockHoldsNoLock ==
    ASSUME IInv, NEW self \in Proc, mem[self].cmd.mock
    PROVE  Released(self) = lock
<1>1. \A k \in Key : lock[k] # self  BY DEF IInv, LockOwnership, Holds, UsesLock
<1>2. lock = [k \in Key |-> lock[k]]  BY DEF IInv, TypeOK
<1> QED  BY <1>1, <1>2 DEF Released

\* No step of a mock run touches anything outside of the process.
LEMMA MockStep ==
    ASSUME OptionsInv, NEW p \in Proc, Start(p) \/ Work(p) \/ Crash(p), mem[p].cmd.mock
    PROVE  UNCHANGED <<ifstate, lock, phys>>
<1>1. IInv /\ Released(p) = lock /\ mem[p].pc \notin {"write", "flush"}
  BY MockHoldsNoLock DEF OptionsInv, OptionsOK, WriteOK
<1>2. ASSUME RunPhase(p)  PROVE phys' = phys /\ lock' = lock
  <2>1. PICK good \in BOOLEAN :
          /\ phys' = [phys EXCEPT ![Top(mem[p]).key] = PhaseEffect(mem[p], good)]
          /\ lock' = IF good THEN lock ELSE Released(p)
    BY <1>2 DEF RunPhase
  <2>2. PhaseEffect(mem[p], good) = phys[Top(mem[p]).key]  BY DEF PhaseEffect
  <2>3. phys \in [Key -> {"down", "partial", "up"}]  BY <1>1, Before
  <2> QED  BY <1>1, <2>1, <2>2, <2>3
<1>3. ASSUME AcquireLock(p)  PROVE lock' = lock
  BY <1>3 DEF AcquireLock, UsesLock
<1> QED
  BY <1>1, <1>2, <1>3
  DEF Start, Work, Crash, ReadLine, QueryDependents, SyncState, PassOver, UnknownInterface,
      AcquireLock, SkipInterface, ChangeInterface, SkipBrokenDependent, ChangeDependent,
      DependentsDone, RunPhase, ReturnFromRun, FinishInterface, NoMoreTargets,
      OpenStateFile, FlushStateFile, At

\* With --no-act nothing outside of the process changes, down to the locks, and
\* even if the process is killed.
THEOREM MockRunsAreInert == Spec => MockIsInert
<1>1. ASSUME OptionsInv, [Next]_vars
      PROVE  \A p \in Proc : mem[p].cmd.mock /\ mem'[p] # mem[p] =>
                 UNCHANGED <<ifstate, lock, phys>>
  <2> SUFFICES ASSUME NEW p \in Proc, mem[p].cmd.mock, mem'[p] # mem[p]
               PROVE  UNCHANGED <<ifstate, lock, phys>>
    OBVIOUS
  <2>1. PICK self \in Proc : Start(self) \/ Work(self) \/ Crash(self)
    BY <1>1 DEF Next, Rest, vars
  <2>2. IInv  BY <1>1 DEF OptionsInv
  <2>3. Start(p) \/ Work(p) \/ Crash(p)  BY <2>1, <2>2, OneActor
  <2> QED  BY <1>1, <2>3, MockStep
<1> QED  BY <1>1, OptionsInvariance, PTL DEF Spec, MockIsInert

-----------------------------------------------------------------------------
(* The two copies of a reference count.                                    *)

\* What CopiesAgree says of one process.
Agree(m) ==
    \A i \in Iface :
        IF m.refcount[i] = 0 THEN ~HasRecord(m.state, i)
        ELSE HasRecord(m.state, i) /\ RecordOf(m.state, i) = Describe(m, i, i)

OwnArgs(args) == \A n \in DOMAIN args : args[n].as \in {NoIface, args[n].key}

\* Nobody runs "ifup wlan0=home": every stanza is used under its own name.
OwnStanzas == \A c \in Commands : OwnArgs(c.args)

\* A process that knows no aliases, neither from the state file nor from its
\* arguments, and whose copies agree from lif_state_sync on.
OwnOK(m) ==
    /\ OwnNames(m.state) /\ OwnNames(m.input)
    /\ OwnArgs(m.todo) /\ OwnArgs(m.cmd.args)
    /\ m.pc \in HoldingState => m.target.key = m.target.iface
    /\ \A a \in Activations(m) : a.key = a.iface
    /\ Synced(m) => Agree(m)

OwnInv == /\ OwnStanzas /\ IInv /\ OwnNames(ifstate)
          /\ \A p \in Proc : OwnOK(mem[p])

\* Counting stanza i under its own name keeps its copies equal, and those of all
\* others.
LEMMA AgreeAfterCount ==
    ASSUME NEW m, DataOK(m), OwnNames(m.state), Agree(m), NEW i \in Iface, NEW c, c \in Memory,
           \A j \in Iface \ {i} : c.refcount[j] = m.refcount[j] /\ c.explicit[j] = m.explicit[j],
           c.state = IF c.refcount[i] > 0 THEN Upsert(m.state, Describe(c, i, i))
                                          ELSE Delete(m.state, i)
    PROVE  OwnNames(c.state) /\ Agree(c)
<1>0. /\ m.state \in Seq(Record) /\ IsDictionary(m.state) /\ i \in Key
      /\ c.refcount \in [Iface -> Nat]
  BY IfaceAssumption DEF DataOK, Memory
<1> DEFINE d == Describe(c, i, i)
<1>1. d \in Record /\ d.key = i /\ d.mapped = i /\ d.refcount = c.refcount[i]
  BY <1>0, DescribeType DEF Describe
<1>2. \A j \in Iface \ {i} : Describe(c, j, j) = Describe(m, j, j)
  BY DEF Describe
<1>3. CASE c.refcount[i] > 0
  <2>1. c.state = Upsert(m.state, d)  BY <1>3
  <2> HIDE DEF d
  <2>2. /\ HasRecord(c.state, i) /\ RecordOf(c.state, i) = d
        /\ \A j : j # i =>
             /\ HasRecord(c.state, j) <=> HasRecord(m.state, j)
             /\ HasRecord(m.state, j) => RecordOf(c.state, j) = RecordOf(m.state, j)
    BY <1>0, <1>1, <1>3, <2>1, UpsertFinds
  <2>3. OwnNames(c.state)  BY <1>0, <1>1, <2>1, OwnNamesKept
  <2> QED  BY <1>2, <1>3, <2>2, <2>3 DEF Agree, d
<1>4. CASE ~(c.refcount[i] > 0)
  <2>1. c.state = Delete(m.state, i) /\ c.refcount[i] = 0  BY <1>0, <1>4
  <2>2. /\ ~HasRecord(c.state, i)
        /\ \A j : j # i =>
             /\ HasRecord(c.state, j) <=> HasRecord(m.state, j)
             /\ HasRecord(m.state, j) => RecordOf(c.state, j) = RecordOf(m.state, j)
    BY <1>0, <2>1, DeleteFinds, DeleteDictionary
  <2>3. OwnNames(c.state)  BY <1>0, <2>1, OwnNamesKept
  <2> QED  BY <1>2, <2>1, <2>2, <2>3 DEF Agree
<1> QED  BY <1>3, <1>4

\* lif_state_ref_if, lif_state_unref_if and the explicit mark change both copies.
LEMMA CountsAgree ==
    ASSUME NEW m, DataOK(m), OwnNames(m.state), Agree(m), NEW i \in Iface
    PROVE  /\ OwnNames(RefIf(m, i, i).state) /\ Agree(RefIf(m, i, i))
           /\ OwnNames(UnrefIf(m, i, i).state) /\ Agree(UnrefIf(m, i, i))
           /\ m.refcount[i] > 0 => /\ OwnNames(MarkExplicit(m, i, i).state)
                                   /\ Agree(MarkExplicit(m, i, i))
<1>0. /\ m \in Memory /\ i \in Key /\ m.refcount \in [Iface -> Nat]
      /\ m.explicit \in [Iface -> BOOLEAN] /\ m.refcount[i] \in Nat
  BY IfaceAssumption DEF DataOK, Memory
<1>1. ASSUME NEW n \in Nat, NEW c, c \in Memory, NEW d, NEW s,
             d = Describe([m EXCEPT !.refcount[i] = n], i, i),
             s = IF n > 0 THEN Upsert(m.state, d) ELSE Delete(m.state, i),
             c = [[m EXCEPT !.refcount[i] = n] EXCEPT !.state = s]
      PROVE  OwnNames(c.state) /\ Agree(c)
  <2> DEFINE f == [m.refcount EXCEPT ![i] = n]
             r == [m EXCEPT !.refcount = f]
  <2>1. r = [m EXCEPT !.refcount[i] = n]  OBVIOUS
  <2>2. f \in [Iface -> Nat] /\ f[i] = n /\ \A j \in Iface \ {i} : f[j] = m.refcount[j]
    BY <1>0
  <2> HIDE DEF f
  <2>3. r.refcount = f /\ r.explicit = m.explicit  BY <1>0 DEF Memory
  <2>4. c.refcount = f /\ c.explicit = m.explicit /\ c.state = s
    BY <1>0, <1>1, <2>1 DEF Memory
  <2> HIDE DEF r
  <2>5. d = Describe(c, i, i)  BY <1>1, <2>1, <2>3, <2>4 DEF Describe
  <2>6. /\ c.refcount[i] = n
        /\ \A j \in Iface \ {i} : c.refcount[j] = m.refcount[j] /\ c.explicit[j] = m.explicit[j]
    BY <2>2, <2>4
  <2>7. c.state = IF c.refcount[i] > 0 THEN Upsert(m.state, Describe(c, i, i))
                                       ELSE Delete(m.state, i)
    BY <1>1, <2>4, <2>5, <2>6
  <2>8. c \in Memory  BY <1>1
  <2> QED  BY <2>6, <2>7, <2>8, AgreeAfterCount
<1>2. OwnNames(RefIf(m, i, i).state) /\ Agree(RefIf(m, i, i))
  <2> DEFINE r == [m EXCEPT !.refcount[i] = m.refcount[i] + 1]
             c == [r EXCEPT !.state = Upsert(m.state, Describe(r, i, i))]
  <2>1. r.state = m.state  BY <1>0 DEF Memory
  <2>2. RefIf(m, i, i) = c  BY <2>1 DEF RefIf
  <2>3. c \in Memory  BY <1>0, <2>2, RefIfData DEF DataOK
  <2>4. m.refcount[i] + 1 \in Nat /\ m.refcount[i] + 1 > 0  BY <1>0
  <2> QED  BY <1>1, <2>2, <2>3, <2>4
<1>3. OwnNames(UnrefIf(m, i, i).state) /\ Agree(UnrefIf(m, i, i))
  <2>1. CASE m.refcount[i] = 0  BY <2>1 DEF UnrefIf
  <2>2. CASE m.refcount[i] # 0
    <3> DEFINE r == [m EXCEPT !.refcount[i] = m.refcount[i] - 1]
               s == IF m.refcount[i] - 1 > 0 THEN Upsert(m.state, Describe(r, i, i))
                                             ELSE Delete(m.state, i)
               c == [r EXCEPT !.state = s]
    <3>1. r.state = m.state /\ r.refcount[i] = m.refcount[i] - 1
      BY <1>0 DEF Memory
    <3>2. UnrefIf(m, i, i) = c  BY <2>2, <3>1 DEF UnrefIf
    <3>3. c \in Memory  BY <1>0, <3>2, UnrefIfData DEF DataOK
    <3>4. m.refcount[i] - 1 \in Nat  BY <1>0, <2>2
    <3> QED  BY <1>1, <3>2, <3>3, <3>4
  <2> QED  BY <2>1, <2>2
<1>4. ASSUME m.refcount[i] > 0
      PROVE  OwnNames(MarkExplicit(m, i, i).state) /\ Agree(MarkExplicit(m, i, i))
  <2> DEFINE e == [m.explicit EXCEPT ![i] = TRUE]
             r == [m EXCEPT !.explicit = e]
             s == Upsert(m.state, Describe(r, i, i))
             c == [r EXCEPT !.state = s]
  <2>1. r.state = m.state /\ r.refcount = m.refcount /\ r.explicit = e
    BY <1>0 DEF Memory
  <2>2. MarkExplicit(m, i, i) = c  BY <2>1 DEF MarkExplicit
  <2>3. c \in Memory  BY <1>0, <1>4, <2>2, MarkExplicitData DEF DataOK
  <2>4. \A j \in Iface \ {i} : e[j] = m.explicit[j]  BY <1>0
  <2>5. c.refcount = m.refcount /\ c.explicit = e /\ c.state = s
    BY <1>0 DEF Memory
  <2>6. s = Upsert(m.state, Describe(c, i, i))
    BY <2>1, <2>5 DEF Describe
  <2> HIDE DEF e, r, s, c
  <2>7. c.state = IF c.refcount[i] > 0 THEN Upsert(m.state, Describe(c, i, i))
                                       ELSE Delete(m.state, i)
    BY <1>4, <2>5, <2>6
  <2> QED  BY <2>2, <2>3, <2>4, <2>5, <2>7, AgreeAfterCount
<1> QED  BY <1>2, <1>3, <1>4

\* A process that has exited or not been started knows no stanza at all.
LEMMA IdleOwn == OwnOK(Idle)
<1>1. /\ Idle.state = << >> /\ Idle.input = << >> /\ Idle.todo = << >> /\ Idle.stack = << >>
      /\ Idle.cmd.args = << >> /\ Idle.pc = "idle"
  BY DEF Idle, Fresh, NoCommand
<1>2. Activations(Idle) = {}  BY <1>1 DEF Activations
<1> HIDE DEF Idle
<1> QED  BY <1>1, <1>2 DEF OwnOK, OwnNames, OwnArgs, HoldingState, Synced

\* A step that takes no new data in keeps the copies equal.
LEMMA OwnFrom ==
    ASSUME NEW m, OwnOK(m), NEW r, r.input = m.input, r.cmd = m.cmd,
           OwnNames(r.state), Synced(r) => Agree(r),
           OwnArgs(r.todo), r.pc \in HoldingState => r.target.key = r.target.iface,
           \A a \in Activations(r) : a \in Activations(m) \/ a.key = a.iface
    PROVE  OwnOK(r)
BY DEF OwnOK

\* The three ways out of change_interface leave the counts alone.
LEMMA ExitOwn ==
    ASSUME NEW m \in Memory, OwnOK(m), Agree(m)
    PROVE  /\ \A ok \in BOOLEAN : OwnOK(Leave(m, ok))
           /\ OwnOK(Fail(m)) /\ OwnOK(Done(m))
<1>0. OwnArgs(<< >>)  BY DEF OwnArgs
<1>1. ASSUME NEW n \in Memory, OwnOK(n), Agree(n), NEW ok \in BOOLEAN
      PROVE  OwnOK(Leave(n, ok))
  <2>1. CASE n.cmd.mock  BY <2>1, IdleOwn DEF Leave
  <2>2. CASE ~n.cmd.mock
    <3> DEFINE l == [n EXCEPT !.pc = "write", !.ok = ok, !.todo = << >>, !.target = NoTarget]
    <3>1. Leave(n, ok) = l  BY <2>2 DEF Leave
    <3>2. /\ l.cmd = n.cmd /\ l.state = n.state /\ l.refcount = n.refcount
          /\ l.explicit = n.explicit /\ l.input = n.input /\ l.todo = << >>
          /\ l.stack = n.stack /\ l.pc = "write"
      BY DEF Memory
    <3> HIDE DEF l
    <3>3. Agree(l) /\ Activations(l) = Activations(n) /\ OwnNames(l.state)
      BY <1>1, <3>2 DEF Agree, Describe, Activations, OwnOK
    <3> QED  BY <1>0, <1>1, <3>1, <3>2, <3>3, OwnFrom DEF HoldingState
  <2> QED  BY <2>1, <2>2
<1>2. OwnOK(Fail(m))
  <2> DEFINE u == Unwound(m)
             v == [u EXCEPT !.pc = "select", !.ok = FALSE, !.target = NoTarget]
  <2>1. /\ u.cmd = m.cmd /\ u.state = m.state /\ u.refcount = m.refcount
        /\ u.explicit = m.explicit /\ u.input = m.input /\ u.todo = m.todo
        /\ u.stack = << >> /\ u.pc = m.pc /\ u.target = m.target /\ u \in Memory
    BY UnwoundData
  <2>2. Fail(m) = IF m.cmd.auto THEN v ELSE Leave(u, FALSE)  BY DEF Fail
  <2> HIDE DEF u
  <2>3. Activations(u) = {} /\ Agree(u) /\ OwnOK(u)
    <3>1. Activations(u) = {}  BY <2>1 DEF Activations
    <3>2. Agree(u)  BY <2>1 DEF Agree, Describe
    <3> QED  BY <2>1, <3>1, <3>2 DEF OwnOK, HoldingState
  <2>4. /\ v.cmd = u.cmd /\ v.state = u.state /\ v.refcount = u.refcount
        /\ v.explicit = u.explicit /\ v.input = u.input /\ v.todo = u.todo
        /\ v.stack = << >> /\ v.pc = "select"
    BY <2>1 DEF Memory
  <2> HIDE DEF v
  <2>5. OwnOK(v)
    <3>1. Activations(v) = {}  BY <2>4 DEF Activations
    <3>2. Agree(v)  BY <2>3, <2>4 DEF Agree, Describe
    <3> QED  BY <2>3, <2>4, <3>1, <3>2 DEF OwnOK, HoldingState
  <2> QED  BY <1>1, <2>1, <2>2, <2>3, <2>5
<1>3. OwnOK(Done(m))
  <2> DEFINE r == Done(m)
  <2>1. /\ r.cmd = m.cmd /\ r.state = m.state /\ r.refcount = m.refcount
        /\ r.explicit = m.explicit /\ r.input = m.input /\ r.todo = m.todo
        /\ r.stack = m.stack /\ r.pc = "select"
    BY DEF Done, Memory
  <2> HIDE DEF r
  <2>2. Agree(r) /\ Activations(r) = Activations(m) /\ OwnNames(r.state) /\ OwnArgs(r.todo)
    BY <2>1 DEF Agree, Describe, Activations, OwnOK
  <2> QED  BY <2>1, <2>2, OwnFrom DEF HoldingState, r
<1> QED  BY <1>1, <1>2, <1>3

\* Counting under the own name keeps everything else.
LEMMA CountOwn ==
    ASSUME NEW m, DataOK(m), OwnOK(m), Agree(m), NEW i \in Iface,
           NEW c \in {RefIf(m, i, i), UnrefIf(m, i, i)}
    PROVE  DataOK(c) /\ SameControl(c, m) /\ OwnOK(c) /\ Agree(c)
<1>0. i \in Key /\ OwnNames(m.state)  BY IfaceAssumption DEF OwnOK
<1>1. DataOK(c) /\ SameControl(c, m)  BY <1>0, RefIfData, UnrefIfData
<1>2. OwnNames(c.state) /\ Agree(c)  BY <1>0, CountsAgree
<1>3. Activations(c) = Activations(m)  BY <1>1, CountEffect
<1> HIDE DEF OwnOK
<1>4. OwnArgs(c.todo) /\ (c.pc \in HoldingState => c.target.key = c.target.iface)
  BY <1>1 DEF OwnOK, SameControl
<1>5. c.input = m.input /\ c.cmd = m.cmd  BY <1>1 DEF SameControl
<1> QED  BY <1>1, <1>2, <1>3, <1>4, <1>5, OwnFrom

\* Marking an interface that has a count explicit keeps everything else.
LEMMA MarkOwn ==
    ASSUME NEW m, DataOK(m), OwnOK(m), Agree(m), NEW i \in Iface, m.refcount[i] > 0
    PROVE  LET c == MarkExplicit(m, i, i)
           IN  DataOK(c) /\ SameControl(c, m) /\ OwnOK(c) /\ Agree(c)
<1> DEFINE c == MarkExplicit(m, i, i)
<1>0. i \in Key /\ OwnNames(m.state)  BY IfaceAssumption DEF OwnOK
<1>1. DataOK(c) /\ SameControl(c, m)  BY <1>0, MarkExplicitData
<1>2. OwnNames(c.state) /\ Agree(c)  BY <1>0, CountsAgree
<1> HIDE DEF c
<1>3. Activations(c) = Activations(m)  BY <1>1, CountEffect
<1>4. OwnArgs(c.todo) /\ (c.pc \in HoldingState => c.target.key = c.target.iface)
  BY <1>1 DEF OwnOK, SameControl
<1>5. c.input = m.input /\ c.cmd = m.cmd  BY <1>1 DEF SameControl
<1>6. OwnOK(c)  BY <1>1, <1>2, <1>3, <1>4, <1>5, OwnFrom
<1> QED  BY <1>1, <1>2, <1>6 DEF c

\* The steps that move the stack of activations and touch no data.
LEMMA MoveOwn ==
    ASSUME NEW m, OwnOK(m), Agree(m), NEW r, SameData(r, m),
           r.pc \in HoldingState => r.target.key = r.target.iface,
           \A a \in Activations(r) : a \in Activations(m) \/ a.key = a.iface
    PROVE  OwnOK(r) /\ Agree(r)
<1>1. Agree(r)  BY DEF SameData, Agree, Describe
<1>2. r.input = m.input /\ r.cmd = m.cmd /\ OwnNames(r.state) /\ OwnArgs(r.todo)
  BY DEF SameData, OwnOK
<1> QED  BY <1>1, <1>2, OwnFrom

\* Each step of lif_lifecycle_run and its callers keeps the copies equal.
LEMMA RecursingOwn ==
    ASSUME IInv, NEW self \in Proc, Recursing(self), OwnOK(mem[self])
    PROVE  OwnOK(mem'[self])
<1> DEFINE o == mem[self]
           n == mem'[self]
<1>0. o \in Memory /\ GoodMemory(o) /\ DataOK(o)  BY Before
<1>1. /\ o.pc \in HoldingState /\ Agree(o) /\ o.target.key = o.target.iface
      /\ o.target.key \in Key /\ o.target.iface \in Iface
  <2>1. o.pc \in HoldingState /\ Synced(o)
    BY DEF Recursing, ChangeInterface, SkipBrokenDependent, ChangeDependent, AtDependent,
           DependentsDone, RunPhase, ReturnFromRun, At, HoldingState, Synced
  <2> QED  BY <1>0, <2>1, TargetType DEF OwnOK
<1>2. ASSUME NEW m \in Memory, OwnOK(m), Agree(m), n = Fail(m)
      PROVE  OwnOK(n)
  BY <1>2, ExitOwn
<1>3. ASSUME o.pc = "run"
      PROVE  o.stack # << >> /\ Top(o).key = Top(o).iface /\ Top(o).iface \in Iface
  <2> DEFINE a == [iface |-> Top(o).iface, key |-> Top(o).key]
  <2>1. o.stack # << >>  BY <1>0, <1>3 DEF GoodMemory, ControlOK
  <2>2. Top(o) \in Frame /\ a \in Activations(o)
    BY <1>0, <2>1, TopType DEF Activations
  <2>3. a.key = a.iface  BY <2>2 DEF OwnOK
  <2> QED  BY <2>1, <2>2, <2>3 DEF Frame
<1>4. CASE ChangeInterface(self)
  <2> DEFINE i == o.target.iface
             k == o.target.key
             m == Call(o, k, i)
  <2>1. Update(self, Fail(o)) \/ Update(self, m)
    BY <1>4 DEF ChangeInterface
  <2>2. /\ SameData(m, o) /\ m.target = o.target
        /\ Activations(m) = Activations(o) \cup {[iface |-> i, key |-> k]}
    BY <1>0, <1>1, CallEffect
  <2> HIDE DEF m
  <2>3. OwnOK(m)  BY <1>1, <2>2, MoveOwn
  <2> QED  BY <1>0, <1>1, <1>2, <2>1, <2>3, Updated
<1>5. CASE SkipBrokenDependent(self)
  <2>1. n = NextDependent(o) /\ o.pc = "run"
    BY <1>5, Updated DEF SkipBrokenDependent, AtDependent, At
  <2> QED  BY <1>0, <1>1, <1>3, <2>1, NextDependentEffect, MoveOwn
<1>6. CASE ChangeDependent(self)
  <2> DEFINE d == Dependent(o)
             c == IF o.cmd.up THEN RefIf(o, d, d) ELSE UnrefIf(o, d, d)
             e == NextDependent(c)
             m == Call(e, d, d)
  <2>1. /\ Update(self, e) \/ Update(self, Fail(c)) \/ Update(self, m)
        /\ o.pc = "run" /\ Top(o).next <= Len(Requires[Top(o).iface])
    BY <1>6 DEF ChangeDependent, AtDependent, At
  <2>2. d \in Iface /\ d \in Key  BY <1>0, <2>1, DependentType, IfaceAssumption
  <2> HIDE DEF d
  <2>3. c \in {RefIf(o, d, d), UnrefIf(o, d, d)}  OBVIOUS
  <2>4. DataOK(c) /\ SameControl(c, o) /\ OwnOK(c) /\ Agree(c)
    BY <1>0, <1>1, <2>2, <2>3, CountOwn
  <2> HIDE DEF c
  <2>5. c \in Memory /\ c.stack # << >> /\ c.target = o.target
    BY <1>3, <2>1, <2>4 DEF DataOK, SameControl
  <2>6. e \in Memory /\ SameData(e, c) /\ e.target = o.target /\ Activations(e) = Activations(c)
    BY <2>5, NextDependentEffect
  <2> HIDE DEF e
  <2>7. OwnOK(e) /\ Agree(e)  BY <1>1, <2>4, <2>6, MoveOwn
  <2>8. /\ SameData(m, e) /\ m.target = o.target
        /\ Activations(m) = Activations(e) \cup {[iface |-> d, key |-> d]}
    BY <2>2, <2>6, CallEffect
  <2> HIDE DEF m
  <2>9. OwnOK(m)  BY <1>1, <2>7, <2>8, MoveOwn
  <2> QED  BY <1>2, <2>1, <2>4, <2>5, <2>7, <2>9, Updated
<1>7. CASE DependentsDone(self) \/ RunPhase(self)
  <2>1. /\ n = Advance(o) \/ n = Fail(o)
        /\ o.pc = "run" /\ Stage(o) \notin {"ref", "unref"}
    BY <1>7, Updated DEF DependentsDone, RunPhase, Phases, At
  <2>2. /\ Advance(o).target = o.target /\ SameData(Advance(o), o)
        /\ Activations(Advance(o)) = Activations(o)
    BY <1>0, <1>3, <2>1, AdvanceGood, AdvanceEffect
  <2> QED  BY <1>0, <1>1, <1>2, <2>1, <2>2, MoveOwn
<1>8. CASE ReturnFromRun(self)
  <2> DEFINE c == Counted(o)
             i == Top(o).iface
  <2>1. n = Return(o) /\ o.pc = "run" /\ Stage(o) \in {"ref", "unref"}
    BY <1>8, Updated DEF ReturnFromRun, At
  <2>2. c \in {RefIf(o, i, i), UnrefIf(o, i, i)}  BY <1>3, <2>1 DEF Counted
  <2>3. OwnOK(c) /\ Agree(c) /\ SameControl(c, o)
    BY <1>0, <1>1, <1>3, <2>1, <2>2, CountOwn
  <2>4. SameData(n, c) /\ Activations(n) \subseteq Activations(c) /\ n.target = o.target
    BY <1>0, <1>3, <2>1, <2>3, ReturnEffect, ReturnGood, CountEffect
  <2> QED  BY <1>1, <2>3, <2>4, MoveOwn
<1> QED  BY <1>4, <1>5, <1>6, <1>7, <1>8 DEF Recursing

\* What an argument resolves to when nobody uses aliases: the stanza of its name.
LEMMA ResolveOwn ==
    ASSUME NEW m \in Memory, OwnOK(m), NEW a \in Argument, a.as \in {NoIface, a.key},
           Resolve(m, a) # NoIface
    PROVE  Resolve(m, a) = a.key
<1>1. ASSUME HasRecord(m.state, a.key)
      PROVE  RecordOf(m.state, a.key).mapped = a.key
  <2>1. m.state \in Seq(Record) /\ OwnNames(m.state)  BY DEF Memory, OwnOK
  <2>2. PICK n \in DOMAIN m.state : RecordOf(m.state, a.key) = m.state[n] /\ m.state[n].key = a.key
    BY <1>1, <2>1, RecordFound
  <2> QED  BY <2>1, <2>2 DEF OwnNames
<1> QED  BY <1>1 DEF Resolve

\* What is left of a list of arguments.
LEMMA TailOwn ==
    ASSUME NEW S, NEW s \in Seq(S), s # << >>
    PROVE  /\ Head(s) = s[1] /\ 1 \in DOMAIN s
           /\ \A n \in DOMAIN Tail(s) : n + 1 \in DOMAIN s /\ Tail(s)[n] = s[n + 1]
<1>1. Len(s) \in Nat \ {0} /\ DOMAIN s = 1 .. Len(s)  BY EmptySeq, LenProperties
<1>2. /\ Tail(s) \in Seq(S) /\ Len(Tail(s)) = Len(s) - 1 /\ Head(s) = s[1]
      /\ DOMAIN Tail(s) = 1 .. Len(s) - 1
      /\ \A n \in 1 .. Len(s) - 1 : Tail(s)[n] = s[n + 1]
  BY <1>1, HeadTailProperties, LenProperties
<1> QED  BY <1>1, <1>2

\* The other steps keep the copies equal: reading brings no alias in, and
\* lif_state_sync makes the second copy from the first.
LEMMA OtherOwn ==
    ASSUME OwnInv, NEW self \in Proc, Start(self) \/ Work(self) \/ Crash(self), ~Recursing(self)
    PROVE  OwnOK(mem'[self])
<1> DEFINE o == mem[self]
<1>0. /\ o \in Memory /\ DataOK(o) /\ GoodMemory(o) /\ IInv /\ OwnOK(o)
      /\ OwnNames(ifstate) /\ ifstate \in Seq(Record) /\ OwnArgs(<< >>) /\ OwnNames(<< >>)
      /\ o.pc # "run" => o.stack = << >>
  BY Before DEF OwnInv, OwnArgs, OwnNames
<1>1. ASSUME o.pc # "run"  PROVE Activations(o) = {}
  BY <1>0, <1>1 DEF Activations
<1>2. CASE Start(self)
  <2>1. PICK c \in Commands : mem'[self] = Fresh("read", c, ifstate)
    BY <1>0, <1>2, Updated DEF Start
  <2> DEFINE m == Fresh("read", c, ifstate)
  <2>2. /\ m.state = << >> /\ m.input = ifstate /\ m.todo = << >> /\ m.cmd = c
        /\ m.stack = << >> /\ m.pc = "read"
    BY DEF Fresh
  <2> HIDE DEF m
  <2>3. Activations(m) = {} /\ OwnArgs(c.args)
    BY <2>2 DEF Activations, OwnInv, OwnStanzas
  <2>4. OwnOK(m)  BY <1>0, <2>2, <2>3 DEF OwnOK, HoldingState, Synced
  <2> QED  BY <2>1, <2>4 DEF m
<1>3. CASE Crash(self) \/ FlushStateFile(self)
  BY <1>0, <1>3, Updated, IdleOwn DEF Crash, FlushStateFile
<1>4. CASE ReadLine(self)
  <2> DEFINE l == Head(o.input)
             s == Upsert(o.state, ParsedLine(l))
             t == Tail(o.input)
             m == [o EXCEPT !.input = t, !.state = s]
  <2>1. o.pc = "read" /\ o.input # << >> /\ mem'[self] = m
    BY <1>0, <1>4, Updated DEF ReadLine, At
  <2>2. o.state \in Seq(Record) /\ o.input \in Seq(Record) /\ OwnNames(o.state) /\ OwnNames(o.input)
    BY <1>0 DEF Memory, OwnOK
  <2>3. l \in Record /\ l.mapped = l.key /\ OwnNames(t)
    BY <2>1, <2>2, TailOwn, ElementOfSeq DEF OwnNames
  <2>4. ParsedLine(l) \in Record /\ ParsedLine(l).mapped = ParsedLine(l).key
    BY <2>3 DEF ParsedLine, Record
  <2>5. OwnNames(s)  BY <2>2, <2>4, OwnNamesKept
  <2> HIDE DEF s, t
  <2>6. /\ m.state = s /\ m.input = t /\ m.todo = o.todo /\ m.cmd = o.cmd
        /\ m.stack = o.stack /\ m.pc = "read"
    BY <1>0, <2>1 DEF Memory
  <2> HIDE DEF m
  <2>7. Activations(m) = {}  BY <1>1, <2>1, <2>6 DEF Activations
  <2>8. OwnOK(m)
    BY <1>0, <2>3, <2>5, <2>6, <2>7 DEF OwnOK, HoldingState, Synced
  <2> QED  BY <2>1, <2>8
<1>5. CASE QueryDependents(self)
  <2> DEFINE m == [o EXCEPT !.pc = "sync"]
  <2>1. o.pc = "read" /\ (mem'[self] = m \/ mem'[self] = Idle)
    BY <1>0, <1>5, Updated DEF QueryDependents, At
  <2>2. /\ m.state = o.state /\ m.input = o.input /\ m.todo = o.todo /\ m.cmd = o.cmd
        /\ m.stack = o.stack /\ m.pc = "sync"
    BY <1>0 DEF Memory
  <2> HIDE DEF m
  <2>3. Activations(m) = {}  BY <1>1, <2>1, <2>2 DEF Activations
  <2>4. OwnOK(m)  BY <1>0, <2>2, <2>3 DEF OwnOK, HoldingState, Synced
  <2> QED  BY <2>1, <2>4, IdleOwn
<1>6. CASE SyncState(self)
  <2> DEFINE c == SyncedRefcount(o.state)
             e == SyncedExplicit(o.state, o.explicit)
             t == IF o.cmd.auto THEN AutomaticArguments ELSE o.cmd.args
             m == [o EXCEPT !.pc = "select", !.refcount = c, !.explicit = e, !.todo = t]
  <2>1. o.pc = "sync" /\ mem'[self] = m
    BY <1>0, <1>6, Updated DEF SyncState, At
  <2>2. o.state \in Seq(Record) /\ IsDictionary(o.state) /\ OwnNames(o.state)
    BY <1>0 DEF DataOK, Memory, OwnOK
  <2>3. \A i \in Iface :
          IF HasRecord(o.state, i)
          THEN /\ c[i] = RecordOf(o.state, i).refcount
               /\ e[i] = RecordOf(o.state, i).explicit
               /\ RecordOf(o.state, i).refcount > 0 /\ RecordOf(o.state, i).mapped = i
               /\ RecordOf(o.state, i) \in Record /\ RecordOf(o.state, i).key = i
          ELSE c[i] = 0
    BY <2>2, SyncFinds, RecordFound
  <2>4. OwnArgs(t)
    BY <1>0 DEF OwnArgs, AutomaticArguments, OwnOK
  <2> HIDE DEF c, e, t
  <2>5. /\ m.state = o.state /\ m.refcount = c /\ m.explicit = e /\ m.todo = t /\ m.cmd = o.cmd
        /\ m.stack = o.stack /\ m.pc = "select" /\ m.input = o.input
    BY <1>0 DEF Memory
  <2> HIDE DEF m
  <2>6. Agree(m)
    <3> SUFFICES ASSUME NEW i \in Iface
                 PROVE  IF m.refcount[i] = 0 THEN ~HasRecord(m.state, i)
                        ELSE HasRecord(m.state, i) /\ RecordOf(m.state, i) = Describe(m, i, i)
      BY DEF Agree
    <3>1. CASE HasRecord(m.state, i)
      <4> DEFINE r == RecordOf(m.state, i)
      <4>1. /\ r \in Record /\ r.key = i /\ r.mapped = i /\ r.refcount = m.refcount[i]
            /\ r.explicit = m.explicit[i] /\ m.refcount[i] # 0
        BY <2>3, <2>5, <3>1 DEF Record
      <4> HIDE DEF r
      <4>2. r = Describe(m, i, i)  BY <4>1 DEF Record, Describe
      <4> QED  BY <3>1, <4>1, <4>2 DEF r
    <3>2. CASE ~HasRecord(m.state, i)
      BY <2>3, <2>5, <3>2
    <3> QED  BY <3>1, <3>2
  <2>7. Activations(m) = {}  BY <1>1, <2>1, <2>5 DEF Activations
  <2>8. OwnOK(m)  BY <1>0, <2>4, <2>5, <2>6, <2>7 DEF OwnOK, HoldingState
  <2> QED  BY <2>1, <2>8
<1>7. CASE PassOver(self)
  <2> DEFINE t == Tail(o.todo)
             m == [o EXCEPT !.todo = t]
  <2>1. o.pc = "select" /\ o.todo # << >> /\ mem'[self] = m
    BY <1>0, <1>7, Updated DEF PassOver, At
  <2>2. OwnArgs(t)
    BY <1>0, <2>1, TailOwn DEF Memory, OwnOK, OwnArgs
  <2> HIDE DEF t
  <2>3. /\ m.state = o.state /\ m.refcount = o.refcount /\ m.explicit = o.explicit
        /\ m.todo = t /\ m.cmd = o.cmd /\ m.stack = o.stack /\ m.pc = "select"
        /\ m.input = o.input
    BY <1>0, <2>1 DEF Memory
  <2> HIDE DEF m
  <2>4. Activations(m) = {} /\ Agree(m)
    BY <1>0, <1>1, <2>1, <2>3 DEF Activations, OwnOK, Synced, Agree, Describe
  <2>5. OwnOK(m)  BY <1>0, <2>2, <2>3, <2>4 DEF OwnOK, HoldingState
  <2> QED  BY <2>1, <2>5
<1>8. CASE UnknownInterface(self) \/ NoMoreTargets(self)
  <2>1. o.pc = "select" /\ o.ok \in BOOLEAN
    BY <1>0, <1>8 DEF UnknownInterface, NoMoreTargets, At, Memory
  <2>2. Agree(o)  BY <1>0, <2>1 DEF OwnOK, Synced
  <2> QED  BY <1>0, <1>8, <2>1, <2>2, ExitOwn, Updated DEF UnknownInterface, NoMoreTargets
<1>9. CASE AcquireLock(self)
  <2> DEFINE a == Head(o.todo)
             i == Resolve(o, a)
             t == Tail(o.todo)
             g == [key |-> a.key, iface |-> i]
             n == [o EXCEPT !.todo = t, !.target = g]
             m == [n EXCEPT !.pc = "locked"]
  <2>1. /\ o.todo # << >> /\ (o.cmd.auto => a.key \in IsAuto \cap Matched) /\ i # NoIface
        /\ o.pc = "select" /\ (Update(self, m) \/ Update(self, Fail(n)))
    BY <1>9 DEF AcquireLock, At
  <2>2. a \in Argument /\ t \in Seq(Argument)
    BY <1>0, <2>1, HeadTailProperties DEF Memory
  <2>3. i \in Iface  BY <1>0, <2>1, <2>2, ResolveType, ConfigAssumption
  <2>4. a.as \in {NoIface, a.key} /\ OwnArgs(t)
    <3>1. OwnArgs(o.todo)  BY <1>0 DEF OwnOK
    <3>2. o.todo \in Seq(Argument)  BY <1>0 DEF Memory
    <3> DEFINE q == o.todo
    <3>3. /\ q # << >> /\ OwnArgs(q) /\ q \in Seq(Argument) /\ a = Head(q) /\ t = Tail(q)
      BY <2>1, <3>1, <3>2
    <3> HIDE DEF q, a, t
    <3>4. /\ Head(q) = q[1] /\ 1 \in DOMAIN q
          /\ \A k \in DOMAIN Tail(q) : k + 1 \in DOMAIN q /\ Tail(q)[k] = q[k + 1]
      BY <3>3, TailOwn
    <3> QED  BY <3>3, <3>4 DEF OwnArgs
  <2>5. i = a.key  BY <1>0, <2>1, <2>2, <2>4, ResolveOwn
  <2>6. g \in [key : Key, iface : Iface] /\ g.key = g.iface
    BY <2>2, <2>3, <2>5 DEF Argument
  <2>7. Agree(o)  BY <1>0, <2>1 DEF OwnOK, Synced
  <2> HIDE DEF t, g
  <2>8. /\ n.state = o.state /\ n.refcount = o.refcount /\ n.explicit = o.explicit
        /\ n.todo = t /\ n.cmd = o.cmd /\ n.stack = o.stack /\ n.pc = "select"
        /\ n.input = o.input /\ n.target = g /\ n \in Memory
    BY <1>0, <2>1, <2>2, <2>6 DEF Memory
  <2> HIDE DEF n
  <2>9. Activations(n) = {} /\ Agree(n)
    BY <1>1, <2>1, <2>7, <2>8 DEF Activations, Agree, Describe
  <2>10. OwnOK(n)  BY <1>0, <2>4, <2>8, <2>9 DEF OwnOK, HoldingState
  <2>11. /\ m.state = n.state /\ m.refcount = n.refcount /\ m.explicit = n.explicit
         /\ m.todo = t /\ m.cmd = n.cmd /\ m.stack = n.stack /\ m.pc = "locked"
         /\ m.input = n.input /\ m.target = g
    BY <2>8 DEF Memory
  <2> HIDE DEF m
  <2>12. Activations(m) = {} /\ Agree(m)
    BY <2>9, <2>11 DEF Activations, Agree, Describe
  <2>13. OwnOK(m)  BY <2>4, <2>6, <2>10, <2>11, <2>12 DEF OwnOK
  <2> QED  BY <1>0, <2>1, <2>8, <2>9, <2>10, <2>13, ExitOwn, Updated
<1>10. CASE SkipInterface(self) \/ FinishInterface(self)
  <2> DEFINE k == o.target.key
             i == o.target.iface
             m == MarkExplicit(o, i, i)
  <2>1. o.pc \in {"locked", "finish"}
    BY <1>10 DEF SkipInterface, FinishInterface, At
  <2>2. k = i /\ i \in Iface /\ Agree(o)
    BY <1>0, <2>1, TargetType DEF OwnOK, HoldingState, Synced
  <2>3. \/ Update(self, Done(o))
        \/ o.refcount[i] > 0 /\ Update(self, Done(m))
    BY <1>0, <1>10, <2>2 DEF SkipInterface, FinishInterface, Skips, GoodMemory, CountedOK, At
  <2>4. o.refcount[i] > 0 => m \in Memory /\ OwnOK(m) /\ Agree(m)
    BY <1>0, <2>2, MarkOwn DEF DataOK
  <2> QED  BY <1>0, <2>2, <2>3, <2>4, ExitOwn, Updated
<1>11. CASE OpenStateFile(self)
  <2> DEFINE m == [o EXCEPT !.pc = "flush"]
  <2>1. o.pc = "write" /\ (mem'[self] = m \/ mem'[self] = Idle)
    BY <1>0, <1>11, Updated DEF OpenStateFile, At
  <2>2. /\ m.state = o.state /\ m.refcount = o.refcount /\ m.explicit = o.explicit
        /\ m.todo = o.todo /\ m.cmd = o.cmd /\ m.stack = o.stack /\ m.pc = "flush"
        /\ m.input = o.input
    BY <1>0 DEF Memory
  <2> HIDE DEF m
  <2>3. Activations(m) = {} /\ Agree(m)
    BY <1>0, <1>1, <2>1, <2>2 DEF Activations, OwnOK, Synced, Agree, Describe
  <2>4. OwnOK(m)  BY <1>0, <2>2, <2>3 DEF OwnOK, HoldingState
  <2> QED  BY <2>1, <2>4, IdleOwn
<1> QED
  BY <1>2, <1>3, <1>4, <1>5, <1>6, <1>7, <1>8, <1>9, <1>10, <1>11 DEF Work, Recursing

\* The invariant holds before the first command.
LEMMA OwnInit == OwnStanzas /\ Init => OwnInv
<1>1. Init => IInv  BY InitInv
<1>2. OwnNames(<< >>)  BY DEF OwnNames
<1> QED  BY <1>1, <1>2, IdleOwn DEF Init, OwnInv

\* Every step of one process preserves the invariant; what it writes has no aliases.
LEMMA OwnStep ==
    ASSUME OwnInv, NEW self \in Proc, Start(self) \/ Work(self) \/ Crash(self)
    PROVE  OwnInv'
<1> DEFINE o == mem[self]
<1>1. /\ IInv /\ OwnStanzas /\ OwnOK(o) /\ OwnNames(ifstate) /\ o.state \in Seq(Record)
      /\ ifstate \in Seq(Record)
  BY Before DEF OwnInv, Memory
<1>2. IInv' /\ \A p \in Proc : p # self => mem'[p] = mem[p]  BY <1>1, OneActor
<1>3. OwnOK(mem'[self])  BY <1>1, RecursingOwn, OtherOwn
<1>4. OwnNames(ifstate')
  <2>1. CASE FlushStateFile(self)
    BY <1>1, <2>1, OwnNamesKept DEF FlushStateFile, OwnOK
  <2>2. CASE OpenStateFile(self)
    BY <1>1, <2>2 DEF OpenStateFile, OwnNames
  <2>3. CASE ~FlushStateFile(self) /\ ~OpenStateFile(self)
    <3>1. ifstate' = ifstate
      BY <2>3 DEF Start, Work, Crash, ReadLine, QueryDependents, SyncState, PassOver,
            UnknownInterface, AcquireLock, SkipInterface, ChangeInterface,
            SkipBrokenDependent, ChangeDependent, DependentsDone, RunPhase, ReturnFromRun,
            FinishInterface, NoMoreTargets
    <3> QED  BY <1>1, <3>1
  <2> QED  BY <2>1, <2>2, <2>3
<1> QED  BY <1>1, <1>2, <1>3, <1>4 DEF OwnInv

\* The invariant holds in every state of every behaviour.
LEMMA OwnInvariance == OwnStanzas /\ Spec => []OwnInv
<1>1. ASSUME OwnInv, [Next]_vars PROVE OwnInv'
  <2>1. CASE UNCHANGED vars
    BY <1>1, <2>1, NextInv DEF vars, OwnInv
  <2>2. CASE Rest
    BY <1>1, <2>2, NextInv DEF Rest, vars, OwnInv
  <2> QED  BY <1>1, <2>1, <2>2, OwnStep DEF Next
<1> QED  BY <1>1, OwnInit, PTL DEF Spec

\* lif_state_ref_if, lif_state_unref_if and the explicit mark never let the count in
\* the dictionary and the one in struct lif_interface drift apart, whatever the
\* processes do to the file meanwhile, as long as no command names an alias.
THEOREM CopiesNeverDrift == OwnStanzas /\ Spec => []CopiesAgree
<1>1. OwnInv => CopiesAgree  BY DEF OwnInv, OwnOK, Agree, CopiesAgree
<1> QED  BY <1>1, OwnInvariance, PTL
=============================================================================
