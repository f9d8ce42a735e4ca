------------------------------ MODULE IfState ------------------------------
(***************************************************************************)
(* The interface state of libifupdown/state.c: the dictionary that a       *)
(* process loads from the state file, changes through reference counting   *)
(* and writes back.  A dictionary is a linked list searched by key         *)
(* (libifupdown/dict.c), here a sequence of records in list order.  The    *)
(* variants named "Wrong..." are slips a programmer could make; nothing    *)
(* uses them.                                                              *)
(***************************************************************************)
EXTENDS Naturals, SequencesExt

CONSTANTS
    Key,     \* physical names: the left side of a line "key=mapped refcount"
    Iface    \* the interface stanzas of the interfaces file

\* A dependent is recorded under its own name, so every stanza's name is a key.
ASSUME IfaceAssumption == Iface \subseteq Key

\* One line of the state file and one entry of the dictionary alike.
Record == [key : Key, mapped : Iface, refcount : Nat, explicit : BOOLEAN]

HasRecord(s, k) == \E n \in DOMAIN s : s[n].key = k

\* The first entry of the list with the key: lif_dict_find stops there.
Position(s, k) ==
    CHOOSE n \in DOMAIN s : s[n].key = k /\ \A m \in 1 .. n - 1 : s[m].key # k

RecordOf(s, k) == s[Position(s, k)]

Delete(s, k) == IF HasRecord(s, k) THEN RemoveAt(s, Position(s, k)) ELSE s

WrongUpsert(s, r) == Append(s, r)             \* the old entry is not deleted

\* lif_state_upsert: the old entry goes, the new one is the last of the list.
Upsert(s, r) == Append(Delete(s, r.key), r)

\* What lif_state_read makes of a line that lif_state_write printed.
ParsedLine(r) == [r EXCEPT !.refcount = IF @ = 0 THEN 1 ELSE @]

\* lif_state_sync walks the whole list, so the last entry mapped to i decides.
LastMapped(s, i) ==
    CHOOSE n \in DOMAIN s :
        s[n].mapped = i /\ \A m \in n + 1 .. Len(s) : s[m].mapped # i

IsMapped(s, i) == \E n \in DOMAIN s : s[n].mapped = i

SyncedRefcount(s) ==
    [i \in Iface |-> IF IsMapped(s, i) THEN s[LastMapped(s, i)].refcount ELSE 0]

WrongSyncedExplicit(s, before) == before      \* the mark is not read back

SyncedExplicit(s, before) ==
    [i \in Iface |-> IF IsMapped(s, i) THEN s[LastMapped(s, i)].explicit ELSE before[i]]

(***************************************************************************)
(* Two streams opened with fopen(path, "w") by two processes write at      *)
(* offset 0 each: the second leaves whatever the first wrote beyond its    *)
(* own length (lines are taken to be equally long).                        *)
(***************************************************************************)
Overwrite(old, new) == new \o SubSeq(old, Len(new) + 1, Len(old))

\* A dictionary has one entry per key and no entry of count zero.
KeysDistinct(s) == \A m, n \in DOMAIN s : s[m].key = s[n].key => m = n

IsDictionary(s) == KeysDistinct(s) /\ \A n \in DOMAIN s : s[n].refcount > 0
=============================================================================
