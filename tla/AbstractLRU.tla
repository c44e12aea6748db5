----------------------------- MODULE AbstractLRU -----------------------------
(***************************************************************************)
(* What an LRU cache promises: at most Capacity entries, kept from the     *)
(* most to the least recently used; get and put make their key the most    *)
(* recent one; a put of a new key into a full cache drops the least recent *)
(* one and nothing else.                                                   *)
(***************************************************************************)
EXTENDS Naturals, Sequences, SequencesExt

CONSTANTS Keys, Values, Capacity, Null

VARIABLES entries,   \* sequence of [key, value], most recently used first
          result     \* what the last get returned

vars == <<entries, result>>

Cached(k) == \E n \in DOMAIN entries : entries[n].key = k
Place(k) == CHOOSE n \in DOMAIN entries : entries[n].key = k
ValueOf(k) == entries[Place(k)].value
InFront(k, v, rest) == <<[key |-> k, value |-> v]>> \o rest

Init == entries = <<>> /\ result = Null

Get(k) ==
    IF Cached(k)
    THEN entries' = InFront(k, ValueOf(k), RemoveAt(entries, Place(k))) /\ result' = ValueOf(k)
    ELSE UNCHANGED entries /\ result' = Null

Put(k, v) ==
    /\ LET kept == IF Cached(k) THEN RemoveAt(entries, Place(k))
                   ELSE IF Len(entries) < Capacity THEN entries
                   ELSE SubSeq(entries, 1, Capacity - 1)
       IN  entries' = InFront(k, v, kept)
    /\ UNCHANGED result

Next == \E k \in Keys : Get(k) \/ \E v \in Values : Put(k, v)

Spec == Init /\ [][Next]_vars
==============================================================================
