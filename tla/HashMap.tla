------------------------------- MODULE HashMap -------------------------------
(***************************************************************************)
(* src/src/stl_like/hash_map.cpp: separate chaining with automatic rehash. *)
(* A map is [buckets, size]; an operator named after a member function     *)
(* maps the map before the call to the map after it.  find only reads.     *)
(***************************************************************************)
EXTENDS Naturals, Sequences, FiniteSets, SequencesExt

CONSTANTS Keys, Values,
          Default,           \* V{}
          hasher_,           \* the hash of each key
          InitialBuckets     \* sizes a map is constructed with

VARIABLES buckets_, size_

vars == <<buckets_, size_>>

TheMap == [buckets |-> buckets_, size |-> size_]

Init ==
    /\ \E n \in InitialBuckets : buckets_ = [b \in 1 .. n |-> <<>>]
    /\ size_ = 0

bucket_index(m, k) == (hasher_[k] % Len(m.buckets)) + 1

(* The place of k in a bucket: at most one element. *)
Positions(bucket, k) == {n \in DOMAIN bucket : bucket[n].key = k}
Entry(k, v) == [key |-> k, value |-> v]

(* All entries go, bucket by bucket, into a new array. *)
rehash(m, n) ==
    LET entries == FlattenSeq(m.buckets)
        place(array, e) == [array EXCEPT ![(hasher_[e.key] % n) + 1] = Append(@, e)]
        new_buckets[i \in 0 .. Len(entries)] ==
            IF i = 0 THEN [b \in 1 .. n |-> <<>>] ELSE place(new_buckets[i - 1], entries[i])
    IN  [m EXCEPT !.buckets = new_buckets[Len(entries)]]

(* load_factor() > 0.75 *)
Overloaded(m) == 4 * m.size > 3 * Len(m.buckets)

GrowIfOverloaded(m) == IF Overloaded(m) THEN rehash(m, 2 * Len(m.buckets)) ELSE m

(* Append a new entry to its bucket. *)
EmplaceBack(m, k, v) ==
    [buckets |-> [m.buckets EXCEPT ![bucket_index(m, k)] = Append(@, Entry(k, v))],
     size |-> m.size + 1]

insert_always(m, k, v) == GrowIfOverloaded(EmplaceBack(m, k, v))

insert(m, k, v) ==
    LET idx == bucket_index(m, k)
        found == Positions(m.buckets[idx], k)
    IN  IF found = {} THEN GrowIfOverloaded(EmplaceBack(m, k, v))
        ELSE [m EXCEPT !.buckets[idx] = [n \in DOMAIN @ |-> IF n \in found THEN Entry(k, v) ELSE @[n]]]

erase(m, k) ==
    LET idx == bucket_index(m, k)
        found == Positions(m.buckets[idx], k)
    IN  IF found = {} THEN m
        ELSE [buckets |-> [m.buckets EXCEPT ![idx] = RemoveAt(@, CHOOSE n \in found : TRUE)],
              size |-> m.size - 1]

find(m, k) ==
    LET bucket == m.buckets[bucket_index(m, k)]
        found == Positions(bucket, k)
    IN  {bucket[n].value : n \in found}

(* operator[]: the map with k in it, and where the returned reference points:
   the bucket is computed again when the insertion made the map grow. *)
IndexMap(m, k) ==
    IF find(m, k) = {} THEN GrowIfOverloaded(EmplaceBack(m, k, Default)) ELSE m

IndexReferenceStale(m, k) ==
    LET after == IndexMap(m, k)
        idx == bucket_index(m, k)
        found == Positions(after.buckets[idx], k)
    IN  <<idx, IF found = {} THEN Len(after.buckets[idx]) ELSE CHOOSE n \in found : TRUE>>

IndexReference(m, k) ==
    LET after == IndexMap(m, k)
        idx == bucket_index(after, k)
        found == Positions(after.buckets[idx], k)
    IN  <<idx, IF found = {} THEN Len(after.buckets[idx]) ELSE CHOOSE n \in found : TRUE>>

(* map[k] = v: write through the reference. *)
AssignThrough(m, k, v) ==
    LET ref == IndexReference(m, k)
    IN  [IndexMap(m, k) EXCEPT !.buckets[ref[1]][ref[2]].value = v]

-----------------------------------------------------------------------------
Becomes(m) == buckets_' = m.buckets /\ size_' = m.size

Insert(k, v) == Becomes(insert(TheMap, k, v))
Erase(k) == Becomes(erase(TheMap, k))
Index(k) == Becomes(IndexMap(TheMap, k))
Assign(k, v) == Becomes(AssignThrough(TheMap, k, v))

Next == \E k \in Keys :
    \/ \E v \in Values : Insert(k, v) \/ Assign(k, v)
    \/ Erase(k)
    \/ Index(k)

Spec == Init /\ [][Next]_vars

-----------------------------------------------------------------------------
(* Every entry is in the bucket its hash selects, keys are unique, size_ counts
   the entries, and an insertion leaves the load at most 0.75. *)
BucketsConsistent ==
    LET entries == FlattenSeq(buckets_)
    IN  /\ size_ = Len(entries)
        /\ \A m, n \in DOMAIN entries : entries[m].key = entries[n].key => m = n
        /\ \A b \in DOMAIN buckets_ : \A n \in DOMAIN buckets_[b] :
               bucket_index(TheMap, buckets_[b][n].key) = b
        /\ ~Overloaded(TheMap)

(* Each operation does what a map does: insert and map[k] = v bind k to v,
   map[k] binds a new key to the default value, erase unbinds, and all leave
   the other keys alone, also when the map grows under them. *)
MapOperationsCorrect ==
    LET Contents(m) == [k \in Keys |-> find(m, k)]
        c == Contents(TheMap)
    IN  \A k \in Keys :
            LET Gives(m, values) == Contents(m) = [c EXCEPT ![k] = values]
            IN  /\ \A v \in Values : /\ Gives(insert(TheMap, k, v), {v})
                                     /\ Gives(AssignThrough(TheMap, k, v), {v})
                /\ Gives(erase(TheMap, k), {})
                /\ Gives(IndexMap(TheMap, k), IF c[k] = {} THEN {Default} ELSE c[k])

(* The buckets stay consistent and behave as a partial function. *)
MapBehaves == BucketsConsistent /\ MapOperationsCorrect
==============================================================================
