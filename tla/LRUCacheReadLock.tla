-------------------------- MODULE LRUCacheReadLock --------------------------
(***************************************************************************)
(* The thread-safe version that src/src/stl_like/lru_cache.cpp recommends  *)
(* in lines 106-107: get under a read lock, put under a write lock.  Read  *)
(* locks are shared, so several threads run get at once, and get calls     *)
(* move_to_front, whose pointer writes (lines 44-54) interleave.  A get is *)
(* followed statement by statement; the racing accesses are taken to be    *)
(* atomic word accesses, the mildest outcome a build can give.             *)
(*                                                                         *)
(* The cache starts with three entries, as after the puts of lines 112-114. *)
(***************************************************************************)
EXTENDS LRUCache

CONSTANTS Readers, k1, k2, k3, n1, n2, n3

VARIABLES line,    \* the statement of move_to_front each reader is at, 0 outside
          node     \* the argument of its move_to_front

allVars == <<vars, line, node>>

InitReaders ==
    /\ \E v \in Values :
           heap = [a \in Addr |-> CASE a = n1 -> Node(k1, v, n2, Null)
                                    [] a = n2 -> Node(k2, v, n3, n1)
                                    [] a = n3 -> Node(k3, v, Null, n2)
                                    [] OTHER -> Free]
    /\ head_ = n3 /\ tail_ = n1 /\ size_ = 3 /\ result = Null
    /\ map_ = [k \in Keys |-> CASE k = k1 -> n1 [] k = k2 -> n2 [] k = k3 -> n3
                                [] OTHER -> Null]
    /\ line = [r \in Readers |-> 0]
    /\ node = [r \in Readers |-> Null]

(* get of a cached key, under the shared lock: find, then move_to_front. *)
EnterGet(r, k) ==
    /\ line[r] = 0 /\ map_[k] # Null
    /\ node' = [node EXCEPT ![r] = map_[k]]
    /\ line' = [line EXCEPT ![r] = 44]
    /\ UNCHANGED vars

At(r, n, next) == line[r] = n /\ line' = [line EXCEPT ![r] = next] /\ UNCHANGED node

Statement(r) ==
    LET me == node[r] IN
    /\ UNCHANGED <<map_, size_, result>>
    /\ \/ /\ At(r, 44, IF me = head_ THEN 0 ELSE 46)
          /\ UNCHANGED <<heap, head_, tail_>>
       \/ /\ At(r, 46, 47)
          /\ heap' = SetNext(heap, heap[me].prev, heap[me].next)
          /\ UNCHANGED <<head_, tail_>>
       \/ /\ At(r, 47, 48)
          /\ heap' = SetPrev(heap, heap[me].next, heap[me].prev)
          /\ UNCHANGED <<head_, tail_>>
       \/ /\ At(r, 48, 50)
          /\ tail_' = IF me = tail_ THEN heap[me].prev ELSE tail_
          /\ UNCHANGED <<heap, head_>>
       \/ /\ At(r, 50, 51)
          /\ heap' = SetPrev(heap, me, Null)
          /\ UNCHANGED <<head_, tail_>>
       \/ /\ At(r, 51, 52)
          /\ heap' = SetNext(heap, me, head_)
          /\ UNCHANGED <<head_, tail_>>
       \/ /\ At(r, 52, 53)
          /\ heap' = SetPrev(heap, head_, me)
          /\ UNCHANGED <<head_, tail_>>
       \/ /\ At(r, 53, 54)
          /\ head_' = me
          /\ UNCHANGED <<heap, tail_>>
       \/ /\ At(r, 54, 0)
          /\ tail_' = IF tail_ = Null THEN me ELSE tail_
          /\ UNCHANGED <<heap, head_>>

NextReaders ==
    \E r \in Readers : Statement(r) \/ \E k \in Keys : EnterGet(r, k)

SpecReaders == InitReaders /\ [][NextReaders]_allVars

(* What the note of lines 106-107 claims: with a read lock around get the
   cache is thread-safe, that is, the list is intact whenever no get is in
   progress. *)
ReadLockSuffices == (\A r \in Readers : line[r] = 0) => ListIntegrity
==============================================================================
