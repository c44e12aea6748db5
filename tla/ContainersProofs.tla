-------------------------- MODULE ContainersProofs --------------------------
(***************************************************************************)
(* The containers of src/src/stl_like, for every size and every sequence   *)
(* of calls: the memory pool, the LRU cache, the doubly linked list and    *)
(* the hash map; and the owning classes and allocators of MCContainers.    *)
(*                                                                         *)
(* PoolSound is inductive as it stands.  The next three need a witness of  *)
(* what the memory holds: the sequence of nodes that is the cache's list   *)
(* (CacheHolds), the sequence of nodes of each linked list (ListsHold),    *)
(* the set of entries spread over the buckets (MapHolds).  Each operation  *)
(* is shown to change the witness the way its name says, and the           *)
(* properties, which walk the memory, are read off the witness.  The       *)
(* owners need that an object holds nothing or one open resource           *)
(* (OwnersHold), the pool allocator the sequence that is its free list.    *)
(***************************************************************************)
EXTENDS MCContainers, Arithmetic, SequencesExt

-----------------------------------------------------------------------------
(* The memory pool. *)

(* Sets of blocks are finite. *)
LEMMA BlocksFinite == ASSUME NEW S \in SUBSET Block PROVE IsFiniteSet(S)
  <1>1. IsFiniteSet(0 .. PoolSize - 1)
    BY SizeAssumption, FS_Interval
  <1> QED
    BY <1>1, FS_Subset DEF Block

(* The constructor chains all blocks (lines 41-51). *)
LEMMA InitPool == Init => PoolSound
  <1> SUFFICES ASSUME Init PROVE PoolSound
    OBVIOUS
  <1> USE SizeAssumption
  <1>1. stack \in Seq(Block) /\ Len(stack) = PoolSize /\ \A n \in 1 .. PoolSize : stack[n] = n - 1
    BY DEF Init, Block
  <1>2. TypeOK
    BY <1>1 DEF Init, TypeOK, Block
  <1>3. ListIsStack
    BY <1>1 DEF Init, ListIsStack, FreeAt, Block
  <1>4. NoBlockTwice
    BY <1>1 DEF Init, NoBlockTwice
  <1>5. CountsExact
    BY <1>1, FS_EmptySet DEF Init, CountsExact
  <1> QED
    BY <1>2, <1>3, <1>4, <1>5 DEF PoolSound

(* A non-null head is the top of the stack, and no block in use. *)
LEMMA HeadIsTop ==
    ASSUME PoolSound, free_list_ # Null
    PROVE  /\ stack # <<>> /\ Len(stack) \in Nat \ {0} /\ free_list_ = stack[1]
           /\ free_list_ \in Block /\ free_list_ \notin held \cup lost
  BY DEF PoolSound, TypeOK, ListIsStack, NoBlockTwice, FreeAt

(* Taking the first block leaves the rest of the list (lines 63-68). *)
LEMMA TakeBlockKeeps ==
    ASSUME PoolSound, TakeBlock,
           next' \in {next, [next EXCEPT ![free_list_] = Data]},
           held' \cup lost' = held \cup lost \cup {free_list_},
           held' \cap lost' = {}, held' \in SUBSET Block, lost' \in SUBSET Block
    PROVE  PoolSound'
  <1> USE SizeAssumption
  <1>1. /\ stack # <<>> /\ Len(stack) \in Nat \ {0} /\ free_list_ = stack[1]
        /\ free_list_ \in Block /\ free_list_ \notin held \cup lost
    BY HeadIsTop DEF TakeBlock
  <1>2. TypeOK /\ ListIsStack /\ NoBlockTwice /\ CountsExact
    BY DEF PoolSound
  <1>3. /\ stack' \in Seq(Block) /\ Len(stack') = Len(stack) - 1
        /\ \A n \in 1 .. Len(stack') : n + 1 \in 1 .. Len(stack) /\ stack'[n] = stack[n + 1]
    BY <1>1, <1>2 DEF TypeOK, TakeBlock
  <1>4. free_list_' = FreeAt(2)
    <2>1. 1 \in 1 .. Len(stack) /\ 1 + 1 = 2
      BY <1>1
    <2>2. next[stack[1]] = FreeAt(1 + 1)
      BY <1>2, <2>1 DEF ListIsStack
    <2> QED
      BY <1>1, <2>1, <2>2 DEF TakeBlock
  <1>5. \A n \in 1 .. Len(stack') : stack'[n] # free_list_
    BY <1>1, <1>2, <1>3 DEF NoBlockTwice
  <1>6. TypeOK'
    <2>1. FreeAt(2) \in Block \cup {Null}
      BY <1>1, <1>2 DEF FreeAt, TypeOK
    <2>2. next' \in [Block -> Block \cup {Null, Data}]
      BY <1>1, <1>2 DEF TypeOK
    <2>3. allocated_' \in Nat
      BY <1>2 DEF TypeOK, TakeBlock
    <2> QED
      BY <1>3, <1>4, <2>1, <2>2, <2>3 DEF TypeOK
  <1>7. ListIsStack'
    <2>1. free_list_' = FreeAt(1)'
      BY <1>1, <1>3, <1>4 DEF FreeAt
    <2>2. ASSUME NEW n \in 1 .. Len(stack') PROVE next'[stack'[n]] = FreeAt(n + 1)'
      <3>1. n + 1 \in 1 .. Len(stack) /\ stack'[n] = stack[n + 1] /\ stack'[n] # free_list_
        BY <1>3, <1>5
      <3>2. next'[stack'[n]] = next[stack[n + 1]]
        BY <1>2, <1>3, <3>1 DEF TypeOK
      <3>3. next[stack[n + 1]] = FreeAt(n + 2)
        BY <1>2, <3>1 DEF ListIsStack
      <3>4. FreeAt(n + 2) = FreeAt(n + 1)'
        BY <1>1, <1>3 DEF FreeAt
      <3> QED
        BY <3>2, <3>3, <3>4
    <2> QED
      BY <2>1, <2>2 DEF ListIsStack
  <1>8. NoBlockTwice'
    <2>1. \A m, n \in 1 .. Len(stack') : stack'[m] = stack'[n] => m = n
      BY <1>1, <1>2, <1>3 DEF NoBlockTwice
    <2>2. \A n \in 1 .. Len(stack') : stack'[n] \notin held \cup lost
      BY <1>2, <1>3 DEF NoBlockTwice
    <2> QED
      BY <1>5, <2>1, <2>2 DEF NoBlockTwice
  <1>9. CountsExact'
    <2>1. IsFiniteSet(held \cup lost)
      BY <1>2, BlocksFinite DEF TypeOK
    <2>2. Cardinality(held' \cup lost') = Cardinality(held \cup lost) + 1
      BY <1>1, <2>1, FS_AddElement
    <2> QED
      BY <1>1, <1>2, <1>3, <2>2 DEF CountsExact, TakeBlock, TypeOK
  <1> QED
    BY <1>6, <1>7, <1>8, <1>9 DEF PoolSound

(* Returning a held block puts it in front of the list (lines 75-84). *)
LEMMA DeallocateKeeps ==
    ASSUME PoolSound, NEW b \in Block, Deallocate(b) PROVE PoolSound'
  <1> USE SizeAssumption
  <1>1. TypeOK /\ ListIsStack /\ NoBlockTwice /\ CountsExact
    BY DEF PoolSound
  <1>2. b \in held /\ \A n \in 1 .. Len(stack) : stack[n] # b
    BY <1>1 DEF Deallocate, NoBlockTwice
  <1>3. /\ stack' \in Seq(Block) /\ Len(stack') = Len(stack) + 1 /\ Len(stack) \in Nat
        /\ stack'[1] = b
        /\ \A n \in 2 .. Len(stack') : n - 1 \in 1 .. Len(stack) /\ stack'[n] = stack[n - 1]
    BY <1>1 DEF TypeOK, Deallocate
  <1>4. IsFiniteSet(held \cup lost) /\ (held \cup lost) \ {b} = held' \cup lost'
    BY <1>1, <1>2, BlocksFinite DEF TypeOK, Deallocate, NoBlockTwice
  <1>5. /\ Cardinality(held' \cup lost') = Cardinality(held \cup lost) - 1
        /\ Cardinality(held \cup lost) \in Nat /\ Cardinality(held' \cup lost') \in Nat
    <2>1. b \in held \cup lost
      BY <1>2
    <2>2. IsFiniteSet((held \cup lost) \ {b})
      BY <1>4, FS_RemoveElement
    <2>3. Cardinality((held \cup lost) \ {b}) = Cardinality(held \cup lost) - 1
      BY <1>4, <2>1, FS_RemoveElement
    <2> QED
      BY <1>4, <2>2, <2>3, FS_CardinalityType
  <1>6. CountsExact' /\ allocated_' \in Nat
    BY <1>1, <1>3, <1>5 DEF CountsExact, Deallocate
  <1>7. TypeOK'
    BY <1>1, <1>3, <1>6 DEF TypeOK, Deallocate
  <1>8. ListIsStack'
    <2>1. free_list_' = FreeAt(1)'
      BY <1>3 DEF FreeAt, Deallocate
    <2>2. ASSUME NEW n \in 1 .. Len(stack') PROVE next'[stack'[n]] = FreeAt(n + 1)'
      <3>1. CASE n = 1
        <4>1. next'[b] = free_list_
          BY <1>1 DEF Deallocate, TypeOK
        <4>2. free_list_ = FreeAt(2)'
          BY <1>1, <1>3 DEF ListIsStack, FreeAt
        <4> QED
          BY <1>3, <3>1, <4>1, <4>2
      <3>2. CASE n # 1
        <4>1. n \in 2 .. Len(stack') /\ n - 1 \in 1 .. Len(stack) /\ stack'[n] = stack[n - 1]
          BY <1>3, <3>2
        <4>2. next'[stack'[n]] = next[stack[n - 1]]
          BY <1>1, <1>2, <4>1 DEF Deallocate, TypeOK
        <4>3. next[stack[n - 1]] = FreeAt(n)
          BY <1>1, <4>1 DEF ListIsStack
        <4>4. FreeAt(n) = FreeAt(n + 1)'
          BY <1>3, <4>1 DEF FreeAt
        <4> QED
          BY <4>2, <4>3, <4>4
      <3> QED
        BY <3>1, <3>2
    <2> QED
      BY <2>1, <2>2 DEF ListIsStack
  <1>9. NoBlockTwice'
    <2>1. \A n \in 1 .. Len(stack') : stack'[n] \notin held' \cup lost'
      BY <1>1, <1>2, <1>3 DEF NoBlockTwice, Deallocate
    <2>2. \A m, n \in 1 .. Len(stack') : stack'[m] = stack'[n] => m = n
      BY <1>1, <1>2, <1>3, SMTT(30) DEF NoBlockTwice
    <2>3. held' \cap lost' = {}
      BY <1>1 DEF NoBlockTwice, Deallocate
    <2> QED
      BY <2>1, <2>2, <2>3 DEF NoBlockTwice
  <1> QED
    BY <1>6, <1>7, <1>8, <1>9 DEF PoolSound

(* Every call keeps the invariant. *)
LEMMA NextPool == PoolSound /\ [Next]_vars => PoolSound'
  <1> SUFFICES ASSUME PoolSound, [Next]_vars PROVE PoolSound'
    OBVIOUS
  <1>1. TypeOK /\ NoBlockTwice
    BY DEF PoolSound
  <1>2. CASE UNCHANGED vars
    BY <1>2 DEF vars, PoolSound, TypeOK, ListIsStack, NoBlockTwice, CountsExact, FreeAt
  <1>3. CASE Allocate \/ AllocateThrows
    <2>1. TakeBlock /\ free_list_ # Null
      BY <1>3 DEF Allocate, AllocateThrows, TakeBlock
    <2>2. free_list_ \in Block /\ free_list_ \notin held \cup lost
      BY <2>1, HeadIsTop
    <2>3. next' \in {next, [next EXCEPT ![free_list_] = Data]}
      BY <1>3 DEF Allocate, AllocateThrows
    <2>4. held' \cup lost' = held \cup lost \cup {free_list_}
      BY <1>3 DEF Allocate, AllocateThrows
    <2>5. held' \cap lost' = {} /\ held' \in SUBSET Block /\ lost' \in SUBSET Block
      BY <1>1, <1>3, <2>2 DEF Allocate, AllocateThrows, TypeOK, NoBlockTwice
    <2> QED
      BY <2>1, <2>3, <2>4, <2>5, TakeBlockKeeps
  <1>4. CASE \E b \in Block : Deallocate(b)
    BY <1>4, DeallocateKeeps
  <1> QED
    BY <1>2, <1>3, <1>4 DEF Next, Exhausted

(* For every pool size and every sequence of allocate and deallocate, with
   constructors that throw: the free list is intact, no block is handed out
   twice, and allocated() and available() are exact. *)
THEOREM PoolAlwaysSound == Spec => []PoolSound
  BY InitPool, NextPool, PTL DEF Spec

-----------------------------------------------------------------------------
(* Sequences. *)

(* A sequence with x in front. *)
LEMMA InFrontFacts ==
    ASSUME NEW S, NEW s \in Seq(S), NEW x \in S
    PROVE  /\ <<x>> \o s \in Seq(S) /\ Len(<<x>> \o s) = Len(s) + 1 /\ Len(s) \in Nat
           /\ (<<x>> \o s)[1] = x
           /\ \A n \in 1 .. Len(s) : n + 1 \in 1 .. Len(s) + 1 /\ (<<x>> \o s)[n + 1] = s[n]
           /\ \A n \in 2 .. Len(s) + 1 : n - 1 \in 1 .. Len(s) /\ (<<x>> \o s)[n] = s[n - 1]
  <1>1. <<x>> \in Seq(S) /\ Len(<<x>>) = 1 /\ <<x>>[1] = x /\ Len(s) \in Nat
    BY LenProperties
  <1>2. /\ <<x>> \o s \in Seq(S) /\ Len(<<x>> \o s) = 1 + Len(s)
        /\ \A n \in 1 .. 1 + Len(s) : (<<x>> \o s)[n] = IF n <= 1 THEN <<x>>[n] ELSE s[n - 1]
    BY <1>1, ConcatProperties
  <1> QED
    BY <1>1, <1>2

(* A sequence without its m-th element. *)
LEMMA RemoveAtFacts ==
    ASSUME NEW S, NEW s \in Seq(S), NEW m \in 1 .. Len(s)
    PROVE  /\ RemoveAt(s, m) \in Seq(S) /\ Len(RemoveAt(s, m)) = Len(s) - 1 /\ Len(s) \in Nat
           /\ Len(RemoveAt(s, m)) \in Nat
           /\ \A n \in 1 .. Len(s) - 1 : /\ n \in 1 .. Len(s) /\ n + 1 \in 1 .. Len(s)
                                         /\ RemoveAt(s, m)[n] = IF n < m THEN s[n] ELSE s[n + 1]
  <1> DEFINE u == SubSeq(s, 1, m - 1)
             t == SubSeq(s, m + 1, Len(s))
  <1>1. Len(s) \in Nat /\ m \in Nat /\ m >= 1 /\ m <= Len(s)
    BY LenProperties
  <1>2. /\ u \in Seq(S) /\ Len(u) = m - 1
        /\ \A n \in 1 .. m - 1 : u[n] = s[n]
    <2>1. \A i \in 1 .. m - 1 : i \in 1 .. Len(s)
      BY <1>1
    <2>2. \A i \in 1 .. m - 1 : s[i] \in S
      BY <2>1, ElementOfSeq
    <2> QED
      BY <1>1, <2>1, <2>2, SubSeqProperties
  <1>3. /\ t \in Seq(S) /\ Len(t) = Len(s) - m
        /\ \A n \in 1 .. Len(s) - m : t[n] = s[m + n]
    <2>1. \A i \in m + 1 .. Len(s) : i \in 1 .. Len(s)
      BY <1>1
    <2>2. /\ t \in Seq(S) /\ Len(t) = IF m + 1 <= Len(s) THEN Len(s) - (m + 1) + 1 ELSE 0
          /\ \A i \in 1 .. Len(s) - (m + 1) + 1 : t[i] = s[(m + 1) + i - 1]
      BY <1>1, <2>1, SubSeqProperties
    <2> QED
      BY <1>1, <2>2
  <1> HIDE DEF u, t
  <1>4. /\ u \o t \in Seq(S) /\ Len(u \o t) = Len(u) + Len(t)
        /\ \A n \in 1 .. Len(u) + Len(t) : (u \o t)[n] = IF n <= Len(u) THEN u[n] ELSE t[n - Len(u)]
    BY <1>2, <1>3, ConcatProperties
  <1>5. RemoveAt(s, m) = u \o t
    BY DEF RemoveAt, u, t
  <1>6. ASSUME NEW n \in 1 .. Len(s) - 1 PROVE (u \o t)[n] = IF n < m THEN s[n] ELSE s[n + 1]
    <2>1. n \in 1 .. Len(u) + Len(t)
      BY <1>1, <1>2, <1>3
    <2>2. CASE n < m
      BY <1>1, <1>2, <1>4, <2>1, <2>2
    <2>3. CASE ~(n < m)
      <3>1. n - Len(u) \in 1 .. Len(s) - m /\ m + (n - Len(u)) = n + 1 /\ ~(n <= Len(u))
        BY <1>1, <1>2, <2>3
      <3> QED
        BY <1>3, <1>4, <2>1, <2>3, <3>1
    <2> QED
      BY <2>2, <2>3
  <1>7. Len(u) + Len(t) = Len(s) - 1 /\ Len(s) - 1 \in Nat
    BY <1>1, <1>2, <1>3
  <1>8. \A n \in 1 .. Len(s) - 1 : n \in 1 .. Len(s) /\ n + 1 \in 1 .. Len(s)
    BY <1>1
  <1> QED
    BY <1>1, <1>4, <1>5, <1>6, <1>7, <1>8

(* A sequence with its m-th element moved to the front, and sequences with the same
   elements. *)
ToFront(s, m) == <<s[m]>> \o RemoveAt(s, m)

Rearranged(t, s) ==
    /\ Len(t) = Len(s)
    /\ \A n \in 1 .. Len(s) : \E k \in 1 .. Len(s) : t[n] = s[k]
    /\ \A n \in 1 .. Len(s) : \E k \in 1 .. Len(s) : s[n] = t[k]

(* The element at the front, the others in their order. *)
LEMMA ToFrontFacts ==
    ASSUME NEW S, NEW s \in Seq(S), NEW m \in 1 .. Len(s)
    PROVE  /\ ToFront(s, m) \in Seq(S) /\ Len(ToFront(s, m)) = Len(s) /\ ToFront(s, m)[1] = s[m]
           /\ \A n \in 2 .. Len(s) : n - 1 \in 1 .. Len(s) /\ ToFront(s, m)[n] = IF n <= m THEN s[n - 1] ELSE s[n]
           /\ Rearranged(ToFront(s, m), s) /\ (m = 1 => ToFront(s, m) = s)
  <1> DEFINE r == RemoveAt(s, m)
             t == <<s[m]>> \o r
  <1>1. Len(s) \in Nat /\ m \in Nat /\ s[m] \in S /\ m <= Len(s) /\ m >= 1
    BY LenProperties, ElementOfSeq
  <1>2. /\ r \in Seq(S) /\ Len(r) = Len(s) - 1 /\ Len(r) \in Nat
        /\ \A n \in 1 .. Len(s) - 1 : r[n] = IF n < m THEN s[n] ELSE s[n + 1]
    BY RemoveAtFacts
  <1> HIDE DEF r
  <1>3. /\ t \in Seq(S) /\ Len(t) = Len(r) + 1 /\ t[1] = s[m]
        /\ \A n \in 2 .. Len(r) + 1 : n - 1 \in 1 .. Len(r) /\ t[n] = r[n - 1]
    BY <1>1, <1>2, InFrontFacts
  <1> HIDE DEF t
  <1>4. t \in Seq(S) /\ Len(t) = Len(s) /\ t[1] = s[m]
    BY <1>1, <1>2, <1>3
  <1>5. ASSUME NEW n \in 2 .. Len(s) PROVE n - 1 \in 1 .. Len(s) /\ t[n] = IF n <= m THEN s[n - 1] ELSE s[n]
    <2>1. n \in 2 .. Len(r) + 1 /\ n - 1 \in 1 .. Len(s) - 1 /\ n - 1 \in 1 .. Len(s) /\ (n - 1) + 1 = n
      BY <1>1, <1>2
    <2>2. t[n] = IF n - 1 < m THEN s[n - 1] ELSE s[n]
      BY <1>2, <1>3, <2>1
    <2>3. n - 1 < m <=> n <= m
      BY <1>1
    <2> QED
      BY <2>1, <2>2, <2>3
  <1>6. ASSUME NEW n \in 1 .. Len(s) PROVE \E k \in 1 .. Len(s) : t[n] = s[k]
    <2>1. CASE n = 1
      BY <1>4, <2>1
    <2>2. CASE n # 1
      <3>1. n \in 2 .. Len(s)
        BY <1>1, <2>2
      <3>2. n - 1 \in 1 .. Len(s) /\ (t[n] = s[n - 1] \/ t[n] = s[n])
        BY <1>5, <3>1
      <3> QED
        BY <3>2
    <2> QED
      BY <2>1, <2>2
  <1>7. ASSUME NEW n \in 1 .. Len(s) PROVE \E k \in 1 .. Len(s) : s[n] = t[k]
    <2>1. CASE n = m
      <3>1. 1 \in 1 .. Len(s)
        BY <1>1
      <3> QED
        BY <1>4, <2>1, <3>1
    <2>2. CASE n < m
      <3>1. n + 1 \in 2 .. Len(s) /\ n + 1 \in 1 .. Len(s) /\ n + 1 <= m /\ (n + 1) - 1 = n
        BY <1>1, <2>2
      <3>2. t[n + 1] = s[n]
        BY <1>5, <3>1
      <3> QED
        BY <3>1, <3>2
    <2>3. CASE n > m
      <3>1. n \in 2 .. Len(s) /\ ~(n <= m)
        BY <1>1, <2>3
      <3>2. t[n] = s[n]
        BY <1>5, <3>1
      <3> QED
        BY <3>2
    <2> QED
      BY <1>1, <2>1, <2>2, <2>3
  <1>8. ASSUME m = 1 PROVE t = s
    <2>1. ASSUME NEW n \in 1 .. Len(s) PROVE t[n] = s[n]
      <3>1. CASE n = 1
        BY <1>4, <1>8, <3>1
      <3>2. CASE n # 1
        <4>1. n \in 2 .. Len(s) /\ ~(n <= m)
          BY <1>1, <1>8, <3>2
        <4> QED
          BY <1>5, <4>1
      <3> QED
        BY <3>1, <3>2
    <2> QED
      BY <1>4, <2>1, SeqEqual
  <1>9. Rearranged(t, s)
    BY <1>4, <1>6, <1>7 DEF Rearranged
  <1> QED
    BY <1>4, <1>5, <1>8, <1>9 DEF t, r, ToFront

-----------------------------------------------------------------------------
(* Linked nodes. *)

(* A sequence t that is s with x put in at place i. *)
PutIn(t, S, s, i, x) ==
    /\ t \in Seq(S) /\ Len(t) = Len(s) + 1 /\ Len(s) \in Nat /\ t[i] = x
    /\ \A n \in 1 .. i - 1 : n \in 1 .. Len(s) /\ t[n] = s[n]
    /\ \A n \in i + 1 .. Len(s) + 1 : n - 1 \in 1 .. Len(s) /\ t[n] = s[n - 1]

(* InsertAt of the community modules puts its element in. *)
LEMMA InsertAtFacts ==
    ASSUME NEW S, NEW s \in Seq(S), NEW i \in 1 .. Len(s) + 1, NEW x \in S
    PROVE  PutIn(InsertAt(s, i, x), S, s, i, x)
  <1> DEFINE u == SubSeq(s, 1, i - 1)
             w == u \o <<x>>
             t == SubSeq(s, i, Len(s))
  <1>1. Len(s) \in Nat /\ i \in Nat /\ i >= 1 /\ i <= Len(s) + 1
    BY LenProperties
  <1>2. u \in Seq(S) /\ Len(u) = i - 1 /\ \A n \in 1 .. i - 1 : u[n] = s[n]
    <2>1. \A n \in 1 .. i - 1 : n \in 1 .. Len(s)
      BY <1>1
    <2>2. \A n \in 1 .. i - 1 : s[n] \in S
      BY <2>1, ElementOfSeq
    <2> QED
      BY <1>1, <2>1, <2>2, SubSeqProperties
  <1>3. t \in Seq(S) /\ Len(t) = Len(s) + 1 - i /\ \A n \in 1 .. Len(s) + 1 - i : t[n] = s[(i + n) - 1]
    <2>1. \A n \in i .. Len(s) : n \in 1 .. Len(s)
      BY <1>1
    <2>2. /\ t \in Seq(S) /\ Len(t) = IF i <= Len(s) THEN Len(s) - i + 1 ELSE 0
          /\ \A n \in 1 .. Len(s) - i + 1 : t[n] = s[i + n - 1]
      BY <1>1, <2>1, SubSeqProperties
    <2> QED
      BY <1>1, <2>2
  <1>4. <<x>> \in Seq(S) /\ Len(<<x>>) = 1 /\ <<x>>[1] = x
    BY LenProperties
  <1> HIDE DEF u, t
  <1>5. /\ w \in Seq(S) /\ Len(w) = i
        /\ \A n \in 1 .. i : w[n] = IF n <= Len(u) THEN u[n] ELSE <<x>>[n - Len(u)]
    BY <1>1, <1>2, <1>4, ConcatProperties
  <1>6. w[i] = x /\ \A n \in 1 .. i - 1 : w[n] = s[n]
    BY <1>1, <1>2, <1>4, <1>5
  <1> HIDE DEF w
  <1>7. /\ w \o t \in Seq(S) /\ Len(w \o t) = Len(w) + Len(t)
        /\ \A n \in 1 .. Len(w) + Len(t) : (w \o t)[n] = IF n <= Len(w) THEN w[n] ELSE t[n - Len(w)]
    BY <1>3, <1>5, ConcatProperties
  <1>8. InsertAt(s, i, x) = w \o t
    BY DEF InsertAt, u, w, t
  <1>9. Len(w) + Len(t) = Len(s) + 1 /\ i \in 1 .. Len(w) + Len(t) /\ i <= Len(w)
    BY <1>1, <1>3, <1>5
  <1>10. ASSUME NEW n \in 1 .. i - 1 PROVE n \in 1 .. Len(s) /\ (w \o t)[n] = s[n]
    <2>1. n \in 1 .. Len(w) + Len(t) /\ n <= Len(w) /\ n \in 1 .. Len(s)
      BY <1>1, <1>5, <1>9
    <2> QED
      BY <1>6, <1>7, <2>1
  <1>11. ASSUME NEW n \in i + 1 .. Len(s) + 1 PROVE n - 1 \in 1 .. Len(s) /\ (w \o t)[n] = s[n - 1]
    <2>1. /\ n \in 1 .. Len(w) + Len(t) /\ ~(n <= Len(w)) /\ n - 1 \in 1 .. Len(s)
          /\ n - Len(w) \in 1 .. Len(s) + 1 - i /\ (i + (n - Len(w))) - 1 = n - 1
      BY <1>1, <1>5, <1>9
    <2> QED
      BY <1>3, <1>7, <2>1
  <1> QED
    BY <1>1, <1>6, <1>7, <1>8, <1>9, <1>10, <1>11 DEF PutIn

(* Both ends: x before, or after, all of s. *)
LEMMA InsertAtEnds ==
    ASSUME NEW S, NEW s \in Seq(S), NEW x \in S
    PROVE  InsertAt(s, 1, x) = <<x>> \o s /\ InsertAt(s, Len(s) + 1, x) = Append(s, x)
  <1>1. Len(s) \in Nat /\ 1 \in 1 .. Len(s) + 1 /\ Len(s) + 1 \in 1 .. Len(s) + 1
    BY LenProperties
  <1>2. InsertAt(s, 1, x) = <<x>> \o s
    <2> DEFINE t == InsertAt(s, 1, x)
               u == <<x>> \o s
    <2>1. /\ t \in Seq(S) /\ Len(t) = Len(s) + 1 /\ t[1] = x
          /\ \A n \in 1 + 1 .. Len(s) + 1 : t[n] = s[n - 1]
      <3>1. PutIn(t, S, s, 1, x)
        BY <1>1, InsertAtFacts
      <3> HIDE DEF t
      <3> QED
        BY <3>1 DEF PutIn
    <2>2. /\ u \in Seq(S) /\ Len(u) = Len(s) + 1 /\ u[1] = x
          /\ \A n \in 2 .. Len(s) + 1 : u[n] = s[n - 1]
      BY InFrontFacts
    <2> HIDE DEF t, u
    <2>3. ASSUME NEW n \in 1 .. Len(t) PROVE t[n] = u[n]
      <3>1. n = 1 \/ n \in 2 .. Len(s) + 1
        BY <1>1, <2>1
      <3> QED
        BY <2>1, <2>2, <3>1
    <2>4. t = u
      BY <2>1, <2>2, <2>3, SeqEqual
    <2> QED
      BY <2>4 DEF t, u
  <1>3. InsertAt(s, Len(s) + 1, x) = Append(s, x)
    <2> DEFINE t == InsertAt(s, Len(s) + 1, x)
               u == Append(s, x)
    <2>1. /\ t \in Seq(S) /\ Len(t) = Len(s) + 1 /\ t[Len(s) + 1] = x
          /\ \A n \in 1 .. (Len(s) + 1) - 1 : t[n] = s[n]
      <3>1. PutIn(t, S, s, Len(s) + 1, x)
        BY <1>1, InsertAtFacts
      <3> HIDE DEF t
      <3> QED
        BY <3>1 DEF PutIn
    <2>2. /\ u \in Seq(S) /\ Len(u) = Len(s) + 1 /\ u[Len(s) + 1] = x
          /\ \A n \in 1 .. Len(s) : u[n] = s[n]
      BY AppendProperties
    <2> HIDE DEF t, u
    <2>3. ASSUME NEW n \in 1 .. Len(t) PROVE t[n] = u[n]
      <3>1. n = Len(s) + 1 \/ (n \in 1 .. Len(s) /\ n \in 1 .. (Len(s) + 1) - 1)
        BY <1>1, <2>1
      <3> QED
        BY <2>1, <2>2, <3>1
    <2>4. t = u
      BY <2>1, <2>2, <2>3, SeqEqual
    <2> QED
      BY <2>4 DEF t, u
  <1> QED
    BY <1>2, <1>3

(* Both ends: s without its first, or its last, element. *)
LEMMA RemoveAtEnds ==
    ASSUME NEW S, NEW s \in Seq(S), s # <<>>
    PROVE  RemoveAt(s, 1) = Tail(s) /\ RemoveAt(s, Len(s)) = Front(s)
  <1>1. Len(s) \in Nat /\ Len(s) # 0 /\ 1 \in 1 .. Len(s) /\ Len(s) \in 1 .. Len(s)
    BY LenProperties, EmptySeq
  <1>2. RemoveAt(s, 1) = Tail(s)
    <2> DEFINE t == RemoveAt(s, 1)
               u == Tail(s)
    <2>1. /\ t \in Seq(S) /\ Len(t) = Len(s) - 1
          /\ \A n \in 1 .. Len(s) - 1 : t[n] = IF n < 1 THEN s[n] ELSE s[n + 1]
      BY <1>1, RemoveAtFacts
    <2>2. /\ u \in Seq(S) /\ Len(u) = Len(s) - 1
          /\ \A n \in 1 .. Len(s) - 1 : u[n] = s[n + 1]
      BY <1>1, HeadTailProperties
    <2> HIDE DEF t, u
    <2>3. ASSUME NEW n \in 1 .. Len(t) PROVE t[n] = u[n]
      <3>1. n \in 1 .. Len(s) - 1 /\ ~ n < 1
        BY <1>1, <2>1
      <3>2. t[n] = s[n + 1]
        BY <2>1, <3>1
      <3> QED
        BY <2>2, <3>1, <3>2
    <2>4. t = u
      BY <2>1, <2>2, <2>3, SeqEqual
    <2> QED
      BY <2>4 DEF t, u
  <1>3. RemoveAt(s, Len(s)) = Front(s)
    <2> DEFINE t == RemoveAt(s, Len(s))
               u == Front(s)
    <2>1. /\ t \in Seq(S) /\ Len(t) = Len(s) - 1
          /\ \A n \in 1 .. Len(s) - 1 : t[n] = IF n < Len(s) THEN s[n] ELSE s[n + 1]
      BY <1>1, RemoveAtFacts
    <2>2. /\ u \in Seq(S) /\ Len(u) = Len(s) - 1
          /\ \A n \in 1 .. Len(s) - 1 : u[n] = s[n]
      <3>1. \A n \in 1 .. Len(s) - 1 : n \in 1 .. Len(s)
        BY <1>1
      <3>2. /\ u \in Seq(S) /\ Len(u) = IF 1 <= Len(s) - 1 THEN (Len(s) - 1) - 1 + 1 ELSE 0
            /\ \A n \in 1 .. (Len(s) - 1) - 1 + 1 : u[n] = s[1 + n - 1]
        BY <1>1, <3>1, SubSeqProperties DEF Front
      <3> HIDE DEF u
      <3>3. Len(u) = Len(s) - 1 /\ (Len(s) - 1) - 1 + 1 = Len(s) - 1
        <4>1. Len(u) = IF 1 <= Len(s) - 1 THEN (Len(s) - 1) - 1 + 1 ELSE 0
          BY <3>2
        <4>2. Len(s) \in Nat /\ Len(s) # 0
          BY <1>1
        <4> QED
          BY ONLY <4>1, <4>2
      <3>4. \A n \in 1 .. Len(s) - 1 : 1 + n - 1 = n
        OBVIOUS
      <3> QED
        BY <3>2, <3>3, <3>4
    <2> HIDE DEF t, u
    <2>3. ASSUME NEW n \in 1 .. Len(t) PROVE t[n] = u[n]
      <3>1. n \in 1 .. Len(s) - 1 /\ n < Len(s)
        BY <1>1, <2>1
      <3>2. t[n] = s[n]
        BY <2>1, <3>1
      <3> QED
        BY <2>2, <3>1, <3>2
    <2>4. t = u
      BY <2>1, <2>2, <2>3, SeqEqual
    <2> QED
      BY <2>4 DEF t, u
  <1> QED
    BY <1>2, <1>3

-----------------------------------------------------------------------------
(* Doubly linked nodes.  s is the sequence of their addresses, h their heap and null
   the null pointer: prev and next of each node are its neighbours. *)
Beside(null, s, n) == IF n \in 1 .. Len(s) THEN s[n] ELSE null

Linked(null, h, first, last, s) ==
    /\ \A m, n \in 1 .. Len(s) : s[m] = s[n] => m = n
    /\ first = Beside(null, s, 1) /\ last = Beside(null, s, Len(s))
    /\ \A n \in 1 .. Len(s) : /\ h[s[n]].prev = Beside(null, s, n - 1)
                              /\ h[s[n]].next = Beside(null, s, n + 1)

(* g differs from h in the pointers that link a in before the i-th node. *)
LinkedIn(null, g, h, s, i, a) ==
    /\ g[a].prev = Beside(null, s, i - 1) /\ g[a].next = Beside(null, s, i)
    /\ \A n \in 1 .. Len(s) :
           /\ g[s[n]].prev = IF n = i THEN a ELSE h[s[n]].prev
           /\ g[s[n]].next = IF n = i - 1 THEN a ELSE h[s[n]].next

(* g differs from h in the pointers that lead past the m-th node. *)
LinkedPast(null, g, h, s, m) ==
    \A n \in 1 .. Len(s) : n # m =>
        /\ g[s[n]].prev = IF n = m + 1 THEN Beside(null, s, m - 1) ELSE h[s[n]].prev
        /\ g[s[n]].next = IF n = m - 1 THEN Beside(null, s, m + 1) ELSE h[s[n]].next

(* The pointers beside a node are null or addresses. *)
LEMMA BesideType ==
    ASSUME NEW A, NEW null, NEW s \in Seq(A), NEW n
    PROVE  Beside(null, s, n) \in A \cup {null} /\ (null \notin A => (Beside(null, s, n) # null <=> n \in 1 .. Len(s)))
  BY ElementOfSeq DEF Beside

(* Linking a node in. *)
LEMMA LinkInsert ==
    ASSUME NEW A, NEW null, NEW h, NEW first, NEW last, NEW s \in Seq(A), Linked(null, h, first, last, s),
           NEW i \in 1 .. Len(s) + 1, NEW a \in A, \A n \in 1 .. Len(s) : s[n] # a,
           NEW g, LinkedIn(null, g, h, s, i, a)
    PROVE  Linked(null, g, IF i = 1 THEN a ELSE first, IF i = Len(s) + 1 THEN a ELSE last, InsertAt(s, i, a))
  <1> DEFINE t == InsertAt(s, i, a)
  <1>1. /\ t \in Seq(A) /\ Len(t) = Len(s) + 1 /\ Len(s) \in Nat /\ t[i] = a
        /\ \A n \in 1 .. i - 1 : n \in 1 .. Len(s) /\ t[n] = s[n]
        /\ \A n \in i + 1 .. Len(s) + 1 : n - 1 \in 1 .. Len(s) /\ t[n] = s[n - 1]
    <2>1. s \in Seq(A) /\ i \in 1 .. Len(s) + 1 /\ a \in A
      OBVIOUS
    <2>2. PutIn(t, A, s, i, a)
      BY ONLY <2>1, InsertAtFacts
    <2> HIDE DEF t
    <2> QED
      BY <2>2 DEF PutIn
  <1> HIDE DEF t
  <1>2. i \in Nat /\ i >= 1 /\ i <= Len(s) + 1 /\ i \in 1 .. Len(t)
    BY <1>1
  <1>3. \A n \in 1 .. Len(t) : n = i \/ n \in 1 .. i - 1 \/ n \in i + 1 .. Len(s) + 1
    BY <1>1, <1>2
  <1>4. \A n \in 1 .. Len(s) : (n < i => t[n] = s[n]) /\ (n >= i => t[n + 1] = s[n])
    <2> SUFFICES ASSUME NEW n \in 1 .. Len(s) PROVE (n < i => t[n] = s[n]) /\ (n >= i => t[n + 1] = s[n])
      OBVIOUS
    <2>1. ASSUME n < i PROVE t[n] = s[n]
      <3>1. n \in 1 .. i - 1
        BY <1>2, <2>1
      <3> QED
        BY <1>1, <3>1
    <2>2. ASSUME n >= i PROVE t[n + 1] = s[n]
      <3>1. n + 1 \in i + 1 .. Len(s) + 1 /\ (n + 1) - 1 = n
        BY <1>1, <1>2, <2>2
      <3> QED
        BY <1>1, <3>1
    <2> QED
      BY <2>1, <2>2
  <1>5. ASSUME NEW m \in 1 .. Len(t), NEW n \in 1 .. Len(t), t[m] = t[n] PROVE m = n
    <2>1. \A x, y \in 1 .. Len(s) : s[x] = s[y] => x = y
      BY DEF Linked
    <2>2. CASE m = i \/ n = i
      BY <1>1, <1>3, <1>5, <2>2
    <2>3. CASE m \in 1 .. i - 1 /\ n \in 1 .. i - 1
      BY <1>1, <1>5, <2>1, <2>3
    <2>4. CASE m \in i + 1 .. Len(s) + 1 /\ n \in i + 1 .. Len(s) + 1
      <3>1. m - 1 = n - 1
        BY <1>1, <1>5, <2>1, <2>4
      <3> QED
        BY <3>1
    <2>5. CASE m \in 1 .. i - 1 /\ n \in i + 1 .. Len(s) + 1
      <3>1. m = n - 1
        BY <1>1, <1>5, <2>1, <2>5
      <3> QED
        BY <1>2, <2>5, <3>1
    <2>6. CASE n \in 1 .. i - 1 /\ m \in i + 1 .. Len(s) + 1
      <3>1. n = m - 1
        BY <1>1, <1>5, <2>1, <2>6
      <3> QED
        BY <1>2, <2>6, <3>1
    <2> QED
      BY <1>3, <2>2, <2>3, <2>4, <2>5, <2>6
  \* The neighbours in t: those of s, and a on both sides of its place.
  <1>6. \A n \in Int : /\ n < i => Beside(null, t, n) = Beside(null, s, n)
                       /\ n = i => Beside(null, t, n) = a
                       /\ n > i => Beside(null, t, n) = Beside(null, s, n - 1)
    <2> SUFFICES ASSUME NEW n \in Int
                 PROVE  /\ n < i => Beside(null, t, n) = Beside(null, s, n)
                        /\ n = i => Beside(null, t, n) = a
                        /\ n > i => Beside(null, t, n) = Beside(null, s, n - 1)
      OBVIOUS
    <2>1. ASSUME n < i PROVE Beside(null, t, n) = Beside(null, s, n)
      <3>1. n \in 1 .. Len(t) <=> n \in 1 .. Len(s)
        BY <1>1, <1>2, <2>1
      <3> QED
        BY <1>4, <2>1, <3>1 DEF Beside
    <2>2. n = i => Beside(null, t, n) = a
      BY <1>1, <1>2 DEF Beside
    <2>3. ASSUME n > i PROVE Beside(null, t, n) = Beside(null, s, n - 1)
      <3>1. (n \in 1 .. Len(t) <=> n - 1 \in 1 .. Len(s)) /\ n - 1 >= i /\ (n - 1) + 1 = n
        BY <1>1, <1>2, <2>3
      <3> QED
        BY <1>4, <3>1 DEF Beside
    <2> QED
      BY <2>1, <2>2, <2>3
  <1>7. (IF i = 1 THEN a ELSE first) = Beside(null, t, 1)
    <2>1. i = 1 \/ 1 < i
      BY <1>2
    <2> QED
      BY <1>6, <2>1 DEF Linked
  <1>8. (IF i = Len(s) + 1 THEN a ELSE last) = Beside(null, t, Len(t))
    <2>1. CASE i = Len(s) + 1
      BY <1>1, <1>6, <2>1
    <2>2. CASE i # Len(s) + 1
      <3>1. Len(t) \in Int /\ Len(t) > i /\ Len(t) - 1 = Len(s)
        BY <1>1, <1>2, <2>2
      <3> QED
        BY <1>6, <2>2, <3>1 DEF Linked
    <2> QED
      BY <2>1, <2>2
  <1>9. ASSUME NEW n \in 1 .. Len(t)
        PROVE  g[t[n]].prev = Beside(null, t, n - 1) /\ g[t[n]].next = Beside(null, t, n + 1)
    <2>1. \A k \in 1 .. Len(s) : h[s[k]].prev = Beside(null, s, k - 1) /\ h[s[k]].next = Beside(null, s, k + 1)
      BY DEF Linked
    <2>2. CASE n = i
      <3>1. i - 1 < i /\ i + 1 > i /\ (i + 1) - 1 = i /\ i - 1 \in Int /\ i + 1 \in Int
        BY <1>2
      <3>2. Beside(null, t, i - 1) = Beside(null, s, i - 1) /\ Beside(null, t, i + 1) = Beside(null, s, i)
        BY <1>6, <3>1
      <3> QED
        BY <1>1, <2>2, <3>2 DEF LinkedIn
    <2>3. CASE n \in 1 .. i - 1
      <3>1. n \in 1 .. Len(s) /\ t[n] = s[n] /\ n # i /\ n - 1 < i /\ n - 1 \in Int /\ n + 1 \in Int
        BY <1>1, <1>2, <2>3
      <3>2. g[t[n]].prev = Beside(null, t, n - 1)
        BY <1>6, <2>1, <3>1 DEF LinkedIn
      <3>3. n = i - 1 => n + 1 = i
        BY <1>2
      <3>4. n # i - 1 => n + 1 < i
        BY <1>2, <2>3
      <3>5. g[t[n]].next = Beside(null, t, n + 1)
        BY <1>6, <2>1, <3>1, <3>3, <3>4 DEF LinkedIn
      <3> QED
        BY <3>2, <3>5
    <2>4. CASE n \in i + 1 .. Len(s) + 1
      <3>1. n - 1 \in 1 .. Len(s) /\ t[n] = s[n - 1]
        BY <1>1, <2>4
      <3>2. n - 1 # i - 1 /\ n + 1 > i /\ n + 1 \in Int /\ (n + 1) - 1 = (n - 1) + 1
        BY <1>2, <2>4
      <3>3. g[t[n]].next = Beside(null, t, n + 1)
        BY <1>6, <2>1, <3>1, <3>2 DEF LinkedIn
      <3>4. n - 1 \in Int /\ (n - 1 # i => n - 1 > i)
        BY <1>2, <2>4
      <3>5. g[t[n]].prev = Beside(null, t, n - 1)
        BY <1>6, <2>1, <3>1, <3>4, SMTT(60) DEF LinkedIn
      <3> QED
        BY <3>3, <3>5
    <2> QED
      BY <1>3, <2>2, <2>3, <2>4
  <1> QED
    BY <1>5, <1>7, <1>8, <1>9 DEF Linked, t

(* Leading the pointers past a node. *)
LEMMA LinkRemove ==
    ASSUME NEW A, NEW null, NEW h, NEW first, NEW last, NEW s \in Seq(A), Linked(null, h, first, last, s),
           NEW m \in 1 .. Len(s), NEW g, LinkedPast(null, g, h, s, m)
    PROVE  Linked(null, g, IF m = 1 THEN Beside(null, s, 2) ELSE first,
                  IF m = Len(s) THEN Beside(null, s, m - 1) ELSE last, RemoveAt(s, m))
  <1> DEFINE t == RemoveAt(s, m)
  <1>1. /\ t \in Seq(A) /\ Len(t) = Len(s) - 1 /\ Len(t) \in Nat /\ Len(s) \in Nat
        /\ \A n \in 1 .. Len(t) : /\ n \in 1 .. Len(s) /\ n + 1 \in 1 .. Len(s)
                                  /\ t[n] = IF n < m THEN s[n] ELSE s[n + 1]
    BY RemoveAtFacts
  <1> HIDE DEF t
  <1>2. m \in Nat /\ m >= 1 /\ m <= Len(s)
    BY <1>1
  <1>3. \A i, j \in 1 .. Len(s) : s[i] = s[j] => i = j
    BY DEF Linked
  <1>4. ASSUME NEW i \in 1 .. Len(t), NEW j \in 1 .. Len(t), t[i] = t[j] PROVE i = j
    BY <1>1, <1>2, <1>3, <1>4
  <1>5. \A n \in Int : /\ n < m => Beside(null, t, n) = Beside(null, s, n)
                       /\ n >= m => Beside(null, t, n) = Beside(null, s, n + 1)
    <2> SUFFICES ASSUME NEW n \in Int
                 PROVE  /\ n < m => Beside(null, t, n) = Beside(null, s, n)
                        /\ n >= m => Beside(null, t, n) = Beside(null, s, n + 1)
      OBVIOUS
    <2>1. ASSUME n < m PROVE Beside(null, t, n) = Beside(null, s, n)
      <3>1. n \in 1 .. Len(t) <=> n \in 1 .. Len(s)
        BY <1>1, <1>2, <2>1
      <3> QED
        BY <1>1, <2>1, <3>1 DEF Beside
    <2>2. ASSUME n >= m PROVE Beside(null, t, n) = Beside(null, s, n + 1)
      <3>1. (n \in 1 .. Len(t) <=> n + 1 \in 1 .. Len(s)) /\ ~(n < m)
        BY <1>1, <1>2, <2>2
      <3> QED
        BY <1>1, <3>1 DEF Beside
    <2> QED
      BY <2>1, <2>2
  <1>6. (IF m = 1 THEN Beside(null, s, 2) ELSE first) = Beside(null, t, 1)
    <2>1. (m = 1 /\ 1 >= m /\ 1 + 1 = 2) \/ (m # 1 /\ 1 < m)
      BY <1>2
    <2> QED
      BY <1>5, <2>1, SMTT(60) DEF Linked
  <1>7. (IF m = Len(s) THEN Beside(null, s, m - 1) ELSE last) = Beside(null, t, Len(t))
    <2>1. Len(t) \in Int /\ (m = Len(s) => Len(t) = m - 1 /\ Len(t) < m) /\ (m # Len(s) => Len(t) >= m /\ Len(t) + 1 = Len(s))
      BY <1>1, <1>2
    <2>2. CASE m = Len(s)
      <3>1. Len(t) < m /\ Len(t) = m - 1
        BY <2>1, <2>2
      <3>2. Beside(null, t, Len(t)) = Beside(null, s, Len(t))
        BY <1>5, <2>1, <3>1
      <3> QED
        BY <2>2, <3>1, <3>2
    <2>3. CASE m # Len(s)
      <3>1. Beside(null, t, Len(t)) = Beside(null, s, Len(s))
        BY <1>5, <2>1, <2>3
      <3> QED
        BY <2>3, <3>1 DEF Linked
    <2> QED
      BY <2>2, <2>3
  <1>8. ASSUME NEW n \in 1 .. Len(t)
        PROVE  g[t[n]].prev = Beside(null, t, n - 1) /\ g[t[n]].next = Beside(null, t, n + 1)
    <2>1. \A k \in 1 .. Len(s) : h[s[k]].prev = Beside(null, s, k - 1) /\ h[s[k]].next = Beside(null, s, k + 1)
      BY DEF Linked
    <2>2. CASE n < m
      <3>1. n \in 1 .. Len(s) /\ t[n] = s[n] /\ n # m /\ n # m + 1 /\ n - 1 < m /\ n - 1 \in Int /\ n + 1 \in Int
        BY <1>1, <1>2, <2>2
      <3>2. g[t[n]].prev = Beside(null, t, n - 1)
        BY <1>5, <2>1, <3>1 DEF LinkedPast
      <3>3. (n = m - 1 => n + 1 >= m /\ (n + 1) + 1 = m + 1) /\ (n # m - 1 => n + 1 < m)
        BY <1>2, <2>2
      <3>4. g[t[n]].next = Beside(null, t, n + 1)
        BY <1>5, <2>1, <3>1, <3>3, SMTT(60) DEF LinkedPast
      <3> QED
        BY <3>2, <3>4
    <2>3. CASE ~(n < m)
      <3> DEFINE k == n + 1
      <3>1. k \in 1 .. Len(s) /\ t[n] = s[k]
        BY <1>1, <2>3
      <3>2. k # m /\ k # m - 1 /\ k >= m /\ k \in Int /\ n - 1 \in Int
        BY <1>2, <2>3
      <3>3. g[t[n]].next = Beside(null, t, n + 1)
        BY <1>5, <2>1, <3>1, <3>2, ZenonT(60) DEF LinkedPast
      <3>4. (k = m + 1 => n - 1 < m /\ n - 1 = m - 1) /\ (k # m + 1 => n - 1 >= m) /\ (n - 1) + 1 = k - 1
        BY <1>2, <2>3
      <3>5. Beside(null, t, n - 1) = IF k = m + 1 THEN Beside(null, s, m - 1) ELSE Beside(null, s, k - 1)
        BY <1>5, <3>2, <3>4
      <3> HIDE DEF k
      <3>6. g[s[k]].prev = IF k = m + 1 THEN Beside(null, s, m - 1) ELSE Beside(null, s, k - 1)
        BY <2>1, <3>1, <3>2 DEF LinkedPast
      <3> QED
        BY <3>1, <3>3, <3>5, <3>6
    <2> QED
      BY <2>2, <2>3
  <1> QED
    BY <1>4, <1>6, <1>7, <1>8 DEF Linked, t

-----------------------------------------------------------------------------
(* The walk along next, from the first node and for at most N hops: the recursive
   function behind NodesFrom and NodesOf. *)
NextOf(null, free, h, p) == IF p = null THEN null ELSE IF h[p] = free THEN null ELSE h[p].next
Walks(null, free, h, first, N, g) ==
    g = [n \in 1 .. N + 1 |-> IF n = 1 THEN first ELSE NextOf(null, free, h, g[n - 1])]

Walk(null, free, h, first, N) == CHOOSE g : Walks(null, free, h, first, N, g)
Visited(null, g) == [n \in 1 .. Cardinality({n \in DOMAIN g : g[n] # null}) |-> g[n]]

NoneFree(free, h, s) == \A n \in 1 .. Len(s) : h[s[n]] # free

(* One hop of the walk. *)
LEMMA NextHop ==
    ASSUME NEW A, NEW null, null \notin A, NEW free, NEW h, NEW first, NEW last, NEW s \in Seq(A),
           Linked(null, h, first, last, s), NoneFree(free, h, s), NEW n \in Nat \ {0}
    PROVE  NextOf(null, free, h, Beside(null, s, n)) = Beside(null, s, n + 1)
  <1>1. Len(s) \in Nat /\ \A k \in 1 .. Len(s) : s[k] \in A
    BY LenProperties, ElementOfSeq
  <1>2. CASE n \in 1 .. Len(s)
    <2>1. Beside(null, s, n) = s[n] /\ s[n] # null /\ h[s[n]] # free
      BY <1>1, <1>2 DEF Beside, NoneFree
    <2>2. h[s[n]].next = Beside(null, s, n + 1)
      BY <1>2 DEF Linked
    <2> QED
      BY <2>1, <2>2 DEF NextOf
  <1>3. CASE n \notin 1 .. Len(s)
    <2>1. n + 1 \notin 1 .. Len(s)
      BY <1>1, <1>3
    <2> QED
      BY <1>3, <2>1 DEF NextOf, Beside
  <1> QED
    BY <1>2, <1>3

(* It visits the nodes in order and then stays at the null pointer. *)
LEMMA WalkVisits ==
    ASSUME NEW A, NEW null, null \notin A, NEW free, NEW h, NEW first, NEW last, NEW s \in Seq(A),
           Linked(null, h, first, last, s), NoneFree(free, h, s), NEW N \in Nat,
           NEW g, Walks(null, free, h, first, N, g)
    PROVE  \A n \in 1 .. N + 1 : g[n] = Beside(null, s, n)
  <1> DEFINE Wrong == {n \in 1 .. N + 1 : g[n] # Beside(null, s, n)}
  <1> SUFFICES ASSUME Wrong # {} PROVE FALSE
    OBVIOUS
  <1>1. Wrong \in SUBSET Nat
    OBVIOUS
  <1>2. PICK n \in Wrong : \A m \in Wrong : ~(m < n)
    BY <1>1, LeastNumber
  <1>3. n \in 1 .. N + 1 /\ g[n] # Beside(null, s, n)
    BY <1>2
  <1>4. g[n] = IF n = 1 THEN first ELSE NextOf(null, free, h, g[n - 1])
    BY <1>3 DEF Walks
  <1>5. n # 1
    BY <1>3, <1>4 DEF Linked
  <1>6. n - 1 \in 1 .. N + 1 /\ n - 1 < n /\ n - 1 \in Nat \ {0} /\ (n - 1) + 1 = n
    BY <1>3, <1>5
  <1>7. g[n - 1] = Beside(null, s, n - 1)
    BY <1>2, <1>6
  <1> HIDE DEF Wrong
  <1>8. NextOf(null, free, h, Beside(null, s, n - 1)) = Beside(null, s, (n - 1) + 1)
    BY <1>6, NextHop
  <1> QED
    BY <1>3, <1>4, <1>5, <1>6, <1>7, <1>8

(* So it collects the nodes of the list, if it is long enough. *)
LEMMA WalkCollects ==
    ASSUME NEW A, NEW null, null \notin A, NEW free, NEW h, NEW first, NEW last, NEW s \in Seq(A),
           Linked(null, h, first, last, s), NoneFree(free, h, s), NEW N \in Nat, Len(s) <= N
    PROVE  Visited(null, Walk(null, free, h, first, N)) = s
  <1> DEFINE g == Walk(null, free, h, first, N)
             w == [n \in 1 .. N + 1 |-> Beside(null, s, n)]
             visited == {n \in DOMAIN g : g[n] # null}
  <1>1. Len(s) \in Nat /\ \A k \in 1 .. Len(s) : s[k] \in A
    BY LenProperties, ElementOfSeq
  <1>2. Walks(null, free, h, first, N, w)
    <2>1. ASSUME NEW n \in 1 .. N + 1 PROVE w[n] = IF n = 1 THEN first ELSE NextOf(null, free, h, w[n - 1])
      <3>1. CASE n = 1
        BY <3>1 DEF Linked
      <3>2. CASE n # 1
        <4>1. n - 1 \in 1 .. N + 1 /\ n - 1 \in Nat \ {0} /\ (n - 1) + 1 = n
          BY <3>2
        <4>2. NextOf(null, free, h, Beside(null, s, n - 1)) = Beside(null, s, (n - 1) + 1)
          BY <4>1, NextHop
        <4> QED
          BY <3>2, <4>1, <4>2
      <3> QED
        BY <3>1, <3>2
    <2> QED
      BY <2>1 DEF Walks
  <1>3. Walks(null, free, h, first, N, g)
    BY <1>2 DEF Walk
  <1> HIDE DEF g, w
  <1>4. \A n \in 1 .. N + 1 : g[n] = Beside(null, s, n)
    <2>1. s \in Seq(A) /\ null \notin A /\ Linked(null, h, first, last, s) /\ NoneFree(free, h, s) /\ N \in Nat
      OBVIOUS
    <2> QED
      BY ONLY <1>3, <2>1, WalkVisits
  <1>5. DOMAIN g = 1 .. N + 1
    <2>1. g = [n \in 1 .. N + 1 |-> IF n = 1 THEN first ELSE NextOf(null, free, h, g[n - 1])]
      BY <1>3 DEF Walks
    <2> QED
      BY <2>1, Zenon
  <1>6. visited = 1 .. Len(s)
    <2>1. \A n \in 1 .. Len(s) : n \in 1 .. N + 1 /\ s[n] # null
      BY <1>1
    <2> QED
      BY <1>4, <1>5, <2>1 DEF Beside
  <1> HIDE DEF visited
  <1>7. Cardinality(visited) = Len(s)
    <2>1. Cardinality(1 .. Len(s)) = IF 1 > Len(s) THEN 0 ELSE Len(s) - 1 + 1
      <3>1. 1 \in Int /\ Len(s) \in Int
        BY <1>1
      <3> QED
        BY ONLY <3>1, FS_Interval
    <2> QED
      BY <1>1, <1>6, <2>1
  <1>8. \A n \in 1 .. Len(s) : g[n] = s[n]
    <2>1. \A n \in 1 .. Len(s) : n \in 1 .. N + 1
      BY <1>1
    <2> QED
      BY <1>4, <2>1 DEF Beside
  <1>9. s = [n \in 1 .. Len(s) |-> s[n]]
    BY LenProperties
  <1> QED
    BY <1>7, <1>8, <1>9 DEF visited, Visited, g

-----------------------------------------------------------------------------
(* The LRU cache. *)

-----------------------------------------------------------------------------
(* The heap of the LRU cache, and its nodes that live. *)
CacheHeaps == [Addr -> Cache!Nodes \cup {Free}]
Lives(h, a) == h[a] # Free

(* The list of the cache visits the nodes s, and prev mirrors next. *)
Threads(h, first, last, s) ==
    /\ h \in CacheHeaps /\ s \in Seq(Addr)
    /\ Linked(Null, h, first, last, s)
    /\ \A n \in 1 .. Len(s) : Lives(h, s[n])

(* Two heaps with the same live nodes, keys and values: they differ in pointers. *)
SameEntries(g, h) ==
    \A a \in Addr : /\ Lives(g, a) <=> Lives(h, a)
                    /\ Lives(h, a) => g[a].key = h[a].key /\ g[a].value = h[a].value

(* Writing a pointer of a live node. *)
LEMMA CacheSetNext ==
    ASSUME NEW h \in CacheHeaps, NEW p \in Addr \cup {Null}, p # Null => Lives(h, p), NEW x \in Addr \cup {Null}
    PROVE  /\ Cache!SetNext(h, p, x) \in CacheHeaps /\ SameEntries(Cache!SetNext(h, p, x), h)
           /\ \A a \in Addr : Lives(h, a) =>
                  /\ Cache!SetNext(h, p, x)[a].prev = h[a].prev
                  /\ Cache!SetNext(h, p, x)[a].next = IF a = p THEN x ELSE h[a].next
  <1>1. CASE p = Null
    BY <1>1, ContainersAssumption DEF Cache!SetNext, SameEntries
  <1>2. CASE p # Null
    <2> DEFINE g == [h EXCEPT ![p].next = x]
    <2>1. Cache!SetNext(h, p, x) = g
      BY <1>2 DEF Cache!SetNext
    <2>2. p \in Addr /\ h[p] \in Cache!Nodes
      BY <1>2 DEF CacheHeaps, Lives
    <2>3. h \in [Addr -> Cache!Nodes \cup {Free}]
      BY DEF CacheHeaps
    <2>4. g[p] = [h[p] EXCEPT !.next = x] /\ \A a \in Addr \ {p} : g[a] = h[a]
      BY <2>2, <2>3
    <2>5. /\ g[p] \in Cache!Nodes /\ g[p].prev = h[p].prev /\ g[p].next = x
          /\ g[p].key = h[p].key /\ g[p].value = h[p].value
      BY <2>2, <2>4 DEF Cache!Nodes
    <2>6. g \in CacheHeaps
      BY <2>3, <2>5 DEF CacheHeaps
    <2>7. g[p] # Free /\ h[p] # Free
      BY <2>2, <2>5, ContainersAssumption
    <2> HIDE DEF g
    <2> QED
      BY <2>1, <2>4, <2>5, <2>6, <2>7 DEF SameEntries, Lives
  <1> QED
    BY <1>1, <1>2

(* Writing the prev pointer of a live node. *)
LEMMA CacheSetPrev ==
    ASSUME NEW h \in CacheHeaps, NEW p \in Addr \cup {Null}, p # Null => Lives(h, p), NEW x \in Addr \cup {Null}
    PROVE  /\ Cache!SetPrev(h, p, x) \in CacheHeaps /\ SameEntries(Cache!SetPrev(h, p, x), h)
           /\ \A a \in Addr : Lives(h, a) =>
                  /\ Cache!SetPrev(h, p, x)[a].next = h[a].next
                  /\ Cache!SetPrev(h, p, x)[a].prev = IF a = p THEN x ELSE h[a].prev
  <1>1. CASE p = Null
    BY <1>1, ContainersAssumption DEF Cache!SetPrev, SameEntries
  <1>2. CASE p # Null
    <2> DEFINE g == [h EXCEPT ![p].prev = x]
    <2>1. Cache!SetPrev(h, p, x) = g
      BY <1>2 DEF Cache!SetPrev
    <2>2. p \in Addr /\ h[p] \in Cache!Nodes
      BY <1>2 DEF CacheHeaps, Lives
    <2>3. h \in [Addr -> Cache!Nodes \cup {Free}]
      BY DEF CacheHeaps
    <2>4. g[p] = [h[p] EXCEPT !.prev = x] /\ \A a \in Addr \ {p} : g[a] = h[a]
      BY <2>2, <2>3
    <2>5. /\ g[p] \in Cache!Nodes /\ g[p].next = h[p].next /\ g[p].prev = x
          /\ g[p].key = h[p].key /\ g[p].value = h[p].value
      BY <2>2, <2>4 DEF Cache!Nodes
    <2>6. g \in CacheHeaps
      BY <2>3, <2>5 DEF CacheHeaps
    <2>7. g[p] # Free /\ h[p] # Free
      BY <2>2, <2>5, ContainersAssumption
    <2> HIDE DEF g
    <2> QED
      BY <2>1, <2>4, <2>5, <2>6, <2>7 DEF SameEntries, Lives
  <1> QED
    BY <1>1, <1>2

(* The elements of a thread. *)
LEMMA ThreadParts ==
    ASSUME NEW h, NEW first, NEW last, NEW s, Threads(h, first, last, s)
    PROVE  /\ Len(s) \in Nat /\ h \in CacheHeaps /\ s \in Seq(Addr)
           /\ \A n \in 1 .. Len(s) : s[n] \in Addr /\ s[n] # Null /\ Lives(h, s[n])
           /\ \A n \in Int : Beside(Null, s, n) \in Addr \cup {Null}
           /\ \A n \in Int : Beside(Null, s, n) # Null => /\ n \in 1 .. Len(s) /\ Beside(Null, s, n) = s[n]
                                                      /\ Lives(h, Beside(Null, s, n))
  <1>1. Len(s) \in Nat /\ h \in CacheHeaps /\ s \in Seq(Addr)
    BY LenProperties DEF Threads
  <1>2. \A n \in 1 .. Len(s) : s[n] \in Addr /\ s[n] # Null /\ Lives(h, s[n])
    BY <1>1, ElementOfSeq, ContainersAssumption DEF Threads
  <1> QED
    BY <1>1, <1>2 DEF Beside

(* Linking a node that is not in the list at its front (lines 50-54 and 93-97). *)
LEMMA AttachThreads ==
    ASSUME NEW L, NEW s, Threads(L.heap, L.head, L.tail, s),
           NEW node \in Addr, Lives(L.heap, node), \A n \in 1 .. Len(s) : s[n] # node
    PROVE  LET A == Cache!AttachFront(L, node)
           IN  Threads(A.heap, A.head, A.tail, <<node>> \o s) /\ SameEntries(A.heap, L.heap)
  <1> DEFINE h == L.heap
             h1 == Cache!SetPrev(h, node, Null)
             h2 == Cache!SetNext(h1, node, L.head)
             h3 == Cache!SetPrev(h2, L.head, node)
             t == <<node>> \o s
             last == IF L.tail = Null THEN node ELSE L.tail
             A == Cache!AttachFront(L, node)
  <1>1. A = [heap |-> h3, head |-> node, tail |-> last]
    BY DEF Cache!AttachFront, Cache!List
  <1>2. /\ Len(s) \in Nat /\ h \in CacheHeaps /\ s \in Seq(Addr)
        /\ \A n \in 1 .. Len(s) : s[n] \in Addr /\ s[n] # Null /\ Lives(h, s[n])
        /\ \A n \in Int : Beside(Null, s, n) \in Addr \cup {Null}
        /\ \A n \in Int : Beside(Null, s, n) # Null => Lives(h, Beside(Null, s, n))
    BY ThreadParts
  <1>3. L.head = Beside(Null, s, 1) /\ L.tail = Beside(Null, s, Len(s))
    BY DEF Threads, Linked
  <1>4. L.head \in Addr \cup {Null} /\ (L.head # Null => Lives(h, L.head)) /\ L.tail \in Addr \cup {Null} /\ node # Null
    BY <1>2, <1>3, ContainersAssumption
  <1> HIDE DEF h
  <1>5. /\ h1 \in CacheHeaps /\ SameEntries(h1, h)
        /\ \A a \in Addr : Lives(h, a) => h1[a].next = h[a].next /\ h1[a].prev = IF a = node THEN Null ELSE h[a].prev
    BY <1>2, CacheSetPrev DEF h
  <1> HIDE DEF h1
  <1>6. /\ h2 \in CacheHeaps /\ SameEntries(h2, h1)
        /\ \A a \in Addr : Lives(h1, a) => h2[a].prev = h1[a].prev /\ h2[a].next = IF a = node THEN L.head ELSE h1[a].next
    <2>1. Lives(h1, node)
      BY <1>5 DEF SameEntries, h
    <2> QED
      BY <1>4, <1>5, <2>1, CacheSetNext
  <1> HIDE DEF h2
  <1>7. /\ h3 \in CacheHeaps /\ SameEntries(h3, h2)
        /\ \A a \in Addr : Lives(h2, a) => h3[a].next = h2[a].next /\ h3[a].prev = IF a = L.head THEN node ELSE h2[a].prev
    <2>1. L.head # Null => Lives(h2, L.head)
      BY <1>4, <1>5, <1>6 DEF SameEntries
    <2> QED
      BY <1>4, <1>6, <2>1, CacheSetPrev
  <1> HIDE DEF h3
  <1>8. SameEntries(h3, h)
    BY <1>5, <1>6, <1>7 DEF SameEntries
  <1>9. \A a \in Addr : Lives(h, a) =>
            /\ h3[a].next = IF a = node THEN L.head ELSE h[a].next
            /\ h3[a].prev = IF a = L.head THEN node ELSE IF a = node THEN Null ELSE h[a].prev
    BY <1>5, <1>6, <1>7 DEF SameEntries
  <1>10. /\ t \in Seq(Addr) /\ Len(t) = Len(s) + 1 /\ t[1] = node
         /\ \A n \in 1 .. Len(s) : n + 1 \in 1 .. Len(s) + 1 /\ t[n + 1] = s[n]
         /\ \A n \in 2 .. Len(s) + 1 : n - 1 \in 1 .. Len(s) /\ t[n] = s[n - 1]
    BY <1>2, InFrontFacts
  <1> HIDE DEF t
  <1>11. \A n \in 1 .. Len(t) : Lives(h3, t[n])
    <2>1. \A n \in 1 .. Len(t) : n = 1 \/ n \in 2 .. Len(s) + 1
      BY <1>2, <1>10
    <2>2. \A n \in 1 .. Len(t) : t[n] \in Addr /\ Lives(h, t[n])
      BY <1>2, <1>10, <2>1 DEF h
    <2> QED
      BY <1>8, <2>2 DEF SameEntries
  <1>12. Linked(Null, h, L.head, L.tail, s)
    BY DEF Threads, h
  <1>13. LinkedIn(Null, h3, h, s, 1, node)
    <2>1. L.head # node
      BY <1>2, <1>3, <1>4 DEF Beside
    <2>2. h3[node].prev = Beside(Null, s, 1 - 1) /\ h3[node].next = Beside(Null, s, 1)
      BY <1>3, <1>9, <2>1 DEF Beside, h
    <2>3. ASSUME NEW n \in 1 .. Len(s)
          PROVE  /\ h3[s[n]].prev = IF n = 1 THEN node ELSE h[s[n]].prev
                 /\ h3[s[n]].next = IF n = 1 - 1 THEN node ELSE h[s[n]].next
      <3>1. s[n] # node /\ s[n] \in Addr /\ Lives(h, s[n]) /\ n # 1 - 1 /\ 1 \in 1 .. Len(s)
        BY <1>2
      <3>2. s[n] = L.head <=> n = 1
        BY <1>3, <1>12, <3>1 DEF Linked, Beside
      <3> QED
        BY <1>9, <3>1, <3>2
    <2> QED
      BY <2>2, <2>3 DEF LinkedIn
  <1>14. last = IF 1 = Len(s) + 1 THEN node ELSE L.tail
    <2>1. L.tail = Null <=> 1 = Len(s) + 1
      BY <1>2, <1>3 DEF Beside
    <2> QED
      BY <2>1
  <1>15. t = InsertAt(s, 1, node)
    BY <1>2, InsertAtEnds DEF t
  <1>16. Linked(Null, h3, node, last, t)
    <2>1. 1 \in 1 .. Len(s) + 1 /\ s \in Seq(Addr) /\ node \in Addr /\ \A n \in 1 .. Len(s) : s[n] # node
      BY <1>2
    <2>2. Linked(Null, h3, IF 1 = 1 THEN node ELSE L.head, IF 1 = Len(s) + 1 THEN node ELSE L.tail, InsertAt(s, 1, node))
      BY ONLY <1>12, <1>13, <2>1, LinkInsert
    <2> QED
      BY <1>14, <1>15, <2>2
  <1>17. Threads(h3, node, last, t)
    BY <1>7, <1>10, <1>11, <1>16 DEF Threads
  <1>18. A.heap = h3 /\ A.head = node /\ A.tail = last
    BY <1>1
  <1> QED
    BY <1>8, <1>17, <1>18 DEF t, h

(* Taking the m-th node out of the list (lines 46-48 and 59-62). *)
LEMMA UnlinkThreads ==
    ASSUME NEW h, NEW first, NEW last, NEW s, Threads(h, first, last, s), NEW m \in 1 .. Len(s)
    PROVE  LET p == Beside(Null, s, m - 1)
               x == Beside(Null, s, m + 1)
               g == Cache!SetPrev(Cache!SetNext(h, p, x), x, p)
           IN  /\ Threads(g, IF m = 1 THEN x ELSE first, IF m = Len(s) THEN p ELSE last, RemoveAt(s, m))
               /\ SameEntries(g, h)
  <1> DEFINE p == Beside(Null, s, m - 1)
             x == Beside(Null, s, m + 1)
             h1 == Cache!SetNext(h, p, x)
             g == Cache!SetPrev(h1, x, p)
             t == RemoveAt(s, m)
  <1>1. /\ Len(s) \in Nat /\ h \in CacheHeaps /\ s \in Seq(Addr)
        /\ \A n \in 1 .. Len(s) : s[n] \in Addr /\ s[n] # Null /\ Lives(h, s[n])
        /\ \A n \in Int : Beside(Null, s, n) \in Addr \cup {Null}
        /\ \A n \in Int : Beside(Null, s, n) # Null => n \in 1 .. Len(s) /\ Beside(Null, s, n) = s[n] /\ Lives(h, Beside(Null, s, n))
    BY ThreadParts
  <1>2. /\ p \in Addr \cup {Null} /\ x \in Addr \cup {Null}
        /\ (p # Null => m - 1 \in 1 .. Len(s) /\ p = s[m - 1] /\ Lives(h, p))
        /\ (x # Null => m + 1 \in 1 .. Len(s) /\ x = s[m + 1] /\ Lives(h, x))
    BY <1>1
  <1>3. /\ m - 1 \in 1 .. Len(s) => p = s[m - 1]
        /\ m + 1 \in 1 .. Len(s) => x = s[m + 1]
        /\ m - 1 \notin 1 .. Len(s) => p = Null
        /\ m + 1 \notin 1 .. Len(s) => x = Null
    BY DEF Beside
  <1> HIDE DEF p, x
  <1>4. /\ h1 \in CacheHeaps /\ SameEntries(h1, h)
        /\ \A a \in Addr : Lives(h, a) => h1[a].prev = h[a].prev /\ h1[a].next = IF a = p THEN x ELSE h[a].next
    <2>1. h \in CacheHeaps /\ p \in Addr \cup {Null} /\ x \in Addr \cup {Null} /\ (p # Null => Lives(h, p))
      BY <1>1, <1>2
    <2> QED
      BY <2>1, CacheSetNext
  <1> HIDE DEF h1
  <1>5. /\ g \in CacheHeaps /\ SameEntries(g, h1)
        /\ \A a \in Addr : Lives(h1, a) => g[a].next = h1[a].next /\ g[a].prev = IF a = x THEN p ELSE h1[a].prev
    <2>1. x # Null => Lives(h1, x)
      BY <1>2, <1>4 DEF SameEntries
    <2> QED
      BY <1>2, <1>4, <2>1, CacheSetPrev
  <1> HIDE DEF g
  <1>6. SameEntries(g, h)
    BY <1>4, <1>5 DEF SameEntries
  <1>7. \A a \in Addr : Lives(h, a) => /\ g[a].next = IF a = p THEN x ELSE h[a].next
                                       /\ g[a].prev = IF a = x THEN p ELSE h[a].prev
    BY <1>4, <1>5 DEF SameEntries
  <1>8. /\ t \in Seq(Addr) /\ Len(t) = Len(s) - 1 /\ Len(t) \in Nat
        /\ \A n \in 1 .. Len(t) : /\ n \in 1 .. Len(s) /\ n + 1 \in 1 .. Len(s)
                                  /\ t[n] = IF n < m THEN s[n] ELSE s[n + 1]
    BY <1>1, RemoveAtFacts
  <1> HIDE DEF t
  <1>9. \A n \in 1 .. Len(t) : Lives(g, t[n])
    <2>1. \A n \in 1 .. Len(t) : t[n] \in Addr /\ Lives(h, t[n])
      BY <1>1, <1>8
    <2> QED
      BY <1>6, <2>1 DEF SameEntries
  <1>10. Linked(Null, h, first, last, s)
    BY DEF Threads, Linked
  <1>11. LinkedPast(Null, g, h, s, m)
    <2> SUFFICES ASSUME NEW n \in 1 .. Len(s), n # m
                 PROVE  /\ g[s[n]].prev = IF n = m + 1 THEN Beside(Null, s, m - 1) ELSE h[s[n]].prev
                        /\ g[s[n]].next = IF n = m - 1 THEN Beside(Null, s, m + 1) ELSE h[s[n]].next
      BY DEF LinkedPast
    <2>1. s[n] \in Addr /\ Lives(h, s[n]) /\ s[n] # Null
      BY <1>1
    <2>2. s[n] = x <=> n = m + 1
      BY <1>2, <1>3, <1>10, <2>1 DEF Linked
    <2>3. s[n] = p <=> n = m - 1
      BY <1>2, <1>3, <1>10, <2>1 DEF Linked
    <2> QED
      BY <1>7, <2>1, <2>2, <2>3 DEF p, x
  <1>12. Linked(Null, g, IF m = 1 THEN Beside(Null, s, 2) ELSE first, IF m = Len(s) THEN Beside(Null, s, m - 1) ELSE last, t)
    <2>1. s \in Seq(Addr) /\ m \in 1 .. Len(s)
      BY <1>1
    <2> QED
      BY ONLY <1>10, <1>11, <2>1, LinkRemove DEF t
  <1>13. Linked(Null, g, IF m = 1 THEN x ELSE first, IF m = Len(s) THEN p ELSE last, t)
    BY <1>12 DEF p, x
  <1>17. Threads(g, IF m = 1 THEN x ELSE first, IF m = Len(s) THEN p ELSE last, t)
    BY <1>5, <1>8, <1>9, <1>13 DEF Threads, Linked
  <1> QED
    BY <1>6, <1>17 DEF p, x, h1, g, t

(* The chain of a list that fits in the heap is its thread. *)
LEMMA ChainIsThread ==
    ASSUME NEW h, NEW first, NEW last, NEW s, Threads(h, first, last, s), Len(s) <= Cardinality(Addr)
    PROVE  Cache!NodesFrom(h, first) = s
  <1>1. Cache!NodesFrom(h, first) = Visited(Null, Walk(Null, Free, h, first, Cardinality(Addr)))
    BY DEF Cache!NodesFrom, Cache!Cardinality, Cardinality, Cache!IsFiniteSet, IsFiniteSet, Visited, Walk, Walks, NextOf
  <1>2. Cardinality(Addr) \in Nat /\ Null \notin Addr
    BY ContainersAssumption, FS_CardinalityType
  <1>3. s \in Seq(Addr) /\ Linked(Null, h, first, last, s) /\ NoneFree(Free, h, s)
    BY DEF Threads, NoneFree, Lives
  <1> QED
    BY <1>1, <1>2, <1>3, WalkCollects

-----------------------------------------------------------------------------
(* The cache holds the nodes s: they are the list and the only live nodes, and
   map_ finds each of them by its key and nothing else. *)
CacheHolds(h, first, last, map, size, s) ==
    /\ Threads(h, first, last, s)
    /\ \A a \in Addr : Lives(h, a) => \E n \in 1 .. Len(s) : s[n] = a
    /\ map \in [Keys -> Addr \cup {Null}]
    /\ \A n \in 1 .. Len(s) : map[h[s[n]].key] = s[n]
    /\ \A k \in Keys : map[k] # Null => \E n \in 1 .. Len(s) : s[n] = map[k] /\ h[s[n]].key = k
    /\ size = Len(s) /\ size <= Capacity

CacheInv == \E s : CacheHolds(cacheHeap, head_, tail_, map_, cacheSize, s)

(* What the invariant says of the nodes, one fact at a time. *)
LEMMA HoldsParts ==
    ASSUME NEW h, NEW first, NEW last, NEW map, NEW size, NEW s, CacheHolds(h, first, last, map, size, s)
    PROVE  /\ Len(s) \in Nat /\ h \in CacheHeaps /\ s \in Seq(Addr) /\ size = Len(s) /\ size \in Nat
           /\ Len(s) <= Cardinality(Addr)
           /\ \A n \in 1 .. Len(s) : /\ s[n] \in Addr /\ s[n] # Null /\ Lives(h, s[n])
                                     /\ h[s[n]] \in Cache!Nodes /\ h[s[n]].key \in Keys /\ h[s[n]].value \in Values
           /\ \A m, n \in 1 .. Len(s) : h[s[m]].key = h[s[n]].key => m = n
           /\ \A m, n \in 1 .. Len(s) : s[m] = s[n] => m = n
           /\ Cache!NodesFrom(h, first) = s
  <1>1. Threads(h, first, last, s) /\ size = Len(s) /\ size <= Capacity
    BY DEF CacheHolds
  <1>2. /\ Len(s) \in Nat /\ h \in CacheHeaps /\ s \in Seq(Addr)
        /\ \A n \in 1 .. Len(s) : s[n] \in Addr /\ s[n] # Null /\ Lives(h, s[n])
    BY <1>1, ThreadParts
  <1>3. Cardinality(Addr) \in Nat
    BY ContainersAssumption, FS_CardinalityType
  <1>4. Len(s) <= Cardinality(Addr)
    BY <1>1, <1>2, <1>3, ContainersAssumption
  <1>5. \A n \in 1 .. Len(s) : h[s[n]] \in Cache!Nodes
    BY <1>2 DEF CacheHeaps, Lives
  <1>6. \A n \in 1 .. Len(s) : h[s[n]].key \in Keys /\ h[s[n]].value \in Values
    BY <1>5 DEF Cache!Nodes
  <1>7. \A m, n \in 1 .. Len(s) : s[m] = s[n] => m = n
    BY <1>1 DEF Threads, Linked
  <1>8. \A m, n \in 1 .. Len(s) : h[s[m]].key = h[s[n]].key => m = n
    BY <1>7 DEF CacheHolds
  <1>9. Cache!NodesFrom(h, first) = s
    BY <1>1, <1>4, ChainIsThread
  <1> QED
    BY <1>1, <1>2, <1>4, <1>5, <1>6, <1>7, <1>8, <1>9

(* The promise of ListIntegrity. *)
LEMMA CacheInvIntegrity == CacheInv => ListIntegrity
  <1> SUFFICES ASSUME NEW s, CacheHolds(cacheHeap, head_, tail_, map_, cacheSize, s) PROVE ListIntegrity
    BY DEF CacheInv
  <1>1. /\ Len(s) \in Nat /\ s \in Seq(Addr) /\ cacheSize = Len(s)
        /\ \A n \in 1 .. Len(s) : s[n] \in Addr /\ Lives(cacheHeap, s[n])
        /\ \A m, n \in 1 .. Len(s) : s[m] = s[n] => m = n
        /\ Cache!NodesFrom(cacheHeap, head_) = s
    BY HoldsParts
  <1>2. Cache!Chain = s
    BY <1>1 DEF Cache!Chain
  <1>3. DOMAIN s = 1 .. Len(s)
    BY <1>1, LenProperties
  <1>4. Threads(cacheHeap, head_, tail_, s)
    BY DEF CacheHolds
  <1>5. {s[n] : n \in DOMAIN s} = {a \in Addr : cacheHeap[a] # Free}
    BY <1>1, <1>3 DEF CacheHolds, Lives
  <1>6. tail_ = IF s = <<>> THEN Null ELSE s[Len(s)]
    <2>1. s = <<>> <=> Len(s) = 0
      BY <1>1, EmptySeq
    <2>2. Len(s) \in 1 .. Len(s) <=> Len(s) # 0
      BY <1>1
    <2> QED
      BY <1>4, <2>1, <2>2 DEF Threads, Linked, Beside
  <1>7. ASSUME NEW n \in DOMAIN s PROVE cacheHeap[s[n]].prev = IF n = 1 THEN Null ELSE s[n - 1]
    <2>1. n \in 1 .. Len(s) /\ cacheHeap[s[n]].prev = Beside(Null, s, n - 1)
      BY <1>3, <1>4 DEF Threads, Linked
    <2>2. n - 1 \in 1 .. Len(s) <=> n # 1
      BY <1>1, <2>1
    <2> QED
      BY <2>1, <2>2 DEF Beside
  <1>8. \A k \in Keys : map_[k] # Null => \E n \in DOMAIN s : map_[k] = s[n]
    BY <1>3 DEF CacheHolds
  <1>9. (\A n \in DOMAIN s : map_[cacheHeap[s[n]].key] = s[n]) /\ cacheSize <= Capacity
    BY <1>3 DEF CacheHolds
  <1> QED
    BY <1>1, <1>2, <1>3, <1>5, <1>6, <1>7, <1>8, <1>9 DEF ListIntegrity, Cache!ListIntegrity

(* Moving pointers keeps the cache. *)
LEMMA RethreadHolds ==
    ASSUME NEW h, NEW first, NEW last, NEW map, NEW size, NEW s, CacheHolds(h, first, last, map, size, s),
           NEW g, NEW first2, NEW last2, NEW t, Threads(g, first2, last2, t), SameEntries(g, h), Rearranged(t, s)
    PROVE  CacheHolds(g, first2, last2, map, size, t)
  <1>1. \A n \in 1 .. Len(s) : s[n] \in Addr /\ Lives(h, s[n])
    BY HoldsParts
  <1>2. \A a \in Addr : Lives(g, a) => \E n \in 1 .. Len(t) : t[n] = a
    <2>1. \A a \in Addr : Lives(g, a) => \E n \in 1 .. Len(s) : s[n] = a
      BY DEF CacheHolds, SameEntries
    <2> QED
      BY <2>1 DEF Rearranged
  <1>3. \A n \in 1 .. Len(s) : g[s[n]].key = h[s[n]].key
    BY <1>1 DEF SameEntries
  <1>4. \A n \in 1 .. Len(t) : map[g[t[n]].key] = t[n]
    <2>1. \A n \in 1 .. Len(s) : map[g[s[n]].key] = s[n]
      BY <1>3 DEF CacheHolds
    <2> SUFFICES ASSUME NEW n \in 1 .. Len(t) PROVE map[g[t[n]].key] = t[n]
      OBVIOUS
    <2>2. PICK k \in 1 .. Len(s) : t[n] = s[k]
      BY DEF Rearranged
    <2> QED
      BY <2>1, <2>2
  <1>5. ASSUME NEW k \in Keys, map[k] # Null PROVE \E n \in 1 .. Len(t) : t[n] = map[k] /\ g[t[n]].key = k
    <2>1. PICK n \in 1 .. Len(s) : s[n] = map[k] /\ h[s[n]].key = k
      BY <1>5 DEF CacheHolds
    <2>2. PICK j \in 1 .. Len(s) : s[n] = t[j]
      BY <2>1 DEF Rearranged
    <2> QED
      BY <1>3, <2>1, <2>2 DEF Rearranged
  <1>6. map \in [Keys -> Addr \cup {Null}] /\ size = Len(t) /\ size <= Capacity
    BY DEF CacheHolds, Rearranged
  <1> QED
    BY <1>2, <1>4, <1>5, <1>6 DEF CacheHolds

(* move_to_front makes its node the first one (lines 43-55). *)
LEMMA TouchHolds ==
    ASSUME NEW L, NEW map, NEW size, NEW s, CacheHolds(L.heap, L.head, L.tail, map, size, s),
           L = [heap |-> L.heap, head |-> L.head, tail |-> L.tail], NEW i \in 1 .. Len(s)
    PROVE  LET M == Cache!move_to_front(L, s[i])
           IN  /\ CacheHolds(M.heap, M.head, M.tail, map, size, ToFront(s, i))
               /\ SameEntries(M.heap, L.heap)
  <1> DEFINE M == Cache!move_to_front(L, s[i])
             t == ToFront(s, i)
             p == Beside(Null, s, i - 1)
             x == Beside(Null, s, i + 1)
             g == Cache!SetPrev(Cache!SetNext(L.heap, p, x), x, p)
             last == IF i = Len(s) THEN p ELSE L.tail
             U == [heap |-> g, head |-> L.head, tail |-> last]
  <1>1. Threads(L.heap, L.head, L.tail, s)
    BY DEF CacheHolds
  <1>2. /\ Len(s) \in Nat /\ s \in Seq(Addr)
        /\ \A n \in 1 .. Len(s) : s[n] \in Addr /\ s[n] # Null /\ Lives(L.heap, s[n])
        /\ \A m, n \in 1 .. Len(s) : s[m] = s[n] => m = n
    BY HoldsParts
  <1>3. t \in Seq(Addr) /\ Rearranged(t, s) /\ (i = 1 => t = s)
    BY <1>2, ToFrontFacts
  <1>4. 1 \in 1 .. Len(s) /\ Len(s) \in 1 .. Len(s) /\ L.head = s[1] /\ L.tail = s[Len(s)]
    <2>1. 1 \in 1 .. Len(s) /\ Len(s) \in 1 .. Len(s)
      BY <1>2
    <2> QED
      BY <1>1, <2>1 DEF Threads, Linked, Beside
  <1>5. (s[i] = L.head <=> i = 1) /\ (s[i] = L.tail <=> i = Len(s))
    BY <1>2, <1>4
  <1>6. CASE i = 1
    <2>1. M = L
      BY <1>5, <1>6 DEF Cache!move_to_front
    <2>2. SameEntries(L.heap, L.heap)
      BY DEF SameEntries
    <2> QED
      BY <1>3, <1>6, <2>1, <2>2
  <1>7. CASE i # 1
    <2>1. Threads(g, L.head, last, RemoveAt(s, i)) /\ SameEntries(g, L.heap)
      BY <1>1, <1>7, UnlinkThreads
    <2>2. L.heap[s[i]].prev = p /\ L.heap[s[i]].next = x
      BY <1>1 DEF Threads, Linked
    <2>3. M = Cache!AttachFront(U, s[i])
      BY <1>5, <1>7, <2>2 DEF Cache!move_to_front, Cache!List
    <2>4. U.heap = g /\ U.head = L.head /\ U.tail = last
      OBVIOUS
    <2>5. /\ Len(RemoveAt(s, i)) = Len(s) - 1
          /\ \A n \in 1 .. Len(s) - 1 : /\ n \in 1 .. Len(s) /\ n + 1 \in 1 .. Len(s)
                                        /\ RemoveAt(s, i)[n] = IF n < i THEN s[n] ELSE s[n + 1]
      BY <1>2, RemoveAtFacts
    <2>6. \A n \in 1 .. Len(RemoveAt(s, i)) : RemoveAt(s, i)[n] # s[i]
      BY <1>2, <2>5
    <2>7. Lives(g, s[i]) /\ s[i] \in Addr
      BY <1>2, <2>1 DEF SameEntries
    <2> HIDE DEF U, g, t, M
    <2>8. Threads(M.heap, M.head, M.tail, t) /\ SameEntries(M.heap, U.heap)
      BY <2>1, <2>3, <2>4, <2>6, <2>7, AttachThreads DEF t, ToFront
    <2>9. SameEntries(M.heap, L.heap)
      BY <2>1, <2>4, <2>8 DEF SameEntries
    <2>10. CacheHolds(M.heap, M.head, M.tail, map, size, t)
      BY <1>3, <2>8, <2>9, RethreadHolds
    <2> QED
      BY <2>9, <2>10 DEF M, t
  <1> QED
    BY <1>6, <1>7

(* node->value = value (line 75). *)
LEMMA WriteHolds ==
    ASSUME NEW h, NEW first, NEW last, NEW map, NEW size, NEW s, CacheHolds(h, first, last, map, size, s),
           NEW i \in 1 .. Len(s), NEW v \in Values
    PROVE  LET g == [h EXCEPT ![s[i]].value = v]
           IN  /\ CacheHolds(g, first, last, map, size, s)
               /\ \A n \in 1 .. Len(s) : /\ g[s[n]].key = h[s[n]].key
                                         /\ g[s[n]].value = IF n = i THEN v ELSE h[s[n]].value
  <1> DEFINE g == [h EXCEPT ![s[i]].value = v]
  <1>1. Threads(h, first, last, s)
    BY DEF CacheHolds
  <1>2. /\ Len(s) \in Nat /\ s \in Seq(Addr) /\ h \in CacheHeaps
        /\ \A n \in 1 .. Len(s) : s[n] \in Addr /\ s[n] # Null /\ Lives(h, s[n]) /\ h[s[n]] \in Cache!Nodes
        /\ \A m, n \in 1 .. Len(s) : s[m] = s[n] => m = n
    BY HoldsParts
  <1>3. g[s[i]] = [h[s[i]] EXCEPT !.value = v] /\ \A a \in Addr \ {s[i]} : g[a] = h[a]
    BY <1>2 DEF CacheHeaps
  <1>4. /\ g[s[i]] \in Cache!Nodes /\ g[s[i]].key = h[s[i]].key /\ g[s[i]].value = v
        /\ g[s[i]].prev = h[s[i]].prev /\ g[s[i]].next = h[s[i]].next
    BY <1>2, <1>3 DEF Cache!Nodes
  <1>5. g \in CacheHeaps
    <2> DEFINE node == [h[s[i]] EXCEPT !.value = v]
    <2>1. g = [h EXCEPT ![s[i]] = node]
      OBVIOUS
    <2>2. node \in Cache!Nodes
      BY <1>3, <1>4
    <2> HIDE DEF node, g
    <2> QED
      BY <1>2, <2>1, <2>2 DEF CacheHeaps
  <1> HIDE DEF g
  <1>6. \A a \in Addr : Lives(g, a) <=> Lives(h, a)
    <2>1. s[i] \in Addr /\ h[s[i]] # Free /\ g[s[i]] # Free
      BY <1>2, <1>4, ContainersAssumption
    <2> QED
      BY <1>3, <2>1 DEF Lives
  <1>7. \A a \in Addr : /\ g[a].key = h[a].key /\ g[a].prev = h[a].prev /\ g[a].next = h[a].next
    BY <1>2, <1>3, <1>4
  <1>8. Threads(g, first, last, s)
    BY <1>1, <1>2, <1>5, <1>6, <1>7 DEF Threads, Linked
  <1>9. CacheHolds(g, first, last, map, size, s)
    BY <1>2, <1>6, <1>7, <1>8 DEF CacheHolds
  <1>10. ASSUME NEW n \in 1 .. Len(s) PROVE g[s[n]].key = h[s[n]].key /\ g[s[n]].value = IF n = i THEN v ELSE h[s[n]].value
    BY <1>2, <1>3, <1>4, <1>7
  <1> QED
    BY <1>9, <1>10 DEF g

(* evict removes the last node and its key (lines 57-66). *)
LEMMA EvictHolds ==
    ASSUME NEW L, NEW map, NEW size, NEW s, CacheHolds(L.heap, L.head, L.tail, map, size, s), Len(s) # 0
    PROVE  LET M == Cache!evict(L)
               t == RemoveAt(s, Len(s))
           IN  /\ CacheHolds(M.heap, M.head, M.tail,
                             [k \in Keys |-> IF k = L.heap[L.tail].key THEN Null ELSE map[k]], size - 1, t)
               /\ Len(t) = Len(s) - 1
               /\ \A n \in 1 .. Len(t) : /\ n \in 1 .. Len(s) /\ t[n] = s[n]
                                         /\ M.heap[t[n]].key = L.heap[s[n]].key
                                         /\ M.heap[t[n]].value = L.heap[s[n]].value
  <1> DEFINE M == Cache!evict(L)
             i == Len(s)
             t == RemoveAt(s, i)
             h == L.heap
             p == Beside(Null, s, i - 1)
             g == Cache!SetNext(h, p, Null)
             f == [g EXCEPT ![L.tail] = Free]
             gone == h[L.tail].key
             map2 == [k \in Keys |-> IF k = gone THEN Null ELSE map[k]]
  <1>1. Threads(h, L.head, L.tail, s)
    BY DEF CacheHolds
  <1>2. /\ Len(s) \in Nat /\ s \in Seq(Addr) /\ size = Len(s)
        /\ \A n \in 1 .. Len(s) : s[n] \in Addr /\ s[n] # Null /\ Lives(h, s[n])
        /\ \A m, n \in 1 .. Len(s) : s[m] = s[n] => m = n
        /\ \A m, n \in 1 .. Len(s) : h[s[m]].key = h[s[n]].key => m = n
        /\ \A n \in 1 .. Len(s) : h[s[n]].key \in Keys
    BY HoldsParts
  <1>3. i \in 1 .. Len(s) /\ i + 1 \notin 1 .. Len(s) /\ L.tail = s[i] /\ L.tail # Null /\ L.tail \in Addr
    <2>1. i \in 1 .. Len(s) /\ i + 1 \notin 1 .. Len(s)
      BY <1>2
    <2>2. L.tail = s[i]
      BY <1>1, <2>1 DEF Threads, Linked, Beside
    <2> QED
      BY <1>2, <2>1, <2>2
  <1>4. Beside(Null, s, i + 1) = Null
    BY <1>3 DEF Beside
  <1>5. g = Cache!SetPrev(Cache!SetNext(h, p, Null), Null, p)
    BY DEF Cache!SetPrev
  <1>6. Threads(g, IF i = 1 THEN Null ELSE L.head, p, t) /\ SameEntries(g, h)
    BY <1>1, <1>3, <1>4, <1>5, UnlinkThreads
  <1>7. h[L.tail].prev = p
    BY <1>1, <1>3 DEF Threads, Linked
  <1>8. p = Null <=> i = 1
    <2>1. i - 1 \in 1 .. Len(s) <=> i # 1
      BY <1>2, <1>3
    <2> QED
      BY <1>2, <2>1 DEF Beside
  <1>9. M = [heap |-> f, head |-> IF p = Null THEN Null ELSE L.head, tail |-> p]
    BY <1>3, <1>7 DEF Cache!evict, Cache!List
  <1>10. M.heap = f /\ M.head = (IF i = 1 THEN Null ELSE L.head) /\ M.tail = p
    BY <1>8, <1>9
  <1> HIDE DEF M, p
  <1>11. /\ Len(t) = Len(s) - 1 /\ Len(t) \in Nat
         /\ \A n \in 1 .. Len(t) : n \in 1 .. Len(s) /\ n # i /\ t[n] = s[n]
    BY <1>2, <1>3, RemoveAtFacts
  <1> HIDE DEF t
  <1>12. g \in CacheHeaps
    BY <1>6 DEF Threads, Linked
  <1> HIDE DEF g
  <1>13. /\ f \in CacheHeaps /\ f[L.tail] = Free
         /\ \A a \in Addr : a # L.tail => f[a] = g[a]
    BY <1>3, <1>12 DEF CacheHeaps
  <1> HIDE DEF f
  <1>14. \A n \in 1 .. Len(t) : t[n] \in Addr /\ t[n] # L.tail /\ f[t[n]] = g[t[n]] /\ Lives(h, t[n]) /\ Lives(g, t[n])
    <2>1. \A n \in 1 .. Len(t) : t[n] \in Addr /\ t[n] # L.tail /\ Lives(h, t[n])
      BY <1>2, <1>3, <1>11
    <2> QED
      BY <1>6, <1>13, <2>1 DEF SameEntries
  <1>15. Threads(f, IF i = 1 THEN Null ELSE L.head, p, t)
    BY <1>6, <1>13, <1>14 DEF Threads, Linked, Lives
  <1>16. \A n \in 1 .. Len(t) : f[t[n]].key = h[t[n]].key /\ f[t[n]].value = h[t[n]].value
    BY <1>6, <1>14 DEF SameEntries
  <1>17. ASSUME NEW a \in Addr, Lives(f, a) PROVE \E n \in 1 .. Len(t) : t[n] = a
    <2>1. a # L.tail /\ Lives(h, a)
      BY <1>6, <1>13, <1>17 DEF SameEntries, Lives
    <2>2. PICK n \in 1 .. Len(s) : s[n] = a
      BY <2>1 DEF CacheHolds
    <2>3. n \in 1 .. Len(t)
      BY <1>2, <1>3, <1>11, <2>1, <2>2
    <2> QED
      BY <1>11, <2>2, <2>3
  <1>18. map \in [Keys -> Addr \cup {Null}] /\ \A n \in 1 .. Len(s) : map[h[s[n]].key] = s[n]
    BY DEF CacheHolds
  <1>19. map2 \in [Keys -> Addr \cup {Null}]
    BY <1>18
  <1>20. ASSUME NEW n \in 1 .. Len(t) PROVE map2[f[t[n]].key] = t[n]
    <2>1. n \in 1 .. Len(s) /\ n # i /\ t[n] = s[n] /\ f[t[n]].key = h[s[n]].key
      BY <1>11, <1>16
    <2>2. h[s[n]].key # gone /\ h[s[n]].key \in Keys
      BY <1>2, <1>3, <2>1
    <2> QED
      BY <1>18, <2>1, <2>2
  <1>21. ASSUME NEW k \in Keys, map2[k] # Null PROVE \E n \in 1 .. Len(t) : t[n] = map2[k] /\ f[t[n]].key = k
    <2>1. k # gone /\ map2[k] = map[k]
      BY <1>21
    <2>2. PICK n \in 1 .. Len(s) : s[n] = map[k] /\ h[s[n]].key = k
      BY <1>21, <2>1 DEF CacheHolds
    <2>3. n # i
      BY <1>3, <2>1, <2>2
    <2>4. n \in 1 .. Len(t)
      BY <1>2, <1>11, <2>3
    <2> QED
      BY <1>11, <1>16, <2>1, <2>2, <2>4
  <1> HIDE DEF map2
  <1>22. size - 1 = Len(t) /\ size - 1 <= Capacity
    BY <1>2, <1>11, ContainersAssumption DEF CacheHolds
  <1>23. CacheHolds(f, IF i = 1 THEN Null ELSE L.head, p, map2, size - 1, t)
    BY <1>15, <1>17, <1>19, <1>20, <1>21, <1>22 DEF CacheHolds
  <1>24. CacheHolds(M.heap, M.head, M.tail, map2, size - 1, t)
    BY <1>10, <1>23
  <1>25. \A n \in 1 .. Len(t) : n \in 1 .. Len(s) /\ t[n] = s[n] /\ f[t[n]].key = h[s[n]].key /\ f[t[n]].value = h[s[n]].value
    BY <1>11, <1>16
  <1> QED
    BY <1>10, <1>11, <1>24, <1>25 DEF M, t, map2

(* The list with a new node for k at address a linked at its front (lines 93-99), and
   what it is to the cache. *)
WithNode(L, k, v, a) == Cache!AttachFront([L EXCEPT !.heap[a] = Cache!Node(k, v, Null, Null)], a)
Learned(map, k, a) == [x \in Keys |-> IF x = k THEN a ELSE map[x]]

NodeAdded(M, L, map, size, s, k, v, a) ==
    /\ CacheHolds(M.heap, M.head, M.tail, Learned(map, k, a), size + 1, <<a>> \o s)
    /\ M.heap[a].key = k /\ M.heap[a].value = v
    /\ \A n \in 1 .. Len(s) : M.heap[s[n]].key = L.heap[s[n]].key /\ M.heap[s[n]].value = L.heap[s[n]].value

(* A function updated at one place. *)
LEMMA ListUpdate ==
    ASSUME NEW h, NEW first, NEW last, NEW a, NEW x
    PROVE  [[heap |-> h, head |-> first, tail |-> last] EXCEPT !.heap[a] = x]
               = [heap |-> [h EXCEPT ![a] = x], head |-> first, tail |-> last]
  OBVIOUS

(* A new node at the front, under a key the map did not know. *)
LEMMA AddHolds ==
    ASSUME NEW L, NEW map, NEW size, NEW s, CacheHolds(L.heap, L.head, L.tail, map, size, s),
           L = [heap |-> L.heap, head |-> L.head, tail |-> L.tail], size < Capacity,
           NEW k \in Keys, map[k] = Null, NEW v \in Values, NEW a \in Addr, L.heap[a] = Free
    PROVE  NodeAdded(WithNode(L, k, v, a), L, map, size, s, k, v, a)
  <1> DEFINE h == L.heap
             node == Cache!Node(k, v, Null, Null)
             g == [h EXCEPT ![a] = node]
             G == [heap |-> g, head |-> L.head, tail |-> L.tail]
             M == Cache!AttachFront(G, a)
             t == <<a>> \o s
             map2 == [x \in Keys |-> IF x = k THEN a ELSE map[x]]
  <1>1. Threads(h, L.head, L.tail, s)
    BY DEF CacheHolds
  <1>2. /\ Len(s) \in Nat /\ s \in Seq(Addr) /\ size = Len(s) /\ h \in CacheHeaps
        /\ \A n \in 1 .. Len(s) : s[n] \in Addr /\ s[n] # Null /\ Lives(h, s[n])
        /\ \A n \in 1 .. Len(s) : h[s[n]].key \in Keys
    BY HoldsParts
  <1>3. WithNode(L, k, v, a) = M
    <2>1. [[heap |-> L.heap, head |-> L.head, tail |-> L.tail] EXCEPT !.heap[a] = node] = G
      BY ListUpdate
    <2>2. [L EXCEPT !.heap[a] = node] = G
      BY <2>1
    <2> QED
      BY <2>2 DEF WithNode
  <1>4. node \in Cache!Nodes /\ node.key = k /\ node.value = v
    BY DEF Cache!Node, Cache!Nodes
  <1> HIDE DEF node
  <1>5. g \in CacheHeaps /\ g[a] = node /\ \A b \in Addr : b # a => g[b] = h[b]
    BY <1>2, <1>4 DEF CacheHeaps
  <1>6. Lives(g, a) /\ \A b \in Addr : b # a => (Lives(g, b) <=> Lives(h, b))
    BY <1>4, <1>5, ContainersAssumption DEF Lives
  <1>7. \A n \in 1 .. Len(s) : s[n] # a
    BY <1>2 DEF Lives
  <1> HIDE DEF g
  <1>8. \A n \in 1 .. Len(s) : g[s[n]] = h[s[n]] /\ Lives(g, s[n])
    BY <1>2, <1>5, <1>6, <1>7
  <1>9. Threads(g, L.head, L.tail, s)
    BY <1>1, <1>5, <1>8 DEF Threads, Linked
  <1>10. G.heap = g /\ G.head = L.head /\ G.tail = L.tail
    OBVIOUS
  <1> HIDE DEF G, h
  <1>11. Threads(M.heap, M.head, M.tail, t) /\ SameEntries(M.heap, g)
    BY <1>6, <1>7, <1>9, <1>10, AttachThreads
  <1>12. /\ t \in Seq(Addr) /\ Len(t) = Len(s) + 1 /\ t[1] = a
         /\ \A n \in 1 .. Len(s) : n + 1 \in 1 .. Len(s) + 1 /\ t[n + 1] = s[n]
         /\ \A n \in 2 .. Len(s) + 1 : n - 1 \in 1 .. Len(s) /\ t[n] = s[n - 1]
    BY <1>2, InFrontFacts
  <1> HIDE DEF M, t
  <1>13. M.heap[a].key = k /\ M.heap[a].value = v
    BY <1>4, <1>5, <1>6, <1>11 DEF SameEntries
  <1>14. \A n \in 1 .. Len(s) : M.heap[s[n]].key = h[s[n]].key /\ M.heap[s[n]].value = h[s[n]].value
    BY <1>2, <1>8, <1>11 DEF SameEntries
  <1>15. \A n \in 1 .. Len(t) : n = 1 \/ n \in 2 .. Len(s) + 1
    BY <1>2, <1>12
  <1>16. 1 \in 1 .. Len(t)
    BY <1>2, <1>12
  <1>17. ASSUME NEW b \in Addr, Lives(M.heap, b) PROVE \E n \in 1 .. Len(t) : t[n] = b
    <2>1. CASE b = a
      BY <1>12, <1>16, <2>1
    <2>2. CASE b # a
      <3>1. Lives(h, b)
        BY <1>6, <1>11, <1>17, <2>2 DEF SameEntries
      <3>2. PICK n \in 1 .. Len(s) : s[n] = b
        BY <3>1 DEF CacheHolds, h
      <3>3. n + 1 \in 1 .. Len(t) /\ t[n + 1] = b
        BY <1>12, <3>2
      <3> QED
        BY <3>3
    <2> QED
      BY <2>1, <2>2
  <1>18. map \in [Keys -> Addr \cup {Null}] /\ \A n \in 1 .. Len(s) : map[h[s[n]].key] = s[n]
    BY DEF CacheHolds, h
  <1>19. map2 \in [Keys -> Addr \cup {Null}]
    BY <1>18
  <1>20. ASSUME NEW n \in 1 .. Len(t) PROVE map2[M.heap[t[n]].key] = t[n]
    <2>1. CASE n = 1
      BY <1>12, <1>13, <2>1
    <2>2. CASE n # 1
      <3>1. n - 1 \in 1 .. Len(s) /\ t[n] = s[n - 1]
        BY <1>12, <1>15, <2>2
      <3>2. M.heap[t[n]].key = h[s[n - 1]].key /\ h[s[n - 1]].key \in Keys
        BY <1>2, <1>14, <3>1
      <3>3. map[h[s[n - 1]].key] = s[n - 1] /\ s[n - 1] # Null
        BY <1>2, <1>18, <3>1
      <3>4. h[s[n - 1]].key # k
        BY <3>3
      <3> QED
        BY <3>1, <3>2, <3>3, <3>4
    <2> QED
      BY <2>1, <2>2
  <1>21. ASSUME NEW x \in Keys, map2[x] # Null PROVE \E n \in 1 .. Len(t) : t[n] = map2[x] /\ M.heap[t[n]].key = x
    <2>1. CASE x = k
      BY <1>12, <1>13, <1>16, <2>1
    <2>2. CASE x # k
      <3>1. map2[x] = map[x]
        BY <2>2
      <3>2. PICK n \in 1 .. Len(s) : s[n] = map[x] /\ h[s[n]].key = x
        BY <1>21, <3>1 DEF CacheHolds, h
      <3>3. n + 1 \in 1 .. Len(t) /\ t[n + 1] = s[n]
        BY <1>12, <3>2
      <3>4. t[n + 1] = map2[x] /\ M.heap[t[n + 1]].key = x
        BY <1>14, <3>1, <3>2, <3>3
      <3> QED
        BY <3>3, <3>4
    <2> QED
      BY <2>1, <2>2
  <1> HIDE DEF map2
  <1>22. size + 1 = Len(t) /\ size + 1 <= Capacity
    BY <1>2, <1>12, ContainersAssumption
  <1>23. CacheHolds(M.heap, M.head, M.tail, map2, size + 1, t)
    BY <1>11, <1>17, <1>19, <1>20, <1>21, <1>22 DEF CacheHolds
  <1> QED
    BY <1>3, <1>13, <1>14, <1>23 DEF NodeAdded, Learned, t, map2, h

-----------------------------------------------------------------------------
(* The entries of the nodes s, in the order of the list. *)
EntryOf(h, a) == [key |-> h[a].key, value |-> h[a].value]
EntriesOf(h, s) == [n \in 1 .. Len(s) |-> EntryOf(h, s[n])]
EntriesFrom(h, first) ==
    LET chain == Cache!NodesFrom(h, first) IN [n \in DOMAIN chain |-> EntryOf(h, chain[n])]
CacheEntry == [key : Keys, value : Values]

(* What the entries of the cache are, one fact at a time. *)
LEMMA EntriesParts ==
    ASSUME NEW h, NEW first, NEW last, NEW map, NEW size, NEW s, CacheHolds(h, first, last, map, size, s)
    PROVE  /\ EntriesOf(h, s) \in Seq(CacheEntry) /\ Len(EntriesOf(h, s)) = Len(s) /\ Len(s) \in Nat
           /\ DOMAIN EntriesOf(h, s) = 1 .. Len(s)
           /\ \A n \in 1 .. Len(s) : EntriesOf(h, s)[n] = EntryOf(h, s[n]) /\ EntryOf(h, s[n]) \in CacheEntry
           /\ EntriesFrom(h, first) = EntriesOf(h, s)
  <1>1. /\ Len(s) \in Nat /\ s \in Seq(Addr) /\ Cache!NodesFrom(h, first) = s
        /\ \A n \in 1 .. Len(s) : h[s[n]].key \in Keys /\ h[s[n]].value \in Values
    BY HoldsParts
  <1>2. \A n \in 1 .. Len(s) : EntryOf(h, s[n]) \in CacheEntry
    BY <1>1 DEF EntryOf, CacheEntry
  <1>3. EntriesOf(h, s) \in [1 .. Len(s) -> CacheEntry]
    BY <1>2 DEF EntriesOf
  <1>4. DOMAIN s = 1 .. Len(s)
    BY <1>1, LenProperties
  <1>5. EntriesOf(h, s) \in Seq(CacheEntry)
    BY <1>1, <1>3, SeqDef
  <1>6. DOMAIN EntriesOf(h, s) = 1 .. Len(s)
    BY <1>3
  <1>7. Len(EntriesOf(h, s)) = Len(s)
    BY <1>1, <1>5, <1>6, LenProperties
  <1>8. EntriesFrom(h, first) = EntriesOf(h, s)
    BY <1>1, <1>4 DEF EntriesFrom, EntriesOf
  <1> QED
    BY <1>1, <1>2, <1>5, <1>6, <1>7, <1>8 DEF EntriesOf

(* A touched node comes first, with the value v it has then. *)
LEMMA TouchedEntries ==
    ASSUME NEW h, NEW first, NEW last, NEW map, NEW size, NEW s, CacheHolds(h, first, last, map, size, s),
           NEW i \in 1 .. Len(s), NEW v \in Values,
           NEW g, NEW first2, NEW last2, CacheHolds(g, first2, last2, map, size, ToFront(s, i)),
           \A n \in 1 .. Len(s) : /\ g[s[n]].key = h[s[n]].key
                                  /\ g[s[n]].value = IF n = i THEN v ELSE h[s[n]].value
    PROVE  EntriesOf(g, ToFront(s, i)) = <<[key |-> h[s[i]].key, value |-> v]>> \o RemoveAt(EntriesOf(h, s), i)
  <1> DEFINE E == EntriesOf(h, s)
             t == ToFront(s, i)
             F == EntriesOf(g, t)
             e == [key |-> h[s[i]].key, value |-> v]
             R == RemoveAt(E, i)
             T == <<e>> \o R
  <1>1. /\ E \in Seq(CacheEntry) /\ Len(E) = Len(s) /\ Len(s) \in Nat
        /\ \A n \in 1 .. Len(s) : E[n] = EntryOf(h, s[n]) /\ EntryOf(h, s[n]) \in CacheEntry
    BY EntriesParts
  <1>2. /\ F \in Seq(CacheEntry) /\ Len(F) = Len(t)
        /\ \A n \in 1 .. Len(t) : F[n] = EntryOf(g, t[n])
    BY EntriesParts
  <1>3. s \in Seq(Addr) /\ h[s[i]].key \in Keys
    BY HoldsParts
  <1>4. /\ Len(t) = Len(s) /\ t[1] = s[i]
        /\ \A n \in 2 .. Len(s) : n - 1 \in 1 .. Len(s) /\ t[n] = IF n <= i THEN s[n - 1] ELSE s[n]
    BY <1>3, ToFrontFacts
  <1> HIDE DEF E, F, t
  <1>5. e \in CacheEntry
    BY <1>3 DEF CacheEntry
  <1>6. /\ R \in Seq(CacheEntry) /\ Len(R) = Len(s) - 1
        /\ \A n \in 1 .. Len(s) - 1 : R[n] = IF n < i THEN E[n] ELSE E[n + 1]
    <2>1. E \in Seq(CacheEntry) /\ Len(E) = Len(s) /\ i \in 1 .. Len(E)
      BY <1>1
    <2>2. /\ R \in Seq(CacheEntry) /\ Len(R) = Len(E) - 1
          /\ \A n \in 1 .. Len(E) - 1 : R[n] = IF n < i THEN E[n] ELSE E[n + 1]
      BY <2>1, RemoveAtFacts
    <2> QED
      BY <2>1, <2>2
  <1> HIDE DEF R, e
  <1>7. /\ T \in Seq(CacheEntry) /\ Len(T) = Len(R) + 1 /\ T[1] = e
        /\ \A n \in 2 .. Len(R) + 1 : n - 1 \in 1 .. Len(R) /\ T[n] = R[n - 1]
    BY <1>5, <1>6, InFrontFacts
  <1> HIDE DEF T
  <1>8. \A n \in 1 .. Len(s) : n # i => EntryOf(g, s[n]) = EntryOf(h, s[n])
    BY DEF EntryOf
  <1>9. EntryOf(g, s[i]) = e
    BY DEF EntryOf, e
  <1>10. Len(F) = Len(T)
    BY <1>1, <1>2, <1>4, <1>6, <1>7
  <1>11. ASSUME NEW n \in 1 .. Len(F) PROVE F[n] = T[n]
    <2>1. CASE n = 1
      BY <1>2, <1>4, <1>7, <1>9, <2>1
    <2>2. CASE n # 1
      <3>1. n \in 2 .. Len(s) /\ n \in 2 .. Len(R) + 1 /\ n - 1 \in 1 .. Len(s) - 1 /\ n \in 1 .. Len(s) /\ n \in 1 .. Len(t) /\ n - 1 \in 1 .. Len(s)
        BY <1>1, <1>2, <1>4, <1>6, <2>2
      <3>2. T[n] = IF n - 1 < i THEN E[n - 1] ELSE E[n]
        BY <1>6, <1>7, <3>1
      <3>3. F[n] = IF n <= i THEN EntryOf(g, s[n - 1]) ELSE EntryOf(g, s[n])
        BY <1>2, <1>4, <3>1
      <3>4. CASE n <= i
        <4>1. n - 1 < i /\ n - 1 # i
          BY <3>1, <3>4
        <4> QED
          BY <1>1, <1>8, <3>1, <3>2, <3>3, <3>4, <4>1
      <3>5. CASE ~(n <= i)
        <4>1. ~(n - 1 < i) /\ n # i
          BY <3>1, <3>5
        <4> QED
          BY <1>1, <1>8, <3>1, <3>2, <3>3, <3>5, <4>1
      <3> QED
        BY <3>4, <3>5
    <2> QED
      BY <2>1, <2>2
  <1>12. F = T
    BY <1>2, <1>7, <1>10, <1>11, SeqEqual
  <1> QED
    BY <1>12 DEF F, T, E, R, t, e

(* A new node brings its entry. *)
LEMMA AddedEntries ==
    ASSUME NEW L, NEW map, NEW size, NEW s, CacheHolds(L.heap, L.head, L.tail, map, size, s),
           NEW k \in Keys, NEW v \in Values, NEW a \in Addr, NEW M, NodeAdded(M, L, map, size, s, k, v, a)
    PROVE  EntriesOf(M.heap, <<a>> \o s) = <<[key |-> k, value |-> v]>> \o EntriesOf(L.heap, s)
  <1> DEFINE h == L.heap
             g == M.heap
  <1>0. /\ CacheHolds(g, M.head, M.tail, Learned(map, k, a), size + 1, <<a>> \o s)
        /\ g[a].key = k /\ g[a].value = v
        /\ \A n \in 1 .. Len(s) : g[s[n]].key = h[s[n]].key /\ g[s[n]].value = h[s[n]].value
    BY DEF NodeAdded
  <1> HIDE DEF g
  <1> DEFINE E == EntriesOf(h, s)
             t == <<a>> \o s
             F == EntriesOf(g, t)
             e == [key |-> k, value |-> v]
             T == <<e>> \o E
  <1>1. /\ E \in Seq(CacheEntry) /\ Len(E) = Len(s) /\ Len(s) \in Nat
        /\ \A n \in 1 .. Len(s) : E[n] = EntryOf(h, s[n])
    BY EntriesParts
  <1>2. /\ F \in Seq(CacheEntry) /\ Len(F) = Len(t)
        /\ \A n \in 1 .. Len(t) : F[n] = EntryOf(g, t[n])
    <2>1. CacheHolds(g, M.head, M.tail, Learned(map, k, a), size + 1, t)
      BY <1>0
    <2> HIDE DEF t, E
    <2> QED
      BY <2>1, EntriesParts
  <1>3. s \in Seq(Addr)
    BY HoldsParts
  <1>4. /\ Len(t) = Len(s) + 1 /\ t[1] = a
        /\ \A n \in 2 .. Len(s) + 1 : n - 1 \in 1 .. Len(s) /\ t[n] = s[n - 1]
    BY <1>3, InFrontFacts
  <1> HIDE DEF E, F, t
  <1>5. e \in CacheEntry /\ EntryOf(g, a) = e
    BY <1>0 DEF CacheEntry, EntryOf
  <1> HIDE DEF e
  <1>6. /\ T \in Seq(CacheEntry) /\ Len(T) = Len(E) + 1 /\ T[1] = e
        /\ \A n \in 2 .. Len(E) + 1 : n - 1 \in 1 .. Len(E) /\ T[n] = E[n - 1]
    <2>1. E \in Seq(CacheEntry) /\ e \in CacheEntry
      BY <1>1, <1>5
    <2> QED
      BY <2>1, InFrontFacts
  <1> HIDE DEF T
  <1>7. \A n \in 1 .. Len(s) : EntryOf(g, s[n]) = EntryOf(h, s[n])
    BY <1>0 DEF EntryOf
  <1>8. ASSUME NEW n \in 1 .. Len(F) PROVE F[n] = T[n]
    <2>1. CASE n = 1
      BY <1>2, <1>4, <1>5, <1>6, <2>1
    <2>2. CASE n # 1
      <3>1. n \in 2 .. Len(s) + 1
        BY <1>1, <1>2, <1>4, <2>2
      <3> QED
        BY <1>1, <1>2, <1>4, <1>6, <1>7, <3>1
    <2> QED
      BY <2>1, <2>2
  <1>9. F = T
    BY <1>1, <1>2, <1>4, <1>6, <1>8, SeqEqual
  <1> QED
    BY <1>9 DEF F, T, E, t, e, g

(* Evicting keeps all entries but the last. *)
LEMMA EvictedEntries ==
    ASSUME NEW h, NEW first, NEW last, NEW map, NEW size, NEW s, CacheHolds(h, first, last, map, size, s),
           NEW g, NEW first2, NEW last2, NEW map2, NEW size2, NEW t,
           CacheHolds(g, first2, last2, map2, size2, t),
           Len(s) # 0, Len(t) = Len(s) - 1,
           \A n \in 1 .. Len(t) : t[n] = s[n] /\ g[t[n]].key = h[s[n]].key /\ g[t[n]].value = h[s[n]].value
    PROVE  EntriesOf(g, t) = SubSeq(EntriesOf(h, s), 1, Len(s) - 1)
  <1> DEFINE E == EntriesOf(h, s)
             F == EntriesOf(g, t)
             T == SubSeq(E, 1, Len(s) - 1)
  <1>1. /\ E \in Seq(CacheEntry) /\ Len(E) = Len(s) /\ Len(s) \in Nat
        /\ \A n \in 1 .. Len(s) : E[n] = EntryOf(h, s[n]) /\ EntryOf(h, s[n]) \in CacheEntry
    BY EntriesParts
  <1>2. /\ F \in Seq(CacheEntry) /\ Len(F) = Len(t)
        /\ \A n \in 1 .. Len(t) : F[n] = EntryOf(g, t[n])
    BY EntriesParts
  <1> HIDE DEF E, F
  <1>3. \A n \in 1 .. Len(s) - 1 : n \in 1 .. Len(s) /\ E[n] \in CacheEntry
    BY <1>1
  <1>4. /\ T \in Seq(CacheEntry) /\ Len(T) = IF 1 <= Len(s) - 1 THEN (Len(s) - 1) - 1 + 1 ELSE 0
        /\ \A n \in 1 .. (Len(s) - 1) - 1 + 1 : T[n] = E[1 + n - 1]
    BY <1>1, <1>3, SubSeqProperties
  <1> HIDE DEF T
  <1>5. Len(T) = Len(s) - 1 /\ \A n \in 1 .. Len(s) - 1 : T[n] = E[n]
    BY <1>1, <1>4
  <1>6. ASSUME NEW n \in 1 .. Len(F) PROVE F[n] = T[n]
    <2>1. n \in 1 .. Len(t) /\ n \in 1 .. Len(s) - 1 /\ n \in 1 .. Len(s)
      BY <1>1, <1>2
    <2>2. EntryOf(g, t[n]) = EntryOf(h, s[n])
      BY <2>1 DEF EntryOf
    <2> QED
      BY <1>1, <1>2, <1>5, <2>1, <2>2
  <1>7. F = T
    BY <1>2, <1>4, <1>5, <1>6, SeqEqual
  <1> QED
    BY <1>7 DEF F, T, E

(* map_ finds a key where its entry is in the list, and no other entry has this key. *)
LEMMA KeyPlace ==
    ASSUME NEW h, NEW first, NEW last, NEW map, NEW size, NEW s, CacheHolds(h, first, last, map, size, s),
           NEW k \in Keys
    PROVE  LET E == EntriesFrom(h, first)
           IN  /\ map[k] = Null => ~ \E n \in DOMAIN E : E[n].key = k
               /\ map[k] # Null => \E i \in 1 .. Len(s) :
                      /\ s[i] = map[k] /\ h[s[i]].key = k
                      /\ \E n \in DOMAIN E : E[n].key = k
                      /\ (CHOOSE n \in DOMAIN E : E[n].key = k) = i
                      /\ E[i].value = h[s[i]].value /\ h[s[i]].value \in Values
  <1> DEFINE E == EntriesFrom(h, first)
  <1>1. /\ \A n \in 1 .. Len(s) : s[n] # Null /\ h[s[n]].value \in Values
        /\ \A m, n \in 1 .. Len(s) : h[s[m]].key = h[s[n]].key => m = n
    BY HoldsParts
  <1>2. E = EntriesOf(h, s) /\ DOMAIN E = 1 .. Len(s) /\ \A n \in 1 .. Len(s) : E[n] = EntryOf(h, s[n])
    BY EntriesParts
  <1> HIDE DEF E
  <1>3. \A n \in 1 .. Len(s) : E[n].key = h[s[n]].key /\ E[n].value = h[s[n]].value
    BY <1>2 DEF EntryOf
  <1>4. ASSUME map[k] = Null PROVE ~ \E n \in DOMAIN E : E[n].key = k
    BY <1>1, <1>2, <1>3, <1>4 DEF CacheHolds
  <1>5. ASSUME map[k] # Null
        PROVE  \E i \in 1 .. Len(s) :
                      /\ s[i] = map[k] /\ h[s[i]].key = k
                      /\ \E n \in DOMAIN E : E[n].key = k
                      /\ (CHOOSE n \in DOMAIN E : E[n].key = k) = i
                      /\ E[i].value = h[s[i]].value /\ h[s[i]].value \in Values
    <2>1. PICK i \in 1 .. Len(s) : s[i] = map[k] /\ h[s[i]].key = k
      BY <1>5 DEF CacheHolds
    <2>2. i \in DOMAIN E /\ E[i].key = k
      BY <1>2, <1>3, <2>1
    <2>3. \A n \in DOMAIN E : E[n].key = k => n = i
      BY <1>1, <1>2, <1>3, <2>1
    <2>4. (CHOOSE n \in DOMAIN E : E[n].key = k) = i
      BY <2>2, <2>3
    <2> QED
      BY <1>1, <1>3, <2>1, <2>2, <2>4
  <1> QED
    BY <1>4, <1>5 DEF E

(* The entries before and after a step. *)
LEMMA EntriesNow ==
    /\ Cache!Entries = EntriesFrom(cacheHeap, head_)
    /\ Cache!Entries' = EntriesFrom(cacheHeap', head_')
  BY DEF Cache!Entries, Cache!Chain, EntriesFrom, EntryOf

(* An empty cache. *)
LEMMA CacheStarts ==
    ASSUME Cache!Init PROVE CacheInv /\ Cache!Abstract!Init
  <1>1. /\ cacheHeap = [a \in Addr |-> Free] /\ head_ = Null /\ tail_ = Null
        /\ map_ = [k \in Keys |-> Null] /\ cacheSize = 0 /\ result = Null
    BY DEF Cache!Init
  <1>2. cacheHeap \in CacheHeaps /\ \A a \in Addr : ~Lives(cacheHeap, a)
    BY <1>1 DEF CacheHeaps, Lives
  <1>3. <<>> \in Seq(Addr) /\ Len(<<>>) = 0 /\ \A n : n \notin 1 .. Len(<<>>)
    BY EmptySeq
  <1>4. Threads(cacheHeap, head_, tail_, <<>>)
    BY <1>1, <1>2, <1>3 DEF Threads, Linked, Beside
  <1>5. map_ \in [Keys -> Addr \cup {Null}] /\ \A k \in Keys : map_[k] = Null
    BY <1>1
  <1>6. CacheHolds(cacheHeap, head_, tail_, map_, cacheSize, <<>>)
    BY <1>1, <1>2, <1>3, <1>4, <1>5, ContainersAssumption DEF CacheHolds
  <1>7. EntriesFrom(cacheHeap, head_) \in Seq(CacheEntry) /\ Len(EntriesFrom(cacheHeap, head_)) = 0
    BY <1>3, <1>6, EntriesParts
  <1>8. Cache!Entries = <<>>
    BY <1>7, EntriesNow, EmptySeq
  <1> QED
    BY <1>1, <1>6, <1>8 DEF CacheInv, Cache!Abstract!Init

(* A get touches its node, and is a get of the abstract cache (lines 78-83). *)
LEMMA GetStep ==
    ASSUME NEW s, CacheHolds(cacheHeap, head_, tail_, map_, cacheSize, s), NEW k \in Keys, Cache!Get(k)
    PROVE  CacheInv' /\ Cache!Abstract!Get(k)
  <1> DEFINE E == EntriesFrom(cacheHeap, head_)
  <1>1. CASE map_[k] = Null
    <2>1. UNCHANGED <<cacheHeap, head_, tail_, map_, cacheSize>> /\ result' = Null
      BY <1>1 DEF Cache!Get
    <2>2. CacheInv'
      BY <2>1 DEF CacheInv
    <2>3. ~ \E n \in DOMAIN E : E[n].key = k
      BY <1>1, KeyPlace
    <2>4. Cache!Entries = E /\ Cache!Entries' = E
      BY <2>1, EntriesNow
    <2> HIDE DEF E
    <2>5. ~ Cache!Abstract!Cached(k)
      BY <2>3, <2>4 DEF Cache!Abstract!Cached
    <2> QED
      BY <2>1, <2>2, <2>4, <2>5 DEF Cache!Abstract!Get
  <1>2. CASE map_[k] # Null
    <2> DEFINE L == Cache!List(cacheHeap, head_, tail_)
               M == Cache!move_to_front(L, map_[k])
    <2>1. PICK i \in 1 .. Len(s) :
              /\ s[i] = map_[k] /\ cacheHeap[s[i]].key = k
              /\ \E n \in DOMAIN E : E[n].key = k
              /\ (CHOOSE n \in DOMAIN E : E[n].key = k) = i
              /\ E[i].value = cacheHeap[s[i]].value /\ cacheHeap[s[i]].value \in Values
      BY <1>2, KeyPlace
    <2> HIDE DEF E
    <2>2. /\ cacheHeap' = M.heap /\ head_' = M.head /\ tail_' = M.tail
          /\ map_' = map_ /\ cacheSize' = cacheSize /\ result' = cacheHeap[s[i]].value
      BY <1>2, <2>1 DEF Cache!Get, Cache!Install, Cache!TheList
    <2>3. L.heap = cacheHeap /\ L.head = head_ /\ L.tail = tail_ /\ L = [heap |-> L.heap, head |-> L.head, tail |-> L.tail]
      BY DEF Cache!List
    <2> HIDE DEF L
    <2>4. M = Cache!move_to_front(L, s[i])
      BY <2>1
    <2> HIDE DEF M
    <2>5. CacheHolds(L.heap, L.head, L.tail, map_, cacheSize, s)
      BY <2>3
    <2>6. CacheHolds(M.heap, M.head, M.tail, map_, cacheSize, ToFront(s, i)) /\ SameEntries(M.heap, cacheHeap)
      BY <2>3, <2>4, <2>5, TouchHolds
    <2>7. CacheHolds(cacheHeap', head_', tail_', map_', cacheSize', ToFront(s, i)) /\ SameEntries(cacheHeap', cacheHeap)
      BY <2>2, <2>6
    <2>8. CacheInv'
      BY <2>7 DEF CacheInv
    <2> DEFINE v == cacheHeap[s[i]].value
    <2>9. /\ v \in Values
          /\ \A n \in 1 .. Len(s) : /\ cacheHeap'[s[n]].key = cacheHeap[s[n]].key
                                    /\ cacheHeap'[s[n]].value = IF n = i THEN v ELSE cacheHeap[s[n]].value
      <3>1. \A n \in 1 .. Len(s) : s[n] \in Addr /\ Lives(cacheHeap, s[n])
        BY HoldsParts
      <3> QED
        BY <2>1, <2>7, <3>1 DEF SameEntries
    <2>10. E = EntriesOf(cacheHeap, s)
      BY EntriesParts DEF E
    <2>11. EntriesFrom(cacheHeap', head_') = EntriesOf(cacheHeap', ToFront(s, i))
      BY <2>7, EntriesParts
    <2>12. CacheHolds(cacheHeap', head_', tail_', map_, cacheSize, ToFront(s, i))
      BY <2>2, <2>7
    <2> HIDE DEF v
    <2>13. EntriesOf(cacheHeap', ToFront(s, i)) = <<[key |-> cacheHeap[s[i]].key, value |-> v]>> \o RemoveAt(EntriesOf(cacheHeap, s), i)
      BY <2>9, <2>12, TouchedEntries
    <2>14. Cache!Entries = E /\ Cache!Entries' = <<[key |-> k, value |-> v]>> \o RemoveAt(E, i)
      BY <2>1, <2>10, <2>11, <2>13, EntriesNow DEF E
    <2>15. Cache!Abstract!Cached(k) /\ Cache!Abstract!Place(k) = i /\ Cache!Abstract!ValueOf(k) = v
      BY <2>1, <2>14 DEF Cache!Abstract!Cached, Cache!Abstract!Place, Cache!Abstract!ValueOf, v
    <2>16. Cache!Entries' = Cache!Abstract!InFront(k, Cache!Abstract!ValueOf(k), Cache!Abstract!RemoveAt(Cache!Entries, Cache!Abstract!Place(k)))
      BY <2>14, <2>15 DEF Cache!Abstract!InFront, Cache!Abstract!RemoveAt, RemoveAt
    <2>17. result' = v
      BY <2>2 DEF v
    <2> QED
      BY <2>8, <2>15, <2>16, <2>17 DEF Cache!Abstract!Get
  <1> QED
    BY <1>1, <1>2

(* A put of a key the map knows overwrites its value and touches it (lines 87-91). *)
LEMMA PutPresentStep ==
    ASSUME NEW s, CacheHolds(cacheHeap, head_, tail_, map_, cacheSize, s), NEW k \in Keys, NEW v \in Values,
           Cache!PutPresent(k, v)
    PROVE  CacheInv' /\ Cache!Abstract!Put(k, v)
  <1> DEFINE E == EntriesFrom(cacheHeap, head_)
             updated == [cacheHeap EXCEPT ![map_[k]].value = v]
             L == Cache!List(updated, head_, tail_)
             M == Cache!move_to_front(L, map_[k])
  <1>1. PICK i \in 1 .. Len(s) :
            /\ s[i] = map_[k] /\ cacheHeap[s[i]].key = k
            /\ \E n \in DOMAIN E : E[n].key = k
            /\ (CHOOSE n \in DOMAIN E : E[n].key = k) = i
    BY KeyPlace DEF Cache!PutPresent
  <1> HIDE DEF E
  <1>2. /\ cacheHeap' = M.heap /\ head_' = M.head /\ tail_' = M.tail
        /\ map_' = map_ /\ cacheSize' = cacheSize /\ result' = result
    BY DEF Cache!PutPresent, Cache!Install
  <1>3. L.heap = updated /\ L.head = head_ /\ L.tail = tail_ /\ L = [heap |-> L.heap, head |-> L.head, tail |-> L.tail]
    BY DEF Cache!List
  <1>4. updated = [cacheHeap EXCEPT ![s[i]].value = v]
    BY <1>1
  <1> HIDE DEF L, updated
  <1>5. /\ CacheHolds(updated, head_, tail_, map_, cacheSize, s)
        /\ \A n \in 1 .. Len(s) : /\ updated[s[n]].key = cacheHeap[s[n]].key
                                  /\ updated[s[n]].value = IF n = i THEN v ELSE cacheHeap[s[n]].value
    <2> DEFINE g == [cacheHeap EXCEPT ![s[i]].value = v]
    <2>1. /\ CacheHolds(g, head_, tail_, map_, cacheSize, s)
          /\ \A n \in 1 .. Len(s) : /\ g[s[n]].key = cacheHeap[s[n]].key
                                    /\ g[s[n]].value = IF n = i THEN v ELSE cacheHeap[s[n]].value
      BY WriteHolds
    <2> HIDE DEF g
    <2>2. updated = g
      BY <1>4 DEF g
    <2> QED
      BY <2>1, <2>2
  <1>6. M = Cache!move_to_front(L, s[i])
    BY <1>1
  <1> HIDE DEF M
  <1>7. CacheHolds(L.heap, L.head, L.tail, map_, cacheSize, s)
    BY <1>3, <1>5
  <1>8. CacheHolds(M.heap, M.head, M.tail, map_, cacheSize, ToFront(s, i)) /\ SameEntries(M.heap, updated)
    BY <1>3, <1>6, <1>7, TouchHolds
  <1>9. CacheHolds(cacheHeap', head_', tail_', map_, cacheSize, ToFront(s, i)) /\ SameEntries(cacheHeap', updated)
    BY <1>2, <1>8
  <1>10. CacheInv'
    BY <1>2, <1>9 DEF CacheInv
  <1>11. \A n \in 1 .. Len(s) : /\ cacheHeap'[s[n]].key = cacheHeap[s[n]].key
                                /\ cacheHeap'[s[n]].value = IF n = i THEN v ELSE cacheHeap[s[n]].value
    <2>1. \A n \in 1 .. Len(s) : s[n] \in Addr /\ Lives(updated, s[n])
      BY <1>5, HoldsParts
    <2> QED
      BY <1>5, <1>9, <2>1 DEF SameEntries
  <1>12. E = EntriesOf(cacheHeap, s)
    BY EntriesParts DEF E
  <1>13. EntriesFrom(cacheHeap', head_') = EntriesOf(cacheHeap', ToFront(s, i))
    BY <1>9, EntriesParts
  <1>14. EntriesOf(cacheHeap', ToFront(s, i)) = <<[key |-> cacheHeap[s[i]].key, value |-> v]>> \o RemoveAt(EntriesOf(cacheHeap, s), i)
    BY <1>9, <1>11, TouchedEntries
  <1>15. Cache!Entries = E /\ Cache!Entries' = <<[key |-> k, value |-> v]>> \o RemoveAt(E, i)
    BY <1>1, <1>12, <1>13, <1>14, EntriesNow DEF E
  <1>16. Cache!Abstract!Cached(k) /\ Cache!Abstract!Place(k) = i
    BY <1>1, <1>15 DEF Cache!Abstract!Cached, Cache!Abstract!Place
  <1>17. Cache!Entries' = Cache!Abstract!InFront(k, v, Cache!Abstract!RemoveAt(Cache!Entries, Cache!Abstract!Place(k)))
    BY <1>15, <1>16 DEF Cache!Abstract!InFront, Cache!Abstract!RemoveAt, RemoveAt
  <1> QED
    BY <1>2, <1>10, <1>16, <1>17 DEF Cache!Abstract!Put

(* The room a put of a new key makes: all nodes but the last one of a full cache. *)
LEMMA RoomMade ==
    ASSUME NEW s, CacheHolds(cacheHeap, head_, tail_, map_, cacheSize, s), NEW k \in Keys, map_[k] = Null
    PROVE  LET L == IF cacheSize = Capacity THEN Cache!evict(Cache!TheList) ELSE Cache!TheList
               map == [x \in Keys |-> IF x \in Cache!EvictedKey THEN Null ELSE map_[x]]
               size == IF cacheSize = Capacity THEN cacheSize - 1 ELSE cacheSize
               E == EntriesFrom(cacheHeap, head_)
           IN  \E t : /\ CacheHolds(L.heap, L.head, L.tail, map, size, t)
                      /\ L = [heap |-> L.heap, head |-> L.head, tail |-> L.tail]
                      /\ size < Capacity /\ map[k] = Null
                      /\ EntriesOf(L.heap, t) = IF Len(E) < Capacity THEN E ELSE SubSeq(E, 1, Capacity - 1)
  <1> DEFINE K == Cache!TheList
             L == IF cacheSize = Capacity THEN Cache!evict(K) ELSE K
             map == [x \in Keys |-> IF x \in Cache!EvictedKey THEN Null ELSE map_[x]]
             size == IF cacheSize = Capacity THEN cacheSize - 1 ELSE cacheSize
             E == EntriesFrom(cacheHeap, head_)
  <1>1. Len(s) \in Nat /\ cacheSize = Len(s) /\ Len(s) <= Capacity /\ Capacity \in Nat /\ Capacity # 0
    BY HoldsParts, ContainersAssumption DEF CacheHolds
  <1>2. E = EntriesOf(cacheHeap, s) /\ Len(E) = Len(s)
    BY EntriesParts
  <1>3. K.heap = cacheHeap /\ K.head = head_ /\ K.tail = tail_ /\ K = [heap |-> K.heap, head |-> K.head, tail |-> K.tail]
    BY DEF Cache!TheList, Cache!List
  <1>4. CacheHolds(K.heap, K.head, K.tail, map_, cacheSize, s)
    BY <1>3
  <1>5. map_ \in [Keys -> Addr \cup {Null}] /\ map[k] = Null
    BY DEF CacheHolds
  <1> HIDE DEF K, E
  <1>6. CASE cacheSize # Capacity
    <2>1. L = K /\ size = cacheSize /\ size < Capacity /\ Len(E) < Capacity
      BY <1>1, <1>2, <1>6
    <2>2. map = map_
      BY <1>5, <1>6 DEF Cache!EvictedKey
    <2>3. EntriesOf(L.heap, s) = E
      BY <1>2, <1>3, <2>1
    <2> HIDE DEF L, map, size
    <2>4. CacheHolds(L.heap, L.head, L.tail, map, size, s)
      BY <1>4, <2>1, <2>2
    <2> QED
      BY <1>3, <1>5, <2>1, <2>3, <2>4 DEF L, map, size, E, K
  <1>7. CASE cacheSize = Capacity
    <2> DEFINE t == RemoveAt(s, Len(s))
               map2 == [x \in Keys |-> IF x = K.heap[K.tail].key THEN Null ELSE map_[x]]
    <2>1. L = Cache!evict(K) /\ size = cacheSize - 1 /\ size < Capacity /\ ~(Len(E) < Capacity) /\ Len(s) # 0 /\ Len(s) = Capacity
      BY <1>1, <1>2, <1>7
    <2>2. map = map2
      BY <1>3, <1>7 DEF Cache!EvictedKey
    <2>3. L = [heap |-> L.heap, head |-> L.head, tail |-> L.tail]
      <3>1. K.tail # Null => \E h, f, l : Cache!evict(K) = [heap |-> h, head |-> f, tail |-> l]
        BY DEF Cache!evict, Cache!List
      <3>2. \E h, f, l : Cache!evict(K) = [heap |-> h, head |-> f, tail |-> l]
        BY <1>3, <3>1 DEF Cache!evict
      <3> QED
        BY <2>1, <3>2
    <2> HIDE DEF L
    <2>4. /\ CacheHolds(L.heap, L.head, L.tail, map2, cacheSize - 1, t) /\ Len(t) = Len(s) - 1
          /\ \A n \in 1 .. Len(t) : /\ t[n] = s[n] /\ L.heap[t[n]].key = K.heap[s[n]].key
                                    /\ L.heap[t[n]].value = K.heap[s[n]].value
      BY <1>4, <2>1, EvictHolds
    <2> HIDE DEF t, map2, map, size
    <2>5. EntriesOf(L.heap, t) = SubSeq(EntriesOf(cacheHeap, s), 1, Len(s) - 1)
      BY <1>3, <2>1, <2>4, EvictedEntries, SMTT(60)
    <2>6. EntriesOf(L.heap, t) = SubSeq(E, 1, Capacity - 1)
      BY <1>2, <2>1, <2>5
    <2>7. CacheHolds(L.heap, L.head, L.tail, map, size, t)
      BY <2>1, <2>2, <2>4
    <2> QED
      BY <1>5, <2>1, <2>3, <2>6, <2>7 DEF L, map, size, E, K
  <1> QED
    BY <1>6, <1>7

(* A put of a new key (lines 92-99). *)
LEMMA PutNewStep ==
    ASSUME NEW s, CacheHolds(cacheHeap, head_, tail_, map_, cacheSize, s), NEW k \in Keys, NEW v \in Values,
           Cache!PutNew(k, v)
    PROVE  CacheInv' /\ Cache!Abstract!Put(k, v)
  <1> DEFINE L == IF cacheSize = Capacity THEN Cache!evict(Cache!TheList) ELSE Cache!TheList
             map == [x \in Keys |-> IF x \in Cache!EvictedKey THEN Null ELSE map_[x]]
             size == IF cacheSize = Capacity THEN cacheSize - 1 ELSE cacheSize
             E == EntriesFrom(cacheHeap, head_)
             kept == IF Len(E) < Capacity THEN E ELSE SubSeq(E, 1, Capacity - 1)
  <1>1. map_[k] = Null /\ cacheSize' = size + 1 /\ result' = result
    BY DEF Cache!PutNew
  <1>2. PICK t : /\ CacheHolds(L.heap, L.head, L.tail, map, size, t)
                 /\ L = [heap |-> L.heap, head |-> L.head, tail |-> L.tail]
                 /\ size < Capacity /\ map[k] = Null /\ EntriesOf(L.heap, t) = kept
    BY <1>1, RoomMade
  <1>3. PICK a \in Addr : /\ L.heap[a] = Free
                          /\ cacheHeap' = WithNode(L, k, v, a).heap
                          /\ head_' = WithNode(L, k, v, a).head /\ tail_' = WithNode(L, k, v, a).tail
                          /\ map_' = [x \in Keys |-> IF x = k THEN a ELSE IF x \in Cache!EvictedKey THEN Null ELSE map_[x]]
    BY DEF Cache!PutNew, Cache!Install, WithNode
  <1>4. map_' = Learned(map, k, a)
    BY <1>3 DEF Learned
  <1>5. Len(s) \in Nat /\ ~ \E n \in DOMAIN E : E[n].key = k
    BY <1>1, KeyPlace, HoldsParts
  <1> HIDE DEF L, map, size, E, kept
  <1> DEFINE M == WithNode(L, k, v, a)
  <1>6. NodeAdded(M, L, map, size, t, k, v, a)
    <2>1. /\ CacheHolds(L.heap, L.head, L.tail, map, size, t) /\ L.heap[a] = Free
          /\ L = [heap |-> L.heap, head |-> L.head, tail |-> L.tail] /\ size < Capacity /\ map[k] = Null
      BY <1>2, <1>3
    <2> QED
      BY <2>1, AddHolds
  <1>7. CacheHolds(cacheHeap', head_', tail_', map_', cacheSize', <<a>> \o t)
    BY <1>1, <1>3, <1>4, <1>6 DEF NodeAdded
  <1>8. CacheInv'
    BY <1>7 DEF CacheInv
  <1>9. EntriesOf(cacheHeap', <<a>> \o t) = <<[key |-> k, value |-> v]>> \o EntriesOf(L.heap, t)
    <2>1. CacheHolds(L.heap, L.head, L.tail, map, size, t) /\ cacheHeap' = M.heap
      BY <1>2, <1>3
    <2> HIDE DEF M
    <2> QED
      BY <1>6, <2>1, AddedEntries
  <1>10. EntriesFrom(cacheHeap', head_') = EntriesOf(cacheHeap', <<a>> \o t)
    BY <1>7, EntriesParts
  <1>11. Cache!Entries = E /\ Cache!Entries' = <<[key |-> k, value |-> v]>> \o kept
    BY <1>2, <1>9, <1>10, EntriesNow DEF E
  <1>12. ~ Cache!Abstract!Cached(k)
    BY <1>5, <1>11 DEF Cache!Abstract!Cached
  <1>13. Cache!Entries' = Cache!Abstract!InFront(k, v, IF Len(Cache!Entries) < Capacity THEN Cache!Entries ELSE SubSeq(Cache!Entries, 1, Capacity - 1))
    BY <1>11 DEF kept, Cache!Abstract!InFront
  <1> QED
    BY <1>1, <1>8, <1>12, <1>13 DEF Cache!Abstract!Put

(* A step of any container keeps the invariant, and is a step of the abstract cache or
   leaves it alone. *)
LEMMA CacheStep ==
    ASSUME CacheInv, [ContainerNext]_containerVars
    PROVE  CacheInv' /\ [Cache!Abstract!Next]_(Cache!Abstract!vars)
  <1>1. CASE Cache!Next
    <2>1. PICK s : CacheHolds(cacheHeap, head_, tail_, map_, cacheSize, s)
      BY DEF CacheInv
    <2>2. PICK k \in Keys : Cache!Get(k) \/ \E v \in Values : Cache!PutPresent(k, v) \/ Cache!PutNew(k, v)
      BY <1>1 DEF Cache!Next
    <2>3. CASE Cache!Get(k)
      BY <2>1, <2>3, GetStep DEF Cache!Abstract!Next
    <2>4. CASE \E v \in Values : Cache!PutPresent(k, v) \/ Cache!PutNew(k, v)
      <3>1. PICK v \in Values : Cache!PutPresent(k, v) \/ Cache!PutNew(k, v)
        BY <2>4
      <3>2. CacheInv' /\ Cache!Abstract!Put(k, v)
        BY <2>1, <3>1, PutPresentStep, PutNewStep
      <3> QED
        BY <3>2 DEF Cache!Abstract!Next
    <2> QED
      BY <2>2, <2>3, <2>4
  <1>2. CASE UNCHANGED cacheVars
    <2>1. UNCHANGED <<cacheHeap, head_, tail_, map_, cacheSize, result>>
      BY <1>2 DEF cacheVars
    <2>2. CacheInv' /\ Cache!Entries' = Cache!Entries
      BY <2>1, EntriesNow DEF CacheInv
    <2> QED
      BY <2>1, <2>2 DEF Cache!Abstract!vars
  <1> QED
    BY <1>1, <1>2 DEF ContainerNext, containerVars

(* For every capacity, set of keys and addresses: after any sequence of get and put the
   list and the map of the cache describe the same nodes, linked in both directions, and
   none is leaked (lru_cache.cpp:28-104). *)
THEOREM CacheListSound == ContainerSpec => []ListIntegrity
  <1>1. ContainerInit => CacheInv
    BY CacheStarts DEF ContainerInit
  <1>2. CacheInv /\ [ContainerNext]_containerVars => CacheInv'
    BY CacheStep
  <1> QED
    BY <1>1, <1>2, CacheInvIntegrity, PTL DEF ContainerSpec

(* get and put of the cache, seen through the entries in list order, are get and put of
   AbstractLRU: the step-by-step refinement, for every capacity. *)
THEOREM CacheIsLRU == ContainerSpec => ImplementsLRU
  <1>1. ContainerInit => CacheInv /\ Cache!Abstract!Init
    BY CacheStarts DEF ContainerInit
  <1>2. CacheInv /\ [ContainerNext]_containerVars => CacheInv' /\ [Cache!Abstract!Next]_(Cache!Abstract!vars)
    BY CacheStep
  <1> QED
    BY <1>1, <1>2, PTL DEF ContainerSpec, ImplementsLRU, Cache!ImplementsLRU, Cache!Abstract!Spec

-----------------------------------------------------------------------------
(* The doubly linked list. *)

(* Linked nodes stay linked while their pointers stay. *)
LEMMA LinkFrame ==
    ASSUME NEW null, NEW h, NEW first, NEW last, NEW s, Linked(null, h, first, last, s), NEW g,
           \A n \in 1 .. Len(s) : g[s[n]].prev = h[s[n]].prev /\ g[s[n]].next = h[s[n]].next
    PROVE  Linked(null, g, first, last, s)
  BY DEF Linked

-----------------------------------------------------------------------------
(* The heap of the linked lists, the nodes that live in it, and the list objects. *)
ListHeaps == [Cells -> List!Nodes \cup {Unused}]
Held(h, c) == h[c] # Unused
ListObjects == [head : Cells \cup {Nil}, tail : Cells \cup {Nil}, size : Nat]

(* List l consists of the nodes ss[l]; no node is in two lists or in none. *)
ListsHold(M, ss) ==
    /\ M = [heap |-> M.heap, lists |-> M.lists]
    /\ M.heap \in ListHeaps /\ M.lists \in [Lists -> ListObjects] /\ ss \in [Lists -> Seq(Cells)]
    /\ \A l \in Lists : /\ Linked(Nil, M.heap, M.lists[l].head, M.lists[l].tail, ss[l])
                        /\ M.lists[l].size = Len(ss[l])
                        /\ \A n \in 1 .. Len(ss[l]) : Held(M.heap, ss[l][n])
    /\ \A k, l \in Lists : \A m \in 1 .. Len(ss[k]), n \in 1 .. Len(ss[l]) :
           ss[k][m] = ss[l][n] => k = l
    /\ \A c \in Cells : Held(M.heap, c) => \E l \in Lists : \E n \in 1 .. Len(ss[l]) : ss[l][n] = c

DataOf(h, s) == [n \in 1 .. Len(s) |-> h[s[n]].data]

(* What the nodes of one list are. *)
LEMMA ListParts ==
    ASSUME NEW M, NEW ss, ListsHold(M, ss), NEW l \in Lists
    PROVE  /\ Len(ss[l]) \in Nat /\ ss[l] \in Seq(Cells) /\ M.lists[l].size = Len(ss[l])
           /\ Linked(Nil, M.heap, M.lists[l].head, M.lists[l].tail, ss[l])
           /\ M.lists[l].head = Beside(Nil, ss[l], 1) /\ M.lists[l].tail = Beside(Nil, ss[l], Len(ss[l]))
           /\ \A n \in 1 .. Len(ss[l]) :
                  /\ ss[l][n] \in Cells /\ ss[l][n] # Nil /\ Held(M.heap, ss[l][n])
                  /\ M.heap[ss[l][n]] \in List!Nodes /\ M.heap[ss[l][n]].data \in Values
           /\ \A m, n \in 1 .. Len(ss[l]) : ss[l][m] = ss[l][n] => m = n
  <1>1. ss[l] \in Seq(Cells) /\ M.lists[l].size = Len(ss[l]) /\ Linked(Nil, M.heap, M.lists[l].head, M.lists[l].tail, ss[l])
    BY DEF ListsHold
  <1>2. Len(ss[l]) \in Nat /\ \A n \in 1 .. Len(ss[l]) : ss[l][n] \in Cells
    BY <1>1, LenProperties, ElementOfSeq
  <1>3. \A n \in 1 .. Len(ss[l]) : Held(M.heap, ss[l][n])
    BY DEF ListsHold
  <1>4. \A c \in Cells : Held(M.heap, c) => M.heap[c] \in List!Nodes
    BY DEF ListsHold, ListHeaps, Held
  <1>5. \A n \in 1 .. Len(ss[l]) : M.heap[ss[l][n]] \in List!Nodes /\ ss[l][n] # Nil
    BY <1>2, <1>3, <1>4, ContainersAssumption
  <1>6. \A n \in 1 .. Len(ss[l]) : M.heap[ss[l][n]].data \in Values
    BY <1>5 DEF List!Nodes
  <1> QED
    BY <1>1, <1>2, <1>3, <1>5, <1>6 DEF Linked

(* A list has no more nodes than there are cells. *)
LEMMA ListFits ==
    ASSUME NEW M, NEW ss, ListsHold(M, ss), NEW l \in Lists
    PROVE  Len(ss[l]) <= Cardinality(Cells) /\ Cardinality(Cells) \in Nat
  <1> DEFINE s == ss[l]
             S == {s[n] : n \in 1 .. Len(s)}
  <1>1. /\ Len(s) \in Nat /\ s \in Seq(Cells) /\ \A n \in 1 .. Len(s) : s[n] \in Cells
        /\ \A m, n \in 1 .. Len(s) : s[m] = s[n] => m = n
    BY ListParts
  <1> HIDE DEF s
  <1>2. S \subseteq Cells /\ IsFiniteSet(Cells)
    BY <1>1, ContainersAssumption
  <1>3. Cardinality(S) <= Cardinality(Cells) /\ IsFiniteSet(S) /\ Cardinality(Cells) \in Nat
    BY <1>2, FS_Subset, FS_CardinalityType
  <1>4. Enumerates(s, S)
    BY <1>1, LenProperties DEF Enumerates
  <1>5. Cardinality(S) = Len(s)
    BY <1>3, <1>4, ListLength
  <1> QED
    BY <1>3, <1>5 DEF s

(* The walk along next finds the nodes, and the elements in them. *)
LEMMA NodesFound ==
    ASSUME NEW M, NEW ss, ListsHold(M, ss), NEW l \in Lists
    PROVE  /\ List!NodesOf(M, l) = ss[l] /\ List!ContentOf(M, l) = DataOf(M.heap, ss[l])
           /\ DataOf(M.heap, ss[l]) \in Seq(Values) /\ Len(DataOf(M.heap, ss[l])) = Len(ss[l])
           /\ \A n \in 1 .. Len(ss[l]) : DataOf(M.heap, ss[l])[n] = M.heap[ss[l][n]].data
  <1>1. /\ Len(ss[l]) \in Nat /\ ss[l] \in Seq(Cells)
        /\ Linked(Nil, M.heap, M.lists[l].head, M.lists[l].tail, ss[l])
        /\ \A n \in 1 .. Len(ss[l]) : Held(M.heap, ss[l][n]) /\ M.heap[ss[l][n]].data \in Values
    BY ListParts
  <1>2. List!NodesOf(M, l) = Visited(Nil, Walk(Nil, Unused, M.heap, M.lists[l].head, Cardinality(Cells)))
    BY DEF List!NodesOf, List!Cardinality, Cardinality, List!IsFiniteSet, IsFiniteSet, Visited, Walk, Walks, NextOf
  <1>3. Len(ss[l]) <= Cardinality(Cells) /\ Cardinality(Cells) \in Nat /\ Nil \notin Cells
    BY ListFits, ContainersAssumption
  <1>4. NoneFree(Unused, M.heap, ss[l])
    BY <1>1 DEF NoneFree, Held
  <1>5. List!NodesOf(M, l) = ss[l]
    BY <1>1, <1>2, <1>3, <1>4, WalkCollects
  <1>6. DOMAIN ss[l] = 1 .. Len(ss[l])
    BY <1>1, LenProperties
  <1>7. List!ContentOf(M, l) = DataOf(M.heap, ss[l])
    BY <1>5, <1>6 DEF List!ContentOf, DataOf
  <1>8. DataOf(M.heap, ss[l]) \in [1 .. Len(ss[l]) -> Values]
    BY <1>1 DEF DataOf
  <1>9. DataOf(M.heap, ss[l]) \in Seq(Values)
    BY <1>1, <1>8, SeqDef
  <1>10. Len(DataOf(M.heap, ss[l])) = Len(ss[l])
    BY <1>1, <1>8, <1>9, LenProperties
  <1> QED
    BY <1>5, <1>7, <1>9, <1>10 DEF DataOf

(* Two heaps with the same live nodes and elements: they differ in pointers. *)
SameData(g, h) ==
    \A c \in Cells : /\ Held(g, c) <=> Held(h, c)
                     /\ Held(h, c) => g[c].data = h[c].data

(* Writing the next pointer of a live node. *)
LEMMA ListSetNext ==
    ASSUME NEW h \in ListHeaps, NEW p \in Cells \cup {Nil}, p # Nil => Held(h, p), NEW x \in Cells \cup {Nil}
    PROVE  /\ List!SetNext(h, p, x) \in ListHeaps /\ SameData(List!SetNext(h, p, x), h)
           /\ \A c \in Cells : Held(h, c) =>
                  /\ List!SetNext(h, p, x)[c].prev = h[c].prev
                  /\ List!SetNext(h, p, x)[c].next = IF c = p THEN x ELSE h[c].next
  <1>1. CASE p = Nil
    BY <1>1, ContainersAssumption DEF List!SetNext, SameData
  <1>2. CASE p # Nil
    <2> DEFINE g == [h EXCEPT ![p].next = x]
    <2>1. List!SetNext(h, p, x) = g
      BY <1>2 DEF List!SetNext
    <2>2. p \in Cells /\ h[p] \in List!Nodes
      BY <1>2 DEF ListHeaps, Held
    <2>3. h \in [Cells -> List!Nodes \cup {Unused}]
      BY DEF ListHeaps
    <2>4. g[p] = [h[p] EXCEPT !.next = x] /\ \A c \in Cells \ {p} : g[c] = h[c]
      BY <2>2, <2>3
    <2>5. g[p] \in List!Nodes /\ g[p].prev = h[p].prev /\ g[p].next = x /\ g[p].data = h[p].data
      BY <2>2, <2>4 DEF List!Nodes
    <2>6. g \in ListHeaps
      BY <2>3, <2>5 DEF ListHeaps
    <2>7. g[p] # Unused /\ h[p] # Unused
      BY <2>2, <2>5, ContainersAssumption
    <2> HIDE DEF g
    <2> QED
      BY <2>1, <2>4, <2>5, <2>6, <2>7 DEF SameData, Held
  <1> QED
    BY <1>1, <1>2

(* Writing the prev pointer of a live node. *)
LEMMA ListSetPrev ==
    ASSUME NEW h \in ListHeaps, NEW p \in Cells \cup {Nil}, p # Nil => Held(h, p), NEW x \in Cells \cup {Nil}
    PROVE  /\ List!SetPrev(h, p, x) \in ListHeaps /\ SameData(List!SetPrev(h, p, x), h)
           /\ \A c \in Cells : Held(h, c) =>
                  /\ List!SetPrev(h, p, x)[c].next = h[c].next
                  /\ List!SetPrev(h, p, x)[c].prev = IF c = p THEN x ELSE h[c].prev
  <1>1. CASE p = Nil
    BY <1>1, ContainersAssumption DEF List!SetPrev, SameData
  <1>2. CASE p # Nil
    <2> DEFINE g == [h EXCEPT ![p].prev = x]
    <2>1. List!SetPrev(h, p, x) = g
      BY <1>2 DEF List!SetPrev
    <2>2. p \in Cells /\ h[p] \in List!Nodes
      BY <1>2 DEF ListHeaps, Held
    <2>3. h \in [Cells -> List!Nodes \cup {Unused}]
      BY DEF ListHeaps
    <2>4. g[p] = [h[p] EXCEPT !.prev = x] /\ \A c \in Cells \ {p} : g[c] = h[c]
      BY <2>2, <2>3
    <2>5. g[p] \in List!Nodes /\ g[p].next = h[p].next /\ g[p].prev = x /\ g[p].data = h[p].data
      BY <2>2, <2>4 DEF List!Nodes
    <2>6. g \in ListHeaps
      BY <2>3, <2>5 DEF ListHeaps
    <2>7. g[p] # Unused /\ h[p] # Unused
      BY <2>2, <2>5, ContainersAssumption
    <2> HIDE DEF g
    <2> QED
      BY <2>1, <2>4, <2>5, <2>6, <2>7 DEF SameData, Held
  <1> QED
    BY <1>1, <1>2

(* p->next = n; x->prev = q, for two pointers that are null or live. *)
Relinked(h, p, n, x, q) == List!SetPrev(List!SetNext(h, p, n), x, q)

Pointer(h, p) == p \in Cells \cup {Nil} /\ (p # Nil => Held(h, p))

RelinkedTo(g, h, p, n, x, q) ==
    /\ g \in ListHeaps /\ SameData(g, h)
    /\ \A c \in Cells : Held(h, c) => /\ g[c].next = IF c = p THEN n ELSE h[c].next
                                      /\ g[c].prev = IF c = x THEN q ELSE h[c].prev

(* Two pointers written: only those two change. *)
LEMMA RelinkedFacts ==
    ASSUME NEW h \in ListHeaps, NEW p, Pointer(h, p), NEW n \in Cells \cup {Nil},
           NEW x, Pointer(h, x), NEW q \in Cells \cup {Nil}
    PROVE  RelinkedTo(Relinked(h, p, n, x, q), h, p, n, x, q)
  <1> DEFINE f == List!SetNext(h, p, n)
             g == List!SetPrev(f, x, q)
  <1>1. /\ f \in ListHeaps /\ SameData(f, h)
        /\ \A c \in Cells : Held(h, c) => f[c].prev = h[c].prev /\ f[c].next = IF c = p THEN n ELSE h[c].next
    BY ListSetNext DEF Pointer
  <1> HIDE DEF f
  <1>2. x \in Cells \cup {Nil} /\ (x # Nil => Held(f, x))
    BY <1>1 DEF SameData, Pointer
  <1>3. /\ g \in ListHeaps /\ SameData(g, f)
        /\ \A c \in Cells : Held(f, c) => g[c].next = f[c].next /\ g[c].prev = IF c = x THEN q ELSE f[c].prev
    BY <1>1, <1>2, ListSetPrev
  <1> HIDE DEF g
  <1>4. SameData(g, h)
    BY <1>1, <1>3 DEF SameData
  <1>5. \A c \in Cells : Held(h, c) => /\ g[c].next = IF c = p THEN n ELSE h[c].next
                                       /\ g[c].prev = IF c = x THEN q ELSE h[c].prev
    BY <1>1, <1>3 DEF SameData
  <1>6. Relinked(h, p, n, x, q) = g
    BY DEF Relinked, f, g
  <1> QED
    BY <1>3, <1>4, <1>5, <1>6 DEF RelinkedTo

(* new finds a free cell if there is one. *)
LEMMA NewCellFree ==
    ASSUME NEW h, List!FreeCells(h) # {}
    PROVE  List!NewCell(h) \in Cells /\ ~Held(h, List!NewCell(h))
  <1> DEFINE F == List!FreeCells(h)
  <1>1. F \in SUBSET Nat /\ F # {}
    BY ContainersAssumption DEF List!FreeCells
  <1>2. \E c \in F : \A d \in F : ~(d < c)
    BY <1>1, LeastNumber
  <1>3. \E c \in F : \A d \in F : c <= d
    BY <1>1, <1>2
  <1> HIDE DEF F
  <1>4. (CHOOSE c \in F : \A d \in F : c <= d) \in F
    BY <1>3
  <1>5. List!NewCell(h) \in F
    BY <1>4 DEF List!NewCell, F
  <1> QED
    BY <1>5 DEF F, List!FreeCells, Held

-----------------------------------------------------------------------------
(* In the heap g list l consists of the nodes t and the other lists are as they were. *)
OthersKept(g, M, ss, l) ==
    \A k \in Lists \ {l} : \A n \in 1 .. Len(ss[k]) :
        /\ Held(g, ss[k][n]) /\ g[ss[k][n]].data = M.heap[ss[k][n]].data
        /\ g[ss[k][n]].prev = M.heap[ss[k][n]].prev /\ g[ss[k][n]].next = M.heap[ss[k][n]].next

Rebuilt(g, t, M, ss, l) ==
    /\ g \in ListHeaps /\ t \in Seq(Cells) /\ OthersKept(g, M, ss, l)
    /\ \A n \in 1 .. Len(t) : Held(g, t[n])
    /\ \A k \in Lists \ {l} : \A m \in 1 .. Len(ss[k]), n \in 1 .. Len(t) : ss[k][m] # t[n]
    /\ \A c \in Cells : Held(g, c) =>
           \/ \E n \in 1 .. Len(t) : t[n] = c
           \/ \E k \in Lists \ {l} : \E n \in 1 .. Len(ss[k]) : ss[k][n] = c

(* N is the memory after an operation that made e the elements of list l. *)
Yields(N, M, ss, l, e) ==
    \E tt : /\ ListsHold(N, tt) /\ DataOf(N.heap, tt[l]) = e
            /\ \A k \in Lists \ {l} : DataOf(N.heap, tt[k]) = DataOf(M.heap, ss[k])

(* A heap in which list l was rebuilt is again one that lists hold. *)
LEMMA RebuiltHolds ==
    ASSUME NEW M, NEW ss, ListsHold(M, ss), NEW l \in Lists, NEW g, NEW t, Rebuilt(g, t, M, ss, l),
           NEW first, NEW last, Linked(Nil, g, first, last, t)
    PROVE  LET N == List!With(M, l, g, first, last, Len(t))
           IN  ListsHold(N, [ss EXCEPT ![l] = t]) /\ Yields(N, M, ss, l, DataOf(g, t))
  <1> DEFINE N == List!With(M, l, g, first, last, Len(t))
             tt == [ss EXCEPT ![l] = t]
             L == [head |-> first, tail |-> last, size |-> Len(t)]
             objects == [M.lists EXCEPT ![l] = L]
  <1>1. g \in ListHeaps /\ t \in Seq(Cells) /\ Len(t) \in Nat
    BY LenProperties DEF Rebuilt
  <1>2. N = [heap |-> g, lists |-> objects]
    BY DEF List!With
  <1>3. N.heap = g /\ N.lists = objects /\ N = [heap |-> N.heap, lists |-> N.lists]
    BY <1>2
  <1>4. first \in Cells \cup {Nil} /\ last \in Cells \cup {Nil}
    BY <1>1, BesideType DEF Linked
  <1>5. L \in ListObjects /\ L.head = first /\ L.tail = last /\ L.size = Len(t)
    BY <1>1, <1>4 DEF ListObjects
  <1> HIDE DEF L
  <1>6. M.lists \in [Lists -> ListObjects] /\ ss \in [Lists -> Seq(Cells)]
    BY DEF ListsHold
  <1>7. /\ objects \in [Lists -> ListObjects] /\ objects[l] = L
        /\ \A k \in Lists \ {l} : objects[k] = M.lists[k]
    BY <1>5, <1>6
  <1>8. tt \in [Lists -> Seq(Cells)] /\ tt[l] = t /\ \A k \in Lists \ {l} : tt[k] = ss[k]
    BY <1>1, <1>6
  <1> HIDE DEF N, tt, objects
  <1>9. ASSUME NEW k \in Lists
        PROVE  /\ Linked(Nil, g, objects[k].head, objects[k].tail, tt[k])
               /\ objects[k].size = Len(tt[k])
               /\ \A n \in 1 .. Len(tt[k]) : Held(g, tt[k][n])
    <2>1. CASE k = l
      BY <1>5, <1>7, <1>8, <2>1 DEF Rebuilt
    <2>2. CASE k # l
      <3>1. Linked(Nil, M.heap, M.lists[k].head, M.lists[k].tail, ss[k]) /\ M.lists[k].size = Len(ss[k])
        BY ListParts
      <3>2. \A n \in 1 .. Len(ss[k]) : /\ Held(g, ss[k][n])
                                       /\ g[ss[k][n]].prev = M.heap[ss[k][n]].prev
                                       /\ g[ss[k][n]].next = M.heap[ss[k][n]].next
        BY <2>2 DEF Rebuilt, OthersKept
      <3>3. Linked(Nil, g, M.lists[k].head, M.lists[k].tail, ss[k])
        BY <3>1, <3>2, LinkFrame
      <3>4. objects[k] = M.lists[k] /\ tt[k] = ss[k]
        BY <1>7, <1>8, <2>2
      <3> QED
        BY <3>1, <3>2, <3>3, <3>4
    <2> QED
      BY <2>1, <2>2
  <1>10. ASSUME NEW j \in Lists, NEW k \in Lists, NEW m \in 1 .. Len(tt[j]), NEW n \in 1 .. Len(tt[k]), tt[j][m] = tt[k][n]
         PROVE  j = k
    <2>1. CASE j = l \/ k = l
      BY <1>8, <1>10, <2>1 DEF Rebuilt
    <2>2. CASE j # l /\ k # l
      BY <1>8, <1>10, <2>2 DEF ListsHold
    <2> QED
      BY <2>1, <2>2
  <1>11. ASSUME NEW c \in Cells, Held(g, c) PROVE \E k \in Lists : \E n \in 1 .. Len(tt[k]) : tt[k][n] = c
    BY <1>8, <1>11 DEF Rebuilt
  <1>12. ListsHold(N, tt)
    BY <1>1, <1>3, <1>7, <1>8, <1>9, <1>10, <1>11 DEF ListsHold
  <1>13. ASSUME NEW k \in Lists \ {l} PROVE DataOf(g, tt[k]) = DataOf(M.heap, ss[k])
    <2>1. \A n \in 1 .. Len(ss[k]) : g[ss[k][n]].data = M.heap[ss[k][n]].data
      BY DEF Rebuilt, OthersKept
    <2> QED
      BY <1>8, <2>1 DEF DataOf
  <1>14. Yields(N, M, ss, l, DataOf(g, t))
    BY <1>3, <1>8, <1>12, <1>13 DEF Yields
  <1> QED
    BY <1>12, <1>14 DEF N, tt

(* The nodes of list l and those of the others. *)
LEMMA NodesApart ==
    ASSUME NEW M, NEW ss, ListsHold(M, ss), NEW l \in Lists, NEW k \in Lists \ {l}
    PROVE  \A m \in 1 .. Len(ss[k]) : /\ ss[k][m] \in Cells /\ Held(M.heap, ss[k][m])
                                      /\ \A n \in 1 .. Len(ss[l]) : ss[k][m] # ss[l][n]
  <1>1. \A m \in 1 .. Len(ss[k]) : ss[k][m] \in Cells /\ Held(M.heap, ss[k][m])
    BY ListParts
  <1> QED
    BY <1>1 DEF ListsHold

-----------------------------------------------------------------------------
(* A new node linked in before the i-th node of a list: push_front, push_back and
   insert_at (lines 73-117). *)
Inserted(M, ss, l, i, v) ==
    LET s == ss[l]
        a == List!NewCell(M.heap)
        p == Beside(Nil, s, i - 1)
        x == Beside(Nil, s, i)
        h == [M.heap EXCEPT ![a] = [data |-> v, prev |-> p, next |-> x]]
    IN  List!With(M, l, Relinked(h, p, a, x, a), IF i = 1 THEN a ELSE M.lists[l].head,
                  IF i = Len(s) + 1 THEN a ELSE M.lists[l].tail, Len(s) + 1)

(* The insertion takes one free cell, and puts the element at its place. *)
LEMMA InsertedHolds ==
    ASSUME NEW M, NEW ss, ListsHold(M, ss), NEW l \in Lists, NEW i \in 1 .. Len(ss[l]) + 1, NEW v \in Values,
           List!FreeCells(M.heap) # {}
    PROVE  /\ Yields(Inserted(M, ss, l, i, v), M, ss, l, InsertAt(DataOf(M.heap, ss[l]), i, v))
           /\ List!FreeCells(Inserted(M, ss, l, i, v).heap) = List!FreeCells(M.heap) \ {List!NewCell(M.heap)}
           /\ List!NewCell(M.heap) \in List!FreeCells(M.heap)
  <1> DEFINE s == ss[l]
             a == List!NewCell(M.heap)
             p == Beside(Nil, s, i - 1)
             x == Beside(Nil, s, i)
             node == [data |-> v, prev |-> p, next |-> x]
             h == [M.heap EXCEPT ![a] = node]
             g == Relinked(h, p, a, x, a)
             t == InsertAt(s, i, a)
             first == IF i = 1 THEN a ELSE M.lists[l].head
             last == IF i = Len(s) + 1 THEN a ELSE M.lists[l].tail
             N == Inserted(M, ss, l, i, v)
  <1>1. N = List!With(M, l, g, first, last, Len(s) + 1)
    BY DEF Inserted
  <1>2. a \in Cells /\ ~Held(M.heap, a)
    BY NewCellFree
  <1>3. /\ Len(s) \in Nat /\ s \in Seq(Cells) /\ Linked(Nil, M.heap, M.lists[l].head, M.lists[l].tail, s)
        /\ \A n \in 1 .. Len(s) : s[n] \in Cells /\ s[n] # Nil /\ Held(M.heap, s[n])
        /\ \A m, n \in 1 .. Len(s) : s[m] = s[n] => m = n
    BY ListParts
  <1>4. M.heap \in ListHeaps
    BY DEF ListsHold
  <1> HIDE DEF s, a, N
  <1>5. /\ p \in Cells \cup {Nil} /\ x \in Cells \cup {Nil}
        /\ (p # Nil => i - 1 \in 1 .. Len(s) /\ p = s[i - 1]) /\ (x # Nil => i \in 1 .. Len(s) /\ x = s[i])
        /\ (i - 1 \in 1 .. Len(s) => p = s[i - 1]) /\ (i \in 1 .. Len(s) => x = s[i])
    BY <1>3 DEF Beside
  <1> HIDE DEF p, x
  <1>6. node \in List!Nodes /\ node.data = v /\ node.prev = p /\ node.next = x
    BY <1>5 DEF List!Nodes
  <1> HIDE DEF node
  <1>7. h \in ListHeaps /\ h[a] = node /\ \A c \in Cells : c # a => h[c] = M.heap[c]
    BY <1>2, <1>4, <1>6 DEF ListHeaps
  <1>8. Held(h, a) /\ \A c \in Cells : c # a => (Held(h, c) <=> Held(M.heap, c))
    BY <1>6, <1>7, ContainersAssumption DEF Held
  <1>9. \A n \in 1 .. Len(s) : s[n] # a /\ h[s[n]] = M.heap[s[n]] /\ Held(h, s[n])
    BY <1>2, <1>3, <1>7, <1>8
  <1>10. (p # Nil => Held(h, p)) /\ (x # Nil => Held(h, x)) /\ p # a /\ x # a
    BY <1>2, <1>5, <1>9, ContainersAssumption
  <1> HIDE DEF h
  <1>11. /\ g \in ListHeaps /\ SameData(g, h)
         /\ \A c \in Cells : Held(h, c) => /\ g[c].next = IF c = p THEN a ELSE h[c].next
                                           /\ g[c].prev = IF c = x THEN a ELSE h[c].prev
    <2>1. h \in ListHeaps /\ p \in Cells \cup {Nil} /\ x \in Cells \cup {Nil} /\ a \in Cells \cup {Nil}
      BY <1>2, <1>5, <1>7
    <2>2. Pointer(h, p) /\ Pointer(h, x)
      BY <1>10, <2>1 DEF Pointer
    <2>3. RelinkedTo(g, h, p, a, x, a)
      BY <2>1, <2>2, RelinkedFacts
    <2> QED
      BY <2>3 DEF RelinkedTo
  <1> HIDE DEF g
  <1>12. LinkedIn(Nil, g, M.heap, s, i, a)
    <2>1. g[a].prev = Beside(Nil, s, i - 1) /\ g[a].next = Beside(Nil, s, i)
      BY <1>2, <1>6, <1>7, <1>8, <1>10, <1>11 DEF p, x
    <2>2. ASSUME NEW n \in 1 .. Len(s)
          PROVE  /\ g[s[n]].prev = IF n = i THEN a ELSE M.heap[s[n]].prev
                 /\ g[s[n]].next = IF n = i - 1 THEN a ELSE M.heap[s[n]].next
      <3>1. s[n] = x <=> n = i
        BY <1>3, <1>5
      <3>2. s[n] = p <=> n = i - 1
        BY <1>3, <1>5
      <3> QED
        BY <1>3, <1>9, <1>11, <3>1, <3>2
    <2> QED
      BY <2>1, <2>2 DEF LinkedIn
  <1>13. Linked(Nil, g, first, last, t)
    <2>1. s \in Seq(Cells) /\ i \in 1 .. Len(s) + 1 /\ a \in Cells /\ \A n \in 1 .. Len(s) : s[n] # a
      BY <1>2, <1>3, <1>9 DEF s
    <2>2. Linked(Nil, M.heap, M.lists[l].head, M.lists[l].tail, s)
      BY <1>3
    <2> QED
      BY ONLY <1>12, <2>1, <2>2, LinkInsert DEF t, first, last
  <1>14. /\ t \in Seq(Cells) /\ Len(t) = Len(s) + 1 /\ t[i] = a /\ i \in 1 .. Len(t)
         /\ \A n \in 1 .. i - 1 : n \in 1 .. Len(s) /\ t[n] = s[n]
         /\ \A n \in i + 1 .. Len(s) + 1 : n - 1 \in 1 .. Len(s) /\ t[n] = s[n - 1]
    <2>1. s \in Seq(Cells) /\ i \in 1 .. Len(s) + 1 /\ a \in Cells
      BY <1>2, <1>3 DEF s
    <2>2. PutIn(t, Cells, s, i, a)
      BY ONLY <2>1, InsertAtFacts
    <2> HIDE DEF t
    <2> QED
      BY <2>1, <2>2 DEF PutIn
  <1> HIDE DEF t, first, last
  <1>15. i \in Nat /\ i >= 1 /\ i <= Len(s) + 1 /\ \A n \in 1 .. Len(t) : n = i \/ n \in 1 .. i - 1 \/ n \in i + 1 .. Len(s) + 1
    BY <1>3, <1>14
  <1>16. \A n \in 1 .. Len(t) : t[n] = a \/ \E m \in 1 .. Len(s) : t[n] = s[m]
    BY <1>14, <1>15
  <1>17. \A n \in 1 .. Len(s) : \E m \in 1 .. Len(t) : t[m] = s[n]
    <2> SUFFICES ASSUME NEW n \in 1 .. Len(s) PROVE \E m \in 1 .. Len(t) : t[m] = s[n]
      OBVIOUS
    <2>1. CASE n < i
      <3>1. n \in 1 .. i - 1 /\ n \in 1 .. Len(t)
        BY <1>3, <1>14, <1>15, <2>1
      <3> QED
        BY <1>14, <3>1
    <2>2. CASE ~(n < i)
      <3>1. n + 1 \in i + 1 .. Len(s) + 1 /\ n + 1 \in 1 .. Len(t) /\ (n + 1) - 1 = n
        BY <1>3, <1>14, <1>15, <2>2
      <3> QED
        BY <1>14, <3>1
    <2> QED
      BY <2>1, <2>2
  <1>18. OthersKept(g, M, ss, l)
    <2> SUFFICES ASSUME NEW k \in Lists \ {l}, NEW n \in 1 .. Len(ss[k])
                 PROVE  /\ Held(g, ss[k][n]) /\ g[ss[k][n]].data = M.heap[ss[k][n]].data
                        /\ g[ss[k][n]].prev = M.heap[ss[k][n]].prev /\ g[ss[k][n]].next = M.heap[ss[k][n]].next
      BY DEF OthersKept
    <2> DEFINE c == ss[k][n]
    <2>1. c \in Cells /\ Held(M.heap, c) /\ \A m \in 1 .. Len(s) : c # s[m]
      BY NodesApart DEF s
    <2> HIDE DEF c
    <2>2. c # a /\ c # p /\ c # x
      BY <1>2, <1>5, <2>1, ContainersAssumption
    <2>3. Held(h, c) /\ h[c] = M.heap[c]
      BY <1>7, <1>8, <2>1, <2>2
    <2>4. Held(g, c) /\ g[c].data = M.heap[c].data /\ g[c].prev = M.heap[c].prev /\ g[c].next = M.heap[c].next
      BY <1>11, <2>1, <2>2, <2>3 DEF SameData
    <2> QED
      BY <2>4 DEF c
  <1>19. Rebuilt(g, t, M, ss, l)
    <2>1. \A n \in 1 .. Len(t) : t[n] \in Cells /\ Held(h, t[n])
      BY <1>2, <1>3, <1>8, <1>9, <1>16
    <2>2. \A n \in 1 .. Len(t) : Held(g, t[n])
      BY <1>11, <2>1 DEF SameData
    <2>3. ASSUME NEW k \in Lists \ {l}, NEW m \in 1 .. Len(ss[k]), NEW n \in 1 .. Len(t) PROVE ss[k][m] # t[n]
      <3>1. Held(M.heap, ss[k][m]) /\ \A j \in 1 .. Len(s) : ss[k][m] # s[j]
        BY NodesApart DEF s
      <3> QED
        BY <1>2, <1>16, <3>1
    <2>4. ASSUME NEW c \in Cells, Held(g, c)
          PROVE  \/ \E n \in 1 .. Len(t) : t[n] = c
                 \/ \E k \in Lists \ {l} : \E n \in 1 .. Len(ss[k]) : ss[k][n] = c
      <3>1. CASE c = a
        BY <1>14, <3>1
      <3>2. CASE c # a
        <4>1. Held(M.heap, c)
          BY <1>8, <1>11, <2>4, <3>2 DEF SameData
        <4>2. PICK k \in Lists : \E n \in 1 .. Len(ss[k]) : ss[k][n] = c
          BY <4>1 DEF ListsHold
        <4> QED
          BY <1>17, <4>2 DEF s
      <3> QED
        BY <3>1, <3>2
    <2> QED
      BY <1>11, <1>14, <1>18, <2>2, <2>3, <2>4 DEF Rebuilt
  <1>20. Yields(N, M, ss, l, DataOf(g, t)) /\ N.heap = g
    <2>1. N = List!With(M, l, g, first, last, Len(t))
      BY <1>1, <1>14
    <2>2. N.heap = g
      BY <2>1 DEF List!With
    <2> QED
      BY <1>13, <1>19, <2>1, <2>2, RebuiltHolds
  <1>21. List!FreeCells(g) = List!FreeCells(M.heap) \ {a} /\ a \in List!FreeCells(M.heap)
    <2>1. \A c \in Cells : ~Held(g, c) <=> ~Held(M.heap, c) /\ c # a
      BY <1>8, <1>11 DEF SameData
    <2> QED
      BY <1>2, <2>1 DEF List!FreeCells, Held
  <1>22. DataOf(g, t) = InsertAt(DataOf(M.heap, s), i, v)
    <2> DEFINE D == DataOf(M.heap, s)
               E == InsertAt(D, i, v)
               F == DataOf(g, t)
    <2>1. D \in Seq(Values) /\ Len(D) = Len(s) /\ \A n \in 1 .. Len(s) : D[n] = M.heap[s[n]].data
      BY NodesFound DEF s
    <2> HIDE DEF D
    <2>2. /\ E \in Seq(Values) /\ Len(E) = Len(s) + 1 /\ E[i] = v
          /\ \A n \in 1 .. i - 1 : E[n] = D[n]
          /\ \A n \in i + 1 .. Len(s) + 1 : E[n] = D[n - 1]
      <3>1. D \in Seq(Values) /\ i \in 1 .. Len(D) + 1 /\ v \in Values /\ Len(D) = Len(s)
        BY <2>1 DEF s
      <3>2. PutIn(E, Values, D, i, v)
        BY ONLY <3>1, InsertAtFacts
      <3> HIDE DEF E
      <3> QED
        BY <3>1, <3>2 DEF PutIn
    <2> HIDE DEF E
    <2>3. F = [n \in 1 .. Len(t) |-> g[t[n]].data]
      BY DEF DataOf
    <2>4. \A c \in Cells : Held(h, c) => g[c].data = h[c].data
      BY <1>11 DEF SameData
    <2>5. g[a].data = v /\ \A n \in 1 .. Len(s) : g[s[n]].data = D[n]
      BY <1>2, <1>3, <1>6, <1>7, <1>8, <1>9, <2>1, <2>4
    <2>6. ASSUME NEW n \in 1 .. Len(t) PROVE F[n] = E[n]
      <3>1. F[n] = g[t[n]].data
        BY <2>3
      <3>2. CASE n = i
        BY <1>14, <2>2, <2>5, <3>1, <3>2
      <3>3. CASE n \in 1 .. i - 1
        BY <1>14, <2>2, <2>5, <3>1, <3>3
      <3>4. CASE n \in i + 1 .. Len(s) + 1
        BY <1>14, <2>2, <2>5, <3>1, <3>4
      <3> QED
        BY <1>15, <3>2, <3>3, <3>4
    <2>7. DOMAIN E = 1 .. Len(t) /\ E = [n \in 1 .. Len(t) |-> E[n]]
      BY <1>14, <2>2, LenProperties
    <2> QED
      BY <2>3, <2>6, <2>7 DEF E, D
  <1> QED
    BY <1>20, <1>21, <1>22 DEF s, a, N

(* The m-th node of a list unlinked and deleted: pop_front, pop_back and erase
   (lines 91-105 and 119-129). *)
Removed(M, ss, l, m) ==
    LET s == ss[l]
        p == Beside(Nil, s, m - 1)
        x == Beside(Nil, s, m + 1)
        h == Relinked(M.heap, p, x, x, p)
    IN  List!With(M, l, [h EXCEPT ![s[m]] = Unused], IF m = 1 THEN x ELSE M.lists[l].head,
                  IF m = Len(s) THEN p ELSE M.lists[l].tail, Len(s) - 1)

(* The removal takes the element out of its place. *)
LEMMA RemovedHolds ==
    ASSUME NEW M, NEW ss, ListsHold(M, ss), NEW l \in Lists, NEW m \in 1 .. Len(ss[l])
    PROVE  Yields(Removed(M, ss, l, m), M, ss, l, RemoveAt(DataOf(M.heap, ss[l]), m))
  <1> DEFINE s == ss[l]
             a == s[m]
             p == Beside(Nil, s, m - 1)
             x == Beside(Nil, s, m + 1)
             h == Relinked(M.heap, p, x, x, p)
             g == [h EXCEPT ![a] = Unused]
             t == RemoveAt(s, m)
             first == IF m = 1 THEN x ELSE M.lists[l].head
             last == IF m = Len(s) THEN p ELSE M.lists[l].tail
             N == Removed(M, ss, l, m)
  <1>1. N = List!With(M, l, g, first, last, Len(s) - 1)
    BY DEF Removed
  <1>2. /\ Len(s) \in Nat /\ s \in Seq(Cells) /\ Linked(Nil, M.heap, M.lists[l].head, M.lists[l].tail, s)
        /\ \A n \in 1 .. Len(s) : s[n] \in Cells /\ s[n] # Nil /\ Held(M.heap, s[n])
        /\ \A i, n \in 1 .. Len(s) : s[i] = s[n] => i = n
    BY ListParts
  <1>3. M.heap \in ListHeaps /\ m \in 1 .. Len(s)
    BY DEF ListsHold
  <1> HIDE DEF s, N
  <1>4. a \in Cells /\ Held(M.heap, a)
    BY <1>2, <1>3
  <1>5. /\ p \in Cells \cup {Nil} /\ x \in Cells \cup {Nil}
        /\ (p # Nil => m - 1 \in 1 .. Len(s) /\ p = s[m - 1]) /\ (x # Nil => m + 1 \in 1 .. Len(s) /\ x = s[m + 1])
        /\ (m - 1 \in 1 .. Len(s) => p = s[m - 1]) /\ (m + 1 \in 1 .. Len(s) => x = s[m + 1])
    BY <1>2 DEF Beside
  <1> HIDE DEF p, x
  <1>6. Pointer(M.heap, p) /\ Pointer(M.heap, x)
    BY <1>2, <1>5 DEF Pointer
  <1>7. RelinkedTo(h, M.heap, p, x, x, p)
    BY <1>3, <1>5, <1>6, RelinkedFacts
  <1>8. /\ h \in ListHeaps /\ SameData(h, M.heap)
        /\ \A c \in Cells : Held(M.heap, c) => /\ h[c].next = IF c = p THEN x ELSE M.heap[c].next
                                               /\ h[c].prev = IF c = x THEN p ELSE M.heap[c].prev
    BY <1>7 DEF RelinkedTo
  <1> HIDE DEF h
  <1>9. g \in ListHeaps /\ g[a] = Unused /\ \A c \in Cells : c # a => g[c] = h[c]
    BY <1>4, <1>8 DEF ListHeaps
  <1>10. ~Held(g, a) /\ \A c \in Cells : c # a => (Held(g, c) <=> Held(M.heap, c))
    <2>1. \A c \in Cells : Held(h, c) <=> Held(M.heap, c)
      BY <1>8 DEF SameData
    <2> QED
      BY <1>9, <2>1 DEF Held
  <1> HIDE DEF g
  <1>11. \A n \in 1 .. Len(s) : n # m => s[n] # a /\ g[s[n]] = h[s[n]] /\ Held(g, s[n])
    BY <1>2, <1>3, <1>9, <1>10
  <1>12. LinkedPast(Nil, g, M.heap, s, m)
    <2> SUFFICES ASSUME NEW n \in 1 .. Len(s), n # m
                 PROVE  /\ g[s[n]].prev = IF n = m + 1 THEN Beside(Nil, s, m - 1) ELSE M.heap[s[n]].prev
                        /\ g[s[n]].next = IF n = m - 1 THEN Beside(Nil, s, m + 1) ELSE M.heap[s[n]].next
      BY DEF LinkedPast
    <2>1. s[n] = x <=> n = m + 1
      BY <1>2, <1>5
    <2>2. s[n] = p <=> n = m - 1
      BY <1>2, <1>5
    <2> QED
      BY <1>2, <1>8, <1>11, <2>1, <2>2 DEF p, x
  <1>13. Linked(Nil, g, first, last, t)
    <2>1. Linked(Nil, g, IF m = 1 THEN Beside(Nil, s, 2) ELSE M.lists[l].head,
                 IF m = Len(s) THEN Beside(Nil, s, m - 1) ELSE M.lists[l].tail, RemoveAt(s, m))
      <3>1. s \in Seq(Cells) /\ Linked(Nil, M.heap, M.lists[l].head, M.lists[l].tail, s)
        BY <1>2
      <3> QED
        BY ONLY <1>3, <1>12, <3>1, LinkRemove
    <2> QED
      BY <2>1 DEF p, x
  <1>14. /\ t \in Seq(Cells) /\ Len(t) = Len(s) - 1 /\ Len(t) \in Nat
         /\ \A n \in 1 .. Len(s) - 1 : /\ n \in 1 .. Len(s) /\ n + 1 \in 1 .. Len(s)
                                       /\ t[n] = IF n < m THEN s[n] ELSE s[n + 1]
    BY <1>2, <1>3, RemoveAtFacts
  <1> HIDE DEF t, first, last, a
  <1>15. \A n \in 1 .. Len(t) : \E i \in 1 .. Len(s) : i # m /\ t[n] = s[i]
    BY <1>2, <1>3, <1>14
  <1>16. \A n \in 1 .. Len(s) : n # m => \E i \in 1 .. Len(t) : t[i] = s[n]
    <2> SUFFICES ASSUME NEW n \in 1 .. Len(s), n # m PROVE \E i \in 1 .. Len(t) : t[i] = s[n]
      OBVIOUS
    <2>1. CASE n < m
      <3>1. n \in 1 .. Len(s) - 1
        BY <1>2, <1>3, <2>1
      <3> QED
        BY <1>14, <2>1, <3>1
    <2>2. CASE ~(n < m)
      <3>1. n - 1 \in 1 .. Len(s) - 1 /\ ~(n - 1 < m) /\ (n - 1) + 1 = n
        BY <1>2, <1>3, <2>2
      <3> QED
        BY <1>14, <3>1
    <2> QED
      BY <2>1, <2>2
  <1>17. OthersKept(g, M, ss, l)
    <2> SUFFICES ASSUME NEW k \in Lists \ {l}, NEW n \in 1 .. Len(ss[k])
                 PROVE  /\ Held(g, ss[k][n]) /\ g[ss[k][n]].data = M.heap[ss[k][n]].data
                        /\ g[ss[k][n]].prev = M.heap[ss[k][n]].prev /\ g[ss[k][n]].next = M.heap[ss[k][n]].next
      BY DEF OthersKept
    <2> DEFINE c == ss[k][n]
    <2>1. c \in Cells /\ Held(M.heap, c) /\ \A i \in 1 .. Len(s) : c # s[i]
      BY NodesApart DEF s
    <2> HIDE DEF c
    <2>2. c # a /\ c # p /\ c # x
      BY <1>3, <1>5, <2>1, ContainersAssumption DEF a
    <2>3. Held(g, c) /\ g[c] = h[c] /\ h[c].data = M.heap[c].data
      BY <1>8, <1>9, <1>10, <2>1, <2>2 DEF SameData
    <2>4. Held(g, c) /\ g[c].data = M.heap[c].data /\ g[c].prev = M.heap[c].prev /\ g[c].next = M.heap[c].next
      BY <1>8, <2>1, <2>2, <2>3
    <2> QED
      BY <2>4 DEF c
  <1>18. Rebuilt(g, t, M, ss, l)
    <2>1. \A n \in 1 .. Len(t) : Held(g, t[n])
      BY <1>11, <1>15
    <2>2. ASSUME NEW k \in Lists \ {l}, NEW j \in 1 .. Len(ss[k]), NEW n \in 1 .. Len(t) PROVE ss[k][j] # t[n]
      <3>1. \A i \in 1 .. Len(s) : ss[k][j] # s[i]
        BY NodesApart DEF s
      <3> QED
        BY <1>15, <3>1
    <2>3. ASSUME NEW c \in Cells, Held(g, c)
          PROVE  \/ \E n \in 1 .. Len(t) : t[n] = c
                 \/ \E k \in Lists \ {l} : \E n \in 1 .. Len(ss[k]) : ss[k][n] = c
      <3>1. c # a /\ Held(M.heap, c)
        BY <1>10, <2>3
      <3>2. PICK k \in Lists : \E n \in 1 .. Len(ss[k]) : ss[k][n] = c
        BY <3>1 DEF ListsHold
      <3> QED
        BY <1>16, <3>1, <3>2 DEF s, a
    <2> QED
      BY <1>9, <1>14, <1>17, <2>1, <2>2, <2>3 DEF Rebuilt
  <1>19. Yields(N, M, ss, l, DataOf(g, t))
    <2>1. N = List!With(M, l, g, first, last, Len(t))
      BY <1>1, <1>14
    <2> QED
      BY <1>13, <1>18, <2>1, RebuiltHolds
  <1>20. DataOf(g, t) = RemoveAt(DataOf(M.heap, s), m)
    <2> DEFINE D == DataOf(M.heap, s)
               E == RemoveAt(D, m)
               F == DataOf(g, t)
    <2>1. D \in Seq(Values) /\ Len(D) = Len(s) /\ \A n \in 1 .. Len(s) : D[n] = M.heap[s[n]].data
      BY NodesFound DEF s
    <2> HIDE DEF D
    <2>2. /\ E \in Seq(Values) /\ Len(E) = Len(s) - 1
          /\ \A n \in 1 .. Len(s) - 1 : E[n] = IF n < m THEN D[n] ELSE D[n + 1]
      <3>1. D \in Seq(Values) /\ m \in 1 .. Len(D) /\ Len(D) = Len(s)
        BY <1>3, <2>1
      <3> QED
        BY ONLY <3>1, RemoveAtFacts
    <2> HIDE DEF E
    <2>3. F = [n \in 1 .. Len(t) |-> g[t[n]].data]
      BY DEF DataOf
    <2>4. \A n \in 1 .. Len(s) : n # m => g[s[n]].data = D[n]
      <3>1. \A c \in Cells : Held(M.heap, c) => h[c].data = M.heap[c].data
        BY <1>8 DEF SameData
      <3> QED
        BY <1>2, <1>11, <2>1, <3>1
    <2>5. ASSUME NEW n \in 1 .. Len(t) PROVE F[n] = E[n]
      <3>1. n \in 1 .. Len(s) - 1 /\ (n < m => n # m) /\ (~(n < m) => n + 1 # m)
        BY <1>3, <1>14
      <3>2. F[n] = g[t[n]].data
        BY <2>3
      <3>3. CASE n < m
        BY <1>14, <2>2, <2>4, <3>1, <3>2, <3>3
      <3>4. CASE ~(n < m)
        BY <1>14, <2>2, <2>4, <3>1, <3>2, <3>4
      <3> QED
        BY <3>3, <3>4
    <2>6. DOMAIN E = 1 .. Len(t) /\ E = [n \in 1 .. Len(t) |-> E[n]]
      BY <1>14, <2>2, LenProperties
    <2> QED
      BY <2>3, <2>5, <2>6 DEF E, D
  <1> QED
    BY <1>19, <1>20 DEF s, N

(* The insertions of the code are insertions at a place. *)
LEMMA InsertionsPlaced ==
    ASSUME NEW M, NEW ss, ListsHold(M, ss), NEW l \in Lists, NEW v
    PROVE  /\ List!push_front(M, l, v) = Inserted(M, ss, l, 1, v)
           /\ List!push_back(M, l, v) = Inserted(M, ss, l, Len(ss[l]) + 1, v)
           /\ \A pos \in 0 .. Len(ss[l]) : List!insert_at(M, l, pos, v) = Inserted(M, ss, l, pos + 1, v)
  <1> DEFINE s == ss[l]
             L == M.lists[l]
             a == List!NewCell(M.heap)
             h(p, x) == [M.heap EXCEPT ![a] = [data |-> v, prev |-> p, next |-> x]]
  <1>1. /\ Len(s) \in Nat /\ s \in Seq(Cells) /\ L.size = Len(s) /\ Linked(Nil, M.heap, L.head, L.tail, s)
        /\ L.head = Beside(Nil, s, 1) /\ L.tail = Beside(Nil, s, Len(s))
        /\ \A n \in 1 .. Len(s) : s[n] # Nil
    BY ListParts
  <1>2. (L.head = Nil <=> Len(s) = 0) /\ (L.tail = Nil <=> Len(s) = 0)
    BY <1>1 DEF Beside
  <1> HIDE DEF s, L, a
  <1>3. Beside(Nil, s, 1 - 1) = Nil /\ Beside(Nil, s, Len(s) + 1) = Nil
    BY <1>1 DEF Beside
  <1>4. \A f, n, x, q : Relinked(f, Nil, n, x, q) = List!SetPrev(f, x, q) /\ Relinked(f, x, n, Nil, q) = List!SetNext(f, x, n)
    BY DEF Relinked, List!SetNext, List!SetPrev
  <1>5. List!push_front(M, l, v) = Inserted(M, ss, l, 1, v)
    <2>1. List!push_front(M, l, v) = List!With(M, l, List!SetPrev(h(Nil, L.head), L.head, a), a, IF L.tail = Nil THEN a ELSE L.tail, L.size + 1)
      BY DEF List!push_front, L, a
    <2>2. Inserted(M, ss, l, 1, v) = List!With(M, l, Relinked(h(Beside(Nil, s, 1 - 1), Beside(Nil, s, 1)), Beside(Nil, s, 1 - 1), a, Beside(Nil, s, 1), a),
                                               a, IF 1 = Len(s) + 1 THEN a ELSE L.tail, Len(s) + 1)
      BY DEF Inserted, s, L, a
    <2>3. Relinked(h(Nil, L.head), Nil, a, L.head, a) = List!SetPrev(h(Nil, L.head), L.head, a)
      BY <1>4
    <2>4. L.tail = Nil <=> 1 = Len(s) + 1
      BY <1>1, <1>2
    <2> HIDE DEF h
    <2> QED
      BY <1>1, <1>3, <2>1, <2>2, <2>3, <2>4
  <1>6. List!push_back(M, l, v) = Inserted(M, ss, l, Len(s) + 1, v)
    <2>1. List!push_back(M, l, v) = List!With(M, l, List!SetNext(h(L.tail, Nil), L.tail, a), IF L.head = Nil THEN a ELSE L.head, a, L.size + 1)
      BY DEF List!push_back, L, a
    <2>2. (Len(s) + 1) - 1 = Len(s)
      BY <1>1
    <2>3. Inserted(M, ss, l, Len(s) + 1, v) =
              List!With(M, l, Relinked(h(Beside(Nil, s, (Len(s) + 1) - 1), Beside(Nil, s, Len(s) + 1)), Beside(Nil, s, (Len(s) + 1) - 1), a, Beside(Nil, s, Len(s) + 1), a),
                        IF Len(s) + 1 = 1 THEN a ELSE L.head, a, Len(s) + 1)
      BY DEF Inserted, s, L, a
    <2>4. Relinked(h(L.tail, Nil), L.tail, a, Nil, a) = List!SetNext(h(L.tail, Nil), L.tail, a)
      BY <1>4
    <2>5. L.head = Nil <=> Len(s) + 1 = 1
      BY <1>1, <1>2
    <2> HIDE DEF h
    <2> QED
      BY <1>1, <1>3, <2>1, <2>2, <2>3, <2>4, <2>5
  <1>7. ASSUME NEW pos \in 0 .. Len(s) PROVE List!insert_at(M, l, pos, v) = Inserted(M, ss, l, pos + 1, v)
    <2>1. CASE pos = 0
      BY <1>5, <2>1 DEF List!insert_at
    <2>2. CASE pos # 0 /\ pos = Len(s)
      BY <1>1, <1>6, <2>2 DEF List!insert_at, L
    <2>3. CASE pos # 0 /\ pos # Len(s)
      <3> DEFINE cur == s[pos + 1]
                 p == M.heap[cur].prev
      <3>1. List!NodesOf(M, l) = s
        BY NodesFound DEF s
      <3>2. pos # L.size
        BY <1>1, <2>3
      <3>3. List!insert_at(M, l, pos, v) = List!With(M, l, Relinked(h(p, cur), p, a, cur, a), L.head, L.tail, L.size + 1)
        BY <2>3, <3>1, <3>2 DEF List!insert_at, Relinked, L, a
      <3>4. pos + 1 \in 1 .. Len(s) /\ (pos + 1) - 1 = pos /\ pos + 1 # 1 /\ pos + 1 # Len(s) + 1
        BY <1>1, <2>3
      <3>5. cur = Beside(Nil, s, pos + 1) /\ p = Beside(Nil, s, (pos + 1) - 1)
        BY <1>1, <3>4 DEF Linked, Beside
      <3>6. Inserted(M, ss, l, pos + 1, v) =
                List!With(M, l, Relinked(h(Beside(Nil, s, (pos + 1) - 1), Beside(Nil, s, pos + 1)), Beside(Nil, s, (pos + 1) - 1), a, Beside(Nil, s, pos + 1), a),
                          L.head, L.tail, Len(s) + 1)
        BY <3>4 DEF Inserted, s, L, a
      <3> HIDE DEF h, cur, p
      <3> QED
        BY <1>1, <3>3, <3>5, <3>6
    <2> QED
      BY <2>1, <2>2, <2>3
  <1> QED
    BY <1>5, <1>6, <1>7 DEF s

(* A list of more than one node has a second one. *)
LEMMA SecondPlace ==
    ASSUME NEW n \in Nat, 1 <= n, n # 1
    PROVE  1 + 1 \in 1 .. n
  OBVIOUS

(* The removals of the code are removals at a place. *)
LEMMA RemovalsPlaced ==
    ASSUME NEW M, NEW ss, ListsHold(M, ss), NEW l \in Lists, Len(ss[l]) # 0
    PROVE  /\ List!pop_front(M, l) = Removed(M, ss, l, 1)
           /\ List!pop_back(M, l) = Removed(M, ss, l, Len(ss[l]))
           /\ \A pos \in 0 .. Len(ss[l]) - 1 : List!erase(M, l, pos) = Removed(M, ss, l, pos + 1)
  <1> DEFINE s == ss[l]
             L == M.lists[l]
             h(p, x) == Relinked(M.heap, p, x, x, p)
  <1>1. /\ Len(s) \in Nat /\ s \in Seq(Cells) /\ L.size = Len(s) /\ Linked(Nil, M.heap, L.head, L.tail, s)
        /\ L.head = Beside(Nil, s, 1) /\ L.tail = Beside(Nil, s, Len(s))
        /\ \A n \in 1 .. Len(s) : s[n] # Nil
    BY ListParts
  <1>2. 1 \in 1 .. Len(s) /\ Len(s) \in 1 .. Len(s) /\ L.head = s[1] /\ L.tail = s[Len(s)]
    BY <1>1 DEF Beside
  <1> HIDE DEF s, L
  <1>3. Beside(Nil, s, 1 - 1) = Nil /\ Beside(Nil, s, Len(s) + 1) = Nil
    BY <1>1 DEF Beside
  <1>4. \A f, n, x, q : Relinked(f, Nil, n, x, q) = List!SetPrev(f, x, q) /\ Relinked(f, x, n, Nil, q) = List!SetNext(f, x, n)
    BY DEF Relinked, List!SetNext, List!SetPrev
  <1>5. \A n \in 1 .. Len(s) : M.heap[s[n]].prev = Beside(Nil, s, n - 1) /\ M.heap[s[n]].next = Beside(Nil, s, n + 1)
    BY <1>1 DEF Linked
  <1>6. \A m : Removed(M, ss, l, m) =
                   List!With(M, l, [h(Beside(Nil, s, m - 1), Beside(Nil, s, m + 1)) EXCEPT ![s[m]] = Unused],
                             IF m = 1 THEN Beside(Nil, s, m + 1) ELSE L.head,
                             IF m = Len(s) THEN Beside(Nil, s, m - 1) ELSE L.tail, Len(s) - 1)
    BY DEF Removed, s, L
  <1>7. List!pop_front(M, l) = Removed(M, ss, l, 1)
    <2> DEFINE x == Beside(Nil, s, 1 + 1)
    <2>1. M.heap[L.head].next = x
      BY <1>2, <1>5
    <2>2. List!pop_front(M, l) = List!With(M, l, [List!SetPrev(M.heap, x, Nil) EXCEPT ![s[1]] = Unused], x, IF x = Nil THEN Nil ELSE L.tail, Len(s) - 1)
      BY <1>1, <1>2, <2>1 DEF List!pop_front, L
    <2>3. Removed(M, ss, l, 1) = List!With(M, l, [h(Nil, x) EXCEPT ![s[1]] = Unused], x, IF 1 = Len(s) THEN Nil ELSE L.tail, Len(s) - 1)
      BY <1>3, <1>6
    <2>4. h(Nil, x) = List!SetPrev(M.heap, x, Nil)
      BY <1>4
    <2>5. x = Nil <=> 1 = Len(s)
      <3>1. CASE Len(s) = 1
        <4>1. ~(1 + 1 \in 1 .. Len(s))
          BY <3>1
        <4> QED
          BY <3>1, <4>1 DEF Beside
      <3>2. CASE Len(s) # 1
        <4>0. Len(s) \in Nat /\ 1 <= Len(s) /\ Len(s) # 1
          BY <1>1, <1>2, <3>2
        <4>1. 1 + 1 \in 1 .. Len(s)
          BY ONLY <4>0, SecondPlace
        <4> QED
          BY <1>1, <3>2, <4>1 DEF Beside
      <3> QED
        BY <3>1, <3>2
    <2> HIDE DEF h, x
    <2> QED
      BY <2>2, <2>3, <2>4, <2>5
  <1>8. List!pop_back(M, l) = Removed(M, ss, l, Len(s))
    <2> DEFINE p == Beside(Nil, s, Len(s) - 1)
    <2>1. M.heap[L.tail].prev = p
      BY <1>2, <1>5
    <2>2. List!pop_back(M, l) = List!With(M, l, [List!SetNext(M.heap, p, Nil) EXCEPT ![s[Len(s)]] = Unused], IF p = Nil THEN Nil ELSE L.head, p, Len(s) - 1)
      BY <1>1, <1>2, <2>1 DEF List!pop_back, L
    <2>3. Removed(M, ss, l, Len(s)) = List!With(M, l, [h(p, Nil) EXCEPT ![s[Len(s)]] = Unused], IF Len(s) = 1 THEN Nil ELSE L.head, p, Len(s) - 1)
      BY <1>3, <1>6
    <2>4. h(p, Nil) = List!SetNext(M.heap, p, Nil)
      BY <1>4
    <2>5. p = Nil <=> Len(s) = 1
      <3>1. CASE Len(s) = 1
        <4>1. ~(Len(s) - 1 \in 1 .. Len(s))
          BY <3>1
        <4> QED
          BY <3>1, <4>1 DEF Beside
      <3>2. CASE Len(s) # 1
        <4>0. Len(s) \in Nat /\ 1 <= Len(s) /\ Len(s) # 1
          BY <1>1, <1>2, <3>2
        <4>1. Len(s) - 1 \in 1 .. Len(s)
          BY ONLY <4>0
        <4> QED
          BY <1>1, <3>2, <4>1 DEF Beside
      <3> QED
        BY <3>1, <3>2
    <2> HIDE DEF h, p
    <2> QED
      BY <2>2, <2>3, <2>4, <2>5
  <1>9. ASSUME NEW pos \in 0 .. Len(s) - 1 PROVE List!erase(M, l, pos) = Removed(M, ss, l, pos + 1)
    <2>1. CASE pos = 0
      BY <1>7, <2>1 DEF List!erase
    <2>2. CASE pos # 0 /\ pos = Len(s) - 1
      <3>1. pos + 1 = Len(s)
        BY <1>1, <2>2
      <3> QED
        BY <1>1, <1>8, <2>2, <3>1 DEF List!erase, L
    <2>3. CASE pos # 0 /\ pos # Len(s) - 1
      <3> DEFINE cur == s[pos + 1]
                 p == M.heap[cur].prev
                 x == M.heap[cur].next
      <3>1. List!NodesOf(M, l) = s
        BY NodesFound DEF s
      <3>2. pos # L.size - 1
        BY <1>1, <2>3
      <3>3. List!erase(M, l, pos) = List!With(M, l, [h(p, x) EXCEPT ![cur] = Unused], L.head, L.tail, L.size - 1)
        BY <2>3, <3>1, <3>2 DEF List!erase, Relinked, L
      <3>4. pos + 1 \in 1 .. Len(s) /\ pos + 1 # 1 /\ pos + 1 # Len(s)
        BY <1>1, <2>3
      <3>5. p = Beside(Nil, s, (pos + 1) - 1) /\ x = Beside(Nil, s, (pos + 1) + 1)
        BY <1>5, <3>4
      <3>6. Removed(M, ss, l, pos + 1) =
                List!With(M, l, [h(Beside(Nil, s, (pos + 1) - 1), Beside(Nil, s, (pos + 1) + 1)) EXCEPT ![cur] = Unused], L.head, L.tail, Len(s) - 1)
        BY <1>6, <3>4
      <3> HIDE DEF h, cur, p, x
      <3> QED
        BY <1>1, <3>3, <3>5, <3>6
    <2> QED
      BY <2>1, <2>2, <2>3
  <1> QED
    BY <1>7, <1>8, <1>9 DEF s

(* The heap after every node of list l was deleted. *)
Cleared(M, ss, l) ==
    [c \in Cells |-> IF \E n \in 1 .. Len(ss[l]) : ss[l][n] = c THEN Unused ELSE M.heap[c]]

(* clear, the loop of the destructor (lines 41-45). *)
LEMMA ClearHolds ==
    ASSUME NEW M, NEW ss, ListsHold(M, ss), NEW l \in Lists
    PROVE  /\ List!clear(M, l) = List!With(M, l, Cleared(M, ss, l), Nil, Nil, 0)
           /\ ListsHold(List!clear(M, l), [ss EXCEPT ![l] = <<>>])
           /\ Yields(List!clear(M, l), M, ss, l, <<>>)
           /\ OthersKept(Cleared(M, ss, l), M, ss, l)
  <1> DEFINE g == Cleared(M, ss, l)
             t == <<>>
  <1>1. List!NodesOf(M, l) = ss[l] /\ DOMAIN ss[l] = 1 .. Len(ss[l])
    BY NodesFound, ListParts, LenProperties
  <1>2. List!clear(M, l) = List!With(M, l, g, Nil, Nil, 0)
    <2>1. \A c : c \in List!ToSet(ss[l]) <=> \E n \in 1 .. Len(ss[l]) : ss[l][n] = c
      BY <1>1 DEF List!ToSet
    <2> QED
      BY <1>1, <2>1 DEF List!clear, Cleared
  <1>3. g \in ListHeaps
    BY DEF ListsHold, ListHeaps, Cleared
  <1>4. t \in Seq(Cells) /\ Len(t) = 0
    OBVIOUS
  <1>5. OthersKept(g, M, ss, l)
    <2> SUFFICES ASSUME NEW k \in Lists \ {l}, NEW n \in 1 .. Len(ss[k])
                 PROVE  g[ss[k][n]] = M.heap[ss[k][n]] /\ Held(g, ss[k][n])
      BY DEF OthersKept
    <2>1. /\ ss[k][n] \in Cells /\ Held(M.heap, ss[k][n])
          /\ \A m \in 1 .. Len(ss[l]) : ss[k][n] # ss[l][m]
      BY NodesApart
    <2> QED
      BY <2>1 DEF Cleared, Held
  <1>6. \A c \in Cells : Held(g, c) => \E k \in Lists \ {l} : \E n \in 1 .. Len(ss[k]) : ss[k][n] = c
    <2> SUFFICES ASSUME NEW c \in Cells, Held(g, c)
                 PROVE  \E k \in Lists \ {l} : \E n \in 1 .. Len(ss[k]) : ss[k][n] = c
      OBVIOUS
    <2>1. Held(M.heap, c) /\ ~\E n \in 1 .. Len(ss[l]) : ss[l][n] = c
      BY DEF Cleared, Held
    <2> QED
      BY <2>1 DEF ListsHold
  <1>7. Rebuilt(g, t, M, ss, l)
    BY <1>3, <1>4, <1>5, <1>6 DEF Rebuilt
  <1>8. Linked(Nil, g, Nil, Nil, t)
    BY <1>4 DEF Linked, Beside
  <1>9. DataOf(g, t) = <<>>
    BY <1>4 DEF DataOf
  <1> HIDE DEF g, t
  <1>10. /\ ListsHold(List!With(M, l, g, Nil, Nil, Len(t)), [ss EXCEPT ![l] = t])
         /\ Yields(List!With(M, l, g, Nil, Nil, Len(t)), M, ss, l, DataOf(g, t))
    BY <1>7, <1>8, RebuiltHolds
  <1> QED
    BY <1>2, <1>4, <1>5, <1>9, <1>10 DEF g, t

-----------------------------------------------------------------------------
(* The memory N holds the elements e of list l, the elements f of list other, and in
   the remaining lists what they held. *)
YieldsBoth(N, M, ss, l, e, other, f) ==
    \E tt : /\ ListsHold(N, tt) /\ DataOf(N.heap, tt[l]) = e /\ DataOf(N.heap, tt[other]) = f
            /\ \A k \in Lists \ {l, other} : DataOf(N.heap, tt[k]) = DataOf(M.heap, ss[k])

(* Move assignment between two lists hands the nodes over (lines 64-72). *)
LEMMA MoveHolds ==
    ASSUME NEW M, NEW ss, ListsHold(M, ss), NEW l \in Lists, NEW other \in Lists, l # other
    PROVE  YieldsBoth(List!move_assign(M, l, other), M, ss, l, DataOf(M.heap, ss[other]), other, <<>>)
  <1> DEFINE C == List!clear(M, l)
             cc == [ss EXCEPT ![l] = <<>>]
             g == Cleared(M, ss, l)
             N == List!move_assign(M, l, other)
             tt == [ss EXCEPT ![l] = ss[other], ![other] = <<>>]
             objects == [C.lists EXCEPT ![l] = M.lists[other], ![other] = List!EmptyList]
  <1>1. C = List!With(M, l, g, Nil, Nil, 0) /\ ListsHold(C, cc) /\ OthersKept(g, M, ss, l)
    BY ClearHolds
  <1>2. C.heap = g /\ C = [heap |-> C.heap, lists |-> C.lists] /\ C.lists = [M.lists EXCEPT ![l] = [head |-> Nil, tail |-> Nil, size |-> 0]]
    BY <1>1 DEF List!With
  <1>3. N = [C EXCEPT !.lists[l] = M.lists[other], !.lists[other] = List!EmptyList]
    BY DEF List!move_assign
  <1> HIDE DEF C, g
  <1>4. N = [heap |-> g, lists |-> objects]
    BY <1>2, <1>3
  <1>5. N.heap = g /\ N.lists = objects /\ N = [heap |-> N.heap, lists |-> N.lists]
    BY <1>4
  <1>6. List!EmptyList \in ListObjects /\ List!EmptyList.head = Nil /\ List!EmptyList.tail = Nil /\ List!EmptyList.size = 0
    BY DEF List!EmptyList, ListObjects
  <1>7. /\ M.lists \in [Lists -> ListObjects] /\ ss \in [Lists -> Seq(Cells)] /\ g \in ListHeaps
        /\ C.lists \in [Lists -> ListObjects] /\ \A k \in Lists \ {l} : C.lists[k] = M.lists[k]
    BY <1>1, <1>2 DEF ListsHold
  <1>8. /\ objects \in [Lists -> ListObjects] /\ objects[l] = M.lists[other] /\ objects[other] = List!EmptyList
        /\ \A k \in Lists \ {l, other} : objects[k] = M.lists[k]
    BY <1>6, <1>7
  <1>9. /\ tt \in [Lists -> Seq(Cells)] /\ tt[l] = ss[other] /\ tt[other] = <<>>
        /\ \A k \in Lists \ {l, other} : tt[k] = ss[k]
    <2>0. ss \in [Lists -> Seq(Cells)] /\ l \in Lists /\ other \in Lists /\ l # other /\ ss[other] \in Seq(Cells)
      BY <1>7
    <2>1. <<>> \in Seq(Cells)
      OBVIOUS
    <2> DEFINE none == <<>>
               S == Seq(Cells)
    <2> HIDE DEF none, S
    <2>2. LET uu == [ss EXCEPT ![l] = ss[other], ![other] = none]
          IN  ss \in [Lists -> S] /\ none \in S =>
              /\ uu \in [Lists -> S] /\ uu[l] = ss[other] /\ uu[other] = none
              /\ \A k \in Lists \ {l, other} : uu[k] = ss[k]
      BY <2>0
    <2> QED
      BY <2>0, <2>1, <2>2 DEF none, S, tt
  <1> HIDE DEF N, tt, objects
  <1>10. ASSUME NEW k \in Lists \ {l}
         PROVE  /\ Linked(Nil, g, M.lists[k].head, M.lists[k].tail, ss[k]) /\ M.lists[k].size = Len(ss[k])
                /\ \A n \in 1 .. Len(ss[k]) : Held(g, ss[k][n])
                /\ DataOf(g, ss[k]) = DataOf(M.heap, ss[k])
    <2>1. Linked(Nil, M.heap, M.lists[k].head, M.lists[k].tail, ss[k]) /\ M.lists[k].size = Len(ss[k])
      BY ListParts
    <2>2. \A n \in 1 .. Len(ss[k]) : /\ Held(g, ss[k][n]) /\ g[ss[k][n]].data = M.heap[ss[k][n]].data
                                     /\ g[ss[k][n]].prev = M.heap[ss[k][n]].prev
                                     /\ g[ss[k][n]].next = M.heap[ss[k][n]].next
      BY <1>1 DEF OthersKept
    <2>3. Linked(Nil, g, M.lists[k].head, M.lists[k].tail, ss[k])
      BY <2>1, <2>2, LinkFrame
    <2> QED
      BY <2>1, <2>2, <2>3 DEF DataOf
  <1>11. Linked(Nil, g, Nil, Nil, <<>>) /\ Len(<<>>) = 0
    BY DEF Linked, Beside
  <1>12. ASSUME NEW k \in Lists
         PROVE  /\ Linked(Nil, g, objects[k].head, objects[k].tail, tt[k]) /\ objects[k].size = Len(tt[k])
                /\ \A n \in 1 .. Len(tt[k]) : Held(g, tt[k][n])
    <2>1. CASE k = l
      BY <1>8, <1>9, <1>10, <2>1
    <2>2. CASE k = other
      BY <1>6, <1>8, <1>9, <1>11, <2>2
    <2>3. CASE k \notin {l, other}
      BY <1>8, <1>9, <1>10, <2>3
    <2> QED
      BY <2>1, <2>2, <2>3
  <1>13. ASSUME NEW j \in Lists, NEW k \in Lists, NEW m \in 1 .. Len(tt[j]), NEW n \in 1 .. Len(tt[k]), tt[j][m] = tt[k][n]
         PROVE  j = k
    <2> DEFINE was(i) == IF i = l THEN other ELSE i
    <2>1. \A i \in Lists : Len(tt[i]) # 0 => i # other /\ was(i) \in Lists /\ tt[i] = ss[was(i)]
      BY <1>9, <1>11
    <2>2. Len(tt[j]) # 0 /\ Len(tt[k]) # 0
      OBVIOUS
    <2>3. was(j) = was(k)
      BY <1>13, <2>1, <2>2 DEF ListsHold
    <2> QED
      BY <2>1, <2>2, <2>3
  <1>14. ASSUME NEW c \in Cells, Held(g, c) PROVE \E k \in Lists : \E n \in 1 .. Len(tt[k]) : tt[k][n] = c
    <2>1. cc[l] = <<>> /\ \A k \in Lists \ {l} : cc[k] = ss[k]
      BY <1>7
    <2> HIDE DEF cc
    <2>0. Held(C.heap, c)
      BY <1>2, <1>14
    <2>2. PICK k \in Lists : \E n \in 1 .. Len(cc[k]) : cc[k][n] = c
      BY <1>1, <2>0 DEF ListsHold
    <2>3. k # l
      BY <1>11, <2>1, <2>2
    <2>4. CASE k = other
      BY <1>9, <2>1, <2>2, <2>3, <2>4
    <2>5. CASE k # other
      BY <1>9, <2>1, <2>2, <2>3, <2>5
    <2> QED
      BY <2>4, <2>5
  <1>15. ListsHold(N, tt)
    BY <1>5, <1>7, <1>8, <1>9, <1>12, <1>13, <1>14 DEF ListsHold
  <1>16. DataOf(g, tt[l]) = DataOf(M.heap, ss[other]) /\ \A k \in Lists \ {l, other} : DataOf(g, tt[k]) = DataOf(M.heap, ss[k])
    BY <1>9, <1>10
  <1>17. DataOf(g, tt[other]) = <<>>
    BY <1>9, <1>11 DEF DataOf
  <1> QED
    BY <1>5, <1>15, <1>16, <1>17 DEF YieldsBoth, N

(* The memories of a run of push_back: f[n] is the one after n of them. *)
Pushes(f, M, l, data, k) ==
    f = [n \in 0 .. k |-> IF n = 0 THEN M ELSE List!push_back(f[n - 1], l, data[n])]

(* One more push. *)
LEMMA OneMorePush ==
    ASSUME NEW M, NEW l, NEW data, NEW k \in Nat, NEW f, Pushes(f, M, l, data, k)
    PROVE  \E g : Pushes(g, M, l, data, k + 1)
  <1> DEFINE new == List!push_back(f[k], l, data[k + 1])
             g == [n \in 0 .. k + 1 |-> IF n = k + 1 THEN new ELSE f[n]]
  <1>1. \A n \in 0 .. k : f[n] = IF n = 0 THEN M ELSE List!push_back(f[n - 1], l, data[n])
    BY DEF Pushes
  <1>2. ASSUME NEW n \in 0 .. k + 1 PROVE g[n] = IF n = 0 THEN M ELSE List!push_back(g[n - 1], l, data[n])
    <2>1. CASE n = k + 1
      <3>1. g[n] = new /\ n # 0 /\ n - 1 = k /\ k \in 0 .. k + 1 /\ k # k + 1
        BY <2>1
      <3>2. g[n - 1] = f[k] /\ data[n] = data[k + 1]
        BY <2>1, <3>1
      <3> QED
        BY <3>1, <3>2
    <2>2. CASE n # k + 1
      <3>1. n \in 0 .. k /\ g[n] = f[n] /\ (n # 0 => n - 1 \in 0 .. k + 1 /\ n - 1 # k + 1)
        BY <2>2
      <3>2. n # 0 => g[n - 1] = f[n - 1]
        BY <3>1
      <3> QED
        BY <1>1, <3>1, <3>2
    <2> QED
      BY <2>1, <2>2
  <1>3. Pushes(g, M, l, data, k + 1)
    BY <1>2 DEF Pushes
  <1> QED
    BY <1>3

(* So there is a run of any length: the recursive function of copy_from exists. *)
LEMMA PushesExist ==
    ASSUME NEW M, NEW l, NEW data, NEW k \in Nat
    PROVE  \E f : Pushes(f, M, l, data, k)
  <1> DEFINE Bad == {n \in Nat : ~\E f : Pushes(f, M, l, data, n)}
  <1> SUFFICES ASSUME Bad # {} PROVE FALSE
    OBVIOUS
  <1>1. PICK n \in Bad : \A m \in Bad : ~(m < n)
    BY LeastNumber
  <1>2. n \in Nat /\ ~\E f : Pushes(f, M, l, data, n)
    BY <1>1
  <1>3. n # 0
    <2> DEFINE f == [m \in 0 .. 0 |-> M]
    <2>1. Pushes(f, M, l, data, 0)
      BY DEF Pushes
    <2> QED
      BY <1>2, <2>1
  <1>4. n - 1 \in Nat /\ n - 1 < n /\ (n - 1) + 1 = n
    BY <1>2, <1>3
  <1>5. \E f : Pushes(f, M, l, data, n - 1)
    BY <1>1, <1>4
  <1> HIDE DEF Bad
  <1>6. \E f : Pushes(f, M, l, data, (n - 1) + 1)
    BY <1>4, <1>5, OneMorePush
  <1> QED
    BY <1>2, <1>4, <1>6

(* The first n elements of data have been copied to list l, into n new cells. *)
Copied(N, M, ss, l, data, n) ==
    /\ Yields(N, M, ss, l, SubSeq(data, 1, n))
    /\ Cardinality(List!FreeCells(N.heap)) = Cardinality(List!FreeCells(M.heap)) - n

FreeCount(h) == Cardinality(List!FreeCells(h))

(* A heap has finitely many free cells. *)
LEMMA FreeFinite ==
    ASSUME NEW h
    PROVE  IsFiniteSet(List!FreeCells(h)) /\ FreeCount(h) \in Nat
  <1>1. List!FreeCells(h) \subseteq Cells /\ IsFiniteSet(Cells)
    BY ContainersAssumption DEF List!FreeCells
  <1>2. IsFiniteSet(List!FreeCells(h))
    BY <1>1, FS_Subset
  <1> QED
    BY <1>2, FS_CardinalityType DEF FreeCount

(* A prefix and the element after it. *)
LEMMA PrefixGrows ==
    ASSUME NEW S, NEW s \in Seq(S), NEW n \in 0 .. Len(s) - 1
    PROVE  /\ SubSeq(s, 1, n) \in Seq(S) /\ Len(SubSeq(s, 1, n)) = n
           /\ Append(SubSeq(s, 1, n), s[n + 1]) = SubSeq(s, 1, n + 1)
           /\ n \in Nat /\ n + 1 \in 1 .. Len(s) /\ s[n + 1] \in S
  <1>1. Len(s) \in Nat /\ n \in Nat /\ n + 1 \in 1 .. Len(s) /\ n + 1 \in Nat
    BY LenProperties
  <1>2. s[n + 1] \in S
    BY <1>1, ElementOfSeq
  <1> DEFINE u == SubSeq(s, 1, n)
             w == SubSeq(s, 1, n + 1)
             a == Append(u, s[n + 1])
  <1>3. \A i \in 1 .. n + 1 : i \in 1 .. Len(s)
    BY <1>1
  <1>4. u \in Seq(S) /\ Len(u) = n /\ \A i \in 1 .. n : u[i] = s[i]
    <2>1. \A i \in 1 .. n : i \in 1 .. Len(s)
      BY <1>1
    <2> QED
      BY <1>1, <2>1, SubSeqProperties
  <1>5. w \in Seq(S) /\ Len(w) = n + 1 /\ \A i \in 1 .. n + 1 : w[i] = s[i]
    BY <1>1, <1>3, SubSeqProperties
  <1> HIDE DEF u, w
  <1>6. a \in Seq(S) /\ Len(a) = n + 1 /\ a[n + 1] = s[n + 1] /\ \A i \in 1 .. n : a[i] = u[i]
    BY <1>2, <1>4, AppendProperties
  <1> HIDE DEF a
  <1>7. \A i \in 1 .. n + 1 : a[i] = w[i]
    BY <1>1, <1>4, <1>5, <1>6
  <1>8. a = w
    BY <1>5, <1>6, <1>7, SeqEqual
  <1> QED
    BY <1>1, <1>2, <1>4, <1>8 DEF u, w, a

(* One push of copy_from. *)
LEMMA CopyStep ==
    ASSUME NEW M, NEW ss, NEW l \in Lists, NEW data \in Seq(Values), NEW n \in 0 .. Len(data) - 1,
           FreeCount(M.heap) >= Len(data), NEW N, Copied(N, M, ss, l, data, n)
    PROVE  Copied(List!push_back(N, l, data[n + 1]), M, ss, l, data, n + 1)
  <1> DEFINE v == data[n + 1]
             P == List!push_back(N, l, v)
             e == SubSeq(data, 1, n)
             F == List!FreeCells(N.heap)
             a == List!NewCell(N.heap)
  <1>1. /\ e \in Seq(Values) /\ Len(e) = n /\ Append(e, v) = SubSeq(data, 1, n + 1)
        /\ n \in Nat /\ n + 1 \in 1 .. Len(data) /\ v \in Values
    BY PrefixGrows
  <1>2. PICK tt : /\ ListsHold(N, tt) /\ DataOf(N.heap, tt[l]) = e
                  /\ \A k \in Lists \ {l} : DataOf(N.heap, tt[k]) = DataOf(M.heap, ss[k])
    BY DEF Copied, Yields
  <1> HIDE DEF e, v
  <1>3. /\ FreeCount(N.heap) \in Nat /\ FreeCount(N.heap) = FreeCount(M.heap) - n
        /\ FreeCount(M.heap) \in Nat /\ IsFiniteSet(F)
    BY FreeFinite DEF Copied, FreeCount
  <1>4. FreeCount(N.heap) # 0
    <2>1. Len(data) \in Nat
      BY LenProperties
    <2> QED
      BY <1>1, <1>3, <2>1
  <1>5. F # {}
    BY <1>4, FS_EmptySet DEF FreeCount
  <1>6. P = Inserted(N, tt, l, Len(tt[l]) + 1, v)
    BY <1>2, InsertionsPlaced
  <1>7. Len(tt[l]) \in Nat /\ Len(tt[l]) + 1 \in 1 .. Len(tt[l]) + 1 /\ Len(DataOf(N.heap, tt[l])) = Len(tt[l])
    BY <1>2, ListParts, NodesFound
  <1>8. /\ Yields(P, N, tt, l, InsertAt(DataOf(N.heap, tt[l]), Len(tt[l]) + 1, v))
        /\ List!FreeCells(P.heap) = F \ {a} /\ a \in F
    <2> DEFINE i == Len(tt[l]) + 1
    <2>1. ListsHold(N, tt) /\ l \in Lists /\ i \in 1 .. Len(tt[l]) + 1 /\ v \in Values /\ List!FreeCells(N.heap) # {}
      BY <1>1, <1>2, <1>5, <1>7
    <2> HIDE DEF i
    <2>2. /\ Yields(Inserted(N, tt, l, i, v), N, tt, l, InsertAt(DataOf(N.heap, tt[l]), i, v))
          /\ List!FreeCells(Inserted(N, tt, l, i, v).heap) = List!FreeCells(N.heap) \ {List!NewCell(N.heap)}
          /\ List!NewCell(N.heap) \in List!FreeCells(N.heap)
      BY ONLY <2>1, InsertedHolds
    <2> QED
      BY <1>6, <2>2 DEF i
  <1>9. InsertAt(DataOf(N.heap, tt[l]), Len(tt[l]) + 1, v) = Append(e, v)
    BY <1>1, <1>2, <1>7, InsertAtEnds
  <1>10. PICK uu : /\ ListsHold(P, uu) /\ DataOf(P.heap, uu[l]) = Append(e, v)
                   /\ \A k \in Lists \ {l} : DataOf(P.heap, uu[k]) = DataOf(N.heap, tt[k])
    BY <1>8, <1>9 DEF Yields
  <1>11. Yields(P, M, ss, l, SubSeq(data, 1, n + 1))
    BY <1>1, <1>2, <1>10 DEF Yields
  <1>12. FreeCount(P.heap) = FreeCount(N.heap) - 1
    BY <1>3, <1>8, FS_RemoveElement DEF FreeCount
  <1>13. FreeCount(P.heap) = FreeCount(M.heap) - (n + 1)
    BY <1>1, <1>3, <1>12
  <1> QED
    BY <1>11, <1>13 DEF Copied, FreeCount, v

(* The whole copy into an empty list that has room for it. *)
LEMMA CopyHolds ==
    ASSUME NEW M, NEW ss, ListsHold(M, ss), NEW l \in Lists, ss[l] = <<>>, NEW data \in Seq(Values),
           FreeCount(M.heap) >= Len(data), NEW f, Pushes(f, M, l, data, Len(data))
    PROVE  Yields(f[Len(data)], M, ss, l, data)
  <1> DEFINE Bad == {n \in 0 .. Len(data) : ~Copied(f[n], M, ss, l, data, n)}
  <1>0. Len(data) \in Nat /\ Len(data) \in 0 .. Len(data)
    BY LenProperties
  <1>1. Bad = {}
    <2> SUFFICES ASSUME Bad # {} PROVE FALSE
      OBVIOUS
    <2>1. Bad \in SUBSET Nat
      BY <1>0
    <2>2. PICK n \in Bad : \A m \in Bad : ~(m < n)
      BY <2>1, LeastNumber
    <2>3. n \in 0 .. Len(data) /\ ~Copied(f[n], M, ss, l, data, n) /\ n \in Nat
      BY <1>0, <2>2
    <2>4. f[n] = IF n = 0 THEN M ELSE List!push_back(f[n - 1], l, data[n])
      BY <2>3 DEF Pushes
    <2>5. n # 0
      <3> SUFFICES ASSUME n = 0 PROVE Copied(M, M, ss, l, data, 0)
        BY <2>3, <2>4
      <3>1. SubSeq(data, 1, 0) = <<>>
        BY SubSeqEmpty, <1>0
      <3>2. DataOf(M.heap, ss[l]) = <<>>
        BY DEF DataOf
      <3>3. Yields(M, M, ss, l, SubSeq(data, 1, 0))
        BY <3>1, <3>2 DEF Yields
      <3>4. FreeCount(M.heap) = FreeCount(M.heap) - 0
        BY FreeFinite
      <3> QED
        BY <3>3, <3>4 DEF Copied, FreeCount
    <2>6. n - 1 \in 0 .. Len(data) - 1 /\ n - 1 \in 0 .. Len(data) /\ n - 1 < n /\ (n - 1) + 1 = n
      BY <1>0, <2>3, <2>5
    <2>7. Copied(f[n - 1], M, ss, l, data, n - 1)
      BY <2>2, <2>6
    <2> HIDE DEF Bad
    <2>8. Copied(List!push_back(f[n - 1], l, data[(n - 1) + 1]), M, ss, l, data, (n - 1) + 1)
      BY <2>6, <2>7, CopyStep
    <2> QED
      BY <2>3, <2>4, <2>5, <2>6, <2>8
  <1>2. Copied(f[Len(data)], M, ss, l, data, Len(data))
    BY <1>0, <1>1
  <1>3. SubSeq(data, 1, Len(data)) = data
    BY SubSeqFull
  <1> QED
    BY <1>2, <1>3 DEF Copied

(* Copy assignment (lines 56-59). *)
LEMMA CopyAssignHolds ==
    ASSUME NEW M, NEW ss, ListsHold(M, ss), NEW l \in Lists, NEW other \in Lists,
           FreeCount(List!clear(M, l).heap) >= M.lists[other].size
    PROVE  Yields(List!copy_assign(M, l, other), M, ss, l, DataOf(M.heap, ss[other]))
  <1>1. CASE l = other
    BY <1>1 DEF List!copy_assign, Yields
  <1>2. CASE l # other
    <2> DEFINE C == List!clear(M, l)
               cc == [ss EXCEPT ![l] = <<>>]
               data == List!ContentOf(C, other)
               f == CHOOSE g : Pushes(g, C, l, data, Len(data))
    <2>1. /\ ListsHold(C, cc) /\ C = List!With(M, l, Cleared(M, ss, l), Nil, Nil, 0)
          /\ OthersKept(Cleared(M, ss, l), M, ss, l)
      BY ClearHolds
    <2>2. C.heap = Cleared(M, ss, l)
      BY <2>1 DEF List!With
    <2>3. ss \in [Lists -> Seq(Cells)]
      BY DEF ListsHold
    <2>4. cc[l] = <<>> /\ \A k \in Lists \ {l} : cc[k] = ss[k]
      BY <2>3
    <2>5. List!copy_assign(M, l, other) = f[Len(data)]
      BY <1>2 DEF List!copy_assign, List!copy_from, Pushes
    <2> HIDE DEF C, cc
    <2>6. \A k \in Lists \ {l} : DataOf(C.heap, cc[k]) = DataOf(M.heap, ss[k])
      BY <2>1, <2>2, <2>4 DEF OthersKept, DataOf
    <2>7. data \in Seq(Values) /\ data = DataOf(M.heap, ss[other]) /\ Len(data) = M.lists[other].size
      BY <1>2, <2>1, <2>4, <2>6, NodesFound, ListParts
    <2> HIDE DEF data
    <2>8. Len(data) \in Nat
      BY <2>7, LenProperties
    <2>9. Pushes(f, C, l, data, Len(data))
      BY <2>8, PushesExist
    <2> HIDE DEF f
    <2>10. FreeCount(C.heap) >= Len(data)
      BY <2>7 DEF C
    <2>11. Yields(f[Len(data)], C, cc, l, data)
      BY <2>1, <2>4, <2>7, <2>9, <2>10, CopyHolds
    <2>12. Yields(f[Len(data)], M, ss, l, data)
      BY <2>6, <2>11 DEF Yields
    <2> QED
      BY <2>5, <2>7, <2>12
  <1> QED
    BY <1>1, <1>2

(* The elements of every list. *)
AllContents(M) == [l \in Lists |-> List!ContentOf(M, l)]
ContentsWith(M, l, e) == [AllContents(M) EXCEPT ![l] = e]

(* What an operation yields, read off by walking the lists. *)
LEMMA YieldsContents ==
    ASSUME NEW M, NEW ss, ListsHold(M, ss), NEW l \in Lists, NEW N, NEW e, Yields(N, M, ss, l, e)
    PROVE  AllContents(N) = ContentsWith(M, l, e)
  <1>1. PICK tt : /\ ListsHold(N, tt) /\ DataOf(N.heap, tt[l]) = e
                  /\ \A k \in Lists \ {l} : DataOf(N.heap, tt[k]) = DataOf(M.heap, ss[k])
    BY DEF Yields
  <1>2. \A k \in Lists : List!ContentOf(N, k) = DataOf(N.heap, tt[k]) /\ List!ContentOf(M, k) = DataOf(M.heap, ss[k])
    BY <1>1, NodesFound
  <1> QED
    BY <1>1, <1>2 DEF AllContents, ContentsWith

(* What each operation promises in memory M. *)
OperationsHold(M) ==
    \A l \in Lists :
        /\ List!FreeCells(M.heap) # {} => \A v \in Values :
               /\ AllContents(List!push_front(M, l, v)) = ContentsWith(M, l, <<v>> \o AllContents(M)[l])
               /\ AllContents(List!push_back(M, l, v)) = ContentsWith(M, l, Append(AllContents(M)[l], v))
               /\ \A pos \in 0 .. M.lists[l].size :
                      AllContents(List!insert_at(M, l, pos, v)) = ContentsWith(M, l, InsertAt(AllContents(M)[l], pos + 1, v))
        /\ AllContents(M)[l] # <<>> =>
               /\ AllContents(List!pop_front(M, l)) = ContentsWith(M, l, Tail(AllContents(M)[l]))
               /\ AllContents(List!pop_back(M, l)) = ContentsWith(M, l, Front(AllContents(M)[l]))
        /\ \A pos \in 0 .. M.lists[l].size - 1 :
               AllContents(List!erase(M, l, pos)) = ContentsWith(M, l, RemoveAt(AllContents(M)[l], pos + 1))
        /\ AllContents(List!clear(M, l)) = ContentsWith(M, l, <<>>)
        /\ \A other \in Lists :
               /\ FreeCount(List!clear(M, l).heap) >= M.lists[other].size =>
                      AllContents(List!copy_assign(M, l, other)) = ContentsWith(M, l, AllContents(M)[other])
               /\ AllContents(List!move_assign(M, l, other)) =
                      IF l = other THEN AllContents(M)
                      ELSE [AllContents(M) EXCEPT ![l] = AllContents(M)[other], ![other] = <<>>]

(* Insertions and removals yield what sequences do. *)
LEMMA InsertionsYield ==
    ASSUME NEW M, NEW ss, ListsHold(M, ss), NEW l \in Lists, NEW v \in Values, List!FreeCells(M.heap) # {}
    PROVE  /\ Yields(List!push_front(M, l, v), M, ss, l, <<v>> \o DataOf(M.heap, ss[l]))
           /\ Yields(List!push_back(M, l, v), M, ss, l, Append(DataOf(M.heap, ss[l]), v))
           /\ \A pos \in 0 .. Len(ss[l]) :
                  Yields(List!insert_at(M, l, pos, v), M, ss, l, InsertAt(DataOf(M.heap, ss[l]), pos + 1, v))
  <1> DEFINE d == DataOf(M.heap, ss[l])
  <1>1. d \in Seq(Values) /\ Len(d) = Len(ss[l])
    BY NodesFound
  <1>2. Len(ss[l]) \in Nat
    BY ListParts
  <1>3. ASSUME NEW i \in 1 .. Len(ss[l]) + 1 PROVE Yields(Inserted(M, ss, l, i, v), M, ss, l, InsertAt(d, i, v))
    BY InsertedHolds
  <1>4. /\ List!push_front(M, l, v) = Inserted(M, ss, l, 1, v)
        /\ List!push_back(M, l, v) = Inserted(M, ss, l, Len(ss[l]) + 1, v)
        /\ \A pos \in 0 .. Len(ss[l]) : List!insert_at(M, l, pos, v) = Inserted(M, ss, l, pos + 1, v)
    BY InsertionsPlaced
  <1> HIDE DEF d
  <1>5. InsertAt(d, 1, v) = <<v>> \o d /\ InsertAt(d, Len(ss[l]) + 1, v) = Append(d, v)
    BY <1>1, InsertAtEnds
  <1>6. 1 \in 1 .. Len(ss[l]) + 1 /\ Len(ss[l]) + 1 \in 1 .. Len(ss[l]) + 1 /\ \A pos \in 0 .. Len(ss[l]) : pos + 1 \in 1 .. Len(ss[l]) + 1
    BY <1>2
  <1> QED
    BY <1>3, <1>4, <1>5, <1>6 DEF d

(* The removals yield what sequences do. *)
LEMMA RemovalsYield ==
    ASSUME NEW M, NEW ss, ListsHold(M, ss), NEW l \in Lists, Len(ss[l]) # 0
    PROVE  /\ Yields(List!pop_front(M, l), M, ss, l, Tail(DataOf(M.heap, ss[l])))
           /\ Yields(List!pop_back(M, l), M, ss, l, Front(DataOf(M.heap, ss[l])))
           /\ \A pos \in 0 .. Len(ss[l]) - 1 :
                  Yields(List!erase(M, l, pos), M, ss, l, RemoveAt(DataOf(M.heap, ss[l]), pos + 1))
  <1> DEFINE d == DataOf(M.heap, ss[l])
  <1>1. d \in Seq(Values) /\ Len(d) = Len(ss[l])
    BY NodesFound
  <1>2. Len(ss[l]) \in Nat
    BY ListParts
  <1>3. ASSUME NEW m \in 1 .. Len(ss[l]) PROVE Yields(Removed(M, ss, l, m), M, ss, l, RemoveAt(d, m))
    BY RemovedHolds
  <1>4. /\ List!pop_front(M, l) = Removed(M, ss, l, 1)
        /\ List!pop_back(M, l) = Removed(M, ss, l, Len(ss[l]))
        /\ \A pos \in 0 .. Len(ss[l]) - 1 : List!erase(M, l, pos) = Removed(M, ss, l, pos + 1)
    BY RemovalsPlaced
  <1> HIDE DEF d
  <1>5. d # <<>>
    BY <1>1, EmptySeq
  <1>6. RemoveAt(d, 1) = Tail(d) /\ RemoveAt(d, Len(ss[l])) = Front(d)
    BY <1>1, <1>5, RemoveAtEnds
  <1>7. 1 \in 1 .. Len(ss[l]) /\ Len(ss[l]) \in 1 .. Len(ss[l]) /\ \A pos \in 0 .. Len(ss[l]) - 1 : pos + 1 \in 1 .. Len(ss[l])
    BY <1>2
  <1> QED
    BY <1>3, <1>4, <1>6, <1>7 DEF d

(* So every operation does what it promises. *)
LEMMA OperationsHolds ==
    ASSUME NEW M, NEW ss, ListsHold(M, ss)
    PROVE  OperationsHold(M)
  <1> SUFFICES ASSUME NEW l \in Lists
               PROVE  /\ List!FreeCells(M.heap) # {} => \A v \in Values :
                             /\ AllContents(List!push_front(M, l, v)) = ContentsWith(M, l, <<v>> \o AllContents(M)[l])
                             /\ AllContents(List!push_back(M, l, v)) = ContentsWith(M, l, Append(AllContents(M)[l], v))
                             /\ \A pos \in 0 .. M.lists[l].size :
                                    AllContents(List!insert_at(M, l, pos, v)) = ContentsWith(M, l, InsertAt(AllContents(M)[l], pos + 1, v))
                      /\ AllContents(M)[l] # <<>> =>
                             /\ AllContents(List!pop_front(M, l)) = ContentsWith(M, l, Tail(AllContents(M)[l]))
                             /\ AllContents(List!pop_back(M, l)) = ContentsWith(M, l, Front(AllContents(M)[l]))
                      /\ \A pos \in 0 .. M.lists[l].size - 1 :
                             AllContents(List!erase(M, l, pos)) = ContentsWith(M, l, RemoveAt(AllContents(M)[l], pos + 1))
                      /\ AllContents(List!clear(M, l)) = ContentsWith(M, l, <<>>)
                      /\ \A other \in Lists :
                             /\ FreeCount(List!clear(M, l).heap) >= M.lists[other].size =>
                                    AllContents(List!copy_assign(M, l, other)) = ContentsWith(M, l, AllContents(M)[other])
                             /\ AllContents(List!move_assign(M, l, other)) =
                                    IF l = other THEN AllContents(M)
                                    ELSE [AllContents(M) EXCEPT ![l] = AllContents(M)[other], ![other] = <<>>]
    BY DEF OperationsHold
  <1> DEFINE A == AllContents(M)
  <1>1. \A k \in Lists : A[k] = DataOf(M.heap, ss[k]) /\ M.lists[k].size = Len(ss[k]) /\ Len(A[k]) = Len(ss[k]) /\ Len(ss[k]) \in Nat
    BY NodesFound, ListParts DEF AllContents
  <1> HIDE DEF A
  <1>2. ASSUME NEW N, NEW e, Yields(N, M, ss, l, e) PROVE AllContents(N) = ContentsWith(M, l, e)
    BY <1>2, YieldsContents
  <1>3. ASSUME List!FreeCells(M.heap) # {}, NEW v \in Values
        PROVE  /\ AllContents(List!push_front(M, l, v)) = ContentsWith(M, l, <<v>> \o A[l])
               /\ AllContents(List!push_back(M, l, v)) = ContentsWith(M, l, Append(A[l], v))
               /\ \A pos \in 0 .. M.lists[l].size :
                      AllContents(List!insert_at(M, l, pos, v)) = ContentsWith(M, l, InsertAt(A[l], pos + 1, v))
    BY <1>1, <1>2, <1>3, InsertionsYield
  <1>4. ASSUME Len(ss[l]) # 0
        PROVE  /\ AllContents(List!pop_front(M, l)) = ContentsWith(M, l, Tail(A[l]))
               /\ AllContents(List!pop_back(M, l)) = ContentsWith(M, l, Front(A[l]))
               /\ \A pos \in 0 .. M.lists[l].size - 1 :
                      AllContents(List!erase(M, l, pos)) = ContentsWith(M, l, RemoveAt(A[l], pos + 1))
    BY <1>1, <1>2, <1>4, RemovalsYield
  <1>5. A[l] # <<>> => Len(ss[l]) # 0
    BY <1>1, NodesFound, EmptySeq
  <1>6. \A pos \in 0 .. M.lists[l].size - 1 : Len(ss[l]) # 0
    BY <1>1
  <1>7. AllContents(List!clear(M, l)) = ContentsWith(M, l, <<>>)
    BY <1>2, ClearHolds
  <1>8. ASSUME NEW other \in Lists, FreeCount(List!clear(M, l).heap) >= M.lists[other].size
        PROVE  AllContents(List!copy_assign(M, l, other)) = ContentsWith(M, l, A[other])
    BY <1>1, <1>2, <1>8, CopyAssignHolds
  <1>9. ASSUME NEW other \in Lists
        PROVE  AllContents(List!move_assign(M, l, other)) =
                   IF l = other THEN A ELSE [A EXCEPT ![l] = A[other], ![other] = <<>>]
    <2>1. CASE l = other
      BY <2>1 DEF List!move_assign, A
    <2>2. CASE l # other
      <3> DEFINE N == List!move_assign(M, l, other)
      <3>1. PICK tt : /\ ListsHold(N, tt) /\ DataOf(N.heap, tt[l]) = DataOf(M.heap, ss[other])
                      /\ DataOf(N.heap, tt[other]) = <<>>
                      /\ \A k \in Lists \ {l, other} : DataOf(N.heap, tt[k]) = DataOf(M.heap, ss[k])
        BY <2>2, MoveHolds DEF YieldsBoth
      <3> HIDE DEF N
      <3>2. \A k \in Lists : List!ContentOf(N, k) = DataOf(N.heap, tt[k])
        BY <3>1, NodesFound
      <3>3. List!ContentOf(N, l) = A[other] /\ List!ContentOf(N, other) = <<>>
            /\ \A k \in Lists \ {l, other} : List!ContentOf(N, k) = A[k]
        BY <1>1, <3>1, <3>2
      <3> DEFINE none == <<>>
      <3>4. A = [k \in Lists |-> A[k]]
        BY DEF A, AllContents
      <3> HIDE DEF none
      <3>5. List!ContentOf(N, other) = none
        BY <3>3 DEF none
      <3>6. AllContents(N) = [A EXCEPT ![l] = A[other], ![other] = none]
        BY <2>2, <3>3, <3>4, <3>5 DEF AllContents
      <3> QED
        BY <2>2, <3>6 DEF N, none
    <2> QED
      BY <2>1, <2>2
  <1> QED
    BY <1>3, <1>4, <1>5, <1>6, <1>7, <1>8, <1>9 DEF A

-----------------------------------------------------------------------------
(* The invariant of the lists: some assignment of nodes to lists explains the memory. *)
ListInv == \E ss : ListsHold(List!Memory, ss)

(* Empty lists satisfy the invariant. *)
LEMMA ListStarts ==
    ASSUME List!Init PROVE ListInv
  <1> DEFINE M == List!Memory
             ss == [l \in Lists |-> <<>>]
  <1>1. M = [heap |-> [c \in Cells |-> Unused], lists |-> [l \in Lists |-> List!EmptyList]]
    BY DEF List!Init, List!Memory
  <1>2. M.heap = [c \in Cells |-> Unused] /\ M.lists = [l \in Lists |-> List!EmptyList] /\ M = [heap |-> M.heap, lists |-> M.lists]
    BY <1>1
  <1>3. M.heap \in ListHeaps /\ \A c \in Cells : ~Held(M.heap, c)
    BY <1>2 DEF ListHeaps, Held
  <1>4. List!EmptyList \in ListObjects /\ List!EmptyList.head = Nil /\ List!EmptyList.tail = Nil /\ List!EmptyList.size = 0
    BY DEF List!EmptyList, ListObjects
  <1>5. <<>> \in Seq(Cells) /\ Len(<<>>) = 0 /\ Linked(Nil, M.heap, Nil, Nil, <<>>)
    BY DEF Linked, Beside
  <1> HIDE DEF M
  <1>6. M.lists \in [Lists -> ListObjects] /\ \A l \in Lists : M.lists[l] = List!EmptyList
    BY <1>2, <1>4
  <1>7. ss \in [Lists -> Seq(Cells)] /\ \A l \in Lists : ss[l] = <<>>
    BY <1>5
  <1> HIDE DEF ss
  <1>8. ListsHold(M, ss)
    BY <1>2, <1>3, <1>4, <1>5, <1>6, <1>7 DEF ListsHold
  <1> QED
    BY <1>8 DEF ListInv, M

(* A memory that lists hold becomes the next one. *)
LEMMA BecomesHolds ==
    ASSUME NEW N, NEW M, NEW ss, NEW l, NEW e, Yields(N, M, ss, l, e), List!Becomes(N)
    PROVE  ListInv'
  <1>1. PICK tt : ListsHold(N, tt)
    BY DEF Yields
  <1>2. N = [heap |-> N.heap, lists |-> N.lists]
    BY <1>1 DEF ListsHold
  <1>3. List!Memory' = N
    BY <1>2 DEF List!Memory, List!Becomes
  <1> QED
    BY <1>1, <1>3 DEF ListInv

(* Every operation on a list keeps the invariant. *)
LEMMA ListStep ==
    ASSUME ListInv, [ContainerNext]_containerVars
    PROVE  ListInv'
  <1> DEFINE M == List!Memory
  <1>1. PICK ss : ListsHold(M, ss)
    BY DEF ListInv
  <1>2. M.heap = listHeap /\ M.lists = lists
    BY DEF List!Memory
  <1>3. CASE List!Next
    <2>1. PICK l \in Lists :
              \/ \E v \in Values : List!Push(l, v) \/ \E pos \in 0 .. List!Cardinality(Cells) : List!Insert(l, pos, v)
              \/ List!Pop(l)
              \/ \E pos \in 0 .. List!Cardinality(Cells) : List!Erase(l, pos)
              \/ List!Destroy(l)
              \/ \E other \in Lists : List!Copy(l, other) \/ List!Move(l, other)
      BY <1>3 DEF List!Next
    <2>2. /\ M.lists[l].size = Len(ss[l]) /\ Len(ss[l]) \in Nat
          /\ M.lists[l].head = Beside(Nil, ss[l], 1)
      BY <1>1, ListParts
    <2> HIDE DEF M
    <2>3. ASSUME NEW v \in Values, List!Push(l, v) PROVE ListInv'
      <3>1. /\ List!FreeCells(M.heap) # {}
            /\ List!Becomes(List!push_front(M, l, v)) \/ List!Becomes(List!push_back(M, l, v))
        BY <1>2, <2>3 DEF List!Push, M
      <3> QED
        BY <1>1, <3>1, InsertionsYield, BecomesHolds
    <2>4. ASSUME NEW v \in Values, NEW pos \in 0 .. List!Cardinality(Cells), List!Insert(l, pos, v) PROVE ListInv'
      <3>1. List!FreeCells(M.heap) # {} /\ pos <= M.lists[l].size /\ List!Becomes(List!insert_at(M, l, pos, v))
        BY <1>2, <2>4 DEF List!Insert, M
      <3>2. pos \in 0 .. Len(ss[l])
        BY <2>2, <3>1
      <3> QED
        BY <1>1, <3>1, <3>2, InsertionsYield, BecomesHolds
    <2>5. ASSUME List!Pop(l) PROVE ListInv'
      <3>1. M.lists[l].head # Nil /\ (List!Becomes(List!pop_front(M, l)) \/ List!Becomes(List!pop_back(M, l)))
        BY <1>2, <2>5 DEF List!Pop, M
      <3>2. Len(ss[l]) # 0
        BY <2>2, <3>1 DEF Beside
      <3> QED
        BY <1>1, <3>1, <3>2, RemovalsYield, BecomesHolds
    <2>6. ASSUME NEW pos \in 0 .. List!Cardinality(Cells), List!Erase(l, pos) PROVE ListInv'
      <3>1. pos < M.lists[l].size /\ List!Becomes(List!erase(M, l, pos))
        BY <1>2, <2>6 DEF List!Erase, M
      <3>2. Len(ss[l]) # 0 /\ pos \in 0 .. Len(ss[l]) - 1
        BY <2>2, <3>1
      <3> QED
        BY <1>1, <3>1, <3>2, RemovalsYield, BecomesHolds
    <2>7. ASSUME List!Destroy(l) PROVE ListInv'
      <3>1. List!Becomes(List!clear(M, l))
        BY <2>7 DEF List!Destroy, M
      <3> QED
        BY <1>1, <3>1, ClearHolds, BecomesHolds
    <2>8. ASSUME NEW other \in Lists, List!Copy(l, other) PROVE ListInv'
      <3>1. FreeCount(List!clear(M, l).heap) >= M.lists[other].size /\ List!Becomes(List!copy_assign(M, l, other))
        BY <1>2, <2>8 DEF List!Copy, List!RoomFor, FreeCount, M, List!Cardinality, Cardinality, List!IsFiniteSet, IsFiniteSet
      <3> QED
        BY <1>1, <3>1, CopyAssignHolds, BecomesHolds
    <2>9. ASSUME NEW other \in Lists, List!Move(l, other) PROVE ListInv'
      <3> DEFINE N == List!move_assign(M, l, other)
      <3>1. List!Becomes(N)
        BY <2>9 DEF List!Move, M
      <3>2. \E tt : ListsHold(N, tt)
        <4>1. CASE l = other
          BY <1>1, <4>1 DEF List!move_assign
        <4>2. CASE l # other
          BY <1>1, <4>2, MoveHolds DEF YieldsBoth
        <4> QED
          BY <4>1, <4>2
      <3> HIDE DEF N
      <3>3. N = [heap |-> N.heap, lists |-> N.lists]
        BY <3>2 DEF ListsHold
      <3>4. List!Memory' = N
        BY <3>1, <3>3 DEF List!Memory, List!Becomes
      <3> QED
        BY <3>2, <3>4 DEF ListInv
    <2> QED
      BY <2>1, <2>3, <2>4, <2>5, <2>6, <2>7, <2>8, <2>9
  <1>4. CASE UNCHANGED listVars
    BY <1>4 DEF listVars, ListInv, List!Memory
  <1> QED
    BY <1>3, <1>4 DEF ContainerNext, containerVars

-----------------------------------------------------------------------------
(* The invariant implies both properties of the lists. *)
LEMMA ListInvLinks == ListInv => List!LinksConsistent
  <1> SUFFICES ASSUME ListInv PROVE List!LinksConsistent
    OBVIOUS
  <1> DEFINE M == List!Memory
             nodes == [l \in Lists |-> List!NodesOf(M, l)]
  <1>1. PICK ss : ListsHold(M, ss)
    BY DEF ListInv
  <1>2. M.heap = listHeap /\ M.lists = lists
    BY DEF List!Memory
  <1> HIDE DEF M
  <1>3. \A l \in Lists : nodes[l] = ss[l] /\ DOMAIN ss[l] = 1 .. Len(ss[l])
    BY <1>1, NodesFound, ListParts, LenProperties
  <1>4. ASSUME NEW l \in Lists
        PROVE  /\ Len(nodes[l]) = lists[l].size
               /\ lists[l].tail = IF nodes[l] = <<>> THEN Nil ELSE List!Last(nodes[l])
               /\ \A n \in DOMAIN nodes[l] : /\ listHeap[nodes[l][n]] # Unused
                                             /\ listHeap[nodes[l][n]].prev = IF n = 1 THEN Nil ELSE nodes[l][n - 1]
    <2>1. /\ Len(ss[l]) \in Nat /\ ss[l] \in Seq(Cells) /\ lists[l].size = Len(ss[l])
          /\ Linked(Nil, listHeap, lists[l].head, lists[l].tail, ss[l])
          /\ lists[l].tail = Beside(Nil, ss[l], Len(ss[l]))
          /\ \A n \in 1 .. Len(ss[l]) : Held(listHeap, ss[l][n])
      BY <1>1, <1>2, ListParts
    <2>2. lists[l].tail = IF ss[l] = <<>> THEN Nil ELSE List!Last(ss[l])
      <3>1. ss[l] = <<>> <=> Len(ss[l]) = 0
        BY <2>1, EmptySeq
      <3>2. Len(ss[l]) \in 1 .. Len(ss[l]) <=> Len(ss[l]) # 0
        BY <2>1
      <3> QED
        BY <2>1, <3>1, <3>2 DEF Beside, List!Last
    <2>3. ASSUME NEW n \in 1 .. Len(ss[l])
          PROVE  listHeap[ss[l][n]] # Unused /\ listHeap[ss[l][n]].prev = IF n = 1 THEN Nil ELSE ss[l][n - 1]
      <3>1. listHeap[ss[l][n]].prev = Beside(Nil, ss[l], n - 1) /\ listHeap[ss[l][n]] # Unused
        BY <2>1 DEF Linked, Held
      <3>2. n - 1 \in 1 .. Len(ss[l]) <=> n # 1
        BY <2>1
      <3> QED
        BY <3>1, <3>2 DEF Beside
    <2> HIDE DEF nodes
    <2> QED
      BY <1>3, <2>1, <2>2, <2>3
  <1>5. ASSUME NEW c \in Cells \ List!FreeCells(listHeap)
        PROVE  \E l \in Lists : \E n \in DOMAIN nodes[l] :
                   /\ nodes[l][n] = c
                   /\ \A k \in Lists : \A m \in DOMAIN nodes[k] : nodes[k][m] = c => k = l /\ m = n
    <2>1. Held(listHeap, c)
      BY DEF List!FreeCells, Held
    <2>0. PICK l \in Lists : \E n \in 1 .. Len(ss[l]) : ss[l][n] = c
      BY <1>1, <1>2, <2>1 DEF ListsHold
    <2>2. PICK n \in 1 .. Len(ss[l]) : ss[l][n] = c
      BY <2>0
    <2>3. ASSUME NEW k \in Lists, NEW m \in 1 .. Len(ss[k]), ss[k][m] = c PROVE k = l /\ m = n
      <3>1. k = l
        BY <1>1, <2>2, <2>3 DEF ListsHold
      <3>2. \A i, j \in 1 .. Len(ss[l]) : ss[l][i] = ss[l][j] => i = j
        BY <1>1, ListParts
      <3> QED
        BY <2>2, <2>3, <3>1, <3>2
    <2> HIDE DEF nodes
    <2> QED
      BY <1>3, <2>2, <2>3
  <1> HIDE DEF nodes
  <1>6. /\ \A l \in Lists :
               /\ Len(nodes[l]) = lists[l].size
               /\ lists[l].tail = IF nodes[l] = <<>> THEN Nil ELSE List!Last(nodes[l])
               /\ \A n \in DOMAIN nodes[l] : /\ listHeap[nodes[l][n]] # Unused
                                             /\ listHeap[nodes[l][n]].prev = IF n = 1 THEN Nil ELSE nodes[l][n - 1]
        /\ \A c \in Cells \ List!FreeCells(listHeap) :
               \E l \in Lists : \E n \in DOMAIN nodes[l] :
                   /\ nodes[l][n] = c
                   /\ \A k \in Lists : \A m \in DOMAIN nodes[k] : nodes[k][m] = c => k = l /\ m = n
    BY <1>4, <1>5
  <1> QED
    BY <1>6, Zenon DEF List!LinksConsistent, nodes, M

(* Every operation has its effect, in every state the invariant allows. *)
LEMMA ListInvOperations == ListInv => List!OperationsCorrect
  <1> SUFFICES ASSUME ListInv PROVE List!OperationsCorrect
    OBVIOUS
  <1> DEFINE M == List!Memory
  <1>1. PICK ss : ListsHold(M, ss)
    BY DEF ListInv
  <1>2. M.heap = listHeap /\ M.lists = lists
    BY DEF List!Memory
  <1> HIDE DEF M
  <1>3. OperationsHold(M)
    BY <1>1, OperationsHolds
  <1>4. \A s, i, v : List!InsertAt(s, i, v) = InsertAt(s, i, v)
    BY DEF List!InsertAt, InsertAt
  <1>5. \A s, i : List!RemoveAt(s, i) = RemoveAt(s, i)
    BY DEF List!RemoveAt, RemoveAt
  <1>6. \A s : List!Front(s) = Front(s)
    BY DEF List!Front, Front
  <1>7. \A l, other : List!RoomFor(l, other) <=> FreeCount(List!clear(M, l).heap) >= M.lists[other].size
    BY <1>2 DEF List!RoomFor, FreeCount, M, List!Cardinality, Cardinality, List!IsFiniteSet, IsFiniteSet
  <1>8. \A l \in Lists :
           /\ List!FreeCells(listHeap) # {} => \A v \in Values :
                  /\ AllContents(List!push_front(M, l, v)) = ContentsWith(M, l, <<v>> \o AllContents(M)[l])
                  /\ AllContents(List!push_back(M, l, v)) = ContentsWith(M, l, Append(AllContents(M)[l], v))
                  /\ \A pos \in 0 .. lists[l].size :
                         AllContents(List!insert_at(M, l, pos, v)) = ContentsWith(M, l, List!InsertAt(AllContents(M)[l], pos + 1, v))
           /\ AllContents(M)[l] # <<>> =>
                  /\ AllContents(List!pop_front(M, l)) = ContentsWith(M, l, Tail(AllContents(M)[l]))
                  /\ AllContents(List!pop_back(M, l)) = ContentsWith(M, l, List!Front(AllContents(M)[l]))
           /\ \A pos \in 0 .. lists[l].size - 1 :
                  AllContents(List!erase(M, l, pos)) = ContentsWith(M, l, List!RemoveAt(AllContents(M)[l], pos + 1))
           /\ AllContents(List!clear(M, l)) = ContentsWith(M, l, <<>>)
           /\ \A other \in Lists :
                  /\ List!RoomFor(l, other) =>
                         AllContents(List!copy_assign(M, l, other)) = ContentsWith(M, l, AllContents(M)[other])
                  /\ AllContents(List!move_assign(M, l, other)) =
                         IF l = other THEN AllContents(M)
                         ELSE [AllContents(M) EXCEPT ![l] = AllContents(M)[other], ![other] = <<>>]
    BY <1>2, <1>3, <1>4, <1>5, <1>6, <1>7 DEF OperationsHold
  <1> QED
    BY <1>8, Zenon DEF List!OperationsCorrect, AllContents, ContentsWith, M

(* For every number of lists, cells and values: after any sequence of operations the
   lists are linked consistently in both directions, no node is leaked or shared, and
   the next operation does to the sequence of elements what its name says
   (doubly_linked_list.cpp:41-135). *)
THEOREM ListsAlwaysSound == ContainerSpec => []List!ListsBehave
  <1>1. ContainerInit => ListInv
    BY ListStarts DEF ContainerInit
  <1>2. ListInv /\ [ContainerNext]_containerVars => ListInv'
    BY ListStep
  <1>3. ListInv => List!ListsBehave
    BY ListInvLinks, ListInvOperations DEF List!ListsBehave
  <1> QED
    BY <1>1, <1>2, <1>3, PTL DEF ContainerSpec

-----------------------------------------------------------------------------
(* The hash map. *)

(* A list with one element more at its end. *)
LEMMA AppendLists ==
    ASSUME NEW S, NEW s, Enumerates(s, S), NEW x, x \notin S
    PROVE  Enumerates(Append(s, x), S \cup {x})
  <1> DEFINE T == S \cup {x}
             t == Append(s, x)
  <1>1. s \in Seq(S) /\ s \in Seq(T) /\ Len(s) \in Nat /\ x \in T /\ \A n \in 1 .. Len(s) : s[n] \in S
    BY SeqMonotonic, LenProperties, ElementOfSeq DEF Enumerates
  <1>2. t \in Seq(T) /\ Len(t) = Len(s) + 1 /\ t[Len(s) + 1] = x /\ \A n \in 1 .. Len(s) : t[n] = s[n]
    BY <1>1, AppendProperties
  <1> HIDE DEF t
  <1>3. \A n \in 1 .. Len(t) : n = Len(s) + 1 \/ n \in 1 .. Len(s)
    BY <1>1, <1>2
  <1>4. \A n \in 1 .. Len(s) : n \in 1 .. Len(t) /\ Len(s) + 1 \in 1 .. Len(t)
    BY <1>1, <1>2
  <1>5. Len(s) + 1 \in 1 .. Len(t)
    BY <1>1, <1>2
  <1>6. ASSUME NEW i \in T PROVE \E k \in 1 .. Len(t) : t[k] = i
    BY <1>2, <1>4, <1>5 DEF Enumerates
  <1>7. ASSUME NEW k \in 1 .. Len(t), NEW l \in 1 .. Len(t), t[k] = t[l] PROVE k = l
    BY <1>1, <1>2, <1>3, <1>7 DEF Enumerates
  <1> QED
    BY <1>2, <1>6, <1>7 DEF Enumerates, t

(* A list without its m-th element. *)
LEMMA RemoveLists ==
    ASSUME NEW S, NEW s, Enumerates(s, S), NEW m \in 1 .. Len(s)
    PROVE  Enumerates(RemoveAt(s, m), S \ {s[m]})
  <1> DEFINE T == S \ {s[m]}
             t == RemoveAt(s, m)
  <1>1. s \in Seq(S) /\ Len(s) \in Nat /\ \A n \in 1 .. Len(s) : s[n] \in S
    BY LenProperties, ElementOfSeq DEF Enumerates
  <1>2. /\ t \in Seq(S) /\ Len(t) = Len(s) - 1 /\ Len(t) \in Nat
        /\ \A n \in 1 .. Len(s) - 1 : /\ n \in 1 .. Len(s) /\ n + 1 \in 1 .. Len(s)
                                      /\ t[n] = IF n < m THEN s[n] ELSE s[n + 1]
    BY <1>1, RemoveAtFacts
  <1> HIDE DEF t
  <1> DEFINE was(n) == IF n < m THEN n ELSE n + 1
  <1>3. m \in Nat /\ m >= 1 /\ m <= Len(s) /\ \A n \in 1 .. Len(t) : was(n) \in 1 .. Len(s) /\ was(n) # m /\ n \in Nat
    BY <1>1, <1>2
  <1>4. \A n \in 1 .. Len(t) : t[n] = s[was(n)]
    BY <1>2
  <1>5. \A k, l \in 1 .. Len(t) : was(k) = was(l) => k = l
    BY <1>3
  <1>6. ASSUME NEW n \in 1 .. Len(s), n # m PROVE \E k \in 1 .. Len(t) : was(k) = n
    <2>1. CASE n < m
      <3>1. n \in 1 .. Len(t) /\ was(n) = n
        BY <1>1, <1>2, <1>3, <2>1
      <3> QED
        BY <3>1
    <2>2. CASE ~(n < m)
      <3>1. n - 1 \in 1 .. Len(t) /\ was(n - 1) = n
        BY <1>1, <1>2, <1>3, <1>6, <2>2
      <3> QED
        BY <3>1
    <2> QED
      BY <2>1, <2>2
  <1> HIDE DEF was
  <1>0. \A k, l \in 1 .. Len(s) : s[k] = s[l] => k = l
    BY DEF Enumerates
  <1>7. ASSUME NEW n \in 1 .. Len(t) PROVE t[n] \in T
    <2>1. was(n) \in 1 .. Len(s) /\ was(n) # m /\ t[n] = s[was(n)]
      BY <1>3, <1>4
    <2> QED
      BY <1>0, <1>1, <2>1
  <1>8. t \in Seq(T)
    <2>1. t \in [1 .. Len(t) -> T]
      BY <1>2, <1>7, LenProperties
    <2> QED
      BY <1>2, <2>1, SeqDef, SMTT(60)
  <1>9. ASSUME NEW i \in T PROVE \E k \in 1 .. Len(t) : t[k] = i
    <2>1. PICK n \in 1 .. Len(s) : s[n] = i
      BY DEF Enumerates
    <2> QED
      BY <1>4, <1>6, <2>1
  <1>10. ASSUME NEW k \in 1 .. Len(t), NEW l \in 1 .. Len(t), t[k] = t[l] PROVE k = l
    <2>0. was(k) \in 1 .. Len(s) /\ was(l) \in 1 .. Len(s) /\ s[was(k)] = s[was(l)]
      BY <1>3, <1>4, <1>10
    <2>1. was(k) = was(l)
      BY <1>0, <2>0
    <2> QED
      BY <1>5, <2>1
  <1> QED
    BY <1>8, <1>9, <1>10 DEF Enumerates, t

(* A list with its m-th element replaced by one that it does not have elsewhere. *)
Exchanged(t, s, m, x) ==
    /\ t \in Seq({x} \cup {s[n] : n \in 1 .. Len(s)}) /\ Len(t) = Len(s) /\ t[m] = x
    /\ \A n \in 1 .. Len(s) : n # m => t[n] = s[n]

(* The list then lists the set with the two elements exchanged. *)
LEMMA ReplaceLists ==
    ASSUME NEW S, NEW s, Enumerates(s, S), NEW m \in 1 .. Len(s), NEW x, x \notin S \ {s[m]},
           NEW t, Exchanged(t, s, m, x)
    PROVE  Enumerates(t, (S \ {s[m]}) \cup {x})
  <1> DEFINE T == (S \ {s[m]}) \cup {x}
  <1>1. s \in Seq(S) /\ Len(s) \in Nat /\ \A n \in 1 .. Len(s) : s[n] \in S
    BY LenProperties, ElementOfSeq DEF Enumerates
  <1>2. Len(t) = Len(s) /\ t[m] = x /\ \A n \in 1 .. Len(s) : n # m => t[n] = s[n]
    BY DEF Exchanged
  <1>3. \A n \in 1 .. Len(t) : n # m => t[n] \in S \ {s[m]}
    BY <1>1, <1>2 DEF Enumerates
  <1>4. t \in Seq(T)
    <2>1. DOMAIN t = 1 .. Len(t) /\ t = [n \in 1 .. Len(t) |-> t[n]]
      BY LenProperties DEF Exchanged
    <2>2. \A n \in 1 .. Len(t) : t[n] \in T
      BY <1>2, <1>3
    <2>3. t \in [1 .. Len(t) -> T]
      BY <2>1, <2>2
    <2> QED
      BY <1>1, <1>2, <2>3, SeqDef
  <1>5. ASSUME NEW i \in T PROVE \E k \in 1 .. Len(t) : t[k] = i
    <2>1. CASE i = x
      BY <1>2, <2>1
    <2>2. CASE i \in S \ {s[m]}
      <3>1. PICK n \in 1 .. Len(s) : s[n] = i
        BY <2>2 DEF Enumerates
      <3> QED
        BY <1>2, <2>2, <3>1
    <2> QED
      BY <2>1, <2>2
  <1>6. ASSUME NEW k \in 1 .. Len(t), NEW l \in 1 .. Len(t), t[k] = t[l] PROVE k = l
    <2>1. CASE k = m \/ l = m
      BY <1>2, <1>3, <1>6, <2>1
    <2>2. CASE k # m /\ l # m
      BY <1>2, <1>6, <2>2 DEF Enumerates
    <2> QED
      BY <2>1, <2>2
  <1> QED
    BY <1>4, <1>5, <1>6 DEF Enumerates

-----------------------------------------------------------------------------
(* Entries, the bucket of a key among n, and an array of buckets that hold the entries
   E, each in the bucket of its key. *)
MapEntries == [key : MapKeys, value : Values \cup {Default}]
Home(k, n) == (Hashes[k] % n) + 1
Distinct(E) == \A e, f \in E : e.key = f.key => e = f
InBucket(E, n, b) == {e \in E : Home(e.key, n) = b}

Spread(array, n, E) ==
    /\ n \in Nat \ {0} /\ E \subseteq MapEntries /\ Distinct(E)
    /\ array \in [1 .. n -> Seq(MapEntries)]
    /\ \A b \in 1 .. n : Enumerates(array[b], InBucket(E, n, b))

(* Every key has a bucket. *)
LEMMA HomeExists ==
    ASSUME NEW k \in MapKeys, NEW n \in Nat \ {0}
    PROVE  Home(k, n) \in 1 .. n
  <1> DEFINE h == Hashes[k]
  <1>1. h \in Int /\ n \in Nat \ {0}
    BY ContainersAssumption
  <1> HIDE DEF h
  <1>2. h % n \in 0 .. n - 1
    BY ONLY <1>1, ModRange
  <1> QED
    BY <1>2 DEF Home, h

(* An array is a sequence of its buckets. *)
LEMMA ArrayIsSeq ==
    ASSUME NEW n \in Nat, NEW S, NEW array \in [1 .. n -> S]
    PROVE  array \in Seq(S) /\ Len(array) = n /\ DOMAIN array = 1 .. n
  <1>1. array \in Seq(S)
    BY SeqDef
  <1> QED
    BY <1>1, LenProperties

(* Flattening: the first i buckets one after the other. *)
Flattens(f, array, k) ==
    f = [i \in 1 .. k |-> IF i = 1 THEN array[i] ELSE f[i - 1] \o array[i]]

(* The recursive function of FlattenSeq exists. *)
LEMMA FlattensExist ==
    ASSUME NEW array, NEW k \in Nat
    PROVE  \E f : Flattens(f, array, k)
  <1> DEFINE Bad == {n \in Nat : ~\E f : Flattens(f, array, n)}
  <1> SUFFICES ASSUME Bad # {} PROVE FALSE
    OBVIOUS
  <1>1. PICK n \in Bad : \A m \in Bad : ~(m < n)
    BY LeastNumber
  <1>2. n \in Nat /\ ~\E f : Flattens(f, array, n)
    BY <1>1
  <1>3. n # 0
    <2> DEFINE f == [i \in 1 .. 0 |-> array]
    <2>1. Flattens(f, array, 0)
      BY DEF Flattens
    <2> QED
      BY <1>2, <2>1
  <1>4. n - 1 \in Nat /\ n - 1 < n
    BY <1>2, <1>3
  <1>5. PICK f : Flattens(f, array, n - 1)
    BY <1>1, <1>4
  <1> HIDE DEF Bad
  <1> DEFINE new == IF n = 1 THEN array[n] ELSE f[n - 1] \o array[n]
             g == [i \in 1 .. n |-> IF i = n THEN new ELSE f[i]]
  <1>6. \A i \in 1 .. n - 1 : f[i] = IF i = 1 THEN array[i] ELSE f[i - 1] \o array[i]
    BY <1>5 DEF Flattens
  <1>7. ASSUME NEW i \in 1 .. n PROVE g[i] = IF i = 1 THEN array[i] ELSE g[i - 1] \o array[i]
    <2>1. i # 1 => i - 1 \in 1 .. n /\ i - 1 # n
      BY <1>2
    <2>2. i # 1 => g[i - 1] = f[i - 1]
      BY <2>1
    <2>3. CASE i = n
      BY <2>2, <2>3
    <2>4. CASE i # n
      <3>1. i \in 1 .. n - 1 /\ g[i] = f[i]
        BY <1>2, <2>4
      <3> QED
        BY <1>6, <2>2, <3>1
    <2> QED
      BY <2>3, <2>4
  <1>8. Flattens(g, array, n)
    BY <1>7 DEF Flattens
  <1> QED
    BY <1>2, <1>8

(* The buckets together list all entries. *)
LEMMA FlattenLists ==
    ASSUME NEW array, NEW n, NEW E, Spread(array, n, E)
    PROVE  Enumerates(Map!FlattenSeq(array), E)
  <1> DEFINE f == CHOOSE g : Flattens(g, array, n)
             Upto(i) == {e \in E : Home(e.key, n) <= i}
             Bad == {i \in 1 .. n : ~Enumerates(f[i], Upto(i))}
  <1>1. n \in Nat /\ n # 0 /\ Len(array) = n
    BY ArrayIsSeq DEF Spread
  <1>2. Map!FlattenSeq(array) = f[n]
    BY <1>1 DEF Map!FlattenSeq, Flattens
  <1>3. Flattens(f, array, n)
    BY <1>1, FlattensExist
  <1> HIDE DEF f
  <1>4. \A e \in E : Home(e.key, n) \in 1 .. n
    BY <1>1, HomeExists DEF Spread, MapEntries
  <1>5. \A b \in 1 .. n : Enumerates(array[b], InBucket(E, n, b))
    BY DEF Spread
  <1>6. Bad = {}
    <2> SUFFICES ASSUME Bad # {} PROVE FALSE
      OBVIOUS
    <2>1. Bad \in SUBSET Nat
      BY <1>1
    <2>2. PICK i \in Bad : \A m \in Bad : ~(m < i)
      BY <2>1, LeastNumber
    <2>3. i \in 1 .. n /\ ~Enumerates(f[i], Upto(i)) /\ i \in Nat
      BY <1>1, <2>2
    <2>4. f[i] = IF i = 1 THEN array[i] ELSE f[i - 1] \o array[i]
      BY <1>3, <2>3 DEF Flattens
    <2>5. CASE i = 1
      <3>1. Upto(1) = InBucket(E, n, 1)
        BY <1>4 DEF InBucket
      <3> HIDE DEF Upto
      <3> QED
        BY <1>5, <2>3, <2>4, <2>5, <3>1
    <2>6. CASE i # 1
      <3>1. i - 1 \in 1 .. n /\ i - 1 < i
        BY <1>1, <2>3, <2>6
      <3>2. Enumerates(f[i - 1], Upto(i - 1))
        BY <2>2, <3>1
      <3>3. Upto(i) = Upto(i - 1) \cup InBucket(E, n, i) /\ Upto(i - 1) \cap InBucket(E, n, i) = {}
        BY <1>1, <1>4, <2>3, <2>6 DEF InBucket
      <3> HIDE DEF Upto
      <3>4. Enumerates(array[i], InBucket(E, n, i))
        BY <1>5, <2>3
      <3>5. Enumerates(f[i - 1] \o array[i], Upto(i - 1) \cup InBucket(E, n, i))
        BY <3>2, <3>3, <3>4, JoinLists
      <3> QED
        BY <2>3, <2>4, <2>6, <3>3, <3>5
    <2> QED
      BY <2>5, <2>6
  <1>7. Upto(n) = E
    BY <1>4
  <1> HIDE DEF Upto
  <1>8. Enumerates(f[n], Upto(n))
    BY <1>1, <1>6
  <1> QED
    BY <1>2, <1>7, <1>8

(* One bucket exchanged: the entries become G, which differs from E in that bucket. *)
Replaced(array, b, t) == [array EXCEPT ![b] = t]

(* The other buckets are not touched. *)
LEMMA ReplacedSpreads ==
    ASSUME NEW array, NEW n, NEW E, Spread(array, n, E), NEW G, G \subseteq MapEntries, Distinct(G),
           NEW b \in 1 .. n, NEW t, Enumerates(t, InBucket(G, n, b)),
           \A c \in 1 .. n : c # b => InBucket(G, n, c) = InBucket(E, n, c)
    PROVE  Spread(Replaced(array, b, t), n, G)
  <1>1. t \in Seq(MapEntries)
    <2>1. t \in Seq(InBucket(G, n, b)) /\ InBucket(G, n, b) \subseteq MapEntries
      BY DEF Enumerates, InBucket
    <2> QED
      BY <2>1, SeqMonotonic
  <1>2. array \in [1 .. n -> Seq(MapEntries)] /\ n \in Nat \ {0}
    BY DEF Spread
  <1>3. /\ Replaced(array, b, t) \in [1 .. n -> Seq(MapEntries)] /\ Replaced(array, b, t)[b] = t
        /\ \A c \in 1 .. n : c # b => Replaced(array, b, t)[c] = array[c]
    BY <1>1, <1>2 DEF Replaced
  <1>4. ASSUME NEW c \in 1 .. n PROVE Enumerates(Replaced(array, b, t)[c], InBucket(G, n, c))
    <2>1. CASE c = b
      BY <1>3, <2>1
    <2>2. CASE c # b
      BY <1>3, <2>2 DEF Spread
    <2> QED
      BY <2>1, <2>2
  <1> QED
    BY <1>2, <1>3, <1>4 DEF Spread

(* A new entry at the end of its bucket. *)
Place(array, e, n) == [array EXCEPT ![Home(e.key, n)] = Append(@, e)]

(* The entry is the last of the bucket its key selects. *)
LEMMA PlaceSpreads ==
    ASSUME NEW array, NEW n, NEW E, Spread(array, n, E), NEW e \in MapEntries, \A f \in E : f.key # e.key
    PROVE  Spread(Place(array, e, n), n, E \cup {e})
  <1> DEFINE b == Home(e.key, n)
             G == E \cup {e}
             t == Append(array[b], e)
  <1>1. n \in Nat \ {0} /\ E \subseteq MapEntries /\ Distinct(E)
    BY DEF Spread
  <1>2. e.key \in MapKeys
    BY DEF MapEntries
  <1>3. b \in 1 .. n
    BY <1>1, <1>2, HomeExists
  <1>4. Place(array, e, n) = Replaced(array, b, t)
    BY DEF Place, Replaced
  <1>5. G \subseteq MapEntries /\ Distinct(G)
    BY <1>1 DEF Distinct
  <1>6. /\ InBucket(G, n, b) = InBucket(E, n, b) \cup {e}
        /\ \A c \in 1 .. n : c # b => InBucket(G, n, c) = InBucket(E, n, c)
    BY DEF InBucket
  <1>7. e \notin InBucket(E, n, b) /\ Enumerates(array[b], InBucket(E, n, b))
    BY <1>3 DEF Spread, InBucket
  <1> HIDE DEF b
  <1>8. Enumerates(t, InBucket(G, n, b))
    <2> DEFINE S == InBucket(E, n, b)
               s == array[b]
    <2>1. Enumerates(s, S) /\ e \notin S /\ InBucket(G, n, b) = S \cup {e}
      BY <1>6, <1>7
    <2> HIDE DEF S, s
    <2>2. Enumerates(Append(s, e), S \cup {e})
      BY <2>1, AppendLists
    <2> QED
      BY <2>1, <2>2 DEF s
  <1> HIDE DEF t, G
  <1>9. Spread(Replaced(array, b, t), n, G)
    BY <1>3, <1>5, <1>6, <1>8, ReplacedSpreads
  <1> QED
    BY <1>4, <1>9 DEF G

-----------------------------------------------------------------------------
(* The arrays of a rehash: f[i] holds the first i entries of F. *)
Places(f, n, F, k) ==
    f = [i \in 0 .. k |-> IF i = 0 THEN [b \in 1 .. n |-> <<>>] ELSE Place(f[i - 1], F[i], n)]

(* The recursive function of rehash exists. *)
LEMMA PlacesExist ==
    ASSUME NEW n, NEW F, NEW k \in Nat
    PROVE  \E f : Places(f, n, F, k)
  <1> DEFINE Bad == {j \in Nat : ~\E f : Places(f, n, F, j)}
             none == [b \in 1 .. n |-> <<>>]
  <1> SUFFICES ASSUME Bad # {} PROVE FALSE
    OBVIOUS
  <1>1. PICK j \in Bad : \A m \in Bad : ~(m < j)
    BY LeastNumber
  <1>2. j \in Nat /\ ~\E f : Places(f, n, F, j)
    BY <1>1
  <1>0. \A f, i : Places(f, n, F, i) <=> f = [m \in 0 .. i |-> IF m = 0 THEN none ELSE Place(f[m - 1], F[m], n)]
    BY DEF Places
  <1> HIDE DEF none
  <1>3. j # 0
    <2> DEFINE f == [i \in 0 .. 0 |-> none]
    <2>1. f = [m \in 0 .. 0 |-> IF m = 0 THEN none ELSE Place(f[m - 1], F[m], n)]
      OBVIOUS
    <2>2. Places(f, n, F, 0)
      BY <1>0, <2>1, Zenon
    <2> QED
      BY <1>2, <2>2
  <1>4. j - 1 \in Nat /\ j - 1 < j
    BY <1>2, <1>3
  <1>5. PICK f : Places(f, n, F, j - 1)
    BY <1>1, <1>4
  <1> HIDE DEF Bad
  <1> DEFINE new == Place(f[j - 1], F[j], n)
             g == [i \in 0 .. j |-> IF i = j THEN new ELSE f[i]]
  <1>6. \A i \in 0 .. j - 1 : f[i] = IF i = 0 THEN none ELSE Place(f[i - 1], F[i], n)
    <2>1. f = [m \in 0 .. j - 1 |-> IF m = 0 THEN none ELSE Place(f[m - 1], F[m], n)]
      BY <1>0, <1>5, Zenon
    <2> QED
      BY <2>1
  <1>7. ASSUME NEW i \in 0 .. j PROVE g[i] = IF i = 0 THEN none ELSE Place(g[i - 1], F[i], n)
    <2>1. i # 0 => i - 1 \in 0 .. j /\ i - 1 # j
      BY <1>2
    <2>2. i # 0 => g[i - 1] = f[i - 1]
      BY <2>1
    <2>3. CASE i = j
      BY <1>3, <2>2, <2>3
    <2>4. CASE i # j
      <3>1. i \in 0 .. j - 1 /\ g[i] = f[i]
        BY <1>2, <2>4
      <3> QED
        BY <1>6, <2>2, <3>1
    <2> QED
      BY <2>3, <2>4
  <1>8. g = [m \in 0 .. j |-> IF m = 0 THEN none ELSE Place(g[m - 1], F[m], n)]
    BY <1>7
  <1>9. Places(g, n, F, j)
    BY <1>0, <1>8, Zenon
  <1> QED
    BY <1>2, <1>9

(* A rehash spreads the entries that F lists over n new buckets. *)
LEMMA PlacesSpread ==
    ASSUME NEW n \in Nat \ {0}, NEW E, E \subseteq MapEntries, Distinct(E), NEW F, Enumerates(F, E),
           NEW f, Places(f, n, F, Len(F))
    PROVE  Spread(f[Len(F)], n, E)
  <1> DEFINE First(i) == {F[j] : j \in 1 .. i}
             Bad == {i \in 0 .. Len(F) : ~Spread(f[i], n, First(i))}
             none == [b \in 1 .. n |-> <<>>]
  <1>1. Len(F) \in Nat /\ \A i \in 1 .. Len(F) : F[i] \in E /\ F[i] \in MapEntries
    BY LenProperties, ElementOfSeq DEF Enumerates
  <1>2. \A i \in 0 .. Len(F) : f[i] = IF i = 0 THEN none ELSE Place(f[i - 1], F[i], n)
    BY DEF Places
  <1>3. Bad = {}
    <2> SUFFICES ASSUME Bad # {} PROVE FALSE
      OBVIOUS
    <2>1. Bad \in SUBSET Nat
      BY <1>1
    <2>2. PICK i \in Bad : \A m \in Bad : ~(m < i)
      BY <2>1, LeastNumber
    <2>3. i \in 0 .. Len(F) /\ ~Spread(f[i], n, First(i)) /\ i \in Nat
      BY <1>1, <2>2
    <2>4. CASE i = 0
      <3>1. f[i] = none /\ First(i) = {}
        BY <1>2, <2>3, <2>4
      <3>2. <<>> \in Seq(MapEntries) /\ Enumerates(<<>>, {})
        BY ShortLists
      <3>3. none \in [1 .. n -> Seq(MapEntries)] /\ \A b \in 1 .. n : none[b] = <<>>
        BY <3>2
      <3>4. \A b \in 1 .. n : InBucket({}, n, b) = {}
        BY DEF InBucket
      <3> HIDE DEF none, First
      <3>5. \A b \in 1 .. n : Enumerates(none[b], InBucket({}, n, b))
        BY <3>2, <3>3, <3>4
      <3>6. Distinct({})
        BY DEF Distinct
      <3>7. Spread(none, n, {})
        BY <3>3, <3>5, <3>6 DEF Spread
      <3> QED
        BY <2>3, <3>1, <3>7
    <2>5. CASE i # 0
      <3>1. i - 1 \in 0 .. Len(F) /\ i - 1 < i /\ i \in 1 .. Len(F)
        BY <1>1, <2>3, <2>5
      <3>2. Spread(f[i - 1], n, First(i - 1))
        BY <2>2, <3>1
      <3>3. First(i) = First(i - 1) \cup {F[i]}
        <4>1. \A j : j \in 1 .. i <=> j \in 1 .. i - 1 \/ j = i
          BY <2>3, <3>1
        <4> QED
          BY <4>1
      <3>4. ASSUME NEW e \in First(i - 1) PROVE e.key # F[i].key
        <4>1. PICK j \in 1 .. i - 1 : e = F[j]
          OBVIOUS
        <4>2. j \in 1 .. Len(F) /\ j # i
          BY <1>1, <2>3, <3>1
        <4>3. F[j] # F[i] /\ F[j] \in E /\ F[i] \in E
          BY <1>1, <3>1, <4>2 DEF Enumerates
        <4> QED
          BY <4>1, <4>3 DEF Distinct
      <3> HIDE DEF First
      <3>5. Spread(Place(f[i - 1], F[i], n), n, First(i - 1) \cup {F[i]})
        BY <1>1, <3>1, <3>2, <3>4, PlaceSpreads
      <3> QED
        BY <1>2, <2>3, <2>5, <3>3, <3>5
    <2> QED
      BY <2>4, <2>5
  <1>4. First(Len(F)) = E
    BY <1>1, SMTT(60) DEF Enumerates
  <1> HIDE DEF First
  <1>5. Spread(f[Len(F)], n, First(Len(F)))
    BY <1>1, <1>3
  <1> QED
    BY <1>4, <1>5

-----------------------------------------------------------------------------
(* The map holds the entries E. *)
MapHolds(m, E) ==
    /\ m = [buckets |-> m.buckets, size |-> m.size]
    /\ Spread(m.buckets, Len(m.buckets), E) /\ m.size = Cardinality(E)

(* A map that holds E counts its entries right. *)
LEMMA MapFinite ==
    ASSUME NEW m, NEW E, MapHolds(m, E)
    PROVE  /\ IsFiniteSet(E) /\ Cardinality(E) \in Nat /\ m.size = Len(Map!FlattenSeq(m.buckets)) /\ m.size \in Nat
           /\ Len(m.buckets) \in Nat \ {0} /\ E \subseteq MapEntries /\ Distinct(E)
           /\ Enumerates(Map!FlattenSeq(m.buckets), E)
  <1>1. Spread(m.buckets, Len(m.buckets), E) /\ m.size = Cardinality(E)
    BY DEF MapHolds
  <1>2. Enumerates(Map!FlattenSeq(m.buckets), E)
    BY <1>1, FlattenLists
  <1> QED
    BY <1>1, <1>2, ListLength DEF Spread

(* rehash keeps the entries and gives the map n buckets (lines 47-56). *)
LEMMA RehashHolds ==
    ASSUME NEW m, NEW E, MapHolds(m, E), NEW n \in Nat \ {0}
    PROVE  MapHolds(Map!rehash(m, n), E) /\ Len(Map!rehash(m, n).buckets) = n
  <1> DEFINE F == Map!FlattenSeq(m.buckets)
             f == CHOOSE g : Places(g, n, F, Len(F))
             N == Map!rehash(m, n)
  <1>1. Enumerates(F, E) /\ E \subseteq MapEntries /\ Distinct(E) /\ Len(F) \in Nat
    BY MapFinite, ListLength
  <1>2. N = [m EXCEPT !.buckets = f[Len(F)]]
    BY DEF Map!rehash, Places, Place, Home
  <1> HIDE DEF F
  <1>3. Places(f, n, F, Len(F))
    BY <1>1, PlacesExist
  <1> HIDE DEF f, N
  <1>4. Spread(f[Len(F)], n, E)
    BY <1>1, <1>3, PlacesSpread
  <1>5. m = [buckets |-> m.buckets, size |-> m.size]
    BY DEF MapHolds
  <1>6. N = [buckets |-> f[Len(F)], size |-> m.size]
    BY <1>2, <1>5
  <1>7. N.buckets = f[Len(F)] /\ N.size = m.size /\ N = [buckets |-> N.buckets, size |-> N.size]
    BY <1>6
  <1>8. Len(N.buckets) = n
    BY <1>4, <1>7, ArrayIsSeq DEF Spread
  <1> QED
    BY <1>4, <1>7, <1>8 DEF MapHolds, N

(* The entries of key k, the values bound to it, and E with k bound to v or unbound. *)
ValuesOf(E, k) == {e.value : e \in {f \in E : f.key = k}}
Without(E, k) == {e \in E : e.key # k}
Bound(E, k, v) == Without(E, k) \cup {Map!Entry(k, v)}

(* The places of key k in the bucket s: none, or that of its entry. *)
KeyFound(E, k, s, found) ==
    \/ found = {} /\ \A e \in E : e.key # k
    \/ \E p \in 1 .. Len(s) : found = {p} /\ s[p] \in E /\ s[p].key = k

BucketOf(m, k) == m.buckets[Home(k, Len(m.buckets))]

(* The bucket of a key and its place in it. *)
LEMMA Located ==
    ASSUME NEW m, NEW E, MapHolds(m, E), NEW k \in MapKeys
    PROVE  /\ Map!bucket_index(m, k) = Home(k, Len(m.buckets))
           /\ Home(k, Len(m.buckets)) \in 1 .. Len(m.buckets) /\ Len(m.buckets) \in Nat \ {0}
           /\ BucketOf(m, k) \in Seq(MapEntries)
           /\ Enumerates(BucketOf(m, k), InBucket(E, Len(m.buckets), Home(k, Len(m.buckets))))
           /\ KeyFound(E, k, BucketOf(m, k), Map!Positions(BucketOf(m, k), k))
  <1> DEFINE n == Len(m.buckets)
             b == Map!bucket_index(m, k)
             s == BucketOf(m, k)
             found == Map!Positions(s, k)
  <1>1. b = Home(k, n) /\ s = m.buckets[b]
    BY DEF Map!bucket_index, Home, BucketOf
  <1>2. Spread(m.buckets, n, E) /\ n \in Nat \ {0} /\ Distinct(E)
    BY MapFinite DEF MapHolds
  <1> HIDE DEF b, n
  <1>3. b \in 1 .. n
    BY <1>1, <1>2, HomeExists
  <1>4. s \in Seq(MapEntries) /\ Enumerates(s, InBucket(E, n, b))
    BY <1>1, <1>2, <1>3 DEF Spread
  <1> HIDE DEF s
  <1>5. DOMAIN s = 1 .. Len(s) /\ \A p \in 1 .. Len(s) : s[p] \in InBucket(E, n, b)
    BY <1>4, LenProperties, ElementOfSeq DEF Enumerates
  <1>6. found = {p \in 1 .. Len(s) : s[p].key = k}
    BY <1>5 DEF Map!Positions
  <1> HIDE DEF found
  <1>7. CASE \A e \in E : e.key # k
    <2>1. \A p \in 1 .. Len(s) : s[p].key # k
      BY <1>5, <1>7 DEF InBucket
    <2>2. found = {}
      BY <1>6, <2>1
    <2> QED
      BY <1>1, <1>2, <1>3, <1>4, <1>7, <2>2 DEF KeyFound, found, s, b, n
  <1>8. CASE \E e \in E : e.key = k
    <2>1. PICK e \in E : e.key = k
      BY <1>8
    <2>2. e \in InBucket(E, n, b)
      BY <1>1, <2>1 DEF InBucket
    <2>3. PICK p \in 1 .. Len(s) : s[p] = e
      BY <1>4, <2>2 DEF Enumerates
    <2>4. ASSUME NEW q \in found PROVE q = p
      <3>1. q \in 1 .. Len(s) /\ s[q].key = k
        BY <1>6
      <3>2. s[q] \in E
        BY <1>5, <3>1 DEF InBucket
      <3>3. s[q] = s[p]
        BY <1>2, <2>1, <2>3, <3>1, <3>2 DEF Distinct
      <3> QED
        BY <1>4, <3>1, <3>3 DEF Enumerates
    <2>5. p \in found
      BY <1>6, <2>1, <2>3
    <2>6. found = {p}
      BY <2>4, <2>5
    <2>7. KeyFound(E, k, s, found)
      BY <2>1, <2>3, <2>6 DEF KeyFound
    <2> QED
      BY <1>1, <1>2, <1>3, <1>4, <2>7 DEF found, s, b, n
  <1> QED
    BY <1>7, <1>8

(* find returns the value bound to the key. *)
LEMMA FindHolds ==
    ASSUME NEW m, NEW E, MapHolds(m, E), NEW k \in MapKeys
    PROVE  Map!find(m, k) = ValuesOf(E, k)
  <1> DEFINE s == BucketOf(m, k)
             found == Map!Positions(s, k)
  <1>0. Map!bucket_index(m, k) = Home(k, Len(m.buckets)) /\ KeyFound(E, k, s, found)
    BY Located
  <1>1. Map!find(m, k) = {s[n].value : n \in found}
    BY <1>0 DEF Map!find, BucketOf
  <1>2. \/ found = {} /\ \A e \in E : e.key # k
        \/ \E p \in 1 .. Len(s) : found = {p} /\ s[p] \in E /\ s[p].key = k
    BY <1>0 DEF KeyFound
  <1>3. Distinct(E)
    BY MapFinite
  <1> HIDE DEF s, found
  <1>4. CASE found = {} /\ \A e \in E : e.key # k
    BY <1>1, <1>4 DEF ValuesOf
  <1>5. CASE \E p \in 1 .. Len(s) : found = {p} /\ s[p] \in E /\ s[p].key = k
    <2>1. PICK p \in 1 .. Len(s) : found = {p} /\ s[p] \in E /\ s[p].key = k
      BY <1>5
    <2>2. {f \in E : f.key = k} = {s[p]}
      BY <1>3, <2>1 DEF Distinct
    <2>3. ValuesOf(E, k) = {s[p].value}
      BY <2>2 DEF ValuesOf
    <2> QED
      BY <1>1, <2>1, <2>3
  <1> QED
    BY <1>2, <1>4, <1>5

(* A bucket exchanged in the map. *)
WithBucket(m, b, t, size) == [buckets |-> Replaced(m.buckets, b, t), size |-> size]

(* The map with one bucket exchanged holds the new entries. *)
LEMMA BucketChanged ==
    ASSUME NEW m, NEW E, MapHolds(m, E), NEW G, G \subseteq MapEntries, Distinct(G), NEW b \in 1 .. Len(m.buckets),
           NEW t, Enumerates(t, InBucket(G, Len(m.buckets), b)),
           \A c \in 1 .. Len(m.buckets) : c # b => InBucket(G, Len(m.buckets), c) = InBucket(E, Len(m.buckets), c),
           NEW size, size = Cardinality(G)
    PROVE  /\ MapHolds(WithBucket(m, b, t, size), G) /\ Len(WithBucket(m, b, t, size).buckets) = Len(m.buckets)
           /\ WithBucket(m, b, t, size).size = size
  <1> DEFINE N == WithBucket(m, b, t, size)
  <1>1. Spread(m.buckets, Len(m.buckets), E)
    BY DEF MapHolds
  <1>2. Spread(Replaced(m.buckets, b, t), Len(m.buckets), G)
    BY <1>1, ReplacedSpreads
  <1>3. Len(Replaced(m.buckets, b, t)) = Len(m.buckets)
    BY <1>2, ArrayIsSeq DEF Spread
  <1>4. N.buckets = Replaced(m.buckets, b, t) /\ N.size = size /\ N = [buckets |-> N.buckets, size |-> N.size]
    BY DEF WithBucket
  <1> HIDE DEF N
  <1> QED
    BY <1>2, <1>3, <1>4 DEF MapHolds, N

(* A new entry at the end of its bucket. *)
LEMMA EmplaceHolds ==
    ASSUME NEW m, NEW E, MapHolds(m, E), NEW k \in MapKeys, NEW v \in Values \cup {Default}, \A e \in E : e.key # k
    PROVE  /\ MapHolds(Map!EmplaceBack(m, k, v), Bound(E, k, v))
           /\ Len(Map!EmplaceBack(m, k, v).buckets) = Len(m.buckets)
           /\ Map!EmplaceBack(m, k, v).size = m.size + 1
  <1> DEFINE e == Map!Entry(k, v)
             n == Len(m.buckets)
             N == Map!EmplaceBack(m, k, v)
  <1>1. e \in MapEntries /\ e.key = k
    BY DEF Map!Entry, MapEntries
  <1>2. Bound(E, k, v) = E \cup {e}
    BY DEF Bound, Without
  <1>3. N = [buckets |-> Place(m.buckets, e, n), size |-> m.size + 1]
    BY <1>1 DEF Map!EmplaceBack, Map!bucket_index, Place, Home
  <1> HIDE DEF e
  <1>4. Spread(m.buckets, n, E) /\ IsFiniteSet(E) /\ m.size = Cardinality(E) /\ n \in Nat
    BY MapFinite DEF MapHolds
  <1>5. Spread(Place(m.buckets, e, n), n, E \cup {e})
    BY <1>1, <1>4, PlaceSpreads
  <1>6. Len(Place(m.buckets, e, n)) = n
    BY <1>5, ArrayIsSeq DEF Spread
  <1>7. e \notin E
    BY <1>1
  <1>8. Cardinality(E \cup {e}) = Cardinality(E) + 1
    BY <1>4, <1>7, FS_AddElement
  <1> HIDE DEF N
  <1>9. N.buckets = Place(m.buckets, e, n) /\ N.size = m.size + 1 /\ N = [buckets |-> N.buckets, size |-> N.size]
    BY <1>3
  <1>10. MapHolds(N, E \cup {e})
    BY <1>4, <1>5, <1>6, <1>8, <1>9 DEF MapHolds
  <1> QED
    BY <1>2, <1>6, <1>9, <1>10 DEF N

(* Growing keeps the entries, and brings a load that was exceeded by one entry down. *)
Loaded(m) == 4 * m.size <= 3 * Len(m.buckets)

(* Doubling the buckets is enough: the load was exceeded by one entry. *)
LEMMA GrowHolds ==
    ASSUME NEW m, NEW E, MapHolds(m, E), 4 * m.size <= 3 * Len(m.buckets) + 4
    PROVE  MapHolds(Map!GrowIfOverloaded(m), E) /\ Loaded(Map!GrowIfOverloaded(m))
  <1> DEFINE n == Len(m.buckets)
             N == Map!rehash(m, 2 * n)
  <1>1. n \in Nat \ {0} /\ m.size \in Nat /\ m.size = Cardinality(E)
    BY MapFinite DEF MapHolds
  <1>2. CASE Map!Overloaded(m)
    <2>1. Map!GrowIfOverloaded(m) = N
      BY <1>2 DEF Map!GrowIfOverloaded
    <2>2. 2 * n \in Nat \ {0}
      BY <1>1
    <2>3. MapHolds(N, E) /\ Len(N.buckets) = 2 * n
      BY <2>2, RehashHolds
    <2>4. N.size = m.size
      BY <1>1, <2>3 DEF MapHolds
    <2> HIDE DEF N, n
    <2>5. 4 * m.size <= 3 * n + 4
      BY DEF n
    <2>6. 4 * m.size <= 3 * (2 * n)
      BY <1>1, <2>5
    <2> QED
      BY <2>1, <2>3, <2>4, <2>6 DEF Loaded
  <1>3. CASE ~Map!Overloaded(m)
    BY <1>1, <1>3 DEF Map!GrowIfOverloaded, Map!Overloaded, Loaded
  <1> QED
    BY <1>2, <1>3

(* An insertion of a new key. *)
LEMMA NewKeyHolds ==
    ASSUME NEW m, NEW E, MapHolds(m, E), Loaded(m), NEW k \in MapKeys, NEW v \in Values \cup {Default}, \A e \in E : e.key # k
    PROVE  LET N == Map!GrowIfOverloaded(Map!EmplaceBack(m, k, v)) IN MapHolds(N, Bound(E, k, v)) /\ Loaded(N)
  <1> DEFINE P == Map!EmplaceBack(m, k, v)
  <1>1. MapHolds(P, Bound(E, k, v)) /\ Len(P.buckets) = Len(m.buckets) /\ P.size = m.size + 1
    BY EmplaceHolds
  <1>2. Len(m.buckets) \in Nat /\ m.size \in Nat
    BY MapFinite
  <1> HIDE DEF P
  <1>3. 4 * P.size <= 3 * Len(P.buckets) + 4
    BY <1>1, <1>2 DEF Loaded
  <1>4. MapHolds(Map!GrowIfOverloaded(P), Bound(E, k, v)) /\ Loaded(Map!GrowIfOverloaded(P))
    BY <1>1, <1>3, GrowHolds
  <1> QED
    BY <1>4 DEF P

(* The entry of a key overwritten in place. *)
LEMMA OverwriteHolds ==
    ASSUME NEW m, NEW E, MapHolds(m, E), NEW k \in MapKeys, NEW v \in Values \cup {Default},
           NEW p \in 1 .. Len(BucketOf(m, k)), BucketOf(m, k)[p] \in E, BucketOf(m, k)[p].key = k,
           NEW t, Exchanged(t, BucketOf(m, k), p, Map!Entry(k, v))
    PROVE  LET N == WithBucket(m, Home(k, Len(m.buckets)), t, m.size)
           IN  MapHolds(N, Bound(E, k, v)) /\ Len(N.buckets) = Len(m.buckets) /\ N.size = m.size
  <1> DEFINE n == Len(m.buckets)
             b == Home(k, n)
             s == BucketOf(m, k)
             old == s[p]
             new == Map!Entry(k, v)
             G == Bound(E, k, v)
  <1>1. new \in MapEntries /\ new.key = k
    BY DEF Map!Entry, MapEntries
  <1>2. /\ Spread(m.buckets, n, E) /\ m.size = Cardinality(E) /\ n \in Nat \ {0}
        /\ E \subseteq MapEntries /\ Distinct(E) /\ IsFiniteSet(E) /\ Cardinality(E) \in Nat
    BY MapFinite DEF MapHolds
  <1>3. b \in 1 .. n
    BY <1>2, HomeExists
  <1>4. Enumerates(s, InBucket(E, n, b))
    BY <1>2, <1>3 DEF Spread, BucketOf
  <1>5. old \in E /\ old.key = k /\ Exchanged(t, s, p, new) /\ p \in 1 .. Len(s)
    OBVIOUS
  <1>6. G = (E \ {old}) \cup {new} /\ \A e \in E \ {old} : e.key # k
    BY <1>2, <1>5 DEF Bound, Without, Distinct
  <1>7. G \subseteq MapEntries /\ Distinct(G)
    BY <1>1, <1>2, <1>6 DEF Distinct
  <1>8. new \notin E \ {old}
    BY <1>1, <1>6
  <1> HIDE DEF G, new, old, s
  <1>9. /\ InBucket(G, n, b) = (InBucket(E, n, b) \ {old}) \cup {new}
        /\ \A c \in 1 .. n : c # b => InBucket(G, n, c) = InBucket(E, n, c)
    BY <1>1, <1>5, <1>6 DEF InBucket
  <1>10. Enumerates(t, InBucket(G, n, b))
    <2>1. new \notin InBucket(E, n, b) \ {s[p]}
      BY <1>8 DEF InBucket, old
    <2>2. Enumerates(t, (InBucket(E, n, b) \ {s[p]}) \cup {new})
      BY <1>4, <1>5, <2>1, ReplaceLists
    <2> QED
      BY <1>9, <2>2 DEF old
  <1>11. Cardinality(G) = Cardinality(E)
    <2>1. IsFiniteSet(E \ {old}) /\ Cardinality(E \ {old}) = Cardinality(E) - 1
      BY <1>2, <1>5, FS_RemoveElement
    <2>2. Cardinality((E \ {old}) \cup {new}) = Cardinality(E \ {old}) + 1
      BY <1>8, <2>1, FS_AddElement
    <2> QED
      BY <1>2, <1>6, <2>1, <2>2
  <1>12. LET N == WithBucket(m, b, t, m.size) IN MapHolds(N, G) /\ Len(N.buckets) = Len(m.buckets) /\ N.size = m.size
    <2>1. /\ b \in 1 .. Len(m.buckets) /\ Enumerates(t, InBucket(G, Len(m.buckets), b)) /\ m.size = Cardinality(G)
          /\ \A c \in 1 .. Len(m.buckets) : c # b => InBucket(G, Len(m.buckets), c) = InBucket(E, Len(m.buckets), c)
      BY <1>2, <1>3, <1>9, <1>10, <1>11
    <2>2. MapHolds(m, E)
      OBVIOUS
    <2> HIDE DEF b
    <2> QED
      BY ONLY <1>7, <2>1, <2>2, BucketChanged
  <1> QED
    BY <1>12 DEF G

(* Writing a bucket of a map. *)
LEMMA BucketWritten ==
    ASSUME NEW m, m = [buckets |-> m.buckets, size |-> m.size], NEW b, NEW t
    PROVE  [m EXCEPT !.buckets[b] = t] = WithBucket(m, b, t, m.size)
  <1> SUFFICES ASSUME NEW B, NEW z, m = [buckets |-> B, size |-> z]
               PROVE  [m EXCEPT !.buckets = [B EXCEPT ![b] = t]] = [buckets |-> [B EXCEPT ![b] = t], size |-> z]
    BY DEF WithBucket, Replaced
  <1> DEFINE A == [B EXCEPT ![b] = t]
  <1> HIDE DEF A
  <1>1. [m EXCEPT !.buckets = A] = [buckets |-> A, size |-> z]
    OBVIOUS
  <1> QED
    BY <1>1 DEF A

(* insert binds the key (lines 62-70). *)
LEMMA InsertHolds ==
    ASSUME NEW m, NEW E, MapHolds(m, E), Loaded(m), NEW k \in MapKeys, NEW v \in Values \cup {Default}
    PROVE  MapHolds(Map!insert(m, k, v), Bound(E, k, v)) /\ Loaded(Map!insert(m, k, v))
  <1> DEFINE b == Home(k, Len(m.buckets))
             s == BucketOf(m, k)
             found == Map!Positions(s, k)
             new == Map!Entry(k, v)
             t == [n \in DOMAIN s |-> IF n \in found THEN new ELSE s[n]]
  <1>1. /\ Map!bucket_index(m, k) = b /\ b \in 1 .. Len(m.buckets) /\ s \in Seq(MapEntries)
        /\ KeyFound(E, k, s, found)
    BY Located
  <1>2. s = m.buckets[b]
    BY DEF BucketOf
  <1>3. m = [buckets |-> m.buckets, size |-> m.size] /\ m.buckets \in [1 .. Len(m.buckets) -> Seq(MapEntries)]
    BY DEF MapHolds, Spread
  <1>4. Map!insert(m, k, v) = IF found = {} THEN Map!GrowIfOverloaded(Map!EmplaceBack(m, k, v))
                              ELSE [m EXCEPT !.buckets[b] = t]
    BY <1>1, <1>2 DEF Map!insert
  <1> HIDE DEF b, s, found
  <1>5. [m EXCEPT !.buckets[b] = t] = WithBucket(m, b, t, m.size)
    BY <1>3, BucketWritten
  <1>6. CASE found = {} /\ \A e \in E : e.key # k
    <2>1. MapHolds(Map!GrowIfOverloaded(Map!EmplaceBack(m, k, v)), Bound(E, k, v)) /\ Loaded(Map!GrowIfOverloaded(Map!EmplaceBack(m, k, v)))
      BY <1>6, NewKeyHolds
    <2> QED
      BY <1>4, <1>6, <2>1
  <1>7. CASE \E p \in 1 .. Len(s) : found = {p} /\ s[p] \in E /\ s[p].key = k
    <2>1. PICK p \in 1 .. Len(s) : found = {p} /\ s[p] \in E /\ s[p].key = k
      BY <1>7
    <2>2. DOMAIN s = 1 .. Len(s) /\ Len(s) \in Nat
      BY <1>1, LenProperties
    <2> HIDE DEF new
    <2> DEFINE S == {new} \cup {s[n] : n \in 1 .. Len(s)}
    <2>3. t \in [1 .. Len(s) -> S] /\ t[p] = new /\ \A n \in 1 .. Len(s) : n # p => t[n] = s[n]
      BY <2>1, <2>2
    <2> HIDE DEF t
    <2>4. t \in Seq(S) /\ Len(t) = Len(s)
      BY <2>2, <2>3, ArrayIsSeq
    <2>5. Exchanged(t, s, p, new)
      BY <2>3, <2>4 DEF Exchanged
    <2> DEFINE N == WithBucket(m, b, t, m.size)
    <2>6. MapHolds(N, Bound(E, k, v)) /\ Len(N.buckets) = Len(m.buckets) /\ N.size = m.size
      <3>1. Exchanged(t, BucketOf(m, k), p, Map!Entry(k, v)) /\ p \in 1 .. Len(BucketOf(m, k)) /\ BucketOf(m, k)[p] \in E /\ BucketOf(m, k)[p].key = k
        BY <2>1, <2>5 DEF s, new
      <3> QED
        BY <3>1, OverwriteHolds DEF b
    <2> HIDE DEF N
    <2>7. Map!insert(m, k, v) = N
      BY <1>4, <1>5, <2>1 DEF N
    <2> QED
      BY <2>6, <2>7 DEF Loaded
  <1> QED
    BY <1>1, <1>6, <1>7 DEF KeyFound

(* erase unbinds the key (lines 80-91). *)
LEMMA EraseHolds ==
    ASSUME NEW m, NEW E, MapHolds(m, E), Loaded(m), NEW k \in MapKeys
    PROVE  MapHolds(Map!erase(m, k), Without(E, k)) /\ Loaded(Map!erase(m, k))
  <1> DEFINE n == Len(m.buckets)
             b == Home(k, n)
             s == BucketOf(m, k)
             found == Map!Positions(s, k)
             G == Without(E, k)
  <1>1. /\ Map!bucket_index(m, k) = b /\ b \in 1 .. n /\ s \in Seq(MapEntries)
        /\ KeyFound(E, k, s, found) /\ Enumerates(s, InBucket(E, n, b))
    BY Located
  <1>2. s = m.buckets[b]
    BY DEF BucketOf
  <1>3. /\ n \in Nat /\ m.size \in Nat /\ m.size = Cardinality(E) /\ IsFiniteSet(E)
        /\ E \subseteq MapEntries /\ Distinct(E)
    BY MapFinite DEF MapHolds
  <1>4. Map!erase(m, k) = IF found = {} THEN m
                          ELSE WithBucket(m, b, RemoveAt(s, CHOOSE i \in found : TRUE), m.size - 1)
    BY <1>1, <1>2 DEF Map!erase, WithBucket, Replaced, Map!RemoveAt, RemoveAt
  <1> HIDE DEF b, s, found
  <1>5. CASE found = {} /\ \A e \in E : e.key # k
    <2>1. G = E
      BY <1>5 DEF Without
    <2> QED
      BY <1>4, <1>5, <2>1
  <1>6. CASE \E p \in 1 .. Len(s) : found = {p} /\ s[p] \in E /\ s[p].key = k
    <2>1. PICK p \in 1 .. Len(s) : found = {p} /\ s[p] \in E /\ s[p].key = k
      BY <1>6
    <2> DEFINE t == RemoveAt(s, p)
               N == WithBucket(m, b, t, m.size - 1)
    <2>2. Map!erase(m, k) = N
      <3>1. (CHOOSE i \in found : TRUE) = p
        BY <2>1
      <3> QED
        BY <1>4, <2>1, <3>1
    <2>3. G = E \ {s[p]}
      BY <1>3, <2>1 DEF Without, Distinct
    <2>4. G \subseteq MapEntries /\ Distinct(G)
      BY <1>3 DEF Without, Distinct
    <2>5. /\ InBucket(G, n, b) = InBucket(E, n, b) \ {s[p]}
          /\ \A c \in 1 .. n : c # b => InBucket(G, n, c) = InBucket(E, n, c)
      BY <2>1, <2>3 DEF InBucket, b
    <2>6. Enumerates(t, InBucket(G, n, b))
      BY <1>1, <2>5, RemoveLists
    <2>7. Cardinality(G) = m.size - 1
      BY <1>3, <2>1, <2>3, FS_RemoveElement
    <2> HIDE DEF G, t
    <2>8. MapHolds(N, G) /\ Len(N.buckets) = n /\ N.size = m.size - 1
      <3>1. /\ b \in 1 .. Len(m.buckets) /\ Enumerates(t, InBucket(G, Len(m.buckets), b)) /\ m.size - 1 = Cardinality(G)
            /\ \A c \in 1 .. Len(m.buckets) : c # b => InBucket(G, Len(m.buckets), c) = InBucket(E, Len(m.buckets), c)
        BY <1>1, <2>5, <2>6, <2>7
      <3>2. MapHolds(m, E)
        OBVIOUS
      <3> QED
        BY ONLY <2>4, <3>1, <3>2, BucketChanged
    <2> HIDE DEF N
    <2>9. Loaded(N)
      BY <1>3, <2>8 DEF Loaded
    <2> QED
      BY <2>2, <2>8, <2>9 DEF G
  <1> QED
    BY <1>1, <1>5, <1>6 DEF KeyFound

(* operator[] binds a new key to the default value (lines 93-109). *)
LEMMA IndexHolds ==
    ASSUME NEW m, NEW E, MapHolds(m, E), Loaded(m), NEW k \in MapKeys
    PROVE  /\ ValuesOf(E, k) = {} <=> \A e \in E : e.key # k
           /\ MapHolds(Map!IndexMap(m, k), IF ValuesOf(E, k) = {} THEN Bound(E, k, Default) ELSE E)
           /\ Loaded(Map!IndexMap(m, k))
  <1>1. Map!find(m, k) = ValuesOf(E, k)
    BY FindHolds
  <1>2. ValuesOf(E, k) = {} <=> \A e \in E : e.key # k
    BY DEF ValuesOf
  <1>3. CASE ValuesOf(E, k) = {}
    <2>1. \A e \in E : e.key # k
      BY <1>2, <1>3
    <2> DEFINE N == Map!GrowIfOverloaded(Map!EmplaceBack(m, k, Default))
    <2>2. MapHolds(N, Bound(E, k, Default)) /\ Loaded(N)
      BY <2>1, NewKeyHolds
    <2>3. Map!IndexMap(m, k) = N
      BY <1>1, <1>3 DEF Map!IndexMap
    <2> QED
      BY <1>2, <1>3, <2>2, <2>3
  <1>4. CASE ValuesOf(E, k) # {}
    <2>1. Map!IndexMap(m, k) = m
      BY <1>1, <1>4 DEF Map!IndexMap
    <2> QED
      BY <1>2, <1>4, <2>1
  <1> QED
    BY <1>3, <1>4

(* map[k] = v writes through the reference into the entry of k. *)
LEMMA AssignHolds ==
    ASSUME NEW m, NEW E, MapHolds(m, E), Loaded(m), NEW k \in MapKeys, NEW v \in Values \cup {Default}
    PROVE  MapHolds(Map!AssignThrough(m, k, v), Bound(E, k, v)) /\ Loaded(Map!AssignThrough(m, k, v))
  <1> DEFINE P == Map!IndexMap(m, k)
             F == IF ValuesOf(E, k) = {} THEN Bound(E, k, Default) ELSE E
             b == Home(k, Len(P.buckets))
             s == BucketOf(P, k)
             found == Map!Positions(s, k)
             new == Map!Entry(k, v)
  <1>1. MapHolds(P, F) /\ Loaded(P) /\ (ValuesOf(E, k) = {} <=> \A e \in E : e.key # k)
    BY IndexHolds
  <1>2. Bound(F, k, v) = Bound(E, k, v) /\ \E e \in F : e.key = k
    <2>1. CASE ValuesOf(E, k) = {}
      <3>1. \A x : Map!Entry(k, x).key = k
        BY DEF Map!Entry
      <3>2. F = Bound(E, k, Default)
        BY <2>1
      <3> HIDE DEF F
      <3>3. Without(F, k) = Without(E, k) /\ Map!Entry(k, Default) \in F
        BY <3>1, <3>2 DEF Bound, Without
      <3> QED
        BY <3>1, <3>3 DEF Bound
    <2>2. CASE ValuesOf(E, k) # {}
      BY <1>1, <2>2
    <2> QED
      BY <2>1, <2>2
  <1>3. Map!AssignThrough(m, k, v) =
            LET ref == Map!IndexReference(m, k) IN [P EXCEPT !.buckets[ref[1]][ref[2]].value = v]
    BY DEF Map!AssignThrough
  <1>4. Map!IndexReference(m, k) =
            LET idx == Map!bucket_index(P, k)
                at == Map!Positions(P.buckets[idx], k)
            IN  <<idx, IF at = {} THEN Len(P.buckets[idx]) ELSE CHOOSE n \in at : TRUE>>
    BY DEF Map!IndexReference
  <1> HIDE DEF P, F
  <1>5. /\ Map!bucket_index(P, k) = b /\ b \in 1 .. Len(P.buckets) /\ s \in Seq(MapEntries)
        /\ KeyFound(F, k, s, found)
    BY <1>1, Located
  <1>6. s = P.buckets[b]
    BY DEF BucketOf
  <1>7. P = [buckets |-> P.buckets, size |-> P.size] /\ P.buckets \in [1 .. Len(P.buckets) -> Seq(MapEntries)]
    BY <1>1 DEF MapHolds, Spread
  <1>8. PICK p \in 1 .. Len(s) : found = {p} /\ s[p] \in F /\ s[p].key = k
    BY <1>2, <1>5 DEF KeyFound
  <1>9. Map!IndexReference(m, k) = <<b, p>>
    <2>1. (CHOOSE n \in found : TRUE) = p /\ found # {}
      BY <1>8
    <2> QED
      BY <1>4, <1>5, <1>6, <2>1
  <1> HIDE DEF b, s, found
  <1>10. Map!AssignThrough(m, k, v) = [P EXCEPT !.buckets[b][p].value = v]
    BY <1>3, <1>9
  <1> DEFINE t == [s EXCEPT ![p].value = v]
  <1>11. [P EXCEPT !.buckets[b][p].value = v] = WithBucket(P, b, t, P.size)
    <2>1. [P EXCEPT !.buckets[b][p].value = v] = [P EXCEPT !.buckets[b] = t]
      BY <1>6
    <2> HIDE DEF t
    <2>2. [P EXCEPT !.buckets[b] = t] = WithBucket(P, b, t, P.size)
      BY <1>7, BucketWritten
    <2> QED
      BY <2>1, <2>2
  <1>12. DOMAIN s = 1 .. Len(s) /\ Len(s) \in Nat /\ s[p] \in MapEntries /\ s \in [1 .. Len(s) -> MapEntries]
    BY <1>5, LenProperties, ElementOfSeq
  <1>13. [s[p] EXCEPT !.value = v] = new
    BY <1>8, <1>12 DEF MapEntries, Map!Entry
  <1> HIDE DEF new
  <1>14. t = [s EXCEPT ![p] = new]
    BY <1>12, <1>13
  <1> DEFINE S == {new} \cup {s[n] : n \in 1 .. Len(s)}
  <1>15. t \in [1 .. Len(s) -> S] /\ t[p] = new /\ \A n \in 1 .. Len(s) : n # p => t[n] = s[n]
    BY <1>12, <1>14
  <1> HIDE DEF t
  <1>16. t \in Seq(S) /\ Len(t) = Len(s)
    BY <1>12, <1>15, ArrayIsSeq
  <1>17. Exchanged(t, s, p, new)
    BY <1>15, <1>16 DEF Exchanged
  <1> DEFINE N == WithBucket(P, b, t, P.size)
  <1>18. MapHolds(N, Bound(F, k, v)) /\ Len(N.buckets) = Len(P.buckets) /\ N.size = P.size
    <2>1. Exchanged(t, BucketOf(P, k), p, Map!Entry(k, v)) /\ p \in 1 .. Len(BucketOf(P, k)) /\ BucketOf(P, k)[p] \in F /\ BucketOf(P, k)[p].key = k
      BY <1>8, <1>17 DEF s, new
    <2> QED
      BY <1>1, <2>1, OverwriteHolds DEF b
  <1> HIDE DEF N
  <1>19. Map!AssignThrough(m, k, v) = N
    BY <1>10, <1>11 DEF N
  <1> QED
    BY <1>1, <1>2, <1>18, <1>19 DEF Loaded

-----------------------------------------------------------------------------
(* What find returns for every key. *)
AllFound(m) == [k \in MapKeys |-> Map!find(m, k)]
FoundWith(m, k, values) == [AllFound(m) EXCEPT ![k] = values]

(* Binding and unbinding one key changes what is found for that key only. *)
LEMMA BoundFound ==
    ASSUME NEW m, NEW E, MapHolds(m, E), NEW k \in MapKeys, NEW v, NEW N
    PROVE  /\ MapHolds(N, Bound(E, k, v)) => AllFound(N) = FoundWith(m, k, {v})
           /\ MapHolds(N, Without(E, k)) => AllFound(N) = FoundWith(m, k, {})
           /\ MapHolds(N, E) => AllFound(N) = FoundWith(m, k, AllFound(m)[k])
  <1>1. \A j \in MapKeys : Map!find(m, j) = ValuesOf(E, j)
    BY FindHolds
  <1>2. ASSUME NEW G, MapHolds(N, G) PROVE \A j \in MapKeys : Map!find(N, j) = ValuesOf(G, j)
    BY <1>2, FindHolds
  <1>3. Map!Entry(k, v).key = k /\ Map!Entry(k, v).value = v
    BY DEF Map!Entry
  <1>4. /\ ValuesOf(Without(E, k), k) = {}
        /\ \A j \in MapKeys : j # k => ValuesOf(Without(E, k), j) = ValuesOf(E, j)
    BY DEF ValuesOf, Without
  <1>5. ASSUME NEW j \in MapKeys, j # k PROVE ValuesOf(Bound(E, k, v), j) = ValuesOf(E, j)
    <2>1. {f \in Bound(E, k, v) : f.key = j} = {f \in E : f.key = j}
      BY <1>3, <1>5 DEF Bound, Without
    <2> QED
      BY <2>1 DEF ValuesOf
  <1>6. ValuesOf(Bound(E, k, v), k) = {v}
    <2>1. {f \in Bound(E, k, v) : f.key = k} = {Map!Entry(k, v)}
      BY <1>3 DEF Bound, Without
    <2> QED
      BY <1>3, <2>1 DEF ValuesOf
  <1>7. MapHolds(N, Bound(E, k, v)) => AllFound(N) = FoundWith(m, k, {v})
    BY <1>1, <1>2, <1>5, <1>6 DEF AllFound, FoundWith
  <1>8. MapHolds(N, Without(E, k)) => AllFound(N) = FoundWith(m, k, {})
    BY <1>1, <1>2, <1>4 DEF AllFound, FoundWith
  <1>9. MapHolds(N, E) => AllFound(N) = FoundWith(m, k, AllFound(m)[k])
    BY <1>1, <1>2 DEF AllFound, FoundWith
  <1> QED
    BY <1>7, <1>8, <1>9

-----------------------------------------------------------------------------
(* The invariant of the hash map. *)
MapInv == container = "map" => \E E : MapHolds(Map!TheMap, E) /\ Loaded(Map!TheMap)

(* A map starts empty. *)
LEMMA MapStarts ==
    ASSUME ContainerInit PROVE MapInv
  <1> SUFFICES ASSUME container = "map" PROVE \E E : MapHolds(Map!TheMap, E) /\ Loaded(Map!TheMap)
    BY DEF MapInv
  <1>1. Map!Init
    BY DEF ContainerInit
  <1>2. PICK n \in InitialBuckets : buckets_ = [b \in 1 .. n |-> <<>>]
    BY <1>1 DEF Map!Init
  <1>3. n \in Nat \ {0} /\ mapSize = 0
    BY <1>1, ContainersAssumption DEF Map!Init
  <1> DEFINE m == Map!TheMap
  <1>4. m.buckets = buckets_ /\ m.size = 0 /\ m = [buckets |-> m.buckets, size |-> m.size]
    BY <1>3 DEF Map!TheMap
  <1> HIDE DEF m
  <1>5. <<>> \in Seq(MapEntries) /\ Enumerates(<<>>, {})
    BY ShortLists
  <1>6. buckets_ \in [1 .. n -> Seq(MapEntries)] /\ \A b \in 1 .. n : buckets_[b] = <<>>
    BY <1>2, <1>5
  <1>7. \A b \in 1 .. n : InBucket({}, n, b) = {}
    BY DEF InBucket
  <1>8. Spread(buckets_, n, {})
    BY <1>3, <1>5, <1>6, <1>7 DEF Spread, Distinct
  <1>9. Len(buckets_) = n
    BY <1>3, <1>6, ArrayIsSeq
  <1>10. MapHolds(m, {}) /\ Loaded(m)
    BY <1>3, <1>4, <1>8, <1>9, FS_EmptySet DEF MapHolds, Loaded
  <1> QED
    BY <1>10 DEF m

(* Every operation on the map keeps the invariant. *)
LEMMA MapStep ==
    ASSUME MapInv, [ContainerNext]_containerVars
    PROVE  MapInv'
  <1>1. CASE container = "map" /\ Map!Next /\ UNCHANGED container
    <2> DEFINE m == Map!TheMap
    <2>1. PICK E : MapHolds(m, E) /\ Loaded(m)
      BY <1>1 DEF MapInv
    <2>2. ASSUME NEW N, NEW G, MapHolds(N, G), Loaded(N), Map!Becomes(N) PROVE MapInv'
      <3>1. N = [buckets |-> N.buckets, size |-> N.size]
        BY <2>2 DEF MapHolds
      <3>2. Map!TheMap' = N
        BY <2>2, <3>1 DEF Map!TheMap, Map!Becomes
      <3> QED
        BY <2>2, <3>2 DEF MapInv
    <2> HIDE DEF m
    <2>3. PICK k \in MapKeys : (\E v \in Values : Map!Insert(k, v) \/ Map!Assign(k, v)) \/ Map!Erase(k) \/ Map!Index(k)
      BY <1>1 DEF Map!Next
    <2>4. ASSUME NEW v \in Values, Map!Insert(k, v) PROVE MapInv'
      <3>1. Map!Becomes(Map!insert(m, k, v))
        BY <2>4 DEF Map!Insert, m
      <3> QED
        BY <2>1, <2>2, <3>1, InsertHolds
    <2>5. ASSUME NEW v \in Values, Map!Assign(k, v) PROVE MapInv'
      <3>1. Map!Becomes(Map!AssignThrough(m, k, v))
        BY <2>5 DEF Map!Assign, m
      <3> QED
        BY <2>1, <2>2, <3>1, AssignHolds
    <2>6. ASSUME Map!Erase(k) PROVE MapInv'
      <3>1. Map!Becomes(Map!erase(m, k))
        BY <2>6 DEF Map!Erase, m
      <3> QED
        BY <2>1, <2>2, <3>1, EraseHolds
    <2>7. ASSUME Map!Index(k) PROVE MapInv'
      <3>1. Map!Becomes(Map!IndexMap(m, k))
        BY <2>7 DEF Map!Index, m
      <3> QED
        BY <2>1, <2>2, <3>1, IndexHolds
    <2> QED
      BY <2>3, <2>4, <2>5, <2>6, <2>7
  <1>2. CASE UNCHANGED <<mapVars, container>>
    BY <1>2 DEF mapVars, MapInv, Map!TheMap
  <1> QED
    BY <1>1, <1>2 DEF ContainerNext, containerVars

(* The invariant implies both properties of the map. *)
LEMMA MapInvBuckets ==
    ASSUME MapInv, container = "map" PROVE Map!BucketsConsistent
  <1> DEFINE m == Map!TheMap
             F == Map!FlattenSeq(m.buckets)
  <1>1. PICK E : MapHolds(m, E) /\ Loaded(m)
    BY DEF MapInv
  <1>2. m.buckets = buckets_ /\ m.size = mapSize
    BY DEF Map!TheMap
  <1> HIDE DEF m
  <1>3. /\ m.size = Len(F) /\ m.size \in Nat /\ Len(m.buckets) \in Nat \ {0} /\ Enumerates(F, E)
        /\ E \subseteq MapEntries /\ Distinct(E)
    BY <1>1, MapFinite
  <1> HIDE DEF F
  <1>4. DOMAIN F = 1 .. Len(F) /\ \A i \in 1 .. Len(F) : F[i] \in E
    BY <1>3, LenProperties, ElementOfSeq DEF Enumerates
  <1>5. \A i, j \in DOMAIN F : F[i].key = F[j].key => i = j
    BY <1>3, <1>4 DEF Enumerates, Distinct
  <1>6. ASSUME NEW b \in DOMAIN m.buckets, NEW n \in DOMAIN m.buckets[b]
        PROVE  Map!bucket_index(m, m.buckets[b][n].key) = b
    <2>1. Spread(m.buckets, Len(m.buckets), E) /\ m.buckets \in [1 .. Len(m.buckets) -> Seq(MapEntries)]
      BY <1>1 DEF MapHolds, Spread
    <2>2. b \in 1 .. Len(m.buckets) /\ m.buckets[b] \in Seq(MapEntries)
      BY <2>1
    <2>3. Enumerates(m.buckets[b], InBucket(E, Len(m.buckets), b))
      BY <2>1, <2>2 DEF Spread
    <2>4. n \in 1 .. Len(m.buckets[b])
      BY <2>2, LenProperties
    <2>5. m.buckets[b][n] \in InBucket(E, Len(m.buckets), b)
      BY <2>3, <2>4, ElementOfSeq DEF Enumerates
    <2> QED
      BY <2>5 DEF InBucket, Home, Map!bucket_index
  <1>7. ~Map!Overloaded(m)
    BY <1>1, <1>3 DEF Loaded, Map!Overloaded
  <1> QED
    BY <1>2, <1>3, <1>5, <1>6, <1>7 DEF Map!BucketsConsistent, F, m

(* Every operation has its effect, in every state the invariant allows. *)
LEMMA MapInvOperations ==
    ASSUME MapInv, container = "map" PROVE Map!MapOperationsCorrect
  <1> DEFINE m == Map!TheMap
  <1>1. PICK E : MapHolds(m, E) /\ Loaded(m)
    BY DEF MapInv
  <1> HIDE DEF m
  <1>2. ASSUME NEW k \in MapKeys, NEW v \in Values
        PROVE  /\ AllFound(Map!insert(m, k, v)) = FoundWith(m, k, {v})
               /\ AllFound(Map!AssignThrough(m, k, v)) = FoundWith(m, k, {v})
    <2>1. MapHolds(Map!insert(m, k, v), Bound(E, k, v)) /\ MapHolds(Map!AssignThrough(m, k, v), Bound(E, k, v))
      BY <1>1, InsertHolds, AssignHolds
    <2> QED
      BY <1>1, <2>1, BoundFound
  <1>3. ASSUME NEW k \in MapKeys PROVE AllFound(Map!erase(m, k)) = FoundWith(m, k, {})
    <2>1. MapHolds(Map!erase(m, k), Without(E, k))
      BY <1>1, EraseHolds
    <2> QED
      BY <1>1, <2>1, BoundFound, ZenonT(60)
  <1>4. ASSUME NEW k \in MapKeys
        PROVE  AllFound(Map!IndexMap(m, k)) = FoundWith(m, k, IF AllFound(m)[k] = {} THEN {Default} ELSE AllFound(m)[k])
    <2>1. AllFound(m)[k] = ValuesOf(E, k)
      BY <1>1, FindHolds DEF AllFound
    <2>2. MapHolds(Map!IndexMap(m, k), IF ValuesOf(E, k) = {} THEN Bound(E, k, Default) ELSE E)
      BY <1>1, IndexHolds
    <2>3. CASE ValuesOf(E, k) = {}
      <3>1. MapHolds(Map!IndexMap(m, k), Bound(E, k, Default))
        BY <2>2, <2>3
      <3>2. AllFound(Map!IndexMap(m, k)) = FoundWith(m, k, {Default})
        BY <1>1, <3>1, BoundFound
      <3> QED
        BY <2>1, <2>3, <3>2
    <2>4. CASE ValuesOf(E, k) # {}
      <3>1. MapHolds(Map!IndexMap(m, k), E)
        BY <2>2, <2>4
      <3>2. AllFound(Map!IndexMap(m, k)) = FoundWith(m, k, AllFound(m)[k])
        BY <1>1, <3>1, BoundFound, ZenonT(60)
      <3> QED
        BY <2>1, <2>4, <3>2
    <2> QED
      BY <2>3, <2>4
  <1>5. \A k \in MapKeys :
            /\ \A v \in Values : /\ AllFound(Map!insert(m, k, v)) = FoundWith(m, k, {v})
                                 /\ AllFound(Map!AssignThrough(m, k, v)) = FoundWith(m, k, {v})
            /\ AllFound(Map!erase(m, k)) = FoundWith(m, k, {})
            /\ AllFound(Map!IndexMap(m, k)) = FoundWith(m, k, IF AllFound(m)[k] = {} THEN {Default} ELSE AllFound(m)[k])
    BY <1>2, <1>3, <1>4
  <1> QED
    BY <1>5, Zenon DEF Map!MapOperationsCorrect, AllFound, FoundWith, m

(* For every hash function and every number of initial buckets: the buckets stay
   consistent, the load at most 0.75, and every operation does what a map does, also
   when the map grows under it (hash_map.cpp:43-109). *)
THEOREM MapAlwaysSound == ContainerSpec => [](container = "map" => Map!MapBehaves)
  <1>1. ContainerInit => MapInv
    BY MapStarts
  <1>2. MapInv /\ [ContainerNext]_containerVars => MapInv'
    BY MapStep
  <1>3. MapInv => (container = "map" => Map!MapBehaves)
    BY MapInvBuckets, MapInvOperations DEF Map!MapBehaves
  <1> QED
    BY <1>1, <1>2, <1>3, PTL DEF ContainerSpec

(* Lists and maps behave after every sequence of operations, whichever container a
   behaviour uses: what the run of the containers checks, for every size. *)
THEOREM ContainersAlwaysBehave == ContainerSpec => []ContainersBehave
  <1>1. (List!ListsBehave /\ (container = "map" => Map!MapBehaves)) => ContainersBehave
    BY DEF ContainersBehave
  <1> QED
    BY <1>1, ListsAlwaysSound, MapAlwaysSound, PTL

-----------------------------------------------------------------------------
(* The owning classes (line numbers are those of rule_of_five.cpp).  The special members
   of all of them are made of five changes of the world: o acquires a resource and gives up the one it had, o gives up its
   resource and keeps nothing (closing it, or handing it out), o takes over what p
   has, and o writes to its resource. *)

Worlds ==
    [alive : SUBSET Objects, holds : [Objects -> SUBSET Nat], value : Seq(Nat), open : SUBSET Nat,
     out : SUBSET Nat, twice : SUBSET Nat, seen : [Objects -> Nat]]

(* An object holds nothing, or one resource that nobody else has. *)
HoldsOne(w, o) ==
    \/ w.holds[o] = {} /\ w.seen[o] = 0
    \/ \E r \in w.open : /\ w.holds[o] = {r} /\ o \in w.alive /\ r \notin w.out /\ w.seen[o] = w.value[r]
                         /\ \A p \in Objects : p # o => r \notin w.holds[p]

OwnersHold(w) ==
    /\ w \in Worlds /\ w.twice = {} /\ w.out \subseteq w.open /\ w.open \subseteq 1 .. Len(w.value)
    /\ \A r \in w.open : r \in w.out \/ \E o \in w.alive : r \in w.holds[o]
    /\ \A o \in Objects : HoldsOne(w, o)

(* A set of one number. *)
LEMMA MinOne == ASSUME NEW r \in Nat PROVE Owners!Min({r}) = r
  <1>1. \E x \in {r} : \A y \in {r} : x <= y
    OBVIOUS
  <1> QED
    BY <1>1 DEF Owners!Min

(* Ownership counts as FiniteSets does. *)
LEMMA SameCount == ASSUME NEW S PROVE Owners!Cardinality(S) = Cardinality(S)
  BY DEF Owners!Cardinality, Cardinality, Owners!IsFiniteSet, IsFiniteSet

(* The invariant is what OwnedOnce says, and more. *)
LEMMA OwnedFromHold == ASSUME NEW w, OwnersHold(w) PROVE Owners!OwnedOnce(w)
  <1>1. DOMAIN w.holds = Objects
    BY DEF OwnersHold, Worlds
  <1>2. w.open = w.out \cup UNION {w.holds[o] : o \in w.alive}
    <2>1. ASSUME NEW o \in w.alive, NEW r \in w.holds[o] PROVE r \in w.open
      BY DEF OwnersHold, Worlds, HoldsOne
    <2> QED
      BY <2>1 DEF OwnersHold
  <1>3. ASSUME NEW o \in Objects
        PROVE  /\ w.holds[o] \cap w.out = {} /\ Cardinality(w.holds[o]) <= 1
               /\ o \notin w.alive => w.holds[o] = {}
               /\ \A p \in Objects : o # p => w.holds[o] \cap w.holds[p] = {}
               /\ Owners!ValueOf(w, o) = w.seen[o]
    <2>1. CASE w.holds[o] = {} /\ w.seen[o] = 0
      BY <2>1, FS_EmptySet DEF Owners!ValueOf
    <2>2. CASE w.holds[o] # {}
      <3>1. PICK r \in w.open : /\ w.holds[o] = {r} /\ o \in w.alive /\ r \notin w.out /\ w.seen[o] = w.value[r]
                                /\ \A p \in Objects : p # o => r \notin w.holds[p]
        BY <2>2 DEF OwnersHold, HoldsOne
      <3>2. Cardinality({r}) = 1
        BY FS_Singleton
      <3>3. Owners!ValueOf(w, o) = w.value[r]
        <4>1. r \in Nat
          BY DEF OwnersHold, Worlds
        <4> QED
          BY <3>1, <4>1, MinOne DEF Owners!ValueOf
      <3> QED
        BY <3>1, <3>2, <3>3
    <2> QED
      BY <2>1, <2>2 DEF OwnersHold, HoldsOne
  <1>4. w.twice = {}
    BY DEF OwnersHold
  <1>5. ASSUME NEW o \in DOMAIN w.holds
        PROVE  /\ w.holds[o] \cap w.out = {} /\ Owners!Cardinality(w.holds[o]) <= 1
               /\ o \notin w.alive => w.holds[o] = {}
               /\ \A p \in DOMAIN w.holds : o # p => w.holds[o] \cap w.holds[p] = {}
               /\ Owners!ValueOf(w, o) = w.seen[o]
    BY <1>1, <1>3, SameCount
  <1> QED
    BY <1>2, <1>4, <1>5 DEF Owners!OwnedOnce

(* The value of a live object is a number. *)
LEMMA ValueType == ASSUME NEW w, OwnersHold(w), NEW o \in Objects PROVE Owners!ValueOf(w, o) \in Nat
  <1>1. CASE w.holds[o] = {}
    BY <1>1 DEF Owners!ValueOf
  <1>2. CASE w.holds[o] # {}
    <2>1. PICK r \in w.open : w.holds[o] = {r}
      BY <1>2 DEF OwnersHold, HoldsOne
    <2>2. r \in Nat /\ r \in 1 .. Len(w.value) /\ w.value \in Seq(Nat)
      BY DEF OwnersHold, Worlds
    <2>3. w.value[r] \in Nat
      BY <2>2, ElementOfSeq
    <2> QED
      BY <1>2, <2>1, <2>2, <2>3, MinOne DEF Owners!ValueOf
  <1> QED
    BY <1>1, <1>2

(* Closing resources keeps the types. *)
LEMMA CloseType ==
    ASSUME NEW w \in Worlds, NEW rs \in SUBSET Nat PROVE Owners!Close(w, rs) \in Worlds
  BY DEF Worlds, Owners!Close

(* So does acquiring one. *)
LEMMA AcquireType ==
    ASSUME NEW w \in Worlds, NEW o \in Objects, NEW v \in Nat PROVE Owners!Acquire(w, o, v) \in Worlds
  <1>1. Append(w.value, v) \in Seq(Nat) /\ Len(w.value) + 1 \in Nat
    BY AppendProperties, LenProperties DEF Worlds
  <1> QED
    BY <1>1 DEF Worlds, Owners!Acquire

(* o acquires a fresh resource with value v; what it had is closed (lines 41-44, 60-66). *)
LEMMA AcquireHolds ==
    ASSUME NEW w, OwnersHold(w), NEW o \in Objects, NEW v \in Nat
    PROVE  OwnersHold(Owners!Close(Owners!Acquire(w, o, v), w.holds[o]))
  <1> DEFINE n == Len(w.value) + 1
             u == Owners!Close(Owners!Acquire(w, o, v), w.holds[o])
  <1>1. w \in Worlds /\ w.twice = {} /\ w.value \in Seq(Nat) /\ Len(w.value) \in Nat /\ n \in Nat
    BY LenProperties DEF OwnersHold, Worlds
  <1>2. w.holds[o] \subseteq w.open /\ \A r \in w.open : r \in 1 .. Len(w.value) /\ r # n
    BY <1>1 DEF OwnersHold, HoldsOne, Worlds
  <1>3. /\ u.alive = w.alive \cup {o} /\ u.holds = [w.holds EXCEPT ![o] = {n}] /\ u.value = Append(w.value, v)
        /\ u.open = (w.open \cup {n}) \ w.holds[o] /\ u.out = w.out /\ u.twice = {}
        /\ u.seen = [w.seen EXCEPT ![o] = v]
    BY <1>1, <1>2 DEF Worlds, Owners!Close, Owners!Acquire
  <1>4. /\ Append(w.value, v) \in Seq(Nat) /\ Len(Append(w.value, v)) = n /\ Append(w.value, v)[n] = v
        /\ \A r \in 1 .. Len(w.value) : Append(w.value, v)[r] = w.value[r]
    BY <1>1, AppendProperties
  <1>5. u \in Worlds
    <2>1. Owners!Acquire(w, o, v) \in Worlds
      BY <1>1, AcquireType
    <2>2. w.holds[o] \in SUBSET Nat
      BY <1>1 DEF Worlds
    <2> QED
      BY <2>1, <2>2, CloseType
  <1> HIDE DEF u
  <1>6. u.out \subseteq u.open /\ u.open \subseteq 1 .. Len(u.value)
    <2>1. w.holds[o] \cap w.out = {}
      BY DEF OwnersHold, HoldsOne
    <2> QED
      BY <1>1, <1>2, <1>3, <1>4, <2>1 DEF OwnersHold
  <1> HIDE DEF n
  <1>7. ASSUME NEW r \in u.open PROVE r \in u.out \/ \E q \in u.alive : r \in u.holds[q]
    BY <1>1, <1>3 DEF OwnersHold, Worlds
  <1>8. ASSUME NEW q \in Objects PROVE HoldsOne(u, q)
    <2>1. CASE q = o
      <3>1. n \in u.open /\ u.holds[o] = {n} /\ o \in u.alive /\ n \notin u.out /\ u.seen[o] = u.value[n]
        BY <1>1, <1>2, <1>3, <1>4 DEF OwnersHold, Worlds
      <3>2. \A p \in Objects : p # o => n \notin u.holds[p]
        BY <1>1, <1>2, <1>3 DEF OwnersHold, HoldsOne, Worlds
      <3> QED
        BY <2>1, <3>1, <3>2 DEF HoldsOne
    <2>2. CASE q # o
      <3>1. u.holds[q] = w.holds[q] /\ u.seen[q] = w.seen[q]
        BY <1>1, <1>3, <2>2 DEF Worlds
      <3>2. CASE w.holds[q] = {} /\ w.seen[q] = 0
        BY <3>1, <3>2 DEF HoldsOne
      <3>3. ASSUME NEW r \in w.open, w.holds[q] = {r}, q \in w.alive, r \notin w.out, w.seen[q] = w.value[r],
                   \A p \in Objects : p # q => r \notin w.holds[p]
            PROVE  HoldsOne(u, q)
        <4>1. r \in u.open /\ r # n /\ r \in 1 .. Len(w.value)
          BY <1>2, <1>3, <2>2, <3>3
        <4>2. \A p \in Objects : p # q => r \notin u.holds[p]
          BY <1>1, <1>3, <3>3, <4>1 DEF Worlds
        <4>3. u.value[r] = w.value[r] /\ q \in u.alive /\ r \notin u.out
          BY <1>3, <1>4, <3>3, <4>1
        <4>4. u.holds[q] = {r} /\ u.seen[q] = u.value[r]
          BY <3>1, <3>3, <4>3
        <4> QED
          BY <4>1, <4>2, <4>3, <4>4, Zenon DEF HoldsOne
      <3> QED
        BY <3>2, <3>3 DEF OwnersHold, HoldsOne
    <2> QED
      BY <2>1, <2>2
  <1> QED
    BY <1>3, <1>5, <1>6, <1>7, <1>8 DEF OwnersHold, u

(* What an object holds is open and nobody else's. *)
LEMMA HeldFacts ==
    ASSUME NEW w, OwnersHold(w), NEW o \in Objects
    PROVE  /\ w.holds[o] \subseteq w.open /\ w.holds[o] \cap w.out = {} /\ w.holds[o] \in SUBSET Nat
           /\ \A p \in Objects : p # o => w.holds[o] \cap w.holds[p] = {}
           /\ w.holds[o] # {} => o \in w.alive
           /\ w.holds[o] = {} => w.seen[o] = 0
  BY DEF OwnersHold, HoldsOne, Worlds

(* A world in which only o changed, and lost what it had. *)
Emptied(u, w, o) ==
    /\ \A q \in Objects : /\ u.holds[q] = IF q = o THEN {} ELSE w.holds[q]
                          /\ u.seen[q] = IF q = o THEN 0 ELSE w.seen[q]
    /\ u.value = w.value /\ u.alive \ {o} = w.alive \ {o} /\ u.twice = {}

(* o has given up its resource, which is closed or handed out, or dies with it. *)
LEMMA EmptiedHolds ==
    ASSUME NEW w, OwnersHold(w), NEW o \in Objects, NEW u \in Worlds, Emptied(u, w, o),
           \/ u.open = w.open \ w.holds[o] /\ u.out = w.out
           \/ u.open = w.open /\ u.out = w.out \cup w.holds[o]
    PROVE  OwnersHold(u)
  <1>1. w \in Worlds /\ \A q \in Objects : q # o => u.holds[q] = w.holds[q] /\ u.seen[q] = w.seen[q]
    BY DEF OwnersHold, Worlds, Emptied
  <1>2. u.holds[o] = {} /\ u.seen[o] = 0
    BY DEF OwnersHold, Worlds, Emptied
  <1>3. /\ w.holds[o] \subseteq w.open /\ w.holds[o] \cap w.out = {}
        /\ \A q \in Objects : q # o => w.holds[o] \cap w.holds[q] = {}
    BY HeldFacts
  <1>4. u.out \subseteq u.open /\ u.open \subseteq 1 .. Len(u.value)
    BY <1>3 DEF OwnersHold, Emptied
  <1>5. ASSUME NEW r \in u.open PROVE r \in u.out \/ \E q \in u.alive : r \in u.holds[q]
    <2>1. r \in w.open
      OBVIOUS
    <2>2. CASE r \in w.out
      BY <2>2
    <2>3. ASSUME NEW q \in w.alive, r \in w.holds[q] PROVE r \in u.out \/ (q \in u.alive /\ r \in u.holds[q])
      <3>1. q \in Objects /\ (q = o => r \in u.out)
        BY <1>1, <2>3 DEF Worlds
      <3>2. q # o => q \in u.alive
        BY <2>3 DEF Emptied
      <3>3. CASE q = o
        BY <3>1, <3>3
      <3>4. CASE q # o
        <4>1. u.holds[q] = w.holds[q]
          BY <1>1, <3>1, <3>4
        <4> QED
          BY <2>3, <3>2, <3>4, <4>1
      <3> QED
        BY <3>3, <3>4
    <2> QED
      BY <2>1, <2>2, <2>3 DEF OwnersHold
  <1>6. ASSUME NEW q \in Objects PROVE HoldsOne(u, q)
    <2>1. CASE q = o \/ (w.holds[q] = {} /\ w.seen[q] = 0)
      BY <1>1, <1>2, <2>1 DEF HoldsOne
    <2>2. ASSUME q # o, NEW r \in w.open, w.holds[q] = {r}, q \in w.alive, r \notin w.out, w.seen[q] = w.value[r],
                 \A p \in Objects : p # q => r \notin w.holds[p]
          PROVE  HoldsOne(u, q)
      <3>1. r \notin w.holds[o] /\ r \in u.open /\ r \notin u.out /\ q \in u.alive
        BY <1>3, <2>2 DEF Emptied
      <3>2. \A p \in Objects : p # q => r \notin u.holds[p]
        BY <1>1, <1>2, <2>2
      <3> QED
        BY <1>1, <2>2, <3>1, <3>2 DEF HoldsOne, Emptied
    <2> QED
      BY <2>1, <2>2 DEF OwnersHold, HoldsOne
  <1> QED
    BY <1>4, <1>5, <1>6 DEF OwnersHold, Emptied

(* A world in which o has taken over what p had. *)
Taken(u, w, o, p) ==
    /\ \A q \in Objects : /\ u.holds[q] = IF q = p THEN {} ELSE IF q = o THEN w.holds[p] ELSE w.holds[q]
                          /\ u.seen[q] = IF q = p THEN 0 ELSE IF q = o THEN w.seen[p] ELSE w.seen[q]
    /\ u.value = w.value /\ u.out = w.out /\ u.twice = w.twice

(* o, which holds nothing, takes over what p has (lines 69-74 and 80-83). *)
LEMMA TakeHolds ==
    ASSUME NEW w, OwnersHold(w), NEW o \in Objects, NEW p \in Objects, o # p, w.holds[o] = {},
           NEW u \in Worlds, Taken(u, w, o, p), u.alive = w.alive \cup {o}, u.open = w.open
    PROVE  OwnersHold(u)
  <1>1. /\ w \in Worlds /\ \A q \in Objects : q # o /\ q # p => u.holds[q] = w.holds[q] /\ u.seen[q] = w.seen[q]
        /\ u.holds[o] = w.holds[p] /\ u.holds[p] = {} /\ u.seen[o] = w.seen[p] /\ u.seen[p] = 0
        /\ u.value = w.value /\ u.out = w.out /\ u.twice = {}
    BY DEF OwnersHold, Taken
  <1>2. u.out \subseteq u.open /\ u.open \subseteq 1 .. Len(u.value)
    BY <1>1 DEF OwnersHold
  <1>3. ASSUME NEW r \in u.open PROVE r \in u.out \/ \E q \in u.alive : r \in u.holds[q]
    <2>1. CASE r \in w.out
      BY <1>1, <2>1
    <2>2. ASSUME NEW q \in w.alive, r \in w.holds[q] PROVE \E x \in u.alive : r \in u.holds[x]
      <3>1. q \in Objects /\ q # o
        BY <1>1, <2>2 DEF Worlds
      <3> QED
        BY <1>1, <2>2, <3>1
    <2> QED
      BY <2>1, <2>2 DEF OwnersHold
  <1>4. ASSUME NEW q \in Objects PROVE HoldsOne(u, q)
    <2> DEFINE x == IF q = o THEN p ELSE q
    <2>1. CASE q = p
      BY <1>1, <2>1 DEF HoldsOne
    <2>2. CASE q # p
      <3>1. x \in Objects /\ u.holds[q] = w.holds[x] /\ u.seen[q] = w.seen[x] /\ (x # q => q = o /\ x = p)
        BY <1>1, <2>2
      <3> HIDE DEF x
      <3>2. CASE w.holds[x] = {} /\ w.seen[x] = 0
        BY <3>1, <3>2 DEF HoldsOne
      <3>3. ASSUME NEW r \in w.open, w.holds[x] = {r}, x \in w.alive, r \notin w.out, w.seen[x] = w.value[r],
                   \A y \in Objects : y # x => r \notin w.holds[y]
            PROVE  HoldsOne(u, q)
        <4>1. q \in u.alive
          BY <3>1, <3>3
        <4>2. ASSUME NEW y \in Objects, y # q PROVE r \notin u.holds[y]
          BY <1>1, <2>2, <3>1, <3>3, <4>2
        <4> QED
          BY <1>1, <3>1, <3>3, <4>1, <4>2 DEF HoldsOne
      <3> QED
        BY <3>1, <3>2, <3>3 DEF OwnersHold, HoldsOne
    <2> QED
      BY <2>1, <2>2
  <1> QED
    BY <1>1, <1>2, <1>3, <1>4 DEF OwnersHold

(* o writes v to its resource (line 91). *)
LEMMA WriteValueHolds ==
    ASSUME NEW w, OwnersHold(w), NEW o \in Objects, w.holds[o] # {}, NEW v \in Nat
    PROVE  OwnersHold([w EXCEPT !.value[Owners!Min(w.holds[o])] = v, !.seen[o] = v])
  <1>1. PICK n \in w.open : /\ w.holds[o] = {n} /\ o \in w.alive /\ n \notin w.out
                            /\ \A p \in Objects : p # o => n \notin w.holds[p]
    BY DEF OwnersHold, HoldsOne
  <1>2. w \in Worlds /\ w.value \in Seq(Nat) /\ n \in 1 .. Len(w.value) /\ Len(w.value) \in Nat /\ n \in Nat
    BY LenProperties DEF OwnersHold, Worlds
  <1>3. Owners!Min(w.holds[o]) = n
    BY <1>1, <1>2, MinOne
  <1> DEFINE u == [w EXCEPT !.value[n] = v, !.seen[o] = v]
             s == [w.value EXCEPT ![n] = v]
  <1>4. /\ s \in Seq(Nat) /\ Len(s) = Len(w.value) /\ s[n] = v
        /\ \A r \in 1 .. Len(w.value) : r # n => s[r] = w.value[r]
    BY <1>2, ExceptSeq
  <1>5. /\ u.alive = w.alive /\ u.holds = w.holds /\ u.value = s /\ u.open = w.open /\ u.out = w.out
        /\ u.twice = w.twice /\ u.seen = [w.seen EXCEPT ![o] = v]
    BY <1>2 DEF Worlds
  <1>6. u \in Worlds
    <2> HIDE DEF s
    <2> QED
      BY <1>2, <1>4 DEF Worlds, s
  <1> HIDE DEF u, s
  <1>7. ASSUME NEW q \in Objects PROVE HoldsOne(u, q)
    <2>1. CASE q = o
      <3>1. u.seen[o] = v
        BY <1>2, <1>5 DEF Worlds
      <3> QED
        BY <1>1, <1>4, <1>5, <2>1, <3>1 DEF HoldsOne
    <2>2. CASE q # o
      <3>1. u.seen[q] = w.seen[q] /\ n \notin w.holds[q]
        BY <1>1, <1>2, <1>5, <2>2 DEF Worlds
      <3>2. CASE w.holds[q] = {} /\ w.seen[q] = 0
        BY <1>5, <3>1, <3>2 DEF HoldsOne
      <3>3. ASSUME NEW r \in w.open, w.holds[q] = {r}, q \in w.alive, r \notin w.out, w.seen[q] = w.value[r],
                   \A y \in Objects : y # q => r \notin w.holds[y]
            PROVE  HoldsOne(u, q)
        <4>1. r # n /\ r \in 1 .. Len(w.value)
          BY <3>1, <3>3 DEF OwnersHold
        <4> QED
          BY <1>4, <1>5, <3>1, <3>3, <4>1 DEF HoldsOne
      <3> QED
        BY <3>2, <3>3 DEF OwnersHold, HoldsOne
    <2> QED
      BY <2>1, <2>2
  <1>8. OwnersHold(u)
    BY <1>4, <1>5, <1>6, <1>7 DEF OwnersHold
  <1> QED
    BY <1>3, <1>8 DEF u

(* Closing nothing changes nothing. *)
LEMMA CloseNothing == ASSUME NEW w \in Worlds PROVE Owners!Close(w, {}) = w
  BY DEF Worlds, Owners!Close

(* The objects, and what each object without a life holds. *)
LEMMA AliveFacts ==
    ASSUME NEW w, OwnersHold(w)
    PROVE  w \in Worlds /\ w.twice = {} /\ w.alive \subseteq Objects /\ \A o \in Objects : o \notin w.alive => w.holds[o] = {}
  BY DEF OwnersHold, HoldsOne, Worlds

(* A constructor (lines 41-44). *)
LEMMA ConstructHolds ==
    ASSUME NEW w, OwnersHold(w), NEW o \in Objects \ w.alive, NEW v \in Nat
    PROVE  OwnersHold(Owners!construct(w, o, v))
  <1>1. w.holds[o] = {}
    BY AliveFacts
  <1>2. OwnersHold(Owners!Close(Owners!Acquire(w, o, v), {}))
    BY <1>1, AcquireHolds
  <1>3. Owners!Acquire(w, o, v) \in Worlds
    BY AliveFacts, AcquireType
  <1> QED
    BY <1>2, <1>3, CloseNothing DEF Owners!construct

(* A destructor (lines 46-50). *)
LEMMA DestroyHolds ==
    ASSUME NEW w, OwnersHold(w), NEW o \in w.alive PROVE OwnersHold(Owners!destroy(w, o))
  <1> DEFINE u == Owners!destroy(w, o)
  <1>1. w \in Worlds /\ w.twice = {} /\ o \in Objects /\ w.holds[o] \subseteq w.open /\ w.holds[o] \in SUBSET Nat
    BY AliveFacts, HeldFacts
  <1>2. u \in Worlds /\ Emptied(u, w, o) /\ u.open = w.open \ w.holds[o] /\ u.out = w.out
    <2>1. Owners!Close(w, w.holds[o]) \in Worlds
      BY <1>1, CloseType
    <2>2. u \in Worlds
      BY <2>1 DEF Worlds, Owners!destroy
    <2> QED
      BY <1>1, <2>2 DEF Worlds, Owners!destroy, Owners!Close, Emptied
  <1> HIDE DEF u
  <1>3. OwnersHold(u)
    BY <1>1, <1>2, EmptiedHolds
  <1> QED
    BY <1>3 DEF u

(* o is constructed or assigned empty: the copy of an empty HeavyObject. *)
LEMMA EmptyHolds ==
    ASSUME NEW w, OwnersHold(w), NEW o \in Objects
    PROVE  OwnersHold(Owners!Close([w EXCEPT !.alive = @ \cup {o}, !.holds[o] = {}, !.seen[o] = 0], w.holds[o]))
  <1> DEFINE x == [w EXCEPT !.alive = @ \cup {o}, !.holds[o] = {}, !.seen[o] = 0]
             u == Owners!Close(x, w.holds[o])
  <1>1. w \in Worlds /\ w.twice = {} /\ w.holds[o] \subseteq w.open /\ w.holds[o] \in SUBSET Nat
    BY AliveFacts, HeldFacts
  <1>2. x \in Worlds
    BY <1>1 DEF Worlds
  <1>3. u \in Worlds
    <2> HIDE DEF x
    <2> QED
      BY <1>1, <1>2, CloseType
  <1>4. Emptied(u, w, o) /\ u.open = w.open \ w.holds[o] /\ u.out = w.out
    BY <1>1 DEF Worlds, Owners!Close, Emptied
  <1> HIDE DEF u
  <1>5. OwnersHold(u)
    BY <1>3, <1>4, EmptiedHolds
  <1> QED
    BY <1>5 DEF u

(* A copy constructor (lines 52-56). *)
LEMMA CopyConstructHolds ==
    ASSUME NEW w, OwnersHold(w), NEW c, NEW o \in Objects, NEW p \in Objects
    PROVE  OwnersHold(Owners!Close(Owners!copyConstruct(w, c, o, p), w.holds[o]))
  <1>1. Owners!ValueOf(w, p) \in Nat
    BY ValueType
  <1>2. CASE w.holds[p] = {} /\ c.copies = "empty"
    BY <1>2, EmptyHolds DEF Owners!copyConstruct
  <1>3. CASE ~(w.holds[p] = {} /\ c.copies = "empty")
    BY <1>1, <1>3, AcquireHolds DEF Owners!copyConstruct
  <1> QED
    BY <1>2, <1>3

(* The world after a copy construction has its type. *)
LEMMA CopyConstructType ==
    ASSUME NEW w, OwnersHold(w), NEW c, NEW o \in Objects, NEW p \in Objects
    PROVE  Owners!copyConstruct(w, c, o, p) \in Worlds
  <1> DEFINE v == Owners!ValueOf(w, p)
  <1>1. w \in Worlds /\ v \in Nat
    BY ValueType, AliveFacts
  <1> HIDE DEF v
  <1>2. Owners!Acquire(w, o, v) \in Worlds
    BY <1>1, AcquireType
  <1>3. [w EXCEPT !.alive = @ \cup {o}, !.holds[o] = {}, !.seen[o] = 0] \in Worlds
    BY <1>1 DEF Worlds
  <1> QED
    BY <1>2, <1>3 DEF Owners!copyConstruct, v

(* Copy assignment, with the check for self-assignment (lines 58-67). *)
LEMMA OwnerCopyHolds ==
    ASSUME NEW w, OwnersHold(w), NEW c, NEW o \in w.alive, NEW p \in w.alive,
           Owners!CanCopy(w, c, o), Owners!CanCopy(w, c, p)
    PROVE  OwnersHold(Owners!copyAssign(w, c, o, p))
  <1>1. o \in Objects /\ p \in Objects
    BY AliveFacts
  <1>2. CASE o = p
    BY <1>2 DEF Owners!copyAssign
  <1>3. CASE o # p /\ c = Owners!Widget
    <2>1. w.holds[o] # {}
      BY <1>3 DEF Owners!CanCopy, Owners!Widget, Owners!Class
    <2>2. Owners!ValueOf(w, p) \in Nat
      BY <1>1, ValueType
    <2>3. OwnersHold([w EXCEPT !.value[Owners!Min(w.holds[o])] = Owners!ValueOf(w, p), !.seen[o] = Owners!ValueOf(w, p)])
      BY <1>1, <2>1, <2>2, WriteValueHolds
    <2> QED
      BY <1>3, <2>3 DEF Owners!copyAssign
  <1>4. CASE o # p /\ c # Owners!Widget
    <2>1. OwnersHold(Owners!Close(Owners!copyConstruct(w, c, o, p), w.holds[o]))
      BY <1>1, CopyConstructHolds
    <2> QED
      BY <1>4, <2>1 DEF Owners!copyAssign
  <1> QED
    BY <1>2, <1>3, <1>4

(* What Take does to the parts of a world. *)
LEMMA TakeParts ==
    ASSUME NEW w \in Worlds, NEW o \in Objects, NEW p \in Objects
    PROVE  /\ Owners!Take(w, o, p) \in Worlds /\ Taken(Owners!Take(w, o, p), w, o, p)
           /\ Owners!Take(w, o, p).alive = w.alive /\ Owners!Take(w, o, p).open = w.open
  <1> DEFINE x == [w EXCEPT !.holds[o] = w.holds[p], !.seen[o] = w.seen[p]]
  <1>1. /\ x \in Worlds /\ x.alive = w.alive /\ x.open = w.open /\ x.value = w.value /\ x.out = w.out /\ x.twice = w.twice
        /\ \A q \in Objects : /\ x.holds[q] = IF q = o THEN w.holds[p] ELSE w.holds[q]
                              /\ x.seen[q] = IF q = o THEN w.seen[p] ELSE w.seen[q]
    BY DEF Worlds
  <1>2. Owners!Take(w, o, p) = [x EXCEPT !.holds[p] = {}, !.seen[p] = 0]
    BY DEF Owners!Take
  <1> DEFINE u == Owners!Take(w, o, p)
  <1> HIDE DEF x, u
  <1>3. /\ u \in Worlds /\ u.alive = w.alive /\ u.open = w.open /\ u.value = w.value /\ u.out = w.out /\ u.twice = w.twice
        /\ u.holds = [x.holds EXCEPT ![p] = {}] /\ u.seen = [x.seen EXCEPT ![p] = 0]
    <2>1. x \in Worlds /\ u = [x EXCEPT !.holds[p] = {}, !.seen[p] = 0]
      BY <1>1, <1>2 DEF u
    <2>2. /\ u \in Worlds /\ u.alive = x.alive /\ u.open = x.open /\ u.value = x.value /\ u.out = x.out /\ u.twice = x.twice
          /\ u.holds = [x.holds EXCEPT ![p] = {}] /\ u.seen = [x.seen EXCEPT ![p] = 0]
      BY <2>1 DEF Worlds
    <2> QED
      BY <1>1, <2>2
  <1>4. ASSUME NEW q \in Objects
        PROVE  /\ u.holds[q] = IF q = p THEN {} ELSE IF q = o THEN w.holds[p] ELSE w.holds[q]
               /\ u.seen[q] = IF q = p THEN 0 ELSE IF q = o THEN w.seen[p] ELSE w.seen[q]
    <2>1. u.holds[q] = (IF q = p THEN {} ELSE x.holds[q]) /\ u.seen[q] = (IF q = p THEN 0 ELSE x.seen[q])
      BY <1>1, <1>3 DEF Worlds
    <2> QED
      BY <1>1, <2>1
  <1> QED
    BY <1>3, <1>4 DEF Taken, u

(* A move constructor (lines 69-74). *)
LEMMA MoveConstructHolds ==
    ASSUME NEW w, OwnersHold(w), NEW o \in Objects \ w.alive, NEW p \in w.alive
    PROVE  OwnersHold(Owners!moveConstruct(w, o, p))
  <1> DEFINE u == Owners!moveConstruct(w, o, p)
  <1>1. w \in Worlds /\ w.twice = {} /\ p \in Objects /\ o # p /\ w.holds[o] = {}
    BY AliveFacts
  <1>2. u \in Worlds /\ u.alive = w.alive \cup {o} /\ u.open = w.open /\ Taken(u, w, o, p)
    <2> DEFINE x == Owners!Take(w, o, p)
    <2>1. x \in Worlds /\ x.alive = w.alive /\ x.open = w.open /\ Taken(x, w, o, p)
      BY <1>1, TakeParts
    <2>2. u = [x EXCEPT !.alive = @ \cup {o}]
      BY DEF Owners!moveConstruct
    <2> HIDE DEF x, u
    <2> QED
      BY <2>1, <2>2 DEF Worlds, Taken
  <1> HIDE DEF u
  <1>3. OwnersHold(u)
    BY <1>1, <1>2, TakeHolds
  <1> QED
    BY <1>3 DEF u

(* The target is emptied and then takes over what p has, or stays empty when p is the
   target itself (lines 76-87, modern_observer.cpp:48, epoll_server.cpp:39). *)
LEMMA MoveAssignHolds ==
    ASSUME NEW w, OwnersHold(w), NEW c, NEW o \in w.alive, NEW p \in w.alive,
           c.assign \in {"checks self", "overwrites", "empties first"}
    PROVE  OwnersHold(Owners!moveAssign(w, c, o, p))
  <1> DEFINE y == Owners!Close(w, w.holds[o])
             x == [y EXCEPT !.holds[o] = {}, !.seen[o] = 0]
             u == Owners!moveAssign(w, c, o, p)
  <1>1. /\ w \in Worlds /\ w.twice = {} /\ o \in Objects /\ p \in Objects
        /\ w.holds[o] \subseteq w.open /\ w.holds[o] \in SUBSET Nat
    BY AliveFacts, HeldFacts
  <1>2. /\ y \in Worlds /\ y.holds = w.holds /\ y.seen = w.seen /\ y.value = w.value /\ y.alive = w.alive
        /\ y.twice = {} /\ y.open = w.open \ w.holds[o] /\ y.out = w.out
    <2>1. y \in Worlds
      BY <1>1, CloseType
    <2> QED
      BY <1>1, <2>1 DEF Worlds, Owners!Close
  <1>3. \/ c.assign = "checks self" /\ u = IF o = p THEN w ELSE Owners!Take(y, o, p)
        \/ c.assign = "overwrites" /\ u = Owners!Take(y, o, p)
        \/ c.assign = "empties first" /\ u = Owners!Take(x, o, p)
    BY Zenon DEF Owners!moveAssign
  <1> HIDE DEF y, u
  <1>4. /\ x \in Worlds /\ x.holds = [w.holds EXCEPT ![o] = {}] /\ x.seen = [w.seen EXCEPT ![o] = 0]
        /\ x.value = w.value /\ x.alive = w.alive /\ x.twice = {} /\ x.open = w.open \ w.holds[o] /\ x.out = w.out
    BY <1>1, <1>2 DEF Worlds
  <1> HIDE DEF x
  <1>5. OwnersHold(x)
    <2>1. Emptied(x, w, o)
      BY <1>1, <1>4 DEF Emptied, Worlds
    <2> QED
      BY <1>1, <1>4, <2>1, EmptiedHolds
  <1>6. CASE u = w
    BY <1>6 DEF u
  <1>7. ASSUME NEW z \in {x, y}, u = Owners!Take(z, o, p) PROVE OwnersHold(u)
    <2>1. /\ z \in Worlds /\ z.alive = x.alive /\ z.open = x.open /\ z.value = x.value /\ z.out = x.out
          /\ z.twice = x.twice /\ x.holds[o] = {} /\ x.seen[o] = 0
      <3>1. x.holds[o] = {} /\ x.seen[o] = 0
        BY <1>1, <1>4 DEF Worlds
      <3> QED
        BY <1>2, <1>4, <3>1
    <2>2. ASSUME NEW q \in Objects, q # o PROVE z.holds[q] = x.holds[q] /\ z.seen[q] = x.seen[q]
      <3>1. x.holds[q] = w.holds[q] /\ x.seen[q] = w.seen[q]
        BY <1>1, <1>4, <2>2 DEF Worlds
      <3> QED
        BY <1>2, <3>1
    <2>3. u \in Worlds /\ u.alive = z.alive /\ u.open = z.open /\ Taken(u, z, o, p)
      BY <1>1, <1>7, <2>1, TakeParts
    <2>4. CASE o = p
      <3>1. ASSUME NEW q \in Objects
            PROVE  u.holds[q] = (IF q = o THEN {} ELSE x.holds[q]) /\ u.seen[q] = (IF q = o THEN 0 ELSE x.seen[q])
        BY <2>2, <2>3, <2>4 DEF Taken
      <3>2. Emptied(u, x, o) /\ u.open = x.open \ x.holds[o] /\ u.out = x.out
        BY <1>4, <2>1, <2>3, <3>1 DEF Emptied, Taken
      <3> QED
        BY <1>1, <1>5, <2>3, <3>2, EmptiedHolds
    <2>5. CASE o # p
      <3>1. Taken(u, x, o, p)
        <4>1. ASSUME NEW q \in Objects
              PROVE  /\ u.holds[q] = IF q = p THEN {} ELSE IF q = o THEN x.holds[p] ELSE x.holds[q]
                     /\ u.seen[q] = IF q = p THEN 0 ELSE IF q = o THEN x.seen[p] ELSE x.seen[q]
          BY <1>1, <2>2, <2>3, <2>5 DEF Taken
        <4> QED
          BY <2>1, <2>3, <4>1 DEF Taken
      <3>2. u.alive = x.alive \cup {o}
        BY <1>1, <1>4, <2>1, <2>3
      <3> QED
        BY <1>1, <1>5, <2>1, <2>3, <2>5, <3>1, <3>2, TakeHolds
    <2> QED
      BY <2>4, <2>5
  <1> QED
    BY <1>3, <1>6, <1>7 DEF u

(* release, dismiss and commit hand the resource out, disconnect closes it. *)
LEMMA GiveUpHolds ==
    ASSUME NEW w, OwnersHold(w), NEW c, NEW o \in w.alive PROVE OwnersHold(Owners!giveUp(w, c, o))
  <1> DEFINE u == Owners!giveUp(w, c, o)
  <1>1. w \in Worlds /\ w.twice = {} /\ o \in Objects /\ w.holds[o] \subseteq w.open /\ w.holds[o] \in SUBSET Nat
    BY AliveFacts, HeldFacts
  <1>2. u \in Worlds
    <2>1. Owners!Close(w, w.holds[o]) \in Worlds /\ [w EXCEPT !.out = @ \cup w.holds[o]] \in Worlds
      BY <1>1, CloseType DEF Worlds
    <2> QED
      BY <2>1 DEF Worlds, Owners!giveUp
  <1>3. Emptied(u, w, o)
    BY <1>1 DEF Worlds, Owners!giveUp, Owners!Close, Emptied
  <1>4. \/ u.open = w.open \ w.holds[o] /\ u.out = w.out
        \/ u.open = w.open /\ u.out = w.out \cup w.holds[o]
    BY <1>1 DEF Worlds, Owners!giveUp, Owners!Close
  <1> HIDE DEF u
  <1>5. OwnersHold(u)
    BY <1>1, <1>2, <1>3, <1>4, EmptiedHolds
  <1> QED
    BY <1>5 DEF u

(* How the classes of the repository assign when they are moved. *)
LEMMA AssignsKnown ==
    ASSUME NEW c \in Owners!Classes, c.assign # "no"
    PROVE  c.assign \in {"checks self", "overwrites", "empties first"}
  <1>1. /\ Owners!Buffer.assign = "checks self" /\ Owners!ModernBuffer.assign = "checks self"
        /\ Owners!HeavyObject.assign = "checks self" /\ Owners!Widget.assign = "checks self"
        /\ Owners!Socket.assign = "checks self" /\ Owners!SafeHandle.assign = "checks self"
        /\ Owners!FileDescriptor.assign = "overwrites" /\ Owners!Connection.assign = "empties first"
        /\ Owners!FileHandle.assign = "no" /\ Owners!ScopeGuard.assign = "no"
        /\ Owners!PinnedScopeGuard.assign = "no" /\ Owners!DatabaseTransaction.assign = "no"
        /\ Owners!MappedRegion.assign = "no" /\ Owners!ScopedLock.assign = "no"
    BY DEF Owners!Class, Owners!Buffer, Owners!ModernBuffer, Owners!HeavyObject, Owners!Widget,
           Owners!Socket, Owners!SafeHandle, Owners!FileDescriptor, Owners!Connection,
           Owners!FileHandle, Owners!ScopeGuard, Owners!PinnedScopeGuard,
           Owners!DatabaseTransaction, Owners!MappedRegion, Owners!ScopedLock
  <1> QED
    BY <1>1 DEF Owners!Classes

(* Every call on an owning class keeps the invariant. *)
LEMMA OwnerCallHolds ==
    ASSUME OwnersHold(world), class \in Owners!Classes, OwnerCall PROVE OwnersHold(world')
  <1>1. world.alive \subseteq Objects /\ Payloads \subseteq Nat
    BY AliveFacts, ContainersAssumption
  <1>2. ASSUME NEW o \in Objects \ world.alive, NEW v \in Payloads, world' = Owners!construct(world, o, v)
        PROVE  OwnersHold(world')
    <2>1. v \in Nat
      BY <1>1
    <2> QED
      BY <1>2, <2>1, ConstructHolds
  <1>3. ASSUME NEW o, world' = Owners!constructThrows(world, o) PROVE OwnersHold(world')
    BY <1>3 DEF Owners!constructThrows
  <1>4. ASSUME NEW o \in world.alive, world' = Owners!destroy(world, o) PROVE OwnersHold(world')
    BY <1>4, DestroyHolds
  <1>5. ASSUME NEW o \in Objects \ world.alive, NEW p \in world.alive, world' = Owners!copyConstruct(world, class, o, p)
        PROVE  OwnersHold(world')
    <2>1. o \in Objects /\ p \in Objects /\ world.holds[o] = {}
      BY <1>1, AliveFacts
    <2>2. Owners!copyConstruct(world, class, o, p) \in Worlds
      BY <2>1, CopyConstructType
    <2>3. OwnersHold(Owners!Close(Owners!copyConstruct(world, class, o, p), {}))
      BY <2>1, CopyConstructHolds
    <2> QED
      BY <1>5, <2>2, <2>3, CloseNothing
  <1>6. ASSUME NEW o \in world.alive, NEW p \in world.alive, Owners!CanCopy(world, class, p),
               Owners!CanCopy(world, class, o), world' = Owners!copyAssign(world, class, o, p)
        PROVE  OwnersHold(world')
    BY <1>6, OwnerCopyHolds
  <1>7. ASSUME NEW o \in Objects \ world.alive, NEW p \in world.alive, world' = Owners!moveConstruct(world, o, p)
        PROVE  OwnersHold(world')
    BY <1>7, MoveConstructHolds
  <1>8. ASSUME class.assign # "no", NEW o \in world.alive, NEW p \in world.alive,
               world' = Owners!moveAssign(world, class, o, p)
        PROVE  OwnersHold(world')
    BY <1>8, AssignsKnown, MoveAssignHolds
  <1>9. ASSUME NEW o \in world.alive, world' = Owners!giveUp(world, class, o) PROVE OwnersHold(world')
    BY <1>9, GiveUpHolds
  <1>10. ASSUME NEW o \in world.alive, NEW v \in Payloads, world.holds[o] # {}, world' = Owners!setValue(world, o, v)
         PROVE  OwnersHold(world')
    <2>1. o \in Objects /\ v \in Nat
      BY <1>1
    <2> QED
      BY <1>10, <2>1, WriteValueHolds DEF Owners!setValue
  <1>11. CASE UNCHANGED world
    BY <1>11
  <1> QED
    BY <1>2, <1>3, <1>4, <1>5, <1>6, <1>7, <1>8, <1>9, <1>10, <1>11 DEF OwnerCall

-----------------------------------------------------------------------------
(* The arena (custom_allocator.cpp:39-60). *)

Chunks == [from : Nat, to : Nat, alignment : Nat \ {0}]
Arenas ==
    [buffer_ : Nat, capacity_ : Nat, offset_ : Nat, alloc_count_ : Nat, modest : BOOLEAN, chunks : SUBSET Chunks]

(* The chunks of an arena with modest requests; each is at least one byte long, so that
   there are no more of them than bytes in use and their number does not wrap. *)
ChunksHold(S, offset) ==
    /\ IsFiniteSet(S) /\ Cardinality(S) <= offset
    /\ \A c \in S : c.from < c.to /\ c.to <= offset /\ c.from % c.alignment = 0
    /\ \A c, d \in S : c # d => c.to <= d.from \/ d.to <= c.from

ArenaHolds(a) ==
    /\ a \in Arenas
    /\ a.offset_ <= a.capacity_ /\ a.capacity_ < SIZE_T /\ a.buffer_ % MAX_ALIGN = 0
    /\ a.modest => a.alloc_count_ = Cardinality(a.chunks) /\ ChunksHold(a.chunks, a.offset_)

(* What MAX_ALIGN and the offset are multiples of, the address is as well. *)
LEMMA AddressAligned ==
    ASSUME NEW b \in Nat, NEW m \in Nat \ {0}, NEW f \in Nat, NEW k \in Nat \ {0},
           b % m = 0, m % k = 0, f % k = 0
    PROVE  (b + f) % k = 0
  <1> DEFINE p == b \div m
             q == m \div k
             r == f \div k
  <1>1. b = m * p /\ p \in Int
    BY ModDiv
  <1>2. m = k * q /\ q \in Int
    BY ModDiv
  <1>3. f = k * r /\ r \in Int
    BY ModDiv
  <1> HIDE DEF p, q, r
  <1>4. (k * q) * p = k * (q * p) /\ q * p \in Int
    BY <1>1, <1>2
  <1>5. b = k * (q * p)
    BY <1>1, <1>2, <1>4
  <1> DEFINE t == q * p
  <1>6. t \in Int /\ b = k * t
    BY <1>4, <1>5
  <1> HIDE DEF t
  <1>7. k * t + k * r = k * (t + r) /\ t + r \in Int
    BY <1>3, <1>6
  <1>8. b + f = k * (t + r) + 0 /\ b + f \in Int /\ 0 \in 0 .. k - 1
    BY <1>3, <1>6, <1>7
  <1> QED
    BY <1>7, <1>8, ModIs

(* A number of a size_t does not wrap. *)
LEMMA NoWrap ==
    ASSUME NEW n \in Nat, NEW c \in Nat, n < c
    PROVE  n % c = n
  <1>1. c \in Nat \ {0} /\ n \in Int /\ 0 \in Int /\ n \in 0 .. c - 1 /\ n = c * 0 + n
    OBVIOUS
  <1> QED
    BY <1>1, ModIs

(* Rounding up to the alignment (line 50). *)
LEMMA RoundsUp ==
    ASSUME NEW n \in Nat, NEW k \in Nat \ {0}
    PROVE  /\ ((n + k - 1) \div k) * k \in Nat /\ ((n + k - 1) \div k) * k >= n
           /\ ((n + k - 1) \div k) * k <= n + k - 1
           /\ (((n + k - 1) \div k) * k) % k = 0
  <1> DEFINE x == n + k - 1
             q == x \div k
  <1>1. x \in Nat /\ x \in Int
    OBVIOUS
  <1>2. x = (k * q) + (x % k) /\ q \in Int /\ x % k \in 0 .. k - 1
    <2> HIDE DEF x
    <2> QED
      BY <1>1, ModDiv, ModRange
  <1>3. k * q = q * k /\ q * k \in Int /\ 0 \in 0 .. k - 1
    <2> HIDE DEF q
    <2> QED
      BY <1>2
  <1>4. q * k >= n /\ q * k <= n + k - 1
    <2> HIDE DEF q
    <2> QED
      BY <1>2, <1>3
  <1>5. (q * k) % k = 0
    <2> DEFINE y == q * k
    <2>1. y \in Int /\ y = k * q + 0
      <3> HIDE DEF q
      <3> QED
        BY <1>3
    <2> HIDE DEF y, q
    <2>2. y % k = 0
      BY <1>2, <1>3, <2>1, ModIs
    <2> QED
      BY <2>2 DEF y
  <1> QED
    BY <1>3, <1>4, <1>5

(* One more chunk, behind all others. *)
LEMMA ChunkAdded ==
    ASSUME NEW S \in SUBSET Chunks, NEW offset \in Nat, ChunksHold(S, offset),
           NEW c \in Chunks, c.from >= offset, c.from < c.to, c.from % c.alignment = 0
    PROVE  /\ ChunksHold(S \cup {c}, c.to) /\ Cardinality(S) \in Nat /\ Cardinality(S) < c.to
           /\ Cardinality(S \cup {c}) = Cardinality(S) + 1
  <1>1. /\ c.from \in Nat /\ c.to \in Nat
        /\ \A d \in S : d.from \in Nat /\ d.to \in Nat /\ d.from < d.to /\ d.to <= offset /\ d.from % d.alignment = 0
    BY DEF Chunks, ChunksHold
  <1>2. \A d \in S : d.to <= c.from /\ d.to <= c.to /\ d # c
    BY <1>1
  <1>3. /\ IsFiniteSet(S) /\ Cardinality(S) <= offset
        /\ \A d, e \in S : d # e => d.to <= e.from \/ e.to <= d.from
    BY DEF ChunksHold
  <1>4. Cardinality(S) \in Nat /\ IsFiniteSet(S \cup {c}) /\ Cardinality(S \cup {c}) = Cardinality(S) + 1
    BY <1>2, <1>3, FS_AddElement, FS_CardinalityType
  <1>5. Cardinality(S) < c.to /\ Cardinality(S \cup {c}) <= c.to
    BY <1>1, <1>3, <1>4
  <1>6. \A d \in S \cup {c} : d.from < d.to /\ d.to <= c.to /\ d.from % d.alignment = 0
    BY <1>1, <1>2
  <1>7. \A d, e \in S \cup {c} : d # e => d.to <= e.from \/ e.to <= d.from
    BY <1>2, <1>3
  <1> QED
    BY <1>4, <1>5, <1>6, <1>7 DEF ChunksHold

(* A request that is granted leaves the offset in the buffer, whatever wraps; a modest
   one is put behind all others; one that is refused changes nothing. *)
LEMMA ArenaAllocates ==
    ASSUME NEW a, ArenaHolds(a), NEW bytes \in Nat \ {0}, NEW k \in Nat \ {0}
    PROVE  ArenaHolds(Owners!allocate(a, bytes, k))
  <1> DEFINE f == Owners!Aligned(a, k)
             end == (f + bytes) % SIZE_T
             modest == a.modest /\ Owners!Modest(a, bytes, k)
             c == [from |-> f, to |-> f + bytes, alignment |-> k]
             count == (a.alloc_count_ + 1) % SIZE_T
             chunks == IF modest THEN a.chunks \cup {c} ELSE {}
             b == [a EXCEPT !.offset_ = end, !.alloc_count_ = count, !.modest = modest, !.chunks = chunks]
  <1>1. Owners!allocate(a, bytes, k) = IF end > a.capacity_ THEN a ELSE b
    BY DEF Owners!allocate
  <1>2. /\ a \in Arenas /\ a.offset_ \in Nat /\ a.capacity_ \in Nat /\ a.alloc_count_ \in Nat
        /\ a.chunks \in SUBSET Chunks /\ a.modest \in BOOLEAN
        /\ a.offset_ <= a.capacity_ /\ a.capacity_ < SIZE_T /\ SIZE_T \in Nat \ {0}
    <2>1. a \in Arenas /\ a.offset_ <= a.capacity_ /\ a.capacity_ < SIZE_T /\ SIZE_T \in Nat
      BY ContainersAssumption DEF ArenaHolds
    <2>2. a.offset_ \in Nat /\ a.capacity_ \in Nat /\ a.alloc_count_ \in Nat
      BY <2>1 DEF Arenas
    <2>3. a.chunks \in SUBSET Chunks /\ a.modest \in BOOLEAN
      BY <2>1 DEF Arenas
    <2> QED
      BY <2>1, <2>2, <2>3
  <1>3. f \in Nat
    <2> DEFINE x == (a.offset_ + k - 1) % SIZE_T
    <2>1. a.offset_ + k - 1 \in Int
      BY <1>2
    <2>2. x \in 0 .. SIZE_T - 1
      BY <1>2, <2>1, ModRange, Zenon
    <2> HIDE DEF x
    <2>3. x \in Nat /\ x \div k \in Nat
      BY <1>2, <2>2
    <2>4. (x \div k) * k \in Nat
      BY <2>3
    <2> QED
      BY <2>4 DEF x, Owners!Aligned
  <1>4. end \in Nat /\ count \in Nat
    <2> HIDE DEF f
    <2>1. f + bytes \in Int /\ a.alloc_count_ + 1 \in Int
      BY <1>2, <1>3
    <2>2. end \in 0 .. SIZE_T - 1 /\ count \in 0 .. SIZE_T - 1
      BY <1>2, <2>1, ModRange, Zenon
    <2> HIDE DEF end, count
    <2> QED
      BY <1>2, <2>2
  <1>5. c \in Chunks /\ c.from = f /\ c.to = f + bytes /\ c.alignment = k
    BY <1>3 DEF Chunks
  <1> HIDE DEF f, end, count, c
  <1>6. chunks \in SUBSET Chunks /\ modest \in BOOLEAN
    BY <1>2, <1>5
  <1> HIDE DEF chunks, modest
  <1>7. /\ b \in Arenas /\ b.offset_ = end /\ b.alloc_count_ = count /\ b.modest = modest /\ b.chunks = chunks
        /\ b.capacity_ = a.capacity_ /\ b.buffer_ = a.buffer_
    <2> HIDE DEF Chunks
    <2> QED
      BY <1>2, <1>4, <1>6 DEF Arenas
  <1> HIDE DEF b
  <1>8. ASSUME ~(end > a.capacity_) PROVE ArenaHolds(b)
    <2>1. b.offset_ <= b.capacity_ /\ b.capacity_ < SIZE_T /\ b.buffer_ % MAX_ALIGN = 0
      BY <1>2, <1>4, <1>7, <1>8 DEF ArenaHolds
    <2>2. ASSUME modest PROVE count = Cardinality(chunks) /\ ChunksHold(chunks, end)
      <3>1. a.modest /\ a.capacity_ + k + bytes <= SIZE_T /\ chunks = a.chunks \cup {c}
        BY <2>2 DEF modest, chunks, Owners!Modest
      <3>2. a.alloc_count_ = Cardinality(a.chunks) /\ ChunksHold(a.chunks, a.offset_)
        BY <3>1 DEF ArenaHolds
      <3>3. a.offset_ + k - 1 \in Nat /\ a.offset_ + k - 1 < SIZE_T
        BY <1>2, <3>1
      <3>4. (a.offset_ + k - 1) % SIZE_T = a.offset_ + k - 1
        BY <1>2, <3>3, NoWrap
      <3>5. f = ((a.offset_ + k - 1) \div k) * k
        BY <3>4 DEF f, Owners!Aligned
      <3>6. f >= a.offset_ /\ f <= a.offset_ + k - 1 /\ f % k = 0
        BY <1>2, <3>5, RoundsUp
      <3>7. f + bytes \in Nat /\ f + bytes < SIZE_T
        BY <1>2, <1>3, <3>1, <3>6
      <3>8. end = f + bytes
        BY <1>2, <3>7, NoWrap DEF end
      <3>9. c.from >= a.offset_ /\ c.from < c.to /\ c.from % c.alignment = 0
        BY <1>3, <1>5, <3>6
      <3>10. /\ ChunksHold(a.chunks \cup {c}, c.to) /\ Cardinality(a.chunks) \in Nat /\ Cardinality(a.chunks) < c.to
             /\ Cardinality(a.chunks \cup {c}) = Cardinality(a.chunks) + 1
        BY <1>2, <1>5, <3>2, <3>9, ChunkAdded
      <3>11. a.alloc_count_ + 1 \in Nat /\ a.alloc_count_ + 1 < SIZE_T
        BY <1>2, <1>4, <1>5, <1>8, <3>2, <3>8, <3>10
      <3>12. count = a.alloc_count_ + 1
        BY <1>2, <3>11, NoWrap DEF count
      <3> QED
        BY <1>5, <3>1, <3>2, <3>8, <3>10, <3>12
    <2> QED
      BY <1>7, <2>1, <2>2 DEF ArenaHolds
  <1> QED
    BY <1>1, <1>8

(* No chunk is no problem. *)
LEMMA NoChunks == ChunksHold({}, 0) /\ Cardinality({}) = 0
  BY FS_EmptySet DEF ChunksHold

(* reset forgets all chunks (line 60). *)
LEMMA ArenaResets == ASSUME NEW a, ArenaHolds(a) PROVE ArenaHolds(Owners!reset(a))
  <1> DEFINE b == Owners!reset(a)
  <1>1. a \in Arenas /\ a.capacity_ < SIZE_T /\ a.buffer_ % MAX_ALIGN = 0
    BY DEF ArenaHolds
  <1>2. /\ b \in Arenas /\ b.chunks = {} /\ b.offset_ = 0 /\ b.alloc_count_ = 0
        /\ b.capacity_ = a.capacity_ /\ b.buffer_ = a.buffer_ /\ b.capacity_ \in Nat
    <2> HIDE DEF Chunks
    <2> QED
      BY <1>1 DEF Arenas, Owners!reset
  <1> HIDE DEF b
  <1>3. ArenaHolds(b)
    BY <1>1, <1>2, NoChunks DEF ArenaHolds
  <1> QED
    BY <1>3 DEF b

(* The invariant is what ArenaDisjoint says, and more. *)
LEMMA DisjointFromHold == ASSUME NEW a, ArenaHolds(a) PROVE Owners!ArenaDisjoint(a)
  <1>1. a.offset_ <= a.capacity_
    BY DEF ArenaHolds
  <1>2. ASSUME a.modest
        PROVE  /\ a.alloc_count_ = Owners!Cardinality(a.chunks)
               /\ \A c \in a.chunks :
                      /\ c.to <= a.offset_ /\ c.from % c.alignment = 0
                      /\ MAX_ALIGN % c.alignment = 0 => (a.buffer_ + c.from) % c.alignment = 0
               /\ \A c, d \in a.chunks : c # d => c.to <= d.from \/ d.to <= c.from
    <2>1. a.alloc_count_ = Cardinality(a.chunks) /\ ChunksHold(a.chunks, a.offset_)
      BY <1>2 DEF ArenaHolds
    <2>2. a.alloc_count_ = Owners!Cardinality(a.chunks)
      BY <2>1, SameCount
    <2>3. ASSUME NEW c \in a.chunks, MAX_ALIGN % c.alignment = 0
          PROVE  (a.buffer_ + c.from) % c.alignment = 0
      <3>1. a \in Arenas /\ a.buffer_ % MAX_ALIGN = 0 /\ MAX_ALIGN \in Nat \ {0}
        BY ContainersAssumption DEF ArenaHolds
      <3>2. a.buffer_ \in Nat /\ c \in Chunks
        BY <3>1 DEF Arenas
      <3>3. c.from \in Nat /\ c.alignment \in Nat \ {0} /\ c.from % c.alignment = 0
        BY <2>1, <3>2 DEF Chunks, ChunksHold
      <3> QED
        BY <2>3, <3>1, <3>2, <3>3, AddressAligned
    <2> QED
      BY <2>1, <2>2, <2>3 DEF ChunksHold
  <1> QED
    BY <1>1, <1>2 DEF Owners!ArenaDisjoint

(* Every call on the arena keeps the invariant. *)
LEMMA ArenaCallHolds == ASSUME ArenaHolds(arena), ArenaCall PROVE ArenaHolds(arena')
  <1>1. Requests \subseteq Nat \ {0} /\ Sizes \subseteq Nat \ {0} /\ Alignments \subseteq Nat \ {0}
    BY ContainersAssumption
  <1>2. ASSUME NEW bytes \in Requests, NEW k \in Alignments, arena' = Owners!allocate(arena, bytes, k)
        PROVE  ArenaHolds(arena')
    <2>1. bytes \in Nat \ {0} /\ k \in Nat \ {0}
      BY <1>1
    <2> QED
      BY <1>2, <2>1, ArenaAllocates
  <1>3. ASSUME NEW n \in Requests, NEW size \in Sizes, NEW k \in Alignments,
               arena' = Owners!allocateObjects(arena, n, size, k)
        PROVE  ArenaHolds(arena')
    <2>1. n * size \in Nat \ {0} /\ k \in Nat \ {0}
      <3>1. n \in Nat /\ size \in Nat /\ n >= 1 /\ size >= 1
        BY <1>1
      <3>2. n * size \in Nat /\ n * size >= 1
        BY <3>1
      <3> QED
        BY <1>1, <3>2
    <2> QED
      BY <1>3, <2>1, ArenaAllocates DEF Owners!allocateObjects
  <1>4. CASE arena' = Owners!reset(arena)
    BY <1>4, ArenaResets
  <1> QED
    BY <1>2, <1>3, <1>4 DEF ArenaCall

-----------------------------------------------------------------------------
(* The pool allocator (custom_allocator.cpp:100-129): s is its free list. *)
BlocksHold(p, s) ==
    /\ p \in [next : [1 .. BlockCount -> 0 .. BlockCount], freeList_ : 0 .. BlockCount,
              allocated_ : Nat, lent : SUBSET (1 .. BlockCount)]
    /\ Enumerates(s, (1 .. BlockCount) \ p.lent)
    /\ p.freeList_ = Beside(0, s, 1)
    /\ \A n \in 1 .. Len(s) : p.next[s[n]] = Beside(0, s, n + 1)
    /\ p.allocated_ = Cardinality(p.lent)

(* The constructor links the blocks from the last to the first. *)
LEMMA BlocksStart == \E s : BlocksHold(Owners!PoolAllocator(BlockCount), s)
  <1> DEFINE N == BlockCount
             s == [n \in 1 .. N |-> N + 1 - n]
             p == Owners!PoolAllocator(N)
  <1>1. N \in Nat
    BY ContainersAssumption
  <1> HIDE DEF N
  <1>2. s \in Seq(1 .. N) /\ Len(s) = N
    BY <1>1
  <1>3. ASSUME NEW i \in 1 .. N PROVE \E k \in 1 .. Len(s) : s[k] = i
    <2>1. N + 1 - i \in 1 .. N /\ s[N + 1 - i] = i
      BY <1>1
    <2> QED
      BY <1>2, <2>1
  <1>4. Enumerates(s, 1 .. N)
    BY <1>1, <1>2, <1>3 DEF Enumerates
  <1>5. p = [next |-> [b \in 1 .. N |-> b - 1], freeList_ |-> N, allocated_ |-> 0, lent |-> {}]
    BY DEF Owners!PoolAllocator
  <1>6. p.freeList_ = Beside(0, s, 1)
    BY <1>1, <1>2, <1>5 DEF Beside
  <1>7. ASSUME NEW n \in 1 .. Len(s) PROVE p.next[s[n]] = Beside(0, s, n + 1)
    <2>1. s[n] = N + 1 - n /\ N + 1 - n \in 1 .. N
      BY <1>1, <1>2
    <2>2. p.next[s[n]] = N - n
      BY <1>1, <1>5, <2>1
    <2>3. Beside(0, s, n + 1) = N - n
      BY <1>1, <1>2 DEF Beside
    <2> QED
      BY <2>2, <2>3
  <1>8. p.allocated_ = Cardinality(p.lent) /\ (1 .. N) \ p.lent = 1 .. N
    BY <1>5, FS_EmptySet
  <1>9. p \in [next : [1 .. N -> 0 .. N], freeList_ : 0 .. N, allocated_ : Nat, lent : SUBSET (1 .. N)]
    BY <1>1, <1>5
  <1> HIDE DEF s, p
  <1>10. BlocksHold(p, s)
    BY <1>4, <1>6, <1>7, <1>8, <1>9 DEF BlocksHold, N
  <1> QED
    BY <1>10 DEF p, N

(* Finitely many blocks are lent. *)
LEMMA LentFinite == ASSUME NEW p, NEW s, BlocksHold(p, s) PROVE IsFiniteSet(p.lent)
  <1>1. p.lent \subseteq 1 .. BlockCount /\ BlockCount \in Nat
    BY ContainersAssumption DEF BlocksHold
  <1>2. IsFiniteSet(1 .. BlockCount)
    BY <1>1, FS_Interval
  <1> QED
    BY <1>1, <1>2, FS_Subset

(* allocate takes the first block of the list (lines 116-122). *)
LEMMA BlockAllocates ==
    ASSUME NEW p, NEW s, BlocksHold(p, s) PROVE \E t : BlocksHold(Owners!allocateBlock(p), t)
  <1> DEFINE N == BlockCount
             b == s[1]
             u == [p EXCEPT !.freeList_ = p.next[@], !.allocated_ = @ + 1, !.lent = @ \cup {p.freeList_}]
             t == Tail(s)
  <1>1. /\ N \in Nat /\ p \in [next : [1 .. N -> 0 .. N], freeList_ : 0 .. N, allocated_ : Nat, lent : SUBSET (1 .. N)]
        /\ Enumerates(s, (1 .. N) \ p.lent) /\ p.freeList_ = Beside(0, s, 1) /\ Len(s) \in Nat
    BY ListLength, ContainersAssumption DEF BlocksHold
  <1>2. CASE p.freeList_ = 0
    BY <1>2 DEF Owners!allocateBlock
  <1>3. CASE p.freeList_ # 0
    <2>1. 1 \in 1 .. Len(s) /\ p.freeList_ = b /\ s # <<>>
      BY <1>1, <1>3 DEF Beside
    <2>2. /\ b \in (1 .. N) \ p.lent /\ Enumerates(t, ((1 .. N) \ p.lent) \ {b}) /\ Len(t) = Len(s) - 1
          /\ \A k \in 1 .. Len(t) : k + 1 \in 1 .. Len(s) /\ t[k] = s[k + 1]
      <3>1. Enumerates(s, (1 .. N) \ p.lent) /\ s # <<>>
        BY <1>1, <2>1
      <3>2. /\ Head(s) \in (1 .. N) \ p.lent /\ Head(s) = s[1] /\ Enumerates(Tail(s), ((1 .. N) \ p.lent) \ {Head(s)})
            /\ Len(Tail(s)) = Len(s) - 1
            /\ \A k \in 1 .. Len(Tail(s)) : k + 1 \in 1 .. Len(s) /\ Tail(s)[k] = s[k + 1]
        <4> DEFINE S == (1 .. N) \ p.lent
        <4>1. Enumerates(s, S) /\ s # <<>>
          BY <3>1
        <4> HIDE DEF S
        <4>2. /\ Head(s) \in S /\ Head(s) = s[1] /\ Enumerates(Tail(s), S \ {Head(s)})
              /\ Len(Tail(s)) = Len(s) - 1
              /\ \A k \in 1 .. Len(Tail(s)) : k + 1 \in 1 .. Len(s) /\ Tail(s)[k] = s[k + 1]
          BY ONLY <4>1, TailLists
        <4> QED
          BY <4>2 DEF S
      <3> QED
        BY <3>2
    <2> HIDE DEF b, t, N
    <2>3. p.next[b] = Beside(0, s, 2) /\ p.next[b] \in 0 .. N
      <3>1. p.next[s[1]] = Beside(0, s, 1 + 1)
        BY <2>1 DEF BlocksHold
      <3> QED
        BY <1>1, <2>2, <3>1 DEF b
    <2>4. /\ u \in [next : [1 .. N -> 0 .. N], freeList_ : 0 .. N, allocated_ : Nat, lent : SUBSET (1 .. N)]
          /\ u.next = p.next /\ u.freeList_ = p.next[b] /\ u.allocated_ = p.allocated_ + 1 /\ u.lent = p.lent \cup {b}
      <3>1. p.allocated_ + 1 \in Nat /\ p.lent \cup {b} \in SUBSET (1 .. N)
        BY <1>1, <2>2
      <3>2. u = [p EXCEPT !.freeList_ = p.next[b], !.allocated_ = p.allocated_ + 1, !.lent = p.lent \cup {b}]
        BY <1>1, <2>1
      <3> HIDE DEF u
      <3> QED
        BY <1>1, <2>3, <3>1, <3>2
    <2> HIDE DEF u
    <2>5. \A k \in Nat \ {0} : Beside(0, t, k) = Beside(0, s, k + 1)
      <3>1. ASSUME NEW k \in Nat \ {0} PROVE k \in 1 .. Len(t) <=> k + 1 \in 1 .. Len(s)
        BY <1>1, <2>2
      <3> QED
        BY <2>2, <3>1 DEF Beside
    <2>6. u.freeList_ = Beside(0, t, 1)
      BY <2>3, <2>4, <2>5
    <2>7. ASSUME NEW n \in 1 .. Len(t) PROVE u.next[t[n]] = Beside(0, t, n + 1)
      <3>1. n + 1 \in 1 .. Len(s) /\ t[n] = s[n + 1] /\ n + 1 \in Nat \ {0}
        BY <2>2
      <3>2. p.next[s[n + 1]] = Beside(0, s, (n + 1) + 1)
        BY <3>1 DEF BlocksHold
      <3> QED
        BY <2>4, <2>5, <3>1, <3>2
    <2>8. u.allocated_ = Cardinality(u.lent)
      <3>1. IsFiniteSet(p.lent)
        BY LentFinite
      <3>2. Cardinality(p.lent \cup {b}) = Cardinality(p.lent) + 1
        BY <2>2, <3>1, FS_AddElement
      <3>3. p.allocated_ = Cardinality(p.lent)
        BY DEF BlocksHold
      <3> QED
        BY <2>4, <3>2, <3>3
    <2>9. ((1 .. N) \ p.lent) \ {b} = (1 .. N) \ u.lent
      BY <2>4
    <2>10. BlocksHold(u, t)
      BY <2>2, <2>4, <2>6, <2>7, <2>8, <2>9 DEF BlocksHold, N
    <2>11. Owners!allocateBlock(p) = u
      BY <1>3 DEF Owners!allocateBlock, u
    <2> QED
      BY <2>10, <2>11
  <1> QED
    BY <1>2, <1>3

(* deallocate puts the block in front of the list (lines 124-129). *)
LEMMA BlockReturns ==
    ASSUME NEW p, NEW s, BlocksHold(p, s), NEW b \in p.lent PROVE \E t : BlocksHold(Owners!deallocateBlock(p, b), t)
  <1> DEFINE N == BlockCount
             u == Owners!deallocateBlock(p, b)
             t == <<b>> \o s
  <1>1. /\ N \in Nat /\ p \in [next : [1 .. N -> 0 .. N], freeList_ : 0 .. N, allocated_ : Nat, lent : SUBSET (1 .. N)]
        /\ Enumerates(s, (1 .. N) \ p.lent) /\ p.freeList_ = Beside(0, s, 1) /\ Len(s) \in Nat /\ b \in 1 .. N
    BY ListLength, ContainersAssumption DEF BlocksHold
  <1> HIDE DEF N
  <1>2. Enumerates(t, {b} \cup ((1 .. N) \ p.lent)) /\ Chained(t, <<b>>, s)
    <2>1. Enumerates(<<b>>, {b}) /\ {b} \cap ((1 .. N) \ p.lent) = {}
      BY ShortLists
    <2> QED
      BY <1>1, <2>1, JoinLists
  <1> HIDE DEF t
  <1>3. Len(t) = Len(s) + 1 /\ t[1] = b /\ \A k \in 2 .. Len(t) : k - 1 \in 1 .. Len(s) /\ t[k] = s[k - 1]
    <2>1. Len(<<b>>) = 1 /\ <<b>>[1] = b
      OBVIOUS
    <2>2. /\ Len(t) = 1 + Len(s)
          /\ \A k \in 1 .. 1 + Len(s) : t[k] = IF k <= 1 THEN <<b>>[k] ELSE s[k - 1]
      BY <1>2, <2>1 DEF Chained
    <2>3. \A k \in 2 .. Len(t) : k \in 1 .. 1 + Len(s) /\ ~(k <= 1) /\ k - 1 \in 1 .. Len(s)
      BY <1>1, <2>2
    <2>4. 1 \in 1 .. 1 + Len(s) /\ 1 <= 1
      BY <1>1
    <2> QED
      BY <1>1, <2>1, <2>2, <2>3, <2>4
  <1>4. Cardinality(p.lent \ {b}) = Cardinality(p.lent) - 1 /\ Cardinality(p.lent \ {b}) \in Nat
    <2>1. IsFiniteSet(p.lent)
      BY LentFinite
    <2> QED
      BY <2>1, FS_RemoveElement, FS_CardinalityType, FS_Subset
  <1>5. /\ u \in [next : [1 .. N -> 0 .. N], freeList_ : 0 .. N, allocated_ : Nat, lent : SUBSET (1 .. N)]
        /\ u.next = [p.next EXCEPT ![b] = p.freeList_] /\ u.freeList_ = b /\ u.allocated_ = p.allocated_ - 1
        /\ u.lent = p.lent \ {b}
    <2>1. p.allocated_ - 1 \in Nat
      BY <1>4 DEF BlocksHold
    <2>2. [p.next EXCEPT ![b] = p.freeList_] \in [1 .. N -> 0 .. N] /\ b \in 0 .. N /\ p.lent \ {b} \in SUBSET (1 .. N)
      BY <1>1
    <2>3. u = [p EXCEPT !.next = [p.next EXCEPT ![b] = p.freeList_], !.freeList_ = b,
                        !.allocated_ = p.allocated_ - 1, !.lent = p.lent \ {b}]
      BY <1>1 DEF Owners!deallocateBlock
    <2> HIDE DEF u
    <2> QED
      BY <1>1, <2>1, <2>2, <2>3
  <1> HIDE DEF u
  <1>6. \A k \in Nat \ {0} : Beside(0, t, k + 1) = Beside(0, s, k)
    <2>1. ASSUME NEW k \in Nat \ {0} PROVE (k \in 1 .. Len(s) <=> k + 1 \in 1 .. Len(t)) /\ (k + 1) - 1 = k
      BY <1>1, <1>3
    <2>2. ASSUME NEW k \in Nat \ {0}, k \in 1 .. Len(s) PROVE t[k + 1] = s[k]
      <3>1. k + 1 \in 2 .. Len(t)
        BY <1>1, <1>3, <2>2
      <3> QED
        BY <1>3, <2>1, <3>1
    <2> QED
      BY <2>1, <2>2 DEF Beside
  <1>7. u.freeList_ = Beside(0, t, 1)
    BY <1>1, <1>3, <1>5 DEF Beside
  <1>8. ASSUME NEW n \in 1 .. Len(t) PROVE u.next[t[n]] = Beside(0, t, n + 1)
    <2>1. CASE n = 1
      <3>1. u.next[b] = Beside(0, s, 1)
        BY <1>1, <1>5
      <3> QED
        BY <1>3, <1>6, <2>1, <3>1
    <2>2. CASE n # 1
      <3>1. n - 1 \in 1 .. Len(s) /\ t[n] = s[n - 1] /\ (n - 1) + 1 = n /\ n \in Nat \ {0}
        BY <1>1, <1>3, <2>2
      <3>2. s[n - 1] \in (1 .. N) \ p.lent
        BY <1>1, <3>1, ElementOfSeq DEF Enumerates
      <3>3. u.next[s[n - 1]] = p.next[s[n - 1]]
        BY <1>1, <1>5, <3>2
      <3>4. p.next[s[n - 1]] = Beside(0, s, (n - 1) + 1)
        BY <3>1 DEF BlocksHold
      <3> QED
        BY <1>6, <3>1, <3>3, <3>4
    <2> QED
      BY <2>1, <2>2
  <1>9. {b} \cup ((1 .. N) \ p.lent) = (1 .. N) \ u.lent
    BY <1>1, <1>5
  <1>10. u.allocated_ = Cardinality(u.lent)
    BY <1>4, <1>5 DEF BlocksHold
  <1>11. BlocksHold(u, t)
    BY <1>2, <1>5, <1>7, <1>8, <1>9, <1>10 DEF BlocksHold, N
  <1> QED
    BY <1>11 DEF u

(* The walk of FreeBlocks visits the list and stays at the null pointer. *)
Hops(p, g) ==
    g = [n \in 0 .. BlockCount |->
            IF n = 0 THEN p.freeList_ ELSE IF g[n - 1] = 0 THEN 0 ELSE p.next[g[n - 1]]]

(* It does so for every solution of its equation. *)
LEMMA HopsVisit ==
    ASSUME NEW p, NEW s, BlocksHold(p, s)
    PROVE  /\ Hops(p, [n \in 0 .. BlockCount |-> Beside(0, s, n + 1)])
           /\ \A g : Hops(p, g) => \A n \in 0 .. BlockCount : g[n] = Beside(0, s, n + 1)
  <1> DEFINE N == BlockCount
             w == [n \in 0 .. N |-> Beside(0, s, n + 1)]
  <1>1. N \in Nat /\ Len(s) \in Nat /\ p.freeList_ = Beside(0, s, 1) /\ \A n \in 1 .. Len(s) : s[n] \in 1 .. N
    <2>1. Enumerates(s, (1 .. N) \ p.lent) /\ p.freeList_ = Beside(0, s, 1) /\ N \in Nat
      BY ContainersAssumption DEF BlocksHold
    <2>2. \A n \in 1 .. Len(s) : s[n] \in (1 .. N) \ p.lent
      BY <2>1, ElementOfSeq DEF Enumerates
    <2> QED
      BY <2>1, <2>2, ListLength
  <1>2. ASSUME NEW n \in Nat \ {0}
        PROVE  (IF Beside(0, s, n) = 0 THEN 0 ELSE p.next[Beside(0, s, n)]) = Beside(0, s, n + 1)
    <2>1. CASE n \in 1 .. Len(s)
      <3>1. Beside(0, s, n) = s[n] /\ s[n] # 0
        BY <1>1, <2>1 DEF Beside
      <3>2. p.next[s[n]] = Beside(0, s, n + 1)
        BY <2>1 DEF BlocksHold
      <3> QED
        BY <3>1, <3>2
    <2>2. CASE n \notin 1 .. Len(s)
      <3>1. n + 1 \notin 1 .. Len(s)
        BY <1>1, <2>2
      <3> QED
        BY <2>2, <3>1 DEF Beside
    <2> QED
      BY <2>1, <2>2
  <1> HIDE DEF N
  <1>3. ASSUME NEW n \in 0 .. N
        PROVE  w[n] = IF n = 0 THEN p.freeList_ ELSE IF w[n - 1] = 0 THEN 0 ELSE p.next[w[n - 1]]
    <2>1. CASE n = 0
      BY <1>1, <2>1
    <2>2. CASE n # 0
      <3>1. n - 1 \in 0 .. N /\ n \in Nat \ {0} /\ (n - 1) + 1 = n
        BY <1>1, <2>2
      <3>2. w[n - 1] = Beside(0, s, n) /\ w[n] = Beside(0, s, n + 1)
        BY <3>1
      <3> QED
        BY <1>2, <2>2, <3>1, <3>2
    <2> QED
      BY <2>1, <2>2
  <1>4. Hops(p, w)
    BY <1>3 DEF Hops, N
  <1>5. ASSUME NEW g, Hops(p, g), NEW m \in 0 .. N, g[m] # Beside(0, s, m + 1) PROVE FALSE
    <2> DEFINE Wrong == {n \in 0 .. N : g[n] # Beside(0, s, n + 1)}
    <2>1. Wrong \in SUBSET Nat /\ Wrong # {}
      BY <1>1, <1>5
    <2>2. PICK n \in Wrong : \A k \in Wrong : ~(k < n)
      BY <2>1, LeastNumber
    <2>3. n \in 0 .. N /\ g[n] # Beside(0, s, n + 1)
      BY <2>2
    <2>4. g[n] = IF n = 0 THEN p.freeList_ ELSE IF g[n - 1] = 0 THEN 0 ELSE p.next[g[n - 1]]
      BY <1>5, <2>3 DEF Hops, N
    <2>5. n # 0
      BY <1>1, <2>3, <2>4
    <2>6. n - 1 \in 0 .. N /\ n - 1 < n /\ n \in Nat \ {0} /\ (n - 1) + 1 = n
      BY <1>1, <2>3, <2>5
    <2>7. g[n - 1] = Beside(0, s, n)
      BY <2>2, <2>6
    <2> QED
      BY <1>2, <2>3, <2>4, <2>5, <2>6, <2>7
  <1> QED
    BY <1>4, <1>5 DEF N

(* The invariant is what PoolPartition says. *)
LEMMA PartitionFromHold == ASSUME NEW p, NEW s, BlocksHold(p, s) PROVE Owners!PoolPartition(p)
  <1> DEFINE g == CHOOSE g : Hops(p, g)
  <1>1. Hops(p, g) /\ \A n \in 0 .. BlockCount : g[n] = Beside(0, s, n + 1)
    BY HopsVisit
  <1>2. /\ BlockCount \in Nat /\ p.next \in [1 .. BlockCount -> 0 .. BlockCount] /\ p.lent \in SUBSET (1 .. BlockCount)
        /\ p.allocated_ = Cardinality(p.lent) /\ Enumerates(s, (1 .. BlockCount) \ p.lent)
    BY ContainersAssumption DEF BlocksHold
  <1>3. Len(p.next) = BlockCount /\ DOMAIN p.next = 1 .. BlockCount
    BY <1>2
  <1>4. DOMAIN g = 0 .. BlockCount
    BY <1>1, Zenon DEF Hops
  <1>5. Owners!FreeBlocks(p) = {g[n] : n \in DOMAIN g} \ {0}
    BY <1>3 DEF Owners!FreeBlocks, Hops
  <1> HIDE DEF g
  <1>6. Len(s) \in Nat /\ Len(s) <= BlockCount
    <2>1. Len(s) \in Nat /\ Cardinality((1 .. BlockCount) \ p.lent) = Len(s)
      BY <1>2, ListLength
    <2>2. Cardinality(1 .. BlockCount) = BlockCount /\ IsFiniteSet(1 .. BlockCount)
      BY <1>2, FS_Interval
    <2>3. Cardinality((1 .. BlockCount) \ p.lent) <= Cardinality(1 .. BlockCount)
      BY <2>2, FS_Subset
    <2> QED
      BY <2>1, <2>2, <2>3
  <1>7. ASSUME NEW n \in 0 .. BlockCount, g[n] # 0 PROVE g[n] \in (1 .. BlockCount) \ p.lent
    <2>1. n + 1 \in 1 .. Len(s) /\ g[n] = s[n + 1]
      BY <1>1, <1>7 DEF Beside
    <2> QED
      BY <1>2, <2>1, ElementOfSeq DEF Enumerates
  <1>8. ASSUME NEW b \in (1 .. BlockCount) \ p.lent PROVE \E n \in 0 .. BlockCount : g[n] = b /\ b # 0
    <2>1. PICK k \in 1 .. Len(s) : s[k] = b
      BY <1>2 DEF Enumerates
    <2>2. k - 1 \in 0 .. BlockCount /\ (k - 1) + 1 = k
      BY <1>2, <1>6, <2>1
    <2>3. g[k - 1] = b
      BY <1>1, <2>1, <2>2 DEF Beside
    <2> QED
      BY <1>2, <2>2, <2>3
  <1>9. Owners!FreeBlocks(p) = DOMAIN p.next \ p.lent
    BY <1>3, <1>4, <1>5, <1>7, <1>8
  <1> QED
    BY <1>2, <1>9, SameCount DEF Owners!PoolPartition

-----------------------------------------------------------------------------
(* The invariant of the owners and allocators. *)
OwnerInv ==
    /\ OwnersHold(world) /\ class \in Owners!Classes
    /\ ArenaHolds(arena) /\ \E s : BlocksHold(blocks, s)

(* Nothing is owned at first. *)
LEMMA OwnersStart == ASSUME ContainerInit PROVE OwnerInv
  <1>1. /\ world = Owners!World(Objects) /\ blocks = Owners!PoolAllocator(BlockCount)
        /\ \E b \in Buffers \cup {0} : arena = Owners!Arena(b, ArenaSize)
    BY DEF ContainerInit
  <1>2. class \in Owners!Classes
    BY DEF ContainerInit, Owners!Classes
  <1>3. OwnersHold(world)
    <2>1. << >> \in Seq(Nat)
      OBVIOUS
    <2> QED
      BY <1>1, <2>1 DEF OwnersHold, HoldsOne, Worlds, Owners!World
  <1>4. ArenaHolds(arena)
    <2>1. PICK b \in Buffers \cup {0} : arena = Owners!Arena(b, ArenaSize)
      BY <1>1
    <2>2. b \in Nat /\ b % MAX_ALIGN = 0
      <3>1. 0 % MAX_ALIGN = 0
        BY ContainersAssumption, NoWrap
      <3> QED
        BY <3>1, ContainersAssumption
    <2>3. ArenaSize \in Nat /\ ArenaSize < SIZE_T
      BY ContainersAssumption
    <2>4. /\ arena \in Arenas /\ arena.buffer_ = b /\ arena.capacity_ = ArenaSize
          /\ arena.offset_ = 0 /\ arena.alloc_count_ = 0 /\ arena.chunks = {}
      BY <2>1, <2>2, <2>3 DEF Arenas, Owners!Arena
    <2> QED
      BY <2>2, <2>3, <2>4, NoChunks DEF ArenaHolds
  <1> QED
    BY <1>1, <1>2, <1>3, <1>4, BlocksStart DEF OwnerInv

(* Every call keeps the invariant, and the calls on the containers do not touch it. *)
LEMMA OwnersStep == ASSUME OwnerInv, [ContainerNext]_containerVars PROVE OwnerInv'
  <1>1. CASE UNCHANGED ownerVars
    BY <1>1 DEF OwnerInv, ownerVars
  <1>2. CASE OwnerCall
    <2>1. OwnersHold(world')
      BY OwnerCallHolds, <1>2 DEF OwnerInv
    <2>2. UNCHANGED <<class, arena, blocks>>
      BY <1>2 DEF OwnerCall
    <2> QED
      BY <2>1, <2>2 DEF OwnerInv
  <1>3. CASE ArenaCall
    <2>1. ArenaHolds(arena')
      BY ArenaCallHolds, <1>3 DEF OwnerInv
    <2>2. UNCHANGED <<class, world, blocks>>
      BY <1>3 DEF ArenaCall
    <2> QED
      BY <2>1, <2>2 DEF OwnerInv
  <1>4. CASE BlockCall
    <2>1. \E s : BlocksHold(blocks', s)
      BY BlockAllocates, BlockReturns, <1>4 DEF OwnerInv, BlockCall
    <2>2. UNCHANGED <<class, world, arena>>
      BY <1>4 DEF BlockCall
    <2> QED
      BY <2>1, <2>2 DEF OwnerInv
  <1> QED
    BY <1>1, <1>2, <1>3, <1>4 DEF ContainerNext, containerVars

(* No sequence of calls makes an owning class leak a resource, close it twice or share
   it, for any number of objects and resources, and the pool allocator lends no block
   twice.  For every width of a size_t and all sizes and alignments, the arena's offset
   stays inside its buffer; as long as no request is so large that a sum may wrap, it hands
   out no memory twice, and addresses are aligned as far as the buffer's is. *)
THEOREM OwnersAlwaysSound == ContainerSpec => []OwnershipSound
  <1>1. ContainerInit => OwnerInv
    BY OwnersStart
  <1>2. OwnerInv /\ [ContainerNext]_containerVars => OwnerInv'
    BY OwnersStep
  <1>3. OwnerInv => OwnershipSound
    BY OwnedFromHold, DisjointFromHold, PartitionFromHold DEF OwnerInv, OwnershipSound
  <1> QED
    BY <1>1, <1>2, <1>3, PTL DEF ContainerSpec

(* Every invariant the run of the containers checks holds of the specification it
   checks: the pool's own, by the theorem on its specification, and the three above. *)
THEOREM ContainersAlwaysSound ==
    ContainerSpec => [](PoolSound /\ ListIntegrity /\ ContainersBehave /\ OwnershipSound)
  <1>1. ContainerInit => Init
    BY DEF ContainerInit
  <1>2. [ContainerNext]_containerVars => [Next]_vars
    BY DEF ContainerNext, containerVars
  <1>3. ContainerSpec => Spec
    BY <1>1, <1>2, PTL DEF ContainerSpec, Spec
  <1> QED
    BY <1>3, PoolAlwaysSound, CacheListSound, ContainersAlwaysBehave, OwnersAlwaysSound, PTL
=============================================================================
