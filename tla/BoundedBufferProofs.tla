------------------------ MODULE BoundedBufferProofs ------------------------
(***************************************************************************)
(* notify_one is enough in src/src/concurrency/producer_consumer.cpp, and  *)
(* the claim counters are sound, for every number of producers, consumers, *)
(* slots and items.  The four invariants are inductive together: types     *)
(* need the claims (consumed_count is decremented in line 94), claims and  *)
(* wakeups need to know where blocked threads are.                         *)
(***************************************************************************)
EXTENDS BoundedBuffer, FiniteSetTheorems, TLAPS

BufferInv ==
    TypeOK /\ ClaimsAreCovered /\ WakeupForEveryItem /\ WakeupForEverySlot

(* One more member. *)
LEMMA Grow ==
    ASSUME NEW S, IsFiniteSet(S), NEW x, x \notin S
    PROVE  Cardinality(S \cup {x}) = Cardinality(S) + 1
  BY FS_AddElement

(* One member less. *)
LEMMA Shrink ==
    ASSUME NEW S, IsFiniteSet(S), NEW x, x \in S
    PROVE  Cardinality(S \ {x}) = Cardinality(S) - 1
  BY FS_RemoveElement

(* The sets of threads the invariants count are finite. *)
FiniteCounts ==
    /\ \A label : /\ IsFiniteSet(At(Consumers, label))
                  /\ Cardinality(At(Consumers, label)) \in Nat
    /\ IsFiniteSet(AwakeConsumers) /\ Cardinality(AwakeConsumers) \in Nat
    /\ IsFiniteSet(AwakeProducers) /\ Cardinality(AwakeProducers) \in Nat

(* There are finitely many threads. *)
LEMMA CountsAreFinite == FiniteCounts
  <1>1. IsFiniteSet(Consumers) /\ IsFiniteSet(Producers)
    BY BufferAssumption
  <1>2. ASSUME NEW label PROVE IsFiniteSet(At(Consumers, label))
    <2>1. At(Consumers, label) \in SUBSET Consumers
      BY DEF At
    <2> QED
      BY <1>1, <2>1, FS_Subset
  <1>3. IsFiniteSet(AwakeConsumers)
    <2>1. AwakeConsumers \in SUBSET Consumers
      BY DEF AwakeConsumers, At
    <2> QED
      BY <1>1, <2>1, FS_Subset
  <1>4. IsFiniteSet(AwakeProducers)
    <2>1. AwakeProducers \in SUBSET Producers
      BY DEF AwakeProducers, At
    <2> QED
      BY <1>1, <2>1, FS_Subset
  <1> QED
    BY <1>2, <1>3, <1>4, FS_CardinalityType DEF FiniteCounts

(* The same after a step. *)
LEMMA CountsFiniteNext == FiniteCounts'
  BY CountsAreFinite, PTL

(* There is a fixed number of items. *)
LEMMA TotalNat == TOTAL_ITEMS \in Nat
  <1>1. Cardinality(Producers) \in Nat
    BY BufferAssumption, FS_CardinalityType
  <1>2. ITEMS_PER_PRODUCER \in Nat
    BY BufferAssumption
  <1> QED
    BY <1>1, <1>2 DEF TOTAL_ITEMS

(* Nobody is blocked and nothing is claimed at the start. *)
LEMMA InitBufferInv == Init => BufferInv
  <1> SUFFICES ASSUME Init PROVE BufferInv
    OBVIOUS
  <1> USE BufferAssumption DEF Init
  <1>1. /\ \A p \in Producers : pc[p] = "produce"
        /\ \A c \in Consumers : pc[c] = "load"
    OBVIOUS
  <1>2. TypeOK
    <2>1. Len(buffer_) <= BUFFER_SIZE /\ buffer_ \in Seq(Item) /\ taken \in Seq(Item)
      OBVIOUS
    <2>2. produced \in [Producers -> 0 .. ITEMS_PER_PRODUCER]
          /\ \A p \in Producers : produced[p] < ITEMS_PER_PRODUCER
      OBVIOUS
    <2>3. pc \in [Producers \cup Consumers ->
                    {"produce", "count", "load", "claim", "undo", "consume", "done"}]
      OBVIOUS
    <2>4. not_full_ \subseteq At(Producers, "produce") /\ not_empty_ \subseteq At(Consumers, "consume")
      OBVIOUS
    <2>5. produced_count \in Nat /\ consumed_count \in Nat
      OBVIOUS
    <2> QED
      BY <1>1, <2>1, <2>2, <2>3, <2>4, <2>5 DEF TypeOK
  <1>3. ClaimsAreCovered
    <2>1. At(Consumers, "consume") = {} /\ At(Consumers, "undo") = {}
      BY <1>1 DEF At
    <2>2. Cardinality({}) = 0 /\ Len(taken) = 0
      BY FS_EmptySet
    <2>3. Cardinality(At(Consumers, "consume")) = 0 /\ Cardinality(At(Consumers, "undo")) = 0
      BY <2>1, <2>2
    <2> HIDE DEF Init
    <2>4. consumed_count = 0
      BY DEF Init
    <2> QED
      BY <2>2, <2>3, <2>4, TotalNat DEF ClaimsAreCovered
  <1>4. WakeupForEveryItem /\ WakeupForEverySlot
    BY DEF WakeupForEveryItem, WakeupForEverySlot
  <1> QED
    BY <1>2, <1>3, <1>4 DEF BufferInv

(* What notify_one leaves: nobody is blocked, or one blocked thread less. *)
LEMMA NotifyOne ==
    ASSUME NEW S, NEW T \in notify_one(S)
    PROVE  (S = {} /\ T = {}) \/ (\E w \in S : T = S \ {w})
  BY DEF notify_one

(* produce that finds the buffer full (line 44). *)
LEMMA ProduceBlockInv ==
    ASSUME BufferInv, NEW p \in Producers, ProduceBlock(p) PROVE BufferInv'
  <1> USE BufferAssumption
  <1>1. TypeOK /\ ClaimsAreCovered /\ WakeupForEveryItem /\ WakeupForEverySlot
    BY DEF BufferInv
  <1>2. TypeOK'
    BY <1>1 DEF ProduceBlock, TypeOK, At
  <1>3. ClaimsAreCovered' /\ WakeupForEveryItem'
    BY <1>1 DEF ProduceBlock, ClaimsAreCovered, WakeupForEveryItem, AwakeConsumers, At
  <1>4. WakeupForEverySlot'
    <2>1. Cardinality(AwakeProducers') \in Nat
      BY CountsFiniteNext DEF FiniteCounts
    <2>2. BUFFER_SIZE - Len(buffer_') <= 0
      BY <1>1 DEF ProduceBlock, TypeOK
    <2> QED
      BY <1>1, <2>1, <2>2 DEF WakeupForEverySlot, TypeOK, ProduceBlock
  <1> QED
    BY <1>2, <1>3, <1>4 DEF BufferInv

(* produce with a free slot (lines 45-46): one item more, one sleeping consumer
   less, one producer less that needs a slot. *)
LEMMA ProduceInv ==
    ASSUME BufferInv, NEW p \in Producers, Produce(p) PROVE BufferInv'
  <1> USE BufferAssumption
  <1>1. TypeOK /\ ClaimsAreCovered /\ WakeupForEveryItem /\ WakeupForEverySlot
    BY DEF BufferInv
  <1>2. FiniteCounts
    BY CountsAreFinite
  <1>3. /\ buffer_ \in Seq(Item) /\ Len(buffer_) \in Nat
        /\ Len(buffer_') = Len(buffer_) + 1 /\ Len(buffer_') <= BUFFER_SIZE
    BY <1>1 DEF Produce, TypeOK
  <1>4. not_empty_' \subseteq not_empty_
    BY NotifyOne DEF Produce
  <1>5. TypeOK'
    <2>1. produced[p] \in Nat /\ produced[p] + 1 \in 1 .. ITEMS_PER_PRODUCER
      BY <1>1 DEF Produce, TypeOK
    <2>2. <<p, produced[p] + 1>> \in Item
      BY <2>1 DEF Item
    <2>3. buffer_' \in Seq(Item)
      BY <1>3, <2>2 DEF Produce
    <2>4. produced' \in [Producers -> 0 .. ITEMS_PER_PRODUCER]
      BY <1>1, <2>1 DEF Produce, TypeOK
    <2>5. \A q \in Producers : pc'[q] = "produce" => produced'[q] < ITEMS_PER_PRODUCER
      BY <1>1 DEF Produce, TypeOK
    <2>6. /\ pc' \in [Producers \cup Consumers ->
                        {"produce", "count", "load", "claim", "undo", "consume", "done"}]
          /\ \A q \in Producers : pc'[q] \in {"produce", "count", "done"}
          /\ \A c \in Consumers : pc'[c] = pc[c]
      BY <1>1 DEF Produce, TypeOK
    <2>7. not_full_' \subseteq At(Producers, "produce")'
      BY <1>1 DEF Produce, TypeOK, At
    <2>8. not_empty_' \subseteq At(Consumers, "consume")'
      BY <1>1, <1>4, <2>6 DEF TypeOK, At
    <2> QED
      BY <1>1, <1>3, <2>3, <2>4, <2>5, <2>6, <2>7, <2>8 DEF Produce, TypeOK
  <1>6. \A c \in Consumers : pc'[c] = pc[c]
    BY <1>1 DEF Produce, TypeOK
  <1>7. ClaimsAreCovered'
    BY <1>1, <1>6 DEF Produce, ClaimsAreCovered, At
  <1>8. WakeupForEveryItem'
    <2> SUFFICES ASSUME not_empty_' # {} PROVE Cardinality(AwakeConsumers') >= Len(buffer_')
      BY DEF WakeupForEveryItem
    <2>1. PICK w \in not_empty_ : not_empty_' = not_empty_ \ {w}
      BY NotifyOne DEF Produce
    <2>2. AwakeConsumers' = AwakeConsumers \cup {w} /\ w \notin AwakeConsumers
      BY <1>1, <1>6, <2>1 DEF AwakeConsumers, At, TypeOK
    <2>3. Cardinality(AwakeConsumers') = Cardinality(AwakeConsumers) + 1
      BY <1>2, <2>2, Grow DEF FiniteCounts
    <2>4. Cardinality(AwakeConsumers) >= Len(buffer_)
      BY <1>1, <2>1 DEF WakeupForEveryItem
    <2> QED
      BY <1>2, <1>3, <2>3, <2>4 DEF FiniteCounts
  <1>9. WakeupForEverySlot'
    <2> SUFFICES ASSUME not_full_' # {}
                 PROVE  Cardinality(AwakeProducers') >= BUFFER_SIZE - Len(buffer_')
      BY DEF WakeupForEverySlot
    <2>1. AwakeProducers' = AwakeProducers \ {p} /\ p \in AwakeProducers
      BY <1>1 DEF Produce, AwakeProducers, At, TypeOK
    <2>2. Cardinality(AwakeProducers') = Cardinality(AwakeProducers) - 1
      BY <1>2, <2>1, Shrink DEF FiniteCounts
    <2>3. Cardinality(AwakeProducers) >= BUFFER_SIZE - Len(buffer_)
      BY <1>1 DEF WakeupForEverySlot, Produce
    <2> QED
      BY <1>2, <1>3, <2>2, <2>3 DEF FiniteCounts
  <1> QED
    BY <1>5, <1>7, <1>8, <1>9 DEF BufferInv

(* main counts an item (lines 81-82); the producer goes on or ends. *)
LEMMA CountProducedInv ==
    ASSUME BufferInv, NEW p \in Producers, CountProduced(p) PROVE BufferInv'
  <1> USE BufferAssumption
  <1>1. TypeOK /\ ClaimsAreCovered /\ WakeupForEveryItem /\ WakeupForEverySlot
    BY DEF BufferInv
  <1>2. FiniteCounts
    BY CountsAreFinite
  <1>3. \A t \in Producers \cup Consumers : t # p => pc'[t] = pc[t]
    BY <1>1 DEF CountProduced, TypeOK
  <1>4. \A c \in Consumers : pc'[c] = pc[c]
    BY <1>3
  <1>5. TypeOK'
    BY <1>1 DEF CountProduced, TypeOK, At
  <1>6. ClaimsAreCovered' /\ WakeupForEveryItem'
    BY <1>1, <1>4 DEF CountProduced, ClaimsAreCovered, WakeupForEveryItem, AwakeConsumers, At
  <1>7. WakeupForEverySlot'
    <2>1. p \notin AwakeProducers /\ p \notin not_full_
      BY <1>1 DEF CountProduced, TypeOK, AwakeProducers, At
    <2>2. AwakeProducers' = AwakeProducers \/ AwakeProducers' = AwakeProducers \cup {p}
      BY <1>1, <2>1 DEF CountProduced, TypeOK, AwakeProducers, At
    <2>3. Cardinality(AwakeProducers') >= Cardinality(AwakeProducers)
      BY <1>2, <2>1, <2>2, Grow DEF FiniteCounts
    <2>4. Cardinality(AwakeProducers') \in Nat /\ Cardinality(AwakeProducers) \in Nat
      BY <1>2, CountsFiniteNext DEF FiniteCounts
    <2> QED
      BY <1>1, <2>3, <2>4 DEF CountProduced, WakeupForEverySlot, TypeOK
  <1> QED
    BY <1>5, <1>6, <1>7 DEF BufferInv

(* The consumer's loop test (line 90) changes nothing that is counted. *)
LEMMA LoadCountInv ==
    ASSUME BufferInv, NEW c \in Consumers, LoadCount(c) PROVE BufferInv'
  <1> USE BufferAssumption
  <1>1. TypeOK /\ ClaimsAreCovered /\ WakeupForEveryItem /\ WakeupForEverySlot
    BY DEF BufferInv
  <1>2. /\ \A t \in Producers \cup Consumers : t # c => pc'[t] = pc[t]
        /\ pc[c] = "load" /\ pc'[c] \in {"claim", "done"}
    BY <1>1 DEF LoadCount, TypeOK
  <1>3. /\ At(Consumers, "consume")' = At(Consumers, "consume")
        /\ At(Consumers, "undo")' = At(Consumers, "undo")
    BY <1>2 DEF At
  <1>4. \A p \in Producers : pc'[p] = pc[p]
    BY <1>2
  <1>5. TypeOK'
    BY <1>1 DEF LoadCount, TypeOK, At
  <1>6. ClaimsAreCovered'
    BY <1>1, <1>3 DEF LoadCount, ClaimsAreCovered
  <1>7. WakeupForEveryItem'
    BY <1>1, <1>3 DEF LoadCount, WakeupForEveryItem, AwakeConsumers
  <1>8. WakeupForEverySlot'
    BY <1>1, <1>4 DEF LoadCount, WakeupForEverySlot, AwakeProducers, At
  <1> QED
    BY <1>5, <1>6, <1>7, <1>8 DEF BufferInv

(* fetch_add (line 91): the claim is served if an item is left for it. *)
LEMMA ClaimInv ==
    ASSUME BufferInv, NEW c \in Consumers, Claim(c) PROVE BufferInv'
  <1> USE BufferAssumption
  <1>1. TypeOK /\ ClaimsAreCovered /\ WakeupForEveryItem /\ WakeupForEverySlot
    BY DEF BufferInv
  <1>2. FiniteCounts /\ FiniteCounts'
    BY CountsAreFinite, CountsFiniteNext
  <1>3. /\ \A t \in Producers \cup Consumers : t # c => pc'[t] = pc[t]
        /\ pc[c] = "claim" /\ c \notin not_empty_
        /\ pc'[c] = IF consumed_count < TOTAL_ITEMS THEN "consume" ELSE "undo"
    BY <1>1 DEF Claim, TypeOK, At
  <1>4. \A p \in Producers : pc'[p] = pc[p]
    BY <1>3
  <1>5. TypeOK'
    BY <1>1 DEF Claim, TypeOK, At
  <1> DEFINE Serving == At(Consumers, "consume")
             Undoing == At(Consumers, "undo")
  <1>6. ClaimsAreCovered'
    <2>1. /\ consumed_count = Len(taken) + Cardinality(Serving) + Cardinality(Undoing)
          /\ Len(taken) + Cardinality(Serving) <= TOTAL_ITEMS
          /\ Len(taken) \in Nat
      BY <1>1 DEF ClaimsAreCovered, TypeOK
    <2>2. taken' = taken /\ consumed_count' = consumed_count + 1
      BY DEF Claim
    <2>3. CASE consumed_count < TOTAL_ITEMS
      <3>1. Serving' = Serving \cup {c} /\ c \notin Serving /\ Undoing' = Undoing
        BY <1>3, <2>3 DEF At
      <3>2. Cardinality(Serving') = Cardinality(Serving) + 1
        BY <1>2, <3>1, Grow DEF FiniteCounts
      <3> HIDE DEF Serving, Undoing
      <3>3. Cardinality(Serving) \in Nat /\ Cardinality(Undoing) \in Nat
        BY <1>2 DEF FiniteCounts, Serving, Undoing
      <3>4. /\ consumed_count' = Len(taken') + Cardinality(Serving') + Cardinality(Undoing')
            /\ Len(taken') + Cardinality(Serving') <= TOTAL_ITEMS
        BY <2>1, <2>2, <2>3, <3>1, <3>2, <3>3, TotalNat
      <3> QED
        BY <3>4 DEF ClaimsAreCovered, Serving, Undoing
    <2>4. CASE ~(consumed_count < TOTAL_ITEMS)
      <3>1. Undoing' = Undoing \cup {c} /\ c \notin Undoing /\ Serving' = Serving
        BY <1>3, <2>4 DEF At
      <3>2. Cardinality(Undoing') = Cardinality(Undoing) + 1
        BY <1>2, <3>1, Grow DEF FiniteCounts
      <3> HIDE DEF Serving, Undoing
      <3>3. Cardinality(Serving) \in Nat /\ Cardinality(Undoing) \in Nat
        BY <1>2 DEF FiniteCounts, Serving, Undoing
      <3>4. /\ consumed_count' = Len(taken') + Cardinality(Serving') + Cardinality(Undoing')
            /\ Len(taken') + Cardinality(Serving') <= TOTAL_ITEMS
        BY <2>1, <2>2, <3>1, <3>2, <3>3, TotalNat
      <3> QED
        BY <3>4 DEF ClaimsAreCovered, Serving, Undoing
    <2> QED
      BY <2>3, <2>4
  <1>7. WakeupForEveryItem'
    <2>1. c \notin AwakeConsumers
      BY <1>3 DEF AwakeConsumers, At
    <2>2. AwakeConsumers' = AwakeConsumers \/ AwakeConsumers' = AwakeConsumers \cup {c}
      BY <1>3 DEF Claim, AwakeConsumers, At
    <2>3. Cardinality(AwakeConsumers') >= Cardinality(AwakeConsumers)
      BY <1>2, <2>1, <2>2, Grow DEF FiniteCounts
    <2> QED
      BY <1>1, <1>2, <2>3 DEF Claim, WakeupForEveryItem, TypeOK, FiniteCounts
  <1>8. WakeupForEverySlot'
    BY <1>1, <1>4 DEF Claim, WakeupForEverySlot, AwakeProducers, At
  <1> QED
    BY <1>5, <1>6, <1>7, <1>8 DEF BufferInv

(* fetch_sub (line 94): the claim is given back. *)
LEMMA UndoInv ==
    ASSUME BufferInv, NEW c \in Consumers, Undo(c) PROVE BufferInv'
  <1> USE BufferAssumption
  <1>1. TypeOK /\ ClaimsAreCovered /\ WakeupForEveryItem /\ WakeupForEverySlot
    BY DEF BufferInv
  <1>2. FiniteCounts
    BY CountsAreFinite
  <1>3. /\ \A t \in Producers \cup Consumers : t # c => pc'[t] = pc[t]
        /\ pc[c] = "undo" /\ pc'[c] = "done"
    BY <1>1 DEF Undo, TypeOK
  <1>4. \A p \in Producers : pc'[p] = pc[p]
    BY <1>3
  <1> DEFINE Serving == At(Consumers, "consume")
             Undoing == At(Consumers, "undo")
  <1>5. Undoing' = Undoing \ {c} /\ c \in Undoing /\ Serving' = Serving
    BY <1>3 DEF At
  <1>6. Cardinality(Undoing') = Cardinality(Undoing) - 1
    BY <1>2, <1>5, Shrink DEF FiniteCounts
  <1>7. Cardinality(Serving) \in Nat /\ Cardinality(Undoing) \in Nat
    BY <1>2 DEF FiniteCounts
  <1>8. Cardinality(Undoing') \in Nat
    BY CountsFiniteNext DEF FiniteCounts
  <1>9. /\ consumed_count = Len(taken) + Cardinality(Serving) + Cardinality(Undoing)
        /\ Len(taken) + Cardinality(Serving) <= TOTAL_ITEMS
        /\ Len(taken) \in Nat
    BY <1>1 DEF ClaimsAreCovered, TypeOK
  <1>10. WakeupForEveryItem'
    BY <1>1, <1>5 DEF Undo, WakeupForEveryItem, AwakeConsumers
  <1>11. WakeupForEverySlot'
    BY <1>1, <1>4 DEF Undo, WakeupForEverySlot, AwakeProducers, At
  <1>12. /\ taken' = taken
         /\ consumed_count' = consumed_count - 1
    BY DEF Undo
  <1>13. ClaimsAreCovered' /\ consumed_count' \in Nat
    <2> HIDE DEF Serving, Undoing
    <2>1. /\ consumed_count' = Len(taken') + Cardinality(Serving') + Cardinality(Undoing')
          /\ Len(taken') + Cardinality(Serving') <= TOTAL_ITEMS
          /\ consumed_count' \in Nat
      BY <1>5, <1>6, <1>7, <1>8, <1>9, <1>12
    <2> QED
      BY <2>1 DEF ClaimsAreCovered, Serving, Undoing
  <1>14. TypeOK'
    BY <1>1, <1>13 DEF Undo, TypeOK, At
  <1> QED
    BY <1>10, <1>11, <1>13, <1>14 DEF BufferInv

(* consume that finds the buffer empty (line 51). *)
LEMMA ConsumeBlockInv ==
    ASSUME BufferInv, NEW c \in Consumers, ConsumeBlock(c) PROVE BufferInv'
  <1> USE BufferAssumption
  <1>1. TypeOK /\ ClaimsAreCovered /\ WakeupForEveryItem /\ WakeupForEverySlot
    BY DEF BufferInv
  <1>2. TypeOK'
    BY <1>1 DEF ConsumeBlock, TypeOK, At
  <1>3. ClaimsAreCovered' /\ WakeupForEverySlot'
    BY <1>1 DEF ConsumeBlock, ClaimsAreCovered, WakeupForEverySlot, AwakeProducers, At
  <1>4. WakeupForEveryItem'
    <2>1. Cardinality(AwakeConsumers') \in Nat
      BY CountsFiniteNext DEF FiniteCounts
    <2>2. Len(buffer_') = 0
      BY DEF ConsumeBlock
    <2> QED
      BY <2>1, <2>2 DEF WakeupForEveryItem
  <1> QED
    BY <1>2, <1>3, <1>4 DEF BufferInv

(* consume with an item (lines 52-55): one item less, one claim served, one
   sleeping producer less. *)
LEMMA ConsumeInv ==
    ASSUME BufferInv, NEW c \in Consumers, Consume(c) PROVE BufferInv'
  <1> USE BufferAssumption
  <1>1. TypeOK /\ ClaimsAreCovered /\ WakeupForEveryItem /\ WakeupForEverySlot
    BY DEF BufferInv
  <1>2. FiniteCounts
    BY CountsAreFinite
  <1>3. /\ buffer_ \in Seq(Item) /\ buffer_ # <<>> /\ taken \in Seq(Item)
        /\ Len(buffer_) \in Nat /\ Len(buffer_) <= BUFFER_SIZE
    BY <1>1 DEF Consume, TypeOK
  <1>4. /\ Head(buffer_) \in Item /\ buffer_' \in Seq(Item)
        /\ Len(buffer_') = Len(buffer_) - 1 /\ Len(buffer_') \in Nat
    BY <1>3 DEF Consume
  <1>5. taken' \in Seq(Item) /\ Len(taken') = Len(taken) + 1
    BY <1>3, <1>4 DEF Consume
  <1>6. /\ \A t \in Producers \cup Consumers : t # c => pc'[t] = pc[t]
        /\ pc[c] = "consume" /\ pc'[c] = "load"
        /\ c \notin not_empty_ /\ not_empty_' = not_empty_
    BY <1>1 DEF Consume, TypeOK
  <1>7. \A p \in Producers : pc'[p] = pc[p]
    BY <1>6
  <1>8. not_full_' \subseteq not_full_
    BY NotifyOne DEF Consume
  <1>9. TypeOK'
    <2>1. /\ not_full_' \subseteq At(Producers, "produce")'
          /\ not_empty_' \subseteq At(Consumers, "consume")'
      BY <1>1, <1>6, <1>7, <1>8 DEF TypeOK, At
    <2>2. pc' \in [Producers \cup Consumers ->
                     {"produce", "count", "load", "claim", "undo", "consume", "done"}]
          /\ \A d \in Consumers : pc'[d] \in {"load", "claim", "undo", "consume", "done"}
      BY <1>1 DEF Consume, TypeOK
    <2> QED
      BY <1>1, <1>3, <1>4, <1>5, <1>7, <2>1, <2>2 DEF Consume, TypeOK
  <1> DEFINE Serving == At(Consumers, "consume")
             Undoing == At(Consumers, "undo")
  <1>10. ClaimsAreCovered'
    <2>1. Serving' = Serving \ {c} /\ c \in Serving /\ Undoing' = Undoing
      BY <1>6 DEF At
    <2>2. Cardinality(Serving') = Cardinality(Serving) - 1
      BY <1>2, <2>1, Shrink DEF FiniteCounts
    <2>3. Cardinality(Serving) \in Nat /\ Cardinality(Undoing) \in Nat /\ Len(taken) \in Nat
      BY <1>2, <1>3 DEF FiniteCounts
    <2>4. /\ consumed_count = Len(taken) + Cardinality(Serving) + Cardinality(Undoing)
          /\ Len(taken) + Cardinality(Serving) <= TOTAL_ITEMS
          /\ consumed_count' = consumed_count
      BY <1>1 DEF ClaimsAreCovered, Consume
    <2> HIDE DEF Serving, Undoing
    <2>5. /\ consumed_count' = Len(taken') + Cardinality(Serving') + Cardinality(Undoing')
          /\ Len(taken') + Cardinality(Serving') <= TOTAL_ITEMS
      BY <1>5, <2>1, <2>2, <2>3, <2>4
    <2> QED
      BY <2>5 DEF ClaimsAreCovered, Serving, Undoing
  <1>11. WakeupForEveryItem'
    <2> SUFFICES ASSUME not_empty_' # {} PROVE Cardinality(AwakeConsumers') >= Len(buffer_')
      BY DEF WakeupForEveryItem
    <2>1. AwakeConsumers' = AwakeConsumers \ {c} /\ c \in AwakeConsumers
      BY <1>6 DEF AwakeConsumers, At
    <2>2. Cardinality(AwakeConsumers') = Cardinality(AwakeConsumers) - 1
      BY <1>2, <2>1, Shrink DEF FiniteCounts
    <2>3. Cardinality(AwakeConsumers) >= Len(buffer_)
      BY <1>1, <1>6 DEF WakeupForEveryItem
    <2> QED
      BY <1>2, <1>3, <1>4, <2>2, <2>3 DEF FiniteCounts
  <1>12. WakeupForEverySlot'
    <2> SUFFICES ASSUME not_full_' # {}
                 PROVE  Cardinality(AwakeProducers') >= BUFFER_SIZE - Len(buffer_')
      BY DEF WakeupForEverySlot
    <2>1. PICK w \in not_full_ : not_full_' = not_full_ \ {w}
      BY NotifyOne DEF Consume
    <2>2. AwakeProducers' = AwakeProducers \cup {w} /\ w \notin AwakeProducers
      BY <1>1, <1>7, <2>1 DEF AwakeProducers, At, TypeOK
    <2>3. Cardinality(AwakeProducers') = Cardinality(AwakeProducers) + 1
      BY <1>2, <2>2, Grow DEF FiniteCounts
    <2>4. Cardinality(AwakeProducers) >= BUFFER_SIZE - Len(buffer_)
      BY <1>1, <2>1 DEF WakeupForEverySlot
    <2> QED
      BY <1>2, <1>3, <1>4, <2>3, <2>4 DEF FiniteCounts
  <1> QED
    BY <1>9, <1>10, <1>11, <1>12 DEF BufferInv

(* A spurious wakeup only adds threads that are awake. *)
LEMMA SpuriousWakeupInv ==
    ASSUME BufferInv, NEW t \in Producers \cup Consumers, SpuriousWakeup(t) PROVE BufferInv'
  <1> USE BufferAssumption
  <1>1. TypeOK /\ ClaimsAreCovered /\ WakeupForEveryItem /\ WakeupForEverySlot
    BY DEF BufferInv
  <1>2. FiniteCounts /\ FiniteCounts'
    BY CountsAreFinite, CountsFiniteNext
  <1>3. TypeOK'
    BY <1>1 DEF SpuriousWakeup, TypeOK, At
  <1>4. ClaimsAreCovered'
    BY <1>1 DEF SpuriousWakeup, ClaimsAreCovered, At
  <1>5. WakeupForEveryItem'
    <2>1. AwakeConsumers \in SUBSET AwakeConsumers'
      BY DEF SpuriousWakeup, AwakeConsumers, At
    <2>2. Cardinality(AwakeConsumers) <= Cardinality(AwakeConsumers')
      BY <1>2, <2>1, FS_Subset DEF FiniteCounts
    <2> QED
      BY <1>1, <1>2, <2>2 DEF SpuriousWakeup, WakeupForEveryItem, TypeOK, FiniteCounts
  <1>6. WakeupForEverySlot'
    <2>1. AwakeProducers \in SUBSET AwakeProducers'
      BY DEF SpuriousWakeup, AwakeProducers, At
    <2>2. Cardinality(AwakeProducers) <= Cardinality(AwakeProducers')
      BY <1>2, <2>1, FS_Subset DEF FiniteCounts
    <2> QED
      BY <1>1, <1>2, <2>2 DEF SpuriousWakeup, WakeupForEverySlot, TypeOK, FiniteCounts
  <1> QED
    BY <1>3, <1>4, <1>5, <1>6 DEF BufferInv

(* Every step of a thread keeps the invariant. *)
LEMMA NextBufferInv == BufferInv /\ [Next]_vars => BufferInv'
  <1> SUFFICES ASSUME BufferInv, [Next]_vars PROVE BufferInv'
    OBVIOUS
  <1>1. CASE UNCHANGED vars
    BY <1>1 DEF BufferInv, vars, TypeOK, ClaimsAreCovered, WakeupForEveryItem,
                WakeupForEverySlot, AwakeConsumers, AwakeProducers, At
  <1>2. CASE \E p \in Producers : Producer(p)
    BY <1>2, ProduceBlockInv, ProduceInv, CountProducedInv DEF Producer
  <1>3. CASE \E c \in Consumers : Consumer(c)
    BY <1>3, LoadCountInv, ClaimInv, UndoInv, ConsumeBlockInv, ConsumeInv DEF Consumer
  <1>4. CASE \E t \in Producers \cup Consumers : SpuriousWakeup(t)
    BY <1>4, SpuriousWakeupInv
  <1> QED
    BY <1>1, <1>2, <1>3, <1>4 DEF Next, Joined

(* The invariant holds in every reachable state. *)
THEOREM BufferInvariant == SafeSpec => []BufferInv
  BY InitBufferInv, NextBufferInv, PTL DEF SafeSpec

(* The buffer never exceeds its capacity and only threads inside wait are
   blocked, for any number of threads. *)
THEOREM BufferTypeOK == SafeSpec => []TypeOK
  <1>1. BufferInv => TypeOK
    BY DEF BufferInv
  <1> QED
    BY <1>1, BufferInvariant, PTL

(* notify_one suffices on both condition variables: no item waits for a
   sleeping consumer and no slot for a sleeping producer. *)
THEOREM NotifyOneEnough == SafeSpec => []NotifyOneSuffices
  <1>1. BufferInv => NotifyOneSuffices
    BY DEF BufferInv, NotifyOneSuffices
  <1> QED
    BY <1>1, BufferInvariant, PTL

(* Consumers never wait for more items than the producers will make. *)
THEOREM ClaimsSound == SafeSpec => []ClaimsAreCovered
  <1>1. BufferInv => ClaimsAreCovered
    BY DEF BufferInv
  <1> QED
    BY <1>1, BufferInvariant, PTL

-----------------------------------------------------------------------------
(* Towards the asserts of lines 104-105: the items produced so far are as many
   as were taken or are in the buffer, and each of them is in one of the two;
   produced_count misses only the items about to be counted; a producer is
   done when it has made all of its items; and a consumer gives a claim back
   or leaves only when every item is taken or being served. *)
Produced == {item \in Item : item[2] <= produced[item[1]]}

Counting == At(Producers, "count")

ProducedCounted ==
    /\ Cardinality(Produced) = Len(taken) + Len(buffer_)
    /\ produced_count + Cardinality(Counting) = Cardinality(Produced)
    /\ \A p \in Producers : pc[p] = "done" => produced[p] = ITEMS_PER_PRODUCER

NoItemLost ==
    \A item \in Produced : \/ \E n \in 1 .. Len(taken) : taken[n] = item
                           \/ \E n \in 1 .. Len(buffer_) : buffer_[n] = item

NobodyLeavesEarly ==
    (\E c \in Consumers : pc[c] \in {"undo", "done"}) =>
        Len(taken) + Cardinality(At(Consumers, "consume")) = TOTAL_ITEMS

CountInv == ProducedCounted /\ NoItemLost /\ NobodyLeavesEarly

(* There are TOTAL_ITEMS items. *)
LEMMA ItemCount == IsFiniteSet(Item) /\ Cardinality(Item) = TOTAL_ITEMS
  <1>1. IsFiniteSet(Producers) /\ ITEMS_PER_PRODUCER \in Nat
    BY BufferAssumption
  <1>2. IsFiniteSet(1 .. ITEMS_PER_PRODUCER) /\ Cardinality(1 .. ITEMS_PER_PRODUCER) = ITEMS_PER_PRODUCER
    BY <1>1, FS_Interval
  <1> QED
    BY <1>1, <1>2, FS_Product DEF Item, TOTAL_ITEMS

(* The counted sets are finite, now and after a step. *)
LEMMA ProducedFinite ==
    /\ IsFiniteSet(Produced) /\ Cardinality(Produced) \in Nat
    /\ IsFiniteSet(Counting) /\ Cardinality(Counting) \in Nat
  <1>1. Produced \in SUBSET Item /\ Counting \in SUBSET Producers
    BY DEF Produced, Counting, At
  <1>2. IsFiniteSet(Producers) /\ IsFiniteSet(Item)
    BY BufferAssumption, ItemCount
  <1> QED
    BY <1>1, <1>2, FS_Subset, FS_CardinalityType

(* Nothing is produced at the start and no consumer has left. *)
LEMMA InitCount == Init => CountInv
  <1> SUFFICES ASSUME Init PROVE CountInv
    OBVIOUS
  <1> USE BufferAssumption
  <1>1. /\ \A p \in Producers : pc[p] = "produce" /\ produced[p] = 0
        /\ \A c \in Consumers : pc[c] = "load"
        /\ produced_count = 0 /\ Len(taken) = 0 /\ Len(buffer_) = 0
    BY DEF Init
  <1>2. Produced = {} /\ Counting = {}
    BY <1>1 DEF Produced, Counting, At, Item
  <1>3. Cardinality(Produced) = 0 /\ Cardinality(Counting) = 0
    BY <1>2, FS_EmptySet
  <1> QED
    BY <1>1, <1>2, <1>3 DEF CountInv, ProducedCounted, NoItemLost, NobodyLeavesEarly

(* produce adds the producer's next item to the buffer, to be counted. *)
LEMMA ProduceCount ==
    ASSUME TypeOK, CountInv, NEW p \in Producers, Produce(p) PROVE CountInv'
  <1> USE BufferAssumption
  <1> DEFINE new == <<p, produced[p] + 1>>
  <1>1. /\ produced[p] \in Nat /\ produced[p] + 1 \in 1 .. ITEMS_PER_PRODUCER
        /\ buffer_ \in Seq(Item) /\ Len(buffer_) \in Nat /\ Len(taken) \in Nat
        /\ produced_count \in Nat
    BY DEF Produce, TypeOK
  <1>2. new \in Item /\ new[1] = p /\ new[2] = produced[p] + 1
    BY <1>1 DEF Item
  <1>3. /\ buffer_' = Append(buffer_, new) /\ taken' = taken
        /\ produced_count' = produced_count
        /\ produced'[p] = produced[p] + 1
        /\ \A q \in Producers : q # p => produced'[q] = produced[q]
        /\ pc[p] = "produce" /\ pc'[p] = "count"
        /\ \A t \in Producers \cup Consumers : t # p => pc'[t] = pc[t]
    BY DEF Produce, TypeOK
  <1>4. /\ Len(buffer_') = Len(buffer_) + 1 /\ buffer_'[Len(buffer_) + 1] = new
        /\ \A n \in 1 .. Len(buffer_) : buffer_'[n] = buffer_[n]
    BY <1>1, <1>2, <1>3
  <1>5. Produced' = Produced \cup {new} /\ new \notin Produced
    <2>1. new \notin Produced /\ new \in Produced'
      BY <1>1, <1>2, <1>3 DEF Produced
    <2>2. ASSUME NEW item \in Item, item # new PROVE item \in Produced' <=> item \in Produced
      <3>1. item[1] \in Producers /\ item[2] \in Nat /\ item = <<item[1], item[2]>>
        BY DEF Item
      <3>2. CASE item[1] = p
        <4>1. item[2] # produced[p] + 1
          BY <2>2, <3>1, <3>2
        <4>2. (item[2] <= produced[p] + 1) <=> (item[2] <= produced[p])
          BY <1>1, <3>1, <4>1
        <4> QED
          BY <1>3, <3>2, <4>2 DEF Produced
      <3>3. CASE item[1] # p
        BY <1>3, <3>1, <3>3 DEF Produced
      <3> QED
        BY <3>2, <3>3
    <2>3. Produced \subseteq Item /\ Produced' \subseteq Item
      BY DEF Produced
    <2> HIDE DEF new
    <2> QED
      BY <2>1, <2>2, <2>3
  <1>6. Counting' = Counting \cup {p} /\ p \notin Counting
    BY <1>3 DEF Counting, At
  <1> HIDE DEF new
  <1>7. /\ Cardinality(Produced') = Cardinality(Produced) + 1
        /\ Cardinality(Counting') = Cardinality(Counting) + 1
    BY <1>5, <1>6, ProducedFinite, Grow
  <1>8. ProducedCounted'
    <2>1. /\ Cardinality(Produced) = Len(taken) + Len(buffer_)
          /\ produced_count + Cardinality(Counting) = Cardinality(Produced)
          /\ \A q \in Producers : pc[q] = "done" => produced[q] = ITEMS_PER_PRODUCER
      BY DEF CountInv, ProducedCounted
    <2>2. /\ Cardinality(Produced') = Len(taken') + Len(buffer_')
          /\ produced_count' + Cardinality(Counting') = Cardinality(Produced')
      <3>1. Cardinality(Produced) \in Nat /\ Cardinality(Counting) \in Nat
        BY ProducedFinite
      <3>2. Cardinality(Produced') = Len(taken') + Len(buffer_')
        BY <1>1, <1>3, <1>4, <1>7, <2>1, <3>1
      <3>3. produced_count' + Cardinality(Counting') = Cardinality(Produced')
        <4>1. produced_count' = produced_count /\ produced_count \in Nat
          BY <1>1, <1>3
        <4> QED
          BY <1>7, <2>1, <3>1, <4>1
      <3> QED
        BY <3>2, <3>3
    <2>3. \A q \in Producers : pc'[q] = "done" => produced'[q] = ITEMS_PER_PRODUCER
      BY <1>3, <2>1
    <2> QED
      BY <2>2, <2>3 DEF ProducedCounted
  <1>9. NoItemLost'
    <2> SUFFICES ASSUME NEW item \in Produced'
                 PROVE  \/ \E n \in 1 .. Len(taken') : taken'[n] = item
                        \/ \E n \in 1 .. Len(buffer_') : buffer_'[n] = item
      BY DEF NoItemLost
    <2>1. CASE item = new
      BY <1>1, <1>4, <2>1
    <2>2. CASE item \in Produced
      <3>1. \/ \E n \in 1 .. Len(taken) : taken[n] = item
            \/ \E n \in 1 .. Len(buffer_) : buffer_[n] = item
        BY <2>2 DEF CountInv, NoItemLost
      <3> QED
        BY <1>1, <1>3, <1>4, <3>1
    <2> QED
      BY <1>5, <2>1, <2>2
  <1>10. NobodyLeavesEarly'
    <2>1. \A c \in Consumers : pc'[c] = pc[c]
      BY <1>3
    <2>2. At(Consumers, "consume")' = At(Consumers, "consume")
      BY <2>1 DEF At
    <2> QED
      BY <1>3, <2>1, <2>2 DEF CountInv, NobodyLeavesEarly
  <1> QED
    BY <1>8, <1>9, <1>10 DEF CountInv

(* fetch_add on produced_count accounts for one item (line 82). *)
LEMMA CountProducedCount ==
    ASSUME TypeOK, CountInv, NEW p \in Producers, CountProduced(p) PROVE CountInv'
  <1> USE BufferAssumption
  <1>1. /\ pc[p] = "count" /\ produced_count' = produced_count + 1
        /\ pc'[p] = IF produced[p] < ITEMS_PER_PRODUCER THEN "produce" ELSE "done"
        /\ \A t \in Producers \cup Consumers : t # p => pc'[t] = pc[t]
        /\ produced[p] \in 0 .. ITEMS_PER_PRODUCER /\ produced_count \in Nat
        /\ UNCHANGED <<produced, taken, buffer_>>
    BY DEF CountProduced, TypeOK
  <1>2. Counting' = Counting \ {p} /\ p \in Counting
    BY <1>1 DEF Counting, At
  <1>3. Cardinality(Counting') = Cardinality(Counting) - 1
    BY <1>2, ProducedFinite, Shrink
  <1>4. Produced' = Produced
    BY <1>1 DEF Produced
  <1>5. ProducedCounted'
    <2>1. /\ Cardinality(Produced) = Len(taken) + Len(buffer_)
          /\ produced_count + Cardinality(Counting) = Cardinality(Produced)
          /\ \A q \in Producers : pc[q] = "done" => produced[q] = ITEMS_PER_PRODUCER
      BY DEF CountInv, ProducedCounted
    <2>2. produced_count' + Cardinality(Counting') = Cardinality(Produced')
      BY <1>1, <1>3, <1>4, <2>1, ProducedFinite
    <2>3. \A q \in Producers : pc'[q] = "done" => produced'[q] = ITEMS_PER_PRODUCER
      BY <1>1, <2>1
    <2> QED
      BY <1>1, <1>4, <2>1, <2>2, <2>3 DEF ProducedCounted
  <1>6. NoItemLost'
    BY <1>1, <1>4 DEF CountInv, NoItemLost
  <1>7. NobodyLeavesEarly'
    <2>1. \A c \in Consumers : pc'[c] = pc[c]
      BY <1>1
    <2>2. At(Consumers, "consume")' = At(Consumers, "consume")
      BY <2>1 DEF At
    <2> QED
      BY <1>1, <2>1, <2>2 DEF CountInv, NobodyLeavesEarly
  <1> QED
    BY <1>5, <1>6, <1>7 DEF CountInv

(* A consumer's step outside consume() moves no item; it reaches undo or done
   only if the count it saw, claims to be undone left out, was the total. *)
LEMMA LeaveCount ==
    ASSUME BufferInv, BufferInv', CountInv, NEW c \in Consumers,
           LoadCount(c) \/ Claim(c) \/ Undo(c)
    PROVE  CountInv'
  <1> USE BufferAssumption
  <1> DEFINE Serving == At(Consumers, "consume")
             Undoing == At(Consumers, "undo")
  <1>1. /\ \A t \in Producers \cup Consumers : t # c => pc'[t] = pc[t]
        /\ UNCHANGED <<buffer_, taken, produced, produced_count>>
        /\ pc[c] \in {"load", "claim", "undo"}
    BY DEF LoadCount, Claim, Undo, BufferInv, TypeOK
  <1>2. \A p \in Producers : pc'[p] = pc[p]
    BY <1>1
  <1>3. Produced' = Produced /\ Counting' = Counting
    BY <1>1, <1>2 DEF Produced, Counting, At
  <1>4. ProducedCounted' /\ NoItemLost'
    BY <1>1, <1>2, <1>3 DEF CountInv, ProducedCounted, NoItemLost
  <1>5. /\ consumed_count = Len(taken) + Cardinality(Serving) + Cardinality(Undoing)
        /\ Len(taken) + Cardinality(Serving) <= TOTAL_ITEMS
        /\ Len(taken') + Cardinality(Serving') <= TOTAL_ITEMS
        /\ Len(taken) \in Nat
    BY DEF BufferInv, ClaimsAreCovered, TypeOK
  <1>6. /\ IsFiniteSet(Serving) /\ Cardinality(Serving) \in Nat /\ Cardinality(Undoing) \in Nat
        /\ IsFiniteSet(Serving') /\ Cardinality(Serving') \in Nat
    BY CountsAreFinite, CountsFiniteNext DEF FiniteCounts
  <1>7. Cardinality(Serving') >= Cardinality(Serving)
    <2>1. Serving \in SUBSET Serving'
      BY <1>1 DEF At
    <2> QED
      BY <1>6, <2>1, FS_Subset
  <1>8. NobodyLeavesEarly'
    <2> SUFFICES ASSUME NEW d \in Consumers, pc'[d] \in {"undo", "done"}
                 PROVE  Len(taken') + Cardinality(Serving') = TOTAL_ITEMS
      BY DEF NobodyLeavesEarly
    <2>1. Len(taken) + Cardinality(Serving) = TOTAL_ITEMS
      <3>1. CASE \E e \in Consumers : pc[e] \in {"undo", "done"}
        BY <3>1 DEF CountInv, NobodyLeavesEarly
      <3>2. CASE ~\E e \in Consumers : pc[e] \in {"undo", "done"}
        <4>1. d = c
          BY <1>1, <3>2
        <4>2. consumed_count >= TOTAL_ITEMS
          <5>1. pc'[c] \in {"undo", "done"} /\ pc[c] # "undo"
            BY <3>2, <4>1
          <5> QED
            BY <1>5, <1>6, <5>1, TotalNat DEF LoadCount, Claim, Undo, BufferInv, TypeOK
        <4>3. Undoing = {}
          BY <3>2 DEF At
        <4>4. Cardinality(Undoing) = 0
          BY <4>3, FS_EmptySet
        <4> HIDE DEF Serving, Undoing
        <4> QED
          BY <1>5, <1>6, <4>2, <4>4, TotalNat
      <3> QED
        BY <3>1, <3>2
    <2> HIDE DEF Serving, Undoing
    <2> QED
      BY <1>1, <1>5, <1>6, <1>7, <2>1, TotalNat
  <1> QED
    BY <1>4, <1>8 DEF CountInv

(* consume moves the front item from the buffer to what was taken. *)
LEMMA ConsumeCount ==
    ASSUME TypeOK, CountInv, NEW c \in Consumers, Consume(c) PROVE CountInv'
  <1> USE BufferAssumption
  <1>1. /\ buffer_ \in Seq(Item) /\ buffer_ # <<>> /\ taken \in Seq(Item)
        /\ Len(buffer_) \in Nat /\ Len(taken) \in Nat
        /\ buffer_' = Tail(buffer_) /\ taken' = Append(taken, Head(buffer_))
        /\ produced' = produced /\ produced_count' = produced_count
    BY DEF Consume, TypeOK
  <1>2. /\ Len(buffer_) >= 1 /\ Len(buffer_') = Len(buffer_) - 1
        /\ \A n \in 1 .. Len(buffer_') : buffer_'[n] = buffer_[n + 1]
    BY <1>1
  <1>3. /\ Len(taken') = Len(taken) + 1 /\ taken'[Len(taken) + 1] = buffer_[1]
        /\ \A n \in 1 .. Len(taken) : taken'[n] = taken[n]
    BY <1>1
  <1>4. /\ pc[c] = "consume" /\ pc'[c] = "load"
        /\ \A t \in Producers \cup Consumers : t # c => pc'[t] = pc[t]
    BY DEF Consume, TypeOK
  <1>5. \A p \in Producers : pc'[p] = pc[p]
    BY <1>4
  <1>6. Produced' = Produced /\ Counting' = Counting
    BY <1>1, <1>5 DEF Produced, Counting, At
  <1>7. ProducedCounted'
    <2>1. /\ Cardinality(Produced) = Len(taken) + Len(buffer_)
          /\ produced_count + Cardinality(Counting) = Cardinality(Produced)
          /\ \A q \in Producers : pc[q] = "done" => produced[q] = ITEMS_PER_PRODUCER
      BY DEF CountInv, ProducedCounted
    <2>2. Cardinality(Produced') = Len(taken') + Len(buffer_')
      BY <1>1, <1>2, <1>3, <1>6, <2>1
    <2> QED
      BY <1>1, <1>5, <1>6, <2>1, <2>2 DEF ProducedCounted
  <1>8. NoItemLost'
    <2> SUFFICES ASSUME NEW item \in Produced
                 PROVE  \/ \E n \in 1 .. Len(taken') : taken'[n] = item
                        \/ \E n \in 1 .. Len(buffer_') : buffer_'[n] = item
      BY <1>6 DEF NoItemLost
    <2>1. CASE \E n \in 1 .. Len(taken) : taken[n] = item
      BY <1>1, <1>3, <2>1
    <2>2. CASE \E n \in 1 .. Len(buffer_) : buffer_[n] = item
      <3>1. PICK n \in 1 .. Len(buffer_) : buffer_[n] = item
        BY <2>2
      <3>2. CASE n = 1
        BY <1>1, <1>3, <3>1, <3>2
      <3>3. CASE n # 1
        <4>1. n - 1 \in 1 .. Len(buffer_') /\ (n - 1) + 1 = n
          BY <1>1, <1>2, <3>3
        <4> QED
          BY <1>2, <3>1, <4>1
      <3> QED
        BY <3>2, <3>3
    <2> QED
      BY <2>1, <2>2 DEF CountInv, NoItemLost
  <1>9. NobodyLeavesEarly'
    <2> DEFINE Serving == At(Consumers, "consume")
    <2> SUFFICES ASSUME NEW d \in Consumers, pc'[d] \in {"undo", "done"}
                 PROVE  Len(taken') + Cardinality(Serving') = TOTAL_ITEMS
      BY DEF NobodyLeavesEarly
    <2>1. pc[d] \in {"undo", "done"}
      BY <1>4
    <2>2. Len(taken) + Cardinality(Serving) = TOTAL_ITEMS
      BY <2>1 DEF CountInv, NobodyLeavesEarly
    <2>3. Serving' = Serving \ {c} /\ c \in Serving
      BY <1>4 DEF At
    <2>4. IsFiniteSet(Serving) /\ Cardinality(Serving) \in Nat
      BY CountsAreFinite DEF FiniteCounts
    <2>5. Cardinality(Serving') = Cardinality(Serving) - 1
      BY <2>3, <2>4, Shrink
    <2> HIDE DEF Serving
    <2> QED
      BY <1>1, <1>3, <2>2, <2>4, <2>5
  <1> QED
    BY <1>7, <1>8, <1>9 DEF CountInv

(* Every step of a thread keeps the counts. *)
LEMMA NextCount == BufferInv /\ BufferInv' /\ CountInv /\ [Next]_vars => CountInv'
  <1> SUFFICES ASSUME BufferInv, BufferInv', CountInv, [Next]_vars PROVE CountInv'
    OBVIOUS
  <1>1. TypeOK
    BY DEF BufferInv
  <1>2. ASSUME UNCHANGED <<buffer_, pc, produced, taken, produced_count>> PROVE CountInv'
    BY <1>2 DEF CountInv, ProducedCounted, NoItemLost, NobodyLeavesEarly, Produced, Counting, At
  <1>3. CASE UNCHANGED vars
    BY <1>2, <1>3 DEF vars
  <1>4. CASE \E p \in Producers : Producer(p)
    <2>1. PICK p \in Producers : Producer(p)
      BY <1>4
    <2>2. CASE ProduceBlock(p)
      BY <1>2, <2>2 DEF ProduceBlock
    <2> QED
      BY <1>1, <2>1, <2>2, ProduceCount, CountProducedCount DEF Producer
  <1>5. CASE \E c \in Consumers : Consumer(c)
    <2>1. PICK c \in Consumers : Consumer(c)
      BY <1>5
    <2>2. CASE ConsumeBlock(c)
      BY <1>2, <2>2 DEF ConsumeBlock
    <2> QED
      BY <1>1, <2>1, <2>2, LeaveCount, ConsumeCount DEF Consumer
  <1>6. CASE \E t \in Producers \cup Consumers : SpuriousWakeup(t)
    BY <1>2, <1>6 DEF SpuriousWakeup
  <1> QED
    BY <1>3, <1>4, <1>5, <1>6 DEF Next, Joined

(* The counts when every thread has ended. *)
LEMMA CountsAtEnd == BufferInv /\ CountInv => FinalCounts
  <1> SUFFICES ASSUME BufferInv, CountInv, AllDone
               PROVE  /\ produced_count = TOTAL_ITEMS /\ consumed_count = TOTAL_ITEMS
                      /\ buffer_ = <<>> /\ Len(taken) = TOTAL_ITEMS
                      /\ \A item \in Item : \E n \in 1 .. Len(taken) : taken[n] = item
    BY DEF FinalCounts
  <1> USE BufferAssumption
  <1> DEFINE Serving == At(Consumers, "consume")
             Undoing == At(Consumers, "undo")
  <1>1. /\ buffer_ \in Seq(Item) /\ Len(buffer_) \in Nat /\ Len(taken) \in Nat
        /\ produced_count \in Nat
    BY DEF BufferInv, TypeOK
  <1>2. Counting = {} /\ Serving = {} /\ Undoing = {}
    BY DEF AllDone, Counting, At
  <1>3. Cardinality(Counting) = 0 /\ Cardinality(Serving) = 0 /\ Cardinality(Undoing) = 0
    BY <1>2, FS_EmptySet
  <1>4. Produced = Item
    <2>1. \A p \in Producers : produced[p] = ITEMS_PER_PRODUCER
      BY DEF AllDone, CountInv, ProducedCounted
    <2> QED
      BY <2>1 DEF Produced, Item
  <1>5. Len(taken) + Cardinality(Serving) = TOTAL_ITEMS
    BY DEF AllDone, CountInv, NobodyLeavesEarly
  <1>6. consumed_count = Len(taken) + Cardinality(Serving) + Cardinality(Undoing)
    BY DEF BufferInv, ClaimsAreCovered
  <1>7. /\ Cardinality(Produced) = Len(taken) + Len(buffer_)
        /\ produced_count + Cardinality(Counting) = Cardinality(Produced)
    BY DEF CountInv, ProducedCounted
  <1> HIDE DEF Serving, Undoing
  <1>8. Len(taken) = TOTAL_ITEMS /\ consumed_count = TOTAL_ITEMS
    BY <1>1, <1>3, <1>5, <1>6
  <1>9. Len(buffer_) = 0 /\ produced_count = TOTAL_ITEMS
    BY <1>1, <1>3, <1>4, <1>7, <1>8, ItemCount, TotalNat
  <1>10. buffer_ = <<>>
    BY <1>1, <1>9
  <1>11. \A item \in Item : \E n \in 1 .. Len(taken) : taken[n] = item
    BY <1>4, <1>9 DEF CountInv, NoItemLost
  <1> QED
    BY <1>8, <1>9, <1>10, <1>11

(* The asserts of lines 104-105 hold, and each item was taken exactly once,
   for any number of threads, slots and items. *)
THEOREM AssertsHold == SafeSpec => []FinalCounts
  <1>1. SafeSpec => []CountInv
    BY BufferInvariant, InitCount, NextCount, PTL DEF SafeSpec
  <1> QED
    BY <1>1, BufferInvariant, CountsAtEnd, PTL
==============================================================================
