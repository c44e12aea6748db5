---------------------------- MODULE BoundedBuffer ----------------------------
(***************************************************************************)
(* src/src/concurrency/producer_consumer.cpp: the bounded buffer with its  *)
(* two condition variables, and main's producers and consumers.  Consumers *)
(* claim an item by counting it before they take it, and undo a claim that *)
(* exceeds the total.  Both notify_one calls run under the mutex, so each  *)
(* of produce and consume is one step once its wait is over.               *)
(***************************************************************************)
EXTENDS Naturals, Sequences, FiniteSets, CondVar

CONSTANTS Producers, Consumers, BUFFER_SIZE, ITEMS_PER_PRODUCER

ASSUME BufferAssumption ==
    /\ IsFiniteSet(Producers) /\ IsFiniteSet(Consumers)
    /\ Producers \cap Consumers = {} /\ Consumers # {}
    /\ BUFFER_SIZE \in Nat \ {0} /\ ITEMS_PER_PRODUCER \in Nat \ {0}

TOTAL_ITEMS == Cardinality(Producers) * ITEMS_PER_PRODUCER

VARIABLES
    buffer_,
    not_full_, not_empty_,   \* the threads blocked on each condition variable
    pc,
    produced,                \* items each producer has put into the buffer
    taken,                   \* the items taken out of the buffer, in order
    produced_count, consumed_count

vars == <<buffer_, not_full_, not_empty_, pc, produced, taken,
          produced_count, consumed_count>>

Item == Producers \X (1 .. ITEMS_PER_PRODUCER)

Init ==
    /\ buffer_ = <<>> /\ not_full_ = {} /\ not_empty_ = {}
    /\ pc = [t \in Producers \cup Consumers |->
                IF t \in Producers THEN "produce" ELSE "load"]
    /\ produced = [p \in Producers |-> 0]
    /\ taken = <<>>
    /\ produced_count = 0 /\ consumed_count = 0

-----------------------------------------------------------------------------
(* produce: block while the buffer is full, else push and notify. *)
ProduceBlock(p) ==
    /\ pc[p] = "produce" /\ p \notin not_full_
    /\ Len(buffer_) >= BUFFER_SIZE
    /\ not_full_' = not_full_ \cup {p}
    /\ UNCHANGED <<buffer_, not_empty_, pc, produced, taken, produced_count, consumed_count>>

ProduceNotifyFirst(p) ==
    /\ pc[p] = "produce" /\ p \notin not_full_
    /\ Len(buffer_) < BUFFER_SIZE
    /\ buffer_' = Append(buffer_, <<p, produced[p] + 1>>)
    /\ not_empty_' \in IF buffer_ = <<>> THEN notify_one(not_empty_) ELSE {not_empty_}
    /\ produced' = [produced EXCEPT ![p] = @ + 1]
    /\ pc' = [pc EXCEPT ![p] = "count"]
    /\ UNCHANGED <<not_full_, taken, produced_count, consumed_count>>

Produce(p) ==
    /\ pc[p] = "produce" /\ p \notin not_full_
    /\ Len(buffer_) < BUFFER_SIZE
    /\ buffer_' = Append(buffer_, <<p, produced[p] + 1>>)
    /\ not_empty_' \in notify_one(not_empty_)
    /\ produced' = [produced EXCEPT ![p] = @ + 1]
    /\ pc' = [pc EXCEPT ![p] = "count"]
    /\ UNCHANGED <<not_full_, taken, produced_count, consumed_count>>

(* main counts the item and goes on until all of its items are produced. *)
CountProduced(p) ==
    /\ pc[p] = "count"
    /\ produced_count' = produced_count + 1
    /\ pc' = [pc EXCEPT ![p] =
                 IF produced[p] < ITEMS_PER_PRODUCER THEN "produce" ELSE "done"]
    /\ UNCHANGED <<buffer_, not_full_, not_empty_, produced, taken, consumed_count>>

(* The consumer's loop test.  The load is relaxed: it may miss increments of
   other threads and still find less than the total. *)
LoadCount(c) ==
    /\ pc[c] = "load"
    /\ \/ pc' = [pc EXCEPT ![c] = "claim"]
       \/ consumed_count >= TOTAL_ITEMS /\ pc' = [pc EXCEPT ![c] = "done"]
    /\ UNCHANGED <<buffer_, not_full_, not_empty_, produced, taken, produced_count, consumed_count>>

ClaimOneMore(c) ==
    /\ pc[c] = "claim"
    /\ consumed_count' = consumed_count + 1
    /\ pc' = [pc EXCEPT ![c] = IF consumed_count <= TOTAL_ITEMS THEN "consume" ELSE "undo"]
    /\ UNCHANGED <<buffer_, not_full_, not_empty_, produced, taken, produced_count>>

Claim(c) ==
    /\ pc[c] = "claim"
    /\ consumed_count' = consumed_count + 1
    /\ pc' = [pc EXCEPT ![c] = IF consumed_count < TOTAL_ITEMS THEN "consume" ELSE "undo"]
    /\ UNCHANGED <<buffer_, not_full_, not_empty_, produced, taken, produced_count>>

UndoForgotten(c) ==
    /\ pc[c] = "undo"
    /\ pc' = [pc EXCEPT ![c] = "done"]
    /\ UNCHANGED <<buffer_, not_full_, not_empty_, produced, taken, produced_count, consumed_count>>

Undo(c) ==
    /\ pc[c] = "undo"
    /\ consumed_count' = consumed_count - 1
    /\ pc' = [pc EXCEPT ![c] = "done"]
    /\ UNCHANGED <<buffer_, not_full_, not_empty_, produced, taken, produced_count>>

ConsumeBlock(c) ==
    /\ pc[c] = "consume" /\ c \notin not_empty_
    /\ buffer_ = <<>>
    /\ not_empty_' = not_empty_ \cup {c}
    /\ UNCHANGED <<buffer_, not_full_, pc, produced, taken, produced_count, consumed_count>>

ConsumeSilently(c) ==
    /\ pc[c] = "consume" /\ c \notin not_empty_
    /\ buffer_ # <<>>
    /\ taken' = Append(taken, Head(buffer_))
    /\ buffer_' = Tail(buffer_)
    /\ not_full_' \in IF Len(buffer_) = BUFFER_SIZE THEN notify_one(not_full_) ELSE {not_full_}
    /\ pc' = [pc EXCEPT ![c] = "load"]
    /\ UNCHANGED <<not_empty_, produced, produced_count, consumed_count>>

ConsumeWrongCondition(c) ==
    /\ pc[c] = "consume" /\ c \notin not_empty_
    /\ buffer_ # <<>>
    /\ taken' = Append(taken, Head(buffer_))
    /\ buffer_' = Tail(buffer_)
    /\ not_empty_' \in notify_one(not_empty_)
    /\ pc' = [pc EXCEPT ![c] = "load"]
    /\ UNCHANGED <<not_full_, produced, produced_count, consumed_count>>

Consume(c) ==
    /\ pc[c] = "consume" /\ c \notin not_empty_
    /\ buffer_ # <<>>
    /\ taken' = Append(taken, Head(buffer_))
    /\ buffer_' = Tail(buffer_)
    /\ not_full_' \in notify_one(not_full_)
    /\ pc' = [pc EXCEPT ![c] = "load"]
    /\ UNCHANGED <<not_empty_, produced, produced_count, consumed_count>>

SpuriousWakeup(t) ==
    /\ t \in not_full_ \cup not_empty_
    /\ not_full_' = not_full_ \ {t}
    /\ not_empty_' = not_empty_ \ {t}
    /\ UNCHANGED <<buffer_, pc, produced, taken, produced_count, consumed_count>>

Producer(p) == ProduceBlock(p) \/ Produce(p) \/ CountProduced(p)

Consumer(c) ==
    LoadCount(c) \/ Claim(c) \/ Undo(c) \/ ConsumeBlock(c) \/ Consume(c)

AllDone == \A t \in Producers \cup Consumers : pc[t] = "done"

Joined == AllDone /\ UNCHANGED vars

Next ==
    \/ \E p \in Producers : Producer(p)
    \/ \E c \in Consumers : Consumer(c)
    \/ \E t \in Producers \cup Consumers : SpuriousWakeup(t)
    \/ Joined

(* Every thread that is not blocked keeps running; wakeups come only from
   the code's notify_one. *)
Fairness ==
    /\ \A p \in Producers : WF_vars(Producer(p))
    /\ \A c \in Consumers : WF_vars(Consumer(c))

SafeSpec == Init /\ [][Next]_vars

Spec == SafeSpec /\ Fairness

-----------------------------------------------------------------------------
(* Threads by what they are doing. *)
At(threads, label) == {t \in threads : pc[t] = label}
AwakeConsumers == At(Consumers, "consume") \ not_empty_
AwakeProducers == At(Producers, "produce") \ not_full_

(* The buffer stays within its capacity, counters within the number of items
   plus the claims to be undone, and only threads inside wait are blocked. *)
TypeOK ==
    /\ buffer_ \in Seq(Item) /\ Len(buffer_) <= BUFFER_SIZE
    /\ pc \in [Producers \cup Consumers ->
                  {"produce", "count", "load", "claim", "undo", "consume", "done"}]
    /\ \A p \in Producers : pc[p] \in {"produce", "count", "done"}
    /\ \A c \in Consumers : pc[c] \in {"load", "claim", "undo", "consume", "done"}
    /\ not_full_ \subseteq At(Producers, "produce")
    /\ not_empty_ \subseteq At(Consumers, "consume")
    /\ produced \in [Producers -> 0 .. ITEMS_PER_PRODUCER]
    /\ \A p \in Producers : pc[p] = "produce" => produced[p] < ITEMS_PER_PRODUCER
    /\ taken \in Seq(Item)
    /\ produced_count \in Nat /\ consumed_count \in Nat

(* While a consumer is blocked on not_empty_ there is an awake consumer inside
   consume() for every item in the buffer; while a producer is blocked on
   not_full_, every free slot has an awake producer inside produce(). *)
WakeupForEveryItem ==
    not_empty_ # {} => Cardinality(AwakeConsumers) >= Len(buffer_)

WakeupForEverySlot ==
    not_full_ # {} => Cardinality(AwakeProducers) >= BUFFER_SIZE - Len(buffer_)

(* notify_one suffices on both condition variables (lines 46 and 54): no item
   waits for a consumer that sleeps and no slot for a producer that sleeps. *)
NotifyOneSuffices == WakeupForEveryItem /\ WakeupForEverySlot

(* The claim protocol of lines 90-96: the count is the items taken plus the
   claims being served plus the claims to be undone, and the claims served
   never exceed the items that will ever be produced.  So no consumer waits in
   consume() for an item that never comes. *)
ClaimsAreCovered ==
    LET serving == Len(taken) + Cardinality(At(Consumers, "consume"))
    IN  /\ consumed_count = serving + Cardinality(At(Consumers, "undo"))
        /\ serving <= TOTAL_ITEMS

(* The asserts of lines 104-105, and what they are meant to show: all items
   were produced and each was taken once. *)
FinalCounts ==
    AllDone =>
        /\ produced_count = TOTAL_ITEMS /\ consumed_count = TOTAL_ITEMS
        /\ buffer_ = <<>> /\ Len(taken) = TOTAL_ITEMS
        /\ \A item \in Item : \E n \in 1 .. Len(taken) : taken[n] = item

(* No deadlock and no thread left behind: main's joins return. *)
Termination == <>AllDone
==============================================================================
