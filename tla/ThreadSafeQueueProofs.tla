----------------------- MODULE ThreadSafeQueueProofs -----------------------
(***************************************************************************)
(* The wakeup and shutdown protocol of                                     *)
(* src/src/stl_like/thread_safe_queue.cpp, for every number of threads and *)
(* items, with close() at any moment.                                      *)
(***************************************************************************)
EXTENDS ThreadSafeQueue, TLAPS

(* closed_ is set exactly when close() has passed its locked scope; without
   it CloseDrains would not survive a consumer that blocks. *)
CloseInv == closed_ <=> mainPc # "join"

QueueInv == TypeOK /\ CloseInv /\ NoLostWakeup /\ CloseDrains

(* Nobody is blocked, nothing is queued and the queue is open. *)
LEMMA InitQueueInv == Init => QueueInv
  <1> SUFFICES ASSUME Init PROVE QueueInv
    OBVIOUS
  <1> USE ThreadsAssumption DEF Init
  <1>1. TypeOK
    <2>1. queue_ \in Seq(Item) /\ got \in [Takers -> Seq(Item)]
      OBVIOUS
    <2>2. pc \in [Producers \cup Consumers -> {"push", "notify", "pop", "done"}]
      OBVIOUS
    <2>3. \A p \in Producers : pc[p] # "pop"
      OBVIOUS
    <2>4. \A c \in Consumers : pc[c] \in {"pop", "done"}
      OBVIOUS
    <2>5. pushed \in [Producers -> 0 .. NumItems]
      OBVIOUS
    <2> QED
      BY <2>1, <2>2, <2>3, <2>4, <2>5 DEF TypeOK
  <1>2. NoLostWakeup /\ CloseInv /\ CloseDrains
    BY DEF NoLostWakeup, CloseInv, CloseDrains
  <1> QED
    BY <1>1, <1>2 DEF QueueInv

(* What notify_one leaves: nobody is blocked, or one blocked thread less. *)
LEMMA NotifyOne ==
    ASSUME NEW S, NEW T \in notify_one(S)
    PROVE  (S = {} /\ T = {}) \/ (\E w \in S : T = S \ {w})
  BY DEF notify_one

(* The front item can be taken by any thread that finds one. *)
LEMMA TakeFrontTypes ==
    ASSUME TypeOK, NEW c \in Takers, TakeFront(c)
    PROVE  /\ queue_ # <<>> /\ queue_' \in Seq(Item)
           /\ got' \in [Takers -> Seq(Item)]
  <1>1. queue_ \in Seq(Item) /\ queue_ # <<>> /\ got[c] \in Seq(Item)
    BY DEF TypeOK, TakeFront
  <1>2. Head(queue_) \in Item /\ Tail(queue_) \in Seq(Item)
    BY <1>1
  <1>3. Append(got[c], Head(queue_)) \in Seq(Item)
    BY <1>1, <1>2
  <1> QED
    BY <1>1, <1>2, <1>3 DEF TypeOK, TakeFront

(* push and the end of a producer (lines 40-47). *)
LEMMA ProducerInv ==
    ASSUME QueueInv, NEW p \in Producers, Producer(p) PROVE QueueInv'
  <1> USE ThreadsAssumption
  <1>1. TypeOK /\ CloseInv /\ NoLostWakeup /\ CloseDrains
    BY DEF QueueInv
  <1>2. p \notin Consumers
    OBVIOUS
  <1>3. CASE Push(p)
    <2>1. pushed[p] \in Nat /\ pushed[p] + 1 \in 1 .. NumItems
      BY <1>1, <1>3 DEF Push, TypeOK
    <2>2. <<p, pushed[p] + 1>> \in Item
      BY <2>1 DEF Item
    <2>3. queue_' \in Seq(Item)
      BY <1>1, <1>3, <2>2 DEF Push, TypeOK
    <2>4. pushed' \in [Producers -> 0 .. NumItems]
      BY <1>1, <1>3, <2>1 DEF Push, TypeOK
    <2>5. TypeOK'
      BY <1>1, <1>2, <1>3, <2>3, <2>4 DEF Push, TypeOK
    <2>6. CloseInv'
      BY <1>1, <1>3 DEF Push, CloseInv
    <2>7. NoLostWakeup'
      <3>1. pc'[p] = "notify"
        BY <1>1, <1>3 DEF Push, TypeOK
      <3> QED
        BY <3>1 DEF NoLostWakeup
    <2>8. CloseDrains'
      BY <1>1, <1>2, <1>3 DEF Push, TypeOK, CloseDrains
    <2> QED
      BY <2>5, <2>6, <2>7, <2>8 DEF QueueInv
  <1>4. CASE PushThrows(p) \/ ProducerExit(p)
    <2>1. /\ pc[p] = "push" /\ pc' = [pc EXCEPT ![p] = "done"]
          /\ UNCHANGED <<queue_, closed_, cv_, pushed, got, mainPc>>
      BY <1>4 DEF PushThrows, ProducerExit
    <2>2. TypeOK'
      BY <1>1, <1>2, <2>1 DEF TypeOK
    <2>3. CloseInv'
      BY <1>1, <2>1 DEF CloseInv
    <2>4. NoLostWakeup' /\ CloseDrains'
      BY <1>1, <1>2, <2>1 DEF TypeOK, NoLostWakeup, CloseDrains
    <2> QED
      BY <2>2, <2>3, <2>4 DEF QueueInv
  <1>5. CASE PushNotify(p)
    <2>1. (cv_ = {} /\ cv_' = {}) \/ (\E w \in cv_ : cv_' = cv_ \ {w})
      BY <1>5, NotifyOne DEF PushNotify
    <2>2. TypeOK'
      BY <1>1, <1>2, <1>5, <2>1 DEF PushNotify, TypeOK
    <2>3. CloseInv'
      BY <1>1, <1>5 DEF PushNotify, CloseInv
    <2>4. CloseDrains'
      BY <1>1, <1>2, <1>5, <2>1 DEF PushNotify, TypeOK, CloseDrains
    <2>5. NoLostWakeup'
      <3> SUFFICES ASSUME cv_' # {} PROVE \E c \in Consumers \ cv_' : pc'[c] = "pop"
        BY DEF NoLostWakeup
      <3>1. PICK w \in cv_ : cv_' = cv_ \ {w}
        BY <2>1
      <3>2. w \in Consumers \ cv_' /\ pc'[w] = "pop"
        BY <1>1, <1>2, <1>5, <3>1 DEF PushNotify, TypeOK
      <3> QED
        BY <3>2
    <2> QED
      BY <2>2, <2>3, <2>4, <2>5 DEF QueueInv
  <1> QED
    BY <1>3, <1>4, <1>5 DEF Producer

(* pop (lines 50-57) and a spurious wakeup. *)
LEMMA ConsumerInv ==
    ASSUME QueueInv, NEW c \in Consumers, Consumer(c) \/ SpuriousWakeup(c) PROVE QueueInv'
  <1> USE ThreadsAssumption
  <1>1. TypeOK /\ CloseInv /\ NoLostWakeup /\ CloseDrains
    BY DEF QueueInv
  <1>2. c \notin Producers /\ c \in Takers
    BY DEF Takers
  <1>3. CASE PopBlock(c)
    <2>1. TypeOK'
      BY <1>1, <1>3 DEF PopBlock, TypeOK
    <2>2. CloseInv' /\ CloseDrains' /\ NoLostWakeup'
      BY <1>1, <1>3 DEF PopBlock, TypeOK, CloseInv, CloseDrains, NoLostWakeup
    <2> QED
      BY <2>1, <2>2 DEF QueueInv
  <1>4. CASE PopNullopt(c)
    <2>1. TypeOK'
      BY <1>1, <1>2, <1>4 DEF PopNullopt, TypeOK
    <2>2. CloseInv' /\ CloseDrains' /\ NoLostWakeup'
      BY <1>1, <1>4 DEF PopNullopt, CloseInv, CloseDrains, NoLostWakeup
    <2> QED
      BY <2>1, <2>2 DEF QueueInv
  <1>5. CASE PopItem(c)
    <2>1. queue_ # <<>> /\ queue_' \in Seq(Item) /\ got' \in [Takers -> Seq(Item)]
      BY <1>1, <1>2, <1>5, TakeFrontTypes DEF PopItem
    <2>2. TypeOK'
      BY <1>1, <1>5, <2>1 DEF PopItem, TypeOK
    <2>3. CloseInv' /\ NoLostWakeup'
      BY <1>1, <1>5 DEF PopItem, CloseInv, NoLostWakeup
    <2>4. CloseDrains'
      BY <1>1, <1>5, <2>1 DEF PopItem, CloseDrains
    <2> QED
      BY <2>2, <2>3, <2>4 DEF QueueInv
  <1>6. CASE SpuriousWakeup(c)
    <2>1. TypeOK'
      BY <1>1, <1>6 DEF SpuriousWakeup, TypeOK
    <2>2. CloseInv' /\ CloseDrains'
      BY <1>1, <1>6 DEF SpuriousWakeup, CloseInv, CloseDrains
    <2>3. NoLostWakeup'
      BY <1>1, <1>6 DEF SpuriousWakeup, TypeOK, NoLostWakeup
    <2> QED
      BY <2>1, <2>2, <2>3 DEF QueueInv
  <1> QED
    BY <1>3, <1>4, <1>5, <1>6 DEF Consumer

(* try_pop (lines 60-66) takes an item and wakes or blocks nobody. *)
LEMMA TryPopInv ==
    ASSUME QueueInv, NEW c \in Pollers, TryPop(c) PROVE QueueInv'
  <1>1. TypeOK /\ CloseInv /\ NoLostWakeup /\ CloseDrains
    BY DEF QueueInv
  <1>2. queue_ # <<>> /\ queue_' \in Seq(Item) /\ got' \in [Takers -> Seq(Item)]
    BY <1>1, TakeFrontTypes DEF TryPop, Takers
  <1>3. TypeOK'
    BY <1>1, <1>2 DEF TryPop, TypeOK
  <1>4. CloseInv' /\ NoLostWakeup'
    BY <1>1, <1>2 DEF TryPop, CloseInv, NoLostWakeup
  <1>5. CloseDrains'
    BY <1>1, <1>2 DEF TryPop, CloseDrains
  <1> QED
    BY <1>3, <1>4, <1>5 DEF QueueInv

(* close (lines 68-74), by main or by a client that does not wait. *)
LEMMA MainInv ==
    ASSUME QueueInv, EarlyClose \/ Main PROVE QueueInv'
  <1>1. TypeOK /\ CloseInv /\ NoLostWakeup /\ CloseDrains
    BY DEF QueueInv
  <1>2. CASE EarlyClose
    <2>1. TypeOK'
      BY <1>1, <1>2 DEF EarlyClose, TypeOK
    <2>2. CloseInv' /\ CloseDrains' /\ NoLostWakeup'
      BY <1>1, <1>2 DEF EarlyClose, CloseInv, CloseDrains, NoLostWakeup
    <2> QED
      BY <2>1, <2>2 DEF QueueInv
  <1>3. CASE CloseNotify
    <2>1. cv_' = {}
      BY <1>3 DEF CloseNotify, notify_all
    <2>2. TypeOK'
      BY <1>1, <1>3, <2>1 DEF CloseNotify, TypeOK
    <2>3. CloseInv' /\ CloseDrains' /\ NoLostWakeup'
      BY <1>1, <1>3, <2>1 DEF CloseNotify, CloseInv, CloseDrains, NoLostWakeup
    <2> QED
      BY <2>2, <2>3 DEF QueueInv
  <1> QED
    BY <1>2, <1>3 DEF Main, Close

(* Every step of a thread keeps the invariant. *)
LEMMA NextQueueInv == QueueInv /\ [Next]_vars => QueueInv'
  <1> SUFFICES ASSUME QueueInv, [Next]_vars PROVE QueueInv'
    OBVIOUS
  <1>1. CASE UNCHANGED vars
    BY <1>1 DEF QueueInv, vars, TypeOK, CloseInv, NoLostWakeup, CloseDrains
  <1>2. CASE \E p \in Producers : Producer(p)
    BY <1>2, ProducerInv
  <1>3. CASE \E c \in Consumers : Consumer(c) \/ SpuriousWakeup(c)
    BY <1>3, ConsumerInv
  <1>4. CASE \E c \in Pollers : TryPop(c)
    BY <1>4, TryPopInv
  <1>5. CASE EarlyClose \/ Main
    BY <1>5, MainInv
  <1> QED
    BY <1>1, <1>2, <1>3, <1>4, <1>5 DEF Next, Joined

(* The invariant holds in every reachable state. *)
THEOREM QueueInvariant == SafeSpec => []QueueInv
  BY InitQueueInv, NextQueueInv, PTL DEF SafeSpec

(* notify_one after the unlock loses no wakeup, for any number of threads. *)
THEOREM WakeupsNotLost == SafeSpec => []NoLostWakeup
  <1>1. QueueInv => NoLostWakeup
    BY DEF QueueInv
  <1> QED
    BY <1>1, QueueInvariant, PTL

(* close() releases every consumer, also one that was about to block, and
   consumers drain the queue before they leave, whenever it is closed. *)
THEOREM CloseIsSound == SafeSpec => []CloseDrains
  <1>1. QueueInv => CloseDrains
    BY DEF QueueInv
  <1> QED
    BY <1>1, QueueInvariant, PTL

-----------------------------------------------------------------------------
(* Where the items are, position by position.  No accepted item is anywhere
   but once, numbers of one producer rise along the queue, along what a thread
   has taken, and from what was taken to what is still queued. *)
Before(a, b) == a[1] = b[1] => a[2] < b[2]

Accepted(item, counts) == item[2] <= counts[item[1]]

QueueOrdered ==
    /\ \A m \in 1 .. Len(queue_) : Accepted(queue_[m], pushed)
    /\ \A m, n \in 1 .. Len(queue_) : m < n => Before(queue_[m], queue_[n])

GotOrdered ==
    \A c \in Takers :
        /\ \A m \in 1 .. Len(got[c]) : Accepted(got[c][m], pushed)
        /\ \A m, n \in 1 .. Len(got[c]) : m < n => Before(got[c][m], got[c][n])

GotBeforeQueue ==
    \A c \in Takers : \A m \in 1 .. Len(got[c]), n \in 1 .. Len(queue_) :
        Before(got[c][m], queue_[n])

TakenByOne ==
    \A c, d \in Takers : c # d =>
        \A m \in 1 .. Len(got[c]), n \in 1 .. Len(got[d]) : got[c][m] # got[d][n]

NothingLost ==
    \A item \in Item : Accepted(item, pushed) =>
        \/ \E m \in 1 .. Len(queue_) : queue_[m] = item
        \/ \E c \in Takers : \E m \in 1 .. Len(got[c]) : got[c][m] = item

FlowInv == QueueOrdered /\ GotOrdered /\ GotBeforeQueue /\ TakenByOne /\ NothingLost

(* Items are pairs of a producer and a positive number. *)
LEMMA ItemFields ==
    ASSUME NEW item \in Item
    PROVE  item[1] \in Producers /\ item[2] \in 1 .. NumItems /\ item[2] \in Nat
  BY ThreadsAssumption DEF Item

(* Queued and taken elements are items. *)
LEMMA PlacesTyped ==
    ASSUME TypeOK
    PROVE  /\ Len(queue_) \in Nat /\ \A m \in 1 .. Len(queue_) : queue_[m] \in Item
           /\ \A c \in Takers : /\ Len(got[c]) \in Nat
                                /\ \A m \in 1 .. Len(got[c]) : got[c][m] \in Item
  BY DEF TypeOK

(* Nothing is queued or taken before the first push. *)
LEMMA InitFlow == Init => FlowInv
  <1> SUFFICES ASSUME Init PROVE FlowInv
    OBVIOUS
  <1>1. Len(queue_) = 0 /\ \A c \in Takers : Len(got[c]) = 0
    BY DEF Init
  <1>2. \A item \in Item : ~Accepted(item, pushed)
    <2> SUFFICES ASSUME NEW item \in Item PROVE ~Accepted(item, pushed)
      OBVIOUS
    <2>1. item[1] \in Producers /\ item[2] \in 1 .. NumItems
      BY ItemFields
    <2>2. pushed[item[1]] = 0
      BY <2>1 DEF Init
    <2> QED
      BY <2>1, <2>2 DEF Accepted
  <1> QED
    BY <1>1, <1>2 DEF FlowInv, QueueOrdered, GotOrdered, GotBeforeQueue, TakenByOne, NothingLost

(* push appends the producer's next item: it comes after all of that
   producer's items, wherever they are. *)
LEMMA PushFlow ==
    ASSUME TypeOK, FlowInv, NEW p \in Producers, Push(p)
    PROVE  FlowInv'
  <1> DEFINE new == <<p, pushed[p] + 1>>
  <1>1. /\ pushed[p] \in Nat /\ pushed[p] + 1 \in 1 .. NumItems
        /\ \A q \in Producers : pushed[q] \in Nat
    BY ThreadsAssumption DEF Push, TypeOK
  <1>2. new \in Item /\ new[1] = p /\ new[2] = pushed[p] + 1
    BY <1>1 DEF Item
  <1>3. /\ queue_' = Append(queue_, new) /\ got' = got
        /\ pushed' = [pushed EXCEPT ![p] = pushed[p] + 1]
    BY DEF Push
  <1> HIDE DEF new
  <1>4. /\ Len(queue_) \in Nat /\ \A m \in 1 .. Len(queue_) : queue_[m] \in Item
        /\ \A c \in Takers : /\ Len(got[c]) \in Nat
                             /\ \A m \in 1 .. Len(got[c]) : got[c][m] \in Item
    BY PlacesTyped
  <1>5. /\ Len(queue_') = Len(queue_) + 1
        /\ \A m \in 1 .. Len(queue_) : queue_'[m] = queue_[m]
        /\ queue_'[Len(queue_) + 1] = new
    BY <1>2, <1>3 DEF TypeOK
  <1>6. ASSUME NEW item \in Item, Accepted(item, pushed)
        PROVE  Accepted(item, pushed') /\ Before(item, new)
    <2>1. item[1] \in Producers /\ item[2] \in Nat /\ item[2] <= pushed[item[1]]
      BY <1>6, ItemFields DEF Accepted
    <2>2. pushed'[item[1]] \in {pushed[item[1]], pushed[item[1]] + 1}
      BY <1>3, <2>1 DEF TypeOK
    <2>3. Accepted(item, pushed')
      BY <1>1, <2>1, <2>2 DEF Accepted
    <2>4. Before(item, new)
      BY <1>1, <1>2, <2>1 DEF Before
    <2> QED
      BY <2>3, <2>4
  <1>7. Accepted(new, pushed')
    <2>1. pushed'[p] = pushed[p] + 1
      BY <1>3 DEF TypeOK
    <2> QED
      BY <1>1, <1>2, <2>1 DEF Accepted
  <1>8. \A m \in 1 .. Len(queue_') : m \in 1 .. Len(queue_) \/ m = Len(queue_) + 1
    BY <1>4, <1>5
  <1>9. QueueOrdered'
    <2>1. \A m \in 1 .. Len(queue_) : Accepted(queue_[m], pushed') /\ Before(queue_[m], new)
      BY <1>4, <1>6 DEF FlowInv, QueueOrdered
    <2>2. ASSUME NEW m \in 1 .. Len(queue_') PROVE Accepted(queue_'[m], pushed')
      BY <1>5, <1>7, <1>8, <2>1 DEF Accepted
    <2>3. ASSUME NEW m \in 1 .. Len(queue_'), NEW n \in 1 .. Len(queue_'), m < n
          PROVE  Before(queue_'[m], queue_'[n])
      <3>1. m \in 1 .. Len(queue_)
        BY <1>4, <1>5, <2>3
      <3>2. CASE n \in 1 .. Len(queue_)
        BY <1>5, <2>3, <3>1, <3>2 DEF FlowInv, QueueOrdered
      <3>3. CASE n = Len(queue_) + 1
        BY <1>5, <2>1, <3>1, <3>3
      <3> QED
        BY <1>8, <3>2, <3>3
    <2> QED
      BY <2>2, <2>3 DEF QueueOrdered, Before, Accepted
  <1>10. GotOrdered'
    <2>1. \A c \in Takers : \A m \in 1 .. Len(got[c]) : Accepted(got[c][m], pushed')
      BY <1>4, <1>6 DEF FlowInv, GotOrdered
    <2> QED
      BY <1>3, <2>1 DEF FlowInv, GotOrdered, Before, Accepted
  <1>11. GotBeforeQueue'
    <2>1. \A c \in Takers : \A m \in 1 .. Len(got[c]) : Before(got[c][m], new)
      BY <1>4, <1>6 DEF FlowInv, GotOrdered
    <2>2. ASSUME NEW c \in Takers, NEW m \in 1 .. Len(got[c]), NEW n \in 1 .. Len(queue_')
          PROVE  Before(got[c][m], queue_'[n])
      BY <1>5, <1>8, <2>1 DEF FlowInv, GotBeforeQueue
    <2> QED
      BY <1>3, <2>2 DEF GotBeforeQueue, Before
  <1>12. TakenByOne'
    BY <1>3 DEF FlowInv, TakenByOne
  <1>13. NothingLost'
    <2> SUFFICES ASSUME NEW item \in Item, Accepted(item, pushed')
                 PROVE  \/ \E m \in 1 .. Len(queue_') : queue_'[m] = item
                        \/ \E c \in Takers : \E m \in 1 .. Len(got'[c]) : got'[c][m] = item
      BY DEF NothingLost, Accepted
    <2>1. CASE item = new
      BY <1>4, <1>5, <2>1
    <2>2. CASE item # new
      <3>1. item[1] \in Producers /\ item[2] \in Nat /\ item = <<item[1], item[2]>>
        BY ItemFields DEF Item
      <3>2. Accepted(item, pushed)
        <4>1. CASE item[1] = p
          <5>1. item[2] # pushed[p] + 1
            BY <2>2, <3>1, <4>1 DEF new
          <5>2. pushed'[p] = pushed[p] + 1
            BY <1>3 DEF TypeOK
          <5> QED
            BY <1>1, <3>1, <4>1, <5>1, <5>2 DEF Accepted
        <4>2. CASE item[1] # p
          BY <1>3, <3>1, <4>2 DEF Accepted, TypeOK
        <4> QED
          BY <4>1, <4>2
      <3>3. CASE \E m \in 1 .. Len(queue_) : queue_[m] = item
        BY <1>4, <1>5, <3>3
      <3>4. CASE \E c \in Takers : \E m \in 1 .. Len(got[c]) : got[c][m] = item
        BY <1>3, <3>4
      <3> QED
        BY <3>2, <3>3, <3>4 DEF FlowInv, NothingLost
    <2> QED
      BY <2>1, <2>2
  <1> QED
    BY <1>9, <1>10, <1>11, <1>12, <1>13 DEF FlowInv

(* pop and try_pop move the front item to the end of what the thread has
   taken; the order along the queue makes it precede everything left. *)
LEMMA TakeFrontFlow ==
    ASSUME TypeOK, FlowInv, NEW c \in Takers, TakeFront(c), pushed' = pushed
    PROVE  FlowInv'
  <1> DEFINE front == queue_[1]
             old == Len(got[c])
  <1>1. /\ Len(queue_) \in Nat /\ \A m \in 1 .. Len(queue_) : queue_[m] \in Item
        /\ \A d \in Takers : /\ Len(got[d]) \in Nat
                             /\ \A m \in 1 .. Len(got[d]) : got[d][m] \in Item
    BY PlacesTyped
  <1>2. /\ queue_ \in Seq(Item) /\ queue_ # <<>> /\ got \in [Takers -> Seq(Item)]
        /\ queue_' = Tail(queue_) /\ got' = [got EXCEPT ![c] = Append(got[c], Head(queue_))]
    BY DEF TakeFront, TypeOK
  <1>3. /\ Len(queue_) >= 1 /\ 1 \in 1 .. Len(queue_) /\ front \in Item
        /\ Len(queue_') = Len(queue_) - 1
        /\ \A m \in 1 .. Len(queue_') : /\ m + 1 \in 1 .. Len(queue_) /\ 1 < m + 1
                                        /\ queue_'[m] = queue_[m + 1]
    BY <1>1, <1>2
  <1>4. /\ \A d \in Takers : d # c => got'[d] = got[d]
        /\ Len(got'[c]) = old + 1 /\ got'[c][old + 1] = front
        /\ \A m \in 1 .. old : got'[c][m] = got[c][m]
        /\ \A m \in 1 .. Len(got'[c]) : m \in 1 .. old \/ m = old + 1
    <2>1. got'[c] = Append(got[c], front) /\ got[c] \in Seq(Item)
      BY <1>2
    <2>2. Len(got'[c]) = old + 1 /\ got'[c][old + 1] = front
          /\ \A m \in 1 .. old : got'[c][m] = got[c][m]
      BY <1>3, <2>1
    <2> QED
      BY <1>1, <1>2, <2>2
  <1> HIDE DEF front, old
  <1>5. /\ \A m, n \in 1 .. Len(queue_) : m < n => Before(queue_[m], queue_[n])
        /\ \A m \in 1 .. Len(queue_) : Accepted(queue_[m], pushed)
    BY DEF FlowInv, QueueOrdered
  <1>6. /\ \A n \in 1 .. Len(queue_') : Before(front, queue_'[n])
        /\ Accepted(front, pushed)
    BY <1>3, <1>5 DEF front
  <1>7. \A d \in Takers : \A m \in 1 .. Len(got[d]) : Before(got[d][m], front)
    BY <1>3 DEF FlowInv, GotBeforeQueue, front
  <1>8. QueueOrdered'
    <2>1. \A m \in 1 .. Len(queue_') : Accepted(queue_'[m], pushed')
      BY <1>3, <1>5
    <2>2. ASSUME NEW m \in 1 .. Len(queue_'), NEW n \in 1 .. Len(queue_'), m < n
          PROVE  Before(queue_'[m], queue_'[n])
      <3>1. m + 1 < n + 1
        BY <1>1, <1>3, <2>2
      <3> QED
        BY <1>3, <1>5, <3>1
    <2> QED
      BY <2>1, <2>2 DEF QueueOrdered
  <1>9. GotOrdered'
    <2> SUFFICES ASSUME NEW d \in Takers
                 PROVE  /\ \A m \in 1 .. Len(got'[d]) : Accepted(got'[d][m], pushed')
                        /\ \A m, n \in 1 .. Len(got'[d]) : m < n => Before(got'[d][m], got'[d][n])
      BY DEF GotOrdered
    <2>1. /\ \A m \in 1 .. Len(got[d]) : Accepted(got[d][m], pushed)
          /\ \A m, n \in 1 .. Len(got[d]) : m < n => Before(got[d][m], got[d][n])
      BY DEF FlowInv, GotOrdered
    <2>2. CASE d # c
      BY <1>4, <2>1, <2>2
    <2>3. CASE d = c
      <3>1. \A m \in 1 .. Len(got'[c]) : Accepted(got'[c][m], pushed')
        BY <1>4, <1>6, <2>1, <2>3 DEF old
      <3>2. ASSUME NEW m \in 1 .. Len(got'[c]), NEW n \in 1 .. Len(got'[c]), m < n
            PROVE  Before(got'[c][m], got'[c][n])
        <4>1. m \in 1 .. old
          BY <1>1, <1>4, <3>2 DEF old
        <4>2. CASE n \in 1 .. old
          BY <1>4, <2>1, <2>3, <3>2, <4>1, <4>2 DEF old
        <4>3. CASE n = old + 1
          BY <1>4, <1>7, <4>1, <4>3 DEF old
        <4> QED
          BY <1>4, <4>2, <4>3
      <3> QED
        BY <2>3, <3>1, <3>2
    <2> QED
      BY <2>2, <2>3
  <1>10. GotBeforeQueue'
    <2> SUFFICES ASSUME NEW d \in Takers, NEW m \in 1 .. Len(got'[d]), NEW n \in 1 .. Len(queue_')
                 PROVE  Before(got'[d][m], queue_'[n])
      BY DEF GotBeforeQueue
    <2>1. \A k \in 1 .. Len(got[d]) : Before(got[d][k], queue_'[n])
      BY <1>3 DEF FlowInv, GotBeforeQueue
    <2>2. CASE d # c
      BY <1>4, <2>1, <2>2
    <2>3. CASE d = c
      BY <1>4, <1>6, <2>1, <2>3 DEF old
    <2> QED
      BY <2>2, <2>3
  <1>11. TakenByOne'
    <2>1. ASSUME NEW d \in Takers, d # c, NEW m \in 1 .. Len(got[d]), NEW n \in 1 .. Len(got'[c])
          PROVE  got[d][m] # got'[c][n]
      <3>1. CASE n \in 1 .. old
        BY <1>4, <2>1, <3>1 DEF FlowInv, TakenByOne, old
      <3>2. CASE n = old + 1
        <4>1. Before(got[d][m], front) /\ got'[c][n] = front
          BY <1>4, <1>7, <3>2
        <4>2. front[2] \in Nat
          BY <1>3, ItemFields
        <4> QED
          BY <4>1, <4>2 DEF Before
      <3> QED
        BY <1>4, <3>1, <3>2
    <2> SUFFICES ASSUME NEW d \in Takers, NEW e \in Takers, d # e,
                        NEW m \in 1 .. Len(got'[d]), NEW n \in 1 .. Len(got'[e])
                 PROVE  got'[d][m] # got'[e][n]
      BY DEF TakenByOne
    <2>2. CASE d # c /\ e # c
      BY <1>4, <2>2, SMTT(30) DEF FlowInv, TakenByOne
    <2>3. CASE e = c
      BY <1>4, <2>1, <2>3
    <2>4. CASE d = c
      BY <1>4, <2>1, <2>4
    <2> QED
      BY <2>2, <2>3, <2>4
  <1>12. NothingLost'
    <2> SUFFICES ASSUME NEW item \in Item, Accepted(item, pushed')
                 PROVE  \/ \E m \in 1 .. Len(queue_') : queue_'[m] = item
                        \/ \E d \in Takers : \E m \in 1 .. Len(got'[d]) : got'[d][m] = item
      BY DEF NothingLost
    <2>1. CASE \E m \in 1 .. Len(queue_) : queue_[m] = item
      <3>1. PICK m \in 1 .. Len(queue_) : queue_[m] = item
        BY <2>1
      <3>2. CASE m = 1
        <4>1. old + 1 \in 1 .. Len(got'[c]) /\ got'[c][old + 1] = item
          BY <1>1, <1>4, <3>1, <3>2 DEF front, old
        <4> QED
          BY <4>1
      <3>3. CASE m # 1
        <4>1. m - 1 \in 1 .. Len(queue_') /\ (m - 1) + 1 = m
          BY <1>1, <1>3, <3>3
        <4>2. queue_'[m - 1] = item
          BY <1>3, <3>1, <4>1
        <4> QED
          BY <4>1, <4>2
      <3> QED
        BY <3>2, <3>3
    <2>2. CASE \E d \in Takers : \E m \in 1 .. Len(got[d]) : got[d][m] = item
      <3>0. PICK d \in Takers : \E m \in 1 .. Len(got[d]) : got[d][m] = item
        BY <2>2
      <3>1. PICK m \in 1 .. Len(got[d]) : got[d][m] = item
        BY <3>0
      <3>2. m \in 1 .. Len(got'[d]) /\ got'[d][m] = item
        <4>1. CASE d # c
          BY <1>4, <3>1, <4>1
        <4>2. CASE d = c
          BY <1>1, <1>4, <3>1, <4>2 DEF old
        <4> QED
          BY <4>1, <4>2
      <3> QED
        BY <3>2
    <2> QED
      BY <2>1, <2>2 DEF FlowInv, NothingLost
  <1> QED
    BY <1>8, <1>9, <1>10, <1>11, <1>12 DEF FlowInv

(* Every step of a thread keeps the items in their places and in order; only
   push, pop and try_pop move any. *)
LEMMA NextFlow == TypeOK /\ FlowInv /\ [Next]_vars => FlowInv'
  <1> SUFFICES ASSUME TypeOK, FlowInv, [Next]_vars PROVE FlowInv'
    OBVIOUS
  <1>1. ASSUME UNCHANGED <<queue_, pushed, got>> PROVE FlowInv'
    BY <1>1 DEF FlowInv, QueueOrdered, GotOrdered, GotBeforeQueue, TakenByOne, NothingLost
  <1>2. CASE UNCHANGED vars
    BY <1>1, <1>2 DEF vars
  <1>3. CASE \E p \in Producers : Producer(p)
    <2>1. PICK p \in Producers : Producer(p)
      BY <1>3
    <2>2. CASE Push(p)
      BY <2>2, PushFlow
    <2>3. CASE PushThrows(p) \/ PushNotify(p) \/ ProducerExit(p)
      BY <1>1, <2>3 DEF PushThrows, PushNotify, ProducerExit
    <2> QED
      BY <2>1, <2>2, <2>3 DEF Producer
  <1>4. CASE \E c \in Consumers : Consumer(c) \/ SpuriousWakeup(c)
    <2>1. PICK c \in Consumers : Consumer(c) \/ SpuriousWakeup(c)
      BY <1>4
    <2>2. CASE PopItem(c)
      BY <2>2, TakeFrontFlow DEF PopItem, Takers
    <2>3. CASE PopBlock(c) \/ PopNullopt(c) \/ SpuriousWakeup(c)
      BY <1>1, <2>3 DEF PopBlock, PopNullopt, SpuriousWakeup
    <2> QED
      BY <2>1, <2>2, <2>3 DEF Consumer
  <1>5. CASE \E c \in Pollers : TryPop(c)
    BY <1>5, TakeFrontFlow DEF TryPop, Takers
  <1>6. CASE EarlyClose \/ Main
    BY <1>1, <1>6 DEF Main, Close, EarlyClose, CloseNotify
  <1> QED
    BY <1>2, <1>3, <1>4, <1>5, <1>6 DEF Next, Joined

(* Position by position implies place by place. *)
LEMMA FlowOnce == TypeOK /\ FlowInv => EveryItemInOnePlace
  <1> SUFFICES ASSUME TypeOK, FlowInv, NEW item \in Item
               PROVE  LET inQueue == {<<"queue_", n>> : n \in {m \in DOMAIN queue_ : queue_[m] = item}}
                          inGot(c) == {<<c, n>> : n \in {m \in DOMAIN got[c] : got[c][m] = item}}
                          places == inQueue \cup UNION {inGot(c) : c \in Takers}
                      IN  IF item[2] <= pushed[item[1]]
                          THEN \E x \in places : places = {x}
                          ELSE places = {}
    BY DEF EveryItemInOnePlace
  <1> DEFINE inQueue == {<<"queue_", n>> : n \in {m \in DOMAIN queue_ : queue_[m] = item}}
             inGot(c) == {<<c, n>> : n \in {m \in DOMAIN got[c] : got[c][m] = item}}
             places == inQueue \cup UNION {inGot(c) : c \in Takers}
  <1>1. /\ DOMAIN queue_ = 1 .. Len(queue_) /\ Len(queue_) \in Nat
        /\ \A c \in Takers : DOMAIN got[c] = 1 .. Len(got[c]) /\ Len(got[c]) \in Nat
    BY DEF TypeOK
  <1>2. item[2] \in Nat /\ \A other \in Item : Before(other, item) => other # item
    BY ItemFields DEF Before
  <1>3. \A m, n \in 1 .. Len(queue_) : queue_[m] = item /\ queue_[n] = item => m = n
    BY <1>1, <1>2 DEF FlowInv, QueueOrdered, Before
  <1>4. \A c \in Takers : \A m, n \in 1 .. Len(got[c]) :
            got[c][m] = item /\ got[c][n] = item => m = n
    BY <1>1, <1>2, SMTT(30) DEF FlowInv, GotOrdered, Before
  <1>5. \A c \in Takers : \A m \in 1 .. Len(got[c]), n \in 1 .. Len(queue_) :
            ~(got[c][m] = item /\ queue_[n] = item)
    BY <1>1, <1>2 DEF FlowInv, GotBeforeQueue, Before
  <1>6. \A c, d \in Takers : \A m \in 1 .. Len(got[c]), n \in 1 .. Len(got[d]) :
            got[c][m] = item /\ got[d][n] = item => c = d
    BY DEF FlowInv, TakenByOne
  <1>7. CASE item[2] <= pushed[item[1]]
    <2>1. CASE \E m \in 1 .. Len(queue_) : queue_[m] = item
      <3>1. PICK m \in 1 .. Len(queue_) : queue_[m] = item
        BY <2>1
      <3>2. inQueue = {<<"queue_", m>>}
        BY <1>1, <1>3, <3>1
      <3>3. \A c \in Takers : inGot(c) = {}
        BY <1>1, <1>5, <3>1
      <3>4. places = {<<"queue_", m>>}
        BY <3>2, <3>3
      <3> QED
        BY <1>7, <3>4
    <2>2. CASE \E c \in Takers : \E m \in 1 .. Len(got[c]) : got[c][m] = item
      <3>0. PICK c \in Takers : \E m \in 1 .. Len(got[c]) : got[c][m] = item
        BY <2>2
      <3>1. PICK m \in 1 .. Len(got[c]) : got[c][m] = item
        BY <3>0
      <3>2. inQueue = {}
        BY <1>1, <1>5, <3>1
      <3>3. inGot(c) = {<<c, m>>}
        BY <1>1, <1>4, <3>1
      <3>4. \A d \in Takers : d # c => inGot(d) = {}
        BY <1>1, <1>6, <3>1
      <3>5. places = {<<c, m>>}
        BY <3>2, <3>3, <3>4
      <3> QED
        BY <1>7, <3>5
    <2> QED
      BY <1>7, <2>1, <2>2 DEF FlowInv, NothingLost, Accepted
  <1>8. CASE ~(item[2] <= pushed[item[1]])
    <2>1. inQueue = {}
      BY <1>1, <1>8 DEF FlowInv, QueueOrdered, Accepted
    <2>2. \A c \in Takers : inGot(c) = {}
      BY <1>1, <1>8 DEF FlowInv, GotOrdered, Accepted
    <2>3. places = {}
      BY <2>1, <2>2
    <2> QED
      BY <1>8, <2>3
  <1> QED
    BY <1>7, <1>8

(* What a thread took followed by what is queued is ordered. *)
LEMMA FlowOrder == TypeOK /\ FlowInv => OrderPerProducer
  <1> SUFFICES ASSUME TypeOK, FlowInv, NEW c \in Takers,
                      NEW m \in DOMAIN (got[c] \o queue_), NEW n \in DOMAIN (got[c] \o queue_),
                      m < n, (got[c] \o queue_)[m][1] = (got[c] \o queue_)[n][1]
               PROVE  (got[c] \o queue_)[m][2] < (got[c] \o queue_)[n][2]
    BY DEF OrderPerProducer
  <1> DEFINE s == got[c] \o queue_
             k == Len(got[c])
  <1>1. /\ got[c] \in Seq(Item) /\ queue_ \in Seq(Item)
        /\ k \in Nat /\ Len(queue_) \in Nat
    BY DEF TypeOK
  <1>2. /\ DOMAIN s = 1 .. k + Len(queue_)
        /\ \A i \in 1 .. k : s[i] = got[c][i]
        /\ \A i \in DOMAIN s : i \notin 1 .. k => i - k \in 1 .. Len(queue_) /\ s[i] = queue_[i - k]
    BY <1>1
  <1>3. m \in Nat /\ n \in Nat
    BY <1>1, <1>2
  <1>4. Before(s[m], s[n])
    <2> HIDE DEF s
    <2>1. CASE m \in 1 .. k /\ n \in 1 .. k
      BY <1>2, <2>1 DEF FlowInv, GotOrdered
    <2>2. CASE m \in 1 .. k /\ n \notin 1 .. k
      BY <1>2, <2>2 DEF FlowInv, GotBeforeQueue, s
    <2>3. CASE m \notin 1 .. k
      <3>1. /\ n \notin 1 .. k /\ m - k < n - k
            /\ s[m] = queue_[m - k] /\ m - k \in 1 .. Len(queue_)
        BY <1>1, <1>2, <1>3, <2>3 DEF s
      <3>2. s[n] = queue_[n - k] /\ n - k \in 1 .. Len(queue_)
        BY <1>2, <3>1 DEF s
      <3> QED
        BY <3>1, <3>2 DEF FlowInv, QueueOrdered
    <2> QED
      BY <2>1, <2>2, <2>3
  <1> QED
    BY <1>4 DEF Before

(* Items pass through the queue exactly once and in order, for any number of
   producers, consumers and pollers and wherever close() comes. *)
THEOREM ItemsPassOnce == SafeSpec => []ItemsOnceInOrder
  <1>1. SafeSpec => [](TypeOK /\ FlowInv)
    <2>1. QueueInv => TypeOK
      BY DEF QueueInv
    <2> QED
      BY <2>1, QueueInvariant, InitFlow, NextFlow, PTL DEF SafeSpec
  <1>2. TypeOK /\ FlowInv => ItemsOnceInOrder
    BY FlowOnce, FlowOrder DEF ItemsOnceInOrder
  <1> QED
    BY <1>1, <1>2, PTL
==============================================================================
