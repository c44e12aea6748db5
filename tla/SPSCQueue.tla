------------------------------ MODULE SPSCQueue ------------------------------
(***************************************************************************)
(* src/src/concurrency/lock_free_queue.cpp: the single-producer            *)
(* single-consumer ring buffer and the two threads of main that drive it.  *)
(*                                                                         *)
(* C++ atomics are modelled by their modification orders: head_ and tail_  *)
(* are the sequences of all values ever stored, the last one the current.  *)
(* A thread reads its own index exactly (it is the only writer), but an    *)
(* acquire load of the OTHER thread's index may return any value not older *)
(* than the newest one this thread has already read: headAcq (tailAcq) is  *)
(* the number of head_ (tail_) stores the producer (consumer) synchronises *)
(* with.  Whatever happened before those stores happens before the         *)
(* loading thread's next step; nothing else is ordered between the two.    *)
(*                                                                         *)
(* x & MASK is x % Capacity: the static_assert of line 34 makes Capacity a *)
(* power of two, and MCSPSCQueue compares the two operators.               *)
(***************************************************************************)
EXTENDS Integers, Sequences

CONSTANTS Capacity, NumMessages, NoItem

ASSUME CapacityAssumption ==
    /\ Capacity \in Nat \ {0}
    /\ \E n \in 0 .. Capacity : Capacity = 2 ^ n

ASSUME MessagesAssumption == NumMessages \in Nat /\ NoItem \notin Nat

VARIABLES
    head_, tail_,       \* modification orders of the two atomic indices
    buffer_,            \* the ring
    headAcq, tailAcq,   \* stores of the other thread's index acquired so far
    pcP, pcC,           \* where the producer and the consumer are
    i,                  \* the producer's loop variable: the message to push
    val,                \* the consumer's local, filled by pop
    received            \* main's vector of received messages

vars == <<head_, tail_, buffer_, headAcq, tailAcq, pcP, pcC, i, val, received>>

-----------------------------------------------------------------------------
Masked(x) == x % Capacity
MaskedOffByOne(x) == x % (Capacity + 1)

OwnTail == tail_[Len(tail_)]
OwnHead == head_[Len(head_)]

Pushed == Len(tail_) - 1
Popped == Len(head_) - 1

QueueFullIgnored(head) == FALSE
QueueFullNoGap(head) == OwnTail = head
QueueFull(head) == Masked(OwnTail + 1) = head

QueueEmpty(tail) == OwnHead = tail

SizeSwapped(tail, head) == Masked(head - tail)
Size(tail, head) == Masked(tail - head)

-----------------------------------------------------------------------------
Init ==
    /\ head_ = <<0>> /\ tail_ = <<0>>
    /\ buffer_ = [s \in 0 .. Capacity - 1 |-> NoItem]
    /\ headAcq = 0 /\ tailAcq = 0
    /\ pcP = "check" /\ pcC = "check"
    /\ i = 0 /\ val = NoItem /\ received = <<>>

(* push, first half: the acquire load of head_ returns the value of its k-th
   store.  A full queue returns false and main spins. *)
ProducerCheckRelaxed(k) ==
    /\ pcP = "check" /\ i < NumMessages
    /\ pcP' = IF QueueFull(head_[k + 1]) THEN "check" ELSE "write"
    /\ UNCHANGED <<head_, tail_, buffer_, headAcq, tailAcq, pcC, i, val, received>>

ProducerCheck(k) ==
    /\ pcP = "check" /\ i < NumMessages
    /\ headAcq' = k
    /\ pcP' = IF QueueFull(head_[k + 1]) THEN "check" ELSE "write"
    /\ UNCHANGED <<head_, tail_, buffer_, tailAcq, pcC, i, val, received>>

(* push: the plain store into the slot. *)
ProducerWriteNext ==
    /\ pcP = "write"
    /\ buffer_' = [buffer_ EXCEPT ![Masked(OwnTail + 1)] = i]
    /\ pcP' = "publish"
    /\ UNCHANGED <<head_, tail_, headAcq, tailAcq, pcC, i, val, received>>

ProducerWrite ==
    /\ pcP = "write"
    /\ buffer_' = [buffer_ EXCEPT ![OwnTail] = i]
    /\ pcP' = "publish"
    /\ UNCHANGED <<head_, tail_, headAcq, tailAcq, pcC, i, val, received>>

(* push: the release store of tail_; push returns true and main's loop goes
   on with the next message. *)
ProducerPublish ==
    /\ pcP = "publish"
    /\ tail_' = Append(tail_, Masked(OwnTail + 1))
    /\ i' = i + 1
    /\ pcP' = "check"
    /\ UNCHANGED <<head_, buffer_, headAcq, tailAcq, pcC, val, received>>

(* pop, first half: the acquire load of tail_.  main stops popping once
   NumMessages messages have arrived. *)
ConsumerCheck(k) ==
    /\ pcC = "check" /\ Len(received) < NumMessages
    /\ tailAcq' = k
    /\ pcC' = IF QueueEmpty(tail_[k + 1]) THEN "check" ELSE "read"
    /\ UNCHANGED <<head_, tail_, buffer_, headAcq, pcP, i, val, received>>

ConsumerRead ==
    /\ pcC = "read"
    /\ val' = buffer_[OwnHead]
    /\ pcC' = "release"
    /\ UNCHANGED <<head_, tail_, buffer_, headAcq, tailAcq, pcP, i, received>>

(* pop: the release store of head_; main appends the value to its own
   vector, which no other thread sees. *)
ConsumerRelease ==
    /\ pcC = "release"
    /\ head_' = Append(head_, Masked(OwnHead + 1))
    /\ received' = Append(received, val)
    /\ pcC' = "check"
    /\ UNCHANGED <<tail_, buffer_, headAcq, tailAcq, pcP, i, val>>

Producer ==
    \/ \E k \in headAcq .. Popped : ProducerCheck(k)
    \/ ProducerWrite
    \/ ProducerPublish

Consumer ==
    \/ \E k \in tailAcq .. Pushed : ConsumerCheck(k)
    \/ ConsumerRead
    \/ ConsumerRelease

(* Both threads have left their loops and main has joined them. *)
Joined ==
    /\ pcP = "check" /\ i = NumMessages
    /\ pcC = "check" /\ Len(received) = NumMessages
    /\ UNCHANGED vars

Next == Producer \/ Consumer \/ Joined

(* A running thread keeps taking steps, and a stored value becomes visible
   in a finite time ([intro.progress] of the C++ standard): a spinning
   thread eventually loads the newest value. *)
Fairness ==
    /\ WF_vars(ProducerCheck(Popped)) /\ WF_vars(ProducerWrite \/ ProducerPublish)
    /\ WF_vars(ConsumerCheck(Pushed)) /\ WF_vars(ConsumerRead \/ ConsumerRelease)

SafeSpec == Init /\ [][Next]_vars

Spec == SafeSpec /\ Fairness

-----------------------------------------------------------------------------
(* The stored indices stay inside the ring, the slots and the received
   messages hold messages, and the acquired positions are stores that were
   made (lines 38-40: head_, tail_ and buffer_ as push and pop leave them). *)
TypeOK ==
    /\ head_ \in Seq(0 .. Capacity - 1) /\ head_ # <<>>
    /\ tail_ \in Seq(0 .. Capacity - 1) /\ tail_ # <<>>
    /\ buffer_ \in [0 .. Capacity - 1 -> Nat \cup {NoItem}]
    /\ headAcq \in 0 .. Popped /\ tailAcq \in 0 .. Pushed
    /\ pcP \in {"check", "write", "publish"}
    /\ pcC \in {"check", "read", "release"}
    /\ i \in 0 .. NumMessages
    /\ val \in Nat \cup {NoItem}
    /\ received \in Seq(Nat \cup {NoItem})

(* The slot accesses of push (line 52) and pop (line 65) never race: when the
   producer may write message i, it has acquired the head_ store that followed
   the read of message i - Capacity from the same slot, and when the consumer
   may read a slot it has acquired the tail_ store that published it. *)
NoDataRace ==
    /\ pcP \in {"write", "publish"} => i - Capacity < headAcq
    /\ pcC \in {"read", "release"} => Popped < tailAcq

(* The asserts of lines 111-115 at every moment: what the consumer received
   is exactly 0, 1, 2, ... with nothing lost, repeated or reordered, across
   any number of wraps of the ring. *)
ReceivedInOrder ==
    \A n \in 1 .. Len(received) : received[n] = n - 1

(* size() (lines 70-74) errs on the safe side for the two threads that may
   use the queue, whatever stale value its loads return: called by the
   producer it never reports fewer messages than the queue holds, called by
   the consumer never more.  So the producer may trust "not full" and the
   consumer may trust "not empty". *)
SizeIsConservative ==
    /\ \A k \in headAcq .. Popped : Size(OwnTail, head_[k + 1]) >= Pushed - Popped
    /\ \A k \in tailAcq .. Pushed : Size(tail_[k + 1], OwnHead) <= Pushed - Popped

(* The messages between head_ and tail_, oldest first, as the ring holds
   them. *)
Content == [n \in 1 .. Pushed - Popped |-> buffer_[(Popped + n - 1) % Capacity]]

FIFO == INSTANCE BoundedFIFO WITH
            Bound <- Capacity - 1, queue <- Content, sent <- Pushed

(* push and pop implement a FIFO channel that holds at most Capacity - 1
   messages: publishing is the one step that adds a message, releasing the
   slot the one that removes it, every other step is invisible. *)
ImplementsFIFO == FIFO!Spec

(* main's threads terminate: every message is eventually received, however
   often push finds the queue full and pop finds it empty (lines 86-105). *)
AllDelivered == <>[](Len(received) = NumMessages)
-----------------------------------------------------------------------------
(* The inductive invariant of SPSCQueueProofs, in named parts. *)

(* The n-th store of an index is n - 1 masked, and main's counters agree with
   the number of stores. *)
IndexInv ==
    /\ \A n \in 1 .. Len(head_) : head_[n] = (n - 1) % Capacity
    /\ \A n \in 1 .. Len(tail_) : tail_[n] = (n - 1) % Capacity
    /\ Pushed = i /\ Popped = Len(received)

(* headAcq <= Popped <= tailAcq <= Pushed < headAcq + Capacity, and a thread
   past its check has room (an element) to spare. *)
WindowInv ==
    /\ Popped <= tailAcq
    /\ Pushed - headAcq < Capacity
    /\ pcP # "check" => i < NumMessages /\ Pushed - headAcq < Capacity - 1
    /\ pcC # "check" => Popped < tailAcq

(* Every message between the two indices is in its slot, a written one before
   it is published, and the consumer holds the one it is about to release. *)
SlotInv ==
    /\ \A m \in Popped .. Pushed - 1 : buffer_[m % Capacity] = m
    /\ pcP = "publish" => buffer_[i % Capacity] = i
    /\ pcC = "release" => val = Popped

(* The ring's bookkeeping as a whole: indices, window and slots agree after
   every step of either thread, for every stale value the loads of lines 48
   and 61 may return. *)
IndInv == TypeOK /\ IndexInv /\ WindowInv /\ SlotInv /\ ReceivedInOrder

==============================================================================
