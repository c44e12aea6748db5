--------------------------- MODULE SPSCQueueProofs ---------------------------
(***************************************************************************)
(* The properties of SPSCQueue for every power-of-two Capacity and every   *)
(* number of messages.  The argument: the two threads never let the window *)
(*     headAcq <= Popped <= tailAcq <= Pushed < headAcq + Capacity         *)
(* break, so positions in use are less than a ring apart and their slots   *)
(* are distinct (ModDistinct).                                             *)
(***************************************************************************)
EXTENDS SPSCQueue, Arithmetic, SequenceTheorems

(* The assumption on Capacity, in the form the arithmetic lemmas use. *)
LEMMA CapacityNat == Capacity \in Nat \ {0}
  BY CapacityAssumption

(* What the threads read as their own index. *)
LEMMA OwnIndices ==
    ASSUME TypeOK, IndexInv
    PROVE  /\ Pushed \in Nat /\ Popped \in Nat /\ Len(received) \in Nat
           /\ OwnTail = Pushed % Capacity /\ OwnTail \in 0 .. Capacity - 1
           /\ OwnHead = Popped % Capacity /\ OwnHead \in 0 .. Capacity - 1
           /\ Masked(OwnTail + 1) = (Pushed + 1) % Capacity
           /\ Masked(OwnHead + 1) = (Popped + 1) % Capacity
           /\ Masked(OwnTail + 1) \in 0 .. Capacity - 1
           /\ Masked(OwnHead + 1) \in 0 .. Capacity - 1
  <1> USE CapacityNat
  <1>1. Len(tail_) \in Nat \ {0} /\ Len(head_) \in Nat \ {0} /\ Len(received) \in Nat
    BY DEF TypeOK
  <1>2. Pushed \in Nat /\ Popped \in Nat
    BY <1>1 DEF Pushed, Popped
  <1>3. OwnTail = Pushed % Capacity /\ OwnHead = Popped % Capacity
    BY <1>1 DEF IndexInv, OwnTail, OwnHead, Pushed, Popped
  <1>4. Masked(OwnTail + 1) = (Pushed + 1) % Capacity
    <2>1. Pushed \in Int
      BY <1>2
    <2>2. ((Pushed % Capacity) + 1) % Capacity = (Pushed + 1) % Capacity
      BY <2>1, ModSucc, Zenon
    <2> QED
      BY <1>3, <2>2, Zenon DEF Masked
  <1>5. Masked(OwnHead + 1) = (Popped + 1) % Capacity
    <2>1. Popped \in Int
      BY <1>2
    <2>2. ((Popped % Capacity) + 1) % Capacity = (Popped + 1) % Capacity
      BY <2>1, ModSucc, Zenon
    <2> QED
      BY <1>3, <2>2, Zenon DEF Masked
  <1>6. /\ OwnTail \in 0 .. Capacity - 1 /\ OwnHead \in 0 .. Capacity - 1
        /\ (Pushed + 1) % Capacity \in 0 .. Capacity - 1
        /\ (Popped + 1) % Capacity \in 0 .. Capacity - 1
    BY <1>2, <1>3, ModRange
  <1> QED
    BY <1>1, <1>2, <1>3, <1>4, <1>5, <1>6

(* Initially both threads agree that the ring is empty. *)
LEMMA InitIndInv == Init => IndInv
  <1> USE CapacityNat, MessagesAssumption
  <1> SUFFICES ASSUME Init PROVE IndInv
    OBVIOUS
  <1>1. 0 % Capacity = 0
    BY ModIs
  <1>2. TypeOK
    BY DEF Init, TypeOK, Pushed, Popped
  <1>3. IndexInv
    BY <1>1 DEF Init, IndexInv, Pushed, Popped
  <1>4. WindowInv /\ SlotInv /\ ReceivedInOrder
    BY DEF Init, WindowInv, SlotInv, ReceivedInOrder, Pushed, Popped
  <1> QED
    BY <1>2, <1>3, <1>4 DEF IndInv

(* A full check that succeeds on any value the acquire load may return leaves
   room: the producer's view of the window is not yet Capacity - 1 wide. *)
LEMMA CheckLeavesRoom ==
    ASSUME IndInv, NEW k \in headAcq .. Popped, ~QueueFull(head_[k + 1])
    PROVE  Pushed - k < Capacity - 1
  <1> USE CapacityNat
  <1>1. /\ Pushed \in Nat /\ Popped \in Nat /\ k \in Nat
        /\ Masked(OwnTail + 1) = (Pushed + 1) % Capacity
        /\ Len(head_) = Popped + 1
    BY OwnIndices DEF IndInv, TypeOK, Popped
  <1>2. head_[k + 1] = k % Capacity
    BY <1>1 DEF IndInv, IndexInv
  <1>3. (Pushed + 1) % Capacity # k % Capacity
    BY <1>1, <1>2 DEF QueueFull
  <1>4. Pushed - k < Capacity /\ headAcq \in Nat
    BY <1>1 DEF IndInv, WindowInv, TypeOK
  <1>5. ASSUME Pushed - k = Capacity - 1 PROVE FALSE
    <2>1. Pushed + 1 = Capacity + k
      BY <1>1, <1>5
    <2> DEFINE q == k \div Capacity
               r == k % Capacity
    <2>2. q \in Int /\ k = (Capacity * q) + r /\ r \in 0 .. Capacity - 1
      <3>1. k \in Int
        BY <1>1
      <3> QED
        BY <3>1, ModDiv, ModRange, Zenon
    <2> HIDE DEF q, r
    <2>3. Pushed + 1 = Capacity * (q + 1) + r /\ q + 1 \in Int /\ Pushed + 1 \in Int
      <3>1. Capacity * (q + 1) = (Capacity * q) + Capacity /\ Capacity * q \in Int
        BY <2>2
      <3> QED
        BY <1>1, <2>1, <2>2, <3>1
    <2>4. (Pushed + 1) % Capacity = r
      BY <2>2, <2>3, ModIs
    <2> QED
      BY <1>3, <2>4 DEF r
  <1> QED
    BY <1>1, <1>4, <1>5

(* A pop that does not find the queue empty has acquired a message. *)
LEMMA CheckFindsMessage ==
    ASSUME IndInv, NEW k \in tailAcq .. Pushed, ~QueueEmpty(tail_[k + 1])
    PROVE  Popped < k
  <1> USE CapacityNat
  <1>1. Pushed \in Nat /\ Popped \in Nat /\ k \in Nat /\ Len(tail_) = Pushed + 1
    BY OwnIndices DEF IndInv, TypeOK, Pushed
  <1>2. tail_[k + 1] = k % Capacity /\ OwnHead = Popped % Capacity
    BY <1>1, OwnIndices DEF IndInv, IndexInv
  <1>3. Popped # k
    BY <1>2 DEF QueueEmpty
  <1> QED
    BY <1>1, <1>3 DEF IndInv, WindowInv, TypeOK

(* The full check of push (lines 43-50): it only refreshes what the producer
   knows of the head index. *)
LEMMA ProducerCheckInv ==
    ASSUME IndInv, NEW k \in headAcq .. Popped, ProducerCheck(k)
    PROVE  IndInv'
  <1> USE CapacityNat, MessagesAssumption
  <1>1. /\ Pushed \in Nat /\ Popped \in Nat /\ k \in Nat /\ headAcq \in Nat
        /\ Pushed' = Pushed /\ Popped' = Popped
    BY OwnIndices DEF IndInv, TypeOK, ProducerCheck, Pushed, Popped
  <1>2. TypeOK'
    BY <1>1 DEF IndInv, TypeOK, ProducerCheck
  <1>3. IndexInv' /\ ReceivedInOrder'
    BY <1>1 DEF IndInv, IndexInv, ReceivedInOrder, ProducerCheck
  <1>4. WindowInv'
    <2>1. pcP' # "check" => ~QueueFull(head_[k + 1]) /\ i < NumMessages
      BY DEF ProducerCheck
    <2>2. pcP' # "check" => Pushed - k < Capacity - 1
      BY <2>1, CheckLeavesRoom
    <2>3. Pushed - k < Capacity
      BY <1>1 DEF IndInv, WindowInv
    <2> QED
      BY <1>1, <2>1, <2>2, <2>3 DEF IndInv, WindowInv, ProducerCheck
  <1>5. SlotInv'
    BY <1>1 DEF IndInv, SlotInv, ProducerCheck
  <1> QED
    BY <1>2, <1>3, <1>4, <1>5 DEF IndInv

(* The write of the slot (line 52): the slot lies outside the window of
   published messages. *)
LEMMA ProducerWriteInv == ASSUME IndInv, ProducerWrite PROVE IndInv'
  <1> USE CapacityNat, MessagesAssumption
  <1>1. /\ Pushed \in Nat /\ Popped \in Nat /\ headAcq \in 0 .. Popped
        /\ Pushed' = Pushed /\ Popped' = Popped /\ i = Pushed
        /\ OwnTail = Pushed % Capacity /\ OwnTail \in 0 .. Capacity - 1
        /\ Pushed - headAcq < Capacity - 1
    BY OwnIndices
       DEF IndInv, TypeOK, IndexInv, WindowInv, ProducerWrite, Pushed, Popped
  <1>2. TypeOK'
    BY <1>1 DEF IndInv, TypeOK, ProducerWrite
  <1>3. IndexInv' /\ ReceivedInOrder'
    BY <1>1 DEF IndInv, IndexInv, ReceivedInOrder, ProducerWrite
  <1>4. WindowInv'
    BY <1>1 DEF IndInv, WindowInv, ProducerWrite
  <1>5. SlotInv'
    <2>1. buffer_'[OwnTail] = i
      BY <1>1 DEF IndInv, TypeOK, ProducerWrite
    <2>2. ASSUME NEW m \in Popped .. Pushed - 1 PROVE buffer_'[m % Capacity] = m
      <3>1. m \in Int /\ m < Pushed /\ Pushed - m < Capacity
        BY <1>1
      <3>2. m % Capacity # Pushed % Capacity /\ m % Capacity \in 0 .. Capacity - 1
        <4>1. Pushed \in Int
          BY <1>1
        <4>2. m % Capacity # Pushed % Capacity
          BY <3>1, <4>1, ModDistinct
        <4>3. m % Capacity \in 0 .. Capacity - 1
          BY <3>1, ModRange
        <4> QED
          BY <4>2, <4>3
      <3>3. buffer_'[m % Capacity] = buffer_[m % Capacity]
        BY <1>1, <3>2 DEF IndInv, TypeOK, ProducerWrite
      <3> QED
        BY <3>3 DEF IndInv, SlotInv
    <2> QED
      BY <1>1, <2>1, <2>2 DEF IndInv, SlotInv, ProducerWrite
  <1> QED
    BY <1>2, <1>3, <1>4, <1>5 DEF IndInv

(* The release store of tail_ (lines 53-55): the window grows by the slot
   just written. *)
LEMMA ProducerPublishInv == ASSUME IndInv, ProducerPublish PROVE IndInv'
  <1> USE CapacityNat, MessagesAssumption
  <1> DEFINE next_tail == Masked(OwnTail + 1)
  <1>1. /\ Pushed \in Nat /\ Popped \in Nat /\ headAcq \in 0 .. Popped
        /\ tailAcq \in 0 .. Pushed /\ i = Pushed /\ Pushed - headAcq < Capacity - 1
        /\ next_tail = (Pushed + 1) % Capacity /\ next_tail \in 0 .. Capacity - 1
        /\ i < NumMessages
    BY OwnIndices DEF IndInv, TypeOK, IndexInv, WindowInv, ProducerPublish
  <1>2. /\ tail_ \in Seq(0 .. Capacity - 1) /\ tail_' = Append(tail_, next_tail)
        /\ Len(tail_) = Pushed + 1
    BY <1>1 DEF IndInv, TypeOK, ProducerPublish, Pushed
  <1> HIDE DEF next_tail
  <1>3. /\ Len(tail_') = Len(tail_) + 1 /\ tail_' \in Seq(0 .. Capacity - 1)
        /\ \A n \in 1 .. Len(tail_) : tail_'[n] = tail_[n]
        /\ tail_'[Len(tail_) + 1] = next_tail
    BY <1>1, <1>2
  <1>4. Pushed' = Pushed + 1 /\ Popped' = Popped /\ i' = i + 1
    BY <1>1, <1>2, <1>3 DEF ProducerPublish, Pushed, Popped
  <1>5. TypeOK'
    <2>1. tail_' # <<>> /\ i' \in 0 .. NumMessages /\ tailAcq \in 0 .. Pushed'
      BY <1>1, <1>2, <1>3, <1>4
    <2> QED
      BY <1>3, <1>4, <2>1 DEF IndInv, TypeOK, ProducerPublish
  <1>6. IndexInv'
    <2>1. ASSUME NEW n \in 1 .. Len(tail_') PROVE tail_'[n] = (n - 1) % Capacity
      <3>1. CASE n \in 1 .. Len(tail_)
        BY <1>3, <3>1 DEF IndInv, IndexInv
      <3>2. CASE n = Len(tail_) + 1
        BY <1>1, <1>2, <1>3, <3>2
      <3> QED
        BY <1>1, <1>2, <1>3, <3>1, <3>2
    <2> QED
      BY <1>1, <1>4, <2>1 DEF IndInv, IndexInv, ProducerPublish
  <1>7. WindowInv'
    BY <1>1, <1>4 DEF IndInv, WindowInv, ProducerPublish
  <1>8. SlotInv'
    <2>1. ASSUME NEW m \in Popped .. Pushed PROVE buffer_[m % Capacity] = m
      <3>1. CASE m = Pushed
        BY <1>1, <3>1 DEF IndInv, SlotInv, ProducerPublish
      <3>2. CASE m \in Popped .. Pushed - 1
        BY <3>2 DEF IndInv, SlotInv
      <3> QED
        BY <1>1, <3>1, <3>2
    <2>2. Popped' .. Pushed' - 1 = Popped .. Pushed
      BY <1>1, <1>4
    <2> QED
      BY <1>4, <2>1, <2>2 DEF IndInv, SlotInv, ProducerPublish
  <1>9. ReceivedInOrder'
    BY DEF IndInv, ReceivedInOrder, ProducerPublish
  <1> QED
    BY <1>5, <1>6, <1>7, <1>8, <1>9 DEF IndInv

(* The empty check of pop (lines 57-63): it only refreshes what the consumer
   knows of the tail index. *)
LEMMA ConsumerCheckInv ==
    ASSUME IndInv, NEW k \in tailAcq .. Pushed, ConsumerCheck(k)
    PROVE  IndInv'
  <1> USE CapacityNat, MessagesAssumption
  <1>1. /\ Pushed \in Nat /\ Popped \in Nat /\ k \in Nat /\ tailAcq \in Nat
        /\ Pushed' = Pushed /\ Popped' = Popped
    BY OwnIndices DEF IndInv, TypeOK, ConsumerCheck, Pushed, Popped
  <1>2. TypeOK'
    BY <1>1 DEF IndInv, TypeOK, ConsumerCheck
  <1>3. IndexInv' /\ ReceivedInOrder'
    BY <1>1 DEF IndInv, IndexInv, ReceivedInOrder, ConsumerCheck
  <1>4. WindowInv'
    <2>1. pcC' # "check" => Popped < k
      BY CheckFindsMessage DEF ConsumerCheck
    <2> QED
      BY <1>1, <2>1 DEF IndInv, WindowInv, ConsumerCheck
  <1>5. SlotInv'
    BY <1>1 DEF IndInv, SlotInv, ConsumerCheck
  <1> QED
    BY <1>2, <1>3, <1>4, <1>5 DEF IndInv

(* The read of the slot (line 65): it finds the next message in order. *)
LEMMA ConsumerReadInv == ASSUME IndInv, ConsumerRead PROVE IndInv'
  <1> USE CapacityNat, MessagesAssumption
  <1>1. /\ Pushed \in Nat /\ Popped \in Nat /\ tailAcq \in 0 .. Pushed
        /\ Pushed' = Pushed /\ Popped' = Popped /\ Popped < tailAcq
        /\ OwnHead = Popped % Capacity /\ OwnHead \in 0 .. Capacity - 1
    BY OwnIndices DEF IndInv, TypeOK, WindowInv, ConsumerRead, Pushed, Popped
  <1>2. val' = Popped
    BY <1>1 DEF IndInv, SlotInv, ConsumerRead
  <1>3. TypeOK'
    BY <1>1, <1>2 DEF IndInv, TypeOK, ConsumerRead
  <1>4. IndexInv' /\ ReceivedInOrder'
    BY <1>1 DEF IndInv, IndexInv, ReceivedInOrder, ConsumerRead
  <1>5. WindowInv'
    BY <1>1 DEF IndInv, WindowInv, ConsumerRead
  <1>6. SlotInv'
    BY <1>1, <1>2 DEF IndInv, SlotInv, ConsumerRead
  <1> QED
    BY <1>3, <1>4, <1>5, <1>6 DEF IndInv

(* The release store of head_ (lines 66-68): the window shrinks by the slot
   just read. *)
LEMMA ConsumerReleaseInv == ASSUME IndInv, ConsumerRelease PROVE IndInv'
  <1> USE CapacityNat, MessagesAssumption
  <1> DEFINE next_head == Masked(OwnHead + 1)
  <1>1. /\ Pushed \in Nat /\ Popped \in Nat /\ headAcq \in 0 .. Popped
        /\ tailAcq \in 0 .. Pushed /\ Popped < tailAcq /\ Popped = Len(received)
        /\ next_head = (Popped + 1) % Capacity /\ next_head \in 0 .. Capacity - 1
        /\ val = Popped
    BY OwnIndices DEF IndInv, TypeOK, IndexInv, WindowInv, SlotInv, ConsumerRelease
  <1>2. /\ head_ \in Seq(0 .. Capacity - 1) /\ head_' = Append(head_, next_head)
        /\ received \in Seq(Nat \cup {NoItem}) /\ received' = Append(received, val)
        /\ Len(head_) = Popped + 1
    BY <1>1 DEF IndInv, TypeOK, ConsumerRelease, Popped
  <1> HIDE DEF next_head
  <1>3. /\ Len(head_') = Len(head_) + 1 /\ head_' \in Seq(0 .. Capacity - 1)
        /\ \A n \in 1 .. Len(head_) : head_'[n] = head_[n]
        /\ head_'[Len(head_) + 1] = next_head
    BY <1>1, <1>2
  <1>4. /\ Len(received') = Len(received) + 1
        /\ received' \in Seq(Nat \cup {NoItem})
        /\ \A n \in 1 .. Len(received) : received'[n] = received[n]
        /\ received'[Len(received) + 1] = val
    BY <1>1, <1>2
  <1>5. Popped' = Popped + 1 /\ Pushed' = Pushed
    BY <1>1, <1>2, <1>3 DEF ConsumerRelease, Pushed, Popped
  <1>6. TypeOK'
    <2>1. head_' # <<>>
      BY <1>2
    <2>2. headAcq \in 0 .. Popped'
      BY <1>1, <1>5
    <2> QED
      BY <1>3, <1>4, <1>5, <2>1, <2>2 DEF IndInv, TypeOK, ConsumerRelease
  <1>7. IndexInv'
    <2>1. ASSUME NEW n \in 1 .. Len(head_') PROVE head_'[n] = (n - 1) % Capacity
      <3>1. CASE n \in 1 .. Len(head_)
        BY <1>3, <3>1 DEF IndInv, IndexInv
      <3>2. CASE n = Len(head_) + 1
        BY <1>1, <1>2, <1>3, <3>2
      <3> QED
        BY <1>1, <1>2, <1>3, <3>1, <3>2
    <2> QED
      BY <1>1, <1>4, <1>5, <2>1 DEF IndInv, IndexInv, ConsumerRelease
  <1>8. WindowInv'
    BY <1>1, <1>5 DEF IndInv, WindowInv, ConsumerRelease
  <1>9. SlotInv'
    BY <1>1, <1>5 DEF IndInv, SlotInv, ConsumerRelease
  <1>10. ReceivedInOrder'
    BY <1>1, <1>4 DEF IndInv, ReceivedInOrder
  <1> QED
    BY <1>6, <1>7, <1>8, <1>9, <1>10 DEF IndInv

(* The invariant survives every step of either thread. *)
LEMMA NextIndInv == IndInv /\ [Next]_vars => IndInv'
  <1> SUFFICES ASSUME IndInv, [Next]_vars PROVE IndInv'
    OBVIOUS
  <1>1. CASE Producer
    BY <1>1, ProducerCheckInv, ProducerWriteInv, ProducerPublishInv DEF Producer
  <1>2. CASE Consumer
    BY <1>2, ConsumerCheckInv, ConsumerReadInv, ConsumerReleaseInv DEF Consumer
  <1>3. CASE UNCHANGED vars
    BY <1>3 DEF IndInv, TypeOK, IndexInv, WindowInv, SlotInv, ReceivedInOrder,
                Pushed, Popped, vars
  <1> QED
    BY <1>1, <1>2, <1>3 DEF Next, Joined

(* The ring's bookkeeping is right in every reachable state. *)
THEOREM RingInvariant == SafeSpec => []IndInv
  <1>1. Init => IndInv
    BY InitIndInv
  <1>2. IndInv /\ [Next]_vars => IndInv'
    BY NextIndInv
  <1> QED
    BY <1>1, <1>2, PTL DEF SafeSpec

(* The plain accesses to buffer_ in push and pop are ordered by the acquire
   and release operations on the indices: no data race, for any ring. *)
THEOREM SlotsNeverRace == SafeSpec => []NoDataRace
  <1>1. IndInv => NoDataRace
    BY CapacityNat, OwnIndices
       DEF IndInv, TypeOK, IndexInv, WindowInv, NoDataRace
  <1> QED
    BY <1>1, RingInvariant, PTL

(* Messages leave in the order they entered, none lost, none repeated. *)
THEOREM DeliveryInOrder == SafeSpec => []ReceivedInOrder
  <1>1. IndInv => ReceivedInOrder
    BY DEF IndInv
  <1> QED
    BY <1>1, RingInvariant, PTL

(* size() called by either end errs on the safe side. *)
THEOREM SizeConservative == SafeSpec => []SizeIsConservative
  <1>1. IndInv => SizeIsConservative
    <2> SUFFICES ASSUME IndInv PROVE SizeIsConservative
      OBVIOUS
    <2> USE CapacityNat
    <2>1. /\ Pushed \in Nat /\ Popped \in Nat
          /\ OwnTail = Pushed % Capacity /\ OwnHead = Popped % Capacity
          /\ Len(head_) = Popped + 1 /\ Len(tail_) = Pushed + 1
          /\ headAcq \in 0 .. Popped /\ tailAcq \in 0 .. Pushed
          /\ Popped <= tailAcq /\ Pushed - headAcq < Capacity
      <3>1. TypeOK /\ IndexInv /\ WindowInv
        BY DEF IndInv
      <3>2. /\ Pushed \in Nat /\ Popped \in Nat
            /\ OwnTail = Pushed % Capacity /\ OwnHead = Popped % Capacity
        BY <3>1, OwnIndices, Zenon
      <3>3. Len(head_) \in Nat /\ Len(tail_) \in Nat
        BY <3>1 DEF TypeOK
      <3>4. Len(head_) = Popped + 1 /\ Len(tail_) = Pushed + 1
        BY <3>3 DEF Pushed, Popped
      <3>5. headAcq \in 0 .. Popped /\ tailAcq \in 0 .. Pushed
        BY <3>1, Zenon DEF TypeOK
      <3>6. Popped <= tailAcq /\ Pushed - headAcq < Capacity
        BY <3>1, Zenon DEF WindowInv
      <3> QED
        BY <3>2, <3>4, <3>5, <3>6, Zenon
    <2>2. ASSUME NEW k \in headAcq .. Popped
          PROVE  Size(OwnTail, head_[k + 1]) >= Pushed - Popped
      <3>1. k \in Int /\ 0 <= Pushed - k /\ Pushed - k < Capacity
        BY <2>1
      <3>2. head_[k + 1] = k % Capacity
        BY <2>1 DEF IndInv, IndexInv
      <3>3. Size(OwnTail, head_[k + 1]) = Pushed - k
        <4>1. ((Pushed % Capacity) - (k % Capacity)) % Capacity = Pushed - k
          <5>1. Pushed \in Int
            BY <2>1
          <5> QED
            BY <3>1, <5>1, ModDiff
        <4> QED
          BY <2>1, <3>2, <4>1, Zenon DEF Size, Masked
      <3> QED
        BY <2>1, <3>3
    <2>3. ASSUME NEW k \in tailAcq .. Pushed
          PROVE  Size(tail_[k + 1], OwnHead) <= Pushed - Popped
      <3>1. k \in Int /\ 0 <= k - Popped /\ k - Popped < Capacity
        BY <2>1
      <3>2. tail_[k + 1] = k % Capacity
        BY <2>1 DEF IndInv, IndexInv
      <3>3. Size(tail_[k + 1], OwnHead) = k - Popped
        <4>1. ((k % Capacity) - (Popped % Capacity)) % Capacity = k - Popped
          <5>1. Popped \in Int
            BY <2>1
          <5> QED
            BY <3>1, <5>1, ModDiff
        <4> QED
          BY <2>1, <3>2, <4>1, Zenon DEF Size, Masked
      <3> QED
        BY <2>1, <3>3
    <2> QED
      BY <2>2, <2>3 DEF SizeIsConservative
  <1> QED
    BY <1>1, RingInvariant, PTL

-----------------------------------------------------------------------------
(* Refinement of BoundedFIFO. *)

(* The messages p, p + 1, ..., q - 1 as a sequence. *)
Messages(p, q) == [n \in 1 .. q - p |-> p + n - 1]

(* Messages(p, q) is a sequence of q - p numbers. *)
LEMMA MessagesSeq ==
    ASSUME NEW p \in Nat, NEW q \in Nat, p <= q
    PROVE  Messages(p, q) \in Seq(Nat) /\ Len(Messages(p, q)) = q - p
  <1>1. q - p \in Nat
    OBVIOUS
  <1>2. \A n \in 1 .. q - p : p + n - 1 \in Nat
    OBVIOUS
  <1> QED
    BY <1>1, <1>2, SMT DEF Messages

(* One more message pushed extends it at the end. *)
LEMMA MessagesAppend ==
    ASSUME NEW p \in Nat, NEW q \in Nat, p <= q
    PROVE  Messages(p, q + 1) = Append(Messages(p, q), q)
  <1> DEFINE s == Messages(p, q)
             t == Messages(p, q + 1)
  <1>1. Len(t) = (q + 1) - p /\ t \in Seq(Nat)
    BY MessagesSeq
  <1>2. s \in Seq(Nat) /\ Len(s) = q - p
    BY MessagesSeq
  <1>3. \A n \in 1 .. Len(t) : t[n] = Append(s, q)[n]
    BY <1>1, <1>2 DEF Messages
  <1> HIDE DEF s, t
  <1>4. Len(Append(s, q)) = Len(t) /\ Append(s, q) \in Seq(Nat)
    BY <1>1, <1>2
  <1>5. t = Append(s, q)
    BY <1>1, <1>3, <1>4, SeqEqual
  <1> QED
    BY <1>5 DEF s, t

(* One more message popped takes its first element away. *)
LEMMA MessagesTail ==
    ASSUME NEW p \in Nat, NEW q \in Nat, p < q
    PROVE  /\ Messages(p, q) # <<>>
           /\ Head(Messages(p, q)) = p
           /\ Tail(Messages(p, q)) = Messages(p + 1, q)
  <1> DEFINE s == Messages(p, q)
             t == Messages(p + 1, q)
  <1>1. Len(t) = q - p - 1 /\ t \in Seq(Nat)
    BY MessagesSeq
  <1>2. Len(Tail(s)) = q - p - 1 /\ Tail(s) \in Seq(Nat)
    BY MessagesSeq
  <1>3. \A n \in 1 .. q - p - 1 : t[n] = Tail(s)[n]
    BY MessagesSeq DEF Messages
  <1>4. t = Tail(s)
    BY <1>1, <1>2, <1>3, SeqEqual
  <1>5. Head(s) = p
    BY MessagesSeq DEF Messages
  <1>6. s # <<>>
    BY MessagesSeq
  <1> QED
    BY <1>4, <1>5, <1>6

(* The ring between the indices holds exactly the messages not yet popped. *)
RingHoldsMessages ==
    /\ Pushed \in Nat /\ Popped \in Nat /\ Popped <= Pushed
    /\ Content = Messages(Popped, Pushed)

(* The slots between the two indices hold the messages pushed and not yet
   popped, in order. *)
LEMMA ContentIsMessages == IndInv => RingHoldsMessages
  <1> USE CapacityNat
  <1> SUFFICES ASSUME IndInv PROVE RingHoldsMessages
    OBVIOUS
  <1>1. Pushed \in Nat /\ Popped \in Nat
    BY OwnIndices DEF IndInv
  <1>2. Popped <= Pushed
    BY <1>1 DEF IndInv, TypeOK, WindowInv
  <1>3. ASSUME NEW n \in 1 .. Pushed - Popped
        PROVE  buffer_[(Popped + n - 1) % Capacity] = Popped + n - 1
    <2>1. Popped + n - 1 \in Popped .. Pushed - 1
      BY <1>1, <1>2
    <2> QED
      BY <2>1 DEF IndInv, SlotInv
  <1>4. Content = Messages(Popped, Pushed)
    BY <1>3, Zenon DEF Content, Messages
  <1> QED
    BY <1>1, <1>2, <1>4 DEF RingHoldsMessages

(* The same of the state after a step. *)
LEMMA ContentIsMessagesNext == IndInv' => RingHoldsMessages'
  BY ContentIsMessages, PTL

(* The store of tail_ (lines 53-55) is the push of the abstract channel. *)
LEMMA PublishPushes ==
    ASSUME IndInv, IndInv', ProducerPublish
    PROVE  FIFO!Push
  <1> USE CapacityNat, MessagesAssumption
  <1>1. /\ Pushed \in Nat /\ Popped \in Nat /\ Popped <= Pushed
        /\ Content = Messages(Popped, Pushed)
        /\ Content' = Messages(Popped', Pushed')
    BY ContentIsMessages, ContentIsMessagesNext DEF RingHoldsMessages
  <1>2. Popped' = Popped /\ Pushed' = Pushed + 1
    <2>1. Pushed = i /\ Pushed' = i'
      BY DEF IndInv, IndexInv
    <2> QED
      BY <2>1 DEF ProducerPublish, Popped
  <1>3. Content' = Append(Content, Pushed)
    BY <1>1, <1>2, MessagesAppend
  <1>4. Pushed < NumMessages /\ Pushed - headAcq < Capacity - 1 /\ headAcq \in 0 .. Popped
    BY DEF IndInv, TypeOK, IndexInv, WindowInv, ProducerPublish
  <1>5. Len(Content) < Capacity - 1
    BY <1>1, <1>4, MessagesSeq
  <1> QED
    BY <1>2, <1>3, <1>4, <1>5 DEF FIFO!Push, ProducerPublish

(* The store of head_ (lines 66-68) is its pop. *)
LEMMA ReleasePops ==
    ASSUME IndInv, IndInv', ConsumerRelease
    PROVE  FIFO!Pop
  <1>1. /\ Pushed \in Nat /\ Popped \in Nat /\ Popped <= Pushed
        /\ Content = Messages(Popped, Pushed)
        /\ Content' = Messages(Popped', Pushed')
    BY ContentIsMessages, ContentIsMessagesNext DEF RingHoldsMessages
  <1>2. Popped < Pushed /\ val = Popped
    BY <1>1 DEF IndInv, TypeOK, WindowInv, SlotInv, ConsumerRelease
  <1>3. Pushed' = Pushed /\ Popped' = Popped + 1
    <2>1. Popped = Len(received) /\ Popped' = Len(received')
      BY DEF IndInv, IndexInv
    <2>2. Len(received') = Len(received) + 1
      BY DEF IndInv, TypeOK, ConsumerRelease
    <2> QED
      BY <2>1, <2>2 DEF ConsumerRelease, Pushed
  <1>4. Content # <<>> /\ Head(Content) = val /\ Tail(Content) = Content'
    BY <1>1, <1>2, <1>3, MessagesTail
  <1> QED
    BY <1>3, <1>4 DEF FIFO!Pop, ConsumerRelease

(* A step that moves neither index leaves the channel alone: the producer may
   write a slot, but never one between the indices. *)
LEMMA QuietStep ==
    ASSUME IndInv, IndInv', UNCHANGED <<head_, tail_, received>>
    PROVE  UNCHANGED FIFO!vars
  <1>1. Pushed' = Pushed /\ Popped' = Popped
    BY DEF Pushed, Popped
  <1>2. Content = Messages(Popped, Pushed) /\ Content' = Messages(Popped', Pushed')
    BY ContentIsMessages, ContentIsMessagesNext DEF RingHoldsMessages
  <1>3. Content' = Content
    BY <1>1, <1>2
  <1> QED
    BY <1>1, <1>3 DEF FIFO!vars

(* push and pop implement a FIFO channel of at most Capacity - 1 messages. *)
THEOREM QueueImplementsFIFO == SafeSpec => ImplementsFIFO
  <1>1. Init => FIFO!Init
    <2> SUFFICES ASSUME Init PROVE FIFO!Init
      OBVIOUS
    <2>1. Pushed = 0 /\ Popped = 0
      BY DEF Init, Pushed, Popped
    <2>2. Content = Messages(0, 0)
      BY <2>1, InitIndInv, ContentIsMessages DEF RingHoldsMessages
    <2>3. Messages(0, 0) = <<>>
      BY MessagesSeq
    <2> QED
      BY <2>1, <2>2, <2>3 DEF Init, FIFO!Init
  <1>2. IndInv /\ IndInv' /\ [Next]_vars => [FIFO!Next]_(FIFO!vars)
    <2> SUFFICES ASSUME IndInv, IndInv', [Next]_vars
                 PROVE  [FIFO!Next]_(FIFO!vars)
      OBVIOUS
    <2>1. CASE ProducerPublish
      BY <2>1, PublishPushes DEF FIFO!Next
    <2>2. CASE ConsumerRelease
      BY <2>2, ReleasePops DEF FIFO!Next
    <2>3. CASE UNCHANGED <<head_, tail_, received>>
      BY <2>3, QuietStep
    <2> QED
      BY <2>1, <2>2, <2>3
         DEF Next, Producer, Consumer, Joined, vars, ProducerCheck,
             ProducerWrite, ConsumerCheck, ConsumerRead
  <1> QED
    BY <1>1, <1>2, RingInvariant, PTL DEF SafeSpec, ImplementsFIFO, FIFO!Spec
==============================================================================
