---------------------------- MODULE SystemsProofs ----------------------------
(***************************************************************************)
(* The programs of MCSystems keep their promises for every value of their  *)
(* constants: any sizes, any sequence of calls, clients and signals.       *)
(***************************************************************************)
EXTENDS MCSystems, Arithmetic, SequenceTheorems

-----------------------------------------------------------------------------
-----------------------------------------------------------------------------
(* virtual_memory.cpp: the TLB holds the pages walked last, an entry is stale
   only if its page was mapped again since the last flush, and the answers of
   translate keep the offset and name the frame. *)

(* How many walks ago slot i was filled, counted from the next slot. *)
Age(i) == IF i <= tlb_next_ THEN tlb_next_ - i ELSE tlb_next_ + TLB_SIZE - i

(* The page numbers translate computes, and the one in an unused entry. *)
VPNs == {Memory!vpn(address) : address \in Memory!Addresses} \cup {0}

Typed ==
    /\ tlb_next_ \in 0 .. TLB_SIZE - 1
    /\ tlb_ \in [1 .. TLB_SIZE -> [vpn : VPNs, pfn : Frames \cup {0}, valid : BOOLEAN]]
    /\ walked \in Seq(VPNs) /\ Len(walked) <= TLB_SIZE
    /\ \A p \in DOMAIN page_table_ : page_table_[p] \in Frames

(* The slots filled by the last Len(walked) walks, and only they, are valid. *)
RingInv ==
    \A i \in 1 .. TLB_SIZE :
        /\ tlb_[i].valid <=> Age(i) < Len(walked)
        /\ tlb_[i].valid => tlb_[i].vpn = walked[Len(walked) - Age(i)]

(* No page is walked while it is cached. *)
OncePerPage == \A k, l \in 1 .. Len(walked) : k # l => walked[k] # walked[l]

CacheInv == Typed /\ RingInv /\ OncePerPage /\ Memory!StaleOnlyIfRemapped

-----------------------------------------------------------------------------
(* Slots have distinct ages below TLB_SIZE, and every age is some slot's. *)
LEMMA AgeBijective ==
    ASSUME TLB_SIZE \in Nat \ {0}, tlb_next_ \in 0 .. TLB_SIZE - 1
    PROVE  /\ \A i \in 1 .. TLB_SIZE : Age(i) \in 0 .. TLB_SIZE - 1
           /\ \A i, j \in 1 .. TLB_SIZE : Age(i) = Age(j) => i = j
           /\ \A a \in 0 .. TLB_SIZE - 1 : \E i \in 1 .. TLB_SIZE : Age(i) = a
<1>1. \A i \in 1 .. TLB_SIZE : Age(i) \in 0 .. TLB_SIZE - 1
  BY DEF Age
<1>2. \A i, j \in 1 .. TLB_SIZE : Age(i) = Age(j) => i = j
  BY DEF Age
<1>3. ASSUME NEW a \in 0 .. TLB_SIZE - 1
      PROVE  \E i \in 1 .. TLB_SIZE : Age(i) = a
  <2>1. CASE a < tlb_next_
    BY <2>1, Age(tlb_next_ - a) = a, tlb_next_ - a \in 1 .. TLB_SIZE DEF Age
  <2>2. CASE ~(a < tlb_next_)
    BY <2>2, Age(tlb_next_ + TLB_SIZE - a) = a, tlb_next_ + TLB_SIZE - a \in 1 .. TLB_SIZE DEF Age
  <2> QED
    BY <2>1, <2>2
<1> QED
  BY <1>1, <1>2, <1>3

(* A walk fills the oldest slot and makes all others one older. *)
LEMMA WalkAges ==
    ASSUME TLB_SIZE \in Nat \ {0}, tlb_next_ \in 0 .. TLB_SIZE - 1, tlb_next_' = Memory!NextSlot
    PROVE  /\ tlb_next_' \in 0 .. TLB_SIZE - 1
           /\ Age(tlb_next_ + 1) = TLB_SIZE - 1
           /\ \A i \in 1 .. TLB_SIZE :
                  IF i = tlb_next_ + 1 THEN Age(i)' = 0 ELSE Age(i)' = Age(i) + 1 /\ Age(i) < TLB_SIZE - 1
<1>1. tlb_next_' = IF tlb_next_ + 1 < TLB_SIZE THEN tlb_next_ + 1 ELSE 0
  BY DEF Memory!NextSlot
<1> QED
  BY <1>1 DEF Age

(* CacheInv implies what the runs check of the TLB. *)
LEMMA CacheInvSuffices ==
    ASSUME TLB_SIZE \in Nat \ {0}, CacheInv
    PROVE  Memory!CacheSound
<1> USE DEF CacheInv, Typed
<1>1. DOMAIN tlb_ = 1 .. TLB_SIZE
  OBVIOUS
<1>2. ASSUME NEW i \in 1 .. TLB_SIZE, tlb_[i].valid
      PROVE  tlb_[i].vpn \in Memory!Range(walked)
  <2>1. Age(i) \in 0 .. TLB_SIZE - 1 /\ Age(i) < Len(walked) /\ tlb_[i].vpn = walked[Len(walked) - Age(i)]
    BY <1>2, AgeBijective DEF RingInv
  <2>2. Len(walked) - Age(i) \in DOMAIN walked
    BY <2>1
  <2> QED
    BY <2>1, <2>2 DEF Memory!Range
<1>3. ASSUME NEW k \in DOMAIN walked
      PROVE  \E i \in 1 .. TLB_SIZE : tlb_[i].valid /\ tlb_[i].vpn = walked[k]
  <2>1. k \in 1 .. Len(walked) /\ Len(walked) - k \in 0 .. TLB_SIZE - 1
    OBVIOUS
  <2>2. PICK i \in 1 .. TLB_SIZE : Age(i) = Len(walked) - k
    BY <2>1, AgeBijective
  <2>3. tlb_[i].valid
    BY <2>1, <2>2 DEF RingInv
  <2>4. tlb_[i].vpn = walked[Len(walked) - (Len(walked) - k)]
    BY <2>2, <2>3 DEF RingInv
  <2>5. Len(walked) - (Len(walked) - k) = k
    BY <2>1
  <2> QED
    BY <2>3, <2>4, <2>5
<1>4. ASSUME NEW i \in 1 .. TLB_SIZE, NEW j \in 1 .. TLB_SIZE, i # j, tlb_[i].valid, tlb_[j].valid
      PROVE  tlb_[i].vpn # tlb_[j].vpn
  <2>1. /\ Age(i) \in 0 .. TLB_SIZE - 1 /\ Age(i) < Len(walked)
        /\ Age(j) \in 0 .. TLB_SIZE - 1 /\ Age(j) < Len(walked) /\ Age(i) # Age(j)
    BY <1>4, AgeBijective DEF RingInv
  <2>2. tlb_[i].vpn = walked[Len(walked) - Age(i)] /\ tlb_[j].vpn = walked[Len(walked) - Age(j)]
    BY <1>4 DEF RingInv
  <2>3. ASSUME NEW n \in Nat, NEW a \in 0 .. TLB_SIZE - 1, NEW b \in 0 .. TLB_SIZE - 1, a < n, b < n, a # b
        PROVE  n - a \in 1 .. n /\ n - b \in 1 .. n /\ n - a # n - b
    BY <2>3
  <2>4. Len(walked) \in Nat
    OBVIOUS
  <2>5. /\ Len(walked) - Age(i) \in 1 .. Len(walked) /\ Len(walked) - Age(j) \in 1 .. Len(walked)
        /\ Len(walked) - Age(i) # Len(walked) - Age(j)
    <3> HIDE DEF CacheInv, Typed
    <3> QED
      BY <2>1, <2>3, <2>4
  <2> QED
    BY <2>2, <2>5 DEF OncePerPage
<1>5. {tlb_[i].vpn : i \in {j \in DOMAIN tlb_ : tlb_[j].valid}} = Memory!Range(walked)
  <2> HIDE DEF CacheInv, Typed
  <2>1. \A p \in {tlb_[i].vpn : i \in {j \in DOMAIN tlb_ : tlb_[j].valid}} : p \in Memory!Range(walked)
    BY <1>1, <1>2
  <2>2. \A p \in Memory!Range(walked) : p \in {tlb_[i].vpn : i \in {j \in DOMAIN tlb_ : tlb_[j].valid}}
    BY <1>1, <1>3 DEF Memory!Range
  <2> QED
    BY <2>1, <2>2
<1> QED
  BY <1>1, <1>4, <1>5 DEF Memory!CacheSound, Memory!HoldsLastWalked

-----------------------------------------------------------------------------
(* The empty TLB of a new VirtualMemory. *)
LEMMA CacheInit ==
    ASSUME TLB_SIZE \in Nat \ {0}, Memory!Init
    PROVE  CacheInv
<1>1. walked = <<>> /\ Len(walked) = 0 /\ tlb_next_ = 0 /\ DOMAIN page_table_ = {}
  BY DEF Memory!Init
<1>2. tlb_ = [i \in 1 .. TLB_SIZE |-> [vpn |-> 0, pfn |-> 0, valid |-> FALSE]]
  BY DEF Memory!Init, Memory!Entry
<1>3. Typed
  BY <1>1, <1>2 DEF Typed, VPNs
<1>4. RingInv
  BY <1>1, <1>2, AgeBijective DEF RingInv
<1>5. OncePerPage /\ Memory!StaleOnlyIfRemapped
  BY <1>1, <1>2 DEF OncePerPage, Memory!StaleOnlyIfRemapped
<1> QED
  BY <1>3, <1>4, <1>5 DEF CacheInv

(* The walk of translate replaces the oldest entry by one for a page that is in no
   other slot. *)
LEMMA WalkKeepsCache ==
    ASSUME TLB_SIZE \in Nat \ {0}, CacheInv, NEW address \in Memory!Addresses, Memory!translateWalk(address)
    PROVE  CacheInv'
<1> DEFINE page == Memory!vpn(address)
           slot == tlb_next_ + 1
           L == Len(walked)
           ringFull == L = TLB_SIZE
<1> HIDE DEF page
<1>1. /\ tlb_next_ \in 0 .. TLB_SIZE - 1 /\ walked \in Seq(VPNs) /\ L \in 0 .. TLB_SIZE
      /\ tlb_ \in [1 .. TLB_SIZE -> [vpn : VPNs, pfn : Frames \cup {0}, valid : BOOLEAN]]
      /\ \A p \in DOMAIN page_table_ : page_table_[p] \in Frames
  BY DEF CacheInv, Typed
<1>2. page \in VPNs /\ page \in DOMAIN page_table_ /\ page_table_' = page_table_ /\ remapped' = remapped
  BY DEF Memory!translateWalk, VPNs, page
<1>3. tlb_' = [tlb_ EXCEPT ![slot] = [vpn |-> page, pfn |-> page_table_[page], valid |-> TRUE]]
  BY DEF Memory!translateWalk, Memory!Entry, page
<1>4. slot \in 1 .. TLB_SIZE /\ tlb_next_' = Memory!NextSlot
  <2>1. tlb_next_' = Memory!NextSlot
    BY DEF Memory!translateWalk
  <2>2. slot \in 1 .. TLB_SIZE
    BY <1>1
  <2> QED
    BY <2>1, <2>2
<1>5. walked' = IF ringFull THEN Tail(Append(walked, page)) ELSE Append(walked, page)
  <2>1. walked' = IF Len(Append(walked, page)) > TLB_SIZE THEN Tail(Append(walked, page)) ELSE Append(walked, page)
    BY Zenon DEF Memory!translateWalk, page
  <2>2. Len(Append(walked, page)) > TLB_SIZE <=> ringFull
    BY <1>1, <1>2
  <2> QED
    BY <2>1, <2>2
<1>6. \A i \in 1 .. TLB_SIZE : tlb_[i].valid => tlb_[i].vpn # page
  BY <1>1 DEF Memory!translateWalk, Memory!Cached, page
<1>7. Append(walked, page) \in Seq(VPNs) /\ Len(Append(walked, page)) = L + 1
      /\ \A k \in 1 .. L : Append(walked, page)[k] = walked[k]
      /\ Append(walked, page)[L + 1] = page
  BY <1>1, <1>2
<1>8. /\ walked' \in Seq(VPNs) /\ Len(walked') = (IF ringFull THEN L ELSE L + 1)
      /\ walked'[Len(walked')] = page
      /\ \A k \in 1 .. Len(walked') - 1 : walked'[k] = walked[IF ringFull THEN k + 1 ELSE k]
  <2>1. CASE ringFull
    BY <1>1, <1>5, <1>7, <2>1
  <2>2. CASE ~ringFull
    BY <1>1, <1>5, <1>7, <2>2
  <2> QED
    BY <2>1, <2>2
<1>9. \A k \in 1 .. L : walked[k] # page
  <2> SUFFICES ASSUME NEW k \in 1 .. L
               PROVE  walked[k] # page
    OBVIOUS
  <2>1. L - k \in 0 .. TLB_SIZE - 1 /\ L - k < L /\ L - (L - k) = k
    BY <1>1
  <2>2. PICK i \in 1 .. TLB_SIZE : Age(i) = L - k
    BY <1>1, <2>1, AgeBijective
  <2>3. tlb_[i].valid /\ tlb_[i].vpn = walked[k]
    BY <2>1, <2>2 DEF CacheInv, RingInv
  <2> QED
    BY <1>6, <2>3
<1>10. Typed'
  <2>1. tlb_' \in [1 .. TLB_SIZE -> [vpn : VPNs, pfn : Frames \cup {0}, valid : BOOLEAN]]
    BY <1>1, <1>2, <1>3
  <2>2. tlb_next_' \in 0 .. TLB_SIZE - 1
    BY <1>1, <1>4, WalkAges
  <2>3. Len(walked') <= TLB_SIZE
    BY <1>1, <1>8
  <2> QED
    BY <1>1, <1>2, <1>8, <2>1, <2>2, <2>3 DEF Typed, VPNs, Memory!vpn, Memory!Addresses
<1>11. RingInv'
  <2> SUFFICES ASSUME NEW i \in 1 .. TLB_SIZE
               PROVE  /\ tlb_'[i].valid <=> Age(i)' < Len(walked')
                      /\ tlb_'[i].valid => tlb_'[i].vpn = walked'[Len(walked') - Age(i)']
    BY DEF RingInv
  <2>1. CASE i = slot
    <3>1. tlb_'[i].valid /\ tlb_'[i].vpn = page
      BY <1>1, <1>3, <1>4, <2>1
    <3>2. Age(i)' = 0
      BY <1>1, <1>4, <2>1, WalkAges
    <3>3. 0 < Len(walked') /\ Len(walked') - 0 = Len(walked')
      BY <1>1, <1>8
    <3> QED
      BY <1>8, <3>1, <3>2, <3>3
  <2>2. CASE i # slot
    <3>1. tlb_'[i] = tlb_[i]
      BY <1>1, <1>3, <1>4, <2>2
    <3>2. Age(i)' = Age(i) + 1 /\ Age(i) < TLB_SIZE - 1 /\ Age(i) \in 0 .. TLB_SIZE - 1
      BY <1>1, <1>4, <2>2, WalkAges, AgeBijective
    <3>3. tlb_[i].valid <=> Age(i) < L
      BY DEF CacheInv, RingInv
    <3>4. Age(i) < L <=> Age(i)' < Len(walked')
      BY <1>1, <1>8, <3>2
    <3>5. ASSUME tlb_[i].valid
          PROVE  tlb_[i].vpn = walked'[Len(walked') - Age(i)']
      <4>1. Age(i) < L /\ tlb_[i].vpn = walked[L - Age(i)]
        BY <3>5 DEF CacheInv, RingInv
      <4>2. /\ Len(walked') - Age(i)' \in 1 .. Len(walked') - 1
            /\ (IF ringFull THEN Len(walked') - Age(i)' + 1 ELSE Len(walked') - Age(i)') = L - Age(i)
        BY <1>1, <1>8, <3>2, <3>3, <3>4, <4>1, SMTT(30)
      <4> QED
        BY <1>8, <4>1, <4>2
    <3> QED
      BY <3>1, <3>3, <3>4, <3>5
  <2> QED
    BY <2>1, <2>2
<1>12. OncePerPage'
  <2> SUFFICES ASSUME NEW k \in 1 .. Len(walked'), NEW l \in 1 .. Len(walked'), k < l
               PROVE  walked'[k] # walked'[l]
    BY <1>1, <1>8 DEF OncePerPage
  <2> DEFINE old(m) == IF ringFull THEN m + 1 ELSE m
  <2>1. k \in 1 .. Len(walked') - 1 /\ old(k) \in 1 .. L /\ walked'[k] = walked[old(k)]
    BY <1>1, <1>8
  <2>2. CASE l = Len(walked')
    BY <1>8, <1>9, <2>1, <2>2
  <2>3. CASE l # Len(walked')
    <3>1. l \in 1 .. Len(walked') - 1 /\ old(l) \in 1 .. L /\ walked'[l] = walked[old(l)] /\ old(k) # old(l)
      BY <1>1, <1>8, <2>3, SMTT(30)
    <3> QED
      BY <2>1, <3>1 DEF CacheInv, OncePerPage
  <2> QED
    BY <2>2, <2>3
<1>13. Memory!StaleOnlyIfRemapped'
  <2> SUFFICES ASSUME NEW i \in 1 .. TLB_SIZE, tlb_'[i].valid
               PROVE  /\ tlb_'[i].vpn \in DOMAIN page_table_
                      /\ tlb_'[i].vpn \notin remapped => tlb_'[i].pfn = page_table_[tlb_'[i].vpn]
    BY <1>1, <1>2, <1>3 DEF Memory!StaleOnlyIfRemapped
  <2>1. CASE i = slot
    BY <1>1, <1>2, <1>3, <1>4, <2>1
  <2>2. CASE i # slot
    BY <1>1, <1>3, <1>4, <2>2 DEF CacheInv, Memory!StaleOnlyIfRemapped
  <2> QED
    BY <2>1, <2>2
<1> QED
  BY <1>10, <1>11, <1>12, <1>13 DEF CacheInv

(* A hit, a fault and mapPage leave the TLB alone; flushTLB empties it and keeps
   tlb_next_. *)
LEMMA CacheStep ==
    ASSUME TLB_SIZE \in Nat \ {0}, CacheInv, [Memory!Next]_(Memory!vars)
    PROVE  CacheInv'
<1>1. /\ tlb_next_ \in 0 .. TLB_SIZE - 1 /\ walked \in Seq(VPNs) /\ Len(walked) <= TLB_SIZE
      /\ tlb_ \in [1 .. TLB_SIZE -> [vpn : VPNs, pfn : Frames \cup {0}, valid : BOOLEAN]]
      /\ \A p \in DOMAIN page_table_ : page_table_[p] \in Frames
  BY DEF CacheInv, Typed
<1>2. ASSUME UNCHANGED <<page_table_, tlb_, tlb_next_, walked, remapped>>
      PROVE  CacheInv'
  BY <1>2 DEF CacheInv, Typed, RingInv, Age, OncePerPage, Memory!StaleOnlyIfRemapped, VPNs, Memory!vpn, Memory!Addresses
<1>3. ASSUME NEW page \in Pages, NEW frame \in Frames, Memory!mapPage(page, frame)
      PROVE  CacheInv'
  <2>1. /\ page_table_' = [p \in DOMAIN page_table_ \cup {page} |-> IF p = page THEN frame ELSE page_table_[p]]
        /\ remapped' = remapped \cup ({page} \cap DOMAIN page_table_)
        /\ tlb_' = tlb_ /\ tlb_next_' = tlb_next_ /\ walked' = walked
    BY <1>3 DEF Memory!mapPage
  <2>2. Typed'
    BY <1>1, <2>1 DEF Typed, VPNs, Memory!vpn, Memory!Addresses
  <2>3. RingInv' /\ OncePerPage'
    BY <2>1 DEF CacheInv, RingInv, Age, OncePerPage
  <2>4. Memory!StaleOnlyIfRemapped'
    BY <2>1 DEF CacheInv, Memory!StaleOnlyIfRemapped
  <2> QED
    BY <2>2, <2>3, <2>4 DEF CacheInv
<1>4. ASSUME Memory!flushTLB
      PROVE  CacheInv'
  <2>1. /\ tlb_' = [i \in DOMAIN tlb_ |-> [tlb_[i] EXCEPT !.valid = FALSE]]
        /\ walked' = <<>> /\ page_table_' = page_table_ /\ tlb_next_' = tlb_next_
    BY <1>4 DEF Memory!flushTLB
  <2>2. /\ \A i \in 1 .. TLB_SIZE : ~tlb_'[i].valid
        /\ tlb_' \in [1 .. TLB_SIZE -> [vpn : VPNs, pfn : Frames \cup {0}, valid : BOOLEAN]]
    BY <1>1, <2>1
  <2>3. Len(walked') = 0 /\ walked' \in Seq(VPNs)
    BY <2>1
  <2>4. Typed'
    BY <1>1, <2>1, <2>2, <2>3 DEF Typed, VPNs, Memory!vpn, Memory!Addresses
  <2>5. \A i \in 1 .. TLB_SIZE : Age(i)' = Age(i) /\ Age(i) \in 0 .. TLB_SIZE - 1
    BY <1>1, <2>1, AgeBijective DEF Age
  <2>6. RingInv'
    BY <2>2, <2>3, <2>5 DEF RingInv
  <2>7. OncePerPage' /\ Memory!StaleOnlyIfRemapped'
    BY <2>2, <2>3 DEF OncePerPage, Memory!StaleOnlyIfRemapped
  <2> QED
    BY <2>4, <2>6, <2>7 DEF CacheInv
<1>5. ASSUME NEW address \in Memory!Addresses, Memory!translateHit(address) \/ Memory!translateFault(address)
      PROVE  CacheInv'
  BY <1>2, <1>5 DEF Memory!translateHit, Memory!translateFault
<1>6. CASE UNCHANGED Memory!vars
  BY <1>2, <1>6 DEF Memory!vars
<1>7. CASE Memory!Next
  BY <1>3, <1>4, <1>5, <1>7, WalkKeepsCache DEF Memory!Next
<1> QED
  BY <1>6, <1>7

(* The counters, and the pages and frames that were mapped. *)
MemoryTyped ==
    /\ Memory!TypeOK /\ tlb_misses_ \in Nat /\ page_faults_ \in Nat

MemoryInv == CacheInv /\ MemoryTyped /\ Memory!AnswersRight

(* The offset of a physical address is that of the virtual one, its page is the
   frame, cut to what fits in a word (lines 65 and 84). *)
LEMMA PhysicalSplits ==
    ASSUME NEW pfn \in Nat, NEW address \in Memory!Addresses
    PROVE  /\ Memory!offset(Memory!physical(pfn, address)) = Memory!offset(address)
           /\ Memory!vpn(Memory!physical(pfn, address)) = pfn % (WORD \div PAGE_SIZE)
  <1>1. PICK count \in 1 .. WORD : WORD = PAGE_SIZE * count
    BY SystemsAssumption
  <1>2. PAGE_SIZE \in Nat \ {0} /\ WORD \in Nat \ {0} /\ count \in Nat \ {0} /\ address \in Nat
    BY SystemsAssumption DEF Memory!Addresses
  <1>3. WORD \div PAGE_SIZE = count
    <2>1. 0 \in 0 .. PAGE_SIZE - 1 /\ WORD = PAGE_SIZE * count + 0
      BY <1>1, <1>2
    <2> QED
      BY <1>2, <2>1, TwoDigits
  <1>4. (pfn * PAGE_SIZE) % WORD = PAGE_SIZE * (pfn % count) /\ pfn % count \in Nat
    BY <1>1, <1>2, ModScale
  <1>5. address % PAGE_SIZE \in 0 .. PAGE_SIZE - 1
    BY <1>2, ModRange
  <1>6. Memory!physical(pfn, address) = PAGE_SIZE * (pfn % count) + (address % PAGE_SIZE)
    BY <1>4 DEF Memory!physical, Memory!offset
  <1>7. /\ Memory!physical(pfn, address) % PAGE_SIZE = address % PAGE_SIZE
        /\ Memory!physical(pfn, address) \div PAGE_SIZE = pfn % count
    <2> DEFINE high == pfn % count
               low == address % PAGE_SIZE
    <2>1. high \in Nat /\ low \in 0 .. PAGE_SIZE - 1
      BY <1>4, <1>5
    <2> HIDE DEF high, low
    <2>2. (PAGE_SIZE * high + low) % PAGE_SIZE = low /\ (PAGE_SIZE * high + low) \div PAGE_SIZE = high
      BY <1>2, <2>1, TwoDigits
    <2> QED
      BY <1>6, <2>2, Zenon DEF high, low
  <1> QED
    BY <1>3, <1>7 DEF Memory!offset, Memory!vpn

(* An answer that names a frame is right if the frame is the page's, or the
   page was mapped again. *)
LEMMA AnswerRight ==
    ASSUME NEW pfn \in Nat, NEW address \in Memory!Addresses, NEW source,
           Memory!vpn(address) \in DOMAIN page_table_,
           Memory!vpn(address) \notin remapped => pfn = page_table_[Memory!vpn(address)],
           answer' = Memory!Answer(TRUE, Memory!physical(pfn, address), address, source)
    PROVE  Memory!AnswersRight'
  <1> DEFINE page == Memory!vpn(address)
  <1>1. /\ answer'.success = TRUE /\ answer'.address = address
        /\ answer'.physical_addr = Memory!physical(pfn, address)
        /\ answer'.frames = {page_table_[p] : p \in {page} \cap DOMAIN page_table_}
        /\ answer'.remapped = (page \in remapped)
    BY DEF Memory!Answer
  <1>2. answer'.frames = {page_table_[page]}
    BY <1>1
  <1>3. /\ Memory!offset(answer'.physical_addr) = Memory!offset(address)
        /\ Memory!vpn(answer'.physical_addr) = pfn % (WORD \div PAGE_SIZE)
    BY <1>1, PhysicalSplits
  <1>4. ~answer'.remapped => pfn = page_table_[page]
    BY <1>1
  <1> HIDE DEF page
  <1>5. \A g \in answer'.frames : ~answer'.remapped =>
            Memory!vpn(answer'.physical_addr) = g % (WORD \div PAGE_SIZE)
    BY <1>2, <1>3, <1>4
  <1> QED
    BY <1>1, <1>2, <1>3, <1>5 DEF Memory!AnswersRight, Memory!offset, Memory!vpn

(* Nothing is mapped, nothing was asked. *)
LEMMA MemoryInit == Memory!Init => MemoryInv
  <1> SUFFICES ASSUME Memory!Init PROVE MemoryInv
    OBVIOUS
  <1>1. CacheInv
    BY CacheInit, SystemsAssumption
  <1>2. DOMAIN page_table_ = {}
    BY DEF Memory!Init
  <1>3. MemoryTyped
    <2>1. tlb_next_ \in 0 .. TLB_SIZE - 1 /\ DOMAIN tlb_ = 1 .. TLB_SIZE
      BY <1>1 DEF CacheInv, Typed
    <2>2. Memory!Range(page_table_) = {}
      BY <1>2 DEF Memory!Range
    <2>3. page_faults_ = 0 /\ tlb_misses_ = 0
      BY DEF Memory!Init
    <2> QED
      BY <1>2, <2>1, <2>2, <2>3 DEF MemoryTyped, Memory!TypeOK
  <1>4. Memory!AnswersRight
    BY DEF Memory!Init, Memory!AnswersRight
  <1> QED
    BY <1>1, <1>3, <1>4 DEF MemoryInv

(* The counters and the page table keep their types. *)
LEMMA MemoryTypes ==
    ASSUME CacheInv, CacheInv', MemoryTyped, [Memory!Next]_(Memory!vars) PROVE MemoryTyped'
  <1>1. tlb_next_' \in 0 .. TLB_SIZE - 1 /\ DOMAIN tlb_' = 1 .. TLB_SIZE
    BY DEF CacheInv, Typed
  <1>2. ASSUME NEW page \in Pages, NEW frame \in Frames, Memory!mapPage(page, frame) PROVE MemoryTyped'
    <2>1. /\ page_table_' = [p \in DOMAIN page_table_ \cup {page} |-> IF p = page THEN frame ELSE page_table_[p]]
          /\ UNCHANGED <<tlb_misses_, page_faults_>>
      BY <1>2 DEF Memory!mapPage, Memory!stats
    <2>2. DOMAIN page_table_' \subseteq Pages /\ Memory!Range(page_table_)' \subseteq Frames
      BY <2>1 DEF MemoryTyped, Memory!TypeOK, Memory!Range
    <2> QED
      BY <1>1, <2>1, <2>2 DEF MemoryTyped, Memory!TypeOK
  <1>3. ASSUME NEW address \in Memory!Addresses,
               \/ Memory!translateHit(address) \/ Memory!translateFault(address)
               \/ Memory!translateWalk(address)
        PROVE  MemoryTyped'
    <2>1. /\ page_table_' = page_table_
          /\ \/ tlb_misses_' = tlb_misses_ /\ page_faults_' = page_faults_
             \/ tlb_misses_' = tlb_misses_ + 1 /\ page_faults_' \in {page_faults_, page_faults_ + 1}
      BY <1>3 DEF Memory!translateHit, Memory!translateFault, Memory!translateWalk
    <2> QED
      BY <1>1, <2>1 DEF MemoryTyped, Memory!TypeOK, Memory!Range
  <1>4. CASE Memory!flushTLB \/ UNCHANGED Memory!vars
    <2>1. UNCHANGED <<page_table_, tlb_misses_, page_faults_>>
      BY <1>4 DEF Memory!flushTLB, Memory!vars, Memory!stats
    <2> QED
      BY <1>1, <2>1 DEF MemoryTyped, Memory!TypeOK, Memory!Range
  <1> QED
    BY <1>2, <1>3, <1>4 DEF Memory!Next

(* Each way translate ends gives a right answer (lines 57-86). *)
LEMMA AnswersStayRight ==
    ASSUME MemoryInv, [Memory!Next]_(Memory!vars) PROVE Memory!AnswersRight'
  <1>1. CacheInv /\ Memory!AnswersRight
    BY DEF MemoryInv
  <1>2. /\ tlb_ \in [1 .. TLB_SIZE -> [vpn : VPNs, pfn : Frames \cup {0}, valid : BOOLEAN]]
        /\ \A p \in DOMAIN page_table_ : page_table_[p] \in Frames
    BY <1>1 DEF CacheInv, Typed
  <1>3. Frames \cup {0} \subseteq Nat /\ TLB_SIZE \in Nat
    BY SystemsAssumption
  <1>4. ASSUME answer' = answer PROVE Memory!AnswersRight'
    BY <1>1, <1>4 DEF Memory!AnswersRight, Memory!offset, Memory!vpn
  <1>5. ASSUME NEW address \in Memory!Addresses, Memory!translateHit(address) PROVE Memory!AnswersRight'
    <2> DEFINE cached == Memory!Cached(Memory!vpn(address))
               slot == CHOOSE k \in cached : \A l \in cached : k <= l
    <2>1. /\ cached # {} /\ cached \subseteq 1 .. TLB_SIZE
          /\ answer' = Memory!Answer(TRUE, Memory!physical(tlb_[slot].pfn, address), address, "TLB Hit")
      BY <1>2, <1>5 DEF Memory!translateHit, Memory!Cached
    <2>2. slot \in cached
      <3>1. cached \in SUBSET Nat
        <4>1. 1 .. TLB_SIZE \subseteq Nat
          BY <1>3
        <4> QED
          BY <2>1, <4>1
      <3>2. \E k \in cached : \A l \in cached : ~(l < k)
        BY <2>1, <3>1, LeastNumber
      <3>3. \E k \in cached : \A l \in cached : k <= l
        BY <3>1, <3>2
      <3> QED
        BY <3>3
    <2> HIDE DEF slot
    <2>3. slot \in 1 .. TLB_SIZE /\ tlb_[slot].valid /\ tlb_[slot].vpn = Memory!vpn(address)
      BY <1>2, <2>2 DEF Memory!Cached
    <2>4. tlb_[slot].pfn \in Nat
      BY <1>2, <1>3, <2>3
    <2>5. /\ Memory!vpn(address) \in DOMAIN page_table_
          /\ Memory!vpn(address) \notin remapped => tlb_[slot].pfn = page_table_[Memory!vpn(address)]
      BY <1>1, <1>2, <2>3 DEF CacheInv, Memory!StaleOnlyIfRemapped
    <2> QED
      BY <2>1, <2>4, <2>5, AnswerRight
  <1>6. ASSUME NEW address \in Memory!Addresses, Memory!translateWalk(address) PROVE Memory!AnswersRight'
    <2>1. /\ Memory!vpn(address) \in DOMAIN page_table_
          /\ answer' = Memory!Answer(TRUE, Memory!physical(page_table_[Memory!vpn(address)], address),
                                     address, "Page Table")
      BY <1>6 DEF Memory!translateWalk
    <2>2. page_table_[Memory!vpn(address)] \in Nat
      BY <1>2, <1>3, <2>1
    <2> QED
      BY <2>1, <2>2, AnswerRight
  <1>7. ASSUME NEW address \in Memory!Addresses, Memory!translateFault(address) PROVE Memory!AnswersRight'
    <2>1. /\ Memory!vpn(address) \notin DOMAIN page_table_
          /\ answer' = Memory!Answer(FALSE, 0, address, "Page Fault")
      BY <1>7 DEF Memory!translateFault
    <2>2. answer'.success = FALSE /\ answer'.frames = {}
      BY <2>1 DEF Memory!Answer
    <2> QED
      BY <2>2 DEF Memory!AnswersRight
  <1>8. CASE (\E page \in Pages, frame \in Frames : Memory!mapPage(page, frame))
             \/ Memory!flushTLB \/ UNCHANGED Memory!vars
    <2>1. answer' = answer
      BY <1>8 DEF Memory!mapPage, Memory!flushTLB, Memory!vars
    <2> QED
      BY <1>4, <2>1
  <1> QED
    BY <1>5, <1>6, <1>7, <1>8 DEF Memory!Next

(* Every call keeps the invariant. *)
LEMMA MemoryNext == MemoryInv /\ [Memory!Next]_(Memory!vars) => MemoryInv'
  <1> SUFFICES ASSUME MemoryInv, [Memory!Next]_(Memory!vars) PROVE MemoryInv'
    OBVIOUS
  <1>1. CacheInv'
    BY CacheStep, SystemsAssumption DEF MemoryInv
  <1>2. MemoryTyped'
    BY <1>1, MemoryTypes DEF MemoryInv
  <1>3. Memory!AnswersRight'
    BY AnswersStayRight
  <1> QED
    BY <1>1, <1>2, <1>3 DEF MemoryInv

(* The invariant says what the run checks. *)
LEMMA MemoryImplies == MemoryInv => Memory!TranslationsSound
  <1>1. CacheInv => Memory!CacheSound
    BY CacheInvSuffices, SystemsAssumption
  <1> QED
    BY <1>1 DEF MemoryInv, MemoryTyped, Memory!TranslationsSound

(* For every size of the TLB, of a page and of a word, and every sequence of
   mapPage, translate and flushTLB: the valid entries are those of the pages
   walked last, each once; an entry differs from the page table only if its
   page was mapped again; and translate's answers are right. *)
THEOREM TranslationsCorrect == Memory!Spec => []Memory!TranslationsSound
  BY MemoryInit, MemoryNext, MemoryImplies, PTL DEF Memory!Spec

-----------------------------------------------------------------------------
(* signal_handling.cpp.  A SIGUSR1 that comes between the reload and the reset
   of its flag is counted as missed before the reset can lose it. *)
SignalInv ==
    /\ Signals!TypeOK /\ g_shutdown_requested \in BOOLEAN /\ g_reload_requested \in BOOLEAN
    /\ unserved \in BOOLEAN /\ missed \in BOOLEAN
    /\ mainPc = "install" => installed < 4
    /\ mainPc \in {"check", "reload", "reset", "work"} => iteration < 3
    /\ mainPc = "reset" /\ unserved => missed
    /\ Signals!ReloadNotForgotten /\ Signals!ShutdownPrompt

(* No handler is installed and no flag is set. *)
LEMMA SignalInit == Signals!Init => SignalInv
  <1> SUFFICES ASSUME Signals!Init PROVE SignalInv
    OBVIOUS
  <1>1. Len(Signals!Signals) = 4
    BY DEF Signals!Signals
  <1>2. Signals!TypeOK
    BY <1>1, SystemsAssumption DEF Signals!Init, Signals!TypeOK
  <1>3. /\ g_shutdown_requested = FALSE /\ g_reload_requested = FALSE
        /\ unserved = FALSE /\ missed = FALSE
    BY DEF Signals!Init
  <1>4. Signals!ReloadNotForgotten /\ Signals!ShutdownPrompt
    BY <1>3 DEF Signals!Init, Signals!ReloadNotForgotten, Signals!ShutdownPrompt
  <1>5. mainPc = "install" /\ installed < 4
    BY DEF Signals!Init
  <1> QED
    BY <1>2, <1>3, <1>4, <1>5 DEF SignalInv

(* A signal at any moment, handled or killing. *)
LEMMA SignalKeeps ==
    ASSUME SignalInv, NEW k \in DOMAIN Signals!Signals, Signals!Signal(k) PROVE SignalInv'
  <1> USE SystemsAssumption
  <1>1. signals \in 0 .. MaxSignals /\ signals < MaxSignals /\ signals' = signals + 1
    BY DEF SignalInv, Signals!TypeOK, Signals!Signal
  <1>2. signals' \in 0 .. MaxSignals
    BY <1>1
  <1>3. CASE k > installed
    <2>1. /\ mainPc' \in {"killed", mainPc} /\ mainPc # "exit"
          /\ UNCHANGED <<installed, iteration, overtime>>
      BY <1>3 DEF Signals!Signal
    <2>2. mainPc' = "killed" /\ UNCHANGED <<g_shutdown_requested, g_reload_requested, unserved, missed>>
      <3>1. ~(k <= installed)
        BY <1>3 DEF SignalInv, Signals!TypeOK, Signals!Signals
      <3> QED
        BY <3>1 DEF Signals!Signal
    <2> QED
      BY <1>2, <2>1, <2>2 DEF SignalInv, Signals!TypeOK, Signals!ReloadNotForgotten, Signals!ShutdownPrompt
  <1>4. CASE ~(k > installed)
    <2>1. Signals!Handle(Signals!Signals[k]) /\ UNCHANGED <<mainPc, installed, iteration, overtime>>
      BY <1>4 DEF Signals!Signal
    <2> QED
      BY <1>2, <2>1 DEF SignalInv, Signals!TypeOK, Signals!ReloadNotForgotten, Signals!ShutdownPrompt,
                        Signals!Handle
  <1> QED
    BY <1>3, <1>4

(* The steps of main. *)
LEMMA MainKeeps ==
    ASSUME SignalInv, Signals!Main PROVE SignalInv'
  <1> USE SystemsAssumption DEF SignalInv, Signals!TypeOK, Signals!ReloadNotForgotten,
                                Signals!ShutdownPrompt
  <1>1. CASE Signals!installSignalHandlers
    <2>1. Len(Signals!Signals) = 4
      BY DEF Signals!Signals
    <2> QED
      BY <1>1, <2>1 DEF Signals!installSignalHandlers
  <1>2. CASE Signals!KillSelf
    BY <1>2 DEF Signals!KillSelf, Signals!Handle
  <1>3. CASE Signals!Test
    BY <1>3 DEF Signals!Test
  <1>4. CASE Signals!Check
    BY <1>4 DEF Signals!Check
  <1>5. CASE Signals!Reload
    BY <1>5 DEF Signals!Reload
  <1>6. CASE Signals!Reset
    BY <1>6 DEF Signals!Reset
  <1>7. CASE Signals!Work
    BY <1>7 DEF Signals!Work
  <1> QED
    BY <1>1, <1>2, <1>3, <1>4, <1>5, <1>6, <1>7 DEF Signals!Main

(* Signals and main in any interleaving. *)
LEMMA SignalNext == SignalInv /\ [Signals!Next]_(Signals!vars) => SignalInv'
  <1> SUFFICES ASSUME SignalInv, [Signals!Next]_(Signals!vars) PROVE SignalInv'
    OBVIOUS
  <1>1. CASE UNCHANGED Signals!vars
    BY <1>1 DEF Signals!vars, SignalInv, Signals!TypeOK, Signals!ReloadNotForgotten, Signals!ShutdownPrompt
  <1> QED
    BY <1>1, SignalKeeps, MainKeeps DEF Signals!Next

(* However many signals interrupt main wherever, a reload request is forgotten
   only in the window between reload and reset, and a shutdown request stops
   the loop before its next iteration. *)
THEOREM SignalsCorrect == Signals!Init /\ [][Signals!Next]_(Signals!vars) => []Signals!SignalsSound
  <1>1. SignalInv => Signals!SignalsSound
    BY DEF SignalInv, Signals!SignalsSound
  <1> QED
    BY <1>1, SignalInit, SignalNext, PTL

-----------------------------------------------------------------------------
(* epoll_server.cpp.  A client's event is in a batch at most once, and has a
   reason: unread bytes, the end of the stream or a reset, so that a read of no
   bytes means one of the last two. *)
ServerTyped ==
    /\ net \in [Clients -> {"away", "waiting", "open", "closed"}]
    /\ fd \in [Clients -> Fds \cup {0}]
    /\ sent \in [Clients -> Nat] /\ unread \in [Clients -> Nat]
    /\ echoed \in [Clients -> Nat] /\ lost \in [Clients -> Nat]
    /\ batch \in Seq((Fds \cup {0}) \X (Clients \cup {0})) /\ handled \in Nat
    /\ Epoll!TypeOK

BatchSound ==
    /\ \A k, l \in 1 .. Len(batch) : k # l => batch[k] # batch[l]
    /\ \A k \in 1 .. Len(batch) :
           IF batch[k][1] = 0 THEN batch[k][2] = 0
           ELSE batch[k][2] \in Epoll!Open /\ fd[batch[k][2]] = batch[k][1]

OneDescriptorEach == \A c, d \in Epoll!Open : c # d => fd[c] # fd[d]

InBatch(c) == \E k \in 1 .. Len(batch) : batch[k][2] = c

EventsHaveReason ==
    \A c \in Clients : c \in edge \/ InBatch(c) => unread[c] > 0 \/ c \in Epoll!Gone

Stranded ==
    \A c \in Epoll!Open : unread[c] > 0 /\ c \notin edge /\ ~InBatch(c) => c \in full

LeftOpen ==
    \A c \in Epoll!Open : c \in Epoll!Gone /\ c \notin edge /\ ~InBatch(c) => unread[c] < sent[c]

EventsLeft == handled + Len(batch) < MaxHandled + MAX_EVENTS

ServerInv ==
    /\ ServerTyped /\ BatchSound /\ OneDescriptorEach /\ EventsHaveReason
    /\ Epoll!BytesAccounted /\ Stranded /\ LeftOpen /\ EventsLeft

LEMMA SameMin ==
    ASSUME NEW S PROVE Epoll!Min(S) = Min(S)
  BY DEF Epoll!Min, Min

(* What epoll_wait returns lists every event once. *)
LEMMA BatchLists ==
    ASSUME NEW events, IsFiniteSet(events), NEW list \in Epoll!SetToSeqs(events)
    PROVE  /\ list \in Seq(events) /\ Len(list) = Cardinality(events) /\ Len(list) \in Nat
           /\ \A k, l \in 1 .. Len(list) : k # l => list[k] # list[l]
           /\ \A e \in events : \E k \in 1 .. Len(list) : list[k] = e
  <1> DEFINE n == Cardinality(events)
  <1>1. n \in Nat
    BY FS_CardinalityType
  <1>2. list \in [1 .. n -> events] /\ \A k, l \in 1 .. n : k # l => list[k] # list[l]
    <2>1. Epoll!Cardinality(events) = n
      BY DEF Epoll!Cardinality, Cardinality
    <2> QED
      BY <2>1 DEF Epoll!SetToSeqs
  <1> HIDE DEF n
  <1>3. list \in Injection(1 .. n, events)
    BY <1>2 DEF Injection, IsInjective
  <1>4. Cardinality(1 .. n) = n
    BY <1>1, FS_Interval
  <1>5. list \in Surjection(1 .. n, events)
    BY <1>3, <1>4, FS_Injection DEF n
  <1>6. list \in Seq(events) /\ Len(list) = n
    BY <1>1, <1>2
  <1> QED
    BY <1>1, <1>2, <1>5, <1>6 DEF Surjection, n

(* There are finitely many events to report. *)
LEMMA ReportableFinite ==
    ASSUME ServerTyped
    PROVE  IsFiniteSet(Epoll!Reportable)
  <1> DEFINE ofEdge == {<<fd[c], c>> : c \in edge}
             pair == [c \in edge |-> <<fd[c], c>>]
             ofServer == {<<Epoll!SERVER, Epoll!SERVER>> : c \in Epoll!Waiting}
  <1>1. IsFiniteSet(edge)
    BY SystemsAssumption, FS_Subset DEF ServerTyped, Epoll!TypeOK, Epoll!Open
  <1>2. pair \in Surjection(edge, ofEdge)
    BY DEF Surjection
  <1>3. IsFiniteSet(ofEdge)
    BY <1>1, <1>2, FS_Surjection
  <1>4. ofServer \subseteq {<<Epoll!SERVER, Epoll!SERVER>>}
    OBVIOUS
  <1>5. IsFiniteSet(ofServer)
    BY <1>4, FS_Singleton, FS_Subset
  <1>6. IsFiniteSet(ofEdge \cup ofServer)
    BY <1>3, <1>5, FS_Union
  <1> QED
    BY <1>6 DEF Epoll!Reportable

(* Nobody has connected. *)
LEMMA ServerInit == Epoll!Init => ServerInv
  <1> SUFFICES ASSUME Epoll!Init PROVE ServerInv
    OBVIOUS
  <1> USE SystemsAssumption DEF Epoll!Init, Epoll!SERVER
  <1>1. Epoll!Open = {} /\ Len(batch) = 0
    BY DEF Epoll!Open
  <1>2. batch \in Seq((Fds \cup {0}) \X (Clients \cup {0}))
    OBVIOUS
  <1>3. ServerTyped
    BY <1>1, <1>2 DEF ServerTyped, Epoll!TypeOK, Epoll!Gone
  <1>4. BatchSound /\ OneDescriptorEach /\ EventsHaveReason /\ Stranded /\ LeftOpen
    BY <1>1 DEF BatchSound, OneDescriptorEach, EventsHaveReason, Stranded, LeftOpen, InBatch
  <1>5. Epoll!BytesAccounted
    BY DEF Epoll!BytesAccounted
  <1>6. EventsLeft
    <2>1. handled = 0 /\ MaxHandled \in Nat /\ MAX_EVENTS \in Nat \ {0}
      OBVIOUS
    <2> QED
      BY <1>1, <2>1 DEF EventsLeft
  <1> QED
    BY <1>3, <1>4, <1>5, <1>6 DEF ServerInv

(* What a client does: it connects, sends, hangs up or resets the connection. *)
LEMMA ClientKeeps ==
    ASSUME ServerInv, NEW c \in Clients, Epoll!Connect(c) \/ Epoll!Send(c) \/ Epoll!Hangup(c) \/ Epoll!Abort(c)
    PROVE  ServerInv'
  <1> USE DEF ServerInv
  <1>1. fd' = fd /\ batch' = batch /\ echoed' = echoed /\ lost' = lost /\ full' = full /\ handled' = handled
    BY DEF Epoll!Connect, Epoll!Send, Epoll!Hangup, Epoll!Abort, Epoll!serverVars
  <1>2. /\ net' \in [Clients -> {"away", "waiting", "open", "closed"}] /\ Epoll!Open' = Epoll!Open
        /\ \A d \in Clients : net'[d] = "closed" => net[d] = "closed" /\ d # c
    BY DEF Epoll!Connect, Epoll!Send, Epoll!Hangup, Epoll!Abort, ServerTyped, Epoll!Open
  <1>3. /\ sent' \in [Clients -> Nat] /\ unread' \in [Clients -> Nat]
        /\ \A d \in Clients : unread[d] \in Nat /\ unread'[d] \in Nat /\ unread'[d] >= unread[d]
        /\ \A d \in Clients : d # c => unread'[d] = unread[d] /\ sent'[d] = sent[d]
        /\ echoed[c] + lost[c] + unread'[c] = sent'[c]
        /\ unread[c] < sent[c] => unread'[c] < sent'[c]
    <2>1. sent[c] \in Nat /\ unread[c] \in Nat /\ echoed[c] \in Nat /\ lost[c] \in Nat
      BY DEF ServerTyped
    <2>2. echoed[c] + lost[c] + unread[c] = sent[c]
      BY DEF Epoll!BytesAccounted
    <2>3. CASE Epoll!Send(c)
      <3>1. PICK n \in 1 .. MaxSent - sent[c] :
                sent' = [sent EXCEPT ![c] = sent[c] + n] /\ unread' = [unread EXCEPT ![c] = unread[c] + n]
        BY <2>3 DEF Epoll!Send
      <3>2. n \in Nat
        BY <2>1, <3>1, SystemsAssumption
      <3>3. /\ sent' \in [Clients -> Nat] /\ unread' \in [Clients -> Nat]
            /\ sent'[c] = sent[c] + n /\ unread'[c] = unread[c] + n
            /\ \A d \in Clients : d # c => unread'[d] = unread[d] /\ sent'[d] = sent[d]
        BY <2>1, <3>1, <3>2 DEF ServerTyped
      <3>4. /\ unread'[c] >= unread[c] /\ echoed[c] + lost[c] + unread'[c] = sent'[c]
            /\ unread[c] < sent[c] => unread'[c] < sent'[c]
        BY <2>1, <2>2, <3>2, <3>3
      <3>5. \A d \in Clients : unread[d] \in Nat /\ unread'[d] \in Nat
        BY <3>3 DEF ServerTyped
      <3> QED
        BY <3>3, <3>4, <3>5
    <2>4. CASE ~Epoll!Send(c)
      <3>1. sent' = sent /\ unread' = unread
        BY <2>4 DEF Epoll!Connect, Epoll!Hangup, Epoll!Abort
      <3> QED
        BY <2>2, <3>1 DEF ServerTyped
    <2> QED
      BY <2>3, <2>4
  <1>4. /\ Epoll!Gone \subseteq Epoll!Gone' /\ Epoll!Gone' \subseteq Clients /\ aborted \subseteq aborted'
        /\ edge \subseteq edge' /\ edge' \subseteq Epoll!Open
        /\ \A d \in edge' \ edge : unread'[d] > 0 \/ d \in Epoll!Gone'
        /\ \A d \in Epoll!Open : d \notin edge' => d # c
        /\ \A d \in Clients : d # c => (d \in Epoll!Gone' <=> d \in Epoll!Gone)
    <2>1. Epoll!Gone \subseteq Clients /\ edge \subseteq Epoll!Open
      BY DEF ServerTyped, Epoll!TypeOK
    <2>2. CASE Epoll!Send(c)
      <3>1. PICK n \in 1 .. MaxSent - sent[c] : unread' = [unread EXCEPT ![c] = unread[c] + n]
        BY <2>2 DEF Epoll!Send
      <3>2. unread[c] \in Nat /\ unread'[c] = unread[c] + n
        BY <3>1 DEF ServerTyped
      <3>3. unread'[c] > 0
        BY <3>2
      <3>4. hangup' = hangup /\ aborted' = aborted /\ Epoll!Arrived(c)
        BY <2>2 DEF Epoll!Send
      <3>5. Epoll!Gone' = Epoll!Gone
        BY <3>4 DEF Epoll!Gone
      <3> QED
        BY <2>1, <3>3, <3>4, <3>5 DEF Epoll!Arrived, Epoll!Open
    <2>3. CASE Epoll!Hangup(c) \/ Epoll!Abort(c)
      <3>1. Epoll!Gone' = Epoll!Gone \cup {c} /\ aborted \subseteq aborted' /\ Epoll!Arrived(c)
        BY <2>3 DEF Epoll!Hangup, Epoll!Abort, Epoll!Gone
      <3> QED
        BY <2>1, <3>1 DEF Epoll!Arrived, Epoll!Open
    <2>4. CASE Epoll!Connect(c)
      <3>1. hangup' = hangup /\ aborted' = aborted /\ edge' = edge /\ c \notin Epoll!Open
        BY <2>4 DEF Epoll!Connect, Epoll!Open
      <3>2. Epoll!Gone' = Epoll!Gone
        BY <3>1 DEF Epoll!Gone
      <3> QED
        BY <2>1, <3>1, <3>2
    <2> QED
      BY <2>2, <2>3, <2>4
  <1>5. ServerTyped'
    <2>1. Epoll!TypeOK'
      BY <1>1, <1>2, <1>4 DEF ServerTyped, Epoll!TypeOK
    <2> QED
      BY <1>1, <1>2, <1>3, <2>1 DEF ServerTyped
  <1>6. BatchSound' /\ OneDescriptorEach' /\ EventsLeft'
    BY <1>1, <1>2 DEF BatchSound, OneDescriptorEach, EventsLeft
  <1>7. EventsHaveReason'
    <2> SUFFICES ASSUME NEW d \in Clients, d \in edge' \/ InBatch(d) PROVE unread'[d] > 0 \/ d \in Epoll!Gone'
      BY <1>1 DEF EventsHaveReason, InBatch
    <2>1. CASE d \in edge \/ InBatch(d)
      BY <1>3, <1>4, <2>1 DEF EventsHaveReason
    <2> QED
      BY <1>4, <2>1
  <1>8. Stranded' /\ LeftOpen'
    <2> SUFFICES ASSUME NEW d \in Epoll!Open, d \notin edge', ~InBatch(d)
                 PROVE  /\ unread'[d] > 0 => d \in full
                        /\ d \in Epoll!Gone' => unread'[d] < sent'[d]
      BY <1>1, <1>2 DEF Stranded, LeftOpen, InBatch
    <2>1. d \in Clients /\ d # c /\ d \notin edge
      BY <1>4 DEF Epoll!Open
    <2> QED
      BY <1>3, <1>4, <2>1 DEF Stranded, LeftOpen
  <1>9. Epoll!BytesAccounted'
    <2> SUFFICES ASSUME NEW d \in Clients
                 PROVE  /\ echoed[d] + lost[d] + unread'[d] = sent'[d]
                        /\ net'[d] = "closed" => d \in Epoll!Gone' /\ (d \in aborted' \/ unread'[d] = 0)
      BY <1>1 DEF Epoll!BytesAccounted
    <2>1. CASE d = c
      BY <1>2, <1>3, <2>1
    <2>2. CASE d # c
      BY <1>2, <1>3, <1>4, <2>2 DEF Epoll!BytesAccounted
    <2> QED
      BY <2>1, <2>2
  <1> QED
    BY <1>5, <1>6, <1>7, <1>8, <1>9

(* epoll_wait moves pending edges into the batch. *)
LEMMA WaitKeeps ==
    ASSUME ServerInv, Epoll!epoll_wait PROVE ServerInv'
  <1> USE DEF ServerInv
  <1>1. PICK events \in SUBSET Epoll!Reportable :
            /\ Epoll!Cardinality(events) = Epoll!Min({MAX_EVENTS, Epoll!Cardinality(Epoll!Reportable)})
            /\ batch' \in Epoll!SetToSeqs(events) /\ edge' = edge \ {e[2] : e \in events}
    BY DEF Epoll!epoll_wait
  <1>2. /\ handled < MaxHandled /\ batch = <<>>
        /\ UNCHANGED <<net, fd, sent, unread, hangup, aborted, echoed, lost, full, handled>>
    BY DEF Epoll!epoll_wait
  <1>3. IsFiniteSet(events) /\ IsFiniteSet(Epoll!Reportable)
    BY ReportableFinite, FS_Subset
  <1>4. /\ batch' \in Seq(events) /\ Len(batch') = Cardinality(events) /\ Len(batch') \in Nat
        /\ \A k, l \in 1 .. Len(batch') : k # l => batch'[k] # batch'[l]
        /\ \A e \in events : \E k \in 1 .. Len(batch') : batch'[k] = e
    BY <1>1, <1>3, BatchLists
  <1>5. \A e \in events : \/ e = <<0, 0>>
                          \/ \E c \in edge : e = <<fd[c], c>>
    BY DEF Epoll!Reportable, Epoll!SERVER
  <1>6. \A c \in edge : c \in Epoll!Open /\ c \in Clients /\ c # 0 /\ fd[c] \in Fds /\ fd[c] # 0
    BY SystemsAssumption DEF ServerTyped, Epoll!TypeOK, Epoll!Open
  <1>7. \A k \in 1 .. Len(batch') : batch'[k] \in events
    BY <1>4
  <1>8. Epoll!Open' = Epoll!Open /\ Epoll!Gone' = Epoll!Gone
    BY <1>2 DEF Epoll!Open, Epoll!Gone
  <1>9. ServerTyped'
    <2>1. events \subseteq (Fds \cup {0}) \X (Clients \cup {0})
      BY <1>5, <1>6
    <2>2. batch' \in Seq((Fds \cup {0}) \X (Clients \cup {0}))
      BY <1>4, <2>1
    <2>3. Epoll!TypeOK'
      BY <1>1, <1>2, <1>8 DEF ServerTyped, Epoll!TypeOK
    <2> QED
      BY <1>2, <2>2, <2>3 DEF ServerTyped
  <1>10. BatchSound'
    <2> SUFFICES ASSUME NEW k \in 1 .. Len(batch')
                 PROVE  IF batch'[k][1] = 0 THEN batch'[k][2] = 0
                        ELSE batch'[k][2] \in Epoll!Open /\ fd[batch'[k][2]] = batch'[k][1]
      BY <1>2, <1>4, <1>8 DEF BatchSound
    <2>1. CASE batch'[k] = <<0, 0>>
      BY <2>1
    <2>2. CASE \E c \in edge : batch'[k] = <<fd[c], c>>
      BY <1>6, <2>2
    <2> QED
      BY <1>5, <1>7, <2>1, <2>2
  <1>11. OneDescriptorEach' /\ Epoll!BytesAccounted'
    BY <1>2, <1>8 DEF OneDescriptorEach, Epoll!BytesAccounted
  <1>12. \A c \in Clients : InBatch(c)' <=> c \in edge \ edge'
    <2> SUFFICES ASSUME NEW c \in Clients
                 PROVE  (\E k \in 1 .. Len(batch') : batch'[k][2] = c) <=> c \in edge \ edge'
      BY DEF InBatch
    <2>1. c # 0
      BY SystemsAssumption
    <2>2. ASSUME NEW k \in 1 .. Len(batch'), batch'[k][2] = c PROVE c \in edge /\ c \notin edge'
      <3>1. batch'[k] \in events /\ batch'[k] # <<0, 0>>
        BY <1>7, <2>1, <2>2
      <3> QED
        BY <1>1, <1>5, <2>2, <3>1
    <2>3. ASSUME c \in edge, c \notin edge' PROVE \E k \in 1 .. Len(batch') : batch'[k][2] = c
      <3>1. PICK e \in events : c = e[2]
        BY <1>1, <2>3
      <3> QED
        BY <1>4, <3>1
    <2> QED
      BY <2>2, <2>3
  <1>13. EventsHaveReason'
    BY <1>1, <1>2, <1>8, <1>12 DEF EventsHaveReason, InBatch
  <1>14. Stranded' /\ LeftOpen'
    <2>1. \A c \in Clients : ~InBatch(c)
      BY <1>2 DEF InBatch
    <2>2. Epoll!Open \subseteq Clients
      BY DEF Epoll!Open
    <2> QED
      BY <1>1, <1>2, <1>8, <1>12, <2>1, <2>2 DEF Stranded, LeftOpen
  <1>15. EventsLeft'
    <2>1. MAX_EVENTS \in Nat /\ MaxHandled \in Nat /\ Cardinality(Epoll!Reportable) \in Nat
      BY <1>3, FS_CardinalityType, SystemsAssumption
    <2>2. /\ Epoll!Cardinality(events) = Cardinality(events)
          /\ Epoll!Cardinality(Epoll!Reportable) = Cardinality(Epoll!Reportable)
      BY DEF Epoll!Cardinality, Cardinality
    <2>3. Epoll!Min({MAX_EVENTS, Cardinality(Epoll!Reportable)}) <= MAX_EVENTS
      BY <2>1, MinOfTwo, SameMin
    <2>4. Cardinality(events) = Epoll!Min({MAX_EVENTS, Cardinality(Epoll!Reportable)})
      BY <1>1, <2>2, Zenon
    <2>5. Cardinality(events) <= MAX_EVENTS
      BY <2>3, <2>4
    <2> QED
      BY <1>2, <1>4, <2>1, <2>5 DEF EventsLeft, ServerTyped
  <1> QED
    BY <1>9, <1>10, <1>11, <1>13, <1>14, <1>15

(* What is left of the batch once the loop has taken an event from it. *)
LEMMA EventTaken ==
    ASSUME ServerTyped, BatchSound, batch # <<>>, batch' = Tail(batch)
    PROVE  /\ 1 \in 1 .. Len(batch) /\ Head(batch) = batch[1]
           /\ batch' \in Seq((Fds \cup {0}) \X (Clients \cup {0})) /\ Len(batch') = Len(batch) - 1
           /\ \A k \in 1 .. Len(batch') : k + 1 \in 1 .. Len(batch) /\ batch'[k] = batch[k + 1]
           /\ \A k \in 1 .. Len(batch') : batch'[k] # batch[1]
           /\ \A k, l \in 1 .. Len(batch') : k # l => batch'[k] # batch'[l]
           /\ \A c : InBatch(c) <=> batch[1][2] = c \/ InBatch(c)'
  <1>1. batch \in Seq((Fds \cup {0}) \X (Clients \cup {0}))
    BY DEF ServerTyped
  <1>2. Len(batch) \in Nat \ {0} /\ Head(batch) = batch[1] /\ Len(batch') = Len(batch) - 1
    BY <1>1
  <1>3. /\ batch' \in Seq((Fds \cup {0}) \X (Clients \cup {0}))
        /\ \A k \in 1 .. Len(batch') : k + 1 \in 1 .. Len(batch) /\ batch'[k] = batch[k + 1]
    BY <1>1, <1>2
  <1>4. /\ \A k \in 1 .. Len(batch') : batch'[k] # batch[1]
        /\ \A k, l \in 1 .. Len(batch') : k # l => batch'[k] # batch'[l]
    BY <1>2, <1>3 DEF BatchSound
  <1>5. \A k \in 1 .. Len(batch) : k = 1 \/ (k - 1 \in 1 .. Len(batch') /\ batch'[k - 1] = batch[k])
    BY <1>2, <1>3
  <1>6. ASSUME NEW c PROVE InBatch(c) <=> batch[1][2] = c \/ InBatch(c)'
    <2>1. InBatch(c) => batch[1][2] = c \/ \E k \in 1 .. Len(batch') : batch'[k][2] = c
      BY <1>5 DEF InBatch
    <2>2. ASSUME NEW k \in 1 .. Len(batch'), batch'[k][2] = c PROVE InBatch(c)
      BY <1>3, <2>2 DEF InBatch
    <2>3. batch[1][2] = c => InBatch(c)
      BY <1>2 DEF InBatch
    <2> QED
      BY <2>1, <2>2, <2>3 DEF InBatch
  <1> QED
    BY <1>2, <1>3, <1>4, <1>6

(* accept gives the new connection a descriptor that no open one has. *)
LEMMA AcceptKeeps ==
    ASSUME ServerInv, Epoll!Accept PROVE ServerInv'
  <1> USE DEF ServerInv
  <1>1. /\ batch # <<>> /\ Head(batch)[1] = 0 /\ batch' = Tail(batch)
        /\ UNCHANGED <<sent, unread, hangup, aborted, echoed, lost, full, handled>> /\ Epoll!Gone' = Epoll!Gone
    BY DEF Epoll!Accept, Epoll!SERVER, Epoll!Gone
  <1>2. /\ 1 \in 1 .. Len(batch) /\ Head(batch) = batch[1]
        /\ batch' \in Seq((Fds \cup {0}) \X (Clients \cup {0})) /\ Len(batch') = Len(batch) - 1
        /\ \A k \in 1 .. Len(batch') : k + 1 \in 1 .. Len(batch) /\ batch'[k] = batch[k + 1]
        /\ \A k \in 1 .. Len(batch') : batch'[k] # batch[1]
        /\ \A k, l \in 1 .. Len(batch') : k # l => batch'[k] # batch'[l]
        /\ \A c : InBatch(c) <=> batch[1][2] = c \/ InBatch(c)'
    BY <1>1, EventTaken
  <1>3. \A c \in Clients : InBatch(c) <=> InBatch(c)'
    <2>1. batch[1][2] = 0
      BY <1>1, <1>2 DEF BatchSound
    <2> QED
      BY <1>2, <2>1, SystemsAssumption
  <1>4. EventsLeft'
    <2>1. Len(batch) \in Nat /\ handled \in Nat /\ MaxHandled \in Nat /\ MAX_EVENTS \in Nat
      BY SystemsAssumption DEF ServerTyped
    <2> QED
      BY <1>1, <1>2, <2>1 DEF EventsLeft
  <1>5. CASE UNCHANGED <<net, fd, edge>>
    <2>1. Epoll!Open' = Epoll!Open
      BY <1>5 DEF Epoll!Open
    <2>2. ServerTyped'
      BY <1>1, <1>2, <1>5, <2>1 DEF ServerTyped, Epoll!TypeOK
    <2>3. BatchSound'
      <3>1. ASSUME NEW k \in 1 .. Len(batch')
            PROVE  IF batch'[k][1] = 0 THEN batch'[k][2] = 0
                   ELSE batch'[k][2] \in Epoll!Open' /\ fd'[batch'[k][2]] = batch'[k][1]
        <4>1. k + 1 \in 1 .. Len(batch) /\ batch'[k] = batch[k + 1]
          BY <1>2
        <4> QED
          BY <1>5, <2>1, <4>1 DEF BatchSound
      <3> QED
        BY <1>2, <3>1 DEF BatchSound
    <2>4. OneDescriptorEach' /\ Epoll!BytesAccounted'
      BY <1>1, <1>5, <2>1 DEF OneDescriptorEach, Epoll!BytesAccounted
    <2>5. EventsHaveReason'
      BY <1>1, <1>3, <1>5 DEF EventsHaveReason
    <2>6. Stranded' /\ LeftOpen'
      <3>1. Epoll!Open \subseteq Clients
        BY DEF Epoll!Open
      <3> QED
        BY <1>1, <1>3, <1>5, <2>1, <3>1 DEF Stranded, LeftOpen
    <2> QED
      BY <1>4, <2>2, <2>3, <2>4, <2>5, <2>6
  <1>6. CASE ~UNCHANGED <<net, fd, edge>>
    <2>1. Epoll!Free # {}
      BY <1>6 DEF Epoll!Accept
    <2>2. PICK c \in Epoll!Waiting :
              /\ net' = [net EXCEPT ![c] = "open"] /\ fd' = [fd EXCEPT ![c] = Epoll!Min(Epoll!Free)]
              /\ edge' = IF unread[c] > 0 \/ c \in Epoll!Gone THEN edge \cup {c} ELSE edge
      BY <1>6 DEF Epoll!Accept
    <2>3. Epoll!Min(Epoll!Free) \in Epoll!Free
      <3>1. Epoll!Free \in SUBSET Nat
        BY SystemsAssumption DEF Epoll!Free
      <3> QED
        BY <2>1, <3>1, MinIsLeast, SameMin
    <2>4. c \in Clients /\ c \notin Epoll!Open /\ net[c] = "waiting"
      BY DEF Epoll!Waiting, Epoll!Open
    <2>5. /\ net' \in [Clients -> {"away", "waiting", "open", "closed"}]
          /\ Epoll!Open' = Epoll!Open \cup {c} /\ Epoll!Open \subseteq Clients
          /\ \A d \in Clients : d # c => net'[d] = net[d]
      BY <2>2, <2>4 DEF ServerTyped, Epoll!Open
    <2>6. /\ fd' \in [Clients -> Fds \cup {0}] /\ fd'[c] \in Epoll!Free
          /\ \A d \in Epoll!Open : fd'[d] = fd[d] /\ fd[d] \in Fds /\ fd'[c] # fd[d]
      <3>1. fd \in [Clients -> Fds \cup {0}] /\ \A d \in Epoll!Open : fd[d] \in Fds
        BY DEF ServerTyped, Epoll!TypeOK
      <3>2. Epoll!Free \subseteq Fds /\ \A d \in Epoll!Open : fd[d] \notin Epoll!Free
        BY DEF Epoll!Free
      <3>3. fd' \in [Clients -> Fds \cup {0}] /\ fd'[c] \in Epoll!Free /\ \A d \in Clients : d # c => fd'[d] = fd[d]
        BY <2>2, <2>3, <2>4, <3>1, <3>2
      <3> QED
        BY <2>4, <2>5, <3>1, <3>2, <3>3
    <2>7. ServerTyped'
      <3>1. Epoll!TypeOK'
        BY <1>1, <2>2, <2>4, <2>5, <2>6 DEF ServerTyped, Epoll!TypeOK, Epoll!Free
      <3> QED
        BY <1>1, <1>2, <2>5, <2>6, <3>1 DEF ServerTyped
    <2>8. BatchSound'
      <3>1. ASSUME NEW k \in 1 .. Len(batch')
            PROVE  IF batch'[k][1] = 0 THEN batch'[k][2] = 0
                   ELSE batch'[k][2] \in Epoll!Open' /\ fd'[batch'[k][2]] = batch'[k][1]
        <4>1. k + 1 \in 1 .. Len(batch) /\ batch'[k] = batch[k + 1]
          BY <1>2
        <4>2. IF batch'[k][1] = 0 THEN batch'[k][2] = 0
              ELSE batch'[k][2] \in Epoll!Open /\ fd[batch'[k][2]] = batch'[k][1]
          BY <4>1 DEF BatchSound
        <4> QED
          BY <2>5, <2>6, <4>2
      <3> QED
        BY <1>2, <3>1 DEF BatchSound
    <2>9. OneDescriptorEach'
      BY <2>5, <2>6 DEF OneDescriptorEach
    <2>10. Epoll!BytesAccounted'
      BY <1>1, <2>2, <2>4, <2>5 DEF Epoll!BytesAccounted, ServerTyped
    <2>11. EventsHaveReason'
      BY <1>1, <1>3, <2>2 DEF EventsHaveReason
    <2>12. Stranded' /\ LeftOpen'
      BY <1>1, <1>3, <2>2, <2>5 DEF Stranded, LeftOpen
    <2> QED
      BY <1>4, <2>7, <2>8, <2>9, <2>10, <2>11, <2>12
  <1> QED
    BY <1>5, <1>6

(* read finds the client of the event behind its descriptor. *)
LEMMA ReadKeeps ==
    ASSUME ServerInv, Epoll!Read PROVE ServerInv'
  <1> USE DEF ServerInv
  <1>1. /\ batch # <<>> /\ Head(batch)[1] # 0 /\ batch' = Tail(batch)
        /\ handled' = handled + 1 /\ UNCHANGED <<fd, sent, hangup, aborted>> /\ Epoll!Gone' = Epoll!Gone
    BY DEF Epoll!Read, Epoll!SERVER, Epoll!Gone
  <1>2. /\ 1 \in 1 .. Len(batch) /\ Head(batch) = batch[1]
        /\ batch' \in Seq((Fds \cup {0}) \X (Clients \cup {0})) /\ Len(batch') = Len(batch) - 1
        /\ \A k \in 1 .. Len(batch') : k + 1 \in 1 .. Len(batch) /\ batch'[k] = batch[k + 1]
        /\ \A k \in 1 .. Len(batch') : batch'[k] # batch[1]
        /\ \A k, l \in 1 .. Len(batch') : k # l => batch'[k] # batch'[l]
        /\ \A c : InBatch(c) <=> batch[1][2] = c \/ InBatch(c)'
    BY <1>1, EventTaken
  <1>3. PICK c \in Epoll!Open :
            c = batch[1][2] /\ fd[c] = batch[1][1] /\ fd[c] # 0 /\ c \in Clients /\ InBatch(c)
    BY <1>1, <1>2 DEF BatchSound, Epoll!Open, InBatch
  <1> DEFINE there == Epoll!Min({BUF, unread[c]})
  <1>4. Epoll!Owner(Head(batch)[1]) = c
    <2>1. \A d \in Epoll!Open : fd[d] = Head(batch)[1] <=> d = c
      BY <1>2, <1>3 DEF OneDescriptorEach
    <2> QED
      BY <1>3, <2>1 DEF Epoll!Owner
  <1>5. ~InBatch(c)'
    <2> SUFFICES ASSUME NEW k \in 1 .. Len(batch'), batch'[k][2] = c PROVE FALSE
      BY DEF InBatch
    <2>1. batch'[k] \in (Fds \cup {0}) \X (Clients \cup {0}) /\ batch[1] \in (Fds \cup {0}) \X (Clients \cup {0})
      BY <1>2 DEF ServerTyped
    <2>2. batch[k + 1][1] # 0
      BY <1>2, <1>3, SystemsAssumption DEF BatchSound
    <2>3. fd[batch[k + 1][2]] = batch[k + 1][1]
      BY <1>2, <2>2 DEF BatchSound
    <2>4. batch'[k][1] = batch[1][1]
      BY <1>2, <1>3, <2>3
    <2>5. /\ batch'[k] = <<batch'[k][1], batch'[k][2]>> /\ batch[1] = <<batch[1][1], batch[1][2]>>
      BY <2>1
    <2>6. batch'[k] = batch[1]
      BY <1>3, <2>4, <2>5
    <2> QED
      BY <1>2, <2>6
  <1>6. /\ BUF \in Nat \ {0} /\ unread[c] \in Nat /\ echoed[c] \in Nat /\ lost[c] \in Nat /\ sent[c] \in Nat
        /\ echoed[c] + lost[c] + unread[c] = sent[c]
    BY <1>3, SystemsAssumption DEF ServerTyped, Epoll!BytesAccounted
  <1>7. there \in {BUF, unread[c]} /\ there <= BUF /\ there <= unread[c] /\ there \in Nat
    BY <1>6, MinOfTwo, SameMin
  <1>8. PICK bytes \in Nat :
            /\ bytes \in {BUF, unread[c]} \/ (bytes = 0 /\ c \in aborted)
            /\ bytes <= BUF /\ bytes <= unread[c]
            /\ IF Epoll!Disconnected(bytes) THEN Epoll!Drop(c) ELSE Epoll!Echo(c, bytes)
    <2>1. PICK bytes \in Epoll!ReadResults(c) :
              IF Epoll!Disconnected(bytes) THEN Epoll!Drop(c) ELSE Epoll!Echo(c, bytes)
      BY <1>4 DEF Epoll!Read
    <2>2. bytes = there \/ (bytes = 0 /\ c \in aborted)
      BY <2>1 DEF Epoll!ReadResults
    <2> HIDE DEF there
    <2>3. bytes \in Nat /\ bytes <= BUF /\ bytes <= unread[c] /\ (bytes \in {BUF, unread[c]} \/ (bytes = 0 /\ c \in aborted))
      BY <1>6, <1>7, <2>2
    <2> QED
      BY <2>1, <2>3
  <1>9. \A d \in Clients : InBatch(d)' <=> InBatch(d) /\ d # c
    BY <1>2, <1>3, <1>5
  <1>10. EventsLeft'
    <2>1. Len(batch) \in Nat /\ handled \in Nat /\ MaxHandled \in Nat /\ MAX_EVENTS \in Nat
      BY SystemsAssumption DEF ServerTyped
    <2> QED
      BY <1>1, <1>2, <2>1 DEF EventsLeft
  <1>11. Epoll!Open \subseteq Clients /\ handled' \in Nat
    BY <1>1 DEF Epoll!Open, ServerTyped
  <1>12. CASE bytes = 0
    <2>1. /\ net' = [net EXCEPT ![c] = "closed"]
          /\ edge' = edge \ {c} /\ UNCHANGED <<unread, echoed, lost, full>>
      BY <1>8, <1>12 DEF Epoll!Drop, Epoll!Disconnected
    <2>2. c \in aborted \/ unread[c] = 0
      BY <1>6, <1>8, <1>12
    <2>3. c \in Epoll!Gone
      BY <1>3, <2>2 DEF EventsHaveReason, Epoll!Gone
    <2>4. /\ net' \in [Clients -> {"away", "waiting", "open", "closed"}]
          /\ Epoll!Open' = Epoll!Open \ {c}
          /\ \A d \in Clients : d # c => net'[d] = net[d]
      BY <1>3, <2>1 DEF ServerTyped, Epoll!Open
    <2>5. ServerTyped'
      <3>1. Epoll!TypeOK'
        BY <1>1, <2>1, <2>4 DEF ServerTyped, Epoll!TypeOK
      <3> QED
        BY <1>1, <1>2, <1>11, <2>1, <2>4, <3>1 DEF ServerTyped
    <2>6. BatchSound'
      <3> SUFFICES ASSUME NEW k \in 1 .. Len(batch')
                   PROVE  IF batch'[k][1] = 0 THEN batch'[k][2] = 0
                          ELSE batch'[k][2] \in Epoll!Open \ {c} /\ fd[batch'[k][2]] = batch'[k][1]
        BY <1>1, <1>2, <2>4 DEF BatchSound
      <3>1. batch'[k][2] # c
        BY <1>5 DEF InBatch
      <3> QED
        BY <1>2, <3>1 DEF BatchSound
    <2>7. OneDescriptorEach'
      BY <1>1, <2>4 DEF OneDescriptorEach
    <2>8. Epoll!BytesAccounted'
      BY <1>1, <2>1, <2>2, <2>3, <2>4 DEF Epoll!BytesAccounted
    <2>9. EventsHaveReason'
      BY <1>1, <1>9, <2>1 DEF EventsHaveReason
    <2>10. Stranded' /\ LeftOpen'
      BY <1>1, <1>9, <1>11, <2>1, <2>4 DEF Stranded, LeftOpen
    <2> QED
      BY <1>10, <2>5, <2>6, <2>7, <2>8, <2>9, <2>10
  <1>13. CASE bytes # 0
    <2>1. /\ unread' = [unread EXCEPT ![c] = unread[c] - bytes]
          /\ full' = IF bytes = BUF THEN full \cup {c} ELSE full \ {c}
          /\ edge' = IF unread'[c] = 0 /\ c \notin Epoll!Gone THEN edge \ {c} ELSE edge
          /\ net' = net
      BY <1>8, <1>13 DEF Epoll!Echo, Epoll!Disconnected
    <2>2. /\ unread' \in [Clients -> Nat] /\ echoed' \in [Clients -> Nat] /\ lost' \in [Clients -> Nat]
          /\ unread'[c] = unread[c] - bytes /\ unread'[c] \in Nat /\ echoed'[c] + lost'[c] + unread'[c] = sent[c]
          /\ \A d \in Clients : d # c => unread'[d] = unread[d] /\ echoed'[d] = echoed[d] /\ lost'[d] = lost[d]
          /\ unread'[c] < sent[c]
      <3>1. PICK written \in 0 .. bytes : /\ echoed' = [echoed EXCEPT ![c] = echoed[c] + written]
                                          /\ lost' = [lost EXCEPT ![c] = lost[c] + (bytes - written)]
        BY <1>8, <1>13 DEF Epoll!Echo, Epoll!Disconnected, Epoll!WriteResults
      <3>2. /\ unread[c] - bytes \in Nat /\ echoed[c] + written \in Nat /\ lost[c] + (bytes - written) \in Nat
            /\ (echoed[c] + written) + (lost[c] + (bytes - written)) + (unread[c] - bytes) = sent[c]
            /\ unread[c] - bytes < sent[c]
        BY <1>6, <1>8, <1>13, <3>1
      <3>3. /\ unread'[c] = unread[c] - bytes /\ echoed'[c] = echoed[c] + written
            /\ lost'[c] = lost[c] + (bytes - written)
            /\ \A d \in Clients : d # c => unread'[d] = unread[d] /\ echoed'[d] = echoed[d] /\ lost'[d] = lost[d]
        BY <1>3, <2>1, <3>1 DEF ServerTyped
      <3>4. unread' \in [Clients -> Nat] /\ echoed' \in [Clients -> Nat] /\ lost' \in [Clients -> Nat]
        BY <2>1, <3>1, <3>2 DEF ServerTyped
      <3> QED
        BY <3>2, <3>3, <3>4
    <2>3. Epoll!Open' = Epoll!Open
      BY <2>1 DEF Epoll!Open
    <2>4. ServerTyped'
      <3>1. Epoll!TypeOK'
        BY <1>1, <1>3, <2>1, <2>3 DEF ServerTyped, Epoll!TypeOK
      <3> QED
        BY <1>1, <1>2, <1>11, <2>1, <2>2, <3>1 DEF ServerTyped
    <2>5. BatchSound'
      BY <1>1, <1>2, <2>3 DEF BatchSound
    <2>6. OneDescriptorEach'
      BY <1>1, <2>3 DEF OneDescriptorEach
    <2>7. Epoll!BytesAccounted'
      BY <1>1, <1>3, <2>1, <2>2 DEF Epoll!BytesAccounted, Epoll!Open, ServerTyped
    <2>8. EventsHaveReason'
      <3> SUFFICES ASSUME NEW d \in Clients, d \in edge' \/ InBatch(d)' PROVE unread'[d] > 0 \/ d \in Epoll!Gone
        BY <1>1 DEF EventsHaveReason
      <3>1. CASE d = c
        BY <1>5, <2>1, <2>2, <3>1
      <3>2. CASE d # c
        <4>1. d \in edge \/ InBatch(d)
          BY <1>9, <2>1, <3>2
        <4> QED
          BY <2>2, <3>2, <4>1 DEF EventsHaveReason
      <3> QED
        BY <3>1, <3>2
    <2>9. Stranded'
      <3> SUFFICES ASSUME NEW d \in Epoll!Open, unread'[d] > 0, d \notin edge', ~InBatch(d)' PROVE d \in full'
        BY <2>3 DEF Stranded
      <3>1. CASE d = c
        <4>1. bytes # unread[c] /\ bytes # 0
          BY <1>6, <1>8, <1>13, <2>2, <3>1
        <4>2. bytes = BUF
          BY <1>8, <4>1
        <4> QED
          BY <2>1, <3>1, <4>2
      <3>2. CASE d # c
        BY <1>9, <1>11, <2>1, <2>2, <3>2 DEF Stranded
      <3> QED
        BY <3>1, <3>2
    <2>10. LeftOpen'
      <3> SUFFICES ASSUME NEW d \in Epoll!Open, d \in Epoll!Gone, d \notin edge', ~InBatch(d)'
                   PROVE  unread'[d] < sent[d]
        BY <1>1, <2>3 DEF LeftOpen
      <3>1. CASE d = c
        BY <2>2, <3>1
      <3>2. CASE d # c
        BY <1>9, <1>11, <2>1, <2>2, <3>2 DEF LeftOpen
      <3> QED
        BY <3>1, <3>2
    <2> QED
      BY <1>10, <2>4, <2>5, <2>6, <2>7, <2>8, <2>9, <2>10
  <1> QED
    BY <1>12, <1>13

(* Steps that change none of the variables the invariant is about. *)
LEMMA ServerIdle ==
    ASSUME ServerInv, UNCHANGED <<net, fd, sent, unread, edge, hangup, aborted, echoed, lost, full, batch, handled>>
    PROVE  ServerInv'
  BY DEF ServerInv, ServerTyped, BatchSound, OneDescriptorEach, EventsHaveReason, Stranded, LeftOpen, EventsLeft,
         InBatch, Epoll!TypeOK, Epoll!BytesAccounted, Epoll!Open, Epoll!Gone

LEMMA ServerNext == ServerInv /\ [Epoll!Next]_(Epoll!vars) => ServerInv'
  <1> SUFFICES ASSUME ServerInv, [Epoll!Next]_(Epoll!vars) PROVE ServerInv'
    OBVIOUS
  <1>1. CASE UNCHANGED Epoll!vars
    BY <1>1, ServerIdle DEF Epoll!vars
  <1>2. CASE Epoll!Leave
    BY <1>2, ServerIdle DEF Epoll!Leave
  <1> QED
    BY <1>1, <1>2, ClientKeeps, WaitKeeps, AcceptKeeps, ReadKeeps DEF Epoll!Next, Epoll!Server

LEMMA ServerInvSound == ServerInv => Epoll!ServerSound
  <1> SUFFICES ASSUME ServerInv PROVE Epoll!ServerSound
    OBVIOUS
  <1> USE DEF ServerInv
  <1>1. DOMAIN batch = 1 .. Len(batch) /\ Len(batch) \in Nat
    BY DEF ServerTyped
  <1>2. Epoll!EventsMeetTheirClient
    BY <1>1 DEF Epoll!EventsMeetTheirClient, BatchSound, OneDescriptorEach, Epoll!SERVER
  <1>3. Epoll!StrandedOnlyIfFull /\ Epoll!LeftOpenIfRead
    BY <1>1 DEF Epoll!StrandedOnlyIfFull, Epoll!LeftOpenIfRead, Stranded, LeftOpen, InBatch
  <1>4. Epoll!HandledBounded
    <2>1. handled \in Nat /\ MaxHandled \in Nat /\ MAX_EVENTS \in Nat
      BY SystemsAssumption DEF ServerTyped
    <2> QED
      BY <1>1, <2>1 DEF Epoll!HandledBounded, EventsLeft
  <1> QED
    BY <1>2, <1>3, <1>4 DEF Epoll!ServerSound, ServerTyped

(* However clients connect, send, hang up and reset connections while a batch is
   handled, and however few bytes write takes, the event loop reads from the
   connection each event was made for although descriptors are given out again,
   writes every byte back at most once, closes only connections that were closed,
   after their last byte, or reset, strands bytes only after a read that filled
   buf, and leaves a connection open whose client is gone only after a read that
   returned bytes. *)
THEOREM ServerCorrect == Epoll!Spec => []Epoll!ServerSound
  BY ServerInit, ServerNext, ServerInvSound, PTL DEF Epoll!Spec

-----------------------------------------------------------------------------
(* matching_engine.cpp.  The book is uncrossed also while an order is matched,
   every order in the book was submitted with its side and price, ids are given
   out in ascending order, and no trade names an id not yet given out. *)
Books == [Sides -> UNION {[P -> Seq(Order)] : P \in SUBSET Prices}]

Trades == [buy_order_id : Nat, sell_order_id : Nat, price : Prices, quantity : Nat]

EngineTyped ==
    /\ book \in Books
    /\ next_order_id_ \in Nat \ {0} /\ submitted \subseteq Order
    /\ order = NoOrder \/ (order \in Order /\ order.id = next_order_id_ - 1)
    /\ trades_ \in Seq(Trades)

PricesBounded == \A side \in Sides : \E bound \in Nat : \A p \in DOMAIN book[side] : p <= bound

Uncrossed == \A bid \in DOMAIN book["Buy"], ask \in DOMAIN book["Sell"] : bid < ask

WasSubmitted(r) == \E o \in submitted : o.id = r.id /\ o.side = r.side /\ o.price = r.price

IdsAscend ==
    /\ \A o \in submitted : o.id < next_order_id_
    /\ \A o, p \in submitted : o.id = p.id => o = p
    /\ \A r \in RestingOrders : WasSubmitted(r)
    /\ order # NoOrder => WasSubmitted(order) /\ \A r \in RestingOrders : r.id < order.id
    /\ \A n \in 1 .. Len(trades_) :
           trades_[n].buy_order_id < next_order_id_ /\ trades_[n].sell_order_id < next_order_id_

EngineInv ==
    /\ EngineTyped /\ PricesBounded /\ LevelsSound /\ Uncrossed /\ IdsAscend
    /\ TradesWithinLimits /\ QuantityConserved

(* The parts of an order, and that it is not NoOrder. *)
LEMMA OrderParts ==
    ASSUME NEW o \in Order
    PROVE  /\ o.id \in 1 .. MaxOrders /\ o.id \in Nat \ {0} /\ o.side \in Sides /\ o.price \in Prices /\ o.price \in Nat
           /\ o.quantity \in 0 .. MaxQuantity /\ o.quantity \in Nat /\ o # NoOrder
  <1>1. /\ o.id \in 1 .. MaxOrders /\ o.side \in Sides /\ o.price \in Prices /\ o.quantity \in 0 .. MaxQuantity
    BY DEF Order
  <1>2. o.id # 0
    BY <1>1, SystemsAssumption
  <1>3. o # NoOrder
    BY <1>2 DEF NoOrder
  <1> QED
    BY <1>1, <1>3, SystemsAssumption

(* The levels of a side. *)
LEMMA SideTyped ==
    ASSUME EngineTyped, NEW side \in Sides
    PROVE  /\ DOMAIN book[side] \subseteq Prices /\ DOMAIN book[side] \subseteq Nat
           /\ book[side] = [p \in DOMAIN book[side] |-> book[side][p]]
           /\ \A p \in DOMAIN book[side] :
                  book[side][p] \in Seq(Order) /\ DOMAIN book[side][p] = 1 .. Len(book[side][p])
  <1>1. PICK P \in SUBSET Prices : book[side] \in [P -> Seq(Order)]
    BY DEF EngineTyped, Books
  <1> QED
    BY <1>1, SystemsAssumption

(* Which orders rest in a book. *)
LEMMA InLevels ==
    ASSUME NEW b \in Books, NEW r
    PROVE  r \in OrdersIn(b) <=>
               \E side \in Sides : \E p \in DOMAIN b[side] : \E n \in 1 .. Len(b[side][p]) : r = b[side][p][n]
  <1>1. ASSUME NEW side \in Sides, NEW p \in DOMAIN b[side]
        PROVE  DOMAIN b[side][p] = 1 .. Len(b[side][p])
    <2>1. PICK P \in SUBSET Prices : b[side] \in [P -> Seq(Order)]
      BY DEF Books
    <2> QED
      BY <2>1
  <1>2. r \in OrdersIn(b) <=>
            \E side \in Sides : r \in UNION {ToSet(b[side][p]) : p \in DOMAIN b[side]}
    BY DEF OrdersIn
  <1>3. ASSUME NEW side \in Sides
        PROVE  r \in UNION {ToSet(b[side][p]) : p \in DOMAIN b[side]} <=>
                   \E p \in DOMAIN b[side] : r \in ToSet(b[side][p])
    OBVIOUS
  <1>4. ASSUME NEW s PROVE r \in ToSet(s) <=> \E n \in DOMAIN s : r = s[n]
    BY DEF ToSet
  <1>5. ASSUME NEW side \in Sides, NEW p \in DOMAIN b[side]
        PROVE  r \in ToSet(b[side][p]) <=> \E n \in 1 .. Len(b[side][p]) : r = b[side][p][n]
    BY <1>1, <1>4
  <1> QED
    BY <1>2, <1>3, <1>5

LEMMA InBook ==
    ASSUME EngineTyped, NEW r
    PROVE  r \in RestingOrders <=>
               \E side \in Sides : \E p \in DOMAIN book[side] : \E n \in 1 .. Len(book[side][p]) : r = book[side][p][n]
  <1>1. book \in Books
    BY DEF EngineTyped
  <1> QED
    BY <1>1, InLevels DEF RestingOrders

(* A resting order rests on its side at its price. *)
LEMMA RestingPlace ==
    ASSUME EngineTyped, LevelsSound, NEW r \in RestingOrders
    PROVE  /\ r \in Order /\ r.quantity > 0 /\ r.side \in Sides /\ r.price \in DOMAIN book[r.side]
           /\ \E n \in 1 .. Len(book[r.side][r.price]) : r = book[r.side][r.price][n]
  <1>a. PICK side \in Sides : \E p \in DOMAIN book[side] : \E n \in 1 .. Len(book[side][p]) : r = book[side][p][n]
    BY InBook
  <1>b. PICK p \in DOMAIN book[side] : \E n \in 1 .. Len(book[side][p]) : r = book[side][p][n]
    BY <1>a
  <1>1. PICK n \in 1 .. Len(book[side][p]) : r = book[side][p][n]
    BY <1>b
  <1>2. n \in DOMAIN book[side][p]
    BY SideTyped
  <1>3. r \in Order /\ r.side = side /\ r.price = p /\ r.quantity > 0
    BY <1>1, <1>2 DEF LevelsSound, LevelSound
  <1> QED
    BY <1>1, <1>3

(* No two resting orders have the same id. *)
LEMMA IdsDiffer ==
    ASSUME EngineTyped, LevelsSound, IdsAscend, NEW r \in RestingOrders, NEW s \in RestingOrders, r.id = s.id
    PROVE  r = s
  <1>1. PICK o \in submitted : o.id = r.id /\ o.side = r.side /\ o.price = r.price
    BY DEF IdsAscend, WasSubmitted
  <1>2. PICK q \in submitted : q.id = s.id /\ q.side = s.side /\ q.price = s.price
    BY DEF IdsAscend, WasSubmitted
  <1>3. r.side = s.side /\ r.price = s.price
    BY <1>1, <1>2 DEF IdsAscend
  <1>4. r.side \in Sides /\ r.price \in DOMAIN book[r.side]
    BY RestingPlace
  <1>5. PICK m \in 1 .. Len(book[r.side][r.price]) : r = book[r.side][r.price][m]
    BY RestingPlace
  <1>6. PICK n \in 1 .. Len(book[r.side][r.price]) : s = book[r.side][r.price][n]
    BY <1>3, RestingPlace
  <1> DEFINE level == book[r.side][r.price]
  <1>7. level \in Seq(Order) /\ DOMAIN level = 1 .. Len(level)
    BY <1>4, SideTyped
  <1>8. \A i, j \in DOMAIN level : i < j => level[i].id < level[j].id
    BY <1>4 DEF LevelsSound, LevelSound
  <1>9. r \in Order /\ s \in Order
    BY RestingPlace
  <1>10. r.id \in Nat /\ s.id \in Nat
    BY <1>9, OrderParts
  <1> HIDE DEF level
  <1>11. r = level[m] /\ s = level[n]
    BY <1>5, <1>6 DEF level
  <1>12. m \in Nat /\ n \in Nat /\ m \in DOMAIN level /\ n \in DOMAIN level
    BY <1>5, <1>6, <1>7 DEF level
  <1>13. ~(m < n) /\ ~(n < m)
    BY <1>8, <1>10, <1>11, <1>12
  <1> QED
    BY <1>11, <1>12, <1>13

(* The best price of a side, and the order a fill takes from it. *)
LEMMA BestOfSide ==
    ASSUME EngineTyped, PricesBounded, LevelsSound, NEW side \in Sides, DOMAIN book[side] # {}
    PROVE  /\ BestPrice(side) \in DOMAIN book[side] /\ BestPrice(side) \in Nat
           /\ \A p \in DOMAIN book[side] :
                  IF side = "Buy" THEN p <= BestPrice(side) ELSE BestPrice(side) <= p
           /\ Resting(side) = book[side][BestPrice(side)][1]
           /\ book[side][BestPrice(side)] \in Seq(Order) /\ book[side][BestPrice(side)] # <<>>
           /\ Resting(side) \in Order /\ Resting(side) \in RestingOrders
           /\ Resting(side).side = side /\ Resting(side).price = BestPrice(side) /\ Resting(side).quantity > 0
  <1>1. DOMAIN book[side] \in SUBSET Nat
    BY SideTyped
  <1>2. PICK bound \in Nat : \A p \in DOMAIN book[side] : p <= bound
    BY DEF PricesBounded
  <1>3. /\ BestPrice(side) \in DOMAIN book[side]
        /\ \A p \in DOMAIN book[side] :
               IF side = "Buy" THEN p <= BestPrice(side) ELSE BestPrice(side) <= p
    BY <1>1, <1>2, MinIsLeast, MaxIsGreatest DEF BestPrice
  <1> DEFINE level == book[side][BestPrice(side)]
  <1>4. level \in Seq(Order) /\ level # <<>>
    BY <1>3, SideTyped DEF LevelsSound, LevelSound
  <1>5. 1 \in 1 .. Len(level) /\ 1 \in DOMAIN level /\ Head(level) = level[1]
    BY <1>4
  <1>6. Resting(side) = level[1]
    BY <1>5 DEF Resting
  <1>7. level[1] \in RestingOrders
    BY <1>3, <1>5, InBook
  <1>8. level[1] \in Order /\ level[1].side = side /\ level[1].price = BestPrice(side) /\ level[1].quantity > 0
    BY <1>3, <1>5 DEF LevelsSound, LevelSound
  <1> QED
    BY <1>1, <1>3, <1>4, <1>6, <1>7, <1>8

(* What is left of a queue after a fill of its first order: nothing changes but
   the quantity of the first, or the first is gone. *)
LEMMA QueueReduced ==
    ASSUME NEW level \in Seq(Order), level # <<>>, NEW filled \in Nat \ {0}, filled <= level[1].quantity,
           NEW after, after = AfterFill(level, filled)
    PROVE  /\ after \in Seq(Order)
           /\ level[1].quantity = filled =>
                  /\ Len(after) = Len(level) - 1
                  /\ \A n \in 1 .. Len(after) : n + 1 \in 1 .. Len(level) /\ after[n] = level[n + 1]
           /\ level[1].quantity # filled =>
                  /\ Len(after) = Len(level) /\ 1 \in 1 .. Len(after) /\ filled < level[1].quantity
                  /\ after[1] = [level[1] EXCEPT !.quantity = level[1].quantity - filled]
                  /\ \A n \in 1 .. Len(after) : n # 1 => after[n] = level[n]
  <1>1. level[1] \in Order /\ Len(level) \in Nat \ {0} /\ 1 \in 1 .. Len(level)
    OBVIOUS
  <1>2. level[1].quantity \in 0 .. MaxQuantity /\ level[1].quantity \in Nat
    BY <1>1, OrderParts
  <1>3. CASE level[1].quantity = filled
    BY <1>1, <1>3 DEF AfterFill
  <1>4. CASE level[1].quantity # filled
    <2> DEFINE first == [level[1] EXCEPT !.quantity = level[1].quantity - filled]
    <2>0. MaxQuantity \in Nat
      BY SystemsAssumption
    <2>1. filled < level[1].quantity /\ level[1].quantity - filled \in 0 .. MaxQuantity
      BY <1>2, <1>4, <2>0
    <2>2. first \in Order
      BY <1>1, <2>1 DEF Order
    <2> HIDE DEF first
    <2>3. after = [level EXCEPT ![1] = first]
      BY <1>4 DEF first, AfterFill
    <2>4. after \in Seq(Order) /\ Len(after) = Len(level) /\ after[1] = first
          /\ \A n \in 1 .. Len(after) : n # 1 => after[n] = level[n]
      BY <1>1, <2>2, <2>3
    <2> QED
      BY <1>1, <1>4, <2>1, <2>4 DEF first
  <1> QED
    BY <1>3, <1>4

FilledBook(side, filled) == [book EXCEPT ![side] = Reduced(side, filled)]

(* What one iteration of the loop of matchBuy or matchSell does. *)
LEMMA FillEffect ==
    ASSUME EngineInv, Fill
    PROVE  \E side \in Sides, resting \in RestingOrders, filled \in Nat \ {0} :
             /\ order \in Order /\ side # order.side /\ DOMAIN book[side] # {} /\ resting = Resting(side)
             /\ filled <= order.quantity /\ filled <= resting.quantity /\ Accepts(order, resting.price)
             /\ trades_' = Append(trades_, [buy_order_id |-> IF order.side = "Buy" THEN order.id ELSE resting.id,
                                           sell_order_id |-> IF order.side = "Buy" THEN resting.id ELSE order.id,
                                           price |-> resting.price, quantity |-> filled])
             /\ order' = [order EXCEPT !.quantity = order.quantity - filled]
             /\ book' = FilledBook(side, filled)
             /\ next_order_id_' = next_order_id_ /\ submitted' = submitted
  <1> USE DEF EngineInv
  <1> DEFINE side == Opposite(order.side)
             resting == Resting(side)
             filled == Min({order.quantity, resting.quantity})
  <1>1. order \in Order /\ CanFill(order)
    BY DEF Fill, EngineTyped
  <1>2. side \in Sides /\ side # order.side /\ DOMAIN book[side] # {} /\ order.quantity > 0 /\ Accepts(order, BestPrice(side))
    BY <1>1, OrderParts DEF CanFill, Opposite, Sides
  <1>3. resting \in RestingOrders /\ resting \in Order /\ resting.quantity > 0 /\ resting.price = BestPrice(side)
    BY <1>2, BestOfSide
  <1>4. order.quantity \in Nat /\ resting.quantity \in Nat
    BY <1>1, <1>3, OrderParts
  <1>5. filled \in Nat \ {0} /\ filled <= order.quantity /\ filled <= resting.quantity
    BY <1>2, <1>3, <1>4, MinOfTwo
  <1>6. /\ order' = [order EXCEPT !.quantity = order.quantity - filled]
        /\ book' = FilledBook(side, filled)
        /\ next_order_id_' = next_order_id_ /\ submitted' = submitted
    BY DEF Fill, FilledBook
  <1>7. trades_' = Append(trades_, [buy_order_id |-> IF order.side = "Buy" THEN order.id ELSE resting.id,
                                    sell_order_id |-> IF order.side = "Buy" THEN resting.id ELSE order.id,
                                    price |-> resting.price, quantity |-> filled])
    <2>1. CASE order.side = "Buy"
      BY <2>1 DEF Fill
    <2>2. CASE order.side # "Buy"
      BY <2>2 DEF Fill
    <2> QED
      BY <2>1, <2>2
  <1> HIDE DEF side, resting, filled
  <1>8. Accepts(order, resting.price) /\ resting = Resting(side)
    BY <1>2, <1>3 DEF resting
  <1> QED
    BY <1>1, <1>2, <1>3, <1>5, <1>6, <1>7, <1>8

(* The book after a fill: only the best level of the other side changes. *)
LEMMA FillBook ==
    ASSUME EngineInv, NEW side \in Sides, DOMAIN book[side] # {},
           NEW resting, resting = Resting(side), NEW filled \in Nat \ {0}, filled <= resting.quantity,
           book' = FilledBook(side, filled),
           NEW best, best = BestPrice(side)
    PROVE  \E after \in Seq(Order) :
             /\ after = AfterFill(book[side][best], filled)
             /\ book' \in Books
             /\ \A s \in Sides : s # side => book'[s] = book[s]
             /\ \A q : q \in DOMAIN book'[side] <=> q \in DOMAIN book[side] /\ (q = best => after # <<>>)
             /\ \A q \in DOMAIN book'[side] : book'[side][q] = IF q = best THEN after ELSE book[side][q]
  <1> USE DEF EngineInv
  <1> DEFINE level == book[side][best]
             after == AfterFill(level, filled)
             kept == {q \in DOMAIN book[side] : q = best => after # <<>>}
  <1>1. /\ best \in DOMAIN book[side] /\ level \in Seq(Order) /\ level # <<>> /\ resting = level[1]
    BY BestOfSide
  <1>2. after \in Seq(Order)
    BY <1>1, QueueReduced
  <1>3. Reduced(side, filled) = [q \in kept |-> IF q = best THEN after ELSE book[side][q]]
    BY <1>1 DEF Reduced
  <1> HIDE DEF after
  <1>4. kept \in SUBSET Prices /\ \A q \in kept : book[side][q] \in Seq(Order)
    BY SideTyped
  <1>5. Reduced(side, filled) \in [kept -> Seq(Order)]
    BY <1>2, <1>3, <1>4
  <1>6. book' \in Books
    BY <1>4, <1>5 DEF EngineTyped, Books, FilledBook
  <1>7. /\ \A s \in Sides : s # side => book'[s] = book[s]
        /\ book'[side] = Reduced(side, filled)
    BY DEF EngineTyped, Books, FilledBook
  <1>8. /\ DOMAIN book'[side] = kept
        /\ \A q \in DOMAIN book'[side] : book'[side][q] = IF q = best THEN after ELSE book[side][q]
    BY <1>3, <1>7
  <1> HIDE DEF kept
  <1>9. after = AfterFill(book[side][best], filled)
    BY DEF after
  <1> QED
    BY <1>2, <1>6, <1>7, <1>8, <1>9 DEF kept

(* A fill keeps the levels, and takes from the resting orders the first of the
   best level or reduces it. *)
LEMMA FillLevels ==
    ASSUME EngineInv, NEW side \in Sides, DOMAIN book[side] # {},
           NEW resting, resting = Resting(side), NEW filled \in Nat \ {0}, filled <= resting.quantity,
           book' = FilledBook(side, filled)
    PROVE  /\ PricesBounded' /\ Uncrossed' /\ LevelsSound'
           /\ RestingOrders' = (RestingOrders \ {resting}) \cup
                  (IF resting.quantity = filled THEN {}
                   ELSE {[resting EXCEPT !.quantity = resting.quantity - filled]})
  <1>1. PICK best : best = BestPrice(side)
    OBVIOUS
  <1>2. PICK after \in Seq(Order) :
             /\ after = AfterFill(book[side][best], filled)
             /\ book' \in Books
             /\ \A s \in Sides : s # side => book'[s] = book[s]
             /\ \A q : q \in DOMAIN book'[side] <=> q \in DOMAIN book[side] /\ (q = best => after # <<>>)
             /\ \A q \in DOMAIN book'[side] : book'[side][q] = IF q = best THEN after ELSE book[side][q]
    BY <1>1, FillBook
  <1> USE DEF EngineInv
  <1>3. \A s \in Sides : DOMAIN book'[s] \subseteq DOMAIN book[s] /\ DOMAIN book[s] \subseteq Nat
    BY <1>2, SideTyped
  <1>4. PricesBounded'
    BY <1>3 DEF PricesBounded
  <1>5. Uncrossed'
    BY <1>3 DEF Uncrossed, Sides
  <1>6. PICK level \in Seq(Order) :
            /\ level = book[side][best] /\ level # <<>> /\ resting = level[1] /\ best \in DOMAIN book[side]
            /\ resting \in Order /\ resting \in RestingOrders /\ resting.side = side /\ resting.price = best
            /\ resting.quantity > 0
    BY <1>1, BestOfSide
  <1>7. /\ resting.quantity = filled =>
               /\ Len(after) = Len(level) - 1
               /\ \A n \in 1 .. Len(after) : n + 1 \in 1 .. Len(level) /\ after[n] = level[n + 1]
        /\ resting.quantity # filled =>
               /\ Len(after) = Len(level) /\ 1 \in 1 .. Len(after) /\ filled < resting.quantity
               /\ after[1] = [resting EXCEPT !.quantity = resting.quantity - filled]
               /\ \A n \in 1 .. Len(after) : n # 1 => after[n] = level[n]
    BY <1>2, <1>6, QueueReduced
  <1>8. /\ DOMAIN level = 1 .. Len(level) /\ DOMAIN after = 1 .. Len(after) /\ Len(level) \in Nat \ {0} /\ Len(after) \in Nat
        /\ \A n \in 1 .. Len(level) : /\ level[n] \in Order /\ level[n].side = side /\ level[n].price = best
                                      /\ level[n].quantity > 0 /\ level[n].id \in Nat
        /\ \A m, n \in 1 .. Len(level) : m < n => level[m].id < level[n].id
    <2>1. DOMAIN level = 1 .. Len(level) /\ DOMAIN after = 1 .. Len(after) /\ Len(level) \in Nat \ {0} /\ Len(after) \in Nat
      BY <1>6
    <2>2. \A n \in DOMAIN level : level[n] \in Order /\ level[n].side = side /\ level[n].price = best /\ level[n].quantity > 0
      BY <1>6 DEF LevelsSound, LevelSound
    <2>3. \A m, n \in DOMAIN level : m < n => level[m].id < level[n].id
      BY <1>6 DEF LevelsSound, LevelSound
    <2> QED
      BY <2>1, <2>2, <2>3, OrderParts
  <1> DEFINE reduced == [resting EXCEPT !.quantity = resting.quantity - filled]
  <1>9. resting.quantity # filled =>
            /\ reduced.id = resting.id /\ reduced.side = side /\ reduced.price = best
            /\ reduced.quantity > 0 /\ reduced \in Order
    <2>1. resting.quantity \in Nat /\ resting.quantity \in 0 .. MaxQuantity
      BY <1>6, OrderParts
    <2> SUFFICES ASSUME resting.quantity # filled
                 PROVE  /\ reduced.id = resting.id /\ reduced.side = side /\ reduced.price = best
                        /\ reduced.quantity > 0 /\ reduced \in Order
      OBVIOUS
    <2>2. MaxQuantity \in Nat
      BY SystemsAssumption
    <2>3. resting.quantity - filled \in 0 .. MaxQuantity /\ resting.quantity - filled > 0
      BY <2>1, <2>2
    <2> QED
      BY <1>6, <2>3 DEF Order
  <1> HIDE DEF reduced
  <1>10. /\ \A n \in 1 .. Len(after) : /\ after[n] \in Order /\ after[n].side = side /\ after[n].price = best
                                       /\ after[n].quantity > 0
         /\ \A m, n \in 1 .. Len(after) : m < n => after[m].id < after[n].id
    <2>1. CASE resting.quantity = filled
      <3>1. \A n \in 1 .. Len(after) : n \in Nat /\ n + 1 \in 1 .. Len(level) /\ after[n] = level[n + 1]
        BY <1>7, <2>1
      <3>2. \A m, n \in 1 .. Len(after) : m < n => m + 1 < n + 1
        OBVIOUS
      <3> QED
        BY <1>8, <3>1, <3>2
    <2>2. CASE resting.quantity # filled
      <3>1. \A n \in 1 .. Len(after) : after[n] = IF n = 1 THEN reduced ELSE level[n]
        BY <1>7, <2>2 DEF reduced
      <3>2. \A n \in 1 .. Len(after) : after[n].id = level[n].id
        BY <1>6, <1>9, <2>2, <3>1
      <3> QED
        BY <1>7, <1>8, <1>9, <2>2, <3>1, <3>2
    <2> QED
      BY <2>1, <2>2
  <1>11. LevelsSound'
    <2> SUFFICES ASSUME NEW s \in Sides, NEW q \in DOMAIN book'[s] PROVE LevelSound(s, q, book'[s][q])
      BY DEF LevelsSound
    <2>1. CASE s = side /\ q = best
      <3>1. book'[s][q] = after /\ after # <<>>
        BY <1>2, <2>1
      <3> QED
        BY <1>8, <1>10, <2>1, <3>1 DEF LevelSound
    <2>2. CASE ~(s = side /\ q = best)
      <3>1. q \in DOMAIN book[s] /\ book'[s][q] = book[s][q]
        BY <1>2, <2>2
      <3> QED
        BY <3>1 DEF LevelsSound
    <2> QED
      BY <2>1, <2>2
  <1>12. \A r : r \in RestingOrders' <=>
             \E s \in Sides : \E q \in DOMAIN book'[s] : \E n \in 1 .. Len(book'[s][q]) : r = book'[s][q][n]
    BY <1>2, InLevels DEF RestingOrders
  <1>13. \A r : r \in RestingOrders <=>
             \E s \in Sides : \E q \in DOMAIN book[s] : \E n \in 1 .. Len(book[s][q]) : r = book[s][q][n]
    BY InBook
  <1>14. \A n \in 1 .. Len(level) : n # 1 => level[n] # resting
    BY <1>6, <1>8
  <1>15. ASSUME NEW r \in RestingOrders'
         PROVE  r \in RestingOrders \ {resting} \/ (resting.quantity # filled /\ r = reduced)
    <2>1. PICK s \in Sides : \E q \in DOMAIN book'[s] : \E n \in 1 .. Len(book'[s][q]) : r = book'[s][q][n]
      BY <1>12, <1>15
    <2>2. PICK q \in DOMAIN book'[s] : \E n \in 1 .. Len(book'[s][q]) : r = book'[s][q][n]
      BY <2>1
    <2>3. PICK n \in 1 .. Len(book'[s][q]) : r = book'[s][q][n]
      BY <2>2
    <2>4. CASE s = side /\ q = best
      <3>1. book'[s][q] = after /\ n \in 1 .. Len(after) /\ r = after[n]
        BY <1>2, <2>3, <2>4
      <3>2. \A m \in 1 .. Len(level) : m # 1 => level[m] \in RestingOrders \ {resting}
        BY <1>6, <1>13, <1>14
      <3>3. CASE resting.quantity = filled
        <4>1. n + 1 \in 1 .. Len(level) /\ n + 1 # 1 /\ r = level[n + 1]
          BY <1>7, <1>8, <3>1, <3>3
        <4> QED
          BY <3>2, <4>1
      <3>4. CASE resting.quantity # filled
        BY <1>7, <1>8, <3>1, <3>2, <3>4 DEF reduced
      <3> QED
        BY <3>3, <3>4
    <2>5. CASE ~(s = side /\ q = best)
      <3>1. q \in DOMAIN book[s] /\ book'[s][q] = book[s][q] /\ n \in DOMAIN book[s][q]
        BY <1>2, <2>5, SideTyped
      <3>2. r.side = s /\ r.price = q
        BY <2>3, <3>1 DEF LevelsSound, LevelSound
      <3> QED
        BY <1>6, <1>13, <2>3, <2>5, <3>1, <3>2
    <2> QED
      BY <2>4, <2>5
  <1>16. ASSUME NEW r \in RestingOrders \ {resting} PROVE r \in RestingOrders'
    <2>1. r.side \in Sides /\ r.price \in DOMAIN book[r.side]
      BY <1>16, RestingPlace
    <2>2. PICK n \in 1 .. Len(book[r.side][r.price]) : r = book[r.side][r.price][n]
      BY <1>16, RestingPlace
    <2>3. CASE r.side = side /\ r.price = best
      <3>1. n \in 1 .. Len(level) /\ r = level[n] /\ n # 1
        BY <1>6, <1>16, <2>2, <2>3
      <3>2. \E m \in 1 .. Len(after) : r = after[m]
        <4>1. CASE resting.quantity = filled
          <5>1. n - 1 \in 1 .. Len(after) /\ after[n - 1] = level[(n - 1) + 1] /\ (n - 1) + 1 = n
            BY <1>7, <1>8, <3>1, <4>1
          <5> QED
            BY <3>1, <5>1
        <4>2. CASE resting.quantity # filled
          BY <1>7, <3>1, <4>2
        <4> QED
          BY <4>1, <4>2
      <3>3. after # <<>>
        BY <3>2
      <3>4. best \in DOMAIN book'[side] /\ book'[side][best] = after
        BY <1>2, <1>6, <3>3
      <3> QED
        BY <1>12, <3>2, <3>4
    <2>4. CASE ~(r.side = side /\ r.price = best)
      <3>1. r.price \in DOMAIN book'[r.side] /\ book'[r.side][r.price] = book[r.side][r.price]
        BY <1>2, <2>1, <2>4
      <3> QED
        BY <1>12, <2>1, <2>2, <3>1
    <2> QED
      BY <2>3, <2>4
  <1>17. resting.quantity # filled => reduced \in RestingOrders'
    <2> SUFFICES ASSUME resting.quantity # filled PROVE reduced \in RestingOrders'
      OBVIOUS
    <2>1. 1 \in 1 .. Len(after) /\ after[1] = reduced
      BY <1>7 DEF reduced
    <2>2. after # <<>>
      BY <2>1
    <2>3. best \in DOMAIN book'[side] /\ book'[side][best] = after
      BY <1>2, <1>6, <2>2
    <2> QED
      BY <1>12, <2>1, <2>3
  <1>18. RestingOrders' = (RestingOrders \ {resting}) \cup (IF resting.quantity = filled THEN {} ELSE {reduced})
    BY <1>15, <1>16, <1>17
  <1> QED
    BY <1>4, <1>5, <1>11, <1>18 DEF reduced

-----------------------------------------------------------------------------
(* How much is left of an order, and how much of it was traded. *)
LeftOf(id) == {r \in RestingOrders \cup {order} : r.id = id}

LEMMA NothingLeft == QuantityIn({}) = 0
  <1> DEFINE f == [r \in {} |-> r.quantity]
  <1>1. DOMAIN f = {}
    OBVIOUS
  <1>2. SumOver(f, {}) = 0
    BY SumEmpty
  <1>3. TotalOf(f) = SumOver(f, DOMAIN f)
    BY DEF TotalOf, SumOver
  <1>4. QuantityIn({}) = TotalOf(f)
    BY DEF QuantityIn
  <1> HIDE DEF f
  <1> QED
    BY <1>1, <1>2, <1>3, <1>4

LEMMA OneLeft ==
    ASSUME NEW r, r.quantity \in Nat
    PROVE  QuantityIn({r}) = r.quantity
  <1> DEFINE f == [x \in {r} |-> x.quantity]
  <1>1. DOMAIN f = {r} /\ f[r] = r.quantity /\ \A x \in {r} : f[x] \in Int
    OBVIOUS
  <1>2. TotalOf(f) = SumOver(f, DOMAIN f)
    BY DEF TotalOf, SumOver
  <1>3. QuantityIn({r}) = TotalOf(f)
    BY DEF QuantityIn
  <1> HIDE DEF f
  <1>4. IsFiniteSet({r}) /\ r \in {r} /\ {r} \ {r} = {}
    BY FS_Singleton
  <1>5. SumOver(f, {r}) = f[r] + SumOver(f, {r} \ {r})
    BY <1>1, <1>4, SumTakeOut
  <1>6. SumOver(f, {}) = 0
    BY SumEmpty
  <1> QED
    BY <1>1, <1>2, <1>3, <1>4, <1>5, <1>6

LEMMA TradeQuantity ==
    ASSUME NEW t \in Trades PROVE t.quantity \in Nat
  BY DEF Trades

LEMMA TradedSum ==
    ASSUME NEW id, NEW trades \in Seq(Trades), NEW f, \A n \in 1 .. Len(trades) : f[n] = trades[n].quantity
    PROVE  /\ Traded(id, trades) = SumOver(f, TradesOf(id, trades)) /\ Traded(id, trades) \in Int
           /\ IsFiniteSet(TradesOf(id, trades)) /\ TradesOf(id, trades) \subseteq 1 .. Len(trades)
  <1> DEFINE S == TradesOf(id, trades)
             g == [n \in S |-> trades[n].quantity]
  <1>1. S \subseteq 1 .. Len(trades) /\ Len(trades) \in Nat
    BY DEF TradesOf
  <1>2. IsFiniteSet(S)
    <2>1. IsFiniteSet(1 .. Len(trades))
      BY <1>1, FS_Interval
    <2> QED
      BY <1>1, <2>1, FS_Subset
  <1>3. DOMAIN g = S
    OBVIOUS
  <1>4. TotalOf(g) = SumOver(g, DOMAIN g)
    BY DEF TotalOf, SumOver
  <1>5. Traded(id, trades) = TotalOf(g)
    BY DEF Traded
  <1>6. \A n \in S : g[n] = f[n] /\ g[n] \in Int
    <2>1. \A n \in 1 .. Len(trades) : trades[n].quantity \in Int
      BY TradeQuantity
    <2> QED
      BY <1>1, <2>1
  <1> HIDE DEF g, S
  <1>7. SumOver(g, S) = SumOver(f, S) /\ SumOver(g, S) \in Int
    BY <1>2, <1>6, SumSame, SumType
  <1> QED
    BY <1>1, <1>2, <1>3, <1>4, <1>5, <1>7 DEF S

(* A trade adds its quantity to what its two parties have traded. *)
LEMMA TradedMore ==
    ASSUME NEW id, NEW trades \in Seq(Trades), NEW t \in Trades
    PROVE  /\ id \in {t.buy_order_id, t.sell_order_id} =>
                  Traded(id, Append(trades, t)) = Traded(id, trades) + t.quantity
           /\ id \notin {t.buy_order_id, t.sell_order_id} => Traded(id, Append(trades, t)) = Traded(id, trades)
           /\ Traded(id, trades) \in Int
  <1> DEFINE more == Append(trades, t)
             n1 == Len(trades) + 1
             f == [n \in 1 .. n1 |-> more[n].quantity]
             S == TradesOf(id, trades)
  <1>1. /\ more \in Seq(Trades) /\ Len(more) = n1 /\ more[n1] = t
        /\ \A n \in 1 .. Len(trades) : n \in 1 .. n1 /\ n # n1 /\ more[n] = trades[n]
    OBVIOUS
  <1>2. /\ \A n \in 1 .. n1 : f[n] = more[n].quantity
        /\ \A n \in 1 .. Len(trades) : f[n] = trades[n].quantity
    BY <1>1
  <1>3. TradesOf(id, more) = S \cup (IF id \in {t.buy_order_id, t.sell_order_id} THEN {n1} ELSE {})
    <2>1. DOMAIN trades = 1 .. Len(trades) /\ DOMAIN more = 1 .. n1 /\ 1 .. n1 = (1 .. Len(trades)) \cup {n1}
      BY <1>1
    <2> HIDE DEF more, n1
    <2> QED
      BY <1>1, <2>1 DEF TradesOf
  <1> HIDE DEF more, f, S
  <1>4. Traded(id, more) = SumOver(f, TradesOf(id, more))
    BY <1>1, <1>2, TradedSum
  <1>5. /\ Traded(id, trades) = SumOver(f, S) /\ Traded(id, trades) \in Int
        /\ IsFiniteSet(S) /\ S \subseteq 1 .. Len(trades)
    BY <1>2, TradedSum DEF S
  <1>6. \A n \in 1 .. n1 : f[n] \in Int
    <2>1. \A n \in 1 .. n1 : more[n] \in Trades
      BY <1>1
    <2> QED
      BY <1>2, <2>1, TradeQuantity
  <1>7. n1 \notin S /\ n1 \in 1 .. n1 /\ \A n \in S \cup {n1} : f[n] \in Int
    BY <1>1, <1>5, <1>6
  <1>8. SumOver(f, S \cup {n1}) = f[n1] + SumOver(f, S)
    BY <1>5, <1>7, SumPutIn
  <1>9. f[n1] = t.quantity /\ t.quantity \in Int
    BY <1>1, <1>2, <1>7 DEF Trades
  <1>10. CASE id \in {t.buy_order_id, t.sell_order_id}
    <2>1. TradesOf(id, more) = S \cup {n1}
      BY <1>3, <1>10
    <2> QED
      BY <1>4, <1>5, <1>8, <1>9, <1>10, <2>1 DEF more
  <1>11. CASE id \notin {t.buy_order_id, t.sell_order_id}
    <2>1. TradesOf(id, more) = S
      BY <1>3, <1>11
    <2> QED
      BY <1>4, <1>5, <1>11, <2>1 DEF more
  <1> QED
    BY <1>10, <1>11

(* Who has no trade has traded nothing. *)
LEMMA TradedNothing ==
    ASSUME NEW id, NEW trades \in Seq(Trades),
           \A n \in 1 .. Len(trades) : trades[n].buy_order_id # id /\ trades[n].sell_order_id # id
    PROVE  Traded(id, trades) = 0
  <1> DEFINE f == [n \in 1 .. Len(trades) |-> trades[n].quantity]
  <1>1. \A n \in 1 .. Len(trades) : f[n] = trades[n].quantity
    OBVIOUS
  <1> HIDE DEF f
  <1>2. Traded(id, trades) = SumOver(f, TradesOf(id, trades))
    BY <1>1, TradedSum
  <1>3. TradesOf(id, trades) = {}
    BY DEF TradesOf
  <1>4. SumOver(f, {}) = 0
    BY SumEmpty
  <1> QED
    BY <1>2, <1>3, <1>4


-----------------------------------------------------------------------------
(* The parts of the invariant that say which ids there are, for an order being
   matched and the book it is matched against. *)
LEMMA EngineInit == Init => EngineInv
  <1> SUFFICES ASSUME Init PROVE EngineInv
    OBVIOUS
  <1> USE DEF Init
  <1>1. \A side \in Sides : book[side] = <<>> /\ DOMAIN book[side] = {}
    OBVIOUS
  <1>2. book \in Books
    <2>1. \A side \in Sides : book[side] \in [{} -> Seq(Order)]
      OBVIOUS
    <2>2. {} \in SUBSET Prices
      OBVIOUS
    <2> QED
      BY <2>1, <2>2 DEF Books
  <1>3. EngineTyped
    <2>1. trades_ \in Seq(Trades)
      OBVIOUS
    <2>2. next_order_id_ \in Nat \ {0}
      OBVIOUS
    <2>3. submitted \subseteq Order /\ order = NoOrder
      OBVIOUS
    <2> QED
      BY <1>2, <2>1, <2>2, <2>3 DEF EngineTyped
  <1>4. PricesBounded /\ LevelsSound /\ Uncrossed
    BY <1>1 DEF PricesBounded, LevelsSound, Uncrossed, Sides
  <1>5. RestingOrders = {}
    BY <1>1, <1>3, InBook
  <1>6. Len(trades_) = 0 /\ DOMAIN trades_ = {}
    OBVIOUS
  <1>7. IdsAscend /\ TradesWithinLimits /\ QuantityConserved
    BY <1>5, <1>6 DEF IdsAscend, TradesWithinLimits, QuantityConserved
  <1> QED
    BY <1>3, <1>4, <1>7 DEF EngineInv

(* A new order gets an id that no order and no trade has. *)
LEMMA SubmitKeeps ==
    ASSUME EngineInv, NEW side \in Sides, NEW price \in Prices, NEW qty \in 0 .. MaxQuantity,
           submitOrder(side, price, qty)
    PROVE  EngineInv'
  <1> USE DEF EngineInv
  <1>1. /\ order = NoOrder /\ next_order_id_ <= MaxOrders
        /\ order' = [id |-> next_order_id_, side |-> side, price |-> price, quantity |-> qty]
        /\ submitted' = submitted \cup {order'} /\ next_order_id_' = next_order_id_ + 1
        /\ book' = book /\ trades_' = trades_
    BY DEF submitOrder
  <1>2. next_order_id_ \in Nat \ {0} /\ MaxOrders \in Nat /\ next_order_id_ \in 1 .. MaxOrders
    <2>1. next_order_id_ \in Nat \ {0} /\ MaxOrders \in Nat
      BY SystemsAssumption DEF EngineTyped
    <2> QED
      BY <1>1, <2>1
  <1>3. order' \in Order /\ order'.id = next_order_id_ /\ order'.quantity = qty /\ order' # NoOrder
    <2>1. order' \in Order
      BY <1>1, <1>2 DEF Order
    <2> QED
      BY <1>1, <2>1, OrderParts
  <1>4. EngineTyped'
    BY <1>1, <1>2, <1>3 DEF EngineTyped
  <1>5. PricesBounded' /\ LevelsSound' /\ Uncrossed' /\ RestingOrders' = RestingOrders
    BY <1>1 DEF PricesBounded, LevelsSound, Uncrossed, RestingOrders
  <1>6. \A o \in submitted : o \in Order /\ o.id \in Nat \ {0} /\ o.id < next_order_id_
    BY OrderParts DEF EngineTyped, IdsAscend
  <1>7. \A r \in RestingOrders : r.id \in Nat /\ r.id < next_order_id_
    BY <1>6 DEF IdsAscend, WasSubmitted
  <1>8. trades_ \in Seq(Trades) /\ \A n \in 1 .. Len(trades_) : trades_[n].buy_order_id \in Nat /\ trades_[n].sell_order_id \in Nat
    <2>1. trades_ \in Seq(Trades)
      BY DEF EngineTyped
    <2>2. \A t \in Trades : t.buy_order_id \in Nat /\ t.sell_order_id \in Nat
      BY DEF Trades
    <2> QED
      BY <2>1, <2>2
  <1>9. IdsAscend'
    <2>1. \A o \in submitted' : o.id < next_order_id_'
      BY <1>1, <1>2, <1>3, <1>6
    <2>2. \A o, p \in submitted' : o.id = p.id => o = p
      BY <1>1, <1>2, <1>3, <1>6 DEF IdsAscend
    <2>3. \A r \in RestingOrders' : WasSubmitted(r)'
      BY <1>1, <1>5 DEF IdsAscend, WasSubmitted
    <2>4. WasSubmitted(order)'
      BY <1>1 DEF WasSubmitted
    <2>5. \A r \in RestingOrders' : r.id < order'.id
      BY <1>3, <1>5, <1>7
    <2>6. \A n \in 1 .. Len(trades_) :
              trades_[n].buy_order_id < next_order_id_' /\ trades_[n].sell_order_id < next_order_id_'
      BY <1>1, <1>2, <1>8 DEF IdsAscend
    <2> QED
      BY <1>1, <2>1, <2>2, <2>3, <2>4, <2>5, <2>6 DEF IdsAscend
  <1>10. \A n \in 1 .. Len(trades_) :
             trades_[n].buy_order_id # next_order_id_ /\ trades_[n].sell_order_id # next_order_id_
    BY <1>2, <1>8 DEF IdsAscend
  <1>11. TradesWithinLimits'
    <2>1. DOMAIN trades_ = 1 .. Len(trades_)
      BY <1>8
    <2> SUFFICES ASSUME NEW n \in 1 .. Len(trades_), NEW buyer \in submitted', NEW seller \in submitted',
                        buyer.id = trades_[n].buy_order_id, seller.id = trades_[n].sell_order_id
                 PROVE  /\ buyer.side = "Buy" /\ seller.side = "Sell"
                        /\ seller.price <= trades_[n].price /\ trades_[n].price <= buyer.price
                        /\ trades_[n].quantity > 0
      BY <1>1, <2>1 DEF TradesWithinLimits
    <2>2. buyer \in submitted /\ seller \in submitted
      BY <1>1, <1>3, <1>10
    <2> QED
      BY <2>1, <2>2 DEF TradesWithinLimits
  <1>12. QuantityConserved'
    <2> SUFFICES ASSUME NEW o \in submitted'
                 PROVE  o.quantity = Traded(o.id, trades_) + QuantityIn(LeftOf(o.id)')
      BY <1>1 DEF QuantityConserved, LeftOf
    <2>1. CASE o = order'
      <3>1. LeftOf(o.id)' = {o}
        BY <1>1, <1>3, <1>5, <1>7, <2>1 DEF LeftOf
      <3>2. QuantityIn({o}) = qty
        BY <1>1, <1>3, <2>1, OneLeft
      <3>3. Traded(o.id, trades_) = 0
        BY <1>3, <1>8, <1>10, <2>1, TradedNothing
      <3> QED
        BY <1>3, <2>1, <3>1, <3>2, <3>3
    <2>2. CASE o # order'
      <3>1. o \in submitted /\ o.id # next_order_id_ /\ o.id # 0
        BY <1>1, <1>2, <1>6, <2>2
      <3>2. LeftOf(o.id)' = LeftOf(o.id)
        BY <1>1, <1>3, <1>5, <3>1 DEF LeftOf, NoOrder
      <3>3. o.quantity = Traded(o.id, trades_) + QuantityIn(LeftOf(o.id))
        BY <3>1 DEF QuantityConserved, LeftOf
      <3> QED
        BY <3>2, <3>3
    <2> QED
      BY <2>1, <2>2
  <1> QED
    BY <1>4, <1>5, <1>9, <1>11, <1>12


(* A fill takes the same quantity from both parties and records it. *)
LEMMA FillKeeps ==
    ASSUME EngineInv, Fill PROVE EngineInv'
  <1>1. PICK side \in Sides, resting \in RestingOrders, filled \in Nat \ {0} :
             /\ order \in Order /\ side # order.side /\ DOMAIN book[side] # {} /\ resting = Resting(side)
             /\ filled <= order.quantity /\ filled <= resting.quantity /\ Accepts(order, resting.price)
             /\ trades_' = Append(trades_, [buy_order_id |-> IF order.side = "Buy" THEN order.id ELSE resting.id,
                                           sell_order_id |-> IF order.side = "Buy" THEN resting.id ELSE order.id,
                                           price |-> resting.price, quantity |-> filled])
             /\ order' = [order EXCEPT !.quantity = order.quantity - filled]
             /\ book' = FilledBook(side, filled)
             /\ next_order_id_' = next_order_id_ /\ submitted' = submitted
    BY FillEffect
  <1>2. /\ PricesBounded' /\ Uncrossed' /\ LevelsSound'
        /\ RestingOrders' = (RestingOrders \ {resting}) \cup
               (IF resting.quantity = filled THEN {}
                ELSE {[resting EXCEPT !.quantity = resting.quantity - filled]})
    BY <1>1, FillLevels
  <1>3. PICK best : best = BestPrice(side)
    OBVIOUS
  <1>4. book' \in Books
    BY <1>1, <1>3, FillBook
  <1> USE DEF EngineInv
  <1> DEFINE reduced == [resting EXCEPT !.quantity = resting.quantity - filled]
             t == [buy_order_id |-> IF order.side = "Buy" THEN order.id ELSE resting.id,
                   sell_order_id |-> IF order.side = "Buy" THEN resting.id ELSE order.id,
                   price |-> resting.price, quantity |-> filled]
  <1>5. /\ resting \in Order /\ resting.side = side /\ resting.id \in Nat /\ resting.quantity \in Nat /\ resting.price \in Prices
        /\ order.id \in Nat /\ order.quantity \in Nat /\ order.side \in Sides /\ order # NoOrder
        /\ resting.price \in Nat /\ order.price \in Nat
    BY <1>1, BestOfSide, OrderParts
  <1>6. /\ reduced.id = resting.id /\ reduced.side = resting.side /\ reduced.price = resting.price
        /\ reduced.quantity = resting.quantity - filled
    BY <1>5 DEF Order
  <1>7. /\ order' \in Order /\ order'.id = order.id /\ order'.side = order.side /\ order'.price = order.price
        /\ order'.quantity = order.quantity - filled /\ order'.quantity \in Nat /\ order' # NoOrder
    <2>1. order.quantity \in 0 .. MaxQuantity /\ MaxQuantity \in Nat
      BY <1>1, OrderParts, SystemsAssumption
    <2>2. order.quantity - filled \in 0 .. MaxQuantity /\ order.quantity - filled \in Nat
      BY <1>1, <1>5, <2>1
    <2>3. order' \in Order
      BY <1>1, <2>2 DEF Order
    <2>4. /\ order'.id = order.id /\ order'.side = order.side /\ order'.price = order.price
          /\ order'.quantity = order.quantity - filled
      BY <1>1 DEF Order
    <2> QED
      BY <2>2, <2>3, <2>4, OrderParts
  <1>8. t \in Trades /\ t.quantity = filled /\ t.price = resting.price
        /\ t.buy_order_id = (IF order.side = "Buy" THEN order.id ELSE resting.id)
        /\ t.sell_order_id = (IF order.side = "Buy" THEN resting.id ELSE order.id)
    BY <1>5 DEF Trades
  <1>9. trades_' = Append(trades_, t) /\ trades_ \in Seq(Trades)
    BY <1>1 DEF EngineTyped
  <1> HIDE DEF t, reduced
  <1>10. /\ trades_' \in Seq(Trades) /\ Len(trades_') = Len(trades_) + 1 /\ Len(trades_) \in Nat
         /\ \A n \in 1 .. Len(trades_') : trades_'[n] = IF n = Len(trades_) + 1 THEN t ELSE trades_[n]
         /\ \A n \in 1 .. Len(trades_') : n = Len(trades_) + 1 \/ n \in 1 .. Len(trades_)
    BY <1>8, <1>9
  <1>11. EngineTyped'
    <2>1. order.id = next_order_id_ - 1 /\ next_order_id_ \in Nat \ {0} /\ submitted \subseteq Order
      BY <1>5 DEF EngineTyped
    <2> QED
      BY <1>1, <1>4, <1>7, <1>10, <2>1 DEF EngineTyped
  <1>12. /\ \A r \in RestingOrders' : r \in RestingOrders \/ (r.id = resting.id /\ r.side = resting.side /\ r.price = resting.price)
    BY <1>2, <1>6 DEF reduced
  <1>13. /\ WasSubmitted(order) /\ WasSubmitted(resting) /\ resting.id < order.id
         /\ order.id < next_order_id_ /\ resting.id < next_order_id_
    <2>1. WasSubmitted(order) /\ WasSubmitted(resting) /\ resting.id < order.id
      BY <1>1, <1>5 DEF IdsAscend
    <2> QED
      BY <2>1 DEF IdsAscend, WasSubmitted
  <1>14. IdsAscend'
    <2>1. \A r \in RestingOrders' : WasSubmitted(r)'
      BY <1>1, <1>12, <1>13 DEF IdsAscend, WasSubmitted
    <2>2. WasSubmitted(order)'
      BY <1>1, <1>7, <1>13 DEF WasSubmitted
    <2>3. \A r \in RestingOrders' : r.id < order'.id
      BY <1>5, <1>7, <1>12, <1>13 DEF IdsAscend
    <2>4. \A n \in 1 .. Len(trades_') :
              trades_'[n].buy_order_id < next_order_id_ /\ trades_'[n].sell_order_id < next_order_id_
      <3>1. t.buy_order_id < next_order_id_ /\ t.sell_order_id < next_order_id_
        BY <1>8, <1>13
      <3> QED
        BY <1>10, <3>1 DEF IdsAscend
    <2> QED
      BY <1>1, <2>1, <2>2, <2>3, <2>4 DEF IdsAscend
  <1>15. TradesWithinLimits'
    <2>1. DOMAIN trades_ = 1 .. Len(trades_) /\ DOMAIN trades_' = 1 .. Len(trades_')
      BY <1>9, <1>10
    <2> SUFFICES ASSUME NEW n \in 1 .. Len(trades_'), NEW buyer \in submitted, NEW seller \in submitted,
                        buyer.id = trades_'[n].buy_order_id, seller.id = trades_'[n].sell_order_id
                 PROVE  /\ buyer.side = "Buy" /\ seller.side = "Sell"
                        /\ seller.price <= trades_'[n].price /\ trades_'[n].price <= buyer.price
                        /\ trades_'[n].quantity > 0
      BY <1>1, <2>1 DEF TradesWithinLimits
    <2>2. CASE n \in 1 .. Len(trades_)
      <3>1. trades_'[n] = trades_[n]
        BY <1>10, <2>2
      <3> QED
        BY <2>1, <2>2, <3>1 DEF TradesWithinLimits
    <2>3. CASE n = Len(trades_) + 1
      <3>1. trades_'[n] = t
        BY <1>10, <2>3
      <3>2. PICK o \in submitted : o.id = order.id /\ o.side = order.side /\ o.price = order.price
        BY <1>13 DEF WasSubmitted
      <3>3. PICK r \in submitted : r.id = resting.id /\ r.side = resting.side /\ r.price = resting.price
        BY <1>13 DEF WasSubmitted
      <3>4. buyer = (IF order.side = "Buy" THEN o ELSE r) /\ seller = (IF order.side = "Buy" THEN r ELSE o)
        BY <1>8, <3>1, <3>2, <3>3 DEF IdsAscend
      <3>5. filled > 0 /\ filled \in Nat
        OBVIOUS
      <3>6. CASE order.side = "Buy"
        <4>1. buyer = o /\ seller = r /\ resting.side = "Sell" /\ resting.price <= order.price
          BY <1>1, <1>5, <3>4, <3>6 DEF Accepts, Sides
        <4> QED
          BY <1>5, <1>8, <3>1, <3>2, <3>3, <3>5, <3>6, <4>1
      <3>7. CASE order.side # "Buy"
        <4>1. buyer = r /\ seller = o /\ order.side = "Sell" /\ resting.side = "Buy" /\ order.price <= resting.price
          BY <1>1, <1>5, <3>4, <3>7 DEF Accepts, Sides
        <4> QED
          BY <1>5, <1>8, <3>1, <3>2, <3>3, <3>5, <3>7, <4>1
      <3> QED
        BY <3>6, <3>7
    <2> QED
      BY <1>10, <2>2, <2>3
  <1>16. QuantityConserved'
    <2> SUFFICES ASSUME NEW o \in submitted
                 PROVE  o.quantity = Traded(o.id, trades_') + QuantityIn(LeftOf(o.id)')
      BY <1>1 DEF QuantityConserved, LeftOf
    <2>1. /\ o.id \in {t.buy_order_id, t.sell_order_id} => Traded(o.id, trades_') = Traded(o.id, trades_) + filled
          /\ o.id \notin {t.buy_order_id, t.sell_order_id} => Traded(o.id, trades_') = Traded(o.id, trades_)
          /\ Traded(o.id, trades_) \in Int
      BY <1>8, <1>9, TradedMore
    <2>2. o.quantity = Traded(o.id, trades_) + QuantityIn(LeftOf(o.id)) /\ o \in Order
      BY DEF QuantityConserved, LeftOf, EngineTyped
    <2>3. {t.buy_order_id, t.sell_order_id} = {order.id, resting.id}
      BY <1>8
    <2>4. \A r \in RestingOrders : r \in Order /\ r.id \in Nat /\ r.id < order.id
      BY <1>5, RestingPlace, OrderParts DEF IdsAscend
    <2>5. CASE o.id = order.id
      <3>1. LeftOf(o.id) = {order}
        BY <1>5, <2>4, <2>5 DEF LeftOf
      <3>2. LeftOf(o.id)' = {order'}
        <4>1. \A r \in RestingOrders' : r.id # order.id
          BY <1>5, <1>12, <1>13, <2>4
        <4> QED
          BY <1>7, <2>5, <4>1 DEF LeftOf
      <3>3. QuantityIn({order}) = order.quantity /\ QuantityIn({order'}) = order.quantity - filled
        BY <1>5, <1>7, OneLeft
      <3> QED
        BY <1>5, <2>1, <2>2, <2>3, <2>5, <3>1, <3>2, <3>3
    <2>6. CASE o.id = resting.id
      <3>1. LeftOf(o.id) = {resting}
        <4>1. \A r \in RestingOrders : r.id = resting.id => r = resting
          BY IdsDiffer
        <4> QED
          BY <1>5, <1>13, <2>6, <4>1 DEF LeftOf
      <3>2. LeftOf(o.id)' = IF resting.quantity = filled THEN {} ELSE {reduced}
        <4>1. \A r \in RestingOrders \ {resting} : r.id # resting.id
          BY IdsDiffer
        <4>2. order'.id # resting.id
          BY <1>5, <1>7, <1>13
        <4> QED
          BY <1>2, <1>6, <2>6, <4>1, <4>2 DEF LeftOf, reduced
      <3>3. QuantityIn({resting}) = resting.quantity
        BY <1>5, OneLeft
      <3>4. CASE resting.quantity = filled
        <4>1. QuantityIn(LeftOf(o.id)') = 0
          BY <3>2, <3>4, NothingLeft
        <4> QED
          BY <1>5, <2>1, <2>2, <2>3, <2>6, <3>1, <3>3, <3>4, <4>1
      <3>5. CASE resting.quantity # filled
        <4>1. reduced.quantity \in Nat
          BY <1>1, <1>5, <1>6
        <4>2. QuantityIn(LeftOf(o.id)') = resting.quantity - filled
          BY <1>6, <3>2, <3>5, <4>1, OneLeft
        <4> QED
          BY <1>5, <2>1, <2>2, <2>3, <2>6, <3>1, <3>3, <4>2
      <3> QED
        BY <3>4, <3>5
    <2>7. CASE o.id # order.id /\ o.id # resting.id
      <3>1. LeftOf(o.id)' = LeftOf(o.id)
        BY <1>2, <1>6, <1>7, <2>7 DEF LeftOf, reduced
      <3> QED
        BY <2>1, <2>2, <2>3, <2>7, <3>1
    <2> QED
      BY <2>5, <2>6, <2>7
  <1> QED
    BY <1>2, <1>11, <1>14, <1>15, <1>16

JoinedBook(o) == [book EXCEPT ![o.side] = WithOrder(book[o.side], o)]

(* The remainder of an order that cannot be filled any more joins the queue of
   its price, behind orders with smaller ids, and does not cross the book. *)
LEMMA JoinLevels ==
    ASSUME EngineInv, order # NoOrder, ~CanFill(order), order.quantity > 0, book' = JoinedBook(order)
    PROVE  /\ book' \in Books /\ PricesBounded' /\ Uncrossed' /\ LevelsSound'
           /\ RestingOrders' = RestingOrders \cup {order}
  <1> USE DEF EngineInv
  <1>1. order \in Order
    BY DEF EngineTyped
  <1>2. PICK o \in Order : o = order
    BY <1>1
  <1>3. /\ o.id \in Nat /\ o.side \in Sides /\ o.price \in Prices /\ o.price \in Nat /\ o.quantity \in Nat /\ o.quantity > 0
    BY <1>2, OrderParts
  <1> DEFINE side == o.side
             old == IF o.price \in DOMAIN book[side] THEN book[side][o.price] ELSE <<>>
             more == Append(old, o)
  <1>4. old \in Seq(Order)
    <2>1. CASE o.price \in DOMAIN book[side]
      BY <1>3, <2>1, SideTyped
    <2>2. CASE o.price \notin DOMAIN book[side]
      BY <2>2
    <2> QED
      BY <2>1, <2>2
  <1>5. /\ DOMAIN WithOrder(book[side], o) = DOMAIN book[side] \cup {o.price}
        /\ WithOrder(book[side], o)[o.price] = more
        /\ \A q \in DOMAIN book[side] : q # o.price => WithOrder(book[side], o)[q] = book[side][q]
    BY DEF WithOrder
  <1>6. WithOrder(book[side], o) = [q \in DOMAIN WithOrder(book[side], o) |-> WithOrder(book[side], o)[q]]
    BY DEF WithOrder
  <1> HIDE DEF old
  <1>7. /\ more \in Seq(Order) /\ Len(more) = Len(old) + 1 /\ more[Len(more)] = o /\ Len(old) \in Nat
        /\ \A n \in 1 .. Len(more) : n = Len(more) \/ (n \in 1 .. Len(old) /\ more[n] = old[n])
        /\ \A n \in 1 .. Len(old) : n \in 1 .. Len(more) /\ more[n] = old[n]
        /\ more # <<>>
    BY <1>4
  <1> HIDE DEF more
  <1>8. /\ DOMAIN book[side] \subseteq Prices /\ DOMAIN book[side] \subseteq Nat
        /\ \A p \in DOMAIN book[side] :
               book[side][p] \in Seq(Order) /\ DOMAIN book[side][p] = 1 .. Len(book[side][p])
    BY <1>3, SideTyped
  <1>9. WithOrder(book[side], o) \in [DOMAIN book[side] \cup {o.price} -> Seq(Order)]
    BY <1>5, <1>6, <1>7, <1>8
  <1>10. book' \in Books
    <2>1. DOMAIN book[side] \cup {o.price} \in SUBSET Prices
      BY <1>3, <1>8
    <2> QED
      BY <1>2, <1>3, <1>9, <2>1 DEF EngineTyped, Books, JoinedBook
  <1>11. /\ \A s \in Sides : s # side => book'[s] = book[s]
         /\ book'[side] = WithOrder(book[side], o)
    BY <1>2, <1>3 DEF EngineTyped, Books, JoinedBook
  <1>12. PricesBounded'
    <2> SUFFICES ASSUME NEW s \in Sides PROVE \E bound \in Nat : \A p \in DOMAIN book'[s] : p <= bound
      BY DEF PricesBounded
    <2>1. PICK bound \in Nat : \A p \in DOMAIN book[s] : p <= bound
      BY DEF PricesBounded
    <2>2. \A p \in DOMAIN book'[s] : p \in DOMAIN book[s] \/ p = o.price
      BY <1>5, <1>11
    <2>a. \A p \in DOMAIN book[s] : p \in Nat
      BY SideTyped
    <2>3. bound + o.price \in Nat /\ \A p \in DOMAIN book[s] : p \in Nat
      BY <1>3, <2>1, <2>a
    <2>4. \A p \in DOMAIN book'[s] : p <= bound + o.price
      BY <1>3, <2>1, <2>2, <2>3
    <2> QED
      BY <2>3, <2>4
  <1>13. Uncrossed'
    <2>1. \A s \in Sides : DOMAIN book[s] \subseteq Nat
      BY SideTyped
    <2>2. CASE side = "Buy"
      <3>1. \A ask \in DOMAIN book["Sell"] : o.price < ask
        <4> SUFFICES ASSUME NEW ask \in DOMAIN book["Sell"] PROVE o.price < ask
          OBVIOUS
        <4>1. "Sell" \in Sides /\ DOMAIN book["Sell"] # {}
          BY DEF Sides
        <4>2. ~(o.price >= BestPrice("Sell"))
          BY <1>2, <1>3, <2>2, <4>1 DEF CanFill, Opposite, Accepts
        <4>3. BestPrice("Sell") \in Nat /\ BestPrice("Sell") <= ask
          BY <4>1, BestOfSide
        <4> QED
          BY <1>3, <2>1, <4>1, <4>2, <4>3
      <3>2. DOMAIN book'["Sell"] = DOMAIN book["Sell"] /\ DOMAIN book'["Buy"] = DOMAIN book["Buy"] \cup {o.price}
        BY <1>5, <1>11, <2>2 DEF Sides
      <3> QED
        BY <3>1, <3>2 DEF Uncrossed
    <2>3. CASE side # "Buy"
      <3>0. side = "Sell"
        BY <1>3, <2>3 DEF Sides
      <3>1. \A bid \in DOMAIN book["Buy"] : bid < o.price
        <4> SUFFICES ASSUME NEW bid \in DOMAIN book["Buy"] PROVE bid < o.price
          OBVIOUS
        <4>1. "Buy" \in Sides /\ DOMAIN book["Buy"] # {}
          BY DEF Sides
        <4>2. ~(o.price <= BestPrice("Buy"))
          BY <1>2, <1>3, <3>0, <4>1 DEF CanFill, Opposite, Accepts
        <4>3. BestPrice("Buy") \in Nat /\ bid <= BestPrice("Buy")
          BY <4>1, BestOfSide
        <4> QED
          BY <1>3, <2>1, <4>1, <4>2, <4>3
      <3>2. DOMAIN book'["Buy"] = DOMAIN book["Buy"] /\ DOMAIN book'["Sell"] = DOMAIN book["Sell"] \cup {o.price}
        BY <1>5, <1>11, <3>0 DEF Sides
      <3> QED
        BY <3>1, <3>2 DEF Uncrossed
    <2> QED
      BY <2>2, <2>3
  <1>14. LevelsSound'
    <2> SUFFICES ASSUME NEW s \in Sides, NEW q \in DOMAIN book'[s] PROVE LevelSound(s, q, book'[s][q])
      BY DEF LevelsSound
    <2>1. CASE s = side /\ q = o.price
      <3>1. book'[s][q] = more /\ DOMAIN more = 1 .. Len(more) /\ DOMAIN old = 1 .. Len(old)
        BY <1>4, <1>5, <1>7, <1>11, <2>1
      <3>2. \A n \in 1 .. Len(old) :
                 /\ o.price \in DOMAIN book[side] /\ old = book[side][o.price]
                 /\ old[n] \in RestingOrders /\ old[n].id < o.id /\ old[n].id \in Nat
                 /\ old[n] \in Order /\ old[n].side = side /\ old[n].price = o.price /\ old[n].quantity > 0
        <4> SUFFICES ASSUME NEW n \in 1 .. Len(old)
                     PROVE  /\ o.price \in DOMAIN book[side] /\ old = book[side][o.price]
                            /\ old[n] \in RestingOrders /\ old[n].id < o.id /\ old[n].id \in Nat
                            /\ old[n] \in Order /\ old[n].side = side /\ old[n].price = o.price /\ old[n].quantity > 0
          OBVIOUS
        <4>1. o.price \in DOMAIN book[side] /\ old = book[side][o.price]
          BY DEF old
        <4>2. old[n] \in RestingOrders
          BY <1>3, <4>1, InBook
        <4>3. old[n] \in Order /\ old[n].side = side /\ old[n].price = o.price /\ old[n].quantity > 0
          BY <1>3, <3>1, <4>1 DEF LevelsSound, LevelSound
        <4>4. old[n].id < o.id /\ old[n].id \in Nat
          BY <1>2, <4>2, <4>3, OrderParts DEF IdsAscend
        <4> QED
          BY <4>1, <4>2, <4>3, <4>4
      <3>3. \A m, n \in 1 .. Len(old) : m < n => old[m].id < old[n].id
        <4> SUFFICES ASSUME NEW m \in 1 .. Len(old), NEW n \in 1 .. Len(old), m < n PROVE old[m].id < old[n].id
          OBVIOUS
        <4>1. o.price \in DOMAIN book[side] /\ old = book[side][o.price]
          BY <3>2
        <4>2. LevelSound(side, o.price, old)
          BY <1>3, <4>1 DEF LevelsSound
        <4> QED
          BY <3>1, <4>2 DEF LevelSound
      <3>4. \A n \in 1 .. Len(more) :
                more[n] \in Order /\ more[n].side = side /\ more[n].price = o.price /\ more[n].quantity > 0
        BY <1>3, <1>7, <3>2
      <3>5. \A m, n \in 1 .. Len(more) : m < n => more[m].id < more[n].id
        <4> SUFFICES ASSUME NEW m \in 1 .. Len(more), NEW n \in 1 .. Len(more), m < n PROVE more[m].id < more[n].id
          OBVIOUS
        <4>1. m \in 1 .. Len(old) /\ more[m] = old[m]
          BY <1>7
        <4>2. CASE n = Len(more)
          BY <1>7, <3>2, <4>1, <4>2
        <4>3. CASE n # Len(more)
          <5>1. n \in 1 .. Len(old) /\ more[n] = old[n]
            BY <1>7, <4>3
          <5> QED
            BY <3>3, <4>1, <5>1
        <4> QED
          BY <4>2, <4>3
      <3> QED
        BY <1>7, <2>1, <3>1, <3>4, <3>5 DEF LevelSound
    <2>2. CASE ~(s = side /\ q = o.price)
      <3>1. q \in DOMAIN book[s] /\ book'[s][q] = book[s][q]
        BY <1>5, <1>11, <2>2
      <3> QED
        BY <3>1 DEF LevelsSound
    <2> QED
      BY <2>1, <2>2
  <1>15. \A r : r \in RestingOrders' <=>
             \E s \in Sides : \E q \in DOMAIN book'[s] : \E n \in 1 .. Len(book'[s][q]) : r = book'[s][q][n]
    BY <1>10, InLevels DEF RestingOrders
  <1>16. \A r : r \in RestingOrders <=>
             \E s \in Sides : \E q \in DOMAIN book[s] : \E n \in 1 .. Len(book[s][q]) : r = book[s][q][n]
    BY InBook
  <1>17. ASSUME NEW r \in RestingOrders' PROVE r \in RestingOrders \cup {o}
    <2>1. PICK s \in Sides : \E q \in DOMAIN book'[s] : \E n \in 1 .. Len(book'[s][q]) : r = book'[s][q][n]
      BY <1>15, <1>17
    <2>2. PICK q \in DOMAIN book'[s] : \E n \in 1 .. Len(book'[s][q]) : r = book'[s][q][n]
      BY <2>1
    <2>3. PICK n \in 1 .. Len(book'[s][q]) : r = book'[s][q][n]
      BY <2>2
    <2>4. CASE s = side /\ q = o.price
      <3>1. book'[s][q] = more /\ n \in 1 .. Len(more) /\ r = more[n]
        BY <1>5, <1>11, <2>3, <2>4
      <3>2. CASE n # Len(more)
        <4>1. n \in 1 .. Len(old) /\ r = old[n]
          BY <1>7, <3>1, <3>2
        <4>2. o.price \in DOMAIN book[side] /\ old = book[side][o.price]
          BY <4>1 DEF old
        <4> QED
          BY <1>3, <1>16, <4>1, <4>2
      <3> QED
        BY <1>7, <3>1, <3>2
    <2>5. CASE ~(s = side /\ q = o.price)
      <3>1. q \in DOMAIN book[s] /\ book'[s][q] = book[s][q]
        BY <1>5, <1>11, <2>5
      <3> QED
        BY <1>16, <2>3, <3>1
    <2> QED
      BY <2>4, <2>5
  <1>18. ASSUME NEW r \in RestingOrders PROVE r \in RestingOrders'
    <2>1. r.side \in Sides /\ r.price \in DOMAIN book[r.side]
      BY <1>18, RestingPlace
    <2>2. PICK n \in 1 .. Len(book[r.side][r.price]) : r = book[r.side][r.price][n]
      BY <1>18, RestingPlace
    <2>3. CASE r.side = side /\ r.price = o.price
      <3>1. old = book[side][o.price]
        BY <2>1, <2>3 DEF old
      <3>2. n \in 1 .. Len(more) /\ r = more[n]
        BY <1>7, <2>2, <2>3, <3>1
      <3>3. o.price \in DOMAIN book'[side] /\ book'[side][o.price] = more
        BY <1>5, <1>11
      <3> QED
        BY <1>3, <1>15, <3>2, <3>3
    <2>4. CASE ~(r.side = side /\ r.price = o.price)
      <3>1. r.price \in DOMAIN book'[r.side] /\ book'[r.side][r.price] = book[r.side][r.price]
        BY <1>5, <1>11, <2>1, <2>4
      <3> QED
        BY <1>15, <2>1, <2>2, <3>1
    <2> QED
      BY <2>3, <2>4
  <1>19. o \in RestingOrders'
    <2>1. o.price \in DOMAIN book'[side] /\ book'[side][o.price] = more /\ Len(more) \in 1 .. Len(more)
      BY <1>5, <1>7, <1>11
    <2> QED
      BY <1>3, <1>7, <1>15, <2>1
  <1>20. RestingOrders' = RestingOrders \cup {order}
    BY <1>2, <1>17, <1>18, <1>19
  <1> QED
    BY <1>10, <1>12, <1>13, <1>14, <1>20

(* The end of a call: what is left of the order joins the book or is nothing. *)
LEMMA RestKeeps ==
    ASSUME EngineInv, Rest PROVE EngineInv'
  <1>1. /\ order # NoOrder /\ ~CanFill(order) /\ order' = NoOrder
        /\ book' = IF order.quantity > 0 THEN JoinedBook(order) ELSE book
        /\ trades_' = trades_ /\ next_order_id_' = next_order_id_ /\ submitted' = submitted
    BY DEF Rest, JoinedBook
  <1>2. order \in Order /\ order.quantity \in Nat
    BY <1>1, OrderParts DEF EngineInv, EngineTyped
  <1>3. /\ book' \in Books /\ PricesBounded' /\ Uncrossed' /\ LevelsSound'
        /\ RestingOrders' = IF order.quantity > 0 THEN RestingOrders \cup {order} ELSE RestingOrders
    <2>1. CASE order.quantity > 0
      BY <1>1, <2>1, JoinLevels
    <2>2. CASE ~(order.quantity > 0)
      <3>1. book' = book
        BY <1>1, <2>2
      <3> QED
        BY <2>2, <3>1 DEF EngineInv, EngineTyped, PricesBounded, Uncrossed, LevelsSound, RestingOrders
    <2> QED
      BY <2>1, <2>2
  <1> USE DEF EngineInv
  <1>4. EngineTyped'
    BY <1>1, <1>3 DEF EngineTyped
  <1>5. WasSubmitted(order)
    BY <1>1 DEF IdsAscend
  <1>6. IdsAscend'
    <2>1. \A r \in RestingOrders' : WasSubmitted(r)
      BY <1>3, <1>5 DEF IdsAscend
    <2>2. \A r \in RestingOrders' : WasSubmitted(r)'
      BY <1>1, <2>1 DEF WasSubmitted
    <2> QED
      BY <1>1, <2>2 DEF IdsAscend
  <1>7. TradesWithinLimits'
    BY <1>1 DEF TradesWithinLimits
  <1>8. QuantityConserved'
    <2> SUFFICES ASSUME NEW o \in submitted
                 PROVE  o.quantity = Traded(o.id, trades_) + QuantityIn(LeftOf(o.id)')
      BY <1>1 DEF QuantityConserved, LeftOf
    <2>1. o.quantity = Traded(o.id, trades_) + QuantityIn(LeftOf(o.id)) /\ o \in Order
      BY DEF QuantityConserved, LeftOf, EngineTyped
    <2>2. o.id # 0 /\ order'.id = 0
      BY <1>1, <2>1, OrderParts DEF NoOrder
    <2>3. CASE order.quantity > 0 \/ o.id # order.id
      <3>1. LeftOf(o.id)' = LeftOf(o.id)
        BY <1>3, <2>2, <2>3 DEF LeftOf
      <3> QED
        BY <2>1, <3>1
    <2>4. CASE order.quantity = 0 /\ o.id = order.id
      <3>1. \A r \in RestingOrders : r.id # order.id
        <4>1. \A r \in RestingOrders : r.id < order.id /\ r.id \in Nat
          BY <1>1, RestingPlace, OrderParts DEF IdsAscend
        <4>2. order.id \in Nat
          BY <1>2, OrderParts
        <4> QED
          BY <4>1, <4>2
      <3>2. LeftOf(o.id) = {order}
        BY <2>4, <3>1 DEF LeftOf
      <3>3. LeftOf(o.id)' = {}
        BY <1>3, <2>2, <2>4, <3>1 DEF LeftOf
      <3> QED
        BY <1>2, <2>1, <2>4, <3>2, <3>3, OneLeft, NothingLeft
    <2> QED
      BY <1>2, <2>3, <2>4
  <1> QED
    BY <1>3, <1>4, <1>6, <1>7, <1>8

LEMMA EngineNext == EngineInv /\ [Next]_vars => EngineInv'
  <1> SUFFICES ASSUME EngineInv, [Next]_vars PROVE EngineInv'
    OBVIOUS
  <1>1. CASE UNCHANGED vars
    BY <1>1 DEF vars, EngineInv, EngineTyped, PricesBounded, LevelsSound, Uncrossed, IdsAscend, WasSubmitted,
                TradesWithinLimits, QuantityConserved, RestingOrders
  <1> QED
    BY <1>1, SubmitKeeps, FillKeeps, RestKeeps DEF Next, NoMoreOrders

LEMMA EngineInvSound == EngineInv => MatchingSound
  BY DEF EngineInv, MatchingSound, NotCrossed, Uncrossed

(* After any sequence of calls, whatever the prices and quantities: levels are
   queues of live orders, the book is not crossed between calls, every order's
   quantity is what it traded plus what is left, and no trade is outside the
   limits of its parties (matchBuy and matchSell, lines 80-129). *)
THEOREM MatchingCorrect == Spec => []MatchingSound
  BY EngineInit, EngineNext, EngineInvSound, PTL DEF Spec

-----------------------------------------------------------------------------
(* An iteration fills the first order of the best level: the only resting order
   that the new trade names. *)
LEMMA PriorityStep ==
    ASSUME EngineInv, Next, NEW r \in RestingOrders,
           Len(trades_') > Len(trades_), r.side # order.side,
           NEW t, t = trades_'[Len(trades_')],
           NEW filled, filled = CHOOSE x \in RestingOrders : x.id \in {t.buy_order_id, t.sell_order_id}
    PROVE  \/ r.price = filled.price /\ r.id >= filled.id
           \/ IF r.side = "Buy" THEN r.price < filled.price ELSE r.price > filled.price
  <1>0. Len(trades_) \in Nat /\ trades_ \in Seq(Trades)
    BY DEF EngineInv, EngineTyped
  <1>1. Fill
    <2>1. trades_' = trades_ => ~(Len(trades_') > Len(trades_))
      BY <1>0
    <2> QED
      BY <2>1 DEF Next, submitOrder, Rest, NoMoreOrders, vars
  <1>2. PICK side \in Sides, resting \in RestingOrders, qty \in Nat \ {0} :
             /\ order \in Order /\ side # order.side /\ DOMAIN book[side] # {} /\ resting = Resting(side)
             /\ trades_' = Append(trades_, [buy_order_id |-> IF order.side = "Buy" THEN order.id ELSE resting.id,
                                           sell_order_id |-> IF order.side = "Buy" THEN resting.id ELSE order.id,
                                           price |-> resting.price, quantity |-> qty])
    BY <1>1, FillEffect
  <1> USE DEF EngineInv
  <1>3. {t.buy_order_id, t.sell_order_id} = {order.id, resting.id}
    <2>1. t = [buy_order_id |-> IF order.side = "Buy" THEN order.id ELSE resting.id,
               sell_order_id |-> IF order.side = "Buy" THEN resting.id ELSE order.id,
               price |-> resting.price, quantity |-> qty]
      BY <1>0, <1>2
    <2> QED
      BY <2>1
  <1>4. order # NoOrder /\ order.id \in Nat
    BY <1>2, OrderParts
  <1>5. \A x \in RestingOrders : x \in Order /\ x.id \in Nat /\ x.id < order.id
    BY <1>4, RestingPlace, OrderParts DEF IdsAscend
  <1>6. \A x \in RestingOrders : x.id \in {t.buy_order_id, t.sell_order_id} <=> x = resting
    <2>1. ASSUME NEW x \in RestingOrders, x.id \in {order.id, resting.id} PROVE x = resting
      <3>1. x.id = resting.id
        BY <1>4, <1>5, <2>1
      <3> QED
        BY <3>1, IdsDiffer
    <2> QED
      BY <1>3, <2>1
  <1>7. filled = resting
    BY <1>6
  <1>8. /\ r \in Order /\ r.side \in Sides /\ r.price \in DOMAIN book[r.side]
        /\ r.id \in Nat /\ r.price \in Nat /\ order.side \in Sides
    BY <1>2, RestingPlace, OrderParts
  <1>9. r.side = side
    BY <1>2, <1>8 DEF Sides
  <1>10. PICK best \in Nat :
             /\ best = BestPrice(side) /\ resting = book[side][best][1] /\ resting.price = best
             /\ best \in DOMAIN book[side] /\ book[side][best] \in Seq(Order) /\ book[side][best] # <<>>
             /\ IF side = "Buy" THEN r.price <= best ELSE best <= r.price
    BY <1>2, <1>8, <1>9, BestOfSide
  <1>11. CASE r.price = best
    <2>1. PICK n \in 1 .. Len(book[side][best]) : r = book[side][best][n]
      BY <1>9, <1>11, RestingPlace
    <2>2. DOMAIN book[side][best] = 1 .. Len(book[side][best]) /\ 1 \in 1 .. Len(book[side][best]) /\ n \in Nat
      BY <1>10, <2>1
    <2>3. LevelSound(side, best, book[side][best])
      BY <1>10 DEF LevelsSound
    <2>4. n = 1 \/ resting.id < r.id
      BY <1>10, <2>1, <2>2, <2>3 DEF LevelSound
    <2>5. resting.id \in Nat
      BY <1>5
    <2>6. r.id >= resting.id
      BY <1>8, <1>10, <2>1, <2>4, <2>5
    <2> QED
      BY <1>7, <1>10, <1>11, <2>6
  <1>12. CASE r.price # best
    <2>1. IF r.side = "Buy" THEN r.price < best ELSE r.price > best
      BY <1>8, <1>9, <1>10, <1>12
    <2> QED
      BY <1>7, <1>10, <2>1
  <1> QED
    BY <1>11, <1>12

(* No call fills an order while an order of the same side with a better price,
   or with the same price and an earlier submission, rests in the book. *)
THEOREM PriorityCorrect == Spec => PriorityRespected
  <1>1. EngineInv /\ [Next]_vars =>
            [\A r \in RestingOrders :
                Len(trades_') > Len(trades_) /\ r.side # order.side =>
                    LET t == trades_'[Len(trades_')]
                        filled == CHOOSE x \in RestingOrders :
                                      x.id \in {t.buy_order_id, t.sell_order_id}
                    IN  \/ r.price = filled.price /\ r.id >= filled.id
                        \/ IF r.side = "Buy" THEN r.price < filled.price ELSE r.price > filled.price]_vars
    BY PriorityStep, Zenon
  <1> QED
    BY <1>1, EngineInit, EngineNext, PTL DEF Spec, PriorityRespected

-----------------------------------------------------------------------------
(* market_data_handler.cpp.  The count of the current bar tells whether there
   were ticks, and the bar's extremes are prices of its ticks. *)
Bars == [open : Int, high : Int, low : Int, close : Int, volume : Int, bar_start_ns : Int, count : Int]

MarketTyped ==
    /\ current_bar_ \in Bars /\ ticks_processed_ \in Nat
    /\ ticks \in Seq(Market!Tick) /\ past \in Seq(Seq(Market!Tick)) /\ emitted \in Seq(Bars)

(* The extremes of a bar, said without the choice of a maximum. *)
Extremal(bar, run) ==
    /\ bar.high \in Market!PricesOf(run) /\ \A p \in Market!PricesOf(run) : p <= bar.high
    /\ bar.low \in Market!PricesOf(run) /\ \A p \in Market!PricesOf(run) : bar.low <= p

MarketInv ==
    /\ MarketTyped /\ Market!BarsSound
    /\ ticks_processed_ > 0 => Extremal(current_bar_, ticks)
    /\ ticks_processed_ = 0 => current_bar_.count = 0 /\ ticks = <<>>

(* The parts of a tick. *)
LEMMA TickParts ==
    ASSUME NEW tick \in Market!Tick
    PROVE  tick.price \in Int /\ tick.quantity \in Nat /\ tick.timestamp_ns \in Int
  <1>1. tick.price \in TickPrices /\ tick.quantity \in TickQuantities /\ tick.timestamp_ns \in Times
    BY DEF Market!Tick
  <1>2. TickPrices \subseteq Int /\ Times \subseteq Int /\ TickQuantities \subseteq Nat
    BY SystemsAssumption
  <1> QED
    BY <1>1, <1>2

LEMMA MarketTotal ==
    ASSUME NEW f PROVE Market!Total(f) = SumOver(f, DOMAIN f)
  BY DEF Market!Total, Market!MapThenSumSet, Market!MapThenFoldSet, SumOver, MapThenSumSet, MapThenFoldSet

(* The greatest and the least of a set are the ones that compare so. *)
LEMMA Extremes ==
    ASSUME NEW S \in SUBSET Int, NEW x \in S
    PROVE  /\ (\A y \in S : y <= x) => Market!Max(S) = x
           /\ (\A y \in S : x <= y) => Market!Min(S) = x
  <1>1. ASSUME \A y \in S : y <= x PROVE Market!Max(S) = x
    <2>1. \A z \in S : (\A y \in S : z >= y) <=> z = x
      BY <1>1
    <2> QED
      BY <2>1 DEF Market!Max
  <1>2. ASSUME \A y \in S : x <= y PROVE Market!Min(S) = x
    <2>1. \A z \in S : (\A y \in S : z =< y) <=> z = x
      BY <1>2
    <2> QED
      BY <2>1 DEF Market!Min
  <1> QED
    BY <1>1, <1>2

(* The volume of a run with one more tick, and the number of ticks of one more
   run. *)
LEMMA VolumeGrows ==
    ASSUME NEW run \in Seq(Market!Tick), NEW tick \in Market!Tick
    PROVE  Market!Volume(Append(run, tick)) = Market!Volume(run) + tick.quantity /\ Market!Volume(run) \in Int
  <1> DEFINE more == Append(run, tick)
             f == [n \in DOMAIN run |-> run[n].quantity]
             e == [n \in DOMAIN more |-> more[n].quantity]
             k == Len(run)
  <1>1. /\ k \in Nat /\ DOMAIN run = 1 .. k /\ more \in Seq(Market!Tick) /\ DOMAIN more = 1 .. k + 1
        /\ more[k + 1] = tick /\ \A n \in 1 .. k : more[n] = run[n] /\ n \in 1 .. k + 1
        /\ k + 1 \in 1 .. k + 1 /\ \A n \in 1 .. k + 1 : more[n] \in Market!Tick
    OBVIOUS
  <1>2. DOMAIN f = 1 .. k /\ DOMAIN e = 1 .. k + 1
    BY <1>1
  <1>3. Market!Volume(run) = SumOver(f, DOMAIN f)
    BY MarketTotal DEF Market!Volume
  <1>4. Market!Volume(more) = SumOver(e, DOMAIN e)
    BY MarketTotal DEF Market!Volume
  <1> HIDE DEF k, more
  <1>5. e[k + 1] = tick.quantity /\ \A n \in 1 .. k : f[n] = e[n]
    BY <1>1
  <1>6. \A n \in 1 .. k + 1 : e[n] \in Int
    <2>1. \A n \in 1 .. k + 1 : more[n].quantity \in Int
      BY <1>1, TickParts
    <2> QED
      BY <1>1, <2>1
  <1> HIDE DEF f, e
  <1>7. SumOver(e, 1 .. k + 1) = SumOver(f, 1 .. k) + e[k + 1] /\ SumOver(f, 1 .. k) \in Int
    BY <1>1, <1>5, <1>6, SumLonger
  <1> QED
    BY <1>2, <1>3, <1>4, <1>5, <1>7 DEF more

LEMMA RunsGrow ==
    ASSUME NEW runs \in Seq(Seq(Market!Tick)), NEW run \in Seq(Market!Tick)
    PROVE  Market!TicksIn(Append(runs, run)) = Market!TicksIn(runs) + Len(run) /\ Market!TicksIn(runs) \in Int
  <1> DEFINE more == Append(runs, run)
             f == [n \in DOMAIN runs |-> Len(runs[n])]
             e == [n \in DOMAIN more |-> Len(more[n])]
             k == Len(runs)
  <1>1. /\ k \in Nat /\ DOMAIN runs = 1 .. k /\ more \in Seq(Seq(Market!Tick)) /\ DOMAIN more = 1 .. k + 1
        /\ more[k + 1] = run /\ \A n \in 1 .. k : more[n] = runs[n] /\ n \in 1 .. k + 1
        /\ k + 1 \in 1 .. k + 1 /\ \A n \in 1 .. k + 1 : more[n] \in Seq(Market!Tick)
    OBVIOUS
  <1>2. DOMAIN f = 1 .. k /\ DOMAIN e = 1 .. k + 1
    BY <1>1
  <1>3. Market!TicksIn(runs) = SumOver(f, DOMAIN f)
    BY MarketTotal DEF Market!TicksIn
  <1>4. Market!TicksIn(more) = SumOver(e, DOMAIN e)
    BY MarketTotal DEF Market!TicksIn
  <1> HIDE DEF k, more
  <1>5. e[k + 1] = Len(run) /\ \A n \in 1 .. k : f[n] = e[n]
    BY <1>1
  <1>6. \A n \in 1 .. k + 1 : e[n] \in Int
    BY <1>1
  <1> HIDE DEF f, e
  <1>7. SumOver(e, 1 .. k + 1) = SumOver(f, 1 .. k) + e[k + 1] /\ SumOver(f, 1 .. k) \in Int
    BY <1>1, <1>5, <1>6, SumLonger
  <1> QED
    BY <1>2, <1>3, <1>4, <1>5, <1>7 DEF more

LEMMA EmptySums == Market!Volume(<<>>) = 0 /\ Market!TicksIn(<<>>) = 0
  <1> DEFINE f == [n \in DOMAIN <<>> |-> <<>>[n].quantity]
             e == [n \in DOMAIN <<>> |-> Len(<<>>[n])]
  <1>1. DOMAIN f = {} /\ DOMAIN e = {}
    OBVIOUS
  <1>2. Market!Volume(<<>>) = SumOver(f, DOMAIN f)
    BY MarketTotal DEF Market!Volume
  <1>3. Market!TicksIn(<<>>) = SumOver(e, DOMAIN e)
    BY MarketTotal DEF Market!TicksIn
  <1> HIDE DEF f, e
  <1> QED
    BY <1>1, <1>2, <1>3, SumEmpty

(* What a tick changes in a bar (lines 76-80). *)
LEMMA UpdatedParts ==
    ASSUME NEW old \in Bars, NEW tick \in Market!Tick, NEW bar, bar = Market!Updated(old, tick)
    PROVE  /\ bar.open = old.open /\ bar.bar_start_ns = old.bar_start_ns /\ bar.close = tick.price
           /\ bar.volume = old.volume + tick.quantity /\ bar.count = old.count + 1
           /\ bar.high = (IF tick.price > old.high THEN tick.price ELSE old.high)
           /\ bar.low = (IF tick.price < old.low THEN tick.price ELSE old.low)
           /\ bar \in Bars
  <1>1. tick.price \in Int /\ tick.quantity \in Nat
    BY TickParts
  <1>2. PICK high \in Int : high = IF tick.price > old.high THEN tick.price ELSE old.high
    BY <1>1 DEF Bars
  <1>3. PICK low \in Int : low = IF tick.price < old.low THEN tick.price ELSE old.low
    BY <1>1 DEF Bars
  <1>4. PICK volume \in Int : volume = old.volume + tick.quantity
    BY <1>1 DEF Bars
  <1>5. PICK count \in Int : count = old.count + 1
    BY DEF Bars
  <1>6. bar = [old EXCEPT !.high = high, !.low = low, !.close = tick.price, !.volume = volume, !.count = count]
    BY <1>2, <1>3, <1>4, <1>5 DEF Market!Updated
  <1>7. /\ bar.open = old.open /\ bar.bar_start_ns = old.bar_start_ns /\ bar.close = tick.price
        /\ bar.volume = volume /\ bar.count = count /\ bar.high = high /\ bar.low = low
    BY <1>6 DEF Bars
  <1>8. bar \in Bars
    BY <1>1, <1>6 DEF Bars
  <1> QED
    BY <1>2, <1>3, <1>4, <1>5, <1>7, <1>8

LEMMA PricesTyped ==
    ASSUME NEW run \in Seq(Market!Tick)
    PROVE  Market!PricesOf(run) \in SUBSET Int
  <1>1. \A n \in DOMAIN run : run[n] \in Market!Tick
    OBVIOUS
  <1>2. \A n \in DOMAIN run : run[n].price \in Int
    BY <1>1, TickParts
  <1> QED
    BY <1>2 DEF Market!PricesOf

LEMMA ExtremalMax ==
    ASSUME NEW run \in Seq(Market!Tick), NEW bar, Extremal(bar, run)
    PROVE  bar.high = Market!Max(Market!PricesOf(run)) /\ bar.low = Market!Min(Market!PricesOf(run))
  <1>1. PICK S \in SUBSET Int : S = Market!PricesOf(run)
    BY PricesTyped
  <1>2. PICK h \in S : h = bar.high /\ \A p \in S : p <= h
    BY <1>1 DEF Extremal
  <1>3. PICK l \in S : l = bar.low /\ \A p \in S : l <= p
    BY <1>1 DEF Extremal
  <1>4. Market!Max(S) = h
    BY <1>2, Extremes
  <1>5. Market!Min(S) = l
    BY <1>3, Extremes
  <1> QED
    BY <1>1, <1>2, <1>3, <1>4, <1>5

(* A new bar with its first tick, and a bar with one tick more. *)
LEMMA FirstTick ==
    ASSUME NEW tick \in Market!Tick, NEW bar,
           bar = Market!Updated(Market!Bar(tick.price, tick.timestamp_ns), tick)
    PROVE  bar \in Bars /\ Market!Aggregates(bar, <<tick>>) /\ Extremal(bar, <<tick>>)
  <1>1. tick.price \in Int /\ tick.quantity \in Nat /\ tick.timestamp_ns \in Int
    BY TickParts
  <1>2. PICK old \in Bars :
            /\ old = Market!Bar(tick.price, tick.timestamp_ns)
            /\ old.open = tick.price /\ old.high = tick.price /\ old.low = tick.price
            /\ old.bar_start_ns = tick.timestamp_ns /\ old.volume = 0 /\ old.count = 0
    BY <1>1 DEF Market!Bar, Bars
  <1>3. /\ bar.open = tick.price /\ bar.high = tick.price /\ bar.low = tick.price /\ bar.close = tick.price
        /\ bar.volume = tick.quantity /\ bar.bar_start_ns = tick.timestamp_ns /\ bar.count = 1 /\ bar \in Bars
    <2>1. /\ bar.open = old.open /\ bar.bar_start_ns = old.bar_start_ns /\ bar.close = tick.price
          /\ bar.volume = old.volume + tick.quantity /\ bar.count = old.count + 1
          /\ bar.high = (IF tick.price > old.high THEN tick.price ELSE old.high)
          /\ bar.low = (IF tick.price < old.low THEN tick.price ELSE old.low)
          /\ bar \in Bars
      BY <1>2, UpdatedParts
    <2> QED
      BY <1>1, <1>2, <2>1
  <1>a. <<tick>> \in Seq(Market!Tick)
    OBVIOUS
  <1>4. PICK run \in Seq(Market!Tick) : run = <<tick>>
    BY <1>a
  <1>5. /\ run # <<>> /\ Len(run) = 1 /\ DOMAIN run = {1} /\ run[1] = tick /\ Head(run) = tick
    BY <1>4
  <1>6. Market!Last(run) = tick
    BY <1>5 DEF Market!Last
  <1>7. Market!Volume(run) = tick.quantity
    <2>a. <<>> \in Seq(Market!Tick)
      OBVIOUS
    <2>1. PICK none \in Seq(Market!Tick) : none = <<>>
      BY <2>a
    <2>2. run = Append(none, tick)
      BY <1>4, <2>1
    <2>3. Market!Volume(none) = 0
      BY <2>1, EmptySums
    <2>4. Market!Volume(Append(none, tick)) = Market!Volume(none) + tick.quantity
      BY VolumeGrows
    <2> QED
      BY <1>1, <2>2, <2>3, <2>4
  <1>8. Market!PricesOf(run) = {tick.price}
    BY <1>5 DEF Market!PricesOf
  <1>9. Extremal(bar, run)
    BY <1>1, <1>3, <1>8 DEF Extremal
  <1>10. bar.high = Market!Max(Market!PricesOf(run)) /\ bar.low = Market!Min(Market!PricesOf(run))
    BY <1>9, ExtremalMax
  <1>11. \A n \in DOMAIN run : run[n].timestamp_ns - bar.bar_start_ns < BAR_DURATION_NS
    <2>1. BAR_DURATION_NS \in Nat \ {0}
      BY SystemsAssumption
    <2>2. tick.timestamp_ns - tick.timestamp_ns = 0
      BY <1>1
    <2> QED
      BY <1>3, <1>5, <2>1, <2>2
  <1>12. Market!Aggregates(bar, run)
    BY <1>3, <1>5, <1>6, <1>7, <1>10, <1>11 DEF Market!Aggregates
  <1> QED
    BY <1>3, <1>4, <1>9, <1>12

LEMMA NextTick ==
    ASSUME NEW old \in Bars, NEW run \in Seq(Market!Tick), Market!Aggregates(old, run), Extremal(old, run),
           NEW tick \in Market!Tick, tick.timestamp_ns - old.bar_start_ns < BAR_DURATION_NS,
           NEW bar, bar = Market!Updated(old, tick)
    PROVE  bar \in Bars /\ Market!Aggregates(bar, Append(run, tick)) /\ Extremal(bar, Append(run, tick))
  <1>1. tick.price \in Int /\ tick.quantity \in Nat /\ tick.timestamp_ns \in Int
    BY TickParts
  <1>2. /\ old.open \in Int /\ old.high \in Int /\ old.low \in Int /\ old.close \in Int
        /\ old.volume \in Int /\ old.bar_start_ns \in Int /\ old.count \in Int
    BY DEF Bars
  <1>3. /\ bar.open = old.open /\ bar.bar_start_ns = old.bar_start_ns /\ bar.close = tick.price
        /\ bar.volume = old.volume + tick.quantity /\ bar.count = old.count + 1
        /\ bar.high = (IF tick.price > old.high THEN tick.price ELSE old.high)
        /\ bar.low = (IF tick.price < old.low THEN tick.price ELSE old.low)
        /\ bar \in Bars
    BY UpdatedParts
  <1>4. PICK k \in Nat \ {0} : k = Len(run) /\ DOMAIN run = 1 .. k /\ run[1] = Head(run)
    BY DEF Market!Aggregates
  <1>a. Append(run, tick) \in Seq(Market!Tick)
    OBVIOUS
  <1>5. PICK more \in Seq(Market!Tick) : more = Append(run, tick)
    BY <1>a
  <1>6. /\ more # <<>> /\ Len(more) = k + 1 /\ DOMAIN more = 1 .. k + 1 /\ Head(more) = run[1] /\ more[k + 1] = tick
        /\ \A n \in 1 .. k + 1 : n = k + 1 \/ (n \in 1 .. k /\ more[n] = run[n])
        /\ \A n \in 1 .. k : n \in 1 .. k + 1 /\ more[n] = run[n]
        /\ k + 1 \in 1 .. k + 1
    BY <1>4, <1>5
  <1>7. /\ old.count = k /\ old.open = run[1].price /\ old.bar_start_ns = run[1].timestamp_ns
        /\ old.volume = Market!Volume(run)
        /\ \A n \in 1 .. k : run[n].timestamp_ns - old.bar_start_ns < BAR_DURATION_NS
    BY <1>4 DEF Market!Aggregates
  <1>8. Market!Last(more) = tick
    BY <1>6 DEF Market!Last
  <1>9. Market!Volume(more) = old.volume + tick.quantity
    BY <1>5, <1>7, VolumeGrows
  <1>10. PICK S \in SUBSET Int : S = Market!PricesOf(run)
    BY PricesTyped
  <1>11. Market!PricesOf(more) = S \cup {tick.price}
    BY <1>4, <1>6, <1>10 DEF Market!PricesOf
  <1>12. Extremal(bar, more)
    <2>1. /\ old.high \in S /\ old.low \in S /\ \A p \in S : p <= old.high /\ old.low <= p
      BY <1>10 DEF Extremal
    <2>a. \A p \in S : p \in Int
      OBVIOUS
    <2>2. bar.high \in S \cup {tick.price} /\ \A p \in S \cup {tick.price} : p <= bar.high
      <3>1. CASE tick.price > old.high
        BY <1>1, <1>2, <1>3, <2>1, <2>a, <3>1, SMTT(30)
      <3>2. CASE ~(tick.price > old.high)
        BY <1>1, <1>2, <1>3, <2>1, <2>a, <3>2
      <3> QED
        BY <3>1, <3>2
    <2>3. bar.low \in S \cup {tick.price} /\ \A p \in S \cup {tick.price} : bar.low <= p
      <3>1. CASE tick.price < old.low
        BY <1>1, <1>2, <1>3, <2>1, <2>a, <3>1
      <3>2. CASE ~(tick.price < old.low)
        BY <1>1, <1>2, <1>3, <2>1, <2>a, <3>2
      <3> QED
        BY <3>1, <3>2
    <2> QED
      BY <1>11, <2>2, <2>3 DEF Extremal
  <1>13. bar.high = Market!Max(Market!PricesOf(more)) /\ bar.low = Market!Min(Market!PricesOf(more))
    BY <1>12, ExtremalMax
  <1>14. \A n \in 1 .. k + 1 : more[n].timestamp_ns - bar.bar_start_ns < BAR_DURATION_NS
    BY <1>3, <1>6, <1>7
  <1>15. bar.count = Len(more) /\ bar.open = Head(more).price /\ bar.bar_start_ns = Head(more).timestamp_ns
    BY <1>3, <1>6, <1>7
  <1>16. Market!Aggregates(bar, more)
    BY <1>3, <1>6, <1>8, <1>9, <1>13, <1>14, <1>15 DEF Market!Aggregates
  <1> QED
    BY <1>3, <1>5, <1>12, <1>16

-----------------------------------------------------------------------------
LEMMA MarketInit == Market!Init => MarketInv
  <1> SUFFICES ASSUME Market!Init PROVE MarketInv
    OBVIOUS
  <1>1. /\ current_bar_ = Market!Bar(0, 0) /\ ticks_processed_ = 0
        /\ emitted = <<>> /\ ticks = <<>> /\ past = <<>>
    BY DEF Market!Init
  <1>2. current_bar_ \in Bars /\ current_bar_.count = 0
    BY <1>1 DEF Market!Bar, Bars
  <1>3. MarketTyped
    BY <1>1, <1>2 DEF MarketTyped
  <1>4. Market!TicksIn(past) = 0
    BY <1>1, EmptySums
  <1>5. Market!BarsSound
    BY <1>1, <1>4 DEF Market!BarsSound
  <1> QED
    BY <1>1, <1>2, <1>3, <1>5 DEF MarketInv

(* A tick is put into exactly one bar. *)
LEMMA TickKeeps ==
    ASSUME MarketInv, NEW tick \in Market!Tick, Market!TickInBar(tick) \/ Market!TickInNext(tick)
    PROVE  MarketInv'
  <1>1. /\ current_bar_ \in Bars /\ ticks_processed_ \in Nat
        /\ ticks \in Seq(Market!Tick) /\ past \in Seq(Seq(Market!Tick)) /\ emitted \in Seq(Bars)
    BY DEF MarketInv, MarketTyped
  <1>2. /\ ticks_processed_ > 0 => Market!Aggregates(current_bar_, ticks) /\ Extremal(current_bar_, ticks)
        /\ ticks_processed_ = 0 => current_bar_.count = 0 /\ ticks = <<>>
        /\ Len(emitted) = Len(past) /\ \A n \in DOMAIN emitted : Market!Aggregates(emitted[n], past[n])
        /\ ticks_processed_ = Len(ticks) + Market!TicksIn(past)
    BY DEF MarketInv, Market!BarsSound
  <1>3. tick.price \in Int /\ tick.quantity \in Nat /\ tick.timestamp_ns \in Int /\ BAR_DURATION_NS \in Nat \ {0}
    BY TickParts, SystemsAssumption
  <1>4. ticks_processed_' = ticks_processed_ + 1 /\ ticks_processed_' \in Nat /\ ticks_processed_' > 0
    BY <1>1 DEF Market!TickInBar, Market!TickInNext
  <1>5. current_bar_.count = 0 <=> ticks_processed_ = 0
    <2>1. ticks_processed_ > 0 => current_bar_.count = Len(ticks) /\ ticks # <<>>
      BY <1>2 DEF Market!Aggregates
    <2>2. ticks # <<>> => Len(ticks) # 0
      BY <1>1
    <2> QED
      BY <1>1, <1>2, <2>1, <2>2
  <1>6. Market!TicksIn(past) \in Int /\ Len(ticks) \in Nat
    BY <1>1, RunsGrow
  <1>7. CASE Market!TickInBar(tick)
    <2>1. /\ current_bar_' = Market!Updated(Market!Started(tick), tick) /\ ticks' = Append(ticks, tick)
          /\ emitted' = emitted /\ past' = past /\ Market!Elapsed(tick) < BAR_DURATION_NS
      BY <1>7 DEF Market!TickInBar
    <2>2. current_bar_' \in Bars /\ Market!Aggregates(current_bar_', ticks') /\ Extremal(current_bar_', ticks')
      <3>1. CASE ticks_processed_ = 0
        <4>1. Market!Started(tick) = Market!Bar(tick.price, tick.timestamp_ns)
          BY <1>5, <3>1 DEF Market!Started
        <4>a. ticks = <<>> /\ Append(<<>>, tick) = <<tick>>
          BY <1>2, <3>1
        <4>2. ticks' = <<tick>>
          BY <2>1, <4>a
        <4> QED
          BY <2>1, <4>1, <4>2, FirstTick
      <3>2. CASE ticks_processed_ # 0
        <4>1. ticks_processed_ > 0
          BY <1>1, <3>2
        <4>2. Market!Started(tick) = current_bar_
          BY <1>5, <3>2 DEF Market!Started
        <4>3. tick.timestamp_ns - current_bar_.bar_start_ns < BAR_DURATION_NS
          BY <2>1, <4>2 DEF Market!Elapsed
        <4> QED
          BY <1>1, <1>2, <2>1, <4>1, <4>2, <4>3, NextTick
      <3> QED
        BY <3>1, <3>2
    <2>3. ticks' \in Seq(Market!Tick) /\ Len(ticks') = Len(ticks) + 1
      BY <1>1, <2>1
    <2>4. MarketTyped'
      BY <1>1, <1>4, <2>1, <2>2, <2>3 DEF MarketTyped
    <2>5. ticks_processed_' = Len(ticks') + Market!TicksIn(past)
      BY <1>1, <1>2, <1>4, <1>6, <2>3
    <2>6. Market!BarsSound'
      BY <1>2, <2>1, <2>2, <2>5 DEF Market!BarsSound
    <2> QED
      BY <1>4, <2>2, <2>4, <2>6 DEF MarketInv
  <1>8. CASE Market!TickInNext(tick)
    <2>1. /\ current_bar_' = Market!Updated(Market!Bar(tick.price, tick.timestamp_ns), tick) /\ ticks' = <<tick>>
          /\ emitted' = Append(emitted, Market!Started(tick)) /\ past' = Append(past, ticks)
          /\ Market!Elapsed(tick) >= BAR_DURATION_NS
      BY <1>8 DEF Market!TickInNext
    <2>2. ticks_processed_ # 0
      <3> SUFFICES ASSUME ticks_processed_ = 0 PROVE FALSE
        OBVIOUS
      <3>1. Market!Started(tick) = Market!Bar(tick.price, tick.timestamp_ns)
        BY <1>5 DEF Market!Started
      <3>2. Market!Elapsed(tick) = tick.timestamp_ns - tick.timestamp_ns
        BY <3>1 DEF Market!Elapsed, Market!Bar
      <3> QED
        BY <1>3, <2>1, <3>2
    <2>3. Market!Started(tick) = current_bar_ /\ Market!Aggregates(current_bar_, ticks)
      BY <1>1, <1>2, <1>5, <2>2 DEF Market!Started
    <2>4. current_bar_' \in Bars /\ Market!Aggregates(current_bar_', ticks') /\ Extremal(current_bar_', ticks')
      BY <2>1, FirstTick
    <2>5. ticks' \in Seq(Market!Tick) /\ Len(ticks') = 1
      BY <2>1
    <2>6. /\ emitted' \in Seq(Bars) /\ past' \in Seq(Seq(Market!Tick)) /\ Len(emitted') = Len(past')
          /\ \A n \in DOMAIN emitted' : Market!Aggregates(emitted'[n], past'[n])
      <3>1. emitted' = Append(emitted, current_bar_)
        BY <2>1, <2>3
      <3>2. /\ Len(emitted) \in Nat /\ DOMAIN emitted' = 1 .. Len(emitted) + 1
            /\ \A n \in 1 .. Len(emitted) + 1 :
                   IF n = Len(emitted) + 1 THEN emitted'[n] = current_bar_ /\ past'[n] = ticks
                   ELSE n \in DOMAIN emitted /\ emitted'[n] = emitted[n] /\ past'[n] = past[n]
        BY <1>1, <1>2, <2>1, <3>1
      <3>3. emitted' \in Seq(Bars) /\ past' \in Seq(Seq(Market!Tick)) /\ Len(emitted') = Len(past')
        BY <1>1, <1>2, <2>1, <3>1
      <3> QED
        BY <1>2, <2>3, <3>2, <3>3
    <2>7. MarketTyped'
      BY <1>4, <2>4, <2>5, <2>6 DEF MarketTyped
    <2>8. Market!TicksIn(past') = Market!TicksIn(past) + Len(ticks)
      BY <1>1, <2>1, RunsGrow
    <2>9. ticks_processed_' = Len(ticks') + Market!TicksIn(past')
      BY <1>1, <1>2, <1>4, <1>6, <2>5, <2>8
    <2>10. Market!BarsSound'
      BY <2>4, <2>6, <2>9 DEF Market!BarsSound
    <2> QED
      BY <1>4, <2>4, <2>7, <2>10 DEF MarketInv
  <1> QED
    BY <1>7, <1>8

LEMMA MarketNext == MarketInv /\ [Market!Next]_(Market!vars) => MarketInv'
  <1> SUFFICES ASSUME MarketInv, [Market!Next]_(Market!vars) PROVE MarketInv'
    OBVIOUS
  <1>1. CASE UNCHANGED Market!vars
    BY <1>1 DEF Market!vars, MarketInv, MarketTyped, Market!BarsSound
  <1> QED
    BY <1>1, TickKeeps DEF Market!Next, Market!EndOfStream

(* Whatever ticks come, late ones included, every tick is in exactly one bar,
   and every bar has the open, high, low, close, volume, count and start of its
   ticks, none of which is a bar's duration after the first (onTick, lines 60-80). *)
THEOREM BarsCorrect == Market!Spec => []Market!BarsSound
  <1>1. MarketInv => Market!BarsSound
    BY DEF MarketInv
  <1> QED
    BY <1>1, MarketInit, MarketNext, PTL DEF Market!Spec

-----------------------------------------------------------------------------
(* order_book.cpp.  Every level is filed: it has orders, in the order of arrival,
   and the location stored for the id of an order is where the order rests,
   unless the id was used again. *)
Resters == [id : Ids, quantity : Quantities, node : Nat]
Locations == [side : Sides, price : BookPrices, it : Nat]

BookLevels == [Sides -> UNION {[P -> Seq(Resters)] : P \in SUBSET BookPrices}]
Lookups == UNION {[I -> Locations] : I \in SUBSET Ids}

BookTyped == levels \in BookLevels /\ order_lookup_ \in Lookups /\ adds \in Nat

WithLevels(side, changed) == [levels EXCEPT ![side] = changed]
Stored(id, loc) == [i \in DOMAIN order_lookup_ \cup {id} |-> IF i = id THEN loc ELSE order_lookup_[i]]

BookBounded == \A side \in Sides : \E bound \in Nat : \A p \in DOMAIN levels[side] : p <= bound

Filed(side, p, level, lookup, gone, count) ==
    /\ level # <<>>
    /\ \A m, n \in 1 .. Len(level) : m < n => level[m].node < level[n].node
    /\ \A n \in 1 .. Len(level) :
           /\ level[n].node < count
           /\ level[n].node \notin gone =>
                  /\ level[n].id \in DOMAIN lookup
                  /\ lookup[level[n].id] = [side |-> side, price |-> p, it |-> level[n].node]

LevelsFiled ==
    \A side \in Sides : \A p \in DOMAIN levels[side] :
        Filed(side, p, levels[side][p], order_lookup_, superseded, adds)

(* The order of an id is where its location says. *)
Found(id, loc, b) ==
    /\ loc.price \in DOMAIN b[loc.side]
    /\ \E n \in 1 .. Len(b[loc.side][loc.price]) :
           b[loc.side][loc.price][n].node = loc.it /\ b[loc.side][loc.price][n].id = id

AllFound == \A id \in DOMAIN order_lookup_ : Found(id, order_lookup_[id], levels)

BookInv == BookTyped /\ BookBounded /\ LevelsFiled /\ AllFound

(* The levels of a side of the book. *)
LEMMA BookSide ==
    ASSUME BookTyped, NEW side \in Sides
    PROVE  /\ DOMAIN levels[side] \subseteq BookPrices /\ DOMAIN levels[side] \subseteq Nat
           /\ levels[side] = [p \in DOMAIN levels[side] |-> levels[side][p]]
           /\ \A p \in DOMAIN levels[side] :
                  /\ levels[side][p] \in Seq(Resters) /\ DOMAIN levels[side][p] = 1 .. Len(levels[side][p])
                  /\ Len(levels[side][p]) \in Nat
                  /\ \A n \in 1 .. Len(levels[side][p]) : levels[side][p][n] \in Resters
  <1>1. PICK P \in SUBSET BookPrices : levels[side] \in [P -> Seq(Resters)]
    BY DEF BookTyped, BookLevels
  <1>2. BookPrices \subseteq Nat
    BY SystemsAssumption
  <1>3. DOMAIN levels[side] \subseteq BookPrices /\ levels[side] = [p \in DOMAIN levels[side] |-> levels[side][p]]
    BY <1>1
  <1>4. \A p \in DOMAIN levels[side] : levels[side][p] \in Seq(Resters)
    BY <1>1
  <1>5. ASSUME NEW p \in DOMAIN levels[side]
        PROVE  /\ DOMAIN levels[side][p] = 1 .. Len(levels[side][p]) /\ Len(levels[side][p]) \in Nat
               /\ \A n \in 1 .. Len(levels[side][p]) : levels[side][p][n] \in Resters
    BY <1>4, LenProperties, ElementOfSeq
  <1> QED
    BY <1>2, <1>3, <1>4, <1>5

(* The stored locations. *)
LEMMA LookupTyped ==
    ASSUME BookTyped
    PROVE  /\ DOMAIN order_lookup_ \subseteq Ids
           /\ \A id \in DOMAIN order_lookup_ :
                  /\ order_lookup_[id] \in Locations /\ order_lookup_[id].side \in Sides
                  /\ order_lookup_[id].price \in BookPrices /\ order_lookup_[id].it \in Nat
  <1>1. PICK I \in SUBSET Ids : order_lookup_ \in [I -> Locations]
    BY DEF BookTyped, Lookups
  <1> QED
    BY <1>1 DEF Locations

QuantityAt(level) == [n \in DOMAIN level |-> level[n].quantity]

(* The loop of getTopOfBook adds up the quantities of a level, modulo 2^32 in the code. *)
LEMMA LoopAdds ==
    ASSUME NEW level, NEW len \in Nat, len = Len(level), DOMAIN level = 1 .. len,
           \A n \in 1 .. len : level[n].quantity \in Nat
    PROVE  Book!Added(level) = SumOver(QuantityAt(level), 1 .. len) % Modulus
  <1> DEFINE q == QuantityAt(level)
             Step(n, g) == IF n = 0 THEN 0 ELSE (g[n - 1] + level[n].quantity) % Modulus
             Solution(g) == g = [n \in 0 .. len |-> Step(n, g)]
             h == [n \in 0 .. len |-> SumOver(q, 1 .. n) % Modulus]
  <1>1. Book!Added(level) = (CHOOSE g : Solution(g))[len]
    BY DEF Book!Added
  <1>2. Modulus \in Nat \ {0}
    BY SystemsAssumption
  <1>3. \A n \in 1 .. len : q[n] = level[n].quantity /\ q[n] \in Int
    BY DEF QuantityAt
  <1> HIDE DEF q
  <1>4. SumOver(q, 1 .. 0) % Modulus = 0
    <2>1. 1 .. 0 = {}
      OBVIOUS
    <2>2. SumOver(q, 1 .. 0) = 0
      BY <2>1, SumEmpty
    <2>3. 0 = Modulus * 0 + 0 /\ 0 \in 0 .. Modulus - 1
      BY <1>2
    <2>4. 0 % Modulus = 0
      BY <1>2, <2>3, ModIs
    <2> QED
      BY <2>2, <2>4
  <1>5. ASSUME NEW n \in 1 .. len
        PROVE  ((SumOver(q, 1 .. (n - 1)) % Modulus) + level[n].quantity) % Modulus = SumOver(q, 1 .. n) % Modulus
    <2>1. PICK k \in Nat : k = n - 1
      OBVIOUS
    <2>2. \A j \in 1 .. k + 1 : q[j] \in Int
      BY <1>3, <2>1
    <2>3. SumOver(q, 1 .. k + 1) = SumOver(q, 1 .. k) + q[k + 1] /\ SumOver(q, 1 .. k) \in Int
      BY <2>2, SumLonger
    <2>4. k + 1 = n /\ q[n] = level[n].quantity /\ q[n] \in Int
      BY <1>3, <2>1
    <2>5. ((SumOver(q, 1 .. k) % Modulus) + q[n]) % Modulus = (SumOver(q, 1 .. k) + q[n]) % Modulus
      BY <1>2, <2>3, <2>4, ModAdd
    <2> QED
      BY <2>1, <2>3, <2>4, <2>5
  <1>6. Solution(h)
    <2>1. \A n \in 0 .. len : h[n] = SumOver(q, 1 .. n) % Modulus
      OBVIOUS
    <2>2. h = [n \in 0 .. len |-> h[n]]
      OBVIOUS
    <2> HIDE DEF h
    <2>3. ASSUME NEW n \in 0 .. len PROVE h[n] = Step(n, h)
      <3>1. CASE n = 0
        BY <1>4, <2>1, <3>1
      <3>2. CASE n # 0
        <4>1. n \in 1 .. len /\ n - 1 \in 0 .. len
          BY <3>2
        <4> QED
          BY <1>5, <2>1, <3>2, <4>1
      <3> QED
        BY <3>1, <3>2
    <2> QED
      BY <2>2, <2>3
  <1> HIDE DEF Solution, h
  <1>7. PICK g : Solution(g) /\ g = CHOOSE f : Solution(f)
    BY <1>6
  <1>8. \A n \in 0 .. len : g[n] = Step(n, g)
    BY <1>7 DEF Solution
  <1> DEFINE Wrong == {n \in Nat : n <= len /\ g[n] # SumOver(q, 1 .. n) % Modulus}
  <1>9. Wrong = {}
    <2> SUFFICES ASSUME Wrong # {} PROVE FALSE
      OBVIOUS
    <2>1. PICK n \in Wrong : \A m \in Wrong : ~(m < n)
      BY LeastNumber
    <2>2. n # 0
      BY <1>4, <1>8, <2>1
    <2>3. n \in 1 .. len /\ n - 1 \in Nat /\ n - 1 \in 0 .. len /\ n - 1 < n
      BY <2>1, <2>2
    <2>4. g[n - 1] = SumOver(q, 1 .. (n - 1)) % Modulus
      BY <2>1, <2>3
    <2>5. g[n] = SumOver(q, 1 .. n) % Modulus
      BY <1>5, <1>8, <2>2, <2>3, <2>4
    <2> QED
      BY <2>1, <2>5
  <1> QED
    BY <1>1, <1>7, <1>9 DEF q

(* What is left of a sequence without its k-th element. *)
LEMMA WithoutOne ==
    ASSUME NEW R, NEW s \in Seq(R), NEW k \in 1 .. Len(s)
    PROVE  /\ Book!RemoveAt(s, k) \in Seq(R) /\ Len(Book!RemoveAt(s, k)) = Len(s) - 1
           /\ \A n \in 1 .. Len(s) - 1 : Book!RemoveAt(s, k)[n] = IF n < k THEN s[n] ELSE s[n + 1]
  <1> DEFINE x == SubSeq(s, 1, k - 1)
             y == SubSeq(s, k + 1, Len(s))
  <1>1. Len(s) \in Nat /\ k \in Nat /\ 1 <= k /\ k <= Len(s) /\ \A n \in 1 .. Len(s) : s[n] \in R
    BY LenProperties, ElementOfSeq
  <1>2. x \in Seq(R) /\ Len(x) = k - 1 /\ \A n \in 1 .. k - 1 : x[n] = s[n]
    <2>1. 1 \in Int /\ k - 1 \in Int /\ \A n \in 1 .. k - 1 : s[n] \in R
      BY <1>1
    <2>2. x \in Seq(R) /\ (Len(x) = IF 1 <= k - 1 THEN (k - 1) - 1 + 1 ELSE 0)
          /\ \A n \in 1 .. (k - 1) - 1 + 1 : x[n] = s[1 + n - 1]
      BY <2>1, SubSeqProperties
    <2>3. \A n \in 1 .. k - 1 : n \in 1 .. (k - 1) - 1 + 1 /\ 1 + n - 1 = n
      BY <1>1
    <2> HIDE DEF x
    <2> QED
      BY <1>1, <2>2, <2>3
  <1>3. y \in Seq(R) /\ Len(y) = Len(s) - k /\ \A n \in 1 .. Len(s) - k : y[n] = s[n + k]
    <2>1. k + 1 \in Int /\ Len(s) \in Int /\ \A n \in k + 1 .. Len(s) : s[n] \in R
      BY <1>1
    <2>2. y \in Seq(R) /\ (Len(y) = IF k + 1 <= Len(s) THEN Len(s) - (k + 1) + 1 ELSE 0)
          /\ \A n \in 1 .. Len(s) - (k + 1) + 1 : y[n] = s[(k + 1) + n - 1]
      BY <2>1, SubSeqProperties
    <2>3. \A n \in 1 .. Len(s) - k : n \in 1 .. Len(s) - (k + 1) + 1 /\ (k + 1) + n - 1 = n + k
      BY <1>1
    <2> HIDE DEF y
    <2> QED
      BY <1>1, <2>2, <2>3
  <1>4. Book!RemoveAt(s, k) = x \o y
    BY DEF Book!RemoveAt
  <1> HIDE DEF x, y
  <1>5. /\ x \o y \in Seq(R) /\ Len(x \o y) = Len(x) + Len(y)
        /\ \A n \in 1 .. Len(x) + Len(y) : (x \o y)[n] = IF n <= Len(x) THEN x[n] ELSE y[n - Len(x)]
    BY <1>2, <1>3, ConcatProperties
  <1>6. ASSUME NEW n \in 1 .. Len(s) - 1 PROVE (x \o y)[n] = IF n < k THEN s[n] ELSE s[n + 1]
    <2>1. n \in 1 .. Len(x) + Len(y) /\ (n <= Len(x) <=> n < k) /\ n \in Nat
      BY <1>1, <1>2, <1>3
    <2>2. CASE n < k
      <3>1. n \in 1 .. k - 1 /\ (x \o y)[n] = x[n]
        BY <1>1, <1>5, <2>1, <2>2
      <3> QED
        BY <1>2, <2>2, <3>1
    <2>3. CASE ~(n < k)
      <3>1. n - (k - 1) \in 1 .. Len(s) - k /\ (n - (k - 1)) + k = n + 1
        BY <1>1, <2>3
      <3>2. (x \o y)[n] = y[n - (k - 1)]
        BY <1>2, <1>5, <2>1, <2>3
      <3> QED
        BY <1>3, <2>3, <3>1, <3>2
    <2> QED
      BY <2>2, <2>3
  <1>7. Len(x) + Len(y) = Len(s) - 1
    BY <1>1, <1>2, <1>3
  <1> QED
    BY <1>4, <1>5, <1>6, <1>7

(* list.erase erases the node of the iterator, since no two nodes are the same. *)
LEMMA ErasesNode ==
    ASSUME NEW level \in Seq(Resters), NEW k \in 1 .. Len(level),
           \A m, n \in 1 .. Len(level) : m < n => level[m].node < level[n].node
    PROVE  /\ Book!Without(level, level[k].node) \in Seq(Resters)
           /\ Len(Book!Without(level, level[k].node)) = Len(level) - 1
           /\ \A n \in 1 .. Len(level) - 1 :
                  Book!Without(level, level[k].node)[n] = IF n < k THEN level[n] ELSE level[n + 1]
  <1> DEFINE it == level[k].node
             position == CHOOSE n \in DOMAIN level : level[n].node = it
  <1>1. DOMAIN level = 1 .. Len(level) /\ Len(level) \in Nat /\ \A n \in 1 .. Len(level) : level[n] \in Resters
    BY LenProperties, ElementOfSeq
  <1>2. \A n \in 1 .. Len(level) : level[n].node \in Nat
    BY <1>1 DEF Resters
  <1>3. position \in DOMAIN level /\ level[position].node = it
    BY <1>1
  <1>4. position = k
    BY <1>1, <1>2, <1>3
  <1>5. Book!Without(level, it) = Book!RemoveAt(level, k)
    BY <1>4 DEF Book!Without
  <1> QED
    BY <1>5, WithoutOne

(* Changing one level of the book keeps the book sound if the changed level is. *)
LEMMA ChangedLevel ==
    ASSUME BookInv, NEW side \in Sides, NEW price \in BookPrices, NEW after \in Seq(Resters),
           NEW changed,
           \A q : q \in DOMAIN changed <=> (q = price \/ q \in DOMAIN levels[side]) /\ (q = price => after # <<>>),
           changed = [q \in DOMAIN changed |-> changed[q]],
           \A q \in DOMAIN changed : changed[q] = IF q = price THEN after ELSE levels[side][q],
           levels' = WithLevels(side, changed)
    PROVE  /\ levels' \in BookLevels
           /\ BookBounded'
           /\ \A s \in Sides : \A q :
                  IF s = side /\ q = price
                  THEN (q \in DOMAIN levels'[s] <=> after # <<>>) /\ (after # <<>> => levels'[s][q] = after)
                  ELSE /\ q \in DOMAIN levels'[s] <=> q \in DOMAIN levels[s]
                       /\ q \in DOMAIN levels[s] => levels'[s][q] = levels[s][q]
  <1> USE DEF BookInv
  <1>1. /\ DOMAIN levels[side] \subseteq BookPrices /\ DOMAIN levels[side] \subseteq Nat
        /\ \A p \in DOMAIN levels[side] : levels[side][p] \in Seq(Resters)
    BY BookSide
  <1>2. \A q \in DOMAIN changed : (q = price \/ q \in DOMAIN levels[side]) /\ (q = price => after # <<>>)
    OBVIOUS
  <1>3. \A q : q \in DOMAIN changed <=> (q = price \/ q \in DOMAIN levels[side]) /\ (q = price => after # <<>>)
    OBVIOUS
  <1>4. \A q \in DOMAIN changed : changed[q] = IF q = price THEN after ELSE levels[side][q]
    OBVIOUS
  <1>5. changed \in [DOMAIN changed -> Seq(Resters)] /\ DOMAIN changed \in SUBSET BookPrices
    <2>1. \A q \in DOMAIN changed : changed[q] \in Seq(Resters)
      BY <1>1, <1>2, <1>4
    <2>2. changed = [q \in DOMAIN changed |-> changed[q]]
      BY <1>4
    <2>3. DOMAIN changed \subseteq BookPrices
      BY <1>1, <1>2
    <2> QED
      BY <2>1, <2>2, <2>3
  <1>6. levels' \in BookLevels
    BY <1>5 DEF BookTyped, BookLevels, WithLevels
  <1>7. levels'[side] = changed /\ \A s \in Sides : s # side => levels'[s] = levels[s]
    BY DEF BookTyped, BookLevels, WithLevels
  <1>8. BookBounded'
    <2> SUFFICES ASSUME NEW s \in Sides PROVE \E bound \in Nat : \A p \in DOMAIN levels'[s] : p <= bound
      BY DEF BookBounded
    <2>1. PICK bound \in Nat : \A p \in DOMAIN levels[s] : p <= bound
      BY DEF BookBounded
    <2>2. \A p \in DOMAIN levels'[s] : p \in DOMAIN levels[s] \/ p = price
      BY <1>2, <1>7
    <2>3. \A p \in DOMAIN levels[s] : p \in Nat
      BY BookSide
    <2>4. price \in Nat
      BY SystemsAssumption
    <2>5. bound + price \in Nat /\ \A p \in DOMAIN levels'[s] : p <= bound + price
      BY <2>1, <2>2, <2>3, <2>4
    <2> QED
      BY <2>5
  <1>9. ASSUME NEW s \in Sides, NEW q
        PROVE  IF s = side /\ q = price
               THEN (q \in DOMAIN levels'[s] <=> after # <<>>) /\ (after # <<>> => levels'[s][q] = after)
               ELSE /\ q \in DOMAIN levels'[s] <=> q \in DOMAIN levels[s]
                    /\ q \in DOMAIN levels[s] => levels'[s][q] = levels[s][q]
    <2>1. CASE s = side
      BY <1>3, <1>4, <1>7, <2>1
    <2>2. CASE s # side
      BY <1>7, <2>2
    <2> QED
      BY <2>1, <2>2
  <1> QED
    BY <1>6, <1>8, <1>9

(* A level the call of addOrder does not touch stays filed: its orders with the
   id of the new one are superseded. *)
LEMMA StaysFiled ==
    ASSUME BookInv, NEW side \in Sides, NEW p \in DOMAIN levels[side], NEW id \in Ids, NEW loc,
           order_lookup_' = Stored(id, loc),
           superseded \subseteq superseded',
           id \in DOMAIN order_lookup_ => order_lookup_[id].it \in superseded'
    PROVE  \A n \in 1 .. Len(levels[side][p]) :
               /\ levels[side][p][n].node \in Nat /\ levels[side][p][n].node < adds
               /\ levels[side][p][n].node \notin superseded' =>
                      /\ levels[side][p][n].id \in DOMAIN order_lookup_'
                      /\ order_lookup_'[levels[side][p][n].id] =
                             [side |-> side, price |-> p, it |-> levels[side][p][n].node]
  <1>1. PICK level : level = levels[side][p]
    OBVIOUS
  <1>2. Filed(side, p, level, order_lookup_, superseded, adds)
    BY <1>1 DEF BookInv, LevelsFiled
  <1> SUFFICES ASSUME NEW n \in 1 .. Len(level)
               PROVE  /\ level[n].node \in Nat /\ level[n].node < adds
                      /\ level[n].node \notin superseded' =>
                             /\ level[n].id \in DOMAIN order_lookup_'
                             /\ order_lookup_'[level[n].id] = [side |-> side, price |-> p, it |-> level[n].node]
    BY <1>1
  <1>3. level[n] \in Resters
    BY <1>1, BookSide DEF BookInv
  <1>4. level[n].node \in Nat /\ level[n].node < adds
    BY <1>2, <1>3 DEF Filed, Resters
  <1>5. ASSUME level[n].node \notin superseded'
        PROVE  /\ level[n].id \in DOMAIN order_lookup_'
               /\ order_lookup_'[level[n].id] = [side |-> side, price |-> p, it |-> level[n].node]
    <2>1. /\ level[n].id \in DOMAIN order_lookup_
          /\ order_lookup_[level[n].id] = [side |-> side, price |-> p, it |-> level[n].node]
      BY <1>2, <1>5 DEF Filed
    <2>2. order_lookup_[level[n].id].it = level[n].node
      BY <2>1
    <2>3. level[n].id # id
      BY <1>5, <2>1, <2>2
    <2> QED
      BY <2>1, <2>3 DEF Stored
  <1> QED
    BY <1>4, <1>5

(* addOrder appends to its level, and stores where. *)
LEMMA AddKeeps ==
    ASSUME BookInv, NEW id \in Ids, NEW side \in Sides, NEW price \in BookPrices, NEW qty \in Quantities,
           Book!addOrder(id, side, price, qty)
    PROVE  BookInv'
  <1> DEFINE o == [id |-> id, quantity |-> qty, node |-> adds]
             loc == [side |-> side, price |-> price, it |-> adds]
             old == IF price \in DOMAIN levels[side] THEN levels[side][price] ELSE <<>>
             after == Append(old, o)
             changed == Book!PushBack(levels[side], price, o)
  <1>1. adds \in Nat /\ adds' = adds + 1 /\ o \in Resters /\ loc \in Locations
    BY DEF Book!addOrder, BookInv, BookTyped, Resters, Locations
  <1>2. order_lookup_' = Stored(id, loc)
    BY DEF Book!addOrder, Stored
  <1>3. superseded \subseteq superseded' /\ (id \in DOMAIN order_lookup_ => order_lookup_[id].it \in superseded')
    BY DEF Book!addOrder
  <1>4. old \in Seq(Resters)
    <2>1. CASE price \in DOMAIN levels[side]
      BY <2>1, BookSide DEF BookInv
    <2>2. CASE price \notin DOMAIN levels[side]
      BY <2>2
    <2> QED
      BY <2>1, <2>2
  <1>5. levels' = WithLevels(side, changed)
    BY DEF Book!addOrder, WithLevels
  <1>6. /\ DOMAIN changed = DOMAIN levels[side] \cup {price}
        /\ changed = [q \in DOMAIN changed |-> changed[q]]
        /\ \A q \in DOMAIN changed : changed[q] = IF q = price THEN after ELSE levels[side][q]
    BY DEF Book!PushBack
  <1> HIDE DEF old, changed, o, loc
  <1>7. /\ after \in Seq(Resters) /\ Len(after) = Len(old) + 1 /\ after[Len(after)] = o /\ Len(old) \in Nat
        /\ \A n \in 1 .. Len(after) : n = Len(after) \/ (n \in 1 .. Len(old) /\ after[n] = old[n])
        /\ \A n \in 1 .. Len(old) : n \in 1 .. Len(after) /\ after[n] = old[n]
        /\ after # <<>>
    BY <1>1, <1>4
  <1> HIDE DEF after
  <1>8. /\ \A q : q \in DOMAIN changed <=> (q = price \/ q \in DOMAIN levels[side]) /\ (q = price => after # <<>>)
        /\ changed = [q \in DOMAIN changed |-> changed[q]]
        /\ \A q \in DOMAIN changed : changed[q] = IF q = price THEN after ELSE levels[side][q]
    BY <1>6, <1>7
  <1>9. /\ levels' \in BookLevels
        /\ BookBounded'
        /\ \A s \in Sides : \A q :
               IF s = side /\ q = price
               THEN (q \in DOMAIN levels'[s] <=> after # <<>>) /\ (after # <<>> => levels'[s][q] = after)
               ELSE /\ q \in DOMAIN levels'[s] <=> q \in DOMAIN levels[s]
                    /\ q \in DOMAIN levels[s] => levels'[s][q] = levels[s][q]
    BY <1>5, <1>7, <1>8, ChangedLevel
  <1>10. price \in DOMAIN levels'[side] /\ levels'[side][price] = after
    BY <1>7, <1>9
  <1>11. BookTyped'
    <2>1. PICK I \in SUBSET Ids : order_lookup_ \in [I -> Locations]
      BY DEF BookInv, BookTyped, Lookups
    <2>2. order_lookup_' \in [I \cup {id} -> Locations] /\ I \cup {id} \in SUBSET Ids
      BY <1>1, <1>2, <2>1 DEF Stored
    <2>3. order_lookup_' \in Lookups
      BY <2>2 DEF Lookups
    <2> QED
      BY <1>1, <1>9, <2>3 DEF BookTyped
  <1>12. LevelsFiled'
    <2> SUFFICES ASSUME NEW s \in Sides, NEW q \in DOMAIN levels'[s]
                 PROVE  Filed(s, q, levels'[s][q], order_lookup_', superseded', adds')
      BY DEF LevelsFiled
    <2>1. CASE s = side /\ q = price
      <3>1. \A n \in 1 .. Len(old) :
                /\ price \in DOMAIN levels[side] /\ old = levels[side][price]
                /\ old[n].node \in Nat /\ old[n].node < adds
                /\ old[n].node \notin superseded' =>
                       /\ old[n].id \in DOMAIN order_lookup_'
                       /\ order_lookup_'[old[n].id] = [side |-> side, price |-> price, it |-> old[n].node]
        <4> SUFFICES ASSUME NEW n \in 1 .. Len(old)
                     PROVE /\ price \in DOMAIN levels[side] /\ old = levels[side][price]
                           /\ old[n].node \in Nat /\ old[n].node < adds
                           /\ old[n].node \notin superseded' =>
                                  /\ old[n].id \in DOMAIN order_lookup_'
                                  /\ order_lookup_'[old[n].id] = [side |-> side, price |-> price, it |-> old[n].node]
          OBVIOUS
        <4>1. price \in DOMAIN levels[side] /\ old = levels[side][price]
          BY DEF old
        <4> QED
          BY <1>2, <1>3, <4>1, StaysFiled
      <3>2. \A m, n \in 1 .. Len(old) : m < n => old[m].node < old[n].node
        <4> SUFFICES ASSUME NEW m \in 1 .. Len(old), NEW n \in 1 .. Len(old), m < n PROVE old[m].node < old[n].node
          OBVIOUS
        <4>1. price \in DOMAIN levels[side] /\ old = levels[side][price]
          BY <3>1
        <4>2. Filed(side, price, old, order_lookup_, superseded, adds)
          BY <4>1 DEF BookInv, LevelsFiled
        <4> QED
          BY <4>2 DEF Filed
      <3>3. o.node = adds /\ o.id = id /\ id \in DOMAIN order_lookup_'
            /\ order_lookup_'[id] = [side |-> side, price |-> price, it |-> o.node]
        BY <1>2 DEF o, loc, Stored
      <3>4. \A n \in 1 .. Len(after) :
                /\ after[n].node < adds + 1
                /\ after[n].node \notin superseded' =>
                       /\ after[n].id \in DOMAIN order_lookup_'
                       /\ order_lookup_'[after[n].id] = [side |-> side, price |-> price, it |-> after[n].node]
        <4> SUFFICES ASSUME NEW n \in 1 .. Len(after)
                     PROVE /\ after[n].node < adds + 1
                           /\ after[n].node \notin superseded' =>
                                  /\ after[n].id \in DOMAIN order_lookup_'
                                  /\ order_lookup_'[after[n].id] = [side |-> side, price |-> price, it |-> after[n].node]
          OBVIOUS
        <4>1. CASE n = Len(after)
          BY <1>1, <1>7, <3>3, <4>1
        <4>2. CASE n # Len(after)
          <5>1. n \in 1 .. Len(old) /\ after[n] = old[n]
            BY <1>7, <4>2
          <5>2. old[n].node \in Nat /\ old[n].node < adds
            BY <3>1, <5>1
          <5>3. old[n].node < adds + 1
            BY <1>1, <5>2
          <5> QED
            BY <3>1, <5>1, <5>3
        <4> QED
          BY <4>1, <4>2
      <3>5. \A m, n \in 1 .. Len(after) : m < n => after[m].node < after[n].node
        <4> SUFFICES ASSUME NEW m \in 1 .. Len(after), NEW n \in 1 .. Len(after), m < n
                     PROVE  after[m].node < after[n].node
          OBVIOUS
        <4>1. m \in 1 .. Len(old) /\ after[m] = old[m]
          BY <1>7
        <4>2. CASE n = Len(after)
          BY <1>7, <3>1, <3>3, <4>1, <4>2
        <4>3. CASE n # Len(after)
          <5>1. n \in 1 .. Len(old) /\ after[n] = old[n]
            BY <1>7, <4>3
          <5> QED
            BY <3>2, <4>1, <5>1
        <4> QED
          BY <4>2, <4>3
      <3> QED
        BY <1>1, <1>7, <1>10, <2>1, <3>4, <3>5 DEF Filed
    <2>2. CASE ~(s = side /\ q = price)
      <3>1. q \in DOMAIN levels[s] /\ levels'[s][q] = levels[s][q]
        BY <1>9, <2>2
      <3>2. PICK level : level = levels[s][q]
        OBVIOUS
      <3>3. Filed(s, q, level, order_lookup_, superseded, adds)
        BY <3>1, <3>2 DEF BookInv, LevelsFiled
      <3>4. \A n \in 1 .. Len(level) :
                /\ level[n].node \in Nat /\ level[n].node < adds
                /\ level[n].node \notin superseded' =>
                       /\ level[n].id \in DOMAIN order_lookup_'
                       /\ order_lookup_'[level[n].id] = [side |-> s, price |-> q, it |-> level[n].node]
        BY <1>2, <1>3, <3>1, <3>2, StaysFiled
      <3>5. \A n \in 1 .. Len(level) : level[n].node < adds'
        <4>1. \A n \in 1 .. Len(level) : level[n].node \in Nat /\ level[n].node < adds
          BY <3>4
        <4> QED
          BY <1>1, <4>1
      <3> QED
        BY <3>1, <3>2, <3>3, <3>4, <3>5 DEF Filed
    <2> QED
      BY <2>1, <2>2
  <1>13. AllFound'
    <2> SUFFICES ASSUME NEW i \in DOMAIN order_lookup_' PROVE Found(i, order_lookup_'[i], levels')
      BY DEF AllFound
    <2>1. CASE i = id
      <3>1. order_lookup_'[i] = loc /\ loc.side = side /\ loc.price = price /\ loc.it = adds /\ o.node = adds /\ o.id = i
        BY <1>2, <2>1 DEF loc, o, Stored
      <3>2. Len(after) \in 1 .. Len(after)
        BY <1>7
      <3> QED
        BY <1>7, <1>10, <3>1, <3>2 DEF Found
    <2>2. CASE i # id
      <3>1. PICK l : i \in DOMAIN order_lookup_ /\ l = order_lookup_[i] /\ order_lookup_'[i] = l /\ l.side \in Sides
        BY <1>2, <2>2, LookupTyped DEF BookInv, Stored
      <3>2. Found(i, l, levels)
        BY <3>1 DEF BookInv, AllFound
      <3>3. PICK n \in 1 .. Len(levels[l.side][l.price]) :
                levels[l.side][l.price][n].node = l.it /\ levels[l.side][l.price][n].id = i
        BY <3>2 DEF Found
      <3>4. l.price \in DOMAIN levels[l.side]
        BY <3>2 DEF Found
      <3>5. CASE l.side = side /\ l.price = price
        <4>1. old = levels[side][price]
          BY <3>4, <3>5 DEF old
        <4>2. n \in 1 .. Len(after) /\ after[n].node = l.it /\ after[n].id = i
          BY <1>7, <3>3, <3>5, <4>1
        <4> QED
          BY <1>10, <3>1, <3>5, <4>2 DEF Found
      <3>6. CASE ~(l.side = side /\ l.price = price)
        <4>1. l.price \in DOMAIN levels'[l.side] /\ levels'[l.side][l.price] = levels[l.side][l.price]
          BY <1>9, <3>1, <3>4, <3>6
        <4> QED
          BY <3>1, <3>3, <4>1 DEF Found
      <3> QED
        BY <3>5, <3>6
    <2> QED
      BY <2>1, <2>2
  <1> QED
    BY <1>9, <1>11, <1>12, <1>13 DEF BookInv

Dropped(id) == [i \in DOMAIN order_lookup_ \ {id} |-> order_lookup_[i]]

(* cancelOrder erases the order of the id, and no other order had its location. *)
LEMMA CancelKeeps ==
    ASSUME BookInv, NEW id \in Ids, Book!cancelOrder(id)
    PROVE  BookInv'
  <1>1. PICK loc : loc = order_lookup_[id] /\ id \in DOMAIN order_lookup_
    BY DEF Book!cancelOrder
  <1>2. loc \in Locations /\ loc.side \in Sides /\ loc.price \in BookPrices /\ loc.it \in Nat
    BY <1>1, LookupTyped DEF BookInv
  <1>3. PICK side \in Sides, price \in BookPrices : side = loc.side /\ price = loc.price
    BY <1>2
  <1>4. Found(id, loc, levels)
    BY <1>1 DEF BookInv, AllFound
  <1>5. price \in DOMAIN levels[side]
    BY <1>3, <1>4 DEF Found
  <1>6. PICK level : level = levels[side][price]
    OBVIOUS
  <1>7. level \in Seq(Resters) /\ Len(level) \in Nat /\ \A n \in 1 .. Len(level) : level[n] \in Resters
    BY <1>5, <1>6, BookSide DEF BookInv
  <1>8. PICK k \in 1 .. Len(level) : level[k].node = loc.it /\ level[k].id = id
    BY <1>3, <1>4, <1>6 DEF Found
  <1>9. /\ \A m, n \in 1 .. Len(level) : m < n => level[m].node < level[n].node
        /\ \A n \in 1 .. Len(level) : level[n].node \in Nat
    BY <1>5, <1>6, <1>7 DEF BookInv, LevelsFiled, Filed, Resters
  <1>10. PICK after \in Seq(Resters) :
             /\ after = Book!Without(level, loc.it) /\ Len(after) = Len(level) - 1
             /\ \A n \in 1 .. Len(after) : after[n] = IF n < k THEN level[n] ELSE level[n + 1]
    <2>1. /\ Book!Without(level, level[k].node) \in Seq(Resters)
          /\ Len(Book!Without(level, level[k].node)) = Len(level) - 1
          /\ \A n \in 1 .. Len(level) - 1 :
                 Book!Without(level, level[k].node)[n] = IF n < k THEN level[n] ELSE level[n + 1]
      BY <1>7, <1>9, ErasesNode
    <2> QED
      BY <1>8, <2>1
  <1> DEFINE changed == Book!Erase(levels[side], loc)
  <1>11. levels' = WithLevels(side, changed) /\ order_lookup_' = Dropped(id) /\ adds' = adds /\ superseded' = superseded
    BY <1>1, <1>3, <1>5 DEF Book!cancelOrder, WithLevels, Dropped
  <1>12. /\ \A q : q \in DOMAIN changed <=> (q = price \/ q \in DOMAIN levels[side]) /\ (q = price => after # <<>>)
         /\ changed = [q \in DOMAIN changed |-> changed[q]]
         /\ \A q \in DOMAIN changed : changed[q] = IF q = price THEN after ELSE levels[side][q]
    BY <1>3, <1>5, <1>6, <1>10 DEF Book!Erase
  <1> HIDE DEF changed
  <1>13. /\ levels' \in BookLevels
         /\ BookBounded'
         /\ \A s \in Sides : \A q :
                IF s = side /\ q = price
                THEN (q \in DOMAIN levels'[s] <=> after # <<>>) /\ (after # <<>> => levels'[s][q] = after)
                ELSE /\ q \in DOMAIN levels'[s] <=> q \in DOMAIN levels[s]
                     /\ q \in DOMAIN levels[s] => levels'[s][q] = levels[s][q]
    BY <1>11, <1>12, ChangedLevel
  <1>14. BookTyped'
    <2>1. PICK I \in SUBSET Ids : order_lookup_ \in [I -> Locations]
      BY DEF BookInv, BookTyped, Lookups
    <2>2. order_lookup_' \in [I \ {id} -> Locations] /\ I \ {id} \in SUBSET Ids
      BY <1>11, <2>1 DEF Dropped
    <2>3. order_lookup_' \in Lookups
      BY <2>2 DEF Lookups
    <2> QED
      BY <1>11, <1>13, <2>3 DEF BookTyped, BookInv
  <1>15. /\ \A i \in DOMAIN order_lookup_' : i \in DOMAIN order_lookup_ /\ i # id /\ order_lookup_'[i] = order_lookup_[i]
         /\ \A i \in DOMAIN order_lookup_ : i # id => i \in DOMAIN order_lookup_' /\ order_lookup_'[i] = order_lookup_[i]
    BY <1>11 DEF Dropped
  <1>16. \A n \in 1 .. Len(after) :
             \E m \in 1 .. Len(level) : after[n] = level[m] /\ (n < k => m = n) /\ (~(n < k) => m = n + 1) /\ m # k
    BY <1>7, <1>10
  <1>17. LevelsFiled'
    <2> SUFFICES ASSUME NEW s \in Sides, NEW q \in DOMAIN levels'[s]
                 PROVE  Filed(s, q, levels'[s][q], order_lookup_', superseded, adds)
      BY <1>11 DEF LevelsFiled
    <2>1. CASE s = side /\ q = price
      <3>1. levels'[s][q] = after /\ after # <<>>
        BY <1>13, <2>1
      <3>2. Filed(s, q, level, order_lookup_, superseded, adds)
        BY <1>5, <1>6, <2>1 DEF BookInv, LevelsFiled
      <3>3. ASSUME NEW m \in 1 .. Len(after), NEW n \in 1 .. Len(after), m < n
            PROVE  after[m].node < after[n].node
        <4>1. PICK i \in 1 .. Len(level) : after[m] = level[i] /\ (m < k => i = m) /\ (~(m < k) => i = m + 1)
          BY <1>16
        <4>2. PICK j \in 1 .. Len(level) : after[n] = level[j] /\ (n < k => j = n) /\ (~(n < k) => j = n + 1)
          BY <1>16
        <4>3. i < j
          BY <3>3, <4>1, <4>2
        <4> QED
          BY <1>9, <4>1, <4>2, <4>3
      <3>4. ASSUME NEW n \in 1 .. Len(after)
            PROVE  /\ after[n].node < adds
                   /\ after[n].node \notin superseded =>
                          /\ after[n].id \in DOMAIN order_lookup_'
                          /\ order_lookup_'[after[n].id] = [side |-> s, price |-> q, it |-> after[n].node]
        <4>1. PICK m \in 1 .. Len(level) : after[n] = level[m] /\ m # k
          BY <1>16
        <4>2. /\ level[m].node < adds
              /\ level[m].node \notin superseded =>
                     /\ level[m].id \in DOMAIN order_lookup_
                     /\ order_lookup_[level[m].id] = [side |-> s, price |-> q, it |-> level[m].node]
          BY <3>2 DEF Filed
        <4>3. level[m].node # loc.it
          BY <1>8, <1>9, <4>1
        <4>4. level[m].node \notin superseded => level[m].id # id
          BY <1>1, <4>2, <4>3
        <4> QED
          BY <1>15, <4>1, <4>2, <4>4
      <3> QED
        BY <3>1, <3>3, <3>4 DEF Filed
    <2>2. CASE ~(s = side /\ q = price)
      <3>1. q \in DOMAIN levels[s] /\ levels'[s][q] = levels[s][q]
        BY <1>13, <2>2
      <3>2. PICK other : other = levels[s][q]
        OBVIOUS
      <3>3. Filed(s, q, other, order_lookup_, superseded, adds)
        BY <3>1, <3>2 DEF BookInv, LevelsFiled
      <3>4. ASSUME NEW n \in 1 .. Len(other), other[n].node \notin superseded
            PROVE  /\ other[n].id \in DOMAIN order_lookup_'
                   /\ order_lookup_'[other[n].id] = [side |-> s, price |-> q, it |-> other[n].node]
        <4>1. /\ other[n].id \in DOMAIN order_lookup_
              /\ order_lookup_[other[n].id] = [side |-> s, price |-> q, it |-> other[n].node]
          BY <3>3, <3>4 DEF Filed
        <4>2. other[n].id # id
          BY <1>1, <1>3, <2>2, <4>1
        <4> QED
          BY <1>15, <4>1, <4>2
      <3> QED
        BY <3>1, <3>2, <3>3, <3>4 DEF Filed
    <2> QED
      BY <2>1, <2>2
  <1>18. AllFound'
    <2> SUFFICES ASSUME NEW i \in DOMAIN order_lookup_' PROVE Found(i, order_lookup_'[i], levels')
      BY DEF AllFound
    <2>1. PICK l : /\ i \in DOMAIN order_lookup_ /\ i # id /\ l = order_lookup_[i] /\ order_lookup_'[i] = l
                   /\ l.side \in Sides
      BY <1>15, LookupTyped DEF BookInv
    <2>2. Found(i, l, levels)
      BY <2>1 DEF BookInv, AllFound
    <2>3. PICK n \in 1 .. Len(levels[l.side][l.price]) :
              levels[l.side][l.price][n].node = l.it /\ levels[l.side][l.price][n].id = i
      BY <2>2 DEF Found
    <2>4. l.price \in DOMAIN levels[l.side]
      BY <2>2 DEF Found
    <2>5. CASE l.side = side /\ l.price = price
      <3>1. n \in 1 .. Len(level) /\ level[n].node = l.it /\ level[n].id = i /\ n # k
        BY <1>6, <1>8, <2>1, <2>3, <2>5
      <3>2. PICK m \in 1 .. Len(after) : after[m] = level[n]
        <4>1. CASE n < k
          <5>1. n \in 1 .. Len(after)
            BY <1>7, <1>10, <4>1
          <5> QED
            BY <1>10, <4>1, <5>1
        <4>2. CASE ~(n < k)
          <5>1. n - 1 \in 1 .. Len(after) /\ ~(n - 1 < k) /\ (n - 1) + 1 = n
            BY <1>7, <1>10, <3>1, <4>2
          <5> QED
            BY <1>10, <5>1
        <4> QED
          BY <4>1, <4>2
      <3>3. after # <<>>
        BY <3>2
      <3>4. price \in DOMAIN levels'[side] /\ levels'[side][price] = after
        BY <1>13, <3>3
      <3> QED
        BY <2>1, <2>5, <3>1, <3>2, <3>4 DEF Found
    <2>6. CASE ~(l.side = side /\ l.price = price)
      <3>1. l.price \in DOMAIN levels'[l.side] /\ levels'[l.side][l.price] = levels[l.side][l.price]
        BY <1>13, <2>1, <2>4, <2>6
      <3> QED
        BY <2>1, <2>3, <3>1 DEF Found
    <2> QED
      BY <2>5, <2>6
  <1> QED
    BY <1>13, <1>14, <1>17, <1>18 DEF BookInv

(* The total of a level is that of the sums of Arithmetic. *)
LEMMA LevelTotal ==
    ASSUME NEW level, DOMAIN level = 1 .. Len(level)
    PROVE  Book!QuantityOf(level) = SumOver(QuantityAt(level), 1 .. Len(level))
  <1>1. \A f : Book!Total(f) = SumOver(f, DOMAIN f)
    BY DEF Book!Total, Book!MapThenSumSet, Book!MapThenFoldSet, SumOver, MapThenSumSet, MapThenFoldSet
  <1>2. DOMAIN QuantityAt(level) = 1 .. Len(level) /\ Book!QuantityOf(level) = Book!Total(QuantityAt(level))
    BY DEF QuantityAt, Book!QuantityOf
  <1> QED
    BY <1>1, <1>2

(* The quantity reported for a level is positive, and right while it fits. *)
LEMMA TopQuantity ==
    ASSUME NEW level \in Seq(Resters), level # <<>>
    PROVE  /\ 0 < Book!QuantityOf(level)
           /\ Book!QuantityOf(level) < Modulus => Book!Added(level) = Book!QuantityOf(level)
  <1>1. PICK len \in Nat : len = Len(level)
    BY LenProperties
  <1>2. DOMAIN level = 1 .. len /\ len # 0 /\ \A n \in 1 .. len : level[n] \in Resters
    BY <1>1, LenProperties, ElementOfSeq, EmptySeq
  <1>3. Quantities \subseteq Nat \ {0} /\ Modulus \in Nat \ {0}
    BY SystemsAssumption
  <1>4. \A n \in 1 .. len : level[n].quantity \in Nat /\ level[n].quantity # 0
    BY <1>2, <1>3 DEF Resters
  <1> DEFINE q == QuantityAt(level)
  <1>5. \A n \in 1 .. len : q[n] = level[n].quantity /\ q[n] \in Nat
    BY <1>2, <1>4 DEF QuantityAt
  <1>6. IsFiniteSet(1 .. len)
    BY FS_Interval
  <1> HIDE DEF q
  <1>7. PICK total \in Nat : total = SumOver(q, 1 .. len) /\ \A n \in 1 .. len : q[n] <= total
    BY <1>5, <1>6, SumNatural
  <1>8. total > 0
    <2>1. 1 \in 1 .. len
      BY <1>2
    <2> QED
      BY <1>4, <1>5, <1>7, <2>1
  <1>9. Book!QuantityOf(level) = total
    BY <1>1, <1>2, <1>7, LevelTotal DEF q
  <1>10. Book!Added(level) = total % Modulus
    BY <1>1, <1>2, <1>4, <1>7, LoopAdds DEF q
  <1>11. total < Modulus => total % Modulus = total
    <2>1. total < Modulus => total \in 0 .. Modulus - 1 /\ total = Modulus * 0 + total
      BY <1>3
    <2> QED
      BY <1>3, <2>1, ModIs
  <1> QED
    BY <1>8, <1>9, <1>10, <1>11

(* What the invariant says about the book. *)
LEMMA BookInvImplies ==
    ASSUME BookInv PROVE Book!BookSound
  <1>1. Book!IteratorsValid
    <2> SUFFICES ASSUME NEW id \in DOMAIN order_lookup_, NEW loc, loc = order_lookup_[id]
                 PROVE  /\ loc.price \in DOMAIN levels[loc.side]
                        /\ \E n \in DOMAIN levels[loc.side][loc.price] :
                               levels[loc.side][loc.price][n].node = loc.it /\ levels[loc.side][loc.price][n].id = id
      BY DEF Book!IteratorsValid
    <2>1. Found(id, loc, levels) /\ loc.side \in Sides
      BY LookupTyped DEF BookInv, AllFound
    <2>2. loc.price \in DOMAIN levels[loc.side]
      BY <2>1 DEF Found
    <2>3. DOMAIN levels[loc.side][loc.price] = 1 .. Len(levels[loc.side][loc.price])
      BY <2>1, <2>2, BookSide DEF BookInv
    <2> QED
      BY <2>1, <2>2, <2>3 DEF Found
  <1>2. Book!LevelsReachable
    <2>1. ASSUME NEW side \in Sides, NEW p \in DOMAIN levels[side]
          PROVE  /\ levels[side][p] # <<>>
                 /\ \A m, n \in DOMAIN levels[side][p] : m < n => levels[side][p][m].node < levels[side][p][n].node
                 /\ \A n \in DOMAIN levels[side][p] :
                        levels[side][p][n].node \notin superseded =>
                            /\ levels[side][p][n].id \in DOMAIN order_lookup_
                            /\ order_lookup_[levels[side][p][n].id].it = levels[side][p][n].node
      <3>1. PICK level : level = levels[side][p]
        OBVIOUS
      <3>2. Filed(side, p, level, order_lookup_, superseded, adds) /\ DOMAIN level = 1 .. Len(level)
        BY <3>1, BookSide DEF BookInv, LevelsFiled
      <3>3. /\ level # <<>>
            /\ \A m, n \in DOMAIN level : m < n => level[m].node < level[n].node
        BY <3>2 DEF Filed
      <3>4. ASSUME NEW n \in DOMAIN level, level[n].node \notin superseded
            PROVE  level[n].id \in DOMAIN order_lookup_ /\ order_lookup_[level[n].id].it = level[n].node
        <4>1. /\ level[n].id \in DOMAIN order_lookup_
              /\ order_lookup_[level[n].id] = [side |-> side, price |-> p, it |-> level[n].node]
          BY <3>2, <3>4 DEF Filed
        <4> QED
          BY <4>1
      <3> QED
        BY <3>1, <3>3, <3>4
    <2> QED
      BY <2>1, Zenon DEF Book!LevelsReachable, Book!Sides, Sides
  <1>3. Book!TopCorrect
    <2> SUFFICES ASSUME NEW side \in Sides, DOMAIN levels[side] # {}, NEW top, top = Book!TopOf(side)
                 PROVE  /\ \A p \in DOMAIN levels[side] : IF side = "Buy" THEN p <= top.price ELSE p >= top.price
                        /\ 0 < Book!QuantityOf(levels[side][top.price])
                        /\ Book!QuantityOf(levels[side][top.price]) < Modulus =>
                               top.quantity = Book!QuantityOf(levels[side][top.price])
      BY DEF Book!TopCorrect, Book!Sides, Sides
    <2>1. DOMAIN levels[side] \in SUBSET Nat
      BY BookSide DEF BookInv
    <2>2. PICK bound \in Nat : \A p \in DOMAIN levels[side] : p <= bound
      BY DEF BookInv, BookBounded
    <2> DEFINE best == IF side = "Buy" THEN Max(DOMAIN levels[side]) ELSE Min(DOMAIN levels[side])
    <2>3. /\ best \in DOMAIN levels[side]
          /\ \A p \in DOMAIN levels[side] : IF side = "Buy" THEN p <= best ELSE p >= best
      <3>1. CASE side = "Buy"
        BY <2>1, <2>2, <3>1, MaxIsGreatest
      <3>2. CASE side # "Buy"
        BY <2>1, <3>2, MinIsLeast
      <3> QED
        BY <3>1, <3>2
    <2>4. levels[side] # <<>>
      BY <2>3
    <2>5. top = [price |-> best, quantity |-> Book!Added(levels[side][best])]
      BY <2>4 DEF Book!TopOf, Book!Max, Book!Min, Max, Min
    <2> HIDE DEF best
    <2>6. levels[side][best] \in Seq(Resters) /\ levels[side][best] # <<>>
      BY <2>3, BookSide DEF BookInv, LevelsFiled, Filed
    <2> QED
      BY <2>3, <2>5, <2>6, TopQuantity
  <1> QED
    BY <1>1, <1>2, <1>3 DEF Book!BookSound

(* The empty book. *)
LEMMA BookInit ==
    ASSUME Book!Init PROVE BookInv
  <1>1. Book!Sides = Sides
    BY DEF Book!Sides, Sides
  <1>2. levels = [side \in Sides |-> <<>>] /\ order_lookup_ = <<>> /\ adds = 0 /\ superseded = {}
    BY <1>1 DEF Book!Init
  <1>3. <<>> \in [{} -> Seq(Resters)] /\ <<>> \in [{} -> Locations] /\ DOMAIN <<>> = {}
    OBVIOUS
  <1>4. levels \in BookLevels /\ \A side \in Sides : DOMAIN levels[side] = {}
    BY <1>2, <1>3 DEF BookLevels
  <1>5. order_lookup_ \in Lookups /\ DOMAIN order_lookup_ = {}
    BY <1>2, <1>3 DEF Lookups
  <1>6. BookBounded
    BY <1>4 DEF BookBounded
  <1> QED
    BY <1>2, <1>4, <1>5, <1>6 DEF BookInv, BookTyped, LevelsFiled, AllFound

(* Every call keeps the invariant. *)
LEMMA BookNext ==
    ASSUME BookInv, [Book!Next]_(Book!vars) PROVE BookInv'
  <1>1. CASE UNCHANGED Book!vars
    <2>1. levels' = levels /\ order_lookup_' = order_lookup_ /\ adds' = adds /\ superseded' = superseded
      BY <1>1 DEF Book!vars
    <2> QED
      BY <2>1 DEF BookInv, BookTyped, BookBounded, LevelsFiled, AllFound
  <1>2. ASSUME NEW id \in Ids, NEW side \in Book!Sides, NEW price \in BookPrices, NEW qty \in Quantities,
               Book!addOrder(id, side, price, qty)
        PROVE  BookInv'
    <2>1. side \in Sides
      BY DEF Book!Sides, Sides
    <2> QED
      BY <1>2, <2>1, AddKeeps
  <1>3. ASSUME NEW id \in Ids, Book!cancelOrder(id) PROVE BookInv'
    BY <1>3, CancelKeeps
  <1>4. ASSUME NEW id \in Ids, Book!CancelUnknown(id) PROVE UNCHANGED Book!vars
    BY <1>4 DEF Book!CancelUnknown
  <1> QED
    BY <1>1, <1>2, <1>3, <1>4 DEF Book!Next

(* The order book follows no dangling iterator, keeps every order that is not
   superseded within reach of cancelOrder, and reports its top (order_book.cpp). *)
THEOREM BookCorrect == Book!Spec => []Book!BookSound
  <1>1. BookInv => Book!BookSound
    BY BookInvImplies
  <1> QED
    BY <1>1, BookInit, BookNext, PTL DEF Book!Spec

-----------------------------------------------------------------------------
(* scheduler_sim.cpp: both policies schedule what is ready, round robin with a
   bounded wait and priorities without an inversion, and count the time right. *)

(* The processes in front of i. *)
Before(S, i) == {j \in S : j < i}

(* The loops over all processes push the new ones each once, in order. *)
LEMMA InOrderLists ==
    ASSUME NEW S \in SUBSET Nat, IsFiniteSet(S)
    PROVE  Enumerates(Scheduler!InOrder(S), S)
  <1>1. PICK n \in Nat : n = Cardinality(S)
    BY FS_CardinalityType
  <1> DEFINE Rank(i) == Cardinality(Before(S, i))
             f == [i \in S |-> Rank(i)]
             Kth(k) == CHOOSE i \in S : Rank(i) = k - 1
  <1>2. ASSUME NEW i \in S PROVE Rank(i) \in 0 .. n - 1 /\ IsFiniteSet(Before(S, i))
    <2>1. Before(S, i) \in SUBSET (S \ {i})
      BY DEF Before
    <2>2. IsFiniteSet(S \ {i}) /\ Cardinality(S \ {i}) = n - 1
      BY <1>1, FS_RemoveElement
    <2>3. IsFiniteSet(Before(S, i)) /\ Rank(i) <= n - 1
      BY <2>1, <2>2, FS_Subset
    <2>4. Rank(i) \in Nat
      BY <2>3, FS_CardinalityType
    <2> QED
      BY <2>3, <2>4
  <1>3. ASSUME NEW i \in S, NEW j \in S, i < j PROVE Rank(i) < Rank(j)
    <2>1. Before(S, i) \cup {i} \subseteq Before(S, j) /\ i \notin Before(S, i)
      <3>1. \A x \in S : x \in Nat
        OBVIOUS
      <3>2. \A x \in S : x < i => x < j
        BY <1>3, <3>1
      <3>3. ~(i < i)
        BY <3>1
      <3> QED
        BY <1>3, <3>2, <3>3 DEF Before
    <2>2. Cardinality(Before(S, i) \cup {i}) = Rank(i) + 1
      BY <1>2, <2>1, FS_AddElement
    <2>3. Cardinality(Before(S, i) \cup {i}) <= Rank(j)
      BY <1>2, <2>1, FS_Subset
    <2> QED
      BY <1>2, <2>2, <2>3
  <1> HIDE DEF Rank
  <1>4. \A i, j \in S : Rank(i) = Rank(j) => i = j
    <2> SUFFICES ASSUME NEW i \in S, NEW j \in S, Rank(i) = Rank(j), i # j PROVE FALSE
      OBVIOUS
    <2>1. i < j \/ j < i
      OBVIOUS
    <2>2. Rank(i) < Rank(j) \/ Rank(j) < Rank(i)
      BY <1>3, <2>1
    <2> QED
      BY <1>2, <2>2
  <1>5. f \in Injection(S, 0 .. n - 1)
    BY <1>2, <1>4 DEF Injection, IsInjective
  <1>6. IsFiniteSet(0 .. n - 1) /\ Cardinality(0 .. n - 1) = n
    BY FS_Interval
  <1>7. f \in Surjection(S, 0 .. n - 1)
    BY <1>1, <1>5, <1>6, FS_Injection
  <1>8. \A r \in 0 .. n - 1 : \E i \in S : Rank(i) = r
    BY <1>7 DEF Surjection
  <1>9. \A k \in 1 .. n : Kth(k) \in S /\ Rank(Kth(k)) = k - 1
    <2> SUFFICES ASSUME NEW k \in 1 .. n PROVE Kth(k) \in S /\ Rank(Kth(k)) = k - 1
      OBVIOUS
    <2>1. k - 1 \in 0 .. n - 1
      OBVIOUS
    <2> QED
      BY <1>8, <2>1
  <1> DEFINE s == [k \in 1 .. n |-> Kth(k)]
  <1>10. Scheduler!InOrder(S) = s
    BY <1>1 DEF Scheduler!InOrder, Before, Rank, Scheduler!Cardinality, Cardinality
  <1> HIDE DEF Kth
  <1>11. s \in [1 .. n -> S] /\ s \in Seq(S) /\ Len(s) = n
    BY <1>9, SeqDef, LenProperties
  <1>12. \A k \in 1 .. n : s[k] = Kth(k)
    OBVIOUS
  <1> HIDE DEF s
  <1>13. ASSUME NEW i \in S PROVE \E k \in 1 .. n : s[k] = i
    <2>1. Rank(i) + 1 \in 1 .. n /\ (Rank(i) + 1) - 1 = Rank(i)
      BY <1>2
    <2>2. s[Rank(i) + 1] \in S /\ Rank(s[Rank(i) + 1]) = Rank(i)
      BY <1>9, <1>12, <2>1
    <2> QED
      BY <1>4, <2>1, <2>2
  <1>14. ASSUME NEW k \in 1 .. n, NEW l \in 1 .. n, s[k] = s[l] PROVE k = l
    <2>1. k - 1 = l - 1
      BY <1>9, <1>12, <1>14
    <2> QED
      BY <2>1
  <1> QED
    BY <1>10, <1>11, <1>13, <1>14 DEF Enumerates

(* A process with what it has run: never more than its burst, and once that is
   done it has been in the system for at least as long. *)
Runnable ==
    [arrival_time : Nat, burst_time : Nat \ {0}, priority : Int, remaining_time : Nat,
     completion_time : Nat, first_run_time : Int]

Account(p, now) ==
    /\ p.remaining_time <= p.burst_time
    /\ p.remaining_time = 0 =>
           /\ p.arrival_time + p.burst_time <= p.completion_time /\ p.completion_time <= now
           /\ p.arrival_time <= p.first_run_time /\ p.first_run_time <= p.completion_time

Done(ps) == {i \in DOMAIN ps : ps[i].remaining_time = 0}

Counted(ps, count, now) == count = Cardinality(Done(ps)) /\ Scheduler!TimeUsed(ps) <= now

SchedTyped ==
    /\ procs \in Seq(Runnable) /\ current_time \in Nat /\ since \in [DOMAIN procs -> Nat]
    /\ in_queue \subseteq DOMAIN procs /\ policy \in {"round robin", "priority"} /\ quantum \in Nat

(* Round robin: a process is in in_queue from its arrival on, the queue lists the
   processes that are not done, and each waits a bounded time. *)
RobinProcess(i, p, queued, ready, now) ==
    /\ i \in queued <=> p.arrival_time <= now
    /\ i \notin queued => p.remaining_time = p.burst_time /\ ready[i] = p.arrival_time
    /\ i \in queued => p.arrival_time + (p.burst_time - p.remaining_time) <= now
    /\ p.first_run_time < 0 \/ (p.arrival_time <= p.first_run_time /\ p.first_run_time <= now)

Ready(ps, queued) == {i \in DOMAIN ps : i \in queued /\ ps[i].remaining_time > 0}

RobinInv ==
    /\ quantum \in Nat \ {0}
    /\ \A i \in DOMAIN procs : RobinProcess(i, procs[i], in_queue, since, current_time)
    /\ Enumerates(ready_queue, Ready(procs, in_queue))
    /\ Scheduler!BoundedWait

(* Priorities: in_queue is the set of those that are done; whoever started had no
   more important process waiting, also among those that are not done yet. *)
AsImportant(p, q) == q.arrival_time <= p.first_run_time => p.priority <= q.priority

PriorityInv ==
    /\ ready_queue = <<>>
    /\ \A i \in DOMAIN procs :
           IF i \in in_queue
           THEN procs[i].remaining_time = 0 /\ procs[i].first_run_time < procs[i].completion_time
           ELSE procs[i].remaining_time = procs[i].burst_time
    /\ \A i, j \in in_queue : i # j /\ procs[i].first_run_time <= procs[j].first_run_time =>
           procs[i].completion_time <= procs[j].first_run_time /\ AsImportant(procs[i], procs[j])
    /\ \A i \in in_queue : \A j \in DOMAIN procs \ in_queue : AsImportant(procs[i], procs[j])

SchedInv ==
    /\ SchedTyped
    /\ \A i \in DOMAIN procs : Account(procs[i], current_time)
    /\ Counted(procs, completed, current_time)
    /\ policy = "round robin" => RobinInv
    /\ policy = "priority" => PriorityInv

LEMMA ProcessParts ==
    ASSUME NEW p \in Runnable
    PROVE  /\ p.arrival_time \in Nat /\ p.burst_time \in Nat /\ p.burst_time > 0 /\ p.priority \in Int
           /\ p.remaining_time \in Nat /\ p.completion_time \in Nat /\ p.first_run_time \in Int
  BY DEF Runnable

LEMMA ProcsTyped ==
    ASSUME SchedTyped
    PROVE  /\ Len(procs) \in Nat /\ DOMAIN procs = 1 .. Len(procs) /\ procs \in [1 .. Len(procs) -> Runnable]
           /\ \A i \in DOMAIN procs : i \in Nat /\ procs[i] \in Runnable /\ since[i] \in Nat
           /\ IsFiniteSet(DOMAIN procs) /\ Cardinality(DOMAIN procs) = Len(procs)
  <1>1. Len(procs) \in Nat /\ DOMAIN procs = 1 .. Len(procs) /\ procs \in [1 .. Len(procs) -> Runnable]
    BY LenProperties DEF SchedTyped
  <1>2. \A i \in DOMAIN procs : i \in Nat /\ procs[i] \in Runnable
    BY <1>1
  <1>3. \A i \in DOMAIN procs : since[i] \in Nat
    BY DEF SchedTyped
  <1>4. IsFiniteSet(1 .. Len(procs)) /\ Cardinality(1 .. Len(procs)) = Len(procs)
    <2>1. 1 \in Int /\ Len(procs) \in Int
      BY <1>1
    <2>2. /\ IsFiniteSet(1 .. Len(procs))
          /\ Cardinality(1 .. Len(procs)) = IF 1 > Len(procs) THEN 0 ELSE Len(procs) - 1 + 1
      BY <2>1, FS_Interval
    <2> QED
      BY <1>1, <2>2
  <1> QED
    BY <1>1, <1>2, <1>3, <1>4

UsedBy(ps) == [i \in DOMAIN ps |-> ps[i].burst_time - ps[i].remaining_time]

LEMMA UsedTotal ==
    ASSUME NEW ps PROVE Scheduler!TimeUsed(ps) = SumOver(UsedBy(ps), DOMAIN ps)
  <1>1. \A f : Scheduler!Total(f) = SumOver(f, DOMAIN f)
    BY DEF Scheduler!Total, Scheduler!MapThenSumSet, Scheduler!MapThenFoldSet, SumOver, MapThenSumSet, MapThenFoldSet
  <1>2. Scheduler!TimeUsed(ps) = Scheduler!Total(UsedBy(ps)) /\ DOMAIN UsedBy(ps) = DOMAIN ps
    BY DEF UsedBy, Scheduler!TimeUsed
  <1> QED
    BY <1>1, <1>2

LEMMA UsedType ==
    ASSUME SchedTyped PROVE Scheduler!TimeUsed(procs) \in Int
  <1>1. \A i \in DOMAIN procs : UsedBy(procs)[i] \in Int
    BY ProcsTyped, ProcessParts DEF UsedBy
  <1>2. SumOver(UsedBy(procs), DOMAIN procs) \in Int
    BY <1>1, ProcsTyped, SumType
  <1> QED
    BY <1>2, UsedTotal

WithProcess(idx, p) == [procs EXCEPT ![idx] = p]

(* When a process runs for r, the time used and the number of processes that are
   done follow. *)
LEMMA RunCounted ==
    ASSUME SchedTyped, Counted(procs, completed, current_time),
           NEW idx \in DOMAIN procs, NEW r \in Nat, procs[idx].remaining_time > 0,
           NEW p \in Runnable, p.burst_time = procs[idx].burst_time,
           p.remaining_time = procs[idx].remaining_time - r,
           procs' = WithProcess(idx, p), current_time' = current_time + r,
           completed' = IF p.remaining_time = 0 THEN completed + 1 ELSE completed
    PROVE  /\ Counted(procs', completed', current_time')
           /\ procs' \in Seq(Runnable) /\ DOMAIN procs' = DOMAIN procs /\ Len(procs') = Len(procs)
           /\ procs'[idx] = p /\ \A i \in DOMAIN procs : i # idx => procs'[i] = procs[i]
  <1>1. /\ Len(procs) \in Nat /\ DOMAIN procs = 1 .. Len(procs) /\ procs \in [1 .. Len(procs) -> Runnable]
        /\ IsFiniteSet(DOMAIN procs) /\ \A i \in DOMAIN procs : procs[i] \in Runnable
    BY ProcsTyped
  <1>2. procs' \in [1 .. Len(procs) -> Runnable]
    BY <1>1 DEF WithProcess
  <1>3. procs' \in Seq(Runnable) /\ DOMAIN procs' = DOMAIN procs /\ Len(procs') = Len(procs)
    BY <1>1, <1>2, SeqDef, LenProperties
  <1>4. procs'[idx] = p /\ \A i \in DOMAIN procs : i # idx => procs'[i] = procs[i]
    BY <1>1 DEF WithProcess
  <1>5. PICK f : f = UsedBy(procs)
    OBVIOUS
  <1>6. PICK e : e = UsedBy(procs')
    OBVIOUS
  <1>7. /\ \A i \in DOMAIN procs : f[i] = procs[i].burst_time - procs[i].remaining_time /\ f[i] \in Int
        /\ \A i \in DOMAIN procs : i # idx => e[i] = f[i]
        /\ e[idx] = f[idx] + r /\ e[idx] \in Int
    <2>1. \A i \in DOMAIN procs : f[i] = procs[i].burst_time - procs[i].remaining_time
      BY <1>5 DEF UsedBy
    <2>2. \A i \in DOMAIN procs : e[i] = procs'[i].burst_time - procs'[i].remaining_time
      BY <1>3, <1>6 DEF UsedBy
    <2>3. \A i \in DOMAIN procs : procs[i].burst_time \in Nat /\ procs[i].remaining_time \in Nat
      BY <1>1, ProcessParts
    <2>4. e[idx] = procs[idx].burst_time - (procs[idx].remaining_time - r)
      BY <1>4, <2>2
    <2> QED
      BY <1>4, <2>1, <2>2, <2>3, <2>4
  <1>8. SumOver(e, DOMAIN procs) = SumOver(f, DOMAIN procs) + (e[idx] - f[idx])
    <2>1. /\ \A i \in DOMAIN procs : f[i] \in Int
          /\ \A i \in DOMAIN procs : i # idx => e[i] = f[i]
          /\ e[idx] \in Int /\ IsFiniteSet(DOMAIN procs)
      BY <1>1, <1>7
    <2> QED
      BY <2>1, SumChange
  <1>9. Scheduler!TimeUsed(procs') <= current_time'
    <2>1. Scheduler!TimeUsed(procs') = SumOver(e, DOMAIN procs) /\ Scheduler!TimeUsed(procs) = SumOver(f, DOMAIN procs)
      BY <1>3, <1>5, <1>6, UsedTotal
    <2>2. Scheduler!TimeUsed(procs) \in Int /\ Scheduler!TimeUsed(procs) <= current_time /\ current_time \in Nat
      BY UsedType DEF Counted, SchedTyped
    <2>3. e[idx] - f[idx] = r
      BY <1>7
    <2> QED
      BY <1>8, <2>1, <2>2, <2>3
  <1>10. completed' = Cardinality(Done(procs'))
    <2>1. IsFiniteSet(Done(procs)) /\ idx \notin Done(procs)
      <3>1. Done(procs) \subseteq DOMAIN procs
        BY DEF Done
      <3>2. procs[idx].remaining_time # 0
        BY <1>1, ProcessParts
      <3> QED
        BY <1>1, <3>1, <3>2, FS_Subset DEF Done
    <2>2. CASE p.remaining_time = 0
      <3>1. Done(procs') = Done(procs) \cup {idx}
        BY <1>3, <1>4, <2>2 DEF Done
      <3>2. Cardinality(Done(procs) \cup {idx}) = Cardinality(Done(procs)) + 1
        BY <2>1, FS_AddElement
      <3> QED
        BY <2>2, <3>1, <3>2 DEF Counted
    <2>3. CASE p.remaining_time # 0
      <3>1. Done(procs') = Done(procs)
        BY <1>3, <1>4, <2>1, <2>3 DEF Done
      <3> QED
        BY <2>3, <3>1 DEF Counted
    <2> QED
      BY <2>2, <2>3
  <1> QED
    BY <1>3, <1>4, <1>9, <1>10 DEF Counted

(* Time passes without harm to the accounts. *)
LEMMA AccountLater ==
    ASSUME NEW p \in Runnable, NEW now \in Nat, NEW later \in Nat, now <= later, Account(p, now)
    PROVE  Account(p, later)
  BY ProcessParts DEF Account

(* The processes that an iteration pushes have just arrived. *)
LEMMA NewcomersArrive ==
    ASSUME SchedTyped, RobinInv, NEW ps, DOMAIN ps = DOMAIN procs,
           \A i \in DOMAIN procs \ in_queue : ps[i] = procs[i], NEW now \in Nat, current_time <= now
    PROVE  /\ IsFiniteSet(Scheduler!Newcomers(ps, now)) /\ Scheduler!Newcomers(ps, now) \in SUBSET Nat
           /\ \A i : i \in Scheduler!Newcomers(ps, now) <=>
                  i \in DOMAIN procs /\ i \notin in_queue /\ procs[i].arrival_time <= now
           /\ \A i \in Scheduler!Newcomers(ps, now) :
                  /\ i \in DOMAIN procs /\ current_time < procs[i].arrival_time /\ procs[i].arrival_time <= now
                  /\ since[i] = procs[i].arrival_time /\ procs[i].remaining_time = procs[i].burst_time
  <1> DEFINE new == Scheduler!Newcomers(ps, now)
  <1>1. \A i \in DOMAIN procs : /\ i \in Nat /\ procs[i].arrival_time \in Nat
                                /\ procs[i].burst_time \in Nat /\ procs[i].burst_time > 0
    BY ProcsTyped, ProcessParts
  <1>2. \A i : i \in new <=> /\ i \in DOMAIN procs /\ i \notin in_queue
                             /\ procs[i].arrival_time <= now /\ procs[i].remaining_time > 0
    BY DEF Scheduler!Newcomers
  <1> HIDE DEF new
  <1>3. \A i \in DOMAIN procs \ in_queue :
            /\ procs[i].remaining_time = procs[i].burst_time /\ since[i] = procs[i].arrival_time
            /\ ~(procs[i].arrival_time <= current_time)
    BY DEF RobinInv, RobinProcess
  <1>4. \A i : i \in new <=> i \in DOMAIN procs /\ i \notin in_queue /\ procs[i].arrival_time <= now
    BY <1>1, <1>2, <1>3
  <1>5. \A i \in new : /\ i \in DOMAIN procs /\ current_time < procs[i].arrival_time /\ procs[i].arrival_time <= now
                       /\ since[i] = procs[i].arrival_time /\ procs[i].remaining_time = procs[i].burst_time
    <2>1. current_time \in Nat
      BY DEF SchedTyped
    <2> QED
      BY <1>1, <1>3, <1>4, <2>1
  <1>6. new \in SUBSET (DOMAIN procs) /\ new \in SUBSET Nat
    BY <1>1, <1>4
  <1>7. IsFiniteSet(new)
    BY <1>6, ProcsTyped, FS_Subset
  <1> QED
    BY <1>4, <1>5, <1>6, <1>7 DEF new

(* A list of some of the processes is no longer than there are processes. *)
LEMMA QueueFits ==
    ASSUME SchedTyped, NEW S \in SUBSET (DOMAIN procs), NEW s, Enumerates(s, S)
    PROVE  Len(s) \in Nat /\ Len(s) <= Len(procs) /\ \A i \in DOMAIN procs \ S : Len(s) <= Len(procs) - 1
  <1>1. Len(s) \in Nat /\ IsFiniteSet(S) /\ Cardinality(S) = Len(s)
    BY ListLength
  <1>2. IsFiniteSet(DOMAIN procs) /\ Cardinality(DOMAIN procs) = Len(procs) /\ Len(procs) \in Nat
    BY ProcsTyped
  <1>3. Len(s) <= Len(procs)
    BY <1>1, <1>2, FS_Subset
  <1>4. ASSUME NEW i \in DOMAIN procs \ S PROVE Len(s) <= Len(procs) - 1
    <2>1. IsFiniteSet(DOMAIN procs \ {i}) /\ Cardinality(DOMAIN procs \ {i}) = Len(procs) - 1
      BY <1>2, FS_RemoveElement
    <2>2. S \in SUBSET (DOMAIN procs \ {i})
      OBVIOUS
    <2> QED
      BY <1>1, <2>1, <2>2, FS_Subset
  <1> QED
    BY <1>1, <1>3, <1>4

(* A process that does not run while time passes and others arrive. *)
LEMMA ProcessLater ==
    ASSUME NEW p \in Runnable, NEW i, NEW queued, NEW more, NEW new, more = queued \cup new, NEW ready,
           NEW now \in Nat, NEW later \in Nat, now <= later, RobinProcess(i, p, queued, ready, now),
           i \in new <=> i \notin queued /\ p.arrival_time <= later
    PROVE  RobinProcess(i, p, more, ready, later)
  <1>1. /\ p.arrival_time \in Nat /\ p.burst_time \in Nat /\ p.burst_time > 0
        /\ p.remaining_time \in Nat /\ p.first_run_time \in Int
    BY ProcessParts
  <1>2. i \in more <=> p.arrival_time <= later
    <2>1. i \in queued <=> p.arrival_time <= now
      BY DEF RobinProcess
    <2>2. p.arrival_time <= now => p.arrival_time <= later
      BY <1>1
    <2> QED
      BY <2>1, <2>2
  <1>3. i \notin more => p.remaining_time = p.burst_time /\ ready[i] = p.arrival_time
    BY DEF RobinProcess
  <1>4. i \in more => p.arrival_time + (p.burst_time - p.remaining_time) <= later
    <2>1. CASE i \in queued
      BY <1>1, <2>1 DEF RobinProcess
    <2>2. CASE i \notin queued
      <3>1. p.remaining_time = p.burst_time
        BY <2>2 DEF RobinProcess
      <3> QED
        BY <1>1, <1>2, <3>1
    <2> QED
      BY <2>1, <2>2
  <1>5. p.first_run_time < 0 \/ (p.arrival_time <= p.first_run_time /\ p.first_run_time <= later)
    BY <1>1 DEF RobinProcess
  <1> QED
    BY <1>2, <1>3, <1>4, <1>5 DEF RobinProcess

(* An idle iteration of round robin. *)
LEMMA RobinIdles ==
    ASSUME SchedInv, Scheduler!RoundRobinIdle PROVE SchedInv'
  <1> DEFINE now == current_time + 1
             new == Scheduler!Newcomers(procs, now)
  <1>1. /\ policy = "round robin" /\ ready_queue = <<>> /\ current_time' = now
        /\ ready_queue' = Scheduler!InOrder(new) /\ in_queue' = in_queue \cup new
        /\ policy' = policy /\ quantum' = quantum /\ procs' = procs /\ completed' = completed /\ since' = since
    BY DEF Scheduler!RoundRobinIdle
  <1>2. SchedTyped /\ RobinInv
    BY <1>1 DEF SchedInv
  <1>3. current_time \in Nat /\ now \in Nat /\ current_time <= now /\ now = current_time + 1
    <2>1. current_time \in Nat
      BY <1>2 DEF SchedTyped
    <2> QED
      BY <2>1
  <1>4. /\ IsFiniteSet(new) /\ new \in SUBSET Nat
        /\ \A i : i \in new <=> i \in DOMAIN procs /\ i \notin in_queue /\ procs[i].arrival_time <= now
        /\ \A i \in new : /\ i \in DOMAIN procs /\ current_time < procs[i].arrival_time /\ procs[i].arrival_time <= now
                          /\ since[i] = procs[i].arrival_time /\ procs[i].remaining_time = procs[i].burst_time
    BY <1>2, <1>3, NewcomersArrive
  <1> HIDE DEF new
  <1>5. \A i \in DOMAIN procs : /\ i \in Nat /\ procs[i] \in Runnable /\ since[i] \in Nat
                                /\ procs[i].arrival_time \in Nat /\ procs[i].burst_time \in Nat /\ procs[i].burst_time > 0
                                /\ procs[i].remaining_time \in Nat /\ procs[i].first_run_time \in Int
    BY <1>2, ProcsTyped, ProcessParts
  <1>6. SchedTyped'
    BY <1>1, <1>2, <1>3, <1>4 DEF SchedTyped
  <1>7. \A i \in DOMAIN procs : Account(procs[i], now)
    BY <1>3, <1>5, AccountLater DEF SchedInv
  <1>8. Counted(procs, completed, now)
    <2>1. Scheduler!TimeUsed(procs) \in Int
      BY <1>2, UsedType
    <2>2. Scheduler!TimeUsed(procs) <= current_time /\ completed = Cardinality(Done(procs))
      BY DEF SchedInv, Counted
    <2>3. Scheduler!TimeUsed(procs) <= now
      BY <1>3, <2>1, <2>2
    <2> QED
      BY <2>2, <2>3 DEF Counted
  <1>9. ASSUME NEW i \in DOMAIN procs PROVE RobinProcess(i, procs[i], in_queue', since, now)
    <2>1. RobinProcess(i, procs[i], in_queue, since, current_time)
      BY <1>2 DEF RobinInv
    <2> QED
      BY <1>1, <1>3, <1>4, <1>5, <2>1, ProcessLater
  <1>10. Enumerates(ready_queue', new)
    BY <1>1, <1>4, InOrderLists
  <1>11. Ready(procs, in_queue') = new
    <2>1. Len(ready_queue) = 0 /\ \A i \in Ready(procs, in_queue) : \E k \in 1 .. Len(ready_queue) : ready_queue[k] = i
      BY <1>1, <1>2 DEF RobinInv, Enumerates
    <2>2. Ready(procs, in_queue) = {}
      BY <2>1
    <2>3. \A i \in new : procs[i].remaining_time > 0
      BY <1>4, <1>5
    <2> QED
      BY <1>1, <1>4, <2>2, <2>3 DEF Ready
  <1>12. Scheduler!BoundedWait'
    <2>1. DOMAIN ready_queue' = 1 .. Len(ready_queue') /\ \A k \in 1 .. Len(ready_queue') : ready_queue'[k] \in new
      BY <1>10, LenProperties, ElementOfSeq DEF Enumerates
    <2>2. new \in SUBSET (DOMAIN procs)
      BY <1>4
    <2>3. Len(ready_queue') \in Nat /\ Len(ready_queue') <= Len(procs) /\ Len(procs) \in Nat
      BY <1>2, <1>10, <2>2, QueueFits, ProcsTyped
    <2> SUFFICES ASSUME NEW k \in 1 .. Len(ready_queue')
                 PROVE  now - since[ready_queue'[k]] + (k - 1) * quantum <= (Len(procs) - 1) * quantum
      BY <1>1, <2>1 DEF Scheduler!BoundedWait
    <2>4. since[ready_queue'[k]] = now
      BY <1>3, <1>4, <1>5, <2>1
    <2>5. quantum \in Nat /\ k - 1 \in Int /\ Len(procs) - 1 \in Int /\ k - 1 <= Len(procs) - 1
      BY <1>2, <2>3 DEF RobinInv
    <2>6. (k - 1) * quantum \in Int /\ (Len(procs) - 1) * quantum \in Int /\ (k - 1) * quantum <= (Len(procs) - 1) * quantum
      BY <2>5, SlotsApart
    <2> QED
      BY <1>3, <2>4, <2>6
  <1>13. RobinInv'
    BY <1>1, <1>2, <1>9, <1>10, <1>11, <1>12 DEF RobinInv
  <1> QED
    BY <1>1, <1>6, <1>7, <1>8, <1>13 DEF SchedInv

(* A process after a slice of r. *)
LEMMA RanParts ==
    ASSUME NEW p \in Runnable, NEW from \in Nat, NEW r \in Nat, r > 0, r <= p.remaining_time
    PROVE  LET q == Scheduler!Ran(p, from, r)
           IN  /\ q \in Runnable /\ q.arrival_time = p.arrival_time /\ q.burst_time = p.burst_time
               /\ q.remaining_time = p.remaining_time - r
               /\ q.first_run_time = IF p.first_run_time < 0 THEN from ELSE p.first_run_time
               /\ p.remaining_time = r => q.completion_time = from + r
  <1>1. /\ p.arrival_time \in Nat /\ p.burst_time \in Nat \ {0} /\ p.priority \in Int
        /\ p.remaining_time \in Nat /\ p.completion_time \in Nat /\ p.first_run_time \in Int
    BY DEF Runnable
  <1>2. PICK left \in Nat : left = p.remaining_time - r
    BY <1>1
  <1>3. PICK first \in Int : first = IF p.first_run_time < 0 THEN from ELSE p.first_run_time
    BY <1>1
  <1>4. PICK end \in Nat : end = IF p.remaining_time = r THEN from + r ELSE p.completion_time
    BY <1>1
  <1>5. Scheduler!Ran(p, from, r) =
            [p EXCEPT !.remaining_time = left, !.first_run_time = first, !.completion_time = end]
    BY <1>1, <1>2, <1>3, <1>4 DEF Scheduler!Ran, Runnable
  <1>6. PICK q : q = [p EXCEPT !.remaining_time = left, !.first_run_time = first, !.completion_time = end]
    OBVIOUS
  <1>7. /\ q \in Runnable /\ q.arrival_time = p.arrival_time /\ q.burst_time = p.burst_time
        /\ q.remaining_time = left /\ q.first_run_time = first /\ q.completion_time = end
    BY <1>6 DEF Runnable
  <1> QED
    BY <1>2, <1>3, <1>4, <1>5, <1>6, <1>7

(* The queue after a slice of its head: the rest, each one place further to the
   front, then who arrived, then the head itself unless it is done. *)
Sliced(q, s, S, t, T, done) ==
    /\ Enumerates(q, ((S \ {Head(s)}) \cup T) \cup (IF done THEN {} ELSE {Head(s)}))
    /\ Enumerates(Tail(s) \o t, (S \ {Head(s)}) \cup T)
    /\ \A k \in 1 .. Len(q) :
           \/ k + 1 \in 1 .. Len(s) /\ q[k] = s[k + 1] /\ q[k] # Head(s)
           \/ q[k] \in T /\ k <= Len(Tail(s) \o t)
           \/ q[k] = Head(s) /\ k = Len(Tail(s) \o t) + 1

LEMMA SliceQueue ==
    ASSUME NEW S, NEW s, Enumerates(s, S), s # <<>>, NEW T, NEW t, Enumerates(t, T), S \cap T = {}, NEW done \in BOOLEAN
    PROVE  Sliced(Scheduler!Requeue(Tail(s), t, Head(s), done), s, S, t, T, done)
  <1>1. /\ Head(s) \in S /\ Enumerates(Tail(s), S \ {Head(s)}) /\ Len(Tail(s)) = Len(s) - 1 /\ Len(s) \in Nat \ {0}
        /\ \A k \in 1 .. Len(Tail(s)) : k + 1 \in 1 .. Len(s) /\ Tail(s)[k] = s[k + 1]
    BY TailLists
  <1>2. PICK rest : rest = Tail(s)
    OBVIOUS
  <1>3. PICK w : w = rest \o t
    OBVIOUS
  <1>4. PICK last : last = IF done THEN <<>> ELSE <<Head(s)>>
    OBVIOUS
  <1>5. PICK L : L = IF done THEN {} ELSE {Head(s)}
    OBVIOUS
  <1>6. PICK q : q = w \o last
    OBVIOUS
  <1>7. Scheduler!Requeue(Tail(s), t, Head(s), done) = q
    BY <1>2, <1>3, <1>4, <1>6 DEF Scheduler!Requeue
  <1>8. (S \ {Head(s)}) \cap T = {} /\ ((S \ {Head(s)}) \cup T) \cap L = {}
    BY <1>1, <1>5
  <1>9. /\ Enumerates(w, (S \ {Head(s)}) \cup T) /\ Len(w) = Len(rest) + Len(t)
        /\ \A k \in 1 .. Len(rest) + Len(t) : w[k] = IF k <= Len(rest) THEN rest[k] ELSE t[k - Len(rest)]
    <2>1. PICK U : U = S \ {Head(s)}
      OBVIOUS
    <2>2. Enumerates(rest, U) /\ Enumerates(t, T) /\ U \cap T = {}
      BY <1>1, <1>2, <1>8, <2>1
    <2>3. Enumerates(rest \o t, U \cup T) /\ Chained(rest \o t, rest, t)
      BY <2>2, JoinLists, Zenon
    <2> QED
      BY <1>3, <2>1, <2>3 DEF Chained
  <1>10. Enumerates(last, L) /\ Len(last) \in {0, 1} /\ (Len(last) = 1 => last[1] = Head(s))
    <2>1. CASE done
      BY <1>4, <1>5, <2>1, ShortLists
    <2>2. CASE ~done
      BY <1>4, <1>5, <2>2, ShortLists
    <2> QED
      BY <2>1, <2>2
  <1>11. /\ Enumerates(q, ((S \ {Head(s)}) \cup T) \cup L) /\ Len(q) = Len(w) + Len(last)
         /\ \A k \in 1 .. Len(w) + Len(last) : q[k] = IF k <= Len(w) THEN w[k] ELSE last[k - Len(w)]
    <2>1. PICK U : U = (S \ {Head(s)}) \cup T
      OBVIOUS
    <2>2. Enumerates(w, U) /\ Enumerates(last, L) /\ U \cap L = {}
      BY <1>8, <1>9, <1>10, <2>1
    <2>3. Enumerates(w \o last, U \cup L) /\ Chained(w \o last, w, last)
      BY <2>2, JoinLists, Zenon
    <2> QED
      BY <1>6, <2>1, <2>3 DEF Chained
  <1>12. Len(rest) \in Nat /\ Len(t) \in Nat /\ Len(w) \in Nat
    BY <1>1, <1>2, <1>9, ListLength
  <1>13. ASSUME NEW k \in 1 .. Len(q)
         PROVE  \/ k + 1 \in 1 .. Len(s) /\ q[k] = s[k + 1] /\ q[k] # Head(s)
                \/ q[k] \in T /\ k <= Len(w)
                \/ q[k] = Head(s) /\ k = Len(w) + 1
    <2>1. CASE k <= Len(rest)
      <3>1. k \in 1 .. Len(rest) /\ k <= Len(w) /\ k \in 1 .. Len(w) /\ k \in 1 .. Len(w) + Len(last)
        BY <1>9, <1>10, <1>11, <1>12, <2>1
      <3>2. q[k] = rest[k]
        BY <1>9, <1>11, <2>1, <3>1
      <3>3. rest[k] \in S \ {Head(s)}
        BY <1>1, <1>2, <3>1, ElementOfSeq DEF Enumerates
      <3> QED
        BY <1>1, <1>2, <3>1, <3>2, <3>3
    <2>2. CASE ~(k <= Len(rest)) /\ k <= Len(w)
      <3>1. k - Len(rest) \in 1 .. Len(t) /\ k \in 1 .. Len(rest) + Len(t) /\ k \in 1 .. Len(w) + Len(last)
        BY <1>9, <1>10, <1>11, <1>12, <2>2
      <3>2. q[k] = t[k - Len(rest)]
        BY <1>9, <1>11, <2>2, <3>1
      <3>3. t[k - Len(rest)] \in T
        BY <3>1, ElementOfSeq DEF Enumerates
      <3> QED
        BY <2>2, <3>2, <3>3
    <2>3. CASE ~(k <= Len(w))
      <3>1. k = Len(w) + 1 /\ Len(last) = 1 /\ k - Len(w) = 1 /\ k \in 1 .. Len(w) + Len(last)
        BY <1>10, <1>11, <1>12, <2>3
      <3>2. q[k] = last[k - Len(w)]
        BY <1>11, <2>3, <3>1
      <3> QED
        BY <1>10, <3>1, <3>2
    <2> QED
      BY <2>1, <2>2, <2>3
  <1> QED
    BY <1>2, <1>3, <1>5, <1>7, <1>9, <1>11, <1>13 DEF Sliced

(* A slice of round robin. *)
LEMMA RobinSlices ==
    ASSUME SchedInv, Scheduler!RoundRobinSlice PROVE SchedInv'
  <1>1. policy = "round robin" /\ ready_queue # <<>> /\ policy' = policy /\ quantum' = quantum
    BY DEF Scheduler!RoundRobinSlice
  <1>2. SchedTyped /\ RobinInv /\ Counted(procs, completed, current_time)
    BY <1>1 DEF SchedInv
  <1>3. current_time \in Nat /\ quantum \in Nat \ {0} /\ completed \in Nat
    <2>1. current_time \in Nat /\ quantum \in Nat \ {0}
      BY <1>2 DEF SchedTyped, RobinInv
    <2>2. Done(procs) \in SUBSET (DOMAIN procs) /\ completed = Cardinality(Done(procs))
      BY <1>2 DEF Done, Counted
    <2>3. IsFiniteSet(Done(procs))
      BY <1>2, <2>2, ProcsTyped, FS_Subset
    <2> QED
      BY <2>1, <2>2, <2>3, FS_CardinalityType
  <1>4. PICK idx : idx = Head(ready_queue)
    OBVIOUS
  <1>5. PICK R : R = Ready(procs, in_queue)
    OBVIOUS
  <1>6. Enumerates(ready_queue, R) /\ R \in SUBSET (DOMAIN procs) /\ R \in SUBSET in_queue
    BY <1>2, <1>5 DEF RobinInv, Ready
  <1>7. idx \in DOMAIN procs /\ idx \in in_queue /\ idx \in R /\ procs[idx].remaining_time > 0
    <2>1. idx \in R
      BY <1>1, <1>4, <1>6, TailLists
    <2> QED
      BY <1>5, <1>6, <2>1 DEF Ready
  <1>8. \A i \in DOMAIN procs : /\ i \in Nat /\ procs[i] \in Runnable /\ since[i] \in Nat
                                /\ procs[i].arrival_time \in Nat /\ procs[i].burst_time \in Nat /\ procs[i].burst_time > 0
                                /\ procs[i].remaining_time \in Nat /\ procs[i].first_run_time \in Int
    BY <1>2, ProcsTyped, ProcessParts
  <1>9. PICK r : r = Scheduler!Min({quantum, procs[idx].remaining_time})
    OBVIOUS
  <1>10. r \in Nat /\ r > 0 /\ r <= quantum /\ r <= procs[idx].remaining_time
    <2>1. r = Min({quantum, procs[idx].remaining_time})
      BY <1>9 DEF Scheduler!Min, Min
    <2>2. quantum \in Nat /\ procs[idx].remaining_time \in Nat
      BY <1>3, <1>7, <1>8
    <2>3. r \in {quantum, procs[idx].remaining_time} /\ r <= quantum /\ r <= procs[idx].remaining_time
      BY <2>1, <2>2, MinOfTwo
    <2> QED
      BY <1>3, <1>7, <2>2, <2>3
  <1>11. PICK now \in Nat : now = current_time + r
    BY <1>3, <1>10
  <1>12. PICK p : p = Scheduler!Ran(procs[idx], current_time, r)
    OBVIOUS
  <1>13. /\ p \in Runnable /\ p.arrival_time = procs[idx].arrival_time /\ p.burst_time = procs[idx].burst_time
         /\ p.remaining_time = procs[idx].remaining_time - r
         /\ p.first_run_time = IF procs[idx].first_run_time < 0 THEN current_time ELSE procs[idx].first_run_time
         /\ procs[idx].remaining_time = r => p.completion_time = current_time + r
    BY <1>3, <1>7, <1>8, <1>10, <1>12, RanParts
  <1>14. PICK done \in BOOLEAN : done <=> procs[idx].remaining_time = r
    OBVIOUS
  <1>15. /\ procs' = WithProcess(idx, p) /\ current_time' = current_time + r
         /\ in_queue' = in_queue \cup Scheduler!Newcomers(procs', now)
         /\ ready_queue' = Scheduler!Requeue(Tail(ready_queue), Scheduler!InOrder(Scheduler!Newcomers(procs', now)), idx,
                                             procs[idx].remaining_time = r)
         /\ completed' = completed + (IF done THEN 1 ELSE 0)
         /\ since' = [since EXCEPT ![idx] = now]
    BY <1>4, <1>9, <1>11, <1>12, <1>14 DEF Scheduler!RoundRobinSlice, WithProcess
  <1>16. (done <=> p.remaining_time = 0) /\ p.remaining_time \in Nat
    BY <1>7, <1>8, <1>10, <1>13, <1>14
  <1>17. completed' = IF p.remaining_time = 0 THEN completed + 1 ELSE completed
    BY <1>3, <1>15, <1>16
  <1>18. /\ Counted(procs', completed', current_time')
         /\ procs' \in Seq(Runnable) /\ DOMAIN procs' = DOMAIN procs /\ Len(procs') = Len(procs)
         /\ procs'[idx] = p /\ \A i \in DOMAIN procs : i # idx => procs'[i] = procs[i]
    BY <1>2, <1>7, <1>10, <1>13, <1>15, <1>17, RunCounted
  <1>19. PICK new : new = Scheduler!Newcomers(procs', now)
    OBVIOUS
  <1>20. current_time <= now
    BY <1>3, <1>10, <1>11
  <1>21. /\ IsFiniteSet(new) /\ new \in SUBSET Nat
         /\ \A i : i \in new <=> i \in DOMAIN procs /\ i \notin in_queue /\ procs[i].arrival_time <= now
         /\ \A i \in new : /\ i \in DOMAIN procs /\ current_time < procs[i].arrival_time /\ procs[i].arrival_time <= now
                           /\ since[i] = procs[i].arrival_time /\ procs[i].remaining_time = procs[i].burst_time
    <2>1. PICK ps : ps = procs'
      OBVIOUS
    <2>2. DOMAIN ps = DOMAIN procs /\ \A i \in DOMAIN procs \ in_queue : ps[i] = procs[i]
      BY <1>7, <1>18, <2>1
    <2>3. new = Scheduler!Newcomers(ps, now)
      BY <1>19, <2>1
    <2> QED
      BY <1>2, <1>20, <2>2, <2>3, NewcomersArrive
  <1>22. in_queue' = in_queue \cup new
    BY <1>15, <1>19
  <1>23. PICK t : t = Scheduler!InOrder(new)
    OBVIOUS
  <1>24. ready_queue' = Scheduler!Requeue(Tail(ready_queue), t, idx, done)
    <2>1. done = (procs[idx].remaining_time = r)
      BY <1>14
    <2> QED
      BY <1>15, <1>19, <1>23, <2>1
  <1>25. Enumerates(t, new) /\ R \cap new = {}
    BY <1>6, <1>21, <1>23, InOrderLists
  <1>26. /\ Enumerates(ready_queue', ((R \ {idx}) \cup new) \cup (IF done THEN {} ELSE {idx}))
         /\ Enumerates(Tail(ready_queue) \o t, (R \ {idx}) \cup new)
         /\ \A k \in 1 .. Len(ready_queue') :
                \/ k + 1 \in 1 .. Len(ready_queue) /\ ready_queue'[k] = ready_queue[k + 1] /\ ready_queue'[k] # idx
                \/ ready_queue'[k] \in new /\ k <= Len(Tail(ready_queue) \o t)
                \/ ready_queue'[k] = idx /\ k = Len(Tail(ready_queue) \o t) + 1
    <2>1. Sliced(Scheduler!Requeue(Tail(ready_queue), t, Head(ready_queue), done), ready_queue, R, t, new, done)
      BY <1>1, <1>6, <1>25, SliceQueue, Zenon
    <2>2. Sliced(ready_queue', ready_queue, R, t, new, done)
      BY <1>4, <1>24, <2>1
    <2> QED
      BY <1>4, <2>2, Zenon DEF Sliced
  <1>27. since' \in [DOMAIN procs -> Nat] /\ since'[idx] = now /\ \A i \in DOMAIN procs : i # idx => since'[i] = since[i]
    <2>1. since \in [DOMAIN procs -> Nat]
      BY <1>2 DEF SchedTyped
    <2> QED
      BY <1>7, <1>15, <2>1
  <1>28. SchedTyped'
    <2>1. in_queue' \subseteq DOMAIN procs
      BY <1>2, <1>21, <1>22 DEF SchedTyped
    <2>2. current_time' \in Nat
      BY <1>11, <1>15
    <2> QED
      BY <1>1, <1>2, <1>18, <1>27, <2>1, <2>2 DEF SchedTyped
  <1>29. RobinProcess(idx, procs[idx], in_queue, since, current_time) /\ Account(procs[idx], current_time)
    BY <1>2, <1>7 DEF RobinInv, SchedInv
  <1>30. /\ procs[idx].arrival_time <= current_time
         /\ procs[idx].arrival_time + (procs[idx].burst_time - procs[idx].remaining_time) <= current_time
         /\ procs[idx].first_run_time < 0 \/ (procs[idx].arrival_time <= procs[idx].first_run_time
                                             /\ procs[idx].first_run_time <= current_time)
         /\ procs[idx].remaining_time <= procs[idx].burst_time
    BY <1>7, <1>29 DEF RobinProcess, Account
  <1>31. /\ p.first_run_time \in Int /\ p.arrival_time <= p.first_run_time /\ p.first_run_time <= now
         /\ p.arrival_time <= now /\ p.arrival_time + (p.burst_time - p.remaining_time) <= now
         /\ p.remaining_time <= p.burst_time
         /\ p.remaining_time = 0 => p.completion_time = now /\ p.arrival_time + p.burst_time <= now
    <2>1. p.first_run_time \in Int /\ p.arrival_time <= p.first_run_time /\ p.first_run_time <= now
      BY <1>3, <1>7, <1>8, <1>11, <1>13, <1>20, <1>30
    <2>2. p.arrival_time <= now /\ p.arrival_time + (p.burst_time - p.remaining_time) <= now
      BY <1>3, <1>7, <1>8, <1>10, <1>11, <1>13, <1>30
    <2>3. p.remaining_time <= p.burst_time
      BY <1>7, <1>8, <1>10, <1>13, <1>30
    <2>4. ASSUME p.remaining_time = 0 PROVE p.completion_time = now /\ p.arrival_time + p.burst_time <= now
      BY <1>7, <1>8, <1>11, <1>13, <1>14, <1>16, <2>2, <2>4
    <2> QED
      BY <2>1, <2>2, <2>3, <2>4
  <1>32. ASSUME NEW i \in DOMAIN procs PROVE Account(procs'[i], now)
    <2>1. CASE i = idx
      BY <1>11, <1>18, <1>31, <2>1 DEF Account
    <2>2. CASE i # idx
      <3>1. Account(procs[i], current_time)
        BY DEF SchedInv
      <3>2. Account(procs[i], now)
        BY <1>3, <1>8, <1>20, <3>1, AccountLater
      <3> QED
        BY <1>18, <2>2, <3>2
    <2> QED
      BY <2>1, <2>2
  <1>33. ASSUME NEW i \in DOMAIN procs PROVE RobinProcess(i, procs'[i], in_queue', since', now)
    <2>1. CASE i = idx
      <3>1. idx \in in_queue'
        BY <1>7, <1>22
      <3> QED
        BY <1>18, <1>31, <2>1, <3>1 DEF RobinProcess
    <2>2. CASE i # idx
      <3>1. RobinProcess(i, procs[i], in_queue, since, current_time)
        BY <1>2 DEF RobinInv
      <3>2. RobinProcess(i, procs[i], in_queue', since, now)
        BY <3>1, <1>3, <1>8, <1>20, <1>21, <1>22, ProcessLater
      <3>3. since'[i] = since[i]
        BY <1>27, <2>2
      <3> QED
        BY <1>18, <2>2, <3>2, <3>3 DEF RobinProcess
    <2> QED
      BY <2>1, <2>2
  <1>34. Ready(procs', in_queue') = ((R \ {idx}) \cup new) \cup (IF done THEN {} ELSE {idx})
    <2>1. \A i \in new : procs[i].remaining_time > 0 /\ i # idx
      BY <1>7, <1>8, <1>21
    <2>2. procs'[idx].remaining_time > 0 <=> ~done
      BY <1>16, <1>18
    <2>3. \A i \in DOMAIN procs : i # idx => (i \in Ready(procs', in_queue') <=> i \in R \/ i \in new)
      BY <1>5, <1>18, <1>22, <2>1 DEF Ready
    <2>4. idx \in Ready(procs', in_queue') <=> ~done
      BY <1>7, <1>18, <1>22, <2>2 DEF Ready
    <2>5. Ready(procs', in_queue') \subseteq DOMAIN procs
      BY <1>18 DEF Ready
    <2> QED
      BY <1>6, <1>7, <1>21, <2>1, <2>3, <2>4, <2>5
  <1>35. Scheduler!BoundedWait'
    <2>1. DOMAIN ready_queue' = 1 .. Len(ready_queue') /\ Len(ready_queue') \in Nat
      BY <1>26, LenProperties DEF Enumerates
    <2>2. PICK w : w = Len(Tail(ready_queue) \o t)
      OBVIOUS
    <2>3. w \in Nat /\ w <= Len(procs) - 1 /\ Len(procs) \in Nat
      <3>1. (R \ {idx}) \cup new \in SUBSET (DOMAIN procs) /\ idx \in DOMAIN procs \ ((R \ {idx}) \cup new)
        BY <1>6, <1>7, <1>21
      <3> QED
        BY <1>2, <1>26, <2>2, <3>1, QueueFits, ProcsTyped
    <2> SUFFICES ASSUME NEW k \in 1 .. Len(ready_queue')
                 PROVE  now - since'[ready_queue'[k]] + (k - 1) * quantum <= (Len(procs) - 1) * quantum
      BY <1>1, <1>11, <1>15, <1>18, <2>1 DEF Scheduler!BoundedWait
    <2>4. PICK whole \in Int : whole = (Len(procs) - 1) * quantum
      BY <1>3, <2>3
    <2>5. PICK ahead \in Int : ahead = (k - 1) * quantum
      BY <1>3
    <2>6. k * quantum = ahead + quantum
      BY <1>3, <2>5, SMTT(20)
    <2>7. CASE k + 1 \in 1 .. Len(ready_queue) /\ ready_queue'[k] = ready_queue[k + 1] /\ ready_queue'[k] # idx
      <3>1. PICK i : i = ready_queue[k + 1]
        OBVIOUS
      <3>2. i \in DOMAIN procs /\ k + 1 \in DOMAIN ready_queue
        BY <1>6, <2>7, <3>1, ElementOfSeq, LenProperties DEF Enumerates
      <3>3. current_time - since[i] + ((k + 1) - 1) * quantum <= whole
        BY <1>2, <2>4, <3>1, <3>2 DEF RobinInv, Scheduler!BoundedWait
      <3>4. current_time - since[i] + (ahead + quantum) <= whole
        BY <2>6, <3>3
      <3>5. since'[i] = since[i] /\ since[i] \in Nat
        BY <1>8, <1>27, <2>7, <3>1, <3>2
      <3>6. now - since[i] + ahead <= whole
        <4>1. whole \in Int /\ ahead \in Int /\ r \in Nat /\ r <= quantum
          BY <1>10
        <4>2. PICK x \in Nat : x = since[i]
          BY <3>5
        <4>3. current_time - x + (ahead + quantum) <= whole
          BY <3>4, <4>2
        <4>4. now - x + ahead <= whole
          BY <1>3, <1>11, <4>1, <4>3
        <4> QED
          BY <4>2, <4>4
      <3> QED
        BY <2>4, <2>5, <2>7, <3>1, <3>5, <3>6
    <2>8. CASE ready_queue'[k] \in new /\ k <= w
      <3>1. PICK i : i = ready_queue'[k]
        OBVIOUS
      <3>2. i \in DOMAIN procs /\ i # idx /\ since[i] = procs[i].arrival_time /\ current_time < procs[i].arrival_time
        BY <1>7, <1>21, <2>8, <3>1
      <3>3. since'[i] = since[i] /\ since[i] \in Nat /\ current_time < since[i]
        BY <1>8, <1>27, <3>2
      <3>4. k \in Int /\ Len(procs) - 1 \in Int /\ k <= Len(procs) - 1 /\ quantum \in Nat
        BY <1>3, <2>3, <2>8
      <3>5. k * quantum <= whole
        BY <2>4, <3>4, SlotsApart
      <3>6. now - since[i] + ahead <= whole
        BY <1>3, <1>10, <1>11, <2>4, <2>5, <2>6, <3>3, <3>5
      <3> QED
        BY <2>4, <2>5, <3>1, <3>3, <3>6
    <2>9. CASE ready_queue'[k] = idx /\ k = w + 1
      <3>1. k - 1 \in Int /\ Len(procs) - 1 \in Int /\ k - 1 <= Len(procs) - 1 /\ quantum \in Nat
        BY <1>3, <2>3, <2>9
      <3>2. ahead <= whole
        BY <2>4, <2>5, <3>1, SlotsApart
      <3>3. since'[ready_queue'[k]] = now
        BY <1>27, <2>9
      <3>4. now - now + ahead <= whole
        BY <1>11, <2>4, <2>5, <3>2
      <3> QED
        BY <2>4, <2>5, <3>3, <3>4
    <2> QED
      BY <1>26, <2>2, <2>7, <2>8, <2>9
  <1>36. RobinInv'
    <2>1. \A i \in DOMAIN procs' : RobinProcess(i, procs'[i], in_queue', since', current_time')
      BY <1>11, <1>15, <1>18, <1>33
    <2>2. Enumerates(ready_queue', Ready(procs', in_queue'))
      BY <1>26, <1>34
    <2> QED
      BY <1>1, <1>3, <1>35, <2>1, <2>2 DEF RobinInv
  <1>37. \A i \in DOMAIN procs' : Account(procs'[i], current_time')
    BY <1>11, <1>15, <1>18, <1>32
  <1> QED
    BY <1>1, <1>18, <1>28, <1>36, <1>37 DEF SchedInv

(* While no candidate has arrived, the priority policy waits. *)
LEMMA PriorityIdles ==
    ASSUME SchedInv, Scheduler!PriorityIdle PROVE SchedInv'
  <1>1. /\ policy = "priority" /\ current_time' = current_time + 1 /\ policy' = policy /\ quantum' = quantum
        /\ procs' = procs /\ ready_queue' = ready_queue /\ in_queue' = in_queue /\ completed' = completed /\ since' = since
    BY DEF Scheduler!PriorityIdle
  <1>2. SchedTyped /\ PriorityInv /\ current_time \in Nat
    BY <1>1 DEF SchedInv, SchedTyped
  <1>3. current_time' \in Nat /\ current_time <= current_time'
    BY <1>1, <1>2
  <1>4. SchedTyped'
    BY <1>1, <1>2, <1>3 DEF SchedTyped
  <1>5. ASSUME NEW i \in DOMAIN procs PROVE Account(procs[i], current_time')
    <2>1. Account(procs[i], current_time) /\ procs[i] \in Runnable
      BY <1>2, ProcsTyped DEF SchedInv
    <2> QED
      BY <1>2, <1>3, <2>1, AccountLater
  <1>6. Counted(procs, completed, current_time')
    <2>1. Scheduler!TimeUsed(procs) \in Int
      BY <1>2, UsedType
    <2>2. Scheduler!TimeUsed(procs) <= current_time /\ completed = Cardinality(Done(procs))
      BY DEF SchedInv, Counted
    <2>3. Scheduler!TimeUsed(procs) <= current_time'
      BY <1>2, <1>3, <2>1, <2>2
    <2> QED
      BY <2>2, <2>3 DEF Counted
  <1>7. PriorityInv'
    BY <1>1, <1>2 DEF PriorityInv
  <1> QED
    BY <1>1, <1>4, <1>5, <1>6, <1>7 DEF SchedInv

(* There is a first one among the candidates of the smallest priority number. *)
LEMMA BestChosen ==
    ASSUME SchedTyped, Scheduler!Candidates # {},
           NEW low \in Int, \A i \in Scheduler!Candidates : low <= procs[i].priority
    PROVE  /\ Scheduler!Best \in Scheduler!Candidates
           /\ \A j \in Scheduler!Candidates : procs[Scheduler!Best].priority <= procs[j].priority
  <1>1. PICK C : C = Scheduler!Candidates
    OBVIOUS
  <1>2. \A i \in C : i \in DOMAIN procs /\ i \in Nat /\ procs[i].priority \in Int
    BY <1>1, ProcsTyped, ProcessParts DEF Scheduler!Candidates, Scheduler!Procs
  <1> DEFINE N == {n \in Nat : \E i \in C : procs[i].priority = low + n}
  <1>3. N # {}
    <2>1. PICK i \in C : TRUE
      BY <1>1
    <2>2. procs[i].priority - low \in Nat /\ procs[i].priority = low + (procs[i].priority - low)
      BY <1>1, <1>2, <2>1
    <2> QED
      BY <2>1, <2>2
  <1>4. PICK n \in N : \A m \in N : ~(m < n)
    BY <1>3, LeastNumber
  <1>5. \A j \in C : low + n <= procs[j].priority
    <2> SUFFICES ASSUME NEW j \in C PROVE low + n <= procs[j].priority
      OBVIOUS
    <2>1. procs[j].priority - low \in Nat /\ procs[j].priority = low + (procs[j].priority - low)
      BY <1>1, <1>2
    <2>2. procs[j].priority - low \in N
      BY <2>1
    <2>3. ~(procs[j].priority - low < n)
      BY <1>4, <2>2
    <2>4. n \in Nat /\ procs[j].priority \in Int
      BY <1>2
    <2> QED
      BY <2>3, <2>4
  <1> DEFINE F == {i \in C : procs[i].priority = low + n}
  <1>6. F # {} /\ F \in SUBSET Nat
    BY <1>2
  <1>7. PICK i \in F : \A m \in F : ~(m < i)
    BY <1>6, LeastNumber
  <1>8. ASSUME NEW j \in C
        PROVE  procs[i].priority < procs[j].priority \/ (procs[i].priority = procs[j].priority /\ i <= j)
    <2>1. low + n <= procs[j].priority /\ procs[j].priority \in Int /\ i \in Nat /\ j \in Nat /\ n \in Nat
      BY <1>2, <1>5
    <2>2. CASE procs[j].priority = low + n
      BY <1>7, <2>1, <2>2
    <2>3. CASE procs[j].priority # low + n
      BY <1>7, <2>1, <2>3
    <2> QED
      BY <2>2, <2>3
  <1>9. i \in C
    OBVIOUS
  <1> HIDE DEF F, N
  <1>10. /\ Scheduler!Best \in C
         /\ \A j \in C : \/ procs[Scheduler!Best].priority < procs[j].priority
                         \/ procs[Scheduler!Best].priority = procs[j].priority /\ Scheduler!Best <= j
    BY <1>1, <1>8, <1>9 DEF Scheduler!Best
  <1>11. \A j \in C : procs[Scheduler!Best].priority <= procs[j].priority
    BY <1>2, <1>10
  <1> QED
    BY <1>1, <1>10, <1>11

(* Some number is at most every priority. *)
LEMMA LowestPriority ==
    ASSUME SchedTyped PROVE \E low \in Int : \A i \in DOMAIN procs : low <= procs[i].priority
  <1>1. Len(procs) \in Nat /\ DOMAIN procs = 1 .. Len(procs) /\ \A i \in 1 .. Len(procs) : procs[i].priority \in Int
    BY ProcsTyped, ProcessParts
  <1> DEFINE Fine(n) == \E low \in Int : \A i \in 1 .. n : low <= procs[i].priority
             Wrong == {n \in Nat : n <= Len(procs) /\ ~Fine(n)}
  <1>2. Wrong = {}
    <2> SUFFICES ASSUME Wrong # {} PROVE FALSE
      OBVIOUS
    <2>1. PICK n \in Wrong : \A m \in Wrong : ~(m < n)
      BY LeastNumber
    <2>2. n \in Nat /\ n <= Len(procs) /\ ~Fine(n)
      OBVIOUS
    <2>3. n # 0
      <3>1. Fine(0)
        <4>1. 0 \in Int /\ \A i \in 1 .. 0 : 0 <= procs[i].priority
          OBVIOUS
        <4> QED
          BY <4>1
      <3> HIDE DEF Fine
      <3> QED
        BY <2>2, <3>1
    <2>4. n - 1 \in Nat /\ n - 1 < n /\ n - 1 <= Len(procs)
      BY <1>1, <2>2, <2>3
    <2>5. Fine(n - 1)
      <3> HIDE DEF Fine
      <3> QED
        BY <2>1, <2>4
    <2>6. PICK low \in Int : \A i \in 1 .. n - 1 : low <= procs[i].priority
      BY <2>5
    <2>7. PICK x \in Int : x = procs[n].priority
      <3>1. n \in 1 .. Len(procs)
        BY <1>1, <2>2, <2>3
      <3> QED
        BY <1>1, <3>1
    <2> DEFINE least == IF low <= x THEN low ELSE x
    <2>8. \A i \in 1 .. n : least <= procs[i].priority
      <3> SUFFICES ASSUME NEW i \in 1 .. n PROVE least <= procs[i].priority
        OBVIOUS
      <3>1. CASE i = n
        <4>1. least <= x
          OBVIOUS
        <4> QED
          BY <2>7, <3>1, <4>1
      <3>2. CASE i # n
        <4>1. i \in 1 .. n - 1 /\ i \in 1 .. Len(procs)
          BY <1>1, <2>2, <3>2
        <4>2. low <= procs[i].priority /\ procs[i].priority \in Int
          BY <1>1, <2>6, <4>1
        <4>3. PICK y \in Int : y = procs[i].priority /\ low <= y
          BY <4>2
        <4>4. low <= y
          BY <4>3
        <4>5. least <= low
          OBVIOUS
        <4>6. least \in Int
          OBVIOUS
        <4> HIDE DEF least
        <4>7. least <= y
          BY <4>4, <4>5, <4>6
        <4> QED
          BY <4>3, <4>7
      <3> QED
        BY <3>1, <3>2
    <2>9. least \in Int
      OBVIOUS
    <2> HIDE DEF least
    <2> QED
      BY <2>2, <2>8, <2>9
  <1>3. Len(procs) <= Len(procs)
    BY <1>1
  <1>4. Fine(Len(procs))
    <2> HIDE DEF Fine
    <2> QED
      BY <1>1, <1>2, <1>3
  <1> QED
    BY <1>1, <1>4

(* The chosen process runs to completion. *)
RunToEnd(p, from) ==
    [p EXCEPT !.first_run_time = from, !.completion_time = from + p.burst_time, !.remaining_time = 0]

LEMMA EndParts ==
    ASSUME NEW p \in Runnable, NEW from \in Nat
    PROVE  /\ RunToEnd(p, from) \in Runnable /\ RunToEnd(p, from).arrival_time = p.arrival_time
           /\ RunToEnd(p, from).burst_time = p.burst_time /\ RunToEnd(p, from).priority = p.priority
           /\ RunToEnd(p, from).remaining_time = 0 /\ RunToEnd(p, from).first_run_time = from
           /\ RunToEnd(p, from).completion_time = from + p.burst_time
  <1>1. PICK end \in Nat : end = from + p.burst_time
    BY ProcessParts
  <1>2. PICK q : q = [p EXCEPT !.first_run_time = from, !.completion_time = end, !.remaining_time = 0]
    OBVIOUS
  <1>3. from \in Int /\ 0 \in Nat
    OBVIOUS
  <1>4. /\ q \in Runnable /\ q.arrival_time = p.arrival_time /\ q.burst_time = p.burst_time /\ q.priority = p.priority
        /\ q.remaining_time = 0 /\ q.first_run_time = from /\ q.completion_time = end
    BY <1>2, <1>3 DEF Runnable
  <1> QED
    BY <1>1, <1>2, <1>4 DEF RunToEnd

LEMMA PriorityRuns ==
    ASSUME SchedInv, Scheduler!PriorityRun PROVE SchedInv'
  <1>1. PICK best : best = Scheduler!Best
    OBVIOUS
  <1>2. PICK p : p = RunToEnd(procs[best], current_time)
    OBVIOUS
  <1>3. /\ policy = "priority" /\ Scheduler!Candidates # {} /\ policy' = policy /\ quantum' = quantum
        /\ current_time' = current_time + procs[best].burst_time /\ procs' = WithProcess(best, p)
        /\ in_queue' = in_queue \cup {best} /\ completed' = completed + 1 /\ ready_queue' = ready_queue /\ since' = since
    BY <1>1, <1>2 DEF Scheduler!PriorityRun, WithProcess, RunToEnd
  <1>4. SchedTyped /\ PriorityInv /\ Counted(procs, completed, current_time) /\ current_time \in Nat
    BY <1>3 DEF SchedInv, SchedTyped
  <1>5. /\ best \in Scheduler!Candidates
        /\ \A j \in Scheduler!Candidates : procs[best].priority <= procs[j].priority
    <2>1. PICK low \in Int : \A i \in DOMAIN procs : low <= procs[i].priority
      BY <1>4, LowestPriority
    <2>2. \A i \in Scheduler!Candidates : low <= procs[i].priority
      BY <2>1 DEF Scheduler!Candidates, Scheduler!Procs
    <2> QED
      BY <1>1, <1>3, <1>4, <2>1, <2>2, BestChosen
  <1>6. \A i : i \in Scheduler!Candidates <=>
            i \in DOMAIN procs /\ i \notin in_queue /\ procs[i].arrival_time <= current_time
    BY DEF Scheduler!Candidates, Scheduler!Procs
  <1>7. best \in DOMAIN procs /\ best \notin in_queue /\ procs[best].arrival_time <= current_time
    BY <1>5, <1>6
  <1>8. \A i \in DOMAIN procs : /\ procs[i] \in Runnable
                                /\ procs[i].arrival_time \in Nat /\ procs[i].burst_time \in Nat /\ procs[i].burst_time > 0
                                /\ procs[i].priority \in Int /\ procs[i].remaining_time \in Nat
                                /\ procs[i].completion_time \in Nat /\ procs[i].first_run_time \in Int
    BY <1>4, ProcsTyped, ProcessParts
  <1>9. /\ p \in Runnable /\ p.arrival_time = procs[best].arrival_time /\ p.burst_time = procs[best].burst_time
        /\ p.priority = procs[best].priority /\ p.remaining_time = 0 /\ p.first_run_time = current_time
        /\ p.completion_time = current_time'
    BY <1>2, <1>3, <1>4, <1>7, <1>8, EndParts
  <1>10. procs[best].remaining_time = procs[best].burst_time
    BY <1>4, <1>7 DEF PriorityInv
  <1>11. current_time' \in Nat /\ current_time < current_time' /\ p.arrival_time + p.burst_time <= current_time'
    BY <1>3, <1>4, <1>7, <1>8, <1>9
  <1>12. /\ Counted(procs', completed', current_time')
         /\ procs' \in Seq(Runnable) /\ DOMAIN procs' = DOMAIN procs /\ Len(procs') = Len(procs)
         /\ procs'[best] = p /\ \A i \in DOMAIN procs : i # best => procs'[i] = procs[i]
    <2>1. PICK r \in Nat : r = procs[best].burst_time
      BY <1>7, <1>8
    <2>2. /\ procs[best].remaining_time > 0 /\ p.remaining_time = procs[best].remaining_time - r
          /\ current_time' = current_time + r /\ completed' = IF p.remaining_time = 0 THEN completed + 1 ELSE completed
      BY <1>3, <1>7, <1>8, <1>9, <1>10, <2>1
    <2> QED
      BY <1>3, <1>4, <1>7, <1>9, <2>2, RunCounted
  <1>13. SchedTyped'
    <2>1. in_queue' \subseteq DOMAIN procs
      BY <1>3, <1>4, <1>7 DEF SchedTyped
    <2> QED
      BY <1>3, <1>4, <1>11, <1>12, <2>1 DEF SchedTyped
  <1>14. ASSUME NEW i \in DOMAIN procs PROVE Account(procs'[i], current_time')
    <2>1. CASE i = best
      BY <1>4, <1>7, <1>8, <1>9, <1>11, <1>12, <2>1 DEF Account
    <2>2. CASE i # best
      <3>1. current_time <= current_time'
        BY <1>4, <1>11
      <3>3. Account(procs[i], current_time)
        BY DEF SchedInv
      <3>2. Account(procs[i], current_time')
        BY <1>4, <1>8, <1>11, <3>1, <3>3, AccountLater
      <3> QED
        BY <1>12, <2>2, <3>2
    <2> QED
      BY <2>1, <2>2
  <1>15. PriorityInv'
    <2>1. \A i \in in_queue : /\ i \in DOMAIN procs /\ i # best /\ procs'[i] = procs[i]
                              /\ procs[i].first_run_time < procs[i].completion_time
                              /\ procs[i].completion_time <= current_time
      <3> SUFFICES ASSUME NEW i \in in_queue
                   PROVE  /\ i \in DOMAIN procs /\ i # best /\ procs'[i] = procs[i]
                          /\ procs[i].first_run_time < procs[i].completion_time
                          /\ procs[i].completion_time <= current_time
        OBVIOUS
      <3>1. i \in DOMAIN procs
        BY <1>4 DEF SchedTyped
      <3>2. procs[i].remaining_time = 0 /\ procs[i].first_run_time < procs[i].completion_time
        BY <1>4, <3>1 DEF PriorityInv
      <3>3. procs[i].completion_time <= current_time
        BY <3>1, <3>2 DEF SchedInv, Account
      <3> QED
        BY <1>7, <1>12, <3>1, <3>2, <3>3
    <2>2. ASSUME NEW i \in DOMAIN procs
          PROVE  IF i \in in_queue'
                 THEN procs'[i].remaining_time = 0 /\ procs'[i].first_run_time < procs'[i].completion_time
                 ELSE procs'[i].remaining_time = procs'[i].burst_time
      <3>1. CASE i = best
        BY <1>3, <1>9, <1>11, <1>12, <3>1
      <3>2. CASE i # best
        BY <1>3, <1>4, <1>12, <3>2 DEF PriorityInv
      <3> QED
        BY <3>1, <3>2
    <2>3. ASSUME NEW i \in in_queue', NEW j \in in_queue', i # j,
                 procs'[i].first_run_time <= procs'[j].first_run_time
          PROVE  procs'[i].completion_time <= procs'[j].first_run_time /\ AsImportant(procs'[i], procs'[j])
      <3>1. CASE i = best
        <4>1. j \in in_queue
          BY <1>3, <2>3, <3>1
        <4>2. current_time <= procs[j].first_run_time
          BY <1>9, <1>12, <2>1, <2>3, <3>1, <4>1
        <4> QED
          BY <1>4, <1>8, <2>1, <4>1, <4>2
      <3>2. CASE j = best
        <4>1. i \in in_queue /\ procs'[i] = procs[i] /\ procs'[j] = p
          BY <1>3, <1>12, <2>1, <2>3, <3>2
        <4>2. procs[i].completion_time <= p.first_run_time
          BY <1>9, <2>1, <4>1
        <4>3. AsImportant(procs[i], procs[best])
          BY <1>4, <1>7, <4>1 DEF PriorityInv
        <4>4. AsImportant(procs[i], p)
          BY <1>9, <4>3 DEF AsImportant
        <4> QED
          BY <4>1, <4>2, <4>4
      <3>3. CASE i # best /\ j # best
        <4>1. i \in in_queue /\ j \in in_queue /\ procs'[i] = procs[i] /\ procs'[j] = procs[j]
          BY <1>3, <2>1, <3>3
        <4> QED
          BY <1>4, <2>3, <4>1 DEF PriorityInv
      <3> QED
        BY <3>1, <3>2, <3>3
    <2>4. ASSUME NEW i \in in_queue', NEW j \in DOMAIN procs \ in_queue'
          PROVE  AsImportant(procs'[i], procs'[j])
      <3>1. j \notin in_queue /\ j # best /\ procs'[j] = procs[j]
        BY <1>3, <1>12
      <3>2. CASE i = best
        <4>1. procs[j].arrival_time <= current_time => procs[best].priority <= procs[j].priority
          BY <1>5, <1>6, <3>1
        <4> QED
          BY <1>9, <1>12, <3>1, <3>2, <4>1 DEF AsImportant
      <3>3. CASE i # best
        <4>1. i \in in_queue /\ procs'[i] = procs[i]
          BY <1>3, <2>1, <3>3
        <4>2. AsImportant(procs[i], procs[j])
          BY <1>4, <3>1, <4>1 DEF PriorityInv
        <4> QED
          BY <3>1, <4>1, <4>2
      <3> QED
        BY <3>2, <3>3
    <2>5. ready_queue' = <<>>
      BY <1>3, <1>4 DEF PriorityInv
    <2> QED
      BY <1>12, <2>2, <2>3, <2>4, <2>5 DEF PriorityInv
  <1> QED
    BY <1>3, <1>12, <1>13, <1>14, <1>15 DEF SchedInv

(* A process before it runs. *)
Fresh(p) ==
    /\ p \in Runnable /\ p.remaining_time = p.burst_time /\ p.first_run_time = -1

LEMMA WorkloadsFresh ==
    ASSUME NEW ps \in Scheduler!Workloads
    PROVE  ps \in Seq(Runnable) /\ \A i \in DOMAIN ps : Fresh(ps[i])
  <1>1. ASSUME NEW a \in Nat, NEW b \in Nat \ {0}, NEW p \in Int PROVE Fresh(Scheduler!Process(a, b, p))
    BY DEF Fresh, Runnable, Scheduler!Process
  <1>2. Arrivals \subseteq Nat /\ Bursts \subseteq Nat \ {0} /\ Priorities \subseteq Int /\ MaxProcesses \in Nat
    BY SystemsAssumption
  <1>3. CASE ps = Scheduler!MainProcesses
    <2>1. /\ Fresh(Scheduler!Process(0, 10, 3)) /\ Fresh(Scheduler!Process(1, 5, 1)) /\ Fresh(Scheduler!Process(2, 8, 4))
          /\ Fresh(Scheduler!Process(3, 3, 2)) /\ Fresh(Scheduler!Process(4, 6, 5))
      BY <1>1
    <2>2. \A p : Fresh(p) => p \in Runnable
      BY DEF Fresh
    <2> HIDE DEF Scheduler!Process
    <2>3. ps \in Seq({p \in Runnable : Fresh(p)})
      BY <1>3, <2>1, <2>2 DEF Scheduler!MainProcesses
    <2> QED
      BY <2>3, ElementOfSeq, LenProperties, SeqMonotonic
  <1>4. CASE ps # Scheduler!MainProcesses
    <2>1. PICK n \in 1 .. MaxProcesses :
              ps \in [1 .. n -> {Scheduler!Process(a, b, p) : a \in Arrivals, b \in Bursts, p \in Priorities}]
      <3> DEFINE P == {Scheduler!Process(a, b, p) : a \in Arrivals, b \in Bursts, p \in Priorities}
                 Families == {[1 .. n -> P] : n \in 1 .. MaxProcesses}
      <3>1. Scheduler!Workloads = {Scheduler!MainProcesses} \cup UNION Families
        BY DEF Scheduler!Workloads
      <3> HIDE DEF P
      <3>2. PICK family \in Families : ps \in family
        <4> HIDE DEF Families
        <4> QED
          BY <1>4, <3>1
      <3>3. PICK n \in 1 .. MaxProcesses : family = [1 .. n -> P]
        BY <3>2
      <3> QED
        BY <3>2, <3>3 DEF P
    <2>2. ASSUME NEW i \in 1 .. n PROVE Fresh(ps[i])
      <3>1. ps[i] \in {Scheduler!Process(a, b, p) : a \in Arrivals, b \in Bursts, p \in Priorities}
        BY <2>1
      <3>2. PICK a \in Arrivals, b \in Bursts, p \in Priorities : ps[i] = Scheduler!Process(a, b, p)
        BY <3>1
      <3> QED
        BY <1>1, <1>2, <3>2
    <2>3. ps \in [1 .. n -> Runnable] /\ n \in Nat /\ DOMAIN ps = 1 .. n
      BY <1>2, <2>1, <2>2 DEF Fresh
    <2>4. ps \in Seq(Runnable)
      BY <2>3, SeqDef
    <2> QED
      BY <2>2, <2>3, <2>4
  <1> QED
    BY <1>3, <1>4

(* The start of round robin: who is there at time 0 is queued. *)
LEMMA RobinStarts ==
    ASSUME SchedTyped, \A i \in DOMAIN procs : Fresh(procs[i]) /\ since[i] = procs[i].arrival_time,
           current_time = 0, quantum \in Nat \ {0},
           in_queue = {i \in DOMAIN procs : procs[i].arrival_time <= 0}, Enumerates(ready_queue, in_queue)
    PROVE  RobinInv
  <1>1. \A i \in DOMAIN procs : /\ procs[i].arrival_time \in Nat /\ procs[i].burst_time \in Nat /\ procs[i].burst_time > 0
                                /\ procs[i].remaining_time = procs[i].burst_time /\ procs[i].first_run_time = -1
    BY ProcsTyped, ProcessParts DEF Fresh
  <1>2. ASSUME NEW i \in DOMAIN procs PROVE RobinProcess(i, procs[i], in_queue, since, 0)
    <2>1. i \in in_queue <=> procs[i].arrival_time <= 0
      OBVIOUS
    <2>2. procs[i].arrival_time <= 0 => procs[i].arrival_time + (procs[i].burst_time - procs[i].remaining_time) <= 0
      BY <1>1
    <2>3. procs[i].first_run_time < 0
      BY <1>1
    <2> QED
      BY <1>1, <2>1, <2>2, <2>3 DEF RobinProcess
  <1>3. Ready(procs, in_queue) = in_queue
    BY <1>1 DEF Ready
  <1>4. Scheduler!BoundedWait
    <2>1. DOMAIN ready_queue = 1 .. Len(ready_queue) /\ \A k \in 1 .. Len(ready_queue) : ready_queue[k] \in in_queue
      BY LenProperties, ElementOfSeq DEF Enumerates
    <2>2. in_queue \in SUBSET (DOMAIN procs)
      OBVIOUS
    <2>3. Len(ready_queue) \in Nat /\ Len(ready_queue) <= Len(procs) /\ Len(procs) \in Nat
      BY <2>2, QueueFits, ProcsTyped
    <2> SUFFICES ASSUME NEW k \in 1 .. Len(ready_queue)
                 PROVE  0 - since[ready_queue[k]] + (k - 1) * quantum <= (Len(procs) - 1) * quantum
      BY <2>1 DEF Scheduler!BoundedWait
    <2>4. since[ready_queue[k]] = 0
      BY <1>1, <2>1
    <2>5. quantum \in Nat /\ k - 1 \in Int /\ Len(procs) - 1 \in Int /\ k - 1 <= Len(procs) - 1
      BY <2>3
    <2>6. (k - 1) * quantum \in Int /\ (Len(procs) - 1) * quantum \in Int /\ (k - 1) * quantum <= (Len(procs) - 1) * quantum
      BY <2>5, SlotsApart
    <2> QED
      BY <2>4, <2>6
  <1> QED
    BY <1>2, <1>3, <1>4 DEF RobinInv

LEMMA SchedInitial ==
    ASSUME Scheduler!Init PROVE SchedInv
  <1>1. /\ procs \in Scheduler!Workloads /\ current_time = 0 /\ completed = 0
        /\ since = [i \in DOMAIN procs |-> procs[i].arrival_time]
    BY DEF Scheduler!Init
  <1>2. procs \in Seq(Runnable) /\ \A i \in DOMAIN procs : Fresh(procs[i]) /\ since[i] = procs[i].arrival_time
    BY <1>1, WorkloadsFresh
  <1>3. DOMAIN procs = 1 .. Len(procs) /\ Len(procs) \in Nat
    BY <1>2, LenProperties
  <1>4. \A i \in DOMAIN procs : /\ i \in Nat /\ procs[i].arrival_time \in Nat /\ procs[i].burst_time \in Nat /\ procs[i].burst_time > 0
                                /\ procs[i].remaining_time = procs[i].burst_time
    BY <1>2, <1>3, ProcessParts DEF Fresh
  <1>5. since \in [DOMAIN procs -> Nat]
    BY <1>1, <1>4
  <1>6. Quanta \subseteq Nat \ {0}
    BY SystemsAssumption
  <1>7. \/ /\ policy = "round robin" /\ quantum \in Nat \ {0}
           /\ in_queue = {i \in DOMAIN procs : procs[i].arrival_time <= 0} /\ Enumerates(ready_queue, in_queue)
        \/ policy = "priority" /\ quantum = 0 /\ in_queue = {} /\ ready_queue = <<>>
    <2>1. CASE /\ policy = "round robin" /\ quantum \in Quanta
               /\ in_queue = {i \in DOMAIN procs : procs[i].arrival_time <= 0}
               /\ ready_queue = Scheduler!InOrder(in_queue)
      <3>1. in_queue \in SUBSET Nat /\ in_queue \in SUBSET (1 .. Len(procs))
        BY <1>3, <1>4, <2>1
      <3>2. IsFiniteSet(in_queue)
        <4>1. IsFiniteSet(1 .. Len(procs))
          BY <1>3, FS_Interval
        <4> QED
          BY <3>1, <4>1, FS_Subset
      <3>3. Enumerates(ready_queue, in_queue)
        BY <2>1, <3>1, <3>2, InOrderLists
      <3> QED
        BY <1>6, <2>1, <3>3
    <2>2. CASE /\ policy = "round robin" /\ quantum = 3 /\ procs = Scheduler!MainProcesses
               /\ in_queue = {1} /\ ready_queue = <<1>>
      <3>1. DOMAIN procs = 1 .. 5 /\ procs[1].arrival_time = 0 /\ procs[2].arrival_time = 1 /\ procs[3].arrival_time = 2
            /\ procs[4].arrival_time = 3 /\ procs[5].arrival_time = 4
        <4>1. \A a, b, p : Scheduler!Process(a, b, p).arrival_time = a
          BY DEF Scheduler!Process
        <4>2. /\ DOMAIN procs = 1 .. 5 /\ procs[1] = Scheduler!Process(0, 10, 3) /\ procs[2] = Scheduler!Process(1, 5, 1)
              /\ procs[3] = Scheduler!Process(2, 8, 4) /\ procs[4] = Scheduler!Process(3, 3, 2)
              /\ procs[5] = Scheduler!Process(4, 6, 5)
          <5>1. Len(procs) = 5
            BY <2>2 DEF Scheduler!MainProcesses
          <5> QED
            BY <1>3, <2>2, <5>1 DEF Scheduler!MainProcesses
        <4> QED
          BY <4>1, <4>2
      <3>2. \A i \in 1 .. 5 : i = 1 \/ i = 2 \/ i = 3 \/ i = 4 \/ i = 5
        OBVIOUS
      <3>3. {i \in DOMAIN procs : procs[i].arrival_time <= 0} = {1}
        BY <3>1, <3>2
      <3> QED
        <4>1. Enumerates(<<1>>, {1})
          BY ShortLists
        <4>2. 3 \in Nat \ {0}
          OBVIOUS
        <4> QED
          BY <2>2, <3>3, <4>1, <4>2
    <2> QED
      BY <2>1, <2>2 DEF Scheduler!Init
  <1>8. SchedTyped
    <2>1. in_queue \subseteq DOMAIN procs /\ policy \in {"round robin", "priority"} /\ quantum \in Nat
      <3>1. CASE policy = "priority" /\ quantum = 0 /\ in_queue = {}
        BY <3>1
      <3>2. CASE policy = "round robin" /\ quantum \in Nat \ {0} /\ in_queue = {i \in DOMAIN procs : procs[i].arrival_time <= 0}
        BY <3>2
      <3> QED
        BY <1>7, <3>1, <3>2
    <2> QED
      BY <1>1, <1>2, <1>5, <2>1 DEF SchedTyped
  <1>9. \A i \in DOMAIN procs : Account(procs[i], current_time)
    BY <1>4 DEF Account
  <1>10. Counted(procs, completed, current_time)
    <2>1. Done(procs) = {}
      BY <1>4 DEF Done
    <2>2. Cardinality(Done(procs)) = 0
      BY <2>1, FS_EmptySet
    <2>3. \A i \in DOMAIN procs : UsedBy(procs)[i] = 0
      BY <1>4 DEF UsedBy
    <2>4. IsFiniteSet(DOMAIN procs)
      BY <1>8, ProcsTyped
    <2>5. Scheduler!TimeUsed(procs) = 0
      BY <2>3, <2>4, SumZero, UsedTotal
    <2> QED
      BY <1>1, <2>2, <2>5 DEF Counted
  <1>11. policy = "round robin" => RobinInv
    BY <1>1, <1>2, <1>7, <1>8, RobinStarts
  <1>12. policy = "priority" => PriorityInv
    BY <1>4, <1>7 DEF PriorityInv
  <1> QED
    BY <1>8, <1>9, <1>10, <1>11, <1>12 DEF SchedInv

LEMMA SchedNext ==
    ASSUME SchedInv, [Scheduler!Next]_(Scheduler!vars) PROVE SchedInv'
  <1>1. CASE UNCHANGED Scheduler!vars
    BY <1>1 DEF Scheduler!vars, SchedInv, SchedTyped, Counted, RobinInv, PriorityInv, Scheduler!BoundedWait
  <1> QED
    BY <1>1, RobinIdles, RobinSlices, PriorityIdles, PriorityRuns DEF Scheduler!Next, Scheduler!Step

(* Every process that has arrived and is not done is in the queue once. *)
LEMMA QueueConserves ==
    ASSUME SchedInv PROVE Scheduler!WorkConserving
  <1> SUFFICES ASSUME policy = "round robin", NEW i \in DOMAIN procs
               PROVE  Cardinality({k \in DOMAIN ready_queue : ready_queue[k] = i}) =
                          IF procs[i].arrival_time <= current_time /\ procs[i].remaining_time > 0 THEN 1 ELSE 0
    BY DEF Scheduler!WorkConserving, Scheduler!Procs, Scheduler!Cardinality, Cardinality
  <1> DEFINE places == {k \in DOMAIN ready_queue : ready_queue[k] = i}
  <1>1. RobinInv
    BY DEF SchedInv
  <1>2. Enumerates(ready_queue, Ready(procs, in_queue)) /\ DOMAIN ready_queue = 1 .. Len(ready_queue)
    BY <1>1, LenProperties DEF RobinInv, Enumerates
  <1>3. i \in Ready(procs, in_queue) <=> procs[i].arrival_time <= current_time /\ procs[i].remaining_time > 0
    BY <1>1 DEF RobinInv, RobinProcess, Ready
  <1>4. CASE i \in Ready(procs, in_queue)
    <2>1. PICK k \in 1 .. Len(ready_queue) : ready_queue[k] = i
      BY <1>2, <1>4 DEF Enumerates
    <2>2. \A l \in 1 .. Len(ready_queue) : ready_queue[l] = i => l = k
      BY <1>2, <2>1 DEF Enumerates
    <2>3. places = {k}
      BY <1>2, <2>1, <2>2
    <2> QED
      BY <1>3, <1>4, <2>3, FS_Singleton
  <1>5. CASE i \notin Ready(procs, in_queue)
    <2>1. \A k \in 1 .. Len(ready_queue) : ready_queue[k] \in Ready(procs, in_queue)
      BY <1>2, ElementOfSeq DEF Enumerates
    <2>2. places = {}
      BY <1>2, <1>5, <2>1
    <2> QED
      BY <1>3, <1>5, <2>2, FS_EmptySet
  <1> QED
    BY <1>4, <1>5

LEMMA SchedulesFollow ==
    ASSUME SchedInv PROVE Scheduler!SchedulesSound
  <1>1. SchedTyped /\ policy \in {"round robin", "priority"} /\ current_time \in Nat
    BY DEF SchedInv, SchedTyped
  <1>2. /\ IsFiniteSet(DOMAIN procs) /\ Cardinality(DOMAIN procs) = Len(procs) /\ Len(procs) \in Nat
        /\ \A i \in DOMAIN procs : procs[i] \in Runnable
    BY <1>1, ProcsTyped
  <1>3. completed = Cardinality(Done(procs)) /\ Scheduler!TimeUsed(procs) <= current_time
    BY DEF SchedInv, Counted
  <1>4. completed \in 0 .. Len(procs)
    <2>1. Done(procs) \in SUBSET (DOMAIN procs)
      BY DEF Done
    <2>2. IsFiniteSet(Done(procs)) /\ Cardinality(Done(procs)) <= Len(procs)
      BY <1>2, <2>1, FS_Subset
    <2>3. Cardinality(Done(procs)) \in Nat
      BY <2>2, FS_CardinalityType
    <2> QED
      BY <1>2, <1>3, <2>2, <2>3
  <1>5. ready_queue \in Seq(DOMAIN procs) /\ Scheduler!BoundedWait
    <2>1. CASE policy = "round robin"
      <3>1. Enumerates(ready_queue, Ready(procs, in_queue)) /\ Scheduler!BoundedWait
        BY <2>1 DEF SchedInv, RobinInv
      <3>2. Ready(procs, in_queue) \subseteq DOMAIN procs
        BY DEF Ready
      <3> QED
        BY <3>1, <3>2, SeqMonotonic DEF Enumerates
    <2>2. CASE policy = "priority"
      <3>1. ready_queue = <<>>
        BY <2>2 DEF SchedInv, PriorityInv
      <3> QED
        BY <3>1 DEF Scheduler!BoundedWait
    <2> QED
      BY <1>1, <2>1, <2>2
  <1>6. Scheduler!TypeOK
    BY <1>1, <1>4, <1>5 DEF SchedTyped, Scheduler!TypeOK, Scheduler!Procs
  <1>7. Scheduler!MostImportantFirst
    BY DEF SchedInv, PriorityInv, AsImportant, Scheduler!MostImportantFirst
  <1>8. Scheduler!AccountsBalance
    <2>1. completed = Cardinality({i \in DOMAIN procs : procs[i].remaining_time = 0})
      BY <1>3 DEF Done
    <2>2. ASSUME NEW i \in DOMAIN procs, procs[i].remaining_time = 0
          PROVE  /\ Scheduler!Waiting(procs[i]) >= 0 /\ procs[i].completion_time <= current_time
                 /\ procs[i].first_run_time \in procs[i].arrival_time .. procs[i].completion_time
      <3>1. Account(procs[i], current_time)
        BY DEF SchedInv
      <3>2. /\ procs[i].arrival_time + procs[i].burst_time <= procs[i].completion_time
            /\ procs[i].completion_time <= current_time
            /\ procs[i].arrival_time <= procs[i].first_run_time /\ procs[i].first_run_time <= procs[i].completion_time
        BY <2>2, <3>1 DEF Account
      <3>3. /\ procs[i].arrival_time \in Nat /\ procs[i].burst_time \in Nat
            /\ procs[i].completion_time \in Nat /\ procs[i].first_run_time \in Int
        BY <1>2, ProcessParts
      <3>4. (procs[i].completion_time - procs[i].arrival_time) - procs[i].burst_time >= 0
        BY <3>2, <3>3
      <3> QED
        BY <3>2, <3>3, <3>4 DEF Scheduler!Waiting, Scheduler!Turnaround
    <2> QED
      BY <1>3, <2>1, <2>2 DEF Scheduler!AccountsBalance, Scheduler!Procs, Scheduler!Cardinality, Cardinality
  <1> QED
    BY <1>5, <1>6, <1>7, <1>8, QueueConserves DEF Scheduler!SchedulesSound

-----------------------------------------------------------------------------
(* A behaviour of SystemsSpec is a behaviour of each program, which takes no
   step unless it is the chosen one. *)
LEMMA ChosenSteps ==
    ASSUME [SystemsNext]_systemsVars
    PROVE  /\ [Next]_vars /\ [Book!Next]_(Book!vars) /\ [Market!Next]_(Market!vars)
           /\ [Memory!Next]_(Memory!vars) /\ [Signals!Next]_(Signals!vars) /\ [Epoll!Next]_(Epoll!vars)
  <1>1. [Next]_vars
    BY DEF SystemsNext, systemsVars
  <1>2. [Book!Next]_(Book!vars)
    BY DEF SystemsNext, systemsVars, bookVars, Book!vars
  <1>3. [Market!Next]_(Market!vars)
    BY DEF SystemsNext, systemsVars, marketVars, Market!vars
  <1>4. [Memory!Next]_(Memory!vars)
    BY DEF SystemsNext, systemsVars, memoryVars, Memory!vars
  <1>5. [Signals!Next]_(Signals!vars)
    BY DEF SystemsNext, systemsVars, signalVars, Signals!vars
  <1>6. [Epoll!Next]_(Epoll!vars)
    BY DEF SystemsNext, systemsVars, epollVars, Epoll!vars
  <1> QED
    BY <1>1, <1>2, <1>3, <1>4, <1>5, <1>6

(* The composition implements the specification of every program in it. *)
THEOREM SystemsRefine ==
    SystemsSpec => /\ Spec /\ Book!Spec /\ Market!Spec /\ Memory!Spec /\ Epoll!Spec
                   /\ Signals!Init /\ [][Signals!Next]_(Signals!vars)
  <1>1. SystemsInit => Init /\ Book!Init /\ Market!Init /\ Memory!Init /\ Signals!Init /\ Epoll!Init
    BY DEF SystemsInit
  <1> QED
    BY <1>1, ChosenSteps, PTL DEF SystemsSpec, Spec, Book!Spec, Market!Spec, Memory!Spec, Epoll!Spec

(* In the composition, too: the order book follows no dangling iterator, keeps
   its orders within reach of cancelOrder, and reports its top (order_book.cpp). *)
THEOREM BookHolds == SystemsSpec => []BookSound
  <1>1. Book!BookSound => BookSound
    BY DEF BookSound
  <1> QED
    BY <1>1, SystemsRefine, BookCorrect, PTL

(* Every tick is in exactly one bar, which aggregates its ticks (market_data_handler.cpp). *)
THEOREM BarsHold == SystemsSpec => []BarsSound
  <1>1. Market!BarsSound => BarsSound
    BY DEF BarsSound
  <1> QED
    BY <1>1, SystemsRefine, BarsCorrect, PTL

(* The TLB is a cache of the page table, stale only where a page was mapped
   again (virtual_memory.cpp). *)
THEOREM TranslationsHold == SystemsSpec => []TranslationsSound
  <1>1. Memory!TranslationsSound => TranslationsSound
    BY DEF TranslationsSound
  <1> QED
    BY <1>1, SystemsRefine, TranslationsCorrect, PTL

(* No signal is lost outside the window between reload and reset (signal_handling.cpp). *)
THEOREM SignalsHold == SystemsSpec => []SignalsSound
  <1>1. Signals!SignalsSound => SignalsSound
    BY DEF SignalsSound
  <1> QED
    BY <1>1, SystemsRefine, SignalsCorrect, PTL

(* The event loop serves the right connections, whatever reads and writes return, and
   accounts for every byte it read (epoll_server.cpp). *)
THEOREM ServerHolds == SystemsSpec => []ServerSound
  <1>1. Epoll!ServerSound => ServerSound
    BY DEF ServerSound
  <1> QED
    BY <1>1, SystemsRefine, ServerCorrect, PTL

(* The matching engine conserves quantity and respects limits and priorities
   in the composition, too (matching_engine.cpp). *)
THEOREM EngineHolds == SystemsSpec => []MatchingSound /\ PriorityRespected
  BY SystemsRefine, MatchingCorrect, PriorityCorrect, PTL

(* Both policies of scheduler_sim.cpp, for any workload and any quantum: round
   robin queues every process that is ready once and lets it wait for at most
   one slice of each other one, the priority policy prefers the most important
   process that has arrived, and the accounts balance. *)
THEOREM SchedulesHold == SystemsSpec => []SchedulesSound
  <1> DEFINE Inv == program = "scheduler" => SchedInv
  <1>1. SystemsInit => Inv
    BY SchedInitial DEF SystemsInit
  <1>2. Inv /\ [SystemsNext]_systemsVars => Inv'
    <2> SUFFICES ASSUME Inv, [SystemsNext]_systemsVars, program' = "scheduler" PROVE SchedInv'
      OBVIOUS
    <2>1. program = "scheduler" /\ [Scheduler!Next]_(Scheduler!vars)
      BY DEF SystemsNext, systemsVars, schedulerVars, Scheduler!vars
    <2> QED
      BY <2>1, SchedNext
  <1>3. Inv => SchedulesSound
    BY SchedulesFollow DEF SchedulesSound
  <1> QED
    BY <1>1, <1>2, <1>3, PTL DEF SystemsSpec
==============================================================================
