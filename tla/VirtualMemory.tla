---------------------------- MODULE VirtualMemory ----------------------------
(***************************************************************************)
(* systems/os/virtual_memory.cpp: a page table behind a TLB with           *)
(* round-robin replacement.  An address is split by the page size, and     *)
(* the words it is computed in keep their width.                           *)
(***************************************************************************)
EXTENDS Naturals, Sequences, FiniteSets, Functions

CONSTANTS
    Pages, Frames,      \* arguments of mapPage: any unsigned word
    TLB_SIZE, PAGE_SIZE,
    WORD,               \* the values of an unsigned word: 2^32 in the code
    MaxAccesses         \* bound: calls of translate

VARIABLES
    page_table_, tlb_, tlb_next_, tlb_hits_, tlb_misses_, page_faults_,
    answer,             \* what the last translate returned
    walked,             \* history: the pages walked since the last flush, newest last
    remapped            \* history: the pages mapped again since the last flush

vars == <<page_table_, tlb_, tlb_next_, tlb_hits_, tlb_misses_, page_faults_, answer, walked, remapped>>
stats == <<tlb_hits_, tlb_misses_, page_faults_>>

Addresses == 0 .. WORD - 1
vpn(address) == address \div PAGE_SIZE
offset(address) == address % PAGE_SIZE

(* (pfn << OFFSET_BITS) | offset, in an unsigned word *)
physical(pfn, address) == ((pfn * PAGE_SIZE) % WORD) + offset(address)

Entry(page, pfn, valid) == [vpn |-> page, pfn |-> pfn, valid |-> valid]

(* What translate returns, with the frame the page table names at that moment
   (none for a page that is not mapped) and whether the page was mapped again. *)
NoAnswer == [source |-> "none"]
Answer(ok, phys, address, source) ==
    [success |-> ok, physical_addr |-> phys, source |-> source, address |-> address,
     frames |-> {page_table_[p] : p \in {vpn(address)} \cap DOMAIN page_table_},
     remapped |-> vpn(address) \in remapped]

Init ==
    /\ page_table_ = <<>> /\ tlb_ = [i \in 1 .. TLB_SIZE |-> Entry(0, 0, FALSE)]
    /\ tlb_next_ = 0 /\ tlb_hits_ = 0 /\ tlb_misses_ = 0 /\ page_faults_ = 0
    /\ answer = NoAnswer /\ walked = <<>> /\ remapped = {}

(* mapPage leaves the TLB alone. *)
mapPage(page, frame) ==
    /\ page_table_' = [p \in DOMAIN page_table_ \cup {page} |-> IF p = page THEN frame ELSE page_table_[p]]
    /\ remapped' = remapped \cup ({page} \cap DOMAIN page_table_)
    /\ UNCHANGED <<tlb_, tlb_next_, stats, answer, walked>>

Cached(page) == {i \in DOMAIN tlb_ : tlb_[i].valid /\ tlb_[i].vpn = page}

translateHit(address) ==
    /\ Cached(vpn(address)) # {}
    /\ LET first == CHOOSE i \in Cached(vpn(address)) : \A j \in Cached(vpn(address)) : i <= j
       IN  answer' = Answer(TRUE, physical(tlb_[first].pfn, address), address, "TLB Hit")
    /\ tlb_hits_' = tlb_hits_ + 1
    /\ UNCHANGED <<page_table_, tlb_, tlb_next_, tlb_misses_, page_faults_, walked, remapped>>

translateFault(address) ==
    /\ Cached(vpn(address)) = {} /\ vpn(address) \notin DOMAIN page_table_
    /\ answer' = Answer(FALSE, 0, address, "Page Fault")
    /\ tlb_misses_' = tlb_misses_ + 1 /\ page_faults_' = page_faults_ + 1
    /\ UNCHANGED <<page_table_, tlb_, tlb_next_, tlb_hits_, walked, remapped>>

NextSlotStuck == tlb_next_
NextSlot == (tlb_next_ + 1) % TLB_SIZE

translateWalk(address) ==
    /\ Cached(vpn(address)) = {} /\ vpn(address) \in DOMAIN page_table_
    /\ LET pfn == page_table_[vpn(address)]
       IN /\ tlb_' = [tlb_ EXCEPT ![tlb_next_ + 1] = Entry(vpn(address), pfn, TRUE)]
          /\ answer' = Answer(TRUE, physical(pfn, address), address, "Page Table")
    /\ tlb_next_' = NextSlot
    /\ tlb_misses_' = tlb_misses_ + 1
    /\ walked' = LET w == Append(walked, vpn(address))
                 IN  IF Len(w) > TLB_SIZE THEN Tail(w) ELSE w
    /\ UNCHANGED <<page_table_, tlb_hits_, page_faults_, remapped>>

(* The next slot to replace is kept. *)
flushTLB ==
    /\ tlb_' = [i \in DOMAIN tlb_ |-> [tlb_[i] EXCEPT !.valid = FALSE]]
    /\ walked' = <<>> /\ remapped' = {}
    /\ UNCHANGED <<page_table_, tlb_next_, stats, answer>>

Next ==
    \/ \E page \in Pages, frame \in Frames : mapPage(page, frame)
    \/ /\ tlb_hits_ + tlb_misses_ < MaxAccesses
       /\ \E address \in Addresses :
              translateHit(address) \/ translateFault(address) \/ translateWalk(address)
    \/ flushTLB

Spec == Init /\ [][Next]_vars

-----------------------------------------------------------------------------
TypeOK ==
    /\ DOMAIN page_table_ \subseteq Pages /\ Range(page_table_) \subseteq Frames
    /\ tlb_next_ \in 0 .. TLB_SIZE - 1 /\ DOMAIN tlb_ = 1 .. TLB_SIZE
    /\ page_faults_ <= tlb_misses_

(* The valid entries are those of the last TLB_SIZE pages walked since the last
   flush, each once, although flushTLB keeps the next slot. *)
HoldsLastWalked ==
    /\ {tlb_[i].vpn : i \in {j \in DOMAIN tlb_ : tlb_[j].valid}} = Range(walked)
    /\ \A i, j \in DOMAIN tlb_ : i # j /\ tlb_[i].valid /\ tlb_[j].valid => tlb_[i].vpn # tlb_[j].vpn

(* An entry may differ from the page table only if its page was mapped again
   since the last flush. *)
StaleOnlyIfRemapped ==
    \A i \in DOMAIN tlb_ : tlb_[i].valid =>
        /\ tlb_[i].vpn \in DOMAIN page_table_
        /\ tlb_[i].vpn \notin remapped => tlb_[i].pfn = page_table_[tlb_[i].vpn]

(* translate fails exactly for unmapped pages; an address keeps its offset and,
   unless its page was mapped again, is in the page's frame (cut to the word). *)
AnswersRight ==
    answer # NoAnswer =>
        /\ answer.success <=> answer.frames # {}
        /\ answer.success => offset(answer.physical_addr) = offset(answer.address)
        /\ answer.success /\ ~answer.remapped =>
               \A f \in answer.frames : vpn(answer.physical_addr) = f % (WORD \div PAGE_SIZE)

(* Both at once: what the TLB holds is what it should hold. *)
CacheSound == HoldsLastWalked /\ StaleOnlyIfRemapped

(* The TLB of virtual_memory.cpp caches the page table: it holds the last pages
   walked, is stale only for pages mapped again, and answers are right. *)
TranslationsSound == TypeOK /\ CacheSound /\ AnswersRight
==============================================================================
