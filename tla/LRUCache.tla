------------------------------ MODULE LRUCache ------------------------------
(***************************************************************************)
(* src/src/stl_like/lru_cache.cpp: the hash map and the doubly linked list *)
(* of heap nodes, pointer by pointer.  Addr are the addresses new can      *)
(* return; heap[a] is a node, or Free when nothing lives at a.             *)
(***************************************************************************)
EXTENDS Naturals, Sequences, FiniteSets

CONSTANTS Keys, Values, Capacity, Addr, Null, Free

VARIABLES heap, head_, tail_, map_, size_,
          result          \* what the last get returned

vars == <<heap, head_, tail_, map_, size_, result>>

(* struct Node: the pointers are null or the address of a node. *)
Nodes == [key : Keys, value : Values, prev : Addr \cup {Null}, next : Addr \cup {Null}]

Node(k, v, p, n) == [key |-> k, value |-> v, prev |-> p, next |-> n]

Init ==
    /\ heap = [a \in Addr |-> Free]
    /\ head_ = Null /\ tail_ = Null
    /\ map_ = [k \in Keys |-> Null]
    /\ size_ = 0 /\ result = Null

-----------------------------------------------------------------------------
(* A list is its nodes and the two end pointers. *)
List(h, first, last) == [heap |-> h, head |-> first, tail |-> last]
TheList == List(heap, head_, tail_)

(* h with p->next (p->prev) set to x, if p is not null. *)
SetNext(h, p, x) == IF p = Null THEN h ELSE [h EXCEPT ![p].next = x]
SetPrev(h, p, x) == IF p = Null THEN h ELSE [h EXCEPT ![p].prev = x]

(* node->prev = nullptr; node->next = head_; ... of move_to_front and put. *)
AttachFront(L, node) ==
    LET h == SetNext(SetPrev(L.heap, node, Null), node, L.head)
    IN  List(SetPrev(h, L.head, node), node, IF L.tail = Null THEN node ELSE L.tail)

move_to_front_one_way(L, node) ==
    IF node = L.head THEN L
    ELSE LET p == L.heap[node].prev
             n == L.heap[node].next
             h == SetNext(L.heap, p, n)
         IN  AttachFront(List(h, L.head, IF node = L.tail THEN p ELSE L.tail), node)

move_to_front(L, node) ==
    IF node = L.head THEN L
    ELSE LET p == L.heap[node].prev
             n == L.heap[node].next
             h == SetPrev(SetNext(L.heap, p, n), n, p)
         IN  AttachFront(List(h, L.head, IF node = L.tail THEN p ELSE L.tail), node)

(* Unlink and delete the last node. *)
evict(L) ==
    IF L.tail = Null THEN L
    ELSE LET last == L.heap[L.tail].prev
             h == [SetNext(L.heap, last, Null) EXCEPT ![L.tail] = Free]
         IN  List(h, IF last = Null THEN Null ELSE L.head, last)

Install(L) == heap' = L.heap /\ head_' = L.head /\ tail_' = L.tail

-----------------------------------------------------------------------------
GetWithoutTouch(k) ==
    /\ result' = IF map_[k] = Null THEN Null ELSE heap[map_[k]].value
    /\ UNCHANGED <<heap, head_, tail_, map_, size_>>

Get(k) ==
    /\ IF map_[k] = Null
       THEN result' = Null /\ UNCHANGED <<heap, head_, tail_>>
       ELSE /\ Install(move_to_front(TheList, map_[k]))
            /\ result' = heap[map_[k]].value
    /\ UNCHANGED <<map_, size_>>

PutPresent(k, v) ==
    /\ map_[k] # Null
    /\ LET updated == [heap EXCEPT ![map_[k]].value = v]
       IN  Install(move_to_front(List(updated, head_, tail_), map_[k]))
    /\ UNCHANGED <<map_, size_, result>>

(* put of a new key: evict if full, then link a new node at the front. *)
EvictedKey == IF size_ = Capacity THEN {heap[tail_].key} ELSE {}

PutNew(k, v) ==
    /\ map_[k] = Null
    /\ LET L == IF size_ = Capacity THEN evict(TheList) ELSE TheList
       IN  \E a \in {x \in Addr : L.heap[x] = Free} :
               /\ Install(AttachFront([L EXCEPT !.heap[a] = Node(k, v, Null, Null)], a))
               /\ map_' = [x \in Keys |-> IF x = k THEN a
                                          ELSE IF x \in EvictedKey THEN Null ELSE map_[x]]
    /\ size_' = (IF size_ = Capacity THEN size_ - 1 ELSE size_) + 1
    /\ UNCHANGED result

Next == \E k \in Keys : Get(k) \/ \E v \in Values : PutPresent(k, v) \/ PutNew(k, v)

Spec == Init /\ [][Next]_vars

-----------------------------------------------------------------------------
(* The nodes in list order, following next from the first one at most one step
   further than there are addresses. *)
NodesFrom(h, first) ==
    LET follow(p) == IF p = Null THEN Null ELSE IF h[p] = Free THEN Null ELSE h[p].next
        hop[n \in 1 .. Cardinality(Addr) + 1] == IF n = 1 THEN first ELSE follow(hop[n - 1])
        length == Cardinality({n \in DOMAIN hop : hop[n] # Null})
    IN  [n \in 1 .. length |-> hop[n]]

Chain == NodesFrom(heap, head_)

(* The pointer structure of lines 37-41 is sound after every operation: the
   chain from head_ ends at tail_, contains each live node once (none leaked,
   none dangling), prev mirrors next, and map_ finds exactly these nodes by
   their keys; size_ counts them and respects the capacity. *)
ListIntegrity ==
    LET chain == Chain IN
    /\ {chain[n] : n \in DOMAIN chain} = {a \in Addr : heap[a] # Free}
    /\ Len(chain) = size_ /\ size_ <= Capacity
    /\ \A m, n \in DOMAIN chain : m # n => chain[m] # chain[n]
    /\ tail_ = IF chain = <<>> THEN Null ELSE chain[Len(chain)]
    /\ \A n \in DOMAIN chain :
           heap[chain[n]].prev = IF n = 1 THEN Null ELSE chain[n - 1]
    /\ \A k \in Keys : map_[k] # Null => \E n \in DOMAIN chain : map_[k] = chain[n]
    /\ \A n \in DOMAIN chain : map_[heap[chain[n]].key] = chain[n]

Entries ==
    LET chain == Chain
    IN  [n \in DOMAIN chain |-> [key |-> heap[chain[n]].key, value |-> heap[chain[n]].value]]

Abstract == INSTANCE AbstractLRU WITH entries <- Entries

(* The list and the map together behave as an LRU cache: get returns the
   value last put, both operations make their key the most recent, and the
   evicted entry is always the least recently used one. *)
ImplementsLRU == Abstract!Spec
==============================================================================
