-------------------------- MODULE DoublyLinkedList --------------------------
(***************************************************************************)
(* src/src/stl_like/doubly_linked_list.cpp: several list objects with      *)
(* their nodes in one heap.  Cells are addresses; new returns the lowest   *)
(* free one, so a deleted node's address is reused as soon as possible.    *)
(* An operator named after a member function maps the memory before the    *)
(* call to the memory after it.                                            *)
(***************************************************************************)
EXTENDS Naturals, Sequences, FiniteSets, SequencesExt

CONSTANTS Lists, Values, Cells, Nil, Unused

VARIABLES heap,     \* per cell: a node, or Unused
          lists     \* per list object: head_, tail_ and size_

vars == <<heap, lists>>

Memory == [heap |-> heap, lists |-> lists]

(* struct Node: the pointers are null or the address of a node. *)
Nodes == [data : Values, prev : Cells \cup {Nil}, next : Cells \cup {Nil}]

EmptyList == [head |-> Nil, tail |-> Nil, size |-> 0]

Init ==
    /\ heap = [c \in Cells |-> Unused]
    /\ lists = [l \in Lists |-> EmptyList]

FreeCells(h) == {c \in Cells : h[c] = Unused}
NewCell(h) == CHOOSE c \in FreeCells(h) : \A d \in FreeCells(h) : c <= d

SetNext(h, p, x) == IF p = Nil THEN h ELSE [h EXCEPT ![p].next = x]
SetPrev(h, p, x) == IF p = Nil THEN h ELSE [h EXCEPT ![p].prev = x]

With(M, l, h, first, last, n) ==
    [heap |-> h, lists |-> [M.lists EXCEPT ![l] = [head |-> first, tail |-> last, size |-> n]]]

(* The nodes of a list as next links them, following at most one step further than
   there are cells. *)
NodesOf(M, l) ==
    LET follow(c) == IF c = Nil THEN Nil ELSE IF M.heap[c] = Unused THEN Nil ELSE M.heap[c].next
        hop[n \in 1 .. Cardinality(Cells) + 1] ==
            IF n = 1 THEN M.lists[l].head ELSE follow(hop[n - 1])
        visited == {n \in DOMAIN hop : hop[n] # Nil}
    IN  [n \in 1 .. Cardinality(visited) |-> hop[n]]

ContentOf(M, l) == LET nodes == NodesOf(M, l) IN [n \in DOMAIN nodes |-> M.heap[nodes[n]].data]

-----------------------------------------------------------------------------
push_front(M, l, v) ==
    LET L == M.lists[l]
        n == NewCell(M.heap)
        h == [M.heap EXCEPT ![n] = [data |-> v, prev |-> Nil, next |-> L.head]]
    IN  With(M, l, SetPrev(h, L.head, n), n, IF L.tail = Nil THEN n ELSE L.tail, L.size + 1)

push_back(M, l, v) ==
    LET L == M.lists[l]
        n == NewCell(M.heap)
        h == [M.heap EXCEPT ![n] = [data |-> v, prev |-> L.tail, next |-> Nil]]
    IN  With(M, l, SetNext(h, L.tail, n), IF L.head = Nil THEN n ELSE L.head, n, L.size + 1)

pop_front(M, l) ==
    LET L == M.lists[l]
        first == M.heap[L.head].next
        h == [SetPrev(M.heap, first, Nil) EXCEPT ![L.head] = Unused]
    IN  With(M, l, h, first, IF first = Nil THEN Nil ELSE L.tail, L.size - 1)

pop_back(M, l) ==
    LET L == M.lists[l]
        last == M.heap[L.tail].prev
        h == [SetNext(M.heap, last, Nil) EXCEPT ![L.tail] = Unused]
    IN  With(M, l, h, IF last = Nil THEN Nil ELSE L.head, last, L.size - 1)

insert_at_one_way(M, l, pos, v) ==
    LET L == M.lists[l]
        cur == NodesOf(M, l)[pos + 1]
        p == M.heap[cur].prev
        n == NewCell(M.heap)
        h == [M.heap EXCEPT ![n] = [data |-> v, prev |-> p, next |-> cur]]
    IN  IF pos = 0 THEN push_front(M, l, v)
        ELSE IF pos = L.size THEN push_back(M, l, v)
        ELSE With(M, l, SetNext(h, p, n), L.head, L.tail, L.size + 1)

insert_at(M, l, pos, v) ==
    LET L == M.lists[l]
        cur == NodesOf(M, l)[pos + 1]
        p == M.heap[cur].prev
        n == NewCell(M.heap)
        h == [M.heap EXCEPT ![n] = [data |-> v, prev |-> p, next |-> cur]]
    IN  IF pos = 0 THEN push_front(M, l, v)
        ELSE IF pos = L.size THEN push_back(M, l, v)
        ELSE With(M, l, SetPrev(SetNext(h, p, n), cur, n), L.head, L.tail, L.size + 1)

erase(M, l, pos) ==
    LET L == M.lists[l]
        cur == NodesOf(M, l)[pos + 1]
        p == M.heap[cur].prev
        n == M.heap[cur].next
        h == [SetPrev(SetNext(M.heap, p, n), n, p) EXCEPT ![cur] = Unused]
    IN  IF pos = 0 THEN pop_front(M, l)
        ELSE IF pos = L.size - 1 THEN pop_back(M, l)
        ELSE With(M, l, h, L.head, L.tail, L.size - 1)

clear(M, l) ==
    LET deleted == ToSet(NodesOf(M, l))
    IN  With(M, l, [c \in Cells |-> IF c \in deleted THEN Unused ELSE M.heap[c]], Nil, Nil, 0)

(* push_back of one element of the other list after the other. *)
copy_from(M, l, other) ==
    LET data == ContentOf(M, other)
        copied[n \in 0 .. Len(data)] ==
            IF n = 0 THEN M ELSE push_back(copied[n - 1], l, data[n])
    IN  copied[Len(data)]

(* Assignment; a copy or move constructor is the same on a list that is empty
   and needs no clear. *)
copy_assign(M, l, other) ==
    IF l = other THEN M ELSE copy_from(clear(M, l), l, other)

move_assign(M, l, other) ==
    LET cleared == clear(M, l)
    IN  IF l = other THEN M
        ELSE [cleared EXCEPT !.lists[l] = M.lists[other], !.lists[other] = EmptyList]

-----------------------------------------------------------------------------
Becomes(M) == heap' = M.heap /\ lists' = M.lists

(* Node allocations are bounded by the number of cells. *)
Push(l, v) ==
    /\ FreeCells(heap) # {}
    /\ Becomes(push_front(Memory, l, v)) \/ Becomes(push_back(Memory, l, v))

Insert(l, pos, v) ==
    /\ FreeCells(heap) # {} /\ pos <= lists[l].size
    /\ Becomes(insert_at(Memory, l, pos, v))

Pop(l) ==
    /\ lists[l].head # Nil
    /\ Becomes(pop_front(Memory, l)) \/ Becomes(pop_back(Memory, l))

Erase(l, pos) == pos < lists[l].size /\ Becomes(erase(Memory, l, pos))

Destroy(l) == Becomes(clear(Memory, l))

RoomFor(l, other) == Cardinality(FreeCells(clear(Memory, l).heap)) >= lists[other].size

Copy(l, other) ==
    /\ RoomFor(l, other)
    /\ Becomes(copy_assign(Memory, l, other))

Move(l, other) == Becomes(move_assign(Memory, l, other))

Next == \E l \in Lists :
    \/ \E v \in Values : Push(l, v) \/ \E pos \in 0 .. Cardinality(Cells) : Insert(l, pos, v)
    \/ Pop(l)
    \/ \E pos \in 0 .. Cardinality(Cells) : Erase(l, pos)
    \/ Destroy(l)
    \/ \E other \in Lists : Copy(l, other) \/ Move(l, other)

Spec == Init /\ [][Next]_vars

-----------------------------------------------------------------------------
(* Each list is linked consistently in both directions, size_ counts its nodes,
   and every node belongs to exactly one list: none is leaked, shared after a
   copy, or still owned by a list that was moved from. *)
LinksConsistent ==
    LET nodes == [l \in Lists |-> NodesOf(Memory, l)]
    IN  /\ \A l \in Lists :
               /\ Len(nodes[l]) = lists[l].size
               /\ lists[l].tail = IF nodes[l] = <<>> THEN Nil ELSE Last(nodes[l])
               /\ \A n \in DOMAIN nodes[l] :
                      /\ heap[nodes[l][n]] # Unused
                      /\ heap[nodes[l][n]].prev = IF n = 1 THEN Nil ELSE nodes[l][n - 1]
        /\ \A c \in Cells \ FreeCells(heap) :
               \E l \in Lists : \E n \in DOMAIN nodes[l] :
                   /\ nodes[l][n] = c
                   /\ \A k \in Lists : \A m \in DOMAIN nodes[k] :
                          nodes[k][m] = c => k = l /\ m = n

(* Each operation does to the sequence of elements what its name says, at the
   place it was given, and nothing to the other lists. *)
OperationsCorrect ==
    LET Contents(M) == [l \in Lists |-> ContentOf(M, l)]
        c == Contents(Memory)
    IN  \A l \in Lists :
            LET Gives(M, s) == Contents(M) = [c EXCEPT ![l] = s]
            IN  /\ FreeCells(heap) # {} => \A v \in Values :
                       /\ Gives(push_front(Memory, l, v), <<v>> \o c[l])
                       /\ Gives(push_back(Memory, l, v), Append(c[l], v))
                       /\ \A pos \in 0 .. lists[l].size :
                              Gives(insert_at(Memory, l, pos, v), InsertAt(c[l], pos + 1, v))
                /\ c[l] # <<>> => /\ Gives(pop_front(Memory, l), Tail(c[l]))
                                  /\ Gives(pop_back(Memory, l), Front(c[l]))
                /\ \A pos \in 0 .. lists[l].size - 1 :
                       Gives(erase(Memory, l, pos), RemoveAt(c[l], pos + 1))
                /\ Gives(clear(Memory, l), <<>>)
                /\ \A other \in Lists :
                       /\ RoomFor(l, other) => Gives(copy_assign(Memory, l, other), c[other])
                       /\ Contents(move_assign(Memory, l, other)) =
                              IF l = other THEN c
                              ELSE [c EXCEPT ![l] = c[other], ![other] = <<>>]

(* After any sequence of operations the lists are linked consistently and the
   next operation has its specified effect. *)
ListsBehave == LinksConsistent /\ OperationsCorrect
==============================================================================
