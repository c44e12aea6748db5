----------------------------- MODULE MemoryPool -----------------------------
(***************************************************************************)
(* src/src/stl_like/memory_pool.cpp: the pool of blocks and the free list  *)
(* kept inside the free blocks.  A block is a union: while an object lives *)
(* in it, its next pointer is overwritten with the object's bytes (Data).  *)
(* Clients return only blocks they hold, as the header demands; the        *)
(* constructor that allocate calls may throw.                              *)
(***************************************************************************)
EXTENDS Naturals, Sequences, FiniteSets

CONSTANTS PoolSize, Null, Data

Block == 0 .. PoolSize - 1

ASSUME SizeAssumption == PoolSize \in Nat \ {0} /\ Null \notin Block /\ Data \notin Block \cup {Null}

VARIABLES
    next,          \* the next field of each block of pool_
    free_list_, allocated_,
    held,          \* blocks in which an object lives
    lost,          \* blocks whose object failed to construct
    stack          \* history: the free blocks, the last one freed first

vars == <<next, free_list_, allocated_, held, lost, stack>>

Init ==
    /\ next = [b \in Block |-> IF b < PoolSize - 1 THEN b + 1 ELSE Null]
    /\ free_list_ = 0 /\ allocated_ = 0
    /\ held = {} /\ lost = {}
    /\ stack = [n \in 1 .. PoolSize |-> n - 1]

(* allocate up to the placement new: take the first free block. *)
TakeBlock ==
    /\ free_list_ # Null
    /\ free_list_' = next[free_list_]
    /\ allocated_' = allocated_ + 1
    /\ stack' = Tail(stack)

Allocate ==
    /\ TakeBlock
    /\ next' = [next EXCEPT ![free_list_] = Data]
    /\ held' = held \cup {free_list_}
    /\ UNCHANGED lost

(* The constructor throws, before or after it has written to the block. *)
AllocateThrows ==
    /\ TakeBlock
    /\ next' \in {next, [next EXCEPT ![free_list_] = Data]}
    /\ lost' = lost \cup {free_list_}
    /\ UNCHANGED held

DeallocateUnlinked(b) ==
    /\ b \in held
    /\ free_list_' = b
    /\ allocated_' = allocated_ - 1
    /\ held' = held \ {b}
    /\ stack' = <<b>> \o stack
    /\ UNCHANGED <<next, lost>>

Deallocate(b) ==
    /\ b \in held
    /\ next' = [next EXCEPT ![b] = free_list_]
    /\ free_list_' = b
    /\ allocated_' = allocated_ - 1
    /\ held' = held \ {b}
    /\ stack' = <<b>> \o stack
    /\ UNCHANGED lost

(* allocate on an exhausted pool returns nullptr and changes nothing. *)
Exhausted == free_list_ = Null /\ UNCHANGED vars

Next == Allocate \/ AllocateThrows \/ (\E b \in Block : Deallocate(b)) \/ Exhausted

Spec == Init /\ [][Next]_vars

-----------------------------------------------------------------------------
(* The n-th free block, or the null pointer that ends the list. *)
FreeAt(n) == IF n <= Len(stack) THEN stack[n] ELSE Null

(* Walking the list from free_list_ visits the free blocks in the order they
   were freed and ends at the null pointer. *)
ListIsStack ==
    /\ free_list_ = FreeAt(1)
    /\ \A n \in 1 .. Len(stack) : next[stack[n]] = FreeAt(n + 1)

(* No block is on the list twice, or on the list and in use. *)
NoBlockTwice ==
    /\ \A m, n \in 1 .. Len(stack) : stack[m] = stack[n] => m = n
    /\ \A n \in 1 .. Len(stack) : stack[n] \notin held \cup lost
    /\ held \cap lost = {}

(* allocated() and available() tell the truth; a block whose constructor threw
   counts as allocated. *)
CountsExact ==
    /\ allocated_ = Cardinality(held \cup lost)
    /\ allocated_ + Len(stack) = PoolSize

(* The types of lines 30-39. *)
TypeOK ==
    /\ next \in [Block -> Block \cup {Null, Data}] /\ free_list_ \in Block \cup {Null}
    /\ allocated_ \in Nat /\ stack \in Seq(Block)
    /\ held \in SUBSET Block /\ lost \in SUBSET Block

(* The free list survives any sequence of allocate and deallocate, also with
   constructors that throw: no block is handed out while in use, and nullptr
   is returned only when no block is free. *)
PoolSound == TypeOK /\ ListIsStack /\ NoBlockTwice /\ CountsExact
==============================================================================
