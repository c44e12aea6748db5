------------------------------ MODULE Ownership ------------------------------
(***************************************************************************)
(* Classes that own a resource, and allocators.  The special members of a  *)
(* class are summed up in a record of traits; the operations below follow  *)
(* them.  A world is the record of all objects of one class; an operator   *)
(* named after a member maps the world before the call to the one after.   *)
(***************************************************************************)
EXTENDS Naturals, Sequences, FiniteSets, FiniteSetsExt, Functions

CONSTANTS
    SIZE_T,        \* number of values of a size_t
    MAX_ALIGN      \* alignof(std::max_align_t)

(* copies: "no", or what copying from an empty object does; assign: how move
   assignment treats the target; gives: how it gives up its resource early. *)
Class(copies, moves, assign, gives, fails) ==
    [copies |-> copies, moves |-> moves, assign |-> assign, gives |-> gives, fails |-> fails]

Buffer == Class("allocates", TRUE, "checks self", "no", FALSE)
ModernBuffer == Class("no", TRUE, "checks self", "no", FALSE)
HeavyObject == Class("empty", TRUE, "checks self", "no", FALSE)
Widget == Class("undefined", TRUE, "checks self", "no", FALSE)
Socket == Class("no", TRUE, "checks self", "no", TRUE)
FileDescriptor == Class("no", TRUE, "overwrites", "releases", FALSE)
Connection == Class("no", TRUE, "empties first", "closes", FALSE)
FileHandle == Class("no", TRUE, "no", "no", TRUE)
ScopeGuard == Class("no", TRUE, "no", "releases", FALSE)
SafeHandle == Class("no", TRUE, "checks self", "no", FALSE)
PinnedScopeGuard == Class("no", FALSE, "no", "releases", FALSE)
DatabaseTransaction == Class("no", FALSE, "no", "releases", FALSE)
MappedRegion == Class("no", FALSE, "no", "no", TRUE)
ScopedLock == Class("no", FALSE, "no", "no", FALSE)

Classes == {Buffer, ModernBuffer, HeavyObject, Widget, Socket, FileDescriptor, Connection, FileHandle,
            ScopeGuard, PinnedScopeGuard, SafeHandle, DatabaseTransaction, MappedRegion, ScopedLock}

(* value is the content of each resource; out what was released to the caller;
   twice what was closed when it was not open; seen the value each object should
   have.  Resources are numbered in the order of acquisition. *)
World(Objects) ==
    [alive |-> {}, holds |-> [o \in Objects |-> {}], value |-> <<>>, open |-> {},
     out |-> {}, twice |-> {}, seen |-> [o \in Objects |-> 0]]

Close(w, rs) == [w EXCEPT !.open = @ \ rs, !.twice = @ \cup (rs \ w.open)]

(* A fresh resource with a value, owned by o. *)
Acquire(w, o, v) ==
    [w EXCEPT !.alive = @ \cup {o}, !.value = Append(@, v), !.open = @ \cup {Len(w.value) + 1},
              !.holds[o] = {Len(w.value) + 1}, !.seen[o] = v]

ValueOf(w, o) == IF w.holds[o] = {} THEN 0 ELSE w.value[Min(w.holds[o])]

construct(w, o, v) == Acquire(w, o, v)

(* new, fopen, socket or mmap fail: the constructor throws and no object is left. *)
constructThrows(w, o) == w

destroy(w, o) == [Close(w, w.holds[o]) EXCEPT !.alive = @ \ {o}, !.holds[o] = {}, !.seen[o] = 0]

(* Copying reads the other object's resource before the own one is given up. *)
copyConstruct(w, class, o, p) ==
    IF w.holds[p] = {} /\ class.copies = "empty"
    THEN [w EXCEPT !.alive = @ \cup {o}, !.holds[o] = {}, !.seen[o] = 0]
    ELSE Acquire(w, o, ValueOf(w, p))

copyAssign(w, class, o, p) ==
    CASE o = p -> w
      [] o # p /\ class = Widget ->                     \* *pimpl_ = *other.pimpl_
             [w EXCEPT !.value[Min(w.holds[o])] = ValueOf(w, p), !.seen[o] = ValueOf(w, p)]
      [] o # p /\ class # Widget -> Close(copyConstruct(w, class, o, p), w.holds[o])

(* Whether copying from p or into o is defined for empty (moved-from) objects. *)
CanCopy(w, class, p) == class.copies # "no" /\ (class.copies = "undefined" => w.holds[p] # {})

TakeKeeping(w, o, p) == [w EXCEPT !.holds[o] = w.holds[p], !.seen[o] = w.seen[p]]
Take(w, o, p) ==
    LET taken == [w EXCEPT !.holds[o] = w.holds[p], !.seen[o] = w.seen[p]]
    IN  [taken EXCEPT !.holds[p] = {}, !.seen[p] = 0]

moveConstruct(w, o, p) == [Take(w, o, p) EXCEPT !.alive = @ \cup {o}]

(* Self-assignment: checked, or the object ends up empty in one of two ways. *)
moveAssign(w, class, o, p) ==
    CASE class.assign = "checks self" -> IF o = p THEN w ELSE Take(Close(w, w.holds[o]), o, p)
      [] class.assign = "overwrites" -> Take(Close(w, w.holds[o]), o, p)
      [] class.assign = "empties first" ->
             Take([Close(w, w.holds[o]) EXCEPT !.holds[o] = {}, !.seen[o] = 0], o, p)

(* release, dismiss and commit hand the resource over; disconnect closes it. *)
giveUp(w, class, o) ==
    LET w1 == IF class.gives = "closes" THEN Close(w, w.holds[o])
              ELSE [w EXCEPT !.out = @ \cup w.holds[o]]
    IN  [w1 EXCEPT !.holds[o] = {}, !.seen[o] = 0]

(* b[0] = v and set_value write to the object's own resource. *)
setValue(w, o, v) == [w EXCEPT !.value[Min(w.holds[o])] = v, !.seen[o] = v]

(* Every open resource has exactly one owner or was released, what is owned is
   open, nothing is closed twice, and objects share no value. *)
OwnedOnce(w) ==
    /\ w.twice = {}
    /\ w.open = w.out \cup UNION {w.holds[o] : o \in w.alive}
    /\ \A o \in DOMAIN w.holds :
           /\ w.holds[o] \cap w.out = {} /\ Cardinality(w.holds[o]) <= 1
           /\ o \notin w.alive => w.holds[o] = {}
           /\ \A p \in DOMAIN w.holds : o # p => w.holds[o] \cap w.holds[p] = {}
           /\ ValueOf(w, o) = w.seen[o]

(* The asserts of the mains of rule_of_five.cpp and pimpl_idiom.cpp, and of the
   demonstrations of raii_patterns.cpp and raii.cpp. *)
RuleOfFiveMain ==
    LET w2 == copyConstruct(construct(World(1 .. 5), 1, 42), Buffer, 2, 1)
        w3 == copyAssign(construct(w2, 3, 0), Buffer, 3, 1)
        w4 == moveConstruct(w3, 4, 1)
        w5 == moveAssign(construct(w4, 5, 0), Buffer, 5, 4)
    IN  /\ ValueOf(w2, 2) = 42 /\ ValueOf(w3, 3) = 42 /\ ValueOf(w4, 4) = 42 /\ ValueOf(w5, 5) = 42
        /\ w4.holds[1] = {} /\ w5.holds[4] = {}

PimplMain ==
    LET w2 == setValue(copyConstruct(construct(World(1 .. 3), 1, 42), Widget, 2, 1), 2, 100)
        w3 == moveConstruct(w2, 3, 1)
    IN  ValueOf(w2, 1) = 42 /\ ValueOf(w2, 2) = 100 /\ ValueOf(w3, 3) = 42 /\ ValueOf(copyAssign(w3, Widget, 2, 3), 2) = 42

(* A scope with one object, left normally, by an exception or after dismiss or commit. *)
Scope(class, gives) ==
    LET w == construct(World({1}), 1, 42) IN destroy(IF gives THEN giveUp(w, class, 1) ELSE w, 1)

ScopesMain ==
    /\ \A class \in {ScopeGuard, PinnedScopeGuard, DatabaseTransaction} : Scope(class, TRUE).open = {1}
    /\ \A class \in Classes : Scope(class, FALSE).open = {}

(* main of tcp_server.cpp leaves after the step that fails: what it opened is closed. *)
ServerMain(fails) ==
    LET w0 == World({"server_sock", "client_sock"})
        w1 == construct(w0, "server_sock", 1)
        w2 == construct(w1, "client_sock", 1)
    IN  CASE fails = "socket" -> constructThrows(w0, "server_sock")
          [] fails \in {"bind", "listen", "accept"} -> destroy(w1, "server_sock")
          [] fails = "none" -> destroy(destroy(w2, "client_sock"), "server_sock")

NothingLeft(w) == w.open = {} /\ w.twice = {}

-----------------------------------------------------------------------------
(* modern_cpp/custom_allocator.cpp: the arena, its buffer at the address buffer_.  The
   rest is history: modest says whether capacity, alignment and size of every request
   granted since the last reset fit a size_t together; while they do, chunks is the
   memory handed out. *)
Arena(buffer, capacity) ==
    [buffer_ |-> buffer, capacity_ |-> capacity, offset_ |-> 0, alloc_count_ |-> 0, modest |-> TRUE, chunks |-> {}]

Modest(arena, bytes, alignment) == arena.capacity_ + alignment + bytes <= SIZE_T

(* (offset_ + alignment - 1) & ~(alignment - 1), alignments being powers of two *)
Aligned(arena, alignment) == (((arena.offset_ + alignment - 1) % SIZE_T) \div alignment) * alignment

(* bytes is what the caller wants, in a size_t only its remainder; the check of line 51
   looks at the wrapped sum.  A request that fails it throws bad_alloc and changes
   nothing. *)
allocate(arena, bytes, alignment) ==
    LET from == Aligned(arena, alignment)
        end == (from + bytes) % SIZE_T
        modest == arena.modest /\ Modest(arena, bytes, alignment)
        chunk == [from |-> from, to |-> from + bytes, alignment |-> alignment]
    IN  IF end > arena.capacity_ THEN arena
        ELSE [arena EXCEPT !.offset_ = end, !.alloc_count_ = (@ + 1) % SIZE_T, !.modest = modest,
                           !.chunks = IF modest THEN @ \cup {chunk} ELSE {}]

reset(arena) == [arena EXCEPT !.offset_ = 0, !.alloc_count_ = 0, !.modest = TRUE, !.chunks = {}]

(* ArenaAllocator<T>: n objects of a size, the product in a size_t as well; its
   deallocate does nothing. *)
allocateObjects(arena, n, size, alignment) == allocate(arena, n * size, alignment)

(* used() and remaining() are always numbers of bytes of the buffer.  Unless a request
   granted since the last reset was so large that a sum may wrap, the chunks lie in the
   buffer, do not overlap, are counted, and are aligned: their offsets to any alignment,
   their addresses to those that new guarantees for the buffer. *)
ArenaDisjoint(arena) ==
    /\ arena.offset_ <= arena.capacity_
    /\ arena.modest =>
        /\ arena.alloc_count_ = Cardinality(arena.chunks)
        /\ \A c \in arena.chunks :
               /\ c.to <= arena.offset_ /\ c.from % c.alignment = 0
               /\ MAX_ALIGN % c.alignment = 0 => (arena.buffer_ + c.from) % c.alignment = 0
        /\ \A c, d \in arena.chunks : c # d => c.to <= d.from \/ d.to <= c.from

(* PoolAllocator: the free list runs through the blocks; 0 is nullptr.  lent is
   history.  The constructor links each block in front of the one before. *)
PoolAllocator(blocks) ==
    [next |-> [b \in 1 .. blocks |-> b - 1], freeList_ |-> blocks, allocated_ |-> 0, lent |-> {}]

allocateBlock(pool) ==
    IF pool.freeList_ = 0 THEN pool
    ELSE [pool EXCEPT !.freeList_ = pool.next[@], !.allocated_ = @ + 1, !.lent = @ \cup {pool.freeList_}]

deallocateBlock(pool, b) ==
    [pool EXCEPT !.next[b] = pool.freeList_, !.freeList_ = b, !.allocated_ = @ - 1, !.lent = @ \ {b}]

(* The blocks reached from the free list, in at most as many steps as there are. *)
FreeBlocks(pool) ==
    LET hop[n \in 0 .. Len(pool.next)] ==
            IF n = 0 THEN pool.freeList_ ELSE LET b == hop[n - 1] IN IF b = 0 THEN 0 ELSE pool.next[b]
    IN  {hop[n] : n \in DOMAIN hop} \ {0}

(* The free list holds exactly the blocks that are not lent, and the counts agree. *)
PoolPartition(pool) ==
    /\ FreeBlocks(pool) = DOMAIN pool.next \ pool.lent
    /\ pool.allocated_ = Cardinality(pool.lent)

AllocatorsMain ==
    LET arena == allocateObjects(Arena(0, 4096), 100, 4, 4)
        ten[n \in 0 .. 10] == IF n = 0 THEN PoolAllocator(100) ELSE allocateBlock(ten[n - 1])
        back[n \in 0 .. 10] == IF n = 0 THEN ten[10] ELSE deallocateBlock(back[n - 1], 101 - n)
    IN  /\ arena.offset_ = 400 /\ arena.alloc_count_ = 1 /\ reset(arena).offset_ = 0
        /\ ten[10].allocated_ = 10 /\ Cardinality(FreeBlocks(ten[10])) = 90 /\ back[10].allocated_ = 0
==============================================================================
