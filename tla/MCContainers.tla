---------------------------- MODULE MCContainers ----------------------------
(***************************************************************************)
(* The single-threaded containers of src/src/stl_like for TLC (memory      *)
(* pool, LRU cache, doubly linked list, hash map), and what owns memory or *)
(* another resource in src/src/modern_cpp, patterns and systems.  They are *)
(* independent of each other; a behaviour uses the one chosen in its       *)
(* initial state.                                                          *)
(***************************************************************************)
EXTENDS MemoryPool, TLC

CONSTANTS
    Keys, Values, Capacity, Addr, Free,      \* LRU cache
    Lists, Cells, Nil, Unused,               \* doubly linked list
    MapKeys, Hashes,                         \* hash map
    Default, InitialBuckets,
    Objects, Payloads,                       \* objects of an owning class, what they hold
    MaxResources,                            \* resources they acquire
    SIZE_T, MAX_ALIGN,                       \* values of a size_t, alignment of what new returns
    Buffers, ArenaSize,                      \* arena: addresses its buffer may have, its size,
    Requests, Sizes, Alignments,             \* what is requested, sizes of objects
    BlockCount                               \* pool allocator

VARIABLES
    container,
    cacheHeap, head_, tail_, map_, cacheSize, result,
    listHeap, lists,
    buckets_, mapSize,
    class, world,                            \* an owning class and all its objects
    arena, blocks                            \* Arena and PoolAllocator

(* Hashes of four integer keys that meet in one, two, three and four buckets. *)
FourHashes == (1 :> 0) @@ (2 :> 2) @@ (3 :> 3) @@ (4 :> 6)

Cache == INSTANCE LRUCache WITH heap <- cacheHeap, size_ <- cacheSize

List == INSTANCE DoublyLinkedList WITH heap <- listHeap

Map == INSTANCE HashMap WITH Keys <- MapKeys, hasher_ <- Hashes, size_ <- mapSize

Owners == INSTANCE Ownership

(* A cache holds at least one entry (the assert of lru_cache.cpp:70), new finds
   a free address, a null pointer is no address and a freed node no node, hashes are
   unsigned, a map starts with at least one bucket, new aligns the buffer of an arena to
   MAX_ALIGN, sizes are values of a size_t, and requests, objects and alignments are not
   empty. *)
ASSUME ContainersAssumption ==
    /\ Capacity \in Nat \ {0} /\ IsFiniteSet(Addr) /\ Cardinality(Addr) > Capacity
    /\ Null \notin Addr \cup Values /\ Free \notin Cache!Nodes
    /\ Cells \in SUBSET Nat /\ IsFiniteSet(Cells) /\ Nil \notin Cells /\ Unused \notin List!Nodes
    /\ Hashes \in [MapKeys -> Nat] /\ InitialBuckets \subseteq Nat \ {0}
    /\ Payloads \subseteq Nat /\ {MaxResources, ArenaSize, SIZE_T, BlockCount} \subseteq Nat
    /\ ArenaSize < SIZE_T /\ MAX_ALIGN \in Nat \ {0} /\ Buffers \subseteq Nat
    /\ \A b \in Buffers : b % MAX_ALIGN = 0
    /\ Requests \cup Sizes \cup Alignments \subseteq Nat \ {0}

cacheVars == <<cacheHeap, head_, tail_, map_, cacheSize, result>>
listVars == <<listHeap, lists>>
mapVars == <<buckets_, mapSize>>
ownerVars == <<class, world, arena, blocks>>
containerVars == <<vars, cacheVars, listVars, mapVars, ownerVars, container>>

ContainerInit ==
    /\ container \in {"pool", "cache", "list", "map", "owner", "arena", "blocks"}
    /\ Init /\ Cache!Init /\ List!Init
    /\ IF container = "map" THEN Map!Init ELSE buckets_ = <<>> /\ mapSize = 0
    /\ IF container = "owner" THEN class \in Owners!Classes ELSE class = Owners!Buffer
    /\ world = Owners!World(Objects)
    /\ IF container = "arena" THEN \E b \in Buffers : arena = Owners!Arena(b, ArenaSize)
                              ELSE arena = Owners!Arena(0, ArenaSize)
    /\ blocks = Owners!PoolAllocator(BlockCount)

(* The calls on an owning class that its special members allow, while there is room for
   another resource.  A moved-from Widget may only be destroyed or assigned to by a
   move.  The last alternative is the end of a program that used up its resources. *)
OwnerCall ==
    LET New == Objects \ world.alive
        room == Len(world.value) < MaxResources
    IN  /\ \/ room /\ \E o \in New, v \in Payloads : world' = Owners!construct(world, o, v)
           \/ class.fails /\ \E o \in New : world' = Owners!constructThrows(world, o)
           \/ \E o \in world.alive : world' = Owners!destroy(world, o)
           \/ room /\ \E o \in New, p \in world.alive :
                  Owners!CanCopy(world, class, p) /\ world' = Owners!copyConstruct(world, class, o, p)
           \/ room /\ \E o, p \in world.alive :
                  /\ Owners!CanCopy(world, class, p) /\ Owners!CanCopy(world, class, o)
                  /\ world' = Owners!copyAssign(world, class, o, p)
           \/ class.moves /\ \E o \in New, p \in world.alive : world' = Owners!moveConstruct(world, o, p)
           \/ class.assign # "no" /\ \E o, p \in world.alive : world' = Owners!moveAssign(world, class, o, p)
           \/ class.gives # "no" /\ \E o \in world.alive : world' = Owners!giveUp(world, class, o)
           \/ class.copies # "no" /\ \E o \in world.alive, v \in Payloads :
                  world.holds[o] # {} /\ world' = Owners!setValue(world, o, v)
           \/ ~room /\ world.alive = {} /\ UNCHANGED world
        /\ UNCHANGED <<class, arena, blocks>>

ArenaCall ==
    /\ \/ \E bytes \in Requests, alignment \in Alignments : arena' = Owners!allocate(arena, bytes, alignment)
       \/ \E n \in Requests, size \in Sizes, alignment \in Alignments :
              arena' = Owners!allocateObjects(arena, n, size, alignment)
       \/ arena' = Owners!reset(arena)
    /\ UNCHANGED <<class, world, blocks>>

BlockCall ==
    /\ \/ blocks' = Owners!allocateBlock(blocks)
       \/ \E b \in blocks.lent : blocks' = Owners!deallocateBlock(blocks, b)
    /\ UNCHANGED <<class, world, arena>>

ContainerNext ==
    \/ container = "pool" /\ Next /\ UNCHANGED <<cacheVars, listVars, mapVars, ownerVars, container>>
    \/ container = "cache" /\ Cache!Next /\ UNCHANGED <<vars, listVars, mapVars, ownerVars, container>>
    \/ container = "list" /\ List!Next /\ UNCHANGED <<vars, cacheVars, mapVars, ownerVars, container>>
    \/ container = "map" /\ Map!Next /\ UNCHANGED <<vars, cacheVars, listVars, ownerVars, container>>
    \/ container = "owner" /\ OwnerCall /\ UNCHANGED <<vars, cacheVars, listVars, mapVars, container>>
    \/ container = "arena" /\ ArenaCall /\ UNCHANGED <<vars, cacheVars, listVars, mapVars, container>>
    \/ container = "blocks" /\ BlockCall /\ UNCHANGED <<vars, cacheVars, listVars, mapVars, container>>

ContainerSpec == ContainerInit /\ [][ContainerNext]_containerVars

(* Addresses of cache nodes are only compared for equality. *)
Symmetry == Permutations(Addr)

-----------------------------------------------------------------------------
(* The list and the map of the LRU cache are consistent, and it behaves as an
   LRU cache (LRUCache). *)
ListIntegrity == Cache!ListIntegrity
ImplementsLRU == Cache!ImplementsLRU

(* The linked lists behave as sequences and the hash map as a partial function
   (DoublyLinkedList, HashMap). *)
ContainersBehave == List!ListsBehave /\ (container = "map" => Map!MapBehaves)

(* No sequence of copies, moves, self-assignments, releases and destructions makes a
   class of modern_cpp, patterns or systems leak, close a resource twice or share it
   (rule_of_five.cpp, raii_patterns.cpp and others).  The pool of custom_allocator.cpp
   never hands out the same memory twice, and neither does its arena unless a request
   is so large that a size_t wraps. *)
OwnershipSound ==
    Owners!OwnedOnce(world) /\ Owners!ArenaDisjoint(arena) /\ Owners!PoolPartition(blocks)
==============================================================================
