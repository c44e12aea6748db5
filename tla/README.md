# A TLA+ verification of AModernCppPlayground

The repository is a collection of about ninety self-contained C++ programs: one
concept per file, with a `main` that exercises and asserts it. This directory
holds TLA+ models of the programs that keep state worth arguing about, TLC
configurations that check them on small instances, and TLAPS proofs for all
concurrent components, the containers of `src/stl_like`, the owning classes and
allocators, and the programs of `src/systems` that keep state. Paths below are relative to the repository (`src/...`).

## 1. Inventory

### Components with concurrency (modelled)

| Component | State | Operations | What makes it correct |
|---|---|---|---|
| SPSC queue, `src/concurrency/lock_free_queue.cpp` | two atomic indices, a ring of plain slots | `push`, `pop`, `size`, spinning producer and consumer | no race on a slot, FIFO, nothing lost or repeated, all delivered |
| Closable queue, `src/stl_like/thread_safe_queue.cpp` | queue, `closed_`, one condition variable | `push`, `pop`, `try_pop`, `close` | no lost wakeup, drain before exit, everyone is released by `close` |
| Bounded buffer, `src/concurrency/producer_consumer.cpp` | bounded queue, two condition variables, two counters | `produce`, `consume`, claim and undo in `main` | `notify_one` suffices, nobody waits for an item that never comes |
| Thread pool, `src/concurrency/thread_pool.cpp` | task queue, `stop_`, workers, futures | worker loop, `submit`, destructor | every accepted task runs once, no broken promise, the destructor returns |
| Condition variable demo, `src/concurrency/mutex_condvar.cpp` | queue, `done`, two accounts | `producer`, draining `consumer`, `transfer` | items consumed once in order; no deadlock, money conserved |
| Atomics, `src/concurrency/atomics.cpp` | flag, plain int, atomic maximum | `lock`, `unlock`, `update_max` | exclusion AND visibility; the maximum only grows |
| Memory model, `src/concurrency/memory_model.cpp` | counter, payload and flag, Dekker flags | the three litmus programs | the asserts hold for every value a load may return |

The hard behaviours are interleavings of locked scopes with notifications made
after the unlock, spurious wakeups, stale values of atomic loads, and shutdown
that runs concurrently with everything else.

### Sequential components

| Component | State | Hard part |
|---|---|---|
| LRU cache, `src/stl_like/lru_cache.cpp` | list of nodes, map | pointer surgery under long operation sequences; the locking advice of lines 106-107 |
| Memory pool, doubly linked list, hash map (`src/stl_like`) | free list in the blocks; nodes; buckets | throwing constructors; links at the ends and in the middle; rehash behind `operator[]` |
| Order book, matching engine, market data (`src/systems/hft`) | price levels, iterators, the current bar | duplicate ids, crossing loop, late ticks, 32-bit sums |
| Scheduler (`src/systems/os/scheduler_sim.cpp`) | processes, ready queue, clock | arrivals during a slice, idle gaps, the bound on the wait |
| Virtual memory (`src/systems/os/virtual_memory.cpp`) | page table, TLB | `mapPage` leaves the TLB alone; ring replacement; shifts that lose bits |
| Signals (`src/systems/linux/signal_handling.cpp`) | two flags, the loop | a signal between any two steps, before a handler is installed, between test and reset |
| Epoll server (`src/systems/networking/epoll_server.cpp`) | descriptors, events, sockets of the kernel | edge-triggered reads, descriptors reused within a batch, hang-ups and resets, short writes whose result is ignored |
| TCP server, shared memory (`src/systems`) | a descriptor, a mapping | early returns, moves, failing constructors |
| LED controller (`src/systems/embedded`) | the state and the hardware | the table against what the LED shows |
| Algorithms (`src/dsa`, `patterns/strategy.cpp`) | none, or a trie, a forest, a segment tree | boundaries, ties, empty inputs, sequences of updates |
| Undo histories (`patterns/command.cpp`, `memento.cpp`) | text, two stacks | commands that throw, redo after a new edit |
| Event buses (`patterns/observer.cpp`, `modern_observer.cpp`, `mediator.cpp`) | subscriptions | delivery order, ids, connections moved onto each other, publication from a handler |
| Resource owners, allocators (`modern_cpp`, `pimpl_idiom.cpp`, `src/systems`) | what each object holds | self-assignment, moved-from objects, throwing constructors, alignment, sums and products of `size_t` that wrap |
| Stateful patterns (`patterns`: iterator, proxy, flyweight, state, chain of responsibility) | small records | wrap-around, a stale cache, a call in the wrong state |
| Trees, wrappers, handles (`patterns/composite.cpp` ..., `modern_cpp`) | trees, shared nodes, a vector | cycles of owners, copies or moves when a vector grows, order of wrappers |

### Not modelled

* **SIMD kernels**, and the moving average of the market data handler: floating
  point, which neither TLC nor TLAPS has.
* **Class-design demos** (factories, facade, adapter, type erasure, strong types,
  SOLID examples): each shows that one call reaches the right function. The
  compiler settles that; there is no second state to relate to the first. The
  singleton relies on the language's guarantee for function-local statics.
* **Compile-time features** (concepts, templates, `constexpr`, ranges, lambdas,
  structured bindings, copy elision): fixed when the program is compiled.
* Printing, timing loops and the text of messages, everywhere.
* A pool task that waits for the future of a task behind it (`ThreadPool`): no
  program of the repository submits one, and the pool does not promise to cope.

PROJECT.json lists every part with its status and every hazard with its line.

## 2. Modules

| Module | Models | Role |
|---|---|---|
| `SPSCQueue` | `lock_free_queue.cpp` | detailed specification and the inductive invariant `IndInv` |
| `BoundedFIFO` | - | abstract channel that `SPSCQueue` implements |
| `SPSCQueueProofs`, `ThreadSafeQueueProofs`, `BoundedBufferProofs`, `ThreadPoolProofs` | - | proofs about the module of that name |
| `LocksAndAtomicsProofs`, `ContainersProofs`, `SystemsProofs` | - | proofs about the programs composed in `MCLocksAndAtomics`, `MCContainers` and `MCSystems` |
| `Arithmetic` | - | lemmas the proofs share: remainders, least numbers, sums over finite sets, sequences that enumerate a set |
| `CondVar` | `std::condition_variable` (external) | `notify_one`, `notify_all` on a set of blocked threads |
| `ThreadSafeQueue` | `thread_safe_queue.cpp` | |
| `BoundedBuffer` | `producer_consumer.cpp` | |
| `ThreadPool` | `thread_pool.cpp` | |
| `MutexCondvar`, `AccountTransfer` | `mutex_condvar.cpp` | |
| `SpinLock`, `UpdateMax` | `atomics.cpp` | |
| `MemoryModel` | `memory_model.cpp` | |
| `LRUCache`, `AbstractLRU` | `lru_cache.cpp` | detailed and abstract cache |
| `LRUCacheReadLock` | `lru_cache.cpp`, lines 106-107 | the recommended locking, statement by statement |
| `MemoryPool` | `memory_pool.cpp` | |
| `DoublyLinkedList` | `doubly_linked_list.cpp` | |
| `HashMap` | `hash_map.cpp` | |
| `MatchingEngine`, `OrderBook`, `MarketData` | `matching_engine.cpp`, `order_book.cpp`, `market_data_handler.cpp` | |
| `Scheduler` | `scheduler_sim.cpp` | one iteration of a scheduler's loop per step |
| `VirtualMemory` | `virtual_memory.cpp` | |
| `SignalHandling` | `signal_handling.cpp` | the loop and the signals that interrupt it |
| `EpollServer` | `epoll_server.cpp`, with the kernel's sockets (external) | |
| `ArrayAlgorithms`, `StringAlgorithms`, `GraphAlgorithms` | `src/dsa`, `strategy.cpp` | functions, no state |
| `BehaviouralPatterns` | undo histories (`command.cpp`, `memento.cpp`) and event buses (`observer.cpp`, `modern_observer.cpp`, `mediator.cpp`) | objects as records |
| `Ownership` | owning classes and allocators of `modern_cpp`, `patterns` and `networking`; the exits of `tcp_server.cpp` | objects as records |
| `SmallObjects` | `state_machine.cpp` and the stateful patterns | objects as records |
| `ValueObjects` | trees, wrappers, handles, `threads_basics.cpp` | objects as records |
| `MCSPSCQueue`, `MCThreadPool` | - | constants for TLC |
| `MCLocksAndAtomics` | `mutex_condvar.cpp`, `atomics.cpp`, `memory_model.cpp` | the parts of these programs as alternatives of one run |
| `MCContainers` | `src/stl_like`, without the queue; the owners and allocators of `Ownership` | the containers and owners as alternatives of one run |
| `MCSystems` | `src/systems` | its programs as alternatives of one run |
| `MCAlgorithms` | `src/dsa` | all small inputs, and sequences of operations on its structures |
| `MCPatterns` | `src/patterns`, `src/modern_cpp` | all short sequences of calls on one object |

### How code becomes actions

* **Locked scopes.** What a thread does between acquiring and releasing a mutex
  is invisible to others, so it is one action. A `notify` inside the scope is
  part of it; a `notify` after the unlock (`thread_safe_queue.cpp:46,73`,
  `thread_pool.cpp:72,81`, `mutex_condvar.cpp:44,50`) is a step of its own.
* **Waiting.** `cv.wait(lock, pred)` is a loop: with the lock held, either the
  predicate is false and the thread joins the set of blocked threads, or it goes
  on. `notify_one` removes one arbitrary thread, `SpuriousWakeup` any thread at
  any time. A thread that was woken competes for the lock like any other, so
  another one may take what it was woken for.
* **Atomics.** An atomic is the sequence of values ever stored in it (its
  modification order). A thread reads its own stores exactly; a load of another
  thread's store may return any value not older than one it has read before.
  An acquire load that reads a release store makes the stores before it visible;
  `headAcq`, `tailAcq`, `view`, `released`, `visible` are the happens-before
  knowledge this gives. A read-modify-write reads the newest value. Seq_cst
  accesses (`MemoryModel`, Dekker) take effect in one total order, the
  interleaving. A plain read that is not ordered after all writes is a data race
  and returns any of the values it may see.
* **std::lock** (`AccountTransfer`) is external: block on one mutex, try the
  other, give back and start with the other on failure.
* **Heap.** `LRUCache` has addresses, `new` returns any free one, and `delete`
  frees it, so reuse of the evicted address happens at once. The map is a
  function from keys to nodes or `Null`. `MemoryPool` keeps the link inside the
  block, where an allocation overwrites it; `DoublyLinkedList` has one heap for
  two lists, so that a move or a copy can be seen to share no node.
* **Pure operations.** The operations of the linked list and of the hash map are
  functions from a memory (or map) to the next one. The actions apply them to
  the current state; `OperationsCorrect` and `MapOperationsCorrect` apply every
  operation with every argument to every reachable state and compare its effect
  with that of the operation on a sequence or a partial function.
* **Objects.** In `Ownership` and the modules of `MCPatterns` an operator named after
  a member function maps the record of an object to the record after the call, and
  may add to history fields what a property compares the object with. `MCContainers`
  and `MCPatterns` choose an object in the initial state and then call anything the
  class allows. What undefined behaviour forbids is a guard there: a moved-from
  `Widget` is only destroyed or assigned to, a ring iterator at the end is not
  incremented. An iterator of the ring made before an overwriting `push` is legal to
  use and may show the wrong elements; `fresh` records that no such `push` came in
  between, and the property says that a fresh iterator visits what the ring held. `Ownership` describes each owning class by what its special
  members do (whether they copy, how assignment treats the target, how the
  resource is given up, whether the constructor may fail); the operations are
  common to all classes.
* **Algorithms.** Loops are folds or recursions over the variables the loop
  changes. A property compares the result with a definition that says what is
  to be computed (the least k such that ..., the set of all paths ...).
* **Mains.** A definition ending in `Main` evaluates the calls and the asserts of
  a `main` on the same operators, which ties the model to the program's tests.
* **The kernel** in `EpollServer` is external: a readiness list that reports a
  client once after bytes, the end of its stream or a reset arrived
  (edge-triggered), the listening socket as long as a connection waits
  (level-triggered), and `accept` that returns the lowest free descriptor, so a
  number is reused at once. Once a connection was reset, `read` may fail with bytes
  still unread, which line 125 treats like the end of the stream. `write` on the
  non-blocking socket takes any part of the bytes, or none (EAGAIN, or a reset);
  line 134 ignores its result, so the rest is counted as `lost`. After a reset it
  may also raise SIGPIPE, which nothing in the program catches: `pc` is then
  `"killed"`.
* **Signals** arrive between any two steps of the loop and their handler runs to
  its end. Before its `sigaction` call a signal has its default effect.
* **Word width.** The arena computes in a `size_t` of `SIZE_T` values: the rounded
  offset, the end of the chunk, the product of number and size, and the count of
  allocations wrap as in lines 50-56 and 79 of `custom_allocator.cpp`, and the check of line
  51 sees the wrapped sum. `buffer_` is the address of the buffer, which `new` aligns
  to `MAX_ALIGN` only. The bit tricks compute modulo 2^w with a small w. `VirtualMemory`
  has the number of values of a word as a constant, `WORD`, which `PAGE_SIZE`
  divides (2^32 and 4096 in the code); a shift is a product cut to the word, so it
  loses the bits it loses in the code.
* **The matching loops** `matchBuy` and `matchSell` are one pair of actions with the
  side as parameter; each iteration is a step, so the invariants hold in the
  middle of a call as well. In `OrderBook` a list node has a name that is never
  reused, which makes a dangling iterator visible. Quantities of the order book
  are summed modulo a small number standing for 2^32. The statements about the
  top of the book therefore say what happens below and at the overflow: the
  price is always right, the quantity only while it fits.

Operators whose names say what is wrong with them (`PushUnchecked`,
`ClearRelaxed`, ...) stand next to the definition they distort. No specification
uses them: they are the mutations each property is tested against.

## 3. Runs

| Run | Instance | Result |
|---|---|---|
| `spsc_queue` | 4 slots, 9 messages | no race, FIFO, conservative `size()`, refinement of `BoundedFIFO`, delivery |
| `spsc_queue_one_slot` | 1 slot | **violated**: nothing is delivered, although `static_assert` accepts it |
| `thread_safe_queue` | 2 producers x 2 items, 2 consumers, a `try_pop` thread, `close` after the join or earlier | no lost wakeup or item, order per producer, drain before exit, all threads end |
| `bounded_buffer` | 3 producers x 2 items, 2 consumers, 2 slots | a wakeup for every item and slot, claims covered, final counts, termination |
| `thread_pool` | 3 workers; leaf, throwing, parent and child task | tasks run once, workers survive, no broken promise, futures become ready, destructor returns |
| `locks_and_atomics` | 4 items, 2 consumers; 3 transferring threads; 3 lock users; 4 threads in `update_max`; 3 counters x 3 and 3 Dekker trials | once and in order, no lost wakeup; no deadlock, no overdraft, conservation; exclusion, visibility, no lost increment; monotone maximum, right in the end; the litmus asserts; all joins return |
| `containers` | LRU cache: 4 keys, 2 values, capacity 3, 4 addresses; pool of 4 blocks; 2 lists sharing 4 nodes; hash map with 4 keys and 1, 2 or 3 initial buckets; 2 objects of each owning class, 4 resources, 2 contents; arena of 8 bytes at two addresses in a `size_t` of 32 values, requests of 1, 2, 3, 16, 27 and 31 bytes or objects of 1 to 3 bytes, alignments 1, 2 and 4; pool allocator of 4 blocks | free list, links, buckets and counts consistent; every operation has its abstract effect; refinement of `AbstractLRU`; `OwnershipSound`: no resource leaks, is shared or released twice; the pool allocator never hands out a block twice, and the arena hands out disjoint, aligned chunks unless a request was so large that a sum may wrap |
| `systems` | matching: 4 orders, 3 prices, quantities 0 to 2; order book: 2 ids, 3 adds, any cancels; 4 ticks at 3 times and 3 prices; 3 processes, 3 arrival times, bursts 1 to 3, quanta 1 and 2; 3 pages, 2 frames, 2 TLB entries, 4 translations; 3 signals; 2 clients, 2 descriptors, a buffer of 2 bytes, 3 bytes sent each | `MatchingSound`, `PriorityRespected`, `BookSound`, `BarsSound` as for the trading programs; `SchedulesSound`: work conserving, accounts balance, bounded wait; `TranslationsSound`: answers right but for pages mapped again since the flush; `SignalsSound`: no request is forgotten except in the window of line 88; `LoopsEnd`: both loops end; `ServerSound`: each descriptor serves its own client, every byte read is echoed or counted as lost, a connection is closed only if it ended, and bytes or its end are missed only after a read that did not drain the socket |
| `algorithms` | arrays up to 5 of 4 numbers, texts up to 6, patterns up to 4, 3 nodes and edges, 7 updates, boards up to 5x5 | `SequencesCorrect`, `StructuresCorrect`: every function agrees with its reference definition |
| `patterns` | 5 calls on an object, 12 on those with more states | `HistoriesAndBuses`, `ObjectsSound` |
| `epoll_drain` | the epoll server as above | **violated**: bytes stay in the socket without an event |
| `lru_cache_read_lock` | 2 readers, 3 entries | **violated**: two `get`s corrupt the list |

`locks_and_atomics` explores five parts that share no state: the `main`s join all
threads of one part before they start the next. A behaviour picks one part in
the initial state and leaves the variables of the others alone, so the run is
the sum of the five state spaces and each property speaks about its own part.
`containers`, `systems`, `algorithms` and `patterns` are built in the same way.
The relaxed `fetch_add` counter of `atomics.cpp:29-35` is, instruction for
instruction, the counter of `memory_model.cpp:30-37`, which is in the run.

**Bounds.** Nine messages wrap a ring of four slots twice and leave each thread
every distance from the other. Two threads of a kind are needed for a wakeup to
reach the wrong one, three (counting producers, `try_pop` threads or workers)
for one to be stolen while another sleeps. One more address than the cache's capacity
makes `new` choose between a fresh and a reused address, one more key makes it
evict. Four nodes for two lists allow every operation at the front, in the middle
and at the back. The four hash values meet in the same bucket for every small
number of buckets, so a rehash moves some entries and keeps others together. Two
objects are moved and copied onto each other and onto themselves, and four resources
let each of them acquire one again after it lost one; an arena of eight bytes is
exhausted, at once or after padding, by requests of up to three objects. Requests
near the 32 values of its `size_t` wrap the sum and pass the check or fail it
depending on the offset; 16 objects of two bytes wrap the product to nothing.
Three orders on one side let an incoming one sweep two levels, or empty one order
and leave the next partly filled; two ids and three adds let an id repeat before and after a cancel.
Arrivals at 0, 1 and 4 make processes arrive together, within a slice and after an
idle gap; bursts up to 3 with quanta 1 and 2 are shorter than, equal to and longer
than a quantum. Three pages for two TLB entries replace entries, the frames lose a
bit when shifted in a word of three. Two clients for two descriptors let one reuse
the number another left within a batch of two events. Three signals are enough for
a shutdown and a reload on each side of a reset. Twelve calls wrap rings of up to
three slots and let a vector of widgets grow five times.
`containers` uses the symmetry of the cache's addresses, which are only compared
for equality, and checks invariants and a safety refinement; the other runs use
none.

**Fairness.** Every run with a liveness property assumes weak fairness of each
thread's next step: the operating system schedules runnable threads. Nothing
is assumed of spurious wakeups, of `try_pop` threads, or of the client that may
submit or stop the pool. For atomics, a stored value becomes visible in finite
time (C++ `[intro.progress]`), so a spinning thread eventually loads the newest
value, and `compare_exchange_weak` does not fail spuriously for ever. The
spinlock is not fair and no fairness of it is assumed: threads finish because
each of them takes the lock a bounded number of times. For the transfers only the
absence of deadlock is checked, not progress: `std::lock` may back off for ever.
In `systems` fairness is assumed of the scheduler's loop and of the main loop of
the signal demo, which is what `LoopsEnd` is about; signals and clients come or
do not. `algorithms` and `patterns` have no liveness property and end when their
bounded sequences of calls do, so they do not check for deadlock.

**Preconditions.** `Scheduler` assumes bursts above zero: a process with burst 0
that arrives after time 0 is never queued (line 65) and `completed` would not
reach `n`; no workload of the program has one. Orders of the order book have positive
quantities; the code accepts 0, and an order of 0 shares would be a level without
shares. `OwnershipSound` promises disjoint chunks of an arena only while capacity,
alignment and size of each request fit a `size_t` together (`Modest`): the code has no
such guard, and in `Arena(64)` a request of `SIZE_MAX - 7` bytes after one of 8 is
granted and sets `offset_` back to 0, so that the next request gets memory that is
in use. Addresses are aligned only to what `new` guarantees for the buffer; to a larger
alignment only the offsets are. Requests of 0 bytes are left out, they only change
`alloc_count_`. The masks of the n-queens solver are sets of columns, which agree with
`uint32_t` for boards up to 16, and the checked ones are below that. `startsWith("")`
is true of an empty trie, as in the code, although no inserted word begins with the
empty one.

**Findings.**

1. `lock_free_queue.cpp:34` requires only "Capacity must be power of 2". One is
   a power of two, and with it `push` always finds the queue full.
2. `lru_cache.cpp:106-107` recommends a read lock for `get`. `get` relinks nodes,
   and two concurrent ones leave a node that is its own successor.

3. `epoll_server.cpp:11` says of edge-triggered events "must drain fully"; line 124
   reads once per event, and the bytes beyond the buffer stay behind.

Remarks that are not findings. The header of `mutex_condvar.cpp` (line 18) warns
about notifying without the lock while line 44 notifies "AFTER releasing lock
for efficiency". `CondvarSound` and `JoinsReturn` show that the code is right:
the predicate is changed under the lock, which is what matters. A comment of
`state_machine.cpp` (line 119) says that in the error state "only reset works";
the table (line 84) also leaves it on `PowerOff`. The header of
`scheduler_sim.cpp` (line 8) calls the priority scheduler preemptive; line 110
runs a process to its end, and that is what is modelled. `epoll_server.cpp` ignores
the result of `write` (line 134) and does not ignore SIGPIPE: echoed bytes may be
missing, and a reset connection may end the server. When the end of a stream is
reported together with its last bytes, the one `read` of that event returns the bytes
and the connection stays open; `LeftOpenIfRead` says that this is the only way for it to
stay open unnoticed.

## 4. Proofs

`SPSCQueueProofs` proves, for every power-of-two `Capacity` and every number of
messages, from `CapacityAssumption` and `MessagesAssumption` only:

| Theorem | Statement |
|---|---|
| `RingInvariant` | `SafeSpec => []IndInv` |
| `SlotsNeverRace` | `SafeSpec => []NoDataRace` |
| `DeliveryInOrder` | `SafeSpec => []ReceivedInOrder` |
| `SizeConservative` | `SafeSpec => []SizeIsConservative` |
| `QueueImplementsFIFO` | `SafeSpec => ImplementsFIFO` |

The argument. None of the properties is inductive: whether a slot may be
written depends on which `head_` store the producer has seen, and indices are
only known modulo `Capacity`. `IndInv` adds

* `IndexInv`: the n-th stored index is `(n - 1) % Capacity`, so a masked index and
  the number of stores determine each other inside a window of `Capacity`;
* `WindowInv`: `headAcq <= Popped <= tailAcq <= Pushed < headAcq + Capacity`, with
  room to spare for a producer past its full check and a message for a consumer
  past its empty check;
* `SlotInv`: message m is in slot `m % Capacity` while it is between the indices.

The full check compares masked values, one of them stale. `CheckLeavesRoom` shows
that this is enough: inside the window two different counts have different
residues (`ModDistinct` in `Arithmetic`). The write of a slot leaves all
published messages alone for the same reason. The refinement follows with
`Content`, the slots between the indices read as a sequence: publishing appends
to it, releasing takes its head, and every other step leaves it as it was.

The other concurrent programs, each for every number of threads and items:

| Module | Theorem and the property it states | Inductive invariant |
|---|---|---|
| `ThreadSafeQueueProofs` | `WakeupsNotLost` (`NoLostWakeup`), `CloseIsSound` (`CloseDrains`) | `QueueInv`: both, the types, and "`closed_` is set exactly when `close()` has passed its locked scope" |
| | `ItemsPassOnce` (`ItemsOnceInOrder`) | `FlowInv`: what the takers hold and what is queued ascends in each producer's numbers, what was taken precedes what is queued, two takers share nothing, nothing is missing |
| `BoundedBufferProofs` | `BufferTypeOK`, `NotifyOneEnough` (`NotifyOneSuffices`), `ClaimsSound` (`ClaimsAreCovered`) | `BufferInv`: these together; a notification moves one thread from the blocked to the awake set, so each leaf compares cardinalities before and after |
| | `AssertsHold` (`FinalCounts`) | `CountInv`: each counter is the number of items past a point of the code, no item is in two places, and nobody leaves while items are missing |
| `ThreadPoolProofs` | `PoolKeepsTasks` (`TasksKept`) | `PoolInv`: `Places` (a submitted task is in the queue, with one worker, or done), a wakeup for every task, and workers leave a stopped and drained pool only |
| `LocksAndAtomicsProofs` | `SpinLockSound` (`LockSound`) | `LockInv`: exclusion, "a free lock has published all writes", "what the holder has read is the newest value" |
| | `MaximumCorrect` (`MaximumSound`) | `MaxInv`: every value in the history is at most the newest, which is 0 or a proposed value; a thread in the loop holds the value it read, and a thread that is done left a value at least its own |
| | `LitmusCorrect` (`LitmusAsserts`) | `LitmusInv`: the counter is the number of increments made, a raised flag published both fields, and of the two Dekker threads at most one may count in a trial |
| | `CondvarCorrect` (`CondvarSound`) | `CondvarInv`: the vectors and the buffer ascend, what is consumed is below what is buffered, and together they are what was produced |
| | `TransfersCorrect` (`TransfersAtomic`) | `TransferInv`: who owns which mutex at which step, what was checked or read under the locks still holds, and balances plus money in flight are the initial sum |
| | `PartsCorrect` | the invariants of the five parts together are an invariant of the run's specification: a step of one part leaves the variables of the others alone |

`ContainersProofs` proves every property of the run `containers`, for every size,
capacity, hash function and number of objects:

| Theorem and the property it states | Inductive invariant |
|---|---|
| `PoolAlwaysSound` (`PoolSound`, of the pool's own `Spec`) | `PoolSound` itself: the history variable `stack` names the blocks on the free list in order, `ListIsStack` ties it to the links inside the blocks, and `NoBlockTwice` keeps the stack, the blocks held and the blocks lost to a throwing constructor apart, so that the link `deallocate` writes is in no other block |
| `CacheListSound` (`ListIntegrity`), `CacheIsLRU` (`ImplementsLRU`) | `CacheInv`: some sequence of addresses is the list (`Threads`: `next` and `prev` link neighbours, `head_` and `tail_` are its ends), contains every live node, and is what `map_` knows, key by key |
| `ListsAlwaysSound` | `ListsHold`: every list is such a sequence, no node is in two lists, and every live node is in one |
| `MapAlwaysSound` | `MapHolds`: the buckets hold, all together, a finite set of entries with distinct keys, each in the bucket of its hash, and `size_` is their number |
| `ContainersAlwaysBehave` (`ContainersBehave`) | both |
| `OwnersAlwaysSound` (`OwnershipSound`) | `OwnerInv`: `OwnersHold` (an object holds nothing or one open resource that nobody else has, every open resource is held or was handed to the caller, none was released twice), `ArenaHolds` (`offset_` is at most the capacity and below `SIZE_T`; while all requests were modest, chunks are aligned, disjoint and below `offset_`, and they are counted and at most `offset_` many, so that the count cannot wrap), `BlocksHold` (the links inside the blocks enumerate the blocks that are not lent) |

The properties of the lists are stated with a walk along `next` that stops after as
many steps as there are addresses, and say nothing about the sequence itself. The
invariants therefore claim that a sequence exists, each operation is shown to turn it
into the sequence with an element added, removed or moved to the front (`Linked` and
the lemmas on it serve the cache and the lists alike), and `WalkCollects` shows that
the walk collects exactly this sequence. The refinement follows from the same lemmas:
`get` and `put` do to the entries along the sequence what `AbstractLRU` does to its
sequence of entries, the evicted entry being the last one. That every operation of
the linked list and of the map has its abstract effect (`OperationsCorrect`,
`MapOperationsCorrect`) is proved for any memory or map that satisfies the invariant,
whether or not an action of the model applies the operation with these arguments. Copying a list
and rehashing are loops; their recursive functions are shown to exist and to keep a
loop invariant by arguments from a least counterexample. For the owners, each of the
special members is shown to keep `OwnersHold` for every combination of traits that one
of the classes has. `ContainersAlwaysSound` puts the four invariants together, for the
specification the run checks.

`SystemsProofs` proves the properties of the run `systems` for all its constants.
Each program is proved on its own specification; `SystemsRefine` shows that the
composition implements these, except for the scheduler, whose invariant
`SchedulesHold` proves directly for the composition; and the theorems named `...Holds` state the run's
properties of the run's specification.

| Theorem and the property it states | Inductive invariant |
|---|---|
| `EngineHolds` (`MatchingSound`), `PriorityCorrect` (`PriorityRespected`) | `EngineInv`: the levels are queues in the order of ids, the two sides of the book never cross, trades are within both limits, and what was submitted of an order is what was traded and what is left. Priority is an action property that follows from it for every fill |
| `BookHolds` (`BookSound`) | `BookInv`: the nodes of a level ascend, every order that was not superseded is found through the lookup, and every entry of the lookup names a node of its own level |
| `BarsHold` (`BarsSound`) | `MarketInv`: high and low are reached by a tick of the bar and bound all of them; volume and count are sums over its ticks |
| `SchedulesHold` (`SchedulesSound`) | `SchedInv`: round robin's queue lists the ready processes, each once (`Enumerates`), and the k-th of them waits at most for its turn; under priorities, whoever started had no more important process waiting. `Counted` keeps the time used, a sum over the processes, below the clock |
| `TranslationsHold` (`TranslationsSound`) | `MemoryInv`: the slots, counted backwards from `tlb_next_` (`Age`), are filled in the order of the walks, no page is walked while it is cached, and an address is put together from frame and offset |
| `SignalsHold` (`SignalsSound`) | `SignalInv`: which flags may be raised at which step of the loop |
| `ServerHolds` (`ServerSound`) | `ServerInv`: a batch has every event once and for an open connection, open connections have different descriptors, every event has a reason (unread bytes, the end of the stream or a reset), bytes are unread, echoed or lost, and what waits without an event is left over from a read that filled the buffer or returned bytes before the end |

The invariants on sums and lists rest on `Arithmetic`. The sum of the community
modules is a recursive function; `SolutionExists` and `SolutionSplits` show that
its equation has a solution and that any element may be taken out first. These,
and the other inductions over finite data (`LoopAdds`, `LowestPriority`), are
arguments from a least counterexample (`LeastNumber`).

The proofs assume what the modules' ASSUMEs say: finite, disjoint sets of threads,
at least one slot, one consumer and one item per producer where the code has them;
for the containers, in `ContainersAssumption`, that the cache holds at least one entry
(the assert of `lru_cache.cpp:70`) and `new` finds a free address, that null pointers
are no addresses, that hashes are natural numbers, that a map starts with at least one
bucket, that `new` aligns buffers to `MAX_ALIGN`, that the size of the arena fits a
`size_t`, and that requests, objects and alignments are not zero;
for the systems programs that prices, bursts, quanta, sizes and durations are
positive, that the page size divides the word, and that there are finitely many
clients. No theorem bounds the lengths of behaviours but where the model's own
guards do (`MaxOrders`, `MaxTicks`, ..., which are arbitrary numbers there).

Only model-checked: all liveness properties (TLAPS does not handle fairness and
ENABLED here); `SequencesCorrect` and `StructuresCorrect`, whose algorithms recurse
over their inputs; `HistoriesAndBuses` and `ObjectsSound`, whose modules use recursive
operators for trees, handler chains and publications made from within handlers, which
the prover does not accept.

## 5. Plan

Built in this order: the concurrent programs; the containers of `src/stl_like`; the
programs of `src/systems`; the algorithms of `src/dsa`; the objects of
`src/patterns` and `src/modern_cpp`. What section 1 lists as not modelled stays out.

Every safety property of the concurrent programs, of the containers and owners and
of the systems programs is proved. What is left for proofs are the undo histories and
event buses of `MCPatterns`, for which nested publication would have to be written
without recursive operators.
