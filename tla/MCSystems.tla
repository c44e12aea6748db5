------------------------------ MODULE MCSystems ------------------------------
(***************************************************************************)
(* The programs of src/src/systems for TLC: matching engine, order book    *)
(* and market data handler of hft, scheduler and virtual memory of os,     *)
(* signal handling and the epoll server.  They are separate programs; a    *)
(* behaviour uses the one chosen in its initial state.                     *)
(***************************************************************************)
EXTENDS MatchingEngine, TLC

CONSTANTS
    Ids, BookPrices, Quantities, Modulus, MaxAdds,                  \* order book
    TickPrices, TickQuantities, Times, BAR_DURATION_NS, MaxTicks,   \* market data
    Arrivals, Bursts, Priorities, MaxProcesses, Quanta,             \* scheduler
    Pages, Frames, TLB_SIZE, PAGE_SIZE, WORD, MaxAccesses,          \* virtual memory
    MaxSignals,                                                     \* signals
    Clients, Fds, BUF, MAX_EVENTS, MaxHandled, MaxSent              \* epoll server

VARIABLES
    program,
    levels, order_lookup_, adds, superseded,
    current_bar_, ticks_processed_, emitted, ticks, past,
    policy, quantum, procs, ready_queue, in_queue, current_time, completed, since,
    page_table_, tlb_, tlb_next_, tlb_hits_, tlb_misses_, page_faults_, answer, walked, remapped,
    mainPc, installed, g_shutdown_requested, g_reload_requested, iteration, signals, unserved, missed, overtime,
    net, fd, sent, unread, edge, hangup, aborted, echoed, lost, full, batch, serverPc, handled

Book == INSTANCE OrderBook WITH book <- levels, Prices <- BookPrices
Market == INSTANCE MarketData
Scheduler == INSTANCE Scheduler
Memory == INSTANCE VirtualMemory
Signals == INSTANCE SignalHandling WITH pc <- mainPc
Epoll == INSTANCE EpollServer WITH pc <- serverPc

(* Prices are positive, since 0 is getTopOfBook's answer for an empty side, and
   so are the quantities added to the book, the bursts and the quanta.  The
   page size divides the address space, and 0 stands for the listening socket. *)
ASSUME SystemsAssumption ==
    /\ Prices \cup BookPrices \cup Quantities \cup Bursts \cup Quanta \subseteq Nat \ {0}
    /\ {Modulus, BAR_DURATION_NS, TLB_SIZE, PAGE_SIZE, WORD, BUF, MAX_EVENTS} \cup Fds \subseteq Nat \ {0}
    /\ {MaxQuantity, MaxOrders, MaxAdds, MaxTicks, MaxProcesses, MaxAccesses, MaxSignals, MaxHandled, MaxSent} \subseteq Nat
    /\ Pages \cup Frames \cup Arrivals \cup TickQuantities \subseteq Nat /\ Priorities # {}
    /\ TickPrices \cup Times \cup Priorities \subseteq Int
    /\ \E pages \in 1 .. WORD : WORD = PAGE_SIZE * pages
    /\ IsFiniteSet(Clients) /\ 0 \notin Clients

bookVars == <<levels, order_lookup_, adds, superseded>>
marketVars == <<current_bar_, ticks_processed_, emitted, ticks, past>>
schedulerVars == <<policy, quantum, procs, ready_queue, in_queue, current_time, completed, since>>
memoryVars == <<page_table_, tlb_, tlb_next_, tlb_hits_, tlb_misses_, page_faults_, answer, walked, remapped>>
signalVars == <<mainPc, installed, g_shutdown_requested, g_reload_requested, iteration, signals, unserved, missed, overtime>>
epollVars == <<net, fd, sent, unread, edge, hangup, aborted, echoed, lost, full, batch, serverPc, handled>>
systemsVars == <<vars, bookVars, marketVars, schedulerVars, memoryVars, signalVars, epollVars, program>>

(* The programs that were not chosen are not started. *)
SystemsInit ==
    /\ program \in {"engine", "book", "market", "scheduler", "memory", "signals", "epoll"}
    /\ Init /\ Book!Init /\ Market!Init /\ Memory!Init /\ Signals!Init
    /\ Epoll!Init /\ (program # "epoll" => serverPc = "exit")
    /\ IF program = "scheduler" THEN Scheduler!Init
       ELSE /\ policy = "none" /\ quantum = 0 /\ current_time = 0 /\ completed = 0 /\ in_queue = {}
            /\ procs = <<>> /\ ready_queue = <<>> /\ since = <<>>

SystemsNext ==
    \/ /\ program = "engine" /\ Next
       /\ UNCHANGED <<program, bookVars, marketVars, schedulerVars, memoryVars, signalVars, epollVars>>
    \/ /\ program = "book" /\ Book!Next
       /\ UNCHANGED <<program, vars, marketVars, schedulerVars, memoryVars, signalVars, epollVars>>
    \/ /\ program = "market" /\ Market!Next
       /\ UNCHANGED <<program, vars, bookVars, schedulerVars, memoryVars, signalVars, epollVars>>
    \/ /\ program = "scheduler" /\ Scheduler!Next
       /\ UNCHANGED <<program, vars, bookVars, marketVars, memoryVars, signalVars, epollVars>>
    \/ /\ program = "memory" /\ Memory!Next
       /\ UNCHANGED <<program, vars, bookVars, marketVars, schedulerVars, signalVars, epollVars>>
    \/ /\ program = "signals" /\ Signals!Next
       /\ UNCHANGED <<program, vars, bookVars, marketVars, schedulerVars, memoryVars, epollVars>>
    \/ /\ program = "epoll" /\ Epoll!Next
       /\ UNCHANGED <<program, vars, bookVars, marketVars, schedulerVars, memoryVars, signalVars>>

SystemsSpec ==
    /\ SystemsInit /\ [][SystemsNext]_systemsVars
    /\ WF_schedulerVars(program = "scheduler" /\ Scheduler!Step)
    /\ WF_signalVars(program = "signals" /\ Signals!Main)

-----------------------------------------------------------------------------
(* The order book never follows a dangling iterator and reports its top
   correctly (OrderBook). *)
BookSound == program = "book" => Book!BookSound

(* Every tick is in exactly one bar, and bars aggregate their ticks (MarketData). *)
BarsSound == program = "market" => Market!BarsSound

(* Round robin is work conserving with a bounded wait, priorities are respected,
   and the accounts of scheduler_sim.cpp balance (Scheduler). *)
SchedulesSound == program = "scheduler" => Scheduler!SchedulesSound

(* The TLB of virtual_memory.cpp is a cache of the page table, stale only for pages
   that were mapped again (VirtualMemory). *)
TranslationsSound == program = "memory" => Memory!TranslationsSound

(* Signals reach the main loop of signal_handling.cpp, except in the window between
   reload and reset (SignalHandling). *)
SignalsSound == program = "signals" => Signals!SignalsSound

(* The event loop of epoll_server.cpp serves the right connections, accounts for every
   byte it read and misses the end of a stream only where it reads once per event
   (EpollServer). *)
ServerSound == program = "epoll" => Epoll!ServerSound

(* The while loops of scheduler_sim.cpp and of signal_handling.cpp end: every process
   completes, and main returns however its sleeps are interrupted. *)
LoopsEnd ==
    /\ program = "scheduler" => Scheduler!AllComplete
    /\ program = "signals" => Signals!MainEnds
==============================================================================
