-------------------------- MODULE MCLocksAndAtomics --------------------------
(***************************************************************************)
(* The programs mutex_condvar.cpp, atomics.cpp and memory_model.cpp of     *)
(* src/src/concurrency for TLC.  Their parts share no state: main joins    *)
(* all threads of one part before it starts the next one.  A behaviour     *)
(* therefore runs one part, chosen in the initial state, and leaves the    *)
(* variables of the others as they are.                                    *)
(***************************************************************************)
EXTENDS SpinLock, TLC

CONSTANTS
    Consumers, NUM_ITEMS,                                  \* condition variable
    Movers, Accounts, From, To, Amount, InitialBalance,    \* transfers
    Transfers, NoOne,
    Proposers, Proposed,                                   \* maximum
    Counters, PER, Trials,                                 \* litmus programs
    a, b, t1, t2, t3, t4              \* accounts and threads of the instances

VARIABLES
    part,
    buffer, done, cv, i, pcProducer, pcConsumer, consumed,
    owner, balance, sum, pcTransfer, first, transferred,
    shared_max, observed, current, pcMax,
    stats_counter, counted, written, ready, published, visible, seen,
    pcP, pcC, flag, observer_count, pcDekker, trial

Condvar == INSTANCE MutexCondvar WITH pcP <- pcProducer, pc <- pcConsumer

Transfer == INSTANCE AccountTransfer
    WITH Threads <- Movers, Rounds <- Transfers,
         reg <- sum, pc <- pcTransfer, rounds <- transferred

Maximum == INSTANCE UpdateMax
    WITH Threads <- Proposers, view <- observed, pc <- pcMax

Litmus == INSTANCE MemoryModel WITH pc <- pcDekker

(* What the mains guarantee: there is a consumer, transfers are between two
   different accounts that start with money in them and move no negative
   amount, and the proposals are not negative. *)
ASSUME BoundsAssumption ==
    /\ {NUM_ITEMS, Transfers, PER, Trials} \subseteq Nat
    /\ Consumers # {} /\ IsFiniteSet(Counters)

ASSUME TransferAssumption ==
    /\ IsFiniteSet(Movers) /\ IsFiniteSet(Accounts) /\ NoOne \notin Movers
    /\ From \in [Movers -> Accounts] /\ To \in [Movers -> Accounts]
    /\ \A t \in Movers : From[t] # To[t]
    /\ Amount \in [Movers -> Nat] /\ InitialBalance \in [Accounts -> Nat]

ASSUME MaximumAssumption == Proposed \in [Proposers -> Nat]

condvarVars == <<buffer, done, cv, i, pcProducer, pcConsumer, consumed>>
transferVars == <<owner, balance, sum, pcTransfer, first, transferred>>
maximumVars == <<shared_max, observed, current, pcMax>>
litmusVars == <<stats_counter, counted, written, ready, published, visible, seen,
                pcP, pcC, flag, observer_count, pcDekker, trial>>
partVars == <<vars, condvarVars, transferVars, maximumVars, litmusVars, part>>

PartInit ==
    /\ part \in {"spinlock", "condvar", "transfer", "maximum", "litmus"}
    /\ Init /\ Condvar!Init /\ Transfer!Init /\ Maximum!Init /\ Litmus!Init

PartNext ==
    \/ /\ part = "spinlock" /\ Next
       /\ UNCHANGED <<condvarVars, transferVars, maximumVars, litmusVars, part>>
    \/ /\ part = "condvar" /\ Condvar!Next
       /\ UNCHANGED <<vars, transferVars, maximumVars, litmusVars, part>>
    \/ /\ part = "transfer" /\ Transfer!Next
       /\ UNCHANGED <<vars, condvarVars, maximumVars, litmusVars, part>>
    \/ /\ part = "maximum" /\ Maximum!Next
       /\ UNCHANGED <<vars, condvarVars, transferVars, litmusVars, part>>
    \/ /\ part = "litmus" /\ Litmus!Next
       /\ UNCHANGED <<vars, condvarVars, transferVars, maximumVars, part>>

(* The fairness each part assumes of its own threads. *)
PartSpec ==
    /\ PartInit /\ [][PartNext]_partVars
    /\ part = "spinlock" => Fairness
    /\ part = "condvar" => Condvar!Fairness
    /\ part = "maximum" => Maximum!Fairness
    /\ part = "litmus" => Litmus!Fairness

-----------------------------------------------------------------------------
(* What the parts promise, as the modules state it: the consumers of
   mutex_condvar.cpp see every item once, in order, and miss no notification. *)
CondvarSound == Condvar!ConsumedOnceInOrder /\ Condvar!NoLostWakeup

(* Transfers under scoped_lock are atomic and hold no lock while waiting. *)
TransfersAtomic == Transfer!TransfersAtomic

(* The maximum of update_max never shrinks and is right in the end. *)
MaximumSound == Maximum!OnlyGrows /\ Maximum!MaximumOfTheFinished

(* The asserts of memory_model.cpp. *)
LitmusAsserts == Litmus!LitmusAsserts

(* Every join of the three programs returns: no consumer sleeps through the
   end of the producer, no thread spins or retries for ever, and the flag of
   the message-passing program is seen. *)
JoinsReturn ==
    /\ part = "spinlock" => Termination
    /\ part = "condvar" => Condvar!Termination
    /\ part = "maximum" => Maximum!Termination
    /\ part = "litmus" => Litmus!Termination
-----------------------------------------------------------------------------
(* Three transfers between two accounts: two threads in opposite directions,
   as in main, and a third one that can find too little money. *)
FromValues == [t \in {t1, t2, t3} |-> IF t = t2 THEN b ELSE a]
ToValues == [t \in {t1, t2, t3} |-> IF t = t2 THEN a ELSE b]
AmountValues == (t1 :> 2) @@ (t2 :> 1) @@ (t3 :> 3)
BalanceValues == (a :> 3) @@ (b :> 1)

(* Four threads propose what main's first four threads propose. *)
ProposedValues == (t1 :> 0) @@ (t2 :> 10) @@ (t3 :> 20) @@ (t4 :> 30)
==============================================================================
