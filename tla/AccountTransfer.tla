--------------------------- MODULE AccountTransfer ---------------------------
(***************************************************************************)
(* src/src/concurrency/mutex_condvar.cpp, lines 69-82 and 94-101: threads  *)
(* that transfer money between accounts in opposite directions under       *)
(* std::scoped_lock.                                                       *)
(*                                                                         *)
(* scoped_lock takes two mutexes with std::lock: block on one of them, try *)
(* the other, and on failure give the first one back and start again with  *)
(* the one that was taken.                                                 *)
(***************************************************************************)
EXTENDS Integers, FiniteSets, FiniteSetsExt

CONSTANTS Threads, Accounts,
          From, To,      \* per thread: the accounts it transfers between
          Amount,        \* per thread: the amount of one transfer
          Rounds,        \* transfers each thread makes
          InitialBalance,
          NoOne          \* the owner of a free mutex

VARIABLES owner,     \* the thread that holds each account's mutex, or NoOne
          balance,
          reg,       \* the value a thread has read of the balance it is updating
          pc,
          first,     \* the account whose mutex std::lock blocks on first
          rounds     \* transfers made

vars == <<owner, balance, reg, pc, first, rounds>>

Init ==
    /\ owner = [a \in Accounts |-> NoOne]
    /\ balance = InitialBalance /\ reg = [t \in Threads |-> 0]
    /\ pc = [t \in Threads |-> "lock"]
    /\ first = From
    /\ rounds = [t \in Threads |-> 0]

Second(t) == IF first[t] = From[t] THEN To[t] ELSE From[t]

-----------------------------------------------------------------------------
(* std::lock *)
LockFirst(t) ==
    /\ pc[t] = "lock" /\ rounds[t] < Rounds
    /\ owner[first[t]] = NoOne
    /\ owner' = [owner EXCEPT ![first[t]] = t]
    /\ pc' = [pc EXCEPT ![t] = "try"]
    /\ UNCHANGED <<balance, reg, first, rounds>>

TryLockIgnored(t) ==
    /\ pc[t] = "try"
    /\ owner' = [owner EXCEPT ![Second(t)] = t]
    /\ pc' = [pc EXCEPT ![t] = "check"]
    /\ UNCHANGED <<balance, reg, first, rounds>>

TryLockSecond(t) ==
    /\ pc[t] = "try"
    /\ owner[Second(t)] = NoOne
    /\ owner' = [owner EXCEPT ![Second(t)] = t]
    /\ pc' = [pc EXCEPT ![t] = "check"]
    /\ UNCHANGED <<balance, reg, first, rounds>>

BackOffKeepingLock(t) ==
    /\ pc[t] = "try"
    /\ owner[Second(t)] # NoOne
    /\ first' = [first EXCEPT ![t] = Second(t)]
    /\ pc' = [pc EXCEPT ![t] = "lock"]
    /\ UNCHANGED <<owner, balance, reg, rounds>>

BackOff(t) ==
    /\ pc[t] = "try"
    /\ owner[Second(t)] # NoOne
    /\ owner' = [owner EXCEPT ![first[t]] = NoOne]
    /\ first' = [first EXCEPT ![t] = Second(t)]
    /\ pc' = [pc EXCEPT ![t] = "lock"]
    /\ UNCHANGED <<balance, reg, rounds>>

-----------------------------------------------------------------------------
(* transfer's body. *)
CheckNothing(t) ==
    /\ pc[t] = "check"
    /\ pc' = [pc EXCEPT ![t] = "debit"]
    /\ UNCHANGED <<owner, balance, reg, first, rounds>>

CheckBalance(t) ==
    /\ pc[t] = "check"
    /\ pc' = [pc EXCEPT ![t] = IF balance[From[t]] >= Amount[t] THEN "debit" ELSE "unlock"]
    /\ UNCHANGED <<owner, balance, reg, first, rounds>>

(* A compound assignment reads and then writes: the read of from.balance and
   of to.balance, each followed by the write. *)
Read(t) ==
    /\ pc[t] \in {"debit", "credit"}
    /\ reg' = [reg EXCEPT ![t] = balance[IF pc[t] = "debit" THEN From[t] ELSE To[t]]]
    /\ pc' = [pc EXCEPT ![t] = IF pc[t] = "debit" THEN "debiting" ELSE "crediting"]
    /\ UNCHANGED <<owner, balance, first, rounds>>

Debit(t) ==
    /\ pc[t] = "debiting"
    /\ balance' = [balance EXCEPT ![From[t]] = reg[t] - Amount[t]]
    /\ pc' = [pc EXCEPT ![t] = "credit"]
    /\ UNCHANGED <<owner, reg, first, rounds>>

Credit(t) ==
    /\ pc[t] = "crediting"
    /\ balance' = [balance EXCEPT ![To[t]] = reg[t] + Amount[t]]
    /\ pc' = [pc EXCEPT ![t] = "unlock"]
    /\ UNCHANGED <<owner, reg, first, rounds>>

Unlock(t) ==
    /\ pc[t] = "unlock"
    /\ owner' = [owner EXCEPT ![From[t]] = NoOne, ![To[t]] = NoOne]
    /\ first' = [first EXCEPT ![t] = From[t]]
    /\ rounds' = [rounds EXCEPT ![t] = @ + 1]
    /\ pc' = [pc EXCEPT ![t] = "lock"]
    /\ UNCHANGED <<balance, reg>>

Transfer(t) ==
    \/ LockFirst(t) \/ TryLockSecond(t) \/ BackOff(t)
    \/ CheckBalance(t) \/ Read(t) \/ Debit(t) \/ Credit(t) \/ Unlock(t)

AllDone == \A t \in Threads : pc[t] = "lock" /\ rounds[t] = Rounds

Joined == AllDone /\ UNCHANGED vars

Next == (\E t \in Threads : Transfer(t)) \/ Joined

Spec == Init /\ [][Next]_vars

-----------------------------------------------------------------------------
(* Mutex owners, balances and the threads' places (lines 69-82). *)
TypeOK ==
    /\ owner \in [Accounts -> Threads \cup {NoOne}]
    /\ balance \in [Accounts -> Int] /\ reg \in [Threads -> Int]
    /\ pc \in [Threads -> {"lock", "try", "check", "debit", "debiting", "credit", "crediting", "unlock"}]
    /\ first \in [Threads -> Accounts]
    /\ \A t \in Threads : first[t] \in {From[t], To[t]}
    /\ rounds \in [Threads -> 0 .. Rounds]

(* While a thread is between the balance check and the unlock (lines 78-81)
   it owns the mutexes of both its accounts. *)
BodyOwnsBoth ==
    \A t \in Threads : pc[t] \notin {"lock", "try"} =>
        owner[From[t]] = t /\ owner[To[t]] = t

(* A thread that blocks on a mutex holds no other one. *)
NoHoldAndWait ==
    \A t \in Threads : pc[t] = "lock" => \A a \in Accounts : owner[a] # t

(* What is in the accounts plus what is between a debit and its credit is the
   initial total. *)
Total(f, S) == MapThenSumSet(LAMBDA x : f[x], S)

InFlight == {t \in Threads : pc[t] \in {"credit", "crediting"}}

MoneyConserved ==
    Total(balance, Accounts) + Total(Amount, InFlight) = Total(InitialBalance, Accounts)

(* transfer is atomic and cannot deadlock whatever the order of its arguments
   (line 76: "without deadlock"): the check and the updates run with both
   mutexes held, no thread holds one while it waits for another, no account is
   overdrawn by transfers that interleave, and money is conserved at every
   moment (the assert of line 101). *)
TransfersAtomic ==
    /\ TypeOK
    /\ BodyOwnsBoth /\ NoHoldAndWait
    /\ MoneyConserved /\ \A a \in Accounts : balance[a] >= 0
==============================================================================
