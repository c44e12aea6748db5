------------------------------ MODULE SpinLock ------------------------------
(***************************************************************************)
(* src/src/concurrency/atomics.cpp, lines 38-49 and 79-93: threads that    *)
(* increment a plain int under a test_and_set spinlock.                    *)
(*                                                                         *)
(* flag_ is only accessed by read-modify-writes and by the holder's clear, *)
(* so every access sees its newest value.  shared_val is a plain int: its  *)
(* modification order is the sequence of values written to it, and view[t] *)
(* is the newest of these writes that happens before thread t's next step. *)
(* A read may return any value not older than that; it is free of a race   *)
(* only if there is no newer one.  released is the view the last clear     *)
(* published, which an acquiring test_and_set joins.                       *)
(***************************************************************************)
EXTENDS Naturals, Sequences, FiniteSets

CONSTANTS Threads, Rounds

ASSUME SpinAssumption == IsFiniteSet(Threads) /\ Rounds \in Nat

VARIABLES flag_, released, shared_val, view, reg, pc, rounds

vars == <<flag_, released, shared_val, view, reg, pc, rounds>>

Larger(m, n) == IF m >= n THEN m ELSE n

Init ==
    /\ flag_ = FALSE /\ released = 1 /\ shared_val = <<0>>
    /\ view = [t \in Threads |-> 1]
    /\ reg = [t \in Threads |-> 0]
    /\ pc = [t \in Threads |-> "lock"]
    /\ rounds = [t \in Threads |-> 0]

(* lock(): one test_and_set of the spin loop. *)
TestWithoutSet(t) ==
    /\ pc[t] = "lock" /\ rounds[t] < Rounds
    /\ view' = [view EXCEPT ![t] = Larger(@, released)]
    /\ pc' = [pc EXCEPT ![t] = IF flag_ THEN "lock" ELSE "read"]
    /\ UNCHANGED <<flag_, released, shared_val, reg, rounds>>

TestAndSet(t) ==
    /\ pc[t] = "lock" /\ rounds[t] < Rounds
    /\ flag_' = TRUE
    /\ view' = [view EXCEPT ![t] = Larger(@, released)]
    /\ pc' = [pc EXCEPT ![t] = IF flag_ THEN "lock" ELSE "read"]
    /\ UNCHANGED <<released, shared_val, reg, rounds>>

(* ++shared_val reads the int and writes it back. *)
Read(t) ==
    /\ pc[t] = "read"
    /\ \E k \in view[t] .. Len(shared_val) : reg' = [reg EXCEPT ![t] = shared_val[k]]
    /\ pc' = [pc EXCEPT ![t] = "write"]
    /\ UNCHANGED <<flag_, released, shared_val, view, rounds>>

Write(t) ==
    /\ pc[t] = "write"
    /\ shared_val' = Append(shared_val, reg[t] + 1)
    /\ view' = [view EXCEPT ![t] = Len(shared_val) + 1]
    /\ pc' = [pc EXCEPT ![t] = "unlock"]
    /\ UNCHANGED <<flag_, released, reg, rounds>>

(* unlock(): the release clear. *)
ClearRelaxed(t) ==
    /\ pc[t] = "unlock"
    /\ flag_' = FALSE
    /\ pc' = [pc EXCEPT ![t] = "lock"]
    /\ rounds' = [rounds EXCEPT ![t] = @ + 1]
    /\ UNCHANGED <<released, shared_val, view, reg>>

ClearForgotten(t) ==
    /\ pc[t] = "unlock"
    /\ released' = view[t]
    /\ pc' = [pc EXCEPT ![t] = "lock"]
    /\ rounds' = [rounds EXCEPT ![t] = @ + 1]
    /\ UNCHANGED <<flag_, shared_val, view, reg>>

Clear(t) ==
    /\ pc[t] = "unlock"
    /\ flag_' = FALSE
    /\ released' = view[t]
    /\ pc' = [pc EXCEPT ![t] = "lock"]
    /\ rounds' = [rounds EXCEPT ![t] = @ + 1]
    /\ UNCHANGED <<shared_val, view, reg>>

Step(t) == TestAndSet(t) \/ Read(t) \/ Write(t) \/ Clear(t)

AllDone == \A t \in Threads : pc[t] = "lock" /\ rounds[t] = Rounds

Joined == AllDone /\ UNCHANGED vars

Next == (\E t \in Threads : Step(t)) \/ Joined

SafeSpec == Init /\ [][Next]_vars

(* A thread that spins keeps spinning.  The lock is not fair: termination
   follows because each thread locks a bounded number of times. *)
Fairness == \A t \in Threads : WF_vars(Step(t))

Spec == SafeSpec /\ Fairness

-----------------------------------------------------------------------------
(* Places, counters and views of the threads; every view is a write that was
   made. *)
TypeOK ==
    /\ flag_ \in BOOLEAN
    /\ shared_val \in Seq(Nat) /\ shared_val # <<>>
    /\ released \in 1 .. Len(shared_val)
    /\ view \in [Threads -> 1 .. Len(shared_val)]
    /\ reg \in [Threads -> Nat]
    /\ pc \in [Threads -> {"lock", "read", "write", "unlock"}]
    /\ rounds \in [Threads -> 0 .. Rounds]

InCriticalSection(t) == pc[t] # "lock"

(* lock() excludes: at most one thread is between lock() and unlock(), and
   the flag is set while one is (lines 41-48). *)
MutualExclusion ==
    /\ \A t, u \in Threads : InCriticalSection(t) /\ InCriticalSection(u) => t = u
    /\ (\E t \in Threads : InCriticalSection(t)) => flag_

(* The acquire/release pair on flag_ orders the accesses to shared_val: the
   thread that holds the lock sees every earlier increment. *)
HolderSeesAllWrites ==
    \A t \in Threads : InCriticalSection(t) => view[t] = Len(shared_val)

(* No increment is lost (the assert of line 93, at every moment): the n-th
   write to shared_val stores n. *)
NoLostIncrement ==
    \A n \in 1 .. Len(shared_val) : shared_val[n] = n - 1

(* What the lock promises: it excludes, its acquire/release pair publishes the
   data it protects, and no update made under it is lost. *)
LockSound == MutualExclusion /\ HolderSeesAllWrites /\ NoLostIncrement

(* All threads get the lock as often as they want it and main's joins
   return. *)
Termination == <>AllDone
==============================================================================
