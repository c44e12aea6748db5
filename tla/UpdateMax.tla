------------------------------ MODULE UpdateMax ------------------------------
(***************************************************************************)
(* src/src/concurrency/atomics.cpp, lines 52-63 and 96-101: the lock-free  *)
(* maximum, a compare_exchange_weak loop run by several threads.           *)
(*                                                                         *)
(* shared_max is its modification order.  The relaxed load and the load of *)
(* a failing compare_exchange may return any value not older than the      *)
(* newest one the thread has read (view); a successful one reads the newest *)
(* value.  compare_exchange_weak may also fail spuriously.                 *)
(***************************************************************************)
EXTENDS Naturals, Sequences, FiniteSets, FiniteSetsExt

CONSTANTS Threads, Proposed

VARIABLES shared_max, view, current, pc

vars == <<shared_max, view, current, pc>>

Newest == shared_max[Len(shared_max)]

Init ==
    /\ shared_max = <<0>>
    /\ view = [t \in Threads |-> 1]
    /\ current = [t \in Threads |-> 0]
    /\ pc = [t \in Threads |-> "load"]

(* A read of the k-th value. *)
See(t, k) ==
    /\ view' = [view EXCEPT ![t] = k]
    /\ current' = [current EXCEPT ![t] = shared_max[k]]

Load(t, k) ==
    /\ pc[t] = "load"
    /\ See(t, k)
    /\ pc' = [pc EXCEPT ![t] = "loop"]
    /\ UNCHANGED shared_max

Exit(t) ==
    /\ pc[t] = "loop" /\ Proposed[t] <= current[t]
    /\ pc' = [pc EXCEPT ![t] = "done"]
    /\ UNCHANGED <<shared_max, view, current>>

StoreBlindly(t) ==
    /\ pc[t] = "loop" /\ Proposed[t] > current[t]
    /\ shared_max' = Append(shared_max, Proposed[t])
    /\ view' = [view EXCEPT ![t] = Len(shared_max) + 1]
    /\ pc' = [pc EXCEPT ![t] = "done"]
    /\ UNCHANGED current

CasSucceeds(t) ==
    /\ pc[t] = "loop" /\ Proposed[t] > current[t]
    /\ Newest = current[t]
    /\ shared_max' = Append(shared_max, Proposed[t])
    /\ view' = [view EXCEPT ![t] = Len(shared_max) + 1]
    /\ pc' = [pc EXCEPT ![t] = "done"]
    /\ UNCHANGED current

CasGivesUp(t, k) ==
    /\ pc[t] = "loop" /\ Proposed[t] > current[t]
    /\ See(t, k)
    /\ pc' = [pc EXCEPT ![t] = "done"]
    /\ UNCHANGED shared_max

CasFails(t, k) ==
    /\ pc[t] = "loop" /\ Proposed[t] > current[t]
    /\ See(t, k)
    /\ UNCHANGED <<shared_max, pc>>

Step(t) ==
    \/ \E k \in view[t] .. Len(shared_max) : Load(t, k) \/ CasFails(t, k)
    \/ Exit(t)
    \/ CasSucceeds(t)

AllDone == \A t \in Threads : pc[t] = "done"

Joined == AllDone /\ UNCHANGED vars

Next == (\E t \in Threads : Step(t)) \/ Joined

SafeSpec == Init /\ [][Next]_vars

(* Running threads run, a load eventually returns the newest value, and a
   compare_exchange_weak that can succeed does not fail spuriously for ever. *)
Fairness == \A t \in Threads :
    /\ WF_vars(Load(t, Len(shared_max)))
    /\ WF_vars(CasFails(t, Len(shared_max)))
    /\ WF_vars(CasSucceeds(t))
    /\ WF_vars(Exit(t))

Spec == SafeSpec /\ Fairness

-----------------------------------------------------------------------------
(* The atomic's history and the locals of update_max; what a thread holds in
   current is a value it has read. *)
TypeOK ==
    /\ shared_max \in Seq(Nat) /\ shared_max # <<>>
    /\ view \in [Threads -> 1 .. Len(shared_max)]
    /\ current \in [Threads -> Nat]
    /\ pc \in [Threads -> {"load", "loop", "done"}]

(* A stale update never overwrites a larger one: the stored maximum only
   grows, although threads decide on values that may be out of date. *)
OnlyGrows ==
    \A n \in 2 .. Len(shared_max) : shared_max[n - 1] < shared_max[n]

(* update_max(proposed) returns only when the maximum is at least proposed,
   and the maximum is always 0 or a value some thread proposed; so when all
   have returned it is the largest proposal (the assert of line 101). *)
MaximumOfTheFinished ==
    /\ TypeOK
    /\ \A t \in Threads : pc[t] = "done" => Newest >= Proposed[t]
    /\ Newest \in {0} \cup {Proposed[t] : t \in Threads}
    /\ AllDone => Newest = Max({0} \cup {Proposed[t] : t \in Threads})

(* The loop ends: other threads can make a compare_exchange fail only a
   bounded number of times. *)
Termination == <>AllDone
==============================================================================
