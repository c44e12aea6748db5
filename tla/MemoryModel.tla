----------------------------- MODULE MemoryModel -----------------------------
(***************************************************************************)
(* src/src/concurrency/memory_model.cpp: the three litmus programs of      *)
(* main, one after the other.                                              *)
(*                                                                         *)
(* Relaxed counter (lines 30-37): a fetch_add reads the newest value in    *)
(* the modification order whatever its memory order.                       *)
(*                                                                         *)
(* Message passing (lines 40-63): the fields of payload are plain          *)
(* variables.  visible is the set of fields whose new value happens before *)
(* the consumer's next step, published the set that the release store of   *)
(* ready carries.  An acquire load may miss the store for a while; a read  *)
(* of a field that is not visible returns the old or the new value if the  *)
(* field has been written.                                                 *)
(*                                                                         *)
(* Dekker's pattern (lines 66-82, 102-109): each of two threads raises its *)
(* flag and then looks at the other one.  All accesses to the flags are    *)
(* seq_cst, so they take place in one total order: the interleaving order. *)
(* main repeats the trial with the flags reset.                            *)
(***************************************************************************)
EXTENDS Naturals, FiniteSets

CONSTANTS Counters, PER, Trials

VARIABLES
    stats_counter, counted,   \* the counter; increments made by each thread
    written,             \* fields of payload the producer has written
    ready, published,    \* the flag, and what its release store publishes
    visible,             \* fields the consumer is bound to see
    seen,                \* what the consumer read of each field, or "unread"
    pcP, pcC,
    flag,                \* flag_a and flag_b
    observer_count,
    pc, trial            \* the two Dekker threads; trials finished

message == <<written, ready, published, visible, seen, pcP, pcC>>
dekker == <<flag, observer_count, pc, trial>>
relaxed == <<stats_counter, counted>>
vars == <<relaxed, message, dekker>>

Fields == {"x", "y", "z"}
Sides == {"a", "b"}
Other(s) == IF s = "a" THEN "b" ELSE "a"

Init ==
    /\ stats_counter = 0 /\ counted = [t \in Counters |-> 0]
    /\ written = {} /\ ready = FALSE /\ published = {} /\ visible = {}
    /\ seen = [f \in Fields |-> "unread"]
    /\ pcP = "write" /\ pcC = "spin"
    /\ flag = [s \in Sides |-> FALSE] /\ observer_count = 0
    /\ pc = [s \in Sides |-> "idle"] /\ trial = 0

-----------------------------------------------------------------------------
(* count_events(PER), one iteration. *)
CountEventLoadStore(t) ==
    /\ counted[t] < PER
    /\ counted' = [counted EXCEPT ![t] = @ + 1]
    /\ \E stale \in 0 .. stats_counter : stats_counter' = stale + 1
    /\ UNCHANGED <<message, dekker>>

CountEvent(t) ==
    /\ counted[t] < PER
    /\ counted' = [counted EXCEPT ![t] = @ + 1]
    /\ stats_counter' = stats_counter + 1
    /\ UNCHANGED <<message, dekker>>

(* main joins the counting threads before it goes on. *)
CountersJoined == \A t \in Counters : counted[t] = PER

-----------------------------------------------------------------------------
(* producer(): the compiler and the processor may order the three plain
   writes as they like, but not after the release store. *)
WriteField(f) ==
    /\ CountersJoined
    /\ pcP = "write" /\ f \notin written
    /\ written' = written \cup {f}
    /\ UNCHANGED <<ready, published, visible, seen, pcP, pcC, dekker, relaxed>>

StoreReadyRelaxed ==
    /\ pcP = "write" /\ written = Fields
    /\ ready' = TRUE
    /\ pcP' = "done"
    /\ UNCHANGED <<written, published, visible, seen, pcC, dekker, relaxed>>

StoreReady ==
    /\ pcP = "write" /\ written = Fields
    /\ ready' = TRUE
    /\ published' = written
    /\ pcP' = "done"
    /\ UNCHANGED <<written, visible, seen, pcC, dekker, relaxed>>

(* consumer(): a load that still returns false changes nothing. *)
LoadReady ==
    /\ pcC = "spin" /\ ready
    /\ visible' = visible \cup published
    /\ pcC' = "read"
    /\ UNCHANGED <<written, ready, published, seen, pcP, dekker, relaxed>>

ReadField(f) ==
    /\ pcC = "read" /\ seen[f] = "unread"
    /\ \E v \in {"old", "new"} :
           /\ f \in visible => v = "new"
           /\ f \notin written => v = "old"
           /\ seen' = [seen EXCEPT ![f] = v]
    /\ UNCHANGED <<written, ready, published, visible, pcP, pcC, dekker, relaxed>>

ConsumerEnd ==
    /\ pcC = "read" /\ \A f \in Fields : seen[f] # "unread"
    /\ pcC' = "done"
    /\ UNCHANGED <<written, ready, published, visible, seen, pcP, dekker, relaxed>>

MessagePassing ==
    \/ \E f \in Fields : WriteField(f) \/ ReadField(f)
    \/ StoreReady
    \/ LoadReady
    \/ ConsumerEnd

-----------------------------------------------------------------------------
(* main resets the flags and starts the two threads of a trial. *)
StartTrial ==
    /\ pcP = "done" /\ pcC = "done"
    /\ trial < Trials /\ \A s \in Sides : pc[s] = "idle"
    /\ flag' = [s \in Sides |-> FALSE]
    /\ observer_count' = 0
    /\ pc' = [s \in Sides |-> "store"]
    /\ UNCHANGED <<relaxed, message, trial>>

StoreFlag(s) ==
    /\ pc[s] = "store"
    /\ flag' = [flag EXCEPT ![s] = TRUE]
    /\ pc' = [pc EXCEPT ![s] = "load"]
    /\ UNCHANGED <<relaxed, message, observer_count, trial>>

LoadOtherStale(s) ==
    /\ pc[s] = "load"
    /\ pc' \in {[pc EXCEPT ![s] = "end"], [pc EXCEPT ![s] = "count"]}
    /\ UNCHANGED <<relaxed, message, flag, observer_count, trial>>

LoadOther(s) ==
    /\ pc[s] = "load"
    /\ pc' = [pc EXCEPT ![s] = IF flag[Other(s)] THEN "end" ELSE "count"]
    /\ UNCHANGED <<relaxed, message, flag, observer_count, trial>>

Count(s) ==
    /\ pc[s] = "count"
    /\ observer_count' = observer_count + 1
    /\ pc' = [pc EXCEPT ![s] = "end"]
    /\ UNCHANGED <<relaxed, message, flag, trial>>

JoinTrial ==
    /\ \A s \in Sides : pc[s] = "end"
    /\ trial' = trial + 1
    /\ pc' = [s \in Sides |-> "idle"]
    /\ UNCHANGED <<relaxed, message, flag, observer_count>>

Dekker ==
    \/ StartTrial
    \/ \E s \in Sides : StoreFlag(s) \/ LoadOther(s) \/ Count(s)
    \/ JoinTrial

Finished ==
    /\ trial = Trials /\ pcP = "done" /\ pcC = "done"
    /\ UNCHANGED vars

Next == (\E t \in Counters : CountEvent(t)) \/ MessagePassing \/ Dekker \/ Finished

(* Threads run, and the store of ready becomes visible in a finite time. *)
Fairness ==
    /\ \A t \in Counters : WF_vars(CountEvent(t))
    /\ WF_vars(MessagePassing) /\ WF_vars(Dekker)

Spec == Init /\ [][Next]_vars /\ Fairness

-----------------------------------------------------------------------------
(* Relaxed increments are never lost. *)
CounterExact ==
    CountersJoined => stats_counter = Cardinality(Counters) * PER

(* A consumer that has left its spin loop reads the new value of every field,
   and no read of a field races with its write. *)
PayloadVisible ==
    /\ \A f \in Fields : seen[f] # "old"
    /\ pcC = "read" => visible = Fields

(* The asserts of lines 60, 90 and 108 hold for every value the loads may
   return; the last one says that in no trial both threads miss the other's
   flag, each trial starting from zero. *)
LitmusAsserts == CounterExact /\ PayloadVisible /\ observer_count <= 1

(* main ends: the consumer leaves its spin loop and all trials are run. *)
Termination == <>(trial = Trials)
==============================================================================
