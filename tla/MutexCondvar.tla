---------------------------- MODULE MutexCondvar ----------------------------
(***************************************************************************)
(* src/src/concurrency/mutex_condvar.cpp, lines 31-66: one producer and    *)
(* the consumers of a queue with a done flag.  A consumer that wakes up    *)
(* drains the whole queue in one locked scope, so one wakeup may serve     *)
(* many notifications.  main starts one consumer; consumer(id, ...) is     *)
(* written for any number of them.                                         *)
(***************************************************************************)
EXTENDS Naturals, Sequences, CondVar

CONSTANTS Consumers, NUM_ITEMS

VARIABLES buffer, done, cv,
          i, pcP,          \* the producer's loop variable and place
          pc, consumed     \* per consumer: its place and its vector

vars == <<buffer, done, cv, i, pcP, pc, consumed>>

Init ==
    /\ buffer = <<>> /\ done = FALSE /\ cv = {}
    /\ i = 0 /\ pcP = "produce"
    /\ pc = [c \in Consumers |-> "wait"]
    /\ consumed = [c \in Consumers |-> <<>>]

Produce ==
    /\ pcP = "produce" /\ i < NUM_ITEMS
    /\ buffer' = Append(buffer, i)
    /\ i' = i + 1
    /\ pcP' = "notify_one"
    /\ UNCHANGED <<done, cv, pc, consumed>>

ProduceNotifyForgotten ==
    /\ pcP = "notify_one"
    /\ pcP' = "produce"
    /\ UNCHANGED <<buffer, done, cv, i, pc, consumed>>

ProduceNotify ==
    /\ pcP = "notify_one"
    /\ cv' \in notify_one(cv)
    /\ pcP' = "produce"
    /\ UNCHANGED <<buffer, done, i, pc, consumed>>

SetDone ==
    /\ pcP = "produce" /\ i = NUM_ITEMS
    /\ done' = TRUE
    /\ pcP' = "notify_all"
    /\ UNCHANGED <<buffer, cv, i, pc, consumed>>

DoneNotifyOne ==
    /\ pcP = "notify_all"
    /\ cv' \in notify_one(cv)
    /\ pcP' = "exited"
    /\ UNCHANGED <<buffer, done, i, pc, consumed>>

DoneNotify ==
    /\ pcP = "notify_all"
    /\ cv' \in notify_all(cv)
    /\ pcP' = "exited"
    /\ UNCHANGED <<buffer, done, i, pc, consumed>>

Block(c) ==
    /\ pc[c] = "wait" /\ c \notin cv
    /\ buffer = <<>> /\ ~done
    /\ cv' = cv \cup {c}
    /\ UNCHANGED <<buffer, done, i, pcP, pc, consumed>>

(* The rest of the locked scope: drain, then leave if nothing more comes. *)
DrainOne(c) ==
    /\ pc[c] = "wait" /\ c \notin cv
    /\ buffer # <<>> \/ done
    /\ consumed' = [consumed EXCEPT ![c] = @ \o SubSeq(buffer, 1, 1)]
    /\ buffer' = SubSeq(buffer, 2, Len(buffer))
    /\ pc' = [pc EXCEPT ![c] = IF done THEN "exited" ELSE "wait"]
    /\ UNCHANGED <<done, cv, i, pcP>>

Drain(c) ==
    /\ pc[c] = "wait" /\ c \notin cv
    /\ buffer # <<>> \/ done
    /\ consumed' = [consumed EXCEPT ![c] = @ \o buffer]
    /\ buffer' = <<>>
    /\ pc' = [pc EXCEPT ![c] = IF done THEN "exited" ELSE "wait"]
    /\ UNCHANGED <<done, cv, i, pcP>>

SpuriousWakeup(c) ==
    /\ c \in cv
    /\ cv' = cv \ {c}
    /\ UNCHANGED <<buffer, done, i, pcP, pc, consumed>>

Producer == Produce \/ ProduceNotify \/ SetDone \/ DoneNotify
Consumer(c) == Block(c) \/ Drain(c)

AllDone == pcP = "exited" /\ \A c \in Consumers : pc[c] = "exited"

Joined == AllDone /\ UNCHANGED vars

Next ==
    \/ Producer
    \/ \E c \in Consumers : Consumer(c) \/ SpuriousWakeup(c)
    \/ Joined

(* Unblocked threads run. *)
Fairness == WF_vars(Producer) /\ \A c \in Consumers : WF_vars(Consumer(c))

Spec == Init /\ [][Next]_vars /\ Fairness

-----------------------------------------------------------------------------
(* The globals of lines 31-35; only a consumer inside wait is blocked. *)
TypeOK ==
    /\ buffer \in Seq(0 .. NUM_ITEMS - 1) /\ done \in BOOLEAN
    /\ cv \subseteq Consumers /\ \A c \in cv : pc[c] = "wait"
    /\ i \in 0 .. NUM_ITEMS
    /\ pcP \in {"produce", "notify_one", "notify_all", "exited"}
    /\ pc \in [Consumers -> {"wait", "exited"}]
    /\ consumed \in [Consumers -> Seq(0 .. NUM_ITEMS - 1)]

(* The assert of line 91 for any number of consumers, and more: when all
   threads have ended each of the NUM_ITEMS items was consumed by exactly one
   consumer, each consumer seeing its items in production order. *)
ConsumedOnceInOrder ==
    /\ TypeOK
    /\ \A c \in Consumers : \A m, n \in DOMAIN consumed[c] :
           m < n => consumed[c][m] < consumed[c][n]
    /\ \A c, d \in Consumers : c # d =>
           \A m \in DOMAIN consumed[c], n \in DOMAIN consumed[d] :
               consumed[c][m] # consumed[d][n]
    /\ AllDone => \A item \in 0 .. NUM_ITEMS - 1 : \E c \in Consumers :
                      \E n \in DOMAIN consumed[c] : consumed[c][n] = item

(* Notifying after the unlock (lines 44 and 50) loses no wakeup: if all
   consumers are blocked, nothing is waiting for them, or the producer is
   about to notify. *)
NoLostWakeup ==
    cv = Consumers =>
        \/ buffer = <<>> /\ ~done
        \/ pcP \in {"notify_one", "notify_all"}

(* An item does not stay in the buffer for ever, and both joins return. *)
Termination == <>AllDone
==============================================================================
