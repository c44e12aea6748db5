--------------------------- MODULE ThreadSafeQueue ---------------------------
(***************************************************************************)
(* src/src/stl_like/thread_safe_queue.cpp: the closable blocking queue and *)
(* the threads of main around it.                                          *)
(*                                                                         *)
(* The body of a locked scope is one action; notify_one and notify_all run *)
(* after the mutex is released (lines 46 and 73), so they are steps of     *)
(* their own.  Pollers are threads that use the non-blocking try_pop; they *)
(* may take an item a notified consumer was woken for.  main closes the    *)
(* queue after it has joined the producers; EarlyClose is a client that    *)
(* closes it while they still push, as the interface allows.               *)
(***************************************************************************)
EXTENDS Naturals, Sequences, CondVar

CONSTANTS Producers, Consumers, Pollers, NumItems

ASSUME ThreadsAssumption ==
    /\ Producers \cap (Consumers \cup Pollers) = {} /\ Consumers \cap Pollers = {}
    /\ NumItems \in Nat

VARIABLES
    queue_, closed_,
    cv_,         \* the consumers blocked in pop
    pc,          \* where each producer and consumer is
    pushed,      \* how many items each producer has put into the queue
    got,         \* what each consumer and poller has taken, in order
    mainPc       \* main: before close(), between unlock and notify_all, after

vars == <<queue_, closed_, cv_, pc, pushed, got, mainPc>>

Takers == Consumers \cup Pollers
Item == Producers \X (1 .. NumItems)

Init ==
    /\ queue_ = <<>> /\ closed_ = FALSE /\ cv_ = {}
    /\ pc = [t \in Producers \cup Consumers |->
                IF t \in Producers THEN "push" ELSE "pop"]
    /\ pushed = [p \in Producers |-> 0]
    /\ got = [c \in Takers |-> <<>>]
    /\ mainPc = "join"

(* push's locked scope.  On a closed queue it throws; a producer of a queue
   that may be closed early catches the exception and ends its loop. *)
PushKeepsNotify(p) ==
    /\ pc[p] = "push" /\ pushed[p] < NumItems /\ ~closed_
    /\ queue_' = Append(queue_, <<p, pushed[p] + 1>>)
    /\ pushed' = [pushed EXCEPT ![p] = @ + 1]
    /\ UNCHANGED <<closed_, cv_, pc, got, mainPc>>

PushUnchecked(p) ==
    /\ pc[p] = "push" /\ pushed[p] < NumItems
    /\ queue_' = Append(queue_, <<p, pushed[p] + 1>>)
    /\ pushed' = [pushed EXCEPT ![p] = @ + 1]
    /\ pc' = [pc EXCEPT ![p] = "notify"]
    /\ UNCHANGED <<closed_, cv_, got, mainPc>>

Push(p) ==
    /\ pc[p] = "push" /\ pushed[p] < NumItems /\ ~closed_
    /\ queue_' = Append(queue_, <<p, pushed[p] + 1>>)
    /\ pushed' = [pushed EXCEPT ![p] = @ + 1]
    /\ pc' = [pc EXCEPT ![p] = "notify"]
    /\ UNCHANGED <<closed_, cv_, got, mainPc>>

PushThrows(p) ==
    /\ pc[p] = "push" /\ pushed[p] < NumItems /\ closed_
    /\ pc' = [pc EXCEPT ![p] = "done"]
    /\ UNCHANGED <<queue_, closed_, cv_, pushed, got, mainPc>>

(* push: notify_one, after the mutex was released. *)
PushNotify(p) ==
    /\ pc[p] = "notify"
    /\ cv_' \in notify_one(cv_)
    /\ pc' = [pc EXCEPT ![p] = "push"]
    /\ UNCHANGED <<queue_, closed_, pushed, got, mainPc>>

ProducerExit(p) ==
    /\ pc[p] = "push" /\ pushed[p] = NumItems
    /\ pc' = [pc EXCEPT ![p] = "done"]
    /\ UNCHANGED <<queue_, closed_, cv_, pushed, got, mainPc>>

(* pop by a consumer that holds the mutex: wait's predicate decides between
   blocking, returning nullopt (which ends the consumer's loop) and taking
   the front. *)
PopBlock(c) ==
    /\ pc[c] = "pop" /\ c \notin cv_
    /\ queue_ = <<>> /\ ~closed_
    /\ cv_' = cv_ \cup {c}
    /\ UNCHANGED <<queue_, closed_, pc, pushed, got, mainPc>>

PopNullopt(c) ==
    /\ pc[c] = "pop" /\ c \notin cv_
    /\ queue_ = <<>> /\ closed_
    /\ pc' = [pc EXCEPT ![c] = "done"]
    /\ UNCHANGED <<queue_, closed_, cv_, pushed, got, mainPc>>

TakeFrontKeeping(c) ==
    /\ queue_ # <<>>
    /\ got' = [got EXCEPT ![c] = Append(@, Head(queue_))]
    /\ UNCHANGED queue_

TakeBack(c) ==
    /\ queue_ # <<>>
    /\ got' = [got EXCEPT ![c] = Append(@, queue_[Len(queue_)])]
    /\ queue_' = SubSeq(queue_, 1, Len(queue_) - 1)

TakeFront(c) ==
    /\ queue_ # <<>>
    /\ got' = [got EXCEPT ![c] = Append(@, Head(queue_))]
    /\ queue_' = Tail(queue_)

PopItem(c) ==
    /\ pc[c] = "pop" /\ c \notin cv_
    /\ TakeFront(c)
    /\ UNCHANGED <<closed_, cv_, pc, pushed, mainPc>>

(* try_pop; on an empty queue it returns nullopt and changes nothing. *)
TryPop(c) ==
    /\ TakeFront(c)
    /\ UNCHANGED <<closed_, cv_, pc, pushed, mainPc>>

SpuriousWakeup(c) ==
    /\ c \in cv_
    /\ cv_' = cv_ \ {c}
    /\ UNCHANGED <<queue_, closed_, pc, pushed, got, mainPc>>

(* close's locked scope, as main calls it and as a client may call it. *)
EarlyClose ==
    /\ mainPc = "join"
    /\ closed_' = TRUE
    /\ mainPc' = "notify"
    /\ UNCHANGED <<queue_, cv_, pc, pushed, got>>

Close == EarlyClose /\ \A p \in Producers : pc[p] = "done"

CloseNotifyOne ==
    /\ mainPc = "notify"
    /\ cv_' \in notify_one(cv_)
    /\ mainPc' = "closed"
    /\ UNCHANGED <<queue_, closed_, pc, pushed, got>>

CloseNotify ==
    /\ mainPc = "notify"
    /\ cv_' \in notify_all(cv_)
    /\ mainPc' = "closed"
    /\ UNCHANGED <<queue_, closed_, pc, pushed, got>>

Producer(p) == Push(p) \/ PushThrows(p) \/ PushNotify(p) \/ ProducerExit(p)

Consumer(c) == PopBlock(c) \/ PopNullopt(c) \/ PopItem(c)

Main == Close \/ CloseNotify

(* main has joined every thread. *)
AllDone == mainPc = "closed" /\ \A t \in Producers \cup Consumers : pc[t] = "done"

Joined == AllDone /\ UNCHANGED vars

Next ==
    \/ \E p \in Producers : Producer(p)
    \/ \E c \in Consumers : Consumer(c) \/ SpuriousWakeup(c)
    \/ \E c \in Pollers : TryPop(c)
    \/ EarlyClose
    \/ Main
    \/ Joined

(* Every thread that can run does so eventually.  Pollers, spurious wakeups
   and an early close are never required to happen. *)
Fairness ==
    /\ \A p \in Producers : WF_vars(Producer(p))
    /\ \A c \in Consumers : WF_vars(Consumer(c))
    /\ WF_vars(Main)

SafeSpec == Init /\ [][Next]_vars

Spec == SafeSpec /\ Fairness

-----------------------------------------------------------------------------
(* The state of lines 34-37 and of the threads; only consumers inside pop are
   ever blocked. *)
TypeOK ==
    /\ queue_ \in Seq(Item) /\ closed_ \in BOOLEAN
    /\ pc \in [Producers \cup Consumers -> {"push", "notify", "pop", "done"}]
    /\ \A p \in Producers : pc[p] # "pop"
    /\ \A c \in Consumers : pc[c] \in {"pop", "done"}
    /\ cv_ \in SUBSET Consumers /\ \A c \in cv_ : pc[c] = "pop"
    /\ pushed \in [Producers -> 0 .. NumItems]
    /\ got \in [Takers -> Seq(Item)]
    /\ mainPc \in {"join", "notify", "closed"}

(* No lost wakeup although notify_one runs outside the lock (lines 45-46):
   while an item is queued, either nobody is blocked, or a producer still has
   to notify, or an awake consumer will look at the queue before it blocks. *)
NoLostWakeup ==
    queue_ # <<>> /\ cv_ # {} =>
        \/ \E p \in Producers : pc[p] = "notify"
        \/ \E c \in Consumers \ cv_ : pc[c] = "pop"

(* close() releases everybody and loses nothing, at whatever moment it comes
   (lines 53, 73, 110): once its notify_all has run no consumer is blocked,
   not even one that checked the predicate just before closed_ was set, and a
   consumer leaves its loop only when the queue is drained for good. *)
CloseDrains ==
    /\ mainPc = "closed" => cv_ = {}
    /\ (\E c \in Consumers : pc[c] = "done") => closed_ /\ queue_ = <<>>

(* Every item that push accepted is in exactly one place: once in the queue,
   or once in what exactly one thread has taken. *)
EveryItemInOnePlace ==
    \A item \in Item :
        LET inQueue == {<<"queue_", n>> : n \in {m \in DOMAIN queue_ : queue_[m] = item}}
            inGot(c) == {<<c, n>> : n \in {m \in DOMAIN got[c] : got[c][m] = item}}
            places == inQueue \cup UNION {inGot(c) : c \in Takers}
        IN  IF item[2] <= pushed[item[1]]
            THEN \E x \in places : places = {x}
            ELSE places = {}

(* What one thread takes from one producer comes in the order it was pushed,
   and before whatever that producer still has in the queue. *)
OrderPerProducer ==
    \A c \in Takers : \A m, n \in DOMAIN (got[c] \o queue_) :
        LET s == got[c] \o queue_
        IN  m < n /\ s[m][1] = s[n][1] => s[m][2] < s[n][2]

(* Items pass through the queue once and in order.  With CloseDrains this is
   the assert of line 121: once the threads have ended, every accepted item
   has been taken by exactly one of them. *)
ItemsOnceInOrder == TypeOK /\ EveryItemInOnePlace /\ OrderPerProducer

(* Everyone terminates: no consumer stays blocked in pop after close(). *)
Termination == <>AllDone
==============================================================================
