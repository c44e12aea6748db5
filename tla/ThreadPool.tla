----------------------------- MODULE ThreadPool -----------------------------
(***************************************************************************)
(* src/src/concurrency/thread_pool.cpp: the pool, the client that owns it  *)
(* and submits the root tasks, and tasks that throw or that submit a child *)
(* task from a worker thread, also while the destructor runs.              *)
(*                                                                         *)
(* The locked scopes of a worker, of submit and of the destructor are one  *)
(* step each; submit and the destructor notify after the unlock (lines 72  *)
(* and 81).  A packaged_task stores what the task returns or throws in its *)
(* future, so the future is part of the state of the task.                 *)
(***************************************************************************)
EXTENDS Naturals, Sequences, FiniteSets, CondVar

CONSTANTS
    Workers, Client,
    Tasks,
    Throwing,          \* the tasks whose body throws
    Child,             \* Child[t]: the task t submits while it runs, or NoTask
    NoTask

Roots == {t \in Tasks : \A u \in Tasks : Child[u] # t}

ASSUME PoolAssumption ==
    /\ IsFiniteSet(Workers) /\ Workers # {} /\ Client \notin Workers
    /\ Throwing \subseteq Tasks /\ NoTask \notin Tasks
    /\ Child \in [Tasks -> Tasks \cup {NoTask}]
    /\ \A t, u \in Tasks : Child[t] = Child[u] /\ Child[t] # NoTask => t = u

VARIABLES
    tasks_, stop_,
    cv_,          \* the workers blocked in wait
    pc,           \* where each worker and the client is
    running,      \* the task each worker executes
    future        \* what each task's future holds

vars == <<tasks_, stop_, cv_, pc, running, future>>

Threads == Workers \cup {Client}

Init ==
    /\ tasks_ = <<>> /\ stop_ = FALSE /\ cv_ = {}
    /\ pc = [t \in Threads |-> IF t \in Workers THEN "wait" ELSE "submit"]
    /\ running = [w \in Workers |-> NoTask]
    /\ future = [t \in Tasks |-> "none"]

-----------------------------------------------------------------------------
(* submit(t) on a running pool: the locked scope that queues the task. *)
Enqueue(t) ==
    /\ ~stop_
    /\ tasks_' = Append(tasks_, t)
    /\ future' = [future EXCEPT ![t] = "pending"]

ClientSubmit(t) ==
    /\ pc[Client] = "submit" /\ t \in Roots /\ future[t] = "none"
    /\ Enqueue(t)
    /\ pc' = [pc EXCEPT ![Client] = "notify"]
    /\ UNCHANGED <<stop_, cv_, running>>

ClientNotifyForgotten ==
    /\ pc[Client] = "notify"
    /\ pc' = [pc EXCEPT ![Client] = "submit"]
    /\ UNCHANGED <<tasks_, stop_, cv_, running, future>>

ClientNotify ==
    /\ pc[Client] = "notify"
    /\ cv_' \in notify_one(cv_)
    /\ pc' = [pc EXCEPT ![Client] = "submit"]
    /\ UNCHANGED <<tasks_, stop_, running, future>>

(* ~ThreadPool: set stop_, notify everyone, join. *)
Stop ==
    /\ pc[Client] = "submit"
    /\ stop_' = TRUE
    /\ pc' = [pc EXCEPT ![Client] = "notify_all"]
    /\ UNCHANGED <<tasks_, cv_, running, future>>

StopNotifyOne ==
    /\ pc[Client] = "notify_all"
    /\ cv_' \in notify_one(cv_)
    /\ pc' = [pc EXCEPT ![Client] = "join"]
    /\ UNCHANGED <<tasks_, stop_, running, future>>

StopNotify ==
    /\ pc[Client] = "notify_all"
    /\ cv_' \in notify_all(cv_)
    /\ pc' = [pc EXCEPT ![Client] = "join"]
    /\ UNCHANGED <<tasks_, stop_, running, future>>

JoinAll ==
    /\ pc[Client] = "join" /\ \A w \in Workers : pc[w] = "exited"
    /\ pc' = [pc EXCEPT ![Client] = "exited"]
    /\ UNCHANGED <<tasks_, stop_, cv_, running, future>>

-----------------------------------------------------------------------------
(* The worker's locked scope: block, return, or take the front task. *)
Idle(w) == pc[w] = "wait" /\ w \notin cv_

WorkerBlock(w) ==
    /\ Idle(w)
    /\ ~stop_ /\ tasks_ = <<>>
    /\ cv_' = cv_ \cup {w}
    /\ UNCHANGED <<tasks_, stop_, pc, running, future>>

WorkerReturnAtOnce(w) ==
    /\ Idle(w)
    /\ stop_
    /\ pc' = [pc EXCEPT ![w] = "exited"]
    /\ UNCHANGED <<tasks_, stop_, cv_, running, future>>

WorkerReturn(w) ==
    /\ Idle(w)
    /\ stop_ /\ tasks_ = <<>>
    /\ pc' = [pc EXCEPT ![w] = "exited"]
    /\ UNCHANGED <<tasks_, stop_, cv_, running, future>>

TakeTaskNoPop(w) ==
    /\ Idle(w)
    /\ tasks_ # <<>>
    /\ running' = [running EXCEPT ![w] = Head(tasks_)]
    /\ pc' = [pc EXCEPT ![w] = "run"]
    /\ UNCHANGED <<tasks_, stop_, cv_, future>>

TakeTask(w) ==
    /\ Idle(w)
    /\ tasks_ # <<>>
    /\ running' = [running EXCEPT ![w] = Head(tasks_)]
    /\ tasks_' = Tail(tasks_)
    /\ pc' = [pc EXCEPT ![w] = "run"]
    /\ UNCHANGED <<stop_, cv_, future>>

(* task() ends; the packaged_task keeps its result or its exception. *)
FinishKilledByException(w, result) ==
    /\ future' = [future EXCEPT ![running[w]] = result]
    /\ running' = [running EXCEPT ![w] = NoTask]
    /\ pc' = [pc EXCEPT ![w] = IF result = "exception" THEN "exited" ELSE "wait"]
    /\ UNCHANGED <<tasks_, stop_, cv_>>

Finish(w, result) ==
    /\ future' = [future EXCEPT ![running[w]] = result]
    /\ running' = [running EXCEPT ![w] = NoTask]
    /\ pc' = [pc EXCEPT ![w] = "wait"]
    /\ UNCHANGED <<tasks_, stop_, cv_>>

Result(t) == IF t \in Throwing THEN "exception" ELSE "value"

RunLeaf(w) ==
    /\ pc[w] = "run" /\ Child[running[w]] = NoTask
    /\ Finish(w, Result(running[w]))

(* A task that calls submit: accepted, or the exception of line 69 ends it. *)
RunSubmit(w) ==
    /\ pc[w] = "run" /\ Child[running[w]] # NoTask
    /\ Enqueue(Child[running[w]])
    /\ pc' = [pc EXCEPT ![w] = "notify"]
    /\ UNCHANGED <<stop_, cv_, running>>

RunSubmitThrows(w) ==
    /\ pc[w] = "run" /\ Child[running[w]] # NoTask
    /\ stop_
    /\ Finish(w, "exception")

RunNotify(w) ==
    /\ pc[w] = "notify"
    /\ cv_' \in notify_one(cv_)
    /\ pc' = [pc EXCEPT ![w] = "submitted"]
    /\ UNCHANGED <<tasks_, stop_, running, future>>

RunRest(w) ==
    /\ pc[w] = "submitted"
    /\ Finish(w, Result(running[w]))

SpuriousWakeup(w) ==
    /\ w \in cv_
    /\ cv_' = cv_ \ {w}
    /\ UNCHANGED <<tasks_, stop_, pc, running, future>>

-----------------------------------------------------------------------------
Worker(w) ==
    \/ WorkerBlock(w) \/ WorkerReturn(w) \/ TakeTask(w)
    \/ RunLeaf(w) \/ RunSubmit(w) \/ RunSubmitThrows(w) \/ RunNotify(w) \/ RunRest(w)

Destructor == StopNotify \/ JoinAll

Destroyed == pc[Client] = "exited" /\ UNCHANGED vars

Next ==
    \/ \E w \in Workers : Worker(w) \/ SpuriousWakeup(w)
    \/ \E t \in Tasks : ClientSubmit(t)
    \/ ClientNotify
    \/ Stop
    \/ Destructor
    \/ Destroyed

(* Unblocked threads run; task bodies end; a submit or a destructor that has
   begun goes on.  The client need not submit anything nor stop the pool. *)
Fairness ==
    /\ \A w \in Workers : WF_vars(Worker(w))
    /\ WF_vars(ClientNotify)
    /\ WF_vars(Destructor)

SafeSpec == Init /\ [][Next]_vars

Spec == SafeSpec /\ Fairness

-----------------------------------------------------------------------------
(* A blocked worker is inside wait, a worker executes a task exactly between
   taking it and finishing it. *)
TypeOK ==
    /\ tasks_ \in Seq(Tasks) /\ stop_ \in BOOLEAN
    /\ pc \in [Threads -> {"wait", "run", "notify", "submitted", "submit",
                           "notify_all", "join", "exited"}]
    /\ \A w \in Workers : pc[w] \in {"wait", "run", "notify", "submitted", "exited"}
    /\ pc[Client] \in {"submit", "notify", "notify_all", "join", "exited"}
    /\ cv_ \in SUBSET {w \in Workers : pc[w] = "wait"}
    /\ running \in [Workers -> Tasks \cup {NoTask}]
    /\ \A w \in Workers : running[w] # NoTask <=> pc[w] \in {"run", "notify", "submitted"}
    /\ future \in [Tasks -> {"none", "pending", "value", "exception"}]

Notifiers == {t \in Threads : pc[t] = "notify"}
IdleWorkers == {w \in Workers : Idle(w)}

(* A queued task never waits for a sleeping worker: while some worker is
   blocked, every queued task has an idle worker or an outstanding notify_one
   of its own, although submit notifies outside the lock (line 72). *)
WakeupForEveryTask ==
    cv_ # {} => Cardinality(Notifiers) + Cardinality(IdleWorkers) >= Len(tasks_)

(* Each accepted task is at every moment in one place only: once in the
   queue, with one worker, or finished; a task not accepted is nowhere. *)
EveryTaskInOnePlace ==
    /\ TypeOK
    /\ \A t \in Tasks :
           LET queued == {n \in DOMAIN tasks_ : tasks_[n] = t}
               holders == {w \in Workers : running[w] = t}
           IN  IF future[t] = "pending"
               THEN \/ holders = {} /\ \E n \in queued : queued = {n}
                    \/ queued = {} /\ \E w \in holders : holders = {w}
               ELSE queued = {} /\ holders = {}

(* Pitfalls of lines 16-18: a worker ends only because the pool was stopped
   and the queue drained, never because a task threw, and from then on no
   submit queues a task that would find no worker.  So when the destructor
   returns no promise is broken: every future handed out is ready, also those
   of tasks submitted by tasks (lines 76-83). *)
NoBrokenPromise ==
    /\ \A w \in Workers : pc[w] = "exited" => stop_ /\ tasks_ = <<>>
    /\ pc[Client] = "exited" => \A t \in Tasks : future[t] # "pending"

(* The three together: thread_pool.cpp loses no task, runs none twice and breaks
   no promise, whenever tasks are submitted, throw or meet the destructor. *)
TasksKept == WakeupForEveryTask /\ EveryTaskInOnePlace /\ NoBrokenPromise

(* Each future becomes ready, whether or not the pool is ever stopped: a
   client blocked in get() (lines 99 and 113) is released. *)
FuturesBecomeReady ==
    \A t \in Tasks : future[t] = "pending" ~> future[t] \in {"value", "exception"}

(* The destructor returns: no worker misses the shutdown notification. *)
DestructorReturns == stop_ ~> pc[Client] = "exited"
==============================================================================
