-------------------------- MODULE ThreadPoolProofs --------------------------
(***************************************************************************)
(* src/src/concurrency/thread_pool.cpp loses no wakeup, no task and no     *)
(* promise, for every number of workers, every set of tasks and every way  *)
(* they throw and submit one another.                                      *)
(*                                                                         *)
(* TasksKept is not inductive.  A worker that submits a child would queue  *)
(* it twice unless a child is fresh until its parent has passed its        *)
(* submit (ChildrenFresh), and the promises need to know that the client   *)
(* leaves the destructor after all workers (WorkersLeaveFirst).            *)
(***************************************************************************)
EXTENDS ThreadPool, FiniteSetTheorems, TLAPS

Positions == 1 .. Len(tasks_)

(* Where tasks are, position by position. *)
Places ==
    /\ \A m, n \in Positions : tasks_[m] = tasks_[n] => m = n
    /\ \A v, w \in Workers : running[v] = running[w] /\ running[v] # NoTask => v = w
    /\ \A n \in Positions, w \in Workers : tasks_[n] # running[w]
    /\ \A n \in Positions : future[tasks_[n]] = "pending"
    /\ \A w \in Workers : running[w] # NoTask => future[running[w]] = "pending"
    /\ \A t \in Tasks : future[t] = "pending" =>
           \/ \E n \in Positions : tasks_[n] = t
           \/ \E w \in Workers : running[w] = t

ChildrenFresh ==
    \A t \in Tasks : Child[t] # NoTask /\ future[Child[t]] # "none" =>
        /\ future[t] # "none"
        /\ \A n \in Positions : tasks_[n] # t
        /\ \A w \in Workers : running[w] = t => pc[w] # "run"

DrainedBeforeExit == \A w \in Workers : pc[w] = "exited" => stop_ /\ tasks_ = <<>>

WorkersLeaveFirst == pc[Client] = "exited" => \A w \in Workers : pc[w] = "exited"

PoolInv ==
    /\ TypeOK /\ WakeupForEveryTask
    /\ Places /\ ChildrenFresh
    /\ DrainedBeforeExit /\ WorkersLeaveFirst

(* One more member. *)
LEMMA Grow ==
    ASSUME NEW S, IsFiniteSet(S), NEW x, x \notin S
    PROVE  Cardinality(S \cup {x}) = Cardinality(S) + 1
  BY FS_AddElement

(* One member less. *)
LEMMA Shrink ==
    ASSUME NEW S, IsFiniteSet(S), NEW x, x \in S
    PROVE  Cardinality(S \ {x}) = Cardinality(S) - 1
  BY FS_RemoveElement

(* What notify_one leaves: nobody is blocked, or one blocked worker less. *)
LEMMA NotifyOne ==
    ASSUME NEW S, NEW T \in notify_one(S)
    PROVE  (S = {} /\ T = {}) \/ (\E w \in S : T = S \ {w})
  BY DEF notify_one

(* The threads that the wakeup invariant counts are finitely many. *)
LEMMA CountsAreFinite ==
    /\ IsFiniteSet(Notifiers) /\ Cardinality(Notifiers) \in Nat
    /\ IsFiniteSet(IdleWorkers) /\ Cardinality(IdleWorkers) \in Nat
  <1>1. IsFiniteSet(Workers) /\ IsFiniteSet(Workers \cup {Client})
    BY PoolAssumption, FS_AddElement
  <1>2. Notifiers \in SUBSET (Workers \cup {Client}) /\ IdleWorkers \in SUBSET Workers
    BY DEF Notifiers, IdleWorkers, Threads
  <1> QED
    BY <1>1, <1>2, FS_Subset, FS_CardinalityType

(* The same after a step. *)
LEMMA CountsFiniteNext ==
    /\ IsFiniteSet(Notifiers') /\ Cardinality(Notifiers') \in Nat
    /\ IsFiniteSet(IdleWorkers') /\ Cardinality(IdleWorkers') \in Nat
  <1>1. IsFiniteSet(Workers) /\ IsFiniteSet(Workers \cup {Client})
    BY PoolAssumption, FS_AddElement
  <1>2. Notifiers' \in SUBSET (Workers \cup {Client}) /\ IdleWorkers' \in SUBSET Workers
    BY DEF Notifiers, IdleWorkers, Threads
  <1> QED
    BY <1>1, <1>2, FS_Subset, FS_CardinalityType

(* The pool starts with nothing queued, nobody blocked and no future out. *)
LEMMA InitPoolInv == Init => PoolInv
  <1> SUFFICES ASSUME Init PROVE PoolInv
    OBVIOUS
  <1> USE PoolAssumption
  <1>1. /\ tasks_ = <<>> /\ Len(tasks_) = 0 /\ cv_ = {} /\ stop_ = FALSE
        /\ \A w \in Workers : pc[w] = "wait" /\ running[w] = NoTask
        /\ pc[Client] = "submit"
        /\ \A t \in Tasks : future[t] = "none"
    BY DEF Init, Threads
  <1>2. TypeOK
    <2>1. /\ pc \in [Threads -> {"wait", "run", "notify", "submitted", "submit",
                                 "notify_all", "join", "exited"}]
          /\ running \in [Workers -> Tasks \cup {NoTask}]
          /\ future \in [Tasks -> {"none", "pending", "value", "exception"}]
          /\ tasks_ \in Seq(Tasks)
      BY DEF Init
    <2> QED
      BY <1>1, <2>1 DEF TypeOK
  <1>3. Positions = {}
    BY <1>1 DEF Positions
  <1>4. Places /\ ChildrenFresh /\ WakeupForEveryTask
    BY <1>1, <1>3 DEF Places, ChildrenFresh, WakeupForEveryTask
  <1>5. DrainedBeforeExit /\ WorkersLeaveFirst
    BY <1>1 DEF DrainedBeforeExit, WorkersLeaveFirst
  <1> QED
    BY <1>2, <1>4, <1>5 DEF PoolInv

-----------------------------------------------------------------------------
(* submit appends a task that nobody has seen yet (lines 66-72). *)
LEMMA EnqueuePlaces ==
    ASSUME TypeOK, Places, NEW t \in Tasks, future[t] = "none", Enqueue(t), running' = running
    PROVE  /\ Places' /\ tasks_' \in Seq(Tasks) /\ Len(tasks_') = Len(tasks_) + 1
           /\ \A n \in Positions' : (n \in Positions /\ tasks_'[n] = tasks_[n]) \/ tasks_'[n] = t
           /\ future' \in [Tasks -> {"none", "pending", "value", "exception"}]
           /\ future'[t] = "pending" /\ \A u \in Tasks : u # t => future'[u] = future[u]
  <1> USE PoolAssumption
  <1>1. /\ tasks_ \in Seq(Tasks) /\ Len(tasks_) \in Nat
        /\ tasks_' = Append(tasks_, t)
        /\ \A n \in Positions : tasks_[n] \in Tasks
    BY DEF Enqueue, TypeOK, Positions
  <1>2. /\ tasks_' \in Seq(Tasks) /\ Len(tasks_') = Len(tasks_) + 1
        /\ tasks_'[Len(tasks_) + 1] = t
        /\ \A n \in Positions : tasks_'[n] = tasks_[n]
    BY <1>1 DEF Positions
  <1>3. /\ Len(tasks_) + 1 \in Positions'
        /\ \A n \in Positions' : n \in Positions \/ n = Len(tasks_) + 1
        /\ \A n \in Positions : n \in Positions' /\ n # Len(tasks_) + 1
    BY <1>1, <1>2 DEF Positions
  <1>4. /\ future' \in [Tasks -> {"none", "pending", "value", "exception"}]
        /\ future'[t] = "pending" /\ \A u \in Tasks : u # t => future'[u] = future[u]
    BY DEF Enqueue, TypeOK
  <1>5. /\ \A n \in Positions : tasks_[n] # t
        /\ \A w \in Workers : running[w] # t /\ running[w] \in Tasks \cup {NoTask}
    BY DEF Places, TypeOK
  <1>6. \A m, n \in Positions' : tasks_'[m] = tasks_'[n] => m = n
    BY <1>2, <1>3, <1>5 DEF Places
  <1>7. \A n \in Positions', w \in Workers : tasks_'[n] # running'[w]
    BY <1>2, <1>3, <1>5 DEF Places
  <1>8. ASSUME NEW n \in Positions' PROVE future'[tasks_'[n]] = "pending"
    <2>1. CASE n \in Positions
      <3>1. tasks_'[n] = tasks_[n] /\ tasks_[n] # t /\ tasks_[n] \in Tasks
        BY <1>1, <1>2, <1>5, <2>1
      <3> QED
        BY <1>4, <2>1, <3>1 DEF Places
    <2>2. CASE n = Len(tasks_) + 1
      BY <1>2, <1>4, <2>2
    <2> QED
      BY <1>3, <2>1, <2>2
  <1>9. \A w \in Workers : running'[w] # NoTask => future'[running'[w]] = "pending"
    BY <1>4, <1>5 DEF Places
  <1>10. ASSUME NEW u \in Tasks, future'[u] = "pending"
         PROVE  \/ \E n \in Positions' : tasks_'[n] = u
                \/ \E w \in Workers : running'[w] = u
    <2>1. CASE u = t
      BY <1>2, <1>3, <2>1
    <2>2. CASE u # t
      <3>1. \/ \E n \in Positions : tasks_[n] = u
            \/ \E w \in Workers : running[w] = u
        BY <1>4, <1>10, <2>2 DEF Places
      <3> QED
        BY <1>2, <1>3, <3>1
    <2> QED
      BY <2>1, <2>2
  <1>11. Places'
    <2>1. \A v, w \in Workers : running'[v] = running'[w] /\ running'[v] # NoTask => v = w
      BY DEF Places
    <2> QED
      BY <1>6, <1>7, <1>8, <1>9, <1>10, <2>1 DEF Places
  <1> QED
    BY <1>2, <1>3, <1>4, <1>11

(* A worker takes the front task (lines 50-51). *)
LEMMA TakePlaces ==
    ASSUME TypeOK, Places, NEW w \in Workers, TakeTask(w)
    PROVE  /\ Places' /\ tasks_' \in Seq(Tasks) /\ Len(tasks_') = Len(tasks_) - 1
           /\ running' \in [Workers -> Tasks \cup {NoTask}]
           /\ running'[w] # NoTask /\ \A v \in Workers : v # w => running'[v] = running[v]
           /\ \A n \in Positions' : n + 1 \in Positions /\ tasks_'[n] = tasks_[n + 1]
           /\ 1 \in Positions /\ running'[w] = tasks_[1]
  <1> USE PoolAssumption
  <1>1. /\ tasks_ \in Seq(Tasks) /\ Len(tasks_) \in Nat /\ tasks_ # <<>>
        /\ tasks_' = Tail(tasks_) /\ running[w] = NoTask
        /\ running' = [running EXCEPT ![w] = Head(tasks_)] /\ future' = future
        /\ running \in [Workers -> Tasks \cup {NoTask}]
    BY DEF TakeTask, Idle, TypeOK
  <1>2. /\ 1 \in Positions /\ tasks_[1] \in Tasks /\ Len(tasks_) >= 1
        /\ Len(tasks_') = Len(tasks_) - 1 /\ tasks_' \in Seq(Tasks)
        /\ \A n \in Positions' : n + 1 \in Positions /\ n + 1 # 1 /\ tasks_'[n] = tasks_[n + 1]
    BY <1>1 DEF Positions
  <1>3. /\ running' \in [Workers -> Tasks \cup {NoTask}]
        /\ running'[w] = tasks_[1] /\ running'[w] # NoTask
        /\ \A v \in Workers : v # w => running'[v] = running[v]
    BY <1>1, <1>2
  <1>4. \A m, n \in Positions' : tasks_'[m] = tasks_'[n] => m = n
    <2> SUFFICES ASSUME NEW m \in Positions', NEW n \in Positions', tasks_'[m] = tasks_'[n]
                 PROVE  m = n
      OBVIOUS
    <2>1. m + 1 = n + 1
      BY <1>2 DEF Places
    <2> QED
      BY <1>1, <1>2, <2>1 DEF Positions
  <1>5. \A u, v \in Workers : running'[u] = running'[v] /\ running'[u] # NoTask => u = v
    BY <1>2, <1>3 DEF Places
  <1>6. \A n \in Positions', v \in Workers : tasks_'[n] # running'[v]
    BY <1>2, <1>3 DEF Places
  <1>7. /\ \A n \in Positions' : future'[tasks_'[n]] = "pending"
        /\ \A v \in Workers : running'[v] # NoTask => future'[running'[v]] = "pending"
    <2>1. future'[tasks_[1]] = "pending"
      BY <1>1, <1>2 DEF Places
    <2>2. ASSUME NEW n \in Positions' PROVE future'[tasks_'[n]] = "pending"
      <3>1. n + 1 \in Positions /\ tasks_'[n] = tasks_[n + 1]
        BY <1>2
      <3>2. future[tasks_[n + 1]] = "pending"
        BY <3>1 DEF Places
      <3> QED
        BY <1>1, <3>1, <3>2
    <2>3. ASSUME NEW v \in Workers, running'[v] # NoTask PROVE future'[running'[v]] = "pending"
      <3>1. CASE v = w
        BY <1>3, <2>1, <3>1
      <3>2. CASE v # w
        BY <1>1, <1>3, <2>3, <3>2 DEF Places
      <3> QED
        BY <3>1, <3>2
    <2> QED
      BY <2>2, <2>3
  <1>8. ASSUME NEW t \in Tasks, future'[t] = "pending"
        PROVE  \/ \E n \in Positions' : tasks_'[n] = t
               \/ \E v \in Workers : running'[v] = t
    <2>1. CASE \E n \in Positions : tasks_[n] = t
      <3>1. PICK n \in Positions : tasks_[n] = t
        BY <2>1
      <3>2. CASE n = 1
        BY <1>3, <3>1, <3>2
      <3>3. CASE n # 1
        <4>1. n - 1 \in Positions' /\ (n - 1) + 1 = n
          BY <1>1, <1>2, <3>3 DEF Positions
        <4> QED
          BY <1>2, <3>1, <4>1
      <3> QED
        BY <3>2, <3>3
    <2>2. CASE \E v \in Workers : running[v] = t
      BY <1>1, <1>3, <2>2
    <2> QED
      BY <1>1, <1>8, <2>1, <2>2 DEF Places
  <1>9. Places'
    BY <1>4, <1>5, <1>6, <1>7, <1>8 DEF Places
  <1> QED
    BY <1>2, <1>3, <1>9

(* A task ends and its future becomes ready. *)
LEMMA FinishPlaces ==
    ASSUME TypeOK, Places, NEW w \in Workers, running[w] # NoTask,
           NEW result \in {"value", "exception"}, Finish(w, result)
    PROVE  /\ Places'
           /\ running' \in [Workers -> Tasks \cup {NoTask}]
           /\ running'[w] = NoTask /\ \A v \in Workers : v # w => running'[v] = running[v]
           /\ future' \in [Tasks -> {"none", "pending", "value", "exception"}]
           /\ \A t \in Tasks : future'[t] = "none" <=> future[t] = "none"
  <1> USE PoolAssumption
  <1> DEFINE done == running[w]
  <1>1. /\ done \in Tasks /\ running \in [Workers -> Tasks \cup {NoTask}]
        /\ tasks_' = tasks_ /\ Positions' = Positions
        /\ \A n \in Positions : tasks_[n] \in Tasks
    BY DEF TypeOK, Finish, Positions
  <1>2. /\ running' \in [Workers -> Tasks \cup {NoTask}]
        /\ running'[w] = NoTask /\ \A v \in Workers : v # w => running'[v] = running[v]
    BY <1>1 DEF Finish
  <1>3. /\ future' \in [Tasks -> {"none", "pending", "value", "exception"}]
        /\ future'[done] = result
        /\ \A t \in Tasks : t # done => future'[t] = future[t]
    BY <1>1 DEF TypeOK, Finish
  <1>4. /\ future[done] = "pending"
        /\ \A n \in Positions : tasks_[n] # done
        /\ \A v \in Workers : v # w => running[v] # done
    BY DEF Places
  <1> HIDE DEF done
  <1>5. \A u, v \in Workers : running'[u] = running'[v] /\ running'[u] # NoTask => u = v
    BY <1>2 DEF Places
  <1>6. \A n \in Positions', v \in Workers : tasks_'[n] # running'[v]
    BY <1>1, <1>2 DEF Places
  <1>7. \A n \in Positions' : future'[tasks_'[n]] = "pending"
    BY <1>1, <1>3, <1>4 DEF Places
  <1>8. \A v \in Workers : running'[v] # NoTask => future'[running'[v]] = "pending"
    BY <1>1, <1>2, <1>3, <1>4 DEF Places
  <1>9. \A t \in Tasks : future'[t] = "pending" =>
            \/ \E n \in Positions' : tasks_'[n] = t
            \/ \E v \in Workers : running'[v] = t
    BY <1>1, <1>2, <1>3 DEF Places, done
  <1>10. Places'
    <2>1. \A m, n \in Positions' : tasks_'[m] = tasks_'[n] => m = n
      BY <1>1 DEF Places
    <2> QED
      BY <1>5, <1>6, <1>7, <1>8, <1>9, <2>1 DEF Places
  <1>11. \A t \in Tasks : future'[t] = "none" <=> future[t] = "none"
    BY <1>1, <1>3, <1>4
  <1> QED
    BY <1>2, <1>3, <1>10, <1>11

-----------------------------------------------------------------------------
(* submit from the client (lines 66-72): a root task has no parent. *)
LEMMA ClientSubmitInv ==
    ASSUME PoolInv, NEW t \in Tasks, ClientSubmit(t) PROVE PoolInv'
  <1> USE PoolAssumption
  <1>1. /\ TypeOK /\ WakeupForEveryTask /\ Places /\ ChildrenFresh
        /\ DrainedBeforeExit /\ WorkersLeaveFirst
    BY DEF PoolInv
  <1>2. /\ t \in Roots /\ future[t] = "none" /\ Enqueue(t) /\ running' = running
        /\ stop_' = stop_ /\ ~stop_ /\ cv_' = cv_ /\ pc[Client] = "submit"
        /\ pc' = [pc EXCEPT ![Client] = "notify"]
    BY DEF ClientSubmit, Enqueue
  <1>3. /\ Places' /\ tasks_' \in Seq(Tasks) /\ Len(tasks_') = Len(tasks_) + 1
        /\ \A n \in Positions' : (n \in Positions /\ tasks_'[n] = tasks_[n]) \/ tasks_'[n] = t
        /\ future' \in [Tasks -> {"none", "pending", "value", "exception"}]
        /\ future'[t] = "pending" /\ \A u \in Tasks : u # t => future'[u] = future[u]
    BY <1>1, <1>2, EnqueuePlaces
  <1>4. /\ pc'[Client] = "notify" /\ \A w \in Workers : pc'[w] = pc[w]
        /\ pc' \in [Threads -> {"wait", "run", "notify", "submitted", "submit",
                                "notify_all", "join", "exited"}]
    BY <1>1, <1>2 DEF TypeOK, Threads
  <1>5. TypeOK'
    BY <1>1, <1>2, <1>3, <1>4 DEF TypeOK
  <1>6. WakeupForEveryTask'
    <2>1. Notifiers' = Notifiers \cup {Client} /\ Client \notin Notifiers
      BY <1>2, <1>4 DEF Notifiers, Threads
    <2>2. IdleWorkers' = IdleWorkers
      BY <1>2, <1>4 DEF IdleWorkers, Idle
    <2>3. Cardinality(Notifiers') = Cardinality(Notifiers) + 1
      BY <2>1, CountsAreFinite, Grow
    <2>4. Len(tasks_) \in Nat
      BY <1>1 DEF TypeOK
    <2> QED
      BY <1>1, <1>2, <1>3, <2>2, <2>3, <2>4, CountsAreFinite DEF WakeupForEveryTask
  <1>7. ChildrenFresh'
    <2> SUFFICES ASSUME NEW u \in Tasks, Child[u] # NoTask, future'[Child[u]] # "none"
                 PROVE  /\ future'[u] # "none"
                        /\ \A n \in Positions' : tasks_'[n] # u
                        /\ \A w \in Workers : running'[w] = u => pc'[w] # "run"
      BY DEF ChildrenFresh
    <2>1. Child[u] # t /\ Child[u] \in Tasks
      BY <1>2 DEF Roots
    <2>2. /\ future[u] # "none"
          /\ \A n \in Positions : tasks_[n] # u
          /\ \A w \in Workers : running[w] = u => pc[w] # "run"
      BY <1>1, <1>3, <2>1 DEF ChildrenFresh
    <2> QED
      BY <1>2, <1>3, <1>4, <2>2
  <1>8. DrainedBeforeExit' /\ WorkersLeaveFirst'
    BY <1>1, <1>2, <1>4 DEF DrainedBeforeExit, WorkersLeaveFirst
  <1> QED
    BY <1>3, <1>5, <1>6, <1>7, <1>8 DEF PoolInv

(* submit from a task (lines 66-72): the child is fresh until its parent has
   submitted it, and a child has one parent. *)
LEMMA RunSubmitInv ==
    ASSUME PoolInv, NEW w \in Workers, RunSubmit(w) PROVE PoolInv'
  <1> USE PoolAssumption
  <1> DEFINE parent == running[w]
             child == Child[running[w]]
  <1>1. /\ TypeOK /\ WakeupForEveryTask /\ Places /\ ChildrenFresh
        /\ DrainedBeforeExit /\ WorkersLeaveFirst
    BY DEF PoolInv
  <1>2. /\ pc[w] = "run" /\ child # NoTask /\ Enqueue(child) /\ running' = running
        /\ stop_' = stop_ /\ ~stop_ /\ cv_' = cv_
        /\ pc' = [pc EXCEPT ![w] = "notify"]
    BY DEF RunSubmit, Enqueue
  <1>3. parent \in Tasks /\ child \in Tasks /\ running[w] = parent /\ Child[parent] = child
    BY <1>1, <1>2 DEF TypeOK
  <1> HIDE DEF parent, child
  <1>4. future[child] = "none"
    BY <1>1, <1>2, <1>3 DEF ChildrenFresh
  <1>5. /\ Places' /\ tasks_' \in Seq(Tasks) /\ Len(tasks_') = Len(tasks_) + 1
        /\ \A n \in Positions' : (n \in Positions /\ tasks_'[n] = tasks_[n]) \/ tasks_'[n] = child
        /\ future' \in [Tasks -> {"none", "pending", "value", "exception"}]
        /\ future'[child] = "pending" /\ \A u \in Tasks : u # child => future'[u] = future[u]
    BY <1>1, <1>2, <1>3, <1>4, EnqueuePlaces
  <1>6. /\ pc'[w] = "notify" /\ pc'[Client] = pc[Client]
        /\ \A v \in Workers : v # w => pc'[v] = pc[v]
        /\ pc' \in [Threads -> {"wait", "run", "notify", "submitted", "submit",
                                "notify_all", "join", "exited"}]
    BY <1>1, <1>2 DEF TypeOK, Threads
  <1>7. w \notin cv_ /\ w \in Threads
    BY <1>1, <1>2 DEF TypeOK, Threads
  <1>8. TypeOK'
    BY <1>1, <1>2, <1>5, <1>6, <1>7 DEF TypeOK
  <1>9. WakeupForEveryTask'
    <2>1. Notifiers' = Notifiers \cup {w} /\ w \notin Notifiers
      BY <1>2, <1>6, <1>7 DEF Notifiers, Threads
    <2>2. IdleWorkers' = IdleWorkers
      BY <1>2, <1>6 DEF IdleWorkers, Idle
    <2>3. Cardinality(Notifiers') = Cardinality(Notifiers) + 1
      BY <2>1, CountsAreFinite, Grow
    <2>4. Len(tasks_) \in Nat
      BY <1>1 DEF TypeOK
    <2> QED
      BY <1>1, <1>2, <1>5, <2>2, <2>3, <2>4, CountsAreFinite DEF WakeupForEveryTask
  <1>10. ChildrenFresh'
    <2> SUFFICES ASSUME NEW u \in Tasks, Child[u] # NoTask, future'[Child[u]] # "none"
                 PROVE  /\ future'[u] # "none"
                        /\ \A n \in Positions' : tasks_'[n] # u
                        /\ \A v \in Workers : running'[v] = u => pc'[v] # "run"
      BY DEF ChildrenFresh
    <2>1. CASE u = parent
      <3>1. future[parent] = "pending" /\ \A n \in Positions : tasks_[n] # parent
        BY <1>1, <1>3 DEF Places
      <3>2. parent # child
        BY <1>4, <3>1
      <3>3. \A v \in Workers : running[v] = parent => v = w
        BY <1>1, <1>3 DEF Places
      <3> QED
        BY <1>2, <1>3, <1>5, <1>6, <2>1, <3>1, <3>2, <3>3
    <2>2. CASE u # parent
      <3>1. Child[u] # child /\ Child[u] \in Tasks
        BY <1>2, <1>3, <2>2
      <3>2. /\ future[u] # "none"
            /\ \A n \in Positions : tasks_[n] # u
            /\ \A v \in Workers : running[v] = u => pc[v] # "run"
        BY <1>1, <1>5, <3>1 DEF ChildrenFresh
      <3>3. u # child
        BY <1>4, <3>2
      <3> QED
        BY <1>2, <1>5, <1>6, <3>2, <3>3
    <2> QED
      BY <2>1, <2>2
  <1>11. DrainedBeforeExit' /\ WorkersLeaveFirst'
    BY <1>1, <1>2, <1>6 DEF DrainedBeforeExit, WorkersLeaveFirst
  <1> QED
    BY <1>5, <1>8, <1>9, <1>10, <1>11 DEF PoolInv

(* A worker takes the front task: one queued task less, one idle worker less. *)
LEMMA TakeTaskInv ==
    ASSUME PoolInv, NEW w \in Workers, TakeTask(w) PROVE PoolInv'
  <1> USE PoolAssumption
  <1>1. /\ TypeOK /\ WakeupForEveryTask /\ Places /\ ChildrenFresh
        /\ DrainedBeforeExit /\ WorkersLeaveFirst
    BY DEF PoolInv
  <1>2. /\ Places' /\ tasks_' \in Seq(Tasks) /\ Len(tasks_') = Len(tasks_) - 1
        /\ running' \in [Workers -> Tasks \cup {NoTask}]
        /\ running'[w] # NoTask /\ \A v \in Workers : v # w => running'[v] = running[v]
        /\ \A n \in Positions' : n + 1 \in Positions /\ tasks_'[n] = tasks_[n + 1]
        /\ 1 \in Positions /\ running'[w] = tasks_[1]
    BY <1>1, TakePlaces
  <1>3. /\ pc[w] = "wait" /\ w \notin cv_ /\ tasks_ # <<>>
        /\ stop_' = stop_ /\ cv_' = cv_ /\ future' = future
        /\ pc' = [pc EXCEPT ![w] = "run"]
    BY DEF TakeTask, Idle
  <1>4. /\ pc'[w] = "run" /\ pc'[Client] = pc[Client] /\ w \in Threads
        /\ \A v \in Workers : v # w => pc'[v] = pc[v]
        /\ pc' \in [Threads -> {"wait", "run", "notify", "submitted", "submit",
                                "notify_all", "join", "exited"}]
    BY <1>1, <1>3 DEF TypeOK, Threads
  <1>5. TypeOK'
    BY <1>1, <1>2, <1>3, <1>4 DEF TypeOK
  <1>6. WakeupForEveryTask'
    <2>1. Notifiers' = Notifiers
      BY <1>3, <1>4 DEF Notifiers, Threads
    <2>2. IdleWorkers' = IdleWorkers \ {w} /\ w \in IdleWorkers
      BY <1>3, <1>4 DEF IdleWorkers, Idle
    <2>3. Cardinality(IdleWorkers') = Cardinality(IdleWorkers) - 1
      BY <2>2, CountsAreFinite, Shrink
    <2>4. Len(tasks_) \in Nat
      BY <1>1 DEF TypeOK
    <2> QED
      BY <1>1, <1>2, <1>3, <2>1, <2>3, <2>4, CountsAreFinite DEF WakeupForEveryTask
  <1>7. ChildrenFresh'
    <2> SUFFICES ASSUME NEW u \in Tasks, Child[u] # NoTask, future'[Child[u]] # "none"
                 PROVE  /\ future'[u] # "none"
                        /\ \A n \in Positions' : tasks_'[n] # u
                        /\ \A v \in Workers : running'[v] = u => pc'[v] # "run"
      BY DEF ChildrenFresh
    <2>1. /\ future[u] # "none"
          /\ \A n \in Positions : tasks_[n] # u
          /\ \A v \in Workers : running[v] = u => pc[v] # "run"
      BY <1>1, <1>3 DEF ChildrenFresh
    <2> QED
      BY <1>2, <1>3, <1>4, <2>1
  <1>8. DrainedBeforeExit' /\ WorkersLeaveFirst'
    BY <1>1, <1>3, <1>4 DEF DrainedBeforeExit, WorkersLeaveFirst
  <1> QED
    BY <1>2, <1>5, <1>6, <1>7, <1>8 DEF PoolInv

(* A task ends, by returning or by throwing; its worker becomes idle and goes
   on (lines 44-54). *)
LEMMA FinishInv ==
    ASSUME PoolInv, NEW w \in Workers, pc[w] \in {"run", "submitted"},
           NEW result \in {"value", "exception"}, Finish(w, result)
    PROVE  PoolInv'
  <1> USE PoolAssumption
  <1>1. /\ TypeOK /\ WakeupForEveryTask /\ Places /\ ChildrenFresh
        /\ DrainedBeforeExit /\ WorkersLeaveFirst
    BY DEF PoolInv
  <1>2. running[w] # NoTask /\ w \notin cv_
    BY <1>1 DEF TypeOK
  <1>3. /\ Places'
        /\ running' \in [Workers -> Tasks \cup {NoTask}]
        /\ running'[w] = NoTask /\ \A v \in Workers : v # w => running'[v] = running[v]
        /\ future' \in [Tasks -> {"none", "pending", "value", "exception"}]
        /\ \A t \in Tasks : future'[t] = "none" <=> future[t] = "none"
    BY <1>1, <1>2, FinishPlaces
  <1>4. /\ tasks_' = tasks_ /\ stop_' = stop_ /\ cv_' = cv_ /\ Positions' = Positions
        /\ pc' = [pc EXCEPT ![w] = "wait"]
    BY DEF Finish, Positions
  <1>5. /\ pc'[w] = "wait" /\ pc'[Client] = pc[Client] /\ w \in Threads
        /\ \A v \in Workers : v # w => pc'[v] = pc[v]
        /\ pc' \in [Threads -> {"wait", "run", "notify", "submitted", "submit",
                                "notify_all", "join", "exited"}]
    BY <1>1, <1>4 DEF TypeOK, Threads
  <1>6. TypeOK'
    BY <1>1, <1>2, <1>3, <1>4, <1>5 DEF TypeOK
  <1>7. WakeupForEveryTask'
    <2>1. Notifiers' = Notifiers
      BY <1>5 DEF Notifiers, Threads
    <2>2. IdleWorkers' = IdleWorkers \cup {w} /\ w \notin IdleWorkers
      BY <1>2, <1>4, <1>5 DEF IdleWorkers, Idle
    <2>3. Cardinality(IdleWorkers') = Cardinality(IdleWorkers) + 1
      BY <2>2, CountsAreFinite, Grow
    <2>4. Len(tasks_) \in Nat
      BY <1>1 DEF TypeOK
    <2> QED
      BY <1>1, <1>4, <2>1, <2>3, <2>4, CountsAreFinite DEF WakeupForEveryTask
  <1>8. ChildrenFresh'
    <2> SUFFICES ASSUME NEW u \in Tasks, Child[u] # NoTask, future'[Child[u]] # "none"
                 PROVE  /\ future'[u] # "none"
                        /\ \A n \in Positions' : tasks_'[n] # u
                        /\ \A v \in Workers : running'[v] = u => pc'[v] # "run"
      BY DEF ChildrenFresh
    <2>1. Child[u] \in Tasks
      OBVIOUS
    <2>2. /\ future[u] # "none"
          /\ \A n \in Positions : tasks_[n] # u
          /\ \A v \in Workers : running[v] = u => pc[v] # "run"
      BY <1>1, <1>3, <2>1 DEF ChildrenFresh
    <2> QED
      BY <1>3, <1>4, <1>5, <2>2
  <1>9. DrainedBeforeExit' /\ WorkersLeaveFirst'
    BY <1>1, <1>4, <1>5 DEF DrainedBeforeExit, WorkersLeaveFirst
  <1> QED
    BY <1>3, <1>6, <1>7, <1>8, <1>9 DEF PoolInv

-----------------------------------------------------------------------------
(* The other steps move no task. *)
LEMMA TasksUnmoved ==
    ASSUME Places, ChildrenFresh, UNCHANGED <<tasks_, running, future>>,
           \A w \in Workers : pc'[w] = "run" => pc[w] = "run"
    PROVE  Places' /\ ChildrenFresh'
  <1>1. Positions' = Positions
    BY DEF Positions
  <1>2. Places'
    BY <1>1 DEF Places
  <1>3. ChildrenFresh'
    BY <1>1 DEF ChildrenFresh
  <1> QED
    BY <1>2, <1>3

(* notify_one after submit (line 72), by the client or by a worker: one
   notification less is outstanding, and one sleeping worker less if any
   sleeps. *)
LEMMA NotifyInv ==
    ASSUME PoolInv, NEW t \in Threads, pc[t] = "notify", cv_' \in notify_one(cv_),
           \/ t = Client /\ pc' = [pc EXCEPT ![t] = "submit"]
           \/ t \in Workers /\ pc' = [pc EXCEPT ![t] = "submitted"],
           UNCHANGED <<tasks_, stop_, running, future>>
    PROVE  PoolInv'
  <1> USE PoolAssumption
  <1>1. /\ TypeOK /\ WakeupForEveryTask /\ Places /\ ChildrenFresh
        /\ DrainedBeforeExit /\ WorkersLeaveFirst
    BY DEF PoolInv
  <1>2. (cv_ = {} /\ cv_' = {}) \/ (\E w \in cv_ : cv_' = cv_ \ {w})
    BY NotifyOne
  <1>3. /\ \A u \in Threads : u # t => pc'[u] = pc[u]
        /\ t = Client => pc'[t] = "submit"
        /\ t \in Workers => pc'[t] = "submitted"
        /\ pc' \in [Threads -> {"wait", "run", "notify", "submitted", "submit",
                                "notify_all", "join", "exited"}]
        /\ t = Client \/ t \in Workers
        /\ Client \in Threads /\ Workers \subseteq Threads
    BY <1>1 DEF TypeOK, Threads
  <1>4. Places' /\ ChildrenFresh'
    <2>1. \A w \in Workers : pc'[w] = "run" => pc[w] = "run"
      BY <1>3
    <2> QED
      BY <1>1, <2>1, TasksUnmoved
  <1>5. TypeOK'
    <2>1. \A w \in Workers : pc'[w] \in {"wait", "run", "notify", "submitted", "exited"}
      BY <1>1, <1>3 DEF TypeOK
    <2>2. pc'[Client] \in {"submit", "notify", "notify_all", "join", "exited"}
      BY <1>1, <1>3 DEF TypeOK
    <2>3. cv_' \in SUBSET {w \in Workers : pc'[w] = "wait"}
      BY <1>1, <1>2, <1>3 DEF TypeOK
    <2>4. \A w \in Workers : running'[w] # NoTask <=> pc'[w] \in {"run", "notify", "submitted"}
      BY <1>1, <1>3 DEF TypeOK
    <2> QED
      BY <1>1, <1>3, <2>1, <2>2, <2>3, <2>4 DEF TypeOK
  <1>6. WakeupForEveryTask'
    <2> SUFFICES ASSUME cv_' # {}
                 PROVE  Cardinality(Notifiers') + Cardinality(IdleWorkers') >= Len(tasks_')
      BY DEF WakeupForEveryTask
    <2>1. PICK w \in cv_ : cv_' = cv_ \ {w}
      BY <1>2
    <2>2. w \in Workers /\ pc[w] = "wait" /\ pc'[w] = "wait"
      BY <1>1, <1>3 DEF TypeOK
    <2>3. Notifiers' = Notifiers \ {t} /\ t \in Notifiers
      BY <1>3 DEF Notifiers
    <2>4. IdleWorkers' = IdleWorkers \cup {w} /\ w \notin IdleWorkers
      BY <1>3, <2>1, <2>2 DEF IdleWorkers, Idle
    <2>5. /\ Cardinality(Notifiers') = Cardinality(Notifiers) - 1
          /\ Cardinality(IdleWorkers') = Cardinality(IdleWorkers) + 1
      BY <2>3, <2>4, CountsAreFinite, Grow, Shrink
    <2>6. Len(tasks_) \in Nat /\ Cardinality(Notifiers) + Cardinality(IdleWorkers) >= Len(tasks_)
      BY <1>1, <2>1 DEF TypeOK, WakeupForEveryTask
    <2> QED
      BY <2>5, <2>6, CountsAreFinite
  <1>7. DrainedBeforeExit' /\ WorkersLeaveFirst'
    BY <1>1, <1>3 DEF DrainedBeforeExit, WorkersLeaveFirst
  <1> QED
    BY <1>4, <1>5, <1>6, <1>7 DEF PoolInv

(* The destructor (lines 76-83): stop_, notify_all, join. *)
LEMMA DestructorInv ==
    ASSUME PoolInv, Stop \/ StopNotify \/ JoinAll PROVE PoolInv'
  <1> USE PoolAssumption
  <1>1. /\ TypeOK /\ WakeupForEveryTask /\ Places /\ ChildrenFresh
        /\ DrainedBeforeExit /\ WorkersLeaveFirst
    BY DEF PoolInv
  <1>2. /\ \A w \in Workers : pc'[w] = pc[w]
        /\ pc[Client] \in {"submit", "notify_all", "join"}
        /\ pc'[Client] \in {"notify_all", "join", "exited"}
        /\ pc' \in [Threads -> {"wait", "run", "notify", "submitted", "submit",
                                "notify_all", "join", "exited"}]
        /\ UNCHANGED <<tasks_, running, future>>
        /\ stop_' \in BOOLEAN /\ (stop_ => stop_') /\ (cv_' = cv_ \/ cv_' = {})
    BY <1>1 DEF TypeOK, Threads, Stop, StopNotify, JoinAll, notify_all
  <1>3. Places' /\ ChildrenFresh'
    BY <1>1, <1>2, TasksUnmoved
  <1>4. TypeOK'
    BY <1>1, <1>2 DEF TypeOK
  <1>5. WakeupForEveryTask'
    <2> SUFFICES ASSUME cv_' # {}
                 PROVE  Cardinality(Notifiers') + Cardinality(IdleWorkers') >= Len(tasks_')
      BY DEF WakeupForEveryTask
    <2>1. Notifiers' = Notifiers
      BY <1>2 DEF Notifiers, Threads
    <2>2. cv_' = cv_ /\ IdleWorkers' = IdleWorkers
      BY <1>2 DEF IdleWorkers, Idle
    <2> QED
      BY <1>1, <1>2, <2>1, <2>2 DEF WakeupForEveryTask
  <1>6. DrainedBeforeExit'
    BY <1>1, <1>2 DEF DrainedBeforeExit
  <1>7. WorkersLeaveFirst'
    <2>1. pc'[Client] = "exited" => \A w \in Workers : pc[w] = "exited"
      BY <1>1, <1>2 DEF TypeOK, Threads, Stop, StopNotify, JoinAll
    <2> QED
      BY <1>2, <2>1 DEF WorkersLeaveFirst
  <1> QED
    BY <1>3, <1>4, <1>5, <1>6, <1>7 DEF PoolInv

(* A worker blocks, leaves its loop or wakes up on its own (lines 47-49). *)
LEMMA WaitInv ==
    ASSUME PoolInv, NEW w \in Workers, WorkerBlock(w) \/ WorkerReturn(w) \/ SpuriousWakeup(w)
    PROVE  PoolInv'
  <1> USE PoolAssumption
  <1>1. /\ TypeOK /\ WakeupForEveryTask /\ Places /\ ChildrenFresh
        /\ DrainedBeforeExit /\ WorkersLeaveFirst
    BY DEF PoolInv
  <1>2. /\ UNCHANGED <<tasks_, stop_, running, future>>
        /\ pc[w] = "wait"
    BY <1>1 DEF WorkerBlock, WorkerReturn, SpuriousWakeup, Idle, TypeOK
  <1>3. CASE WorkerBlock(w)
    <2>1. pc' = pc /\ cv_' = cv_ \cup {w} /\ Len(tasks_') = 0
      BY <1>3 DEF WorkerBlock
    <2>2. WakeupForEveryTask'
      BY <2>1, CountsFiniteNext DEF WakeupForEveryTask
    <2>3. TypeOK'
      BY <1>1, <1>2, <2>1 DEF TypeOK
    <2>4. DrainedBeforeExit' /\ WorkersLeaveFirst' /\ Places' /\ ChildrenFresh'
      BY <1>1, <1>2, <2>1, TasksUnmoved DEF DrainedBeforeExit, WorkersLeaveFirst
    <2> QED
      BY <2>2, <2>3, <2>4 DEF PoolInv
  <1>4. CASE WorkerReturn(w)
    <2>1. /\ pc'[w] = "exited" /\ pc'[Client] = pc[Client] /\ cv_' = cv_ /\ w \notin cv_
          /\ \A v \in Workers : v # w => pc'[v] = pc[v]
          /\ pc' \in [Threads -> {"wait", "run", "notify", "submitted", "submit",
                                  "notify_all", "join", "exited"}]
          /\ stop_ /\ tasks_ = <<>> /\ Len(tasks_') = 0
      BY <1>1, <1>4 DEF WorkerReturn, Idle, TypeOK, Threads
    <2>2. WakeupForEveryTask'
      BY <2>1, CountsFiniteNext DEF WakeupForEveryTask
    <2>3. TypeOK'
      BY <1>1, <1>2, <2>1 DEF TypeOK
    <2>4. Places' /\ ChildrenFresh'
      <3>1. \A v \in Workers : pc'[v] = "run" => pc[v] = "run"
        BY <2>1
      <3> QED
        BY <1>1, <1>2, <3>1, TasksUnmoved
    <2>5. DrainedBeforeExit' /\ WorkersLeaveFirst'
      BY <1>1, <1>2, <2>1 DEF DrainedBeforeExit, WorkersLeaveFirst
    <2> QED
      BY <2>2, <2>3, <2>4, <2>5 DEF PoolInv
  <1>5. CASE SpuriousWakeup(w)
    <2>1. pc' = pc /\ w \in cv_ /\ cv_' = cv_ \ {w}
      BY <1>5 DEF SpuriousWakeup
    <2>2. WakeupForEveryTask'
      <3>1. Notifiers' = Notifiers
        BY <2>1 DEF Notifiers
      <3>2. IdleWorkers' = IdleWorkers \cup {w} /\ w \notin IdleWorkers
        BY <1>2, <2>1 DEF IdleWorkers, Idle
      <3>3. Cardinality(IdleWorkers') = Cardinality(IdleWorkers) + 1
        BY <3>2, CountsAreFinite, Grow
      <3>4. Cardinality(Notifiers) + Cardinality(IdleWorkers) >= Len(tasks_) /\ Len(tasks_) \in Nat
        BY <1>1, <2>1 DEF WakeupForEveryTask, TypeOK
      <3> QED
        BY <1>2, <3>1, <3>3, <3>4, CountsAreFinite DEF WakeupForEveryTask
    <2>3. TypeOK'
      BY <1>1, <1>2, <2>1 DEF TypeOK
    <2>4. DrainedBeforeExit' /\ WorkersLeaveFirst' /\ Places' /\ ChildrenFresh'
      BY <1>1, <1>2, <2>1, TasksUnmoved DEF DrainedBeforeExit, WorkersLeaveFirst
    <2> QED
      BY <2>2, <2>3, <2>4 DEF PoolInv
  <1> QED
    BY <1>3, <1>4, <1>5

(* Every step of a worker, of the client and of the destructor keeps the
   invariant. *)
LEMMA NextPoolInv == PoolInv /\ [Next]_vars => PoolInv'
  <1> SUFFICES ASSUME PoolInv, [Next]_vars PROVE PoolInv'
    OBVIOUS
  <1>1. CASE UNCHANGED vars
    <2>1. UNCHANGED <<tasks_, stop_, cv_, pc, running, future>>
      BY <1>1 DEF vars
    <2>2. Places' /\ ChildrenFresh'
      BY <2>1, TasksUnmoved DEF PoolInv
    <2>3. TypeOK' /\ WakeupForEveryTask' /\ DrainedBeforeExit' /\ WorkersLeaveFirst'
      BY <2>1 DEF PoolInv, TypeOK, WakeupForEveryTask, Notifiers, IdleWorkers, Idle,
                  DrainedBeforeExit, WorkersLeaveFirst
    <2> QED
      BY <2>2, <2>3 DEF PoolInv
  <1>2. CASE \E w \in Workers : Worker(w) \/ SpuriousWakeup(w)
    <2>1. PICK w \in Workers : Worker(w) \/ SpuriousWakeup(w)
      BY <1>2
    <2>2. CASE RunLeaf(w) \/ RunSubmitThrows(w) \/ RunRest(w)
      <3>1. /\ pc[w] \in {"run", "submitted"}
            /\ \E result \in {"value", "exception"} : Finish(w, result)
        BY <2>2 DEF RunLeaf, RunSubmitThrows, RunRest, Result
      <3> QED
        BY <3>1, FinishInv
    <2>3. CASE RunNotify(w)
      BY <2>3, NotifyInv DEF RunNotify, Threads
    <2> QED
      BY <2>1, <2>2, <2>3, WaitInv, TakeTaskInv, RunSubmitInv DEF Worker
  <1>3. CASE \E t \in Tasks : ClientSubmit(t)
    BY <1>3, ClientSubmitInv
  <1>4. CASE ClientNotify
    BY <1>4, NotifyInv DEF ClientNotify, Threads
  <1>5. CASE Stop \/ Destructor
    BY <1>5, DestructorInv DEF Destructor
  <1> QED
    BY <1>1, <1>2, <1>3, <1>4, <1>5 DEF Next, Destroyed

(* The invariant holds in every reachable state. *)
THEOREM PoolInvariant == SafeSpec => []PoolInv
  BY InitPoolInv, NextPoolInv, PTL DEF SafeSpec

(* Position by position implies place by place. *)
LEMMA PlacesOnce == TypeOK /\ Places => EveryTaskInOnePlace
  <1> SUFFICES ASSUME TypeOK, Places, NEW t \in Tasks
               PROVE  LET queued == {n \in DOMAIN tasks_ : tasks_[n] = t}
                          holders == {w \in Workers : running[w] = t}
                      IN  IF future[t] = "pending"
                          THEN \/ holders = {} /\ \E n \in queued : queued = {n}
                               \/ queued = {} /\ \E w \in holders : holders = {w}
                          ELSE queued = {} /\ holders = {}
    BY DEF EveryTaskInOnePlace
  <1> DEFINE queued == {n \in DOMAIN tasks_ : tasks_[n] = t}
             holders == {w \in Workers : running[w] = t}
  <1>1. DOMAIN tasks_ = Positions
    BY DEF TypeOK, Positions
  <1>2. t # NoTask
    BY PoolAssumption
  <1>3. CASE \E n \in Positions : tasks_[n] = t
    <2>1. PICK n \in Positions : tasks_[n] = t
      BY <1>3
    <2>2. queued = {n} /\ holders = {} /\ future[t] = "pending"
      BY <1>1, <2>1 DEF Places
    <2> QED
      BY <2>2
  <1>4. CASE \E w \in Workers : running[w] = t
    <2>1. PICK w \in Workers : running[w] = t
      BY <1>4
    <2>2. queued = {} /\ future[t] = "pending"
      BY <1>1, <1>2, <2>1 DEF Places
    <2>3. holders = {w}
      BY <1>2, <2>1 DEF Places
    <2> QED
      BY <2>2, <2>3
  <1>5. CASE /\ ~\E n \in Positions : tasks_[n] = t
             /\ ~\E w \in Workers : running[w] = t
    <2>1. queued = {} /\ holders = {} /\ future[t] # "pending"
      BY <1>1, <1>5 DEF Places
    <2> QED
      BY <2>1
  <1> QED
    BY <1>3, <1>4, <1>5

(* When the client has left the destructor, nothing is queued or running. *)
LEMMA PromisesKept == PoolInv => NoBrokenPromise
  <1> SUFFICES ASSUME PoolInv PROVE NoBrokenPromise
    OBVIOUS
  <1>1. ASSUME pc[Client] = "exited", NEW t \in Tasks PROVE future[t] # "pending"
    <2>1. \A w \in Workers : pc[w] = "exited" /\ running[w] = NoTask
      BY <1>1 DEF PoolInv, WorkersLeaveFirst, TypeOK
    <2>2. tasks_ = <<>>
      BY <2>1, PoolAssumption DEF PoolInv, DrainedBeforeExit
    <2>3. Positions = {}
      BY <2>2 DEF Positions
    <2>4. t # NoTask
      BY PoolAssumption
    <2> QED
      BY <2>1, <2>3, <2>4 DEF PoolInv, Places
  <1> QED
    BY <1>1 DEF PoolInv, DrainedBeforeExit, NoBrokenPromise

(* The pool keeps every task and every promise: notify_one after the unlock
   loses no wakeup, each accepted task is in exactly one place until its
   future is ready, a worker survives a throwing task, and the destructor
   returns only when every future handed out is ready, whatever tasks are
   submitted from the client or from other tasks, also during shutdown. *)
THEOREM PoolKeepsTasks == SafeSpec => []TasksKept
  <1>1. PoolInv => TasksKept
    BY PlacesOnce, PromisesKept DEF PoolInv, TasksKept
  <1> QED
    BY <1>1, PoolInvariant, PTL
==============================================================================
