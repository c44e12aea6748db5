------------------------------ MODULE Scheduler ------------------------------
(***************************************************************************)
(* roundRobin and priorityScheduling of systems/os/scheduler_sim.cpp.  A   *)
(* step is one iteration of the while loop of the policy that was chosen.  *)
(* std::sort may order processes of equal arrival times either way, so     *)
(* round robin starts from any sequence sorted by arrival.                 *)
(***************************************************************************)
EXTENDS Integers, Sequences, FiniteSets, Functions, FiniteSetsExt

CONSTANTS
    Arrivals, Bursts, Priorities,    \* the processes of a workload
    MaxProcesses, Quanta

VARIABLES
    policy, quantum,
    procs,          \* sequence of processes, as in the vector
    ready_queue, in_queue,
    current_time,
    completed,
    since           \* history: when a process last became ready

vars == <<policy, quantum, procs, ready_queue, in_queue, current_time, completed, since>>

Process(a, b, p) ==
    [arrival_time |-> a, burst_time |-> b, priority |-> p, remaining_time |-> b,
     completion_time |-> 0, first_run_time |-> -1]

(* The five processes of main. *)
MainProcesses ==
    <<Process(0, 10, 3), Process(1, 5, 1), Process(2, 8, 4), Process(3, 3, 2), Process(4, 6, 5)>>

Workloads ==
    {MainProcesses} \cup UNION {[1 .. n -> {Process(a, b, p) : a \in Arrivals, b \in Bursts, p \in Priorities}] :
                               n \in 1 .. MaxProcesses}

SortedByArrival(ps) ==
    \A i, j \in DOMAIN ps : i < j => ps[i].arrival_time <= ps[j].arrival_time

Procs == DOMAIN procs

InOrder(S) == [k \in 1 .. Cardinality(S) |-> CHOOSE i \in S : Cardinality({j \in S : j < i}) = k - 1]

Init ==
    /\ procs \in Workloads
    /\ current_time = 0 /\ completed = 0
    /\ since = [i \in DOMAIN procs |-> procs[i].arrival_time]
    /\ \/ /\ policy = "round robin" /\ quantum \in Quanta /\ SortedByArrival(procs)
          /\ \A i \in DOMAIN procs : procs[i].priority = CHOOSE p \in Priorities : TRUE
          /\ in_queue = {i \in DOMAIN procs : procs[i].arrival_time <= 0}
          /\ ready_queue = InOrder(in_queue)
       \/ /\ policy = "round robin" /\ quantum = 3 /\ procs = MainProcesses
          /\ in_queue = {1} /\ ready_queue = <<1>>
       \/ policy = "priority" /\ quantum = 0 /\ in_queue = {} /\ ready_queue = <<>>

(* The processes the loops of lines 64 and 84 append to the queue. *)
Newcomers(ps, now) ==
    {i \in DOMAIN ps \ in_queue : ps[i].arrival_time <= now /\ ps[i].remaining_time > 0}

RoundRobinIdle ==
    /\ policy = "round robin" /\ completed < Len(procs) /\ ready_queue = <<>>
    /\ current_time' = current_time + 1
    /\ ready_queue' = InOrder(Newcomers(procs, current_time'))
    /\ in_queue' = in_queue \cup Newcomers(procs, current_time')
    /\ UNCHANGED <<policy, quantum, procs, completed, since>>

(* The queue after a slice of idx: who arrived meanwhile queues up before a
   preempted process does. *)
RequeueInFront(rest, arrived, idx, done) == (IF done THEN <<>> ELSE <<idx>>) \o rest \o arrived

Requeue(rest, arrived, idx, done) == rest \o arrived \o (IF done THEN <<>> ELSE <<idx>>)

(* A process after it ran from time from for run_time. *)
Ran(p, from, run_time) ==
    [p EXCEPT !.remaining_time = @ - run_time,
              !.first_run_time = IF @ < 0 THEN from ELSE @,
              !.completion_time = IF p.remaining_time = run_time THEN from + run_time ELSE @]

RoundRobinSlice ==
    /\ policy = "round robin" /\ completed < Len(procs) /\ ready_queue # <<>>
    /\ LET idx == Head(ready_queue)
           run_time == Min({quantum, procs[idx].remaining_time})
           now == current_time + run_time
           done == procs[idx].remaining_time = run_time
           ran == [procs EXCEPT ![idx] = Ran(@, current_time, run_time)]
       IN /\ procs' = ran
          /\ current_time' = now
          /\ in_queue' = in_queue \cup Newcomers(ran, now)
          /\ ready_queue' = Requeue(Tail(ready_queue), InOrder(Newcomers(ran, now)), idx, done)
          /\ completed' = completed + IF done THEN 1 ELSE 0
          /\ since' = [since EXCEPT ![idx] = now]
    /\ UNCHANGED <<policy, quantum>>

(* Among the processes that arrived and are not done, the first with the
   smallest priority number.  A process is done once its completion is set. *)
Candidates == {i \in Procs \ in_queue : procs[i].arrival_time <= current_time}

Best == CHOOSE i \in Candidates : \A j \in Candidates :
            \/ procs[i].priority < procs[j].priority
            \/ procs[i].priority = procs[j].priority /\ i <= j

PriorityIdle ==
    /\ policy = "priority" /\ completed < Len(procs) /\ Candidates = {}
    /\ current_time' = current_time + 1
    /\ UNCHANGED <<policy, quantum, procs, ready_queue, in_queue, completed, since>>

(* in_queue stands for the vector done here. *)
PriorityRun ==
    /\ policy = "priority" /\ completed < Len(procs) /\ Candidates # {}
    /\ LET now == current_time + procs[Best].burst_time
       IN /\ procs' = [procs EXCEPT ![Best] =
                           [@ EXCEPT !.first_run_time = current_time, !.completion_time = now,
                                     !.remaining_time = 0]]
          /\ current_time' = now
    /\ in_queue' = in_queue \cup {Best}
    /\ completed' = completed + 1
    /\ UNCHANGED <<policy, quantum, ready_queue, since>>

Step == RoundRobinIdle \/ RoundRobinSlice \/ PriorityIdle \/ PriorityRun

Finished == completed = Len(procs)

Next == Step \/ (Finished /\ UNCHANGED vars)

Spec == Init /\ [][Next]_vars /\ WF_vars(Step)

-----------------------------------------------------------------------------
(* The metrics of lines 99-107 and 135-141. *)
Turnaround(p) == p.completion_time - p.arrival_time
Waiting(p) == Turnaround(p) - p.burst_time

TypeOK ==
    /\ DOMAIN since = Procs /\ in_queue \subseteq Procs
    /\ ready_queue \in Seq(Procs) /\ current_time \in Nat /\ completed \in 0 .. Len(procs)

(* Round robin queues every process that has arrived and is not done exactly
   once, so no time is idle while there is work. *)
WorkConserving ==
    policy = "round robin" =>
        \A i \in Procs :
            Cardinality({k \in DOMAIN ready_queue : ready_queue[k] = i}) =
                IF procs[i].arrival_time <= current_time /\ procs[i].remaining_time > 0 THEN 1 ELSE 0

(* "RR is fairer (bounded wait)": from the moment it is ready a process waits
   for at most one slice of every other one. *)
BoundedWait ==
    \A k \in DOMAIN ready_queue :
        current_time - since[ready_queue[k]] + (k - 1) * quantum <= (Len(procs) - 1) * quantum

(* Two processes never run at once under the priority policy, and a process
   starts before another that had arrived only if it is as important. *)
MostImportantFirst ==
    policy = "priority" =>
        \A i, j \in in_queue : i # j /\ procs[i].first_run_time <= procs[j].first_run_time =>
            /\ procs[i].completion_time <= procs[j].first_run_time
            /\ procs[j].arrival_time <= procs[i].first_run_time =>
                   procs[i].priority <= procs[j].priority

Total(f) == MapThenSumSet(LAMBDA i : f[i], DOMAIN f)
TimeUsed(ps) == Total([i \in DOMAIN ps |-> ps[i].burst_time - ps[i].remaining_time])

(* Finished processes had their burst: no waiting time is negative, and the
   processor was idle for the rest of the time only. *)
AccountsBalance ==
    /\ completed = Cardinality({i \in Procs : procs[i].remaining_time = 0})
    /\ \A i \in Procs : procs[i].remaining_time = 0 =>
           /\ Waiting(procs[i]) >= 0 /\ procs[i].completion_time <= current_time
           /\ procs[i].first_run_time \in procs[i].arrival_time .. procs[i].completion_time
    /\ TimeUsed(procs) <= current_time

(* The schedules of both policies (scheduler_sim.cpp) are work conserving, fair
   or by priority, and their accounts balance. *)
SchedulesSound == TypeOK /\ WorkConserving /\ BoundedWait /\ MostImportantFirst /\ AccountsBalance

(* Every process of every workload completes: the while loops end. *)
AllComplete == <>Finished
==============================================================================
