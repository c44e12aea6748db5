---------------------------- MODULE MCThreadPool ----------------------------
(***************************************************************************)
(* Instances of ThreadPool for TLC: two plain root tasks, one of which     *)
(* throws, and a root that submits a child.                                *)
(***************************************************************************)
EXTENDS ThreadPool

CONSTANTS leaf, thrower, parent, child

MCTasks == {leaf, thrower, parent, child}

MCChild == [t \in MCTasks |-> IF t = parent THEN child ELSE NoTask]
==============================================================================
