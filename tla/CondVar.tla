------------------------------- MODULE CondVar -------------------------------
(***************************************************************************)
(* std::condition_variable as the modules use it.  Its state is the set of *)
(* threads blocked in wait.  A thread that is not in the set owns or will  *)
(* get the mutex and evaluates wait's predicate again; wait(lock, pred)    *)
(* enters the set exactly when the predicate is false, in the same step    *)
(* that releases the mutex.  A blocked thread may also wake up spuriously: *)
(* each module has an action for that.                                     *)
(***************************************************************************)

(* The wait sets a notify_one may leave: one blocked thread, any one, wakes. *)
notify_one(waiting) ==
    IF waiting = {} THEN {{}} ELSE {waiting \ {t} : t \in waiting}

(* The wait sets a notify_all may leave. *)
notify_all(waiting) == {{}}
==============================================================================
