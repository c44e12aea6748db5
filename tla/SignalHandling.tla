---------------------------- MODULE SignalHandling ----------------------------
(***************************************************************************)
(* systems/linux/signal_handling.cpp: the main loop and the handlers that  *)
(* may interrupt it between any two of its steps.  A handler runs to its   *)
(* end before the loop goes on.                                            *)
(***************************************************************************)
EXTENDS Naturals, Sequences

CONSTANT MaxSignals          \* bound: signals from outside

VARIABLES
    pc, g_shutdown_requested, g_reload_requested, iteration,
    installed,               \* calls of sigaction so far
    signals,                 \* signals from outside so far
    unserved,                \* history: a SIGUSR1 came since the last reload began
    missed,                  \* history: one came between a reload and the reset
    overtime                 \* history: iterations begun after a shutdown request

vars == <<pc, installed, g_shutdown_requested, g_reload_requested, iteration, signals, unserved, missed, overtime>>

(* in the order of their sigaction calls *)
Signals == <<"SIGINT", "SIGTERM", "SIGUSR1", "SIGPIPE">>

Init ==
    /\ pc = "install" /\ installed = 0 /\ iteration = 0 /\ signals = 0 /\ overtime = 0
    /\ g_shutdown_requested = FALSE /\ g_reload_requested = FALSE
    /\ unserved = FALSE /\ missed = FALSE

Handle(s) ==
    /\ g_shutdown_requested' = (g_shutdown_requested \/ s \in {"SIGINT", "SIGTERM"})
    /\ g_reload_requested' = (g_reload_requested \/ s = "SIGUSR1")
    /\ unserved' = (unserved \/ s = "SIGUSR1")
    /\ missed' = (missed \/ (s = "SIGUSR1" /\ pc = "reset"))

(* Before its sigaction the default action of each of these signals is to kill. *)
Signal(k) ==
    /\ pc \notin {"exit", "killed"} /\ signals < MaxSignals
    /\ signals' = signals + 1
    /\ \/ /\ k > installed /\ pc' = "killed"
          /\ UNCHANGED <<g_shutdown_requested, g_reload_requested, unserved, missed>>
       \/ k <= installed /\ Handle(Signals[k]) /\ UNCHANGED pc
    /\ UNCHANGED <<installed, iteration, overtime>>

(* One call of sigaction. *)
installSignalHandlers ==
    /\ pc = "install" /\ installed' = installed + 1
    /\ pc' = IF installed' = Len(Signals) THEN "kill" ELSE pc
    /\ UNCHANGED <<g_shutdown_requested, g_reload_requested, iteration, signals, unserved, missed, overtime>>

(* kill(getpid(), SIGUSR1): the handler has run when kill returns. *)
KillSelf ==
    /\ pc = "kill" /\ Handle("SIGUSR1") /\ pc' = "test"
    /\ UNCHANGED <<installed, iteration, signals, overtime>>

TestIgnoringShutdown ==
    /\ pc = "test" /\ pc' = IF iteration < 3 THEN "check" ELSE "exit"
    /\ overtime' = overtime + IF g_shutdown_requested /\ pc' = "check" THEN 1 ELSE 0
    /\ UNCHANGED <<installed, g_shutdown_requested, g_reload_requested, iteration, signals, unserved, missed>>

Test ==
    /\ pc = "test"
    /\ pc' = IF ~g_shutdown_requested /\ iteration < 3 THEN "check" ELSE "exit"
    /\ overtime' = overtime + IF g_shutdown_requested /\ pc' = "check" THEN 1 ELSE 0
    /\ UNCHANGED <<installed, g_shutdown_requested, g_reload_requested, iteration, signals, unserved, missed>>

Check ==
    /\ pc = "check" /\ pc' = IF g_reload_requested THEN "reload" ELSE "work"
    /\ UNCHANGED <<installed, g_shutdown_requested, g_reload_requested, iteration, signals, unserved, missed, overtime>>

Reload ==
    /\ pc = "reload" /\ pc' = "reset" /\ unserved' = FALSE /\ missed' = FALSE
    /\ UNCHANGED <<installed, g_shutdown_requested, g_reload_requested, iteration, signals, overtime>>

Reset ==
    /\ pc = "reset" /\ pc' = "work" /\ g_reload_requested' = FALSE
    /\ UNCHANGED <<installed, g_shutdown_requested, iteration, signals, unserved, missed, overtime>>

WorkUncounted ==
    /\ pc = "work" /\ pc' = "test"
    /\ UNCHANGED <<installed, g_shutdown_requested, g_reload_requested, iteration, signals, unserved, missed, overtime>>

(* Work and sleep; a handler only makes sleep return early. *)
Work ==
    /\ pc = "work" /\ pc' = "test" /\ iteration' = iteration + 1
    /\ UNCHANGED <<installed, g_shutdown_requested, g_reload_requested, signals, unserved, missed, overtime>>

Main == installSignalHandlers \/ KillSelf \/ Test \/ Check \/ Reload \/ Reset \/ Work

Next == Main \/ (\E k \in DOMAIN Signals : Signal(k)) \/ (pc \in {"exit", "killed"} /\ UNCHANGED vars)

Spec == Init /\ [][Next]_vars /\ WF_vars(Main)

-----------------------------------------------------------------------------
TypeOK ==
    /\ pc \in {"install", "kill", "test", "check", "reload", "reset", "work", "exit", "killed"}
    /\ installed \in 0 .. Len(Signals) /\ iteration \in 0 .. 3 /\ signals \in 0 .. MaxSignals

(* A reload request is forgotten only if it came after the reload it should
   have caused began and before the flag was reset. *)
ReloadNotForgotten == unserved /\ ~missed => g_reload_requested

(* No iteration begins after a shutdown request, and without one all three do. *)
ShutdownPrompt == overtime = 0 /\ (pc = "exit" => g_shutdown_requested \/ iteration = 3)

(* The flags of signal_handling.cpp pass every request on to the main loop,
   except in the window between reload and reset. *)
SignalsSound == TypeOK /\ ReloadNotForgotten /\ ShutdownPrompt

(* The main loop ends, however its sleeps are interrupted. *)
MainEnds == <>(pc \in {"exit", "killed"})
==============================================================================
