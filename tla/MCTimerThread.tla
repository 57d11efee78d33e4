---------------------------- MODULE MCTimerThread ----------------------------
(***************************************************************************)
(* The timers of the client: the service's time-out loop every 100 ms, and *)
(* the connect timers of the user manager, two of which may be queued.     *)
(***************************************************************************)
EXTENDS TimerThread

MCTimers == {"service", "manager"}
MCTasks == {"loop", "connect1", "connect2"}
MCTimerOf == [k \in MCTasks |-> IF k = "loop" THEN "service" ELSE "manager"]
MCDelay == [k \in MCTasks |-> IF k = "loop" THEN 3 ELSE 7]
=============================================================================
