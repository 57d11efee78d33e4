----------------------------- MODULE TimerThread -----------------------------
(***************************************************************************)
(* TimerThread, one thread that runs delayed tasks for everybody, and the  *)
(* Timers through which their owners add tasks and which, when they are    *)
(* destroyed, promise that none of their tasks will run any more.          *)
(*                                                                         *)
(* The worker holds the queue's mutex except while it waits and while it   *)
(* runs a task; a task runs under the mutex of its timer (STimer).  Times  *)
(* are relative: Tick brings every task and the worker's wake-up closer.   *)
(***************************************************************************)
EXTENDS Integers

CONSTANTS
    Timers,     \* the Timer objects
    Tasks,      \* the tasks they may add, each one at most once at a time
    TimerOf,    \* the timer of a task
    Delay,      \* elapsed_ms of a task
    Periodic,   \* the tasks that end with adding themselves again
    MaxSleep,   \* max_sleepMs
    Slack,      \* a task that is due in less than this is run now
    StopAtStart \* what the uninitialised _stop of a new TimerThread holds

ASSUME TimerAssumption ==
    /\ TimerOf \in [Tasks -> Timers]
    /\ Slack \in Nat \ {0}
    /\ Delay \in [Tasks -> {d \in Nat : d >= Slack}]
    /\ Periodic \subseteq Tasks
    /\ MaxSleep \in Nat \ {0}
    /\ StopAtStart \in BOOLEAN

VARIABLES
    queued,  \* the tasks in _tasks
    due,     \* when they are due, 0 for the others
    worker,  \* where the worker is
    task,    \* the tasks the worker has taken, at most one
    sleep,   \* how long it will still wait
    stop,    \* _stop
    gone     \* the timers that have been destroyed

vars == <<queued, due, worker, task, sleep, stop, gone>>

Places == {"look", "wait", "start", "running", "ended", "terminated"}

TypeOK ==
    /\ queued \subseteq Tasks
    /\ due \in [Tasks -> Int]
    /\ worker \in Places
    /\ task \subseteq Tasks
    /\ sleep \in Nat
    /\ stop \in BOOLEAN
    /\ gone \subseteq Timers

Init ==
    /\ queued = {}
    /\ due = [k \in Tasks |-> 0]
    /\ worker = "look"
    /\ task = {}
    /\ sleep = 0
    /\ stop = StopAtStart
    /\ gone = {}

-----------------------------------------------------------------------------
(* The owners' threads *)

Enqueue(k) ==
    /\ queued' = queued \cup {k}
    /\ due' = [due EXCEPT ![k] = Delay[k]]

\* The waiting worker is notified, but goes on waiting: it only tests _stop.
AddTask(k) ==
    /\ TimerOf[k] \notin gone
    /\ k \notin queued \cup task
    /\ ~stop
    /\ Enqueue(k)
    /\ UNCHANGED <<worker, task, sleep, stop, gone>>

\* Mutant: Stop sets the flag without the mutex.
MutexFree_NotTaken(t) == TRUE

MutexFree(t) == worker = "running" => \A k \in task : TimerOf[k] # t

\* ~Timer: STimer::Stop sets its flag under the mutex that a running task holds.
DestroyTimer(t) ==
    /\ t \notin gone
    /\ MutexFree(t)
    /\ gone' = gone \cup {t}
    /\ UNCHANGED <<queued, due, worker, task, sleep, stop>>

\* Mutant: the thread may be destroyed before the timers.
DestroyThread_First ==
    /\ ~stop
    /\ stop' = TRUE
    /\ UNCHANGED <<queued, due, worker, task, sleep, gone>>

\* ~TimerThread, up to the join.  The modules destroy it after their timers.
DestroyThread ==
    /\ gone = Timers
    /\ ~stop
    /\ stop' = TRUE
    /\ UNCHANGED <<queued, due, worker, task, sleep, gone>>

-----------------------------------------------------------------------------
(* The worker *)

\* Mutant: the comparison of the heap is the wrong way round.
Tops_Latest == {k \in queued : \A other \in queued : due[k] >= due[other]}

Tops == {k \in queued : \A other \in queued : due[k] <= due[other]}

\* Mutant: all tasks of the same time are taken out for one.
TakeDue_SameTime ==
    /\ worker = "look"
    /\ \E k \in Tops :
          /\ due[k] < Slack
          /\ task' = {k}
          /\ queued' = queued \ Tops
          /\ due' = [due EXCEPT ![k] = 0]
    /\ worker' = "start"
    /\ UNCHANGED <<sleep, stop, gone>>

TakeDue ==
    /\ worker = "look"
    /\ \E k \in Tops :
          /\ due[k] < Slack
          /\ task' = {k}
          /\ queued' = queued \ {k}
          /\ due' = [due EXCEPT ![k] = 0]
    /\ worker' = "start"
    /\ UNCHANGED <<sleep, stop, gone>>

\* Mutant: it may wait for a task that is due.
Wait_AlsoForDue ==
    /\ worker = "look"
    /\ sleep' \in IF queued = {} THEN {MaxSleep} ELSE {due[k] : k \in Tops}
    /\ worker' = "wait"
    /\ UNCHANGED <<queued, due, task, stop, gone>>

\* Nothing is due: wait for the earliest task, or as long as allowed without any.
Wait ==
    /\ worker = "look"
    /\ \A k \in Tops : due[k] >= Slack
    /\ sleep' \in IF queued = {} THEN {MaxSleep} ELSE {due[k] : k \in Tops}
    /\ worker' = "wait"
    /\ UNCHANGED <<queued, due, task, stop, gone>>

WaitIsOver == worker = "wait" /\ (sleep = 0 \/ stop)

\* Mutant: the worker does not look at the flag after its wait.
Wake_NeverEnds ==
    /\ WaitIsOver
    /\ worker' = "look"
    /\ sleep' = 0
    /\ UNCHANGED <<queued, due, task, stop, gone>>

Wake ==
    /\ WaitIsOver
    /\ worker' = IF stop THEN "ended" ELSE "look"
    /\ sleep' = 0
    /\ UNCHANGED <<queued, due, task, stop, gone>>

\* The task takes the mutex of its timer; it does nothing if that is destroyed.
StartTask ==
    /\ worker = "start"
    /\ IF \E k \in task : TimerOf[k] \in gone
       THEN worker' = "look" /\ task' = {}
       ELSE worker' = "running" /\ task' = task
    /\ UNCHANGED <<queued, due, sleep, stop, gone>>

\* A periodic task adds itself before it gives the mutex back, which does nothing
\* when its timer is destroyed.  The exception of AddTask after ~TimerThread has
\* begun would end the process.
FinishTask ==
    LET again == {k \in task \cap Periodic : TimerOf[k] \notin gone}
    IN  /\ worker = "running"
        /\ task' = {}
        /\ IF again = {}
           THEN worker' = "look" /\ UNCHANGED <<queued, due>>
           ELSE IF stop
           THEN worker' = "terminated" /\ UNCHANGED <<queued, due>>
           ELSE worker' = "look" /\ \E k \in again : Enqueue(k)
        /\ UNCHANGED <<sleep, stop, gone>>

WorkerSteps == TakeDue \/ Wait \/ Wake \/ StartTask \/ FinishTask

\* What the worker does takes no time; the time that passes is its waiting.
Tick ==
    /\ worker = "wait" /\ ~WaitIsOver
    /\ due' = [k \in Tasks |-> IF k \in queued THEN due[k] - 1 ELSE 0]
    /\ sleep' = sleep - 1
    /\ UNCHANGED <<queued, worker, task, stop, gone>>

Next ==
    \/ \E k \in Tasks : AddTask(k)
    \/ \E t \in Timers : DestroyTimer(t)
    \/ DestroyThread
    \/ TakeDue
    \/ Wait
    \/ Wake
    \/ StartTask
    \/ FinishTask
    \/ Tick

Spec == Init /\ [][Next]_vars

\* The worker is scheduled and time passes.  Owners owe nothing.
FairSpec == Spec /\ WF_vars(WorkerSteps) /\ WF_vars(Tick)

-----------------------------------------------------------------------------
(* Properties *)

\* No task runs when its timer is destroyed, also when ~Timer came between the
\* moment the worker took the task from the queue and the moment it runs it.
NoTaskAfterDestroy ==
    worker = "running" => \A k \in task : TimerOf[k] \notin gone

\* Since the timers go first, no task adds itself to a thread that is being
\* destroyed, which would throw in the worker.
NeverThrows == worker # "terminated"

\* A task is late by no more than the longest wait that may have begun before it
\* was added: the worker never waits for the later of two tasks.
NeverLate ==
    \A k \in queued :
        \E w \in {MaxSleep} \cup {Delay[other] : other \in Tasks} :
            due[k] >= Delay[k] - w

\* A task that has been added runs, unless its timer is destroyed before.
TasksRun ==
    \A k \in Tasks :
        k \in queued ~> (worker = "running" /\ k \in task) \/ TimerOf[k] \in gone

\* ~TimerThread returns: what is due is worked off, the rest is not waited for.
JoinReturns == stop ~> worker = "ended"
=============================================================================
