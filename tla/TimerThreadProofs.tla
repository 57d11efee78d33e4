-------------------------- MODULE TimerThreadProofs --------------------------
(***************************************************************************)
(* Proofs about the timer thread, for any timers, tasks, delays and waits, *)
(* and whatever the uninitialised _stop held at the start.                 *)
(*                                                                         *)
(* How late a task may be cannot be seen from the tasks alone.  While the  *)
(* worker waits a task comes nearer by as much as its wait goes on, so     *)
(* that what stays is the difference of the two (OnTime).  It is right at  *)
(* the beginning of a wait, which is for the earliest task, and for a task *)
(* that is added in the middle, because no wait is longer than a delay.    *)
(***************************************************************************)
EXTENDS TimerThread, TLAPS

\* How long the worker may wait at a time.
Waits == {MaxSleep} \cup {Delay[k] : k \in Tasks}

\* What is still to be waited for lies within one wait of when a task is due.
OnTime == \A k \in queued : \E w \in Waits : due[k] - sleep >= Delay[k] - w

NotEarly == \A k \in queued : due[k] <= Delay[k]

SleepBounded == \E w \in Waits : sleep <= w

\* Once the thread is stopped no task can add itself again: there is none, or its
\* timer is gone.
StopsLast == stop => gone = Timers \/ (queued = {} /\ task = {})

LateInv == TypeOK /\ OnTime /\ NotEarly /\ SleepBounded

USE TimerAssumption DEF vars

LEMMA WaitsNat == Waits \subseteq Nat
BY DEF Waits

-----------------------------------------------------------------------------

\* A task that is queued is due at its delay: the type and the time of each.
LEMMA EnqueueTyped ==
  ASSUME TypeOK, NEW k \in Tasks, Enqueue(k)
  PROVE  /\ queued' \subseteq Tasks
         /\ due' \in [Tasks -> Int]
         /\ \A j \in queued' : due'[j] = (IF j = k THEN Delay[k] ELSE due[j])
<1>1. Delay[k] \in Int OBVIOUS
<1> QED BY <1>1 DEF TypeOK, Enqueue

LEMMA TypeStep == TypeOK /\ [Next]_vars => TypeOK'
<1> SUFFICES ASSUME TypeOK, [Next]_vars PROVE TypeOK'
  OBVIOUS
<1> USE DEF TypeOK
<1>1. ASSUME NEW k \in Tasks, AddTask(k) PROVE TypeOK'
  BY <1>1, EnqueueTyped DEF AddTask
<1>2. ASSUME NEW t \in Timers, DestroyTimer(t) PROVE TypeOK'
  BY <1>2 DEF DestroyTimer
<1>3. CASE DestroyThread BY <1>3 DEF DestroyThread
<1>4. CASE TakeDue BY <1>4 DEF TakeDue, Tops, Places
<1>5. CASE Wait
  <2>1. \A k \in Tops : due[k] \in Nat BY <1>5 DEF Wait, Tops
  <2>2. sleep' \in Nat BY <1>5, <2>1 DEF Wait
  <2> QED BY <1>5, <2>2 DEF Wait, Places
<1>6. CASE Wake BY <1>6 DEF Wake, Places
<1>7. CASE StartTask BY <1>7 DEF StartTask, Places
<1>8. CASE FinishTask
  <2>1. queued' \subseteq Tasks /\ due' \in [Tasks -> Int]
    BY <1>8, EnqueueTyped DEF FinishTask
  <2> QED BY <1>8, <2>1 DEF FinishTask, Places
<1>9. CASE Tick
  <2>1. sleep' \in Nat BY <1>9 DEF Tick, WaitIsOver
  <2> QED BY <1>9, <2>1 DEF Tick
<1>10. CASE UNCHANGED vars BY <1>10
<1> QED BY <1>1, <1>2, <1>3, <1>4, <1>5, <1>6, <1>7, <1>8, <1>9, <1>10 DEF Next

\* Every variable keeps its type; in particular the worker never waits for less
\* than nothing, though a task may be late.
THEOREM TimerTypes == Spec => []TypeOK
<1>1. Init => TypeOK BY DEF Init, TypeOK, Places
<1> QED BY <1>1, TypeStep, PTL DEF Spec

-----------------------------------------------------------------------------

\* Nothing a timer has added runs when the timer is destroyed, at whatever moment
\* of the worker's loop ~Timer comes.
THEOREM NoneAfterDestroy == Spec => []NoTaskAfterDestroy
<1>1. Init => NoTaskAfterDestroy BY DEF Init, NoTaskAfterDestroy
<1>2. TypeOK /\ NoTaskAfterDestroy /\ [Next]_vars => NoTaskAfterDestroy'
  <2> SUFFICES ASSUME TypeOK, NoTaskAfterDestroy, [Next]_vars PROVE NoTaskAfterDestroy'
    OBVIOUS
  <2> USE DEF NoTaskAfterDestroy
  <2>1. ASSUME NEW k \in Tasks, AddTask(k) PROVE NoTaskAfterDestroy'
    BY <2>1 DEF AddTask
  <2>2. ASSUME NEW t \in Timers, DestroyTimer(t) PROVE NoTaskAfterDestroy'
    BY <2>2 DEF DestroyTimer, MutexFree
  <2>3. CASE StartTask BY <2>3 DEF StartTask
  <2>4. CASE FinishTask BY <2>4 DEF FinishTask
  <2>5. CASE DestroyThread \/ TakeDue \/ Wait \/ Wake \/ Tick \/ UNCHANGED vars
    BY <2>5 DEF DestroyThread, TakeDue, Wait, Wake, Tick
  <2> QED BY <2>1, <2>2, <2>3, <2>4, <2>5 DEF Next
<1> QED BY <1>1, <1>2, TimerTypes, PTL DEF Spec

\* No task adds itself to a thread that is being destroyed, as long as the timers
\* are destroyed before the thread; the uninitialised _stop may hold anything.
THEOREM NothingThrows == Spec => []NeverThrows
<1> DEFINE Quiet == StopsLast /\ NeverThrows
<1> USE DEF StopsLast, NeverThrows
<1>1. Init => Quiet BY DEF Init
<1>2. TypeOK /\ Quiet /\ [Next]_vars => Quiet'
  <2> SUFFICES ASSUME TypeOK, Quiet, [Next]_vars PROVE Quiet'
    OBVIOUS
  <2>1. ASSUME NEW k \in Tasks, AddTask(k) PROVE Quiet'
    BY <2>1 DEF AddTask
  <2>2. ASSUME NEW t \in Timers, DestroyTimer(t) PROVE Quiet'
    BY <2>2 DEF DestroyTimer, TypeOK
  <2>3. CASE DestroyThread BY <2>3 DEF DestroyThread
  <2>4. CASE TakeDue BY <2>4 DEF TakeDue, Tops
  <2>5. CASE StartTask BY <2>5 DEF StartTask
  <2>6. CASE FinishTask
    <3>1. CASE stop
      <4>1. {k \in task \cap Periodic : TimerOf[k] \notin gone} = {}
        BY <3>1 DEF TypeOK
      <4> QED BY <2>6, <4>1 DEF FinishTask
    <3>2. CASE ~stop BY <2>6, <3>2 DEF FinishTask
    <3> QED BY <3>1, <3>2
  <2>7. CASE Wait \/ Wake \/ Tick \/ UNCHANGED vars BY <2>7 DEF Wait, Wake, Tick
  <2> QED BY <2>1, <2>2, <2>3, <2>4, <2>5, <2>6, <2>7 DEF Next
<1> QED BY <1>1, <1>2, TimerTypes, PTL DEF Spec

-----------------------------------------------------------------------------

\* Queueing a task, in the middle of a wait or not, keeps all tasks in time.
LEMMA EnqueueInTime ==
  ASSUME LateInv, NEW k \in Tasks, Enqueue(k), UNCHANGED sleep
  PROVE  OnTime' /\ NotEarly'
<1>1. \A j \in queued' : due'[j] = (IF j = k THEN Delay[k] ELSE due[j])
  BY EnqueueTyped DEF LateInv
<1>2. PICK w \in Waits : sleep <= w BY DEF LateInv, SleepBounded
<1>3. sleep \in Nat /\ w \in Nat /\ Delay[k] \in Nat
  BY WaitsNat DEF LateInv, TypeOK
<1>4. Delay[k] - sleep >= Delay[k] - w BY <1>2, <1>3
<1>5. queued' = queued \cup {k} BY DEF Enqueue
<1> QED BY <1>1, <1>3, <1>4, <1>5 DEF LateInv, OnTime, NotEarly, Waits

LEMMA LateStep == LateInv /\ TypeOK' /\ [Next]_vars => LateInv'
<1> SUFFICES ASSUME LateInv, TypeOK', [Next]_vars PROVE (OnTime /\ NotEarly /\ SleepBounded)'
  BY DEF LateInv
<1> USE DEF OnTime, NotEarly, SleepBounded, Waits
<1>0. queued \subseteq Tasks /\ due \in [Tasks -> Int] /\ sleep \in Nat
  BY DEF LateInv, TypeOK
<1>1. ASSUME NEW k \in Tasks, AddTask(k) PROVE (OnTime /\ NotEarly /\ SleepBounded)'
  BY <1>1, EnqueueInTime DEF AddTask, LateInv
<1>2. CASE FinishTask
  <2>1. (OnTime /\ NotEarly)'
    BY <1>2, EnqueueInTime DEF FinishTask, LateInv, TypeOK
  <2> QED BY <1>2, <2>1 DEF FinishTask, LateInv
<1>3. CASE TakeDue
  <2>1. \A j \in queued' : j \in queued /\ due'[j] = due[j]
    BY <1>3, <1>0 DEF TakeDue, Tops
  <2> QED BY <1>3, <2>1 DEF TakeDue, LateInv
<1>4. CASE Wait
  <2>1. SleepBounded'
    BY <1>4, <1>0 DEF Wait, Tops, LateInv
  <2>2. \A j \in queued : due[j] >= sleep'
    BY <1>4, <1>0 DEF Wait, Tops
  <2>3. OnTime'
    <3> SUFFICES ASSUME NEW j \in queued PROVE due[j] - sleep' >= Delay[j] - Delay[j]
      BY <1>4, <1>0 DEF Wait
    <3> QED BY <2>2, <1>0 DEF TypeOK
  <2> QED BY <1>4, <2>1, <2>3 DEF Wait, LateInv
<1>5. CASE Wake
  <2>1. OnTime'
    <3> SUFFICES ASSUME NEW j \in queued
                 PROVE  \E w \in Waits : due[j] - 0 >= Delay[j] - w
      BY <1>5 DEF Wake
    <3>1. PICK w \in Waits : due[j] - sleep >= Delay[j] - w BY DEF LateInv
    <3>2. w \in Nat /\ Delay[j] \in Nat /\ due[j] \in Int BY <1>0, WaitsNat
    <3> QED BY <3>1, <3>2, <1>0
  <2>2. SleepBounded' BY <1>5 DEF Wake
  <2> QED BY <1>5, <2>1, <2>2 DEF Wake, LateInv
<1>6. CASE Tick
  <2>1. \A j \in queued : due'[j] = due[j] - 1 /\ due[j] \in Int
    BY <1>6, <1>0 DEF Tick
  <2>2. sleep' = sleep - 1 /\ queued' = queued BY <1>6 DEF Tick
  <2>3. OnTime'
    <3> SUFFICES ASSUME NEW j \in queued
                 PROVE  \E w \in Waits : due'[j] - sleep' >= Delay[j] - w
      BY <2>2
    <3>1. due'[j] - sleep' = due[j] - sleep BY <2>1, <2>2, <1>0
    <3> QED BY <3>1 DEF LateInv
  <2>4. NotEarly'
    <3> SUFFICES ASSUME NEW j \in queued PROVE due'[j] <= Delay[j]
      BY <2>2
    <3>1. Delay[j] \in Nat /\ due[j] <= Delay[j] BY <1>0 DEF LateInv
    <3> QED BY <3>1, <2>1
  <2>5. SleepBounded'
    <3>1. PICK w \in Waits : sleep <= w BY DEF LateInv
    <3>2. w \in Nat BY WaitsNat
    <3> QED BY <3>1, <3>2, <2>2, <1>0
  <2> QED BY <2>3, <2>4, <2>5
<1>7. CASE (\E t \in Timers : DestroyTimer(t)) \/ DestroyThread \/ StartTask \/ UNCHANGED vars
  BY <1>7 DEF DestroyTimer, DestroyThread, StartTask, LateInv
<1> QED BY <1>1, <1>2, <1>3, <1>4, <1>5, <1>6, <1>7 DEF Next

\* A task is late by no more than one wait, the longest that may have begun before
\* it was added, for all delays and all combinations of tasks.
THEOREM LateByOneWait == Spec => []NeverLate
<1>1. Init => LateInv
  BY DEF Init, LateInv, TypeOK, OnTime, NotEarly, SleepBounded, Waits, Places
<1>2. LateInv => NeverLate
  <2> SUFFICES ASSUME LateInv, NEW k \in queued
               PROVE  \E w \in Waits : due[k] >= Delay[k] - w
    BY DEF NeverLate, Waits
  <2>1. PICK w \in Waits : due[k] - sleep >= Delay[k] - w BY DEF LateInv, OnTime
  <2>2. w \in Nat /\ Delay[k] \in Nat /\ due[k] \in Int /\ sleep \in Nat
    BY WaitsNat DEF LateInv, TypeOK
  <2> QED BY <2>1, <2>2
<1> QED BY <1>1, <1>2, LateStep, TimerTypes, PTL DEF Spec
=============================================================================
