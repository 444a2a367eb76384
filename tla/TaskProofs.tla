----------------------------- MODULE TaskProofs -----------------------------
(***************************************************************************)
(* Proofs about Task, for every set of tasks, interrupt contexts and       *)
(* completions: what every step of the sleeping and waking code keeps,     *)
(* whichever callers the steps are made by.                                *)
(***************************************************************************)
EXTENDS Task, TLAPS

USE DEF Actors

-----------------------------------------------------------------------------
(* The operations, by what they may change: a step of a sleep, which       *)
(* leaves the completions alone; a step of a wait, under wait.lock; and    *)
(* what wakes another task.                                                *)

SleepOp(t) ==
    \/ ArmTimer(t) \/ Schedule(t) \/ WaitEvent(t) \/ Woken(t)
    \/ SpuriousWakeup(t) \/ ScheduleReturns(t) \/ TimeoutReturns(t)
    \/ TimerFires(t) \/ Expire(t) \/ WakeUpProcess(t) \/ FlushSignals(t)
    \/ \E k \in Kinds \ WaitKinds : StartSleep(t, k)

WaitOp(t) ==
    \/ \E c \in Completions : WaitTakes(t, c)
    \/ \E c \in Completions, k \in WaitKinds : WaitQueues(t, c, k)
    \/ WaitTimesOut(t) \/ WaitEnds(t) \/ WaitInterrupted(t) \/ WaitAgain(t)

WakeOp(a) ==
    \/ \E c \in Completions : Complete(a, c)
    \/ CompleteWakes(a)
    \/ a \in Irqs /\ \E t \in Tasks : SendSignal(a, t)
    \/ a \in Irqs /\ SignalWakes(a)

-----------------------------------------------------------------------------
(* What the point a task has reached says of its other fields.  A task     *)
(* about to sleep has a state in which complete() will wake it.            *)

Blocked == SleepPoints \cup {"w_lock", "w_late"}

TaskAt(t) ==
    /\ pc[t] \in TaskPoints
    /\ pc[t] = "run" => on[t] = None
    /\ pc[t] \in SleepPoints => (on[t] # None <=> kind[t] \in WaitKinds)
    /\ pc[t] \in {"w_lock", "w_late"} => on[t] # None /\ kind[t] \in WaitKinds
    /\ pc[t] \in {"w_late", "s_arm"} => kind[t] \in TimedKinds
    /\ pc[t] \in SleepPoints \ {"s_ret"} => state[t] \in Sleeping

IrqAt(i) ==
    /\ pc[i] \in IrqPoints
    /\ pc[i] # "k_send" => on[i] = None
    /\ pc[i] = "g_check" => wakee[i] \in Tasks

TaskControl == (\A t \in Tasks : TaskAt(t)) /\ (\A i \in Irqs : IrqAt(i))

(* wait.lock is held by the one actor that is inside complete().           *)
Locks ==
    /\ \A c \in Completions : holder[c] # None =>
          pc[holder[c]] = "k_send" /\ on[holder[c]] = c
    /\ \A a \in Actors : pc[a] = "k_send" =>
          on[a] # None /\ holder[on[a]] = a

(* The wait queue of a completion holds exactly the tasks that wait for    *)
(* it, each once, and one at most if it has a single waiter.               *)
Queues ==
    \A c \in Completions :
        /\ \A t \in Tasks : Waits(t, c) <=>
              \E i \in DOMAIN queue[c] : queue[c][i] = t
        /\ \A i, j \in DOMAIN queue[c] : queue[c][i] = queue[c][j] => i = j
        /\ c \in Single => Len(queue[c]) <= 1

(* No waiter of a completion that is done sleeps on.                       *)
Wakeable ==
    \A c \in Single, t \in Tasks : done[c] > 0 /\ Waits(t, c) => ~ Stuck(t)

TaskInv ==
    /\ TaskTypeOK /\ TaskControl /\ Locks /\ Queues
    /\ CompletionsConserved /\ Wakeable

-----------------------------------------------------------------------------
(* What taking the entry of t off a wait queue leaves.                     *)
LEMMA DequeueFacts ==
    ASSUME NEW s \in Seq(Tasks), NEW t \in Tasks,
           \E i \in DOMAIN s : s[i] = t,
           \A i, j \in DOMAIN s : s[i] = s[j] => i = j
    PROVE  /\ Dequeue(s, t) \in Seq(Tasks)
           /\ Len(Dequeue(s, t)) = Len(s) - 1
           /\ \A u : (\E i \in DOMAIN Dequeue(s, t) : Dequeue(s, t)[i] = u)
                        <=> u # t /\ \E i \in DOMAIN s : s[i] = u
           /\ \A i, j \in DOMAIN Dequeue(s, t) :
                 Dequeue(s, t)[i] = Dequeue(s, t)[j] => i = j
<1> DEFINE p == CHOOSE i \in 1..Len(s) : s[i] = t
           q == Dequeue(s, t)
<1>1. Len(s) \in Nat \ {0} /\ DOMAIN s = 1..Len(s)
  OBVIOUS
<1>2. p \in 1..Len(s) /\ s[p] = t
  BY <1>1
<1>3. q = [i \in 1..(Len(s) - 1) |-> IF i < p THEN s[i] ELSE s[i + 1]]
  BY DEF Dequeue
<1> HIDE DEF p, q
<1>4. /\ q \in Seq(Tasks) /\ Len(q) = Len(s) - 1 /\ DOMAIN q = 1..(Len(s) - 1)
      /\ \A i \in 1..(Len(s) - 1) : q[i] = IF i < p THEN s[i] ELSE s[i + 1]
  <2>1. \A i \in 1..(Len(s) - 1) : i \in 1..Len(s) /\ i + 1 \in 1..Len(s)
    BY <1>1
  <2>2. Len(s) - 1 \in Nat
    BY <1>1
  <2>3. q \in [1..(Len(s) - 1) -> Tasks]
    BY <1>1, <1>3, <2>1
  <2>4. q \in Seq(Tasks)
    BY <2>2, <2>3
  <2> QED BY <1>1, <1>3, <2>2, <2>3, <2>4
<1> DEFINE Old(i) == IF i < p THEN i ELSE i + 1
           New(i) == IF i < p THEN i ELSE i - 1
<1>5. \A i \in 1..(Len(s) - 1) :
         Old(i) \in 1..Len(s) /\ Old(i) # p /\ q[i] = s[Old(i)]
  BY <1>1, <1>2, <1>4
<1>6. \A i, j \in 1..(Len(s) - 1) : Old(i) = Old(j) => i = j
  BY <1>1, <1>2
<1>7. \A i \in 1..Len(s) : i # p =>
         New(i) \in 1..(Len(s) - 1) /\ Old(New(i)) = i
  BY <1>1, <1>2
<1> HIDE DEF Old, New
<1>8. \A i \in 1..Len(s) : s[i] = t => i = p
  BY <1>1, <1>2
<1>9. \A u : (\E i \in DOMAIN q : q[i] = u) <=> u # t /\ \E i \in DOMAIN s : s[i] = u
  <2> SUFFICES ASSUME NEW u
               PROVE  (\E i \in DOMAIN q : q[i] = u)
                         <=> u # t /\ \E i \in DOMAIN s : s[i] = u
    OBVIOUS
  <2>1. ASSUME NEW i \in DOMAIN q, q[i] = u
        PROVE  u # t /\ \E j \in DOMAIN s : s[j] = u
    <3>1. Old(i) \in 1..Len(s) /\ Old(i) # p /\ s[Old(i)] = u
      BY <1>4, <1>5, <2>1
    <3> QED BY <1>1, <1>8, <3>1
  <2>2. ASSUME u # t, NEW i \in DOMAIN s, s[i] = u
        PROVE  \E j \in DOMAIN q : q[j] = u
    <3>1. i # p
      BY <1>2, <2>2
    <3>2. New(i) \in 1..(Len(s) - 1) /\ Old(New(i)) = i
      BY <1>1, <1>7, <3>1
    <3>3. q[New(i)] = u
      BY <1>5, <2>2, <3>2
    <3> QED BY <1>4, <3>2, <3>3
  <2> QED BY <2>1, <2>2
<1>10. \A i, j \in DOMAIN q : q[i] = q[j] => i = j
  BY <1>1, <1>4, <1>5, <1>6
<1>11. q = Dequeue(s, t)
  BY DEF q
<1> QED BY <1>4, <1>9, <1>10, <1>11

(* The entry of a task that leaves its wait is on the queue.               *)
LEMMA LeaveFacts ==
    ASSUME TaskTypeOK, TaskControl, Queues, NEW t \in Tasks,
           pc[t] \in {"w_lock", "w_late"}
    PROVE  /\ on[t] \in Completions
           /\ queue[on[t]] \in Seq(Tasks)
           /\ Waits(t, on[t])
           /\ \E i \in DOMAIN queue[on[t]] : queue[on[t]][i] = t
           /\ Dequeue(queue[on[t]], t) \in Seq(Tasks)
           /\ Len(Dequeue(queue[on[t]], t)) = Len(queue[on[t]]) - 1
<1>1. on[t] \in Completions /\ queue[on[t]] \in Seq(Tasks)
  BY DEF TaskTypeOK, TaskControl, TaskAt
<1>2. Waits(t, on[t])
  BY DEF Waits
<1>3. \E i \in DOMAIN queue[on[t]] : queue[on[t]][i] = t
  BY <1>1, <1>2 DEF Queues
<1>4. \A i, j \in DOMAIN queue[on[t]] :
         queue[on[t]][i] = queue[on[t]][j] => i = j
  BY <1>1 DEF Queues
<1> QED BY <1>1, <1>2, <1>3, <1>4, DequeueFacts

-----------------------------------------------------------------------------
(* Types                                                                   *)

LEMMA TypeSleep ==
    ASSUME TaskTypeOK, TaskControl, Queues, NEW t \in Tasks, SleepOp(t)
    PROVE  TaskTypeOK'
<1> USE DEF TaskTypeOK, Goto, SleepPoint, SleepState, TaskPoints, IrqPoints,
            SleepPoints, States, Sleeping, Kinds, WaitKinds, TimedKinds,
            taskVars, clockVars, queueVars, callVars
<1>1. CASE ArmTimer(t)
  BY <1>1 DEF ArmTimer
<1>2. CASE Schedule(t)
  BY <1>2 DEF Schedule
<1>3. CASE WaitEvent(t)
  BY <1>3 DEF WaitEvent
<1>4. CASE Woken(t)
  BY <1>4 DEF Woken
<1>5. CASE SpuriousWakeup(t)
  BY <1>5 DEF SpuriousWakeup
<1>6. CASE ScheduleReturns(t)
  BY <1>6 DEF ScheduleReturns
<1>7. CASE TimeoutReturns(t)
  BY <1>7 DEF TimeoutReturns
<1>8. CASE TimerFires(t)
  BY <1>8 DEF TimerFires
<1>9. CASE Expire(t)
  BY <1>9 DEF Expire
<1>10. CASE WakeUpProcess(t)
  BY <1>10 DEF WakeUpProcess
<1>11. CASE FlushSignals(t)
  BY <1>11 DEF FlushSignals
<1>12. CASE \E k \in Kinds \ WaitKinds : StartSleep(t, k)
  BY <1>12 DEF StartSleep
<1> QED
  BY <1>1, <1>2, <1>3, <1>4, <1>5, <1>6, <1>7, <1>8, <1>9, <1>10, <1>11,
     <1>12 DEF SleepOp

LEMMA TypeWait ==
    ASSUME TaskTypeOK, TaskControl, Queues, NEW t \in Tasks, WaitOp(t)
    PROVE  TaskTypeOK'
<1> USE DEF TaskTypeOK, Goto, SleepPoint, SleepState, TaskPoints, IrqPoints,
            SleepPoints, States, Sleeping, Kinds, WaitKinds, TimedKinds,
            taskVars, clockVars, queueVars, callVars
<1>1. CASE \E c \in Completions : WaitTakes(t, c)
  BY <1>1 DEF WaitTakes, Take
<1>2. CASE \E c \in Completions, k \in WaitKinds : WaitQueues(t, c, k)
  BY <1>2 DEF WaitQueues
<1>3. CASE WaitTimesOut(t)
  BY <1>3, LeaveFacts DEF WaitTimesOut, Leave
<1>4. CASE WaitEnds(t)
  BY <1>4, LeaveFacts DEF WaitEnds, Leave, Take, Done
<1>5. CASE WaitInterrupted(t)
  BY <1>5, LeaveFacts DEF WaitInterrupted, Leave
<1>6. CASE WaitAgain(t)
  BY <1>6 DEF WaitAgain
<1> QED
  BY <1>1, <1>2, <1>3, <1>4, <1>5, <1>6 DEF WaitOp

LEMMA TypeWake ==
    ASSUME TaskTypeOK, TaskControl, Queues, NEW a \in Actors, WakeOp(a)
    PROVE  TaskTypeOK'
<1> USE DEF TaskTypeOK, Goto, SleepPoint, SleepState, TaskPoints, IrqPoints,
            SleepPoints, States, Sleeping, Kinds, WaitKinds, TimedKinds,
            taskVars, clockVars, queueVars, callVars
<1>1. CASE \E c \in Completions : Complete(a, c)
  BY <1>1 DEF Complete, Wakee
<1>2. CASE CompleteWakes(a)
  BY <1>2 DEF CompleteWakes
<1>3. CASE a \in Irqs /\ \E t \in Tasks : SendSignal(a, t)
  BY <1>3 DEF SendSignal
<1>4. CASE a \in Irqs /\ SignalWakes(a)
  BY <1>4 DEF SignalWakes, TaskControl, IrqAt
<1> QED
  BY <1>1, <1>2, <1>3, <1>4 DEF WakeOp
-----------------------------------------------------------------------------
(* Control                                                                 *)

LEMMA ControlSleep ==
    ASSUME TaskTypeOK, TaskControl, NEW t \in Tasks, SleepOp(t)
    PROVE  TaskControl'
<1> USE DEF TaskTypeOK, TaskControl, TaskAt, IrqAt, Goto, SleepPoint,
            SleepState, TaskPoints, IrqPoints, SleepPoints, States, Sleeping,
            Kinds, WaitKinds, TimedKinds, taskVars, clockVars, queueVars,
            callVars
<1>1. CASE ArmTimer(t)
  BY <1>1, TaskAssumption DEF ArmTimer
<1>2. CASE Schedule(t)
  BY <1>2, TaskAssumption DEF Schedule
<1>3. CASE WaitEvent(t)
  BY <1>3, TaskAssumption DEF WaitEvent
<1>4. CASE Woken(t)
  BY <1>4, TaskAssumption DEF Woken
<1>5. CASE SpuriousWakeup(t)
  BY <1>5, TaskAssumption DEF SpuriousWakeup
<1>6. CASE ScheduleReturns(t)
  BY <1>6, TaskAssumption DEF ScheduleReturns
<1>7. CASE TimeoutReturns(t)
  BY <1>7, TaskAssumption DEF TimeoutReturns
<1>8. CASE TimerFires(t)
  BY <1>8, TaskAssumption DEF TimerFires
<1>9. CASE Expire(t)
  BY <1>9, TaskAssumption DEF Expire
<1>10. CASE WakeUpProcess(t)
  BY <1>10, TaskAssumption DEF WakeUpProcess
<1>11. CASE FlushSignals(t)
  BY <1>11, TaskAssumption DEF FlushSignals
<1>12. CASE \E k \in Kinds \ WaitKinds : StartSleep(t, k)
  BY <1>12, TaskAssumption DEF StartSleep
<1> QED
  BY <1>1, <1>2, <1>3, <1>4, <1>5, <1>6, <1>7, <1>8, <1>9, <1>10, <1>11,
     <1>12 DEF SleepOp

LEMMA ControlWait ==
    ASSUME TaskTypeOK, TaskControl, NEW t \in Tasks, WaitOp(t)
    PROVE  TaskControl'
<1> USE DEF TaskTypeOK, TaskControl, TaskAt, IrqAt, Goto, SleepPoint,
            SleepState, TaskPoints, IrqPoints, SleepPoints, States, Sleeping,
            Kinds, WaitKinds, TimedKinds, taskVars, clockVars, queueVars,
            callVars
<1>1. CASE \E c \in Completions : WaitTakes(t, c)
  BY <1>1, TaskAssumption DEF WaitTakes, Take
<1>2. CASE \E c \in Completions, k \in WaitKinds : WaitQueues(t, c, k)
  BY <1>2, TaskAssumption DEF WaitQueues
<1>3. CASE WaitTimesOut(t)
  BY <1>3, TaskAssumption DEF WaitTimesOut, Leave
<1>4. CASE WaitEnds(t)
  BY <1>4, TaskAssumption DEF WaitEnds, Leave, Take, Done
<1>5. CASE WaitInterrupted(t)
  BY <1>5, TaskAssumption DEF WaitInterrupted, Leave
<1>6. CASE WaitAgain(t)
  BY <1>6, TaskAssumption DEF WaitAgain
<1> QED
  BY <1>1, <1>2, <1>3, <1>4, <1>5, <1>6 DEF WaitOp

LEMMA ControlWake ==
    ASSUME TaskTypeOK, TaskControl, NEW a \in Actors, WakeOp(a)
    PROVE  TaskControl'
<1> USE DEF TaskTypeOK, TaskControl, TaskAt, IrqAt, Goto, SleepPoint,
            SleepState, TaskPoints, IrqPoints, SleepPoints, States, Sleeping,
            Kinds, WaitKinds, TimedKinds, taskVars, clockVars, queueVars,
            callVars
<1>1. CASE \E c \in Completions : Complete(a, c)
  BY <1>1, TaskAssumption DEF Complete
<1>2. CASE CompleteWakes(a)
  BY <1>2, TaskAssumption DEF CompleteWakes
<1>3. CASE a \in Irqs /\ \E t \in Tasks : SendSignal(a, t)
  BY <1>3, TaskAssumption DEF SendSignal
<1>4. CASE a \in Irqs /\ SignalWakes(a)
  BY <1>4, TaskAssumption DEF SignalWakes
<1> QED
  BY <1>1, <1>2, <1>3, <1>4 DEF WakeOp
-----------------------------------------------------------------------------
(* wait.lock                                                               *)

(* A step of an actor that is not inside complete() before or after.       *)
LEMMA LocksMove ==
    ASSUME TaskTypeOK, Locks, holder' = holder, NEW a \in Actors,
           pc'[a] = "k_send" <=> pc[a] = "k_send",
           pc[a] = "k_send" => on'[a] = on[a],
           \A b \in Actors \ {a} : pc'[b] = pc[b] /\ on'[b] = on[b]
    PROVE  Locks'
<1>1. \A c \in Completions : holder[c] # None => holder[c] \in Actors
  BY DEF TaskTypeOK
<1>2. \A b \in Actors : pc[b] = "k_send" => pc'[b] = "k_send" /\ on'[b] = on[b]
  OBVIOUS
<1>3. \A b \in Actors : pc'[b] = "k_send" => pc[b] = "k_send" /\ on'[b] = on[b]
  OBVIOUS
<1> QED BY <1>1, <1>2, <1>3 DEF Locks

LEMMA LocksSleep ==
    ASSUME TaskTypeOK, TaskControl, Locks, NEW t \in Tasks, SleepOp(t)
    PROVE  Locks'
<1> USE DEF TaskTypeOK, Goto, SleepPoint, taskVars, clockVars, queueVars,
            callVars
<1>1. CASE ArmTimer(t)
  BY <1>1, LocksMove DEF ArmTimer
<1>2. CASE Schedule(t)
  BY <1>2, LocksMove DEF Schedule
<1>3. CASE WaitEvent(t)
  <2>1. /\ pc[t] = "s_wait" /\ pc'[t] \in {"s_ret", "s_sleep"}
        /\ \A b \in Actors \ {t} : pc'[b] = pc[b]
        /\ holder' = holder /\ on' = on
    BY <1>3 DEF WaitEvent
  <2> QED BY <2>1, LocksMove
<1>4. CASE Woken(t)
  BY <1>4, LocksMove DEF Woken
<1>5. CASE SpuriousWakeup(t)
  BY <1>5, LocksMove DEF SpuriousWakeup
<1>6. CASE ScheduleReturns(t)
  BY <1>6, LocksMove DEF ScheduleReturns
<1>7. CASE TimeoutReturns(t)
  BY <1>7, LocksMove DEF TimeoutReturns
<1>8. CASE TimerFires(t)
  BY <1>8, LocksMove DEF TimerFires
<1>9. CASE Expire(t)
  BY <1>9, LocksMove DEF Expire
<1>10. CASE WakeUpProcess(t)
  BY <1>10, LocksMove DEF WakeUpProcess
<1>11. CASE FlushSignals(t)
  BY <1>11, LocksMove DEF FlushSignals
<1>12. CASE \E k \in Kinds \ WaitKinds : StartSleep(t, k)
  BY <1>12, LocksMove DEF StartSleep
<1> QED
  BY <1>1, <1>2, <1>3, <1>4, <1>5, <1>6, <1>7, <1>8, <1>9, <1>10, <1>11,
     <1>12 DEF SleepOp

LEMMA LocksWait ==
    ASSUME TaskTypeOK, TaskControl, Locks, NEW t \in Tasks, WaitOp(t)
    PROVE  Locks'
<1> USE DEF TaskTypeOK, Goto, SleepPoint, taskVars, clockVars, queueVars,
            callVars
<1>1. CASE \E c \in Completions : WaitTakes(t, c)
  BY <1>1, LocksMove DEF WaitTakes, Take
<1>2. CASE \E c \in Completions, k \in WaitKinds : WaitQueues(t, c, k)
  BY <1>2, LocksMove DEF WaitQueues
<1>3. CASE WaitTimesOut(t)
  BY <1>3, LocksMove DEF WaitTimesOut, Leave
<1>4. CASE WaitEnds(t)
  BY <1>4, LocksMove DEF WaitEnds, Leave, Take, Done
<1>5. CASE WaitInterrupted(t)
  BY <1>5, LocksMove DEF WaitInterrupted, Leave
<1>6. CASE WaitAgain(t)
  BY <1>6, LocksMove DEF WaitAgain
<1> QED
  BY <1>1, <1>2, <1>3, <1>4, <1>5, <1>6 DEF WaitOp

LEMMA LocksWake ==
    ASSUME TaskTypeOK, TaskControl, Locks, NEW a \in Actors, WakeOp(a)
    PROVE  Locks'
<1> USE DEF TaskTypeOK, Goto, SleepPoint, taskVars, clockVars, queueVars,
            callVars
<1>1. CASE \E c \in Completions : Complete(a, c)
  <2>1. PICK c \in Completions : Complete(a, c)
    BY <1>1
  <2>2. /\ holder[c] = None /\ holder'[c] = a /\ on'[a] = c /\ pc'[a] = "k_send"
        /\ pc[a] = "run"
        /\ \A b \in Actors \ {a} : pc'[b] = pc[b] /\ on'[b] = on[b]
        /\ \A e \in Completions \ {c} : holder'[e] = holder[e]
    BY <2>1 DEF Complete, LockFree
  <2>3. \A e \in Completions \ {c} : holder[e] # None =>
           holder[e] \in Actors \ {a}
    BY <2>2 DEF Locks
  <2>4. \A b \in Actors \ {a} : pc[b] = "k_send" =>
           on[b] \in Completions \ {c}
    BY <2>2, TaskAssumption DEF Locks
  <2>5. ASSUME NEW e \in Completions, holder'[e] # None
        PROVE  pc'[holder'[e]] = "k_send" /\ on'[holder'[e]] = e
    <3>1. CASE e = c
      BY <2>2, <2>5, <3>1
    <3>2. CASE e # c
      <4>1. PICK b \in Actors \ {a} : holder[e] = b /\ holder'[e] = b
        BY <2>2, <2>3, <2>5, <3>2
      <4>2. pc[b] = "k_send" /\ on[b] = e
        BY <2>5, <4>1 DEF Locks
      <4> QED BY <2>2, <4>1, <4>2
    <3> QED BY <3>1, <3>2
  <2>6. ASSUME NEW b \in Actors, pc'[b] = "k_send"
        PROVE  on'[b] # None /\ holder'[on'[b]] = b
    <3>1. CASE b = a
      BY <2>2, <2>6, <3>1, TaskAssumption
    <3>2. CASE b # a
      <4>1. pc[b] = "k_send" /\ on'[b] = on[b]
        BY <2>2, <2>6, <3>2
      <4>2. PICK e \in Completions : e = on[b] /\ e # c
        BY <2>4, <3>2, <4>1
      <4>3. holder[e] = b
        BY <4>1, <4>2 DEF Locks
      <4> QED BY <2>2, <4>1, <4>2, <4>3, TaskAssumption
    <3> QED BY <3>1, <3>2
  <2> QED BY <2>5, <2>6 DEF Locks
<1>2. CASE CompleteWakes(a)
  <2>1. on[a] \in Completions /\ holder[on[a]] = a /\ pc[a] = "k_send"
    BY <1>2 DEF CompleteWakes, Locks
  <2>2. /\ holder'[on[a]] = None /\ pc'[a] = "run"
        /\ \A b \in Actors \ {a} : pc'[b] = pc[b] /\ on'[b] = on[b]
        /\ \A e \in Completions \ {on[a]} : holder'[e] = holder[e]
    BY <1>2, <2>1 DEF CompleteWakes
  <2>3. \A e \in Completions \ {on[a]} : holder[e] # None =>
           holder[e] \in Actors \ {a}
    BY <2>1 DEF Locks
  <2>4. \A b \in Actors \ {a} : pc[b] = "k_send" =>
           on[b] \in Completions \ {on[a]}
    BY <2>1 DEF Locks
  <2>5. ASSUME NEW e \in Completions, holder'[e] # None
        PROVE  pc'[holder'[e]] = "k_send" /\ on'[holder'[e]] = e
    <3>1. CASE e = on[a]
      BY <2>2, <2>5, <3>1
    <3>2. CASE e # on[a]
      <4>1. PICK b \in Actors \ {a} : holder[e] = b /\ holder'[e] = b
        BY <2>2, <2>3, <2>5, <3>2
      <4>2. pc[b] = "k_send" /\ on[b] = e
        BY <2>5, <4>1 DEF Locks
      <4> QED BY <2>2, <4>1, <4>2
    <3> QED BY <3>1, <3>2
  <2>6. ASSUME NEW b \in Actors, pc'[b] = "k_send"
        PROVE  on'[b] # None /\ holder'[on'[b]] = b
    <3>1. CASE b = a
      BY <2>2, <2>6, <3>1, TaskAssumption
    <3>2. CASE b # a
      <4>1. pc[b] = "k_send" /\ on'[b] = on[b]
        BY <2>2, <2>6, <3>2
      <4>2. PICK e \in Completions : e = on[b] /\ e # on[a]
        BY <2>4, <3>2, <4>1
      <4>3. holder[e] = b
        BY <4>1, <4>2 DEF Locks
      <4> QED BY <2>2, <4>1, <4>2, <4>3, TaskAssumption
    <3> QED BY <3>1, <3>2
  <2> QED BY <2>5, <2>6 DEF Locks
<1>3. CASE a \in Irqs /\ \E t \in Tasks : SendSignal(a, t)
  <2>1. /\ holder' = holder /\ pc[a] # "k_send" /\ pc'[a] # "k_send"
        /\ \A b \in Actors \ {a} : pc'[b] = pc[b] /\ on'[b] = on[b]
    BY <1>3 DEF SendSignal
  <2> QED BY <2>1, LocksMove
<1>4. CASE a \in Irqs /\ SignalWakes(a)
  <2>1. /\ holder' = holder /\ pc[a] # "k_send" /\ pc'[a] # "k_send"
        /\ \A b \in Actors \ {a} : pc'[b] = pc[b] /\ on'[b] = on[b]
    BY <1>4 DEF SignalWakes
  <2> QED BY <2>1, LocksMove
<1> QED
  BY <1>1, <1>2, <1>3, <1>4 DEF WakeOp
-----------------------------------------------------------------------------
(* The wait queues                                                         *)

LEMMA QueuesKept ==
    ASSUME Queues, queue' = queue,
           \A t \in Tasks, c \in Completions : Waits(t, c)' <=> Waits(t, c)
    PROVE  Queues'
BY DEF Queues

(* A task leaves its wait.                                                 *)
LEMMA QueuesLeave ==
    ASSUME TaskTypeOK, TaskControl, Queues, NEW t \in Tasks,
           pc[t] \in {"w_lock", "w_late"}, Leave(t)
    PROVE  Queues'
<1>0. PICK c \in Completions : c = on[t]
  BY LeaveFacts
<1>q. PICK q : q = Dequeue(queue[c], t)
  OBVIOUS
<1>1. c \in Completions /\ queue[c] \in Seq(Tasks) /\ Waits(t, c)
  BY <1>0, LeaveFacts
<1>s. PICK s \in Seq(Tasks) : s = queue[c]
  BY <1>1
<1>2. /\ q \in Seq(Tasks) /\ Len(q) = Len(s) - 1
      /\ \A u : (\E i \in DOMAIN q : q[i] = u)
                   <=> u # t /\ \E i \in DOMAIN s : s[i] = u
      /\ \A i, j \in DOMAIN q : q[i] = q[j] => i = j
  <2>1. \E i \in DOMAIN s : s[i] = t
    BY <1>0, <1>s, LeaveFacts
  <2>2. \A i, j \in DOMAIN s : s[i] = s[j] => i = j
    BY <1>1, <1>s DEF Queues
  <2>3. q = Dequeue(s, t)
    BY <1>q, <1>s
  <2>4. /\ Dequeue(s, t) \in Seq(Tasks) /\ Len(Dequeue(s, t)) = Len(s) - 1
        /\ \A u : (\E i \in DOMAIN Dequeue(s, t) : Dequeue(s, t)[i] = u)
                     <=> u # t /\ \E i \in DOMAIN s : s[i] = u
        /\ \A i, j \in DOMAIN Dequeue(s, t) :
              Dequeue(s, t)[i] = Dequeue(s, t)[j] => i = j
    BY <2>1, <2>2, DequeueFacts, Zenon
  <2> QED BY <2>3, <2>4, Zenon
<1>3. /\ queue'[c] = q /\ \A e \in Completions \ {c} : queue'[e] = queue[e]
      /\ pc'[t] = "run" /\ on'[t] = None
      /\ \A u \in Tasks \ {t} : pc'[u] = pc[u] /\ on'[u] = on[u]
  BY <1>0, <1>1, <1>q DEF Leave, Goto, TaskTypeOK
<1>4. \A u \in Tasks \ {t}, e \in Completions : Waits(u, e)' <=> Waits(u, e)
  BY <1>3 DEF Waits
<1>5. \A e \in Completions : ~ Waits(t, e)' /\ (Waits(t, e) => e = c)
  BY <1>0, <1>3, TaskAssumption DEF Waits
<1>6. ASSUME NEW e \in Completions, e # c
      PROVE  /\ \A u \in Tasks : Waits(u, e)' <=>
                   \E i \in DOMAIN queue'[e] : queue'[e][i] = u
             /\ \A i, j \in DOMAIN queue'[e] : queue'[e][i] = queue'[e][j] => i = j
             /\ e \in Single => Len(queue'[e]) <= 1
  <2>1. queue'[e] = queue[e] /\ \A u \in Tasks : Waits(u, e)' <=> Waits(u, e)
    BY <1>3, <1>4, <1>5, <1>6
  <2> QED BY <2>1 DEF Queues
<1>7. /\ \A u \in Tasks : Waits(u, c)' <=>
            \E i \in DOMAIN queue'[c] : queue'[c][i] = u
      /\ \A i, j \in DOMAIN queue'[c] : queue'[c][i] = queue'[c][j] => i = j
      /\ c \in Single => Len(queue'[c]) <= 1
  <2>1. \A u \in Tasks : Waits(u, c)' <=> u # t /\ Waits(u, c)
    BY <1>1, <1>4, <1>5
  <2>2. \A u \in Tasks : Waits(u, c) <=> \E i \in DOMAIN s : s[i] = u
    BY <1>1, <1>s DEF Queues
  <2>3. c \in Single => Len(queue'[c]) <= 1
    BY <1>1, <1>2, <1>3, <1>s DEF Queues
  <2>4. \A u \in Tasks : Waits(u, c)' <=> \E i \in DOMAIN q : q[i] = u
    BY <1>2, <2>1, <2>2
  <2> QED BY <1>2, <1>3, <2>3, <2>4
<1> QED BY <1>6, <1>7 DEF Queues

LEMMA QueuesSleep ==
    ASSUME TaskTypeOK, TaskControl, Queues, NEW t \in Tasks, SleepOp(t)
    PROVE  Queues'
<1> USE DEF Goto, SleepPoint, SleepPoints, taskVars, clockVars, queueVars,
            callVars
<1>1. CASE ArmTimer(t)
  BY <1>1, QueuesKept DEF ArmTimer, TaskTypeOK, Waits
<1>2. CASE Schedule(t)
  BY <1>2, QueuesKept DEF Schedule, TaskTypeOK, Waits
<1>3. CASE WaitEvent(t)
  BY <1>3, QueuesKept DEF WaitEvent, TaskTypeOK, Waits
<1>4. CASE Woken(t)
  BY <1>4, QueuesKept DEF Woken, TaskTypeOK, Waits
<1>5. CASE SpuriousWakeup(t)
  BY <1>5, QueuesKept DEF SpuriousWakeup, TaskTypeOK, Waits
<1>6. CASE ScheduleReturns(t)
  BY <1>6, QueuesKept, TaskAssumption DEF ScheduleReturns, TaskTypeOK, Waits,
     TaskControl, TaskAt, Kinds, WaitKinds, TimedKinds
<1>7. CASE TimeoutReturns(t)
  BY <1>7, QueuesKept, TaskAssumption DEF TimeoutReturns, TaskTypeOK, Waits,
     TaskControl, TaskAt, Kinds, WaitKinds, TimedKinds
<1>8. CASE TimerFires(t)
  BY <1>8, QueuesKept DEF TimerFires, TaskTypeOK, Waits
<1>9. CASE Expire(t)
  BY <1>9, QueuesKept DEF Expire, TaskTypeOK, Waits
<1>10. CASE WakeUpProcess(t)
  BY <1>10, QueuesKept DEF WakeUpProcess, TaskTypeOK, Waits
<1>11. CASE FlushSignals(t)
  BY <1>11, QueuesKept DEF FlushSignals, TaskTypeOK, Waits
<1>12. CASE \E k \in Kinds \ WaitKinds : StartSleep(t, k)
  BY <1>12, QueuesKept, TaskAssumption DEF StartSleep, TaskTypeOK, Waits,
     TaskControl, TaskAt, Kinds, WaitKinds, TimedKinds
<1> QED
  BY <1>1, <1>2, <1>3, <1>4, <1>5, <1>6, <1>7, <1>8, <1>9, <1>10, <1>11,
     <1>12 DEF SleepOp

LEMMA QueuesWait ==
    ASSUME TaskTypeOK, TaskControl, Queues, NEW t \in Tasks, WaitOp(t)
    PROVE  Queues'
<1> USE DEF Goto, SleepPoint, SleepPoints, taskVars, clockVars, queueVars,
            callVars
<1>1. CASE \E c \in Completions : WaitTakes(t, c)
  BY <1>1, QueuesKept DEF WaitTakes, Take, TaskTypeOK, Waits
<1>2. CASE \E c \in Completions, k \in WaitKinds : WaitQueues(t, c, k)
  <2>1. PICK c \in Completions, k \in WaitKinds : WaitQueues(t, c, k)
    BY <1>2
  <2>2. /\ queue'[c] = Append(queue[c], t)
        /\ \A e \in Completions \ {c} : queue'[e] = queue[e]
        /\ pc'[t] \in SleepPoints /\ on'[t] = c
        /\ pc[t] = "run" /\ on[t] = None
        /\ \A u \in Tasks \ {t} : pc'[u] = pc[u] /\ on'[u] = on[u]
    BY <2>1 DEF WaitQueues, TaskTypeOK, TaskControl, TaskAt
  <2>3. \A u \in Tasks \ {t}, e \in Completions : Waits(u, e)' <=> Waits(u, e)
    BY <2>2 DEF Waits
  <2>4. \A e \in Completions : ~ Waits(t, e) /\ (Waits(t, e)' <=> e = c)
    BY <2>2, TaskAssumption DEF Waits
  <2>5. ASSUME NEW e \in Completions, e # c
        PROVE  /\ \A u \in Tasks : Waits(u, e)' <=>
                     \E i \in DOMAIN queue'[e] : queue'[e][i] = u
               /\ \A i, j \in DOMAIN queue'[e] :
                     queue'[e][i] = queue'[e][j] => i = j
               /\ e \in Single => Len(queue'[e]) <= 1
    <3>1. queue'[e] = queue[e] /\ \A u \in Tasks : Waits(u, e)' <=> Waits(u, e)
      BY <2>2, <2>3, <2>4, <2>5
    <3> QED BY <3>1 DEF Queues
  <2>6. /\ \A u \in Tasks : Waits(u, c)' <=>
              \E i \in DOMAIN queue'[c] : queue'[c][i] = u
        /\ \A i, j \in DOMAIN queue'[c] : queue'[c][i] = queue'[c][j] => i = j
        /\ c \in Single => Len(queue'[c]) <= 1
    <3> DEFINE s == queue[c]
               n == Len(queue[c])
    <3>1. s \in Seq(Tasks) /\ n \in Nat /\ DOMAIN s = 1..n
      BY DEF TaskTypeOK
    <3>2. /\ DOMAIN queue'[c] = 1..(n + 1) /\ Len(queue'[c]) = n + 1
          /\ queue'[c][n + 1] = t /\ \A i \in 1..n : queue'[c][i] = s[i]
      BY <2>2, <3>1
    <3>3. \A i \in 1..n : s[i] # t
      BY <2>4, <3>1 DEF Queues
    <3>4. \A u \in Tasks : Waits(u, c)' <=> u = t \/ Waits(u, c)
      BY <2>3, <2>4
    <3>5. \A u \in Tasks : Waits(u, c) <=> \E i \in 1..n : s[i] = u
      BY <3>1 DEF Queues
    <3>6. c \in Single => n = 0
      BY <2>1, <3>1 DEF WaitQueues, MayWait
    <3>7. \A i, j \in 1..n : s[i] = s[j] => i = j
      BY <3>1 DEF Queues
    <3> HIDE DEF s, n
    <3>8. \A i \in 1..(n + 1) : i \in 1..n \/ i = n + 1
      BY <3>1
    <3>9. \A i \in 1..n : i \in 1..(n + 1)
      BY <3>1
    <3>10. n + 1 \in 1..(n + 1)
      BY <3>1
    <3>11. \A u \in Tasks : Waits(u, c)' <=>
              \E i \in DOMAIN queue'[c] : queue'[c][i] = u
      BY <3>2, <3>4, <3>5, <3>8, <3>9, <3>10
    <3>12. \A i, j \in DOMAIN queue'[c] : queue'[c][i] = queue'[c][j] => i = j
      BY <3>2, <3>3, <3>7, <3>8
    <3> QED BY <3>1, <3>2, <3>6, <3>11, <3>12
  <2> QED BY <2>5, <2>6 DEF Queues
<1>3. CASE WaitTimesOut(t)
  BY <1>3, QueuesLeave DEF WaitTimesOut
<1>4. CASE WaitEnds(t)
  BY <1>4, QueuesLeave DEF WaitEnds
<1>5. CASE WaitInterrupted(t)
  BY <1>5, QueuesLeave DEF WaitInterrupted
<1>6. CASE WaitAgain(t)
  BY <1>6, QueuesKept DEF WaitAgain, TaskTypeOK, Waits
<1> QED
  BY <1>1, <1>2, <1>3, <1>4, <1>5, <1>6 DEF WaitOp

LEMMA QueuesWake ==
    ASSUME TaskTypeOK, TaskControl, Queues, NEW a \in Actors, WakeOp(a)
    PROVE  Queues'
<1> USE DEF Goto, SleepPoint, SleepPoints, taskVars, clockVars, queueVars,
            callVars
<1>1. CASE \E c \in Completions : Complete(a, c)
  BY <1>1, QueuesKept DEF Complete, TaskTypeOK, Waits
<1>2. CASE CompleteWakes(a)
  BY <1>2, QueuesKept DEF CompleteWakes, TaskTypeOK, Waits
<1>3. CASE a \in Irqs /\ \E t \in Tasks : SendSignal(a, t)
  BY <1>3, QueuesKept DEF SendSignal, TaskTypeOK, Waits
<1>4. CASE a \in Irqs /\ SignalWakes(a)
  BY <1>4, QueuesKept DEF SignalWakes, TaskTypeOK, Waits
<1> QED
  BY <1>1, <1>2, <1>3, <1>4 DEF WakeOp
-----------------------------------------------------------------------------
(* A complete() is kept until one wait takes it.                           *)

LEMMA ConservedSleep ==
    ASSUME TaskTypeOK, TaskControl, CompletionsConserved, NEW t \in Tasks,
           SleepOp(t)
    PROVE  CompletionsConserved'
<1> USE DEF TaskTypeOK, CompletionsConserved, queueVars
<1>1. CASE ArmTimer(t)
  BY <1>1 DEF ArmTimer
<1>2. CASE Schedule(t)
  BY <1>2 DEF Schedule
<1>3. CASE WaitEvent(t)
  BY <1>3 DEF WaitEvent
<1>4. CASE Woken(t)
  BY <1>4 DEF Woken
<1>5. CASE SpuriousWakeup(t)
  BY <1>5 DEF SpuriousWakeup
<1>6. CASE ScheduleReturns(t)
  BY <1>6 DEF ScheduleReturns
<1>7. CASE TimeoutReturns(t)
  BY <1>7 DEF TimeoutReturns
<1>8. CASE TimerFires(t)
  BY <1>8 DEF TimerFires
<1>9. CASE Expire(t)
  BY <1>9 DEF Expire
<1>10. CASE WakeUpProcess(t)
  BY <1>10 DEF WakeUpProcess
<1>11. CASE FlushSignals(t)
  BY <1>11 DEF FlushSignals
<1>12. CASE \E k \in Kinds \ WaitKinds : StartSleep(t, k)
  BY <1>12 DEF StartSleep
<1> QED
  BY <1>1, <1>2, <1>3, <1>4, <1>5, <1>6, <1>7, <1>8, <1>9, <1>10, <1>11,
     <1>12 DEF SleepOp

LEMMA ConservedWait ==
    ASSUME TaskTypeOK, TaskControl, CompletionsConserved, NEW t \in Tasks,
           WaitOp(t)
    PROVE  CompletionsConserved'
<1> USE DEF TaskTypeOK, CompletionsConserved, queueVars
<1>1. CASE \E c \in Completions : WaitTakes(t, c)
  BY <1>1 DEF WaitTakes, Take
<1>2. CASE \E c \in Completions, k \in WaitKinds : WaitQueues(t, c, k)
  BY <1>2 DEF WaitQueues
<1>3. CASE WaitTimesOut(t)
  BY <1>3 DEF WaitTimesOut, Leave
<1>4. CASE WaitEnds(t)
  <2>1. on[t] \in Completions
    BY <1>4 DEF WaitEnds, TaskControl, TaskAt
  <2> QED BY <1>4, <2>1 DEF WaitEnds, Take
<1>5. CASE WaitInterrupted(t)
  BY <1>5 DEF WaitInterrupted, Leave
<1>6. CASE WaitAgain(t)
  BY <1>6 DEF WaitAgain
<1> QED
  BY <1>1, <1>2, <1>3, <1>4, <1>5, <1>6 DEF WaitOp

LEMMA ConservedWake ==
    ASSUME TaskTypeOK, TaskControl, CompletionsConserved, NEW a \in Actors,
           WakeOp(a)
    PROVE  CompletionsConserved'
<1> USE DEF TaskTypeOK, CompletionsConserved, queueVars
<1>1. CASE \E c \in Completions : Complete(a, c)
  BY <1>1 DEF Complete
<1>2. CASE CompleteWakes(a)
  BY <1>2 DEF CompleteWakes
<1>3. CASE a \in Irqs /\ \E t \in Tasks : SendSignal(a, t)
  BY <1>3 DEF SendSignal
<1>4. CASE a \in Irqs /\ SignalWakes(a)
  BY <1>4 DEF SignalWakes
<1> QED
  BY <1>1, <1>2, <1>3, <1>4 DEF WakeOp
-----------------------------------------------------------------------------
(* No wake up is lost.                                                     *)

LEMMA WakeableKept ==
    ASSUME Wakeable,
           \A c \in Single, u \in Tasks :
               done'[c] > 0 /\ Waits(u, c)' /\ Stuck(u)' =>
                  done[c] > 0 /\ Waits(u, c) /\ Stuck(u)
    PROVE  Wakeable'
BY DEF Wakeable

(* Who is stuck after a step of a was stuck before it.                     *)
LEMMA StuckBefore ==
    ASSUME NEW a \in Actors, NEW u \in Tasks, Stuck(u)',
           \A b \in Actors \ {a} : pc'[b] = pc[b] /\ wakee'[b] = wakee[b],
           pc[u] \in {"s_check", "s_wait", "s_sleep"},
           u \in events \cup timer => u \in events' \cup timer',
           pc[a] = "k_send" /\ wakee[a] = u =>
               u \in events' \/ (pc'[a] = "k_send" /\ wakee'[a] = u)
    PROVE  Stuck(u)
BY DEF Stuck

LEMMA WakeSleep ==
    ASSUME TaskTypeOK, TaskControl, Queues, Wakeable, NEW t \in Tasks,
           SleepOp(t)
    PROVE  Wakeable'
<1> USE DEF TaskTypeOK, Goto, SleepPoint, SleepPoints, taskVars, clockVars,
            queueVars, callVars
<1>1. CASE ArmTimer(t)
  <2> SUFFICES ASSUME NEW c \in Single, NEW u \in Tasks,
                      done'[c] > 0, Waits(u, c)', Stuck(u)'
               PROVE  done[c] > 0 /\ Waits(u, c) /\ Stuck(u)
    BY WakeableKept
  <2>1. u # t
    BY <1>1 DEF ArmTimer, Stuck
  <2>2. done[c] > 0 /\ Waits(u, c) /\ pc[u] \in {"s_check", "s_wait", "s_sleep"}
    BY <1>1, <2>1 DEF ArmTimer, Waits, Stuck
  <2>3. Stuck(u)
    BY <1>1, <2>2, StuckBefore DEF ArmTimer, Stuck
  <2> QED BY <2>2, <2>3
<1>2. CASE Schedule(t)
  <2> SUFFICES ASSUME NEW c \in Single, NEW u \in Tasks,
                      done'[c] > 0, Waits(u, c)', Stuck(u)'
               PROVE  done[c] > 0 /\ Waits(u, c) /\ Stuck(u)
    BY WakeableKept
  <2>1. done[c] > 0 /\ Waits(u, c) /\ pc[u] \in {"s_check", "s_wait", "s_sleep"}
    BY <1>2 DEF Schedule, Waits, Stuck
  <2>2. Stuck(u)
    BY <1>2, <2>1, StuckBefore DEF Schedule, Stuck
  <2> QED BY <2>1, <2>2
<1>3. CASE WaitEvent(t)
  <2> SUFFICES ASSUME NEW c \in Single, NEW u \in Tasks,
                      done'[c] > 0, Waits(u, c)', Stuck(u)'
               PROVE  done[c] > 0 /\ Waits(u, c) /\ Stuck(u)
    BY WakeableKept
  <2>1. done[c] > 0 /\ Waits(u, c) /\ pc[u] \in {"s_check", "s_wait", "s_sleep"}
    BY <1>3 DEF WaitEvent, Waits, Stuck
  <2>2. Stuck(u)
    BY <1>3, <2>1, StuckBefore DEF WaitEvent, Stuck
  <2> QED BY <2>1, <2>2
<1>4. CASE Woken(t)
  <2> SUFFICES ASSUME NEW c \in Single, NEW u \in Tasks,
                      done'[c] > 0, Waits(u, c)', Stuck(u)'
               PROVE  done[c] > 0 /\ Waits(u, c) /\ Stuck(u)
    BY WakeableKept
  <2>1. done[c] > 0 /\ Waits(u, c) /\ pc[u] \in {"s_check", "s_wait", "s_sleep"}
    BY <1>4 DEF Woken, Waits, Stuck
  <2>2. Stuck(u)
    BY <1>4, <2>1, StuckBefore DEF Woken, Stuck
  <2> QED BY <2>1, <2>2
<1>5. CASE SpuriousWakeup(t)
  <2> SUFFICES ASSUME NEW c \in Single, NEW u \in Tasks,
                      done'[c] > 0, Waits(u, c)', Stuck(u)'
               PROVE  done[c] > 0 /\ Waits(u, c) /\ Stuck(u)
    BY WakeableKept
  <2>1. done[c] > 0 /\ Waits(u, c) /\ pc[u] \in {"s_check", "s_wait", "s_sleep"}
    BY <1>5 DEF SpuriousWakeup, Waits, Stuck
  <2>2. Stuck(u)
    BY <1>5, <2>1, StuckBefore DEF SpuriousWakeup, Stuck
  <2> QED BY <2>1, <2>2
<1>6. CASE ScheduleReturns(t)
  <2> SUFFICES ASSUME NEW c \in Single, NEW u \in Tasks,
                      done'[c] > 0, Waits(u, c)', Stuck(u)'
               PROVE  done[c] > 0 /\ Waits(u, c) /\ Stuck(u)
    BY WakeableKept
  <2>1. done[c] > 0 /\ Waits(u, c) /\ pc[u] \in {"s_check", "s_wait", "s_sleep"}
    BY <1>6 DEF ScheduleReturns, Waits, Stuck
  <2>2. Stuck(u)
    BY <1>6, <2>1, StuckBefore DEF ScheduleReturns, Stuck
  <2> QED BY <2>1, <2>2
<1>7. CASE TimeoutReturns(t)
  <2> SUFFICES ASSUME NEW c \in Single, NEW u \in Tasks,
                      done'[c] > 0, Waits(u, c)', Stuck(u)'
               PROVE  done[c] > 0 /\ Waits(u, c) /\ Stuck(u)
    BY WakeableKept
  <2>1. done[c] > 0 /\ Waits(u, c) /\ pc[u] \in {"s_check", "s_wait", "s_sleep"}
    BY <1>7 DEF TimeoutReturns, Waits, Stuck
  <2>2. Stuck(u)
    BY <1>7, <2>1, StuckBefore DEF TimeoutReturns, Stuck
  <2> QED BY <2>1, <2>2
<1>8. CASE TimerFires(t)
  <2> SUFFICES ASSUME NEW c \in Single, NEW u \in Tasks,
                      done'[c] > 0, Waits(u, c)', Stuck(u)'
               PROVE  done[c] > 0 /\ Waits(u, c) /\ Stuck(u)
    BY WakeableKept
  <2>1. done[c] > 0 /\ Waits(u, c) /\ pc[u] \in {"s_check", "s_wait", "s_sleep"}
    BY <1>8 DEF TimerFires, Waits, Stuck
  <2>2. Stuck(u)
    BY <1>8, <2>1, StuckBefore DEF TimerFires, Stuck
  <2> QED BY <2>1, <2>2
<1>9. CASE Expire(t)
  <2> SUFFICES ASSUME NEW c \in Single, NEW u \in Tasks,
                      done'[c] > 0, Waits(u, c)', Stuck(u)'
               PROVE  done[c] > 0 /\ Waits(u, c) /\ Stuck(u)
    BY WakeableKept
  <2>1. done[c] > 0 /\ Waits(u, c) /\ pc[u] \in {"s_check", "s_wait", "s_sleep"}
    BY <1>9 DEF Expire, Waits, Stuck
  <2>2. Stuck(u)
    BY <1>9, <2>1, StuckBefore DEF Expire, Stuck
  <2> QED BY <2>1, <2>2
<1>10. CASE WakeUpProcess(t)
  <2> SUFFICES ASSUME NEW c \in Single, NEW u \in Tasks,
                      done'[c] > 0, Waits(u, c)', Stuck(u)'
               PROVE  done[c] > 0 /\ Waits(u, c) /\ Stuck(u)
    BY WakeableKept
  <2>1. done[c] > 0 /\ Waits(u, c) /\ pc[u] \in {"s_check", "s_wait", "s_sleep"}
    BY <1>10 DEF WakeUpProcess, Waits, Stuck
  <2>2. Stuck(u)
    BY <1>10, <2>1, StuckBefore DEF WakeUpProcess, Stuck
  <2> QED BY <2>1, <2>2
<1>11. CASE FlushSignals(t)
  <2> SUFFICES ASSUME NEW c \in Single, NEW u \in Tasks,
                      done'[c] > 0, Waits(u, c)', Stuck(u)'
               PROVE  done[c] > 0 /\ Waits(u, c) /\ Stuck(u)
    BY WakeableKept
  <2>1. done[c] > 0 /\ Waits(u, c) /\ pc[u] \in {"s_check", "s_wait", "s_sleep"}
    BY <1>11 DEF FlushSignals, Waits, Stuck
  <2>2. Stuck(u)
    BY <1>11, <2>1, StuckBefore DEF FlushSignals, Stuck
  <2> QED BY <2>1, <2>2
<1>12. CASE \E k \in Kinds \ WaitKinds : StartSleep(t, k)
  <2> SUFFICES ASSUME NEW c \in Single, NEW u \in Tasks,
                      done'[c] > 0, Waits(u, c)', Stuck(u)'
               PROVE  done[c] > 0 /\ Waits(u, c) /\ Stuck(u)
    BY WakeableKept
  <2>1. u # t
    BY <1>12, TaskAssumption DEF StartSleep, Waits, TaskControl, TaskAt
  <2>2. done[c] > 0 /\ Waits(u, c) /\ pc[u] \in {"s_check", "s_wait", "s_sleep"}
    BY <1>12, <2>1 DEF StartSleep, Waits, Stuck
  <2>3. Stuck(u)
    BY <1>12, <2>2, StuckBefore DEF StartSleep, Stuck
  <2> QED BY <2>2, <2>3
<1> QED
  BY <1>1, <1>2, <1>3, <1>4, <1>5, <1>6, <1>7, <1>8, <1>9, <1>10, <1>11,
     <1>12 DEF SleepOp

LEMMA WakeWait ==
    ASSUME TaskTypeOK, TaskControl, Queues, Wakeable, NEW t \in Tasks,
           WaitOp(t)
    PROVE  Wakeable'
<1> USE DEF TaskTypeOK, Goto, SleepPoint, SleepPoints, taskVars, clockVars,
            queueVars, callVars
<1>1. CASE \E c \in Completions : WaitTakes(t, c)
  <2> SUFFICES ASSUME NEW c \in Single, NEW u \in Tasks,
                      done'[c] > 0, Waits(u, c)', Stuck(u)'
               PROVE  done[c] > 0 /\ Waits(u, c) /\ Stuck(u)
    BY WakeableKept
  <2>1. done[c] > 0 /\ Waits(u, c) /\ pc[u] \in {"s_check", "s_wait", "s_sleep"}
    BY <1>1, TaskAssumption DEF WaitTakes, Take, Waits, Stuck
  <2>2. Stuck(u)
    BY <1>1, <2>1, StuckBefore DEF WaitTakes, Take, Stuck
  <2> QED BY <2>1, <2>2
<1>2. CASE \E c \in Completions, k \in WaitKinds : WaitQueues(t, c, k)
  <2> SUFFICES ASSUME NEW c \in Single, NEW u \in Tasks,
                      done'[c] > 0, Waits(u, c)', Stuck(u)'
               PROVE  done[c] > 0 /\ Waits(u, c) /\ Stuck(u)
    BY WakeableKept
  <2>0. PICK e \in Completions, k \in WaitKinds : WaitQueues(t, e, k)
    BY <1>2
  <2>1. u # t
    BY <2>0 DEF WaitQueues, Waits
  <2>2. done[c] > 0 /\ Waits(u, c) /\ pc[u] \in {"s_check", "s_wait", "s_sleep"}
    BY <2>0, <2>1 DEF WaitQueues, Waits, Stuck
  <2>3. Stuck(u)
    BY <2>0, <2>2, StuckBefore DEF WaitQueues, Stuck
  <2> QED BY <2>2, <2>3
<1>3. CASE WaitTimesOut(t)
  <2> SUFFICES ASSUME NEW c \in Single, NEW u \in Tasks,
                      done'[c] > 0, Waits(u, c)', Stuck(u)'
               PROVE  done[c] > 0 /\ Waits(u, c) /\ Stuck(u)
    BY WakeableKept
  <2>1. u # t
    BY <1>3 DEF WaitTimesOut, Leave, Stuck
  <2>2. done[c] > 0 /\ Waits(u, c) /\ pc[u] \in {"s_check", "s_wait", "s_sleep"}
    BY <1>3, <2>1 DEF WaitTimesOut, Leave, Waits, Stuck
  <2>3. Stuck(u)
    BY <1>3, <2>2, StuckBefore DEF WaitTimesOut, Leave, Stuck
  <2> QED BY <2>2, <2>3
<1>4. CASE WaitEnds(t)
  <2> SUFFICES ASSUME NEW c \in Single, NEW u \in Tasks,
                      done'[c] > 0, Waits(u, c)', Stuck(u)'
               PROVE  done[c] > 0 /\ Waits(u, c) /\ Stuck(u)
    BY WakeableKept
  <2>1. u # t
    BY <1>4 DEF WaitEnds, Leave, Stuck
  <2>2. on[t] \in Completions /\ c \in Completions
    BY <1>4, LeaveFacts, TaskAssumption DEF WaitEnds
  <2>3. done[c] > 0
    BY <1>4, <2>2 DEF WaitEnds, Take
  <2>4. Waits(u, c) /\ pc[u] \in {"s_check", "s_wait", "s_sleep"}
    BY <1>4, <2>1 DEF WaitEnds, Leave, Waits, Stuck
  <2>5. Stuck(u)
    BY <1>4, <2>4, StuckBefore DEF WaitEnds, Leave, Stuck
  <2> QED BY <2>3, <2>4, <2>5
<1>5. CASE WaitInterrupted(t)
  <2> SUFFICES ASSUME NEW c \in Single, NEW u \in Tasks,
                      done'[c] > 0, Waits(u, c)', Stuck(u)'
               PROVE  done[c] > 0 /\ Waits(u, c) /\ Stuck(u)
    BY WakeableKept
  <2>1. u # t
    BY <1>5 DEF WaitInterrupted, Leave, Stuck
  <2>2. done[c] > 0 /\ Waits(u, c) /\ pc[u] \in {"s_check", "s_wait", "s_sleep"}
    BY <1>5, <2>1 DEF WaitInterrupted, Leave, Waits, Stuck
  <2>3. Stuck(u)
    BY <1>5, <2>2, StuckBefore DEF WaitInterrupted, Leave, Stuck
  <2> QED BY <2>2, <2>3
<1>6. CASE WaitAgain(t)
  <2> SUFFICES ASSUME NEW c \in Single, NEW u \in Tasks,
                      done'[c] > 0, Waits(u, c)', Stuck(u)'
               PROVE  done[c] > 0 /\ Waits(u, c) /\ Stuck(u)
    BY WakeableKept
  <2>1. u # t
    BY <1>6 DEF WaitAgain, Waits, Done
  <2>2. done[c] > 0 /\ Waits(u, c) /\ pc[u] \in {"s_check", "s_wait", "s_sleep"}
    BY <1>6, <2>1 DEF WaitAgain, Waits, Stuck
  <2>3. Stuck(u)
    BY <1>6, <2>2, StuckBefore DEF WaitAgain, Stuck
  <2> QED BY <2>2, <2>3
<1> QED
  BY <1>1, <1>2, <1>3, <1>4, <1>5, <1>6 DEF WaitOp

LEMMA WakeWake ==
    ASSUME TaskTypeOK, TaskControl, Queues, Wakeable, NEW a \in Actors,
           WakeOp(a)
    PROVE  Wakeable'
<1> USE DEF TaskTypeOK, Goto, SleepPoint, SleepPoints, taskVars, clockVars,
            queueVars, callVars
<1>1. CASE \E c \in Completions : Complete(a, c)
  <2> SUFFICES ASSUME NEW c \in Single, NEW u \in Tasks,
                      done'[c] > 0, Waits(u, c)', Stuck(u)'
               PROVE  done[c] > 0 /\ Waits(u, c) /\ Stuck(u)
    BY WakeableKept
  <2>0. PICK e \in Completions : Complete(a, e)
    BY <1>1
  <2>1. u # a /\ Waits(u, c) /\ pc[u] \in {"s_check", "s_wait", "s_sleep"}
    BY <2>0 DEF Complete, Waits, Stuck
  <2>2. Stuck(u)
    BY <2>0, <2>1, StuckBefore DEF Complete, Stuck
  <2>3. c # e
    <3> SUFFICES ASSUME c = e PROVE FALSE
      OBVIOUS
    <3>1. PICK i \in DOMAIN queue[c] : queue[c][i] = u
      BY <2>0, <2>1 DEF Queues
    <3>2. Len(queue[c]) <= 1 /\ queue[c] \in Seq(Tasks)
      BY <2>0 DEF Queues
    <3>3. i = 1 /\ queue[c] # <<>> /\ Head(queue[c]) = u
      BY <3>1, <3>2
    <3>4. state[u] \in Sleeping
      BY <2>1 DEF TaskControl, TaskAt
    <3>5. wakee'[a] = u /\ pc'[a] = "k_send"
      BY <2>0, <3>3, <3>4 DEF Complete, Wakee
    <3> QED BY <3>5 DEF Stuck
  <2>4. done[c] > 0
    BY <2>0, <2>3, TaskAssumption DEF Complete
  <2> QED BY <2>1, <2>2, <2>4
<1>2. CASE CompleteWakes(a)
  <2> SUFFICES ASSUME NEW c \in Single, NEW u \in Tasks,
                      done'[c] > 0, Waits(u, c)', Stuck(u)'
               PROVE  done[c] > 0 /\ Waits(u, c) /\ Stuck(u)
    BY WakeableKept
  <2>1. done[c] > 0 /\ Waits(u, c) /\ pc[u] \in {"s_check", "s_wait", "s_sleep"}
    BY <1>2 DEF CompleteWakes, Waits, Stuck
  <2>2. Stuck(u)
    BY <1>2, <2>1, StuckBefore DEF CompleteWakes, Stuck
  <2> QED BY <2>1, <2>2
<1>3. CASE a \in Irqs /\ \E t \in Tasks : SendSignal(a, t)
  <2> SUFFICES ASSUME NEW c \in Single, NEW u \in Tasks,
                      done'[c] > 0, Waits(u, c)', Stuck(u)'
               PROVE  done[c] > 0 /\ Waits(u, c) /\ Stuck(u)
    BY WakeableKept
  <2>1. done[c] > 0 /\ Waits(u, c) /\ pc[u] \in {"s_check", "s_wait", "s_sleep"}
    BY <1>3 DEF SendSignal, Waits, Stuck
  <2>2. Stuck(u)
    BY <1>3, <2>1, StuckBefore DEF SendSignal, Stuck
  <2> QED BY <2>1, <2>2
<1>4. CASE a \in Irqs /\ SignalWakes(a)
  <2> SUFFICES ASSUME NEW c \in Single, NEW u \in Tasks,
                      done'[c] > 0, Waits(u, c)', Stuck(u)'
               PROVE  done[c] > 0 /\ Waits(u, c) /\ Stuck(u)
    BY WakeableKept
  <2>1. done[c] > 0 /\ Waits(u, c) /\ pc[u] \in {"s_check", "s_wait", "s_sleep"}
    BY <1>4 DEF SignalWakes, Waits, Stuck
  <2>2. Stuck(u)
    BY <1>4, <2>1, StuckBefore DEF SignalWakes, Stuck
  <2> QED BY <2>1, <2>2
<1> QED
  BY <1>1, <1>2, <1>3, <1>4 DEF WakeOp
-----------------------------------------------------------------------------
(* Every operation keeps all of it.                                        *)

LEMMA TaskInvSleep ==
    ASSUME TaskInv, NEW t \in Tasks, SleepOp(t)
    PROVE  TaskInv'
BY TypeSleep, ControlSleep, LocksSleep, QueuesSleep, ConservedSleep, WakeSleep
   DEF TaskInv

LEMMA TaskInvWait ==
    ASSUME TaskInv, NEW t \in Tasks, WaitOp(t)
    PROVE  TaskInv'
BY TypeWait, ControlWait, LocksWait, QueuesWait, ConservedWait, WakeWait
   DEF TaskInv

LEMMA TaskInvWake ==
    ASSUME TaskInv, NEW a \in Actors, WakeOp(a)
    PROVE  TaskInv'
BY TypeWake, ControlWake, LocksWake, QueuesWake, ConservedWake, WakeWake
   DEF TaskInv

(* A step that touches nothing of this.                                    *)
LEMMA TaskInvSame ==
    ASSUME TaskInv, UNCHANGED sleepVars
    PROVE  TaskInv'
<1> USE DEF sleepVars, taskVars, clockVars, queueVars, callVars
<1>1. TaskTypeOK' /\ TaskControl' /\ Locks' /\ CompletionsConserved'
  BY DEF TaskInv, TaskTypeOK, TaskControl, TaskAt, IrqAt, Locks,
     CompletionsConserved
<1>2. \A t \in Tasks : (Stuck(t)' <=> Stuck(t))
                       /\ \A c \in Completions : Waits(t, c)' <=> Waits(t, c)
  BY DEF Stuck, Waits
<1>3. Queues' /\ Wakeable'
  BY <1>2, QueuesKept, WakeableKept, TaskAssumption DEF TaskInv
<1> QED BY <1>1, <1>3 DEF TaskInv

(* A task that runs may be given any state, and its event and its signals  *)
(* may be dropped.                                                         *)
LEMMA TaskInvRuns ==
    ASSUME TaskInv, NEW t \in Tasks, pc[t] = "run",
           state' \in [Tasks -> States],
           \A u \in Tasks \ {t} : state'[u] = state[u],
           events' \in {events, events \ {t}},
           signals' \in {signals, signals \ {t}},
           UNCHANGED <<suspended, clockVars, queueVars, callVars, pc>>
    PROVE  TaskInv'
<1> USE DEF clockVars, queueVars, callVars
<1>1. TaskTypeOK' /\ Locks' /\ CompletionsConserved'
  BY DEF TaskInv, TaskTypeOK, Locks, CompletionsConserved
<1>2. TaskControl'
  BY DEF TaskInv, TaskTypeOK, TaskControl, TaskAt, IrqAt, SleepPoints
<1>3. \A u \in Tasks : (Stuck(u)' => Stuck(u))
                       /\ \A c \in Completions : Waits(u, c)' <=> Waits(u, c)
  BY DEF Stuck, Waits
<1>4. Queues' /\ Wakeable'
  BY <1>3, QueuesKept, WakeableKept, TaskAssumption DEF TaskInv
<1> QED BY <1>1, <1>2, <1>4 DEF TaskInv

(* init_completion of a completion that nobody uses.                       *)
LEMMA TaskInvReset ==
    ASSUME TaskInv, NEW c \in Completions, holder[c] = None, queue[c] = <<>>,
           done' = [done EXCEPT ![c] = 0],
           completed' = [completed EXCEPT ![c] = 0],
           taken' = [taken EXCEPT ![c] = 0],
           queue' = [queue EXCEPT ![c] = <<>>],
           holder' = [holder EXCEPT ![c] = None],
           UNCHANGED <<taskVars, clockVars, callVars, pc>>
    PROVE  TaskInv'
<1> USE DEF taskVars, clockVars, callVars
<1>1. queue' = queue /\ holder' = holder
  BY DEF TaskInv, TaskTypeOK
<1>2. TaskTypeOK' /\ TaskControl' /\ Locks' /\ CompletionsConserved'
  BY <1>1 DEF TaskInv, TaskTypeOK, TaskControl, TaskAt, IrqAt, Locks,
     CompletionsConserved
<1>3. \A t \in Tasks : (Stuck(t)' <=> Stuck(t))
                       /\ \A e \in Completions : Waits(t, e)' <=> Waits(t, e)
  BY DEF Stuck, Waits
<1>4. \A e \in Completions : done'[e] > 0 => done[e] > 0
  BY DEF TaskInv, TaskTypeOK
<1>5. Queues' /\ Wakeable'
  BY <1>1, <1>3, <1>4, QueuesKept, WakeableKept, TaskAssumption DEF TaskInv
<1> QED BY <1>2, <1>5 DEF TaskInv

LEMMA TaskInvInit ==
    ASSUME SleepInit
    PROVE  TaskInv
<1> USE DEF SleepInit
<1>1. TaskTypeOK /\ TaskControl
  BY DEF TaskTypeOK, TaskControl, TaskAt, IrqAt, TaskPoints, IrqPoints,
     SleepPoints, States, Kinds
<1>2. Locks /\ CompletionsConserved
  BY DEF Locks, CompletionsConserved
<1>3. Queues /\ Wakeable
  <2>1. \A c \in Completions : queue[c] = <<>> /\ DOMAIN queue[c] = {}
    OBVIOUS
  <2>2. \A t \in Tasks, c \in Completions : ~ Waits(t, c)
    BY DEF Waits, SleepPoints
  <2> QED BY <2>1, <2>2, TaskAssumption DEF Queues, Wakeable
<1> QED BY <1>1, <1>2, <1>3 DEF TaskInv

(* TaskInv is what the property of Task is about: a completion that is     *)
(* done and has waiters has one that will look.                            *)
LEMMA TaskInvNoLostWakeup ==
    ASSUME TaskInv
    PROVE  NoLostWakeup
BY DEF TaskInv, Wakeable, NoLostWakeup, LostWakeup
=============================================================================
