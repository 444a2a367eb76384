-------------------------------- MODULE Task --------------------------------
(***************************************************************************)
(* Worlds that sleep and are woken under vmklinux: the task descriptors of *)
(* linux_task.c, the completions and their wait queues of                  *)
(* linux_waitqueue.c, and the signals of linux_signal.c.                   *)
(*                                                                         *)
(* A world sleeps in LinuxTask_WaitEvent until its LTE_RESUME bit is set,  *)
(* and takes the bit when it wakes.  The bit stays when it is sent to a    *)
(* world that does not wait: the next sleep then ends at once, so every    *)
(* caller must look again at what it waits for.  Whether a wake up is sent *)
(* at all depends on task->state, which only the task itself writes.       *)
(*                                                                         *)
(* Grain: a section under the completion's wait.lock or under taskLock is  *)
(* one action, but complete() reads task->state before it takes taskLock,  *)
(* so it has two, the first of which leaves it holding wait.lock.          *)
(* pc[a] is the point actor a has reached:                                 *)
(*   run      outside of everything modelled here                          *)
(*   s_arm    in __schedule_timeout, about to set the timer                *)
(*   s_check  at the start of schedule()                                   *)
(*   s_wait   in LinuxTask_WaitEvent, about to look at the event bit       *)
(*   s_sleep  in vmk_WorldWaitIRQ                                          *)
(*   s_ret    back from LinuxTask_WaitEvent or from schedule()             *)
(*   w_lock   back from schedule() with time left, about to take wait.lock *)
(*   w_late   the same, the timeout having elapsed                         *)
(*   k_send   in complete(), holding wait.lock, about to call              *)
(*            wake_up_process(wakee[a])                                    *)
(*   g_check  in LinuxSignalSendByTask, the signal being pending           *)
(***************************************************************************)
EXTENDS Integers, Sequences, FiniteSets

CONSTANTS
    Tasks,          \* worlds with a task descriptor
    Irqs,           \* contexts that complete, wake and signal, never sleep
    Completions,    \* struct completion objects
    Single,         \* the completions one world at a time waits for
    None            \* no task, no completion

Actors == Tasks \cup Irqs

ASSUME TaskAssumption ==
    /\ Tasks \cap Irqs = {}
    /\ Single \subseteq Completions
    /\ None \notin Actors \cup Completions

(* The calls that sleep: wait_for_completion, wait_for_completion_timeout, *)
(* wait_for_completion_interruptible_timeout, msleep, and schedule() after *)
(* __set_current_state(TASK_INTERRUPTIBLE).                                *)
Kinds == {"wait", "wait_timeout", "wait_intr_timeout", "msleep", "schedule"}

WaitKinds == {"wait", "wait_timeout", "wait_intr_timeout"}
TimedKinds == {"wait_timeout", "wait_intr_timeout", "msleep"}

VARIABLES
    events,     \* tasks whose LTE_RESUME bit is set
    state,      \* task->state
    suspended,  \* tasks with LT_TASK_SUSPENDED
    signals,    \* tasks with a pending signal that is not blocked
    timer,      \* tasks whose wait_timer is pending
    expired,    \* tasks for which jiffies has reached the timeout
    done,       \* completion->done
    queue,      \* completion->wait.task_list, all entries exclusive
    holder,     \* who is inside complete() with wait.lock held
    kind,       \* the call a task sleeps in
    on,         \* the completion an actor waits for or completes
    wakee,      \* the task an actor is about to wake or to check
    pc,
    completed,  \* history: complete() calls since init_completion
    taken       \* history: waits that ended by taking a completion

taskVars == <<events, state, suspended, signals>>
clockVars == <<timer, expired>>
queueVars == <<done, queue, holder, completed, taken>>
callVars == <<kind, on, wakee>>
sleepVars == <<taskVars, clockVars, queueVars, callVars, pc>>

States == {"STOPPED", "RUNNING", "INTERRUPTIBLE", "UNINTERRUPTIBLE"}
Sleeping == {"INTERRUPTIBLE", "UNINTERRUPTIBLE"}
SleepPoints == {"s_arm", "s_check", "s_wait", "s_sleep", "s_ret"}
TaskPoints == SleepPoints \cup {"run", "w_lock", "w_late", "k_send"}
IrqPoints == {"run", "k_send", "g_check"}

SleepInit ==
    /\ events = {} /\ suspended = {} /\ signals = {}
    /\ state = [t \in Tasks |-> "RUNNING"]
    /\ timer = {} /\ expired = {}
    /\ done = [c \in Completions |-> 0]
    /\ queue = [c \in Completions |-> <<>>]
    /\ holder = [c \in Completions |-> None]
    /\ completed = [c \in Completions |-> 0]
    /\ taken = [c \in Completions |-> 0]
    /\ kind = [t \in Tasks |-> "schedule"]
    /\ on = [a \in Actors |-> None]
    /\ wakee = [a \in Actors |-> None]
    /\ pc = [a \in Actors |-> "run"]

Goto(a, point) == pc' = [pc EXCEPT ![a] = point]

(* Mutant: wait.lock is not taken.                                         *)
LockIgnored(c) == TRUE

(* wait.lock can be taken.                                                 *)
LockFree(c) == holder[c] = None

(* The state a call of kind k sleeps in.                                   *)
SleepState(k) == IF k \in {"wait_intr_timeout", "schedule"}
                 THEN "INTERRUPTIBLE" ELSE "UNINTERRUPTIBLE"

(* Where a call of kind k goes once it has set its state.                  *)
SleepPoint(k) == IF k \in TimedKinds THEN "s_arm" ELSE "s_check"

-----------------------------------------------------------------------------
(* Sleeping                                                                *)

(* Mutant: a stale event is thrown away before the sleep.                  *)
StartSleepAnew(t, k) ==
    /\ pc[t] = "run"
    /\ kind' = [kind EXCEPT ![t] = k]
    /\ state' = [state EXCEPT ![t] = SleepState(k)]
    /\ events' = events \ {t}
    /\ expired' = expired \ {t}
    /\ Goto(t, SleepPoint(k))
    /\ UNCHANGED <<suspended, signals, timer, queueVars, on, wakee>>

(* A call of kind k that waits on no completion: set the state, sleep.     *)
StartSleep(t, k) ==
    /\ pc[t] = "run"
    /\ kind' = [kind EXCEPT ![t] = k]
    /\ state' = [state EXCEPT ![t] = SleepState(k)]
    /\ expired' = expired \ {t}
    /\ Goto(t, SleepPoint(k))
    /\ UNCHANGED <<events, suspended, signals, timer, queueVars, on, wakee>>

(* __mod_timer in __schedule_timeout                                       *)
ArmTimer(t) ==
    /\ pc[t] = "s_arm"
    /\ timer' = timer \cup {t}
    /\ Goto(t, "s_check")
    /\ UNCHANGED <<taskVars, expired, queueVars, callVars>>

(* schedule(): a signal that may interrupt ends it at once and leaves the  *)
(* state as it is; a task that is TASK_RUNNING only yields.                *)
Schedule(t) ==
    /\ pc[t] = "s_check"
    /\ Goto(t, IF \/ state[t] = "RUNNING"
                  \/ t \in signals /\ state[t] = "INTERRUPTIBLE"
               THEN "s_ret" ELSE "s_wait")
    /\ UNCHANGED <<taskVars, clockVars, queueVars, callVars>>

(* te->events & LTE_RESUME                                                 *)
EventSeen(t) == t \in events

(* LinuxTask_WaitEvent under taskLock: take the event, or go to sleep.     *)
WaitEvent(t) ==
    /\ pc[t] = "s_wait"
    /\ IF EventSeen(t)
       THEN /\ events' = events \ {t}
            /\ suspended' = suspended \ {t}
            /\ state' = [state EXCEPT ![t] = "RUNNING"]
            /\ Goto(t, "s_ret")
       ELSE /\ suspended' = suspended \cup {t}
            /\ Goto(t, "s_sleep")
            /\ UNCHANGED <<events, state>>
    /\ UNCHANGED <<signals, clockVars, queueVars, callVars>>

(* vmk_WorldWaitIRQ returns after a wakeup; the loop looks again.          *)
Woken(t) ==
    /\ pc[t] = "s_sleep"
    /\ t \in events
    /\ Goto(t, "s_wait")
    /\ UNCHANGED <<taskVars, clockVars, queueVars, callVars>>

(* vmk_WorldWaitIRQ may also return without one.                           *)
SpuriousWakeup(t) ==
    /\ pc[t] = "s_sleep"
    /\ t \notin events
    /\ Goto(t, "s_wait")
    /\ UNCHANGED <<taskVars, clockVars, queueVars, callVars>>

(* schedule() has returned to a caller without a timeout.                  *)
ScheduleReturns(t) ==
    /\ pc[t] = "s_ret"
    /\ kind[t] \notin TimedKinds
    /\ Goto(t, IF kind[t] = "wait" THEN "w_lock" ELSE "run")
    /\ UNCHANGED <<taskVars, clockVars, queueVars, callVars>>

(* Mutant: jiffies is not looked at once the timer has fired.              *)
LoopAgainOnFire(t) == t \notin timer

(* The timer fired (del_timer_sync returned 0) and yet jiffies has not     *)
(* reached the timeout.                                                    *)
LoopAgain(t) == t \notin timer /\ t \notin expired

(* __schedule_timeout after schedule(): del_timer_sync, then read jiffies. *)
(* A timer that fired too early is set again; msleep comes back for the    *)
(* rest of its time.                                                       *)
TimeoutReturns(t) ==
    LET late == t \in expired
        again == LoopAgain(t) \/ (~ late /\ kind[t] = "msleep")
    IN  /\ pc[t] = "s_ret"
        /\ kind[t] \in TimedKinds
        /\ timer' = timer \ {t}
        /\ state' = IF again
                    THEN [state EXCEPT ![t] = SleepState(kind[t])] ELSE state
        /\ Goto(t, IF again THEN "s_arm"
                   ELSE IF kind[t] = "msleep" THEN "run"
                   ELSE IF late THEN "w_late" ELSE "w_lock")
        /\ UNCHANGED <<events, suspended, signals, expired, queueVars,
                       callVars>>

(* The wait_timer fires: __wait_timeout sends the event.                   *)
TimerFires(t) ==
    /\ t \in timer
    /\ timer' = timer \ {t}
    /\ events' = events \cup {t}
    /\ UNCHANGED <<state, suspended, signals, expired, queueVars, callVars,
                   pc>>

(* jiffies reaches the timeout of the call in progress.                    *)
Expire(t) ==
    /\ pc[t] \in SleepPoints \cup {"w_lock"}
    /\ kind[t] \in TimedKinds
    /\ t \notin expired
    /\ expired' = expired \cup {t}
    /\ UNCHANGED <<taskVars, timer, queueVars, callVars, pc>>

-----------------------------------------------------------------------------
(* Waiting for a completion                                                *)

(* list_del of the entry of t                                              *)
Dequeue(s, t) ==
    LET p == CHOOSE i \in 1..Len(s) : s[i] = t
    IN  [i \in 1..(Len(s) - 1) |-> IF i < p THEN s[i] ELSE s[i + 1]]

(* Mutant: done is not counted down.                                       *)
TakeKeeps(c) ==
    /\ taken' = [taken EXCEPT ![c] = @ + 1]
    /\ UNCHANGED done

(* completion->done--                                                      *)
Take(c) ==
    /\ done' = [done EXCEPT ![c] = @ - 1]
    /\ taken' = [taken EXCEPT ![c] = @ + 1]

(* The callers' part: nobody else waits for c if c has a single waiter.    *)
MayWait(c) == c \in Single => queue[c] = <<>>

(* A wait that finds the completion done returns at once.                  *)
WaitTakes(t, c) ==
    /\ pc[t] = "run"
    /\ MayWait(c)
    /\ LockFree(c)
    /\ done[c] > 0
    /\ Take(c)
    /\ UNCHANGED <<taskVars, clockVars, queue, holder, completed, callVars,
                   pc>>

(* Otherwise it queues itself, exclusive and at the tail, and sleeps.  The *)
(* interruptible call that finds a signal removes itself again and returns *)
(* having changed nothing.                                                 *)
WaitQueues(t, c, k) ==
    /\ pc[t] = "run"
    /\ MayWait(c)
    /\ LockFree(c)
    /\ done[c] = 0
    /\ ~ (k = "wait_intr_timeout" /\ t \in signals)
    /\ queue' = [queue EXCEPT ![c] = Append(@, t)]
    /\ on' = [on EXCEPT ![t] = c]
    /\ kind' = [kind EXCEPT ![t] = k]
    /\ state' = [state EXCEPT ![t] = SleepState(k)]
    /\ expired' = expired \ {t}
    /\ Goto(t, SleepPoint(k))
    /\ UNCHANGED <<events, suspended, signals, timer, done, holder,
                   completed, taken, wakee>>

(* The wait is over: the entry leaves the list.                            *)
Leave(t) ==
    /\ queue' = [queue EXCEPT ![on[t]] = Dequeue(@, t)]
    /\ on' = [on EXCEPT ![t] = None]
    /\ Goto(t, "run")

(* The timeout has elapsed: return 0, whatever done says.                  *)
WaitTimesOut(t) ==
    /\ pc[t] = "w_late"
    /\ LockFree(on[t])
    /\ Leave(t)
    /\ UNCHANGED <<taskVars, clockVars, done, holder, completed, taken, kind,
                   wakee>>

(* Mutant: the wait does not look at done again.                           *)
DoneAssumed(c) == TRUE

(* The loop condition of the three waits.                                  *)
Done(c) == done[c] > 0

WaitEnds(t) ==
    /\ pc[t] = "w_lock"
    /\ LockFree(on[t])
    /\ Done(on[t])
    /\ Take(on[t])
    /\ Leave(t)
    /\ UNCHANGED <<taskVars, clockVars, holder, completed, kind, wakee>>

(* Not done: return -ERESTARTSYS if interrupted ...                        *)
WaitInterrupted(t) ==
    /\ pc[t] = "w_lock"
    /\ LockFree(on[t])
    /\ ~ Done(on[t])
    /\ kind[t] = "wait_intr_timeout" /\ t \in signals
    /\ Leave(t)
    /\ UNCHANGED <<taskVars, clockVars, done, holder, completed, taken, kind,
                   wakee>>

(* ... or set the state again and sleep.                                   *)
WaitAgain(t) ==
    /\ pc[t] = "w_lock"
    /\ LockFree(on[t])
    /\ ~ Done(on[t])
    /\ ~ (kind[t] = "wait_intr_timeout" /\ t \in signals)
    /\ state' = [state EXCEPT ![t] = SleepState(kind[t])]
    /\ Goto(t, SleepPoint(kind[t]))
    /\ UNCHANGED <<events, suspended, signals, clockVars, queueVars,
                   callVars>>

-----------------------------------------------------------------------------
(* Waking                                                                  *)

(* Mutant: only interruptible sleepers are woken.                          *)
WakeeInterruptible(c) ==
    IF queue[c] # <<>> /\ state[Head(queue[c])] = "INTERRUPTIBLE"
    THEN Head(queue[c]) ELSE None

(* __wake_up_common for one exclusive waiter.  default_wake_function       *)
(* returns 1 whether or not it wakes the task, so the scan ends at the     *)
(* first entry; that task is woken unless its state is TASK_RUNNING.       *)
Wakee(c) == IF queue[c] # <<>> /\ state[Head(queue[c])] \in Sleeping
            THEN Head(queue[c]) ELSE None

(* complete(): wait.lock is taken, done counted, the first waiter read.    *)
Complete(a, c) ==
    /\ pc[a] = "run"
    /\ LockFree(c)
    /\ done' = [done EXCEPT ![c] = @ + 1]
    /\ completed' = [completed EXCEPT ![c] = @ + 1]
    /\ holder' = [holder EXCEPT ![c] = a]
    /\ wakee' = [wakee EXCEPT ![a] = Wakee(c)]
    /\ on' = [on EXCEPT ![a] = c]
    /\ Goto(a, "k_send")
    /\ UNCHANGED <<taskVars, clockVars, queue, taken, kind>>

(* wake_up_process, and wait.lock is released.                             *)
CompleteWakes(a) ==
    /\ pc[a] = "k_send"
    /\ events' = events \cup ({wakee[a]} \cap Tasks)
    /\ holder' = [holder EXCEPT ![on[a]] = None]
    /\ wakee' = [wakee EXCEPT ![a] = None]
    /\ on' = [on EXCEPT ![a] = None]
    /\ Goto(a, "run")
    /\ UNCHANGED <<state, suspended, signals, clockVars, done, queue,
                   completed, taken, kind>>

(* wake_up_process(t): LinuxTask_SendEvent, whatever the state of t.       *)
WakeUpProcess(t) ==
    /\ events' = events \cup {t}
    /\ UNCHANGED <<state, suspended, signals, clockVars, queueVars, callVars,
                   pc>>

(* LinuxSignalSendByTask: the signal is pending before ...                 *)
SendSignal(a, t) ==
    /\ pc[a] = "run"
    /\ signals' = signals \cup {t}
    /\ wakee' = [wakee EXCEPT ![a] = t]
    /\ Goto(a, "g_check")
    /\ UNCHANGED <<events, state, suspended, clockVars, queueVars, kind, on>>

(* ... state and flags are looked at, without a lock.                      *)
SignalWakes(a) ==
    /\ pc[a] = "g_check"
    /\ events' = IF /\ state[wakee[a]] = "INTERRUPTIBLE"
                    /\ wakee[a] \in suspended
                 THEN events \cup {wakee[a]} ELSE events
    /\ wakee' = [wakee EXCEPT ![a] = None]
    /\ Goto(a, "run")
    /\ UNCHANGED <<state, suspended, signals, clockVars, queueVars, kind, on>>

(* flush_signals, on itself                                                *)
FlushSignals(t) ==
    /\ pc[t] = "run"
    /\ t \in signals
    /\ signals' = signals \ {t}
    /\ UNCHANGED <<events, state, suspended, clockVars, queueVars, callVars,
                   pc>>

-----------------------------------------------------------------------------
(* The steps of calls in progress                                          *)
TaskStep(t) ==
    \/ ArmTimer(t) \/ Schedule(t) \/ WaitEvent(t) \/ Woken(t)
    \/ ScheduleReturns(t) \/ TimeoutReturns(t)
    \/ WaitTimesOut(t) \/ WaitEnds(t) \/ WaitInterrupted(t) \/ WaitAgain(t)
    \/ CompleteWakes(t)

IrqStep(i) == CompleteWakes(i) \/ SignalWakes(i)

ClockStep(t) == TimerFires(t) \/ Expire(t)

Progress ==
    \/ \E t \in Tasks : TaskStep(t) \/ SpuriousWakeup(t) \/ ClockStep(t)
    \/ \E i \in Irqs : IrqStep(i)

-----------------------------------------------------------------------------
(* Properties                                                              *)

TaskTypeOK ==
    /\ events \subseteq Tasks /\ suspended \subseteq Tasks
    /\ signals \subseteq Tasks /\ timer \subseteq Tasks
    /\ expired \subseteq Tasks
    /\ state \in [Tasks -> States]
    /\ done \in [Completions -> Nat]
    /\ completed \in [Completions -> Nat] /\ taken \in [Completions -> Nat]
    /\ queue \in [Completions -> Seq(Tasks)]
    /\ holder \in [Completions -> Actors \cup {None}]
    /\ kind \in [Tasks -> Kinds]
    /\ on \in [Actors -> Completions \cup {None}]
    /\ wakee \in [Actors -> Tasks \cup {None}]
    /\ pc \in [Actors -> TaskPoints \cup IrqPoints]

(* Every complete() is kept until exactly one wait takes it, whatever wake *)
(* ups, stale events, timeouts and signals the waiters get: the calls made *)
(* are the calls taken and those still counted in done.                    *)
CompletionsConserved ==
    \A c \in Completions : completed[c] = done[c] + taken[c]

Waits(t, c) == on[t] = c /\ pc[t] \in SleepPoints \cup {"w_lock", "w_late"}

(* t is about to sleep or asleep and nothing under way will wake it.       *)
Stuck(t) ==
    /\ pc[t] \in {"s_check", "s_wait", "s_sleep"}
    /\ t \notin events \cup timer
    /\ \A a \in Actors : ~ (pc[a] = "k_send" /\ wakee[a] = t)

(* c is done, worlds wait for it, and not one of them will ever look.      *)
LostWakeup(c) ==
    /\ done[c] > 0
    /\ \E t \in Tasks : Waits(t, c)
    /\ \A t \in Tasks : Waits(t, c) => Stuck(t)

(* With one waiter at a time, complete() never finds the waiter in a state *)
(* in which it sleeps on although the completion is done.                  *)
NoLostWakeup == \A c \in Single : ~ LostWakeup(c)
=============================================================================
