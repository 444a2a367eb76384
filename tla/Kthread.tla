------------------------------ MODULE Kthread -------------------------------
(***************************************************************************)
(* Kernel threads: kthread_create, kthread_stop and the start function of  *)
(* a thread (linux_kthread.c), over the tasks and completions of Task.     *)
(*                                                                         *)
(* create.done, which lives in the stack frame of kthread_create, is the   *)
(* completion named after the thread; Stop is kthread_stop_info.done, the  *)
(* one completion all calls of kthread_stop share.                         *)
(*                                                                         *)
(* at[t] is where a task goes on when the call it is in (pc[t]) returns.   *)
(* Drivers:                                                                *)
(*   idle       between calls                                              *)
(*   creating   in kthread_create, about to wait for create.done           *)
(*   created    in kthread_create, the wait being over when pc is run      *)
(*   stop_init  in kthread_stop, holding kthread_stop_lock                 *)
(*   stop_set   about to write kthread_stop_info.k                         *)
(*   stop_wake  about to call wake_up_process(k)                           *)
(*   stop_wait  about to wait for kthread_stop_info.done                   *)
(*   stop_end   the wait being over when pc is run                         *)
(* Threads:                                                                *)
(*   none       not created        started    in kthread(), before complete*)
(*   new        LinuxStartFunc     announced  before the first schedule()  *)
(*   first      after it           fn         in threadfn                  *)
(*   returned   before the last kthread_should_stop()                      *)
(*   stopping   before kthread_stop_info.err is written                    *)
(*   stopped    before the complete() that follows                         *)
(*   leaving    before LinuxTask_Exit                                      *)
(*   gone       descriptor freed                                           *)
(***************************************************************************)
EXTENDS Task

CONSTANTS
    Kthreads,       \* the worlds kthread_create may start
    Creators,       \* the drivers that create threads
    Signalled,      \* tasks that get signals
    Waited,         \* completions of the drivers' own
    Workloads,      \* the sets of threads and calls a run may be made of
    Stop,           \* kthread_stop_info.done
    MaxComplete     \* bound on complete() of a driver's completion

Drivers == Tasks \ Kthreads

(* "quit": thread functions return by themselves, and nobody stops one.    *)
OtherCalls == {"quit", "signal", "wake", "msleep"}

ASSUME KthreadAssumption ==
    /\ Kthreads \subseteq Tasks
    /\ Creators \subseteq Drivers
    /\ Signalled \subseteq Tasks
    /\ \A w \in Workloads :
          w \subseteq Kthreads \cup OtherCalls \cup WaitKinds
    /\ Completions = Kthreads \cup {Stop} \cup Waited
    /\ Kthreads \cup {Stop} \subseteq Single
    /\ Kthreads \cap Waited = {} /\ Stop \notin Kthreads \cup Waited
    /\ MaxComplete \in Nat

VARIABLES
    load,       \* the threads and calls of this run, chosen at the start
    at,
    target,     \* the thread a driver creates or stops
    known,      \* threads whose task_struct pointer the drivers hold
    stopLock,   \* kthread_stop_lock
    stopK,      \* kthread_stop_info.k
    stopErr,    \* kthread_stop_info.err
    ran         \* history: threads whose function was called

threadVars == <<load, target, known, stopLock, stopK, stopErr, ran>>
vars == <<sleepVars, threadVars, at>>

DriverPoints == {"idle", "creating", "created", "stop_init", "stop_set",
                 "stop_wake", "stop_wait", "stop_end"}
ThreadPoints == {"none", "new", "started", "announced", "first", "fn",
                 "returned", "stopping", "stopped", "leaving", "gone"}

Init ==
    /\ SleepInit
    /\ load \in Workloads
    /\ at = [t \in Tasks |-> IF t \in Kthreads THEN "none" ELSE "idle"]
    /\ target = [d \in Drivers |-> None]
    /\ known = {} /\ ran = {}
    /\ stopLock = None /\ stopK = None /\ stopErr = None

At(t, point) == pc[t] = "run" /\ at[t] = point
Next2(t, point) == at' = [at EXCEPT ![t] = point]
Alive(t) == t \in Kthreads => at[t] \notin {"none", "new", "gone"}

(* Mutant: the caller goes on without waiting.                             *)
WaitForSkipped(t, c, point) == Next2(t, point) /\ UNCHANGED sleepVars

(* A call of wait_for_completion(c), after which t goes on at point.       *)
WaitFor(t, c, point) ==
    /\ WaitTakes(t, c) \/ WaitQueues(t, c, "wait")
    /\ Next2(t, point)

-----------------------------------------------------------------------------
(* kthread_create.  A LinuxTask_Create that fails leaves nothing behind.   *)
KthreadCreate(d, k) ==
    /\ At(d, "idle")
    /\ d \in Creators /\ k \in load
    /\ at[k] = "none"
    /\ at' = [at EXCEPT ![d] = "creating", ![k] = "new"]
    /\ target' = [target EXCEPT ![d] = k]
    /\ state' = [state EXCEPT ![k] = "STOPPED"]
    /\ UNCHANGED <<events, suspended, signals, clockVars, queueVars, callVars,
                   pc, load, known, stopLock, stopK, stopErr, ran>>

CreateWaits(d) ==
    /\ At(d, "creating")
    /\ WaitFor(d, target[d], "created")
    /\ UNCHANGED threadVars

CreateReturns(d) ==
    /\ At(d, "created")
    /\ known' = known \cup {target[d]}
    /\ target' = [target EXCEPT ![d] = None]
    /\ Next2(d, "idle")
    /\ UNCHANGED <<sleepVars, load, stopLock, stopK, stopErr, ran>>

(* wake_up_process by whoever holds the pointer, kthread_run to begin with *)
WakeThread(k) ==
    /\ k \in known
    /\ WakeUpProcess(k)
    /\ UNCHANGED <<load, at, target, known, stopLock, stopK, stopErr, ran>>

-----------------------------------------------------------------------------
(* kthread_stop_lock can be taken.                                         *)
StopLockFree == stopLock = None

(* kthread_stop.  The pointer is given up: nobody else may use it now, and *)
(* a thread that ends by itself must not be stopped.                       *)
KthreadStop(d, k) ==
    /\ At(d, "idle")
    /\ k \in known
    /\ "quit" \notin load
    /\ StopLockFree
    /\ stopLock' = d
    /\ known' = known \ {k}
    /\ target' = [target EXCEPT ![d] = k]
    /\ Next2(d, "stop_init")
    /\ UNCHANGED <<sleepVars, load, stopK, stopErr, ran>>

(* init_completion: no count, an empty list, a free lock                   *)
StopInit(d) ==
    /\ At(d, "stop_init")
    /\ done' = [done EXCEPT ![Stop] = 0]
    /\ completed' = [completed EXCEPT ![Stop] = 0]
    /\ taken' = [taken EXCEPT ![Stop] = 0]
    /\ queue' = [queue EXCEPT ![Stop] = <<>>]
    /\ holder' = [holder EXCEPT ![Stop] = None]
    /\ Next2(d, "stop_set")
    /\ UNCHANGED <<taskVars, clockVars, callVars, pc, threadVars>>

(* kthread_stop_info.k = k->pid                                            *)
StopSet(d) ==
    /\ At(d, "stop_set")
    /\ stopK' = target[d]
    /\ Next2(d, "stop_wake")
    /\ UNCHANGED <<sleepVars, load, target, known, stopLock, stopErr, ran>>

(* The thread may be gone by now: the bit is then set in freed memory.     *)
StopWake(d) ==
    /\ At(d, "stop_wake")
    /\ IF Alive(target[d]) THEN WakeUpProcess(target[d])
                           ELSE UNCHANGED sleepVars
    /\ Next2(d, "stop_wait")
    /\ UNCHANGED <<load, target, known, stopLock, stopK, stopErr, ran>>

StopWaits(d) ==
    /\ At(d, "stop_wait")
    /\ WaitFor(d, Stop, "stop_end")
    /\ UNCHANGED threadVars

StopReturns(d) ==
    /\ At(d, "stop_end")
    /\ stopK' = None
    /\ stopLock' = None
    /\ target' = [target EXCEPT ![d] = None]
    /\ Next2(d, "idle")
    /\ UNCHANGED <<sleepVars, load, known, stopErr, ran>>

-----------------------------------------------------------------------------
(* The thread                                                              *)

(* LinuxStartFunc: pid and state are set, kthread() is called.             *)
StartFunc(k) ==
    /\ At(k, "new")
    /\ state' = [state EXCEPT ![k] = "RUNNING"]
    /\ Next2(k, "started")
    /\ UNCHANGED <<events, suspended, signals, clockVars, queueVars, callVars,
                   pc, threadVars>>

(* Mutant: complete() only if the creator already waits.                   *)
AnnounceToWaiter(k) ==
    /\ At(k, "started")
    /\ IF queue[k] # <<>> THEN Complete(k, k) ELSE UNCHANGED sleepVars
    /\ Next2(k, "announced")
    /\ UNCHANGED threadVars

(* kthread(): complete(&create->done), then the first sleep                *)
Announce(k) ==
    /\ At(k, "started")
    /\ Complete(k, k)
    /\ Next2(k, "announced")
    /\ UNCHANGED threadVars

FirstSleep(k) ==
    /\ At(k, "announced")
    /\ StartSleep(k, "schedule")
    /\ Next2(k, "first")
    /\ UNCHANGED threadVars

(* kthread_should_stop                                                     *)
ShouldStop(k) == stopK = k

(* threadfn is called unless the thread is already to stop.                *)
FirstCheck(k) ==
    /\ At(k, "first")
    /\ Next2(k, IF ShouldStop(k) THEN "returned" ELSE "fn")
    /\ ran' = IF ShouldStop(k) THEN ran ELSE ran \cup {k}
    /\ UNCHANGED <<sleepVars, load, target, known, stopLock, stopK, stopErr>>

(* threadfn: while (!kthread_should_stop()) { set state; schedule(); }     *)
FnSleeps(k) ==
    /\ At(k, "fn")
    /\ ~ ShouldStop(k)
    /\ StartSleep(k, "schedule")
    /\ UNCHANGED <<threadVars, at>>

FnReturns(k) ==
    /\ At(k, "fn")
    /\ ShouldStop(k) \/ "quit" \in load
    /\ Next2(k, "returned")
    /\ UNCHANGED <<sleepVars, threadVars>>

(* Mutant: complete() comes before kthread_stop_info.err is written.       *)
LastCheckUnset(k) ==
    /\ At(k, "returned")
    /\ Next2(k, IF ShouldStop(k) THEN "stopped" ELSE "leaving")
    /\ UNCHANGED <<sleepVars, threadVars>>

LastCheck(k) ==
    /\ At(k, "returned")
    /\ Next2(k, IF ShouldStop(k) THEN "stopping" ELSE "leaving")
    /\ UNCHANGED <<sleepVars, threadVars>>

(* The value of threadfn, or -EINTR if it was not called.                  *)
ExitCode(k) == <<k, IF k \in ran THEN "value" ELSE "EINTR">>

SetErr(k) ==
    /\ At(k, "stopping")
    /\ stopErr' = ExitCode(k)
    /\ Next2(k, "stopped")
    /\ UNCHANGED <<sleepVars, load, target, known, stopLock, stopK, ran>>

StopCompletes(k) ==
    /\ At(k, "stopped")
    /\ Complete(k, Stop)
    /\ Next2(k, "leaving")
    /\ UNCHANGED threadVars

(* LinuxTask_Exit, and the drivers forget a thread that ended by itself.   *)
Exit(k) ==
    /\ At(k, "leaving")
    /\ known' = known \ {k}
    /\ events' = events \ {k} /\ signals' = signals \ {k}
    /\ Next2(k, "gone")
    /\ UNCHANGED <<state, suspended, clockVars, queueVars, callVars, pc,
                   load, target, stopLock, stopK, stopErr, ran>>

-----------------------------------------------------------------------------
(* The drivers' own waits, and what interrupts do                          *)
DriverWait(d, c, k) ==
    /\ k \in load
    /\ At(d, "idle")
    /\ WaitTakes(d, c) \/ WaitQueues(d, c, k)
    /\ UNCHANGED <<threadVars, at>>

DriverSleep(d) ==
    /\ "msleep" \in load
    /\ At(d, "idle")
    /\ StartSleep(d, "msleep")
    /\ UNCHANGED <<threadVars, at>>

IrqCompletes(i, c) ==
    /\ load \cap WaitKinds # {}
    /\ completed[c] < MaxComplete
    /\ Complete(i, c)
    /\ UNCHANGED <<threadVars, at>>

IrqWakes(d) ==
    /\ "wake" \in load
    /\ WakeUpProcess(d)
    /\ UNCHANGED <<threadVars, at>>

IrqSignals(i, t) ==
    /\ "signal" \in load
    /\ t \in Kthreads => t \in known
    /\ SendSignal(i, t)
    /\ UNCHANGED <<threadVars, at>>

TaskFlushes(t) ==
    /\ Alive(t)
    /\ FlushSignals(t)
    /\ UNCHANGED <<threadVars, at>>

-----------------------------------------------------------------------------
CallStep(d) ==
    \/ CreateWaits(d) \/ CreateReturns(d)
    \/ StopInit(d) \/ StopSet(d) \/ StopWake(d) \/ StopWaits(d)
    \/ StopReturns(d)

ThreadStep(k) ==
    \/ StartFunc(k) \/ Announce(k) \/ FirstSleep(k) \/ FirstCheck(k)
    \/ FnSleeps(k) \/ FnReturns(k) \/ LastCheck(k) \/ SetErr(k)
    \/ StopCompletes(k) \/ Exit(k)

Call ==
    \/ \E d \in Drivers, k \in Kthreads :
          KthreadCreate(d, k) \/ KthreadStop(d, k)
    \/ \E k \in Kthreads : WakeThread(k)
    \/ \E d \in Drivers, c \in Waited, k \in WaitKinds : DriverWait(d, c, k)
    \/ \E d \in Drivers : DriverSleep(d) \/ IrqWakes(d)
    \/ \E i \in Irqs, c \in Waited : IrqCompletes(i, c)
    \/ \E i \in Irqs, t \in Signalled : IrqSignals(i, t)
    \/ \E t \in Tasks : TaskFlushes(t)

Next ==
    \/ Call
    \/ \E d \in Drivers : CallStep(d)
    \/ \E k \in Kthreads : ThreadStep(k)
    \/ Progress /\ UNCHANGED <<threadVars, at>>

(* The next step of a world: of the call it is in, or of what called it.   *)
WorldStep(t) ==
    \/ TaskStep(t) /\ UNCHANGED <<threadVars, at>>
    \/ t \in Drivers /\ CallStep(t)
    \/ t \in Kthreads /\ ThreadStep(t)

(* Worlds and interrupt handlers are scheduled, timers fire, jiffies       *)
(* advances.  No call is ever promised.                                    *)
Fairness ==
    /\ \A t \in Tasks : WF_vars(WorldStep(t))
    /\ \A i \in Irqs : WF_vars(IrqStep(i) /\ UNCHANGED <<threadVars, at>>)
    /\ \A d \in Drivers :
          /\ WF_vars(TimerFires(d) /\ UNCHANGED <<threadVars, at>>)
          /\ WF_vars(Expire(d) /\ UNCHANGED <<threadVars, at>>)

Spec == Init /\ [][Next]_vars /\ Fairness

-----------------------------------------------------------------------------
TypeOK ==
    /\ TaskTypeOK
    /\ load \in Workloads
    /\ at \in [Tasks -> DriverPoints \cup ThreadPoints]
    /\ target \in [Drivers -> Kthreads \cup {None}]
    /\ known \subseteq Kthreads
    /\ ran \subseteq Kthreads
    /\ stopLock \in Drivers \cup {None}
    /\ stopK \in Kthreads \cup {None}
    /\ stopErr \in (Kthreads \X {"value", "EINTR"}) \cup {None}

(* kthread() completes create.done, which is in the stack frame of its     *)
(* creator: that call does not return while the thread is inside           *)
(* complete(), and kthread_stop does not initialise its completion while a *)
(* thread stopped before is inside it.                                     *)
StorageAlive ==
    /\ \A k \in Kthreads : holder[k] # None =>
          \E d \in Drivers : /\ target[d] = k
                             /\ \/ at[d] = "creating"
                                \/ at[d] = "created" /\ pc[d] # "run"
    /\ \A d \in Drivers : at[d] = "stop_init" =>
          holder[Stop] = None /\ queue[Stop] = <<>>

(* A thread that a driver can name has run LinuxStartFunc, so that         *)
(* wake_up_process finds its pid set.                                      *)
HandedOutStarted ==
    \A k \in Kthreads : k \in known => at[k] \notin {"none", "new", "started"}

(* However the stops of several threads interleave over the one            *)
(* kthread_stop_info, kthread_stop(k) ends with what k returned, after k   *)
(* is out of its function.                                                 *)
StopResult ==
    \A d \in Drivers : At(d, "stop_end") =>
        stopErr = ExitCode(target[d]) /\ at[target[d]] \in {"leaving", "gone"}

(* kthread_create returns: whichever of the creator and the new thread     *)
(* comes first to create.done, the completion is not lost.                 *)
CreateEnds == \A k \in Kthreads : at[k] = "new" ~> k \in known

(* kthread_stop returns once it has the lock, for a thread whose function  *)
(* looks at kthread_should_stop: the wake up cannot fall between the look  *)
(* and the sleep, nor be used up by an earlier event or signal.            *)
StopEnds == stopLock # None ~> stopLock = None

(* A wait with a timeout and msleep return, whatever stale events, early   *)
(* timers, completions and signals arrive.                                 *)
TimedCallsEnd == \A d \in Drivers : pc[d] = "s_arm" ~> pc[d] = "run"
=============================================================================
