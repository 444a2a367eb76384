---------------------------- MODULE KthreadProofs ---------------------------
(***************************************************************************)
(* Proofs about Kthread, for every set of drivers, threads and workloads:  *)
(* the protocol of kthread_create, of kthread_stop and of the thread over  *)
(* the two completions they share.                                         *)
(***************************************************************************)
EXTENDS Kthread, TaskProofs

USE DEF Drivers, Actors

-----------------------------------------------------------------------------
(* The fields of Kthread                                                   *)

ThreadTypeOK ==
    /\ load \in Workloads
    /\ at \in [Tasks -> DriverPoints \cup ThreadPoints]
    /\ target \in [Drivers -> Kthreads \cup {None}]
    /\ known \subseteq Kthreads /\ ran \subseteq Kthreads
    /\ stopLock \in Drivers \cup {None}
    /\ stopK \in Kthreads \cup {None}
    /\ stopErr \in (Kthreads \X {"value", "EINTR"}) \cup {None}

(* A thread is the target of one driver at most, and not while others can  *)
(* name it.                                                                *)
Threads ==
    /\ \A d \in Drivers : /\ at[d] \in DriverPoints
                          /\ target[d] = None <=> at[d] = "idle"
                          /\ target[d] \notin known
    /\ \A k \in Kthreads : at[k] \in ThreadPoints /\ kind[k] = "schedule"
    /\ \A d, e \in Drivers : target[d] = target[e] /\ target[d] # None => d = e
    /\ \A k \in Kthreads : at[k] = "none" =>
          k \notin known /\ \A d \in Drivers : target[d] # k
    /\ \A k \in Kthreads : at[k] \in {"none", "new", "gone"} => pc[k] = "run"

(* The two waits of the protocol have no timeout and cannot be             *)
(* interrupted, and nobody else waits for these completions.               *)
InCall(d, c) == pc[d] = "run" \/ (Waits(d, c) /\ kind[d] = "wait")

Waiting ==
    /\ \A d \in Drivers :
          /\ at[d] \notin {"idle", "created", "stop_end"} => pc[d] = "run"
          /\ at[d] = "created" => InCall(d, target[d])
          /\ at[d] = "stop_end" => InCall(d, Stop)
    /\ \A t \in Tasks, c \in Kthreads : Waits(t, c) =>
          t \in Drivers /\ at[t] = "created" /\ target[t] = c
    /\ \A t \in Tasks : Waits(t, Stop) => t \in Drivers /\ at[t] = "stop_end"

(* create.done is completed once, by the thread, and taken once, by its    *)
(* creator, when the thread is out of complete().                          *)
StopPoints == {"stop_init", "stop_set", "stop_wake", "stop_wait", "stop_end"}

Creator(d, k) ==
    target[d] = k =>
        /\ at[d] = "creating" => taken[k] = 0
        /\ at[d] = "created" => (pc[d] = "run" <=> taken[k] > 0)
        /\ at[d] \in StopPoints => taken[k] > 0

Creation ==
    \A k \in Kthreads :
        /\ completed[k] = IF at[k] \in {"none", "new", "started"} THEN 0 ELSE 1
        /\ at[k] # "none" /\ taken[k] = 0 =>
              \E d \in Drivers :
                 target[d] = k /\ at[d] \in {"creating", "created"}
        /\ \A d \in Drivers : Creator(d, k)
        /\ k \in known => taken[k] > 0
        /\ holder[k] # None => taken[k] = 0 /\ at[k] # "none"

(* kthread_stop_info belongs to the owner of kthread_stop_lock: its        *)
(* completion is completed once, by the thread that is stopped, with its   *)
(* result in err, and taken once.                                          *)
AskedPoints == {"stop_wake", "stop_wait", "stop_end"}

Asked(d) ==
    /\ stopK = target[d]
    /\ completed[Stop] = IF at[target[d]] \in {"leaving", "gone"} THEN 1 ELSE 0
    /\ at[target[d]] \in {"stopped", "leaving", "gone"} =>
          stopErr = ExitCode(target[d])
    /\ holder[Stop] # None => taken[Stop] = 0

Stopper(d) ==
    /\ stopLock = d <=> at[d] \in StopPoints
    /\ at[d] \in {"stop_init", "stop_set"} =>
          stopK = None /\ holder[Stop] = None
    /\ at[d] = "stop_set" => completed[Stop] = 0
    /\ at[d] \in AskedPoints => Asked(d)
    /\ at[d] \in {"stop_wake", "stop_wait"} => taken[Stop] = 0
    /\ at[d] = "stop_end" => (pc[d] = "run" <=> taken[Stop] > 0)

Stopping ==
    /\ \A d \in Drivers : Stopper(d)
    /\ stopLock = None => stopK = None /\ holder[Stop] = None
    /\ stopLock # None => "quit" \notin load

(* A thread that must be stopped to end has been asked to once it is out   *)
(* of its function.                                                        *)
LatePoints == {"returned", "stopping", "stopped", "leaving", "gone"}

Late ==
    \A k \in Kthreads :
        /\ at[k] \in {"stopping", "stopped"} => stopK = k
        /\ "quit" \notin load /\ at[k] = "returned" => stopK = k
        /\ "quit" \notin load /\ at[k] \in LatePoints =>
              /\ k \notin known
              /\ \A d \in Drivers : target[d] = k => at[d] \in AskedPoints

Protocol == ThreadTypeOK /\ Threads /\ Waiting /\ Creation /\ Stopping /\ Late

-----------------------------------------------------------------------------
(* The operations of Task that a step of Kthread is made of.               *)

Kept == UNCHANGED <<threadVars, at>>

(* A step of the tasks that is nothing to the protocol: it leaves its      *)
(* completions alone, except that complete() may let go of wait.lock, and  *)
(* only worlds that are not in a call of it start or end a sleep.          *)
Quiet ==
    /\ \A c \in Kthreads \cup {Stop} :
          /\ completed'[c] = completed[c] /\ taken'[c] = taken[c]
          /\ holder'[c] # None => holder'[c] = holder[c]
          /\ \A u \in Tasks : Waits(u, c)' <=> Waits(u, c)
    /\ \A d \in Drivers : at[d] # "idle" =>
          kind'[d] = kind[d] /\ (pc'[d] = "run" <=> pc[d] = "run")
    /\ \A k \in Kthreads :
          /\ kind'[k] = "schedule"
          /\ at[k] \in {"none", "new", "gone"} => pc'[k] = "run"

LEMMA ProtocolQuiet ==
    ASSUME Protocol, Kept, Quiet
    PROVE  Protocol'
<1> USE DEF Protocol, Kept, Quiet, threadVars
<1>1. ThreadTypeOK'
  BY DEF ThreadTypeOK
<1>2. Threads'
  BY DEF Threads
<1>3. Waiting'
  BY KthreadAssumption DEF Waiting, InCall, Threads, ThreadTypeOK
<1>4. Creation'
  <2>1. \A k \in Kthreads, d \in Drivers : Creator(d, k)'
    BY DEF Creation, Creator
  <2> QED BY <2>1 DEF Creation
<1>5. Stopping'
  <2>1. \A d \in Drivers : Stopper(d)'
    BY DEF Stopping, Stopper, Asked, ExitCode
  <2> QED BY <2>1 DEF Stopping
<1>6. Late'
  BY DEF Late
<1> QED BY <1>1, <1>2, <1>3, <1>4, <1>5, <1>6

(* What the invariant says of a driver inside a call of the protocol.      *)
LEMMA CallFacts ==
    ASSUME TaskInv, Protocol
    PROVE  /\ \A d \in Drivers : at[d] # "idle" =>
                 pc[d] = "run" \/ kind[d] = "wait"
           /\ \A t \in Tasks, c \in Kthreads \cup {Stop} : Waits(t, c) =>
                 kind[t] = "wait" /\ t \in Drivers /\ at[t] # "idle"
           /\ Kthreads \cup {Stop} \subseteq Single
           /\ Single \subseteq Completions /\ None \notin Completions
<1>1. \A d \in Drivers : at[d] # "idle" => pc[d] = "run" \/ kind[d] = "wait"
  BY DEF Protocol, Waiting, InCall
<1>2. \A t \in Tasks, c \in Kthreads \cup {Stop} : Waits(t, c) =>
         pc[t] # "run" /\ t \in Drivers /\ at[t] # "idle"
  BY DEF Protocol, Waiting, Waits, SleepPoints
<1> QED BY <1>1, <1>2, TaskAssumption, KthreadAssumption

(* The steps of a sleep are quiet.                                         *)
LEMMA QuietSleep ==
    ASSUME TaskInv, Protocol, NEW t \in Tasks,
           \/ ArmTimer(t) \/ Schedule(t) \/ WaitEvent(t) \/ Woken(t)
           \/ SpuriousWakeup(t) \/ ScheduleReturns(t) \/ TimeoutReturns(t)
           \/ TimerFires(t) \/ Expire(t) \/ WakeUpProcess(t) \/ FlushSignals(t)
    PROVE  Quiet
<1> USE DEF Goto, taskVars, clockVars, queueVars, callVars
<1>0. /\ pc \in [Actors -> TaskPoints \cup IrqPoints]
      /\ pc[t] = "s_ret" => (on[t] # None <=> kind[t] \in WaitKinds)
      /\ \A k \in Kthreads : kind[k] = "schedule"
                /\ (at[k] \in {"none", "new", "gone"} => pc[k] = "run")
  BY DEF TaskInv, TaskTypeOK, TaskControl, TaskAt, Protocol, Threads,
     SleepPoints
<1>q. queue' = queue /\ UNCHANGED <<completed, taken, holder, kind, on>>
  BY DEF ArmTimer, Schedule, WaitEvent, Woken, SpuriousWakeup, ScheduleReturns,
     TimeoutReturns, TimerFires, Expire, WakeUpProcess, FlushSignals
<1>p. /\ \A a \in Actors \ {t} : pc'[a] = pc[a]
      /\ pc'[t] # pc[t] =>
            /\ pc[t] \in SleepPoints
            /\ \/ pc'[t] \in SleepPoints \cup {"w_lock", "w_late"}
               \/ pc'[t] = "run" /\ on[t] = None /\ kind[t] # "wait"
  <2>1. CASE ScheduleReturns(t)
    BY <1>0, <2>1 DEF ScheduleReturns, SleepPoints, WaitKinds, TimedKinds,
       Kinds, TaskInv, TaskTypeOK
  <2>2. CASE TimeoutReturns(t)
    BY <1>0, <2>2 DEF TimeoutReturns, SleepPoints, WaitKinds, TimedKinds
  <2>3. CASE ~ (ScheduleReturns(t) \/ TimeoutReturns(t))
    BY <1>0, <2>3 DEF ArmTimer, Schedule, WaitEvent, Woken, SpuriousWakeup,
       TimerFires, Expire, WakeUpProcess, FlushSignals, SleepPoints
  <2> QED BY <2>1, <2>2, <2>3
<1>1. \A c \in Kthreads \cup {Stop}, u \in Tasks : Waits(u, c)' <=> Waits(u, c)
  <2>1. \A c \in Kthreads \cup {Stop} : c # None
    BY CallFacts
  <2> QED BY <1>q, <1>p, <2>1 DEF Waits, SleepPoints
<1>2. \A d \in Drivers : at[d] # "idle" => (pc'[d] = "run" <=> pc[d] = "run")
  <2>1. \A d \in Drivers : at[d] # "idle" => pc[d] = "run" \/ kind[d] = "wait"
    BY CallFacts
  <2> QED BY <1>p, <2>1 DEF SleepPoints
<1>3. \A k \in Kthreads : at[k] \in {"none", "new", "gone"} => pc'[k] = "run"
  <2>1. \A k \in Kthreads : k \in Tasks
    BY KthreadAssumption
  <2> QED BY <1>0, <1>p, <2>1 DEF SleepPoints
<1> QED BY <1>0, <1>q, <1>1, <1>2, <1>3 DEF Quiet

(* msleep of a driver between calls, and schedule() in a thread function   *)
LEMMA QuietStart ==
    ASSUME TaskInv, Protocol, NEW t \in Tasks, NEW k \in Kinds \ WaitKinds,
           StartSleep(t, k),
           \/ t \in Drivers /\ at[t] = "idle"
           \/ t \in Kthreads /\ at[t] = "fn" /\ k = "schedule"
    PROVE  Quiet
<1> USE DEF StartSleep, Goto, queueVars
<1>0. /\ pc \in [Actors -> TaskPoints \cup IrqPoints]
      /\ kind \in [Tasks -> Kinds]
      /\ pc[t] = "run" /\ on[t] = None
      /\ \A j \in Kthreads : kind[j] = "schedule"
                /\ (at[j] \in {"none", "new", "gone"} => pc[j] = "run")
  BY DEF TaskInv, TaskTypeOK, TaskControl, TaskAt, Protocol, Threads
<1>1. \A c \in Kthreads \cup {Stop}, u \in Tasks : Waits(u, c)' <=> Waits(u, c)
  BY <1>0, CallFacts DEF Waits
<1> QED BY <1>0, <1>1, KthreadAssumption DEF Quiet

(* A driver waits for a completion of its own.                             *)
LEMMA QuietWait ==
    ASSUME TaskInv, Protocol, NEW d \in Drivers, NEW c \in Waited,
           at[d] = "idle",
           NEW k \in WaitKinds, WaitTakes(d, c) \/ WaitQueues(d, c, k)
    PROVE  Quiet
<1> USE DEF Goto, queueVars, callVars
<1>0. /\ pc \in [Actors -> TaskPoints \cup IrqPoints]
      /\ kind \in [Tasks -> Kinds]
      /\ on \in [Actors -> Completions \cup {None}]
      /\ taken \in [Completions -> Nat]
      /\ pc[d] = "run" /\ on[d] = None
      /\ \A j \in Kthreads : kind[j] = "schedule"
                /\ (at[j] \in {"none", "new", "gone"} => pc[j] = "run")
      /\ \A e \in Kthreads \cup {Stop} : e # c
  BY KthreadAssumption DEF TaskInv, TaskTypeOK, TaskControl, TaskAt, Protocol,
     Threads, WaitTakes, WaitQueues
<1>1. CASE WaitTakes(d, c)
  BY <1>0, <1>1, CallFacts DEF Quiet, WaitTakes, Take, Waits
<1>2. CASE WaitQueues(d, c, k)
  <2>1. \A e \in Kthreads \cup {Stop}, u \in Tasks :
           Waits(u, e)' <=> Waits(u, e)
    BY <1>0, <1>2, CallFacts DEF WaitQueues, Waits, SleepPoints
  <2> QED BY <1>0, <1>2, <2>1, KthreadAssumption DEF Quiet, WaitQueues
<1> QED BY <1>1, <1>2

(* The rest of a wait, unless it takes a completion of the protocol.       *)
LEMMA QuietWaitStep ==
    ASSUME TaskInv, Protocol, NEW t \in Tasks,
           \/ WaitTimesOut(t) \/ WaitInterrupted(t) \/ WaitAgain(t)
           \/ WaitEnds(t) /\ on[t] \notin Kthreads \cup {Stop}
    PROVE  Quiet
<1> USE DEF Goto, queueVars, callVars
<1>0. /\ pc \in [Actors -> TaskPoints \cup IrqPoints]
      /\ kind \in [Tasks -> Kinds]
      /\ on \in [Actors -> Completions \cup {None}]
      /\ taken \in [Completions -> Nat]
      /\ pc[t] \in {"w_lock", "w_late"} /\ on[t] # None
      /\ pc[t] = "w_late" => kind[t] \in TimedKinds
      /\ \A j \in Kthreads : kind[j] = "schedule"
                /\ (at[j] \in {"none", "new", "gone"} => pc[j] = "run")
  BY DEF TaskInv, TaskTypeOK, TaskControl, TaskAt, Protocol, Threads,
     WaitTimesOut, WaitInterrupted, WaitAgain, WaitEnds
<1>1. CASE WaitAgain(t)
  BY <1>0, <1>1, CallFacts DEF Quiet, WaitAgain, Waits, SleepPoints, SleepPoint
<1>2. CASE ~ WaitAgain(t)
  <2>1. on[t] \notin Kthreads \cup {Stop}
    BY <1>0, <1>2, CallFacts DEF WaitTimesOut, WaitInterrupted, Waits,
       TimedKinds
  <2>2. t \in Drivers => at[t] = "idle"
    BY <1>0, <2>1, CallFacts DEF Protocol, Waiting, InCall, Threads,
       ThreadTypeOK, Waits
  <2>3. t \in Drivers
    BY <1>0 DEF TaskInv, TaskControl, TaskAt, WaitKinds
  <2>4. /\ UNCHANGED <<holder, completed, kind>>
        /\ \A c \in Completions \ {on[t]} : taken'[c] = taken[c]
        /\ on' = [on EXCEPT ![t] = None] /\ pc' = [pc EXCEPT ![t] = "run"]
    BY <1>0, <1>2 DEF WaitTimesOut, WaitInterrupted, WaitEnds, Leave, Take
  <2>5. \A e \in Kthreads \cup {Stop}, u \in Tasks :
           Waits(u, e)' <=> Waits(u, e)
    BY <1>0, <2>1, <2>4, CallFacts DEF Waits, SleepPoints
  <2> QED BY <1>0, <2>1, <2>2, <2>3, <2>4, <2>5, CallFacts DEF Quiet
<1> QED BY <1>1, <1>2

(* complete() of a driver's completion, the end of any complete(), signals *)
LEMMA QuietWake ==
    ASSUME TaskInv, Protocol, NEW a \in Actors,
           \/ a \in Irqs /\ \E c \in Waited : Complete(a, c)
           \/ CompleteWakes(a)
           \/ a \in Irqs /\ \E t \in Tasks : SendSignal(a, t)
           \/ a \in Irqs /\ SignalWakes(a)
    PROVE  Quiet
<1> USE DEF Goto, queueVars, callVars
<1>0. /\ pc \in [Actors -> TaskPoints \cup IrqPoints]
      /\ kind \in [Tasks -> Kinds]
      /\ on \in [Actors -> Completions \cup {None}]
      /\ completed \in [Completions -> Nat]
      /\ holder \in [Completions -> Actors \cup {None}]
      /\ pc[a] = "k_send" => on[a] \in Completions
      /\ a \in Irqs => a \notin Tasks
      /\ \A j \in Kthreads : kind[j] = "schedule"
                /\ (at[j] \in {"none", "new", "gone"} => pc[j] = "run")
  BY TaskAssumption DEF TaskInv, TaskTypeOK, Locks, Protocol, Threads
<1>1. CASE a \in Irqs /\ \E c \in Waited : Complete(a, c)
  BY <1>0, <1>1, KthreadAssumption, CallFacts DEF Quiet, Complete, Waits
<1>2. CASE CompleteWakes(a)
  <2>1. \A e \in Kthreads \cup {Stop}, u \in Tasks :
           Waits(u, e)' <=> Waits(u, e)
    BY <1>0, <1>2, CallFacts DEF CompleteWakes, Waits, SleepPoints
  <2>2. \A d \in Drivers : at[d] # "idle" => (pc'[d] = "run" <=> pc[d] = "run")
    BY <1>0, <1>2 DEF CompleteWakes, Protocol, Waiting, InCall, Waits,
       SleepPoints
  <2> QED BY <1>0, <1>2, <2>1, <2>2, CallFacts, KthreadAssumption DEF Quiet,
             CompleteWakes
<1>3. CASE a \in Irqs /\ \E t \in Tasks : SendSignal(a, t)
  BY <1>0, <1>3, KthreadAssumption DEF Quiet, SendSignal, Waits
<1>4. CASE a \in Irqs /\ SignalWakes(a)
  BY <1>0, <1>4, KthreadAssumption DEF Quiet, SignalWakes, Waits
<1> QED BY <1>1, <1>2, <1>3, <1>4

-----------------------------------------------------------------------------
(* The steps of the calls and of the threads                               *)

(* A step that leaves the completions and the calls in progress alone.     *)
Still == UNCHANGED <<queueVars, callVars, pc>>

LEMMA StillFacts ==
    ASSUME Still
    PROVE  /\ UNCHANGED <<completed, taken, holder, kind, pc>>
           /\ \A u \in Tasks, c \in Completions : Waits(u, c)' <=> Waits(u, c)
           /\ \A u \in Tasks, c \in Completions : InCall(u, c)' <=> InCall(u, c)
BY DEF Still, queueVars, callVars, Waits, InCall

(* Completions counted as taken were completed.                            *)
LEMMA TakenFacts ==
    ASSUME TaskInv, Protocol
    PROVE  \A c \in Kthreads \cup {Stop} :
              /\ completed[c] \in Nat /\ taken[c] \in Nat /\ done[c] \in Nat
              /\ completed[c] = done[c] + taken[c]
BY KthreadAssumption DEF TaskInv, TaskTypeOK, CompletionsConserved

(* The thread that is asked to stop is the target of the lock's owner.     *)
LEMMA StopKFacts ==
    ASSUME Protocol, stopK # None
    PROVE  /\ stopLock \in Drivers /\ at[stopLock] \in AskedPoints
           /\ target[stopLock] = stopK /\ stopK \notin known
           /\ \A d \in Drivers : target[d] = stopK => d = stopLock
<1>1. stopLock \in Drivers
  BY DEF Protocol, Stopping, ThreadTypeOK
<1>2. at[stopLock] \in AskedPoints /\ target[stopLock] = stopK
  BY <1>1 DEF Protocol, Stopping, Stopper, StopPoints, AskedPoints, Asked
<1> QED BY <1>1, <1>2 DEF Protocol, Threads, ThreadTypeOK

(* The thread of a kthread_stop whose wait is over has left.               *)
LEMMA StopEndFacts ==
    ASSUME TaskInv, Protocol, NEW d \in Drivers, At(d, "stop_end")
    PROVE  /\ stopLock = d /\ stopK = target[d] /\ target[d] \in Kthreads
           /\ stopErr = ExitCode(target[d])
           /\ at[target[d]] \in {"leaving", "gone"}
           /\ holder[Stop] = None
<1>1. taken[Stop] > 0 /\ Asked(d) /\ stopLock = d
  BY DEF Protocol, Stopping, Stopper, StopPoints, AskedPoints, At
<1>2. completed[Stop] # 0
  BY <1>1, TakenFacts
<1>3. target[d] \in Kthreads
  BY DEF Protocol, Threads, ThreadTypeOK, At
<1> QED BY <1>1, <1>2, <1>3 DEF Asked

(* kthread_create returns.                                                 *)
LEMMA ProtocolCreateReturns ==
    ASSUME TaskInv, Protocol, NEW d \in Drivers, CreateReturns(d)
    PROVE  Protocol'
<1> USE KthreadAssumption, TaskAssumption DEF Protocol, CreateReturns, At,
       Next2, threadVars
<1>0. Still
  BY DEF Still, sleepVars
<1> USE <1>0, StillFacts
<1>1. ThreadTypeOK'
  BY DEF ThreadTypeOK, Threads, DriverPoints
<1>2. Threads'
  BY DEF ThreadTypeOK, Threads, DriverPoints, ThreadPoints, Creation, Late
<1>3. Waiting'
  BY DEF ThreadTypeOK, Threads, Waiting, DriverPoints, Waits, SleepPoints
<1>4. Creation'
  <2>1. \A j \in Kthreads, e \in Drivers : Creator(e, j)'
    BY DEF ThreadTypeOK, Threads, Waiting, Creation, Creator, StopPoints, Late
  <2> QED BY <2>1 DEF ThreadTypeOK, Threads, Creation, Creator
<1>5. Stopping'
  <2>1. \A e \in Drivers : Stopper(e)'
    BY DEF ThreadTypeOK, Threads, Stopping, Stopper, Asked, ExitCode,
       StopPoints, AskedPoints, Late
  <2> QED BY <2>1 DEF ThreadTypeOK, Stopping, Stopper, StopPoints
<1>6. Late'
  BY DEF ThreadTypeOK, Threads, Late, LatePoints, AskedPoints, Stopping,
     Stopper
<1> QED BY <1>1, <1>2, <1>3, <1>4, <1>5, <1>6

(* kthread_stop takes its lock.                                            *)
LEMMA ProtocolStops ==
    ASSUME TaskInv, Protocol, NEW d \in Drivers, NEW k \in Kthreads,
           KthreadStop(d, k)
    PROVE  Protocol'
<1> USE KthreadAssumption, TaskAssumption DEF Protocol, KthreadStop, At,
       Next2, threadVars
<1>0. Still
  BY DEF Still, sleepVars
<1> USE <1>0, StillFacts
<1>1. ThreadTypeOK'
  BY DEF ThreadTypeOK, DriverPoints, ThreadPoints
<1>2. Threads'
  BY DEF ThreadTypeOK, Threads, DriverPoints, ThreadPoints, Creation, Late
<1>3. Waiting'
  BY DEF ThreadTypeOK, Threads, Waiting, DriverPoints, ThreadPoints, Creation,
     Creator
<1>4. Creation'
  <2>1. \A j \in Kthreads, e \in Drivers : Creator(e, j)'
    BY DEF ThreadTypeOK, Threads, Waiting, Creation, Creator, StopPoints, Late
  <2> QED BY <2>1 DEF ThreadTypeOK, Threads, Creation, Creator
<1>5. Stopping'
  <2>1. \A e \in Drivers : Stopper(e)'
    <3>1. Stopper(d)'
      BY DEF ThreadTypeOK, Stopping, Stopper, StopPoints, AskedPoints,
         StopLockFree
    <3>2. ASSUME NEW e \in Drivers, e # d PROVE Stopper(e)'
      BY <3>2 DEF ThreadTypeOK, Stopping, Stopper, StopPoints, AskedPoints,
         StopLockFree
    <3> QED BY <3>1, <3>2
  <2> QED BY <2>1 DEF ThreadTypeOK, Stopping, Stopper, StopPoints
<1>6. Late'
  BY DEF ThreadTypeOK, Threads, Late, LatePoints, AskedPoints, Stopping,
     Stopper
<1> QED BY <1>1, <1>2, <1>3, <1>4, <1>5, <1>6

(* kthread_stop names its thread.                                          *)
LEMMA ProtocolStopSet ==
    ASSUME TaskInv, Protocol, NEW d \in Drivers, StopSet(d)
    PROVE  Protocol'
<1> USE KthreadAssumption, TaskAssumption DEF Protocol, StopSet, At, Next2,
       threadVars
<1>0. Still
  BY DEF Still, sleepVars
<1> USE <1>0, StillFacts
<1>1. ThreadTypeOK'
  BY DEF ThreadTypeOK, DriverPoints, ThreadPoints
<1>2. Threads'
  BY DEF ThreadTypeOK, Threads, DriverPoints, ThreadPoints, Creation, Late
<1>3. Waiting'
  BY DEF ThreadTypeOK, Threads, Waiting, DriverPoints, ThreadPoints, Creation,
     Creator
<1>4. Creation'
  <2>1. \A j \in Kthreads, e \in Drivers : Creator(e, j)'
    BY DEF ThreadTypeOK, Threads, Waiting, Creation, Creator, StopPoints, Late
  <2> QED BY <2>1 DEF ThreadTypeOK, Threads, Creation, Creator
<1>5. Stopping'
  <2>1. \A e \in Drivers : Stopper(e)'
    <3>1. Stopper(d)'
      <4>1. stopLock = d /\ completed[Stop] = 0 /\ taken[Stop] = 0 /\ stopK = None
            /\ holder[Stop] = None /\ "quit" \notin load /\ target[d] \in Kthreads
        BY TakenFacts DEF Stopping, Stopper, StopPoints, Threads, ThreadTypeOK
      <4>2. at[target[d]] \notin {"stopped", "leaving", "gone"}
        BY <4>1 DEF Late, LatePoints, AskedPoints
      <4>3. /\ at'[target[d]] = at[target[d]] /\ at'[d] = "stop_wake"
            /\ stopK' = target[d] /\ UNCHANGED <<target, stopLock>>
        BY <4>1 DEF ThreadTypeOK
      <4> QED BY <4>1, <4>2, <4>3 DEF Stopper, Asked, StopPoints, AskedPoints
    <3>2. ASSUME NEW e \in Drivers, e # d PROVE Stopper(e)'
      BY <3>2 DEF ThreadTypeOK, Stopping, Stopper, StopPoints, AskedPoints
    <3> QED BY <3>1, <3>2
  <2> QED BY <2>1 DEF ThreadTypeOK, Stopping, Stopper, StopPoints
<1>6. Late'
  BY DEF ThreadTypeOK, Threads, Late, LatePoints, AskedPoints, Stopping,
     Stopper
<1> QED BY <1>1, <1>2, <1>3, <1>4, <1>5, <1>6

(* kthread_stop wakes its thread, which may be gone.                       *)
LEMMA ProtocolStopWake ==
    ASSUME TaskInv, Protocol, NEW d \in Drivers, StopWake(d)
    PROVE  Protocol'
<1> USE KthreadAssumption, TaskAssumption DEF Protocol, StopWake, At, Next2,
       WakeUpProcess, threadVars
<1>0. Still
  BY DEF Still, sleepVars, queueVars, callVars
<1> USE <1>0, StillFacts
<1>1. ThreadTypeOK'
  BY DEF ThreadTypeOK, DriverPoints, ThreadPoints
<1>2. Threads'
  BY DEF ThreadTypeOK, Threads, DriverPoints, ThreadPoints, Creation, Late
<1>3. Waiting'
  BY DEF ThreadTypeOK, Threads, Waiting, DriverPoints, ThreadPoints, Creation,
     Creator
<1>4. Creation'
  <2>1. \A j \in Kthreads, e \in Drivers : Creator(e, j)'
    BY DEF ThreadTypeOK, Threads, Waiting, Creation, Creator, StopPoints, Late
  <2> QED BY <2>1 DEF ThreadTypeOK, Threads, Creation, Creator
<1>5. Stopping'
  <2>1. \A e \in Drivers : Stopper(e)'
    BY DEF ThreadTypeOK, Threads, Stopping, Stopper, Asked, ExitCode,
       StopPoints, AskedPoints, Late
  <2> QED BY <2>1 DEF ThreadTypeOK, Stopping, Stopper, StopPoints
<1>6. Late'
  BY DEF ThreadTypeOK, Threads, Late, LatePoints, AskedPoints, Stopping,
     Stopper
<1> QED BY <1>1, <1>2, <1>3, <1>4, <1>5, <1>6

(* kthread_stop returns.                                                   *)
LEMMA ProtocolStopReturns ==
    ASSUME TaskInv, Protocol, NEW d \in Drivers, StopReturns(d)
    PROVE  Protocol'
<1> USE KthreadAssumption, TaskAssumption DEF Protocol, StopReturns, At,
       Next2, threadVars
<1>0. Still
  BY DEF Still, sleepVars
<1> USE <1>0, StillFacts
<1>1. ThreadTypeOK'
  BY DEF ThreadTypeOK, DriverPoints, ThreadPoints
<1>2. Threads'
  BY DEF ThreadTypeOK, Threads, DriverPoints, ThreadPoints, Creation, Late
<1>3. Waiting'
  BY DEF ThreadTypeOK, Threads, Waiting, DriverPoints, Waits, SleepPoints
<1>4. Creation'
  <2>1. \A j \in Kthreads, e \in Drivers : Creator(e, j)'
    BY DEF ThreadTypeOK, Threads, Waiting, Creation, Creator, StopPoints, Late
  <2> QED BY <2>1 DEF ThreadTypeOK, Threads, Creation, Creator
<1>5. Stopping'
  <2>1. \A e \in Drivers : Stopper(e)'
    BY DEF ThreadTypeOK, Threads, Stopping, Stopper, Asked, ExitCode,
       StopPoints, AskedPoints, Late
  <2> QED BY <2>1, StopEndFacts DEF ThreadTypeOK, Stopping
<1>6. Late'
  BY StopEndFacts DEF ThreadTypeOK, Threads, Late, LatePoints, AskedPoints
<1> QED BY <1>1, <1>2, <1>3, <1>4, <1>5, <1>6

(* The first kthread_should_stop().                                        *)
LEMMA ProtocolFirstCheck ==
    ASSUME TaskInv, Protocol, NEW k \in Kthreads, FirstCheck(k)
    PROVE  Protocol'
<1> USE KthreadAssumption, TaskAssumption DEF Protocol, FirstCheck, At, Next2,
       ShouldStop, threadVars
<1>0. Still
  BY DEF Still, sleepVars
<1> USE <1>0, StillFacts
<1>1. ThreadTypeOK'
  BY DEF ThreadTypeOK, DriverPoints, ThreadPoints
<1>2. Threads'
  BY DEF ThreadTypeOK, Threads, DriverPoints, ThreadPoints, Creation, Late
<1>3. Waiting'
  BY DEF ThreadTypeOK, Threads, Waiting, DriverPoints, ThreadPoints, Creation,
     Creator
<1>4. Creation'
  <2>1. \A j \in Kthreads, e \in Drivers : Creator(e, j)'
    BY DEF ThreadTypeOK, Threads, Waiting, Creation, Creator, StopPoints, Late
  <2> QED BY <2>1 DEF ThreadTypeOK, Threads, Creation, Creator
<1>5. Stopping'
  <2>1. \A e \in Drivers : Stopper(e)'
    BY DEF ThreadTypeOK, Threads, Stopping, Stopper, Asked, ExitCode,
       StopPoints, AskedPoints, Late
  <2> QED BY <2>1 DEF ThreadTypeOK, Stopping, Stopper, StopPoints
<1>6. Late'
  BY StopKFacts DEF ThreadTypeOK, Threads, Late, LatePoints
<1> QED BY <1>1, <1>2, <1>3, <1>4, <1>5, <1>6

(* threadfn returns.                                                       *)
LEMMA ProtocolFnReturns ==
    ASSUME TaskInv, Protocol, NEW k \in Kthreads, FnReturns(k)
    PROVE  Protocol'
<1> USE KthreadAssumption, TaskAssumption DEF Protocol, FnReturns, At, Next2,
       ShouldStop, threadVars
<1>0. Still
  BY DEF Still, sleepVars
<1> USE <1>0, StillFacts
<1>1. ThreadTypeOK'
  BY DEF ThreadTypeOK, DriverPoints, ThreadPoints
<1>2. Threads'
  BY DEF ThreadTypeOK, Threads, DriverPoints, ThreadPoints, Creation, Late
<1>3. Waiting'
  BY DEF ThreadTypeOK, Threads, Waiting, DriverPoints, ThreadPoints, Creation,
     Creator
<1>4. Creation'
  <2>1. \A j \in Kthreads, e \in Drivers : Creator(e, j)'
    BY DEF ThreadTypeOK, Threads, Waiting, Creation, Creator, StopPoints, Late
  <2> QED BY <2>1 DEF ThreadTypeOK, Threads, Creation, Creator
<1>5. Stopping'
  <2>1. \A e \in Drivers : Stopper(e)'
    BY DEF ThreadTypeOK, Threads, Stopping, Stopper, Asked, ExitCode,
       StopPoints, AskedPoints, Late
  <2> QED BY <2>1 DEF ThreadTypeOK, Stopping, Stopper, StopPoints
<1>6. Late'
  BY StopKFacts DEF ThreadTypeOK, Threads, Late, LatePoints
<1> QED BY <1>1, <1>2, <1>3, <1>4, <1>5, <1>6

(* The last kthread_should_stop().                                         *)
LEMMA ProtocolLastCheck ==
    ASSUME TaskInv, Protocol, NEW k \in Kthreads, LastCheck(k)
    PROVE  Protocol'
<1> USE KthreadAssumption, TaskAssumption DEF Protocol, LastCheck, At, Next2,
       ShouldStop, threadVars
<1>0. Still
  BY DEF Still, sleepVars
<1> USE <1>0, StillFacts
<1>1. ThreadTypeOK'
  BY DEF ThreadTypeOK, DriverPoints, ThreadPoints
<1>2. Threads'
  BY DEF ThreadTypeOK, Threads, DriverPoints, ThreadPoints, Creation, Late
<1>3. Waiting'
  BY DEF ThreadTypeOK, Threads, Waiting, DriverPoints, ThreadPoints, Creation,
     Creator
<1>4. Creation'
  <2>1. \A j \in Kthreads, e \in Drivers : Creator(e, j)'
    BY DEF ThreadTypeOK, Threads, Waiting, Creation, Creator, StopPoints, Late
  <2> QED BY <2>1 DEF ThreadTypeOK, Threads, Creation, Creator
<1>5. Stopping'
  <2>1. \A e \in Drivers : Stopper(e)'
    BY DEF ThreadTypeOK, Threads, Stopping, Stopper, Asked, ExitCode,
       StopPoints, AskedPoints, Late
  <2> QED BY <2>1 DEF ThreadTypeOK, Stopping, Stopper, StopPoints
<1>6. Late'
  BY DEF ThreadTypeOK, Threads, Late, LatePoints, AskedPoints, Stopping,
     Stopper
<1> QED BY <1>1, <1>2, <1>3, <1>4, <1>5, <1>6

(* kthread_stop_info.err is written.                                       *)
LEMMA ProtocolSetErr ==
    ASSUME TaskInv, Protocol, NEW k \in Kthreads, SetErr(k)
    PROVE  Protocol'
<1> USE KthreadAssumption, TaskAssumption DEF Protocol, SetErr, At, Next2,
       threadVars
<1>0. Still
  BY DEF Still, sleepVars
<1> USE <1>0, StillFacts
<1>1. ThreadTypeOK'
  BY DEF ThreadTypeOK, DriverPoints, ThreadPoints, ExitCode
<1>2. Threads'
  BY DEF ThreadTypeOK, Threads, DriverPoints, ThreadPoints, Creation, Late
<1>3. Waiting'
  BY DEF ThreadTypeOK, Threads, Waiting, DriverPoints, ThreadPoints, Creation,
     Creator
<1>4. Creation'
  <2>1. \A j \in Kthreads, e \in Drivers : Creator(e, j)'
    BY DEF ThreadTypeOK, Threads, Waiting, Creation, Creator, StopPoints, Late
  <2> QED BY <2>1 DEF ThreadTypeOK, Threads, Creation, Creator
<1>5. Stopping'
  <2>1. \A e \in Drivers : Stopper(e)'
    BY DEF ThreadTypeOK, Threads, Stopping, Stopper, Asked, ExitCode,
       StopPoints, AskedPoints, Late
  <2> QED BY <2>1 DEF ThreadTypeOK, Stopping, Stopper, StopPoints
<1>6. Late'
  BY DEF ThreadTypeOK, Threads, Late, LatePoints, AskedPoints, Stopping,
     Stopper
<1> QED BY <1>1, <1>2, <1>3, <1>4, <1>5, <1>6

(* kthread_create starts a world.                                          *)
LEMMA ProtocolKthreadCreate ==
    ASSUME TaskInv, Protocol, NEW d \in Drivers, NEW k \in Kthreads,
           KthreadCreate(d, k)
    PROVE  Protocol'
<1> USE KthreadAssumption, TaskAssumption DEF Protocol, KthreadCreate, At,
       threadVars
<1>0. Still
  BY DEF Still, sleepVars
<1> USE <1>0, StillFacts
<1>1. ThreadTypeOK'
  BY DEF ThreadTypeOK, DriverPoints, ThreadPoints
<1>2. Threads'
  BY DEF ThreadTypeOK, Threads, DriverPoints, ThreadPoints, Creation, Late
<1>3. Waiting'
  BY DEF ThreadTypeOK, Threads, Waiting, DriverPoints, ThreadPoints, Creation,
     Creator
<1>4. Creation'
  <2>1. \A j \in Kthreads, e \in Drivers : Creator(e, j)'
    BY TakenFacts DEF ThreadTypeOK, Threads, Waiting, Creation, Creator,
       StopPoints
  <2> QED BY <2>1 DEF ThreadTypeOK, Threads, Creation, Creator
<1>5. Stopping'
  <2>1. \A e \in Drivers : Stopper(e)'
    BY DEF ThreadTypeOK, Threads, Stopping, Stopper, Asked, ExitCode,
       StopPoints, AskedPoints, Late
  <2> QED BY <2>1 DEF ThreadTypeOK, Stopping, Stopper, StopPoints
<1>6. Late'
  BY DEF ThreadTypeOK, Threads, Late, LatePoints, AskedPoints, Stopping,
     Stopper
<1> QED BY <1>1, <1>2, <1>3, <1>4, <1>5, <1>6

(* The world begins.                                                       *)
LEMMA ProtocolStartFunc ==
    ASSUME TaskInv, Protocol, NEW k \in Kthreads, StartFunc(k)
    PROVE  Protocol'
<1> USE KthreadAssumption, TaskAssumption DEF Protocol, StartFunc, At, Next2,
       threadVars
<1>0. Still
  BY DEF Still, sleepVars
<1> USE <1>0, StillFacts
<1>1. ThreadTypeOK'
  BY DEF ThreadTypeOK, DriverPoints, ThreadPoints
<1>2. Threads'
  BY DEF ThreadTypeOK, Threads, DriverPoints, ThreadPoints, Creation, Late
<1>3. Waiting'
  BY DEF ThreadTypeOK, Threads, Waiting, DriverPoints, ThreadPoints, Creation,
     Creator
<1>4. Creation'
  <2>1. \A j \in Kthreads, e \in Drivers : Creator(e, j)'
    BY DEF ThreadTypeOK, Threads, Waiting, Creation, Creator, StopPoints, Late
  <2> QED BY <2>1 DEF ThreadTypeOK, Threads, Creation, Creator
<1>5. Stopping'
  <2>1. \A e \in Drivers : Stopper(e)'
    BY DEF ThreadTypeOK, Threads, Stopping, Stopper, Asked, ExitCode,
       StopPoints, AskedPoints, Late
  <2> QED BY <2>1 DEF ThreadTypeOK, Stopping, Stopper, StopPoints
<1>6. Late'
  BY DEF ThreadTypeOK, Threads, Late, LatePoints, AskedPoints, Stopping,
     Stopper
<1> QED BY <1>1, <1>2, <1>3, <1>4, <1>5, <1>6

(* The world ends.                                                         *)
LEMMA ProtocolExit ==
    ASSUME TaskInv, Protocol, NEW k \in Kthreads, Exit(k)
    PROVE  Protocol'
<1> USE KthreadAssumption, TaskAssumption DEF Protocol, Exit, At, Next2,
       threadVars
<1>0. Still
  BY DEF Still, sleepVars
<1> USE <1>0, StillFacts
<1>1. ThreadTypeOK'
  BY DEF ThreadTypeOK, DriverPoints, ThreadPoints
<1>2. Threads'
  BY DEF ThreadTypeOK, Threads, DriverPoints, ThreadPoints, Creation, Late
<1>3. Waiting'
  BY DEF ThreadTypeOK, Threads, Waiting, DriverPoints, ThreadPoints, Creation,
     Creator
<1>4. Creation'
  <2>1. \A j \in Kthreads, e \in Drivers : Creator(e, j)'
    BY DEF ThreadTypeOK, Threads, Waiting, Creation, Creator, StopPoints, Late
  <2> QED BY <2>1 DEF ThreadTypeOK, Threads, Creation, Creator
<1>5. Stopping'
  <2>1. \A e \in Drivers : Stopper(e)'
    BY DEF ThreadTypeOK, Threads, Stopping, Stopper, Asked, ExitCode,
       StopPoints, AskedPoints, Late
  <2> QED BY <2>1 DEF ThreadTypeOK, Stopping, Stopper, StopPoints
<1>6. Late'
  BY DEF ThreadTypeOK, Threads, Late, LatePoints, AskedPoints, Stopping,
     Stopper
<1> QED BY <1>1, <1>2, <1>3, <1>4, <1>5, <1>6

(* The first schedule() of the thread.                                     *)
LEMMA ProtocolFirstSleep ==
    ASSUME TaskInv, Protocol, NEW k \in Kthreads, FirstSleep(k)
    PROVE  Protocol'
<1>0. /\ pc \in [Actors -> TaskPoints \cup IrqPoints]
      /\ kind \in [Tasks -> Kinds]
      /\ on \in [Actors -> Completions \cup {None}]
      /\ holder \in [Completions -> Actors \cup {None}]
      /\ taken \in [Completions -> Nat] /\ completed \in [Completions -> Nat]
  BY DEF TaskInv, TaskTypeOK
<1>a. /\ UNCHANGED <<threadVars, completed, taken, holder, on>>
      /\ k \in Tasks \ Drivers /\ at[k] = "announced" /\ kind' = kind
      /\ at' = [at EXCEPT ![k] = "first"] /\ pc' = [pc EXCEPT ![k] = "s_check"]
      /\ on[k] = None
  BY <1>0, KthreadAssumption DEF FirstSleep, At, Next2, StartSleep, Goto,
     SleepPoint, TimedKinds, queueVars, Protocol, Threads, TaskInv, TaskControl,
     TaskAt
<1>b. \A u \in Tasks, c \in Kthreads \cup {Stop} :
         Waits(u, c)' <=> Waits(u, c)
  BY <1>0, <1>a, CallFacts DEF Waits
<1>c. \A e \in Drivers : pc'[e] = pc[e] /\ at'[e] = at[e]
  BY <1>0, <1>a DEF Protocol, ThreadTypeOK
<1> USE <1>0, <1>a, <1>b, <1>c, KthreadAssumption, TaskAssumption
        DEF Protocol, threadVars
<1>1. ThreadTypeOK'
  BY DEF ThreadTypeOK, DriverPoints, ThreadPoints
<1>2. Threads'
  BY DEF ThreadTypeOK, Threads, DriverPoints, ThreadPoints
<1>3. Waiting'
  BY DEF ThreadTypeOK, Threads, Waiting, InCall
<1>4. Creation'
  <2>1. \A j \in Kthreads, e \in Drivers : Creator(e, j)'
    BY DEF ThreadTypeOK, Threads, Waiting, Creation, Creator, StopPoints
  <2> QED BY <2>1 DEF ThreadTypeOK, Threads, Creation, Creator
<1>5. Stopping'
  <2>1. \A e \in Drivers : Stopper(e)'
    BY DEF ThreadTypeOK, Threads, Stopping, Stopper, Asked, ExitCode,
       StopPoints, AskedPoints
  <2> QED BY <2>1 DEF ThreadTypeOK, Stopping, Stopper, StopPoints
<1>6. Late'
  BY DEF ThreadTypeOK, Threads, Late, LatePoints, AskedPoints
<1> QED BY <1>1, <1>2, <1>3, <1>4, <1>5, <1>6

(* The thread completes create.done.                                       *)
LEMMA ProtocolAnnounce ==
    ASSUME TaskInv, Protocol, NEW k \in Kthreads, Announce(k)
    PROVE  Protocol'
<1>0. /\ pc \in [Actors -> TaskPoints \cup IrqPoints]
      /\ kind \in [Tasks -> Kinds]
      /\ on \in [Actors -> Completions \cup {None}]
      /\ holder \in [Completions -> Actors \cup {None}]
      /\ taken \in [Completions -> Nat] /\ completed \in [Completions -> Nat]
  BY DEF TaskInv, TaskTypeOK
<1>a. /\ UNCHANGED <<threadVars, taken, kind>> /\ holder[k] = None
      /\ k \in Tasks \ Drivers /\ at[k] = "started" /\ k # Stop
      /\ at' = [at EXCEPT ![k] = "announced"]
      /\ pc' = [pc EXCEPT ![k] = "k_send"]
      /\ completed' = [completed EXCEPT ![k] = @ + 1]
      /\ holder' = [holder EXCEPT ![k] = k] /\ on' = [on EXCEPT ![k] = k]
      /\ pc[k] = "run"
  BY KthreadAssumption DEF Announce, At, Next2, Complete, LockFree, Goto
<1>b. \A u \in Tasks, c \in Kthreads \cup {Stop} :
         Waits(u, c)' <=> Waits(u, c)
  BY <1>0, <1>a, CallFacts DEF Waits, SleepPoints
<1>c. \A e \in Drivers : pc'[e] = pc[e] /\ at'[e] = at[e]
  BY <1>0, <1>a DEF Protocol, ThreadTypeOK
<1>d. completed[k] = 0 /\ taken[k] = 0 /\ completed'[k] = 1
  <2>1. k \in Completions /\ completed[k] = 0
    BY <1>a, KthreadAssumption DEF Protocol, Creation
  <2> QED BY <1>0, <1>a, <2>1, TakenFacts
<1> USE <1>0, <1>a, <1>b, <1>c, <1>d, KthreadAssumption, TaskAssumption
        DEF Protocol, threadVars
<1>1. ThreadTypeOK'
  BY DEF ThreadTypeOK, DriverPoints, ThreadPoints
<1>2. Threads'
  BY DEF ThreadTypeOK, Threads, DriverPoints, ThreadPoints
<1>3. Waiting'
  BY DEF ThreadTypeOK, Threads, Waiting, InCall
<1>4. Creation'
  <2>1. \A j \in Kthreads, e \in Drivers : Creator(e, j)'
    BY DEF ThreadTypeOK, Threads, Waiting, Creation, Creator, StopPoints
  <2> QED BY <2>1 DEF ThreadTypeOK, Threads, Creation, Creator
<1>5. Stopping'
  <2>1. \A e \in Drivers : Stopper(e)'
    BY DEF ThreadTypeOK, Threads, Stopping, Stopper, Asked, ExitCode,
       StopPoints, AskedPoints
  <2> QED BY <2>1 DEF ThreadTypeOK, Stopping, Stopper, StopPoints
<1>6. Late'
  BY DEF ThreadTypeOK, Threads, Late, LatePoints, AskedPoints
<1> QED BY <1>1, <1>2, <1>3, <1>4, <1>5, <1>6

(* The thread completes kthread_stop_info.done.                            *)
LEMMA ProtocolStopCompletes ==
    ASSUME TaskInv, Protocol, NEW k \in Kthreads, StopCompletes(k)
    PROVE  Protocol'
<1>0. /\ pc \in [Actors -> TaskPoints \cup IrqPoints]
      /\ kind \in [Tasks -> Kinds]
      /\ on \in [Actors -> Completions \cup {None}]
      /\ holder \in [Completions -> Actors \cup {None}]
      /\ taken \in [Completions -> Nat] /\ completed \in [Completions -> Nat]
  BY DEF TaskInv, TaskTypeOK
<1>a. /\ UNCHANGED <<threadVars, taken, kind>> /\ holder[Stop] = None
      /\ k \in Tasks \ Drivers /\ at[k] = "stopped" /\ Stop \notin Kthreads
      /\ Stop \in Completions
      /\ at' = [at EXCEPT ![k] = "leaving"] /\ pc' = [pc EXCEPT ![k] = "k_send"]
      /\ completed' = [completed EXCEPT ![Stop] = @ + 1]
      /\ holder' = [holder EXCEPT ![Stop] = k] /\ on' = [on EXCEPT ![k] = Stop]
      /\ pc[k] = "run"
  BY KthreadAssumption DEF StopCompletes, At, Next2, Complete, LockFree, Goto
<1>b. \A u \in Tasks, c \in Kthreads \cup {Stop} :
         Waits(u, c)' <=> Waits(u, c)
  BY <1>0, <1>a, CallFacts DEF Waits, SleepPoints
<1>c. \A e \in Drivers : pc'[e] = pc[e] /\ at'[e] = at[e]
  BY <1>0, <1>a DEF Protocol, ThreadTypeOK
<1>d. /\ stopK = k /\ stopLock \in Drivers /\ target[stopLock] = k
      /\ at[stopLock] \in AskedPoints /\ stopErr = ExitCode(k)
      /\ completed[Stop] = 0
  BY <1>a, StopKFacts, TaskAssumption DEF Protocol, Late, Stopping, Stopper,
     Asked
<1>e. taken[Stop] = 0 /\ completed'[Stop] = 1
  BY <1>0, <1>a, <1>d, TakenFacts
<1> USE <1>0, <1>a, <1>b, <1>c, <1>d, <1>e, KthreadAssumption, TaskAssumption
        DEF Protocol, threadVars
<1>1. ThreadTypeOK'
  BY DEF ThreadTypeOK, DriverPoints, ThreadPoints
<1>2. Threads'
  BY DEF ThreadTypeOK, Threads, DriverPoints, ThreadPoints
<1>3. Waiting'
  BY DEF ThreadTypeOK, Threads, Waiting, InCall
<1>4. Creation'
  <2>1. \A j \in Kthreads, e \in Drivers : Creator(e, j)'
    BY DEF ThreadTypeOK, Threads, Waiting, Creation, Creator, StopPoints
  <2> QED BY <2>1 DEF ThreadTypeOK, Threads, Creation, Creator
<1>5. Stopping'
  <2>1. \A e \in Drivers : Stopper(e)'
    BY DEF ThreadTypeOK, Threads, Stopping, Stopper, Asked, ExitCode,
       StopPoints, AskedPoints
  <2> QED BY <2>1 DEF ThreadTypeOK, Stopping, Stopper, StopPoints
<1>6. Late'
  BY DEF ThreadTypeOK, Threads, Late, LatePoints, AskedPoints
<1> QED BY <1>1, <1>2, <1>3, <1>4, <1>5, <1>6

(* init_completion(&kthread_stop_info.done).                               *)
LEMMA ProtocolStopInit ==
    ASSUME TaskInv, Protocol, NEW d \in Drivers, StopInit(d)
    PROVE  Protocol'
<1>0. /\ pc \in [Actors -> TaskPoints \cup IrqPoints]
      /\ kind \in [Tasks -> Kinds]
      /\ on \in [Actors -> Completions \cup {None}]
      /\ holder \in [Completions -> Actors \cup {None}]
      /\ taken \in [Completions -> Nat] /\ completed \in [Completions -> Nat]
  BY DEF TaskInv, TaskTypeOK
<1>a. /\ UNCHANGED <<threadVars, kind, on, pc>> /\ at[d] = "stop_init"
      /\ pc[d] = "run" /\ at' = [at EXCEPT ![d] = "stop_set"]
      /\ \A c \in Kthreads : /\ completed'[c] = completed[c]
                             /\ taken'[c] = taken[c] /\ holder'[c] = holder[c]
      /\ completed'[Stop] = 0 /\ taken'[Stop] = 0 /\ holder'[Stop] = None
  BY <1>0, KthreadAssumption DEF StopInit, At, Next2, callVars
<1>b. \A u \in Tasks, c \in Kthreads \cup {Stop} :
         Waits(u, c)' <=> Waits(u, c)
  BY <1>a DEF Waits
<1> USE <1>0, <1>a, <1>b, KthreadAssumption, TaskAssumption
        DEF Protocol, threadVars
<1>1. ThreadTypeOK'
  BY DEF ThreadTypeOK, DriverPoints, ThreadPoints
<1>2. Threads'
  BY DEF ThreadTypeOK, Threads, DriverPoints, ThreadPoints
<1>3. Waiting'
  BY DEF ThreadTypeOK, Threads, Waiting, InCall
<1>4. Creation'
  <2>1. \A j \in Kthreads, e \in Drivers : Creator(e, j)'
    BY DEF ThreadTypeOK, Threads, Waiting, Creation, Creator, StopPoints
  <2> QED BY <2>1 DEF ThreadTypeOK, Threads, Creation, Creator
<1>5. Stopping'
  <2>1. \A e \in Drivers : Stopper(e)'
    BY DEF ThreadTypeOK, Threads, Stopping, Stopper, Asked, ExitCode,
       StopPoints, AskedPoints
  <2> QED BY <2>1 DEF ThreadTypeOK, Stopping, Stopper, StopPoints
<1>6. Late'
  BY DEF ThreadTypeOK, Threads, Late, LatePoints, AskedPoints
<1> QED BY <1>1, <1>2, <1>3, <1>4, <1>5, <1>6

(* kthread_create waits for the thread, or finds it already there.         *)
LEMMA ProtocolCreateWaits ==
    ASSUME TaskInv, Protocol, NEW d \in Drivers, CreateWaits(d)
    PROVE  Protocol'
<1>0. /\ pc \in [Actors -> TaskPoints \cup IrqPoints]
      /\ kind \in [Tasks -> Kinds]
      /\ on \in [Actors -> Completions \cup {None}]
      /\ holder \in [Completions -> Actors \cup {None}]
      /\ taken \in [Completions -> Nat] /\ completed \in [Completions -> Nat]
  BY DEF TaskInv, TaskTypeOK
<1>p. PICK c \in Kthreads \cup {Stop} : c = target[d]
  BY KthreadAssumption DEF CreateWaits, At, Protocol, ThreadTypeOK, Threads
<1>a. /\ UNCHANGED <<threadVars, completed, holder>> /\ at[d] = "creating"
      /\ at' = [at EXCEPT ![d] = "created"] /\ holder[c] = None
      /\ d \in Tasks /\ c \in Completions /\ c # None /\ Stop \notin Kthreads
      /\ pc[d] = "run" /\ on[d] = None
  BY <1>p, KthreadAssumption, CallFacts DEF CreateWaits, At, WaitFor, Next2,
     WaitTakes, WaitQueues, LockFree, TaskInv, TaskControl, TaskAt
<1>b. \/ /\ taken' = [taken EXCEPT ![c] = @ + 1]
         /\ UNCHANGED <<kind, on, pc>>
      \/ /\ taken' = taken /\ kind' = [kind EXCEPT ![d] = "wait"]
         /\ on' = [on EXCEPT ![d] = c] /\ pc' = [pc EXCEPT ![d] = "s_check"]
  BY <1>p DEF CreateWaits, WaitFor, WaitTakes, WaitQueues, Take, callVars,
     Goto, SleepPoint, TimedKinds
<1>c. /\ \A u \in Tasks, e \in Kthreads \cup {Stop} :
             u # d => (Waits(u, e)' <=> Waits(u, e))
      /\ \A e \in Kthreads \cup {Stop} : ~ Waits(d, e)
      /\ pc'[d] # "run" =>
             \A e \in Kthreads \cup {Stop} : Waits(d, e)' <=> e = c
      /\ pc'[d] = "run" => \A e \in Kthreads \cup {Stop} : ~ Waits(d, e)'
  BY <1>0, <1>a, <1>b DEF Waits, SleepPoints
<1>d. /\ \A u \in Tasks \ {d} : 
             at'[u] = at[u] /\ pc'[u] = pc[u] /\ kind'[u] = kind[u]
      /\ \A e \in Completions \ {c} : taken'[e] = taken[e]
      /\ taken[c] \in Nat /\ at'[d] = "created"
      /\ \/ taken'[c] = taken[c] + 1 /\ pc'[d] = "run"
         \/ taken'[c] = taken[c] /\ pc'[d] # "run" /\ kind'[d] = "wait"
  BY <1>0, <1>a, <1>b DEF Protocol, ThreadTypeOK
<1> USE <1>p, <1>a, <1>c, <1>d, KthreadAssumption, TaskAssumption
        DEF Protocol, threadVars
<1>1. ThreadTypeOK'
  BY DEF ThreadTypeOK, DriverPoints, ThreadPoints
<1>2. Threads'
  BY DEF ThreadTypeOK, Threads, DriverPoints, ThreadPoints
<1>3. Waiting'
  BY DEF ThreadTypeOK, Threads, Waiting, InCall
<1>4. Creation'
  <2>1. \A j \in Kthreads, e \in Drivers : Creator(e, j)'
    BY DEF ThreadTypeOK, Threads, Waiting, Creation, Creator, StopPoints
  <2> QED BY <2>1 DEF ThreadTypeOK, Threads, Creation, Creator
<1>5. Stopping'
  <2>1. \A e \in Drivers : Stopper(e)'
    BY DEF ThreadTypeOK, Threads, Stopping, Stopper, Asked, ExitCode,
       StopPoints, AskedPoints
  <2> QED BY <2>1 DEF ThreadTypeOK, Stopping, Stopper, StopPoints
<1>6. Late'
  BY DEF ThreadTypeOK, Threads, Late, LatePoints, AskedPoints
<1> QED BY <1>1, <1>2, <1>3, <1>4, <1>5, <1>6

(* kthread_stop waits for the thread, or finds it already gone.            *)
LEMMA ProtocolStopWaits ==
    ASSUME TaskInv, Protocol, NEW d \in Drivers, StopWaits(d)
    PROVE  Protocol'
<1>0. /\ pc \in [Actors -> TaskPoints \cup IrqPoints]
      /\ kind \in [Tasks -> Kinds]
      /\ on \in [Actors -> Completions \cup {None}]
      /\ holder \in [Completions -> Actors \cup {None}]
      /\ taken \in [Completions -> Nat] /\ completed \in [Completions -> Nat]
  BY DEF TaskInv, TaskTypeOK
<1>p. PICK c \in Kthreads \cup {Stop} : c = Stop
  BY KthreadAssumption DEF StopWaits, At, Protocol, ThreadTypeOK, Threads
<1>a. /\ UNCHANGED <<threadVars, completed, holder>> /\ at[d] = "stop_wait"
      /\ at' = [at EXCEPT ![d] = "stop_end"] /\ holder[c] = None
      /\ d \in Tasks /\ c \in Completions /\ c # None /\ Stop \notin Kthreads
      /\ pc[d] = "run" /\ on[d] = None
  BY <1>p, KthreadAssumption, CallFacts DEF StopWaits, At, WaitFor, Next2,
     WaitTakes, WaitQueues, LockFree, TaskInv, TaskControl, TaskAt
<1>b. \/ /\ taken' = [taken EXCEPT ![c] = @ + 1]
         /\ UNCHANGED <<kind, on, pc>>
      \/ /\ taken' = taken /\ kind' = [kind EXCEPT ![d] = "wait"]
         /\ on' = [on EXCEPT ![d] = c] /\ pc' = [pc EXCEPT ![d] = "s_check"]
  BY <1>p DEF StopWaits, WaitFor, WaitTakes, WaitQueues, Take, callVars, Goto,
     SleepPoint, TimedKinds
<1>c. /\ \A u \in Tasks, e \in Kthreads \cup {Stop} :
             u # d => (Waits(u, e)' <=> Waits(u, e))
      /\ \A e \in Kthreads \cup {Stop} : ~ Waits(d, e)
      /\ pc'[d] # "run" =>
             \A e \in Kthreads \cup {Stop} : Waits(d, e)' <=> e = c
      /\ pc'[d] = "run" => \A e \in Kthreads \cup {Stop} : ~ Waits(d, e)'
  BY <1>0, <1>a, <1>b DEF Waits, SleepPoints
<1>d. /\ \A u \in Tasks \ {d} : 
             at'[u] = at[u] /\ pc'[u] = pc[u] /\ kind'[u] = kind[u]
      /\ \A e \in Completions \ {c} : taken'[e] = taken[e]
      /\ taken[c] \in Nat /\ at'[d] = "stop_end"
      /\ \/ taken'[c] = taken[c] + 1 /\ pc'[d] = "run"
         \/ taken'[c] = taken[c] /\ pc'[d] # "run" /\ kind'[d] = "wait"
  BY <1>0, <1>a, <1>b DEF Protocol, ThreadTypeOK
<1> USE <1>p, <1>a, <1>c, <1>d, KthreadAssumption, TaskAssumption
        DEF Protocol, threadVars
<1>1. ThreadTypeOK'
  BY DEF ThreadTypeOK, DriverPoints, ThreadPoints
<1>2. Threads'
  BY DEF ThreadTypeOK, Threads, DriverPoints, ThreadPoints
<1>3. Waiting'
  BY DEF ThreadTypeOK, Threads, Waiting, InCall
<1>4. Creation'
  <2>1. \A j \in Kthreads, e \in Drivers : Creator(e, j)'
    BY DEF ThreadTypeOK, Threads, Waiting, Creation, Creator, StopPoints
  <2> QED BY <2>1 DEF ThreadTypeOK, Threads, Creation, Creator
<1>5. Stopping'
  <2>1. \A e \in Drivers : Stopper(e)'
    BY DEF ThreadTypeOK, Threads, Stopping, Stopper, Asked, ExitCode,
       StopPoints, AskedPoints
  <2> QED BY <2>1 DEF ThreadTypeOK, Stopping, Stopper, StopPoints
<1>6. Late'
  BY DEF ThreadTypeOK, Threads, Late, LatePoints, AskedPoints
<1> QED BY <1>1, <1>2, <1>3, <1>4, <1>5, <1>6

(* The wait of the creator or of the stopper ends.                         *)
LEMMA ProtocolWaitEnds ==
    ASSUME TaskInv, Protocol, NEW t \in Tasks, WaitEnds(t),
           on[t] \in Kthreads \cup {Stop}, Kept
    PROVE  Protocol'
<1>0. /\ pc \in [Actors -> TaskPoints \cup IrqPoints]
      /\ kind \in [Tasks -> Kinds]
      /\ on \in [Actors -> Completions \cup {None}]
      /\ holder \in [Completions -> Actors \cup {None}]
      /\ taken \in [Completions -> Nat] /\ completed \in [Completions -> Nat]
  BY DEF TaskInv, TaskTypeOK
<1>p. PICK c \in Kthreads \cup {Stop} : c = on[t]
  OBVIOUS
<1>a. /\ UNCHANGED <<threadVars, at, completed, holder, kind>>
      /\ holder[c] = None
      /\ c \in Completions /\ c # None /\ Stop \notin Kthreads
      /\ taken' = [taken EXCEPT ![c] = @ + 1]
      /\ on' = [on EXCEPT ![t] = None] /\ pc' = [pc EXCEPT ![t] = "run"]
      /\ Waits(t, c)
  BY <1>p, KthreadAssumption, CallFacts DEF WaitEnds, Take, Leave, Goto,
     LockFree, Kept, Waits
<1>b. /\ t \in Drivers
      /\ c \in Kthreads => at[t] = "created" /\ target[t] = c
      /\ c = Stop => at[t] = "stop_end"
  BY <1>a DEF Protocol, Waiting
<1>c. /\ \A u \in Tasks, e \in Kthreads \cup {Stop} :
             u # t => (Waits(u, e)' <=> Waits(u, e))
      /\ \A e \in Kthreads \cup {Stop} : ~ Waits(t, e)'
  BY <1>0, <1>a DEF Waits, SleepPoints
<1>d. /\ \A u \in Tasks \ {t} : pc'[u] = pc[u]
      /\ \A e \in Completions \ {c} : taken'[e] = taken[e]
      /\ taken[c] \in Nat /\ taken'[c] = taken[c] + 1 /\ pc'[t] = "run"
  BY <1>0, <1>a
<1> USE <1>a, <1>b, <1>c, <1>d, KthreadAssumption, TaskAssumption
        DEF Protocol, threadVars
<1>1. ThreadTypeOK'
  BY DEF ThreadTypeOK, DriverPoints, ThreadPoints
<1>2. Threads'
  BY DEF ThreadTypeOK, Threads, DriverPoints, ThreadPoints
<1>3. Waiting'
  BY DEF ThreadTypeOK, Threads, Waiting, InCall
<1>4. Creation'
  <2>1. \A j \in Kthreads, e \in Drivers : Creator(e, j)'
    BY DEF ThreadTypeOK, Threads, Waiting, Creation, Creator, StopPoints
  <2> QED BY <2>1 DEF ThreadTypeOK, Threads, Creation, Creator
<1>5. Stopping'
  <2>1. \A e \in Drivers : Stopper(e)'
    BY DEF ThreadTypeOK, Threads, Stopping, Stopper, Asked, ExitCode,
       StopPoints, AskedPoints
  <2> QED BY <2>1 DEF ThreadTypeOK, Stopping, Stopper, StopPoints
<1>6. Late'
  BY DEF ThreadTypeOK, Threads, Late, LatePoints, AskedPoints
<1> QED BY <1>1, <1>2, <1>3, <1>4, <1>5, <1>6

-----------------------------------------------------------------------------
(* The invariant                                                           *)

KthreadInv == TaskInv /\ Protocol

LEMMA KthreadInit ==
    ASSUME Init
    PROVE  KthreadInv
<1> USE KthreadAssumption, TaskAssumption DEF Init, SleepInit
<1>1. TaskInv
  BY TaskInvInit
<1>2. ThreadTypeOK /\ Threads
  BY DEF ThreadTypeOK, Threads, DriverPoints, ThreadPoints
<1>3. Waiting
  BY DEF Waiting, Waits, SleepPoints
<1>4. Creation
  BY DEF Creation, Creator, StopPoints
<1>5. Stopping /\ Late
  BY DEF Stopping, Stopper, Late, LatePoints, StopPoints, AskedPoints
<1> QED BY <1>1, <1>2, <1>3, <1>4, <1>5 DEF KthreadInv, Protocol

(* init_completion finds nobody on the list and the lock free.             *)
LEMMA StopInitFacts ==
    ASSUME KthreadInv, NEW d \in Drivers, at[d] = "stop_init"
    PROVE  Stop \in Completions /\ holder[Stop] = None /\ queue[Stop] = <<>>
<1> USE DEF KthreadInv, Protocol
<1>1. Stop \in Completions /\ holder[Stop] = None /\ stopLock = d
  BY KthreadAssumption DEF Stopping, Stopper, StopPoints
<1>2. \A t \in Tasks : ~ Waits(t, Stop)
  BY <1>1 DEF Waiting, Stopping, Stopper, StopPoints
<1>3. queue[Stop] \in Seq(Tasks)
  BY <1>1 DEF TaskInv, TaskTypeOK
<1>4. \A i \in DOMAIN queue[Stop] : queue[Stop][i] \in Tasks
  BY <1>3
<1>5. DOMAIN queue[Stop] = {}
  BY <1>1, <1>2, <1>4 DEF TaskInv, Queues
<1>6. \A s \in Seq(Tasks) : DOMAIN s = {} => s = <<>>
  <2> SUFFICES ASSUME NEW s \in Seq(Tasks), DOMAIN s = {}
               PROVE  s = <<>>
    OBVIOUS
  <2>1. Len(s) \in Nat /\ DOMAIN s = 1..Len(s)
    OBVIOUS
  <2>2. Len(s) = 0
    BY <2>1
  <2> QED BY <2>2
<1> QED BY <1>1, <1>3, <1>5, <1>6

(* A step of a call in progress.                                           *)
LEMMA ProgressStep ==
    ASSUME KthreadInv, Progress, Kept
    PROVE  KthreadInv'
<1> USE DEF KthreadInv
<1>1. ASSUME NEW t \in Tasks,
             \/ ArmTimer(t) \/ Schedule(t) \/ WaitEvent(t) \/ Woken(t)
             \/ SpuriousWakeup(t) \/ ScheduleReturns(t) \/ TimeoutReturns(t)
             \/ TimerFires(t) \/ Expire(t)
      PROVE  KthreadInv'
  BY <1>1, QuietSleep, ProtocolQuiet, TaskInvSleep DEF SleepOp
<1>2. ASSUME NEW t \in Tasks,
             \/ WaitTimesOut(t) \/ WaitInterrupted(t) \/ WaitAgain(t)
             \/ WaitEnds(t) /\ on[t] \notin Kthreads \cup {Stop}
      PROVE  KthreadInv'
  BY <1>2, QuietWaitStep, ProtocolQuiet, TaskInvWait DEF WaitOp
<1>3. ASSUME NEW t \in Tasks, WaitEnds(t), on[t] \in Kthreads \cup {Stop}
      PROVE  KthreadInv'
  BY <1>3, ProtocolWaitEnds, TaskInvWait DEF WaitOp
<1>4. ASSUME NEW a \in Actors,
             CompleteWakes(a) \/ (a \in Irqs /\ SignalWakes(a))
      PROVE  KthreadInv'
  BY <1>4, QuietWake, ProtocolQuiet, TaskInvWake DEF WakeOp
<1> QED BY <1>1, <1>2, <1>3, <1>4 DEF Progress, TaskStep, ClockStep, IrqStep

(* A call that begins, an interrupt, or what a driver does between calls.  *)
LEMMA CallBegins ==
    ASSUME KthreadInv, Call
    PROVE  KthreadInv'
<1> USE DEF KthreadInv
<1>1. ASSUME NEW d \in Drivers, NEW k \in Kthreads, KthreadCreate(d, k)
      PROVE  KthreadInv'
  <2>1. k \in Tasks /\ pc[k] = "run" /\ state' \in [Tasks -> States]
        /\ \A u \in Tasks \ {k} : state'[u] = state[u]
    BY <1>1, KthreadAssumption DEF KthreadCreate, Protocol, Threads, TaskInv,
       TaskTypeOK, States
  <2>2. TaskInv'
    BY <1>1, <2>1, TaskInvRuns DEF KthreadCreate
  <2> QED BY <1>1, <2>2, ProtocolKthreadCreate
<1>2. ASSUME NEW d \in Drivers, NEW k \in Kthreads, KthreadStop(d, k)
      PROVE  KthreadInv'
  BY <1>2, ProtocolStops, TaskInvSame DEF KthreadStop
<1>3. ASSUME NEW k \in Kthreads, WakeThread(k)
      PROVE  KthreadInv'
  <2>1. k \in Tasks /\ WakeUpProcess(k) /\ Kept
    BY <1>3, KthreadAssumption DEF WakeThread, Kept, threadVars
  <2> QED BY <2>1, QuietSleep, ProtocolQuiet, TaskInvSleep DEF SleepOp
<1>4. ASSUME NEW d \in Drivers, NEW c \in Waited, NEW k \in WaitKinds,
             DriverWait(d, c, k)
      PROVE  KthreadInv'
  <2>1. /\ WaitTakes(d, c) \/ WaitQueues(d, c, k)
        /\ at[d] = "idle" /\ Kept /\ c \in Completions
    BY <1>4, KthreadAssumption DEF DriverWait, Kept, At
  <2> QED BY <2>1, QuietWait, ProtocolQuiet, TaskInvWait DEF WaitOp
<1>5. ASSUME NEW d \in Drivers, DriverSleep(d)
      PROVE  KthreadInv'
  <2>1. /\ StartSleep(d, "msleep") /\ at[d] = "idle" /\ Kept
        /\ "msleep" \in Kinds \ WaitKinds
    BY <1>5 DEF DriverSleep, Kept, At, Kinds, WaitKinds
  <2>2. TaskInv'
    BY <2>1, TaskInvSleep DEF SleepOp
  <2>3. Quiet
    BY <2>1, QuietStart
  <2> QED BY <2>1, <2>2, <2>3, ProtocolQuiet
<1>6. ASSUME NEW d \in Drivers, IrqWakes(d)
      PROVE  KthreadInv'
  <2>1. WakeUpProcess(d) /\ Kept
    BY <1>6 DEF IrqWakes, Kept
  <2> QED BY <2>1, QuietSleep, ProtocolQuiet, TaskInvSleep DEF SleepOp
<1>7. ASSUME NEW i \in Irqs, NEW c \in Waited, IrqCompletes(i, c)
      PROVE  KthreadInv'
  <2>1. Complete(i, c) /\ Kept /\ c \in Completions
    BY <1>7, KthreadAssumption DEF IrqCompletes, Kept
  <2>2. Quiet
    BY <2>1, QuietWake
  <2>3. TaskInv'
    BY <2>1, TaskInvWake DEF WakeOp
  <2> QED BY <2>1, <2>2, <2>3, ProtocolQuiet
<1>8. ASSUME NEW i \in Irqs, NEW t \in Signalled, IrqSignals(i, t)
      PROVE  KthreadInv'
  <2>1. SendSignal(i, t) /\ Kept /\ t \in Tasks
    BY <1>8, KthreadAssumption DEF IrqSignals, Kept
  <2>2. Quiet
    BY <2>1, QuietWake
  <2>3. TaskInv'
    BY <2>1, TaskInvWake DEF WakeOp
  <2> QED BY <2>1, <2>2, <2>3, ProtocolQuiet
<1>9. ASSUME NEW t \in Tasks, TaskFlushes(t)
      PROVE  KthreadInv'
  <2>1. FlushSignals(t) /\ Kept
    BY <1>9 DEF TaskFlushes, Kept
  <2> QED BY <2>1, QuietSleep, ProtocolQuiet, TaskInvSleep DEF SleepOp
<1> QED BY <1>1, <1>2, <1>3, <1>4, <1>5, <1>6, <1>7, <1>8, <1>9 DEF Call

(* A further step of kthread_create or kthread_stop.                       *)
LEMMA CallGoesOn ==
    ASSUME KthreadInv, NEW d \in Drivers, CallStep(d)
    PROVE  KthreadInv'
<1> USE DEF KthreadInv
<1>1. CASE CreateWaits(d)
  <2>1. target[d] \in Completions
    BY <1>1, KthreadAssumption DEF CreateWaits, At, Protocol, Threads,
       ThreadTypeOK
  <2>2. WaitOp(d)
    BY <1>1, <2>1 DEF CreateWaits, WaitFor, WaitOp, WaitKinds
  <2> QED BY <1>1, <2>2, ProtocolCreateWaits, TaskInvWait
<1>2. CASE CreateReturns(d)
  BY <1>2, ProtocolCreateReturns, TaskInvSame DEF CreateReturns
<1>3. CASE StopInit(d)
  <2>1. Stop \in Completions /\ holder[Stop] = None /\ queue[Stop] = <<>>
    BY <1>3, StopInitFacts DEF StopInit, At
  <2>2. TaskInv'
    BY <1>3, <2>1, TaskInvReset DEF StopInit
  <2> QED BY <1>3, <2>2, ProtocolStopInit
<1>4. CASE StopSet(d)
  BY <1>4, ProtocolStopSet, TaskInvSame DEF StopSet
<1>5. CASE StopWake(d)
  <2>1. target[d] \in Tasks
    BY <1>5, KthreadAssumption DEF StopWake, At, Protocol, Threads,
       ThreadTypeOK
  <2>2. WakeUpProcess(target[d]) \/ UNCHANGED sleepVars
    BY <1>5 DEF StopWake
  <2>3. TaskInv'
    BY <2>1, <2>2, TaskInvSleep, TaskInvSame DEF SleepOp
  <2> QED BY <1>5, <2>3, ProtocolStopWake
<1>6. CASE StopWaits(d)
  <2>1. WaitOp(d)
    BY <1>6, KthreadAssumption DEF StopWaits, WaitFor, WaitOp, WaitKinds
  <2> QED BY <1>6, <2>1, ProtocolStopWaits, TaskInvWait
<1>7. CASE StopReturns(d)
  BY <1>7, ProtocolStopReturns, TaskInvSame DEF StopReturns
<1> QED BY <1>1, <1>2, <1>3, <1>4, <1>5, <1>6, <1>7 DEF CallStep

(* A step of a thread.                                                     *)
LEMMA ThreadGoesOn ==
    ASSUME KthreadInv, NEW k \in Kthreads, ThreadStep(k)
    PROVE  KthreadInv'
<1> USE DEF KthreadInv
<1>0. /\ k \in Tasks /\ k \in Completions /\ Stop \in Completions
      /\ "schedule" \in Kinds \ WaitKinds
  BY KthreadAssumption DEF Kinds, WaitKinds
<1>1. CASE StartFunc(k)
  <2>1. pc[k] = "run" /\ state' \in [Tasks -> States]
        /\ \A u \in Tasks \ {k} : state'[u] = state[u]
    BY <1>0, <1>1 DEF StartFunc, At, TaskInv, TaskTypeOK, States
  <2>2. TaskInv'
    BY <1>0, <1>1, <2>1, TaskInvRuns DEF StartFunc
  <2> QED BY <1>1, <2>2, ProtocolStartFunc
<1>2. CASE Announce(k)
  BY <1>0, <1>2, ProtocolAnnounce, TaskInvWake DEF Announce, WakeOp
<1>3. CASE FirstSleep(k)
  BY <1>0, <1>3, ProtocolFirstSleep, TaskInvSleep DEF FirstSleep, SleepOp
<1>4. CASE FirstCheck(k)
  BY <1>4, ProtocolFirstCheck, TaskInvSame DEF FirstCheck
<1>5. CASE FnSleeps(k)
  <2>1. StartSleep(k, "schedule") /\ at[k] = "fn" /\ Kept
    BY <1>5 DEF FnSleeps, At, Kept
  <2>2. Quiet
    BY <1>0, <2>1, QuietStart
  <2>3. TaskInv'
    BY <1>0, <2>1, TaskInvSleep DEF SleepOp
  <2> QED BY <2>1, <2>2, <2>3, ProtocolQuiet
<1>6. CASE FnReturns(k)
  BY <1>6, ProtocolFnReturns, TaskInvSame DEF FnReturns
<1>7. CASE LastCheck(k)
  BY <1>7, ProtocolLastCheck, TaskInvSame DEF LastCheck
<1>8. CASE SetErr(k)
  BY <1>8, ProtocolSetErr, TaskInvSame DEF SetErr
<1>9. CASE StopCompletes(k)
  BY <1>0, <1>9, ProtocolStopCompletes, TaskInvWake DEF StopCompletes, WakeOp
<1>10. CASE Exit(k)
  <2>1. pc[k] = "run" /\ state' \in [Tasks -> States] /\ state' = state
    BY <1>10 DEF Exit, At, TaskInv, TaskTypeOK
  <2>2. TaskInv'
    BY <1>0, <1>10, <2>1, TaskInvRuns DEF Exit
  <2> QED BY <1>10, <2>2, ProtocolExit
<1> QED BY <1>1, <1>2, <1>3, <1>4, <1>5, <1>6, <1>7, <1>8, <1>9, <1>10
        DEF ThreadStep

(* Init and every step of Kthread keep the invariant, whatever the number  *)
(* of drivers, threads and interrupts.                                     *)
THEOREM KthreadInvariant == Spec => []KthreadInv
<1>1. Init => KthreadInv
  BY KthreadInit
<1>2. KthreadInv /\ [Next]_vars => KthreadInv'
  <2> SUFFICES ASSUME KthreadInv, [Next]_vars
               PROVE  KthreadInv'
    OBVIOUS
  <2>1. CASE Next
    BY <2>1, CallBegins, CallGoesOn, ThreadGoesOn, ProgressStep DEF Next, Kept
  <2>2. CASE UNCHANGED vars
    <3>1. UNCHANGED sleepVars /\ Kept /\ Still
      BY <2>2 DEF vars, Kept, Still, sleepVars
    <3>2. TaskInv'
      BY <3>1, TaskInvSame DEF KthreadInv
    <3>3. Quiet
      BY <3>1, StillFacts, KthreadAssumption
         DEF Quiet, KthreadInv, Protocol, Threads
    <3> QED BY <3>1, <3>2, <3>3, ProtocolQuiet DEF KthreadInv
  <2> QED BY <2>1, <2>2
<1> QED BY <1>1, <1>2, PTL DEF Spec

(* Every variable of linux_kthread.c, linux_task.c and linux_waitqueue.c   *)
(* keeps its type.                                                         *)
THEOREM KthreadTypeCorrect == Spec => []TypeOK
<1>1. KthreadInv => TypeOK
  BY DEF KthreadInv, TaskInv, Protocol, ThreadTypeOK, TypeOK
<1> QED BY <1>1, KthreadInvariant, PTL

(* No complete() of a driver, a thread or an interrupt is lost or taken    *)
(* twice.                                                                  *)
THEOREM CompletionsConservedHolds == Spec => []CompletionsConserved
<1>1. KthreadInv => CompletionsConserved
  BY DEF KthreadInv, TaskInv
<1> QED BY <1>1, KthreadInvariant, PTL

(* The waiter of a completion with a single waiter never sleeps on once    *)
(* complete() is through, whatever stale events, spurious returns of       *)
(* vmk_WorldWaitIRQ, early timers and signals it meets.                    *)
THEOREM NoLostWakeupHolds == Spec => []NoLostWakeup
<1>1. KthreadInv => NoLostWakeup
  BY TaskInvNoLostWakeup DEF KthreadInv
<1> QED BY <1>1, KthreadInvariant, PTL

(* kthread_create does not return from under the complete() of its thread, *)
(* and kthread_stop_info.done is not initialised inside one.               *)
THEOREM StorageAliveHolds == Spec => []StorageAlive
<1>1. KthreadInv => StorageAlive
  <2> SUFFICES ASSUME KthreadInv PROVE StorageAlive
    OBVIOUS
  <2>1. ASSUME NEW k \in Kthreads, holder[k] # None
        PROVE  \E d \in Drivers : /\ target[d] = k
                                  /\ \/ at[d] = "creating"
                                     \/ at[d] = "created" /\ pc[d] # "run"
    <3>1. taken[k] = 0 /\ at[k] # "none"
      BY <2>1 DEF KthreadInv, Protocol, Creation
    <3>2. PICK d \in Drivers :
             target[d] = k /\ at[d] \in {"creating", "created"}
      BY <3>1 DEF KthreadInv, Protocol, Creation
    <3>3. at[d] = "created" => pc[d] # "run"
      BY <3>1, <3>2 DEF KthreadInv, Protocol, Creation, Creator
    <3> QED BY <3>2, <3>3
  <2> QED BY <2>1, StopInitFacts DEF StorageAlive
<1> QED BY <1>1, KthreadInvariant, PTL

(* kthread_create hands out a thread that has set its pid.                 *)
THEOREM HandedOutStartedHolds == Spec => []HandedOutStarted
<1>1. KthreadInv => HandedOutStarted
  <2> SUFFICES ASSUME KthreadInv, NEW k \in known
               PROVE  at[k] \notin {"none", "new", "started"}
    BY DEF HandedOutStarted
  <2>1. k \in Kthreads /\ taken[k] > 0
    BY DEF KthreadInv, Protocol, ThreadTypeOK, Creation
  <2>2. completed[k] # 0
    BY <2>1, TakenFacts DEF KthreadInv
  <2> QED BY <2>1, <2>2 DEF KthreadInv, Protocol, Creation
<1> QED BY <1>1, KthreadInvariant, PTL

(* kthread_stop returns what its own thread returned, after the thread is  *)
(* out of its function, however many drivers stop threads at once.         *)
THEOREM StopResultHolds == Spec => []StopResult
<1>1. KthreadInv => StopResult
  BY StopEndFacts DEF KthreadInv, StopResult
<1> QED BY <1>1, KthreadInvariant, PTL
=============================================================================
