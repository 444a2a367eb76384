----------------------------- MODULE WorkQueue -----------------------------
(***************************************************************************)
(* One vmklinux work queue (vmklinux26/vmware/linux_workqueue.c): the      *)
(* workqueue_struct, the work items queued on it, the driver worlds that   *)
(* queue, cancel, flush and destroy, the vmk_Helper worlds that run        *)
(* vmklnx_workqueue_callout, and the contexts that run expired timers.     *)
(*                                                                         *)
(* The code multiplexes every Linux work queue over one pool of helper     *)
(* worlds.  A queue posts requests to the pool (curPosted), each request   *)
(* takes one item off the queue, and a fixed set of trackers remembers     *)
(* which items are executing so that cancel_work_sync and flush_workqueue  *)
(* can wait for them.                                                      *)
(*                                                                         *)
(* Grain: a section under wqLock is one action; every atomic bit operation *)
(* and every call outside the lock is an action of its own.  pc[a] names   *)
(* the point actor a has reached:                                          *)
(*   q_add    owns the PENDING bit of arg[a], about to enter __queue_work  *)
(*   qd_arm   owns the PENDING bit of arg[a], about to call add_timer      *)
(*   d_submit, d_next, d_unpost, d_timer: inside vmklnx_workqueue_dispatch *)
(*   h_clear, h_func, h_compl, h_fin: inside vmklnx_workqueue_callout      *)
(*   t_lock, t_ret: the delayTimer callback; a timer callback returning    *)
(*   c_try, c_del, c_lock, c_sleep, c_clear: vmklnx_cancel_work_sync       *)
(*   ct_del, ct_clear: cancel_delayed_work                                 *)
(*   f_lock, f_wait, f_drain, f_sleep, f_unlock: flush_workqueue           *)
(*   x_wait, x_sleep, x_del, x_free: destroy_workqueue after its flush     *)
(***************************************************************************)
EXTENDS Integers, SequencesExt, FiniteSets

CONSTANTS
    Works,          \* work_structs (each may be queued directly or delayed)
    Rearm,          \* the works whose callback may queue its own work again
    Plunger,        \* the dummy item flush_workqueue sends down the queue
    Drivers,        \* worlds that call the workqueue interface
    Helpers,        \* vmk_Helper worlds
    Timers,         \* contexts in which expired timers run
    MaxDispatch,    \* wqPtr->maxDispatch: 1, or the number of helper worlds
    Ops,            \* the calls the drivers make
    SubmitMayFail,  \* whether vmk_HelperSubmitRequest may refuse a request
    None            \* no item, no world

AllOps == {"queue", "queue_delayed", "cancel_sync", "cancel_delayed_sync",
           "cancel_delayed", "flush", "destroy"}

Items  == Works \cup {Plunger}
Actors == Drivers \cup Helpers \cup Timers

ASSUME WorksAssumption ==
    /\ IsFiniteSet(Works)
    /\ Plunger \notin Works
    /\ None \notin Items
    /\ Rearm \subseteq Works

ASSUME ActorsAssumption ==
    /\ IsFiniteSet(Drivers) /\ IsFiniteSet(Helpers) /\ IsFiniteSet(Timers)
    /\ Drivers \cap Helpers = {}
    /\ Drivers \cap Timers = {}
    /\ Helpers \cap Timers = {}
    /\ None \notin Actors
    /\ Items \cap Actors = {}     \* flushDebt holds queued items and helpers
    /\ {"idle", "armed"} \cap Timers = {}

ASSUME ParameterAssumption ==
    /\ MaxDispatch \in Nat \ {0}
    /\ Ops \subseteq AllOps
    /\ SubmitMayFail \in BOOLEAN

VARIABLES
    head,           \* queued items, oldest first
    qLen,           \* the code's own count of head
    curPosted,      \* requests posted to the vmk_Helper
    curDispatch,    \* items executing
    trackList,      \* helpers that hold a tracker linked on trackList
    trackFlushList, \* helpers that hold a tracker linked on trackFlushList
    trackFree,      \* trackers linked on trackFree
    waiting,        \* the code's count of cancel/flush waiters
    sleepers,       \* worlds asleep in vmk_WorldWaitIRQ(&wqPtr->waiting)
    pending,        \* items whose __WORK_PENDING bit is set
    wqData,         \* works whose wq_data points to this queue
    timer,          \* per work: "idle", "armed", or the context that runs it
    delayTimer,     \* the retry timer of the queue, likewise
    submitted,      \* requests the vmk_Helper holds and has not started
    flushOwner,     \* holder of flushMutex
    done,           \* the plunger's completion
    flushDebt,      \* history: what the flush in progress has to wait for
    destroyer,      \* the world that set setExitFlag
    freed,          \* the workqueue_struct has been freed
    pc, arg,        \* control point of each actor and the item it works on
    withTimer,      \* cancellers that were given the timer too
    grabbed         \* cancellers that hold the PENDING bit of their work

queueVars == <<head, qLen, curPosted, curDispatch, trackList, trackFlushList,
               trackFree>>
sleepVars == <<waiting, sleepers>>
itemVars  == <<pending, wqData>>
timerVars == <<timer, delayTimer>>
flushVars == <<flushOwner, done, flushDebt>>
lifeVars  == <<destroyer, freed>>
callVars  == <<withTimer, grabbed>>
vars == <<queueVars, sleepVars, itemVars, timerVars, submitted, flushVars,
          lifeVars, pc, arg, callVars>>

DriverPoints == {"idle", "q_add", "qd_arm", "d_submit", "d_next", "d_unpost",
                 "d_timer", "c_try", "c_del", "c_lock", "c_sleep", "c_clear",
                 "ct_del", "ct_clear", "f_lock", "f_wait", "f_drain",
                 "f_sleep", "f_unlock", "x_wait", "x_sleep", "x_del", "x_free"}
HelperPoints == {"idle", "h_clear", "h_func", "h_compl", "h_fin", "q_add",
                 "qd_arm", "d_submit", "d_next", "d_unpost", "d_timer"}
TimerPoints  == {"idle", "q_add", "t_lock", "d_submit", "d_next", "d_unpost",
                 "d_timer", "t_ret"}

-----------------------------------------------------------------------------
(* __create_workqueue: an empty queue, every tracker free, no timer set.   *)
Init ==
    /\ head = <<>> /\ qLen = 0 /\ curPosted = 0 /\ curDispatch = 0
    /\ trackList = {} /\ trackFlushList = {} /\ trackFree = MaxDispatch
    /\ waiting = 0 /\ sleepers = {}
    /\ pending = {} /\ wqData = {}
    /\ timer = [w \in Works |-> "idle"] /\ delayTimer = "idle"
    /\ submitted = 0
    /\ flushOwner = None /\ done = FALSE /\ flushDebt = {}
    /\ destroyer = None /\ freed = FALSE
    /\ pc = [a \in Actors |-> "idle"] /\ arg = [a \in Actors |-> None]
    /\ withTimer = {} /\ grabbed = {}

Goto(a, point) == pc' = [pc EXCEPT ![a] = point]

(* The trackers in use: the helpers inside a callout that took an item.    *)
Tracked == trackList \cup trackFlushList

(* Mutant: the second scan, of trackFlushList, is left out.                *)
ExecutingOneList(w) == \E h \in trackList : arg[h] = w

(* The scan of both track lists for a tracker whose executing is w.        *)
Executing(w) == \E h \in Tracked : arg[h] = w

-----------------------------------------------------------------------------
(* vmklnx_workqueue_dispatch                                               *)

(* Mutant: the last item of the queue gets no request.                     *)
PostNeededItemShort(cd, ql, cp) == cd < MaxDispatch /\ cp + 1 < ql

(* The loop condition: a request is posted while a dispatch slot is free   *)
(* and fewer requests are posted than items are queued.                    *)
PostNeeded(cd, ql, cp) == cd < MaxDispatch /\ cp < ql

(* Where actor a continues when dispatch returns to its caller.            *)
CallerPoint(a, tracked) ==
    CASE a \in Timers -> "t_ret"
      [] a \in Helpers /\ a \in tracked -> "h_fin"
      [] a \in Drivers /\ arg[a] = Plunger -> "f_wait"
      [] OTHER -> "idle"

(* Mutant: the pre-increment of curPosted is left out.                     *)
DispatchUncounted(a, tracked, cd, ql, cp) ==
    /\ curPosted' = cp
    /\ Goto(a, IF PostNeeded(cd, ql, cp) THEN "d_submit"
                                        ELSE CallerPoint(a, tracked))

(* The part of dispatch under the lock, given the values the caller's      *)
(* locked section has computed: post one request, or return.               *)
Dispatch(a, tracked, cd, ql, cp) ==
    IF PostNeeded(cd, ql, cp)
    THEN /\ curPosted' = cp + 1
         /\ Goto(a, "d_submit")
    ELSE /\ curPosted' = cp
         /\ Goto(a, CallerPoint(a, tracked))

(* vmk_HelperSubmitRequest accepts the request.                            *)
SubmitOK(a) ==
    /\ pc[a] = "d_submit"
    /\ submitted' = submitted + 1
    /\ Goto(a, "d_next")
    /\ UNCHANGED <<queueVars, sleepVars, itemVars, timerVars, flushVars,
                   lifeVars, arg, callVars>>

(* vmk_HelperSubmitRequest refuses it.                                     *)
SubmitFail(a) ==
    /\ pc[a] = "d_submit"
    /\ SubmitMayFail
    /\ Goto(a, "d_unpost")
    /\ UNCHANGED <<queueVars, sleepVars, itemVars, timerVars, submitted,
                   flushVars, lifeVars, arg, callVars>>

(* Single-threaded queues return at once; others take the lock and loop.   *)
DispatchNext(a) ==
    /\ pc[a] = "d_next"
    /\ IF MaxDispatch = 1
       THEN Goto(a, CallerPoint(a, Tracked)) /\ UNCHANGED curPosted
       ELSE Dispatch(a, Tracked, curDispatch, qLen, curPosted)
    /\ UNCHANGED <<head, qLen, curDispatch, trackList, trackFlushList,
                   trackFree, sleepVars, itemVars, timerVars, submitted,
                   flushVars, lifeVars, arg, callVars>>

(* After a refusal: take back the count ...                                *)
Unpost(a) ==
    /\ pc[a] = "d_unpost"
    /\ curPosted' = curPosted - 1
    /\ Goto(a, "d_timer")
    /\ UNCHANGED <<head, qLen, curDispatch, trackList, trackFlushList,
                   trackFree, sleepVars, itemVars, timerVars, submitted,
                   flushVars, lifeVars, arg, callVars>>

(* Mutant: the retry timer is not set.                                     *)
RetryLost == delayTimer

(* mod_timer sets the timer whether or not it was pending.                 *)
RetryTimer == "armed"

(* ... and, outside the lock, set the timer that will try again.           *)
ArmDelayTimer(a) ==
    /\ pc[a] = "d_timer"
    /\ delayTimer' = RetryTimer
    /\ Goto(a, CallerPoint(a, Tracked))
    /\ UNCHANGED <<queueVars, sleepVars, itemVars, timer, submitted,
                   flushVars, lifeVars, arg, callVars>>

DispatchStep(a) ==
    \/ SubmitOK(a) \/ SubmitFail(a) \/ DispatchNext(a)
    \/ Unpost(a) \/ ArmDelayTimer(a)

-----------------------------------------------------------------------------
(* Queueing                                                                *)

(* Mutant: the bit is set without looking at its old value.                *)
TestAndSetBlind(w) == TRUE

(* test_and_set_bit(__WORK_PENDING) by actor a finds the bit of w clear.   *)
TestAndSet(w) == w \notin pending

(* vmklnx_queue_work / queue_delayed_work up to the bit: a call that finds *)
(* the bit set returns 0 and changes nothing.                              *)
Claim(a, w, point) ==
    /\ TestAndSet(w)
    /\ pending' = pending \cup {w}
    /\ arg' = [arg EXCEPT ![a] = w]
    /\ Goto(a, point)
    /\ UNCHANGED <<queueVars, sleepVars, wqData, timerVars, submitted,
                   flushVars, lifeVars, callVars>>

(* Mutant: __queue_work puts the item at the head of the list.             *)
QueueAddHead(a) ==
    /\ pc[a] = "q_add"
    /\ head' = <<arg[a]>> \o head
    /\ qLen' = qLen + 1
    /\ wqData' = wqData \cup ({arg[a]} \cap Works)
    /\ Dispatch(a, Tracked, curDispatch, qLen + 1, curPosted)
    /\ arg' = IF a \in Helpers \/ arg[a] = Plunger
              THEN arg ELSE [arg EXCEPT ![a] = None]
    /\ flushDebt' = IF arg[a] = Plunger THEN ToSet(head) \cup Tracked
                                        ELSE flushDebt
    /\ UNCHANGED <<curDispatch, trackList, trackFlushList, trackFree,
                   sleepVars, pending, timerVars, submitted, flushOwner,
                   done, lifeVars, callVars>>

(* __queue_work: append to the queue and dispatch.  The history variable   *)
(* records, when the plunger goes in, every item queued or executing.      *)
QueueAdd(a) ==
    /\ pc[a] = "q_add"
    /\ head' = Append(head, arg[a])
    /\ qLen' = qLen + 1
    /\ wqData' = wqData \cup ({arg[a]} \cap Works)
    /\ Dispatch(a, Tracked, curDispatch, qLen + 1, curPosted)
    /\ arg' = IF a \in Helpers \/ arg[a] = Plunger
              THEN arg ELSE [arg EXCEPT ![a] = None]
    /\ flushDebt' = IF arg[a] = Plunger THEN ToSet(head) \cup Tracked
                                        ELSE flushDebt
    /\ UNCHANGED <<curDispatch, trackList, trackFlushList, trackFree,
                   sleepVars, pending, timerVars, submitted, flushOwner,
                   done, lifeVars, callVars>>

(* The rest of queue_delayed_work: record the queue and add the timer.     *)
TimerAdd(a) ==
    /\ pc[a] = "qd_arm"
    /\ timer' = [timer EXCEPT ![arg[a]] = "armed"]
    /\ wqData' = wqData \cup {arg[a]}
    /\ Goto(a, IF a \in Helpers THEN "h_fin" ELSE "idle")
    /\ arg' = IF a \in Helpers THEN arg ELSE [arg EXCEPT ![a] = None]
    /\ UNCHANGED <<queueVars, sleepVars, pending, delayTimer, submitted,
                   flushVars, lifeVars, callVars>>

-----------------------------------------------------------------------------
(* Timers.  A vmk timer fires once, in one of the timer contexts.          *)

(* delayed_work_timer_fn: the PENDING bit passes from the timer to t.      *)
WorkTimerFires(t, w) ==
    /\ pc[t] = "idle"
    /\ timer[w] = "armed"
    /\ timer' = [timer EXCEPT ![w] = t]
    /\ arg' = [arg EXCEPT ![t] = w]
    /\ Goto(t, "q_add")
    /\ UNCHANGED <<queueVars, sleepVars, itemVars, delayTimer, submitted,
                   flushVars, lifeVars, callVars>>

DelayTimerFires(t) ==
    /\ pc[t] = "idle"
    /\ delayTimer = "armed"
    /\ delayTimer' = t
    /\ Goto(t, "t_lock")
    /\ UNCHANGED <<queueVars, sleepVars, itemVars, timer, submitted,
                   flushVars, lifeVars, arg, callVars>>

(* vmklnx_workqueue_timeout                                                *)
DelayTimeout(t) ==
    /\ pc[t] = "t_lock"
    /\ Dispatch(t, Tracked, curDispatch, qLen, curPosted)
    /\ UNCHANGED <<head, qLen, curDispatch, trackList, trackFlushList,
                   trackFree, sleepVars, itemVars, timerVars, submitted,
                   flushVars, lifeVars, arg, callVars>>

(* The callback returns: del_timer_sync no longer waits for it.            *)
TimerReturns(t) ==
    /\ pc[t] = "t_ret"
    /\ timer' = [w \in Works |-> IF timer[w] = t THEN "idle" ELSE timer[w]]
    /\ delayTimer' = IF delayTimer = t THEN "idle" ELSE delayTimer
    /\ Goto(t, "idle")
    /\ UNCHANGED <<queueVars, sleepVars, itemVars, submitted, flushVars,
                   lifeVars, arg, callVars>>

TimerStep(t) ==
    \/ \E w \in Works : WorkTimerFires(t, w)
    \/ DelayTimerFires(t) \/ DelayTimeout(t) \/ TimerReturns(t)
    \/ QueueAdd(t)

-----------------------------------------------------------------------------
(* vmklnx_workqueue_callout, run by a helper world for a posted request    *)

(* Mutant: nobody is woken when the last request is dropped.               *)
WokenNever == {}

(* The last request posted is dropped: vmk_WorldWakeup.  The test of       *)
(* &wqPtr->setExitFlag, an address, is always true.                        *)
WokenWhenDrained == IF curPosted = 1 THEN sleepers ELSE {}

(* Nothing to take, or no dispatch slot: the request is dropped.           *)
CalloutNothing(h) ==
    /\ pc[h] = "idle"
    /\ submitted > 0
    /\ head = <<>> \/ curDispatch >= MaxDispatch
    /\ submitted' = submitted - 1
    /\ curPosted' = curPosted - 1
    /\ sleepers' = sleepers \ WokenWhenDrained
    /\ UNCHANGED <<head, qLen, curDispatch, trackList, trackFlushList,
                   trackFree, waiting, itemVars, timerVars, flushVars,
                   lifeVars, pc, arg, callVars>>

(* Take the oldest item and a tracker.                                     *)
CalloutTake(h) ==
    /\ pc[h] = "idle"
    /\ submitted > 0
    /\ head # <<>> /\ curDispatch < MaxDispatch
    /\ submitted' = submitted - 1
    /\ curPosted' = curPosted - 1
    /\ head' = Tail(head)
    /\ qLen' = qLen - 1
    /\ curDispatch' = curDispatch + 1
    /\ trackFree' = trackFree - 1
    /\ trackList' = trackList \cup {h}
    /\ arg' = [arg EXCEPT ![h] = Head(head)]
    /\ Goto(h, "h_clear")
    /\ flushDebt' = IF Head(head) \in flushDebt
                    THEN (flushDebt \ {Head(head)}) \cup {h} ELSE flushDebt
    /\ UNCHANGED <<trackFlushList, sleepVars, itemVars, timerVars,
                   flushOwner, done, lifeVars, callVars>>

(* Clear the PENDING bit: from here on the work may be queued again.       *)
CalloutClear(h) ==
    /\ pc[h] = "h_clear"
    /\ pending' = pending \ {arg[h]}
    /\ Goto(h, "h_func")
    /\ UNCHANGED <<queueVars, sleepVars, wqData, timerVars, submitted,
                   flushVars, lifeVars, arg, callVars>>

(* The driver's callback returns ...                                       *)
WorkReturns(h) ==
    /\ pc[h] = "h_func"
    /\ arg[h] \in Works
    /\ Goto(h, "h_fin")
    /\ UNCHANGED <<queueVars, sleepVars, itemVars, timerVars, submitted,
                   flushVars, lifeVars, arg, callVars>>

(* ... or first queues its own work again; queue_work refuses once the     *)
(* queue is being destroyed, queue_delayed_work does not look.             *)
WorkRequeues(h) ==
    /\ pc[h] = "h_func"
    /\ arg[h] \in Rearm
    /\ \/ destroyer = None /\ Claim(h, arg[h], "q_add")
       \/ "queue_delayed" \in Ops /\ Claim(h, arg[h], "qd_arm")

(* Mutant: the trackers of trackList are dropped instead of moved.         *)
FlushListLost == trackFlushList

(* vmklnx_plunger_complete: move the items in progress to trackFlushList,  *)
FlushList == trackFlushList \cup trackList

PlungerSplice(h) ==
    /\ pc[h] = "h_func"
    /\ arg[h] = Plunger
    /\ trackFlushList' = FlushList
    /\ trackList' = {}
    /\ Goto(h, "h_compl")
    /\ UNCHANGED <<head, qLen, curPosted, curDispatch, trackFree, sleepVars,
                   itemVars, timerVars, submitted, flushVars, lifeVars, arg,
                   callVars>>

(* then complete the flusher, on whose stack the plunger lives.            *)
PlungerComplete(h) ==
    /\ pc[h] = "h_compl"
    /\ done' = TRUE
    /\ Goto(h, "h_fin")
    /\ UNCHANGED <<queueVars, sleepVars, itemVars, timerVars, submitted,
                   flushOwner, flushDebt, lifeVars, arg, callVars>>

(* vmk_WorldWakeup at the end of every callout (the test is of an address) *)
WokenAtFinish == sleepers

(* The callback is over: release the slot and the tracker, dispatch again. *)
CalloutFinish(h) ==
    /\ pc[h] = "h_fin"
    /\ curDispatch' = curDispatch - 1
    /\ sleepers' = sleepers \ WokenAtFinish
    /\ trackList' = trackList \ {h}
    /\ trackFlushList' = trackFlushList \ {h}
    /\ trackFree' = trackFree + 1
    /\ arg' = [arg EXCEPT ![h] = None]
    /\ Dispatch(h, Tracked \ {h}, curDispatch - 1, qLen, curPosted)
    /\ flushDebt' = flushDebt \ {h}
    /\ UNCHANGED <<head, qLen, waiting, itemVars, timerVars, submitted,
                   flushOwner, done, lifeVars, callVars>>

HelperStep(h) ==
    \/ CalloutNothing(h) \/ CalloutTake(h) \/ CalloutClear(h)
    \/ WorkReturns(h) \/ WorkRequeues(h) \/ PlungerSplice(h)
    \/ PlungerComplete(h) \/ CalloutFinish(h)
    \/ QueueAdd(h) \/ TimerAdd(h)

-----------------------------------------------------------------------------
(* vmklnx_cancel_work_sync                                                 *)

(* Mutant: one iteration is taken to be enough.                            *)
CancelNextAtOnce(d, got) == Goto(d, "c_clear")

(* One iteration ends: clear the bit if it was grabbed, else sleep and try *)
(* again.                                                                  *)
CancelNext(d, got) == Goto(d, IF got THEN "c_clear" ELSE "c_try")

(* Try to take the PENDING bit directly.                                   *)
CancelTry(d) ==
    /\ pc[d] = "c_try"
    /\ IF TestAndSet(arg[d])
       THEN /\ pending' = pending \cup {arg[d]}
            /\ grabbed' = grabbed \cup {d}
            /\ Goto(d, "c_lock")
       ELSE /\ Goto(d, IF d \in withTimer THEN "c_del" ELSE "c_lock")
            /\ UNCHANGED <<pending, grabbed>>
    /\ UNCHANGED <<queueVars, sleepVars, wqData, timerVars, submitted,
                   flushVars, lifeVars, arg, withTimer>>

(* Take it from the armed timer; if the timer has fired, del_timer_sync    *)
(* waits for the callback to return.                                       *)
CancelDelTimer(d) ==
    /\ pc[d] = "c_del"
    /\ timer[arg[d]] \notin Timers
    /\ timer' = [timer EXCEPT ![arg[d]] = "idle"]
    /\ grabbed' = IF timer[arg[d]] = "armed" THEN grabbed \cup {d} ELSE grabbed
    /\ Goto(d, "c_lock")
    /\ UNCHANGED <<queueVars, sleepVars, itemVars, delayTimer, submitted,
                   flushVars, lifeVars, arg, withTimer>>

(* Wait, with the lock released, while the work is executing.              *)
CancelWait(d, got) ==
    IF Executing(arg[d])
    THEN /\ waiting' = waiting + 1
         /\ sleepers' = sleepers \cup {d}
         /\ Goto(d, "c_sleep")
    ELSE /\ CancelNext(d, got)
         /\ UNCHANGED sleepVars

(* The locked section when the work is on the queue: take it off.          *)
CancelRemove(d) ==
    /\ pc[d] = "c_lock"
    /\ arg[d] \in wqData
    /\ arg[d] \in pending
    /\ \E k \in DOMAIN head :
          /\ head[k] = arg[d]
          /\ head' = RemoveAt(head, k)
    /\ qLen' = qLen - 1
    /\ grabbed' = grabbed \cup {d}
    /\ flushDebt' = flushDebt \ {arg[d]}
    /\ CancelWait(d, TRUE)
    /\ UNCHANGED <<curPosted, curDispatch, trackList, trackFlushList,
                   trackFree, itemVars, timerVars, submitted, flushOwner,
                   done, lifeVars, arg, withTimer>>

(* The locked section when it is not, or the work was never queued.        *)
CancelNotQueued(d) ==
    /\ pc[d] = "c_lock"
    /\ ~ (/\ arg[d] \in wqData /\ arg[d] \in pending
          /\ Contains(head, arg[d]))
    /\ IF arg[d] \in wqData
       THEN CancelWait(d, d \in grabbed)
       ELSE CancelNext(d, d \in grabbed) /\ UNCHANGED sleepVars
    /\ UNCHANGED <<queueVars, itemVars, timerVars, submitted, flushVars,
                   lifeVars, arg, callVars>>

(* Woken: scan the track lists again.                                      *)
CancelWoken(d) ==
    /\ pc[d] = "c_sleep"
    /\ d \notin sleepers
    /\ IF Executing(arg[d])
       THEN /\ sleepers' = sleepers \cup {d}
            /\ UNCHANGED <<waiting, pc>>
       ELSE /\ waiting' = waiting - 1
            /\ CancelNext(d, d \in grabbed)
            /\ UNCHANGED sleepers
    /\ UNCHANGED <<queueVars, itemVars, timerVars, submitted, flushVars,
                   lifeVars, arg, callVars>>

CancelClear(d) ==
    /\ pc[d] = "c_clear"
    /\ pending' = pending \ {arg[d]}
    /\ grabbed' = grabbed \ {d}
    /\ withTimer' = withTimer \ {d}
    /\ arg' = [arg EXCEPT ![d] = None]
    /\ Goto(d, "idle")
    /\ UNCHANGED <<queueVars, sleepVars, wqData, timerVars, submitted,
                   flushVars, lifeVars>>

(* cancel_delayed_work: only the timer is cancelled.                       *)
CancelDelayed(d) ==
    /\ pc[d] = "ct_del"
    /\ timer[arg[d]] \notin Timers
    /\ timer' = [timer EXCEPT ![arg[d]] = "idle"]
    /\ IF timer[arg[d]] = "armed"
       THEN Goto(d, "ct_clear") /\ UNCHANGED arg
       ELSE Goto(d, "idle") /\ arg' = [arg EXCEPT ![d] = None]
    /\ UNCHANGED <<queueVars, sleepVars, itemVars, delayTimer, submitted,
                   flushVars, lifeVars, callVars>>

CancelDelayedClear(d) ==
    /\ pc[d] = "ct_clear"
    /\ pending' = pending \ {arg[d]}
    /\ arg' = [arg EXCEPT ![d] = None]
    /\ Goto(d, "idle")
    /\ UNCHANGED <<queueVars, sleepVars, wqData, timerVars, submitted,
                   flushVars, lifeVars, callVars>>

-----------------------------------------------------------------------------
(* flush_workqueue                                                         *)

(* Take flushMutex and prepare the plunger, which then goes to __queue_work*)
FlushLock(d) ==
    /\ pc[d] = "f_lock"
    /\ flushOwner = None
    /\ flushOwner' = d
    /\ done' = FALSE
    /\ pending' = pending \cup {Plunger}
    /\ arg' = [arg EXCEPT ![d] = Plunger]
    /\ Goto(d, "q_add")
    /\ UNCHANGED <<queueVars, sleepVars, wqData, timerVars, submitted,
                   flushDebt, lifeVars, callVars>>

(* wait_for_completion                                                     *)
FlushCompleted(d) ==
    /\ pc[d] = "f_wait"
    /\ done
    /\ Goto(d, "f_drain")
    /\ UNCHANGED <<queueVars, sleepVars, itemVars, timerVars, submitted,
                   flushVars, lifeVars, arg, callVars>>

(* Mutant: the completion alone ends the flush.                            *)
DrainedAtOnce == TRUE

(* Every item that was executing when the plunger ran has finished.        *)
Drained == trackFlushList = {}

FlushDrain(d) ==
    /\ pc[d] = "f_drain"
    /\ IF Drained
       THEN Goto(d, "f_unlock") /\ UNCHANGED sleepVars
       ELSE /\ waiting' = waiting + 1
            /\ sleepers' = sleepers \cup {d}
            /\ Goto(d, "f_sleep")
    /\ UNCHANGED <<queueVars, itemVars, timerVars, submitted, flushVars,
                   lifeVars, arg, callVars>>

FlushWoken(d) ==
    /\ pc[d] = "f_sleep"
    /\ d \notin sleepers
    /\ IF Drained
       THEN /\ waiting' = waiting - 1
            /\ Goto(d, "f_unlock")
            /\ UNCHANGED sleepers
       ELSE /\ sleepers' = sleepers \cup {d}
            /\ UNCHANGED <<waiting, pc>>
    /\ UNCHANGED <<queueVars, itemVars, timerVars, submitted, flushVars,
                   lifeVars, arg, callVars>>

FlushUnlock(d) ==
    /\ pc[d] = "f_unlock"
    /\ flushOwner' = None
    /\ arg' = [arg EXCEPT ![d] = None]
    /\ Goto(d, IF destroyer = d THEN "x_wait" ELSE "idle")
    /\ UNCHANGED <<queueVars, sleepVars, itemVars, timerVars, submitted,
                   done, flushDebt, lifeVars, callVars>>

-----------------------------------------------------------------------------
(* destroy_workqueue after its flush                                       *)

(* Mutant: destroy does not wait for the posted requests.                  *)
NonePostedAssumed == TRUE

(* Wait for the posted requests; the wait does not count in waiting.       *)
NonePosted == curPosted = 0

DestroyWait(d) ==
    /\ pc[d] = "x_wait" \/ (pc[d] = "x_sleep" /\ d \notin sleepers)
    /\ IF NonePosted
       THEN Goto(d, "x_del") /\ UNCHANGED sleepers
       ELSE sleepers' = sleepers \cup {d} /\ Goto(d, "x_sleep")
    /\ UNCHANGED <<queueVars, waiting, itemVars, timerVars, submitted,
                   flushVars, lifeVars, arg, callVars>>

(* del_timer_sync(&wqPtr->delayTimer)                                      *)
DestroyDelTimer(d) ==
    /\ pc[d] = "x_del"
    /\ delayTimer \notin Timers
    /\ delayTimer' = "idle"
    /\ Goto(d, "x_free")
    /\ UNCHANGED <<queueVars, sleepVars, itemVars, timer, submitted,
                   flushVars, lifeVars, arg, callVars>>

DestroyFree(d) ==
    /\ pc[d] = "x_free"
    /\ freed' = TRUE
    /\ Goto(d, "idle")
    /\ UNCHANGED <<queueVars, sleepVars, itemVars, timerVars, submitted,
                   flushVars, destroyer, arg, callVars>>

-----------------------------------------------------------------------------
(* The drivers                                                             *)

(* An idle world makes one of the calls.  The callers' contract: no call   *)
(* once the queue is being destroyed; destroy_workqueue only when every    *)
(* other call has returned and no self re-initiating work is left.         *)
Begin(d, op, w) ==
    /\ arg' = [arg EXCEPT ![d] = w]
    /\ withTimer' = IF op = "cancel_delayed_sync"
                    THEN withTimer \cup {d} ELSE withTimer
    /\ Goto(d, IF op = "cancel_delayed" THEN "ct_del" ELSE "c_try")
    /\ UNCHANGED <<queueVars, sleepVars, itemVars, timerVars, submitted,
                   flushVars, lifeVars, grabbed>>

StartQueue(d, w) == "queue" \in Ops /\ Claim(d, w, "q_add")

StartQueueDelayed(d, w) == "queue_delayed" \in Ops /\ Claim(d, w, "qd_arm")

StartCancel(d, w) ==
    \E op \in Ops \cap {"cancel_sync", "cancel_delayed_sync",
                        "cancel_delayed"} : Begin(d, op, w)

StartFlush(d) ==
    /\ "flush" \in Ops
    /\ Goto(d, "f_lock")
    /\ UNCHANGED <<queueVars, sleepVars, itemVars, timerVars, submitted,
                   flushVars, lifeVars, arg, callVars>>

StartDestroy(d) ==
    /\ "destroy" \in Ops
    /\ \A e \in Drivers : pc[e] = "idle"
    /\ \A w \in Rearm : w \notin pending /\ ~ Executing(w)
    /\ destroyer' = d
    /\ Goto(d, "f_lock")
    /\ UNCHANGED <<queueVars, sleepVars, itemVars, timerVars, submitted,
                   flushVars, freed, arg, callVars>>

DriverStarts(d) ==
    /\ pc[d] = "idle"
    /\ destroyer = None
    /\ \/ \E w \in Works : StartQueue(d, w) \/ StartQueueDelayed(d, w)
                           \/ StartCancel(d, w)
       \/ StartFlush(d) \/ StartDestroy(d)

DriverStep(d) ==
    \/ QueueAdd(d) \/ TimerAdd(d)
    \/ CancelTry(d) \/ CancelDelTimer(d) \/ CancelRemove(d)
    \/ CancelNotQueued(d) \/ CancelWoken(d) \/ CancelClear(d)
    \/ CancelDelayed(d) \/ CancelDelayedClear(d)
    \/ FlushLock(d) \/ FlushCompleted(d) \/ FlushDrain(d) \/ FlushWoken(d)
    \/ FlushUnlock(d)
    \/ DestroyWait(d) \/ DestroyDelTimer(d) \/ DestroyFree(d)

(* vmk_WorldWaitIRQ may return without a wakeup.                           *)
SpuriousWakeup(d) ==
    /\ d \in sleepers
    /\ sleepers' = sleepers \ {d}
    /\ UNCHANGED <<queueVars, waiting, itemVars, timerVars, submitted,
                   flushVars, lifeVars, pc, arg, callVars>>

(* What happens to memory that has been freed is not modelled: a behaviour *)
(* ends when the queue is freed.                                           *)
Next ==
    /\ ~ freed
    /\ \/ \E d \in Drivers : DriverStarts(d) \/ DriverStep(d)
                             \/ SpuriousWakeup(d)
       \/ \E h \in Helpers : HelperStep(h)
       \/ \E t \in Timers : TimerStep(t)
       \/ \E a \in Actors : DispatchStep(a)

Spec == Init /\ [][Next]_vars

(* Fairness.  Worlds and timer contexts are scheduled, so whatever they    *)
(* can do they eventually do; a helper queue that is full now and then     *)
(* still accepts a request that is offered again and again.  Nothing makes *)
(* a driver start a call, and spurious wakeups cannot be counted on.       *)
Fairness ==
    /\ \A d \in Drivers : WF_vars(~ freed /\ DriverStep(d))
    /\ \A h \in Helpers : WF_vars(~ freed /\ HelperStep(h))
    /\ \A t \in Timers : WF_vars(~ freed /\ TimerStep(t))
    /\ \A a \in Actors : /\ WF_vars(~ freed /\ DispatchStep(a))
                         /\ SF_vars(~ freed /\ SubmitOK(a))

FairSpec == Spec /\ Fairness

-----------------------------------------------------------------------------
(* Properties                                                              *)

Queued(i)  == Contains(head, i)
Armed(i)   == i \in Works /\ timer[i] = "armed"

(* The points at which an actor owns the PENDING bit of arg[a].            *)
Holds(a, i) ==
    /\ arg[a] = i
    /\ pc[a] \in {"q_add", "qd_arm", "h_clear", "ct_clear"} \/ a \in grabbed

(* Every field has its type, and no counter runs below zero: curPosted,    *)
(* qLen and waiting are plain ints that sections of several actors count   *)
(* up and down, and at most maxDispatch items execute.                     *)
TypeOK ==
    /\ head \in Seq(Items)
    /\ qLen \in Nat
    /\ curPosted \in Nat
    /\ curDispatch \in 0..MaxDispatch
    /\ trackList \subseteq Helpers
    /\ trackFlushList \subseteq Helpers
    /\ trackFree \in 0..MaxDispatch
    /\ waiting \in Nat
    /\ sleepers \subseteq Drivers
    /\ pending \subseteq Items
    /\ wqData \subseteq Works
    /\ timer \in [Works -> {"idle", "armed"} \cup Timers]
    /\ delayTimer \in {"idle", "armed"} \cup Timers
    /\ submitted \in Nat
    /\ flushOwner \in Drivers \cup {None}
    /\ done \in BOOLEAN
    /\ flushDebt \subseteq Items \cup Helpers
    /\ destroyer \in Drivers \cup {None}
    /\ freed \in BOOLEAN
    /\ pc \in [Actors -> DriverPoints \cup HelperPoints \cup TimerPoints]
    /\ \A d \in Drivers : pc[d] \in DriverPoints
    /\ \A h \in Helpers : pc[h] \in HelperPoints
    /\ \A t \in Timers : pc[t] \in TimerPoints
    /\ arg \in [Actors -> Items \cup {None}]
    /\ withTimer \subseteq Drivers
    /\ grabbed \subseteq Drivers

(* The assertions of vmklnx_workqueue_callout: qLen is the length of the   *)
(* queue, the two track lists hold one tracker per item executing, and the *)
(* remaining trackers are free.                                            *)
Accounting ==
    /\ qLen = Len(head)
    /\ trackList \cap trackFlushList = {}
    /\ Cardinality(Tracked) = curDispatch
    /\ trackFree = MaxDispatch - curDispatch

(* curPosted counts exactly the requests the helper pool holds plus those  *)
(* on their way there or back from a refusal: a lost count would strand    *)
(* work, a surplus would keep destroy_workqueue waiting.                   *)
PostingAccounted ==
    curPosted = submitted
                + Cardinality({a \in Actors : pc[a] \in {"d_submit", "d_unpost"}})

(* The PENDING bit is a lock with one owner: it is set exactly when the    *)
(* work is on the queue, or on an armed timer, or in the hands of one      *)
(* queueing, dequeueing or cancelling actor, and never two of these.       *)
QueuedOnce(w) == \A j, k \in DOMAIN head : head[j] = w /\ head[k] = w => j = k

OwnedOnce(w) ==
    /\ w \in pending <=> Queued(w) \/ Armed(w) \/ \E a \in Actors : Holds(a, w)
    /\ ~ (Queued(w) /\ Armed(w))
    /\ \A a \in Actors : Holds(a, w) => ~ Queued(w) /\ ~ Armed(w)
    /\ \A a, b \in Actors : Holds(a, w) /\ Holds(b, w) => a = b
    /\ QueuedOnce(w)

PendingOwner == \A w \in Works : OwnedOnce(w)

(* cancel_work_sync and cancel_delayed_work_sync return only when the work *)
(* is neither queued nor on a timer nor executing in any helper, so the    *)
(* driver may free it.                                                     *)
CancelGuarantee ==
    \A d \in Drivers : pc[d] = "c_clear" =>
        /\ ~ Queued(arg[d])
        /\ ~ Armed(arg[d])
        /\ \A h \in Helpers : pc[h] # "idle" => arg[h] # arg[d]

(* flush_workqueue returns only when every item that was queued or         *)
(* executing when the plunger went in has run to completion or was         *)
(* cancelled, whatever was queued behind it.                               *)
FlushGuarantee ==
    \A d \in Drivers : pc[d] = "f_unlock" => flushDebt = {}

(* The plunger lives on the flusher's stack: no helper holds it, and it is *)
(* not on the queue, unless its flusher is still inside flush_workqueue.   *)
PlungerAlive ==
    Queued(Plunger) \/ (\E h \in Helpers : arg[h] = Plunger)
        => /\ flushOwner # None
           /\ pc[flushOwner] \notin {"idle", "f_lock", "f_unlock"}

(* Work is never stranded: while an item is queued and a slot is free,     *)
(* a request is posted, or somebody is about to look again.                *)
NoStrandedWork ==
    head # <<>> /\ curDispatch < MaxDispatch =>
        \/ curPosted > 0
        \/ delayTimer = "armed"
        \/ \E a \in Actors : \/ pc[a] \in {"d_timer", "t_lock"}
                             \/ pc[a] = "d_next" /\ MaxDispatch > 1

(* The assertions of destroy_workqueue before it frees the queue.          *)
DestroyAsserts ==
    \A d \in Drivers :
        /\ pc[d] \in {"x_del", "x_free"} => qLen = 0 /\ head = <<>>
        /\ pc[d] = "x_free" => /\ curDispatch = 0 /\ curPosted = 0
                               /\ waiting = 0 /\ Tracked = {}
                               /\ trackFree = MaxDispatch

(* Nothing still refers to the queue when destroy_workqueue frees it.      *)
NoUseAfterFree ==
    freed => /\ submitted = 0
             /\ \A w \in Works : ~ Armed(w)
             /\ \A a \in Actors : pc[a] \in {"idle", "t_ret"}

(* Every queued item is eventually taken off the queue.                    *)
QueuedIsTaken == \A i \in Items : Queued(i) ~> (~ Queued(i) \/ freed)

(* A cancel_work_sync or cancel_delayed_work_sync call returns once the    *)
(* drivers stop queueing the work.                                         *)
CancelReturns == \A d \in Drivers : pc[d] = "c_try" ~> pc[d] = "idle"

(* A flush_workqueue call returns even when works queue themselves again   *)
(* for ever: what they add goes in behind the plunger.                     *)
FlushReturns == \A d \in Drivers : pc[d] = "f_lock" ~> pc[d] \in {"idle", "x_wait"}

(* A destroy_workqueue call, made as its contract asks, returns.           *)
DestroyReturns == \A d \in Drivers : destroyer = d ~> freed
=============================================================================
