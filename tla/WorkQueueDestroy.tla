------------------------- MODULE WorkQueueDestroy --------------------------
(***************************************************************************)
(* Proofs about WorkQueue, continued: destroy_workqueue finds the queue as *)
(* its assertions say, and queued work is never stranded.                  *)
(*                                                                         *)
(* Both need that a queue with delayed works is not destroyed.  The flush  *)
(* of destroy_workqueue does not wait for the timer of a delayed work: the *)
(* timer may put its work on the queue after the flush, and the retry      *)
(* timer, which would be the only one to look at it, is then deleted.      *)
(***************************************************************************)
EXTENDS WorkQueueFlush

USE DEF Items, Actors

NoDelayedDestroy == "destroy" \in Ops => "queue_delayed" \notin Ops

-----------------------------------------------------------------------------
(* What the operations in use say of the control points: only a work that  *)
(* re-arms itself is queued by a helper, and without queue_delayed_work no *)
(* timer of a work is ever used; only the destroyer gets to the end of     *)
(* destroy_workqueue.                                                      *)

ExitPoints == {"x_wait", "x_sleep", "x_del", "x_free"}

PlainAt(a, p, x) ==
    /\ p \in ExitPoints => destroyer # None
    /\ a \in Helpers /\ p \in {"q_add", "qd_arm"} => x \in Rearm
    /\ "queue_delayed" \notin Ops => /\ p # "qd_arm"
                                     /\ a \in Timers => p # "q_add"

Plain ==
    /\ \A a \in Actors : PlainAt(a, pc[a], arg[a])
    /\ "queue_delayed" \notin Ops => \A w \in Works : timer[w] = "idle"
    /\ destroyer # None => "destroy" \in Ops

LEMMA PlainMove ==
    ASSUME Plain, NEW a \in Actors, PlainAt(a, pc'[a], arg'[a]),
           \A b \in Actors \ {a} : pc'[b] = pc[b] /\ arg'[b] = arg[b],
           destroyer' = destroyer,
           \A w \in Works : timer[w] = "idle" => timer'[w] = "idle"
    PROVE  Plain'
BY DEF Plain, PlainAt

LEMMA PlainDispatch ==
    ASSUME Control, Plain, NEW a \in Actors, DispatchStep(a)
    PROVE  Plain'
<1> USE DEF Control, Goto, queueVars, timerVars, lifeVars, PlainAt,
            ExitPoints
<1>1. CASE SubmitOK(a)
  BY <1>1, PlainMove, ActorsAssumption DEF SubmitOK
<1>2. CASE SubmitFail(a)
  BY <1>2, PlainMove, ActorsAssumption DEF SubmitFail
<1>3. CASE DispatchNext(a)
  BY <1>3, PlainMove, DispatchFree, CallerPointFree DEF DispatchNext
<1>4. CASE Unpost(a)
  BY <1>4, PlainMove, ActorsAssumption DEF Unpost
<1>5. CASE ArmDelayTimer(a)
  BY <1>5, PlainMove, CallerPointFree DEF ArmDelayTimer
<1> QED
  BY <1>1, <1>2, <1>3, <1>4, <1>5 DEF DispatchStep

LEMMA PlainTimer ==
    ASSUME Control, Plain, NEW t \in Timers, TimerStep(t)
    PROVE  Plain'
<1> USE DEF Control, Goto, queueVars, timerVars, lifeVars, PlainAt,
            ExitPoints
<1>1. CASE \E w \in Works : WorkTimerFires(t, w)
  <2>1. "queue_delayed" \in Ops
    BY <1>1, ActorsAssumption DEF WorkTimerFires, Plain
  <2> QED BY <1>1, <2>1, ActorsAssumption DEF WorkTimerFires, Plain
<1>2. CASE DelayTimerFires(t)
  BY <1>2, PlainMove, ActorsAssumption DEF DelayTimerFires
<1>3. CASE DelayTimeout(t)
  BY <1>3, PlainMove, DispatchFree, CallerPointFree DEF DelayTimeout
<1>4. CASE TimerReturns(t)
  BY <1>4, PlainMove, ActorsAssumption DEF TimerReturns
<1>5. CASE QueueAdd(t)
  BY <1>5, PlainMove, DispatchFree, CallerPointFree DEF QueueAdd
<1> QED
  BY <1>1, <1>2, <1>3, <1>4, <1>5 DEF TimerStep

LEMMA PlainHelper ==
    ASSUME Control, Plain, NEW h \in Helpers, HelperStep(h)
    PROVE  Plain'
<1> USE DEF Control, Goto, queueVars, timerVars, lifeVars, PlainAt,
            ExitPoints
<1>1. CASE CalloutNothing(h)
  BY <1>1, PlainMove DEF CalloutNothing, Plain
<1>2. CASE CalloutTake(h)
  BY <1>2, PlainMove, ActorsAssumption DEF CalloutTake
<1>3. CASE CalloutClear(h)
  BY <1>3, PlainMove, ActorsAssumption DEF CalloutClear
<1>4. CASE WorkReturns(h)
  BY <1>4, PlainMove, ActorsAssumption DEF WorkReturns
<1>5. CASE WorkRequeues(h)
  BY <1>5, PlainMove, ActorsAssumption DEF WorkRequeues, Claim
<1>6. CASE PlungerSplice(h)
  BY <1>6, PlainMove, ActorsAssumption DEF PlungerSplice, FlushList
<1>7. CASE PlungerComplete(h)
  BY <1>7, PlainMove, ActorsAssumption DEF PlungerComplete
<1>8. CASE CalloutFinish(h)
  BY <1>8, PlainMove, DispatchFree, CallerPointFree DEF CalloutFinish
<1>9. CASE QueueAdd(h)
  BY <1>9, PlainMove, DispatchFree, CallerPointFree DEF QueueAdd
<1>10. CASE TimerAdd(h)
  <2>1. arg[h] \in Works
    BY <1>10, ArgTyping DEF TimerAdd, WorkPoints
  <2>2. "queue_delayed" \in Ops
    BY <1>10 DEF TimerAdd, Plain
  <2> QED BY <1>10, <2>1, <2>2, ActorsAssumption DEF TimerAdd, Plain
<1> QED
  BY <1>1, <1>2, <1>3, <1>4, <1>5, <1>6, <1>7, <1>8, <1>9, <1>10 DEF
     HelperStep

LEMMA PlainDriver ==
    ASSUME Control, Plain, NEW d \in Drivers, DriverStep(d)
    PROVE  Plain'
<1> USE DEF Control, Goto, queueVars, timerVars, lifeVars, PlainAt,
            ExitPoints
<1>1. CASE QueueAdd(d)
  BY <1>1, PlainMove, DispatchFree, CallerPointFree DEF QueueAdd
<1>2. CASE TimerAdd(d)
  <2>1. arg[d] \in Works
    BY <1>2, ArgTyping DEF TimerAdd, WorkPoints
  <2>2. "queue_delayed" \in Ops
    BY <1>2 DEF TimerAdd, Plain
  <2> QED BY <1>2, <2>1, <2>2, ActorsAssumption DEF TimerAdd, Plain
<1>3. CASE CancelTry(d)
  BY <1>3, PlainMove, ActorsAssumption DEF CancelTry
<1>4. CASE CancelDelTimer(d)
  BY <1>4, PlainMove, ActorsAssumption DEF CancelDelTimer
<1>5. CASE CancelRemove(d)
  BY <1>5, PlainMove, ActorsAssumption DEF CancelRemove, CancelWait, CancelNext
<1>6. CASE CancelNotQueued(d)
  BY <1>6, PlainMove, ActorsAssumption DEF CancelNotQueued, CancelWait,
     CancelNext
<1>7. CASE CancelWoken(d)
  BY <1>7, PlainMove, ActorsAssumption DEF CancelWoken, CancelNext
<1>8. CASE CancelClear(d)
  BY <1>8, PlainMove, ActorsAssumption DEF CancelClear
<1>9. CASE CancelDelayed(d)
  BY <1>9, PlainMove, ActorsAssumption DEF CancelDelayed
<1>10. CASE CancelDelayedClear(d)
  BY <1>10, PlainMove, ActorsAssumption DEF CancelDelayedClear
<1>11. CASE FlushLock(d)
  BY <1>11, PlainMove, ActorsAssumption DEF FlushLock
<1>12. CASE FlushCompleted(d)
  BY <1>12, PlainMove, ActorsAssumption DEF FlushCompleted
<1>13. CASE FlushDrain(d)
  BY <1>13, PlainMove, ActorsAssumption DEF FlushDrain
<1>14. CASE FlushWoken(d)
  BY <1>14, PlainMove, ActorsAssumption DEF FlushWoken
<1>15. CASE FlushUnlock(d)
  BY <1>15, PlainMove, ActorsAssumption DEF FlushUnlock
<1>16. CASE DestroyWait(d)
  <2>1. destroyer # None
    BY <1>16 DEF DestroyWait, Plain
  <2> QED BY <1>16, <2>1, PlainMove, ActorsAssumption DEF DestroyWait
<1>17. CASE DestroyDelTimer(d)
  <2>1. destroyer # None
    BY <1>17 DEF DestroyDelTimer, Plain
  <2> QED BY <1>17, <2>1, PlainMove, ActorsAssumption DEF DestroyDelTimer
<1>18. CASE DestroyFree(d)
  BY <1>18, PlainMove, ActorsAssumption DEF DestroyFree
<1> QED
  BY <1>1, <1>2, <1>3, <1>4, <1>5, <1>6, <1>7, <1>8, <1>9, <1>10, <1>11,
     <1>12, <1>13, <1>14, <1>15, <1>16, <1>17, <1>18 DEF DriverStep

LEMMA PlainStarts ==
    ASSUME Control, Plain, NEW d \in Drivers, DriverStarts(d)
    PROVE  Plain'
<1> USE DEF Control, Goto, queueVars, timerVars, lifeVars, PlainAt,
            ExitPoints
<1>1. CASE \E w \in Works : StartQueue(d, w)
  BY <1>1, PlainMove, ActorsAssumption DEF StartQueue, Claim
<1>2. CASE \E w \in Works : StartQueueDelayed(d, w)
  BY <1>2, PlainMove, ActorsAssumption DEF StartQueueDelayed, Claim
<1>3. CASE \E w \in Works : StartCancel(d, w)
  BY <1>3, PlainMove, ActorsAssumption DEF StartCancel, Begin
<1>4. CASE StartFlush(d)
  BY <1>4, PlainMove, ActorsAssumption DEF StartFlush
<1>5. CASE StartDestroy(d)
  BY <1>5, ActorsAssumption DEF StartDestroy, Plain
<1> QED
  BY <1>1, <1>2, <1>3, <1>4, <1>5 DEF DriverStarts
-----------------------------------------------------------------------------
(* From its start to the freeing of the queue the destroyer is alone: the  *)
(* other drivers are idle, and no work that re-arms itself is left.        *)

ClosePoints == FlushPoints \cup {"f_lock"} \cup ExitPoints

Closed ==
    destroyer # None =>
        /\ \A e \in Drivers : e # destroyer => pc[e] = "idle"
        /\ pc[destroyer] \in ClosePoints \/ freed
        /\ pc[destroyer] \in FlushPoints => arg[destroyer] = Plunger
        /\ \A w \in Rearm : w \notin pending /\ \A h \in Helpers : arg[h] # w

(* While the queue is being destroyed.                                     *)
Destroying ==
    /\ Owner /\ Flushers /\ OnePlunger /\ Plain /\ Closed
    /\ NoDelayedDestroy /\ destroyer # None /\ ~ freed

(* Nothing is queued any more but the plunger of the destroyer.            *)
LEMMA NothingQueued ==
    ASSUME Destroying
    PROVE  /\ \A h \in Helpers : pc[h] \notin {"q_add", "qd_arm"}
           /\ \A t \in Timers : pc[t] # "q_add"
           /\ \A w \in Works : timer[w] = "idle"
           /\ \A h \in Helpers : arg[h] \notin Rearm
           /\ \A d \in Drivers : pc[d] # "idle" =>
                 d = destroyer /\ pc[d] \in ClosePoints
<1>1. "queue_delayed" \notin Ops
  BY DEF Destroying, NoDelayedDestroy, Plain
<1> QED
  BY <1>1 DEF Destroying, Plain, PlainAt, Closed

LEMMA ClosedMove ==
    ASSUME Destroying, destroyer' = destroyer, NEW a \in Actors,
           \A b \in Actors \ {a} : pc'[b] = pc[b] /\ arg'[b] = arg[b],
           a \in Drivers =>
               /\ a = destroyer
               /\ pc'[a] \in ClosePoints \/ freed'
               /\ pc'[a] \in FlushPoints => arg'[a] = Plunger,
           a \in Helpers => arg'[a] \notin Rearm,
           \A w \in Rearm : w \in pending' => w \in pending
    PROVE  Closed'
<1>1. destroyer \in Drivers
  BY DEF Destroying, Owner, Core, Typing, Fields
<1>2. a \notin Drivers => pc'[destroyer] = pc[destroyer]
                          /\ arg'[destroyer] = arg[destroyer]
                          /\ pc[destroyer] \in ClosePoints
  BY <1>1 DEF Destroying, Closed
<1> QED
  BY <1>1, <1>2, ActorsAssumption DEF Destroying, Closed

(* A dispatch of the destroyer returns into flush_workqueue.               *)
LEMMA DestroyerReturns ==
    ASSUME Destroying, NEW a \in Actors, pc[a] \in FlushPoints
    PROVE  /\ a \in Drivers => a = destroyer /\ arg[a] = Plunger
           /\ a \in Drivers => \A T : CallerPoint(a, T) = "f_wait"
<1>1. a \in Drivers => a = destroyer /\ arg[a] = Plunger
  BY NothingQueued DEF Destroying, Closed, FlushPoints, EndPoints
<1> QED BY <1>1, ActorsAssumption DEF CallerPoint

LEMMA ClosedDispatch ==
    ASSUME Destroying, NEW a \in Actors, DispatchStep(a)
    PROVE  Closed'
<1> USE DEF Control, Goto, queueVars, flushVars, lifeVars, itemVars,
            FlushPoints, EndPoints, ExitPoints, ClosePoints
<1>0. Typing
  BY DEF Destroying, Owner, Core
<1> USE DEF Typing
<1>1. CASE SubmitOK(a)
  BY <1>1, <1>0, ClosedMove, NothingQueued, DestroyerReturns
     DEF SubmitOK
<1>2. CASE SubmitFail(a)
  BY <1>2, <1>0, ClosedMove, NothingQueued, DestroyerReturns
     DEF SubmitFail
<1>3. CASE DispatchNext(a)
  <2>1. \A b \in Actors \ {a} : pc'[b] = pc[b]
    BY <1>3, <1>0, DispatchFree, CallerPointFree DEF DispatchNext
  <2>2. a \in Drivers => pc'[a] \in {"d_submit", "f_wait"}
    BY <1>3, <1>0, DestroyerReturns DEF DispatchNext, Dispatch
  <2> QED
    BY <1>3, <1>0, <2>1, <2>2, ClosedMove, NothingQueued, DestroyerReturns
       DEF DispatchNext
<1>4. CASE Unpost(a)
  BY <1>4, <1>0, ClosedMove, NothingQueued, DestroyerReturns
     DEF Unpost
<1>5. CASE ArmDelayTimer(a)
  BY <1>5, <1>0, ClosedMove, NothingQueued, DestroyerReturns
     DEF ArmDelayTimer
<1> QED
  BY <1>1, <1>2, <1>3, <1>4, <1>5 DEF DispatchStep

LEMMA ClosedTimer ==
    ASSUME Destroying, NEW t \in Timers, TimerStep(t)
    PROVE  Closed'
<1> USE DEF Control, Goto, queueVars, flushVars, lifeVars, itemVars,
            FlushPoints, EndPoints, ExitPoints, ClosePoints
<1>0. Typing
  BY DEF Destroying, Owner, Core
<1> USE DEF Typing
<1>1. CASE \E w \in Works : WorkTimerFires(t, w)
  BY <1>1, <1>0, NothingQueued, ActorsAssumption DEF WorkTimerFires
<1>2. CASE DelayTimerFires(t)
  BY <1>2, <1>0, ClosedMove, ActorsAssumption DEF DelayTimerFires
<1>3. CASE DelayTimeout(t)
  BY <1>3, <1>0, ClosedMove, DispatchFree, ActorsAssumption DEF DelayTimeout
<1>4. CASE TimerReturns(t)
  BY <1>4, <1>0, ClosedMove, ActorsAssumption DEF TimerReturns
<1>5. CASE QueueAdd(t)
  BY <1>5, NothingQueued DEF QueueAdd
<1> QED
  BY <1>1, <1>2, <1>3, <1>4, <1>5 DEF TimerStep

LEMMA ClosedHelper ==
    ASSUME Destroying, NEW h \in Helpers, HelperStep(h)
    PROVE  Closed'
<1> USE DEF Control, Goto, queueVars, flushVars, lifeVars, itemVars,
            FlushPoints, EndPoints, ExitPoints, ClosePoints
<1>0. Typing
  BY DEF Destroying, Owner, Core
<1> USE DEF Typing
<1>1. CASE CalloutNothing(h)
  BY <1>1, <1>0, ClosedMove, NothingQueued, ActorsAssumption DEF CalloutNothing
<1>2. CASE CalloutTake(h)
  <2>1. Queued(Head(head)) /\ Head(head) \in Items
    BY <1>2, <1>0, QueueTail DEF CalloutTake, Destroying, OnePlunger, Typing,
       Fields
  <2>2. Head(head) \notin Rearm
    BY <1>0, <2>1, WorksAssumption
       DEF Destroying, Owner, PendingOwner, OwnedOnce, Closed
  <2> QED BY <1>2, <1>0, <2>2, ClosedMove, ActorsAssumption DEF CalloutTake
<1>3. CASE CalloutClear(h)
  BY <1>3, <1>0, ClosedMove, NothingQueued, ActorsAssumption DEF CalloutClear
<1>4. CASE WorkReturns(h)
  BY <1>4, <1>0, ClosedMove, NothingQueued, ActorsAssumption DEF WorkReturns
<1>5. CASE WorkRequeues(h)
  BY <1>5, NothingQueued DEF WorkRequeues
<1>6. CASE PlungerSplice(h)
  BY <1>6, <1>0, ClosedMove, NothingQueued, ActorsAssumption DEF PlungerSplice
<1>7. CASE PlungerComplete(h)
  BY <1>7, <1>0, ClosedMove, NothingQueued, ActorsAssumption
     DEF PlungerComplete
<1>8. CASE CalloutFinish(h)
  BY <1>8, <1>0, ClosedMove, DispatchFree, ActorsAssumption, WorksAssumption
     DEF CalloutFinish
<1>9. CASE QueueAdd(h)
  BY <1>9, NothingQueued DEF QueueAdd
<1>10. CASE TimerAdd(h)
  BY <1>10, NothingQueued DEF TimerAdd
<1> QED
  BY <1>1, <1>2, <1>3, <1>4, <1>5, <1>6, <1>7, <1>8, <1>9, <1>10 DEF
     HelperStep

LEMMA ClosedDriver ==
    ASSUME Destroying, NEW d \in Drivers, DriverStep(d)
    PROVE  Closed'
<1> USE DEF Control, Goto, queueVars, flushVars, lifeVars, itemVars,
            FlushPoints, EndPoints, ExitPoints, ClosePoints
<1>0. Typing
  BY DEF Destroying, Owner, Core
<1> USE DEF Typing
<1>d. pc[d] # "idle" => /\ d = destroyer
                        /\ pc[d] \in FlushPoints => arg[d] = Plunger
  BY NothingQueued DEF Destroying, Closed
<1>1. CASE QueueAdd(d)
  <2>1. arg[d] = Plunger /\ d = destroyer
    BY <1>1, DestroyerReturns DEF QueueAdd
  <2>2. \A b \in Actors \ {d} : pc'[b] = pc[b]
    BY <1>1, <1>0, DispatchFree DEF QueueAdd
  <2>3. pc'[d] \in {"d_submit", "f_wait"}
    BY <1>1, <1>0, <2>1, DestroyerReturns DEF QueueAdd, Dispatch
  <2> QED BY <1>1, <1>0, <2>1, <2>2, <2>3, ClosedMove, ActorsAssumption
             DEF QueueAdd
<1>2. CASE TimerAdd(d)
  BY <1>2, NothingQueued DEF TimerAdd
<1>3. CASE CancelTry(d)
  BY <1>3, NothingQueued DEF CancelTry
<1>4. CASE CancelDelTimer(d)
  BY <1>4, NothingQueued DEF CancelDelTimer
<1>5. CASE CancelRemove(d)
  BY <1>5, NothingQueued DEF CancelRemove
<1>6. CASE CancelNotQueued(d)
  BY <1>6, NothingQueued DEF CancelNotQueued
<1>7. CASE CancelWoken(d)
  BY <1>7, NothingQueued DEF CancelWoken
<1>8. CASE CancelClear(d)
  BY <1>8, NothingQueued DEF CancelClear
<1>9. CASE CancelDelayed(d)
  BY <1>9, NothingQueued DEF CancelDelayed
<1>10. CASE CancelDelayedClear(d)
  BY <1>10, NothingQueued DEF CancelDelayedClear
<1>11. CASE FlushLock(d)
  BY <1>11, <1>0, <1>d, ClosedMove, ActorsAssumption, WorksAssumption
     DEF FlushLock
<1>12. CASE FlushCompleted(d)
  BY <1>12, <1>0, <1>d, ClosedMove, ActorsAssumption DEF FlushCompleted
<1>13. CASE FlushDrain(d)
  BY <1>13, <1>0, <1>d, ClosedMove, ActorsAssumption DEF FlushDrain
<1>14. CASE FlushWoken(d)
  BY <1>14, <1>0, <1>d, ClosedMove, ActorsAssumption DEF FlushWoken
<1>15. CASE FlushUnlock(d)
  BY <1>15, <1>0, <1>d, ClosedMove, ActorsAssumption DEF FlushUnlock
<1>16. CASE DestroyWait(d)
  BY <1>16, <1>0, <1>d, ClosedMove, ActorsAssumption DEF DestroyWait
<1>17. CASE DestroyDelTimer(d)
  BY <1>17, <1>0, <1>d, ClosedMove, ActorsAssumption DEF DestroyDelTimer
<1>18. CASE DestroyFree(d)
  BY <1>18, <1>0, <1>d, ClosedMove, ActorsAssumption DEF DestroyFree
<1> QED
  BY <1>1, <1>2, <1>3, <1>4, <1>5, <1>6, <1>7, <1>8, <1>9, <1>10, <1>11,
     <1>12, <1>13, <1>14, <1>15, <1>16, <1>17, <1>18 DEF DriverStep

LEMMA ClosedStarts ==
    ASSUME Typing, NEW d \in Drivers, DriverStarts(d)
    PROVE  Closed'
<1> USE DEF Typing, Control, Goto, lifeVars
<1>1. CASE StartDestroy(d)
  <2>1. \A w \in Rearm, h \in Helpers : arg[h] # w
    BY <1>1, WorksAssumption DEF StartDestroy, Executing, Tracking
  <2> QED
    BY <1>1, <2>1, ActorsAssumption
       DEF StartDestroy, itemVars, Closed, ClosePoints, FlushPoints, EndPoints
<1>2. CASE ~ StartDestroy(d)
  BY <1>2 DEF DriverStarts, StartQueue, StartQueueDelayed, StartCancel, Claim,
     Begin, StartFlush, Closed
<1> QED BY <1>1, <1>2

-----------------------------------------------------------------------------
(* What the flush of the destroyer leaves: the plunger is the last item    *)
(* that goes in, so the queue is empty when a helper has it, no item is    *)
(* executing when the flush is over, and no request is left after the      *)
(* wait.                                                                   *)

DonePoints == {"x_del", "x_free"}

Emptied ==
    destroyer # None =>
        /\ Queued(Plunger) => head[Len(head)] = Plunger
        /\ (\E h \in Helpers : arg[h] = Plunger) => head = <<>>
        /\ (\E h \in Helpers : pc[h] = "h_compl") => trackList = {}
        /\ flushOwner # None /\ done => head = <<>> /\ trackList = {}
        /\ pc[destroyer] \in ExitPoints => head = <<>> /\ Tracked = {}
        /\ pc[destroyer] \in DonePoints => curPosted = 0

(* A step that leaves the queue and the track lists alone.                 *)
LEMMA EmptiedQuiet ==
    ASSUME Emptied, destroyer # None, destroyer' = destroyer, head' = head,
           UNCHANGED <<trackList, trackFlushList, flushOwner, done>>,
           \A h \in Helpers : arg'[h] = Plunger => arg[h] = Plunger,
           \A h \in Helpers : pc'[h] = "h_compl" => pc[h] = "h_compl",
           pc'[destroyer] \in ExitPoints => pc[destroyer] \in ExitPoints,
           pc'[destroyer] \in DonePoints => curPosted' = 0
    PROVE  Emptied'
<1>1. Queued(Plunger)' <=> Queued(Plunger)
  BY QueueSame
<1> QED BY <1>1 DEF Emptied, Tracked

(* Where the destroyer waits for nothing any more, no request is left.     *)
LEMMA NothingPosted ==
    ASSUME Destroying, Emptied, pc[destroyer] \in DonePoints
    PROVE  /\ submitted = 0 /\ curPosted = 0 /\ qLen = 0
           /\ \A a \in Actors : pc[a] \notin PostPoints
           /\ \A x : ~ PostNeeded(x, qLen, curPosted)
<1>1. curPosted = 0 /\ head = <<>>
  BY DEF Destroying, Emptied, ExitPoints, DonePoints
<1>2. qLen = 0
  BY <1>1 DEF Destroying, Owner, Core, Counting
<1>3. IsFiniteSet({x \in Actors : pc[x] \in PostPoints})
  BY ActorsAssumption, FS_Union, FS_Subset
<1>4. Posted \in Nat
  BY <1>3, FS_CardinalityType DEF Posted, CountAt
<1>5. submitted = 0 /\ Posted = 0
  BY <1>1, <1>4 DEF Destroying, Owner, Core, Typing, Fields, Counting
<1>6. \A a \in Actors : pc[a] \notin PostPoints
  BY <1>3, <1>5, FS_EmptySet DEF Posted, CountAt
<1> QED BY <1>1, <1>2, <1>5, <1>6 DEF PostNeeded

LEMMA EmptiedDispatch ==
    ASSUME Destroying, Emptied, NEW a \in Actors, DispatchStep(a)
    PROVE  Emptied'
<1> USE DEF Control, Goto, queueVars, flushVars, lifeVars, ExitPoints,
            DonePoints
<1>0. Typing /\ destroyer \in Drivers /\ destroyer # None
  BY DEF Destroying, Owner, Core, Typing, Fields
<1> USE DEF Typing
<1>1. CASE SubmitOK(a)
  BY <1>1, <1>0, EmptiedQuiet, NothingPosted, ActorsAssumption DEF SubmitOK
<1>2. CASE SubmitFail(a)
  BY <1>2, <1>0, EmptiedQuiet, NothingPosted, ActorsAssumption DEF SubmitFail
<1>3. CASE DispatchNext(a)
  <2>1. /\ \A b \in Actors \ {a} : pc'[b] = pc[b]
        /\ pc'[a] \in {"d_submit", "t_ret", "h_fin", "f_wait", "idle"}
    BY <1>3, <1>0, DispatchFree, CallerPointFree DEF DispatchNext
  <2>2. pc[destroyer] \in DonePoints => curPosted' = 0
    BY <1>3, NothingPosted DEF DispatchNext, Dispatch
  <2> QED BY <1>3, <1>0, <2>1, <2>2, EmptiedQuiet DEF DispatchNext
<1>4. CASE Unpost(a)
  BY <1>4, <1>0, EmptiedQuiet, NothingPosted, ActorsAssumption
     DEF Unpost, PostPoints
<1>5. CASE ArmDelayTimer(a)
  BY <1>5, <1>0, EmptiedQuiet, NothingPosted, CallerPointFree
     DEF ArmDelayTimer
<1> QED
  BY <1>1, <1>2, <1>3, <1>4, <1>5 DEF DispatchStep

LEMMA EmptiedTimer ==
    ASSUME Destroying, Emptied, NEW t \in Timers, TimerStep(t)
    PROVE  Emptied'
<1> USE DEF Control, Goto, queueVars, flushVars, lifeVars, ExitPoints,
            DonePoints
<1>0. Typing /\ destroyer \in Drivers /\ destroyer # None
  BY DEF Destroying, Owner, Core, Typing, Fields
<1> USE DEF Typing
<1>1. CASE \E w \in Works : WorkTimerFires(t, w)
  BY <1>1, <1>0, NothingQueued, ActorsAssumption DEF WorkTimerFires
<1>2. CASE DelayTimerFires(t)
  BY <1>2, <1>0, EmptiedQuiet, NothingPosted, ActorsAssumption
     DEF DelayTimerFires
<1>3. CASE DelayTimeout(t)
  <2>1. \A b \in Actors \ {t} : pc'[b] = pc[b]
    BY <1>3, <1>0, DispatchFree DEF DelayTimeout
  <2>2. pc[destroyer] \in DonePoints => curPosted' = 0
    BY <1>3, NothingPosted DEF DelayTimeout, Dispatch
  <2> QED BY <1>3, <1>0, <2>1, <2>2, EmptiedQuiet, ActorsAssumption
             DEF DelayTimeout
<1>4. CASE TimerReturns(t)
  BY <1>4, <1>0, EmptiedQuiet, NothingPosted, ActorsAssumption DEF TimerReturns
<1>5. CASE QueueAdd(t)
  BY <1>5, NothingQueued DEF QueueAdd
<1> QED
  BY <1>1, <1>2, <1>3, <1>4, <1>5 DEF TimerStep

LEMMA EmptiedHelper ==
    ASSUME Destroying, Emptied, NEW h \in Helpers, HelperStep(h)
    PROVE  Emptied'
<1> USE DEF Control, Goto, queueVars, flushVars, lifeVars, ExitPoints,
            DonePoints
<1>0. Typing /\ destroyer \in Drivers /\ destroyer # None
  BY DEF Destroying, Owner, Core, Typing, Fields
<1> USE DEF Typing
<1>1. CASE CalloutNothing(h)
  BY <1>1, <1>0, EmptiedQuiet, NothingPosted, ActorsAssumption
     DEF CalloutNothing
<1>2. CASE CalloutTake(h)
  <2>1. /\ head # <<>> /\ head' = Tail(head) /\ trackList' = trackList \cup {h}
        /\ UNCHANGED <<done, flushOwner, destroyer>>
        /\ \A b \in Actors \ {h} : pc'[b] = pc[b] /\ arg'[b] = arg[b]
        /\ pc'[h] = "h_clear" /\ arg'[h] = Head(head)
    BY <1>2, <1>0 DEF CalloutTake
  <2>2. /\ \A g \in Helpers : arg[g] # Plunger
        /\ ~ (flushOwner # None /\ done)
        /\ pc[destroyer] \notin ExitPoints
    BY <1>0, <2>1 DEF Emptied
  <2>3. \A g \in Helpers : pc[g] # "h_compl"
    BY <2>2 DEF Destroying, Flushers, FlushAt
  <2>4. pc'[destroyer] = pc[destroyer]
    BY <1>0, <2>1, ActorsAssumption
  <2>5. QueuedOnce(Plunger) /\ (Queued(Plunger)' <=> Queued(Plunger) /\ Plunger # Head(head))
    BY <1>0, <2>1, QueueTail DEF Destroying, OnePlunger
  <2>6. /\ Len(head) \in Nat \ {0} /\ DOMAIN head = 1..Len(head)
        /\ Head(head) = head[1] /\ Len(head') = Len(head) - 1
        /\ \A j \in 1..(Len(head) - 1) : head'[j] = head[j + 1]
    BY <1>0, <2>1 DEF Fields
  <2>7. Queued(Plunger)' => head'[Len(head')] = Plunger
    <3> SUFFICES ASSUME Queued(Plunger)' PROVE head'[Len(head')] = Plunger
      OBVIOUS
    <3>1. head[Len(head)] = Plunger /\ head[1] # Plunger
      BY <1>0, <2>5, <2>6 DEF Emptied
    <3>2. Len(head) - 1 \in 1..(Len(head) - 1) /\ (Len(head) - 1) + 1 = Len(head)
      BY <2>6, <3>1
    <3> QED BY <2>6, <3>1, <3>2
  <2>8. Head(head) = Plunger => head' = <<>>
    <3> SUFFICES ASSUME Head(head) = Plunger PROVE head' = <<>>
      OBVIOUS
    <3>1. Queued(Plunger)
      BY <1>0, <2>1, <2>5, QueueTail
    <3>2. head[Len(head)] = Plunger /\ head[1] = Plunger
      BY <1>0, <2>6, <3>1 DEF Emptied
    <3>3. Len(head) = 1
      BY <2>5, <2>6, <3>2 DEF QueuedOnce
    <3> QED BY <1>0, <2>1, <2>6, <3>3 DEF Fields
  <2> QED BY <1>0, <2>1, <2>2, <2>3, <2>4, <2>7, <2>8 DEF Emptied, DonePoints
<1>3. CASE CalloutClear(h)
  BY <1>3, <1>0, EmptiedQuiet, NothingPosted, ActorsAssumption DEF CalloutClear
<1>4. CASE WorkReturns(h)
  BY <1>4, <1>0, EmptiedQuiet, NothingPosted, ActorsAssumption DEF WorkReturns
<1>5. CASE WorkRequeues(h)
  BY <1>5, NothingQueued DEF WorkRequeues
<1>6. CASE PlungerSplice(h)
  <2>1. arg[h] = Plunger /\ h \in Tracked
    BY <1>6, <1>0, WorksAssumption DEF PlungerSplice, Tracking
  <2>2. pc[destroyer] \notin ExitPoints /\ pc'[destroyer] = pc[destroyer]
    BY <1>6, <1>0, <2>1, ActorsAssumption DEF PlungerSplice, Emptied
  <2>3. Queued(Plunger)' <=> Queued(Plunger)
    BY <1>6, QueueSame DEF PlungerSplice
  <2>4. UNCHANGED <<head, flushOwner, done, destroyer, arg>> /\ trackList' = {}
    BY <1>6 DEF PlungerSplice
  <2> QED BY <1>0, <2>2, <2>3, <2>4 DEF Emptied
<1>7. CASE PlungerComplete(h)
  <2>1. arg[h] = Plunger
    BY <1>7 DEF PlungerComplete, Destroying, Flushers, FlushAt
  <2>2. head = <<>> /\ trackList = {}
    BY <1>7, <2>1 DEF PlungerComplete, Destroying, Emptied
  <2>3. Queued(Plunger)' <=> Queued(Plunger)
    BY <1>7, QueueSame DEF PlungerComplete
  <2>4. UNCHANGED <<head, trackList, trackFlushList, curPosted, destroyer, arg>>
        /\ pc'[destroyer] = pc[destroyer]
    BY <1>7, <1>0, ActorsAssumption DEF PlungerComplete
  <2> QED BY <1>0, <2>2, <2>3, <2>4 DEF Emptied, Tracked
<1>8. CASE CalloutFinish(h)
  <2>1. /\ Tracked' = Tracked \ {h} /\ trackList' = trackList \ {h}
        /\ UNCHANGED <<head, done, flushOwner, destroyer>>
        /\ \A b \in Actors \ {h} : pc'[b] = pc[b] /\ arg'[b] = arg[b]
        /\ arg'[h] = None /\ pc'[h] # "h_compl"
    BY <1>8, <1>0, DispatchFree DEF CalloutFinish, Tracked
  <2>2. pc'[destroyer] = pc[destroyer]
    BY <1>0, <2>1, ActorsAssumption
  <2>3. pc[destroyer] \in DonePoints => curPosted' = 0
    BY <1>8, NothingPosted DEF CalloutFinish, Dispatch
  <2>4. Queued(Plunger)' <=> Queued(Plunger)
    BY <2>1, QueueSame
  <2> QED BY <1>0, <2>1, <2>2, <2>3, <2>4, WorksAssumption DEF Emptied
<1>9. CASE QueueAdd(h)
  BY <1>9, NothingQueued DEF QueueAdd
<1>10. CASE TimerAdd(h)
  BY <1>10, NothingQueued DEF TimerAdd
<1> QED
  BY <1>1, <1>2, <1>3, <1>4, <1>5, <1>6, <1>7, <1>8, <1>9, <1>10 DEF
     HelperStep

LEMMA EmptiedDriver ==
    ASSUME Destroying, Emptied, NEW d \in Drivers, DriverStep(d)
    PROVE  Emptied'
<1> USE DEF Control, Goto, queueVars, flushVars, lifeVars, ExitPoints,
            DonePoints
<1>0. Typing /\ destroyer \in Drivers /\ destroyer # None
  BY DEF Destroying, Owner, Core, Typing, Fields
<1> USE DEF Typing
<1>d. pc[d] # "idle" => d = destroyer
  BY NothingQueued
<1>1. CASE QueueAdd(d)
  <2>1. arg[d] = Plunger /\ d = destroyer
    BY <1>1, DestroyerReturns DEF QueueAdd, FlushPoints
  <2>2. /\ head' = Append(head, Plunger)
        /\ UNCHANGED <<trackList, flushOwner, done, destroyer>>
    BY <1>1, <2>1 DEF QueueAdd
  <2>3. /\ \A b \in Actors \ {d} : pc'[b] = pc[b]
        /\ pc'[d] \in {"d_submit", "t_ret", "h_fin", "f_wait", "idle"}
    BY <1>1, <1>0, DispatchFree DEF QueueAdd
  <2>4. \A h \in Helpers : arg'[h] = arg[h] /\ pc'[h] = pc[h]
    BY <1>1, <1>0, <2>3, ActorsAssumption DEF QueueAdd
  <2>5. flushOwner = d /\ ~ PlungerSent /\ ~ done
    BY <1>1, <2>1, ActorsAssumption DEF QueueAdd, Destroying, Flushers,
       OnePlunger, PlungerSent
  <2>6. \A h \in Helpers : arg[h] # Plunger
    BY <2>5 DEF Destroying, OnePlunger, PlungerAt
  <2>7. head'[Len(head')] = Plunger
    BY <1>0, <2>2 DEF Fields
  <2> QED BY <2>1, <2>2, <2>3, <2>4, <2>5, <2>6, <2>7 DEF Emptied
<1>2. CASE TimerAdd(d)
  BY <1>2, NothingQueued DEF TimerAdd, ClosePoints, FlushPoints,
     EndPoints
<1>3. CASE CancelTry(d)
  BY <1>3, NothingQueued DEF CancelTry, ClosePoints, FlushPoints,
     EndPoints
<1>4. CASE CancelDelTimer(d)
  BY <1>4, NothingQueued DEF CancelDelTimer, ClosePoints, FlushPoints,
     EndPoints
<1>5. CASE CancelRemove(d)
  BY <1>5, NothingQueued DEF CancelRemove, ClosePoints, FlushPoints,
     EndPoints
<1>6. CASE CancelNotQueued(d)
  BY <1>6, NothingQueued DEF CancelNotQueued, ClosePoints, FlushPoints,
     EndPoints
<1>7. CASE CancelWoken(d)
  BY <1>7, NothingQueued DEF CancelWoken, ClosePoints, FlushPoints,
     EndPoints
<1>8. CASE CancelClear(d)
  BY <1>8, NothingQueued DEF CancelClear, ClosePoints, FlushPoints,
     EndPoints
<1>9. CASE CancelDelayed(d)
  BY <1>9, NothingQueued DEF CancelDelayed, ClosePoints, FlushPoints,
     EndPoints
<1>10. CASE CancelDelayedClear(d)
  BY <1>10, NothingQueued DEF CancelDelayedClear, ClosePoints, FlushPoints,
     EndPoints
<1>11. CASE FlushLock(d)
  <2>1. d = destroyer /\ pc'[d] = "q_add" /\ ~ done'
        /\ UNCHANGED <<head, trackList, trackFlushList, destroyer>>
    BY <1>11, <1>0, <1>d DEF FlushLock
  <2>2. \A h \in Helpers : arg'[h] = arg[h] /\ pc'[h] = pc[h]
    BY <1>11, <1>0, ActorsAssumption DEF FlushLock
  <2>3. Queued(Plunger)' <=> Queued(Plunger)
    BY <2>1, QueueSame
  <2> QED BY <1>0, <2>1, <2>2, <2>3 DEF Emptied
<1>12. CASE FlushCompleted(d)
  BY <1>12, <1>0, <1>d, EmptiedQuiet, NothingPosted, ActorsAssumption
     DEF FlushCompleted, sleepVars
<1>13. CASE FlushDrain(d)
  BY <1>13, <1>0, <1>d, EmptiedQuiet, NothingPosted, ActorsAssumption
     DEF FlushDrain, sleepVars
<1>14. CASE FlushWoken(d)
  BY <1>14, <1>0, <1>d, EmptiedQuiet, NothingPosted, ActorsAssumption
     DEF FlushWoken, sleepVars
<1>15. CASE FlushUnlock(d)
  <2>1. /\ d = destroyer /\ pc'[d] = "x_wait" /\ flushOwner' = None
        /\ UNCHANGED <<head, trackList, trackFlushList, destroyer>>
    BY <1>15, <1>0, <1>d DEF FlushUnlock
  <2>2. \A h \in Helpers : arg'[h] = arg[h] /\ pc'[h] = pc[h]
    BY <1>15, <1>0, ActorsAssumption DEF FlushUnlock
  <2>3. arg[d] = Plunger /\ flushOwner = d /\ done /\ trackFlushList = {}
    BY <1>15 DEF FlushUnlock, Destroying, Flushers, FlushAt, EndPoints,
       OnePlunger, PlungerAt
  <2>4. head = <<>> /\ trackList = {}
    BY <1>0, <2>3, ActorsAssumption DEF Emptied
  <2>5. Queued(Plunger)' <=> Queued(Plunger)
    BY <2>1, QueueSame
  <2> QED BY <1>0, <2>1, <2>2, <2>3, <2>4, <2>5 DEF Emptied, Tracked
<1>16. CASE DestroyWait(d)
  BY <1>16, <1>0, <1>d, EmptiedQuiet, ActorsAssumption DEF DestroyWait,
     NonePosted
<1>17. CASE DestroyDelTimer(d)
  BY <1>17, <1>0, <1>d, EmptiedQuiet, NothingPosted, ActorsAssumption
     DEF DestroyDelTimer, sleepVars
<1>18. CASE DestroyFree(d)
  BY <1>18, <1>0, <1>d, EmptiedQuiet, NothingPosted, ActorsAssumption
     DEF DestroyFree, sleepVars
<1> QED
  BY <1>1, <1>2, <1>3, <1>4, <1>5, <1>6, <1>7, <1>8, <1>9, <1>10, <1>11,
     <1>12, <1>13, <1>14, <1>15, <1>16, <1>17, <1>18 DEF DriverStep

LEMMA EmptiedStarts ==
    ASSUME Typing, Flushers, OnePlunger, NEW d \in Drivers, DriverStarts(d)
    PROVE  Emptied'
<1> USE DEF Typing, Control, Goto, lifeVars
<1>1. CASE StartDestroy(d)
  <2>1. \A e \in Drivers : pc[e] = "idle" /\ arg[e] # Plunger
    BY <1>1 DEF StartDestroy, Flushers, FlushAt, FlushPoints, EndPoints
  <2>2. flushOwner = None
    BY <2>1 DEF Flushers, Fields
  <2>3. ~ Queued(Plunger) /\ \A h \in Helpers : arg[h] # Plunger
    BY <2>2 DEF OnePlunger, PlungerAt, PlungerSent
  <2>4. \A h \in Helpers : pc[h] # "h_compl"
    BY <2>3 DEF Flushers, FlushAt
  <2>5. /\ UNCHANGED <<head, flushOwner, arg>> /\ destroyer' = d
        /\ pc'[d] = "f_lock" /\ \A h \in Helpers : pc'[h] = pc[h]
    BY <1>1, ActorsAssumption DEF StartDestroy, queueVars, flushVars
  <2>6. ~ Queued(Plunger)'
    BY <2>3, <2>5, QueueSame
  <2> QED BY <2>2, <2>3, <2>4, <2>5, <2>6 DEF Emptied, ExitPoints, DonePoints
<1>2. CASE ~ StartDestroy(d)
  BY <1>2 DEF DriverStarts, StartQueue, StartQueueDelayed, StartCancel, Claim,
     Begin, StartFlush, Emptied
<1> QED BY <1>1, <1>2

-----------------------------------------------------------------------------
(* The retry timer is set, or an actor will look at the queue again: a     *)
(* queue with several slots posts in a loop, so whoever is inside the loop *)
(* looks again; a single-threaded queue posts once.                        *)
LookPoints == IF MaxDispatch > 1
              THEN {"d_timer", "t_lock", "d_submit", "d_next", "d_unpost"}
              ELSE {"d_timer", "t_lock"}

Looks == \/ delayTimer = "armed"
         \/ \E a \in Actors : pc[a] \in LookPoints

(* NoStrandedWork is not inductive: a request taken with one item queued   *)
(* behind it leaves that item without one.  With several slots there is a  *)
(* request for every queued item; with one slot the callout that takes the *)
(* item also takes the slot.                                               *)
Served ==
    curDispatch < MaxDispatch =>
        \/ curPosted >= qLen
        \/ MaxDispatch = 1 /\ curPosted > 0
        \/ Looks

(* The dispatch of a locked section serves the queue it leaves.            *)
LEMMA ServedPost ==
    ASSUME Core, NEW a \in Actors, NEW T, NEW cd \in Int, NEW ql \in Int,
           NEW cp \in Nat, Dispatch(a, T, cd, ql, cp),
           curDispatch' = cd, qLen' = ql
    PROVE  Served'
<1>1. CASE PostNeeded(cd, ql, cp)
  <2>1. pc'[a] = "d_submit" /\ curPosted' = cp + 1
    BY <1>1 DEF Dispatch, Goto, Core, Typing, Control
  <2>2. MaxDispatch > 1 => Looks'
    BY <2>1 DEF Looks, LookPoints
  <2> QED BY <2>1, <2>2, ParameterAssumption DEF Served
<1>2. CASE ~ PostNeeded(cd, ql, cp)
  BY <1>2, ParameterAssumption DEF Dispatch, PostNeeded, Served
<1> QED BY <1>1, <1>2

(* curPosted is a count, and a request the pool holds is counted.          *)
LEMMA PostedNat ==
    ASSUME Core
    PROVE  /\ curPosted \in Nat /\ curPosted >= submitted
           /\ \A a \in Actors : pc[a] \in PostPoints => curPosted > 0
<1>1. IsFiniteSet(Actors)
  BY ActorsAssumption, FS_Union
<1>2. IsFiniteSet({x \in Actors : pc[x] \in PostPoints})
  BY <1>1, FS_Subset
<1>3. Posted \in Nat
  BY <1>2, FS_CardinalityType DEF Posted, CountAt
<1>4. \A a \in Actors : pc[a] \in PostPoints => Posted # 0
  BY <1>2, FS_EmptySet DEF Posted, CountAt
<1> QED
  BY <1>3, <1>4 DEF Core, Typing, Fields, Counting

LEMMA TrackedNat ==
    ASSUME Core
    PROVE  curDispatch \in Nat
<1>1. IsFiniteSet(Tracked)
  BY ActorsAssumption, FS_Subset, FS_Union DEF Core, Typing, Fields, Tracked
<1> QED BY <1>1, FS_CardinalityType DEF Core, Counting, InUse

(* The queue is empty when destroy_workqueue deletes the retry timer.      *)
ExitEmpty == \A d \in Drivers : pc[d] = "x_del" => head = <<>>

(* A step of an actor that was not looking, after which there is not less  *)
(* of what the queue is served by.                                         *)
LEMMA ServedKept ==
    ASSUME Core, Served, NEW a \in Actors,
           \A b \in Actors \ {a} : pc'[b] = pc[b],
           pc[a] \notin LookPoints \/ pc'[a] \in LookPoints,
           delayTimer = "armed" => delayTimer' = "armed",
           curDispatch' = curDispatch, curPosted' = curPosted,
           qLen' \in Int, qLen' <= qLen
    PROVE  Served'
<1>1. Looks => Looks'
  BY DEF Looks
<1>2. curPosted \in Nat /\ qLen \in Int
  BY PostedNat DEF Core, Typing, Fields
<1> QED
  BY <1>1, <1>2 DEF Served

LEMMA ServedDispatch ==
    ASSUME Core, Served, ExitEmpty, NEW a \in Actors, DispatchStep(a)
    PROVE  Served'
<1> USE DEF Core, Typing, Fields, Control, Goto, queueVars, sleepVars,
            timerVars, LookPoints
<1>1. CASE SubmitOK(a)
  BY <1>1, ServedKept DEF SubmitOK
<1>2. CASE SubmitFail(a)
  BY <1>2, ServedKept DEF SubmitFail
<1>3. CASE DispatchNext(a)
  <2>1. curPosted \in Nat
    BY PostedNat
  <2>2. CASE MaxDispatch = 1
    BY <1>3, <2>2, ServedKept, CallerPointFits DEF DispatchNext
  <2>3. CASE MaxDispatch # 1
    BY <1>3, <2>1, <2>3, ServedPost DEF DispatchNext
  <2> QED BY <2>2, <2>3
<1>4. CASE Unpost(a)
  <2>1. Looks'
    BY <1>4 DEF Unpost, Looks
  <2> QED BY <2>1 DEF Served
<1>5. CASE ArmDelayTimer(a)
  <2>1. Looks'
    BY <1>5 DEF ArmDelayTimer, RetryTimer, Looks
  <2> QED BY <2>1 DEF Served
<1> QED
  BY <1>1, <1>2, <1>3, <1>4, <1>5 DEF DispatchStep

LEMMA ServedTimer ==
    ASSUME Core, Served, ExitEmpty, NEW t \in Timers, TimerStep(t)
    PROVE  Served'
<1> USE DEF Core, Typing, Fields, Control, Goto, queueVars, sleepVars,
            timerVars, LookPoints
<1>1. CASE \E w \in Works : WorkTimerFires(t, w)
  BY <1>1, ServedKept DEF WorkTimerFires
<1>2. CASE DelayTimerFires(t)
  <2>1. Looks'
    BY <1>2 DEF DelayTimerFires, Looks
  <2> QED BY <2>1 DEF Served
<1>3. CASE DelayTimeout(t)
  <2>1. curPosted \in Nat
    BY PostedNat
  <2> QED BY <1>3, <2>1, ServedPost DEF DelayTimeout
<1>4. CASE TimerReturns(t)
  BY <1>4, ServedKept, ActorsAssumption DEF TimerReturns
<1>5. CASE QueueAdd(t)
  <2>1. curPosted \in Nat /\ qLen + 1 \in Int
    BY PostedNat
  <2> QED BY <1>5, <2>1, ServedPost DEF QueueAdd
<1> QED
  BY <1>1, <1>2, <1>3, <1>4, <1>5 DEF TimerStep

LEMMA ServedHelper ==
    ASSUME Core, Served, ExitEmpty, NEW h \in Helpers, HelperStep(h)
    PROVE  Served'
<1> USE DEF Core, Typing, Fields, Control, Goto, queueVars, sleepVars,
            timerVars, LookPoints
<1>1. CASE CalloutNothing(h)
  <2>1. curPosted \in Nat /\ curPosted >= submitted /\ submitted > 0
    BY <1>1, PostedNat DEF CalloutNothing
  <2>2. head = <<>> => qLen = 0
    BY DEF Counting
  <2>3. Looks' <=> Looks
    BY <1>1 DEF CalloutNothing, Looks
  <2>4. /\ curPosted' = curPosted - 1 /\ UNCHANGED <<qLen, curDispatch>>
        /\ head = <<>> \/ ~ (curDispatch < MaxDispatch)
    BY <1>1, ParameterAssumption DEF CalloutNothing
  <2> QED BY <2>1, <2>2, <2>3, <2>4 DEF Served
<1>2. CASE CalloutTake(h)
  <2>1. Looks => Looks'
    BY <1>2 DEF CalloutTake, Looks
  <2>2. curPosted \in Nat /\ curPosted >= submitted
    BY PostedNat
  <2>3. /\ curPosted' = curPosted - 1 /\ qLen' = qLen - 1
        /\ curDispatch' = curDispatch + 1 /\ curDispatch < MaxDispatch
        /\ curDispatch \in Nat
    BY <1>2, TrackedNat DEF CalloutTake
  <2>4. CASE MaxDispatch = 1
    BY <2>3, <2>4 DEF Served
  <2>5. CASE MaxDispatch # 1
    BY <2>1, <2>2, <2>3, <2>5 DEF Served
  <2> QED BY <2>4, <2>5
<1>3. CASE CalloutClear(h)
  BY <1>3, ServedKept DEF CalloutClear
<1>4. CASE WorkReturns(h)
  BY <1>4, ServedKept DEF WorkReturns
<1>5. CASE WorkRequeues(h)
  BY <1>5, ServedKept DEF WorkRequeues, Claim
<1>6. CASE PlungerSplice(h)
  BY <1>6, ServedKept DEF PlungerSplice, FlushList
<1>7. CASE PlungerComplete(h)
  BY <1>7, ServedKept DEF PlungerComplete
<1>8. CASE CalloutFinish(h)
  <2>1. curPosted \in Nat /\ curDispatch - 1 \in Int
    BY PostedNat
  <2> QED BY <1>8, <2>1, ServedPost DEF CalloutFinish
<1>9. CASE QueueAdd(h)
  <2>1. curPosted \in Nat /\ qLen + 1 \in Int
    BY PostedNat
  <2> QED BY <1>9, <2>1, ServedPost DEF QueueAdd
<1>10. CASE TimerAdd(h)
  BY <1>10, ServedKept DEF TimerAdd
<1> QED
  BY <1>1, <1>2, <1>3, <1>4, <1>5, <1>6, <1>7, <1>8, <1>9, <1>10 DEF
     HelperStep

LEMMA ServedDriver ==
    ASSUME Core, Served, ExitEmpty, NEW d \in Drivers, DriverStep(d)
    PROVE  Served'
<1> USE DEF Core, Typing, Fields, Control, Goto, queueVars, sleepVars,
            timerVars, LookPoints
<1>1. CASE QueueAdd(d)
  <2>1. curPosted \in Nat /\ qLen + 1 \in Int
    BY PostedNat
  <2> QED BY <1>1, <2>1, ServedPost DEF QueueAdd
<1>2. CASE TimerAdd(d)
  BY <1>2, ServedKept DEF TimerAdd
<1>3. CASE CancelTry(d)
  BY <1>3, ServedKept DEF CancelTry
<1>4. CASE CancelDelTimer(d)
  <2>1. /\ UNCHANGED <<queueVars, delayTimer>> /\ pc[d] = "c_del" /\ pc'[d] = "c_lock"
        /\ \A b \in Actors \ {d} : pc'[b] = pc[b]
    BY <1>4 DEF CancelDelTimer
  <2> QED BY <2>1, ServedKept
<1>5. CASE CancelRemove(d)
  BY <1>5, ServedKept DEF CancelRemove, CancelWait, CancelNext
<1>6. CASE CancelNotQueued(d)
  BY <1>6, ServedKept DEF CancelNotQueued, CancelWait, CancelNext
<1>7. CASE CancelWoken(d)
  BY <1>7, ServedKept DEF CancelWoken, CancelNext
<1>8. CASE CancelClear(d)
  BY <1>8, ServedKept DEF CancelClear
<1>9. CASE CancelDelayed(d)
  BY <1>9, ServedKept DEF CancelDelayed
<1>10. CASE CancelDelayedClear(d)
  BY <1>10, ServedKept DEF CancelDelayedClear
<1>11. CASE FlushLock(d)
  BY <1>11, ServedKept DEF FlushLock
<1>12. CASE FlushCompleted(d)
  BY <1>12, ServedKept DEF FlushCompleted
<1>13. CASE FlushDrain(d)
  BY <1>13, ServedKept DEF FlushDrain
<1>14. CASE FlushWoken(d)
  BY <1>14, ServedKept DEF FlushWoken
<1>15. CASE FlushUnlock(d)
  BY <1>15, ServedKept DEF FlushUnlock
<1>16. CASE DestroyWait(d)
  BY <1>16, ServedKept DEF DestroyWait
<1>17. CASE DestroyDelTimer(d)
  <2>1. qLen = 0 /\ curPosted \in Nat
    BY <1>17, PostedNat DEF DestroyDelTimer, ExitEmpty, Counting
  <2> QED BY <1>17, <2>1 DEF DestroyDelTimer, Served
<1>18. CASE DestroyFree(d)
  BY <1>18, ServedKept DEF DestroyFree
<1> QED
  BY <1>1, <1>2, <1>3, <1>4, <1>5, <1>6, <1>7, <1>8, <1>9, <1>10, <1>11,
     <1>12, <1>13, <1>14, <1>15, <1>16, <1>17, <1>18 DEF DriverStep

LEMMA ServedStarts ==
    ASSUME Core, Served, ExitEmpty, NEW d \in Drivers, DriverStarts(d)
    PROVE  Served'
<1> USE DEF Core, Typing, Fields, Control, Goto, queueVars, sleepVars,
            timerVars, LookPoints
<1>0. pc[d] = "idle"
  BY DEF DriverStarts
<1>1. CASE \E w \in Works : StartQueue(d, w)
  BY <1>1, <1>0, ServedKept DEF StartQueue, Claim
<1>2. CASE \E w \in Works : StartQueueDelayed(d, w)
  BY <1>2, <1>0, ServedKept DEF StartQueueDelayed, Claim
<1>3. CASE \E w \in Works : StartCancel(d, w)
  BY <1>3, <1>0, ServedKept DEF StartCancel, Begin
<1>4. CASE StartFlush(d)
  BY <1>4, <1>0, ServedKept DEF StartFlush
<1>5. CASE StartDestroy(d)
  BY <1>5, <1>0, ServedKept DEF StartDestroy
<1> QED
  BY <1>1, <1>2, <1>3, <1>4, <1>5 DEF DriverStarts
-----------------------------------------------------------------------------
(* The theorems                                                            *)

Life == Flush /\ Plain /\ Closed /\ Emptied /\ Served

LEMMA LifeInit == Init => Life
<1> SUFFICES ASSUME Init PROVE Life
  OBVIOUS
<1>1. Plain
  BY DEF Init, Plain, PlainAt, ExitPoints
<1>2. Closed /\ Emptied
  BY DEF Init, Closed, Emptied
<1>3. Served
  BY DEF Init, Served
<1> QED BY <1>1, <1>2, <1>3, FlushInit DEF Life

(* Whoever is at the end of destroy_workqueue is the destroyer.            *)
LEMMA LifeExit ==
    ASSUME Life, NEW d \in Drivers, pc[d] \in ExitPoints
    PROVE  /\ destroyer = d
           /\ head = <<>> /\ Tracked = {}
           /\ pc[d] \in DonePoints => curPosted = 0
<1>1. destroyer # None
  BY DEF Life, Plain, PlainAt
<1>2. destroyer = d
  BY <1>1 DEF Life, Closed, ExitPoints
<1> QED BY <1>1, <1>2 DEF Life, Emptied

(* Only StartDestroy changes the destroyer.                                *)
LEMMA DestroyerKept ==
    /\ \A a \in Actors : DispatchStep(a) => destroyer' = destroyer
    /\ \A t \in Timers : TimerStep(t) => destroyer' = destroyer
    /\ \A h \in Helpers : HelperStep(h) => destroyer' = destroyer
    /\ \A d \in Drivers : DriverStep(d) => destroyer' = destroyer
<1> USE DEF lifeVars
<1>1. \A a \in Actors : DispatchStep(a) => destroyer' = destroyer
  BY DEF DispatchStep, SubmitOK, SubmitFail, DispatchNext, Unpost,
     ArmDelayTimer
<1>2. \A a : QueueAdd(a) \/ TimerAdd(a) => destroyer' = destroyer
  BY DEF QueueAdd, TimerAdd
<1>3. \A t \in Timers : TimerStep(t) => destroyer' = destroyer
  BY <1>2 DEF TimerStep, WorkTimerFires, DelayTimerFires, DelayTimeout,
     TimerReturns
<1>4. \A h \in Helpers : HelperStep(h) => destroyer' = destroyer
  BY <1>2 DEF HelperStep, CalloutNothing, CalloutTake, CalloutClear,
     WorkReturns, WorkRequeues, Claim, PlungerSplice, PlungerComplete,
     CalloutFinish
<1>5. \A d \in Drivers : DriverStep(d) => destroyer' = destroyer
  BY <1>2 DEF DriverStep, CancelTry, CancelDelTimer, CancelRemove,
     CancelNotQueued, CancelWoken, CancelClear, CancelDelayed,
     CancelDelayedClear, FlushLock, FlushCompleted, FlushDrain, FlushWoken,
     FlushUnlock, DestroyWait, DestroyDelTimer, DestroyFree
<1> QED BY <1>1, <1>3, <1>4, <1>5

LEMMA LifeNext ==
    ASSUME NoDelayedDestroy, Life, [Next]_vars
    PROVE  Life'
<1> USE DEF Life
<1>1. Flush' /\ Core /\ Typing /\ Control /\ Flushers /\ OnePlunger
  BY FlushNext DEF Flush, Owner, Core, Typing
<1>2. ExitEmpty
  BY LifeExit DEF ExitEmpty, ExitPoints
<1>3. ASSUME destroyer' = destroyer, destroyer = None
      PROVE  Closed' /\ Emptied'
  BY <1>3 DEF Closed, Emptied
<1>4. ASSUME destroyer # None, ~ freed
      PROVE  Destroying
  BY <1>4 DEF Destroying, Flush
<1>5. ASSUME NEW a \in Actors, DispatchStep(a), ~ freed PROVE Life'
  BY <1>1, <1>2, <1>3, <1>4, <1>5, DestroyerKept, PlainDispatch,
     ClosedDispatch, EmptiedDispatch, ServedDispatch
<1>6. ASSUME NEW t \in Timers, TimerStep(t), ~ freed PROVE Life'
  BY <1>1, <1>2, <1>3, <1>4, <1>6, DestroyerKept, PlainTimer, ClosedTimer,
     EmptiedTimer, ServedTimer
<1>7. ASSUME NEW h \in Helpers, HelperStep(h), ~ freed PROVE Life'
  BY <1>1, <1>2, <1>3, <1>4, <1>7, DestroyerKept, PlainHelper, ClosedHelper,
     EmptiedHelper, ServedHelper
<1>8. ASSUME NEW d \in Drivers, DriverStep(d), ~ freed PROVE Life'
  BY <1>1, <1>2, <1>3, <1>4, <1>8, DestroyerKept, PlainDriver, ClosedDriver,
     EmptiedDriver, ServedDriver
<1>9. ASSUME NEW d \in Drivers, DriverStarts(d) PROVE Life'
  BY <1>1, <1>2, <1>9, PlainStarts, ClosedStarts, EmptiedStarts, ServedStarts
<1>10. ASSUME pc' = pc, arg' = arg, UNCHANGED queueVars, UNCHANGED timerVars,
              UNCHANGED flushVars, UNCHANGED lifeVars, UNCHANGED itemVars
       PROVE  Life'
  <2> USE <1>10 DEF queueVars, timerVars, flushVars, lifeVars, itemVars
  <2>1. Plain'
    BY DEF Plain, PlainAt
  <2>2. Closed'
    BY DEF Closed
  <2>3. Emptied'
    <3>1. Queued(Plunger)' <=> Queued(Plunger)
      BY QueueSame
    <3> QED BY <3>1 DEF Emptied, Tracked
  <2>4. Served'
    BY DEF Served, Looks, LookPoints
  <2> QED BY <1>1, <2>1, <2>2, <2>3, <2>4
<1>11. ASSUME NEW d \in Drivers, SpuriousWakeup(d) PROVE Life'
  BY <1>10, <1>11 DEF SpuriousWakeup
<1>12. CASE UNCHANGED vars
  BY <1>10, <1>12 DEF vars
<1> QED
  BY <1>5, <1>6, <1>7, <1>8, <1>9, <1>11, <1>12 DEF Next

(* The life of the queue, in every reachable state.                        *)
THEOREM LifeInvariant == NoDelayedDestroy /\ Spec => []Life
<1> SUFFICES ASSUME NoDelayedDestroy PROVE Spec => []Life
  OBVIOUS
<1>1. Life /\ [Next]_vars => Life'
  BY LifeNext
<1> QED BY <1>1, LifeInit, PTL DEF Spec

(* The assertions of destroy_workqueue hold when it comes to them: the     *)
(* queue is empty, no request is posted, nobody executes, nobody waits and *)
(* every tracker is free.                                                  *)
THEOREM DestroyAssertsHold == NoDelayedDestroy /\ Spec => []DestroyAsserts
<1>1. Life => DestroyAsserts
  <2> SUFFICES ASSUME Life, NEW d \in Drivers, pc[d] \in DonePoints
               PROVE  /\ qLen = 0 /\ head = <<>>
                      /\ pc[d] = "x_free" =>
                            /\ curDispatch = 0 /\ curPosted = 0 /\ waiting = 0
                            /\ Tracked = {} /\ trackFree = MaxDispatch
    BY DEF DestroyAsserts, DonePoints
  <2>1. destroyer = d /\ head = <<>> /\ Tracked = {} /\ curPosted = 0
    BY LifeExit DEF ExitPoints, DonePoints
  <2>2. Core /\ Control /\ Fields
    BY DEF Life, Flush, Owner, Core, Typing
  <2>3. qLen = 0
    BY <2>1, <2>2 DEF Core, Counting
  <2>4. curDispatch = 0 /\ trackFree = MaxDispatch
    BY <2>1, <2>2, FS_EmptySet, ParameterAssumption DEF Core, Counting, InUse
  <2>5. \A a \in Actors : pc[a] \notin SleepPoints
    <3>1. \A e \in Drivers : pc[e] \notin SleepPoints
      BY <2>1, ActorsAssumption DEF Life, Closed, SleepPoints, DonePoints
    <3>2. \A a \in Helpers \cup Timers : pc[a] \notin SleepPoints
      BY <2>2 DEF Control, KindPoint, HelperPoints, TimerPoints, SleepPoints
    <3> QED BY <3>1, <3>2
  <2>6. waiting = 0
    <3>1. {x \in Actors : pc[x] \in SleepPoints} = {}
      BY <2>5
    <3> QED BY <2>2, <3>1, FS_EmptySet DEF Core, Counting, Slept, CountAt
  <2> QED BY <2>1, <2>3, <2>4, <2>6
<1> QED BY <1>1, LifeInvariant, PTL

(* Work is never stranded: while an item is queued and a slot is free, a   *)
(* request is posted, the retry timer is set, or an actor will look again, *)
(* also when vmk_HelperSubmitRequest refuses requests.                     *)
THEOREM NoStrandedWorkHolds == NoDelayedDestroy /\ Spec => []NoStrandedWork
<1>1. Life => NoStrandedWork
  <2> SUFFICES ASSUME Life, head # <<>>, curDispatch < MaxDispatch
               PROVE  \/ curPosted > 0 \/ delayTimer = "armed"
                      \/ \E a \in Actors : \/ pc[a] \in {"d_timer", "t_lock"}
                                           \/ pc[a] = "d_next" /\ MaxDispatch > 1
    BY DEF NoStrandedWork
  <2>0. Core /\ Served
    BY DEF Life, Flush, Owner
  <2>1. qLen > 0 /\ qLen \in Int
    BY <2>0 DEF Core, Typing, Fields, Counting
  <2>2. curPosted \in Nat
    BY <2>0, PostedNat
  <2>3. \A a \in Actors : pc[a] \in {"d_submit", "d_unpost"} => curPosted > 0
    BY <2>0, PostedNat DEF PostPoints
  <2> QED BY <2>0, <2>1, <2>2, <2>3 DEF Served, Looks, LookPoints
<1> QED BY <1>1, LifeInvariant, PTL
=============================================================================
