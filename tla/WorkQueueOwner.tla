-------------------------- MODULE WorkQueueOwner ---------------------------
(***************************************************************************)
(* Proofs about WorkQueue, continued: the PENDING bit of a work is a lock  *)
(* with one owner, and cancel_work_sync returns only when the work is at   *)
(* rest.                                                                   *)
(***************************************************************************)
EXTENDS WorkQueueProofs

USE DEF Items, Actors

(* A canceller that has the bit is past its attempts to get it, and one    *)
(* that is about to clear it has it.                                       *)
Grabbing ==
    /\ \A d \in grabbed : pc[d] \in {"c_lock", "c_sleep", "c_clear"}
    /\ \A d \in Drivers : pc[d] = "c_clear" => d \in grabbed

(* A step of actor a leaves the other actors where they are.               *)
Alone(a) == \A b \in Actors \ {a} : /\ pc'[b] = pc[b] /\ arg'[b] = arg[b]
                                    /\ b \in grabbed' <=> b \in grabbed

(* A step of actor a does nothing to the bit of work w or to its place.    *)
Keeps(a, w) ==
    /\ w \in pending' <=> w \in pending
    /\ Queued(w)' <=> Queued(w)
    /\ QueuedOnce(w) => QueuedOnce(w)'
    /\ Armed(w)' <=> Armed(w)
    /\ Holds(a, w)' <=> Holds(a, w)

LEMMA AloneHolds ==
    ASSUME NEW a \in Actors, Alone(a), NEW b \in Actors, b # a, NEW w
    PROVE  Holds(b, w)' <=> Holds(b, w)
BY DEF Alone, Holds

(* A work that a step of a keeps has the owner it had.                     *)
LEMMA OwnKept ==
    ASSUME NEW w \in Works, OwnedOnce(w), NEW a \in Actors, Alone(a), Keeps(a, w)
    PROVE  OwnedOnce(w)'
<1>1. \A b \in Actors : Holds(b, w)' <=> Holds(b, w)
  BY AloneHolds DEF Keeps
<1> QED BY <1>1 DEF OwnedOnce, Keeps

(* The bit of w goes to or from the queue, the timer or the actor a.       *)
LEMMA OwnShift ==
    ASSUME NEW w \in Works, OwnedOnce(w), NEW a \in Actors, Alone(a),
           Queued(w) \/ Armed(w) \/ Holds(a, w) \/ w \notin pending,
           w \in pending' <=> Queued(w)' \/ Armed(w)' \/ Holds(a, w)',
           ~ (Queued(w)' /\ Armed(w)'),
           Holds(a, w)' => ~ Queued(w)' /\ ~ Armed(w)',
           QueuedOnce(w)'
    PROVE  OwnedOnce(w)'
<1>1. \A b \in Actors : b # a => ~ Holds(b, w)
  BY DEF OwnedOnce
<1>2. \A b \in Actors : b # a => ~ Holds(b, w)'
  BY <1>1, AloneHolds
<1> QED BY <1>2 DEF OwnedOnce

(* A step that keeps every work, or every work but x, whose bit it moves.  *)
LEMMA OwnQuiet ==
    ASSUME PendingOwner, NEW a \in Actors, Alone(a), \A w \in Works : Keeps(a, w)
    PROVE  PendingOwner'
BY OwnKept DEF PendingOwner

LEMMA OwnMoves ==
    ASSUME PendingOwner, NEW a \in Actors, Alone(a), NEW x \in Works,
           \A w \in Works \ {x} : Keeps(a, w), OwnedOnce(x)'
    PROVE  PendingOwner'
BY OwnKept DEF PendingOwner

(* What the three changes of the queue do to a work.                       *)
LEMMA QueueSame ==
    ASSUME head' = head, NEW w
    PROVE  /\ Queued(w)' <=> Queued(w)
           /\ QueuedOnce(w)' <=> QueuedOnce(w)
BY DEF Queued, QueuedOnce

LEMMA QueueAppend ==
    ASSUME Fields, NEW x \in Items, head' = Append(head, x), NEW w
    PROVE  /\ Queued(w)' <=> Queued(w) \/ w = x
           /\ QueuedOnce(w) /\ (w = x => ~ Queued(w)) => QueuedOnce(w)'
<1>1. /\ Len(head') = Len(head) + 1 /\ Len(head) \in Nat
      /\ DOMAIN head' = 1..(Len(head) + 1) /\ DOMAIN head = 1..Len(head)
      /\ head'[Len(head) + 1] = x
      /\ \A i \in 1..Len(head) : head'[i] = head[i]
  BY DEF Fields
<1> QED BY <1>1 DEF Queued, QueuedOnce, Contains

LEMMA QueueTail ==
    ASSUME Fields, head # <<>>, head' = Tail(head), NEW w, QueuedOnce(w)
    PROVE  /\ Queued(w)' <=> Queued(w) /\ w # Head(head)
           /\ QueuedOnce(w)'
           /\ Queued(Head(head))
<1>1. /\ Len(head') = Len(head) - 1 /\ Len(head) \in Nat \ {0}
      /\ DOMAIN head' = 1..(Len(head) - 1) /\ DOMAIN head = 1..Len(head)
      /\ Head(head) = head[1]
      /\ \A i \in 1..(Len(head) - 1) : head'[i] = head[i + 1]
  BY DEF Fields
<1>2. \A i \in 1..Len(head) : i # 1 => i - 1 \in 1..(Len(head) - 1) /\ (i - 1) + 1 = i
  BY <1>1
<1>3. \A i \in 1..(Len(head) - 1) : i + 1 \in 1..Len(head) /\ i + 1 # 1
  BY <1>1
<1>4. Queued(w)' => Queued(w) /\ w # Head(head)
  BY <1>1, <1>3 DEF Queued, QueuedOnce, Contains
<1>5. Queued(w) /\ w # Head(head) => Queued(w)'
  BY <1>1, <1>2 DEF Queued, Contains
<1>6. QueuedOnce(w)'
  BY <1>1, <1>3 DEF QueuedOnce
<1>7. Queued(Head(head))
  BY <1>1 DEF Queued, Contains
<1> QED BY <1>4, <1>5, <1>6, <1>7

LEMMA QueueRemove ==
    ASSUME Fields, NEW k \in DOMAIN head, head' = RemoveAt(head, k), NEW w,
           QueuedOnce(w)
    PROVE  /\ Queued(w)' <=> Queued(w) /\ w # head[k]
           /\ QueuedOnce(w)'
           /\ Queued(head[k])
<1>1. /\ Len(head') = Len(head) - 1 /\ Len(head) \in Nat \ {0}
      /\ DOMAIN head' = 1..(Len(head) - 1) /\ DOMAIN head = 1..Len(head)
      /\ k \in 1..Len(head)
      /\ \A i \in 1..(Len(head) - 1) : head'[i] = IF i < k THEN head[i] ELSE head[i + 1]
  BY RemoveAtFacts DEF Fields
<1>2. \A i \in 1..Len(head) :
         /\ i < k => i \in 1..(Len(head) - 1)
         /\ i > k => i - 1 \in 1..(Len(head) - 1) /\ ~ (i - 1 < k) /\ (i - 1) + 1 = i
  BY <1>1
<1>3. \A i \in 1..(Len(head) - 1) :
         /\ i \in 1..Len(head) /\ i + 1 \in 1..Len(head)
         /\ i < k => i # k
         /\ ~ (i < k) => i + 1 # k
  BY <1>1
<1>4. Queued(w)' => Queued(w) /\ w # head[k]
  BY <1>1, <1>3 DEF Queued, QueuedOnce, Contains
<1>5. Queued(w) /\ w # head[k] => Queued(w)'
  <2> SUFFICES ASSUME NEW i \in 1..Len(head), head[i] = w, w # head[k]
               PROVE  \E l \in 1..(Len(head) - 1) : head'[l] = w
    BY <1>1 DEF Queued, Contains
  <2>1. CASE i < k
    BY <2>1, <1>1, <1>2
  <2>2. CASE i > k
    BY <2>2, <1>1, <1>2
  <2> QED BY <2>1, <2>2, <1>1
<1>6. QueuedOnce(w)'
  <2> SUFFICES ASSUME NEW i \in 1..(Len(head) - 1), NEW l \in 1..(Len(head) - 1),
                      head'[i] = w, head'[l] = w
               PROVE  i = l
    BY <1>1 DEF QueuedOnce
  <2>0. \A x, y \in 1..Len(head) : head[x] = w /\ head[y] = w => x = y
    BY <1>1 DEF QueuedOnce
  <2>1. /\ i \in 1..Len(head) /\ i + 1 \in 1..Len(head)
        /\ l \in 1..Len(head) /\ l + 1 \in 1..Len(head)
    BY <1>3
  <2>2. CASE i < k /\ l < k
    <3>1. head[i] = w /\ head[l] = w
      BY <2>2, <1>1
    <3> QED BY <3>1, <2>0, <2>1
  <2>3. CASE i < k /\ ~ (l < k)
    <3>1. head[i] = w /\ head[l + 1] = w
      BY <2>3, <1>1
    <3>2. i = l + 1
      BY <3>1, <2>0, <2>1
    <3> QED BY <3>2, <2>3, <1>1
  <2>4. CASE ~ (i < k) /\ l < k
    <3>1. head[i + 1] = w /\ head[l] = w
      BY <2>4, <1>1
    <3>2. i + 1 = l
      BY <3>1, <2>0, <2>1
    <3> QED BY <3>2, <2>4, <1>1
  <2>5. CASE ~ (i < k) /\ ~ (l < k)
    <3>1. head[i + 1] = w /\ head[l + 1] = w
      BY <2>5, <1>1
    <3>2. i + 1 = l + 1
      BY <3>1, <2>0, <2>1
    <3> QED BY <3>2
  <2> QED BY <2>2, <2>3, <2>4, <2>5
<1>7. Queued(head[k])
  BY <1>1 DEF Queued, Contains
<1> QED BY <1>4, <1>5, <1>6, <1>7

(* Dispatch moves only its caller, which holds no bit afterwards.          *)
LEMMA CallerPointFree ==
    ASSUME NEW a, NEW T
    PROVE  CallerPoint(a, T) \in {"t_ret", "h_fin", "f_wait", "idle"}
BY DEF CallerPoint

LEMMA DispatchFree ==
    ASSUME Control, NEW a \in Actors, NEW T, NEW x, NEW y, NEW z, Dispatch(a, T, x, y, z)
    PROVE  /\ \A b \in Actors \ {a} : pc'[b] = pc[b]
           /\ pc'[a] \in {"d_submit", "t_ret", "h_fin", "f_wait", "idle"}
BY CallerPointFree DEF Dispatch, Goto, Control

-----------------------------------------------------------------------------
(* Every step keeps a canceller with the bit where it may be.              *)

LEMMA GrabDispatch ==
    ASSUME Typing, Grabbing, NEW a \in Actors, DispatchStep(a)
    PROVE  Grabbing'
<1> USE DEF Grabbing, Typing, Fields, Control, Goto, KindPoint, DriverPoints,
            HelperPoints, TimerPoints, queueVars, sleepVars, itemVars,
            timerVars, flushVars, lifeVars, callVars
<1>1. CASE SubmitOK(a)
  BY <1>1 DEF SubmitOK
<1>2. CASE SubmitFail(a)
  BY <1>2 DEF SubmitFail
<1>3. CASE DispatchNext(a)
  BY <1>3 DEF DispatchNext, Dispatch, CallerPoint, Tracked
<1>4. CASE Unpost(a)
  BY <1>4 DEF Unpost
<1>5. CASE ArmDelayTimer(a)
  BY <1>5 DEF ArmDelayTimer, CallerPoint, RetryTimer, Tracked
<1> QED
  BY <1>1, <1>2, <1>3, <1>4, <1>5 DEF DispatchStep

LEMMA GrabTimer ==
    ASSUME Typing, Grabbing, NEW t \in Timers, TimerStep(t)
    PROVE  Grabbing'
<1> USE DEF Grabbing, Typing, Fields, Control, Goto, KindPoint, DriverPoints,
            HelperPoints, TimerPoints, queueVars, sleepVars, itemVars,
            timerVars, flushVars, lifeVars, callVars
<1>1. CASE \E w \in Works : WorkTimerFires(t, w)
  BY <1>1 DEF WorkTimerFires
<1>2. CASE DelayTimerFires(t)
  BY <1>2 DEF DelayTimerFires
<1>3. CASE DelayTimeout(t)
  BY <1>3 DEF DelayTimeout, Dispatch, CallerPoint
<1>4. CASE TimerReturns(t)
  BY <1>4 DEF TimerReturns
<1>5. CASE QueueAdd(t)
  BY <1>5, DispatchFree DEF QueueAdd
<1> QED
  BY <1>1, <1>2, <1>3, <1>4, <1>5 DEF TimerStep

LEMMA GrabHelper ==
    ASSUME Typing, Grabbing, NEW h \in Helpers, HelperStep(h)
    PROVE  Grabbing'
<1> USE DEF Grabbing, Typing, Fields, Control, Goto, KindPoint, DriverPoints,
            HelperPoints, TimerPoints, queueVars, sleepVars, itemVars,
            timerVars, flushVars, lifeVars, callVars
<1>1. CASE CalloutNothing(h)
  BY <1>1 DEF CalloutNothing, WokenWhenDrained
<1>2. CASE CalloutTake(h)
  BY <1>2 DEF CalloutTake
<1>3. CASE CalloutClear(h)
  BY <1>3 DEF CalloutClear
<1>4. CASE WorkReturns(h)
  BY <1>4 DEF WorkReturns
<1>5. CASE WorkRequeues(h)
  BY <1>5 DEF WorkRequeues, Claim
<1>6. CASE PlungerSplice(h)
  BY <1>6 DEF PlungerSplice, FlushList
<1>7. CASE PlungerComplete(h)
  BY <1>7 DEF PlungerComplete
<1>8. CASE CalloutFinish(h)
  BY <1>8 DEF CalloutFinish, Dispatch, CallerPoint, Tracked, WokenAtFinish
<1>9. CASE QueueAdd(h)
  BY <1>9, DispatchFree DEF QueueAdd
<1>10. CASE TimerAdd(h)
  BY <1>10 DEF TimerAdd
<1> QED
  BY <1>1, <1>2, <1>3, <1>4, <1>5, <1>6, <1>7, <1>8, <1>9, <1>10
     DEF HelperStep

LEMMA GrabDriver ==
    ASSUME Typing, Grabbing, NEW d \in Drivers, DriverStep(d)
    PROVE  Grabbing'
<1> USE DEF Grabbing, Typing, Fields, Control, Goto, KindPoint, DriverPoints,
            HelperPoints, TimerPoints, queueVars, sleepVars, itemVars,
            timerVars, flushVars, lifeVars, callVars
<1>1. CASE QueueAdd(d)
  BY <1>1, DispatchFree DEF QueueAdd
<1>2. CASE TimerAdd(d)
  BY <1>2 DEF TimerAdd
<1>3. CASE CancelTry(d)
  BY <1>3 DEF CancelTry
<1>4. CASE CancelDelTimer(d)
  BY <1>4 DEF CancelDelTimer
<1>5. CASE CancelRemove(d)
  BY <1>5 DEF CancelRemove, CancelWait, CancelNext, Executing
<1>6. CASE CancelNotQueued(d)
  BY <1>6 DEF CancelNotQueued, CancelWait, CancelNext, Executing
<1>7. CASE CancelWoken(d)
  BY <1>7 DEF CancelWoken, CancelNext, Executing
<1>8. CASE CancelClear(d)
  BY <1>8 DEF CancelClear
<1>9. CASE CancelDelayed(d)
  BY <1>9 DEF CancelDelayed
<1>10. CASE CancelDelayedClear(d)
  BY <1>10 DEF CancelDelayedClear
<1>11. CASE FlushLock(d)
  BY <1>11 DEF FlushLock
<1>12. CASE FlushCompleted(d)
  BY <1>12 DEF FlushCompleted
<1>13. CASE FlushDrain(d)
  BY <1>13 DEF FlushDrain
<1>14. CASE FlushWoken(d)
  BY <1>14 DEF FlushWoken
<1>15. CASE FlushUnlock(d)
  BY <1>15 DEF FlushUnlock
<1>16. CASE DestroyWait(d)
  BY <1>16 DEF DestroyWait
<1>17. CASE DestroyDelTimer(d)
  BY <1>17 DEF DestroyDelTimer
<1>18. CASE DestroyFree(d)
  BY <1>18 DEF DestroyFree
<1> QED
  BY <1>1, <1>2, <1>3, <1>4, <1>5, <1>6, <1>7, <1>8, <1>9, <1>10, <1>11,
     <1>12, <1>13, <1>14, <1>15, <1>16, <1>17, <1>18 DEF DriverStep

LEMMA GrabStarts ==
    ASSUME Typing, Grabbing, NEW d \in Drivers, DriverStarts(d)
    PROVE  Grabbing'
<1> USE DEF Grabbing, Typing, Fields, Control, Goto, KindPoint, DriverPoints,
            HelperPoints, TimerPoints, queueVars, sleepVars, itemVars,
            timerVars, flushVars, lifeVars, callVars
<1>0. pc[d] = "idle"
  BY DEF DriverStarts
<1>1. CASE \E w \in Works : StartQueue(d, w)
  BY <1>1, <1>0 DEF StartQueue, Claim
<1>2. CASE \E w \in Works : StartQueueDelayed(d, w)
  BY <1>2, <1>0 DEF StartQueueDelayed, Claim
<1>3. CASE \E w \in Works : StartCancel(d, w)
  BY <1>3, <1>0 DEF StartCancel, Begin
<1>4. CASE StartFlush(d)
  BY <1>4, <1>0 DEF StartFlush
<1>5. CASE StartDestroy(d)
  BY <1>5, <1>0 DEF StartDestroy
<1> QED
  BY <1>1, <1>2, <1>3, <1>4, <1>5 DEF DriverStarts

-----------------------------------------------------------------------------
(* Every step keeps one owner of each bit.                                 *)

LEMMA OwnerDispatch ==
    ASSUME Typing, Grabbing, PendingOwner, NEW a \in Actors, DispatchStep(a)
    PROVE  PendingOwner'
<1> USE DEF Grabbing, Typing, Fields, Control, Goto, KindPoint, DriverPoints,
            HelperPoints, TimerPoints, WorkPoints, ItemPoints, queueVars,
            sleepVars, itemVars, timerVars, flushVars, lifeVars, callVars
<1>1. CASE SubmitOK(a)
  <2>1. Alone(a) /\ head' = head
    BY <1>1 DEF SubmitOK, Alone
  <2>2. \A w \in Works : Keeps(a, w)
    BY <1>1, <2>1, QueueSame, WorksAssumption, ActorsAssumption DEF SubmitOK,
       Keeps, Holds, Armed, ArgPoint
  <2> QED BY <2>1, <2>2, OwnQuiet
<1>2. CASE SubmitFail(a)
  <2>1. Alone(a) /\ head' = head
    BY <1>2 DEF SubmitFail, Alone
  <2>2. \A w \in Works : Keeps(a, w)
    BY <1>2, <2>1, QueueSame, WorksAssumption, ActorsAssumption
       DEF SubmitFail, Keeps, Holds, Armed, ArgPoint
  <2> QED BY <2>1, <2>2, OwnQuiet
<1>3. CASE DispatchNext(a)
  <2>1. Alone(a) /\ head' = head
    BY <1>3, DispatchFree, CallerPointFree DEF DispatchNext, Alone
  <2>2. \A w \in Works : Keeps(a, w)
    BY <1>3, DispatchFree, CallerPointFree, <2>1, QueueSame, WorksAssumption,
       ActorsAssumption DEF DispatchNext, Keeps, Holds, Armed, ArgPoint
  <2> QED BY <2>1, <2>2, OwnQuiet
<1>4. CASE Unpost(a)
  <2>1. Alone(a) /\ head' = head
    BY <1>4 DEF Unpost, Alone
  <2>2. \A w \in Works : Keeps(a, w)
    BY <1>4, <2>1, QueueSame, WorksAssumption, ActorsAssumption DEF Unpost,
       Keeps, Holds, Armed, ArgPoint
  <2> QED BY <2>1, <2>2, OwnQuiet
<1>5. CASE ArmDelayTimer(a)
  <2>1. Alone(a) /\ head' = head
    BY <1>5 DEF ArmDelayTimer, CallerPoint, RetryTimer, Tracked, Alone
  <2>2. \A w \in Works : Keeps(a, w)
    BY <1>5, <2>1, QueueSame, WorksAssumption, ActorsAssumption
       DEF ArmDelayTimer, CallerPoint, RetryTimer, Tracked, Keeps, Holds,
       Armed, ArgPoint
  <2> QED BY <2>1, <2>2, OwnQuiet
<1> QED
  BY <1>1, <1>2, <1>3, <1>4, <1>5 DEF DispatchStep

LEMMA OwnerTimer ==
    ASSUME Typing, Grabbing, PendingOwner, NEW t \in Timers, TimerStep(t)
    PROVE  PendingOwner'
<1> USE DEF Grabbing, Typing, Fields, Control, Goto, KindPoint, DriverPoints,
            HelperPoints, TimerPoints, WorkPoints, ItemPoints, queueVars,
            sleepVars, itemVars, timerVars, flushVars, lifeVars, callVars
<1>1. CASE \E w \in Works : WorkTimerFires(t, w)
  <2>0. PICK y \in Works : WorkTimerFires(t, y)
    BY <1>1
  <2>1. Alone(t) /\ head' = head /\ y \in Works
    BY <2>0, ArgTyping DEF WorkTimerFires, Alone
  <2>2. \A w \in Works : w # y => Keeps(t, w)
    BY <2>0, <2>1, QueueSame, WorksAssumption DEF WorkTimerFires, Keeps,
       Holds, Armed
  <2>3. OwnedOnce(y) /\ Armed(y)
    BY <2>0, <2>1 DEF WorkTimerFires, PendingOwner, Holds, Armed
  <2>4. QueuedOnce(y) /\ ~ Queued(y) /\ y \in pending
    BY <2>3 DEF OwnedOnce
  <2>5. \A x \in Works : x = y =>
           ~ Queued(x)' /\ ~ Armed(x)' /\ Holds(t, x)' /\ x \in pending'
           /\ QueuedOnce(x)'
    BY <2>0, <2>1, <2>3, <2>4, QueueSame, ActorsAssumption DEF WorkTimerFires,
       Holds, Armed
  <2>6. \A x \in Works : x = y => OwnedOnce(x)'
    BY <2>1, <2>3, <2>5, OwnShift
  <2> QED BY <2>1, <2>2, <2>6, OwnMoves
<1>2. CASE DelayTimerFires(t)
  <2>1. Alone(t) /\ head' = head
    BY <1>2 DEF DelayTimerFires, Alone
  <2>2. \A w \in Works : Keeps(t, w)
    BY <1>2, <2>1, QueueSame, WorksAssumption, ActorsAssumption
       DEF DelayTimerFires, Keeps, Holds, Armed, ArgPoint
  <2> QED BY <2>1, <2>2, OwnQuiet
<1>3. CASE DelayTimeout(t)
  <2>1. Alone(t) /\ head' = head
    BY <1>3, DispatchFree, CallerPointFree DEF DelayTimeout, Alone
  <2>2. \A w \in Works : Keeps(t, w)
    BY <1>3, DispatchFree, CallerPointFree, <2>1, QueueSame, WorksAssumption,
       ActorsAssumption DEF DelayTimeout, Keeps, Holds, Armed, ArgPoint
  <2> QED BY <2>1, <2>2, OwnQuiet
<1>4. CASE TimerReturns(t)
  <2>1. Alone(t) /\ head' = head
    BY <1>4 DEF TimerReturns, Alone
  <2>2. \A w \in Works : Keeps(t, w)
    BY <1>4, <2>1, QueueSame, WorksAssumption, ActorsAssumption
       DEF TimerReturns, Keeps, Holds, Armed, ArgPoint
  <2> QED BY <2>1, <2>2, OwnQuiet
<1>5. CASE QueueAdd(t)
  <2>1. /\ Alone(t) /\ arg[t] \in Items
        /\ pc'[t] \in {"d_submit", "t_ret", "h_fin", "f_wait", "idle"}
        /\ t \notin grabbed /\ t \notin grabbed'
    BY <1>5, DispatchFree, ArgTyping DEF QueueAdd, Alone
  <2>2. \A w \in Works : w # arg[t] => Keeps(t, w)
    BY <1>5, <2>1, QueueAppend, WorksAssumption DEF QueueAdd, Keeps, Holds,
       Armed
  <2>3. CASE arg[t] = Plunger
    BY <2>1, <2>2, <2>3, OwnQuiet, WorksAssumption
  <2>4. CASE arg[t] \in Works
    <3>1. Holds(t, arg[t]) /\ OwnedOnce(arg[t])
      BY <1>5, <2>4 DEF QueueAdd, Holds, PendingOwner
    <3>2. ~ Queued(arg[t]) /\ ~ Armed(arg[t]) /\ QueuedOnce(arg[t])
          /\ arg[t] \in pending
      BY <3>1 DEF OwnedOnce
    <3>3. \A x \in Works : x = arg[t] =>
             Queued(x)' /\ ~ Armed(x)' /\ ~ Holds(t, x)' /\ QueuedOnce(x)'
             /\ x \in pending'
      BY <1>5, <2>1, <3>2, QueueAppend DEF QueueAdd, Holds, Armed
    <3>4. \A x \in Works : x = arg[t] => OwnedOnce(x)'
      BY <2>1, <3>1, <3>3, OwnShift
    <3> QED BY <2>1, <2>2, <2>4, <3>4, OwnMoves
  <2> QED BY <2>1, <2>3, <2>4
<1> QED
  BY <1>1, <1>2, <1>3, <1>4, <1>5 DEF TimerStep

LEMMA OwnerHelper ==
    ASSUME Typing, Grabbing, PendingOwner, NEW h \in Helpers, HelperStep(h)
    PROVE  PendingOwner'
<1> USE DEF Grabbing, Typing, Fields, Control, Goto, KindPoint, DriverPoints,
            HelperPoints, TimerPoints, WorkPoints, ItemPoints, queueVars,
            sleepVars, itemVars, timerVars, flushVars, lifeVars, callVars
<1>1. CASE CalloutNothing(h)
  <2>1. Alone(h) /\ head' = head
    BY <1>1 DEF CalloutNothing, WokenWhenDrained, Alone
  <2>2. \A w \in Works : Keeps(h, w)
    BY <1>1, <2>1, QueueSame, WorksAssumption, ActorsAssumption
       DEF CalloutNothing, WokenWhenDrained, Keeps, Holds, Armed, ArgPoint
  <2> QED BY <2>1, <2>2, OwnQuiet
<1>2. CASE CalloutTake(h)
  <2>1. /\ Alone(h) /\ Head(head) \in Items /\ h \notin grabbed
        /\ arg'[h] = Head(head) /\ pc'[h] = "h_clear"
    BY <1>2, ActorsAssumption DEF CalloutTake, Alone
  <2>2. \A w \in Works : w # Head(head) => Keeps(h, w)
    BY <1>2, <2>1, QueueTail DEF CalloutTake, Keeps, Holds, Armed,
       PendingOwner, OwnedOnce
  <2>3. CASE Head(head) = Plunger
    BY <2>1, <2>2, <2>3, OwnQuiet, WorksAssumption
  <2>4. CASE Head(head) \in Works
    <3>1. OwnedOnce(Head(head)) /\ QueuedOnce(Head(head))
      BY <2>4 DEF PendingOwner, OwnedOnce
    <3>2. Queued(Head(head)) /\ ~ Armed(Head(head)) /\ Head(head) \in pending
      BY <1>2, <3>1, QueueTail DEF CalloutTake, OwnedOnce
    <3>3. \A x \in Works : x = Head(head) =>
             ~ Queued(x)' /\ ~ Armed(x)' /\ Holds(h, x)' /\ QueuedOnce(x)'
             /\ x \in pending'
      BY <1>2, <2>1, <3>1, <3>2, QueueTail DEF CalloutTake, Holds, Armed
    <3>4. \A x \in Works : x = Head(head) => OwnedOnce(x)'
      BY <2>1, <3>1, <3>2, <3>3, OwnShift
    <3> QED BY <2>1, <2>2, <2>4, <3>4, OwnMoves
  <2> QED BY <2>1, <2>3, <2>4
<1>3. CASE CalloutClear(h)
  <2>1. Alone(h) /\ head' = head /\ arg[h] \in Items
    BY <1>3, ActorsAssumption, ArgTyping DEF CalloutClear, Alone
  <2>2. \A w \in Works : w # arg[h] => Keeps(h, w)
    BY <1>3, ActorsAssumption, <2>1, QueueSame, WorksAssumption
       DEF CalloutClear, Keeps, Holds, Armed
  <2>3. CASE arg[h] = Plunger
    BY <2>1, <2>2, <2>3, OwnQuiet, WorksAssumption
  <2>4. CASE arg[h] \in Works
    <3>1. OwnedOnce(arg[h]) /\ Holds(h, arg[h])
      BY <1>3, ActorsAssumption, <2>1, <2>4 DEF CalloutClear, PendingOwner,
         Holds, Armed
    <3>2. QueuedOnce(arg[h]) /\ ~ Queued(arg[h]) /\ ~ Armed(arg[h]) /\ arg[h] \in pending
      BY <3>1 DEF OwnedOnce
    <3>3. \A x \in Works : x = arg[h] =>
             ~ Queued(x)' /\ ~ Armed(x)' /\ ~ Holds(h, x)' /\ x \notin pending'
             /\ QueuedOnce(x)'
      BY <1>3, ActorsAssumption, <2>1, <3>1, <3>2, QueueSame, ActorsAssumption
         DEF CalloutClear, Holds, Armed
    <3>4. \A x \in Works : x = arg[h] => OwnedOnce(x)'
      BY <2>1, <3>1, <3>3, OwnShift
    <3> QED BY <2>1, <2>2, <2>4, <3>4, OwnMoves
  <2> QED BY <2>1, <2>3, <2>4
<1>4. CASE WorkReturns(h)
  <2>1. Alone(h) /\ head' = head
    BY <1>4 DEF WorkReturns, Alone
  <2>2. \A w \in Works : Keeps(h, w)
    BY <1>4, <2>1, QueueSame, WorksAssumption, ActorsAssumption
       DEF WorkReturns, Keeps, Holds, Armed, ArgPoint
  <2> QED BY <2>1, <2>2, OwnQuiet
<1>5. CASE WorkRequeues(h)
  <2>1. Alone(h) /\ head' = head /\ arg[h] \in Works
    BY <1>5, WorksAssumption, ArgTyping DEF WorkRequeues, Claim, TestAndSet,
       Alone
  <2>2. \A w \in Works : w # arg[h] => Keeps(h, w)
    BY <1>5, WorksAssumption, <2>1, QueueSame, WorksAssumption
       DEF WorkRequeues, Claim, TestAndSet, Keeps, Holds, Armed
  <2>3. OwnedOnce(arg[h]) /\ arg[h] \notin pending
    BY <1>5, WorksAssumption, <2>1 DEF WorkRequeues, Claim, TestAndSet,
       PendingOwner, Holds, Armed
  <2>4. QueuedOnce(arg[h]) /\ ~ Queued(arg[h]) /\ ~ Armed(arg[h])
    BY <2>3 DEF OwnedOnce
  <2>5. \A x \in Works : x = arg[h] =>
           ~ Queued(x)' /\ ~ Armed(x)' /\ Holds(h, x)' /\ x \in pending'
           /\ QueuedOnce(x)'
    BY <1>5, WorksAssumption, <2>1, <2>3, <2>4, QueueSame, ActorsAssumption
       DEF WorkRequeues, Claim, TestAndSet, Holds, Armed
  <2>6. \A x \in Works : x = arg[h] => OwnedOnce(x)'
    BY <2>1, <2>3, <2>5, OwnShift
  <2> QED BY <2>1, <2>2, <2>6, OwnMoves
<1>6. CASE PlungerSplice(h)
  <2>1. Alone(h) /\ head' = head
    BY <1>6 DEF PlungerSplice, FlushList, Alone
  <2>2. \A w \in Works : Keeps(h, w)
    BY <1>6, <2>1, QueueSame, WorksAssumption, ActorsAssumption
       DEF PlungerSplice, FlushList, Keeps, Holds, Armed, ArgPoint
  <2> QED BY <2>1, <2>2, OwnQuiet
<1>7. CASE PlungerComplete(h)
  <2>1. Alone(h) /\ head' = head
    BY <1>7 DEF PlungerComplete, Alone
  <2>2. \A w \in Works : Keeps(h, w)
    BY <1>7, <2>1, QueueSame, WorksAssumption, ActorsAssumption
       DEF PlungerComplete, Keeps, Holds, Armed, ArgPoint
  <2> QED BY <2>1, <2>2, OwnQuiet
<1>8. CASE CalloutFinish(h)
  <2>1. Alone(h) /\ head' = head
    BY <1>8, DispatchFree, CallerPointFree DEF CalloutFinish, Alone
  <2>2. \A w \in Works : Keeps(h, w)
    BY <1>8, DispatchFree, CallerPointFree, <2>1, QueueSame, WorksAssumption,
       ActorsAssumption DEF CalloutFinish, Keeps, Holds, Armed, ArgPoint
  <2> QED BY <2>1, <2>2, OwnQuiet
<1>9. CASE QueueAdd(h)
  <2>1. /\ Alone(h) /\ arg[h] \in Items
        /\ pc'[h] \in {"d_submit", "t_ret", "h_fin", "f_wait", "idle"}
        /\ h \notin grabbed /\ h \notin grabbed'
    BY <1>9, DispatchFree, ArgTyping DEF QueueAdd, Alone
  <2>2. \A w \in Works : w # arg[h] => Keeps(h, w)
    BY <1>9, <2>1, QueueAppend, WorksAssumption DEF QueueAdd, Keeps, Holds,
       Armed
  <2>3. CASE arg[h] = Plunger
    BY <2>1, <2>2, <2>3, OwnQuiet, WorksAssumption
  <2>4. CASE arg[h] \in Works
    <3>1. Holds(h, arg[h]) /\ OwnedOnce(arg[h])
      BY <1>9, <2>4 DEF QueueAdd, Holds, PendingOwner
    <3>2. ~ Queued(arg[h]) /\ ~ Armed(arg[h]) /\ QueuedOnce(arg[h])
          /\ arg[h] \in pending
      BY <3>1 DEF OwnedOnce
    <3>3. \A x \in Works : x = arg[h] =>
             Queued(x)' /\ ~ Armed(x)' /\ ~ Holds(h, x)' /\ QueuedOnce(x)'
             /\ x \in pending'
      BY <1>9, <2>1, <3>2, QueueAppend DEF QueueAdd, Holds, Armed
    <3>4. \A x \in Works : x = arg[h] => OwnedOnce(x)'
      BY <2>1, <3>1, <3>3, OwnShift
    <3> QED BY <2>1, <2>2, <2>4, <3>4, OwnMoves
  <2> QED BY <2>1, <2>3, <2>4
<1>10. CASE TimerAdd(h)
  <2>1. Alone(h) /\ head' = head /\ arg[h] \in Works
    BY <1>10, ArgTyping DEF TimerAdd, Alone
  <2>2. \A w \in Works : w # arg[h] => Keeps(h, w)
    BY <1>10, <2>1, QueueSame, WorksAssumption DEF TimerAdd, Keeps, Holds,
       Armed
  <2>3. OwnedOnce(arg[h]) /\ Holds(h, arg[h])
    BY <1>10, <2>1 DEF TimerAdd, PendingOwner, Holds, Armed
  <2>4. QueuedOnce(arg[h]) /\ ~ Queued(arg[h]) /\ ~ Armed(arg[h]) /\ arg[h] \in pending
    BY <2>3 DEF OwnedOnce
  <2>5. \A x \in Works : x = arg[h] =>
           ~ Queued(x)' /\ Armed(x)' /\ ~ Holds(h, x)' /\ x \in pending'
           /\ QueuedOnce(x)'
    BY <1>10, <2>1, <2>3, <2>4, QueueSame, ActorsAssumption DEF TimerAdd,
       Holds, Armed
  <2>6. \A x \in Works : x = arg[h] => OwnedOnce(x)'
    BY <2>1, <2>3, <2>5, OwnShift
  <2> QED BY <2>1, <2>2, <2>6, OwnMoves
<1> QED
  BY <1>1, <1>2, <1>3, <1>4, <1>5, <1>6, <1>7, <1>8, <1>9, <1>10
     DEF HelperStep

LEMMA OwnerDriver ==
    ASSUME Typing, Grabbing, PendingOwner, NEW d \in Drivers, DriverStep(d)
    PROVE  PendingOwner'
<1> USE DEF Grabbing, Typing, Fields, Control, Goto, KindPoint, DriverPoints,
            HelperPoints, TimerPoints, WorkPoints, ItemPoints, queueVars,
            sleepVars, itemVars, timerVars, flushVars, lifeVars, callVars
<1>1. CASE QueueAdd(d)
  <2>1. /\ Alone(d) /\ arg[d] \in Items
        /\ pc'[d] \in {"d_submit", "t_ret", "h_fin", "f_wait", "idle"}
        /\ d \notin grabbed /\ d \notin grabbed'
    BY <1>1, DispatchFree, ArgTyping DEF QueueAdd, Alone
  <2>2. \A w \in Works : w # arg[d] => Keeps(d, w)
    BY <1>1, <2>1, QueueAppend, WorksAssumption DEF QueueAdd, Keeps, Holds,
       Armed
  <2>3. CASE arg[d] = Plunger
    BY <2>1, <2>2, <2>3, OwnQuiet, WorksAssumption
  <2>4. CASE arg[d] \in Works
    <3>1. Holds(d, arg[d]) /\ OwnedOnce(arg[d])
      BY <1>1, <2>4 DEF QueueAdd, Holds, PendingOwner
    <3>2. ~ Queued(arg[d]) /\ ~ Armed(arg[d]) /\ QueuedOnce(arg[d])
          /\ arg[d] \in pending
      BY <3>1 DEF OwnedOnce
    <3>3. \A x \in Works : x = arg[d] =>
             Queued(x)' /\ ~ Armed(x)' /\ ~ Holds(d, x)' /\ QueuedOnce(x)'
             /\ x \in pending'
      BY <1>1, <2>1, <3>2, QueueAppend DEF QueueAdd, Holds, Armed
    <3>4. \A x \in Works : x = arg[d] => OwnedOnce(x)'
      BY <2>1, <3>1, <3>3, OwnShift
    <3> QED BY <2>1, <2>2, <2>4, <3>4, OwnMoves
  <2> QED BY <2>1, <2>3, <2>4
<1>2. CASE TimerAdd(d)
  <2>1. Alone(d) /\ head' = head /\ arg[d] \in Works
    BY <1>2, ArgTyping DEF TimerAdd, Alone
  <2>2. \A w \in Works : w # arg[d] => Keeps(d, w)
    BY <1>2, <2>1, QueueSame, WorksAssumption DEF TimerAdd, Keeps, Holds,
       Armed
  <2>3. OwnedOnce(arg[d]) /\ Holds(d, arg[d])
    BY <1>2, <2>1 DEF TimerAdd, PendingOwner, Holds, Armed
  <2>4. QueuedOnce(arg[d]) /\ ~ Queued(arg[d]) /\ ~ Armed(arg[d]) /\ arg[d] \in pending
    BY <2>3 DEF OwnedOnce
  <2>5. \A x \in Works : x = arg[d] =>
           ~ Queued(x)' /\ Armed(x)' /\ ~ Holds(d, x)' /\ x \in pending'
           /\ QueuedOnce(x)'
    BY <1>2, <2>1, <2>3, <2>4, QueueSame, ActorsAssumption DEF TimerAdd,
       Holds, Armed
  <2>6. \A x \in Works : x = arg[d] => OwnedOnce(x)'
    BY <2>1, <2>3, <2>5, OwnShift
  <2> QED BY <2>1, <2>2, <2>6, OwnMoves
<1>3. CASE CancelTry(d)
  <2>1. CASE TestAndSet(arg[d])
    <3>1. Alone(d) /\ head' = head /\ arg[d] \in Works
      BY <1>3, <2>1, ArgTyping DEF CancelTry, TestAndSet, Alone
    <3>2. \A w \in Works : w # arg[d] => Keeps(d, w)
      BY <1>3, <2>1, <3>1, QueueSame, WorksAssumption DEF CancelTry,
         TestAndSet, Keeps, Holds, Armed
    <3>3. OwnedOnce(arg[d]) /\ arg[d] \notin pending
      BY <1>3, <2>1, <3>1 DEF CancelTry, TestAndSet, PendingOwner, Holds,
         Armed
    <3>4. QueuedOnce(arg[d]) /\ ~ Queued(arg[d]) /\ ~ Armed(arg[d])
      BY <3>3 DEF OwnedOnce
    <3>5. \A x \in Works : x = arg[d] =>
             ~ Queued(x)' /\ ~ Armed(x)' /\ Holds(d, x)' /\ x \in pending'
             /\ QueuedOnce(x)'
      BY <1>3, <2>1, <3>1, <3>3, <3>4, QueueSame, ActorsAssumption
         DEF CancelTry, TestAndSet, Holds, Armed
    <3>6. \A x \in Works : x = arg[d] => OwnedOnce(x)'
      BY <3>1, <3>3, <3>5, OwnShift
    <3> QED BY <3>1, <3>2, <3>6, OwnMoves
  <2>2. CASE ~ (TestAndSet(arg[d]))
    <3>1. Alone(d) /\ head' = head
      BY <1>3, <2>2 DEF CancelTry, TestAndSet, Alone
    <3>2. \A w \in Works : Keeps(d, w)
      BY <1>3, <2>2, <3>1, ArgTyping, QueueSame, WorksAssumption,
         ActorsAssumption DEF CancelTry, TestAndSet, Keeps, Holds, Armed
    <3> QED BY <3>1, <3>2, OwnQuiet
  <2> QED BY <2>1, <2>2
<1>4. CASE CancelDelTimer(d)
  <2>1. CASE timer[arg[d]] = "armed"
    <3>1. Alone(d) /\ head' = head /\ arg[d] \in Works
      BY <1>4, <2>1, ArgTyping DEF CancelDelTimer, Alone
    <3>2. \A w \in Works : w # arg[d] => Keeps(d, w)
      BY <1>4, <2>1, <3>1, QueueSame, WorksAssumption DEF CancelDelTimer,
         Keeps, Holds, Armed
    <3>3. OwnedOnce(arg[d]) /\ Armed(arg[d])
      BY <1>4, <2>1, <3>1 DEF CancelDelTimer, PendingOwner, Holds, Armed
    <3>4. QueuedOnce(arg[d]) /\ ~ Queued(arg[d]) /\ arg[d] \in pending
      BY <3>3 DEF OwnedOnce
    <3>5. \A x \in Works : x = arg[d] =>
             ~ Queued(x)' /\ ~ Armed(x)' /\ Holds(d, x)' /\ x \in pending'
             /\ QueuedOnce(x)'
      BY <1>4, <2>1, <3>1, <3>3, <3>4, QueueSame, ActorsAssumption
         DEF CancelDelTimer, Holds, Armed
    <3>6. \A x \in Works : x = arg[d] => OwnedOnce(x)'
      BY <3>1, <3>3, <3>5, OwnShift
    <3> QED BY <3>1, <3>2, <3>6, OwnMoves
  <2>2. CASE ~ (timer[arg[d]] = "armed")
    <3>1. Alone(d) /\ head' = head
      BY <1>4, <2>2 DEF CancelDelTimer, Alone
    <3>2. \A w \in Works : Keeps(d, w)
      BY <1>4, <2>2, <3>1, ArgTyping, QueueSame, WorksAssumption,
         ActorsAssumption DEF CancelDelTimer, Keeps, Holds, Armed
    <3> QED BY <3>1, <3>2, OwnQuiet
  <2> QED BY <2>1, <2>2
<1>5. CASE CancelRemove(d)
  <2>0. PICK k \in DOMAIN head : head[k] = arg[d] /\ head' = RemoveAt(head, k)
    BY <1>5 DEF CancelRemove
  <2>1. /\ Alone(d) /\ arg[d] \in Works /\ d \in grabbed' /\ arg' = arg
        /\ pending' = pending /\ timer' = timer
    BY <1>5, ArgTyping DEF CancelRemove, CancelWait, CancelNext, Alone
  <2>2. \A w \in Works \ {arg[d]} : Keeps(d, w)
    BY <2>0, <2>1, QueueRemove DEF Keeps, Holds, Armed, PendingOwner,
       OwnedOnce
  <2>3. OwnedOnce(arg[d]) /\ QueuedOnce(arg[d])
    BY <2>1 DEF PendingOwner, OwnedOnce
  <2>4. Queued(arg[d]) /\ ~ Armed(arg[d]) /\ arg[d] \in pending
    BY <2>0, <2>3, QueueRemove DEF OwnedOnce
  <2>5. \A x \in Works : x = arg[d] =>
           ~ Queued(x)' /\ ~ Armed(x)' /\ Holds(d, x)' /\ QueuedOnce(x)'
           /\ x \in pending'
    BY <2>0, <2>1, <2>3, <2>4, QueueRemove DEF Holds, Armed
  <2>6. \A x \in Works : x = arg[d] => OwnedOnce(x)'
    BY <2>1, <2>3, <2>4, <2>5, OwnShift
  <2> QED BY <2>1, <2>2, <2>6, OwnMoves
<1>6. CASE CancelNotQueued(d)
  <2>1. Alone(d) /\ head' = head
    BY <1>6 DEF CancelNotQueued, CancelWait, CancelNext, Executing, Alone
  <2>2. \A w \in Works : Keeps(d, w)
    BY <1>6, <2>1, QueueSame, WorksAssumption, ActorsAssumption
       DEF CancelNotQueued, CancelWait, CancelNext, Executing, Keeps, Holds,
       Armed, ArgPoint
  <2> QED BY <2>1, <2>2, OwnQuiet
<1>7. CASE CancelWoken(d)
  <2>1. Alone(d) /\ head' = head
    BY <1>7 DEF CancelWoken, CancelNext, Executing, Alone
  <2>2. \A w \in Works : Keeps(d, w)
    BY <1>7, <2>1, QueueSame, WorksAssumption, ActorsAssumption
       DEF CancelWoken, CancelNext, Executing, Keeps, Holds, Armed, ArgPoint
  <2> QED BY <2>1, <2>2, OwnQuiet
<1>8. CASE CancelClear(d)
  <2>1. Alone(d) /\ head' = head /\ arg[d] \in Works
    BY <1>8, ArgTyping DEF CancelClear, Alone
  <2>2. \A w \in Works : w # arg[d] => Keeps(d, w)
    BY <1>8, <2>1, QueueSame, WorksAssumption DEF CancelClear, Keeps, Holds,
       Armed
  <2>3. OwnedOnce(arg[d]) /\ Holds(d, arg[d])
    BY <1>8, <2>1 DEF CancelClear, PendingOwner, Holds, Armed
  <2>4. QueuedOnce(arg[d]) /\ ~ Queued(arg[d]) /\ ~ Armed(arg[d]) /\ arg[d] \in pending
    BY <2>3 DEF OwnedOnce
  <2>5. \A x \in Works : x = arg[d] =>
           ~ Queued(x)' /\ ~ Armed(x)' /\ ~ Holds(d, x)' /\ x \notin pending'
           /\ QueuedOnce(x)'
    BY <1>8, <2>1, <2>3, <2>4, QueueSame, ActorsAssumption DEF CancelClear,
       Holds, Armed
  <2>6. \A x \in Works : x = arg[d] => OwnedOnce(x)'
    BY <2>1, <2>3, <2>5, OwnShift
  <2> QED BY <2>1, <2>2, <2>6, OwnMoves
<1>9. CASE CancelDelayed(d)
  <2>1. CASE timer[arg[d]] = "armed"
    <3>1. Alone(d) /\ head' = head /\ arg[d] \in Works
      BY <1>9, <2>1, ArgTyping DEF CancelDelayed, Alone
    <3>2. \A w \in Works : w # arg[d] => Keeps(d, w)
      BY <1>9, <2>1, <3>1, QueueSame, WorksAssumption DEF CancelDelayed,
         Keeps, Holds, Armed
    <3>3. OwnedOnce(arg[d]) /\ Armed(arg[d])
      BY <1>9, <2>1, <3>1 DEF CancelDelayed, PendingOwner, Holds, Armed
    <3>4. QueuedOnce(arg[d]) /\ ~ Queued(arg[d]) /\ arg[d] \in pending
      BY <3>3 DEF OwnedOnce
    <3>5. \A x \in Works : x = arg[d] =>
             ~ Queued(x)' /\ ~ Armed(x)' /\ Holds(d, x)' /\ x \in pending'
             /\ QueuedOnce(x)'
      BY <1>9, <2>1, <3>1, <3>3, <3>4, QueueSame, ActorsAssumption
         DEF CancelDelayed, Holds, Armed
    <3>6. \A x \in Works : x = arg[d] => OwnedOnce(x)'
      BY <3>1, <3>3, <3>5, OwnShift
    <3> QED BY <3>1, <3>2, <3>6, OwnMoves
  <2>2. CASE ~ (timer[arg[d]] = "armed")
    <3>1. Alone(d) /\ head' = head
      BY <1>9, <2>2 DEF CancelDelayed, Alone
    <3>2. \A w \in Works : Keeps(d, w)
      BY <1>9, <2>2, <3>1, ArgTyping, QueueSame, WorksAssumption,
         ActorsAssumption DEF CancelDelayed, Keeps, Holds, Armed
    <3> QED BY <3>1, <3>2, OwnQuiet
  <2> QED BY <2>1, <2>2
<1>10. CASE CancelDelayedClear(d)
  <2>1. Alone(d) /\ head' = head /\ arg[d] \in Works
    BY <1>10, ArgTyping DEF CancelDelayedClear, Alone
  <2>2. \A w \in Works : w # arg[d] => Keeps(d, w)
    BY <1>10, <2>1, QueueSame, WorksAssumption DEF CancelDelayedClear, Keeps,
       Holds, Armed
  <2>3. OwnedOnce(arg[d]) /\ Holds(d, arg[d])
    BY <1>10, <2>1 DEF CancelDelayedClear, PendingOwner, Holds, Armed
  <2>4. QueuedOnce(arg[d]) /\ ~ Queued(arg[d]) /\ ~ Armed(arg[d]) /\ arg[d] \in pending
    BY <2>3 DEF OwnedOnce
  <2>5. \A x \in Works : x = arg[d] =>
           ~ Queued(x)' /\ ~ Armed(x)' /\ ~ Holds(d, x)' /\ x \notin pending'
           /\ QueuedOnce(x)'
    BY <1>10, <2>1, <2>3, <2>4, QueueSame, ActorsAssumption
       DEF CancelDelayedClear, Holds, Armed
  <2>6. \A x \in Works : x = arg[d] => OwnedOnce(x)'
    BY <2>1, <2>3, <2>5, OwnShift
  <2> QED BY <2>1, <2>2, <2>6, OwnMoves
<1>11. CASE FlushLock(d)
  <2>1. Alone(d) /\ head' = head
    BY <1>11 DEF FlushLock, Alone
  <2>2. \A w \in Works : Keeps(d, w)
    BY <1>11, <2>1, QueueSame, WorksAssumption, ActorsAssumption
       DEF FlushLock, Keeps, Holds, Armed, ArgPoint
  <2> QED BY <2>1, <2>2, OwnQuiet
<1>12. CASE FlushCompleted(d)
  <2>1. Alone(d) /\ head' = head
    BY <1>12 DEF FlushCompleted, Alone
  <2>2. \A w \in Works : Keeps(d, w)
    BY <1>12, <2>1, QueueSame, WorksAssumption, ActorsAssumption
       DEF FlushCompleted, Keeps, Holds, Armed, ArgPoint
  <2> QED BY <2>1, <2>2, OwnQuiet
<1>13. CASE FlushDrain(d)
  <2>1. Alone(d) /\ head' = head
    BY <1>13 DEF FlushDrain, Alone
  <2>2. \A w \in Works : Keeps(d, w)
    BY <1>13, <2>1, QueueSame, WorksAssumption, ActorsAssumption
       DEF FlushDrain, Keeps, Holds, Armed, ArgPoint
  <2> QED BY <2>1, <2>2, OwnQuiet
<1>14. CASE FlushWoken(d)
  <2>1. Alone(d) /\ head' = head
    BY <1>14 DEF FlushWoken, Alone
  <2>2. \A w \in Works : Keeps(d, w)
    BY <1>14, <2>1, QueueSame, WorksAssumption, ActorsAssumption
       DEF FlushWoken, Keeps, Holds, Armed, ArgPoint
  <2> QED BY <2>1, <2>2, OwnQuiet
<1>15. CASE FlushUnlock(d)
  <2>1. Alone(d) /\ head' = head
    BY <1>15 DEF FlushUnlock, Alone
  <2>2. \A w \in Works : Keeps(d, w)
    BY <1>15, <2>1, QueueSame, WorksAssumption, ActorsAssumption
       DEF FlushUnlock, Keeps, Holds, Armed, ArgPoint
  <2> QED BY <2>1, <2>2, OwnQuiet
<1>16. CASE DestroyWait(d)
  <2>1. Alone(d) /\ head' = head
    BY <1>16 DEF DestroyWait, Alone
  <2>2. \A w \in Works : Keeps(d, w)
    BY <1>16, <2>1, QueueSame, WorksAssumption, ActorsAssumption
       DEF DestroyWait, Keeps, Holds, Armed, ArgPoint
  <2> QED BY <2>1, <2>2, OwnQuiet
<1>17. CASE DestroyDelTimer(d)
  <2>1. Alone(d) /\ head' = head
    BY <1>17 DEF DestroyDelTimer, Alone
  <2>2. \A w \in Works : Keeps(d, w)
    BY <1>17, <2>1, QueueSame, WorksAssumption, ActorsAssumption
       DEF DestroyDelTimer, Keeps, Holds, Armed, ArgPoint
  <2> QED BY <2>1, <2>2, OwnQuiet
<1>18. CASE DestroyFree(d)
  <2>1. Alone(d) /\ head' = head
    BY <1>18 DEF DestroyFree, Alone
  <2>2. \A w \in Works : Keeps(d, w)
    BY <1>18, <2>1, QueueSame, WorksAssumption, ActorsAssumption
       DEF DestroyFree, Keeps, Holds, Armed, ArgPoint
  <2> QED BY <2>1, <2>2, OwnQuiet
<1> QED
  BY <1>1, <1>2, <1>3, <1>4, <1>5, <1>6, <1>7, <1>8, <1>9, <1>10, <1>11,
     <1>12, <1>13, <1>14, <1>15, <1>16, <1>17, <1>18 DEF DriverStep

LEMMA OwnerStarts ==
    ASSUME Typing, Grabbing, PendingOwner, NEW d \in Drivers, DriverStarts(d)
    PROVE  PendingOwner'
<1> USE DEF Grabbing, Typing, Fields, Control, Goto, KindPoint, DriverPoints,
            HelperPoints, TimerPoints, WorkPoints, ItemPoints, queueVars,
            sleepVars, itemVars, timerVars, flushVars, lifeVars, callVars
<1>0. pc[d] = "idle"
  BY DEF DriverStarts
<1>1. CASE \E w \in Works : StartQueue(d, w)
  <2>0. PICK y \in Works : StartQueue(d, y)
    BY <1>1
  <2>1. Alone(d) /\ head' = head /\ y \in Works
    BY <2>0, <1>0, ArgTyping DEF StartQueue, Claim, TestAndSet, Alone
  <2>2. \A w \in Works : w # y => Keeps(d, w)
    BY <2>0, <1>0, <2>1, QueueSame, WorksAssumption DEF StartQueue, Claim,
       TestAndSet, Keeps, Holds, Armed
  <2>3. OwnedOnce(y) /\ y \notin pending
    BY <2>0, <1>0, <2>1 DEF StartQueue, Claim, TestAndSet, PendingOwner,
       Holds, Armed
  <2>4. QueuedOnce(y) /\ ~ Queued(y) /\ ~ Armed(y)
    BY <2>3 DEF OwnedOnce
  <2>5. \A x \in Works : x = y =>
           ~ Queued(x)' /\ ~ Armed(x)' /\ Holds(d, x)' /\ x \in pending'
           /\ QueuedOnce(x)'
    BY <2>0, <1>0, <2>1, <2>3, <2>4, QueueSame, ActorsAssumption
       DEF StartQueue, Claim, TestAndSet, Holds, Armed
  <2>6. \A x \in Works : x = y => OwnedOnce(x)'
    BY <2>1, <2>3, <2>5, OwnShift
  <2> QED BY <2>1, <2>2, <2>6, OwnMoves
<1>2. CASE \E w \in Works : StartQueueDelayed(d, w)
  <2>0. PICK y \in Works : StartQueueDelayed(d, y)
    BY <1>2
  <2>1. Alone(d) /\ head' = head /\ y \in Works
    BY <2>0, <1>0, ArgTyping DEF StartQueueDelayed, Claim, TestAndSet, Alone
  <2>2. \A w \in Works : w # y => Keeps(d, w)
    BY <2>0, <1>0, <2>1, QueueSame, WorksAssumption DEF StartQueueDelayed,
       Claim, TestAndSet, Keeps, Holds, Armed
  <2>3. OwnedOnce(y) /\ y \notin pending
    BY <2>0, <1>0, <2>1 DEF StartQueueDelayed, Claim, TestAndSet,
       PendingOwner, Holds, Armed
  <2>4. QueuedOnce(y) /\ ~ Queued(y) /\ ~ Armed(y)
    BY <2>3 DEF OwnedOnce
  <2>5. \A x \in Works : x = y =>
           ~ Queued(x)' /\ ~ Armed(x)' /\ Holds(d, x)' /\ x \in pending'
           /\ QueuedOnce(x)'
    BY <2>0, <1>0, <2>1, <2>3, <2>4, QueueSame, ActorsAssumption
       DEF StartQueueDelayed, Claim, TestAndSet, Holds, Armed
  <2>6. \A x \in Works : x = y => OwnedOnce(x)'
    BY <2>1, <2>3, <2>5, OwnShift
  <2> QED BY <2>1, <2>2, <2>6, OwnMoves
<1>3. CASE \E w \in Works : StartCancel(d, w)
  <2>1. Alone(d) /\ head' = head
    BY <1>3, <1>0 DEF StartCancel, Begin, Alone
  <2>2. \A w \in Works : Keeps(d, w)
    BY <1>3, <1>0, <2>1, QueueSame, WorksAssumption, ActorsAssumption
       DEF StartCancel, Begin, Keeps, Holds, Armed, ArgPoint
  <2> QED BY <2>1, <2>2, OwnQuiet
<1>4. CASE StartFlush(d)
  <2>1. Alone(d) /\ head' = head
    BY <1>4, <1>0 DEF StartFlush, Alone
  <2>2. \A w \in Works : Keeps(d, w)
    BY <1>4, <1>0, <2>1, QueueSame, WorksAssumption, ActorsAssumption
       DEF StartFlush, Keeps, Holds, Armed, ArgPoint
  <2> QED BY <2>1, <2>2, OwnQuiet
<1>5. CASE StartDestroy(d)
  <2>1. Alone(d) /\ head' = head
    BY <1>5, <1>0 DEF StartDestroy, Alone
  <2>2. \A w \in Works : Keeps(d, w)
    BY <1>5, <1>0, <2>1, QueueSame, WorksAssumption, ActorsAssumption
       DEF StartDestroy, Keeps, Holds, Armed, ArgPoint
  <2> QED BY <2>1, <2>2, OwnQuiet
<1> QED
  BY <1>1, <1>2, <1>3, <1>4, <1>5 DEF DriverStarts

-----------------------------------------------------------------------------
(* The work that a canceller is about to release is at rest                *)

(* cancel_work_sync looks at the track lists only of a work whose wq_data  *)
(* is set: no work is queued or executing without it.                      *)
Known ==
    /\ \A w \in Works : Queued(w) => w \in wqData
    /\ \A h \in Helpers : arg[h] \in Works => arg[h] \in wqData

(* No helper works on the item of a canceller that has come to the end.    *)
AtRest ==
    \A d \in Drivers : pc[d] = "c_clear" =>
        \A h \in Helpers : arg[h] # arg[d]

(* Every step keeps wq_data set.                                           *)

LEMMA KnownDispatch ==
    ASSUME Typing, PendingOwner, Known, NEW a \in Actors, DispatchStep(a)
    PROVE  Known'
<1> USE DEF Known, Typing, Fields, Control, WorkPoints, ItemPoints, queueVars,
            sleepVars, itemVars, timerVars, flushVars, lifeVars, callVars
<1>1. CASE SubmitOK(a)
  BY <1>1, QueueSame, ActorsAssumption DEF SubmitOK
<1>2. CASE SubmitFail(a)
  BY <1>2, QueueSame, ActorsAssumption DEF SubmitFail
<1>3. CASE DispatchNext(a)
  BY <1>3, QueueSame, ActorsAssumption DEF DispatchNext
<1>4. CASE Unpost(a)
  BY <1>4, QueueSame, ActorsAssumption DEF Unpost
<1>5. CASE ArmDelayTimer(a)
  BY <1>5, QueueSame, ActorsAssumption DEF ArmDelayTimer
<1> QED
  BY <1>1, <1>2, <1>3, <1>4, <1>5 DEF DispatchStep

LEMMA KnownTimer ==
    ASSUME Typing, PendingOwner, Known, NEW t \in Timers, TimerStep(t)
    PROVE  Known'
<1> USE DEF Known, Typing, Fields, Control, WorkPoints, ItemPoints, queueVars,
            sleepVars, itemVars, timerVars, flushVars, lifeVars, callVars
<1>1. CASE \E w \in Works : WorkTimerFires(t, w)
  BY <1>1, QueueSame, ActorsAssumption DEF WorkTimerFires
<1>2. CASE DelayTimerFires(t)
  BY <1>2, QueueSame, ActorsAssumption DEF DelayTimerFires
<1>3. CASE DelayTimeout(t)
  BY <1>3, QueueSame, ActorsAssumption DEF DelayTimeout
<1>4. CASE TimerReturns(t)
  BY <1>4, QueueSame, ActorsAssumption DEF TimerReturns
<1>5. CASE QueueAdd(t)
  BY <1>5, ArgTyping, QueueAppend DEF QueueAdd
<1> QED
  BY <1>1, <1>2, <1>3, <1>4, <1>5 DEF TimerStep

LEMMA KnownHelper ==
    ASSUME Typing, PendingOwner, Known, NEW h \in Helpers, HelperStep(h)
    PROVE  Known'
<1> USE DEF Known, Typing, Fields, Control, WorkPoints, ItemPoints, queueVars,
            sleepVars, itemVars, timerVars, flushVars, lifeVars, callVars
<1>1. CASE CalloutNothing(h)
  BY <1>1, QueueSame, ActorsAssumption DEF CalloutNothing
<1>2. CASE CalloutTake(h)
  <2>1. \A w \in Works : QueuedOnce(w)
    BY DEF PendingOwner, OwnedOnce
  <2>2. Head(head) \in Works => Queued(Head(head))
    BY <1>2, <2>1, QueueTail DEF CalloutTake
  <2>3. \A w \in Works : Queued(w)' => Queued(w)
    BY <1>2, <2>1, QueueTail DEF CalloutTake
  <2> QED BY <1>2, <2>2, <2>3 DEF CalloutTake
<1>3. CASE CalloutClear(h)
  BY <1>3, QueueSame, ActorsAssumption DEF CalloutClear
<1>4. CASE WorkReturns(h)
  BY <1>4, QueueSame, ActorsAssumption DEF WorkReturns
<1>5. CASE WorkRequeues(h)
  BY <1>5, QueueSame, ActorsAssumption DEF WorkRequeues, Claim
<1>6. CASE PlungerSplice(h)
  BY <1>6, QueueSame, ActorsAssumption DEF PlungerSplice, FlushList
<1>7. CASE PlungerComplete(h)
  BY <1>7, QueueSame, ActorsAssumption DEF PlungerComplete
<1>8. CASE CalloutFinish(h)
  BY <1>8, QueueSame, ActorsAssumption, WorksAssumption DEF CalloutFinish
<1>9. CASE QueueAdd(h)
  BY <1>9, ArgTyping, QueueAppend DEF QueueAdd
<1>10. CASE TimerAdd(h)
  BY <1>10, QueueSame, ActorsAssumption DEF TimerAdd
<1> QED
  BY <1>1, <1>2, <1>3, <1>4, <1>5, <1>6, <1>7, <1>8, <1>9, <1>10
     DEF HelperStep

LEMMA KnownDriver ==
    ASSUME Typing, PendingOwner, Known, NEW d \in Drivers, DriverStep(d)
    PROVE  Known'
<1> USE DEF Known, Typing, Fields, Control, WorkPoints, ItemPoints, queueVars,
            sleepVars, itemVars, timerVars, flushVars, lifeVars, callVars
<1>1. CASE QueueAdd(d)
  BY <1>1, ArgTyping, QueueAppend DEF QueueAdd
<1>2. CASE TimerAdd(d)
  BY <1>2, QueueSame, ActorsAssumption DEF TimerAdd
<1>3. CASE CancelTry(d)
  BY <1>3, QueueSame, ActorsAssumption DEF CancelTry
<1>4. CASE CancelDelTimer(d)
  BY <1>4, QueueSame, ActorsAssumption DEF CancelDelTimer
<1>5. CASE CancelRemove(d)
  <2>1. PICK k \in DOMAIN head : head' = RemoveAt(head, k)
    BY <1>5 DEF CancelRemove
  <2>2. \A w \in Works : Queued(w)' => Queued(w)
    BY <2>1, QueueRemove DEF PendingOwner, OwnedOnce
  <2> QED BY <1>5, <2>2 DEF CancelRemove
<1>6. CASE CancelNotQueued(d)
  BY <1>6, QueueSame, ActorsAssumption DEF CancelNotQueued, CancelWait
<1>7. CASE CancelWoken(d)
  BY <1>7, QueueSame, ActorsAssumption DEF CancelWoken
<1>8. CASE CancelClear(d)
  BY <1>8, QueueSame, ActorsAssumption DEF CancelClear
<1>9. CASE CancelDelayed(d)
  BY <1>9, QueueSame, ActorsAssumption DEF CancelDelayed
<1>10. CASE CancelDelayedClear(d)
  BY <1>10, QueueSame, ActorsAssumption DEF CancelDelayedClear
<1>11. CASE FlushLock(d)
  BY <1>11, QueueSame, ActorsAssumption, WorksAssumption DEF FlushLock
<1>12. CASE FlushCompleted(d)
  BY <1>12, QueueSame, ActorsAssumption DEF FlushCompleted
<1>13. CASE FlushDrain(d)
  BY <1>13, QueueSame, ActorsAssumption DEF FlushDrain
<1>14. CASE FlushWoken(d)
  BY <1>14, QueueSame, ActorsAssumption DEF FlushWoken
<1>15. CASE FlushUnlock(d)
  BY <1>15, QueueSame, ActorsAssumption DEF FlushUnlock
<1>16. CASE DestroyWait(d)
  BY <1>16, QueueSame, ActorsAssumption DEF DestroyWait
<1>17. CASE DestroyDelTimer(d)
  BY <1>17, QueueSame, ActorsAssumption DEF DestroyDelTimer
<1>18. CASE DestroyFree(d)
  BY <1>18, QueueSame, ActorsAssumption DEF DestroyFree
<1> QED
  BY <1>1, <1>2, <1>3, <1>4, <1>5, <1>6, <1>7, <1>8, <1>9, <1>10, <1>11,
     <1>12, <1>13, <1>14, <1>15, <1>16, <1>17, <1>18 DEF DriverStep

LEMMA KnownStarts ==
    ASSUME Typing, PendingOwner, Known, NEW d \in Drivers, DriverStarts(d)
    PROVE  Known'
<1> USE DEF Known, Typing, Fields, Control, WorkPoints, ItemPoints, queueVars,
            sleepVars, itemVars, timerVars, flushVars, lifeVars, callVars
<1>1. CASE \E w \in Works : StartQueue(d, w)
  BY <1>1, QueueSame, ActorsAssumption DEF StartQueue, Claim
<1>2. CASE \E w \in Works : StartQueueDelayed(d, w)
  BY <1>2, QueueSame, ActorsAssumption DEF StartQueueDelayed, Claim
<1>3. CASE \E w \in Works : StartCancel(d, w)
  BY <1>3, QueueSame, ActorsAssumption DEF StartCancel, Begin
<1>4. CASE StartFlush(d)
  BY <1>4, QueueSame, ActorsAssumption DEF StartFlush
<1>5. CASE StartDestroy(d)
  BY <1>5, QueueSame, ActorsAssumption DEF StartDestroy
<1> QED
  BY <1>1, <1>2, <1>3, <1>4, <1>5 DEF DriverStarts

(* Every step keeps released works at rest.                                *)

LEMMA RestDispatch ==
    ASSUME Typing, Grabbing, PendingOwner, Known, AtRest, NEW a \in Actors, DispatchStep(a)
    PROVE  AtRest'
<1> USE DEF AtRest, Grabbing, Typing, Fields, Control, Goto, WorkPoints,
            ItemPoints, queueVars, sleepVars, itemVars, timerVars, flushVars,
            lifeVars, callVars
<1>1. CASE SubmitOK(a)
  BY <1>1, WorksAssumption, ActorsAssumption DEF SubmitOK
<1>2. CASE SubmitFail(a)
  BY <1>2, WorksAssumption, ActorsAssumption DEF SubmitFail
<1>3. CASE DispatchNext(a)
  BY <1>3, DispatchFree, CallerPointFree, WorksAssumption, ActorsAssumption
     DEF DispatchNext
<1>4. CASE Unpost(a)
  BY <1>4, WorksAssumption, ActorsAssumption DEF Unpost
<1>5. CASE ArmDelayTimer(a)
  BY <1>5, CallerPointFree DEF ArmDelayTimer
<1> QED
  BY <1>1, <1>2, <1>3, <1>4, <1>5 DEF DispatchStep

LEMMA RestTimer ==
    ASSUME Typing, Grabbing, PendingOwner, Known, AtRest, NEW t \in Timers, TimerStep(t)
    PROVE  AtRest'
<1> USE DEF AtRest, Grabbing, Typing, Fields, Control, Goto, WorkPoints,
            ItemPoints, queueVars, sleepVars, itemVars, timerVars, flushVars,
            lifeVars, callVars
<1>1. CASE \E w \in Works : WorkTimerFires(t, w)
  BY <1>1, WorksAssumption, ActorsAssumption DEF WorkTimerFires
<1>2. CASE DelayTimerFires(t)
  BY <1>2, WorksAssumption, ActorsAssumption DEF DelayTimerFires
<1>3. CASE DelayTimeout(t)
  BY <1>3, DispatchFree, CallerPointFree, WorksAssumption, ActorsAssumption
     DEF DelayTimeout
<1>4. CASE TimerReturns(t)
  BY <1>4, WorksAssumption, ActorsAssumption DEF TimerReturns
<1>5. CASE QueueAdd(t)
  BY <1>5, DispatchFree, CallerPointFree, WorksAssumption, ActorsAssumption
     DEF QueueAdd
<1> QED
  BY <1>1, <1>2, <1>3, <1>4, <1>5 DEF TimerStep

LEMMA RestHelper ==
    ASSUME Typing, Grabbing, PendingOwner, Known, AtRest, NEW h \in Helpers, HelperStep(h)
    PROVE  AtRest'
<1> USE DEF AtRest, Grabbing, Typing, Fields, Control, Goto, WorkPoints,
            ItemPoints, queueVars, sleepVars, itemVars, timerVars, flushVars,
            lifeVars, callVars
<1>1. CASE CalloutNothing(h)
  BY <1>1, WorksAssumption, ActorsAssumption DEF CalloutNothing,
     WokenWhenDrained
<1>2. CASE CalloutTake(h)
  <2>1. \A d \in Drivers : pc[d] = "c_clear" => arg[d] \in Works /\ ~ Queued(arg[d])
    BY ArgTyping DEF PendingOwner, OwnedOnce, Holds
  <2>2. Queued(Head(head)) \/ Head(head) \notin Works
    BY <1>2, QueueTail DEF CalloutTake, PendingOwner, OwnedOnce
  <2> QED BY <1>2, <2>1, <2>2, ActorsAssumption DEF CalloutTake
<1>3. CASE CalloutClear(h)
  BY <1>3, WorksAssumption, ActorsAssumption DEF CalloutClear
<1>4. CASE WorkReturns(h)
  BY <1>4, WorksAssumption, ActorsAssumption DEF WorkReturns
<1>5. CASE WorkRequeues(h)
  BY <1>5, WorksAssumption, ActorsAssumption DEF WorkRequeues, Claim
<1>6. CASE PlungerSplice(h)
  BY <1>6, WorksAssumption, ActorsAssumption DEF PlungerSplice, FlushList
<1>7. CASE PlungerComplete(h)
  BY <1>7, WorksAssumption, ActorsAssumption DEF PlungerComplete
<1>8. CASE CalloutFinish(h)
  <2>1. /\ \A b \in Actors \ {h} : pc'[b] = pc[b] /\ arg'[b] = arg[b]
        /\ arg'[h] = None
    BY <1>8, DispatchFree DEF CalloutFinish
  <2>2. \A d \in Drivers : pc[d] = "c_clear" => arg[d] # None
    BY ArgTyping, WorksAssumption
  <2> QED BY <2>1, <2>2, ActorsAssumption
<1>9. CASE QueueAdd(h)
  BY <1>9, DispatchFree, CallerPointFree, WorksAssumption, ActorsAssumption
     DEF QueueAdd
<1>10. CASE TimerAdd(h)
  BY <1>10, WorksAssumption, ActorsAssumption DEF TimerAdd
<1> QED
  BY <1>1, <1>2, <1>3, <1>4, <1>5, <1>6, <1>7, <1>8, <1>9, <1>10
     DEF HelperStep

LEMMA RestDriver ==
    ASSUME Typing, Grabbing, PendingOwner, Known, AtRest, NEW d \in Drivers, DriverStep(d)
    PROVE  AtRest'
<1> USE DEF AtRest, Grabbing, Typing, Fields, Control, Goto, WorkPoints,
            ItemPoints, queueVars, sleepVars, itemVars, timerVars, flushVars,
            lifeVars, callVars
<1>1. CASE QueueAdd(d)
  BY <1>1, DispatchFree, CallerPointFree, WorksAssumption, ActorsAssumption
     DEF QueueAdd
<1>2. CASE TimerAdd(d)
  BY <1>2, WorksAssumption, ActorsAssumption DEF TimerAdd
<1>3. CASE CancelTry(d)
  BY <1>3, WorksAssumption, ActorsAssumption DEF CancelTry
<1>4. CASE CancelDelTimer(d)
  BY <1>4, WorksAssumption, ActorsAssumption DEF CancelDelTimer
<1>5. CASE CancelRemove(d)
  <2>1. arg[d] \in Works /\ arg' = arg
    BY <1>5, ArgTyping DEF CancelRemove
  <2>2. pc'[d] = "c_clear" => ~ Executing(arg[d]) \/ arg[d] \notin wqData
    BY <1>5 DEF CancelRemove, CancelWait, CancelNext
  <2>3. ~ Executing(arg[d]) \/ arg[d] \notin wqData => \A h \in Helpers : arg[h] # arg[d]
    BY <2>1, WorksAssumption DEF Executing, Tracking, Known
  <2> QED BY <1>5, <2>1, <2>2, <2>3 DEF CancelRemove, CancelWait, CancelNext
<1>6. CASE CancelNotQueued(d)
  <2>1. arg[d] \in Works /\ arg' = arg
    BY <1>6, ArgTyping DEF CancelNotQueued
  <2>2. pc'[d] = "c_clear" => ~ Executing(arg[d]) \/ arg[d] \notin wqData
    BY <1>6 DEF CancelNotQueued, CancelWait, CancelNext
  <2>3. ~ Executing(arg[d]) \/ arg[d] \notin wqData => \A h \in Helpers : arg[h] # arg[d]
    BY <2>1, WorksAssumption DEF Executing, Tracking, Known
  <2> QED BY <1>6, <2>1, <2>2, <2>3 DEF CancelNotQueued, CancelWait,
     CancelNext
<1>7. CASE CancelWoken(d)
  <2>1. arg[d] \in Works /\ arg' = arg
    BY <1>7, ArgTyping DEF CancelWoken
  <2>2. pc'[d] = "c_clear" => ~ Executing(arg[d]) \/ arg[d] \notin wqData
    BY <1>7 DEF CancelWoken, CancelNext
  <2>3. ~ Executing(arg[d]) \/ arg[d] \notin wqData => \A h \in Helpers : arg[h] # arg[d]
    BY <2>1, WorksAssumption DEF Executing, Tracking, Known
  <2> QED BY <1>7, <2>1, <2>2, <2>3 DEF CancelWoken, CancelNext
<1>8. CASE CancelClear(d)
  BY <1>8, WorksAssumption, ActorsAssumption DEF CancelClear
<1>9. CASE CancelDelayed(d)
  BY <1>9, WorksAssumption, ActorsAssumption DEF CancelDelayed
<1>10. CASE CancelDelayedClear(d)
  BY <1>10, WorksAssumption, ActorsAssumption DEF CancelDelayedClear
<1>11. CASE FlushLock(d)
  BY <1>11, WorksAssumption, ActorsAssumption DEF FlushLock
<1>12. CASE FlushCompleted(d)
  BY <1>12, WorksAssumption, ActorsAssumption DEF FlushCompleted
<1>13. CASE FlushDrain(d)
  BY <1>13, WorksAssumption, ActorsAssumption DEF FlushDrain
<1>14. CASE FlushWoken(d)
  BY <1>14, WorksAssumption, ActorsAssumption DEF FlushWoken
<1>15. CASE FlushUnlock(d)
  BY <1>15, WorksAssumption, ActorsAssumption DEF FlushUnlock
<1>16. CASE DestroyWait(d)
  BY <1>16, WorksAssumption, ActorsAssumption DEF DestroyWait
<1>17. CASE DestroyDelTimer(d)
  BY <1>17, WorksAssumption, ActorsAssumption DEF DestroyDelTimer
<1>18. CASE DestroyFree(d)
  BY <1>18, WorksAssumption, ActorsAssumption DEF DestroyFree
<1> QED
  BY <1>1, <1>2, <1>3, <1>4, <1>5, <1>6, <1>7, <1>8, <1>9, <1>10, <1>11,
     <1>12, <1>13, <1>14, <1>15, <1>16, <1>17, <1>18 DEF DriverStep

LEMMA RestStarts ==
    ASSUME Typing, Grabbing, PendingOwner, Known, AtRest, NEW d \in Drivers, DriverStarts(d)
    PROVE  AtRest'
<1> USE DEF AtRest, Grabbing, Typing, Fields, Control, Goto, WorkPoints,
            ItemPoints, queueVars, sleepVars, itemVars, timerVars, flushVars,
            lifeVars, callVars
<1>0. pc[d] = "idle"
  BY DEF DriverStarts
<1>1. CASE \E w \in Works : StartQueue(d, w)
  BY <1>1, <1>0, WorksAssumption, ActorsAssumption DEF StartQueue, Claim
<1>2. CASE \E w \in Works : StartQueueDelayed(d, w)
  BY <1>2, <1>0, WorksAssumption, ActorsAssumption DEF StartQueueDelayed,
     Claim
<1>3. CASE \E w \in Works : StartCancel(d, w)
  BY <1>3, <1>0, WorksAssumption, ActorsAssumption DEF StartCancel, Begin
<1>4. CASE StartFlush(d)
  BY <1>4, <1>0, WorksAssumption, ActorsAssumption DEF StartFlush
<1>5. CASE StartDestroy(d)
  BY <1>5, <1>0, WorksAssumption, ActorsAssumption DEF StartDestroy
<1> QED
  BY <1>1, <1>2, <1>3, <1>4, <1>5 DEF DriverStarts

-----------------------------------------------------------------------------
(* The theorems                                                            *)

Owner == Core /\ Grabbing /\ PendingOwner /\ Known /\ AtRest

LEMMA OwnerInit == Init => Owner
<1> SUFFICES ASSUME Init PROVE Owner
  OBVIOUS
<1>1. \A i : ~ Queued(i) /\ QueuedOnce(i)
  BY DEF Init, Queued, QueuedOnce, Contains
<1>2. Grabbing /\ Known /\ AtRest
  BY <1>1, WorksAssumption DEF Init, Grabbing, Known, AtRest
<1>3. PendingOwner
  BY <1>1, WorksAssumption DEF Init, PendingOwner, OwnedOnce, Armed, Holds
<1> QED BY <1>2, <1>3, CoreInit DEF Owner

LEMMA OwnerNext ==
    ASSUME Owner, [Next]_vars
    PROVE  Owner'
<1> USE DEF Owner
<1>0. Core' /\ Typing
  BY CoreNext DEF Core
<1>1. ASSUME NEW a \in Actors, DispatchStep(a) PROVE Owner'
  BY <1>0, <1>1, GrabDispatch, OwnerDispatch, KnownDispatch, RestDispatch
<1>2. ASSUME NEW t \in Timers, TimerStep(t) PROVE Owner'
  BY <1>0, <1>2, GrabTimer, OwnerTimer, KnownTimer, RestTimer
<1>3. ASSUME NEW h \in Helpers, HelperStep(h) PROVE Owner'
  BY <1>0, <1>3, GrabHelper, OwnerHelper, KnownHelper, RestHelper
<1>4. ASSUME NEW d \in Drivers, DriverStep(d) PROVE Owner'
  BY <1>0, <1>4, GrabDriver, OwnerDriver, KnownDriver, RestDriver
<1>5. ASSUME NEW d \in Drivers, DriverStarts(d) PROVE Owner'
  BY <1>0, <1>5, GrabStarts, OwnerStarts, KnownStarts, RestStarts
<1>6. ASSUME head' = head, pending' = pending, timer' = timer, pc' = pc,
             arg' = arg, grabbed' = grabbed, wqData' = wqData
      PROVE  Owner'
  <2>1. ASSUME NEW w \in Works PROVE OwnedOnce(w)' /\ (Queued(w)' <=> Queued(w))
    <3>1. (Queued(w)' <=> Queued(w)) /\ (QueuedOnce(w)' <=> QueuedOnce(w))
      BY <1>6, QueueSame
    <3>2. (Armed(w)' <=> Armed(w)) /\ \A a \in Actors : Holds(a, w)' <=> Holds(a, w)
      BY <1>6 DEF Holds, Armed
    <3>3. OwnedOnce(w)
      BY DEF PendingOwner
    <3> QED BY <1>6, <3>1, <3>2, <3>3 DEF OwnedOnce
  <2>2. PendingOwner'
    BY <2>1 DEF PendingOwner
  <2> QED BY <1>0, <1>6, <2>1, <2>2 DEF Grabbing, Known, AtRest
<1>7. ASSUME NEW d \in Drivers, SpuriousWakeup(d) PROVE Owner'
  BY <1>6, <1>7 DEF SpuriousWakeup, queueVars, itemVars, timerVars, callVars
<1>8. CASE UNCHANGED vars
  BY <1>6, <1>8 DEF vars, queueVars, itemVars, timerVars, callVars
<1> QED
  BY <1>1, <1>2, <1>3, <1>4, <1>5, <1>7, <1>8 DEF Next

(* The owner of every bit, and what it entails, in every reachable state.  *)
THEOREM OwnerInvariant == Spec => []Owner
BY OwnerInit, OwnerNext, PTL DEF Spec

(* The PENDING bit of a work is set exactly while the work is on the       *)
(* queue, on its timer or in the hands of one actor, however queueing,     *)
(* timers, callouts and cancellations interleave.                          *)
THEOREM PendingOwnerHolds == Spec => []PendingOwner
<1>1. Owner => PendingOwner
  BY DEF Owner
<1> QED BY <1>1, OwnerInvariant, PTL

(* cancel_work_sync and cancel_delayed_work_sync return only when the work *)
(* is neither queued nor on its timer nor executing.                       *)
THEOREM CancelGuaranteeHolds == Spec => []CancelGuarantee
<1>1. Owner => CancelGuarantee
  <2> SUFFICES ASSUME Owner, NEW d \in Drivers, pc[d] = "c_clear"
               PROVE  /\ ~ Queued(arg[d]) /\ ~ Armed(arg[d])
                      /\ \A h \in Helpers : pc[h] # "idle" => arg[h] # arg[d]
    BY DEF CancelGuarantee
  <2>1. arg[d] \in Works /\ Holds(d, arg[d])
    BY ArgTyping DEF Owner, Core, Typing, WorkPoints, Grabbing, Holds
  <2> QED BY <2>1 DEF Owner, PendingOwner, OwnedOnce, AtRest
<1> QED BY <1>1, OwnerInvariant, PTL
=============================================================================
