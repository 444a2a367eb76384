-------------------------- MODULE WorkQueueProofs --------------------------
(* Proofs about WorkQueue for every set of works, drivers, helpers and     *)
(* timer contexts and every maxDispatch.                                   *)
EXTENDS WorkQueue, FiniteSetTheorems, SequenceTheorems, TLAPS

USE DEF Items, Actors

-----------------------------------------------------------------------------
(* Typing: TypeOK with the counters only known to be integers, and what    *)
(* the control point of an actor says about the item it works on.          *)

AllPoints  == DriverPoints \cup HelperPoints \cup TimerPoints
WorkPoints == {"qd_arm", "c_try", "c_del", "c_lock", "c_sleep", "c_clear",
               "ct_del", "ct_clear"}
ItemPoints == {"q_add", "h_clear", "h_func", "h_compl", "h_fin"}

KindPoint(a, p) ==
    /\ a \in Drivers => p \in DriverPoints
    /\ a \in Helpers => p \in HelperPoints
    /\ a \in Timers => p \in TimerPoints

ArgPoint(p, x) ==
    /\ p \in WorkPoints => x \in Works
    /\ p \in ItemPoints => x \in Items

Control ==
    /\ pc \in [Actors -> AllPoints]
    /\ arg \in [Actors -> Items \cup {None}]
    /\ \A a \in Actors : KindPoint(a, pc[a]) /\ ArgPoint(pc[a], arg[a])

Fields ==
    /\ head \in Seq(Items)
    /\ qLen \in Int /\ curPosted \in Int /\ curDispatch \in Int
    /\ trackList \subseteq Helpers /\ trackFlushList \subseteq Helpers
    /\ trackFree \in Int
    /\ waiting \in Int /\ sleepers \subseteq Drivers
    /\ pending \subseteq Items /\ wqData \subseteq Works
    /\ timer \in [Works -> {"idle", "armed"} \cup Timers]
    /\ delayTimer \in {"idle", "armed"} \cup Timers
    /\ submitted \in Nat
    /\ flushOwner \in Drivers \cup {None}
    /\ done \in BOOLEAN
    /\ flushDebt \subseteq Items \cup Helpers
    /\ destroyer \in Drivers \cup {None} /\ freed \in BOOLEAN
    /\ withTimer \subseteq Drivers /\ grabbed \subseteq Drivers

(* A helper holds a tracker exactly while it works on an item.             *)
Tracking ==
    /\ trackList \cap trackFlushList = {}
    /\ \A h \in Helpers : h \in Tracked <=> arg[h] # None
    /\ \A h \in Helpers : pc[h] = "idle" => h \notin Tracked

Typing == Control /\ Fields /\ Tracking

(* One actor moves to a point p of its kind and keeps or changes its item. *)
LEMMA ControlMove ==
    ASSUME Control, NEW a \in Actors, NEW p, NEW x \in Items \cup {None},
           pc' = [pc EXCEPT ![a] = p], arg' = [arg EXCEPT ![a] = x],
           KindPoint(a, p), ArgPoint(p, x)
    PROVE  Control'
BY ActorsAssumption DEF Control, KindPoint, ArgPoint, AllPoints

LEMMA ControlGoto ==
    ASSUME Control, NEW a \in Actors, NEW p,
           pc' = [pc EXCEPT ![a] = p], arg' = arg,
           KindPoint(a, p), ArgPoint(p, arg[a])
    PROVE  Control'
BY ActorsAssumption DEF Control, KindPoint, ArgPoint, AllPoints

(* Dispatch returns to a point of the caller that fits its item.           *)
LEMMA CallerPointFits ==
    ASSUME Control, Fields, Tracking, NEW a \in Actors, NEW T,
           T = Tracked \/ a \notin T
    PROVE  /\ KindPoint(a, CallerPoint(a, T))
           /\ ArgPoint(CallerPoint(a, T), arg[a])
<1>1. CASE a \in Timers
  BY <1>1, ActorsAssumption DEF CallerPoint, KindPoint, ArgPoint, TimerPoints,
     WorkPoints, ItemPoints
<1>2. CASE a \in Drivers
  BY <1>2, ActorsAssumption DEF CallerPoint, KindPoint, ArgPoint, DriverPoints,
     WorkPoints, ItemPoints
<1>3. CASE a \in Helpers /\ a \in T
  <2>1. arg[a] \in Items
    BY <1>3 DEF Control, Tracking
  <2> QED
    BY <1>3, <2>1, ActorsAssumption DEF CallerPoint, KindPoint, ArgPoint,
       HelperPoints, WorkPoints, ItemPoints
<1>4. CASE a \in Helpers /\ a \notin T
  BY <1>4, ActorsAssumption DEF CallerPoint, KindPoint, ArgPoint, HelperPoints,
     WorkPoints, ItemPoints
<1> QED BY <1>1, <1>2, <1>3, <1>4

LEMMA ControlSame ==
    ASSUME Control, pc' = pc, arg' = arg
    PROVE  Control'
BY DEF Control, KindPoint, ArgPoint

(* The item of an actor that owns a PENDING bit or cancels.                *)
LEMMA ArgTyping ==
    ASSUME Control, NEW a \in Actors
    PROVE  /\ pc[a] \in AllPoints
           /\ pc[a] \in WorkPoints => arg[a] \in Works
           /\ pc[a] \in ItemPoints => arg[a] \in Items
BY DEF Control, ArgPoint

(* What taking the item at position k out of a queue leaves.               *)
LEMMA RemoveAtFacts ==
    ASSUME NEW S, NEW s \in Seq(S), NEW k \in DOMAIN s
    PROVE  /\ RemoveAt(s, k) \in Seq(S)
           /\ Len(RemoveAt(s, k)) = Len(s) - 1
           /\ \A j \in 1..(Len(s) - 1) :
                 RemoveAt(s, k)[j] = IF j < k THEN s[j] ELSE s[j + 1]
<1>1. k \in 1..Len(s) /\ Len(s) \in Nat
  OBVIOUS
<1>2. /\ SubSeq(s, 1, k-1) \in Seq(S) /\ Len(SubSeq(s, 1, k-1)) = k - 1
      /\ \A j \in 1..(k-1) : SubSeq(s, 1, k-1)[j] = s[j]
  BY <1>1
<1>3. /\ SubSeq(s, k+1, Len(s)) \in Seq(S)
      /\ Len(SubSeq(s, k+1, Len(s))) = Len(s) - k
      /\ \A j \in 1..(Len(s) - k) : SubSeq(s, k+1, Len(s))[j] = s[k + j]
  BY <1>1
<1>4. ASSUME NEW p \in Seq(S), NEW q \in Seq(S), Len(p) = k - 1,
             Len(q) = Len(s) - k
      PROVE  /\ p \o q \in Seq(S)
             /\ Len(p \o q) = Len(s) - 1
             /\ \A j \in 1..(Len(s) - 1) :
                   (p \o q)[j] = IF j < k THEN p[j] ELSE q[j - (k - 1)]
  BY <1>1, <1>4, SMTT(30)
<1>5. \A j \in 1..(Len(s) - 1) :
         /\ j < k => j \in 1..(k-1)
         /\ ~ j < k => j - (k - 1) \in 1..(Len(s) - k)
                        /\ k + (j - (k - 1)) = j + 1
  BY <1>1
<1> QED
  BY <1>2, <1>3, <1>4, <1>5 DEF RemoveAt

LEMMA FieldsDispatch ==
    ASSUME Typing, NEW a \in Actors, DispatchStep(a)
    PROVE  Fields'
<1> USE DEF Typing, Fields, queueVars, sleepVars, itemVars, timerVars,
            flushVars, lifeVars, callVars, WorkPoints, ItemPoints
<1>1. CASE SubmitOK(a)
  BY <1>1 DEF SubmitOK
<1>2. CASE SubmitFail(a)
  BY <1>2 DEF SubmitFail
<1>3. CASE DispatchNext(a)
  BY <1>3 DEF DispatchNext, Dispatch, CallerPoint, Tracked
<1>4. CASE Unpost(a)
  BY <1>4 DEF Unpost
<1>5. CASE ArmDelayTimer(a)
  BY <1>5 DEF ArmDelayTimer, CallerPoint, RetryTimer, Tracked
<1> QED
  BY <1>1, <1>2, <1>3, <1>4, <1>5 DEF DispatchStep

LEMMA FieldsTimer ==
    ASSUME Typing, NEW t \in Timers, TimerStep(t)
    PROVE  Fields'
<1> USE DEF Typing, Fields, queueVars, sleepVars, itemVars, timerVars,
            flushVars, lifeVars, callVars, WorkPoints, ItemPoints
<1>1. CASE \E w \in Works : WorkTimerFires(t, w)
  BY <1>1 DEF WorkTimerFires
<1>2. CASE DelayTimerFires(t)
  BY <1>2 DEF DelayTimerFires
<1>3. CASE DelayTimeout(t)
  BY <1>3 DEF DelayTimeout, Dispatch, CallerPoint
<1>4. CASE TimerReturns(t)
  BY <1>4 DEF TimerReturns
<1>5. CASE QueueAdd(t)
  BY <1>5, ArgTyping DEF QueueAdd, Dispatch, CallerPoint, Tracked, ToSet
<1> QED
  BY <1>1, <1>2, <1>3, <1>4, <1>5 DEF TimerStep

LEMMA FieldsHelper ==
    ASSUME Typing, NEW h \in Helpers, HelperStep(h)
    PROVE  Fields'
<1> USE DEF Typing, Fields, queueVars, sleepVars, itemVars, timerVars,
            flushVars, lifeVars, callVars, WorkPoints, ItemPoints
<1>1. CASE CalloutNothing(h)
  BY <1>1 DEF CalloutNothing, WokenWhenDrained
<1>2. CASE CalloutTake(h)
  BY <1>2 DEF CalloutTake
<1>3. CASE CalloutClear(h)
  BY <1>3 DEF CalloutClear
<1>4. CASE WorkReturns(h)
  BY <1>4 DEF WorkReturns
<1>5. CASE WorkRequeues(h)
  BY <1>5, WorksAssumption DEF WorkRequeues, Claim
<1>6. CASE PlungerSplice(h)
  BY <1>6 DEF PlungerSplice, FlushList
<1>7. CASE PlungerComplete(h)
  BY <1>7 DEF PlungerComplete
<1>8. CASE CalloutFinish(h)
  BY <1>8 DEF CalloutFinish, Dispatch, CallerPoint, Tracked, WokenAtFinish
<1>9. CASE QueueAdd(h)
  BY <1>9, ArgTyping DEF QueueAdd, Dispatch, CallerPoint, Tracked, ToSet
<1>10. CASE TimerAdd(h)
  BY <1>10, ArgTyping DEF TimerAdd
<1> QED
  BY <1>1, <1>2, <1>3, <1>4, <1>5, <1>6, <1>7, <1>8, <1>9, <1>10 DEF HelperStep

LEMMA FieldsDriver ==
    ASSUME Typing, NEW d \in Drivers, DriverStep(d)
    PROVE  Fields'
<1> USE DEF Typing, Fields, queueVars, sleepVars, itemVars, timerVars,
            flushVars, lifeVars, callVars, WorkPoints, ItemPoints
<1>1. CASE QueueAdd(d)
  BY <1>1, ArgTyping DEF QueueAdd, Dispatch, CallerPoint, Tracked, ToSet
<1>2. CASE TimerAdd(d)
  BY <1>2, ArgTyping DEF TimerAdd
<1>3. CASE CancelTry(d)
  BY <1>3, ArgTyping DEF CancelTry
<1>4. CASE CancelDelTimer(d)
  BY <1>4 DEF CancelDelTimer
<1>5. CASE CancelRemove(d)
  BY <1>5, RemoveAtFacts DEF CancelRemove, CancelWait, CancelNext, Executing
<1>6. CASE CancelNotQueued(d)
  BY <1>6 DEF CancelNotQueued, CancelWait, CancelNext, Executing
<1>7. CASE CancelWoken(d)
  BY <1>7 DEF CancelWoken, CancelNext, Executing
<1>8. CASE CancelClear(d)
  BY <1>8 DEF CancelClear
<1>9. CASE CancelDelayed(d)
  BY <1>9 DEF CancelDelayed
<1>10. CASE CancelDelayedClear(d)
  BY <1>10 DEF CancelDelayedClear
<1>11. CASE FlushLock(d)
  BY <1>11 DEF FlushLock
<1>12. CASE FlushCompleted(d)
  BY <1>12 DEF FlushCompleted
<1>13. CASE FlushDrain(d)
  BY <1>13 DEF FlushDrain
<1>14. CASE FlushWoken(d)
  BY <1>14 DEF FlushWoken
<1>15. CASE FlushUnlock(d)
  BY <1>15 DEF FlushUnlock
<1>16. CASE DestroyWait(d)
  BY <1>16 DEF DestroyWait
<1>17. CASE DestroyDelTimer(d)
  BY <1>17 DEF DestroyDelTimer
<1>18. CASE DestroyFree(d)
  BY <1>18 DEF DestroyFree
<1> QED
  BY <1>1, <1>2, <1>3, <1>4, <1>5, <1>6, <1>7, <1>8, <1>9, <1>10, <1>11, <1>12, <1>13, <1>14, <1>15, <1>16, <1>17, <1>18 DEF DriverStep

LEMMA FieldsStarts ==
    ASSUME Typing, NEW d \in Drivers, DriverStarts(d)
    PROVE  Fields'
<1> USE DEF Typing, Fields, queueVars, sleepVars, itemVars, timerVars,
            flushVars, lifeVars, callVars, WorkPoints, ItemPoints
<1>1. CASE \E w \in Works : StartQueue(d, w)
  BY <1>1 DEF StartQueue, Claim
<1>2. CASE \E w \in Works : StartQueueDelayed(d, w)
  BY <1>2 DEF StartQueueDelayed, Claim
<1>3. CASE \E w \in Works : StartCancel(d, w)
  BY <1>3 DEF StartCancel, Begin
<1>4. CASE StartFlush(d)
  BY <1>4 DEF StartFlush
<1>5. CASE StartDestroy(d)
  BY <1>5 DEF StartDestroy
<1> QED
  BY <1>1, <1>2, <1>3, <1>4, <1>5 DEF DriverStarts

LEMMA ControlDispatch ==
    ASSUME Typing, NEW a \in Actors, DispatchStep(a)
    PROVE  Control'
<1> USE DEF Typing, Fields, Tracking, Goto, KindPoint, ArgPoint,
            DriverPoints, HelperPoints, TimerPoints, WorkPoints, ItemPoints
<1>1. CASE SubmitOK(a)
  BY <1>1, ArgTyping, ControlGoto, ActorsAssumption
     DEF SubmitOK
<1>2. CASE SubmitFail(a)
  BY <1>2, ArgTyping, ControlGoto, ActorsAssumption
     DEF SubmitFail
<1>3. CASE DispatchNext(a)
  <2>1. KindPoint(a, "d_submit") /\ ArgPoint("d_submit", arg[a])
    OBVIOUS
  <2>2. /\ arg' = arg
        /\ \/ pc' = [pc EXCEPT ![a] = "d_submit"]
           \/ pc' = [pc EXCEPT ![a] = CallerPoint(a, Tracked)]
    BY <1>3 DEF DispatchNext, Dispatch
  <2> HIDE DEF KindPoint, ArgPoint
  <2> QED
    BY <2>1, <2>2, CallerPointFits, ControlGoto
<1>4. CASE Unpost(a)
  BY <1>4, ArgTyping, ControlGoto, ActorsAssumption
     DEF Unpost
<1>5. CASE ArmDelayTimer(a)
  BY <1>5, CallerPointFits, ControlGoto DEF ArmDelayTimer
<1> QED
  BY <1>1, <1>2, <1>3, <1>4, <1>5 DEF DispatchStep

LEMMA ControlTimer ==
    ASSUME Typing, NEW t \in Timers, TimerStep(t)
    PROVE  Control'
<1> USE DEF Typing, Fields, Tracking, Goto, KindPoint, ArgPoint,
            DriverPoints, HelperPoints, TimerPoints, WorkPoints, ItemPoints
<1>1. CASE \E w \in Works : WorkTimerFires(t, w)
  <2>1. PICK w \in Works : WorkTimerFires(t, w)
    BY <1>1
  <2> QED
    BY <2>1, ControlMove, ActorsAssumption DEF WorkTimerFires
<1>2. CASE DelayTimerFires(t)
  BY <1>2, ArgTyping, ControlGoto, ActorsAssumption
     DEF DelayTimerFires
<1>3. CASE DelayTimeout(t)
  BY <1>3, ArgTyping, ControlGoto, ActorsAssumption
     DEF DelayTimeout, Dispatch, CallerPoint
<1>4. CASE TimerReturns(t)
  BY <1>4, ArgTyping, ControlGoto, ActorsAssumption
     DEF TimerReturns
<1>5. CASE QueueAdd(t)
  BY <1>5, ArgTyping, ControlMove, ControlGoto, ActorsAssumption
     DEF QueueAdd, Dispatch, CallerPoint, Tracked, ToSet
<1> QED
  BY <1>1, <1>2, <1>3, <1>4, <1>5 DEF TimerStep

LEMMA ControlHelper ==
    ASSUME Typing, NEW h \in Helpers, HelperStep(h)
    PROVE  Control'
<1> USE DEF Typing, Fields, Tracking, Goto, KindPoint, ArgPoint,
            DriverPoints, HelperPoints, TimerPoints, WorkPoints, ItemPoints
<1>1. CASE CalloutNothing(h)
  BY <1>1, ArgTyping, ControlGoto, ControlSame, ActorsAssumption
     DEF CalloutNothing, WokenWhenDrained
<1>2. CASE CalloutTake(h)
  <2>1. Head(head) \in Items
    BY <1>2 DEF CalloutTake
  <2> QED
    BY <1>2, <2>1, ControlMove, ActorsAssumption DEF CalloutTake
<1>3. CASE CalloutClear(h)
  BY <1>3, ArgTyping, ControlGoto, ActorsAssumption
     DEF CalloutClear
<1>4. CASE WorkReturns(h)
  BY <1>4, ArgTyping, ControlGoto, ActorsAssumption
     DEF WorkReturns
<1>5. CASE WorkRequeues(h)
  BY <1>5, ArgTyping, ControlMove, ControlGoto, WorksAssumption, ActorsAssumption
     DEF WorkRequeues, Claim
<1>6. CASE PlungerSplice(h)
  BY <1>6, ArgTyping, ControlGoto, ActorsAssumption
     DEF PlungerSplice, FlushList
<1>7. CASE PlungerComplete(h)
  BY <1>7, ArgTyping, ControlGoto, ActorsAssumption
     DEF PlungerComplete
<1>8. CASE CalloutFinish(h)
  BY <1>8, ArgTyping, ControlMove, ActorsAssumption
     DEF CalloutFinish, Dispatch, CallerPoint, Tracked, WokenAtFinish
<1>9. CASE QueueAdd(h)
  BY <1>9, ArgTyping, ControlMove, ControlGoto, ActorsAssumption
     DEF QueueAdd, Dispatch, CallerPoint, Tracked, ToSet
<1>10. CASE TimerAdd(h)
  BY <1>10, ArgTyping, ControlMove, ControlGoto, ActorsAssumption
     DEF TimerAdd
<1> QED
  BY <1>1, <1>2, <1>3, <1>4, <1>5, <1>6, <1>7, <1>8, <1>9, <1>10 DEF HelperStep

LEMMA ControlDriver ==
    ASSUME Typing, NEW d \in Drivers, DriverStep(d)
    PROVE  Control'
<1> USE DEF Typing, Fields, Tracking, Goto, KindPoint, ArgPoint,
            DriverPoints, HelperPoints, TimerPoints, WorkPoints, ItemPoints
<1>1. CASE QueueAdd(d)
  BY <1>1, ArgTyping, ControlMove, ControlGoto, ActorsAssumption
     DEF QueueAdd, Dispatch, CallerPoint, Tracked, ToSet
<1>2. CASE TimerAdd(d)
  BY <1>2, ArgTyping, ControlMove, ControlGoto, ActorsAssumption
     DEF TimerAdd
<1>3. CASE CancelTry(d)
  BY <1>3, ArgTyping, ControlGoto, ActorsAssumption
     DEF CancelTry
<1>4. CASE CancelDelTimer(d)
  BY <1>4, ArgTyping, ControlGoto, ActorsAssumption
     DEF CancelDelTimer
<1>5. CASE CancelRemove(d)
  BY <1>5, ArgTyping, ControlGoto, ActorsAssumption
     DEF CancelRemove, CancelWait, CancelNext, Executing
<1>6. CASE CancelNotQueued(d)
  BY <1>6, ArgTyping, ControlGoto, ActorsAssumption
     DEF CancelNotQueued, CancelWait, CancelNext, Executing
<1>7. CASE CancelWoken(d)
  BY <1>7, ArgTyping, ControlGoto, ControlSame, ActorsAssumption
     DEF CancelWoken, CancelNext, Executing
<1>8. CASE CancelClear(d)
  BY <1>8, ArgTyping, ControlMove, ActorsAssumption
     DEF CancelClear
<1>9. CASE CancelDelayed(d)
  BY <1>9, ArgTyping, ControlMove, ControlGoto, ActorsAssumption
     DEF CancelDelayed
<1>10. CASE CancelDelayedClear(d)
  BY <1>10, ArgTyping, ControlMove, ActorsAssumption
     DEF CancelDelayedClear
<1>11. CASE FlushLock(d)
  BY <1>11, ArgTyping, ControlMove, ActorsAssumption
     DEF FlushLock
<1>12. CASE FlushCompleted(d)
  BY <1>12, ArgTyping, ControlGoto, ActorsAssumption
     DEF FlushCompleted
<1>13. CASE FlushDrain(d)
  BY <1>13, ArgTyping, ControlGoto, ActorsAssumption
     DEF FlushDrain
<1>14. CASE FlushWoken(d)
  BY <1>14, ArgTyping, ControlGoto, ControlSame, ActorsAssumption
     DEF FlushWoken
<1>15. CASE FlushUnlock(d)
  BY <1>15, ArgTyping, ControlMove, ActorsAssumption
     DEF FlushUnlock
<1>16. CASE DestroyWait(d)
  BY <1>16, ArgTyping, ControlGoto, ActorsAssumption
     DEF DestroyWait
<1>17. CASE DestroyDelTimer(d)
  BY <1>17, ArgTyping, ControlGoto, ActorsAssumption
     DEF DestroyDelTimer
<1>18. CASE DestroyFree(d)
  BY <1>18, ArgTyping, ControlGoto, ActorsAssumption
     DEF DestroyFree
<1> QED
  BY <1>1, <1>2, <1>3, <1>4, <1>5, <1>6, <1>7, <1>8, <1>9, <1>10, <1>11, <1>12, <1>13, <1>14, <1>15, <1>16, <1>17, <1>18 DEF DriverStep

LEMMA ControlStarts ==
    ASSUME Typing, NEW d \in Drivers, DriverStarts(d)
    PROVE  Control'
<1> USE DEF Typing, Fields, Tracking, Goto, KindPoint, ArgPoint,
            DriverPoints, HelperPoints, TimerPoints, WorkPoints, ItemPoints
<1>1. CASE \E w \in Works : StartQueue(d, w)
  BY <1>1, ArgTyping, ControlMove, ActorsAssumption
     DEF StartQueue, Claim
<1>2. CASE \E w \in Works : StartQueueDelayed(d, w)
  BY <1>2, ArgTyping, ControlMove, ActorsAssumption
     DEF StartQueueDelayed, Claim
<1>3. CASE \E w \in Works : StartCancel(d, w)
  BY <1>3, ArgTyping, ControlMove, ActorsAssumption
     DEF StartCancel, Begin
<1>4. CASE StartFlush(d)
  BY <1>4, ArgTyping, ControlGoto, ActorsAssumption
     DEF StartFlush
<1>5. CASE StartDestroy(d)
  BY <1>5, ArgTyping, ControlGoto, ActorsAssumption
     DEF StartDestroy
<1> QED
  BY <1>1, <1>2, <1>3, <1>4, <1>5 DEF DriverStarts

LEMMA TrackingDispatch ==
    ASSUME Typing, NEW a \in Actors, DispatchStep(a)
    PROVE  Tracking'
<1> USE DEF Typing, Control, Tracking, Tracked, Goto, queueVars,
            WorkPoints, ItemPoints
<1>1. CASE SubmitOK(a)
  BY <1>1, ArgTyping, ActorsAssumption, WorksAssumption
     DEF SubmitOK
<1>2. CASE SubmitFail(a)
  BY <1>2, ArgTyping, ActorsAssumption, WorksAssumption
     DEF SubmitFail
<1>3. CASE DispatchNext(a)
  BY <1>3, ArgTyping, ActorsAssumption, WorksAssumption
     DEF DispatchNext, Dispatch, CallerPoint
<1>4. CASE Unpost(a)
  BY <1>4, ArgTyping, ActorsAssumption, WorksAssumption
     DEF Unpost
<1>5. CASE ArmDelayTimer(a)
  BY <1>5, ArgTyping, ActorsAssumption, WorksAssumption
     DEF ArmDelayTimer, CallerPoint, RetryTimer
<1> QED
  BY <1>1, <1>2, <1>3, <1>4, <1>5 DEF DispatchStep

LEMMA TrackingTimer ==
    ASSUME Typing, NEW t \in Timers, TimerStep(t)
    PROVE  Tracking'
<1> USE DEF Typing, Control, Tracking, Tracked, Goto, queueVars,
            WorkPoints, ItemPoints
<1>1. CASE \E w \in Works : WorkTimerFires(t, w)
  BY <1>1, ArgTyping, ActorsAssumption, WorksAssumption
     DEF WorkTimerFires
<1>2. CASE DelayTimerFires(t)
  BY <1>2, ArgTyping, ActorsAssumption, WorksAssumption
     DEF DelayTimerFires
<1>3. CASE DelayTimeout(t)
  BY <1>3, ArgTyping, ActorsAssumption, WorksAssumption
     DEF DelayTimeout, Dispatch, CallerPoint
<1>4. CASE TimerReturns(t)
  BY <1>4, ArgTyping, ActorsAssumption, WorksAssumption
     DEF TimerReturns
<1>5. CASE QueueAdd(t)
  BY <1>5, ArgTyping, ActorsAssumption, WorksAssumption
     DEF QueueAdd, Dispatch, CallerPoint
<1> QED
  BY <1>1, <1>2, <1>3, <1>4, <1>5 DEF TimerStep

LEMMA TrackingHelper ==
    ASSUME Typing, NEW h \in Helpers, HelperStep(h)
    PROVE  Tracking'
<1> USE DEF Typing, Control, Tracking, Tracked, Goto, queueVars,
            WorkPoints, ItemPoints
<1>1. CASE CalloutNothing(h)
  BY <1>1, ArgTyping, ActorsAssumption, WorksAssumption
     DEF CalloutNothing, WokenWhenDrained
<1>2. CASE CalloutTake(h)
  <2>1. Head(head) \in Items
    BY <1>2 DEF CalloutTake, Fields
  <2>2. /\ trackList' = trackList \cup {h} /\ trackFlushList' = trackFlushList
        /\ arg' = [arg EXCEPT ![h] = Head(head)]
        /\ pc' = [pc EXCEPT ![h] = "h_clear"]
        /\ h \notin Tracked
    BY <1>2 DEF CalloutTake
  <2> QED
    BY <2>1, <2>2, ActorsAssumption, WorksAssumption
<1>3. CASE CalloutClear(h)
  BY <1>3, ArgTyping, ActorsAssumption, WorksAssumption
     DEF CalloutClear
<1>4. CASE WorkReturns(h)
  BY <1>4, ArgTyping, ActorsAssumption, WorksAssumption
     DEF WorkReturns
<1>5. CASE WorkRequeues(h)
  BY <1>5, ArgTyping, ActorsAssumption, WorksAssumption
     DEF WorkRequeues, Claim
<1>6. CASE PlungerSplice(h)
  BY <1>6, ArgTyping, ActorsAssumption, WorksAssumption
     DEF PlungerSplice, FlushList
<1>7. CASE PlungerComplete(h)
  BY <1>7, ArgTyping, ActorsAssumption, WorksAssumption
     DEF PlungerComplete
<1>8. CASE CalloutFinish(h)
  BY <1>8, ArgTyping, ActorsAssumption, WorksAssumption
     DEF CalloutFinish, Dispatch, CallerPoint, WokenAtFinish
<1>9. CASE QueueAdd(h)
  BY <1>9, ArgTyping, ActorsAssumption, WorksAssumption
     DEF QueueAdd, Dispatch, CallerPoint
<1>10. CASE TimerAdd(h)
  BY <1>10, ArgTyping, ActorsAssumption, WorksAssumption
     DEF TimerAdd
<1> QED
  BY <1>1, <1>2, <1>3, <1>4, <1>5, <1>6, <1>7, <1>8, <1>9, <1>10 DEF HelperStep

LEMMA TrackingDriver ==
    ASSUME Typing, NEW d \in Drivers, DriverStep(d)
    PROVE  Tracking'
<1> USE DEF Typing, Control, Tracking, Tracked, Goto, queueVars,
            WorkPoints, ItemPoints
<1>1. CASE QueueAdd(d)
  BY <1>1, ArgTyping, ActorsAssumption, WorksAssumption
     DEF QueueAdd, Dispatch, CallerPoint
<1>2. CASE TimerAdd(d)
  BY <1>2, ArgTyping, ActorsAssumption, WorksAssumption
     DEF TimerAdd
<1>3. CASE CancelTry(d)
  BY <1>3, ArgTyping, ActorsAssumption, WorksAssumption
     DEF CancelTry
<1>4. CASE CancelDelTimer(d)
  BY <1>4, ArgTyping, ActorsAssumption, WorksAssumption
     DEF CancelDelTimer
<1>5. CASE CancelRemove(d)
  BY <1>5, ArgTyping, ActorsAssumption, WorksAssumption
     DEF CancelRemove, CancelWait, CancelNext
<1>6. CASE CancelNotQueued(d)
  BY <1>6, ArgTyping, ActorsAssumption, WorksAssumption
     DEF CancelNotQueued, CancelWait, CancelNext
<1>7. CASE CancelWoken(d)
  BY <1>7, ArgTyping, ActorsAssumption, WorksAssumption
     DEF CancelWoken, CancelNext
<1>8. CASE CancelClear(d)
  BY <1>8, ArgTyping, ActorsAssumption, WorksAssumption
     DEF CancelClear
<1>9. CASE CancelDelayed(d)
  BY <1>9, ArgTyping, ActorsAssumption, WorksAssumption
     DEF CancelDelayed
<1>10. CASE CancelDelayedClear(d)
  BY <1>10, ArgTyping, ActorsAssumption, WorksAssumption
     DEF CancelDelayedClear
<1>11. CASE FlushLock(d)
  BY <1>11, ArgTyping, ActorsAssumption, WorksAssumption
     DEF FlushLock
<1>12. CASE FlushCompleted(d)
  BY <1>12, ArgTyping, ActorsAssumption, WorksAssumption
     DEF FlushCompleted
<1>13. CASE FlushDrain(d)
  BY <1>13, ArgTyping, ActorsAssumption, WorksAssumption
     DEF FlushDrain
<1>14. CASE FlushWoken(d)
  BY <1>14, ArgTyping, ActorsAssumption, WorksAssumption
     DEF FlushWoken
<1>15. CASE FlushUnlock(d)
  BY <1>15, ArgTyping, ActorsAssumption, WorksAssumption
     DEF FlushUnlock
<1>16. CASE DestroyWait(d)
  BY <1>16, ArgTyping, ActorsAssumption, WorksAssumption
     DEF DestroyWait
<1>17. CASE DestroyDelTimer(d)
  BY <1>17, ArgTyping, ActorsAssumption, WorksAssumption
     DEF DestroyDelTimer
<1>18. CASE DestroyFree(d)
  BY <1>18, ArgTyping, ActorsAssumption, WorksAssumption
     DEF DestroyFree
<1> QED
  BY <1>1, <1>2, <1>3, <1>4, <1>5, <1>6, <1>7, <1>8, <1>9, <1>10, <1>11, <1>12, <1>13, <1>14, <1>15, <1>16, <1>17, <1>18 DEF DriverStep

LEMMA TrackingStarts ==
    ASSUME Typing, NEW d \in Drivers, DriverStarts(d)
    PROVE  Tracking'
<1> USE DEF Typing, Control, Tracking, Tracked, Goto, queueVars,
            WorkPoints, ItemPoints
<1>1. CASE \E w \in Works : StartQueue(d, w)
  BY <1>1, ArgTyping, ActorsAssumption, WorksAssumption
     DEF StartQueue, Claim
<1>2. CASE \E w \in Works : StartQueueDelayed(d, w)
  BY <1>2, ArgTyping, ActorsAssumption, WorksAssumption
     DEF StartQueueDelayed, Claim
<1>3. CASE \E w \in Works : StartCancel(d, w)
  BY <1>3, ArgTyping, ActorsAssumption, WorksAssumption
     DEF StartCancel, Begin
<1>4. CASE StartFlush(d)
  BY <1>4, ArgTyping, ActorsAssumption, WorksAssumption
     DEF StartFlush
<1>5. CASE StartDestroy(d)
  BY <1>5, ArgTyping, ActorsAssumption, WorksAssumption
     DEF StartDestroy
<1> QED
  BY <1>1, <1>2, <1>3, <1>4, <1>5 DEF DriverStarts

-----------------------------------------------------------------------------
(* A set of actors counted by their control points changes by at most one  *)
(* when one actor moves.                                                   *)

CountAt(A, f, P) == Cardinality({x \in A : f[x] \in P})

LEMMA CountMove ==
    ASSUME NEW A, IsFiniteSet(A), NEW f, NEW g, NEW P, NEW a \in A,
           \A x \in A : x # a => g[x] = f[x]
    PROVE  /\ CountAt(A, f, P) \in Nat
           /\ f[a] \in P /\ g[a] \notin P =>
                 CountAt(A, f, P) > 0 /\ CountAt(A, g, P) = CountAt(A, f, P) - 1
           /\ f[a] \notin P /\ g[a] \in P =>
                 CountAt(A, g, P) = CountAt(A, f, P) + 1
           /\ (f[a] \in P <=> g[a] \in P) => CountAt(A, g, P) = CountAt(A, f, P)
<1> DEFINE F == {x \in A : f[x] \in P}
           G == {x \in A : g[x] \in P}
<1>1. IsFiniteSet(F) /\ IsFiniteSet(G)
  BY FS_Subset
<1>2. Cardinality(F) \in Nat /\ Cardinality(G) \in Nat
  BY <1>1, FS_CardinalityType
<1>3. CASE f[a] \in P /\ g[a] \notin P
  <2>1. F = G \cup {a} /\ a \notin G
    BY <1>3
  <2>2. Cardinality(F) = Cardinality(G) + 1
    BY <2>1, <1>1, FS_AddElement
  <2> HIDE DEF F, G
  <2>3. Cardinality(F) > 0 /\ Cardinality(G) = Cardinality(F) - 1
    BY <2>2, <1>2
  <2> QED BY <1>2, <1>3, <2>3 DEF CountAt, F, G
<1>4. CASE f[a] \notin P /\ g[a] \in P
  <2>1. G = F \cup {a} /\ a \notin F
    BY <1>4
  <2>2. Cardinality(G) = Cardinality(F) + 1
    BY <2>1, <1>1, FS_AddElement
  <2> QED BY <1>2, <1>4, <2>2 DEF CountAt
<1>5. CASE f[a] \in P <=> g[a] \in P
  <2>1. F = G
    BY <1>5
  <2> QED BY <1>2, <1>5, <2>1 DEF CountAt
<1> QED BY <1>3, <1>4, <1>5

(* The counters of the queue, each against what it counts.                 *)
PostPoints  == {"d_submit", "d_unpost"}
SleepPoints == {"c_sleep", "f_sleep"}

Posted == CountAt(Actors, pc, PostPoints)
Slept  == CountAt(Actors, pc, SleepPoints)
InUse  == Cardinality(Tracked)

Counting ==
    /\ qLen = Len(head)
    /\ curPosted = submitted + Posted
    /\ waiting = Slept
    /\ curDispatch = InUse
    /\ curDispatch <= MaxDispatch
    /\ trackFree = MaxDispatch - curDispatch

LEMMA CountsMoveAt ==
    ASSUME NEW a \in Actors, \A x \in Actors : x # a => pc'[x] = pc[x]
    PROVE  /\ Posted \in Nat /\ Slept \in Nat
           /\ pc[a] \in PostPoints /\ pc'[a] \notin PostPoints =>
                 Posted > 0 /\ Posted' = Posted - 1
           /\ pc[a] \notin PostPoints /\ pc'[a] \in PostPoints =>
                 Posted' = Posted + 1
           /\ (pc[a] \in PostPoints <=> pc'[a] \in PostPoints) => Posted' = Posted
           /\ pc[a] \in SleepPoints /\ pc'[a] \notin SleepPoints =>
                 Slept > 0 /\ Slept' = Slept - 1
           /\ pc[a] \notin SleepPoints /\ pc'[a] \in SleepPoints =>
                 Slept' = Slept + 1
           /\ (pc[a] \in SleepPoints <=> pc'[a] \in SleepPoints) => Slept' = Slept
<1>1. IsFiniteSet(Actors)
  BY ActorsAssumption, FS_Union
<1> HIDE DEF Actors
<1>2. ASSUME NEW P
      PROVE  /\ CountAt(Actors, pc, P) \in Nat
             /\ pc[a] \in P /\ pc'[a] \notin P =>
                   /\ CountAt(Actors, pc, P) > 0
                   /\ CountAt(Actors, pc', P) = CountAt(Actors, pc, P) - 1
             /\ pc[a] \notin P /\ pc'[a] \in P =>
                   CountAt(Actors, pc', P) = CountAt(Actors, pc, P) + 1
             /\ (pc[a] \in P <=> pc'[a] \in P) =>
                   CountAt(Actors, pc', P) = CountAt(Actors, pc, P)
  <2>1. CountAt(Actors, pc, P) \in Nat
    BY <1>1, CountMove
  <2>2. ASSUME pc[a] \in P, pc'[a] \notin P
        PROVE  /\ CountAt(Actors, pc, P) > 0
               /\ CountAt(Actors, pc', P) = CountAt(Actors, pc, P) - 1
    BY <1>1, <2>2, CountMove
  <2>3. ASSUME pc[a] \notin P, pc'[a] \in P
        PROVE  CountAt(Actors, pc', P) = CountAt(Actors, pc, P) + 1
    BY <1>1, <2>3, CountMove
  <2>4. ASSUME pc[a] \in P <=> pc'[a] \in P
        PROVE  CountAt(Actors, pc', P) = CountAt(Actors, pc, P)
    BY <1>1, <2>4, CountMove
  <2> QED BY <2>1, <2>2, <2>3, <2>4
<1> QED
  BY <1>2 DEF Posted, Slept

LEMMA CountsMove ==
    ASSUME Control, NEW a \in Actors, NEW p, Goto(a, p)
    PROVE  /\ Posted \in Nat /\ Slept \in Nat
           /\ pc[a] \in PostPoints /\ p \notin PostPoints =>
                 Posted > 0 /\ Posted' = Posted - 1
           /\ pc[a] \notin PostPoints /\ p \in PostPoints => Posted' = Posted + 1
           /\ (pc[a] \in PostPoints <=> p \in PostPoints) => Posted' = Posted
           /\ pc[a] \in SleepPoints /\ p \notin SleepPoints =>
                 Slept > 0 /\ Slept' = Slept - 1
           /\ pc[a] \notin SleepPoints /\ p \in SleepPoints => Slept' = Slept + 1
           /\ (pc[a] \in SleepPoints <=> p \in SleepPoints) => Slept' = Slept
<1>1. pc'[a] = p /\ \A x \in Actors : x # a => pc'[x] = pc[x]
  BY DEF Control, Goto
<1> QED
  BY <1>1, CountsMoveAt

LEMMA CountsSame ==
    ASSUME pc' = pc
    PROVE  Posted \in Nat /\ Posted' = Posted /\ Slept' = Slept
<1>1. IsFiniteSet(Actors)
  BY ActorsAssumption, FS_Union
<1>2. \A P : IsFiniteSet({x \in Actors : pc[x] \in P})
  BY <1>1, FS_Subset
<1>3. Posted \in Nat
  BY <1>2, FS_CardinalityType DEF Posted, CountAt
<1> QED
  BY <1>3 DEF Posted, Slept, CountAt

LEMMA InUseSame ==
    ASSUME trackList' = trackList, trackFlushList' = trackFlushList
    PROVE  InUse' = InUse
BY DEF InUse, Tracked

LEMMA InUseTake ==
    ASSUME Fields, NEW h \in Helpers, h \notin Tracked,
           trackList' = trackList \cup {h}, trackFlushList' = trackFlushList
    PROVE  InUse \in Nat /\ InUse' = InUse + 1
<1>1. IsFiniteSet(Tracked)
  BY ActorsAssumption, FS_Subset DEF Fields, Tracked
<1>2. Tracked' = Tracked \cup {h}
  BY DEF Tracked
<1> QED
  BY <1>1, <1>2, FS_AddElement, FS_CardinalityType DEF InUse

LEMMA InUseFinish ==
    ASSUME Fields, NEW h \in Tracked,
           trackList' = trackList \ {h}, trackFlushList' = trackFlushList \ {h}
    PROVE  InUse \in Nat /\ InUse' = InUse - 1
<1>1. IsFiniteSet(Tracked')
  BY ActorsAssumption, FS_Subset DEF Fields, Tracked
<1>2. Tracked = Tracked' \cup {h} /\ h \notin Tracked'
  BY DEF Tracked
<1>3. /\ Cardinality(Tracked') \in Nat
      /\ Cardinality(Tracked' \cup {h}) = Cardinality(Tracked') + 1
  BY <1>1, <1>2, FS_AddElement, FS_CardinalityType
<1> QED
  BY <1>2, <1>3 DEF InUse

LEMMA InUseSplice ==
    ASSUME trackFlushList' = trackFlushList \cup trackList, trackList' = {}
    PROVE  InUse' = InUse
<1>1. Tracked' = Tracked
  BY DEF Tracked
<1> QED
  BY <1>1 DEF InUse

LEMMA CallerPointQuiet ==
    ASSUME NEW a, NEW T
    PROVE  CallerPoint(a, T) \notin PostPoints \cup SleepPoints
BY DEF CallerPoint, PostPoints, SleepPoints

LEMMA CountingQueueAdd ==
    ASSUME Typing, Counting, NEW a \in Actors, QueueAdd(a)
    PROVE  Counting'
<1>1. arg[a] \in Items /\ head \in Seq(Items)
  BY ArgTyping DEF Typing, Fields, QueueAdd, ItemPoints
<1>2. Len(head') = Len(head) + 1
  BY <1>1 DEF QueueAdd
<1>3. InUse' = InUse /\ waiting' = waiting /\ submitted' = submitted
  BY InUseSame DEF QueueAdd, sleepVars
<1>4. \/ curPosted' = curPosted /\ Posted' = Posted /\ Slept' = Slept
      \/ curPosted' = curPosted + 1 /\ Posted' = Posted + 1 /\ Slept' = Slept
  BY CountsMove, CallerPointQuiet
     DEF Typing, QueueAdd, Dispatch, PostPoints, SleepPoints
<1>5. Posted \in Nat
  BY CountsMove DEF Typing, QueueAdd, Dispatch
<1> QED
  BY <1>2, <1>3, <1>4, <1>5 DEF Counting, Typing, Fields, QueueAdd

LEMMA CountingDispatch ==
    ASSUME Typing, Counting, NEW a \in Actors, DispatchStep(a)
    PROVE  Counting'
<1> USE DEF Typing, Fields, Counting, queueVars, sleepVars,
            ItemPoints, PostPoints, SleepPoints
<1>1. CASE SubmitOK(a)
  BY <1>1, CountsMove, InUseSame
     DEF SubmitOK
<1>2. CASE SubmitFail(a)
  BY <1>2, CountsMove, InUseSame
     DEF SubmitFail
<1>3. CASE DispatchNext(a)
  BY <1>3, CountsMove, InUseSame, CallerPointQuiet
     DEF DispatchNext, Dispatch
<1>4. CASE Unpost(a)
  BY <1>4, CountsMove, InUseSame
     DEF Unpost
<1>5. CASE ArmDelayTimer(a)
  BY <1>5, CountsMove, InUseSame, CallerPointQuiet
     DEF ArmDelayTimer
<1> QED
  BY <1>1, <1>2, <1>3, <1>4, <1>5 DEF DispatchStep

LEMMA CountingTimer ==
    ASSUME Typing, Counting, NEW t \in Timers, TimerStep(t)
    PROVE  Counting'
<1> USE DEF Typing, Fields, Counting, queueVars, sleepVars,
            ItemPoints, PostPoints, SleepPoints
<1>1. CASE \E w \in Works : WorkTimerFires(t, w)
  BY <1>1, CountsMove, InUseSame
     DEF WorkTimerFires
<1>2. CASE DelayTimerFires(t)
  BY <1>2, CountsMove, InUseSame
     DEF DelayTimerFires
<1>3. CASE DelayTimeout(t)
  BY <1>3, CountsMove, InUseSame, CallerPointQuiet
     DEF DelayTimeout, Dispatch
<1>4. CASE TimerReturns(t)
  BY <1>4, CountsMove, InUseSame
     DEF TimerReturns
<1>5. CASE QueueAdd(t)
  BY <1>5, CountingQueueAdd
<1> QED
  BY <1>1, <1>2, <1>3, <1>4, <1>5 DEF TimerStep

(* A step between two points that no counter is about keeps the counters.  *)
LEMMA CountingQuiet ==
    ASSUME Typing, Counting, NEW a \in Actors, NEW p, Goto(a, p),
           pc[a] \notin PostPoints \cup SleepPoints,
           p \notin PostPoints \cup SleepPoints,
           UNCHANGED <<head, qLen, curPosted, curDispatch, trackList,
                       trackFlushList, trackFree, submitted, waiting>>
    PROVE  Counting'
<1>1. Posted' = Posted /\ Slept' = Slept
  BY CountsMove DEF Typing
<1>2. InUse' = InUse
  BY InUseSame
<1> QED
  BY <1>1, <1>2 DEF Counting

LEMMA CountingHelper ==
    ASSUME Typing, Counting, NEW h \in Helpers, HelperStep(h)
    PROVE  Counting'
<1> USE DEF Typing, Fields, Counting, queueVars, sleepVars,
            ItemPoints, PostPoints, SleepPoints
<1>1. CASE CalloutNothing(h)
  BY <1>1, CountsMove, InUseSame, CountsSame
     DEF CalloutNothing
<1>2. CASE CalloutTake(h)
  <2>1. h \notin Tracked
    BY <1>2 DEF CalloutTake, Tracking
  <2>2. InUse \in Nat /\ InUse' = InUse + 1
    BY <1>2, <2>1, InUseTake DEF CalloutTake
  <2>3. Posted \in Nat /\ Posted' = Posted /\ Slept' = Slept
    <3>1. h \in Actors /\ Control /\ Goto(h, "h_clear") /\ pc[h] = "idle"
      BY <1>2 DEF CalloutTake, Actors
    <3>2. /\ pc[h] \notin PostPoints /\ "h_clear" \notin PostPoints
          /\ pc[h] \notin SleepPoints /\ "h_clear" \notin SleepPoints
      BY <3>1
    <3> HIDE DEF PostPoints, SleepPoints
    <3> QED BY <3>1, <3>2, CountsMove
  <2>4. Len(head') = Len(head) - 1
    BY <1>2 DEF CalloutTake
  <2> QED
    BY <1>2, <2>2, <2>3, <2>4, ParameterAssumption DEF CalloutTake
<1>3. CASE CalloutClear(h)
  BY <1>3, CountingQuiet DEF CalloutClear, Actors
<1>4. CASE WorkReturns(h)
  BY <1>4, CountingQuiet DEF WorkReturns, Actors
<1>5. CASE WorkRequeues(h)
  <2>1. ASSUME NEW p \in {"q_add", "qd_arm"}, Claim(h, arg[h], p)
        PROVE  Counting'
    BY <1>5, <2>1, CountingQuiet DEF WorkRequeues, Claim, Actors
  <2> QED
    BY <1>5, <2>1 DEF WorkRequeues
<1>6. CASE PlungerSplice(h)
  BY <1>6, CountsMove, InUseSplice DEF PlungerSplice, FlushList
<1>7. CASE PlungerComplete(h)
  BY <1>7, CountingQuiet DEF PlungerComplete, Actors
<1>8. CASE CalloutFinish(h)
  <2>1. h \in Tracked
    BY <1>8, ArgTyping, WorksAssumption DEF CalloutFinish, Tracking
  <2>2. InUse \in Nat /\ InUse' = InUse - 1
    BY <1>8, <2>1, InUseFinish DEF CalloutFinish
  <2>3. /\ Posted \in Nat /\ Slept' = Slept
        /\ \/ curPosted' = curPosted /\ Posted' = Posted
           \/ curPosted' = curPosted + 1 /\ Posted' = Posted + 1
    BY <1>8, CountsMove, CallerPointQuiet DEF CalloutFinish, Dispatch
  <2>4. /\ curDispatch' = curDispatch - 1 /\ trackFree' = trackFree + 1
        /\ UNCHANGED <<head, qLen, waiting, submitted>>
    BY <1>8 DEF CalloutFinish
  <2>5. curDispatch' = InUse' /\ curDispatch' <= MaxDispatch
    BY <2>2, <2>4, ParameterAssumption
  <2>6. trackFree' = MaxDispatch - curDispatch'
    BY <2>4, ParameterAssumption
  <2>7. curPosted' = submitted' + Posted'
    BY <2>3, <2>4
  <2> QED
    BY <2>3, <2>4, <2>5, <2>6, <2>7
<1>9. CASE QueueAdd(h)
  BY <1>9, CountingQueueAdd
<1>10. CASE TimerAdd(h)
  BY <1>10, CountingQuiet DEF TimerAdd, Actors
<1> QED
  BY <1>1, <1>2, <1>3, <1>4, <1>5, <1>6, <1>7, <1>8, <1>9, <1>10 DEF HelperStep

LEMMA CountingDriver ==
    ASSUME Typing, Counting, NEW d \in Drivers, DriverStep(d)
    PROVE  Counting'
<1> USE DEF Typing, Fields, Counting, queueVars, sleepVars,
            ItemPoints, PostPoints, SleepPoints
<1>1. CASE QueueAdd(d)
  BY <1>1, CountingQueueAdd
<1>2. CASE TimerAdd(d)
  BY <1>2, CountingQuiet DEF TimerAdd, Actors
<1>3. CASE CancelTry(d)
  BY <1>3, CountingQuiet DEF CancelTry, Actors
<1>4. CASE CancelDelTimer(d)
  BY <1>4, CountingQuiet DEF CancelDelTimer, Actors
<1>5. CASE CancelRemove(d)
  <2>1. Len(head') = Len(head) - 1
    BY <1>5, RemoveAtFacts DEF CancelRemove
  <2>2. InUse' = InUse /\ UNCHANGED <<curPosted, submitted, curDispatch, trackFree>>
    BY <1>5, InUseSame DEF CancelRemove
  <2>3. /\ Posted' = Posted
        /\ \/ waiting' = waiting /\ Slept' = Slept
           \/ waiting' = waiting + 1 /\ Slept' = Slept + 1
    <3>1. CASE Executing(arg[d])
      <4>1. pc[d] = "c_lock" /\ waiting' = waiting + 1 /\ Goto(d, "c_sleep")
        BY <1>5, <3>1 DEF CancelRemove, CancelWait
      <4> QED BY <4>1, CountsMove DEF Actors
    <3>2. CASE ~ Executing(arg[d])
      <4>1. pc[d] = "c_lock" /\ waiting' = waiting /\ Goto(d, "c_clear")
        BY <1>5, <3>2 DEF CancelRemove, CancelWait, CancelNext
      <4> QED BY <4>1, CountsMove DEF Actors
    <3> QED BY <3>1, <3>2
  <2> QED
    BY <1>5, <2>1, <2>2, <2>3 DEF CancelRemove
<1>6. CASE CancelNotQueued(d)
  BY <1>6, CountsMove, InUseSame
     DEF CancelNotQueued, CancelWait, CancelNext
<1>7. CASE CancelWoken(d)
  BY <1>7, CountsMove, InUseSame, CountsSame
     DEF CancelWoken, CancelNext
<1>8. CASE CancelClear(d)
  BY <1>8, CountsMove, InUseSame
     DEF CancelClear
<1>9. CASE CancelDelayed(d)
  BY <1>9, CountsMove, InUseSame
     DEF CancelDelayed
<1>10. CASE CancelDelayedClear(d)
  BY <1>10, CountsMove, InUseSame
     DEF CancelDelayedClear
<1>11. CASE FlushLock(d)
  BY <1>11, CountsMove, InUseSame
     DEF FlushLock
<1>12. CASE FlushCompleted(d)
  BY <1>12, CountsMove, InUseSame
     DEF FlushCompleted
<1>13. CASE FlushDrain(d)
  BY <1>13, CountsMove, InUseSame
     DEF FlushDrain
<1>14. CASE FlushWoken(d)
  BY <1>14, CountsMove, InUseSame, CountsSame
     DEF FlushWoken
<1>15. CASE FlushUnlock(d)
  BY <1>15, CountsMove, InUseSame
     DEF FlushUnlock
<1>16. CASE DestroyWait(d)
  BY <1>16, CountsMove, InUseSame
     DEF DestroyWait
<1>17. CASE DestroyDelTimer(d)
  BY <1>17, CountsMove, InUseSame
     DEF DestroyDelTimer
<1>18. CASE DestroyFree(d)
  BY <1>18, CountsMove, InUseSame
     DEF DestroyFree
<1> QED
  BY <1>1, <1>2, <1>3, <1>4, <1>5, <1>6, <1>7, <1>8, <1>9, <1>10, <1>11, <1>12, <1>13, <1>14, <1>15, <1>16, <1>17, <1>18 DEF DriverStep

LEMMA CountingStarts ==
    ASSUME Typing, Counting, NEW d \in Drivers, DriverStarts(d)
    PROVE  Counting'
<1> USE DEF Typing, Fields, Counting, queueVars, sleepVars,
            ItemPoints, PostPoints, SleepPoints
<1>0. pc[d] = "idle"
  BY DEF DriverStarts
<1>1. CASE \E w \in Works : StartQueue(d, w)
  BY <1>1, <1>0, CountingQuiet DEF StartQueue, Claim, Actors
<1>2. CASE \E w \in Works : StartQueueDelayed(d, w)
  BY <1>2, <1>0, CountingQuiet DEF StartQueueDelayed, Claim, Actors
<1>3. CASE \E w \in Works : StartCancel(d, w)
  BY <1>3, <1>0, CountingQuiet DEF StartCancel, Begin, Actors
<1>4. CASE StartFlush(d)
  BY <1>4, <1>0, CountsMove, InUseSame
     DEF StartFlush
<1>5. CASE StartDestroy(d)
  BY <1>5, <1>0, CountsMove, InUseSame
     DEF StartDestroy
<1> QED
  BY <1>1, <1>2, <1>3, <1>4, <1>5 DEF DriverStarts

(* The first inductive invariant: typing and counting together.            *)
Core == Typing /\ Counting

LEMMA CoreInit ==
    ASSUME Init
    PROVE  Core
<1>1. Control
  BY DEF Init, Control, KindPoint, ArgPoint, AllPoints, DriverPoints,
         HelperPoints, TimerPoints, WorkPoints, ItemPoints
<1>2. Fields
  <2>1. head \in Seq(Items)
    BY DEF Init
  <2>2. timer \in [Works -> {"idle", "armed"} \cup Timers]
    BY DEF Init
  <2>3. done \in BOOLEAN /\ freed \in BOOLEAN
    BY Zenon DEF Init
  <2>4. trackFree \in Int
    BY ParameterAssumption DEF Init
  <2> QED BY <2>1, <2>2, <2>3, <2>4 DEF Init, Fields
<1>3. Tracking
  BY DEF Init, Tracking, Tracked
<1>4. {x \in Actors : pc[x] \in PostPoints} = {}
      /\ {x \in Actors : pc[x] \in SleepPoints} = {} /\ Tracked = {}
  BY DEF Init, PostPoints, SleepPoints, Tracked
<1>5. Posted = 0 /\ Slept = 0 /\ InUse = 0
  BY <1>4, FS_EmptySet DEF Posted, Slept, InUse, CountAt
<1>6. Counting
  BY <1>5, ParameterAssumption DEF Init, Counting
<1> QED BY <1>1, <1>2, <1>3, <1>6 DEF Core, Typing

LEMMA CoreNext ==
    ASSUME Core, [Next]_vars
    PROVE  Core'
<1> USE DEF Core
<1>1. ASSUME NEW a \in Actors, DispatchStep(a)
      PROVE  Core'
  BY <1>1, FieldsDispatch, ControlDispatch, TrackingDispatch,
     CountingDispatch DEF Typing
<1>2. ASSUME NEW t \in Timers, TimerStep(t)
      PROVE  Core'
  BY <1>2, FieldsTimer, ControlTimer, TrackingTimer, CountingTimer DEF Typing
<1>3. ASSUME NEW h \in Helpers, HelperStep(h)
      PROVE  Core'
  BY <1>3, FieldsHelper, ControlHelper, TrackingHelper, CountingHelper
     DEF Typing
<1>4. ASSUME NEW d \in Drivers, DriverStep(d)
      PROVE  Core'
  BY <1>4, FieldsDriver, ControlDriver, TrackingDriver, CountingDriver
     DEF Typing
<1>5. ASSUME NEW d \in Drivers, DriverStarts(d)
      PROVE  Core'
  BY <1>5, FieldsStarts, ControlStarts, TrackingStarts, CountingStarts
     DEF Typing
<1>6. ASSUME NEW d \in Drivers, SpuriousWakeup(d)
      PROVE  Core'
  <2> USE <1>6 DEF SpuriousWakeup
  <2>1. Control'
    BY ControlSame DEF Typing
  <2>2. Fields'
    BY DEF Typing, Fields, queueVars, itemVars, timerVars, flushVars,
           lifeVars, callVars
  <2>3. Tracking'
    BY DEF Typing, Tracking, Tracked, queueVars
  <2>4. Counting'
    BY CountsSame, InUseSame DEF Counting, queueVars
  <2> QED BY <2>1, <2>2, <2>3, <2>4 DEF Typing
<1>7. CASE UNCHANGED vars
  <2> USE <1>7 DEF vars, queueVars, sleepVars, itemVars, timerVars, flushVars,
                   lifeVars, callVars
  <2>1. Control'
    BY ControlSame DEF Typing
  <2>2. Fields'
    BY DEF Typing, Fields
  <2>3. Tracking'
    BY DEF Typing, Tracking, Tracked
  <2>4. Counting'
    BY CountsSame, InUseSame DEF Counting
  <2> QED BY <2>1, <2>2, <2>3, <2>4 DEF Typing
<1> QED
  BY <1>1, <1>2, <1>3, <1>4, <1>5, <1>6, <1>7 DEF Next

(* Typing and counting hold in every reachable state.                      *)
THEOREM CoreInvariant == Spec => []Core
<1>1. Init => Core
  BY CoreInit
<1>2. Core /\ [Next]_vars => Core'
  BY CoreNext
<1> QED BY <1>1, <1>2, PTL DEF Spec

(* Type correctness: in particular none of the counters that several       *)
(* actors count up and down ever goes below zero.                          *)
THEOREM TypeCorrect == Spec => []TypeOK
<1>1. Core => TypeOK
  <2> SUFFICES ASSUME Core PROVE TypeOK
    OBVIOUS
  <2>1. Posted \in Nat /\ Slept \in Nat
    <3>1. IsFiniteSet(Actors)
      BY ActorsAssumption, FS_Union
    <3>2. \A P : IsFiniteSet({x \in Actors : pc[x] \in P})
      BY <3>1, FS_Subset
    <3> QED BY <3>2, FS_CardinalityType DEF Posted, Slept, CountAt
  <2>2. InUse \in Nat
    <3>1. IsFiniteSet(Tracked)
      BY ActorsAssumption, FS_Subset DEF Core, Typing, Fields, Tracked
    <3> QED BY <3>1, FS_CardinalityType DEF InUse
  <2>3. /\ qLen \in Nat /\ curPosted \in Nat /\ waiting \in Nat
        /\ curDispatch \in 0..MaxDispatch /\ trackFree \in 0..MaxDispatch
    BY <2>1, <2>2, ParameterAssumption DEF Core, Typing, Fields, Counting
  <2>4. /\ pc \in [Actors -> AllPoints]
        /\ \A d \in Drivers : pc[d] \in DriverPoints
        /\ \A h \in Helpers : pc[h] \in HelperPoints
        /\ \A t \in Timers : pc[t] \in TimerPoints
        /\ arg \in [Actors -> Items \cup {None}]
    BY DEF Core, Typing, Control, KindPoint
  <2> QED
    BY <2>3, <2>4 DEF TypeOK, Core, Typing, Fields, AllPoints
<1> QED BY <1>1, CoreInvariant, PTL

(* The assertions of vmklnx_workqueue_callout about qLen and the trackers. *)
THEOREM AccountingHolds == Spec => []Accounting
<1>1. Core => Accounting
  BY DEF Core, Typing, Tracking, Counting, Accounting, InUse
<1> QED BY <1>1, CoreInvariant, PTL

(* curPosted is what the helper pool holds or is about to be given.        *)
THEOREM PostingHolds == Spec => []PostingAccounted
<1>1. Core => PostingAccounted
  BY DEF Core, Counting, PostingAccounted, Posted, CountAt, PostPoints
<1> QED BY <1>1, CoreInvariant, PTL
=============================================================================
