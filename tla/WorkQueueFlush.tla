--------------------------- MODULE WorkQueueFlush --------------------------
(***************************************************************************)
(* Proofs about WorkQueue, continued: the plunger is in one place and does *)
(* not outlive the flush_workqueue call whose stack it is on, and that     *)
(* call returns only when all it has to wait for is over.                  *)
(***************************************************************************)
EXTENDS WorkQueueOwner

USE DEF Items, Actors

(* Where the owner of flushMutex is inside flush_workqueue, and where a    *)
(* helper that has taken the plunger is.                                   *)
EndPoints   == {"f_wait", "f_drain", "f_sleep", "f_unlock"}
FlushPoints == {"q_add", "d_submit", "d_next", "d_unpost", "d_timer"}
                   \cup EndPoints
PlungePoints == {"h_clear", "h_func", "h_compl", "h_fin"}

FlushAt(a, p, x) ==
    /\ a \in Drivers => /\ x = Plunger => p \in FlushPoints
                        /\ p \in EndPoints => x = Plunger
    /\ a \in Helpers => /\ x = Plunger => p \in PlungePoints
                        /\ p = "h_compl" => x = Plunger
    /\ a \in Timers => x # Plunger

(* The plunger is in the hands of the driver that owns flushMutex, or of   *)
(* helpers that run its callout.                                           *)
Flushers ==
    /\ \A a \in Actors : FlushAt(a, pc[a], arg[a])
    /\ \A d \in Drivers : arg[d] = Plunger <=> flushOwner = d

(* An actor moves and keeps its item, or changes it for another; a driver  *)
(* gets or gives up the plunger only with flushMutex.                      *)
LEMMA FlushersMove ==
    ASSUME Control, Flushers, NEW a \in Actors, NEW p, NEW x,
           pc' = [pc EXCEPT ![a] = p], arg' = [arg EXCEPT ![a] = x],
           FlushAt(a, p, x), flushOwner' = flushOwner,
           a \in Drivers => (x = Plunger <=> arg[a] = Plunger)
    PROVE  Flushers'
<1>1. /\ pc'[a] = p /\ arg'[a] = x
      /\ \A b \in Actors \ {a} : pc'[b] = pc[b] /\ arg'[b] = arg[b]
  BY DEF Control
<1>2. \A b \in Actors : FlushAt(b, pc'[b], arg'[b])
  BY <1>1 DEF Flushers
<1>3. \A d \in Drivers : arg'[d] = Plunger <=> arg[d] = Plunger
  BY <1>1
<1> QED BY <1>2, <1>3 DEF Flushers

LEMMA FlushersGoto ==
    ASSUME Control, Flushers, NEW a \in Actors, NEW p,
           pc' = [pc EXCEPT ![a] = p], arg' = arg,
           FlushAt(a, p, arg[a]), flushOwner' = flushOwner
    PROVE  Flushers'
<1>1. pc'[a] = p /\ \A b \in Actors \ {a} : pc'[b] = pc[b]
  BY DEF Control
<1>2. \A b \in Actors : FlushAt(b, pc'[b], arg'[b])
  BY <1>1 DEF Flushers
<1> QED BY <1>2 DEF Flushers

LEMMA FlushersSame ==
    ASSUME Flushers, pc' = pc, arg' = arg, flushOwner' = flushOwner
    PROVE  Flushers'
BY DEF Flushers

(* A dispatch returns to a point that fits the plunger.                    *)
LEMMA CallerFlushAt ==
    ASSUME Typing, Flushers, NEW a \in Actors,
           pc[a] \notin PlungePoints
    PROVE  /\ FlushAt(a, CallerPoint(a, Tracked), arg[a])
           /\ FlushAt(a, "d_submit", arg[a])
<1>1. a \in Helpers => arg[a] # Plunger
  BY DEF Flushers, FlushAt
<1>2. a \in Timers => arg[a] # Plunger
  BY DEF Flushers, FlushAt
<1> QED
  BY <1>1, <1>2, ActorsAssumption DEF CallerPoint, FlushAt, FlushPoints,
     EndPoints, PlungePoints

-----------------------------------------------------------------------------
(* Every step keeps the plunger in those hands.                            *)

LEMMA FlushersDispatch ==
    ASSUME Typing, Flushers, NEW a \in Actors, DispatchStep(a)
    PROVE  Flushers'
<1> USE DEF Typing, Goto, FlushAt, FlushPoints, EndPoints, PlungePoints,
            flushVars
<1>1. CASE SubmitOK(a)
  <2>1. FlushAt(a, pc[a], arg[a])
    BY DEF Flushers
  <2> QED
    BY <1>1, <2>1, FlushersGoto, ActorsAssumption DEF SubmitOK
<1>2. CASE SubmitFail(a)
  <2>1. FlushAt(a, pc[a], arg[a])
    BY DEF Flushers
  <2> QED
    BY <1>2, <2>1, FlushersGoto, ActorsAssumption DEF SubmitFail
<1>3. CASE DispatchNext(a)
  <2>1. pc[a] \notin PlungePoints
    BY <1>3 DEF DispatchNext
  <2>2. /\ FlushAt(a, CallerPoint(a, Tracked), arg[a])
        /\ FlushAt(a, "d_submit", arg[a])
    BY <2>1, CallerFlushAt
  <2> HIDE DEF FlushAt
  <2> QED
    BY <1>3, <2>2, FlushersGoto DEF DispatchNext, Dispatch
<1>4. CASE Unpost(a)
  <2>1. FlushAt(a, pc[a], arg[a])
    BY DEF Flushers
  <2> QED
    BY <1>4, <2>1, FlushersGoto, ActorsAssumption DEF Unpost
<1>5. CASE ArmDelayTimer(a)
  <2>1. FlushAt(a, CallerPoint(a, Tracked), arg[a])
    BY <1>5, CallerFlushAt DEF ArmDelayTimer
  <2> HIDE DEF FlushAt
  <2> QED
    BY <1>5, <2>1, FlushersGoto DEF ArmDelayTimer
<1> QED
  BY <1>1, <1>2, <1>3, <1>4, <1>5 DEF DispatchStep

LEMMA FlushersTimer ==
    ASSUME Typing, Flushers, NEW t \in Timers, TimerStep(t)
    PROVE  Flushers'
<1> USE DEF Typing, Goto, FlushAt, FlushPoints, EndPoints, PlungePoints,
            flushVars
<1>1. CASE \E w \in Works : WorkTimerFires(t, w)
  <2>1. FlushAt(t, pc[t], arg[t])
    BY DEF Flushers
  <2> QED
    BY <1>1, <2>1, FlushersMove, WorksAssumption, ActorsAssumption DEF
       WorkTimerFires
<1>2. CASE DelayTimerFires(t)
  <2>1. FlushAt(t, pc[t], arg[t])
    BY DEF Flushers
  <2> QED
    BY <1>2, <2>1, FlushersGoto, ActorsAssumption DEF DelayTimerFires
<1>3. CASE DelayTimeout(t)
  <2>1. /\ FlushAt(t, CallerPoint(t, Tracked), arg[t])
        /\ FlushAt(t, "d_submit", arg[t])
    BY <1>3, CallerFlushAt DEF DelayTimeout
  <2> HIDE DEF FlushAt
  <2> QED
    BY <1>3, <2>1, FlushersGoto DEF DelayTimeout, Dispatch
<1>4. CASE TimerReturns(t)
  <2>1. FlushAt(t, pc[t], arg[t])
    BY DEF Flushers
  <2> QED
    BY <1>4, <2>1, FlushersGoto, ActorsAssumption DEF TimerReturns
<1>5. CASE QueueAdd(t)
  <2>1. pc[t] = "q_add" /\ FlushAt(t, pc[t], arg[t]) /\ arg[t] # None
    BY <1>5, ArgTyping, WorksAssumption DEF QueueAdd, Flushers, ItemPoints
  <2>2. /\ FlushAt(t, CallerPoint(t, Tracked), arg[t])
        /\ FlushAt(t, "d_submit", arg[t])
    BY <2>1, CallerFlushAt
  <2>3. PICK p \in {CallerPoint(t, Tracked), "d_submit"} : Goto(t, p)
    BY <1>5 DEF QueueAdd, Dispatch
  <2>4. CASE t \in Helpers \/ arg[t] = Plunger
    <3> HIDE DEF FlushAt
    <3> QED BY <1>5, <2>2, <2>3, <2>4, FlushersGoto DEF QueueAdd
  <2>5. CASE ~ (t \in Helpers \/ arg[t] = Plunger)
    <3>1. arg' = [arg EXCEPT ![t] = None]
      BY <1>5, <2>5 DEF QueueAdd
    <3>2. FlushAt(t, p, None)
      BY <2>5, <2>3, CallerPointFree, WorksAssumption DEF CallerPoint
    <3> HIDE DEF FlushAt
    <3> QED BY <1>5, <2>3, <2>5, <3>1, <3>2, FlushersMove, WorksAssumption
               DEF QueueAdd
  <2> QED
    BY <2>4, <2>5
<1> QED
  BY <1>1, <1>2, <1>3, <1>4, <1>5 DEF TimerStep

LEMMA FlushersHelper ==
    ASSUME Typing, Flushers, NEW h \in Helpers, HelperStep(h)
    PROVE  Flushers'
<1> USE DEF Typing, Goto, FlushAt, FlushPoints, EndPoints, PlungePoints,
            flushVars
<1>1. CASE CalloutNothing(h)
  BY <1>1, FlushersSame DEF CalloutNothing
<1>2. CASE CalloutTake(h)
  <2>1. FlushAt(h, pc[h], arg[h])
    BY DEF Flushers
  <2> QED
    BY <1>2, <2>1, FlushersMove, WorksAssumption, ActorsAssumption DEF
       CalloutTake
<1>3. CASE CalloutClear(h)
  <2>1. FlushAt(h, pc[h], arg[h])
    BY DEF Flushers
  <2> QED
    BY <1>3, <2>1, FlushersGoto, ActorsAssumption DEF CalloutClear
<1>4. CASE WorkReturns(h)
  <2>1. FlushAt(h, pc[h], arg[h])
    BY DEF Flushers
  <2> QED
    BY <1>4, <2>1, FlushersGoto, ActorsAssumption DEF WorkReturns
<1>5. CASE WorkRequeues(h)
  <2>1. FlushAt(h, pc[h], arg[h])
    BY DEF Flushers
  <2> QED
    BY <1>5, <2>1, FlushersMove, WorksAssumption, ActorsAssumption DEF
       WorkRequeues, Claim
<1>6. CASE PlungerSplice(h)
  <2>1. FlushAt(h, pc[h], arg[h])
    BY DEF Flushers
  <2> QED
    BY <1>6, <2>1, FlushersGoto, ActorsAssumption DEF PlungerSplice, FlushList
<1>7. CASE PlungerComplete(h)
  <2>1. FlushAt(h, pc[h], arg[h])
    BY DEF Flushers
  <2> QED
    BY <1>7, <2>1, FlushersGoto, ActorsAssumption DEF PlungerComplete
<1>8. CASE CalloutFinish(h)
  <2>1. CallerPoint(h, Tracked \ {h}) # "h_compl"
    BY CallerPointFree
  <2>2. PICK p : Goto(h, p) /\ p # "h_compl"
    BY <1>8, <2>1 DEF CalloutFinish, Dispatch
  <2>3. FlushAt(h, p, None) /\ h \notin Drivers
    BY <2>2, WorksAssumption, ActorsAssumption
  <2> HIDE DEF FlushAt
  <2> QED
    BY <1>8, <2>2, <2>3, FlushersMove DEF CalloutFinish
<1>9. CASE QueueAdd(h)
  <2>1. pc[h] = "q_add" /\ FlushAt(h, pc[h], arg[h]) /\ arg[h] # None
    BY <1>9, ArgTyping, WorksAssumption DEF QueueAdd, Flushers, ItemPoints
  <2>2. /\ FlushAt(h, CallerPoint(h, Tracked), arg[h])
        /\ FlushAt(h, "d_submit", arg[h])
    BY <2>1, CallerFlushAt
  <2>3. PICK p \in {CallerPoint(h, Tracked), "d_submit"} : Goto(h, p)
    BY <1>9 DEF QueueAdd, Dispatch
  <2>4. CASE h \in Helpers \/ arg[h] = Plunger
    <3> HIDE DEF FlushAt
    <3> QED BY <1>9, <2>2, <2>3, <2>4, FlushersGoto DEF QueueAdd
  <2>5. CASE ~ (h \in Helpers \/ arg[h] = Plunger)
    <3>1. arg' = [arg EXCEPT ![h] = None]
      BY <1>9, <2>5 DEF QueueAdd
    <3>2. FlushAt(h, p, None)
      BY <2>5, <2>3, CallerPointFree, WorksAssumption DEF CallerPoint
    <3> HIDE DEF FlushAt
    <3> QED BY <1>9, <2>3, <2>5, <3>1, <3>2, FlushersMove, WorksAssumption
               DEF QueueAdd
  <2> QED
    BY <2>4, <2>5
<1>10. CASE TimerAdd(h)
  <2>1. FlushAt(h, pc[h], arg[h])
    BY DEF Flushers
  <2> QED
    BY <1>10, <2>1, FlushersMove, FlushersGoto, WorksAssumption,
       ActorsAssumption DEF TimerAdd
<1> QED
  BY <1>1, <1>2, <1>3, <1>4, <1>5, <1>6, <1>7, <1>8, <1>9, <1>10 DEF
     HelperStep

LEMMA FlushersDriver ==
    ASSUME Typing, Flushers, NEW d \in Drivers, DriverStep(d)
    PROVE  Flushers'
<1> USE DEF Typing, Goto, FlushAt, FlushPoints, EndPoints, PlungePoints,
            flushVars
<1>1. CASE QueueAdd(d)
  <2>1. pc[d] = "q_add" /\ FlushAt(d, pc[d], arg[d]) /\ arg[d] # None
    BY <1>1, ArgTyping, WorksAssumption DEF QueueAdd, Flushers, ItemPoints
  <2>2. /\ FlushAt(d, CallerPoint(d, Tracked), arg[d])
        /\ FlushAt(d, "d_submit", arg[d])
    BY <2>1, CallerFlushAt
  <2>3. PICK p \in {CallerPoint(d, Tracked), "d_submit"} : Goto(d, p)
    BY <1>1 DEF QueueAdd, Dispatch
  <2>4. CASE d \in Helpers \/ arg[d] = Plunger
    <3> HIDE DEF FlushAt
    <3> QED BY <1>1, <2>2, <2>3, <2>4, FlushersGoto DEF QueueAdd
  <2>5. CASE ~ (d \in Helpers \/ arg[d] = Plunger)
    <3>1. arg' = [arg EXCEPT ![d] = None]
      BY <1>1, <2>5 DEF QueueAdd
    <3>2. FlushAt(d, p, None)
      BY <2>5, <2>3, CallerPointFree, WorksAssumption DEF CallerPoint
    <3> HIDE DEF FlushAt
    <3> QED BY <1>1, <2>3, <2>5, <3>1, <3>2, FlushersMove, WorksAssumption
               DEF QueueAdd
  <2> QED
    BY <2>4, <2>5
<1>2. CASE TimerAdd(d)
  <2>1. FlushAt(d, pc[d], arg[d])
    BY DEF Flushers
  <2> QED
    BY <1>2, <2>1, FlushersMove, FlushersGoto, WorksAssumption,
       ActorsAssumption DEF TimerAdd
<1>3. CASE CancelTry(d)
  <2>1. FlushAt(d, pc[d], arg[d])
    BY DEF Flushers
  <2> QED
    BY <1>3, <2>1, FlushersGoto, ActorsAssumption DEF CancelTry
<1>4. CASE CancelDelTimer(d)
  <2>1. FlushAt(d, pc[d], arg[d])
    BY DEF Flushers
  <2> QED
    BY <1>4, <2>1, FlushersGoto, ActorsAssumption DEF CancelDelTimer
<1>5. CASE CancelRemove(d)
  <2>1. FlushAt(d, pc[d], arg[d])
    BY DEF Flushers
  <2> QED
    BY <1>5, <2>1, FlushersGoto, ActorsAssumption DEF CancelRemove, CancelWait,
       CancelNext
<1>6. CASE CancelNotQueued(d)
  <2>1. FlushAt(d, pc[d], arg[d])
    BY DEF Flushers
  <2> QED
    BY <1>6, <2>1, FlushersGoto, ActorsAssumption DEF CancelNotQueued,
       CancelWait, CancelNext
<1>7. CASE CancelWoken(d)
  <2>1. FlushAt(d, pc[d], arg[d])
    BY DEF Flushers
  <2> QED
    BY <1>7, <2>1, FlushersGoto, FlushersSame, ActorsAssumption DEF
       CancelWoken, CancelNext
<1>8. CASE CancelClear(d)
  <2>1. FlushAt(d, pc[d], arg[d])
    BY DEF Flushers
  <2> QED
    BY <1>8, <2>1, FlushersMove, WorksAssumption, ActorsAssumption DEF
       CancelClear
<1>9. CASE CancelDelayed(d)
  <2>1. FlushAt(d, pc[d], arg[d])
    BY DEF Flushers
  <2> QED
    BY <1>9, <2>1, FlushersMove, FlushersGoto, WorksAssumption,
       ActorsAssumption DEF CancelDelayed
<1>10. CASE CancelDelayedClear(d)
  <2>1. FlushAt(d, pc[d], arg[d])
    BY DEF Flushers
  <2> QED
    BY <1>10, <2>1, FlushersMove, WorksAssumption, ActorsAssumption DEF
       CancelDelayedClear
<1>11. CASE FlushLock(d)
  BY <1>11, WorksAssumption, ActorsAssumption DEF FlushLock, Flushers, Control
<1>12. CASE FlushCompleted(d)
  <2>1. FlushAt(d, pc[d], arg[d])
    BY DEF Flushers
  <2> QED
    BY <1>12, <2>1, FlushersGoto, ActorsAssumption DEF FlushCompleted
<1>13. CASE FlushDrain(d)
  <2>1. FlushAt(d, pc[d], arg[d])
    BY DEF Flushers
  <2> QED
    BY <1>13, <2>1, FlushersGoto, ActorsAssumption DEF FlushDrain
<1>14. CASE FlushWoken(d)
  <2>1. FlushAt(d, pc[d], arg[d])
    BY DEF Flushers
  <2> QED
    BY <1>14, <2>1, FlushersGoto, FlushersSame, ActorsAssumption DEF FlushWoken
<1>15. CASE FlushUnlock(d)
  BY <1>15, WorksAssumption, ActorsAssumption DEF FlushUnlock, Flushers,
     Control, Fields
<1>16. CASE DestroyWait(d)
  <2>1. FlushAt(d, pc[d], arg[d])
    BY DEF Flushers
  <2> QED
    BY <1>16, <2>1, FlushersGoto, ActorsAssumption DEF DestroyWait
<1>17. CASE DestroyDelTimer(d)
  <2>1. FlushAt(d, pc[d], arg[d])
    BY DEF Flushers
  <2> QED
    BY <1>17, <2>1, FlushersGoto, ActorsAssumption DEF DestroyDelTimer
<1>18. CASE DestroyFree(d)
  <2>1. FlushAt(d, pc[d], arg[d])
    BY DEF Flushers
  <2> QED
    BY <1>18, <2>1, FlushersGoto, ActorsAssumption DEF DestroyFree
<1> QED
  BY <1>1, <1>2, <1>3, <1>4, <1>5, <1>6, <1>7, <1>8, <1>9, <1>10, <1>11,
     <1>12, <1>13, <1>14, <1>15, <1>16, <1>17, <1>18 DEF DriverStep

LEMMA FlushersStarts ==
    ASSUME Typing, Flushers, NEW d \in Drivers, DriverStarts(d)
    PROVE  Flushers'
<1> USE DEF Typing, Goto, FlushAt, FlushPoints, EndPoints, PlungePoints,
            flushVars
<1>0. pc[d] = "idle"
  BY DEF DriverStarts
<1>1. CASE \E w \in Works : StartQueue(d, w)
  <2>1. FlushAt(d, pc[d], arg[d])
    BY DEF Flushers
  <2> QED
    BY <1>1, <2>1, FlushersMove, WorksAssumption, ActorsAssumption, <1>0 DEF
       StartQueue, Claim
<1>2. CASE \E w \in Works : StartQueueDelayed(d, w)
  <2>1. FlushAt(d, pc[d], arg[d])
    BY DEF Flushers
  <2> QED
    BY <1>2, <2>1, FlushersMove, WorksAssumption, ActorsAssumption, <1>0 DEF
       StartQueueDelayed, Claim
<1>3. CASE \E w \in Works : StartCancel(d, w)
  <2>1. FlushAt(d, pc[d], arg[d])
    BY DEF Flushers
  <2> QED
    BY <1>3, <2>1, FlushersMove, WorksAssumption, ActorsAssumption, <1>0 DEF
       StartCancel, Begin
<1>4. CASE StartFlush(d)
  <2>1. FlushAt(d, pc[d], arg[d])
    BY DEF Flushers
  <2> QED
    BY <1>4, <2>1, FlushersGoto, ActorsAssumption, <1>0 DEF StartFlush
<1>5. CASE StartDestroy(d)
  <2>1. FlushAt(d, pc[d], arg[d])
    BY DEF Flushers
  <2> QED
    BY <1>5, <2>1, FlushersGoto, ActorsAssumption, <1>0 DEF StartDestroy
<1> QED
  BY <1>1, <1>2, <1>3, <1>4, <1>5 DEF DriverStarts
-----------------------------------------------------------------------------
(* The plunger is with its flusher until that has queued it, then on the   *)
(* queue, then with one helper, which completes it after the splice; done  *)
(* says that it has been completed.                                        *)

PlungerSent == flushOwner # None /\ pc[flushOwner] # "q_add"

PlungerAt(h) ==
    /\ PlungerSent
    /\ done <=> pc[h] = "h_fin"
    /\ pc[h] \in {"h_compl", "h_fin"} => h \in trackFlushList

OnePlunger ==
    /\ QueuedOnce(Plunger)
    /\ Queued(Plunger) => /\ PlungerSent /\ ~ done
                          /\ \A h \in Helpers : arg[h] # Plunger
    /\ \A g, h \in Helpers : arg[g] = Plunger /\ arg[h] = Plunger => g = h
    /\ \A h \in Helpers : arg[h] = Plunger => PlungerAt(h)
    /\ \A d \in Drivers :
          /\ pc[d] = "q_add" /\ arg[d] = Plunger => ~ done
          /\ pc[d] \in {"f_drain", "f_sleep", "f_unlock"} => done
          /\ pc[d] = "f_unlock" => trackFlushList = {}

(* A step of a that leaves the plunger where it is, or moves on with it    *)
(* without a splice or a completion.                                       *)
LEMMA PlungerQuiet ==
    ASSUME Typing, Flushers, OnePlunger, NEW a \in Actors,
           \A b \in Actors \ {a} : pc'[b] = pc[b] /\ arg'[b] = arg[b],
           Queued(Plunger)' => Queued(Plunger), QueuedOnce(Plunger)',
           UNCHANGED <<done, flushOwner>>,
           \/ trackFlushList' = trackFlushList
           \/ trackFlushList' = trackFlushList \ {a} /\ arg'[a] # Plunger,
           a \in Helpers /\ arg'[a] = Plunger =>
              /\ arg[a] = Plunger
              /\ pc'[a] = "h_fin" <=> pc[a] = "h_fin"
              /\ pc'[a] \in {"h_compl", "h_fin"} => a \in trackFlushList,
           a \in Drivers =>
              /\ arg'[a] = Plunger <=> arg[a] = Plunger
              /\ pc'[a] # "q_add" \/ arg'[a] # Plunger
              /\ pc'[a] \in {"f_drain", "f_sleep", "f_unlock"} => done
              /\ pc'[a] = "f_unlock" => trackFlushList = {}
    PROVE  OnePlunger'
<1>1. PlungerSent => PlungerSent'
  <2>1. flushOwner # None => flushOwner \in Drivers /\ arg[flushOwner] = Plunger
    BY DEF Typing, Fields, Flushers
  <2> QED BY <2>1 DEF PlungerSent
<1>2. \A h \in Helpers : arg'[h] = Plunger => arg[h] = Plunger
  OBVIOUS
<1>3. ASSUME NEW h \in Helpers, arg'[h] = Plunger PROVE PlungerAt(h)'
  <2>1. PlungerAt(h)
    BY <1>2, <1>3 DEF OnePlunger
  <2>2. CASE h = a
    BY <1>1, <1>3, <2>1, <2>2 DEF PlungerAt
  <2>3. CASE h # a
    BY <1>1, <1>3, <2>1, <2>3 DEF PlungerAt
  <2> QED BY <2>2, <2>3
<1>4. ASSUME NEW d \in Drivers
      PROVE  /\ pc'[d] = "q_add" /\ arg'[d] = Plunger => ~ done'
             /\ pc'[d] \in {"f_drain", "f_sleep", "f_unlock"} => done'
             /\ pc'[d] = "f_unlock" => trackFlushList' = {}
  BY DEF OnePlunger
<1> QED BY <1>1, <1>2, <1>3, <1>4 DEF OnePlunger

(* Nobody holds flushMutex: there is no plunger.                           *)
LEMMA NoPlunger ==
    ASSUME OnePlunger, flushOwner = None
    PROVE  ~ Queued(Plunger) /\ \A h \in Helpers : arg[h] # Plunger
BY DEF OnePlunger, PlungerAt, PlungerSent

(* The queue changes, but not by the plunger.                              *)
LEMMA PlungerStays ==
    ASSUME Fields, OnePlunger,
           \/ head' = head
           \/ \E x \in Items : x # Plunger /\ head' = Append(head, x)
           \/ head # <<>> /\ head' = Tail(head)
           \/ \E k \in DOMAIN head : head' = RemoveAt(head, k)
    PROVE  /\ Queued(Plunger)' => Queued(Plunger)
           /\ QueuedOnce(Plunger)'
<1>0. QueuedOnce(Plunger)
  BY DEF OnePlunger
<1> QED BY <1>0, QueueSame, QueueAppend, QueueTail, QueueRemove

LEMMA PlungerDispatch ==
    ASSUME Typing, Flushers, OnePlunger, NEW a \in Actors, DispatchStep(a)
    PROVE  OnePlunger'
<1> USE DEF Typing, Goto, FlushAt, FlushPoints, EndPoints, PlungePoints,
            flushVars, queueVars
<1>1. CASE SubmitOK(a)
  <2>1. FlushAt(a, pc[a], arg[a])
    BY DEF Flushers
  <2>2. (Queued(Plunger)' => Queued(Plunger)) /\ QueuedOnce(Plunger)'
    BY <1>1, PlungerStays DEF SubmitOK
  <2> QED
    BY <1>1, <2>1, <2>2, PlungerQuiet, ActorsAssumption, WorksAssumption DEF
       SubmitOK, Control
<1>2. CASE SubmitFail(a)
  <2>1. FlushAt(a, pc[a], arg[a])
    BY DEF Flushers
  <2>2. (Queued(Plunger)' => Queued(Plunger)) /\ QueuedOnce(Plunger)'
    BY <1>2, PlungerStays DEF SubmitFail
  <2> QED
    BY <1>2, <2>1, <2>2, PlungerQuiet, ActorsAssumption, WorksAssumption DEF
       SubmitFail, Control
<1>3. CASE DispatchNext(a)
  <2>1. FlushAt(a, pc[a], arg[a])
    BY DEF Flushers
  <2>2. (Queued(Plunger)' => Queued(Plunger)) /\ QueuedOnce(Plunger)'
    BY <1>3, PlungerStays DEF DispatchNext
  <2> QED
    BY <1>3, <2>1, <2>2, PlungerQuiet, ActorsAssumption, WorksAssumption,
       DispatchFree, CallerPointFree DEF DispatchNext, Control
<1>4. CASE Unpost(a)
  <2>1. FlushAt(a, pc[a], arg[a])
    BY DEF Flushers
  <2>2. (Queued(Plunger)' => Queued(Plunger)) /\ QueuedOnce(Plunger)'
    BY <1>4, PlungerStays DEF Unpost
  <2> QED
    BY <1>4, <2>1, <2>2, PlungerQuiet, ActorsAssumption, WorksAssumption DEF
       Unpost, Control
<1>5. CASE ArmDelayTimer(a)
  <2>1. FlushAt(a, pc[a], arg[a])
    BY DEF Flushers
  <2>2. (Queued(Plunger)' => Queued(Plunger)) /\ QueuedOnce(Plunger)'
    BY <1>5, PlungerStays DEF ArmDelayTimer
  <2> QED
    BY <1>5, <2>1, <2>2, PlungerQuiet, ActorsAssumption, WorksAssumption,
       CallerPointFree DEF ArmDelayTimer, Control
<1> QED
  BY <1>1, <1>2, <1>3, <1>4, <1>5 DEF DispatchStep

LEMMA PlungerTimer ==
    ASSUME Typing, Flushers, OnePlunger, NEW t \in Timers, TimerStep(t)
    PROVE  OnePlunger'
<1> USE DEF Typing, Goto, FlushAt, FlushPoints, EndPoints, PlungePoints,
            flushVars, queueVars
<1>1. CASE \E w \in Works : WorkTimerFires(t, w)
  <2>1. FlushAt(t, pc[t], arg[t])
    BY DEF Flushers
  <2>2. (Queued(Plunger)' => Queued(Plunger)) /\ QueuedOnce(Plunger)'
    BY <1>1, PlungerStays DEF WorkTimerFires
  <2> QED
    BY <1>1, <2>1, <2>2, PlungerQuiet, ActorsAssumption, WorksAssumption DEF
       WorkTimerFires, Control
<1>2. CASE DelayTimerFires(t)
  <2>1. FlushAt(t, pc[t], arg[t])
    BY DEF Flushers
  <2>2. (Queued(Plunger)' => Queued(Plunger)) /\ QueuedOnce(Plunger)'
    BY <1>2, PlungerStays DEF DelayTimerFires
  <2> QED
    BY <1>2, <2>1, <2>2, PlungerQuiet, ActorsAssumption, WorksAssumption DEF
       DelayTimerFires, Control
<1>3. CASE DelayTimeout(t)
  <2>1. FlushAt(t, pc[t], arg[t])
    BY DEF Flushers
  <2>2. (Queued(Plunger)' => Queued(Plunger)) /\ QueuedOnce(Plunger)'
    BY <1>3, PlungerStays DEF DelayTimeout
  <2> QED
    BY <1>3, <2>1, <2>2, PlungerQuiet, ActorsAssumption, WorksAssumption,
       DispatchFree, CallerPointFree DEF DelayTimeout, Control
<1>4. CASE TimerReturns(t)
  <2>1. FlushAt(t, pc[t], arg[t])
    BY DEF Flushers
  <2>2. (Queued(Plunger)' => Queued(Plunger)) /\ QueuedOnce(Plunger)'
    BY <1>4, PlungerStays DEF TimerReturns
  <2> QED
    BY <1>4, <2>1, <2>2, PlungerQuiet, ActorsAssumption, WorksAssumption DEF
       TimerReturns, Control
<1>5. CASE QueueAdd(t)
  <2>1. FlushAt(t, pc[t], arg[t]) /\ pc[t] = "q_add" /\ arg[t] \in Items
    BY <1>5, ArgTyping DEF Flushers, QueueAdd, ItemPoints
  <2>2. arg[t] # Plunger
    BY <2>1
  <2>3. (Queued(Plunger)' => Queued(Plunger)) /\ QueuedOnce(Plunger)'
    BY <1>5, <2>1, <2>2, PlungerStays DEF QueueAdd
  <2>4. /\ \A b \in Actors \ {t} : pc'[b] = pc[b] /\ arg'[b] = arg[b]
        /\ pc'[t] \in {"d_submit", "t_ret", "h_fin", "f_wait", "idle"}
        /\ arg'[t] # Plunger
    BY <1>5, <2>2, DispatchFree, WorksAssumption DEF QueueAdd, Control
  <2> QED
    BY <1>5, <2>2, <2>3, <2>4, PlungerQuiet, ActorsAssumption DEF QueueAdd
<1> QED
  BY <1>1, <1>2, <1>3, <1>4, <1>5 DEF TimerStep

LEMMA PlungerHelper ==
    ASSUME Typing, Flushers, OnePlunger, NEW h \in Helpers, HelperStep(h)
    PROVE  OnePlunger'
<1> USE DEF Typing, Goto, FlushAt, FlushPoints, EndPoints, PlungePoints,
            flushVars, queueVars
<1>1. CASE CalloutNothing(h)
  <2>1. FlushAt(h, pc[h], arg[h])
    BY DEF Flushers
  <2>2. (Queued(Plunger)' => Queued(Plunger)) /\ QueuedOnce(Plunger)'
    BY <1>1, PlungerStays DEF CalloutNothing
  <2> QED
    BY <1>1, <2>1, <2>2, PlungerQuiet, ActorsAssumption, WorksAssumption DEF
       CalloutNothing, Control
<1>2. CASE CalloutTake(h)
  <2>1. /\ head # <<>> /\ head' = Tail(head)
        /\ \A b \in Actors \ {h} : pc'[b] = pc[b] /\ arg'[b] = arg[b]
        /\ pc'[h] = "h_clear" /\ arg'[h] = Head(head)
        /\ UNCHANGED <<flushOwner, done, trackFlushList>>
    BY <1>2 DEF CalloutTake, Control
  <2>2. (Queued(Plunger)' => Queued(Plunger)) /\ QueuedOnce(Plunger)'
    BY <2>1, PlungerStays
  <2>3. CASE Head(head) # Plunger
    BY <2>1, <2>2, <2>3, PlungerQuiet, ActorsAssumption
  <2>4. CASE Head(head) = Plunger
    <3>1. Queued(Plunger) /\ ~ Queued(Plunger)'
      BY <2>1, <2>4, QueueTail DEF OnePlunger
    <3>2. PlungerSent /\ ~ done /\ \A g \in Helpers : arg[g] # Plunger
      BY <3>1 DEF OnePlunger
    <3>3. PlungerSent' /\ PlungerAt(h)'
      BY <2>1, <3>2, ActorsAssumption DEF PlungerSent, PlungerAt, Fields
    <3>4. \A g \in Helpers : arg'[g] = Plunger => g = h
      BY <2>1, <3>2
    <3>5. \A e \in Drivers : pc'[e] = pc[e] /\ arg'[e] = arg[e]
      BY <2>1, ActorsAssumption
    <3> QED BY <2>1, <2>2, <3>1, <3>3, <3>4, <3>5 DEF OnePlunger
  <2> QED BY <2>3, <2>4
<1>3. CASE CalloutClear(h)
  <2>1. FlushAt(h, pc[h], arg[h])
    BY DEF Flushers
  <2>2. (Queued(Plunger)' => Queued(Plunger)) /\ QueuedOnce(Plunger)'
    BY <1>3, PlungerStays DEF CalloutClear
  <2> QED
    BY <1>3, <2>1, <2>2, PlungerQuiet, ActorsAssumption, WorksAssumption DEF
       CalloutClear, Control
<1>4. CASE WorkReturns(h)
  <2>1. FlushAt(h, pc[h], arg[h])
    BY DEF Flushers
  <2>2. (Queued(Plunger)' => Queued(Plunger)) /\ QueuedOnce(Plunger)'
    BY <1>4, PlungerStays DEF WorkReturns
  <2> QED
    BY <1>4, <2>1, <2>2, PlungerQuiet, ActorsAssumption, WorksAssumption DEF
       WorkReturns, Control
<1>5. CASE WorkRequeues(h)
  <2>1. FlushAt(h, pc[h], arg[h])
    BY DEF Flushers
  <2>2. (Queued(Plunger)' => Queued(Plunger)) /\ QueuedOnce(Plunger)'
    BY <1>5, PlungerStays DEF WorkRequeues, Claim
  <2> QED
    BY <1>5, <2>1, <2>2, PlungerQuiet, ActorsAssumption, WorksAssumption DEF
       WorkRequeues, Claim, Control
<1>6. CASE PlungerSplice(h)
  <2>1. /\ \A b \in Actors \ {h} : pc'[b] = pc[b]
        /\ pc[h] = "h_func" /\ pc'[h] = "h_compl"
        /\ arg[h] = Plunger /\ arg' = arg
        /\ UNCHANGED <<head, flushOwner, done>>
    BY <1>6 DEF PlungerSplice, Control
  <2>2. (Queued(Plunger)' => Queued(Plunger)) /\ QueuedOnce(Plunger)'
    BY <2>1, PlungerStays
  <2>3. PlungerSent /\ ~ done
    BY <2>1 DEF OnePlunger, PlungerAt
  <2>4. h \in trackFlushList'
    BY <1>6, <2>1, WorksAssumption DEF PlungerSplice, FlushList, Tracking,
       Tracked
  <2>5. PlungerSent' /\ PlungerAt(h)'
    BY <2>1, <2>3, <2>4, ActorsAssumption DEF PlungerSent, PlungerAt, Fields
  <2>6. \A e \in Drivers : pc'[e] = pc[e]
    BY <2>1, ActorsAssumption
  <2> QED BY <2>1, <2>2, <2>3, <2>5, <2>6 DEF OnePlunger
<1>7. CASE PlungerComplete(h)
  <2>1. /\ \A b \in Actors \ {h} : pc'[b] = pc[b]
        /\ pc[h] = "h_compl" /\ pc'[h] = "h_fin" /\ arg' = arg
        /\ UNCHANGED <<head, flushOwner, trackFlushList>> /\ done'
    BY <1>7 DEF PlungerComplete, Control
  <2>2. arg[h] = Plunger
    BY <2>1 DEF Flushers
  <2>3. PlungerAt(h) /\ ~ Queued(Plunger)
    BY <2>2 DEF OnePlunger
  <2>4. (Queued(Plunger)' => Queued(Plunger)) /\ QueuedOnce(Plunger)'
    BY <2>1, PlungerStays
  <2>5. PlungerAt(h)'
    BY <2>1, <2>3, ActorsAssumption DEF PlungerSent, PlungerAt, Fields
  <2>6. \A e \in Drivers : pc'[e] = pc[e]
    BY <2>1, ActorsAssumption
  <2>7. \A e \in Drivers : ~ (pc[e] = "q_add" /\ arg[e] = Plunger)
    BY <2>3 DEF PlungerAt, PlungerSent, Flushers
  <2> QED
    BY <2>1, <2>2, <2>3, <2>4, <2>5, <2>6, <2>7 DEF OnePlunger
<1>8. CASE CalloutFinish(h)
  <2>1. /\ \A b \in Actors \ {h} : pc'[b] = pc[b] /\ arg'[b] = arg[b]
        /\ arg'[h] = None
        /\ UNCHANGED <<head, flushOwner, done>>
        /\ trackFlushList' = trackFlushList \ {h}
    BY <1>8, DispatchFree DEF CalloutFinish, Control
  <2>2. (Queued(Plunger)' => Queued(Plunger)) /\ QueuedOnce(Plunger)'
    BY <2>1, PlungerStays
  <2> QED
    BY <2>1, <2>2, PlungerQuiet, ActorsAssumption, WorksAssumption
<1>9. CASE QueueAdd(h)
  <2>1. FlushAt(h, pc[h], arg[h]) /\ pc[h] = "q_add" /\ arg[h] \in Items
    BY <1>9, ArgTyping DEF Flushers, QueueAdd, ItemPoints
  <2>2. arg[h] # Plunger
    BY <2>1
  <2>3. (Queued(Plunger)' => Queued(Plunger)) /\ QueuedOnce(Plunger)'
    BY <1>9, <2>1, <2>2, PlungerStays DEF QueueAdd
  <2>4. /\ \A b \in Actors \ {h} : pc'[b] = pc[b] /\ arg'[b] = arg[b]
        /\ pc'[h] \in {"d_submit", "t_ret", "h_fin", "f_wait", "idle"}
        /\ arg'[h] # Plunger
    BY <1>9, <2>2, DispatchFree, WorksAssumption DEF QueueAdd, Control
  <2> QED
    BY <1>9, <2>2, <2>3, <2>4, PlungerQuiet, ActorsAssumption DEF QueueAdd
<1>10. CASE TimerAdd(h)
  <2>1. FlushAt(h, pc[h], arg[h])
    BY DEF Flushers
  <2>2. (Queued(Plunger)' => Queued(Plunger)) /\ QueuedOnce(Plunger)'
    BY <1>10, PlungerStays DEF TimerAdd
  <2> QED
    BY <1>10, <2>1, <2>2, PlungerQuiet, ActorsAssumption, WorksAssumption DEF
       TimerAdd, Control
<1> QED
  BY <1>1, <1>2, <1>3, <1>4, <1>5, <1>6, <1>7, <1>8, <1>9, <1>10 DEF
     HelperStep

LEMMA PlungerDriver ==
    ASSUME Typing, Flushers, OnePlunger, NEW d \in Drivers, DriverStep(d)
    PROVE  OnePlunger'
<1> USE DEF Typing, Goto, FlushAt, FlushPoints, EndPoints, PlungePoints,
            flushVars, queueVars
<1>1. CASE QueueAdd(d)
  <2>1. pc[d] = "q_add" /\ arg[d] \in Items
    BY <1>1, ArgTyping DEF QueueAdd, ItemPoints
  <2>2. /\ \A b \in Actors \ {d} : pc'[b] = pc[b] /\ arg'[b] = arg[b]
        /\ pc'[d] \in {"d_submit", "t_ret", "h_fin", "f_wait", "idle"}
        /\ arg[d] = Plunger => arg'[d] = Plunger
        /\ arg[d] # Plunger => arg'[d] # Plunger
    BY <1>1, DispatchFree, WorksAssumption DEF QueueAdd, Control
  <2>3. CASE arg[d] # Plunger
    <3>1. (Queued(Plunger)' => Queued(Plunger)) /\ QueuedOnce(Plunger)'
      BY <1>1, <2>1, <2>3, PlungerStays DEF QueueAdd
    <3> QED
      BY <1>1, <2>2, <2>3, <3>1, PlungerQuiet, ActorsAssumption DEF QueueAdd
  <2>4. CASE arg[d] = Plunger
    <3>1. flushOwner = d /\ ~ PlungerSent /\ ~ done
      BY <2>1, <2>4 DEF Flushers, PlungerSent, OnePlunger
    <3>2. ~ Queued(Plunger) /\ \A h \in Helpers : arg[h] # Plunger
      BY <3>1 DEF OnePlunger, PlungerAt
    <3>3. QueuedOnce(Plunger)'
      BY <1>1, <2>1, <2>4, <3>2, QueueAppend DEF QueueAdd, OnePlunger
    <3>4. UNCHANGED <<flushOwner, done, trackFlushList>>
      BY <1>1 DEF QueueAdd
    <3>5. PlungerSent'
      BY <2>2, <3>1, <3>4, ActorsAssumption DEF PlungerSent
    <3>6. \A h \in Helpers : arg'[h] # Plunger
      BY <2>2, <3>2, ActorsAssumption
    <3>7. \A e \in Drivers :
             /\ pc'[e] \in {"f_drain", "f_sleep", "f_unlock"} => done
             /\ pc'[e] = "f_unlock" => trackFlushList = {}
      BY <2>2 DEF OnePlunger
    <3> QED BY <3>1, <3>3, <3>4, <3>5, <3>6, <3>7 DEF OnePlunger
  <2> QED BY <2>3, <2>4
<1>2. CASE TimerAdd(d)
  <2>1. FlushAt(d, pc[d], arg[d])
    BY DEF Flushers
  <2>2. (Queued(Plunger)' => Queued(Plunger)) /\ QueuedOnce(Plunger)'
    BY <1>2, PlungerStays DEF TimerAdd
  <2> QED
    BY <1>2, <2>1, <2>2, PlungerQuiet, ActorsAssumption, WorksAssumption DEF
       TimerAdd, Control
<1>3. CASE CancelTry(d)
  <2>1. FlushAt(d, pc[d], arg[d])
    BY DEF Flushers
  <2>2. (Queued(Plunger)' => Queued(Plunger)) /\ QueuedOnce(Plunger)'
    BY <1>3, PlungerStays DEF CancelTry
  <2> QED
    BY <1>3, <2>1, <2>2, PlungerQuiet, ActorsAssumption, WorksAssumption DEF
       CancelTry, Control
<1>4. CASE CancelDelTimer(d)
  <2>1. FlushAt(d, pc[d], arg[d])
    BY DEF Flushers
  <2>2. (Queued(Plunger)' => Queued(Plunger)) /\ QueuedOnce(Plunger)'
    BY <1>4, PlungerStays DEF CancelDelTimer
  <2> QED
    BY <1>4, <2>1, <2>2, PlungerQuiet, ActorsAssumption, WorksAssumption DEF
       CancelDelTimer, Control
<1>5. CASE CancelRemove(d)
  <2>1. FlushAt(d, pc[d], arg[d])
    BY DEF Flushers
  <2>2. (Queued(Plunger)' => Queued(Plunger)) /\ QueuedOnce(Plunger)'
    BY <1>5, PlungerStays DEF CancelRemove, CancelWait, CancelNext
  <2> QED
    BY <1>5, <2>1, <2>2, PlungerQuiet, ActorsAssumption, WorksAssumption DEF
       CancelRemove, CancelWait, CancelNext, Control
<1>6. CASE CancelNotQueued(d)
  <2>1. FlushAt(d, pc[d], arg[d])
    BY DEF Flushers
  <2>2. (Queued(Plunger)' => Queued(Plunger)) /\ QueuedOnce(Plunger)'
    BY <1>6, PlungerStays DEF CancelNotQueued, CancelWait, CancelNext
  <2> QED
    BY <1>6, <2>1, <2>2, PlungerQuiet, ActorsAssumption, WorksAssumption DEF
       CancelNotQueued, CancelWait, CancelNext, Control
<1>7. CASE CancelWoken(d)
  <2>1. FlushAt(d, pc[d], arg[d])
    BY DEF Flushers
  <2>2. (Queued(Plunger)' => Queued(Plunger)) /\ QueuedOnce(Plunger)'
    BY <1>7, PlungerStays DEF CancelWoken, CancelNext
  <2> QED
    BY <1>7, <2>1, <2>2, PlungerQuiet, ActorsAssumption, WorksAssumption DEF
       CancelWoken, CancelNext, Control
<1>8. CASE CancelClear(d)
  <2>1. FlushAt(d, pc[d], arg[d])
    BY DEF Flushers
  <2>2. (Queued(Plunger)' => Queued(Plunger)) /\ QueuedOnce(Plunger)'
    BY <1>8, PlungerStays DEF CancelClear
  <2> QED
    BY <1>8, <2>1, <2>2, PlungerQuiet, ActorsAssumption, WorksAssumption DEF
       CancelClear, Control
<1>9. CASE CancelDelayed(d)
  <2>1. FlushAt(d, pc[d], arg[d])
    BY DEF Flushers
  <2>2. (Queued(Plunger)' => Queued(Plunger)) /\ QueuedOnce(Plunger)'
    BY <1>9, PlungerStays DEF CancelDelayed
  <2> QED
    BY <1>9, <2>1, <2>2, PlungerQuiet, ActorsAssumption, WorksAssumption DEF
       CancelDelayed, Control
<1>10. CASE CancelDelayedClear(d)
  <2>1. FlushAt(d, pc[d], arg[d])
    BY DEF Flushers
  <2>2. (Queued(Plunger)' => Queued(Plunger)) /\ QueuedOnce(Plunger)'
    BY <1>10, PlungerStays DEF CancelDelayedClear
  <2> QED
    BY <1>10, <2>1, <2>2, PlungerQuiet, ActorsAssumption, WorksAssumption DEF
       CancelDelayedClear, Control
<1>11. CASE FlushLock(d)
  <2>1. /\ \A b \in Actors \ {d} : pc'[b] = pc[b] /\ arg'[b] = arg[b]
        /\ pc'[d] = "q_add" /\ ~ done' /\ flushOwner = None /\ head' = head
    BY <1>11 DEF FlushLock, Control
  <2>2. ~ Queued(Plunger) /\ \A h \in Helpers : arg[h] # Plunger
    BY <2>1, NoPlunger
  <2>3. (Queued(Plunger)' => Queued(Plunger)) /\ QueuedOnce(Plunger)'
    BY <2>1, PlungerStays
  <2>4. \A h \in Helpers : arg'[h] # Plunger
    BY <2>1, <2>2, ActorsAssumption
  <2>5. \A e \in Drivers : pc'[e] \notin {"f_drain", "f_sleep", "f_unlock"}
    BY <2>1, ActorsAssumption DEF Flushers
  <2> QED BY <2>1, <2>2, <2>3, <2>4, <2>5 DEF OnePlunger
<1>12. CASE FlushCompleted(d)
  <2>1. FlushAt(d, pc[d], arg[d])
    BY DEF Flushers
  <2>2. (Queued(Plunger)' => Queued(Plunger)) /\ QueuedOnce(Plunger)'
    BY <1>12, PlungerStays DEF FlushCompleted
  <2> QED
    BY <1>12, <2>1, <2>2, PlungerQuiet, ActorsAssumption, WorksAssumption DEF
       FlushCompleted, Control
<1>13. CASE FlushDrain(d)
  <2>1. done
    BY <1>13 DEF FlushDrain, OnePlunger
  <2>2. (Queued(Plunger)' => Queued(Plunger)) /\ QueuedOnce(Plunger)'
    BY <1>13, PlungerStays DEF FlushDrain
  <2> QED
    BY <1>13, <2>1, <2>2, PlungerQuiet, ActorsAssumption
       DEF FlushDrain, Drained, Control
<1>14. CASE FlushWoken(d)
  <2>1. done
    BY <1>14 DEF FlushWoken, OnePlunger
  <2>2. (Queued(Plunger)' => Queued(Plunger)) /\ QueuedOnce(Plunger)'
    BY <1>14, PlungerStays DEF FlushWoken
  <2> QED
    BY <1>14, <2>1, <2>2, PlungerQuiet, ActorsAssumption
       DEF FlushWoken, Drained, Control
<1>15. CASE FlushUnlock(d)
  <2>1. /\ \A b \in Actors \ {d} : pc'[b] = pc[b] /\ arg'[b] = arg[b]
        /\ pc[d] = "f_unlock" /\ pc'[d] \in {"x_wait", "idle"} /\ arg'[d] = None
        /\ UNCHANGED <<head, done, trackFlushList>>
    BY <1>15 DEF FlushUnlock, Control
  <2>2. done /\ trackFlushList = {}
    BY <2>1 DEF OnePlunger
  <2>3. ~ Queued(Plunger) /\ \A h \in Helpers : arg[h] # Plunger
    BY <2>2 DEF OnePlunger, PlungerAt
  <2>4. (Queued(Plunger)' => Queued(Plunger)) /\ QueuedOnce(Plunger)'
    BY <2>1, PlungerStays
  <2>5. \A h \in Helpers : arg'[h] # Plunger
    BY <2>1, <2>3, ActorsAssumption
  <2>6. \A e \in Drivers : ~ (pc'[e] = "q_add" /\ arg'[e] = Plunger)
    <3>1. arg[d] = Plunger /\ flushOwner = d
      BY <2>1 DEF Flushers
    <3>2. \A e \in Drivers : arg[e] = Plunger => e = d
      BY <3>1 DEF Flushers
    <3> QED BY <2>1, <3>2
  <2> QED BY <2>1, <2>2, <2>3, <2>4, <2>5, <2>6 DEF OnePlunger
<1>16. CASE DestroyWait(d)
  <2>1. FlushAt(d, pc[d], arg[d])
    BY DEF Flushers
  <2>2. (Queued(Plunger)' => Queued(Plunger)) /\ QueuedOnce(Plunger)'
    BY <1>16, PlungerStays DEF DestroyWait
  <2> QED
    BY <1>16, <2>1, <2>2, PlungerQuiet, ActorsAssumption, WorksAssumption DEF
       DestroyWait, Control
<1>17. CASE DestroyDelTimer(d)
  <2>1. FlushAt(d, pc[d], arg[d])
    BY DEF Flushers
  <2>2. (Queued(Plunger)' => Queued(Plunger)) /\ QueuedOnce(Plunger)'
    BY <1>17, PlungerStays DEF DestroyDelTimer
  <2> QED
    BY <1>17, <2>1, <2>2, PlungerQuiet, ActorsAssumption, WorksAssumption DEF
       DestroyDelTimer, Control
<1>18. CASE DestroyFree(d)
  <2>1. FlushAt(d, pc[d], arg[d])
    BY DEF Flushers
  <2>2. (Queued(Plunger)' => Queued(Plunger)) /\ QueuedOnce(Plunger)'
    BY <1>18, PlungerStays DEF DestroyFree
  <2> QED
    BY <1>18, <2>1, <2>2, PlungerQuiet, ActorsAssumption, WorksAssumption DEF
       DestroyFree, Control
<1> QED
  BY <1>1, <1>2, <1>3, <1>4, <1>5, <1>6, <1>7, <1>8, <1>9, <1>10, <1>11,
     <1>12, <1>13, <1>14, <1>15, <1>16, <1>17, <1>18 DEF DriverStep

LEMMA PlungerStarts ==
    ASSUME Typing, Flushers, OnePlunger, NEW d \in Drivers, DriverStarts(d)
    PROVE  OnePlunger'
<1> USE DEF Typing, Goto, FlushAt, FlushPoints, EndPoints, PlungePoints,
            flushVars, queueVars
<1>0. pc[d] = "idle"
  BY DEF DriverStarts
<1>1. CASE \E w \in Works : StartQueue(d, w)
  <2>1. FlushAt(d, pc[d], arg[d])
    BY DEF Flushers
  <2>2. (Queued(Plunger)' => Queued(Plunger)) /\ QueuedOnce(Plunger)'
    BY <1>1, PlungerStays DEF StartQueue, Claim
  <2> QED
    BY <1>1, <2>1, <2>2, PlungerQuiet, ActorsAssumption, WorksAssumption, <1>0
       DEF StartQueue, Claim, Control
<1>2. CASE \E w \in Works : StartQueueDelayed(d, w)
  <2>1. FlushAt(d, pc[d], arg[d])
    BY DEF Flushers
  <2>2. (Queued(Plunger)' => Queued(Plunger)) /\ QueuedOnce(Plunger)'
    BY <1>2, PlungerStays DEF StartQueueDelayed, Claim
  <2> QED
    BY <1>2, <2>1, <2>2, PlungerQuiet, ActorsAssumption, WorksAssumption, <1>0
       DEF StartQueueDelayed, Claim, Control
<1>3. CASE \E w \in Works : StartCancel(d, w)
  <2>1. FlushAt(d, pc[d], arg[d])
    BY DEF Flushers
  <2>2. (Queued(Plunger)' => Queued(Plunger)) /\ QueuedOnce(Plunger)'
    BY <1>3, PlungerStays DEF StartCancel, Begin
  <2> QED
    BY <1>3, <2>1, <2>2, PlungerQuiet, ActorsAssumption, WorksAssumption, <1>0
       DEF StartCancel, Begin, Control
<1>4. CASE StartFlush(d)
  <2>1. FlushAt(d, pc[d], arg[d])
    BY DEF Flushers
  <2>2. (Queued(Plunger)' => Queued(Plunger)) /\ QueuedOnce(Plunger)'
    BY <1>4, PlungerStays DEF StartFlush
  <2> QED
    BY <1>4, <2>1, <2>2, PlungerQuiet, ActorsAssumption, WorksAssumption, <1>0
       DEF StartFlush, Control
<1>5. CASE StartDestroy(d)
  <2>1. FlushAt(d, pc[d], arg[d])
    BY DEF Flushers
  <2>2. (Queued(Plunger)' => Queued(Plunger)) /\ QueuedOnce(Plunger)'
    BY <1>5, PlungerStays DEF StartDestroy
  <2> QED
    BY <1>5, <2>1, <2>2, PlungerQuiet, ActorsAssumption, WorksAssumption, <1>0
       DEF StartDestroy, Control
<1> QED
  BY <1>1, <1>2, <1>3, <1>4, <1>5 DEF DriverStarts
-----------------------------------------------------------------------------
(* What the flush in progress has to wait for: items in front of the       *)
(* plunger and helpers at work as long as the plunger is queued, helpers   *)
(* at work once it is taken, and helpers on trackFlushList once it has     *)
(* spliced the lists.                                                      *)

Ahead(i) == \E j, k \in DOMAIN head : head[j] = i /\ head[k] = Plunger /\ j < k

Debt ==
    /\ Queued(Plunger) => \A i \in flushDebt : i \in Tracked \/ Ahead(i)
    /\ (\E h \in Helpers : arg[h] = Plunger) => flushDebt \subseteq Tracked
    /\ (\E h \in Helpers : pc[h] = "h_compl") => flushDebt \subseteq trackFlushList
    /\ done => flushDebt \subseteq trackFlushList

(* What the three changes of the queue do to what is in front of the       *)
(* plunger.                                                                *)
LEMMA AheadAppend ==
    ASSUME Fields, NEW x \in Items, head' = Append(head, x), NEW i
    PROVE  /\ Ahead(i) => Ahead(i)'
           /\ x = Plunger /\ i \in ToSet(head) => Ahead(i)'
<1>1. /\ Len(head) \in Nat
      /\ DOMAIN head' = 1..(Len(head) + 1) /\ DOMAIN head = 1..Len(head)
      /\ head'[Len(head) + 1] = x
      /\ \A j \in 1..Len(head) : head'[j] = head[j]
  BY DEF Fields
<1>2. \A j \in 1..Len(head) : j \in 1..(Len(head) + 1) /\ j < Len(head) + 1
  BY <1>1
<1>3. Len(head) + 1 \in 1..(Len(head) + 1)
  BY <1>1
<1>4. Ahead(i) => Ahead(i)'
  BY <1>1, <1>2 DEF Ahead
<1>5. x = Plunger /\ i \in ToSet(head) => Ahead(i)'
  BY <1>1, <1>2, <1>3 DEF Ahead, ToSet
<1> QED BY <1>4, <1>5

LEMMA AheadTail ==
    ASSUME Fields, head # <<>>, head' = Tail(head), NEW i, Ahead(i),
           i # Head(head)
    PROVE  Ahead(i)'
<1>1. /\ Len(head) \in Nat \ {0}
      /\ DOMAIN head' = 1..(Len(head) - 1) /\ DOMAIN head = 1..Len(head)
      /\ Head(head) = head[1]
      /\ \A j \in 1..(Len(head) - 1) : head'[j] = head[j + 1]
  BY DEF Fields
<1>2. PICK j \in 1..Len(head), k \in 1..Len(head) :
         head[j] = i /\ head[k] = Plunger /\ j < k
  BY <1>1 DEF Ahead
<1>3. /\ j # 1 /\ j - 1 \in 1..(Len(head) - 1) /\ k - 1 \in 1..(Len(head) - 1)
      /\ (j - 1) + 1 = j /\ (k - 1) + 1 = k /\ j - 1 < k - 1
  BY <1>1, <1>2
<1>4. head'[j - 1] = i /\ head'[k - 1] = Plunger
  BY <1>1, <1>2, <1>3
<1> QED BY <1>1, <1>3, <1>4 DEF Ahead

(* The plunger is taken: nothing was in front of it.                       *)
LEMMA AheadFirst ==
    ASSUME Fields, head # <<>>, Head(head) = Plunger, QueuedOnce(Plunger),
           NEW i
    PROVE  ~ Ahead(i)
<1>1. /\ Len(head) \in Nat \ {0} /\ DOMAIN head = 1..Len(head)
      /\ Head(head) = head[1] /\ 1 \in 1..Len(head)
  BY DEF Fields
<1>2. \A k \in 1..Len(head) : head[k] = Plunger => k = 1
  BY <1>1 DEF QueuedOnce
<1> QED BY <1>1, <1>2 DEF Ahead

LEMMA AheadRemove ==
    ASSUME Fields, NEW n \in DOMAIN head, head' = RemoveAt(head, n), NEW i,
           Ahead(i), i # head[n], head[n] # Plunger
    PROVE  Ahead(i)'
<1>1. /\ Len(head) \in Nat \ {0} /\ n \in 1..Len(head)
      /\ DOMAIN head' = 1..(Len(head) - 1) /\ DOMAIN head = 1..Len(head)
      /\ \A j \in 1..(Len(head) - 1) :
            head'[j] = IF j < n THEN head[j] ELSE head[j + 1]
  BY RemoveAtFacts DEF Fields
<1>2. PICK j \in 1..Len(head), k \in 1..Len(head) :
         head[j] = i /\ head[k] = Plunger /\ j < k
  BY <1>1 DEF Ahead
<1> DEFINE Shift(m) == IF m < n THEN m ELSE m - 1
<1>3. \A m \in 1..Len(head) : m # n =>
         /\ Shift(m) \in 1..(Len(head) - 1)
         /\ head'[Shift(m)] = head[m]
  <2> SUFFICES ASSUME NEW m \in 1..Len(head), m # n
               PROVE  /\ Shift(m) \in 1..(Len(head) - 1)
                      /\ head'[Shift(m)] = head[m]
    OBVIOUS
  <2>1. CASE m < n
    BY <2>1, <1>1
  <2>2. CASE ~ (m < n)
    <3>1. m - 1 \in 1..(Len(head) - 1) /\ ~ (m - 1 < n) /\ (m - 1) + 1 = m
      BY <2>2, <1>1
    <3> QED BY <2>2, <3>1, <1>1
  <2> QED BY <2>1, <2>2
<1>4. j # n /\ k # n
  BY <1>2
<1>5. Shift(j) < Shift(k)
  BY <1>1, <1>2, <1>4
<1> HIDE DEF Shift
<1> QED BY <1>1, <1>2, <1>3, <1>4, <1>5 DEF Ahead

(* A step that changes nothing of what the flush waits for.                *)
LEMMA DebtQuiet ==
    ASSUME Debt, head' = head,
           UNCHANGED <<flushDebt, trackList, trackFlushList>>,
           done' = done \/ ~ done',
           \A h \in Helpers : arg'[h] = Plunger => arg[h] = Plunger,
           \A h \in Helpers : pc'[h] = "h_compl" => pc[h] = "h_compl"
    PROVE  Debt'
<1>1. (Queued(Plunger)' <=> Queued(Plunger)) /\ \A i : Ahead(i)' <=> Ahead(i)
  BY QueueSame DEF Ahead
<1>2. Tracked' = Tracked
  BY DEF Tracked
<1> QED BY <1>1, <1>2 DEF Debt

LEMMA DebtDispatch ==
    ASSUME Typing, Flushers, OnePlunger, Debt, NEW a \in Actors,
           DispatchStep(a)
    PROVE  Debt'
<1> USE DEF Typing, Control, Goto, flushVars, queueVars
<1>1. CASE SubmitOK(a)
  BY <1>1, DebtQuiet, ActorsAssumption, WorksAssumption DEF SubmitOK
<1>2. CASE SubmitFail(a)
  BY <1>2, DebtQuiet, ActorsAssumption, WorksAssumption DEF SubmitFail
<1>3. CASE DispatchNext(a)
  BY <1>3, DebtQuiet, DispatchFree, CallerPointFree DEF DispatchNext
<1>4. CASE Unpost(a)
  BY <1>4, DebtQuiet, ActorsAssumption, WorksAssumption DEF Unpost
<1>5. CASE ArmDelayTimer(a)
  BY <1>5, DebtQuiet, CallerPointFree DEF ArmDelayTimer
<1> QED
  BY <1>1, <1>2, <1>3, <1>4, <1>5 DEF DispatchStep

LEMMA DebtTimer ==
    ASSUME Typing, Flushers, OnePlunger, Debt, NEW t \in Timers, TimerStep(t)
    PROVE  Debt'
<1> USE DEF Typing, Control, Goto, flushVars, queueVars
<1>1. CASE \E w \in Works : WorkTimerFires(t, w)
  BY <1>1, DebtQuiet, ActorsAssumption, WorksAssumption DEF WorkTimerFires
<1>2. CASE DelayTimerFires(t)
  BY <1>2, DebtQuiet, ActorsAssumption, WorksAssumption DEF DelayTimerFires
<1>3. CASE DelayTimeout(t)
  BY <1>3, DebtQuiet, DispatchFree, CallerPointFree DEF DelayTimeout
<1>4. CASE TimerReturns(t)
  BY <1>4, DebtQuiet, ActorsAssumption, WorksAssumption DEF TimerReturns
<1>5. CASE QueueAdd(t)
  <2>1. arg[t] \in Items /\ arg[t] # Plunger
    BY <1>5, ArgTyping DEF Flushers, FlushAt, QueueAdd, ItemPoints,
       PlungePoints
  <2>2. /\ head' = Append(head, arg[t])
        /\ UNCHANGED <<flushDebt, done, trackList, trackFlushList>>
    BY <1>5, <2>1 DEF QueueAdd
  <2>3. /\ Queued(Plunger)' <=> Queued(Plunger)
        /\ \A i : Ahead(i) => Ahead(i)'
    BY <2>1, <2>2, QueueAppend, AheadAppend
  <2>4. \A h \in Helpers : /\ arg'[h] = Plunger => arg[h] = Plunger
                           /\ pc'[h] = "h_compl" => pc[h] = "h_compl"
    BY <1>5, <2>1, DispatchFree, WorksAssumption, ActorsAssumption DEF QueueAdd
  <2>5. Tracked' = Tracked
    BY <2>2 DEF Tracked
  <2> QED
    BY <2>2, <2>3, <2>4, <2>5 DEF Debt
<1> QED
  BY <1>1, <1>2, <1>3, <1>4, <1>5 DEF TimerStep

LEMMA DebtHelper ==
    ASSUME Typing, Flushers, OnePlunger, Debt, NEW h \in Helpers,
           HelperStep(h)
    PROVE  Debt'
<1> USE DEF Typing, Control, Goto, flushVars, queueVars
<1>1. CASE CalloutNothing(h)
  BY <1>1, DebtQuiet DEF CalloutNothing
<1>2. CASE CalloutTake(h)
  <2>1. /\ head # <<>> /\ head' = Tail(head) /\ Tracked' = Tracked \cup {h}
        /\ UNCHANGED <<done, trackFlushList>>
        /\ \A g \in Helpers \ {h} : pc'[g] = pc[g] /\ arg'[g] = arg[g]
        /\ pc'[h] = "h_clear" /\ arg'[h] = Head(head)
        /\ flushDebt' = IF Head(head) \in flushDebt
                        THEN (flushDebt \ {Head(head)}) \cup {h} ELSE flushDebt
    BY <1>2, ActorsAssumption DEF CalloutTake, Tracked
  <2>2. \A i \in flushDebt' : i = h \/ (i \in flushDebt /\ i # Head(head))
    <3>1. CASE Head(head) \in flushDebt
      <4>1. flushDebt' = (flushDebt \ {Head(head)}) \cup {h}
        BY <2>1, <3>1
      <4> QED BY <4>1
    <3>2. CASE Head(head) \notin flushDebt
      <4>1. flushDebt' = flushDebt
        BY <2>1, <3>2
      <4> QED BY <3>2, <4>1
    <3> QED BY <3>1, <3>2
  <2>3. QueuedOnce(Plunger) /\ Fields
    BY DEF OnePlunger
  <2>4. (Queued(Plunger)' => Queued(Plunger)) /\ Queued(Head(head))
    BY <2>1, <2>3, QueueTail
  <2>5. Queued(Plunger)' => \A i \in flushDebt' : i \in Tracked' \/ Ahead(i)'
    BY <2>1, <2>2, <2>3, <2>4, AheadTail DEF Debt
  <2>6. (\E g \in Helpers : arg'[g] = Plunger) => flushDebt' \subseteq Tracked'
    <3>1. CASE Head(head) = Plunger
      <4>1. \A i \in flushDebt : i \in Tracked
        BY <2>1, <2>3, <2>4, <3>1, AheadFirst DEF Debt
      <4> QED BY <2>1, <2>2, <4>1
    <3>2. CASE Head(head) # Plunger
      BY <2>1, <2>2, <3>2 DEF Debt
    <3> QED BY <3>1, <3>2
  <2>7. ASSUME done \/ \E g \in Helpers : pc'[g] = "h_compl"
        PROVE  flushDebt' \subseteq trackFlushList'
    <3>1. flushDebt \subseteq trackFlushList
      BY <2>1, <2>7 DEF Debt
    <3>2. Head(head) \notin flushDebt
      <4>1. Head(head) \in Items /\ trackFlushList \subseteq Helpers
        BY <2>1, <2>3 DEF Fields
      <4> QED BY <3>1, <4>1, ActorsAssumption
    <3> QED BY <2>1, <3>1, <3>2
  <2> QED BY <2>1, <2>5, <2>6, <2>7 DEF Debt
<1>3. CASE CalloutClear(h)
  BY <1>3, DebtQuiet, ActorsAssumption, WorksAssumption DEF CalloutClear
<1>4. CASE WorkReturns(h)
  BY <1>4, DebtQuiet, ActorsAssumption, WorksAssumption DEF WorkReturns
<1>5. CASE WorkRequeues(h)
  BY <1>5, DebtQuiet, ActorsAssumption, WorksAssumption DEF WorkRequeues, Claim
<1>6. CASE PlungerSplice(h)
  <2>1. /\ Tracked' = Tracked /\ trackFlushList' = Tracked
        /\ UNCHANGED <<head, done, flushDebt, arg>>
        /\ arg[h] = Plunger
    BY <1>6 DEF PlungerSplice, FlushList, Tracked
  <2>2. flushDebt \subseteq Tracked
    BY <2>1 DEF Debt
  <2>3. (Queued(Plunger)' <=> Queued(Plunger)) /\ \A i : Ahead(i)' <=> Ahead(i)
    BY <2>1, QueueSame DEF Ahead
  <2> QED BY <2>1, <2>2, <2>3 DEF Debt
<1>7. CASE PlungerComplete(h)
  <2>1. /\ UNCHANGED <<head, trackList, trackFlushList, flushDebt, arg>>
        /\ pc[h] = "h_compl"
        /\ \A g \in Helpers : pc'[g] = "h_compl" => pc[g] = "h_compl"
    BY <1>7 DEF PlungerComplete
  <2>2. flushDebt \subseteq trackFlushList
    BY <2>1 DEF Debt
  <2>3. (Queued(Plunger)' <=> Queued(Plunger)) /\ \A i : Ahead(i)' <=> Ahead(i)
    BY <2>1, QueueSame DEF Ahead
  <2> QED BY <2>1, <2>2, <2>3 DEF Debt, Tracked
<1>8. CASE CalloutFinish(h)
  <2>1. /\ Tracked' = Tracked \ {h} /\ trackFlushList' = trackFlushList \ {h}
        /\ flushDebt' = flushDebt \ {h} /\ UNCHANGED <<head, done>>
    BY <1>8 DEF CalloutFinish, Tracked
  <2>2. /\ \A g \in Helpers : arg'[g] = Plunger => arg[g] = Plunger
        /\ \A g \in Helpers : pc'[g] = "h_compl" => pc[g] = "h_compl"
    BY <1>8, DispatchFree, WorksAssumption DEF CalloutFinish
  <2>3. (Queued(Plunger)' <=> Queued(Plunger)) /\ \A i : Ahead(i)' <=> Ahead(i)
    BY <2>1, QueueSame DEF Ahead
  <2> QED BY <2>1, <2>2, <2>3 DEF Debt
<1>9. CASE QueueAdd(h)
  <2>1. arg[h] \in Items /\ arg[h] # Plunger
    BY <1>9, ArgTyping DEF Flushers, FlushAt, QueueAdd, ItemPoints,
       PlungePoints
  <2>2. /\ head' = Append(head, arg[h])
        /\ UNCHANGED <<flushDebt, done, trackList, trackFlushList>>
    BY <1>9, <2>1 DEF QueueAdd
  <2>3. /\ Queued(Plunger)' <=> Queued(Plunger)
        /\ \A i : Ahead(i) => Ahead(i)'
    BY <2>1, <2>2, QueueAppend, AheadAppend
  <2>4. \A g \in Helpers : /\ arg'[g] = Plunger => arg[g] = Plunger
                           /\ pc'[g] = "h_compl" => pc[g] = "h_compl"
    BY <1>9, <2>1, DispatchFree, WorksAssumption, ActorsAssumption DEF QueueAdd
  <2>5. Tracked' = Tracked
    BY <2>2 DEF Tracked
  <2> QED
    BY <2>2, <2>3, <2>4, <2>5 DEF Debt
<1>10. CASE TimerAdd(h)
  BY <1>10, DebtQuiet, ActorsAssumption, WorksAssumption DEF TimerAdd
<1> QED
  BY <1>1, <1>2, <1>3, <1>4, <1>5, <1>6, <1>7, <1>8, <1>9, <1>10 DEF
     HelperStep

LEMMA DebtDriver ==
    ASSUME Typing, Flushers, OnePlunger, Debt, NEW d \in Drivers,
           DriverStep(d)
    PROVE  Debt'
<1> USE DEF Typing, Control, Goto, flushVars, queueVars
<1>1. CASE QueueAdd(d)
  <2>1. arg[d] \in Items /\ pc[d] = "q_add"
    BY <1>1, ArgTyping DEF QueueAdd, ItemPoints
  <2>2. /\ head' = Append(head, arg[d])
        /\ UNCHANGED <<done, trackList, trackFlushList>>
        /\ flushDebt' = IF arg[d] = Plunger THEN ToSet(head) \cup Tracked
                                            ELSE flushDebt
    BY <1>1 DEF QueueAdd
  <2>3. \A h \in Helpers : arg'[h] = arg[h] /\ pc'[h] = pc[h]
    BY <1>1, DispatchFree, ActorsAssumption DEF QueueAdd
  <2>4. Tracked' = Tracked
    BY <2>2 DEF Tracked
  <2>5. CASE arg[d] # Plunger
    <3>1. /\ Queued(Plunger)' <=> Queued(Plunger)
          /\ \A i : Ahead(i) => Ahead(i)'
      BY <2>1, <2>2, <2>5, QueueAppend, AheadAppend
    <3> QED BY <2>2, <2>3, <2>4, <2>5, <3>1 DEF Debt
  <2>6. CASE arg[d] = Plunger
    <3>1. ~ PlungerSent /\ ~ done
      BY <2>1, <2>6 DEF Flushers, PlungerSent, OnePlunger
    <3>2. \A h \in Helpers : arg[h] # Plunger
      BY <3>1 DEF OnePlunger, PlungerAt
    <3>3. \A h \in Helpers : pc[h] # "h_compl"
      BY <3>2 DEF Flushers, FlushAt
    <3>4. \A i \in ToSet(head) : Ahead(i)'
      BY <2>1, <2>2, <2>6, AheadAppend
    <3> QED BY <2>2, <2>3, <2>4, <2>6, <3>1, <3>2, <3>3, <3>4 DEF Debt
  <2> QED BY <2>5, <2>6
<1>2. CASE TimerAdd(d)
  BY <1>2, DebtQuiet, ActorsAssumption, WorksAssumption DEF TimerAdd
<1>3. CASE CancelTry(d)
  BY <1>3, DebtQuiet, ActorsAssumption, WorksAssumption DEF CancelTry
<1>4. CASE CancelDelTimer(d)
  BY <1>4, DebtQuiet, ActorsAssumption, WorksAssumption DEF CancelDelTimer
<1>5. CASE CancelRemove(d)
  <2>1. PICK k \in DOMAIN head : head[k] = arg[d] /\ head' = RemoveAt(head, k)
    BY <1>5 DEF CancelRemove
  <2>2. arg[d] # Plunger
    BY <1>5 DEF CancelRemove, Flushers, FlushAt, FlushPoints, EndPoints
  <2>3. /\ flushDebt' = flushDebt \ {arg[d]}
        /\ UNCHANGED <<done, trackList, trackFlushList, arg>>
        /\ \A h \in Helpers : pc'[h] = pc[h]
    BY <1>5, ActorsAssumption DEF CancelRemove, CancelWait, CancelNext
  <2>4. Queued(Plunger)' => Queued(Plunger)
    BY <2>1, QueueRemove DEF OnePlunger
  <2>5. \A i : Ahead(i) /\ i # arg[d] => Ahead(i)'
    BY <2>1, <2>2, AheadRemove
  <2>6. Tracked' = Tracked
    BY <2>3 DEF Tracked
  <2> QED BY <2>3, <2>4, <2>5, <2>6 DEF Debt
<1>6. CASE CancelNotQueued(d)
  BY <1>6, DebtQuiet, ActorsAssumption, WorksAssumption DEF CancelNotQueued,
     CancelWait, CancelNext
<1>7. CASE CancelWoken(d)
  BY <1>7, DebtQuiet, ActorsAssumption, WorksAssumption DEF CancelWoken,
     CancelNext
<1>8. CASE CancelClear(d)
  BY <1>8, DebtQuiet, ActorsAssumption, WorksAssumption DEF CancelClear
<1>9. CASE CancelDelayed(d)
  BY <1>9, DebtQuiet, ActorsAssumption, WorksAssumption DEF CancelDelayed
<1>10. CASE CancelDelayedClear(d)
  BY <1>10, DebtQuiet, ActorsAssumption, WorksAssumption DEF CancelDelayedClear
<1>11. CASE FlushLock(d)
  BY <1>11, DebtQuiet, ActorsAssumption, WorksAssumption DEF FlushLock
<1>12. CASE FlushCompleted(d)
  BY <1>12, DebtQuiet, ActorsAssumption, WorksAssumption DEF FlushCompleted
<1>13. CASE FlushDrain(d)
  BY <1>13, DebtQuiet, ActorsAssumption, WorksAssumption DEF FlushDrain
<1>14. CASE FlushWoken(d)
  BY <1>14, DebtQuiet, ActorsAssumption, WorksAssumption DEF FlushWoken
<1>15. CASE FlushUnlock(d)
  BY <1>15, DebtQuiet, ActorsAssumption, WorksAssumption DEF FlushUnlock
<1>16. CASE DestroyWait(d)
  BY <1>16, DebtQuiet, ActorsAssumption, WorksAssumption DEF DestroyWait
<1>17. CASE DestroyDelTimer(d)
  BY <1>17, DebtQuiet, ActorsAssumption, WorksAssumption DEF DestroyDelTimer
<1>18. CASE DestroyFree(d)
  BY <1>18, DebtQuiet, ActorsAssumption, WorksAssumption DEF DestroyFree
<1> QED
  BY <1>1, <1>2, <1>3, <1>4, <1>5, <1>6, <1>7, <1>8, <1>9, <1>10, <1>11,
     <1>12, <1>13, <1>14, <1>15, <1>16, <1>17, <1>18 DEF DriverStep

LEMMA DebtStarts ==
    ASSUME Typing, Flushers, OnePlunger, Debt, NEW d \in Drivers,
           DriverStarts(d)
    PROVE  Debt'
<1> USE DEF Typing, Control, Goto, flushVars, queueVars
<1>0. pc[d] = "idle"
  BY DEF DriverStarts
<1>1. CASE \E w \in Works : StartQueue(d, w)
  BY <1>1, DebtQuiet, ActorsAssumption, WorksAssumption, <1>0 DEF StartQueue,
     Claim
<1>2. CASE \E w \in Works : StartQueueDelayed(d, w)
  BY <1>2, DebtQuiet, ActorsAssumption, WorksAssumption, <1>0 DEF
     StartQueueDelayed, Claim
<1>3. CASE \E w \in Works : StartCancel(d, w)
  BY <1>3, DebtQuiet, ActorsAssumption, WorksAssumption, <1>0 DEF StartCancel,
     Begin
<1>4. CASE StartFlush(d)
  BY <1>4, DebtQuiet, ActorsAssumption, WorksAssumption, <1>0 DEF StartFlush
<1>5. CASE StartDestroy(d)
  BY <1>5, DebtQuiet, ActorsAssumption, WorksAssumption, <1>0 DEF StartDestroy
<1> QED
  BY <1>1, <1>2, <1>3, <1>4, <1>5 DEF DriverStarts
-----------------------------------------------------------------------------
(* The theorems                                                            *)

Flush == Owner /\ Flushers /\ OnePlunger /\ Debt

LEMMA FlushInit == Init => Flush
<1> SUFFICES ASSUME Init PROVE Flush
  OBVIOUS
<1>1. \A i : ~ Queued(i) /\ QueuedOnce(i)
  BY DEF Init, Queued, QueuedOnce, Contains
<1>2. Flushers
  BY WorksAssumption, ActorsAssumption
     DEF Init, Flushers, FlushAt, FlushPoints, EndPoints, PlungePoints
<1>3. OnePlunger /\ Debt
  BY <1>1, WorksAssumption DEF Init, OnePlunger, PlungerAt, Debt
<1> QED BY <1>2, <1>3, OwnerInit DEF Flush

LEMMA FlushNext ==
    ASSUME Flush, [Next]_vars
    PROVE  Flush'
<1> USE DEF Flush
<1>0. Owner' /\ Typing
  BY OwnerNext DEF Owner, Core
<1>1. ASSUME NEW a \in Actors, DispatchStep(a) PROVE Flush'
  BY <1>0, <1>1, FlushersDispatch, PlungerDispatch, DebtDispatch
<1>2. ASSUME NEW t \in Timers, TimerStep(t) PROVE Flush'
  BY <1>0, <1>2, FlushersTimer, PlungerTimer, DebtTimer
<1>3. ASSUME NEW h \in Helpers, HelperStep(h) PROVE Flush'
  BY <1>0, <1>3, FlushersHelper, PlungerHelper, DebtHelper
<1>4. ASSUME NEW d \in Drivers, DriverStep(d) PROVE Flush'
  BY <1>0, <1>4, FlushersDriver, PlungerDriver, DebtDriver
<1>5. ASSUME NEW d \in Drivers, DriverStarts(d) PROVE Flush'
  BY <1>0, <1>5, FlushersStarts, PlungerStarts, DebtStarts
<1>6. ASSUME pc' = pc, arg' = arg, UNCHANGED queueVars, UNCHANGED flushVars
      PROVE  Flush'
  <2> USE <1>6 DEF queueVars, flushVars
  <2>1. Flushers'
    BY FlushersSame
  <2>2. (Queued(Plunger)' <=> Queued(Plunger)) /\ QueuedOnce(Plunger)'
    BY QueueSame DEF OnePlunger
  <2>3. OnePlunger'
    BY <2>2 DEF OnePlunger, PlungerAt, PlungerSent
  <2>4. Debt'
    BY DebtQuiet
  <2> QED BY <1>0, <2>1, <2>3, <2>4
<1>7. ASSUME NEW d \in Drivers, SpuriousWakeup(d) PROVE Flush'
  BY <1>6, <1>7 DEF SpuriousWakeup
<1>8. CASE UNCHANGED vars
  BY <1>6, <1>8 DEF vars
<1> QED
  BY <1>1, <1>2, <1>3, <1>4, <1>5, <1>7, <1>8 DEF Next

(* The way of the plunger, and what its flush waits for, in every          *)
(* reachable state.                                                        *)
THEOREM FlushInvariant == Spec => []Flush
BY FlushInit, FlushNext, PTL DEF Spec

(* flush_workqueue returns only when every item that was queued or         *)
(* executing when the plunger went in has run to completion or was         *)
(* cancelled, whatever was queued behind it.                               *)
THEOREM FlushGuaranteeHolds == Spec => []FlushGuarantee
<1>1. Flush => FlushGuarantee
  BY DEF Flush, OnePlunger, Debt, FlushGuarantee
<1> QED BY <1>1, FlushInvariant, PTL

(* The plunger does not outlive the stack frame of its flusher: as long as *)
(* it is queued or a helper has it, the owner of flushMutex is inside      *)
(* flush_workqueue.                                                        *)
THEOREM PlungerAliveHolds == Spec => []PlungerAlive
<1>1. Flush => PlungerAlive
  <2> SUFFICES ASSUME Flush, Queued(Plunger) \/ \E h \in Helpers : arg[h] = Plunger
               PROVE  /\ flushOwner # None
                      /\ pc[flushOwner] \notin {"idle", "f_lock", "f_unlock"}
    BY DEF PlungerAlive
  <2>1. PlungerSent
    BY DEF Flush, OnePlunger, PlungerAt
  <2>2. flushOwner \in Drivers /\ pc[flushOwner] \in FlushPoints
    BY <2>1 DEF Flush, Owner, Core, Typing, Fields, PlungerSent, Flushers,
       FlushAt
  <2>3. pc[flushOwner] # "f_unlock"
    BY <2>2 DEF Flush, OnePlunger, PlungerAt
  <2> QED BY <2>1, <2>2, <2>3 DEF PlungerSent, FlushPoints, EndPoints
<1> QED BY <1>1, FlushInvariant, PTL
=============================================================================
