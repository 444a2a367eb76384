----------------------------- MODULE RcuProofs -----------------------------
(***************************************************************************)
(* Proofs about Rcu, for any finite set of read-side critical sections and *)
(* any callers, heads, timer contexts, Rearm and Ops.                      *)
(***************************************************************************)
EXTENDS Rcu, FiniteSetTheorems, SequenceTheorems, TLAPS

(* Who may be where, and what an actor that is somewhere knows.            *)
Control ==
    /\ \A r \in Readers : pc[r] \in {"idle", "u_qlen", "u_lock"}
    /\ \A r \in inside : pc[r] = "idle"
    /\ \A a \in Callers \cup Contexts : pc[a] \notin {"u_qlen", "u_lock"}
    /\ \A a \in Callers \cup Contexts : pc[a] = "b_func" => first[a] \in AllHeads
    /\ \A c \in Callers : pc[c] \notin {"m_lock", "m_mod"}
    /\ \A a \in Contexts : pc[a] \notin {"s_wait", "x_gen", "x_qlen", "x_kill", "x_del"}
    /\ pc[Tasklet] \notin {"m_lock", "m_mod"}

(* During the unloading nobody reads, and only the contexts and the        *)
(* unloader run.                                                           *)
Unloading ==
    /\ \A c \in Callers : pc[c] \in {"b_pop", "b_func", "x_gen", "x_qlen",
                                     "x_kill", "x_del"} => unloader = c
    /\ unloader # None =>
          /\ inside = {}
          /\ \A r \in Readers : pc[r] = "idle"
          /\ \A c \in Callers \ {unloader} : pc[c] = "idle"

(* A head is queued once or handed to one actor; the head on a caller's    *)
(* stack is in flight only while synchronize_rcu waits.                    *)
Unique ==
    /\ \A j, k \in DOMAIN list : list[j] = list[k] => j = k
    /\ \A a \in Actors : pc[a] = "b_func" => ~ Listed(first[a])
    /\ \A a, b \in Actors : pc[a] = "b_func" /\ pc[b] = "b_func"
                            /\ first[a] = first[b] => a = b
    /\ \A c \in Callers : InFlight(c) =>
          /\ c \notin completed /\ unloader = None /\ first[c] = c
          /\ pc[c] \in {"k_sched", "k_timer", "s_wait"}

(* Only callbacks of the current generation have sections to wait for.     *)
Waiting ==
    /\ \A h \in AllHeads : waitFor[h] \subseteq inside
    /\ \A k \in DOMAIN list : list[k] \notin fresh => waitFor[list[k]] = {}
    /\ \A a \in Actors : pc[a] = "b_func" => waitFor[first[a]] = {}
    /\ \A c \in completed : waitFor[c] = {}

(* The list is in the order of the generations.                            *)
Ordered ==
    \A j, k \in DOMAIN list : j < k /\ list[j] \in fresh => list[k] \in fresh

(* Once the unloader has advanced the generation, every callback has aged. *)
Pushed == unloader # None /\ pc[unloader] # "x_gen" => fresh = {}

(* During the unloading somebody will still look at the list.              *)
UnloadWatch ==
    unloader # None /\ list # <<>> =>
        \/ sched
        \/ \E a \in Actors : pc[a] \in {"k_sched", "b_pop", "b_func", "x_gen", "x_qlen"}

-----------------------------------------------------------------------------
(* The types                                                               *)

(* nestingLevel is zero exactly when nobody is inside.                     *)
LEMMA QuiescentMeans ==
  ASSUME TypeOK
  PROVE  /\ Quiescent <=> inside = {}
         /\ IsFiniteSet(inside)
         /\ nestingLevel \in Nat
<1>1. IsFiniteSet(inside)
  BY FS_Subset, RcuAssumption DEF TypeOK
<1> QED BY <1>1, FS_EmptySet, FS_CardinalityType DEF TypeOK, Quiescent

(* Every step keeps the types.                                            *)
LEMMA TypeStep ==
  ASSUME TypeOK, [Next]_vars
  PROVE  TypeOK'
<1> USE RcuAssumption DEF TypeOK, Goto, Points, Actors, AllHeads, Contexts
<1>1. ASSUME NEW r \in Readers, ReadLock(r) PROVE TypeOK'
  <2>1. Cardinality(inside \cup {r}) = nestingLevel + 1
    BY <1>1, QuiescentMeans, FS_AddElement DEF ReadLock
  <2> QED BY <1>1, <2>1 DEF ReadLock, readVars, queueVars, wakeVars, lifeVars
<1>2. ASSUME NEW r \in Readers, ReadUnlock(r) PROVE TypeOK'
  <2>1. Cardinality(inside \ {r}) = nestingLevel - 1
    BY <1>2, QuiescentMeans, FS_RemoveElement DEF ReadUnlock
  <2> QED BY <1>2, <2>1 DEF ReadUnlock, LastOut, readVars, queueVars, wakeVars, lifeVars
<1>3. ASSUME NEW r \in Readers, UnlockLooks(r) PROVE TypeOK'
  BY <1>3 DEF UnlockLooks, readVars, queueVars, wakeVars, lifeVars
<1>4. ASSUME NEW r \in Readers, UnlockMisses(r) PROVE TypeOK'
  BY <1>4 DEF UnlockMisses, readVars, queueVars, wakeVars, lifeVars
<1>5. ASSUME NEW r \in Readers, UnlockAdvances(r) PROVE TypeOK'
  BY <1>5 DEF UnlockAdvances, Quiescent, readVars, queueVars, wakeVars, lifeVars
<1>6. ASSUME NEW c \in Callers, StartSynchronize(c) PROVE TypeOK'
  BY <1>6 DEF StartSynchronize, CallRcu, Quiescent, readVars, queueVars, wakeVars, lifeVars
<1>7. ASSUME NEW c \in Callers, StartCleanup(c) PROVE TypeOK'
  BY <1>7 DEF StartCleanup, readVars, queueVars, wakeVars, lifeVars
<1>8. ASSUME NEW c \in Callers, SynchronizeReturns(c) PROVE TypeOK'
  BY <1>8 DEF SynchronizeReturns, readVars, queueVars, wakeVars, lifeVars
<1>9. ASSUME NEW c \in Callers, CleanupAdvances(c) PROVE TypeOK'
  BY <1>9 DEF CleanupAdvances, readVars, queueVars, wakeVars, lifeVars
<1>10. ASSUME NEW c \in Callers, CleanupLooks(c) PROVE TypeOK'
  BY <1>10 DEF CleanupLooks, LeftOver, readVars, queueVars, wakeVars, lifeVars
<1>11. ASSUME NEW c \in Callers, CleanupKills(c) PROVE TypeOK'
  BY <1>11 DEF CleanupKills, readVars, queueVars, wakeVars, lifeVars
<1>12. ASSUME NEW c \in Callers, CleanupDeletes(c) PROVE TypeOK'
  BY <1>12 DEF CleanupDeletes, readVars, queueVars, wakeVars, lifeVars
<1>13. ASSUME NEW c \in Callers, NEW h \in Heads, StartCall(c, h)
     PROVE  TypeOK'
  BY <1>13 DEF StartCall, CallRcu, Quiescent, InFlight, readVars, queueVars, wakeVars, lifeVars
<1>14. ASSUME NEW t \in Timers, TimerFires(t) PROVE TypeOK'
  BY <1>14 DEF TimerFires, readVars, queueVars, wakeVars, lifeVars
<1>15. ASSUME NEW t \in Timers, TimerLooks(t) PROVE TypeOK'
  BY <1>15 DEF TimerLooks, Quiescent, readVars, queueVars, wakeVars, lifeVars
<1>16. ASSUME NEW t \in Timers, TimerSetsTimer(t) PROVE TypeOK'
  BY <1>16 DEF TimerSetsTimer, readVars, queueVars, wakeVars, lifeVars
<1>17. ASSUME NEW a \in Callers \cup Contexts, CallSchedules(a) PROVE TypeOK'
  BY <1>17 DEF CallSchedules, CallerPoint, readVars, queueVars, wakeVars, lifeVars
<1>18. ASSUME NEW a \in Callers \cup Contexts, CallSetsTimer(a) PROVE TypeOK'
  BY <1>18 DEF CallSetsTimer, CallerPoint, DelayTimerSet, readVars, queueVars, wakeVars, lifeVars
<1>19. ASSUME NEW a \in Callers \cup Contexts, Pop(a) PROVE TypeOK'
  BY <1>19 DEF Pop, CanPop, Aged, readVars, queueVars, wakeVars, lifeVars
<1>20. ASSUME NEW a \in Callers \cup Contexts, PopNothing(a) PROVE TypeOK'
  BY <1>20 DEF PopNothing, CanPop, Aged, readVars, queueVars, wakeVars, lifeVars
<1>21. ASSUME NEW a \in Callers \cup Contexts, FuncReturns(a) PROVE TypeOK'
  BY <1>21 DEF FuncReturns, readVars, queueVars, wakeVars, lifeVars
<1>22. ASSUME NEW a \in Callers \cup Contexts, FuncRequeues(a) PROVE TypeOK'
  BY <1>22 DEF FuncRequeues, CallRcu, Quiescent, readVars, queueVars, wakeVars, lifeVars
<1>23. CASE TaskletRuns
  BY <1>23 DEF TaskletRuns, readVars, queueVars, wakeVars, lifeVars
<1>24. CASE UNCHANGED vars
  BY <1>24 DEF vars, readVars, queueVars, wakeVars, lifeVars
<1> QED
  BY <1>1, <1>2, <1>3, <1>4, <1>5, <1>6, <1>7, <1>8, <1>9, <1>10, <1>11,
     <1>12, <1>13, <1>14, <1>15, <1>16, <1>17, <1>18, <1>19, <1>20, <1>21,
     <1>22, <1>23, <1>24
     DEF Next, ReaderStep, CallbackStep, TimerStep, CallerStep, CallerStarts

(* Every step keeps actors where they may be.                              *)
LEMMA ControlStep ==
  ASSUME TypeOK, Control, [Next]_vars
  PROVE  Control'
<1> USE RcuAssumption DEF Control, TypeOK, Goto, Points, Actors, AllHeads, Contexts
<1>1. ASSUME NEW r \in Readers, ReadLock(r) PROVE Control'
  BY <1>1 DEF ReadLock, readVars, queueVars, wakeVars, lifeVars
<1>2. ASSUME NEW r \in Readers, ReadUnlock(r) PROVE Control'
  BY <1>2 DEF ReadUnlock, LastOut, readVars, queueVars, wakeVars, lifeVars
<1>3. ASSUME NEW r \in Readers, UnlockLooks(r) PROVE Control'
  BY <1>3 DEF UnlockLooks, readVars, queueVars, wakeVars, lifeVars
<1>4. ASSUME NEW r \in Readers, UnlockMisses(r) PROVE Control'
  BY <1>4 DEF UnlockMisses, readVars, queueVars, wakeVars, lifeVars
<1>5. ASSUME NEW r \in Readers, UnlockAdvances(r) PROVE Control'
  BY <1>5 DEF UnlockAdvances, Quiescent, readVars, queueVars, wakeVars, lifeVars
<1>6. ASSUME NEW c \in Callers, StartSynchronize(c) PROVE Control'
  BY <1>6 DEF StartSynchronize, CallRcu, Quiescent, readVars, queueVars, wakeVars, lifeVars
<1>7. ASSUME NEW c \in Callers, StartCleanup(c) PROVE Control'
  BY <1>7 DEF StartCleanup, readVars, queueVars, wakeVars, lifeVars
<1>8. ASSUME NEW c \in Callers, SynchronizeReturns(c) PROVE Control'
  BY <1>8 DEF SynchronizeReturns, readVars, queueVars, wakeVars, lifeVars
<1>9. ASSUME NEW c \in Callers, CleanupAdvances(c) PROVE Control'
  BY <1>9 DEF CleanupAdvances, readVars, queueVars, wakeVars, lifeVars
<1>10. ASSUME NEW c \in Callers, CleanupLooks(c) PROVE Control'
  BY <1>10 DEF CleanupLooks, LeftOver, readVars, queueVars, wakeVars, lifeVars
<1>11. ASSUME NEW c \in Callers, CleanupKills(c) PROVE Control'
  BY <1>11 DEF CleanupKills, readVars, queueVars, wakeVars, lifeVars
<1>12. ASSUME NEW c \in Callers, CleanupDeletes(c) PROVE Control'
  BY <1>12 DEF CleanupDeletes, readVars, queueVars, wakeVars, lifeVars
<1>13. ASSUME NEW c \in Callers, NEW h \in Heads, StartCall(c, h)
     PROVE  Control'
  BY <1>13 DEF StartCall, CallRcu, Quiescent, InFlight, readVars, queueVars, wakeVars, lifeVars
<1>14. ASSUME NEW t \in Timers, TimerFires(t) PROVE Control'
  BY <1>14 DEF TimerFires, readVars, queueVars, wakeVars, lifeVars
<1>15. ASSUME NEW t \in Timers, TimerLooks(t) PROVE Control'
  BY <1>15 DEF TimerLooks, Quiescent, readVars, queueVars, wakeVars, lifeVars
<1>16. ASSUME NEW t \in Timers, TimerSetsTimer(t) PROVE Control'
  BY <1>16 DEF TimerSetsTimer, readVars, queueVars, wakeVars, lifeVars
<1>17. ASSUME NEW a \in Callers \cup Contexts, CallSchedules(a) PROVE Control'
  BY <1>17 DEF CallSchedules, CallerPoint, readVars, queueVars, wakeVars, lifeVars
<1>18. ASSUME NEW a \in Callers \cup Contexts, CallSetsTimer(a) PROVE Control'
  BY <1>18 DEF CallSetsTimer, CallerPoint, DelayTimerSet, readVars, queueVars, wakeVars, lifeVars
<1>19. ASSUME NEW a \in Callers \cup Contexts, Pop(a) PROVE Control'
  BY <1>19 DEF Pop, CanPop, Aged, readVars, queueVars, wakeVars, lifeVars
<1>20. ASSUME NEW a \in Callers \cup Contexts, PopNothing(a) PROVE Control'
  BY <1>20 DEF PopNothing, CanPop, Aged, readVars, queueVars, wakeVars, lifeVars
<1>21. ASSUME NEW a \in Callers \cup Contexts, FuncReturns(a) PROVE Control'
  BY <1>21 DEF FuncReturns, readVars, queueVars, wakeVars, lifeVars
<1>22. ASSUME NEW a \in Callers \cup Contexts, FuncRequeues(a) PROVE Control'
  BY <1>22 DEF FuncRequeues, CallRcu, Quiescent, readVars, queueVars, wakeVars, lifeVars
<1>23. CASE TaskletRuns
  BY <1>23 DEF TaskletRuns, readVars, queueVars, wakeVars, lifeVars
<1>24. CASE UNCHANGED vars
  BY <1>24 DEF vars, readVars, queueVars, wakeVars, lifeVars
<1> QED
  BY <1>1, <1>2, <1>3, <1>4, <1>5, <1>6, <1>7, <1>8, <1>9, <1>10, <1>11,
     <1>12, <1>13, <1>14, <1>15, <1>16, <1>17, <1>18, <1>19, <1>20, <1>21,
     <1>22, <1>23, <1>24
     DEF Next, ReaderStep, CallbackStep, TimerStep, CallerStep, CallerStarts

(* Every step respects the unloading.                                      *)
LEMMA UnloadingStep ==
  ASSUME TypeOK, Control, Unloading, [Next]_vars
  PROVE  Unloading'
<1> USE RcuAssumption DEF Control, Unloading, TypeOK, Goto, Points, Actors, AllHeads, Contexts
<1>1. ASSUME NEW r \in Readers, ReadLock(r) PROVE Unloading'
  BY <1>1 DEF ReadLock, readVars, queueVars, wakeVars, lifeVars
<1>2. ASSUME NEW r \in Readers, ReadUnlock(r) PROVE Unloading'
  BY <1>2 DEF ReadUnlock, LastOut, readVars, queueVars, wakeVars, lifeVars
<1>3. ASSUME NEW r \in Readers, UnlockLooks(r) PROVE Unloading'
  BY <1>3 DEF UnlockLooks, readVars, queueVars, wakeVars, lifeVars
<1>4. ASSUME NEW r \in Readers, UnlockMisses(r) PROVE Unloading'
  BY <1>4 DEF UnlockMisses, readVars, queueVars, wakeVars, lifeVars
<1>5. ASSUME NEW r \in Readers, UnlockAdvances(r) PROVE Unloading'
  BY <1>5 DEF UnlockAdvances, Quiescent, readVars, queueVars, wakeVars, lifeVars
<1>6. ASSUME NEW c \in Callers, StartSynchronize(c) PROVE Unloading'
  BY <1>6 DEF StartSynchronize, CallRcu, Quiescent, readVars, queueVars, wakeVars, lifeVars
<1>7. ASSUME NEW c \in Callers, StartCleanup(c) PROVE Unloading'
  BY <1>7 DEF StartCleanup, readVars, queueVars, wakeVars, lifeVars
<1>8. ASSUME NEW c \in Callers, SynchronizeReturns(c) PROVE Unloading'
  BY <1>8 DEF SynchronizeReturns, readVars, queueVars, wakeVars, lifeVars
<1>9. ASSUME NEW c \in Callers, CleanupAdvances(c) PROVE Unloading'
  BY <1>9 DEF CleanupAdvances, readVars, queueVars, wakeVars, lifeVars
<1>10. ASSUME NEW c \in Callers, CleanupLooks(c) PROVE Unloading'
  BY <1>10 DEF CleanupLooks, LeftOver, readVars, queueVars, wakeVars, lifeVars
<1>11. ASSUME NEW c \in Callers, CleanupKills(c) PROVE Unloading'
  BY <1>11 DEF CleanupKills, readVars, queueVars, wakeVars, lifeVars
<1>12. ASSUME NEW c \in Callers, CleanupDeletes(c) PROVE Unloading'
  BY <1>12 DEF CleanupDeletes, readVars, queueVars, wakeVars, lifeVars
<1>13. ASSUME NEW c \in Callers, NEW h \in Heads, StartCall(c, h)
     PROVE  Unloading'
  BY <1>13 DEF StartCall, CallRcu, Quiescent, InFlight, readVars, queueVars, wakeVars, lifeVars
<1>14. ASSUME NEW t \in Timers, TimerFires(t) PROVE Unloading'
  BY <1>14 DEF TimerFires, readVars, queueVars, wakeVars, lifeVars
<1>15. ASSUME NEW t \in Timers, TimerLooks(t) PROVE Unloading'
  BY <1>15 DEF TimerLooks, Quiescent, readVars, queueVars, wakeVars, lifeVars
<1>16. ASSUME NEW t \in Timers, TimerSetsTimer(t) PROVE Unloading'
  BY <1>16 DEF TimerSetsTimer, readVars, queueVars, wakeVars, lifeVars
<1>17. ASSUME NEW a \in Callers \cup Contexts, CallSchedules(a) PROVE Unloading'
  BY <1>17 DEF CallSchedules, CallerPoint, readVars, queueVars, wakeVars, lifeVars
<1>18. ASSUME NEW a \in Callers \cup Contexts, CallSetsTimer(a) PROVE Unloading'
  BY <1>18 DEF CallSetsTimer, CallerPoint, DelayTimerSet, readVars, queueVars, wakeVars, lifeVars
<1>19. ASSUME NEW a \in Callers \cup Contexts, Pop(a) PROVE Unloading'
  BY <1>19 DEF Pop, CanPop, Aged, readVars, queueVars, wakeVars, lifeVars
<1>20. ASSUME NEW a \in Callers \cup Contexts, PopNothing(a) PROVE Unloading'
  BY <1>20 DEF PopNothing, CanPop, Aged, readVars, queueVars, wakeVars, lifeVars
<1>21. ASSUME NEW a \in Callers \cup Contexts, FuncReturns(a) PROVE Unloading'
  BY <1>21 DEF FuncReturns, readVars, queueVars, wakeVars, lifeVars
<1>22. ASSUME NEW a \in Callers \cup Contexts, FuncRequeues(a) PROVE Unloading'
  BY <1>22 DEF FuncRequeues, CallRcu, Quiescent, readVars, queueVars, wakeVars, lifeVars
<1>23. CASE TaskletRuns
  BY <1>23 DEF TaskletRuns, readVars, queueVars, wakeVars, lifeVars
<1>24. CASE UNCHANGED vars
  BY <1>24 DEF vars, readVars, queueVars, wakeVars, lifeVars
<1> QED
  BY <1>1, <1>2, <1>3, <1>4, <1>5, <1>6, <1>7, <1>8, <1>9, <1>10, <1>11,
     <1>12, <1>13, <1>14, <1>15, <1>16, <1>17, <1>18, <1>19, <1>20, <1>21,
     <1>22, <1>23, <1>24
     DEF Next, ReaderStep, CallbackStep, TimerStep, CallerStep, CallerStarts

(* Every step keeps a head in one place.                                   *)
LEMMA UniqueStep ==
  ASSUME TypeOK, Control, Unloading, Unique, [Next]_vars
  PROVE  Unique'
<1> USE RcuAssumption DEF Control, Unloading, Unique, Listed, InFlight, TypeOK, Goto, Points,
        Actors, AllHeads, Contexts
<1>1. ASSUME NEW r \in Readers, ReadLock(r) PROVE Unique'
  BY <1>1 DEF ReadLock, readVars, queueVars, wakeVars, lifeVars
<1>2. ASSUME NEW r \in Readers, ReadUnlock(r) PROVE Unique'
  BY <1>2 DEF ReadUnlock, LastOut, readVars, queueVars, wakeVars, lifeVars
<1>3. ASSUME NEW r \in Readers, UnlockLooks(r) PROVE Unique'
  BY <1>3 DEF UnlockLooks, readVars, queueVars, wakeVars, lifeVars
<1>4. ASSUME NEW r \in Readers, UnlockMisses(r) PROVE Unique'
  BY <1>4 DEF UnlockMisses, readVars, queueVars, wakeVars, lifeVars
<1>5. ASSUME NEW r \in Readers, UnlockAdvances(r) PROVE Unique'
  BY <1>5 DEF UnlockAdvances, Quiescent, readVars, queueVars, wakeVars, lifeVars
<1>6. ASSUME NEW c \in Callers, StartSynchronize(c) PROVE Unique'
  BY <1>6 DEF StartSynchronize, CallRcu, Quiescent, readVars, queueVars, wakeVars, lifeVars
<1>7. ASSUME NEW c \in Callers, StartCleanup(c) PROVE Unique'
  BY <1>7 DEF StartCleanup, readVars, queueVars, wakeVars, lifeVars
<1>8. ASSUME NEW c \in Callers, SynchronizeReturns(c) PROVE Unique'
  BY <1>8 DEF SynchronizeReturns, readVars, queueVars, wakeVars, lifeVars
<1>9. ASSUME NEW c \in Callers, CleanupAdvances(c) PROVE Unique'
  BY <1>9 DEF CleanupAdvances, readVars, queueVars, wakeVars, lifeVars
<1>10. ASSUME NEW c \in Callers, CleanupLooks(c) PROVE Unique'
  BY <1>10 DEF CleanupLooks, LeftOver, readVars, queueVars, wakeVars, lifeVars
<1>11. ASSUME NEW c \in Callers, CleanupKills(c) PROVE Unique'
  BY <1>11 DEF CleanupKills, readVars, queueVars, wakeVars, lifeVars
<1>12. ASSUME NEW c \in Callers, CleanupDeletes(c) PROVE Unique'
  BY <1>12 DEF CleanupDeletes, readVars, queueVars, wakeVars, lifeVars
<1>13. ASSUME NEW c \in Callers, NEW h \in Heads, StartCall(c, h)
     PROVE  Unique'
  BY <1>13 DEF StartCall, CallRcu, Quiescent, InFlight, readVars, queueVars, wakeVars, lifeVars
<1>14. ASSUME NEW t \in Timers, TimerFires(t) PROVE Unique'
  BY <1>14 DEF TimerFires, readVars, queueVars, wakeVars, lifeVars
<1>15. ASSUME NEW t \in Timers, TimerLooks(t) PROVE Unique'
  BY <1>15 DEF TimerLooks, Quiescent, readVars, queueVars, wakeVars, lifeVars
<1>16. ASSUME NEW t \in Timers, TimerSetsTimer(t) PROVE Unique'
  BY <1>16 DEF TimerSetsTimer, readVars, queueVars, wakeVars, lifeVars
<1>17. ASSUME NEW a \in Callers \cup Contexts, CallSchedules(a) PROVE Unique'
  BY <1>17 DEF CallSchedules, CallerPoint, readVars, queueVars, wakeVars, lifeVars
<1>18. ASSUME NEW a \in Callers \cup Contexts, CallSetsTimer(a) PROVE Unique'
  BY <1>18 DEF CallSetsTimer, CallerPoint, DelayTimerSet, readVars, queueVars, wakeVars, lifeVars
<1>19. ASSUME NEW a \in Callers \cup Contexts, Pop(a) PROVE Unique'
  BY <1>19 DEF Pop, CanPop, Aged, readVars, queueVars, wakeVars, lifeVars
<1>20. ASSUME NEW a \in Callers \cup Contexts, PopNothing(a) PROVE Unique'
  BY <1>20 DEF PopNothing, CanPop, Aged, readVars, queueVars, wakeVars, lifeVars
<1>21. ASSUME NEW a \in Callers \cup Contexts, FuncReturns(a) PROVE Unique'
  BY <1>21 DEF FuncReturns, readVars, queueVars, wakeVars, lifeVars
<1>22. ASSUME NEW a \in Callers \cup Contexts, FuncRequeues(a) PROVE Unique'
  BY <1>22 DEF FuncRequeues, CallRcu, Quiescent, readVars, queueVars, wakeVars, lifeVars
<1>23. CASE TaskletRuns
  BY <1>23 DEF TaskletRuns, readVars, queueVars, wakeVars, lifeVars
<1>24. CASE UNCHANGED vars
  BY <1>24 DEF vars, readVars, queueVars, wakeVars, lifeVars
<1> QED
  BY <1>1, <1>2, <1>3, <1>4, <1>5, <1>6, <1>7, <1>8, <1>9, <1>10, <1>11,
     <1>12, <1>13, <1>14, <1>15, <1>16, <1>17, <1>18, <1>19, <1>20, <1>21,
     <1>22, <1>23, <1>24
     DEF Next, ReaderStep, CallbackStep, TimerStep, CallerStep, CallerStarts

(* Every step keeps what the grace period rests on.                        *)
LEMMA WaitingStep ==
  ASSUME TypeOK, Control, Unloading, Unique, Waiting, [Next]_vars
  PROVE  Waiting'
<1> USE RcuAssumption, QuiescentMeans DEF Control, Unloading, Unique, Listed, InFlight, Waiting, TypeOK, Goto,
        Points, Actors, AllHeads, Contexts
<1>1. ASSUME NEW r \in Readers, ReadLock(r) PROVE Waiting'
  BY <1>1 DEF ReadLock, readVars, queueVars, wakeVars, lifeVars
<1>2. ASSUME NEW r \in Readers, ReadUnlock(r) PROVE Waiting'
  BY <1>2 DEF ReadUnlock, LastOut, readVars, queueVars, wakeVars, lifeVars
<1>3. ASSUME NEW r \in Readers, UnlockLooks(r) PROVE Waiting'
  BY <1>3 DEF UnlockLooks, readVars, queueVars, wakeVars, lifeVars
<1>4. ASSUME NEW r \in Readers, UnlockMisses(r) PROVE Waiting'
  BY <1>4 DEF UnlockMisses, readVars, queueVars, wakeVars, lifeVars
<1>5. ASSUME NEW r \in Readers, UnlockAdvances(r) PROVE Waiting'
  BY <1>5 DEF UnlockAdvances, readVars, queueVars, wakeVars, lifeVars
<1>6. ASSUME NEW c \in Callers, StartSynchronize(c) PROVE Waiting'
  BY <1>6 DEF StartSynchronize, CallRcu, readVars, queueVars, wakeVars, lifeVars
<1>7. ASSUME NEW c \in Callers, StartCleanup(c) PROVE Waiting'
  BY <1>7 DEF StartCleanup, readVars, queueVars, wakeVars, lifeVars
<1>8. ASSUME NEW c \in Callers, SynchronizeReturns(c) PROVE Waiting'
  BY <1>8 DEF SynchronizeReturns, readVars, queueVars, wakeVars, lifeVars
<1>9. ASSUME NEW c \in Callers, CleanupAdvances(c) PROVE Waiting'
  BY <1>9 DEF CleanupAdvances, readVars, queueVars, wakeVars, lifeVars
<1>10. ASSUME NEW c \in Callers, CleanupLooks(c) PROVE Waiting'
  BY <1>10 DEF CleanupLooks, LeftOver, readVars, queueVars, wakeVars, lifeVars
<1>11. ASSUME NEW c \in Callers, CleanupKills(c) PROVE Waiting'
  BY <1>11 DEF CleanupKills, readVars, queueVars, wakeVars, lifeVars
<1>12. ASSUME NEW c \in Callers, CleanupDeletes(c) PROVE Waiting'
  BY <1>12 DEF CleanupDeletes, readVars, queueVars, wakeVars, lifeVars
<1>13. ASSUME NEW c \in Callers, NEW h \in Heads, StartCall(c, h)
     PROVE  Waiting'
  BY <1>13 DEF StartCall, CallRcu, InFlight, readVars, queueVars, wakeVars, lifeVars
<1>14. ASSUME NEW t \in Timers, TimerFires(t) PROVE Waiting'
  BY <1>14 DEF TimerFires, readVars, queueVars, wakeVars, lifeVars
<1>15. ASSUME NEW t \in Timers, TimerLooks(t) PROVE Waiting'
  BY <1>15 DEF TimerLooks, readVars, queueVars, wakeVars, lifeVars
<1>16. ASSUME NEW t \in Timers, TimerSetsTimer(t) PROVE Waiting'
  BY <1>16 DEF TimerSetsTimer, readVars, queueVars, wakeVars, lifeVars
<1>17. ASSUME NEW a \in Callers \cup Contexts, CallSchedules(a) PROVE Waiting'
  BY <1>17 DEF CallSchedules, CallerPoint, readVars, queueVars, wakeVars, lifeVars
<1>18. ASSUME NEW a \in Callers \cup Contexts, CallSetsTimer(a) PROVE Waiting'
  BY <1>18 DEF CallSetsTimer, CallerPoint, DelayTimerSet, readVars, queueVars, wakeVars, lifeVars
<1>19. ASSUME NEW a \in Callers \cup Contexts, Pop(a) PROVE Waiting'
  BY <1>19 DEF Pop, CanPop, Aged, readVars, queueVars, wakeVars, lifeVars
<1>20. ASSUME NEW a \in Callers \cup Contexts, PopNothing(a) PROVE Waiting'
  BY <1>20 DEF PopNothing, CanPop, Aged, readVars, queueVars, wakeVars, lifeVars
<1>21. ASSUME NEW a \in Callers \cup Contexts, FuncReturns(a) PROVE Waiting'
  BY <1>21 DEF FuncReturns, readVars, queueVars, wakeVars, lifeVars
<1>22. ASSUME NEW a \in Callers \cup Contexts, FuncRequeues(a) PROVE Waiting'
  BY <1>22 DEF FuncRequeues, CallRcu, readVars, queueVars, wakeVars, lifeVars
<1>23. CASE TaskletRuns
  BY <1>23 DEF TaskletRuns, readVars, queueVars, wakeVars, lifeVars
<1>24. CASE UNCHANGED vars
  BY <1>24 DEF vars, readVars, queueVars, wakeVars, lifeVars
<1> QED
  BY <1>1, <1>2, <1>3, <1>4, <1>5, <1>6, <1>7, <1>8, <1>9, <1>10, <1>11,
     <1>12, <1>13, <1>14, <1>15, <1>16, <1>17, <1>18, <1>19, <1>20, <1>21,
     <1>22, <1>23, <1>24
     DEF Next, ReaderStep, CallbackStep, TimerStep, CallerStep, CallerStarts

(* Every step leaves no fresh callback once the unloader has advanced.     *)
LEMMA PushedStep ==
  ASSUME TypeOK, Control, Unloading, Pushed, [Next]_vars
  PROVE  Pushed'
<1> USE RcuAssumption, QuiescentMeans DEF Control, Unloading, Pushed, TypeOK, Goto, Points, Actors, AllHeads,
        Contexts
<1>1. ASSUME NEW r \in Readers, ReadLock(r) PROVE Pushed'
  BY <1>1 DEF ReadLock, readVars, queueVars, wakeVars, lifeVars
<1>2. ASSUME NEW r \in Readers, ReadUnlock(r) PROVE Pushed'
  BY <1>2 DEF ReadUnlock, LastOut, readVars, queueVars, wakeVars, lifeVars
<1>3. ASSUME NEW r \in Readers, UnlockLooks(r) PROVE Pushed'
  BY <1>3 DEF UnlockLooks, readVars, queueVars, wakeVars, lifeVars
<1>4. ASSUME NEW r \in Readers, UnlockMisses(r) PROVE Pushed'
  BY <1>4 DEF UnlockMisses, readVars, queueVars, wakeVars, lifeVars
<1>5. ASSUME NEW r \in Readers, UnlockAdvances(r) PROVE Pushed'
  BY <1>5 DEF UnlockAdvances, readVars, queueVars, wakeVars, lifeVars
<1>6. ASSUME NEW c \in Callers, StartSynchronize(c) PROVE Pushed'
  BY <1>6 DEF StartSynchronize, CallRcu, readVars, queueVars, wakeVars, lifeVars
<1>7. ASSUME NEW c \in Callers, StartCleanup(c) PROVE Pushed'
  BY <1>7 DEF StartCleanup, readVars, queueVars, wakeVars, lifeVars
<1>8. ASSUME NEW c \in Callers, SynchronizeReturns(c) PROVE Pushed'
  BY <1>8 DEF SynchronizeReturns, readVars, queueVars, wakeVars, lifeVars
<1>9. ASSUME NEW c \in Callers, CleanupAdvances(c) PROVE Pushed'
  BY <1>9 DEF CleanupAdvances, readVars, queueVars, wakeVars, lifeVars
<1>10. ASSUME NEW c \in Callers, CleanupLooks(c) PROVE Pushed'
  BY <1>10 DEF CleanupLooks, LeftOver, readVars, queueVars, wakeVars, lifeVars
<1>11. ASSUME NEW c \in Callers, CleanupKills(c) PROVE Pushed'
  BY <1>11 DEF CleanupKills, readVars, queueVars, wakeVars, lifeVars
<1>12. ASSUME NEW c \in Callers, CleanupDeletes(c) PROVE Pushed'
  BY <1>12 DEF CleanupDeletes, readVars, queueVars, wakeVars, lifeVars
<1>13. ASSUME NEW c \in Callers, NEW h \in Heads, StartCall(c, h)
     PROVE  Pushed'
  BY <1>13 DEF StartCall, CallRcu, InFlight, readVars, queueVars, wakeVars, lifeVars
<1>14. ASSUME NEW t \in Timers, TimerFires(t) PROVE Pushed'
  BY <1>14 DEF TimerFires, readVars, queueVars, wakeVars, lifeVars
<1>15. ASSUME NEW t \in Timers, TimerLooks(t) PROVE Pushed'
  BY <1>15 DEF TimerLooks, readVars, queueVars, wakeVars, lifeVars
<1>16. ASSUME NEW t \in Timers, TimerSetsTimer(t) PROVE Pushed'
  BY <1>16 DEF TimerSetsTimer, readVars, queueVars, wakeVars, lifeVars
<1>17. ASSUME NEW a \in Callers \cup Contexts, CallSchedules(a) PROVE Pushed'
  BY <1>17 DEF CallSchedules, CallerPoint, readVars, queueVars, wakeVars, lifeVars
<1>18. ASSUME NEW a \in Callers \cup Contexts, CallSetsTimer(a) PROVE Pushed'
  BY <1>18 DEF CallSetsTimer, CallerPoint, DelayTimerSet, readVars, queueVars, wakeVars, lifeVars
<1>19. ASSUME NEW a \in Callers \cup Contexts, Pop(a) PROVE Pushed'
  BY <1>19 DEF Pop, CanPop, Aged, readVars, queueVars, wakeVars, lifeVars
<1>20. ASSUME NEW a \in Callers \cup Contexts, PopNothing(a) PROVE Pushed'
  BY <1>20 DEF PopNothing, CanPop, Aged, readVars, queueVars, wakeVars, lifeVars
<1>21. ASSUME NEW a \in Callers \cup Contexts, FuncReturns(a) PROVE Pushed'
  BY <1>21 DEF FuncReturns, readVars, queueVars, wakeVars, lifeVars
<1>22. ASSUME NEW a \in Callers \cup Contexts, FuncRequeues(a) PROVE Pushed'
  BY <1>22 DEF FuncRequeues, CallRcu, readVars, queueVars, wakeVars, lifeVars
<1>23. CASE TaskletRuns
  BY <1>23 DEF TaskletRuns, readVars, queueVars, wakeVars, lifeVars
<1>24. CASE UNCHANGED vars
  BY <1>24 DEF vars, readVars, queueVars, wakeVars, lifeVars
<1> QED
  BY <1>1, <1>2, <1>3, <1>4, <1>5, <1>6, <1>7, <1>8, <1>9, <1>10, <1>11,
     <1>12, <1>13, <1>14, <1>15, <1>16, <1>17, <1>18, <1>19, <1>20, <1>21,
     <1>22, <1>23, <1>24
     DEF Next, ReaderStep, CallbackStep, TimerStep, CallerStep, CallerStarts

(* Every step keeps the order of the list.                                 *)
LEMMA OrderedStep ==
  ASSUME TypeOK, Control, Unique, Ordered, [Next]_vars
  PROVE  Ordered'
<1> USE RcuAssumption DEF Control, Ordered, Unique, Listed, InFlight, TypeOK, Goto, Points,
        Actors, AllHeads, Contexts
<1>1. ASSUME NEW r \in Readers, ReadLock(r) PROVE Ordered'
  BY <1>1 DEF ReadLock, readVars, queueVars, wakeVars, lifeVars
<1>2. ASSUME NEW r \in Readers, ReadUnlock(r) PROVE Ordered'
  BY <1>2 DEF ReadUnlock, LastOut, readVars, queueVars, wakeVars, lifeVars
<1>3. ASSUME NEW r \in Readers, UnlockLooks(r) PROVE Ordered'
  BY <1>3 DEF UnlockLooks, readVars, queueVars, wakeVars, lifeVars
<1>4. ASSUME NEW r \in Readers, UnlockMisses(r) PROVE Ordered'
  BY <1>4 DEF UnlockMisses, readVars, queueVars, wakeVars, lifeVars
<1>5. ASSUME NEW r \in Readers, UnlockAdvances(r) PROVE Ordered'
  BY <1>5 DEF UnlockAdvances, Quiescent, readVars, queueVars, wakeVars, lifeVars
<1>6. ASSUME NEW c \in Callers, StartSynchronize(c) PROVE Ordered'
  BY <1>6 DEF StartSynchronize, CallRcu, Quiescent, readVars, queueVars, wakeVars, lifeVars
<1>7. ASSUME NEW c \in Callers, StartCleanup(c) PROVE Ordered'
  BY <1>7 DEF StartCleanup, readVars, queueVars, wakeVars, lifeVars
<1>8. ASSUME NEW c \in Callers, SynchronizeReturns(c) PROVE Ordered'
  BY <1>8 DEF SynchronizeReturns, readVars, queueVars, wakeVars, lifeVars
<1>9. ASSUME NEW c \in Callers, CleanupAdvances(c) PROVE Ordered'
  BY <1>9 DEF CleanupAdvances, readVars, queueVars, wakeVars, lifeVars
<1>10. ASSUME NEW c \in Callers, CleanupLooks(c) PROVE Ordered'
  BY <1>10 DEF CleanupLooks, LeftOver, readVars, queueVars, wakeVars, lifeVars
<1>11. ASSUME NEW c \in Callers, CleanupKills(c) PROVE Ordered'
  BY <1>11 DEF CleanupKills, readVars, queueVars, wakeVars, lifeVars
<1>12. ASSUME NEW c \in Callers, CleanupDeletes(c) PROVE Ordered'
  BY <1>12 DEF CleanupDeletes, readVars, queueVars, wakeVars, lifeVars
<1>13. ASSUME NEW c \in Callers, NEW h \in Heads, StartCall(c, h)
     PROVE  Ordered'
  BY <1>13 DEF StartCall, CallRcu, Quiescent, InFlight, readVars, queueVars, wakeVars, lifeVars
<1>14. ASSUME NEW t \in Timers, TimerFires(t) PROVE Ordered'
  BY <1>14 DEF TimerFires, readVars, queueVars, wakeVars, lifeVars
<1>15. ASSUME NEW t \in Timers, TimerLooks(t) PROVE Ordered'
  BY <1>15 DEF TimerLooks, Quiescent, readVars, queueVars, wakeVars, lifeVars
<1>16. ASSUME NEW t \in Timers, TimerSetsTimer(t) PROVE Ordered'
  BY <1>16 DEF TimerSetsTimer, readVars, queueVars, wakeVars, lifeVars
<1>17. ASSUME NEW a \in Callers \cup Contexts, CallSchedules(a) PROVE Ordered'
  BY <1>17 DEF CallSchedules, CallerPoint, readVars, queueVars, wakeVars, lifeVars
<1>18. ASSUME NEW a \in Callers \cup Contexts, CallSetsTimer(a) PROVE Ordered'
  BY <1>18 DEF CallSetsTimer, CallerPoint, DelayTimerSet, readVars, queueVars, wakeVars, lifeVars
<1>19. ASSUME NEW a \in Callers \cup Contexts, Pop(a) PROVE Ordered'
  BY <1>19 DEF Pop, CanPop, Aged, readVars, queueVars, wakeVars, lifeVars
<1>20. ASSUME NEW a \in Callers \cup Contexts, PopNothing(a) PROVE Ordered'
  BY <1>20 DEF PopNothing, CanPop, Aged, readVars, queueVars, wakeVars, lifeVars
<1>21. ASSUME NEW a \in Callers \cup Contexts, FuncReturns(a) PROVE Ordered'
  BY <1>21 DEF FuncReturns, readVars, queueVars, wakeVars, lifeVars
<1>22. ASSUME NEW a \in Callers \cup Contexts, FuncRequeues(a) PROVE Ordered'
  BY <1>22 DEF FuncRequeues, CallRcu, Quiescent, readVars, queueVars, wakeVars, lifeVars
<1>23. CASE TaskletRuns
  BY <1>23 DEF TaskletRuns, readVars, queueVars, wakeVars, lifeVars
<1>24. CASE UNCHANGED vars
  BY <1>24 DEF vars, readVars, queueVars, wakeVars, lifeVars
<1> QED
  BY <1>1, <1>2, <1>3, <1>4, <1>5, <1>6, <1>7, <1>8, <1>9, <1>10, <1>11,
     <1>12, <1>13, <1>14, <1>15, <1>16, <1>17, <1>18, <1>19, <1>20, <1>21,
     <1>22, <1>23, <1>24
     DEF Next, ReaderStep, CallbackStep, TimerStep, CallerStep, CallerStarts

(* Every step keeps the watch over fresh callbacks.                        *)
LEMMA TimerWatchStep ==
  ASSUME TypeOK, Control, Unloading, Pushed, TimerWatch, [Next]_vars
  PROVE  TimerWatch'
<1> USE RcuAssumption DEF Control, TimerWatch, TypeOK, Goto, Points, Actors, AllHeads,
        Contexts
<1>1. ASSUME NEW r \in Readers, ReadLock(r) PROVE TimerWatch'
  BY <1>1 DEF ReadLock, readVars, queueVars, wakeVars, lifeVars
<1>2. ASSUME NEW r \in Readers, ReadUnlock(r) PROVE TimerWatch'
  BY <1>2 DEF ReadUnlock, LastOut, readVars, queueVars, wakeVars, lifeVars
<1>3. ASSUME NEW r \in Readers, UnlockLooks(r) PROVE TimerWatch'
  BY <1>3 DEF UnlockLooks, readVars, queueVars, wakeVars, lifeVars
<1>4. ASSUME NEW r \in Readers, UnlockMisses(r) PROVE TimerWatch'
  BY <1>4 DEF UnlockMisses, readVars, queueVars, wakeVars, lifeVars
<1>5. ASSUME NEW r \in Readers, UnlockAdvances(r) PROVE TimerWatch'
  BY <1>5 DEF UnlockAdvances, Quiescent, readVars, queueVars, wakeVars, lifeVars
<1>6. ASSUME NEW c \in Callers, StartSynchronize(c) PROVE TimerWatch'
  BY <1>6 DEF StartSynchronize, CallRcu, Quiescent, readVars, queueVars, wakeVars, lifeVars
<1>7. ASSUME NEW c \in Callers, StartCleanup(c) PROVE TimerWatch'
  BY <1>7 DEF StartCleanup, readVars, queueVars, wakeVars, lifeVars
<1>8. ASSUME NEW c \in Callers, SynchronizeReturns(c) PROVE TimerWatch'
  BY <1>8 DEF SynchronizeReturns, readVars, queueVars, wakeVars, lifeVars
<1>9. ASSUME NEW c \in Callers, CleanupAdvances(c) PROVE TimerWatch'
  BY <1>9 DEF CleanupAdvances, readVars, queueVars, wakeVars, lifeVars
<1>10. ASSUME NEW c \in Callers, CleanupLooks(c) PROVE TimerWatch'
  BY <1>10 DEF CleanupLooks, LeftOver, readVars, queueVars, wakeVars, lifeVars
<1>11. ASSUME NEW c \in Callers, CleanupKills(c) PROVE TimerWatch'
  BY <1>11 DEF CleanupKills, readVars, queueVars, wakeVars, lifeVars
<1>12. ASSUME NEW c \in Callers, CleanupDeletes(c) PROVE TimerWatch'
  <2>1. fresh = {}
    BY <1>12 DEF CleanupDeletes, Unloading, Pushed
  <2> QED BY <1>12, <2>1 DEF CleanupDeletes, queueVars
<1>13. ASSUME NEW c \in Callers, NEW h \in Heads, StartCall(c, h)
     PROVE  TimerWatch'
  BY <1>13 DEF StartCall, CallRcu, Quiescent, InFlight, readVars, queueVars, wakeVars, lifeVars
<1>14. ASSUME NEW t \in Timers, TimerFires(t) PROVE TimerWatch'
  BY <1>14 DEF TimerFires, readVars, queueVars, wakeVars, lifeVars
<1>15. ASSUME NEW t \in Timers, TimerLooks(t) PROVE TimerWatch'
  BY <1>15 DEF TimerLooks, Quiescent, readVars, queueVars, wakeVars, lifeVars
<1>16. ASSUME NEW t \in Timers, TimerSetsTimer(t) PROVE TimerWatch'
  BY <1>16 DEF TimerSetsTimer, readVars, queueVars, wakeVars, lifeVars
<1>17. ASSUME NEW a \in Callers \cup Contexts, CallSchedules(a) PROVE TimerWatch'
  BY <1>17 DEF CallSchedules, CallerPoint, readVars, queueVars, wakeVars, lifeVars
<1>18. ASSUME NEW a \in Callers \cup Contexts, CallSetsTimer(a) PROVE TimerWatch'
  BY <1>18 DEF CallSetsTimer, CallerPoint, DelayTimerSet, readVars, queueVars, wakeVars, lifeVars
<1>19. ASSUME NEW a \in Callers \cup Contexts, Pop(a) PROVE TimerWatch'
  BY <1>19 DEF Pop, CanPop, Aged, readVars, queueVars, wakeVars, lifeVars
<1>20. ASSUME NEW a \in Callers \cup Contexts, PopNothing(a) PROVE TimerWatch'
  BY <1>20 DEF PopNothing, CanPop, Aged, readVars, queueVars, wakeVars, lifeVars
<1>21. ASSUME NEW a \in Callers \cup Contexts, FuncReturns(a) PROVE TimerWatch'
  BY <1>21 DEF FuncReturns, readVars, queueVars, wakeVars, lifeVars
<1>22. ASSUME NEW a \in Callers \cup Contexts, FuncRequeues(a) PROVE TimerWatch'
  BY <1>22 DEF FuncRequeues, CallRcu, Quiescent, readVars, queueVars, wakeVars, lifeVars
<1>23. CASE TaskletRuns
  BY <1>23 DEF TaskletRuns, readVars, queueVars, wakeVars, lifeVars
<1>24. CASE UNCHANGED vars
  BY <1>24 DEF vars, readVars, queueVars, wakeVars, lifeVars
<1> QED
  BY <1>1, <1>2, <1>3, <1>4, <1>5, <1>6, <1>7, <1>8, <1>9, <1>10, <1>11,
     <1>12, <1>13, <1>14, <1>15, <1>16, <1>17, <1>18, <1>19, <1>20, <1>21,
     <1>22, <1>23, <1>24
     DEF Next, ReaderStep, CallbackStep, TimerStep, CallerStep, CallerStarts

(* Every step keeps the watch over the list during the unloading.          *)
LEMMA UnloadWatchStep ==
  ASSUME TypeOK, Control, Unloading, Pushed, UnloadWatch, [Next]_vars
  PROVE  UnloadWatch'
<1> USE RcuAssumption DEF Control, Unloading, Pushed, UnloadWatch, TypeOK, Goto, Points,
        Actors, AllHeads, Contexts
<1>1. ASSUME NEW r \in Readers, ReadLock(r) PROVE UnloadWatch'
  BY <1>1 DEF ReadLock, readVars, queueVars, wakeVars, lifeVars
<1>2. ASSUME NEW r \in Readers, ReadUnlock(r) PROVE UnloadWatch'
  BY <1>2 DEF ReadUnlock, LastOut, readVars, queueVars, wakeVars, lifeVars
<1>3. ASSUME NEW r \in Readers, UnlockLooks(r) PROVE UnloadWatch'
  BY <1>3 DEF UnlockLooks, readVars, queueVars, wakeVars, lifeVars
<1>4. ASSUME NEW r \in Readers, UnlockMisses(r) PROVE UnloadWatch'
  BY <1>4 DEF UnlockMisses, readVars, queueVars, wakeVars, lifeVars
<1>5. ASSUME NEW r \in Readers, UnlockAdvances(r) PROVE UnloadWatch'
  BY <1>5 DEF UnlockAdvances, Quiescent, readVars, queueVars, wakeVars, lifeVars
<1>6. ASSUME NEW c \in Callers, StartSynchronize(c) PROVE UnloadWatch'
  BY <1>6 DEF StartSynchronize, CallRcu, Quiescent, readVars, queueVars, wakeVars, lifeVars
<1>7. ASSUME NEW c \in Callers, StartCleanup(c) PROVE UnloadWatch'
  BY <1>7 DEF StartCleanup, readVars, queueVars, wakeVars, lifeVars
<1>8. ASSUME NEW c \in Callers, SynchronizeReturns(c) PROVE UnloadWatch'
  BY <1>8 DEF SynchronizeReturns, readVars, queueVars, wakeVars, lifeVars
<1>9. ASSUME NEW c \in Callers, CleanupAdvances(c) PROVE UnloadWatch'
  BY <1>9 DEF CleanupAdvances, readVars, queueVars, wakeVars, lifeVars
<1>10. ASSUME NEW c \in Callers, CleanupLooks(c) PROVE UnloadWatch'
  BY <1>10 DEF CleanupLooks, LeftOver, readVars, queueVars, wakeVars, lifeVars
<1>11. ASSUME NEW c \in Callers, CleanupKills(c) PROVE UnloadWatch'
  BY <1>11 DEF CleanupKills, readVars, queueVars, wakeVars, lifeVars
<1>12. ASSUME NEW c \in Callers, CleanupDeletes(c) PROVE UnloadWatch'
  BY <1>12 DEF CleanupDeletes, readVars, queueVars, wakeVars, lifeVars
<1>13. ASSUME NEW c \in Callers, NEW h \in Heads, StartCall(c, h)
     PROVE  UnloadWatch'
  BY <1>13 DEF StartCall, CallRcu, Quiescent, InFlight, readVars, queueVars, wakeVars, lifeVars
<1>14. ASSUME NEW t \in Timers, TimerFires(t) PROVE UnloadWatch'
  BY <1>14 DEF TimerFires, readVars, queueVars, wakeVars, lifeVars
<1>15. ASSUME NEW t \in Timers, TimerLooks(t) PROVE UnloadWatch'
  BY <1>15 DEF TimerLooks, Quiescent, readVars, queueVars, wakeVars, lifeVars
<1>16. ASSUME NEW t \in Timers, TimerSetsTimer(t) PROVE UnloadWatch'
  BY <1>16 DEF TimerSetsTimer, readVars, queueVars, wakeVars, lifeVars
<1>17. ASSUME NEW a \in Callers \cup Contexts, CallSchedules(a) PROVE UnloadWatch'
  BY <1>17 DEF CallSchedules, CallerPoint, readVars, queueVars, wakeVars, lifeVars
<1>18. ASSUME NEW a \in Callers \cup Contexts, CallSetsTimer(a) PROVE UnloadWatch'
  BY <1>18 DEF CallSetsTimer, CallerPoint, DelayTimerSet, readVars, queueVars, wakeVars, lifeVars
<1>19. ASSUME NEW a \in Callers \cup Contexts, Pop(a) PROVE UnloadWatch'
  BY <1>19 DEF Pop, CanPop, Aged, readVars, queueVars, wakeVars, lifeVars
<1>20. ASSUME NEW a \in Callers \cup Contexts, PopNothing(a) PROVE UnloadWatch'
  <2>1. CASE unloader = None
    BY <1>20, <2>1 DEF PopNothing, lifeVars
  <2>2. CASE unloader # None /\ pc[unloader] = "x_gen"
    <3>1. pc'[unloader] = "x_gen"
      BY <1>20, <2>2 DEF PopNothing
    <3> QED BY <2>2, <3>1
  <2>3. CASE unloader # None /\ pc[unloader] # "x_gen"
    <3>1. list = <<>>
      BY <1>20, <2>3 DEF PopNothing, CanPop, Aged
    <3> QED BY <1>20, <3>1 DEF PopNothing, queueVars
  <2> QED BY <2>1, <2>2, <2>3
<1>21. ASSUME NEW a \in Callers \cup Contexts, FuncReturns(a) PROVE UnloadWatch'
  BY <1>21 DEF FuncReturns, readVars, queueVars, wakeVars, lifeVars
<1>22. ASSUME NEW a \in Callers \cup Contexts, FuncRequeues(a) PROVE UnloadWatch'
  <2>1. CASE unloader = None
    BY <1>22, <2>1 DEF FuncRequeues, CallRcu, lifeVars
  <2>2. CASE unloader # None
    <3>1. Quiescent
      BY <2>2, QuiescentMeans
    <3>2. pc'[a] = "k_sched"
      BY <1>22, <3>1 DEF FuncRequeues, CallRcu
    <3> QED BY <3>2
  <2> QED BY <2>1, <2>2
<1>23. CASE TaskletRuns
  BY <1>23 DEF TaskletRuns, readVars, queueVars, wakeVars, lifeVars
<1>24. CASE UNCHANGED vars
  BY <1>24 DEF vars, readVars, queueVars, wakeVars, lifeVars
<1> QED
  BY <1>1, <1>2, <1>3, <1>4, <1>5, <1>6, <1>7, <1>8, <1>9, <1>10, <1>11,
     <1>12, <1>13, <1>14, <1>15, <1>16, <1>17, <1>18, <1>19, <1>20, <1>21,
     <1>22, <1>23, <1>24
     DEF Next, ReaderStep, CallbackStep, TimerStep, CallerStep, CallerStarts

(* Every step leaves another chance.                                       *)
LEMMA ChanceStep ==
  ASSUME TypeOK, Control, Unloading, Ordered, TimerWatch,
         UnloadWatch, AnotherChance, [Next]_vars
  PROVE  AnotherChance'
<1> USE RcuAssumption DEF Control, Unloading, Ordered, TimerWatch, UnloadWatch, AnotherChance,
        TypeOK, Goto, Points, Actors, AllHeads, Contexts
<1>1. ASSUME NEW r \in Readers, ReadLock(r) PROVE AnotherChance'
  BY <1>1 DEF ReadLock, readVars, queueVars, wakeVars, lifeVars
<1>2. ASSUME NEW r \in Readers, ReadUnlock(r) PROVE AnotherChance'
  BY <1>2 DEF ReadUnlock, LastOut, readVars, queueVars, wakeVars, lifeVars
<1>3. ASSUME NEW r \in Readers, UnlockLooks(r) PROVE AnotherChance'
  BY <1>3 DEF UnlockLooks, readVars, queueVars, wakeVars, lifeVars
<1>4. ASSUME NEW r \in Readers, UnlockMisses(r) PROVE AnotherChance'
  BY <1>4 DEF UnlockMisses, readVars, queueVars, wakeVars, lifeVars
<1>5. ASSUME NEW r \in Readers, UnlockAdvances(r) PROVE AnotherChance'
  BY <1>5 DEF UnlockAdvances, Quiescent, readVars, queueVars, wakeVars, lifeVars
<1>6. ASSUME NEW c \in Callers, StartSynchronize(c) PROVE AnotherChance'
  BY <1>6 DEF StartSynchronize, CallRcu, Quiescent, readVars, queueVars, wakeVars, lifeVars
<1>7. ASSUME NEW c \in Callers, StartCleanup(c) PROVE AnotherChance'
  BY <1>7 DEF StartCleanup, readVars, queueVars, wakeVars, lifeVars
<1>8. ASSUME NEW c \in Callers, SynchronizeReturns(c) PROVE AnotherChance'
  BY <1>8 DEF SynchronizeReturns, readVars, queueVars, wakeVars, lifeVars
<1>9. ASSUME NEW c \in Callers, CleanupAdvances(c) PROVE AnotherChance'
  BY <1>9 DEF CleanupAdvances, readVars, queueVars, wakeVars, lifeVars
<1>10. ASSUME NEW c \in Callers, CleanupLooks(c) PROVE AnotherChance'
  BY <1>10 DEF CleanupLooks, LeftOver, readVars, queueVars, wakeVars, lifeVars
<1>11. ASSUME NEW c \in Callers, CleanupKills(c) PROVE AnotherChance'
  BY <1>11 DEF CleanupKills, readVars, queueVars, wakeVars, lifeVars
<1>12. ASSUME NEW c \in Callers, CleanupDeletes(c) PROVE AnotherChance'
  BY <1>12 DEF CleanupDeletes, readVars, queueVars, wakeVars, lifeVars
<1>13. ASSUME NEW c \in Callers, NEW h \in Heads, StartCall(c, h)
     PROVE  AnotherChance'
  BY <1>13 DEF StartCall, CallRcu, Quiescent, InFlight, readVars, queueVars, wakeVars, lifeVars
<1>14. ASSUME NEW t \in Timers, TimerFires(t) PROVE AnotherChance'
  BY <1>14 DEF TimerFires, readVars, queueVars, wakeVars, lifeVars
<1>15. ASSUME NEW t \in Timers, TimerLooks(t) PROVE AnotherChance'
  BY <1>15 DEF TimerLooks, Quiescent, readVars, queueVars, wakeVars, lifeVars
<1>16. ASSUME NEW t \in Timers, TimerSetsTimer(t) PROVE AnotherChance'
  BY <1>16 DEF TimerSetsTimer, readVars, queueVars, wakeVars, lifeVars
<1>17. ASSUME NEW a \in Callers \cup Contexts, CallSchedules(a) PROVE AnotherChance'
  BY <1>17 DEF CallSchedules, CallerPoint, readVars, queueVars, wakeVars, lifeVars
<1>18. ASSUME NEW a \in Callers \cup Contexts, CallSetsTimer(a) PROVE AnotherChance'
  BY <1>18 DEF CallSetsTimer, CallerPoint, DelayTimerSet, readVars, queueVars, wakeVars, lifeVars
<1>19. ASSUME NEW a \in Callers \cup Contexts, Pop(a) PROVE AnotherChance'
  BY <1>19 DEF Pop, CanPop, Aged, readVars, queueVars, wakeVars, lifeVars
<1>20. ASSUME NEW a \in Callers \cup Contexts, PopNothing(a) PROVE AnotherChance'
  BY <1>20 DEF PopNothing, CanPop, Aged, readVars, queueVars, wakeVars, lifeVars
<1>21. ASSUME NEW a \in Callers \cup Contexts, FuncReturns(a) PROVE AnotherChance'
  BY <1>21 DEF FuncReturns, readVars, queueVars, wakeVars, lifeVars
<1>22. ASSUME NEW a \in Callers \cup Contexts, FuncRequeues(a) PROVE AnotherChance'
  BY <1>22 DEF FuncRequeues, CallRcu, Quiescent, readVars, queueVars, wakeVars, lifeVars
<1>23. CASE TaskletRuns
  BY <1>23 DEF TaskletRuns, readVars, queueVars, wakeVars, lifeVars
<1>24. CASE UNCHANGED vars
  BY <1>24 DEF vars, readVars, queueVars, wakeVars, lifeVars
<1> QED
  BY <1>1, <1>2, <1>3, <1>4, <1>5, <1>6, <1>7, <1>8, <1>9, <1>10, <1>11,
     <1>12, <1>13, <1>14, <1>15, <1>16, <1>17, <1>18, <1>19, <1>20, <1>21,
     <1>22, <1>23, <1>24
     DEF Next, ReaderStep, CallbackStep, TimerStep, CallerStep, CallerStarts

-----------------------------------------------------------------------------
(* The theorems                                                            *)

Inv ==
    /\ TypeOK /\ Control /\ Unloading /\ Unique /\ Waiting
    /\ Pushed /\ Ordered /\ TimerWatch /\ UnloadWatch /\ AnotherChance

(* vmklnx_rcu_init establishes the invariant.                              *)
LEMMA InvInit == Init => Inv
<1> SUFFICES ASSUME Init PROVE Inv
  OBVIOUS
<1> USE RcuAssumption DEF Init, Actors, AllHeads, Contexts
<1>1. TypeOK
  <2>1. nestingLevel = Cardinality(inside)
    BY FS_EmptySet
  <2>2. list \in Seq(AllHeads) /\ qLen = Len(list)
    OBVIOUS
  <2>3. /\ waitFor \in [AllHeads -> SUBSET Readers]
        /\ pc \in [Actors -> Points]
        /\ first \in [Actors -> AllHeads \cup {None}]
    BY DEF Points
  <2> QED BY <2>1, <2>2, <2>3 DEF TypeOK
<1>2. Control /\ Unloading
  BY DEF Control, Unloading
<1>3. Unique
  BY DEF Unique, InFlight, Listed
<1>4. Waiting
  BY DEF Waiting
<1>5. Pushed /\ Ordered /\ TimerWatch /\ UnloadWatch /\ AnotherChance
  BY DEF Pushed, Ordered, TimerWatch, UnloadWatch, AnotherChance
<1> QED BY <1>1, <1>2, <1>3, <1>4, <1>5 DEF Inv

(* The inductive invariant of RCU holds in every reachable state, for any  *)
(* number of readers, callers and timer contexts.                          *)
THEOREM RcuInvariant == Spec => []Inv
<1>1. Inv /\ [Next]_vars => Inv'
  BY TypeStep, ControlStep, UnloadingStep, UniqueStep, WaitingStep, PushedStep,
     OrderedStep, TimerWatchStep, UnloadWatchStep, ChanceStep
     DEF Inv
<1> QED BY <1>1, InvInit, PTL DEF Spec

(* The counters of RCU are exact and its fields keep their types.          *)
THEOREM RcuTypeCorrect == Spec => []TypeOK
<1>1. Inv => TypeOK
  BY DEF Inv
<1> QED BY <1>1, RcuInvariant, PTL

(* No callback of vmklnx_call_rcu is called, and no synchronize_rcu        *)
(* returns, before the sections in progress at the call have ended.        *)
THEOREM GracePeriodHolds == Spec => []GracePeriod
<1>1. Inv => GracePeriod
  BY DEF Inv, Waiting, GracePeriod
<1> QED BY <1>1, RcuInvariant, PTL

(* A callback that has to wait for readers has the delay timer, whatever   *)
(* rcu_read_unlock sees of the queue.                                      *)
THEOREM TimerWatchHolds == Spec => []TimerWatch
<1>1. Inv => TimerWatch
  BY DEF Inv
<1> QED BY <1>1, RcuInvariant, PTL

(* vmklnx_rcu_callback may abandon its list: a tasklet, a timer or an      *)
(* actor on its way will look again.                                       *)
THEOREM AnotherChanceHolds == Spec => []AnotherChance
<1>1. Inv => AnotherChance
  BY DEF Inv
<1> QED BY <1>1, RcuInvariant, PTL

-----------------------------------------------------------------------------
(* Unloading a module whose callbacks do not call call_rcu themselves      *)

Disposed ==
    /\ \A a \in Contexts : pc[a] \notin {"k_sched", "k_timer"}
    /\ \A c \in Callers : unloader = c => pc[c] \notin {"k_sched", "k_timer"}
    /\ unloaded => unloader # None
    /\ \A c \in Callers : pc[c] \in {"x_kill", "x_del"} => list = <<>>
    /\ \A c \in Callers : pc[c] = "x_del" => ~ sched /\ pc[Tasklet] = "idle"
    /\ UnloadClean

(* Every step keeps the unloading on its way.                              *)
LEMMA DisposedStep ==
  ASSUME Rearm = {}, TypeOK, Control, Unloading, Pushed, Disposed, [Next]_vars
  PROVE  Disposed'
<1> USE RcuAssumption DEF Disposed, UnloadClean, Control, Unloading, TypeOK, Goto, Points,
        Actors, AllHeads, Contexts
<1>1. ASSUME NEW r \in Readers, ReadLock(r) PROVE Disposed'
  BY <1>1 DEF ReadLock, readVars, queueVars, wakeVars, lifeVars
<1>2. ASSUME NEW r \in Readers, ReadUnlock(r) PROVE Disposed'
  BY <1>2 DEF ReadUnlock, LastOut, readVars, queueVars, wakeVars, lifeVars
<1>3. ASSUME NEW r \in Readers, UnlockLooks(r) PROVE Disposed'
  BY <1>3 DEF UnlockLooks, readVars, queueVars, wakeVars, lifeVars
<1>4. ASSUME NEW r \in Readers, UnlockMisses(r) PROVE Disposed'
  BY <1>4 DEF UnlockMisses, readVars, queueVars, wakeVars, lifeVars
<1>5. ASSUME NEW r \in Readers, UnlockAdvances(r) PROVE Disposed'
  BY <1>5 DEF UnlockAdvances, Quiescent, readVars, queueVars, wakeVars, lifeVars
<1>6. ASSUME NEW c \in Callers, StartSynchronize(c) PROVE Disposed'
  BY <1>6 DEF StartSynchronize, CallRcu, Quiescent, readVars, queueVars, wakeVars, lifeVars
<1>7. ASSUME NEW c \in Callers, StartCleanup(c) PROVE Disposed'
  BY <1>7 DEF StartCleanup, readVars, queueVars, wakeVars, lifeVars
<1>8. ASSUME NEW c \in Callers, SynchronizeReturns(c) PROVE Disposed'
  BY <1>8 DEF SynchronizeReturns, readVars, queueVars, wakeVars, lifeVars
<1>9. ASSUME NEW c \in Callers, CleanupAdvances(c) PROVE Disposed'
  BY <1>9 DEF CleanupAdvances, readVars, queueVars, wakeVars, lifeVars
<1>10. ASSUME NEW c \in Callers, CleanupLooks(c) PROVE Disposed'
  BY <1>10 DEF CleanupLooks, LeftOver, readVars, queueVars, wakeVars, lifeVars
<1>11. ASSUME NEW c \in Callers, CleanupKills(c) PROVE Disposed'
  BY <1>11 DEF CleanupKills, readVars, queueVars, wakeVars, lifeVars
<1>12. ASSUME NEW c \in Callers, CleanupDeletes(c) PROVE Disposed'
  BY <1>12 DEF CleanupDeletes, readVars, queueVars, wakeVars, lifeVars
<1>13. ASSUME NEW c \in Callers, NEW h \in Heads, StartCall(c, h)
     PROVE  Disposed'
  BY <1>13 DEF StartCall, CallRcu, Quiescent, InFlight, readVars, queueVars, wakeVars, lifeVars
<1>14. ASSUME NEW t \in Timers, TimerFires(t) PROVE Disposed'
  BY <1>14 DEF TimerFires, readVars, queueVars, wakeVars, lifeVars
<1>15. ASSUME NEW t \in Timers, TimerLooks(t) PROVE Disposed'
  BY <1>15 DEF TimerLooks, Quiescent, readVars, queueVars, wakeVars, lifeVars
<1>16. ASSUME NEW t \in Timers, TimerSetsTimer(t) PROVE Disposed'
  BY <1>16 DEF TimerSetsTimer, readVars, queueVars, wakeVars, lifeVars
<1>17. ASSUME NEW a \in Callers \cup Contexts, CallSchedules(a) PROVE Disposed'
  BY <1>17 DEF CallSchedules, CallerPoint, readVars, queueVars, wakeVars, lifeVars
<1>18. ASSUME NEW a \in Callers \cup Contexts, CallSetsTimer(a) PROVE Disposed'
  BY <1>18 DEF CallSetsTimer, CallerPoint, DelayTimerSet, readVars, queueVars, wakeVars, lifeVars
<1>19. ASSUME NEW a \in Callers \cup Contexts, Pop(a) PROVE Disposed'
  BY <1>19 DEF Pop, CanPop, Aged, readVars, queueVars, wakeVars, lifeVars
<1>20. ASSUME NEW a \in Callers \cup Contexts, PopNothing(a) PROVE Disposed'
  <2>1. a \in Callers => list = <<>>
    BY <1>20 DEF PopNothing, CanPop, Aged, Pushed
  <2> QED BY <1>20, <2>1 DEF PopNothing, queueVars, wakeVars, lifeVars
<1>21. ASSUME NEW a \in Callers \cup Contexts, FuncReturns(a) PROVE Disposed'
  BY <1>21 DEF FuncReturns, readVars, queueVars, wakeVars, lifeVars
<1>22. ASSUME NEW a \in Callers \cup Contexts, FuncRequeues(a) PROVE Disposed'
  BY <1>22 DEF FuncRequeues, CallRcu, Quiescent, readVars, queueVars, wakeVars, lifeVars
<1>23. CASE TaskletRuns
  BY <1>23 DEF TaskletRuns, readVars, queueVars, wakeVars, lifeVars
<1>24. CASE UNCHANGED vars
  BY <1>24 DEF vars, readVars, queueVars, wakeVars, lifeVars
<1> QED
  BY <1>1, <1>2, <1>3, <1>4, <1>5, <1>6, <1>7, <1>8, <1>9, <1>10, <1>11,
     <1>12, <1>13, <1>14, <1>15, <1>16, <1>17, <1>18, <1>19, <1>20, <1>21,
     <1>22, <1>23, <1>24
     DEF Next, ReaderStep, CallbackStep, TimerStep, CallerStep, CallerStarts

(* vmklnx_rcu_cleanup leaves nothing of the module queued, set, scheduled  *)
(* or running, provided no callback calls call_rcu again.                  *)
THEOREM UnloadCleanHolds ==
  ASSUME Rearm = {}
  PROVE  Spec => []UnloadClean
<1>1. Init => Disposed
  BY RcuAssumption DEF Init, Disposed, UnloadClean, Actors, Contexts
<1>2. Inv /\ Disposed /\ [Next]_vars => Disposed'
  BY DisposedStep DEF Inv
<1>3. Disposed => UnloadClean
  BY DEF Disposed
<1> QED BY <1>1, <1>2, <1>3, RcuInvariant, PTL DEF Spec
=============================================================================
