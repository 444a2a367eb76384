-------------------------------- MODULE Rcu --------------------------------
(***************************************************************************)
(* Read-Copy Update as vmklinux implements it for one module               *)
(* (vmklinux26/vmware/linux_rcu.c, include/linux/rcupdate.h).              *)
(*                                                                         *)
(* There are no per-CPU quiescent states.  rcu_read_lock and               *)
(* rcu_read_unlock count one nestingLevel for the whole module; whoever    *)
(* finds it zero under the lock advances the generation, and a callback    *)
(* may run when the generation is past the one it was stamped with.  The   *)
(* callbacks are run by a tasklet, which call_rcu schedules when nobody    *)
(* reads, or by a timer, which it sets when somebody does.                 *)
(*                                                                         *)
(* Only "stamped with the current generation" matters to the code, so the  *)
(* model keeps the set of such callbacks, fresh, instead of the numbers.   *)
(*                                                                         *)
(* Grain: a section under rdp->lock is one action, and so is each atomic   *)
(* or plain access outside it.  pc[a]:                                     *)
(*   u_qlen, u_lock: rcu_read_unlock after its decrement found zero        *)
(*   k_sched, k_timer: call_rcu after its locked section                   *)
(*   s_wait: synchronize_rcu in wait_for_completion                        *)
(*   m_lock, m_mod: vmklnx_rcu_delay_timer                                 *)
(*   b_pop, b_func: the loop of vmklnx_rcu_callback; calling first->func   *)
(*   x_gen, x_qlen, x_kill, x_del: vmklnx_rcu_cleanup                      *)
(***************************************************************************)
EXTENDS Integers, Sequences, FiniteSets

CONSTANTS
    Heads,      \* rcu_heads the module hands to call_rcu
    Rearm,      \* those whose callback may call call_rcu for itself again
    Readers,    \* read-side critical sections; a nested one is another one
    Callers,    \* worlds that call call_rcu, synchronize_rcu or unload
    Timers,     \* contexts in which the delay timer may run
    Tasklet,    \* the tasklet; it never runs twice at the same time
    Ops,        \* the calls the callers make
    None        \* no head, no world

(* A caller of synchronize_rcu has an rcu_head on its stack, named by it.  *)
AllHeads == Heads \cup Callers
Contexts == Timers \cup {Tasklet}
Actors   == Readers \cup Callers \cup Contexts

ASSUME RcuAssumption ==
    /\ IsFiniteSet(Readers)
    /\ Heads \cap Callers = {}
    /\ Rearm \subseteq Heads
    /\ Readers \cap (Callers \cup Contexts) = {}
    /\ Callers \cap Contexts = {}
    /\ Tasklet \notin Timers
    /\ None \notin AllHeads
    /\ Ops \subseteq {"call", "synchronize", "cleanup"}

VARIABLES
    nestingLevel, \* read-side critical sections in progress
    inside,       \* which they are
    list,         \* nxtlist up to nxttail
    qLen,         \* the code's count of it
    fresh,        \* the callbacks stamped with the current generation
    sched,        \* TASKLET_STATE_SCHED
    armed,        \* the delay timer is pending
    completed,    \* callers whose completion is done
    waitFor,      \* history, per head: the sections of its grace period
    unloader,     \* the world inside vmklnx_rcu_cleanup
    unloaded,     \* it has returned
    pc, first     \* control point; the head the actor handles

readVars  == <<nestingLevel, inside>>
queueVars == <<list, qLen>>
wakeVars  == <<sched, armed>>
lifeVars  == <<unloader, unloaded>>
vars == <<readVars, queueVars, fresh, wakeVars, completed, waitFor, lifeVars,
          pc, first>>

Points == {"idle", "u_qlen", "u_lock", "k_sched", "k_timer", "s_wait",
           "m_lock", "m_mod", "b_pop", "b_func", "x_gen", "x_qlen", "x_kill",
           "x_del"}

Goto(a, point) == pc' = [pc EXCEPT ![a] = point]

-----------------------------------------------------------------------------
(* vmklnx_rcu_init                                                         *)
Init ==
    /\ nestingLevel = 0 /\ inside = {}
    /\ list = <<>> /\ qLen = 0
    /\ fresh = {}
    /\ sched = FALSE /\ armed = FALSE
    /\ completed = {}
    /\ waitFor = [h \in AllHeads |-> {}]
    /\ unloader = None /\ unloaded = FALSE
    /\ pc = [a \in Actors |-> "idle"]
    /\ first = [a \in Actors |-> None]

Listed(h) == \E k \in DOMAIN list : list[k] = h

(* A head that is queued or whose callback is being called.                *)
InFlight(h) == \/ Listed(h)
               \/ \E a \in Actors : pc[a] = "b_func" /\ first[a] = h

-----------------------------------------------------------------------------
(* Readers                                                                 *)

ReadLock(r) ==
    /\ pc[r] = "idle" /\ r \notin inside /\ unloader = None
    /\ nestingLevel' = nestingLevel + 1
    /\ inside' = inside \cup {r}
    /\ UNCHANGED <<queueVars, fresh, wakeVars, completed, waitFor, lifeVars,
                   pc, first>>

(* atomic64_dec_and_test                                                   *)
LastOut == nestingLevel = 1

ReadUnlock(r) ==
    /\ r \in inside
    /\ nestingLevel' = nestingLevel - 1
    /\ inside' = inside \ {r}
    /\ waitFor' = [h \in AllHeads |-> waitFor[h] \ {r}]
    /\ IF LastOut THEN Goto(r, "u_qlen") ELSE UNCHANGED pc
    /\ UNCHANGED <<queueVars, fresh, wakeVars, completed, lifeVars, first>>

UnlockLooks(r) ==
    /\ pc[r] = "u_qlen"
    /\ Goto(r, IF qLen > 0 THEN "u_lock" ELSE "idle")
    /\ UNCHANGED <<readVars, queueVars, fresh, wakeVars, completed, waitFor,
                   lifeVars, first>>

(* qLen is read without the lock and without a barrier in call_rcu between *)
(* ++qLen and the read of nestingLevel: the increment of a call that has   *)
(* just read the level may not be visible yet.  (A decrement that is not   *)
(* visible only makes the unlocker take the lock for nothing.)             *)
UnlockMisses(r) ==
    /\ pc[r] = "u_qlen"
    /\ qLen = 1
    /\ \E a \in Callers \cup Contexts : pc[a] \in {"k_sched", "k_timer"}
    /\ Goto(r, "idle")
    /\ UNCHANGED <<readVars, queueVars, fresh, wakeVars, completed, waitFor,
                   lifeVars, first>>

(* Mutant: the level is not tested again with the lock held.               *)
QuiescentAssumed == TRUE

(* Nobody reads, so the generation may advance.                            *)
Quiescent == nestingLevel = 0

UnlockAdvances(r) ==
    /\ pc[r] = "u_lock"
    /\ fresh' = IF Quiescent THEN {} ELSE fresh
    /\ Goto(r, "idle")
    /\ UNCHANGED <<readVars, queueVars, wakeVars, completed, waitFor,
                   lifeVars, first>>

-----------------------------------------------------------------------------
(* vmklnx_call_rcu                                                         *)

(* The locked section: stamp the head, append it, and advance the          *)
(* generation if nobody reads.                                             *)
CallRcu(a, h) ==
    /\ list' = Append(list, h)
    /\ qLen' = qLen + 1
    /\ waitFor' = [waitFor EXCEPT ![h] = inside]
    /\ IF Quiescent
       THEN fresh' = {} /\ Goto(a, "k_sched")
       ELSE fresh' = fresh \cup {h} /\ Goto(a, "k_timer")
    /\ UNCHANGED <<readVars, wakeVars, lifeVars>>

(* call_rcu returns to the loop of vmklnx_rcu_callback, to synchronize_rcu *)
(* or to the module.                                                       *)
CallerPoint(a) ==
    CASE a \in Contexts \/ a = unloader -> "b_pop"
      [] a \in Callers \ {unloader} /\ first[a] = a -> "s_wait"
      [] OTHER -> "idle"

(* Mutant: the tasklet is not scheduled.                                   *)
CallNoTasklet(a) ==
    /\ pc[a] = "k_sched"
    /\ Goto(a, CallerPoint(a))
    /\ UNCHANGED <<readVars, queueVars, fresh, wakeVars, completed, waitFor,
                   lifeVars, first>>

CallSchedules(a) ==
    /\ pc[a] = "k_sched"
    /\ sched' = TRUE
    /\ Goto(a, CallerPoint(a))
    /\ UNCHANGED <<readVars, queueVars, fresh, armed, completed, waitFor,
                   lifeVars, first>>

(* Mutant: the timer is not set.                                           *)
DelayTimerLost == armed

(* mod_timer                                                               *)
DelayTimerSet == TRUE

CallSetsTimer(a) ==
    /\ pc[a] = "k_timer"
    /\ armed' = DelayTimerSet
    /\ Goto(a, CallerPoint(a))
    /\ UNCHANGED <<readVars, queueVars, fresh, sched, completed, waitFor,
                   lifeVars, first>>

-----------------------------------------------------------------------------
(* vmklnx_rcu_delay_timer and the tasklet                                  *)

TimerFires(t) ==
    /\ armed /\ pc[t] = "idle"
    /\ armed' = FALSE
    /\ Goto(t, "m_lock")
    /\ UNCHANGED <<readVars, queueVars, fresh, sched, completed, waitFor,
                   lifeVars, first>>

TimerLooks(t) ==
    /\ pc[t] = "m_lock"
    /\ IF Quiescent THEN fresh' = {} /\ Goto(t, "b_pop")
                    ELSE UNCHANGED fresh /\ Goto(t, "m_mod")
    /\ UNCHANGED <<readVars, queueVars, wakeVars, completed, waitFor,
                   lifeVars, first>>

TimerSetsTimer(t) ==
    /\ pc[t] = "m_mod"
    /\ armed' = TRUE
    /\ Goto(t, "idle")
    /\ UNCHANGED <<readVars, queueVars, fresh, sched, completed, waitFor,
                   lifeVars, first>>

TaskletRuns ==
    /\ sched /\ pc[Tasklet] = "idle"
    /\ sched' = FALSE
    /\ Goto(Tasklet, "b_pop")
    /\ UNCHANGED <<readVars, queueVars, fresh, armed, completed, waitFor,
                   lifeVars, first>>

-----------------------------------------------------------------------------
(* vmklnx_rcu_callback                                                     *)

(* Mutant: the arguments of rcu_batch_before are swapped.                  *)
AgedSwapped(h) == FALSE

(* rcu_batch_before(first->generation, rdp->generation)                    *)
Aged(h) == h \notin fresh

CanPop == list # <<>> /\ Aged(Head(list))

(* Mutant: the length is not decremented.                                  *)
PopUncounted(a) ==
    /\ pc[a] = "b_pop"
    /\ CanPop
    /\ list' = Tail(list)
    /\ UNCHANGED qLen
    /\ first' = [first EXCEPT ![a] = Head(list)]
    /\ Goto(a, "b_func")
    /\ UNCHANGED <<readVars, fresh, wakeVars, completed, waitFor, lifeVars>>

(* Take the first callback off the list.                                   *)
Pop(a) ==
    /\ pc[a] = "b_pop"
    /\ CanPop
    /\ list' = Tail(list)
    /\ qLen' = qLen - 1
    /\ first' = [first EXCEPT ![a] = Head(list)]
    /\ Goto(a, "b_func")
    /\ UNCHANGED <<readVars, fresh, wakeVars, completed, waitFor, lifeVars>>

(* The list is empty, or its first callback has not aged enough: return to *)
(* whoever called (the caller is vmklnx_rcu_cleanup).                      *)
PopNothing(a) ==
    /\ pc[a] = "b_pop"
    /\ ~ CanPop
    /\ Goto(a, IF a \in Contexts THEN "idle" ELSE "x_kill")
    /\ UNCHANGED <<readVars, queueVars, fresh, wakeVars, completed, waitFor,
                   lifeVars, first>>

(* first->func returns; wakeme_after_rcu completes its synchronize_rcu.    *)
FuncReturns(a) ==
    /\ pc[a] = "b_func"
    /\ completed' = completed \cup ({first[a]} \cap Callers)
    /\ first' = [first EXCEPT ![a] = None]
    /\ Goto(a, "b_pop")
    /\ UNCHANGED <<readVars, queueVars, fresh, wakeVars, waitFor, lifeVars>>

(* first->func calls call_rcu for the same head again.                     *)
FuncRequeues(a) ==
    /\ pc[a] = "b_func"
    /\ first[a] \in Rearm
    /\ CallRcu(a, first[a])
    /\ first' = [first EXCEPT ![a] = None]
    /\ UNCHANGED completed

-----------------------------------------------------------------------------
(* The callers                                                             *)

StartCall(c, h) ==
    /\ "call" \in Ops
    /\ pc[c] = "idle" /\ unloader = None
    /\ ~ InFlight(h)
    /\ CallRcu(c, h)
    /\ UNCHANGED <<completed, first>>

(* vmklnx_synchronize_rcu: init_completion and call_rcu ...                *)
StartSynchronize(c) ==
    /\ "synchronize" \in Ops
    /\ pc[c] = "idle" /\ unloader = None
    /\ CallRcu(c, c)
    /\ completed' = completed \ {c}
    /\ first' = [first EXCEPT ![c] = c]

(* ... and wait_for_completion                                             *)
SynchronizeReturns(c) ==
    /\ pc[c] = "s_wait" /\ c \in completed
    /\ first' = [first EXCEPT ![c] = None]
    /\ Goto(c, "idle")
    /\ UNCHANGED <<readVars, queueVars, fresh, wakeVars, completed, waitFor,
                   lifeVars>>

(* vmklnx_rcu_cleanup, "in single threaded operation during module unload":*)
(* no section is in progress and no call.                                  *)
StartCleanup(c) ==
    /\ "cleanup" \in Ops
    /\ unloader = None /\ inside = {}
    /\ \A a \in Readers \cup Callers : pc[a] = "idle"
    /\ unloader' = c
    /\ Goto(c, "x_gen")
    /\ UNCHANGED <<readVars, queueVars, fresh, wakeVars, completed, waitFor,
                   unloaded, first>>

CleanupAdvances(c) ==
    /\ pc[c] = "x_gen"
    /\ fresh' = {}
    /\ Goto(c, "x_qlen")
    /\ UNCHANGED <<readVars, queueVars, wakeVars, completed, waitFor,
                   lifeVars, first>>

(* Mutant: what is still queued is forgotten.                              *)
LeftOverNone == FALSE

LeftOver == qLen > 0

CleanupLooks(c) ==
    /\ pc[c] = "x_qlen"
    /\ Goto(c, IF LeftOver THEN "b_pop" ELSE "x_kill")
    /\ UNCHANGED <<readVars, queueVars, fresh, wakeVars, completed, waitFor,
                   lifeVars, first>>

(* tasklet_kill waits until the tasklet is neither scheduled nor running.  *)
CleanupKills(c) ==
    /\ pc[c] = "x_kill"
    /\ ~ sched /\ pc[Tasklet] = "idle"
    /\ Goto(c, "x_del")
    /\ UNCHANGED <<readVars, queueVars, fresh, wakeVars, completed, waitFor,
                   lifeVars, first>>

(* del_timer_sync waits for the callback.                                  *)
CleanupDeletes(c) ==
    /\ pc[c] = "x_del"
    /\ \A t \in Timers : pc[t] = "idle"
    /\ armed' = FALSE
    /\ unloaded' = TRUE
    /\ Goto(c, "idle")
    /\ UNCHANGED <<readVars, queueVars, fresh, sched, completed, waitFor,
                   unloader, first>>

-----------------------------------------------------------------------------
ReaderStep(r) ==
    \/ ReadUnlock(r)
    \/ UnlockLooks(r) \/ UnlockMisses(r) \/ UnlockAdvances(r)

CallbackStep(a) ==
    \/ CallSchedules(a) \/ CallSetsTimer(a)
    \/ Pop(a) \/ PopNothing(a) \/ FuncReturns(a) \/ FuncRequeues(a)

TimerStep(t) == TimerFires(t) \/ TimerLooks(t) \/ TimerSetsTimer(t)

CallerStep(c) ==
    \/ SynchronizeReturns(c)
    \/ CleanupAdvances(c) \/ CleanupLooks(c)
    \/ CleanupKills(c) \/ CleanupDeletes(c)

CallerStarts(c) ==
    \/ \E h \in Heads : StartCall(c, h)
    \/ StartSynchronize(c) \/ StartCleanup(c)

(* Nothing of the module is left to run once it is unloaded.               *)
Next ==
    /\ ~ unloaded
    /\ \/ \E r \in Readers : ReadLock(r) \/ ReaderStep(r)
       \/ \E c \in Callers : CallerStarts(c) \/ CallerStep(c)
       \/ \E t \in Timers : TimerStep(t)
       \/ TaskletRuns
       \/ \E a \in Callers \cup Contexts : CallbackStep(a)

Spec == Init /\ [][Next]_vars

(* Fairness.  Critical sections end, and worlds, timers and tasklets are   *)
(* scheduled; nothing makes anyone enter a section or start a call.        *)
Fairness ==
    /\ \A r \in Readers : WF_vars(~ unloaded /\ ReaderStep(r))
    /\ \A c \in Callers : WF_vars(~ unloaded /\ CallerStep(c))
    /\ \A t \in Timers : WF_vars(~ unloaded /\ TimerStep(t))
    /\ WF_vars(~ unloaded /\ TaskletRuns)
    /\ \A a \in Callers \cup Contexts : WF_vars(~ unloaded /\ CallbackStep(a))

FairSpec == Spec /\ Fairness

-----------------------------------------------------------------------------
(* Properties                                                              *)

(* Every field has its type, nestingLevel counts the sections and qLen the *)
(* callbacks, so neither runs below zero.                                  *)
TypeOK ==
    /\ inside \subseteq Readers
    /\ nestingLevel = Cardinality(inside)
    /\ list \in Seq(AllHeads)
    /\ qLen = Len(list)
    /\ fresh \subseteq AllHeads
    /\ sched \in BOOLEAN /\ armed \in BOOLEAN
    /\ completed \subseteq Callers
    /\ waitFor \in [AllHeads -> SUBSET Readers]
    /\ unloader \in Callers \cup {None}
    /\ unloaded \in BOOLEAN
    /\ pc \in [Actors -> Points]
    /\ first \in [Actors -> AllHeads \cup {None}]

(* call_rcu: "after all currently executing RCU read-side critical         *)
(* sections have completed".  A callback is called, and synchronize_rcu    *)
(* returns, only when every section that was in progress at the call has   *)
(* ended, however sections, unlocks, timers and tasklets overlap.          *)
GracePeriod ==
    /\ \A a \in Actors : pc[a] = "b_func" => waitFor[first[a]] = {}
    /\ \A c \in Callers : pc[c] = "s_wait" /\ c \in completed
                             => waitFor[c] = {}

(* A callback that has not aged is never left to the readers alone: the    *)
(* last rcu_read_unlock may not see it, or may find a new reader, and then *)
(* it is the delay timer, set, running or about to be set, that ages it.   *)
TimerWatch ==
    (\E k \in DOMAIN list : list[k] \in fresh) =>
        armed \/ \E a \in Actors : pc[a] \in {"k_timer", "m_lock", "m_mod"}

(* "We're sure to get another chance later": while a callback is queued,   *)
(* the tasklet is scheduled, the timer is set, or somebody is about to do  *)
(* either or to go through the list.                                       *)
AnotherChance ==
    list # <<>> =>
        \/ sched \/ armed
        \/ \E a \in Actors : pc[a] \in {"k_sched", "k_timer", "m_lock", "m_mod",
                                        "b_pop", "b_func", "x_gen", "x_qlen"}

(* "dispose of all pending callbacks": once the module is unloaded nothing *)
(* of it is queued, set, scheduled or running.                             *)
UnloadClean ==
    unloaded => /\ list = <<>> /\ ~ sched /\ ~ armed
                /\ \A a \in Actors : pc[a] = "idle"

ReadersStop == <>[](inside = {})

(* Once the readers stop, every callback is called, however the callers    *)
(* go on: a callback queued behind a reader is never left to a timer or    *)
(* tasklet that does not come.                                             *)
CallbackIsCalled ==
    ReadersStop => \A h \in AllHeads : Listed(h) ~> ~ Listed(h)

(* Once the readers stop, every synchronize_rcu returns.                   *)
SynchronizeCompletes ==
    ReadersStop => \A c \in Callers : pc[c] = "s_wait" ~> pc[c] = "idle"

(* "Thus, another tasklet will soon fire": a callback that has aged is     *)
(* called although sections go on being entered and left.                  *)
AgedIsCalled ==
    \A h \in AllHeads : (Listed(h) /\ h \notin fresh)
                           ~> ~ Listed(h)
=============================================================================
