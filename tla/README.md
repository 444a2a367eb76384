# A verification project for vmklinux26

vmklinux26 lets Linux 2.6 drivers run on the ESX vmkernel.  Most of the repository
is third-party code (the drivers under `vmkdrivers/src26/drivers`, the Linux core
files under `vmklinux26/linux`, headers) and a second copy of part of it
(`bora-162945`).  VMware's own logic is
`vmkdrivers/src26/vmklinux26/vmware`: it re-implements the Linux kernel services a
driver calls on top of the `vmk_*` interface of the vmkernel, which is not in the
repository.  This project models that layer, beginning with the parts whose
correctness depends most on interleavings: deferred work, RCU, sleeping and waking,
and the SCSI commands.

Paths below are relative to `vmkdrivers/src26/vmklinux26/vmware` unless they start
with `include/`, which is `vmkdrivers/src26/include`.

## 1. Inventory

| Component | State | Operations | Interacts with | Hard behaviour |
|---|---|---|---|---|
| Work queues (`linux_workqueue.c`, `include/linux/workqueue.h`) | per queue: list of items, `qLen`, `curPosted`, `curDispatch`, three tracker lists, `waiting`, `setExitFlag`, `flushMutex`, `delayTimer`; per work: PENDING bit, `wq_data`, timer | create, queue, delayed queue, cancel (3 forms), flush, destroy; dispatch, callout, retry timer | helper worlds (`vmk_HelperSubmitRequest`), timers, `vmk_WorldWaitIRQ`/`vmk_WorldWakeup` | the lock is dropped in the middle of dispatch; items run in several worlds; a work may be queued, delayed and executing at once; requests may be refused; waits end by wakeups |
| RCU (`linux_rcu.c`, `include/linux/rcupdate.h`) | per module: nesting level, generation, callback list, tasklet, timer | read lock/unlock, `call_rcu`, `synchronize_rcu`, cleanup | tasklets, timers, completions | readers take no lock; generation and nesting level are read and written in different orders |
| Timers (`linux_time.c`) | per timer: vmk timer handle, expiry | add, modify, delete, delete-sync | callback contexts | callback racing deletion |
| Tasks, tasklets, wait queues, kthreads, signals (`linux_task.c`, `linux_waitqueue.c`, `linux_kthread.c`, `linux_signal.c`) | task table, task state, wait queue lists, tasklet bits | wait, wake, sleep with timeout, tasklet schedule/disable/kill, kthread create/stop | vmk worlds | lost wakeups, wakeup racing timeout, stop racing exit |
| SCSI adapter (`linux_scsi*.c`) | commands, devices, targets, hosts, reference counts | issue, complete, abort, reset, scan, remove | vmk SCSI, low-level drivers, timers | abort racing completion, removal racing I/O |
| Block adapter (`linux_block.c`) | disks, request queue, tags | register, issue, complete, abort | vmk SCSI | as SCSI |
| Net adapter (`linux_net.c`) | net devices, poll contexts, queues | register, open/close, transmit, poll | vmk uplink | poll schedule/complete race |
| Char, proc, PCI, USB, input, notifier, hash table, heap, DMA, I/OAT, stress, stubs | registration tables and allocator wrappers | register, look up, remove, allocate | vmk services | little concurrency, mostly pure I/O |

What makes them correct:

* Work queues: a work that was accepted runs; it is on at most one list; a
  cancellation returns only when the work is neither queued, delayed nor executing,
  so that the driver may free it; a flush returns only when everything queued
  before it has run; neither waits for ever; destroying a queue leaves nobody using it.
* RCU: no callback runs before the readers that were inside at `call_rcu` have left;
  every callback runs.
* Timers: after delete-sync the callback neither runs nor will run.
* Wait queues: a wake-up after the waiter has queued itself is never lost.
* SCSI/block: a command completes exactly once, to whoever owns it at that time.

`PROJECT.json` lists the hazards line by line.

## 2. Plan

Done:

1. `WorkQueue`, `MCWorkQueue`, `MCWorkQueueLive`; `WorkQueueProofs`,
   `WorkQueueOwner`, `WorkQueueFlush`, `WorkQueueDestroy`.
2. `Rcu`, `MCRcu`, `RcuProofs`: grace periods, eventual invocation, cleanup.
3. `Task` (tasks, completions, timed sleeps, signals), and `Kthread`, which composes it
   with kthread creation and stopping; `MCKthread`, `TaskProofs`, `KthreadProofs`.
4. `Scsi`: a command through issue, completion, bottom half, timeout and abort;
   `CommandLife`, what the adapter promises of a command, and `Scsi` shown to implement
   it; `MCScsi`, `ScsiProofs`.

Left, in this order:

5. Internal SCSI commands (`scsi_execute`), bus and host resets, and command blocks that
   are used again, on top of `Scsi`.
6. `WorkItem`: what one work promises (idle, pending, running), and `WorkQueue`
   shown to implement it; a second queue sharing a work.
7. `Timer` (linux_time.c), `NetPoll` (linux_net.c), block tags (linux_block.c).

Every invariant the runs check is proved (section 7).  Theorems worth proving next: that
`WorkQueue` implements `WorkItem`; what `destroy_workqueue` guarantees when delayed works
are cancelled first.

## 3. WorkQueue

### State and grain

One `workqueue_struct`, the works queued on it, and three kinds of actors: driver
worlds that call the interface, helper worlds that run `vmklnx_workqueue_callout`, and
the contexts in which expired timers run.  A section under `wqLock` is one action;
each atomic bit operation and each call made outside the lock is one too.  `pc[a]`
is the point an actor has reached and `arg[a]` the work it handles; the header of the
module lists the points.  `Dispatch` is the locked part of
`vmklnx_workqueue_dispatch`; because its callers enter it holding the lock, it is
part of their actions (`QueueAdd`, `DelayTimeout`, `CalloutFinish`, `DispatchNext`).

| Module | Code |
|---|---|
| `head`, `qLen`, `curPosted`, `curDispatch`, `waiting` | the fields of that name |
| `trackList`, `trackFlushList`, `trackFree` | the tracker lists; a tracker in use is named by the helper that holds it, and its `executing` field is `arg[h]` |
| `pending` | the `__WORK_PENDING` bits |
| `timer[w]`, `delayTimer` | `idle`, `armed`, or the context running the callback |
| `submitted` | requests the helper pool has accepted and not started |
| `sleepers` | worlds inside `vmk_WorldWaitIRQ` |
| `destroyer`, `freed` | `setExitFlag` and the `kfree` |
| `flushDebt` | a history variable: what the flush in progress owes |

External, modelled from their use: `vmk_HelperSubmitRequest` (accepts, or refuses when
`SubmitMayFail`), the firing and the return of a timer, and
`vmk_WorldWaitIRQ`, which may also return without a wakeup.

Two tests in the code are of an address and so always true: `&wqPtr->setExitFlag`
(line 590) and `&wqPtr->waiting > 0` (line 666).  The model follows the code:
every finishing callout wakes the sleepers, which is why the waits are safe.

The contract of the callers is the one `destroy_workqueue` documents: no other call is
in progress and no self re-initiating work is left.  A behaviour ends when the queue is
freed; what happens in freed memory is not modelled.

### Runs

| Run | Question | Instance |
|---|---|---|
| `wq_multi` | counters, track lists, cancel and flush guarantees; nothing is lost when requests are refused; the assertions of `destroy_workqueue` | refusing pool, 2 works, 2 drivers, 2 helpers, 2 slots, 1 timer context |
| `wq_delayed` | one owner of the PENDING bit; cancel and flush guarantees with delayed work | 1 self-arming work, 2 drivers, 2 helpers, 2 timer contexts |
| `wq_live_flush` | queued items are taken and flushes return, although a work re-queues itself for ever | 2 works, 2 drivers, 2 helpers, 2 slots, 3 calls |
| `wq_live_stop` | cancellations and `destroy_workqueue` return | 1 work, queued or delayed, 2 drivers, single-threaded queue, 4 calls |
| `wq_free`, `wq_destroy_hang` | two disagreements, below | |

Two works are enough for one to overtake the other and for one to be cancelled between
others; two helpers and two slots are the smallest multi-threaded queue (two
dispatchers overlap, an item outlives the plunger); a second driver makes cancel race
flush and cancel; a second timer context lets a work's timer race the retry timer.
The other bounds are `Ops` (the calls a run makes) and, for liveness, `MaxCalls`.
Symmetry is over actors and works, in the safety runs only; over works only when all
works behave alike.  `wq_multi` and the liveness runs may stop (the queue is freed,
the calls are used up), so they do not check for deadlock.

Fairness is weak for each world and each timer context, because they are scheduled,
and strong for the acceptance of a request by the pool: it refuses when it is full,
and the retry timer offers the request again and again.  A driver need not start a
call, and no spurious wakeup is assumed.  `cancel_work_sync` of a work that re-queues
itself can loop for ever under this fairness (the loop at lines 851-936 holds nothing
between two attempts), so `CancelReturns` is checked for works that do not.  For the
same reason `FlushReturns` is checked with a pool that refuses nothing: a self
re-queueing work that dispatches from its own callback can be kept in the loop of
`vmklnx_workqueue_dispatch` by other helpers that take the same work and are refused,
its callout then never finishes, and the flush waits for it.

### What the violations show

* `wq_free`: `destroy_workqueue` waits for `curPosted = 0`, which does not cover a
  helper or timer context in the tail of `vmklnx_workqueue_dispatch`; that one reads
  `maxDispatch`, takes the lock or sets the retry timer of a freed queue.
* `wq_destroy_hang`: a refused request lowers `curPosted` to 0 without a wakeup.  If the
  queue is empty at that time, the destroyer sleeps for ever.

## 4. Rcu

### State and grain

The RCU state of one module (`vmklnx_rcu_data`): `nestingLevel`, the callback list
`list` with its count `qLen`, the tasklet (`sched`), the delay timer (`armed`).
`vmklinux` has no per-CPU quiescent states.  Whoever finds `nestingLevel` zero under
`rdp->lock` advances the generation, and a callback may be called once the generation
is past the one it was stamped with.  The code compares stamps with the current
generation only, so the model keeps `fresh`, the callbacks stamped with the current
one: advancing the generation empties it, and `rcu_batch_before` is `Aged`.

A `Reader` is one read-side critical section; a nested one is another member of the
set, since the code only counts.  Callers run `call_rcu`, `synchronize_rcu` and
`vmklnx_rcu_cleanup`; a `synchronize_rcu` queues the head on its own stack, named after
the caller.  Timer contexts and the tasklet run the callback loop.  A section under
`rdp->lock` is one action, each access outside it another.  Inside a locked section the
only thing others can change is `nestingLevel`, read once, so the section counts as
happening at that read.

`rcu_read_unlock` reads `qLen` without the lock, and `call_rcu` has no barrier between
`++qLen` and its read of `nestingLevel`; on x86 the unlocker may then miss a callback
queued by a call that counted the unlocker as a reader.  `UnlockMisses` is that
outcome.  It is harmless only because such a call sets the delay timer, which is what
`TimerWatch` states.

`waitFor` is a history variable: per head, the sections of its grace period that have
not ended.  External, modelled from use: the firing of a timer.  The tasklet follows
`tasklet_action` and `tasklet_kill` of the Linux `softirq.c` in the repository.
`vmklnx_rcu_cleanup` is called as its comment says, "in single threaded operation":
no section and no call is in progress, but the timer and the tasklet may be running.

### Runs

| Run | Question | Instance |
|---|---|---|
| `rcu_grace` | `GracePeriod`, `TimerWatch`, `AnotherChance`, `UnloadClean` | 3 sections, 2 callers (so up to 2 calls of `synchronize_rcu` besides a head), 2 timer contexts, the tasklet |
| `rcu_live` | callbacks are called, `synchronize_rcu` returns | 2 sections, 1 caller, 1 head that queues itself again, 1 timer context |
| `rcu_starved` | the claim in `vmklnx_rcu_callback` that a tasklet will soon fire | 1 section entered and left again and again, 1 caller, 1 head, 1 timer context |

Three sections are enough for one to span a grace period while the other two end and
begin around it; two timer contexts let a timer set again run beside the one that is
still in the callback loop.  A run may stop after the unload, so `rcu_grace` does not
check for deadlock.

Fairness is weak only: worlds, timers and tasklets are scheduled and sections end.
Nothing makes anyone enter a section or make a call.  Both liveness properties are
conditional on `ReadersStop`.  Without it they are false: `rcu_read_unlock` advances the
generation but schedules nothing, and the delay timer gives up whenever it finds some
section in progress, so a callback can wait for ever although each section ends.
`rcu_starved` shows this; the comment at `linux_rcu.c:158` says that another tasklet
will soon fire.

Two further hazards are described in `PROJECT.json` and not stated as properties: a
callback that calls `call_rcu` for itself when nobody reads is aged by its own call and
called again by the same loop; and each `call_rcu` under a reader pushes the timer
ahead (the model has no time).

## 5. Task and Kthread

### State and grain

A world sleeps in `LinuxTask_WaitEvent` until its `LTE_RESUME` bit is set.  `Task` models
the task descriptor (`events`, `state`, `suspended`, `signals`, the wait timer with
`timer` and `expired`), completions (`done`, `queue`, and `holder`, who is inside
`complete()` with `wait.lock` held) and the calls that sleep: `wait_for_completion`,
its two timed forms, `msleep`, and `schedule()` after setting the state.  A section
under `wait.lock` or `taskLock` is one action; `complete()` has two, because it reads
`task->state` before it takes `taskLock`.  `completed` and `taken` are history variables.

`Kthread` composes `Task` with `linux_kthread.c`: `at[t]` is what a world does between
two sleeps, `pc[t]` where it is inside one.  The two things that can go wrong are in its
storage: `create.done` is in the creator's stack frame, and one `kthread_stop_info`
serves all stops.

External, modelled from use: the driver's thread function, which loops over
`kthread_should_stop` and `schedule()` (or, in the load `quit`, returns by itself, and
nobody then stops the thread); `vmk_WorldWaitIRQ`, which may return without a wakeup;
timers, which may fire before `jiffies` has reached the timeout.

### Runs

`kthread` is one run over six workloads, one of which is chosen at the start, so that
each mix of calls is explored by itself: two threads created by one driver and stopped
by two; one thread that is signalled; one that returns by itself; two drivers that wait
for a completion with and without a timeout while signals arrive; timed waits and
`msleep` while wakeups without cause arrive.  Two threads and two drivers make two stops
overlap; two completions per object (`MaxComplete`) let one be left over by a wait that
timed out and found by the next.  The workloads end, so deadlock is not checked.

Completions have one waiter at a time (`Single`), as those of the modelled code have.
With two, a completion can stay untaken while a waiter sleeps: `default_wake_function`
returns 1 for a task it did not wake.  The hazard is listed; nothing in the
repository claims otherwise.

Fairness is weak: worlds and interrupt handlers are scheduled, timers fire, `jiffies`
advances.  No call is promised.  `StopEnds` rests on a thread function that looks at
`kthread_should_stop`.

## 6. Scsi and CommandLife

### State and grain

One host with one device (`host_busy` and `device_busy` are one counter), the commands
of the vmkernel, worlds in task management, the timeout work, and the bottom half of
each processor.  What keeps them apart is `vmkflags` under `vmklock`; the header of the
module names the flags and the control points.  A section under a lock or with interrupts
disabled is one action.  `hostLock` and `listLock` are variables because they are held
over several sections: `queuecommand` is called under the first, `scsi_done` under the
second.  The lists are sets, a command block is used once, and the driver is external:
it takes or rejects a command, completes it whenever it likes or never, and its abort
handler promises nothing.

`CommandLife` is what the vmkernel may rely on: a command is refused, or goes from issue
to the driver and back, once, not while an aborter holds it, and one aborter holds it at
a time.  `LifeSpec` maps `Scsi` to it: `place` is read from the stage, the driver's
set and the flags, and `held` from the lists and variables of those that really hold the
command, not from `DELAY_CMDDONE`, so that the flags are shown to do their work.

### Three cases the instances leave out

The model has them and they violate the properties; the code and its documents make no
claim about them that a run could contradict, so they are hazards and not findings.

* `Early`: `vmkflags |= IO_TIMEOUT` (line 896) is made under `host_lock` only.  An abort
  that names the command at that moment loses its `DELAY_CMDDONE`.  The model has the read
  and the write as two steps; `Early = FALSE` says that task management names commands
  with a timeout only once they are issued.
* Two members of `Timed`: all timed-out commands share `linuxSCSIIO_work` (line 2812); a
  second one overwrites the first before it has run, and the first stays held.
* `Ties`: the loop of the bottom half runs while `now < yield` (line 528), and it is
  scheduled again if `now > yield` (line 685).  When the clock reads exactly `yield`,
  commands are left and nobody is scheduled.

### Runs

| Run | Question | Instance |
|---|---|---|
| `scsi` | the safety properties, the refinement, and that what the driver is done with reaches the vmkernel | 2 commands, one with a timeout, 2 aborters, 2 processors, queue depth 2 |
| `scsi_double` | "Attempted double completion" is not reached | the same |

Two aborters and the timeout work are all kinds of holders twice over; two commands let
one be freed while the other is aborted, and let one abort name both; two processors let
a command be completed by one while the other's bottom half gives up.  Every command is
used up in the end, so deadlock is not checked.

`scsi_double` shows a defect: an aborter lets go of a command whose completion was
recorded and calls `scsi_done` after releasing `vmklock`; in between the timeout handler,
which does not look at `CMDDONE_ATTEMPTED`, takes hold of it.  When its work lets go it
finds the recorded completion too, and the second call stops the host.  A behaviour of
the model ends there (`panicked`); the other properties hold up to that point.

Fairness: issue, completion calls, the timeout handler and its work go on (weak), bottom
halves and aborters too, strongly because they contend for spin locks that
are free again and again.  Neither the driver nor the vmkernel promises anything.

## 7. Proofs

### WorkQueueProofs

For all finite sets of works and actors (no work is an actor: the history variable
`flushDebt` holds both), every `MaxDispatch` and all combinations of
`Ops`, `Rearm` and `SubmitMayFail`:

* `TypeCorrect`: `Spec => []TypeOK`; no counter runs below zero.
* `AccountingHolds`: `Spec => []Accounting`; the assertions of the callout.
* `PostingHolds`: `Spec => []PostingAccounted`.

None of them is inductive.  The inductive invariant `Core` has four layers, each
proved for the five groups of actions (dispatch, timer, helper, driver, starting
calls) with the help of the layers before it:

* `Typing`: the types of the fields;
* `Control`: which kind of item an actor works on at each control point (a helper past
  `h_clear` has an item, a driver at `f_wait` has the plunger, a sleeper is at a
  sleeping point);
* `Tracking`: a helper holds a tracker exactly from taking an item to finishing it, so
  that the track lists partition those helpers;
* `Counting`: `curPosted`, `curDispatch` and `waiting` are the cardinalities of the sets
  of actors at the points that account for them.  That is what keeps them from running
  below zero: an actor about to decrement is itself in the set that is counted.

`CountMove` states how the cardinality of a set of actors at given points changes when
one actor moves; every counting step is an instance of it.

### WorkQueueOwner

Under the same assumptions:

* `PendingOwnerHolds`: `Spec => []PendingOwner`; the PENDING bit has one owner.
* `CancelGuaranteeHolds`: `Spec => []CancelGuarantee`.

The inductive invariant `Owner` is `Core` with `PendingOwner` itself and

* `Grabbing`: a canceller that has the bit is past its attempts to get it, and one that
  is about to clear the bit has it;
* `Known`: a work that is queued or executing has `wq_data` set, so that
  `cancel_work_sync`, which skips the track lists of a work without it, misses nothing;
* `AtRest`: no helper works on the item of a canceller that is about to return.  A
  helper can take the work only from the queue, and it is not there as long as the
  canceller owns the bit.

A step either keeps a work where it is (`Keeps`, `OwnQuiet`) or moves the bit of one
work to or from the queue, its timer or the acting actor (`OwnShift`, `OwnMoves`); the
lemmas `QueueAppend`, `QueueTail` and `QueueRemove` say what the three changes of the
list do to one work.

### WorkQueueFlush

Under the same assumptions:

* `PlungerAliveHolds`: `Spec => []PlungerAlive`;
* `FlushGuaranteeHolds`: `Spec => []FlushGuarantee`.

The inductive invariant `Flush` is `Owner` with

* `Flushers`: the plunger is in the hands of the driver that owns `flushMutex`, and of
  helpers only on the way through its callout;
* `OnePlunger`: it is queued once or with one helper, and only between its queueing and
  its `complete()`;
* `Debt`, what the flush still owes.  Until the plunger has run, the items owed are
  before it in the list and the helpers owed are tracked; `PlungerSplice` then moves all
  tracked helpers to `trackFlushList`, and from there on what is owed is on that list.  A
  finishing callout takes itself off both, so that an empty list means that nothing is
  owed.  `FlushGuarantee` alone is not inductive: it says nothing before the driver
  reaches the end of its wait.

### WorkQueueDestroy

Under the same assumptions and `NoDelayedDestroy`, that the run does not both queue
delayed works and destroy the queue:

* `DestroyAssertsHold`: `NoDelayedDestroy /\ Spec => []DestroyAsserts`;
* `NoStrandedWorkHolds`: `NoDelayedDestroy /\ Spec => []NoStrandedWork`.

The hypothesis is needed.  `destroy_workqueue` flushes, waits for `curPosted = 0` and
deletes the retry timer; none of that waits for the timer of a delayed work, which can
put its work on the queue after the flush.  With `queue_delayed` and `destroy` in `Ops` and
one work, TLC finds both properties violated (in 19 and 23 states); `wq_multi`,
the run that checks them, has `destroy` without `queue_delayed`: a driver must cancel its
delayed works before it destroys the queue.  Works that re-queue themselves are excluded
by the guard of the call, which is the code's own comment.

The inductive invariant `Life` adds to `Flush`: `Plain` (which calls can have brought an
actor to its point), `Closed` (once the destroyer has begun, the other drivers are idle and
no work that re-arms itself is left), `Emptied` (the destroyer's plunger is the
last item ever queued: the list is empty when it is taken, nothing executes after the
flush, and nothing is posted after the wait) and `Served`.  The last is the heart of
`NoStrandedWork`, which is not inductive: a request taken with another item queued behind
it leaves that item without one.  With several slots there is a request for each queued
item, or somebody will look again; with one slot the callout that takes an item also takes the
slot.

### RcuProofs

For any finite set of sections and any callers, heads, timer contexts, `Rearm` and
`Ops`: `RcuTypeCorrect`, `GracePeriodHolds`, `TimerWatchHolds`, `AnotherChanceHolds`,
each `Spec => []P` of the property of that name; and, when no callback calls `call_rcu`
again (`Rearm = {}`), `UnloadCleanHolds`.

The inductive invariant `Inv` adds to `TypeOK`, `TimerWatch` and `AnotherChance`:

* `Control` and `Unloading`: who may be at which point, and that nobody but the
  unloader and the contexts moves during the unload;
* `Unique`: a head is queued once or held by one actor, and the head on a caller's
  stack only while its `synchronize_rcu` is in progress;
* `Waiting`: only callbacks of the current generation have sections to wait for.  This
  is the heart of `GracePeriod`: a callback is stamped under the lock, and the
  generation is advanced only when nobody is inside;
* `Ordered`: fresh callbacks are a suffix of the list.  A loop that abandons the list
  at a fresh callback leaves only fresh ones, which have the timer (`TimerWatch`);
* `Pushed` and `UnloadWatch`: after the unloader has advanced the generation nothing is
  fresh, and somebody still looks at what is queued.

`UnloadCleanHolds` needs `Disposed` on top: the list is empty from `tasklet_kill` on, and
the tasklet is idle from `del_timer_sync` on.  With a callback that queues itself again
this is false in the code too, hence the assumption.

### ScsiProofs

For any finite set of commands, any aborters and processors, and any queue depth:

* `ScsiTypeCorrect`, `OnePlaceHolds`, `OneHolderHolds`, `HeldNotFreedHolds`,
  `AbortHonestHolds`, `BusyCountHolds`: `Spec => []P` of the properties of the `scsi` run;
* `LifeRefined`: `Spec => LifeSpec`, the refinement;
* `BhPendingHolds`.

All but the last assume `Tame`, which excludes the first two cases above (`~ Early`, one
command with a timeout at most); the last assumes `~ Ties` only.

The inductive invariant `Inv` adds to the types

* `Control`: what an issuer has done so far (`Issue`: a command in issue or with the
  driver still needs its completion, has none recorded, and no call of its own is in
  progress), that timers, work and aborters only have commands past the unlocked write of
  `vmkflags` (`Reach`), and that whoever calls `scsi_done` for a recorded completion has let
  go first (`Calls`);
* `Places`: `OnePlace` rephrased by `NEED_CMDDONE`.  A command that needs its
  completion is in issue, with the driver, in a call or parked; one that is owed and does
  not is in the hands of exactly one call or one bottom half.  `OnePlace` is not
  inductive: after the double call of `scsi_double` two calls are in progress, and it is
  `NEED_CMDDONE`, cleared once, that makes only one of them count;
* `Holders`: `OneHolder`, and a held command still needs its completion, so that it is
  not freed;
* `Blocks`: a block in use is on `cmd_list` or on its aborter's list;
* `BusyCount`, and `Recorded`: `VMK_OK` so far means that the completions are recorded.

`BhPending` has an invariant of its own (`Halves`): `runningBH` is set exactly while a
bottom half is scheduled or running.  The refinement shows for each action which step of
`CommandLife` it is, mostly none: `HeldBy` and the lemmas after it say who holds a command
before and after.

### TaskProofs

For any sets of tasks, interrupt contexts and completions: every operation of `Task`,
whoever calls it, keeps `TaskInv`.  The operations are grouped by what they may change,
`SleepOp` (a step of a sleep), `WaitOp` (a step of a wait, under `wait.lock`) and `WakeOp`
(what wakes another task), and `TaskInv` is

* `TaskTypeOK`, and `TaskControl`: what the point a task has reached says of its state, its
  call and its completion.  A task about to sleep has a state in which `complete()` wakes it;
* `Locks`: `wait.lock` is held by exactly the actor inside `complete()`;
* `Queues`: the list of a completion holds exactly the tasks that wait for it, each
  once, and one at most if it is in `Single`.  `DequeueFacts` says what `list_del` leaves;
* `CompletionsConserved`;
* `Wakeable`: no waiter of a completion in `Single` that is done is stuck.  A waiter queues
  itself and sets its state under `wait.lock` with nothing done, so a later `complete()`
  finds it first on the list and asleep or about to sleep; one that is `RUNNING` again
  has left the sleep and looks at `done` before the next.

The lemmas `TaskInvSleep`, `TaskInvWait`, `TaskInvWake`, `TaskInvSame`, `TaskInvRuns` and
`TaskInvReset` are what a module that composes `Task` cites.

### KthreadProofs

For any drivers, threads, completions, interrupts, workloads and `MaxComplete`:
`KthreadTypeCorrect`, `CompletionsConservedHolds`, `NoLostWakeupHolds`, `StorageAliveHolds`,
`HandedOutStartedHolds` and `StopResultHolds`, each `Spec => []P`.

The inductive invariant `KthreadInv` is `TaskInv` with `Protocol`:

* `Threads`: a thread is the target of one driver at most, and not of any while others
  can name it;
* `Waiting`: the two waits of the protocol are plain `wait_for_completion`, and nobody
  else waits for their completions;
* `Creation`: `create.done` is completed once, by the thread, and taken once, by its creator;
  the thread is inside `complete()` only while it is not taken.  That a wait takes it only
  with `wait.lock` free is what keeps the stack frame alive;
* `Stopping`: `kthread_stop_info` belongs to the owner of `kthread_stop_lock`; its
  completion is completed once, by the owner's thread, after its result is in `err`;
* `Late`: a thread past its function has been asked to stop, or nobody stops threads.  So
  the thread that `kthread_stop` names cannot have looked before it was named.

A step of `Task` that does not touch the protocol is shown to be `Quiet` first
(`QuietSleep`, `QuietStart`, `QuietWait`, `QuietWaitStep`, `QuietWake`, `ProtocolQuiet`);
each step of the protocol has a lemma of its own.

### Only model-checked

Liveness: `QueuedIsTaken`, `FlushReturns`, `CancelReturns`, `DestroyReturns`,
`CallbackIsCalled`, `SynchronizeCompletes`, `CreateEnds`, `StopEnds`, `TimedCallsEnd` and
`DoneIsCompleted` (fairness and ENABLED are out of the prover's reach).

## 8. Not modelled

Most lines of the repository are device drivers, firmware images in header files and
Linux sources; they are not part of this development, so that the share of lines that is
modelled is small.  Components listed as `not_modelled` in `PROJECT.json` are left out
for the reasons given there.  Of the modelled ones:

* Work queues: further queues, and a work moved between queues; the statistics; the
  2.6.18 form of `work_struct`; `schedule_work` on the shared queue (it is `queue_work` on
  a queue that is never destroyed).
* RCU: the `_bh` variants (the same functions) and the count of completed batches.  That
  each `call_rcu` under a reader pushes the delay timer further ahead needs time, which
  the model does not have.
* Tasks: drivers' open-coded wait queues, `complete_all`, the pid table.  What a driver
  does wrong with a completion is its own: one that times out leaves a late completion
  for the next wait unless it is initialised again.  `kthread_stop` may return before the
  thread has left the kernel, and may send its wakeup to a descriptor that is freed
  (`StopWake`); no property is stated about either.
* SCSI: internal commands, resets and `TaskMgmt` above `SCSILinuxAbortCommands`, dropped
  commands for debugging, scanning, removal, transports.  `SCSILinuxAbortCommands` returns
  `VMK_OK` also for a command that it left alone because another aborter had it;
  `AbortHonest` is about those it took.
