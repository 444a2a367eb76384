-------------------------------- MODULE Scsi --------------------------------
(***************************************************************************)
(* The life of a SCSI command in vmklinux (linux_scsi.c): issue, the       *)
(* driver's completion, the bottom half that hands it back to the          *)
(* vmkernel, and the two paths that abort it meanwhile, task management    *)
(* and the I/O timeout.  What keeps them apart is scmd->vmkflags under     *)
(* scmd->vmklock:                                                          *)
(*   NEED       NEED_CMDDONE, the driver still owes a completion           *)
(*   DELAY      DELAY_CMDDONE, an aborter holds the command: a completion  *)
(*              is only recorded                                           *)
(*   ATTEMPTED  CMDDONE_ATTEMPTED, a completion has been recorded          *)
(*   TIMEOUT    IO_TIMEOUT, eh_timeout is set                              *)
(*                                                                         *)
(* One host, one device: host_busy and device_busy move together and are   *)
(* one counter.  A command block is used once.  Each action is a section   *)
(* under vmklock, list_lock, or with interrupts disabled; host_lock and    *)
(* list_lock are variables where they are held over several of them.  The  *)
(* order of a done list or an abort list is left out: it is a set.  So is  *)
(* serial_number, which only tells whether the driver's abort handler is   *)
(* called: the handler promises nothing and may complete the command.      *)
(*                                                                         *)
(* stage[c], the progress of SCSILinuxQueueCommand:                        *)
(*   new       not called yet                                              *)
(*   got       command block allocated and on cmd_list                     *)
(*   locked    accepted and counted, host_lock held                        *)
(*   read      vmkflags read to set IO_TIMEOUT, host_lock held             *)
(*   timed     about to call queuecommand, host_lock held                  *)
(*   rejected  queuecommand failed, host_lock released                     *)
(*   out       returned                                                    *)
(* dpc[w], the progress of a call of SCSILinuxCmdDone: no, enter, check    *)
(*   (after the timer is deleted), add (NEED_CMDDONE cleared).  A call is  *)
(*   made by w: an aborter, the worker of the timeouts, or for command c   *)
(*   the driver or the issuer, which have it one after the other (w = c)   *)
(* apc[a], the progress of SCSILinuxAbortCommands: idle, abort (outside of *)
(*   all locks), final (list_lock held)                                    *)
(* bpc[p], the progress of SCSILinuxBH: idle, loop, dec, put, complete     *)
(***************************************************************************)
EXTENDS Integers, FiniteSets

CONSTANTS
    Cmds,           \* commands
    Timed,          \* the commands of a host with an I/O timeout
    Aborters,       \* worlds in task management
    PCPUs,
    QueueDepth,     \* min of queue_depth and can_queue
    Early,          \* whether task management names a command of Timed that
                    \* is still being issued
    Ties,           \* whether the clock may read exactly the yield time
    Worker,         \* the world of linuxSCSIWQ
    None

ASSUME ScsiAssumption ==
    /\ Timed \subseteq Cmds
    /\ IsFiniteSet(Cmds)
    /\ QueueDepth \in Nat
    /\ Early \in BOOLEAN /\ Ties \in BOOLEAN
    /\ None \notin Cmds \cup Aborters
    /\ Worker \notin Cmds \cup Aborters
    /\ Cmds \cap Aborters = {}

VARIABLES
    stage,
    flags,      \* vmkflags
    copy,       \* what the issuer that holds host_lock has read of them
    cmdList,    \* sdev->cmd_list
    freed,      \* command blocks given back by scsi_put_command
    owed,       \* accepted from the vmkernel and not yet completed to it
    busy,       \* host_busy, device_busy
    hostLock,   \* the command whose issuer holds host_lock
    listLock,   \* the aborter that holds list_lock
    drv,        \* commands the driver has
    dpc,
    timer,      \* commands whose eh_timeout is pending
    entered,    \* commands whose SCSILinuxCmdTimedOut has been entered
    work,       \* the command linuxSCSIIO_work is queued for
    worker,     \* the command SCSIProcessCmdTimedOut works on
    apc,
    aborting,   \* abort_list
    tried,      \* those of it the driver was called for
    calling,    \* the command an aborter or the worker calls scsi_done for
    ret,        \* retval is still VMK_OK
    isrDone, bhDone, running,
    scheduled,  \* PCPUs whose bottom half is to run
    bpc, cur,
    now,        \* the clock the bottom half has read: before, tie, after
    panicked    \* "Attempted double completion": the host has stopped

issueVars == <<stage, copy, hostLock>>
listVars == <<cmdList, freed, listLock>>
countVars == <<owed, busy>>
timeVars == <<timer, entered, work, worker>>
abortVars == <<apc, aborting, tried, calling, ret>>
bhVars == <<isrDone, bhDone, running, scheduled, bpc, cur, now>>
vars == <<issueVars, flags, listVars, countVars, drv, dpc, timeVars,
          abortVars, bhVars, panicked>>

Callers == Cmds \cup Aborters \cup {Worker}

Init ==
    /\ stage = [c \in Cmds |-> "new"]
    /\ flags = [c \in Cmds |-> {}]
    /\ copy = {}
    /\ cmdList = {} /\ freed = {} /\ owed = {} /\ drv = {}
    /\ busy = 0
    /\ hostLock = None /\ listLock = None
    /\ dpc = [w \in Callers |-> "no"]
    /\ timer = {} /\ entered = {}
    /\ work = None /\ worker = None
    /\ apc = [a \in Aborters |-> "idle"]
    /\ aborting = [a \in Aborters |-> {}]
    /\ tried = [a \in Aborters |-> {}]
    /\ calling = [w \in Aborters \cup {Worker} |-> None]
    /\ ret = [a \in Aborters |-> TRUE]
    /\ isrDone = [p \in PCPUs |-> {}]
    /\ bhDone = [p \in PCPUs |-> {}]
    /\ running = {} /\ scheduled = {}
    /\ bpc = [p \in PCPUs |-> "idle"]
    /\ cur = [p \in PCPUs |-> None]
    /\ now = [p \in PCPUs |-> "before"]
    /\ panicked = FALSE

Stage(c, s) == stage' = [stage EXCEPT ![c] = s]
Set(c, f) == flags' = [flags EXCEPT ![c] = @ \cup f]
Clear(c, f) == flags' = [flags EXCEPT ![c] = @ \ f]

(* Mutant: host_busy is not incremented.                                   *)
CountNot(c) == owed' = owed \cup {c} /\ UNCHANGED busy

(* ++host_busy and ++device_busy, for a command the vmkernel will see      *)
(* completed                                                               *)
Count(c) == owed' = owed \cup {c} /\ busy' = busy + 1

(* Mutant: the counter is decremented for the host and for the device.     *)
UncountTwice == busy' = busy - 2

(* --host_busy and --device_busy                                           *)
Uncount == busy' = busy - 1

(* A call of scmd->scsi_done(scmd) by w                                    *)
CallDone(w) == dpc' = [dpc EXCEPT ![w] = "enter"]

-----------------------------------------------------------------------------
(* SCSILinuxQueueCommand                                                   *)

(* scsi_get_command, vmklnx_clear_scmd, SCSILinuxInitScmd                  *)
GetCommand(c) ==
    /\ stage[c] = "new"
    /\ listLock = None
    /\ Stage(c, "got")
    /\ flags' = [flags EXCEPT ![c] = {}]
    /\ cmdList' = cmdList \cup {c}
    /\ UNCHANGED <<copy, hostLock, freed, listLock, countVars, drv, dpc,
                   timeVars, abortVars, bhVars, panicked>>

(* VMK_NO_MEMORY for the SG array, or VMK_WOULD_BLOCK: the host or device  *)
(* is blocked, in recovery or at its limit.                                *)
Refuse(c) ==
    /\ stage[c] = "got"
    /\ listLock = None
    /\ Stage(c, "out")
    /\ cmdList' = cmdList \ {c}
    /\ freed' = freed \cup {c}
    /\ UNCHANGED <<copy, hostLock, flags, listLock, countVars, drv, dpc,
                   timeVars, abortVars, bhVars, panicked>>

(* A command that is too long, or a host being removed: it is counted and  *)
(* completed with an error whatever the limits say.                        *)
FailEarly(c) ==
    /\ stage[c] = "got"
    /\ hostLock = None
    /\ Stage(c, "out")
    /\ Set(c, {"NEED"})
    /\ Count(c)
    /\ CallDone(c)
    /\ UNCHANGED <<copy, hostLock, listVars, drv, timeVars, abortVars,
                   bhVars, panicked>>

Accept(c) ==
    /\ stage[c] = "got"
    /\ hostLock = None
    /\ busy < QueueDepth
    /\ hostLock' = c
    /\ Stage(c, "locked")
    /\ Set(c, {"NEED"})
    /\ Count(c)
    /\ UNCHANGED <<copy, listVars, drv, dpc, timeVars, abortVars,
                   bhVars, panicked>>

(* The device is deleted or offline.                                       *)
FailOffline(c) ==
    /\ stage[c] = "locked"
    /\ hostLock' = None
    /\ Stage(c, "out")
    /\ CallDone(c)
    /\ UNCHANGED <<copy, flags, listVars, countVars, drv, timeVars,
                   abortVars, bhVars, panicked>>

(* vmkflags |= IO_TIMEOUT holds host_lock, not vmklock: a read ...         *)
ReadFlags(c) ==
    /\ stage[c] = "locked"
    /\ c \in Timed
    /\ copy' = flags[c]
    /\ Stage(c, "read")
    /\ UNCHANGED <<hostLock, flags, listVars, countVars, drv, dpc, timeVars,
                   abortVars, bhVars, panicked>>

(* ... and a write, then scsi_add_timer.                                   *)
AddTimer(c) ==
    /\ stage[c] = "read"
    /\ flags' = [flags EXCEPT ![c] = copy \cup {"TIMEOUT"}]
    /\ copy' = {}
    /\ timer' = timer \cup {c}
    /\ Stage(c, "timed")
    /\ UNCHANGED <<hostLock, listVars, countVars, drv, dpc, entered,
                   work, worker, abortVars, bhVars, panicked>>

AtDriver(c) == stage[c] = "timed" \/ (stage[c] = "locked" /\ c \notin Timed)

(* queuecommand: the driver takes the command ...                          *)
DriverTakes(c) ==
    /\ AtDriver(c)
    /\ drv' = drv \cup {c}
    /\ hostLock' = None
    /\ Stage(c, "out")
    /\ UNCHANGED <<copy, flags, listVars, countVars, dpc, timeVars,
                   abortVars, bhVars, panicked>>

(* ... or does not ...                                                     *)
DriverRejects(c) ==
    /\ AtDriver(c)
    /\ hostLock' = None
    /\ Stage(c, "rejected")
    /\ UNCHANGED <<copy, flags, listVars, countVars, drv, dpc, timeVars,
                   abortVars, bhVars, panicked>>

(* ... and then it is completed as busy.                                   *)
Rejected(c) ==
    /\ stage[c] = "rejected"
    /\ Stage(c, "out")
    /\ timer' = IF "TIMEOUT" \in flags[c] THEN timer \ {c} ELSE timer
    /\ IF "NEED" \in flags[c] THEN CallDone(c) ELSE UNCHANGED dpc
    /\ UNCHANGED <<copy, hostLock, flags, listVars, countVars, drv, entered,
                   work, worker, abortVars, bhVars, panicked>>

(* The driver completes a command it has.                                  *)
DriverDone(c) ==
    /\ c \in drv
    /\ drv' = drv \ {c}
    /\ CallDone(c)
    /\ UNCHANGED <<issueVars, flags, listVars, countVars, timeVars,
                   abortVars, bhVars, panicked>>

-----------------------------------------------------------------------------
(* SCSILinuxCmdDone                                                        *)

(* The command a call of w is for                                          *)
Subject(w) == IF w \in Cmds THEN w ELSE calling[w]

(* vmklock is released to delete the timer, which may have fired.          *)
DoneTimer(w) ==
    /\ dpc[w] = "enter"
    /\ "TIMEOUT" \in flags[Subject(w)]
    /\ timer' = timer \ {Subject(w)}
    /\ dpc' = [dpc EXCEPT ![w] = "check"]
    /\ UNCHANGED <<issueVars, flags, listVars, countVars, drv, entered,
                   work, worker, abortVars, bhVars, panicked>>

(* Mutant: a completion that comes during an abort is not held back.       *)
DelayIgnored(c) == FALSE

(* VMK_FLAGS_DELAY_CMDDONE is set.                                         *)
Delayed(c) == "DELAY" \in flags[c]

AtCheck(w) ==
    \/ dpc[w] = "check"
    \/ dpc[w] = "enter" /\ "TIMEOUT" \notin flags[Subject(w)]

(* A delayed completion is recorded for whoever set DELAY_CMDDONE.         *)
DoneCheck(w) ==
    LET c == Subject(w)
    IN  /\ AtCheck(w)
        /\ "NEED" \in flags[c]
        /\ IF Delayed(c)
           THEN /\ Set(c, {"ATTEMPTED"})
                /\ dpc' = [dpc EXCEPT ![w] = "no"]
           ELSE /\ Clear(c, {"NEED"})
                /\ dpc' = [dpc EXCEPT ![w] = "add"]
        /\ UNCHANGED <<issueVars, listVars, countVars, drv, timeVars,
                       abortVars, bhVars, panicked>>

(* "Attempted double completion" and VMK_NOT_REACHED                       *)
DonePanics(w) ==
    /\ AtCheck(w)
    /\ "NEED" \notin flags[Subject(w)]
    /\ panicked' = TRUE
    /\ UNCHANGED <<issueVars, flags, listVars, countVars, drv, dpc, timeVars,
                   abortVars, bhVars>>

(* SCSILinuxSignalBH: runningBH was not set.                               *)
Signal(p) == p \notin running

(* SCSILinuxScheduleCompletion, with interrupts disabled                   *)
DoneAdd(w, p) ==
    /\ dpc[w] = "add"
    /\ isrDone' = [isrDone EXCEPT ![p] = @ \cup {Subject(w)}]
    /\ running' = running \cup {p}
    /\ scheduled' = IF Signal(p) THEN scheduled \cup {p} ELSE scheduled
    /\ dpc' = [dpc EXCEPT ![w] = "no"]
    /\ UNCHANGED <<issueVars, flags, listVars, countVars, drv, timeVars,
                   abortVars, bhDone, bpc, cur, now, panicked>>

-----------------------------------------------------------------------------
(* SCSILinuxBH                                                             *)

Splice(p) ==
    /\ bhDone' = [bhDone EXCEPT ![p] = @ \cup isrDone[p]]
    /\ isrDone' = [isrDone EXCEPT ![p] = {}]

BhStart(p) ==
    /\ p \in scheduled
    /\ bpc[p] = "idle"
    /\ scheduled' = scheduled \ {p}
    /\ Splice(p)
    /\ now' = [now EXCEPT ![p] = "before"]
    /\ bpc' = [bpc EXCEPT ![p] = "loop"]
    /\ UNCHANGED <<issueVars, flags, listVars, countVars, drv, dpc,
                   timeVars, abortVars, running, cur, panicked>>

BhTakes(p, c) ==
    /\ bpc[p] = "loop"
    /\ c \in bhDone[p] /\ now[p] = "before"
    /\ cur' = [cur EXCEPT ![p] = c]
    /\ bhDone' = [bhDone EXCEPT ![p] = @ \ {c}]
    /\ bpc' = [bpc EXCEPT ![p] = "dec"]
    /\ UNCHANGED <<issueVars, flags, listVars, countVars, drv, dpc,
                   timeVars, abortVars, isrDone, running, scheduled, now,
                   panicked>>

BhCounts(p) ==
    /\ bpc[p] = "dec"
    /\ hostLock = None
    /\ Uncount
    /\ bpc' = [bpc EXCEPT ![p] = "put"]
    /\ UNCHANGED <<issueVars, flags, listVars, owed, drv, dpc, timeVars,
                   abortVars, isrDone, bhDone, running, scheduled, cur, now,
                   panicked>>

(* scsi_put_command                                                        *)
BhPuts(p) ==
    /\ bpc[p] = "put"
    /\ listLock = None
    /\ cmdList' = cmdList \ {cur[p]}
    /\ freed' = freed \cup {cur[p]}
    /\ bpc' = [bpc EXCEPT ![p] = "complete"]
    /\ UNCHANGED <<issueVars, flags, listLock, countVars, drv, dpc,
                   timeVars, abortVars, isrDone, bhDone, running, scheduled,
                   cur, now, panicked>>

(* SCSILinuxCompleteCommand, and the clock is read.                        *)
BhCompletes(p) ==
    /\ bpc[p] = "complete"
    /\ owed' = owed \ {cur[p]}
    /\ cur' = [cur EXCEPT ![p] = None]
    /\ \E t \in {"before", "after"} \cup (IF Ties THEN {"tie"} ELSE {}) :
          now' = [now EXCEPT ![p] = t]
    /\ bpc' = [bpc EXCEPT ![p] = "loop"]
    /\ UNCHANGED <<issueVars, flags, listVars, busy, drv, dpc, timeVars,
                   abortVars, isrDone, bhDone, running, scheduled, panicked>>

(* Mutant: when time is up only what the interrupts added is looked at.    *)
LeftOverNew(p) == isrDone[p] # {}

(* Something is left when time is up.                                      *)
LeftOver(p) == bhDone[p] # {} \/ isrDone[p] # {}

(* The end of the loop, with interrupts disabled: schedule again if time   *)
(* is up and commands are left, replenish if time is left and commands     *)
(* have come, otherwise stop.                                              *)
BhEnds(p) ==
    /\ bpc[p] = "loop"
    /\ bhDone[p] = {} \/ now[p] # "before"
    /\ \/ /\ now[p] = "after" /\ LeftOver(p)
          /\ scheduled' = scheduled \cup {p}
          /\ bpc' = [bpc EXCEPT ![p] = "idle"]
          /\ UNCHANGED <<isrDone, bhDone, running>>
       \/ /\ now[p] # "after" /\ isrDone[p] # {}
          /\ Splice(p)
          /\ UNCHANGED <<scheduled, bpc, running>>
       \/ /\ IF now[p] = "after" THEN ~ LeftOver(p) ELSE isrDone[p] = {}
          /\ running' = running \ {p}
          /\ bpc' = [bpc EXCEPT ![p] = "idle"]
          /\ UNCHANGED <<isrDone, bhDone, scheduled>>
    /\ UNCHANGED <<issueVars, flags, listVars, countVars, drv, dpc,
                   timeVars, abortVars, cur, now, panicked>>

-----------------------------------------------------------------------------
(* The I/O timeout                                                         *)

(* eh_timeout fires; scsi_delete_timer does not wait for the handler.      *)
TimerFires(c) ==
    /\ c \in timer
    /\ timer' = timer \ {c}
    /\ entered' = entered \cup {c}
    /\ UNCHANGED <<issueVars, flags, listVars, countVars, drv, dpc, work,
                   worker, abortVars, bhVars, panicked>>

(* The driver owes a completion and nobody aborts the command yet.         *)
MayHold(c) == "NEED" \in flags[c] /\ "DELAY" \notin flags[c]

(* SCSILinuxCmdTimedOut: take hold of the command, then initialise the one *)
(* linuxSCSIIO_work for it and queue it.                                   *)
CmdTimedOut(c) ==
    /\ c \in entered
    /\ entered' = entered \ {c}
    /\ IF MayHold(c)
       THEN /\ flags' = [flags EXCEPT ![c] = (@ \ {"TIMEOUT"}) \cup {"DELAY"}]
            /\ work' = c
       ELSE /\ Clear(c, {"TIMEOUT"})
            /\ UNCHANGED work
    /\ UNCHANGED <<issueVars, listVars, countVars, drv, dpc, timer,
                   worker, abortVars, bhVars, panicked>>

(* SCSIProcessCmdTimedOut is called, and calls the driver's abort handler. *)
WorkStarts ==
    /\ work # None /\ worker = None /\ dpc[Worker] = "no"
    /\ worker' = work
    /\ work' = None
    /\ UNCHANGED <<issueVars, flags, listVars, countVars, drv, dpc, timer,
                   entered, abortVars, bhVars, panicked>>

(* Mutant: a completion that came meanwhile is forgotten.                  *)
LetGoOnly(w, c) == Clear(c, {"DELAY"}) /\ UNCHANGED <<dpc, calling>>

(* w lets go of the command, and completes it if its completion came       *)
(* meanwhile.                                                              *)
LetGo(w, c) ==
    /\ Clear(c, {"DELAY"})
    /\ IF "ATTEMPTED" \in flags[c]
       THEN CallDone(w) /\ calling' = [calling EXCEPT ![w] = c]
       ELSE UNCHANGED <<dpc, calling>>

WorkEnds ==
    /\ worker # None
    /\ LetGo(Worker, worker)
    /\ worker' = None
    /\ UNCHANGED <<issueVars, listVars, countVars, drv, timer, entered, work,
                   apc, aborting, tried, ret, bhVars, panicked>>

-----------------------------------------------------------------------------
(* SCSILinuxAbortCommands                                                  *)

(* Mutant: a command that is being aborted is taken again.                 *)
AbortableAlways(c) ==
    "NEED" \in flags[c] /\ "ATTEMPTED" \notin flags[c]

(* Worth an abort, and no abort of it is in progress.                      *)
Abortable(c) ==
    /\ "NEED" \in flags[c]
    /\ "ATTEMPTED" \notin flags[c]
    /\ "DELAY" \notin flags[c]

(* The first loop, under list_lock, for the commands task management names *)
AbortScan(a, named) ==
    LET take == {c \in cmdList \cap named : Abortable(c)}
    IN  /\ apc[a] = "idle"
        /\ listLock = None
        /\ take # {}
        /\ flags' = [c \in Cmds |-> IF c \in take THEN flags[c] \cup {"DELAY"}
                                                  ELSE flags[c]]
        /\ cmdList' = cmdList \ take
        /\ aborting' = [aborting EXCEPT ![a] = take]
        /\ tried' = [tried EXCEPT ![a] = {}]
        /\ ret' = [ret EXCEPT ![a] = TRUE]
        /\ apc' = [apc EXCEPT ![a] = "abort"]
        /\ UNCHANGED <<issueVars, freed, listLock, countVars, drv, dpc,
                       timeVars, calling, bhVars, panicked>>

(* Mutant: the word of the abort handler is taken for it.                  *)
AbortStatusTrusted(c) == TRUE

(* SCSILinuxAbortCommand once the handler has returned: whatever it says,  *)
(* VMK_OK means that a completion was recorded.                            *)
AbortStatus(c) == "ATTEMPTED" \in flags[c]

AbortOne(a, c) ==
    /\ apc[a] = "abort"
    /\ c \in aborting[a] \ tried[a]
    /\ tried' = [tried EXCEPT ![a] = @ \cup {c}]
    /\ ret' = [ret EXCEPT ![a] = @ /\ AbortStatus(c)]
    /\ UNCHANGED <<issueVars, flags, listVars, countVars, drv, dpc,
                   timeVars, apc, aborting, calling, bhVars, panicked>>

(* The last loop, all of it under list_lock                                *)
AbortLocks(a) ==
    /\ apc[a] = "abort"
    /\ tried[a] = aborting[a]
    /\ listLock = None
    /\ listLock' = a
    /\ apc' = [apc EXCEPT ![a] = "final"]
    /\ UNCHANGED <<issueVars, flags, cmdList, freed, countVars, drv, dpc,
                   timeVars, aborting, tried, calling, ret, bhVars, panicked>>

(* Mutant: the abort waits until the command is back at the vmkernel.      *)
CallOverCompleted(a) ==
    dpc[a] = "no" /\ (calling[a] # None => calling[a] \notin owed)

(* The call of scsi_done, if there was one, has returned.                  *)
CallOver(a) == dpc[a] = "no"

(* Mutant: the command is left on the local list.                          *)
ListBackNot(c) == UNCHANGED cmdList

(* list_move_tail to cmd_list                                              *)
ListBack(c) == cmdList' = cmdList \cup {c}

AbortEnds(a, c) ==
    /\ apc[a] = "final"
    /\ CallOver(a)
    /\ c \in aborting[a]
    /\ LetGo(a, c)
    /\ ListBack(c)
    /\ aborting' = [aborting EXCEPT ![a] = @ \ {c}]
    /\ UNCHANGED <<issueVars, freed, listLock, countVars, drv,
                   timeVars, apc, tried, ret, bhVars, panicked>>

AbortReturns(a) ==
    /\ apc[a] = "final"
    /\ CallOver(a)
    /\ aborting[a] = {}
    /\ listLock' = None
    /\ calling' = [calling EXCEPT ![a] = None]
    /\ tried' = [tried EXCEPT ![a] = {}]
    /\ apc' = [apc EXCEPT ![a] = "idle"]
    /\ UNCHANGED <<issueVars, flags, cmdList, freed, countVars, drv, dpc,
                   timeVars, aborting, ret, bhVars, panicked>>

-----------------------------------------------------------------------------
IssueStep(c) ==
    \/ Refuse(c) \/ FailEarly(c) \/ Accept(c)
    \/ FailOffline(c) \/ ReadFlags(c) \/ AddTimer(c)
    \/ DriverTakes(c) \/ DriverRejects(c) \/ Rejected(c)

DoneStep(w) ==
    \/ DoneTimer(w) \/ DoneCheck(w) \/ DonePanics(w)
    \/ \E p \in PCPUs : DoneAdd(w, p)

BhStep(p) ==
    \/ BhStart(p) \/ (\E c \in Cmds : BhTakes(p, c))
    \/ BhCounts(p) \/ BhPuts(p) \/ BhCompletes(p) \/ BhEnds(p)

WorkStep == WorkStarts \/ WorkEnds

AbortStep(a) ==
    \/ \E c \in Cmds : AbortOne(a, c) \/ AbortEnds(a, c)
    \/ AbortLocks(a) \/ AbortReturns(a)

(* The commands task management may name                                   *)
Nameable == {c \in Cmds : stage[c] = "out" \/ c \notin Timed \/ Early}

Steps ==
    \/ \E c \in Cmds : GetCommand(c) \/ IssueStep(c) \/ DriverDone(c)
    \/ \E w \in Callers : DoneStep(w)
    \/ \E c \in Cmds : TimerFires(c) \/ CmdTimedOut(c)
    \/ WorkStep
    \/ \E p \in PCPUs : BhStep(p)
    \/ \E a \in Aborters : \/ AbortStep(a)
                           \/ \E named \in SUBSET Nameable : AbortScan(a, named)

Next == ~ panicked /\ Steps

(* Bottom halves, timer handlers and the work queue run, and calls in      *)
(* progress go on, spin locks being granted to those who keep asking.      *)
(* Neither the driver nor the vmkernel promises anything: a command need   *)
(* never be completed, aborted or issued.                                  *)
Fairness ==
    /\ \A c \in Cmds : /\ WF_vars(~ panicked /\ IssueStep(c))
                       /\ WF_vars(~ panicked /\ CmdTimedOut(c))
    /\ \A w \in Callers : WF_vars(~ panicked /\ DoneStep(w))
    /\ WF_vars(~ panicked /\ WorkStep)
    /\ \A p \in PCPUs : SF_vars(~ panicked /\ BhStep(p))
    /\ \A a \in Aborters : SF_vars(~ panicked /\ AbortStep(a))

Spec == Init /\ [][Next]_vars
FairSpec == Spec /\ Fairness

-----------------------------------------------------------------------------
(* Properties                                                              *)

Flags == {"NEED", "DELAY", "ATTEMPTED", "TIMEOUT"}
Stages == {"new", "got", "locked", "read", "timed", "rejected", "out"}

TypeOK ==
    /\ stage \in [Cmds -> Stages]
    /\ flags \in [Cmds -> SUBSET Flags]
    /\ copy \subseteq Flags
    /\ cmdList \subseteq Cmds /\ freed \subseteq Cmds
    /\ owed \subseteq Cmds /\ drv \subseteq Cmds
    /\ busy \in Nat
    /\ hostLock \in Cmds \cup {None} /\ listLock \in Aborters \cup {None}
    /\ dpc \in [Callers -> {"no", "enter", "check", "add"}]
    /\ timer \subseteq Cmds /\ entered \subseteq Cmds
    /\ work \in Cmds \cup {None} /\ worker \in Cmds \cup {None}
    /\ apc \in [Aborters -> {"idle", "abort", "final"}]
    /\ aborting \in [Aborters -> SUBSET Cmds]
    /\ tried \in [Aborters -> SUBSET Cmds]
    /\ calling \in [Aborters \cup {Worker} -> Cmds \cup {None}]
    /\ panicked \in BOOLEAN
    /\ ret \in [Aborters -> BOOLEAN]
    /\ isrDone \in [PCPUs -> SUBSET Cmds] /\ bhDone \in [PCPUs -> SUBSET Cmds]
    /\ running \subseteq PCPUs /\ scheduled \subseteq PCPUs
    /\ bpc \in [PCPUs -> {"idle", "loop", "dec", "put", "complete"}]
    /\ cur \in [PCPUs -> Cmds \cup {None}]
    /\ now \in [PCPUs -> {"before", "tie", "after"}]

InIssue(c) == stage[c] \in {"locked", "read", "timed", "rejected"}

(* A call of SCSILinuxCmdDone for c is in progress.                        *)
Call(c, w) == Subject(w) = c /\ dpc[w] # "no"

(* The call has cleared NEED_CMDDONE, as only one does.                    *)
Adding(c, w) == Subject(w) = c /\ dpc[w] = "add"

(* A call takes c on: NEED_CMDDONE is still set, or this call cleared it.  *)
InDone(c) ==
    \E w \in Callers : Adding(c, w) \/ (Call(c, w) /\ "NEED" \in flags[c])

(* The completion of c is recorded and waits for whoever holds c.          *)
Parked(c) ==
    /\ {"NEED", "DELAY", "ATTEMPTED"} \subseteq flags[c]
    /\ \A w \in Callers : ~ Call(c, w)

(* The bottom half of PCPU p has c.                                        *)
AtBh(c, p) == c \in isrDone[p] \cup bhDone[p] \/ cur[p] = c

(* Every command accepted from the vmkernel and not yet completed to it is *)
(* in exactly one place, from which it will go on: in issue, with the      *)
(* driver, in SCSILinuxCmdDone, parked by an abort, or in one list or the  *)
(* hands of one bottom half.  So no command is lost, completed twice or    *)
(* completed while the driver may still use it, however issue, completion, *)
(* timeout and aborts interleave.                                          *)
OnePlace ==
    \A c \in Cmds :
        /\ c \in owed <=> \/ InIssue(c) \/ c \in drv \/ InDone(c) \/ Parked(c)
                         \/ \E p \in PCPUs : AtBh(c, p)
        /\ InIssue(c) => c \notin drv /\ ~ InDone(c) /\ ~ Parked(c)
        /\ c \in drv => ~ InDone(c) /\ ~ Parked(c)
        /\ \A p \in PCPUs : AtBh(c, p) =>
              /\ ~ InIssue(c) /\ c \notin drv /\ ~ InDone(c) /\ ~ Parked(c)
              /\ \A q \in PCPUs : AtBh(c, q) => q = p
              /\ c \notin isrDone[p] \cap bhDone[p]
              /\ cur[p] = c => c \notin isrDone[p] \cup bhDone[p]
        /\ \A v, w \in Callers :
              Adding(c, v) /\ Adding(c, w) => v = w

Holding(a, c) == c \in aborting[a]

(* DELAY_CMDDONE is set as long as one aborter, timeout work or timeout    *)
(* worker holds the command, and never by two or by none: nobody lets go   *)
(* of a command another one still aborts, and no command is held for ever. *)
OneHolder ==
    \A c \in Cmds :
        /\ "DELAY" \in flags[c] <=> \/ \E a \in Aborters : Holding(a, c)
                                   \/ work = c \/ worker = c
        /\ ~ (work = c /\ worker = c)
        /\ \A a \in Aborters : Holding(a, c) =>
              /\ work # c /\ worker # c
              /\ \A b \in Aborters : Holding(b, c) => b = a

(* A held command is not given back to the allocator, and is off the done  *)
(* lists; scsi_put_command finds its command on cmd_list, never on a local *)
(* abort_list.                                                             *)
HeldNotFreed ==
    /\ \A c \in Cmds : "DELAY" \in flags[c] => c \in owed \ freed
    /\ \A p \in PCPUs : bpc[p] \in {"dec", "put"} => cur[p] \in cmdList

(* SCSILinuxCmdDone is never called for a command that owes no completion: *)
(* "Attempted double completion" and VMK_NOT_REACHED are not reached.      *)
NoDoubleCompletion == ~ panicked

(* A done list that is not empty has a bottom half that will look at it,   *)
(* and a bottom half that is started finds runningBH set and a command on  *)
(* its lists, as SCSILinuxBH asserts.                                      *)
BhPending ==
    \A p \in PCPUs :
        /\ isrDone[p] \cup bhDone[p] # {} => p \in scheduled \/ bpc[p] # "idle"
        /\ p \in scheduled => /\ bpc[p] = "idle" /\ p \in running
                              /\ isrDone[p] \cup bhDone[p] # {}

(* SCSILinuxAbortCommands returns VMK_OK only if the driver is done with   *)
(* every command it was asked to abort.                                    *)
AbortHonest ==
    \A a \in Aborters : apc[a] = "final" /\ ret[a] =>
        \A c \in tried[a] : c \notin drv

(* host_busy is the number of commands accepted and not yet on their last  *)
(* way to the vmkernel.                                                    *)
BusyCount ==
    busy = Cardinality({c \in owed : \A p \in PCPUs :
                          ~ (cur[p] = c /\ bpc[p] \in {"put", "complete"})})

(* A command the driver is done with is completed to the vmkernel.         *)
DoneIsCompleted == \A c \in Cmds : InDone(c) ~> (c \notin owed \/ panicked)

(* What the vmkernel sees of a command                                     *)
PlaceOf(c) ==
    IF InIssue(c) THEN "issue"
    ELSE IF c \in drv THEN "driver"
    ELSE IF c \in owed
         THEN IF "NEED" \in flags[c] THEN "returned" ELSE "finished"
    ELSE IF stage[c] = "out" THEN "over" ELSE "new"

(* The commands that are really being aborted, whatever their flags say    *)
HeldCmds ==
    (UNION {aborting[a] : a \in Aborters}) \cup ({work, worker} \ {None})

Life == INSTANCE CommandLife WITH place <- [c \in Cmds |-> PlaceOf(c)],
                                  held <- HeldCmds

(* The adapter keeps the promises of CommandLife: with DELAY_CMDDONE and   *)
(* NEED_CMDDONE alone, a command goes back once, not while it is held, and *)
(* is not held twice.                                                      *)
LifeSpec == Life!Spec
=============================================================================
