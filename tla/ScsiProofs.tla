----------------------------- MODULE ScsiProofs -----------------------------
(***************************************************************************)
(* Proofs about Scsi, for any numbers of commands, aborters and            *)
(* processors: the safety properties of the scsi run, and that the adapter *)
(* implements CommandLife.                                                 *)
(***************************************************************************)
EXTENDS Scsi, FiniteSetTheorems, TLAPS

(* One command with a timeout at most, and task management that names only *)
(* commands that have been issued: without the first, linuxSCSIIO_work is  *)
(* overwritten; without the second, vmkflags.                              *)
Tame == ~ Early /\ \A c, d \in Timed : c = d

-----------------------------------------------------------------------------
(* The inductive invariant                                                 *)

(* TypeOK but for the sign of host_busy; a call is for a command, and a    *)
(* bottom half has one from taking it to completing it.                    *)
Typing ==
    /\ stage \in [Cmds -> Stages]
    /\ flags \in [Cmds -> SUBSET Flags]
    /\ copy \subseteq Flags
    /\ cmdList \subseteq Cmds /\ freed \subseteq Cmds
    /\ owed \subseteq Cmds /\ drv \subseteq Cmds
    /\ busy \in Int
    /\ hostLock \in Cmds \cup {None} /\ listLock \in Aborters \cup {None}
    /\ dpc \in [Callers -> {"no", "enter", "check", "add"}]
    /\ timer \subseteq Cmds /\ entered \subseteq Cmds
    /\ work \in Cmds \cup {None} /\ worker \in Cmds \cup {None}
    /\ apc \in [Aborters -> {"idle", "abort", "final"}]
    /\ aborting \in [Aborters -> SUBSET Cmds]
    /\ tried \in [Aborters -> SUBSET Cmds]
    /\ calling \in [Aborters \cup {Worker} -> Cmds \cup {None}]
    /\ panicked \in BOOLEAN
    /\ ret \in [Aborters -> BOOLEAN]
    /\ isrDone \in [PCPUs -> SUBSET Cmds] /\ bhDone \in [PCPUs -> SUBSET Cmds]
    /\ running \subseteq PCPUs /\ scheduled \subseteq PCPUs
    /\ bpc \in [PCPUs -> {"idle", "loop", "dec", "put", "complete"}]
    /\ cur \in [PCPUs -> Cmds \cup {None}]
    /\ now \in [PCPUs -> {"before", "tie", "after"}]
    /\ \A w \in Callers : dpc[w] # "no" => Subject(w) \in Cmds
    /\ \A p \in PCPUs : cur[p] # None <=> bpc[p] \in {"dec", "put", "complete"}

Given(c) == stage[c] \notin {"new", "got"}

(* The issuer: what is true of a command before it is out.                 *)
Issue ==
    \A c \in Cmds :
        /\ hostLock = c <=> stage[c] \in {"locked", "read", "timed"}
        /\ ~ Given(c) => flags[c] = {} /\ c \notin drv /\ dpc[c] = "no"
        /\ InIssue(c) \/ c \in drv => /\ "NEED" \in flags[c]
                                     /\ "ATTEMPTED" \notin flags[c]
                                     /\ dpc[c] = "no"
        /\ c \in drv => stage[c] = "out"
        /\ c \in Timed /\ stage[c] \in {"locked", "read"} =>
              flags[c] = {"NEED"}
        /\ stage[c] = "read" => c \in Timed /\ copy = flags[c]

(* Timers, timeout work and aborters only have commands that are past the  *)
(* unlocked write of vmkflags.                                             *)
Ripe(c) == c \in Timed /\ stage[c] \in {"timed", "rejected", "out"}

Reach ==
    /\ \A c \in timer \cup entered : Ripe(c)
    /\ work # None => Ripe(work)
    /\ worker # None => Ripe(worker)
    /\ \A a \in Aborters : \A c \in aborting[a] :
          Given(c) /\ (c \in Timed => stage[c] = "out")

(* Whoever calls scsi_done for a recorded completion has let go and does   *)
(* nothing else.                                                           *)
Calls ==
    /\ \A w \in Aborters \cup {Worker} : dpc[w] # "no" =>
          "ATTEMPTED" \in flags[calling[w]]
    /\ worker # None => dpc[Worker] = "no"
    /\ \A a \in Aborters :
          /\ apc[a] = "idle" => aborting[a] = {}
          /\ apc[a] # "final" => dpc[a] = "no"

Control == Issue /\ Reach /\ Calls

(* A command that still needs its completion is in issue, with the driver, *)
(* in a call, or parked.                                                   *)
NeedPlace(c) ==
    "NEED" \in flags[c] =>
        \/ InIssue(c) \/ c \in drv
        \/ \E w \in Callers : Call(c, w)
        \/ {"DELAY", "ATTEMPTED"} \subseteq flags[c]

(* A command that is owed still needs its completion, or a call or a       *)
(* bottom half has it ...                                                  *)
OwedPlace(c) ==
    c \in owed <=> \/ "NEED" \in flags[c]
                   \/ \E w \in Callers : Adding(c, w)
                   \/ \E p \in PCPUs : AtBh(c, p)

(* ... and only one of them.                                               *)
AddPlace(c) ==
    \A w \in Callers : Adding(c, w) =>
        /\ "NEED" \notin flags[c] /\ Given(c)
        /\ \A v \in Callers : Adding(c, v) => v = w
        /\ \A p \in PCPUs : ~ AtBh(c, p)

BhPlace(c) ==
    \A p \in PCPUs : AtBh(c, p) =>
        /\ "NEED" \notin flags[c] /\ Given(c)
        /\ \A q \in PCPUs : AtBh(c, q) => q = p
        /\ c \notin isrDone[p] \cap bhDone[p]
        /\ cur[p] = c => c \notin isrDone[p] \cup bhDone[p]

Places ==
    \A c \in Cmds : NeedPlace(c) /\ OwedPlace(c) /\ AddPlace(c) /\ BhPlace(c)

(* OneHolder, and a held command still needs its completion.               *)
Holders ==
    /\ OneHolder
    /\ \A c \in Cmds : "DELAY" \in flags[c] => "NEED" \in flags[c]

(* A block that is in use is on cmd_list or on the list of its aborter.    *)
Freeing(c) == \E p \in PCPUs : cur[p] = c /\ bpc[p] = "complete"

Blocks ==
    \A c \in Cmds :
        /\ c \in owed /\ ~ Freeing(c) => c \notin freed
        /\ stage[c] \in {"new", "got"} => c \notin freed
        /\ stage[c] # "new" /\ c \notin freed =>
              c \in cmdList \/ \E a \in Aborters : Holding(a, c)

(* runningBH                                                               *)
Halves ==
    \A p \in PCPUs :
        /\ p \in running <=> p \in scheduled \/ bpc[p] # "idle"
        /\ now[p] # "tie"

(* VMK_OK so far means that the completions have been recorded.            *)
Recorded ==
    \A a \in Aborters : ret[a] => \A c \in tried[a] : "ATTEMPTED" \in flags[c]

(* The commands host_busy counts                                           *)
Counted == {c \in owed : \A p \in PCPUs :
               ~ (cur[p] = c /\ bpc[p] \in {"put", "complete"})}

-----------------------------------------------------------------------------
(* Every step keeps each part of the invariant: one case for each action   *)
(* that can disturb the part, the others together by their actor.          *)

(* No type assumption of the other parts is needed.                        *)
LEMMA TypingStep ==
    ASSUME Typing, Next
    PROVE  Typing'
<1>1. ASSUME NEW c \in Cmds, GetCommand(c) PROVE Typing'
  BY <1>1, ScsiAssumption
     DEF GetCommand, Stage, Typing, Subject, Callers, Stages, Flags,
         issueVars, listVars, countVars, timeVars, abortVars, bhVars
<1>2. ASSUME NEW c \in Cmds, Refuse(c) PROVE Typing'
  BY <1>2, ScsiAssumption
     DEF Refuse, Stage, Typing, Subject, Callers, Stages, Flags, issueVars,
         listVars, countVars, timeVars, abortVars, bhVars
<1>3. ASSUME NEW c \in Cmds, FailEarly(c) PROVE Typing'
  BY <1>3, ScsiAssumption
     DEF FailEarly, Stage, Set, Count, CallDone, Typing, Subject, Callers,
         Stages, Flags, issueVars, listVars, countVars, timeVars, abortVars,
         bhVars
<1>4. ASSUME NEW c \in Cmds, Accept(c) PROVE Typing'
  BY <1>4, ScsiAssumption
     DEF Accept, Stage, Set, Count, Typing, Subject, Callers, Stages, Flags,
         issueVars, listVars, countVars, timeVars, abortVars, bhVars
<1>5. ASSUME NEW c \in Cmds, FailOffline(c) PROVE Typing'
  BY <1>5, ScsiAssumption
     DEF FailOffline, Stage, CallDone, Typing, Subject, Callers, Stages,
         Flags, issueVars, listVars, countVars, timeVars, abortVars, bhVars
<1>6. ASSUME NEW c \in Cmds, ReadFlags(c) PROVE Typing'
  BY <1>6, ScsiAssumption
     DEF ReadFlags, Stage, Typing, Subject, Callers, Stages, Flags, issueVars,
         listVars, countVars, timeVars, abortVars, bhVars
<1>7. ASSUME NEW c \in Cmds, AddTimer(c) PROVE Typing'
  BY <1>7, ScsiAssumption
     DEF AddTimer, Stage, Typing, Subject, Callers, Stages, Flags, issueVars,
         listVars, countVars, timeVars, abortVars, bhVars
<1>8. ASSUME NEW c \in Cmds, DriverTakes(c) PROVE Typing'
  BY <1>8, ScsiAssumption
     DEF DriverTakes, Stage, AtDriver, Typing, Subject, Callers, Stages,
         Flags, issueVars, listVars, countVars, timeVars, abortVars, bhVars
<1>9. ASSUME NEW c \in Cmds, DriverRejects(c) PROVE Typing'
  BY <1>9, ScsiAssumption
     DEF DriverRejects, Stage, AtDriver, Typing, Subject, Callers, Stages,
         Flags, issueVars, listVars, countVars, timeVars, abortVars, bhVars
<1>10. ASSUME NEW c \in Cmds, Rejected(c) PROVE Typing'
  BY <1>10, ScsiAssumption
     DEF Rejected, Stage, CallDone, Typing, Subject, Callers, Stages, Flags,
         issueVars, listVars, countVars, timeVars, abortVars, bhVars
<1>11. ASSUME NEW c \in Cmds, DriverDone(c) PROVE Typing'
  BY <1>11, ScsiAssumption
     DEF DriverDone, CallDone, Typing, Subject, Callers, Stages, Flags,
         issueVars, listVars, countVars, timeVars, abortVars, bhVars
<1>12. ASSUME NEW w \in Callers, DoneTimer(w) PROVE Typing'
  BY <1>12, ScsiAssumption
     DEF DoneTimer, Subject, Typing, Callers, Stages, Flags, issueVars,
         listVars, countVars, timeVars, abortVars, bhVars
<1>13. ASSUME NEW w \in Callers, DoneCheck(w) PROVE Typing'
  BY <1>13, ScsiAssumption, SMTT(60)
     DEF DoneCheck, Subject, AtCheck, Delayed, Set, Clear, Typing, Callers,
         Stages, Flags, issueVars, listVars, countVars, timeVars, abortVars,
         bhVars
<1>14. ASSUME NEW w \in Callers, DonePanics(w) PROVE Typing'
  BY <1>14, ScsiAssumption
     DEF DonePanics, Typing, Subject, Callers, Stages, Flags, issueVars,
         listVars, countVars, timeVars, abortVars, bhVars
<1>15. ASSUME NEW w \in Callers, NEW p \in PCPUs, DoneAdd(w, p) PROVE Typing'
  BY <1>15, ScsiAssumption
     DEF DoneAdd, Subject, Signal, Typing, Callers, Stages, Flags, issueVars,
         listVars, countVars, timeVars, abortVars, bhVars
<1>16. ASSUME NEW p \in PCPUs, BhStart(p) PROVE Typing'
  BY <1>16, ScsiAssumption
     DEF BhStart, Splice, Typing, Subject, Callers, Stages, Flags, issueVars,
         listVars, countVars, timeVars, abortVars, bhVars
<1>17. ASSUME NEW p \in PCPUs, NEW c \in Cmds, BhTakes(p, c) PROVE Typing'
  BY <1>17, ScsiAssumption
     DEF BhTakes, Typing, Subject, Callers, Stages, Flags, issueVars,
         listVars, countVars, timeVars, abortVars, bhVars
<1>18. ASSUME NEW p \in PCPUs, BhCounts(p) PROVE Typing'
  BY <1>18, ScsiAssumption
     DEF BhCounts, Uncount, Typing, Subject, Callers, Stages, Flags,
         issueVars, listVars, countVars, timeVars, abortVars, bhVars
<1>19. ASSUME NEW p \in PCPUs, BhPuts(p) PROVE Typing'
  BY <1>19, ScsiAssumption
     DEF BhPuts, Typing, Subject, Callers, Stages, Flags, issueVars, listVars,
         countVars, timeVars, abortVars, bhVars
<1>20. ASSUME NEW p \in PCPUs, BhCompletes(p) PROVE Typing'
  BY <1>20, ScsiAssumption
     DEF BhCompletes, Typing, Subject, Callers, Stages, Flags, issueVars,
         listVars, countVars, timeVars, abortVars, bhVars
<1>21. ASSUME NEW p \in PCPUs, BhEnds(p) PROVE Typing'
  BY <1>21, ScsiAssumption
     DEF BhEnds, LeftOver, Splice, Typing, Subject, Callers, Stages, Flags,
         issueVars, listVars, countVars, timeVars, abortVars, bhVars
<1>22. ASSUME NEW c \in Cmds, TimerFires(c) PROVE Typing'
  BY <1>22, ScsiAssumption
     DEF TimerFires, Typing, Subject, Callers, Stages, Flags, issueVars,
         listVars, countVars, timeVars, abortVars, bhVars
<1>23. ASSUME NEW c \in Cmds, CmdTimedOut(c) PROVE Typing'
  BY <1>23, ScsiAssumption
     DEF CmdTimedOut, MayHold, Clear, Typing, Subject, Callers, Stages, Flags,
         issueVars, listVars, countVars, timeVars, abortVars, bhVars
<1>24. ASSUME WorkStarts PROVE Typing'
  BY <1>24, ScsiAssumption
     DEF WorkStarts, Typing, Subject, Callers, Stages, Flags, issueVars,
         listVars, countVars, timeVars, abortVars, bhVars
<1>25. ASSUME WorkEnds PROVE Typing'
  BY <1>25, ScsiAssumption
     DEF WorkEnds, LetGo, Clear, CallDone, Typing, Subject, Callers, Stages,
         Flags, issueVars, listVars, countVars, timeVars, abortVars, bhVars
<1>26. ASSUME NEW a \in Aborters, NEW named \in SUBSET Nameable,
             AbortScan(a, named)
      PROVE  Typing'
  BY <1>26, ScsiAssumption
     DEF AbortScan, Abortable, Nameable, Typing, Subject, Callers, Stages,
         Flags, issueVars, listVars, countVars, timeVars, abortVars, bhVars
<1>27. ASSUME NEW a \in Aborters, NEW c \in Cmds, AbortOne(a, c) PROVE Typing'
  BY <1>27, ScsiAssumption
     DEF AbortOne, AbortStatus, Typing, Subject, Callers, Stages, Flags,
         issueVars, listVars, countVars, timeVars, abortVars, bhVars
<1>28. ASSUME NEW a \in Aborters, AbortLocks(a) PROVE Typing'
  BY <1>28, ScsiAssumption
     DEF AbortLocks, Typing, Subject, Callers, Stages, Flags, issueVars,
         listVars, countVars, timeVars, abortVars, bhVars
<1>29. ASSUME NEW a \in Aborters, NEW c \in Cmds, AbortEnds(a, c)
      PROVE  Typing'
  BY <1>29, ScsiAssumption, SMTT(60)
     DEF AbortEnds, CallOver, LetGo, ListBack, Clear, CallDone, Typing,
         Subject, Callers, Stages, Flags, issueVars, listVars, countVars,
         timeVars, abortVars, bhVars
<1>30. ASSUME NEW a \in Aborters, AbortReturns(a) PROVE Typing'
  BY <1>30, ScsiAssumption
     DEF AbortReturns, CallOver, Typing, Subject, Callers, Stages, Flags,
         issueVars, listVars, countVars, timeVars, abortVars, bhVars
<1> QED
  BY <1>1, <1>2, <1>3, <1>4, <1>5, <1>6, <1>7, <1>8, <1>9, <1>10, <1>11,
     <1>12, <1>13, <1>14, <1>15, <1>16, <1>17, <1>18, <1>19, <1>20, <1>21,
     <1>22, <1>23, <1>24, <1>25, <1>26, <1>27, <1>28, <1>29, <1>30
     DEF Next, Steps, IssueStep, DoneStep, WorkStep, BhStep, AbortStep

(* ATTEMPTED is never seen while the command is in issue or with the       *)
(* driver: the calls of aborters need it, and nobody can set it before     *)
(* the driver or the issuer has called SCSILinuxCmdDone.                   *)
LEMMA IssueHolds ==
    ASSUME Tame, Typing, Control, Next
    PROVE  Issue'
<1>1. ASSUME NEW c \in Cmds, GetCommand(c) PROVE Issue'
  BY <1>1, ScsiAssumption
     DEF GetCommand, Stage, Tame, Typing, Callers, Stages, Flags, issueVars,
         listVars, countVars, timeVars, abortVars, bhVars, Control, Issue,
         Reach, Calls, Given, Ripe, InIssue, Subject
<1>2. ASSUME NEW c \in Cmds, Refuse(c) PROVE Issue'
  BY <1>2, ScsiAssumption
     DEF Refuse, Stage, Tame, Typing, Callers, Stages, Flags, issueVars,
         listVars, countVars, timeVars, abortVars, bhVars, Control, Issue,
         Reach, Calls, Given, Ripe, InIssue, Subject
<1>3. ASSUME NEW c \in Cmds, FailEarly(c) PROVE Issue'
  BY <1>3, ScsiAssumption
     DEF FailEarly, Stage, Set, Count, CallDone, Tame, Typing, Callers,
         Stages, Flags, issueVars, listVars, countVars, timeVars, abortVars,
         bhVars, Control, Issue, Reach, Calls, Given, Ripe, InIssue, Subject
<1>4. ASSUME NEW c \in Cmds, Accept(c) PROVE Issue'
  BY <1>4, ScsiAssumption
     DEF Accept, Stage, Set, Count, Tame, Typing, Callers, Stages, Flags,
         issueVars, listVars, countVars, timeVars, abortVars, bhVars, Control,
         Issue, Reach, Calls, Given, Ripe, InIssue, Subject
<1>5. ASSUME NEW c \in Cmds, FailOffline(c) PROVE Issue'
  BY <1>5, ScsiAssumption
     DEF FailOffline, Stage, CallDone, Tame, Typing, Callers, Stages, Flags,
         issueVars, listVars, countVars, timeVars, abortVars, bhVars, Control,
         Issue, Reach, Calls, Given, Ripe, InIssue, Subject
<1>6. ASSUME NEW c \in Cmds, ReadFlags(c) PROVE Issue'
  BY <1>6, ScsiAssumption
     DEF ReadFlags, Stage, Tame, Typing, Callers, Stages, Flags, issueVars,
         listVars, countVars, timeVars, abortVars, bhVars, Control, Issue,
         Reach, Calls, Given, Ripe, InIssue, Subject
<1>7. ASSUME NEW c \in Cmds, AddTimer(c) PROVE Issue'
  BY <1>7, ScsiAssumption
     DEF AddTimer, Stage, Tame, Typing, Callers, Stages, Flags, issueVars,
         listVars, countVars, timeVars, abortVars, bhVars, Control, Issue,
         Reach, Calls, Given, Ripe, InIssue, Subject
<1>8. ASSUME NEW c \in Cmds, DriverTakes(c) PROVE Issue'
  BY <1>8, ScsiAssumption
     DEF DriverTakes, Stage, AtDriver, Tame, Typing, Callers, Stages, Flags,
         issueVars, listVars, countVars, timeVars, abortVars, bhVars, Control,
         Issue, Reach, Calls, Given, Ripe, InIssue, Subject
<1>9. ASSUME NEW c \in Cmds, DriverRejects(c) PROVE Issue'
  BY <1>9, ScsiAssumption
     DEF DriverRejects, Stage, AtDriver, Tame, Typing, Callers, Stages, Flags,
         issueVars, listVars, countVars, timeVars, abortVars, bhVars, Control,
         Issue, Reach, Calls, Given, Ripe, InIssue, Subject
<1>10. ASSUME NEW c \in Cmds, Rejected(c) PROVE Issue'
  BY <1>10, ScsiAssumption
     DEF Rejected, Stage, CallDone, Tame, Typing, Callers, Stages, Flags,
         issueVars, listVars, countVars, timeVars, abortVars, bhVars, Control,
         Issue, Reach, Calls, Given, Ripe, InIssue, Subject
<1>11. ASSUME NEW c \in Cmds, DriverDone(c) PROVE Issue'
  BY <1>11, ScsiAssumption
     DEF DriverDone, CallDone, Tame, Typing, Callers, Stages, Flags,
         issueVars, listVars, countVars, timeVars, abortVars, bhVars, Control,
         Issue, Reach, Calls, Given, Ripe, InIssue, Subject
<1>12. ASSUME NEW w \in Callers, DoneTimer(w) PROVE Issue'
  BY <1>12, ScsiAssumption
     DEF DoneTimer, Subject, Tame, Typing, Callers, Stages, Flags, issueVars,
         listVars, countVars, timeVars, abortVars, bhVars, Control, Issue,
         Reach, Calls, Given, Ripe, InIssue
<1>13. ASSUME NEW w \in Callers, DoneCheck(w) PROVE Issue'
  BY <1>13, ScsiAssumption
     DEF DoneCheck, Subject, AtCheck, Delayed, Set, Clear, Tame, Typing,
         Callers, Stages, Flags, issueVars, listVars, countVars, timeVars,
         abortVars, bhVars, Control, Issue, Reach, Calls, Given, Ripe, InIssue
<1>14. ASSUME NEW w \in Callers, DonePanics(w) PROVE Issue'
  BY <1>14, ScsiAssumption
     DEF DonePanics, Tame, Typing, Callers, Stages, Flags, issueVars,
         listVars, countVars, timeVars, abortVars, bhVars, Control, Issue,
         Reach, Calls, Given, Ripe, InIssue, Subject
<1>15. ASSUME NEW w \in Callers, NEW p \in PCPUs, DoneAdd(w, p) PROVE Issue'
  BY <1>15, ScsiAssumption
     DEF DoneAdd, Subject, Signal, Tame, Typing, Callers, Stages, Flags,
         issueVars, listVars, countVars, timeVars, abortVars, bhVars, Control,
         Issue, Reach, Calls, Given, Ripe, InIssue
<1>16. ASSUME NEW p \in PCPUs, BhStart(p) PROVE Issue'
  BY <1>16, ScsiAssumption
     DEF BhStart, Splice, Tame, Typing, Callers, Stages, Flags, issueVars,
         listVars, countVars, timeVars, abortVars, bhVars, Control, Issue,
         Reach, Calls, Given, Ripe, InIssue, Subject
<1>17. ASSUME NEW p \in PCPUs, NEW c \in Cmds, BhTakes(p, c) PROVE Issue'
  BY <1>17, ScsiAssumption
     DEF BhTakes, Tame, Typing, Callers, Stages, Flags, issueVars, listVars,
         countVars, timeVars, abortVars, bhVars, Control, Issue, Reach, Calls,
         Given, Ripe, InIssue, Subject
<1>18. ASSUME NEW p \in PCPUs, BhCounts(p) PROVE Issue'
  BY <1>18, ScsiAssumption
     DEF BhCounts, Uncount, Tame, Typing, Callers, Stages, Flags, issueVars,
         listVars, countVars, timeVars, abortVars, bhVars, Control, Issue,
         Reach, Calls, Given, Ripe, InIssue, Subject
<1>19. ASSUME NEW p \in PCPUs, BhPuts(p) PROVE Issue'
  BY <1>19, ScsiAssumption
     DEF BhPuts, Tame, Typing, Callers, Stages, Flags, issueVars, listVars,
         countVars, timeVars, abortVars, bhVars, Control, Issue, Reach, Calls,
         Given, Ripe, InIssue, Subject
<1>20. ASSUME NEW p \in PCPUs, BhCompletes(p) PROVE Issue'
  BY <1>20, ScsiAssumption
     DEF BhCompletes, Tame, Typing, Callers, Stages, Flags, issueVars,
         listVars, countVars, timeVars, abortVars, bhVars, Control, Issue,
         Reach, Calls, Given, Ripe, InIssue, Subject
<1>21. ASSUME NEW p \in PCPUs, BhEnds(p) PROVE Issue'
  BY <1>21, ScsiAssumption
     DEF BhEnds, LeftOver, Splice, Tame, Typing, Callers, Stages, Flags,
         issueVars, listVars, countVars, timeVars, abortVars, bhVars, Control,
         Issue, Reach, Calls, Given, Ripe, InIssue, Subject
<1>22. ASSUME NEW c \in Cmds, TimerFires(c) PROVE Issue'
  BY <1>22, ScsiAssumption
     DEF TimerFires, Tame, Typing, Callers, Stages, Flags, issueVars,
         listVars, countVars, timeVars, abortVars, bhVars, Control, Issue,
         Reach, Calls, Given, Ripe, InIssue, Subject
<1>23. ASSUME NEW c \in Cmds, CmdTimedOut(c) PROVE Issue'
  BY <1>23, ScsiAssumption
     DEF CmdTimedOut, MayHold, Clear, Tame, Typing, Callers, Stages, Flags,
         issueVars, listVars, countVars, timeVars, abortVars, bhVars, Control,
         Issue, Reach, Calls, Given, Ripe, InIssue, Subject
<1>24. ASSUME WorkStarts PROVE Issue'
  BY <1>24, ScsiAssumption
     DEF WorkStarts, Tame, Typing, Callers, Stages, Flags, issueVars,
         listVars, countVars, timeVars, abortVars, bhVars, Control, Issue,
         Reach, Calls, Given, Ripe, InIssue, Subject
<1>25. ASSUME WorkEnds PROVE Issue'
  BY <1>25, ScsiAssumption
     DEF WorkEnds, LetGo, Clear, CallDone, Tame, Typing, Callers, Stages,
         Flags, issueVars, listVars, countVars, timeVars, abortVars, bhVars,
         Control, Issue, Reach, Calls, Given, Ripe, InIssue, Subject
<1>26. ASSUME NEW a \in Aborters, NEW named \in SUBSET Nameable,
             AbortScan(a, named)
      PROVE  Issue'
  BY <1>26, ScsiAssumption
     DEF AbortScan, Abortable, Nameable, Tame, Typing, Callers, Stages, Flags,
         issueVars, listVars, countVars, timeVars, abortVars, bhVars, Control,
         Issue, Reach, Calls, Given, Ripe, InIssue, Subject
<1>27. ASSUME NEW a \in Aborters, NEW c \in Cmds, AbortOne(a, c) PROVE Issue'
  BY <1>27, ScsiAssumption
     DEF AbortOne, AbortStatus, Tame, Typing, Callers, Stages, Flags,
         issueVars, listVars, countVars, timeVars, abortVars, bhVars, Control,
         Issue, Reach, Calls, Given, Ripe, InIssue, Subject
<1>28. ASSUME NEW a \in Aborters, AbortLocks(a) PROVE Issue'
  BY <1>28, ScsiAssumption
     DEF AbortLocks, Tame, Typing, Callers, Stages, Flags, issueVars,
         listVars, countVars, timeVars, abortVars, bhVars, Control, Issue,
         Reach, Calls, Given, Ripe, InIssue, Subject
<1>29. ASSUME NEW a \in Aborters, NEW c \in Cmds, AbortEnds(a, c) PROVE Issue'
  BY <1>29, ScsiAssumption
     DEF AbortEnds, CallOver, LetGo, ListBack, Clear, CallDone, Tame, Typing,
         Callers, Stages, Flags, issueVars, listVars, countVars, timeVars,
         abortVars, bhVars, Control, Issue, Reach, Calls, Given, Ripe,
         InIssue, Subject
<1>30. ASSUME NEW a \in Aborters, AbortReturns(a) PROVE Issue'
  BY <1>30, ScsiAssumption
     DEF AbortReturns, CallOver, Tame, Typing, Callers, Stages, Flags,
         issueVars, listVars, countVars, timeVars, abortVars, bhVars, Control,
         Issue, Reach, Calls, Given, Ripe, InIssue, Subject
<1> QED
  BY <1>1, <1>2, <1>3, <1>4, <1>5, <1>6, <1>7, <1>8, <1>9, <1>10, <1>11,
     <1>12, <1>13, <1>14, <1>15, <1>16, <1>17, <1>18, <1>19, <1>20, <1>21,
     <1>22, <1>23, <1>24, <1>25, <1>26, <1>27, <1>28, <1>29, <1>30
     DEF Next, Steps, IssueStep, DoneStep, WorkStep, BhStep, AbortStep

(* The timer is set after the unlocked write of vmkflags, and task         *)
(* management names a command with a timeout only when it is out.          *)
LEMMA ReachHolds ==
    ASSUME Tame, Typing, Control, Next
    PROVE  Reach'
<1>1. ASSUME NEW c \in Cmds, GetCommand(c) PROVE Reach'
  BY <1>1, ScsiAssumption
     DEF GetCommand, Stage, Tame, Typing, Callers, Stages, Flags, issueVars,
         listVars, countVars, timeVars, abortVars, bhVars, Control, Issue,
         Reach, Given, Ripe
<1>2. ASSUME NEW c \in Cmds, FailEarly(c) PROVE Reach'
  BY <1>2, ScsiAssumption
     DEF FailEarly, Stage, Set, Count, CallDone, Tame, Typing, Callers,
         Stages, Flags, issueVars, listVars, countVars, timeVars, abortVars,
         bhVars, Control, Issue, Reach, Given, Ripe
<1>3. ASSUME NEW c \in Cmds, Accept(c) PROVE Reach'
  BY <1>3, ScsiAssumption
     DEF Accept, Stage, Set, Count, Tame, Typing, Callers, Stages, Flags,
         issueVars, listVars, countVars, timeVars, abortVars, bhVars, Control,
         Issue, Reach, Given, Ripe
<1>4. ASSUME NEW c \in Cmds, ReadFlags(c) PROVE Reach'
  BY <1>4, ScsiAssumption
     DEF ReadFlags, Stage, Tame, Typing, Callers, Stages, Flags, issueVars,
         listVars, countVars, timeVars, abortVars, bhVars, Control, Issue,
         Reach, Given, Ripe
<1>5. ASSUME NEW c \in Cmds, AddTimer(c) PROVE Reach'
  BY <1>5, ScsiAssumption
     DEF AddTimer, Stage, Tame, Typing, Callers, Stages, Flags, issueVars,
         listVars, countVars, timeVars, abortVars, bhVars, Control, Issue,
         Reach, Given, Ripe
<1>6. ASSUME NEW c \in Cmds, DriverTakes(c) PROVE Reach'
  BY <1>6, ScsiAssumption
     DEF DriverTakes, Stage, AtDriver, Tame, Typing, Callers, Stages, Flags,
         issueVars, listVars, countVars, timeVars, abortVars, bhVars, Control,
         Issue, Reach, Given, Ripe
<1>7. ASSUME NEW c \in Cmds, DriverRejects(c) PROVE Reach'
  BY <1>7, ScsiAssumption
     DEF DriverRejects, Stage, AtDriver, Tame, Typing, Callers, Stages, Flags,
         issueVars, listVars, countVars, timeVars, abortVars, bhVars, Control,
         Issue, Reach, Given, Ripe
<1>8. ASSUME NEW c \in Cmds, Rejected(c) PROVE Reach'
  BY <1>8, ScsiAssumption
     DEF Rejected, Stage, CallDone, Tame, Typing, Callers, Stages, Flags,
         issueVars, listVars, countVars, timeVars, abortVars, bhVars, Control,
         Issue, Reach, Given, Ripe
<1>9. ASSUME NEW c \in Cmds, FailOffline(c) PROVE Reach'
  BY <1>9, ScsiAssumption
     DEF FailOffline, Stage, CallDone, Tame, Typing, Callers, Stages, Flags,
         issueVars, listVars, countVars, timeVars, abortVars, bhVars, Control,
         Issue, Reach, Given, Ripe
<1>10. ASSUME NEW c \in Cmds, Refuse(c) PROVE Reach'
  BY <1>10, ScsiAssumption
     DEF Refuse, Stage, Tame, Typing, Callers, Stages, Flags, issueVars,
         listVars, countVars, timeVars, abortVars, bhVars, Control, Issue,
         Reach, Given, Ripe
<1>11. ASSUME NEW c \in Cmds, CmdTimedOut(c) PROVE Reach'
  BY <1>11, ScsiAssumption
     DEF CmdTimedOut, MayHold, Clear, Tame, Typing, Callers, Stages, Flags,
         issueVars, listVars, countVars, timeVars, abortVars, bhVars, Control,
         Issue, Reach, Given, Ripe
<1>12. ASSUME WorkStarts PROVE Reach'
  BY <1>12, ScsiAssumption
     DEF WorkStarts, Tame, Typing, Callers, Stages, Flags, issueVars,
         listVars, countVars, timeVars, abortVars, bhVars, Control, Issue,
         Reach, Given, Ripe
<1>13. ASSUME WorkEnds PROVE Reach'
  BY <1>13, ScsiAssumption
     DEF WorkEnds, LetGo, Clear, CallDone, Tame, Typing, Callers, Stages,
         Flags, issueVars, listVars, countVars, timeVars, abortVars, bhVars,
         Control, Issue, Reach, Given, Ripe
<1>14. ASSUME NEW a \in Aborters, NEW named \in SUBSET Nameable,
             AbortScan(a, named)
      PROVE  Reach'
  BY <1>14, ScsiAssumption
     DEF AbortScan, Abortable, Nameable, Tame, Typing, Callers, Stages, Flags,
         issueVars, listVars, countVars, timeVars, abortVars, bhVars, Control,
         Issue, Reach, Given, Ripe
<1>15. ASSUME NEW a \in Aborters, NEW c \in Cmds, AbortEnds(a, c) PROVE Reach'
  BY <1>15, ScsiAssumption
     DEF AbortEnds, CallOver, LetGo, ListBack, Clear, CallDone, Tame, Typing,
         Callers, Stages, Flags, issueVars, listVars, countVars, timeVars,
         abortVars, bhVars, Control, Issue, Reach, Given, Ripe
<1>16. ASSUME NEW c \in Cmds,
             \/ DriverDone(c) \/ TimerFires(c)
      PROVE Reach'
  BY <1>16, ScsiAssumption
     DEF DriverDone, TimerFires, Tame, Typing, Callers, Stages, Flags,
         issueVars, listVars, countVars, timeVars, abortVars, bhVars, Control,
         Issue, Reach, Given, Ripe
<1>17. ASSUME NEW w \in Callers,
             \/ DoneTimer(w) \/ DoneCheck(w) \/ DonePanics(w)
             \/ (\E p \in PCPUs : DoneAdd(w, p))
      PROVE Reach'
  BY <1>17, ScsiAssumption
     DEF DoneTimer, DoneCheck, DonePanics, DoneAdd, Tame, Typing, Callers,
         Stages, Flags, issueVars, listVars, countVars, timeVars, abortVars,
         bhVars, Control, Issue, Reach, Given, Ripe
<1>18. ASSUME NEW p \in PCPUs,
             \/ BhStart(p) \/ (\E c \in Cmds : BhTakes(p, c)) \/ BhCounts(p)
             \/ BhPuts(p) \/ BhCompletes(p) \/ BhEnds(p)
      PROVE Reach'
  BY <1>18, ScsiAssumption
     DEF BhStart, BhTakes, BhCounts, BhPuts, BhCompletes, BhEnds, Tame,
         Typing, Callers, Stages, Flags, issueVars, listVars, countVars,
         timeVars, abortVars, bhVars, Control, Issue, Reach, Given, Ripe
<1>19. ASSUME NEW a \in Aborters,
             \/ (\E c \in Cmds : AbortOne(a, c)) \/ AbortLocks(a)
             \/ AbortReturns(a)
      PROVE Reach'
  BY <1>19, ScsiAssumption
     DEF AbortOne, AbortLocks, AbortReturns, Tame, Typing, Callers, Stages,
         Flags, issueVars, listVars, countVars, timeVars, abortVars, bhVars,
         Control, Issue, Reach, Given, Ripe
<1> QED
  BY <1>1, <1>2, <1>3, <1>4, <1>5, <1>6, <1>7, <1>8, <1>9, <1>10, <1>11,
     <1>12, <1>13, <1>14, <1>15, <1>16, <1>17, <1>18, <1>19
     DEF Next, Steps, IssueStep, DoneStep, WorkStep, BhStep, AbortStep

(* An aborter or the worker calls scsi_done only for what is recorded.     *)
LEMMA CallsHold ==
    ASSUME Typing, Control, Next
    PROVE  Calls'
<1>1. ASSUME NEW c \in Cmds, GetCommand(c) PROVE Calls'
  BY <1>1, ScsiAssumption
     DEF GetCommand, Stage, Typing, Callers, Stages, Flags, issueVars,
         listVars, countVars, timeVars, abortVars, bhVars, Control, Issue,
         Reach, Calls, Given, Ripe, InIssue, Subject
<1>2. ASSUME NEW c \in Cmds, Refuse(c) PROVE Calls'
  BY <1>2, ScsiAssumption
     DEF Refuse, Stage, Typing, Callers, Stages, Flags, issueVars, listVars,
         countVars, timeVars, abortVars, bhVars, Control, Issue, Reach, Calls,
         Given, Ripe, InIssue, Subject
<1>3. ASSUME NEW c \in Cmds, FailEarly(c) PROVE Calls'
  BY <1>3, ScsiAssumption
     DEF FailEarly, Stage, Set, Count, CallDone, Typing, Callers, Stages,
         Flags, issueVars, listVars, countVars, timeVars, abortVars, bhVars,
         Control, Issue, Reach, Calls, Given, Ripe, InIssue, Subject
<1>4. ASSUME NEW c \in Cmds, Accept(c) PROVE Calls'
  BY <1>4, ScsiAssumption
     DEF Accept, Stage, Set, Count, Typing, Callers, Stages, Flags, issueVars,
         listVars, countVars, timeVars, abortVars, bhVars, Control, Issue,
         Reach, Calls, Given, Ripe, InIssue, Subject
<1>5. ASSUME NEW c \in Cmds, FailOffline(c) PROVE Calls'
  BY <1>5, ScsiAssumption
     DEF FailOffline, Stage, CallDone, Typing, Callers, Stages, Flags,
         issueVars, listVars, countVars, timeVars, abortVars, bhVars, Control,
         Issue, Reach, Calls, Given, Ripe, InIssue, Subject
<1>6. ASSUME NEW c \in Cmds, ReadFlags(c) PROVE Calls'
  BY <1>6, ScsiAssumption
     DEF ReadFlags, Stage, Typing, Callers, Stages, Flags, issueVars,
         listVars, countVars, timeVars, abortVars, bhVars, Control, Issue,
         Reach, Calls, Given, Ripe, InIssue, Subject
<1>7. ASSUME NEW c \in Cmds, AddTimer(c) PROVE Calls'
  BY <1>7, ScsiAssumption
     DEF AddTimer, Stage, Typing, Callers, Stages, Flags, issueVars, listVars,
         countVars, timeVars, abortVars, bhVars, Control, Issue, Reach, Calls,
         Given, Ripe, InIssue, Subject
<1>8. ASSUME NEW c \in Cmds, DriverTakes(c) PROVE Calls'
  BY <1>8, ScsiAssumption
     DEF DriverTakes, Stage, AtDriver, Typing, Callers, Stages, Flags,
         issueVars, listVars, countVars, timeVars, abortVars, bhVars, Control,
         Issue, Reach, Calls, Given, Ripe, InIssue, Subject
<1>9. ASSUME NEW c \in Cmds, DriverRejects(c) PROVE Calls'
  BY <1>9, ScsiAssumption
     DEF DriverRejects, Stage, AtDriver, Typing, Callers, Stages, Flags,
         issueVars, listVars, countVars, timeVars, abortVars, bhVars, Control,
         Issue, Reach, Calls, Given, Ripe, InIssue, Subject
<1>10. ASSUME NEW c \in Cmds, Rejected(c) PROVE Calls'
  BY <1>10, ScsiAssumption
     DEF Rejected, Stage, CallDone, Typing, Callers, Stages, Flags, issueVars,
         listVars, countVars, timeVars, abortVars, bhVars, Control, Issue,
         Reach, Calls, Given, Ripe, InIssue, Subject
<1>11. ASSUME NEW c \in Cmds, DriverDone(c) PROVE Calls'
  BY <1>11, ScsiAssumption
     DEF DriverDone, CallDone, Typing, Callers, Stages, Flags, issueVars,
         listVars, countVars, timeVars, abortVars, bhVars, Control, Issue,
         Reach, Calls, Given, Ripe, InIssue, Subject
<1>12. ASSUME NEW w \in Callers, DoneTimer(w) PROVE Calls'
  BY <1>12, ScsiAssumption
     DEF DoneTimer, Subject, Typing, Callers, Stages, Flags, issueVars,
         listVars, countVars, timeVars, abortVars, bhVars, Control, Issue,
         Reach, Calls, Given, Ripe, InIssue
<1>13. ASSUME NEW w \in Callers, DoneCheck(w) PROVE Calls'
  BY <1>13, ScsiAssumption
     DEF DoneCheck, Subject, AtCheck, Delayed, Set, Clear, Typing, Callers,
         Stages, Flags, issueVars, listVars, countVars, timeVars, abortVars,
         bhVars, Control, Issue, Reach, Calls, Given, Ripe, InIssue
<1>14. ASSUME NEW w \in Callers, DonePanics(w) PROVE Calls'
  BY <1>14, ScsiAssumption
     DEF DonePanics, Typing, Callers, Stages, Flags, issueVars, listVars,
         countVars, timeVars, abortVars, bhVars, Control, Issue, Reach, Calls,
         Given, Ripe, InIssue, Subject
<1>15. ASSUME NEW w \in Callers, NEW p \in PCPUs, DoneAdd(w, p) PROVE Calls'
  BY <1>15, ScsiAssumption
     DEF DoneAdd, Subject, Signal, Typing, Callers, Stages, Flags, issueVars,
         listVars, countVars, timeVars, abortVars, bhVars, Control, Issue,
         Reach, Calls, Given, Ripe, InIssue
<1>16. ASSUME NEW p \in PCPUs, BhStart(p) PROVE Calls'
  BY <1>16, ScsiAssumption
     DEF BhStart, Splice, Typing, Callers, Stages, Flags, issueVars, listVars,
         countVars, timeVars, abortVars, bhVars, Control, Issue, Reach, Calls,
         Given, Ripe, InIssue, Subject
<1>17. ASSUME NEW p \in PCPUs, NEW c \in Cmds, BhTakes(p, c) PROVE Calls'
  BY <1>17, ScsiAssumption
     DEF BhTakes, Typing, Callers, Stages, Flags, issueVars, listVars,
         countVars, timeVars, abortVars, bhVars, Control, Issue, Reach, Calls,
         Given, Ripe, InIssue, Subject
<1>18. ASSUME NEW p \in PCPUs, BhCounts(p) PROVE Calls'
  BY <1>18, ScsiAssumption
     DEF BhCounts, Uncount, Typing, Callers, Stages, Flags, issueVars,
         listVars, countVars, timeVars, abortVars, bhVars, Control, Issue,
         Reach, Calls, Given, Ripe, InIssue, Subject
<1>19. ASSUME NEW p \in PCPUs, BhPuts(p) PROVE Calls'
  BY <1>19, ScsiAssumption
     DEF BhPuts, Typing, Callers, Stages, Flags, issueVars, listVars,
         countVars, timeVars, abortVars, bhVars, Control, Issue, Reach, Calls,
         Given, Ripe, InIssue, Subject
<1>20. ASSUME NEW p \in PCPUs, BhCompletes(p) PROVE Calls'
  BY <1>20, ScsiAssumption
     DEF BhCompletes, Typing, Callers, Stages, Flags, issueVars, listVars,
         countVars, timeVars, abortVars, bhVars, Control, Issue, Reach, Calls,
         Given, Ripe, InIssue, Subject
<1>21. ASSUME NEW p \in PCPUs, BhEnds(p) PROVE Calls'
  BY <1>21, ScsiAssumption
     DEF BhEnds, LeftOver, Splice, Typing, Callers, Stages, Flags, issueVars,
         listVars, countVars, timeVars, abortVars, bhVars, Control, Issue,
         Reach, Calls, Given, Ripe, InIssue, Subject
<1>22. ASSUME NEW c \in Cmds, TimerFires(c) PROVE Calls'
  BY <1>22, ScsiAssumption
     DEF TimerFires, Typing, Callers, Stages, Flags, issueVars, listVars,
         countVars, timeVars, abortVars, bhVars, Control, Issue, Reach, Calls,
         Given, Ripe, InIssue, Subject
<1>23. ASSUME NEW c \in Cmds, CmdTimedOut(c) PROVE Calls'
  BY <1>23, ScsiAssumption
     DEF CmdTimedOut, MayHold, Clear, Typing, Callers, Stages, Flags,
         issueVars, listVars, countVars, timeVars, abortVars, bhVars, Control,
         Issue, Reach, Calls, Given, Ripe, InIssue, Subject
<1>24. ASSUME WorkStarts PROVE Calls'
  BY <1>24, ScsiAssumption
     DEF WorkStarts, Typing, Callers, Stages, Flags, issueVars, listVars,
         countVars, timeVars, abortVars, bhVars, Control, Issue, Reach, Calls,
         Given, Ripe, InIssue, Subject
<1>25. ASSUME WorkEnds PROVE Calls'
  BY <1>25, ScsiAssumption
     DEF WorkEnds, LetGo, Clear, CallDone, Typing, Callers, Stages, Flags,
         issueVars, listVars, countVars, timeVars, abortVars, bhVars, Control,
         Issue, Reach, Calls, Given, Ripe, InIssue, Subject
<1>26. ASSUME NEW a \in Aborters, NEW named \in SUBSET Nameable,
             AbortScan(a, named)
      PROVE  Calls'
  BY <1>26, ScsiAssumption
     DEF AbortScan, Abortable, Nameable, Typing, Callers, Stages, Flags,
         issueVars, listVars, countVars, timeVars, abortVars, bhVars, Control,
         Issue, Reach, Calls, Given, Ripe, InIssue, Subject
<1>27. ASSUME NEW a \in Aborters, NEW c \in Cmds, AbortOne(a, c) PROVE Calls'
  BY <1>27, ScsiAssumption
     DEF AbortOne, AbortStatus, Typing, Callers, Stages, Flags, issueVars,
         listVars, countVars, timeVars, abortVars, bhVars, Control, Issue,
         Reach, Calls, Given, Ripe, InIssue, Subject
<1>28. ASSUME NEW a \in Aborters, AbortLocks(a) PROVE Calls'
  BY <1>28, ScsiAssumption
     DEF AbortLocks, Typing, Callers, Stages, Flags, issueVars, listVars,
         countVars, timeVars, abortVars, bhVars, Control, Issue, Reach, Calls,
         Given, Ripe, InIssue, Subject
<1>29. ASSUME NEW a \in Aborters, NEW c \in Cmds, AbortEnds(a, c) PROVE Calls'
  BY <1>29, ScsiAssumption, SMTT(60)
     DEF AbortEnds, CallOver, LetGo, ListBack, Clear, CallDone, Typing,
         Callers, Stages, Flags, issueVars, listVars, countVars, timeVars,
         abortVars, bhVars, Control, Issue, Reach, Calls, Given, Ripe,
         InIssue, Subject
<1>30. ASSUME NEW a \in Aborters, AbortReturns(a) PROVE Calls'
  BY <1>30, ScsiAssumption
     DEF AbortReturns, CallOver, Typing, Callers, Stages, Flags, issueVars,
         listVars, countVars, timeVars, abortVars, bhVars, Control, Issue,
         Reach, Calls, Given, Ripe, InIssue, Subject
<1> QED
  BY <1>1, <1>2, <1>3, <1>4, <1>5, <1>6, <1>7, <1>8, <1>9, <1>10, <1>11,
     <1>12, <1>13, <1>14, <1>15, <1>16, <1>17, <1>18, <1>19, <1>20, <1>21,
     <1>22, <1>23, <1>24, <1>25, <1>26, <1>27, <1>28, <1>29, <1>30
     DEF Next, Steps, IssueStep, DoneStep, WorkStep, BhStep, AbortStep

(* A holder takes the command with DELAY_CMDDONE clear.  The queued work   *)
(* is not overwritten: there is one command with a timeout.                *)
LEMMA HoldersHold ==
    ASSUME Tame, Typing, Control, Holders, Next
    PROVE  Holders'
<1>1. ASSUME NEW c \in Cmds, GetCommand(c) PROVE Holders'
  BY <1>1, ScsiAssumption
     DEF GetCommand, Stage, Tame, Typing, Callers, Stages, Flags, issueVars,
         listVars, countVars, timeVars, abortVars, bhVars, Control, Issue,
         Reach, Calls, Given, Ripe, InIssue, Subject, Holders, OneHolder,
         Holding
<1>2. ASSUME NEW c \in Cmds, FailEarly(c) PROVE Holders'
  BY <1>2, ScsiAssumption
     DEF FailEarly, Stage, Set, Count, CallDone, Tame, Typing, Callers,
         Stages, Flags, issueVars, listVars, countVars, timeVars, abortVars,
         bhVars, Control, Issue, Reach, Calls, Given, Ripe, InIssue, Subject,
         Holders, OneHolder, Holding
<1>3. ASSUME NEW c \in Cmds, Accept(c) PROVE Holders'
  BY <1>3, ScsiAssumption
     DEF Accept, Stage, Set, Count, Tame, Typing, Callers, Stages, Flags,
         issueVars, listVars, countVars, timeVars, abortVars, bhVars, Control,
         Issue, Reach, Calls, Given, Ripe, InIssue, Subject, Holders,
         OneHolder, Holding
<1>4. ASSUME NEW c \in Cmds, AddTimer(c) PROVE Holders'
  BY <1>4, ScsiAssumption
     DEF AddTimer, Stage, Tame, Typing, Callers, Stages, Flags, issueVars,
         listVars, countVars, timeVars, abortVars, bhVars, Control, Issue,
         Reach, Calls, Given, Ripe, InIssue, Subject, Holders, OneHolder,
         Holding
<1>5. ASSUME NEW w \in Callers, DoneCheck(w) PROVE Holders'
  <2>1. \A d \in Cmds : "DELAY" \in flags'[d] <=> "DELAY" \in flags[d]
    BY <1>5
       DEF DoneCheck, Subject, AtCheck, Delayed, Set, Clear, Typing, Callers,
           Stages, Flags, issueVars, listVars, countVars, timeVars, abortVars,
           bhVars
  <2>2. \A d \in Cmds :
              "DELAY" \in flags'[d] => "NEED" \in flags'[d]
    BY <1>5
       DEF DoneCheck, Subject, AtCheck, Delayed, Set, Clear, Typing, Callers,
           Stages, Flags, issueVars, listVars, countVars, timeVars, abortVars,
           bhVars, Holders
  <2>3. OneHolder'
    BY <1>5, <2>1
       DEF Holders, OneHolder, Holding, DoneCheck, issueVars, listVars,
           countVars, timeVars, abortVars, bhVars
  <2> QED BY <2>2, <2>3 DEF Holders
<1>6. ASSUME NEW c \in Cmds, CmdTimedOut(c) PROVE Holders'
  <2>1. CASE MayHold(c)
    BY <1>6, <2>1, SMTT(60)
       DEF CmdTimedOut, MayHold, Clear, Tame, Typing, Callers, Stages, Flags,
           issueVars, listVars, countVars, timeVars, abortVars, bhVars,
           Control, Reach, Ripe, Holders, OneHolder, Holding
  <2>2. CASE ~ MayHold(c)
    BY <1>6, <2>2, SMTT(60)
       DEF CmdTimedOut, MayHold, Clear, Typing, Callers, Stages, Flags,
           issueVars, listVars, countVars, timeVars, abortVars, bhVars,
           Holders, OneHolder, Holding
  <2> QED BY <2>1, <2>2
<1>7. ASSUME WorkStarts PROVE Holders'
  BY <1>7, ScsiAssumption
     DEF WorkStarts, Tame, Typing, Callers, Stages, Flags, issueVars,
         listVars, countVars, timeVars, abortVars, bhVars, Control, Issue,
         Reach, Calls, Given, Ripe, InIssue, Subject, Holders, OneHolder,
         Holding
<1>8. ASSUME WorkEnds PROVE Holders'
  BY <1>8, ScsiAssumption
     DEF WorkEnds, LetGo, Clear, CallDone, Tame, Typing, Callers, Stages,
         Flags, issueVars, listVars, countVars, timeVars, abortVars, bhVars,
         Control, Issue, Reach, Calls, Given, Ripe, InIssue, Subject, Holders,
         OneHolder, Holding
<1>9. ASSUME NEW a \in Aborters, NEW named \in SUBSET Nameable,
             AbortScan(a, named)
      PROVE  Holders'
  BY <1>9, ScsiAssumption
     DEF AbortScan, Abortable, Nameable, Tame, Typing, Callers, Stages, Flags,
         issueVars, listVars, countVars, timeVars, abortVars, bhVars, Control,
         Issue, Reach, Calls, Given, Ripe, InIssue, Subject, Holders,
         OneHolder, Holding
<1>10. ASSUME NEW a \in Aborters, NEW c \in Cmds, AbortEnds(a, c)
      PROVE  Holders'
  BY <1>10, ScsiAssumption
     DEF AbortEnds, CallOver, LetGo, ListBack, Clear, CallDone, Tame, Typing,
         Callers, Stages, Flags, issueVars, listVars, countVars, timeVars,
         abortVars, bhVars, Control, Issue, Reach, Calls, Given, Ripe,
         InIssue, Subject, Holders, OneHolder, Holding
<1>11. ASSUME NEW c \in Cmds,
             \/ Refuse(c) \/ FailOffline(c) \/ ReadFlags(c) \/ DriverTakes(c)
             \/ DriverRejects(c) \/ Rejected(c) \/ DriverDone(c)
             \/ TimerFires(c)
      PROVE Holders'
  BY <1>11, ScsiAssumption
     DEF Refuse, FailOffline, ReadFlags, DriverTakes, DriverRejects, Rejected,
         DriverDone, TimerFires, Tame, Typing, Callers, Stages, Flags,
         issueVars, listVars, countVars, timeVars, abortVars, bhVars, Control,
         Issue, Reach, Calls, Given, Ripe, InIssue, Subject, Holders,
         OneHolder, Holding
<1>12. ASSUME NEW w \in Callers,
             \/ DoneTimer(w) \/ DonePanics(w)
             \/ (\E p \in PCPUs : DoneAdd(w, p))
      PROVE Holders'
  BY <1>12, ScsiAssumption
     DEF DoneTimer, DonePanics, DoneAdd, Tame, Typing, Callers, Stages, Flags,
         issueVars, listVars, countVars, timeVars, abortVars, bhVars, Control,
         Issue, Reach, Calls, Given, Ripe, InIssue, Subject, Holders,
         OneHolder, Holding
<1>13. ASSUME NEW p \in PCPUs,
             \/ BhStart(p) \/ (\E c \in Cmds : BhTakes(p, c)) \/ BhCounts(p)
             \/ BhPuts(p) \/ BhCompletes(p) \/ BhEnds(p)
      PROVE Holders'
  BY <1>13, ScsiAssumption
     DEF BhStart, BhTakes, BhCounts, BhPuts, BhCompletes, BhEnds, Tame,
         Typing, Callers, Stages, Flags, issueVars, listVars, countVars,
         timeVars, abortVars, bhVars, Control, Issue, Reach, Calls, Given,
         Ripe, InIssue, Subject, Holders, OneHolder, Holding
<1>14. ASSUME NEW a \in Aborters,
             \/ (\E c \in Cmds : AbortOne(a, c)) \/ AbortLocks(a)
             \/ AbortReturns(a)
      PROVE Holders'
  BY <1>14, ScsiAssumption
     DEF AbortOne, AbortLocks, AbortReturns, Tame, Typing, Callers, Stages,
         Flags, issueVars, listVars, countVars, timeVars, abortVars, bhVars,
         Control, Issue, Reach, Calls, Given, Ripe, InIssue, Subject, Holders,
         OneHolder, Holding
<1> QED
  BY <1>1, <1>2, <1>3, <1>4, <1>5, <1>6, <1>7, <1>8, <1>9, <1>10, <1>11,
     <1>12, <1>13, <1>14
     DEF Next, Steps, IssueStep, DoneStep, WorkStep, BhStep, AbortStep

(* A call that finds DELAY_CMDDONE parks the command; whoever lets go of a *)
(* parked one calls scsi_done for it.                                      *)
LEMMA PlacesHold ==
    ASSUME Tame, Typing, Control, Places, Next
    PROVE  Places'
<1>1. ASSUME NEW c \in Cmds, GetCommand(c) PROVE Places'
  BY <1>1, ScsiAssumption
     DEF GetCommand, Stage, Tame, Typing, Callers, Stages, Flags, issueVars,
         listVars, countVars, timeVars, abortVars, bhVars, Control, Issue,
         Reach, Calls, Given, Ripe, InIssue, Subject, Places, NeedPlace,
         OwedPlace, AddPlace, BhPlace, Call, Adding, AtBh
<1>2. ASSUME NEW c \in Cmds, Refuse(c) PROVE Places'
  BY <1>2, ScsiAssumption
     DEF Refuse, Stage, Tame, Typing, Callers, Stages, Flags, issueVars,
         listVars, countVars, timeVars, abortVars, bhVars, Control, Issue,
         Reach, Calls, Given, Ripe, InIssue, Subject, Places, NeedPlace,
         OwedPlace, AddPlace, BhPlace, Call, Adding, AtBh
<1>3. ASSUME NEW c \in Cmds, FailEarly(c) PROVE Places'
  BY <1>3, ScsiAssumption
     DEF FailEarly, Stage, Set, Count, CallDone, Tame, Typing, Callers,
         Stages, Flags, issueVars, listVars, countVars, timeVars, abortVars,
         bhVars, Control, Issue, Reach, Calls, Given, Ripe, InIssue, Subject,
         Places, NeedPlace, OwedPlace, AddPlace, BhPlace, Call, Adding, AtBh
<1>4. ASSUME NEW c \in Cmds, Accept(c) PROVE Places'
  BY <1>4, ScsiAssumption
     DEF Accept, Stage, Set, Count, Tame, Typing, Callers, Stages, Flags,
         issueVars, listVars, countVars, timeVars, abortVars, bhVars, Control,
         Issue, Reach, Calls, Given, Ripe, InIssue, Subject, Places,
         NeedPlace, OwedPlace, AddPlace, BhPlace, Call, Adding, AtBh
<1>5. ASSUME NEW c \in Cmds, FailOffline(c) PROVE Places'
  BY <1>5, ScsiAssumption
     DEF FailOffline, Stage, CallDone, Tame, Typing, Callers, Stages, Flags,
         issueVars, listVars, countVars, timeVars, abortVars, bhVars, Control,
         Issue, Reach, Calls, Given, Ripe, InIssue, Subject, Places,
         NeedPlace, OwedPlace, AddPlace, BhPlace, Call, Adding, AtBh
<1>6. ASSUME NEW c \in Cmds, ReadFlags(c) PROVE Places'
  BY <1>6, ScsiAssumption
     DEF ReadFlags, Stage, Tame, Typing, Callers, Stages, Flags, issueVars,
         listVars, countVars, timeVars, abortVars, bhVars, Control, Issue,
         Reach, Calls, Given, Ripe, InIssue, Subject, Places, NeedPlace,
         OwedPlace, AddPlace, BhPlace, Call, Adding, AtBh
<1>7. ASSUME NEW c \in Cmds, AddTimer(c) PROVE Places'
  BY <1>7, ScsiAssumption
     DEF AddTimer, Stage, Tame, Typing, Callers, Stages, Flags, issueVars,
         listVars, countVars, timeVars, abortVars, bhVars, Control, Issue,
         Reach, Calls, Given, Ripe, InIssue, Subject, Places, NeedPlace,
         OwedPlace, AddPlace, BhPlace, Call, Adding, AtBh
<1>8. ASSUME NEW c \in Cmds, DriverTakes(c) PROVE Places'
  BY <1>8, ScsiAssumption
     DEF DriverTakes, Stage, AtDriver, Tame, Typing, Callers, Stages, Flags,
         issueVars, listVars, countVars, timeVars, abortVars, bhVars, Control,
         Issue, Reach, Calls, Given, Ripe, InIssue, Subject, Places,
         NeedPlace, OwedPlace, AddPlace, BhPlace, Call, Adding, AtBh
<1>9. ASSUME NEW c \in Cmds, DriverRejects(c) PROVE Places'
  BY <1>9, ScsiAssumption
     DEF DriverRejects, Stage, AtDriver, Tame, Typing, Callers, Stages, Flags,
         issueVars, listVars, countVars, timeVars, abortVars, bhVars, Control,
         Issue, Reach, Calls, Given, Ripe, InIssue, Subject, Places,
         NeedPlace, OwedPlace, AddPlace, BhPlace, Call, Adding, AtBh
<1>10. ASSUME NEW c \in Cmds, Rejected(c) PROVE Places'
  <2>1. /\ "NEED" \in flags[c] /\ dpc[c] = "no"
        /\ dpc' = [dpc EXCEPT ![c] = "enter"]
    BY <1>10
       DEF Rejected, Stage, CallDone, Control, Issue, InIssue
  <2>2. \A d \in Cmds, v \in Callers :
              /\ Call(d, v) => Call(d, v)'
              /\ Adding(d, v)' <=> Adding(d, v)
    BY <1>10, ScsiAssumption, <2>1
       DEF Rejected, Typing, Callers, Stages, Flags, issueVars, listVars,
           countVars, timeVars, abortVars, bhVars, Call, Adding, Subject
  <2>3. Call(c, c)'
    BY <1>10, ScsiAssumption, <2>1
       DEF Rejected, Typing, Callers, Stages, Flags, issueVars, listVars,
           countVars, timeVars, abortVars, bhVars, Call, Subject
  <2>5. ASSUME NEW d \in Cmds PROVE NeedPlace(d)'
    BY <1>10, <2>1, <2>2, <2>3
       DEF Rejected, Stage, issueVars, listVars, countVars, timeVars,
           abortVars, bhVars, Typing, Stages, Callers, Places, NeedPlace,
           InIssue
  <2>6. ASSUME NEW d \in Cmds PROVE OwedPlace(d)'
    BY <1>10, <2>1, <2>2
       DEF Rejected, Stage, issueVars, listVars, countVars, timeVars,
           abortVars, bhVars, Typing, Stages, Places, OwedPlace, AtBh, Given
  <2>7. ASSUME NEW d \in Cmds PROVE AddPlace(d)'
    BY <1>10, <2>1, <2>2
       DEF Rejected, Stage, issueVars, listVars, countVars, timeVars,
           abortVars, bhVars, Typing, Stages, Places, AddPlace, AtBh, Given
  <2>8. ASSUME NEW d \in Cmds PROVE BhPlace(d)'
    BY <1>10, <2>1, <2>2
       DEF Rejected, Stage, issueVars, listVars, countVars, timeVars,
           abortVars, bhVars, Typing, Stages, Places, BhPlace, AtBh, Given
  <2> QED BY <2>5, <2>6, <2>7, <2>8 DEF Places
<1>11. ASSUME NEW c \in Cmds, DriverDone(c) PROVE Places'
  BY <1>11, ScsiAssumption
     DEF DriverDone, CallDone, Tame, Typing, Callers, Stages, Flags,
         issueVars, listVars, countVars, timeVars, abortVars, bhVars, Control,
         Issue, Reach, Calls, Given, Ripe, InIssue, Subject, Places,
         NeedPlace, OwedPlace, AddPlace, BhPlace, Call, Adding, AtBh
<1>12. ASSUME NEW w \in Callers, DoneTimer(w) PROVE Places'
  BY <1>12, ScsiAssumption
     DEF DoneTimer, Subject, Tame, Typing, Callers, Stages, Flags, issueVars,
         listVars, countVars, timeVars, abortVars, bhVars, Control, Issue,
         Reach, Calls, Given, Ripe, InIssue, Places, NeedPlace, OwedPlace,
         AddPlace, BhPlace, Call, Adding, AtBh
<1>13. ASSUME NEW w \in Callers, DoneCheck(w) PROVE Places'
  BY <1>13, ScsiAssumption
     DEF DoneCheck, Subject, AtCheck, Delayed, Set, Clear, Tame, Typing,
         Callers, Stages, Flags, issueVars, listVars, countVars, timeVars,
         abortVars, bhVars, Control, Issue, Reach, Calls, Given, Ripe,
         InIssue, Places, NeedPlace, OwedPlace, AddPlace, BhPlace, Call,
         Adding, AtBh
<1>14. ASSUME NEW w \in Callers, DonePanics(w) PROVE Places'
  BY <1>14, ScsiAssumption
     DEF DonePanics, Tame, Typing, Callers, Stages, Flags, issueVars,
         listVars, countVars, timeVars, abortVars, bhVars, Control, Issue,
         Reach, Calls, Given, Ripe, InIssue, Subject, Places, NeedPlace,
         OwedPlace, AddPlace, BhPlace, Call, Adding, AtBh
<1>15. ASSUME NEW w \in Callers, NEW p \in PCPUs, DoneAdd(w, p) PROVE Places'
  BY <1>15, ScsiAssumption
     DEF DoneAdd, Subject, Signal, Tame, Typing, Callers, Stages, Flags,
         issueVars, listVars, countVars, timeVars, abortVars, bhVars, Control,
         Issue, Reach, Calls, Given, Ripe, InIssue, Places, NeedPlace,
         OwedPlace, AddPlace, BhPlace, Call, Adding, AtBh
<1>16. ASSUME NEW p \in PCPUs, BhStart(p) PROVE Places'
  BY <1>16, ScsiAssumption
     DEF BhStart, Splice, Tame, Typing, Callers, Stages, Flags, issueVars,
         listVars, countVars, timeVars, abortVars, bhVars, Control, Issue,
         Reach, Calls, Given, Ripe, InIssue, Subject, Places, NeedPlace,
         OwedPlace, AddPlace, BhPlace, Call, Adding, AtBh
<1>17. ASSUME NEW p \in PCPUs, NEW c \in Cmds, BhTakes(p, c) PROVE Places'
  <2>1. \A d \in Cmds, v \in Callers :
              /\ Call(d, v)' <=> Call(d, v)
              /\ Adding(d, v)' <=> Adding(d, v)
    BY <1>17, ScsiAssumption
       DEF BhTakes, Typing, Callers, Stages, Flags, issueVars, listVars,
           countVars, timeVars, abortVars, bhVars, Call, Adding, Subject
  <2>2. \A d \in Cmds, q \in PCPUs : AtBh(d, q)' <=> AtBh(d, q)
    BY <1>17, ScsiAssumption
       DEF BhTakes, Typing, Callers, Stages, Flags, issueVars, listVars,
           countVars, timeVars, abortVars, bhVars, AtBh
  <2>5. ASSUME NEW d \in Cmds PROVE NeedPlace(d)'
    BY <1>17, <2>1, <2>2
       DEF BhTakes, Typing, Stages, Flags, issueVars, listVars, countVars,
           timeVars, abortVars, bhVars, Control, Issue, Reach, Calls, Given,
           Ripe, InIssue, Places, NeedPlace
  <2>6. ASSUME NEW d \in Cmds PROVE OwedPlace(d)'
    BY <1>17, <2>1, <2>2
       DEF BhTakes, Typing, Stages, Flags, issueVars, listVars, countVars,
           timeVars, abortVars, bhVars, Control, Issue, Reach, Calls, Given,
           Ripe, InIssue, Places, OwedPlace
  <2>7. ASSUME NEW d \in Cmds PROVE AddPlace(d)'
    BY <1>17, <2>1, <2>2
       DEF BhTakes, Typing, Stages, Flags, issueVars, listVars, countVars,
           timeVars, abortVars, bhVars, Control, Issue, Reach, Calls, Given,
           Ripe, InIssue, Places, AddPlace
  <2>8. ASSUME NEW d \in Cmds PROVE BhPlace(d)'
    <3>1. ASSUME NEW q \in PCPUs, AtBh(d, q)
          PROVE  /\ "NEED" \notin flags'[d] /\ Given(d)'
                 /\ \A r \in PCPUs : AtBh(d, r)' => r = q
      BY <1>17, <2>2, <3>1
         DEF BhTakes, issueVars, listVars, countVars, timeVars, abortVars,
             bhVars, Places, BhPlace, Given
    <3>2. ASSUME NEW q \in PCPUs, AtBh(d, q)
          PROVE  /\ d \notin isrDone'[q] \cap bhDone'[q]
                 /\ cur'[q] = d => d \notin isrDone'[q] \cup bhDone'[q]
      BY <1>17, <3>2, ScsiAssumption
         DEF BhTakes, Typing, Callers, Stages, Flags, issueVars, listVars,
             countVars, timeVars, abortVars, bhVars, Places, BhPlace, AtBh
    <3> QED BY <2>2, <3>1, <3>2 DEF BhPlace
  <2> QED BY <2>5, <2>6, <2>7, <2>8 DEF Places
<1>18. ASSUME NEW p \in PCPUs, BhCounts(p) PROVE Places'
  BY <1>18, ScsiAssumption
     DEF BhCounts, Uncount, Tame, Typing, Callers, Stages, Flags, issueVars,
         listVars, countVars, timeVars, abortVars, bhVars, Control, Issue,
         Reach, Calls, Given, Ripe, InIssue, Subject, Places, NeedPlace,
         OwedPlace, AddPlace, BhPlace, Call, Adding, AtBh
<1>19. ASSUME NEW p \in PCPUs, BhPuts(p) PROVE Places'
  BY <1>19, ScsiAssumption
     DEF BhPuts, Tame, Typing, Callers, Stages, Flags, issueVars, listVars,
         countVars, timeVars, abortVars, bhVars, Control, Issue, Reach, Calls,
         Given, Ripe, InIssue, Subject, Places, NeedPlace, OwedPlace,
         AddPlace, BhPlace, Call, Adding, AtBh
<1>20. ASSUME NEW p \in PCPUs, BhCompletes(p) PROVE Places'
  BY <1>20, ScsiAssumption
     DEF BhCompletes, Tame, Typing, Callers, Stages, Flags, issueVars,
         listVars, countVars, timeVars, abortVars, bhVars, Control, Issue,
         Reach, Calls, Given, Ripe, InIssue, Subject, Places, NeedPlace,
         OwedPlace, AddPlace, BhPlace, Call, Adding, AtBh
<1>21. ASSUME NEW p \in PCPUs, BhEnds(p) PROVE Places'
  <2>1. \A d \in Cmds, v \in Callers :
              /\ Call(d, v)' <=> Call(d, v)
              /\ Adding(d, v)' <=> Adding(d, v)
    BY <1>21, ScsiAssumption
       DEF BhEnds, LeftOver, Splice, Typing, Callers, Stages, Flags,
           issueVars, listVars, countVars, timeVars, abortVars, bhVars, Call,
           Adding, Subject
  <2>2. \A d \in Cmds, q \in PCPUs : AtBh(d, q)' <=> AtBh(d, q)
    BY <1>21, ScsiAssumption
       DEF BhEnds, LeftOver, Splice, Typing, Callers, Stages, Flags,
           issueVars, listVars, countVars, timeVars, abortVars, bhVars, AtBh
  <2>5. ASSUME NEW d \in Cmds PROVE NeedPlace(d)'
    BY <1>21, <2>1, <2>2
       DEF BhEnds, LeftOver, Splice, Typing, Stages, Flags, issueVars,
           listVars, countVars, timeVars, abortVars, bhVars, Control, Issue,
           Reach, Calls, Given, Ripe, InIssue, Places, NeedPlace
  <2>6. ASSUME NEW d \in Cmds PROVE OwedPlace(d)'
    BY <1>21, <2>1, <2>2
       DEF BhEnds, LeftOver, Splice, Typing, Stages, Flags, issueVars,
           listVars, countVars, timeVars, abortVars, bhVars, Control, Issue,
           Reach, Calls, Given, Ripe, InIssue, Places, OwedPlace
  <2>7. ASSUME NEW d \in Cmds PROVE AddPlace(d)'
    BY <1>21, <2>1, <2>2
       DEF BhEnds, LeftOver, Splice, Typing, Stages, Flags, issueVars,
           listVars, countVars, timeVars, abortVars, bhVars, Control, Issue,
           Reach, Calls, Given, Ripe, InIssue, Places, AddPlace
  <2>8. ASSUME NEW d \in Cmds PROVE BhPlace(d)'
    <3>1. ASSUME NEW q \in PCPUs, AtBh(d, q)
          PROVE  /\ "NEED" \notin flags'[d] /\ Given(d)'
                 /\ \A r \in PCPUs : AtBh(d, r)' => r = q
      BY <1>21, <2>2, <3>1
         DEF BhEnds, LeftOver, Splice, issueVars, listVars, countVars,
             timeVars, abortVars, bhVars, Places, BhPlace, Given
    <3>2. ASSUME NEW q \in PCPUs, AtBh(d, q)
          PROVE  /\ d \notin isrDone'[q] \cap bhDone'[q]
                 /\ cur'[q] = d => d \notin isrDone'[q] \cup bhDone'[q]
      BY <1>21, <3>2, ScsiAssumption
         DEF BhEnds, LeftOver, Splice, Typing, Callers, Stages, Flags,
             issueVars, listVars, countVars, timeVars, abortVars, bhVars,
             Places, BhPlace, AtBh
    <3> QED BY <2>2, <3>1, <3>2 DEF BhPlace
  <2> QED BY <2>5, <2>6, <2>7, <2>8 DEF Places
<1>22. ASSUME NEW c \in Cmds, TimerFires(c) PROVE Places'
  BY <1>22, ScsiAssumption
     DEF TimerFires, Tame, Typing, Callers, Stages, Flags, issueVars,
         listVars, countVars, timeVars, abortVars, bhVars, Control, Issue,
         Reach, Calls, Given, Ripe, InIssue, Subject, Places, NeedPlace,
         OwedPlace, AddPlace, BhPlace, Call, Adding, AtBh
<1>23. ASSUME NEW c \in Cmds, CmdTimedOut(c) PROVE Places'
  BY <1>23, ScsiAssumption
     DEF CmdTimedOut, MayHold, Clear, Tame, Typing, Callers, Stages, Flags,
         issueVars, listVars, countVars, timeVars, abortVars, bhVars, Control,
         Issue, Reach, Calls, Given, Ripe, InIssue, Subject, Places,
         NeedPlace, OwedPlace, AddPlace, BhPlace, Call, Adding, AtBh
<1>24. ASSUME WorkStarts PROVE Places'
  BY <1>24, ScsiAssumption
     DEF WorkStarts, Tame, Typing, Callers, Stages, Flags, issueVars,
         listVars, countVars, timeVars, abortVars, bhVars, Control, Issue,
         Reach, Calls, Given, Ripe, InIssue, Subject, Places, NeedPlace,
         OwedPlace, AddPlace, BhPlace, Call, Adding, AtBh
<1>25. ASSUME WorkEnds PROVE Places'
  <2>1. \A d \in Cmds, v \in Callers :
              /\ Call(d, v) => Call(d, v)'
              /\ Adding(d, v)' <=> Adding(d, v)
    BY <1>25, ScsiAssumption
       DEF WorkEnds, LetGo, Clear, CallDone, Typing, Callers, Stages, Flags,
           issueVars, listVars, countVars, timeVars, abortVars, bhVars,
           Control, Calls, Call, Adding, Subject
  <2>2. \A d \in Cmds :
              d = worker /\ "ATTEMPTED" \in flags[d] => Call(d, Worker)'
    BY <1>25, ScsiAssumption
       DEF WorkEnds, LetGo, Clear, CallDone, Typing, Callers, Stages, Flags,
           issueVars, listVars, countVars, timeVars, abortVars, bhVars,
           Control, Calls, Call, Subject
  <2>3. \A d \in Cmds :
              /\ d # worker => flags'[d] = flags[d]
              /\ "NEED" \in flags'[d] <=> "NEED" \in flags[d]
    BY <1>25
       DEF WorkEnds, LetGo, Clear, CallDone, Typing, Callers, Stages, Flags,
           issueVars, listVars, countVars, timeVars, abortVars, bhVars
  <2>5. ASSUME NEW d \in Cmds PROVE NeedPlace(d)'
    BY <1>25, ScsiAssumption, <2>1, <2>2, <2>3
       DEF WorkEnds, issueVars, listVars, countVars, timeVars, abortVars,
           bhVars, Typing, Callers, Places, NeedPlace, InIssue
  <2>6. ASSUME NEW d \in Cmds PROVE OwedPlace(d)'
    BY <1>25, <2>1, <2>3
       DEF WorkEnds, issueVars, listVars, countVars, timeVars, abortVars,
           bhVars, Places, OwedPlace, AtBh, Given
  <2>7. ASSUME NEW d \in Cmds PROVE AddPlace(d)'
    BY <1>25, <2>1, <2>3
       DEF WorkEnds, issueVars, listVars, countVars, timeVars, abortVars,
           bhVars, Places, AddPlace, AtBh, Given
  <2>8. ASSUME NEW d \in Cmds PROVE BhPlace(d)'
    BY <1>25, <2>1, <2>3
       DEF WorkEnds, issueVars, listVars, countVars, timeVars, abortVars,
           bhVars, Places, BhPlace, AtBh, Given
  <2> QED BY <2>5, <2>6, <2>7, <2>8 DEF Places
<1>26. ASSUME NEW a \in Aborters, NEW named \in SUBSET Nameable,
             AbortScan(a, named)
      PROVE  Places'
  BY <1>26, ScsiAssumption
     DEF AbortScan, Abortable, Nameable, Tame, Typing, Callers, Stages, Flags,
         issueVars, listVars, countVars, timeVars, abortVars, bhVars, Control,
         Issue, Reach, Calls, Given, Ripe, InIssue, Subject, Places,
         NeedPlace, OwedPlace, AddPlace, BhPlace, Call, Adding, AtBh
<1>27. ASSUME NEW a \in Aborters, NEW c \in Cmds, AbortOne(a, c) PROVE Places'
  BY <1>27, ScsiAssumption
     DEF AbortOne, AbortStatus, Tame, Typing, Callers, Stages, Flags,
         issueVars, listVars, countVars, timeVars, abortVars, bhVars, Control,
         Issue, Reach, Calls, Given, Ripe, InIssue, Subject, Places,
         NeedPlace, OwedPlace, AddPlace, BhPlace, Call, Adding, AtBh
<1>28. ASSUME NEW a \in Aborters, AbortLocks(a) PROVE Places'
  BY <1>28, ScsiAssumption
     DEF AbortLocks, Tame, Typing, Callers, Stages, Flags, issueVars,
         listVars, countVars, timeVars, abortVars, bhVars, Control, Issue,
         Reach, Calls, Given, Ripe, InIssue, Subject, Places, NeedPlace,
         OwedPlace, AddPlace, BhPlace, Call, Adding, AtBh
<1>29. ASSUME NEW a \in Aborters, NEW c \in Cmds, AbortEnds(a, c)
      PROVE  Places'
  <2>1. \A d \in Cmds, v \in Callers :
              /\ Call(d, v) => Call(d, v)'
              /\ Adding(d, v)' <=> Adding(d, v)
    BY <1>29, ScsiAssumption
       DEF AbortEnds, CallOver, LetGo, ListBack, Clear, CallDone, Typing,
           Callers, Stages, Flags, issueVars, listVars, countVars, timeVars,
           abortVars, bhVars, Control, Calls, Call, Adding, Subject
  <2>2. \A d \in Cmds :
              d = c /\ "ATTEMPTED" \in flags[d] => Call(d, a)'
    BY <1>29, ScsiAssumption
       DEF AbortEnds, CallOver, LetGo, ListBack, Clear, CallDone, Typing,
           Callers, Stages, Flags, issueVars, listVars, countVars, timeVars,
           abortVars, bhVars, Control, Calls, Call, Subject
  <2>3. \A d \in Cmds :
              /\ d # c => flags'[d] = flags[d]
              /\ "NEED" \in flags'[d] <=> "NEED" \in flags[d]
    BY <1>29
       DEF AbortEnds, CallOver, LetGo, ListBack, Clear, CallDone, Typing,
           Callers, Stages, Flags, issueVars, listVars, countVars, timeVars,
           abortVars, bhVars
  <2>5. ASSUME NEW d \in Cmds PROVE NeedPlace(d)'
    BY <1>29, ScsiAssumption, <2>1, <2>2, <2>3
       DEF AbortEnds, issueVars, listVars, countVars, timeVars, abortVars,
           bhVars, Typing, Callers, Places, NeedPlace, InIssue
  <2>6. ASSUME NEW d \in Cmds PROVE OwedPlace(d)'
    BY <1>29, <2>1, <2>3
       DEF AbortEnds, issueVars, listVars, countVars, timeVars, abortVars,
           bhVars, Places, OwedPlace, AtBh, Given
  <2>7. ASSUME NEW d \in Cmds PROVE AddPlace(d)'
    BY <1>29, <2>1, <2>3
       DEF AbortEnds, issueVars, listVars, countVars, timeVars, abortVars,
           bhVars, Places, AddPlace, AtBh, Given
  <2>8. ASSUME NEW d \in Cmds PROVE BhPlace(d)'
    BY <1>29, <2>1, <2>3
       DEF AbortEnds, issueVars, listVars, countVars, timeVars, abortVars,
           bhVars, Places, BhPlace, AtBh, Given
  <2> QED BY <2>5, <2>6, <2>7, <2>8 DEF Places
<1>30. ASSUME NEW a \in Aborters, AbortReturns(a) PROVE Places'
  <2>1. \A d \in Cmds, v \in Callers :
              /\ Call(d, v)' <=> Call(d, v)
              /\ Adding(d, v)' <=> Adding(d, v)
    BY <1>30, ScsiAssumption
       DEF AbortReturns, CallOver, Typing, Callers, Stages, Flags, issueVars,
           listVars, countVars, timeVars, abortVars, bhVars, Call, Adding,
           Subject
  <2>5. ASSUME NEW d \in Cmds PROVE NeedPlace(d)'
    BY <1>30, <2>1
       DEF AbortReturns, CallOver, Typing, Stages, Flags, issueVars, listVars,
           countVars, timeVars, abortVars, bhVars, Control, Issue, Reach,
           Calls, Given, Ripe, InIssue, Places, NeedPlace
  <2>6. ASSUME NEW d \in Cmds PROVE OwedPlace(d)'
    BY <1>30, <2>1
       DEF AbortReturns, CallOver, Typing, Stages, Flags, issueVars, listVars,
           countVars, timeVars, abortVars, bhVars, Control, Issue, Reach,
           Calls, Given, Ripe, InIssue, Places, OwedPlace, AtBh
  <2>7. ASSUME NEW d \in Cmds PROVE AddPlace(d)'
    BY <1>30, <2>1
       DEF AbortReturns, CallOver, Typing, Stages, Flags, issueVars, listVars,
           countVars, timeVars, abortVars, bhVars, Control, Issue, Reach,
           Calls, Given, Ripe, InIssue, Places, AddPlace, AtBh
  <2>8. ASSUME NEW d \in Cmds PROVE BhPlace(d)'
    BY <1>30, <2>1
       DEF AbortReturns, CallOver, Typing, Stages, Flags, issueVars, listVars,
           countVars, timeVars, abortVars, bhVars, Control, Issue, Reach,
           Calls, Given, Ripe, InIssue, Places, BhPlace, AtBh
  <2> QED BY <2>5, <2>6, <2>7, <2>8 DEF Places
<1> QED
  BY <1>1, <1>2, <1>3, <1>4, <1>5, <1>6, <1>7, <1>8, <1>9, <1>10, <1>11,
     <1>12, <1>13, <1>14, <1>15, <1>16, <1>17, <1>18, <1>19, <1>20, <1>21,
     <1>22, <1>23, <1>24, <1>25, <1>26, <1>27, <1>28, <1>29, <1>30
     DEF Next, Steps, IssueStep, DoneStep, WorkStep, BhStep, AbortStep

(* runningBH is set exactly while the bottom half is scheduled or runs.    *)
LEMMA HalvesHold ==
    ASSUME ~ Ties, Typing, Halves, BhPending, Next
    PROVE  Halves'
<1>1. ASSUME NEW w \in Callers, NEW p \in PCPUs, DoneAdd(w, p) PROVE Halves'
  BY <1>1, ScsiAssumption
     DEF DoneAdd, Subject, Signal, Typing, Callers, Stages, Flags, issueVars,
         listVars, countVars, timeVars, abortVars, bhVars, Halves, BhPending
<1>2. ASSUME NEW p \in PCPUs, BhStart(p) PROVE Halves'
  BY <1>2, ScsiAssumption
     DEF BhStart, Splice, Typing, Callers, Stages, Flags, issueVars, listVars,
         countVars, timeVars, abortVars, bhVars, Halves, BhPending
<1>3. ASSUME NEW p \in PCPUs, NEW c \in Cmds, BhTakes(p, c) PROVE Halves'
  BY <1>3, ScsiAssumption
     DEF BhTakes, Typing, Callers, Stages, Flags, issueVars, listVars,
         countVars, timeVars, abortVars, bhVars, Halves, BhPending
<1>4. ASSUME NEW p \in PCPUs, BhCounts(p) PROVE Halves'
  BY <1>4, ScsiAssumption
     DEF BhCounts, Uncount, Typing, Callers, Stages, Flags, issueVars,
         listVars, countVars, timeVars, abortVars, bhVars, Halves, BhPending
<1>5. ASSUME NEW p \in PCPUs, BhPuts(p) PROVE Halves'
  BY <1>5, ScsiAssumption
     DEF BhPuts, Typing, Callers, Stages, Flags, issueVars, listVars,
         countVars, timeVars, abortVars, bhVars, Halves, BhPending
<1>6. ASSUME NEW p \in PCPUs, BhCompletes(p) PROVE Halves'
  BY <1>6, ScsiAssumption
     DEF BhCompletes, Typing, Callers, Stages, Flags, issueVars, listVars,
         countVars, timeVars, abortVars, bhVars, Halves, BhPending
<1>7. ASSUME NEW p \in PCPUs, BhEnds(p) PROVE Halves'
  BY <1>7, ScsiAssumption
     DEF BhEnds, LeftOver, Splice, Typing, Callers, Stages, Flags, issueVars,
         listVars, countVars, timeVars, abortVars, bhVars, Halves, BhPending
<1>8. ASSUME NEW c \in Cmds,
             \/ GetCommand(c) \/ Refuse(c) \/ FailEarly(c) \/ Accept(c)
             \/ FailOffline(c) \/ ReadFlags(c) \/ AddTimer(c)
             \/ DriverTakes(c) \/ DriverRejects(c) \/ Rejected(c)
             \/ DriverDone(c) \/ TimerFires(c) \/ CmdTimedOut(c)
      PROVE Halves'
  BY <1>8, ScsiAssumption
     DEF GetCommand, Refuse, FailEarly, Accept, FailOffline, ReadFlags,
         AddTimer, DriverTakes, DriverRejects, Rejected, DriverDone,
         TimerFires, CmdTimedOut, Typing, Callers, Stages, Flags, issueVars,
         listVars, countVars, timeVars, abortVars, bhVars, Halves, BhPending
<1>9. ASSUME NEW w \in Callers,
             \/ DoneTimer(w) \/ DoneCheck(w) \/ DonePanics(w)
      PROVE Halves'
  BY <1>9, ScsiAssumption
     DEF DoneTimer, DoneCheck, DonePanics, Typing, Callers, Stages, Flags,
         issueVars, listVars, countVars, timeVars, abortVars, bhVars, Halves,
         BhPending
<1>10. ASSUME NEW a \in Aborters,
             \/ (\E named \in SUBSET Nameable : AbortScan(a, named))
             \/ (\E c \in Cmds : AbortOne(a, c)) \/ AbortLocks(a)
             \/ (\E c \in Cmds : AbortEnds(a, c)) \/ AbortReturns(a)
      PROVE Halves'
  BY <1>10, ScsiAssumption
     DEF AbortScan, AbortOne, AbortLocks, AbortEnds, AbortReturns, Typing,
         Callers, Stages, Flags, issueVars, listVars, countVars, timeVars,
         abortVars, bhVars, Halves, BhPending
<1>11. ASSUME WorkStarts \/ WorkEnds
      PROVE Halves'
  BY <1>11, ScsiAssumption
     DEF WorkStarts, WorkEnds, Typing, Callers, Stages, Flags, issueVars,
         listVars, countVars, timeVars, abortVars, bhVars, Halves, BhPending
<1> QED
  BY <1>1, <1>2, <1>3, <1>4, <1>5, <1>6, <1>7, <1>8, <1>9, <1>10, <1>11
     DEF Next, Steps, IssueStep, DoneStep, WorkStep, BhStep, AbortStep

(* Interrupts that see runningBH set leave their command to a bottom half  *)
(* that will look again.                                                   *)
LEMMA BhPendingStep ==
    ASSUME Typing, Halves, BhPending, Next
    PROVE  BhPending'
<1>1. ASSUME NEW w \in Callers, NEW p \in PCPUs, DoneAdd(w, p)
      PROVE  BhPending'
  BY <1>1, ScsiAssumption
     DEF DoneAdd, Subject, Signal, Typing, Callers, Stages, Flags, issueVars,
         listVars, countVars, timeVars, abortVars, bhVars, Halves, BhPending
<1>2. ASSUME NEW p \in PCPUs, BhStart(p) PROVE BhPending'
  BY <1>2, ScsiAssumption
     DEF BhStart, Splice, Typing, Callers, Stages, Flags, issueVars, listVars,
         countVars, timeVars, abortVars, bhVars, Halves, BhPending
<1>3. ASSUME NEW p \in PCPUs, NEW c \in Cmds, BhTakes(p, c) PROVE BhPending'
  BY <1>3, ScsiAssumption
     DEF BhTakes, Typing, Callers, Stages, Flags, issueVars, listVars,
         countVars, timeVars, abortVars, bhVars, Halves, BhPending
<1>4. ASSUME NEW p \in PCPUs, BhCounts(p) PROVE BhPending'
  BY <1>4, ScsiAssumption
     DEF BhCounts, Uncount, Typing, Callers, Stages, Flags, issueVars,
         listVars, countVars, timeVars, abortVars, bhVars, Halves, BhPending
<1>5. ASSUME NEW p \in PCPUs, BhPuts(p) PROVE BhPending'
  BY <1>5, ScsiAssumption
     DEF BhPuts, Typing, Callers, Stages, Flags, issueVars, listVars,
         countVars, timeVars, abortVars, bhVars, Halves, BhPending
<1>6. ASSUME NEW p \in PCPUs, BhCompletes(p) PROVE BhPending'
  BY <1>6, ScsiAssumption
     DEF BhCompletes, Typing, Callers, Stages, Flags, issueVars, listVars,
         countVars, timeVars, abortVars, bhVars, Halves, BhPending
<1>7. ASSUME NEW p \in PCPUs, BhEnds(p) PROVE BhPending'
  BY <1>7, ScsiAssumption
     DEF BhEnds, LeftOver, Splice, Typing, Callers, Stages, Flags, issueVars,
         listVars, countVars, timeVars, abortVars, bhVars, Halves, BhPending
<1>8. ASSUME NEW c \in Cmds,
             \/ GetCommand(c) \/ Refuse(c) \/ FailEarly(c) \/ Accept(c)
             \/ FailOffline(c) \/ ReadFlags(c) \/ AddTimer(c)
             \/ DriverTakes(c) \/ DriverRejects(c) \/ Rejected(c)
             \/ DriverDone(c) \/ TimerFires(c) \/ CmdTimedOut(c)
      PROVE BhPending'
  BY <1>8, ScsiAssumption
     DEF GetCommand, Refuse, FailEarly, Accept, FailOffline, ReadFlags,
         AddTimer, DriverTakes, DriverRejects, Rejected, DriverDone,
         TimerFires, CmdTimedOut, Typing, Callers, Stages, Flags, issueVars,
         listVars, countVars, timeVars, abortVars, bhVars, Halves, BhPending
<1>9. ASSUME NEW w \in Callers,
             \/ DoneTimer(w) \/ DoneCheck(w) \/ DonePanics(w)
      PROVE BhPending'
  BY <1>9, ScsiAssumption
     DEF DoneTimer, DoneCheck, DonePanics, Typing, Callers, Stages, Flags,
         issueVars, listVars, countVars, timeVars, abortVars, bhVars, Halves,
         BhPending
<1>10. ASSUME NEW a \in Aborters,
             \/ (\E named \in SUBSET Nameable : AbortScan(a, named))
             \/ (\E c \in Cmds : AbortOne(a, c)) \/ AbortLocks(a)
             \/ (\E c \in Cmds : AbortEnds(a, c)) \/ AbortReturns(a)
      PROVE BhPending'
  BY <1>10, ScsiAssumption
     DEF AbortScan, AbortOne, AbortLocks, AbortEnds, AbortReturns, Typing,
         Callers, Stages, Flags, issueVars, listVars, countVars, timeVars,
         abortVars, bhVars, Halves, BhPending
<1>11. ASSUME WorkStarts \/ WorkEnds
      PROVE BhPending'
  BY <1>11, ScsiAssumption
     DEF WorkStarts, WorkEnds, Typing, Callers, Stages, Flags, issueVars,
         listVars, countVars, timeVars, abortVars, bhVars, Halves, BhPending
<1> QED
  BY <1>1, <1>2, <1>3, <1>4, <1>5, <1>6, <1>7, <1>8, <1>9, <1>10, <1>11
     DEF Next, Steps, IssueStep, DoneStep, WorkStep, BhStep, AbortStep

(* CMDDONE_ATTEMPTED is never cleared.                                     *)
LEMMA RecordedHolds ==
    ASSUME Tame, Typing, Control, Recorded, Next
    PROVE  Recorded'
<1>1. ASSUME NEW c \in Cmds, GetCommand(c) PROVE Recorded'
  BY <1>1, ScsiAssumption
     DEF GetCommand, Stage, Tame, Typing, Callers, Stages, Flags, issueVars,
         listVars, countVars, timeVars, abortVars, bhVars, Control, Issue,
         Recorded, Given
<1>2. ASSUME NEW c \in Cmds, FailEarly(c) PROVE Recorded'
  BY <1>2, ScsiAssumption
     DEF FailEarly, Stage, Set, Count, CallDone, Tame, Typing, Callers,
         Stages, Flags, issueVars, listVars, countVars, timeVars, abortVars,
         bhVars, Control, Issue, Recorded, Given
<1>3. ASSUME NEW c \in Cmds, Accept(c) PROVE Recorded'
  BY <1>3, ScsiAssumption
     DEF Accept, Stage, Set, Count, Tame, Typing, Callers, Stages, Flags,
         issueVars, listVars, countVars, timeVars, abortVars, bhVars, Control,
         Issue, Recorded, Given
<1>4. ASSUME NEW c \in Cmds, AddTimer(c) PROVE Recorded'
  BY <1>4, ScsiAssumption
     DEF AddTimer, Stage, Tame, Typing, Callers, Stages, Flags, issueVars,
         listVars, countVars, timeVars, abortVars, bhVars, Control, Issue,
         Recorded, Given
<1>5. ASSUME NEW w \in Callers, DoneCheck(w) PROVE Recorded'
  BY <1>5, ScsiAssumption
     DEF DoneCheck, Subject, AtCheck, Delayed, Set, Clear, Tame, Typing,
         Callers, Stages, Flags, issueVars, listVars, countVars, timeVars,
         abortVars, bhVars, Control, Issue, Recorded, Given
<1>6. ASSUME NEW c \in Cmds, CmdTimedOut(c) PROVE Recorded'
  BY <1>6, ScsiAssumption
     DEF CmdTimedOut, MayHold, Clear, Tame, Typing, Callers, Stages, Flags,
         issueVars, listVars, countVars, timeVars, abortVars, bhVars, Control,
         Issue, Recorded, Given
<1>7. ASSUME WorkEnds PROVE Recorded'
  BY <1>7, ScsiAssumption
     DEF WorkEnds, LetGo, Clear, CallDone, Tame, Typing, Callers, Stages,
         Flags, issueVars, listVars, countVars, timeVars, abortVars, bhVars,
         Control, Issue, Recorded, Given
<1>8. ASSUME NEW a \in Aborters, NEW named \in SUBSET Nameable,
             AbortScan(a, named)
      PROVE  Recorded'
  BY <1>8, ScsiAssumption
     DEF AbortScan, Abortable, Nameable, Tame, Typing, Callers, Stages, Flags,
         issueVars, listVars, countVars, timeVars, abortVars, bhVars, Control,
         Issue, Recorded, Given
<1>9. ASSUME NEW a \in Aborters, NEW c \in Cmds, AbortOne(a, c)
      PROVE  Recorded'
  BY <1>9, ScsiAssumption
     DEF AbortOne, AbortStatus, Tame, Typing, Callers, Stages, Flags,
         issueVars, listVars, countVars, timeVars, abortVars, bhVars, Control,
         Issue, Recorded, Given
<1>10. ASSUME NEW a \in Aborters, NEW c \in Cmds, AbortEnds(a, c)
      PROVE  Recorded'
  BY <1>10, ScsiAssumption
     DEF AbortEnds, CallOver, LetGo, ListBack, Clear, CallDone, Tame, Typing,
         Callers, Stages, Flags, issueVars, listVars, countVars, timeVars,
         abortVars, bhVars, Control, Issue, Recorded, Given
<1>11. ASSUME NEW a \in Aborters, AbortReturns(a) PROVE Recorded'
  BY <1>11, ScsiAssumption
     DEF AbortReturns, CallOver, Tame, Typing, Callers, Stages, Flags,
         issueVars, listVars, countVars, timeVars, abortVars, bhVars, Control,
         Issue, Recorded, Given
<1>12. ASSUME NEW c \in Cmds,
             \/ Refuse(c) \/ FailOffline(c) \/ ReadFlags(c) \/ DriverTakes(c)
             \/ DriverRejects(c) \/ Rejected(c) \/ DriverDone(c)
             \/ TimerFires(c)
      PROVE Recorded'
  BY <1>12, ScsiAssumption
     DEF Refuse, FailOffline, ReadFlags, DriverTakes, DriverRejects, Rejected,
         DriverDone, TimerFires, Tame, Typing, Callers, Stages, Flags,
         issueVars, listVars, countVars, timeVars, abortVars, bhVars, Control,
         Issue, Recorded, Given
<1>13. ASSUME NEW w \in Callers,
             \/ DoneTimer(w) \/ DonePanics(w)
             \/ (\E p \in PCPUs : DoneAdd(w, p))
      PROVE Recorded'
  BY <1>13, ScsiAssumption
     DEF DoneTimer, DonePanics, DoneAdd, Tame, Typing, Callers, Stages, Flags,
         issueVars, listVars, countVars, timeVars, abortVars, bhVars, Control,
         Issue, Recorded, Given
<1>14. ASSUME NEW p \in PCPUs,
             \/ BhStart(p) \/ (\E c \in Cmds : BhTakes(p, c)) \/ BhCounts(p)
             \/ BhPuts(p) \/ BhCompletes(p) \/ BhEnds(p)
      PROVE Recorded'
  BY <1>14, ScsiAssumption
     DEF BhStart, BhTakes, BhCounts, BhPuts, BhCompletes, BhEnds, Tame,
         Typing, Callers, Stages, Flags, issueVars, listVars, countVars,
         timeVars, abortVars, bhVars, Control, Issue, Recorded, Given
<1>15. ASSUME NEW a \in Aborters,
             \/ AbortLocks(a)
      PROVE Recorded'
  BY <1>15, ScsiAssumption
     DEF AbortLocks, Tame, Typing, Callers, Stages, Flags, issueVars,
         listVars, countVars, timeVars, abortVars, bhVars, Control, Issue,
         Recorded, Given
<1>16. ASSUME WorkStarts
      PROVE Recorded'
  BY <1>16, ScsiAssumption
     DEF WorkStarts, Tame, Typing, Callers, Stages, Flags, issueVars,
         listVars, countVars, timeVars, abortVars, bhVars, Control, Issue,
         Recorded, Given
<1> QED
  BY <1>1, <1>2, <1>3, <1>4, <1>5, <1>6, <1>7, <1>8, <1>9, <1>10, <1>11,
     <1>12, <1>13, <1>14, <1>15, <1>16
     DEF Next, Steps, IssueStep, DoneStep, WorkStep, BhStep, AbortStep

(* A block is freed on a refusal or by the bottom half, when it is on      *)
(* cmd_list because nobody holds it.                                       *)
LEMMA BlocksHold ==
    ASSUME Tame, Typing, Control, Places, Holders, Blocks, Next
    PROVE  Blocks'
<1>1. ASSUME NEW c \in Cmds, GetCommand(c) PROVE Blocks'
  BY <1>1, ScsiAssumption
     DEF GetCommand, Stage, Tame, Typing, Callers, Stages, Flags, issueVars,
         listVars, countVars, timeVars, abortVars, bhVars, Control, Issue,
         Reach, Calls, Given, Ripe, InIssue, Subject, Places, NeedPlace,
         OwedPlace, AddPlace, BhPlace, Call, Adding, AtBh, Holders, OneHolder,
         Holding, Blocks, Freeing
<1>2. ASSUME NEW c \in Cmds, Refuse(c) PROVE Blocks'
  BY <1>2, ScsiAssumption
     DEF Refuse, Stage, Tame, Typing, Callers, Stages, Flags, issueVars,
         listVars, countVars, timeVars, abortVars, bhVars, Control, Issue,
         Reach, Calls, Given, Ripe, InIssue, Subject, Places, NeedPlace,
         OwedPlace, AddPlace, BhPlace, Call, Adding, AtBh, Holders, OneHolder,
         Holding, Blocks, Freeing
<1>3. ASSUME NEW c \in Cmds, FailEarly(c) PROVE Blocks'
  BY <1>3, ScsiAssumption
     DEF FailEarly, Stage, Set, Count, CallDone, Tame, Typing, Callers,
         Stages, Flags, issueVars, listVars, countVars, timeVars, abortVars,
         bhVars, Control, Issue, Reach, Calls, Given, Ripe, InIssue, Subject,
         Places, NeedPlace, OwedPlace, AddPlace, BhPlace, Call, Adding, AtBh,
         Holders, OneHolder, Holding, Blocks, Freeing
<1>4. ASSUME NEW c \in Cmds, Accept(c) PROVE Blocks'
  BY <1>4, ScsiAssumption
     DEF Accept, Stage, Set, Count, Tame, Typing, Callers, Stages, Flags,
         issueVars, listVars, countVars, timeVars, abortVars, bhVars, Control,
         Issue, Reach, Calls, Given, Ripe, InIssue, Subject, Places,
         NeedPlace, OwedPlace, AddPlace, BhPlace, Call, Adding, AtBh, Holders,
         OneHolder, Holding, Blocks, Freeing
<1>5. ASSUME NEW c \in Cmds, FailOffline(c) PROVE Blocks'
  BY <1>5, ScsiAssumption
     DEF FailOffline, Stage, CallDone, Tame, Typing, Callers, Stages, Flags,
         issueVars, listVars, countVars, timeVars, abortVars, bhVars, Control,
         Issue, Reach, Calls, Given, Ripe, InIssue, Subject, Places,
         NeedPlace, OwedPlace, AddPlace, BhPlace, Call, Adding, AtBh, Holders,
         OneHolder, Holding, Blocks, Freeing
<1>6. ASSUME NEW c \in Cmds, ReadFlags(c) PROVE Blocks'
  BY <1>6, ScsiAssumption
     DEF ReadFlags, Stage, Tame, Typing, Callers, Stages, Flags, issueVars,
         listVars, countVars, timeVars, abortVars, bhVars, Control, Issue,
         Reach, Calls, Given, Ripe, InIssue, Subject, Places, NeedPlace,
         OwedPlace, AddPlace, BhPlace, Call, Adding, AtBh, Holders, OneHolder,
         Holding, Blocks, Freeing
<1>7. ASSUME NEW c \in Cmds, AddTimer(c) PROVE Blocks'
  BY <1>7, ScsiAssumption
     DEF AddTimer, Stage, Tame, Typing, Callers, Stages, Flags, issueVars,
         listVars, countVars, timeVars, abortVars, bhVars, Control, Issue,
         Reach, Calls, Given, Ripe, InIssue, Subject, Places, NeedPlace,
         OwedPlace, AddPlace, BhPlace, Call, Adding, AtBh, Holders, OneHolder,
         Holding, Blocks, Freeing
<1>8. ASSUME NEW c \in Cmds, DriverTakes(c) PROVE Blocks'
  BY <1>8, ScsiAssumption
     DEF DriverTakes, Stage, AtDriver, Tame, Typing, Callers, Stages, Flags,
         issueVars, listVars, countVars, timeVars, abortVars, bhVars, Control,
         Issue, Reach, Calls, Given, Ripe, InIssue, Subject, Places,
         NeedPlace, OwedPlace, AddPlace, BhPlace, Call, Adding, AtBh, Holders,
         OneHolder, Holding, Blocks, Freeing
<1>9. ASSUME NEW c \in Cmds, DriverRejects(c) PROVE Blocks'
  BY <1>9, ScsiAssumption
     DEF DriverRejects, Stage, AtDriver, Tame, Typing, Callers, Stages, Flags,
         issueVars, listVars, countVars, timeVars, abortVars, bhVars, Control,
         Issue, Reach, Calls, Given, Ripe, InIssue, Subject, Places,
         NeedPlace, OwedPlace, AddPlace, BhPlace, Call, Adding, AtBh, Holders,
         OneHolder, Holding, Blocks, Freeing
<1>10. ASSUME NEW c \in Cmds, Rejected(c) PROVE Blocks'
  BY <1>10, ScsiAssumption
     DEF Rejected, Stage, CallDone, Tame, Typing, Callers, Stages, Flags,
         issueVars, listVars, countVars, timeVars, abortVars, bhVars, Control,
         Issue, Reach, Calls, Given, Ripe, InIssue, Subject, Places,
         NeedPlace, OwedPlace, AddPlace, BhPlace, Call, Adding, AtBh, Holders,
         OneHolder, Holding, Blocks, Freeing
<1>11. ASSUME NEW p \in PCPUs, NEW c \in Cmds, BhTakes(p, c) PROVE Blocks'
  BY <1>11, ScsiAssumption
     DEF BhTakes, Tame, Typing, Callers, Stages, Flags, issueVars, listVars,
         countVars, timeVars, abortVars, bhVars, Control, Issue, Reach, Calls,
         Given, Ripe, InIssue, Subject, Places, NeedPlace, OwedPlace,
         AddPlace, BhPlace, Call, Adding, AtBh, Holders, OneHolder, Holding,
         Blocks, Freeing
<1>12. ASSUME NEW p \in PCPUs, BhCounts(p) PROVE Blocks'
  BY <1>12, ScsiAssumption
     DEF BhCounts, Uncount, Tame, Typing, Callers, Stages, Flags, issueVars,
         listVars, countVars, timeVars, abortVars, bhVars, Control, Issue,
         Reach, Calls, Given, Ripe, InIssue, Subject, Places, NeedPlace,
         OwedPlace, AddPlace, BhPlace, Call, Adding, AtBh, Holders, OneHolder,
         Holding, Blocks, Freeing
<1>13. ASSUME NEW p \in PCPUs, BhPuts(p) PROVE Blocks'
  BY <1>13, ScsiAssumption
     DEF BhPuts, Tame, Typing, Callers, Stages, Flags, issueVars, listVars,
         countVars, timeVars, abortVars, bhVars, Control, Issue, Reach, Calls,
         Given, Ripe, InIssue, Subject, Places, NeedPlace, OwedPlace,
         AddPlace, BhPlace, Call, Adding, AtBh, Holders, OneHolder, Holding,
         Blocks, Freeing
<1>14. ASSUME NEW p \in PCPUs, BhCompletes(p) PROVE Blocks'
  BY <1>14, ScsiAssumption
     DEF BhCompletes, Tame, Typing, Callers, Stages, Flags, issueVars,
         listVars, countVars, timeVars, abortVars, bhVars, Control, Issue,
         Reach, Calls, Given, Ripe, InIssue, Subject, Places, NeedPlace,
         OwedPlace, AddPlace, BhPlace, Call, Adding, AtBh, Holders, OneHolder,
         Holding, Blocks, Freeing
<1>15. ASSUME NEW a \in Aborters, NEW named \in SUBSET Nameable,
             AbortScan(a, named)
      PROVE  Blocks'
  BY <1>15, ScsiAssumption
     DEF AbortScan, Abortable, Nameable, Tame, Typing, Callers, Stages, Flags,
         issueVars, listVars, countVars, timeVars, abortVars, bhVars, Control,
         Issue, Reach, Calls, Given, Ripe, InIssue, Subject, Places,
         NeedPlace, OwedPlace, AddPlace, BhPlace, Call, Adding, AtBh, Holders,
         OneHolder, Holding, Blocks, Freeing
<1>16. ASSUME NEW a \in Aborters, NEW c \in Cmds, AbortEnds(a, c)
      PROVE  Blocks'
  BY <1>16, ScsiAssumption
     DEF AbortEnds, CallOver, LetGo, ListBack, Clear, CallDone, Tame, Typing,
         Callers, Stages, Flags, issueVars, listVars, countVars, timeVars,
         abortVars, bhVars, Control, Issue, Reach, Calls, Given, Ripe,
         InIssue, Subject, Places, NeedPlace, OwedPlace, AddPlace, BhPlace,
         Call, Adding, AtBh, Holders, OneHolder, Holding, Blocks, Freeing
<1>17. ASSUME NEW c \in Cmds,
             \/ DriverDone(c) \/ TimerFires(c) \/ CmdTimedOut(c)
      PROVE Blocks'
  BY <1>17, ScsiAssumption
     DEF DriverDone, TimerFires, CmdTimedOut, Tame, Typing, Callers, Stages,
         Flags, issueVars, listVars, countVars, timeVars, abortVars, bhVars,
         Control, Issue, Reach, Calls, Given, Ripe, InIssue, Subject, Places,
         NeedPlace, OwedPlace, AddPlace, BhPlace, Call, Adding, AtBh, Holders,
         OneHolder, Holding, Blocks, Freeing
<1>18. ASSUME NEW w \in Callers,
             \/ DoneTimer(w) \/ DoneCheck(w) \/ DonePanics(w)
             \/ (\E p \in PCPUs : DoneAdd(w, p))
      PROVE Blocks'
  BY <1>18, ScsiAssumption
     DEF DoneTimer, DoneCheck, DonePanics, DoneAdd, Tame, Typing, Callers,
         Stages, Flags, issueVars, listVars, countVars, timeVars, abortVars,
         bhVars, Control, Issue, Reach, Calls, Given, Ripe, InIssue, Subject,
         Places, NeedPlace, OwedPlace, AddPlace, BhPlace, Call, Adding, AtBh,
         Holders, OneHolder, Holding, Blocks, Freeing
<1>19. ASSUME NEW p \in PCPUs,
             \/ BhStart(p) \/ BhEnds(p)
      PROVE Blocks'
  BY <1>19, ScsiAssumption
     DEF BhStart, BhEnds, Tame, Typing, Callers, Stages, Flags, issueVars,
         listVars, countVars, timeVars, abortVars, bhVars, Control, Issue,
         Reach, Calls, Given, Ripe, InIssue, Subject, Places, NeedPlace,
         OwedPlace, AddPlace, BhPlace, Call, Adding, AtBh, Holders, OneHolder,
         Holding, Blocks, Freeing
<1>20. ASSUME NEW a \in Aborters,
             \/ (\E c \in Cmds : AbortOne(a, c)) \/ AbortLocks(a)
             \/ AbortReturns(a)
      PROVE Blocks'
  BY <1>20, ScsiAssumption
     DEF AbortOne, AbortLocks, AbortReturns, Tame, Typing, Callers, Stages,
         Flags, issueVars, listVars, countVars, timeVars, abortVars, bhVars,
         Control, Issue, Reach, Calls, Given, Ripe, InIssue, Subject, Places,
         NeedPlace, OwedPlace, AddPlace, BhPlace, Call, Adding, AtBh, Holders,
         OneHolder, Holding, Blocks, Freeing
<1>21. ASSUME WorkStarts \/ WorkEnds
      PROVE Blocks'
  BY <1>21, ScsiAssumption
     DEF WorkStarts, WorkEnds, Tame, Typing, Callers, Stages, Flags,
         issueVars, listVars, countVars, timeVars, abortVars, bhVars, Control,
         Issue, Reach, Calls, Given, Ripe, InIssue, Subject, Places,
         NeedPlace, OwedPlace, AddPlace, BhPlace, Call, Adding, AtBh, Holders,
         OneHolder, Holding, Blocks, Freeing
<1> QED
  BY <1>1, <1>2, <1>3, <1>4, <1>5, <1>6, <1>7, <1>8, <1>9, <1>10, <1>11,
     <1>12, <1>13, <1>14, <1>15, <1>16, <1>17, <1>18, <1>19, <1>20, <1>21
     DEF Next, Steps, IssueStep, DoneStep, WorkStep, BhStep, AbortStep

(* There are finitely many commands, so host_busy has a value.             *)
LEMMA CountedFinite ==
    ASSUME Typing
    PROVE  IsFiniteSet(Counted)
BY ScsiAssumption, FS_Subset DEF Typing, Counted

(* Count adds a new command; the bottom half takes out one that is counted. *)
LEMMA BusyHolds ==
    ASSUME Typing, Control, Places, BusyCount, Next
    PROVE  BusyCount'
<1>1. ASSUME NEW c \in Cmds, FailEarly(c) PROVE BusyCount'
  <2>1. c \notin Counted /\ Counted' = Counted \cup {c}
    BY <1>1, ScsiAssumption
       DEF FailEarly, Stage, Set, Count, CallDone, Typing, Callers, Stages,
           Flags, issueVars, listVars, countVars, timeVars, abortVars, bhVars,
           Control, Issue, Reach, Calls, Given, Ripe, InIssue, Subject,
           Places, NeedPlace, OwedPlace, AddPlace, BhPlace, Call, Adding,
           AtBh, Counted
  <2> QED BY <1>1, <2>1, CountedFinite, FS_AddElement
         DEF FailEarly, Count, BusyCount, Counted
<1>2. ASSUME NEW c \in Cmds, Accept(c) PROVE BusyCount'
  <2>1. c \notin Counted /\ Counted' = Counted \cup {c}
    BY <1>2, ScsiAssumption
       DEF Accept, Stage, Set, Count, Typing, Callers, Stages, Flags,
           issueVars, listVars, countVars, timeVars, abortVars, bhVars,
           Control, Issue, Reach, Calls, Given, Ripe, InIssue, Subject,
           Places, NeedPlace, OwedPlace, AddPlace, BhPlace, Call, Adding,
           AtBh, Counted
  <2> QED BY <1>2, <2>1, CountedFinite, FS_AddElement
         DEF Accept, Count, BusyCount, Counted
<1>3. ASSUME NEW p \in PCPUs, BhStart(p) PROVE BusyCount'
  <2>1. Counted' = Counted /\ busy' = busy
    BY <1>3, ScsiAssumption
       DEF BhStart, Splice, Typing, Callers, Stages, Flags, issueVars,
           listVars, countVars, timeVars, abortVars, bhVars, Places,
           NeedPlace, OwedPlace, AddPlace, BhPlace, Call, Adding, AtBh,
           Counted
  <2> QED BY <2>1 DEF BusyCount, Counted
<1>4. ASSUME NEW p \in PCPUs, NEW c \in Cmds, BhTakes(p, c) PROVE BusyCount'
  <2>1. Counted' = Counted /\ busy' = busy
    BY <1>4, ScsiAssumption
       DEF BhTakes, Typing, Callers, Stages, Flags, issueVars, listVars,
           countVars, timeVars, abortVars, bhVars, Places, NeedPlace,
           OwedPlace, AddPlace, BhPlace, Call, Adding, AtBh, Counted
  <2> QED BY <2>1 DEF BusyCount, Counted
<1>5. ASSUME NEW p \in PCPUs, BhCounts(p) PROVE BusyCount'
  <2>1. cur[p] \in Counted
    BY <1>5, ScsiAssumption
       DEF BhCounts, Uncount, Typing, Callers, Stages, Flags, issueVars,
           listVars, countVars, timeVars, abortVars, bhVars, Places,
           NeedPlace, OwedPlace, AddPlace, BhPlace, Call, Adding, AtBh,
           Counted
  <2>2. Counted' = Counted \ {cur[p]}
    BY <1>5, ScsiAssumption
       DEF BhCounts, Uncount, Typing, Callers, Stages, Flags, issueVars,
           listVars, countVars, timeVars, abortVars, bhVars, Places,
           NeedPlace, OwedPlace, AddPlace, BhPlace, Call, Adding, AtBh,
           Counted
  <2>3. Cardinality(Counted \ {cur[p]}) = Cardinality(Counted) - 1
    BY <2>1, CountedFinite, FS_RemoveElement
  <2>4. busy' = Cardinality(Counted')
    BY <1>5, <2>2, <2>3
       DEF BhCounts, Uncount, BusyCount, Counted
  <2> QED BY <2>4 DEF BusyCount, Counted
<1>6. ASSUME NEW p \in PCPUs, BhPuts(p) PROVE BusyCount'
  <2>1. Counted' = Counted /\ busy' = busy
    BY <1>6, ScsiAssumption
       DEF BhPuts, Typing, Callers, Stages, Flags, issueVars, listVars,
           countVars, timeVars, abortVars, bhVars, Places, NeedPlace,
           OwedPlace, AddPlace, BhPlace, Call, Adding, AtBh, Counted
  <2> QED BY <2>1 DEF BusyCount, Counted
<1>7. ASSUME NEW p \in PCPUs, BhCompletes(p) PROVE BusyCount'
  <2>1. Counted' = Counted /\ busy' = busy
    BY <1>7, ScsiAssumption
       DEF BhCompletes, Typing, Callers, Stages, Flags, issueVars, listVars,
           countVars, timeVars, abortVars, bhVars, Places, NeedPlace,
           OwedPlace, AddPlace, BhPlace, Call, Adding, AtBh, Counted
  <2> QED BY <2>1 DEF BusyCount, Counted
<1>8. ASSUME NEW p \in PCPUs, BhEnds(p) PROVE BusyCount'
  <2>1. Counted' = Counted /\ busy' = busy
    BY <1>8, ScsiAssumption
       DEF BhEnds, LeftOver, Splice, Typing, Callers, Stages, Flags,
           issueVars, listVars, countVars, timeVars, abortVars, bhVars,
           Places, NeedPlace, OwedPlace, AddPlace, BhPlace, Call, Adding,
           AtBh, Counted
  <2> QED BY <2>1 DEF BusyCount, Counted
<1>9. ASSUME NEW c \in Cmds,
             \/ GetCommand(c) \/ Refuse(c) \/ FailOffline(c) \/ ReadFlags(c)
             \/ AddTimer(c) \/ DriverTakes(c) \/ DriverRejects(c)
             \/ Rejected(c) \/ DriverDone(c) \/ TimerFires(c)
             \/ CmdTimedOut(c)
      PROVE BusyCount'
  BY <1>9, ScsiAssumption
     DEF GetCommand, Refuse, FailOffline, ReadFlags, AddTimer, DriverTakes,
         DriverRejects, Rejected, DriverDone, TimerFires, CmdTimedOut,
         issueVars, listVars, countVars, timeVars, abortVars, bhVars,
         BusyCount
<1>10. ASSUME NEW w \in Callers,
             \/ DoneTimer(w) \/ DoneCheck(w) \/ DonePanics(w)
             \/ (\E p \in PCPUs : DoneAdd(w, p))
      PROVE BusyCount'
  BY <1>10, ScsiAssumption
     DEF DoneTimer, DoneCheck, DonePanics, DoneAdd, issueVars, listVars,
         countVars, timeVars, abortVars, bhVars, BusyCount
<1>11. ASSUME NEW a \in Aborters,
             \/ (\E named \in SUBSET Nameable : AbortScan(a, named))
             \/ (\E c \in Cmds : AbortOne(a, c)) \/ AbortLocks(a)
             \/ (\E c \in Cmds : AbortEnds(a, c)) \/ AbortReturns(a)
      PROVE BusyCount'
  BY <1>11, ScsiAssumption
     DEF AbortScan, AbortOne, AbortLocks, AbortEnds, AbortReturns, issueVars,
         listVars, countVars, timeVars, abortVars, bhVars, BusyCount
<1>12. ASSUME WorkStarts \/ WorkEnds
      PROVE BusyCount'
  BY <1>12, ScsiAssumption
     DEF WorkStarts, WorkEnds, issueVars, listVars, countVars, timeVars,
         abortVars, bhVars, BusyCount
<1> QED
  BY <1>1, <1>2, <1>3, <1>4, <1>5, <1>6, <1>7, <1>8, <1>9, <1>10, <1>11, <1>12
     DEF Next, Steps, IssueStep, DoneStep, WorkStep, BhStep, AbortStep

-----------------------------------------------------------------------------
Inv ==
    /\ Typing /\ Control /\ Places /\ Holders /\ Blocks /\ BusyCount
    /\ Recorded

(* The invariant holds before the first command.                           *)
LEMMA InvInit == Init => Inv
<1> SUFFICES ASSUME Init PROVE Inv
  OBVIOUS
<1>1. Typing
  <2>1. \A w \in Callers : dpc[w] # "no" => Subject(w) \in Cmds
    BY DEF Init
  <2>2. \A p \in PCPUs : cur[p] # None <=> bpc[p] \in {"dec", "put", "complete"}
    BY DEF Init
  <2>3. calling \in [Aborters \cup {Worker} -> Cmds \cup {None}]
    BY DEF Init
  <2>4. dpc \in [Callers -> {"no", "enter", "check", "add"}]
    BY DEF Init
  <2>5. stage \in [Cmds -> Stages] /\ flags \in [Cmds -> SUBSET Flags]
    BY DEF Init, Stages, Flags
  <2>6. ret \in [Aborters -> BOOLEAN] /\ panicked \in BOOLEAN
    BY DEF Init
  <2>7. /\ isrDone \in [PCPUs -> SUBSET Cmds]
        /\ bhDone \in [PCPUs -> SUBSET Cmds]
        /\ bpc \in [PCPUs -> {"idle", "loop", "dec", "put", "complete"}]
        /\ cur \in [PCPUs -> Cmds \cup {None}]
        /\ now \in [PCPUs -> {"before", "tie", "after"}]
    BY DEF Init
  <2>8. /\ apc \in [Aborters -> {"idle", "abort", "final"}]
        /\ aborting \in [Aborters -> SUBSET Cmds]
        /\ tried \in [Aborters -> SUBSET Cmds]
    BY DEF Init
  <2>9. /\ copy = {} /\ cmdList = {} /\ freed = {} /\ owed = {} /\ drv = {}
        /\ busy = 0 /\ hostLock = None /\ listLock = None
        /\ timer = {} /\ entered = {} /\ work = None /\ worker = None
        /\ running = {} /\ scheduled = {}
    BY DEF Init
  <2> QED
    BY <2>1, <2>2, <2>3, <2>4, <2>5, <2>6, <2>7, <2>8, <2>9 DEF Typing
<1>2. Control
  BY ScsiAssumption
     DEF Init, Control, Issue, Reach, Calls, Given, Ripe, InIssue, Callers
<1>3. Places
  BY ScsiAssumption
     DEF Init, Places, NeedPlace, OwedPlace, AddPlace, BhPlace, Call, Adding,
         AtBh, Callers
<1>4. Holders /\ Blocks /\ Recorded
  BY ScsiAssumption
     DEF Init, Holders, OneHolder, Holding, Blocks, Freeing, Recorded
<1>5. BusyCount
  BY FS_EmptySet DEF Init, BusyCount
<1> QED
  BY <1>1, <1>2, <1>3, <1>4, <1>5 DEF Inv

(* Every step of issue, completion, bottom half, timeout and abort keeps   *)
(* every layer of the invariant.                                           *)
LEMMA InvStep ==
    ASSUME Tame, Inv, [Next]_vars
    PROVE  Inv'
<1>1. CASE Next
  BY <1>1, TypingStep, IssueHolds, ReachHolds, CallsHold, PlacesHold,
     HoldersHold, BlocksHold, BusyHolds, RecordedHolds
     DEF Inv, Control
<1>2. CASE UNCHANGED vars
  BY <1>2
     DEF Inv, Typing, Control, Issue, Reach, Calls, Given, Ripe, InIssue,
         Subject, Places, NeedPlace, OwedPlace, AddPlace, BhPlace, Call,
         Adding, AtBh, Holders, OneHolder, Holding, Blocks, Freeing,
         BusyCount, Recorded, vars, issueVars, listVars, countVars, timeVars,
         abortVars, bhVars
<1> QED
  BY <1>1, <1>2

(* The invariant holds of every behaviour of an adapter whose commands     *)
(* and abort requests are tame.                                            *)
THEOREM ScsiInvariant ==
    ASSUME Tame
    PROVE  Spec => []Inv
<1>1. Inv /\ [Next]_vars => Inv'
  BY InvStep
<1> QED
  BY InvInit, <1>1, PTL DEF Spec

-----------------------------------------------------------------------------
(* Every field keeps its type; in particular host_busy never runs below    *)
(* zero.                                                                   *)
THEOREM ScsiTypeCorrect ==
    ASSUME Tame
    PROVE  Spec => []TypeOK
<1>1. Inv => TypeOK
  <2> SUFFICES ASSUME Inv PROVE TypeOK
    OBVIOUS
  <2>1. busy \in Nat
    BY CountedFinite, FS_CardinalityType DEF Inv, BusyCount, Counted
  <2> QED
    BY <2>1 DEF Inv, Typing, TypeOK
<1> QED
  BY <1>1, ScsiInvariant, PTL

(* A command that is owed to the vmkernel is in exactly one place.         *)
THEOREM OnePlaceHolds ==
    ASSUME Tame
    PROVE  Spec => []OnePlace
<1>1. ASSUME Inv, NEW c \in Cmds
      PROVE  /\ "NEED" \in flags[c] <=>
                   \/ InIssue(c) \/ c \in drv \/ Parked(c)
                   \/ "NEED" \in flags[c] /\ \E w \in Callers : Call(c, w)
             /\ InIssue(c) \/ c \in drv =>
                   ~ Parked(c) /\ \A w \in Callers : ~ Call(c, w)
             /\ ~ (InIssue(c) /\ c \in drv)
  BY <1>1, ScsiAssumption
     DEF Inv, Typing, Control, Issue, Calls, Places, NeedPlace, InIssue,
         Parked, Call, Subject, Callers
<1>2. Inv => OnePlace
  <2> SUFFICES ASSUME Inv, NEW c \in Cmds
               PROVE  OnePlace!(c)
    BY DEF OnePlace
  <2> QED
    BY <1>1 DEF Inv, Places, OwedPlace, AddPlace, BhPlace, InDone, Adding,
                Call, Parked
<1> QED
  BY <1>2, ScsiInvariant, PTL

(* DELAY_CMDDONE has one holder, for any number of aborters.               *)
THEOREM OneHolderHolds ==
    ASSUME Tame
    PROVE  Spec => []OneHolder
<1>1. Inv => OneHolder
  BY DEF Inv, Holders
<1> QED
  BY <1>1, ScsiInvariant, PTL

(* A held command is not freed, and a freed one was on cmd_list.           *)
THEOREM HeldNotFreedHolds ==
    ASSUME Tame
    PROVE  Spec => []HeldNotFreed
<1>1. Inv => HeldNotFreed
  <2> SUFFICES ASSUME Inv PROVE HeldNotFreed
    OBVIOUS
  <2>1. ASSUME NEW c \in Cmds, "DELAY" \in flags[c]
        PROVE  c \in owed \ freed
    BY <2>1 DEF Inv, Holders, Places, OwedPlace, BhPlace, AtBh, Blocks, Freeing
  <2>2. ASSUME NEW p \in PCPUs, bpc[p] \in {"dec", "put"}
        PROVE  cur[p] \in cmdList
    <3>1. cur[p] \in Cmds /\ AtBh(cur[p], p)
      BY <2>2 DEF Inv, Typing, AtBh
    <3>2. /\ "NEED" \notin flags[cur[p]] /\ Given(cur[p])
          /\ cur[p] \in owed /\ ~ Freeing(cur[p])
      BY <2>2, <3>1
         DEF Inv, Places, OwedPlace, BhPlace, AtBh, Freeing
    <3> QED
      BY <3>1, <3>2 DEF Inv, Blocks, Holders, OneHolder, Given
  <2> QED
    BY <2>1, <2>2 DEF HeldNotFreed
<1> QED
  BY <1>1, ScsiInvariant, PTL

(* An abort that reports success has seen the driver complete each command *)
(* it tried.                                                               *)
THEOREM AbortHonestHolds ==
    ASSUME Tame
    PROVE  Spec => []AbortHonest
<1>1. Inv => AbortHonest
  BY DEF Inv, Typing, Control, Issue, Recorded, AbortHonest
<1> QED
  BY <1>1, ScsiInvariant, PTL

(* host_busy counts the commands on their way.                             *)
THEOREM BusyCountHolds ==
    ASSUME Tame
    PROVE  Spec => []BusyCount
<1>1. Inv => BusyCount
  BY DEF Inv
<1> QED
  BY <1>1, ScsiInvariant, PTL

(* No done list is left without a bottom half, unless the clock reads the  *)
(* yield time exactly.                                                     *)
THEOREM BhPendingHolds ==
    ASSUME ~ Ties
    PROVE  Spec => []BhPending
<1> DEFINE Bh == Typing /\ Halves /\ BhPending
<1>1. Init => Bh
  BY InvInit DEF Inv, Init, Halves, BhPending
<1>2. Bh /\ [Next]_vars => Bh'
  <2> SUFFICES ASSUME Bh, [Next]_vars PROVE Bh'
    OBVIOUS
  <2>1. CASE Next
    BY <2>1, TypingStep, HalvesHold, BhPendingStep
  <2>2. CASE UNCHANGED vars
    BY <2>2 DEF Typing, Subject, Halves, BhPending, vars, issueVars, listVars,
                countVars, timeVars, abortVars, bhVars
  <2> QED
    BY <2>1, <2>2
<1> QED
  BY <1>1, <1>2, PTL DEF Spec

-----------------------------------------------------------------------------
(* The refinement                                                          *)

(* A step that moves one command                                           *)
LEMMA LifeMoves ==
    ASSUME NEW c \in Cmds, NEW from, NEW to,
           PlaceOf(c) = from, PlaceOf(c)' = to,
           \A d \in Cmds \ {c} : PlaceOf(d)' = PlaceOf(d),
           HeldCmds' = HeldCmds
    PROVE  Life!Moves(c, from, to)
BY DEF Life!Moves

(* A step that moves none                                                  *)
LEMMA LifeStill ==
    ASSUME \A d \in Cmds : PlaceOf(d)' = PlaceOf(d)
    PROVE  [c \in Cmds |-> PlaceOf(c)]' = [c \in Cmds |-> PlaceOf(c)]
OBVIOUS

(* Who holds a command                                                     *)
Holds(d) == (\E a \in Aborters : d \in aborting[a]) \/ d \in {work, worker}

(* The refinement's set of held commands, seen from one command            *)
LEMMA HeldBy ==
    ASSUME NEW d, d # None
    PROVE  /\ d \in HeldCmds <=> Holds(d)
           /\ d \in HeldCmds' <=> Holds(d)'
<1>1. d \in HeldCmds <=> Holds(d)
  BY DEF HeldCmds, Holds
<1>2. d \in HeldCmds' <=> Holds(d)'
  BY DEF HeldCmds, Holds
<1> QED
  BY <1>1, <1>2

(* Nobody holds a command whose DELAY_CMDDONE is clear.                    *)
LEMMA NotHeld ==
    ASSUME Inv, NEW c \in Cmds, "DELAY" \notin flags[c]
    PROVE  c \notin HeldCmds
BY HeldBy, ScsiAssumption DEF Inv, Holders, OneHolder, Holding, Holds

(* Only commands are held.                                                 *)
LEMMA HeldAreCmds ==
    ASSUME Inv, Next
    PROVE  HeldCmds \subseteq Cmds /\ HeldCmds' \subseteq Cmds
<1>1. Typing /\ Typing'
  BY TypingStep DEF Inv
<1> QED
  BY <1>1 DEF Typing, HeldCmds

(* Every step of the adapter is a step of CommandLife or a stutter.        *)
LEMMA LifeStep ==
    ASSUME Tame, Inv, Next
    PROVE  Life!Next \/ UNCHANGED Life!vars
<1>1. ASSUME NEW c \in Cmds, GetCommand(c)
      PROVE  Life!Next \/ UNCHANGED Life!vars
  <2>1. \A d \in Cmds : PlaceOf(d)' = PlaceOf(d)
    BY <1>1, ScsiAssumption
       DEF GetCommand, Stage, Inv, Typing, Callers, Stages, Flags, issueVars,
           listVars, countVars, timeVars, abortVars, bhVars, PlaceOf, InIssue,
           Control, Issue, Given
  <2>2. HeldCmds' = HeldCmds
    BY <1>1, ScsiAssumption
       DEF GetCommand, Stage, issueVars, listVars, countVars, timeVars,
           abortVars, bhVars, HeldCmds
  <2> QED BY <2>1, <2>2, LifeStill DEF Life!vars
<1>2. ASSUME NEW c \in Cmds, Refuse(c) PROVE Life!Next \/ UNCHANGED Life!vars
  <2>1. PlaceOf(c) = "new" /\ PlaceOf(c)' = "over"
    BY <1>2, ScsiAssumption
       DEF Refuse, Stage, Inv, Typing, Callers, Stages, Flags, issueVars,
           listVars, countVars, timeVars, abortVars, bhVars, Control, Issue,
           Given, InIssue, Places, OwedPlace, AddPlace, BhPlace, PlaceOf
  <2>2. \A d \in Cmds \ {c} : PlaceOf(d)' = PlaceOf(d)
    BY <1>2
       DEF Refuse, Stage, Inv, Typing, Callers, Stages, Flags, issueVars,
           listVars, countVars, timeVars, abortVars, bhVars, PlaceOf, InIssue
  <2>3. HeldCmds' = HeldCmds
    BY <1>2
       DEF Refuse, issueVars, listVars, countVars, timeVars, abortVars,
           bhVars, HeldCmds
  <2>4. Life!Moves(c, "new", "over")
    BY <2>1, <2>2, <2>3, LifeMoves
  <2> QED BY <2>4 DEF Life!Next, Life!Refuse
<1>3. ASSUME NEW c \in Cmds, FailEarly(c)
      PROVE  Life!Next \/ UNCHANGED Life!vars
  <2>1. PlaceOf(c) = "new" /\ PlaceOf(c)' = "returned"
    BY <1>3, ScsiAssumption
       DEF FailEarly, Stage, Set, Count, CallDone, Inv, Typing, Callers,
           Stages, Flags, issueVars, listVars, countVars, timeVars, abortVars,
           bhVars, Control, Issue, Given, InIssue, Places, OwedPlace,
           AddPlace, BhPlace, PlaceOf
  <2>2. \A d \in Cmds \ {c} : PlaceOf(d)' = PlaceOf(d)
    BY <1>3
       DEF FailEarly, Stage, Set, Count, CallDone, Inv, Typing, Callers,
           Stages, Flags, issueVars, listVars, countVars, timeVars, abortVars,
           bhVars, PlaceOf, InIssue
  <2>3. HeldCmds' = HeldCmds
    BY <1>3
       DEF FailEarly, issueVars, listVars, countVars, timeVars, abortVars,
           bhVars, HeldCmds
  <2>4. Life!Moves(c, "new", "returned")
    BY <2>1, <2>2, <2>3, LifeMoves
  <2> QED BY <2>4 DEF Life!Next, Life!Accept
<1>4. ASSUME NEW c \in Cmds, Accept(c) PROVE Life!Next \/ UNCHANGED Life!vars
  <2>1. PlaceOf(c) = "new" /\ PlaceOf(c)' = "issue"
    BY <1>4, ScsiAssumption
       DEF Accept, Stage, Set, Count, Inv, Typing, Callers, Stages, Flags,
           issueVars, listVars, countVars, timeVars, abortVars, bhVars,
           Control, Issue, Given, InIssue, Places, OwedPlace, AddPlace,
           BhPlace, PlaceOf
  <2>2. \A d \in Cmds \ {c} : PlaceOf(d)' = PlaceOf(d)
    BY <1>4
       DEF Accept, Stage, Set, Count, Inv, Typing, Callers, Stages, Flags,
           issueVars, listVars, countVars, timeVars, abortVars, bhVars,
           PlaceOf, InIssue
  <2>3. HeldCmds' = HeldCmds
    BY <1>4
       DEF Accept, issueVars, listVars, countVars, timeVars, abortVars,
           bhVars, HeldCmds
  <2>4. Life!Moves(c, "new", "issue")
    BY <2>1, <2>2, <2>3, LifeMoves
  <2> QED BY <2>4 DEF Life!Next, Life!Accept
<1>5. ASSUME NEW c \in Cmds, FailOffline(c)
      PROVE  Life!Next \/ UNCHANGED Life!vars
  <2>1. PlaceOf(c) = "issue" /\ PlaceOf(c)' = "returned"
    BY <1>5, ScsiAssumption
       DEF FailOffline, Stage, CallDone, Inv, Typing, Callers, Stages, Flags,
           issueVars, listVars, countVars, timeVars, abortVars, bhVars,
           Control, Issue, Given, InIssue, Places, OwedPlace, AddPlace,
           BhPlace, PlaceOf
  <2>2. \A d \in Cmds \ {c} : PlaceOf(d)' = PlaceOf(d)
    BY <1>5
       DEF FailOffline, Stage, CallDone, Inv, Typing, Callers, Stages, Flags,
           issueVars, listVars, countVars, timeVars, abortVars, bhVars,
           PlaceOf, InIssue
  <2>3. HeldCmds' = HeldCmds
    BY <1>5
       DEF FailOffline, issueVars, listVars, countVars, timeVars, abortVars,
           bhVars, HeldCmds
  <2>4. Life!Moves(c, "issue", "returned")
    BY <2>1, <2>2, <2>3, LifeMoves
  <2> QED BY <2>4 DEF Life!Next, Life!Fail
<1>6. ASSUME NEW c \in Cmds, ReadFlags(c)
      PROVE  Life!Next \/ UNCHANGED Life!vars
  <2>1. \A d \in Cmds : PlaceOf(d)' = PlaceOf(d)
    BY <1>6, ScsiAssumption
       DEF ReadFlags, Stage, Inv, Typing, Callers, Stages, Flags, issueVars,
           listVars, countVars, timeVars, abortVars, bhVars, PlaceOf, InIssue
  <2>2. HeldCmds' = HeldCmds
    BY <1>6, ScsiAssumption
       DEF ReadFlags, Stage, issueVars, listVars, countVars, timeVars,
           abortVars, bhVars, HeldCmds
  <2> QED BY <2>1, <2>2, LifeStill DEF Life!vars
<1>7. ASSUME NEW c \in Cmds, AddTimer(c)
      PROVE  Life!Next \/ UNCHANGED Life!vars
  <2>1. \A d \in Cmds : PlaceOf(d)' = PlaceOf(d)
    BY <1>7, ScsiAssumption
       DEF AddTimer, Stage, Inv, Typing, Callers, Stages, Flags, issueVars,
           listVars, countVars, timeVars, abortVars, bhVars, PlaceOf, InIssue,
           Control, Issue, Given
  <2>2. HeldCmds' = HeldCmds
    BY <1>7, ScsiAssumption
       DEF AddTimer, Stage, issueVars, listVars, countVars, timeVars,
           abortVars, bhVars, HeldCmds
  <2> QED BY <2>1, <2>2, LifeStill DEF Life!vars
<1>8. ASSUME NEW c \in Cmds, DriverTakes(c)
      PROVE  Life!Next \/ UNCHANGED Life!vars
  <2>1. PlaceOf(c) = "issue" /\ PlaceOf(c)' = "driver"
    BY <1>8, ScsiAssumption
       DEF DriverTakes, Stage, AtDriver, Inv, Typing, Callers, Stages, Flags,
           issueVars, listVars, countVars, timeVars, abortVars, bhVars,
           Control, Issue, Given, InIssue, Places, OwedPlace, AddPlace,
           BhPlace, PlaceOf
  <2>2. \A d \in Cmds \ {c} : PlaceOf(d)' = PlaceOf(d)
    BY <1>8
       DEF DriverTakes, Stage, AtDriver, Inv, Typing, Callers, Stages, Flags,
           issueVars, listVars, countVars, timeVars, abortVars, bhVars,
           PlaceOf, InIssue
  <2>3. HeldCmds' = HeldCmds
    BY <1>8
       DEF DriverTakes, issueVars, listVars, countVars, timeVars, abortVars,
           bhVars, HeldCmds
  <2>4. Life!Moves(c, "issue", "driver")
    BY <2>1, <2>2, <2>3, LifeMoves
  <2> QED BY <2>4 DEF Life!Next, Life!Send
<1>9. ASSUME NEW c \in Cmds, DriverRejects(c)
      PROVE  Life!Next \/ UNCHANGED Life!vars
  <2>1. \A d \in Cmds : PlaceOf(d)' = PlaceOf(d)
    BY <1>9, ScsiAssumption
       DEF DriverRejects, Stage, AtDriver, Inv, Typing, Callers, Stages,
           Flags, issueVars, listVars, countVars, timeVars, abortVars, bhVars,
           PlaceOf, InIssue
  <2>2. HeldCmds' = HeldCmds
    BY <1>9, ScsiAssumption
       DEF DriverRejects, Stage, AtDriver, issueVars, listVars, countVars,
           timeVars, abortVars, bhVars, HeldCmds
  <2> QED BY <2>1, <2>2, LifeStill DEF Life!vars
<1>10. ASSUME NEW c \in Cmds, Rejected(c)
      PROVE  Life!Next \/ UNCHANGED Life!vars
  <2>1. PlaceOf(c) = "issue" /\ PlaceOf(c)' = "returned"
    BY <1>10, ScsiAssumption
       DEF Rejected, Stage, CallDone, Inv, Typing, Callers, Stages, Flags,
           issueVars, listVars, countVars, timeVars, abortVars, bhVars,
           Control, Issue, Given, InIssue, Places, OwedPlace, AddPlace,
           BhPlace, PlaceOf
  <2>2. \A d \in Cmds \ {c} : PlaceOf(d)' = PlaceOf(d)
    BY <1>10
       DEF Rejected, Stage, CallDone, Inv, Typing, Callers, Stages, Flags,
           issueVars, listVars, countVars, timeVars, abortVars, bhVars,
           PlaceOf, InIssue
  <2>3. HeldCmds' = HeldCmds
    BY <1>10
       DEF Rejected, issueVars, listVars, countVars, timeVars, abortVars,
           bhVars, HeldCmds
  <2>4. Life!Moves(c, "issue", "returned")
    BY <2>1, <2>2, <2>3, LifeMoves
  <2> QED BY <2>4 DEF Life!Next, Life!Fail
<1>11. ASSUME NEW c \in Cmds, DriverDone(c)
      PROVE  Life!Next \/ UNCHANGED Life!vars
  <2>1. PlaceOf(c) = "driver" /\ PlaceOf(c)' = "returned"
    BY <1>11, ScsiAssumption
       DEF DriverDone, CallDone, Inv, Typing, Callers, Stages, Flags,
           issueVars, listVars, countVars, timeVars, abortVars, bhVars,
           Control, Issue, Given, InIssue, Places, OwedPlace, AddPlace,
           BhPlace, PlaceOf
  <2>2. \A d \in Cmds \ {c} : PlaceOf(d)' = PlaceOf(d)
    BY <1>11
       DEF DriverDone, CallDone, Inv, Typing, Callers, Stages, Flags,
           issueVars, listVars, countVars, timeVars, abortVars, bhVars,
           PlaceOf, InIssue
  <2>3. HeldCmds' = HeldCmds
    BY <1>11
       DEF DriverDone, issueVars, listVars, countVars, timeVars, abortVars,
           bhVars, HeldCmds
  <2>4. Life!Moves(c, "driver", "returned")
    BY <2>1, <2>2, <2>3, LifeMoves
  <2> QED BY <2>4 DEF Life!Next, Life!Return
<1>12. ASSUME NEW w \in Callers, DoneCheck(w)
      PROVE  Life!Next \/ UNCHANGED Life!vars
  <2>1. PICK c \in Cmds : c = Subject(w)
    BY <1>12 DEF DoneCheck, AtCheck, Inv, Typing
  <2>2. CASE Delayed(c)
    <3>1. \A d \in Cmds : PlaceOf(d)' = PlaceOf(d)
      BY <1>12, <2>1, <2>2
         DEF DoneCheck, Set, Inv, Typing, Callers, Stages, Flags, issueVars,
             listVars, countVars, timeVars, abortVars, bhVars, PlaceOf,
             InIssue
    <3>2. HeldCmds' = HeldCmds
      BY <1>12
         DEF DoneCheck, issueVars, listVars, countVars, timeVars, abortVars,
             bhVars, HeldCmds
    <3> QED BY <3>1, <3>2, LifeStill DEF Life!vars
  <2>3. CASE ~ Delayed(c)
    <3>1. PlaceOf(c) = "returned"
      BY <1>12, ScsiAssumption, <2>1, <2>3
         DEF DoneCheck, AtCheck, Clear, Inv, Typing, Callers, Stages, Flags,
             issueVars, listVars, countVars, timeVars, abortVars, bhVars,
             Control, Issue, Calls, Subject, Places, OwedPlace, PlaceOf
    <3>2. PlaceOf(c)' = "finished"
      BY <1>12, ScsiAssumption, <2>1, <2>3, <3>1
         DEF DoneCheck, AtCheck, Clear, Inv, Typing, Callers, Stages, Flags,
             issueVars, listVars, countVars, timeVars, abortVars, bhVars,
             InIssue, Places, OwedPlace, PlaceOf
    <3>3. \A d \in Cmds \ {c} : PlaceOf(d)' = PlaceOf(d)
      BY <1>12, ScsiAssumption, <2>1, <2>3
         DEF DoneCheck, AtCheck, Clear, Inv, Typing, Callers, Stages, Flags,
             issueVars, listVars, countVars, timeVars, abortVars, bhVars,
             PlaceOf, InIssue
    <3>4. HeldCmds' = HeldCmds
      BY <1>12
         DEF DoneCheck, issueVars, listVars, countVars, timeVars, abortVars,
             bhVars, HeldCmds
    <3>5. Life!Moves(c, "returned", "finished")
      BY <3>1, <3>2, <3>3, <3>4, LifeMoves
    <3>6. c \notin HeldCmds
      BY <2>3, NotHeld
         DEF Delayed
    <3> QED BY <3>5, <3>6 DEF Life!Next, Life!Finish
  <2> QED BY <2>2, <2>3
<1>13. ASSUME NEW p \in PCPUs, BhCompletes(p)
      PROVE  Life!Next \/ UNCHANGED Life!vars
  <2>1. PICK c \in Cmds : c = cur[p]
    BY <1>13 DEF BhCompletes, Inv, Typing
  <2>2. PlaceOf(c) = "finished" /\ stage[c] = "out"
    BY <1>13, ScsiAssumption, <2>1
       DEF BhCompletes, Inv, Typing, Callers, Stages, Flags, issueVars,
           listVars, countVars, timeVars, abortVars, bhVars, Control, Issue,
           Given, InIssue, Places, OwedPlace, BhPlace, AtBh, PlaceOf
  <2>3. PlaceOf(c)' = "over"
    BY <1>13, ScsiAssumption, <2>1, <2>2
       DEF BhCompletes, Inv, Typing, Callers, Stages, Flags, issueVars,
           listVars, countVars, timeVars, abortVars, bhVars, PlaceOf, InIssue
  <2>4. \A d \in Cmds \ {c} : PlaceOf(d)' = PlaceOf(d)
    BY <1>13, ScsiAssumption, <2>1
       DEF BhCompletes, Inv, Typing, Callers, Stages, Flags, issueVars,
           listVars, countVars, timeVars, abortVars, bhVars, PlaceOf, InIssue
  <2>5. HeldCmds' = HeldCmds
    BY <1>13
       DEF BhCompletes, issueVars, listVars, countVars, timeVars, abortVars,
           bhVars, HeldCmds
  <2>6. Life!Moves(c, "finished", "over")
    BY <2>2, <2>3, <2>4, <2>5, LifeMoves
  <2> QED BY <2>6 DEF Life!Next, Life!Complete
<1>14. ASSUME NEW c \in Cmds, CmdTimedOut(c)
      PROVE  Life!Next \/ UNCHANGED Life!vars
  <2>1. \A d \in Cmds : PlaceOf(d)' = PlaceOf(d)
    BY <1>14
       DEF CmdTimedOut, MayHold, Clear, Inv, Typing, Callers, Stages, Flags,
           issueVars, listVars, countVars, timeVars, abortVars, bhVars,
           PlaceOf, InIssue
  <2>2. CASE MayHold(c)
    <3>1. work = None
      BY <1>14, <2>2
         DEF CmdTimedOut, MayHold, Tame, Inv, Typing, Control, Reach, Ripe,
             Holders, OneHolder
    <3>2. \A d \in Cmds : d \in HeldCmds' <=> d \in HeldCmds \/ d = c
      BY <1>14, <2>2, <3>1, ScsiAssumption, HeldBy
         DEF CmdTimedOut, Holds, issueVars, listVars, countVars, timeVars,
             abortVars, bhVars
    <3>3. c \notin HeldCmds
      BY <2>2, NotHeld
         DEF MayHold
    <3>4. PlaceOf(c) \in {"issue", "driver", "returned"}
      BY <2>2
         DEF MayHold, Inv, Places, OwedPlace, PlaceOf
    <3>5. Life!Hold({c})
      BY HeldAreCmds, <2>1, <3>2, <3>3, <3>4, LifeStill
         DEF Life!Hold
    <3> QED BY <3>5 DEF Life!Next
  <2>3. CASE ~ MayHold(c)
    <3>1. HeldCmds' = HeldCmds
      BY <1>14, <2>3
         DEF CmdTimedOut, issueVars, listVars, countVars, timeVars, abortVars,
             bhVars, HeldCmds
    <3> QED BY <2>1, <3>1, LifeStill DEF Life!vars
  <2> QED BY <2>2, <2>3
<1>15. ASSUME WorkStarts PROVE Life!Next \/ UNCHANGED Life!vars
  <2>1. \A d \in Cmds : PlaceOf(d)' = PlaceOf(d)
    BY <1>15, ScsiAssumption
       DEF WorkStarts, Inv, Typing, Callers, Stages, Flags, issueVars,
           listVars, countVars, timeVars, abortVars, bhVars, PlaceOf, InIssue
  <2>2. HeldCmds' = HeldCmds
    BY <1>15, ScsiAssumption
       DEF WorkStarts, issueVars, listVars, countVars, timeVars, abortVars,
           bhVars, HeldCmds, Typing, Inv
  <2> QED BY <2>1, <2>2, LifeStill DEF Life!vars
<1>16. ASSUME WorkEnds PROVE Life!Next \/ UNCHANGED Life!vars
  <2>1. \A d \in Cmds : PlaceOf(d)' = PlaceOf(d)
    BY <1>16
       DEF WorkEnds, LetGo, Clear, CallDone, Inv, Typing, Callers, Stages,
           Flags, issueVars, listVars, countVars, timeVars, abortVars, bhVars,
           PlaceOf, InIssue
  <2>2. PICK c \in Cmds : c = worker
    BY <1>16 DEF WorkEnds, Inv, Typing
  <2>3. /\ c \in HeldCmds
        /\ \A d \in Cmds : d \in HeldCmds' <=> d \in HeldCmds /\ d # c
    BY <1>16, <2>2, ScsiAssumption, HeldBy
       DEF WorkEnds, Holds, issueVars, listVars, countVars, timeVars,
           abortVars, bhVars, Inv, Holders, OneHolder, Holding
  <2>4. Life!Release(c)
    BY HeldAreCmds, <2>1, <2>3, LifeStill
       DEF Life!Release
  <2> QED BY <2>4 DEF Life!Next
<1>17. ASSUME NEW a \in Aborters, NEW named \in SUBSET Nameable,
             AbortScan(a, named)
      PROVE  Life!Next \/ UNCHANGED Life!vars
  <2> DEFINE take == {c \in cmdList \cap named : Abortable(c)}
  <2>1. \A d \in Cmds : PlaceOf(d)' = PlaceOf(d)
    BY <1>17
       DEF AbortScan, Abortable, Nameable, Inv, Typing, Callers, Stages,
           Flags, issueVars, listVars, countVars, timeVars, abortVars, bhVars,
           PlaceOf, InIssue
  <2>2. take \in SUBSET Cmds /\ take # {}
    BY <1>17
       DEF AbortScan, Inv, Typing
  <2>3. \A d : d \in HeldCmds' <=> d \in HeldCmds \/ d \in take
    BY <1>17, ScsiAssumption
       DEF AbortScan, Typing, Callers, Stages, Flags, issueVars, listVars,
           countVars, timeVars, abortVars, bhVars, HeldCmds, Inv, Control,
           Calls
  <2>4. take \cap HeldCmds = {}
    BY <2>2, NotHeld
       DEF Abortable
  <2>5. \A c \in take : PlaceOf(c) \in {"issue", "driver", "returned"}
    BY <2>2
       DEF Abortable, Inv, Places, OwedPlace, PlaceOf
  <2> HIDE DEF take
  <2>6. Life!Hold(take)
    BY <2>1, <2>2, <2>3, <2>4, <2>5, LifeStill
       DEF Life!Hold
  <2> QED BY <2>2, <2>6 DEF Life!Next
<1>18. ASSUME NEW a \in Aborters, NEW c \in Cmds, AbortEnds(a, c)
      PROVE  Life!Next \/ UNCHANGED Life!vars
  <2>1. \A d \in Cmds : PlaceOf(d)' = PlaceOf(d)
    BY <1>18
       DEF AbortEnds, CallOver, LetGo, ListBack, Clear, CallDone, Inv, Typing,
           Callers, Stages, Flags, issueVars, listVars, countVars, timeVars,
           abortVars, bhVars, PlaceOf, InIssue
  <2>2. \A d \in Cmds : d \in HeldCmds' <=> d \in HeldCmds /\ d # c
    BY <1>18, ScsiAssumption, HeldBy
       DEF AbortEnds, Holds, Typing, Callers, Stages, Flags, issueVars,
           listVars, countVars, timeVars, abortVars, bhVars, Inv, Holders,
           OneHolder, Holding
  <2>3. c \in HeldCmds
    BY <1>18
       DEF AbortEnds, HeldCmds
  <2>4. Life!Release(c)
    BY HeldAreCmds, <2>1, <2>2, <2>3, LifeStill
       DEF Life!Release
  <2> QED BY <2>4 DEF Life!Next
<1>19. ASSUME NEW c \in Cmds,
             \/ TimerFires(c)
      PROVE Life!Next \/ UNCHANGED Life!vars
  <2>1. UNCHANGED <<stage, drv, owed, flags, aborting, work, worker>>
    BY <1>19
       DEF TimerFires, issueVars, listVars, countVars, timeVars, abortVars,
           bhVars
  <2>2. \A d \in Cmds : PlaceOf(d)' = PlaceOf(d)
    BY <2>1
       DEF PlaceOf, InIssue
  <2>3. HeldCmds' = HeldCmds
    BY <2>1
       DEF HeldCmds
  <2> QED BY <2>2, <2>3, LifeStill DEF Life!vars
<1>20. ASSUME NEW w \in Callers,
             \/ DoneTimer(w) \/ DonePanics(w)
             \/ (\E p \in PCPUs : DoneAdd(w, p))
      PROVE Life!Next \/ UNCHANGED Life!vars
  <2>1. UNCHANGED <<stage, drv, owed, flags, aborting, work, worker>>
    BY <1>20
       DEF DoneTimer, DonePanics, DoneAdd, issueVars, listVars, countVars,
           timeVars, abortVars, bhVars
  <2>2. \A d \in Cmds : PlaceOf(d)' = PlaceOf(d)
    BY <2>1
       DEF PlaceOf, InIssue
  <2>3. HeldCmds' = HeldCmds
    BY <2>1
       DEF HeldCmds
  <2> QED BY <2>2, <2>3, LifeStill DEF Life!vars
<1>21. ASSUME NEW p \in PCPUs,
             \/ BhStart(p) \/ (\E c \in Cmds : BhTakes(p, c)) \/ BhCounts(p)
             \/ BhPuts(p) \/ BhEnds(p)
      PROVE Life!Next \/ UNCHANGED Life!vars
  <2>1. UNCHANGED <<stage, drv, owed, flags, aborting, work, worker>>
    BY <1>21
       DEF BhStart, BhTakes, BhCounts, BhPuts, BhEnds, issueVars, listVars,
           countVars, timeVars, abortVars, bhVars
  <2>2. \A d \in Cmds : PlaceOf(d)' = PlaceOf(d)
    BY <2>1
       DEF PlaceOf, InIssue
  <2>3. HeldCmds' = HeldCmds
    BY <2>1
       DEF HeldCmds
  <2> QED BY <2>2, <2>3, LifeStill DEF Life!vars
<1>22. ASSUME NEW a \in Aborters,
             \/ (\E c \in Cmds : AbortOne(a, c)) \/ AbortLocks(a)
             \/ AbortReturns(a)
      PROVE Life!Next \/ UNCHANGED Life!vars
  <2>1. UNCHANGED <<stage, drv, owed, flags, aborting, work, worker>>
    BY <1>22
       DEF AbortOne, AbortLocks, AbortReturns, issueVars, listVars, countVars,
           timeVars, abortVars, bhVars
  <2>2. \A d \in Cmds : PlaceOf(d)' = PlaceOf(d)
    BY <2>1
       DEF PlaceOf, InIssue
  <2>3. HeldCmds' = HeldCmds
    BY <2>1
       DEF HeldCmds
  <2> QED BY <2>2, <2>3, LifeStill DEF Life!vars
<1> QED
  BY <1>1, <1>2, <1>3, <1>4, <1>5, <1>6, <1>7, <1>8, <1>9, <1>10, <1>11,
     <1>12, <1>13, <1>14, <1>15, <1>16, <1>17, <1>18, <1>19, <1>20, <1>21,
     <1>22
     DEF Next, Steps, IssueStep, DoneStep, WorkStep, BhStep, AbortStep

(* The adapter implements CommandLife: a command goes back once, after the *)
(* driver is done with it, not while it is being aborted, and has at most  *)
(* one aborter at a time.                                                  *)
THEOREM LifeRefined ==
    ASSUME Tame
    PROVE  Spec => LifeSpec
<1>1. Init => Life!Init
  <2> SUFFICES ASSUME Init PROVE Life!Init
    OBVIOUS
  <2>1. \A c \in Cmds : PlaceOf(c) = "new"
    BY DEF Init, PlaceOf, InIssue
  <2>2. HeldCmds = {}
    BY DEF Init, HeldCmds
  <2> QED
    BY <2>1, <2>2 DEF Life!Init
<1>2. Inv /\ [Next]_vars => [Life!Next]_(Life!vars)
  <2> SUFFICES ASSUME Inv, [Next]_vars
               PROVE  Life!Next \/ UNCHANGED Life!vars
    OBVIOUS
  <2>1. CASE Next
    BY <2>1, LifeStep
  <2>2. CASE UNCHANGED vars
    <3>1. \A d \in Cmds : PlaceOf(d)' = PlaceOf(d)
      BY <2>2
         DEF PlaceOf, InIssue, vars, issueVars, countVars
    <3>2. HeldCmds' = HeldCmds
      BY <2>2 DEF HeldCmds, vars, timeVars, abortVars
    <3> QED BY <3>1, <3>2, LifeStill DEF Life!vars
  <2> QED
    BY <2>1, <2>2
<1> QED
  BY <1>1, <1>2, ScsiInvariant, PTL DEF Spec, LifeSpec, Life!Spec
=============================================================================
