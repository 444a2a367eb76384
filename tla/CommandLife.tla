----------------------------- MODULE CommandLife -----------------------------
(***************************************************************************)
(* What the SCSI adapter of vmklinux promises the vmkernel about a command *)
(* (the result comments of SCSILinuxQueueCommand, SCSILinuxAbortCommands   *)
(* and SCSILinuxAbortCommand in linux_scsi.c): it is either refused, or    *)
(* completed to the vmkernel once, after the driver is done with it and    *)
(* while nobody aborts it; and only one aborter has it at a time.          *)
(*                                                                         *)
(* place[c]:                                                               *)
(*   new       not accepted                                                *)
(*   issue     accepted, not yet given to the driver                       *)
(*   driver    with the driver                                             *)
(*   returned  the driver is done with it, or never had it                 *)
(*   finished  its completion is on the way to the vmkernel                *)
(*   over      refused, or completed to the vmkernel                       *)
(***************************************************************************)
CONSTANT Cmds

VARIABLES
    place,
    held        \* the commands an aborter has

vars == <<place, held>>

Init ==
    /\ place = [c \in Cmds |-> "new"]
    /\ held = {}

Moves(c, from, to) ==
    /\ place[c] = from
    /\ place' = [place EXCEPT ![c] = to]
    /\ UNCHANGED held

Refuse(c) == Moves(c, "new", "over")
Accept(c) == Moves(c, "new", "issue") \/ Moves(c, "new", "returned")
Send(c) == Moves(c, "issue", "driver")
Fail(c) == Moves(c, "issue", "returned")
Return(c) == Moves(c, "driver", "returned")
Finish(c) == c \notin held /\ Moves(c, "returned", "finished")
Complete(c) == Moves(c, "finished", "over")

(* An aborter takes commands nobody has, none of them on its way back.     *)
Hold(taken) ==
    /\ taken # {} /\ taken \cap held = {}
    /\ \A c \in taken : place[c] \in {"issue", "driver", "returned"}
    /\ held' = held \cup taken
    /\ UNCHANGED place

Release(c) ==
    /\ c \in held
    /\ held' = held \ {c}
    /\ UNCHANGED place

Next ==
    \/ \E c \in Cmds : \/ Refuse(c) \/ Accept(c) \/ Send(c) \/ Fail(c)
                       \/ Return(c) \/ Finish(c) \/ Complete(c) \/ Release(c)
    \/ \E taken \in SUBSET Cmds : Hold(taken)

Spec == Init /\ [][Next]_vars
=============================================================================
