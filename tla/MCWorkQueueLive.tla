-------------------------- MODULE MCWorkQueueLive --------------------------
(* WorkQueue under fairness, with at most MaxCalls driver calls in a       *)
(* behaviour: after the last call every call must come to its end.  A      *)
(* driver that queues a work over and over may keep a concurrent           *)
(* cancel_work_sync of it from ever taking the PENDING bit, so the bound   *)
(* is part of what CancelReturns says; callbacks still requeue freely.     *)
EXTENDS WorkQueue

CONSTANT MaxCalls

VARIABLE calls

ASSUME MaxCalls \in Nat

Called == \E d \in Drivers : pc[d] = "idle" /\ pc'[d] # "idle"

LiveInit == Init /\ calls = 0

LiveNext ==
    /\ Next
    /\ calls' = IF Called THEN calls + 1 ELSE calls
    /\ calls' <= MaxCalls

LiveSpec == LiveInit /\ [][LiveNext]_<<vars, calls>> /\ Fairness
=============================================================================
