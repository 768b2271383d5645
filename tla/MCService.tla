------------------------------- MODULE MCService -------------------------------
(***************************************************************************)
(* Start-up and the batch handler share no state, so their steps commute,  *)
(* and an order in which one waits for the other to be back where it began *)
(* shows what any other order would.                                       *)
(***************************************************************************)
EXTENDS Batch, Startup

ServiceInit == Init /\ StartInit

Starts == pc = "idle" /\ StartNext /\ UNCHANGED vars
Batches == phase = "down" /\ Next /\ UNCHANGED startVars

ServiceSpec ==
    /\ ServiceInit /\ [][Starts \/ Batches]_<<vars, startVars>>
    /\ BatchFairness
=============================================================================
