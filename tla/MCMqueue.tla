------------------------------ MODULE MCMqueue ------------------------------
(***************************************************************************)
(* Instances of Mqueue for TLC.                                            *)
(***************************************************************************)
EXTENDS Mqueue

CONSTANTS idle, low, mid, high

MCBlocked == {"WAIT_MQNOTEMPTY", "WAIT_MQNOTFULL", "WAIT_SIG"}
MCBase == [t \in Task |-> CASE t = idle -> 0 [] t = low -> 1 [] t = mid -> 2 [] t = high -> 3]
=============================================================================
