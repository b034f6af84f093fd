----------------------------- MODULE MCPthread ------------------------------
(***************************************************************************)
(* Instances of Pthread for TLC.                                           *)
(***************************************************************************)
EXTENDS Pthread

CONSTANTS idle, low, mid, high, mx, cv

MCBlocked == {"WAIT_SEM", "WAIT_SIG"}
MCTask2 == {idle, low, high}
MCTask == {idle, low, mid, high}
MCBase == [t \in Task |-> CASE t = idle -> 0 [] t = low -> 1 [] t = mid -> 2 [] t = high -> 3]
UsesAll == [t \in Task |-> Sem]
=============================================================================
