---------------------------- MODULE MCSemaphore -----------------------------
(***************************************************************************)
(* Instances of Semaphore for TLC.  The tasks are named by their base      *)
(* priorities.                                                             *)
(***************************************************************************)
EXTENDS Semaphore

CONSTANTS idle, low, mid, high, mx, sg

MCBlocked == {"WAIT_SEM", "WAIT_SIG"}
MCTask2 == {idle, low, high}
MCTask == {idle, low, mid, high}
MCBase == [t \in Task |-> CASE t = idle -> 0 [] t = low -> 1 [] t = mid -> 2 [] t = high -> 3]

\* Every task waits for every semaphore.
UsesAll == [t \in Task |-> Sem]

\* The middle task is a bystander, as in the textbook priority inversion.
UsesNotMiddle == [t \in Task |-> IF t = mid THEN {} ELSE Sem]
=============================================================================
