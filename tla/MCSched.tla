------------------------------ MODULE MCSched -------------------------------
(***************************************************************************)
(* Instances of Sched for TLC: the idle task and two or three others, two  *)
(* priorities, one prioritized and one arrival-order blocked list.         *)
(***************************************************************************)
EXTENDS Sched, TLC

CONSTANTS t1, t2, t3, idle

MCTask == {t1, t2, t3, idle}
MCTask2 == {t1, t2, idle}
MCPrioBlocked == {"WAIT_SEM"}
MCFifoBlocked == {"WAIT_SIG"}

\* The tasks other than the idle task are interchangeable.
MCSymmetry == Permutations({t1, t2, t3})
=============================================================================
