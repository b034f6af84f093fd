---------------------------- MODULE WatchdogAbs -----------------------------
(***************************************************************************)
(* What the watchdogs of os/kernel/wdog promise: a watchdog started with a *)
(* delay runs out that number of ticks and one more later (the tick that   *)
(* is under way does not count), unless it is cancelled or started again;  *)
(* watchdogs that run out at the same tick do so in the order in which     *)
(* they were started, all of them before the next tick.                    *)
(***************************************************************************)
EXTENDS Naturals

CONSTANTS
    Dog,        \* the watchdogs
    NoDog,      \* no watchdog
    MaxDelay    \* bound on the delay of a watchdog

VARIABLES
    time,       \* for each running watchdog, the ticks to its expiry
    older,      \* <<u, w>>: u and w run out at the same tick, u was started first
    handler     \* the watchdog that ran out and whose handler is called, or NoDog

vars == <<time, older, handler>>

Running == DOMAIN time

Without(w) == {p \in older : p[1] # w /\ p[2] # w}

Init ==
    /\ time = [w \in {} |-> 0]
    /\ older = {}
    /\ handler = NoDog

\* By a task, or by the handler, which may return in the same step.
MayReturn == handler' \in {handler, NoDog}

Start(w, d) ==
    /\ time' = [u \in Running \cup {w} |-> IF u = w THEN d + 1 ELSE time[u]]
    /\ older' = Without(w) \cup {<<u, w>> : u \in {v \in Running \ {w} : time[v] = d + 1}}
    /\ MayReturn

Removed(w) ==
    /\ time' = [u \in Running \ {w} |-> time[u]]
    /\ older' = Without(w)

Cancel(w) == Removed(w) /\ MayReturn

Return == handler' = NoDog /\ UNCHANGED <<time, older>>

Tick ==
    /\ handler = NoDog
    /\ \A w \in Running : time[w] > 0
    /\ time' = [w \in Running |-> time[w] - 1]
    /\ UNCHANGED <<older, handler>>

RunOut(w) ==
    /\ handler = NoDog
    /\ w \in Running /\ time[w] = 0 /\ ~\E u \in Dog : <<u, w>> \in older
    /\ Removed(w)
    /\ handler' = w

Next ==
    \/ \E w \in Dog : Cancel(w) \/ RunOut(w) \/ \E d \in 0 .. MaxDelay : Start(w, d)
    \/ Return
    \/ Tick

Spec == Init /\ [][Next]_vars
=============================================================================
