------------------------------ MODULE WqueueAbs -----------------------------
(***************************************************************************)
(* What a work queue promises: work that is queued is called once, not     *)
(* before its delay has passed, or it is cancelled and not called.         *)
(***************************************************************************)
EXTENDS Naturals

CONSTANTS
    Work,
    NoWork,
    MaxDelay

VARIABLES
    pending,    \* the work that is queued
    delay,      \* the delay it was queued with
    age,        \* ticks since it was queued, up to MaxDelay
    doing       \* the work that is being called

vars == <<pending, delay, age, doing>>

\* The age of work that is queued, and 0 for other work.
Aged == [w \in Work |-> IF w \in pending /\ age[w] < MaxDelay THEN age[w] + 1 ELSE age[w]]

Init ==
    /\ pending = {}
    /\ delay = [w \in Work |-> 0]
    /\ age = [w \in Work |-> 0]
    /\ doing = NoWork

Queue(w, d) ==
    /\ w \notin pending
    /\ pending' = pending \cup {w}
    /\ delay' = [delay EXCEPT ![w] = d]
    /\ UNCHANGED <<age, doing>>

Remove(w) ==
    /\ w \in pending
    /\ pending' = pending \ {w}
    /\ delay' = [delay EXCEPT ![w] = 0]
    /\ age' = [age EXCEPT ![w] = 0]

Cancel(w) == Remove(w) /\ UNCHANGED doing

Call(w) ==
    /\ doing = NoWork
    /\ age[w] >= delay[w]
    /\ Remove(w)
    /\ doing' = w

Return ==
    /\ doing # NoWork
    /\ doing' = NoWork
    /\ UNCHANGED <<pending, delay, age>>

Tick ==
    /\ age' = Aged
    /\ UNCHANGED <<pending, delay, doing>>

Next ==
    \/ \E w \in Work : (\E d \in 0 .. MaxDelay : Queue(w, d)) \/ Cancel(w) \/ Call(w)
    \/ Return
    \/ Tick

Spec == Init /\ [][Next]_vars
=============================================================================
