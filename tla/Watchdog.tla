------------------------------ MODULE Watchdog ------------------------------
(***************************************************************************)
(* The watchdog timers of os/kernel/wdog.  Module PosixTimer composes them *)
(* with their users.                                                       *)
(*                                                                         *)
(* g_wdactivelist is a delta list: the lag of an entry is the number of    *)
(* ticks between the entry before it and itself.  Interrupts are disabled  *)
(* in every function, so that a call is one step.  wd_timer runs in the    *)
(* timer interrupt, where the handlers of the watchdogs that ran out are   *)
(* called one after the other; a handler may start and cancel watchdogs.   *)
(*                                                                         *)
(* WDOGF_ACTIVE is set exactly for the entries of the list.  The lag of a  *)
(* watchdog that is not in the list is never read, and kept at 0.          *)
(***************************************************************************)
EXTENDS Integers, Sequences, FiniteSets, SequencesExt

CONSTANTS
    Dog,            \* the watchdog structures
    Pool,           \* g_wdpool
    StaticDog,      \* WDOGF_STATIC: part of a driver's own structure
    IntReserve,     \* CONFIG_WDOG_INTRESERVE
    MaxDelay,       \* bound on the delay of a watchdog
    NoDog           \* the null WDOG_ID

ASSUME WatchdogConstants ==
    /\ IsFiniteSet(Pool) /\ Pool \subseteq Dog /\ StaticDog \subseteq Dog \ Pool
    /\ NoDog \notin Dog /\ "no" \notin Dog \cup {NoDog}
    /\ {IntReserve, MaxDelay} \subseteq Nat

VARIABLES
    active,         \* g_wdactivelist
    lag,            \* wdog->lag
    freedogs,       \* g_wdfreelist
    nfree,          \* g_wdnfree
    heapdogs,       \* the blocks of the heap that are watchdogs (WDOGF_ALLOCED)
    called          \* the watchdog whose handler is called, "no" outside wd_expiration

dogVars == <<active, lag, freedogs, nfree, heapdogs, called>>

InInterrupt == called # "no"

IsActive(w) == w \in ToSet(active)

\* The ticks from now to the k-th entry (the variable now of wd_start).
Now(q, l, k) ==
    LET ticks[i \in Nat] == IF i = 0 THEN 0 ELSE ticks[i - 1] + l[q[i]] IN ticks[k]

IndexOf(q, w) == CHOOSE i \in DOMAIN q : q[i] = w

\* wd_gettime.
WdGettime(w) == IF IsActive(w) THEN Now(active, lag, IndexOf(active, w)) ELSE 0

-----------------------------------------------------------------------------
\* Faulty: the ticks of the entry are not given to the next one.
CancelledLagLost(q, l, w) == [l EXCEPT ![w] = 0]

\* wd_cancel: the next entry takes over the ticks.
CancelledLag(q, l, w) ==
    LET i == IndexOf(q, w)
        rest == [l EXCEPT ![w] = 0]
    IN IF i < Len(q) THEN [rest EXCEPT ![q[i + 1]] = @ + l[w]] ELSE rest

CancelledList(q, w) == RemoveFirst(q, w)

\* The entries that wd_start walks over: those that run out no later.
Passed(q, l, delay) == {k \in 1 .. Len(q) : \A i \in 1 .. k : Now(q, l, i) <= delay}

\* Faulty: the entry after the new one keeps its lag.
InsertedLagKept(q, l, w, delay) ==
    LET k == Cardinality(Passed(q, l, delay))
    IN [l EXCEPT ![w] = delay - Now(q, l, k)]

\* The end of wd_start: an entry is inserted before the first that runs out
\* later, whose lag is reduced, or at the end.
InsertedLag(q, l, w, delay) ==
    LET k == Cardinality(Passed(q, l, delay))
        rest == delay - Now(q, l, k)
    IN [u \in Dog |-> CASE u = w -> rest
                        [] u # w /\ k < Len(q) /\ u = q[k + 1] -> l[u] - rest
                        [] OTHER -> l[u]]

InsertedList(q, l, w, delay) == InsertAt(q, Cardinality(Passed(q, l, delay)) + 1, w)

\* The delay that wd_start counts: the current tick is not a whole one.
Counted(delay) == IF delay <= 0 THEN 1 ELSE delay + 1

-----------------------------------------------------------------------------
(***************************************************************************)
(* The functions, as actions on the list that a user composes.             *)
(***************************************************************************)
WdStart(w, delay) ==
    LET q == IF IsActive(w) THEN CancelledList(active, w) ELSE active
        l == IF IsActive(w) THEN CancelledLag(active, lag, w) ELSE lag
    IN /\ active' = InsertedList(q, l, w, Counted(delay))
       /\ lag' = InsertedLag(q, l, w, Counted(delay))

WdCancel(w) ==
    IF IsActive(w)
      THEN /\ active' = CancelledList(active, w)
           /\ lag' = CancelledLag(active, lag, w)
      ELSE UNCHANGED <<active, lag>>

\* Faulty: the last entries are not kept for interrupt handlers.
MayTakeFreeAll == nfree > 0

\* wd_create by a task leaves IntReserve entries to the interrupt handlers.
MayTakeFree == nfree > IntReserve

\* The structure that wd_create returns.  Free ones are alike: which one it is
\* does not matter.
Creatable == IF MayTakeFree THEN freedogs ELSE Dog \ (Pool \cup StaticDog \cup heapdogs)
NewDog == CHOOSE w \in Creatable : TRUE

WdCreate ==
    /\ Creatable # {}
    /\ IF MayTakeFree
         THEN freedogs' = freedogs \ {NewDog} /\ nfree' = nfree - 1 /\ UNCHANGED heapdogs
         ELSE heapdogs' = heapdogs \cup {NewDog} /\ UNCHANGED <<freedogs, nfree>>

\* wd_delete, the wd_cancel apart.
WdFree(w) ==
    CASE w \in heapdogs -> heapdogs' = heapdogs \ {w} /\ UNCHANGED <<freedogs, nfree>>
      [] w \in Pool -> /\ freedogs' = freedogs \cup {w}
                       /\ nfree' = nfree + 1
                       /\ UNCHANGED heapdogs
      [] OTHER -> UNCHANGED <<freedogs, nfree, heapdogs>>

\* Faulty: a running watchdog is freed.
WdDeleteRunning(w) == WdFree(w) /\ UNCHANGED <<active, lag>>

WdDelete(w) == WdCancel(w) /\ WdFree(w)

\* wd_timer: a tick of the first entry.
WdTimer ==
    /\ ~InInterrupt
    /\ active # <<>>
    /\ lag' = [lag EXCEPT ![Head(active)] = @ - 1]
    /\ called' = IF lag'[Head(active)] <= 0 THEN NoDog ELSE "no"
    /\ UNCHANGED <<active, freedogs, nfree, heapdogs>>

\* The test of the loop of wd_expiration, after a handler has returned.
RunsOut == active # <<>> /\ lag[Head(active)] <= 0

\* wd_expiration: the next watchdog that ran out leaves the list.
WdExpiration ==
    LET w == Head(active)
    IN /\ called = NoDog
       /\ active # <<>> /\ lag[w] <= 0
       /\ active' = Tail(active)
       /\ lag' = CancelledLag(active, lag, w)
       /\ called' = w
       /\ UNCHANGED <<freedogs, nfree, heapdogs>>

\* The handler has returned; RunsOut' is evaluated on the list it leaves.
HandlerReturns == called' = IF RunsOut' THEN NoDog ELSE "no"

DogInit ==
    /\ active = <<>>
    /\ lag = [w \in Dog |-> 0]
    /\ freedogs = Pool
    /\ nfree = Cardinality(Pool)
    /\ heapdogs = {}
    /\ called = "no"

-----------------------------------------------------------------------------
(***************************************************************************)
(* Properties.                                                             *)
(***************************************************************************)
(***************************************************************************)
(* The delta list keeps time: through every order of starts, restarts,     *)
(* cancellations (also by the handlers of watchdogs that run out at the    *)
(* same tick) and ticks, the handler of each watchdog is called at the     *)
(* tick it was set to and no other, first started first                    *)
(* (wd_start.c:297-364, wd_cancel.c:150).                                  *)
(***************************************************************************)
Time == [w \in ToSet(active) |-> WdGettime(w)]

Older ==
    {p \in ToSet(active) \X ToSet(active) :
       WdGettime(p[1]) = WdGettime(p[2]) /\ IndexOf(active, p[1]) < IndexOf(active, p[2])}

Handler == IF called \in Dog THEN called ELSE NoDog

Abs == INSTANCE WatchdogAbs WITH time <- Time, older <- Older, handler <- Handler

ImplementsWatchdogAbs == Abs!Spec

(***************************************************************************)
(* The pool is neither drained nor overfilled: g_wdnfree counts            *)
(* g_wdfreelist and stays within CONFIG_PREALLOC_WDOGS (the assertions of  *)
(* wd_create.c:133 and wd_delete.c:161), tasks leave the reserve to        *)
(* interrupt handlers, and nothing free is running.                        *)
(***************************************************************************)
PoolConsistent ==
    /\ nfree = Cardinality(freedogs)
    /\ IntReserve <= Cardinality(Pool) => nfree \in IntReserve .. Cardinality(Pool)
    /\ ToSet(active) \subseteq (Pool \ freedogs) \cup heapdogs \cup StaticDog
=============================================================================
