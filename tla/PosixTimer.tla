----------------------------- MODULE PosixTimer -----------------------------
(***************************************************************************)
(* The users of the watchdogs: POSIX timers (os/kernel/timer), the timed   *)
(* waits of tasks (tcb->waitdog) and drivers with watchdogs of their own,  *)
(* together with what the deletion of a task does to all of them.          *)
(*                                                                         *)
(* A step of a task goes up to the point where interrupts are enabled      *)
(* again inside a call; the timer interrupt, and other tasks, come between *)
(* two steps.  pt_last, which timer_gettime reports, is left out, and so   *)
(* is what the signal of an expired timer does to its owner.  The fields   *)
(* of a free timer are never read, and kept at the values they have first. *)
(***************************************************************************)
EXTENDS Watchdog

CONSTANTS
    Task,           \* the tasks
    Timer,          \* the timer structures
    TimerPool,      \* g_prealloctimers
    NoTimer,        \* the null timer_t
    NoTask          \* no task: the owner of a timer that is free

ASSUME TimerConstants ==
    /\ TimerPool \subseteq Timer /\ Timer \cap Task = {}
    /\ NoTimer \notin Timer /\ NoTask \notin Task

VARIABLES
    parm,           \* the argument of the handler of a watchdog: whom it runs for
    alloctimers,    \* g_alloctimers
    freetimers,     \* g_freetimers
    owner,          \* timer->pt_owner
    wdog,           \* timer->pt_wdog
    crefs,          \* timer->pt_crefs
    period,         \* timer->pt_delay
    waitdog,        \* tcb->waitdog
    tstate,         \* "live", "dying" (in task_terminate), "leaving" (in timer_deleteall), "dead"
    pc,             \* where a task is in the timer code
    ptimer,         \* the timer of the call
    pdog,           \* the watchdog that timer_create has
    pdelay          \* the time of the call, in ticks

timerVars == <<alloctimers, freetimers, owner, wdog, crefs, period>>
callVars == <<pc, ptimer, pdog, pdelay>>
vars == <<dogVars, parm, timerVars, waitdog, tstate, callVars>>

\* No interrupt handler runs, and interrupts are enabled.
Preemptible == ~InInterrupt /\ \A o \in Task : tstate[o] # "leaving"

Ready(o) == Preemptible /\ tstate[o] = "live"
Runs(o) == Ready(o) /\ pc[o] = "run" /\ waitdog[o] = NoDog
Mine(o) == {t \in alloctimers : owner[t] = o}

Goto(o, where, t, w, d) ==
    /\ pc' = [pc EXCEPT ![o] = where]
    /\ ptimer' = [ptimer EXCEPT ![o] = t]
    /\ pdog' = [pdog EXCEPT ![o] = w]
    /\ pdelay' = [pdelay EXCEPT ![o] = d]

Return(o) == Goto(o, "run", NoTimer, NoDog, 0)

-----------------------------------------------------------------------------
(***************************************************************************)
(* timer_create: a watchdog, then a timer for it.                          *)
(***************************************************************************)
TimerCreate(o) ==
    /\ Runs(o)
    /\ WdCreate
    /\ Goto(o, "create", NoTimer, NewDog, 0)
    /\ UNCHANGED <<active, lag, called, parm, timerVars, waitdog, tstate>>

\* timer_allocate.
Allocatable == IF freetimers # {} THEN freetimers ELSE Timer \ (TimerPool \cup alloctimers)
NewTimer == CHOOSE t \in Allocatable : TRUE

TimerAllocate(o) ==
    /\ Ready(o) /\ pc[o] = "create"
    /\ Allocatable # {}
    /\ freetimers' = freetimers \ {NewTimer}
    /\ alloctimers' = alloctimers \cup {NewTimer}
    /\ owner' = [owner EXCEPT ![NewTimer] = o]
    /\ wdog' = [wdog EXCEPT ![NewTimer] = pdog[o]]
    /\ crefs' = [crefs EXCEPT ![NewTimer] = 1]
    /\ period' = [period EXCEPT ![NewTimer] = 0]
    /\ Return(o)
    /\ UNCHANGED <<dogVars, parm, waitdog, tstate>>

\* Faulty: the watchdog is forgotten.
TimerAllocateLeaks(o) ==
    /\ Ready(o) /\ pc[o] = "create"
    /\ freetimers = {}
    /\ Return(o)
    /\ UNCHANGED <<dogVars, parm, timerVars, waitdog, tstate>>

\* There is no memory for a timer: the watchdog is given back.
TimerAllocateFails(o) ==
    /\ Ready(o) /\ pc[o] = "create"
    /\ freetimers = {}
    /\ WdDelete(pdog[o])
    /\ Return(o)
    /\ UNCHANGED <<called, parm, timerVars, waitdog, tstate>>

\* timer_settime up to irqsave: the watchdog is cancelled; with no time to set,
\* that is all.
TimerDisarm(o, t) ==
    /\ Runs(o) /\ t \in Mine(o)
    /\ WdCancel(wdog[t])
    /\ UNCHANGED <<freedogs, nfree, heapdogs, called, parm, timerVars, waitdog, tstate, callVars>>

TimerSettime(o, t, d, interval) ==
    /\ Runs(o) /\ t \in Mine(o)
    /\ WdCancel(wdog[t])
    /\ period' = [period EXCEPT ![t] = interval]
    /\ Goto(o, "settime", t, NoDog, d)
    /\ UNCHANGED <<freedogs, nfree, heapdogs, called, parm, alloctimers, freetimers, owner, wdog, crefs, waitdog, tstate>>

\* The rest of timer_settime.  An absolute time that has passed gives no delay.
TimerArm(o) ==
    LET t == ptimer[o]
        delay == IF pdelay[o] <= 0 THEN period[t] ELSE pdelay[o]
    IN /\ Ready(o) /\ pc[o] = "settime"
       /\ IF delay > 0
            THEN WdStart(wdog[t], delay) /\ parm' = [parm EXCEPT ![wdog[t]] = t]
            ELSE UNCHANGED <<active, lag, parm>>
       /\ Return(o)
       /\ UNCHANGED <<freedogs, nfree, heapdogs, called, timerVars, waitdog, tstate>>

\* timer_delete and timer_release: the last reference is tested, the watchdog is
\* deleted, the timer is freed, with interrupts enabled in between.
TimerDelete(o, t) ==
    /\ Runs(o) /\ t \in Mine(o)
    /\ IF crefs[t] > 1
         THEN crefs' = [crefs EXCEPT ![t] = @ - 1] /\ UNCHANGED callVars
         ELSE Goto(o, "release", t, NoDog, 0) /\ UNCHANGED crefs
    /\ UNCHANGED <<dogVars, parm, alloctimers, freetimers, owner, wdog, period, waitdog, tstate>>

TimerRelease(o) ==
    /\ Ready(o) /\ pc[o] = "release"
    /\ WdDelete(wdog[ptimer[o]])
    /\ Goto(o, "free", ptimer[o], NoDog, 0)
    /\ UNCHANGED <<called, parm, timerVars, waitdog, tstate>>

Freed(t) ==
    /\ alloctimers' = alloctimers \ {t}
    /\ freetimers' = freetimers \cup ({t} \cap TimerPool)
    /\ owner' = [owner EXCEPT ![t] = NoTask]
    /\ wdog' = [wdog EXCEPT ![t] = NoDog]
    /\ crefs' = [crefs EXCEPT ![t] = 0]
    /\ period' = [period EXCEPT ![t] = 0]

TimerFree(o) ==
    /\ Ready(o) /\ pc[o] = "free"
    /\ Freed(ptimer[o])
    /\ Return(o)
    /\ UNCHANGED <<dogVars, parm, waitdog, tstate>>

-----------------------------------------------------------------------------
(***************************************************************************)
(* Timed waits and drivers.                                                *)
(***************************************************************************)
\* sem_timedwait, mq_timedsend and their like: create, start, wait.
TimedWait(o, d) ==
    /\ Runs(o)
    /\ WdCreate
    /\ WdStart(NewDog, d)
    /\ parm' = [parm EXCEPT ![NewDog] = o]
    /\ waitdog' = [waitdog EXCEPT ![o] = NewDog]
    /\ UNCHANGED <<called, timerVars, tstate, callVars>>

\* The wait is over, by the timeout or before it.
TimedWaitEnd(o) ==
    /\ Ready(o) /\ waitdog[o] # NoDog
    /\ WdDelete(waitdog[o])
    /\ waitdog' = [waitdog EXCEPT ![o] = NoDog]
    /\ UNCHANGED <<called, parm, timerVars, tstate, callVars>>

DriverStart(w, d) ==
    /\ Preemptible /\ w \in StaticDog
    /\ WdStart(w, d)
    /\ UNCHANGED <<freedogs, nfree, heapdogs, called, parm, timerVars, waitdog, tstate, callVars>>

DriverCancel(w) ==
    /\ Preemptible /\ w \in StaticDog
    /\ WdCancel(w)
    /\ UNCHANGED <<freedogs, nfree, heapdogs, called, parm, timerVars, waitdog, tstate, callVars>>

-----------------------------------------------------------------------------
(***************************************************************************)
(* The timer interrupt.                                                    *)
(***************************************************************************)
Tick == Preemptible /\ WdTimer /\ UNCHANGED <<parm, timerVars, waitdog, tstate, callVars>>

Expire == WdExpiration /\ UNCHANGED <<parm, timerVars, waitdog, tstate, callVars>>

\* timer_timeout holds a reference while it signals.
HeldRef(t) == crefs[t] + 1

\* timer_timeout: signal the owner, then start again if the timer is periodic.
TimerTimeout(t) ==
    /\ called \in Dog \ StaticDog /\ parm[called] = t
    /\ IF HeldRef(t) > 1
         THEN /\ crefs' = [crefs EXCEPT ![t] = HeldRef(t) - 1]
              /\ IF period[t] > 0 THEN WdStart(wdog[t], period[t]) ELSE UNCHANGED <<active, lag>>
              /\ UNCHANGED <<freedogs, nfree, heapdogs, alloctimers, freetimers, owner, wdog, period>>
         ELSE WdDelete(wdog[t]) /\ Freed(t)
    /\ HandlerReturns
    /\ UNCHANGED <<parm, waitdog, tstate, callVars>>

\* sem_timeout and its like: the task is woken.
WaitTimeout(o) ==
    /\ called \in Dog \ StaticDog /\ parm[called] = o
    /\ UNCHANGED <<active, lag, freedogs, nfree, heapdogs, parm, timerVars, waitdog, tstate, callVars>>
    /\ HandlerReturns

\* The handler of a driver starts or cancels a watchdog of a driver, or neither.
DriverTimeout ==
    /\ called \in StaticDog
    /\ \/ \E w \in StaticDog, d \in 0 .. MaxDelay : WdStart(w, d)
       \/ \E w \in StaticDog : WdCancel(w)
       \/ UNCHANGED <<active, lag>>
    /\ HandlerReturns
    /\ UNCHANGED <<freedogs, nfree, heapdogs, parm, timerVars, waitdog, tstate, callVars>>

-----------------------------------------------------------------------------
(***************************************************************************)
(* task_terminate, called by another task: first task_recover, where       *)
(* wd_recover ends the timed wait, later sched_releasetcb, where           *)
(* timer_deleteall frees the timers; interrupts come in between.  The      *)
(* victim is not inside timer_create or timer_delete: what it holds there  *)
(* is in no list, and would be lost or released twice.                     *)
(***************************************************************************)
WdRecover(o) ==
    /\ Ready(o) /\ pc[o] \in {"run", "settime"}
    /\ tstate' = [tstate EXCEPT ![o] = "dying"]
    /\ IF waitdog[o] # NoDog
         THEN WdDelete(waitdog[o])
         ELSE UNCHANGED <<active, lag, freedogs, nfree, heapdogs>>
    /\ waitdog' = [waitdog EXCEPT ![o] = NoDog]
    /\ UNCHANGED <<called, parm, timerVars, callVars>>

\* timer_deleteall, one timer after the other with interrupts disabled, and the
\* end of the task.
TimerDeleteall(o) ==
    /\ (tstate[o] = "dying" /\ Preemptible) \/ tstate[o] = "leaving"
    /\ IF Mine(o) = {}
         THEN /\ tstate' = [tstate EXCEPT ![o] = "dead"]
              /\ Return(o)
              /\ UNCHANGED <<dogVars, timerVars>>
         ELSE /\ tstate' = [tstate EXCEPT ![o] = "leaving"]
              /\ \E t \in Mine(o) : WdDelete(wdog[t]) /\ Freed(t)
              /\ UNCHANGED <<called, callVars>>
    /\ UNCHANGED <<parm, waitdog>>

\* A task is created in the place of a deleted one.
TaskCreate(o) ==
    /\ Preemptible /\ tstate[o] = "dead"
    /\ tstate' = [tstate EXCEPT ![o] = "live"]
    /\ UNCHANGED <<dogVars, parm, timerVars, waitdog, callVars>>

-----------------------------------------------------------------------------
Init ==
    /\ DogInit
    /\ parm = [w \in Dog |-> NoTimer]
    /\ alloctimers = {}
    /\ freetimers = TimerPool
    /\ owner = [t \in Timer |-> NoTask]
    /\ wdog = [t \in Timer |-> NoDog]
    /\ crefs = [t \in Timer |-> 0]
    /\ period = [t \in Timer |-> 0]
    /\ waitdog = [o \in Task |-> NoDog]
    /\ tstate = [o \in Task |-> "live"]
    /\ pc = [o \in Task |-> "run"]
    /\ ptimer = [o \in Task |-> NoTimer]
    /\ pdog = [o \in Task |-> NoDog]
    /\ pdelay = [o \in Task |-> 0]

TimerCall(o) ==
    \/ TimerCreate(o) \/ TimerAllocate(o) \/ TimerAllocateFails(o)
    \/ \E t \in Timer :
         \/ TimerDisarm(o, t)
         \/ \E d, interval \in 0 .. MaxDelay : TimerSettime(o, t, d, interval)
         \/ TimerDelete(o, t)
    \/ TimerArm(o) \/ TimerRelease(o) \/ TimerFree(o)

WaitCall(o) == TimedWaitEnd(o) \/ \E d \in 0 .. MaxDelay : TimedWait(o, d)

DriverCall == \E w \in StaticDog : DriverCancel(w) \/ \E d \in 0 .. MaxDelay : DriverStart(w, d)

Interrupt ==
    \/ Tick \/ Expire
    \/ \E t \in Timer : TimerTimeout(t)
    \/ \E o \in Task : WaitTimeout(o)
    \/ DriverTimeout

Deletion == \E o \in Task : WdRecover(o) \/ TimerDeleteall(o) \/ TaskCreate(o)

Next == DriverCall \/ Interrupt \/ Deletion \/ \E o \in Task : TimerCall(o) \/ WaitCall(o)

\* The timer interrupt stays pending until interrupts are enabled, its handler
\* ends, and so does the loop of timer_deleteall, which keeps interrupts out.
Fairness ==
    /\ SF_vars(Interrupt)
    /\ \A o \in Task : WF_vars(tstate[o] = "leaving" /\ TimerDeleteall(o))

Spec == Init /\ [][Next]_vars /\ Fairness

-----------------------------------------------------------------------------
(***************************************************************************)
(* Properties.                                                             *)
(***************************************************************************)
TypeOK ==
    /\ active \in Seq(Dog) /\ lag \in [Dog -> Nat]
    /\ freedogs \subseteq Pool /\ nfree \in Nat /\ heapdogs \subseteq Dog
    /\ called \in Dog \cup {NoDog, "no"}
    /\ parm \in [Dog -> Timer \cup Task \cup {NoTimer}]
    /\ alloctimers \subseteq Timer /\ freetimers \subseteq TimerPool
    /\ owner \in [Timer -> Task \cup {NoTask}] /\ wdog \in [Timer -> Dog \cup {NoDog}]
    /\ crefs \in [Timer -> 0 .. 1] /\ period \in [Timer -> 0 .. MaxDelay]
    /\ waitdog \in [Task -> Dog \cup {NoDog}]
    /\ tstate \in [Task -> {"live", "dying", "leaving", "dead"}]
    /\ pc \in [Task -> {"run", "create", "settime", "release", "free"}]
    /\ ptimer \in [Task -> Timer \cup {NoTimer}] /\ pdog \in [Task -> Dog \cup {NoDog}]
    /\ pdelay \in [Task -> 0 .. MaxDelay]

\* The timers and tasks that a watchdog belongs to.  A timer whose watchdog is
\* deleted and which is not yet freed has none.
Released == {ptimer[o] : o \in {u \in Task : pc[u] = "free"}}

UsersOf(w) ==
    {t \in alloctimers \ Released : wdog[t] = w} \cup {o \in Task : waitdog[o] = w \/ pdog[o] = w}

(***************************************************************************)
(* A watchdog never runs out for something that is gone: while it runs, or *)
(* its handler is called, the timer or the task in its argument exists and *)
(* owns it, whatever deletions of timers and tasks (timer_release.c:155,   *)
(* wd_recover, timer_deleteall) the interrupt falls between.               *)
(***************************************************************************)
NoStaleExpiry ==
    \A w \in Dog \ StaticDog : IsActive(w) \/ called = w => UsersOf(w) = {parm[w]}

(***************************************************************************)
(* No watchdog is lost or shared: each one that is not free has exactly    *)
(* one timer, timed wait or call of timer_create that will delete it, and  *)
(* every timer is either free or in g_alloctimers, with one reference at   *)
(* most (crefs in TypeOK).                                                 *)
(***************************************************************************)
NoDogLost ==
    /\ TypeOK
    /\ \A w \in Dog \ StaticDog :
         IF w \in (Pool \ freedogs) \cup heapdogs THEN Cardinality(UsersOf(w)) = 1 ELSE UsersOf(w) = {}
    /\ freetimers = TimerPool \ alloctimers

(***************************************************************************)
(* An armed timer runs out or is disarmed, and so is a timed wait: the     *)
(* watchdog does not stay in the list for ever, whatever is started and    *)
(* cancelled before it.                                                    *)
(***************************************************************************)
WatchdogLeavesList == \A w \in Dog \ StaticDog : IsActive(w) ~> ~IsActive(w)
=============================================================================
