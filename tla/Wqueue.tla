------------------------------- MODULE Wqueue -------------------------------
(***************************************************************************)
(* The high-priority work queue (os/kernel/wqueue) with SORTING: a list of *)
(* work in the order of the delays it was queued with, and the worker      *)
(* thread, which first frees the memory that handlers could not            *)
(* (sched_garbagecollection) and then calls what is due.                   *)
(*                                                                         *)
(* Tasks, handlers and the work itself queue and cancel work.  work_queue  *)
(* puts the work on the list with interrupts disabled and signals the      *)
(* worker after that, so a task takes two steps.  The worker looks at the  *)
(* list with interrupts disabled until it calls work or sleeps.            *)
(*                                                                         *)
(* at is where the worker thread is:                                       *)
(*                                                                         *)
(*   collect   in sched_garbagecollection                                  *)
(*   process   before the list is looked at, for the first time (process)  *)
(*   again     or after a call                                             *)
(*   call      in the work, interrupts enabled                             *)
(*   sigwait   waits for SIGWORK             usleep   sleeps nap ticks     *)
(***************************************************************************)
EXTENDS Naturals, SequencesExt

CONSTANTS
    Work,       \* the work structures
    NoWork,
    Caller,     \* tasks that queue work
    Period,     \* wqueue->delay, ticks
    MaxDelay,   \* largest delay
    MaxFree     \* bound on the delayed frees

ASSUME WqueueConstants ==
    /\ Period \in Nat \ {0} /\ MaxDelay \in Nat /\ MaxFree \in Nat
    /\ NoWork \notin Work

VARIABLES
    q,          \* the list
    worker,     \* work->worker is not NULL
    delay,      \* work->delay
    age,        \* clock_systimer() - work->qtime, up to MaxDelay
    at,         \* where the worker thread is
    doing,      \* the work it calls
    pass,       \* ctick - stick, up to MaxDelay
    nap,        \* ticks left in usleep
    signalling, \* callers between work_qqueue and work_signal
    delayed     \* length of g_delayed_kufree

workVars == <<q, worker, delay, age>>
threadVars == <<at, doing, pass, nap>>
vars == <<workVars, threadVars, signalling, delayed>>

Delays == 0 .. MaxDelay
Capped(n) == IF n > MaxDelay THEN MaxDelay ELSE n
Queued(w) == w \in ToSet(q)

-----------------------------------------------------------------------------
(***************************************************************************)
(* Queueing and cancelling.                                                *)
(***************************************************************************)
\* Faulty: work goes before work of the same delay.
PlaceBeforeEquals(d) == SelectInSeq(q, LAMBDA x : delay[x] >= d)

\* The place of the first work with a longer delay, 0 if there is none.
Place(d) == SelectInSeq(q, LAMBDA x : delay[x] > d)

work_qqueue(w, d) ==
    /\ ~Queued(w)
    /\ q' = IF Place(d) = 0 THEN Append(q, w) ELSE InsertAt(q, Place(d), w)
    /\ worker' = [worker EXCEPT ![w] = TRUE]
    /\ delay' = [delay EXCEPT ![w] = d]
    /\ UNCHANGED age

\* SIGWORK ends both waits; a worker that does not wait ignores it.
work_signal ==
    /\ at' = IF at \in {"sigwait", "usleep"} THEN "collect" ELSE at
    /\ nap' = 0
    /\ UNCHANGED <<doing, pass>>

WorkQueue(c, w, d) ==
    /\ c \notin signalling
    /\ work_qqueue(w, d)
    /\ signalling' = signalling \cup {c}
    /\ UNCHANGED <<threadVars, delayed>>

WorkSignal(c) ==
    /\ c \in signalling
    /\ work_signal
    /\ signalling' = signalling \ {c}
    /\ UNCHANGED <<workVars, delayed>>

\* Faulty: the worker is not signalled.
IsrQueueUnsignalled(w, d) == work_qqueue(w, d) /\ UNCHANGED <<threadVars, signalling, delayed>>

\* work_queue in a handler, or in work that is called.
IsrQueue(w, d) ==
    /\ work_qqueue(w, d)
    /\ work_signal
    /\ UNCHANGED <<signalling, delayed>>

Removed(w) ==
    /\ q' = RemoveFirst(q, w)
    /\ delay' = [delay EXCEPT ![w] = 0]
    /\ age' = [age EXCEPT ![w] = 0]

\* Faulty: the work is cancelled only in name.
CancelKeepsQueued(w) ==
    /\ worker[w] /\ Queued(w)
    /\ worker' = [worker EXCEPT ![w] = FALSE]
    /\ UNCHANGED <<q, delay, age, threadVars, signalling, delayed>>

WorkCancel(w) ==
    /\ worker[w] /\ Queued(w)
    /\ Removed(w)
    /\ worker' = [worker EXCEPT ![w] = FALSE]
    /\ UNCHANGED <<threadVars, signalling, delayed>>

\* sched_ufree in a handler.  It signals the low-priority worker, which this
\* build does not have: nobody is woken.
SchedUfree ==
    /\ delayed < MaxFree
    /\ delayed' = delayed + 1
    /\ UNCHANGED <<workVars, threadVars, signalling>>

-----------------------------------------------------------------------------
(***************************************************************************)
(* The worker thread.                                                      *)
(***************************************************************************)
Collect ==
    /\ at = "collect" /\ delayed > 0
    /\ delayed' = delayed - 1
    /\ UNCHANGED <<workVars, threadVars, signalling>>

CollectDone ==
    /\ at = "collect" /\ delayed = 0
    /\ at' = "process"
    /\ UNCHANGED <<workVars, doing, pass, nap, signalling, delayed>>

\* The worker sleeps for n ticks, if any.
Usleep(n) ==
    /\ at' = IF n > 0 THEN "usleep" ELSE "collect"
    /\ nap' = n
    /\ pass' = 0

Processing == at \in {"process", "again"}

\* Faulty: a tick early.
IsDueEarly(w) == age[w] + 1 >= delay[w]

IsDue(w) == age[w] >= delay[w]

\* The first work is due: it leaves the list and is called.
ProcessDue ==
    /\ Processing /\ q # <<>> /\ IsDue(Head(q))
    /\ Removed(Head(q))
    /\ IF worker[Head(q)]
         THEN /\ worker' = [worker EXCEPT ![Head(q)] = FALSE]
              /\ doing' = Head(q)
              /\ at' = "call"
              /\ UNCHANGED <<pass, nap>>
         ELSE /\ UNCHANGED <<worker, doing>>
              /\ IF Len(q) = 1 THEN at' = "sigwait" /\ pass' = 0 /\ nap' = 0 ELSE Usleep(Period)
    /\ UNCHANGED <<signalling, delayed>>

\* It is not due, and all others have longer delays: sleep until it is.
ProcessLater ==
    /\ Processing /\ q # <<>> /\ ~IsDue(Head(q))
    /\ LET w == Head(q)
           elapsed == age[w] + pass
       IN  Usleep(IF elapsed > delay[w] THEN 0 ELSE delay[w] - elapsed)
    /\ UNCHANGED <<workVars, doing, signalling, delayed>>

ProcessEmpty ==
    /\ Processing /\ q = <<>>
    /\ at' = "sigwait"
    /\ pass' = 0
    /\ UNCHANGED <<workVars, doing, nap, signalling, delayed>>

\* The work returns, and the list is looked at from its head.
CallReturn ==
    /\ at = "call"
    /\ doing' = NoWork
    /\ at' = "again"
    /\ UNCHANGED <<workVars, pass, nap, signalling, delayed>>

UsleepReturn ==
    /\ at = "usleep" /\ nap = 0
    /\ at' = "collect"
    /\ UNCHANGED <<workVars, doing, pass, nap, signalling, delayed>>

\* A tick of the system timer.
Tick ==
    /\ age' = [w \in Work |-> IF Queued(w) THEN Capped(age[w] + 1) ELSE age[w]]
    /\ nap' = IF nap > 0 THEN nap - 1 ELSE 0
    /\ pass' = IF at \in {"call", "again"} THEN Capped(pass + 1) ELSE pass
    /\ UNCHANGED <<q, worker, delay, at, doing, signalling, delayed>>

Init ==
    /\ q = <<>>
    /\ worker = [w \in Work |-> FALSE]
    /\ delay = [w \in Work |-> 0]
    /\ age = [w \in Work |-> 0]
    /\ at = "collect"
    /\ doing = NoWork
    /\ pass = 0
    /\ nap = 0
    /\ signalling = {}
    /\ delayed = 0

Thread == Collect \/ CollectDone \/ ProcessDue \/ ProcessLater \/ ProcessEmpty \/ CallReturn \/ UsleepReturn

Next ==
    \/ \E w \in Work, d \in Delays : IsrQueue(w, d) \/ \E c \in Caller : WorkQueue(c, w, d)
    \/ \E c \in Caller : WorkSignal(c)
    \/ \E w \in Work : WorkCancel(w)
    \/ SchedUfree
    \/ Thread
    \/ Tick

Spec == Init /\ [][Next]_vars

\* The timer ticks, a task that has queued work goes on to signal the worker,
\* and the worker thread gets the CPU; the work that it calls returns.  Handlers
\* do not free memory each time that the worker has just freed all.
Fairness ==
    /\ WF_vars(Thread) /\ SF_vars(CollectDone)
    /\ WF_vars(Tick)
    /\ \A c \in Caller : WF_vars(WorkSignal(c))

FairSpec == Spec /\ Fairness

-----------------------------------------------------------------------------
(***************************************************************************)
(* Properties.                                                             *)
(***************************************************************************)
TypeOK ==
    /\ q \in Seq(Work) /\ IsInjective(q)
    /\ worker \in [Work -> BOOLEAN] /\ \A w \in Work : worker[w] <=> Queued(w)
    /\ delay \in [Work -> Delays] /\ age \in [Work -> Delays]
    /\ at \in {"collect", "process", "again", "call", "sigwait", "usleep"}
    /\ doing \in Work \cup {NoWork}
    /\ pass \in Delays /\ nap \in 0 .. MaxDelay + Period
    /\ signalling \subseteq Caller
    /\ delayed \in 0 .. MaxFree

(***************************************************************************)
(* kwork_process.c: the worker decides to wait without end while it has    *)
(* interrupts disabled, and a signal that comes before is ignored.  Still  *)
(* it never waits with work on the list, unless a caller is about to       *)
(* signal it.                                                              *)
(***************************************************************************)
NoLostWakeup == at = "sigwait" /\ q # <<>> => signalling # {}

(***************************************************************************)
(* The list, the worker and the races of queueing, cancelling and calling  *)
(* keep the promises of WqueueAbs: queued work is called once and not      *)
(* before its delay, cancelled work is not called.                         *)
(***************************************************************************)
Abs == INSTANCE WqueueAbs WITH pending <- ToSet(q)

ImplementsWqueueAbs == Abs!Spec

(***************************************************************************)
(* work_queue: a delay of zero means to perform the work immediately.      *)
(* Whatever else is queued, also by work that queues itself again, work    *)
(* without a delay is called or cancelled in the end.                      *)
(***************************************************************************)
ImmediateWorkRuns == \A w \in Work : (Queued(w) /\ delay[w] = 0) ~> ~Queued(w)
=============================================================================
