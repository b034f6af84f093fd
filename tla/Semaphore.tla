----------------------------- MODULE Semaphore ------------------------------
(***************************************************************************)
(* Counting semaphores with priority inheritance (os/kernel/semaphore), on *)
(* the primitives of module Scheduling: tasks that wait and post,          *)
(* interrupt handlers that post, watchdogs and signals that cancel waits.  *)
(*                                                                         *)
(* The code runs with interrupts disabled from irqsave to irqrestore, so a *)
(* call is one step up to the point where the calling task loses the CPU.  *)
(* It loses the CPU inside the call when it blocks (pc "wait", "waitisr"), *)
(* when it unlocks the scheduler before the watchdog of its timed wait is  *)
(* cancelled ("timed"), and when it lowers its own boosted priority        *)
(* ("post" and, inside sched_reprioritize, "postbase"); what is left of    *)
(* the call is the step it takes first when it runs again, before any      *)
(* interrupt.                                                              *)
(*                                                                         *)
(* pend_reprios is a bag: its order never matters.  A semaphore's holder   *)
(* list is the set of tasks that have an entry, and the entries' counts.   *)
(***************************************************************************)
EXTENDS Scheduling, FiniteSets, FiniteSetsExt, Functions

CONSTANTS
    Sem,            \* the semaphores
    Mutex,          \* those used as locks: posted by the task that took the count
    NoSem,          \* the null semaphore pointer
    Base,           \* tcb->base_priority of each task
    Uses,           \* the semaphores that the program of a task waits for
    NNestPrio,      \* CONFIG_SEM_NNESTPRIO
    Prealloc,       \* CONFIG_SEM_PREALLOCHOLDERS
    MaxPend,        \* bound on npend_reprio
    MaxCount        \* bound on semcount (SEM_VALUE_MAX) and on the counts of an entry

ASSUME SemConstants ==
    /\ IsFiniteSet(Task) /\ IsFiniteSet(Sem)
    /\ Blocked = {"WAIT_SEM", "WAIT_SIG"}
    /\ Mutex \subseteq Sem
    /\ NoSem \notin Sem
    /\ Base \in [Task -> Prio]
    /\ \A t \in Task : Base[t] = 0 <=> t = Idle
    /\ Uses \in [Task -> SUBSET Sem]
    /\ {NNestPrio, Prealloc, MaxPend} \subseteq Nat
    /\ MaxCount \in Nat \ {0}

VARIABLES
    semcount,       \* sem->semcount
    waitsem,        \* tcb->waitsem
    ahead,          \* the tasks that entered g_waitingforsemaphore before a task in it
    holders,        \* the tasks with an entry in the list at sem->hhead
    counts,         \* the counts of those entries
    pend,           \* tcb->pend_reprios[0 .. npend_reprio - 1], a bag of priorities
    pterrno,        \* tcb->pterrno as sem_wait reads it
    waitdog,        \* the watchdog of sem_timedwait is running
    pc,             \* where a task is in the semaphore code
    psem,           \* the semaphore of the call a task is in
    own             \* the mutexes a task took and did not post, as its program sees it

semVars == <<semcount, waitsem, ahead, holders, counts, pend, pterrno, waitdog, pc, psem, own>>
vars == <<schedVars, semVars>>

NoPend == [n \in Prio |-> 0]
Npend(h) == SumFunction(pend[h])
MaxPending(h) == Max({n \in Prio : pend[h][n] > 0})

Waiters(s) == {t \in Task : waitsem[t] = s}

(***************************************************************************)
(* g_waitingforsemaphore is in the order of priority, and of arrival among *)
(* equals; a priority change makes a task arrive anew.                     *)
(***************************************************************************)
Enqueue(ah, T) ==
    [t \in Task |-> IF t \in T
                      THEN {u \in Task \ T : state[u] = "WAIT_SEM"} \cup (ah[t] \cap T)
                      ELSE ah[t] \ T]

Requeue(ah, T) == Enqueue(ah, {t \in T : state[t] = "WAIT_SEM"})

Dequeue(ah, w) == [t \in Task |-> IF t = w THEN {} ELSE ah[t] \ {w}]

\* The first task of g_waitingforsemaphore that waits for s.
FirstWaiter(s) == {w \in Highest(Waiters(s), prio) : ahead[w] \cap Highest(Waiters(s), prio) = {}}

-----------------------------------------------------------------------------
(***************************************************************************)
(* Holder entries.                                                         *)
(***************************************************************************)
HeldEntries == {e \in Sem \X Task : e[2] \in holders[e[1]]}

\* sem_findorallocateholder: an entry is found, or taken from g_freeholders.
CanHold(t, s) == t \in holders[s] \/ Cardinality(HeldEntries) < Prealloc

\* sem_addholder_tcb: nothing is recorded when no entry is free.
AddHolder(t, s) == IF CanHold(t, s) THEN [holders EXCEPT ![s] = @ \cup {t}] ELSE holders
AddCount(cnt, t, s) == IF CanHold(t, s) THEN [cnt EXCEPT ![s][t] = @ + 1] ELSE cnt

\* sem_releaseholder: one count less in the entry of the running task.
ReleaseCount(s) ==
    [counts EXCEPT ![s][cur] = IF cur \in holders[s] /\ @ > 0 THEN @ - 1 ELSE @]

\* Faulty: an entry whose last count was released stays in the list.
FreeEntryNever(hs, cnt, t, s) == IF cnt[s][t] < 0 THEN [hs EXCEPT ![s] = @ \ {t}] ELSE hs

\* The end of sem_restorebaseprio_task: an entry with no counts is freed.
FreeEntry(hs, cnt, t, s) == IF cnt[s][t] <= 0 THEN [hs EXCEPT ![s] = @ \ {t}] ELSE hs

-----------------------------------------------------------------------------
(***************************************************************************)
(* Priority inheritance.                                                   *)
(***************************************************************************)
\* Faulty: the holder stays below the priority of the waiter.
BoostBelowWaiter(h, n) == IF n > Base[h] /\ n > prio[h] THEN n - 1 ELSE prio[h]

\* Faulty: the holder is not boosted.
BoostNever(h, n) == prio[h]

\* sem_boostholderprio: a task of priority n starts to wait for a count of h.
BoostedPrio(h, n) == IF n > Base[h] /\ n > prio[h] THEN n ELSE prio[h]

\* Faulty: the priority is not compared with the base priority.
BoostWithoutBaseTest(h, n) ==
    IF n <= prio[h]
      THEN [pend[h] EXCEPT ![n] = @ + 1]
      ELSE IF prio[h] > Base[h] /\ Npend(h) < NNestPrio
        THEN [pend[h] EXCEPT ![prio[h]] = @ + 1]
        ELSE pend[h]

BoostedPend(h, n) ==
    CASE n <= Base[h] -> pend[h]
      [] n > Base[h] /\ n <= prio[h] -> [pend[h] EXCEPT ![n] = @ + 1]
      [] n > Base[h] /\ n > prio[h] ->
           IF prio[h] > Base[h] /\ Npend(h) < NNestPrio
             THEN [pend[h] EXCEPT ![prio[h]] = @ + 1]
             ELSE pend[h]

\* sem_restoreholderprio: a waiter of priority n got a count, or gave up.
Boosted(h) == prio[h] # Base[h]

RestoredPrio(h, n) ==
    CASE ~Boosted(h) -> prio[h]
      [] Boosted(h) /\ pend[h] = NoPend -> Base[h]
      [] Boosted(h) /\ pend[h] # NoPend -> IF prio[h] <= n THEN MaxPending(h) ELSE prio[h]

\* Faulty: an entry is removed without looking whether it is there.
RestoreWithoutSearch(h, n) ==
    IF ~Boosted(h) \/ pend[h] = NoPend
      THEN pend[h]
      ELSE [pend[h] EXCEPT ![IF prio[h] <= n THEN MaxPending(h) ELSE n] = @ - 1]

RestoredPend(h, n) ==
    IF ~Boosted(h) \/ pend[h] = NoPend
      THEN pend[h]
      ELSE IF prio[h] <= n
        THEN [pend[h] EXCEPT ![MaxPending(h)] = @ - 1]
        ELSE [pend[h] EXCEPT ![n] = IF @ > 0 THEN @ - 1 ELSE @]

\* sem_restoreholderprio calls sched_setpriority, with the old value perhaps.
IsReset(h, n) == Boosted(h) /\ (pend[h] = NoPend \/ prio[h] <= n)

\* The priority of w that the other entries of H are compared with.  The entry
\* of w itself, if it has one, may come before or after them in the list; an
\* entry it has just been given is the first.
OwnRestored(H, w) == IF w \in H THEN RestoredPrio(w, prio[w]) ELSE prio[w]
Compared(H, w, s) ==
    IF w \in holders[s] THEN {prio[w], OwnRestored(H, w)} ELSE {OwnRestored(H, w)}

\* sem_foreachholder(sem, sem_restoreholderprio, w) over the entries of H: the
\* running task is compared with n1, the others with n.
AgainstOf(t, w, n, n1) == IF t = w THEN prio[w] ELSE IF t = cur THEN n1 ELSE n

Restored(H, w, n, n1) ==
    [t \in Task |-> IF t \in H THEN RestoredPrio(t, AgainstOf(t, w, n, n1)) ELSE prio[t]]
RestoredPends(H, w, n, n1) ==
    [t \in Task |-> IF t \in H THEN RestoredPend(t, AgainstOf(t, w, n, n1)) ELSE pend[t]]
Resets(H, w, n, n1) == {t \in H : IsReset(t, AgainstOf(t, w, n, n1))}

-----------------------------------------------------------------------------
(***************************************************************************)
(* Tasks that run programs.  The programs use mutexes in pairs of wait and *)
(* post, do not wait for a mutex they have, and use the other semaphores   *)
(* for signalling; they sleep, are woken, and lock the scheduler.          *)
(***************************************************************************)
Running == cur # Idle /\ pc[cur] = "run"

SchedLock ==
    /\ Running
    /\ lock[cur] < MaxLock
    /\ lock' = [lock EXCEPT ![cur] = @ + 1]
    /\ UNCHANGED <<cur, state, prio, semVars>>

SchedUnlock ==
    /\ Running
    /\ lock[cur] > 0
    /\ lock' = [lock EXCEPT ![cur] = @ - 1]
    /\ Switch(AfterUnlock(cur, state, prio, lock'))
    /\ UNCHANGED <<prio, semVars>>

SchedYield ==
    /\ Running
    /\ Switch(AfterReprioritize(cur, state, prio, lock, {cur}))
    /\ UNCHANGED <<prio, lock, semVars>>

Sleep ==
    /\ Running
    /\ Switch(AfterBlock([state EXCEPT ![cur] = "WAIT_SIG"], prio))
    /\ UNCHANGED <<prio, lock, semVars>>

\* sem_trywait, and sem_wait and sem_timedwait when a count is there.
TakeCount(s) ==
    /\ semcount' = [semcount EXCEPT ![s] = @ - 1]
    /\ holders' = AddHolder(cur, s)
    /\ counts' = AddCount(counts, cur, s)
    /\ own' = IF s \in Mutex THEN [own EXCEPT ![cur] = @ \cup {s}] ELSE own
    /\ UNCHANGED <<schedVars, waitsem, ahead, pend, pterrno, waitdog, pc, psem>>

MayWait(s) ==
    /\ Running
    /\ s \in Uses[cur] \ own[cur]
    /\ counts[s][cur] < MaxCount

SemTryWait(s) ==
    /\ MayWait(s)
    /\ semcount[s] > 0
    /\ TakeCount(s)

\* sem_wait with no count there: the wait is recorded, the holders are boosted
\* to the priority of the waiter, and the waiter leaves the CPU.
SemBlock(s, timed) ==
    /\ MayWait(s)
    /\ semcount[s] <= 0
    /\ \A h \in holders[s] : Npend(h) < MaxPend
    /\ semcount' = [semcount EXCEPT ![s] = @ - 1]
    /\ waitsem' = [waitsem EXCEPT ![cur] = s]
    /\ ahead' = Enqueue(Requeue(ahead, {t \in holders[s] : BoostedPrio(t, prio[cur]) # prio[t]}), {cur})
    /\ prio' = [t \in Task |-> IF t \in holders[s] THEN BoostedPrio(t, prio[cur]) ELSE prio[t]]
    /\ pend' = [t \in Task |-> IF t \in holders[s] THEN BoostedPend(t, prio[cur]) ELSE pend[t]]
    /\ lock' = [lock EXCEPT ![cur] = @ + 1]
    /\ pterrno' = [pterrno EXCEPT ![cur] = "OK"]
    /\ waitdog' = [waitdog EXCEPT ![cur] = timed]
    /\ pc' = [pc EXCEPT ![cur] = "wait"]
    /\ psem' = [psem EXCEPT ![cur] = s]
    /\ Switch(AfterBlock([state EXCEPT ![cur] = "WAIT_SEM"], prio'))
    /\ UNCHANGED <<holders, counts, own>>

\* sem_wait_for_isr: no holder is recorded or boosted, pre-emption stays enabled.
SemWaitForIsr(s) ==
    /\ MayWait(s) /\ s \notin Mutex
    /\ semcount' = [semcount EXCEPT ![s] = @ - 1]
    /\ IF semcount[s] > 0
         THEN UNCHANGED <<schedVars, waitsem, ahead, pterrno, pc, psem>>
         ELSE /\ waitsem' = [waitsem EXCEPT ![cur] = s]
              /\ ahead' = Enqueue(ahead, {cur})
              /\ pterrno' = [pterrno EXCEPT ![cur] = "OK"]
              /\ pc' = [pc EXCEPT ![cur] = "waitisr"]
              /\ psem' = [psem EXCEPT ![cur] = s]
              /\ Switch(AfterBlock([state EXCEPT ![cur] = "WAIT_SEM"], prio))
              /\ UNCHANGED <<prio, lock>>
    /\ UNCHANGED <<holders, counts, pend, waitdog, own>>

\* Faulty: a cancelled wait is taken for a successful one.
GotCountAlways == pterrno[cur] \in {"OK", "EINTR"}

\* The test of errno after the wait: was the woken task given a count?
GotCount == pterrno[cur] = "OK"

\* Faulty: the watchdog is left running.
WdCancelSkipped == UNCHANGED waitdog

\* wd_cancel and wd_delete at the end of sem_timedwait.
WdCancel == waitdog' = [waitdog EXCEPT ![cur] = FALSE]

\* The woken task leaves sem_wait or sem_wait_for_isr.  Its sched_unlock may
\* take the CPU from it before sem_timedwait cancels the watchdog.
WaitReturn ==
    /\ pc[cur] \in {"wait", "waitisr"}
    /\ own' = IF GotCount /\ psem[cur] \in Mutex THEN [own EXCEPT ![cur] = @ \cup {psem[cur]}] ELSE own
    /\ pc' = [pc EXCEPT ![cur] = IF waitdog[cur] THEN "timed" ELSE "run"]
    /\ psem' = [psem EXCEPT ![cur] = NoSem]
    /\ IF pc[cur] = "wait"
         THEN /\ lock' = [lock EXCEPT ![cur] = @ - 1]
              /\ Switch(AfterUnlock(cur, state, prio, lock'))
         ELSE UNCHANGED <<cur, state, lock>>
    /\ UNCHANGED <<prio, semcount, waitsem, ahead, holders, counts, pend, pterrno, waitdog>>

\* The rest of sem_timedwait.
TimedReturn ==
    /\ pc[cur] = "timed"
    /\ WdCancel
    /\ pc' = [pc EXCEPT ![cur] = "run"]
    /\ UNCHANGED <<schedVars, semcount, waitsem, ahead, holders, counts, pend, pterrno, psem, own>>

-----------------------------------------------------------------------------
(***************************************************************************)
(* sem_post by a task.                                                     *)
(***************************************************************************)
\* Faulty: a waiter is looked for only if the new count is negative.
WakesWaiterBelowZero(s) == semcount[s] + 1 < 0

\* A waiter is looked for if the new count is not positive.
WakesWaiter(s) == semcount[s] + 1 <= 0

\* No task waits: the holders keep their priorities.
PostCount(s) ==
    /\ semcount[s] < MaxCount
    /\ counts' = ReleaseCount(s)
    /\ holders' = FreeEntry(holders, counts', cur, s)
    /\ UNCHANGED <<schedVars, waitsem, ahead, pend, pc, psem>>

\* The count goes to w.  First the other holders come down, then the poster,
\* which leaves the CPU in the middle of the call if that makes it yield.
PostTo(w, s) ==
    LET l == [lock EXCEPT ![cur] = @ + 1]
        hs == AddHolder(w, s)
        n1 == OwnRestored(hs[s], w)
    IN \E n \in Compared(hs[s], w, s) :
         LET p2 == Restored(hs[s], w, n, n1)
             reset == Resets(hs[s], w, n, n1)
             st1 == AddReady(cur, state, prio, l, w)
             st2 == HeldOff(cur, st1, [p2 EXCEPT ![cur] = prio[cur]], reset \ {cur})
         IN /\ counts[s][w] < MaxCount
            /\ waitsem' = [waitsem EXCEPT ![w] = NoSem]
            /\ ahead' = Requeue(Dequeue(ahead, w), reset \ {w})
            /\ counts' = AddCount(ReleaseCount(s), w, s)
            /\ prio' = p2
            /\ pend' = RestoredPends(hs[s], w, n, n1)
            /\ IF Yields(cur, st2, p2, reset)
                 THEN /\ holders' = hs
                      /\ lock' = l
                      /\ pc' = [pc EXCEPT ![cur] = IF pend[cur] = NoPend THEN "postbase" ELSE "post"]
                      /\ psem' = [psem EXCEPT ![cur] = s]
                      /\ Switch(AfterReprioritize(cur, st2, p2, l, {cur}))
                 ELSE /\ holders' = FreeEntry(hs, counts', cur, s)
                      /\ Switch(AfterUnlock(cur, st2, p2, lock))
                      /\ UNCHANGED <<lock, pc, psem>>

SemPost(s) ==
    /\ Running
    /\ s \in Mutex => s \in own[cur]
    /\ semcount' = [semcount EXCEPT ![s] = @ + 1]
    /\ IF WakesWaiter(s) THEN \E w \in FirstWaiter(s) : PostTo(w, s) ELSE PostCount(s)
    /\ own' = [own EXCEPT ![cur] = @ \ {s}]
    /\ UNCHANGED <<pterrno, waitdog>>

\* The rest of sem_post of a task that lost the CPU in it.
PostReturn ==
    /\ pc[cur] \in {"post", "postbase"}
    /\ pend' = IF pc[cur] = "postbase" THEN [pend EXCEPT ![cur] = NoPend] ELSE pend
    /\ holders' = FreeEntry(holders, counts, cur, psem[cur])
    /\ lock' = [lock EXCEPT ![cur] = @ - 1]
    /\ pc' = [pc EXCEPT ![cur] = "run"]
    /\ psem' = [psem EXCEPT ![cur] = NoSem]
    /\ Switch(AfterUnlock(cur, state, prio, lock'))
    /\ UNCHANGED <<prio, semcount, waitsem, ahead, counts, pterrno, waitdog, own>>

-----------------------------------------------------------------------------
(***************************************************************************)
(* Interrupt handlers.  They run when the running task has interrupts      *)
(* enabled; sched_lock and sched_unlock do nothing in them.                *)
(***************************************************************************)
Interruptible == pc[cur] = "run"

\* A sleeping task is woken by a timer, a device or a signal.
Wake(t) ==
    /\ Interruptible
    /\ state[t] = "WAIT_SIG"
    /\ state' = AddReady(cur, state, prio, lock, t)
    /\ cur' = HeadAfterAdd(cur, prio, lock, t)
    /\ UNCHANGED <<prio, lock, semVars>>

\* sem_post in a handler; sem_releaseholder takes the interrupted task for the
\* poster, and no entry is freed.
IsrPostTo(w, s) ==
    LET hs == AddHolder(w, s)
        st1 == AddReady(cur, state, prio, lock, w)
        c1 == HeadAfterAdd(cur, prio, lock, w)
    IN \E n \in Compared(hs[s], w, s) :
         /\ counts[s][w] < MaxCount
         /\ waitsem' = [waitsem EXCEPT ![w] = NoSem]
         /\ ahead' = Requeue(Dequeue(ahead, w), Resets(hs[s], w, n, n) \ {w})
         /\ holders' = hs
         /\ counts' = AddCount(ReleaseCount(s), w, s)
         /\ prio' = Restored(hs[s], w, n, n)
         /\ pend' = RestoredPends(hs[s], w, n, n)
         /\ Switch(AfterReprioritize(c1, st1, prio', lock, Resets(hs[s], w, n, n)))
         /\ UNCHANGED lock

IsrPost(s) ==
    /\ Interruptible /\ s \notin Mutex
    /\ semcount[s] < MaxCount
    /\ semcount' = [semcount EXCEPT ![s] = @ + 1]
    /\ IF WakesWaiter(s)
         THEN \E w \in FirstWaiter(s) : IsrPostTo(w, s)
         ELSE /\ counts' = ReleaseCount(s)
              /\ UNCHANGED <<schedVars, waitsem, ahead, holders, pend>>
    /\ UNCHANGED <<pterrno, waitdog, pc, psem, own>>

\* sem_post_from_isr: the priority inheritance is left out.
SemPostFromIsr(s) ==
    /\ Interruptible /\ s \notin Mutex
    /\ semcount[s] < MaxCount
    /\ semcount' = [semcount EXCEPT ![s] = @ + 1]
    /\ IF WakesWaiter(s)
         THEN \E w \in FirstWaiter(s) :
                /\ waitsem' = [waitsem EXCEPT ![w] = NoSem]
                /\ ahead' = Dequeue(ahead, w)
                /\ state' = AddReady(cur, state, prio, lock, w)
                /\ cur' = HeadAfterAdd(cur, prio, lock, w)
         ELSE UNCHANGED <<cur, state, waitsem, ahead>>
    /\ UNCHANGED <<prio, lock, holders, counts, pend, pterrno, waitdog, pc, psem, own>>

\* sem_waitirq in a handler: the wait of w is cancelled with an error.  The
\* holders come down first, then w takes its count back and is woken.
IsrCancel(w, err) ==
    LET s == waitsem[w]
    IN /\ state[w] = "WAIT_SEM"
       /\ \E n \in Compared(holders[s], w, s) :
            /\ prio' = Restored(holders[s], w, n, n)
            /\ pend' = RestoredPends(holders[s], w, n, n)
            /\ ahead' = Dequeue(Requeue(ahead, Resets(holders[s], w, n, n)), w)
            /\ \E r \in AfterReprioritize(cur, state, prio', lock, Resets(holders[s], w, n, n)) :
                 /\ state' = AddReady(r[1], r[2], prio', lock, w)
                 /\ cur' = HeadAfterAdd(r[1], prio', lock, w)
       /\ semcount' = [semcount EXCEPT ![s] = @ + 1]
       /\ waitsem' = [waitsem EXCEPT ![w] = NoSem]
       /\ pterrno' = [pterrno EXCEPT ![w] = err]
       /\ UNCHANGED <<lock, holders, counts, pc, psem, own>>

\* sem_timeout: the watchdog of w expires, perhaps after w was given a count.
Timeout(w) ==
    /\ Interruptible
    /\ waitdog[w]
    /\ waitdog' = [waitdog EXCEPT ![w] = FALSE]
    /\ IF state[w] = "WAIT_SEM"
         THEN IsrCancel(w, "ETIMEDOUT")
         ELSE UNCHANGED <<schedVars, semcount, waitsem, ahead, holders, counts, pend, pterrno, pc, psem, own>>

\* A signal sent from a handler (a POSIX timer, for instance) reaches w.
IsrSignal(w) ==
    /\ Interruptible
    /\ IsrCancel(w, "EINTR")
    /\ UNCHANGED waitdog

-----------------------------------------------------------------------------
(***************************************************************************)
(* kill by the running task: sched_lock, sem_waitirq of the task signalled,*)
(* sched_unlock.  The caller does not come down by it: a boosted holder    *)
(* that signals a waiter of its own semaphore can lose the CPU in          *)
(* sem_canceled before the wait is undone, and then undoes a wait that may *)
(* have ended; programs that do so are left out (see the README).          *)
(***************************************************************************)
\* Faulty: the count taken by the cancelled wait is not given back.
UnwaitKeepsCount(w, s) ==
    /\ semcount' = semcount
    /\ waitsem' = [waitsem EXCEPT ![w] = NoSem]
    /\ pterrno' = [pterrno EXCEPT ![w] = "EINTR"]

Unwait(w, s) ==
    /\ semcount' = [semcount EXCEPT ![s] = @ + 1]
    /\ waitsem' = [waitsem EXCEPT ![w] = NoSem]
    /\ pterrno' = [pterrno EXCEPT ![w] = "EINTR"]

SigKill(w) ==
    LET s == waitsem[w]
        l == [lock EXCEPT ![cur] = @ + 1]
    IN /\ Running
       /\ state[w] = "WAIT_SEM"
       /\ \E n \in Compared(holders[s], w, s) :
            LET reset == Resets(holders[s], w, n, n)
                st1 == HeldOff(cur, state, prio', reset)
            IN /\ prio' = Restored(holders[s], w, n, n)
               /\ ~Yields(cur, state, prio', reset)
               /\ ahead' = Dequeue(Requeue(ahead, reset), w)
               /\ pend' = RestoredPends(holders[s], w, n, n)
               /\ Switch(AfterUnlock(cur, AddReady(cur, st1, prio', l, w), prio', lock))
       /\ Unwait(w, s)
       /\ UNCHANGED <<lock, holders, counts, waitdog, pc, psem, own>>

-----------------------------------------------------------------------------
Init ==
    /\ cur = Idle
    /\ state = [t \in Task |-> IF t = Idle THEN "READY" ELSE "WAIT_SIG"]
    /\ prio = Base
    /\ lock = [t \in Task |-> 0]
    /\ semcount = [s \in Sem |-> IF s \in Mutex THEN 1 ELSE 0]
    /\ waitsem = [t \in Task |-> NoSem]
    /\ ahead = [t \in Task |-> {}]
    /\ holders = [s \in Sem |-> {}]
    /\ counts = [s \in Sem |-> [t \in Task |-> 0]]
    /\ pend = [t \in Task |-> NoPend]
    /\ pterrno = [t \in Task |-> "OK"]
    /\ waitdog = [t \in Task |-> FALSE]
    /\ pc = [t \in Task |-> "run"]
    /\ psem = [t \in Task |-> NoSem]
    /\ own = [t \in Task |-> {}]

TaskStep ==
    \/ SchedLock \/ SchedUnlock \/ SchedYield \/ Sleep
    \/ \E s \in Sem :
         \/ SemTryWait(s)
         \/ \E timed \in BOOLEAN : SemBlock(s, timed)
         \/ SemWaitForIsr(s)
         \/ SemPost(s)
    \/ WaitReturn
    \/ TimedReturn
    \/ PostReturn

IsrStep ==
    \/ \E t \in Task : Wake(t)
    \/ \E s \in Sem : IsrPost(s) \/ SemPostFromIsr(s)

\* Steps that end a wait without a count.
CancelStep == \E w \in Task : Timeout(w) \/ IsrSignal(w) \/ SigKill(w)

Next == TaskStep \/ IsrStep \/ CancelStep

Spec == Init /\ [][Next]_vars

\* A running task goes on inside the kernel and leaves the critical sections of
\* its program: it unlocks what it locked and posts what it holds, if it gets
\* the CPU again and again.  A task that sleeps is woken.
Fairness ==
    /\ WF_vars(WaitReturn) /\ WF_vars(TimedReturn) /\ WF_vars(PostReturn) /\ WF_vars(SchedUnlock)
    /\ \A t \in Task : SF_vars(Wake(t))
    /\ \A t \in Task, s \in Mutex : SF_vars(cur = t /\ SemPost(s))

FairSpec == Spec /\ Fairness

-----------------------------------------------------------------------------
(***************************************************************************)
(* Properties.                                                             *)
(***************************************************************************)
PC == {"run", "wait", "waitisr", "timed", "post", "postbase"}

TypeOK ==
    /\ cur \in Task
    /\ state \in [Task -> {"READY", "PENDING"} \cup Blocked]
    /\ prio \in [Task -> Prio]
    /\ lock \in [Task -> Nat]
    /\ semcount \in [Sem -> Int]
    /\ waitsem \in [Task -> Sem \cup {NoSem}]
    /\ ahead \in [Task -> SUBSET Task]
    /\ holders \in [Sem -> SUBSET Task]
    /\ counts \in [Sem -> [Task -> Nat]]
    /\ pend \in [Task -> [Prio -> Nat]]
    /\ pterrno \in [Task -> {"OK", "EINTR", "ETIMEDOUT"}]
    /\ waitdog \in [Task -> BOOLEAN]
    /\ pc \in [Task -> PC]
    /\ psem \in [Task -> Sem \cup {NoSem}]
    /\ own \in [Task -> SUBSET Mutex]

\* A count was given to t, which has not yet run to see it.
Granted(t, s) ==
    pc[t] \in {"wait", "waitisr"} /\ psem[t] = s /\ waitsem[t] = NoSem /\ pterrno[t] = "OK"

Users(s) == {t \in Task : s \in own[t] \/ Granted(t, s)}

(***************************************************************************)
(* The count and the waiting tasks agree: a negative count is the number   *)
(* of tasks that wait for the semaphore, and none waits when it is not     *)
(* negative; the waiting tasks are on g_waitingforsemaphore.  sem_post     *)
(* therefore always finds the waiter it looks for (the DEBUGASSERT of      *)
(* sem_restorebaseprio, sem_holder.c:955) and sem_waitirq never finds a    *)
(* count that is not negative (sem_waitirq.c:132).                         *)
(***************************************************************************)
CountMatchesWaiters ==
    \A s \in Sem :
       /\ semcount[s] < 0 => Cardinality(Waiters(s)) = -semcount[s]
       /\ semcount[s] >= 0 => Waiters(s) = {}
       /\ \A t \in Waiters(s) : state[t] = "WAIT_SEM"

(***************************************************************************)
(* A semaphore used as a mutex excludes, and its count is never lost nor   *)
(* doubled: at most one task has it or has been given it, and it is        *)
(* available exactly when none has, whatever timeouts, signals and         *)
(* interrupts race with the posts.                                         *)
(***************************************************************************)
MutualExclusion ==
    \A s \in Mutex :
       /\ \A t, u \in Users(s) : t = u
       /\ semcount[s] <= 1
       /\ semcount[s] = 1 <=> Users(s) = {}

(***************************************************************************)
(* The holder list of a mutex is the truth about who holds it: an entry    *)
(* with a count is a task that has the mutex, and an entry without one     *)
(* belongs to a task that is still inside the sem_post that gave it away   *)
(* (sem_addholder_tcb, sem_releaseholder, sem_freeholder).  No holder is   *)
(* missed when g_holderalloc is large enough for all.                      *)
(***************************************************************************)
HoldersAreUsers ==
    \A s \in Mutex, t \in Task :
       /\ counts[s][t] > 0 => t \in Users(s) /\ t \in holders[s]
       /\ t \in holders[s] /\ counts[s][t] = 0 => pc[t] \in {"post", "postbase"} /\ psem[t] = s
       /\ Cardinality(Sem \X Task) <= Prealloc /\ t \in Users(s) => t \in holders[s]

(***************************************************************************)
(* Priority inheritance: the task that holds a mutex runs at no lower      *)
(* priority than any task that waits for it (sem_boostholderprio,          *)
(* sem_restoreholderprio).                                                 *)
(***************************************************************************)
NoPriorityInversion ==
    \A s \in Mutex : \A h \in Users(s), w \in Waiters(s) : prio[h] >= prio[w]

(***************************************************************************)
(* Restoring a priority never takes it below the one the task had before   *)
(* the first boost, and a task has somewhere to come down to only while it *)
(* is boosted.                                                             *)
(***************************************************************************)
NeverBelowBase ==
    \A t \in Task :
       /\ prio[t] >= Base[t]
       /\ \A n \in Prio : pend[t][n] > 0 => n > Base[t]

(***************************************************************************)
(* A watchdog runs only for a task that is inside the sem_timedwait that   *)
(* started it: no later wait can be hit by an earlier timeout              *)
(* (sem_timedwait.c:270-280), and a wait that ends with ETIMEDOUT was one. *)
(***************************************************************************)
TimeoutOnlyInTimedWait ==
    \A t \in Task : waitdog[t] => pc[t] \in {"wait", "timed"} /\ pterrno[t] # "ETIMEDOUT"

(***************************************************************************)
(* Bounded waiting by inheritance: a task that waits for a mutex and has   *)
(* the highest base priority eventually leaves sem_wait, also when tasks   *)
(* of middle priority never leave the CPU by themselves.                   *)
(***************************************************************************)
TopTasks == Highest(Task, Base)

TopWaiterReturns == \A t \in TopTasks : pc[t] = "wait" /\ psem[t] \in Mutex ~> pc[t] = "run"

(***************************************************************************)
(* The semaphores implement the abstract ones: every call and every race   *)
(* of posts, timeouts, signals and interrupts with it takes, hands over,   *)
(* gives back or cancels one count, exactly once.                          *)
(***************************************************************************)
Avail == [s \in Sem |-> IF semcount[s] > 0 THEN semcount[s] ELSE 0]
Given == [t \in Task |-> IF Granted(t, psem[t]) THEN psem[t] ELSE NoSem]

Abs == INSTANCE SemAbs WITH avail <- Avail, waiting <- waitsem, given <- Given, own <- own

ImplementsSemAbs == Abs!Spec
=============================================================================
