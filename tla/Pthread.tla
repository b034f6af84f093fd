------------------------------ MODULE Pthread -------------------------------
(***************************************************************************)
(* Mutexes and condition variables (os/kernel/pthread), composed with the  *)
(* semaphores they are made of: a mutex is a semaphore and the pid of its  *)
(* owner, a condition variable is a semaphore.  Each step of a thread is a *)
(* step of module Semaphore together with what the pthread function does   *)
(* next to it, so that preemption, priority inheritance, signals and       *)
(* interrupts inside the calls are those of the semaphores.                *)
(*                                                                         *)
(* Programs are free to call anything: that a thread posts only a mutex it *)
(* owns, and does not wait for it twice, is the work of the pid (EPERM,    *)
(* EDEADLK).  A call that only returns an error is no step.                *)
(*                                                                         *)
(* ppc is where a thread is in a pthread function (t... in                 *)
(* pthread_cond_timedwait before the mutex is taken again):                *)
(*                                                                         *)
(*   idle    in its program            cgive, tgive    the mutex is given  *)
(*   take    the mutex is taken        ctake, ttake    the wait begins     *)
(*   taking  blocked for it            ctaking, ttaking  blocked in it     *)
(*   try     pthread_mutex_trylock     cleave  the scheduler is unlocked   *)
(*   give    pthread_mutex_unlock      retake, retaking  the mutex again   *)
(*   leave   sched_unlock at the end   repid   its pid is set              *)
(*   wddel   the watchdog is deleted                                       *)
(*   signal  pthread_cond_signal       btest, bpost  pthread_cond_broadcast*)
(***************************************************************************)
EXTENDS Semaphore

CONSTANT NoTask     \* no thread: a pid of 0 or -1

ASSUME NoTaskAssumption == NoTask \notin Task

VARIABLES
    pid,        \* mutex->pid, NoTask for 0 and -1
    ppc,        \* where a thread is in a pthread function
    pm,         \* the mutex of the call
    pcond,      \* the condition variable of the call
    sval,       \* what sem_getvalue returned
    conddog     \* the watchdog of pthread_cond_timedwait runs

pthreadVars == <<pid, ppc, pm, pcond, sval, conddog>>
pvars == <<vars, pthreadVars>>

Cond == Sem \ Mutex

AtP(where) == cur # Idle /\ ppc[cur] = where
GotoP(where) == ppc' = [ppc EXCEPT ![cur] = where]
SetPid(m, t) == pid' = [pid EXCEPT ![m] = t]

\* A call begins with the scheduler locked.
Enter(where, m, c) ==
    /\ AtP("idle")
    /\ SchedLock
    /\ GotoP(where)
    /\ pm' = [pm EXCEPT ![cur] = m]
    /\ pcond' = [pcond EXCEPT ![cur] = c]
    /\ UNCHANGED <<pid, sval, conddog>>

\* pthread_takesemaphore of s: at once, or blocked and, after a signal, again.
TakeNow(s, from, to) == AtP(from) /\ SemTryWait(s) /\ GotoP(to)
TakeBlocks(s, from, to) == AtP(from) /\ SemBlock(s, FALSE) /\ GotoP(to)
TakeAgain(from, to) == AtP(from) /\ ~GotCount /\ WaitReturn /\ GotoP(to)
Taken(from, to) == AtP(from) /\ GotCount /\ WaitReturn /\ GotoP(to)

-----------------------------------------------------------------------------
MutexLock(m) == pid[m] # cur /\ Enter("take", m, NoSem)

MutexTake ==
    \/ TakeNow(pm[cur], "take", "leave") /\ SetPid(pm[cur], cur) /\ UNCHANGED <<pm, pcond, sval, conddog>>
    \/ TakeBlocks(pm[cur], "take", "taking") /\ UNCHANGED <<pid, pm, pcond, sval, conddog>>

MutexWoken ==
    \/ Taken("taking", "leave") /\ SetPid(pm[cur], cur) /\ UNCHANGED <<pm, pcond, sval, conddog>>
    \/ TakeAgain("taking", "take") /\ UNCHANGED <<pid, pm, pcond, sval, conddog>>

MutexTrylock(m) == Enter("try", m, NoSem)

TryTake ==
    \/ TakeNow(pm[cur], "try", "leave") /\ SetPid(pm[cur], cur) /\ UNCHANGED <<pm, pcond, sval, conddog>>
    \/ /\ AtP("try") /\ semcount[pm[cur]] <= 0
       /\ GotoP("leave")
       /\ UNCHANGED <<vars, pid, pm, pcond, sval, conddog>>

\* Faulty: any thread may unlock.
MutexUnlockUnchecked(m) == Enter("give", m, NoSem)

MutexUnlock(m) == pid[m] = cur /\ Enter("give", m, NoSem)

\* Faulty: the pid of the last owner is left in the mutex.
GiveKeepsPid(from, to) ==
    /\ AtP(from)
    /\ SemPost(pm[cur])
    /\ GotoP(to)
    /\ UNCHANGED <<pid, pm, pcond, sval, conddog>>

\* The pid is cleared, then the semaphore posted, which may cost the CPU.
Give(from, to) ==
    /\ AtP(from)
    /\ SetPid(pm[cur], NoTask)
    /\ SemPost(pm[cur])
    /\ GotoP(to)
    /\ UNCHANGED <<pm, pcond, sval, conddog>>

MutexGive == Give("give", "leave")

\* sched_unlock at the end of a call, and the watchdog, if it still runs.
Leave ==
    /\ AtP("leave")
    /\ SchedUnlock
    /\ GotoP(IF conddog[cur] THEN "wddel" ELSE "idle")
    /\ pm' = [pm EXCEPT ![cur] = NoSem]
    /\ pcond' = [pcond EXCEPT ![cur] = NoSem]
    /\ UNCHANGED <<pid, sval, conddog>>

-----------------------------------------------------------------------------
(***************************************************************************)
(* Waiting for a condition.                                                *)
(***************************************************************************)
CondWait(c, m) == pid[m] = cur /\ counts[c][cur] < MaxCount /\ Enter("cgive", m, c)

CondGive == Give("cgive", "ctake")

CondTake ==
    /\ \/ TakeNow(pcond[cur], "ctake", "cleave")
       \/ TakeBlocks(pcond[cur], "ctake", "ctaking")
    /\ UNCHANGED <<pid, pm, pcond, sval, conddog>>

CondWoken ==
    /\ Taken("ctaking", "cleave") \/ TakeAgain("ctaking", "ctake")
    /\ UNCHANGED <<pid, pm, pcond, sval, conddog>>

CondLeave ==
    /\ AtP("cleave")
    /\ SchedUnlock
    /\ GotoP("retake")
    /\ UNCHANGED <<pid, pm, pcond, sval, conddog>>

\* The mutex is taken again with the scheduler unlocked.
Retake ==
    /\ \/ TakeNow(pm[cur], "retake", "repid")
       \/ TakeBlocks(pm[cur], "retake", "retaking")
    /\ UNCHANGED <<pid, pm, pcond, sval, conddog>>

\* Faulty: the mutex counts as taken when a signal ended the wait for it.
RetakeWokenOnce ==
    /\ AtP("retaking") /\ WaitReturn /\ GotoP("repid")
    /\ UNCHANGED <<pid, pm, pcond, sval, conddog>>

RetakeWoken ==
    /\ Taken("retaking", "repid") \/ TakeAgain("retaking", "retake")
    /\ UNCHANGED <<pid, pm, pcond, sval, conddog>>

Repid ==
    /\ AtP("repid") /\ pc[cur] = "run"
    /\ SetPid(pm[cur], cur)
    /\ GotoP("idle")
    /\ pm' = [pm EXCEPT ![cur] = NoSem]
    /\ pcond' = [pcond EXCEPT ![cur] = NoSem]
    /\ UNCHANGED <<vars, sval, conddog>>

\* pthread_cond_timedwait: interrupts are disabled as well, a signal ends the
\* wait, and the mutex is taken again with the scheduler locked.
CondTimedwait(c, m) == pid[m] = cur /\ counts[c][cur] < MaxCount /\ Enter("tgive", m, c)

TimedGive == Give("tgive", "ttake")

TimedTake ==
    /\ TakeNow(pcond[cur], "ttake", "take") \/ TakeBlocks(pcond[cur], "ttake", "ttaking")
    /\ conddog' = [conddog EXCEPT ![cur] = TRUE]
    /\ UNCHANGED <<pid, pm, pcond, sval>>

TimedWoken ==
    /\ AtP("ttaking")
    /\ WaitReturn
    /\ GotoP("take")
    /\ UNCHANGED <<pid, pm, pcond, sval, conddog>>

WdDelete ==
    /\ AtP("wddel") /\ pc[cur] = "run"
    /\ conddog' = [conddog EXCEPT ![cur] = FALSE]
    /\ GotoP("idle")
    /\ UNCHANGED <<vars, pid, pm, pcond, sval>>

-----------------------------------------------------------------------------
(***************************************************************************)
(* Signalling a condition.                                                 *)
(***************************************************************************)
\* pthread_cond_signal: the value is read, and acted upon later.
CondSignal(c) ==
    /\ AtP("idle") /\ Running
    /\ sval' = [sval EXCEPT ![cur] = semcount[c]]
    /\ pcond' = [pcond EXCEPT ![cur] = c]
    /\ GotoP("signal")
    /\ UNCHANGED <<vars, pid, pm, conddog>>

CondPost ==
    /\ AtP("signal") /\ Running
    /\ IF sval[cur] < 0 THEN SemPost(pcond[cur]) ELSE UNCHANGED vars
    /\ sval' = [sval EXCEPT ![cur] = 0]
    /\ pcond' = [pcond EXCEPT ![cur] = NoSem]
    /\ GotoP("idle")
    /\ UNCHANGED <<pid, pm, conddog>>

CondBroadcast(c) == Enter("btest", NoSem, c)

BroadcastTest ==
    /\ AtP("btest") /\ Running
    /\ sval' = [sval EXCEPT ![cur] = semcount[pcond[cur]]]
    /\ GotoP("bpost")
    /\ UNCHANGED <<vars, pid, pm, pcond, conddog>>

BroadcastPost ==
    /\ AtP("bpost") /\ Running
    /\ IF sval[cur] < 0
         THEN /\ SemPost(pcond[cur])
              /\ sval' = [sval EXCEPT ![cur] = @ + 1]
              /\ UNCHANGED ppc
         ELSE /\ sval' = [sval EXCEPT ![cur] = 0]
              /\ GotoP("leave")
              /\ UNCHANGED vars
    /\ UNCHANGED <<pid, pm, pcond, conddog>>

-----------------------------------------------------------------------------
(***************************************************************************)
(* The rest of the system.                                                 *)
(***************************************************************************)
ThreadSleep == AtP("idle") /\ Sleep /\ UNCHANGED pthreadVars

ThreadPostReturn == PostReturn /\ UNCHANGED pthreadVars

\* pthread_cond_timedwait has interrupts disabled until it waits.
IrqEnabled == ppc[cur] \notin {"tgive", "ttake", "ttaking"}

ThreadWake(t) == IrqEnabled /\ Wake(t) /\ UNCHANGED pthreadVars

ThreadSignal(t) == IrqEnabled /\ IsrSignal(t) /\ UNCHANGED pthreadVars

\* pthread_cond_signal in a handler.
IsrCondSignal(c) == IrqEnabled /\ semcount[c] < 0 /\ IsrPost(c) /\ UNCHANGED pthreadVars

\* pthread_condtimedout: a signal to the thread, whatever it waits for by now.
CondTimedout(t) ==
    /\ IrqEnabled /\ Interruptible
    /\ conddog[t]
    /\ conddog' = [conddog EXCEPT ![t] = FALSE]
    /\ IF state[t] = "WAIT_SEM" THEN IsrSignal(t) ELSE UNCHANGED vars
    /\ UNCHANGED <<pid, ppc, pm, pcond, sval>>

PInit ==
    /\ Init
    /\ pid = [m \in Mutex |-> NoTask]
    /\ ppc = [t \in Task |-> "idle"]
    /\ pm = [t \in Task |-> NoSem]
    /\ pcond = [t \in Task |-> NoSem]
    /\ sval = [t \in Task |-> 0]
    /\ conddog = [t \in Task |-> FALSE]

PCall ==
    \/ \E m \in Mutex : MutexLock(m) \/ MutexTrylock(m) \/ MutexUnlock(m)
    \/ \E m \in Mutex, c \in Cond : CondWait(c, m) \/ CondTimedwait(c, m)
    \/ \E c \in Cond : CondSignal(c) \/ CondBroadcast(c)
    \/ ThreadSleep

PContinue ==
    \/ MutexTake \/ MutexWoken \/ TryTake \/ MutexGive \/ Leave
    \/ CondGive \/ CondTake \/ CondWoken \/ CondLeave \/ Retake \/ RetakeWoken \/ Repid
    \/ TimedGive \/ TimedTake \/ TimedWoken \/ WdDelete
    \/ CondPost \/ BroadcastTest \/ BroadcastPost
    \/ ThreadPostReturn

PIsr ==
    \/ \E t \in Task : ThreadWake(t) \/ ThreadSignal(t) \/ CondTimedout(t)
    \/ \E c \in Cond : IsrCondSignal(c)

PNext == PCall \/ PContinue \/ PIsr

PSpec == PInit /\ [][PNext]_pvars

-----------------------------------------------------------------------------
(***************************************************************************)
(* Properties.                                                             *)
(***************************************************************************)
PPC == {"idle", "take", "taking", "try", "give", "leave", "wddel", "signal", "btest", "bpost",
        "cgive", "ctake", "ctaking", "cleave", "retake", "retaking", "repid",
        "tgive", "ttake", "ttaking"}

\* The watchdog of pthread_cond_timedwait runs only inside the call: its
\* argument is the thread, and its handler would signal whatever that does.
PTypeOK ==
    /\ pid \in [Mutex -> Task \cup {NoTask}]
    /\ ppc \in [Task -> PPC]
    /\ pm \in [Task -> Mutex \cup {NoSem}]
    /\ pcond \in [Task -> Cond \cup {NoSem}]
    /\ sval \in [Task -> Int]
    /\ conddog \in [Task -> BOOLEAN]

(***************************************************************************)
(* mutex->pid tells the truth about the semaphore: the thread it names has *)
(* the mutex, and a thread that has a mutex and is in its program is named *)
(* by it, after every mix of lock, trylock, unlock and condition waits     *)
(* that are preempted, interrupted by signals or timed out.  Otherwise a   *)
(* mutex could be unlocked by a thread that does not have it, or by none.  *)
(***************************************************************************)
PidNamesOwner ==
    \A m \in Mutex, t \in Task :
       /\ pid[m] = t => m \in own[t]
       /\ m \in own[t] /\ ppc[t] \in {"idle", "signal", "btest", "bpost"} => pid[m] = t

(***************************************************************************)
(* The contract of the semaphore as a lock is kept by the functions, not   *)
(* by the programs: a mutex is posted only by the thread that has it, and  *)
(* a thread does not wait for one it has.                                  *)
(***************************************************************************)
LockContract ==
    \A t \in Task :
       /\ ppc[t] \in {"give", "cgive", "tgive"} => pm[t] \in own[t]
       /\ ppc[t] \in {"take", "taking", "retake", "retaking"} => pm[t] \notin own[t]

(***************************************************************************)
(* A condition wait is left with the mutex taken again, and every call     *)
(* with the scheduler lock as it was and without a watchdog, also when the *)
(* waits in it were interrupted.                                           *)
(***************************************************************************)
CallsRestore ==
    /\ PTypeOK
    /\ \A t \in Task :
         /\ ppc[t] = "repid" => pm[t] \in own[t]
         /\ ppc[t] \in {"idle", "retake", "repid", "signal", "wddel"} /\ pc[t] = "run" => lock[t] = 0
         /\ conddog[t] => ppc[t] \in {"ttaking", "take", "taking", "leave", "wddel"}
=============================================================================
