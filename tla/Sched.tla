------------------------------- MODULE Sched --------------------------------
(***************************************************************************)
(* The scheduler: the task lists of g_tasklisttable and the operations of  *)
(* os/kernel/sched and of the architecture's context-switch functions      *)
(* (os/arch/arm/src/armv7-r) that move TCBs between them.                  *)
(*                                                                         *)
(* Each C function that edits the lists is an operator of the same name    *)
(* from a scheduler value to a scheduler value: a record of the lists, the *)
(* task states, the priorities and a flag "ok" that an ASSERT of the code  *)
(* clears.  An action applies one of them to the current value S.          *)
(*                                                                         *)
(* sched_setparam and sched_setscheduler run with interrupts enabled       *)
(* between their calls, and can be switched out by the priority change     *)
(* they make, so they take three steps (field pc of call).                 *)
(***************************************************************************)
EXTENDS Integers, Sequences, SequencesExt

CONSTANTS
    Task, Idle,
    PrioBlocked,    \* blocked lists kept in priority order (g_tasklisttable)
    FifoBlocked,    \* blocked lists kept in arrival order
    MaxPrio,        \* SCHED_PRIORITY_MAX of the instance
    MaxLock,        \* bound on lockcount
    Slice,          \* MSEC2TICK(CONFIG_RR_INTERVAL)
    Policies        \* the policies that callers ask for ("none": sched_setparam)

Blocked == PrioBlocked \cup FifoBlocked

ASSUME ListConstants ==
    /\ Idle \in Task /\ IsFiniteSet(Task)
    /\ {MaxPrio, MaxLock, Slice} \subseteq Nat \ {0}
    /\ PrioBlocked \cap FifoBlocked = {}
    /\ Policies \subseteq {"none", "FIFO", "RR"}
    /\ Blocked \cap {"READY", "RUNNING", "PENDING", "INACTIVE", "INVALID"} = {}

VARIABLES
    list,           \* the queues of g_tasklisttable
    task_state,     \* tcb->task_state
    sched_priority, \* tcb->sched_priority
    base_priority,  \* tcb->base_priority
    lockcount,      \* tcb->lockcount
    rr,             \* TCB_FLAG_ROUND_ROBIN in tcb->flags
    timeslice,      \* tcb->timeslice
    call,           \* the sched_setparam/sched_setscheduler call in progress
    ok              \* no ASSERT of the list operations has failed

vars == <<list, task_state, sched_priority, base_priority, lockcount, rr, timeslice, call, ok>>

Lists == {"READY", "PENDING", "INACTIVE"} \cup Blocked
Prioritized == {"READY", "PENDING"} \cup PrioBlocked

NoCall == [pc |-> "run", tcb |-> Idle, pri |-> 0, policy |-> "none"]

S == [list |-> list, st |-> task_state, pri |-> sched_priority, ok |-> ok]

head == Head(list["READY"])

\* The variables the list operations write, from the scheduler value they return.
Becomes(s) ==
    /\ list' = s.list
    /\ task_state' = s.st
    /\ sched_priority' = s.pri
    /\ ok' = s.ok

-----------------------------------------------------------------------------
(***************************************************************************)
(* List operations.                                                        *)
(***************************************************************************)
\* The queue q with t inserted before the first task of lower priority found
\* at or after position i: behind every task of the same priority.
InsertFrom(q, i, t, pri) ==
    LET lower == {j \in i .. Len(q) : pri[q[j]] < pri[t]}
    IN InsertAt(q, IF lower = {} THEN Len(q) + 1 ELSE Min(lower), t)

\* Faulty: a task is put ahead of the tasks of its own priority.
AddPrioritizedBeforeEquals(s, t, l) ==
    LET lower == {j \in DOMAIN s.list[l] : s.pri[s.list[l][j]] <= s.pri[t]}
    IN [s EXCEPT !.list[l] = InsertAt(@, IF lower = {} THEN Len(@) + 1 ELSE Min(lower), t)]

sched_addprioritized(s, t, l) ==
    [s EXCEPT !.list[l] = InsertFrom(@, 1, t, s.pri)]

\* A task of higher priority than a running task that holds the scheduler
\* lock waits in g_pendingtasks; any other joins g_readytorun, and runs if it
\* becomes the head.
sched_addreadytorun(s, t) ==
    LET rtcb == Head(s.list["READY"])
        added == sched_addprioritized(s, t, "READY")
    IN IF lockcount[rtcb] > 0 /\ s.pri[rtcb] < s.pri[t]
         THEN [sched_addprioritized(s, t, "PENDING") EXCEPT !.st[t] = "PENDING"]
         ELSE IF Head(added.list["READY"]) = t
           THEN [added EXCEPT !.st[t] = "RUNNING", !.st[rtcb] = "READY",
                              !.ok = @ /\ lockcount[rtcb] = 0]
           ELSE [added EXCEPT !.st[t] = "READY"]

sched_removereadytorun(s, t) ==
    LET rest == RemoveFirst(s.list["READY"], t)
        st == IF t = Head(s.list["READY"]) THEN [s.st EXCEPT ![Head(rest)] = "RUNNING"] ELSE s.st
    IN [s EXCEPT !.list["READY"] = rest, !.st = [st EXCEPT ![t] = "INVALID"]]

sched_addblocked(s, t, l) ==
    [IF l \in PrioBlocked THEN sched_addprioritized(s, t, l)
                          ELSE [s EXCEPT !.list[l] = Append(@, t)]
     EXCEPT !.st[t] = l]

sched_removeblocked(s, t) ==
    [s EXCEPT !.list[s.st[t]] = RemoveFirst(@, t), !.st[t] = "INVALID",
              !.ok = @ /\ s.st[t] \in Blocked \cup {"INACTIVE"}]

\* One pass over both lists: the search for the place of a pending task starts
\* at the place of the one before it.
MergeOne(m, t, pri) ==
    LET q == InsertFrom(m.q, m.at, t, pri)
        at == SelectInSeq(q, LAMBDA u : u = t)
    IN [q |-> q, at |-> at, ok |-> m.ok /\ at < Len(q)]

\* What is reached after the first k of the pending tasks.
MergeSteps(s) ==
    LET pending == s.list["PENDING"]
        merge[k \in 0 .. Len(pending)] ==
            IF k = 0
              THEN [q |-> s.list["READY"], at |-> 1, ok |-> s.ok]
              ELSE MergeOne(merge[k - 1], pending[k], s.pri)
    IN merge

sched_mergepending(s) ==
    LET m == MergeSteps(s)[Len(s.list["PENDING"])]
        merged == ToSet(s.list["PENDING"])
    IN [s EXCEPT !.list = [s.list EXCEPT !["READY"] = m.q, !["PENDING"] = <<>>],
                 !.st = [t \in Task |-> IF t = Head(m.q) THEN "RUNNING"
                                        ELSE IF t \in merged \/ s.st[t] = "RUNNING" THEN "READY"
                                        ELSE s.st[t]],
                 !.ok = m.ok]

-----------------------------------------------------------------------------
(***************************************************************************)
(* Context switches.                                                       *)
(***************************************************************************)
\* Faulty: the pending tasks are left behind when the running task blocks.
BlockWithoutMerge(s, l) ==
    LET t == Head(s.list["READY"])
    IN sched_addblocked(sched_removereadytorun(s, t), t, l)

up_block_task(s, l) ==
    LET t == Head(s.list["READY"])
    IN sched_mergepending(sched_addblocked(sched_removereadytorun(s, t), t, l))

up_unblock_task(s, t) == sched_addreadytorun(sched_removeblocked(s, t), t)

\* The pending tasks are merged only when the head of the list changed; the
\* lock count of a head that is moved down is not looked at.
up_reprioritize_rtr(s, t, n) ==
    LET moved == sched_addreadytorun([sched_removereadytorun(s, t) EXCEPT !.pri[t] = n], t)
    IN IF Head(moved.list["READY"]) # Head(s.list["READY"])
         THEN sched_mergepending(moved)
         ELSE moved

up_release_pending(s) == sched_mergepending(s)

\* Faulty: a priority written without moving the task in its list.
SetPriorityInPlace(s, t, n) == [s EXCEPT !.pri[t] = n]

sched_setpriority(s, t, n) ==
    LET ready == s.list["READY"]
        l == s.st[t]
    IN CASE l = "RUNNING" ->
              IF n <= s.pri[ready[2]] THEN up_reprioritize_rtr(s, t, n)
                                      ELSE [s EXCEPT !.pri[t] = n]
         [] l = "READY" ->
              IF n > s.pri[Head(ready)]
                THEN up_reprioritize_rtr(s, t, n)
                ELSE sched_addreadytorun([sched_removereadytorun(s, t) EXCEPT !.pri[t] = n], t)
         [] l \in Prioritized \ {"READY"} ->
              sched_addprioritized([s EXCEPT !.list[l] = RemoveFirst(@, t), !.pri[t] = n], t, l)
         [] OTHER -> [s EXCEPT !.pri[t] = n]

-----------------------------------------------------------------------------
(***************************************************************************)
(* Actions of the running task.                                            *)
(***************************************************************************)
InTask == head # Idle /\ call[head].pc = "run"

SchedLock ==
    /\ InTask
    /\ lockcount[head] < MaxLock
    /\ lockcount' = [lockcount EXCEPT ![head] = @ + 1]
    /\ UNCHANGED <<list, task_state, sched_priority, base_priority, rr, timeslice, call, ok>>

\* Faulty: the pending tasks are not released.
UnlockKeepsPending ==
    /\ lockcount' = [lockcount EXCEPT ![head] = IF @ > 0 THEN @ - 1 ELSE 0]
    /\ Becomes(S)

\* sched_unlock, the part shared by its callers.  A time slice of 0 is never
\* seen here by a round-robin task, so the test at its end has no effect.
sched_unlock ==
    /\ lockcount' = [lockcount EXCEPT ![head] = IF @ > 0 THEN @ - 1 ELSE 0]
    /\ Becomes(IF lockcount[head] <= 1 /\ list["PENDING"] # <<>> THEN up_release_pending(S) ELSE S)

SchedUnlock ==
    /\ InTask
    /\ lockcount[head] > 0
    /\ sched_unlock
    /\ UNCHANGED <<base_priority, rr, timeslice, call>>

\* The running task waits for something: sem_wait, sigtimedwait, mq_receive...
BlockTask ==
    /\ InTask
    /\ \E l \in Blocked : Becomes(up_block_task(S, l))
    /\ UNCHANGED <<base_priority, lockcount, rr, timeslice, call>>

SchedYield ==
    /\ InTask
    /\ Becomes(sched_setpriority(S, head, sched_priority[head]))
    /\ UNCHANGED <<base_priority, lockcount, rr, timeslice, call>>

\* sched_setparam and sched_setscheduler, from the call to sched_lock.
SetParamLock(t, n, policy) ==
    /\ InTask
    /\ t # Idle /\ task_state[t] # "INVALID"
    /\ lockcount[head] < MaxLock
    /\ lockcount' = [lockcount EXCEPT ![head] = @ + 1]
    /\ call' = [call EXCEPT ![head] = [pc |-> "locked", tcb |-> t, pri |-> n, policy |-> policy]]
    /\ UNCHANGED <<list, task_state, sched_priority, base_priority, rr, timeslice, ok>>

\* The policy of sched_setscheduler, then the sched_setpriority of
\* sched_reprioritize; the caller may lose the CPU here.
SetParamReprioritize ==
    /\ call[head].pc = "locked"
    /\ LET c == call[head] IN
         /\ rr' = [rr EXCEPT ![c.tcb] = IF c.policy = "none" THEN @ ELSE c.policy = "RR"]
         /\ timeslice' = [timeslice EXCEPT ![c.tcb] =
                            CASE c.policy = "none" -> @ [] c.policy = "RR" -> Slice [] OTHER -> 0]
         /\ Becomes(sched_setpriority(S, c.tcb, c.pri))
    /\ call' = [call EXCEPT ![head].pc = "reprioritized"]
    /\ UNCHANGED <<base_priority, lockcount>>

\* The rest of sched_reprioritize and the sched_unlock of the caller.
SetParamReturn ==
    /\ call[head].pc = "reprioritized"
    /\ base_priority' = [base_priority EXCEPT ![call[head].tcb] = call[head].pri]
    /\ call' = [call EXCEPT ![head] = NoCall]
    /\ sched_unlock
    /\ UNCHANGED <<rr, timeslice>>

\* _exit: task_exit removes the running task; the new head takes the CPU once
\* the pending tasks are merged.
TaskExit ==
    /\ InTask
    /\ LET s == sched_removereadytorun(S, head)
       IN Becomes(IF list["PENDING"] # <<>> THEN sched_mergepending(s) ELSE s)
    /\ UNCHANGED <<base_priority, lockcount, rr, timeslice, call>>

\* task_delete and pthread_cancel of another task.
TaskTerminate(t) ==
    /\ InTask
    /\ t \notin {head, Idle} /\ task_state[t] # "INVALID"
    /\ Becomes([S EXCEPT !.list[task_state[t]] = RemoveFirst(@, t), !.st[t] = "INVALID"])
    /\ call' = [call EXCEPT ![t] = NoCall]
    /\ UNCHANGED <<base_priority, lockcount, rr, timeslice>>

\* A new TCB is set up and put on g_inactivetasks.
TaskCreate(t, n) ==
    /\ InTask
    /\ task_state[t] = "INVALID"
    /\ Becomes([S EXCEPT !.list["INACTIVE"] = Append(@, t), !.st[t] = "INACTIVE", !.pri[t] = n])
    /\ base_priority' = [base_priority EXCEPT ![t] = n]
    /\ lockcount' = [lockcount EXCEPT ![t] = 0]
    /\ rr' = [rr EXCEPT ![t] = TRUE]
    /\ timeslice' = [timeslice EXCEPT ![t] = Slice]
    /\ UNCHANGED call

(***************************************************************************)
(* Wakeups, by the running task or by an interrupt handler: semaphore      *)
(* posts, signals, message arrivals, timeouts, task_activate.              *)
(***************************************************************************)
UnblockTask(t) ==
    /\ task_state[t] \in Blocked \cup {"INACTIVE"}
    /\ Becomes(up_unblock_task(S, t))
    /\ UNCHANGED <<base_priority, lockcount, rr, timeslice, call>>

\* Faulty: the expired slice is reset and the task keeps the CPU.
TickWithoutRotation ==
    /\ rr[head]
    /\ timeslice' = [timeslice EXCEPT ![head] = IF @ > 1 THEN @ - 1 ELSE Slice]
    /\ UNCHANGED <<list, task_state, sched_priority, ok>>
    /\ UNCHANGED <<base_priority, lockcount, rr, call>>

Tick ==
    /\ rr[head]
    /\ IF timeslice[head] > 1
         THEN /\ timeslice' = [timeslice EXCEPT ![head] = @ - 1]
              /\ Becomes(S)
         ELSE /\ lockcount[head] = 0
              /\ timeslice' = [timeslice EXCEPT ![head] = Slice]
              /\ Becomes(IF sched_priority[list["READY"][2]] >= sched_priority[head]
                           THEN up_reprioritize_rtr(S, head, sched_priority[head])
                           ELSE S)
    /\ UNCHANGED <<base_priority, lockcount, rr, call>>

-----------------------------------------------------------------------------
Init ==
    /\ task_state = [t \in Task |-> IF t = Idle THEN "RUNNING" ELSE "INACTIVE"]
    /\ \E q \in SetToSeqs(Task \ {Idle}) :
         list = [l \in Lists |-> CASE l = "READY" -> <<Idle>> [] l = "INACTIVE" -> q [] OTHER -> <<>>]
    /\ sched_priority \in {p \in [Task -> 0 .. MaxPrio] : \A t \in Task : p[t] = 0 <=> t = Idle}
    /\ base_priority = sched_priority
    /\ lockcount = [t \in Task |-> 0]
    /\ rr = [t \in Task |-> t # Idle]
    /\ timeslice = [t \in Task |-> IF t = Idle THEN 0 ELSE Slice]
    /\ call = [t \in Task |-> NoCall]
    /\ ok = TRUE

Next ==
    \/ SchedLock
    \/ SchedUnlock
    \/ BlockTask
    \/ SchedYield
    \/ \E t \in Task, n \in 1 .. MaxPrio, policy \in Policies : SetParamLock(t, n, policy)
    \/ SetParamReprioritize
    \/ SetParamReturn
    \/ TaskExit
    \/ \E t \in Task : TaskTerminate(t)
    \/ \E t \in Task, n \in 1 .. MaxPrio : TaskCreate(t, n)
    \/ \E t \in Task : UnblockTask(t)
    \/ Tick

Spec == Init /\ [][Next]_vars

\* The timer interrupt keeps coming and now and then finds pre-emption enabled.
TimerFairness == SF_vars(Tick /\ lockcount[head] = 0)

\* The running task completes the kernel calls and the critical sections it is in.
TaskFairness ==
    /\ WF_vars(SchedUnlock)
    /\ WF_vars(SetParamReprioritize)
    /\ WF_vars(SetParamReturn)

FairSpec == Spec /\ TimerFairness /\ TaskFairness

-----------------------------------------------------------------------------
(***************************************************************************)
(* Properties.                                                             *)
(***************************************************************************)
TypeOK ==
    /\ DOMAIN list = Lists /\ \A l \in Lists : \A i \in DOMAIN list[l] : list[l][i] \in Task
    /\ task_state \in [Task -> Lists \cup {"RUNNING", "INVALID"}]
    /\ sched_priority \in [Task -> 0 .. MaxPrio]
    /\ base_priority \in [Task -> 0 .. MaxPrio]
    /\ lockcount \in [Task -> 0 .. MaxLock]
    /\ rr \in [Task -> BOOLEAN]
    /\ timeslice \in [Task -> 0 .. Slice]
    /\ \A t \in Task : call[t].pc \in {"run", "locked", "reprioritized"}
    /\ ok \in BOOLEAN

(***************************************************************************)
(* The task lists and the task states agree after every operation: a task  *)
(* is on the list of its state, once, and on no other, only the head of    *)
(* g_readytorun is TSTATE_TASK_RUNNING, and every list that                *)
(* g_tasklisttable declares prioritized is in descending priority order.   *)
(* (sched_addprioritized.c, sched_mergepending.c, sched_setpriority.c)     *)
(* The variables keep their types, time slices included, and no ASSERT of  *)
(* the list operations fails: a task that takes the head does so from an   *)
(* unlocked task (sched_addreadytorun.c:149), merged pending tasks always  *)
(* find a lower priority task behind them (sched_mergepending.c:142), only *)
(* blocked tasks are unblocked (sched_removeblocked.c:113).                *)
(***************************************************************************)
ListOf(t) == IF task_state[t] = "RUNNING" THEN "READY" ELSE task_state[t]

ListsConsistent ==
    /\ TypeOK
    /\ ok
    /\ \A l \in Lists :
         /\ ToSet(list[l]) = {t \in Task : ListOf(t) = l}
         /\ \A i, j \in DOMAIN list[l] : i # j => list[l][i] # list[l][j]
         /\ l \in Prioritized =>
              \A i, j \in DOMAIN list[l] : i < j => sched_priority[list[l][i]] >= sched_priority[list[l][j]]
    /\ {t \in Task : task_state[t] = "RUNNING"} = {head}

(***************************************************************************)
(* Strict priority scheduling.  With pre-emption enabled, the running task *)
(* has the highest priority of all runnable tasks, the ones still waiting  *)
(* in g_pendingtasks included; with pre-emption disabled it has the        *)
(* highest priority of g_readytorun, and nothing ready outside that list   *)
(* is forgotten: g_pendingtasks is empty unless the head holds the lock.   *)
(***************************************************************************)
RunningIsHighest ==
    /\ list["PENDING"] # <<>> => lockcount[head] > 0
    /\ \A t \in Task :
         task_state[t] = "READY" \/ (task_state[t] = "PENDING" /\ lockcount[head] = 0)
           => sched_priority[t] <= sched_priority[head]

(***************************************************************************)
(* Tasks of equal priority keep their order.  A task is overtaken by an    *)
(* equal only if it is the running task (time slice, yield, own            *)
(* sched_setparam) or the target of the sched_setparam in progress, and a  *)
(* task that joins g_readytorun goes behind the equals that are there.     *)
(***************************************************************************)
Before(t, u) ==
    \/ ListOf(t) = "READY" /\ ListOf(u) = "PENDING"
    \/ /\ ListOf(t) = ListOf(u)
       /\ \E i, j \in DOMAIN list[ListOf(t)] : i < j /\ list[ListOf(t)][i] = t /\ list[ListOf(t)][j] = u

IsRunnable(t) == ListOf(t) \in {"READY", "PENDING"}

KeepOrder ==
    \A t, u \in Task :
       (/\ t # u /\ IsRunnable(u) /\ IsRunnable(u)'
        /\ sched_priority'[t] = sched_priority'[u] /\ sched_priority'[u] = sched_priority[u])
       => /\ (/\ IsRunnable(t) /\ IsRunnable(t)' /\ sched_priority'[t] = sched_priority[t]
              /\ Before(u, t) /\ u # head /\ u # call[head].tcb) => Before(u, t)'
          /\ (/\ ~IsRunnable(t) /\ ListOf(t)' = "READY" /\ ListOf(u) = "READY") => Before(u, t)'

FifoWithinPriority == [][KeepOrder]_vars

(***************************************************************************)
(* Round robin: a task cannot stay ready forever behind round-robin tasks  *)
(* of its own priority (sched_process_timeslice).                          *)
(***************************************************************************)
PassedOver(t) ==
    task_state[t] = "READY" /\ sched_priority[t] = sched_priority[head] /\ rr[head]

RoundRobin == \A t \in Task : []<>~PassedOver(t)

(***************************************************************************)
(* The lists implement the scheduler of module SchedAbs.                   *)
(***************************************************************************)
Abs == INSTANCE SchedAbs WITH
    cur <- head,
    state <- [t \in Task |-> IF task_state[t] = "RUNNING" THEN "READY" ELSE task_state[t]],
    prio <- sched_priority,
    lock <- lockcount

ImplementsSchedAbs == Abs!Spec
=============================================================================
