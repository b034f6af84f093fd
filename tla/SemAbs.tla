------------------------------- MODULE SemAbs -------------------------------
(***************************************************************************)
(* What the semaphores promise to the programs that use them, with no      *)
(* scheduler, no priorities and no holders: a count is available, or it    *)
(* was taken by a task; a post hands the count to one of the tasks that    *)
(* wait for it if there is one; a wait ends with a count or is cancelled.  *)
(* Module Semaphore implements it.                                         *)
(***************************************************************************)
EXTENDS Naturals

CONSTANTS Task, Sem, Mutex, NoSem

VARIABLES
    avail,      \* the counts of a semaphore that can be taken
    waiting,    \* the semaphore a task waits for
    given,      \* the semaphore a waiting task was given a count of, until it sees it
    own         \* the mutexes a task has taken and not posted

absVars == <<avail, waiting, given, own>>

Init ==
    /\ avail = [s \in Sem |-> IF s \in Mutex THEN 1 ELSE 0]
    /\ waiting = [t \in Task |-> NoSem]
    /\ given = [t \in Task |-> NoSem]
    /\ own = [t \in Task |-> {}]

Owning(t, s) == IF s \in Mutex THEN [own EXCEPT ![t] = @ \cup {s}] ELSE own

Take(t, s) ==
    /\ avail[s] > 0 /\ s \notin own[t]
    /\ avail' = [avail EXCEPT ![s] = @ - 1]
    /\ own' = Owning(t, s)
    /\ UNCHANGED <<waiting, given>>

Wait(t, s) ==
    /\ avail[s] = 0 /\ s \notin own[t]
    /\ waiting[t] = NoSem /\ given[t] = NoSem
    /\ waiting' = [waiting EXCEPT ![t] = s]
    /\ UNCHANGED <<avail, given, own>>

\* A count comes back: to a task that waits for it, or else for anyone to take.
GiveBack(s) ==
    \/ \E w \in Task :
         /\ waiting[w] = s
         /\ waiting' = [waiting EXCEPT ![w] = NoSem]
         /\ given' = [given EXCEPT ![w] = s]
         /\ UNCHANGED avail
    \/ /\ \A w \in Task : waiting[w] # s
       /\ avail' = [avail EXCEPT ![s] = @ + 1]
       /\ UNCHANGED <<waiting, given>>

Post(t, s) ==
    /\ s \in Mutex => s \in own[t]
    /\ GiveBack(s)
    /\ own' = [own EXCEPT ![t] = @ \ {s}]

\* Interrupt handlers post the semaphores that are not mutexes.
PostByHandler(s) ==
    /\ s \notin Mutex
    /\ GiveBack(s)
    /\ UNCHANGED own

\* A timeout or a signal.
Cancel(t) ==
    /\ waiting[t] # NoSem
    /\ waiting' = [waiting EXCEPT ![t] = NoSem]
    /\ UNCHANGED <<avail, given, own>>

Return(t) ==
    /\ given[t] # NoSem
    /\ given' = [given EXCEPT ![t] = NoSem]
    /\ own' = Owning(t, given[t])
    /\ UNCHANGED <<avail, waiting>>

Next ==
    \/ \E t \in Task, s \in Sem : Take(t, s) \/ Wait(t, s) \/ Post(t, s)
    \/ \E s \in Sem : PostByHandler(s)
    \/ \E t \in Task : Cancel(t) \/ Return(t)

Spec == Init /\ [][Next]_absVars
=============================================================================
