---------------------------- MODULE MqueueProof -----------------------------
(***************************************************************************)
(* The message queues of module Mqueue, proved for any number of tasks,    *)
(* queues and messages, and any sizes of the queues and of the pools.      *)
(***************************************************************************)
EXTENDS Mqueue, SchedulingLemmas, SequenceLemmas, FiniteSetTheorems, FunctionTheorems

(***************************************************************************)
(* Messages in the lists.                                                  *)
(***************************************************************************)
LEMMA PlacesFinite ==
    ASSUME NEW M, NEW s \in Seq(M), NEW S
    PROVE  /\ IsFiniteSet(PlacesOf(s, S)) /\ Cardinality(PlacesOf(s, S)) \in Nat
           /\ Cardinality(PlacesOf(s, S)) <= Len(s)
<1>1. PlacesOf(s, S) \in SUBSET (1 .. Len(s)) /\ Len(s) \in Nat
  BY DEF PlacesOf
<1>2. IsFiniteSet(1 .. Len(s)) /\ Cardinality(1 .. Len(s)) = Len(s)
  <2>1. IsFiniteSet(1 .. Len(s)) /\ Cardinality(1 .. Len(s)) = IF 1 > Len(s) THEN 0 ELSE Len(s) - 1 + 1
    BY <1>1, FS_Interval
  <2> QED BY <1>1, <2>1
<1> QED BY <1>1, <1>2, FS_Subset, FS_CardinalityType

\* An inserted message adds one place if it is of the kind that is counted.
LEMMA PlacesInsert ==
    ASSUME NEW M, NEW s \in Seq(M), NEW i \in 1 .. Len(s) + 1, NEW e \in M, NEW S
    PROVE  Cardinality(PlacesOf(InsertAt(s, i, e), S)) =
             Cardinality(PlacesOf(s, S)) + (IF e \in S THEN 1 ELSE 0)
<1> DEFINE r == InsertAt(s, i, e)
           P == PlacesOf(s, S)
           Q == PlacesOf(r, S)
           new(j) == IF j < i THEN j ELSE j + 1
           f == [j \in P |-> new(j)]
<1>0. Len(s) \in Nat /\ i \in Nat /\ i >= 1 /\ i <= Len(s) + 1 /\ DOMAIN s = 1 .. Len(s)
  OBVIOUS
<1>1. /\ r \in Seq(M) /\ Len(r) = Len(s) + 1
      /\ \A j \in 1 .. Len(s) + 1 : r[j] = IF j < i THEN s[j] ELSE IF j = i THEN e ELSE s[j - 1]
  BY InsertAtProperties
<1> HIDE DEF r
<1>2. DOMAIN r = 1 .. Len(s) + 1
  BY <1>1
<1>3. \A j \in P : j \in 1 .. Len(s) /\ s[j] \in S
  BY <1>0 DEF PlacesOf
<1>4. \A j : j \in Q <=> j \in 1 .. Len(s) + 1 /\ r[j] \in S
  BY <1>2 DEF PlacesOf
<1>5. \A j \in 1 .. Len(s) : s[j] \in S => j \in P
  BY <1>0 DEF PlacesOf
<1>6. i \in Q <=> e \in S
  BY <1>0, <1>1, <1>4
<1> HIDE DEF P, Q
<1>7. ASSUME NEW j \in P PROVE new(j) \in Q \ {i}
  <2>1. new(j) \in 1 .. Len(s) + 1 /\ new(j) # i
    BY <1>0, <1>3
  <2>2. r[new(j)] = s[j]
    BY <1>0, <1>1, <1>3
  <2> QED BY <1>3, <1>4, <2>1, <2>2
<1>8. ASSUME NEW k \in Q \ {i} PROVE \E j \in P : new(j) = k
  <2>0. k \in 1 .. Len(s) + 1 /\ r[k] \in S /\ k # i
    BY <1>4
  <2>1. CASE k < i
    <3>1. k \in 1 .. Len(s) /\ s[k] = r[k]
      BY <1>0, <1>1, <2>0, <2>1
    <3> QED BY <1>5, <2>0, <2>1, <3>1
  <2>2. CASE ~(k < i)
    <3>1. k - 1 \in 1 .. Len(s) /\ s[k - 1] = r[k] /\ new(k - 1) = k
      BY <1>0, <1>1, <2>0, <2>2
    <3>2. k - 1 \in P
      BY <1>5, <2>0, <3>1
    <3> QED BY <3>1, <3>2
  <2> QED BY <2>1, <2>2
<1>9. \A j, k \in P : new(j) = new(k) => j = k
  BY <1>0, <1>3
<1>10. f \in Bijection(P, Q \ {i})
  <2>1. f \in [P -> Q \ {i}]
    BY <1>7
  <2>2. \A j \in P : f[j] = new(j)
    OBVIOUS
  <2> HIDE DEF f, new
  <2>3. \A j, k \in P : f[j] = f[k] => j = k
    BY <1>9, <2>2
  <2>4. \A k \in Q \ {i} : \E j \in P : f[j] = k
    BY <1>8, <2>2
  <2> QED BY <2>1, <2>3, <2>4, Fun_IsBij
<1>11. Cardinality(Q \ {i}) = Cardinality(P)
  <2>1. ExistsBijection(P, Q \ {i})
    BY <1>10, Fun_ExistsBij
  <2>2. IsFiniteSet(P)
    BY PlacesFinite DEF P
  <2> QED BY <2>1, <2>2, FS_Bijection
<1>12. IsFiniteSet(Q) /\ Cardinality(Q) \in Nat /\ Cardinality(P) \in Nat
  BY <1>1, PlacesFinite DEF P, Q
<1>13. Cardinality(Q \ {i}) = IF i \in Q THEN Cardinality(Q) - 1 ELSE Cardinality(Q)
  BY <1>12, FS_RemoveElement
<1>14. Cardinality(Q) = Cardinality(P) + (IF e \in S THEN 1 ELSE 0)
  BY <1>6, <1>11, <1>12, <1>13
<1> QED BY <1>14 DEF P, Q, r

\* The first message takes its place with it.
LEMMA PlacesTail ==
    ASSUME NEW M, NEW s \in Seq(M), s # <<>>, NEW S
    PROVE  /\ Head(s) \in M /\ Tail(s) \in Seq(M) /\ Len(Tail(s)) = Len(s) - 1 /\ Len(s) >= 1
           /\ Cardinality(PlacesOf(s, S)) = Cardinality(PlacesOf(Tail(s), S)) + (IF Head(s) \in S THEN 1 ELSE 0)
<1> DEFINE t == Tail(s)
           h == Head(s)
           r == InsertAt(t, 1, h)
<1>1. /\ Head(s) \in M /\ t \in Seq(M) /\ Len(t) = Len(s) - 1 /\ Len(s) \in Nat /\ Len(s) >= 1
      /\ \A j \in 1 .. Len(s) - 1 : t[j] = s[j + 1]
      /\ Head(s) = s[1]
  OBVIOUS
<1>2. 1 \in 1 .. Len(t) + 1
  BY <1>1
<1>3. /\ r \in Seq(M) /\ Len(r) = Len(s)
      /\ \A j \in 1 .. Len(s) : r[j] = IF j < 1 THEN t[j] ELSE IF j = 1 THEN h ELSE t[j - 1]
  <2>1. Len(t) + 1 = Len(s)
    BY <1>1
  <2> HIDE DEF t, h
  <2>2. /\ r \in Seq(M) /\ Len(r) = Len(t) + 1
        /\ \A j \in 1 .. Len(t) + 1 : r[j] = IF j < 1 THEN t[j] ELSE IF j = 1 THEN h ELSE t[j - 1]
    <3>1. h \in M
      BY <1>1 DEF h
    <3> QED BY <1>1, <1>2, <3>1, InsertAtProperties
  <2> HIDE DEF r
  <2> QED BY <2>1, <2>2
<1> HIDE DEF t, r, h
<1>4. r = s
  <2>1. ASSUME NEW j \in 1 .. Len(s) PROVE r[j] = s[j]
    <3>1. CASE j = 1
      BY <1>1, <1>3, <3>1 DEF h
    <3>2. CASE j # 1
      <4>1. j - 1 \in 1 .. Len(s) - 1 /\ (j - 1) + 1 = j /\ ~(j < 1)
        BY <1>1, <3>2
      <4> QED BY <1>1, <1>3, <3>2, <4>1
    <3> QED BY <3>1, <3>2
  <2> QED BY <1>1, <1>3, <2>1, SeqEqual
<1>5. Cardinality(PlacesOf(r, S)) = Cardinality(PlacesOf(t, S)) + (IF h \in S THEN 1 ELSE 0)
  <2>1. h \in M
    BY <1>1 DEF h
  <2> QED BY <1>1, <1>2, <2>1, PlacesInsert DEF r
<1> QED BY <1>1, <1>4, <1>5 DEF t, h

\* The messages of S in all lists.
QueuedIn(ml, S) == Cardinality(UNION {{q} \X PlacesOf(ml[q], S) : q \in Queue})

RestOf(ml, q, S) == UNION {{u} \X PlacesOf(ml[u], S) : u \in Queue \ {q}}

\* The messages of all queues are those of one queue and those of the rest.
LEMMA QueuedSplit ==
    ASSUME NEW M, NEW ml \in [Queue -> Seq(M)], NEW q \in Queue, NEW S
    PROVE  /\ Cardinality(RestOf(ml, q, S)) \in Nat
           /\ QueuedIn(ml, S) = Cardinality(RestOf(ml, q, S)) + Cardinality(PlacesOf(ml[q], S))
<1> DEFINE F == [u \in Queue \ {q} |-> {u} \X PlacesOf(ml[u], S)]
           T == {{u} \X PlacesOf(ml[u], S) : u \in Queue \ {q}}
           rest == UNION T
           P == PlacesOf(ml[q], S)
           here == {q} \X P
           all == UNION {{u} \X PlacesOf(ml[u], S) : u \in Queue}
<1>1. \A u \in Queue : IsFiniteSet(PlacesOf(ml[u], S)) /\ Cardinality(PlacesOf(ml[u], S)) \in Nat
  BY PlacesFinite
<1>2. \A u \in Queue : IsFiniteSet({u} \X PlacesOf(ml[u], S))
  BY <1>1, FS_Singleton, FS_Product
<1>3. IsFiniteSet(T)
  <2>1. F \in [Queue \ {q} -> T] /\ \A t \in T : \E u \in Queue \ {q} : F[u] = t
    OBVIOUS
  <2>2. IsFiniteSet(Queue \ {q})
    BY MqConstants, FS_RemoveElement
  <2> HIDE DEF F, T
  <2> QED BY <2>1, <2>2, Fun_IsSurj, FS_Surjection
<1>4. IsFiniteSet(rest) /\ Cardinality(rest) \in Nat
  <2>1. \A t \in T : IsFiniteSet(t)
    BY <1>2
  <2> HIDE DEF T
  <2> QED BY <1>3, <2>1, FS_UNION, FS_CardinalityType
<1>5. IsFiniteSet(here) /\ Cardinality(here) = Cardinality(P)
  <2>1. IsFiniteSet(P) /\ Cardinality(P) \in Nat /\ IsFiniteSet({q}) /\ Cardinality({q}) = 1
    BY <1>1, FS_Singleton
  <2> HIDE DEF P
  <2>2. IsFiniteSet({q} \X P) /\ Cardinality({q} \X P) = Cardinality({q}) * Cardinality(P)
    BY <2>1, FS_Product
  <2>3. 1 * Cardinality(P) = Cardinality(P)
    BY <2>1
  <2> QED BY <2>1, <2>2, <2>3
<1>6. all = rest \cup here
  OBVIOUS
<1>7. rest \cap here = {}
  OBVIOUS
<1> HIDE DEF rest, here, all
<1>8. Cardinality(rest \cup here) = Cardinality(rest) + Cardinality(here) - Cardinality(rest \cap here)
  BY <1>4, <1>5, FS_Union
<1>9. Cardinality(rest \cap here) = 0
  BY <1>7, FS_EmptySet
<1>10. Cardinality(P) \in Nat
  BY <1>1
<1>11. Cardinality(all) = Cardinality(rest) + Cardinality(P)
  BY <1>4, <1>5, <1>6, <1>8, <1>9, <1>10
<1> QED BY <1>4, <1>11 DEF QueuedIn, RestOf, rest, all

\* One list changes.
LEMMA QueuedChange ==
    ASSUME NEW M, NEW ml \in [Queue -> Seq(M)], NEW q \in Queue, NEW l \in Seq(M), NEW S
    PROVE  /\ QueuedIn([ml EXCEPT ![q] = l], S) + Cardinality(PlacesOf(ml[q], S))
                = QueuedIn(ml, S) + Cardinality(PlacesOf(l, S))
           /\ QueuedIn([ml EXCEPT ![q] = l], S) \in Nat /\ QueuedIn(ml, S) \in Nat
<1> DEFINE ml2 == [ml EXCEPT ![q] = l]
<1>1. ml2 \in [Queue -> Seq(M)] /\ ml2[q] = l /\ \A u \in Queue \ {q} : ml2[u] = ml[u]
  OBVIOUS
<1> HIDE DEF ml2
<1>2. RestOf(ml2, q, S) = RestOf(ml, q, S)
  BY <1>1 DEF RestOf
<1>3. Cardinality(RestOf(ml, q, S)) \in Nat /\ QueuedIn(ml, S) = Cardinality(RestOf(ml, q, S)) + Cardinality(PlacesOf(ml[q], S))
  BY QueuedSplit
<1>4. QueuedIn(ml2, S) = Cardinality(RestOf(ml2, q, S)) + Cardinality(PlacesOf(ml2[q], S))
  BY <1>1, QueuedSplit
<1>5. Cardinality(PlacesOf(ml[q], S)) \in Nat /\ Cardinality(PlacesOf(l, S)) \in Nat
  BY PlacesFinite
<1> QED BY <1>1, <1>2, <1>3, <1>4, <1>5 DEF ml2

-----------------------------------------------------------------------------
(***************************************************************************)
(* The inductive invariant.                                                *)
(***************************************************************************)
\* The nesting of the scheduler lock says where a task is in a call.
LockAt(where) == IF where = "run" THEN 0 ELSE IF where \in {"notify", "signal", "wake"} THEN 2 ELSE 1

\* What a call has in its hands.
HandOK(t) ==
    /\ pmsg[t].type # "NONE" => pc[t] \in {"insert", "free"}
    /\ pc[t] \in {"waitsend", "alloc"} => pmsg[t].prio \in MsgPrio
    /\ pc[t] \in {"insert", "free"} => pmsg[t] \in Message
    /\ pc[t] = "insert" => pmsg[t].type # "IRQ" /\ ~pmsg[t].isr
    /\ pc[t] = "signal" => pnt[t] \in Task

\* A task that does not run is outside of a call or in one of the two waits.
TaskOK(t) ==
    /\ lock[t] = LockAt(pc[t])
    /\ pc[t] \in {"run", "waitsend", "waitrcv"} \/ t = cur
    /\ pq[t] \in Queue <=> pc[t] # "run"
    /\ state[t] = "WAIT_MQNOTEMPTY" => pc[t] = "waitrcv"
    /\ state[t] = "WAIT_MQNOTFULL" => pc[t] = "waitsend"
    /\ state[t] = "WAIT_SIG" => pc[t] = "run"
    /\ InMqWait(t) => msgwaitq[t] = pq[t] /\ pterrno[t] = "OK"
    /\ ~InMqWait(t) => msgwaitq[t] = NoQueue
    /\ HandOK(t)

\* A sender that found a place, and has not yet filled it, finds it again.
RoomInv ==
    /\ TasksRespectMaxMsgs
    /\ pc[cur] \in {"alloc", "insert"} => Cardinality(PlacesOf(msglist[pq[cur]], SentByTask)) < MaxMsgs

\* The tasks that take a message, or will wake one that does; and those that
\* fill a place, or will wake one that does.
Takers(q) ==
    {t \in Task : pq[t] = q /\ \/ pc[t] \in {"notify", "signal", "wake"}
                               \/ pc[t] = "waitrcv" /\ state[t] \in {"READY", "PENDING"} /\ pterrno[t] = "OK"}

Fillers(q) ==
    {t \in Task : pq[t] = q /\ \/ pc[t] \in {"alloc", "insert", "free", "wakesnd"}
                               \/ pc[t] = "waitsend" /\ state[t] \in {"READY", "PENDING"} /\ pterrno[t] = "OK"}

Handler(q) == IF isrq = q THEN 1 ELSE 0

TakeOK(q) == Waiting(q, "WAIT_MQNOTEMPTY") # {} => Len(msglist[q]) <= Cardinality(Takers(q)) + Handler(q)

FillOK(q) == Waiting(q, "WAIT_MQNOTFULL") # {} => MaxMsgs - Len(msglist[q]) <= Cardinality(Fillers(q))

WakeInv == \A q \in Queue : TakeOK(q) /\ FillOK(q)

TasksInv == state[cur] = "READY" /\ \A t \in Task : TaskOK(t)

MqInv == TypeOK /\ TasksInv /\ WaitCountsMatch /\ RoomInv /\ MessagesConserved /\ WakeInv

-----------------------------------------------------------------------------
(***************************************************************************)
(* Types, and what the parts of a step do to them.                         *)
(***************************************************************************)
MqStates == {"READY", "PENDING", "WAIT_MQNOTEMPTY", "WAIT_MQNOTFULL", "WAIT_SIG"}
InHands == Message \cup [prio : MsgPrio \cup {0}, type : {"NONE"}, isr : {FALSE}]
CallPoints == {"run", "waitsend", "alloc", "insert", "notify", "signal", "wake", "waitrcv", "free", "wakesnd"}

SchedTypes == cur \in Task /\ state \in [Task -> MqStates] /\ prio = Base /\ lock \in [Task -> 0 .. 2]

QueueTypes ==
    /\ msglist \in [Queue -> Seq(Message)]
    /\ ntpid \in [Queue -> Task \cup {NoTask}]
    /\ msgfree \in Nat /\ msgfreeirq \in Nat /\ panic \in BOOLEAN /\ isrq \in Queue \cup {NoQueue}

CountTypes == nwaitnotempty \in [Queue -> Nat] /\ nwaitnotfull \in [Queue -> Nat]

WaitTypes ==
    /\ msgwaitq \in [Task -> Queue \cup {NoQueue}]
    /\ pterrno \in [Task -> {"OK", "EINTR", "ETIMEDOUT"}]
    /\ waitdog \in [Task -> BOOLEAN]

CallTypes ==
    /\ pc \in [Task -> CallPoints] /\ pq \in [Task -> Queue \cup {NoQueue}]
    /\ pmsg \in [Task -> InHands] /\ pnt \in [Task -> Task \cup {NoTask}]

\* The parts of the type invariant.
LEMMA Types ==
    /\ TypeOK <=> SchedTypes /\ QueueTypes /\ CountTypes /\ WaitTypes /\ CallTypes
    /\ TypeOK' <=> SchedTypes' /\ QueueTypes' /\ CountTypes' /\ WaitTypes' /\ CallTypes'
<1>1. {"READY", "PENDING"} \cup Blocked = MqStates
  BY MqConstants DEF MqStates
<1> QED BY <1>1 DEF TypeOK, SchedTypes, QueueTypes, CountTypes, WaitTypes, CallTypes, InHands, CallPoints

\* The task that runs.
LEMMA RunningFacts ==
    ASSUME MqInv, NEW c, c = cur
    PROVE  /\ c \in Task /\ state[c] = "READY" /\ TaskOK(c) /\ lock[c] = LockAt(pc[c])
           /\ ~InMqWait(c) /\ msgwaitq[c] = NoQueue
           /\ SchedTypes /\ QueueTypes /\ CountTypes /\ WaitTypes /\ CallTypes
           /\ \A t \in Task : TaskOK(t)
<1>1. SchedTypes /\ QueueTypes /\ CountTypes /\ WaitTypes /\ CallTypes
  BY Types DEF MqInv
<1>2. c \in Task /\ state[c] = "READY" /\ \A t \in Task : TaskOK(t)
  BY <1>1 DEF SchedTypes, MqInv, TasksInv
<1> QED BY <1>1, <1>2 DEF TaskOK, InMqWait

\* Empty hands, with and without a priority.
LEMMA NullValues ==
    /\ NoMsg \in InHands /\ NoMsg.type = "NONE" /\ NoQueue \notin Queue /\ NoTask \notin Task
    /\ \A p \in MsgPrio : /\ [NoMsg EXCEPT !.prio = p] \in InHands
                          /\ [NoMsg EXCEPT !.prio = p].type = "NONE"
                          /\ [NoMsg EXCEPT !.prio = p].prio = p
BY MqConstants DEF NoMsg, InHands

\* A step to another point of the call concerns the running task only.
LEMMA GotoEffect ==
    ASSUME CallTypes, NEW c \in Task, c = cur, NEW where \in CallPoints, NEW q \in Queue \cup {NoQueue},
           NEW m \in InHands, NEW n \in Task \cup {NoTask}, Goto(where, q, m, n)
    PROVE  /\ CallTypes'
           /\ pc'[c] = where /\ pq'[c] = q /\ pmsg'[c] = m /\ pnt'[c] = n
           /\ \A t \in Task \ {c} : /\ pc'[t] = pc[t] /\ pq'[t] = pq[t]
                                    /\ pmsg'[t] = pmsg[t] /\ pnt'[t] = pnt[t]
BY DEF CallTypes, Goto

\* A task stays where it is, unless it moves between g_readytorun and
\* g_pendingtasks, or its sleep ends.
Alike(x, y) == x = y \/ (x \in {"READY", "PENDING", "WAIT_SIG"} /\ y \in {"READY", "PENDING"})

\* A task is not concerned by a step.
SameCall(t) == pc'[t] = pc[t] /\ pq'[t] = pq[t] /\ pmsg'[t] = pmsg[t] /\ pnt'[t] = pnt[t] /\ lock'[t] = lock[t]

Keeps(t) ==
    /\ SameCall(t) /\ msgwaitq'[t] = msgwaitq[t] /\ pterrno'[t] = pterrno[t]
    /\ Alike(state[t], state'[t])

\* A wait of a task is over.
WakesUp(t, err) ==
    /\ SameCall(t) /\ InMqWait(t) /\ msgwaitq'[t] = NoQueue /\ pterrno'[t] = err
    /\ state'[t] \in {"READY", "PENDING"}

\* A task that a step leaves alone stays as it should be.
LEMMA KeepsOK ==
    ASSUME NEW t, TaskOK(t), Keeps(t), pc[t] \in {"run", "waitsend", "waitrcv"} \/ t = cur'
    PROVE  TaskOK(t)'
<1>1. HandOK(t)'
  BY DEF TaskOK, HandOK, Keeps, SameCall
<1>2. InMqWait(t)' <=> InMqWait(t)
  BY DEF Keeps, Alike, InMqWait
<1> QED BY <1>1, <1>2 DEF TaskOK, Keeps, SameCall, Alike

\* So does a task whose wait a step ends.
LEMMA WakesUpOK ==
    ASSUME NEW t, TaskOK(t), NEW err, WakesUp(t, err)
    PROVE  TaskOK(t)' /\ pc[t] \in {"waitsend", "waitrcv"}
<1>1. HandOK(t)'
  BY DEF TaskOK, HandOK, WakesUp, SameCall
<1>2. ~InMqWait(t)' /\ pc[t] \in {"waitsend", "waitrcv"}
  BY DEF WakesUp, InMqWait, TaskOK
<1> QED BY <1>1, <1>2 DEF TaskOK, WakesUp, SameCall

-----------------------------------------------------------------------------
(***************************************************************************)
(* The scheduler in a step.                                                *)
(***************************************************************************)
\* The end of a call: the caller may run on or give way.
LEMMA FinishEffect ==
    ASSUME MqInv, NEW c, c = cur, NEW st \in [Task -> MqStates], st[c] = "READY",
           NEW n, lock[c] = n, Finish(st, n), prio' = prio
    PROVE  /\ SchedTypes' /\ state'[cur'] = "READY" /\ CallTypes'
           /\ lock'[c] = 0 /\ pc'[c] = "run" /\ pq'[c] = NoQueue /\ pmsg'[c] = NoMsg /\ pnt'[c] = NoTask
           /\ \A t \in Task : Alike(st[t], state'[t])
           /\ \A t \in Task \ {c} : SameCall(t)
<1>0. c \in Task /\ SchedTypes /\ CallTypes /\ lock \in [Task -> 0 .. 2] /\ prio = Base
  BY RunningFacts DEF SchedTypes
<1>1. lock' = [lock EXCEPT ![c] = lock[c] - n] /\ Goto("run", NoQueue, NoMsg, NoTask)
  BY DEF Finish
<1>2. lock'[c] = 0 /\ lock' \in [Task -> 0 .. 2] /\ \A t \in Task \ {c} : lock'[t] = lock[t]
  <2>1. lock[c] - n = 0
    BY <1>0
  <2> QED BY <1>0, <1>1, <2>1
<1>3. PICK r \in AfterUnlock(c, st, prio, lock') : cur' = r[1] /\ state' = r[2]
  BY DEF Finish, Switch
<1>4. /\ CallTypes' /\ pc'[c] = "run" /\ pq'[c] = NoQueue /\ pmsg'[c] = NoMsg /\ pnt'[c] = NoTask
      /\ \A t \in Task \ {c} : /\ pc'[t] = pc[t] /\ pq'[t] = pq[t]
                               /\ pmsg'[t] = pmsg[t] /\ pnt'[t] = pnt[t]
  <2>1. "run" \in CallPoints /\ NoMsg \in InHands
    BY NullValues DEF CallPoints
  <2> QED BY <1>0, <1>1, <2>1, GotoEffect
<1>5. PICK h \in Task : st[h] \in {"READY", "PENDING"} /\ r = <<h, Merged(st)>>
  <2>1. c \in Runnable(st)
    BY <1>0 DEF Runnable
  <2> QED BY <1>0, <1>2, <1>3, <2>1 DEF AfterUnlock, AfterBlock, Highest, Runnable
<1>6. cur' = h /\ state' = Merged(st)
  BY <1>3, <1>5
<1>7. /\ cur' \in Task /\ state' \in [Task -> MqStates] /\ state'[cur'] = "READY"
      /\ \A t \in Task : Alike(st[t], state'[t])
  BY <1>5, <1>6 DEF Merged, MqStates, Alike
<1> QED BY <1>0, <1>2, <1>4, <1>7 DEF SchedTypes, SameCall

\* up_block_task of the running task.
LEMMA BlockEffect ==
    ASSUME MqInv, NEW c, c = cur, NEW why \in {"WAIT_MQNOTEMPTY", "WAIT_MQNOTFULL", "WAIT_SIG"},
           Switch(AfterBlock([state EXCEPT ![cur] = why], prio)), prio' = prio, lock' \in [Task -> 0 .. 2]
    PROVE  /\ SchedTypes' /\ state'[cur'] = "READY" /\ cur' # c
           /\ state'[c] = why /\ \A t \in Task \ {c} : Alike(state[t], state'[t])
<1>0. c \in Task /\ SchedTypes /\ prio = Base /\ state \in [Task -> MqStates]
  BY RunningFacts DEF SchedTypes
<1> DEFINE st == [state EXCEPT ![c] = why]
<1>1. st \in [Task -> MqStates] /\ st[c] = why /\ \A t \in Task \ {c} : st[t] = state[t]
  BY <1>0 DEF MqStates
<1>2. PICK r \in AfterBlock(st, prio) : cur' = r[1] /\ state' = r[2]
  BY DEF Switch
<1> HIDE DEF st
<1>3. PICK h \in Task : st[h] \in {"READY", "PENDING"} /\ r = <<h, Merged(st)>>
  BY <1>2 DEF AfterBlock, Highest, Runnable
<1>4. cur' = h /\ state' = Merged(st)
  BY <1>2, <1>3
<1>5. /\ cur' \in Task /\ state' \in [Task -> MqStates] /\ state'[cur'] = "READY" /\ cur' # c
      /\ state'[c] = why /\ \A t \in Task \ {c} : Alike(state[t], state'[t])
  BY <1>0, <1>1, <1>3, <1>4 DEF Merged, MqStates, Alike
<1> QED BY <1>0, <1>5 DEF SchedTypes

\* sched_addreadytorun of a task that waits.
LEMMA AddReadyEffect ==
    ASSUME MqInv, NEW c, c = cur, NEW w \in Task, state[w] # "READY"
    PROVE  /\ AddReady(c, state, prio, lock, w) \in [Task -> MqStates]
           /\ AddReady(c, state, prio, lock, w)[c] = "READY"
           /\ AddReady(c, state, prio, lock, w)[w] \in {"READY", "PENDING"}
           /\ \A t \in Task \ {w} : AddReady(c, state, prio, lock, w)[t] = state[t]
           /\ w # c
<1>0. c \in Task /\ SchedTypes /\ state[c] = "READY"
  BY RunningFacts
<1> QED BY <1>0 DEF AddReady, SchedTypes, MqStates

\* The same in a handler, where the task may preempt the running one.
LEMMA ReadyEffect ==
    ASSUME MqInv, NEW c, c = cur, NEW w \in Task, state[w] # "READY", Ready(w), prio' = prio, lock' = lock
    PROVE  /\ SchedTypes' /\ state'[cur'] = "READY" /\ cur' \in {c, w} /\ w # c
           /\ cur' # c => lock[c] = 0
           /\ state'[w] \in {"READY", "PENDING"} /\ \A t \in Task \ {w} : state'[t] = state[t]
<1>0. c \in Task /\ SchedTypes /\ state[c] = "READY"
  BY RunningFacts
<1>1. state' = AddReady(c, state, prio, lock, w) /\ cur' = HeadAfterAdd(c, prio, lock, w)
  BY DEF Ready
<1>2. /\ state' \in [Task -> MqStates] /\ state'[c] = "READY" /\ state'[w] \in {"READY", "PENDING"}
      /\ (\A t \in Task \ {w} : state'[t] = state[t]) /\ w # c
  BY <1>1, AddReadyEffect
<1>3. cur' \in {c, w} /\ (cur' # c => lock[c] = 0 /\ state'[w] = "READY")
  <2>1. lock[c] = 0 => ~(lock[c] > 0)
    OBVIOUS
  <2>2. lock[c] = 0 => AddReady(c, state, prio, lock, w)[w] = "READY"
    BY <1>0, <2>1 DEF AddReady, SchedTypes
  <2> QED BY <1>1, <2>2 DEF HeadAfterAdd
<1> QED BY <1>0, <1>2, <1>3 DEF SchedTypes

-----------------------------------------------------------------------------
(***************************************************************************)
(* The counts of waiting tasks.                                            *)
(***************************************************************************)
MqWaits == {"WAIT_MQNOTEMPTY", "WAIT_MQNOTFULL"}

\* Membership in the waiting tasks of a queue.
LEMMA InWaiting ==
    ASSUME NEW q, NEW why, NEW t
    PROVE  /\ t \in Waiting(q, why) <=> t \in Task /\ state[t] = why /\ msgwaitq[t] = q
           /\ t \in Waiting(q, why)' <=> t \in Task /\ state'[t] = why /\ msgwaitq'[t] = q
BY DEF Waiting

\* The waiting tasks can be counted.
LEMMA WaitingFinite ==
    ASSUME NEW q, NEW why
    PROVE  /\ IsFiniteSet(Waiting(q, why)) /\ IsFiniteSet(Waiting(q, why)')
           /\ Cardinality(Waiting(q, why)) \in Nat /\ Cardinality(Waiting(q, why)') \in Nat
<1>1. Waiting(q, why) \in SUBSET Task /\ Waiting(q, why)' \in SUBSET Task /\ IsFiniteSet(Task)
  BY MqConstants DEF Waiting
<1> QED BY <1>1, FS_Subset, FS_CardinalityType

\* A step that neither starts nor ends a wait keeps the waiting tasks.
LEMMA WaitsSame ==
    ASSUME MqInv, NEW c, c = cur, \A t \in Task \ {c} : Keeps(t), state'[c] \notin MqWaits,
           UNCHANGED <<nwaitnotempty, nwaitnotfull>>
    PROVE  /\ WaitCountsMatch' /\ CountTypes'
           /\ \A q \in Queue, why \in MqWaits : Waiting(q, why)' = Waiting(q, why)
<1>0. state[c] = "READY" /\ CountTypes
  BY RunningFacts
<1>1. ASSUME NEW q \in Queue, NEW why \in MqWaits PROVE Waiting(q, why)' = Waiting(q, why)
  <2>1. ASSUME NEW t \in Task PROVE t \in Waiting(q, why)' <=> t \in Waiting(q, why)
    <3>1. CASE t = c
      BY <1>0, <3>1, InWaiting DEF MqWaits
    <3>2. CASE t # c
      BY <3>2, InWaiting DEF Keeps, Alike, MqWaits
    <3> QED BY <3>1, <3>2
  <2> QED BY <2>1 DEF Waiting
<1>2. WaitCountsMatch'
  BY <1>1 DEF WaitCountsMatch, MqInv, MqWaits
<1> QED BY <1>0, <1>1, <1>2 DEF CountTypes

\* The count of one list, when w leaves.
LEMMA CountLoses ==
    ASSUME NEW why, NEW n \in [Queue -> Nat], NEW w \in Task,
           \A q \in Queue : n[q] = Cardinality(Waiting(q, why)),
           \A q \in Queue : Waiting(q, why)' = Waiting(q, why) \ {w}
    PROVE  /\ WaitCounts(n, w, why) \in [Queue -> Nat]
           /\ \A q \in Queue : WaitCounts(n, w, why)[q] = Cardinality(Waiting(q, why)')
<1>1. ASSUME NEW q \in Queue PROVE WaitCounts(n, w, why)[q] = Cardinality(Waiting(q, why)')
  <2>1. WaitCounts(n, w, why)[q] = IF w \in Waiting(q, why) THEN n[q] - 1 ELSE n[q]
    BY InWaiting DEF WaitCounts
  <2>2. Cardinality(Waiting(q, why) \ {w}) =
          IF w \in Waiting(q, why) THEN Cardinality(Waiting(q, why)) - 1 ELSE Cardinality(Waiting(q, why))
    BY WaitingFinite, FS_RemoveElement
  <2> QED BY <2>1, <2>2
<1>2. \A q \in Queue : Cardinality(Waiting(q, why)') \in Nat
  BY WaitingFinite
<1>3. WaitCounts(n, w, why) = [q \in Queue |-> WaitCounts(n, w, why)[q]]
  BY DEF WaitCounts
<1> QED BY <1>1, <1>2, <1>3

\* A wait that ends takes one task from those of its queue (mq_waitirq, mq_dosend).
LEMMA WaitsLose ==
    ASSUME MqInv, NEW c, c = cur, NEW w \in Task \ {c}, NEW err, WakesUp(w, err),
           \A t \in Task \ {c, w} : Keeps(t), state'[c] \notin MqWaits,
           nwaitnotempty' = WaitCounts(nwaitnotempty, w, "WAIT_MQNOTEMPTY"),
           nwaitnotfull' = WaitCounts(nwaitnotfull, w, "WAIT_MQNOTFULL")
    PROVE  /\ WaitCountsMatch' /\ CountTypes'
           /\ \A q \in Queue, why \in MqWaits : Waiting(q, why)' = Waiting(q, why) \ {w}
<1>0. state[c] = "READY" /\ CountTypes /\ WaitCountsMatch
  BY RunningFacts DEF MqInv
<1>1. ASSUME NEW q \in Queue, NEW why \in MqWaits PROVE Waiting(q, why)' = Waiting(q, why) \ {w}
  <2>1. ASSUME NEW t \in Task PROVE t \in Waiting(q, why)' <=> t \in Waiting(q, why) /\ t # w
    <3>1. CASE t = c
      BY <1>0, <3>1, InWaiting DEF MqWaits
    <3>2. CASE t = w
      BY <3>2, InWaiting DEF WakesUp, MqWaits
    <3>3. CASE t \notin {c, w}
      BY <3>3, InWaiting DEF Keeps, Alike, MqWaits
    <3> QED BY <3>1, <3>2, <3>3
  <2> QED BY <2>1 DEF Waiting
<1>2. /\ nwaitnotempty' \in [Queue -> Nat]
      /\ \A q \in Queue : nwaitnotempty'[q] = Cardinality(Waiting(q, "WAIT_MQNOTEMPTY")')
  <2>1. /\ nwaitnotempty \in [Queue -> Nat]
        /\ \A q \in Queue : nwaitnotempty[q] = Cardinality(Waiting(q, "WAIT_MQNOTEMPTY"))
    BY <1>0 DEF CountTypes, WaitCountsMatch
  <2>2. \A q \in Queue : Waiting(q, "WAIT_MQNOTEMPTY")' = Waiting(q, "WAIT_MQNOTEMPTY") \ {w}
    BY <1>1 DEF MqWaits
  <2> QED BY <2>1, <2>2, CountLoses
<1>3. /\ nwaitnotfull' \in [Queue -> Nat]
      /\ \A q \in Queue : nwaitnotfull'[q] = Cardinality(Waiting(q, "WAIT_MQNOTFULL")')
  <2>1. /\ nwaitnotfull \in [Queue -> Nat]
        /\ \A q \in Queue : nwaitnotfull[q] = Cardinality(Waiting(q, "WAIT_MQNOTFULL"))
    BY <1>0 DEF CountTypes, WaitCountsMatch
  <2>2. \A q \in Queue : Waiting(q, "WAIT_MQNOTFULL")' = Waiting(q, "WAIT_MQNOTFULL") \ {w}
    BY <1>1 DEF MqWaits
  <2> QED BY <2>1, <2>2, CountLoses
<1> QED BY <1>1, <1>2, <1>3 DEF WaitCountsMatch, CountTypes

\* mq_dosend and mq_doreceive take one from the count of their queue.
LEMMA WokenCounts ==
    ASSUME MqInv, NEW q \in Queue, NEW w \in Task
    PROVE  /\ w \in Waiting(q, "WAIT_MQNOTEMPTY") =>
                /\ [nwaitnotempty EXCEPT ![q] = nwaitnotempty[q] - 1] = WaitCounts(nwaitnotempty, w, "WAIT_MQNOTEMPTY")
                /\ nwaitnotfull = WaitCounts(nwaitnotfull, w, "WAIT_MQNOTFULL")
           /\ w \in Waiting(q, "WAIT_MQNOTFULL") =>
                /\ [nwaitnotfull EXCEPT ![q] = nwaitnotfull[q] - 1] = WaitCounts(nwaitnotfull, w, "WAIT_MQNOTFULL")
                /\ nwaitnotempty = WaitCounts(nwaitnotempty, w, "WAIT_MQNOTEMPTY")
<1>1. nwaitnotempty \in [Queue -> Nat] /\ nwaitnotfull \in [Queue -> Nat]
  BY RunningFacts DEF CountTypes
<1>2. ASSUME NEW n \in [Queue -> Nat], NEW why, w \in Waiting(q, why)
      PROVE  [n EXCEPT ![q] = n[q] - 1] = WaitCounts(n, w, why)
  <2>1. state[w] = why /\ msgwaitq[w] = q
    BY <1>2, InWaiting
  <2> QED BY <2>1 DEF WaitCounts
<1>3. ASSUME NEW n \in [Queue -> Nat], NEW why, state[w] # why PROVE n = WaitCounts(n, w, why)
  BY <1>3 DEF WaitCounts
<1>4. /\ w \in Waiting(q, "WAIT_MQNOTEMPTY") => state[w] # "WAIT_MQNOTFULL"
      /\ w \in Waiting(q, "WAIT_MQNOTFULL") => state[w] # "WAIT_MQNOTEMPTY"
  BY InWaiting
<1> QED BY <1>1, <1>2, <1>3, <1>4

\* A wait that starts adds one task to those of its queue (mq_waitsend, mq_waitreceive).
LEMMA WaitsGain ==
    ASSUME MqInv, NEW c, c = cur, NEW q \in Queue, NEW why \in MqWaits,
           \A t \in Task \ {c} : Keeps(t), state'[c] = why, msgwaitq'[c] = q,
           nwaitnotempty' = IF why = "WAIT_MQNOTEMPTY" THEN [nwaitnotempty EXCEPT ![q] = @ + 1] ELSE nwaitnotempty,
           nwaitnotfull' = IF why = "WAIT_MQNOTFULL" THEN [nwaitnotfull EXCEPT ![q] = @ + 1] ELSE nwaitnotfull
    PROVE  /\ WaitCountsMatch' /\ CountTypes'
           /\ \A u \in Queue, x \in MqWaits : u # q \/ x # why => Waiting(u, x)' = Waiting(u, x)
<1>0. c \in Task /\ state[c] = "READY" /\ CountTypes /\ WaitCountsMatch
  BY RunningFacts DEF MqInv
<1>1. ASSUME NEW u \in Queue, NEW x \in MqWaits
      PROVE  Waiting(u, x)' = IF u = q /\ x = why THEN Waiting(u, x) \cup {c} ELSE Waiting(u, x)
  <2>1. ASSUME NEW t \in Task PROVE t \in Waiting(u, x)' <=> t \in Waiting(u, x) \/ (t = c /\ u = q /\ x = why)
    <3>1. CASE t = c
      BY <1>0, <3>1, InWaiting DEF MqWaits
    <3>2. CASE t # c
      BY <3>2, InWaiting DEF Keeps, Alike, MqWaits
    <3> QED BY <3>1, <3>2
  <2> QED BY <1>0, <2>1 DEF Waiting
<1>2. c \notin Waiting(q, why) /\ Cardinality(Waiting(q, why) \cup {c}) = Cardinality(Waiting(q, why)) + 1
  <2>1. c \notin Waiting(q, why)
    BY <1>0, InWaiting DEF MqWaits
  <2> QED BY <2>1, WaitingFinite, FS_AddElement
<1>3. ASSUME NEW u \in Queue PROVE nwaitnotempty'[u] = Cardinality(Waiting(u, "WAIT_MQNOTEMPTY")')
  <2>1. nwaitnotempty \in [Queue -> Nat] /\ nwaitnotempty[u] = Cardinality(Waiting(u, "WAIT_MQNOTEMPTY"))
    BY <1>0 DEF CountTypes, WaitCountsMatch
  <2>2. nwaitnotempty'[u] = IF u = q /\ why = "WAIT_MQNOTEMPTY" THEN nwaitnotempty[u] + 1 ELSE nwaitnotempty[u]
    BY <2>1
  <2> QED BY <1>1, <1>2, <2>1, <2>2 DEF MqWaits
<1>4. ASSUME NEW u \in Queue PROVE nwaitnotfull'[u] = Cardinality(Waiting(u, "WAIT_MQNOTFULL")')
  <2>1. nwaitnotfull \in [Queue -> Nat] /\ nwaitnotfull[u] = Cardinality(Waiting(u, "WAIT_MQNOTFULL"))
    BY <1>0 DEF CountTypes, WaitCountsMatch
  <2>2. nwaitnotfull'[u] = IF u = q /\ why = "WAIT_MQNOTFULL" THEN nwaitnotfull[u] + 1 ELSE nwaitnotfull[u]
    BY <2>1
  <2> QED BY <1>1, <1>2, <2>1, <2>2 DEF MqWaits
<1>5. CountTypes'
  BY <1>0 DEF CountTypes
<1> QED BY <1>1, <1>3, <1>4, <1>5 DEF WaitCountsMatch

-----------------------------------------------------------------------------
(***************************************************************************)
(* The tasks that take messages and fill places.                           *)
(***************************************************************************)
LEMMA InServing ==
    ASSUME NEW q, NEW t
    PROVE  /\ t \in Takers(q) <=>
                /\ t \in Task /\ pq[t] = q
                /\ \/ pc[t] \in {"notify", "signal", "wake"}
                   \/ pc[t] = "waitrcv" /\ state[t] \in {"READY", "PENDING"} /\ pterrno[t] = "OK"
           /\ t \in Takers(q)' <=>
                /\ t \in Task /\ pq'[t] = q
                /\ \/ pc'[t] \in {"notify", "signal", "wake"}
                   \/ pc'[t] = "waitrcv" /\ state'[t] \in {"READY", "PENDING"} /\ pterrno'[t] = "OK"
           /\ t \in Fillers(q) <=>
                /\ t \in Task /\ pq[t] = q
                /\ \/ pc[t] \in {"alloc", "insert", "free", "wakesnd"}
                   \/ pc[t] = "waitsend" /\ state[t] \in {"READY", "PENDING"} /\ pterrno[t] = "OK"
           /\ t \in Fillers(q)' <=>
                /\ t \in Task /\ pq'[t] = q
                /\ \/ pc'[t] \in {"alloc", "insert", "free", "wakesnd"}
                   \/ pc'[t] = "waitsend" /\ state'[t] \in {"READY", "PENDING"} /\ pterrno'[t] = "OK"
BY DEF Takers, Fillers

\* A task that a step leaves alone takes and fills as before.
LEMMA KeepsServing ==
    ASSUME NEW q, NEW t \in Task, TaskOK(t), Keeps(t)
    PROVE  (t \in Takers(q)' <=> t \in Takers(q)) /\ (t \in Fillers(q)' <=> t \in Fillers(q))
BY InServing DEF Keeps, SameCall, Alike, TaskOK

\* A task that is woken without an error takes a message or fills a place.
LEMMA WakesServing ==
    ASSUME NEW q, NEW t \in Task, NEW err, TaskOK(t), WakesUp(t, err)
    PROVE  /\ t \notin Takers(q) /\ t \notin Fillers(q)
           /\ t \in Takers(q)' <=> pq[t] = q /\ state[t] = "WAIT_MQNOTEMPTY" /\ err = "OK"
           /\ t \in Fillers(q)' <=> pq[t] = q /\ state[t] = "WAIT_MQNOTFULL" /\ err = "OK"
BY InServing DEF WakesUp, SameCall, TaskOK, InMqWait

\* The takers and the fillers can be counted.
LEMMA ServingFinite ==
    ASSUME NEW q
    PROVE  /\ IsFiniteSet(Takers(q)) /\ IsFiniteSet(Takers(q)') /\ IsFiniteSet(Fillers(q)) /\ IsFiniteSet(Fillers(q)')
<1>1. Takers(q) \in SUBSET Task /\ Takers(q)' \in SUBSET Task /\ IsFiniteSet(Task)
  BY MqConstants DEF Takers
<1>2. Fillers(q) \in SUBSET Task /\ Fillers(q)' \in SUBSET Task
  BY DEF Fillers
<1> QED BY <1>1, <1>2, FS_Subset

\* A set that grows, except that x may leave it; and y joins it.
LEMMA Sizes ==
    ASSUME NEW S, NEW T, IsFiniteSet(S), IsFiniteSet(T)
    PROVE  /\ Cardinality(S) \in Nat /\ Cardinality(T) \in Nat
           /\ S \subseteq T => Cardinality(S) <= Cardinality(T)
           /\ \A x : S \ {x} \subseteq T => Cardinality(S) - 1 <= Cardinality(T)
           /\ \A y : S \subseteq T /\ y \in T /\ y \notin S => Cardinality(S) + 1 <= Cardinality(T)
           /\ \A x, y : S \ {x} \subseteq T /\ y \in T /\ y \notin S => Cardinality(S) <= Cardinality(T)
<1>1. Cardinality(S) \in Nat /\ Cardinality(T) \in Nat
  BY FS_CardinalityType
<1>2. ASSUME NEW A, A \subseteq T PROVE Cardinality(A) <= Cardinality(T) /\ IsFiniteSet(A)
  <2>1. A \in SUBSET T
    BY <1>2
  <2> QED BY <2>1, FS_Subset
<1>3. ASSUME NEW x PROVE /\ IsFiniteSet(S \ {x}) /\ Cardinality(S \ {x}) \in Nat
                         /\ Cardinality(S) - 1 <= Cardinality(S \ {x})
  <2>1. /\ IsFiniteSet(S \ {x})
        /\ Cardinality(S \ {x}) = IF x \in S THEN Cardinality(S) - 1 ELSE Cardinality(S)
    BY FS_RemoveElement
  <2>2. Cardinality(S \ {x}) \in Nat
    BY <2>1, FS_CardinalityType
  <2> QED BY <1>1, <2>1, <2>2
<1>4. ASSUME NEW A, IsFiniteSet(A), NEW y, A \subseteq T, y \in T, y \notin A
      PROVE  Cardinality(A) + 1 <= Cardinality(T)
  <2>1. Cardinality(A \cup {y}) = Cardinality(A) + 1
    BY <1>4, FS_AddElement
  <2>2. A \cup {y} \subseteq T
    BY <1>4
  <2>3. Cardinality(A \cup {y}) <= Cardinality(T)
    BY <1>2, <2>2
  <2> QED BY <2>1, <2>3
<1>5. ASSUME NEW x, S \ {x} \subseteq T PROVE Cardinality(S) - 1 <= Cardinality(T)
  <2>1. Cardinality(S \ {x}) <= Cardinality(T)
    BY <1>2, <1>5
  <2>2. Cardinality(S \ {x}) \in Nat /\ Cardinality(S) - 1 <= Cardinality(S \ {x})
    BY <1>3
  <2> QED BY <1>1, <2>1, <2>2
<1>6. ASSUME NEW x, NEW y, S \ {x} \subseteq T, y \in T, y \notin S PROVE Cardinality(S) <= Cardinality(T)
  <2>1. Cardinality(S \ {x}) + 1 <= Cardinality(T)
    BY <1>3, <1>4, <1>6
  <2> QED BY <1>1, <1>3, <2>1
<1> QED BY <1>1, <1>2, <1>4, <1>5, <1>6

-----------------------------------------------------------------------------
(***************************************************************************)
(* The parts of the invariant after a step.                                *)
(***************************************************************************)
\* All but the lists and the pools.
CallersOK == SchedTypes /\ CountTypes /\ WaitTypes /\ CallTypes /\ TasksInv /\ WaitCountsMatch

Conserved ==
    /\ msgfree + Queued("FIXED") + InHand("FIXED") = NFixed
    /\ msgfreeirq + Queued("IRQ") + InHand("IRQ") = NIrq

\* The invariant after a step, from its effects on each queue and task.
LEMMA Conclude ==
    ASSUME QueueTypes', CallersOK', RoomInv', Conserved', \A q \in Queue : TakeOK(q)' /\ FillOK(q)'
    PROVE  MqInv'
<1>1. TypeOK'
  BY Types DEF CallersOK
<1>2. MessagesConserved'
  BY <1>1 DEF MessagesConserved, Conserved
<1>3. WakeInv'
  BY DEF WakeInv
<1> QED BY <1>1, <1>2, <1>3 DEF MqInv, CallersOK

\* A queue after a step, counted.
LEMMA TakeStep ==
    ASSUME MqInv, QueueTypes', NEW q \in Queue, Waiting(q, "WAIT_MQNOTEMPTY")' \subseteq Waiting(q, "WAIT_MQNOTEMPTY"),
           Len(msglist'[q]) + Cardinality(Takers(q)) + Handler(q) <= Len(msglist[q]) + Cardinality(Takers(q)') + Handler(q)'
    PROVE  TakeOK(q)'
<1>1. Cardinality(Takers(q)) \in Nat /\ Cardinality(Takers(q)') \in Nat
  BY ServingFinite, FS_CardinalityType
<1>2. TakeOK(q) /\ Len(msglist[q]) \in Nat
  BY RunningFacts DEF MqInv, WakeInv, QueueTypes
<1>3. Handler(q)' \in Nat /\ Handler(q) \in Nat
  BY DEF Handler
<1>4. Len(msglist'[q]) \in Nat
  BY DEF QueueTypes
<1> QED BY <1>1, <1>2, <1>3, <1>4 DEF TakeOK

\* The fillers stay enough when no place gets free without one more of them.
LEMMA FillStep ==
    ASSUME MqInv, QueueTypes', NEW q \in Queue, Waiting(q, "WAIT_MQNOTFULL")' \subseteq Waiting(q, "WAIT_MQNOTFULL"),
           Len(msglist[q]) + Cardinality(Fillers(q)) <= Len(msglist'[q]) + Cardinality(Fillers(q)')
    PROVE  FillOK(q)'
<1>1. Cardinality(Fillers(q)) \in Nat /\ Cardinality(Fillers(q)') \in Nat
  BY ServingFinite, FS_CardinalityType
<1>2. FillOK(q) /\ Len(msglist[q]) \in Nat /\ MaxMsgs \in Nat
  BY RunningFacts, MqConstants DEF MqInv, WakeInv, QueueTypes
<1>3. Len(msglist'[q]) \in Nat
  BY DEF QueueTypes
<1> QED BY <1>1, <1>2, <1>3 DEF FillOK

\* The other tasks serve as before.
LEMMA OthersServe ==
    ASSUME MqInv, NEW q, NEW c, NEW w, \A t \in Task \ {c, w} : Keeps(t)
    PROVE  \A t \in Task \ {c, w} : (t \in Takers(q)' <=> t \in Takers(q)) /\ (t \in Fillers(q)' <=> t \in Fillers(q))
<1>1. \A t \in Task : TaskOK(t)
  BY DEF MqInv, TasksInv
<1> QED BY <1>1, KeepsServing

\* A count that is not positive means that nobody waits.
LEMMA NoneWait ==
    ASSUME MqInv, NEW q \in Queue
    PROVE  /\ nwaitnotempty[q] = 0 => Waiting(q, "WAIT_MQNOTEMPTY") = {}
           /\ nwaitnotfull[q] = 0 => Waiting(q, "WAIT_MQNOTFULL") = {}
<1>1. /\ nwaitnotempty[q] = Cardinality(Waiting(q, "WAIT_MQNOTEMPTY"))
      /\ nwaitnotfull[q] = Cardinality(Waiting(q, "WAIT_MQNOTFULL"))
  BY DEF MqInv, WaitCountsMatch
<1> QED BY <1>1, WaitingFinite, FS_EmptySet

\* Only the caller moves, and it does not wait.
LEMMA CallerMoves ==
    ASSUME MqInv, NEW c, c = cur, SchedTypes', WaitTypes', CallTypes', state'[cur'] = "READY",
           state'[c] \notin MqWaits, UNCHANGED <<nwaitnotempty, nwaitnotfull>>,
           \A t \in Task \ {c} : Keeps(t), TaskOK(c)'
    PROVE  /\ CallersOK'
           /\ \A q \in Queue, why \in MqWaits : Waiting(q, why)' = Waiting(q, why)
           /\ \A q : Takers(q) \ {c} \subseteq Takers(q)' /\ Fillers(q) \ {c} \subseteq Fillers(q)'
<1>0. c \in Task /\ \A t \in Task : TaskOK(t)
  BY RunningFacts
<1>1. /\ WaitCountsMatch' /\ CountTypes'
      /\ \A q \in Queue, why \in MqWaits : Waiting(q, why)' = Waiting(q, why)
  BY WaitsSame
<1>2. \A t \in Task : TaskOK(t)'
  <2>1. ASSUME NEW t \in Task, t # c PROVE TaskOK(t)'
    <3>1. pc[t] \in {"run", "waitsend", "waitrcv"}
      BY <1>0, <2>1 DEF TaskOK
    <3> QED BY <1>0, <2>1, <3>1, KeepsOK
  <2> QED BY <2>1
<1>3. TasksInv'
  BY <1>2 DEF TasksInv
<1>4. ASSUME NEW q PROVE Takers(q) \ {c} \subseteq Takers(q)' /\ Fillers(q) \ {c} \subseteq Fillers(q)'
  <2>1. \A t \in Task \ {c, c} : (t \in Takers(q)' <=> t \in Takers(q)) /\ (t \in Fillers(q)' <=> t \in Fillers(q))
    BY OthersServe
  <2>2. Takers(q) \subseteq Task /\ Fillers(q) \subseteq Task
    BY DEF Takers, Fillers
  <2> QED BY <2>1, <2>2
<1> QED BY <1>1, <1>3, <1>4 DEF CallersOK

\* The caller waits.
LEMMA CallerBlocks ==
    ASSUME MqInv, NEW c, c = cur, SchedTypes', WaitTypes', CallTypes', state'[cur'] = "READY",
           NEW q \in Queue, NEW why \in MqWaits,
           \A t \in Task \ {c} : Keeps(t), TaskOK(c)', state'[c] = why, msgwaitq'[c] = q,
           nwaitnotempty' = IF why = "WAIT_MQNOTEMPTY" THEN [nwaitnotempty EXCEPT ![q] = @ + 1] ELSE nwaitnotempty,
           nwaitnotfull' = IF why = "WAIT_MQNOTFULL" THEN [nwaitnotfull EXCEPT ![q] = @ + 1] ELSE nwaitnotfull
    PROVE  /\ CallersOK'
           /\ \A u \in Queue, x \in MqWaits : u # q \/ x # why => Waiting(u, x)' = Waiting(u, x)
           /\ \A u : Takers(u) \ {c} \subseteq Takers(u)' /\ Fillers(u) \ {c} \subseteq Fillers(u)'
<1>0. c \in Task /\ \A t \in Task : TaskOK(t)
  BY RunningFacts
<1>1. /\ WaitCountsMatch' /\ CountTypes'
      /\ \A u \in Queue, x \in MqWaits : u # q \/ x # why => Waiting(u, x)' = Waiting(u, x)
  BY WaitsGain
<1>2. \A t \in Task : TaskOK(t)'
  <2>1. ASSUME NEW t \in Task, t # c PROVE TaskOK(t)'
    <3>1. pc[t] \in {"run", "waitsend", "waitrcv"}
      BY <1>0, <2>1 DEF TaskOK
    <3> QED BY <1>0, <2>1, <3>1, KeepsOK
  <2> QED BY <2>1
<1>3. TasksInv'
  BY <1>2 DEF TasksInv
<1>4. ASSUME NEW u PROVE Takers(u) \ {c} \subseteq Takers(u)' /\ Fillers(u) \ {c} \subseteq Fillers(u)'
  <2>1. \A t \in Task \ {c, c} : (t \in Takers(u)' <=> t \in Takers(u)) /\ (t \in Fillers(u)' <=> t \in Fillers(u))
    BY OthersServe
  <2>2. Takers(u) \subseteq Task /\ Fillers(u) \subseteq Task
    BY DEF Takers, Fillers
  <2> QED BY <2>1, <2>2
<1> QED BY <1>1, <1>3, <1>4 DEF CallersOK

\* The caller, or a handler, ends the wait of w.
LEMMA WaiterWakes ==
    ASSUME MqInv, NEW c, c = cur, SchedTypes', WaitTypes', CallTypes', state'[cur'] = "READY",
           state'[c] \notin MqWaits, NEW w \in Task \ {c}, NEW err, WakesUp(w, err),
           nwaitnotempty' = WaitCounts(nwaitnotempty, w, "WAIT_MQNOTEMPTY"),
           nwaitnotfull' = WaitCounts(nwaitnotfull, w, "WAIT_MQNOTFULL"),
           \A t \in Task \ {c, w} : Keeps(t), TaskOK(c)'
    PROVE  /\ CallersOK'
           /\ \A q \in Queue, why \in MqWaits : Waiting(q, why)' = Waiting(q, why) \ {w}
           /\ \A q : Takers(q) \ {c} \subseteq Takers(q)' /\ Fillers(q) \ {c} \subseteq Fillers(q)'
<1>0. c \in Task /\ \A t \in Task : TaskOK(t)
  BY RunningFacts
<1>1. /\ WaitCountsMatch' /\ CountTypes'
      /\ \A q \in Queue, why \in MqWaits : Waiting(q, why)' = Waiting(q, why) \ {w}
  BY WaitsLose
<1>2. \A t \in Task : TaskOK(t)'
  <2>1. ASSUME NEW t \in Task, t \notin {c, w} PROVE TaskOK(t)'
    <3>1. pc[t] \in {"run", "waitsend", "waitrcv"}
      BY <1>0, <2>1 DEF TaskOK
    <3> QED BY <1>0, <2>1, <3>1, KeepsOK
  <2>2. TaskOK(w)'
    BY <1>0, WakesUpOK
  <2> QED BY <2>1, <2>2
<1>3. TasksInv'
  BY <1>2 DEF TasksInv
<1>4. ASSUME NEW q PROVE Takers(q) \ {c} \subseteq Takers(q)' /\ Fillers(q) \ {c} \subseteq Fillers(q)'
  <2>1. \A t \in Task \ {c, w} : (t \in Takers(q)' <=> t \in Takers(q)) /\ (t \in Fillers(q)' <=> t \in Fillers(q))
    BY OthersServe
  <2>2. Takers(q) \subseteq Task /\ Fillers(q) \subseteq Task
    BY DEF Takers, Fillers
  <2>3. w \notin Takers(q) /\ w \notin Fillers(q)
    BY <1>0, WakesServing
  <2> QED BY <2>1, <2>2, <2>3
<1> QED BY <1>1, <1>3, <1>4 DEF CallersOK

-----------------------------------------------------------------------------
(***************************************************************************)
(* Messages: only the running task has one in its hands.                   *)
(***************************************************************************)
Held(m, type) == IF m.type = type THEN 1 ELSE 0

\* Only the running task has a message in its hands.
LEMMA Hand ==
    ASSUME MqInv, NEW c, c = cur, \A t \in Task \ {c} : pmsg'[t] = pmsg[t], NEW type \in {"FIXED", "IRQ"}
    PROVE  InHand(type) = Held(pmsg[c], type) /\ InHand(type)' = Held(pmsg'[c], type)
<1>0. c \in Task /\ \A t \in Task : TaskOK(t)
  BY RunningFacts
<1>1. ASSUME NEW t \in Task \ {c} PROVE pmsg[t].type # type /\ pmsg'[t].type # type
  BY <1>0, <1>1 DEF TaskOK, HandOK
<1>2. /\ {t \in Task : pmsg[t].type = type} = IF pmsg[c].type = type THEN {c} ELSE {}
      /\ {t \in Task : pmsg'[t].type = type} = IF pmsg'[c].type = type THEN {c} ELSE {}
  BY <1>0, <1>1
<1>3. Cardinality({c}) = 1 /\ Cardinality({}) = 0
  BY FS_Singleton, FS_EmptySet
<1> QED BY <1>2, <1>3 DEF InHand, Held

\* The places of every kind of message are all of the list.
LEMMA QueuedAll ==
    ASSUME NEW type
    PROVE  Queued(type) = QueuedIn(msglist, OfType(type)) /\ Queued(type)' = QueuedIn(msglist', OfType(type))
BY DEF Queued, QueuedIn, OfType, Message

\* Messages are conserved if a step keeps the sum of pool, queues and hands.
LEMMA StockKept ==
    ASSUME MqInv, NEW c, c = cur, \A t \in Task \ {c} : pmsg'[t] = pmsg[t],
           msgfree' + QueuedIn(msglist', OfType("FIXED")) + Held(pmsg'[c], "FIXED")
             = msgfree + QueuedIn(msglist, OfType("FIXED")) + Held(pmsg[c], "FIXED"),
           msgfreeirq' + QueuedIn(msglist', OfType("IRQ")) + Held(pmsg'[c], "IRQ")
             = msgfreeirq + QueuedIn(msglist, OfType("IRQ")) + Held(pmsg[c], "IRQ")
    PROVE  Conserved'
<1>1. Conserved
  BY DEF MqInv, MessagesConserved, Conserved
<1> QED BY <1>1, Hand, QueuedAll DEF Conserved

\* Nothing happens to the messages.
LEMMA StockSame ==
    ASSUME MqInv, NEW c, c = cur, \A t \in Task \ {c} : pmsg'[t] = pmsg[t],
           pmsg'[c].type = pmsg[c].type \/ {pmsg'[c].type, pmsg[c].type} \cap {"FIXED", "IRQ"} = {},
           UNCHANGED <<msglist, msgfree, msgfreeirq>>
    PROVE  Conserved' /\ TasksRespectMaxMsgs'
<1>1. /\ Held(pmsg'[c], "FIXED") = Held(pmsg[c], "FIXED")
      /\ Held(pmsg'[c], "IRQ") = Held(pmsg[c], "IRQ")
  BY DEF Held
<1>2. Conserved'
  BY <1>1, StockKept
<1>3. TasksRespectMaxMsgs'
  BY DEF MqInv, RoomInv, TasksRespectMaxMsgs
<1> QED BY <1>2, <1>3

\* The messages of all queues can be counted.
LEMMA QueuedNat ==
    ASSUME MqInv, NEW S
    PROVE  /\ QueuedIn(msglist, S) \in Nat
           /\ \A q \in Queue : Cardinality(PlacesOf(msglist[q], S)) \in Nat /\ Cardinality(PlacesOf(msglist[q], S)) <= Len(msglist[q])
<1>1. msglist \in [Queue -> Seq(Message)]
  BY RunningFacts DEF QueueTypes
<1>2. \A q \in Queue : Cardinality(PlacesOf(msglist[q], S)) \in Nat /\ Cardinality(PlacesOf(msglist[q], S)) <= Len(msglist[q])
  BY <1>1, PlacesFinite
<1>3. QueuedIn(msglist, S) \in Nat
  <2>1. CASE Queue = {}
    BY <2>1, FS_EmptySet DEF QueuedIn
  <2>2. CASE Queue # {}
    <3>1. PICK q \in Queue : TRUE
      BY <2>2
    <3>2. msglist[q] \in Seq(Message)
      BY <1>1
    <3> QED BY <1>1, <3>2, QueuedChange
  <2> QED BY <2>1, <2>2
<1> QED BY <1>2, <1>3

\* mq_dosend puts one message into a list.
LEMMA InsertedEffect ==
    ASSUME MqInv, NEW q \in Queue, NEW m \in Message, msglist' = [msglist EXCEPT ![q] = Inserted(msglist[q], m)]
    PROVE  /\ msglist' \in [Queue -> Seq(Message)]
           /\ Len(msglist'[q]) = Len(msglist[q]) + 1 /\ \A u \in Queue \ {q} : msglist'[u] = msglist[u]
           /\ \A S : /\ QueuedIn(msglist', S) = QueuedIn(msglist, S) + (IF m \in S THEN 1 ELSE 0)
                     /\ Cardinality(PlacesOf(msglist'[q], S)) =
                          Cardinality(PlacesOf(msglist[q], S)) + (IF m \in S THEN 1 ELSE 0)
<1> DEFINE s == msglist[q]
           B == {i \in DOMAIN s : m.prio <= s[i].prio}
           k == Cardinality(B)
           l == Inserted(s, m)
<1>1. msglist \in [Queue -> Seq(Message)] /\ s \in Seq(Message) /\ Len(s) \in Nat
  BY RunningFacts DEF QueueTypes
<1>2. k \in Nat /\ k <= Len(s)
  <2>1. B \in SUBSET (1 .. Len(s))
    BY <1>1
  <2>2. IsFiniteSet(1 .. Len(s)) /\ Cardinality(1 .. Len(s)) = IF 1 > Len(s) THEN 0 ELSE Len(s) - 1 + 1
    BY <1>1, FS_Interval
  <2>3. Cardinality(1 .. Len(s)) = Len(s)
    BY <1>1, <2>2
  <2> HIDE DEF B
  <2>4. IsFiniteSet(B) /\ Cardinality(B) <= Cardinality(1 .. Len(s))
    BY <2>1, <2>2, FS_Subset
  <2>5. Cardinality(B) \in Nat
    BY <2>4, FS_CardinalityType
  <2> QED BY <2>3, <2>4, <2>5
<1>3. l = InsertAt(s, k + 1, m)
  BY DEF Inserted, AtLeast
<1> HIDE DEF k, l
<1>4. k + 1 \in 1 .. Len(s) + 1
  BY <1>1, <1>2
<1>5. l \in Seq(Message) /\ Len(l) = Len(s) + 1
  BY <1>1, <1>3, <1>4, InsertAtProperties
<1>6. \A S : Cardinality(PlacesOf(l, S)) = Cardinality(PlacesOf(s, S)) + (IF m \in S THEN 1 ELSE 0)
  BY <1>1, <1>3, <1>4, PlacesInsert
<1>7. msglist' = [msglist EXCEPT ![q] = l]
  BY DEF l
<1>8. /\ msglist' \in [Queue -> Seq(Message)] /\ msglist'[q] = l /\ \A u \in Queue \ {q} : msglist'[u] = msglist[u]
  BY <1>1, <1>5, <1>7
<1>9. ASSUME NEW S PROVE QueuedIn(msglist', S) = QueuedIn(msglist, S) + (IF m \in S THEN 1 ELSE 0)
  <2>1. /\ QueuedIn(msglist', S) + Cardinality(PlacesOf(s, S)) = QueuedIn(msglist, S) + Cardinality(PlacesOf(l, S))
        /\ QueuedIn(msglist', S) \in Nat /\ QueuedIn(msglist, S) \in Nat
    <3>1. /\ QueuedIn([msglist EXCEPT ![q] = l], S) + Cardinality(PlacesOf(msglist[q], S))
               = QueuedIn(msglist, S) + Cardinality(PlacesOf(l, S))
          /\ QueuedIn([msglist EXCEPT ![q] = l], S) \in Nat /\ QueuedIn(msglist, S) \in Nat
      BY <1>1, <1>5, QueuedChange, Zenon
    <3> QED BY <1>7, <3>1
  <2>2. Cardinality(PlacesOf(s, S)) \in Nat
    BY <1>1, PlacesFinite
  <2> QED BY <1>6, <2>1, <2>2
<1> QED BY <1>5, <1>6, <1>8, <1>9

\* mq_waitreceive takes the first message of a list.
LEMMA TakenEffect ==
    ASSUME MqInv, NEW q \in Queue, msglist[q] # <<>>, msglist' = [msglist EXCEPT ![q] = Tail(msglist[q])]
    PROVE  /\ msglist' \in [Queue -> Seq(Message)] /\ Head(msglist[q]) \in Message
           /\ Len(msglist'[q]) = Len(msglist[q]) - 1 /\ \A u \in Queue \ {q} : msglist'[u] = msglist[u]
           /\ \A S : /\ QueuedIn(msglist', S) + (IF Head(msglist[q]) \in S THEN 1 ELSE 0) = QueuedIn(msglist, S)
                     /\ Cardinality(PlacesOf(msglist'[q], S)) <= Cardinality(PlacesOf(msglist[q], S))
<1> DEFINE s == msglist[q]
           l == Tail(s)
           h == Head(s)
<1>1. msglist \in [Queue -> Seq(Message)] /\ s \in Seq(Message) /\ Len(s) \in Nat
  BY RunningFacts DEF QueueTypes
<1>2. h \in Message /\ l \in Seq(Message) /\ Len(l) = Len(s) - 1
  BY <1>1, PlacesTail
<1>3. \A S : Cardinality(PlacesOf(s, S)) = Cardinality(PlacesOf(l, S)) + (IF h \in S THEN 1 ELSE 0)
  BY <1>1, PlacesTail
<1>4. msglist' = [msglist EXCEPT ![q] = l]
  OBVIOUS
<1> HIDE DEF l, h
<1>5. /\ msglist' \in [Queue -> Seq(Message)] /\ msglist'[q] = l /\ \A u \in Queue \ {q} : msglist'[u] = msglist[u]
  BY <1>1, <1>2, <1>4
<1>6. ASSUME NEW S PROVE /\ QueuedIn(msglist', S) + (IF h \in S THEN 1 ELSE 0) = QueuedIn(msglist, S)
                         /\ Cardinality(PlacesOf(l, S)) <= Cardinality(PlacesOf(s, S))
  <2>1. /\ QueuedIn(msglist', S) + Cardinality(PlacesOf(s, S)) = QueuedIn(msglist, S) + Cardinality(PlacesOf(l, S))
        /\ QueuedIn(msglist', S) \in Nat /\ QueuedIn(msglist, S) \in Nat
    <3>1. /\ QueuedIn([msglist EXCEPT ![q] = l], S) + Cardinality(PlacesOf(msglist[q], S))
               = QueuedIn(msglist, S) + Cardinality(PlacesOf(l, S))
          /\ QueuedIn([msglist EXCEPT ![q] = l], S) \in Nat /\ QueuedIn(msglist, S) \in Nat
      BY <1>1, <1>2, QueuedChange, Zenon
    <3> QED BY <1>4, <3>1
  <2>2. Cardinality(PlacesOf(s, S)) \in Nat /\ Cardinality(PlacesOf(l, S)) \in Nat
    BY <1>1, <1>2, PlacesFinite
  <2> QED BY <1>3, <2>1, <2>2
<1> QED BY <1>2, <1>5, <1>6 DEF h

\* A task that is switched to has no place reserved.
LEMMA RoomKept ==
    ASSUME MqInv, NEW c, c = cur, cur' \in Task, \A t \in Task \ {c} : SameCall(t), TasksRespectMaxMsgs',
           pc'[c] \in {"alloc", "insert"} => Cardinality(PlacesOf(msglist'[pq'[c]], SentByTask)) < MaxMsgs
    PROVE  RoomInv'
<1>1. \A t \in Task : TaskOK(t)
  BY RunningFacts
<1>2. CASE cur' = c
  BY <1>2 DEF RoomInv, SentByTask, Message, PlacesOf
<1>3. CASE cur' # c
  <2>1. pc[cur'] \in {"run", "waitsend", "waitrcv"} /\ pc'[cur'] = pc[cur']
    BY <1>1, <1>3 DEF TaskOK, SameCall
  <2> QED BY <2>1 DEF RoomInv
<1> QED BY <1>2, <1>3

-----------------------------------------------------------------------------
(***************************************************************************)
(* The steps of the caller that leave the lists and the waits alone.       *)
(***************************************************************************)
LEMMA QuietStep ==
    ASSUME MqInv, NEW c, c = cur, SchedTypes', WaitTypes', CallTypes', QueueTypes', state'[cur'] = "READY",
           state'[c] \notin MqWaits, UNCHANGED <<nwaitnotempty, nwaitnotfull, msglist, isrq>>,
           \A t \in Task \ {c} : Keeps(t), TaskOK(c)', Conserved',
           pc'[c] \in {"alloc", "insert"} => Cardinality(PlacesOf(msglist[pq'[c]], SentByTask)) < MaxMsgs,
           \A q \in Queue : c \in Takers(q) => c \in Takers(q)' \/ Waiting(q, "WAIT_MQNOTEMPTY") = {},
           \A q \in Queue : c \in Fillers(q) => c \in Fillers(q)' \/ Waiting(q, "WAIT_MQNOTFULL") = {}
    PROVE  MqInv'
<1>1. /\ CallersOK'
      /\ \A q \in Queue, why \in MqWaits : Waiting(q, why)' = Waiting(q, why)
      /\ \A q : Takers(q) \ {c} \subseteq Takers(q)' /\ Fillers(q) \ {c} \subseteq Fillers(q)'
  BY CallerMoves
<1>2. RoomInv'
  <2>1. TasksRespectMaxMsgs'
    BY DEF MqInv, RoomInv, TasksRespectMaxMsgs
  <2>2. cur' \in Task /\ \A t \in Task \ {c} : SameCall(t)
    BY DEF SchedTypes, Keeps
  <2> QED BY <2>1, <2>2, RoomKept
<1>3. ASSUME NEW q \in Queue PROVE TakeOK(q)' /\ FillOK(q)'
  <2>0. /\ Waiting(q, "WAIT_MQNOTEMPTY")' = Waiting(q, "WAIT_MQNOTEMPTY")
        /\ Waiting(q, "WAIT_MQNOTFULL")' = Waiting(q, "WAIT_MQNOTFULL")
        /\ Len(msglist[q]) \in Nat /\ msglist'[q] = msglist[q] /\ Handler(q)' = Handler(q) /\ Handler(q) \in Nat
    BY <1>1, RunningFacts DEF MqWaits, QueueTypes, Handler
  <2>1. TakeOK(q)'
    <3>1. CASE Waiting(q, "WAIT_MQNOTEMPTY") = {}
      BY <2>0, <3>1 DEF TakeOK
    <3>2. CASE Waiting(q, "WAIT_MQNOTEMPTY") # {}
      <4>1. Takers(q) \subseteq Takers(q)'
        BY <1>1, <3>2
      <4>2. Cardinality(Takers(q)) <= Cardinality(Takers(q)') /\ Cardinality(Takers(q)) \in Nat /\ Cardinality(Takers(q)') \in Nat
        BY <4>1, ServingFinite, Sizes
      <4> QED BY <2>0, <4>2, TakeStep
    <3> QED BY <3>1, <3>2
  <2>2. FillOK(q)'
    <3>1. CASE Waiting(q, "WAIT_MQNOTFULL") = {}
      BY <2>0, <3>1 DEF FillOK
    <3>2. CASE Waiting(q, "WAIT_MQNOTFULL") # {}
      <4>1. Fillers(q) \subseteq Fillers(q)'
        BY <1>1, <3>2
      <4>2. Cardinality(Fillers(q)) <= Cardinality(Fillers(q)') /\ Cardinality(Fillers(q)) \in Nat /\ Cardinality(Fillers(q)') \in Nat
        BY <4>1, ServingFinite, Sizes
      <4> QED BY <2>0, <4>2, FillStep
    <3> QED BY <3>1, <3>2
  <2> QED BY <2>1, <2>2
<1> QED BY <1>1, <1>2, <1>3, Conclude

\* sched_lock: the running task holds one lock more.
LEMMA LockEffect ==
    ASSUME SchedTypes, NEW c \in Task, c = cur, lock[c] < 2, SchedLock
    PROVE  lock' \in [Task -> 0 .. 2] /\ lock'[c] = lock[c] + 1 /\ \A t \in Task \ {c} : lock'[t] = lock[t]
<1>1. lock \in [Task -> 0 .. 2] /\ lock' = [lock EXCEPT ![c] = lock[c] + 1]
  BY DEF SchedTypes, SchedLock
<1>2. lock[c] + 1 \in 0 .. 2
  BY <1>1
<1> QED BY <1>1, <1>2

\* A sender finds a place.
LEMMA SendGoesOn ==
    ASSUME MqInv, NEW q \in Queue, NEW p \in MsgPrio, MqSend(q, p), ~Full(q)
    PROVE  MqInv'
<1>c. PICK c : c = cur
  OBVIOUS
<1>0. /\ c \in Task /\ state[c] = "READY" /\ TaskOK(c) /\ lock[c] = LockAt(pc[c])
      /\ ~InMqWait(c) /\ msgwaitq[c] = NoQueue
      /\ SchedTypes /\ QueueTypes /\ CountTypes /\ WaitTypes /\ CallTypes
  BY <1>c, RunningFacts
<1> DEFINE m == [NoMsg EXCEPT !.prio = p]
<1>1. /\ pc[c] = "run" /\ SchedLock /\ Goto("alloc", q, m, NoTask)
      /\ UNCHANGED <<cur, state, prio, msglist, nwaitnotempty, nwaitnotfull, msgwaitq, ntpid, pterrno, waitdog, msgfree, msgfreeirq, panic, isrq>>
  BY <1>c DEF MqSend, Running, waitVars, poolVars
<1>2. m \in InHands /\ m.type = "NONE" /\ m.prio = p
  BY NullValues
<1> HIDE DEF m
<1>3. /\ CallTypes' /\ pc'[c] = "alloc" /\ pq'[c] = q /\ pmsg'[c] = m /\ pnt'[c] = NoTask
      /\ \A t \in Task \ {c} : /\ pc'[t] = pc[t] /\ pq'[t] = pq[t] /\ pmsg'[t] = pmsg[t] /\ pnt'[t] = pnt[t]
  BY <1>c, <1>0, <1>1, <1>2, GotoEffect DEF CallPoints
<1>4. lock[c] = 0 /\ lock' \in [Task -> 0 .. 2] /\ lock'[c] = 1 /\ \A t \in Task \ {c} : lock'[t] = lock[t]
  <2>1. lock[c] = 0
    BY <1>0, <1>1 DEF LockAt
  <2> QED BY <1>c, <1>0, <1>1, <2>1, LockEffect
<1>5. SchedTypes' /\ WaitTypes' /\ QueueTypes' /\ state'[cur'] = "READY" /\ state'[c] \notin MqWaits
  BY <1>c, <1>0, <1>1, <1>4 DEF SchedTypes, WaitTypes, QueueTypes, MqWaits
<1>6. \A t \in Task \ {c} : Keeps(t)
  BY <1>1, <1>3, <1>4 DEF Keeps, SameCall, Alike
<1>7. TaskOK(c)'
  BY <1>c, <1>0, <1>1, <1>2, <1>3, <1>4 DEF TaskOK, HandOK, LockAt, InMqWait
<1>8. Conserved'
  <2>1. pmsg[c].type = "NONE"
    BY <1>0, <1>1 DEF TaskOK, HandOK
  <2> QED BY <1>c, <1>1, <1>2, <1>3, <2>1, StockSame
<1>9. Cardinality(PlacesOf(msglist[q], SentByTask)) < MaxMsgs
  <2>1. Len(msglist[q]) < MaxMsgs /\ Len(msglist[q]) \in Nat /\ MaxMsgs \in Nat
    BY <1>0, MqConstants DEF Full, QueueTypes
  <2>2. Cardinality(PlacesOf(msglist[q], SentByTask)) \in Nat /\ Cardinality(PlacesOf(msglist[q], SentByTask)) <= Len(msglist[q])
    BY QueuedNat
  <2> QED BY <2>1, <2>2
<1>10. \A u : c \notin Takers(u) /\ c \notin Fillers(u)
  BY <1>1, InServing
<1> QED BY <1>c, <1>1, <1>3, <1>5, <1>6, <1>7, <1>8, <1>9, <1>10, QuietStep

\* A call ends, and nobody is woken.
LEMMA FinishStep ==
    ASSUME MqInv, NEW c, c = cur, NEW n, lock[c] = n, Finish(state, n), WaitTypes', QueueTypes',
           UNCHANGED <<prio, nwaitnotempty, nwaitnotfull, msglist, isrq, msgwaitq>>,
           \A t \in Task \ {c} : pterrno'[t] = pterrno[t],
           (\A t \in Task \ {c} : pmsg'[t] = pmsg[t]) /\ pmsg'[c].type = "NONE" => Conserved',
           \A q \in Queue : c \in Takers(q) => Waiting(q, "WAIT_MQNOTEMPTY") = {},
           \A q \in Queue : c \in Fillers(q) => Waiting(q, "WAIT_MQNOTFULL") = {}
    PROVE  MqInv'
<1>0. /\ c \in Task /\ state[c] = "READY" /\ TaskOK(c) /\ ~InMqWait(c) /\ msgwaitq[c] = NoQueue
      /\ SchedTypes /\ QueueTypes /\ CountTypes /\ WaitTypes /\ CallTypes
  BY RunningFacts
<1>1. /\ SchedTypes' /\ state'[cur'] = "READY" /\ CallTypes'
      /\ lock'[c] = 0 /\ pc'[c] = "run" /\ pq'[c] = NoQueue /\ pmsg'[c] = NoMsg /\ pnt'[c] = NoTask
      /\ \A t \in Task : Alike(state[t], state'[t])
      /\ \A t \in Task \ {c} : SameCall(t)
  <2>1. state \in [Task -> MqStates]
    BY <1>0 DEF SchedTypes
  <2> QED BY <1>0, <2>1, FinishEffect
<1>2. state'[c] \in {"READY", "PENDING"} /\ msgwaitq'[c] = NoQueue
  BY <1>0, <1>1 DEF Alike
<1>3. \A t \in Task \ {c} : Keeps(t)
  BY <1>1 DEF Keeps
<1>4. NoQueue \notin Queue /\ NoMsg.type = "NONE"
  BY NullValues
<1>5. TaskOK(c)'
  BY <1>1, <1>2, <1>4 DEF TaskOK, HandOK, LockAt, InMqWait
<1>6. Conserved'
  BY <1>1, <1>4 DEF SameCall
<1>7. state'[c] \notin MqWaits
  BY <1>2 DEF MqWaits
<1> QED BY <1>1, <1>3, <1>5, <1>6, <1>7, QuietStep

\* A wait in mq_send or mq_receive ends with an error.
LEMMA GivesUp ==
    ASSUME MqInv, pc[cur] \in {"waitsend", "waitrcv"}, pterrno[cur] # "OK", Finish(state, 1), SetDog(FALSE),
           pterrno' = [pterrno EXCEPT ![cur] = "OK"],
           UNCHANGED <<prio, msglist, waitVars, ntpid, poolVars, panic, isrq>>
    PROVE  MqInv'
<1>c. PICK c : c = cur
  OBVIOUS
<1>0. /\ c \in Task /\ TaskOK(c) /\ lock[c] = LockAt(pc[c]) /\ QueueTypes /\ WaitTypes
  BY <1>c, RunningFacts
<1>1. /\ pc[c] \in {"waitsend", "waitrcv"} /\ pterrno[c] # "OK"
      /\ waitdog' = [waitdog EXCEPT ![c] = FALSE] /\ pterrno' = [pterrno EXCEPT ![c] = "OK"]
      /\ UNCHANGED <<prio, msglist, nwaitnotempty, nwaitnotfull, msgwaitq, ntpid, msgfree, msgfreeirq, panic, isrq>>
  BY <1>c DEF SetDog, waitVars, poolVars
<1>2. lock[c] = 1
  BY <1>0, <1>1 DEF LockAt
<1>3. WaitTypes' /\ QueueTypes' /\ \A t \in Task \ {c} : pterrno'[t] = pterrno[t]
  BY <1>0, <1>1 DEF WaitTypes, QueueTypes
<1>4. (\A t \in Task \ {c} : pmsg'[t] = pmsg[t]) /\ pmsg'[c].type = "NONE" => Conserved'
  <2>1. pmsg[c].type = "NONE"
    BY <1>0, <1>1 DEF TaskOK, HandOK
  <2> QED BY <1>c, <1>1, <2>1, StockSame
<1>5. \A u : c \notin Takers(u) /\ c \notin Fillers(u)
  BY <1>1, InServing
<1> QED BY <1>c, <1>1, <1>2, <1>3, <1>4, <1>5, FinishStep

\* mq_dosend ends without a receiver to wake.
LEMMA NoReceiver ==
    ASSUME MqInv, WakeReceiver, ~WakesReceiver(pq[cur])
    PROVE  MqInv'
<1>c. PICK c : c = cur
  OBVIOUS
<1>0. /\ c \in Task /\ TaskOK(c) /\ lock[c] = LockAt(pc[c]) /\ QueueTypes /\ WaitTypes /\ CountTypes
  BY <1>c, RunningFacts
<1>1. /\ pc[c] = "wake" /\ Finish(state, 2) /\ ~WakesReceiver(pq[c])
      /\ UNCHANGED <<prio, msglist, nwaitnotempty, nwaitnotfull, msgwaitq, ntpid, pterrno, waitdog, msgfree, msgfreeirq, panic, isrq>>
  BY <1>c DEF WakeReceiver, At, poolVars
<1>2. lock[c] = 2
  BY <1>0, <1>1 DEF LockAt
<1>3. WaitTypes' /\ QueueTypes' /\ \A t \in Task \ {c} : pterrno'[t] = pterrno[t]
  BY <1>0, <1>1 DEF WaitTypes, QueueTypes
<1>4. (\A t \in Task \ {c} : pmsg'[t] = pmsg[t]) /\ pmsg'[c].type = "NONE" => Conserved'
  <2>1. pmsg[c].type = "NONE"
    BY <1>0, <1>1 DEF TaskOK, HandOK
  <2> QED BY <1>c, <1>1, <2>1, StockSame
<1>5. \A q \in Queue : c \notin Fillers(q) /\ (c \in Takers(q) => Waiting(q, "WAIT_MQNOTEMPTY") = {})
  <2>1. ASSUME NEW q \in Queue PROVE c \notin Fillers(q) /\ (c \in Takers(q) => pq[c] = q)
    BY <1>1, InServing
  <2>2. ASSUME NEW q \in Queue, pq[c] = q PROVE Waiting(q, "WAIT_MQNOTEMPTY") = {}
    <3>1. nwaitnotempty[q] = 0
      BY <1>0, <1>1, <2>2 DEF WakesReceiver, CountTypes
    <3> QED BY <3>1, NoneWait
  <2> QED BY <2>1, <2>2
<1> QED BY <1>c, <1>1, <1>2, <1>3, <1>4, <1>5, FinishStep

\* mq_msgfree gives the message back.
LEMMA FreeStock ==
    ASSUME MqInv, NEW c, c = cur, pc[c] = "free", MsgFree(pmsg[c]), msglist' = msglist,
           \A t \in Task \ {c} : pmsg'[t] = pmsg[t], pmsg'[c].type = "NONE"
    PROVE  Conserved' /\ msgfree' \in Nat /\ msgfreeirq' \in Nat
<1>0. c \in Task /\ msgfree \in Nat /\ msgfreeirq \in Nat
  BY RunningFacts DEF QueueTypes
<1>1. msgfree' = msgfree + Held(pmsg[c], "FIXED") /\ msgfreeirq' = msgfreeirq + Held(pmsg[c], "IRQ")
  BY <1>0 DEF MsgFree, Held
<1>2. \A type : Held(pmsg[c], type) \in {0, 1}
  BY DEF Held
<1>3. Held(pmsg'[c], "FIXED") = 0 /\ Held(pmsg'[c], "IRQ") = 0
  BY DEF Held
<1>4. /\ msgfree' + QueuedIn(msglist', OfType("FIXED")) + Held(pmsg'[c], "FIXED")
           = msgfree + QueuedIn(msglist, OfType("FIXED")) + Held(pmsg[c], "FIXED")
      /\ msgfreeirq' + QueuedIn(msglist', OfType("IRQ")) + Held(pmsg'[c], "IRQ")
           = msgfreeirq + QueuedIn(msglist, OfType("IRQ")) + Held(pmsg[c], "IRQ")
  <2>1. QueuedIn(msglist, OfType("FIXED")) \in Nat /\ QueuedIn(msglist, OfType("IRQ")) \in Nat
    BY QueuedNat
  <2> QED BY <1>0, <1>1, <1>2, <1>3, <2>1
<1>5. Conserved'
  BY <1>4, StockKept
<1> QED BY <1>0, <1>1, <1>2, <1>5

\* mq_receive frees the message and returns, as no sender waits for the place.
LEMMA FreeEnds ==
    ASSUME MqInv, Free, ~(nwaitnotfull[pq[cur]] > 0)
    PROVE  MqInv'
<1>c. PICK c : c = cur
  OBVIOUS
<1>0. /\ c \in Task /\ TaskOK(c) /\ lock[c] = LockAt(pc[c]) /\ QueueTypes /\ WaitTypes /\ CountTypes
  BY <1>c, RunningFacts
<1>1. /\ pc[c] = "free" /\ Finish(state, 1) /\ MsgFree(pmsg[c]) /\ ~(nwaitnotfull[pq[c]] > 0)
      /\ UNCHANGED <<prio, msglist, nwaitnotempty, nwaitnotfull, msgwaitq, ntpid, pterrno, waitdog, panic, isrq>>
  BY <1>c DEF Free, At, waitVars
<1>2. lock[c] = 1
  BY <1>0, <1>1 DEF LockAt
<1>3. /\ (\A t \in Task \ {c} : pmsg'[t] = pmsg[t]) /\ pmsg'[c].type = "NONE" => Conserved'
      /\ msgfree' \in Nat /\ msgfreeirq' \in Nat
  <2>1. (\A t \in Task \ {c} : pmsg'[t] = pmsg[t]) /\ pmsg'[c].type = "NONE" => Conserved'
    BY <1>c, <1>1, FreeStock
  <2>2. msgfree' \in Nat /\ msgfreeirq' \in Nat
    BY <1>0, <1>1 DEF MsgFree, QueueTypes
  <2> QED BY <2>1, <2>2
<1>4. WaitTypes' /\ QueueTypes' /\ \A t \in Task \ {c} : pterrno'[t] = pterrno[t]
  BY <1>0, <1>1, <1>3 DEF WaitTypes, QueueTypes
<1>5. \A q \in Queue : c \notin Takers(q) /\ (c \in Fillers(q) => Waiting(q, "WAIT_MQNOTFULL") = {})
  <2>1. ASSUME NEW q \in Queue PROVE c \notin Takers(q) /\ (c \in Fillers(q) => pq[c] = q)
    BY <1>1, InServing
  <2>2. ASSUME NEW q \in Queue, pq[c] = q PROVE Waiting(q, "WAIT_MQNOTFULL") = {}
    <3>1. nwaitnotfull[q] = 0
      BY <1>0, <1>1, <2>2 DEF CountTypes
    <3> QED BY <3>1, NoneWait
  <2> QED BY <2>1, <2>2
<1> QED BY <1>c, <1>1, <1>2, <1>3, <1>4, <1>5, FinishStep

\* The caller goes on to another critical section of its call.
LEMMA InPlace ==
    ASSUME MqInv, NEW c, c = cur, NEW q \in Queue, pq[c] = q, NEW where \in CallPoints \ {"run"}, NEW m \in InHands,
           NEW n \in Task \cup {NoTask}, Goto(where, q, m, n), LockAt(where) = LockAt(pc[c]),
           UNCHANGED <<cur, state, prio, lock, msglist, nwaitnotempty, nwaitnotfull, msgwaitq, pterrno, isrq>>,
           QueueTypes', WaitTypes',
           HandOK(c)', (\A t \in Task \ {c} : pmsg'[t] = pmsg[t]) /\ pmsg'[c] = m => Conserved',
           where \in {"alloc", "insert"} => Cardinality(PlacesOf(msglist[q], SentByTask)) < MaxMsgs,
           pc[c] \in {"notify", "signal", "wake", "waitrcv"} => where \in {"notify", "signal", "wake"},
           pc[c] \in {"waitsend", "alloc", "insert", "free", "wakesnd"} => where \in {"alloc", "insert", "free", "wakesnd"}
    PROVE  MqInv'
<1>0. /\ c \in Task /\ state[c] = "READY" /\ TaskOK(c) /\ lock[c] = LockAt(pc[c])
      /\ ~InMqWait(c) /\ msgwaitq[c] = NoQueue
      /\ SchedTypes /\ QueueTypes /\ CountTypes /\ WaitTypes /\ CallTypes
  BY RunningFacts
<1>1. /\ CallTypes' /\ pc'[c] = where /\ pq'[c] = q /\ pmsg'[c] = m /\ pnt'[c] = n
      /\ \A t \in Task \ {c} : /\ pc'[t] = pc[t] /\ pq'[t] = pq[t] /\ pmsg'[t] = pmsg[t] /\ pnt'[t] = pnt[t]
  BY <1>0, GotoEffect
<1>2. SchedTypes' /\ state'[cur'] = "READY" /\ state'[c] \notin MqWaits
  BY <1>0 DEF SchedTypes, MqWaits
<1>3. \A t \in Task \ {c} : Keeps(t)
  BY <1>1 DEF Keeps, SameCall, Alike
<1>4. TaskOK(c)'
  <2>1. lock'[c] = LockAt(pc'[c])
    BY <1>0, <1>1
  <2>2. LockAt(pc[c])' = LockAt(pc'[c])
    BY DEF LockAt
  <2> QED BY <1>0, <1>1, <2>1, <2>2 DEF TaskOK, InMqWait
<1>5. Conserved'
  BY <1>1
<1>6. \A u \in Queue : (c \in Takers(u) => c \in Takers(u)') /\ (c \in Fillers(u) => c \in Fillers(u)')
  BY <1>0, <1>1, InServing
<1> QED BY <1>1, <1>2, <1>3, <1>4, <1>5, <1>6, QuietStep

\* A sender that was woken finds a place.
LEMMA SenderGoesOn ==
    ASSUME MqInv, SendResumes, pterrno[cur] = "OK", ~Full(pq[cur])
    PROVE  MqInv'
<1>c. PICK c : c = cur
  OBVIOUS
<1>0. /\ c \in Task /\ TaskOK(c) /\ QueueTypes /\ WaitTypes /\ CallTypes
  BY <1>c, RunningFacts
<1>1. /\ pc[c] = "waitsend" /\ Goto("alloc", pq[c], pmsg[c], NoTask) /\ ~Full(pq[c])
      /\ waitdog' = [waitdog EXCEPT ![c] = FALSE]
      /\ UNCHANGED <<cur, state, prio, lock, msglist, nwaitnotempty, nwaitnotfull, msgwaitq, ntpid, pterrno, msgfree, msgfreeirq, panic, isrq>>
  BY <1>c DEF SendResumes, At, SetDog, schedVars, waitVars, poolVars
<1>q. PICK q \in Queue : q = pq[c]
  BY <1>0, <1>1 DEF TaskOK
<1>m. PICK m \in InHands : m = pmsg[c]
  BY <1>0 DEF CallTypes
<1>2. Goto("alloc", q, m, NoTask)
  BY <1>1, <1>q, <1>m
<1>3. m.type = "NONE" /\ m.prio \in MsgPrio
  BY <1>0, <1>1, <1>m DEF TaskOK, HandOK
<1>4. pc'[c] = "alloc" /\ pmsg'[c] = m
  BY <1>c, <1>0, <1>2, GotoEffect DEF CallPoints
<1>5. HandOK(c)'
  BY <1>3, <1>4 DEF HandOK
<1>6. QueueTypes' /\ WaitTypes'
  BY <1>0, <1>1 DEF QueueTypes, WaitTypes
<1>7. (\A t \in Task \ {c} : pmsg'[t] = pmsg[t]) /\ pmsg'[c] = m => Conserved'
  BY <1>c, <1>m, <1>1, StockSame
<1>8. Cardinality(PlacesOf(msglist[q], SentByTask)) < MaxMsgs
  <2>1. Len(msglist[q]) < MaxMsgs /\ Len(msglist[q]) \in Nat /\ MaxMsgs \in Nat
    BY <1>0, <1>1, <1>q, MqConstants DEF Full, QueueTypes
  <2>2. Cardinality(PlacesOf(msglist[q], SentByTask)) \in Nat /\ Cardinality(PlacesOf(msglist[q], SentByTask)) <= Len(msglist[q])
    BY QueuedNat
  <2> QED BY <2>1, <2>2
<1>9. LockAt("alloc") = LockAt(pc[c]) /\ "alloc" \in CallPoints \ {"run"}
  BY <1>1 DEF LockAt, CallPoints
<1> QED BY <1>c, <1>q, <1>1, <1>2, <1>5, <1>6, <1>7, <1>8, <1>9, InPlace

LEMMA AllocStep ==
    ASSUME MqInv, Alloc
    PROVE  MqInv'
<1>c. PICK c : c = cur
  OBVIOUS
<1>0. /\ c \in Task /\ TaskOK(c) /\ QueueTypes /\ WaitTypes /\ CallTypes
  BY <1>c, RunningFacts
<1>m. PICK m : m = [pmsg[c] EXCEPT !.type = IF msgfree > 0 THEN "FIXED" ELSE "DYN"]
  OBVIOUS
<1>1. /\ pc[c] = "alloc" /\ Goto("insert", pq[c], m, NoTask)
      /\ msgfree' = IF msgfree > 0 THEN msgfree - 1 ELSE 0
      /\ UNCHANGED <<cur, state, prio, lock, msglist, nwaitnotempty, nwaitnotfull, msgwaitq, ntpid, pterrno, waitdog, msgfreeirq, panic, isrq>>
  BY <1>c, <1>m DEF Alloc, At, schedVars, waitVars
<1>q. PICK q \in Queue : q = pq[c]
  BY <1>0, <1>1 DEF TaskOK
<1>2. Goto("insert", q, m, NoTask)
  BY <1>1, <1>q
<1>3. /\ pmsg[c].type = "NONE" /\ m \in Message /\ ~m.isr
      /\ m.type = IF msgfree > 0 THEN "FIXED" ELSE "DYN"
  <2>1. pmsg[c].type = "NONE" /\ pmsg[c].prio \in MsgPrio /\ pmsg[c] \in InHands
    BY <1>0, <1>1 DEF TaskOK, HandOK, CallTypes
  <2>2. pmsg[c] \in [prio : MsgPrio \cup {0}, type : {"NONE"}, isr : {FALSE}]
    BY <2>1 DEF InHands, Message
  <2> QED BY <1>m, <2>1, <2>2 DEF Message
<1>4. m \in InHands
  BY <1>3 DEF InHands
<1>5. pc'[c] = "insert" /\ pmsg'[c] = m
  BY <1>c, <1>0, <1>2, <1>4, GotoEffect DEF CallPoints
<1>6. HandOK(c)'
  BY <1>3, <1>5 DEF HandOK, Message
<1>7. msgfree \in Nat /\ msgfree' \in Nat
  BY <1>0, <1>1 DEF QueueTypes
<1>8. QueueTypes' /\ WaitTypes'
  BY <1>0, <1>1, <1>7 DEF QueueTypes, WaitTypes
<1>9. (\A t \in Task \ {c} : pmsg'[t] = pmsg[t]) /\ pmsg'[c] = m => Conserved'
  <2>1. QueuedIn(msglist, OfType("FIXED")) \in Nat /\ QueuedIn(msglist, OfType("IRQ")) \in Nat
    BY QueuedNat
  <2>2. Held(pmsg[c], "FIXED") = 0 /\ Held(pmsg[c], "IRQ") = 0 /\ Held(m, "IRQ") = 0
    BY <1>3 DEF Held
  <2>3. msgfree' + Held(m, "FIXED") = msgfree
    BY <1>1, <1>3, <1>7 DEF Held
  <2>4. Held(m, "FIXED") \in Nat
    BY DEF Held
  <2>5. /\ msgfree' + QueuedIn(msglist', OfType("FIXED")) + Held(m, "FIXED")
             = msgfree + QueuedIn(msglist, OfType("FIXED")) + Held(pmsg[c], "FIXED")
        /\ msgfreeirq' + QueuedIn(msglist', OfType("IRQ")) + Held(m, "IRQ")
             = msgfreeirq + QueuedIn(msglist, OfType("IRQ")) + Held(pmsg[c], "IRQ")
    BY <1>1, <1>7, <2>1, <2>2, <2>3, <2>4
  <2> QED BY <1>c, <2>5, StockKept
<1>10. Cardinality(PlacesOf(msglist[q], SentByTask)) < MaxMsgs
  BY <1>c, <1>q, <1>1 DEF MqInv, RoomInv
<1>11. LockAt("insert") = LockAt(pc[c]) /\ "insert" \in CallPoints \ {"run"}
  BY <1>1 DEF LockAt, CallPoints
<1> QED BY <1>c, <1>q, <1>1, <1>2, <1>4, <1>6, <1>8, <1>9, <1>10, <1>11, InPlace

LEMMA ReadNotifyStep ==
    ASSUME MqInv, ReadNotify
    PROVE  MqInv'
<1>c. PICK c : c = cur
  OBVIOUS
<1>0. /\ c \in Task /\ TaskOK(c) /\ QueueTypes /\ WaitTypes /\ CallTypes
  BY <1>c, RunningFacts
<1>q. PICK q : q = pq[c]
  OBVIOUS
<1>w. PICK where : where = IF ntpid[q] = NoTask THEN "wake" ELSE "signal"
  OBVIOUS
<1>n. PICK n : n = ntpid[q]
  OBVIOUS
<1>1. /\ pc[c] = "notify" /\ Goto(where, q, NoMsg, n)
      /\ UNCHANGED <<cur, state, prio, lock, msglist, nwaitnotempty, nwaitnotfull, msgwaitq, ntpid, pterrno, waitdog, msgfree, msgfreeirq, panic, isrq>>
  BY <1>c, <1>q, <1>w, <1>n DEF ReadNotify, At, schedVars, waitVars, poolVars
<1>2. q \in Queue /\ n \in Task \cup {NoTask} /\ where \in {"wake", "signal"} /\ (where = "signal" => n \in Task)
  BY <1>0, <1>1, <1>q, <1>w, <1>n DEF TaskOK, QueueTypes
<1>3. NoMsg \in InHands /\ NoMsg.type = "NONE"
  BY NullValues
<1>4. pc'[c] = where /\ pmsg'[c] = NoMsg /\ pnt'[c] = n
  <2>1. where \in CallPoints
    BY <1>2 DEF CallPoints
  <2> QED BY <1>c, <1>0, <1>1, <1>2, <1>3, <2>1, GotoEffect
<1>5. HandOK(c)'
  BY <1>2, <1>3, <1>4 DEF HandOK
<1>6. QueueTypes' /\ WaitTypes'
  BY <1>0, <1>1 DEF QueueTypes, WaitTypes
<1>7. (\A t \in Task \ {c} : pmsg'[t] = pmsg[t]) /\ pmsg'[c] = NoMsg => Conserved'
  <2>1. pmsg[c].type = "NONE"
    BY <1>0, <1>1 DEF TaskOK, HandOK
  <2> QED BY <1>c, <1>1, <1>3, <2>1, StockSame
<1>8. LockAt(where) = LockAt(pc[c]) /\ where \in CallPoints \ {"run"} /\ where \notin {"alloc", "insert"}
  BY <1>1, <1>2 DEF LockAt, CallPoints
<1> QED BY <1>c, <1>q, <1>1, <1>2, <1>3, <1>5, <1>6, <1>7, <1>8, InPlace

\* A sender is about to be woken.
LEMMA FreeGoesOn ==
    ASSUME MqInv, Free, nwaitnotfull[pq[cur]] > 0
    PROVE  MqInv'
<1>c. PICK c : c = cur
  OBVIOUS
<1>0. /\ c \in Task /\ TaskOK(c) /\ QueueTypes /\ WaitTypes /\ CallTypes
  BY <1>c, RunningFacts
<1>q. PICK q : q = pq[c]
  OBVIOUS
<1>1. /\ pc[c] = "free" /\ Goto("wakesnd", q, NoMsg, NoTask) /\ MsgFree(pmsg[c])
      /\ UNCHANGED <<cur, state, prio, lock, msglist, nwaitnotempty, nwaitnotfull, msgwaitq, ntpid, pterrno, waitdog, panic, isrq>>
  BY <1>c, <1>q DEF Free, At, waitVars
<1>2. q \in Queue
  BY <1>0, <1>1, <1>q DEF TaskOK
<1>3. NoMsg \in InHands /\ NoMsg.type = "NONE"
  BY NullValues
<1>4. pc'[c] = "wakesnd" /\ pmsg'[c] = NoMsg
  BY <1>c, <1>0, <1>1, <1>2, <1>3, GotoEffect DEF CallPoints
<1>5. HandOK(c)'
  BY <1>3, <1>4 DEF HandOK
<1>6. (\A t \in Task \ {c} : pmsg'[t] = pmsg[t]) /\ pmsg'[c] = NoMsg => Conserved'
  BY <1>c, <1>1, <1>3, FreeStock
<1>7. msgfree' \in Nat /\ msgfreeirq' \in Nat
  BY <1>0, <1>1 DEF MsgFree, QueueTypes
<1>8. QueueTypes' /\ WaitTypes'
  BY <1>0, <1>1, <1>7 DEF QueueTypes, WaitTypes
<1>9. LockAt("wakesnd") = LockAt(pc[c]) /\ "wakesnd" \in CallPoints \ {"run"}
  BY <1>1 DEF LockAt, CallPoints
<1> QED BY <1>c, <1>q, <1>1, <1>2, <1>3, <1>5, <1>6, <1>8, <1>9, InPlace

\* Nothing moves: mq_notify, and the failing assertion.
LEMMA Standstill ==
    ASSUME MqInv, QueueTypes',
           UNCHANGED <<cur, state, prio, lock, msglist, nwaitnotempty, nwaitnotfull, msgwaitq, pterrno, waitdog,
                       msgfree, msgfreeirq, pc, pq, pmsg, pnt, isrq>>
    PROVE  MqInv'
<1>1. CallersOK'
  <2>1. CallersOK
    BY RunningFacts DEF CallersOK, MqInv
  <2> QED BY <2>1 DEF CallersOK, SchedTypes, CountTypes, WaitTypes, CallTypes, TasksInv, TaskOK, HandOK, InMqWait,
                      WaitCountsMatch, Waiting
<1>2. RoomInv' /\ Conserved'
  BY DEF MqInv, MessagesConserved, RoomInv, TasksRespectMaxMsgs, Conserved, Queued, InHand
<1>3. \A q \in Queue : TakeOK(q)' /\ FillOK(q)'
  BY DEF MqInv, WakeInv, TakeOK, FillOK, Waiting, Takers, Fillers, Handler
<1> QED BY <1>1, <1>2, <1>3, Conclude

LEMMA NotifyStep ==
    ASSUME MqInv, NEW q \in Queue, MqNotify(q)
    PROVE  MqInv'
<1>0. cur \in Task /\ QueueTypes
  BY RunningFacts
<1>1. UNCHANGED <<cur, state, prio, lock, msglist, nwaitnotempty, nwaitnotfull, msgwaitq, pterrno, waitdog,
                  msgfree, msgfreeirq, pc, pq, pmsg, pnt, panic, isrq>>
  BY DEF MqNotify, schedVars, waitVars, poolVars
<1>2. ntpid' \in [Queue -> Task \cup {NoTask}]
  BY <1>0 DEF MqNotify, QueueTypes
<1>3. QueueTypes'
  BY <1>0, <1>1, <1>2 DEF QueueTypes
<1> QED BY <1>1, <1>3, Standstill

LEMMA AssertStep ==
    ASSUME MqInv, WakeSenderAsserts
    PROVE  MqInv'
<1>0. QueueTypes
  BY RunningFacts
<1>1. /\ UNCHANGED <<cur, state, prio, lock, msglist, nwaitnotempty, nwaitnotfull, ntpid, msgwaitq, pterrno, waitdog,
                     msgfree, msgfreeirq, pc, pq, pmsg, pnt, isrq>>
      /\ panic' = TRUE
  BY DEF WakeSenderAsserts, schedVars, waitVars, poolVars
<1>2. QueueTypes'
  BY <1>0, <1>1 DEF QueueTypes
<1> QED BY <1>1, <1>2, Standstill

LEMMA SleepStep ==
    ASSUME MqInv, Sleep
    PROVE  MqInv'
<1>c. PICK c : c = cur
  OBVIOUS
<1>0. /\ c \in Task /\ state[c] = "READY" /\ TaskOK(c) /\ lock[c] = LockAt(pc[c])
      /\ ~InMqWait(c) /\ msgwaitq[c] = NoQueue
      /\ SchedTypes /\ QueueTypes /\ CountTypes /\ WaitTypes /\ CallTypes
  BY <1>c, RunningFacts
<1>1. /\ pc[c] = "run" /\ Switch(AfterBlock([state EXCEPT ![cur] = "WAIT_SIG"], prio))
      /\ UNCHANGED <<prio, lock, msglist, nwaitnotempty, nwaitnotfull, ntpid, msgwaitq, pterrno, waitdog,
                     msgfree, msgfreeirq, pc, pq, pmsg, pnt, panic, isrq>>
  BY <1>c DEF Sleep, Running, mqVars
<1>2. /\ SchedTypes' /\ state'[cur'] = "READY" /\ state'[c] = "WAIT_SIG"
      /\ \A t \in Task \ {c} : Alike(state[t], state'[t])
  BY <1>c, <1>0, <1>1, BlockEffect DEF SchedTypes
<1>3. WaitTypes' /\ CallTypes' /\ QueueTypes' /\ state'[c] \notin MqWaits
  BY <1>0, <1>1, <1>2 DEF WaitTypes, CallTypes, QueueTypes, MqWaits
<1>4. \A t \in Task \ {c} : Keeps(t)
  BY <1>1, <1>2 DEF Keeps, SameCall
<1>5. TaskOK(c)'
  BY <1>0, <1>1, <1>2 DEF TaskOK, HandOK, LockAt, InMqWait
<1>6. Conserved'
  BY <1>c, <1>1, StockSame
<1>7. \A q : c \notin Takers(q) /\ c \notin Fillers(q)
  BY <1>1, InServing
<1> QED BY <1>c, <1>1, <1>2, <1>3, <1>4, <1>5, <1>6, <1>7, QuietStep

-----------------------------------------------------------------------------
(***************************************************************************)
(* The caller waits.                                                       *)
(***************************************************************************)
WaitPoint(why) == IF why = "WAIT_MQNOTEMPTY" THEN "waitrcv" ELSE "waitsend"

LEMMA BlockStep ==
    ASSUME MqInv, NEW c, c = cur, NEW q \in Queue, NEW why \in MqWaits, NEW m \in InHands, m.type = "NONE",
           pc[c] = "run" \/ (pc[c] = WaitPoint(why) /\ pq[c] = q), BlockFor(q, why), Goto(WaitPoint(why), q, m, NoTask),
           nwaitnotempty' = IF why = "WAIT_MQNOTEMPTY" THEN [nwaitnotempty EXCEPT ![q] = @ + 1] ELSE nwaitnotempty,
           nwaitnotfull' = IF why = "WAIT_MQNOTFULL" THEN [nwaitnotfull EXCEPT ![q] = @ + 1] ELSE nwaitnotfull,
           lock' \in [Task -> 0 .. 2], lock'[c] = 1, \A t \in Task \ {c} : lock'[t] = lock[t],
           waitdog' \in [Task -> BOOLEAN],
           UNCHANGED <<prio, msglist, ntpid, msgfree, msgfreeirq, panic, isrq>>,
           why = "WAIT_MQNOTFULL" => m.prio \in MsgPrio /\ Len(msglist[q]) >= MaxMsgs,
           why = "WAIT_MQNOTEMPTY" => msglist[q] = <<>>
    PROVE  MqInv'
<1>0. /\ c \in Task /\ state[c] = "READY" /\ TaskOK(c)
      /\ SchedTypes /\ QueueTypes /\ CountTypes /\ WaitTypes /\ CallTypes
  BY RunningFacts
<1>1. /\ msgwaitq' = [msgwaitq EXCEPT ![c] = q] /\ pterrno' = [pterrno EXCEPT ![c] = "OK"]
      /\ Switch(AfterBlock([state EXCEPT ![cur] = why], prio))
  BY DEF BlockFor
<1>2. /\ SchedTypes' /\ state'[cur'] = "READY" /\ state'[c] = why
      /\ \A t \in Task \ {c} : Alike(state[t], state'[t])
  BY <1>0, <1>1, BlockEffect DEF MqWaits
<1>3. /\ CallTypes' /\ pc'[c] = WaitPoint(why) /\ pq'[c] = q /\ pmsg'[c] = m /\ pnt'[c] = NoTask
      /\ \A t \in Task \ {c} : /\ pc'[t] = pc[t] /\ pq'[t] = pq[t] /\ pmsg'[t] = pmsg[t] /\ pnt'[t] = pnt[t]
  <2>1. WaitPoint(why) \in CallPoints
    BY DEF WaitPoint, CallPoints
  <2> QED BY <1>0, <2>1, GotoEffect
<1>4. /\ WaitTypes' /\ QueueTypes' /\ msgwaitq'[c] = q /\ pterrno'[c] = "OK"
      /\ \A t \in Task \ {c} : msgwaitq'[t] = msgwaitq[t] /\ pterrno'[t] = pterrno[t]
  BY <1>0, <1>1 DEF WaitTypes, QueueTypes
<1>5. \A t \in Task \ {c} : Keeps(t)
  BY <1>2, <1>3, <1>4 DEF Keeps, SameCall
<1>6. TaskOK(c)'
  BY <1>2, <1>3, <1>4 DEF TaskOK, HandOK, LockAt, InMqWait, WaitPoint, MqWaits
<1>7. /\ CallersOK'
      /\ \A u \in Queue, x \in MqWaits : u # q \/ x # why => Waiting(u, x)' = Waiting(u, x)
      /\ \A u : Takers(u) \ {c} \subseteq Takers(u)' /\ Fillers(u) \ {c} \subseteq Fillers(u)'
  BY <1>2, <1>3, <1>4, <1>5, <1>6, CallerBlocks
<1>8. Conserved' /\ TasksRespectMaxMsgs'
  <2>1. pmsg[c].type = "NONE"
    BY <1>0 DEF TaskOK, HandOK, WaitPoint
  <2> QED BY <1>3, <2>1, StockSame
<1>9. RoomInv'
  <2>1. cur' \in Task /\ \A t \in Task \ {c} : SameCall(t)
    BY <1>2, <1>5 DEF SchedTypes, Keeps
  <2>2. pc'[c] \notin {"alloc", "insert"}
    BY <1>3 DEF WaitPoint
  <2> QED BY <1>8, <2>1, <2>2, RoomKept
<1>10. ASSUME NEW u \in Queue PROVE TakeOK(u)' /\ FillOK(u)'
  <2>0. /\ Len(msglist[u]) \in Nat /\ msglist'[u] = msglist[u] /\ Handler(u)' = Handler(u) /\ Handler(u) \in Nat
        /\ MaxMsgs \in Nat
    BY <1>0, MqConstants DEF QueueTypes, Handler
  <2>c. /\ Cardinality(Takers(u)) \in Nat /\ Cardinality(Takers(u)') \in Nat
        /\ Cardinality(Fillers(u)) \in Nat /\ Cardinality(Fillers(u)') \in Nat
    BY ServingFinite, FS_CardinalityType
  <2>1. TakeOK(u)'
    <3>1. CASE u = q /\ why = "WAIT_MQNOTEMPTY"
      <4>1. Len(msglist'[u]) = 0
        BY <2>0, <3>1
      <4> QED BY <2>0, <2>c, <4>1 DEF TakeOK
    <3>2. CASE ~(u = q /\ why = "WAIT_MQNOTEMPTY")
      <4>1. c \notin Takers(u)
        BY <3>2, InServing DEF WaitPoint, MqWaits
      <4>2. Takers(u) \subseteq Takers(u)'
        BY <1>7, <4>1
      <4>3. Cardinality(Takers(u)) <= Cardinality(Takers(u)')
        BY <4>2, ServingFinite, Sizes
      <4>4. Waiting(u, "WAIT_MQNOTEMPTY")' = Waiting(u, "WAIT_MQNOTEMPTY")
        BY <1>7, <3>2 DEF MqWaits
      <4> QED BY <1>4, <2>0, <2>c, <4>3, <4>4, TakeStep
    <3> QED BY <3>1, <3>2
  <2>2. FillOK(u)'
    <3>1. CASE u = q /\ why = "WAIT_MQNOTFULL"
      BY <2>0, <2>c, <3>1 DEF FillOK
    <3>2. CASE ~(u = q /\ why = "WAIT_MQNOTFULL")
      <4>1. c \notin Fillers(u)
        BY <3>2, InServing DEF WaitPoint, MqWaits
      <4>2. Fillers(u) \subseteq Fillers(u)'
        BY <1>7, <4>1
      <4>3. Cardinality(Fillers(u)) <= Cardinality(Fillers(u)')
        BY <4>2, ServingFinite, Sizes
      <4>4. Waiting(u, "WAIT_MQNOTFULL")' = Waiting(u, "WAIT_MQNOTFULL")
        BY <1>7, <3>2 DEF MqWaits
      <4> QED BY <1>4, <2>0, <2>c, <4>3, <4>4, FillStep
    <3> QED BY <3>1, <3>2
  <2> QED BY <2>1, <2>2
<1> QED BY <1>4, <1>7, <1>8, <1>9, <1>10, Conclude

LEMMA SendWaits ==
    ASSUME MqInv, NEW q \in Queue, NEW p \in MsgPrio, MqSend(q, p), Full(q)
    PROVE  MqInv'
<1>c. PICK c : c = cur
  OBVIOUS
<1>0. c \in Task /\ lock[c] = LockAt(pc[c]) /\ SchedTypes /\ WaitTypes /\ QueueTypes
  BY <1>c, RunningFacts
<1> DEFINE m == [NoMsg EXCEPT !.prio = p]
<1>1. /\ pc[c] = "run" /\ SchedLock /\ WaitNotFull(q, m) /\ \E timed \in BOOLEAN : SetDog(timed)
  BY <1>c DEF MqSend, Running
<1>2. m \in InHands /\ m.type = "NONE" /\ m.prio = p
  BY NullValues
<1> HIDE DEF m
<1>3. lock' \in [Task -> 0 .. 2] /\ lock'[c] = 1 /\ \A t \in Task \ {c} : lock'[t] = lock[t]
  <2>1. lock[c] = 0
    BY <1>0, <1>1 DEF LockAt
  <2> QED BY <1>c, <1>0, <1>1, <2>1, LockEffect
<1>4. waitdog' \in [Task -> BOOLEAN]
  BY <1>0, <1>1 DEF SetDog, WaitTypes
<1>5. Len(msglist[q]) >= MaxMsgs
  BY DEF Full
<1>6. /\ BlockFor(q, "WAIT_MQNOTFULL") /\ Goto("waitsend", q, m, NoTask)
      /\ nwaitnotfull' = [nwaitnotfull EXCEPT ![q] = @ + 1]
      /\ UNCHANGED <<prio, msglist, nwaitnotempty, ntpid, msgfree, msgfreeirq, panic, isrq>>
  BY <1>1 DEF WaitNotFull, poolVars
<1>7. "WAIT_MQNOTFULL" \in MqWaits /\ WaitPoint("WAIT_MQNOTFULL") = "waitsend"
  BY DEF MqWaits, WaitPoint
<1> QED BY <1>c, <1>1, <1>2, <1>3, <1>4, <1>5, <1>6, <1>7, BlockStep

LEMMA SenderWaitsAgain ==
    ASSUME MqInv, SendResumes, pterrno[cur] = "OK", Full(pq[cur])
    PROVE  MqInv'
<1>c. PICK c : c = cur
  OBVIOUS
<1>0. c \in Task /\ TaskOK(c) /\ lock[c] = LockAt(pc[c]) /\ SchedTypes /\ WaitTypes /\ CallTypes
  BY <1>c, RunningFacts
<1>q. PICK q : q = pq[c]
  OBVIOUS
<1>m. PICK m : m = pmsg[c]
  OBVIOUS
<1>1. pc[c] = "waitsend" /\ WaitNotFull(q, m) /\ UNCHANGED <<lock, waitdog>> /\ Full(q)
  BY <1>c, <1>q, <1>m DEF SendResumes, At
<1>2. m \in InHands /\ m.type = "NONE" /\ m.prio \in MsgPrio /\ q \in Queue
  BY <1>0, <1>1, <1>q, <1>m DEF TaskOK, HandOK, CallTypes
<1>3. lock' \in [Task -> 0 .. 2] /\ lock'[c] = 1 /\ \A t \in Task \ {c} : lock'[t] = lock[t]
  BY <1>0, <1>1 DEF SchedTypes, LockAt
<1>4. waitdog' \in [Task -> BOOLEAN]
  BY <1>0, <1>1 DEF WaitTypes
<1>5. Len(msglist[q]) >= MaxMsgs
  BY <1>1 DEF Full
<1>6. /\ BlockFor(q, "WAIT_MQNOTFULL") /\ Goto("waitsend", q, m, NoTask)
      /\ nwaitnotfull' = [nwaitnotfull EXCEPT ![q] = @ + 1]
      /\ UNCHANGED <<prio, msglist, nwaitnotempty, ntpid, msgfree, msgfreeirq, panic, isrq>>
  BY <1>1 DEF WaitNotFull, poolVars
<1>7. "WAIT_MQNOTFULL" \in MqWaits /\ WaitPoint("WAIT_MQNOTFULL") = "waitsend"
  BY DEF MqWaits, WaitPoint
<1> QED BY <1>c, <1>q, <1>1, <1>2, <1>3, <1>4, <1>5, <1>6, <1>7, BlockStep

LEMMA ReceiveWaits ==
    ASSUME MqInv, NEW q \in Queue, MqReceive(q), msglist[q] = <<>>
    PROVE  MqInv'
<1>c. PICK c : c = cur
  OBVIOUS
<1>0. c \in Task /\ lock[c] = LockAt(pc[c]) /\ SchedTypes /\ WaitTypes
  BY <1>c, RunningFacts
<1>1. /\ pc[c] = "run" /\ SchedLock /\ WaitNotEmpty(q) /\ \E timed \in BOOLEAN : SetDog(timed)
  BY <1>c DEF MqReceive, Running
<1>2. PICK m \in InHands : m = NoMsg /\ m.type = "NONE"
  BY NullValues
<1>3. lock' \in [Task -> 0 .. 2] /\ lock'[c] = 1 /\ \A t \in Task \ {c} : lock'[t] = lock[t]
  <2>1. lock[c] = 0
    BY <1>0, <1>1 DEF LockAt
  <2> QED BY <1>c, <1>0, <1>1, <2>1, LockEffect
<1>4. waitdog' \in [Task -> BOOLEAN]
  BY <1>0, <1>1 DEF SetDog, WaitTypes
<1>5. /\ BlockFor(q, "WAIT_MQNOTEMPTY") /\ Goto("waitrcv", q, m, NoTask)
      /\ nwaitnotempty' = [nwaitnotempty EXCEPT ![q] = @ + 1]
      /\ UNCHANGED <<prio, msglist, nwaitnotfull, ntpid, msgfree, msgfreeirq, panic, isrq>>
  BY <1>1, <1>2 DEF WaitNotEmpty, poolVars
<1>6. "WAIT_MQNOTEMPTY" \in MqWaits /\ WaitPoint("WAIT_MQNOTEMPTY") = "waitrcv"
  BY DEF MqWaits, WaitPoint
<1> QED BY <1>c, <1>1, <1>2, <1>3, <1>4, <1>5, <1>6, BlockStep

LEMMA ReceiverWaitsAgain ==
    ASSUME MqInv, ReceiveResumes, pterrno[cur] = "OK", msglist[pq[cur]] = <<>>
    PROVE  MqInv'
<1>c. PICK c : c = cur
  OBVIOUS
<1>0. c \in Task /\ TaskOK(c) /\ lock[c] = LockAt(pc[c]) /\ SchedTypes /\ WaitTypes
  BY <1>c, RunningFacts
<1>q. PICK q : q = pq[c]
  OBVIOUS
<1>1. pc[c] = "waitrcv" /\ WaitNotEmpty(q) /\ UNCHANGED <<lock, waitdog>> /\ msglist[q] = <<>>
  BY <1>c, <1>q DEF ReceiveResumes, At
<1>2. PICK m \in InHands : m = NoMsg /\ m.type = "NONE" /\ q \in Queue
  BY <1>0, <1>1, <1>q, NullValues DEF TaskOK
<1>3. lock' \in [Task -> 0 .. 2] /\ lock'[c] = 1 /\ \A t \in Task \ {c} : lock'[t] = lock[t]
  BY <1>0, <1>1 DEF SchedTypes, LockAt
<1>4. waitdog' \in [Task -> BOOLEAN]
  BY <1>0, <1>1 DEF WaitTypes
<1>5. /\ BlockFor(q, "WAIT_MQNOTEMPTY") /\ Goto("waitrcv", q, m, NoTask)
      /\ nwaitnotempty' = [nwaitnotempty EXCEPT ![q] = @ + 1]
      /\ UNCHANGED <<prio, msglist, nwaitnotfull, ntpid, msgfree, msgfreeirq, panic, isrq>>
  BY <1>1, <1>2 DEF WaitNotEmpty, poolVars
<1>6. "WAIT_MQNOTEMPTY" \in MqWaits /\ WaitPoint("WAIT_MQNOTEMPTY") = "waitrcv"
  BY DEF MqWaits, WaitPoint
<1> QED BY <1>c, <1>q, <1>1, <1>2, <1>3, <1>4, <1>5, <1>6, BlockStep

-----------------------------------------------------------------------------
(***************************************************************************)
(* A message is put into a list, or taken from it, by the caller.          *)
(***************************************************************************)
LEMMA ServingNat ==
    ASSUME NEW q
    PROVE  /\ Cardinality(Takers(q)) \in Nat /\ Cardinality(Takers(q)') \in Nat
           /\ Cardinality(Fillers(q)) \in Nat /\ Cardinality(Fillers(q)') \in Nat
           /\ Handler(q) \in Nat /\ Handler(q)' \in Nat
<1>1. Handler(q) \in Nat /\ Handler(q)' \in Nat
  BY DEF Handler
<1> QED BY <1>1, ServingFinite, FS_CardinalityType

LEMMA InsertStep ==
    ASSUME MqInv, Insert
    PROVE  MqInv'
<1>c. PICK c : c = cur
  OBVIOUS
<1>0. /\ c \in Task /\ state[c] = "READY" /\ TaskOK(c) /\ lock[c] = LockAt(pc[c])
      /\ ~InMqWait(c) /\ msgwaitq[c] = NoQueue
      /\ SchedTypes /\ QueueTypes /\ CountTypes /\ WaitTypes /\ CallTypes
  BY <1>c, RunningFacts
<1>q. PICK q : q = pq[c]
  OBVIOUS
<1>m. PICK m : m = pmsg[c]
  OBVIOUS
<1>1. /\ pc[c] = "insert" /\ SchedLock /\ Goto("notify", q, NoMsg, NoTask)
      /\ msglist' = [msglist EXCEPT ![q] = Inserted(msglist[q], m)]
      /\ UNCHANGED <<cur, state, prio, nwaitnotempty, nwaitnotfull, msgwaitq, ntpid, pterrno, waitdog, msgfree, msgfreeirq, panic, isrq>>
  BY <1>c, <1>q, <1>m DEF Insert, At, waitVars, poolVars
<1>2. q \in Queue /\ m \in Message /\ ~m.isr /\ m \in SentByTask
  BY <1>0, <1>1, <1>q, <1>m DEF TaskOK, HandOK, SentByTask
<1>3. NoMsg \in InHands /\ NoMsg.type = "NONE"
  BY NullValues
<1>4. /\ CallTypes' /\ pc'[c] = "notify" /\ pq'[c] = q /\ pmsg'[c] = NoMsg /\ pnt'[c] = NoTask
      /\ \A t \in Task \ {c} : /\ pc'[t] = pc[t] /\ pq'[t] = pq[t] /\ pmsg'[t] = pmsg[t] /\ pnt'[t] = pnt[t]
  BY <1>c, <1>0, <1>1, <1>2, <1>3, GotoEffect DEF CallPoints
<1>5. lock' \in [Task -> 0 .. 2] /\ lock'[c] = 2 /\ \A t \in Task \ {c} : lock'[t] = lock[t]
  <2>1. lock[c] = 1
    BY <1>0, <1>1 DEF LockAt
  <2> QED BY <1>c, <1>0, <1>1, <2>1, LockEffect
<1>6. /\ msglist' \in [Queue -> Seq(Message)]
      /\ Len(msglist'[q]) = Len(msglist[q]) + 1 /\ \A u \in Queue \ {q} : msglist'[u] = msglist[u]
      /\ \A S : /\ QueuedIn(msglist', S) = QueuedIn(msglist, S) + (IF m \in S THEN 1 ELSE 0)
                /\ Cardinality(PlacesOf(msglist'[q], S)) =
                     Cardinality(PlacesOf(msglist[q], S)) + (IF m \in S THEN 1 ELSE 0)
  BY <1>1, <1>2, InsertedEffect
<1>7. SchedTypes' /\ WaitTypes' /\ QueueTypes' /\ state'[cur'] = "READY" /\ state'[c] \notin MqWaits
  BY <1>c, <1>0, <1>1, <1>5, <1>6 DEF SchedTypes, WaitTypes, QueueTypes, MqWaits
<1>8. \A t \in Task \ {c} : Keeps(t)
  BY <1>1, <1>4, <1>5 DEF Keeps, SameCall, Alike
<1>9. TaskOK(c)'
  BY <1>c, <1>0, <1>1, <1>2, <1>3, <1>4, <1>5 DEF TaskOK, HandOK, LockAt, InMqWait
<1>10. /\ CallersOK'
       /\ \A u \in Queue, why \in MqWaits : Waiting(u, why)' = Waiting(u, why)
       /\ \A u : Takers(u) \ {c} \subseteq Takers(u)' /\ Fillers(u) \ {c} \subseteq Fillers(u)'
  BY <1>c, <1>1, <1>4, <1>7, <1>8, <1>9, CallerMoves
<1>11. Conserved'
  <2>1. \A type : (m \in OfType(type)) <=> m.type = type
    BY <1>2 DEF OfType
  <2>2. /\ QueuedIn(msglist', OfType("FIXED")) = QueuedIn(msglist, OfType("FIXED")) + Held(m, "FIXED")
        /\ QueuedIn(msglist', OfType("IRQ")) = QueuedIn(msglist, OfType("IRQ")) + Held(m, "IRQ")
    BY <1>6, <2>1 DEF Held
  <2>3. /\ QueuedIn(msglist, OfType("FIXED")) \in Nat /\ QueuedIn(msglist, OfType("IRQ")) \in Nat
        /\ msgfree \in Nat /\ msgfreeirq \in Nat
    BY <1>0, QueuedNat DEF QueueTypes
  <2>4. Held(NoMsg, "FIXED") = 0 /\ Held(NoMsg, "IRQ") = 0 /\ Held(m, "FIXED") \in Nat /\ Held(m, "IRQ") \in Nat
    BY <1>3 DEF Held
  <2>5. /\ msgfree' + QueuedIn(msglist', OfType("FIXED")) + Held(NoMsg, "FIXED")
             = msgfree + QueuedIn(msglist, OfType("FIXED")) + Held(m, "FIXED")
        /\ msgfreeirq' + QueuedIn(msglist', OfType("IRQ")) + Held(NoMsg, "IRQ")
             = msgfreeirq + QueuedIn(msglist, OfType("IRQ")) + Held(m, "IRQ")
    BY <1>1, <2>2, <2>3, <2>4
  <2> QED BY <1>c, <1>m, <1>4, <2>5, StockKept
<1>12. RoomInv'
  <2>1. Cardinality(PlacesOf(msglist[q], SentByTask)) < MaxMsgs /\ TasksRespectMaxMsgs
    BY <1>c, <1>q, <1>1 DEF MqInv, RoomInv
  <2>2. Cardinality(PlacesOf(msglist'[q], SentByTask)) <= MaxMsgs
    <3>1. Cardinality(PlacesOf(msglist'[q], SentByTask)) = Cardinality(PlacesOf(msglist[q], SentByTask)) + 1
      BY <1>2, <1>6
    <3>2. Cardinality(PlacesOf(msglist[q], SentByTask)) \in Nat /\ MaxMsgs \in Nat
      BY <1>2, QueuedNat, MqConstants
    <3> QED BY <2>1, <3>1, <3>2
  <2>3. TasksRespectMaxMsgs'
    <3>1. \A u \in Queue : Cardinality(PlacesOf(msglist'[u], SentByTask)) <= MaxMsgs
      BY <1>6, <2>1, <2>2 DEF TasksRespectMaxMsgs
    <3> QED BY <3>1 DEF TasksRespectMaxMsgs, PlacesOf, SentByTask, Message
  <2>4. cur' \in Task /\ \A t \in Task \ {c} : SameCall(t)
    BY <1>7, <1>8 DEF SchedTypes, Keeps
  <2> QED BY <1>c, <1>4, <2>3, <2>4, RoomKept
<1>13. ASSUME NEW u \in Queue PROVE TakeOK(u)' /\ FillOK(u)'
  <2>0. /\ Waiting(u, "WAIT_MQNOTEMPTY")' = Waiting(u, "WAIT_MQNOTEMPTY")
        /\ Waiting(u, "WAIT_MQNOTFULL")' = Waiting(u, "WAIT_MQNOTFULL")
        /\ Handler(u)' = Handler(u) /\ Len(msglist[u]) \in Nat
    BY <1>0, <1>1, <1>10 DEF MqWaits, Handler, QueueTypes
  <2>1. /\ c \notin Takers(u) /\ (u = q => c \in Takers(u)') /\ (u # q => c \notin Fillers(u))
    BY <1>0, <1>1, <1>4, <1>q, InServing
  <2>2. Takers(u) \subseteq Takers(u)' /\ Fillers(u) \ {c} \subseteq Fillers(u)' /\ (u # q => Fillers(u) \subseteq Fillers(u)')
    BY <1>10, <2>1
  <2>3. CASE u = q
    <3>1. Cardinality(Takers(u)) + 1 <= Cardinality(Takers(u)') /\ Cardinality(Fillers(u)) - 1 <= Cardinality(Fillers(u)')
      BY <2>1, <2>2, <2>3, ServingFinite, Sizes
    <3>2. Len(msglist'[u]) = Len(msglist[u]) + 1
      BY <1>6, <2>3
    <3>3. Len(msglist'[u]) + Cardinality(Takers(u)) + Handler(u) <= Len(msglist[u]) + Cardinality(Takers(u)') + Handler(u)'
      BY <2>0, <3>1, <3>2, ServingNat
    <3>4. Len(msglist[u]) + Cardinality(Fillers(u)) <= Len(msglist'[u]) + Cardinality(Fillers(u)')
      BY <2>0, <3>1, <3>2, ServingNat
    <3> QED BY <1>7, <2>0, <3>3, <3>4, TakeStep, FillStep
  <2>4. CASE u # q
    <3>1. Cardinality(Takers(u)) <= Cardinality(Takers(u)') /\ Cardinality(Fillers(u)) <= Cardinality(Fillers(u)')
      BY <2>2, <2>4, ServingFinite, Sizes
    <3>2. msglist'[u] = msglist[u]
      BY <1>6, <2>4
    <3>3. Len(msglist'[u]) + Cardinality(Takers(u)) + Handler(u) <= Len(msglist[u]) + Cardinality(Takers(u)') + Handler(u)'
      BY <2>0, <3>1, <3>2, ServingNat
    <3>4. Len(msglist[u]) + Cardinality(Fillers(u)) <= Len(msglist'[u]) + Cardinality(Fillers(u)')
      BY <2>0, <3>1, <3>2, ServingNat
    <3> QED BY <1>7, <2>0, <3>3, <3>4, TakeStep, FillStep
  <2> QED BY <2>3, <2>4
<1> QED BY <1>7, <1>10, <1>11, <1>12, <1>13, Conclude

LEMMA TakeFirstStep ==
    ASSUME MqInv, NEW c, c = cur, NEW q \in Queue, pc[c] = "run" \/ (pc[c] = "waitrcv" /\ pq[c] = q),
           msglist[q] # <<>>, TakeFirst(q),
           lock' \in [Task -> 0 .. 2], lock'[c] = 1, \A t \in Task \ {c} : lock'[t] = lock[t],
           waitdog' \in [Task -> BOOLEAN],
           UNCHANGED <<cur, state, prio, nwaitnotempty, nwaitnotfull, msgwaitq, ntpid, pterrno, msgfree, msgfreeirq, panic, isrq>>
    PROVE  MqInv'
<1>0. /\ c \in Task /\ state[c] = "READY" /\ TaskOK(c)
      /\ ~InMqWait(c) /\ msgwaitq[c] = NoQueue
      /\ SchedTypes /\ QueueTypes /\ CountTypes /\ WaitTypes /\ CallTypes
  BY RunningFacts
<1>m. PICK m : m = Head(msglist[q])
  OBVIOUS
<1>1. msglist' = [msglist EXCEPT ![q] = Tail(msglist[q])] /\ Goto("free", q, m, NoTask)
  BY <1>m DEF TakeFirst
<1>2. /\ msglist' \in [Queue -> Seq(Message)] /\ m \in Message
      /\ Len(msglist'[q]) = Len(msglist[q]) - 1 /\ \A u \in Queue \ {q} : msglist'[u] = msglist[u]
      /\ \A S : /\ QueuedIn(msglist', S) + (IF m \in S THEN 1 ELSE 0) = QueuedIn(msglist, S)
                /\ Cardinality(PlacesOf(msglist'[q], S)) <= Cardinality(PlacesOf(msglist[q], S))
  BY <1>m, <1>1, TakenEffect
<1>3. m \in InHands
  BY <1>2 DEF InHands
<1>4. /\ CallTypes' /\ pc'[c] = "free" /\ pq'[c] = q /\ pmsg'[c] = m /\ pnt'[c] = NoTask
      /\ \A t \in Task \ {c} : /\ pc'[t] = pc[t] /\ pq'[t] = pq[t] /\ pmsg'[t] = pmsg[t] /\ pnt'[t] = pnt[t]
  BY <1>0, <1>1, <1>3, GotoEffect DEF CallPoints
<1>7. SchedTypes' /\ WaitTypes' /\ QueueTypes' /\ state'[cur'] = "READY" /\ state'[c] \notin MqWaits
  BY <1>0, <1>2 DEF SchedTypes, WaitTypes, QueueTypes, MqWaits
<1>8. \A t \in Task \ {c} : Keeps(t)
  BY <1>4 DEF Keeps, SameCall, Alike
<1>9. TaskOK(c)'
  BY <1>0, <1>2, <1>4 DEF TaskOK, HandOK, LockAt, InMqWait
<1>10. /\ CallersOK'
       /\ \A u \in Queue, why \in MqWaits : Waiting(u, why)' = Waiting(u, why)
       /\ \A u : Takers(u) \ {c} \subseteq Takers(u)' /\ Fillers(u) \ {c} \subseteq Fillers(u)'
  BY <1>4, <1>7, <1>8, <1>9, CallerMoves
<1>11. Conserved'
  <2>1. \A type : (m \in OfType(type)) <=> m.type = type
    BY <1>2 DEF OfType
  <2>2. /\ QueuedIn(msglist', OfType("FIXED")) + Held(m, "FIXED") = QueuedIn(msglist, OfType("FIXED"))
        /\ QueuedIn(msglist', OfType("IRQ")) + Held(m, "IRQ") = QueuedIn(msglist, OfType("IRQ"))
    BY <1>2, <2>1 DEF Held
  <2>3. /\ QueuedIn(msglist, OfType("FIXED")) \in Nat /\ QueuedIn(msglist, OfType("IRQ")) \in Nat
        /\ msgfree \in Nat /\ msgfreeirq \in Nat
    BY <1>0, QueuedNat DEF QueueTypes
  <2>4. pmsg[c].type = "NONE"
    BY <1>0 DEF TaskOK, HandOK
  <2>5. Held(pmsg[c], "FIXED") = 0 /\ Held(pmsg[c], "IRQ") = 0 /\ Held(m, "FIXED") \in Nat /\ Held(m, "IRQ") \in Nat
    BY <2>4 DEF Held
  <2>6. QueuedIn(msglist', OfType("FIXED")) \in Nat /\ QueuedIn(msglist', OfType("IRQ")) \in Nat
    BY <1>2, QueuedChange, QueuedSplit
  <2>7. /\ msgfree' + QueuedIn(msglist', OfType("FIXED")) + Held(m, "FIXED")
             = msgfree + QueuedIn(msglist, OfType("FIXED")) + Held(pmsg[c], "FIXED")
        /\ msgfreeirq' + QueuedIn(msglist', OfType("IRQ")) + Held(m, "IRQ")
             = msgfreeirq + QueuedIn(msglist, OfType("IRQ")) + Held(pmsg[c], "IRQ")
    BY <2>2, <2>3, <2>5, <2>6
  <2> QED BY <1>4, <2>7, StockKept
<1>12. RoomInv'
  <2>1. TasksRespectMaxMsgs'
    <3>1. ASSUME NEW u \in Queue PROVE Cardinality(PlacesOf(msglist'[u], SentByTask)) <= MaxMsgs
      <4>1. Cardinality(PlacesOf(msglist[u], SentByTask)) <= MaxMsgs
        BY DEF MqInv, RoomInv, TasksRespectMaxMsgs
      <4>2. Cardinality(PlacesOf(msglist'[u], SentByTask)) <= Cardinality(PlacesOf(msglist[u], SentByTask))
        <5>1. Cardinality(PlacesOf(msglist[u], SentByTask)) \in Nat
          BY QueuedNat
        <5>2. CASE u = q
          BY <1>2, <5>2
        <5>3. CASE u # q
          BY <1>2, <5>1, <5>3
        <5> QED BY <5>2, <5>3
      <4>3. /\ Cardinality(PlacesOf(msglist[u], SentByTask)) \in Nat /\ MaxMsgs \in Nat
            /\ Cardinality(PlacesOf(msglist'[u], SentByTask)) \in Nat
        BY <1>2, QueuedNat, PlacesFinite, MqConstants
      <4> QED BY <4>1, <4>2, <4>3
    <3> QED BY <3>1 DEF TasksRespectMaxMsgs, PlacesOf, SentByTask, Message
  <2>2. cur' \in Task /\ \A t \in Task \ {c} : SameCall(t)
    BY <1>7, <1>8 DEF SchedTypes, Keeps
  <2> QED BY <1>4, <2>1, <2>2, RoomKept
<1>13. ASSUME NEW u \in Queue PROVE TakeOK(u)' /\ FillOK(u)'
  <2>0. /\ Waiting(u, "WAIT_MQNOTEMPTY")' = Waiting(u, "WAIT_MQNOTEMPTY")
        /\ Waiting(u, "WAIT_MQNOTFULL")' = Waiting(u, "WAIT_MQNOTFULL")
        /\ Handler(u)' = Handler(u) /\ Len(msglist[u]) \in Nat
    BY <1>0, <1>10 DEF MqWaits, Handler, QueueTypes
  <2>1. /\ c \notin Fillers(u) /\ (u = q => c \in Fillers(u)') /\ (u # q => c \notin Takers(u))
    BY <1>0, <1>4, InServing
  <2>2. Fillers(u) \subseteq Fillers(u)' /\ Takers(u) \ {c} \subseteq Takers(u)' /\ (u # q => Takers(u) \subseteq Takers(u)')
    BY <1>10, <2>1
  <2>3. CASE u = q
    <3>1. Cardinality(Fillers(u)) + 1 <= Cardinality(Fillers(u)') /\ Cardinality(Takers(u)) - 1 <= Cardinality(Takers(u)')
      BY <2>1, <2>2, <2>3, ServingFinite, Sizes
    <3>2. Len(msglist'[u]) = Len(msglist[u]) - 1
      BY <1>2, <2>3
    <3>3. Len(msglist'[u]) + Cardinality(Takers(u)) + Handler(u) <= Len(msglist[u]) + Cardinality(Takers(u)') + Handler(u)'
      BY <2>0, <3>1, <3>2, ServingNat
    <3>4. Len(msglist[u]) + Cardinality(Fillers(u)) <= Len(msglist'[u]) + Cardinality(Fillers(u)')
      BY <2>0, <3>1, <3>2, ServingNat
    <3> QED BY <1>7, <2>0, <3>3, <3>4, TakeStep, FillStep
  <2>4. CASE u # q
    <3>1. Cardinality(Takers(u)) <= Cardinality(Takers(u)') /\ Cardinality(Fillers(u)) <= Cardinality(Fillers(u)')
      BY <2>2, <2>4, ServingFinite, Sizes
    <3>2. msglist'[u] = msglist[u]
      BY <1>2, <2>4
    <3>3. Len(msglist'[u]) + Cardinality(Takers(u)) + Handler(u) <= Len(msglist[u]) + Cardinality(Takers(u)') + Handler(u)'
      BY <2>0, <3>1, <3>2, ServingNat
    <3>4. Len(msglist[u]) + Cardinality(Fillers(u)) <= Len(msglist'[u]) + Cardinality(Fillers(u)')
      BY <2>0, <3>1, <3>2, ServingNat
    <3> QED BY <1>7, <2>0, <3>3, <3>4, TakeStep, FillStep
  <2> QED BY <2>3, <2>4
<1> QED BY <1>7, <1>10, <1>11, <1>12, <1>13, Conclude

LEMMA ReceiveTakes ==
    ASSUME MqInv, NEW q \in Queue, MqReceive(q), msglist[q] # <<>>
    PROVE  MqInv'
<1>c. PICK c : c = cur
  OBVIOUS
<1>0. c \in Task /\ lock[c] = LockAt(pc[c]) /\ SchedTypes /\ WaitTypes
  BY <1>c, RunningFacts
<1>1. /\ pc[c] = "run" /\ SchedLock /\ TakeFirst(q)
      /\ UNCHANGED <<cur, state, prio, nwaitnotempty, nwaitnotfull, msgwaitq, ntpid, pterrno, waitdog, msgfree, msgfreeirq, panic, isrq>>
  BY <1>c DEF MqReceive, Running, waitVars, poolVars
<1>2. lock' \in [Task -> 0 .. 2] /\ lock'[c] = 1 /\ \A t \in Task \ {c} : lock'[t] = lock[t]
  <2>1. lock[c] = 0
    BY <1>0, <1>1 DEF LockAt
  <2> QED BY <1>c, <1>0, <1>1, <2>1, LockEffect
<1>3. waitdog' \in [Task -> BOOLEAN]
  BY <1>0, <1>1 DEF WaitTypes
<1> QED BY <1>c, <1>1, <1>2, <1>3, TakeFirstStep

LEMMA ReceiverTakes ==
    ASSUME MqInv, ReceiveResumes, pterrno[cur] = "OK", msglist[pq[cur]] # <<>>
    PROVE  MqInv'
<1>c. PICK c : c = cur
  OBVIOUS
<1>0. c \in Task /\ TaskOK(c) /\ lock[c] = LockAt(pc[c]) /\ SchedTypes /\ WaitTypes
  BY <1>c, RunningFacts
<1>q. PICK q : q = pq[c]
  OBVIOUS
<1>1. /\ pc[c] = "waitrcv" /\ TakeFirst(q) /\ waitdog' = [waitdog EXCEPT ![c] = FALSE] /\ msglist[q] # <<>>
      /\ UNCHANGED <<cur, state, prio, lock, nwaitnotempty, nwaitnotfull, msgwaitq, ntpid, pterrno, msgfree, msgfreeirq, panic, isrq>>
  BY <1>c, <1>q DEF ReceiveResumes, At, SetDog, schedVars, waitVars, poolVars
<1>2. q \in Queue
  BY <1>0, <1>1, <1>q DEF TaskOK
<1>3. lock' \in [Task -> 0 .. 2] /\ lock'[c] = 1 /\ \A t \in Task \ {c} : lock'[t] = lock[t]
  BY <1>0, <1>1 DEF SchedTypes, LockAt
<1>4. waitdog' \in [Task -> BOOLEAN]
  BY <1>0, <1>1 DEF WaitTypes
<1> QED BY <1>c, <1>q, <1>1, <1>2, <1>3, <1>4, TakeFirstStep

-----------------------------------------------------------------------------
(***************************************************************************)
(* The caller wakes a task.                                                *)
(***************************************************************************)
WakePoint(why) == IF why = "WAIT_MQNOTEMPTY" THEN "wake" ELSE "wakesnd"

\* mq_dosend and mq_doreceive end with a task that they woke.
LEMMA FinishWakes ==
    ASSUME MqInv, NEW c, c = cur, NEW q \in Queue, pq[c] = q, NEW why \in MqWaits, pc[c] = WakePoint(why),
           NEW w \in Waiting(q, why), NEW n, lock[c] = n, Finish(AddReady(c, state, prio, lock, w), n),
           msgwaitq' = [msgwaitq EXCEPT ![w] = NoQueue],
           nwaitnotempty' = WaitCounts(nwaitnotempty, w, "WAIT_MQNOTEMPTY"),
           nwaitnotfull' = WaitCounts(nwaitnotfull, w, "WAIT_MQNOTFULL"),
           UNCHANGED <<prio, msglist, ntpid, pterrno, waitdog, msgfree, msgfreeirq, panic, isrq>>
    PROVE  MqInv'
<1>0. /\ c \in Task /\ state[c] = "READY" /\ TaskOK(c) /\ msgwaitq[c] = NoQueue
      /\ SchedTypes /\ QueueTypes /\ CountTypes /\ WaitTypes /\ CallTypes /\ \A t \in Task : TaskOK(t)
  BY RunningFacts
<1>1. w \in Task /\ state[w] = why /\ msgwaitq[w] = q /\ state[w] # "READY" /\ InMqWait(w) /\ pq[w] = q /\ pterrno[w] = "OK"
  <2>1. w \in Task /\ state[w] = why /\ msgwaitq[w] = q
    BY InWaiting
  <2> QED BY <1>0, <2>1 DEF MqWaits, InMqWait, TaskOK
<1> DEFINE st == AddReady(c, state, prio, lock, w)
<1>2. /\ st \in [Task -> MqStates] /\ st[c] = "READY" /\ st[w] \in {"READY", "PENDING"}
      /\ \A t \in Task \ {w} : st[t] = state[t]
      /\ w # c
  BY <1>1, AddReadyEffect
<1> HIDE DEF st
<1>3. /\ SchedTypes' /\ state'[cur'] = "READY" /\ CallTypes'
      /\ lock'[c] = 0 /\ pc'[c] = "run" /\ pq'[c] = NoQueue /\ pmsg'[c] = NoMsg /\ pnt'[c] = NoTask
      /\ \A t \in Task : Alike(st[t], state'[t])
      /\ \A t \in Task \ {c} : SameCall(t)
  <2>1. Finish(st, n)
    BY DEF st
  <2> QED BY <1>2, <2>1, FinishEffect
<1>4. /\ WaitTypes' /\ QueueTypes' /\ msgwaitq'[w] = NoQueue /\ pterrno'[w] = "OK"
      /\ \A t \in Task \ {w} : msgwaitq'[t] = msgwaitq[t] /\ pterrno'[t] = pterrno[t]
  BY <1>0, <1>1 DEF WaitTypes, QueueTypes
<1>5. state'[c] \in {"READY", "PENDING"} /\ state'[w] \in {"READY", "PENDING"}
  BY <1>0, <1>1, <1>2, <1>3 DEF Alike
<1>6. WakesUp(w, "OK")
  BY <1>1, <1>2, <1>3, <1>4, <1>5 DEF WakesUp
<1>7. \A t \in Task \ {c, w} : Keeps(t)
  BY <1>2, <1>3, <1>4 DEF Keeps
<1>8. NoQueue \notin Queue /\ NoMsg.type = "NONE"
  BY NullValues
<1>9. TaskOK(c)'
  BY <1>0, <1>2, <1>3, <1>4, <1>5, <1>8 DEF TaskOK, HandOK, LockAt, InMqWait
<1>10. /\ CallersOK'
       /\ \A u \in Queue, x \in MqWaits : Waiting(u, x)' = Waiting(u, x) \ {w}
       /\ \A u : Takers(u) \ {c} \subseteq Takers(u)' /\ Fillers(u) \ {c} \subseteq Fillers(u)'
  <2>1. w \in Task \ {c} /\ state'[c] \notin MqWaits
    BY <1>1, <1>2, <1>5 DEF MqWaits
  <2> QED BY <1>3, <1>4, <1>6, <1>7, <1>9, <2>1, WaiterWakes
<1>11. Conserved' /\ TasksRespectMaxMsgs'
  <2>1. pmsg[c].type = "NONE"
    BY <1>0 DEF TaskOK, HandOK, WakePoint
  <2>2. \A t \in Task \ {c} : pmsg'[t] = pmsg[t]
    BY <1>3 DEF SameCall
  <2> QED BY <1>3, <1>8, <2>1, <2>2, StockSame
<1>12. RoomInv'
  <2>1. cur' \in Task /\ pc'[c] \notin {"alloc", "insert"}
    BY <1>3 DEF SchedTypes
  <2> QED BY <1>3, <1>11, <2>1, RoomKept
<1>13. ASSUME NEW u \in Queue PROVE TakeOK(u)' /\ FillOK(u)'
  <2>0. /\ Waiting(u, "WAIT_MQNOTEMPTY")' \subseteq Waiting(u, "WAIT_MQNOTEMPTY")
        /\ Waiting(u, "WAIT_MQNOTFULL")' \subseteq Waiting(u, "WAIT_MQNOTFULL")
        /\ Handler(u)' = Handler(u) /\ Len(msglist[u]) \in Nat /\ msglist'[u] = msglist[u]
    BY <1>0, <1>10 DEF MqWaits, Handler, QueueTypes
  <2>1. /\ w \notin Takers(u) /\ w \notin Fillers(u)
        /\ w \in Takers(u)' <=> u = q /\ why = "WAIT_MQNOTEMPTY"
        /\ w \in Fillers(u)' <=> u = q /\ why = "WAIT_MQNOTFULL"
    BY <1>0, <1>1, <1>6, WakesServing
  <2>2. Cardinality(Takers(u)) <= Cardinality(Takers(u)')
    <3>1. CASE u = q /\ why = "WAIT_MQNOTEMPTY"
      BY <1>10, <2>1, <3>1, ServingFinite, Sizes
    <3>2. CASE ~(u = q /\ why = "WAIT_MQNOTEMPTY")
      <4>1. c \notin Takers(u)
        BY <3>2, InServing DEF WakePoint, MqWaits
      <4>2. Takers(u) \subseteq Takers(u)'
        BY <1>10, <4>1
      <4> QED BY <4>2, ServingFinite, Sizes
    <3> QED BY <3>1, <3>2
  <2>3. Cardinality(Fillers(u)) <= Cardinality(Fillers(u)')
    <3>1. CASE u = q /\ why = "WAIT_MQNOTFULL"
      BY <1>10, <2>1, <3>1, ServingFinite, Sizes
    <3>2. CASE ~(u = q /\ why = "WAIT_MQNOTFULL")
      <4>1. c \notin Fillers(u)
        BY <3>2, InServing DEF WakePoint, MqWaits
      <4>2. Fillers(u) \subseteq Fillers(u)'
        BY <1>10, <4>1
      <4> QED BY <4>2, ServingFinite, Sizes
    <3> QED BY <3>1, <3>2
  <2>4. Len(msglist'[u]) + Cardinality(Takers(u)) + Handler(u) <= Len(msglist[u]) + Cardinality(Takers(u)') + Handler(u)'
    BY <2>0, <2>2, ServingNat
  <2>5. Len(msglist[u]) + Cardinality(Fillers(u)) <= Len(msglist'[u]) + Cardinality(Fillers(u)')
    BY <2>0, <2>3, ServingNat
  <2> QED BY <1>4, <2>0, <2>4, <2>5, TakeStep, FillStep
<1> QED BY <1>4, <1>10, <1>11, <1>12, <1>13, Conclude

LEMMA WakeReceiverStep ==
    ASSUME MqInv, WakeReceiver, WakesReceiver(pq[cur])
    PROVE  MqInv'
<1>c. PICK c : c = cur
  OBVIOUS
<1>0. c \in Task /\ TaskOK(c) /\ lock[c] = LockAt(pc[c])
  BY <1>c, RunningFacts
<1>q. PICK q : q = pq[c]
  OBVIOUS
<1>1. /\ pc[c] = "wake"
      /\ UNCHANGED <<prio, msglist, nwaitnotfull, ntpid, pterrno, waitdog, msgfree, msgfreeirq, panic, isrq>>
  BY <1>c DEF WakeReceiver, At, poolVars
<1>2. q \in Queue /\ lock[c] = 2
  BY <1>0, <1>1, <1>q DEF TaskOK, LockAt
<1>3. PICK w \in FirstWaiting(q, "WAIT_MQNOTEMPTY") :
        /\ msgwaitq' = [msgwaitq EXCEPT ![w] = NoQueue]
        /\ nwaitnotempty' = [nwaitnotempty EXCEPT ![q] = nwaitnotempty[q] - 1]
        /\ Finish(AddReady(c, state, prio, lock, w), 2)
  BY <1>c, <1>q DEF WakeReceiver, Woken
<1>4. w \in Waiting(q, "WAIT_MQNOTEMPTY") /\ w \in Task
  BY <1>3 DEF FirstWaiting, Highest, Waiting
<1>5. /\ nwaitnotempty' = WaitCounts(nwaitnotempty, w, "WAIT_MQNOTEMPTY")
      /\ nwaitnotfull' = WaitCounts(nwaitnotfull, w, "WAIT_MQNOTFULL")
  BY <1>1, <1>2, <1>3, <1>4, WokenCounts
<1>6. "WAIT_MQNOTEMPTY" \in MqWaits /\ pc[c] = WakePoint("WAIT_MQNOTEMPTY")
  BY <1>1 DEF MqWaits, WakePoint
<1> QED BY <1>c, <1>q, <1>1, <1>2, <1>3, <1>4, <1>5, <1>6, FinishWakes

LEMMA WakeSenderStep ==
    ASSUME MqInv, WakeSender
    PROVE  MqInv'
<1>c. PICK c : c = cur
  OBVIOUS
<1>0. c \in Task /\ TaskOK(c) /\ lock[c] = LockAt(pc[c])
  BY <1>c, RunningFacts
<1>q. PICK q : q = pq[c]
  OBVIOUS
<1>1. /\ pc[c] = "wakesnd"
      /\ UNCHANGED <<prio, msglist, nwaitnotempty, ntpid, pterrno, waitdog, msgfree, msgfreeirq, panic, isrq>>
  BY <1>c DEF WakeSender, At, poolVars
<1>2. q \in Queue /\ lock[c] = 1
  BY <1>0, <1>1, <1>q DEF TaskOK, LockAt
<1>3. PICK w \in FirstWaiting(q, "WAIT_MQNOTFULL") :
        /\ msgwaitq' = [msgwaitq EXCEPT ![w] = NoQueue]
        /\ nwaitnotfull' = [nwaitnotfull EXCEPT ![q] = nwaitnotfull[q] - 1]
        /\ Finish(AddReady(c, state, prio, lock, w), 1)
  BY <1>c, <1>q DEF WakeSender, Woken
<1>4. w \in Waiting(q, "WAIT_MQNOTFULL") /\ w \in Task
  BY <1>3 DEF FirstWaiting, Highest, Waiting
<1>5. /\ nwaitnotempty' = WaitCounts(nwaitnotempty, w, "WAIT_MQNOTEMPTY")
      /\ nwaitnotfull' = WaitCounts(nwaitnotfull, w, "WAIT_MQNOTFULL")
  BY <1>1, <1>2, <1>3, <1>4, WokenCounts
<1>6. "WAIT_MQNOTFULL" \in MqWaits /\ pc[c] = WakePoint("WAIT_MQNOTFULL")
  BY <1>1 DEF MqWaits, WakePoint
<1> QED BY <1>c, <1>q, <1>1, <1>2, <1>3, <1>4, <1>5, <1>6, FinishWakes

\* The registered task is signalled.
LEMMA SignalNotifyStep ==
    ASSUME MqInv, SignalNotify
    PROVE  MqInv'
<1>c. PICK c : c = cur
  OBVIOUS
<1>0. /\ c \in Task /\ state[c] = "READY" /\ TaskOK(c) /\ lock[c] = LockAt(pc[c])
      /\ ~InMqWait(c) /\ msgwaitq[c] = NoQueue
      /\ SchedTypes /\ QueueTypes /\ CountTypes /\ WaitTypes /\ CallTypes /\ \A t \in Task : TaskOK(t)
  BY <1>c, RunningFacts
<1>q. PICK q : q = pq[c]
  OBVIOUS
<1>w. PICK w : w = pnt[c]
  OBVIOUS
<1>1. /\ pc[c] = "signal" /\ ntpid' = [ntpid EXCEPT ![q] = NoTask]
      /\ state' = IF state[w] \in Blocked THEN AddReady(c, state, prio, lock, w) ELSE state
      /\ IF InMqWait(w) THEN WaitIrq(w, "EINTR") ELSE UNCHANGED <<nwaitnotempty, nwaitnotfull, msgwaitq, pterrno>>
      /\ Goto("wake", q, NoMsg, NoTask)
      /\ UNCHANGED <<cur, prio, lock, msglist, waitdog, msgfree, msgfreeirq, panic, isrq>>
  BY <1>c, <1>q, <1>w DEF SignalNotify, At, poolVars, waitVars
<1>2. q \in Queue /\ w \in Task
  BY <1>0, <1>1, <1>q, <1>w DEF TaskOK, HandOK
<1>3. NoMsg \in InHands /\ NoMsg.type = "NONE"
  BY NullValues
<1>4. /\ CallTypes' /\ pc'[c] = "wake" /\ pq'[c] = q /\ pmsg'[c] = NoMsg /\ pnt'[c] = NoTask
      /\ \A t \in Task \ {c} : /\ pc'[t] = pc[t] /\ pq'[t] = pq[t] /\ pmsg'[t] = pmsg[t] /\ pnt'[t] = pnt[t]
  BY <1>c, <1>0, <1>1, <1>2, <1>3, GotoEffect DEF CallPoints
<1>5. /\ state' \in [Task -> MqStates] /\ state'[c] = "READY" /\ \A t \in Task \ {w} : state'[t] = state[t]
      /\ state[w] \in Blocked => w # c /\ state'[w] \in {"READY", "PENDING"}
      /\ state[w] \notin Blocked => state'[w] = state[w]
  <2>1. CASE state[w] \in Blocked
    <3>1. state[w] # "READY"
      BY <2>1, MqConstants
    <3> QED BY <1>c, <1>1, <1>2, <2>1, <3>1, AddReadyEffect
  <2>2. CASE state[w] \notin Blocked
    BY <1>0, <1>1, <2>2 DEF SchedTypes
  <2> QED BY <2>1, <2>2
<1>6. SchedTypes' /\ state'[cur'] = "READY" /\ state'[c] \notin MqWaits /\ QueueTypes'
  BY <1>c, <1>0, <1>1, <1>2, <1>5 DEF SchedTypes, QueueTypes, MqWaits
<1>7. Conserved' /\ TasksRespectMaxMsgs'
  <2>1. pmsg[c].type = "NONE"
    BY <1>0, <1>1 DEF TaskOK, HandOK
  <2> QED BY <1>c, <1>1, <1>3, <1>4, <2>1, StockSame
<1>8. \A u : (c \in Takers(u) => c \in Takers(u)') /\ c \notin Fillers(u)
  BY <1>0, <1>1, <1>4, <1>q, InServing
<1>9. CASE ~InMqWait(w)
  <2>1. UNCHANGED <<nwaitnotempty, nwaitnotfull, msgwaitq, pterrno>>
    BY <1>1, <1>9
  <2>2. WaitTypes'
    BY <1>0, <1>1, <2>1 DEF WaitTypes
  <2>3. Alike(state[w], state'[w])
    BY <1>5, <1>9, MqConstants DEF Alike, InMqWait
  <2>4. \A t \in Task \ {c} : Keeps(t)
    BY <1>1, <1>4, <1>5, <2>1, <2>3 DEF Keeps, SameCall, Alike
  <2>5. TaskOK(c)'
    BY <1>c, <1>0, <1>1, <1>2, <1>3, <1>4, <1>5, <2>1 DEF TaskOK, HandOK, LockAt, InMqWait
  <2> QED BY <1>c, <1>1, <1>4, <1>6, <1>7, <1>8, <2>1, <2>2, <2>4, <2>5, QuietStep
<1>10. CASE InMqWait(w)
  <2>0. w # c /\ state'[w] \in {"READY", "PENDING"}
    BY <1>5, <1>10, MqConstants DEF InMqWait
  <2>1. /\ nwaitnotempty' = WaitCounts(nwaitnotempty, w, "WAIT_MQNOTEMPTY")
        /\ nwaitnotfull' = WaitCounts(nwaitnotfull, w, "WAIT_MQNOTFULL")
        /\ msgwaitq' = [msgwaitq EXCEPT ![w] = NoQueue] /\ pterrno' = [pterrno EXCEPT ![w] = "EINTR"]
    BY <1>1, <1>10 DEF WaitIrq
  <2>2. /\ WaitTypes' /\ msgwaitq'[w] = NoQueue /\ pterrno'[w] = "EINTR"
        /\ \A t \in Task \ {w} : msgwaitq'[t] = msgwaitq[t] /\ pterrno'[t] = pterrno[t]
    BY <1>0, <1>1, <1>2, <2>1 DEF WaitTypes
  <2>3. WakesUp(w, "EINTR")
    BY <1>1, <1>2, <1>4, <1>10, <2>0, <2>2 DEF WakesUp, SameCall
  <2>4. \A t \in Task \ {c, w} : Keeps(t)
    BY <1>1, <1>4, <1>5, <2>2 DEF Keeps, SameCall, Alike
  <2>5. TaskOK(c)'
    BY <1>c, <1>0, <1>1, <1>2, <1>3, <1>4, <1>5, <2>0, <2>2 DEF TaskOK, HandOK, LockAt, InMqWait
  <2>6. /\ CallersOK'
        /\ \A u \in Queue, x \in MqWaits : Waiting(u, x)' = Waiting(u, x) \ {w}
        /\ \A u : Takers(u) \ {c} \subseteq Takers(u)' /\ Fillers(u) \ {c} \subseteq Fillers(u)'
    <3>1. w \in Task \ {c}
      BY <1>2, <2>0
    <3> QED BY <1>c, <1>4, <1>6, <2>1, <2>2, <2>3, <2>4, <2>5, <3>1, WaiterWakes
  <2>7. RoomInv'
    <3>1. cur' \in Task /\ \A t \in Task \ {c} : SameCall(t)
      BY <1>1, <1>4, <1>6 DEF SchedTypes, SameCall
    <3> QED BY <1>c, <1>4, <1>7, <3>1, RoomKept
  <2>8. ASSUME NEW u \in Queue PROVE TakeOK(u)' /\ FillOK(u)'
    <3>0. /\ Waiting(u, "WAIT_MQNOTEMPTY")' \subseteq Waiting(u, "WAIT_MQNOTEMPTY")
          /\ Waiting(u, "WAIT_MQNOTFULL")' \subseteq Waiting(u, "WAIT_MQNOTFULL")
          /\ Handler(u)' = Handler(u) /\ Len(msglist[u]) \in Nat /\ msglist'[u] = msglist[u]
      BY <1>0, <1>1, <2>6 DEF MqWaits, Handler, QueueTypes
    <3>1. Takers(u) \subseteq Takers(u)' /\ Fillers(u) \subseteq Fillers(u)'
      BY <1>8, <2>6
    <3>2. Cardinality(Takers(u)) <= Cardinality(Takers(u)') /\ Cardinality(Fillers(u)) <= Cardinality(Fillers(u)')
      BY <3>1, ServingFinite, Sizes
    <3>3. Len(msglist'[u]) + Cardinality(Takers(u)) + Handler(u) <= Len(msglist[u]) + Cardinality(Takers(u)') + Handler(u)'
      BY <3>0, <3>2, ServingNat
    <3>4. Len(msglist[u]) + Cardinality(Fillers(u)) <= Len(msglist'[u]) + Cardinality(Fillers(u)')
      BY <3>0, <3>2, ServingNat
    <3> QED BY <1>6, <3>0, <3>3, <3>4, TakeStep, FillStep
  <2> QED BY <1>6, <1>7, <2>6, <2>7, <2>8, Conclude
<1> QED BY <1>9, <1>10

-----------------------------------------------------------------------------
(***************************************************************************)
(* Interrupt handlers.                                                     *)
(***************************************************************************)
\* No task is less ready to serve, and none waits more.
NoneLost ==
    \A q \in Queue : /\ Waiting(q, "WAIT_MQNOTEMPTY")' \subseteq Waiting(q, "WAIT_MQNOTEMPTY")
                     /\ Waiting(q, "WAIT_MQNOTFULL")' \subseteq Waiting(q, "WAIT_MQNOTFULL")
                     /\ Takers(q) \subseteq Takers(q)' /\ Fillers(q) \subseteq Fillers(q)'

\* The calls stay where they are.
CallsStay == UNCHANGED <<prio, lock, pc, pq, pmsg, pnt>>

\* An interrupt leaves the calls of the tasks where they are.
LEMMA CallersStay ==
    ASSUME MqInv, CallsStay, UNCHANGED <<cur, state, nwaitnotempty, nwaitnotfull, msgwaitq, pterrno>>,
           waitdog' \in [Task -> BOOLEAN]
    PROVE  CallersOK' /\ NoneLost
<1>1. CallersOK
  BY RunningFacts DEF CallersOK, MqInv
<1>2. CallersOK'
  <2>1. SchedTypes' /\ CountTypes' /\ CallTypes'
    BY <1>1 DEF CallsStay, CallersOK, SchedTypes, CountTypes, CallTypes
  <2>2. WaitTypes'
    BY <1>1 DEF CallersOK, WaitTypes
  <2>3. TasksInv'
    BY <1>1 DEF CallsStay, CallersOK, TasksInv, TaskOK, HandOK, InMqWait
  <2>4. WaitCountsMatch'
    BY <1>1 DEF CallersOK, WaitCountsMatch, Waiting
  <2> QED BY <2>1, <2>2, <2>3, <2>4 DEF CallersOK
<1>3. NoneLost
  BY DEF CallsStay, NoneLost, Waiting, Takers, Fillers
<1> QED BY <1>2, <1>3

\* The interrupted task goes on, or is preempted outside of any call.
LEMMA InterruptedOK ==
    ASSUME MqInv, NEW c, c = cur, Keeps(c), cur' # c => lock[c] = 0
    PROVE  TaskOK(c)'
<1>1. TaskOK(c) /\ lock[c] = LockAt(pc[c])
  BY RunningFacts
<1>2. lock[c] = 0 => pc[c] = "run"
  BY <1>1 DEF LockAt
<1> QED BY <1>1, <1>2, KeepsOK

LEMMA HandlerWakes ==
    ASSUME MqInv, NEW c, c = cur, NEW w \in Task, InMqWait(w), Ready(w), NEW err \in {"OK", "EINTR", "ETIMEDOUT"},
           nwaitnotempty' = WaitCounts(nwaitnotempty, w, "WAIT_MQNOTEMPTY"),
           nwaitnotfull' = WaitCounts(nwaitnotfull, w, "WAIT_MQNOTFULL"),
           msgwaitq' = [msgwaitq EXCEPT ![w] = NoQueue], pterrno' = [pterrno EXCEPT ![w] = err],
           CallsStay, waitdog' \in [Task -> BOOLEAN]
    PROVE  CallersOK' /\ NoneLost /\ WakesUp(w, err)
<1>0. /\ c \in Task /\ state[c] = "READY" /\ SchedTypes /\ WaitTypes /\ CallTypes /\ \A t \in Task : TaskOK(t)
  BY RunningFacts
<1>1. state[w] # "READY"
  BY DEF InMqWait
<1>2. /\ SchedTypes' /\ state'[cur'] = "READY" /\ w # c /\ (cur' # c => lock[c] = 0)
      /\ state'[w] \in {"READY", "PENDING"} /\ \A t \in Task \ {w} : state'[t] = state[t]
  BY <1>1, ReadyEffect DEF CallsStay
<1>3. /\ WaitTypes' /\ msgwaitq'[w] = NoQueue /\ pterrno'[w] = err
      /\ \A t \in Task \ {w} : msgwaitq'[t] = msgwaitq[t] /\ pterrno'[t] = pterrno[t]
  BY <1>0 DEF WaitTypes
<1>4. CallTypes' /\ \A t \in Task : SameCall(t)
  BY <1>0 DEF CallTypes, CallsStay, SameCall
<1>5. WakesUp(w, err) /\ \A t \in Task \ {w} : Keeps(t)
  BY <1>2, <1>3, <1>4 DEF WakesUp, Keeps, Alike
<1>6. Keeps(c) /\ TaskOK(c)'
  BY <1>0, <1>2, <1>5, InterruptedOK
<1>7. /\ CallersOK'
      /\ \A q \in Queue, why \in MqWaits : Waiting(q, why)' = Waiting(q, why) \ {w}
      /\ \A q : Takers(q) \ {c} \subseteq Takers(q)' /\ Fillers(q) \ {c} \subseteq Fillers(q)'
  <2>1. w \in Task \ {c} /\ state'[c] \notin MqWaits
    BY <1>0, <1>2 DEF MqWaits
  <2> QED BY <1>2, <1>3, <1>4, <1>5, <1>6, <2>1, WaiterWakes
<1>8. \A q : (c \in Takers(q)' <=> c \in Takers(q)) /\ (c \in Fillers(q)' <=> c \in Fillers(q))
  BY <1>0, <1>6, KeepsServing
<1>9. NoneLost
  BY <1>7, <1>8 DEF NoneLost, MqWaits
<1> QED BY <1>5, <1>7, <1>9

LEMMA HandlerSignals ==
    ASSUME MqInv, NEW w \in Task, Signal(w), CallsStay, UNCHANGED waitdog
    PROVE  CallersOK' /\ NoneLost
<1>c. PICK c : c = cur
  OBVIOUS
<1>0. /\ c \in Task /\ state[c] = "READY" /\ SchedTypes /\ WaitTypes /\ CallTypes /\ \A t \in Task : TaskOK(t)
  BY <1>c, RunningFacts
<1>d. waitdog' \in [Task -> BOOLEAN]
  BY <1>0 DEF WaitTypes
<1>1. CASE InMqWait(w)
  <2>1. Ready(w) /\ WaitIrq(w, "EINTR")
    BY <1>1, MqConstants DEF Signal, InMqWait
  <2> QED BY <1>c, <1>d, <1>1, <2>1, HandlerWakes DEF WaitIrq
<1>2. CASE ~InMqWait(w) /\ state[w] \in Blocked
  <2>1. Ready(w) /\ UNCHANGED <<nwaitnotempty, nwaitnotfull, msgwaitq, pterrno>> /\ state[w] = "WAIT_SIG"
    BY <1>2, MqConstants DEF Signal, InMqWait, waitVars
  <2>2. /\ SchedTypes' /\ state'[cur'] = "READY" /\ w # c /\ (cur' # c => lock[c] = 0)
        /\ state'[w] \in {"READY", "PENDING"} /\ \A t \in Task \ {w} : state'[t] = state[t]
    BY <1>c, <2>1, ReadyEffect DEF CallsStay
  <2>3. WaitTypes' /\ CallTypes'
    BY <1>0, <1>d, <2>1 DEF WaitTypes, CallTypes, CallsStay
  <2>4. \A t \in Task : Keeps(t)
    BY <2>1, <2>2 DEF Keeps, SameCall, CallsStay, Alike
  <2>5. TaskOK(c)' /\ state'[c] \notin MqWaits
    BY <1>c, <1>0, <2>2, <2>4, InterruptedOK DEF MqWaits
  <2>6. /\ CallersOK'
        /\ \A q \in Queue, why \in MqWaits : Waiting(q, why)' = Waiting(q, why)
        /\ \A q : Takers(q) \ {c} \subseteq Takers(q)' /\ Fillers(q) \ {c} \subseteq Fillers(q)'
    BY <1>c, <2>1, <2>2, <2>3, <2>4, <2>5, CallerMoves
  <2>7. \A q : (c \in Takers(q)' <=> c \in Takers(q)) /\ (c \in Fillers(q)' <=> c \in Fillers(q))
    BY <1>0, <2>4, KeepsServing
  <2>8. NoneLost
    BY <2>6, <2>7 DEF NoneLost, MqWaits
  <2> QED BY <2>6, <2>8
<1>3. CASE state[w] \notin Blocked
  <2>1. ~InMqWait(w)
    BY <1>3, MqConstants DEF InMqWait
  <2>2. UNCHANGED <<cur, state, nwaitnotempty, nwaitnotfull, msgwaitq, pterrno>>
    BY <1>3, <2>1 DEF Signal, waitVars
  <2> QED BY <1>d, <2>2, CallersStay
<1> QED BY <1>1, <1>2, <1>3

\* A handler that leaves the lists and the pools alone.
LEMMA HandlerEnds ==
    ASSUME MqInv, CallersOK', NoneLost, CallsStay,
           UNCHANGED <<msglist, ntpid, msgfree, msgfreeirq, panic, isrq>>
    PROVE  MqInv'
<1>c. PICK c : c = cur
  OBVIOUS
<1>0. c \in Task /\ QueueTypes
  BY <1>c, RunningFacts
<1>1. QueueTypes' /\ cur' \in Task
  BY <1>0 DEF QueueTypes, CallersOK, SchedTypes
<1>2. Conserved' /\ TasksRespectMaxMsgs'
  BY <1>c, StockSame DEF CallsStay
<1>3. RoomInv'
  <2>1. \A t \in Task : SameCall(t)
    BY DEF SameCall, CallsStay
  <2>2. pc'[c] \in {"alloc", "insert"} => Cardinality(PlacesOf(msglist'[pq'[c]], SentByTask)) < MaxMsgs
    BY <1>c DEF CallsStay, MqInv, RoomInv
  <2> QED BY <1>c, <1>1, <1>2, <2>1, <2>2, RoomKept
<1>4. ASSUME NEW u \in Queue PROVE TakeOK(u)' /\ FillOK(u)'
  <2>0. /\ Waiting(u, "WAIT_MQNOTEMPTY")' \subseteq Waiting(u, "WAIT_MQNOTEMPTY")
        /\ Waiting(u, "WAIT_MQNOTFULL")' \subseteq Waiting(u, "WAIT_MQNOTFULL")
        /\ Takers(u) \subseteq Takers(u)' /\ Fillers(u) \subseteq Fillers(u)'
        /\ Handler(u)' = Handler(u) /\ Len(msglist[u]) \in Nat /\ msglist'[u] = msglist[u]
    BY <1>0 DEF NoneLost, Handler, QueueTypes
  <2>1. Cardinality(Takers(u)) <= Cardinality(Takers(u)') /\ Cardinality(Fillers(u)) <= Cardinality(Fillers(u)')
    BY <2>0, ServingFinite, Sizes
  <2>2. Len(msglist'[u]) + Cardinality(Takers(u)) + Handler(u) <= Len(msglist[u]) + Cardinality(Takers(u)') + Handler(u)'
    BY <2>0, <2>1, ServingNat
  <2>3. Len(msglist[u]) + Cardinality(Fillers(u)) <= Len(msglist'[u]) + Cardinality(Fillers(u)')
    BY <2>0, <2>1, ServingNat
  <2> QED BY <1>1, <2>0, <2>2, <2>3, TakeStep, FillStep
<1> QED BY <1>1, <1>2, <1>3, <1>4, Conclude

LEMMA TimeoutStep ==
    ASSUME MqInv, NEW w \in Task, Timeout(w)
    PROVE  MqInv'
<1>c. PICK c : c = cur
  OBVIOUS
<1>0. WaitTypes
  BY <1>c, RunningFacts
<1>1. /\ CallsStay /\ UNCHANGED <<msglist, ntpid, msgfree, msgfreeirq, panic, isrq>>
      /\ waitdog' = [waitdog EXCEPT ![w] = FALSE]
  BY DEF Timeout, CallsStay, poolVars
<1>2. waitdog' \in [Task -> BOOLEAN]
  BY <1>0, <1>1 DEF WaitTypes
<1>3. CallersOK' /\ NoneLost
  <2>1. CASE InMqWait(w)
    <3>1. Ready(w) /\ WaitIrq(w, "ETIMEDOUT")
      BY <2>1 DEF Timeout
    <3> QED BY <1>c, <1>1, <1>2, <2>1, <3>1, HandlerWakes DEF WaitIrq
  <2>2. CASE ~InMqWait(w)
    <3>1. UNCHANGED <<cur, state, nwaitnotempty, nwaitnotfull, msgwaitq, pterrno>>
      BY <2>2 DEF Timeout, waitVars
    <3> QED BY <1>1, <1>2, <3>1, CallersStay
  <2> QED BY <2>1, <2>2
<1> QED BY <1>1, <1>3, HandlerEnds

LEMMA IsrSignalStep ==
    ASSUME MqInv, NEW w \in Task, IsrSignal(w)
    PROVE  MqInv'
<1>1. /\ CallsStay /\ UNCHANGED <<msglist, ntpid, msgfree, msgfreeirq, panic, isrq>>
      /\ UNCHANGED waitdog /\ Signal(w)
  BY DEF IsrSignal, CallsStay, poolVars
<1>2. CallersOK' /\ NoneLost
  BY <1>1, HandlerSignals
<1> QED BY <1>1, <1>2, HandlerEnds

LEMMA IsrWakeStep ==
    ASSUME MqInv, IsrWake
    PROVE  MqInv'
<1>c. PICK c : c = cur
  OBVIOUS
<1>0. c \in Task /\ QueueTypes /\ WaitTypes /\ CountTypes /\ \A t \in Task : TaskOK(t)
  BY <1>c, RunningFacts
<1>q. PICK q : q = isrq
  OBVIOUS
<1>1. /\ CallsStay /\ UNCHANGED <<msglist, nwaitnotfull, ntpid, pterrno, waitdog, msgfree, msgfreeirq, panic>>
      /\ isrq' = NoQueue /\ q # NoQueue
  BY <1>q DEF IsrWake, CallsStay, poolVars
<1>2. q \in Queue /\ NoQueue \notin Queue
  BY <1>0, <1>1, <1>q, NullValues DEF QueueTypes
<1>3. QueueTypes' /\ waitdog' \in [Task -> BOOLEAN]
  BY <1>0, <1>1 DEF QueueTypes, WaitTypes
<1>4. \A u \in Queue : Handler(u) = (IF u = q THEN 1 ELSE 0) /\ Handler(u)' = 0
  BY <1>1, <1>2, <1>q DEF Handler
<1>5. Conserved' /\ TasksRespectMaxMsgs'
  BY <1>c, <1>1, StockSame DEF CallsStay
<1>6. cur' \in Task => RoomInv'
  <2>1. \A t \in Task : SameCall(t)
    BY <1>1 DEF SameCall, CallsStay
  <2>2. pc'[c] \in {"alloc", "insert"} => Cardinality(PlacesOf(msglist'[pq'[c]], SentByTask)) < MaxMsgs
    BY <1>c, <1>1 DEF CallsStay, MqInv, RoomInv
  <2> QED BY <1>c, <1>5, <2>1, <2>2, RoomKept
<1>7. /\ CallersOK' /\ NoneLost
      /\ Waiting(q, "WAIT_MQNOTEMPTY")' = {} \/ \E w : w \notin Takers(q) /\ w \in Takers(q)'
  <2>1. CASE WakesReceiver(q)
    <3>1. PICK w \in FirstWaiting(q, "WAIT_MQNOTEMPTY") :
            /\ msgwaitq' = [msgwaitq EXCEPT ![w] = NoQueue]
            /\ nwaitnotempty' = [nwaitnotempty EXCEPT ![q] = nwaitnotempty[q] - 1]
            /\ Ready(w)
      BY <1>q, <2>1 DEF IsrWake, Woken
    <3>2. w \in Waiting(q, "WAIT_MQNOTEMPTY") /\ w \in Task
      BY <3>1 DEF FirstWaiting, Highest, Waiting
    <3>3. state[w] = "WAIT_MQNOTEMPTY" /\ InMqWait(w) /\ pq[w] = q /\ pterrno[w] = "OK"
      BY <1>0, <3>2, InWaiting DEF InMqWait, TaskOK
    <3>4. /\ nwaitnotempty' = WaitCounts(nwaitnotempty, w, "WAIT_MQNOTEMPTY")
          /\ nwaitnotfull' = WaitCounts(nwaitnotfull, w, "WAIT_MQNOTFULL")
      BY <1>1, <1>2, <3>1, <3>2, WokenCounts
    <3>5. pterrno' = [pterrno EXCEPT ![w] = "OK"]
      BY <1>0, <1>1, <3>3 DEF WaitTypes
    <3>6. CallersOK' /\ NoneLost /\ WakesUp(w, "OK")
      BY <1>c, <1>1, <1>3, <3>1, <3>2, <3>3, <3>4, <3>5, HandlerWakes
    <3>7. w \notin Takers(q) /\ w \in Takers(q)'
      BY <1>0, <3>2, <3>3, <3>6, WakesServing
    <3> QED BY <3>6, <3>7
  <2>2. CASE ~WakesReceiver(q)
    <3>1. UNCHANGED <<cur, state, nwaitnotempty, msgwaitq>>
      BY <1>q, <2>2 DEF IsrWake
    <3>2. CallersOK' /\ NoneLost
      BY <1>1, <1>3, <3>1, CallersStay
    <3>3. nwaitnotempty[q] = 0
      BY <1>0, <1>2, <2>2 DEF WakesReceiver, CountTypes
    <3>4. Waiting(q, "WAIT_MQNOTEMPTY") = {}
      BY <1>2, <3>3, NoneWait
    <3> QED BY <1>2, <3>2, <3>4 DEF NoneLost
  <2> QED BY <2>1, <2>2
<1>8. cur' \in Task
  BY <1>7 DEF CallersOK, SchedTypes
<1>9. ASSUME NEW u \in Queue PROVE TakeOK(u)' /\ FillOK(u)'
  <2>0. /\ Waiting(u, "WAIT_MQNOTEMPTY")' \subseteq Waiting(u, "WAIT_MQNOTEMPTY")
        /\ Waiting(u, "WAIT_MQNOTFULL")' \subseteq Waiting(u, "WAIT_MQNOTFULL")
        /\ Takers(u) \subseteq Takers(u)' /\ Fillers(u) \subseteq Fillers(u)'
        /\ Len(msglist[u]) \in Nat /\ msglist'[u] = msglist[u]
    BY <1>0, <1>1, <1>7 DEF NoneLost, QueueTypes
  <2>1. Cardinality(Takers(u)) <= Cardinality(Takers(u)') /\ Cardinality(Fillers(u)) <= Cardinality(Fillers(u)')
    BY <2>0, ServingFinite, Sizes
  <2>2. FillOK(u)'
    <3>1. Len(msglist[u]) + Cardinality(Fillers(u)) <= Len(msglist'[u]) + Cardinality(Fillers(u)')
      BY <2>0, <2>1, ServingNat
    <3> QED BY <1>3, <2>0, <3>1, FillStep
  <2>3. TakeOK(u)'
    <3>1. CASE u # q
      <4>1. Handler(u) = 0 /\ Handler(u)' = 0
        BY <1>4, <3>1
      <4>2. Len(msglist'[u]) + Cardinality(Takers(u)) + Handler(u) <= Len(msglist[u]) + Cardinality(Takers(u)') + Handler(u)'
        BY <2>0, <2>1, <4>1, ServingNat
      <4> QED BY <1>3, <2>0, <4>2, TakeStep
    <3>2. CASE u = q /\ Waiting(q, "WAIT_MQNOTEMPTY")' = {}
      BY <3>2 DEF TakeOK
    <3>3. CASE u = q /\ \E w : w \notin Takers(q) /\ w \in Takers(q)'
      <4>1. Handler(u) = 1 /\ Handler(u)' = 0
        BY <1>4, <3>3
      <4>2. Cardinality(Takers(u)) + 1 <= Cardinality(Takers(u)')
        BY <2>0, <3>3, ServingFinite, Sizes
      <4>3. Len(msglist'[u]) + Cardinality(Takers(u)) + Handler(u) <= Len(msglist[u]) + Cardinality(Takers(u)') + Handler(u)'
        BY <2>0, <4>1, <4>2, ServingNat
      <4> QED BY <1>3, <2>0, <4>3, TakeStep
    <3> QED BY <1>7, <3>1, <3>2, <3>3
  <2> QED BY <2>2, <2>3
<1> QED BY <1>3, <1>5, <1>6, <1>7, <1>8, <1>9, Conclude

LEMMA IsrSendStep ==
    ASSUME MqInv, NEW q \in Queue, NEW p \in MsgPrio, IsrSend(q, p)
    PROVE  MqInv'
<1>c. PICK c : c = cur
  OBVIOUS
<1>0. c \in Task /\ QueueTypes /\ WaitTypes
  BY <1>c, RunningFacts
<1>m. PICK m : m = IsrMsg(p)
  OBVIOUS
<1>1. /\ CallsStay /\ UNCHANGED <<waitdog, panic>>
      /\ isrq = NoQueue /\ isrq' = q /\ msgfree + msgfreeirq > 0
      /\ msgfree' = IF msgfree > 0 THEN msgfree - 1 ELSE 0
      /\ msgfreeirq' = IF msgfree > 0 THEN msgfreeirq ELSE msgfreeirq - 1
      /\ msglist' = [msglist EXCEPT ![q] = Inserted(msglist[q], m)]
      /\ ntpid' = [ntpid EXCEPT ![q] = NoTask]
  BY <1>m DEF IsrSend, CallsStay, Interruptible, Undisturbed
<1>2. /\ m \in Message /\ m.isr /\ m \notin SentByTask /\ NoQueue \notin Queue
      /\ m.type = IF msgfree > 0 THEN "FIXED" ELSE "IRQ"
  BY <1>m, NullValues DEF IsrMsg, Message, SentByTask
<1>3. /\ msglist' \in [Queue -> Seq(Message)]
      /\ Len(msglist'[q]) = Len(msglist[q]) + 1 /\ \A u \in Queue \ {q} : msglist'[u] = msglist[u]
      /\ \A S : /\ QueuedIn(msglist', S) = QueuedIn(msglist, S) + (IF m \in S THEN 1 ELSE 0)
                /\ Cardinality(PlacesOf(msglist'[q], S)) =
                     Cardinality(PlacesOf(msglist[q], S)) + (IF m \in S THEN 1 ELSE 0)
  BY <1>1, <1>2, InsertedEffect
<1>4. msgfree \in Nat /\ msgfreeirq \in Nat /\ msgfree' \in Nat /\ msgfreeirq' \in Nat
  BY <1>0, <1>1 DEF QueueTypes
<1>5. QueueTypes'
  BY <1>0, <1>1, <1>3, <1>4 DEF QueueTypes
<1>6. CallersOK' /\ NoneLost
  <2>1. CASE ntpid[q] # NoTask
    <3>1. PICK w \in Task : w = ntpid[q]
      BY <1>0, <2>1 DEF QueueTypes
    <3>2. Signal(w)
      BY <2>1, <3>1 DEF IsrSend
    <3> QED BY <1>1, <3>2, HandlerSignals
  <2>2. CASE ntpid[q] = NoTask
    <3>1. UNCHANGED <<cur, state, nwaitnotempty, nwaitnotfull, msgwaitq, pterrno>>
      BY <2>2 DEF IsrSend, waitVars
    <3>2. waitdog' \in [Task -> BOOLEAN]
      BY <1>0, <1>1 DEF WaitTypes
    <3> QED BY <1>1, <3>1, <3>2, CallersStay
  <2> QED BY <2>1, <2>2
<1>7. Conserved'
  <2>1. \A type : (m \in OfType(type)) <=> m.type = type
    BY <1>2 DEF OfType
  <2>2. /\ QueuedIn(msglist', OfType("FIXED")) = QueuedIn(msglist, OfType("FIXED")) + Held(m, "FIXED")
        /\ QueuedIn(msglist', OfType("IRQ")) = QueuedIn(msglist, OfType("IRQ")) + Held(m, "IRQ")
    BY <1>3, <2>1 DEF Held
  <2>3. msgfree' + Held(m, "FIXED") = msgfree /\ msgfreeirq' + Held(m, "IRQ") = msgfreeirq
    BY <1>1, <1>2, <1>4 DEF Held
  <2>4. /\ Held(m, "FIXED") \in Nat /\ Held(m, "IRQ") \in Nat
        /\ Held(pmsg[c], "FIXED") \in Nat /\ Held(pmsg[c], "IRQ") \in Nat
    BY DEF Held
  <2>5. QueuedIn(msglist, OfType("FIXED")) \in Nat /\ QueuedIn(msglist, OfType("IRQ")) \in Nat
    BY QueuedNat
  <2>6. /\ msgfree' + QueuedIn(msglist', OfType("FIXED")) + Held(pmsg[c], "FIXED")
             = msgfree + QueuedIn(msglist, OfType("FIXED")) + Held(pmsg[c], "FIXED")
        /\ msgfreeirq' + QueuedIn(msglist', OfType("IRQ")) + Held(pmsg[c], "IRQ")
             = msgfreeirq + QueuedIn(msglist, OfType("IRQ")) + Held(pmsg[c], "IRQ")
    BY <1>4, <2>2, <2>3, <2>4, <2>5
  <2>7. pmsg' = pmsg
    BY <1>1 DEF CallsStay
  <2> QED BY <1>c, <2>6, <2>7, StockKept
<1>8. RoomInv'
  <2>1. \A u \in Queue : Cardinality(PlacesOf(msglist'[u], SentByTask)) = Cardinality(PlacesOf(msglist[u], SentByTask))
    <3>1. Cardinality(PlacesOf(msglist[q], SentByTask)) \in Nat
      BY QueuedNat
    <3>2. Cardinality(PlacesOf(msglist'[q], SentByTask)) = Cardinality(PlacesOf(msglist[q], SentByTask))
      BY <1>2, <1>3, <3>1
    <3> QED BY <1>3, <3>2
  <2>2. TasksRespectMaxMsgs'
    <3>1. \A u \in Queue : Cardinality(PlacesOf(msglist'[u], SentByTask)) <= MaxMsgs
      BY <2>1 DEF MqInv, RoomInv, TasksRespectMaxMsgs
    <3> QED BY <3>1 DEF TasksRespectMaxMsgs, PlacesOf, SentByTask, Message
  <2>3. pc'[c] \in {"alloc", "insert"} => Cardinality(PlacesOf(msglist'[pq'[c]], SentByTask)) < MaxMsgs
    <3>1. pc' = pc /\ pq' = pq
      BY <1>1 DEF CallsStay
    <3>2. pc[c] \in {"alloc", "insert"} => pq[c] \in Queue /\ Cardinality(PlacesOf(msglist[pq[c]], SentByTask)) < MaxMsgs
      BY <1>c, RunningFacts DEF MqInv, RoomInv, TaskOK
    <3> QED BY <2>1, <3>1, <3>2
  <2>4. cur' \in Task /\ \A t \in Task : SameCall(t)
    BY <1>1, <1>6 DEF CallersOK, SchedTypes, SameCall, CallsStay
  <2> QED BY <1>c, <2>2, <2>3, <2>4, RoomKept
<1>9. ASSUME NEW u \in Queue PROVE TakeOK(u)' /\ FillOK(u)'
  <2>0. /\ Waiting(u, "WAIT_MQNOTEMPTY")' \subseteq Waiting(u, "WAIT_MQNOTEMPTY")
        /\ Waiting(u, "WAIT_MQNOTFULL")' \subseteq Waiting(u, "WAIT_MQNOTFULL")
        /\ Takers(u) \subseteq Takers(u)' /\ Fillers(u) \subseteq Fillers(u)'
        /\ Len(msglist[u]) \in Nat
    BY <1>0, <1>6 DEF NoneLost, QueueTypes
  <2>1. Cardinality(Takers(u)) <= Cardinality(Takers(u)') /\ Cardinality(Fillers(u)) <= Cardinality(Fillers(u)')
    BY <2>0, ServingFinite, Sizes
  <2>2. CASE u = q
    <3>1. Handler(u) = 0 /\ Handler(u)' = 1 /\ Len(msglist'[u]) = Len(msglist[u]) + 1
      BY <1>1, <1>2, <1>3, <2>2 DEF Handler
    <3>2. Len(msglist'[u]) + Cardinality(Takers(u)) + Handler(u) <= Len(msglist[u]) + Cardinality(Takers(u)') + Handler(u)'
      BY <2>0, <2>1, <3>1, ServingNat
    <3>3. Len(msglist[u]) + Cardinality(Fillers(u)) <= Len(msglist'[u]) + Cardinality(Fillers(u)')
      BY <2>0, <2>1, <3>1, ServingNat
    <3> QED BY <1>5, <2>0, <3>2, <3>3, TakeStep, FillStep
  <2>3. CASE u # q
    <3>1. Handler(u) = 0 /\ Handler(u)' = 0 /\ Len(msglist'[u]) = Len(msglist[u])
      BY <1>1, <1>2, <1>3, <2>3 DEF Handler
    <3>2. Len(msglist'[u]) + Cardinality(Takers(u)) + Handler(u) <= Len(msglist[u]) + Cardinality(Takers(u)') + Handler(u)'
      BY <2>0, <2>1, <3>1, ServingNat
    <3>3. Len(msglist[u]) + Cardinality(Fillers(u)) <= Len(msglist'[u]) + Cardinality(Fillers(u)')
      BY <2>0, <2>1, <3>1, ServingNat
    <3> QED BY <1>5, <2>0, <3>2, <3>3, TakeStep, FillStep
  <2> QED BY <2>2, <2>3
<1> QED BY <1>5, <1>6, <1>7, <1>8, <1>9, Conclude

-----------------------------------------------------------------------------
(***************************************************************************)
(* The theorems.                                                           *)
(***************************************************************************)
LEMMA MqInit ==
    ASSUME Init
    PROVE  MqInv
<1>0. Idle \in Task /\ NoQueue \notin Queue /\ NoMsg \in InHands /\ NoMsg.type = "NONE" /\ MaxMsgs \in Nat
  BY SchedConstants, NullValues, MqConstants
<1>1. TypeOK
  <2>1. SchedTypes
    BY <1>0 DEF Init, SchedTypes, MqStates
  <2>2. QueueTypes
    <3>1. msglist \in [Queue -> Seq(Message)]
      <4>1. <<>> \in Seq(Message)
        OBVIOUS
      <4> QED BY <4>1 DEF Init
    <3> QED BY <3>1, MqConstants DEF Init, QueueTypes
  <2>3. CountTypes /\ WaitTypes
    BY DEF Init, CountTypes, WaitTypes
  <2>4. CallTypes
    BY <1>0 DEF Init, CallTypes, CallPoints
  <2> QED BY <2>1, <2>2, <2>3, <2>4, Types
<1>2. TasksInv
  BY <1>0 DEF Init, TasksInv, TaskOK, HandOK, LockAt, InMqWait
<1>3. \A q \in Queue, why \in MqWaits : Waiting(q, why) = {}
  BY DEF Init, Waiting, MqWaits
<1>4. WaitCountsMatch
  BY <1>3, FS_EmptySet DEF Init, WaitCountsMatch, MqWaits
<1>5. \A S : \A q \in Queue : PlacesOf(msglist[q], S) = {}
  BY DEF Init, PlacesOf
<1>6. RoomInv
  <2>1. TasksRespectMaxMsgs
    <3>1. \A q \in Queue : Cardinality(PlacesOf(msglist[q], SentByTask)) = 0
      BY <1>5, FS_EmptySet
    <3> QED BY <1>0, <3>1 DEF TasksRespectMaxMsgs
  <2>2. pc[cur] = "run"
    BY <1>0 DEF Init
  <2> QED BY <2>1, <2>2 DEF RoomInv
<1>7. MessagesConserved
  <2>1. \A type : Queued(type) = 0
    <3>1. ASSUME NEW type PROVE UNION {{q} \X PlacesOf(msglist[q], OfType(type)) : q \in Queue} = {}
      BY <1>5
    <3> QED BY <3>1, FS_EmptySet DEF Queued
  <2>2. InHand("FIXED") = 0 /\ InHand("IRQ") = 0
    <3>1. /\ {t \in Task : pmsg[t].type = "FIXED"} = {}
          /\ {t \in Task : pmsg[t].type = "IRQ"} = {}
      BY <1>0 DEF Init
    <3> QED BY <3>1, FS_EmptySet DEF InHand
  <2>3. NFixed \in Nat /\ NIrq \in Nat /\ msgfree = NFixed /\ msgfreeirq = NIrq
    BY MqConstants DEF Init
  <2> QED BY <1>1, <2>1, <2>2, <2>3 DEF MessagesConserved
<1>8. WakeInv
  BY <1>3 DEF WakeInv, TakeOK, FillOK, MqWaits
<1> QED BY <1>1, <1>2, <1>4, <1>6, <1>7, <1>8 DEF MqInv

LEMMA CallKeeps ==
    ASSUME MqInv, Call
    PROVE  MqInv'
<1>1. ASSUME NEW q \in Queue, MqReceive(q) PROVE MqInv'
  BY <1>1, ReceiveWaits, ReceiveTakes
<1>2. ASSUME NEW q \in Queue, MqNotify(q) PROVE MqInv'
  BY <1>2, NotifyStep
<1>3. ASSUME NEW q \in Queue, NEW p \in MsgPrio, MqSend(q, p) PROVE MqInv'
  BY <1>3, SendWaits, SendGoesOn
<1> QED BY <1>1, <1>2, <1>3, SleepStep DEF Call

LEMMA ContinueKeeps ==
    ASSUME MqInv, Continue
    PROVE  MqInv'
<1>1. CASE SendResumes
  <2>1. CASE pterrno[cur] # "OK"
    BY <1>1, <2>1, GivesUp DEF SendResumes, At
  <2>2. CASE pterrno[cur] = "OK"
    BY <1>1, <2>2, SenderWaitsAgain, SenderGoesOn
  <2> QED BY <2>1, <2>2
<1>2. CASE ReceiveResumes
  <2>1. CASE pterrno[cur] # "OK"
    BY <1>2, <2>1, GivesUp DEF ReceiveResumes, At
  <2>2. CASE pterrno[cur] = "OK"
    BY <1>2, <2>2, ReceiverWaitsAgain, ReceiverTakes
  <2> QED BY <2>1, <2>2
<1>3. CASE WakeReceiver
  BY <1>3, WakeReceiverStep, NoReceiver
<1>4. CASE Free
  BY <1>4, FreeGoesOn, FreeEnds
<1>5. CASE Alloc \/ Insert \/ ReadNotify \/ SignalNotify \/ WakeSender \/ WakeSenderAsserts
  BY <1>5, AllocStep, InsertStep, ReadNotifyStep, SignalNotifyStep, WakeSenderStep, AssertStep
<1> QED BY <1>1, <1>2, <1>3, <1>4, <1>5 DEF Continue

LEMMA IsrKeeps ==
    ASSUME MqInv, Isr
    PROVE  MqInv'
<1>1. CASE \E q \in Queue, p \in MsgPrio : IsrSend(q, p)
  BY <1>1, IsrSendStep
<1>2. CASE IsrWake
  BY <1>2, IsrWakeStep
<1>3. CASE \E w \in Task : Timeout(w) \/ IsrSignal(w)
  BY <1>3, TimeoutStep, IsrSignalStep
<1> QED BY <1>1, <1>2, <1>3 DEF Isr

LEMMA StutterKeeps ==
    ASSUME MqInv, UNCHANGED vars
    PROVE  MqInv'
<1>0. QueueTypes
  BY RunningFacts
<1>1. UNCHANGED <<cur, state, prio, lock, msglist, nwaitnotempty, nwaitnotfull, ntpid, msgwaitq, pterrno, waitdog,
                  msgfree, msgfreeirq, pc, pq, pmsg, pnt, panic, isrq>>
  BY DEF vars, schedVars, mqVars
<1>2. QueueTypes'
  BY <1>0, <1>1 DEF QueueTypes
<1> QED BY <1>1, <1>2, Standstill

(***************************************************************************)
(* The inductive invariant: what each task may have in its hands and where *)
(* it may stop (mq_send, mq_receive and the waits in them), the counts of  *)
(* waiting tasks, the place a sender has found, the messages and, for each *)
(* queue, the tasks that are about to take messages and to fill places.    *)
(***************************************************************************)
THEOREM MqInvariant == Spec => []MqInv
<1>1. Init => MqInv
  BY MqInit
<1>2. MqInv /\ [Next]_vars => MqInv'
  <2>1. ASSUME MqInv, Next PROVE MqInv'
    BY <2>1, CallKeeps, ContinueKeeps, IsrKeeps, StutterKeeps DEF Next, Halted
  <2> QED BY <2>1, StutterKeeps
<1> QED BY <1>1, <1>2, PTL DEF Spec

(***************************************************************************)
(* The counts nwaitnotempty and nwaitnotfull are the numbers of tasks that *)
(* wait, at every interrupt and whatever ends the waits: mq_dosend finds   *)
(* the receiver it counts on (mq_sndinternal.c:424), and mq_waitirq never  *)
(* takes back what is not there (mq_waitirq.c:138 and 141).                *)
(***************************************************************************)
THEOREM CountsMatch == Spec => []WaitCountsMatch
<1>1. MqInv => WaitCountsMatch
  BY DEF MqInv
<1> QED BY <1>1, MqInvariant, PTL

(***************************************************************************)
(* No wake-up is lost: as long as a receiver waits, each message has a     *)
(* taker, and as long as a sender waits, each place has one that fills it  *)
(* (mq_dosend wakes one receiver for each message, mq_doreceive one sender *)
(* for each place).                                                        *)
(***************************************************************************)
THEOREM WakeupsArrive == Spec => []NoLostWakeup
<1>1. ASSUME MqInv PROVE NoLostWakeup
  <2>1. ASSUME NEW q \in Queue
        PROVE  /\ Cardinality(Takers(q)) = Cardinality(WokenFrom(q, "waitrcv")) + Cardinality(InCall(q, {"notify", "signal", "wake"}))
               /\ Cardinality(Fillers(q)) = Cardinality(WokenFrom(q, "waitsend")) + Cardinality(InCall(q, {"alloc", "insert", "free", "wakesnd"}))
    <3>1. ASSUME NEW A, NEW B, A \subseteq Task, B \subseteq Task, A \cap B = {}
          PROVE  Cardinality(A \cup B) = Cardinality(A) + Cardinality(B)
      <4>1. IsFiniteSet(A) /\ IsFiniteSet(B)
        <5>1. A \in SUBSET Task /\ B \in SUBSET Task /\ IsFiniteSet(Task)
          BY <3>1, MqConstants
        <5> QED BY <5>1, FS_Subset
      <4>2. Cardinality(A \cup B) = Cardinality(A) + Cardinality(B) - Cardinality(A \cap B)
        BY <4>1, FS_Union
      <4>3. Cardinality(A \cap B) = 0 /\ Cardinality(A) \in Nat /\ Cardinality(B) \in Nat
        BY <3>1, <4>1, FS_EmptySet, FS_CardinalityType
      <4> QED BY <4>2, <4>3
    <3>2. /\ Takers(q) = WokenFrom(q, "waitrcv") \cup InCall(q, {"notify", "signal", "wake"})
          /\ WokenFrom(q, "waitrcv") \cap InCall(q, {"notify", "signal", "wake"}) = {}
          /\ WokenFrom(q, "waitrcv") \subseteq Task /\ InCall(q, {"notify", "signal", "wake"}) \subseteq Task
      BY DEF Takers, WokenFrom, InCall
    <3>3. /\ Fillers(q) = WokenFrom(q, "waitsend") \cup InCall(q, {"alloc", "insert", "free", "wakesnd"})
          /\ WokenFrom(q, "waitsend") \cap InCall(q, {"alloc", "insert", "free", "wakesnd"}) = {}
          /\ WokenFrom(q, "waitsend") \subseteq Task /\ InCall(q, {"alloc", "insert", "free", "wakesnd"}) \subseteq Task
      BY DEF Fillers, WokenFrom, InCall
    <3> QED BY <3>1, <3>2, <3>3
  <2>2. \A q \in Queue : TakeOK(q) /\ FillOK(q)
    BY <1>1 DEF MqInv, WakeInv
  <2> QED BY <2>1, <2>2 DEF NoLostWakeup, TakeOK, FillOK, Handler
<1> QED BY <1>1, MqInvariant, PTL

(***************************************************************************)
(* The messages that tasks send never exceed maxmsgs, although the test of *)
(* the size and the insertion are separate critical sections with          *)
(* interrupts between them (mq_send.c:163, mq_dosend).                     *)
(***************************************************************************)
THEOREM SizeRespected == Spec => []TasksRespectMaxMsgs
<1>1. MqInv => TasksRespectMaxMsgs
  BY DEF MqInv, RoomInv
<1> QED BY <1>1, MqInvariant, PTL

(***************************************************************************)
(* Every preallocated message is in its pool, in a queue or in the hands   *)
(* of the running task: mq_msgalloc and mq_msgfree neither lose nor        *)
(* duplicate one.                                                          *)
(***************************************************************************)
THEOREM MessagesKept == Spec => []MessagesConserved
<1>1. MqInv => MessagesConserved
  BY DEF MqInv
<1> QED BY <1>1, MqInvariant, PTL

-----------------------------------------------------------------------------
(***************************************************************************)
(* The lists are sorted by priority, so that the messages of one priority  *)
(* lie together.                                                           *)
(***************************************************************************)
Sorted(s) == \A i, j \in 1 .. Len(s) : i <= j => s[j].prio <= s[i].prio

\* The first n messages of s are those of priority p or higher.
Split(s, p, n) == n \in 0 .. Len(s) /\ \A i \in 1 .. Len(s) : p <= s[i].prio <=> i <= n

LEMMA PrioNat == \A m \in Message : m.prio \in Nat
BY MqConstants DEF Message

LEMMA SplitCount ==
    ASSUME NEW s \in Seq(Message), NEW p, NEW n, Split(s, p, n)
    PROVE  AtLeast(s, p) = n
<1>0. Len(s) \in Nat /\ n \in Nat /\ n <= Len(s) /\ DOMAIN s = 1 .. Len(s)
  BY DEF Split
<1>1. {i \in DOMAIN s : p <= s[i].prio} = 1 .. n
  BY <1>0 DEF Split
<1>2. Cardinality(1 .. n) = IF 1 > n THEN 0 ELSE n - 1 + 1
  BY <1>0, FS_Interval
<1>3. Cardinality(1 .. n) = n
  BY <1>0, <1>2
<1> QED BY <1>1, <1>3 DEF AtLeast

LEMMA SortedSplit ==
    ASSUME NEW s \in Seq(Message), Sorted(s), NEW p \in Nat
    PROVE  Split(s, p, AtLeast(s, p))
<1>0. Len(s) \in Nat /\ \A i \in 1 .. Len(s) : s[i].prio \in Nat
  <2>1. \A i \in 1 .. Len(s) : s[i] \in Message
    OBVIOUS
  <2> QED BY <2>1, PrioNat
<1> DEFINE I == {i \in 1 .. Len(s) + 1 : i <= Len(s) => s[i].prio < p}
<1>1. I \in SUBSET Nat /\ Len(s) + 1 \in I
  BY <1>0
<1>2. PICK k \in I : \A m \in I : k <= m
  BY <1>1, LeastNumber, Zenon
<1>3. k \in 1 .. Len(s) + 1 /\ (k <= Len(s) => s[k].prio < p)
  OBVIOUS
<1>4. ASSUME NEW i \in 1 .. Len(s), i < k PROVE p <= s[i].prio
  <2>1. i \notin I
    BY <1>2, <1>3, <1>4
  <2> QED BY <1>0, <2>1
<1>5. ASSUME NEW i \in 1 .. Len(s), ~(i < k) PROVE ~(p <= s[i].prio)
  <2>1. k \in 1 .. Len(s) /\ k <= i /\ s[k].prio < p
    BY <1>0, <1>3, <1>5
  <2>2. s[i].prio <= s[k].prio
    BY <2>1 DEF Sorted
  <2> QED BY <1>0, <2>1, <2>2
<1>6. Split(s, p, k - 1)
  BY <1>0, <1>3, <1>4, <1>5 DEF Split
<1>7. AtLeast(s, p) = k - 1
  BY <1>6, SplitCount
<1> QED BY <1>6, <1>7

\* The messages of priority p of a sorted list.
LEMMA OfPrioEntries ==
    ASSUME NEW s \in Seq(Message), NEW p \in Nat, NEW a, NEW b, Split(s, p + 1, a), Split(s, p, b)
    PROVE  /\ a \in Nat /\ b \in Nat /\ a <= b /\ b <= Len(s)
           /\ OfPrio(s, p) \in Seq(Message)
           /\ Len(OfPrio(s, p)) = b - a
           /\ \A j \in 1 .. b - a : OfPrio(s, p)[j] = s[a + j]
<1>0. Len(s) \in Nat /\ \A i \in 1 .. Len(s) : s[i] \in Message /\ s[i].prio \in Nat
  <2>1. \A i \in 1 .. Len(s) : s[i] \in Message
    OBVIOUS
  <2> QED BY <2>1, PrioNat
<1>1. a \in Nat /\ b \in Nat /\ a <= Len(s) /\ b <= Len(s)
  BY <1>0 DEF Split
<1>2. a <= b
  <2>1. CASE a = 0
    BY <1>1, <2>1
  <2>2. CASE a # 0
    <3>1. a \in 1 .. Len(s) /\ s[a].prio \in Nat /\ p + 1 <= s[a].prio
      BY <1>0, <1>1, <2>2 DEF Split
    <3>2. p <= s[a].prio
      BY <3>1
    <3> QED BY <3>1, <3>2 DEF Split
  <2> QED BY <2>1, <2>2
<1>3. AtLeast(s, p + 1) = a /\ AtLeast(s, p) = b
  BY SplitCount
<1>4. OfPrio(s, p) = SubSeq(s, a + 1, b)
  BY <1>3 DEF OfPrio
<1> DEFINE r == SubSeq(s, a + 1, b)
<1>5. /\ r \in Seq(Message) /\ Len(r) = (IF a + 1 <= b THEN b - (a + 1) + 1 ELSE 0)
      /\ \A j \in 1 .. b - (a + 1) + 1 : r[j] = s[(a + 1) + j - 1]
  <2>1. \A i \in a + 1 .. b : s[i] \in Message
    BY <1>0, <1>1
  <2>2. a + 1 \in Int /\ b \in Int
    BY <1>1
  <2> QED BY <2>1, <2>2, SubSeqProperties
<1> HIDE DEF r
<1>6. b - (a + 1) + 1 = b - a /\ \A j \in 1 .. b - a : (a + 1) + j - 1 = a + j
  BY <1>1
<1>7. Len(r) = b - a /\ \A j \in 1 .. b - a : r[j] = s[a + j]
  <2>1. Len(r) = b - a
    BY <1>1, <1>2, <1>5
  <2> QED BY <1>5, <1>6, <2>1
<1> QED BY <1>1, <1>2, <1>4, <1>5, <1>7 DEF r

\* r is s with a message behind its first k.
Entered(s, r, k, m) ==
    /\ k \in Nat /\ k <= Len(s)
    /\ r \in Seq(Message) /\ Len(r) = Len(s) + 1
    /\ \A i \in 1 .. Len(s) : m.prio <= s[i].prio <=> i <= k
    /\ \A i \in 1 .. k : r[i] = s[i]
    /\ r[k + 1] = m
    /\ \A i \in k + 1 .. Len(s) : r[i + 1] = s[i]

\* What mq_dosend does to a sorted list.
LEMMA InsertedEntries ==
    ASSUME NEW s \in Seq(Message), Sorted(s), NEW m \in Message
    PROVE  Entered(s, Inserted(s, m), AtLeast(s, m.prio), m)
<1>0. m.prio \in Nat /\ Len(s) \in Nat
  <2>1. Len(s) \in Nat
    OBVIOUS
  <2> QED BY <2>1, PrioNat
<1>k. PICK k : k = AtLeast(s, m.prio)
  OBVIOUS
<1>1. Split(s, m.prio, k)
  BY <1>0, <1>k, SortedSplit
<1>2. k \in Nat /\ k <= Len(s) /\ \A i \in 1 .. Len(s) : m.prio <= s[i].prio <=> i <= k
  BY <1>0, <1>1 DEF Split
<1>l. PICK l : l = k + 1
  OBVIOUS
<1> DEFINE r == InsertAt(s, l, m)
<1>3. Inserted(s, m) = r
  BY <1>k, <1>l DEF Inserted
<1>4. l \in 1 .. Len(s) + 1
  BY <1>0, <1>2, <1>l
<1>5. /\ r \in Seq(Message) /\ Len(r) = Len(s) + 1
      /\ \A j \in 1 .. Len(s) + 1 : r[j] = IF j < l THEN s[j] ELSE IF j = l THEN m ELSE s[j - 1]
  BY <1>4, InsertAtProperties
<1> HIDE DEF r
<1>6. \A i \in 1 .. k : r[i] = s[i]
  BY <1>0, <1>2, <1>5, <1>l
<1>7. r[k + 1] = m
  BY <1>0, <1>2, <1>5, <1>l
<1>8. \A i \in k + 1 .. Len(s) : r[i + 1] = s[i]
  <2> TAKE i \in k + 1 .. Len(s)
  <2>1. i + 1 \in 1 .. Len(s) + 1 /\ ~(i + 1 < l) /\ i + 1 # l /\ (i + 1) - 1 = i
    BY <1>0, <1>2, <1>l
  <2> QED BY <1>5, <2>1
<1> QED BY <1>2, <1>3, <1>5, <1>6, <1>7, <1>8, <1>k DEF Entered

\* The places of the longer list.
LEMMA PlacesAround ==
    ASSUME NEW n \in Nat, NEW k \in Nat, k <= n, NEW j \in 1 .. n + 1
    PROVE  j \in 1 .. k \/ j = k + 1 \/ (\E i \in k + 1 .. n : j = i + 1)
<1>1. CASE j <= k
  BY <1>1
<1>2. CASE j > k + 1
  <2>1. j - 1 \in k + 1 .. n /\ j = (j - 1) + 1
    BY <1>2
  <2> QED BY <2>1
<1> QED BY <1>1, <1>2

LEMMA InsertedSplit ==
    ASSUME NEW s \in Seq(Message), Sorted(s), NEW m \in Message, NEW p \in Nat
    PROVE  /\ p <= m.prio => Split(Inserted(s, m), p, AtLeast(s, p) + 1) /\ AtLeast(s, m.prio) <= AtLeast(s, p)
           /\ m.prio < p => Split(Inserted(s, m), p, AtLeast(s, p)) /\ AtLeast(s, p) <= AtLeast(s, m.prio)
<1>0. m.prio \in Nat /\ Len(s) \in Nat /\ \A i \in 1 .. Len(s) : s[i].prio \in Nat
  <2>1. \A i \in 1 .. Len(s) : s[i] \in Message
    OBVIOUS
  <2> QED BY <2>1, PrioNat
<1>k. PICK k : k = AtLeast(s, m.prio)
  OBVIOUS
<1>r. PICK r : r = Inserted(s, m)
  OBVIOUS
<1>n. PICK n : n = AtLeast(s, p)
  OBVIOUS
<1>1. /\ k \in Nat /\ k <= Len(s)
      /\ r \in Seq(Message) /\ Len(r) = Len(s) + 1
      /\ \A i \in 1 .. Len(s) : m.prio <= s[i].prio <=> i <= k
      /\ \A i \in 1 .. k : r[i] = s[i]
      /\ r[k + 1] = m
      /\ \A i \in k + 1 .. Len(s) : r[i + 1] = s[i]
  BY <1>k, <1>r, InsertedEntries DEF Entered
<1>2. n \in Nat /\ n <= Len(s) /\ \A i \in 1 .. Len(s) : p <= s[i].prio <=> i <= n
  <2>1. Split(s, p, n)
    BY <1>n, SortedSplit
  <2> QED BY <1>0, <2>1 DEF Split
<1>3. ASSUME p <= m.prio PROVE Split(r, p, n + 1) /\ k <= n
  <2>1. k <= n
    <3>1. CASE k = 0
      BY <1>2, <3>1
    <3>2. CASE k # 0
      <4>1. k \in 1 .. Len(s) /\ m.prio <= s[k].prio
        BY <1>0, <1>1, <3>2
      <4>2. p <= s[k].prio
        BY <1>0, <1>3, <4>1
      <4> QED BY <1>2, <4>1, <4>2
    <3> QED BY <3>1, <3>2
  <2>2. ASSUME NEW j \in 1 .. Len(s) + 1 PROVE p <= r[j].prio <=> j <= n + 1
    <3>1. CASE j \in 1 .. k
      <4>1. j \in 1 .. Len(s) /\ r[j] = s[j] /\ j <= n
        BY <1>0, <1>1, <1>2, <2>1, <3>1
      <4> QED BY <1>2, <4>1
    <3>2. CASE j = k + 1
      BY <1>1, <1>2, <1>3, <2>1, <3>2
    <3>3. ASSUME NEW i \in k + 1 .. Len(s), j = i + 1 PROVE p <= r[j].prio <=> j <= n + 1
      <4>1. i \in 1 .. Len(s) /\ r[j] = s[i] /\ (i <= n <=> j <= n + 1)
        BY <1>0, <1>1, <1>2, <3>3
      <4> QED BY <1>2, <4>1
    <3> QED BY <1>0, <1>1, <3>1, <3>2, <3>3, PlacesAround
  <2>3. n + 1 \in 0 .. Len(r)
    BY <1>0, <1>1, <1>2
  <2> QED BY <1>1, <2>1, <2>2, <2>3 DEF Split
<1>4. ASSUME m.prio < p PROVE Split(r, p, n) /\ n <= k
  <2>1. n <= k
    <3>1. CASE n = 0
      BY <1>1, <3>1
    <3>2. CASE n # 0
      <4>1. n \in 1 .. Len(s) /\ p <= s[n].prio
        BY <1>0, <1>2, <3>2
      <4>2. m.prio <= s[n].prio
        BY <1>0, <1>4, <4>1
      <4> QED BY <1>1, <4>1, <4>2
    <3> QED BY <3>1, <3>2
  <2>2. ASSUME NEW j \in 1 .. Len(s) + 1 PROVE p <= r[j].prio <=> j <= n
    <3>1. CASE j \in 1 .. k
      <4>1. j \in 1 .. Len(s) /\ r[j] = s[j]
        BY <1>0, <1>1, <3>1
      <4> QED BY <1>2, <4>1
    <3>2. CASE j = k + 1
      <4>1. ~(p <= m.prio) /\ ~(j <= n)
        BY <1>0, <1>1, <1>2, <1>4, <2>1, <3>2
      <4> QED BY <1>1, <3>2, <4>1
    <3>3. ASSUME NEW i \in k + 1 .. Len(s), j = i + 1 PROVE p <= r[j].prio <=> j <= n
      <4>1. i \in 1 .. Len(s) /\ r[j] = s[i] /\ ~(i <= n) /\ ~(j <= n)
        BY <1>0, <1>1, <1>2, <2>1, <3>3
      <4> QED BY <1>2, <4>1
    <3> QED BY <1>0, <1>1, <3>1, <3>2, <3>3, PlacesAround
  <2>3. n \in 0 .. Len(r)
    BY <1>0, <1>1, <1>2
  <2> QED BY <1>1, <2>1, <2>2, <2>3 DEF Split
<1> QED BY <1>3, <1>4, <1>k, <1>r, <1>n

LEMMA InsertedSorted ==
    ASSUME NEW s \in Seq(Message), Sorted(s), NEW m \in Message
    PROVE  Inserted(s, m) \in Seq(Message) /\ Sorted(Inserted(s, m))
<1>0. m.prio \in Nat /\ Len(s) \in Nat /\ \A i \in 1 .. Len(s) : s[i].prio \in Nat
  <2>1. \A i \in 1 .. Len(s) : s[i] \in Message
    OBVIOUS
  <2> QED BY <2>1, PrioNat
<1>k. PICK k : k = AtLeast(s, m.prio)
  OBVIOUS
<1>r. PICK r : r = Inserted(s, m)
  OBVIOUS
<1>1. /\ k \in Nat /\ k <= Len(s)
      /\ r \in Seq(Message) /\ Len(r) = Len(s) + 1
      /\ \A i \in 1 .. Len(s) : m.prio <= s[i].prio <=> i <= k
      /\ \A i \in 1 .. k : r[i] = s[i]
      /\ r[k + 1] = m
      /\ \A i \in k + 1 .. Len(s) : r[i + 1] = s[i]
  BY <1>k, <1>r, InsertedEntries DEF Entered
<1>2. \A a, b \in 1 .. Len(s) : a <= b => s[b].prio <= s[a].prio
  BY DEF Sorted
<1>3. ASSUME NEW i \in 1 .. Len(s) + 1, NEW j \in 1 .. Len(s) + 1, i <= j PROVE r[j].prio <= r[i].prio
  <2>1. CASE j \in 1 .. k
    <3>1. i \in 1 .. k /\ i \in 1 .. Len(s) /\ j \in 1 .. Len(s)
      BY <1>0, <1>1, <1>3, <2>1
    <3> QED BY <1>1, <1>2, <1>3, <2>1, <3>1
  <2>2. CASE j = k + 1
    <3>1. CASE i = k + 1
      BY <1>0, <1>1, <2>2, <3>1
    <3>2. CASE i # k + 1
      <4>1. i \in 1 .. k /\ i \in 1 .. Len(s) /\ i <= k
        BY <1>0, <1>1, <1>3, <2>2, <3>2
      <4> QED BY <1>1, <2>2, <4>1
    <3> QED BY <3>1, <3>2
  <2>3. ASSUME NEW b \in k + 1 .. Len(s), j = b + 1 PROVE r[j].prio <= r[i].prio
    <3>0. b \in 1 .. Len(s) /\ ~(b <= k) /\ r[j] = s[b]
      BY <1>0, <1>1, <2>3
    <3>1. CASE i \in 1 .. k
      <4>1. i \in 1 .. Len(s) /\ i <= b /\ r[i] = s[i]
        BY <1>0, <1>1, <2>3, <3>1
      <4> QED BY <1>2, <3>0, <4>1
    <3>2. CASE i = k + 1
      <4>1. ~(m.prio <= s[b].prio) /\ r[i] = m
        BY <1>1, <3>0, <3>2
      <4>2. s[b].prio <= m.prio
        BY <1>0, <3>0, <4>1
      <4> QED BY <3>0, <4>1, <4>2
    <3>3. ASSUME NEW a \in k + 1 .. Len(s), i = a + 1 PROVE r[j].prio <= r[i].prio
      <4>1. a \in 1 .. Len(s) /\ a <= b /\ r[i] = s[a]
        BY <1>0, <1>1, <1>3, <2>3, <3>3
      <4> QED BY <1>2, <3>0, <4>1
    <3> QED BY <1>0, <1>1, <3>1, <3>2, <3>3, PlacesAround
  <2> QED BY <1>0, <1>1, <2>1, <2>2, <2>3, PlacesAround
<1>4. Sorted(r)
  BY <1>1, <1>3 DEF Sorted
<1> QED BY <1>1, <1>4, <1>r

\* Among the messages of its priority the new one is the last; the others stay.
LEMMA InsertedOfPrio ==
    ASSUME NEW s \in Seq(Message), Sorted(s), NEW m \in Message, NEW p \in Nat
    PROVE  OfPrio(Inserted(s, m), p) = IF p = m.prio THEN Append(OfPrio(s, p), m) ELSE OfPrio(s, p)
<1>0. m.prio \in Nat /\ Len(s) \in Nat /\ p + 1 \in Nat
  <2>1. Len(s) \in Nat /\ p + 1 \in Nat
    OBVIOUS
  <2> QED BY <2>1, PrioNat
<1>k. PICK k : k = AtLeast(s, m.prio)
  OBVIOUS
<1>r. PICK r : r = Inserted(s, m)
  OBVIOUS
<1>a. PICK a : a = AtLeast(s, p + 1)
  OBVIOUS
<1>b. PICK b : b = AtLeast(s, p)
  OBVIOUS
<1>1. /\ k \in Nat /\ k <= Len(s)
      /\ r \in Seq(Message) /\ Len(r) = Len(s) + 1
      /\ \A i \in 1 .. k : r[i] = s[i]
      /\ r[k + 1] = m
      /\ \A i \in k + 1 .. Len(s) : r[i + 1] = s[i]
  BY <1>k, <1>r, InsertedEntries DEF Entered
<1>s. r \in Seq(Message)
  BY <1>1
<1>2. Split(s, p + 1, a) /\ Split(s, p, b)
  BY <1>0, <1>a, <1>b, SortedSplit
<1> DEFINE x == OfPrio(s, p)
           y == OfPrio(r, p)
<1>3. /\ a \in Nat /\ b \in Nat /\ a <= b /\ b <= Len(s)
      /\ x \in Seq(Message) /\ Len(x) = b - a
      /\ \A j \in 1 .. b - a : x[j] = s[a + j]
  BY <1>2, OfPrioEntries
<1>4. p + 1 <= m.prio => Split(r, p + 1, a + 1) /\ k <= a
  BY <1>0, <1>k, <1>r, <1>a, InsertedSplit
<1>5. m.prio < p + 1 => Split(r, p + 1, a) /\ a <= k
  BY <1>0, <1>k, <1>r, <1>a, InsertedSplit
<1>6. p <= m.prio => Split(r, p, b + 1) /\ k <= b
  BY <1>0, <1>k, <1>r, <1>b, InsertedSplit
<1>7. m.prio < p => Split(r, p, b) /\ b <= k
  BY <1>0, <1>k, <1>r, <1>b, InsertedSplit
<1> HIDE DEF x
<1>8. CASE p = m.prio
  <2>0. p <= m.prio /\ m.prio < p + 1 /\ b = k
    BY <1>0, <1>8, <1>k, <1>b
  <2>1. Split(r, p + 1, a) /\ Split(r, p, b + 1)
    BY <1>5, <1>6, <2>0
  <2>2. /\ y \in Seq(Message) /\ Len(y) = (b + 1) - a
        /\ \A j \in 1 .. (b + 1) - a : y[j] = r[a + j]
    BY <1>s, <2>1, OfPrioEntries
  <2> HIDE DEF y
  <2>3. /\ Append(x, m) \in Seq(Message) /\ Len(Append(x, m)) = Len(x) + 1
        /\ \A j \in 1 .. Len(x) : Append(x, m)[j] = x[j]
        /\ Append(x, m)[Len(x) + 1] = m
    BY <1>3
  <2> DEFINE z == Append(x, m)
  <2> HIDE DEF z
  <2>4. ASSUME NEW j \in 1 .. Len(y) PROVE y[j] = z[j]
    <3>1. CASE j = b - a + 1
      <4>1. a + j = k + 1 /\ j \in 1 .. (b + 1) - a /\ j = Len(x) + 1
        BY <1>3, <2>0, <2>2, <3>1
      <4> QED BY <1>1, <2>2, <2>3, <4>1 DEF z
    <3>2. CASE j # b - a + 1
      <4>1. j \in 1 .. b - a /\ a + j \in 1 .. k /\ j \in 1 .. (b + 1) - a /\ j \in 1 .. Len(x)
        BY <1>3, <2>0, <2>2, <3>2
      <4> QED BY <1>1, <1>3, <2>2, <2>3, <4>1 DEF z
    <3> QED BY <3>1, <3>2
  <2>5. Len(y) = Len(z)
    BY <1>3, <2>2, <2>3 DEF z
  <2>6. y = z
    BY <2>2, <2>3, <2>4, <2>5, SeqEqual DEF z
  <2> QED BY <1>8, <1>r, <2>6 DEF x, y, z
<1>9. CASE m.prio < p
  <2>1. m.prio < p + 1 /\ p # m.prio
    BY <1>0, <1>9
  <2>2. Split(r, p + 1, a) /\ Split(r, p, b) /\ b <= k
    BY <1>5, <1>7, <1>9, <2>1
  <2>s. Split(r, p + 1, a) /\ Split(r, p, b)
    BY <2>2
  <2>3. /\ y \in Seq(Message) /\ Len(y) = b - a
        /\ \A j \in 1 .. b - a : y[j] = r[a + j]
    BY <1>s, <2>s, OfPrioEntries
  <2> HIDE DEF y
  <2>4. ASSUME NEW j \in 1 .. Len(y) PROVE y[j] = x[j]
    <3>1. j \in 1 .. b - a /\ a + j \in 1 .. k
      BY <1>1, <1>3, <2>2, <2>3
    <3> QED BY <1>1, <1>3, <2>3, <3>1
  <2>5. y = x
    BY <1>3, <2>3, <2>4, SeqEqual
  <2> QED BY <1>r, <2>1, <2>5 DEF x, y
<1>10. CASE p < m.prio
  <2>1. p + 1 <= m.prio /\ p <= m.prio /\ p # m.prio
    BY <1>0, <1>10
  <2>2. Split(r, p + 1, a + 1) /\ Split(r, p, b + 1) /\ k <= a
    BY <1>4, <1>6, <2>1
  <2>s. Split(r, p + 1, a + 1) /\ Split(r, p, b + 1)
    BY <2>2
  <2>3. /\ y \in Seq(Message) /\ Len(y) = (b + 1) - (a + 1)
        /\ \A j \in 1 .. (b + 1) - (a + 1) : y[j] = r[(a + 1) + j]
    BY <1>s, <2>s, OfPrioEntries
  <2> HIDE DEF y
  <2>4. ASSUME NEW j \in 1 .. Len(y) PROVE y[j] = x[j]
    <3>1. /\ j \in 1 .. b - a /\ j \in 1 .. (b + 1) - (a + 1)
          /\ a + j \in k + 1 .. Len(s) /\ (a + 1) + j = (a + j) + 1
      BY <1>1, <1>3, <2>2, <2>3
    <3> QED BY <1>1, <1>3, <2>3, <3>1
  <2>5. Len(y) = Len(x)
    BY <1>3, <2>3
  <2>6. y = x
    BY <1>3, <2>3, <2>4, <2>5, SeqEqual
  <2> QED BY <1>r, <2>1, <2>6 DEF x, y
<1> QED BY <1>0, <1>8, <1>9, <1>10

\* What mq_waitreceive does: the first message is one of the highest priority,
\* and the oldest of them.
LEMMA TailSplit ==
    ASSUME NEW s \in Seq(Message), Sorted(s), s # <<>>, NEW p \in Nat
    PROVE  /\ p <= s[1].prio => Split(Tail(s), p, AtLeast(s, p) - 1) /\ 1 <= AtLeast(s, p)
           /\ s[1].prio < p => Split(Tail(s), p, 0) /\ AtLeast(s, p) = 0
<1>t. PICK t : t = Tail(s)
  OBVIOUS
<1>n. PICK n : n = AtLeast(s, p)
  OBVIOUS
<1>0. /\ Len(s) \in Nat /\ Len(s) >= 1 /\ \A i \in 1 .. Len(s) : s[i].prio \in Nat
      /\ t \in Seq(Message) /\ Len(t) = Len(s) - 1
      /\ \A i \in 1 .. Len(s) - 1 : t[i] = s[i + 1]
  <2>1. \A i \in 1 .. Len(s) : s[i] \in Message
    OBVIOUS
  <2>2. /\ Len(s) \in Nat /\ Len(s) >= 1
        /\ t \in Seq(Message) /\ Len(t) = Len(s) - 1 /\ \A i \in 1 .. Len(s) - 1 : t[i] = s[i + 1]
    BY <1>t
  <2> QED BY <2>1, <2>2, PrioNat
<1>1. n \in Nat /\ n <= Len(s) /\ \A i \in 1 .. Len(s) : p <= s[i].prio <=> i <= n
  <2>1. Split(s, p, n)
    BY <1>n, SortedSplit
  <2> QED BY <1>0, <2>1 DEF Split
<1>2. 1 \in 1 .. Len(s)
  BY <1>0
<1>3. ASSUME p <= s[1].prio PROVE Split(t, p, n - 1) /\ 1 <= n
  <2>1. 1 <= n
    BY <1>1, <1>2, <1>3
  <2>2. ASSUME NEW i \in 1 .. Len(t) PROVE p <= t[i].prio <=> i <= n - 1
    <3>1. i + 1 \in 1 .. Len(s) /\ t[i] = s[i + 1] /\ (i + 1 <= n <=> i <= n - 1)
      BY <1>0, <1>1
    <3> QED BY <1>1, <3>1
  <2>3. n - 1 \in 0 .. Len(t)
    BY <1>0, <1>1, <2>1
  <2> QED BY <2>1, <2>2, <2>3 DEF Split
<1>4. ASSUME s[1].prio < p PROVE Split(t, p, 0) /\ n = 0
  <2>0. ~(p <= s[1].prio)
    BY <1>0, <1>2, <1>4
  <2>1. n = 0
    BY <1>1, <1>2, <2>0
  <2>2. ASSUME NEW i \in 1 .. Len(t) PROVE p <= t[i].prio <=> i <= 0
    <3>1. i + 1 \in 1 .. Len(s) /\ t[i] = s[i + 1] /\ ~(i + 1 <= n) /\ ~(i <= 0)
      BY <1>0, <1>1, <2>1
    <3> QED BY <1>1, <3>1
  <2>3. 0 \in 0 .. Len(t)
    BY <1>0
  <2> QED BY <2>1, <2>2, <2>3 DEF Split
<1> QED BY <1>3, <1>4, <1>t, <1>n

LEMMA TailSorted ==
    ASSUME NEW s \in Seq(Message), Sorted(s), s # <<>>
    PROVE  Tail(s) \in Seq(Message) /\ Sorted(Tail(s))
<1>1. /\ Tail(s) \in Seq(Message) /\ Len(Tail(s)) = Len(s) - 1 /\ Len(s) \in Nat
      /\ \A i \in 1 .. Len(s) - 1 : Tail(s)[i] = s[i + 1]
  OBVIOUS
<1>2. ASSUME NEW i \in 1 .. Len(Tail(s)), NEW j \in 1 .. Len(Tail(s)), i <= j
      PROVE  Tail(s)[j].prio <= Tail(s)[i].prio
  <2>1. i \in 1 .. Len(s) - 1 /\ j \in 1 .. Len(s) - 1 /\ i + 1 \in 1 .. Len(s) /\ j + 1 \in 1 .. Len(s) /\ i + 1 <= j + 1
    BY <1>1, <1>2
  <2>2. s[j + 1].prio <= s[i + 1].prio
    BY <2>1 DEF Sorted
  <2> QED BY <1>1, <2>1, <2>2
<1> QED BY <1>1, <1>2 DEF Sorted

LEMMA TailOfPrio ==
    ASSUME NEW s \in Seq(Message), Sorted(s), s # <<>>, NEW p \in Nat
    PROVE  /\ OfPrio(Tail(s), p) = IF p = s[1].prio THEN Tail(OfPrio(s, p)) ELSE OfPrio(s, p)
           /\ p = s[1].prio => OfPrio(s, p) # <<>>
           /\ OfPrio(s, p) # <<>> => p <= s[1].prio
<1>t. PICK t : t = Tail(s)
  OBVIOUS
<1>h. PICK h : h = s[1].prio
  OBVIOUS
<1>a. PICK a : a = AtLeast(s, p + 1)
  OBVIOUS
<1>b. PICK b : b = AtLeast(s, p)
  OBVIOUS
<1>0. /\ Len(s) \in Nat /\ Len(s) >= 1 /\ h \in Nat /\ p + 1 \in Nat
      /\ t \in Seq(Message) /\ Len(t) = Len(s) - 1
      /\ \A i \in 1 .. Len(s) - 1 : t[i] = s[i + 1]
  <2>1. s[1] \in Message
    OBVIOUS
  <2>2. /\ Len(s) \in Nat /\ Len(s) >= 1
        /\ t \in Seq(Message) /\ Len(t) = Len(s) - 1 /\ \A i \in 1 .. Len(s) - 1 : t[i] = s[i + 1]
    BY <1>t
  <2>3. p + 1 \in Nat
    OBVIOUS
  <2> QED BY <1>h, <2>1, <2>2, <2>3, PrioNat
<1>2. Split(s, p + 1, a) /\ Split(s, p, b)
  BY <1>0, <1>a, <1>b, SortedSplit
<1> DEFINE x == OfPrio(s, p)
           y == OfPrio(t, p)
<1>3. /\ a \in Nat /\ b \in Nat /\ a <= b /\ b <= Len(s)
      /\ x \in Seq(Message) /\ Len(x) = b - a
      /\ \A j \in 1 .. b - a : x[j] = s[a + j]
  BY <1>2, OfPrioEntries
<1>4. p + 1 <= h => Split(t, p + 1, a - 1) /\ 1 <= a
  BY <1>0, <1>t, <1>h, <1>a, TailSplit
<1>5. h < p + 1 => Split(t, p + 1, 0) /\ a = 0
  BY <1>0, <1>t, <1>h, <1>a, TailSplit
<1>6. p <= h => Split(t, p, b - 1) /\ 1 <= b
  BY <1>0, <1>t, <1>h, <1>b, TailSplit
<1>7. h < p => Split(t, p, 0) /\ b = 0
  BY <1>0, <1>t, <1>h, <1>b, TailSplit
<1> HIDE DEF x
<1>8. CASE p = h
  <2>0. p <= h /\ h < p + 1
    BY <1>0, <1>8
  <2>1. Split(t, p + 1, 0) /\ Split(t, p, b - 1) /\ a = 0 /\ 1 <= b
    BY <1>5, <1>6, <2>0
  <2>2. /\ y \in Seq(Message) /\ Len(y) = (b - 1) - 0
        /\ \A j \in 1 .. (b - 1) - 0 : y[j] = t[0 + j]
    BY <1>0, <2>1, OfPrioEntries
  <2> HIDE DEF y
  <2>3. x # <<>>
    <3>1. Len(x) # 0
      BY <1>3, <2>1
    <3> QED BY <3>1, EmptySeq
  <2>4. /\ Tail(x) \in Seq(Message) /\ Len(Tail(x)) = Len(x) - 1
        /\ \A j \in 1 .. Len(x) - 1 : Tail(x)[j] = x[j + 1]
    BY <1>3, <2>3
  <2> DEFINE z == Tail(x)
  <2> HIDE DEF z
  <2>5. ASSUME NEW j \in 1 .. Len(y) PROVE y[j] = z[j]
    <3>1. /\ j \in 1 .. (b - 1) - 0 /\ 0 + j = j /\ j \in 1 .. Len(s) - 1 /\ j \in 1 .. Len(x) - 1
          /\ j + 1 \in 1 .. b - a /\ a + (j + 1) = j + 1
      BY <1>0, <1>3, <2>1, <2>2
    <3>2. y[j] = s[j + 1]
      BY <1>0, <2>2, <3>1
    <3>3. z[j] = s[j + 1]
      BY <1>3, <2>4, <3>1 DEF z
    <3> QED BY <3>2, <3>3
  <2>6. Len(y) = Len(z)
    BY <1>3, <2>1, <2>2, <2>4 DEF z
  <2>7. y = z
    BY <2>2, <2>4, <2>5, <2>6, SeqEqual DEF z
  <2> QED BY <1>8, <1>t, <1>h, <2>0, <2>3, <2>7 DEF x, y, z
<1>9. CASE h < p
  <2>1. h < p + 1 /\ p # h
    BY <1>0, <1>9
  <2>2. Split(t, p + 1, 0) /\ Split(t, p, 0) /\ a = 0 /\ b = 0
    BY <1>5, <1>7, <1>9, <2>1
  <2>o. PICK o : o = 0
    OBVIOUS
  <2>z. Split(t, p + 1, o) /\ Split(t, p, o)
    BY <2>2, <2>o
  <2>3. y \in Seq(Message) /\ Len(y) = o - o
    BY <1>0, <2>z, OfPrioEntries
  <2> HIDE DEF y
  <2>4. Len(x) = 0 /\ Len(y) = 0
    BY <1>3, <2>2, <2>3, <2>o
  <2>5. x = <<>> /\ y = <<>>
    BY <1>3, <2>3, <2>4, EmptySeq
  <2> QED BY <1>t, <1>h, <2>1, <2>5 DEF x, y
<1>10. CASE p < h
  <2>1. p + 1 <= h /\ p <= h /\ p # h
    BY <1>0, <1>10
  <2>2. Split(t, p + 1, a - 1) /\ Split(t, p, b - 1) /\ 1 <= a
    BY <1>4, <1>6, <2>1
  <2>3. /\ y \in Seq(Message) /\ Len(y) = (b - 1) - (a - 1)
        /\ \A j \in 1 .. (b - 1) - (a - 1) : y[j] = t[(a - 1) + j]
    BY <1>0, <2>2, OfPrioEntries
  <2> HIDE DEF y
  <2>4. ASSUME NEW j \in 1 .. Len(y) PROVE y[j] = x[j]
    <3>1. /\ j \in 1 .. b - a /\ j \in 1 .. (b - 1) - (a - 1)
          /\ (a - 1) + j \in 1 .. Len(s) - 1 /\ ((a - 1) + j) + 1 = a + j
      BY <1>0, <1>3, <2>2, <2>3
    <3> QED BY <1>0, <1>3, <2>3, <3>1
  <2>5. Len(y) = Len(x)
    BY <1>3, <2>3
  <2>6. y = x
    BY <1>3, <2>3, <2>4, <2>5, SeqEqual
  <2> QED BY <1>t, <1>h, <2>1, <2>6 DEF x, y
<1> QED BY <1>0, <1>8, <1>9, <1>10

-----------------------------------------------------------------------------
(***************************************************************************)
(* A step seen from the lists: mq_dosend puts a message into one of them,  *)
(* a receiver takes the first of one, or they stay.                        *)
(***************************************************************************)
Puts(q, m) == msglist' = [msglist EXCEPT ![q] = Inserted(msglist[q], m)]

Takes(q) == msglist[q] # <<>> /\ msglist' = [msglist EXCEPT ![q] = Tail(msglist[q])]

ListStep == UNCHANGED msglist \/ \E q \in Queue : Takes(q) \/ \E m \in Message : Puts(q, m)

LEMMA ListSteps ==
    ASSUME MqInv, [Next]_vars
    PROVE  ListStep
<1>c. PICK c : c = cur
  OBVIOUS
<1>0. c \in Task /\ TaskOK(c)
  BY <1>c, RunningFacts
<1>1. CASE Call
  <2>1. ASSUME NEW q \in Queue, MqReceive(q) PROVE ListStep
    BY <2>1 DEF MqReceive, WaitNotEmpty, TakeFirst, ListStep, Takes
  <2>2. ASSUME NEW q \in Queue, MqNotify(q) PROVE ListStep
    BY <2>2 DEF MqNotify, ListStep
  <2>3. ASSUME NEW q \in Queue, NEW p \in MsgPrio, MqSend(q, p) PROVE ListStep
    BY <2>3 DEF MqSend, WaitNotFull, ListStep
  <2>4. CASE Sleep
    BY <2>4 DEF Sleep, mqVars, ListStep
  <2> QED BY <1>1, <2>1, <2>2, <2>3, <2>4 DEF Call
<1>2. CASE Continue
  <2>1. CASE SendResumes
    BY <2>1 DEF SendResumes, WaitNotFull, ListStep
  <2>2. CASE Insert
    <3>1. pc[c] = "insert" /\ Puts(pq[c], pmsg[c])
      BY <1>c, <2>2 DEF Insert, At, Puts
    <3>2. pq[c] \in Queue /\ pmsg[c] \in Message
      BY <1>0, <3>1 DEF TaskOK, HandOK
    <3> QED BY <3>1, <3>2 DEF ListStep
  <2>3. CASE ReceiveResumes
    <3>1. pc[c] = "waitrcv" /\ (UNCHANGED msglist \/ Takes(pq[c]))
      BY <1>c, <2>3 DEF ReceiveResumes, At, WaitNotEmpty, TakeFirst, Takes
    <3>2. pq[c] \in Queue
      BY <1>0, <3>1 DEF TaskOK
    <3> QED BY <3>1, <3>2 DEF ListStep
  <2>4. CASE Alloc \/ ReadNotify \/ SignalNotify \/ WakeReceiver \/ Free \/ WakeSender \/ WakeSenderAsserts
    BY <2>4 DEF Alloc, ReadNotify, SignalNotify, WakeReceiver, Free, WakeSender, WakeSenderAsserts, ListStep
  <2> QED BY <1>2, <2>1, <2>2, <2>3, <2>4 DEF Continue
<1>3. CASE Isr
  <2>1. ASSUME NEW q \in Queue, NEW p \in MsgPrio, IsrSend(q, p) PROVE ListStep
    <3>1. Puts(q, IsrMsg(p))
      BY <2>1 DEF IsrSend, Puts
    <3>2. IsrMsg(p) \in Message
      BY DEF IsrMsg, Message
    <3> QED BY <3>1, <3>2 DEF ListStep
  <2>2. CASE IsrWake
    BY <2>2 DEF IsrWake, ListStep
  <2>3. ASSUME NEW w \in Task, Timeout(w) \/ IsrSignal(w) PROVE ListStep
    BY <2>3 DEF Timeout, IsrSignal, ListStep
  <2> QED BY <1>3, <2>1, <2>2, <2>3 DEF Isr
<1>4. CASE Halted \/ UNCHANGED vars
  BY <1>4 DEF Halted, vars, mqVars, ListStep
<1> QED BY <1>1, <1>2, <1>3, <1>4 DEF Next

SortedInv == \A q \in Queue : Sorted(msglist[q])

LEMMA ListsKept ==
    ASSUME MqInv, SortedInv, [Next]_vars
    PROVE  SortedInv'
<1>1. msglist \in [Queue -> Seq(Message)] /\ \A u \in Queue : Sorted(msglist[u])
  <2>1. QueueTypes
    BY RunningFacts
  <2> QED BY <2>1 DEF QueueTypes, SortedInv
<1>2. CASE UNCHANGED msglist
  BY <1>2 DEF SortedInv, Sorted
<1>3. ASSUME NEW q \in Queue, NEW l, Sorted(l), msglist' = [msglist EXCEPT ![q] = l] PROVE SortedInv'
  <2>1. \A u \in Queue : msglist'[u] = IF u = q THEN l ELSE msglist[u]
    BY <1>1, <1>3
  <2>2. \A u \in Queue : Sorted(msglist'[u])
    BY <1>1, <1>3, <2>1
  <2> QED BY <2>2 DEF SortedInv, Sorted
<1>4. ASSUME NEW q \in Queue, Takes(q) PROVE SortedInv'
  <2>1. Sorted(Tail(msglist[q]))
    BY <1>1, <1>4, TailSorted DEF Takes
  <2> QED BY <1>3, <1>4, <2>1 DEF Takes
<1>5. ASSUME NEW q \in Queue, NEW m \in Message, Puts(q, m) PROVE SortedInv'
  <2>1. Sorted(Inserted(msglist[q], m))
    BY <1>1, InsertedSorted
  <2> QED BY <1>3, <1>5, <2>1 DEF Puts
<1> QED BY <1>2, <1>4, <1>5, ListSteps DEF ListStep

\* The list of q becomes l: its messages of priority n become z, the others stay.
OneChanges(q, l, n, z) ==
    /\ msglist' = [msglist EXCEPT ![q] = l]
    /\ \A p \in MsgPrio : OfPrio(l, p) = IF p = n THEN z ELSE OfPrio(msglist[q], p)

LEMMA AbsStep ==
    ASSUME MqInv, SortedInv, [Next]_vars
    PROVE  [Abs!Next]_ByPrio
<1>1. msglist \in [Queue -> Seq(Message)] /\ \A u \in Queue : Sorted(msglist[u])
  <2>1. QueueTypes
    BY RunningFacts
  <2> QED BY <2>1 DEF QueueTypes, SortedInv
<1>2. MsgPrio \subseteq Nat /\ \A m \in Message : m.prio \in MsgPrio
  BY MqConstants DEF Message
<1>3. CASE UNCHANGED msglist
  BY <1>3 DEF ByPrio
<1>4. ASSUME NEW q \in Queue, NEW l, NEW n \in MsgPrio, NEW z, OneChanges(q, l, n, z)
      PROVE  ByPrio' = [ByPrio EXCEPT ![q][n] = z]
  <2>0. \A p \in MsgPrio : OfPrio(l, p) = IF p = n THEN z ELSE OfPrio(msglist[q], p)
    BY <1>4 DEF OneChanges
  <2>1. \A u \in Queue : msglist'[u] = IF u = q THEN l ELSE msglist[u]
    BY <1>1, <1>4 DEF OneChanges
  <2> DEFINE f(ml, u) == [p \in MsgPrio |-> OfPrio(ml[u], p)]
  <2>2. ByPrio' = [u \in Queue |-> f(msglist', u)] /\ ByPrio = [u \in Queue |-> f(msglist, u)]
    BY DEF ByPrio
  <2>3. \A u \in Queue : f(msglist', u) = IF u = q THEN [f(msglist, u) EXCEPT ![n] = z] ELSE f(msglist, u)
    <3> TAKE u \in Queue
    <3>1. CASE u = q
      <4>1. \A p \in MsgPrio : f(msglist', u)[p] = [f(msglist, u) EXCEPT ![n] = z][p]
        BY <2>0, <2>1, <3>1
      <4> QED BY <3>1, <4>1
    <3>2. CASE u # q
      BY <2>1, <3>2
    <3> QED BY <3>1, <3>2
  <2> HIDE DEF f
  <2> QED BY <2>2, <2>3
<1>5. ASSUME NEW q \in Queue, NEW m \in Message, Puts(q, m) PROVE Abs!Send(q, m)
  <2>1. \A p \in MsgPrio : OfPrio(Inserted(msglist[q], m), p) =
          IF p = m.prio THEN Append(OfPrio(msglist[q], m.prio), m) ELSE OfPrio(msglist[q], p)
    BY <1>1, <1>2, InsertedOfPrio
  <2>2. ByPrio' = [ByPrio EXCEPT ![q][m.prio] = Append(OfPrio(msglist[q], m.prio), m)]
    <3>l. PICK l : l = Inserted(msglist[q], m)
      OBVIOUS
    <3>z. PICK z : z = Append(OfPrio(msglist[q], m.prio), m)
      OBVIOUS
    <3>1. OneChanges(q, l, m.prio, z)
      BY <1>5, <2>1, <3>l, <3>z DEF Puts, OneChanges
    <3>2. ByPrio' = [ByPrio EXCEPT ![q][m.prio] = z]
      BY <1>2, <1>4, <3>1
    <3> QED BY <3>2, <3>z
  <2>3. ByPrio[q][m.prio] = OfPrio(msglist[q], m.prio)
    BY <1>2 DEF ByPrio
  <2> QED BY <2>2, <2>3 DEF Abs!Send
<1>6. ASSUME NEW q \in Queue, Takes(q) PROVE \E p \in MsgPrio : Abs!Receive(q, p)
  <2>n. PICK n : n = msglist[q][1].prio
    OBVIOUS
  <2>0. msglist[q] \in Seq(Message) /\ msglist[q] # <<>> /\ Sorted(msglist[q])
    BY <1>1, <1>6 DEF Takes
  <2>1. n \in MsgPrio
    <3>1. msglist[q][1] \in Message
      BY <2>0
    <3> QED BY <1>2, <2>n, <3>1
  <2>2. \A p \in MsgPrio : /\ OfPrio(Tail(msglist[q]), p) = IF p = n THEN Tail(OfPrio(msglist[q], p)) ELSE OfPrio(msglist[q], p)
                           /\ p = n => OfPrio(msglist[q], p) # <<>>
                           /\ OfPrio(msglist[q], p) # <<>> => p <= n
    BY <1>2, <2>0, <2>n, TailOfPrio
  <2>3. \A p \in MsgPrio : OfPrio(Tail(msglist[q]), p) = IF p = n THEN Tail(OfPrio(msglist[q], n)) ELSE OfPrio(msglist[q], p)
    BY <2>2
  <2>4. ByPrio' = [ByPrio EXCEPT ![q][n] = Tail(OfPrio(msglist[q], n))]
    <3>l. PICK l : l = Tail(msglist[q])
      OBVIOUS
    <3>z. PICK z : z = Tail(OfPrio(msglist[q], n))
      OBVIOUS
    <3>1. OneChanges(q, l, n, z)
      BY <1>6, <2>3, <3>l, <3>z DEF Takes, OneChanges
    <3>2. ByPrio' = [ByPrio EXCEPT ![q][n] = z]
      BY <1>4, <2>1, <3>1
    <3> QED BY <3>2, <3>z
  <2>5. \A p \in MsgPrio : ByPrio[q][p] = OfPrio(msglist[q], p)
    BY DEF ByPrio
  <2>6. Abs!Receive(q, n)
    BY <2>1, <2>2, <2>4, <2>5 DEF Abs!Receive
  <2> QED BY <2>1, <2>6
<1> QED BY <1>3, <1>5, <1>6, ListSteps DEF ListStep, Abs!Next

(***************************************************************************)
(* A queue is what MqueueAbs promises: mq_dosend and mq_waitreceive work   *)
(* in critical sections of their own, around handlers that send, and still *)
(* every message is received once, those of higher priority first, and     *)
(* among equals in the order in which they were sent.                      *)
(***************************************************************************)
THEOREM QueuesImplement == Spec => ImplementsMqueueAbs
<1>1. Init => SortedInv
  <2>1. ASSUME Init, NEW q \in Queue PROVE Sorted(msglist[q])
    <3>1. msglist[q] = <<>>
      BY <2>1 DEF Init
    <3>2. Len(<<>>) = 0
      BY EmptySeq
    <3>3. \A i \in 1 .. Len(msglist[q]) : FALSE
      BY <3>1, <3>2
    <3> QED BY <3>3 DEF Sorted
  <2> QED BY <2>1 DEF SortedInv
<1>2. Init => Abs!Init
  <2>1. ASSUME Init PROVE Abs!Init
    <3>1. ASSUME NEW p \in Nat PROVE OfPrio(<<>>, p) = <<>>
      <4>o. PICK o : o = 0
        OBVIOUS
      <4>1. <<>> \in Seq(Message) /\ Len(<<>>) = 0
        BY EmptySeq
      <4>2. Split(<<>>, p, o) /\ Split(<<>>, p + 1, o)
        BY <4>1, <4>o DEF Split
      <4>3. OfPrio(<<>>, p) \in Seq(Message) /\ Len(OfPrio(<<>>, p)) = o - o
        BY <4>1, <4>2, OfPrioEntries
      <4>4. Len(OfPrio(<<>>, p)) = 0
        BY <4>3, <4>o
      <4> QED BY <4>3, <4>4, EmptySeq
    <3>2. MsgPrio \subseteq Nat /\ \A q \in Queue : msglist[q] = <<>>
      BY <2>1, MqConstants DEF Init
    <3> QED BY <3>1, <3>2 DEF Abs!Init, ByPrio
  <2> QED BY <2>1
<1>3. MqInv /\ SortedInv /\ [Next]_vars => SortedInv'
  BY ListsKept
<1>4. MqInv /\ SortedInv /\ [Next]_vars => [Abs!Next]_ByPrio
  BY AbsStep
<1> QED BY <1>1, <1>2, <1>3, <1>4, MqInvariant, PTL DEF Spec, ImplementsMqueueAbs, Abs!Spec
=============================================================================
