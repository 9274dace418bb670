----------------------- MODULE ReservationServerProofs -----------------------
(***************************************************************************)
(* The locks, the request handlers, and the whole system under the stress  *)
(* harness.                                                                *)
(*                                                                         *)
(* LockManager is a lock: one holder per key, locked exactly while it is   *)
(* held, and no wake-up lost.  None of this is inductive by itself.  That  *)
(* the woken task finds its key free when the event loop resumes it rests  *)
(* on the queue: a woken task stays at its head, and newcomers look at the *)
(* queue before they take a free lock.                                     *)
(*                                                                         *)
(* Every step of the server is a step of the database, of the locks, or of *)
(* both.  What is proved of ReservationDB and LockManager holds here only  *)
(* once it is shown that the handlers call them as these expect: with the  *)
(* seats, tiers and tickets that exist, and a lock only while they have    *)
(* it.  That is what ServerInv says.                                       *)
(***************************************************************************)
EXTENDS StressHarness, ReservationDBProofs

-----------------------------------------------------------------------------
(* The locks: the inductive invariant.                                    *)

\* The parts of a task's record fit together.
TaskFits ==
  \A t \in Task :
    /\ task[t].phase # "idle" => task[t].key \in Key
    /\ task[t].phase = "waiting" <=> task[t].future # "none"
    /\ task[t].future = "pending" => ~task[t].expired
    /\ task[t].future = "cancelled" => task[t].expired

WaitsFor(t, k) == task[t].phase = "waiting" /\ task[t].key = k

\* The queue of a key holds the tasks that wait for it, each once.
InLine ==
  \A k \in Key :
    /\ \A i, j \in 1..Len(locks[k].waiters) :
         locks[k].waiters[i] = locks[k].waiters[j] => i = j
    /\ \A t \in Task :
         WaitsFor(t, k) <=> \E i \in 1..Len(locks[k].waiters) : locks[k].waiters[i] = t

\* A woken task is first in line for a lock that is free.
WokenIsFirst ==
  \A t \in Task :
    task[t].future = "done" =>
      /\ ~locks[task[t].key].locked
      /\ locks[task[t].key].waiters[1] = t

\* The key of a task that holds one is locked.
HeldIsLocked ==
  \A t \in Task : task[t].phase = "holding" => locks[task[t].key].locked

\* NoLostWakeup, by index.
WakeupPending ==
  \A k \in Key :
    ~locks[k].locked /\ Len(locks[k].waiters) > 0 =>
      \/ task[locks[k].waiters[1]].future = "done"
      \/ \E i \in 1..Len(locks[k].waiters) : task[locks[k].waiters[i]].future = "cancelled"

LockInv ==
  /\ LockTypeOK /\ TaskFits /\ InLine /\ WokenIsFirst
  /\ KeyExclusion /\ HeldIsLocked /\ WakeupPending

LEMMA InvInitially == LockInit => LockInv /\ LockedIffHeld
<1> SUFFICES ASSUME LockInit PROVE LockInv /\ LockedIffHeld
  OBVIOUS
<1>1. \A k \in Key : locks[k].locked = FALSE /\ Len(locks[k].waiters) = 0
  BY DEF LockInit
<1>2. \A t \in Task : /\ task[t].phase = "idle" /\ task[t].future = "none"
                      /\ task[t].expired = FALSE /\ task[t].key = NoKey
  BY DEF LockInit, Idle
<1>3. LockTypeOK
  BY DEF LockInit, LockTypeOK, Idle, Lock, TaskRecord
<1>4. TaskFits /\ WokenIsFirst /\ KeyExclusion /\ HeldIsLocked /\ LockedIffHeld
  BY <1>1, <1>2 DEF TaskFits, WokenIsFirst, KeyExclusion, HeldIsLocked, LockedIffHeld
<1>5. InLine /\ WakeupPending
  BY <1>1, <1>2 DEF InLine, WaitsFor, WakeupPending
<1>6. QED
  BY <1>3, <1>4, <1>5 DEF LockInv

LEMMA InvGivesNoLostWakeup == LockInv => NoLostWakeup
<1> SUFFICES ASSUME LockInv, NEW k \in Key,
                    ~locks[k].locked, locks[k].waiters # <<>>
             PROVE  \/ task[Head(locks[k].waiters)].future = "done"
                    \/ \E i \in 1..Len(locks[k].waiters) :
                         task[locks[k].waiters[i]].future = "cancelled"
  BY DEF NoLostWakeup
<1>1. locks[k].waiters \in Seq(Task)
  BY DEF LockInv, LockTypeOK, Lock
<1>2. Len(locks[k].waiters) > 0 /\ Head(locks[k].waiters) = locks[k].waiters[1]
  BY <1>1, EmptySeq, HeadTailProperties
<1>3. QED
  BY <1>2 DEF LockInv, WakeupPending

-----------------------------------------------------------------------------
(* What the actions do to one lock and one task, field by field. *)

\* One lock changes to the given state; the others stay.
LockBecomes(k, locked, waiters) ==
  locks' = [locks EXCEPT ![k] = [locked |-> locked, waiters |-> waiters]]

LEMMA LockFields ==
  ASSUME LockTypeOK, NEW k \in Key
  PROVE  /\ locks[k] = [locked |-> locks[k].locked, waiters |-> locks[k].waiters]
         /\ locks[k].locked \in BOOLEAN /\ locks[k].waiters \in Seq(Task)
BY DEF LockTypeOK, Lock

LEMMA LockedUpdate ==
  ASSUME LockTypeOK, NEW k \in Key, NEW b
  PROVE  [locks EXCEPT ![k].locked = b]
           = [locks EXCEPT ![k] = [locked |-> b, waiters |-> locks[k].waiters]]
<1> DEFINE l == locks[k]  x == locks[k].locked  w == locks[k].waiters
<1>1. l = [locked |-> x, waiters |-> w]
  BY LockFields
<1> HIDE DEF l, x, w
<1>2. [l EXCEPT !.locked = b] = [locked |-> b, waiters |-> w]
  BY <1>1
<1>3. QED
  BY <1>2, Zenon DEF l, w

LEMMA WaitersUpdate ==
  ASSUME LockTypeOK, NEW k \in Key, NEW v
  PROVE  [locks EXCEPT ![k].waiters = v]
           = [locks EXCEPT ![k] = [locked |-> locks[k].locked, waiters |-> v]]
<1> DEFINE l == locks[k]  x == locks[k].locked  w == locks[k].waiters
<1>1. l = [locked |-> x, waiters |-> w]
  BY LockFields
<1> HIDE DEF l, x, w
<1>2. [l EXCEPT !.waiters = v] = [locked |-> x, waiters |-> v]
  BY <1>1
<1>3. QED
  BY <1>2, Zenon DEF l, x

LEMMA LockChange ==
  ASSUME LockTypeOK, NEW k \in Key, NEW b \in BOOLEAN, NEW w \in Seq(Task),
         LockBecomes(k, b, w)
  PROVE  /\ locks' \in [Key -> Lock]
         /\ locks'[k].locked = b /\ locks'[k].waiters = w
         /\ \A j \in Key : j # k => locks'[j] = locks[j]
BY DEF LockTypeOK, LockBecomes, Lock

LEMMA TaskConstants ==
  /\ Idle \in TaskRecord
  /\ Idle.phase = "idle" /\ Idle.future = "none" /\ ~Idle.expired
  /\ \A k \in Key :
       /\ Holding(k) \in TaskRecord /\ WaitingFor(k) \in TaskRecord
       /\ Holding(k).phase = "holding" /\ Holding(k).key = k
       /\ Holding(k).future = "none" /\ ~Holding(k).expired
       /\ WaitingFor(k).phase = "waiting" /\ WaitingFor(k).key = k
       /\ WaitingFor(k).future = "pending" /\ ~WaitingFor(k).expired
BY DEF Idle, Holding, WaitingFor, TaskRecord

\* Two records of a task that differ at most in the future.
SameButFuture(r, q) == r.phase = q.phase /\ r.key = q.key /\ r.expired = q.expired

\* Waking changes the future of the first waiter from "pending" to "done".
LEMMA WokenFirstMeaning ==
  ASSUME NEW tasks \in [Task -> TaskRecord], NEW w \in Seq(Task)
  PROVE  /\ WokenFirst(tasks, w) \in [Task -> TaskRecord]
         /\ \A u \in Task :
              /\ SameButFuture(WokenFirst(tasks, w)[u], tasks[u])
              /\ WokenFirst(tasks, w)[u].future =
                   IF w # <<>> /\ u = w[1] /\ tasks[u].future = "pending"
                     THEN "done" ELSE tasks[u].future
<1>1. CASE w # <<>> /\ tasks[Head(w)].future = "pending"
  <2>1. Head(w) = w[1] /\ w[1] \in Task
    BY <1>1, HeadTailProperties
  <2>2. WokenFirst(tasks, w) = [tasks EXCEPT ![w[1]].future = "done"]
    BY <1>1, <2>1 DEF WokenFirst
  <2>3. QED
    BY <1>1, <2>1, <2>2 DEF TaskRecord, SameButFuture
<1>2. CASE ~(w # <<>> /\ tasks[Head(w)].future = "pending")
  <2>1. WokenFirst(tasks, w) = tasks
    BY <1>2 DEF WokenFirst
  <2>2. w # <<>> => Head(w) = w[1]
    BY HeadTailProperties
  <2>3. QED
    BY <1>2, <2>1, <2>2 DEF SameButFuture
<1>3. QED
  BY <1>1, <1>2

LEMMA TimerFiresMeaning ==
  ASSUME LockTypeOK, NEW t \in Task, TimerFires(t)
  PROVE  /\ task' \in [Task -> TaskRecord]
         /\ \A u \in Task : u # t => task'[u] = task[u]
         /\ task'[t].phase = "waiting" /\ task'[t].key = task[t].key /\ task'[t].expired
         /\ task'[t].future = IF task[t].future = "pending" THEN "cancelled" ELSE task[t].future
<1>1. task[t] \in TaskRecord /\ task \in [Task -> TaskRecord]
  BY DEF LockTypeOK
<1> DEFINE f == IF task[t].future = "pending" THEN "cancelled" ELSE task[t].future
<1>2. task' = [task EXCEPT ![t].expired = TRUE, ![t].future = f]
  BY <1>1 DEF TimerFires
<1>3. f \in {"none", "pending", "done", "cancelled"}
  BY <1>1 DEF TaskRecord
<1> HIDE DEF f
<1>4. /\ task' \in [Task -> TaskRecord]
      /\ \A u \in Task : u # t => task'[u] = task[u]
      /\ task'[t].phase = task[t].phase /\ task'[t].key = task[t].key /\ task'[t].expired
      /\ task'[t].future = f
  BY <1>1, <1>2, <1>3 DEF TaskRecord
<1>5. QED
  BY <1>4 DEF f, TimerFires

-----------------------------------------------------------------------------
(* The queues. *)

\* Leaving a queue keeps the others in it, each once and in order.
LEMMA LeavingLine ==
  ASSUME NEW w \in Seq(Task), NEW t \in Task,
         \A i, j \in 1..Len(w) : w[i] = w[j] => i = j,
         \E i \in 1..Len(w) : w[i] = t
  PROVE  LET v == RemoveFirst(w, t) IN
         /\ v \in Seq(Task)
         /\ \A i, j \in 1..Len(v) : v[i] = v[j] => i = j
         /\ \A u \in Task :
              (\E i \in 1..Len(v) : v[i] = u) <=> u # t /\ \E i \in 1..Len(w) : w[i] = u
         /\ w[1] # t => Len(v) > 0 /\ v[1] = w[1]
<1> DEFINE v == RemoveFirst(w, t)
<1>1. Contains(w, t)
  BY DEF Contains
<1>2. PICK m \in 1..Len(w) :
        /\ w[m] = t /\ Len(v) = Len(w) - 1
        /\ \A j \in 1..(Len(w) - 1) : v[j] = IF j < m THEN w[j] ELSE w[j + 1]
  BY <1>1, RemoveFirstProperties
<1>3. v \in Seq(Task)
  BY RemoveFirstProperties, SMTT(30)
<1> HIDE DEF v
<1>4. \A i, j \in 1..Len(v) : v[i] = v[j] => i = j
  BY <1>2
<1>5. ASSUME NEW u \in Task, NEW i \in 1..Len(v), v[i] = u
      PROVE  u # t /\ \E j \in 1..Len(w) : w[j] = u
  <2>1. i \in 1..(Len(w) - 1) /\ Len(w) \in Nat
    BY <1>2
  <2>2. PICK j \in 1..Len(w) : j # m /\ v[i] = w[j]
    <3>1. CASE i < m
      BY <3>1, <2>1, <1>2
    <3>2. CASE ~(i < m)
      <4>1. i + 1 \in 1..Len(w) /\ i + 1 # m /\ v[i] = w[i + 1]
        BY <3>2, <2>1, <1>2
      <4>2. QED
        BY <4>1
    <3>3. QED
      BY <3>1, <3>2
  <2>3. w[j] # w[m]
    BY <2>2
  <2>4. QED
    BY <2>2, <2>3, <1>2, <1>5
<1>6. ASSUME NEW u \in Task, u # t, NEW j \in 1..Len(w), w[j] = u
      PROVE  \E i \in 1..Len(v) : v[i] = u
  <2>1. CASE j < m
    BY <1>2, <1>6, <2>1
  <2>2. CASE j > m
    <3>1. j - 1 \in 1..Len(v) /\ v[j - 1] = w[j]
      BY <1>2, <2>2
    <3>2. QED
      BY <3>1, <1>6
  <2>3. QED
    BY <1>2, <1>6, <2>1, <2>2
<1>7. w[1] # t => Len(v) > 0 /\ v[1] = w[1]
  BY <1>2
<1>8. QED
  BY <1>3, <1>4, <1>5, <1>6, <1>7 DEF v

\* The tasks in a queue are the tasks that wait.
LEMMA WaiterWaits ==
  ASSUME LockInv, NEW k \in Key, NEW i \in 1..Len(locks[k].waiters)
  PROVE  locks[k].waiters[i] \in Task /\ WaitsFor(locks[k].waiters[i], k)
<1>1. locks[k].waiters \in Seq(Task)
  BY DEF LockInv, LockTypeOK, Lock
<1>2. locks[k].waiters[i] \in Task
  BY <1>1, ElementOfSeq
<1>3. QED
  BY <1>2 DEF LockInv, InLine

-----------------------------------------------------------------------------
(* Every action keeps the invariant. *)

LEMMA AcquireAtOnceKeepsInv ==
  ASSUME LockInv, NEW t \in Task, NEW k \in Key, AcquireAtOnce(t, k)
  PROVE  LockInv' /\ (LockedIffHeld => LockedIffHeld')
<1>1. LockTypeOK /\ task \in [Task -> TaskRecord] /\ task[t] = Idle /\ CanTakeAtOnce(locks[k])
  BY DEF LockInv, LockTypeOK, AcquireAtOnce
<1>2. LockBecomes(k, TRUE, locks[k].waiters)
  BY <1>1, LockedUpdate DEF AcquireAtOnce, LockBecomes
<1>3. /\ locks' \in [Key -> Lock] /\ locks'[k].locked
      /\ \A j \in Key : /\ locks'[j].waiters = locks[j].waiters
                        /\ j # k => locks'[j].locked = locks[j].locked
  <2>1. locks[k].waiters \in Seq(Task)
    BY <1>1, LockFields
  <2>2. /\ locks' \in [Key -> Lock]
        /\ locks'[k].locked = TRUE /\ locks'[k].waiters = locks[k].waiters
        /\ \A j \in Key : j # k => locks'[j] = locks[j]
    BY <1>1, <1>2, <2>1, LockChange
  <2>3. QED
    BY <2>2
<1>4. /\ task' \in [Task -> TaskRecord]
      /\ \A u \in Task : task'[u] = IF u = t THEN Holding(k) ELSE task[u]
  BY <1>1, TaskConstants DEF AcquireAtOnce
<1>5. LockTypeOK'
  BY <1>3, <1>4 DEF LockTypeOK
<1>6. TaskFits'
  BY <1>4, TaskConstants DEF TaskFits, LockInv
<1>7. \A u \in Task, j \in Key : WaitsFor(u, j)' <=> WaitsFor(u, j)
  BY <1>1, <1>4, TaskConstants DEF WaitsFor
<1>8. InLine'
  BY <1>3, <1>7 DEF InLine, LockInv
<1>9. ASSUME NEW u \in Task, WaitsFor(u, k)
      PROVE  task[u].future = "cancelled"
  <2>1. PICK i \in 1..Len(locks[k].waiters) : locks[k].waiters[i] = u
    BY <1>9 DEF LockInv, InLine
  <2>2. QED
    BY <1>1, <2>1 DEF CanTakeAtOnce
<1>10. WokenIsFirst'
  <2> SUFFICES ASSUME NEW u \in Task, task'[u].future = "done"
               PROVE  ~locks'[task'[u].key].locked /\ locks'[task'[u].key].waiters[1] = u
    BY DEF WokenIsFirst
  <2>1. u # t /\ task'[u] = task[u]
    BY <1>4, TaskConstants
  <2>2. task[u].phase = "waiting" /\ task[u].key \in Key
    BY <2>1 DEF LockInv, TaskFits
  <2>3. task[u].key # k
    BY <2>1, <2>2, <1>9 DEF WaitsFor
  <2>4. QED
    BY <2>1, <2>2, <2>3, <1>3 DEF LockInv, WokenIsFirst
<1>11. KeyExclusion'
  <2>1. ~locks[k].locked
    BY <1>1 DEF CanTakeAtOnce
  <2>2. \A u \in Task : task[u].phase = "holding" => task[u].key # k
    BY <2>1 DEF LockInv, HeldIsLocked
  <2>3. QED
    BY <2>2, <1>4, TaskConstants DEF LockInv, KeyExclusion
<1>12. HeldIsLocked'
  <2> SUFFICES ASSUME NEW u \in Task, task'[u].phase = "holding"
               PROVE  locks'[task'[u].key].locked
    BY DEF HeldIsLocked
  <2>1. CASE u = t
    BY <2>1, <1>3, <1>4, TaskConstants
  <2>2. CASE u # t
    <3>1. task'[u] = task[u] /\ task[u].key \in Key /\ locks[task[u].key].locked
      BY <2>2, <1>4 DEF LockInv, TaskFits, HeldIsLocked
    <3>2. QED
      BY <3>1, <1>3
  <2>3. QED
    BY <2>1, <2>2
<1>13. WakeupPending'
  <2> SUFFICES ASSUME NEW j \in Key, ~locks'[j].locked, Len(locks'[j].waiters) > 0
               PROVE  \/ task'[locks'[j].waiters[1]].future = "done"
                      \/ \E i \in 1..Len(locks'[j].waiters) :
                           task'[locks'[j].waiters[i]].future = "cancelled"
    BY DEF WakeupPending
  <2>1. j # k /\ ~locks[j].locked /\ locks'[j].waiters = locks[j].waiters
    BY <1>3
  <2>2. \A i \in 1..Len(locks[j].waiters) :
          task'[locks[j].waiters[i]] = task[locks[j].waiters[i]]
    BY <1>1, <1>4, WaiterWaits, TaskConstants DEF WaitsFor
  <2>3. 1 \in 1..Len(locks[j].waiters)
    BY <2>1, LockFields, LenProperties, <1>1
  <2>4. QED
    BY <2>1, <2>2, <2>3 DEF LockInv, WakeupPending
<1>14. LockedIffHeld => LockedIffHeld'
  <2> SUFFICES ASSUME LockedIffHeld, NEW j \in Key
               PROVE  locks'[j].locked <=>
                        \E u \in Task : task'[u].phase = "holding" /\ task'[u].key = j
    BY DEF LockedIffHeld
  <2>1. CASE j = k
    BY <2>1, <1>3, <1>4, TaskConstants
  <2>2. CASE j # k
    BY <2>2, <1>1, <1>3, <1>4, TaskConstants DEF LockedIffHeld
  <2>3. QED
    BY <2>1, <2>2
<1>15. QED
  BY <1>5, <1>6, <1>8, <1>10, <1>11, <1>12, <1>13, <1>14 DEF LockInv

LEMMA AcquireWaitsKeepsInv ==
  ASSUME LockInv, NEW t \in Task, NEW k \in Key, AcquireWaits(t, k)
  PROVE  LockInv' /\ (LockedIffHeld => LockedIffHeld')
<1> DEFINE w == locks[k].waiters
           v == Append(w, t)
<1>1. LockTypeOK /\ task \in [Task -> TaskRecord] /\ task[t] = Idle /\ ~CanTakeAtOnce(locks[k])
  BY DEF LockInv, LockTypeOK, AcquireWaits
<1>2. w \in Seq(Task) /\ locks[k].locked \in BOOLEAN
  BY <1>1, LockFields
<1>3. /\ v \in Seq(Task) /\ Len(v) = Len(w) + 1 /\ Len(w) \in Nat
      /\ \A i \in 1..Len(w) : v[i] = w[i]
      /\ v[Len(w) + 1] = t
  BY <1>2, AppendProperties, LenProperties
<1>4. LockBecomes(k, locks[k].locked, v)
  BY <1>1, WaitersUpdate DEF AcquireWaits, LockBecomes
<1> HIDE DEF v
<1>5. /\ locks' \in [Key -> Lock] /\ locks'[k].waiters = v
      /\ \A j \in Key : /\ locks'[j].locked = locks[j].locked
                        /\ j # k => locks'[j].waiters = locks[j].waiters
  BY <1>1, <1>2, <1>3, <1>4, LockChange
<1>6. /\ task' \in [Task -> TaskRecord]
      /\ \A u \in Task : task'[u] = IF u = t THEN WaitingFor(k) ELSE task[u]
  BY <1>1, TaskConstants DEF AcquireWaits
<1>7. LockTypeOK'
  BY <1>5, <1>6 DEF LockTypeOK
<1>8. TaskFits'
  BY <1>6, TaskConstants DEF TaskFits, LockInv
<1>9. /\ \A u \in Task, j \in Key : u # t => (WaitsFor(u, j)' <=> WaitsFor(u, j))
      /\ \A j \in Key : ~WaitsFor(t, j) /\ (WaitsFor(t, j)' <=> j = k)
  BY <1>1, <1>6, TaskConstants DEF WaitsFor
<1>10. \A j \in Key : \A i \in 1..Len(locks[j].waiters) :
         locks[j].waiters[i] \in Task /\ locks[j].waiters[i] # t
  BY <1>9, WaiterWaits
<1>11. InLine'
  <2> SUFFICES ASSUME NEW j \in Key
               PROVE  /\ \A i, m \in 1..Len(locks'[j].waiters) :
                           locks'[j].waiters[i] = locks'[j].waiters[m] => i = m
                      /\ \A u \in Task :
                           WaitsFor(u, j)' <=> \E i \in 1..Len(locks'[j].waiters) :
                                                  locks'[j].waiters[i] = u
    BY DEF InLine
  <2>1. /\ \A i, m \in 1..Len(locks[j].waiters) :
             locks[j].waiters[i] = locks[j].waiters[m] => i = m
        /\ \A u \in Task :
             WaitsFor(u, j) <=> \E i \in 1..Len(locks[j].waiters) : locks[j].waiters[i] = u
    BY DEF LockInv, InLine
  <2>2. CASE j # k
    BY <2>1, <2>2, <1>5, <1>9, <1>10
  <2>3. CASE j = k
    <3>1. ASSUME NEW i \in 1..Len(v), NEW m \in 1..Len(v), v[i] = v[m]
          PROVE  i = m
      <4>1. /\ \A x \in 1..Len(w) : w[x] # t
            /\ \A x, y \in 1..Len(w) : w[x] = w[y] => x = y
        BY <2>1, <2>3, <1>10
      <4>2. (i \in 1..Len(w) \/ i = Len(w) + 1) /\ (m \in 1..Len(w) \/ m = Len(w) + 1)
        BY <1>3
      <4> HIDE DEF w
      <4>3. QED
        BY <4>1, <4>2, <3>1, <1>3
    <3>2. ASSUME NEW u \in Task
          PROVE  WaitsFor(u, k)' <=> \E i \in 1..Len(v) : v[i] = u
      <4>1. CASE u = t
        BY <4>1, <1>3, <1>9
      <4>2. CASE u # t
        <5>1. WaitsFor(u, k)' <=> \E i \in 1..Len(w) : w[i] = u
          BY <4>2, <2>1, <2>3, <1>9
        <5>2. \A i \in 1..Len(v) : i \in 1..Len(w) \/ i = Len(w) + 1
          BY <1>3
        <5>3. \A i \in 1..Len(w) : i \in 1..Len(v)
          BY <1>3
        <5> HIDE DEF w
        <5>4. (\E i \in 1..Len(v) : v[i] = u) <=> \E i \in 1..Len(w) : w[i] = u
          BY <5>2, <5>3, <4>2, <1>3
        <5>5. QED
          BY <5>1, <5>4
      <4>3. QED
        BY <4>1, <4>2
    <3>3. QED
      BY <2>3, <3>1, <3>2, <1>5
  <2>4. QED
    BY <2>2, <2>3
<1>12. WokenIsFirst'
  <2> SUFFICES ASSUME NEW u \in Task, task'[u].future = "done"
               PROVE  ~locks'[task'[u].key].locked /\ locks'[task'[u].key].waiters[1] = u
    BY DEF WokenIsFirst
  <2>1. u # t /\ task'[u] = task[u]
    BY <1>6, TaskConstants
  <2>2. WaitsFor(u, task[u].key) /\ task[u].key \in Key
    BY <2>1 DEF LockInv, TaskFits, WaitsFor
  <2>3. ~locks[task[u].key].locked /\ locks[task[u].key].waiters[1] = u
    BY <2>1 DEF LockInv, WokenIsFirst
  <2>4. CASE task[u].key = k
    <3>1. \E i \in 1..Len(w) : w[i] = u
      BY <2>2, <2>4 DEF LockInv, InLine
    <3>2. v[1] = w[1]
      BY <3>1, <1>3
    <3>3. QED
      BY <2>1, <2>3, <2>4, <3>2, <1>5
  <2>5. QED
    BY <2>1, <2>2, <2>3, <2>4, <1>5
<1>13. KeyExclusion'
  BY <1>6, TaskConstants DEF LockInv, KeyExclusion
<1>14. HeldIsLocked'
  <2> SUFFICES ASSUME NEW u \in Task, task'[u].phase = "holding"
               PROVE  locks'[task'[u].key].locked
    BY DEF HeldIsLocked
  <2>1. task'[u] = task[u] /\ task[u].key \in Key /\ locks[task[u].key].locked
    BY <1>6, TaskConstants DEF LockInv, TaskFits, HeldIsLocked
  <2>2. QED
    BY <2>1, <1>5
<1>15. WakeupPending'
  <2> SUFFICES ASSUME NEW j \in Key, ~locks'[j].locked, Len(locks'[j].waiters) > 0
               PROVE  \/ task'[locks'[j].waiters[1]].future = "done"
                      \/ \E i \in 1..Len(locks'[j].waiters) :
                           task'[locks'[j].waiters[i]].future = "cancelled"
    BY DEF WakeupPending
  <2>1. ~locks[j].locked
    BY <1>5
  <2>2. \A i \in 1..Len(locks[j].waiters) :
          task'[locks[j].waiters[i]] = task[locks[j].waiters[i]]
    BY <1>6, <1>10
  <2>3. Len(locks[j].waiters) > 0 /\ 1 \in 1..Len(locks[j].waiters)
    <3>1. CASE j = k
      <4>1. \E i \in 1..Len(w) : task[w[i]].future # "cancelled"
        BY <2>1, <3>1, <1>1 DEF CanTakeAtOnce
      <4>2. QED
        BY <4>1, <3>1, <1>3
    <3>2. CASE j # k
      BY <3>2, <1>1, <1>5, LockFields, LenProperties
    <3>3. QED
      BY <3>1, <3>2
  <2>4. \/ task[locks[j].waiters[1]].future = "done"
        \/ \E i \in 1..Len(locks[j].waiters) : task[locks[j].waiters[i]].future = "cancelled"
    BY <2>1, <2>3 DEF LockInv, WakeupPending
  <2>5. CASE j = k
    <3>1. locks'[j].waiters = v
      BY <2>5, <1>5
    <3>2. /\ v[1] = w[1] /\ 1 \in 1..Len(v)
          /\ \A i \in 1..Len(w) : i \in 1..Len(v) /\ v[i] = w[i]
      BY <2>3, <2>5, <1>3
    <3>3. QED
      BY <3>1, <3>2, <2>2, <2>3, <2>4, <2>5
  <2>6. CASE j # k
    BY <2>2, <2>3, <2>4, <2>6, <1>5
  <2>7. QED
    BY <2>5, <2>6
<1>16. LockedIffHeld => LockedIffHeld'
  <2>1. \A u \in Task, j \in Key :
          task'[u].phase = "holding" /\ task'[u].key = j
            <=> task[u].phase = "holding" /\ task[u].key = j
    BY <1>1, <1>6, TaskConstants
  <2>2. QED
    BY <2>1, <1>5 DEF LockedIffHeld
<1>17. QED
  BY <1>7, <1>8, <1>11, <1>12, <1>13, <1>14, <1>15, <1>16 DEF LockInv

LEMMA TimerFiresKeepsInv ==
  ASSUME LockInv, NEW t \in Task, TimerFires(t)
  PROVE  LockInv' /\ (LockedIffHeld => LockedIffHeld')
<1>1. LockTypeOK /\ locks' = locks /\ task \in [Task -> TaskRecord]
  BY DEF LockInv, LockTypeOK, TimerFires
<1>2. /\ task' \in [Task -> TaskRecord]
      /\ \A u \in Task : u # t => task'[u] = task[u]
      /\ task'[t].phase = "waiting" /\ task'[t].key = task[t].key /\ task'[t].expired
      /\ task'[t].future = IF task[t].future = "pending" THEN "cancelled" ELSE task[t].future
  BY <1>1, TimerFiresMeaning
<1>3. task[t].phase = "waiting" /\ task[t].future # "none"
  BY DEF TimerFires, LockInv, TaskFits
<1>4. \A u \in Task : task'[u].phase = task[u].phase /\ task'[u].key = task[u].key
  BY <1>2, <1>3
<1>5. \A u \in Task : task'[u].future = "done" <=> task[u].future = "done"
  BY <1>2
<1>6. LockTypeOK'
  BY <1>1, <1>2 DEF LockTypeOK
<1>7. KeyExclusion' /\ HeldIsLocked'
  BY <1>1, <1>4 DEF LockInv, KeyExclusion, HeldIsLocked
<1>8. TaskFits'
  <2> SUFFICES ASSUME NEW u \in Task
               PROVE  /\ task'[u].phase # "idle" => task'[u].key \in Key
                      /\ task'[u].phase = "waiting" <=> task'[u].future # "none"
                      /\ task'[u].future = "pending" => ~task'[u].expired
                      /\ task'[u].future = "cancelled" => task'[u].expired
    BY DEF TaskFits
  <2>1. CASE u = t
    BY <2>1, <1>2, <1>3 DEF LockInv, TaskFits
  <2>2. CASE u # t
    BY <2>2, <1>2 DEF LockInv, TaskFits
  <2>3. QED
    BY <2>1, <2>2
<1>9. WokenIsFirst'
  BY <1>1, <1>4, <1>5 DEF LockInv, WokenIsFirst
<1>10. InLine'
  <2>1. \A u \in Task, j \in Key : WaitsFor(u, j)' <=> WaitsFor(u, j)
    BY <1>4 DEF WaitsFor
  <2>2. QED
    BY <1>1, <2>1 DEF LockInv, InLine
<1>11. WakeupPending'
  <2>1. ASSUME NEW j \in Key, NEW i \in 1..Len(locks[j].waiters)
        PROVE  /\ task[locks[j].waiters[i]].future = "done" =>
                    task'[locks[j].waiters[i]].future = "done"
               /\ task[locks[j].waiters[i]].future = "cancelled" =>
                    task'[locks[j].waiters[i]].future = "cancelled"
    BY <1>2, WaiterWaits
  <2>2. \A j \in Key : Len(locks[j].waiters) > 0 => 1 \in 1..Len(locks[j].waiters)
    BY <1>1, LockFields, LenProperties
  <2>3. QED
    BY <1>1, <2>1, <2>2 DEF LockInv, WakeupPending
<1>12. LockedIffHeld => LockedIffHeld'
  <2>1. \A u \in Task, j \in Key :
          task'[u].phase = "holding" /\ task'[u].key = j
            <=> task[u].phase = "holding" /\ task[u].key = j
    BY <1>4
  <2>2. QED
    BY <2>1, <1>1 DEF LockedIffHeld
<1>13. QED
  BY <1>6, <1>7, <1>8, <1>9, <1>10, <1>11, <1>12 DEF LockInv

\* What leaving the queue of its key does to the queues, for a waiting task.
LEMMA LeavesItsLine ==
  ASSUME LockInv, NEW t \in Task, task[t].phase = "waiting"
  PROVE  LET k == task[t].key
             w == locks[k].waiters
             v == RemoveFirst(w, t)
         IN  /\ k \in Key /\ v \in Seq(Task) /\ Len(v) \in Nat
             /\ \A i, j \in 1..Len(v) : v[i] = v[j] => i = j
             /\ \A i \in 1..Len(v) : v[i] \in Task
             /\ \A u \in Task :
                  (\E i \in 1..Len(v) : v[i] = u) <=> u # t /\ WaitsFor(u, k)
             /\ \A u \in Task :
                  WaitsFor(u, k) /\ w[1] = u /\ u # t => Len(v) > 0 /\ v[1] = u
<1> DEFINE k == task[t].key
           w == locks[k].waiters
           v == RemoveFirst(w, t)
<1>1. k \in Key /\ WaitsFor(t, k)
  BY DEF LockInv, TaskFits, WaitsFor
<1>2. w \in Seq(Task)
  BY <1>1 DEF LockInv, LockTypeOK, Lock
<1>3. /\ \A i, j \in 1..Len(w) : w[i] = w[j] => i = j
      /\ \A u \in Task : WaitsFor(u, k) <=> \E i \in 1..Len(w) : w[i] = u
  BY <1>1 DEF LockInv, InLine
<1> HIDE DEF w, k
<1>4. /\ v \in Seq(Task)
      /\ \A i, j \in 1..Len(v) : v[i] = v[j] => i = j
      /\ \A u \in Task :
           (\E i \in 1..Len(v) : v[i] = u) <=> u # t /\ \E i \in 1..Len(w) : w[i] = u
      /\ w[1] # t => Len(v) > 0 /\ v[1] = w[1]
  BY <1>1, <1>2, <1>3, LeavingLine
<1> HIDE DEF v
<1>5. Len(v) \in Nat /\ \A i \in 1..Len(v) : v[i] \in Task
  BY <1>4, LenProperties, ElementOfSeq
<1>6. QED
  BY <1>1, <1>3, <1>4, <1>5 DEF k, w, v

\* The queues stay in line when a task leaves the one it is in, and nobody
\* else starts or stops waiting.
LEMMA LeavingKeepsInLine ==
  ASSUME LockInv, NEW t \in Task, task[t].phase = "waiting",
         locks'[task[t].key].waiters = RemoveFirst(locks[task[t].key].waiters, t),
         \A j \in Key : j # task[t].key => locks'[j].waiters = locks[j].waiters,
         task'[t].phase # "waiting",
         \A u \in Task : u # t => task'[u].phase = task[u].phase /\ task'[u].key = task[u].key
  PROVE  InLine'
<1> DEFINE k == task[t].key
           v == RemoveFirst(locks[k].waiters, t)
<1>1. /\ k \in Key
      /\ \A i, j \in 1..Len(v) : v[i] = v[j] => i = j
      /\ \A u \in Task : (\E i \in 1..Len(v) : v[i] = u) <=> u # t /\ WaitsFor(u, k)
  BY LeavesItsLine
<1>2. /\ \A u \in Task, j \in Key : u # t => (WaitsFor(u, j)' <=> WaitsFor(u, j))
      /\ \A j \in Key : ~WaitsFor(t, j)' /\ (WaitsFor(t, j) <=> j = k)
  BY DEF WaitsFor
<1>3. locks'[k].waiters = v /\ \A j \in Key : j # k => locks'[j].waiters = locks[j].waiters
  OBVIOUS
<1> HIDE DEF k, v
<1> SUFFICES ASSUME NEW j \in Key
             PROVE  /\ \A i, m \in 1..Len(locks'[j].waiters) :
                         locks'[j].waiters[i] = locks'[j].waiters[m] => i = m
                    /\ \A u \in Task :
                         WaitsFor(u, j)' <=> \E i \in 1..Len(locks'[j].waiters) :
                                                locks'[j].waiters[i] = u
  BY DEF InLine
<1>4. CASE j = k
  BY <1>1, <1>2, <1>3, <1>4
<1>5. CASE j # k
  <2>1. /\ \A i, m \in 1..Len(locks[j].waiters) :
             locks[j].waiters[i] = locks[j].waiters[m] => i = m
        /\ \A u \in Task :
             WaitsFor(u, j) <=> \E i \in 1..Len(locks[j].waiters) : locks[j].waiters[i] = u
    BY DEF LockInv, InLine
  <2>2. \A u \in Task : WaitsFor(u, j)' <=> WaitsFor(u, j)
    BY <1>2, <1>5
  <2>3. QED
    BY <2>1, <2>2, <1>3, <1>5
<1>6. QED
  BY <1>4, <1>5

LEMMA GrantedKeepsInv ==
  ASSUME LockInv, NEW t \in Task, Granted(t)
  PROVE  LockInv' /\ (LockedIffHeld => LockedIffHeld')
<1> DEFINE k == task[t].key
           v == RemoveFirst(locks[k].waiters, t)
<1>1. LockTypeOK /\ task \in [Task -> TaskRecord] /\ task[t].phase = "waiting"
  BY DEF LockInv, LockTypeOK, Granted
<1>2. k \in Key /\ v \in Seq(Task)
  BY <1>1, LeavesItsLine
<1>3. ~locks[k].locked /\ locks[k].waiters[1] = t
  BY DEF LockInv, WokenIsFirst, Granted
<1>4. LockBecomes(k, TRUE, v)
  BY <1>2 DEF Granted, LockBecomes
<1> HIDE DEF v
<1>5. /\ locks' \in [Key -> Lock] /\ locks'[k].locked /\ locks'[k].waiters = v
      /\ \A j \in Key : j # k => locks'[j] = locks[j]
  BY <1>1, <1>2, <1>4, LockChange
<1>6. /\ task' \in [Task -> TaskRecord]
      /\ \A u \in Task : task'[u] = IF u = t THEN Holding(k) ELSE task[u]
  BY <1>1, <1>2, TaskConstants DEF Granted
<1>7. LockTypeOK'
  BY <1>5, <1>6 DEF LockTypeOK
<1>8. TaskFits'
  BY <1>2, <1>6, TaskConstants DEF TaskFits, LockInv
<1>9. InLine'
  <2>1. task'[t].phase # "waiting"
    BY <1>2, <1>6, TaskConstants
  <2>2. \A u \in Task : u # t => task'[u].phase = task[u].phase /\ task'[u].key = task[u].key
    BY <1>6
  <2>3. locks'[k].waiters = RemoveFirst(locks[k].waiters, t)
    BY <1>5 DEF v
  <2>4. \A j \in Key : j # k => locks'[j].waiters = locks[j].waiters
    BY <1>5
  <2>5. QED
    BY <1>1, <2>1, <2>2, <2>3, <2>4, LeavingKeepsInLine
<1>10. WokenIsFirst'
  <2> SUFFICES ASSUME NEW u \in Task, task'[u].future = "done"
               PROVE  ~locks'[task'[u].key].locked /\ locks'[task'[u].key].waiters[1] = u
    BY DEF WokenIsFirst
  <2>1. u # t /\ task'[u] = task[u]
    BY <1>2, <1>6, TaskConstants
  <2>2. task[u].key \in Key /\ ~locks[task[u].key].locked /\ locks[task[u].key].waiters[1] = u
    BY <2>1 DEF LockInv, TaskFits, WokenIsFirst
  <2>3. task[u].key # k
    BY <2>1, <2>2, <1>3
  <2>4. QED
    BY <2>1, <2>2, <2>3, <1>5
<1>11. KeyExclusion'
  <2>1. \A u \in Task : task[u].phase = "holding" => task[u].key # k
    BY <1>3 DEF LockInv, HeldIsLocked
  <2>2. QED
    BY <2>1, <1>2, <1>6, TaskConstants DEF LockInv, KeyExclusion
<1>12. HeldIsLocked'
  <2> SUFFICES ASSUME NEW u \in Task, task'[u].phase = "holding"
               PROVE  locks'[task'[u].key].locked
    BY DEF HeldIsLocked
  <2>1. CASE u = t
    BY <2>1, <1>2, <1>5, <1>6, TaskConstants
  <2>2. CASE u # t
    <3>1. task'[u] = task[u] /\ task[u].key \in Key /\ locks[task[u].key].locked
      BY <2>2, <1>6 DEF LockInv, TaskFits, HeldIsLocked
    <3>2. QED
      BY <3>1, <1>5
  <2>3. QED
    BY <2>1, <2>2
<1>13. WakeupPending'
  <2> SUFFICES ASSUME NEW j \in Key, ~locks'[j].locked, Len(locks'[j].waiters) > 0
               PROVE  \/ task'[locks'[j].waiters[1]].future = "done"
                      \/ \E i \in 1..Len(locks'[j].waiters) :
                           task'[locks'[j].waiters[i]].future = "cancelled"
    BY DEF WakeupPending
  <2>1. j # k /\ locks'[j] = locks[j]
    BY <1>5
  <2>2. \A i \in 1..Len(locks[j].waiters) :
          task'[locks[j].waiters[i]] = task[locks[j].waiters[i]]
    BY <2>1, <1>6, WaiterWaits DEF WaitsFor
  <2>3. 1 \in 1..Len(locks[j].waiters)
    BY <2>1, LockFields, LenProperties, <1>1
  <2>4. QED
    BY <2>1, <2>2, <2>3 DEF LockInv, WakeupPending
<1>14. LockedIffHeld => LockedIffHeld'
  <2> SUFFICES ASSUME LockedIffHeld, NEW j \in Key
               PROVE  locks'[j].locked <=>
                        \E u \in Task : task'[u].phase = "holding" /\ task'[u].key = j
    BY DEF LockedIffHeld
  <2>1. CASE j = k
    BY <2>1, <1>2, <1>5, <1>6, TaskConstants
  <2>2. CASE j # k
    BY <2>2, <1>1, <1>2, <1>5, <1>6, TaskConstants DEF LockedIffHeld
  <2>3. QED
    BY <2>1, <2>2
<1>15. QED
  BY <1>7, <1>8, <1>9, <1>10, <1>11, <1>12, <1>13, <1>14 DEF LockInv

\* A task goes idle and wakes the first of a queue: what that does to tasks.
LEMMA IdleAndWake ==
  ASSUME task \in [Task -> TaskRecord], NEW t \in Task, NEW v \in Seq(Task),
         task' = WokenFirst([task EXCEPT ![t] = Idle], v)
  PROVE  /\ task' \in [Task -> TaskRecord]
         /\ task'[t].phase = "idle" /\ task'[t].future = "none" /\ ~task'[t].expired
         /\ \A u \in Task : u # t =>
              /\ SameButFuture(task'[u], task[u])
              /\ task'[u].future = IF v # <<>> /\ u = v[1] /\ task[u].future = "pending"
                                     THEN "done" ELSE task[u].future
<1> DEFINE gone == [task EXCEPT ![t] = Idle]
<1>1. /\ gone \in [Task -> TaskRecord]
      /\ gone[t].phase = "idle" /\ gone[t].future = "none" /\ ~gone[t].expired
      /\ \A u \in Task : u # t => gone[u] = task[u]
  BY TaskConstants
<1>2. task' = WokenFirst(gone, v)
  OBVIOUS
<1> HIDE DEF gone
<1>3. /\ WokenFirst(gone, v) \in [Task -> TaskRecord]
      /\ \A u \in Task :
           /\ SameButFuture(WokenFirst(gone, v)[u], gone[u])
           /\ WokenFirst(gone, v)[u].future =
                IF v # <<>> /\ u = v[1] /\ gone[u].future = "pending"
                  THEN "done" ELSE gone[u].future
  BY <1>1, WokenFirstMeaning
<1>4. task'[t].phase = "idle" /\ task'[t].future = "none" /\ ~task'[t].expired
  BY <1>1, <1>2, <1>3 DEF SameButFuture
<1>5. QED
  BY <1>1, <1>2, <1>3, <1>4

\* One task goes idle; of the others only waiting tasks change, and these only
\* from "pending" to "done".
GoesIdle(t) ==
  /\ task' \in [Task -> TaskRecord]
  /\ task'[t].phase = "idle" /\ task'[t].future = "none" /\ ~task'[t].expired
  /\ \A u \in Task : u # t =>
       /\ SameButFuture(task'[u], task[u])
       /\ task'[u].future # task[u].future =>
            task[u].future = "pending" /\ task'[u].future = "done"

LEMMA GoesIdleKeepsFit ==
  ASSUME LockInv, NEW t \in Task, GoesIdle(t)
  PROVE  TaskFits' /\ KeyExclusion'
<1>1. TaskFits'
  <2> SUFFICES ASSUME NEW u \in Task
               PROVE  /\ task'[u].phase # "idle" => task'[u].key \in Key
                      /\ task'[u].phase = "waiting" <=> task'[u].future # "none"
                      /\ task'[u].future = "pending" => ~task'[u].expired
                      /\ task'[u].future = "cancelled" => task'[u].expired
    BY DEF TaskFits
  <2>1. CASE u = t
    BY <2>1 DEF GoesIdle
  <2>2. CASE u # t
    BY <2>2 DEF GoesIdle, SameButFuture, LockInv, TaskFits
  <2>3. QED
    BY <2>1, <2>2
<1>2. KeyExclusion'
  BY DEF GoesIdle, SameButFuture, LockInv, KeyExclusion
<1>3. QED
  BY <1>1, <1>2

LEMMA TimedOutKeepsInv ==
  ASSUME LockInv, NEW t \in Task, TimedOut(t)
  PROVE  LockInv' /\ (LockedIffHeld => LockedIffHeld')
<1> DEFINE k == task[t].key
           w == locks[k].waiters
           v == RemoveFirst(w, t)
           gone == [task EXCEPT ![t] = Idle]
<1>1. LockTypeOK /\ task \in [Task -> TaskRecord] /\ task[t].phase = "waiting"
  BY DEF LockInv, LockTypeOK, TimedOut
<1>2. /\ k \in Key /\ v \in Seq(Task) /\ Len(v) \in Nat
      /\ \A i \in 1..Len(v) : v[i] \in Task
      /\ \A u \in Task : (\E i \in 1..Len(v) : v[i] = u) <=> u # t /\ WaitsFor(u, k)
      /\ \A u \in Task : WaitsFor(u, k) /\ w[1] = u /\ u # t => Len(v) > 0 /\ v[1] = u
  BY <1>1, LeavesItsLine
<1>3. LockBecomes(k, locks[k].locked, v)
  BY <1>1, <1>2, WaitersUpdate DEF TimedOut, LockBecomes
<1>4. task' = IF locks[k].locked THEN gone ELSE WokenFirst(gone, v)
  BY DEF TimedOut
<1> HIDE DEF v
<1>5. /\ locks' \in [Key -> Lock] /\ locks'[k].waiters = v
      /\ \A j \in Key : /\ locks'[j].locked = locks[j].locked
                        /\ j # k => locks'[j].waiters = locks[j].waiters
  <2>1. k \in Key /\ v \in Seq(Task) /\ locks[k].locked \in BOOLEAN
    BY <1>1, <1>2, LockFields
  <2> HIDE DEF k
  <2>2. QED
    BY <1>1, <1>3, <2>1, LockChange
<1>6. /\ GoesIdle(t)
      /\ \A u \in Task : u # t =>
           (task'[u].future # task[u].future <=>
              ~locks[k].locked /\ Len(v) > 0 /\ u = v[1] /\ task[u].future = "pending")
  <2>1. CASE locks[k].locked
    BY <2>1, <1>1, <1>4, TaskConstants DEF GoesIdle, SameButFuture
  <2>2. CASE ~locks[k].locked
    <3>1. task' = WokenFirst(gone, v)
      BY <2>2, <1>4
    <3>2. /\ task' \in [Task -> TaskRecord]
          /\ task'[t].phase = "idle" /\ task'[t].future = "none" /\ ~task'[t].expired
          /\ \A u \in Task : u # t =>
               /\ SameButFuture(task'[u], task[u])
               /\ task'[u].future = IF v # <<>> /\ u = v[1] /\ task[u].future = "pending"
                                      THEN "done" ELSE task[u].future
      BY <3>1, <1>1, <1>2, IdleAndWake
    <3>3. v # <<>> <=> Len(v) > 0
      BY <1>2, EmptySeq
    <3>4. QED
      BY <2>2, <3>2, <3>3 DEF GoesIdle
  <2>3. QED
    BY <2>1, <2>2
<1>7. LockTypeOK'
  BY <1>5, <1>6 DEF LockTypeOK, GoesIdle
<1>8. TaskFits' /\ KeyExclusion'
  BY <1>6, GoesIdleKeepsFit
<1>9. InLine'
  <2>1. task'[t].phase # "waiting"
    BY <1>6 DEF GoesIdle
  <2>2. \A u \in Task : u # t => task'[u].phase = task[u].phase /\ task'[u].key = task[u].key
    BY <1>6 DEF GoesIdle, SameButFuture
  <2>3. locks'[k].waiters = RemoveFirst(locks[k].waiters, t)
    BY <1>5 DEF v
  <2>4. \A j \in Key : j # k => locks'[j].waiters = locks[j].waiters
    BY <1>5
  <2>5. QED
    BY <1>1, <2>1, <2>2, <2>3, <2>4, LeavingKeepsInLine
<1>10. WokenIsFirst'
  <2> SUFFICES ASSUME NEW u \in Task, task'[u].future = "done"
               PROVE  ~locks'[task'[u].key].locked /\ locks'[task'[u].key].waiters[1] = u
    BY DEF WokenIsFirst
  <2>1. u # t /\ task'[u].key = task[u].key
    BY <1>6 DEF GoesIdle, SameButFuture
  <2>2. CASE task[u].future = "done"
    <3>1. /\ task[u].key \in Key /\ WaitsFor(u, task[u].key)
          /\ ~locks[task[u].key].locked /\ locks[task[u].key].waiters[1] = u
      BY <2>2 DEF LockInv, TaskFits, WokenIsFirst, WaitsFor
    <3>2. task[u].key = k => v[1] = u
      BY <3>1, <2>1, <1>2
    <3>3. QED
      BY <3>1, <3>2, <2>1, <1>5
  <2>3. CASE task[u].future # "done"
    <3>1. ~locks[k].locked /\ Len(v) > 0 /\ u = v[1]
      BY <2>1, <2>3, <1>6
    <3>2. 1 \in 1..Len(v)
      BY <3>1, <1>2
    <3>3. task[u].key = k
      BY <3>1, <3>2, <1>2 DEF WaitsFor
    <3>4. QED
      BY <3>1, <3>3, <2>1, <1>2, <1>5
  <2>4. QED
    BY <2>2, <2>3
<1>11. HeldIsLocked'
  <2> SUFFICES ASSUME NEW u \in Task, task'[u].phase = "holding"
               PROVE  locks'[task'[u].key].locked
    BY DEF HeldIsLocked
  <2>1. /\ task'[u].key = task[u].key /\ task[u].key \in Key
        /\ locks[task[u].key].locked
    BY <1>6 DEF GoesIdle, SameButFuture, LockInv, TaskFits, HeldIsLocked
  <2>2. QED
    BY <2>1, <1>5
<1>12. WakeupPending'
  <2> SUFFICES ASSUME NEW j \in Key, ~locks'[j].locked, Len(locks'[j].waiters) > 0
               PROVE  \/ task'[locks'[j].waiters[1]].future = "done"
                      \/ \E i \in 1..Len(locks'[j].waiters) :
                           task'[locks'[j].waiters[i]].future = "cancelled"
    BY DEF WakeupPending
  <2>1. CASE j = k
    <3>1. ~locks[k].locked /\ Len(v) > 0 /\ 1 \in 1..Len(v)
      BY <2>1, <1>2, <1>5
    <3>2. v[1] \in Task /\ v[1] # t /\ WaitsFor(v[1], k)
      BY <3>1, <1>2
    <3>3. task[v[1]].future \in {"pending", "done", "cancelled"}
      BY <3>2, <1>1 DEF LockInv, TaskFits, WaitsFor, TaskRecord
    <3>4. task'[v[1]].future \in {"done", "cancelled"}
      BY <3>1, <3>2, <3>3, <1>6 DEF GoesIdle
    <3>5. QED
      BY <2>1, <3>1, <3>4, <1>5
  <2>2. CASE j # k
    <3>1. ~locks[j].locked /\ locks'[j].waiters = locks[j].waiters
      BY <2>2, <1>5
    <3>2. ASSUME NEW i \in 1..Len(locks[j].waiters)
          PROVE  task'[locks[j].waiters[i]].future = task[locks[j].waiters[i]].future
      <4>1. locks[j].waiters[i] \in Task /\ WaitsFor(locks[j].waiters[i], j)
        BY WaiterWaits
      <4>2. locks[j].waiters[i] # t /\ (Len(v) > 0 => locks[j].waiters[i] # v[1])
        <5>1. Len(v) > 0 => 1 \in 1..Len(v)
          BY <1>2
        <5>2. QED
          BY <5>1, <4>1, <2>2, <1>2 DEF WaitsFor
      <4>3. QED
        BY <4>1, <4>2, <1>6
    <3>3. 1 \in 1..Len(locks[j].waiters)
      BY <3>1, LockFields, LenProperties, <1>1
    <3>4. QED
      BY <3>1, <3>2, <3>3 DEF LockInv, WakeupPending
  <2>3. QED
    BY <2>1, <2>2
<1>13. LockedIffHeld => LockedIffHeld'
  <2>1. \A u \in Task, j \in Key :
          task'[u].phase = "holding" /\ task'[u].key = j
            <=> task[u].phase = "holding" /\ task[u].key = j
    BY <1>1, <1>6 DEF GoesIdle, SameButFuture
  <2>2. QED
    BY <2>1, <1>5 DEF LockedIffHeld
<1>14. QED
  BY <1>7, <1>8, <1>9, <1>10, <1>11, <1>12, <1>13 DEF LockInv

LEMMA ReleaseKeepsInv ==
  ASSUME LockInv, NEW t \in Task, ReleaseLock(t)
  PROVE  LockInv' /\ (LockedIffHeld => LockedIffHeld')
<1> DEFINE k == task[t].key
           w == locks[k].waiters
<1>1. LockTypeOK /\ task \in [Task -> TaskRecord] /\ task[t].phase = "holding"
  BY DEF LockInv, LockTypeOK, ReleaseLock
<1>2. k \in Key /\ locks[k].locked
  BY <1>1 DEF LockInv, TaskFits, HeldIsLocked
<1>3. w \in Seq(Task) /\ Len(w) \in Nat
  BY <1>1, <1>2, LockFields, LenProperties
<1>4. LockBecomes(k, FALSE, w)
  BY <1>1, <1>2, LockedUpdate DEF ReleaseLock, LockBecomes
<1>5. /\ locks' \in [Key -> Lock] /\ ~locks'[k].locked
      /\ \A j \in Key : /\ locks'[j].waiters = locks[j].waiters
                        /\ j # k => locks'[j].locked = locks[j].locked
  BY <1>1, <1>2, <1>3, <1>4, LockChange
<1>6. /\ GoesIdle(t)
      /\ \A u \in Task : u # t =>
           (task'[u].future # task[u].future <=>
              Len(w) > 0 /\ u = w[1] /\ task[u].future = "pending")
  <2>1. task' = WokenFirst([task EXCEPT ![t] = Idle], w)
    BY <1>2 DEF ReleaseLock
  <2>2. /\ task' \in [Task -> TaskRecord]
        /\ task'[t].phase = "idle" /\ task'[t].future = "none" /\ ~task'[t].expired
        /\ \A u \in Task : u # t =>
             /\ SameButFuture(task'[u], task[u])
             /\ task'[u].future = IF w # <<>> /\ u = w[1] /\ task[u].future = "pending"
                                    THEN "done" ELSE task[u].future
    BY <2>1, <1>1, <1>3, IdleAndWake
  <2>3. w # <<>> <=> Len(w) > 0
    BY <1>3, EmptySeq
  <2>4. QED
    BY <2>2, <2>3 DEF GoesIdle
<1>7. LockTypeOK'
  BY <1>5, <1>6 DEF LockTypeOK, GoesIdle
<1>8. TaskFits' /\ KeyExclusion'
  BY <1>6, GoesIdleKeepsFit
<1>9. InLine'
  <2>1. \A u \in Task, j \in Key : WaitsFor(u, j)' <=> WaitsFor(u, j)
    BY <1>1, <1>6 DEF GoesIdle, SameButFuture, WaitsFor
  <2>2. QED
    BY <2>1, <1>5 DEF LockInv, InLine
<1>10. WokenIsFirst'
  <2> SUFFICES ASSUME NEW u \in Task, task'[u].future = "done"
               PROVE  ~locks'[task'[u].key].locked /\ locks'[task'[u].key].waiters[1] = u
    BY DEF WokenIsFirst
  <2>1. u # t /\ task'[u].key = task[u].key
    BY <1>6 DEF GoesIdle, SameButFuture
  <2>2. CASE task[u].future = "done"
    <3>1. /\ task[u].key \in Key
          /\ ~locks[task[u].key].locked /\ locks[task[u].key].waiters[1] = u
      BY <2>2 DEF LockInv, TaskFits, WokenIsFirst
    <3>2. QED
      BY <3>1, <2>1, <1>2, <1>5
  <2>3. CASE task[u].future # "done"
    <3>1. Len(w) > 0 /\ u = w[1] /\ 1 \in 1..Len(w)
      BY <2>1, <2>3, <1>3, <1>6
    <3>2. task[u].key = k
      BY <3>1, <1>2, WaiterWaits DEF WaitsFor
    <3>3. QED
      BY <3>1, <3>2, <2>1, <1>2, <1>5
  <2>4. QED
    BY <2>2, <2>3
<1>11. HeldIsLocked'
  <2> SUFFICES ASSUME NEW u \in Task, task'[u].phase = "holding"
               PROVE  locks'[task'[u].key].locked
    BY DEF HeldIsLocked
  <2>1. /\ u # t /\ task[u].phase = "holding" /\ task'[u].key = task[u].key
        /\ task[u].key \in Key /\ locks[task[u].key].locked
    BY <1>6 DEF GoesIdle, SameButFuture, LockInv, TaskFits, HeldIsLocked
  <2>2. task[u].key # k
    BY <2>1, <1>1 DEF LockInv, KeyExclusion
  <2>3. QED
    BY <2>1, <2>2, <1>5
<1>12. WakeupPending'
  <2> SUFFICES ASSUME NEW j \in Key, ~locks'[j].locked, Len(locks'[j].waiters) > 0
               PROVE  \/ task'[locks'[j].waiters[1]].future = "done"
                      \/ \E i \in 1..Len(locks'[j].waiters) :
                           task'[locks'[j].waiters[i]].future = "cancelled"
    BY DEF WakeupPending
  <2>1. CASE j = k
    <3>1. Len(w) > 0 /\ 1 \in 1..Len(w) /\ locks'[j].waiters = w
      BY <2>1, <1>2, <1>3, <1>5
    <3>2. w[1] \in Task /\ WaitsFor(w[1], k) /\ w[1] # t
      BY <3>1, <1>1, <1>2, WaiterWaits DEF WaitsFor
    <3>3. task[w[1]].future \in {"pending", "done", "cancelled"}
      BY <3>2, <1>1 DEF LockInv, TaskFits, WaitsFor, TaskRecord
    <3>4. task'[w[1]].future \in {"done", "cancelled"}
      BY <3>1, <3>2, <3>3, <1>6 DEF GoesIdle
    <3>5. QED
      BY <3>1, <3>4
  <2>2. CASE j # k
    <3>1. ~locks[j].locked /\ locks'[j].waiters = locks[j].waiters
      BY <2>2, <1>5
    <3>2. ASSUME NEW i \in 1..Len(locks[j].waiters)
          PROVE  task'[locks[j].waiters[i]].future = task[locks[j].waiters[i]].future
      <4>1. locks[j].waiters[i] \in Task /\ WaitsFor(locks[j].waiters[i], j)
        BY WaiterWaits
      <4>2. locks[j].waiters[i] # t
        BY <4>1, <1>1 DEF WaitsFor
      <4>3. Len(w) > 0 => w[1] # locks[j].waiters[i]
        <5>1. Len(w) > 0 => 1 \in 1..Len(w)
          BY <1>3
        <5>2. Len(w) > 0 => WaitsFor(w[1], k)
          BY <5>1, <1>2, WaiterWaits
        <5>3. QED
          BY <5>2, <4>1, <2>2 DEF WaitsFor
      <4>4. QED
        BY <4>1, <4>2, <4>3, <1>6
    <3>3. 1 \in 1..Len(locks[j].waiters)
      BY <3>1, LockFields, LenProperties, <1>1
    <3>4. QED
      BY <3>1, <3>2, <3>3 DEF LockInv, WakeupPending
  <2>3. QED
    BY <2>1, <2>2
<1>13. LockedIffHeld => LockedIffHeld'
  <2> SUFFICES ASSUME LockedIffHeld, NEW j \in Key
               PROVE  locks'[j].locked <=>
                        \E u \in Task : task'[u].phase = "holding" /\ task'[u].key = j
    BY DEF LockedIffHeld
  <2>1. CASE j = k
    BY <2>1, <1>5, <1>11 DEF HeldIsLocked
  <2>2. CASE j # k
    <3>1. \A u \in Task : task'[u].phase = "holding" /\ task'[u].key = j
                            <=> task[u].phase = "holding" /\ task[u].key = j
      BY <2>2, <1>6 DEF GoesIdle, SameButFuture
    <3>2. QED
      BY <2>2, <3>1, <1>5 DEF LockedIffHeld
  <2>3. QED
    BY <2>1, <2>2
<1>14. QED
  BY <1>7, <1>8, <1>9, <1>10, <1>11, <1>12, <1>13 DEF LockInv

\* A task that goes on without releasing its key disturbs no other, but the key
\* stays locked: LockedIffHeld is lost, the rest is kept.
LEMMA LeakKeepsInv ==
  ASSUME LockInv, NEW t \in Task, Leak(t)
  PROVE  LockInv'
<1>1. /\ task' \in [Task -> TaskRecord]
      /\ task'[t].phase = "idle" /\ task'[t].future = "none" /\ ~task'[t].expired
      /\ \A u \in Task : u # t => task'[u] = task[u]
  BY TaskConstants DEF LockInv, LockTypeOK, Leak
<1>2. GoesIdle(t)
  BY <1>1 DEF GoesIdle, SameButFuture
<1>3. LockTypeOK' /\ locks' = locks
  BY <1>1 DEF LockInv, LockTypeOK, Leak
<1>4. TaskFits' /\ KeyExclusion'
  BY <1>2, GoesIdleKeepsFit
<1>5. InLine'
  <2>1. \A u \in Task, k \in Key : WaitsFor(u, k)' <=> WaitsFor(u, k)
    BY <1>1 DEF WaitsFor, Leak
  <2>2. QED
    BY <1>3, <2>1 DEF LockInv, InLine
<1>6. WokenIsFirst' /\ HeldIsLocked'
  BY <1>1, <1>3 DEF LockInv, WokenIsFirst, HeldIsLocked
<1>7. WakeupPending'
  <2> SUFFICES ASSUME NEW k \in Key, ~locks[k].locked, Len(locks[k].waiters) > 0
               PROVE  \/ task'[locks[k].waiters[1]].future = "done"
                      \/ \E i \in 1..Len(locks[k].waiters) :
                           task'[locks[k].waiters[i]].future = "cancelled"
    BY <1>3 DEF WakeupPending
  <2>1. \A i \in 1..Len(locks[k].waiters) :
          task'[locks[k].waiters[i]] = task[locks[k].waiters[i]]
    BY <1>1, WaiterWaits DEF WaitsFor, Leak
  <2>2. 1 \in 1..Len(locks[k].waiters)
    BY LenProperties DEF LockInv, LockTypeOK, Lock
  <2>3. QED
    BY <2>1, <2>2 DEF LockInv, WakeupPending
<1>8. QED
  BY <1>3, <1>4, <1>5, <1>6, <1>7 DEF LockInv

-----------------------------------------------------------------------------
(* Theorems. *)

LEMMA StepKeepsInv ==
  LockInv /\ LockedIffHeld /\ [LockNext]_lockVars => LockInv' /\ LockedIffHeld'
<1> SUFFICES ASSUME LockInv, LockedIffHeld, [LockNext]_lockVars
             PROVE  LockInv' /\ LockedIffHeld'
  OBVIOUS
<1>1. CASE UNCHANGED lockVars
  BY <1>1 DEF lockVars, LockInv, LockTypeOK, TaskFits, InLine, WaitsFor, WokenIsFirst,
              KeyExclusion, HeldIsLocked, WakeupPending, LockedIffHeld
<1>2. ASSUME NEW t \in Task, NEW k \in Key, Acquire(t, k)
      PROVE  LockInv' /\ LockedIffHeld'
  BY <1>2, AcquireAtOnceKeepsInv, AcquireWaitsKeepsInv DEF Acquire
<1>3. ASSUME NEW t \in Task, Resume(t)
      PROVE  LockInv' /\ LockedIffHeld'
  BY <1>3, GrantedKeepsInv, TimedOutKeepsInv DEF Resume
<1>4. ASSUME NEW t \in Task, TimerFires(t)
      PROVE  LockInv' /\ LockedIffHeld'
  BY <1>4, TimerFiresKeepsInv
<1>5. ASSUME NEW t \in Task, ReleaseLock(t)
      PROVE  LockInv' /\ LockedIffHeld'
  BY <1>5, ReleaseKeepsInv
<1>6. QED
  BY <1>1, <1>2, <1>3, <1>4, <1>5 DEF LockNext

\* The lock manager's invariant, with the type invariant as its first part.
THEOREM LockInvariant == LockSpec => [](LockInv /\ LockedIffHeld)
<1>1. LockInit => LockInv /\ LockedIffHeld
  BY InvInitially
<1>2. LockInv /\ LockedIffHeld /\ [LockNext]_lockVars => (LockInv /\ LockedIffHeld)'
  BY StepKeepsInv
<1>3. QED
  BY <1>1, <1>2, PTL DEF LockSpec

\* Two tasks never hold the same key (LockManager.acquire and release), for any
\* number of tasks and keys and whatever timers fire.
THEOREM KeyExclusionCorrect == LockSpec => []KeyExclusion
<1>1. LockInv => KeyExclusion
  BY DEF LockInv
<1>2. QED
  BY <1>1, LockInvariant, PTL

\* A key is locked exactly while a task holds it: no timeout or wake-up leaves
\* a lock taken that nobody has, or free while somebody has it.
THEOREM LockedIffHeldCorrect == LockSpec => []LockedIffHeld
BY LockInvariant, PTL

\* A free lock with tasks waiting for it always has a wake-up on its way.
THEOREM NoLostWakeupCorrect == LockSpec => []NoLostWakeup
BY LockInvariant, InvGivesNoLostWakeup, PTL

-----------------------------------------------------------------------------
(* The order of grants. *)

\* The task t, which has key k from this step on, leaves nobody behind in the
\* queue of k who came before t and has not expired.
PassesNobody(k, t) ==
  \A i \in 1..Len(locks'[k].waiters) :
    LET u == locks'[k].waiters[i] IN
    \/ task[u].expired
    \/ \E j \in 1..Len(locks[k].waiters) :
         /\ locks[k].waiters[j] = t
         /\ \E m \in j..Len(locks[k].waiters) : locks[k].waiters[m] = u

Gets(k, t) ==
  task'[t].phase = "holding" /\ task'[t].key = k /\ task[t].phase # "holding"

NobodyGets == \A k \in Key, t \in Task : ~Gets(k, t)

\* A newcomer takes a free lock only past tasks that have expired.
LEMMA AcquireAtOncePassesNobody ==
  ASSUME LockInv, NEW t \in Task, NEW k \in Key, AcquireAtOnce(t, k)
  PROVE  \A j \in Key, u \in Task : Gets(j, u) => PassesNobody(j, u)
<1>1. LockTypeOK /\ task \in [Task -> TaskRecord] /\ CanTakeAtOnce(locks[k])
  BY DEF LockInv, LockTypeOK, AcquireAtOnce
<1>2. \A u \in Task : task'[u] = IF u = t THEN Holding(k) ELSE task[u]
  BY <1>1 DEF AcquireAtOnce
<1>3. \A j \in Key, u \in Task : Gets(j, u) => j = k
  BY <1>2, TaskConstants DEF Gets
<1>4. locks'[k].waiters = locks[k].waiters
  <2>1. LockBecomes(k, TRUE, locks[k].waiters) /\ locks[k].waiters \in Seq(Task)
    BY <1>1, LockedUpdate, LockFields DEF AcquireAtOnce, LockBecomes
  <2>2. QED
    BY <1>1, <2>1, LockChange
<1>5. \A i \in 1..Len(locks[k].waiters) :
        /\ locks[k].waiters[i] \in Task
        /\ task[locks[k].waiters[i]].future = "cancelled"
  BY <1>1, WaiterWaits DEF CanTakeAtOnce
<1>6. \A i \in 1..Len(locks[k].waiters) : task[locks[k].waiters[i]].expired
  BY <1>5 DEF LockInv, TaskFits
<1>7. \A u \in Task : PassesNobody(k, u)
  BY <1>4, <1>6 DEF PassesNobody
<1>8. QED
  BY <1>3, <1>7

\* A woken task is the first in its queue.
LEMMA GrantedPassesNobody ==
  ASSUME LockInv, NEW t \in Task, Granted(t)
  PROVE  \A j \in Key, u \in Task : Gets(j, u) => PassesNobody(j, u)
<1> DEFINE k == task[t].key
           w == locks[k].waiters
           v == RemoveFirst(w, t)
<1>1. LockTypeOK /\ task \in [Task -> TaskRecord] /\ task[t].phase = "waiting"
  BY DEF LockInv, LockTypeOK, Granted
<1>2. /\ k \in Key /\ v \in Seq(Task) /\ Len(v) \in Nat
      /\ \A i \in 1..Len(v) : v[i] \in Task
      /\ \A u \in Task : (\E i \in 1..Len(v) : v[i] = u) <=> u # t /\ WaitsFor(u, k)
  BY <1>1, LeavesItsLine
<1>3. locks'[k].waiters = v
  <2>1. LockBecomes(k, TRUE, v)
    BY <1>2 DEF Granted, LockBecomes
  <2>2. QED
    BY <1>1, <1>2, <2>1, LockChange
<1>4. w[1] = t /\ w \in Seq(Task) /\ Len(w) \in Nat
  BY <1>1, <1>2, LockFields, LenProperties DEF LockInv, WokenIsFirst, Granted
<1>5. \A u \in Task : task'[u] = IF u = t THEN Holding(k) ELSE task[u]
  BY <1>1 DEF Granted
<1>6. \A j \in Key, u \in Task : Gets(j, u) => j = k /\ u = t
  BY <1>2, <1>5, TaskConstants DEF Gets
<1>7. \A u \in Task : WaitsFor(u, k) => \E m \in 1..Len(w) : w[m] = u
  BY <1>2 DEF LockInv, InLine
<1>8. WaitsFor(t, k)
  BY <1>1 DEF WaitsFor
<1>9. 1 \in 1..Len(w)
  BY <1>4, <1>7, <1>8
<1> HIDE DEF k, v
<1>10. ASSUME NEW i \in 1..Len(v)
       PROVE  \E m \in 1..Len(w) : w[m] = v[i]
  BY <1>2, <1>7
<1>11. PassesNobody(k, t)
  BY <1>3, <1>4, <1>9, <1>10 DEF PassesNobody
<1>12. QED
  BY <1>6, <1>11

LEMMA OthersGetNothing ==
  ASSUME LockInv, NEW t \in Task,
         \/ \E k \in Key : AcquireWaits(t, k)
         \/ TimerFires(t) \/ TimedOut(t) \/ ReleaseLock(t)
  PROVE  NobodyGets
<1> DEFINE k == task[t].key
           gone == [task EXCEPT ![t] = Idle]
<1>1. LockTypeOK /\ task \in [Task -> TaskRecord]
  BY DEF LockInv, LockTypeOK
<1>2. SUFFICES \A u \in Task : task'[u].phase = "holding" => task[u].phase = "holding"
  BY DEF NobodyGets, Gets
<1>3. CASE \E j \in Key : AcquireWaits(t, j)
  <2>1. PICK j \in Key : task' = [task EXCEPT ![t] = WaitingFor(j)]
    BY <1>3 DEF AcquireWaits
  <2>2. QED
    BY <1>1, <2>1, TaskConstants
<1>4. CASE TimerFires(t)
  BY <1>1, <1>4, TimerFiresMeaning
<1>5. \A u \in Task : gone[u].phase = "holding" => task[u].phase = "holding"
  BY <1>1, TaskConstants
<1>6. ASSUME NEW v \in Seq(Task), task' = WokenFirst(gone, v)
      PROVE  \A u \in Task : task'[u].phase = "holding" => task[u].phase = "holding"
  BY <1>1, <1>6, IdleAndWake DEF SameButFuture
<1>7. CASE TimedOut(t)
  <2>1. RemoveFirst(locks[k].waiters, t) \in Seq(Task)
    BY <1>7, LeavesItsLine DEF TimedOut
  <2>2. \/ task' = gone
        \/ task' = WokenFirst(gone, RemoveFirst(locks[k].waiters, t))
    BY <1>7 DEF TimedOut
  <2>3. QED
    BY <2>1, <2>2, <1>5, <1>6
<1>8. CASE ReleaseLock(t)
  <2>1. k \in Key
    BY <1>8 DEF ReleaseLock, LockInv, TaskFits
  <2>2. locks[k].waiters \in Seq(Task)
    BY <1>1, <2>1, LockFields
  <2>3. task' = gone \/ task' = WokenFirst(gone, locks[k].waiters)
    BY <1>8 DEF ReleaseLock
  <2>4. QED
    BY <2>2, <2>3, <1>5, <1>6
<1>9. QED
  BY <1>3, <1>4, <1>7, <1>8

\* Locks are granted in the order in which they are asked for: neither a woken
\* task nor a newcomer gets a lock before a task that came earlier and whose
\* timer has not fired.
THEOREM GrantedInOrderCorrect == LockSpec => GrantedInOrder
<1>1. LockInv /\ [LockNext]_lockVars =>
        [\A k \in Key, t \in Task : Gets(k, t) => PassesNobody(k, t)]_lockVars
  <2> SUFFICES ASSUME LockInv, LockNext
               PROVE  \A k \in Key, t \in Task : Gets(k, t) => PassesNobody(k, t)
    OBVIOUS
  <2>1. PICK t \in Task : \/ \E k \in Key : Acquire(t, k)
                          \/ TimerFires(t) \/ Resume(t) \/ ReleaseLock(t)
    BY DEF LockNext
  <2>2. CASE \E k \in Key : AcquireAtOnce(t, k)
    BY <2>2, AcquireAtOncePassesNobody
  <2>3. CASE Granted(t)
    BY <2>3, GrantedPassesNobody
  <2>4. CASE \/ \E k \in Key : AcquireWaits(t, k)
             \/ TimerFires(t) \/ TimedOut(t) \/ ReleaseLock(t)
    BY <2>4, OthersGetNothing DEF NobodyGets
  <2>5. QED
    BY <2>1, <2>2, <2>3, <2>4 DEF Acquire, Resume
<1>2. LockInv /\ [LockNext]_lockVars =>
        [\A k \in Key, t \in Task :
           task'[t].phase = "holding" /\ task'[t].key = k /\ task[t].phase # "holding" =>
             \A i \in 1..Len(locks'[k].waiters) :
               LET u == locks'[k].waiters[i] IN
               \/ task[u].expired
               \/ \E j \in 1..Len(locks[k].waiters) :
                    /\ locks[k].waiters[j] = t
                    /\ \E m \in j..Len(locks[k].waiters) : locks[k].waiters[m] = u]_lockVars
  BY <1>1 DEF Gets, PassesNobody
<1>3. QED
  BY <1>2, LockInvariant, PTL DEF LockSpec, GrantedInOrder

-----------------------------------------------------------------------------
(* What the steps of one task do to the tasks and the locks.               *)

\* The other tasks are at most woken, and an idle one not even that.
OthersStay(t) ==
  \A u \in Task : u # t => /\ SameButFuture(task'[u], task[u])
                           /\ task[u].phase = "idle" => task'[u] = task[u]

\* The record of t changes, and no other.
OnlyTask(t, r) == task' = [task EXCEPT ![t] = r]

LEMMA OnlyTaskMeaning ==
  ASSUME LockInv, NEW t \in Task, NEW r, OnlyTask(t, r)
  PROVE  task'[t] = r /\ OthersStay(t)
BY DEF LockInv, LockTypeOK, OnlyTask, OthersStay, SameButFuture

\* t goes idle, and the first of a queue may be woken.
LEMMA BecomesIdle ==
  ASSUME LockInv, NEW t \in Task, NEW v \in Seq(Task),
         task' = WokenFirst([task EXCEPT ![t] = Idle], v)
  PROVE  task'[t] = Idle /\ OthersStay(t)
<1> DEFINE gone == [task EXCEPT ![t] = Idle]
<1>1. /\ gone \in [Task -> TaskRecord] /\ gone[t] = Idle
      /\ \A u \in Task : u # t => gone[u] = task[u]
  BY TaskConstants DEF LockInv, LockTypeOK
<1>2. task' = WokenFirst(gone, v)
  OBVIOUS
<1> HIDE DEF gone
<1>3. /\ WokenFirst(gone, v) \in [Task -> TaskRecord]
      /\ \A u \in Task :
           /\ SameButFuture(WokenFirst(gone, v)[u], gone[u])
           /\ WokenFirst(gone, v)[u].future =
                IF v # <<>> /\ u = v[1] /\ gone[u].future = "pending"
                  THEN "done" ELSE gone[u].future
  BY <1>1, WokenFirstMeaning
<1>4. ASSUME NEW u \in Task, gone[u].future = "none"
      PROVE  task'[u] = gone[u]
  <2> DEFINE x == task'[u]  y == gone[u]
  <2>1. x \in TaskRecord /\ y \in TaskRecord
    BY <1>1, <1>2, <1>3
  <2>2. x.phase = y.phase /\ x.key = y.key /\ x.expired = y.expired /\ x.future = y.future
    BY <1>2, <1>3, <1>4 DEF SameButFuture
  <2> HIDE DEF x, y
  <2>3. x = y
    BY <2>1, <2>2 DEF TaskRecord
  <2>4. QED
    BY <2>3 DEF x, y
<1>5. Idle.future = "none" /\ \A u \in Task : task[u].phase = "idle" => task[u].future = "none"
  BY TaskConstants DEF LockInv, TaskFits
<1>6. QED
  BY <1>1, <1>2, <1>3, <1>4, <1>5 DEF OthersStay

\* Each action of the lock manager, in these terms.
LEMMA AcquireAtOnceEffect ==
  ASSUME LockInv, NEW t \in Task, NEW k \in Key, AcquireAtOnce(t, k)
  PROVE  /\ task[t].phase = "idle" /\ task'[t] = Holding(k) /\ OthersStay(t)
         /\ \A j \in Key : /\ locks'[j].waiters = locks[j].waiters
                           /\ j # k => locks'[j].locked = locks[j].locked
         /\ \A i \in 1..Len(locks[k].waiters) : task[locks[k].waiters[i]].expired
<1>1. OnlyTask(t, Holding(k)) /\ task[t].phase = "idle"
  BY TaskConstants DEF AcquireAtOnce, OnlyTask
<1>2. LockBecomes(k, TRUE, locks[k].waiters) /\ locks[k].waiters \in Seq(Task)
  BY LockedUpdate, LockFields DEF AcquireAtOnce, LockBecomes, LockInv
<1>3. \A j \in Key : /\ locks'[j].waiters = locks[j].waiters
                     /\ j # k => locks'[j].locked = locks[j].locked
  <2>1. /\ locks'[k].waiters = locks[k].waiters
        /\ \A j \in Key : j # k => locks'[j] = locks[j]
    BY <1>2, LockChange DEF LockInv
  <2>2. QED
    BY <2>1
<1>4. \A i \in 1..Len(locks[k].waiters) : task[locks[k].waiters[i]].expired
  <2> SUFFICES ASSUME NEW i \in 1..Len(locks[k].waiters)
               PROVE  task[locks[k].waiters[i]].expired
    OBVIOUS
  <2>1. locks[k].waiters[i] \in Task
    BY WaiterWaits
  <2>2. task[locks[k].waiters[i]].future = "cancelled"
    BY DEF AcquireAtOnce, CanTakeAtOnce
  <2>3. QED
    BY <2>1, <2>2 DEF LockInv, TaskFits
<1>5. QED
  BY <1>1, <1>3, <1>4, OnlyTaskMeaning

LEMMA AcquireWaitsEffect ==
  ASSUME LockInv, NEW t \in Task, NEW k \in Key, AcquireWaits(t, k)
  PROVE  /\ task[t].phase = "idle" /\ task'[t] = WaitingFor(k) /\ OthersStay(t)
         /\ \A j \in Key : locks'[j].locked = locks[j].locked
         /\ \A j \in Key :
              locks'[j].waiters = IF j = k THEN Append(locks[k].waiters, t)
                                           ELSE locks[j].waiters
<1>1. OnlyTask(t, WaitingFor(k)) /\ task[t].phase = "idle"
  BY TaskConstants DEF AcquireWaits, OnlyTask
<1>2. /\ LockBecomes(k, locks[k].locked, Append(locks[k].waiters, t))
      /\ locks[k].locked \in BOOLEAN /\ Append(locks[k].waiters, t) \in Seq(Task)
  BY WaitersUpdate, LockFields, AppendProperties DEF AcquireWaits, LockBecomes, LockInv
<1>3. /\ locks'[k].locked = locks[k].locked
      /\ locks'[k].waiters = Append(locks[k].waiters, t)
      /\ \A j \in Key : j # k => locks'[j] = locks[j]
  BY <1>2, LockChange DEF LockInv
<1>4. QED
  BY <1>1, <1>3, OnlyTaskMeaning

LEMMA GrantedEffect ==
  ASSUME LockInv, NEW t \in Task, Granted(t)
  PROVE  LET k == task[t].key IN
         /\ k \in Key /\ task[t].phase = "waiting" /\ locks[k].waiters[1] = t
         /\ task'[t] = Holding(k) /\ OthersStay(t)
         /\ \A j \in Key : j # k => locks'[j].locked = locks[j].locked
         /\ \A j \in Key :
              locks'[j].waiters = IF j = k THEN RemoveFirst(locks[k].waiters, t)
                                           ELSE locks[j].waiters
<1> DEFINE k == task[t].key
<1>1. k \in Key /\ task[t].phase = "waiting" /\ locks[k].waiters[1] = t
  BY DEF Granted, LockInv, TaskFits, WokenIsFirst
<1>2. OnlyTask(t, Holding(k))
  BY DEF Granted, OnlyTask
<1>3. /\ locks' = [locks EXCEPT ![k] = [locked |-> TRUE,
                                       waiters |-> RemoveFirst(locks[k].waiters, t)]]
      /\ locks \in [Key -> Lock]
  BY DEF Granted, LockInv, LockTypeOK
<1> HIDE DEF k
<1>4. \A j \in Key : /\ j # k => locks'[j] = locks[j]
                     /\ locks'[k].waiters = RemoveFirst(locks[k].waiters, t)
  BY <1>1, <1>3
<1>5. task'[t] = Holding(k) /\ OthersStay(t)
  BY <1>2, OnlyTaskMeaning
<1>6. QED
  BY <1>1, <1>4, <1>5 DEF k

LEMMA TimerFiresEffect ==
  ASSUME LockInv, NEW t \in Task, TimerFires(t)
  PROVE  /\ task[t].phase = "waiting"
         /\ task'[t].phase = "waiting" /\ task'[t].key = task[t].key /\ task'[t].expired
         /\ OthersStay(t) /\ locks' = locks
<1>1. LockTypeOK
  BY DEF LockInv
<1>2. QED
  BY <1>1, TimerFiresMeaning DEF TimerFires, OthersStay, SameButFuture

LEMMA TimedOutEffect ==
  ASSUME LockInv, NEW t \in Task, TimedOut(t)
  PROVE  LET k == task[t].key IN
         /\ k \in Key /\ task[t].phase = "waiting"
         /\ task'[t] = Idle /\ OthersStay(t)
         /\ \A j \in Key : locks'[j].locked = locks[j].locked
         /\ \A j \in Key :
              locks'[j].waiters = IF j = k THEN RemoveFirst(locks[k].waiters, t)
                                           ELSE locks[j].waiters
<1> DEFINE k == task[t].key
           left == RemoveFirst(locks[k].waiters, t)
<1>1. k \in Key /\ task[t].phase = "waiting" /\ LockTypeOK
  BY DEF TimedOut, LockInv, TaskFits
<1>2. locks[k].waiters \in Seq(Task) /\ locks[k].locked \in BOOLEAN
  BY <1>1, LockFields
<1>3. left \in Seq(Task)
  BY <1>2, RemoveFirstProperties
<1>4. LockBecomes(k, locks[k].locked, left)
  BY <1>1, WaitersUpdate DEF TimedOut, LockBecomes
<1>5. task' = IF locks[k].locked THEN [task EXCEPT ![t] = Idle]
                                 ELSE WokenFirst([task EXCEPT ![t] = Idle], left)
  BY DEF TimedOut
<1> HIDE DEF left
<1>6. task'[t] = Idle /\ OthersStay(t)
  BY <1>3, <1>5, BecomesIdle, OnlyTaskMeaning DEF OnlyTask
<1>7. /\ locks'[k].locked = locks[k].locked /\ locks'[k].waiters = left
      /\ \A j \in Key : j # k => locks'[j] = locks[j]
  BY <1>1, <1>2, <1>3, <1>4, LockChange
<1>8. QED
  BY <1>1, <1>6, <1>7 DEF left

LEMMA ReleaseLockEffect ==
  ASSUME LockInv, NEW t \in Task, ReleaseLock(t)
  PROVE  LET k == task[t].key IN
         /\ k \in Key /\ task[t].phase = "holding"
         /\ task'[t] = Idle /\ OthersStay(t)
         /\ ~locks'[k].locked
         /\ \A j \in Key : /\ locks'[j].waiters = locks[j].waiters
                           /\ j # k => locks'[j].locked = locks[j].locked
<1> DEFINE k == task[t].key
<1>1. k \in Key /\ task[t].phase = "holding" /\ locks[k].locked /\ LockTypeOK
  BY DEF ReleaseLock, LockInv, TaskFits, HeldIsLocked
<1>2. locks[k].waiters \in Seq(Task)
  BY <1>1, LockFields
<1>3. LockBecomes(k, FALSE, locks[k].waiters)
  BY <1>1, LockedUpdate DEF ReleaseLock, LockBecomes
<1>4. task'[t] = Idle /\ OthersStay(t)
  BY <1>1, <1>2, BecomesIdle DEF ReleaseLock
<1>5. /\ locks'[k].locked = FALSE /\ locks'[k].waiters = locks[k].waiters
      /\ \A j \in Key : j # k => locks'[j] = locks[j]
  BY <1>1, <1>2, <1>3, LockChange
<1>6. QED
  BY <1>1, <1>4, <1>5

LEMMA LeakEffect ==
  ASSUME LockInv, NEW t \in Task, Leak(t)
  PROVE  /\ task[t].key \in Key /\ task[t].phase = "holding"
         /\ task'[t] = Idle /\ OthersStay(t) /\ locks' = locks
<1>1. OnlyTask(t, Idle) /\ locks' = locks /\ task[t].phase = "holding" /\ task[t].key \in Key
  BY DEF Leak, OnlyTask, LockInv, TaskFits
<1>2. QED
  BY <1>1, OnlyTaskMeaning

-----------------------------------------------------------------------------
(* The inductive invariant. *)

\* A request that waits for the lock of key k, or has it, is about a seat, tier
\* or ticket that exists or about Unknown, and k is the key it asks for.
RequestFits(d, r, k) ==
  \/ /\ r.cmd \in SeatCommands
     /\ r.seat \in Seat \cup {Unknown}
     /\ k = r.key
  \/ /\ r.cmd = "BOOK_TIER"
     /\ r.tier \in Tier \cup {Unknown}
     /\ k = TierKey(r.tier)
  \/ /\ r.cmd = "BOOK_TIER_SEAT"
     /\ r.tier \in Tier \cup {Unknown} /\ r.number \in SeatNumber
     /\ k = TierSeatKey(r.tier, r.number)
  \/ /\ r.cmd = "CANCEL"
     /\ r.ticket_id \in DOMAIN d.tickets
     /\ k = TierKey(d.tickets[r.ticket_id].tier)

\* A connection is at rest, or it works on a request and has, or waits for, its
\* lock.
AtRest(t) == request[t] = NoRequest /\ task[t] = Idle
AtWork(t) ==
  /\ task[t].phase # "idle"
  /\ RequestFits(db, request[t], task[t].key)
  /\ request[t].order \in Nat /\ request[t].order < received

ReplyRecord == [code : Codes, ticket_id : TicketId \cup {None},
                status : {"none", "confirmed", "waiting", "cancelled"}]

Connections ==
  /\ DOMAIN request = Task
  /\ reply \in [Task -> ReplyRecord]
  /\ received \in 0..MaxRequests
  /\ \A t \in Task : AtRest(t) \/ AtWork(t)

\* The queue of a key is in the order in which its requests came in.
QueueInOrder ==
  \A k \in Key : \A i, j \in 1..Len(locks[k].waiters) :
    i < j => request[locks[k].waiters[i]].order < request[locks[k].waiters[j]].order

\* The request that has a lock came before every one that waits for it, but for
\* those whose time is up.
HolderIsOldest ==
  \A t, u \in Task :
    /\ task[t].phase = "holding"
    /\ task[u].phase = "waiting" /\ ~task[u].expired
    /\ task[u].key = task[t].key
    => request[t].order < request[u].order

ServerInv ==
  /\ QueueInv /\ LockInv /\ Connections
  /\ QueueInOrder /\ HolderIsOldest

LEMMA ServerInvInitially == ServerInit => ServerInv
<1> SUFFICES ASSUME ServerInit PROVE ServerInv
  OBVIOUS
<1>1. QueueInv /\ LockInv
  BY QueueInvInitially, InvInitially DEF ServerInit
<1>2. /\ DOMAIN request = Task
      /\ received = 0 /\ 0 \in 0..MaxRequests
      /\ \A t \in Task : request[t] = NoRequest /\ task[t] = Idle
  BY ServerAssumption DEF ServerInit, LockInit
<1>3. reply \in [Task -> ReplyRecord]
  BY DEF ServerInit, NoReply, ReplyRecord, Codes
<1>4. Connections
  BY <1>2, <1>3 DEF Connections, AtRest
<1>5. \A k \in Key : Len(locks[k].waiters) = 0
  BY DEF ServerInit, LockInit
<1>6. \A t \in Task : task[t].phase = "idle"
  BY <1>2, TaskConstants
<1>7. QueueInOrder /\ HolderIsOldest
  BY <1>5, <1>6 DEF QueueInOrder, HolderIsOldest
<1>8. QED
  BY <1>1, <1>4, <1>7 DEF ServerInv

-----------------------------------------------------------------------------
(* Four kinds of steps. *)

AllRequests ==
  KnownSeatRequests \cup UnknownSeatRequests
    \cup TierRequests(Tier \cup {Unknown}) \cup CancelRequests

\* No connection is concerned.
Rests == [Next]_vars /\ UNCHANGED <<lockVars, request, reply, received>>

\* A connection comes nearer its lock.
Waits(t) ==
  /\ TimerFires(t) \/ Granted(t)
  /\ UNCHANGED <<dbVars, request, reply, received>>

\* The answers after which a request leaves its lock behind.
KeepsLock(t, code) ==
  code = "SERVER_ERROR" \/ (code = "OK" /\ request[t].cmd = "HOLD")

\* A connection answers, and gives its lock up or back, or leaks it.
Ends(t) ==
  /\ [Next]_vars
  /\ \E code \in Codes, id \in DOMAIN db'.tickets \cup {None} :
       /\ Answer(t, code, id)
       /\ TimedOut(t) \/ ReleaseLock(t) \/ (Leak(t) /\ KeepsLock(t, code))

\* The id a tier booking answers with is that of a ticket it has just made, for
\* the client that asked, and not cancelled.
LEMMA IssuedIsThere ==
  ASSUME QueueInv, NEW c \in Client,
         \/ \E k \in Tier : \/ BookByTier(k, c) \/ JoinWaitingList(k, c)
                            \/ \E n : BookByTierAndSeatNumber(k, n, c)
  PROVE  /\ NewId \in DOMAIN db'.tickets /\ NewId \notin DOMAIN db.tickets
         /\ db'.tickets[NewId].client_id = c
         /\ db'.tickets[NewId].status # "cancelled"
<1> DEFINE id == NewTicketId(Current, clock)
<1>1. IsDB(Current) /\ TicketsAreNumbered(Current) /\ DOMAIN Current.tickets = DOMAIN db.tickets
  BY CurrentStaysInStep, CurrentTickets DEF ListsAreInStep, QueueInv
<1>2. id \notin DOMAIN db.tickets
  BY <1>1, ClockIsNat, NewTicketIsLast DEF QueueInv
<1>3. NewId = id
  BY DEF NewId, Current
<1> HIDE DEF id
<1>4. ASSUME NEW k, NEW s, db' = BookTierNoLog(Current, id, c, k, s)
      PROVE  /\ id \in DOMAIN db'.tickets /\ db'.tickets[id].client_id = c
             /\ db'.tickets[id].status # "cancelled"
  BY <1>1, <1>4, BookTierMeaning
<1>5. ASSUME NEW k, db' = WaitlistAddNoLog(Current, id, c, k)
      PROVE  /\ id \in DOMAIN db'.tickets /\ db'.tickets[id].client_id = c
             /\ db'.tickets[id].status # "cancelled"
  BY <1>1, <1>5, WaitlistAddMeaning
<1>6. CASE \E k \in Tier : BookByTier(k, c) \/ \E n : BookByTierAndSeatNumber(k, n, c)
  <2>1. \E k, s : db' = BookTierNoLog(Current, id, c, k, s)
    BY <1>6 DEF BookByTier, BookByTierAndSeatNumber, Confirm, id
  <2>2. QED
    BY <2>1, <1>2, <1>3, <1>4
<1>7. CASE \E k \in Tier : JoinWaitingList(k, c)
  <2>1. \E k : db' = WaitlistAddNoLog(Current, id, c, k)
    BY <1>7 DEF JoinWaitingList, id
  <2>2. QED
    BY <2>1, <1>2, <1>3, <1>5
<1>8. QED
  BY <1>6, <1>7

\* The codes the handlers answer with are known.
LEMMA KnownCodes ==
  /\ "none" \in Codes /\ "OK" \in Codes /\ "LOCK_TIMEOUT" \in Codes
  /\ "HOLD_FAILED" \in Codes /\ "BOOK_FAILED" \in Codes
  /\ "CANCEL_FAILED" \in Codes /\ "SERVER_ERROR" \in Codes
BY DEF Codes

LEMMA SearchIsAStep == Search => [Next]_vars
BY DEF Next, CarefulNext, FaultyTierNext, TierNext

LEMMA SeatCallsAreSteps ==
  ASSUME NEW s \in Seat, NEW c \in Client,
         \/ Hold(s, c) \/ HoldRejected(s, c) \/ Book(s, c) \/ BookRejected(s, c)
         \/ Release(s, c)
  PROVE  [Next]_vars
BY DEF Next, CarefulNext, SeatCalls

LEMMA TierCallsAreSteps ==
  ASSUME NEW k \in Tier, NEW c \in Client,
         \/ BookByTier(k, c) \/ JoinWaitingList(k, c)
         \/ \E n \in SeatNumber : \/ BookByTierAndSeatNumber(k, n, c)
                                  \/ BookByTierAndSeatNumberRejected(k, n, c)
  PROVE  [Next]_vars
BY DEF Next, CarefulNext, FaultyTierNext, TierNext, TierCalls, SeatNumber

\* What the request of a connection that has its lock is about.
LEMMA ServingFits ==
  ASSUME ServerInv, NEW t \in Task, NEW cmd, Serving(t, cmd)
  PROVE  /\ AtWork(t) /\ request[t].cmd = cmd /\ ClientOf[t] \in Client
         /\ cmd \in SeatCommands => request[t].seat \in Seat \cup {Unknown}
         /\ cmd = "BOOK_TIER" => request[t].tier \in Tier \cup {Unknown}
         /\ cmd = "BOOK_TIER_SEAT" => /\ request[t].tier \in Tier \cup {Unknown}
                                      /\ request[t].number \in SeatNumber
         /\ cmd = "CANCEL" => request[t].ticket_id \in DOMAIN db.tickets
<1>1. task[t].phase = "holding" /\ request[t].cmd = cmd
  BY DEF Serving
<1>2. AtWork(t)
  BY <1>1, TaskConstants DEF ServerInv, Connections, AtRest
<1>3. RequestFits(db, request[t], task[t].key)
  BY <1>2 DEF AtWork
<1>4. ClientOf[t] \in Client
  BY ServerAssumption
<1>5. QED
  BY <1>1, <1>2, <1>3, <1>4 DEF RequestFits, SeatCommands

\* A failure, a crash and a success are ends.
LEMMA EndsWith ==
  ASSUME ServerInv, NEW t \in Task, [Next]_vars,
         \/ \E code \in Codes : Fail(t, code)
         \/ Succeed(t, None)
         \/ \E id \in DOMAIN db'.tickets : Succeed(t, id)
         \/ Crash(t)
         \/ request[t].cmd = "HOLD" /\ SucceedKeeping(t)
  PROVE  Ends(t)
BY KnownCodes DEF Ends, Fail, Succeed, Crash, SucceedKeeping, KeepsLock

LEMMA ServeHoldEnds ==
  ASSUME ServerInv, NEW t \in Task, ServeHold(t)
  PROVE  Ends(t)
<1> DEFINE s == request[t].seat  c == ClientOf[t]
<1>1. s \in Seat \cup {Unknown} /\ c \in Client /\ request[t].cmd = "HOLD"
  BY ServingFits DEF ServeHold, SeatCommands
<1>2. CASE s # Unknown /\ Hold(s, c) /\ (SucceedKeeping(t) \/ Crash(t))
  BY <1>1, <1>2, SeatCallsAreSteps, EndsWith
<1>3. CASE s # Unknown /\ HoldRejected(s, c) /\ Fail(t, "HOLD_FAILED")
  BY <1>1, <1>3, SeatCallsAreSteps, EndsWith, KnownCodes
<1>4. CASE s = Unknown /\ Search /\ Crash(t)
  BY <1>1, <1>4, SearchIsAStep, EndsWith
<1>5. QED
  BY <1>2, <1>3, <1>4 DEF ServeHold

LEMMA ServeBookEnds ==
  ASSUME ServerInv, NEW t \in Task, ServeBook(t)
  PROVE  Ends(t)
<1> DEFINE s == request[t].seat  c == ClientOf[t]
<1>1. s \in Seat \cup {Unknown} /\ c \in Client
  BY ServingFits DEF ServeBook, SeatCommands
<1>2. CASE s # Unknown /\ Book(s, c) /\ (Succeed(t, None) \/ Crash(t))
  BY <1>1, <1>2, SeatCallsAreSteps, EndsWith
<1>3. CASE s # Unknown /\ BookRejected(s, c) /\ Fail(t, "BOOK_FAILED")
  BY <1>1, <1>3, SeatCallsAreSteps, EndsWith, KnownCodes
<1>4. CASE s = Unknown /\ Search /\ Crash(t)
  BY <1>1, <1>4, SearchIsAStep, EndsWith
<1>5. QED
  BY <1>2, <1>3, <1>4 DEF ServeBook

LEMMA ServeReleaseEnds ==
  ASSUME ServerInv, NEW t \in Task, ServeRelease(t)
  PROVE  Ends(t)
<1> DEFINE s == request[t].seat  c == ClientOf[t]
<1>1. s \in Seat \cup {Unknown} /\ c \in Client
  BY ServingFits DEF ServeRelease, SeatCommands
<1>2. CASE s # Unknown /\ Release(s, c) /\ (Succeed(t, None) \/ Fail(t, "SERVER_ERROR"))
  BY <1>1, <1>2, SeatCallsAreSteps, EndsWith, KnownCodes
<1>3. CASE s = Unknown /\ UNCHANGED dbVars /\ Fail(t, "SERVER_ERROR")
  BY <1>3, EndsWith, KnownCodes DEF vars, dbVars
<1>4. QED
  BY <1>2, <1>3 DEF ServeRelease

LEMMA ServeBookTierEnds ==
  ASSUME ServerInv, NEW t \in Task, ServeBookTier(t)
  PROVE  Ends(t)
<1> DEFINE k == request[t].tier  c == ClientOf[t]
<1>1. k \in Tier \cup {Unknown} /\ c \in Client /\ QueueInv
  BY ServingFits DEF ServeBookTier, ServerInv
<1>2. CASE /\ k # Unknown
           /\ BookByTier(k, c) \/ JoinWaitingList(k, c)
           /\ Succeed(t, NewId) \/ Crash(t)
  <2>1. k \in Tier
    BY <1>1, <1>2
  <2>2. [Next]_vars
    BY <1>1, <1>2, <2>1, TierCallsAreSteps
  <2>3. NewId \in DOMAIN db'.tickets
    BY <1>1, <1>2, <2>1, IssuedIsThere
  <2>4. QED
    BY <1>2, <2>2, <2>3, EndsWith
<1>3. CASE k = Unknown /\ Search /\ Crash(t)
  BY <1>1, <1>3, SearchIsAStep, EndsWith
<1>4. QED
  BY <1>2, <1>3 DEF ServeBookTier

LEMMA ServeBookTierSeatEnds ==
  ASSUME ServerInv, NEW t \in Task, ServeBookTierSeat(t)
  PROVE  Ends(t)
<1> DEFINE k == request[t].tier  n == request[t].number  c == ClientOf[t]
<1>1. /\ k \in Tier \cup {Unknown} /\ n \in SeatNumber /\ c \in Client
      /\ QueueInv
  BY ServingFits DEF ServeBookTierSeat, ServerInv
<1>2. CASE /\ k # Unknown /\ BookByTierAndSeatNumber(k, n, c)
           /\ Succeed(t, NewId) \/ Crash(t)
  <2>1. k \in Tier
    BY <1>1, <1>2
  <2>2. [Next]_vars
    BY <1>1, <1>2, <2>1, TierCallsAreSteps
  <2>3. NewId \in DOMAIN db'.tickets
    BY <1>1, <1>2, <2>1, IssuedIsThere
  <2>4. QED
    BY <1>2, <2>2, <2>3, EndsWith
<1>3. CASE k # Unknown /\ BookByTierAndSeatNumberRejected(k, n, c) /\ Fail(t, "BOOK_FAILED")
  <2>1. k \in Tier
    BY <1>1, <1>3
  <2>2. [Next]_vars
    BY <1>1, <1>3, <2>1, TierCallsAreSteps
  <2>3. QED
    BY <1>3, <2>2, EndsWith, KnownCodes
<1>4. CASE k = Unknown /\ Search /\ Crash(t)
  BY <1>1, <1>4, SearchIsAStep, EndsWith
<1>5. QED
  BY <1>2, <1>3, <1>4 DEF ServeBookTierSeat

LEMMA ServeCancelEnds ==
  ASSUME ServerInv, NEW t \in Task, ServeCancel(t)
  PROVE  Ends(t)
<1> DEFINE id == request[t].ticket_id  c == ClientOf[t]
<1>1. id \in DOMAIN db.tickets /\ c \in Client /\ QueueInv
  BY ServingFits DEF ServeCancel, ServerInv
<1>2. CASE \/ Cancel(id, c) /\ (Succeed(t, id) \/ Crash(t))
           \/ CancelCutShort(id, c) /\ Crash(t)
  <2>1. Next
    BY <1>1, <1>2 DEF Next, CancelCalls
  <2>2. id \in DOMAIN db'.tickets
    BY <1>1, <2>1, TicketsLiveOn DEF LivesOn
  <2>3. QED
    BY <1>2, <2>1, <2>2, EndsWith
<1>3. CASE ~MayCancel(id, c) /\ UNCHANGED dbVars /\ Fail(t, "CANCEL_FAILED")
  BY <1>3, EndsWith, KnownCodes DEF vars, dbVars
<1>4. QED
  BY <1>2, <1>3 DEF ServeCancel

LEMMA ServeEnds ==
  ASSUME ServerInv, NEW t \in Task, Serve(t) \/ GiveUp(t)
  PROVE  Ends(t)
<1>1. CASE Serve(t)
  BY <1>1, ServeHoldEnds, ServeBookEnds, ServeReleaseEnds, ServeBookTierEnds,
     ServeBookTierSeatEnds, ServeCancelEnds DEF Serve
<1>2. CASE GiveUp(t)
  BY <1>2, KnownCodes DEF GiveUp, Ends, vars, dbVars
<1>3. QED
  BY <1>1, <1>2

LEMMA StepKinds ==
  ASSUME ServerInv, ServerNext
  PROVE  \/ Rests
         \/ \E t \in Task : Waits(t) \/ Ends(t) \/ \E r \in AllRequests : Receive(t, r)
<1>1. ASSUME NEW t \in Task, Handle(t)
      PROVE  Waits(t) \/ Ends(t)
  BY <1>1, ServeEnds DEF Handle, TimeIsUp, GetLock, Waits
<1>2. ASSUME NEW t \in Task, AnswerSearch(t)
      PROVE  Rests
  BY <1>2, SearchIsAStep DEF AnswerSearch, Rests
<1>3. ASSUME ClockTicks
      PROVE  Rests
  BY <1>3 DEF ClockTicks, Rests, Next, CarefulNext, FaultyTierNext, TierNext
<1>4. /\ KnownSeatRequests \cup UnknownSeatRequests \subseteq AllRequests
      /\ TierRequests(Tier) \cup TierRequests({Unknown}) \cup CancelRequests \subseteq AllRequests
  BY DEF AllRequests, TierRequests
<1>5. QED
  BY <1>1, <1>2, <1>3, <1>4 DEF ServerNext, KnownServerNext, TierServerNext

-----------------------------------------------------------------------------
(* Connections. *)

LEMMA LivesOnAtEveryStep ==
  ASSUME QueueInv, [Next]_vars
  PROVE  LivesOn(db, db')
BY TicketsLiveOn, UntouchedLiveOn DEF vars

LEMMA FitsOn ==
  ASSUME NEW d, NEW e, LivesOn(d, e), NEW r, NEW k, RequestFits(d, r, k)
  PROVE  RequestFits(e, r, k)
BY DEF LivesOn, RequestFits

\* Whatever one connection does, the others rest or work as before.
LEMMA OthersWorkOn ==
  ASSUME ServerInv, [Next]_vars, NEW t, OthersStay(t), NEW u \in Task, u # t,
         request'[u] = request[u], received' \in Nat, received <= received'
  PROVE  AtRest(u)' \/ AtWork(u)'
<1>1. CASE AtRest(u)
  <2>1. task[u].phase = "idle"
    BY <1>1, TaskConstants DEF AtRest
  <2>2. task'[u] = task[u]
    BY <2>1 DEF OthersStay
  <2>3. QED
    BY <1>1, <2>2 DEF AtRest
<1>2. CASE AtWork(u)
  <2>1. task'[u].phase = task[u].phase /\ task'[u].key = task[u].key
    BY DEF OthersStay, SameButFuture
  <2>2. RequestFits(db', request[u], task[u].key)
    BY <1>2, LivesOnAtEveryStep, FitsOn DEF AtWork, ServerInv
  <2>3. request[u].order < received'
    BY <1>2, ServerAssumption DEF AtWork, ServerInv, Connections
  <2>4. QED
    BY <1>2, <2>1, <2>2, <2>3 DEF AtWork
<1>3. QED
  BY <1>1, <1>2 DEF ServerInv, Connections

LEMMA RestsKeepsConnections ==
  ASSUME ServerInv, Rests
  PROVE  Connections'
<1>1. /\ [Next]_vars /\ task' = task /\ request' = request /\ reply' = reply
      /\ received' = received
  BY DEF Rests, lockVars
<1>2. /\ DOMAIN request = Task /\ reply \in [Task -> ReplyRecord]
      /\ received \in 0..MaxRequests
      /\ \A t \in Task : AtRest(t) \/ AtWork(t)
  BY DEF ServerInv, Connections
<1>3. ASSUME NEW u \in Task
      PROVE  AtRest(u)' \/ AtWork(u)'
  <2>1. AtWork(u) => RequestFits(db', request[u], task[u].key)
    BY <1>1, LivesOnAtEveryStep, FitsOn DEF AtWork, ServerInv
  <2>2. QED
    BY <1>1, <1>2, <2>1 DEF AtRest, AtWork
<1>4. QED
  BY <1>1, <1>2, <1>3 DEF Connections

LEMMA WaitsKeepsConnections ==
  ASSUME ServerInv, NEW t \in Task, Waits(t)
  PROVE  Connections'
<1>1. /\ [Next]_vars /\ db' = db /\ request' = request /\ reply' = reply
      /\ received' = received
  BY DEF Waits, dbVars, vars
<1>2. /\ DOMAIN request = Task /\ reply \in [Task -> ReplyRecord]
      /\ received \in 0..MaxRequests /\ received \in Nat
      /\ \A u \in Task : AtRest(u) \/ AtWork(u)
  BY ServerAssumption DEF ServerInv, Connections
<1>3. /\ OthersStay(t) /\ task[t].phase = "waiting"
      /\ task'[t].phase # "idle" /\ task'[t].key = task[t].key
  BY TimerFiresEffect, GrantedEffect, TaskConstants DEF Waits, ServerInv
<1>4. AtWork(t)
  BY <1>2, <1>3, TaskConstants DEF AtRest
<1>5. AtWork(t)'
  BY <1>1, <1>3, <1>4 DEF AtWork
<1>6. \A u \in Task : AtRest(u)' \/ AtWork(u)'
  BY <1>1, <1>2, <1>3, <1>5, OthersWorkOn
<1>7. QED
  BY <1>1, <1>2, <1>6 DEF Connections

LEMMA EndsEffect ==
  ASSUME ServerInv, NEW t \in Task, Ends(t)
  PROVE  /\ task[t].phase # "idle" /\ task'[t] = Idle /\ OthersStay(t)
         /\ DOMAIN request' = Task /\ request'[t] = NoRequest
         /\ \A u \in Task : u # t => request'[u] = request[u]
         /\ received' = received
<1>1. LockInv /\ DOMAIN request = Task
  BY DEF ServerInv, Connections
<1>2. task[t].phase # "idle" /\ task'[t] = Idle /\ OthersStay(t)
  BY <1>1, TimedOutEffect, ReleaseLockEffect, LeakEffect DEF Ends
<1>3. request' = [request EXCEPT ![t] = NoRequest] /\ received' = received
  BY DEF Ends, Answer
<1>4. QED
  BY <1>1, <1>2, <1>3

LEMMA EndsKeepsConnections ==
  ASSUME ServerInv, NEW t \in Task, Ends(t)
  PROVE  Connections'
<1>1. [Next]_vars /\ QueueInv /\ received \in 0..MaxRequests /\ received \in Nat
  BY ServerAssumption DEF Ends, ServerInv, Connections
<1>2. reply' \in [Task -> ReplyRecord]
  <2>1. PICK code \in Codes, id \in DOMAIN db'.tickets \cup {None} : Answer(t, code, id)
    BY DEF Ends
  <2>2. IsDB(db')
    BY <1>1, QueueStep DEF QueueInv, TypeOK
  <2>3. id \in TicketId \cup {None}
    BY <2>1, <2>2 DEF IsDB
  <2> DEFINE status == IF id = None THEN "none" ELSE db'.tickets[id].status
  <2>4. status \in {"none", "confirmed", "waiting", "cancelled"}
    BY <2>1, <2>2 DEF IsDB, Ticket
  <2>5. reply' = [reply EXCEPT ![t] =
                   [code |-> code, ticket_id |-> id, status |-> status]]
    BY <2>1 DEF Answer
  <2> HIDE DEF status
  <2>6. [code |-> code, ticket_id |-> id, status |-> status] \in ReplyRecord
    BY <2>1, <2>3, <2>4 DEF ReplyRecord
  <2>7. QED
    BY <2>5, <2>6 DEF ServerInv, Connections
<1>3. AtRest(t)'
  BY EndsEffect DEF AtRest
<1>4. \A u \in Task : AtRest(u)' \/ AtWork(u)'
  BY <1>1, <1>3, EndsEffect, OthersWorkOn
<1>5. QED
  BY <1>1, <1>2, <1>4, EndsEffect DEF Connections

\* A request that comes in asks for a key that there is.
LEMMA NewRequestFits ==
  ASSUME ServerInv, NEW r \in AllRequests
  PROVE  /\ RequestFits(db, Numbered(r), KeyOf(r))
         /\ Numbered(r).order = received
         /\ KeyOf(r) \in Key
<1> DEFINE q == Numbered(r)
<1>1. IsDB(db)
  BY DEF ServerInv, QueueInv, TypeOK
<1>2. CASE r \in KnownSeatRequests \cup UnknownSeatRequests
  <2>1. r \in [cmd : SeatCommands, seat : Seat \cup {Unknown}, key : Key]
    BY <1>2, ServerAssumption DEF KnownSeatRequests, UnknownSeatRequests, LockKeys
  <2>2. /\ r.cmd \in SeatCommands /\ r.seat \in Seat \cup {Unknown} /\ r.key \in Key
    BY <2>1
  <2>3. /\ q.order = received /\ q.cmd = r.cmd /\ q.seat = r.seat /\ q.key = r.key
    BY <2>1 DEF Numbered
  <2>4. KeyOf(r) = r.key
    BY <2>2 DEF KeyOf, SeatCommands
  <2> HIDE DEF q
  <2>5. RequestFits(db, q, KeyOf(r))
    BY <2>2, <2>3, <2>4 DEF RequestFits
  <2>6. QED
    BY <2>2, <2>3, <2>4, <2>5 DEF q
<1>3. CASE r \in [cmd : {"BOOK_TIER"}, tier : Tier \cup {Unknown}]
  <2>1. /\ r.cmd = "BOOK_TIER" /\ r.tier \in Tier \cup {Unknown}
        /\ q.order = received /\ q.cmd = r.cmd /\ q.tier = r.tier
    BY <1>3 DEF Numbered
  <2>2. KeyOf(r) = TierKey(r.tier)
    BY <2>1 DEF KeyOf, SeatCommands
  <2> HIDE DEF q
  <2>3. RequestFits(db, q, KeyOf(r))
    BY <2>1, <2>2 DEF RequestFits
  <2>4. KeyOf(r) \in Key
    BY <2>1, <2>2, ServerAssumption DEF LockKeys
  <2>5. QED
    BY <2>1, <2>3, <2>4 DEF q
<1>4. CASE r \in [cmd : {"BOOK_TIER_SEAT"}, tier : Tier \cup {Unknown}, number : SeatNumber]
  <2>1. /\ r.cmd = "BOOK_TIER_SEAT" /\ r.tier \in Tier \cup {Unknown} /\ r.number \in SeatNumber
        /\ q.order = received /\ q.cmd = r.cmd /\ q.tier = r.tier /\ q.number = r.number
    BY <1>4 DEF Numbered
  <2>2. KeyOf(r) = TierSeatKey(r.tier, r.number)
    BY <2>1 DEF KeyOf, SeatCommands
  <2> HIDE DEF q
  <2>3. RequestFits(db, q, KeyOf(r))
    BY <2>1, <2>2 DEF RequestFits
  <2>4. KeyOf(r) \in Key
    BY <2>1, <2>2, ServerAssumption DEF LockKeys
  <2>5. QED
    BY <2>1, <2>3, <2>4 DEF q
<1>5. CASE r \in CancelRequests
  <2>1. /\ r.cmd = "CANCEL" /\ r.ticket_id \in DOMAIN db.tickets
        /\ q.order = received /\ q.cmd = r.cmd /\ q.ticket_id = r.ticket_id
    BY <1>5 DEF CancelRequests, Numbered
  <2>2. KeyOf(r) = TierKey(db.tickets[r.ticket_id].tier)
    BY <2>1 DEF KeyOf, SeatCommands
  <2> HIDE DEF q
  <2>3. RequestFits(db, q, KeyOf(r))
    BY <2>1, <2>2 DEF RequestFits
  <2>4. db.tickets[r.ticket_id].tier \in Tier
    BY <1>1, <2>1 DEF IsDB, Ticket
  <2>5. KeyOf(r) \in Key
    BY <2>2, <2>4, ServerAssumption DEF LockKeys
  <2>6. QED
    BY <2>1, <2>3, <2>5 DEF q
<1>6. QED
  BY <1>2, <1>3, <1>4, <1>5 DEF AllRequests, TierRequests

LEMMA ReceiveEffect ==
  ASSUME ServerInv, NEW t \in Task, NEW r \in AllRequests, Receive(t, r)
  PROVE  /\ KeyOf(r) \in Key /\ Acquire(t, KeyOf(r)) /\ UNCHANGED dbVars
         /\ task[t].phase = "idle" /\ task'[t].phase # "idle"
         /\ task'[t].key = KeyOf(r) /\ OthersStay(t)
         /\ DOMAIN request' = Task
         /\ request'[t] = Numbered(r) /\ request'[t].order = received
         /\ \A u \in Task : u # t => request'[u] = request[u]
         /\ received \in Nat /\ received' = received + 1
         /\ received' \in 0..MaxRequests
<1>1. /\ LockInv /\ DOMAIN request = Task /\ received \in 0..MaxRequests
      /\ received \in Nat /\ MaxRequests \in Nat
  BY ServerAssumption DEF ServerInv, Connections
<1>2. KeyOf(r) \in Key /\ Acquire(t, KeyOf(r)) /\ UNCHANGED dbVars
  BY NewRequestFits DEF Receive
<1>3. /\ task[t].phase = "idle" /\ task'[t].phase # "idle"
      /\ task'[t].key = KeyOf(r) /\ OthersStay(t)
  BY <1>1, <1>2, AcquireAtOnceEffect, AcquireWaitsEffect, TaskConstants DEF Acquire
<1>4. received' = received + 1 /\ received' \in 0..MaxRequests
  BY <1>1 DEF Receive
<1> DEFINE q == Numbered(r)
<1>5. request' = [request EXCEPT ![t] = q] /\ q.order = received
  BY NewRequestFits DEF Receive
<1> HIDE DEF q
<1>6. /\ DOMAIN request' = Task /\ request'[t] = q /\ request'[t].order = received
      /\ \A u \in Task : u # t => request'[u] = request[u]
  BY <1>1, <1>5
<1>7. QED
  BY <1>1, <1>2, <1>3, <1>4, <1>6 DEF q

LEMMA ReceiveKeepsConnections ==
  ASSUME ServerInv, NEW t \in Task, NEW r \in AllRequests, Receive(t, r)
  PROVE  Connections'
<1>1. [Next]_vars /\ db' = db
  BY DEF Receive, dbVars, vars
<1>2. reply' \in [Task -> ReplyRecord]
  <2>1. NoReply \in ReplyRecord
    BY DEF NoReply, ReplyRecord, Codes
  <2>2. QED
    BY <2>1 DEF Receive, ServerInv, Connections
<1> DEFINE q == Numbered(r)
<1>3. RequestFits(db, q, KeyOf(r)) /\ request'[t] = q
  BY NewRequestFits, ReceiveEffect
<1> HIDE DEF q
<1>4. AtWork(t)'
  BY <1>1, <1>3, ReceiveEffect DEF AtWork
<1>5. received <= received' /\ received' \in Nat
  BY ReceiveEffect
<1>6. \A u \in Task : AtRest(u)' \/ AtWork(u)'
  BY <1>1, <1>4, <1>5, ReceiveEffect, OthersWorkOn
<1>7. QED
  BY <1>2, <1>6, ReceiveEffect DEF Connections

-----------------------------------------------------------------------------
(* Locks. *)

LEMMA RestsKeepsLocks ==
  ASSUME ServerInv, Rests
  PROVE  LockInv' /\ QueueInOrder' /\ HolderIsOldest'
<1>1. task' = task /\ locks' = locks /\ request' = request
  BY DEF Rests, lockVars
<1>2. LockInv'
  BY <1>1 DEF ServerInv, LockInv, LockTypeOK, TaskFits, InLine, WaitsFor, WokenIsFirst,
              KeyExclusion, HeldIsLocked, WakeupPending
<1>3. QueueInOrder' /\ HolderIsOldest'
  BY <1>1 DEF ServerInv, QueueInOrder, HolderIsOldest
<1>4. QED
  BY <1>2, <1>3

LEMMA StepsKeepLockInv ==
  ASSUME ServerInv, NEW t \in Task,
         Waits(t) \/ Ends(t) \/ \E r \in AllRequests : Receive(t, r)
  PROVE  LockInv'
<1>1. LockInv
  BY DEF ServerInv
<1>2. CASE Waits(t)
  BY <1>1, <1>2, TimerFiresKeepsInv, GrantedKeepsInv DEF Waits
<1>3. CASE Ends(t)
  BY <1>1, <1>3, TimedOutKeepsInv, ReleaseKeepsInv, LeakKeepsInv DEF Ends
<1>4. ASSUME NEW r \in AllRequests, Receive(t, r)
      PROVE  LockInv'
  <2>1. KeyOf(r) \in Key /\ Acquire(t, KeyOf(r))
    BY <1>4, ReceiveEffect
  <2>2. QED
    BY <1>1, <2>1, AcquireAtOnceKeepsInv, AcquireWaitsKeepsInv DEF Acquire
<1>5. QED
  BY <1>2, <1>3, <1>4

-----------------------------------------------------------------------------
(* Order. *)

\* The places in the order of arrival, of the requests in a queue.
InOrderIn(f, w) == \A i, j \in 1..Len(w) : i < j => f[w[i]].order < f[w[j]].order

LEMMA LeavingKeepsOrder ==
  ASSUME NEW w \in Seq(Task), NEW t, NEW f, InOrderIn(f, w)
  PROVE  InOrderIn(f, RemoveFirst(w, t))
<1> DEFINE r == RemoveFirst(w, t)
<1>1. CASE ~Contains(w, t)
  BY <1>1, RemoveFirstProperties
<1>2. CASE Contains(w, t)
  <2>1. PICK m \in 1..Len(w) :
          /\ Len(r) = Len(w) - 1
          /\ \A j \in 1..(Len(w) - 1) : r[j] = IF j < m THEN w[j] ELSE w[j + 1]
    BY <1>2, RemoveFirstProperties
  <2>2. Len(w) \in Nat
    BY LenProperties
  <2> HIDE DEF r
  <2>3. ASSUME NEW i \in 1..Len(r), NEW j \in 1..Len(r), i < j
        PROVE  f[r[i]].order < f[r[j]].order
    <3> DEFINE a == IF i < m THEN i ELSE i + 1
               b == IF j < m THEN j ELSE j + 1
    <3>1. a \in 1..Len(w) /\ b \in 1..Len(w) /\ a < b
      BY <2>1, <2>2, <2>3
    <3>2. r[i] = w[a] /\ r[j] = w[b]
      BY <2>1, <2>2
    <3> HIDE DEF a, b
    <3>3. QED
      BY <3>1, <3>2 DEF InOrderIn
  <2>4. InOrderIn(f, r)
    BY <2>3 DEF InOrderIn
  <2>5. QED
    BY <2>4 DEF r
<1>3. QED
  BY <1>1, <1>2

LEMMA JoiningKeepsOrder ==
  ASSUME NEW w \in Seq(Task), NEW t \in Task, NEW f, InOrderIn(f, w),
         \A i \in 1..Len(w) : f[w[i]].order < f[t].order
  PROVE  InOrderIn(f, Append(w, t))
<1> DEFINE r == Append(w, t)
<1>1. /\ Len(r) = Len(w) + 1 /\ r[Len(w) + 1] = t /\ Len(w) \in Nat
      /\ \A i \in 1..Len(w) : r[i] = w[i]
  BY AppendProperties, LenProperties
<1> HIDE DEF r
<1>2. ASSUME NEW i \in 1..Len(r), NEW j \in 1..Len(r), i < j
      PROVE  f[r[i]].order < f[r[j]].order
  <2>1. i \in 1..Len(w) /\ (j \in 1..Len(w) \/ j = Len(w) + 1)
    BY <1>1, <1>2
  <2>2. QED
    BY <1>1, <1>2, <2>1 DEF InOrderIn
<1>3. QED
  BY <1>2 DEF InOrderIn, r

\* The task in a queue is at work, and its request is as it was.
LEMMA QueuedIsAtWork ==
  ASSUME ServerInv, NEW k \in Key, NEW i \in 1..Len(locks[k].waiters)
  PROVE  LET u == locks[k].waiters[i] IN
         /\ u \in Task /\ task[u].phase = "waiting" /\ task[u].key = k
         /\ request[u].order \in Nat /\ request[u].order < received
<1> DEFINE u == locks[k].waiters[i]
<1>1. u \in Task /\ task[u].phase = "waiting" /\ task[u].key = k
  BY WaiterWaits DEF WaitsFor, ServerInv
<1>2. AtWork(u)
  BY <1>1, TaskConstants DEF ServerInv, Connections, AtRest
<1>3. QED
  BY <1>1, <1>2 DEF AtWork

\* Requests in a queue stay as they are while a task that does not queue, or
\* only leaves the queue, changes its own.
LEMMA QueuesStayInOrder ==
  ASSUME ServerInv, NEW t \in Task, NEW k \in Key,
         \A u \in Task : u # t => request'[u] = request[u],
         task[t].phase # "waiting" \/ request'[t] = request[t]
  PROVE  InOrderIn(request', locks[k].waiters)
<1>1. \A i \in 1..Len(locks[k].waiters) :
        request'[locks[k].waiters[i]] = request[locks[k].waiters[i]]
  BY QueuedIsAtWork
<1>2. QED
  BY <1>1 DEF ServerInv, QueueInOrder, InOrderIn

\* The same when t leaves the queue: who is left is not t.
LEMMA QueuesLeftInOrder ==
  ASSUME ServerInv, LockInv', NEW t \in Task, NEW k \in Key,
         \A u \in Task : u # t => request'[u] = request[u],
         task'[t].phase # "waiting",
         \/ locks'[k].waiters = locks[k].waiters
         \/ locks'[k].waiters = RemoveFirst(locks[k].waiters, t)
  PROVE  InOrderIn(request', locks'[k].waiters)
<1>1. locks[k].waiters \in Seq(Task) /\ InOrderIn(request, locks[k].waiters)
  BY DEF ServerInv, LockInv, LockTypeOK, Lock, QueueInOrder, InOrderIn
<1>2. InOrderIn(request, locks'[k].waiters)
  BY <1>1, LeavingKeepsOrder
<1>3. ASSUME NEW i \in 1..Len(locks'[k].waiters)
      PROVE  request'[locks'[k].waiters[i]] = request[locks'[k].waiters[i]]
  <2>1. locks'[k].waiters \in Seq(Task)
    BY DEF LockInv, LockTypeOK, Lock
  <2>2. locks'[k].waiters[i] \in Task
    BY <2>1, ElementOfSeq
  <2>3. task'[locks'[k].waiters[i]].phase = "waiting"
    BY <2>2 DEF LockInv, InLine, WaitsFor
  <2>4. QED
    BY <2>2, <2>3
<1>4. QED
  BY <1>2, <1>3 DEF InOrderIn

LEMMA StepsKeepQueueInOrder ==
  ASSUME ServerInv, NEW t \in Task,
         Waits(t) \/ Ends(t) \/ \E r \in AllRequests : Receive(t, r)
  PROVE  QueueInOrder'
<1> SUFFICES ASSUME NEW k \in Key
             PROVE  InOrderIn(request', locks'[k].waiters)
  BY DEF QueueInOrder, InOrderIn
<1>1. LockInv /\ LockInv'
  BY StepsKeepLockInv DEF ServerInv
<1>2. CASE Waits(t) /\ TimerFires(t)
  BY <1>1, <1>2, TimerFiresEffect DEF Waits, ServerInv, QueueInOrder, InOrderIn
<1>3. CASE Waits(t) /\ Granted(t)
  BY <1>1, <1>3, GrantedEffect, QueuesLeftInOrder, TaskConstants DEF Waits
<1>4. CASE Ends(t)
  <2>1. /\ \A u \in Task : u # t => request'[u] = request[u]
        /\ task'[t].phase # "waiting"
    BY <1>4, EndsEffect, TaskConstants
  <2>2. CASE TimedOut(t)
    BY <1>1, <2>1, <2>2, TimedOutEffect, QueuesLeftInOrder
  <2>3. CASE ReleaseLock(t)
    BY <1>1, <2>1, <2>3, ReleaseLockEffect, QueuesLeftInOrder
  <2>4. CASE Leak(t)
    BY <1>1, <2>1, <2>4, LeakEffect, QueuesLeftInOrder
  <2>5. QED
    BY <1>4, <2>2, <2>3, <2>4 DEF Ends
<1>5. ASSUME NEW r \in AllRequests, Receive(t, r)
      PROVE  InOrderIn(request', locks'[k].waiters)
  <2>1. /\ KeyOf(r) \in Key /\ task[t].phase = "idle" /\ request'[t].order = received
        /\ \A u \in Task : u # t => request'[u] = request[u]
    BY <1>5, ReceiveEffect
  <2>2. InOrderIn(request', locks[k].waiters)
    BY <2>1, QueuesStayInOrder
  <2>3. CASE AcquireAtOnce(t, KeyOf(r))
    BY <1>1, <2>1, <2>2, <2>3, AcquireAtOnceEffect
  <2>4. CASE AcquireWaits(t, KeyOf(r)) /\ k # KeyOf(r)
    BY <1>1, <2>1, <2>2, <2>4, AcquireWaitsEffect
  <2>5. CASE AcquireWaits(t, KeyOf(r)) /\ k = KeyOf(r)
    <3>1. locks'[k].waiters = Append(locks[k].waiters, t)
      BY <1>1, <2>1, <2>5, AcquireWaitsEffect
    <3>2. \A i \in 1..Len(locks[k].waiters) :
            request'[locks[k].waiters[i]].order < request'[t].order
      <4> SUFFICES ASSUME NEW i \in 1..Len(locks[k].waiters)
                   PROVE  request'[locks[k].waiters[i]].order < request'[t].order
        OBVIOUS
      <4> DEFINE u == locks[k].waiters[i]
      <4>1. u \in Task /\ task[u].phase = "waiting" /\ request[u].order < received
        BY QueuedIsAtWork
      <4> HIDE DEF u
      <4>2. request'[u] = request[u]
        BY <2>1, <4>1
      <4>3. QED
        BY <2>1, <4>1, <4>2 DEF u
    <3>3. locks[k].waiters \in Seq(Task)
      BY <1>1 DEF LockInv, LockTypeOK, Lock
    <3>4. QED
      BY <2>2, <3>1, <3>2, <3>3, JoiningKeepsOrder
  <2>6. QED
    BY <1>5, <2>3, <2>4, <2>5, ReceiveEffect DEF Acquire
<1>6. QED
  BY <1>2, <1>3, <1>4, <1>5 DEF Waits

\* A task that is granted its lock, or takes it at once, leaves only younger
\* requests, or requests whose time is up, in the queue.
LEMMA TakersAreOldest ==
  ASSUME ServerInv, NEW t \in Task, NEW k \in Key, task'[t].key = k,
         \/ Granted(t) /\ UNCHANGED request
         \/ AcquireAtOnce(t, k),
         NEW u \in Task, u # t, WaitsFor(u, k), ~task[u].expired
  PROVE  request'[t].order < request'[u].order
<1>1. LockInv
  BY DEF ServerInv
<1>2. PICK i \in 1..Len(locks[k].waiters) : locks[k].waiters[i] = u
  BY <1>1 DEF LockInv, InLine
<1>3. CASE Granted(t) /\ UNCHANGED request
  <2>1. task[t].key = k /\ locks[k].waiters[1] = t
    BY <1>1, <1>3, GrantedEffect, TaskConstants
  <2>2. i # 1 /\ 1 \in 1..Len(locks[k].waiters) /\ 1 < i
    BY <1>2, <2>1
  <2>3. QED
    BY <1>2, <1>3, <2>1, <2>2 DEF ServerInv, QueueInOrder
<1>4. CASE AcquireAtOnce(t, k)
  BY <1>1, <1>2, <1>4, AcquireAtOnceEffect
<1>5. QED
  BY <1>3, <1>4

LEMMA StepsKeepHolderOldest ==
  ASSUME ServerInv, NEW t \in Task,
         Waits(t) \/ Ends(t) \/ \E r \in AllRequests : Receive(t, r)
  PROVE  HolderIsOldest'
<1> SUFFICES ASSUME NEW a \in Task, NEW b \in Task,
                    task'[a].phase = "holding",
                    task'[b].phase = "waiting", ~task'[b].expired,
                    task'[b].key = task'[a].key
             PROVE  request'[a].order < request'[b].order
  BY DEF HolderIsOldest
<1>1. LockInv
  BY DEF ServerInv
<1>2. OthersStay(t) /\ \A u \in Task : u # t => request'[u] = request[u]
  BY <1>1, EndsEffect, ReceiveEffect, TimerFiresEffect, GrantedEffect DEF Waits
<1>3. \A u \in Task : u # t => SameButFuture(task'[u], task[u])
  BY <1>2 DEF OthersStay
<1>4. CASE a # t /\ b # t
  BY <1>2, <1>3, <1>4 DEF SameButFuture, ServerInv, HolderIsOldest
<1>5. CASE a = t
  <2>1. b # t
    BY <1>5
  <2>2. task[b].phase = "waiting" /\ task[b].key = task'[t].key /\ ~task[b].expired
    BY <1>3, <1>5, <2>1 DEF SameButFuture
  <2>3. task'[t].key \in Key
    BY <2>2 DEF ServerInv, LockInv, TaskFits
  <2>4. \/ Granted(t) /\ UNCHANGED request
        \/ AcquireAtOnce(t, task'[t].key)
    <3>1. CASE Waits(t)
      BY <1>1, <1>5, <3>1, TimerFiresEffect DEF Waits
    <3>2. CASE Ends(t)
      BY <1>5, <3>2, EndsEffect, TaskConstants
    <3>3. ASSUME NEW r \in AllRequests, Receive(t, r)
          PROVE  AcquireAtOnce(t, task'[t].key)
      <4>1. KeyOf(r) \in Key /\ Acquire(t, KeyOf(r)) /\ task'[t].key = KeyOf(r)
        BY <3>3, ReceiveEffect
      <4>2. ~AcquireWaits(t, KeyOf(r))
        BY <1>1, <1>5, <4>1, AcquireWaitsEffect, TaskConstants
      <4>3. QED
        BY <4>1, <4>2 DEF Acquire
    <3>4. QED
      BY <3>1, <3>2, <3>3
  <2>5. QED
    BY <1>5, <2>1, <2>2, <2>3, <2>4, TakersAreOldest DEF WaitsFor
<1>6. CASE b = t /\ a # t
  <2>1. task[a].phase = "holding" /\ request'[a] = request[a]
    BY <1>2, <1>3, <1>6 DEF SameButFuture
  <2>2. AtWork(a)
    BY <2>1, TaskConstants DEF ServerInv, Connections, AtRest
  <2>3. ~Waits(t)
    BY <1>1, <1>6, TimerFiresEffect, GrantedEffect, TaskConstants DEF Waits
  <2>4. ~Ends(t)
    BY <1>6, EndsEffect, TaskConstants
  <2>5. PICK r \in AllRequests : Receive(t, r)
    BY <2>3, <2>4
  <2>6. request'[t].order = received
    BY <2>5, ReceiveEffect
  <2>7. QED
    BY <1>6, <2>1, <2>2, <2>6 DEF AtWork
<1>7. QED
  BY <1>4, <1>5, <1>6

-----------------------------------------------------------------------------
(* Theorems about the request handlers. *)

LEMMA StepsAreDatabaseSteps ==
  ServerInv /\ [ServerNext]_serverVars => [Next]_vars
<1> SUFFICES ASSUME ServerInv, [ServerNext]_serverVars PROVE [Next]_vars
  OBVIOUS
<1>1. CASE UNCHANGED serverVars
  BY <1>1 DEF serverVars, dbVars, vars
<1>2. CASE ServerNext
  BY <1>2, StepKinds DEF Rests, Waits, Ends, Receive, dbVars, vars
<1>3. QED
  BY <1>1, <1>2

LEMMA ServerInvStep ==
  ServerInv /\ [ServerNext]_serverVars => ServerInv'
<1> SUFFICES ASSUME ServerInv, [ServerNext]_serverVars PROVE ServerInv'
  OBVIOUS
<1>1. QueueInv'
  BY StepsAreDatabaseSteps, QueueStep DEF ServerInv
<1>2. CASE Rests \/ UNCHANGED serverVars
  <2>1. Rests
    BY <1>2 DEF Rests, serverVars, dbVars, vars
  <2>2. QED
    BY <1>1, <2>1, RestsKeepsConnections, RestsKeepsLocks DEF ServerInv
<1>3. ASSUME NEW t \in Task, Waits(t) \/ Ends(t) \/ \E r \in AllRequests : Receive(t, r)
      PROVE  ServerInv'
  <2>1. Connections'
    BY <1>3, WaitsKeepsConnections, EndsKeepsConnections, ReceiveKeepsConnections
  <2>2. LockInv' /\ QueueInOrder' /\ HolderIsOldest'
    BY <1>3, StepsKeepLockInv, StepsKeepQueueInOrder, StepsKeepHolderOldest
  <2>3. QED
    BY <1>1, <2>1, <2>2 DEF ServerInv
<1>4. QED
  BY <1>2, <1>3, StepKinds

\* The inductive invariant.
THEOREM ServerInvariant == ServerSpec => []ServerInv
BY ServerInvInitially, ServerInvStep, PTL DEF ServerSpec

\* The request of t, which has the lock of key k, is answered.
AnsweredWith(t, k) ==
  task[t].phase = "holding" /\ task[t].key = k /\ request'[t] = NoRequest

\* What LocksFollowAnswers says of one step.
FollowsAnswers ==
  \A k \in Key :
    /\ locks[k].locked /\ ~locks'[k].locked => \E t \in Task : AnsweredWith(t, k)
    /\ \A t \in Task : AnsweredWith(t, k) /\ locks'[k].locked => KeepsLock(t, reply'[t].code)

\* A request that goes on as it was is not answered.
LEMMA GoesOnUnanswered ==
  ASSUME ServerInv, NEW u \in Task, request'[u] = request[u], NEW k
  PROVE  ~AnsweredWith(u, k)
<1> SUFFICES ASSUME task[u].phase = "holding", request[u] = NoRequest
             PROVE  FALSE
  BY DEF AnsweredWith
<1>1. AtWork(u)
  BY TaskConstants DEF ServerInv, Connections, AtRest
<1>2. request[u].cmd # "none"
  BY <1>1 DEF AtWork, RequestFits, SeatCommands
<1>3. QED
  BY <1>2 DEF NoRequest

LEMMA RestsFollowsAnswers ==
  ASSUME ServerInv, Rests \/ \E t \in Task : Waits(t)
  PROVE  FollowsAnswers
<1>1. request' = request /\ LockInv
  BY DEF Rests, Waits, ServerInv
<1>2. ASSUME NEW k \in Key, locks[k].locked
      PROVE  locks'[k].locked
  <2>1. CASE Rests
    BY <1>2, <2>1 DEF Rests, lockVars
  <2>2. ASSUME NEW t \in Task, TimerFires(t)
        PROVE  locks'[k].locked
    BY <1>1, <1>2, <2>2, TimerFiresEffect
  <2>3. ASSUME NEW t \in Task, Granted(t)
        PROVE  locks'[k].locked
    BY <1>1, <1>2, <2>3 DEF Granted, LockInv, LockTypeOK
  <2>4. QED
    BY <2>1, <2>2, <2>3 DEF Waits
<1>3. QED
  BY <1>1, <1>2, GoesOnUnanswered DEF FollowsAnswers

LEMMA EndsFollowsAnswers ==
  ASSUME ServerInv, NEW t \in Task, Ends(t)
  PROVE  FollowsAnswers
<1>1. PICK code \in Codes, id \in DOMAIN db'.tickets \cup {None} :
        /\ Answer(t, code, id)
        /\ TimedOut(t) \/ ReleaseLock(t) \/ (Leak(t) /\ KeepsLock(t, code))
  BY DEF Ends
<1>2. LockInv /\ reply'[t].code = code /\ request'[t] = NoRequest
  BY <1>1, EndsEffect DEF ServerInv, Connections, Answer
<1>3. \A u \in Task, k \in Key : u # t => ~AnsweredWith(u, k)
  BY EndsEffect, GoesOnUnanswered
<1>4. CASE TimedOut(t)
  BY <1>2, <1>3, <1>4, TimedOutEffect DEF FollowsAnswers, AnsweredWith
<1>5. CASE ReleaseLock(t)
  BY <1>2, <1>3, <1>5, ReleaseLockEffect DEF FollowsAnswers, AnsweredWith
<1>6. CASE Leak(t) /\ KeepsLock(t, code)
  BY <1>2, <1>3, <1>6, LeakEffect DEF FollowsAnswers
<1>7. QED
  BY <1>1, <1>4, <1>5, <1>6

LEMMA ReceiveFollowsAnswers ==
  ASSUME ServerInv, NEW t \in Task, NEW r \in AllRequests, Receive(t, r)
  PROVE  FollowsAnswers
<1>1. /\ LockInv /\ KeyOf(r) \in Key /\ Acquire(t, KeyOf(r)) /\ task[t].phase = "idle"
      /\ \A u \in Task : u # t => request'[u] = request[u]
  BY ReceiveEffect DEF ServerInv
<1>2. \A u \in Task, k \in Key : ~AnsweredWith(u, k)
  BY <1>1, GoesOnUnanswered DEF AnsweredWith
<1>3. ASSUME NEW k \in Key, locks[k].locked
      PROVE  locks'[k].locked
  <2>1. CASE AcquireAtOnce(t, KeyOf(r))
    BY <1>1, <1>3, <2>1 DEF AcquireAtOnce, LockInv, LockTypeOK
  <2>2. CASE AcquireWaits(t, KeyOf(r))
    BY <1>1, <1>3, <2>2, AcquireWaitsEffect
  <2>3. QED
    BY <1>1, <2>1, <2>2 DEF Acquire
<1>4. QED
  BY <1>2, <1>3 DEF FollowsAnswers

\* A lock is freed only in the step that answers the request that has it, and
\* stays locked after an answer only when that is SERVER_ERROR or a HOLD's OK:
\* whatever is leaked, times out, is refused or fails (_handle_request).
THEOREM LocksFollowAnswersCorrect == ServerSpec => LocksFollowAnswers
<1>1. ASSUME ServerInv, ServerNext
      PROVE  FollowsAnswers
  BY <1>1, StepKinds, RestsFollowsAnswers, EndsFollowsAnswers, ReceiveFollowsAnswers
<1>2. ServerInv /\ [ServerNext]_serverVars =>
        [\A k \in Key :
           LET Ended(t) == /\ task[t].phase = "holding" /\ task[t].key = k
                           /\ request'[t] = NoRequest
           IN  /\ locks[k].locked /\ ~locks'[k].locked => \E t \in Task : Ended(t)
               /\ \A t \in Task :
                    Ended(t) /\ locks'[k].locked =>
                      \/ reply'[t].code = "SERVER_ERROR"
                      \/ reply'[t].code = "OK" /\ request[t].cmd = "HOLD"]_serverVars
  BY <1>1 DEF FollowsAnswers, AnsweredWith, KeepsLock
<1>3. QED
  BY <1>2, ServerInvariant, PTL DEF ServerSpec, LocksFollowAnswers

\* The database sees operations of its own only, whatever connections do, whole ones
\* but for a cancellation that a failing append cuts short: everything proved of
\* ReservationDB under Spec holds in the server.
THEOREM ImplementsReservationDBCorrect == ServerSpec => ImplementsReservationDB
<1>1. ServerInit => Init
  BY DEF ServerInit
<1>2. QED
  BY <1>1, ServerInvariant, StepsAreDatabaseSteps, PTL
     DEF ServerSpec, ImplementsReservationDB, Spec

\* Each variable of the server keeps its type, and a connection has a lock or
\* waits for one exactly while it works on a request.
THEOREM ServerTypeCorrect == ServerSpec => []ServerTypeOK
<1>1. ServerInv => ServerTypeOK
  <2> SUFFICES ASSUME ServerInv PROVE ServerTypeOK
    OBVIOUS
  <2>1. ASSUME NEW t \in Task
        PROVE  request[t] = NoRequest <=> task[t] = Idle
    <3>1. AtRest(t) \/ AtWork(t)
      BY DEF ServerInv, Connections
    <3>2. AtWork(t) => request[t].cmd # "none" /\ task[t].phase # "idle"
      BY DEF AtWork, RequestFits, SeatCommands
    <3>3. QED
      BY <3>1, <3>2, TaskConstants DEF AtRest, NoRequest
  <2>2. QED
    BY <2>1 DEF ServerTypeOK, ServerInv, QueueInv, TypeOK, LockInv, Connections,
                ReplyRecord
<1>2. QED
  BY <1>1, ServerInvariant, PTL

\* Two requests never have the same lock, leaked locks and timeouts included.
THEOREM ServerKeyExclusion == ServerSpec => []KeyExclusion
<1>1. ServerInv => KeyExclusion
  BY DEF ServerInv, LockInv
<1>2. QED
  BY <1>1, ServerInvariant, PTL

\* A request is served only when no older one with its key still waits within
\* its timeout.
THEOREM FirstComeFirstServedCorrect == ServerSpec => FirstComeFirstServed
<1>1. ServerInv /\ [ServerNext]_serverVars =>
        [\A t, u \in Task :
           /\ Serve(t)
           /\ request[u] # NoRequest
           /\ task[u].key = task[t].key
           /\ request[u].order < request[t].order
           => task[u].expired]_serverVars
  <2> SUFFICES ASSUME ServerInv, NEW t \in Task, NEW u \in Task,
                      Serve(t), request[u] # NoRequest, task[u].key = task[t].key,
                      request[u].order < request[t].order, ~task[u].expired
               PROVE  FALSE
    OBVIOUS
  <2>1. task[t].phase = "holding"
    BY DEF Serve, ServeHold, ServeBook, ServeRelease, ServeBookTier,
           ServeBookTierSeat, ServeCancel, Serving
  <2>2. AtWork(u) /\ AtWork(t)
    BY <2>1, TaskConstants DEF ServerInv, Connections, AtRest
  <2>3. task[u].phase \in {"waiting", "holding"}
    BY <2>2 DEF AtWork, ServerInv, LockInv, LockTypeOK, TaskRecord
  <2>4. CASE task[u].phase = "waiting"
    BY <2>1, <2>2, <2>4 DEF ServerInv, HolderIsOldest, AtWork
  <2>5. CASE task[u].phase = "holding"
    <3>1. t = u
      BY <2>1, <2>5 DEF ServerInv, LockInv, KeyExclusion
    <3>2. QED
      BY <2>2, <3>1 DEF AtWork
  <2>6. QED
    BY <2>3, <2>4, <2>5
<1>2. QED
  BY <1>1, ServerInvariant, PTL DEF ServerSpec, FirstComeFirstServed

\* What tickets and waiting lists promise under every caller holds whatever
\* requests the connections send, and a log that replays gives memory back.
THEOREM ServerKeepsTickets ==
  ServerSpec => [](QueuedIffWaiting /\ QueueIsFifo /\ TicketFitsSeat /\ RecoveredStateAgrees)
<1>1. ServerSpec => Spec
  BY ImplementsReservationDBCorrect DEF ImplementsReservationDB
<1>2. QED
  BY <1>1, QueuedIffWaitingCorrect, QueueIsFifoCorrect, TicketFitsSeatCorrect,
     RecoveredStateAgreesCorrect, PTL

-----------------------------------------------------------------------------
(* The workers of the stress harness: no ticket is cancelled twice.        *)

\* Worker t has the ticket id: it has been told of it and has not decided what
\* to do with it, or it has asked for its cancellation.
InHand(t, id) ==
  \/ request[t].cmd = "CANCEL" /\ request[t].ticket_id = id
  \/ /\ pc[t] = "booking" /\ request[t] = NoRequest
     /\ reply[t].code = "OK" /\ reply[t].ticket_id = id

Workers ==
  /\ DOMAIN pc = Task
  /\ \A t \in Task :
       /\ request[t].cmd \in {"none", "BOOK_TIER", "CANCEL"}
       /\ request[t].cmd = "CANCEL" => pc[t] = "cancelling"

\* A ticket in hand is in one hand, and not cancelled.
HandsAreApart ==
  \A t, u \in Task, id \in DOMAIN db.tickets : InHand(t, id) /\ InHand(u, id) => t = u
HandsAreLive ==
  \A t \in Task : \A id : InHand(t, id) => id \in DOMAIN db.tickets /\ IsLive(id)

HarnessInv == ServerInv /\ Workers /\ HandsAreApart /\ HandsAreLive

LEMMA HarnessInvInitially == HarnessInit => HarnessInv
<1> SUFFICES ASSUME HarnessInit PROVE HarnessInv
  OBVIOUS
<1>1. ServerInv
  BY ServerInvInitially DEF HarnessInit
<1>2. \A t \in Task : request[t] = NoRequest /\ pc[t] = "start" /\ NoRequest.cmd = "none"
  BY DEF HarnessInit, ServerInit, NoRequest
<1>3. Workers
  BY <1>2 DEF Workers, HarnessInit
<1>4. \A t \in Task : \A id : ~InHand(t, id)
  BY <1>2 DEF InHand
<1>5. QED
  BY <1>1, <1>3, <1>4 DEF HarnessInv, HandsAreApart, HandsAreLive

\* A worker cancels a ticket that there is, so that it is one of the clients of
\* ReservationServer.
LEMMA WorkersAreClients ==
  HarnessInv /\ [HarnessNext]_harnessVars => [ServerNext]_serverVars
<1> SUFFICES ASSUME HarnessInv, [HarnessNext]_harnessVars
             PROVE  [ServerNext]_serverVars
  OBVIOUS
<1>1. ASSUME NEW t \in Task, SendBook(t)
      PROVE  ServerNext
  <2>1. PICK k \in Tier : Receive(t, [cmd |-> "BOOK_TIER", tier |-> k])
    BY <1>1 DEF SendBook
  <2>2. [cmd |-> "BOOK_TIER", tier |-> k] \in TierRequests(Tier)
    BY DEF TierRequests
  <2>3. QED
    BY <2>1, <2>2 DEF ServerNext, KnownServerNext, TierServerNext
<1>2. ASSUME NEW t \in Task, SendCancel(t)
      PROVE  ServerNext
  <2> DEFINE id == reply[t].ticket_id
  <2>1. InHand(t, id)
    BY <1>2 DEF SendCancel, Answered, InHand
  <2>2. id \in DOMAIN db.tickets
    BY <2>1 DEF HarnessInv, HandsAreLive
  <2>3. [cmd |-> "CANCEL", ticket_id |-> id] \in CancelRequests
    BY <2>2 DEF CancelRequests
  <2>4. QED
    BY <1>2, <2>3 DEF SendCancel, ServerNext, KnownServerNext, TierServerNext
<1>3. ASSUME NEW t \in Task, KeepTicket(t) \/ CancelAnswered(t)
      PROVE  UNCHANGED serverVars
  BY <1>3 DEF KeepTicket, CancelAnswered
<1>4. ASSUME NEW t \in Task, Handle(t)
      PROVE  ServerNext
  BY <1>4 DEF ServerNext, KnownServerNext, TierServerNext
<1>5. CASE UNCHANGED harnessVars
  BY <1>5 DEF harnessVars
<1>6. QED
  BY <1>1, <1>2, <1>3, <1>4, <1>5 DEF HarnessNext, WorkerStep

-----------------------------------------------------------------------------
(* What the steps of the harness do to the tickets.                        *)

\* A booking leaves the tickets there are as they are.
LEMMA BookingTouchesNoTicket ==
  ASSUME QueueInv, NEW k \in Tier, NEW c \in Client,
         BookByTier(k, c) \/ JoinWaitingList(k, c)
  PROVE  \A u \in DOMAIN db.tickets :
           u \in DOMAIN db'.tickets /\ db'.tickets[u] = db.tickets[u]
<1> DEFINE id == NewTicketId(Current, clock)
<1>1. IsDB(Current) /\ TicketsAreNumbered(Current) /\ Current.tickets = db.tickets
  BY CurrentStaysInStep, CurrentTickets DEF ListsAreInStep, QueueInv
<1>2. id \notin DOMAIN db.tickets
  BY <1>1, ClockIsNat, NewTicketIsLast DEF QueueInv
<1> HIDE DEF id
<1>3. ASSUME NEW s, db' = BookTierNoLog(Current, id, c, k, s), NEW u \in DOMAIN db.tickets
      PROVE  u \in DOMAIN db'.tickets /\ db'.tickets[u] = db.tickets[u]
  BY <1>1, <1>2, <1>3, BookTierMeaning
<1>4. ASSUME db' = WaitlistAddNoLog(Current, id, c, k), NEW u \in DOMAIN db.tickets
      PROVE  u \in DOMAIN db'.tickets /\ db'.tickets[u] = db.tickets[u]
  BY <1>1, <1>2, <1>4, WaitlistAddMeaning
<1>5. \/ \E s : db' = BookTierNoLog(Current, id, c, k, s)
      \/ db' = WaitlistAddNoLog(Current, id, c, k)
  BY DEF BookByTier, Confirm, JoinWaitingList, id
<1>6. QED
  BY <1>3, <1>4, <1>5

\* A cancellation cancels no other ticket.
LEMMA CancelSparesOthers ==
  ASSUME QueueInv, NEW id \in DOMAIN db.tickets, NEW c \in Client, AnyCancel(id, c)
  PROVE  \A u \in DOMAIN db.tickets :
           u # id /\ IsLive(u) => /\ u \in DOMAIN db'.tickets
                                  /\ db'.tickets[u].status # "cancelled"
<1> DEFINE k == db.tickets[id].tier
           s == db.tickets[id].seat_id
           d == Cancelled(id)
<1>1. d = CancelTicketNoLog(db, id, k, s) /\ IsDB(db)
  BY DEF Cancelled, QueueInv, TypeOK
<1> HIDE DEF k, s, d
<1>2. /\ DOMAIN d.tickets = DOMAIN db.tickets
      /\ \A u \in DOMAIN db.tickets : u # id => d.tickets[u] = db.tickets[u]
  BY <1>1, CancelMeaning
<1>3. CASE CancelOnly(id, c)
  BY <1>2, <1>3 DEF CancelOnly, d, IsLive
<1>4. CASE CancelTicketAndPromote(id, c)
  <2> DEFINE p == Head(d.waiting_lists[k])
             e == PromoteTicketNoLog(d, p, k, s)
  <2>1. MustPromote(id) /\ db' = e
    BY <1>4 DEF CancelTicketAndPromote, d, k, s
  <2>2. p \in DOMAIN d.tickets /\ IsDB(d)
    BY <2>1, PromotedWaits, CancelStaysInStep DEF d, k
  <2> HIDE DEF p, e
  <2>3. /\ DOMAIN e.tickets = DOMAIN d.tickets
        /\ e.tickets[p].status = "confirmed"
        /\ \A u \in DOMAIN d.tickets : u # p => e.tickets[u] = d.tickets[u]
    BY <2>2, PromoteMeaning DEF e
  <2>4. QED
    BY <1>2, <2>1, <2>3 DEF IsLive
<1>5. QED
  BY <1>3, <1>4, CancelForms

\* Whatever the harness does, it calls the database as the shipped clients do.
LEMMA WorkersTakeTierSteps ==
  HarnessInv /\ [HarnessNext]_harnessVars => [FaultyTierNext]_vars
<1> SUFFICES ASSUME HarnessInv, [HarnessNext]_harnessVars
             PROVE  [FaultyTierNext]_vars
  OBVIOUS
<1>1. ASSUME NEW t \in Task, WorkerStep(t) \/ TimeIsUp(t) \/ GetLock(t) \/ GiveUp(t)
      PROVE  UNCHANGED vars
  BY <1>1 DEF WorkerStep, SendBook, KeepTicket, SendCancel, CancelAnswered, Receive,
              TimeIsUp, GetLock, GiveUp, serverVars, dbVars, vars
<1>2. ASSUME NEW t \in Task, Serve(t)
      PROVE  ServeBookTier(t) \/ ServeCancel(t)
  BY <1>2 DEF Serve, ServeHold, ServeBook, ServeRelease, ServeBookTierSeat, Serving,
              HarnessInv, Workers
<1>3. ASSUME NEW t \in Task, ServeBookTier(t)
      PROVE  [FaultyTierNext]_vars
  <2>1. request[t].tier \in Tier \cup {Unknown} /\ ClientOf[t] \in Client
    BY <1>3, ServingFits DEF ServeBookTier, HarnessInv
  <2>2. QED
    BY <1>3, <2>1 DEF ServeBookTier, FaultyTierNext, TierNext, TierCalls
<1>4. ASSUME NEW t \in Task, ServeCancel(t)
      PROVE  [FaultyTierNext]_vars
  <2> DEFINE id == request[t].ticket_id
  <2>1. InHand(t, id) /\ ClientOf[t] \in Client
    BY <1>4, ServingFits DEF ServeCancel, Serving, InHand, HarnessInv
  <2>2. id \in DOMAIN db.tickets /\ IsLive(id)
    BY <2>1 DEF HarnessInv, HandsAreLive
  <2>3. AnyCancel(id, ClientOf[t]) \/ UNCHANGED vars
    BY <1>4 DEF ServeCancel, AnyCancel, dbVars, vars
  <2>4. QED
    BY <2>1, <2>2, <2>3 DEF FaultyTierNext, TierNext, FirstCancelCalls, AnyCancel
<1>5. CASE UNCHANGED harnessVars
  BY <1>5 DEF harnessVars, serverVars, dbVars, vars
<1>6. QED
  BY <1>1, <1>2, <1>3, <1>4, <1>5 DEF HarnessNext, Handle

\* No handler ends in an exception.
NothingFails == [][\A t \in Task : ~Crash(t)]_serverVars

\* As long as none does, no cancellation is cut short.
LEMMA WorkersTakeWholeSteps ==
  ASSUME HarnessInv, [HarnessNext]_harnessVars,
         [\A t \in Task : ~Crash(t)]_serverVars
  PROVE  [TierNext]_vars
<1>1. CASE UNCHANGED serverVars
  BY <1>1 DEF serverVars, dbVars, vars
<1>2. ASSUME NEW t \in Task, ServeCancel(t), ~Crash(t)
      PROVE  [TierNext]_vars
  <2> DEFINE id == request[t].ticket_id
  <2>1. InHand(t, id) /\ ClientOf[t] \in Client
    BY <1>2, ServingFits DEF ServeCancel, Serving, InHand, HarnessInv
  <2>2. id \in DOMAIN db.tickets /\ IsLive(id)
    BY <2>1 DEF HarnessInv, HandsAreLive
  <2>3. Cancel(id, ClientOf[t]) \/ UNCHANGED vars
    BY <1>2 DEF ServeCancel, dbVars, vars
  <2>4. QED
    BY <2>1, <2>2, <2>3 DEF TierNext, FirstCancelCalls
<1>3. ASSUME NEW t \in Task, Serve(t)
      PROVE  ServeBookTier(t) \/ ServeCancel(t)
  BY <1>3 DEF Serve, ServeHold, ServeBook, ServeRelease, ServeBookTierSeat, Serving,
              HarnessInv, Workers
<1>4. ASSUME NEW t \in Task, ServeBookTier(t)
      PROVE  [TierNext]_vars
  <2>1. request[t].tier \in Tier \cup {Unknown} /\ ClientOf[t] \in Client
    BY <1>4, ServingFits DEF ServeBookTier, HarnessInv
  <2>2. QED
    BY <1>4, <2>1 DEF ServeBookTier, TierNext, TierCalls
<1>5. ASSUME NEW t \in Task, WorkerStep(t) \/ TimeIsUp(t) \/ GetLock(t) \/ GiveUp(t)
      PROVE  UNCHANGED vars
  BY <1>5 DEF WorkerStep, SendBook, KeepTicket, SendCancel, CancelAnswered, Receive,
              TimeIsUp, GetLock, GiveUp, serverVars, dbVars, vars
<1>6. CASE HarnessNext /\ \A t \in Task : ~Crash(t)
  BY <1>2, <1>3, <1>4, <1>5, <1>6 DEF HarnessNext, Handle
<1>7. QED
  BY <1>1, <1>6 DEF harnessVars

-----------------------------------------------------------------------------
(* Hands. *)

LEMMA AnswerEffect ==
  ASSUME ServerInv, NEW t \in Task, NEW code, NEW id, Answer(t, code, id)
  PROVE  /\ DOMAIN request' = Task /\ request'[t] = NoRequest
         /\ reply'[t].code = code /\ reply'[t].ticket_id = id
         /\ \A u \in Task : u # t => request'[u] = request[u] /\ reply'[u] = reply[u]
<1> DEFINE status == IF id = None THEN "none" ELSE db'.tickets[id].status
<1>1. DOMAIN request = Task /\ DOMAIN reply = Task
  BY DEF ServerInv, Connections
<1>2. /\ request' = [request EXCEPT ![t] = NoRequest]
      /\ reply' = [reply EXCEPT ![t] = [code |-> code, ticket_id |-> id, status |-> status]]
  BY DEF Answer
<1> HIDE DEF status
<1>3. QED
  BY <1>1, <1>2

\* A step of one worker keeps hands apart and live when it lets the tickets in
\* other hands live, and takes only new tickets.
LEMMA HandsStep ==
  ASSUME HarnessInv, NEW t \in Task,
         \A u \in Task : u # t =>
           pc'[u] = pc[u] /\ request'[u] = request[u] /\ reply'[u] = reply[u],
         \A u \in Task : \A id : u # t /\ InHand(u, id) =>
           id \in DOMAIN db'.tickets /\ db'.tickets[id].status # "cancelled",
         \A id : InHand(t, id)' =>
           /\ id \in DOMAIN db'.tickets /\ db'.tickets[id].status # "cancelled"
           /\ InHand(t, id) \/ id \notin DOMAIN db.tickets
  PROVE  HandsAreApart' /\ HandsAreLive'
<1>1. \A u \in Task : \A id : u # t => (InHand(u, id)' <=> InHand(u, id))
  BY DEF InHand
<1>2. HandsAreLive'
  BY <1>1 DEF HandsAreLive, IsLive
<1>3. ASSUME NEW u \in Task, u # t, NEW id, InHand(u, id)', InHand(t, id)'
      PROVE  FALSE
  <2>1. InHand(u, id)
    BY <1>1, <1>3
  <2>2. id \in DOMAIN db.tickets
    BY <2>1 DEF HarnessInv, HandsAreLive
  <2>3. InHand(t, id)
    BY <1>3, <2>2
  <2>4. QED
    BY <1>3, <2>1, <2>2, <2>3 DEF HarnessInv, HandsAreApart
<1>4. ASSUME NEW a \in Task, NEW b \in Task, a # t, b # t,
             NEW id, InHand(a, id)', InHand(b, id)'
      PROVE  a = b
  <2>1. InHand(a, id) /\ InHand(b, id)
    BY <1>1, <1>4
  <2>2. id \in DOMAIN db.tickets
    BY <2>1 DEF HarnessInv, HandsAreLive
  <2>3. QED
    BY <2>1, <2>2 DEF HarnessInv, HandsAreApart
<1>5. HandsAreApart'
  BY <1>3, <1>4 DEF HandsAreApart
<1>6. QED
  BY <1>2, <1>5

\* The tickets in hand are tickets, and not cancelled.
LEMMA InHandIsLive ==
  ASSUME HarnessInv
  PROVE  \A u \in Task : \A id : InHand(u, id) =>
           id \in DOMAIN db.tickets /\ db.tickets[id].status # "cancelled"
BY DEF HarnessInv, HandsAreLive, IsLive

LEMMA WorkerStepKeepsHands ==
  ASSUME HarnessInv, NEW t \in Task, WorkerStep(t)
  PROVE  Workers' /\ HandsAreApart' /\ HandsAreLive'
<1>1. /\ ServerInv /\ DOMAIN pc = Task /\ DOMAIN request = Task /\ DOMAIN reply = Task
      /\ \A u \in Task : /\ request[u].cmd \in {"none", "BOOK_TIER", "CANCEL"}
                         /\ request[u].cmd = "CANCEL" => pc[u] = "cancelling"
  BY DEF HarnessInv, Workers, ServerInv, Connections
<1>2. NoRequest.cmd = "none" /\ db' = db
  BY DEF NoRequest, WorkerStep, SendBook, KeepTicket, SendCancel, CancelAnswered,
         Receive, serverVars, dbVars
<1>3. \A u \in Task : u # t =>
        pc'[u] = pc[u] /\ request'[u] = request[u] /\ reply'[u] = reply[u]
  BY <1>1 DEF WorkerStep, SendBook, KeepTicket, SendCancel, CancelAnswered,
              Receive, serverVars, NextRound
<1>4. DOMAIN pc' = Task
  BY <1>1 DEF WorkerStep, SendBook, KeepTicket, SendCancel, CancelAnswered, NextRound
<1>5. CASE SendBook(t)
  <2>1. PICK k \in Tier : Receive(t, [cmd |-> "BOOK_TIER", tier |-> k])
    BY <1>5 DEF SendBook
  <2>2. request'[t].cmd = "BOOK_TIER"
    BY <1>1, <2>1 DEF Receive, Numbered
  <2>3. \A id : ~InHand(t, id)'
    BY <1>2, <2>2 DEF InHand
  <2>4. Workers'
    BY <1>1, <1>3, <1>4, <2>2 DEF Workers
  <2>5. QED
    BY <1>2, <1>3, <2>3, <2>4, HandsStep, InHandIsLive
<1>6. CASE KeepTicket(t) \/ CancelAnswered(t)
  <2>1. pc'[t] = "start" /\ request'[t] = NoRequest
    BY <1>1, <1>6 DEF KeepTicket, CancelAnswered, Answered, NextRound, serverVars
  <2>2. \A id : ~InHand(t, id)'
    BY <1>2, <2>1 DEF InHand
  <2>3. Workers'
    BY <1>1, <1>2, <1>3, <1>4, <2>1 DEF Workers
  <2>4. QED
    BY <1>2, <1>3, <2>2, <2>3, HandsStep, InHandIsLive
<1>7. CASE SendCancel(t)
  <2>1. /\ request'[t].cmd = "CANCEL" /\ request'[t].ticket_id = reply[t].ticket_id
        /\ pc'[t] = "cancelling"
    BY <1>1, <1>7 DEF SendCancel, Receive, Numbered
  <2>2. InHand(t, reply[t].ticket_id)
    BY <1>7 DEF SendCancel, Answered, InHand
  <2>3. \A id : InHand(t, id)' => InHand(t, id)
    BY <1>2, <2>1, <2>2 DEF InHand
  <2>4. Workers'
    BY <1>1, <1>3, <1>4, <2>1 DEF Workers
  <2>5. QED
    BY <1>2, <1>3, <2>3, <2>4, HandsStep, InHandIsLive
<1>8. QED
  BY <1>5, <1>6, <1>7 DEF WorkerStep

LEMMA HandleKeepsHands ==
  ASSUME HarnessInv, NEW t \in Task, Handle(t), UNCHANGED pc
  PROVE  Workers' /\ HandsAreApart' /\ HandsAreLive'
<1>1. /\ ServerInv /\ QueueInv /\ DOMAIN pc = Task
      /\ \A u \in Task : /\ request[u].cmd \in {"none", "BOOK_TIER", "CANCEL"}
                         /\ request[u].cmd = "CANCEL" => pc[u] = "cancelling"
  BY DEF HarnessInv, Workers, ServerInv
<1>2. NoRequest.cmd = "none"
  BY DEF NoRequest
<1>3. CASE TimeIsUp(t) \/ GetLock(t)
  <2>1. db' = db /\ request' = request /\ reply' = reply /\ pc' = pc
    BY <1>3 DEF TimeIsUp, GetLock, dbVars
  <2>2. Workers'
    BY <1>1, <2>1 DEF Workers
  <2>3. HandsAreApart' /\ HandsAreLive'
    BY <2>1 DEF HarnessInv, HandsAreApart, HandsAreLive, InHand, IsLive
  <2>4. QED
    BY <2>2, <2>3
<1>4. ASSUME NEW code, NEW id, Answer(t, code, id)
      PROVE  /\ Workers'
             /\ \A u \in Task : u # t =>
                  pc'[u] = pc[u] /\ request'[u] = request[u] /\ reply'[u] = reply[u]
             /\ \A x : InHand(t, x)' => code = "OK" /\ x = id /\ pc[t] = "booking"
  <2>1. /\ request'[t] = NoRequest /\ reply'[t].code = code /\ reply'[t].ticket_id = id
        /\ \A u \in Task : u # t => request'[u] = request[u] /\ reply'[u] = reply[u]
    BY <1>1, <1>4, AnswerEffect
  <2>2. Workers'
    BY <1>1, <1>2, <2>1 DEF Workers
  <2>3. \A x : InHand(t, x)' => code = "OK" /\ x = id /\ pc[t] = "booking"
    BY <1>2, <2>1 DEF InHand
  <2>4. QED
    BY <2>1, <2>2, <2>3
<1>5. CASE GiveUp(t)
  <2>1. Answer(t, "LOCK_TIMEOUT", None) /\ db' = db
    BY <1>5 DEF GiveUp, dbVars
  <2>2. QED
    BY <2>1, <1>4, HandsStep, InHandIsLive
<1>6. CASE ServeBookTier(t)
  <2> DEFINE k == request[t].tier  c == ClientOf[t]
  <2>1. k \in Tier \cup {Unknown} /\ c \in Client
    BY <1>1, <1>6, ServingFits DEF ServeBookTier
  <2>2. CASE /\ k # Unknown
             /\ BookByTier(k, c) \/ JoinWaitingList(k, c)
             /\ Succeed(t, NewId) \/ Crash(t)
    <3>1. k \in Tier
      BY <2>1, <2>2
    <3>2. \A u \in DOMAIN db.tickets :
            u \in DOMAIN db'.tickets /\ db'.tickets[u] = db.tickets[u]
      BY <1>1, <2>1, <2>2, <3>1, BookingTouchesNoTicket
    <3>3. /\ NewId \in DOMAIN db'.tickets /\ NewId \notin DOMAIN db.tickets
          /\ db'.tickets[NewId].status # "cancelled"
      BY <1>1, <2>1, <2>2, <3>1, IssuedIsThere
    <3>4. PICK new : new = NewId
      OBVIOUS
    <3>5. CASE Answer(t, "OK", new)
      BY <1>4, <3>2, <3>3, <3>4, <3>5, HandsStep, InHandIsLive
    <3>6. CASE Answer(t, "SERVER_ERROR", None)
      BY <1>4, <3>2, <3>6, HandsStep, InHandIsLive
    <3>7. QED
      BY <2>2, <3>4, <3>5, <3>6 DEF Succeed, Crash
  <2>3. CASE k = Unknown /\ Search /\ Crash(t)
    <3>1. Answer(t, "SERVER_ERROR", None) /\ db'.tickets = db.tickets
      BY <1>1, <2>3, CurrentTickets DEF Crash, Search, QueueInv
    <3>2. QED
      BY <1>4, <3>1, HandsStep, InHandIsLive
  <2>4. QED
    BY <1>6, <2>2, <2>3 DEF ServeBookTier
<1>7. CASE ServeCancel(t)
  <2>1. PICK id : id = request[t].ticket_id
    OBVIOUS
  <2>2. id \in DOMAIN db.tickets /\ ClientOf[t] \in Client
    BY <1>1, <1>7, <2>1, ServingFits DEF ServeCancel
  <2>3. request[t].cmd = "CANCEL"
    BY <1>7 DEF ServeCancel, Serving
  <2>4. ASSUME NEW code, NEW told, AnyCancel(id, ClientOf[t]), Answer(t, code, told)
        PROVE  HandsAreApart' /\ HandsAreLive' /\ Workers'
    <3>1. \A x : ~InHand(t, x)'
      BY <1>1, <1>4, <2>3, <2>4
    <3>2. \A u \in Task : \A x : u # t /\ InHand(u, x) => x # id
      BY <2>1, <2>2, <2>3 DEF HarnessInv, HandsAreApart, InHand
    <3>3. \A u \in Task : \A x : u # t /\ InHand(u, x) =>
            x \in DOMAIN db'.tickets /\ db'.tickets[x].status # "cancelled"
      BY <1>1, <2>2, <2>4, <3>2, CancelSparesOthers, InHandIsLive DEF IsLive
    <3>4. QED
      BY <1>4, <2>4, <3>1, <3>3, HandsStep
  <2>5. CASE UNCHANGED dbVars /\ Answer(t, "CANCEL_FAILED", None)
    BY <1>4, <2>5, HandsStep, InHandIsLive DEF dbVars
  <2>6. QED
    BY <1>7, <2>1, <2>4, <2>5 DEF ServeCancel, AnyCancel, Succeed, Fail, Crash
<1>8. ~ServeHold(t) /\ ~ServeBook(t) /\ ~ServeRelease(t) /\ ~ServeBookTierSeat(t)
  BY <1>1 DEF ServeHold, ServeBook, ServeRelease, ServeBookTierSeat, Serving
<1>9. QED
  BY <1>3, <1>5, <1>6, <1>7, <1>8 DEF Handle, Serve

LEMMA HarnessInvStep ==
  HarnessInv /\ [HarnessNext]_harnessVars => HarnessInv'
<1> SUFFICES ASSUME HarnessInv, [HarnessNext]_harnessVars PROVE HarnessInv'
  OBVIOUS
<1>1. ServerInv'
  BY WorkersAreClients, ServerInvStep DEF HarnessInv
<1>2. CASE UNCHANGED harnessVars
  <2>1. db' = db /\ request' = request /\ reply' = reply /\ pc' = pc
    BY <1>2 DEF harnessVars, serverVars, dbVars
  <2>2. QED
    BY <1>1, <2>1 DEF HarnessInv, Workers, HandsAreApart, HandsAreLive, InHand, IsLive
<1>3. CASE HarnessNext
  BY <1>1, <1>3, WorkerStepKeepsHands, HandleKeepsHands DEF HarnessNext, HarnessInv
<1>4. QED
  BY <1>2, <1>3

-----------------------------------------------------------------------------
(* What the workers count.                                                 *)

Total(f, S) == FoldFunctionOnSet(+, 0, f, S)

\* FoldFunctionOnSet adds up the sizes of disjoint sets: it is the size of their
\* union.  Otherwise there would be a smallest set of indices where it is not.
LEMMA SumOfSizes ==
  ASSUME NEW S, IsFiniteSet(S), NEW T, IsFiniteSet(T), NEW f, NEW W,
         \A t \in S : W[t] \subseteq T /\ Cardinality(W[t]) = f[t],
         \A t, u \in S : t # u => W[t] \cap W[u] = {}
  PROVE  Total(f, S) = Cardinality(UNION {W[t] : t \in S})
<1> DEFINE x(s) == CHOOSE y \in s : TRUE
           U(s) == UNION {W[t] : t \in s}
           Eq(g) == g = [s \in SUBSET S |->
                           IF s = {} THEN 0 ELSE f[x(s)] + g[s \ {x(s)}]]
           M == [s \in SUBSET S |-> Cardinality(U(s))]
<1>1. Total(f, S) = (CHOOSE g : Eq(g))[S]
  BY DEF Total, FoldFunctionOnSet, MapThenFoldSet
<1>2. \A s \in SUBSET S : s # {} => x(s) \in s
  OBVIOUS
<1>3. \A s \in SUBSET S : IsFiniteSet(s) /\ IsFiniteSet(U(s))
  <2> SUFFICES ASSUME NEW s \in SUBSET S PROVE IsFiniteSet(s) /\ IsFiniteSet(U(s))
    OBVIOUS
  <2>1. U(s) \in SUBSET T
    OBVIOUS
  <2> HIDE DEF U
  <2>2. QED
    BY <2>1, FS_Subset
<1>4. Cardinality(U({})) = 0
  <2>1. U({}) = {}
    OBVIOUS
  <2>2. QED
    BY <2>1, FS_EmptySet
<1>5. ASSUME NEW s \in SUBSET S, s # {}
      PROVE  /\ s \ {x(s)} \in SUBSET S
             /\ Cardinality(U(s)) = f[x(s)] + Cardinality(U(s \ {x(s)}))
  <2> DEFINE y == x(s)
             rest == s \ {y}
  <2>1. y \in s
    BY <1>2, <1>5
  <2> HIDE DEF y
  <2>2. rest \in SUBSET S /\ y \in S
    BY <2>1
  <2>3. U(s) = W[y] \cup U(rest)
    BY <2>1
  <2>4. W[y] \cap U(rest) = {}
    BY <2>1
  <2>5. IsFiniteSet(W[y]) /\ Cardinality(W[y]) = f[y]
    BY <2>2, FS_Subset
  <2>6. IsFiniteSet(U(rest))
    BY <1>3, <2>2
  <2> HIDE DEF U, rest
  <2>7. /\ Cardinality(U(s)) =
             Cardinality(W[y]) + Cardinality(U(rest)) - Cardinality({})
    BY <2>3, <2>4, <2>5, <2>6, FS_Union
  <2>8. Cardinality({}) = 0 /\ Cardinality(W[y]) \in Nat /\ Cardinality(U(rest)) \in Nat
    BY <2>5, <2>6, FS_EmptySet, FS_CardinalityType
  <2>9. Cardinality(U(s)) = f[y] + Cardinality(U(rest))
    BY <2>5, <2>7, <2>8
  <2>10. QED
    BY <2>2, <2>9 DEF rest, y
<1> HIDE DEF x, U
<1>6. Eq(M)
  <2>1. \A s \in SUBSET S :
          M[s] = IF s = {} THEN 0 ELSE f[x(s)] + M[s \ {x(s)}]
    BY <1>4, <1>5
  <2>2. M = [s \in SUBSET S |-> M[s]]
    OBVIOUS
  <2> HIDE DEF M
  <2>3. QED
    BY <2>1, <2>2
<1>7. ASSUME NEW g, Eq(g) PROVE g = M
  <2>1. /\ DOMAIN g = SUBSET S /\ g = [s \in DOMAIN g |-> g[s]]
        /\ \A s \in SUBSET S : g[s] = IF s = {} THEN 0 ELSE f[x(s)] + g[s \ {x(s)}]
    BY <1>7
  <2>2. /\ DOMAIN M = SUBSET S /\ M = [s \in DOMAIN M |-> M[s]]
        /\ \A s \in SUBSET S : M[s] = IF s = {} THEN 0 ELSE f[x(s)] + M[s \ {x(s)}]
    BY <1>4, <1>5
  <2> HIDE DEF M, Eq
  <2>3. ASSUME NEW s \in SUBSET S, g[s] # M[s] PROVE FALSE
    <3> DEFINE Wrong == {n \in Nat : \E r \in SUBSET S :
                                       Cardinality(r) = n /\ g[r] # M[r]}
    <3>1. Cardinality(s) \in Wrong
      BY <1>3, <2>3, FS_CardinalityType
    <3>2. PICK n \in Wrong : \A m \in Wrong : n <= m
      <4>1. Wrong \in SUBSET Nat /\ Wrong # {}
        BY <3>1
      <4> HIDE DEF Wrong
      <4>2. QED
        BY <4>1, MinIsElement
    <3>3. PICK r \in SUBSET S : Cardinality(r) = n /\ g[r] # M[r]
      BY <3>2
    <3>4. r # {}
      BY <2>1, <2>2, <3>3
    <3> DEFINE q == r \ {x(r)}
    <3>5. q \in SUBSET S /\ x(r) \in r
      BY <1>2, <3>4
    <3>6. g[q] # M[q]
      BY <2>1, <2>2, <3>3, <3>4
    <3>7. Cardinality(q) = Cardinality(r) - 1
      BY <1>3, <3>5, FS_RemoveElement
    <3>8. Cardinality(q) \in Nat
      BY <1>3, <3>5, FS_CardinalityType
    <3> HIDE DEF q
    <3>9. Cardinality(q) \in Wrong
      BY <3>5, <3>6, <3>8
    <3>10. n <= Cardinality(q) /\ n \in Nat
      BY <3>2, <3>9
    <3>11. QED
      BY <3>3, <3>7, <3>8, <3>10
  <2>4. QED
    BY <2>1, <2>2, <2>3
<1>8. M[S] = Cardinality(U(S))
  OBVIOUS
<1> HIDE DEF Eq, M
<1>9. (CHOOSE g : Eq(g)) = M
  BY <1>6, <1>7
<1>10. QED
  BY <1>1, <1>8, <1>9 DEF U

\* Worker t has the answer to a booking, and has not counted it yet.
Uncounted(t) ==
  pc[t] = "booking" /\ request[t] = NoRequest /\ reply[t].status = "confirmed"

HadSeat(t) ==
  {id \in DOMAIN db.tickets :
     db.tickets[id].client_id = ClientOf[t] /\ db.tickets[id].seat_id # None}

\* W[t] are the tickets that worker t has counted.
Tally(W) ==
  /\ \A t \in Task : W[t] \subseteq HadSeat(t) /\ Cardinality(W[t]) = success[t]
  /\ \A t, u \in Task : t # u => W[t] \cap W[u] = {}
  /\ \A t, u \in Task : Uncounted(t) => reply[t].ticket_id \notin W[u]

CountInv ==
  /\ success \in [Task -> Nat]
  /\ \A t \in Task :
       Uncounted(t) => reply[t].code = "OK" /\ reply[t].ticket_id \in HadSeat(t)
  /\ \E W : Tally(W)

\* A ticket keeps its client, and once it has had a seat it names one.
TicketsStay ==
  \A u \in DOMAIN db.tickets :
    /\ u \in DOMAIN db'.tickets
    /\ db'.tickets[u].client_id = db.tickets[u].client_id
    /\ db.tickets[u].seat_id # None => db'.tickets[u].seat_id # None

LEMMA CancelLetsTicketsStay ==
  ASSUME QueueInv, NEW id \in DOMAIN db.tickets, NEW c \in Client, AnyCancel(id, c)
  PROVE  TicketsStay
<1> DEFINE k == db.tickets[id].tier
           s == db.tickets[id].seat_id
           d == Cancelled(id)
<1>1. d = CancelTicketNoLog(db, id, k, s) /\ IsDB(db)
  BY DEF Cancelled, QueueInv, TypeOK
<1> HIDE DEF k, d
<1>2. /\ DOMAIN d.tickets = DOMAIN db.tickets
      /\ d.tickets[id].client_id = db.tickets[id].client_id
      /\ d.tickets[id].seat_id = db.tickets[id].seat_id
      /\ \A u \in DOMAIN db.tickets : u # id => d.tickets[u] = db.tickets[u]
  BY <1>1, CancelMeaning
<1>3. CASE CancelOnly(id, c)
  BY <1>2, <1>3 DEF CancelOnly, d, TicketsStay
<1>4. CASE CancelTicketAndPromote(id, c)
  <2> DEFINE p == Head(d.waiting_lists[k])
             e == PromoteTicketNoLog(d, p, k, s)
  <2>1. MustPromote(id) /\ db' = e
    BY <1>4 DEF CancelTicketAndPromote, d, k
  <2>2. p \in DOMAIN d.tickets /\ IsDB(d) /\ s # None
    BY <2>1, PromotedWaits, CancelStaysInStep DEF d, k, MustPromote
  <2> HIDE DEF p, e
  <2>3. /\ DOMAIN e.tickets = DOMAIN d.tickets
        /\ e.tickets[p].client_id = d.tickets[p].client_id
        /\ e.tickets[p].seat_id = s
        /\ \A u \in DOMAIN d.tickets : u # p => e.tickets[u] = d.tickets[u]
    BY <2>2, PromoteMeaning DEF e
  <2>4. QED
    BY <1>2, <2>1, <2>2, <2>3 DEF TicketsStay
<1>5. QED
  BY <1>3, <1>4, CancelForms

\* What the invariant allows the steps of worker t to change.
OthersWait(t) ==
  \A u \in Task : u # t =>
    pc'[u] = pc[u] /\ request'[u] = request[u] /\ reply'[u] = reply[u]

LEMMA TicketsStayHad ==
  ASSUME TicketsStay
  PROVE  \A t \in Task : HadSeat(t) \subseteq HadSeat(t)'
BY DEF TicketsStay, HadSeat

\* Nothing is counted, and what t is told of is a new ticket, or nothing.
LEMMA NothingCounted ==
  ASSUME CountInv, HarnessInv, NEW t \in Task, OthersWait(t), TicketsStay,
         UNCHANGED success,
         Uncounted(t)' =>
           /\ reply'[t].code = "OK" /\ reply'[t].ticket_id \in HadSeat(t)'
           /\ reply'[t].ticket_id \notin DOMAIN db.tickets
  PROVE  CountInv'
<1>1. \A u \in Task : u # t => (Uncounted(u)' <=> Uncounted(u))
  BY DEF OthersWait, Uncounted
<1>2. PICK W : Tally(W)
  BY DEF CountInv
<1>3. \A u \in Task : HadSeat(u) \subseteq HadSeat(u)'
  BY TicketsStayHad
<1>4. \A u \in Task :
        Uncounted(u)' =>
          reply'[u].code = "OK" /\ reply'[u].ticket_id \in HadSeat(u)'
  BY <1>1, <1>3 DEF OthersWait, CountInv
<1>5. \A u \in Task : W[u] \subseteq DOMAIN db.tickets
  BY <1>2 DEF Tally, HadSeat
<1>6. \A u, v \in Task : Uncounted(u)' => reply'[u].ticket_id \notin W[v]
  <2> SUFFICES ASSUME NEW u \in Task, NEW v \in Task, Uncounted(u)'
               PROVE  reply'[u].ticket_id \notin W[v]
    OBVIOUS
  <2>1. CASE u = t
    BY <1>5, <2>1
  <2>2. CASE u # t
    BY <1>1, <1>2, <2>2 DEF OthersWait, Tally
  <2>3. QED
    BY <2>1, <2>2
<1>7. /\ \A u \in Task : W[u] \subseteq HadSeat(u)' /\ Cardinality(W[u]) = success'[u]
      /\ \A u, v \in Task : u # v => W[u] \cap W[v] = {}
  BY <1>2, <1>3 DEF Tally
<1>8. Tally(W)'
  BY <1>6, <1>7 DEF Tally
<1>9. QED
  BY <1>4, <1>8 DEF CountInv

\* The answer to a booking is counted.
LEMMA AnswerCounted ==
  ASSUME CountInv, HarnessInv, NEW t \in Task, OthersWait(t), db' = db,
         Answered(t, "booking"), Counted(t), ~Uncounted(t)'
  PROVE  CountInv'
<1>1. TicketsStay
  BY DEF TicketsStay
<1>2. CASE reply[t].status # "confirmed"
  <2>1. success' = success
    BY <1>2 DEF Counted, CountInv
  <2>2. QED
    BY <1>1, <2>1, NothingCounted
<1>3. CASE reply[t].status = "confirmed"
  <2>1. Uncounted(t)
    BY <1>3 DEF Uncounted, Answered
  <2>2. PICK W : Tally(W)
    BY DEF CountInv
  <2>3. PICK id : id = reply[t].ticket_id
    OBVIOUS
  <2>4. id \in HadSeat(t) /\ reply[t].code = "OK"
    BY <2>1, <2>3 DEF CountInv
  <2>5. InHand(t, id) /\ id \in DOMAIN db.tickets
    BY <2>3, <2>4 DEF InHand, Answered, HadSeat
  <2>6. \A u \in Task : id \notin W[u]
    BY <2>1, <2>2, <2>3 DEF Tally
  <2>7. PICK V : V = [u \in Task |-> IF u = t THEN W[u] \cup {id} ELSE W[u]]
    OBVIOUS
  <2>8. V[t] = W[t] \cup {id} /\ \A u \in Task : u # t => V[u] = W[u]
    BY <2>7
  <2>9. Cardinality(V[t]) = success[t] + 1
    <3>1. IsFiniteSet(W[t])
      <4>1. W[t] \in SUBSET DOMAIN db.tickets
        BY <2>2 DEF Tally, HadSeat
      <4>2. IsFiniteSet(DOMAIN db.tickets)
        BY DEF HarnessInv, ServerInv, QueueInv, TypeOK, IsDB
      <4>3. QED
        BY <4>1, <4>2, FS_Subset
    <3>2. id \notin W[t] /\ Cardinality(W[t]) = success[t]
      BY <2>2, <2>6 DEF Tally
    <3>3. QED
      BY <2>8, <3>1, <3>2, FS_AddElement
  <2>10. /\ success' \in [Task -> Nat] /\ success'[t] = success[t] + 1
         /\ \A u \in Task : u # t => success'[u] = success[u]
    BY <1>3 DEF Counted, CountInv
  <2>11. \A u \in Task : HadSeat(u)' = HadSeat(u)
    BY DEF HadSeat
  <2>12. \A u \in Task : Uncounted(u)' =>
           u # t /\ Uncounted(u) /\ reply'[u] = reply[u]
    BY DEF OthersWait, Uncounted
  <2>13. \A u \in Task : Uncounted(u)' =>
           /\ reply'[u].code = "OK" /\ reply'[u].ticket_id \in HadSeat(u)'
           /\ reply'[u].ticket_id # id
    <3> SUFFICES ASSUME NEW u \in Task, Uncounted(u)'
                 PROVE  /\ reply'[u].code = "OK" /\ reply'[u].ticket_id \in HadSeat(u)'
                        /\ reply'[u].ticket_id # id
      OBVIOUS
    <3>1. u # t /\ Uncounted(u) /\ reply'[u] = reply[u]
      BY <2>12
    <3>2. reply[u].code = "OK" /\ reply[u].ticket_id \in HadSeat(u)
      BY <3>1 DEF CountInv
    <3>3. InHand(u, reply[u].ticket_id)
      BY <3>1, <3>2 DEF InHand, Uncounted
    <3>4. reply[u].ticket_id # id
      BY <2>5, <3>1, <3>3 DEF HarnessInv, HandsAreApart
    <3>5. QED
      BY <2>11, <3>1, <3>2, <3>4
  <2>14. \A u \in Task : V[u] \subseteq HadSeat(u)' /\ Cardinality(V[u]) = success'[u]
    <3>1. V[t] \subseteq HadSeat(t)'
      BY <2>2, <2>4, <2>8, <2>11 DEF Tally
    <3>2. QED
      BY <2>2, <2>8, <2>9, <2>10, <2>11, <3>1 DEF Tally
  <2>15. \A u, v \in Task : u # v => V[u] \cap V[v] = {}
    BY <2>2, <2>6, <2>8 DEF Tally
  <2>16. \A u, v \in Task : Uncounted(u)' => reply'[u].ticket_id \notin V[v]
    BY <2>2, <2>8, <2>12, <2>13 DEF Tally
  <2>17. Tally(V)'
    BY <2>14, <2>15, <2>16 DEF Tally
  <2>18. QED
    BY <2>10, <2>13, <2>17 DEF CountInv
<1>4. QED
  BY <1>2, <1>3

LEMMA WorkerStepKeepsCount ==
  ASSUME HarnessInv, CountInv, NEW t \in Task, WorkerStep(t)
  PROVE  CountInv'
<1>1. DOMAIN pc = Task /\ DOMAIN request = Task /\ DOMAIN reply = Task
  BY DEF HarnessInv, Workers, ServerInv, Connections
<1>2. db' = db /\ NoRequest.cmd = "none"
  BY DEF NoRequest, WorkerStep, SendBook, KeepTicket, SendCancel, CancelAnswered,
         Receive, serverVars, dbVars
<1>3. OthersWait(t)
  BY <1>1 DEF OthersWait, WorkerStep, SendBook, KeepTicket, SendCancel, CancelAnswered,
              Receive, serverVars, NextRound
<1>4. TicketsStay
  BY <1>2 DEF TicketsStay
<1>5. ~Uncounted(t)'
  <2>1. CASE SendBook(t)
    <3>1. PICK k \in Tier : Receive(t, [cmd |-> "BOOK_TIER", tier |-> k])
      BY <2>1 DEF SendBook
    <3>2. request'[t].cmd = "BOOK_TIER"
      BY <1>1, <3>1 DEF Receive, Numbered
    <3>3. QED
      BY <1>2, <3>2 DEF Uncounted
  <2>2. CASE KeepTicket(t) \/ CancelAnswered(t)
    BY <1>1, <2>2 DEF KeepTicket, CancelAnswered, NextRound, Uncounted
  <2>3. CASE SendCancel(t)
    BY <1>1, <2>3 DEF SendCancel, Uncounted
  <2>4. QED
    BY <2>1, <2>2, <2>3 DEF WorkerStep
<1>6. CASE SendBook(t) \/ CancelAnswered(t)
  <2>1. success' = success
    BY <1>6 DEF SendBook, CancelAnswered
  <2>2. QED
    BY <1>3, <1>4, <1>5, <2>1, NothingCounted
<1>7. CASE KeepTicket(t) \/ SendCancel(t)
  <2>1. Answered(t, "booking") /\ Counted(t)
    BY <1>7 DEF KeepTicket, SendCancel
  <2>2. QED
    BY <1>2, <1>3, <1>5, <2>1, AnswerCounted
<1>8. QED
  BY <1>6, <1>7 DEF WorkerStep

LEMMA HandleKeepsCount ==
  ASSUME HarnessInv, HarnessInv', CountInv, NEW t \in Task, Handle(t),
         UNCHANGED <<pc, rounds, success>>
  PROVE  CountInv'
<1>1. /\ ServerInv /\ QueueInv
      /\ \A u \in Task : /\ request[u].cmd \in {"none", "BOOK_TIER", "CANCEL"}
                         /\ request[u].cmd = "CANCEL" => pc[u] = "cancelling"
  BY DEF HarnessInv, Workers, ServerInv
<1>2. CASE TimeIsUp(t) \/ GetLock(t)
  <2>1. db' = db /\ request' = request /\ reply' = reply /\ pc' = pc /\ success' = success
    BY <1>2 DEF TimeIsUp, GetLock, dbVars
  <2>2. QED
    BY <2>1 DEF CountInv, Tally, Uncounted, HadSeat
<1>3. ASSUME NEW code, NEW id, Answer(t, code, id)
      PROVE  /\ OthersWait(t)
             /\ reply'[t].code = code /\ reply'[t].ticket_id = id
             /\ reply'[t].status = IF id = None THEN "none" ELSE db'.tickets[id].status
  <2>1. /\ reply'[t].code = code /\ reply'[t].ticket_id = id
        /\ \A u \in Task : u # t => request'[u] = request[u] /\ reply'[u] = reply[u]
    BY <1>1, <1>3, AnswerEffect
  <2>2. reply'[t].status = IF id = None THEN "none" ELSE db'.tickets[id].status
    <3> DEFINE status == IF id = None THEN "none" ELSE db'.tickets[id].status
    <3>1. reply' = [reply EXCEPT ![t] =
                      [code |-> code, ticket_id |-> id, status |-> status]]
      BY <1>3 DEF Answer
    <3>2. DOMAIN reply = Task
      BY <1>1 DEF ServerInv, Connections
    <3> HIDE DEF status
    <3>3. reply'[t].status = status
      BY <3>1, <3>2
    <3>4. QED
      BY <3>3 DEF status
  <2>3. QED
    BY <2>1, <2>2 DEF OthersWait
\* An answer without a ticket.
<1>4. ASSUME NEW code, Answer(t, code, None), TicketsStay
      PROVE  CountInv'
  <2>1. OthersWait(t) /\ reply'[t].status = "none"
    BY <1>3, <1>4
  <2>2. QED
    BY <1>4, <2>1, NothingCounted DEF Uncounted
<1>5. CASE GiveUp(t)
  BY <1>4, <1>5 DEF GiveUp, dbVars, TicketsStay
<1>6. CASE ServeBookTier(t)
  <2> DEFINE k == request[t].tier  c == ClientOf[t]
  <2>1. k \in Tier \cup {Unknown} /\ c \in Client
    BY <1>1, <1>6, ServingFits DEF ServeBookTier
  <2>2. CASE /\ k # Unknown
             /\ BookByTier(k, c) \/ JoinWaitingList(k, c)
             /\ Succeed(t, NewId) \/ Crash(t)
    <3>1. k \in Tier
      BY <2>1, <2>2
    <3>2. TicketsStay
      BY <1>1, <2>1, <2>2, <3>1, BookingTouchesNoTicket DEF TicketsStay
    <3>3. PICK new : new = NewId
      OBVIOUS
    <3>4. /\ new \in DOMAIN db'.tickets /\ new \notin DOMAIN db.tickets
          /\ db'.tickets[new].client_id = c
      BY <1>1, <2>1, <2>2, <3>1, <3>3, IssuedIsThere
    <3>5. CASE Answer(t, "OK", new)
      <4>1. /\ OthersWait(t)
            /\ reply'[t].code = "OK" /\ reply'[t].ticket_id = new
            /\ reply'[t].status = IF new = None THEN "none" ELSE db'.tickets[new].status
        BY <1>3, <3>5
      <4>2. db'.tickets[new].status = "confirmed" => db'.tickets[new].seat_id # None
        BY <3>4 DEF HarnessInv, ServerInv, QueueInv, ListsAreInStep, SeatsFit
      <4>3. Uncounted(t)' => new \in HadSeat(t)'
        BY <3>4, <4>1, <4>2 DEF Uncounted, HadSeat
      <4>4. QED
        BY <3>2, <3>4, <4>1, <4>3, NothingCounted
    <3>6. CASE Answer(t, "SERVER_ERROR", None)
      BY <1>4, <3>2, <3>6
    <3>7. QED
      BY <2>2, <3>3, <3>5, <3>6 DEF Succeed, Crash
  <2>3. CASE k = Unknown /\ Search /\ Crash(t)
    <3>1. Answer(t, "SERVER_ERROR", None) /\ db'.tickets = db.tickets
      BY <1>1, <2>3, CurrentTickets DEF Crash, Search, QueueInv
    <3>2. QED
      BY <1>4, <3>1 DEF TicketsStay
  <2>4. QED
    BY <1>6, <2>2, <2>3 DEF ServeBookTier
<1>7. CASE ServeCancel(t)
  <2>1. PICK id : id = request[t].ticket_id
    OBVIOUS
  <2>2. id \in DOMAIN db.tickets /\ ClientOf[t] \in Client
    BY <1>1, <1>7, <2>1, ServingFits DEF ServeCancel
  <2>3. pc'[t] = "cancelling"
    BY <1>1, <1>7 DEF ServeCancel, Serving
  <2>4. ASSUME NEW code, NEW told, AnyCancel(id, ClientOf[t]), Answer(t, code, told)
        PROVE  CountInv'
    <3>1. TicketsStay
      BY <1>1, <2>2, <2>4, CancelLetsTicketsStay
    <3>2. QED
      BY <1>3, <2>3, <2>4, <3>1, NothingCounted DEF Uncounted
  <2>5. CASE UNCHANGED dbVars /\ Answer(t, "CANCEL_FAILED", None)
    BY <1>4, <2>5 DEF dbVars, TicketsStay
  <2>6. QED
    BY <1>7, <2>1, <2>4, <2>5 DEF ServeCancel, AnyCancel, Succeed, Fail, Crash
<1>8. ~ServeHold(t) /\ ~ServeBook(t) /\ ~ServeRelease(t) /\ ~ServeBookTierSeat(t)
  BY <1>1 DEF ServeHold, ServeBook, ServeRelease, ServeBookTierSeat, Serving
<1>9. QED
  BY <1>2, <1>5, <1>6, <1>7, <1>8 DEF Handle, Serve

LEMMA CountInvInitially == HarnessInit => CountInv
<1> SUFFICES ASSUME HarnessInit PROVE CountInv
  OBVIOUS
<1>1. success \in [Task -> Nat] /\ \A t \in Task : success[t] = 0
  BY DEF HarnessInit
<1>2. \A t \in Task : ~Uncounted(t)
  BY DEF HarnessInit, Uncounted
<1>3. PICK W : W = [t \in Task |-> {}]
  OBVIOUS
<1>4. Tally(W)
  BY <1>1, <1>2, <1>3, FS_EmptySet DEF Tally
<1>5. QED
  BY <1>1, <1>2, <1>4 DEF CountInv

LEMMA CountInvStep ==
  HarnessInv /\ CountInv /\ [HarnessNext]_harnessVars => CountInv'
<1> SUFFICES ASSUME HarnessInv, CountInv, [HarnessNext]_harnessVars PROVE CountInv'
  OBVIOUS
<1>1. HarnessInv'
  BY HarnessInvStep
<1>2. CASE UNCHANGED harnessVars
  <2>1. /\ db' = db /\ request' = request /\ reply' = reply /\ pc' = pc
        /\ success' = success
    BY <1>2 DEF harnessVars, serverVars, dbVars
  <2>2. QED
    BY <2>1 DEF CountInv, Tally, Uncounted, HadSeat
<1>3. CASE HarnessNext
  BY <1>1, <1>3, WorkerStepKeepsCount, HandleKeepsCount DEF HarnessNext
<1>4. QED
  BY <1>2, <1>3

LEMMA TallyGivesCount ==
  ASSUME HarnessInv, CountInv
  PROVE  CountedBookingsHadSeats
<1>1. PICK W : Tally(W)
  BY DEF CountInv
<1>2. SUFFICES ASSUME NEW c \in Client
      PROVE  LET had == {id \in DOMAIN db.tickets :
                           /\ db.tickets[id].client_id = c
                           /\ db.tickets[id].seat_id # None}
                 mine == {t \in Task : ClientOf[t] = c}
             IN  FoldFunctionOnSet(+, 0, success, mine) <= Cardinality(had)
  BY DEF CountedBookingsHadSeats
<1> DEFINE had == {id \in DOMAIN db.tickets :
                     /\ db.tickets[id].client_id = c
                     /\ db.tickets[id].seat_id # None}
           mine == {t \in Task : ClientOf[t] = c}
           counted == UNION {W[t] : t \in mine}
<1>3. IsFiniteSet(had)
  <2>1. IsFiniteSet(DOMAIN db.tickets)
    BY DEF HarnessInv, ServerInv, QueueInv, TypeOK, IsDB
  <2>2. had \in SUBSET DOMAIN db.tickets
    OBVIOUS
  <2> HIDE DEF had
  <2>3. QED
    BY <2>1, <2>2, FS_Subset
<1>4. IsFiniteSet(mine)
  <2>1. mine \in SUBSET Task
    OBVIOUS
  <2> HIDE DEF mine
  <2>2. QED
    BY <2>1, HarnessAssumption, FS_Subset
<1>5. \A t \in mine : W[t] \subseteq had /\ Cardinality(W[t]) = success[t]
  BY <1>1 DEF Tally, HadSeat
<1>6. \A t, u \in mine : t # u => W[t] \cap W[u] = {}
  BY <1>1 DEF Tally
<1>7. counted \in SUBSET had
  BY <1>5
<1> HIDE DEF had, mine
<1>8. Total(success, mine) = Cardinality(counted)
  BY <1>3, <1>4, <1>5, <1>6, SumOfSizes
<1> HIDE DEF counted
<1>9. Cardinality(counted) <= Cardinality(had)
  BY <1>3, <1>7, FS_Subset
<1>10. QED
  BY <1>8, <1>9 DEF had, mine, Total

-----------------------------------------------------------------------------
(* Theorems about the whole system under the stress harness. *)

\* The inductive invariant.
THEOREM HarnessInvariant == HarnessSpec => []HarnessInv
BY HarnessInvInitially, HarnessInvStep, PTL DEF HarnessSpec

\* Every behaviour of the harness with its server is one of the server.
THEOREM HarnessIsAClient == HarnessSpec => ServerSpec
<1>1. HarnessInit => ServerInit
  BY DEF HarnessInit
<1>2. QED
  BY <1>1, HarnessInvariant, WorkersAreClients, PTL DEF HarnessSpec, ServerSpec

\* Under this load the database sees only bookings by tier, and no ticket is
\* cancelled twice, even when an answer was a timeout or an append failed.
THEOREM ImplementsFaultyTierSpecCorrect == HarnessSpec => ImplementsFaultyTierSpec
<1>1. HarnessInit => Init
  BY DEF HarnessInit, ServerInit
<1>2. QED
  BY <1>1, HarnessInvariant, WorkersTakeTierSteps, PTL
     DEF HarnessSpec, ImplementsFaultyTierSpec, FaultyTierSpec

\* The whole system at once: with any number of workers (client/stress_harness.py)
\* competing for the seats through the request handlers and their locks, and
\* whatever append fails, no seat is sold twice and no sold seat comes free, no
\* ticket comes back to life, and tickets and waiting lists agree.
THEOREM HarnessKeepsSeatsAndTickets ==
  HarnessSpec =>
    /\ []NoDoubleBooking /\ []ConfirmedSeatIsBooked
    /\ TicketLifeCycle /\ []QueuedIffWaiting
<1>1. HarnessSpec => FaultyTierSpec
  BY ImplementsFaultyTierSpecCorrect DEF ImplementsFaultyTierSpec
<1>2. [FaultyTierNext]_vars => [CarefulNext]_vars
  BY DEF CarefulNext
<1>3. FaultyTierSpec => CarefulSpec
  BY <1>2, PTL DEF FaultyTierSpec, CarefulSpec
<1>4. [CarefulNext]_vars => [Next]_vars
  BY DEF Next
<1>5. CarefulSpec => Spec
  BY <1>4, PTL DEF CarefulSpec, Spec
<1>6. QED
  BY <1>1, <1>3, <1>5, NoDoubleBookingCorrect, ConfirmedSeatIsBookedCorrect,
     TicketLifeCycleCorrect, QueuedIffWaitingCorrect, PTL

\* As long as no handler ends in an exception, no seat idles while a ticket waits
\* for it either, nobody is overtaken, and the log has what memory has.
THEOREM HarnessKeepsItsPromises ==
  HarnessSpec /\ NothingFails =>
    /\ []NoIdleSeatWhileWaiting /\ []LogReplaysExactly
    /\ NoOvertaking /\ ImplementsSeatAllocation
<1>1. HarnessInit => Init
  BY DEF HarnessInit, ServerInit
<1>2. HarnessSpec /\ NothingFails => TierSpec
  BY <1>1, HarnessInvariant, WorkersTakeWholeSteps, PTL
     DEF HarnessSpec, NothingFails, TierSpec
<1>3. QED
  BY <1>2, NoIdleSeatWhileWaitingCorrect, LogReplaysExactlyCorrect, NoOvertakingCorrect,
     ImplementsSeatAllocationCorrect, PTL

\* With any number of workers, several of them with one client id included: the
\* workers never count more bookings than there are tickets that had a seat.
THEOREM CountedBookingsHadSeatsCorrect ==
  HarnessSpec => []CountedBookingsHadSeats
<1>1. HarnessSpec => []CountInv
  BY HarnessInvariant, CountInvInitially, CountInvStep, PTL DEF HarnessSpec
<1>2. QED
  BY <1>1, HarnessInvariant, TallyGivesCount, PTL
=============================================================================
