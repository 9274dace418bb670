---------------------------- MODULE LockManager ----------------------------
(***************************************************************************)
(* LockManager (server/lock_manager.py): a dictionary of asyncio locks,    *)
(* one per key, taken with a timeout.  asyncio.Lock and asyncio.wait_for   *)
(* belong to Python's library and are modelled from what acquire and       *)
(* release ask of them: a queue of futures per lock.                       *)
(*                                                                         *)
(*  - A waiting task owns a future: "pending", "done" once release has     *)
(*    woken it, "cancelled" once the timer of wait_for has fired.          *)
(*  - A woken or cancelled task runs only later, when the event loop       *)
(*    resumes it; other tasks take steps in between.                       *)
(*  - A timer that fires between wake-up and resumption does not cancel    *)
(*    the future, but the task still gives the lock up ("expired").        *)
(*                                                                         *)
(* acquire creates a missing lock under _global_lock, whose body never     *)
(* awaits: the creation is part of the step, and every key has a lock.     *)
(***************************************************************************)
EXTENDS Naturals, SequencesExt

CONSTANTS
  Key,    \* lock keys
  Task,   \* request handlers, one per connection
  NoKey   \* the key of a task that is not locking

ASSUME LockAssumption == NoKey \notin Key

VARIABLES
  locks,  \* _locks: key |-> whether it is locked, and its queue of waiters
  task    \* what each task is doing with the lock manager

lockVars == <<locks, task>>

Lock == [locked : BOOLEAN, waiters : Seq(Task)]
TaskRecord == [phase : {"idle", "waiting", "holding"},
               key : Key \cup {NoKey},
               future : {"none", "pending", "done", "cancelled"},
               expired : BOOLEAN]

Idle == [phase |-> "idle", key |-> NoKey, future |-> "none", expired |-> FALSE]
Holding(k) == [Idle EXCEPT !.phase = "holding", !.key = k]
WaitingFor(k) ==
  [Idle EXCEPT !.phase = "waiting", !.key = k, !.future = "pending"]

LockInit ==
  /\ locks = [k \in Key |-> [locked |-> FALSE, waiters |-> <<>>]]
  /\ task = [t \in Task |-> Idle]

-----------------------------------------------------------------------------
\* Mutants: acquire ignores the queue, or whether the lock is taken.
TakesWhenFree(l) == ~l.locked
TakesUnqueued(l) ==
  \A i \in 1..Len(l.waiters) : task[l.waiters[i]].future = "cancelled"

\* Lock.acquire does not wait: nobody has the lock, and nobody is in line
\* whose timer has not fired.
CanTakeAtOnce(l) ==
  /\ ~l.locked
  /\ \A i \in 1..Len(l.waiters) : task[l.waiters[i]].future = "cancelled"

AcquireAtOnce(t, k) ==
  /\ task[t] = Idle
  /\ CanTakeAtOnce(locks[k])
  /\ locks' = [locks EXCEPT ![k].locked = TRUE]
  /\ task' = [task EXCEPT ![t] = Holding(k)]

AcquireWaits(t, k) ==
  /\ task[t] = Idle
  /\ ~CanTakeAtOnce(locks[k])
  /\ locks' = [locks EXCEPT ![k].waiters = Append(@, t)]
  /\ task' = [task EXCEPT ![t] = WaitingFor(k)]

Acquire(t, k) == AcquireAtOnce(t, k) \/ AcquireWaits(t, k)

\* Mutant: release wakes nobody.
NobodyWoken(tasks, waiters) == tasks

\* Lock._wake_up_first: only the first future, and only if it is pending.
WokenFirst(tasks, waiters) ==
  IF waiters # <<>> /\ tasks[Head(waiters)].future = "pending"
    THEN [tasks EXCEPT ![Head(waiters)].future = "done"]
    ELSE tasks

\* The timer of wait_for fires.
TimerFires(t) ==
  /\ task[t].phase = "waiting"
  /\ ~task[t].expired
  /\ task' = [task EXCEPT ![t].expired = TRUE,
                          ![t].future = IF @ = "pending" THEN "cancelled" ELSE @]
  /\ UNCHANGED locks

\* Mutant: the woken task does not mark the lock as taken.
GrantedUnlocked(t) ==
  LET k == task[t].key IN
  /\ task[t].phase = "waiting"
  /\ task[t].future = "done"
  /\ ~task[t].expired
  /\ locks' = [locks EXCEPT ![k].waiters = RemoveFirst(@, t)]
  /\ task' = [task EXCEPT ![t] = Holding(k)]

\* The event loop resumes a task whose future is done: it leaves the queue and
\* takes the lock.
Granted(t) ==
  LET k == task[t].key IN
  /\ task[t].phase = "waiting"
  /\ task[t].future = "done"
  /\ ~task[t].expired
  /\ locks' = [locks EXCEPT ![k] = [locked |-> TRUE,
                                    waiters |-> RemoveFirst(@.waiters, t)]]
  /\ task' = [task EXCEPT ![t] = Holding(k)]

\* Mutant: a woken task that has expired keeps the wake-up to itself.
TimedOutSilently(t) ==
  LET k == task[t].key IN
  /\ task[t].phase = "waiting"
  /\ task[t].expired
  /\ locks' = [locks EXCEPT ![k].waiters = RemoveFirst(@, t)]
  /\ task' = [task EXCEPT ![t] = Idle]

\* The event loop resumes a task whose timer has fired: it leaves the queue,
\* passes a wake-up on, and acquire returns False.
TimedOut(t) ==
  LET k == task[t].key
      left == RemoveFirst(locks[k].waiters, t)
      gone == [task EXCEPT ![t] = Idle]
  IN  /\ task[t].phase = "waiting"
      /\ task[t].expired
      /\ locks' = [locks EXCEPT ![k].waiters = left]
      /\ task' = IF locks[k].locked THEN gone ELSE WokenFirst(gone, left)

\* release(key) by the task that holds the key.
ReleaseLock(t) ==
  LET k == task[t].key
      gone == [task EXCEPT ![t] = Idle]
  IN  /\ task[t].phase = "holding"
      /\ IF locks[k].locked
           THEN /\ locks' = [locks EXCEPT ![k].locked = FALSE]
                /\ task' = WokenFirst(gone, locks[k].waiters)
           ELSE /\ task' = gone
                /\ UNCHANGED locks

\* The task goes on without releasing: the key stays locked for good.
Leak(t) ==
  /\ task[t].phase = "holding"
  /\ task' = [task EXCEPT ![t] = Idle]
  /\ UNCHANGED locks

Resume(t) == Granted(t) \/ TimedOut(t)

-----------------------------------------------------------------------------
\* Tasks that release what they take, as the lock manager's own tests do.
LockNext ==
  \E t \in Task :
    \/ \E k \in Key : Acquire(t, k)
    \/ TimerFires(t)
    \/ Resume(t)
    \/ ReleaseLock(t)

\* The event loop resumes every runnable task; a holder goes on to release.
LockFairness == \A t \in Task : WF_lockVars(Resume(t)) /\ WF_lockVars(ReleaseLock(t))

LockSpec == LockInit /\ [][LockNext]_lockVars /\ LockFairness

-----------------------------------------------------------------------------
(* Properties. *)

LockTypeOK ==
  /\ locks \in [Key -> Lock]
  /\ task \in [Task -> TaskRecord]

\* test_single_key_lock_excludes_others: two tasks never hold the same key.
KeyExclusion ==
  \A t, u \in Task :
    task[t].phase = "holding" /\ task[u].phase = "holding"
      /\ task[t].key = task[u].key => t = u

\* A key is locked exactly while a task holds it: acquire and release stay in
\* step through wake-ups and timeouts.
LockedIffHeld ==
  \A k \in Key :
    locks[k].locked <=> \E t \in Task : task[t].phase = "holding" /\ task[t].key = k

\* A wake-up is never lost: when a lock is free and tasks wait for it, the
\* first of them is about to run, or some task is that will wake it.
NoLostWakeup ==
  \A k \in Key :
    LET waiters == locks[k].waiters IN
    ~locks[k].locked /\ waiters # <<>> =>
      \/ task[Head(waiters)].future = "done"
      \/ \E i \in 1..Len(waiters) : task[waiters[i]].future = "cancelled"

\* Nobody jumps the queue: a task that gets a lock leaves nobody behind who
\* came earlier and whose timer has not fired.
GrantedInOrder ==
  [][\A k \in Key, t \in Task :
       task'[t].phase = "holding" /\ task'[t].key = k /\ task[t].phase # "holding" =>
         \A i \in 1..Len(locks'[k].waiters) :
           LET u == locks'[k].waiters[i] IN
           \/ task[u].expired
           \/ \E j \in 1..Len(locks[k].waiters) :
                /\ locks[k].waiters[j] = t
                /\ \E m \in j..Len(locks[k].waiters) : locks[k].waiters[m] = u]_lockVars

\* A task that waits for a key stops waiting even if its timer never fires:
\* every release wakes the next in line.
WaitingEnds ==
  \A t \in Task : task[t].phase = "waiting" ~> task[t].phase # "waiting"
=============================================================================
