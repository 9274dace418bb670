------------------------- MODULE ReservationServer -------------------------
(***************************************************************************)
(* ReservationServer._handle_request (server/server.py): connections bring *)
(* requests, each takes a lock with a timeout, calls the database, answers *)
(* and, on most paths, gives the lock back.  Any append to the log may     *)
(* fail: the OSError escapes the handler as a KeyError does, but memory    *)
(* has changed.  wal is the file with the lines a failed write has left in *)
(* the file object (see ReservationDB).                                    *)
(*                                                                         *)
(* Composition: the locks are LockManager, the database is ReservationDB,  *)
(* and each step of the server takes a step of one or both.  A connection  *)
(* handles one request at a time (_handle_client), so its handler is the   *)
(* Task of the lock manager.  The database call, the release of the lock   *)
(* and the answer contain no await and are one step.  Taking the lock and  *)
(* that step are separate: on Python 3.10 and 3.11 wait_for runs           *)
(* lock.acquire in a task of its own and others run between; later         *)
(* versions take some of these pairs of steps without a pause.             *)
(***************************************************************************)
EXTENDS ReservationDB, LockManager

CONSTANTS
  ClientOf,    \* the client id each connection sends
  Unknown,     \* a train, coach or seat the database does not have
  MaxRequests  \* bound: requests that take a lock

VARIABLES
  request,  \* the request each connection is working on
  reply,    \* the answer to its last request
  received  \* how many requests have come in

dbVars == <<db, wal, clock>>
serverVars == <<dbVars, lockVars, request, reply, received>>

SeatNumber == {NumberOf[s] : s \in Seat}

\* Lock keys: "{train}-{coach}-{seat}", "{train}-TIER-{tier}" and
\* "{train}-TIERSEAT-{tier}-{seat}".
SeatKey(s) == <<"SEAT", s>>
TierKey(k) == <<"TIER", k>>
TierSeatKey(k, n) == <<"TIERSEAT", k, n>>

LockKeys ==
  {SeatKey(s) : s \in Seat \cup {Unknown}}
    \cup {TierKey(k) : k \in Tier \cup {Unknown}}
    \cup {TierSeatKey(k, n) : k \in Tier \cup {Unknown}, n \in SeatNumber}

SeatKeys == {SeatKey(s) : s \in Seat}

ASSUME ServerAssumption ==
  /\ Key = LockKeys
  /\ ClientOf \in [Task -> Client]
  /\ MaxRequests \in Nat /\ MaxRequests <= MaxTickets
  /\ Unknown \notin Seat \cup Tier

NoRequest == [cmd |-> "none"]
NoReply == [code |-> "none", ticket_id |-> None, status |-> "none"]

ServerInit ==
  /\ Init
  /\ LockInit
  /\ request = [t \in Task |-> NoRequest]
  /\ reply = [t \in Task |-> NoReply]
  /\ received = 0

-----------------------------------------------------------------------------
(* A request comes in. *)

\* The commands that take a lock.  BOOK has three forms.
SeatCommands == {"HOLD", "BOOK", "RELEASE"}
KnownSeatRequests ==
  {[cmd |-> cmd, seat |-> s, key |-> SeatKey(s)] : cmd \in SeatCommands, s \in Seat}

\* Keys are strings: a coach "TIER" with a seat "1AC" spells the key of a tier,
\* so a request about no seat may have any key but that of a seat.
UnknownSeatRequests ==
  [cmd : SeatCommands, seat : {Unknown}, key : Key \ SeatKeys]

TierRequests(tiers) ==
  [cmd : {"BOOK_TIER"}, tier : tiers]
    \cup [cmd : {"BOOK_TIER_SEAT"}, tier : tiers, number : SeatNumber]
CancelRequests == [cmd : {"CANCEL"}, ticket_id : DOMAIN db.tickets]

\* CANCEL looks the tier of its ticket up before it waits for the lock.
KeyOf(r) ==
  CASE r.cmd \in SeatCommands -> r.key
    [] r.cmd = "BOOK_TIER" -> TierKey(r.tier)
    [] r.cmd = "BOOK_TIER_SEAT" -> TierSeatKey(r.tier, r.number)
    [] r.cmd = "CANCEL" -> TierKey(db.tickets[r.ticket_id].tier)

\* The request with its place in the order of arrival.
Numbered(r) ==
  [f \in DOMAIN r \cup {"order"} |-> IF f = "order" THEN received ELSE r[f]]

Receive(t, r) ==
  /\ request[t] = NoRequest
  /\ received < MaxRequests
  /\ received' = received + 1
  /\ request' = [request EXCEPT ![t] = Numbered(r)]
  /\ reply' = [reply EXCEPT ![t] = NoReply]
  /\ Acquire(t, KeyOf(r))
  /\ UNCHANGED dbVars

\* SEARCH, TIER_SEATS and COACH_SEATS expire holds and take no lock.
AnswerSearch(t) ==
  /\ request[t] = NoRequest
  /\ Search
  /\ UNCHANGED <<lockVars, request, reply, received>>

\* The answer about a ticket carries a copy of it, as it is at that moment.
Answer(t, code, id) ==
  /\ request' = [request EXCEPT ![t] = NoRequest]
  /\ reply' = [reply EXCEPT ![t] =
                 [code |-> code, ticket_id |-> id,
                  status |-> IF id = None THEN "none" ELSE db'.tickets[id].status]]
  /\ UNCHANGED received

TimeIsUp(t) ==
  /\ TimerFires(t)
  /\ UNCHANGED <<dbVars, request, reply, received>>

GetLock(t) ==
  /\ Granted(t)
  /\ UNCHANGED <<dbVars, request, reply, received>>

\* Mutant: the lock is released also when it was not acquired.
GiveUpAndRelease(t) ==
  LET k == task[t].key
      left == RemoveFirst(locks[k].waiters, t)
  IN  /\ task[t].phase = "waiting"
      /\ task[t].expired
      /\ locks' = [locks EXCEPT ![k] = [locked |-> FALSE, waiters |-> left]]
      /\ task' = WokenFirst([task EXCEPT ![t] = Idle], left)
      /\ UNCHANGED dbVars
      /\ Answer(t, "LOCK_TIMEOUT", None)

\* Mutant: the handler waits again when its time is up.
RetryOnTimeout(t) ==
  /\ task[t].expired
  /\ locks' = [locks EXCEPT ![task[t].key].waiters = Append(RemoveFirst(@, t), t)]
  /\ task' = [task EXCEPT ![t] = WaitingFor(task[t].key)]
  /\ UNCHANGED <<dbVars, request, reply, received>>

GiveUp(t) ==
  /\ TimedOut(t)
  /\ UNCHANGED dbVars
  /\ Answer(t, "LOCK_TIMEOUT", None)

-----------------------------------------------------------------------------
(* The lock is taken: the database is called, and the request answered.    *)
(* A train, coach or seat that does not exist raises KeyError, and an      *)
(* append that fails OSError; they are caught far from the code that       *)
(* releases the lock.                                                      *)

Serving(t, cmd) == task[t].phase = "holding" /\ request[t].cmd = cmd

Succeed(t, id) == ReleaseLock(t) /\ Answer(t, "OK", id)
\* Mutant: a refused request keeps its lock.
FailWithoutRelease(t, code) == Leak(t) /\ Answer(t, code, None)

Fail(t, code) == ReleaseLock(t) /\ Answer(t, code, None)
Crash(t) == Leak(t) /\ Answer(t, "SERVER_ERROR", None)

\* Mutant: a hold is made in memory only.
ServeHoldUnlogged(t) ==
  LET s == request[t].seat c == ClientOf[t] IN
  /\ Serving(t, "HOLD")
  /\ s \in Seat
  /\ CanHold(ExpireHolds(db, clock), s)
  /\ db' = HoldNoLog(ExpireHolds(db, clock), s, c, clock)
  /\ UNCHANGED <<wal, clock>>
  /\ Leak(t)
  /\ Answer(t, "OK", None)

\* A successful HOLD does not release its lock.
SucceedKeeping(t) == Leak(t) /\ Answer(t, "OK", None)

ServeHold(t) ==
  LET s == request[t].seat c == ClientOf[t] IN
  /\ Serving(t, "HOLD")
  /\ \/ s # Unknown /\ Hold(s, c) /\ (SucceedKeeping(t) \/ Crash(t))
     \/ s # Unknown /\ HoldRejected(s, c) /\ Fail(t, "HOLD_FAILED")
     \/ s = Unknown /\ Search /\ Crash(t)

ServeBook(t) ==
  LET s == request[t].seat c == ClientOf[t] IN
  /\ Serving(t, "BOOK")
  /\ \/ s # Unknown /\ Book(s, c) /\ (Succeed(t, None) \/ Crash(t))
     \/ s # Unknown /\ BookRejected(s, c) /\ Fail(t, "BOOK_FAILED")
     \/ s = Unknown /\ Search /\ Crash(t)

\* RELEASE is the one command that releases its lock whatever happens.
ServeRelease(t) ==
  LET s == request[t].seat IN
  /\ Serving(t, "RELEASE")
  /\ \/ /\ s # Unknown /\ Release(s, ClientOf[t])
        /\ Succeed(t, None) \/ Fail(t, "SERVER_ERROR")
     \/ s = Unknown /\ UNCHANGED dbVars /\ Fail(t, "SERVER_ERROR")

NewId == NewTicketId(ExpireHolds(db, clock), clock)

ServeBookTier(t) ==
  LET k == request[t].tier c == ClientOf[t] IN
  /\ Serving(t, "BOOK_TIER")
  /\ \/ /\ k # Unknown
        /\ BookByTier(k, c) \/ JoinWaitingList(k, c)
        /\ Succeed(t, NewId) \/ Crash(t)
     \/ k = Unknown /\ Search /\ Crash(t)

ServeBookTierSeat(t) ==
  LET k == request[t].tier n == request[t].number c == ClientOf[t] IN
  /\ Serving(t, "BOOK_TIER_SEAT")
  /\ \/ /\ k # Unknown /\ BookByTierAndSeatNumber(k, n, c)
        /\ Succeed(t, NewId) \/ Crash(t)
     \/ /\ k # Unknown
        /\ BookByTierAndSeatNumberRejected(k, n, c)
        /\ Fail(t, "BOOK_FAILED")
     \/ k = Unknown /\ Search /\ Crash(t)

ServeCancel(t) ==
  LET id == request[t].ticket_id c == ClientOf[t] IN
  /\ Serving(t, "CANCEL")
  /\ \/ Cancel(id, c) /\ (Succeed(t, id) \/ Crash(t))
     \/ CancelCutShort(id, c) /\ Crash(t)
     \/ ~MayCancel(id, c) /\ UNCHANGED dbVars /\ Fail(t, "CANCEL_FAILED")

Serve(t) ==
  \/ ServeHold(t) \/ ServeBook(t) \/ ServeRelease(t)
  \/ ServeBookTier(t) \/ ServeBookTierSeat(t) \/ ServeCancel(t)

ClockTicks == Tick /\ UNCHANGED <<lockVars, request, reply, received>>

-----------------------------------------------------------------------------
(* Specifications. *)

\* What the event loop and the timers do for the requests already in.
Handle(t) == TimeIsUp(t) \/ GetLock(t) \/ GiveUp(t) \/ Serve(t)

\* The requests of the tier-based clients, about trains that exist.
TierServerNext ==
  \E t \in Task :
    \/ Handle(t)
    \/ AnswerSearch(t)
    \/ \E r \in TierRequests(Tier) \cup CancelRequests : Receive(t, r)

\* All commands, about trains, coaches and seats that exist ...
KnownServerNext ==
  \/ TierServerNext
  \/ ClockTicks
  \/ \E t \in Task, r \in KnownSeatRequests : Receive(t, r)

\* ... and all commands about anything.
ServerNext ==
  \/ KnownServerNext
  \/ \E t \in Task, r \in UnknownSeatRequests \cup TierRequests({Unknown}) :
       Receive(t, r)

\* The event loop resumes runnable handlers, and timers fire in the end.
Fairness ==
  \A t \in Task :
    /\ WF_serverVars(TimeIsUp(t))
    /\ WF_serverVars(GetLock(t) \/ GiveUp(t))
    /\ WF_serverVars(Serve(t))

ServerSpec == ServerInit /\ [][ServerNext]_serverVars /\ Fairness
KnownServerSpec == ServerInit /\ [][KnownServerNext]_serverVars /\ Fairness
TierServerSpec == ServerInit /\ [][TierServerNext]_serverVars /\ Fairness
=============================================================================
