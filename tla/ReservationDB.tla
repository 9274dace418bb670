--------------------------- MODULE ReservationDB ---------------------------
(***************************************************************************)
(* InMemoryDB (server/db.py) serving one process: one action per public    *)
(* method that changes state.  No method awaits, so each runs to its end   *)
(* on the event loop without another in between and is one atomic step.    *)
(* A method that raises ValueError after expiring holds has an action of   *)
(* its own (...Rejected); one that changes nothing has none.               *)
(*                                                                         *)
(* Memory changes before the entry is appended, and a line that could not  *)
(* be written goes out with the next append (CrashRecovery).  With wal read *)
(* as the file and those lines, an append that fails shows here only where *)
(* it cuts an operation short: cancel_ticket, before it promotes.          *)
(*                                                                         *)
(* Four sets of callers are specified:                                     *)
(*   Spec            every method, called in any order with any argument;  *)
(*   CarefulSpec     every method, but nobody cancels a cancelled ticket;  *)
(*   FaultyTierSpec  the calls of the clients this repository ships        *)
(*                   (search, book by tier, with or without a seat number, *)
(*                   cancel), again without cancelling twice;              *)
(*   TierSpec        the same calls, when no append fails.                 *)
(***************************************************************************)
EXTENDS DBState

CONSTANTS
  MaxTickets,  \* bound: tickets ever issued
  MaxClock     \* bound: last clock value

ASSUME BoundsAssumption == MaxTickets \in Nat /\ MaxClock \in Nat

VARIABLES
  db,     \* trains, tickets and waiting_lists in memory
  wal,    \* the log, as the outcome of its replay
  clock   \* time.time()

vars == <<db, wal, clock>>

\* After from_wal on an empty log and init_if_empty: the demo layout is in
\* memory and its INIT entry in the log.
Init ==
  /\ db = FreshDB
  /\ wal = WalState(TRUE, FreshDB)
  /\ clock = 0

-----------------------------------------------------------------------------
(* Holds and legacy per-seat booking. *)

\* What the operations that begin with _expire_holds(now) work on.
Current == ExpireHolds(db, clock)

\* search, tier_available_seat_numbers and coach_available_seats.
Search ==
  /\ db' = Current
  /\ UNCHANGED <<wal, clock>>

Hold(s, c) ==
  /\ CanHold(Current, s)
  /\ db' = HoldNoLog(Current, s, c, clock)
  /\ wal' = Logged(wal, HoldEntry(s, c, clock))
  /\ UNCHANGED clock

HoldRejected(s, c) ==
  /\ ~CanHold(Current, s)
  /\ db' = Current
  /\ UNCHANGED <<wal, clock>>

Book(s, c) ==
  /\ CanBook(Current, s, c, clock)
  /\ db' = BookNoLog(Current, s)
  /\ wal' = Logged(wal, BookEntry(s, c, clock))
  /\ UNCHANGED clock

BookRejected(s, c) ==
  /\ ~CanBook(Current, s, c, clock)
  /\ db' = Current
  /\ UNCHANGED <<wal, clock>>

\* release does not expire holds, and logs even when it changed nothing.
Release(s, c) ==
  /\ db' = ReleaseNoLog(db, s, c)
  /\ wal' = Logged(wal, ReleaseEntry(s, c))
  /\ UNCHANGED clock

-----------------------------------------------------------------------------
(* Tier booking, waiting lists and cancellation. *)

MayIssue == Cardinality(DOMAIN db.tickets) < MaxTickets

\* Issues a confirmed ticket for the first seat in iteration order.
Confirm(k, c, seats) ==
  LET s == Min(seats)
      t == NewTicketId(Current, clock)
  IN  /\ MayIssue
      /\ seats # {}
      /\ db' = BookTierNoLog(Current, t, c, k, s)
      /\ wal' = Logged(wal, BookTierEntry(t, c, k, s))
      /\ UNCHANGED clock

\* book_by_tier when a seat is available ...
BookByTier(k, c) == Confirm(k, c, AvailableIn(Current, k))

\* ... and when none is.
JoinWaitingList(k, c) ==
  LET t == NewTicketId(Current, clock)
  IN  /\ MayIssue
      /\ AvailableIn(Current, k) = {}
      /\ db' = WaitlistAddNoLog(Current, t, c, k)
      /\ wal' = Logged(wal, WaitlistAddEntry(t, c, k))
      /\ UNCHANGED clock

\* book_by_tier_and_seat_number: same search, restricted to a seat number.
BookByTierAndSeatNumber(k, n, c) ==
  Confirm(k, c, AvailableNumbered(Current, k, n))

BookByTierAndSeatNumberRejected(k, n, c) ==
  /\ AvailableNumbered(Current, k, n) = {}
  /\ db' = Current
  /\ UNCHANGED <<wal, clock>>

\* The ticket a client may cancel: it exists and is the client's own.
MayCancel(t, c) == t \in DOMAIN db.tickets /\ db.tickets[t].client_id = c

\* What CANCEL_TICKET leaves in memory.
Cancelled(t) ==
  CancelTicketNoLog(db, t, db.tickets[t].tier, db.tickets[t].seat_id)

\* Mutant: off by one in the test for a non-empty waiting list.
MustPromoteOffByOne(t) ==
  /\ db.tickets[t].seat_id # None
  /\ Len(Cancelled(t).waiting_lists[db.tickets[t].tier]) > 1

\* A seat came free and a ticket waits for it.
MustPromote(t) ==
  /\ db.tickets[t].seat_id # None
  /\ Cancelled(t).waiting_lists[db.tickets[t].tier] # <<>>

CancelOnly(t, c) ==
  /\ MayCancel(t, c)
  /\ db' = Cancelled(t)
  /\ wal' = Logged(wal, CancelEntry(t, db.tickets[t].tier,
                                    db.tickets[t].seat_id))
  /\ UNCHANGED clock

CancelTicket(t, c) == ~MustPromote(t) /\ CancelOnly(t, c)

\* The append of CANCEL_TICKET fails: the OSError keeps cancel_ticket from
\* promoting anybody.
CancelCutShort(t, c) == MustPromote(t) /\ CancelOnly(t, c)

CancelTicketAndPromote(t, c) ==
  LET k == db.tickets[t].tier
      s == db.tickets[t].seat_id
      p == Head(Cancelled(t).waiting_lists[k])
  IN  /\ MayCancel(t, c)
      /\ MustPromote(t)
      /\ db' = PromoteTicketNoLog(Cancelled(t), p, k, s)
      /\ wal' = Logged(Logged(wal, CancelEntry(t, k, s)), PromoteEntry(p, k, s))
      /\ UNCHANGED clock

Cancel(t, c) == CancelTicket(t, c) \/ CancelTicketAndPromote(t, c)

Tick ==
  /\ clock < MaxClock
  /\ clock' = clock + 1
  /\ UNCHANGED <<db, wal>>

-----------------------------------------------------------------------------
(* Specifications. *)

IsLive(t) == db.tickets[t].status # "cancelled"

TierCalls(c) ==
  \/ \E k \in Tier : BookByTier(k, c) \/ JoinWaitingList(k, c)
  \/ \E k \in Tier, n \in {NumberOf[s] : s \in Seat} :
       \/ BookByTierAndSeatNumber(k, n, c)
       \/ BookByTierAndSeatNumberRejected(k, n, c)

SeatCalls(c) ==
  \E s \in Seat :
    \/ Hold(s, c) \/ HoldRejected(s, c)
    \/ Book(s, c) \/ BookRejected(s, c)
    \/ Release(s, c)

CancelCalls(c) ==
  \E t \in DOMAIN db.tickets : Cancel(t, c) \/ CancelCutShort(t, c)

\* Cancels of tickets that are not cancelled yet.
FirstCancelCalls(c) == \E t \in DOMAIN db.tickets : IsLive(t) /\ Cancel(t, c)

TierNext ==
  \/ Search
  \/ Tick
  \/ \E c \in Client : TierCalls(c) \/ FirstCancelCalls(c)

FaultyTierNext ==
  \/ TierNext
  \/ \E c \in Client, t \in DOMAIN db.tickets : IsLive(t) /\ CancelCutShort(t, c)

CarefulNext == FaultyTierNext \/ \E c \in Client : SeatCalls(c)

Next == CarefulNext \/ \E c \in Client : CancelCalls(c)

Spec == Init /\ [][Next]_vars
CarefulSpec == Init /\ [][CarefulNext]_vars
FaultyTierSpec == Init /\ [][FaultyTierNext]_vars
TierSpec == Init /\ [][TierNext]_vars
=============================================================================
