------------------------- MODULE ReservationDBProps -------------------------
(***************************************************************************)
(* What ReservationDB promises, from the weakest set of callers (anybody)  *)
(* to the strongest (the shipped clients).                                 *)
(***************************************************************************)
EXTENDS ReservationDB

\* Every variable keeps the type the code gives it.
TypeOK ==
  /\ IsDB(db)
  /\ IsWal(wal)
  /\ clock \in 0..MaxClock

-----------------------------------------------------------------------------
(* Under every caller: Spec. *)

Queue(k) == db.waiting_lists[k]
Confirmed(t) == t \in DOMAIN db.tickets /\ db.tickets[t].status = "confirmed"
Waiting(t) == t \in DOMAIN db.tickets /\ db.tickets[t].status = "waiting"

\* A ticket says "waiting" exactly when it is in the waiting list of its own
\* tier: bookings, cancellations and promotions keep tickets and lists in step
\* (db.py keeps the same fact in two places and updates them one by one).
QueuedIffWaiting ==
  \A t \in DOMAIN db.tickets, k \in Tier :
    Contains(Queue(k), t) <=> Waiting(t) /\ db.tickets[t].tier = k

\* t was issued before u: the counter that ends a ticket id orders tickets.
Older(t, u) == t[2] < u[2]

\* Waiting lists hold existing tickets, oldest first, none twice.
QueueIsFifo ==
  \A k \in Tier :
    /\ \A i \in 1..Len(Queue(k)) : Queue(k)[i] \in DOMAIN db.tickets
    /\ IsSorted(Queue(k), Older)

\* A confirmed ticket has a seat of its own tier and a waiting ticket has none.
TicketFitsSeat ==
  \A t \in DOMAIN db.tickets :
    /\ Confirmed(t) => /\ db.tickets[t].seat_id \in Seat
                       /\ TierOf[db.tickets[t].seat_id] = db.tickets[t].tier
    /\ Waiting(t) => db.tickets[t].seat_id = None

\* As long as the log replays at all, replaying it now gives the database in
\* memory, up to holds whose expiry nobody has noticed on one side yet
\* (_expire_holds is never logged).
RecoveredStateAgrees ==
  wal.replays => ExpireHolds(wal.rebuilt, clock) = ExpireHolds(db, clock)

\* Ticket life cycle: a ticket is never forgotten, never leaves "cancelled",
\* never goes back to "waiting", and keeps its tier, its owner and its seat.
TicketLifeCycle ==
  [][\A t \in DOMAIN db.tickets :
       /\ t \in DOMAIN db'.tickets
       /\ LET old == db.tickets[t] new == db'.tickets[t] IN
            /\ new.client_id = old.client_id /\ new.tier = old.tier
            /\ old.status = "cancelled" => new = old
            /\ new.status = "waiting" => old.status = "waiting"
            /\ old.seat_id # None => new.seat_id = old.seat_id]_vars

-----------------------------------------------------------------------------
(* When nobody cancels a ticket twice: CarefulSpec. *)

\* No two confirmed tickets share a seat.
NoDoubleBooking ==
  \A t, u \in DOMAIN db.tickets :
    Confirmed(t) /\ Confirmed(u) /\ db.tickets[t].seat_id = db.tickets[u].seat_id
      => t = u

\* The seat of a confirmed ticket is booked, whatever holds, releases and
\* legacy bookings went on around it.
ConfirmedSeatIsBooked ==
  \A t \in DOMAIN db.tickets :
    Confirmed(t) => db.seats[db.tickets[t].seat_id] = BookedSeat

\* A seat under a hold that has not expired never goes to a ticket: neither a
\* tier booking nor a promotion takes it from the client that holds it.
HoldsAreRespected ==
  [][\A s \in Seat, t \in DOMAIN db'.tickets :
       /\ Current.seats[s].state = "held"
       /\ db'.tickets[t].status = "confirmed"
       /\ db'.tickets[t].seat_id = s
       => Confirmed(t)]_vars

\* The log in its present state can be replayed: a restart brings the server
\* back, as docs/DESIGN.md:101 promises ("booked seats survive crashes").
RestartIsPossible == wal.replays

-----------------------------------------------------------------------------
(* Under the shipped clients' calls: TierSpec. *)

\* A ticket waits only while every seat of its tier is taken: no cancellation
\* frees a seat without handing it to the waiting list.
NoIdleSeatWhileWaiting ==
  \A k \in Tier : Queue(k) # <<>> => AvailableIn(db, k) = {}

\* No overtaking: while an older ticket of the tier goes on waiting, no younger
\* one, waiting or new, is confirmed.
NoOvertaking ==
  [][\A t \in DOMAIN db.tickets, u \in DOMAIN db'.tickets :
       /\ Waiting(t) /\ db'.tickets[t].status = "waiting"
       /\ db'.tickets[u].tier = db.tickets[t].tier
       /\ Older(t, u)
       /\ db'.tickets[u].status = "confirmed"
       => Confirmed(u)]_vars

\* A restart at any moment rebuilds exactly the database in memory.
LogReplaysExactly == wal = WalState(TRUE, db)

\* Refinement: the holder of a seat is the confirmed ticket that names it.
Holder ==
  [s \in Seat |->
     LET claims == {t \in DOMAIN db.tickets :
                      Confirmed(t) /\ db.tickets[t].seat_id = s}
     IN  IF claims = {} THEN None ELSE CHOOSE t \in claims : TRUE]

Allocation ==
  INSTANCE SeatAllocation WITH
    Id <- (0..MaxClock) \X (1..MaxTickets),
    holder <- Holder, queue <- db.waiting_lists, issued <- DOMAIN db.tickets

\* book_by_tier, book_by_tier_and_seat_number and cancel_ticket together do
\* what SeatAllocation promises: a seat has one holder, goes to its own tier,
\* and is handed to the longest-waiting ticket in the step that frees it.
ImplementsSeatAllocation == Allocation!Spec
=============================================================================
