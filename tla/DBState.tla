------------------------------ MODULE DBState ------------------------------
(***************************************************************************)
(* The data of InMemoryDB (server/db.py): seats, tickets, waiting lists,   *)
(* and the transitions its "_no_log" methods make on them.  The live       *)
(* operations, WAL replay and the backup's replication loop all go through *)
(* these methods, so they are operators on a database VALUE d, not actions.*)
(*                                                                         *)
(* Data abstraction.                                                       *)
(*  - A seat is a natural number: its place in the iteration order of the  *)
(*    nested train/coach/seat dictionaries.                                *)
(*  - Trains never share tickets, seats or waiting lists, so a             *)
(*    (train_id, tier) pair, the key of waiting_lists, is one element of   *)
(*    Tier.  A tier no seat belongs to is one the train does not have.     *)
(*  - A ticket id "TKT-<ms>-<n>" is the pair <<ms, n>>.                    *)
(*  - The WAL is represented by what its replay yields (see WalState).     *)
(***************************************************************************)
EXTENDS Naturals, FiniteSets, SequencesExt

CONSTANTS
  Seat,      \* seats, numbered in iteration order
  Tier,      \* (train_id, tier) pairs of known trains
  TierOf,    \* the tier of each seat
  NumberOf,  \* the seat number that ends each seat_id
  Client,    \* client ids
  HoldTTL,   \* hold_ttl, in clock units
  None       \* Python's None

ASSUME DBAssumption ==
  /\ Seat \subseteq Nat
  /\ TierOf \in [Seat -> Tier]
  /\ NumberOf \in [Seat -> Nat]
  /\ HoldTTL \in Nat \ {0}
  /\ None \notin Seat
  /\ None \notin Client
  /\ None \notin Nat
  /\ None \notin Nat \X Nat  \* no ticket id

-----------------------------------------------------------------------------
(* Types. *)

TicketId == Nat \X Nat

SeatRecord == [state : {"available", "held", "booked"},
               hold_by : Client \cup {None},
               hold_expires : Nat \cup {None}]

Ticket == [client_id : Client, tier : Tier, seat_id : Seat \cup {None},
           status : {"confirmed", "waiting", "cancelled"}]

IsDB(d) ==
  /\ d = [seats |-> d.seats, tickets |-> d.tickets,
          waiting_lists |-> d.waiting_lists]
  /\ d.seats \in [Seat -> SeatRecord]
  /\ DOMAIN d.tickets \subseteq TicketId
  /\ IsFiniteSet(DOMAIN d.tickets)
  /\ d.tickets \in [DOMAIN d.tickets -> Ticket]
  /\ d.waiting_lists \in [Tier -> Seq(TicketId)]

FreeSeat == [state |-> "available", hold_by |-> None, hold_expires |-> None]
BookedSeat == [state |-> "booked", hold_by |-> None, hold_expires |-> None]
HeldSeat(c, e) == [state |-> "held", hold_by |-> c, hold_expires |-> e]

\* The database _init_trains leaves: the demo layout, all of it available.
FreshDB == [seats |-> [s \in Seat |-> FreeSeat],
            tickets |-> [t \in {} |-> None],
            waiting_lists |-> [k \in Tier |-> <<>>]]

-----------------------------------------------------------------------------
(* Holds and the legacy per-seat transitions. *)

Expired(seat, now) ==
  /\ seat.state = "held"
  /\ seat.hold_expires # None
  /\ seat.hold_expires < now

ExpireHolds(d, now) ==
  [d EXCEPT !.seats = [s \in Seat |-> IF Expired(d.seats[s], now)
                                        THEN FreeSeat ELSE d.seats[s]]]

\* Mutant: a hold is refused only while another hold stands.
CanHoldBooked(d, s) == d.seats[s].state # "held"

CanHold(d, s) == d.seats[s].state = "available"

HoldNoLog(d, s, c, ts) == [d EXCEPT !.seats[s] = HeldSeat(c, ts + HoldTTL)]

CanBook(d, s, c, ts) ==
  /\ d.seats[s].state = "held"
  /\ d.seats[s].hold_by = c
  /\ ~Expired(d.seats[s], ts)

BookNoLog(d, s) == [d EXCEPT !.seats[s] = BookedSeat]

\* Mutant: release forgets to check what it releases.
ReleaseAnything(d, s, c) == [d EXCEPT !.seats[s] = FreeSeat]

ReleaseNoLog(d, s, c) ==
  IF d.seats[s].state = "held" /\ d.seats[s].hold_by = c
    THEN [d EXCEPT !.seats[s] = FreeSeat]
    ELSE d

-----------------------------------------------------------------------------
(* Tickets and waiting lists. *)

\* Mutant: the search takes a held seat.
NotBookedIn(d, k) ==
  {s \in Seat : TierOf[s] = k /\ d.seats[s].state # "booked"}

AvailableIn(d, k) ==
  {s \in Seat : TierOf[s] = k /\ d.seats[s].state = "available"}

\* Mutant: the seat number is looked up in the whole train.
NumberedAnywhere(d, k, n) ==
  {s \in Seat : d.seats[s].state = "available" /\ NumberOf[s] = n}

AvailableNumbered(d, k, n) == {s \in AvailableIn(d, k) : NumberOf[s] = n}

\* Mutant: cancelled tickets are not counted.
ReusedTicketId(d, now) ==
  <<now, Cardinality({t \in DOMAIN d.tickets :
                        d.tickets[t].status # "cancelled"}) + 1>>

NewTicketId(d, now) == <<now, Cardinality(DOMAIN d.tickets) + 1>>

AddTicket(tickets, t, ticket) ==
  [u \in DOMAIN tickets \cup {t} |-> IF u = t THEN ticket ELSE tickets[u]]

BookTierNoLog(d, t, c, k, s) ==
  [d EXCEPT
     !.tickets = AddTicket(@, t, [client_id |-> c, tier |-> k, seat_id |-> s,
                                  status |-> "confirmed"]),
     !.seats[s] = BookedSeat]

\* Mutant: the newest ticket is put first.
WaitlistAddAtFront(d, t, c, k) ==
  [d EXCEPT
     !.tickets = AddTicket(@, t, [client_id |-> c, tier |-> k,
                                  seat_id |-> None, status |-> "waiting"]),
     !.waiting_lists[k] = <<t>> \o @]

WaitlistAddNoLog(d, t, c, k) ==
  [d EXCEPT
     !.tickets = AddTicket(@, t, [client_id |-> c, tier |-> k,
                                  seat_id |-> None, status |-> "waiting"]),
     !.waiting_lists[k] = Append(@, t)]

\* Mutant: the ticket stays in its list.
NoDequeue(lists, k, t) == lists

\* The code rebuilds the list without every occurrence of the ticket.  A list
\* never holds a ticket twice (QueueIsFifo), so the first is every occurrence.
Dequeue(lists, k, t) == [lists EXCEPT ![k] = RemoveFirst(@, t)]

\* Mutant: a misspelt status.
CancelMisspelt(d, t, k, s) ==
  IF t \notin DOMAIN d.tickets THEN d
  ELSE [d EXCEPT
          !.tickets[t].status = "canceled",
          !.waiting_lists = Dequeue(@, k, t),
          !.seats = IF s = None THEN @ ELSE [@ EXCEPT ![s] = FreeSeat]]

CancelTicketNoLog(d, t, k, s) ==
  IF t \notin DOMAIN d.tickets THEN d
  ELSE [d EXCEPT
          !.tickets[t].status = "cancelled",
          !.waiting_lists = Dequeue(@, k, t),
          !.seats = IF s = None THEN @ ELSE [@ EXCEPT ![s] = FreeSeat]]

PromoteTicketNoLog(d, t, k, s) ==
  IF t \notin DOMAIN d.tickets THEN d
  ELSE [d EXCEPT
          !.tickets[t].status = "confirmed",
          !.tickets[t].seat_id = s,
          !.waiting_lists = Dequeue(@, k, t),
          !.seats[s] = BookedSeat]

-----------------------------------------------------------------------------
(* WAL entries and what applying one does. *)

HoldEntry(s, c, ts) == [op |-> "HOLD", seat |-> s, client |-> c, ts |-> ts]
BookEntry(s, c, ts) == [op |-> "BOOK", seat |-> s, client |-> c, ts |-> ts]
\* Mutant: the entry does not say who releases.
AnonymousRelease(s, c) == [op |-> "RELEASE", seat |-> s, client |-> None]
ReleaseEntry(s, c) == [op |-> "RELEASE", seat |-> s, client |-> c]
BookTierEntry(t, c, k, s) ==
  [op |-> "BOOK_TIER", ticket_id |-> t, client |-> c, tier |-> k, seat_id |-> s]
WaitlistAddEntry(t, c, k) ==
  [op |-> "WAITLIST_ADD", ticket_id |-> t, client |-> c, tier |-> k]
\* Mutant: the entry does not say which seat is freed.
CancelWithoutSeat(t, k, s) ==
  [op |-> "CANCEL_TICKET", ticket_id |-> t, tier |-> k, seat_id |-> None]
CancelEntry(t, k, s) ==
  [op |-> "CANCEL_TICKET", ticket_id |-> t, tier |-> k, seat_id |-> s]
PromoteEntry(t, k, s) ==
  [op |-> "PROMOTE_TICKET", ticket_id |-> t, tier |-> k, seat_id |-> s]

\* The two transitions that raise ValueError, which from_wal does not catch.
Raises(d, e) ==
  \/ e.op = "HOLD" /\ ~CanHold(d, e.seat)
  \/ e.op = "BOOK" /\ ~CanBook(d, e.seat, e.client, e.ts)

ApplyEntry(d, e) ==
  CASE e.op = "INIT" -> FreshDB
    [] e.op = "HOLD" -> HoldNoLog(d, e.seat, e.client, e.ts)
    [] e.op = "BOOK" -> BookNoLog(d, e.seat)
    [] e.op = "RELEASE" -> ReleaseNoLog(d, e.seat, e.client)
    [] e.op = "BOOK_TIER" ->
         BookTierNoLog(d, e.ticket_id, e.client, e.tier, e.seat_id)
    [] e.op = "WAITLIST_ADD" ->
         WaitlistAddNoLog(d, e.ticket_id, e.client, e.tier)
    [] e.op = "CANCEL_TICKET" ->
         CancelTicketNoLog(d, e.ticket_id, e.tier, e.seat_id)
    [] e.op = "PROMOTE_TICKET" ->
         PromoteTicketNoLog(d, e.ticket_id, e.tier, e.seat_id)

\* A log is represented by the outcome of replaying it from the start: the
\* database from_wal rebuilds, or none once an entry of the log raises.
WalState(ok, d) == [replays |-> ok, rebuilt |-> d]
DeadWal == WalState(FALSE, FreshDB)

IsWal(w) ==
  /\ w = WalState(w.replays, w.rebuilt)
  /\ w.replays \in BOOLEAN
  /\ IsDB(w.rebuilt)

Logged(w, e) ==
  IF ~w.replays \/ Raises(w.rebuilt, e)
    THEN DeadWal
    ELSE [w EXCEPT !.rebuilt = ApplyEntry(@, e)]
=============================================================================
