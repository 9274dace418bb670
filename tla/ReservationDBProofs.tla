------------------------ MODULE ReservationDBProofs ------------------------
(***************************************************************************)
(* Theorems about ReservationDB, for every layout of seats and tiers,      *)
(* every set of clients, every hold_ttl and every bound: types, owners of  *)
(* seats, holds, and the log; that tickets and waiting lists agree, the    *)
(* life cycle of a ticket and, for the calls of the shipped clients, that  *)
(* no seat idles while a ticket waits, that nobody is overtaken, and that  *)
(* the database implements SeatAllocation.                                 *)
(***************************************************************************)
EXTENDS ReservationDBProps, DBStateProofs

-----------------------------------------------------------------------------
(* Type correctness. *)

LEMMA CurrentType ==
  ASSUME TypeOK
  PROVE  IsDB(Current)
BY ExpireHoldsType DEF TypeOK, Current

LEMMA WalType ==
  ASSUME TypeOK
  PROVE  IsWal(wal)
BY DEF TypeOK

LEMMA ClockIsNat ==
  ASSUME TypeOK
  PROVE  clock \in Nat
BY BoundsAssumption DEF TypeOK

LEMMA ConfirmKeepsType ==
  ASSUME TypeOK, NEW k \in Tier, NEW c \in Client, NEW seats \in SUBSET Seat,
         Confirm(k, c, seats)
  PROVE  TypeOK'
<1> DEFINE s == Min(seats)
           t == NewTicketId(Current, clock)
<1>1. s \in Seat
  BY MinIsElement, DBAssumption DEF Confirm
<1>2. t \in TicketId
  BY CurrentType, ClockIsNat, NewTicketIdType
<1>3. /\ db' = BookTierNoLog(Current, t, c, k, s)
      /\ wal' = Logged(wal, BookTierEntry(t, c, k, s))
      /\ clock' = clock
  BY DEF Confirm
<1> HIDE DEF s, t
<1>4. IsDB(db')
  BY <1>1, <1>2, <1>3, CurrentType, BookTierType
<1>5. IsWal(wal')
  BY <1>1, <1>2, <1>3, WalType, LoggedKeepsType
<1>6. QED
  BY <1>3, <1>4, <1>5 DEF TypeOK

LEMMA JoinKeepsType ==
  ASSUME TypeOK, NEW k \in Tier, NEW c \in Client, JoinWaitingList(k, c)
  PROVE  TypeOK'
<1> DEFINE t == NewTicketId(Current, clock)
<1>1. t \in TicketId
  BY CurrentType, ClockIsNat, NewTicketIdType
<1>2. /\ db' = WaitlistAddNoLog(Current, t, c, k)
      /\ wal' = Logged(wal, WaitlistAddEntry(t, c, k))
      /\ clock' = clock
  BY DEF JoinWaitingList
<1> HIDE DEF t
<1>3. IsDB(db')
  BY <1>1, <1>2, CurrentType, WaitlistAddType
<1>4. IsWal(wal')
  BY <1>1, <1>2, WalType, LoggedKeepsType
<1>5. QED
  BY <1>2, <1>3, <1>4 DEF TypeOK

LEMMA TierCallsKeepType ==
  ASSUME TypeOK, NEW c \in Client, TierCalls(c)
  PROVE  TypeOK'
<1>1. ASSUME NEW k \in Tier, BookByTier(k, c)
      PROVE  TypeOK'
  <2>1. AvailableIn(Current, k) \in SUBSET Seat
    BY DEF AvailableIn
  <2>2. QED
    BY <1>1, <2>1, ConfirmKeepsType DEF BookByTier
<1>2. ASSUME NEW k \in Tier, NEW n, BookByTierAndSeatNumber(k, n, c)
      PROVE  TypeOK'
  <2>1. AvailableNumbered(Current, k, n) \in SUBSET Seat
    BY DEF AvailableNumbered, AvailableIn
  <2>2. QED
    BY <1>2, <2>1, ConfirmKeepsType DEF BookByTierAndSeatNumber
<1>3. ASSUME NEW k \in Tier, NEW n, BookByTierAndSeatNumberRejected(k, n, c)
      PROVE  TypeOK'
  BY <1>3, CurrentType DEF BookByTierAndSeatNumberRejected, TypeOK
<1>4. QED
  BY <1>1, <1>2, <1>3, JoinKeepsType DEF TierCalls

LEMMA SeatCallsKeepType ==
  ASSUME TypeOK, NEW c \in Client, SeatCalls(c)
  PROVE  TypeOK'
<1> SUFFICES ASSUME NEW s \in Seat,
                    \/ Hold(s, c) \/ HoldRejected(s, c)
                    \/ Book(s, c) \/ BookRejected(s, c) \/ Release(s, c)
             PROVE  TypeOK'
  BY DEF SeatCalls
<1> USE CurrentType, ClockIsNat
<1>1. CASE Hold(s, c)
  <2>1. IsDB(db')
    BY <1>1, HoldType DEF Hold
  <2>2. IsWal(wal')
    BY <1>1, WalType, LoggedKeepsType DEF Hold
  <2>3. QED
    BY <1>1, <2>1, <2>2 DEF Hold, TypeOK
<1>2. CASE HoldRejected(s, c) \/ BookRejected(s, c)
  BY <1>2 DEF HoldRejected, BookRejected, TypeOK
<1>3. CASE Book(s, c)
  <2>1. IsDB(db')
    BY <1>3, BookType DEF Book
  <2>2. IsWal(wal')
    BY <1>3, WalType, LoggedKeepsType DEF Book
  <2>3. QED
    BY <1>3, <2>1, <2>2 DEF Book, TypeOK
<1>4. CASE Release(s, c)
  <2>1. IsDB(db')
    BY <1>4, ReleaseType DEF Release, TypeOK
  <2>2. IsWal(wal')
    BY <1>4, WalType, LoggedKeepsType DEF Release
  <2>3. QED
    BY <1>4, <2>1, <2>2 DEF Release, TypeOK
<1>5. QED
  BY <1>1, <1>2, <1>3, <1>4

\* Every way in which a call of cancel_ticket can end.
AnyCancel(t, c) == Cancel(t, c) \/ CancelCutShort(t, c)

\* It either stops at the entry of the cancellation or promotes as well.
LEMMA CancelForms ==
  ASSUME NEW t, NEW c, AnyCancel(t, c)
  PROVE  CancelOnly(t, c) \/ CancelTicketAndPromote(t, c)
BY DEF AnyCancel, Cancel, CancelTicket, CancelCutShort

LEMMA CancelKeepsType ==
  ASSUME TypeOK, NEW c \in Client, NEW t \in DOMAIN db.tickets, AnyCancel(t, c)
  PROVE  TypeOK'
<1> DEFINE k == db.tickets[t].tier
           s == db.tickets[t].seat_id
           w == Logged(wal, CancelEntry(t, k, s))
<1>1. k \in Tier /\ s \in Seat \cup {None}
  BY DEF TypeOK, IsDB, Ticket
<1>2. IsDB(Cancelled(t))
  BY <1>1, CancelType DEF Cancelled, TypeOK
<1>3. IsWal(w)
  BY <1>1, WalType, LoggedKeepsType
<1>4. CASE CancelOnly(t, c)
  BY <1>2, <1>3, <1>4 DEF CancelOnly, TypeOK
<1>5. CASE CancelTicketAndPromote(t, c)
  <2> DEFINE p == Head(Cancelled(t).waiting_lists[k])
  <2>1. s \in Seat
    BY <1>1, <1>5 DEF CancelTicketAndPromote, MustPromote
  <2>2. /\ db' = PromoteTicketNoLog(Cancelled(t), p, k, s)
        /\ wal' = Logged(w, PromoteEntry(p, k, s))
        /\ clock' = clock
    BY <1>5 DEF CancelTicketAndPromote
  <2> HIDE DEF p, w, k, s
  <2>3. IsDB(db')
    BY <1>2, <2>1, <2>2, PromoteType
  <2>4. IsWal(wal')
    BY <1>3, <2>1, <2>2, LoggedKeepsType
  <2>5. QED
    BY <2>2, <2>3, <2>4 DEF TypeOK
<1>6. QED
  BY <1>4, <1>5, CancelForms

LEMMA TypeStep ==
  ASSUME TypeOK, [Next]_vars
  PROVE  TypeOK'
<1>1. CASE Search
  BY <1>1, CurrentType DEF Search, TypeOK
<1>2. CASE Tick
  BY <1>2, BoundsAssumption DEF Tick, TypeOK
<1>3. CASE \E c \in Client : TierCalls(c)
  BY <1>3, TierCallsKeepType
<1>4. CASE \E c \in Client : SeatCalls(c)
  BY <1>4, SeatCallsKeepType
<1>5. CASE \E c \in Client, t \in DOMAIN db.tickets : AnyCancel(t, c)
  BY <1>5, CancelKeepsType
<1>6. CASE UNCHANGED vars
  BY <1>6 DEF vars, TypeOK
<1>7. QED
  BY <1>1, <1>2, <1>3, <1>4, <1>5, <1>6 DEF Next, CarefulNext, FaultyTierNext,
                        TierNext, FirstCancelCalls, CancelCalls, AnyCancel

\* The database, the log and the clock keep their types whatever the callers do.
THEOREM TypeCorrect == Spec => []TypeOK
<1>1. Init => TypeOK
  BY FreshDBType, BoundsAssumption DEF Init, TypeOK, IsWal, WalState
<1>2. TypeOK /\ [Next]_vars => TypeOK'
  BY TypeStep
<1>3. QED
  BY <1>1, <1>2, PTL DEF Spec

-----------------------------------------------------------------------------
(* Seats have one owner.  The invariant, SeatsAreOwned, is a property of a *)
(* database value, so that it can be followed through expiry, cancellation *)
(* and promotion inside one step.                                          *)

LEMMA CurrentKeepsOwners ==
  ASSUME TypeOK, SeatsAreOwned(db)
  PROVE  SeatsAreOwned(Current)
<1>1. Current.tickets = db.tickets
  BY DEF Current, ExpireHolds, TypeOK, IsDB
<1>2. ASSUME NEW s \in Seat, db.seats[s] = BookedSeat
      PROVE  Current.seats[s] = BookedSeat
  <2>1. ~Expired(db.seats[s], clock)
    BY <1>2 DEF Expired, BookedSeat
  <2>2. Current.seats[s] = IF Expired(db.seats[s], clock) THEN FreeSeat ELSE db.seats[s]
    BY DEF Current, ExpireHolds, TypeOK, IsDB
  <2>3. QED
    BY <1>2, <2>1, <2>2
<1>3. QED
  BY <1>1, <1>2, SeatChangeKeepsOwners DEF TypeOK

\* The same of CANCEL_TICKET.
LEMMA CancelKeepsOwners ==
  ASSUME TypeOK, SeatsAreOwned(db), NEW t \in DOMAIN db.tickets, IsLive(t)
  PROVE  /\ SeatsAreOwned(Cancelled(t))
         /\ \A u \in DOMAIN Cancelled(t).tickets :
              Cancelled(t).tickets[u].status = "confirmed" =>
                \/ db.tickets[t].seat_id = None
                \/ Cancelled(t).tickets[u].seat_id # db.tickets[t].seat_id
BY CancelTicketKeepsOwners DEF Cancelled, IsLive, TypeOK

-----------------------------------------------------------------------------
(* No double booking. *)

OwnersInv == TypeOK /\ SeatsAreOwned(db)

LEMMA ConfirmKeepsOwners ==
  ASSUME OwnersInv, NEW k \in Tier, NEW c \in Client,
         NEW seats \in SUBSET Seat,
         \A s \in seats : Current.seats[s].state = "available",
         Confirm(k, c, seats)
  PROVE  SeatsAreOwned(db')
<1> DEFINE s == Min(seats)
<1>1. s \in seats
  BY MinIsElement, DBAssumption DEF Confirm
<1>2. s \in Seat /\ Current.seats[s] # BookedSeat
  BY <1>1 DEF BookedSeat
<1>3. SeatsAreOwned(Current) /\ IsDB(Current)
  BY CurrentKeepsOwners, CurrentType DEF OwnersInv
<1>4. db' = BookTierNoLog(Current, NewTicketId(Current, clock), c, k, s)
  BY DEF Confirm
<1> HIDE DEF s
<1>5. QED
  BY <1>2, <1>3, <1>4, BookTierKeepsOwners

LEMMA TierCallsKeepOwners ==
  ASSUME OwnersInv, NEW c \in Client, TierCalls(c)
  PROVE  SeatsAreOwned(db')
<1>1. SeatsAreOwned(Current) /\ IsDB(Current)
  BY CurrentKeepsOwners, CurrentType DEF OwnersInv
<1>2. ASSUME NEW k \in Tier, BookByTier(k, c)
      PROVE  SeatsAreOwned(db')
  <2>1. /\ AvailableIn(Current, k) \in SUBSET Seat
        /\ \A s \in AvailableIn(Current, k) : Current.seats[s].state = "available"
    BY DEF AvailableIn
  <2>2. QED
    BY <1>2, <2>1, ConfirmKeepsOwners DEF BookByTier
<1>3. ASSUME NEW k \in Tier, NEW n, BookByTierAndSeatNumber(k, n, c)
      PROVE  SeatsAreOwned(db')
  <2>1. /\ AvailableNumbered(Current, k, n) \in SUBSET Seat
        /\ \A s \in AvailableNumbered(Current, k, n) :
             Current.seats[s].state = "available"
    BY DEF AvailableNumbered, AvailableIn
  <2>2. QED
    BY <1>3, <2>1, ConfirmKeepsOwners DEF BookByTierAndSeatNumber
<1>4. ASSUME NEW k \in Tier, JoinWaitingList(k, c)
      PROVE  SeatsAreOwned(db')
  BY <1>1, <1>4, WaitlistAddKeepsOwners DEF JoinWaitingList
<1>5. ASSUME NEW k \in Tier, NEW n, BookByTierAndSeatNumberRejected(k, n, c)
      PROVE  SeatsAreOwned(db')
  BY <1>1, <1>5 DEF BookByTierAndSeatNumberRejected
<1>6. QED
  BY <1>2, <1>3, <1>4, <1>5 DEF TierCalls

LEMMA SeatCallsKeepOwners ==
  ASSUME OwnersInv, NEW c \in Client, SeatCalls(c)
  PROVE  SeatsAreOwned(db')
<1>1. SeatsAreOwned(Current) /\ IsDB(Current) /\ SeatsAreOwned(db) /\ IsDB(db)
  BY CurrentKeepsOwners, CurrentType DEF OwnersInv, TypeOK
<1> SUFFICES ASSUME NEW s \in Seat,
                    \/ Hold(s, c) \/ HoldRejected(s, c)
                    \/ Book(s, c) \/ BookRejected(s, c) \/ Release(s, c)
             PROVE  SeatsAreOwned(db')
  BY DEF SeatCalls
<1>2. CASE Hold(s, c)
  BY <1>1, <1>2, SeatUpdateKeepsOwners DEF Hold, HoldNoLog, CanHold, BookedSeat
<1>3. CASE HoldRejected(s, c) \/ BookRejected(s, c)
  BY <1>1, <1>3 DEF HoldRejected, BookRejected
<1>4. CASE Book(s, c)
  BY <1>1, <1>4, SeatUpdateKeepsOwners DEF Book, BookNoLog
<1>5. CASE Release(s, c)
  <2>1. CASE db.seats[s].state = "held" /\ db.seats[s].hold_by = c
    <3>1. db.seats[s] # BookedSeat
      BY <2>1 DEF BookedSeat
    <3>2. QED
      BY <1>1, <1>5, <2>1, <3>1, SeatUpdateKeepsOwners DEF Release, ReleaseNoLog
  <2>2. CASE ~(db.seats[s].state = "held" /\ db.seats[s].hold_by = c)
    BY <1>1, <1>5, <2>2 DEF Release, ReleaseNoLog
  <2>3. QED
    BY <2>1, <2>2
<1>6. QED
  BY <1>2, <1>3, <1>4, <1>5

LEMMA FirstCancelKeepsOwners ==
  ASSUME OwnersInv, NEW c \in Client, NEW t \in DOMAIN db.tickets,
         IsLive(t), AnyCancel(t, c)
  PROVE  SeatsAreOwned(db')
<1> DEFINE k == db.tickets[t].tier
           s == db.tickets[t].seat_id
<1>1. s \in Seat \cup {None}
  BY DEF OwnersInv, TypeOK, IsDB, Ticket
<1>2. IsDB(Cancelled(t))
  BY <1>1, CancelType DEF Cancelled, OwnersInv, TypeOK
<1>3. /\ SeatsAreOwned(Cancelled(t))
      /\ \A u \in DOMAIN Cancelled(t).tickets :
           Cancelled(t).tickets[u].status = "confirmed" =>
             s = None \/ Cancelled(t).tickets[u].seat_id # s
  BY CancelKeepsOwners DEF OwnersInv
<1>4. CASE CancelOnly(t, c)
  BY <1>3, <1>4 DEF CancelOnly
<1>5. CASE CancelTicketAndPromote(t, c)
  <2> DEFINE p == Head(Cancelled(t).waiting_lists[k])
  <2>1. db' = PromoteTicketNoLog(Cancelled(t), p, k, s)
    BY <1>5 DEF CancelTicketAndPromote
  <2>2. s # None
    BY <1>5 DEF CancelTicketAndPromote, MustPromote
  <2> HIDE DEF s, p, k
  <2>3. QED
    BY <1>1, <1>2, <1>3, <2>1, <2>2, PromoteKeepsOwners
<1>6. QED
  BY <1>4, <1>5, CancelForms

\* The inductive invariant.
THEOREM SeatsHaveOneOwner == CarefulSpec => []OwnersInv
<1>1. Init => OwnersInv
  <2>1. Init => TypeOK
    BY FreshDBType, BoundsAssumption DEF Init, TypeOK, IsWal, WalState
  <2>2. Init => SeatsAreOwned(db)
    BY DEF Init, FreshDB, SeatsAreOwned
  <2>3. QED
    BY <2>1, <2>2 DEF OwnersInv
<1>2. OwnersInv /\ [CarefulNext]_vars => OwnersInv'
  <2> SUFFICES ASSUME OwnersInv, [CarefulNext]_vars
               PROVE  OwnersInv'
    OBVIOUS
  <2>1. TypeOK'
    BY TypeStep DEF OwnersInv, Next
  <2>2. SeatsAreOwned(db')
    <3>1. CASE Search
      BY <3>1, CurrentKeepsOwners DEF Search, OwnersInv
    <3>2. CASE Tick \/ UNCHANGED vars
      BY <3>2 DEF Tick, vars, OwnersInv
    <3>3. CASE \E c \in Client : TierCalls(c)
      BY <3>3, TierCallsKeepOwners
    <3>4. CASE \E c \in Client : SeatCalls(c)
      BY <3>4, SeatCallsKeepOwners
    <3>5. CASE \E c \in Client, t \in DOMAIN db.tickets :
                 IsLive(t) /\ AnyCancel(t, c)
      BY <3>5, FirstCancelKeepsOwners
    <3>6. QED
      BY <3>1, <3>2, <3>3, <3>4, <3>5 DEF CarefulNext, FaultyTierNext, TierNext,
                                             FirstCancelCalls, AnyCancel
  <2>3. QED
    BY <2>1, <2>2 DEF OwnersInv
<1>3. QED
  BY <1>1, <1>2, PTL DEF CarefulSpec

\* Two confirmed tickets never share a seat, whatever holds, releases, legacy
\* bookings, tier bookings and promotions go on, as long as no ticket is
\* cancelled twice.
THEOREM NoDoubleBookingCorrect == CarefulSpec => []NoDoubleBooking
<1>1. OwnersInv => NoDoubleBooking
  BY DEF OwnersInv, SeatsAreOwned, NoDoubleBooking, Confirmed
<1>2. QED
  BY <1>1, SeatsHaveOneOwner, PTL

\* The seat of a confirmed ticket stays booked for as long as it is confirmed.
THEOREM ConfirmedSeatIsBookedCorrect == CarefulSpec => []ConfirmedSeatIsBooked
<1>1. OwnersInv => ConfirmedSeatIsBooked
  BY DEF OwnersInv, SeatsAreOwned, ConfirmedSeatIsBooked, Confirmed
<1>2. QED
  BY <1>1, SeatsHaveOneOwner, PTL
-----------------------------------------------------------------------------
(* Holds are respected. *)

LEMMA CurrentTickets ==
  ASSUME TypeOK
  PROVE  Current.tickets = db.tickets /\ Current.waiting_lists = db.waiting_lists
BY ExpireHoldsMeaning DEF TypeOK, Current

\* Holds, releases and legacy bookings touch no ticket.
LEMMA SeatCallsTouchNoTicket ==
  ASSUME TypeOK, NEW c \in Client, SeatCalls(c)
  PROVE  db'.tickets = db.tickets /\ db'.waiting_lists = db.waiting_lists
<1> SUFFICES ASSUME NEW s \in Seat,
                    \/ Hold(s, c) \/ HoldRejected(s, c)
                    \/ Book(s, c) \/ BookRejected(s, c) \/ Release(s, c)
             PROVE  db'.tickets = db.tickets /\ db'.waiting_lists = db.waiting_lists
  BY DEF SeatCalls
<1>1. /\ IsDB(db) /\ IsDB(Current)
      /\ Current.tickets = db.tickets /\ Current.waiting_lists = db.waiting_lists
  BY CurrentType, ExpireHoldsMeaning DEF TypeOK, Current
<1>2. CASE Hold(s, c)
  BY <1>1, <1>2, HoldMeaning DEF Hold
<1>3. CASE HoldRejected(s, c) \/ BookRejected(s, c)
  BY <1>1, <1>3 DEF HoldRejected, BookRejected
<1>4. CASE Book(s, c)
  BY <1>1, <1>4, BookMeaning DEF Book
<1>5. CASE Release(s, c)
  BY <1>1, <1>5, ReleaseMeaning DEF Release
<1>6. QED
  BY <1>2, <1>3, <1>4, <1>5

\* A seat that is held stays out of the hands of tickets that do not have it.
HeldSeatsKeptFrom(d) ==
  \A s \in Seat, t \in DOMAIN d.tickets :
    /\ Current.seats[s].state = "held"
    /\ d.tickets[t].status = "confirmed"
    /\ d.tickets[t].seat_id = s
    => Confirmed(t)

LEMMA SameTicketsRespectHolds ==
  ASSUME NEW d, d.tickets = db.tickets
  PROVE  HeldSeatsKeptFrom(d)
BY DEF HeldSeatsKeptFrom, Confirmed

LEMMA ConfirmRespectsHolds ==
  ASSUME OwnersInv, NEW k, NEW c, NEW seats \in SUBSET Seat,
         \A s \in seats : Current.seats[s].state = "available",
         Confirm(k, c, seats)
  PROVE  HeldSeatsKeptFrom(db')
<1> DEFINE t == NewTicketId(Current, clock)
           s == Min(seats)
           e == BookTierNoLog(Current, t, c, k, s)
<1>1. s \in seats /\ db' = e
  BY MinIsElement, DBAssumption DEF Confirm
<1> HIDE DEF t, s
<1>2. IsDB(Current) /\ Current.tickets = db.tickets
  BY CurrentType, CurrentTickets DEF OwnersInv
<1>3. /\ DOMAIN e.tickets = DOMAIN Current.tickets \cup {t}
      /\ e.tickets[t].seat_id = s
      /\ \A u \in DOMAIN Current.tickets : u # t => e.tickets[u] = Current.tickets[u]
  BY <1>2, BookTierMeaning
<1> HIDE DEF e
<1>4. QED
  BY <1>1, <1>2, <1>3 DEF HeldSeatsKeptFrom, Confirmed

LEMMA TierCallsRespectHolds ==
  ASSUME OwnersInv, NEW c \in Client, TierCalls(c)
  PROVE  HeldSeatsKeptFrom(db')
<1>1. IsDB(Current) /\ Current.tickets = db.tickets
  BY CurrentType, CurrentTickets DEF OwnersInv
<1>2. ASSUME NEW k \in Tier, BookByTier(k, c)
      PROVE  HeldSeatsKeptFrom(db')
  <2>1. /\ AvailableIn(Current, k) \in SUBSET Seat
        /\ \A s \in AvailableIn(Current, k) : Current.seats[s].state = "available"
    BY DEF AvailableIn
  <2>2. QED
    BY <1>2, <2>1, ConfirmRespectsHolds DEF BookByTier
<1>3. ASSUME NEW k \in Tier, NEW n, BookByTierAndSeatNumber(k, n, c)
      PROVE  HeldSeatsKeptFrom(db')
  <2>1. /\ AvailableNumbered(Current, k, n) \in SUBSET Seat
        /\ \A s \in AvailableNumbered(Current, k, n) :
             Current.seats[s].state = "available"
    BY DEF AvailableNumbered, AvailableIn
  <2>2. QED
    BY <1>3, <2>1, ConfirmRespectsHolds DEF BookByTierAndSeatNumber
<1>4. ASSUME NEW k \in Tier, JoinWaitingList(k, c)
      PROVE  HeldSeatsKeptFrom(db')
  <2> DEFINE t == NewTicketId(Current, clock)
             e == WaitlistAddNoLog(Current, t, c, k)
  <2>1. db' = e
    BY <1>4 DEF JoinWaitingList
  <2> HIDE DEF t
  <2>2. /\ DOMAIN e.tickets = DOMAIN Current.tickets \cup {t}
        /\ e.tickets[t].status = "waiting"
        /\ \A u \in DOMAIN Current.tickets : u # t => e.tickets[u] = Current.tickets[u]
    BY <1>1, WaitlistAddMeaning
  <2> HIDE DEF e
  <2>3. QED
    BY <1>1, <2>1, <2>2 DEF HeldSeatsKeptFrom, Confirmed
<1>5. ASSUME NEW k \in Tier, NEW n, BookByTierAndSeatNumberRejected(k, n, c)
      PROVE  HeldSeatsKeptFrom(db')
  BY <1>1, <1>5, SameTicketsRespectHolds DEF BookByTierAndSeatNumberRejected
<1>6. QED
  BY <1>2, <1>3, <1>4, <1>5 DEF TierCalls

\* The seat a first cancellation hands on was booked, not held.
LEMMA FirstCancelRespectsHolds ==
  ASSUME OwnersInv, NEW c \in Client, NEW t \in DOMAIN db.tickets,
         IsLive(t), AnyCancel(t, c)
  PROVE  HeldSeatsKeptFrom(db')
<1> DEFINE k == db.tickets[t].tier
           s == db.tickets[t].seat_id
           d == Cancelled(t)
<1>1. IsDB(db) /\ IsDB(Current) /\ db.tickets[t] \in Ticket
  BY CurrentType DEF OwnersInv, TypeOK, IsDB
<1>2. s \in Seat \cup {None} /\ d = CancelTicketNoLog(db, t, k, s)
  BY <1>1 DEF Ticket, Cancelled
<1>3. IsDB(d)
  BY <1>1, <1>2, CancelType
<1>4. s # None => s \in Seat /\ Current.seats[s].state # "held"
  <2> SUFFICES ASSUME s # None PROVE s \in Seat /\ Current.seats[s].state # "held"
    OBVIOUS
  <2>1. s \in Seat /\ db.seats[s] = BookedSeat
    BY <1>1 DEF OwnersInv, SeatsAreOwned, IsLive, Ticket
  <2>2. Current.seats[s] = IF Expired(db.seats[s], clock) THEN FreeSeat ELSE db.seats[s]
    BY <1>1, <2>1, ExpireHoldsMeaning DEF Current
  <2>3. QED
    BY <2>1, <2>2 DEF BookedSeat, FreeSeat
<1> HIDE DEF k, s, d
<1>5. /\ DOMAIN d.tickets = DOMAIN db.tickets
      /\ d.tickets[t].status = "cancelled"
      /\ \A u \in DOMAIN db.tickets : u # t => d.tickets[u] = db.tickets[u]
  BY <1>1, <1>2, CancelMeaning
<1>6. CASE CancelOnly(t, c)
  BY <1>5, <1>6 DEF CancelOnly, HeldSeatsKeptFrom, Confirmed, d
<1>7. CASE CancelTicketAndPromote(t, c)
  <2> DEFINE p == Head(d.waiting_lists[k])
             e == PromoteTicketNoLog(d, p, k, s)
  <2>1. s # None /\ db' = e
    BY <1>7 DEF CancelTicketAndPromote, MustPromote, k, s, d
  <2> HIDE DEF p
  <2>2. CASE p \notin DOMAIN d.tickets
    BY <1>5, <2>1, <2>2 DEF PromoteTicketNoLog, HeldSeatsKeptFrom, Confirmed
  <2>3. CASE p \in DOMAIN d.tickets
    <3>1. /\ DOMAIN e.tickets = DOMAIN d.tickets
          /\ e.tickets[p].seat_id = s
          /\ \A u \in DOMAIN d.tickets : u # p => e.tickets[u] = d.tickets[u]
      BY <1>3, <2>3, PromoteMeaning
    <3> HIDE DEF e
    <3>2. QED
      BY <1>4, <1>5, <2>1, <3>1 DEF HeldSeatsKeptFrom, Confirmed
  <2>4. QED
    BY <2>2, <2>3
<1>8. QED
  BY <1>6, <1>7, CancelForms

\* A seat under a hold that stands goes to no ticket, neither by a tier booking
\* nor by a promotion, as long as no ticket is cancelled twice.
THEOREM HoldsAreRespectedCorrect == CarefulSpec => HoldsAreRespected
<1>1. OwnersInv /\ [CarefulNext]_vars =>
        [\A s \in Seat, t \in DOMAIN db'.tickets :
           /\ Current.seats[s].state = "held"
           /\ db'.tickets[t].status = "confirmed"
           /\ db'.tickets[t].seat_id = s
           => Confirmed(t)]_vars
  <2> SUFFICES ASSUME OwnersInv, CarefulNext
               PROVE  HeldSeatsKeptFrom(db')
    BY DEF HeldSeatsKeptFrom
  <2>1. CASE Search
    BY <2>1, CurrentTickets, SameTicketsRespectHolds DEF Search, OwnersInv
  <2>2. CASE Tick
    BY <2>2, SameTicketsRespectHolds DEF Tick
  <2>3. CASE \E c \in Client : TierCalls(c)
    BY <2>3, TierCallsRespectHolds
  <2>4. CASE \E c \in Client : SeatCalls(c)
    BY <2>4, SeatCallsTouchNoTicket, SameTicketsRespectHolds DEF OwnersInv
  <2>5. CASE \E c \in Client, t \in DOMAIN db.tickets :
                 IsLive(t) /\ AnyCancel(t, c)
    BY <2>5, FirstCancelRespectsHolds
  <2>6. QED
    BY <2>1, <2>2, <2>3, <2>4, <2>5 DEF CarefulNext, FaultyTierNext, TierNext,
                                             FirstCancelCalls, AnyCancel
<1>2. QED
  BY <1>1, SeatsHaveOneOwner, PTL DEF CarefulSpec, HoldsAreRespected

-----------------------------------------------------------------------------
(* The log.  Under the calls of the shipped clients a restart at any       *)
(* moment rebuilds the database in memory.  The reason is that these calls *)
(* hold no seat: expiry, the one change that is not logged, then changes   *)
(* nothing, and every other change is one transition with one log entry    *)
(* for it.  Under every caller, double cancellations and holds included, a *)
(* log that replays at all rebuilds the database up to expired holds.      *)

NoHolds(d) == \A s \in Seat : d.seats[s].state # "held"

\* The inductive invariant.
ReplayInv == TypeOK /\ NoHolds(db) /\ Follows(wal, db)

-----------------------------------------------------------------------------
(* Transitions that take no hold. *)

LEMMA ExpiryChangesNothing ==
  ASSUME NEW d, IsDB(d), NoHolds(d), NEW now
  PROVE  ExpireHolds(d, now) = d
<1> DEFINE seats == [s \in Seat |-> IF Expired(d.seats[s], now)
                                      THEN FreeSeat ELSE d.seats[s]]
<1>1. \A s \in Seat : ~Expired(d.seats[s], now)
  BY DEF NoHolds, Expired
<1>2. seats = d.seats
  BY <1>1 DEF IsDB
<1>3. ExpireHolds(d, now) = [d EXCEPT !.seats = seats]
  BY DEF ExpireHolds
<1> HIDE DEF seats
<1>4. QED
  BY <1>2, <1>3, DBFields

\* A seat that changes becomes free or booked.
LEMMA SeatChangeTakesNoHold ==
  ASSUME NEW d, NoHolds(d), NEW e,
         \A s \in Seat : e.seats[s] \in {FreeSeat, BookedSeat, d.seats[s]}
  PROVE  NoHolds(e)
BY DEF NoHolds, FreeSeat, BookedSeat

LEMMA BookTierTakesNoHold ==
  ASSUME NEW d, IsDB(d), NoHolds(d), NEW t, NEW c, NEW k, NEW s \in Seat
  PROVE  NoHolds(BookTierNoLog(d, t, c, k, s))
<1> DEFINE e == BookTierNoLog(d, t, c, k, s)
<1>1. e.seats = [d.seats EXCEPT ![s] = BookedSeat]
  BY DEF BookTierNoLog, IsDB
<1> HIDE DEF e
<1>2. \A x \in Seat : e.seats[x] = IF x = s THEN BookedSeat ELSE d.seats[x]
  BY <1>1 DEF IsDB
<1>3. QED
  BY <1>2, SeatChangeTakesNoHold DEF e

LEMMA WaitlistAddTakesNoHold ==
  ASSUME NEW d, IsDB(d), NoHolds(d), NEW t, NEW c, NEW k
  PROVE  NoHolds(WaitlistAddNoLog(d, t, c, k))
<1> DEFINE e == WaitlistAddNoLog(d, t, c, k)
<1>1. e.seats = d.seats
  BY DEF WaitlistAddNoLog, IsDB
<1> HIDE DEF e
<1>2. QED
  BY <1>1 DEF NoHolds, e

LEMMA CancelTakesNoHold ==
  ASSUME NEW d, IsDB(d), NoHolds(d), NEW t, NEW k, NEW s
  PROVE  NoHolds(CancelTicketNoLog(d, t, k, s))
<1>1. CASE t \notin DOMAIN d.tickets
  BY <1>1 DEF CancelTicketNoLog
<1>2. CASE t \in DOMAIN d.tickets
  <2> DEFINE e == CancelTicketNoLog(d, t, k, s)
  <2>1. e.seats = IF s = None THEN d.seats ELSE [d.seats EXCEPT ![s] = FreeSeat]
    BY <1>2 DEF CancelTicketNoLog, IsDB
  <2> HIDE DEF e
  <2>2. \A x \in Seat : e.seats[x] \in {FreeSeat, d.seats[x]}
    BY <2>1 DEF IsDB
  <2>3. QED
    BY <2>2, SeatChangeTakesNoHold DEF e
<1>3. QED
  BY <1>1, <1>2

LEMMA PromoteTakesNoHold ==
  ASSUME NEW d, IsDB(d), NoHolds(d), NEW t, NEW k, NEW s
  PROVE  NoHolds(PromoteTicketNoLog(d, t, k, s))
<1>1. CASE t \notin DOMAIN d.tickets
  BY <1>1 DEF PromoteTicketNoLog
<1>2. CASE t \in DOMAIN d.tickets
  <2> DEFINE e == PromoteTicketNoLog(d, t, k, s)
  <2>1. e.seats = [d.seats EXCEPT ![s] = BookedSeat]
    BY <1>2 DEF PromoteTicketNoLog, IsDB
  <2> HIDE DEF e
  <2>2. \A x \in Seat : e.seats[x] \in {BookedSeat, d.seats[x]}
    BY <2>1 DEF IsDB
  <2>3. QED
    BY <2>2, SeatChangeTakesNoHold DEF e
<1>3. QED
  BY <1>1, <1>2

-----------------------------------------------------------------------------
(* The log follows the database. *)

LEMMA CurrentIsDB ==
  ASSUME ReplayInv
  PROVE  Current = db /\ IsDB(db) /\ IsWal(wal) /\ Follows(wal, db)
BY ExpiryChangesNothing DEF ReplayInv, TypeOK, Current

LEMMA ConfirmIsLogged ==
  ASSUME ReplayInv, NEW k, NEW c, NEW seats \in SUBSET Seat, Confirm(k, c, seats)
  PROVE  NoHolds(db') /\ Follows(wal', db')
<1> DEFINE s == Min(seats)
           t == NewTicketId(Current, clock)
<1>1. s \in Seat
  BY MinIsElement, DBAssumption DEF Confirm
<1>2. /\ db' = BookTierNoLog(Current, t, c, k, s)
      /\ wal' = Logged(wal, BookTierEntry(t, c, k, s))
  BY DEF Confirm
<1> HIDE DEF s, t
<1>3. NoHolds(db)
  BY DEF ReplayInv
<1>4. NoHolds(db')
  BY <1>1, <1>2, <1>3, CurrentIsDB, BookTierTakesNoHold
<1>5. Follows(wal', db')
  BY <1>2, CurrentIsDB, TierEntriesFollow
<1>6. QED
  BY <1>4, <1>5

LEMMA JoinIsLogged ==
  ASSUME ReplayInv, NEW k, NEW c, JoinWaitingList(k, c)
  PROVE  NoHolds(db') /\ Follows(wal', db')
<1> DEFINE t == NewTicketId(Current, clock)
<1>1. /\ db' = WaitlistAddNoLog(Current, t, c, k)
      /\ wal' = Logged(wal, WaitlistAddEntry(t, c, k))
  BY DEF JoinWaitingList
<1> HIDE DEF t
<1>2. NoHolds(db)
  BY DEF ReplayInv
<1>3. NoHolds(db')
  BY <1>1, <1>2, CurrentIsDB, WaitlistAddTakesNoHold
<1>4. Follows(wal', db')
  BY <1>1, CurrentIsDB, TierEntriesFollow
<1>5. QED
  BY <1>3, <1>4

LEMMA TierCallsAreLogged ==
  ASSUME ReplayInv, NEW c, TierCalls(c)
  PROVE  NoHolds(db') /\ Follows(wal', db')
<1>1. ASSUME NEW k \in Tier, BookByTier(k, c)
      PROVE  NoHolds(db') /\ Follows(wal', db')
  <2>1. AvailableIn(Current, k) \in SUBSET Seat
    BY DEF AvailableIn
  <2>2. QED
    BY <1>1, <2>1, ConfirmIsLogged DEF BookByTier
<1>2. ASSUME NEW k \in Tier, NEW n, BookByTierAndSeatNumber(k, n, c)
      PROVE  NoHolds(db') /\ Follows(wal', db')
  <2>1. AvailableNumbered(Current, k, n) \in SUBSET Seat
    BY DEF AvailableNumbered, AvailableIn
  <2>2. QED
    BY <1>2, <2>1, ConfirmIsLogged DEF BookByTierAndSeatNumber
<1>3. ASSUME NEW k \in Tier, NEW n, BookByTierAndSeatNumberRejected(k, n, c)
      PROVE  NoHolds(db') /\ Follows(wal', db')
  BY <1>3, CurrentIsDB
     DEF BookByTierAndSeatNumberRejected, ReplayInv
<1>4. QED
  BY <1>1, <1>2, <1>3, JoinIsLogged DEF TierCalls

\* A cancellation appends one entry, or two when it promotes.
LEMMA CancelIsLogged ==
  ASSUME ReplayInv, NEW c, NEW t \in DOMAIN db.tickets, Cancel(t, c)
  PROVE  NoHolds(db') /\ Follows(wal', db')
<1> DEFINE k == db.tickets[t].tier
           s == db.tickets[t].seat_id
           d == Cancelled(t)
<1>1. s \in Seat \cup {None}
  BY DEF ReplayInv, TypeOK, IsDB, Ticket
<1>2. d = CancelTicketNoLog(db, t, k, s)
  BY DEF Cancelled
<1>3. CASE CancelTicket(t, c)
  <2>1. db' = d /\ wal' = Logged(wal, CancelEntry(t, k, s))
    BY <1>3 DEF CancelTicket, CancelOnly
  <2> HIDE DEF d, k, s
  <2>2. NoHolds(db')
    BY <1>2, <2>1, CurrentIsDB, CancelTakesNoHold DEF ReplayInv
  <2>3. Follows(wal', db')
    BY <1>2, <2>1, CurrentIsDB, TierEntriesFollow
  <2>4. QED
    BY <2>2, <2>3
<1>4. CASE CancelTicketAndPromote(t, c)
  <2> DEFINE p == Head(d.waiting_lists[k])
  <2>1. /\ db' = PromoteTicketNoLog(d, p, k, s)
        /\ wal' = Logged(Logged(wal, CancelEntry(t, k, s)), PromoteEntry(p, k, s))
    BY <1>4 DEF CancelTicketAndPromote
  <2> HIDE DEF p, d, k, s
  <2>2. NoHolds(d) /\ IsDB(d)
    BY <1>1, <1>2, CurrentIsDB, CancelTakesNoHold, CancelType DEF ReplayInv
  <2>3. NoHolds(db')
    BY <2>1, <2>2, PromoteTakesNoHold
  <2> DEFINE w == Logged(wal, CancelEntry(t, k, s))
  <2>4. IsWal(w) /\ Follows(w, d)
    BY <1>1, <1>2, CurrentIsDB, TierEntriesFollow, LoggedKeepsType
  <2> HIDE DEF w
  <2>5. Follows(wal', db')
    BY <2>1, <2>4, TierEntriesFollow DEF w
  <2>6. QED
    BY <2>3, <2>5
<1>5. QED
  BY <1>3, <1>4 DEF Cancel

\* The inductive invariant: no seat is held, and the log follows the database.
THEOREM ReplayInvariant == TierSpec => []ReplayInv
<1>1. Init => ReplayInv
  <2>1. Init => TypeOK
    BY FreshDBType, BoundsAssumption DEF Init, TypeOK, IsWal, WalState
  <2>2. Init => NoHolds(db) /\ Follows(wal, db)
    BY DEF Init, FreshDB, FreeSeat, NoHolds, Follows, WalState
  <2>3. QED
    BY <2>1, <2>2 DEF ReplayInv
<1>2. ReplayInv /\ [TierNext]_vars => ReplayInv'
  <2> SUFFICES ASSUME ReplayInv, [TierNext]_vars
               PROVE  ReplayInv'
    OBVIOUS
  <2>1. TypeOK'
    BY TypeStep DEF ReplayInv, Next, CarefulNext, FaultyTierNext
  <2>2. NoHolds(db') /\ Follows(wal', db')
    <3>1. CASE Search
      BY <3>1, CurrentIsDB DEF Search, ReplayInv
    <3>2. CASE Tick \/ UNCHANGED vars
      BY <3>2 DEF Tick, vars, ReplayInv
    <3>3. CASE \E c \in Client : TierCalls(c)
      BY <3>3, TierCallsAreLogged
    <3>4. CASE \E c \in Client : FirstCancelCalls(c)
      BY <3>4, CancelIsLogged DEF FirstCancelCalls
    <3>5. QED
      BY <3>1, <3>2, <3>3, <3>4 DEF TierNext
  <2>3. QED
    BY <2>1, <2>2 DEF ReplayInv
<1>3. QED
  BY <1>1, <1>2, PTL DEF TierSpec

\* Under the calls of the shipped clients, without cancelling twice, from_wal
\* on the log as it stands rebuilds the database in memory: nothing that was
\* answered is lost by a restart, and the restart does not raise.
THEOREM LogReplaysExactlyCorrect == TierSpec => []LogReplaysExactly
<1>1. ReplayInv => LogReplaysExactly
  <2> SUFFICES ASSUME ReplayInv PROVE LogReplaysExactly
    OBVIOUS
  <2>1. wal = [replays |-> wal.replays, rebuilt |-> wal.rebuilt]
    BY DEF ReplayInv, TypeOK, IsWal, WalState
  <2>2. wal.replays = TRUE /\ wal.rebuilt = db
    BY DEF ReplayInv, TypeOK, IsWal, Follows
  <2>3. QED
    BY <2>1, <2>2, Zenon DEF LogReplaysExactly, WalState
<1>2. QED
  BY <1>1, ReplayInvariant, PTL

-----------------------------------------------------------------------------
(* Under every caller: while the log replays at all, its replay and memory *)
(* differ only in holds whose expiry one side has not noticed.  That is an *)
(* equivalence of database values which every transition respects, which   *)
(* expiry itself stays within and which the passing of time keeps.         *)

Fresh(seat, now) == IF Expired(seat, now) THEN FreeSeat ELSE seat

Alike(d, e, now) ==
  /\ d.tickets = e.tickets
  /\ d.waiting_lists = e.waiting_lists
  /\ \A s \in Seat : Fresh(d.seats[s], now) = Fresh(e.seats[s], now)

\* The log, if it replays, tracks d.
Tracks(w, d, now) == w.replays => Alike(w.rebuilt, d, now)

\* The inductive invariant.
AgreementInv == TypeOK /\ Tracks(wal, db, clock)

LEMMA AlikeMeansSameCurrent ==
  ASSUME NEW d, IsDB(d), NEW e, IsDB(e), NEW now, Alike(d, e, now)
  PROVE  ExpireHolds(d, now) = ExpireHolds(e, now)
<1> DEFINE x == ExpireHolds(d, now)
           y == ExpireHolds(e, now)
<1>1. /\ x.tickets = d.tickets /\ x.waiting_lists = d.waiting_lists
      /\ \A s \in Seat : x.seats[s] = Fresh(d.seats[s], now)
  BY ExpireHoldsMeaning DEF Fresh
<1>2. /\ y.tickets = e.tickets /\ y.waiting_lists = e.waiting_lists
      /\ \A s \in Seat : y.seats[s] = Fresh(e.seats[s], now)
  BY ExpireHoldsMeaning DEF Fresh
<1>3. IsDB(x) /\ IsDB(y)
  BY ExpireHoldsType
<1> HIDE DEF x, y
<1>4. \A s \in Seat : x.seats[s] = y.seats[s]
  BY <1>1, <1>2 DEF Alike
<1>5. x.seats = y.seats
  BY <1>3, <1>4 DEF IsDB
<1>6. x = y
  BY <1>1, <1>2, <1>3, <1>5, DBFields DEF Alike
<1>7. QED
  BY <1>6 DEF x, y

\* Noticing expired holds stays alike.
LEMMA ExpiryStaysAlike ==
  ASSUME NEW d, NEW e, IsDB(e), NEW now, Alike(d, e, now)
  PROVE  Alike(d, ExpireHolds(e, now), now)
<1> DEFINE y == ExpireHolds(e, now)
<1>1. /\ y.tickets = e.tickets /\ y.waiting_lists = e.waiting_lists
      /\ \A s \in Seat : y.seats[s] = Fresh(e.seats[s], now)
  BY ExpireHoldsMeaning DEF Fresh
<1> HIDE DEF y
<1>2. \A s \in Seat : Fresh(y.seats[s], now) = Fresh(e.seats[s], now)
  BY <1>1 DEF Fresh, Expired, FreeSeat
<1>3. Alike(d, y, now)
  BY <1>1, <1>2 DEF Alike
<1>4. QED
  BY <1>3 DEF y

\* What is alike stays alike as time passes.
LEMMA AlikeLater ==
  ASSUME NEW d, IsDB(d), NEW e, IsDB(e), NEW now \in Nat, Alike(d, e, now)
  PROVE  Alike(d, e, now + 1)
<1> SUFFICES ASSUME NEW s \in Seat
             PROVE  Fresh(d.seats[s], now + 1) = Fresh(e.seats[s], now + 1)
  BY DEF Alike
<1> DEFINE x == d.seats[s]
           y == e.seats[s]
<1>1. Fresh(x, now) = Fresh(y, now)
  BY DEF Alike
<1>2. x \in SeatRecord /\ y \in SeatRecord
  BY DEF IsDB
<1> HIDE DEF x, y
<1>3. x.hold_expires \in Nat \cup {None} /\ y.hold_expires \in Nat \cup {None}
  BY <1>2 DEF SeatRecord
<1>4. /\ Expired(x, now) => Expired(x, now + 1)
      /\ Expired(y, now) => Expired(y, now + 1)
  BY <1>3 DEF Expired
<1>5. ~Expired(FreeSeat, now + 1)
  BY DEF Expired, FreeSeat
<1>6. Fresh(x, now + 1) = Fresh(y, now + 1)
  BY <1>1, <1>4, <1>5 DEF Fresh
<1>7. QED
  BY <1>6 DEF x, y

\* A change of one seat that both sides come out of alike.
LEMMA SeatChangeStaysAlike ==
  ASSUME NEW d, NEW e, NEW now, Alike(d, e, now), NEW s, NEW x, NEW y,
         x.tickets = d.tickets, x.waiting_lists = d.waiting_lists,
         y.tickets = e.tickets, y.waiting_lists = e.waiting_lists,
         \A z \in Seat : z # s => x.seats[z] = d.seats[z] /\ y.seats[z] = e.seats[z],
         s \in Seat => Fresh(x.seats[s], now) = Fresh(y.seats[s], now)
  PROVE  Alike(x, y, now)
BY DEF Alike

LEMMA HoldStaysAlike ==
  ASSUME NEW d, IsDB(d), NEW e, IsDB(e), NEW now, Alike(d, e, now),
         NEW s, NEW c, NEW ts
  PROVE  Alike(HoldNoLog(d, s, c, ts), HoldNoLog(e, s, c, ts), now)
<1> DEFINE x == HoldNoLog(d, s, c, ts)
           y == HoldNoLog(e, s, c, ts)
<1>1. /\ x.tickets = d.tickets /\ x.waiting_lists = d.waiting_lists
      /\ \A z \in Seat : x.seats[z] = IF z = s THEN HeldSeat(c, ts + HoldTTL) ELSE d.seats[z]
  BY HoldMeaning
<1>2. /\ y.tickets = e.tickets /\ y.waiting_lists = e.waiting_lists
      /\ \A z \in Seat : y.seats[z] = IF z = s THEN HeldSeat(c, ts + HoldTTL) ELSE e.seats[z]
  BY HoldMeaning
<1> HIDE DEF x, y
<1>3. Alike(x, y, now)
  BY <1>1, <1>2, SeatChangeStaysAlike
<1>4. QED
  BY <1>3 DEF x, y

LEMMA BookStaysAlike ==
  ASSUME NEW d, IsDB(d), NEW e, IsDB(e), NEW now, Alike(d, e, now), NEW s
  PROVE  Alike(BookNoLog(d, s), BookNoLog(e, s), now)
<1> DEFINE x == BookNoLog(d, s)
           y == BookNoLog(e, s)
<1>1. /\ x.tickets = d.tickets /\ x.waiting_lists = d.waiting_lists
      /\ \A z \in Seat : x.seats[z] = IF z = s THEN BookedSeat ELSE d.seats[z]
  BY BookMeaning
<1>2. /\ y.tickets = e.tickets /\ y.waiting_lists = e.waiting_lists
      /\ \A z \in Seat : y.seats[z] = IF z = s THEN BookedSeat ELSE e.seats[z]
  BY BookMeaning
<1> HIDE DEF x, y
<1>3. Alike(x, y, now)
  BY <1>1, <1>2, SeatChangeStaysAlike
<1>4. QED
  BY <1>3 DEF x, y

\* A release finds the hold on both sides, or one that expired on one side.
LEMMA ReleaseStaysAlike ==
  ASSUME NEW d, IsDB(d), NEW e, IsDB(e), NEW now, Alike(d, e, now),
         NEW s \in Seat, NEW c
  PROVE  Alike(ReleaseNoLog(d, s, c), ReleaseNoLog(e, s, c), now)
<1> DEFINE x == ReleaseNoLog(d, s, c)
           y == ReleaseNoLog(e, s, c)
           Freed(seat) == IF seat.state = "held" /\ seat.hold_by = c
                            THEN FreeSeat ELSE seat
<1>1. /\ x.tickets = d.tickets /\ x.waiting_lists = d.waiting_lists
      /\ \A z \in Seat : x.seats[z] = IF z = s THEN Freed(d.seats[z]) ELSE d.seats[z]
  BY ReleaseMeaning
<1>2. /\ y.tickets = e.tickets /\ y.waiting_lists = e.waiting_lists
      /\ \A z \in Seat : y.seats[z] = IF z = s THEN Freed(e.seats[z]) ELSE e.seats[z]
  BY ReleaseMeaning
<1>3. Fresh(Freed(d.seats[s]), now) = Fresh(Freed(e.seats[s]), now)
  <2>1. Fresh(d.seats[s], now) = Fresh(e.seats[s], now)
    BY DEF Alike
  <2>2. ~Expired(FreeSeat, now) /\ FreeSeat.state # "held"
    BY DEF Expired, FreeSeat
  <2>3. QED
    BY <2>1, <2>2 DEF Fresh
<1> HIDE DEF x, y, Freed
<1>4. Alike(x, y, now)
  BY <1>1, <1>2, <1>3, SeatChangeStaysAlike
<1>5. QED
  BY <1>4 DEF x, y

LEMMA BookTierStaysAlike ==
  ASSUME NEW d, IsDB(d), NEW e, IsDB(e), NEW now, Alike(d, e, now),
         NEW t, NEW c, NEW k, NEW s
  PROVE  Alike(BookTierNoLog(d, t, c, k, s), BookTierNoLog(e, t, c, k, s), now)
<1> DEFINE x == BookTierNoLog(d, t, c, k, s)
           y == BookTierNoLog(e, t, c, k, s)
<1>1. x.tickets = y.tickets
  BY DEF Alike, BookTierNoLog, IsDB
<1>2. /\ x.waiting_lists = d.waiting_lists
      /\ \A z \in Seat : x.seats[z] = IF z = s THEN BookedSeat ELSE d.seats[z]
  BY BookTierMeaning
<1>3. /\ y.waiting_lists = e.waiting_lists
      /\ \A z \in Seat : y.seats[z] = IF z = s THEN BookedSeat ELSE e.seats[z]
  BY BookTierMeaning
<1> HIDE DEF x, y
<1>4. Alike(x, y, now)
  BY <1>1, <1>2, <1>3 DEF Alike
<1>5. QED
  BY <1>4 DEF x, y

LEMMA WaitlistAddStaysAlike ==
  ASSUME NEW d, IsDB(d), NEW e, IsDB(e), NEW now, Alike(d, e, now),
         NEW t, NEW c, NEW k
  PROVE  Alike(WaitlistAddNoLog(d, t, c, k), WaitlistAddNoLog(e, t, c, k), now)
<1> DEFINE x == WaitlistAddNoLog(d, t, c, k)
           y == WaitlistAddNoLog(e, t, c, k)
<1>1. x.tickets = y.tickets /\ x.waiting_lists = y.waiting_lists
  BY DEF Alike, WaitlistAddNoLog, IsDB
<1>2. x.seats = d.seats /\ y.seats = e.seats
  BY WaitlistAddMeaning
<1> HIDE DEF x, y
<1>3. Alike(x, y, now)
  BY <1>1, <1>2 DEF Alike
<1>4. QED
  BY <1>3 DEF x, y

LEMMA CancelStaysAlike ==
  ASSUME NEW d, IsDB(d), NEW e, IsDB(e), NEW now, Alike(d, e, now),
         NEW t, NEW k, NEW s
  PROVE  Alike(CancelTicketNoLog(d, t, k, s), CancelTicketNoLog(e, t, k, s), now)
<1>1. d.tickets = e.tickets /\ d.waiting_lists = e.waiting_lists
  BY DEF Alike
<1>2. CASE t \notin DOMAIN d.tickets
  BY <1>1, <1>2 DEF CancelTicketNoLog
<1>3. CASE t \in DOMAIN d.tickets
  <2> DEFINE x == CancelTicketNoLog(d, t, k, s)
             y == CancelTicketNoLog(e, t, k, s)
  <2>1. x.tickets = y.tickets
    BY <1>1, <1>3 DEF CancelTicketNoLog, IsDB
  <2>2. /\ x.waiting_lists = Dequeue(d.waiting_lists, k, t)
        /\ \A z \in Seat : x.seats[z] = IF z = s THEN FreeSeat ELSE d.seats[z]
    BY <1>3, CancelMeaning
  <2>3. /\ y.waiting_lists = Dequeue(e.waiting_lists, k, t)
        /\ \A z \in Seat : y.seats[z] = IF z = s THEN FreeSeat ELSE e.seats[z]
    BY <1>1, <1>3, CancelMeaning
  <2> HIDE DEF x, y
  <2>4. Alike(x, y, now)
    BY <1>1, <2>1, <2>2, <2>3 DEF Alike
  <2>5. QED
    BY <2>4 DEF x, y
<1>4. QED
  BY <1>2, <1>3

LEMMA PromoteStaysAlike ==
  ASSUME NEW d, IsDB(d), NEW e, IsDB(e), NEW now, Alike(d, e, now),
         NEW t, NEW k, NEW s
  PROVE  Alike(PromoteTicketNoLog(d, t, k, s), PromoteTicketNoLog(e, t, k, s), now)
<1>1. d.tickets = e.tickets /\ d.waiting_lists = e.waiting_lists
  BY DEF Alike
<1>2. CASE t \notin DOMAIN d.tickets
  BY <1>1, <1>2 DEF PromoteTicketNoLog
<1>3. CASE t \in DOMAIN d.tickets
  <2> DEFINE x == PromoteTicketNoLog(d, t, k, s)
             y == PromoteTicketNoLog(e, t, k, s)
  <2>1. x.tickets = y.tickets
    BY <1>1, <1>3 DEF PromoteTicketNoLog, IsDB
  <2>2. /\ x.waiting_lists = Dequeue(d.waiting_lists, k, t)
        /\ \A z \in Seat : x.seats[z] = IF z = s THEN BookedSeat ELSE d.seats[z]
    BY <1>3, PromoteMeaning
  <2>3. /\ y.waiting_lists = Dequeue(e.waiting_lists, k, t)
        /\ \A z \in Seat : y.seats[z] = IF z = s THEN BookedSeat ELSE e.seats[z]
    BY <1>1, <1>3, PromoteMeaning
  <2> HIDE DEF x, y
  <2>4. Alike(x, y, now)
    BY <1>1, <2>1, <2>2, <2>3 DEF Alike
  <2>5. QED
    BY <2>4 DEF x, y
<1>4. QED
  BY <1>2, <1>3

\* An entry appended to the log, while the change it stands for is made in
\* memory: the log either raises from now on or goes on tracking memory.
LEMMA LoggedTracks ==
  ASSUME NEW w, IsWal(w), NEW e, NEW d, NEW now,
         w.replays => Alike(ApplyEntry(w.rebuilt, e), d, now)
  PROVE  Tracks(Logged(w, e), d, now)
<1>1. CASE ~w.replays \/ Raises(w.rebuilt, e)
  BY <1>1 DEF Logged, Tracks, DeadWal, WalState
<1>2. CASE ~(~w.replays \/ Raises(w.rebuilt, e))
  <2> DEFINE rebuilt == ApplyEntry(w.rebuilt, e)
             v == [w EXCEPT !.rebuilt = rebuilt]
  <2>1. Logged(w, e) = v
    BY <1>2 DEF Logged
  <2>2. w = [replays |-> w.replays, rebuilt |-> w.rebuilt]
    BY DEF IsWal, WalState
  <2>3. w.replays /\ Alike(rebuilt, d, now)
    BY <1>2
  <2> HIDE DEF rebuilt
  <2>4. v.rebuilt = rebuilt
    BY <2>2
  <2> HIDE DEF v
  <2>5. QED
    BY <2>1, <2>3, <2>4 DEF Tracks
<1>3. QED
  BY <1>1, <1>2

\* Every kind of entry, appended while its transition is made in memory.
LEMMA EntriesTrack ==
  ASSUME NEW w, IsWal(w), NEW d, IsDB(d), NEW now, Tracks(w, d, now),
         NEW t, NEW c, NEW k, NEW s, NEW ts
  PROVE  /\ Tracks(Logged(w, HoldEntry(s, c, ts)), HoldNoLog(d, s, c, ts), now)
         /\ Tracks(Logged(w, BookEntry(s, c, ts)), BookNoLog(d, s), now)
         /\ s \in Seat =>
              Tracks(Logged(w, ReleaseEntry(s, c)), ReleaseNoLog(d, s, c), now)
         /\ Tracks(Logged(w, BookTierEntry(t, c, k, s)),
                   BookTierNoLog(d, t, c, k, s), now)
         /\ Tracks(Logged(w, WaitlistAddEntry(t, c, k)),
                   WaitlistAddNoLog(d, t, c, k), now)
         /\ Tracks(Logged(w, CancelEntry(t, k, s)),
                   CancelTicketNoLog(d, t, k, s), now)
         /\ Tracks(Logged(w, PromoteEntry(t, k, s)),
                   PromoteTicketNoLog(d, t, k, s), now)
<1> DEFINE r == w.rebuilt
<1>1. IsDB(r) /\ (w.replays => Alike(r, d, now))
  BY DEF IsWal, Tracks
<1> HIDE DEF r
<1>2. Tracks(Logged(w, HoldEntry(s, c, ts)), HoldNoLog(d, s, c, ts), now)
  <2>1. ApplyEntry(r, HoldEntry(s, c, ts)) = HoldNoLog(r, s, c, ts)
    BY ApplyEntryMeaning
  <2>2. w.replays => Alike(HoldNoLog(r, s, c, ts), HoldNoLog(d, s, c, ts), now)
    BY <1>1, HoldStaysAlike
  <2>3. QED
    BY <2>1, <2>2, LoggedTracks DEF r
<1>3. Tracks(Logged(w, BookEntry(s, c, ts)), BookNoLog(d, s), now)
  <2>1. ApplyEntry(r, BookEntry(s, c, ts)) = BookNoLog(r, s)
    BY ApplyEntryMeaning
  <2>2. w.replays => Alike(BookNoLog(r, s), BookNoLog(d, s), now)
    BY <1>1, BookStaysAlike
  <2>3. QED
    BY <2>1, <2>2, LoggedTracks DEF r
<1>4. ASSUME s \in Seat
      PROVE  Tracks(Logged(w, ReleaseEntry(s, c)), ReleaseNoLog(d, s, c), now)
  <2>1. ApplyEntry(r, ReleaseEntry(s, c)) = ReleaseNoLog(r, s, c)
    BY ApplyEntryMeaning
  <2>2. w.replays => Alike(ReleaseNoLog(r, s, c), ReleaseNoLog(d, s, c), now)
    BY <1>1, <1>4, ReleaseStaysAlike
  <2>3. QED
    BY <2>1, <2>2, LoggedTracks DEF r
<1>5. Tracks(Logged(w, BookTierEntry(t, c, k, s)), BookTierNoLog(d, t, c, k, s), now)
  <2>1. ApplyEntry(r, BookTierEntry(t, c, k, s)) = BookTierNoLog(r, t, c, k, s)
    BY ApplyEntryMeaning
  <2>2. w.replays => Alike(BookTierNoLog(r, t, c, k, s), BookTierNoLog(d, t, c, k, s), now)
    BY <1>1, BookTierStaysAlike
  <2>3. QED
    BY <2>1, <2>2, LoggedTracks DEF r
<1>6. Tracks(Logged(w, WaitlistAddEntry(t, c, k)), WaitlistAddNoLog(d, t, c, k), now)
  <2>1. ApplyEntry(r, WaitlistAddEntry(t, c, k)) = WaitlistAddNoLog(r, t, c, k)
    BY ApplyEntryMeaning
  <2>2. w.replays => Alike(WaitlistAddNoLog(r, t, c, k), WaitlistAddNoLog(d, t, c, k), now)
    BY <1>1, WaitlistAddStaysAlike
  <2>3. QED
    BY <2>1, <2>2, LoggedTracks DEF r
<1>7. Tracks(Logged(w, CancelEntry(t, k, s)), CancelTicketNoLog(d, t, k, s), now)
  <2>1. ApplyEntry(r, CancelEntry(t, k, s)) = CancelTicketNoLog(r, t, k, s)
    BY ApplyEntryMeaning
  <2>2. w.replays => Alike(CancelTicketNoLog(r, t, k, s), CancelTicketNoLog(d, t, k, s), now)
    BY <1>1, CancelStaysAlike
  <2>3. QED
    BY <2>1, <2>2, LoggedTracks DEF r
<1>8. Tracks(Logged(w, PromoteEntry(t, k, s)), PromoteTicketNoLog(d, t, k, s), now)
  <2>1. ApplyEntry(r, PromoteEntry(t, k, s)) = PromoteTicketNoLog(r, t, k, s)
    BY ApplyEntryMeaning
  <2>2. w.replays => Alike(PromoteTicketNoLog(r, t, k, s), PromoteTicketNoLog(d, t, k, s), now)
    BY <1>1, PromoteStaysAlike
  <2>3. QED
    BY <2>1, <2>2, LoggedTracks DEF r
<1>9. QED
  BY <1>2, <1>3, <1>4, <1>5, <1>6, <1>7, <1>8

LEMMA CurrentIsTracked ==
  ASSUME AgreementInv
  PROVE  /\ IsDB(db) /\ IsDB(Current) /\ IsWal(wal) /\ clock \in Nat
         /\ Tracks(wal, db, clock) /\ Tracks(wal, Current, clock)
BY CurrentType, WalType, ClockIsNat, ExpiryStaysAlike
   DEF AgreementInv, TypeOK, Tracks, Current

LEMMA TierCallsTrack ==
  ASSUME AgreementInv, NEW c, TierCalls(c)
  PROVE  Tracks(wal', db', clock)
<1>1. ASSUME NEW k, NEW seats, Confirm(k, c, seats)
      PROVE  Tracks(wal', db', clock)
  <2> DEFINE s == Min(seats)
             t == NewTicketId(Current, clock)
  <2>1. /\ db' = BookTierNoLog(Current, t, c, k, s)
        /\ wal' = Logged(wal, BookTierEntry(t, c, k, s))
    BY <1>1 DEF Confirm
  <2> HIDE DEF s, t
  <2>2. QED
    BY <2>1, CurrentIsTracked, EntriesTrack
<1>2. ASSUME NEW k, JoinWaitingList(k, c)
      PROVE  Tracks(wal', db', clock)
  <2> DEFINE t == NewTicketId(Current, clock)
  <2>1. /\ db' = WaitlistAddNoLog(Current, t, c, k)
        /\ wal' = Logged(wal, WaitlistAddEntry(t, c, k))
    BY <1>2 DEF JoinWaitingList
  <2> HIDE DEF t
  <2>2. QED
    BY <2>1, CurrentIsTracked, EntriesTrack
<1>3. ASSUME NEW k, NEW n, BookByTierAndSeatNumberRejected(k, n, c)
      PROVE  Tracks(wal', db', clock)
  BY <1>3, CurrentIsTracked DEF BookByTierAndSeatNumberRejected
<1>4. QED
  BY <1>1, <1>2, <1>3 DEF TierCalls, BookByTier, BookByTierAndSeatNumber

LEMMA SeatCallsTrack ==
  ASSUME AgreementInv, NEW c, SeatCalls(c)
  PROVE  Tracks(wal', db', clock)
<1> SUFFICES ASSUME NEW s \in Seat,
                    \/ Hold(s, c) \/ HoldRejected(s, c)
                    \/ Book(s, c) \/ BookRejected(s, c) \/ Release(s, c)
             PROVE  Tracks(wal', db', clock)
  BY DEF SeatCalls
<1>1. CASE Hold(s, c)
  BY <1>1, CurrentIsTracked, EntriesTrack DEF Hold
<1>2. CASE HoldRejected(s, c) \/ BookRejected(s, c)
  BY <1>2, CurrentIsTracked DEF HoldRejected, BookRejected
<1>3. CASE Book(s, c)
  BY <1>3, CurrentIsTracked, EntriesTrack DEF Book
<1>4. CASE Release(s, c)
  BY <1>4, CurrentIsTracked, EntriesTrack DEF Release
<1>5. QED
  BY <1>1, <1>2, <1>3, <1>4

LEMMA CancelTracks ==
  ASSUME AgreementInv, NEW c, NEW t \in DOMAIN db.tickets, AnyCancel(t, c)
  PROVE  Tracks(wal', db', clock)
<1> DEFINE k == db.tickets[t].tier
           s == db.tickets[t].seat_id
           d == Cancelled(t)
           w == Logged(wal, CancelEntry(t, k, s))
<1>1. d = CancelTicketNoLog(db, t, k, s) /\ s \in Seat \cup {None}
  BY DEF Cancelled, AgreementInv, TypeOK, IsDB, Ticket
<1>2. CASE CancelOnly(t, c)
  <2>1. db' = d /\ wal' = w
    BY <1>2 DEF CancelOnly
  <2> HIDE DEF d, k, s
  <2>2. QED
    BY <1>1, <2>1, CurrentIsTracked, EntriesTrack
<1>3. CASE CancelTicketAndPromote(t, c)
  <2> DEFINE p == Head(d.waiting_lists[k])
  <2>1. db' = PromoteTicketNoLog(d, p, k, s) /\ wal' = Logged(w, PromoteEntry(p, k, s))
    BY <1>3 DEF CancelTicketAndPromote
  <2> HIDE DEF p, d, k, s
  <2>2. Tracks(w, d, clock) /\ IsWal(w)
    BY <1>1, CurrentIsTracked, EntriesTrack, LoggedKeepsType
  <2>3. IsDB(d)
    BY <1>1, CurrentIsTracked, CancelType
  <2> HIDE DEF w
  <2>4. QED
    BY <2>1, <2>2, <2>3, EntriesTrack
<1>4. QED
  BY <1>2, <1>3, CancelForms

\* Whatever the callers do, as long as from_wal can replay the log, it rebuilds
\* the database in memory but for holds whose expiry is not noticed yet.
THEOREM RecoveredStateAgreesCorrect == Spec => []RecoveredStateAgrees
<1>1. Init => AgreementInv
  <2>1. Init => TypeOK
    BY FreshDBType, BoundsAssumption DEF Init, TypeOK, IsWal, WalState
  <2>2. Init => Tracks(wal, db, clock)
    BY DEF Init, WalState, Tracks, Alike
  <2>3. QED
    BY <2>1, <2>2 DEF AgreementInv
<1>2. AgreementInv /\ [Next]_vars => AgreementInv'
  <2> SUFFICES ASSUME AgreementInv, [Next]_vars
               PROVE  AgreementInv'
    OBVIOUS
  <2>1. TypeOK'
    BY TypeStep DEF AgreementInv
  <2>2. Tracks(wal', db', clock')
    <3>1. CASE Search
      BY <3>1, CurrentIsTracked DEF Search
    <3>2. CASE Tick
      BY <3>2, CurrentIsTracked, AlikeLater DEF Tick, Tracks, IsWal
    <3>3. CASE UNCHANGED vars
      BY <3>3 DEF vars, AgreementInv
    <3>4. CASE \E c \in Client : TierCalls(c)
      <4>1. clock' = clock
        BY <3>4 DEF TierCalls, BookByTier, JoinWaitingList, Confirm,
                    BookByTierAndSeatNumber, BookByTierAndSeatNumberRejected
      <4>2. QED
        BY <3>4, <4>1, TierCallsTrack
    <3>5. CASE \E c \in Client : SeatCalls(c)
      <4>1. clock' = clock
        BY <3>5 DEF SeatCalls, Hold, HoldRejected, Book, BookRejected, Release
      <4>2. QED
        BY <3>5, <4>1, SeatCallsTrack
    <3>6. CASE \E c \in Client, t \in DOMAIN db.tickets : AnyCancel(t, c)
      <4>1. PICK c \in Client, t \in DOMAIN db.tickets : AnyCancel(t, c)
        BY <3>6 DEF FirstCancelCalls, CancelCalls, AnyCancel
      <4>2. clock' = clock
        BY <4>1, CancelForms DEF CancelOnly, CancelTicketAndPromote
      <4>3. QED
        BY <4>1, <4>2, CancelTracks
    <3>7. QED
      BY <3>1, <3>2, <3>3, <3>4, <3>5, <3>6 DEF Next, CarefulNext, FaultyTierNext,
                        TierNext, FirstCancelCalls, CancelCalls, AnyCancel
  <2>3. QED
    BY <2>1, <2>2 DEF AgreementInv
<1>3. AgreementInv => RecoveredStateAgrees
  BY AlikeMeansSameCurrent
     DEF AgreementInv, TypeOK, IsWal, Tracks, RecoveredStateAgrees
<1>4. QED
  BY <1>1, <1>2, <1>3, PTL DEF Spec


-----------------------------------------------------------------------------
(* Waiting lists: tickets and lists agree and lists stay in order under    *)
(* every caller.  The inductive invariant is that of a database value.     *)

QueueInv == TypeOK /\ ListsAreInStep(db)

LEMMA CurrentStaysInStep ==
  ASSUME QueueInv
  PROVE  IsDB(Current) /\ ListsAreInStep(Current)
<1>1. Current.tickets = db.tickets /\ Current.waiting_lists = db.waiting_lists
  BY ExpireHoldsMeaning DEF QueueInv, TypeOK, Current
<1>2. QED
  BY <1>1, CurrentType, SameTicketsStayInStep DEF QueueInv

LEMMA CancelStaysInStep ==
  ASSUME QueueInv, NEW t \in DOMAIN db.tickets
  PROVE  ListsAreInStep(Cancelled(t)) /\ IsDB(Cancelled(t))
BY CancelTicketStaysInStep DEF QueueInv, TypeOK, Cancelled

\* The ticket a cancellation promotes waits for a seat of the tier whose seat
\* came free, and is the oldest that does.
LEMMA PromotedWaits ==
  ASSUME QueueInv, NEW t \in DOMAIN db.tickets, MustPromote(t)
  PROVE  LET k == db.tickets[t].tier
             s == db.tickets[t].seat_id
             d == Cancelled(t)
             p == Head(d.waiting_lists[k])
         IN  /\ k \in Tier /\ s \in Seat /\ TierOf[s] = k
             /\ p \in DOMAIN d.tickets
             /\ d.tickets[p].status = "waiting" /\ d.tickets[p].tier = k
             /\ d.tickets[p].seat_id = None
             /\ Contains(d.waiting_lists[k], p)
             /\ \A u : Contains(d.waiting_lists[k], u) => u = p \/ p[2] < u[2]
<1> DEFINE k == db.tickets[t].tier
           s == db.tickets[t].seat_id
           d == Cancelled(t)
           q == d.waiting_lists[k]
           p == Head(q)
<1>1. /\ IsDB(db) /\ ListsAreInStep(db)
      /\ IsDB(d) /\ ListsAreInStep(d)
  BY CancelStaysInStep DEF QueueInv, TypeOK
<1>2. k \in Tier
  BY <1>1 DEF IsDB, Ticket
<1>3. s \in Seat /\ TierOf[s] = k
  BY <1>1 DEF MustPromote, ListsAreInStep, SeatsFit
<1>4. q # <<>>
  BY DEF MustPromote
<1> HIDE DEF k, s, d
<1>5. q \in Seq(TicketId) /\ Ascending(q)
  BY <1>1, <1>2 DEF IsDB, ListsAreInStep, ListsAscend
<1>6. Contains(q, p) /\ \A u : Contains(q, u) => u = p \/ p[2] < u[2]
  BY <1>4, <1>5, HeadIsOldest
<1>7. /\ p \in DOMAIN d.tickets
      /\ d.tickets[p].status = "waiting" /\ d.tickets[p].tier = k
  BY <1>1, <1>2, <1>6, ListedIffWaiting DEF ListsAreInStep
<1>8. d.tickets[p].seat_id = None
  BY <1>1, <1>7 DEF ListsAreInStep, SeatsFit
<1>9. QED
  BY <1>2, <1>3, <1>6, <1>7, <1>8 DEF k, s, d

-----------------------------------------------------------------------------
(* Tickets and lists stay in step whatever the callers do.                 *)

LEMMA ConfirmStaysInStep ==
  ASSUME QueueInv, NEW k \in Tier, NEW c \in Client, NEW seats \in SUBSET Seat,
         \A s \in seats : TierOf[s] = k,
         Confirm(k, c, seats)
  PROVE  ListsAreInStep(db')
<1> DEFINE s == Min(seats)
<1>1. s \in Seat /\ TierOf[s] = k
  BY MinIsElement, DBAssumption DEF Confirm
<1>2. IsDB(Current) /\ ListsAreInStep(Current) /\ clock \in Nat
  BY CurrentStaysInStep, ClockIsNat DEF QueueInv
<1>3. db' = BookTierNoLog(Current, NewTicketId(Current, clock), c, k, s)
  BY DEF Confirm
<1> HIDE DEF s
<1>4. QED
  BY <1>1, <1>2, <1>3, BookTierStaysInStep

LEMMA TierCallsStayInStep ==
  ASSUME QueueInv, NEW c \in Client, TierCalls(c)
  PROVE  ListsAreInStep(db')
<1>1. ASSUME NEW k \in Tier, BookByTier(k, c)
      PROVE  ListsAreInStep(db')
  <2>1. /\ AvailableIn(Current, k) \in SUBSET Seat
        /\ \A s \in AvailableIn(Current, k) : TierOf[s] = k
    BY DEF AvailableIn
  <2>2. QED
    BY <1>1, <2>1, ConfirmStaysInStep DEF BookByTier
<1>2. ASSUME NEW k \in Tier, NEW n, BookByTierAndSeatNumber(k, n, c)
      PROVE  ListsAreInStep(db')
  <2>1. /\ AvailableNumbered(Current, k, n) \in SUBSET Seat
        /\ \A s \in AvailableNumbered(Current, k, n) : TierOf[s] = k
    BY DEF AvailableNumbered, AvailableIn
  <2>2. QED
    BY <1>2, <2>1, ConfirmStaysInStep DEF BookByTierAndSeatNumber
<1>3. ASSUME NEW k \in Tier, JoinWaitingList(k, c)
      PROVE  ListsAreInStep(db')
  BY <1>3, CurrentStaysInStep, ClockIsNat, WaitlistAddStaysInStep
     DEF JoinWaitingList, QueueInv
<1>4. ASSUME NEW k \in Tier, NEW n, BookByTierAndSeatNumberRejected(k, n, c)
      PROVE  ListsAreInStep(db')
  BY <1>4, CurrentStaysInStep DEF BookByTierAndSeatNumberRejected
<1>5. QED
  BY <1>1, <1>2, <1>3, <1>4 DEF TierCalls

LEMMA CancelCallStaysInStep ==
  ASSUME QueueInv, NEW c \in Client, NEW t \in DOMAIN db.tickets, AnyCancel(t, c)
  PROVE  ListsAreInStep(db')
<1>1. ListsAreInStep(Cancelled(t)) /\ IsDB(Cancelled(t))
  BY CancelStaysInStep
<1>2. CASE CancelOnly(t, c)
  BY <1>1, <1>2 DEF CancelOnly
<1>3. CASE CancelTicketAndPromote(t, c)
  <2> DEFINE k == db.tickets[t].tier
             s == db.tickets[t].seat_id
             d == Cancelled(t)
             p == Head(d.waiting_lists[k])
  <2>1. MustPromote(t) /\ db' = PromoteTicketNoLog(d, p, k, s)
    BY <1>3 DEF CancelTicketAndPromote
  <2>2. /\ s \in Seat /\ TierOf[s] = k
        /\ p \in DOMAIN d.tickets /\ d.tickets[p].tier = k
    BY <2>1, PromotedWaits
  <2> HIDE DEF d, p, s, k
  <2>3. QED
    BY <1>1, <2>1, <2>2, PromoteStaysInStep DEF d
<1>4. QED
  BY <1>2, <1>3, CancelForms

LEMMA QueueStep ==
  ASSUME QueueInv, [Next]_vars
  PROVE  QueueInv'
<1>1. TypeOK'
  BY TypeStep DEF QueueInv
<1>2. ListsAreInStep(db')
  <2>1. CASE Search
    BY <2>1, CurrentStaysInStep DEF Search
  <2>2. CASE Tick \/ UNCHANGED vars
    BY <2>2 DEF Tick, vars, QueueInv
  <2>3. CASE \E c \in Client : TierCalls(c)
    BY <2>3, TierCallsStayInStep
  <2>4. CASE \E c \in Client : SeatCalls(c)
    BY <2>4, SeatCallsTouchNoTicket, SameTicketsStayInStep DEF QueueInv
  <2>5. CASE \E c \in Client, t \in DOMAIN db.tickets : AnyCancel(t, c)
    BY <2>5, CancelCallStaysInStep
  <2>6. QED
    BY <2>1, <2>2, <2>3, <2>4, <2>5 DEF Next, CarefulNext, FaultyTierNext,
                        TierNext, FirstCancelCalls, CancelCalls, AnyCancel
<1>3. QED
  BY <1>1, <1>2 DEF QueueInv

LEMMA QueueInvInitially == Init => QueueInv
<1> SUFFICES ASSUME Init PROVE QueueInv
  OBVIOUS
<1>1. TypeOK
  BY FreshDBType, BoundsAssumption DEF Init, TypeOK, IsWal, WalState
<1>2. DOMAIN db.tickets = {} /\ \A k \in Tier : db.waiting_lists[k] = <<>>
  BY DEF Init, FreshDB
<1>3. Len(<<>>) = 0 /\ 1..0 = {}
  OBVIOUS
<1>4. ListsAreInStep(db)
  BY <1>2, <1>3 DEF ListsAreInStep, TicketsAreNumbered, ListsMatchTickets,
                    ListsAscend, Ascending, SeatsFit
<1>5. QED
  BY <1>1, <1>4 DEF QueueInv

\* The inductive invariant.
THEOREM TicketsAndListsAreInStep == Spec => []QueueInv
<1>1. Init => QueueInv
  BY QueueInvInitially
<1>2. QueueInv /\ [Next]_vars => QueueInv'
  BY QueueStep
<1>3. QED
  BY <1>1, <1>2, PTL DEF Spec

\* Under every caller a ticket says "waiting" exactly when it is in the list
\* of its own tier.
THEOREM QueuedIffWaitingCorrect == Spec => []QueuedIffWaiting
<1>1. QueueInv => QueuedIffWaiting
  BY DEF QueueInv, ListsAreInStep, ListsMatchTickets, QueuedIffWaiting, Queue,
         Waiting
<1>2. QED
  BY <1>1, TicketsAndListsAreInStep, PTL

\* Under every caller the waiting lists hold tickets that exist, oldest first,
\* none twice.
THEOREM QueueIsFifoCorrect == Spec => []QueueIsFifo
<1>1. QueueInv => QueueIsFifo
  BY DEF QueueInv, ListsAreInStep, ListsMatchTickets, ListsAscend, Ascending,
         QueueIsFifo, Queue, IsSorted, Older
<1>2. QED
  BY <1>1, TicketsAndListsAreInStep, PTL

\* Under every caller a confirmed ticket has a seat of its own tier and a
\* waiting ticket has none.
THEOREM TicketFitsSeatCorrect == Spec => []TicketFitsSeat
<1>1. QueueInv => TicketFitsSeat
  BY DEF QueueInv, ListsAreInStep, SeatsFit, TicketFitsSeat, Confirmed, Waiting
<1>2. QED
  BY <1>1, TicketsAndListsAreInStep, PTL

-----------------------------------------------------------------------------
(* The life of a ticket.  The relation between two database values is      *)
(* transitive, so that the two transitions of a promoting cancellation can *)
(* be followed one by one.                                                 *)

LivesOn(d, e) ==
  \A t \in DOMAIN d.tickets :
    /\ t \in DOMAIN e.tickets
    /\ LET old == d.tickets[t] new == e.tickets[t] IN
         /\ new.client_id = old.client_id /\ new.tier = old.tier
         /\ old.status = "cancelled" => new = old
         /\ new.status = "waiting" => old.status = "waiting"
         /\ old.seat_id # None => new.seat_id = old.seat_id

\* A transition that leaves the tickets there are as they are.
LEMMA UntouchedLiveOn ==
  ASSUME NEW d, NEW e, DOMAIN d.tickets \subseteq DOMAIN e.tickets,
         \A t \in DOMAIN d.tickets : e.tickets[t] = d.tickets[t]
  PROVE  LivesOn(d, e)
BY DEF LivesOn

LEMMA LivesOnAndOn ==
  ASSUME NEW d, NEW e, NEW f, LivesOn(d, e), LivesOn(e, f)
  PROVE  LivesOn(d, f)
BY DEF LivesOn

\* Issuing a ticket touches no other.
LEMMA ConfirmIssuesATicket ==
  ASSUME QueueInv, NEW k, NEW c, NEW seats, Confirm(k, c, seats)
  PROVE  LivesOn(db, db')
<1> DEFINE t == NewTicketId(Current, clock)
           s == Min(seats)
<1>1. IsDB(Current) /\ TicketsAreNumbered(Current)
  BY CurrentStaysInStep DEF ListsAreInStep
<1>2. t \notin DOMAIN Current.tickets
  BY <1>1, ClockIsNat, NewTicketIsLast DEF QueueInv
<1>3. db' = BookTierNoLog(Current, t, c, k, s)
  BY DEF Confirm
<1> HIDE DEF t, s
<1> DEFINE e == BookTierNoLog(Current, t, c, k, s)
<1>4. /\ DOMAIN e.tickets = DOMAIN Current.tickets \cup {t}
      /\ \A u \in DOMAIN Current.tickets :
           u # t => e.tickets[u] = Current.tickets[u]
  BY <1>1, BookTierMeaning
<1> HIDE DEF e
<1>5. QED
  BY <1>2, <1>3, <1>4, CurrentTickets, UntouchedLiveOn
     DEF QueueInv, e

LEMMA JoinIssuesATicket ==
  ASSUME QueueInv, NEW k, NEW c, JoinWaitingList(k, c)
  PROVE  LivesOn(db, db')
<1> DEFINE t == NewTicketId(Current, clock)
<1>1. IsDB(Current) /\ TicketsAreNumbered(Current)
  BY CurrentStaysInStep DEF ListsAreInStep
<1>2. t \notin DOMAIN Current.tickets
  BY <1>1, ClockIsNat, NewTicketIsLast DEF QueueInv
<1>3. db' = WaitlistAddNoLog(Current, t, c, k)
  BY DEF JoinWaitingList
<1> HIDE DEF t
<1> DEFINE e == WaitlistAddNoLog(Current, t, c, k)
<1>4. /\ DOMAIN e.tickets = DOMAIN Current.tickets \cup {t}
      /\ \A u \in DOMAIN Current.tickets :
           u # t => e.tickets[u] = Current.tickets[u]
  BY <1>1, WaitlistAddMeaning
<1> HIDE DEF e
<1>5. QED
  BY <1>2, <1>3, <1>4, CurrentTickets, UntouchedLiveOn
     DEF QueueInv, e

LEMMA TierCallsLiveOn ==
  ASSUME QueueInv, NEW c \in Client, TierCalls(c)
  PROVE  LivesOn(db, db')
<1>1. ASSUME NEW k, NEW n, BookByTierAndSeatNumberRejected(k, n, c)
      PROVE  LivesOn(db, db')
  BY <1>1, CurrentTickets, UntouchedLiveOn
     DEF BookByTierAndSeatNumberRejected, QueueInv
<1>2. QED
  BY <1>1, ConfirmIssuesATicket, JoinIssuesATicket
     DEF TierCalls, BookByTier, BookByTierAndSeatNumber

\* Cancelling changes the status of one ticket.
LEMMA CancelledLivesOn ==
  ASSUME QueueInv, NEW t \in DOMAIN db.tickets
  PROVE  LivesOn(db, Cancelled(t))
<1> DEFINE k == db.tickets[t].tier
           s == db.tickets[t].seat_id
           e == Cancelled(t)
<1>1. e = CancelTicketNoLog(db, t, k, s) /\ IsDB(db)
  BY DEF Cancelled, QueueInv, TypeOK
<1> HIDE DEF k, s, e
<1>2. /\ DOMAIN e.tickets = DOMAIN db.tickets
      /\ e.tickets[t].client_id = db.tickets[t].client_id
      /\ e.tickets[t].tier = db.tickets[t].tier
      /\ e.tickets[t].seat_id = db.tickets[t].seat_id
      /\ e.tickets[t].status = "cancelled"
      /\ db.tickets[t].status = "cancelled" => e.tickets[t] = db.tickets[t]
      /\ \A u \in DOMAIN db.tickets : u # t => e.tickets[u] = db.tickets[u]
  BY <1>1, CancelMeaning
<1>3. LivesOn(db, e)
  BY <1>2 DEF LivesOn
<1>4. QED
  BY <1>3 DEF e

\* A promotion confirms a waiting ticket, which had no seat.
LEMMA PromotedLivesOn ==
  ASSUME NEW d, IsDB(d), NEW t \in DOMAIN d.tickets,
         d.tickets[t].status = "waiting", d.tickets[t].seat_id = None,
         NEW k, NEW s
  PROVE  LivesOn(d, PromoteTicketNoLog(d, t, k, s))
<1> DEFINE e == PromoteTicketNoLog(d, t, k, s)
<1>1. /\ DOMAIN e.tickets = DOMAIN d.tickets
      /\ e.tickets[t].client_id = d.tickets[t].client_id
      /\ e.tickets[t].tier = d.tickets[t].tier
      /\ e.tickets[t].status = "confirmed"
      /\ \A u \in DOMAIN d.tickets : u # t => e.tickets[u] = d.tickets[u]
  BY PromoteMeaning
<1> HIDE DEF e
<1>2. LivesOn(d, e)
  BY <1>1 DEF LivesOn
<1>3. QED
  BY <1>2 DEF e

LEMMA CancelCallLivesOn ==
  ASSUME QueueInv, NEW c \in Client, NEW t \in DOMAIN db.tickets, AnyCancel(t, c)
  PROVE  LivesOn(db, db')
<1>1. LivesOn(db, Cancelled(t))
  BY CancelledLivesOn
<1>2. CASE CancelOnly(t, c)
  BY <1>1, <1>2 DEF CancelOnly
<1>3. CASE CancelTicketAndPromote(t, c)
  <2> DEFINE k == db.tickets[t].tier
             s == db.tickets[t].seat_id
             d == Cancelled(t)
             p == Head(d.waiting_lists[k])
  <2>1. MustPromote(t) /\ db' = PromoteTicketNoLog(d, p, k, s)
    BY <1>3 DEF CancelTicketAndPromote
  <2>2. /\ p \in DOMAIN d.tickets /\ d.tickets[p].status = "waiting"
        /\ d.tickets[p].seat_id = None
    BY <2>1, PromotedWaits
  <2>3. IsDB(d)
    BY CancelStaysInStep
  <2> HIDE DEF d, p, s, k
  <2>4. LivesOn(d, db')
    BY <2>1, <2>2, <2>3, PromotedLivesOn
  <2>5. QED
    BY <1>1, <2>4, LivesOnAndOn DEF d
<1>4. QED
  BY <1>2, <1>3, CancelForms

LEMMA TicketsLiveOn ==
  ASSUME QueueInv, Next
  PROVE  LivesOn(db, db')
<1>1. CASE Search
  BY <1>1, CurrentTickets, UntouchedLiveOn DEF Search, QueueInv
<1>2. CASE Tick
  BY <1>2, UntouchedLiveOn DEF Tick
<1>3. CASE \E c \in Client : TierCalls(c)
  BY <1>3, TierCallsLiveOn
<1>4. CASE \E c \in Client : SeatCalls(c)
  BY <1>4, SeatCallsTouchNoTicket, UntouchedLiveOn DEF QueueInv
<1>5. CASE \E c \in Client, t \in DOMAIN db.tickets : AnyCancel(t, c)
  BY <1>5, CancelCallLivesOn
<1>6. QED
  BY <1>1, <1>2, <1>3, <1>4, <1>5 DEF Next, CarefulNext, FaultyTierNext,
                        TierNext, FirstCancelCalls, CancelCalls, AnyCancel

\* Under every caller, cancelling twice included, no ticket is forgotten,
\* leaves "cancelled", waits again, or changes its owner, tier or seat.
THEOREM TicketLifeCycleCorrect == Spec => TicketLifeCycle
<1>1. QueueInv /\ [Next]_vars =>
        [\A t \in DOMAIN db.tickets :
           /\ t \in DOMAIN db'.tickets
           /\ LET old == db.tickets[t] new == db'.tickets[t] IN
                /\ new.client_id = old.client_id /\ new.tier = old.tier
                /\ old.status = "cancelled" => new = old
                /\ new.status = "waiting" => old.status = "waiting"
                /\ old.seat_id # None => new.seat_id = old.seat_id]_vars
  <2> SUFFICES ASSUME QueueInv, Next
               PROVE  LivesOn(db, db')
    BY DEF LivesOn
  <2>1. QED
    BY TicketsLiveOn
<1>2. QED
  BY <1>1, TicketsAndListsAreInStep, PTL DEF Spec, TicketLifeCycle

-----------------------------------------------------------------------------
(* Under the calls of the shipped clients, TierSpec: no hold expires, so   *)
(* every call works on the database as it stands, and all they do to it is *)
(* one of the five changes below.                                          *)

TierInv == ReplayInv /\ SeatsAreOwned(db) /\ ListsAreInStep(db)

\* Everything the three invariants say, at once.
THEOREM TierInvariant == TierSpec => []TierInv
<1>1. [TierNext]_vars => [CarefulNext]_vars
  BY DEF CarefulNext, FaultyTierNext
<1>2. [CarefulNext]_vars => [Next]_vars
  BY DEF Next
<1>3. TierSpec => CarefulSpec
  BY <1>1, PTL DEF TierSpec, CarefulSpec
<1>4. CarefulSpec => Spec
  BY <1>2, PTL DEF CarefulSpec, Spec
<1>5. ReplayInv /\ OwnersInv /\ QueueInv => TierInv
  BY DEF TierInv, OwnersInv, QueueInv
<1>6. QED
  BY <1>3, <1>4, <1>5, ReplayInvariant, SeatsHaveOneOwner,
     TicketsAndListsAreInStep, PTL

Id == (0..MaxClock) \X (1..MaxTickets)

\* t is a new ticket, younger than every other.
IsNew(d, e, t) ==
  /\ t \in Id
  /\ \A u \in DOMAIN d.tickets : u[2] < t[2]
  /\ t \notin DOMAIN d.tickets
  /\ DOMAIN e.tickets = DOMAIN d.tickets \cup {t}
  /\ \A u \in DOMAIN d.tickets : e.tickets[u] = d.tickets[u]

\* t, of tier k, is cancelled, and of the other tickets only p may change.
IsCancelled(d, e, t, k, p) ==
  /\ t \in DOMAIN d.tickets
  /\ DOMAIN e.tickets = DOMAIN d.tickets
  /\ d.tickets[t].tier = k
  /\ e.tickets[t].status = "cancelled"
  /\ \A u \in DOMAIN d.tickets : u \notin {t, p} => e.tickets[u] = d.tickets[u]

\* A new ticket takes an available seat.
Takes(d, e, t, k, s) ==
  /\ IsNew(d, e, t)
  /\ e.tickets[t].tier = k /\ e.tickets[t].status = "confirmed"
  /\ e.tickets[t].seat_id = s
  /\ s \in AvailableIn(d, k)
  /\ e.waiting_lists = d.waiting_lists
  /\ \A x \in Seat : e.seats[x] = IF x = s THEN BookedSeat ELSE d.seats[x]

\* A new ticket queues because no seat is available.
Joins(d, e, t, k) ==
  /\ IsNew(d, e, t)
  /\ e.tickets[t].tier = k /\ e.tickets[t].status = "waiting"
  /\ AvailableIn(d, k) = {}
  /\ \A j \in Tier : e.waiting_lists[j] =
       IF j = k THEN Append(d.waiting_lists[k], t) ELSE d.waiting_lists[j]
  /\ e.seats = d.seats

\* A waiting ticket is cancelled and leaves its list.
Leaves(d, e, t, k) ==
  /\ IsCancelled(d, e, t, k, t)
  /\ d.tickets[t].status = "waiting"
  /\ Contains(d.waiting_lists[k], t)
  /\ \A j \in Tier : e.waiting_lists[j] =
       IF j = k THEN RemoveFirst(d.waiting_lists[k], t) ELSE d.waiting_lists[j]
  /\ \A x \in Seat : e.seats[x] = d.seats[x]

\* A confirmed ticket is cancelled and nobody waits for its seat.
GivesUp(d, e, t, k, s) ==
  /\ IsCancelled(d, e, t, k, t)
  /\ d.tickets[t].status = "confirmed" /\ d.tickets[t].seat_id = s
  /\ s \in Seat /\ TierOf[s] = k
  /\ d.waiting_lists[k] = <<>>
  /\ \A j \in Tier : e.waiting_lists[j] = d.waiting_lists[j]
  /\ \A x \in Seat : e.seats[x] = IF x = s THEN FreeSeat ELSE d.seats[x]

\* A confirmed ticket is cancelled and its seat goes to the first that waits.
HandsOn(d, e, t, p, k, s) ==
  /\ IsCancelled(d, e, t, k, p)
  /\ d.tickets[t].status = "confirmed" /\ d.tickets[t].seat_id = s
  /\ s \in Seat /\ TierOf[s] = k
  /\ d.waiting_lists[k] # <<>> /\ p = Head(d.waiting_lists[k])
  /\ p \in DOMAIN d.tickets /\ d.tickets[p].status = "waiting"
  /\ e.tickets[p].status = "confirmed" /\ e.tickets[p].tier = k
  /\ e.tickets[p].seat_id = s
  /\ \A j \in Tier : e.waiting_lists[j] =
       IF j = k THEN Tail(d.waiting_lists[k]) ELSE d.waiting_lists[j]
  /\ \A x \in Seat : e.seats[x] = d.seats[x]

Issues(d, e) ==
  \E k \in Tier, t \in Id :
    Joins(d, e, t, k) \/ \E s \in Seat : Takes(d, e, t, k, s)

Cancels(d, e) ==
  \E k \in Tier, t \in DOMAIN d.tickets :
    \/ Leaves(d, e, t, k)
    \/ \E s \in Seat : GivesUp(d, e, t, k, s)
    \/ \E s \in Seat, p \in DOMAIN d.tickets : HandsOn(d, e, t, p, k, s)

LEMMA NewTicketIsNew ==
  ASSUME TierInv, MayIssue
  PROVE  LET t == NewTicketId(db, clock) IN
         /\ t \in Id
         /\ \A u \in DOMAIN db.tickets : u[2] < t[2]
         /\ t \notin DOMAIN db.tickets
<1> DEFINE n == Cardinality(DOMAIN db.tickets)
<1>1. IsDB(db) /\ TicketsAreNumbered(db) /\ clock \in 0..MaxClock
  BY DEF TierInv, ReplayInv, TypeOK, ListsAreInStep
<1>2. n \in Nat
  BY <1>1, FS_CardinalityType DEF IsDB
<1>3. n + 1 \in 1..MaxTickets
  BY <1>2, BoundsAssumption DEF MayIssue
<1>4. NewTicketId(db, clock) \in Id
  BY <1>1, <1>3 DEF NewTicketId, Id
<1>5. clock \in Nat
  BY ClockIsNat DEF TierInv, ReplayInv
<1>6. QED
  BY <1>1, <1>4, <1>5, NewTicketIsLast

LEMMA ConfirmTakes ==
  ASSUME TierInv, NEW k \in Tier, NEW c, NEW seats \in SUBSET Seat,
         seats \subseteq AvailableIn(db, k),
         Confirm(k, c, seats)
  PROVE  Issues(db, db')
<1> DEFINE t == NewTicketId(db, clock)
           s == Min(seats)
<1>1. Current = db /\ IsDB(db)
  BY CurrentIsDB DEF TierInv
<1>2. s \in seats
  BY MinIsElement, DBAssumption DEF Confirm
<1>3. db' = BookTierNoLog(db, t, c, k, s) /\ MayIssue
  BY <1>1 DEF Confirm
<1>4. /\ t \in Id
      /\ \A u \in DOMAIN db.tickets : u[2] < t[2]
      /\ t \notin DOMAIN db.tickets
  BY <1>3, NewTicketIsNew
<1> HIDE DEF t, s
<1> DEFINE e == BookTierNoLog(db, t, c, k, s)
<1>5. /\ DOMAIN e.tickets = DOMAIN db.tickets \cup {t}
      /\ e.tickets[t].tier = k
      /\ e.tickets[t].seat_id = s /\ e.tickets[t].status = "confirmed"
      /\ \A u \in DOMAIN db.tickets : u # t => e.tickets[u] = db.tickets[u]
      /\ e.waiting_lists = db.waiting_lists
      /\ \A x \in Seat : e.seats[x] = IF x = s THEN BookedSeat ELSE db.seats[x]
  BY <1>1, BookTierMeaning
<1> HIDE DEF e
<1>6. IsNew(db, e, t)
  BY <1>4, <1>5 DEF IsNew
<1>7. Takes(db, e, t, k, s)
  BY <1>2, <1>5, <1>6 DEF Takes
<1>8. QED
  BY <1>2, <1>3, <1>4, <1>7 DEF Issues, e

LEMMA JoinJoins ==
  ASSUME TierInv, NEW k \in Tier, NEW c, JoinWaitingList(k, c)
  PROVE  Issues(db, db')
<1> DEFINE t == NewTicketId(db, clock)
<1>1. Current = db /\ IsDB(db)
  BY CurrentIsDB DEF TierInv
<1>2. /\ db' = WaitlistAddNoLog(db, t, c, k) /\ MayIssue
      /\ AvailableIn(db, k) = {}
  BY <1>1 DEF JoinWaitingList
<1>3. /\ t \in Id
      /\ \A u \in DOMAIN db.tickets : u[2] < t[2]
      /\ t \notin DOMAIN db.tickets
  BY <1>2, NewTicketIsNew
<1> HIDE DEF t
<1> DEFINE e == WaitlistAddNoLog(db, t, c, k)
<1>4. /\ DOMAIN e.tickets = DOMAIN db.tickets \cup {t}
      /\ e.tickets[t].tier = k /\ e.tickets[t].status = "waiting"
      /\ \A u \in DOMAIN db.tickets : u # t => e.tickets[u] = db.tickets[u]
      /\ \A j \in Tier : e.waiting_lists[j] =
           IF j = k THEN Append(db.waiting_lists[k], t) ELSE db.waiting_lists[j]
      /\ e.seats = db.seats
  BY <1>1, WaitlistAddMeaning
<1> HIDE DEF e
<1>5. IsNew(db, e, t)
  BY <1>3, <1>4 DEF IsNew
<1>6. Joins(db, e, t, k)
  BY <1>2, <1>4, <1>5 DEF Joins
<1>7. QED
  BY <1>2, <1>3, <1>6 DEF Issues, e

LEMMA TierCallsIssue ==
  ASSUME TierInv, NEW c, TierCalls(c)
  PROVE  db' = db \/ Issues(db, db')
<1>1. Current = db
  BY CurrentIsDB DEF TierInv
<1>2. ASSUME NEW k \in Tier, BookByTier(k, c)
      PROVE  Issues(db, db')
  <2>1. AvailableIn(Current, k) \in SUBSET Seat
    BY DEF AvailableIn
  <2>2. QED
    BY <1>1, <1>2, <2>1, ConfirmTakes DEF BookByTier
<1>3. ASSUME NEW k \in Tier, NEW n, BookByTierAndSeatNumber(k, n, c)
      PROVE  Issues(db, db')
  <2>1. /\ AvailableNumbered(Current, k, n) \in SUBSET Seat
        /\ AvailableNumbered(Current, k, n) \subseteq AvailableIn(db, k)
    BY <1>1 DEF AvailableNumbered, AvailableIn
  <2>2. QED
    BY <1>3, <2>1, ConfirmTakes DEF BookByTierAndSeatNumber
<1>4. ASSUME NEW k \in Tier, NEW n, BookByTierAndSeatNumberRejected(k, n, c)
      PROVE  db' = db
  BY <1>1, <1>4 DEF BookByTierAndSeatNumberRejected
<1>5. QED
  BY <1>2, <1>3, <1>4, JoinJoins DEF TierCalls

\* What a first cancellation leaves in the ticket's list and in the others: a
\* ticket that is not waiting is in none.
LEMMA CancelledLists ==
  ASSUME TierInv, NEW t \in DOMAIN db.tickets, NEW k, k = db.tickets[t].tier
  PROVE  /\ k \in Tier /\ IsDB(db)
         /\ db.waiting_lists[k] \in Seq(TicketId)
         /\ Ascending(db.waiting_lists[k])
         /\ Contains(db.waiting_lists[k], t) <=> db.tickets[t].status = "waiting"
         /\ \A j \in Tier : Dequeue(db.waiting_lists, k, t)[j] =
              IF j = k THEN RemoveFirst(db.waiting_lists[k], t)
                       ELSE db.waiting_lists[j]
         /\ db.tickets[t].status # "waiting" =>
              RemoveFirst(db.waiting_lists[k], t) = db.waiting_lists[k]
<1>1. IsDB(db) /\ ListsAreInStep(db)
  BY DEF TierInv, ReplayInv, TypeOK
<1>2. k \in Tier
  BY <1>1 DEF IsDB, Ticket
<1>3. /\ db.waiting_lists[k] \in Seq(TicketId)
      /\ Ascending(db.waiting_lists[k])
  BY <1>1, <1>2 DEF IsDB, ListsAreInStep, ListsAscend
<1>4. Contains(db.waiting_lists[k], t) <=> db.tickets[t].status = "waiting"
  BY <1>1, <1>2, ListedIffWaiting DEF ListsAreInStep
<1>5. \A j \in Tier : Dequeue(db.waiting_lists, k, t)[j] =
        IF j = k THEN RemoveFirst(db.waiting_lists[k], t) ELSE db.waiting_lists[j]
  BY <1>1 DEF Dequeue, IsDB
<1>6. ~Contains(db.waiting_lists[k], t) =>
        RemoveFirst(db.waiting_lists[k], t) = db.waiting_lists[k]
  BY <1>3, RemoveFirstProperties
<1>7. QED
  BY <1>1, <1>2, <1>3, <1>4, <1>5, <1>6

LEMMA CancelLeavesOrGivesUp ==
  ASSUME TierInv, NEW c, NEW t \in DOMAIN db.tickets, IsLive(t),
         CancelTicket(t, c)
  PROVE  Cancels(db, db')
<1> DEFINE k == db.tickets[t].tier
           s == db.tickets[t].seat_id
           e == Cancelled(t)
<1>1. db' = e /\ e = CancelTicketNoLog(db, t, k, s) /\ ~MustPromote(t)
  BY DEF CancelTicket, CancelOnly, Cancelled
<1>2. s = None \/ e.waiting_lists[k] = <<>>
  BY <1>1 DEF MustPromote
<1>3. /\ db.tickets[t].status \in {"waiting", "confirmed"}
      /\ db.tickets[t].status = "waiting" => s = None
      /\ db.tickets[t].status = "confirmed" => s \in Seat /\ TierOf[s] = k /\ s # None
  BY CancelledLists, DBAssumption
     DEF TierInv, ListsAreInStep, SeatsFit, IsLive, IsDB, Ticket
<1>4. /\ k \in Tier /\ IsDB(db)
      /\ Contains(db.waiting_lists[k], t) <=> db.tickets[t].status = "waiting"
      /\ \A j \in Tier : Dequeue(db.waiting_lists, k, t)[j] =
           IF j = k THEN RemoveFirst(db.waiting_lists[k], t)
                    ELSE db.waiting_lists[j]
      /\ db.tickets[t].status # "waiting" =>
           RemoveFirst(db.waiting_lists[k], t) = db.waiting_lists[k]
  BY CancelledLists
<1>5. k = db.tickets[t].tier /\ s = db.tickets[t].seat_id
  OBVIOUS
<1> HIDE DEF k, s, e
<1>6. /\ DOMAIN e.tickets = DOMAIN db.tickets
      /\ e.tickets[t].status = "cancelled"
      /\ \A u \in DOMAIN db.tickets : u # t => e.tickets[u] = db.tickets[u]
      /\ e.waiting_lists = Dequeue(db.waiting_lists, k, t)
      /\ \A x \in Seat : e.seats[x] = IF x = s THEN FreeSeat ELSE db.seats[x]
  BY <1>1, <1>4, CancelMeaning
<1>7. IsCancelled(db, e, t, k, t)
  BY <1>5, <1>6 DEF IsCancelled
<1>8. CASE db.tickets[t].status = "waiting"
  <2>1. \A x \in Seat : e.seats[x] = db.seats[x]
    BY <1>3, <1>6, <1>8, DBAssumption
  <2>2. Leaves(db, e, t, k)
    BY <1>4, <1>6, <1>7, <1>8, <2>1 DEF Leaves
  <2>3. QED
    BY <1>1, <1>4, <2>2 DEF Cancels
<1>9. CASE db.tickets[t].status = "confirmed"
  <2>1. \A j \in Tier : e.waiting_lists[j] = db.waiting_lists[j]
    BY <1>4, <1>6, <1>9
  <2>2. db.waiting_lists[k] = <<>>
    BY <1>2, <1>3, <1>4, <1>9, <2>1
  <2>3. GivesUp(db, e, t, k, s)
    BY <1>3, <1>5, <1>6, <1>7, <1>9, <2>1, <2>2 DEF GivesUp
  <2>4. QED
    BY <1>1, <1>3, <1>4, <1>9, <2>3 DEF Cancels
<1>10. QED
  BY <1>3, <1>8, <1>9

LEMMA PromotionHandsOn ==
  ASSUME TierInv, NEW c, NEW t \in DOMAIN db.tickets, IsLive(t),
         CancelTicketAndPromote(t, c)
  PROVE  Cancels(db, db')
<1> DEFINE k == db.tickets[t].tier
           s == db.tickets[t].seat_id
           d == Cancelled(t)
           p == Head(d.waiting_lists[k])
<1>1. /\ MustPromote(t) /\ db' = PromoteTicketNoLog(d, p, k, s)
      /\ d = CancelTicketNoLog(db, t, k, s)
      /\ s # None /\ d.waiting_lists[k] # <<>>
  BY DEF CancelTicketAndPromote, MustPromote, Cancelled
<1>2. QueueInv
  BY DEF TierInv, ReplayInv, QueueInv
<1>3. /\ s \in Seat /\ TierOf[s] = k
      /\ p \in DOMAIN d.tickets
      /\ d.tickets[p].status = "waiting" /\ d.tickets[p].tier = k
  BY <1>1, <1>2, PromotedWaits
<1>4. IsDB(d) /\ ListsAreInStep(d)
  BY <1>2, CancelStaysInStep
<1>5. /\ k \in Tier /\ IsDB(db)
      /\ \A j \in Tier : Dequeue(db.waiting_lists, k, t)[j] =
           IF j = k THEN RemoveFirst(db.waiting_lists[k], t)
                    ELSE db.waiting_lists[j]
      /\ db.tickets[t].status # "waiting" =>
           RemoveFirst(db.waiting_lists[k], t) = db.waiting_lists[k]
  BY CancelledLists
<1>6. k = db.tickets[t].tier /\ s = db.tickets[t].seat_id /\ p = Head(d.waiting_lists[k])
  OBVIOUS
<1> HIDE DEF k, s, d, p
<1>7. db.tickets[t].status = "confirmed" /\ db.seats[s] = BookedSeat
  BY <1>1, <1>5, <1>6 DEF TierInv, SeatsAreOwned, IsLive, IsDB, Ticket
<1>8. /\ DOMAIN d.tickets = DOMAIN db.tickets
      /\ d.tickets[t].status = "cancelled"
      /\ \A u \in DOMAIN db.tickets : u # t => d.tickets[u] = db.tickets[u]
      /\ d.waiting_lists = Dequeue(db.waiting_lists, k, t)
      /\ \A x \in Seat : d.seats[x] = IF x = s THEN FreeSeat ELSE db.seats[x]
  BY <1>1, <1>5, CancelMeaning
<1>9. \A j \in Tier : d.waiting_lists[j] = db.waiting_lists[j]
  BY <1>5, <1>7, <1>8
<1> DEFINE e == PromoteTicketNoLog(d, p, k, s)
<1>10. /\ DOMAIN e.tickets = DOMAIN d.tickets
       /\ e.tickets[p].tier = d.tickets[p].tier /\ e.tickets[p].seat_id = s
       /\ e.tickets[p].status = "confirmed"
       /\ \A u \in DOMAIN d.tickets : u # p => e.tickets[u] = d.tickets[u]
       /\ e.waiting_lists = Dequeue(d.waiting_lists, k, p)
       /\ \A x \in Seat : e.seats[x] = IF x = s THEN BookedSeat ELSE d.seats[x]
  BY <1>3, <1>4, PromoteMeaning
<1> HIDE DEF e
<1>11. p # t /\ db.tickets[p].status = "waiting"
  BY <1>3, <1>8
<1>12. IsCancelled(db, e, t, k, p)
  BY <1>6, <1>8, <1>10, <1>11 DEF IsCancelled
<1>13. d.waiting_lists[k] \in Seq(TicketId) /\ Ascending(d.waiting_lists[k])
  BY <1>4, <1>5 DEF IsDB, ListsAreInStep, ListsAscend
<1>14. RemoveFirst(d.waiting_lists[k], p) = Tail(d.waiting_lists[k])
  BY <1>1, <1>6, <1>13, RemoveHead
<1>15. \A j \in Tier : Dequeue(d.waiting_lists, k, p)[j] =
         IF j = k THEN RemoveFirst(d.waiting_lists[k], p) ELSE d.waiting_lists[j]
  BY <1>4 DEF Dequeue, IsDB
<1>16. \A j \in Tier : e.waiting_lists[j] =
         IF j = k THEN Tail(db.waiting_lists[k]) ELSE db.waiting_lists[j]
  BY <1>5, <1>9, <1>10, <1>14, <1>15
<1>17. \A x \in Seat : e.seats[x] = db.seats[x]
  BY <1>7, <1>8, <1>10
<1>18. db.waiting_lists[k] # <<>> /\ p = Head(db.waiting_lists[k])
  BY <1>1, <1>5, <1>6, <1>9
<1>19. HandsOn(db, e, t, p, k, s)
  BY <1>3, <1>6, <1>7, <1>8, <1>10, <1>11, <1>12, <1>16, <1>17, <1>18
     DEF HandsOn
<1>20. QED
  BY <1>1, <1>3, <1>5, <1>8, <1>19 DEF Cancels, e

\* All the shipped clients do to the database.
LEMMA TierStep ==
  ASSUME TierInv, [TierNext]_vars
  PROVE  db' = db \/ Issues(db, db') \/ Cancels(db, db')
<1>1. CASE Search
  BY <1>1, CurrentIsDB DEF Search, TierInv
<1>2. CASE Tick \/ UNCHANGED vars
  BY <1>2 DEF Tick, vars
<1>3. CASE \E c \in Client : TierCalls(c)
  BY <1>3, TierCallsIssue
<1>4. CASE \E c \in Client : FirstCancelCalls(c)
  BY <1>4, CancelLeavesOrGivesUp, PromotionHandsOn DEF FirstCancelCalls, Cancel
<1>5. QED
  BY <1>1, <1>2, <1>3, <1>4 DEF TierNext

-----------------------------------------------------------------------------
(* No seat idles while a ticket waits, and nobody is overtaken.            *)

NoIdle(d) == \A k \in Tier : d.waiting_lists[k] # <<>> => AvailableIn(d, k) = {}

FullInv == TierInv /\ SeatsInUse(db) /\ NoIdle(db)

LEMMA IssuesKeepsFull ==
  ASSUME NEW d, NEW e, SeatsInUse(d), NoIdle(d), Issues(d, e)
  PROVE  SeatsInUse(e) /\ NoIdle(e)
<1>1. ASSUME NEW k \in Tier, NEW t, NEW s \in Seat, Takes(d, e, t, k, s)
      PROVE  SeatsInUse(e) /\ NoIdle(e)
  <2>1. SeatsInUse(e)
    BY <1>1 DEF Takes, IsNew, SeatsInUse
  <2>2. \A j \in Tier : AvailableIn(e, j) \subseteq AvailableIn(d, j)
    BY <1>1 DEF Takes, AvailableIn, BookedSeat
  <2>3. NoIdle(e)
    BY <1>1, <2>2 DEF Takes, NoIdle
  <2>4. QED
    BY <2>1, <2>3
<1>2. ASSUME NEW k \in Tier, NEW t, Joins(d, e, t, k)
      PROVE  SeatsInUse(e) /\ NoIdle(e)
  <2>1. SeatsInUse(e)
    BY <1>2 DEF Joins, IsNew, SeatsInUse
  <2>2. \A j \in Tier : AvailableIn(e, j) = AvailableIn(d, j)
    BY <1>2 DEF Joins, AvailableIn
  <2>3. NoIdle(e)
    BY <1>2, <2>2 DEF Joins, NoIdle
  <2>4. QED
    BY <2>1, <2>3
<1>3. QED
  BY <1>1, <1>2 DEF Issues

LEMMA CancelsKeepsFull ==
  ASSUME NEW d, NEW e, SeatsInUse(d), NoIdle(d), Cancels(d, e)
  PROVE  SeatsInUse(e) /\ NoIdle(e)
<1>1. ASSUME NEW k \in Tier, NEW t, Leaves(d, e, t, k)
      PROVE  SeatsInUse(e) /\ NoIdle(e)
  <2>1. SeatsInUse(e)
    BY <1>1 DEF Leaves, IsCancelled, SeatsInUse
  <2>2. \A j \in Tier : AvailableIn(e, j) = AvailableIn(d, j)
    BY <1>1 DEF Leaves, AvailableIn
  <2>3. d.waiting_lists[k] # <<>>
    BY <1>1 DEF Leaves, Contains
  <2>4. NoIdle(e)
    BY <1>1, <2>2, <2>3 DEF Leaves, NoIdle
  <2>5. QED
    BY <2>1, <2>4
<1>2. ASSUME NEW k \in Tier, NEW t, NEW s, GivesUp(d, e, t, k, s)
      PROVE  SeatsInUse(e) /\ NoIdle(e)
  <2>1. SeatsInUse(e)
    BY <1>2 DEF GivesUp, IsCancelled, SeatsInUse, FreeSeat
  <2>2. \A j \in Tier : j # k => AvailableIn(e, j) = AvailableIn(d, j)
    BY <1>2 DEF GivesUp, AvailableIn
  <2>3. NoIdle(e)
    BY <1>2, <2>2 DEF GivesUp, NoIdle
  <2>4. QED
    BY <2>1, <2>3
<1>3. ASSUME NEW k \in Tier, NEW t, NEW s, NEW p, HandsOn(d, e, t, p, k, s)
      PROVE  SeatsInUse(e) /\ NoIdle(e)
  <2>1. SeatsInUse(e)
    <3> SUFFICES ASSUME NEW x \in Seat, e.seats[x].state # "available"
                 PROVE  \E u \in DOMAIN e.tickets :
                          /\ e.tickets[u].status = "confirmed"
                          /\ e.tickets[u].seat_id = x
      BY DEF SeatsInUse
    <3>1. PICK u \in DOMAIN d.tickets :
            d.tickets[u].status = "confirmed" /\ d.tickets[u].seat_id = x
      BY <1>3 DEF HandsOn, SeatsInUse
    <3>2. CASE x = s
      BY <1>3, <3>2 DEF HandsOn, IsCancelled
    <3>3. CASE x # s
      BY <1>3, <3>1, <3>3 DEF HandsOn, IsCancelled
    <3>4. QED
      BY <3>2, <3>3
  <2>2. \A j \in Tier : AvailableIn(e, j) = AvailableIn(d, j)
    BY <1>3 DEF HandsOn, AvailableIn
  <2>3. NoIdle(e)
    BY <1>3, <2>2 DEF HandsOn, NoIdle
  <2>4. QED
    BY <2>1, <2>3
<1>4. QED
  BY <1>1, <1>2, <1>3 DEF Cancels

\* The inductive invariant.
THEOREM TiersFillUp == TierSpec => []FullInv
<1>1. Init => SeatsInUse(db) /\ NoIdle(db)
  BY DEF Init, FreshDB, FreeSeat, SeatsInUse, NoIdle
<1>2. TierInv /\ SeatsInUse(db) /\ NoIdle(db) /\ [TierNext]_vars
        => (SeatsInUse(db) /\ NoIdle(db))'
  BY TierStep, IssuesKeepsFull, CancelsKeepsFull
<1>3. TierSpec => [](SeatsInUse(db) /\ NoIdle(db))
  BY <1>1, <1>2, TierInvariant, PTL DEF TierSpec
<1>4. TierInv /\ SeatsInUse(db) /\ NoIdle(db) => FullInv
  BY DEF FullInv
<1>5. QED
  BY <1>3, <1>4, TierInvariant, PTL

\* Under the calls of the shipped clients a ticket waits only while every seat
\* of its tier is taken.
THEOREM NoIdleSeatWhileWaitingCorrect == TierSpec => []NoIdleSeatWhileWaiting
<1>1. FullInv => NoIdleSeatWhileWaiting
  BY DEF FullInv, NoIdle, NoIdleSeatWhileWaiting, Queue
<1>2. QED
  BY <1>1, TiersFillUp, PTL

\* t stays waiting from d to e, and the younger u becomes confirmed.
IsOvertaken(d, e, t, u) ==
  /\ t \in DOMAIN d.tickets /\ d.tickets[t].status = "waiting"
  /\ e.tickets[t].status = "waiting"
  /\ u \in DOMAIN e.tickets /\ e.tickets[u].status = "confirmed"
  /\ ~(u \in DOMAIN d.tickets /\ d.tickets[u].status = "confirmed")
  /\ e.tickets[u].tier = d.tickets[t].tier
  /\ Older(t, u)

\* A waiting ticket is in its list; the list keeps new tickets from its seats,
\* and its head is the oldest.
LEMMA NobodyIsOvertaken ==
  ASSUME FullInv, [TierNext]_vars, NEW t, NEW u
  PROVE  ~IsOvertaken(db, db', t, u)
<1> SUFFICES ASSUME IsOvertaken(db, db', t, u)
             PROVE  FALSE
  OBVIOUS
<1> DEFINE j == db.tickets[t].tier
           q == db.waiting_lists[j]
<1>1. IsDB(db) /\ ListsAreInStep(db) /\ NoIdle(db)
  BY DEF FullInv, TierInv, ReplayInv, TypeOK
<1>2. t \in DOMAIN db.tickets /\ j \in Tier
  BY <1>1 DEF IsOvertaken, IsDB, Ticket
<1>3. Contains(q, t)
  BY <1>1, <1>2 DEF ListsAreInStep, ListsMatchTickets, IsOvertaken
<1>4. q # <<>>
  BY <1>3 DEF Contains
<1>5. AvailableIn(db, j) = {}
  BY <1>1, <1>2, <1>4 DEF NoIdle
<1>6. q \in Seq(TicketId) /\ Ascending(q)
  BY <1>1, <1>2 DEF IsDB, ListsAreInStep, ListsAscend
<1>7. t = Head(q) \/ Head(q)[2] < t[2]
  BY <1>3, <1>4, <1>6, HeadIsOldest
<1>8. t[2] < u[2] /\ db'.tickets[u].tier = j
  BY DEF IsOvertaken, Older
<1> HIDE DEF j, q
<1>9. ASSUME NEW k, NEW v, NEW s, Takes(db, db', v, k, s)
      PROVE  FALSE
  BY <1>5, <1>8, <1>9 DEF IsOvertaken, Takes, IsNew
<1>10. ASSUME NEW k, NEW v, Joins(db, db', v, k)
       PROVE  FALSE
  BY <1>10 DEF IsOvertaken, Joins, IsNew
<1>11. ASSUME NEW k, NEW v, Leaves(db, db', v, k)
       PROVE  FALSE
  BY <1>11 DEF IsOvertaken, Leaves, IsCancelled
<1>12. ASSUME NEW k, NEW v, NEW s, GivesUp(db, db', v, k, s)
       PROVE  FALSE
  BY <1>12 DEF IsOvertaken, GivesUp, IsCancelled
<1>13. ASSUME NEW k, NEW v, NEW s, NEW p, HandsOn(db, db', v, p, k, s)
       PROVE  FALSE
  <2>1. u = p /\ k = j
    BY <1>8, <1>13 DEF IsOvertaken, HandsOn, IsCancelled
  <2>2. u = Head(q)
    BY <1>13, <2>1 DEF HandsOn, q
  <2>3. t # Head(q)
    BY <2>2 DEF IsOvertaken
  <2>4. t \in TicketId /\ Head(q) \in TicketId
    BY <1>1, <1>2, <1>4, <1>6, HeadTailProperties DEF IsDB
  <2>5. t[2] \in Nat /\ Head(q)[2] \in Nat
    BY <2>4 DEF TicketId
  <2>6. QED
    BY <1>7, <1>8, <2>2, <2>3, <2>5
<1>14. CASE db' = db
  BY <1>14 DEF IsOvertaken
<1>15. QED
  BY <1>9, <1>10, <1>11, <1>12, <1>13, <1>14, TierStep
     DEF FullInv, Issues, Cancels

\* Under the calls of the shipped clients, while an older ticket of the tier
\* goes on waiting, no younger one, waiting or new, is confirmed.
THEOREM NoOvertakingCorrect == TierSpec => NoOvertaking
<1>1. FullInv /\ [TierNext]_vars =>
        [\A t \in DOMAIN db.tickets, u \in DOMAIN db'.tickets :
           /\ Waiting(t) /\ db'.tickets[t].status = "waiting"
           /\ db'.tickets[u].tier = db.tickets[t].tier
           /\ Older(t, u)
           /\ db'.tickets[u].status = "confirmed"
           => Confirmed(u)]_vars
  BY NobodyIsOvertaken DEF IsOvertaken, Waiting, Confirmed
<1>2. QED
  BY <1>1, TiersFillUp, PTL DEF TierSpec, NoOvertaking

-----------------------------------------------------------------------------
(* The database implements SeatAllocation.  Under the refinement mapping   *)
(* the five changes are Issue (Grant or Join), Leave and GiveUp.           *)

\* Holder, of any database value.
HolderIn(d) ==
  [s \in Seat |->
     LET claims == {t \in DOMAIN d.tickets :
                      /\ t \in DOMAIN d.tickets /\ d.tickets[t].status = "confirmed"
                      /\ d.tickets[t].seat_id = s}
     IN  IF claims = {} THEN None ELSE CHOOSE t \in claims : TRUE]

Claims(d, t, s) ==
  /\ t \in DOMAIN d.tickets
  /\ d.tickets[t].status = "confirmed" /\ d.tickets[t].seat_id = s

LEMMA HolderIsHolderIn ==
  Holder = HolderIn(db) /\ Holder' = HolderIn(db')
BY DEF Holder, HolderIn, Confirmed

\* A seat's holder is the one ticket that claims it.
LEMMA HolderClaims ==
  ASSUME NEW d, SeatsAreOwned(d), NEW s \in Seat
  PROVE  /\ \A t : Claims(d, t, s) => HolderIn(d)[s] = t
         /\ (\A t : ~Claims(d, t, s)) => HolderIn(d)[s] = None
<1> DEFINE claims == {t \in DOMAIN d.tickets :
                        /\ t \in DOMAIN d.tickets /\ d.tickets[t].status = "confirmed"
                        /\ d.tickets[t].seat_id = s}
           pick == CHOOSE t \in claims : TRUE
<1>1. HolderIn(d)[s] = IF claims = {} THEN None ELSE pick
  BY DEF HolderIn
<1>2. \A t : t \in claims <=> Claims(d, t, s)
  BY DEF Claims
<1>3. claims # {} => pick \in claims
  OBVIOUS
<1> HIDE DEF claims, pick
<1>4. \A t, u : t \in claims /\ u \in claims => t = u
  BY <1>2 DEF Claims, SeatsAreOwned
<1>5. QED
  BY <1>1, <1>2, <1>3, <1>4

\* Only the seats whose claims change get another holder.
LEMMA HolderFollowsClaims ==
  ASSUME NEW d, NEW e, SeatsAreOwned(d), SeatsAreOwned(e), NEW s \in Seat,
         \A x \in Seat : \A u : x # s => (Claims(e, u, x) <=> Claims(d, u, x))
  PROVE  HolderIn(e) = [HolderIn(d) EXCEPT ![s] = HolderIn(e)[s]]
<1>1. ASSUME NEW x \in Seat, x # s
      PROVE  HolderIn(e)[x] = HolderIn(d)[x]
  BY <1>1, HolderClaims
<1>2. /\ HolderIn(d) = [x \in Seat |-> HolderIn(d)[x]]
      /\ HolderIn(e) = [x \in Seat |-> HolderIn(e)[x]]
  BY DEF HolderIn
<1>3. QED
  BY <1>1, <1>2

LEMMA HolderStays ==
  ASSUME NEW d, NEW e, SeatsAreOwned(d), SeatsAreOwned(e),
         \A x \in Seat : \A u : Claims(e, u, x) <=> Claims(d, u, x)
  PROVE  HolderIn(e) = HolderIn(d)
<1>1. ASSUME NEW x \in Seat
      PROVE  HolderIn(e)[x] = HolderIn(d)[x]
  BY HolderClaims
<1>2. /\ HolderIn(d) = [x \in Seat |-> HolderIn(d)[x]]
      /\ HolderIn(e) = [x \in Seat |-> HolderIn(e)[x]]
  BY DEF HolderIn
<1>3. QED
  BY <1>1, <1>2

\* A seat has no holder exactly when it is available.
LEMMA NoHolderIffAvailable ==
  ASSUME NEW d, IsDB(d), SeatsAreOwned(d), SeatsInUse(d), NEW s \in Seat
  PROVE  HolderIn(d)[s] = None <=> d.seats[s].state = "available"
<1>1. CASE \E t : Claims(d, t, s)
  <2>1. PICK t : Claims(d, t, s)
    BY <1>1
  <2>2. t \in Nat \X Nat /\ d.seats[s] = BookedSeat
    BY <2>1 DEF Claims, IsDB, TicketId, SeatsAreOwned
  <2>3. d.seats[s].state # "available"
    BY <2>2 DEF BookedSeat
  <2>4. QED
    BY <2>1, <2>2, <2>3, HolderClaims, DBAssumption
<1>2. CASE \A t : ~Claims(d, t, s)
  BY <1>2, HolderClaims DEF SeatsInUse, Claims
<1>3. QED
  BY <1>1, <1>2

LEMMA FreeIsAvailable ==
  ASSUME FullInv, NEW k
  PROVE  Allocation!Free(k) = AvailableIn(db, k)
<1>1. IsDB(db) /\ SeatsAreOwned(db) /\ SeatsInUse(db)
  BY DEF FullInv, TierInv, ReplayInv, TypeOK
<1>2. \A s \in Seat : Holder[s] = None <=> db.seats[s].state = "available"
  BY <1>1, NoHolderIffAvailable, HolderIsHolderIn
<1>3. QED
  BY <1>2 DEF Allocation!Free, AvailableIn

LEMMA IssuesIsIssue ==
  ASSUME FullInv, FullInv', Issues(db, db')
  PROVE  Allocation!Next
<1>1. /\ IsDB(db) /\ SeatsAreOwned(db) /\ NoIdle(db)
      /\ IsDB(db') /\ SeatsAreOwned(db')
  BY DEF FullInv, TierInv, ReplayInv, TypeOK
<1> DEFINE old == HolderIn(db)
           new == HolderIn(db')
<1>2. ASSUME NEW k \in Tier, NEW t \in Id, NEW s \in Seat,
             Takes(db, db', t, k, s)
      PROVE  Allocation!Issue(k, t)
  <2>1. s \in Allocation!Free(k) /\ db.waiting_lists[k] = <<>>
    BY <1>1, <1>2, FreeIsAvailable DEF Takes, NoIdle
  <2>2. Claims(db', t, s)
    BY <1>2 DEF Takes, IsNew, Claims
  <2>3. new[s] = t
    BY <1>1, <2>2, HolderClaims
  <2>4. \A x \in Seat : \A u : x # s => (Claims(db', u, x) <=> Claims(db, u, x))
    BY <1>2 DEF Takes, IsNew, Claims
  <2>5. new = [old EXCEPT ![s] = new[s]]
    BY <1>1, <2>4, HolderFollowsClaims
  <2> HIDE DEF old, new
  <2>6. new = [old EXCEPT ![s] = t]
    BY <2>3, <2>5
  <2>7. Holder' = [Holder EXCEPT ![s] = t]
    BY <2>6, HolderIsHolderIn DEF old, new
  <2>8. Allocation!Grant(k, t)
    BY <1>2, <2>1, <2>7 DEF Allocation!Grant, Takes
  <2>9. QED
    BY <1>2, <2>8 DEF Allocation!Issue, Takes, IsNew
<1>3. ASSUME NEW k \in Tier, NEW t \in Id, Joins(db, db', t, k)
      PROVE  Allocation!Issue(k, t)
  <2>1. Allocation!Free(k) = {}
    BY <1>3, FreeIsAvailable DEF Joins
  <2>2. \A x \in Seat : \A u : Claims(db', u, x) <=> Claims(db, u, x)
    BY <1>3 DEF Joins, IsNew, Claims
  <2>3. Holder' = Holder
    BY <1>1, <2>2, HolderStays, HolderIsHolderIn
  <2>4. db'.waiting_lists =
          [db.waiting_lists EXCEPT ![k] = Append(db.waiting_lists[k], t)]
    BY <1>1, <1>3 DEF Joins, IsDB
  <2>5. Allocation!Join(k, t)
    BY <2>1, <2>3, <2>4 DEF Allocation!Join
  <2>6. QED
    BY <1>3, <2>5 DEF Allocation!Issue, Joins, IsNew
<1>4. QED
  BY <1>2, <1>3 DEF Issues, Allocation!Next, Id

LEMMA CancelsIsLeaveOrGiveUp ==
  ASSUME FullInv, FullInv', Cancels(db, db')
  PROVE  Allocation!Next
<1>1. /\ IsDB(db) /\ SeatsAreOwned(db)
      /\ IsDB(db') /\ SeatsAreOwned(db')
  BY DEF FullInv, TierInv, ReplayInv, TypeOK
<1> DEFINE old == HolderIn(db)
           new == HolderIn(db')
<1>2. ASSUME NEW k \in Tier, NEW t \in DOMAIN db.tickets, Leaves(db, db', t, k)
      PROVE  Allocation!Next
  <2> DEFINE q == db.waiting_lists[k]
  <2>1. PICK i \in 1..Len(q) : RemoveFirst(q, t) = RemoveAt(q, i)
    BY <1>2, RemoveFirstIsRemoveAt DEF Leaves
  <2>2. \A x \in Seat : \A u : Claims(db', u, x) <=> Claims(db, u, x)
    BY <1>2 DEF Leaves, IsCancelled, Claims
  <2>3. Holder' = Holder
    BY <1>1, <2>2, HolderStays, HolderIsHolderIn
  <2>4. db'.waiting_lists = [db.waiting_lists EXCEPT ![k] = RemoveAt(q, i)]
    BY <1>1, <1>2, <2>1 DEF Leaves, IsDB
  <2>5. Allocation!Leave(k, i)
    BY <1>2, <2>3, <2>4 DEF Allocation!Leave, RemoveAt, Leaves, IsCancelled
  <2>6. QED
    BY <2>1, <2>5 DEF Allocation!Next
<1>3. ASSUME NEW k \in Tier, NEW t \in DOMAIN db.tickets, NEW s \in Seat,
             GivesUp(db, db', t, k, s)
      PROVE  Allocation!GiveUp(s)
  <2>1. Claims(db, t, s) /\ t # None
    BY <1>1, <1>3, DBAssumption DEF GivesUp, Claims, IsDB, TicketId
  <2>2. old[s] # None
    BY <1>1, <2>1, HolderClaims
  <2>3. \A u : ~Claims(db', u, s)
    BY <1>1, <1>3 DEF GivesUp, IsCancelled, Claims, SeatsAreOwned
  <2>4. new[s] = None
    BY <1>1, <2>3, HolderClaims
  <2>5. \A x \in Seat : \A u : x # s => (Claims(db', u, x) <=> Claims(db, u, x))
    BY <1>3 DEF GivesUp, IsCancelled, Claims
  <2>6. new = [old EXCEPT ![s] = new[s]]
    BY <1>1, <2>5, HolderFollowsClaims
  <2> HIDE DEF old, new
  <2>7. new = [old EXCEPT ![s] = None]
    BY <2>4, <2>6
  <2>8. Holder' = [Holder EXCEPT ![s] = None] /\ Holder[s] # None
    BY <2>2, <2>7, HolderIsHolderIn DEF old, new
  <2>9. db'.waiting_lists = db.waiting_lists
    BY <1>1, <1>3 DEF GivesUp, IsDB
  <2>10. QED
    BY <1>3, <2>8, <2>9 DEF Allocation!GiveUp, GivesUp, IsCancelled
<1>4. ASSUME NEW k \in Tier, NEW t \in DOMAIN db.tickets, NEW s \in Seat,
             NEW p \in DOMAIN db.tickets, HandsOn(db, db', t, p, k, s)
      PROVE  Allocation!GiveUp(s)
  <2>1. Claims(db, t, s) /\ t # None
    BY <1>1, <1>4, DBAssumption DEF HandsOn, IsCancelled, Claims, IsDB, TicketId
  <2>2. old[s] # None
    BY <1>1, <2>1, HolderClaims
  <2>3. Claims(db', p, s)
    BY <1>4 DEF HandsOn, IsCancelled, Claims
  <2>4. new[s] = p
    BY <1>1, <2>3, HolderClaims
  <2>5. \A x \in Seat : \A u : x # s => (Claims(db', u, x) <=> Claims(db, u, x))
    BY <1>4 DEF HandsOn, IsCancelled, Claims
  <2>6. new = [old EXCEPT ![s] = new[s]]
    BY <1>1, <2>5, HolderFollowsClaims
  <2> HIDE DEF old, new
  <2>7. new = [old EXCEPT ![s] = p]
    BY <2>4, <2>6
  <2>8. Holder' = [Holder EXCEPT ![s] = p] /\ Holder[s] # None
    BY <2>2, <2>7, HolderIsHolderIn DEF old, new
  <2>9. db'.waiting_lists =
          [db.waiting_lists EXCEPT ![k] = Tail(db.waiting_lists[k])]
    BY <1>1, <1>4 DEF HandsOn, IsDB
  <2>10. QED
    BY <1>4, <2>8, <2>9 DEF Allocation!GiveUp, HandsOn, IsCancelled
<1>5. QED
  BY <1>2, <1>3, <1>4 DEF Cancels, Allocation!Next

\* For every number of seats, tiers, clients, tickets and clock ticks the
\* calls of the shipped clients do what SeatAllocation promises: a seat has one
\* holder, goes to its own tier, and is handed to the longest-waiting ticket in
\* the step that frees it.
THEOREM ImplementsSeatAllocationCorrect == TierSpec => ImplementsSeatAllocation
<1>1. Init => Allocation!Init
  <2> SUFFICES ASSUME Init PROVE Allocation!Init
    OBVIOUS
  <2>1. DOMAIN db.tickets = {} /\ db.waiting_lists = [k \in Tier |-> <<>>]
    BY DEF Init, FreshDB
  <2>2. SeatsAreOwned(db)
    BY <2>1 DEF SeatsAreOwned
  <2>3. \A s \in Seat : HolderIn(db)[s] = None
    BY <2>1, <2>2, HolderClaims DEF Claims
  <2>4. HolderIn(db) = [s \in Seat |-> HolderIn(db)[s]]
    BY DEF HolderIn
  <2>5. Holder = [s \in Seat |-> None]
    BY <2>3, <2>4, HolderIsHolderIn
  <2>6. QED
    BY <2>1, <2>5 DEF Allocation!Init
<1>2. FullInv /\ FullInv' /\ [TierNext]_vars => [Allocation!Next]_(Allocation!vars)
  <2> SUFFICES ASSUME FullInv, FullInv', [TierNext]_vars
               PROVE  [Allocation!Next]_(Allocation!vars)
    OBVIOUS
  <2>1. CASE db' = db
    BY <2>1, HolderIsHolderIn DEF Allocation!vars
  <2>2. CASE Issues(db, db') \/ Cancels(db, db')
    BY <2>2, IssuesIsIssue, CancelsIsLeaveOrGiveUp
  <2>3. QED
    BY <2>1, <2>2, TierStep DEF FullInv
<1>3. QED
  BY <1>1, <1>2, TiersFillUp, PTL
     DEF TierSpec, ImplementsSeatAllocation, Allocation!Spec
=============================================================================
