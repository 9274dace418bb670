--------------------------- MODULE DBStateProofs ---------------------------
(***************************************************************************)
(* Lemmas about the community modules' operators that DBState uses (the    *)
(* minimum of a set of numbers, the removal of an element of a queue), and *)
(* about its own: the transitions of InMemoryDB and the replay of their    *)
(* log entries keep the type of the database.                              *)
(***************************************************************************)
EXTENDS DBState, Integers, SequenceTheorems, FiniteSetTheorems,
        WellFoundedInduction, TLAPS

-----------------------------------------------------------------------------
(* Minima and queues. *)

\* Min picks an element: the first seat of a non-empty set of seats exists.
LEMMA MinIsElement ==
  ASSUME NEW S \in SUBSET Nat, S # {}
  PROVE  Min(S) \in S /\ \A n \in S : Min(S) <= n
<1>1. PICK m \in S : \A n \in S : ~(<<n, m>> \in OpToRel(<, Nat))
  BY NatLessThanWellFounded, WFMin
<1>2. \A n \in S : ~(n < m)
  BY <1>1 DEF OpToRel
<1>3. \A n \in S : m <= n
  BY <1>2
<1>4. QED
  BY <1>3 DEF Min

\* RemoveAt shifts the elements behind the removed one by one place.
LEMMA RemoveAtProperties ==
  ASSUME NEW S, NEW q \in Seq(S), NEW m \in 1..Len(q)
  PROVE  /\ RemoveAt(q, m) \in Seq(S)
         /\ Len(RemoveAt(q, m)) = Len(q) - 1
         /\ \A j \in 1..(Len(q) - 1) :
              RemoveAt(q, m)[j] = IF j < m THEN q[j] ELSE q[j + 1]
<1> DEFINE a == SubSeq(q, 1, m - 1)
           b == SubSeq(q, m + 1, Len(q))
<1>1. a \in Seq(S) /\ Len(a) = m - 1 /\ \A j \in 1..(m - 1) : a[j] = q[j]
  BY SubSeqProperties
<1>2. b \in Seq(S) /\ Len(b) = Len(q) - m /\ \A j \in 1..(Len(q) - m) : b[j] = q[m + j]
  BY SubSeqProperties
<1>3. RemoveAt(q, m) = a \o b
  BY DEF RemoveAt
<1> HIDE DEF a, b
<1>4. /\ a \o b \in Seq(S)
      /\ Len(a \o b) = Len(a) + Len(b)
      /\ \A i \in 1..(Len(a) + Len(b)) :
           (a \o b)[i] = IF i <= Len(a) THEN a[i] ELSE b[i - Len(a)]
  BY <1>1, <1>2, ConcatProperties
<1>5. Len(a) + Len(b) = Len(q) - 1
  BY <1>1, <1>2
<1>6. ASSUME NEW j \in 1..(Len(q) - 1)
      PROVE  (a \o b)[j] = IF j < m THEN q[j] ELSE q[j + 1]
  <2>1. CASE j < m
    BY <2>1, <1>1, <1>4, <1>5
  <2>2. CASE ~(j < m)
    <3>1. j - Len(a) \in 1..(Len(q) - m) /\ ~(j <= Len(a)) /\ m + (j - Len(a)) = j + 1
      BY <2>2, <1>1
    <3>2. (a \o b)[j] = b[j - Len(a)]
      BY <3>1, <1>4, <1>5
    <3>3. b[j - Len(a)] = q[m + (j - Len(a))]
      BY <3>1, <1>2
    <3>4. QED
      BY <3>1, <3>2, <3>3, <2>2
  <2>3. QED
    BY <2>1, <2>2
<1>7. QED
  BY <1>3, <1>4, <1>5, <1>6

\* Dequeuing an element of a queue cuts its first occurrence out.
LEMMA RemoveFirstIsRemoveAt ==
  ASSUME NEW q, NEW e, Contains(q, e)
  PROVE  \E m \in 1..Len(q) : q[m] = e /\ RemoveFirst(q, e) = RemoveAt(q, m)
<1> DEFINE I == {i \in 1..Len(q) : q[i] = e}
           m == Min(I)
<1>1. I \in SUBSET Nat /\ I # {}
  BY DEF Contains
<1>2. m \in I
  BY <1>1, MinIsElement
<1>3. RemoveFirst(q, e) = RemoveAt(q, m)
  BY <1>1 DEF RemoveFirst, SelectInSeq, Contains
<1>4. m \in 1..Len(q) /\ q[m] = e
  BY <1>2
<1>5. QED
  BY <1>3, <1>4

\* Dequeuing an element removes its first occurrence and keeps the order of
\* the others; a list without the element stays as it is.
LEMMA RemoveFirstProperties ==
  ASSUME NEW S, NEW q \in Seq(S), NEW e
  PROVE  /\ RemoveFirst(q, e) \in Seq(S)
         /\ ~Contains(q, e) => RemoveFirst(q, e) = q
         /\ Contains(q, e) =>
              \E m \in 1..Len(q) :
                /\ q[m] = e
                /\ Len(RemoveFirst(q, e)) = Len(q) - 1
                /\ \A j \in 1..(Len(q) - 1) :
                     RemoveFirst(q, e)[j] = IF j < m THEN q[j] ELSE q[j + 1]
<1>1. CASE ~Contains(q, e)
  BY <1>1 DEF Contains, RemoveFirst
<1>2. CASE Contains(q, e)
  <2>1. PICK m \in 1..Len(q) : q[m] = e /\ RemoveFirst(q, e) = RemoveAt(q, m)
    BY <1>2, RemoveFirstIsRemoveAt
  <2>2. QED
    BY <2>1, <1>2, RemoveAtProperties
<1>3. QED
  BY <1>1, <1>2

-----------------------------------------------------------------------------
(* Every transition keeps the type of the database. *)

LEMMA SeatConstants ==
  /\ FreeSeat \in SeatRecord
  /\ BookedSeat \in SeatRecord
  /\ \A c \in Client, e \in Nat : HeldSeat(c, e) \in SeatRecord
BY DEF FreeSeat, BookedSeat, HeldSeat, SeatRecord

\* A database record is determined by its three fields.
LEMMA MakeDB ==
  ASSUME NEW seats \in [Seat -> SeatRecord],
         NEW tickets, DOMAIN tickets \subseteq TicketId,
         IsFiniteSet(DOMAIN tickets), tickets \in [DOMAIN tickets -> Ticket],
         NEW lists \in [Tier -> Seq(TicketId)]
  PROVE  IsDB([seats |-> seats, tickets |-> tickets, waiting_lists |-> lists])
BY DEF IsDB

LEMMA FreshDBType == IsDB(FreshDB)
<1>1. [t \in {} |-> None] \in [{} -> Ticket] /\ DOMAIN [t \in {} |-> None] = {}
  OBVIOUS
<1>2. IsFiniteSet({})
  BY FS_EmptySet
<1>3. [s \in Seat |-> FreeSeat] \in [Seat -> SeatRecord]
  BY SeatConstants
<1>4. [k \in Tier |-> <<>>] \in [Tier -> Seq(TicketId)]
  OBVIOUS
<1>5. QED
  BY <1>1, <1>2, <1>3, <1>4, MakeDB DEF FreshDB

\* A database is the record of its fields; updating a seat or a waiting list
\* gives the record with that field updated.
LEMMA DBFields ==
  ASSUME NEW d, IsDB(d)
  PROVE  d = [seats |-> d.seats, tickets |-> d.tickets,
              waiting_lists |-> d.waiting_lists]
BY DEF IsDB

LEMMA SeatUpdate ==
  ASSUME NEW d, NEW seats, NEW tickets, NEW lists, NEW s, NEW r,
         d = [seats |-> seats, tickets |-> tickets, waiting_lists |-> lists]
  PROVE  [d EXCEPT !.seats[s] = r] =
           [seats |-> [seats EXCEPT ![s] = r], tickets |-> tickets,
            waiting_lists |-> lists]
OBVIOUS

LEMMA ListUpdate ==
  ASSUME NEW d, NEW seats, NEW tickets, NEW lists, NEW k, NEW t,
         d = [seats |-> seats, tickets |-> tickets, waiting_lists |-> lists]
  PROVE  [d EXCEPT !.waiting_lists[k] = Append(@, t)] =
           [seats |-> seats, tickets |-> tickets,
            waiting_lists |-> [lists EXCEPT ![k] = Append(@, t)]]
OBVIOUS

LEMMA SeatUpdateType ==
  ASSUME NEW d, IsDB(d), NEW s \in Seat, NEW r \in SeatRecord
  PROVE  IsDB([d EXCEPT !.seats[s] = r])
<1>1. [d.seats EXCEPT ![s] = r] \in [Seat -> SeatRecord]
  BY DEF IsDB
<1>2. [d EXCEPT !.seats[s] = r] =
        [seats |-> [d.seats EXCEPT ![s] = r], tickets |-> d.tickets,
         waiting_lists |-> d.waiting_lists]
  BY DBFields, SeatUpdate
<1>3. QED
  BY <1>1, <1>2, MakeDB DEF IsDB

LEMMA ExpireHoldsType ==
  ASSUME NEW d, IsDB(d), NEW now
  PROVE  IsDB(ExpireHolds(d, now))
<1> DEFINE seats == [s \in Seat |-> IF Expired(d.seats[s], now)
                                      THEN FreeSeat ELSE d.seats[s]]
<1>1. seats \in [Seat -> SeatRecord]
  BY SeatConstants DEF IsDB
<1>2. ExpireHolds(d, now) = [seats |-> seats, tickets |-> d.tickets,
                             waiting_lists |-> d.waiting_lists]
  BY DEF IsDB, ExpireHolds
<1> HIDE DEF seats
<1>3. QED
  BY <1>1, <1>2, MakeDB DEF IsDB

LEMMA HoldType ==
  ASSUME NEW d, IsDB(d), NEW s \in Seat, NEW c \in Client, NEW ts \in Nat
  PROVE  IsDB(HoldNoLog(d, s, c, ts))
<1>1. ts + HoldTTL \in Nat
  BY DBAssumption
<1>2. QED
  BY <1>1, SeatConstants, SeatUpdateType DEF HoldNoLog

LEMMA BookType ==
  ASSUME NEW d, IsDB(d), NEW s \in Seat
  PROVE  IsDB(BookNoLog(d, s))
BY SeatConstants, SeatUpdateType DEF BookNoLog

LEMMA ReleaseType ==
  ASSUME NEW d, IsDB(d), NEW s \in Seat, NEW c
  PROVE  IsDB(ReleaseNoLog(d, s, c))
BY SeatConstants, SeatUpdateType DEF ReleaseNoLog

\* Adding a ticket to the dictionary of tickets.
LEMMA AddTicketType ==
  ASSUME NEW d, IsDB(d), NEW t \in TicketId, NEW ticket \in Ticket
  PROVE  LET tickets == AddTicket(d.tickets, t, ticket) IN
         /\ DOMAIN tickets = DOMAIN d.tickets \cup {t}
         /\ DOMAIN tickets \subseteq TicketId
         /\ IsFiniteSet(DOMAIN tickets)
         /\ tickets \in [DOMAIN tickets -> Ticket]
<1> DEFINE tickets == AddTicket(d.tickets, t, ticket)
<1>1. DOMAIN tickets = DOMAIN d.tickets \cup {t}
  BY DEF AddTicket
<1>2. IsFiniteSet(DOMAIN d.tickets \cup {t})
  BY FS_AddElement DEF IsDB
<1>3. tickets \in [DOMAIN d.tickets \cup {t} -> Ticket]
  BY DEF AddTicket, IsDB
<1> HIDE DEF tickets
<1>4. QED
  BY <1>1, <1>2, <1>3 DEF IsDB, tickets

LEMMA BookTierType ==
  ASSUME NEW d, IsDB(d), NEW t \in TicketId, NEW c \in Client,
         NEW k \in Tier, NEW s \in Seat
  PROVE  IsDB(BookTierNoLog(d, t, c, k, s))
<1> DEFINE ticket == [client_id |-> c, tier |-> k, seat_id |-> s,
                      status |-> "confirmed"]
           tickets == AddTicket(d.tickets, t, ticket)
           seats == [d.seats EXCEPT ![s] = BookedSeat]
<1>1. BookTierNoLog(d, t, c, k, s) =
        [seats |-> seats, tickets |-> tickets, waiting_lists |-> d.waiting_lists]
  <2> DEFINE e == [d EXCEPT !.tickets = tickets]
  <2>1. e = [seats |-> d.seats, tickets |-> tickets,
             waiting_lists |-> d.waiting_lists]
    BY DBFields
  <2>2. BookTierNoLog(d, t, c, k, s) = [e EXCEPT !.seats[s] = BookedSeat]
    BY DEF BookTierNoLog
  <2> HIDE DEF tickets, e
  <2>3. QED
    BY <2>1, <2>2, SeatUpdate
<1>2. ticket \in Ticket
  BY DEF Ticket
<1> HIDE DEF ticket
<1>3. /\ DOMAIN tickets \subseteq TicketId
      /\ IsFiniteSet(DOMAIN tickets)
      /\ tickets \in [DOMAIN tickets -> Ticket]
  BY <1>2, AddTicketType
<1>4. seats \in [Seat -> SeatRecord]
  BY SeatConstants DEF IsDB
<1> HIDE DEF tickets, seats
<1>5. QED
  BY <1>1, <1>3, <1>4, MakeDB DEF IsDB

LEMMA WaitlistAddType ==
  ASSUME NEW d, IsDB(d), NEW t \in TicketId, NEW c \in Client, NEW k \in Tier
  PROVE  IsDB(WaitlistAddNoLog(d, t, c, k))
<1> DEFINE ticket == [client_id |-> c, tier |-> k, seat_id |-> None,
                      status |-> "waiting"]
           tickets == AddTicket(d.tickets, t, ticket)
           lists == [d.waiting_lists EXCEPT ![k] = Append(@, t)]
<1>1. WaitlistAddNoLog(d, t, c, k) =
        [seats |-> d.seats, tickets |-> tickets, waiting_lists |-> lists]
  <2> DEFINE e == [d EXCEPT !.tickets = tickets]
  <2>1. e = [seats |-> d.seats, tickets |-> tickets,
             waiting_lists |-> d.waiting_lists]
    BY DBFields
  <2>2. WaitlistAddNoLog(d, t, c, k) = [e EXCEPT !.waiting_lists[k] = Append(@, t)]
    BY DEF WaitlistAddNoLog
  <2> HIDE DEF tickets, e
  <2>3. QED
    BY <2>1, <2>2, ListUpdate
<1>2. ticket \in Ticket
  BY DEF Ticket
<1> HIDE DEF ticket
<1>3. /\ DOMAIN tickets \subseteq TicketId
      /\ IsFiniteSet(DOMAIN tickets)
      /\ tickets \in [DOMAIN tickets -> Ticket]
  BY <1>2, AddTicketType
<1>4. lists \in [Tier -> Seq(TicketId)]
  BY AppendProperties DEF IsDB
<1> HIDE DEF tickets, lists
<1>5. QED
  BY <1>1, <1>3, <1>4, MakeDB DEF IsDB

LEMMA DequeueType ==
  ASSUME NEW lists \in [Tier -> Seq(TicketId)], NEW k, NEW t
  PROVE  Dequeue(lists, k, t) \in [Tier -> Seq(TicketId)]
<1>1. k \in Tier => RemoveFirst(lists[k], t) \in Seq(TicketId)
  BY RemoveFirstProperties
<1>2. QED
  BY <1>1 DEF Dequeue

\* Changing a ticket of the dictionary.
LEMMA TicketUpdateType ==
  ASSUME NEW d, IsDB(d), NEW t \in DOMAIN d.tickets, NEW ticket \in Ticket
  PROVE  LET tickets == [d.tickets EXCEPT ![t] = ticket] IN
         /\ DOMAIN tickets \subseteq TicketId
         /\ IsFiniteSet(DOMAIN tickets)
         /\ tickets \in [DOMAIN tickets -> Ticket]
<1>1. DOMAIN [d.tickets EXCEPT ![t] = ticket] = DOMAIN d.tickets
  OBVIOUS
<1>2. [d.tickets EXCEPT ![t] = ticket] \in [DOMAIN d.tickets -> Ticket]
  BY DEF IsDB
<1>3. QED
  BY <1>1, <1>2 DEF IsDB

LEMMA CancelType ==
  ASSUME NEW d, IsDB(d), NEW t, NEW k, NEW s \in Seat \cup {None}
  PROVE  IsDB(CancelTicketNoLog(d, t, k, s))
<1>1. CASE t \notin DOMAIN d.tickets
  BY <1>1 DEF CancelTicketNoLog
<1>2. CASE t \in DOMAIN d.tickets
  <2> DEFINE ticket == [d.tickets[t] EXCEPT !.status = "cancelled"]
             tickets == [d.tickets EXCEPT ![t] = ticket]
             lists == Dequeue(d.waiting_lists, k, t)
             seats == IF s = None THEN d.seats ELSE [d.seats EXCEPT ![s] = FreeSeat]
  <2>1. CancelTicketNoLog(d, t, k, s) =
          [seats |-> seats, tickets |-> tickets, waiting_lists |-> lists]
    BY <1>2 DEF IsDB, CancelTicketNoLog
  <2>2. d.tickets[t] \in Ticket
    BY <1>2 DEF IsDB
  <2>3. ticket \in Ticket
    BY <2>2 DEF Ticket
  <2>4. seats \in [Seat -> SeatRecord]
    BY SeatConstants DEF IsDB
  <2>5. lists \in [Tier -> Seq(TicketId)]
    BY DequeueType DEF IsDB
  <2> HIDE DEF ticket, lists, seats
  <2>6. /\ DOMAIN tickets \subseteq TicketId
        /\ IsFiniteSet(DOMAIN tickets)
        /\ tickets \in [DOMAIN tickets -> Ticket]
    BY <1>2, <2>3, TicketUpdateType
  <2> HIDE DEF tickets
  <2>7. QED
    BY <2>1, <2>4, <2>5, <2>6, MakeDB
<1>3. QED
  BY <1>1, <1>2

LEMMA PromoteType ==
  ASSUME NEW d, IsDB(d), NEW t, NEW k, NEW s \in Seat
  PROVE  IsDB(PromoteTicketNoLog(d, t, k, s))
<1>1. CASE t \notin DOMAIN d.tickets
  BY <1>1 DEF PromoteTicketNoLog
<1>2. CASE t \in DOMAIN d.tickets
  <2> DEFINE ticket == [d.tickets[t] EXCEPT !.status = "confirmed", !.seat_id = s]
             tickets == [d.tickets EXCEPT ![t] = ticket]
             lists == Dequeue(d.waiting_lists, k, t)
             seats == [d.seats EXCEPT ![s] = BookedSeat]
  <2>1. PromoteTicketNoLog(d, t, k, s) =
          [seats |-> seats, tickets |-> tickets, waiting_lists |-> lists]
    BY <1>2 DEF IsDB, PromoteTicketNoLog
  <2>2. d.tickets[t] \in Ticket
    BY <1>2 DEF IsDB
  <2>3. ticket \in Ticket
    BY <2>2 DEF Ticket
  <2>4. seats \in [Seat -> SeatRecord]
    BY SeatConstants DEF IsDB
  <2>5. lists \in [Tier -> Seq(TicketId)]
    BY DequeueType DEF IsDB
  <2> HIDE DEF ticket, lists, seats
  <2>6. /\ DOMAIN tickets \subseteq TicketId
        /\ IsFiniteSet(DOMAIN tickets)
        /\ tickets \in [DOMAIN tickets -> Ticket]
    BY <1>2, <2>3, TicketUpdateType
  <2> HIDE DEF tickets
  <2>7. QED
    BY <2>1, <2>4, <2>5, <2>6, MakeDB
<1>3. QED
  BY <1>1, <1>2

-----------------------------------------------------------------------------
(* What each transition changes, field by field. *)

LEMMA ExpireHoldsMeaning ==
  ASSUME NEW d, IsDB(d), NEW now
  PROVE  LET e == ExpireHolds(d, now) IN
         /\ e.tickets = d.tickets
         /\ e.waiting_lists = d.waiting_lists
         /\ \A x \in Seat : e.seats[x] = IF Expired(d.seats[x], now)
                                        THEN FreeSeat ELSE d.seats[x]
BY DEF ExpireHolds, IsDB

LEMMA HoldMeaning ==
  ASSUME NEW d, IsDB(d), NEW s, NEW c, NEW ts
  PROVE  LET e == HoldNoLog(d, s, c, ts) IN
         /\ e.tickets = d.tickets
         /\ e.waiting_lists = d.waiting_lists
         /\ \A x \in Seat : e.seats[x] = IF x = s THEN HeldSeat(c, ts + HoldTTL)
                                                 ELSE d.seats[x]
<1> DEFINE r == HeldSeat(c, ts + HoldTTL)
           e == HoldNoLog(d, s, c, ts)
<1>1. e = [d EXCEPT !.seats[s] = r]
  BY DEF HoldNoLog
<1> HIDE DEF r, e
<1>2. e = [seats |-> [d.seats EXCEPT ![s] = r], tickets |-> d.tickets,
           waiting_lists |-> d.waiting_lists]
  BY <1>1, DBFields, SeatUpdate
<1>3. \A x \in Seat : e.seats[x] = IF x = s THEN r ELSE d.seats[x]
  BY <1>2 DEF IsDB
<1>4. QED
  BY <1>2, <1>3 DEF e, r

LEMMA BookMeaning ==
  ASSUME NEW d, IsDB(d), NEW s
  PROVE  LET e == BookNoLog(d, s) IN
         /\ e.tickets = d.tickets
         /\ e.waiting_lists = d.waiting_lists
         /\ \A x \in Seat : e.seats[x] = IF x = s THEN BookedSeat ELSE d.seats[x]
<1> DEFINE r == BookedSeat
           e == BookNoLog(d, s)
<1>1. e = [d EXCEPT !.seats[s] = r]
  BY DEF BookNoLog
<1> HIDE DEF r, e
<1>2. e = [seats |-> [d.seats EXCEPT ![s] = r], tickets |-> d.tickets,
           waiting_lists |-> d.waiting_lists]
  BY <1>1, DBFields, SeatUpdate
<1>3. \A x \in Seat : e.seats[x] = IF x = s THEN r ELSE d.seats[x]
  BY <1>2 DEF IsDB
<1>4. QED
  BY <1>2, <1>3 DEF e, r

LEMMA ReleaseMeaning ==
  ASSUME NEW d, IsDB(d), NEW s, NEW c
  PROVE  LET e == ReleaseNoLog(d, s, c) IN
         /\ e.tickets = d.tickets
         /\ e.waiting_lists = d.waiting_lists
         /\ \A x \in Seat : e.seats[x] =
              IF x = s /\ d.seats[s].state = "held" /\ d.seats[s].hold_by = c
                THEN FreeSeat ELSE d.seats[x]
<1>1. CASE d.seats[s].state = "held" /\ d.seats[s].hold_by = c
  <2> DEFINE e == ReleaseNoLog(d, s, c)
  <2>1. e = [d EXCEPT !.seats[s] = FreeSeat]
    BY <1>1 DEF ReleaseNoLog
  <2> HIDE DEF e
  <2>2. e = [seats |-> [d.seats EXCEPT ![s] = FreeSeat], tickets |-> d.tickets,
             waiting_lists |-> d.waiting_lists]
    BY <2>1, DBFields, SeatUpdate
  <2>3. \A x \in Seat : e.seats[x] = IF x = s THEN FreeSeat ELSE d.seats[x]
    BY <2>2 DEF IsDB
  <2>4. QED
    BY <1>1, <2>2, <2>3 DEF e
<1>2. CASE ~(d.seats[s].state = "held" /\ d.seats[s].hold_by = c)
  BY <1>2 DEF ReleaseNoLog
<1>3. QED
  BY <1>1, <1>2

LEMMA BookTierMeaning ==
  ASSUME NEW d, IsDB(d), NEW t, NEW c, NEW k, NEW s
  PROVE  LET e == BookTierNoLog(d, t, c, k, s) IN
         /\ DOMAIN e.tickets = DOMAIN d.tickets \cup {t}
         /\ e.tickets[t].client_id = c /\ e.tickets[t].tier = k
         /\ e.tickets[t].seat_id = s /\ e.tickets[t].status = "confirmed"
         /\ \A u \in DOMAIN d.tickets : u # t => e.tickets[u] = d.tickets[u]
         /\ e.waiting_lists = d.waiting_lists
         /\ \A x \in Seat : e.seats[x] = IF x = s THEN BookedSeat ELSE d.seats[x]
<1> DEFINE ticket == [client_id |-> c, tier |-> k, seat_id |-> s,
                      status |-> "confirmed"]
           e == BookTierNoLog(d, t, c, k, s)
<1>1. e.tickets = AddTicket(d.tickets, t, ticket)
  BY DEF BookTierNoLog, IsDB
<1>2. e.seats = [d.seats EXCEPT ![s] = BookedSeat]
  BY DEF BookTierNoLog, IsDB
<1>3. e.waiting_lists = d.waiting_lists
  BY DEF BookTierNoLog, IsDB
<1> HIDE DEF e
<1>4. \A x \in Seat : e.seats[x] = IF x = s THEN BookedSeat ELSE d.seats[x]
  BY <1>2 DEF IsDB
<1>5. QED
  BY <1>1, <1>3, <1>4 DEF AddTicket, e

LEMMA WaitlistAddMeaning ==
  ASSUME NEW d, IsDB(d), NEW t, NEW c, NEW k
  PROVE  LET e == WaitlistAddNoLog(d, t, c, k) IN
         /\ DOMAIN e.tickets = DOMAIN d.tickets \cup {t}
         /\ e.tickets[t].client_id = c /\ e.tickets[t].tier = k
         /\ e.tickets[t].seat_id = None /\ e.tickets[t].status = "waiting"
         /\ \A u \in DOMAIN d.tickets : u # t => e.tickets[u] = d.tickets[u]
         /\ \A j \in Tier : e.waiting_lists[j] =
              IF j = k THEN Append(d.waiting_lists[k], t) ELSE d.waiting_lists[j]
         /\ e.seats = d.seats
<1> DEFINE ticket == [client_id |-> c, tier |-> k, seat_id |-> None,
                      status |-> "waiting"]
           e == WaitlistAddNoLog(d, t, c, k)
<1>1. e.tickets = AddTicket(d.tickets, t, ticket)
  BY DEF WaitlistAddNoLog, IsDB
<1>2. e.waiting_lists = [d.waiting_lists EXCEPT ![k] = Append(@, t)]
  BY DEF WaitlistAddNoLog, IsDB
<1>3. e.seats = d.seats
  BY DEF WaitlistAddNoLog, IsDB
<1> HIDE DEF e
<1>4. \A j \in Tier : e.waiting_lists[j] =
        IF j = k THEN Append(d.waiting_lists[k], t) ELSE d.waiting_lists[j]
  BY <1>2 DEF IsDB
<1>5. QED
  BY <1>1, <1>3, <1>4 DEF AddTicket, e

\* A cancelled or promoted ticket keeps its owner and its tier.
LEMMA TicketChange ==
  ASSUME NEW r \in Ticket, NEW s
  PROVE  LET c == [r EXCEPT !.status = "cancelled"]
             p == [r EXCEPT !.status = "confirmed", !.seat_id = s]
         IN  /\ c.client_id = r.client_id /\ c.tier = r.tier
             /\ c.seat_id = r.seat_id /\ c.status = "cancelled"
             /\ p.client_id = r.client_id /\ p.tier = r.tier
             /\ p.seat_id = s /\ p.status = "confirmed"
             /\ r.status = "cancelled" => c = r
BY DEF Ticket

LEMMA CancelMeaning ==
  ASSUME NEW d, IsDB(d), NEW t \in DOMAIN d.tickets, NEW k, NEW s
  PROVE  LET e == CancelTicketNoLog(d, t, k, s) IN
         /\ DOMAIN e.tickets = DOMAIN d.tickets
         /\ e.tickets[t].client_id = d.tickets[t].client_id
         /\ e.tickets[t].tier = d.tickets[t].tier
         /\ e.tickets[t].seat_id = d.tickets[t].seat_id
         /\ e.tickets[t].status = "cancelled"
         /\ d.tickets[t].status = "cancelled" => e.tickets[t] = d.tickets[t]
         /\ \A u \in DOMAIN d.tickets : u # t => e.tickets[u] = d.tickets[u]
         /\ e.waiting_lists = Dequeue(d.waiting_lists, k, t)
         /\ \A x \in Seat : e.seats[x] = IF x = s THEN FreeSeat ELSE d.seats[x]
<1> DEFINE ticket == [d.tickets[t] EXCEPT !.status = "cancelled"]
           e == CancelTicketNoLog(d, t, k, s)
<1>1. e.tickets = [d.tickets EXCEPT ![t] = ticket]
  BY DEF CancelTicketNoLog, IsDB
<1>2. e.seats = IF s = None THEN d.seats ELSE [d.seats EXCEPT ![s] = FreeSeat]
  BY DEF CancelTicketNoLog, IsDB
<1>3. e.waiting_lists = Dequeue(d.waiting_lists, k, t)
  BY DEF CancelTicketNoLog, IsDB
<1> HIDE DEF e
<1>4. \A x \in Seat : e.seats[x] = IF x = s THEN FreeSeat ELSE d.seats[x]
  BY <1>2, DBAssumption DEF IsDB
<1>5. d.tickets[t] \in Ticket
  BY DEF IsDB
<1>6. /\ ticket.client_id = d.tickets[t].client_id
      /\ ticket.tier = d.tickets[t].tier
      /\ ticket.seat_id = d.tickets[t].seat_id /\ ticket.status = "cancelled"
      /\ d.tickets[t].status = "cancelled" => ticket = d.tickets[t]
  BY <1>5, TicketChange
<1> HIDE DEF ticket
<1>7. /\ DOMAIN e.tickets = DOMAIN d.tickets
      /\ e.tickets[t] = ticket
      /\ \A u \in DOMAIN d.tickets : u # t => e.tickets[u] = d.tickets[u]
  BY <1>1
<1>8. QED
  BY <1>3, <1>4, <1>6, <1>7 DEF e

LEMMA PromoteMeaning ==
  ASSUME NEW d, IsDB(d), NEW t \in DOMAIN d.tickets, NEW k, NEW s
  PROVE  LET e == PromoteTicketNoLog(d, t, k, s) IN
         /\ DOMAIN e.tickets = DOMAIN d.tickets
         /\ e.tickets[t].client_id = d.tickets[t].client_id
         /\ e.tickets[t].tier = d.tickets[t].tier
         /\ e.tickets[t].seat_id = s
         /\ e.tickets[t].status = "confirmed"
         /\ \A u \in DOMAIN d.tickets : u # t => e.tickets[u] = d.tickets[u]
         /\ e.waiting_lists = Dequeue(d.waiting_lists, k, t)
         /\ \A x \in Seat : e.seats[x] = IF x = s THEN BookedSeat ELSE d.seats[x]
<1> DEFINE ticket == [d.tickets[t] EXCEPT !.status = "confirmed", !.seat_id = s]
           e == PromoteTicketNoLog(d, t, k, s)
<1>1. e.tickets = [d.tickets EXCEPT ![t] = ticket]
  BY DEF PromoteTicketNoLog, IsDB
<1>2. e.seats = [d.seats EXCEPT ![s] = BookedSeat]
  BY DEF PromoteTicketNoLog, IsDB
<1>3. e.waiting_lists = Dequeue(d.waiting_lists, k, t)
  BY DEF PromoteTicketNoLog, IsDB
<1> HIDE DEF e
<1>4. \A x \in Seat : e.seats[x] = IF x = s THEN BookedSeat ELSE d.seats[x]
  BY <1>2 DEF IsDB
<1>5. d.tickets[t] \in Ticket
  BY DEF IsDB
<1>6. /\ ticket.client_id = d.tickets[t].client_id
      /\ ticket.tier = d.tickets[t].tier
      /\ ticket.seat_id = s /\ ticket.status = "confirmed"
  BY <1>5, TicketChange
<1> HIDE DEF ticket
<1>7. /\ DOMAIN e.tickets = DOMAIN d.tickets
      /\ e.tickets[t] = ticket
      /\ \A u \in DOMAIN d.tickets : u # t => e.tickets[u] = d.tickets[u]
  BY <1>1
<1>8. QED
  BY <1>3, <1>4, <1>6, <1>7 DEF e

-----------------------------------------------------------------------------
(* What replaying each kind of entry does, and that it keeps the type. *)

LEMMA ApplyEntryMeaning ==
  ASSUME NEW d, NEW t, NEW c, NEW k, NEW s, NEW ts
  PROVE  /\ ApplyEntry(d, HoldEntry(s, c, ts)) = HoldNoLog(d, s, c, ts)
         /\ ApplyEntry(d, BookEntry(s, c, ts)) = BookNoLog(d, s)
         /\ ApplyEntry(d, ReleaseEntry(s, c)) = ReleaseNoLog(d, s, c)
         /\ ApplyEntry(d, BookTierEntry(t, c, k, s)) = BookTierNoLog(d, t, c, k, s)
         /\ ApplyEntry(d, WaitlistAddEntry(t, c, k)) = WaitlistAddNoLog(d, t, c, k)
         /\ ApplyEntry(d, CancelEntry(t, k, s)) = CancelTicketNoLog(d, t, k, s)
         /\ ApplyEntry(d, PromoteEntry(t, k, s)) = PromoteTicketNoLog(d, t, k, s)
<1>1. ApplyEntry(d, HoldEntry(s, c, ts)) = HoldNoLog(d, s, c, ts)
  BY DEF ApplyEntry, HoldEntry
<1>2. ApplyEntry(d, BookEntry(s, c, ts)) = BookNoLog(d, s)
  BY DEF ApplyEntry, BookEntry
<1>3. ApplyEntry(d, ReleaseEntry(s, c)) = ReleaseNoLog(d, s, c)
  BY DEF ApplyEntry, ReleaseEntry
<1>4. ApplyEntry(d, BookTierEntry(t, c, k, s)) = BookTierNoLog(d, t, c, k, s)
  BY DEF ApplyEntry, BookTierEntry
<1>5. ApplyEntry(d, WaitlistAddEntry(t, c, k)) = WaitlistAddNoLog(d, t, c, k)
  BY DEF ApplyEntry, WaitlistAddEntry
<1>6. ApplyEntry(d, CancelEntry(t, k, s)) = CancelTicketNoLog(d, t, k, s)
  BY DEF ApplyEntry, CancelEntry
<1>7. ApplyEntry(d, PromoteEntry(t, k, s)) = PromoteTicketNoLog(d, t, k, s)
  BY DEF ApplyEntry, PromoteEntry
<1>8. QED
  BY <1>1, <1>2, <1>3, <1>4, <1>5, <1>6, <1>7

\* Appending an entry whose replay keeps the type keeps the type of the log.
LEMMA LoggedType ==
  ASSUME NEW w, IsWal(w), NEW e, IsDB(ApplyEntry(w.rebuilt, e))
  PROVE  IsWal(Logged(w, e))
<1>1. IsWal(DeadWal)
  BY FreshDBType DEF IsWal, DeadWal, WalState
<1>2. ASSUME NEW x, IsDB(x)
      PROVE  IsWal([w EXCEPT !.rebuilt = x])
  BY <1>2 DEF IsWal, WalState
<1>3. QED
  BY <1>1, <1>2 DEF Logged

\* Every entry the server logs, logged with well-typed fields, keeps the type.
LEMMA LoggedKeepsType ==
  ASSUME NEW w, IsWal(w)
  PROVE  /\ \A s \in Seat, c \in Client, ts \in Nat :
              IsWal(Logged(w, HoldEntry(s, c, ts)))
         /\ \A c, ts : \A s \in Seat :
              IsWal(Logged(w, BookEntry(s, c, ts)))
         /\ \A c : \A s \in Seat :
              IsWal(Logged(w, ReleaseEntry(s, c)))
         /\ \A t \in TicketId, c \in Client, k \in Tier, s \in Seat :
              IsWal(Logged(w, BookTierEntry(t, c, k, s)))
         /\ \A t \in TicketId, c \in Client, k \in Tier :
              IsWal(Logged(w, WaitlistAddEntry(t, c, k)))
         /\ \A t, k : \A s \in Seat \cup {None} :
              IsWal(Logged(w, CancelEntry(t, k, s)))
         /\ \A t, k : \A s \in Seat :
              IsWal(Logged(w, PromoteEntry(t, k, s)))
<1>1. IsDB(w.rebuilt)
  BY DEF IsWal
<1>2. ASSUME NEW s \in Seat, NEW c \in Client, NEW ts \in Nat
      PROVE  IsWal(Logged(w, HoldEntry(s, c, ts)))
  <2>1. IsDB(HoldNoLog(w.rebuilt, s, c, ts))
    BY <1>1, HoldType
  <2>2. ApplyEntry(w.rebuilt, HoldEntry(s, c, ts)) = HoldNoLog(w.rebuilt, s, c, ts)
    BY ApplyEntryMeaning
  <2>3. IsDB(ApplyEntry(w.rebuilt, HoldEntry(s, c, ts)))
    BY <2>1, <2>2
  <2>4. QED
    BY <2>3, LoggedType
<1>3. ASSUME NEW s \in Seat, NEW c, NEW ts
      PROVE  IsWal(Logged(w, BookEntry(s, c, ts)))
  <2>1. IsDB(BookNoLog(w.rebuilt, s))
    BY <1>1, BookType
  <2>2. ApplyEntry(w.rebuilt, BookEntry(s, c, ts)) = BookNoLog(w.rebuilt, s)
    BY ApplyEntryMeaning
  <2>3. IsDB(ApplyEntry(w.rebuilt, BookEntry(s, c, ts)))
    BY <2>1, <2>2
  <2>4. QED
    BY <2>3, LoggedType
<1>4. ASSUME NEW s \in Seat, NEW c
      PROVE  IsWal(Logged(w, ReleaseEntry(s, c)))
  <2>1. IsDB(ReleaseNoLog(w.rebuilt, s, c))
    BY <1>1, ReleaseType
  <2>2. ApplyEntry(w.rebuilt, ReleaseEntry(s, c)) = ReleaseNoLog(w.rebuilt, s, c)
    BY ApplyEntryMeaning
  <2>3. IsDB(ApplyEntry(w.rebuilt, ReleaseEntry(s, c)))
    BY <2>1, <2>2
  <2>4. QED
    BY <2>3, LoggedType
<1>5. ASSUME NEW t \in TicketId, NEW c \in Client, NEW k \in Tier, NEW s \in Seat
      PROVE  IsWal(Logged(w, BookTierEntry(t, c, k, s)))
  <2>1. IsDB(BookTierNoLog(w.rebuilt, t, c, k, s))
    BY <1>1, BookTierType
  <2>2. ApplyEntry(w.rebuilt, BookTierEntry(t, c, k, s)) = BookTierNoLog(w.rebuilt, t, c, k, s)
    BY ApplyEntryMeaning
  <2>3. IsDB(ApplyEntry(w.rebuilt, BookTierEntry(t, c, k, s)))
    BY <2>1, <2>2
  <2>4. QED
    BY <2>3, LoggedType
<1>6. ASSUME NEW t \in TicketId, NEW c \in Client, NEW k \in Tier
      PROVE  IsWal(Logged(w, WaitlistAddEntry(t, c, k)))
  <2>1. IsDB(WaitlistAddNoLog(w.rebuilt, t, c, k))
    BY <1>1, WaitlistAddType
  <2>2. ApplyEntry(w.rebuilt, WaitlistAddEntry(t, c, k)) = WaitlistAddNoLog(w.rebuilt, t, c, k)
    BY ApplyEntryMeaning
  <2>3. IsDB(ApplyEntry(w.rebuilt, WaitlistAddEntry(t, c, k)))
    BY <2>1, <2>2
  <2>4. QED
    BY <2>3, LoggedType
<1>7. ASSUME NEW t, NEW k, NEW s \in Seat \cup {None}
      PROVE  IsWal(Logged(w, CancelEntry(t, k, s)))
  <2>1. IsDB(CancelTicketNoLog(w.rebuilt, t, k, s))
    BY <1>1, CancelType
  <2>2. ApplyEntry(w.rebuilt, CancelEntry(t, k, s)) = CancelTicketNoLog(w.rebuilt, t, k, s)
    BY ApplyEntryMeaning
  <2>3. IsDB(ApplyEntry(w.rebuilt, CancelEntry(t, k, s)))
    BY <2>1, <2>2
  <2>4. QED
    BY <2>3, LoggedType
<1>8. ASSUME NEW t, NEW k, NEW s \in Seat
      PROVE  IsWal(Logged(w, PromoteEntry(t, k, s)))
  <2>1. IsDB(PromoteTicketNoLog(w.rebuilt, t, k, s))
    BY <1>1, PromoteType
  <2>2. ApplyEntry(w.rebuilt, PromoteEntry(t, k, s)) = PromoteTicketNoLog(w.rebuilt, t, k, s)
    BY ApplyEntryMeaning
  <2>3. IsDB(ApplyEntry(w.rebuilt, PromoteEntry(t, k, s)))
    BY <2>1, <2>2
  <2>4. QED
    BY <2>3, LoggedType
<1>9. QED
  BY <1>2, <1>3, <1>4, <1>5, <1>6, <1>7, <1>8

-----------------------------------------------------------------------------
(* Seats have one owner, as a property of a database value. *)

\* Confirmed tickets own different booked seats; waiting tickets name none,
\* so that cancelling one cannot free a seat.
SeatsAreOwned(d) ==
  /\ \A t \in DOMAIN d.tickets :
       d.tickets[t].status = "confirmed" =>
         /\ d.tickets[t].seat_id \in Seat
         /\ d.seats[d.tickets[t].seat_id] = BookedSeat
  /\ \A t \in DOMAIN d.tickets :
       d.tickets[t].status = "waiting" => d.tickets[t].seat_id = None
  /\ \A t, u \in DOMAIN d.tickets :
       /\ d.tickets[t].status = "confirmed"
       /\ d.tickets[u].status = "confirmed"
       /\ d.tickets[t].seat_id = d.tickets[u].seat_id
       => t = u

\* Changing seats nobody owns leaves the owned ones alone.
LEMMA SeatChangeKeepsOwners ==
  ASSUME NEW d, IsDB(d), SeatsAreOwned(d), NEW e,
         e.tickets = d.tickets,
         \A s \in Seat : d.seats[s] = BookedSeat => e.seats[s] = BookedSeat
  PROVE  SeatsAreOwned(e)
BY DEF SeatsAreOwned

LEMMA SeatUpdateKeepsOwners ==
  ASSUME NEW d, IsDB(d), SeatsAreOwned(d), NEW s \in Seat, NEW r,
         r = BookedSeat \/ d.seats[s] # BookedSeat
  PROVE  SeatsAreOwned([d EXCEPT !.seats[s] = r])
<1> DEFINE e == [d EXCEPT !.seats[s] = r]
<1>1. e = [seats |-> [d.seats EXCEPT ![s] = r], tickets |-> d.tickets,
           waiting_lists |-> d.waiting_lists]
  BY DBFields, SeatUpdate
<1> HIDE DEF e
<1>2. e.tickets = d.tickets
  BY <1>1
<1>3. \A x \in Seat : e.seats[x] = IF x = s THEN r ELSE d.seats[x]
  BY <1>1 DEF IsDB
<1>4. QED
  BY <1>2, <1>3, SeatChangeKeepsOwners DEF e

\* A new confirmed ticket takes a seat that was not booked.
LEMMA BookTierKeepsOwners ==
  ASSUME NEW d, IsDB(d), SeatsAreOwned(d),
         NEW t, NEW c, NEW k, NEW s \in Seat, d.seats[s] # BookedSeat
  PROVE  SeatsAreOwned(BookTierNoLog(d, t, c, k, s))
<1> DEFINE ticket == [client_id |-> c, tier |-> k, seat_id |-> s,
                      status |-> "confirmed"]
           e == BookTierNoLog(d, t, c, k, s)
<1>1. e.tickets = AddTicket(d.tickets, t, ticket)
  BY DEF BookTierNoLog, IsDB
<1>2. e.seats = [d.seats EXCEPT ![s] = BookedSeat]
  BY DEF BookTierNoLog, IsDB
<1> HIDE DEF e
<1>3. /\ DOMAIN e.tickets = DOMAIN d.tickets \cup {t}
      /\ e.tickets[t].status = "confirmed" /\ e.tickets[t].seat_id = s
      /\ \A u \in DOMAIN d.tickets : u # t => e.tickets[u] = d.tickets[u]
  BY <1>1 DEF AddTicket
<1>4. \A x \in Seat : e.seats[x] = IF x = s THEN BookedSeat ELSE d.seats[x]
  BY <1>2 DEF IsDB
<1>5. \A u \in DOMAIN d.tickets :
        d.tickets[u].status = "confirmed" => d.tickets[u].seat_id # s
  BY DEF SeatsAreOwned
<1>6. QED
  BY <1>3, <1>4, <1>5 DEF SeatsAreOwned, e

LEMMA WaitlistAddKeepsOwners ==
  ASSUME NEW d, IsDB(d), SeatsAreOwned(d), NEW t, NEW c, NEW k
  PROVE  SeatsAreOwned(WaitlistAddNoLog(d, t, c, k))
<1> DEFINE ticket == [client_id |-> c, tier |-> k, seat_id |-> None,
                      status |-> "waiting"]
           e == WaitlistAddNoLog(d, t, c, k)
<1>1. e.tickets = AddTicket(d.tickets, t, ticket)
  BY DEF WaitlistAddNoLog, IsDB
<1>2. e.seats = d.seats
  BY DEF WaitlistAddNoLog, IsDB
<1> HIDE DEF e
<1>3. /\ DOMAIN e.tickets = DOMAIN d.tickets \cup {t}
      /\ e.tickets[t].status = "waiting" /\ e.tickets[t].seat_id = None
      /\ \A u \in DOMAIN d.tickets : u # t => e.tickets[u] = d.tickets[u]
  BY <1>1 DEF AddTicket
<1>4. QED
  BY <1>2, <1>3 DEF SeatsAreOwned, e

\* Cancelling a ticket that is not cancelled yet frees its own seat, which
\* nobody else owns.
LEMMA CancelTicketKeepsOwners ==
  ASSUME NEW d, IsDB(d), SeatsAreOwned(d),
         NEW t \in DOMAIN d.tickets, d.tickets[t].status # "cancelled", NEW k
  PROVE  LET s == d.tickets[t].seat_id
             e == CancelTicketNoLog(d, t, k, s)
         IN  /\ SeatsAreOwned(e)
             /\ \A u \in DOMAIN e.tickets :
                  e.tickets[u].status = "confirmed" =>
                    s = None \/ e.tickets[u].seat_id # s
<1> DEFINE s == d.tickets[t].seat_id
           e == CancelTicketNoLog(d, t, k, s)
<1>1. /\ DOMAIN e.tickets = DOMAIN d.tickets
      /\ e.tickets[t].status = "cancelled"
      /\ \A u \in DOMAIN d.tickets : u # t => e.tickets[u] = d.tickets[u]
      /\ \A x \in Seat : e.seats[x] = IF x = s THEN FreeSeat ELSE d.seats[x]
  BY CancelMeaning
<1> HIDE DEF e
<1>2. d.tickets[t].status = "confirmed" \/ s = None
  BY DEF IsDB, Ticket, SeatsAreOwned
<1>3. \A u \in DOMAIN d.tickets :
        u # t /\ d.tickets[u].status = "confirmed" =>
          s = None \/ d.tickets[u].seat_id # s
  BY <1>2 DEF SeatsAreOwned
<1> HIDE DEF s
<1>4. ASSUME NEW u \in DOMAIN e.tickets,
             e.tickets[u].status \in {"confirmed", "waiting"}
      PROVE  u # t /\ e.tickets[u] = d.tickets[u]
  BY <1>1, <1>4
<1>5. ASSUME NEW u \in DOMAIN e.tickets, e.tickets[u].status = "confirmed"
      PROVE  /\ e.tickets[u].seat_id \in Seat
             /\ e.seats[e.tickets[u].seat_id] = BookedSeat
  <2>1. /\ u \in DOMAIN d.tickets /\ u # t /\ e.tickets[u] = d.tickets[u]
        /\ d.tickets[u].seat_id \in Seat
        /\ d.seats[d.tickets[u].seat_id] = BookedSeat
    BY <1>1, <1>4, <1>5 DEF SeatsAreOwned
  <2>2. d.tickets[u].seat_id # s
    BY <1>3, <1>5, <2>1, DBAssumption
  <2>3. QED
    BY <1>1, <2>1, <2>2
<1>6. SeatsAreOwned(e)
  BY <1>1, <1>4, <1>5 DEF SeatsAreOwned
<1>7. ASSUME NEW u \in DOMAIN e.tickets, e.tickets[u].status = "confirmed"
      PROVE  s = None \/ e.tickets[u].seat_id # s
  <2>1. u \in DOMAIN d.tickets /\ u # t /\ e.tickets[u] = d.tickets[u]
    BY <1>1, <1>4, <1>7
  <2>2. QED
    BY <2>1, <1>3, <1>7
<1>8. QED
  BY <1>6, <1>7, Zenon DEF e, s

\* A promoted ticket takes a seat that no confirmed ticket owns.
LEMMA PromoteKeepsOwners ==
  ASSUME NEW d, IsDB(d), SeatsAreOwned(d), NEW t, NEW k, NEW s \in Seat,
         \A u \in DOMAIN d.tickets :
           d.tickets[u].status = "confirmed" => d.tickets[u].seat_id # s
  PROVE  SeatsAreOwned(PromoteTicketNoLog(d, t, k, s))
<1>1. CASE t \notin DOMAIN d.tickets
  BY <1>1 DEF PromoteTicketNoLog
<1>2. CASE t \in DOMAIN d.tickets
  <2> DEFINE e == PromoteTicketNoLog(d, t, k, s)
             ticket == [d.tickets[t] EXCEPT !.status = "confirmed", !.seat_id = s]
  <2>1. e.tickets = [d.tickets EXCEPT ![t] = ticket]
    BY <1>2 DEF PromoteTicketNoLog, IsDB
  <2>2. e.seats = [d.seats EXCEPT ![s] = BookedSeat]
    BY <1>2 DEF PromoteTicketNoLog, IsDB
  <2>3. d.tickets[t] \in Ticket
    BY <1>2 DEF IsDB
  <2>4. ticket.status = "confirmed" /\ ticket.seat_id = s
    BY <2>3 DEF Ticket
  <2> HIDE DEF e, ticket
  <2>5. /\ DOMAIN e.tickets = DOMAIN d.tickets
        /\ e.tickets[t] = ticket
        /\ \A u \in DOMAIN d.tickets : u # t => e.tickets[u] = d.tickets[u]
    BY <1>2, <2>1
  <2>6. \A x \in Seat : e.seats[x] = IF x = s THEN BookedSeat ELSE d.seats[x]
    BY <2>2 DEF IsDB
  <2>7. QED
    BY <1>2, <2>4, <2>5, <2>6 DEF SeatsAreOwned, e
<1>3. QED
  BY <1>1, <1>2

-----------------------------------------------------------------------------
(* Tickets and waiting lists agree, and lists are in order, as a property *)
(* of a database value.                                                   *)

\* The counter that ends a ticket id never exceeds the number of tickets: the
\* id of a new ticket is new, and greater than all ids before it.
TicketsAreNumbered(d) ==
  \A t \in DOMAIN d.tickets : t[2] <= Cardinality(DOMAIN d.tickets)

\* A waiting list holds the waiting tickets of its tier, and nothing else.
ListsMatchTickets(d) ==
  \A k \in Tier :
    /\ \A i \in 1..Len(d.waiting_lists[k]) :
         d.waiting_lists[k][i] \in DOMAIN d.tickets
    /\ \A t \in DOMAIN d.tickets :
         Contains(d.waiting_lists[k], t) <=>
           d.tickets[t].status = "waiting" /\ d.tickets[t].tier = k

Ascending(q) == \A i, j \in 1..Len(q) : i < j => q[i][2] < q[j][2]

ListsAscend(d) == \A k \in Tier : Ascending(d.waiting_lists[k])

\* A ticket's seat is of its tier; a waiting ticket has none, a confirmed one
\* has.  A cancelled ticket still names its seat, and cancelling it again
\* hands that seat on: it must be of the tier, too.
SeatsFit(d) ==
  \A t \in DOMAIN d.tickets :
    /\ d.tickets[t].seat_id # None =>
         /\ d.tickets[t].seat_id \in Seat
         /\ TierOf[d.tickets[t].seat_id] = d.tickets[t].tier
    /\ d.tickets[t].status = "waiting" => d.tickets[t].seat_id = None
    /\ d.tickets[t].status = "confirmed" => d.tickets[t].seat_id # None

ListsAreInStep(d) ==
  /\ TicketsAreNumbered(d)
  /\ ListsMatchTickets(d)
  /\ ListsAscend(d)
  /\ SeatsFit(d)

-----------------------------------------------------------------------------
(* Lists of ticket ids in ascending order. *)

\* Taking a ticket out of an ascending list leaves the others, in order.
LEMMA RemoveFromAscending ==
  ASSUME NEW q \in Seq(TicketId), Ascending(q), NEW e
  PROVE  /\ Ascending(RemoveFirst(q, e))
         /\ \A t : Contains(RemoveFirst(q, e), t) <=> Contains(q, t) /\ t # e
<1>1. CASE ~Contains(q, e)
  <2>1. RemoveFirst(q, e) = q
    BY <1>1, RemoveFirstProperties
  <2>2. QED
    BY <1>1, <2>1
<1>2. CASE Contains(q, e)
  <2> DEFINE r == RemoveFirst(q, e)
  <2>1. PICK m \in 1..Len(q) :
          /\ q[m] = e
          /\ Len(r) = Len(q) - 1
          /\ \A j \in 1..(Len(q) - 1) : r[j] = IF j < m THEN q[j] ELSE q[j + 1]
    BY <1>2, RemoveFirstProperties
  <2> HIDE DEF r
  <2>2. Len(q) \in Nat
    BY LenProperties
  <2>3. \A i \in 1..Len(q) : q[i] \in TicketId /\ q[i][2] \in Nat
    BY ElementOfSeq DEF TicketId
  <2>4. Ascending(r)
    <3> SUFFICES ASSUME NEW i \in 1..Len(r), NEW j \in 1..Len(r), i < j
                 PROVE  r[i][2] < r[j][2]
      BY DEF Ascending
    <3>1. i \in 1..(Len(q) - 1) /\ j \in 1..(Len(q) - 1)
      BY <2>1
    <3>2. /\ i \in 1..Len(q) /\ i + 1 \in 1..Len(q)
          /\ j \in 1..Len(q) /\ j + 1 \in 1..Len(q)
      BY <2>2, <3>1
    <3>3. CASE j < m
      <4>1. r[i] = q[i] /\ r[j] = q[j]
        BY <2>1, <3>1, <3>3
      <4>2. QED
        BY <3>2, <4>1 DEF Ascending
    <3>4. CASE ~(j < m) /\ i < m
      <4>1. r[i] = q[i] /\ r[j] = q[j + 1]
        BY <2>1, <3>1, <3>4
      <4>2. QED
        BY <3>2, <4>1 DEF Ascending
    <3>5. CASE ~(i < m)
      <4>1. r[i] = q[i + 1] /\ r[j] = q[j + 1]
        BY <2>1, <3>1, <3>5
      <4>2. QED
        BY <3>2, <4>1 DEF Ascending
    <3>6. QED
      BY <3>3, <3>4, <3>5
  <2>5. ASSUME NEW t, Contains(r, t)
        PROVE  Contains(q, t) /\ t # e
    <3>1. PICK j \in 1..Len(r) : r[j] = t
      BY <2>5 DEF Contains
    <3>2. PICK i \in 1..Len(q) : i # m /\ q[i] = t
      <4>1. j \in 1..(Len(q) - 1) /\ j \in 1..Len(q) /\ j + 1 \in 1..Len(q)
        BY <2>1, <2>2
      <4>2. QED
        BY <2>1, <3>1, <4>1
    <3>3. q[i][2] # q[m][2]
      BY <2>3, <3>2 DEF Ascending
    <3>4. QED
      BY <2>1, <3>2, <3>3 DEF Contains
  <2>6. ASSUME NEW t, Contains(q, t), t # e
        PROVE  Contains(r, t)
    <3>1. PICK i \in 1..Len(q) : q[i] = t
      BY <2>6 DEF Contains
    <3>2. i # m
      BY <2>1, <2>6, <3>1
    <3>3. CASE i < m
      <4>1. i \in 1..(Len(q) - 1) /\ i \in 1..Len(r)
        BY <2>1, <2>2, <3>3
      <4>2. r[i] = t
        BY <2>1, <3>1, <3>3, <4>1
      <4>3. QED
        BY <4>1, <4>2 DEF Contains
    <3>4. CASE i > m
      <4>1. i - 1 \in 1..(Len(q) - 1) /\ i - 1 \in 1..Len(r)
            /\ ~(i - 1 < m) /\ (i - 1) + 1 = i
        BY <2>1, <2>2, <3>4
      <4>2. r[i - 1] = t
        BY <2>1, <3>1, <4>1
      <4>3. QED
        BY <4>1, <4>2 DEF Contains
    <3>5. QED
      BY <3>2, <3>3, <3>4
  <2>7. QED
    BY <2>4, <2>5, <2>6 DEF r
<1>3. QED
  BY <1>1, <1>2

\* A ticket greater than all before it goes to the end of an ascending list.
LEMMA AppendToAscending ==
  ASSUME NEW q \in Seq(TicketId), Ascending(q), NEW t \in TicketId,
         \A i \in 1..Len(q) : q[i][2] < t[2]
  PROVE  /\ Ascending(Append(q, t))
         /\ \A u : Contains(Append(q, t), u) <=> Contains(q, u) \/ u = t
<1> DEFINE r == Append(q, t)
<1>1. /\ Len(r) = Len(q) + 1
      /\ \A i \in 1..Len(q) : r[i] = q[i]
      /\ r[Len(q) + 1] = t
  BY AppendProperties
<1>2. Len(q) \in Nat
  BY LenProperties
<1> HIDE DEF r
<1>3. \A i \in 1..Len(r) : i \in 1..Len(q) \/ i = Len(q) + 1
  BY <1>1, <1>2
<1>4. Ascending(r)
  BY <1>1, <1>2, <1>3 DEF Ascending
<1>5. ASSUME NEW u
      PROVE  Contains(r, u) <=> Contains(q, u) \/ u = t
  <2>1. Contains(r, u) => Contains(q, u) \/ u = t
    BY <1>1, <1>3 DEF Contains
  <2>2. 1..Len(q) \subseteq 1..Len(r) /\ Len(q) + 1 \in 1..Len(r)
    BY <1>1, <1>2
  <2>3. Contains(q, u) \/ u = t => Contains(r, u)
    BY <1>1, <2>2 DEF Contains
  <2>4. QED
    BY <2>1, <2>3
<1>6. QED
  BY <1>4, <1>5 DEF r

\* The head of an ascending list is its smallest element.
LEMMA HeadIsOldest ==
  ASSUME NEW q \in Seq(TicketId), q # <<>>, Ascending(q)
  PROVE  /\ Contains(q, Head(q))
         /\ \A u : Contains(q, u) => u = Head(q) \/ Head(q)[2] < u[2]
<1>1. Len(q) \in Nat /\ Len(q) >= 1 /\ Head(q) = q[1]
  BY LenProperties, EmptySeq
<1>2. \A i \in 1..Len(q) : i = 1 \/ 1 < i
  BY <1>1
<1>3. QED
  BY <1>1, <1>2 DEF Contains, Ascending

\* Taking the first out of a list is taking its head off.
LEMMA RemoveHead ==
  ASSUME NEW q \in Seq(TicketId), q # <<>>, Ascending(q)
  PROVE  RemoveFirst(q, Head(q)) = Tail(q)
<1> DEFINE e == Head(q)
           r == RemoveFirst(q, e)
<1>1. /\ Len(q) \in Nat /\ Len(q) >= 1
      /\ e = q[1]
      /\ Tail(q) \in Seq(TicketId) /\ Len(Tail(q)) = Len(q) - 1
      /\ \A i \in 1..Len(Tail(q)) : Tail(q)[i] = q[i + 1]
  BY HeadTailProperties, LenProperties, EmptySeq
<1>2. Contains(q, e)
  BY <1>1 DEF Contains
<1>3. r \in Seq(TicketId)
  BY RemoveFirstProperties
<1>4. PICK m \in 1..Len(q) :
        /\ q[m] = e
        /\ Len(r) = Len(q) - 1
        /\ \A j \in 1..(Len(q) - 1) : r[j] = IF j < m THEN q[j] ELSE q[j + 1]
  BY <1>2, RemoveFirstProperties
<1> HIDE DEF e, r
<1>5. \A i \in 1..Len(q) : q[i] \in TicketId /\ q[i][2] \in Nat
  BY ElementOfSeq DEF TicketId
<1>6. m = 1
  BY <1>1, <1>4, <1>5 DEF Ascending
<1>7. \A j \in 1..(Len(q) - 1) : r[j] = Tail(q)[j]
  BY <1>1, <1>4, <1>6
<1>8. r = Tail(q)
  BY <1>1, <1>3, <1>4, <1>7, SeqEqual
<1>9. QED
  BY <1>8 DEF r, e

-----------------------------------------------------------------------------
(* Each transition keeps tickets and lists in step. *)

\* The same fact for every t at once, ids no ticket has included.
LEMMA ListedIffWaiting ==
  ASSUME NEW d, ListsMatchTickets(d), NEW k \in Tier, NEW t
  PROVE  Contains(d.waiting_lists[k], t) <=>
           /\ t \in DOMAIN d.tickets
           /\ d.tickets[t].status = "waiting" /\ d.tickets[t].tier = k
BY DEF ListsMatchTickets, Contains

LEMMA SameTicketsStayInStep ==
  ASSUME NEW d, ListsAreInStep(d), NEW e,
         e.tickets = d.tickets, e.waiting_lists = d.waiting_lists
  PROVE  ListsAreInStep(e)
BY DEF ListsAreInStep, TicketsAreNumbered, ListsMatchTickets, ListsAscend,
       SeatsFit

\* A new ticket id is well formed: the counter is the number of tickets.
LEMMA NewTicketIdType ==
  ASSUME NEW d, IsDB(d), NEW now \in Nat
  PROVE  NewTicketId(d, now) \in TicketId
<1>1. Cardinality(DOMAIN d.tickets) \in Nat
  BY FS_CardinalityType DEF IsDB
<1>2. QED
  BY <1>1 DEF NewTicketId, TicketId

\* The id of a new ticket is new, and its counter the greatest.
LEMMA NewTicketIsLast ==
  ASSUME NEW d, IsDB(d), TicketsAreNumbered(d), NEW now \in Nat
  PROVE  LET t == NewTicketId(d, now) IN
         /\ t \in TicketId
         /\ t[1] = now /\ t[2] = Cardinality(DOMAIN d.tickets) + 1
         /\ t \notin DOMAIN d.tickets
         /\ \A u \in DOMAIN d.tickets : u[2] \in Nat /\ u[2] < t[2]
         /\ Cardinality(DOMAIN d.tickets \cup {t}) = t[2]
<1> DEFINE n == Cardinality(DOMAIN d.tickets)
           t == NewTicketId(d, now)
<1>1. n \in Nat
  BY FS_CardinalityType DEF IsDB
<1>2. t = <<now, n + 1>>
  BY DEF NewTicketId
<1>3. \A u \in DOMAIN d.tickets : u[2] \in Nat /\ u[2] <= n
  BY DEF TicketsAreNumbered, IsDB, TicketId
<1>4. t \in TicketId
  BY NewTicketIdType
<1> HIDE DEF n
<1>5. t[1] = now /\ t[2] = n + 1
  BY <1>2
<1> HIDE DEF t
<1>6. \A u \in DOMAIN d.tickets : u[2] \in Nat /\ u[2] < t[2]
  BY <1>1, <1>3, <1>5
<1>7. t \notin DOMAIN d.tickets
  BY <1>6
<1>8. Cardinality(DOMAIN d.tickets \cup {t}) = n + 1
  BY <1>7, FS_AddElement DEF IsDB, n
<1>9. QED
  BY <1>4, <1>5, <1>6, <1>7, <1>8 DEF t, n

LEMMA AddedTicketIsNumbered ==
  ASSUME NEW d, IsDB(d), TicketsAreNumbered(d), NEW now \in Nat, NEW e,
         DOMAIN e.tickets = DOMAIN d.tickets \cup {NewTicketId(d, now)}
  PROVE  TicketsAreNumbered(e)
<1> DEFINE t == NewTicketId(d, now)
<1>1. /\ t[2] \in Nat
      /\ \A u \in DOMAIN d.tickets : u[2] \in Nat /\ u[2] < t[2]
      /\ Cardinality(DOMAIN d.tickets \cup {t}) = t[2]
  BY NewTicketIsLast DEF TicketId
<1> HIDE DEF t
<1>2. \A u \in DOMAIN e.tickets : u[2] <= Cardinality(DOMAIN e.tickets)
  BY <1>1 DEF t
<1>3. QED
  BY <1>2 DEF TicketsAreNumbered

LEMMA BookTierStaysInStep ==
  ASSUME NEW d, IsDB(d), ListsAreInStep(d), NEW now \in Nat,
         NEW c, NEW k, NEW s \in Seat, TierOf[s] = k
  PROVE  ListsAreInStep(BookTierNoLog(d, NewTicketId(d, now), c, k, s))
<1> DEFINE t == NewTicketId(d, now)
           e == BookTierNoLog(d, t, c, k, s)
<1>1. t \notin DOMAIN d.tickets
  BY NewTicketIsLast DEF ListsAreInStep
<1>2. /\ DOMAIN e.tickets = DOMAIN d.tickets \cup {t}
      /\ e.tickets[t].tier = k
      /\ e.tickets[t].seat_id = s /\ e.tickets[t].status = "confirmed"
      /\ \A u \in DOMAIN d.tickets : u # t => e.tickets[u] = d.tickets[u]
      /\ e.waiting_lists = d.waiting_lists
  BY BookTierMeaning
<1> HIDE DEF e
<1>3. TicketsAreNumbered(e)
  BY <1>2, AddedTicketIsNumbered DEF ListsAreInStep
<1> HIDE DEF t
<1>4. \A u \in DOMAIN d.tickets : e.tickets[u] = d.tickets[u]
  BY <1>1, <1>2
<1>5. ListsMatchTickets(e)
  <2> SUFFICES ASSUME NEW j \in Tier
               PROVE  /\ \A i \in 1..Len(d.waiting_lists[j]) :
                           d.waiting_lists[j][i] \in DOMAIN e.tickets
                      /\ \A u \in DOMAIN e.tickets :
                           Contains(d.waiting_lists[j], u) <=>
                             e.tickets[u].status = "waiting" /\ e.tickets[u].tier = j
    BY <1>2 DEF ListsMatchTickets
  <2>1. \A u : Contains(d.waiting_lists[j], u) <=>
          u \in DOMAIN d.tickets /\ d.tickets[u].status = "waiting" /\ d.tickets[u].tier = j
    BY ListedIffWaiting DEF ListsAreInStep
  <2>2. \A i \in 1..Len(d.waiting_lists[j]) : d.waiting_lists[j][i] \in DOMAIN d.tickets
    BY DEF ListsAreInStep, ListsMatchTickets
  <2>3. QED
    BY <1>1, <1>2, <1>4, <2>1, <2>2
<1>6. ListsAscend(e)
  BY <1>2 DEF ListsAreInStep, ListsAscend
<1>7. SeatsFit(e)
  BY <1>1, <1>2, <1>4, DBAssumption DEF ListsAreInStep, SeatsFit
<1>8. QED
  BY <1>3, <1>5, <1>6, <1>7 DEF ListsAreInStep, e, t

LEMMA WaitlistAddStaysInStep ==
  ASSUME NEW d, IsDB(d), ListsAreInStep(d), NEW now \in Nat, NEW c, NEW k \in Tier
  PROVE  ListsAreInStep(WaitlistAddNoLog(d, NewTicketId(d, now), c, k))
<1> DEFINE t == NewTicketId(d, now)
           e == WaitlistAddNoLog(d, t, c, k)
<1>1. /\ t \in TicketId /\ t \notin DOMAIN d.tickets
      /\ \A u \in DOMAIN d.tickets : u[2] < t[2]
  BY NewTicketIsLast DEF ListsAreInStep
<1>2. /\ DOMAIN e.tickets = DOMAIN d.tickets \cup {t}
      /\ e.tickets[t].tier = k
      /\ e.tickets[t].seat_id = None /\ e.tickets[t].status = "waiting"
      /\ \A u \in DOMAIN d.tickets : u # t => e.tickets[u] = d.tickets[u]
      /\ \A j \in Tier : e.waiting_lists[j] =
           IF j = k THEN Append(d.waiting_lists[k], t) ELSE d.waiting_lists[j]
  BY WaitlistAddMeaning
<1> HIDE DEF e
<1>3. TicketsAreNumbered(e)
  BY <1>2, AddedTicketIsNumbered DEF ListsAreInStep
<1> HIDE DEF t
<1>4. \A u \in DOMAIN d.tickets : e.tickets[u] = d.tickets[u]
  BY <1>1, <1>2
<1>5. d.waiting_lists[k] \in Seq(TicketId) /\ Ascending(d.waiting_lists[k])
  BY DEF IsDB, ListsAreInStep, ListsAscend
<1>6. \A i \in 1..Len(d.waiting_lists[k]) : d.waiting_lists[k][i][2] < t[2]
  BY <1>1 DEF ListsAreInStep, ListsMatchTickets
<1>7. /\ Ascending(Append(d.waiting_lists[k], t))
      /\ \A u : Contains(Append(d.waiting_lists[k], t), u) <=>
                  Contains(d.waiting_lists[k], u) \/ u = t
  BY <1>1, <1>5, <1>6, AppendToAscending
<1>8. ListsMatchTickets(e)
  <2> SUFFICES ASSUME NEW j \in Tier
               PROVE  /\ \A i \in 1..Len(e.waiting_lists[j]) :
                           e.waiting_lists[j][i] \in DOMAIN e.tickets
                      /\ \A u \in DOMAIN e.tickets :
                           Contains(e.waiting_lists[j], u) <=>
                             e.tickets[u].status = "waiting" /\ e.tickets[u].tier = j
    BY DEF ListsMatchTickets
  <2>1. \A u : Contains(d.waiting_lists[j], u) <=>
          u \in DOMAIN d.tickets /\ d.tickets[u].status = "waiting" /\ d.tickets[u].tier = j
    BY ListedIffWaiting DEF ListsAreInStep
  <2>2. \A u : Contains(e.waiting_lists[j], u) <=>
                 Contains(d.waiting_lists[j], u) \/ (j = k /\ u = t)
    BY <1>2, <1>7
  <2>3. \A u : Contains(e.waiting_lists[j], u) <=>
          u \in DOMAIN e.tickets /\ e.tickets[u].status = "waiting" /\ e.tickets[u].tier = j
    BY <1>1, <1>2, <1>4, <2>1, <2>2
  <2>4. \A i \in 1..Len(e.waiting_lists[j]) :
          Contains(e.waiting_lists[j], e.waiting_lists[j][i])
    BY DEF Contains
  <2>5. QED
    BY <2>3, <2>4
<1>9. ListsAscend(e)
  BY <1>2, <1>7 DEF ListsAreInStep, ListsAscend
<1>10. SeatsFit(e)
  BY <1>1, <1>2, <1>4 DEF ListsAreInStep, SeatsFit
<1>11. QED
  BY <1>3, <1>8, <1>9, <1>10 DEF ListsAreInStep, e, t

\* What Dequeue does to lists that are in step.
LEMMA DequeueAscending ==
  ASSUME NEW d, IsDB(d), ListsAreInStep(d), NEW k, NEW t, NEW j \in Tier
  PROVE  /\ Ascending(Dequeue(d.waiting_lists, k, t)[j])
         /\ \A u : Contains(Dequeue(d.waiting_lists, k, t)[j], u) <=>
              Contains(d.waiting_lists[j], u) /\ ~(j = k /\ u = t)
<1>1. Dequeue(d.waiting_lists, k, t)[j] =
        IF j = k THEN RemoveFirst(d.waiting_lists[j], t) ELSE d.waiting_lists[j]
  BY DEF Dequeue, IsDB
<1>2. d.waiting_lists[j] \in Seq(TicketId) /\ Ascending(d.waiting_lists[j])
  BY DEF IsDB, ListsAreInStep, ListsAscend
<1>3. /\ Ascending(RemoveFirst(d.waiting_lists[j], t))
      /\ \A u : Contains(RemoveFirst(d.waiting_lists[j], t), u) <=>
                  Contains(d.waiting_lists[j], u) /\ u # t
  BY <1>2, RemoveFromAscending
<1>4. QED
  BY <1>1, <1>2, <1>3

\* A ticket that stops waiting leaves the list of its tier.
LEMMA DequeueStaysInStep ==
  ASSUME NEW d, IsDB(d), ListsAreInStep(d),
         NEW t \in DOMAIN d.tickets, NEW k, k = d.tickets[t].tier,
         NEW e, DOMAIN e.tickets = DOMAIN d.tickets,
         e.tickets[t].tier = k,
         e.tickets[t].status \in {"confirmed", "cancelled"},
         e.tickets[t].seat_id \in Seat \cup {None},
         e.tickets[t].seat_id \in Seat => TierOf[e.tickets[t].seat_id] = k,
         e.tickets[t].status = "confirmed" => e.tickets[t].seat_id \in Seat,
         \A u \in DOMAIN d.tickets : u # t => e.tickets[u] = d.tickets[u],
         e.waiting_lists = Dequeue(d.waiting_lists, k, t)
  PROVE  ListsAreInStep(e)
<1> DEFINE lists == Dequeue(d.waiting_lists, k, t)
<1>1. ASSUME NEW j \in Tier
      PROVE  /\ Ascending(lists[j])
             /\ \A u : Contains(lists[j], u) <=>
                  Contains(d.waiting_lists[j], u) /\ ~(j = k /\ u = t)
  BY DequeueAscending, ZenonT(60)
<1>2. e.waiting_lists = lists
  OBVIOUS
<1> HIDE DEF lists
<1>3. ASSUME NEW j \in Tier, NEW u
      PROVE  Contains(e.waiting_lists[j], u) <=>
               /\ u \in DOMAIN e.tickets
               /\ e.tickets[u].status = "waiting" /\ e.tickets[u].tier = j
  <2>1. Contains(d.waiting_lists[j], u) <=>
          /\ u \in DOMAIN d.tickets
          /\ d.tickets[u].status = "waiting" /\ d.tickets[u].tier = j
    BY ListedIffWaiting DEF ListsAreInStep
  <2>2. Contains(e.waiting_lists[j], u) <=>
          Contains(d.waiting_lists[j], u) /\ ~(j = k /\ u = t)
    BY <1>1, <1>2
  <2>3. QED
    BY <2>1, <2>2
<1>4. \A j \in Tier : \A i \in 1..Len(e.waiting_lists[j]) :
          Contains(e.waiting_lists[j], e.waiting_lists[j][i])
  BY DEF Contains
<1>5. ListsMatchTickets(e)
  BY <1>3, <1>4 DEF ListsMatchTickets
<1>6. ListsAscend(e)
  BY <1>1, <1>2 DEF ListsAscend
<1>7. TicketsAreNumbered(e)
  BY DEF ListsAreInStep, TicketsAreNumbered
<1>8. SeatsFit(e)
  BY DBAssumption DEF ListsAreInStep, SeatsFit
<1>9. QED
  BY <1>5, <1>6, <1>7, <1>8 DEF ListsAreInStep

\* Cancelling, even again, keeps them in step.
LEMMA CancelTicketStaysInStep ==
  ASSUME NEW d, IsDB(d), ListsAreInStep(d), NEW t \in DOMAIN d.tickets
  PROVE  LET e == CancelTicketNoLog(d, t, d.tickets[t].tier, d.tickets[t].seat_id)
         IN  ListsAreInStep(e) /\ IsDB(e)
<1> DEFINE k == d.tickets[t].tier
           s == d.tickets[t].seat_id
           e == CancelTicketNoLog(d, t, k, s)
<1>1. s \in Seat \cup {None} /\ k = d.tickets[t].tier
  BY DEF IsDB, Ticket
<1>2. s \in Seat => TierOf[s] = k
  BY DBAssumption DEF ListsAreInStep, SeatsFit
<1>3. /\ DOMAIN e.tickets = DOMAIN d.tickets
      /\ e.tickets[t].tier = k /\ e.tickets[t].seat_id = s
      /\ e.tickets[t].status = "cancelled"
      /\ \A u \in DOMAIN d.tickets : u # t => e.tickets[u] = d.tickets[u]
      /\ e.waiting_lists = Dequeue(d.waiting_lists, k, t)
  BY CancelMeaning
<1>4. IsDB(e)
  BY <1>1, CancelType
<1> HIDE DEF k, s, e
<1>5. ListsAreInStep(e)
  BY <1>1, <1>2, <1>3, DequeueStaysInStep
<1>6. QED
  BY <1>4, <1>5 DEF e, k, s

LEMMA PromoteStaysInStep ==
  ASSUME NEW d, IsDB(d), ListsAreInStep(d), NEW t \in DOMAIN d.tickets,
         NEW k, k = d.tickets[t].tier, NEW s \in Seat, TierOf[s] = k
  PROVE  ListsAreInStep(PromoteTicketNoLog(d, t, k, s))
<1> DEFINE e == PromoteTicketNoLog(d, t, k, s)
<1>1. /\ DOMAIN e.tickets = DOMAIN d.tickets
      /\ e.tickets[t].tier = k /\ e.tickets[t].seat_id = s
      /\ e.tickets[t].status = "confirmed"
      /\ \A u \in DOMAIN d.tickets : u # t => e.tickets[u] = d.tickets[u]
      /\ e.waiting_lists = Dequeue(d.waiting_lists, k, t)
  BY PromoteMeaning
<1> HIDE DEF e
<1>2. ListsAreInStep(e)
  BY <1>1, DequeueStaysInStep
<1>3. QED
  BY <1>2 DEF e

-----------------------------------------------------------------------------
(* Seats are taken by tickets only. *)

\* A seat that is not available is the seat of a confirmed ticket: the calls
\* of the shipped clients book no seat without a ticket.
SeatsInUse(d) ==
  \A s \in Seat :
    \/ d.seats[s].state = "available"
    \/ \E t \in DOMAIN d.tickets :
         d.tickets[t].status = "confirmed" /\ d.tickets[t].seat_id = s

LEMMA BookTierKeepsInUse ==
  ASSUME NEW d, IsDB(d), SeatsInUse(d), NEW t, t \notin DOMAIN d.tickets,
         NEW c, NEW k, NEW s
  PROVE  SeatsInUse(BookTierNoLog(d, t, c, k, s))
BY BookTierMeaning DEF SeatsInUse

LEMMA WaitlistAddKeepsInUse ==
  ASSUME NEW d, IsDB(d), SeatsInUse(d), NEW t, t \notin DOMAIN d.tickets,
         NEW c, NEW k
  PROVE  SeatsInUse(WaitlistAddNoLog(d, t, c, k))
BY WaitlistAddMeaning DEF SeatsInUse

LEMMA CancelKeepsInUse ==
  ASSUME NEW d, IsDB(d), SeatsInUse(d), NEW t \in DOMAIN d.tickets, NEW k
  PROVE  SeatsInUse(CancelTicketNoLog(d, t, k, d.tickets[t].seat_id))
<1>1. FreeSeat.state = "available"
  BY DEF FreeSeat
<1>2. QED
  BY <1>1, CancelMeaning DEF SeatsInUse

\* Only a waiting ticket may be promoted: it has no seat to lose.
LEMMA PromoteKeepsInUse ==
  ASSUME NEW d, IsDB(d), SeatsInUse(d), NEW t \in DOMAIN d.tickets,
         d.tickets[t].status # "confirmed", NEW k, NEW s
  PROVE  SeatsInUse(PromoteTicketNoLog(d, t, k, s))
BY PromoteMeaning DEF SeatsInUse

-----------------------------------------------------------------------------
(* A log that replays to d follows it through the calls by tier. *)

\* The log replays without raising and yields d.
Follows(w, d) == w.replays /\ w.rebuilt = d

\* An entry that cannot raise extends a log that replays.
LEMMA LoggedFollows ==
  ASSUME NEW w, IsWal(w), NEW d, Follows(w, d), NEW e, e.op \notin {"HOLD", "BOOK"}
  PROVE  Follows(Logged(w, e), ApplyEntry(d, e))
<1>1. w.replays /\ w.rebuilt = d /\ ~Raises(w.rebuilt, e)
  BY DEF Raises, Follows
<1>2. Logged(w, e) = [w EXCEPT !.rebuilt = ApplyEntry(w.rebuilt, e)]
  BY <1>1 DEF Logged
<1>3. w = [replays |-> w.replays, rebuilt |-> w.rebuilt]
  BY DEF IsWal, WalState
<1> DEFINE v == [w EXCEPT !.rebuilt = ApplyEntry(w.rebuilt, e)]
<1>4. v.replays = w.replays /\ v.rebuilt = ApplyEntry(w.rebuilt, e)
  BY <1>3
<1> HIDE DEF v
<1>5. Follows(v, ApplyEntry(d, e))
  BY <1>1, <1>4 DEF Follows
<1>6. QED
  BY <1>2, <1>5 DEF v

\* Each entry the tier calls append redoes the change made in memory.
LEMMA TierEntriesFollow ==
  ASSUME NEW w, IsWal(w), NEW d, Follows(w, d), NEW t, NEW c, NEW k, NEW s
  PROVE  /\ Follows(Logged(w, BookTierEntry(t, c, k, s)),
                    BookTierNoLog(d, t, c, k, s))
         /\ Follows(Logged(w, WaitlistAddEntry(t, c, k)),
                    WaitlistAddNoLog(d, t, c, k))
         /\ Follows(Logged(w, CancelEntry(t, k, s)),
                    CancelTicketNoLog(d, t, k, s))
         /\ Follows(Logged(w, PromoteEntry(t, k, s)),
                    PromoteTicketNoLog(d, t, k, s))
<1> DEFINE book == BookTierEntry(t, c, k, s)
           join == WaitlistAddEntry(t, c, k)
           cancel == CancelEntry(t, k, s)
           promote == PromoteEntry(t, k, s)
<1>1. /\ book.op \notin {"HOLD", "BOOK"}
      /\ join.op \notin {"HOLD", "BOOK"}
      /\ cancel.op \notin {"HOLD", "BOOK"}
      /\ promote.op \notin {"HOLD", "BOOK"}
  BY DEF BookTierEntry, WaitlistAddEntry, CancelEntry, PromoteEntry
<1>2. /\ ApplyEntry(d, book) = BookTierNoLog(d, t, c, k, s)
      /\ ApplyEntry(d, join) = WaitlistAddNoLog(d, t, c, k)
      /\ ApplyEntry(d, cancel) = CancelTicketNoLog(d, t, k, s)
      /\ ApplyEntry(d, promote) = PromoteTicketNoLog(d, t, k, s)
  BY ApplyEntryMeaning
<1> HIDE DEF book, join, cancel, promote
<1>3. \A e \in {book, join, cancel, promote} :
        Follows(Logged(w, e), ApplyEntry(d, e))
  BY <1>1, LoggedFollows
<1>4. QED
  BY <1>2, <1>3 DEF book, join, cancel, promote
=============================================================================
