--------------------------- MODULE SeatAllocation ---------------------------
(***************************************************************************)
(* What tier booking promises its clients, without holds, logs or clocks:  *)
(* every seat has at most one holder, a ticket waits only when its tier is *)
(* full, and a seat given up goes to the ticket that has waited longest.   *)
(* ReservationDB implements it for the calls of TierSpec (see              *)
(* ReservationDBProps!ImplementsSeatAllocation).                           *)
(***************************************************************************)
EXTENDS Naturals, Sequences

CONSTANTS
  Seat, Tier, TierOf,  \* seats, tiers and the tier of each seat
  Id,                  \* ticket ids
  None                 \* no holder

VARIABLES
  holder,  \* who has each seat
  queue,   \* who waits for a seat of each tier, longest first
  issued   \* ids of all tickets ever issued

vars == <<holder, queue, issued>>

Init ==
  /\ holder = [s \in Seat |-> None]
  /\ queue = [k \in Tier |-> <<>>]
  /\ issued = {}

Free(k) == {s \in Seat : TierOf[s] = k /\ holder[s] = None}

\* A new ticket takes a free seat of its tier; nobody waits for one.
Grant(k, t) ==
  /\ queue[k] = <<>>
  /\ \E s \in Free(k) : holder' = [holder EXCEPT ![s] = t]
  /\ UNCHANGED queue

\* A new ticket waits behind the others because its tier is full.
Join(k, t) ==
  /\ Free(k) = {}
  /\ queue' = [queue EXCEPT ![k] = Append(@, t)]
  /\ UNCHANGED holder

Issue(k, t) ==
  /\ t \notin issued
  /\ issued' = issued \cup {t}
  /\ Grant(k, t) \/ Join(k, t)

\* A waiting ticket gives up its place; the others keep their order.
Leave(k, i) ==
  /\ queue' = [queue EXCEPT ![k] = SubSeq(@, 1, i - 1)
                                     \o SubSeq(@, i + 1, Len(@))]
  /\ UNCHANGED <<holder, issued>>

\* A holder gives up its seat: to the first in the queue, if there is one.
GiveUp(s) ==
  LET k == TierOf[s] IN
  /\ holder[s] # None
  /\ IF queue[k] = <<>>
       THEN /\ holder' = [holder EXCEPT ![s] = None]
            /\ UNCHANGED queue
       ELSE /\ holder' = [holder EXCEPT ![s] = Head(queue[k])]
            /\ queue' = [queue EXCEPT ![k] = Tail(@)]
  /\ UNCHANGED issued

Next ==
  \/ \E k \in Tier, t \in Id : Issue(k, t)
  \/ \E k \in Tier : \E i \in 1..Len(queue[k]) : Leave(k, i)
  \/ \E s \in Seat : GiveUp(s)

Spec == Init /\ [][Next]_vars
=============================================================================
