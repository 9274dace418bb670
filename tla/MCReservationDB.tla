--------------------------- MODULE MCReservationDB ---------------------------
(***************************************************************************)
(* Values for TLC: one train with two tiers, seats 1 and 2 in the first,   *)
(* seat 3 in the second, and a third tier the train does not have.         *)
(***************************************************************************)
EXTENDS ReservationDBProps

CONSTANTS k1, k2, k3

MCTier == {k1, k2, k3}
MCSeat == 1..3
MCTierOf == [s \in MCSeat |-> IF s <= 2 THEN k1 ELSE k2]
MCNumberOf == [s \in MCSeat |-> IF s <= 2 THEN s ELSE 1]

\* The smaller instances of the runs with holds: a tier of one seat beside a
\* tier without seats, and a tier of two seats.
OneSeat == {1}
TwoSeats == {1, 2}
AllInK1 == [s \in Seat |-> k1]
OwnNumber == [s \in Seat |-> s]
TwoTiers == {k1, k2}
OneTier == {k1}

\* Clients are interchangeable: no operation chooses among them.
ClientSymmetry == Permutations(Client)
=============================================================================
