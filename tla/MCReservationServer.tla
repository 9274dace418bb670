------------------------ MODULE MCReservationServer ------------------------
(***************************************************************************)
(* Values for TLC: one tier of one seat; two connections of two clients,   *)
(* or three connections, the last two of the same client.                  *)
(***************************************************************************)
EXTENDS ReservationServerProps

CONSTANTS k1, c1, c2, t1, t2, t3

MCSeat == {1}
MCTier == {k1}
MCTierOf == [s \in MCSeat |-> k1]
MCNumberOf == [s \in MCSeat |-> s]
MCClient == {c1, c2}
TwoTasks == {t1, t2}
ThreeTasks == {t1, t2, t3}
MCClientOf == [t \in Task |-> IF t = t1 THEN c1 ELSE c2]
=============================================================================
