-------------------------- MODULE MCStressHarness --------------------------
(***************************************************************************)
(* Values for TLC: one tier of one seat, and workers that compete for it.  *)
(***************************************************************************)
EXTENDS StressHarness

CONSTANTS k1, t1, t2, t3

MCSeat == {1}
MCTier == {k1}
MCTierOf == [s \in MCSeat |-> k1]
MCNumberOf == [s \in MCSeat |-> s]
MCTask == {t1, t2, t3}
MCClientOf == [t \in MCTask |-> t]
=============================================================================
