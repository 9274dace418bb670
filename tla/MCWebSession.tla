---------------------------- MODULE MCWebSession ----------------------------
(* Two pages and a tier of one seat: who comes second finds it gone. *)
EXTENDS WebSession

CONSTANT k1

MCSeat == {1}
MCTier == {k1}
MCTierOf == [s \in MCSeat |-> k1]
MCNumberOf == [s \in MCSeat |-> s]
=============================================================================
