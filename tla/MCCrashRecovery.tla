-------------------------- MODULE MCCrashRecovery --------------------------
(***************************************************************************)
(* Values for TLC: a tier of one seat, so that the second ticket waits,    *)
(* and a tier of another, whose lock stays free when the first one's leaks.*)
(***************************************************************************)
EXTENDS CrashRecovery

CONSTANTS k1, k2

MCSeat == {1, 2}
MCTier == {k1, k2}
MCTierOf == [s \in MCSeat |-> IF s = 1 THEN k1 ELSE k2]
MCNumberOf == [s \in MCSeat |-> 1]

ClientSymmetry == Permutations(Client)
=============================================================================
