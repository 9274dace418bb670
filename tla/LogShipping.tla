---------------------------- MODULE LogShipping ----------------------------
(***************************************************************************)
(* What log replication promises at the least: the primary's log grows,    *)
(* and each backup's copy takes over entries of it in the primary's order. *)
(* A copy may miss entries; it never holds one that the primary has not    *)
(* logged, and never an older one behind a newer.  Entries are numbers.    *)
(***************************************************************************)
EXTENDS Naturals, SequencesExt

CONSTANTS Backup, MaxEntries

VARIABLES
  logged,  \* number of entries of the primary's log
  copy     \* the log of each backup

Init == logged = 0 /\ copy = [b \in Backup |-> <<>>]

Log ==
  /\ logged < MaxEntries
  /\ logged' = logged + 1
  /\ UNCHANGED copy

Ship(b, e) ==
  /\ copy[b] # <<>> => Last(copy[b]) <= e
  /\ e <= logged
  /\ copy' = [copy EXCEPT ![b] = Append(@, e)]
  /\ UNCHANGED logged

Next == Log \/ \E b \in Backup, e \in 1..logged : Ship(b, e)

ShippingSpec == Init /\ [][Next]_<<logged, copy>>
=============================================================================
