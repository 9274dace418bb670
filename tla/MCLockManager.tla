--------------------------- MODULE MCLockManager ---------------------------
(***************************************************************************)
(* Values for TLC: four tasks on two keys, so that a queue holds a woken,  *)
(* an expired and a pending task at once.                                  *)
(***************************************************************************)
EXTENDS LockManager
=============================================================================
