--------------------------- MODULE MCReplication ---------------------------
EXTENDS Replication, TLC

\* Backups are interchangeable.
BackupSymmetry == Permutations(Backup)
=============================================================================
