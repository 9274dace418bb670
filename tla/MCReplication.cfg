SPECIFICATION ReplicationSpec
CONSTANTS
  Backup = {b1, b2}
  Raising = {2}
  MaxEntries = 2
  MaxConns = 2
  Ack = Ack
  HB = HB
INVARIANTS
  ConnectedMissNothing
  LiveBackupIsServed
PROPERTIES
  ImplementsLogShipping
SYMMETRY BackupSymmetry
CHECK_DEADLOCK FALSE
