SPECIFICATION FairReplicationSpec
CONSTANTS
  Backup = {b1}
  Raising = {}
  MaxEntries = 1
  MaxConns = 2
  Ack = Ack
  HB = HB
PROPERTIES
  EntriesReachBackups
CHECK_DEADLOCK FALSE
