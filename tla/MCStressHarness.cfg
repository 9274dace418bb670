SPECIFICATION HarnessSpec
CONSTANTS
  k1 = k1
  t1 = t1
  t2 = t2
  t3 = t3
  None = None
  Unknown = Unknown
  NoKey = NoKey
  Key <- LockKeys
  Seat <- MCSeat
  Tier <- MCTier
  TierOf <- MCTierOf
  NumberOf <- MCNumberOf
  Client <- MCTask
  Task <- MCTask
  ClientOf <- MCClientOf
  HoldTTL = 1
  MaxTickets = 6
  MaxClock = 0
  MaxRequests = 6
  Rounds = 1
INVARIANTS
  CountedBookingsHadSeats
PROPERTIES
  FirstComeFirstServed
  ImplementsFaultyTierSpec
  AllWorkersFinish
CHECK_DEADLOCK FALSE
