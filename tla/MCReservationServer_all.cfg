SPECIFICATION ServerSpec
CONSTANTS
  k1 = k1
  c1 = c1
  c2 = c2
  t1 = t1
  t2 = t2
  t3 = t3
  None = None
  Unknown = Unknown
  NoKey = NoKey
  Key <- LockKeys
  Seat <- MCSeat
  Tier <- MCTier
  TierOf <- MCTierOf
  NumberOf <- MCNumberOf
  Client <- MCClient
  Task <- TwoTasks
  ClientOf <- MCClientOf
  HoldTTL = 1
  MaxTickets = 3
  MaxClock = 1
  MaxRequests = 3
PROPERTIES
  LocksFollowAnswers
  ImplementsReservationDB
  RequestsAreAnswered
