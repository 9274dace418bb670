SPECIFICATION TierSpec
CONSTANTS
  k1 = k1
  k2 = k2
  k3 = k3
  None = None
  Seat <- MCSeat
  Tier <- MCTier
  TierOf <- MCTierOf
  NumberOf <- MCNumberOf
  Client = {c1, c2}
  HoldTTL = 1
  MaxTickets = 4
  MaxClock = 0
SYMMETRY ClientSymmetry
INVARIANTS
  NoIdleSeatWhileWaiting
  LogReplaysExactly
PROPERTIES
  NoOvertaking
  ImplementsSeatAllocation
