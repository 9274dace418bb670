SPECIFICATION SessionSpec
CONSTANTS
  k1 = k1
  None = None
  AutoAllocation = AutoAllocation
  Seat <- MCSeat
  Tier <- MCTier
  TierOf <- MCTierOf
  NumberOf <- MCNumberOf
  Client = {c1, c2}
  HoldTTL = 1
  MaxClicks = 1
INVARIANTS
  OneTicketPerClick
  
PROPERTIES
  PageReturns
