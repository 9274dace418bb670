SPECIFICATION CrashSpec
CONSTANTS
  k1 = k1
  k2 = k2
  None = None
  Seat <- MCSeat
  Tier <- MCTier
  TierOf <- MCTierOf
  NumberOf <- MCNumberOf
  Client = {c1, c2}
  HoldTTL = 1
  MaxTickets = 3
  MaxBoots = 2
SYMMETRY ClientSymmetry
INVARIANTS
  
  
  CrashKeepsSeatsConsistent
CHECK_DEADLOCK FALSE
