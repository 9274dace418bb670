SPECIFICATION Spec
CONSTANTS
  k1 = k1
  k2 = k2
  k3 = k3
  None = None
  Seat <- OneSeat
  Tier <- TwoTiers
  TierOf <- AllInK1
  NumberOf <- OwnNumber
  Client = {c1, c2}
  HoldTTL = 1
  MaxTickets = 3
  MaxClock = 2
SYMMETRY ClientSymmetry
INVARIANTS
  NoDoubleBooking
