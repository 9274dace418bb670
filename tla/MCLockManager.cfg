SPECIFICATION LockSpec
CONSTANTS
  Key = {a, b}
  Task = {t1, t2, t3, t4}
  NoKey = NoKey
INVARIANTS
  KeyExclusion
  LockedIffHeld
  NoLostWakeup
PROPERTIES
  GrantedInOrder
  WaitingEnds
