SPECIFICATION FailoverSpec
\* Units of 0.25 s: the defaults are 1.0 s and 3.5 s.
CONSTANTS
  HbInterval = 4
  HbTimeout = 14
  MaxDelay = 10
  MaxFlight = 4
INVARIANTS
  TakesOverDisconnected
  OneServer
PROPERTIES
  NoFalseAlarm
  SilenceIsNoticed
  TakeoverCompletes
