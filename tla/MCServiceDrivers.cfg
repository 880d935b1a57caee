CONSTANTS
  s1 = s1
  s2 = s2
  bus = bus
  Bus = bus
  Sessions <- MCSessions
  Values = {0, 1}
  QUEUELEN = 2
  MaxCommands = 3
  Bounds <- MCBounds
SPECIFICATION SpecEither
CHECK_DEADLOCK FALSE
INVARIANTS OwnAnswer
PROPERTIES LoopbackReturns StopHolds BoxAgrees
