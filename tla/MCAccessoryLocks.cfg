CONSTANTS
  s1 = s1
  s2 = s2
  Sessions <- MCSessions
  N = 2
  Durations <- MCDurations
  MaxCommands = 3
SPECIFICATION FairSpec
INVARIANTS
  GoneHoldsNoLock
  LockTime
PROPERTIES
  KeepsLock
  LockEnds
