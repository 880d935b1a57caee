CONSTANTS
  s1 = s1
  s2 = s2
  Sessions <- MCSessions
  N = 1
  Ports = {0, 1}
  Times = {0, 1}
  Slots = 2
  QUEUELEN = 3
  MaxCommands = 4
SPECIFICATION FairSpec
INVARIANTS
  PulseIsKept
  PowerIsTold
PROPERTY PulseEnds
