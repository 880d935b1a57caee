CONSTANTS
  s1 = s1
  s2 = s2
  Sessions <- MCSessions
  N = 2
  QUEUELEN = 3
  Durations <- MCDurations
  DefaultInit = TRUE
  MaxCommands = 3
SPECIFICATION Spec
INVARIANTS
  CacheMatchesTrack
  LockLastsAShare
PROPERTY NoTakeover
SYMMETRY Symmetry
