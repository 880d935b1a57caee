CONSTANTS
  s1 = s1
  s2 = s2
  go = go
  halt = halt
  NoCommand = NoCommand
  QUEUELEN = 3
  Sessions <- MCSessions
  Commands <- MCCommands
SPECIFICATION FairSpec
INVARIANT
  CopyUndisturbed
PROPERTIES
  FifoUntilOverrun
  Delivered
