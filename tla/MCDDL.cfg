CONSTANTS
  s1 = s1
  m1 = m1
  n1 = n1
  ga1 = ga1
  ga2 = ga2
  addr81 = addr81
  addr128 = addr128
  Sessions <- OneSession
  MLocos <- Maerklin
  NLocos <- NMRA
  Idle81 = addr81
  Idle128 = addr128
  NF = 1
  Ports <- OnePort
  QSIZE = 3
  Wants <- OnInOrder
  MaxCommands = 2
SPECIFICATION FairSpec
INVARIANTS
  SentInOrder
  SilentWithoutPower
  LinesFollowPower
PROPERTY LocosArrive
