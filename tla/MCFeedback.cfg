CONSTANTS
  p1 = p1
  p2 = p2
  bus = bus
  s1 = s1
  Bus = bus
  NoPort = NoPort
  Ports <- MCPorts
  Sessions <- MCSessions
  MinTimes = {0, 1}
  QUEUELENGTH_FB = 4
  MaxSets = 1
SPECIFICATION FairSpec
INVARIANT
  InfoIsState
PROPERTY
  OffArrives
