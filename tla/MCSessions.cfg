CONSTANTS
  c1 = c1
  c2 = c2
  bus = bus
  main = main
  Bus = bus
  Main = main
  NoNode = NoNode
  Clients <- MCClients
  PipeSize = 1
  MaxChanges = 1
SPECIFICATION FairSessionsSpec
INVARIANTS
  InfoIsComplete
  EndsAfterAll
PROPERTIES
  EnqueueReturns
  ShutdownOfRegistered
CHECK_DEADLOCK FALSE
