CONSTANTS
  Modes <- MCModes
  ModuleBus <- MCModuleBus
  RespondLimit = 1
  QueueLimit = 1
  BufferLimit = 4
  MaxEvents = 2
SPECIFICATION SelectrixSpec
CHECK_DEADLOCK FALSE
INVARIANTS SelectrixTypeOK
PROPERTIES RightBus RightModule CommandTaken PollingGoesOn
