CONSTANTS
  Cases <- MCCases
  InitialCVs <- MCInitialCVs
  Kinds <- MCKinds
  GLCommands <- MCGLCommands
  GACommands <- MCGACommands
  MaxToCome = 2
SPECIFICATION PacketsSpec
CHECK_DEADLOCK FALSE
INVARIANTS PacketsTypeOK PacketsSay Understood
PROPERTIES TranslationEnds InStepComes
