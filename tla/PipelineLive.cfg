SPECIFICATION LiveSpec
CONSTANTS
  WordSize = 4
  RegNum = 3
  ResetPc = 0
  ResetTicks = 2
  MultDelay = 2
  Pools <- OneOfEach
  Programs <- MCPrograms
  InitMem <- MCInitMem
PROPERTIES
  Progress
