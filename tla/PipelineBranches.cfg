SPECIFICATION Spec
CONSTANTS
  WordSize = 4
  RegNum = 3
  ResetPc = 0
  ResetTicks = 2
  MultDelay = 2
  Pools <- BranchPools
  Programs <- MCPrograms
  InitMem <- MCInitMem
INVARIANTS
  PathRight
PROPERTIES
  RequestsHeld
  ImplementsSequential
