SPECIFICATION Spec
CONSTANTS
  WordSize = 4
  RegNum = 3
  ResetPc = 0
  ResetTicks = 2
  MultDelay = 2
  Pools <- StraightPools
  Programs <- MCPrograms
  InitMem <- MCInitMem
INVARIANTS
  StateAgrees
  RequestsAgree
  CommitAgrees
PROPERTIES
  AnswerTaken
