SPECIFICATION FairSpec
CONSTANTS
  io = io
  t1 = t1
  t2 = t2
  t3 = t3
  Tag <- MCTag
  IOTag <- MCIOTag
  Tag0 = io
  SetNum = 2
  WordsPerLine = 2
  Lane = {0, 1}
  Byte = {0, 1}
  Byte0 = 0
  ResetTicks = 3
  Target <- TwoSets
  StoreTo <- TwoSetsStores
  InitMem <- MCInitMem
  Requests <- LaneRequests
  IdleReqs <- MCIdleReqs
INVARIANTS
  EmptyAfterReset
PROPERTIES
  ImplementsMemory
  Answered
