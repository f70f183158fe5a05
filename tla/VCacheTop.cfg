SPECIFICATION Spec
CONSTANTS
  io = io
  t1 = t1
  t2 = t2
  t3 = t3
  Tag <- MCTag
  IOTag <- MCIOTag
  Tag0 = io
  SetNum = 1
  WordsPerLine = 2
  Lane = {0}
  Byte = {0, 1}
  Byte0 = 0
  ResetTicks = 3
  Target <- OneSet
  StoreTo <- OneSetStores
  InitMem <- MCInitMem
  Requests <- MCRequests
  IdleReqs <- MCIdleReqs
INVARIANTS
  CacheSound
PROPERTIES
  ImplementsMemory
  NoDirtyLineLost
  LeastRecentlyUsed
  DeviceAccessOnce
