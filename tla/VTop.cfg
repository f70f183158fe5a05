SPECIFICATION TopsSpec
CONSTANTS
  io = io
  t1 = t1
  t2 = t2
  t3 = t3
  t4 = t4
  t5 = t5
  t6 = t6
  Tag <- MCTag
  IOTag <- MCIOTag
  Tag0 = io
  SetNum = 1
  WordsPerLine = 2
  Lane = {0}
  Byte = {0, 1}
  Byte0 = 0
  ResetTicks = 2
  MayRestart = FALSE
  BRAM_DELAY = 2
  InitMem <- MCInitMem
  Fetches <- MCFetches
  Requests <- MCRequests
INVARIANTS
  BusShared
  FetchRight
PROPERTIES
  DataRight
  MemoryRight
