SPECIFICATION FairSpec
CONSTANTS
  io = io
  t1 = t1
  t2 = t2
  t3 = t3
  t4 = t4
  t5 = t5
  t6 = t6
  Tag <- MCTag
  IOTag <- MCIOTag
  Tag0 = io
  SetNum = 1
  WordsPerLine = 1
  Lane = {0}
  Byte = {0, 1}
  Byte0 = 0
  ResetTicks = 2
  MayRestart = TRUE
  InitMem <- MCInitMem
  Fetches <- MCLiveFetches
  Requests <- MCLiveRequests
PROPERTIES
  Answered
