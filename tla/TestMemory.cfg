SPECIFICATION AllSpec
CONSTANTS
  t0 = t0
  t1 = t1
  Tag = {t0, t1}
  IOTag = {t0}
  Tag0 = t0
  SetNum = 1
  WordsPerLine = 4
  Lane = {0, 1}
  Byte = {0, 1}
  Byte0 = 0
  InitMem <- MCInitMem
  Accesses <- MCAccesses
  BusAddr = {"a", "b"}
  Dest = {"d"}
  NoDest = "none"
  Tasks <- MCTasks
  MaxQueue = 2
  Handle <- MCHandles
  Array <- MCArray
  Base = 3
  Sizeof <- MCSizeof
  Value <- MCValues
  Size = 5
  Data <- MCData
  CellWidth = {1, 2, 4}
INVARIANTS
  RefAgrees
  InOrder
  ReadsAsVariables
  StoresRight
  LoadsRight
PROPERTIES
  CallsReturn
