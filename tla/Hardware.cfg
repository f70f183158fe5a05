SPECIFICATION AllSpec
CONSTANTS
  H = 4
  Following <- MCFollowing
  K = 4
  BIT_TMR_MAX = 2
  Bits = 2
  Texts <- MCTexts
  Str <- MCStr
  Tag = {t0}
  IOTag = {t0}
  Tag0 = t0
  SetNum = 1
  WordsPerLine = 2
  Lane = {0}
  Byte = {0, 1}
  Byte0 = 0
  InitMem <- MCInitMem
  Requests <- MCRequests
  Char = {"a", "0x80"}
  Unprinted = {"0x80"}
  MaxNum = 1
  MaxTyped = 2
  MaxStored = 2
INVARIANTS
  UnitsRight
  CharactersSent
  InputOnce
  OutputOnce
PROPERTIES
  MatchesDevice
