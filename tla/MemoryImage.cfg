SPECIFICATION Spec
CONSTANTS
  Size = 16
  Addresses = {0, 16, 24, 40}
  Bytes = {9}
  Files <- MCFiles
  Parsed <- MCParsed
  Layout <- MCLayout
INVARIANT FileKept
CHECK_DEADLOCK FALSE
