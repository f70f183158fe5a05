SPECIFICATION AllSpec
CONSTANTS
  NWorkers = 3
  Total = 4
  Tests <- MCTests
  Options = {"LOG", "STATUS", "DEBUG"}
  MaxTicks = 4
  Threads = {"w1", "w2", "w3"}
  NoThread = "nobody"
  MaxPrints = 4
  MaxBuffer = 3
  CommandLines <- MCCommandLines
  Runners <- MCRunners
  Dashed <- MCDashed
  Ints = {"4"}
  Floats = {"4"}
  TrueWords = {"true", "4"}
  FalseWords = {"false"}
  Huge = {"99999999999999999999"}
  MaxArgs = 3
INVARIANTS
  EachOnce
  Verdict
  DefersRun
  TraceTimes
  FlagLive
  StatusApart
  RunsAsTold
PROPERTIES
  BenchEnds
