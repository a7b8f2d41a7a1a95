SPECIFICATION SuiteSpec
CONSTANTS
  Proc = {p1, p2}
  Home = {b1, b2}
  Data = {v0, v1}
  InitData = v0
  NoData = NoData
  MaxOp = 1
  LogSize = 2
  MaxLogLen = 2
  MaxCrash = 0
PROPERTIES
  ImplementsAtomicDisk SleepersProceed  NetProceeds BootsUp
