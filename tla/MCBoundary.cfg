SPECIFICATION SuiteSpec
CONSTANTS
  Proc = {p1, p2}
  Home = {b1, b2, b3}
  Data = {v0, v1}
  InitData = v0
  NoData = NoData
  MaxOp = 1
  LogSize = 2
  MaxLogLen = 2
  MaxCrash = 1
  Users = {1, 2}
  Blocks = {0, 1, 2}
  NBuf = 2
  Contents = {0, 1}
SYMMETRY Symmetry
INVARIANTS
  LogInv LogSafe CacheInv ConsoleInv  EncodingInv OutputInv
PROPERTIES
  WriteAhead CrashKeepsDurableOutsideInstall
