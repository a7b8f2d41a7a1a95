SPECIFICATION SuiteSpec
CONSTANTS
  Proc = {p1, p2, p3}
  Block = {b1}
  Data = {v0, v1}
  InitData = v0
  Kind = {"read", "write"}
  Num = 7
  IdxMod = 7
  None = None
  Procs = {1, 2, 3}
  NFile = 2
  NOFile = 2
  NPipe = 1
  MaxTx = 2
  MaxCalls = 2
SYMMETRY Symmetry
INVARIANTS
  VirtioInv FilesAccounted TableInv CopyInv HeapInv
PROPERTY ImplementsBlockDevice
