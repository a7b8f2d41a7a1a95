SPECIFICATION SuiteSpec
CONSTANTS
  Proc = {p1, p2}
  Ino = {i1, i2, i3}
  NInode = 2
  MaxLink = 2
  None = None
SYMMETRY Symmetry
INVARIANTS
  InodeInv TreeInv NoLockCycle PathInv
PROPERTIES
  FreedWhenUnused 
CHECK_DEADLOCK FALSE
