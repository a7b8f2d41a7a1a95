CONSTANTS
  Proc = {p1, p2, p3}
  Ino = {i1, i2}
  NInode = 1
  MaxLink = 2
  None = None
SPECIFICATION Spec
SYMMETRY Symmetry
INVARIANT UnusedIsFreed
CHECK_DEADLOCK FALSE
