SPECIFICATION SuiteSpec
CONSTANTS
  Reader = {r1}
  Writer = {w1, w2}
  Byte = {0}
  PipeSize = 2
  Lens = {1, 3}
  MaxStart = 1
  None = None
  Killable = {r1, w1}
INVARIANT PipeInv
PROPERTIES
  CallsEnd WritesReturn RequestsReturn
CHECK_DEADLOCK FALSE
