SPECIFICATION FairSpec
CONSTANTS
  Proc = {p1, p2, p3}
  None = None
  Killable = {p1, p2}
INVARIANT SleepLockInv
INVARIANT NoLostWakeup
PROPERTY WaitsEnd
