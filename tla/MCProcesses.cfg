SPECIFICATION SuiteSpec
CONSTANTS
  Slot = {init, s1, s2}
  InitSlot = init
  None = None
  MaxPid = 3
  WaitFor = {0, 3}
  Harts = {0, 1}
  Procs = {Runner}
  Sched = Sched
  Users = {1, 2}
  NPage = 3
  MaxHeld = 2
INVARIANTS
  ProcInv  TrapInv FreeListIntact
PROPERTY InterruptIsTransparent
