SPECIFICATION FairSpec
CONSTANTS
  Slot = {init, s1, s2}
  InitSlot = init
  None = None
  MaxPid = 3
  WaitFor = {0}
PROPERTY OrphansAreReaped
 
