SPECIFICATION TrapSpec
CONSTANTS
  Procs = {p1}
  Harts = {0, 1}
  Sched = Sched
PROPERTY RegistersRestored
