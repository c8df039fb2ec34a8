SPECIFICATION RobinSpec
CONSTANTS
  a = a  b = b  c = c
  Thread <- MCThread
  Idle = Idle
  NoTCB = NoTCB
  First = a
  Second = b
  MaxPrio = 1
  DefaultPrio = 1
  Tick = 4
  DefaultSlice = 5
  Slices = {}
  WordSize = 8
  SchedulerOf <- RootSchedules
INVARIANT NoBanking
PROPERTY RoundRobin
