SPECIFICATION LinkedSpec
CONSTANTS
  a = a  b = b  c = c
  Thread <- MCThread
  Idle = Idle
  NoTCB = NoTCB
  First = a
  Second = b
  MaxPrio = 2
  DefaultPrio = 1
  Tick = 4
  DefaultSlice = 4
  Slices = {4}
  WordSize = 8
  SchedulerOf <- RootSchedules
INVARIANTS TypeOK RunqueuesExact Dispatched
PROPERTIES PreemptedByTick ImplementsReadyQueues
