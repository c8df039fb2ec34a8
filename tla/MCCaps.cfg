CONSTANTS
  WordBits = 7
  PageBits = 1
  MinUntypedBits = 0
  MaxIntervals = 4
  MaxUntyped = 8
  SuperBits = 4
  KernelSpace = 96
  PhysMap = 32
  LowMemory = 4
  CspaceSize = 5
  Boots <- MCBoots
  Faulty = {20, 40, 96}
  Sizes = {0, 1, 2}
  MaxCalls = 3
SPECIFICATION Spec
INVARIANT UntypedExact
INVARIANT MemoryUsedOnce
INVARIANT MapsOnce
PROPERTY Isolated
CHECK_DEADLOCK FALSE
