SPECIFICATION Spec
CONSTANTS
  NumPages = 16
  Thread = {0, 1, 2}
  TableSize = 2
  Full = 3
  Super = {0, 1}
  PageNo = {0, 1}
  Areas <- MCAreas
  PrivArea <- MCPriv
  Faults <- SigmaFaults
  MaxMappings = 2
  None = None  Kip = Kip  User = User  Idle = Idle
INVARIANT PagesExact
