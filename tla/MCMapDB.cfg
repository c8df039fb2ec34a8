SPECIFICATION DownHistory
CONSTANTS
  sigma0 = sigma0  root = root  task = task
  n1 = n1  n2 = n2  n3 = n3  n4 = n4  n5 = n5  n6 = n6
  Space = {sigma0, root, task}
  Sigma0 = sigma0
  Node = {n1, n2, n3, n4}
  First = n1
  Null = Null
  Bits = 4
  SuperBits = 2
  KernelStart = 12
  Kip = 7
  Utcb <- UtcbPages
  Perm <- TwoRights
  Write = "w"
  Gives <- GiveSome
  Faults = {0}
  Sends <- Parts
  Bases = {1, 10}
  Accepts <- Windows
  MaxMappings = 3
SYMMETRY Objects
INVARIANTS DerivationsSound TreesExact TablesExact
PROPERTIES HandlersEnd ImplementsGrants
