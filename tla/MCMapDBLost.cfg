SPECIFICATION DownHistory
CONSTANTS
  sigma0 = sigma0  root = root  task = task
  n1 = n1  n2 = n2  n3 = n3  n4 = n4  n5 = n5  n6 = n6
  Space = {sigma0, root}
  Sigma0 = sigma0
  Node = {n1, n2, n3, n4, n5, n6}
  First = n1
  Null = Null
  Bits = 3
  SuperBits = 1
  KernelStart = 6
  Kip = 3
  Utcb <- UtcbPage
  Perm <- OneRight
  Write = "w"
  Gives <- GiveAll
  Faults = {}
  Sends <- APage
  Bases = {0, 1, 2, 4}
  Accepts <- Whole
  MaxMappings = 4
INVARIANT TreesExact
