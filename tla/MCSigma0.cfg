CONSTANTS
    Top = 15
    Page = 2
    Anythread = anythread
    Sigma0Id = sigma0
    InitialRegs = 5
    PageRegs = 3
    KernelId = kernel
    Sigma1Id = sigma1
    RootserverId = root
    Users = {u}
    KIPs <- MCKIPs
    Blocks = {1, 2, 4, 8}
SPECIFICATION Spec
INVARIANT PoolsExact GivenIsOwned RefusedTakesNothing
CHECK_DEADLOCK FALSE
