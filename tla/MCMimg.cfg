CONSTANTS
    MaxAddr = 95
    Files <- MCFiles
    Addrs <- MCAddrs
    Specials <- MCSpecials
    NextAlign = 2
    PageSize = 8
    MaxArgs = 3
    BINOUTLEN = 6
    Loader <- MCLoader
    OneMeg = 40
    CmdAt = 82
    ImgAt = 84
    StrLen = 1
    Homes <- MCHomes
    MBIs <- MCMBIs
    PageLen = 8
    Fine = 4
    PhysMap = 88
    KernelSpace = 64
    Video <- MCVideo
    KernelShare = 2
    MAX_MEMDESC = 10
SPECIFICATION Spec
INVARIANT ImageArrives OnlyMemoryRefuses KernelPagesFree
PROPERTY WritesConfined
CHECK_DEADLOCK FALSE
