SPECIFICATION KmainSpec
CONSTANTS
    a = a
    b = b
    NULL = NULL
    Frame <- AllFrames
    Memory <- AllMemory
    Reclaimable = {88, 89}
    BootInfo = 88
    Initrd = {90}
    ClientCpus = {1}
    PML4 = 1
    Width = 2
    Kernel = 12
    Window = 2
    Offset = 8
    PhysLimit = 3
    LowPages = 3
    Trampoline = 2
    Firmware <- Machines
    CPU_MAX = 4
    Bsp = 0
    Dead = {1}
    Slow = {2}
    Client = {client}
    Kinit = kinit
    Paths <- PathsUsed
    Opens <- PathsOpened
    Links <- PathsLinked
    Mounts <- PathsMounted
    Tree <- Archive
    NodeMax = 3
    HandleMax = 2
    SizeMax = 2
CONSTRAINT NamesOrContents
INVARIANTS
    OwnArguments
    TablesProper
    MemoryAccounted
    BootInfoIntact
    RefcountExact
    TreeConsistent
    PathsResolve
    
    InitrdUnpacked
PROPERTIES
    MapsPageByPage
    CountedComeUp
    NamesFollow
    GapsAreSought
CHECK_DEADLOCK FALSE
