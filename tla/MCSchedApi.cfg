SPECIFICATION Spec
CONSTANTS
    CPU = {0, 1}
    TID_MAX = 6
    tasks_idle <- IdlePerCpu
    FirstTask = 2
    Bsp = 1
    Janitor = 3
    NULL = NULL
    Junk = Junk
    Free = Free
    Naps <- None
    JanitorNap = 1
    Kills <- ApiKills
    Blocks <- ApiBlocks
    Adders <- ApiAdders
    Askers <- None
INVARIANTS
    TypeOK
    OneCpuPerTask
    SchedInv
    DeadQueueExact
    StacksSharedInSwitch
PROPERTIES
    AddedStaysListed
CHECK_DEADLOCK FALSE
