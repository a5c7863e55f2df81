SPECIFICATION BootSpec
CONSTANTS
    CPU = {0}
    TID_MAX = 4
    tasks_idle <- IdlePerCpu
    FirstTask = 1
    Bsp = 0
    Janitor = 2
    NULL = NULL
    Junk = Junk
    Free = Free
    Naps <- UniNaps
    JanitorNap = 2
    Kills <- UniKills
    Blocks <- UniBlocks
    Adders <- UniAdders
    Askers <- UniAskers
INVARIANTS
    SleepQueueSorted
    NoUseAfterFree
PROPERTIES
    NobodyOversleeps
    QueuesAreSequences
