SPECIFICATION FairSpec
CONSTANTS
    CPU = {0, 1}
    TID_MAX = 4
    tasks_idle <- IdlePerCpu
    FirstTask = 2
    Bsp = 1
    Janitor = 3
    NULL = NULL
    Junk = Junk
    Free = Free
    Naps <- TreeNaps
    JanitorNap = 1
    Kills <- TreeKills
    Blocks <- None
    Adders <- TreeAdders
    Askers <- None
INVARIANTS
    SleepsLongEnough
PROPERTIES
    ReadyRuns
    SleepersWake
    DeadReclaimed
