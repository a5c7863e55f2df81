SPECIFICATION Spec
CONSTANTS
    CPU = {0}
    TID_MAX = 3
    tasks_idle <- IdlePerCpu
    FirstTask = 1
    Bsp = 0
    Janitor = 2
    NULL = NULL
    Junk = Junk
    Free = Free
    Naps <- KillNaps
    JanitorNap = 1
    Kills <- KillKills
    Blocks <- None
    Adders <- UniAdders
    Askers <- None
INVARIANTS
    KilledLeavesSleepQueue
