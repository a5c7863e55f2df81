SPECIFICATION FairSpec
CONSTANTS
    CPU = {c1, c2, c3}
    Nobody = Nobody
INVARIANTS
    MutualExclusion
    NoSelfDeadlock
PROPERTIES
    FlagsRestored
    LockIsReleased
    ImplementsMutex
