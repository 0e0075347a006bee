SPECIFICATION FairSpec
CONSTANTS
    s1 = s1
    Jobs = {1}
    Sessions = {s1}
    GpuCount = 1
    ListLimit = 2
    MaxLeases = 2
    MaxWork = 1
INVARIANTS
    TypeOK
    StopIsClean
PROPERTIES
    ExecutedOnce
    LostWorkEnds
    LeaseIsTakenUp
