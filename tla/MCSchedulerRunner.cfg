SPECIFICATION FairSpec
CONSTANTS
    r1 = r1
    r2 = r2
    r3 = r3
    Requests = {r1, r2, r3}
    LockIsShared = TRUE
CHECK_DEADLOCK FALSE
INVARIANTS
    ClosedIsQuiet
PROPERTIES
    AnsweredHadItsPass
    CommitIsScheduled
    StopTerminates
