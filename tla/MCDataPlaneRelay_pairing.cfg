SPECIFICATION Spec
CONSTANTS
    s1 = s1
    Sessions = {s1}
    V2 = {"client"}
    MaxLeases = 2
    MaxEntries = 2
    MaxUpgrades = 1
    QueriesFail = FALSE
CHECK_DEADLOCK FALSE
INVARIANTS
    TypeOK
    LivePairHasBothEnds
    StoppedMeansEmpty
PROPERTIES
    ClosedNeverGoesLive
