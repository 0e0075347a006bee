SPECIFICATION FairSpec
CONSTANTS
    s1 = s1
    Sessions = {s1}
    V2 = {"client"}
    MaxLeases = 1
    MaxEntries = 1
    MaxUpgrades = 1
    QueriesFail = FALSE
CHECK_DEADLOCK FALSE
PROPERTIES
    NoPairOutlivesItsLease
