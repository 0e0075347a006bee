SPECIFICATION FairSpec
CONSTANTS
    s1 = s1
    Sessions = {s1}
    V2 = {"client"}
    MaxLeases = 2
    MaxEntries = 1
    MaxUpgrades = 1
    QueriesFail = TRUE
CHECK_DEADLOCK FALSE
PROPERTIES
    EntrySettles
    StalePairCloses
