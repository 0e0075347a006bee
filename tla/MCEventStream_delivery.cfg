SPECIFICATION FairSpec
CONSTANTS
    c1 = c1
    Clients = {c1}
    Page = 2
    Retain = 3
    MaxSeq = 4
    MaxQueue = 2
INVARIANTS
    InOrderOnce
PROPERTIES
    EventReachesStream
