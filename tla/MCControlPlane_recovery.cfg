SPECIFICATION FairSpec
CONSTANTS
    w1 = w1
    w2 = w2
    g1 = g1
    j1 = j1
    s1 = s1
    Workers = {w1}
    Gpus = {g1}
    Jobs = {j1}
    Sessions = {s1}
    None = None
    Inventories <- MCInventories
    Fits <- MCFits
    Priority <- MCPriority
    MaxAttempts <- MCAttempts
    MaxInterruptions <- MCInterruptions
    LeaseTtl = 1
    HeartbeatTimeout = 1
    MaxLag = 1
PROPERTIES
    LeaseNeedsRenewal
    PlaceableIsPlaced
