SPECIFICATION Spec
CONSTANTS
    w1 = w1
    w2 = w2
    g1 = g1
    j1 = j1
    s1 = s1
    Workers = {w1, w2}
    Gpus = {g1}
    Jobs = {j1}
    Sessions = {s1}
    None = None
    Inventories <- MCInventory
    Fits <- MCFits
    Priority <- MCPriority
    MaxAttempts <- MCAttempts
    MaxInterruptions <- MCNoInterruptions
    LeaseTtl = 2
    HeartbeatTimeout = 1
    MaxLag = 0
SYMMETRY MCSymmetry
INVARIANTS
    TypeOK
    GpuExclusive
    FenceBlocksReuse
    HolderOnline
    AttemptBudget
    NoZombieCompletion
PROPERTIES
    FinalIsFinal
    NewLeaseIsUsable
    LeasingSpec
