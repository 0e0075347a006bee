SPECIFICATION Spec
CONSTANTS
    Workers = {w1}
    Gpus = {g1}
    Jobs = {1, 2}
    Sessions = {s1}
    None = None
    Clients = {c1}
    Scheduler = Scheduler
    Key <- MCKey
    MaxAttempts = 1
    MaxInterruptions = 0
    LeaseTtl = 1
    HeartbeatTimeout = 1
    MaxLag = 0
INVARIANTS
    ToldIsDurable
PROPERTIES
    LeasingSpec
    DrainRespected
    CallSettles
