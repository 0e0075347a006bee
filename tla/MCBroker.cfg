SPECIFICATION Spec
CONSTANTS
    a1 = a1
    a2 = a2
    b1 = b1
    l1 = l1
    l2 = l2
    m1 = m1
    g1 = g1
    g2 = g2
    Attempts = {a1, a2, b1}
    Local = {a1}
    Leases = {l1, l2, m1}
    LeaseOf <- MCLeaseOf
    GpuOf <- MCGpuOf
    Process <- MCProcess
    None = None
INVARIANTS
    TypeOK
    SentOnce
    AcknowledgedIsHeld
    OneFencedChild
    RestartAccepts
