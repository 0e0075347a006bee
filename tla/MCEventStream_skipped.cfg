SPECIFICATION Spec
CONSTANTS
    c1 = c1
    Clients = {c1}
    Page = 2
    Retain = 3
    MaxSeq = 2
    MaxQueue = 2
INVARIANTS
    NoEventIsSkipped
