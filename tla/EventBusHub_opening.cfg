SPECIFICATION Spec
CONSTANTS
    c1 = c1
    c2 = c2
    p1 = p1
    Clients <- MCClients
    Pubs = {p1}
    MaxBatches = 3
    ChanCap = 1
SYMMETRY MCSymmetry
CHECK_DEADLOCK FALSE
INVARIANT
    OpeningBatchSeen
