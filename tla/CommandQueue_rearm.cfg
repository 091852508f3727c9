SPECIFICATION Spec
CONSTANTS
    t1 = t1
    t2 = t2
    Threads <- MCThreads
    MaxMessages = 2
    MaxSends = 5
SYMMETRY MCSymmetry
CHECK_DEADLOCK FALSE
PROPERTY
    RearmFindsEmpty
