SPECIFICATION Spec
CONSTANTS
    u1 = u1
    u2 = u2
    u3 = u3
    NoId = NoId
    EmptyFile = EmptyFile
    Ids <- MCIds
    InitFiles <- MCFiles
    MaxReqs = 2
    MaxConns = 2
SYMMETRY MCSymmetry
CHECK_DEADLOCK FALSE
PROPERTY
    RefusedOnlyWhileActive
