SPECIFICATION FairSpec
CONSTANTS
    t1 = t1
    t2 = t2
    Threads <- MCThreads
    MaxMessages = 2
    MaxSends = 5
CHECK_DEADLOCK FALSE
INVARIANTS
    TypeOK
    HandlerAlone
    ExportConsistent
    RowsStayTogether
PROPERTY
    DrainEmpties
