SPECIFICATION FairSpec
CONSTANTS
    u1 = u1
    u2 = u2
    u3 = u3
    NoId = NoId
    EmptyFile = EmptyFile
    Ids = {u1, u2}
    InitFiles <- MCFiles
    MaxReqs = 2
    MaxConns = 2
CHECK_DEADLOCK FALSE
INVARIANTS
    TypeOK
    RegistryLive
    HiddenOnlyByTwin
    StreamUnderOwnId
PROPERTIES
    SendReturns
    AcceptedStarts
