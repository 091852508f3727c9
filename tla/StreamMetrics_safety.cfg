SPECIFICATION Spec
CONSTANTS
    k1 = k1
    k2 = k2
    Keys <- MCKeys
    Unspecified = Unspecified
    NoSample = NoSample
    Cap = 2
    MaxSamples <- MCOverflow
CHECK_DEADLOCK FALSE
INVARIANTS
    TypeOK
    RingsIntact
    AckKnown
    NothingLostSilently
    NoLostWrite
    BoundedQueue
    IndInv
PROPERTY
    StreamSpec
