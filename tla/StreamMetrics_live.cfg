SPECIFICATION FairSpec
CONSTANTS
    k1 = k1
    k2 = k2
    Keys <- MCKeys
    Unspecified = Unspecified
    NoSample = NoSample
    Cap = 1
    MaxSamples <- MCBoth
CHECK_DEADLOCK FALSE
PROPERTIES
    EverySampleSettled
