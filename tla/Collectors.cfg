SPECIFICATION Spec
CONSTANTS
    NumCpus = 4
    UintMod = 4096
    GoodAddresses = {"10.0.0.1"}
    Tables <- MCTables
    GpuIds <- MCGpuIds
    EnergyMod = 4
    EnergyStart = 2
    WordMod = 64
    MemInfos <- MCMemInfos
    Ticks <- MCTicks
    MaxRounds = 2
CHECK_DEADLOCK FALSE
INVARIANTS
    TypeOK
    WindowHoldsASample
    AffinityAllOrNothing
    NvmlBalanced
    RoundComplete
    EnergyCounted
    DeviceSurvives
PROPERTY
    UtilizationInRange
