SPECIFICATION FairSpec
CONSTANTS
    s1 = s1
    s2 = s2
    a = a
    b = b
    both = both
    Servers <- MCServers
    AgentsOf <- MCAgentsOf
    NoAgent = NoAgent
    MaxFetches = 3
INVARIANTS
    TypeOK
    ChartsOfOneAgent
    OneConnection
    StatusTruthful
PROPERTY
    ListHeals
