CONSTANTS
    Senders = {s1, s2}
    Capacity = 2
    MaxBank = 2
    MaxBatch = 2
    MaxCalls = 1
    TrackIndexes = TRUE
SPECIFICATION FairSpec
INVARIANTS
    Conservation
    OneBankAtATime
    EmptyMeansReceived
    IndexIsPosition
PROPERTIES
    
    ShutdownLeadsToSafe
CHECK_DEADLOCK FALSE
