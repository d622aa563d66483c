CONSTANTS
    Senders = {s1}
    Capacity = 2
    MaxBank = 2
    MaxBatch = 2
    MaxCalls = 1
    TrackIndexes = FALSE
    TicksPerSlot = 2
    HashesPerTick = 3
    HashesPerBatch = 2
    MaxSlot = 1
    MaxTick = 4
    MaxMessages = 3
SPECIFICATION FairPohSpec
INVARIANTS
    
    TicksContiguous
PROPERTIES
    ChannelProtocol
    MessagesHandled
    BankEnds
CHECK_DEADLOCK FALSE
