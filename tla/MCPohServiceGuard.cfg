CONSTANTS
    Senders = {s1}
    Capacity = 2
    MaxBank = 1
    MaxBatch = 2
    MaxCalls = 1
    TrackIndexes = FALSE
    TicksPerSlot = 2
    HashesPerTick = 3
    HashesPerBatch = 2
    MaxSlot = 1
    MaxTick = 4
    MaxMessages = 2
SPECIFICATION PohSpec
INVARIANT GuardsProcessed
CHECK_DEADLOCK FALSE
