SPECIFICATION Spec
CONSTANTS
    Ids = {"a", "b"}
    NoId = "none"
    MaxSlot = 3
    WindowSize = 2
    Genesis <- ForkGenesis
    Parent <- ForkParent
    Blocks <- ForkBlocks
    Notarizable <- ForkNotarizable
    Finalizable <- ForkFinalizable
    Readyable <- ForkReadyable
    ShredSlots = {}
    WaitToVote = 0
    MaxQueued = 1
    Faults <- FewFaults
INVARIANTS
    NoPanic
PROPERTIES
    ImplementsVoter
