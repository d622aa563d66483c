SPECIFICATION Spec
CONSTANTS
    Ids = {"a", "b"}
    NoId = "none"
    MaxSlot = 3
    WindowSize = 2
    Genesis <- TwoGenesis
    Parent <- TwoParent
    Blocks <- TwoBlocks
    Notarizable <- TwoNotarizable
    Finalizable <- TwoFinalizable
    Readyable <- TwoReadyable
    ShredSlots = {2}
    WaitToVote = 0
    MaxQueued = 2
    Faults = {}
INVARIANTS
    NoForgottenVotes
PROPERTIES
    RootsLead
    ImplementsVoter
