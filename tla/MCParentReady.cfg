SPECIFICATION Spec
CONSTANTS
    Ids = {a, b}
    NoId = "none"
    MaxSlot = 4
    WindowSize = 2
    MySlots = {2, 3}
SYMMETRY IdSymmetry
INVARIANTS
    ReadyAsDefined
    EveryParentNotified
    LeaderFindsParent
\* No slot above the bound is certified, so that the pool runs out of messages.
CHECK_DEADLOCK FALSE
