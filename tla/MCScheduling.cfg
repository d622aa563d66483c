CONSTANTS
    NumTasks = 4
    NoLimit = NoLimit
    Address = {x1, x2}
    Task <- MCTask
    Hash <- MCHash
    Configs <- MCConfigs
SPECIFICATION Spec
SYMMETRY Symmetric
INVARIANTS
    NoConflictingTasks
    QueuesConsistent
    NoDeadlock
PROPERTIES
    PrecedenceKept
