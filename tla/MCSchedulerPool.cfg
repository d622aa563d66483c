CONSTANTS
    NumTasks = 2
    NumSchedulers = 2
    MaxUsageQueueCount = 1
    NoLimit = NoLimit
    None = None
    Address = {x1, x2}
    Bank = {bank1, bank2}
    Handler = {h1, h2}
    Task <- MCTask
    Scheduler <- MCScheduler
    Hash <- MCHash
    MaySend <- MCMaySend
SPECIFICATION Spec
SYMMETRY Symmetric
INVARIANTS
    RightContext
    ResultIsOutcome
    PooledAreReady
    NobodyStuck
