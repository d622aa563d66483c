CONSTANTS
    n1 = n1
    n2 = n2
    bad = bad
    id1 = id1
    id2 = id2
    Ids = {id1, id2}
    NoId = NoId
    MaxSlot = 3
    WindowSize = 2
    Validators = {n1, n2, bad}
    Correct = {n1, n2}
    Stake <- MCStake
    Genesis <- MCGenesis
    Parent <- MCParent
SPECIFICATION Spec
INVARIANTS
    QuorumsAgree
    FinalizedOnOneChain
\* Every vote is cast in the end.
CHECK_DEADLOCK FALSE
