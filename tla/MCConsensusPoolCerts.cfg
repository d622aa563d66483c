SPECIFICATION FairSpec
CONSTANTS
    self = self
    v1 = v1
    v2 = v2
    v3 = v3
    id1 = id1
    id2 = id2
    NoId = NoId
    Self = self
    NoOne = NoOne
    Ids = {id1, id2}
    MaxSlot = 2
    WindowSize = 4
    Validators = {self, v1}
    Stake <- TwoStakes
    Parent <- WindowParents
    VoteSlots = {2}
    VoteKinds = {"Notarize", "Finalize"}
    Certificates <- CertsOfTwoSlots
    MaxSwitches = 1
INVARIANTS
    FinalizedAsDefined
    TrackerFollowsCertificates
PROPERTIES
    PendingIsResolved
\* The messages of the bounded slots run out.
CHECK_DEADLOCK FALSE
