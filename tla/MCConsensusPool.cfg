SPECIFICATION Spec
CONSTANTS
    self = self
    v1 = v1
    v2 = v2
    v3 = v3
    id1 = id1
    id2 = id2
    NoId = NoId
    Self = self
    NoOne = NoOne
    Ids = {id1, id2}
    MaxSlot = 1
    WindowSize = 4
    Validators = {self, v1, v2, v3}
    Stake <- FourStakes
    Parent <- NoParents
    VoteSlots = {1}
    VoteKinds = {"Notarize", "NotarizeFallback", "Skip", "SkipFallback", "Finalize"}
    Certificates <- NoCerts
    MaxSwitches = 0
INVARIANTS
    CertsBacked
    
    SafeToNotarAsDefined
    SafeToSkipAsDefined
SYMMETRY PeerSymmetry
\* The messages of the bounded slots run out.
CHECK_DEADLOCK FALSE
