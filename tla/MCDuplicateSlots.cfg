SPECIFICATION Spec
CONSTANTS
    v1 = v1
    v2 = v2
    Validators <- MCValidators
    StakeAt <- MCStakeAt
    Parent <- MCParent
    Chain <- MCChain
    ProofSlots = {1}
    MAX_REPAIR_RETRY_LOOP_ATTEMPTS = 1
    MaxRestarts = 1
INVARIANTS
    
    ForkChoiceAsDefined
    AgreesWithCluster
    DuplicatesExcluded
\* The events about the bounded slots run out, and the validator may give up.
CHECK_DEADLOCK FALSE
