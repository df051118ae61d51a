SPECIFICATION ExecutionSpec
CONSTANTS
    Plans <- MCPlans
    Groups <- MCGroups
    performanceCertificationSubgateID = 11
    cleanTreeFreshnessID = 12
    MutationProfiles <- MCProfiles
    GuardTraces <- MCGuardTraces
    Roots <- MCRoots
    ParentOf <- MCParentOf
    Categories <- MCCategories
    Stages = {"propagation"}
    MaxEdits = 1
INVARIANTS
    CertificationRunsAlone
    SuccessCoversRegistry
    NothingOvercommitted
    KeepsMoving
    BlameIsGenuine
    NoOrphanWorker
    VerdictsAreCausal
    EvidenceOfOneSource
PROPERTIES
    ImplementsContract
    EventuallyReturns
CHECK_DEADLOCK FALSE
