CONSTANTS
    n1 = n1
    n2 = n2
    n3 = n3
    Node = {n1, n2, n3}
    Intact = {n1, n2}
    Slices <- UnanimousSlices
    Value = {1, 2}
    MaxCounter = 1
    UINT32_MAX = 2
    validateValue <- SomeUnsure
    FaultyStatement <- Contradictions
    MayRestart = {n1}
    Candidate <- AnyCandidate
SPECIFICATION Spec
INVARIANTS CommitsAgree StateConsistent
PROPERTY EmitsNewer
CHECK_DEADLOCK FALSE
