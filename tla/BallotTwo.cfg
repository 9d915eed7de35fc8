CONSTANTS
    n1 = n1
    n2 = n2
    n3 = n3
    Node = {n1, n2}
    Intact = {n1, n2}
    Slices <- UnanimousSlices
    Value = {1, 2}
    MaxCounter = 2
    UINT32_MAX = 3
    validateValue <- AllValid
    FaultyStatement <- NoStatements
    MayRestart = {}
    Candidate <- AnyCandidate
SPECIFICATION Spec
INVARIANTS StateConsistent TimerArmed CaughtUp
PROPERTIES HeardStable ImplementsFederatedBallot
CHECK_DEADLOCK FALSE
SYMMETRY TwoSymmetry
