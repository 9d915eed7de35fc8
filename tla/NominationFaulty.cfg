CONSTANTS
    n1 = n1
    n2 = n2
    n3 = n3
    Node = {n1, n2, n3}
    Intact = {n1, n2}
    Slices <- UnanimousSlices
    Value = {1, 2, 3}
    Period = 3
    priority <- Turns
    hashValue <- RankInTurns
    fullyValid <- SomeInvalid
    extractValidValue <- Variation
    combineCandidates <- MaxOf
    NodeOrder <- Order
    Proposal <- OwnProposal
    FaultyNomination <- Rumours
    MayStop = {n2}
    MayRestart = {n1}
SPECIFICATION Spec
INVARIANTS AcceptedWasIntroduced StateConsistent CompositeCurrent
PROPERTY EmitsNewer
CHECK_DEADLOCK FALSE
