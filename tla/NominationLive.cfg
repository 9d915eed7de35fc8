CONSTANTS
    n1 = n1
    n2 = n2
    n3 = n3
    Node = {n1, n2}
    Intact = {n1, n2}
    Slices <- UnanimousSlices
    Value = {1, 2, 3}
    Period = 2
    priority <- Turns
    hashValue <- RankInTurns
    fullyValid <- AllValid
    extractValidValue <- Variation
    combineCandidates <- MaxOf
    NodeOrder <- OrderOfTwo
    Proposal <- AnyProposal
    FaultyNomination <- NoNominations
    MayStop = {}
    MayRestart = {}
SPECIFICATION FairSpec
PROPERTY CandidatesConverge
