CONSTANTS
    Node = {1, 2, 3, 4}
    Self = 1
    QSets <- SmallQSets
SPECIFICATION Spec
INVARIANTS IsQuorumRight VBlockingRight NormalizeRight 
CHECK_DEADLOCK FALSE
