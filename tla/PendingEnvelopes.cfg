CONSTANTS
    a = a
    b = b
    bad = bad
    txs = txs
    p1 = p1
    p2 = p2
    Envelope = {a, b}
    Item = {bad, txs}
    NoPeer = NoPeer
    Peer = {p1, p2}
    slotIndex <- slots
    QuorumSets = {bad}
    InsaneQuorumSets = {bad}
    needs <- sharedNeeds
    acceptable <- allAcceptable
    MAX_SLOTS_TO_REMEMBER = 1
    LEDGER_VALIDITY_BRACKET = 1
    FirstLedger = 2
    MaxLedger = 3
    Stays = {p1}
    has <- oneHas
    proposes <- setOnTwo
SPECIFICATION FairSpec
INVARIANTS  DeliveredOnce
PROPERTY Fetched
CHECK_DEADLOCK FALSE
