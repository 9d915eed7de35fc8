CONSTANTS
    alice = alice
    bob = bob
    Account = {alice, bob}
    Tx <- Transactions
    Filtered = {}
    FEE_MULTIPLIER = 10
    PendingDepth = 2
    BanDepth = 2
    MaxQueueOps = 2
    MaxLedgerOps = 2
    InitialSeq <- FirstSeq
    MaxSeq = 2
    MayBump = {alice}
    Balance <- Balances
    MayExpire <- Expiring
SPECIFICATION FairSpec
INVARIANTS Accounting NoneBanned Proposable
PROPERTY NoneStays
