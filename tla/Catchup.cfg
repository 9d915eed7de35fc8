CONSTANTS
    Freq = 3
    Counts = {0, 1}
    InitialLcl = {2, 3}
    LastFault = 9
    Window = 2
    RacingLimit = 11
    MaxLedger = 15
    MaxRestarts = 1
SPECIFICATION FairSpec
INVARIANTS ThrowsOnlyIfCaughtUp SyncStateRight
PROPERTIES InOrder 
CHECK_DEADLOCK FALSE
