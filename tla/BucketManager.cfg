SPECIFICATION FairSpec
CONSTANTS
    NumLevels = 3
    Freq = 2
    InitialLcl = {1, 12}
    MaxCloses = 4
    MaxCrashes = 1
    MaxFailures = 1
    MaxCatchups = 1
INVARIANTS RestartSafe InUseOnDisk ListDetermined PublishSafe
PROPERTY EventuallyPublished
CHECK_DEADLOCK FALSE
