\* One message a second on a lossless transport: the schedule is as slow as the read timeout.
CONSTANTS
    Rate = 1
    WarmupSecs = 1
    DurationSecs = 2
    Second = 3
    Lead = 1
    Spawn = 0
    Timeout = 3
    MaxDelay = 2
    MaxStall = 0
    MaxLost = 0
    MaxDup = 0
    MayClose = FALSE
    MayFail = FALSE
SPECIFICATION FairSpec
INVARIANTS
    LosslessMeansNoDrops
