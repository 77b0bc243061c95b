\* Two messages a second of five ticks, which the interval does not divide; a
\* transport that loses one message and doubles another, a sender that starts
\* behind the schedule and stalls, a peer that may go and two threads that may
\* fail.  The read timeout is longer than the longest silence before the last
\* message is out: two intervals, a delay and two stalls; but not so long that no
\* read of a silent peer times out while the sender is at work.
CONSTANTS
    Rate = 2
    WarmupSecs = 1
    DurationSecs = 1
    Second = 5
    Lead = 0
    Spawn = 1
    Timeout = 8
    MaxDelay = 1
    MaxStall = 1
    MaxLost = 1
    MaxDup = 1
    MayClose = TRUE
    MayFail = TRUE
SPECIFICATION FairSpec
INVARIANTS
    RecordIsTrue
    NoCoordinatedOmission
PROPERTIES
    RunReturns
