\* A ring of three slots, two-word messages, more than three laps.
CONSTANTS
    Capacity = 3
    Words = {w1, w2}
    MaxMsgs = 10
SPECIFICATION FairSpec
INVARIANTS
    RingInvariant
    NoDataRace
PROPERTIES
    ImplementsFifo
    EveryMessageDelivered
    SendReturns
