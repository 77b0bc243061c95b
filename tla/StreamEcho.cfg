\* Six messages in three pieces, buffers of four pieces, up to two stalls inside
\* a message, and an echo process that may be killed at any point.
CONSTANTS
    Msgs = 6
    Chunks = 3
    Buffer = 4
    StallWindows = 2
    MayDie = TRUE
SPECIFICATION FairSpec
INVARIANTS
    FramingIntact
PROPERTIES
    ImplementsFifo
    ReceiverEnds
    AllReturned
    SenderEnds
