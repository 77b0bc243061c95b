\* Four messages, queues of two, one retry with an effect.
CONSTANTS
    Msgs = 4
    QueueMax = 2
    MaxRetries = 1
SPECIFICATION FairSpec
INVARIANTS
    NoEarlyMessage
    NothingVanishes
PROPERTIES
    RunEnds
