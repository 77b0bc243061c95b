\* Two messages each way; 57 and 120 bytes share a file length, 56 does not.
CONSTANTS
    Messages = 2
    Sizes = {56, 57, 120}
SPECIFICATION SetupSpec
INVARIANTS
    NoHalfBuiltRing
    NoLostStore
    OnlyOwnEchoes
\* A failed client, or a finished exchange, leaves nothing to do.
CHECK_DEADLOCK FALSE
