\* Six messages, streams that may be trimmed to two entries.
CONSTANTS
    Total = 6
    MaxLen = 2
SPECIFICATION RedisFairSpec
INVARIANTS
    NothingVanishes
PROPERTIES
    AllButTrimmedReturn
\* When every message has been received, or a party has failed, nothing may be
\* left to do.
CHECK_DEADLOCK FALSE
