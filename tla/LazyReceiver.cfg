\* Six messages, a subscriber that holds two.
CONSTANTS
    Backends = {"iceoryx2", "aeron", "aeron-remote"}
    Msgs = 6
    Buffer = 2
SPECIFICATION FairSpec
INVARIANTS
    NothingVanishes
    
PROPERTIES
    RunEnds
