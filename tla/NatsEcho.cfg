\* Five messages, a stream that holds three, a subscriber two behind is cut off.
CONSTANTS
    Kinds = {"nats", "jetstream"}
    Msgs = 5
    Pending = 2
    StreamMax = 3
SPECIFICATION FairSpec
INVARIANTS
    NothingVanishes
    EchoesHaveAListener
PROPERTIES
    RunEnds
