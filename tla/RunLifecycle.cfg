\* Backends with two files, a node, a directory, a socket, nothing, and two with a broker,
\* one of them with storage to prepare.
CONSTANTS
    Backends = {"shm", "iceoryx2", "aeron-udp", "uds", "tcp", "redis", "kafka"}
SPECIFICATION LifecycleFairSpec
INVARIANTS
    LifecycleInvariant
    LeftoversExplained
    RecordTellsTruth
PROPERTIES
    BrokerOutlivesChild
    RunEnds
