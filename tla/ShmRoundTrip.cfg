\* One slot per ring, so that both fill; a stall that is shorter than the read
\* timeout and one that is longer than both timeouts.
CONSTANTS
    Total = 4
    Capacity = 1
    RecvTimeout = 3
    FullTimeout = 4
    Gap = 1
    Stalls = {1, 5}
    MaxStalls = 2
SPECIFICATION FairSpec
INVARIANTS
    RoundTripInvariant
    StallShowsAsLag
PROPERTIES
    ImplementsFifo
    RunEnds
