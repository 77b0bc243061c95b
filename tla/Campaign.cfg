\* Two brokered cells on one far host, two plain ones on the other; two ssh
\* sessions may be lost.
CONSTANTS
    Cells = 4
    PerTopology = 2
    Brokered = {3, 4}
    Scripted = TRUE
    MaxLost = 2
SPECIFICATION FairSpec
INVARIANTS
    RecordsAreOwn
    SweptIsClean
PROPERTIES
    RigGoesDown
