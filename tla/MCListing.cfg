SPECIFICATION FairSpec
CONSTANTS
    Readers = {r1, r2}
    Kinds = {devices, interrupts}
    Partial = {interrupts}
    Payload = 2
    MaxLen = 3
    MaxBuilds = 3
    MaxReads = 2
    QueueMax = 2
    NULL = NULL
INVARIANTS
    TypeOK
    QuietReadIsWhole
    ChunksInOrder
PROPERTIES
    ReadEnds
CHECK_DEADLOCK FALSE
