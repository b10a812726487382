SPECIFICATION Spec
CONSTANTS
    Readers = {r1, r2}
    Kinds = {devices}
    Partial = {}
    Payload = 2
    MaxLen = 3
    MaxBuilds = 3
    MaxReads = 1
    QueueMax = 2
    NULL = NULL
INVARIANT SelfConsistent
CHECK_DEADLOCK FALSE
