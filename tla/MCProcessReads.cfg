SPECIFICATION Spec
CONSTANTS
    Top = 3
    MaxFit = 2
    Payload = 2
    Entries = 2
    CmdlineMax = 6
    ArgLens = {0, 3, 4, 7}
    UserBuf = 3
    MaxChanges = 3
    MaxFaults = 1
INVARIANTS
    TypeOK
    QuietReadExact
    OneProcess
    StableRegionsOnce
    ArgsFit
PROPERTIES
    PartialKept
    ReadEnds
CHECK_DEADLOCK FALSE
