SPECIFICATION FairSpec
CONSTANTS
    Threads = {t1, t2}
    Ids = {i1, i2}
    PNodes = {p1, p2}
    VNodes = {v1}
    NULL = NULL
    MaxVid = 1
INVARIANTS
    TypeOK
    UniqueNode
    NoUseAfterFree
    HolderSeesItsNode
    OneAttacher
    NoLostWakeup
    FsrefBalanced
PROPERTIES
    FindReturns
    ImplementsNodeTable
