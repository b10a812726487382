SPECIFICATION Spec
CONSTANTS
    Threads = {t1, t2}
    Ids = {i1}
    PNodes = {p1, p2}
    VNodes = {v1}
    NULL = NULL
    MaxVid = 1
INVARIANT NoLeak
