SPECIFICATION Spec
CONSTANTS
    Pids = {1, 2, 3}
    Running = {3}
    MaxProcs = 2
    Comms = {"sh", "launchctl"}
    Hardened = {"launchctl"}
    Fds = {0, 3, 4}
    Tids = {7, 23}
    MaxObjects = 2
    IntMax = 7
    Oids = {1, 2}
    OidNames <- MCOidNames
    LongNames = {"2", "kallsyms", "launchctl", "__Process_N__"}
    Bufs = {9}
    MaxChanges = 2
INVARIANTS
    TypeOK
    NoneMissed
    NoneTwice
    ListedResolves
PROPERTY ScanEnds
CHECK_DEADLOCK FALSE
