SPECIFICATION Spec
CONSTANTS
    Versions = {0, 2}
    MaxChanges = 0
    None = None
    Empty = Empty
INVARIANT UninstallComplete
CHECK_DEADLOCK FALSE
