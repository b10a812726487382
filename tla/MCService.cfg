SPECIFICATION Spec
CONSTANTS
    Versions = {0, 2}
    MaxChanges = 4
    None = None
    Empty = Empty
INVARIANTS
    TypeOK
    SettingsRestored
PROPERTIES
    Remounted
    Reconnected
CHECK_DEADLOCK FALSE
