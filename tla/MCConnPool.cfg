SPECIFICATION Spec
CONSTANTS
    MaxConnect = 4
    MaxQuit = 2
INVARIANTS
    PoolExact
    OwnSocket
    AlwaysSlot
CHECK_DEADLOCK FALSE
