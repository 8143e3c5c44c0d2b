SPECIFICATION Spec
CONSTANTS
    Conn = {c1, c2}
    Thread = {t1}
    Ring = 2
    StoreMax = 2
    MaxSession = 3
    MaxToken = 4
    MaxOffline = 1
    MaxRestart = 1
    Slow = TRUE
INVARIANTS
    RingExact
    SlotOwner
    FlagBacked
    RunOnce
SYMMETRY Symmetry
CHECK_DEADLOCK FALSE
