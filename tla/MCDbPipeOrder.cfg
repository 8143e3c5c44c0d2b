SPECIFICATION FairSpec
CONSTANTS
    Conn = {c1}
    Thread = {t1, t2}
    Ring = 2
    StoreMax = 2
    MaxSession = 2
    MaxToken = 3
    MaxOffline = 1
    MaxRestart = 0
    Slow = FALSE
INVARIANT NoOvertaking
PROPERTY StoredIsServed
CHECK_DEADLOCK FALSE
