SPECIFICATION Spec
CONSTANTS
    Conn = {c1}
    Thread = {t1}
    Ring = 2
    StoreMax = 1
    MaxSession = 2
    MaxToken = 1
    MaxOffline = 0
    MaxRestart = 0
    Slow = FALSE
INVARIANT ReplyToRequester
CHECK_DEADLOCK FALSE
