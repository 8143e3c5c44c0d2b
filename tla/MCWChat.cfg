SPECIFICATION FairSpec
CONSTANTS
    Conn = {c1, c2}
    QueueMax = 4
    MaxPost = 5
INVARIANTS
    WindowHoldsLog
PROPERTIES
    ChatInOrder
    ImplementsWorldChat
    NoStall
CHECK_DEADLOCK FALSE
