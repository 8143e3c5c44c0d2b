SPECIFICATION LiveSpec
CONSTANTS
    EID = {a, b}
    NoEid = noeid
    AI = {bot}
    MAX_CONNECT = 2
    QuickRooms = {1}
    CustomRooms = {2}
    MAX_GUEST = 2
    FOLD_PASSES = 1
    quick_robot_flag = TRUE
    Faults = {}
    MaxPending = 1
PROPERTIES
    OfflineFolds
    QuickServed
