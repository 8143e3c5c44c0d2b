SPECIFICATION Spec
CONSTANTS
    EID = {a, b, c}
    NoEid = noeid
    AI = {bot}
    MAX_CONNECT = 3
    QuickRooms = {1}
    CustomRooms = {2, 3}
    MAX_GUEST = 3
    FOLD_PASSES = 1
    quick_robot_flag = TRUE
    Faults = {}
    MaxPending = 1
INVARIANTS
    RoomAlive
    QuickExact
    TimerMeansAway
PROPERTIES
    PlayersStay
SYMMETRY Symmetry
