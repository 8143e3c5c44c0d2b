SPECIFICATION Spec
CONSTANTS
    EID = {a, b}
    NoEid = noeid
    AI = {bot}
    MAX_CONNECT = 2
    QuickRooms = {1}
    CustomRooms = {2}
    MAX_GUEST = 2
    FOLD_PASSES = 1
    quick_robot_flag = FALSE
    Faults = {"send_error", "jam", "self_kick", "init_error"}
    MaxPending = 2
INVARIANTS
    SeatsExact
    SessionsExact
    PoolExact
SYMMETRY Symmetry
