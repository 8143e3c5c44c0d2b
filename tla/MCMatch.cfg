SPECIFICATION Spec
CONSTANTS
    MaxPlayer = 8
    MaxAiEid = 20
    Shuffles <- MCShuffles
    EliShuffles <- MCEliShuffles
    Human = {21, 22}
    Ai = {1, 2, 3, 4, 5, 6}
    RoomId = {1, 2, 3, 4}
    Bounds <- MCBounds
INVARIANTS BracketSound NeverStuck SeatsAgree RowsAgree
CHECK_DEADLOCK FALSE
