SPECIFICATION Spec
CONSTANTS
    User = {1, 2}
    Design <- MCDesign
    First <- MCFirst
    DesignMission <- MCMission
    CardCount = 3
    EVIL_NUM_CARD_MAX = 3
    EVIL_NUM_PIECE_MAX = 3
    Scenarios <- MCScenarios
    QueueMax = 2
    NowMax = 2
INVARIANTS NothingForNothing CopyExact CapsKept OnceOnly DeckBacked
CHECK_DEADLOCK FALSE
