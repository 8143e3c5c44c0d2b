SPECIFICATION Spec
CONSTANTS
    User = {1, 2, 3}
    Workers = {1, 2}
    MemberMax <- MCMemberMax
    LevelUpGold <- MCLevelUpGold
    CreateGold = 3
    First <- MCFirst
    Roaming = {1}
    Wishes <- MCWishes
    CmdMax = 4
    QueueMax = 2
    FailMax = 1
INVARIANTS GoldKept BonusOnce TotalCovers MemberListExact CacheAgrees
CHECK_DEADLOCK FALSE
