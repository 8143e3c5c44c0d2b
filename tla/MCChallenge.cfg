SPECIFICATION FairSpec
CONSTANTS
    ann = ann
    bob = bob
    eve = eve
    Player = {ann, bob, eve}
    Thread = {1, 2}
    ThreadOf <- MCThreadOf
    RoomId = {1}
    MAX_RANKING_CHALLENGE_TIME = 1
    DbFlag = FALSE
    FirstRank <- MCFirstRank
    Roaming = {eve}
    Wants <- MCWants
    PairMax = 2
    QueueMax = 2
INVARIANTS OneChallengeEach AnsweredOnce RanksDistinct
CHECK_DEADLOCK FALSE
PROPERTY ChallengeSettles
