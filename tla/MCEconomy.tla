------------------------------ MODULE MCEconomy ------------------------------
(* Card 1 is a hero; users 1 and 2, of which 2 has no cards yet.  Prices   *)
(* are such that no purchase gains.                                        *)
EXTENDS Economy

P(gold, crystal, exp) == [gold |-> gold, crystal |-> crystal, exp |-> exp]
MCMission ==
    (1 :> [mtype |-> "shop", p1 |-> 1, p2 |-> 0, p3 |-> 0, pre |-> 0, hero |-> 0, daily |-> FALSE,
           lv |-> 0, guild_lv |-> 0, gold |-> 2, card |-> 3, lvup |-> 1]) @@
    (2 :> [mtype |-> "level", p1 |-> 2, p2 |-> 0, p3 |-> 0, pre |-> 1, hero |-> 1, daily |-> FALSE,
           lv |-> 0, guild_lv |-> 0, gold |-> 1, card |-> 0, lvup |-> 0]) @@
    (3 :> [mtype |-> "card", p1 |-> 1, p2 |-> 3, p3 |-> 0, pre |-> 0, hero |-> 0, daily |-> TRUE,
           lv |-> 0, guild_lv |-> 0, gold |-> 1, card |-> 0, lvup |-> 0]) @@
    (4 :> [mtype |-> "deck", p1 |-> 2, p2 |-> 2, p3 |-> 0, pre |-> 0, hero |-> 0, daily |-> FALSE,
           lv |-> 0, guild_lv |-> 0, gold |-> 1, card |-> 0, lvup |-> 0])

MCDeck == {<<1, 1, 0>>, <<1, 2, 0>>, <<1, 1, 1>>}
MCDesign == [
    counts |-> {1, 2}, goods |-> {2}, worth |-> (1 :> [card |-> 4, piece |-> 2]) @@ (2 :> [card |-> 4, piece |-> 2])
                                 @@ (3 :> [card |-> 4, piece |-> 2]),
    buy |-> [card |-> [gold |-> 4, crystal |-> 2], piece |-> [gold |-> 2, crystal |-> 0]],
    sell |-> [card |-> [gold |-> 2, crystal |-> 1], piece |-> [gold |-> 1, crystal |-> 0]],
    loc |-> 1, refresh |-> 1, pick |-> 4, exchange_crystal_gold |-> 2,
    HERO_MAX |-> 1, MAX_SLOT_NUM |-> 3, EVIL_NUM_DECK_MAX |-> 2, EVIL_DECK_CARD_MIN |-> 2,
    fit_hero |-> (1 :> {2, 3}), hero_slot |-> (1 :> <<1, 1, 0>>), job |-> (1 :> <<1, 1, 1>>),
    decks |-> MCDeck, slot |-> 2, EVIL_HERO_SLOT_MAX |-> 2,
    offer |-> 2, merge |-> (2 :> [n |-> 2, gold |-> 1, crystal |-> 0]),
    pieces_shown |-> 2,
    pitem |-> (1 :> [card |-> 2, n |-> 1, gold |-> 2, crystal |-> 0])
              @@ (2 :> [card |-> 3, n |-> 2, gold |-> 0, crystal |-> 2]),
    pshop_reset_interval |-> 1, pshop_refresh_gold |-> 1, pshop_max_refresh_gold |-> 2,
    lottery_one |-> [gold |-> 4, crystal |-> 2], lottery_ten |-> [gold |-> 8, crystal |-> 4], draws |-> [normal |-> {2}, once |-> {3}],
    ten |-> {<<2, 3>>},
    gift |-> (1 :> [type |-> 1, gold |-> 1, ran_team_list |-> <<1>>, end_time |-> 0])
             @@ (2 :> [type |-> 1, gold |-> 1, ran_team_list |-> <<>>, end_time |-> 1]), rate_card |-> <<{2, 3}>>,
    daily |-> <<[gold |-> 1, cards |-> <<>>, pieces |-> <<0, 1, 0>>], [gold |-> 2, cards |-> <<3>>, pieces |-> <<0, 0, 0>>]>>,
    first_pay_cards |-> <<3>>,
    hero |-> (1 :> 2), MAX_HERO_MISSION |-> 3,
    hmission |-> (1 :> <<[pre |-> 0, stage |-> [c |-> 1, s |-> 1], star |-> 0, count |-> 1, hp |-> 1],
                         [pre |-> 0, stage |-> [c |-> 1, s |-> 1], star |-> 2, count |-> 1, hp |-> 1],
                         [pre |-> 1, stage |-> [c |-> 1, s |-> 2], star |-> 0, count |-> 1, hp |-> 1]>>),
    MAX_USER_POWER |-> 3, gate |-> <<[gold |-> 1, exp |-> 1, power |-> 2], [gold |-> 2, exp |-> 2, power |-> 2]>>,
    tower_height |-> 3, tower_step |-> 1, tower_buff_max |-> 1,
    chapter |-> <<<<[exp |-> 1, power |-> 1, rewards |-> {[kind |-> "gold", n |-> 1], [kind |-> "exp", n |-> 1]}],
                    [exp |-> 1, power |-> 1, rewards |-> {[kind |-> "card", n |-> 3], [kind |-> "piece", n |-> 2]}]>>,
                  <<[exp |-> 1, power |-> 1, rewards |-> {[kind |-> "crystal", n |-> 1]}]>>>>,
    exp_list |-> <<0, 2, 3>>, fold_hp |-> {4, 5, 6}, fight_times |-> [ai |-> 2, gold |-> 2, crystal |-> 2],
    ARENA_GET_TARGET_BY_ORDER_RANK |-> 20, MAX_ARENA_TARGET |-> 5, range_percent_list |-> {90, 85, 80, 75, 70},
    MAX_ARENA_TOP_LIST |-> 1, ARENA_TIMES_STD |-> 2, ARENA_TIMES_BUY_COUNT |-> 1, ARENA_TIMES_BUY_CRYSTAL |-> 1,
    arena_reward |-> <<[gold |-> 2, crystal |-> 1], [gold |-> 1, crystal |-> 0]>>,
    game |-> ("arena" :> [cost |-> P(0, 0, 0), win |-> P(0, 0, 0), lose |-> P(0, 0, 0), draw |-> P(0, 0, 0), fold |-> P(0, 0, 0)])
             @@ [t \in {"tower", "solo", "solo_plus", "VS_FREE", "SOLO_FREE"} |->
                 [cost |-> P(0, 0, 0), win |-> P(1, 0, 1), lose |-> P(0, 0, 1), draw |-> P(0, 0, 1), fold |-> P(0, 0, 0)]]
             @@ [t \in {"SOLO_GOLD", "VS_GOLD"} |->
                 [cost |-> P(2, 0, 0), win |-> P(4, 0, 1), lose |-> P(0, 0, 1), draw |-> P(2, 0, 1), fold |-> P(0, 0, 0)]]
             @@ ("VS_CRYSTAL" :>
                 [cost |-> P(0, 1, 0), win |-> P(0, 2, 1), lose |-> P(0, 0, 1), draw |-> P(0, 1, 1), fold |-> P(0, 0, 0)])]

OpenMission == [status |-> MISSION_STATUS_READY, n1 |-> 0]
Times0 == [ai |-> 1, gold |-> 1, crystal |-> 1]
Power0 == [left |-> 3, at |-> 0]
OneHeroSlot == (1 :> <<<<1, 1, 0>>>>)
Refresh(card) == MissionRefresh([m \in Mission |-> NoMission], [lv |-> 1, guild_lv |-> 0, card |-> card], 1)
MCFirst == [
    gold |-> <<8, 4>>, crystal |-> <<3, 2>>, lv |-> <<1, 1>>, signals |-> <<{}, {"gold"}>>,
    card |-> <<<<1, 2, 0>>, NoCards>>, piece |-> <<<<0, 2, 1>>, <<0, 1, 0>>>>,
    deck |-> <<[slot |-> 1, list |-> <<1, 1, 0>>], [slot |-> 0, list |-> NoDeck]>>,
    batch |-> <<[t \in BatchType |-> NoBatch], [t \in BatchType |-> NoBatch]>>,
    slot |-> <<<<EmptySlot, NoSlot>>, <<NoSlot, NoSlot>>>>,
    hslot |-> <<OneHeroSlot, (1 :> <<>>)>>,
    hero |-> <<<<2>>, NoHeroes>>, hmis |-> <<<<<<OpenMission, OpenMission, NoHeroMission>>>>, NoHeroMissions>>,
    exp |-> <<0, 0>>, gate_pos |-> <<1, 1>>, times |-> <<Times0, Times0>>, power |-> <<Power0, Power0>>,
    tower |-> <<NoTower, NoTower>>, status_tower |-> <<[pos |-> 0, times |-> 1], [pos |-> 0, times |-> 1]>>,
    arena |-> <<1, 0>>, status_arena |-> <<[times |-> 1, last |-> -1], [times |-> 1, last |-> -1]>>,
    chap |-> <<<<<<8, 9>>, <<9>>>>, NoChapters>>,
    exchange |-> <<>>, offers |-> 0, pshop |-> <<NoPieceShop, NoPieceShop>>,
    mis |-> <<Refresh(<<1, 2, 0>>), Refresh(NoCards)>>, key |-> (1 :> 0) @@ (2 :> 0),
    daily |-> <<[day |-> 0, last |-> 0], [day |-> 2, last |-> 1]>>, paid |-> <<0, 0>>,
    given |-> {}, again |-> {}, granted |-> 0, blind |-> FALSE, astray |-> {}]

Time == {<<"time", NoOne>>}
Scenario(d, s, f, w) == [does |-> d, sends |-> s, fails |-> f, workers |-> w]
MCGames == {Scenario(does, 4, 1, 1) : does \in {
        {"gate", "play"} \X {1} \cup Time, {"tower", "tower_buff", "play"} \X {1},
        {"solo", "solo_plus", "play", "fold"} \X {1},
        {"fight_robot", "play", "fold"} \X {1}, {"fight_robot", "play", "reset_fight"} \X {1}}}
    \cup {Scenario(does, 3, 1, 1) : does \in {
        {"chapter", "play", "shero_mis"} \X {1}, {"fight_robot", "fight", "play"} \X {1}}}
    \cup {Scenario({"chapter", "play", "shero_mis"} \X {1}, 4, 0, 1)}
    \cup {Scenario(does, 3, 0, 1) : does \in {
        {"solo_plus", "sdeck", "sell", "play"} \X {1}, {"fight_robot", "play", "lottery"} \X {1},
        {"gate", "play", "quit", "login"} \X {1}, {"tower", "play", "quit", "login"} \X {1},
        {"chapter", "play", "quit", "login"} \X {1}, {"chapter", "chapter_data", "quit", "login"} \X {1}}}
    \cup {Scenario({"chapter", "play", "shero_mis"} \X {1}, 3, 0, 2)}
    \cup {Scenario(does, 4, 0, 1) : does \in {{"scard", "fold"} \X {2} \cup {"fight"} \X {1, 2}}}
    \cup {Scenario(does, 4, 0, 2) : does \in {
        {"scard", "play", "fight", "robot"} \X {2} \cup {"fight", "cancel"} \X {1},
        {"tower", "tower_buff", "play", "quit"} \X {1}}}
MCArena == {
    Scenario({"scard", "arenagame", "play", "arenareward"} \X {2}, 4, 1, 1),
    Scenario({"arenatop", "arenatarget", "arenatimes", "arenareward"} \X {1} \cup Time, 3, 1, 1),
    Scenario({"scard", "arenagame", "arenatarget"} \X {2} \cup {"init_arena", "reset_arena"} \X {1}, 3, 1, 2),
    Scenario({"scard", "arenagame", "play", "fold", "quit", "login"} \X {2}, 4, 0, 1),
    Scenario({"scard"} \X {2} \cup {"arenagame", "play"} \X {1, 2}, 5, 0, 2)}
MCWide == {
    {"buy", "sell"} \X {1}, {"sell", "mexchange"} \X {1}, {"batch", "pick", "ppiece"} \X {1},
    {"lcard", "ldeck", "sdeck", "sell"} \X {1},
    {"lslot", "slotlist", "sslot", "rslot", "buyslot"} \X {1},
    {"pshop", "rpshop", "pbuy"} \X {1} \cup Time,
    {"lmis", "savemis", "mreward", "buy"} \X {1} \cup Time,
    {"pay", "mexchange"} \X {1}}
MCTrade ==
    {Scenario(does, 3, 0, 1) : does \in MCWide}
    \cup {Scenario(does, 2, 1, 1) : does \in MCWide}
    \cup {Scenario(does, 3, 1, 1) : does \in {
        {"lhdeck", "lhslot", "ghslot", "ihslot", "uhslot", "chslot"} \X {1},
        {"scard"} \X {2},
        ({"xcadd", "lpiece", "xcreset"} \X {1}) \cup ({"xcbuy", "xclist"} \X {2}),
        {"mpiece", "lpiece", "sell"} \X {1},
        {"lottery"} \X {1}, {"gift"} \X {1} \cup Time,
        {"dlogin", "dreward"} \X {1, 2} \cup Time}}
    \cup {Scenario(does \X {1}, 2, 0, 1) : does \in {{"batch", "quit", "login"}, {"pay", "quit", "login"}}}
    \cup {Scenario(does \X {1}, 3, 0, 1) : does \in {
        {"buyslot", "quit", "login"}, {"mpiece", "quit", "login"},
        {"pbuy", "pshop", "quit", "login"}, {"lottery", "quit", "login"},
        {"dlogin", "dreward", "quit", "login"}, {"mreward", "buy", "quit", "login"}, {"buy", "sell", "sdeck"}}}
    \cup {Scenario({"lmis", "mreward", "buy"} \X {1}, 5, 0, 1)}
    \cup {Scenario(does, 3, 0, 2) : does \in {
        {"mreward", "sdeck"} \X {1}, ({"xcadd", "xcreset"} \X {1}) \cup ({"xcbuy"} \X {2}),
        {"pay", "pick"} \X {1}, {"gift"} \X {1, 2}}}
MCScenarios == MCTrade \cup MCGames \cup MCArena
=============================================================================
