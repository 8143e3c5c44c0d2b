------------------------------- MODULE Economy -------------------------------
(***************************************************************************)
(* The users' property as a whole: the commands of Shop, Decks, Market and *)
(* Rewards, sent by clients that log in, leave and come back while their   *)
(* requests are under way, executed by one worker or several one statement *)
(* at a time, each of which may fail, and answered by the main loop.       *)
(***************************************************************************)
EXTENDS Arena

Offline == [up |-> FALSE, busy |-> FALSE, gold |-> 0, crystal |-> 0, lv |-> 0, signals |-> {},
            card |-> NoCards, deck |-> NoDeck, batch |-> [t \in BatchType |-> NoBatch],
            mis |-> NoMissions, seen |-> FALSE, hero |-> NoHeroes, hmis |-> NoHeroMissions,
            shop |-> NoPieceShop, daily |-> NoDaily, exp |-> 0, gate_pos |-> 0, times |-> NoTimes,
            chap |-> NoChapters, game |-> NoGame, waits |-> {}]

\* out_login() clears the copy and takes what is in the row of the user.
LoggedIn(row) ==
    [Offline EXCEPT !.up = TRUE, !.gold = row.gold, !.crystal = row.crystal,
                    !.lv = row.lv, !.exp = row.exp, !.signals = row.signals, !.card = row.card,
                    !.gate_pos = row.gate_pos, !.times = row.times]
Row(e) == [gold |-> db.gold[e], crystal |-> db.crystal[e], lv |-> db.lv[e], exp |-> db.exp[e],
           signals |-> db.signals[e], card |-> LoadCard(e), gate_pos |-> db.gate_pos[e], times |-> db.times[e]]

\* At the start the clients have loaded their cards, deck, missions and chapters.
Init ==
    /\ scenario \in Scenarios
    /\ now = 0 /\ cmds = 0 /\ fails = 0 /\ early = FALSE /\ lapse = FALSE
    /\ db = First
    /\ conn = [e \in User |-> [LoggedIn(Row(e)) EXCEPT
               !.deck = db.deck[e].list, !.mis = db.mis[e], !.seen = TRUE,
               !.hero = db.hero[e], !.hmis = db.hmis[e], !.chap = db.chap[e]]]
    /\ queue = [th \in Thread |-> <<>>]

------------------------------------------------------------------------------
\* What a user sends, and what the administration sends about him.
Dbin(e) ==
    /\ cmds < scenario.sends
    /\ \/ May("buy", e) /\ DbinBuyCard(e)
       \/ May("sell", e) /\ DbinSellCard(e)
       \/ May("batch", e) /\ DbinBatch(e)
       \/ May("pick", e) /\ DbinPick(e)
       \/ May("mexchange", e) /\ DbinMoneyExchange(e)
       \/ May("lcard", e) /\ DbinLoadCard(e)
       \/ May("ldeck", e) /\ DbinLoadDeck(e)
       \/ May("lhdeck", e) /\ DbinLoadHeroDeck(e)
       \/ May("scard", e) /\ DbinSaveCard(e)
       \/ May("sdeck", e) /\ DbinSaveDeck(e)
       \/ May("lslot", e) /\ DbinLoadSlot(e)
       \/ May("slotlist", e) /\ DbinSlotList(e)
       \/ May("sslot", e) /\ DbinSaveSlot(e)
       \/ May("rslot", e) /\ DbinRenameSlot(e)
       \/ May("buyslot", e) /\ DbinBuySlot(e)
       \/ May("lhslot", e) /\ DbinListHeroSlot(e)
       \/ May("ghslot", e) /\ DbinGetHeroSlot(e)
       \/ May("ihslot", e) /\ DbinInsertHeroSlot(e)
       \/ May("uhslot", e) /\ DbinUpdateHeroSlot(e)
       \/ May("chslot", e) /\ DbinChooseHeroSlot(e)
       \/ May("lpiece", e) /\ DbinLoadPiece(e)
       \/ May("xcadd", e) /\ DbinXcadd(e)
       \/ May("xcbuy", e) /\ DbinXcbuy(e)
       \/ May("xclist", e) /\ DbinXclist(e)
       \/ May("xcreset", e) /\ AdminXcreset(e)
       \/ May("mpiece", e) /\ DbinMergePiece(e)
       \/ May("ppiece", e) /\ DbinPickPiece(e)
       \/ May("pshop", e) /\ DbinPieceShop(e)
       \/ May("rpshop", e) /\ DbinRefreshPieceShop(e)
       \/ May("pbuy", e) /\ DbinPieceBuy(e)
       \/ May("lmis", e) /\ DbinLoadMission(e)
       \/ May("savemis", e) /\ DbinSaveMission(e)
       \/ May("mreward", e) /\ DbinMissionReward(e)
       \/ May("lottery", e) /\ DbinLottery(e)
       \/ May("gift", e) /\ ExchangeGift(e)
       \/ May("dlogin", e) /\ GetDailyLogin(e)
       \/ May("dreward", e) /\ GetDailyReward(e)
       \/ May("pay", e) /\ AdminPay(e)
       \/ May("shero_mis", e) /\ SubmitHeroMission(e)
       \/ May("gate", e) /\ DbinGate(e)
       \/ May("tower", e) /\ DbinTower(e)
       \/ May("tower_buff", e) /\ DbinTowerBuff(e)
       \/ May("solo", e) /\ DbinSolo(e)
       \/ May("solo_plus", e) /\ DbinSoloPlus(e)
       \/ May("chapter_data", e) /\ DbinChapterData(e)
       \/ May("chapter", e) /\ DbinChapter(e)
       \/ May("play", e) /\ DbinPlay(e)
       \/ May("fold", e) /\ GameFold(e)
       \/ (May("fight", e) \/ May("fight_robot", e)) /\ DbinFight(e)
       \/ May("cancel", e) /\ FightCancel(e)
       \/ May("reset_fight", e) /\ ResetFightTimes(e)
       \/ May("arenatop", e) /\ DbinArenaTopList(e)
       \/ May("arenatarget", e) /\ DbinArenaTarget(e)
       \/ May("arenagame", e) /\ DbinArenaGame(e)
       \/ May("arenatimes", e) /\ DbinArenaTimes(e)
       \/ May("arenareward", e) /\ DbinGetArenaReward(e)
       \/ May("init_arena", e) /\ AdminInitArena(e)
       \/ May("reset_arena", e) /\ AdminResetArenaTimes(e)

InLogin(r, ok) ==
    Read(r, ok, "new", TRUE, Row(At(r).e), "good", "bad")

\* dbio(): the function for the type of the request.
InCommand(r, ok) ==
    LET cmd == At(r).cmd IN
    \/ cmd = "login" /\ InLogin(r, ok)
    \/ cmd = "buy" /\ InBuyCard(r, ok)
    \/ cmd = "sell" /\ InSellCard(r, ok)
    \/ cmd = "batch" /\ InLoadBatch(r, ok)
    \/ cmd = "savebatch" /\ InSaveBatch(r, ok)
    \/ cmd = "pick" /\ InPick(r, ok)
    \/ cmd = "mexchange" /\ InMoneyExchange(r, ok)
    \/ cmd = "lcard" /\ InLoadCard(r, ok)
    \/ cmd = "ldeck" /\ InLoadDeck(r, ok)
    \/ cmd = "lhdeck" /\ InLoadHeroDeck(r, ok)
    \/ cmd = "scard" /\ InSaveCard(r, ok)
    \/ cmd = "lhero" /\ InLoadHeroData(r, ok)
    \/ cmd = "sdeck" /\ InSaveDeck(r, ok)
    \/ cmd = "lslot" /\ InLoadSlot(r, ok)
    \/ cmd = "slotlist" /\ InSlotList(r, ok)
    \/ cmd = "sslot" /\ InSaveSlot(r, ok)
    \/ cmd = "rslot" /\ InRenameSlot(r, ok)
    \/ cmd = "buyslot" /\ InBuySlot(r, ok)
    \/ cmd = "lhslot" /\ InListHeroSlot(r, ok)
    \/ cmd = "ghslot" /\ InGetHeroSlot(r, ok)
    \/ cmd = "ihslot" /\ InInsertHeroSlot(r, ok)
    \/ cmd = "uhslot" /\ InUpdateHeroSlot(r, ok)
    \/ cmd = "chslot" /\ InChooseHeroSlot(r, ok)
    \/ cmd = "lpiece" /\ InLoadPiece(r, ok)
    \/ cmd = "xcadd" /\ InAddExchangePiece(r, ok)
    \/ cmd = "xcbuy" /\ InBuyExchangePiece(r, ok)
    \/ cmd = "xclist" /\ InListExchange(r, ok)
    \/ cmd = "xcreset" /\ InResetExchange(r, ok)
    \/ cmd = "mpiece" /\ InMergePiece(r, ok)
    \/ cmd = "ppiece" /\ InPickPiece(r, ok)
    \/ cmd = "pshop" /\ InGetPieceShop(r, ok)
    \/ cmd = "upshop" /\ InUpdatePieceShop(r, ok)
    \/ cmd = "rpshop" /\ InRefreshPieceShop(r, ok)
    \/ cmd = "pbuy" /\ InPieceBuy(r, ok)
    \/ cmd = "lmis" /\ InLoadMission(r, ok)
    \/ cmd = "smis" /\ InSaveMission(r, ok)
    \/ cmd = "mreward" /\ InMissionReward(r, ok)
    \/ cmd = "lottery" /\ InLottery(r, ok)
    \/ cmd = "gift" /\ InExchangeGift(r, ok)
    \/ cmd = "dlogin" /\ InGetDailyLogin(r, ok)
    \/ cmd = "dreward" /\ InGetDailyReward(r, ok)
    \/ cmd = "pay" /\ InPay(r, ok)
    \/ cmd = "up_hero_mlist" /\ InUpdateHeroMission(r, ok)
    \/ cmd = "shero_mis" /\ InSubmitHeroMission(r, ok)
    \/ cmd = "gate" /\ InGate(r, ok)
    \/ cmd = "chapter" /\ InChapter(r, ok)
    \/ cmd = "update_gate_pos" /\ InUpdateGatePos(r, ok)
    \/ cmd = "tower" /\ InTower(r, ok)
    \/ cmd = "tower_buff" /\ InTowerBuff(r, ok)
    \/ cmd = "tower_result" /\ InTowerResult(r, ok)
    \/ cmd = "solo_plus" /\ InSolo(r, ok)
    \/ cmd = "chapter_data" /\ InGetChapter(r, ok)
    \/ cmd = "chapter_replace" /\ InReplaceChapter(r, ok)
    \/ cmd = "chapter_reward" /\ InChapterReward(r, ok)
    \/ cmd = "win" /\ InWin(r, ok)
    \/ cmd = "update_signals" /\ InUpdateSignals(r, ok)
    \/ cmd = "fight" /\ InFight(r, ok)
    \/ cmd = "fight_robot" /\ InFightRobot(r, ok)
    \/ cmd = "reset_fight" /\ InResetFightTimes(r, ok)
    \/ cmd = "arenatop" /\ InArenaTopList(r, ok)
    \/ cmd = "arenatarget" /\ InArenaTarget(r, ok)
    \/ cmd = "arenagame" /\ InArenaGame(r, ok)
    \/ cmd = "arenatimes" /\ InUpdateArenaTimes(r, ok)
    \/ cmd = "arenaexc" /\ InExchangeArenaRank(r, ok)
    \/ cmd = "arenareward" /\ InGetArenaReward(r, ok)
    \/ cmd = "init_arena" /\ InInitArena(r, ok)
    \/ cmd = "reset_arena" /\ InResetArenaTimes(r, ok)

\* A worker executes a statement of the request it is at.
Dbio ==
    \E r \in Requests, ok \in BOOLEAN :
        /\ Current(r) /\ (~ok => fails < scenario.fails)
        /\ InCommand(r, ok)
        /\ fails' = IF ok THEN fails ELSE fails + 1
        /\ UNCHANGED <<scenario, cmds, early, now, conn>>

\* Who has cards has missions and heroes, which are asked for.
OutLogin(th) ==
    LET q == Head(queue[th]) IN
    /\ Answered(th, "login")
    /\ Dbout(th, [conn EXCEPT ![q.by] = [LoggedIn(q.got) EXCEPT !.game = conn[q.by].game]],
             IF q.got.card = NoCards THEN <<>>
             ELSE <<NewRequest("lmis", q.by, <<>>), DbinLoadHero(q.by)>>)

\* dbout(): the handler for the type of the oldest answer of a worker.
DboutNext(th) ==
    /\ queue[th] # <<>> /\ Head(queue[th]).at = "done"
    /\ \/ OutLogin(th) \/ OutBuyCard(th) \/ OutSellCard(th) \/ OutBatch(th) \/ OutSaveBatch(th)
       \/ OutPick(th) \/ OutMoneyExchange(th) \/ OutLoadCard(th) \/ OutLoadDeck(th)
       \/ OutLoadHeroDeck(th) \/ OutSaveCard(th) \/ OutLoadHeroData(th) \/ OutSaveDeck(th)
       \/ OutBuySlot(th) \/ OutUpdateHeroSlot(th) \/ OutChooseHeroSlot(th) \/ OutShown(th)
       \/ OutXcadd(th) \/ OutXcbuy(th) \/ OutPaid(th) \/ OutPieceShop(th) \/ OutRefreshPieceShop(th)
       \/ OutPieceBuy(th) \/ OutLoadMission(th) \/ OutLottery(th) \/ OutExchangeGift(th)
       \/ OutGetDailyLogin(th) \/ OutGetDailyReward(th) \/ OutPay(th) \/ OutShownReward(th)
       \/ OutResetExchange(th) \/ OutUpdateHeroMission(th) \/ OutSubmitHeroMission(th)
       \/ OutGate(th) \/ OutUpdateGatePos(th) \/ OutTower(th) \/ OutTowerBuff(th) \/ OutTowerResult(th)
       \/ OutSoloPlus(th) \/ OutChapterData(th) \/ OutChapterUpdateData(th) \/ OutChapter(th)
       \/ OutChapterReward(th) \/ OutWin(th) \/ OutUpdateSignals(th)
       \/ OutFight(th) \/ OutFightRobot(th) \/ OutResetFightTimes(th) \/ OutArenaGame(th)
       \/ OutUpdateArenaTimes(th) \/ OutArenaShown(th) \/ DboutError(th)

\* dbin_login(): a connection without a user asks any worker.
DbinLogin(e) ==
    /\ May("login", e) /\ cmds < scenario.sends
    /\ ~conn[e].up /\ ~conn[e].busy
    /\ \E th \in Thread : queue' = [queue EXCEPT ![th] = Append(@, NewRequest("login", e, <<>>))]
    /\ conn' = [conn EXCEPT ![e].busy = TRUE]
    /\ cmds' = cmds + 1
    /\ UNCHANGED <<scenario, now, db, fails, early, lapse>>

\* do_clean(): nobody hears what the connection has asked for, and its user
\* waits no more, but may come back to the game.
DoClean(e) ==
    /\ May("quit", e) /\ conn[e].up
    /\ conn' = [conn EXCEPT ![e] = [Offline EXCEPT !.game = conn[e].game]]
    /\ queue' = [th \in Thread |-> [i \in 1 .. Len(queue[th]) |->
                    IF queue[th][i].by = e THEN [queue[th][i] EXCEPT !.by = NoOne] ELSE queue[th][i]]]
    /\ UNCHANGED <<bounds, now, db, lapse>>

\* Half a day goes by.
Tick ==
    /\ May("time", NoOne) /\ now < NowMax /\ now' = now + 1
    /\ UNCHANGED <<bounds, db, conn, queue, lapse>>

Next ==
    \/ \E e \in User : Dbin(e) \/ DbinLogin(e) \/ DoClean(e) \/ AutoFold(e) \/ AutoFight(e)
    \/ Dbio
    \/ \E th \in Thread : DboutNext(th)
    \/ Tick

Spec == Init /\ [][Next]_vars

------------------------------------------------------------------------------
Quiet == \A r \in Requests : At(r).at \in {"new", "done"}
Idle == Requests = {}

\* Every table keeps its shape, and a request under way is one of a worker.
TypeOK ==
    /\ scenario \in Scenarios /\ {early, lapse} \subseteq BOOLEAN
    /\ now \in 0 .. NowMax /\ cmds \in 0 .. scenario.sends /\ fails \in 0 .. scenario.fails
    /\ DOMAIN db = DOMAIN First /\ db.gold \in [User -> Nat] /\ db.crystal \in [User -> Nat]
    /\ db.card \in [User -> CardList] /\ db.piece \in [User -> CardList]
    /\ db.mis \in [User -> MissionList] /\ db.lv \in [User -> Nat]
    /\ DOMAIN conn = User /\ \A e \in User : DOMAIN conn[e] = DOMAIN Offline
    /\ DOMAIN queue = Thread

\* What the users and the offers are worth together.
Wealth(rows) ==
    FoldFunctionOnSet(+, 0,
        [e \in User |-> MoneyWorth(rows.gold[e], rows.crystal[e]) + PieceWorth(rows.piece[e])
                        + IF rows.card[e] = NoCards THEN 0 ELSE CardWorth(rows.card[e])], User)
    + FoldFunction(+, 0, [x \in DOMAIN rows.exchange |->
                             Design.worth[rows.exchange[x].card].piece * rows.exchange[x].n])

FirstWealth == Wealth(First)

\* With one worker, whatever is bought, sold, merged, drawn, offered, taken
\* back or refused, users own no more than they began with and were granted,
\* unless a request has stopped half-way.
NothingForNothing ==
    threads = 1 /\ ~lapse /\ Quiet => Wealth(db) <= FirstWealth + db.granted

\* With one worker, the copy in the connection and the tables agree about a
\* user's money whenever no request is under way; a day's reward is not
\* told, nor the arena's.  A reply that loads the missions of the heroes takes
\* back what a game that ended before it has counted.
CopyExact ==
    threads = 1 /\ ~lapse /\ Idle =>
        \A e \in User : conn[e].up /\ ~May("dreward", e) /\ ~May("arenareward", e) =>
            /\ conn[e].gold = db.gold[e] /\ conn[e].crystal = db.crystal[e]
            /\ conn[e].gate_pos = db.gate_pos[e]
            /\ Loaded(conn[e]) => conn[e].chap = db.chap[e]
            /\ ~May("chapter", e) => conn[e].lv = db.lv[e] /\ conn[e].exp = db.exp[e]
            /\ ~May("lottery", e) => conn[e].signals = db.signals[e]
            /\ ~May("reset_fight", e) => conn[e].times = db.times[e]
            /\ ~May("login", e) =>
                   /\ conn[e].hero = db.hero[e]
                   /\ ~early => \A h \in Hero, m \in 1 .. Design.MAX_HERO_MISSION - 1 :
                          conn[e].hmis[h][m] = db.hmis[e][h][m]

\* A user's requests go to one worker.  Who buys asks for room first, so that
\* cards paid for and pieces given back by another worker may come in between.
CardsAlone(e) == threads = 1 \/ ~May("buy", e) \/ ~May("pay", e)
PiecesAlone(e) ==
    threads = 1 \/ ~(May("buy", e) \/ May("xcbuy", e)) \/ \A g \in User : ~May("xcreset", g)

\* No row of cards or pieces leaves its limits, in whatever order purchases,
\* sales and rewards reach the workers, but for those two; neither power, games
\* nor runs left go below 0, and no two users have one rank of the arena.
CapsKept ==
    \A e \in User :
        /\ \A c \in Card :
               /\ CardsAlone(e) /\ db.card[e] # NoCards => db.card[e][c] \in 0 .. EVIL_NUM_CARD_MAX
               /\ PiecesAlone(e) => db.piece[e][c] \in 0 .. EVIL_NUM_PIECE_MAX
        /\ db.power[e].left >= 0 /\ \A t \in {"ai", "gold", "crystal"} : db.times[e][t] >= 0
        /\ {db.tower[e].res, db.tower[e].energy} \subseteq 0 .. Design.tower_buff_max
        /\ db.status_tower[e].times >= 0
        /\ db.status_arena[e].times >= 0
        /\ \A g \in User \ {e} : db.arena[e] > 0 => db.arena[e] # db.arena[g]

\* What is given on the word of the copy, which a command that is sent before
\* the replies to others have come finds as it was.
CopyGuards == {"pshop", "mission", "hero"}

\* With one worker, what may be had once is not given twice: an item of the
\* piece shop, a gift's key, a mission, a day's reward, a half day's in the
\* arena, the double of the first payment; unless a statement of the request
\* failed, a mission list was saved that had not been loaded, or the copy was
\* asked too early.
OnceOnly ==
    threads = 1 /\ ~lapse /\ ~db.blind => \A x \in db.again : early /\ x[1] \in CopyGuards

\* A user's copy of the cards is read in one line with what changes them: a
\* payment and a login go to any worker.
CopyAlone(e) == threads = 1 \/ ~(May("pay", e) \/ May("login", e))

\* Who has cards has those of its deck, unless it chooses a hero's slot, in which
\* cards may be that were sold, or sends a deck before the reply to a sale, which
\* the connection accepts once any reply has come, or its copy shows more of the
\* card than there are: it has sold one from the limit, at which the copy stays,
\* or bought a piece of it, which the reply counts as a card.
DeckBacked ==
    ~lapse /\ ~early /\ Quiet =>
        \A e \in User : CopyAlone(e) /\ ~May("chslot", e) /\ db.card[e] # NoCards /\ db.deck[e].list # NoDeck =>
            \A c \in Card : <<e, c>> \in db.astray \/ db.deck[e].list[c] <= db.card[e][c]
=============================================================================
