------------------------------- MODULE Rewards -------------------------------
(***************************************************************************)
(* What a user is given: the rewards of missions and of each day's login,  *)
(* the cards of the lottery, gifts by a key, and what he has paid for.     *)
(* Monthly cards are left out.                                             *)
(***************************************************************************)
EXTENDS Market

\* Of each card of a list one more, if there is room; of who has none, none.
HowOften(cards, c) == Cardinality({i \in DOMAIN cards : cards[i] = c})
AddEach(card, cards) ==
    [c \in Card |-> IF card[c] \in 0 .. EVIL_NUM_CARD_MAX
                    THEN Clip(card[c] + HowOften(cards, c), EVIL_NUM_CARD_MAX) ELSE card[c]]

\* add_card_list(): what the missions hear of a card.
CardEvents(u, c) ==
    <<<<"card", u.card[c], c, 0>>, <<"collection", GetCollection(u.card), 0, 0>>>>
AddCardList(u, cards) == [u EXCEPT !.card = AddEach(@, cards)]
ShopEvents(u, cards) ==
    FlattenSeq([i \in DOMAIN cards |-> <<<<"shop", 1, cards[i], 0>>>> \o CardEvents(u, cards[i])])

\* update_card() for each card of a list, or one UPDATE of them all.
UpdateEach(rows, e, cards) == [rows EXCEPT !.card[e] = AddEach(@, cards)]

------------------------------------------------------------------------------
(* Missions.  conn.seen is a history: the list is the table's.             *)

NoMissions == [m \in Mission |-> NoMission]

DbinLoadMission(e) == DbinWrite(e, "lmis", <<>>)
InLoadMission(r, ok) == Read(r, ok, "new", TRUE, db.mis[At(r).e], "good", "bad")
OutLoadMission(th) ==
    LET q == Head(queue[th])
        loaded == [conn[q.by] EXCEPT !.mis = q.got, !.seen = TRUE]
        new == ChangeMission(loaded, <<>>)
    IN Answered(th, "lmis") /\ Dbout(th, [conn EXCEPT ![q.by] = new], SaveMission(q.by, loaded, new))

DbinSaveMission(e) ==
    LET new == ChangeMission(conn[e], <<>>) IN
    DbinWriteAll(e, "savemis", new, <<NewRequest("smis", e, [mis |-> new.mis, seen |-> new.seen])>>)

\* in_save_mission(): one REPLACE of the missions in the list.
InSaveMission(r, ok) ==
    LET q == At(r)
        listed == {m \in Mission : q.a.mis[m].status # MISSION_STATUS_NULL}
    IN Write(r, ok, "new", TRUE,
             [db EXCEPT !.mis[q.e] = [m \in Mission |-> IF m \in listed THEN q.a.mis[m] ELSE @[m]],
                        !.blind = @ \/ ~q.a.seen],
             "good", "broke")

\* dbin_mission_reward(): the copy has the reward at once and is saved; then
\* the reward itself is sent for.
DbinMissionReward(e) ==
    \E m \in Mission :
        LET d == DesignMission[m]
            cards == IF d.card = Wildcard THEN <<>> ELSE <<d.card>>
            paid == AddMoney([conn[e] EXCEPT !.mis = MissionFinish(@, m), !.lv = @ + d.lvup], d.gold, 0)
            u == AddCardList(paid, cards)
            new == ChangeMission(u, FlattenSeq([i \in DOMAIN cards |-> CardEvents(u, cards[i])])
                                    \o <<<<"collection", GetCollection(u.card), 0, 0>>>>
                                    \o IF d.lvup = 0 THEN <<>> ELSE <<<<"level", u.lv, 0, 0>>>>)
        IN /\ MayFinish(conn[e].mis, m)
           /\ DbinWriteAll(e, "mreward", new, SaveMission(e, conn[e], new) \o
                  <<NewRequest("mreward", e, [mis |-> m, gold |-> d.gold, cards |-> cards, lv |-> d.lvup])>>)

\* in_mission_reward(): money and level; that a card fails is only logged.
InMissionReward(r, ok) ==
    LET q == At(r) a == q.a
        rows == Granted([UpdateMoney(db, q.e, a.gold, 0) EXCEPT !.lv[q.e] = @ + a.lv],
                        a.gold + ListWorth(a.cards))
    IN
    \/ Write(r, ok, "new", TRUE,
             IF DesignMission[a.mis].daily THEN rows ELSE Given(rows, <<"mission", q.e, a.mis>>),
             "cards", "broke")
    \/ Try(r, ok, "cards", TRUE, UpdateEach(db, q.e, a.cards), "good")

------------------------------------------------------------------------------
(* The lottery: db.signals says of which kind a user has had a first one.  *)

\* dbin_lottery(): who has had one draws from another list.  The check of the
\* copy compares with a negative price: it refuses nobody.
DbinLottery(e) ==
    \E unit \in Unit :
        LET list == IF unit \in conn[e].signals THEN "normal" ELSE "once" IN
        \/ \E c \in Design.draws[list] :
              DbinWrite(e, "lottery", With([cards |-> <<c>>, signals |-> conn[e].signals, unit |-> unit],
                                           Price(unit, Design.lottery_one[unit])))
        \/ \E cards \in Design.ten :
              DbinWrite(e, "lottery", With([cards |-> cards, signals |-> conn[e].signals, unit |-> unit],
                                           Price(unit, Design.lottery_ten[unit])))

\* in_lottery(): money, cards, and after a single draw the signals the main
\* loop knew, with this one.
InLottery(r, ok) ==
    LET q == At(r) a == q.a
        single == Len(a.cards) = 1 /\ a.unit \notin a.signals
    IN
    \/ Write(r, ok, "new", Affords(q.e, -a.gold, -a.crystal),
             UpdateMoney(db, q.e, -a.gold, -a.crystal), "cards", "bad")
    \/ Write(r, ok, "cards", TRUE, UpdateEach(db, q.e, a.cards), "signals", "broke")
    \/ ok /\ ~single /\ q.at = "signals" /\ Goes(r, "good", a.signals) /\ UNCHANGED <<db, lapse>>
    \/ /\ single /\ q.at = "signals"
       /\ Goes(r, "good", a.signals \cup {a.unit})
       /\ db' = IF ok THEN [db EXCEPT !.signals[q.e] = a.signals \cup {a.unit}] ELSE db
       /\ lapse' = (lapse \/ ~ok)

OutLottery(th) ==
    LET q == Head(queue[th])
        told == [AddMoney(conn[q.by], -q.a.gold, -q.a.crystal) EXCEPT !.signals = q.got]
        u == AddCardList(told, q.a.cards)
    IN Answered(th, "lottery") /\ DboutUser(th, u, ShopEvents(u, q.a.cards))

------------------------------------------------------------------------------
(* Gifts: db.key has who used a key, Design.gift what it is worth.         *)

ExchangeGift(e) == \E k \in DOMAIN Design.gift : DbinWrite(e, "gift", [key |-> k])

\* __check_key_code_unused(): nor too old.
CheckKeyCodeUnused(k) ==
    db.key[k] = NoOne /\ (Design.gift[k].end_time > 0 => Design.gift[k].end_time >= now)

\* __check_has_exchange_gift(): of the same type.
SameType(k) == {x \in DOMAIN Design.gift : Design.gift[x].type = Design.gift[k].type}
HasExchangeGift(e, k) == \E x \in SameType(k) : db.key[x] = e

\* __get_design_gift_info()
GetDesignGiftInfo(k) == [gold |-> Design.gift[k].gold, teams |-> Design.gift[k].ran_team_list]

\* __random_card_in_team(): of each team one.
RandomCards(teams) ==
    {cards \in [DOMAIN teams -> Card] : \A i \in DOMAIN teams : cards[i] \in Design.rate_card[teams[i]]}

\* __add_gift_to_eid(): the money, then the cards; no failure of either stops
\* it, but what failed is not told.
GiveGold(e, k, gold) == Granted(Given(UpdateMoney(db, e, gold, 0), <<"gift", k>>), gold)
GiveCards(e, cards) == Granted(UpdateEach(db, e, cards), ListWorth(cards))

AddGift(r, ok) ==
    LET q == At(r) k == q.a.key IN
    \/ Read(r, ok, "gift", TRUE, GetDesignGiftInfo(k), "money", "bad")
    \/ Try(r, ok, "money", TRUE, GiveGold(q.e, k, q.got.gold), "cards")
    \/ /\ q.at = "cards"
       /\ \E cards \in RandomCards(q.got.teams) :
             /\ Goes(r, "key", [gold |-> q.got.gold, cards |-> IF ok THEN cards ELSE <<>>])
             /\ db' = IF ok THEN GiveCards(q.e, cards) ELSE db
       /\ lapse' = (lapse \/ ~ok)

\* __set_key_code_used()
SetKeyCodeUsed(k, e) == [db EXCEPT !.key[k] = e]

\* Mutant: a key is used without looking whether it is.
GiftAgain(r, ok) ==
    LET q == At(r) k == q.a.key IN
    \/ Read(r, ok, "new", TRUE, <<>>, "gift", "bad")
    \/ AddGift(r, ok)
    \/ Write(r, ok, "key", TRUE, SetKeyCodeUsed(k, q.e), "good", "broke")

\* in_exchange_gift(): the key is not used and the user has had no gift of
\* its type; then the gift is given, and last the key marked.
InExchangeGift(r, ok) ==
    LET q == At(r) k == q.a.key IN
    \/ Read(r, ok, "new", CheckKeyCodeUnused(k), <<>>, "type", "bad")
    \/ Read(r, ok, "type", ~HasExchangeGift(q.e, k), <<>>, "gift", "bad")
    \/ AddGift(r, ok)
    \/ Write(r, ok, "key", TRUE, SetKeyCodeUsed(k, q.e), "good", "broke")

OutExchangeGift(th) ==
    LET q == Head(queue[th])
        u == AddCardList(AddMoney(conn[q.by], q.got.gold, 0), q.got.cards)
    IN Answered(th, "gift") /\ DboutUser(th, u, ShopEvents(u, q.got.cards))

------------------------------------------------------------------------------
(* A reward for each day of login; days in a row count up, beyond the last *)
(* of the table its last reward is given.  last = 0: never rewarded.       *)

NoDaily == [loaded |-> FALSE, day |-> 0]
RewardDay(day) == Clip(day, Len(Design.daily))
DiffDay(e) == IF db.daily[e].last = 0 THEN 1 ELSE Today - db.daily[e].last

GetDailyLogin(e) == DbinWrite(e, "dlogin", <<>>)
InGetDailyLogin(r, ok) ==
    LET e == At(r).e IN
    Read(r, ok, "new", TRUE, IF DiffDay(e) > 1 THEN 0 ELSE db.daily[e].day, "good", "bad")
OutGetDailyLogin(th) ==
    LET q == Head(queue[th]) IN
    /\ Answered(th, "dlogin")
    /\ DboutOnly(th, [conn[q.by] EXCEPT !.daily = [loaded |-> TRUE, day |-> q.got]])

\* get_daily_reward(): for the day the client says.
GetDailyReward(e) ==
    \E day \in 1 .. Len(Design.daily) + 1 :
        conn[e].daily.loaded /\ DbinWrite(e, "dreward", With([day |-> day], Design.daily[RewardDay(day)]))

\* The condition of SQL_SET_DAILY_LOGIN_REWARD.
MayReward(e, day) ==
    \/ DiffDay(e) = 1 /\ db.daily[e].day + 1 = day
    \/ DiffDay(e) > 1 /\ day = 1

\* in_get_daily_reward(): the day, if it is the next; then what it is worth.
InGetDailyReward(r, ok) ==
    LET q == At(r) a == q.a IN
    \/ Write(r, ok, "new", MayReward(q.e, a.day),
             Given([db EXCEPT !.daily[q.e] = [day |-> IF DiffDay(q.e) = 1 THEN @.day + 1 ELSE 1, last |-> Today]],
                   <<"daily", q.e, Today>>), "money", "bad")
    \/ Try(r, ok, "money", TRUE,
           Granted(UpdateMoney(db, q.e, a.gold, 0), a.gold + ListWorth(a.cards) + PieceWorth(a.pieces)), "cards")
    \/ Try(r, ok, "cards", TRUE, UpdateEach(db, q.e, a.cards), "pieces")
    \/ Try(r, ok, "pieces", TRUE, UpdatePieceList(db, q.e, a.pieces), "good")

\* out_get_daily_reward(): the copy learns the day, not what it was worth.
OutGetDailyReward(th) ==
    LET q == Head(queue[th]) IN
    Answered(th, "dreward") /\ DboutOnly(th, [conn[q.by] EXCEPT !.daily.day = q.a.day])

------------------------------------------------------------------------------
(* Payment, told by the administration.                                    *)

AdminPay(e) == \E unit \in Unit, n \in Design.counts : DbinOffice("pay", e, With([n |-> n], Price(unit, n)))

\* What a first payment of crystal is given on top.
Extra(first, a) == IF first THEN [crystal |-> a.crystal, cards |-> Design.first_pay_cards]
                   ELSE [crystal |-> 0, cards |-> <<>>]

\* in_pay(): the count of payments, for crystal (unknown, it is not the
\* first); the money; the extra; the log the count is made from.
InPay(r, ok) ==
    LET q == At(r) a == q.a
        doubled == q.got.crystal > 0
    IN
    \/ /\ q.at = "new" /\ (ok \/ a.crystal > 0)
       /\ Goes(r, "money", Extra(ok /\ a.crystal > 0 /\ db.paid[q.e] = 0, a))
       /\ UNCHANGED db /\ lapse' = (lapse \/ ~ok)
    \/ Write(r, ok, "money", TRUE,
             Granted(UpdateMoney(db, q.e, a.gold, a.crystal), MoneyWorth(a.gold, a.crystal)),
             IF doubled THEN "extra" ELSE "log", "bad")
    \/ Try(r, ok, "extra", TRUE,
           Granted(Given(UpdateMoney(db, q.e, 0, q.got.crystal), <<"double", q.e>>),
                   MoneyWorth(0, q.got.crystal) + ListWorth(q.got.cards)), "cards")
    \/ Try(r, ok, "cards", TRUE, UpdateEach(db, q.e, q.got.cards), "log")
    \/ Try(r, ok, "log", TRUE, [db EXCEPT !.paid[q.e] = IF a.crystal > 0 THEN @ + 1 ELSE @], "good")

\* Mutant: the copy is not told of the extra crystal.
OutPayUndoubled(th) ==
    LET q == Head(queue[th])
        e == q.e
    IN /\ Answered(th, "pay")
       /\ queue' = NextReply(th)
       /\ conn' = IF conn[e].up THEN [conn EXCEPT ![e] = AddMoney(@, q.a.gold, q.a.crystal)] ELSE conn
       /\ UNCHANGED <<bounds, now, db, lapse>>

\* out_pay(): to the copy of the user, who need not be there.
OutPay(th) ==
    LET q == Head(queue[th])
        e == q.e
        u == AddMoney(conn[e], q.a.gold, q.a.crystal + q.got.crystal)
    IN /\ Answered(th, "pay")
       /\ queue' = NextReply(th)
       /\ conn' = IF conn[e].up THEN [conn EXCEPT ![e] = AddCardList(u, q.got.cards)] ELSE conn
       /\ UNCHANGED <<bounds, now, db, lapse>>

------------------------------------------------------------------------------
\* The other answers that are only shown.
OutShownReward(th) ==
    /\ \E cmd \in {"lpiece", "xclist", "smis", "mreward"} : Answered(th, cmd)
    /\ DboutOnly(th, conn[Head(queue[th]).by])

\* out_reset_exchange(): to the administration.
OutResetExchange(th) ==
    /\ Answered(th, "xcreset")
    /\ queue' = NextReply(th) /\ UNCHANGED <<bounds, now, db, conn, lapse>>
=============================================================================
