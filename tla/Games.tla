------------------------------- MODULE Games -------------------------------
(***************************************************************************)
(* The end of a game, win_game(): what the players get and pay for it goes *)
(* to their copies at once and to their rows by a request of the one whose *)
(* command ended it, along with one for the stage won, its reward, the     *)
(* signals, the gate or the floor reached and the missions of both.        *)
(*                                                                         *)
(* Ratings, cards won and replays are left out: no game of this module     *)
(* wins a card, and the others change nothing else.                        *)
(***************************************************************************)
EXTENDS Chapters

FIGHT_FOLD_HERO_HP == 5
Online(g) == g \in User /\ conn[g].up
Guest1(game) == game.guest[1]

\* add_exp(): up the levels, as far as it goes.
AddExp(u, exp) ==
    LET Up(v, lv) ==
            IF v.lv = lv - 1 /\ v.exp >= Design.exp_list[lv]
            THEN [v EXCEPT !.lv = lv, !.exp = @ - Design.exp_list[lv]] ELSE v
        max == Len(Design.exp_list)
        w == FoldLeft(Up, [lv |-> u.lv, exp |-> u.exp + exp], [lv \in 1 .. max |-> lv])
    IN [u EXCEPT !.lv = w.lv, !.exp = IF w.lv >= max THEN Clip(w.exp, Design.exp_list[max]) ELSE w.exp]

------------------------------------------------------------------------------
(* Who gets what.  hp is the hero's of who gives up, 0 at any other end.   *)

SoloTypes == {"SOLO_GOLD", "SOLO_FREE"}
VsTypes == {"VS_GOLD", "VS_CRYSTAL", "VS_FREE"}
Nothing == [gold |-> 0, crystal |-> 0, exp |-> 0]
Early(hp) == hp > FIGHT_FOLD_HERO_HP

\* win_game_income(): what the design gives for the game and its result ...
Prize(game, winner, hp, i) ==
    LET d == Design.game[game.type]
        won == i = winner
    IN IF game.guest[i] \notin User THEN Nothing
       ELSE CASE game.type = "gate" ->
                   IF won THEN [Nothing EXCEPT !.gold = Design.gate[-game.guest[2]].gold,
                                               !.exp = Design.gate[-game.guest[2]].exp] ELSE Nothing
              [] game.type = "chapter" ->
                   IF won THEN [Nothing EXCEPT !.exp = Design.chapter[game.at.c][game.at.s].exp] ELSE Nothing
              [] winner = 9 -> d.draw
              [] game.type = "solo" -> Nothing
              [] Early(hp) -> IF won THEN d.draw ELSE d.fold
              [] OTHER -> IF won THEN d.win ELSE d.lose

\* ... the fee of the game ...
Fee(game, winner) ==
    IF game.type \in {"gate", "chapter"} \/ (game.type = "solo" /\ winner # 9) THEN Nothing
    ELSE Design.game[game.type].cost

\* ... and how many games of the day it counts for.  Of a draw against the
\* computer nothing is counted: the times of the other side are.
Times(game, winner, hp, i) ==
    LET n == IF winner = 9 \/ ~Early(hp) THEN 1 ELSE IF i = winner THEN 0 ELSE 2
        of == [ai |-> 0, gold |-> 0, crystal |-> 0]
    IN CASE game.type = "SOLO_GOLD" /\ winner # 9 -> [of EXCEPT !.ai = 1]
         [] game.type = "VS_GOLD" -> [of EXCEPT !.gold = n]
         [] game.type = "VS_CRYSTAL" -> [of EXCEPT !.crystal = n]
         [] OTHER -> of

\* What the row and the copy of a player change by.
Income(game, winner, hp, i) ==
    LET p == Prize(game, winner, hp, i) f == Fee(game, winner) t == Times(game, winner, hp, i)
    IN [e |-> game.guest[i], gold |-> p.gold - f.gold, crystal |-> p.crystal - f.crystal,
        ai |-> -t.ai, vs_gold |-> -t.gold, vs_crystal |-> -t.crystal,
        prize |-> MoneyWorth(p.gold, p.crystal)]

\* dbin_win_param(): the copy, and the signal of a first game with the robot.
Paid(u, n, signal) ==
    [AddMoney(u, n.gold, n.crystal) EXCEPT
        !.times.ai = @ + n.ai, !.times.gold = @ + n.vs_gold, !.times.crystal = @ + n.vs_crystal,
        !.signals = @ \cup signal]

FirstRobot(game, winner, i) ==
    IF i = 1 /\ winner = 1 /\ game.guest[2] = Ai(1) THEN {game.type} \cap SoloTypes ELSE {}

\* in_win(), update_win_status(): one UPDATE for each player, which changes
\* nothing if something would become less than 0, as is only logged.
InWin(r, ok) ==
    LET q == At(r)
        Bears(n) == /\ Affords(n.e, n.gold, n.crystal)
                   /\ db.times[n.e].ai + n.ai >= 0 /\ db.times[n.e].gold + n.vs_gold >= 0
                   /\ db.times[n.e].crystal + n.vs_crystal >= 0
        Rows(n) == [Granted(UpdateMoney(db, n.e, n.gold, n.crystal), n.prize) EXCEPT
                       !.exp[n.e] = @ + n.exp, !.lv[n.e] = @ + n.lv,
                       !.times[n.e] = [ai |-> @.ai + n.ai, gold |-> @.gold + n.vs_gold,
                                       crystal |-> @.crystal + n.vs_crystal]]
        Side(i, at, then) ==
            LET n == q.a.side[i] IN
            IF n.e \in User THEN Try(r, ok, at, Bears(n), Rows(n), then)
            ELSE ok /\ At(r).at = at /\ Goes(r, then, <<>>) /\ UNCHANGED <<db, lapse>>
    IN Side(1, "new", "second") \/ Side(2, "second", "good")

\* in_update_signals()
InUpdateSignals(r, ok) ==
    LET q == At(r) IN Write(r, ok, "new", TRUE, [db EXCEPT !.signals[q.e] = q.a.signals], "good", "broke")

------------------------------------------------------------------------------
(* A stage's reward, drawn when it is won.                                 *)

\* update_chapter_reward(): of experience the copy has it before.
RewardedCopy(u, w) == IF w.kind = "exp" THEN AddExp(u, w.n) ELSE u

\* in_chapter_reward(): money and experience are checked, pieces are not.
InChapterReward(r, ok) ==
    LET q == At(r) e == q.e w == q.a.reward IN
    \/ /\ w.kind = "gold"
       /\ Write(r, ok, "new", TRUE, Granted(UpdateMoney(db, e, w.n, 0), w.n), "good", "broke")
    \/ /\ w.kind = "crystal"
       /\ Try(r, ok, "new", TRUE, Granted(UpdateMoney(db, e, 0, w.n), MoneyWorth(0, w.n)), "good")
    \/ /\ w.kind = "piece"
       /\ Try(r, ok, "new", MayUpdatePiece(e, w.n, 1),
              Granted(UpdatePiece(db, e, w.n, 1), Design.worth[w.n].piece), "good")
    \/ /\ w.kind = "card"
       /\ Write(r, ok, "new", TRUE, Granted(UpdateCard(db, e, w.n, 1), Design.worth[w.n].card), "good", "broke")
    \/ /\ w.kind = "exp"
       /\ Write(r, ok, "new", TRUE, [db EXCEPT !.lv[e] = q.a.lv, !.exp[e] = q.a.exp], "good", "broke")

\* out_chapter_reward(): the level and experience are those of before the
\* stage's own; pieces are not in the copy.
OutChapterReward(th) ==
    LET q == Head(queue[th]) u == conn[q.by] w == q.a.reward IN
    /\ Answered(th, "chapter_reward")
    /\ DboutOnly(th, CASE w.kind = "gold" -> AddMoney(u, w.n, 0)
                       [] w.kind = "crystal" -> AddMoney(u, 0, w.n)
                       [] w.kind = "card" -> AddCard(u, w.n, 1)
                       [] w.kind = "exp" -> [u EXCEPT !.lv = q.a.lv, !.exp = q.a.exp]
                       [] OTHER -> u)

------------------------------------------------------------------------------
(* What the missions hear of it.                                           *)

\* win_mission_update(), levelup_mission_update(), fight_mission_update(), which
\* is stricter about who gives up, and rank_game_times_mission_update(), of
\* every game.
GameEvents(game, winner, hp, i, u, grown) ==
    LET foe == game.guest[3 - i]
        Event(cond, v) == IF cond THEN <<v>> ELSE <<>>
        quitter == hp >= FIGHT_FOLD_HERO_HP /\ i = 3 - winner
        fought == game.type \in SoloTypes \cup VsTypes /\ ~quitter
    IN Event(i = winner /\ game.type = "gate", <<"gate", 1, -foe, game.hero[i]>>)
       \o Event(i = winner /\ IsAi(foe), <<"ai", 1, -foe, game.hero[i]>>)
       \o Event(grown > 0, <<"level", u.lv, 0, 0>>)
       \o Event(fought, <<IF game.type \in SoloTypes THEN "fight_ai" ELSE "fight_vs", 1, 0, 0>>)
       \o Event(fought, <<"fight", 1, 0, 0>>)
       \o <<<<"rank_games", 1, 0, 0>>>>
       \o IF i = 1 THEN ChapterEvents(u) ELSE <<>>

\* Whose hero's missions count: the winner's, of the stage.
HeroesTold(game, winner, i, u, star) ==
    IF i = winner /\ game.type = "chapter" THEN Counted(u, game.hero[i], game.at, star) ELSE {}

------------------------------------------------------------------------------
\* How a game is over: the players and how they are left, hp as above, and of
\* a stage the stars and the reward.
Over(game, winner, hp, star, reward) ==
    [game |-> game, winner |-> winner, hp |-> hp, reward |-> reward,
     at |-> IF star > 0 /\ Online(Guest1(game)) THEN [c |-> game.at.c, s |-> game.at.s, star |-> star]
            ELSE NoStage]

\* The copy of player i as the steps of win_game() follow each other, what the
\* row changes by, and the requests for the missions.
Share(over, i) == Income(over.game, over.winner, over.hp, i)

ShareMissions(over, i, side, got, told, about) ==
    LET e == over.game.guest[i] hero == over.game.hero[i]
        left == IF about = {} THEN told ELSE CountHero(told, hero, about)
    IN [copy |-> left, side |-> side, signals |-> got.signals,
        missions |-> SaveMission(e, got, told) \o SaveHeroMission(e, left, hero, about)]

ShareTold(over, i, side, got, told) ==
    ShareMissions(over, i, side, got, told, HeroesTold(over.game, over.winner, i, told, over.at.star))

SharePaid(over, i, side, got) ==
    ShareTold(over, i, side, got,
              ChangeMission(got, GameEvents(over.game, over.winner, over.hp, i, got, side.lv)))

ShareGrown(over, i, side, v) == SharePaid(over, i, side, Paid(v, side, FirstRobot(over.game, over.winner, i)))

ShareStep(over, i, u, v) == ShareGrown(over, i, With(Share(over, i), [exp |-> v.exp - u.exp, lv |-> v.lv - u.lv]), v)

ShareFrom(over, i, u) == ShareStep(over, i, u, AddExp(u, Prize(over.game, over.winner, over.hp, i).exp))

\* The copy before: with the stage and the experience won with it.
Before(over, i) ==
    LET u == conn[over.game.guest[i]] IN
    IF i = 1 /\ over.at # NoStage THEN RewardedCopy(RefreshChapter(u, over.at), over.reward) ELSE u

ShareOf(over, i) ==
    IF Online(over.game.guest[i]) THEN ShareFrom(over, i, Before(over, i))
    ELSE [copy |-> <<>>, missions |-> <<>>,
          side |-> With(Share(over, i), [exp |-> Prize(over.game, over.winner, over.hp, i).exp, lv |-> 0])]

\* update_arena_data(): a winner against a clone takes the rank.
TakesRank(game, winner) == game.type = "arena" /\ winner = 1

\* The requests, in their order, of the connection by.
WinRequests(over, share, by) ==
    LET game == over.game
        e == Guest1(game)
        u == Before(over, 1)
        Finisher(cmd, g, a) == <<[NewRequest(cmd, g, a) EXCEPT !.by = by]>>
        Signals(i) == IF Online(game.guest[i])
                      THEN Finisher("update_signals", game.guest[i], [signals |-> share[i].signals]) ELSE <<>>
    IN (IF over.at = NoStage THEN <<>>
        ELSE AskChapter(e, conn[e], over.at)
             \o <<NewRequest("chapter_reward", e, [reward |-> over.reward, lv |-> u.lv, exp |-> u.exp])>>)
       \o Signals(1) \o Signals(2)
       \o Finisher("win", e, [side |-> <<share[1].side, share[2].side>>])
       \o (IF MovesGate(game, over.winner) THEN Finisher("update_gate_pos", e, [at |-> NextGate(game)]) ELSE <<>>)
       \o (IF game.type = "tower" THEN Finisher("tower_result", e, [at |-> game.at, won |-> over.winner = 1]) ELSE <<>>)
       \o share[1].missions \o share[2].missions
       \o (IF TakesRank(game, over.winner) THEN Finisher("arenaexc", e, [target |-> Unclone(game.guest[2])]) ELSE <<>>)

\* The players' rooms are gone; who is not there, has only his rows.
EndGame(over, share, requests) ==
    LET game == over.game
        Is(i, g) == game.guest[i] = g
        Sent(g) == \E k \in DOMAIN requests : requests[k].by = g
        Free(i, g) == IF conn[g].up THEN [share[i].copy EXCEPT !.game = NoGame, !.busy = @ \/ Sent(g)]
                      ELSE [conn[g] EXCEPT !.game = NoGame]
        Players == {g \in User : Is(1, g) \/ Is(2, g)}
    IN /\ EnqueueAny(requests)
       /\ conn' = [g \in User |-> IF Is(1, g) THEN Free(1, g) ELSE IF Is(2, g) THEN Free(2, g) ELSE conn[g]]
       /\ early' = (early \/ \E r \in Requests : At(r).by \in Players)
       /\ lapse' = (lapse \/ \E r \in Requests : At(r).cmd = "login" /\ At(r).e \in Players)
       /\ UNCHANGED <<scenario, now, db, fails>>

\* win_game() on the connection of by, which may be the Office.
WinGame(game, winner, hp, by) ==
    \E star \in IF game.type = "chapter" /\ winner = 1 THEN 1 .. 3 ELSE {0} :
    \E reward \in IF star > 0 THEN Design.chapter[game.at.c][game.at.s].rewards ELSE {<<>>} :
    \E over \in {Over(game, winner, hp, star, reward)} :
    \E share \in {<<ShareOf(over, 1), ShareOf(over, 2)>>} :
        EndGame(over, share, WinRequests(over, share, by))

\* A command of a player ends the game by its rules, game_fold() at once.
DbinPlay(e) ==
    /\ MaySend(e, "play") /\ conn[e].game # NoGame
    /\ \E winner \in {1, 2, 9} : WinGame(conn[e].game, winner, 0, e)
    /\ cmds' = cmds + 1

Side(game, e) == IF game.guest[1] = e THEN 1 ELSE 2

GameFold(e) ==
    /\ MaySend(e, "fold") /\ conn[e].game # NoGame
    /\ \E hp \in Design.fold_hp : WinGame(conn[e].game, 3 - Side(conn[e].game, e), hp, e)
    /\ cmds' = cmds + 1

\* auto_fold(), force_fold(): of who has been away too long, on a connection
\* of the players, if there is one.
AutoFold(e) ==
    /\ ~conn[e].up /\ conn[e].game # NoGame
    /\ LET game == conn[e].game
           there == SelectSeq(game.guest, Online)
       IN \E hp \in Design.fold_hp :
              WinGame(game, 3 - Side(game, e), hp, IF there = <<>> THEN Office ELSE Head(there))
    /\ UNCHANGED cmds

\* What is not shown, or only shown.
OutWin(th) == (Answered(th, "win") \/ Answered(th, "arenaexc")) /\ DboutAny(th, conn)
OutUpdateSignals(th) == Answered(th, "update_signals") /\ DboutAny(th, conn)
OutTowerResult(th) == Answered(th, "tower_result") /\ DboutAny(th, conn)
OutTowerBuff(th) == Answered(th, "tower_buff") /\ DboutAny(th, conn)
=============================================================================
