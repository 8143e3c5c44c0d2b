-------------------------------- MODULE Arena --------------------------------
(***************************************************************************)
(* The arena: a ranking where a user plays the deck of another one (a      *)
(* clone, who need not be there), and takes his rank when he wins; a rank  *)
(* is worth a reward each half day, and the games are a few a day.         *)
(*                                                                         *)
(* db.arena is the rank, 0 without a row; of db.status_arena last is the   *)
(* half day of the last reward.  Rank and times are not in the copy.       *)
(***************************************************************************)
EXTENDS Fights

Ranked == {g \in User : db.arena[g] > 0}
ArenaInfo(e) == With([rank |-> db.arena[e]], db.status_arena[e])

\* __get_arena_target_list(): those just above; further down, by percents.
ArenaTargetList(rank) ==
    IF rank <= Design.ARENA_GET_TARGET_BY_ORDER_RANK
    THEN {t \in 1 .. rank - 1 : t >= rank - Design.MAX_ARENA_TARGET}
    ELSE {(rank * p) \div 100 : p \in Design.range_percent_list}

IsArenaTarget(challenger, receiver) == receiver \in ArenaTargetList(challenger)

\* __check_arena_reward(): none yet in this half day.
CheckArenaReward(last) == last < now

------------------------------------------------------------------------------
(* Lists.                                                                  *)

DbinArenaTopList(e) == DbinWrite(e, "arenatop", <<>>)

\* in_arena_top_list(): without his own rank, if that fails.
InArenaTopList(r, ok) ==
    LET q == At(r)
        top == {g \in Ranked : Cardinality({h \in Ranked : db.arena[h] < db.arena[g]}) < Design.MAX_ARENA_TOP_LIST}
    IN
    \/ q.at = "new" /\ Goes(r, "list", IF ok THEN db.arena[q.e] ELSE 0) /\ UNCHANGED <<db, lapse>>
    \/ Read(r, ok, "list", TRUE, [rank |-> q.got, top |-> top], "good", "bad")

DbinArenaTarget(e) == DbinWrite(e, "arenatarget", <<>>)

\* in_arena_target(): the first has no target.
InArenaTarget(r, ok) ==
    LET q == At(r)
        targets == {g \in User : IsArenaTarget(q.got.rank, db.arena[g])}
    IN
    \/ Read(r, ok, "new", db.arena[q.e] > 0, ArenaInfo(q.e),
            IF db.arena[q.e] = 1 THEN "good" ELSE "list", "bad")
    \/ Read(r, ok, "list", targets # {}, targets, "good", "bad")

------------------------------------------------------------------------------
(* Games.                                                                  *)

DbinArenaGame(e) == \E t \in User : DbinWrite(e, "arenagame", [target |-> t])

\* get_two_deck(): of two users.
HasTwoDeck(e, t) == e # t /\ HasDeck(e) /\ HasDeck(t)
GetTwoDeck(e, t) == <<GetDeck(e), GetDeck(t)>>

\* __get_arena_data(): both must have a row.
HasArenaData(e, t) == {e, t} \subseteq Ranked
GetArenaData(e) == ArenaInfo(e)

\* in_arena_game(): the decks, then the ranks and times.
InArenaGame(r, ok) ==
    LET e == At(r).e t == At(r).a.target IN
    \/ Read(r, ok, "new", HasTwoDeck(e, t), GetTwoDeck(e, t), "arena", "bad")
    \/ Read(r, ok, "arena",
            /\ HasArenaData(e, t) /\ GetArenaData(e).times > 0
            /\ IsArenaTarget(GetArenaData(e).rank, GetArenaData(t).rank),
            At(r).got, "good", "bad")

\* __is_in_arena_game(): he plays, or his clone is played with.
IsInArenaGame(t) ==
    \E g \in User :
        conn[g].game.type = "arena" /\ (conn[g].game.guest[1] = t \/ conn[g].game.guest[2] = Clone(t))

ArenaTimes(e, count, gold, crystal) ==
    NewRequest("arenatimes", e, [n |-> count, gold |-> gold, crystal |-> crystal])

\* out_arena_game(): the game starts, and one of the day is taken.
OutArenaGame(th) ==
    LET q == Head(queue[th])
        game == Game("arena", 0, <<q.by, Clone(q.a.target)>>, <<GetHero(q.got[1]), GetHero(q.got[2])>>)
    IN /\ Answered(th, "arenagame")
       /\ IF conn[q.by].game # NoGame \/ IsInArenaGame(q.a.target) THEN DboutOnly(th, conn[q.by])
          ELSE Dbout(th, [conn EXCEPT ![q.by] = Play(@, game)], <<ArenaTimes(q.by, -1, 0, 0)>>)

\* dbin_arena_times(): more of them are bought.
DbinArenaTimes(e) ==
    /\ conn[e].crystal >= Design.ARENA_TIMES_BUY_CRYSTAL
    /\ DbinWriteAll(e, "arenatimes", conn[e],
           <<ArenaTimes(e, Design.ARENA_TIMES_BUY_COUNT, 0, -Design.ARENA_TIMES_BUY_CRYSTAL)>>)

\* in_update_arena_times(): none of the three below 0, or nothing.
InUpdateArenaTimes(r, ok) ==
    LET q == At(r) a == q.a IN
    Write(r, ok, "new", db.status_arena[q.e].times + a.n >= 0 /\ Affords(q.e, a.gold, a.crystal),
          [UpdateMoney(db, q.e, a.gold, a.crystal) EXCEPT !.status_arena[q.e].times = @ + a.n],
          "good", "bad")

OutUpdateArenaTimes(th) ==
    LET q == Head(queue[th]) IN
    Answered(th, "arenatimes") /\ DboutOnly(th, AddMoney(conn[q.by], q.a.gold, q.a.crystal))

\* Mutant: the winner takes the rank and leaves his own to nobody.
TakeArenaRank(rows, e, t) == [rows EXCEPT !.arena[e] = rows.arena[t]]

\* __exchange_arena_rank(): one UPDATE, of the ranks there are then.
ExchangeArenaRank(rows, e, t) ==
    [rows EXCEPT !.arena[e] = rows.arena[t], !.arena[t] = rows.arena[e]]

\* __get_arena_rank(): of both.
HasArenaRank(e, t) == e # t /\ {e, t} \subseteq Ranked
GetArenaRank(e) == db.arena[e]

\* in_exchange_arena_rank(), for a winner (update_arena_data): the ranks are
\* read and, unless his was the better one, exchanged.
InExchangeArenaRank(r, ok) ==
    LET q == At(r) e == q.e t == q.a.target IN
    \/ Read(r, ok, "new", HasArenaRank(e, t) /\ GetArenaRank(e) # GetArenaRank(t), <<>>,
            IF GetArenaRank(e) < GetArenaRank(t) THEN "good" ELSE "exchange", "bad")
    \/ Write(r, ok, "exchange", TRUE, ExchangeArenaRank(db, e, t), "good", "bad")

------------------------------------------------------------------------------
(* Rewards.                                                                *)

DbinGetArenaReward(e) == DbinWrite(e, "arenareward", <<>>)

\* By rank, the last for all that follow.
ArenaReward(rank) == Design.arena_reward[Clip(rank, Len(Design.arena_reward))]

\* __get_arena_rank_time()
HasArenaRankTime(e) == e \in Ranked
GetArenaRankTime(e) == ArenaInfo(e)

\* in_get_arena_reward(): the time it will write, then rank and last reward,
\* then the reward with that time.  The UPDATE does not ask for the old one.
\* Between the two looks at the clock a half day may begin; its reward is
\* given, and due again.
InGetArenaReward(r, ok) ==
    LET q == At(r) e == q.e got == q.got IN
    \/ ok /\ q.at = "new" /\ Goes(r, "rank", now) /\ UNCHANGED <<db, lapse>>
    \/ Read(r, ok, "rank", HasArenaRankTime(e) /\ CheckArenaReward(GetArenaRankTime(e).last),
            With([half |-> <<got, now>>], ArenaReward(GetArenaRankTime(e).rank)),
            "reward", "bad")
    \/ Write(r, ok, "reward", TRUE,
             Granted(Given([UpdateMoney(db, e, got.gold, got.crystal) EXCEPT !.status_arena[e].last = got.half[1]],
                           <<"arena", e, got.half>>),
                     MoneyWorth(got.gold, got.crystal)), "good", "bad")

------------------------------------------------------------------------------
(* The administration.                                                     *)

AdminInitArena(e) == DbinOffice("init_arena", e, <<>>)

AddPlayersArena(rows, list) ==
    [rows EXCEPT !.arena = [g \in User |-> IF g \notin ToSet(list) THEN @[g]
                               ELSE LastRank(rows) + CHOOSE i \in DOMAIN list : list[i] = g]]

\* in_init_arena(): those who have a deck and no row, get the next ranks.
InInitArena(r, ok) ==
    LET missing == {g \in User : HasDeck(g) /\ g \notin Ranked} IN
    Write(r, ok, "new", TRUE, AddPlayersArena(db, SetToSeq(missing)), "good", "bad")

AdminResetArenaTimes(e) == DbinOffice("reset_arena", e, <<>>)
InResetArenaTimes(r, ok) ==
    Write(r, ok, "new", TRUE,
          [db EXCEPT !.status_arena = [g \in User |-> [@[g] EXCEPT !.times = Design.ARENA_TIMES_STD]]],
          "good", "bad")

\* The answers that are only shown; a reward is not in the copy.
OutArenaShown(th) ==
    /\ \E cmd \in {"arenatop", "arenatarget", "arenareward", "init_arena", "reset_arena"} : Answered(th, cmd)
    /\ DboutAny(th, conn)
=============================================================================
