------------------------------ MODULE Campaign ------------------------------
(***************************************************************************)
(* The games a user plays alone against an opponent of the design: gates,  *)
(* the tower, solo games and the stages of the chapters; how each starts,  *)
(* what it costs (power, a tower run), and the rows and copies that say    *)
(* how far the user has come.  Games is about how they end.                *)
(*                                                                         *)
(* conn.game is g_user_room: what is played and with whom.  It stays while *)
(* the user is away.  Power is counted in whole points and is full again   *)
(* after half a day.                                                       *)
(***************************************************************************)
EXTENDS Heroes

MAX_AI_EID == 499
Ai(id) == -id    \* an eid up to MAX_AI_EID: of the design's opponents
IsAi(g) == -g \in 1 .. MAX_AI_EID
Clone(e) == -(MAX_AI_EID + e)    \* guest -eid: the deck of a user, without him
Unclone(g) == -g - MAX_AI_EID
NoGame == [type |-> "none"]

\* guest[0] and guest[1], the tower's floor or the stage, and their heroes.
Game(type, at, guest, hero) == [type |-> type, at |-> at, guest |-> guest, hero |-> hero]
Alone(type, at, e, id, deck) == Game(type, at, <<e, Ai(id)>>, <<GetHero(deck), NoOne>>)

\* A user with a room gets no other.
Play(u, game) == IF u.game = NoGame THEN [u EXCEPT !.game = game] ELSE u

\* get_deck()
HasDeck(e) == db.deck[e].list # NoDeck
GetDeck(e) == RowToDeck(db.deck[e].list)

------------------------------------------------------------------------------
(* Power: SELECT, then UPDATE, whose failure is overwritten by the result. *)

PowerNow(e) ==
    IF db.power[e].at < now /\ db.power[e].left < Design.MAX_USER_POWER THEN Design.MAX_USER_POWER
    ELSE db.power[e].left

\* set_power(): with the time it is counted from.
SetPower(e, power) == [db EXCEPT !.power[e] = [left |-> power, at |-> now]]

\* update_power()
UpdatePower(r, ok) ==
    LET q == At(r) IN
    \/ Read(r, ok, "new", PowerNow(q.e) >= q.a.power, PowerNow(q.e) - q.a.power, "power", "bad")
    \/ Try(r, ok, "power", TRUE, SetPower(q.e, q.got), "deck")

\* Then the deck the game is played with.
Powered(r, ok) ==
    UpdatePower(r, ok) \/ Read(r, ok, "deck", HasDeck(At(r).e), GetDeck(At(r).e), "good", "broke")
InGate(r, ok) == Powered(r, ok)
InChapter(r, ok) == Powered(r, ok)

------------------------------------------------------------------------------
(* Gates, one after another.                                               *)

DbinGate(e) ==
    \E g \in DOMAIN Design.gate :
        /\ conn[e].game = NoGame /\ g <= conn[e].gate_pos
        /\ DbinWrite(e, "gate", [at |-> g, power |-> Design.gate[g].power])

OutGate(th) ==
    LET q == Head(queue[th]) IN
    Answered(th, "gate") /\ DboutOnly(th, Play(conn[q.by], Alone("gate", 0, q.by, q.a.at, q.got)))

\* update_gate_pos(): after a game won, unless the copy is further.
NextGate(game) == 1 - game.guest[2]
MovesGate(game, winner) ==
    LET u == conn[game.guest[1]] IN
    /\ game.type = "gate" /\ winner = 1 /\ NextGate(game) \in DOMAIN Design.gate
    /\ ~(u.up /\ u.gate_pos > NextGate(game))

InUpdateGatePos(r, ok) ==
    LET q == At(r) IN
    Write(r, ok, "new", TRUE,
          [db EXCEPT !.gate_pos[q.e] = IF @ < q.a.at THEN q.a.at ELSE @], "good", "broke")

\* out_update_gate_pos(): whoever hears it, the user's connection is looked up.
OutUpdateGatePos(th) ==
    LET q == Head(queue[th]) IN
    /\ Answered(th, "update_gate_pos")
    /\ DboutAny(th, IF conn[q.e].up /\ conn[q.e].gate_pos < q.a.at
                    THEN [conn EXCEPT ![q.e].gate_pos = q.a.at] ELSE conn)

------------------------------------------------------------------------------
(* The tower: a row while a user climbs, with what he has gained on the    *)
(* way; evil_status has the runs left and how high he ever came.           *)

NoTower == [on |-> FALSE, pos |-> 0, res |-> 0, energy |-> 0, buff |-> 0]

DbinTower(e) ==
    \E i \in 1 .. Design.tower_height :
        conn[e].game = NoGame /\ DbinWrite(e, "tower", [at |-> i])

\* get_status_tower(): runs below 0 are an error; get_evil_tower(): the row, if
\* there is one.
GetStatusTower(e) == db.status_tower[e]
StatusTowerIsGood(e) == GetStatusTower(e).pos >= 0 /\ GetStatusTower(e).times >= 0
GetEvilTower(e) == db.tower[e]

\* replace_evil_tower(): with the deck, which is read for it.
ReplaceTower(r, ok, row, then, no) ==
    LET e == At(r).e IN
    \/ Read(r, ok, "deck", HasDeck(e), [At(r).got EXCEPT !.deck = GetDeck(e)], "replace", no)
    \/ Write(r, ok, "replace", TRUE, [db EXCEPT !.tower[e] = row], then, no)

\* update_status_tower(): what was read, changed.
UpdateStatusTower(e, pos, times) ==
    [db EXCEPT !.status_tower[e] = [pos |-> pos, times |-> times]]

\* in_tower(): who has no row spends a run, and goes on from the ground.
InTower(r, ok) ==
    LET q == At(r) got == q.got row == GetEvilTower(q.e) IN
    \/ Read(r, ok, "new", StatusTowerIsGood(q.e), GetStatusTower(q.e), "row", "bad")
    \/ Read(r, ok, "row", q.a.at = row.pos + 1 /\ (row.on \/ got.times > 0),
            [row |-> row, status |-> got, deck |-> NoDeck], IF row.on THEN "deck" ELSE "times", "bad")
    \/ Write(r, ok, "times", TRUE,
             UpdateStatusTower(q.e, got.status.pos, got.status.times - 1), "deck", "bad")
    \/ ReplaceTower(r, ok, [got.row EXCEPT !.on = TRUE], "good",
                    IF q.at \in {"deck", "replace"} /\ got.row.on THEN "bad" ELSE "broke")

OutTower(th) ==
    LET q == Head(queue[th]) IN
    Answered(th, "tower") /\ DboutOnly(th, Play(conn[q.by], Alone("tower", q.a.at, q.by, 1, q.got.deck)))

\* dbin_tower_buff(): more resources or energy at the next floors.
DbinTowerBuff(e) ==
    \E buff \in {[res |-> 0, energy |-> 0], [res |-> 1, energy |-> 0], [res |-> 0, energy |-> 1]} :
        conn[e].game = NoGame /\ DbinWrite(e, "tower_buff", buff)

\* in_tower_buff(): one when some floors are done.
InTowerBuff(r, ok) ==
    LET q == At(r) a == q.a got == q.got row == GetEvilTower(q.e) IN
    \/ Read(r, ok, "new",
            /\ row.buff = 1
            /\ row.res + a.res <= Design.tower_buff_max /\ row.energy + a.energy <= Design.tower_buff_max,
            [row |-> row, deck |-> NoDeck], "deck", "bad")
    \/ ReplaceTower(r, ok, [got.row EXCEPT !.res = @ + a.res, !.energy = @ + a.energy, !.buff = 0],
                    "good", "bad")

\* in_tower_result(): who has lost loses the row, who has won climbs.
InTowerResult(r, ok) ==
    LET q == At(r) a == q.a got == q.got row == GetEvilTower(q.e)
        pos == got.row.pos + 1
    IN
    \/ ~a.won /\ Write(r, ok, "new", row.on, [db EXCEPT !.tower[q.e] = NoTower], "good", "bad")
    \/ /\ a.won
       /\ Read(r, ok, "new", ~row.on \/ row.pos + 1 = a.at, [row |-> row, status |-> <<>>, deck |-> NoDeck],
               IF row.on THEN "deck" ELSE "good", "bad")
    \/ ReplaceTower(r, ok, [got.row EXCEPT !.pos = pos, !.buff = IF pos % Design.tower_step = 0 THEN 1 ELSE @],
                    "status", "bad")
    \/ Read(r, ok, "status", StatusTowerIsGood(q.e), [got EXCEPT !.status = GetStatusTower(q.e)], "height", "broke")
    \/ Write(r, ok, "height", TRUE,
             UpdateStatusTower(q.e, got.status.pos + 1, got.status.times), "good", "broke")

------------------------------------------------------------------------------
(* Solo games.                                                             *)

\* dbin_solo(): with the deck in the copy, at once.
DbinSolo(e) ==
    /\ conn[e].game = NoGame /\ conn[e].deck # NoDeck
    /\ DbinWriteAll(e, "solo", Play(conn[e], Alone("solo", 0, e, 1, conn[e].deck)), <<>>)

DbinSoloPlus(e) == conn[e].game = NoGame /\ DbinWrite(e, "solo_plus", <<>>)
InSolo(r, ok) == Read(r, ok, "new", HasDeck(At(r).e), GetDeck(At(r).e), "good", "bad")

\* create_solo_plus_room(), with the deck read, which is the copy's from now.
OutSoloPlus(th) ==
    LET q == Head(queue[th]) IN
    /\ Answered(th, "solo_plus")
    /\ DboutOnly(th, IF conn[q.by].game # NoGame THEN conn[q.by]
                     ELSE Play([conn[q.by] EXCEPT !.deck = q.got], Alone("solo_plus", 0, q.by, 1, q.got)))
=============================================================================
