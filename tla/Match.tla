-------------------------------- MODULE Match --------------------------------
(***************************************************************************)
(* One tournament on the server: applications, rounds by the clock or by   *)
(* the operator, the games of a round in rooms of their own, forced ends,  *)
(* the rows the database keeps, and a restart from them.                   *)
(*                                                                         *)
(* One thread runs the server, so a step is one handler, one pass of       *)
(* auto_match_round, or one statement of the worker.  In between are games *)
(* that wait for the decks of their players ("game" requests), players     *)
(* that leave a room that waits, and rounds that end meanwhile.            *)
(***************************************************************************)
EXTENDS Bracket

CONSTANTS
    Human, Ai,       \* eids of users and of the server's players
    RoomId,          \* rooms of the channel of tournaments
    Bounds           \* how much may happen in a run: see Bound

\* upset: games not won by the first player.  cancel, leave, fail, crash:
\* applications taken back, players leaving a room that waits, "game" requests
\* refused, restarts.  late: rounds that end (or tournaments deleted) while a
\* "game" request is on its way.  all: how many of these together.  ahead:
\* requests the worker may be behind by.
Bound == {"upset", "cancel", "leave", "fail", "crash", "late", "all", "ahead"}

ASSUME MatchAssumption ==
    /\ Human \subseteq {e \in Nat : e > MaxAiEid} /\ Ai \subseteq 1 .. MaxAiEid
    /\ RoomId \subseteq Nat \ {0}
    /\ Bounds \in [Bound -> Nat]

VARIABLES
    m,         \* g_match_list: the tournament
    room,      \* rooms: state, guests, start_side
    seat,      \* g_user_room of the users, 0 without a room
    games,     \* "game" requests on their way
    wire,      \* requests about the tournament the worker has not done
    db,        \* evil_match and evil_match_player
    torn,      \* a restart lost what belonged together (history)
    count      \* how much has happened

vars == <<m, room, seat, games, wire, db, torn, count>>

NoRoom == 0
FreeRoom == [st |-> "free", guest |-> <<>>, start |-> 1]

World == [m |-> m, room |-> room, seat |-> seat, games |-> games, wire |-> wire]
Become(w) == m' = w.m /\ room' = w.room /\ seat' = w.seat /\ games' = w.games /\ wire' = w.wire

Boot == [m |-> NoMatch, room |-> [r \in RoomId |-> FreeRoom],
         seat |-> [e \in Human |-> NoRoom], games |-> <<>>, wire |-> <<>>]

Init ==
    /\ m = Boot.m /\ room = Boot.room /\ seat = Boot.seat /\ games = Boot.games /\ wire = Boot.wire
    /\ db = NoMatch
    /\ torn = FALSE
    /\ count = [b \in Bound |-> 0]

\* The worker follows, some requests behind.
Room4Work == Len(wire) <= Bounds["ahead"]
More(b) ==
    /\ count[b] < Bounds[b] /\ count["all"] < Bounds["all"]
    /\ count' = [count EXCEPT ![b] = @ + 1, !["all"] = @ + 1]

------------------------------------------------------------------------------
(* Requests.  A row goes by the eid it has, not by the eid it gets.  What  *)
(* a request lists: statements, or of "team" and "eli" the eids in order.  *)

Statement(old, p, rec) == [old |-> old, at |-> p, rec |-> rec]
Request(cmd, who, list) ==
    [cmd |-> cmd, who |-> who, round |-> 0, status |-> "", list |-> list]
UpdateMatch(round, status) == [Request("match", {}, <<>>) EXCEPT !.round = round, !.status = status]

Send(w, q) == [w EXCEPT !.wire = Append(@, q)]

\* The row of the next round of a player who has one: it goes by the fake eid.
NextRow(n, p) ==
    LET e == n.at[p].eid
        last == LastRound(n, e)
        flag == IF n.at[p].pt >= 5 THEN Won ELSE Lost
        old == IF p \in TeamPlace THEN Fake(flag, n.at[p].tid, RoundOf[p]) ELSE -1
    IN  IF RoundOf[last] = RoundOf[p] THEN <<>> ELSE <<Statement(old, last, n.at[last])>>

\* save_match_result: the two rows as they are now, and the row of the next
\* round of each player who has one.  Of a player without a place nothing is
\* written.
SaveMatchResult(w, p, q) ==
    LET own(s) == <<Statement(w.m.at[s].eid, s, w.m.at[s])>> IN
    IF Nowhere \in {p, q} \/ Nowhere \in {LastRound(w.m, w.m.at[p].eid), LastRound(w.m, w.m.at[q].eid)}
    THEN w
    ELSE Send(w, Request("rows", {}, own(p) \o own(q) \o NextRow(w.m, p) \o NextRow(w.m, q)))

------------------------------------------------------------------------------
(* Rooms.                                                                  *)

FreeRooms(w) == {r \in RoomId : w.room[r].st = "free"}

\* create_match_room, and the request for the decks: a user sits in front.
\* do_room_add_eid does not ask where the user sits now.
CreateMatchRoom(w, e1, e2) ==
    LET r == CHOOSE f \in FreeRooms(w) : \A g \in FreeRooms(w) : f <= g
        guest == IF IsAi(e1) THEN <<e2, e1>> ELSE <<e1, e2>>
    IN  [w EXCEPT !.room[r] = [st |-> "room", guest |-> guest, start |-> 1],
                  !.seat = [e \in Human |-> IF e \in {e1, e2} THEN r ELSE w.seat[e]],
                  !.games = Append(@, guest)]

\* Mutant: only the guest in front is sent away.
FreeForFirst(w, r) ==
    [w EXCEPT !.room[r] = FreeRoom,
              !.seat = [e \in Human |-> IF w.room[r].guest # <<>> /\ e = w.room[r].guest[1] THEN NoRoom ELSE w.seat[e]]]

\* free_room takes g_user_room from every guest, wherever it points to.
FreeMatchRoom(w, r) ==
    [w EXCEPT !.room[r] = FreeRoom,
              !.seat = [e \in Human |-> IF e \in ToSet(w.room[r].guest) THEN NoRoom ELSE w.seat[e]]]

\* room_clean and do_room_del: a room without users is given back.
LeaveMatchRoom(w, e) ==
    LET r == w.seat[e]
        rest == SelectSeq(w.room[r].guest, LAMBDA g : g # e)
    IN  IF \A g \in ToSet(rest) : IsAi(g) THEN FreeMatchRoom(w, r)
        ELSE [w EXCEPT !.room[r].guest = rest, !.seat[e] = NoRoom]

\* create_match_game: the pair plays on in the same round.
PlaysOn(n, e1, e2) ==
    LET p == LastRound(n, e1)  q == LastRound(n, e2) IN
    /\ n.status # "none" /\ Nowhere \notin {p, q}
    /\ RoundOf[p] = n.round /\ RoundOf[q] = n.round /\ ~Decided(n, p, q)
    /\ IF n.round <= MaxTeamRound THEN n.at[p].tid = n.at[q].tid ELSE Opponents(n, p, q)
CreateMatchGame(w, e1, e2) == IF PlaysOn(w.m, e1, e2) THEN CreateMatchRoom(w, e1, e2) ELSE w

\* update_match_game_data: saves the rows whether the result was taken or not.
UpdateMatchGameData(w, e1, e2, winner, upper) ==
    LET p == LastRound(w.m, e1)  q == LastRound(w.m, e2) IN
    IF w.m.status = "none" THEN w
    ELSE SaveMatchResult([w EXCEPT !.m = MatchResult(w.m, e1, e2, winner, upper)], p, q)

\* win_game: the result, the room, and unless the round ends the next game.
WinGame(w, r, winner, goOn) ==
    LET e1 == w.room[r].guest[1]
        e2 == w.room[r].guest[2]
        done == FreeMatchRoom(UpdateMatchGameData(w, e1, e2, winner, w.room[r].start), r)
    IN  IF goOn THEN CreateMatchGame(done, e1, e2) ELSE done

\* force_leave_room: who waits leaves, who plays gives up.
ForceLeaveRoom(w, e) ==
    LET r == w.seat[e] IN
    IF IsAi(e) THEN w
    ELSE IF r = NoRoom THEN w
    ELSE IF w.room[r].st = "room" THEN LeaveMatchRoom(w, e)
    ELSE WinGame(w, r, IF w.room[r].guest[1] = e THEN 2 ELSE 1, TRUE)

------------------------------------------------------------------------------
(* Applying, starting the tournament, taking it back.                      *)

AdminAddMatch ==
    /\ m.status = "none" /\ db.status = "none" /\ wire = <<>>
    /\ Become(Send([World EXCEPT !.m.status = "ready"], Request("add", {}, <<>>)))
    /\ UNCHANGED <<db, torn, count>>

\* dbin_match_apply, dbin_match_cancel
DbinMatchApply(e) ==
    /\ m.status = "ready" /\ e \notin m.who /\ Cardinality(m.who) < MaxPlayer
    /\ Become(Send([World EXCEPT !.m.who = @ \cup {e}], Request("apply", {e}, <<>>)))
    /\ UNCHANGED <<db, torn, count>>

DbinMatchCancel(e) ==
    /\ m.status = "ready" /\ e \in m.who
    /\ Become(Send([World EXCEPT !.m.who = @ \ {e}], Request("cancel", {e}, <<>>)))
    /\ More("cancel")
    /\ UNCHANGED <<db, torn>>

\* match_init: the server's players with the largest eids fill up.  The worker
\* is told who plays in round 1, in order.
MatchInit(order) ==
    LET lack == MaxPlayer - Cardinality(m.who)
        fill == {a \in Ai : Cardinality({b \in Ai : b > a}) < lack}
        players == Descending(m.who \cup fill)
        w == IF lack = 0 THEN World ELSE Send(World, Request("apply_ai", fill, <<>>))
        n == TeamInit([m EXCEPT !.who = @ \cup fill], [i \in 1 .. MaxPlayer |-> players[order[i]]])
    IN
    /\ m.status = "ready" /\ lack <= Cardinality(Ai)
    /\ Become(Send([w EXCEPT !.m = n],
                   Request("team", {}, [i \in 1 .. MaxPlayer |-> n.at[i].eid])))
    /\ UNCHANGED <<db, torn, count>>

\* admin_delete_match: bzero of the entry, its rooms stay.
AdminDeleteMatch ==
    /\ m.status \notin {"none", "round_start"}
    /\ Become(Send([World EXCEPT !.m = NoMatch], UpdateMatch(m.round, "delete")))
    /\ IF games = <<>> THEN UNCHANGED count ELSE More("late")
    /\ UNCHANGED <<db, torn>>

------------------------------------------------------------------------------
(* Rounds (match_round).                                                   *)

\* A forced fold in a room whose game could not be started reads a Lua state
\* that is not there: that end of the server is a Restart.
Alive(pairs) ==
    \A pq \in pairs, e \in Human :
      e \in {m.at[pq[1]].eid, m.at[pq[2]].eid} /\ seat[e] # NoRoom => room[seat[e]].st # "dead"

\* Two of the server's players: the larger eid wins twice.
AiResult(w, p, q) ==
    LET a == w.m.at[p].eid  b == w.m.at[q].eid
        top == IF a > b THEN a ELSE b
        low == IF a > b THEN b ELSE a
        n == MatchResult(MatchResult(w.m, top, low, 1, 1), top, low, 1, 2)
    IN  SaveMatchResult([w EXCEPT !.m = n], p, q)

\* The points were looked at before the users left their rooms.
StartPair(pq, w) ==
    LET p == pq[1]  q == pq[2]
        e1 == w.m.at[p].eid
        e2 == w.m.at[q].eid
    IN  IF IsAi(e1) /\ IsAi(e2) THEN AiResult(w, p, q)
        ELSE CreateMatchRoom(ForceLeaveRoom(ForceLeaveRoom(w, e1), e2), e1, e2)

\* admin_team_round_start, admin_eli_round_start
RoundStart ==
    LET round == NextRound(m)
        pairs == Undecided(m, round)
        w == FoldSet(StartPair, [World EXCEPT !.m.round = round, !.m.status = "round_start"], pairs)
    IN
    /\ m.status = "round_end" /\ round > 0
    /\ Alive(pairs)
    /\ Cardinality(FreeRooms(World)) >= Cardinality(Human)
    /\ Become(Send(w, UpdateMatch(round, "round_start")))
    /\ UNCHANGED <<db, torn, count>>

\* force_end_match_round: a draw for the running game, then wins for who has
\* more points until one has five.
FakeWin(w, p, q) ==
    LET first == w.m.at[p].pt >= w.m.at[q].pt
        win == w.m.at[IF first THEN p ELSE q].eid
        lose == w.m.at[IF first THEN q ELSE p].eid
        once == MatchResult(w.m, win, lose, 1, 1)
        n == IF Decided(once, p, q) THEN once ELSE MatchResult(once, win, lose, 1, 1)
    IN  IF Decided(w.m, p, q) THEN w ELSE SaveMatchResult([w EXCEPT !.m = n], p, q)

SeatOf(w, e) == IF IsAi(e) THEN NoRoom ELSE w.seat[e]
ForceEndPair(pq, w) ==
    LET p == pq[1]  q == pq[2]
        e1 == w.m.at[p].eid
        e2 == w.m.at[q].eid
        r == IF SeatOf(w, e1) # NoRoom THEN SeatOf(w, e1) ELSE SeatOf(w, e2)
    IN  IF \/ r = NoRoom \/ (IsAi(e1) /\ IsAi(e2))
           \/ ~IsAi(e1) /\ ~IsAi(e2) /\ SeatOf(w, e1) # SeatOf(w, e2)
           \/ w.room[r].st # "game"
        THEN w
        ELSE FakeWin(WinGame(w, r, 9, FALSE), p, q)

\* admin_team_round_end and match_eli_init, admin_eli_round_end
AfterRound(w, order) ==
    LET over == w.m.round > MaxTeamRound /\ w.m.at[Tree(1)].eid > 0
        status == IF over THEN "finished" ELSE "round_end"
        ended == Send([w EXCEPT !.m.status = status], UpdateMatch(w.m.round, status))
        n == EliInit(ended.m, order)
    IN  IF w.m.round # MaxTeamRound THEN ended
        ELSE Send([ended EXCEPT !.m = n], Request("eli", {},
               [i \in 1 .. MaxPlayer \div 2 |-> n.at[Tree(MaxPlayer - i)].eid]))

RoundEnd(order) ==
    LET pairs == Undecided(m, m.round) IN
    /\ m.status = "round_start"
    /\ Alive(pairs)
    /\ Become(AfterRound(FoldSet(ForceEndPair, World, pairs), order))
    /\ IF games = <<>> THEN UNCHANGED count ELSE More("late")
    /\ UNCHANGED <<db, torn>>

------------------------------------------------------------------------------
(* Games.                                                                  *)

\* Who begins alternates with the games, starting with the smaller eid.
Upper(n, e1, e2) ==
    LET p == LastRound(n, e1)  q == LastRound(n, e2)
        played == (IF n.at[p].games > n.at[q].games THEN n.at[p].games ELSE n.at[q].games)
                  + (IF e1 < e2 THEN 0 ELSE 1)
    IN  (played % 2) + 1

\* __update_match_game_data: are the two still to play?
MayStart(n, e1, e2) ==
    LET p == LastRound(n, e1)  q == LastRound(n, e2) IN
    /\ n.status # "none" /\ Nowhere \notin {p, q} /\ RoundOf[p] = RoundOf[q]
    /\ IF n.round <= MaxTeamRound THEN n.at[p].tid = n.at[q].tid ELSE Opponents(n, p, q)

\* out_game: the room the users sit in by now.  A pair that may not start
\* leaves the room in a game without a game.
OutGame(i) ==
    LET e1 == games[i][1]
        e2 == games[i][2]
        r == IF SeatOf(World, e1) # NoRoom THEN SeatOf(World, e1) ELSE SeatOf(World, e2)
        found == r # NoRoom /\ (~IsAi(e1) /\ ~IsAi(e2) => seat[e1] = seat[e2])
        st == IF MayStart(m, e1, e2) THEN "game" ELSE "dead"
    IN
    /\ games' = RemoveAt(games, i)
    /\ IF found
       THEN room' = [room EXCEPT ![r].st = st, ![r].start = IF st = "game" THEN Upper(m, e1, e2) ELSE @]
       ELSE UNCHANGED room
    /\ UNCHANGED <<m, seat, wire, db, torn, count>>

\* The worker finds no deck, or the database fails.
OutGameError(i) ==
    /\ More("fail")
    /\ games' = RemoveAt(games, i)
    /\ UNCHANGED <<m, room, seat, wire, db, torn>>

\* A game ends: by its rules, a fold, a timeout of an absent player.
GameOver(r, winner) ==
    /\ room[r].st = "game" /\ Len(room[r].guest) = 2
    /\ IF winner = 1 THEN UNCHANGED count ELSE More("upset")
    /\ Become(WinGame(World, r, winner, TRUE))
    /\ UNCHANGED <<db, torn>>

\* room_leave: players may go while the room waits for its decks.
RoomLeave(e) ==
    /\ seat[e] # NoRoom /\ room[seat[e]].st = "room"
    /\ More("leave")
    /\ Become(LeaveMatchRoom(World, e))
    /\ UNCHANGED <<db, torn>>

------------------------------------------------------------------------------
(* The worker, and a restart.                                              *)

\* update_match_player: the statement must change exactly one row.
RowsOf(d, s) ==
    {p \in InRound[RoundOf[s.at]] :
       TeamOf[p] = TeamOf[s.at] /\ d.at[p].eid = s.old /\ d.at[p].tid = s.rec.tid}
Written(d, s) == [d EXCEPT !.at = [p \in Place |-> IF p \in RowsOf(d, s) THEN s.rec ELSE d.at[p]]]
Affected(d, s) == Cardinality({p \in RowsOf(d, s) : d.at[p] # s.rec})
\* in_update_match_player: the first statement that fails ends the request.
WriteRows(d, list) ==
    FoldLeft(LAMBDA t, s : IF ~t.ok THEN t ELSE [d |-> Written(t.d, s), ok |-> Affected(t.d, s) = 1],
             [d |-> d, ok |-> TRUE], list).d

InAddMatch(d, q) == [d EXCEPT !.status = "ready"]
\* A row for the user, or in one INSERT, all or none, for the server's players.
InMatchApply(d, q) == [d EXCEPT !.who = @ \cup q.who]
InMatchApplyAi(d, q) == IF q.who \cap d.who = {} THEN [d EXCEPT !.who = @ \cup q.who] ELSE d
InMatchCancel(d, q) == [d EXCEPT !.who = @ \ q.who]

\* Mutant: the loser of the winners' pair is expected at the winner's table.
FakeTeamRowTable(round, k) ==
    IF round = 2 THEN <<Record(-201, 1), Record(-211, 1), Record(-101, 0), Record(-111, 0)>>[k]
    ELSE <<Record(-202, 0), Record(-112, 1), Record(-212, 1), Record(0, 1)>>[k]

\* __query_insert_fake_team_player: the rows of a team in the rounds 2 and 3.
FakeTeamRow(round, k) ==
    IF round = 2 THEN <<Record(-201, 1), Record(-211, 1), Record(-101, 0), Record(-111, 0)>>[k]
    ELSE <<Record(-202, 0), Record(-112, 0), Record(-212, 1), Record(0, 1)>>[k]

\* in_match_team_init: each four eids of the list are a team, up to the first
\* whose players do not all have a row; then the rows to come, and the status.
InMatchTeamInit(d, q) ==
    LET four(t) == {q.list[p] : p \in {i \in InRound[1] : TeamOf[i] = t}}
        told(p) == \A t \in 1 .. TeamOf[p] : four(t) \subseteq d.who
        all == \A t \in 1 .. MaxTeam : four(t) \subseteq d.who
        at == [p \in Place |->
                 CASE p \in InRound[1] /\ told(p) -> Record(q.list[p], (p - 1) % 2)
                   [] p \in InRound[2] \cup InRound[3] /\ all ->
                        FakeTeamRow(RoundOf[p], ((p - 1) % MaxTeamPlayer) + 1)
                   [] OTHER -> d.at[p]]
    IN  IF all THEN [d EXCEPT !.at = at, !.status = "round_end", !.round = 0] ELSE [d EXCEPT !.at = at]
InUpdateMatch(d, q) == [d EXCEPT !.round = q.round, !.status = q.status]
InUpdateMatchPlayer(d, q) == WriteRows(d, q.list)

\* in_match_eli_init: the i-th eid of the list plays round 4 at tid 2n - i; the
\* rows of the later rounds wait.  The INSERT of an eid -1 looks for its icon
\* and name and fails.
InMatchEliInit(d, q) ==
    LET n == Len(q.list)
        gap == SelectInSeq(q.list, LAMBDA e : e = -1)
        at(p) ==
            LET i == 2 * n - Tree(p) IN
            CASE i \in 1 .. n /\ (gap = 0 \/ i < gap) -> Record(q.list[i], 2 * n - i)
              [] i \notin 1 .. n /\ gap = 0 -> Record(-1, Tree(p))
              [] OTHER -> d.at[p]
    IN  [d EXCEPT !.at = [p \in Place |-> IF p \in EliPlace THEN at(p) ELSE d.at[p]]]

Done(d, q) ==
    CASE q.cmd = "add"    -> InAddMatch(d, q)
      [] q.cmd = "apply"  -> InMatchApply(d, q)
      [] q.cmd = "apply_ai" -> InMatchApplyAi(d, q)
      [] q.cmd = "cancel" -> InMatchCancel(d, q)
      [] q.cmd = "team"   -> InMatchTeamInit(d, q)
      [] q.cmd = "match"  -> InUpdateMatch(d, q)
      [] q.cmd = "rows"   -> InUpdateMatchPlayer(d, q)
      [] q.cmd = "eli"    -> InMatchEliInit(d, q)

DbStep ==
    /\ wire # <<>>
    /\ db' = Done(db, Head(wire)) /\ wire' = Tail(wire)
    /\ UNCHANGED <<m, room, seat, games, torn, count>>

\* load_db_match: only tournaments that have begun; a round that was under
\* way is played again.  The rows come by round, team and tid and fill the
\* lists in that order: a place may move within its team, which changes only
\* who of a pair is named first.
Loaded(d) ==
    CASE d.status \notin {"round_start", "round_end"} -> NoMatch
      [] d.status = "round_start" -> [d EXCEPT !.status = "round_end", !.round = @ - 1]
      [] OTHER -> d

\* Of the rows of a result some may be written when the server stops, and of
\* the end of round 3 the status but not the tree.
Restart ==
    \E k \in 0 .. 3 :
      LET q == Head(wire)
          partly == wire # <<>> /\ q.cmd = "rows" /\ k > 0
          d == IF partly THEN WriteRows(db, SubSeq(q.list, 1, k)) ELSE db
      IN
      /\ More("crash")
      /\ k > 0 => partly /\ k < Len(q.list)
      /\ Become([Boot EXCEPT !.m = Loaded(d)])
      /\ db' = d
      /\ torn' = (torn \/ partly \/ (wire # <<>> /\ q.cmd = "eli"))

------------------------------------------------------------------------------

Setup ==
    \/ AdminAddMatch
    \/ \E e \in Human : DbinMatchApply(e) \/ DbinMatchCancel(e)
    \/ \E order \in Shuffles : MatchInit(order)
    \/ AdminDeleteMatch
Play ==
    \/ \E i \in 1 .. Len(games) : OutGame(i) \/ OutGameError(i)
    \/ \E r \in RoomId, winner \in {1, 2, 9} : GameOver(r, winner)
    \/ \E e \in Human : RoomLeave(e)

Next ==
    \/ Room4Work /\ Setup
    \/ Room4Work /\ RoundStart
    \/ Room4Work /\ \E order \in EliShuffles : RoundEnd(order)
    \/ Room4Work /\ Play
    \/ DbStep
    \/ Restart

Spec == Init /\ [][Next]_vars

------------------------------------------------------------------------------
(* Properties.                                                             *)

Begun == m.status \notin {"none", "ready"}

\* A pair of round 3 was not decided when the round ended.
Lapsed == m.round = MaxTeamRound /\ m.status = "round_end" /\ Undecided(m, MaxTeamRound) # {}

\* Who leaves a pair of a team as its winner or loser, or the fake eid.
Leaves(team, round, tid, flag) ==
    LET pair == {p \in InRound[round] : TeamOf[p] = team /\ m.at[p].tid = tid /\ m.at[p].eid # 0}
        out == {p \in pair : (m.at[p].pt >= 5) <=> (flag = Won)}
    IN  IF \E p \in pair : m.at[p].pt >= 5
        THEN {m.at[p].eid : p \in out} ELSE {Fake(flag, tid, round)}
Takes(team, round, tid) ==
    {m.at[p].eid : p \in {q \in InRound[round] : TeamOf[q] = team /\ m.at[q].tid = tid}} \ {0}

TeamSound(team) ==
    /\ Takes(team, 2, 1) = Leaves(team, 1, 0, Won) \cup Leaves(team, 1, 1, Won)
    /\ Takes(team, 2, 0) = Leaves(team, 1, 0, Lost) \cup Leaves(team, 1, 1, Lost)
    /\ Takes(team, 3, 0) = Leaves(team, 2, 1, Lost) \cup Leaves(team, 2, 0, Won)
    /\ Takes(team, 3, 1) = Leaves(team, 2, 1, Won)

Slot(tid) == m.at[Tree(tid)]
Players(records) == {rec.eid : rec \in {r \in records : r.eid > 0}}
EliSound ==
    /\ Players({Slot(t) : t \in MaxPlayer \div 2 .. MaxPlayer - 1}) = Players(ToSet(Qualified(m)))
    /\ \A t \in 1 .. MaxPlayer \div 2 - 1 :
         Players({Slot(t)}) = Players({rec \in {Slot(2 * t), Slot(2 * t + 1)} : rec.pt >= 5})

\* Whoever plays in a round has come there by winning or losing the pair the
\* bracket says, nobody is left out or plays twice, and no pair has two
\* winners: whatever games run late, rounds are forced to end or played
\* again, and after a restart from the rows.
BracketSound ==
    Begun /\ ~torn =>
      /\ \A t \in 1 .. MaxTeam : TeamSound(t)
      /\ m.round > MaxTeamRound \/ (m.round = MaxTeamRound /\ m.status = "round_end") => EliSound
      /\ \A r \in TeamRounds \cup EliRounds : \A pq \in PairsOf(m, r) :
           m.at[pq[1]].pt < 5 \/ m.at[pq[2]].pt < 5

\* After the end of a round a later one can start, or the same again while
\* a pair is not decided: whatever was forced, left or lost in a restart, the
\* tournament goes on.  Not so after round 3, whose tree would have a gap.
NeverStuck ==
    m.status = "round_end" =>
      \/ NextRound(m) > m.round
      \/ m.round > 0 /\ NextRound(m) = m.round /\ Undecided(m, m.round) # {}
      \/ Lapsed \/ torn

\* g_user_room and the guests of the rooms agree, and a room in a game has
\* one: while no request for a game outlives the round it was made for.
SeatsAgree ==
    count["late"] = 0 => \A r \in RoomId :
      /\ room[r].st # "dead"
      /\ \A e \in Human : seat[e] = r <=> e \in ToSet(room[r].guest)

\* When the worker has caught up, the rows it made from the eids it was told
\* and rewrote one statement at a time are the lists in memory: a restart
\* loads who played where, with which points.  The place of a team that stays
\* empty in round 3 has tid -1 in memory and 1 in its row.
RowsAgree ==
    Begun /\ wire = <<>> /\ ~torn /\ ~Lapsed =>
      \A p \in Place :
        /\ [db.at[p] EXCEPT !.tid = 0] = [m.at[p] EXCEPT !.tid = 0]
        /\ m.at[p].eid # 0 => db.at[p].tid = m.at[p].tid

==============================================================================
