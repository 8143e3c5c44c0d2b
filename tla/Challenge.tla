------------------------------ MODULE Challenge ------------------------------
(***************************************************************************)
(* The ranking challenge of nio.cpp and dbio.cpp.  A user challenges one   *)
(* who stands higher in evil_ranking: a database worker checks the two,    *)
(* the main loop notes the pair in g_rankpair_list and asks the other, who *)
(* accepts, refuses or lets ten seconds pass; a worker reads both again    *)
(* and the main loop seats challenger and receiver, or the receiver's      *)
(* clone (eid -e, played by the server), in a ranking game.  When a        *)
(* challenger wins, a worker lets the two change places.                   *)
(*                                                                         *)
(* The main loop and each worker interleave freely; a worker takes its     *)
(* requests in order (module DbPipe).  db_flag holds a user's next command *)
(* back until a reply comes or five seconds have passed: DbFlag says that  *)
(* they never pass, and without it no command is held back.  Where a user  *)
(* is otherwise (module Lobby) is the one room Elsewhere.                  *)
(***************************************************************************)
EXTENDS Integers, Sequences, FiniteSets, SequencesExt

CONSTANTS
    Player,      \* the users with a row in evil_ranking
    Thread,      \* the database workers
    ThreadOf,    \* eid % MAX_DB_THREAD
    RoomId,      \* the rooms of CHANNEL_QUICK
    MAX_RANKING_CHALLENGE_TIME,   \* wins a user may have in a day
    DbFlag,      \* every reply comes within five seconds
    FirstRank,   \* evil_ranking as in_init_ranking() fills it
    Roaming,     \* bound: the users that come and go and enter other rooms
    Wants,       \* bound: who may challenge whom, a set of pairs
    PairMax,     \* bound: pairs and requests that may become pairs
    QueueMax     \* bound: requests under way before users send more

ASSUME ChallengeAssumption ==
    /\ ThreadOf \in [Player -> Thread]
    /\ DbFlag \in BOOLEAN
    /\ FirstRank \in [Player -> 1 .. Cardinality(Player)]
    /\ \A e, f \in Player : FirstRank[e] = FirstRank[f] => e = f
    /\ Roaming \subseteq Player /\ Wants \subseteq Player \X Player
    /\ IsFiniteSet(Player) /\ IsFiniteSet(Thread) /\ Thread # {}
    /\ RoomId \subseteq Nat \ {0} /\ IsFiniteSet(RoomId)
    /\ {MAX_RANKING_CHALLENGE_TIME, PairMax, QueueMax} \subseteq Nat

WAITING == 0   \* RANKING_CHALLENGE_STATUS_*
ACCEPT == 1
REFUSE == 2

NoRoom == 0
Elsewhere == -1
NoGame == <<>>

VARIABLES
    busy,       \* conn->db_flag # 0 (never set when commands are not held back)
    online,     \* get_conn_by_eid(e) # NULL
    seat,       \* g_user_room[e]; for an online user also conn->room
    cloneSeat,  \* g_user_room[-e]
    game,       \* room -> <<guest[0], guest[1], is guest[1] a clone>>
    pairs,      \* g_rankpair_list
    queue,      \* worker -> its requests, from the oldest one not yet answered
    rank,       \* evil_ranking
    rank_time   \* evil_user.rank_time

vars == <<busy, online, seat, cloneSeat, game, pairs, queue, rank, rank_time>>

Pair == [c : Player, r : Player, status : {WAITING, ACCEPT, REFUSE}]

NoOne == 0

\* A request: what for (cmd), of whose connection (by), about whom (a, b),
\* the answer or the winner (arg), how far the worker is (at), and what it
\* found (good).
Request == [cmd : {"rgame", "rresp", "win"}, by : Player \cup {NoOne}, a : Player, b : Player,
            arg : 0 .. 2, at : {"new", "read", "swapped", "done"}, good : BOOLEAN]
NewRequest(cmd, by, a, b, arg) ==
    [cmd |-> cmd, by |-> by, a |-> a, b |-> b, arg |-> arg, at |-> "new", good |-> FALSE]

\* dbin_write(): to the worker of the connection's user, whose db_flag is set.
DbinWrite(th, q) ==
    /\ queue' = [queue EXCEPT ![th] = Append(@, q)]
    /\ busy' = [e \in Player |-> IF e = q.by THEN DbFlag ELSE busy[e]]

Requests == UNION {{<<th, i>> : i \in 1 .. Len(queue[th])} : th \in Thread}
At(x) == queue[x[1]][x[2]]

------------------------------------------------------------------------------
(* g_rankpair_list.                                                        *)

Is(p, e, be_challenged) == p.c = e \/ (be_challenged /\ p.r = e)

\* __get_rankpair_in_list(): pairs[i] is the first pair of e, whatever its status.
GetRankpair(i, e, be_challenged) ==
    /\ i \in 1 .. Len(pairs) /\ Is(pairs[i], e, be_challenged)
    /\ \A j \in 1 .. i - 1 : ~Is(pairs[j], e, be_challenged)

\* __is_in_rankpair_list()
InRankpairList(e) == \E i \in 1 .. Len(pairs) : pairs[i].status = WAITING /\ Is(pairs[i], e, TRUE)

\* __is_in_ranking_game(): the user or its clone.
InRankingGame(e) == seat[e] \in RoomId \/ cloneSeat[e] \in RoomId

------------------------------------------------------------------------------
(* What users send.                                                        *)

Room4Request == Cardinality(Requests) < QueueMax

\* dbin_ranking_game()
DbinRankingGame(e, t) ==
    /\ Room4Request
    /\ Len(pairs) + Cardinality({x \in Requests : At(x).cmd = "rgame"}) < PairMax
    /\ online[e] /\ ~busy[e] /\ seat[e] = NoRoom
    /\ ~InRankpairList(e)
    /\ ~InRankingGame(t) /\ ~InRankpairList(t)
    /\ DbinWrite(ThreadOf[e], NewRequest("rgame", e, e, t, 0))
    /\ UNCHANGED <<online, seat, cloneSeat, game, pairs, rank, rank_time>>

\* Mutant: an answer is taken whatever became of the challenge.
RespLate(i, e, c, resp) ==
    /\ Room4Request
    /\ online[e] /\ ~busy[e]
    /\ GetRankpair(i, e, TRUE) /\ pairs[i].c = c /\ pairs[i].r = e
    /\ pairs' = [pairs EXCEPT ![i].status = resp]
    /\ DbinWrite(ThreadOf[e], NewRequest("rresp", e, e, c, resp))
    /\ UNCHANGED <<online, seat, cloneSeat, game, rank, rank_time>>

\* dbin_resp_ranking_game(): e answers the challenge of c.
DbinRespRankingGame(i, e, c, resp) ==
    /\ Room4Request
    /\ online[e] /\ ~busy[e]
    /\ GetRankpair(i, e, TRUE) /\ pairs[i].c = c /\ pairs[i].r = e
    /\ pairs[i].status = WAITING
    /\ pairs' = [pairs EXCEPT ![i].status = resp]
    /\ DbinWrite(ThreadOf[e], NewRequest("rresp", e, e, c, resp))
    /\ UNCHANGED <<online, seat, cloneSeat, game, rank, rank_time>>

\* cancel_ranking_game(): the challenger takes it back.
CancelRankingGame(i, e) ==
    /\ online[e] /\ ~busy[e]
    /\ GetRankpair(i, e, FALSE) /\ pairs[i].status = WAITING
    /\ pairs' = RemoveAt(pairs, i)
    /\ UNCHANGED <<busy, online, seat, cloneSeat, game, queue, rank, rank_time>>

\* Mutant: only the first pair of the list is looked at.
AutoRespFirst(k, to) ==
    /\ pairs[1].status = WAITING
    /\ pairs' = [pairs EXCEPT ![1].status = REFUSE]
    /\ \E th \in Thread : queue' = [queue EXCEPT ![th] =
           Append(@, NewRequest("rresp", NoOne, pairs[1].r, pairs[1].c, 0))]
    /\ UNCHANGED <<busy, online, seat, cloneSeat, game, rank, rank_time>>

\* auto_ranking_challenge_resp(): the k oldest challenges are ten seconds
\* old; those that still wait are refused, in their order and without a
\* connection, so each request goes to a random worker: to[th] are the
\* places of the pairs whose request th gets.
AutoRankingChallengeResp(k, to) ==
    LET late == {i \in 1 .. k : pairs[i].status = WAITING}
    IN /\ late # {}
       /\ late = UNION {ToSet(to[th]) : th \in Thread}
       /\ \A th \in Thread : \A m, n \in 1 .. Len(to[th]) : m < n => to[th][m] < to[th][n]
       /\ \A th, uh \in Thread : th # uh => ToSet(to[th]) \cap ToSet(to[uh]) = {}
       /\ pairs' = [i \in 1 .. Len(pairs) |->
                      IF i \in late THEN [pairs[i] EXCEPT !.status = REFUSE] ELSE pairs[i]]
       /\ queue' = [th \in Thread |->
                      queue[th] \o [n \in 1 .. Len(to[th]) |->
                          NewRequest("rresp", NoOne, pairs[to[th][n]].r, pairs[to[th][n]].c, 0)]]
       /\ UNCHANGED <<busy, online, seat, cloneSeat, game, rank, rank_time>>

AutoResp ==
    \E k \in 1 .. Len(pairs) : \E to \in [Thread -> UNION {[1 .. n -> 1 .. k] : n \in 0 .. k}] :
        AutoRankingChallengeResp(k, to)

------------------------------------------------------------------------------
(* The workers: one query at a time, each on its own connection to MySQL.  *)

\* queue[th][i] is the request th works on.
Current(th, i) ==
    /\ queue[th][i].at # "done"
    /\ \A j \in 1 .. i - 1 : queue[th][j].at = "done"

Step(th, i, at, good) == queue' = [queue EXCEPT ![th][i] = [@ EXCEPT !.at = at, !.good = good]]

RANKING_RANDOM_COUNT == 5
RANGE_PERCENT_LIST == <<90, 85, 80, 75, 70>>

\* __get_range_list(): the ranks a user of rank cur_v may challenge: all
\* better ones when they are few, else five at fixed shares of its own, each
\* moved up by one for every earlier value it meets.
RangeList(cur_v) ==
    LET apart(list, v) == FoldLeft(LAMBDA tmp_v, x : IF x = tmp_v THEN tmp_v - 1 ELSE tmp_v, v, list)
    IN IF cur_v - 1 <= RANKING_RANDOM_COUNT
       THEN [n \in 1 .. cur_v - 1 |-> n]
       ELSE FoldLeft(LAMBDA list, p : Append(list, apart(list, (cur_v * p) \div 100)),
                     <<>>, RANGE_PERCENT_LIST)

\* __check_in_range_list()
InRangeList(v, target) == \E n \in DOMAIN RangeList(v) : RangeList(v)[n] = target

\* __get_ranking_data(): one SELECT of the rows of both.
GetRankingData(e, t) ==
    [rank |-> rank[e], rank_time |-> rank_time[e],
     target_rank |-> rank[t], target_time |-> rank_time[t]]

\* in_check_ranking_target(): the rank the client named may be out of date,
\* the decks may not do, a query may fail (~ok).
InCheckRankingTarget(th, i, ok) ==
    LET q == queue[th][i]
        data == GetRankingData(q.a, q.b)
    IN
    /\ q.cmd = "rgame"
    /\ Step(th, i, "done", /\ ok
                           /\ data.rank > data.target_rank /\ data.rank_time > 0
                           /\ InRangeList(data.rank, data.target_rank))
    /\ UNCHANGED <<busy, online, seat, cloneSeat, game, pairs, rank, rank_time>>

\* in_ranking_challenge(): refuses a challenger without challenges left; it
\* reports the rank_time of the receiver, which out_resp_ranking_challenge()
\* then tests.
InRankingChallenge(th, i, ok) ==
    LET q == queue[th][i]
        data == GetRankingData(q.a, q.b)
    IN
    /\ q.cmd = "rresp"
    /\ Step(th, i, "done", ok /\ data.target_time > 0 /\ data.rank_time > 0)
    /\ UNCHANGED <<busy, online, seat, cloneSeat, game, pairs, rank, rank_time>>

\* in_change_ranking_data(), first query: are the ranks to be exchanged?
ReadRanks(th, i) ==
    LET q == queue[th][i] IN
    /\ q.cmd = "win" /\ q.at = "new"
    /\ LET is_exchange == q.arg = 1 /\ rank[q.a] > rank[q.b]
       IN Step(th, i, IF is_exchange THEN "read" ELSE "done", is_exchange)
    /\ UNCHANGED <<busy, online, seat, cloneSeat, game, pairs, rank, rank_time>>

\* Mutant: the place of the loser is taken, its own is not given.
ExchangeHalf(th, i, ok) ==
    LET q == queue[th][i] IN
    /\ q.cmd = "win" /\ q.at = "read"
    /\ rank' = IF ok THEN [rank EXCEPT ![q.a] = rank[q.b]] ELSE rank
    /\ Step(th, i, IF ok THEN "swapped" ELSE "done", ok)
    /\ UNCHANGED <<busy, online, seat, cloneSeat, game, pairs, rank_time>>

\* __exchange_ranking(): the UPDATE swaps the ranks as they are now, and
\* when it fails nothing is counted.
ExchangeRanking(th, i, ok) ==
    LET q == queue[th][i] IN
    /\ q.cmd = "win" /\ q.at = "read"
    /\ rank' = IF ok THEN [rank EXCEPT ![q.a] = rank[q.b], ![q.b] = rank[q.a]] ELSE rank
    /\ Step(th, i, IF ok THEN "swapped" ELSE "done", ok)
    /\ UNCHANGED <<busy, online, seat, cloneSeat, game, pairs, rank_time>>

\* __auto_sub_rank_challenge_count(): the column is unsigned, an UPDATE below
\* 0 fails, and a failure is only warned of.
SubRankTime(th, i, ok) ==
    LET q == queue[th][i] IN
    /\ q.cmd = "win" /\ q.at = "swapped"
    /\ rank_time' = IF ok /\ rank_time[q.a] > 0
                    THEN [rank_time EXCEPT ![q.a] = @ - 1] ELSE rank_time
    /\ Step(th, i, "done", TRUE)
    /\ UNCHANGED <<busy, online, seat, cloneSeat, game, pairs, rank>>

\* in_change_ranking_data(): three queries, one after the other; the record
\* it writes last is read by nobody here.
InChangeRankingData(th, i, ok) ==
    \/ ReadRanks(th, i)
    \/ ExchangeRanking(th, i, ok)
    \/ SubRankTime(th, i, ok)

Work(th) ==
    \E i \in 1 .. Len(queue[th]) : \E ok \in BOOLEAN :
       /\ Current(th, i)
       /\ \/ InCheckRankingTarget(th, i, ok)
          \/ InRankingChallenge(th, i, ok)
          \/ InChangeRankingData(th, i, ok)

------------------------------------------------------------------------------
(* The replies, handled by the main loop in the order of each worker.      *)

\* dbout(): the reply is taken and the db_flag of its connection reset.
Dbout(th) ==
    /\ queue' = [queue EXCEPT ![th] = Tail(@)]
    /\ busy' = [e \in Player |-> IF e = Head(queue[th]).by THEN FALSE ELSE busy[e]]

FreeRooms == {r \in RoomId : game[r] = NoGame}

\* create_rank_room() and game_init(): c against b or b's clone in room r.
\* When the game does not start (~ok), free_room() clears the seats of both.
CreateRankRoom(r, c, b, clone, ok) ==
    LET to == IF ok THEN r ELSE NoRoom
        s == [seat EXCEPT ![c] = to]
    IN /\ game' = IF ok THEN [game EXCEPT ![r] = <<c, b, clone>>] ELSE game
       /\ seat' = IF clone THEN s ELSE [s EXCEPT ![b] = to]
       /\ cloneSeat' = IF clone THEN [cloneSeat EXCEPT ![b] = to] ELSE cloneSeat

\* Mutant: only the challenger is looked at again.
ChallengeStale(e, t) == seat[e] = NoRoom /\ ~InRankpairList(e)

\* out_ranking_game() asks again what dbin_ranking_game() asked.
MayChallenge(e, t) ==
    /\ seat[e] = NoRoom /\ ~InRankpairList(e)
    /\ ~InRankingGame(t) /\ ~InRankpairList(t)

\* out_ranking_game(): notes the pair and invites the target if that is
\* online and free, else starts a game against its clone.  The reply is
\* dropped when the connection is another user's by now (~same).
OutRankingGame(th, same, ok) ==
    LET q == Head(queue[th])
        acts == q.good /\ online[q.a] /\ same /\ MayChallenge(q.a, q.b)
        invites == online[q.b] /\ seat[q.b] = NoRoom
    IN /\ q.cmd = "rgame"
       /\ Dbout(th)
       /\ pairs' = IF acts /\ invites
                   THEN Append(pairs, [c |-> q.a, r |-> q.b, status |-> WAITING])
                   ELSE pairs
       /\ IF acts /\ ~invites /\ FreeRooms # {}
          THEN \E r \in FreeRooms : CreateRankRoom(r, q.a, q.b, TRUE, ok)
          ELSE UNCHANGED <<game, seat, cloneSeat>>
       /\ UNCHANGED <<online, rank, rank_time>>

\* out_resp_ranking_challenge(): the first pair of the receiver must be the
\* answered one; only a game that starts removes a pair, the first one of
\* the challenger (__remove_from_rankpair_list()).
OutRespRankingChallenge(th, ok) ==
    LET q == Head(queue[th])
        starts == /\ q.good /\ FreeRooms # {}
                  /\ \E i \in 1 .. Len(pairs) : /\ GetRankpair(i, q.a, TRUE)
                                                /\ pairs[i].c = q.b
                                                /\ pairs[i].status # WAITING
    IN /\ q.cmd = "rresp"
       /\ Dbout(th)
       /\ IF starts THEN \E r \in FreeRooms : CreateRankRoom(r, q.b, q.a, q.arg # ACCEPT, ok)
          ELSE UNCHANGED <<game, seat, cloneSeat>>
       /\ IF starts /\ ok
          THEN \E i \in 1 .. Len(pairs) : GetRankpair(i, q.b, FALSE) /\ pairs' = RemoveAt(pairs, i)
          ELSE UNCHANGED pairs
       /\ UNCHANGED <<online, rank, rank_time>>

\* A changed ranking is nobody's news: dbout drops the reply.
OutWin(th) ==
    /\ Head(queue[th]).cmd = "win"
    /\ Dbout(th)
    /\ UNCHANGED <<online, seat, cloneSeat, game, pairs, rank, rank_time>>

Out(th) ==
    /\ queue[th] # <<>> /\ Head(queue[th]).at = "done"
    /\ \/ \E same, ok \in BOOLEAN : OutRankingGame(th, same, ok)
       \/ \E ok \in BOOLEAN : OutRespRankingChallenge(th, ok)
       \/ OutWin(th)

------------------------------------------------------------------------------
(* The end of a game, and the users' other doings.                         *)

\* win_game(): the result goes to the worker of a player that is online (a
\* random one if none is), then the seats and the room are given back.
WinGame(r, winner, by, th) ==
    LET c == game[r][1]
        b == game[r][2]
        here == {e \in {c} \cup (IF game[r][3] THEN {} ELSE {b}) : online[e]}
    IN /\ Room4Request
       /\ game[r] # NoGame
       /\ IF here = {} THEN by = NoOne ELSE by \in here /\ th = ThreadOf[by]
       /\ DbinWrite(th, NewRequest("win", by, c, b, winner))
       /\ game' = [game EXCEPT ![r] = NoGame]
       /\ seat' = [e \in Player |-> IF e = c \/ (e = b /\ ~game[r][3]) THEN NoRoom ELSE seat[e]]
       /\ cloneSeat' = IF game[r][3] THEN [cloneSeat EXCEPT ![b] = NoRoom] ELSE cloneSeat
       /\ UNCHANGED <<online, pairs, rank, rank_time>>

\* A user comes, goes (a game or a room with others in it keeps its seat; the
\* pairs are not told), enters a room of the lobby, leaves it.
Login(e) ==
    /\ ~online[e]
    /\ online' = [online EXCEPT ![e] = TRUE]
    /\ UNCHANGED <<busy, seat, cloneSeat, game, pairs, queue, rank, rank_time>>
Disconnect(e) ==
    /\ online[e]
    /\ online' = [online EXCEPT ![e] = FALSE]
    /\ busy' = [busy EXCEPT ![e] = FALSE]
    /\ \/ UNCHANGED seat
       \/ seat[e] = Elsewhere /\ seat' = [seat EXCEPT ![e] = NoRoom]
    /\ UNCHANGED <<cloneSeat, game, pairs, queue, rank, rank_time>>
Enter(e) ==
    /\ online[e] /\ seat[e] = NoRoom
    /\ seat' = [seat EXCEPT ![e] = Elsewhere]
    /\ UNCHANGED <<busy, online, cloneSeat, game, pairs, queue, rank, rank_time>>
Leave(e) ==
    /\ seat[e] = Elsewhere
    /\ seat' = [seat EXCEPT ![e] = NoRoom]
    /\ UNCHANGED <<busy, online, cloneSeat, game, pairs, queue, rank, rank_time>>

------------------------------------------------------------------------------
Init ==
    /\ busy = [e \in Player |-> FALSE]
    /\ online = [e \in Player |-> TRUE]
    /\ seat = [e \in Player |-> NoRoom]
    /\ cloneSeat = [e \in Player |-> NoRoom]
    /\ game = [r \in RoomId |-> NoGame]
    /\ pairs = <<>>
    /\ queue = [th \in Thread |-> <<>>]
    /\ rank = FirstRank
    /\ rank_time = [e \in Player |-> MAX_RANKING_CHALLENGE_TIME]

Next ==
    \/ \E w \in Wants : DbinRankingGame(w[1], w[2])
    \/ \E i \in 1 .. Len(pairs), e, c \in Player : \E resp \in {ACCEPT, REFUSE} :
          DbinRespRankingGame(i, e, c, resp)
    \/ \E i \in 1 .. Len(pairs), e \in Player : CancelRankingGame(i, e)
    \/ \E e \in Roaming : Login(e) \/ Disconnect(e) \/ Enter(e) \/ Leave(e)
    \/ AutoResp
    \/ \E th \in Thread : Work(th) \/ Out(th)
    \/ \E r \in RoomId : \E winner \in {1, 2} :
          \E by \in Player \cup {NoOne} : \E th \in Thread : WinGame(r, winner, by, th)

Spec == Init /\ [][Next]_vars

\* The main loop looks at the list every three seconds and challenges grow
\* old; nothing is asked of users or of the workers.
FairSpec == Spec /\ WF_vars(AutoResp)

------------------------------------------------------------------------------
\* Every variable stays within the shape of the code's tables.
TypeOK ==
    /\ busy \in [Player -> BOOLEAN]
    /\ online \in [Player -> BOOLEAN]
    /\ seat \in [Player -> RoomId \cup {NoRoom, Elsewhere}]
    /\ cloneSeat \in [Player -> RoomId \cup {NoRoom}]
    /\ game \in [RoomId -> {NoGame} \cup (Player \X Player \X BOOLEAN)]
    /\ pairs \in Seq(Pair)
    /\ queue \in [Thread -> Seq(Request)]
    /\ rank \in [Player -> 1 .. Cardinality(Player)]
    /\ rank_time \in [Player -> 0 .. MAX_RANKING_CHALLENGE_TIME]

\* Nobody takes part in two challenges that wait for an answer, though the
\* list is looked at before the database is asked and written after it.
OneChallengeEach ==
    \A i, j \in 1 .. Len(pairs) :
        i # j /\ pairs[i].status = WAITING /\ pairs[j].status = WAITING
        => {pairs[i].c, pairs[i].r} \cap {pairs[j].c, pairs[j].r} = {}

\* A challenge is answered once: by its receiver or by the timer.  The
\* answers under way for a challenger never outnumber its settled pairs.
AnsweredOnce ==
    \A c \in Player :
        Cardinality({x \in Requests : At(x).cmd = "rresp" /\ At(x).b = c})
        <= Cardinality({i \in 1 .. Len(pairs) : pairs[i].c = c /\ pairs[i].status # WAITING})

\* However many workers change evil_ranking at once, no two users ever hold
\* the same rank.
RanksDistinct == \A e, f \in Player : rank[e] = rank[f] => e = f

\* A challenge never waits for ever: it is answered, cancelled, or refused by
\* the timer.
ChallengeSettles ==
    \A w \in Wants :
        LET waits == [c |-> w[1], r |-> w[2], status |-> WAITING]
        IN waits \in ToSet(pairs) ~> waits \notin ToSet(pairs)
==============================================================================
