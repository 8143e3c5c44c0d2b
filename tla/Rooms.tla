-------------------------------- MODULE Rooms --------------------------------
(***************************************************************************)
(* The tables of the lobby and the functions of nio.cpp that rewrite them. *)
(* A lobby state is a record t with the fields                             *)
(*   up        the server process is alive,                                *)
(*   conn      g_connect_list: per slot whether it is in use, the eid it   *)
(*             is logged in as, its room, its level st and its db_flag,    *)
(*   index     g_user_index: eid -> slot; a missing eid reads as slot 0,   *)
(*   userRoom  g_user_room: eid -> room, kept over a disconnect,           *)
(*   room      g_room_list: state, guest[] in seat order, whether the game *)
(*             VM exists, and offline_time[0..1] counted in passes of      *)
(*             auto_fold,                                                  *)
(*   pool      per channel, the list g_free_room heads,                    *)
(*   quick     g_quick_list.                                               *)
(* Each operator below is one function of the server: it maps the tables   *)
(* it finds to the tables it leaves.                                       *)
(***************************************************************************)
EXTENDS Integers, Sequences, FiniteSets, SequencesExt

CONSTANTS
    EID,           \* the users (eid > MAX_AI_EID)
    NoEid,         \* eid 0: a connection that is not logged in
    AI,            \* the computer players (0 < eid <= MAX_AI_EID)
    MAX_CONNECT,   \* the connection slots
    QuickRooms,    \* the rooms of CHANNEL_QUICK, freed when a start fails
    CustomRooms,   \* the rooms of a channel whose rooms users create
    MAX_GUEST,     \* the seats of a room
    FOLD_PASSES,   \* passes of auto_fold within OFFLINE_FOLD_TIME
    quick_robot_flag  \* constant.quick_robot_flag of the design: robots in the
                      \* quick match; db-design.sql ships it unset

ASSUME LobbyAssumption ==
    /\ MAX_CONNECT \in Nat \ {0}
    /\ MAX_GUEST \in Nat \ {0, 1}
    /\ FOLD_PASSES \in Nat \ {0}
    /\ QuickRooms \subseteq Nat \ {0} /\ CustomRooms \subseteq Nat \ {0}
    /\ QuickRooms \cap CustomRooms = {}
    /\ IsFiniteSet(QuickRooms) /\ IsFiniteSet(CustomRooms)
    /\ EID \cap AI = {} /\ NoEid \notin EID \cup AI
    /\ quick_robot_flag \in BOOLEAN

CID == 0 .. MAX_CONNECT - 1
ROOM == QuickRooms \cup CustomRooms
Channel == {QuickRooms, CustomRooms}
NoRoom == 0
NoConn == -1

\* The levels of a connection and the states of a room.
ST_NULL == 0
ST_LOGIN == 5
ST_ROOM == 10
ST_GAME == 15

\* The rooms of a set, by their number.
InOrder(rooms) ==
    CHOOSE s \in [1 .. Cardinality(rooms) -> rooms] :
        \A i, j \in DOMAIN s : i < j => s[i] < s[j]

FreeSlot == [up |-> FALSE, eid |-> NoEid, room |-> NoRoom, st |-> ST_NULL, busy |-> FALSE]
FreshConn == [FreeSlot EXCEPT !.up = TRUE]
FreeRoomRec == [state |-> 0, guest |-> <<>>, lua |-> FALSE, off |-> <<0, 0>>]

------------------------------------------------------------------------------
(* Look-ups.                                                               *)

\* get_conn_by_eid(): the slot logged in as e; the reset of a stale index
\* entry to 0 changes no later look-up and is left out.
ConnOf(t, e) ==
    IF e \in EID /\ t.conn[t.index[e]].up /\ t.conn[t.index[e]].eid = e
    THEN t.index[e] ELSE NoConn

Online(t, e) == ConnOf(t, e) # NoConn
Guests(t, r) == ToSet(t.room[r].guest)
Seat(t, r, i) == IF i <= Len(t.room[r].guest) THEN t.room[r].guest[i] ELSE NoEid
Players(t, r) == {Seat(t, r, 1), Seat(t, r, 2)}

\* room_active_user(): the guests of r, except one, that are connected to it.
ActiveUsers(t, r, except) ==
    {e \in Guests(t, r) \ {except} : Online(t, e) /\ t.conn[ConnOf(t, e)].room = r}

------------------------------------------------------------------------------
(* Rooms: allocation, seats, destruction.                                  *)

\* Mutant: the room is handed out and stays on the free list.
NewRoomStays(t, ch, r) ==
    [t EXCEPT !.room[r] = [FreeRoomRec EXCEPT !.state = ST_ROOM]]

\* new_room(): the head of the channel's free list, with no guest yet.
NewRoom(t, ch, r) ==
    [t EXCEPT !.pool[ch] = Tail(@),
              !.room[r] = [FreeRoomRec EXCEPT !.state = ST_ROOM]]

\* free_room(): guests lose their seat, the game VM is closed, the room goes
\* to the front of its channel's free list.
FreeRoom(t, r) ==
    IF t.room[r].state = 0 THEN t ELSE
    [t EXCEPT
        !.userRoom = [e \in EID |-> IF e \in Guests(t, r) THEN NoRoom ELSE @[e]],
        !.conn = [c \in CID |->
                     IF \E e \in Guests(t, r) : ConnOf(t, e) = c
                     THEN [@[c] EXCEPT !.room = NoRoom,
                                       !.st = IF t.conn[c].st >= ST_ROOM THEN ST_LOGIN
                                              ELSE t.conn[c].st]
                     ELSE @[c]],
        !.room[r] = FreeRoomRec,
        !.pool = [ch \in Channel |-> IF r \in ch THEN <<r>> \o @[ch] ELSE @[ch]]]

\* do_room_add(): the last seat of r for the user of connection c.
DoRoomAdd(t, r, c) ==
    [t EXCEPT !.room[r].guest = Append(@, t.conn[c].eid),
              !.conn[c].room = r,
              !.conn[c].st = t.room[r].state,
              !.userRoom[t.conn[c].eid] = r]

\* Mutant: g_user_room is not cleared.
DelKeepsUserRoom(t, r, c, e) ==
    [t EXCEPT !.room[r].guest = RemoveFirst(@, e),
              !.conn = [d \in CID |-> IF d = c THEN [@[d] EXCEPT !.room = NoRoom, !.st = ST_LOGIN]
                                      ELSE @[d]]]

\* do_room_del(): later guests move up a seat; c may be NoConn (offline).
DoRoomDel(t, r, c, e) ==
    [t EXCEPT !.room[r].guest = RemoveFirst(@, e),
              !.userRoom = [u \in EID |-> IF u = e THEN NoRoom ELSE @[u]],
              !.conn = [d \in CID |-> IF d = c THEN [@[d] EXCEPT !.room = NoRoom, !.st = ST_LOGIN]
                                      ELSE @[d]]]

\* room_clean(): destroys the room of c unless somebody else is connected to
\* it or a game is on.
Cleanable(t, c) ==
    /\ t.conn[c].room # NoRoom
    /\ ActiveUsers(t, t.conn[c].room, t.conn[c].eid) = {}
    /\ t.room[t.conn[c].room].state # ST_GAME
RoomClean(t, c) ==
    IF Cleanable(t, c)
    THEN [FreeRoom(t, t.conn[c].room) EXCEPT !.conn[c].room = NoRoom, !.conn[c].st = ST_LOGIN]
    ELSE t

------------------------------------------------------------------------------
(* Connections.                                                            *)

\* Mutant: quick_del is forgotten.
CleanKeepsQuick(t, c) ==
    LET s == RoomClean(t, c)
    IN [s EXCEPT !.index = [u \in EID |-> IF u = t.conn[c].eid THEN 0 ELSE @[u]],
                 !.conn[c].eid = NoEid]

\* do_clean(): the waiting list, where an eid is once, then the room, then the
\* index.
DoClean(t, c) ==
    LET e == t.conn[c].eid
        s == RoomClean([t EXCEPT !.quick = RemoveFirst(@, e)], c)
    IN [s EXCEPT !.index = [u \in EID |-> IF u = e THEN 0 ELSE @[u]],
                 !.conn[c].eid = NoEid]

\* do_disconnect(): the slot is zeroed, nothing else is told.
DoDisconnect(t, c) == [t EXCEPT !.conn[c] = FreeSlot]
DoCleanDisconnect(t, c) == DoDisconnect(DoClean(t, c), c)

\* out_login(): who else is logged in as e is kicked.
KickTwin(t, e) == IF Online(t, e) THEN DoCleanDisconnect(t, ConnOf(t, e)) ELSE t

\* Mutant: the timer of seat 2 goes on.
StopMasterTimer(t, r, e) ==
    [q \in ROOM |-> IF q = r /\ Seat(t, r, 1) = e THEN [t.room[q] EXCEPT !.off[1] = 0]
                    ELSE t.room[q]]

\* out_login(): the offline timer of a player that is back is stopped.
StopTimer(t, r, e) ==
    [q \in ROOM |-> IF q = r THEN [t.room[q] EXCEPT !.off = [i \in 1 .. 2 |->
                                       IF Seat(t, r, i) = e THEN 0 ELSE @[i]]]
                    ELSE t.room[q]]

\* Mutant: the old connection of e is not kicked.
LoginTwice(t, c, e) ==
    LET u == IF t.conn[c].eid # NoEid THEN DoClean(t, c) ELSE t
        r == u.userRoom[e]
    IN [u EXCEPT
          !.index[e] = c,
          !.conn[c] = [up |-> TRUE, eid |-> e, room |-> r, busy |-> FALSE,
                       st |-> IF r = NoRoom THEN ST_LOGIN ELSE u.room[r].state],
          !.room = StopTimer(u, r, e)]

\* out_login(): who the connection was is cleaned, its twin is kicked, and e
\* gets back the room it had.
OutLogin(t, c, e) ==
    LET s == IF t.conn[c].eid # NoEid THEN DoClean(t, c) ELSE t
        u == KickTwin(s, e)
        r == u.userRoom[e]
    IN [u EXCEPT
          !.index[e] = c,
          !.conn[c] = [up |-> TRUE, eid |-> e, room |-> r, busy |-> FALSE,
                       st |-> IF r = NoRoom THEN ST_LOGIN ELSE u.room[r].state],
          !.room = StopTimer(u, r, e)]

------------------------------------------------------------------------------
(* Games.                                                                  *)

\* win_game(): it reads the result out of the game VM (a missing VM is a NULL
\* dereference), sends every guest back to the lobby and frees the room.
WinGame(t, r) ==
    IF t.room[r].lua
    THEN LET s == [t EXCEPT !.conn = [c \in CID |->
                       IF \E e \in Guests(t, r) : ConnOf(t, e) = c
                       THEN [@[c] EXCEPT !.room = NoRoom, !.st = ST_LOGIN] ELSE @[c]]]
         IN FreeRoom(s, r)
    ELSE [t EXCEPT !.up = FALSE]

\* auto_fold_guest(): the timer of seat i after this pass.
Timer(t, r, i) ==
    LET e == Seat(t, r, i) IN
    IF e \notin EID THEN t.room[r].off[i]
    ELSE IF Online(t, e) THEN 0 ELSE t.room[r].off[i] + 1

Expired(t, r, i) == Seat(t, r, i) \in EID /\ Timer(t, r, i) > FOLD_PASSES

\* Mutant: only the master's timer folds.
FoldMasterOnly(t, r) ==
    IF Len(t.room[r].guest) < 2 \/ t.room[r].state # ST_GAME \/ ~t.up THEN t
    ELSE IF Expired(t, r, 1) THEN WinGame(t, r)
    ELSE [t EXCEPT !.room[r].off = <<Timer(t, r, 1), 0>>]

\* auto_fold_room(), with auto_fold's tests: seat 1 first, and when it folds
\* the game is over before seat 2 is looked at.
AutoFoldRoom(t, r) ==
    IF Len(t.room[r].guest) < 2 \/ t.room[r].state # ST_GAME \/ ~t.up THEN t
    ELSE IF Expired(t, r, 1) \/ Expired(t, r, 2) THEN WinGame(t, r)
    ELSE [t EXCEPT !.room[r].off = <<Timer(t, r, 1), Timer(t, r, 2)>>]

\* quick_match(): the first k of the list get a robot, the others are paired
\* in order (every rating_time is 0); an odd one stays.
QuickPairs(list, k, ai) ==
    [i \in 1 .. k |-> <<list[i], ai>>] \o
    [i \in 1 .. (Len(list) - k) \div 2 |-> <<list[k + 2*i - 1], list[k + 2*i]>>]
QuickLeft(list, k) ==
    IF (Len(list) - k) % 2 = 1 THEN <<list[Len(list)]>> ELSE <<>>

\* quick_room(): who may be paired, and the new room with its two guests.
Playable(t, e) == e \in AI \/ (Online(t, e) /\ t.conn[ConnOf(t, e)].room = NoRoom)
GameRoom(t, r, pair) ==
    [NewRoom(t, QuickRooms, r) EXCEPT !.room[r].state = ST_GAME, !.room[r].guest = pair]

\* quick_room() for one pair: dropped when one is offline or has a room; the
\* new room is used unchecked; ok is the outcome of game_init().
QuickRoom(t, pair, ok) ==
    IF ~t.up \/ ~Playable(t, pair[1]) \/ ~Playable(t, pair[2]) THEN t
    ELSE IF t.pool[QuickRooms] = <<>> THEN [t EXCEPT !.up = FALSE]
    ELSE LET r == Head(t.pool[QuickRooms])
             s == GameRoom(t, r, pair)
         IN IF ~ok THEN FreeRoom(s, r)
            ELSE [s EXCEPT
                    !.room[r].lua = TRUE,
                    !.userRoom = [e \in EID |-> IF e \in ToSet(pair) THEN r ELSE @[e]],
                    !.conn = [c \in CID |->
                                 IF \E e \in ToSet(pair) : ConnOf(t, e) = c
                                 THEN [@[c] EXCEPT !.room = r, !.st = ST_GAME] ELSE @[c]]]

\* The pairs get their rooms one after the other.
PairUp(t, k, ai, ok) ==
    LET pairs == QuickPairs(t.quick, k, ai)
        after[i \in 0 .. Len(pairs)] ==
            IF i = 0 THEN [t EXCEPT !.quick = QuickLeft(@, k)]
            ELSE QuickRoom(after[i - 1], pairs[i], ok)
    IN after[Len(pairs)]

\* Mutant: nobody is paired with a robot, whatever the flag.
MatchNoRobot(t, k, ai, ok) == PairUp(t, 0, ai, ok)

\* quick_match() and quick_room(): the first k of the list have waited
\* QUICK_AUTO_ROBOT_TIME; they get a robot only if the flag is set.
QuickMatch(t, k, ai, ok) == PairUp(t, IF quick_robot_flag THEN k ELSE 0, ai, ok)
=============================================================================
