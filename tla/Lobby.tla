-------------------------------- MODULE Lobby --------------------------------
(***************************************************************************)
(* The lobby of the game server: logging in and out, custom rooms, the     *)
(* quick match, the start of a game through the database, and its end.     *)
(* One thread runs the main loop, so a step is one whole handler: a        *)
(* command of a client, a reply of the database, a pass of a timer.  What  *)
(* interleaves is the order of those steps, and the time a "game" request  *)
(* spends in the database.                                                 *)
(***************************************************************************)
EXTENDS Rooms

CONSTANTS
    Faults,      \* what may happen in a run: see Fault
    MaxPending   \* bound: "game" requests in the database at once

Fault == {"send_error",   \* do_read or do_send fails: do_disconnect without do_clean
          "jam",          \* the database takes more than 5 s: db_flag is reset
          "self_kick",    \* the master of a running game sends kick with its own eid
          "init_error"}   \* game_init fails (bad deck, error in the Lua logic)

ASSUME FaultAssumption == Faults \subseteq Fault /\ MaxPending \in Nat

VARIABLES up, conn, index, userRoom, room, pool, quick,
          pending   \* "game" requests on their way: [cid, eid1, eid2]

vars == <<up, conn, index, userRoom, room, pool, quick, pending>>
tables == <<up, conn, index, userRoom, room, pool, quick>>

Now == [up |-> up, conn |-> conn, index |-> index, userRoom |-> userRoom,
        room |-> room, pool |-> pool, quick |-> quick]

Become(t) ==
    /\ up' = t.up /\ conn' = t.conn /\ index' = t.index /\ userRoom' = t.userRoom
    /\ room' = t.room /\ pool' = t.pool /\ quick' = t.quick

\* init_room_list and friends: the free list of a channel starts in order.
Boot == [up |-> TRUE, conn |-> [c \in CID |-> FreeSlot], index |-> [e \in EID |-> 0],
         userRoom |-> [e \in EID |-> NoRoom], room |-> [r \in ROOM |-> FreeRoomRec],
         pool |-> [ch \in Channel |-> InOrder(ch)], quick |-> <<>>]

Init == /\ up = TRUE /\ conn = Boot.conn /\ index = Boot.index /\ userRoom = Boot.userRoom
        /\ room = Boot.room /\ pool = Boot.pool /\ quick = Boot.quick
        /\ pending = <<>>

\* process_command(): a command runs when no reply is awaited and the level of
\* the connection is high enough.
Ready(c, level) == conn[c].up /\ ~conn[c].busy /\ conn[c].st >= level

GameInitOutcomes == IF "init_error" \in Faults THEN BOOLEAN ELSE {TRUE}

------------------------------------------------------------------------------
(* Connections.                                                            *)

Connect(c) ==
    /\ ~conn[c].up
    /\ Become([Now EXCEPT !.conn[c] = FreshConn])
    /\ UNCHANGED pending

\* The reply to "log", "fblogin": the connection waited for it, so its own
\* state is what it was when it asked.
Login(c, e) ==
    /\ Ready(c, ST_NULL)
    /\ Become(OutLogin(Now, c, e))
    /\ UNCHANGED pending

\* The client closes, quits, is killed, or its poll slot fails twice.
Disconnect(c) ==
    /\ conn[c].up
    /\ Become(DoCleanDisconnect(Now, c))
    /\ UNCHANGED pending

\* main_server(): do_read or do_send returned an error.
SendError(c) ==
    /\ "send_error" \in Faults
    /\ conn[c].up
    /\ Become(DoDisconnect(Now, c))
    /\ UNCHANGED pending

\* do_batch_command(): a reply is more than 5 s late.
Jam(c) ==
    /\ "jam" \in Faults
    /\ conn[c].up /\ conn[c].busy
    /\ Become([Now EXCEPT !.conn[c].busy = FALSE])
    /\ UNCHANGED pending

------------------------------------------------------------------------------
(* Rooms.                                                                  *)

\* room [channel]: a new room with the user as its master.
RoomCreate(c, ch) ==
    /\ Ready(c, ST_LOGIN)
    /\ conn[c].room = NoRoom
    /\ pool[ch] # <<>>
    /\ LET r == Head(pool[ch]) IN Become(DoRoomAdd(NewRoom(Now, ch, r), r, c))
    /\ UNCHANGED pending

\* room [channel] [rid] and join: a seat in a room, its game may be running.
RoomJoin(c, r) ==
    /\ Ready(c, ST_LOGIN)
    /\ conn[c].room = NoRoom
    /\ room[r].state # 0
    /\ Len(room[r].guest) < MAX_GUEST
    /\ Become(DoRoomAdd(Now, r, c))
    /\ UNCHANGED pending

\* Mutant: the guest leaves a room that nobody else is connected to.
LeaveNoClean(c) ==
    /\ Ready(c, ST_ROOM)
    /\ conn[c].room # NoRoom
    /\ ~(room[conn[c].room].state = ST_GAME /\ conn[c].eid \in Players(Now, conn[c].room))
    /\ Become(DoRoomDel(Now, conn[c].room, c, conn[c].eid))
    /\ UNCHANGED pending

\* Mutant: a player leaves the running game.
LeaveInGame(c) ==
    /\ Ready(c, ST_ROOM)
    /\ conn[c].room # NoRoom
    /\ Become(IF Cleanable(Now, c) THEN RoomClean(Now, c)
              ELSE DoRoomDel(Now, conn[c].room, c, conn[c].eid))
    /\ UNCHANGED pending

\* leave: not the players of a running game.
RoomLeave(c) ==
    /\ Ready(c, ST_ROOM)
    /\ conn[c].room # NoRoom
    /\ ~(room[conn[c].room].state = ST_GAME /\ conn[c].eid \in Players(Now, conn[c].room))
    /\ Become(IF Cleanable(Now, c) THEN RoomClean(Now, c)
              ELSE DoRoomDel(Now, conn[c].room, c, conn[c].eid))
    /\ UNCHANGED pending

\* kick [eid]: only by the master, and not the opponent in a running game.  If
\* the target is online, its own room is cleaned first.
RoomKick(c, e) ==
    /\ Ready(c, ST_ROOM)
    /\ conn[c].room # NoRoom
    /\ LET r == conn[c].room
           g == ConnOf(Now, e)
       IN /\ Seat(Now, r, 1) = conn[c].eid
          /\ ~(room[r].state = ST_GAME /\ Seat(Now, r, 2) = e)
          /\ (room[r].state = ST_GAME /\ e = conn[c].eid) => "self_kick" \in Faults
          /\ IF g # NoConn /\ Cleanable(Now, g)
             THEN Become(RoomClean(Now, g))
             ELSE e \in Guests(Now, r) /\ Become(DoRoomDel(Now, r, g, e))
    /\ UNCHANGED pending

------------------------------------------------------------------------------
(* The quick match.                                                        *)

\* quick: joins the list once and matches at once; k of those who were there
\* have waited QUICK_AUTO_ROBOT_TIME.
QuickGame(c) ==
    /\ Ready(c, ST_LOGIN)
    /\ conn[c].room = NoRoom
    /\ \E k \in 0 .. Len(quick), ai \in AI, ok \in GameInitOutcomes :
         LET e == conn[c].eid
             t == [Now EXCEPT !.quick = IF e \in ToSet(@) THEN @ ELSE Append(@, e)]
         IN Become(QuickMatch(t, k, ai, ok))
    /\ UNCHANGED pending

\* quick 9: leaves the list.
QuickLeave(c) ==
    /\ Ready(c, ST_LOGIN)
    /\ conn[c].eid \in ToSet(quick)
    /\ Become([Now EXCEPT !.quick = RemoveFirst(@, conn[c].eid)])
    /\ UNCHANGED pending

\* auto_quick_match(), every 5 s.
AutoQuickMatch(k) ==
    /\ k <= Len(quick)
    /\ \E ai \in AI, ok \in GameInitOutcomes : Become(QuickMatch(Now, k, ai, ok))
    /\ UNCHANGED pending

------------------------------------------------------------------------------
(* A game in a custom room: asked for by the master, started by the reply. *)

DbinGame(c) ==
    /\ Ready(c, ST_ROOM)
    /\ Len(pending) < MaxPending
    /\ conn[c].room # NoRoom
    /\ LET r == conn[c].room IN
         /\ Seat(Now, r, 1) = conn[c].eid
         /\ Len(room[r].guest) >= 2
         /\ Online(Now, Seat(Now, r, 2))
         /\ room[r].state # ST_GAME
         /\ pending' = Append(pending, [cid |-> c, eid1 |-> conn[c].eid, eid2 |-> Seat(Now, r, 2)])
    /\ Become([Now EXCEPT !.conn[c].busy = TRUE])

\* error_game: a room of CHANNEL_QUICK is destroyed, any other is left.
ErrorGame(t, r) == IF r \in QuickRooms THEN FreeRoom(t, r) ELSE t

\* out_game() with both decks, in the connection's slot as it is now.
StartGame(t, r, ok) ==
    LET s == [t EXCEPT !.room[r].state = ST_GAME] IN
    IF t.room[r].lua \/ ~ok THEN ErrorGame(s, r)
    ELSE [s EXCEPT !.room[r].lua = TRUE,
                   !.conn = [c \in CID |-> IF \E e \in Guests(t, r) : ConnOf(t, e) = c
                                           THEN [@[c] EXCEPT !.st = ST_GAME] ELSE @[c]]]

DbReply(i) ==
    LET q == pending[i]
        t == [Now EXCEPT !.conn[q.cid].busy = FALSE]
        r1 == userRoom[q.eid1]
        r2 == userRoom[q.eid2]
    IN /\ pending' = RemoveAt(pending, i)
       /\ IF ~conn[q.cid].up THEN UNCHANGED tables
          ELSE \/ Become(t)                      \* the database reports an error
               \/ \E ok \in GameInitOutcomes :
                    Become(IF r1 # r2 \/ r1 = NoRoom THEN ErrorGame(t, conn[q.cid].room)
                           ELSE StartGame(t, r1, ok))

------------------------------------------------------------------------------
(* The end of a game.                                                      *)

\* fold, by one of the two players.
GameFold(c) ==
    /\ Ready(c, ST_GAME)
    /\ conn[c].room # NoRoom
    /\ room[conn[c].room].lua
    /\ conn[c].eid \in Players(Now, conn[c].room)
    /\ Become(WinGame(Now, conn[c].room))
    /\ UNCHANGED pending

\* play_cmd(): a card that ends the game.
PlayWin(c) ==
    /\ Ready(c, ST_GAME)
    /\ conn[c].room # NoRoom
    /\ Len(room[conn[c].room].guest) >= 2
    /\ conn[c].eid \in Players(Now, conn[c].room)
    /\ conn[c].st = ST_GAME
    /\ room[conn[c].room].lua
    /\ Become(WinGame(Now, conn[c].room))
    /\ UNCHANGED pending

\* auto_fold(), every 30 s: one room after the other.
AutoFold ==
    /\ LET rooms == InOrder(ROOM)
           after[i \in 0 .. Len(rooms)] ==
               IF i = 0 THEN Now ELSE AutoFoldRoom(after[i - 1], rooms[i])
       IN Become(after[Len(rooms)])
    /\ UNCHANGED pending

\* The process ended on a NULL dereference and is started again.
Restart == ~up /\ Become(Boot) /\ pending' = <<>>

ConnStep(c) ==
    \/ Connect(c) \/ Disconnect(c) \/ SendError(c) \/ Jam(c)
    \/ \E e \in EID : Login(c, e)
RoomStep(c) ==
    \/ \E ch \in Channel : RoomCreate(c, ch)
    \/ \E r \in ROOM : RoomJoin(c, r)
    \/ RoomLeave(c)
    \/ \E e \in EID \cup AI : RoomKick(c, e)
PlayStep(c) == QuickGame(c) \/ QuickLeave(c) \/ DbinGame(c) \/ GameFold(c) \/ PlayWin(c)

Next ==
    \/ up /\ \E c \in CID : ConnStep(c) \/ RoomStep(c) \/ PlayStep(c)
    \/ up /\ \E k \in 0 .. Len(quick) : AutoQuickMatch(k)
    \/ up /\ \E i \in 1 .. Len(pending) : DbReply(i)
    \/ up /\ AutoFold
    \/ Restart

Spec == Init /\ [][Next]_vars

\* The main loop runs its timers for ever, and whoever waits has waited
\* QUICK_AUTO_ROBOT_TIME in the end: whether a robot comes is the flag's.
LiveSpec ==
    /\ Spec
    /\ WF_vars(up /\ AutoFold)
    /\ WF_vars(up /\ AutoQuickMatch(Len(quick)))

------------------------------------------------------------------------------
(* Properties.                                                             *)

Conns == [up : BOOLEAN, eid : EID \cup {NoEid}, room : ROOM \cup {NoRoom},
          st : {ST_NULL, ST_LOGIN, ST_ROOM, ST_GAME}, busy : BOOLEAN]

\* Every table has its type, no room seats more than MAX_GUEST, no timer runs
\* past OFFLINE_FOLD_TIME.
TypeOK ==
    /\ up \in BOOLEAN
    /\ conn \in [CID -> Conns]
    /\ index \in [EID -> CID]
    /\ userRoom \in [EID -> ROOM \cup {NoRoom}]
    /\ DOMAIN room = ROOM
    /\ \A r \in ROOM :
         /\ room[r].state \in {0, ST_ROOM, ST_GAME} /\ room[r].lua \in BOOLEAN
         /\ room[r].guest \in Seq(EID \cup AI) /\ Len(room[r].guest) <= MAX_GUEST
         /\ \A i \in 1 .. 2 : room[r].off[i] \in 0 .. FOLD_PASSES
    /\ DOMAIN pool = Channel
    /\ quick \in Seq(EID)
    /\ pending \in Seq([cid : CID, eid1 : EID, eid2 : EID])

\* g_user_room, which brings a user back to the room it lost the connection
\* in, says exactly who sits where: nobody holds two seats, and no seat is
\* left behind by leave, kick, fold, a failed start or a destroyed room.
SeatsExact ==
    /\ \A r \in ROOM, e \in EID : userRoom[e] = r <=> e \in Guests(Now, r)
    /\ \A r \in ROOM : IsInjective(room[r].guest)
    /\ \A r \in ROOM : room[r].state = 0 => room[r] = FreeRoomRec

\* A user is connected once, g_user_index finds it, the connection points to
\* the room g_user_room says, and its level is that of the room: a player of a
\* running game may play, and nobody else may.
SessionsExact ==
    \A c \in CID :
      LET e == conn[c].eid IN
      IF e = NoEid
      THEN conn[c].room = NoRoom /\ conn[c].st = ST_NULL
      ELSE /\ conn[c].up /\ index[e] = c
           /\ conn[c].room = userRoom[e]
           /\ conn[c].room = NoRoom => conn[c].st = ST_LOGIN
           /\ conn[c].room # NoRoom =>
                /\ room[conn[c].room].state = ST_ROOM => conn[c].st = ST_ROOM
                /\ room[conn[c].room].lua => conn[c].st = ST_GAME

\* The free list of a channel holds each free room of it once: no room in use
\* is handed out, and none is lost.
PoolExact ==
    \A ch \in Channel :
      /\ IsInjective(pool[ch])
      /\ ToSet(pool[ch]) = {r \in ch : room[r].state = 0}

\* A room that waits for its game has somebody connected to it (a test of
\* room_clean at every way out).  It takes a lost socket to break it.
RoomAlive ==
    \A r \in ROOM : room[r].state = ST_ROOM => ActiveUsers(Now, r, NoEid) # {}

\* Whoever waits for a quick match is connected, and at most one waits: two
\* are a pair.
QuickExact ==
    /\ Len(quick) <= 1
    /\ \A e \in ToSet(quick) : Online(Now, e)

\* The offline timer of a player of a running game runs only while the player
\* is away: a reconnection stops it, so the fold comes after one absence of
\* OFFLINE_FOLD_TIME and not after several short ones.
TimerMeansAway ==
    \A r \in ROOM, i \in 1 .. 2 :
      room[r].off[i] > 0 => room[r].state = ST_GAME /\ ~Online(Now, Seat(Now, r, i))

\* A running game keeps its two players: nobody takes their seat, and they do
\* not leave ("not allow guest[0] and guest[1] leave the started game").
PlayersStay ==
    [][\A r \in ROOM : room[r].lua /\ room'[r].lua =>
         \A i \in 1 .. 2 : Seat(Now, r, i) = Seat(Now', r, i)]_vars

\* A player that stays away loses: the game it sits in ends, unless it comes
\* back.  "check every 30second, player 120second offline will be force fold"
OfflineFolds ==
    \A e \in EID, r \in ROOM :
      (e \in Players(Now, r) /\ room[r].lua /\ ~Online(Now, e))
        ~> (~(e \in Players(Now, r) /\ room[r].lua) \/ Online(Now, e) \/ ~up)

\* With quick_robot_flag set, nobody waits for a quick match for ever: who
\* waits alone gets a robot.  With the flag as it is shipped (unset) a lone
\* user waits until another one asks.
QuickServed ==
    quick_robot_flag => \A e \in EID : (e \in ToSet(quick)) ~> (e \notin ToSet(quick))

=============================================================================
