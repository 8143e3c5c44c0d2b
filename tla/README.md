# Verification of evil_server

`evil_server` is the server of a card battle game. It is one C++ program, `src/main/nio.cpp`, whose single thread polls
the sockets of all clients and runs every command to its end, and a few database workers, threads of
`src/main/db/dbio.cpp`, which run the SQL. Each game is a Lua state inside the main thread. This directory holds TLA+
models of the parts of the server where order, time and failure matter, TLC runs that check them on small instances, and
TLAPS proofs of what holds for every size.

1. [Inventory](#1-inventory) — the parts of the server, their state, what can go wrong
2. [Modules](#2-modules) — which module models which code, and how
3. [Runs](#3-runs) — what TLC checks, with which bounds
4. [Fairness](#4-fairness)
5. [Proofs](#5-proofs) — what is proved, and how
6. [Where the code and its comments disagree](#6-where-the-code-and-its-comments-disagree)
7. [What is not modelled](#7-what-is-not-modelled)
8. [Plan](#8-plan)

To check: `tlc -workers 2 -config MCWChat.cfg MCWChat` (and so on for each line of section 3), `tlapm WChatProofs.tla`
(and so on for each module of section 5).

## 1. Inventory

### How a command travels

    client --packet--> do_read --> do_batch_command --> process_command --> handler
                                        |                                   |   |
                       read_buffer <----+ (db_flag set)                     |   +--> net_write to any client,
                           |                                                |        rooms, lists, wchat_add
                           v                                        dbin_write: slot of a ring,
                     dbout's cleanup                                2 bytes on a socket pair
                           ^                                                |
                           |                                                v
    client <-- do_send <-- dbout --> out_xxx handler <-- slot, 2 bytes <-- worker: in_xxx, SQL

Handlers of the main thread never interleave with each other; what interleaves is the *order* of whole handlers. A
request leaves the main thread for an arbitrary time and its reply (`out_xxx`) finds rooms, lists and connections as they
are by then. Workers interleave with the main thread in the slots of the rings, and with each other in the tables of
MySQL, statement by statement, since no transaction is opened. Between two polls the main loop also runs its timers:
`auto_quick_match`, `auto_fight`, `auto_ranking_challenge_resp`, `auto_del_challenge`, `auto_fold`, `auto_match_round`,
`do_wchat_send`.

### Components

| Component | State | Operations | Hard because | Correct when |
|---|---|---|---|---|
| **World chat** `gchat_queue.cpp`, `do_wchat_send`, `do_send` | a ring of messages with head, tail and the time stamp of the head; a time stamp per connection | post, read, truncate to half, move a reader that fell behind | the ring wraps and drops messages while readers hold time stamps into it; a socket may not take a message | a time stamp finds its own message; each client gets the chat in order, each message once; no reader stalls |
| **Database pipeline** `dbin_write`, `dbout`, `dbio()` | per worker a ring of slots and two byte streams of slot numbers; per connection `db_flag`, `read_buffer` | request, work, reply, store and drain commands, restart the workers | main and worker share slots without a lock; replies come late, for clients that have gone, or not at all | a slot in use is on its way exactly once; nobody reads a slot it does not own; commands run once and in order |
| **Connection pool** `new_conn`, `free_conn` | the slots, a free list threaded through them, their number | accept, close; by the own command, by a peer's, by the loop | a packet goes on after its connection was closed, and `free_conn` does not look | the list is exactly the free slots; two clients never share a descriptor |
| **Lobby** (sessions, rooms, quick match, start and end of games) | `g_user_index`, `g_user_room`, `g_room_list` with seats, offline timers and free lists, `g_quick_list`, level and room of each connection | login, disconnect, create, join, leave, kick, quick, game, fold, timers | five tables that say the same thing, changed by handlers that may find a user gone, offline, or logged in elsewhere | seats, sessions and free lists agree; players stay, an absent one is folded, a waiting one served |
| **Ranking challenge** | `g_rankpair_list`, seats of users and of their clones, `evil_ranking`, `rank_time` | challenge, answer, cancel, time out, start and end a game, exchange ranks | check in main, query in a worker, write in main; two workers on the same rows | one open challenge per user, answered once and in the end; ranks distinct |
| **Guild** | `evil_guild`, `evil_guild_share`, the guild of a user; in main `g_guild_map` and the cached guild of a connection | create, apply, approve, promote, quit, remove, delete, deposit, bonus, level up | several statements per operation without a transaction, on several workers; the cache follows replies | `total_member` covers the members; no gold made; a bonus once a day; cache and lists equal the tables when nothing is under way |
| **Shop, decks, pieces, exchange, payment** | gold, crystal, cards, pieces, decks and slots of a user in a dozen tables, and their copy in the connection | buy, sell, draw, merge, offer, refresh, pay; load and save decks and slots | main checks the copy, a worker writes the rows, the reply corrects the copy; statements of one command fail one by one | nothing for nothing; copy equals row; limits hold; a deck has cards its user owns |
| **Missions, daily login, gifts** `mission.cpp` | a list of missions per user in the connection and in a table, keys of gifts, days | count, refresh, save, reward | saved as a whole from the copy, rewarded by a query | a reward once |
| **Solo, tower, chapters, heroes, robot games** | power, floors, marks of stages, missions of heroes; a room with one user | start, play, win, reward, load | the end of a game writes copies at once and rows by half a dozen requests, for users who may be away | as for the shop |
| **Fight lists** (gold, crystal, free fights) | four waiting lists, times a day | ask, wait, cancel, be paired, time out | fee and times are looked at in the copy and taken at the end of the game | as for the shop |
| **Arena** | ranks, times a day, last reward | targets, game against a clone, exchange of ranks, reward each half day | two requests check the same row; ranks compared and exchanged by two statements | ranks distinct, reward once |
| **Tournament** `match.cpp` | the tournament's players, places and tree in memory, the same in two tables, rooms of a channel of their own | apply, cancel, draw, start and end rounds, play, force an end, restart | rounds by the clock while games run, start late, or have lost their players; results are several UPDATEs | who plays a round has earned it; a next round can start; rooms, seats and rows agree |
| Friend challenge, ladders | `g_challenge_list`; lists | challenge, accept, time out; list | as the ranking challenge, without ranks | — |
| Game rules `logic.lua` | a game's cards and heroes | play, attack, sacrifice, next | a rule language | rule by rule |
| Design tables, MySQL access, `fdwatch`, `@` commands, clients, scripts, vendored code | — | — | — | — |

`PROJECT.json` lists each with its files. It also lists the hazards, each with the line where it bites and the
properties that catch it going wrong. Where a property catches it only in part, or allows exactly the bad case, the note
of the hazard says what is not covered; a hazard whose bad case no property excludes names none.

## 2. Modules

| Module | Models | Uses |
|---|---|---|
| `WorldChat` | what the chat promises (abstract) | — |
| `WChat` | the ring buffer and its readers | refines `WorldChat` |
| `DbPipe` | requests and replies, `db_flag`, `read_buffer` | — |
| `ConnPool` | `g_connect_list` and its free list | — |
| `Rooms` | the lobby's tables and the functions that rewrite them | — |
| `Lobby` | the lobby's handlers and timers | `Rooms` |
| `Challenge` | the ranking challenge | — |
| `Guild` | guilds: commands, workers, replies | — |
| `Missions` | the list of missions, `mission.cpp` | — |
| `Account` | a user's rows and copy, requests, workers, replies | `Missions` |
| `Shop`, `Decks`, `Market`, `Rewards` | the commands of trade, each module on the one before | `Account` |
| `Heroes`, `Campaign`, `Chapters`, `Games`, `Fights`, `Arena` | the commands and games a user plays for money, experience and rank | `Rewards` |
| `Economy` | all of these together: login, clean-up, the dispatch of workers and replies, the properties | `Arena` |
| `Bracket` | the record of a tournament and the functions of `match.cpp` that rewrite it | — |
| `Match` | a tournament on the server | `Bracket` |
| `WChatProofs`, `DbPipeProofs`, `ConnPoolProofs`, `LobbyProofs`, `ChallengeProofs`, `GuildProofs`, `GuildGoldProofs`, `EconomyProofs` | theorems | the module, TLAPS |
| `MC*` | instances for TLC | the module |

In all of them an action is one whole handler of the main loop, or the stretch of a worker between two points where
another thread can look: between two statements, when it is about the tables. Names follow the source (`wchat_add`,
`dbin_write`, `g_free_connect`, `ST_GAME`, `in_guild_quit` as `InGuildQuit`, `out_login` as `OutLogin`).

**`WChat`.** A message is the number of its `wchat_add` call, so that a slot's content can be compared with the time
stamp under which a reader looks for it. `ring` is the queue of `gchat_queue.cpp`; `ts` is `conn->wchat_ts`; `out` says
that the output buffer of the connection holds something else. `do_send` is split by its branches: output first, then
one chat message; `wchat_ts` moves before `write`, which may take the message or not. `last` is a history variable. The
refinement maps the log's length to `wchat_tail_ts`, a reader's position to its time stamp, and the promise "a reader
is moved only when it lags by more than *Keep*" to `QueueMax - QueueMax \div 2`, what a truncation leaves.

**`DbPipe`.** The main loop is a small program of its own (`main`): idle, in the middle of a packet, in the handler of
a reply, or in the follow-up requests of a login, because a connection can be closed, and a ring can fill, between
these. A worker's ring is the array `slot[t]` with `next[t]` (`buffer_index`), and the two socket pairs are the
sequences `toWorker[t]` and `toMain[t]`. `flag` has a third value, "old", for a `db_flag` set more than five seconds
ago, which the next command ignores. A request carries, as history, the session that made it. `@dbrestart` is a
command like others and may be one of a stored batch that runs on a reply: the main loop keeps its pointer into the
ring and clears, at the end of the batch, that slot of the fresh ring (`BatchDoneRestarted`). The model takes the
restart as completed: that each worker notices its closed descriptor, which `pthread_join` waits for, is left out.
`store_read_buffer` compares what *one* call appends with the size of the buffer, so a client that sends on while it
waits appends beyond its end; `BatchStore` does the same. `overrun` is history: that a slot in use was written over or
cleared ("slot"), or that a `read_buffer` ran over ("store"). What memory holds after the second is undefined, and the
model goes on as if nothing was damaged; so the properties speak of the time before it.

**`ConnPool`.** The free list is modelled as the linked list it is. `batch` is the connection whose packet is being
processed: commands behind a `quit` still run, on a cleared connection, and another `quit` frees it a second time. A
descriptor is the lowest one not open, as `accept` gives it, so that closing descriptor 0 of a cleared connection has
its consequence.

**`Rooms` and `Lobby`.** The functions that rewrite the tables call each other deeply (`do_clean` → `room_clean` →
`free_room`), so `Rooms` writes each as an operator from a record of tables to a record of tables and `Lobby` composes
them into actions. The database appears as the list of `game` requests under way. NULL dereferences end the process
(`up`), which starts again with empty tables. Seat order matters (seat 1 is the master, seats 1 and 2 the players) and
is kept. Time is counted in passes of `auto_fold`. The constant `quick_robot_flag` is that of the design: only where it
is set does `quick_match` give a robot to a user who waits alone (nio.cpp:6883). The database's default is 0
(db-design.sql:130), with which such a user waits until another one asks, if need be for ever.

**`Challenge`.** A worker's queue holds its requests, the finished ones in front, until the main loop takes the
replies; the exchange of ranks is two or three statements (`at` says how far it is) and may fail at each. The ranks a
user may challenge (`__get_range_list`) are a function of his own, with a check over ranks 1 to 120 (`RangesSound`).
Where a user is otherwise is one place, `Elsewhere`. `DbFlag` chooses between replies that always come within five
seconds and `db_flag` being no obstacle at all; the truth is between them, and invariants are checked under the weaker
assumption, FALSE.

**`Guild`.** `status`, `guild` and `share` are the tables, `conn` and `map` what the main loop has cached. A request
keeps its command, whom it is about, and `at`, the statement its worker comes to next; each statement may fail, and
which functions stop where is the code's. `lapse` records that a request stopped half-way or that its reply found
nobody. `ledger` is the gold there should be.

**`Account` to `Economy`.** The same scheme for everything a user owns. `db` is the rows, a record with a function of
the user per table or column; `conn` is `euser` and the flags of the connection; `Read`, `Write`, `Goes` are the ways a
statement moves its request on. A command is a triple of operators, `DbinX` (the check and the request), `InX` (the
statements), `OutX` (the reply). Money, cards, pieces and experience are small numbers, a mission is its kind and
target, a deck is a list of numbers of cards, time is half days. A game (`Campaign`, `Fights`, `Arena`) is what is
played, by whom and for which stage, in `conn.game`; it starts with a reply, ends by a move of a player or by the timer
of an absent one with a choice of result, and `Games` does what `win_game` does: copies at once, rows by requests sent
in the order of the code. `granted` counts what the design gives away, `given` and `again` what may be had once.

**`Bracket` and `Match`.** `Bracket` is a record of places and operators from record to record: the draw, the result
of a pair in the teams and in the tree, the round that may start. Places keep the code's numbering, and fake eids
the places not reached yet. `Match` runs it: rooms and seats, `game` requests under way, `wire`, the tables' rows and
the requests about them that the worker has not done. The two sides make their rows apart: for the draw and for the tree
main sends eids only (nio.cpp:14989, 15031), and the worker inserts the rows of the rounds to come by itself
(dbio.cpp:11189). They differ in one place: the fourth of a team in round 3, which nobody reaches, has `tid` -1 in
memory (match.cpp:283) and 1 in its row (dbio.cpp:11206); `RowsAgree` says so of this place and compares all others. The clock is left out: a round starts or ends whenever its status
allows. `Next` branches on what may still happen in the run (`Bounds`).

## 3. Runs

| Run | Instance | Distinct states | Shows |
|---|---|---|---|
| `wchat` | 2 readers, queue of 4, 5 messages | 29,886 | the window holds the log; chat in order; refines `WorldChat`; no stall |
| `dbpipe` | 2 connections, 1 worker, ring of 2, `read_buffer` of 2, 3 sessions, 4 commands, a timer's request, a restart, late replies | 3,115,619 | ring order and use, ownership of slots, a set `db_flag` has a request behind it, each command at one place |
| `dbpipe_order` | 1 connection, 2 workers, replies in time | 93,857 | commands in order; a stored command is run |
| `dbpipe_reply` | as above, 2 sessions | 74 | *violation*: the reply of a client that has gone is handled for the next one |
| `connpool` | 4 slots, 2 quits on a closed connection | 625,328 | free list exact, descriptors not shared, a slot below the limit |
| `lobby` | 3 users, 3 connections, 1 quick and 2 custom rooms | 149,464 | rooms, waiting list and timers follow who is connected; players stay |
| `lobby_faults` | 2 users, 2 connections, every fault, no robots for quick matches | 225,405 | seats, sessions and free lists under socket errors, late replies, failing starts, a master's kick of itself |
| `lobby_live` | 2 users, fair timers, `quick_robot_flag` set | 2,322 | an absent player is folded; who waits is served |
| `challenge` | 2 challengers of a third that comes and goes, 2 workers, 1 room | 185,904 | one open challenge each, answered once and in the end, ranks distinct |
| `guild` | 3 users (a master, a senior, a newcomer), 1 or 2 workers, 4 commands, 2 under way, 1 failing statement | 911,591 | no gold made, a bonus once; with one worker members counted, lists and caches exact |
| `economy` | 2 users, 3 cards, 60 scenarios of 2 to 5 commands | 234,205 | nothing for nothing, the copy is right, limits, once is once, a deck has its cards |
| `match` | 8 players, 2 of them users, 4 rooms, one event of each kind | 393,187 | who plays has earned it, a next round can start, rooms, seats and rows agree |

Counts are with the symmetry of the configuration. The violation run stops at the first counterexample.

**Why the bounds are enough.**
The chat queue of four is the shortest in which half a queue is more than one message; five messages fill it, wrap it
and truncate it, and after that a further message repeats a shape already seen (positions count modulo the queue). Two
readers are a fast and a slow one. *In `DbPipe`* a ring of two can be empty, part full and full; three sessions on two
connections let a slot of `g_connect_list` be reused while a reply for it is under way; four commands are one that
runs, two that fill a `read_buffer` and one that comes later, or runs over its end; with replies in time (`dbpipe_order`)
three are enough. *In `ConnPool`* a list of four has a first, a last and middle slots
in every order; one quit too many shows what happens when the list is wrong, a second when a descriptor is. *In
`Lobby`* three users are two players and one who watches, waits, or follows; the rooms are one that is freed when a
start fails and two that users create, so a user can be in a room other than the master's. `MAX_GUEST` is 3 so that a
seat behind the players can move up. `FOLD_PASSES` is 1: the timer is off, running, or expired. The faults need fewer
users since each is about one user and one other. *In `Challenge`* two challengers of one target are the smallest
overlap of pairs, and two workers the smallest race for `evil_ranking`; the initial ranking is the one with the target
on top. An instance with two rooms and every initial ranking (4.7 million states) was run once and showed nothing else.
`Room4Request`, `PairMax` and `QueueMax` stop users, never the timers or workers, from sending more.

*In `Guild`* three users are a master, an officer and a newcomer; members may be three, so that the limit is met, and a
guild has two levels. `Wishes` leaves each user the commands of his role. Four commands
are a found, a join, a leave and one more; two requests under way are one before and one behind another; one statement
fails, at any place. One and two workers are both looked at: with two, users 1 and 3 share a worker and 2 has his own.

*In `Economy`* the state space of all commands together is out of reach, and most commands touch disjoint rows. A run
is a set of scenarios (`Scenario`: which commands whom, how many of them, how many failing statements, how many
workers), each a group of commands around the same rows, chosen for the hazards they share; every command is in one,
most in one with a failing statement or with a disconnection and new login in its midst, but not every two commands
that touch a row in common (all that costs gold does) meet. Two workers are looked at where requests of several users,
or of none, may run on both. Prices are such that every command can be afforded sometimes and not always; limits are 3 cards and
3 pieces, met by two purchases. Two users are what the exchange, the fights and the arena need.

*In `Match`* eight players are two teams and a tree of four slots, the smallest where a team's two qualified meet the
other team's; two of the eight are users, the others the server's. One event of each kind (`MCBounds`) out of an upset,
a withdrawal, a departure, a refused game, a late end of a round and a restart happens per run; an instance of four players
with two events per run was run once (330 s) and showed nothing else.

`CHECK_DEADLOCK FALSE` stands in the configurations whose counters end the run (all but the lobby's).

## 4. Fairness

* The main loop never stops polling. Every turn, idle or not, it runs the `auto_*` functions, and at least once in 51
  turns `do_wchat_send`: `WF(DoWchatSend)`, `WF(AutoResp)`, `WF(AutoFold)`, `WF(AutoQuickMatch)`. Their intervals
  (three, five and thirty seconds) and the ages they compare are abstracted to "in the end".
* A handler or a packet that was begun is finished: `WF(MainStep)`.
* A readable pipe or a writable socket is reported by each poll, but between polls something else may make the step
  impossible for a moment (a handler running, output in front of the chat): `SF` for taking a reply and for sending
  chat. For chat this assumes that other output does not refill the buffer before *every* poll for ever.
* `StoredIsServed` is checked without `@dbrestart`, after which the stored commands of a connection wait until the
  client sends another one and `db_flag` is five seconds old.
* A worker's query returns; `my_query` gives up after three attempts: `WF` of the worker. `ChallengeSettles` does not
  need it, the timer settles a challenge by itself.
* Nothing is assumed of clients: they may stop at any time, and no fairness names `Recv`, `Login` or any command.

`QuickServed` is stated for designs that set `quick_robot_flag`, and takes the timer with everybody in the list old
enough, which is so after `QUICK_AUTO_ROBOT_TIME` without a partner; `OfflineFolds` excuses a player that comes back and a server that goes down. The guild, the economy and the
tournament are checked for safety; that a tournament is not stuck is the invariant `NeverStuck`, that a next round is
enabled whatever the players do.

## 5. Proofs

TLAPS checks these for all values of the constants that satisfy the ASSUMEs of the modules: a queue longer than one; a
ring, store and pool not empty; finite sets of users, workers and rooms; a first ranking without ties; two names that
are not connections (`ConnAssumption`); at the start of `Guild` a master has a guild of his own and every guild its
master (`FirstAssumption`). For the economy: users are numbers other than 0, a design has counts and lists of cards it
knows (`DesignAssumption`), and its first rows are within their limits. TLC evaluates them in every run.

One claim was corrected by its proof: `CapsKept` had been stated without exception, and no scenario of the run broke it.
The proof for any number of workers stopped where `in_buy_card` relies on a count that another worker may have added to,
and TLC, given `buy` and `pay` with two workers, indeed shows a fourth card where three are allowed. `CardsAlone` and
`PiecesAlone` now name these cases (section 6). `DeckBacked`, `OnceOnly` and `CopyExact` were restated in the same way:
looking for the invariant that carries each of them led to groups of commands no scenario had, and TLC to their
counterexamples.

| Theorem | For every | Argument |
|---|---|---|
| `WChatProofs!WindowIsLog` | queue length, number of readers | inductive invariant `IInv`: types, the log in the window and cursors not ahead, which need each other (a reader is never sent an unwritten slot). `WindowBounds` and `SlotOfWindow` say where a time stamp of the window lies, `AddKeepsLog` is the heart: a wraparound or a truncation maps each surviving time stamp to the slot it had |
| `WChatProofs!CursorsBehindTail` | " | part of `IInv` |
| `WChatProofs!OrderedChat` | " | `IInv` and `SentBehindCursor`: what was last delivered lies before the cursor, and a delivery returns the message at the cursor |
| `WChatProofs!ChatRefined` | " | each action is an action of `WorldChat` or a stutter; a moved reader lags by more than `Keep` because a truncated queue keeps at least that many (`LongWindow`) |
| `DbPipeProofs!RingsExact` | ring size, number of workers and connections | `TInv` (types, and that `main` points to a slot only while a reply is handled) and `RInv`, which states `RingOrder` and `RingUse` per worker until the first overrun; one lemma per way a slot moves: put, taken, answered, begun, finished, dropped; a batch with a restart in it ends in a fresh ring, in which the slot it clears is empty or the overrun is noted (`RestartedDone`) |
| `DbPipeProofs!SlotsOwned` | " | on top of `RInv`: what lies on the stream to a worker is a request, what lies on the stream to main a reply, and no slot is on two of them, since the slots on their way are an interval of the ring in order |
| `DbPipeProofs!FlagsBacked` | " | a slot with a request of the connection backs its flag; the flag is set only by `dbin_write`, which puts such a slot, and a slot leaves the ring only in a step that clears the flag or that finds another request of the connection |
| `DbPipeProofs!CommandsRunOnce` | " | `OneInv`: a command is in one slot (what a worker has read from it counts as the slot), at one place of `read_buffer` or at one of the batch, and at no two of them; a number not given yet is nowhere. Each step moves the command or drops it; a packet brings numbers not given before. It holds of the model even after a `read_buffer` ran over; stated it is for the time before (`Spilt`), since the program's memory is not the model's from then on |
| `DbPipeProofs!CommandsInOrder` | ", with every reply within five seconds (`~Slow`) | `InTime`: the flag never gets old, and while it is off nothing is stored, so a command that finds the flag off overtakes nobody. With slow replies TLC refutes it (section 6) |
| `ConnPoolProofs!FreeListExact` | MAX_CONNECT | `LInv`, which is `PoolExact` and that nobody was refused, is inductive given the types; `ListClose` and `ListTake` carry the witness, the list as a function, through the two ways it changes, and `ListShort` says that it is empty only at the limit |
| `ConnPoolProofs!SlotBelowLimit` | " | `LInv`: below the limit the list is not empty, so `new_conn` finds its head, until a packet quits twice |
| `ConnPoolProofs!SocketsOwned` | " | the lowest descriptor not open is no connection's; a quit too many closes descriptor 0, which no connection has until then |
| `LobbyProofs!LobbySound` | users, connections, channels, timers, faults | the inductive invariant `LInv`: `Sound` (types; `RoomAt`, `SeatAt`, `SessionAt`, `PoolAt`, `QuickAt`, one conjunct per table and key), `IdleAt` (a connection nobody has logged in on has no room) and what is known of the `game` requests under way (`PendingOK`). The operators of `Rooms` break `Sound` in the middle of a handler, so each has a lemma that says what it leaves when it is entered half-way (`do_clean` with the user gone from the index, `free_room` with its guests still pointing to it), and one lemma per handler puts them together |
| `LobbyProofs!TypeCorrect`, `SeatsStayExact`, `SessionsStayExact`, `PoolStaysExact` | " | read off `LInv`; all faults are allowed |
| `LobbyProofs!RoomsStayAlive`, `QuickStaysExact` | ", without the socket error that skips `do_clean` | `UsersInv`: besides `LInv`, whoever is seated in a waiting room or waits for a partner is connected (`UsersKept`, handler by handler). With the fault TLC refutes both |
| `LobbyProofs!TimersMeanAway`, `PlayersKeepSeats` | ", without a master that kicks itself | `GamesInv`: besides `LInv`, a running game's first two seats are taken and an offline timer is that of an absent player. `PlayersKeepSeats` is an action property: no step takes a player out of a game that goes on |
| `ChallengeProofs!RanksStayDistinct` | users, workers, rooms | only `ExchangeRanking` writes ranks, and it permutes two of them whatever they are by then — the very statement that lets a winner drop keeps ranks distinct |
| `ChallengeProofs!OnePerUser` | " | a pair is added only under `MayChallenge`, asked again in the reply; settling and removing (`RemovePlace`) leave the other pairs as they are |
| `ChallengeProofs!AnswersOnce` | " | `AInv`: the answers on their way to a challenger are at most its settled pairs in the list (`Covered`), and a pair that waits is the last of its challenger (`WaitsLast`), so the pair an answer takes away is a settled one |
| `GuildProofs!TypeInvariant` | users, workers, failing statements | what is known of a request by its command and statement (`ReqOK`), and that behind a request a worker is at all are new (`InTurn`); `Kinds` sorts the steps into a worker's, the main loop's and midnight |
| `GuildProofs!BonusPaidOnce` | " | `BInv`: what has been paid is dated or its request is the one about to date it, and what is found due has not been paid. It holds with several workers because the bonus goes to the worker of the user and `InTurn` leaves that worker one request between its statements (`WorkPaying`) |
| `GuildProofs!MemberListStaysExact` | users, failing statements; one worker | `MInv`: while a request is worked on or waits to be answered, what the connection will be told is known from its stage, so besides the list itself (`ListOK`) the invariant has the position of every user (`PosOK`), the chain of what the queued requests do to it (`ChainOK`, `BeforeOK`), what a waiting request assumes of its asker (`AskedOK`) and what a login has read (`LoginsOK`). Worker steps are sorted by stage (`Turn`), the main loop's by the reply they take (`ReplyOne`) |
| `GuildProofs!TotalStaysCovered` | " | `CInv`: the count of a guild has a place for its master (who may be without a guild for a while), one for each other member (`Held`), and one for a member who is counted but has not joined yet, or has left but is not counted out (`Spare`); a guild that does not exist has no members below a master. It needs `PosOK` of `MInv` |
| `GuildGoldProofs!GoldStaysKept` | users, any number of workers, failing statements | `GInv`: the ledger against `AllGold`, the same two sums as functions over users and over requests under way, and that these are numbers (`GuildMoney`, `MoneyOK`, `LevelsOK`, the last because the level a master sends is the cached one). For each statement `Books`: one purse changes and its request, by what the ledger changes, or it ends in `lapse`. An answered request carries nothing, so the reply that takes it, and moves every other request one place up, leaves the sum (`SumMoved`) |
| `GuildGoldProofs!CacheStaysTrue` | users, failing statements; one worker | `AInv`: for each user there is a run of values, one per reply under way, that starts at what his connection has cached (`Shows`), in which each reply makes of one value the next (`Told`), and whose value behind the request the worker is at agrees with the tables (`RunOK`). A statement changes a row and, in the same step, what its reply will tell (`Paid`, `Joined`, `Quits`, `Emptied`); a reply moves the connection one value along the run (`ToldShows`); a login's reply starts it again from the rows it has read. It asks that what has been done is also heard (`Spared`), and needs of `MInv` who asks and what of his guild still holds then (`AsksOK`) |
| `EconomyProofs!LimitsKept` | users, designs, scenarios, any number of workers, failing statements | `IInv`: the tables are in shape (`TablesOK`) and so is the queue of each worker (`LinesOK`): for a request, what it brings (`Payload`), what its worker has read by the statement it is at (`Known`) and what of that still holds of the rows (`Held`); and only the request a worker is at is half done (`Line`). `Held` lasts because the requests of a user are answered by one worker in turn, and the statements of the others either do not touch his rows or leave what he relies on. One lemma per command and one per statement |
| `*!TypeCorrect` | `WChat`, `DbPipe`, `ConnPool`, `Challenge` | action by action |

*Recursion.* `AutoFold` and `QuickMatch` of the lobby, the order of users (`InOrder`) and `EnqueueAny` are recursive
functions on Nat. The proofs unfold
them: `SetInduction`, derived from the well-foundedness of Nat, gives by induction on a set that the value exists and
keeps `Sound`; induction theorems that take a predicate are not needed. Sums are treated alike: a smallest set for which
a law of `SumOf` fails (`LeastSet`, from the well-foundedness of strict inclusion) has one element less to fail for.

*Only model-checked:* of the economy `NothingForNothing`, `CopyExact`, `OnceOnly` and
`DeckBacked`, which relate rows, copies and replies at once; the tournament; all liveness (`OfflineFolds`, `QuickServed`,
`StoredIsServed`, `ChallengeSettles`, the chat's), since TLAPS has no fairness or ENABLED. `Bracket` folds over places,
and worth is a fold over cards, with the community modules; such values for arbitrary data are out of the prover's reach.

## 6. Where the code and its comments disagree

One disagreement is a run that ends in a violation, quoted in `PROJECT.json`: `dbpipe_reply`, the main loop finds the
connection of a reply by slot number only; whoever has been accepted into the slot meanwhile gets the reply
(nio.cpp:30505, against 22715).

Others were met while modelling; they are in the models as the code has them, and the properties say what they leave:

* **Chat.** `wchat_index_ts` returns -1 for slots of a wrapped queue that hold messages; only the queue's own print and
  test call it, and it is not in the model. `wchat_ts` advances before the write, so a full socket loses a message
  (`Lose` in `WorldChat`).
* **Pipeline.** `dbin_write(NULL, …)` skips the test for a full ring (nio.cpp:22853) and overwrites a request; the
  invariants of the ring are stated until that happens. So they are until a `read_buffer` runs over (29583 and 29623: the
  bound is that of one call), and until a slot in use of a fresh ring is cleared after an `@dbrestart` in a stored batch
  (15308, 30522). A `db_flag` older than five seconds lets later commands
  overtake stored ones (29616), which is why `NoOvertaking` is checked with replies in time.
* **Pool.** Two quits in one packet (nio.cpp:30089, "this never run!") free a connection twice; after it the list is
  wrong and `new_conn` may find no slot below the limit. `AlwaysSlot` and `PoolExact` speak of the time before.
* **Lobby.** A socket error disconnects without `do_clean` (30584) and can leave a room nobody is connected to, so
  `RoomAlive` is checked without that fault. A start that fails after the room was set to `ST_GAME` leaves a custom room
  "in a game" (16583). A late reply to `game` may meet a different room: it can free a quick
  room whose game is running, or start a game whose second player has left (16540–16584). A master of a running game
  that kicks itself moves the seats (4875, against the comment before it), after which an offline player may never be
  folded (9849). `room_kick` may clean the room of a target that sits elsewhere (4888). With all quick rooms in use
  the quick match dereferences the NULL of `new_room` (7000); the model ends the process there.
* **Ranking.** Comparison and exchange of ranks are two statements (dbio.cpp:12436, against TODO-server.txt:664): between
  two workers a winner may drop. Each error exit of `out_resp_ranking_challenge` leaves the settled pair in the list,
  which keeps the first-pair look-up for these users stuck on it (against TODO-server.txt:4437). The pair it removes on
  success is the challenger's first, not the answered one. A challenger may enter another room while he waits and then be
  seated in two. A clone may be seated in two ranking games through `out_resp`. `rank_time` is tested by one request and
  spent by another; the last UPDATE then fails on the unsigned column and is only warned of.
* **Schema.** `db-init.sql` names the columns `erank`, `erank_time` (62, 2427, 2443), while most queries of `dbio.cpp` say
  `rank`, `rank_time` (12436, 18243, 18658) and a few `erank` (11582, 18174, 18208). The models read each query against
  a table with the column it names.
* **Guild.** With more than one worker TLC finds `TotalCovers` and `CacheAgrees` violated, which is why both are
  stated for one: `MAX_DB_THREAD` is 3 under the comment "do not change > 1 : not yet ready" (nio.cpp:230). A member who
  quits while his connection still says he applies is never subtracted from `total_member` (the request carries no
  limit). An INSERT of the guild that fails after the status was written leaves a master without a guild. A guild with no
  share row is not deleted by the DELETE with a JOIN, although its members were released; founding it again takes the gold
  and fails on the key. Share rows of members approved and gone in between stay behind.
* **Trade.** With two workers `NothingForNothing`, `CopyExact` and `OnceOnly` are violated; they are stated for one.
  `CapsKept` holds with any number, but for two cases it excepts (`CardsAlone`, `PiecesAlone`): `buy_card` reads the count
  in one statement (dbio.cpp:3009) and adds in another that has no limit of its own, `buy_exchange` likewise, so the cards
  of a first payment, which any worker may get, or an offer the operator takes back come in between and the row leaves
  the limit.
  Selling a piece takes a *card* from the copy, which may go below 0; a deck saved with it is refused.
  A deck may have cards its user does not own (`DeckBacked` excepts each of these): choosing a hero's slot looks at the
  number of its cards, not at whether they are still owned (dbio.cpp:17320); a deck is accepted by the copy before the
  reply to a sale (any reply clears `db_flag`, nio.cpp:22759); a card sold from the limit stays in the copy, since
  `add_card` does not leave the limit (nio.cpp:1610; `AstrayAtLimit`); a piece that was bought is counted as a card, since
  `out_buy_card` does not return where it has answered for a piece (17360), but goes on to add a card to the copy, to
  count it for the missions and to answer again (`Astray`); with two workers a payment or a login reads cards that a
  request of the other worker then adds again or takes back (`CopyAlone`); and who has no cards has zeros in the copy, to
  which the cards of a lottery are added while the row stays as it is. What is written whole from the copy when an
  earlier request is still under way (the piece shop, missions, a hero's missions) may give a second time what was had:
  `OnceOnly` excepts it (`CopyGuards`), and `CopyExact` a count that the reply to `lhero` takes back. A mission
  that changes before the list is loaded saves a fresh list over rewarded rows (`blind`). Draws, merges and the daily
  reward do not reach the copy. Taking back an offer deletes it even when giving the pieces back failed. Buying several
  pieces from an offer tells the copy the price of one. The lottery's test of money never refuses. The result of the
  INSERT of the pay log is ignored, so a first payment may be doubled twice. The key of a gift is marked last.
* **Games.** A game that ends while its player is logging in leaves the copy behind the row. The reward of a stage in
  experience puts level and experience of the copy back to before the stage. The loop over a hero's missions skips the last,
  that over chapters the last chapter; a chapter's mission without a count of stars gets that of three stars. The failure of
  `set_power` is overwritten (dbio.cpp:4060). The daily reset of the times of fights sets the copy to the maximum although
  a game's subtraction is queued before it. A drawn solo game for gold takes no time of the day. Folding early counts from
  more than five hearts for the income (nio.cpp:8025) and from five on for the missions (8260). `create_solo_plus_room`
  loses a room when the user is in one already (16897).
* **Arena.** The answer to an exchange goes to `out_win`; `out_arena_exchange` is never reached. The reward and the
  ranks are not in the copy. The reward reads the clock twice (dbio.cpp:19021 and in `__check_arena_reward`): a half day that begins
  between them is rewarded and still due. Two games asked for while one time is left are both allowed, the second is
  not charged. With three players and several workers a winner may drop, as in the ranking.
* **Tournament.** The reply to a `game` request of an earlier round puts the room of the next into `ST_GAME` without
  a game; a forced fold there reads a NULL Lua state, and the model restarts the server. `do_room_add_eid`
  seats a player who sits in another room (4143). A pair of round 3 that nobody decided leaves a place of the tree that
  nothing fills, and `match_round` says "no_round_ready" for ever; undecided pairs of other rounds are played again. A
  stop between the UPDATEs of one result leaves it half written: a pair with two winners, or one in two rounds. A
  restart in READY loses the tournament, since only status 1 and 2 are loaded.

## 7. What is not modelled

* The rules of the game (`logic.lua`, 21,600 lines): a game starts, runs and has a winner.
* Wording, parsing of arguments, logging, the texts of replies, commands that only list.
* The free slots' identity in `Lobby` and `DbPipe` (any free slot may be taken; `ConnPool` has the list); the content of
  requests in `DbPipe` (the other modules have it), and the slots of `DbPipe` in the others.
* The history of rankings; ratings, replays and ladders; the tower's lists; monthly cards and vip; cards won in games;
  crystal and the log of deposits in guilds; several tournaments at a time and their rewards.
* `achievement.cpp`, which no live code calls, and `gen_code.cpp`, a tool.
* The friend challenge: the ranking challenge without ranks.
* `fdwatch`: which descriptors are ready is the environment's choice, and a failing poll slot is a disconnect. MySQL's
  own behaviour: a statement succeeds as a whole or fails as a whole.
* Design tables, `@` commands other than those named, clients, robots, scripts and vendored code keep no state of the game.

## 8. Plan

Done: the chat, the pipeline and the pool, on which everything else runs; lobby, ranking challenge and guild; the whole
property of a user from purchases to the arena; the tournament; the proofs of section 5.

What would come next:

* The friend challenge as an instance of `Challenge`, and the seats of `Campaign`, `Fights` and `Match` composed with
  `Lobby`: one seat per user over all ways into a room.
* `RoomPool`: `new_room` and `free_room` as the linked list, which `Rooms` uses as a sequence, refining it.
* Proofs: the rest of the economy, and the tournament.
