------------------------------- MODULE Account -------------------------------
(***************************************************************************)
(* What a user owns: the rows of MySQL, the copy of some of them in the    *)
(* connection (euser), and the requests between the main loop, which       *)
(* checks what a user asks for against the copy, and the workers, which    *)
(* change the rows one statement at a time and without a transaction.      *)
(* The reply updates the copy.  This module has the state and the steps    *)
(* common to all commands; the modules that extend it have the commands.   *)
(*                                                                         *)
(* A request is the slot of DbPipe: here it keeps its content, and its     *)
(* worker's position in the function that answers it.  A reply whose       *)
(* connection is gone is dropped, and db_flag lasts until the reply.       *)
(***************************************************************************)
EXTENDS Missions, Sequences, SequencesExt

CONSTANTS
    User,          \* eids
    Design,        \* g_design: prices, lists, tables of rewards
    First,         \* the rows at the start
    EVIL_NUM_CARD_MAX, EVIL_NUM_PIECE_MAX,
    Scenarios,     \* bound: which commands who sends (does), the number of them
                   \* (sends), of statements that fail (fails), of workers
    QueueMax,      \* bound: requests under way when a command is sent
    NowMax         \* bound: of the clock

ASSUME AccountAssumption ==
    /\ User \subseteq Nat \ {0} /\ IsFiniteSet(User)
    /\ {EVIL_NUM_CARD_MAX, EVIL_NUM_PIECE_MAX, QueueMax, NowMax} \subseteq Nat
    /\ \A s \in Scenarios : s.workers \in Nat \ {0} /\ {s.sends, s.fails} \subseteq Nat

\* What the design has are counts, and lists of cards there are.
ASSUME DesignAssumption ==
    /\ Design.goods \subseteq Card /\ Design.counts \subseteq Nat
    /\ \A h \in 1 .. Design.HERO_MAX : Design.job[h] \in [Card -> 0 .. EVIL_NUM_CARD_MAX]
    /\ \A c \in DOMAIN Design.merge : Design.merge[c] \in [n : Nat, gold : Nat, crystal : Nat]
    /\ \A x \in DOMAIN Design.pitem : Design.pitem[x] \in [card : Card, n : Nat, gold : Nat, crystal : Nat]
    /\ Design.ten \subseteq Seq(Card) /\ Design.first_pay_cards \in Seq(Card)
    /\ \A k \in DOMAIN Design.gift : Design.gift[k].ran_team_list \in Seq(Nat)
    /\ Design.daily \in Seq([gold : Nat, cards : Seq(Card), pieces : [Card -> Nat]]) \ {<<>>}
    /\ Design.MAX_USER_POWER \in Nat
    /\ \A g \in DOMAIN Design.gate : Design.gate[g].power \in Nat
    /\ \A c \in DOMAIN Design.chapter : \A s \in DOMAIN Design.chapter[c] : Design.chapter[c][s].power \in Nat
    /\ Design.tower_buff_max \in Nat
    /\ Design.fight_times \in [ai : Nat, gold : Nat, crystal : Nat]
    /\ Design.ARENA_TIMES_STD \in Nat

\* The rows at the start are such as the program leaves them.
ASSUME FirstAssumption ==
    /\ \A e \in User : First.card[e] \in [Card -> 0 .. EVIL_NUM_CARD_MAX] \cup {[c \in Card |-> -48]}
    /\ DOMAIN First.card = User /\ First.piece \in [User -> [Card -> 0 .. EVIL_NUM_PIECE_MAX]]
    /\ First.deck \in [User -> [slot : Int, list : [Card -> 0 .. 9] \cup {<<>>}]]
    /\ First.power \in [User -> [left : Nat, at : Nat]]
    /\ First.times \in [User -> [ai : Nat, gold : Nat, crystal : Nat]]
    /\ First.tower \in [User -> [on : BOOLEAN, pos : Nat, buff : {0, 1},
                                 res : 0 .. Design.tower_buff_max, energy : 0 .. Design.tower_buff_max]]
    /\ First.status_tower \in [User -> [pos : Nat, times : Nat]]
    /\ First.status_arena \in [User -> [times : Nat, last : Int]]
    /\ First.arena \in [User -> Nat]
    /\ \A e, g \in User : e # g /\ First.arena[e] > 0 => First.arena[e] # First.arena[g]
    /\ First.exchange = <<>> /\ First.offers = 0
    /\ \A e \in User : First.pshop[e].last = 0
    /\ {"card", "piece", "deck", "power", "times", "tower", "status_tower", "status_arena", "arena",
        "exchange", "offers", "pshop"} \subseteq DOMAIN First

VARIABLES
    scenario,  \* the bounds of this behaviour, one of Scenarios
    now,       \* the clock, in half days
    db,        \* the tables: a record of functions of the user
    conn,      \* the user's connection: up, db_flag (busy) and euser
    queue,     \* worker -> its requests, from the oldest one not yet answered
    cmds,      \* history: commands sent
    fails,     \* history: statements that failed
    early,     \* history: a command was sent before all replies to its user had come
    lapse      \* history: a request stopped half-way, nobody heard its reply, or
               \* a game ended while a player of it was logging in

bounds == <<scenario, cmds, fails, early>>
vars == <<bounds, now, db, conn, queue, lapse>>

threads == scenario.workers    \* MAX_DB_THREAD
Thread == 0 .. threads - 1
Unit == {"gold", "crystal"}
Today == now \div 2 + 1
NoOne == 0         \* the connection has gone
Office == -1       \* a connection of the administration
Clip(n, max) == IF n > max THEN max ELSE n

\* What a has, and what b has besides.
With(a, b) == [x \in DOMAIN a \cup DOMAIN b |-> IF x \in DOMAIN a THEN a[x] ELSE b[x]]

\* A request: whose connection hears the answer (by), about which user (e),
\* its numbers (a), how far the worker is (at), what it has read (got), and
\* whether it succeeded.
NewRequest(cmd, e, a) ==
    [cmd |-> cmd, by |-> e, e |-> e, a |-> a, at |-> "new", good |-> FALSE, got |-> <<>>]

Requests == UNION {{<<th, i>> : i \in 1 .. Len(queue[th])} : th \in Thread}
At(r) == queue[r[1]][r[2]]

------------------------------------------------------------------------------
(* The main loop sends requests.                                           *)

\* The scenario has the command, or what happens besides.
May(cmd, e) == <<cmd, e>> \in scenario.does

\* The connection may be given a command, and the client sends this one.
MaySend(e, cmd) ==
    /\ conn[e].up /\ ~conn[e].busy
    /\ May(cmd, e) /\ cmds < scenario.sends /\ Cardinality(Requests) < QueueMax

Enqueue(lines, e, requests) == [lines EXCEPT ![e % threads] = @ \o requests]

\* Requests of several connections, or of none: those any worker may have.
EnqueueAny(requests) ==
    \E office \in [{k \in DOMAIN requests : requests[k].by = Office} -> Thread] :
        LET line(k) == IF k \in DOMAIN office THEN office[k] ELSE requests[k].by % threads
            sent[k \in 0 .. Len(requests)] ==
                IF k = 0 THEN queue ELSE [sent[k - 1] EXCEPT ![line(k)] = Append(@, requests[k])]
        IN queue' = sent[Len(requests)]

\* dbin_write(), once or more, with the connection as the handler leaves it.
DbinWriteAll(e, cmd, u, requests) ==
    /\ MaySend(e, cmd)
    /\ queue' = Enqueue(queue, e, requests)
    /\ conn' = [conn EXCEPT ![e] = [u EXCEPT !.busy = requests # <<>>]]
    /\ cmds' = cmds + 1
    /\ early' = (early \/ \E r \in Requests : At(r).by = e)
    /\ UNCHANGED <<scenario, now, db, fails, lapse>>

DbinWrite(e, cmd, a) == DbinWriteAll(e, cmd, conn[e], <<NewRequest(cmd, e, a)>>)

\* The administration sends a command about e: by any worker, nobody waits.
DbinOffice(cmd, e, a) ==
    /\ May(cmd, e) /\ cmds < scenario.sends /\ Cardinality(Requests) < QueueMax
    /\ \E th \in Thread :
          queue' = [queue EXCEPT ![th] = Append(@, [NewRequest(cmd, e, a) EXCEPT !.by = Office])]
    /\ cmds' = cmds + 1
    /\ UNCHANGED <<scenario, now, db, conn, fails, early, lapse>>

------------------------------------------------------------------------------
(* A worker executes statements.  ok says that the statement does not fail *)
(* with an error of MySQL.                                                 *)

\* A worker answers its requests in order.
Current(r) ==
    /\ At(r).at # "done"
    /\ \A j \in 1 .. r[2] - 1 : queue[r[1]][j].at = "done"

\* The request goes on at another statement, or ends: "good", "bad" before
\* it has changed anything, "broke" after.
Goes(r, at, got) ==
    queue' = [queue EXCEPT ![r[1]][r[2]] =
        [@ EXCEPT !.at = IF at \in {"good", "bad", "broke"} THEN "done" ELSE at,
                  !.good = at = "good", !.got = got]]

\* A query: cond is what the function asks of its result, got what it keeps.
Read(r, ok, at, cond, got, yes, no) ==
    /\ At(r).at = at /\ UNCHANGED db
    /\ IF ok /\ cond THEN Goes(r, yes, got) ELSE Goes(r, no, <<>>)
    /\ lapse' = (lapse \/ (~(ok /\ cond) /\ no = "broke"))

\* An update: cond is its WHERE and what the function asks of the rows affected.
Write(r, ok, at, cond, rows, yes, no) ==
    /\ At(r).at = at
    /\ IF ok /\ cond THEN db' = rows /\ Goes(r, yes, At(r).got)
       ELSE UNCHANGED db /\ Goes(r, no, At(r).got)
    /\ lapse' = (lapse \/ (~(ok /\ cond) /\ no = "broke"))

\* An update whose failure is only logged.
Try(r, ok, at, cond, rows, then) ==
    /\ At(r).at = at /\ Goes(r, then, At(r).got)
    /\ IF ok /\ cond THEN db' = rows ELSE UNCHANGED db
    /\ lapse' = (lapse \/ ~(ok /\ cond))

\* update_money(): never below 0.
Affords(e, gold, crystal) == db.gold[e] + gold >= 0 /\ db.crystal[e] + crystal >= 0

UpdateMoney(rows, e, gold, crystal) ==
    [rows EXCEPT !.gold[e] = @ + gold, !.crystal[e] = @ + crystal]

\* get_card_count(), get_piece_count(): a statement of its own, that asks for
\* enough or for room; who has no cards yet, has no count, which is an error.
GetCardCount(r, ok, c, enough, then) ==
    LET n == db.card[At(r).e][c] IN Read(r, ok, "new", n \in enough, <<>>, then, "bad")

GetPieceCount(r, ok, at, c, enough, then) ==
    LET n == db.piece[At(r).e][c] IN Read(r, ok, at, n \in enough, At(r).got, then, "bad")

\* Mutant: without the limits.
UpdateCardAnyhow(rows, e, c, n) == [rows EXCEPT !.card[e][c] = @ + n]

\* update_card(), db_add_card(): between 0 and the limit, or not at all.
UpdateCard(rows, e, c, n) ==
    [rows EXCEPT !.card[e][c] = IF @ + n \in 0 .. EVIL_NUM_CARD_MAX THEN @ + n ELSE @]

\* update_piece(): clipped at the limit, never below 0; it is an error that
\* the row stays as it is.
MayUpdatePiece(e, c, n) ==
    db.piece[e][c] + n >= 0 /\ Clip(db.piece[e][c] + n, EVIL_NUM_PIECE_MAX) # db.piece[e][c]
UpdatePiece(rows, e, c, n) == [rows EXCEPT !.piece[e][c] = Clip(@ + n, EVIL_NUM_PIECE_MAX)]

\* __update_piece_list(): by a function of the card.
UpdatePieceList(rows, e, list) ==
    [rows EXCEPT !.piece[e] = [c \in Card |-> Clip(@[c] + list[c], EVIL_NUM_PIECE_MAX)]]

\* History: what a user may have once and has been given, or given again.
Given(rows, reward) ==
    [rows EXCEPT !.given = @ \cup {reward}, !.again = @ \cup (rows.given \cap {reward})]

\* History: cards of which the copy comes to show more than there are. It stays
\* where it is when one is sold from the limit (AddCard), and counts a piece that
\* is bought as a card (OutBuyCard).
Astray(rows, e, c) == [rows EXCEPT !.astray = @ \cup {<<e, c>>}]
AstrayAtLimit(rows, e, c) == IF db.card[e][c] = EVIL_NUM_CARD_MAX THEN Astray(rows, e, c) ELSE rows

\* What things are worth in gold, and the history of what is given for nothing.
CardWorth(card) == FoldFunction(+, 0, [c \in Card |-> Design.worth[c].card * card[c]])
PieceWorth(piece) == FoldFunction(+, 0, [c \in Card |-> Design.worth[c].piece * piece[c]])
ListWorth(cards) == FoldFunction(+, 0, [i \in DOMAIN cards |-> Design.worth[cards[i]].card])
MoneyWorth(gold, crystal) == gold + Design.exchange_crystal_gold * crystal
Granted(rows, worth) == [rows EXCEPT !.granted = @ + worth]

------------------------------------------------------------------------------
(* The copy in the connection.                                             *)

\* A card list that is not loaded: '\0' read as a digit.
NoCards == [c \in Card |-> -48]
NoDeck == <<>>
NoBatch == <<>>

\* add_card(): not beyond the limit, and not from it either.
AddCard(u, c, n) ==
    IF u.card[c] \in 0 .. EVIL_NUM_CARD_MAX - 1
    THEN [u EXCEPT !.card[c] = Clip(@ + n, EVIL_NUM_CARD_MAX)] ELSE u

AddMoney(u, gold, crystal) == [u EXCEPT !.gold = @ + gold, !.crystal = @ + crystal]

Profiled(u) == [lv |-> u.lv, guild_lv |-> 0, card |-> u.card]

\* The *_mission_update() functions: an event is a type with its parameters.
Happened(u, events) ==
    [u EXCEPT !.mis = FoldLeft(LAMBDA l, v : MissionUpdate(l, v[1], v[2], v[3], v[4], 0), @, events)]

\* change_mission()
ChangeMission(u, events) ==
    [u EXCEPT !.mis = MissionRefresh(Happened(u, events).mis, Profiled(u), Today)]

\* save_mission(): the whole list, if anything in it has changed.
SaveMission(e, old, new) ==
    IF new.mis = old.mis THEN <<>>
    ELSE <<NewRequest("smis", e, [mis |-> new.mis, seen |-> new.seen])>>

------------------------------------------------------------------------------
(* The main loop takes a reply.                                            *)

\* The oldest request of a worker is answered, and somebody hears it.
Answered(th, cmd) ==
    /\ queue[th] # <<>>
    /\ Head(queue[th]).at = "done" /\ Head(queue[th]).good /\ Head(queue[th]).by # NoOne
    /\ Head(queue[th]).cmd = cmd

NextReply(th) == [queue EXCEPT ![th] = Tail(@)]

\* dbout(): the reply is taken; the handler leaves the connections as c, and
\* sends more for the connection that has asked.  Then db_flag is reset, for
\* what the handler has sent as well: the client need not wait for that.
Dbout(th, c, more) ==
    LET by == Head(queue[th]).by IN
    /\ queue' = Enqueue(NextReply(th), by, more)
    /\ conn' = [c EXCEPT ![by].busy = FALSE]
    /\ UNCHANGED <<bounds, now, db, lapse>>

\* The handler changes the copy of the user who has asked, tells its
\* missions what happened, and saves them.
DboutUser(th, u, events) ==
    LET e == Head(queue[th]).by
        new == ChangeMission(u, events)
    IN Dbout(th, [conn EXCEPT ![e] = new], SaveMission(e, u, new))

\* ... or has no mission to tell.
DboutOnly(th, u) == Dbout(th, [conn EXCEPT ![Head(queue[th]).by] = u], <<>>)

\* ... or may be the administration's, or of a connection that has gone.
DboutAny(th, c) ==
    LET by == Head(queue[th]).by IN
    /\ queue' = NextReply(th)
    /\ conn' = IF by \in User THEN [c EXCEPT ![by].busy = FALSE] ELSE c
    /\ UNCHANGED <<bounds, now, db, lapse>>

\* An error is only reported; of a reply nobody hears nobody learns.
DboutError(th) ==
    /\ queue[th] # <<>> /\ Head(queue[th]).at = "done"
    /\ LET q == Head(queue[th]) IN
       /\ ~q.good \/ q.by = NoOne
       /\ queue' = NextReply(th)
       /\ conn' = IF q.by \in User THEN [conn EXCEPT ![q.by].busy = FALSE] ELSE conn
       /\ lapse' = (lapse \/ q.good)
       /\ UNCHANGED <<bounds, now, db>>
=============================================================================
