------------------------------- MODULE DbPipe -------------------------------
(***************************************************************************)
(* The path of a database request: client command -> dbin_write -> a slot  *)
(* of a worker thread's ring -> dbio() -> the same slot -> dbout -> client.*)
(* The main loop of nio.cpp is one thread; `main' says what it is doing.   *)
(* The workers of dbio.cpp run beside it and share only the slots and two  *)
(* byte streams of slot numbers per worker.                                *)
(*                                                                         *)
(* Abstracted: what a request asks, SQL, and the text of replies.  A token *)
(* of a packet is a login ("log"), another command that needs the database *)
(* ("cmd", it needs a login) or a quit.  Slots of g_connect_list are taken *)
(* in any order; module ConnPool models their free list.                   *)
(***************************************************************************)
EXTENDS Integers, Sequences, FiniteSets

CONSTANTS Conn,         \* the slots of g_connect_list
          Thread,       \* the MAX_DB_THREAD workers
          Ring,         \* DB_TRANS_MAX
          StoreMax,     \* commands that fit in conn->read_buffer
          MaxSession,   \* bound: sessions (accepted sockets and logins)
          MaxToken,     \* bound: commands received
          MaxOffline,   \* bound: requests written without a connection
          MaxRestart,   \* bound: @dbrestart commands
          Slow          \* whether a reply may take more than five seconds

ASSUME RingAssumption == Ring \in Nat \ {0}
ASSUME StoreAssumption == StoreMax \in Nat \ {0}
ASSUME BoundAssumption == MaxSession \in Nat /\ MaxToken \in Nat

None == "none"          \* no connection: cid -3 in a request
Bad == "bad"            \* the cid -1 of a slot that could not be parsed
ASSUME ConnAssumption == Conn \cap {None, Bad} = {}
Free == 0               \* the session of a connection in STATE_FREE

Index == 0 .. Ring - 1
Ops == {"log", "cmd", "load", "auto"}

VARIABLES
    session,    \* history: who is on the connection (STATE_FREE: Free)
    home,       \* worker of the logged-in eid, None before login
    flag,       \* conn->db_flag: "off", "on", or "old" (set over 5 s ago)
    stored,     \* conn->read_buffer: commands waiting for db_flag
    main,       \* [phase, conn, batch, slot, stale, writes] of the main loop
    next,       \* g_dbio_data[t].buffer_index
    slot,       \* g_dbio_data[t].db_buffer
    toWorker,   \* slot numbers written by main, not yet read by dbio
    busy,       \* the slot dbio is working on with its parsed request
    toMain,     \* slot numbers written by dbio, not yet read by main
    overrun,    \* history: "slot" if a slot in use was written over or cleared,
                \* "store" if more was stored than read_buffer can hold
    count       \* history: sessions, tokens, offline writes, restarts so far

conns == <<session, home, flag, stored>>
pipes == <<next, slot, toWorker, busy, toMain, overrun>>
vars == <<session, home, flag, stored, main, next, slot, toWorker, busy,
          toMain, overrun, count>>

----------------------------------------------------------------------------

Empty == [tag |-> "empty"]
Message(c, o, s, n) == [tag |-> "req", conn |-> c, op |-> o, session |-> s, n |-> n]
Messages ==
    [tag : {"req", "rep"}, conn : Conn \cup {None, Bad}, op : Ops,
     session : 0 .. MaxSession, n : 0 .. MaxToken]

Unparsed == [tag |-> "rep", conn |-> Bad, op |-> "cmd", session |-> Free, n |-> 0]

Token == [op : {"log", "cmd", "quit"}, n : 1 .. MaxToken]
NoSlot == <<>>

\* slot is that of the reply in hand, stale the same after its ring was thrown
\* away: the main loop keeps a pointer to it.
Idle == [phase |-> "idle", conn |-> None, batch |-> <<>>, slot |-> NoSlot,
         stale |-> NoSlot, writes |-> 0]

Live(c) == session[c] # Free

\* dbin_get_db_index: eid % MAX_DB_THREAD, or any worker before login.
DbIndex(c) == IF home[c] = None THEN Thread ELSE {home[c]}

\* dbin_write of message m to worker t after the check for a full ring.
Put(t, m) ==
    /\ slot' = [slot EXCEPT ![t][next[t]] = m]
    /\ toWorker' = [toWorker EXCEPT ![t] = Append(@, next[t])]
    /\ next' = [next EXCEPT ![t] = IF @ + 1 >= Ring THEN 0 ELSE @ + 1]
    /\ UNCHANGED <<busy, toMain>>

RingFull(t) == slot[t][next[t]] # Empty

\* Mutant: db_flag is set before the ring is found full.
WriteFlagFirst(c, o, n) ==
    /\ flag' = [flag EXCEPT ![c] = "on"]
    /\ \E t \in DbIndex(c) :
        IF RingFull(t)
        THEN UNCHANGED pipes
        ELSE Put(t, Message(c, o, session[c], n)) /\ UNCHANGED overrun

\* dbin_write for a connection: a full ring is an error and writes nothing.
dbin_write(c, o, n) ==
    \E t \in DbIndex(c) :
        IF RingFull(t)
        THEN UNCHANGED <<pipes, flag>>
        ELSE /\ Put(t, Message(c, o, session[c], n))
             /\ flag' = [flag EXCEPT ![c] = "on"]
             /\ UNCHANGED overrun

Init ==
    /\ session = [c \in Conn |-> Free]
    /\ home = [c \in Conn |-> None]
    /\ flag = [c \in Conn |-> "off"]
    /\ stored = [c \in Conn |-> <<>>]
    /\ main = Idle
    /\ next = [t \in Thread |-> 0]
    /\ slot = [t \in Thread |-> [i \in Index |-> Empty]]
    /\ toWorker = [t \in Thread |-> <<>>]
    /\ busy = [t \in Thread |-> NoSlot]
    /\ toMain = [t \in Thread |-> <<>>]
    /\ overrun = {}
    /\ count = [session |-> 0, token |-> 0, offline |-> 0, restart |-> 0]

----------------------------------------------------------------------------
(* The main loop between two handlers                                      *)

IsIdle == main.phase = "idle"

NewSession(c) ==
    /\ count.session < MaxSession
    /\ count' = [count EXCEPT !.session = @ + 1]
    /\ session' = [session EXCEPT ![c] = count.session + 1]

\* handle_newconnect and new_conn: db_flag and read_buffer are reset.
Accept(c) ==
    /\ IsIdle /\ ~Live(c)
    /\ NewSession(c)
    /\ flag' = [flag EXCEPT ![c] = "off"]
    /\ stored' = [stored EXCEPT ![c] = <<>>]
    /\ UNCHANGED <<home, main, pipes>>

\* free_conn: bzero of the whole connection.
FreeConn(c) ==
    /\ session' = [session EXCEPT ![c] = Free]
    /\ home' = [home EXCEPT ![c] = None]
    /\ flag' = [flag EXCEPT ![c] = "off"]
    /\ stored' = [stored EXCEPT ![c] = <<>>]

\* The client is gone, or is kicked: nothing cancels its requests.
Disconnect(c) ==
    /\ IsIdle /\ Live(c)
    /\ FreeConn(c)
    /\ UNCHANGED <<main, pipes, count>>

Packets == {<<o>> : o \in {"log", "cmd", "quit"}} \cup
           {<<o, p>> : o, p \in {"log", "cmd", "quit"}}
Numbered(ops) == [i \in 1 .. Len(ops) |-> [op |-> ops[i], n |-> count.token + i]]

\* do_read: a packet of one or two commands becomes the batch.
Recv(c) ==
    /\ IsIdle /\ Live(c)
    /\ \E ops \in Packets :
        /\ count.token + Len(ops) <= MaxToken
        /\ main' = [Idle EXCEPT !.phase = "batch", !.conn = c,
                                !.batch = Numbered(ops)]
        /\ count' = [count EXCEPT !.token = @ + Len(ops)]
    /\ UNCHANGED <<conns, pipes>>

\* More than five seconds pass while a request is outstanding.
Age(c) ==
    /\ Slow /\ flag[c] = "on"
    /\ flag' = [flag EXCEPT ![c] = "old"]
    /\ UNCHANGED <<session, home, stored, main, pipes, count>>

\* dbin_write(NULL, ...) of the timers: the check for a full ring is skipped,
\* the request is written over whatever the slot holds.
OfflineWrite(t) ==
    /\ IsIdle /\ count.offline < MaxOffline
    /\ Put(t, Message(None, "auto", Free, 0))
    /\ overrun' = IF RingFull(t) THEN overrun \cup {"slot"} ELSE overrun
    /\ count' = [count EXCEPT !.offline = @ + 1]
    /\ UNCHANGED <<conns, main>>

----------------------------------------------------------------------------
(* do_batch_command, one token at a time                                   *)

InBatch(c) == main.phase = "batch" /\ main.conn = c /\ main.batch # <<>>

\* A db_flag older than five seconds is taken for a lost reply.
BatchUnjam(c) ==
    /\ InBatch(c) /\ flag[c] = "old"
    /\ flag' = [flag EXCEPT ![c] = "off"]
    /\ UNCHANGED <<session, home, stored, main, pipes, count>>

\* store_read_buffer: what fits in an empty read_buffer; what it holds already
\* is not counted.
Fitting(b) == SubSeq(b, 1, IF Len(b) < StoreMax THEN Len(b) ELSE StoreMax)

\* A request is outstanding: what is left of the batch is appended to
\* read_buffer, be it beyond its end.
BatchStore(c) ==
    /\ InBatch(c) /\ flag[c] = "on"
    /\ stored' = [stored EXCEPT ![c] = @ \o Fitting(main.batch)]
    /\ overrun' = IF Len(stored[c] \o Fitting(main.batch)) > StoreMax
                  THEN overrun \cup {"store"} ELSE overrun
    /\ main' = [main EXCEPT !.batch = <<>>]
    /\ UNCHANGED <<session, home, flag, next, slot, toWorker, busy, toMain, count>>

\* process_command.  After a quit the batch goes on, on a free connection:
\* "log" needs no state and is written to the ring, "cmd" is refused.
BatchCommand(c) ==
    /\ InBatch(c) /\ flag[c] = "off"
    /\ main' = [main EXCEPT !.batch = Tail(@)]
    /\ LET tok == Head(main.batch)
       IN  \/ /\ \/ tok.op = "log"
                 \/ tok.op = "cmd" /\ home[c] # None
              /\ dbin_write(c, tok.op, tok.n)
              /\ UNCHANGED <<session, home, stored>>
           \/ /\ tok.op = "cmd" /\ home[c] = None
              /\ UNCHANGED <<conns, pipes>>
           \/ /\ tok.op = "quit"
              /\ FreeConn(c)
              /\ UNCHANGED pipes
    /\ UNCHANGED count

\* The command @dbrestart, which asks for no login: the workers are stopped, the
\* rings and pipes start afresh; the connections are not told, nor is the main
\* loop, if the batch was stored and is run on a reply.
DbRestart(c) ==
    /\ InBatch(c) /\ flag[c] = "off" /\ Head(main.batch).op = "cmd"
    /\ count.restart < MaxRestart
    /\ main' = [main EXCEPT !.batch = Tail(@), !.slot = NoSlot,
                            !.stale = IF main.slot = NoSlot THEN @ ELSE main.slot]
    /\ next' = [t \in Thread |-> 0]
    /\ slot' = [t \in Thread |-> [i \in Index |-> Empty]]
    /\ toWorker' = [t \in Thread |-> <<>>]
    /\ busy' = [t \in Thread |-> NoSlot]
    /\ toMain' = [t \in Thread |-> <<>>]
    /\ count' = [count EXCEPT !.restart = @ + 1]
    /\ UNCHANGED <<conns, overrun>>

\* After a restart in the batch, the slot of the old number is cleared in the
\* fresh ring, whatever has been written to it.
BatchDoneRestarted ==
    /\ main.phase = "batch" /\ main.batch = <<>> /\ main.stale # NoSlot
    /\ main' = Idle
    /\ slot' = [slot EXCEPT ![main.stale[1]][main.stale[2]] = Empty]
    /\ overrun' = IF slot[main.stale[1]][main.stale[2]] = Empty
                  THEN overrun ELSE overrun \cup {"slot"}
    /\ UNCHANGED <<conns, next, toWorker, busy, toMain, count>>

\* The batch is done; after a drain the slot of the reply is cleared.
BatchDone ==
    /\ main.phase = "batch" /\ main.batch = <<>> /\ main.stale = NoSlot
    /\ main' = Idle
    /\ slot' = IF main.slot = NoSlot THEN slot
               ELSE [slot EXCEPT ![main.slot[1]][main.slot[2]] = Empty]
    /\ UNCHANGED <<conns, next, toWorker, busy, toMain, overrun, count>>

----------------------------------------------------------------------------
(* A reply: dbio_check of the main loop, and dbout                         *)

\* Mutant: "continue" without clearing the slot (the server of 2014-10-13).
DropWithoutClear(t) ==
    /\ IsIdle /\ toMain[t] # <<>>
    /\ LET m == slot[t][Head(toMain[t])]
       IN  m = Empty \/ m.conn \in {None, Bad} \/ ~Live(m.conn)
    /\ toMain' = [toMain EXCEPT ![t] = Tail(@)]
    /\ UNCHANGED <<conns, main, next, slot, toWorker, busy, overrun, count>>

\* The slot number is read.  A reply without a connection runs its handler
\* with conn NULL; one for a free connection, or that cannot be parsed, is
\* dropped; in these cases the slot is cleared at once.
ReplyDropped(t) ==
    /\ IsIdle /\ toMain[t] # <<>>
    /\ LET i == Head(toMain[t])
           m == slot[t][i]
       IN  /\ \/ m = Empty
              \/ m # Empty /\ m.conn \in {None, Bad}
              \/ m # Empty /\ m.conn \in Conn /\ ~Live(m.conn)
           /\ slot' = [slot EXCEPT ![t][i] = Empty]
    /\ toMain' = [toMain EXCEPT ![t] = Tail(@)]
    /\ UNCHANGED <<conns, main, next, toWorker, busy, overrun, count>>

\* A reply for a connection in use: its handler starts.
ReplyBegin(t) ==
    /\ IsIdle /\ toMain[t] # <<>>
    /\ LET i == Head(toMain[t])
           m == slot[t][i]
       IN  /\ m # Empty /\ m.conn \in Conn
           /\ Live(m.conn)
           /\ main' = [Idle EXCEPT !.phase = "handler", !.conn = m.conn,
                                   !.slot = <<t, i>>]
    /\ toMain' = [toMain EXCEPT ![t] = Tail(@)]
    /\ UNCHANGED <<conns, next, slot, toWorker, busy, overrun, count>>

Handled == slot[main.slot[1]][main.slot[2]]

\* out_login or out_register of a good password: the connection becomes the
\* player's; out_login asks for the missions and the heroes (two requests).
HandlerLogin ==
    /\ main.phase = "handler" /\ Handled.op = "log"
    /\ NewSession(main.conn)
    /\ \E t \in Thread : home' = [home EXCEPT ![main.conn] = t]
    /\ \E w \in {0, 2} : main' = [main EXCEPT !.phase = "follow", !.writes = w]
    /\ UNCHANGED <<flag, stored, pipes>>

HandlerFollow ==
    /\ main.phase = "follow" /\ main.writes > 0
    /\ dbin_write(main.conn, "load", 0)
    /\ main' = [main EXCEPT !.writes = @ - 1]
    /\ UNCHANGED <<session, home, stored, count>>

\* Mutant: read_buffer is not emptied before it is run.
DoneKeepStored ==
    /\ main.phase \in {"handler", "follow"} /\ main.writes = 0
    /\ flag' = [flag EXCEPT ![main.conn] = "off"]
    /\ main' = [main EXCEPT !.phase = "batch", !.batch = stored[main.conn]]
    /\ UNCHANGED <<session, home, stored, pipes, count>>

\* Mutant: read_buffer is left for a later packet.
DoneNoDrain ==
    /\ main.phase \in {"handler", "follow"} /\ main.writes = 0
    /\ flag' = [flag EXCEPT ![main.conn] = "off"]
    /\ main' = [main EXCEPT !.phase = "batch"]
    /\ UNCHANGED <<session, home, stored, pipes, count>>

\* dbout's cleanup: db_flag is cleared and read_buffer becomes the batch.
HandlerDone ==
    /\ main.phase \in {"handler", "follow"} /\ main.writes = 0
    /\ flag' = [flag EXCEPT ![main.conn] = "off"]
    /\ stored' = [stored EXCEPT ![main.conn] = <<>>]
    /\ main' = [main EXCEPT !.phase = "batch", !.batch = stored[main.conn]]
    /\ UNCHANGED <<session, home, pipes, count>>

----------------------------------------------------------------------------
(* dbio(), the worker threads                                              *)

\* Two bytes are read and the slot is parsed.
WorkerTake(t) ==
    /\ busy[t] = NoSlot /\ toWorker[t] # <<>>
    /\ LET i == Head(toWorker[t])
       IN  busy' = [busy EXCEPT ![t] =
                       <<i, IF slot[t][i] = Empty THEN Unparsed ELSE slot[t][i]>>]
    /\ toWorker' = [toWorker EXCEPT ![t] = Tail(@)]
    /\ UNCHANGED <<conns, main, next, slot, toMain, overrun, count>>

\* Mutant: main is signalled before the reply is in the slot.
DoneSignalFirst(t) ==
    /\ busy[t] # NoSlot
    /\ toMain' = [toMain EXCEPT ![t] = Append(@, busy[t][1])]
    /\ busy' = [busy EXCEPT ![t] = NoSlot]
    /\ UNCHANGED <<conns, main, next, slot, toWorker, overrun, count>>

\* in_list[dbtype] has run: the reply takes the place of the request.
WorkerDone(t) ==
    /\ busy[t] # NoSlot
    /\ slot' = [slot EXCEPT ![t][busy[t][1]] = [busy[t][2] EXCEPT !.tag = "rep"]]
    /\ toMain' = [toMain EXCEPT ![t] = Append(@, busy[t][1])]
    /\ busy' = [busy EXCEPT ![t] = NoSlot]
    /\ UNCHANGED <<conns, main, next, toWorker, overrun, count>>

MainStep ==
    \/ BatchDone \/ BatchDoneRestarted \/ HandlerLogin \/ HandlerFollow \/ HandlerDone
    \/ \E c \in Conn : BatchUnjam(c) \/ BatchStore(c) \/ BatchCommand(c) \/ DbRestart(c)

Next ==
    \/ MainStep
    \/ \E c \in Conn : Accept(c) \/ Disconnect(c) \/ Recv(c) \/ Age(c)
    \/ \E t \in Thread : \/ OfflineWrite(t) \/ ReplyDropped(t) \/ ReplyBegin(t)
                         \/ WorkerTake(t) \/ WorkerDone(t)

Spec == Init /\ [][Next]_vars

\* A handler and a batch run to their end; poll reports a readable pipe in
\* every turn of the loop; a worker's query returns (my_query gives up after
\* three attempts).
Fairness ==
    /\ WF_vars(MainStep)
    /\ \A t \in Thread : /\ SF_vars(ReplyDropped(t) \/ ReplyBegin(t))
                         /\ WF_vars(WorkerTake(t) \/ WorkerDone(t))

FairSpec == Spec /\ Fairness

----------------------------------------------------------------------------
(* Correctness                                                             *)

\* A read_buffer has been written beyond its end: what it and its neighbours
\* hold from then on is not the model's to say.
Spilt == "store" \in overrun

TypeOK ==
    /\ session \in [Conn -> 0 .. MaxSession]
    /\ home \in [Conn -> Thread \cup {None}]
    /\ flag \in [Conn -> {"off", "on", "old"}]
    /\ \A c \in Conn : stored[c] \in Seq(Token)
    /\ main.phase \in {"idle", "batch", "handler", "follow"}
    /\ main.conn \in Conn \cup {None} /\ main.batch \in Seq(Token)
    /\ main.slot = NoSlot \/ main.slot \in Thread \X Index
    /\ main.stale = NoSlot \/ main.stale \in Thread \X Index
    /\ main.writes \in 0 .. 2
    /\ next \in [Thread -> Index]
    /\ slot \in [Thread -> [Index -> Messages \cup {Empty}]]
    /\ toWorker \in [Thread -> Seq(Index)]
    /\ \A t \in Thread : busy[t] = NoSlot \/ busy[t] \in Index \X Messages
    /\ toMain \in [Thread -> Seq(Index)]
    /\ overrun \subseteq {"slot", "store"}

\* The slot numbers on their way, oldest first: with main, back from the
\* worker, with the worker, to the worker.
AtMain(t) == IF main.slot # NoSlot /\ main.slot[1] = t THEN 1 ELSE 0
AtWorker(t) == IF busy[t] # NoSlot THEN 1 ELSE 0
Unanswered(t) == Len(toWorker[t]) + AtWorker(t)
InFlight(t) == AtMain(t) + Len(toMain[t]) + Unanswered(t)

\* The slot that was filled d writes before buffer_index was n.
Back(n, d) == IF n - d >= 0 THEN n - d ELSE n - d + Ring

\* As long as nothing was written over (an offline request into a full ring, a
\* slot cleared after a restart, a read_buffer too small): the slots in use are
\* exactly those on their way, each once, in ring order up to buffer_index.
\* So no request is lost, answered twice or answered out of turn, and no slot
\* stays in use after its reply was handled.
RingOrder(t) ==
    /\ \A k \in 1 .. Len(toWorker[t]) :
           toWorker[t][k] = Back(next[t], Len(toWorker[t]) - k + 1)
    /\ busy[t] # NoSlot => busy[t][1] = Back(next[t], Unanswered(t))
    /\ \A k \in 1 .. Len(toMain[t]) :
           toMain[t][k] = Back(next[t], Unanswered(t) + Len(toMain[t]) - k + 1)
    /\ AtMain(t) = 1 =>
           main.slot[2] = Back(next[t], Unanswered(t) + Len(toMain[t]) + 1)

RingUse(t) ==
    /\ InFlight(t) <= Ring
    /\ \A i \in Index : slot[t][i] # Empty <=>
                             \E d \in 1 .. InFlight(t) : i = Back(next[t], d)

RingExact == overrun = {} => \A t \in Thread : RingOrder(t) /\ RingUse(t)

\* What a worker is given is a request and what main is given is its reply;
\* a slot is never read by the side that does not own it.
SlotOwner ==
    overrun = {} =>
        \A t \in Thread :
            /\ \A k \in 1 .. Len(toWorker[t]) : slot[t][toWorker[t][k]].tag = "req"
            /\ \A k \in 1 .. Len(toMain[t]) : slot[t][toMain[t][k]].tag = "rep"
            /\ busy[t] # NoSlot => slot[t][busy[t][1]] = busy[t][2]

\* A connection that waits for the database is waited for: while db_flag is
\* set, a request of this connection is in some ring.
FlagBacked ==
    (overrun = {} /\ count.restart = 0) =>
        \A c \in Conn : Live(c) /\ flag[c] # "off" =>
            \E t \in Thread : \E i \in Index :
                slot[t][i] # Empty /\ slot[t][i].conn = c

\* A command is at one place only: in the batch, in one read_buffer, or in one
\* slot, as long as no read_buffer runs over.  Storing, draining and replying
\* never run a command a second time.
Holds(m, n) == m # Empty /\ m.op \in {"log", "cmd"} /\ m.n = n
InSlot(n) == {p \in Thread \X Index : Holds(slot[p[1]][p[2]], n)}
InStored(n) ==
    UNION {{c} \X {k \in 1 .. Len(stored[c]) : stored[c][k].n = n} : c \in Conn}
InBatchOf(n) == {k \in 1 .. Len(main.batch) : main.batch[k].n = n}

RunOnce ==
    ~Spilt =>
        \A n \in 1 .. count.token :
            Cardinality(InSlot(n)) + Cardinality(InStored(n)) + Cardinality(InBatchOf(n)) <= 1

\* The commands of one connection run in the order they came in: none runs
\* while an earlier one waits in read_buffer.
NoOvertaking ==
    \A c \in Conn :
        ~Spilt /\ InBatch(c) /\ flag[c] = "off" =>
            \A k \in 1 .. Len(stored[c]) : Head(main.batch).n < stored[c][k].n

\* "client may exit earlier than dbout": the reply to a client that has gone
\* is dropped, it is not handled for whoever has the connection now.
ReplyToRequester ==
    main.phase = "handler" => Handled.session = session[main.conn]

\* A command that waits in read_buffer is run in the end, unless its client
\* leaves or read_buffer runs over: while the workers are not restarted the wait
\* for the database always comes to an end.
Waiting(n) == InStored(n) # {}
StoredIsServed == \A n \in 1 .. MaxToken : Waiting(n) ~> (~Waiting(n) \/ Spilt)
=============================================================================
