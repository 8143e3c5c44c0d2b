------------------------------- MODULE WChat -------------------------------
(***************************************************************************)
(* The world chat: the circular message queue of gchat_queue.cpp and its   *)
(* readers, the connections of nio.cpp.  Only the main loop touches it.    *)
(* A message is the number of its wchat_add call, counted from 0, so that  *)
(* the slot contents can be compared with the time stamps the queue keeps. *)
(***************************************************************************)
EXTENDS Integers

CONSTANTS Conn,       \* the slots of g_connect_list
          QueueMax,   \* WCHAT_QUEUE_MAX
          MaxPost     \* bound: posting stops after this many messages

ASSUME QueueMaxAssumption == QueueMax \in Nat /\ QueueMax > 1

None == -1            \* an unused slot, a free connection's fields

FREE    == "STATE_FREE"
READING == "STATE_READING"
SENDING == "STATE_SENDING"

VARIABLES
    queue,      \* wchat_queue: slot -> message
    head,       \* g_head
    tail,       \* g_tail
    timestamp,  \* g_timestamp: the number of the message in queue[head]
    state,      \* conn->state
    login,      \* conn->euser.eid > 0
    out,        \* conn->offset < conn->outlen: command output is pending
    ts,         \* conn->wchat_ts
    last        \* history: the last message written to the socket

ring == <<queue, head, tail, timestamp>>
conns == <<state, login, out, ts, last>>
vars == <<queue, head, tail, timestamp, state, login, out, ts, last>>

----------------------------------------------------------------------------
(* The queue                                                               *)

Slots == 0 .. QueueMax - 1

wchat_head_ts == timestamp

wchat_tail_ts ==
    timestamp + (IF tail >= head THEN tail - head ELSE QueueMax - head + tail)

InWindow(t) == t >= wchat_head_ts /\ t < wchat_tail_ts

\* The slot wchat_get reads for a time stamp inside the window.
SlotOf(t) == (head + (t - wchat_head_ts)) % QueueMax

HalfQueue == QueueMax \div 2

\* Mutant: a truncation that forgets the time stamp.
AddKeepTimestamp(n) ==
    LET next == IF tail + 1 >= QueueMax THEN 0 ELSE tail + 1
    IN  /\ queue' = [queue EXCEPT ![tail] = n]
        /\ tail' = next
        /\ head' = IF head = next THEN (head + HalfQueue) % QueueMax ELSE head
        /\ timestamp' = timestamp

\* Mutant: the head is moved before the message is stored.
AddTruncateFirst(n) ==
    LET next == IF tail + 1 >= QueueMax THEN 0 ELSE tail + 1
        full == head = next
    IN  /\ queue' = [queue EXCEPT ![IF full THEN head ELSE tail] = n]
        /\ tail' = next
        /\ head' = IF full THEN (head + HalfQueue) % QueueMax ELSE head
        /\ timestamp' = IF full THEN timestamp + HalfQueue ELSE timestamp

\* wchat_add of the n-th message: store, advance the tail, and drop the older
\* half when the tail has run into the head.
wchat_add(n) ==
    LET next == IF tail + 1 >= QueueMax THEN 0 ELSE tail + 1
        full == head = next
    IN  /\ queue' = [queue EXCEPT ![tail] = n]
        /\ tail' = next
        /\ head' = IF full THEN (head + HalfQueue) % QueueMax ELSE head
        /\ timestamp' = IF full THEN timestamp + HalfQueue ELSE timestamp

----------------------------------------------------------------------------
(* The readers                                                             *)

Live(c) == state[c] # FREE

Init ==
    /\ queue = [i \in Slots |-> None]
    /\ head = 0 /\ tail = 0 /\ timestamp = 0
    /\ state = [c \in Conn |-> FREE]
    /\ login = [c \in Conn |-> FALSE]
    /\ out = [c \in Conn |-> FALSE]
    /\ ts = [c \in Conn |-> None]
    /\ last = [c \in Conn |-> None]

\* Mutant: a connection starts at the head of the queue.
NewConnAtHead(c) ==
    /\ state[c] = FREE
    /\ state' = [state EXCEPT ![c] = READING]
    /\ ts' = [ts EXCEPT ![c] = wchat_head_ts]
    /\ out' = [out EXCEPT ![c] = FALSE]
    /\ UNCHANGED <<ring, login, last>>

\* new_conn: a reader starts at the tail.
NewConn(c) ==
    /\ state[c] = FREE
    /\ state' = [state EXCEPT ![c] = READING]
    /\ ts' = [ts EXCEPT ![c] = wchat_tail_ts]
    /\ out' = [out EXCEPT ![c] = FALSE]
    /\ UNCHANGED <<ring, login, last>>

\* A successful login sets conn->euser and answers the client.
Login(c) ==
    /\ Live(c) /\ ~login[c]
    /\ login' = [login EXCEPT ![c] = TRUE]
    /\ out' = [out EXCEPT ![c] = TRUE]
    /\ state' = [state EXCEPT ![c] = SENDING]
    /\ UNCHANGED <<ring, ts, last>>

\* net_write: output of a command, a reply or a broadcast for this client.
NetWrite(c) ==
    /\ Live(c)
    /\ out' = [out EXCEPT ![c] = TRUE]
    /\ state' = [state EXCEPT ![c] = SENDING]
    /\ UNCHANGED <<ring, login, ts, last>>

CanPost == wchat_tail_ts < MaxPost

\* cmd_wchat: the sender must be logged in; it is answered with net_writeln.
CmdWchat(c) ==
    /\ CanPost
    /\ Live(c) /\ login[c] /\ state[c] = READING
    /\ wchat_add(wchat_tail_ts)
    /\ out' = [out EXCEPT ![c] = TRUE]
    /\ state' = [state EXCEPT ![c] = SENDING]
    /\ UNCHANGED <<login, ts, last>>

\* sys_wchat and broadcast_quick: the server itself posts.
SysWchat ==
    /\ CanPost
    /\ wchat_add(wchat_tail_ts)
    /\ UNCHANGED conns

\* free_conn by way of do_disconnect, for whatever reason.
FreeConn(c) ==
    /\ Live(c)
    /\ state' = [state EXCEPT ![c] = FREE]
    /\ login' = [login EXCEPT ![c] = FALSE]
    /\ out' = [out EXCEPT ![c] = FALSE]
    /\ ts' = [ts EXCEPT ![c] = None]
    /\ last' = [last EXCEPT ![c] = None]
    /\ UNCHANGED ring

\* do_wchat_send: one pass over all connections.  A logged-in reader that fell
\* out of the window is moved to the tail; one that has messages to read and is
\* not writing already is switched to writing.
Overtaken(c) == Live(c) /\ login[c] /\ ts[c] < wchat_head_ts

\* Mutant: a reader that is switched to writing only while it is overtaken.
DoWchatSendLate ==
    /\ ts' = [c \in Conn |-> IF Overtaken(c) THEN wchat_tail_ts ELSE ts[c]]
    /\ state' = [c \in Conn |-> IF Overtaken(c) THEN SENDING ELSE state[c]]
    /\ UNCHANGED <<ring, login, out, last>>

DoWchatSend ==
    /\ ts' = [c \in Conn |-> IF Overtaken(c) THEN wchat_tail_ts ELSE ts[c]]
    /\ state' = [c \in Conn |->
                    IF Live(c) /\ login[c] /\ ts'[c] < wchat_tail_ts
                    THEN SENDING ELSE state[c]]
    /\ UNCHANGED <<ring, login, out, last>>

----------------------------------------------------------------------------
(* do_send, the handler of a writable socket, branch by branch             *)

\* Pending command output is written, wholly or in part.  The connection goes
\* back to reading when nothing is left and there is no chat to send.
SendOut(c) ==
    /\ state[c] = SENDING /\ out[c]
    /\ \E rest \in BOOLEAN :
        /\ out' = [out EXCEPT ![c] = rest]
        /\ state' = [state EXCEPT ![c] =
                        IF ~rest /\ ts[c] >= wchat_tail_ts THEN READING ELSE @]
    /\ UNCHANGED <<ring, login, ts, last>>

SendIdle(c) ==
    /\ state[c] = SENDING /\ ~out[c] /\ ts[c] >= wchat_tail_ts
    /\ state' = [state EXCEPT ![c] = READING]
    /\ UNCHANGED <<ring, login, out, ts, last>>

SendSkip(c) ==
    /\ state[c] = SENDING /\ ~out[c] /\ ts[c] < wchat_head_ts
    /\ ts' = [ts EXCEPT ![c] = wchat_tail_ts]
    /\ UNCHANGED <<ring, state, login, out, last>>

\* One chat message: wchat_ts moves before the write, whether or not the
\* socket takes the message (EAGAIN is not an error).
SendChat(c) ==
    /\ state[c] = SENDING /\ ~out[c] /\ InWindow(ts[c])
    /\ ts' = [ts EXCEPT ![c] = @ + 1]
    /\ \/ last' = [last EXCEPT ![c] = queue[SlotOf(ts[c])]]
       \/ UNCHANGED last
    /\ UNCHANGED <<ring, state, login, out>>

do_send(c) == SendOut(c) \/ SendIdle(c) \/ SendSkip(c) \/ SendChat(c)

Next ==
    \/ SysWchat
    \/ DoWchatSend
    \/ \E c \in Conn : \/ NewConn(c) \/ Login(c) \/ NetWrite(c)
                       \/ CmdWchat(c) \/ FreeConn(c) \/ do_send(c)

Spec == Init /\ [][Next]_vars

\* The main loop runs do_wchat_send at least once in 51 turns, and a connected
\* socket is polled for writing in every turn; SF for the chat branch says that
\* other output does not fill the buffer again before every poll for ever.
Fairness ==
    /\ WF_vars(DoWchatSend)
    /\ \A c \in Conn : /\ WF_vars(SendSkip(c))
                       /\ SF_vars(SendChat(c))
                       /\ SF_vars(SendOut(c) /\ ~out'[c])

FairSpec == Spec /\ Fairness

----------------------------------------------------------------------------
(* Correctness                                                             *)

TypeOK ==
    /\ queue \in [Slots -> Nat \cup {None}]
    /\ head \in Slots /\ tail \in Slots /\ timestamp \in Nat
    /\ state \in [Conn -> {FREE, READING, SENDING}]
    /\ login \in [Conn -> BOOLEAN]
    /\ out \in [Conn -> BOOLEAN]
    /\ ts \in [Conn -> Nat \cup {None}]
    /\ last \in [Conn -> Nat \cup {None}]

\* Between truncations, wraparounds and readers, the slot that wchat_get finds
\* for a time stamp of the window holds the message posted under that time
\* stamp, never an overwritten or a neighbouring one.
WindowHoldsLog == \A t \in wchat_head_ts .. wchat_tail_ts - 1 : queue[SlotOf(t)] = t

\* No reader is ever ahead of the queue: a truncation moves the head only, so
\* the cursor a connection kept from before it is still a meaningful position.
CursorNotAhead == \A c \in Conn : ts[c] <= wchat_tail_ts

\* What reaches a client over one connection is in the order it was posted, each
\* message at most once, whatever is lost to truncations and full sockets in
\* between.
ChatInOrder ==
    [][\A c \in Conn : last'[c] # last[c] /\ last'[c] # None => last'[c] > last[c]]_vars

\* A message posted while a logged-in connection is open is eventually passed
\* by it (delivered, lost or skipped), or the connection closes: the chat of a
\* reader never stalls.
NoStall ==
    \A c \in Conn : \A k \in 0 .. 2 * QueueMax :
        (Live(c) /\ login[c] /\ ts[c] <= k /\ k < wchat_tail_ts)
            ~> (~Live(c) \/ ts[c] > k)

\* The queue and its readers implement the abstract chat: in order, no
\* duplicate, and nobody is moved who lags by no more than what a truncation
\* leaves in the queue.
Chat == INSTANCE WorldChat
            WITH posted <- wchat_tail_ts, cursor <- ts,
                 Keep <- QueueMax - HalfQueue

ImplementsWorldChat == Chat!Spec
=============================================================================
