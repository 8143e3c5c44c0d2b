------------------------------ MODULE ConnPool ------------------------------
(***************************************************************************)
(* The pool of connections of nio.cpp: g_connect_list with its free list   *)
(* threaded through next_free, new_conn, free_conn and their callers.      *)
(*                                                                         *)
(* A connection is closed by its own command (a quit, or an answer that    *)
(* overflows its buffer) in the middle of a packet, or by the main loop or *)
(* a peer's command between packets.  free_conn does not ask whether the   *)
(* slot is free already, and do_batch_command goes on after a quit: then   *)
(* the closed descriptor is the 0 of the cleared connection, the server's  *)
(* own standard input the first time.  Descriptors the server opened for   *)
(* itself are left out, the system gives out the lowest one not in use.    *)
(***************************************************************************)
EXTENDS Integers, FiniteSets

CONSTANTS MaxConnect,   \* MAX_CONNECT
          MaxQuit       \* bound: quits on a connection already closed

ASSUME ConnectAssumption == MaxConnect \in Nat \ {0}
ASSUME QuitAssumption == MaxQuit \in Nat

Slot == 0 .. MaxConnect - 1
End == -1               \* next_free at the end of the list; no connection
Stdin == 0
Fd == 0 .. MaxConnect + 1

VARIABLES
    state,              \* conn->state
    conn_fd,            \* conn->conn_fd
    next_free,          \* conn->next_free
    g_free_connect,     \* the head of the free list
    g_num_connect,      \* how many connections the server believes it has
    open,               \* the descriptors that are open
    batch,              \* the connection whose packet is being processed
    quits,              \* history: quits on a connection already closed
    refused             \* history: an accepted socket got no connection

pool == <<state, conn_fd, next_free, g_free_connect, g_num_connect, open>>
vars == <<pool, batch, quits, refused>>

Free == {c \in Slot : state[c] = "STATE_FREE"}

\* init_conn: every slot is free and the list runs from 0 up.
Init ==
    /\ state = [c \in Slot |-> "STATE_FREE"]
    /\ next_free = [c \in Slot |-> IF c = MaxConnect - 1 THEN End ELSE c + 1]
    /\ conn_fd = [c \in Slot |-> 0] /\ open = {Stdin}
    /\ g_free_connect = 0 /\ g_num_connect = 0
    /\ batch = End /\ quits = 0 /\ refused = FALSE

----------------------------------------------------------------------------

Lowest(S) == {c \in S : \A d \in S : c <= d}

\* Mutant: the list is taken to end one slot early.
ChosenNotLast ==
    IF g_free_connect \notin Slot THEN {}
    ELSE IF next_free[g_free_connect] = End THEN {}
    ELSE IF state[g_free_connect] = "STATE_FREE" THEN {g_free_connect}
    ELSE Lowest(Free)

\* The slot new_conn takes, if any: the head of the list, or the first free
\* slot when the head turns out to be in use.
Chosen ==
    IF g_free_connect \notin Slot THEN {}
    ELSE IF state[g_free_connect] = "STATE_FREE" THEN {g_free_connect}
    ELSE Lowest(Free)

\* new_conn, the part that takes slot c for descriptor f.
Take(c, f) ==
    /\ state' = [state EXCEPT ![c] = "STATE_READING"]
    /\ conn_fd' = [conn_fd EXCEPT ![c] = f]
    /\ g_free_connect' = next_free[c]
    /\ next_free' = [next_free EXCEPT ![c] = End]
    /\ g_num_connect' = g_num_connect + 1

\* handle_newconnect below the limit.  When new_conn finds no slot the new
\* descriptor is forgotten, not closed.
Accept ==
    /\ batch = End /\ g_num_connect < MaxConnect
    /\ \E f \in Lowest(Fd \ open) :
        /\ open' = open \cup {f}
        /\ IF Chosen = {}
           THEN /\ refused' = TRUE
                /\ UNCHANGED <<state, conn_fd, next_free, g_free_connect, g_num_connect>>
           ELSE (\E c \in Chosen : Take(c, f)) /\ UNCHANGED refused
    /\ UNCHANGED <<batch, quits>>

\* Mutant: the slot is made free without a place in the list.
FreeUnlinked(c) ==
    /\ open' = open \ {conn_fd[c]}
    /\ state' = [state EXCEPT ![c] = "STATE_FREE"]
    /\ conn_fd' = [conn_fd EXCEPT ![c] = 0]
    /\ next_free' = [next_free EXCEPT ![c] = 0]
    /\ g_num_connect' = g_num_connect - 1
    /\ UNCHANGED g_free_connect

\* Mutant: bzero comes first, and 0 is closed in place of the descriptor.
FreeBeforeClose(c) ==
    /\ open' = open \ {0}
    /\ state' = [state EXCEPT ![c] = "STATE_FREE"]
    /\ conn_fd' = [conn_fd EXCEPT ![c] = 0]
    /\ next_free' = [next_free EXCEPT ![c] = g_free_connect]
    /\ g_free_connect' = c
    /\ g_num_connect' = g_num_connect - 1

\* do_disconnect and free_conn: the descriptor is closed, the connection is
\* cleared and becomes the head of the free list.
Close(c) ==
    /\ open' = open \ {conn_fd[c]}
    /\ state' = [state EXCEPT ![c] = "STATE_FREE"]
    /\ conn_fd' = [conn_fd EXCEPT ![c] = 0]
    /\ next_free' = [next_free EXCEPT ![c] = g_free_connect]
    /\ g_free_connect' = c
    /\ g_num_connect' = g_num_connect - 1

\* The client is gone, a send failed, or another login of the user kicks it.
Disconnect(c) ==
    /\ batch = End /\ state[c] # "STATE_FREE"
    /\ Close(c)
    /\ UNCHANGED <<batch, quits, refused>>

\* do_read: do_batch_command starts on a packet.
Recv(c) ==
    /\ batch = End /\ state[c] # "STATE_FREE"
    /\ batch' = c
    /\ UNCHANGED <<pool, quits, refused>>

\* sys_close, or net_write of an answer that does not fit.
CloseOwn(c) ==
    /\ batch = c /\ state[c] # "STATE_FREE"
    /\ Close(c)
    /\ UNCHANGED <<batch, quits, refused>>

\* A command whose broadcast overflows the buffer of another connection.
ClosePeer(c) ==
    /\ batch # End /\ c # batch /\ state[batch] # "STATE_FREE" /\ state[c] # "STATE_FREE"
    /\ Close(c)
    /\ UNCHANGED <<batch, quits, refused>>

\* sys_close again: a quit needs no login, a cleared connection has that much.
QuitAgain(c) ==
    /\ quits < MaxQuit
    /\ batch = c /\ state[c] = "STATE_FREE"
    /\ Close(c)
    /\ quits' = quits + 1
    /\ UNCHANGED <<batch, refused>>

BatchDone ==
    /\ batch # End
    /\ batch' = End
    /\ UNCHANGED <<pool, quits, refused>>

Next ==
    \/ Accept \/ BatchDone
    \/ \E c \in Slot : \/ Disconnect(c) \/ Recv(c) \/ CloseOwn(c)
                       \/ ClosePeer(c) \/ QuitAgain(c)

Spec == Init /\ [][Next]_vars

----------------------------------------------------------------------------
(* Correctness                                                             *)

TypeOK ==
    /\ state \in [Slot -> {"STATE_FREE", "STATE_READING"}]
    /\ conn_fd \in [Slot -> Fd] /\ open \in SUBSET Fd
    /\ next_free \in [Slot -> Slot \cup {End}]
    /\ g_free_connect \in Slot \cup {End}
    /\ g_num_connect \in Int
    /\ batch \in Slot \cup {End}
    /\ quits \in 0 .. MaxQuit /\ refused \in BOOLEAN

\* s lists the free slots, each once, the way they are linked.
IsFreeList(n, s) ==
    /\ \A i, j \in 1 .. n : s[i] = s[j] => i = j
    /\ \A c \in Slot : state[c] = "STATE_FREE" <=> \E i \in 1 .. n : s[i] = c
    /\ g_free_connect = IF n = 0 THEN End ELSE s[1]
    /\ \A i \in 1 .. n : next_free[s[i]] = IF i = n THEN End ELSE s[i + 1]

\* As long as no packet holds a quit behind a quit: the free list holds every
\* free slot once and ends, and g_num_connect counts the others.
PoolExact ==
    quits = 0 =>
        /\ g_num_connect \in 0 .. MaxConnect
        /\ \E s \in [1 .. MaxConnect - g_num_connect -> Slot] :
               IsFreeList(MaxConnect - g_num_connect, s)

InUse == Slot \ Free

\* Two connections never share a descriptor and theirs are open, even after
\* one quit too many: new_conn does not give away a slot in use.
OwnSocket ==
    quits <= 1 =>
        /\ \A c \in InUse : conn_fd[c] \in open
        /\ \A c, d \in InUse : conn_fd[c] = conn_fd[d] => c = d

\* handle_newconnect's "this never run!": below the limit there is a slot,
\* until a packet holds a quit behind a quit.
AlwaysSlot == quits = 0 => ~refused
=============================================================================
