----------------------------- MODULE WorldChat -----------------------------
(***************************************************************************)
(* What the world chat promises its readers, without the ring buffer:      *)
(* one numbered log of messages; a connection that opens starts at the end *)
(* of the log and is given the messages in order, each at most once.  A    *)
(* message may be lost for one reader (a socket that is not ready), and a  *)
(* reader that is more than Keep messages behind may be moved to the end.  *)
(***************************************************************************)
EXTENDS Integers

CONSTANTS Conn,     \* the connections
          Keep      \* how far a reader may lag without losing its place

None == -1          \* a closed reader's cursor; "no message delivered yet"

VARIABLES posted,   \* how many messages have been posted
          cursor,   \* per connection: the next message to deliver
          last      \* per connection: the last message delivered

vars == <<posted, cursor, last>>

Init ==
    /\ posted = 0
    /\ cursor = [c \in Conn |-> None]
    /\ last = [c \in Conn |-> None]

Post ==
    /\ posted' = posted + 1
    /\ UNCHANGED <<cursor, last>>

Open(c) ==
    /\ cursor[c] = None
    /\ cursor' = [cursor EXCEPT ![c] = posted]
    /\ UNCHANGED <<posted, last>>

Close(c) ==
    /\ cursor[c] # None
    /\ cursor' = [cursor EXCEPT ![c] = None]
    /\ last' = [last EXCEPT ![c] = None]
    /\ UNCHANGED posted

Deliver(c) ==
    /\ cursor[c] \in 0 .. posted - 1
    /\ cursor' = [cursor EXCEPT ![c] = @ + 1]
    /\ last' = [last EXCEPT ![c] = cursor[c]]
    /\ UNCHANGED posted

Lose(c) ==
    /\ cursor[c] \in 0 .. posted - 1
    /\ cursor' = [cursor EXCEPT ![c] = @ + 1]
    /\ UNCHANGED <<posted, last>>

\* Lagging readers are moved together, so Skip takes the set of them.
Skip(S) ==
    /\ \A c \in S : cursor[c] # None /\ posted - cursor[c] > Keep
    /\ cursor' = [c \in Conn |-> IF c \in S THEN posted ELSE cursor[c]]
    /\ UNCHANGED <<posted, last>>

Next ==
    \/ Post
    \/ \E c \in Conn : Open(c) \/ Close(c) \/ Deliver(c) \/ Lose(c)
    \/ \E S \in SUBSET Conn : Skip(S)

Spec == Init /\ [][Next]_vars
=============================================================================
