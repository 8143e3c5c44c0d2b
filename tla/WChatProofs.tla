---------------------------- MODULE WChatProofs ----------------------------
(***************************************************************************)
(* Proofs about the world chat queue for every queue length and every set  *)
(* of connections: the queue never mixes up its messages and no reader     *)
(* overtakes it.                                                           *)
(***************************************************************************)
EXTENDS WChat, TLAPS

USE QueueMaxAssumption

\* Arithmetic modulo the queue length, for the sums the queue computes.
LEMMA ModInside ==
    ASSUME NEW n \in Nat, n > 0, NEW a \in Nat, a < n
    PROVE  a % n = a
  OBVIOUS

LEMMA ModWrapped ==
    ASSUME NEW n \in Nat, n > 0, NEW a \in Nat, n <= a, a < 2 * n
    PROVE  a % n = a - n
  OBVIOUS

LEMMA HalfBounds == HalfQueue \in Nat /\ HalfQueue >= 1 /\ HalfQueue < QueueMax
  BY DEF HalfQueue

\* The window of the queue: how long it is, and where its slots lie.
WindowLen == wchat_tail_ts - wchat_head_ts

LEMMA WindowBounds ==
    ASSUME TypeOK
    PROVE  /\ WindowLen \in 0 .. QueueMax - 1
           /\ wchat_tail_ts \in Nat /\ wchat_head_ts \in Nat
           /\ wchat_tail_ts = wchat_head_ts + WindowLen
           /\ tail = IF head + WindowLen < QueueMax THEN head + WindowLen
                     ELSE head + WindowLen - QueueMax
  BY DEF TypeOK, WindowLen, wchat_tail_ts, wchat_head_ts, Slots

\* SlotOf without the modulus, and its distance from the tail.
LEMMA SlotOfWindow ==
    ASSUME TypeOK, NEW t \in wchat_head_ts .. wchat_tail_ts - 1
    PROVE  /\ SlotOf(t) = IF head + (t - timestamp) < QueueMax
                          THEN head + (t - timestamp)
                          ELSE head + (t - timestamp) - QueueMax
           /\ SlotOf(t) \in Slots
           /\ SlotOf(t) # tail
  <1>1. /\ t - timestamp \in 0 .. QueueMax - 2
        /\ t - timestamp < WindowLen
        /\ head \in 0 .. QueueMax - 1
    BY WindowBounds DEF wchat_head_ts, TypeOK, Slots, WindowLen
  <1>2. CASE head + (t - timestamp) < QueueMax
    BY <1>1, <1>2, WindowBounds, ModInside DEF SlotOf, wchat_head_ts, Slots
  <1>3. CASE ~(head + (t - timestamp) < QueueMax)
    <2>1. SlotOf(t) = head + (t - timestamp) - QueueMax
      BY <1>1, <1>3, ModWrapped DEF SlotOf, wchat_head_ts
    <2>2. QED
      BY <1>1, <1>3, <2>1, WindowBounds DEF Slots
  <1>4. QED
    BY <1>2, <1>3

RingTypeOK ==
    /\ queue \in [Slots -> Nat \cup {None}]
    /\ head \in Slots /\ tail \in Slots /\ timestamp \in Nat

\* What one wchat_add does to a queue that holds its log: the tail's time stamp
\* goes up by one, and the window still holds the log.
LEMMA AddKeepsLog ==
    ASSUME TypeOK, WindowHoldsLog, wchat_add(wchat_tail_ts)
    PROVE  /\ RingTypeOK'
           /\ wchat_tail_ts' = wchat_tail_ts + 1
           /\ WindowHoldsLog'
  <1> DEFINE next == IF tail + 1 >= QueueMax THEN 0 ELSE tail + 1
             full == head = next
  <1>1. /\ queue' = [queue EXCEPT ![tail] = wchat_tail_ts]
        /\ tail' = next
        /\ head' = IF full THEN (head + HalfQueue) % QueueMax ELSE head
        /\ timestamp' = IF full THEN timestamp + HalfQueue ELSE timestamp
    BY DEF wchat_add
  <1>2. /\ head \in 0 .. QueueMax - 1 /\ tail \in 0 .. QueueMax - 1
        /\ timestamp \in Nat /\ next \in 0 .. QueueMax - 1
        /\ queue \in [Slots -> Nat \cup {None}]
    BY DEF TypeOK, Slots
  <1>3. (head + HalfQueue) % QueueMax =
            IF head + HalfQueue < QueueMax THEN head + HalfQueue
            ELSE head + HalfQueue - QueueMax
    BY <1>2, HalfBounds, ModInside, ModWrapped
  <1>4. RingTypeOK'
    <2>1. head' \in Slots
      BY <1>1, <1>2, <1>3, HalfBounds DEF Slots
    <2>2. timestamp' \in Nat
      BY <1>1, <1>2, HalfBounds
    <2>3. QED
      BY <1>1, <1>2, <2>1, <2>2, WindowBounds DEF RingTypeOK, Slots
  <1>5. wchat_tail_ts' = wchat_tail_ts + 1
    BY <1>1, <1>2, <1>3, HalfBounds DEF wchat_tail_ts
  <1>6. ASSUME NEW t \in (wchat_head_ts .. wchat_tail_ts - 1)'
        PROVE  queue'[SlotOf(t)'] = t
    <2>1. /\ t \in Int /\ timestamp' <= t /\ t <= wchat_tail_ts
          /\ t - timestamp <= WindowLen /\ WindowLen \in 0 .. QueueMax - 1
          /\ timestamp <= t
      BY <1>1, <1>2, <1>5, HalfBounds, WindowBounds DEF wchat_head_ts, WindowLen
    <2>2. SlotOf(t)' = IF head + (t - timestamp) < QueueMax
                       THEN head + (t - timestamp)
                       ELSE head + (t - timestamp) - QueueMax
      <3>1. SlotOf(t)' = (head' + (t - timestamp')) % QueueMax
        BY DEF SlotOf, wchat_head_ts
      <3>2. CASE ~full
        BY <1>1, <1>2, <2>1, <3>1, <3>2, ModInside, ModWrapped
      <3>3. CASE full
        <4>1. /\ t - timestamp' \in Nat
              /\ t - timestamp' = t - timestamp - HalfQueue
          BY <1>1, <1>2, <2>1, <3>3, HalfBounds
        <4>2. head' \in 0 .. QueueMax - 1
          BY <1>4 DEF RingTypeOK, Slots
        <4>3. t - timestamp' < QueueMax
          BY <1>2, <2>1, <4>1, HalfBounds
        <4>4. (head' + (t - timestamp')) % QueueMax =
                 IF head' + (t - timestamp') < QueueMax
                 THEN head' + (t - timestamp')
                 ELSE head' + (t - timestamp') - QueueMax
          BY <4>1, <4>2, <4>3, ModInside, ModWrapped
        <4>5. QED
          BY <1>1, <1>2, <1>3, <2>1, <3>1, <3>3, <4>1, <4>2, <4>3, <4>4, HalfBounds
      <3>4. QED
        BY <3>2, <3>3
    <2>3. CASE t = wchat_tail_ts
      <3>1. SlotOf(t)' = tail
        BY <1>2, <2>1, <2>2, <2>3, WindowBounds DEF wchat_head_ts
      <3>2. QED
        BY <1>1, <1>2, <2>3, <3>1 DEF Slots
    <2>4. CASE t # wchat_tail_ts
      <3>1. t \in wchat_head_ts .. wchat_tail_ts - 1
        BY <1>2, <2>1, <2>4, WindowBounds DEF wchat_head_ts
      <3>2. SlotOf(t)' = SlotOf(t) /\ SlotOf(t) \in Slots /\ SlotOf(t) # tail
        BY <2>2, <3>1, SlotOfWindow
      <3>3. queue[SlotOf(t)] = t
        BY <3>1 DEF WindowHoldsLog
      <3>4. QED
        BY <1>1, <1>2, <3>2, <3>3
    <2>5. QED
      BY <2>3, <2>4
  <1>7. WindowHoldsLog'
    BY <1>6 DEF WindowHoldsLog
  <1>8. QED
    BY <1>4, <1>5, <1>7

----------------------------------------------------------------------------

\* The inductive invariant: the queue holds its log, and every cursor is a
\* position of the log that has been posted or is posted next.
IInv == TypeOK /\ WindowHoldsLog /\ CursorNotAhead

\* What a connection was sent lies behind its cursor, and a free one was sent
\* nothing: the strengthening that the order of the chat needs.
SentBehindCursor ==
    \A c \in Conn : /\ last[c] # None => last[c] < ts[c]
                    /\ state[c] = FREE => last[c] = None

\* A step that leaves the queue alone leaves everything said about it alone.
LEMMA RingUnchanged ==
    ASSUME UNCHANGED ring
    PROVE  /\ (RingTypeOK <=> RingTypeOK')
           /\ wchat_tail_ts' = wchat_tail_ts
           /\ wchat_head_ts' = wchat_head_ts
           /\ (WindowHoldsLog <=> WindowHoldsLog')
  BY DEF ring, RingTypeOK, wchat_tail_ts, wchat_head_ts, WindowHoldsLog, SlotOf

LEMMA InitIInv == Init => IInv
  <1> SUFFICES ASSUME Init PROVE IInv
    OBVIOUS
  <1>1. TypeOK
    BY DEF Init, TypeOK, Slots, None, FREE
  <1>2. wchat_tail_ts = 0 /\ wchat_head_ts = 0
    BY DEF Init, wchat_tail_ts, wchat_head_ts
  <1>3. WindowHoldsLog /\ CursorNotAhead
    BY <1>2 DEF Init, WindowHoldsLog, CursorNotAhead, None
  <1>4. QED
    BY <1>1, <1>3 DEF IInv

ConnTypeOK ==
    /\ state \in [Conn -> {FREE, READING, SENDING}]
    /\ login \in [Conn -> BOOLEAN]
    /\ out \in [Conn -> BOOLEAN]
    /\ ts \in [Conn -> Nat \cup {None}]
    /\ last \in [Conn -> Nat \cup {None}]

LEMMA StepIInv == IInv /\ [Next]_vars => IInv'
  <1> SUFFICES ASSUME IInv, [Next]_vars PROVE IInv'
    OBVIOUS
  <1> USE DEF IInv
  <1>0. /\ RingTypeOK /\ ConnTypeOK
        /\ wchat_tail_ts \in Nat /\ wchat_head_ts \in Nat
        /\ wchat_head_ts <= wchat_tail_ts
    BY WindowBounds DEF TypeOK, RingTypeOK, ConnTypeOK
  <1>a. (RingTypeOK' /\ ConnTypeOK') => TypeOK'
    BY DEF RingTypeOK, ConnTypeOK, TypeOK
  <1>1. CASE SysWchat
    <2>1. RingTypeOK' /\ wchat_tail_ts' = wchat_tail_ts + 1 /\ WindowHoldsLog'
      BY <1>1, AddKeepsLog DEF SysWchat
    <2>2. ConnTypeOK' /\ ts' = ts
      BY <1>0, <1>1 DEF SysWchat, conns, ConnTypeOK
    <2>3. CursorNotAhead'
      BY <1>0, <2>1, <2>2 DEF CursorNotAhead, ConnTypeOK, None
    <2>4. QED
      BY <1>a, <2>1, <2>2, <2>3
  <1>2. CASE DoWchatSend
    <2>1. UNCHANGED ring
      BY <1>2 DEF DoWchatSend
    <2>2. ConnTypeOK'
      BY <1>0, <1>2 DEF DoWchatSend, ConnTypeOK
    <2>3. CursorNotAhead'
      BY <1>0, <1>2, <2>1, RingUnchanged DEF DoWchatSend, CursorNotAhead, ConnTypeOK
    <2>4. QED
      BY <1>0, <1>a, <2>1, <2>2, <2>3, RingUnchanged
  <1>3. ASSUME NEW c \in Conn, CmdWchat(c) PROVE IInv'
    <2>1. RingTypeOK' /\ wchat_tail_ts' = wchat_tail_ts + 1 /\ WindowHoldsLog'
      BY <1>3, AddKeepsLog DEF CmdWchat
    <2>2. ConnTypeOK' /\ ts' = ts
      BY <1>0, <1>3 DEF CmdWchat, ConnTypeOK
    <2>3. CursorNotAhead'
      BY <1>0, <2>1, <2>2 DEF CursorNotAhead, ConnTypeOK, None
    <2>4. QED
      BY <1>a, <2>1, <2>2, <2>3
  <1>4. ASSUME NEW c \in Conn,
               NewConn(c) \/ Login(c) \/ NetWrite(c) \/ FreeConn(c) \/ do_send(c)
        PROVE  IInv'
    <2>1. UNCHANGED ring
      BY <1>4 DEF NewConn, Login, NetWrite, FreeConn, do_send,
                  SendOut, SendIdle, SendSkip, SendChat
    <2>2. ts' \in [Conn -> Nat \cup {None}]
      BY <1>0, <1>4 DEF NewConn, Login, NetWrite, FreeConn, do_send, ConnTypeOK,
                  SendOut, SendIdle, SendSkip, SendChat, InWindow, None
    <2>3. state' \in [Conn -> {FREE, READING, SENDING}]
          /\ login' \in [Conn -> BOOLEAN] /\ out' \in [Conn -> BOOLEAN]
      BY <1>0, <1>4 DEF NewConn, Login, NetWrite, FreeConn, do_send, ConnTypeOK,
                  SendOut, SendIdle, SendSkip, SendChat
    <2>4. last' \in [Conn -> Nat \cup {None}]
      <3>1. CASE last' = last
        BY <1>0, <3>1 DEF ConnTypeOK
      <3>2. CASE last' = [last EXCEPT ![c] = None]
        BY <1>0, <3>2 DEF ConnTypeOK
      <3>3. CASE InWindow(ts[c]) /\ last' = [last EXCEPT ![c] = queue[SlotOf(ts[c])]]
        <4>1. ts[c] \in wchat_head_ts .. wchat_tail_ts - 1
          BY <1>0, <3>3 DEF InWindow, ConnTypeOK, None
        <4>2. queue[SlotOf(ts[c])] = ts[c]
          BY <4>1 DEF WindowHoldsLog
        <4>3. QED
          BY <1>0, <3>3, <4>2 DEF ConnTypeOK
      <3>4. QED
        BY <1>4, <3>1, <3>2, <3>3 DEF NewConn, Login, NetWrite, FreeConn, do_send,
                  SendOut, SendIdle, SendSkip, SendChat
    <2>5. CursorNotAhead'
      BY <1>0, <1>4, <2>1, RingUnchanged
         DEF CursorNotAhead, ConnTypeOK, None, NewConn, Login, NetWrite, FreeConn,
             do_send, SendOut, SendIdle, SendSkip, SendChat, InWindow
    <2>6. QED
      BY <1>0, <1>a, <2>1, <2>2, <2>3, <2>4, <2>5, RingUnchanged DEF ConnTypeOK
  <1>5. CASE UNCHANGED vars
    <2>1. UNCHANGED ring /\ UNCHANGED conns
      BY <1>5 DEF vars, ring, conns
    <2>2. ConnTypeOK' /\ CursorNotAhead'
      BY <1>0, <2>1, RingUnchanged DEF conns, ConnTypeOK, CursorNotAhead
    <2>3. QED
      BY <1>0, <1>a, <2>1, <2>2, RingUnchanged
  <1>6. QED
    BY <1>1, <1>2, <1>3, <1>4, <1>5 DEF Next

THEOREM QueueInvariant == Spec => []IInv
  <1>1. QED
    BY InitIInv, StepIInv, PTL DEF Spec

\* Every state of the queue and of its readers is well typed.
THEOREM TypeCorrect == Spec => []TypeOK
  <1>1. IInv => TypeOK
    BY DEF IInv
  <1>2. QED
    BY <1>1, QueueInvariant, PTL

\* wchat_get returns the message that was posted under the time stamp it is
\* given, whatever truncations and wraparounds happened in between.
THEOREM WindowIsLog == Spec => []WindowHoldsLog
  <1>1. IInv => WindowHoldsLog
    BY DEF IInv
  <1>2. QED
    BY <1>1, QueueInvariant, PTL

\* No connection waits for a message with a time stamp beyond the tail's.
THEOREM CursorsBehindTail == Spec => []CursorNotAhead
  <1>1. IInv => CursorNotAhead
    BY DEF IInv
  <1>2. QED
    BY <1>1, QueueInvariant, PTL

LEMMA InitSent == Init => SentBehindCursor
  BY DEF Init, SentBehindCursor

\* The one step that sends a message sends the one at the cursor.
LEMMA SendsCursor ==
    ASSUME IInv, NEW c \in Conn, SendChat(c)
    PROVE  /\ last' = last \/ last' = [last EXCEPT ![c] = ts[c]]
           /\ ts' = [ts EXCEPT ![c] = ts[c] + 1]
           /\ ts[c] \in Nat /\ state' = state /\ state[c] # FREE
  <1>1. ts[c] \in wchat_head_ts .. wchat_tail_ts - 1 /\ ts[c] \in Nat
    BY WindowBounds DEF IInv, TypeOK, SendChat, InWindow, None
  <1>2. queue[SlotOf(ts[c])] = ts[c]
    BY <1>1 DEF IInv, WindowHoldsLog
  <1>3. QED
    BY <1>1, <1>2 DEF SendChat, FREE, SENDING

LEMMA StepSent == IInv /\ SentBehindCursor /\ [Next]_vars => SentBehindCursor'
  <1> SUFFICES ASSUME IInv, SentBehindCursor, [Next]_vars, NEW d \in Conn
               PROVE  /\ last'[d] # None => last'[d] < ts'[d]
                      /\ state'[d] = FREE => last'[d] = None
    BY DEF SentBehindCursor
  <1>0. /\ ConnTypeOK /\ wchat_tail_ts \in Nat /\ wchat_head_ts \in Nat
        /\ wchat_head_ts <= wchat_tail_ts
        /\ last[d] # None => last[d] < ts[d]
        /\ state[d] = FREE => last[d] = None
    BY WindowBounds DEF IInv, TypeOK, ConnTypeOK, SentBehindCursor
  <1>1. CASE SysWchat \/ UNCHANGED vars
    BY <1>0, <1>1 DEF SysWchat, conns, vars
  <1>2. CASE DoWchatSend
    BY <1>0, <1>2 DEF DoWchatSend, Overtaken, Live, ConnTypeOK, None, FREE, SENDING
  <1>3. ASSUME NEW c \in Conn, SendChat(c)
        PROVE  /\ last'[d] # None => last'[d] < ts'[d]
               /\ state'[d] = FREE => last'[d] = None
    BY <1>0, <1>3, SendsCursor DEF ConnTypeOK, None
  <1>4. ASSUME NEW c \in Conn,
               NewConn(c) \/ Login(c) \/ NetWrite(c) \/ CmdWchat(c) \/ FreeConn(c)
                   \/ SendOut(c) \/ SendIdle(c) \/ SendSkip(c)
        PROVE  /\ last'[d] # None => last'[d] < ts'[d]
               /\ state'[d] = FREE => last'[d] = None
    BY <1>0, <1>4 DEF NewConn, Login, NetWrite, CmdWchat, FreeConn, SendOut, SendIdle,
                      SendSkip, Live, ConnTypeOK, None, FREE, READING, SENDING
  <1>5. QED
    BY <1>1, <1>2, <1>3, <1>4 DEF Next, do_send

\* A client gets the chat in order and no message twice over one connection,
\* for every queue length: only do_send sends, at the cursor, and whatever was
\* sent before lies behind it.
THEOREM OrderedChat == Spec => ChatInOrder
  <1>1. IInv /\ SentBehindCursor /\ [Next]_vars =>
            [\A c \in Conn : last'[c] # last[c] /\ last'[c] # None => last'[c] > last[c]]_vars
    <2> SUFFICES ASSUME IInv, SentBehindCursor, Next, NEW d \in Conn,
                        last'[d] # last[d], last'[d] # None
                 PROVE  last'[d] > last[d]
      BY DEF vars
    <2>1. ConnTypeOK
      BY DEF IInv, TypeOK, ConnTypeOK
    <2>2. PICK c \in Conn : SendChat(c)
      BY <2>1 DEF Next, SysWchat, conns, DoWchatSend, NewConn, Login, NetWrite, CmdWchat,
                  FreeConn, do_send, SendOut, SendIdle, SendSkip, ConnTypeOK
    <2>3. d = c /\ last'[d] = ts[d] /\ ts[d] \in Nat
      BY <2>1, <2>2, SendsCursor DEF ConnTypeOK
    <2>4. last[d] # None => last[d] < ts[d]
      BY DEF SentBehindCursor
    <2>5. QED
      BY <2>1, <2>3, <2>4 DEF ConnTypeOK, None
  <1>2. Spec => [](IInv /\ SentBehindCursor)
    BY InitIInv, StepIInv, InitSent, StepSent, PTL DEF Spec
  <1>3. QED
    BY <1>1, <1>2, PTL DEF Spec, ChatInOrder

----------------------------------------------------------------------------
(* The queue implements the abstract chat.                                 *)

\* Once messages have been dropped, the queue holds at least what a truncation
\* leaves; and exactly the open connections have a cursor.
LongWindow == timestamp = 0 \/ WindowLen >= QueueMax - HalfQueue
OpenCursor == \A c \in Conn : state[c] = FREE <=> ts[c] = None

LEMMA AddKeepsLong ==
    ASSUME TypeOK, LongWindow, wchat_add(wchat_tail_ts)
    PROVE  LongWindow'
  <1> DEFINE next == IF tail + 1 >= QueueMax THEN 0 ELSE tail + 1
             full == head = next
  <1>1. /\ tail' = next
        /\ head' = IF full THEN (head + HalfQueue) % QueueMax ELSE head
        /\ timestamp' = IF full THEN timestamp + HalfQueue ELSE timestamp
    BY DEF wchat_add
  <1>2. /\ head \in 0 .. QueueMax - 1 /\ tail \in 0 .. QueueMax - 1 /\ timestamp \in Nat
    BY DEF TypeOK, Slots
  <1>3. (head + HalfQueue) % QueueMax =
            IF head + HalfQueue < QueueMax THEN head + HalfQueue
            ELSE head + HalfQueue - QueueMax
    BY <1>2, HalfBounds, ModInside, ModWrapped
  <1>4. QED
    BY <1>1, <1>2, <1>3, HalfBounds
       DEF LongWindow, WindowLen, wchat_tail_ts, wchat_head_ts

LEMMA InitChat == Init => Chat!Init /\ LongWindow /\ OpenCursor
  BY DEF Init, Chat!Init, Chat!None, None, wchat_tail_ts, LongWindow, OpenCursor

LEMMA StepOpen == IInv /\ LongWindow /\ OpenCursor /\ [Next]_vars => LongWindow' /\ OpenCursor'
  <1> SUFFICES ASSUME IInv, LongWindow, OpenCursor, [Next]_vars
               PROVE  LongWindow' /\ OpenCursor'
    OBVIOUS
  <1>0. ConnTypeOK /\ wchat_tail_ts \in Nat
    BY WindowBounds DEF IInv, TypeOK, ConnTypeOK
  <1>1. LongWindow'
    <2>1. CASE UNCHANGED ring
      BY <2>1 DEF ring, LongWindow, WindowLen, wchat_tail_ts, wchat_head_ts
    <2>2. CASE wchat_add(wchat_tail_ts)
      BY <2>2, AddKeepsLong DEF IInv
    <2>3. QED
      BY <2>1, <2>2 DEF Next, vars, ring, SysWchat, DoWchatSend, NewConn, Login, NetWrite,
                        CmdWchat, FreeConn, do_send, SendOut, SendIdle, SendSkip, SendChat
  <1>2. ASSUME NEW d \in Conn PROVE state'[d] = FREE <=> ts'[d] = None
    <2>1. (state[d] = FREE <=> ts[d] = None) /\ ts[d] \in Nat \cup {None}
      BY <1>0 DEF OpenCursor, ConnTypeOK
    <2>2. CASE SysWchat \/ UNCHANGED vars
      BY <2>1, <2>2 DEF SysWchat, conns, vars
    <2>3. CASE DoWchatSend
      BY <1>0, <2>1, <2>3 DEF DoWchatSend, Overtaken, Live, ConnTypeOK, None, FREE, SENDING
    <2>4. ASSUME NEW c \in Conn,
                 NewConn(c) \/ Login(c) \/ NetWrite(c) \/ CmdWchat(c) \/ FreeConn(c)
                     \/ do_send(c)
          PROVE  state'[d] = FREE <=> ts'[d] = None
      <3>1. /\ FREE # READING /\ FREE # SENDING
            /\ None \notin Nat /\ ts[c] \in Nat \cup {None}
        BY <1>0 DEF FREE, READING, SENDING, None, ConnTypeOK
      <3>2. CASE d # c
        BY <1>0, <2>1, <2>4, <3>2
           DEF NewConn, Login, NetWrite, CmdWchat, FreeConn, do_send, SendOut, SendIdle,
               SendSkip, SendChat, ConnTypeOK
      <3>3. CASE d = c
        BY <1>0, <2>1, <2>4, <3>1, <3>3
           DEF NewConn, Login, NetWrite, CmdWchat, FreeConn, do_send, SendOut, SendIdle,
               SendSkip, SendChat, InWindow, Live, ConnTypeOK, None
      <3>4. QED
        BY <3>2, <3>3
    <2>5. QED
      BY <2>2, <2>3, <2>4 DEF Next
  <1>3. QED
    BY <1>1, <1>2 DEF OpenCursor

\* Each step of the queue is a step of the abstract chat, or none: a post is a
\* Post, the send at the cursor a Deliver or a Lose, and who is moved to the
\* tail lags by more than Keep.
LEMMA StepChat ==
    ASSUME IInv, LongWindow, OpenCursor, [Next]_vars
    PROVE  [Chat!Next]_(Chat!vars)
  <1>0. /\ ConnTypeOK /\ wchat_tail_ts \in Nat /\ wchat_head_ts \in Nat
        /\ wchat_tail_ts = wchat_head_ts + WindowLen /\ WindowLen \in Nat
        /\ Chat!None = None /\ None \notin Nat
    BY WindowBounds DEF IInv, TypeOK, ConnTypeOK, Chat!None, None
  <1>1. ASSUME NEW c \in Conn, ts[c] # None, ts[c] < wchat_head_ts
        PROVE  wchat_tail_ts - ts[c] > QueueMax - HalfQueue
    BY <1>0, <1>1, HalfBounds DEF LongWindow, wchat_head_ts, ConnTypeOK
  <1>2. ASSUME wchat_add(wchat_tail_ts), UNCHANGED <<ts, last>> PROVE Chat!Post
    BY <1>2, AddKeepsLog DEF Chat!Post, IInv
  <1>3. CASE SysWchat
    BY <1>2, <1>3 DEF SysWchat, conns, Chat!Next
  <1>4. CASE DoWchatSend
    <2> DEFINE S == {c \in Conn : Overtaken(c)}
    <2>1. \A c \in S : ts[c] # None /\ ts[c] < wchat_head_ts
      BY DEF Overtaken, Live, OpenCursor
    <2>2. wchat_tail_ts' = wchat_tail_ts
      BY <1>4, RingUnchanged DEF DoWchatSend
    <2>3. Chat!Skip(S)
      BY <1>0, <1>1, <1>4, <2>1, <2>2 DEF DoWchatSend, Chat!Skip
    <2>4. QED
      BY <2>3 DEF Chat!Next
  <1>5. ASSUME NEW c \in Conn, CmdWchat(c) PROVE Chat!Next
    BY <1>2, <1>5 DEF CmdWchat, Chat!Next
  <1>6. ASSUME NEW c \in Conn, NewConn(c) \/ FreeConn(c) PROVE Chat!Next
    <2>1. wchat_tail_ts' = wchat_tail_ts
      BY <1>6, RingUnchanged DEF NewConn, FreeConn
    <2>2. CASE NewConn(c)
      BY <1>0, <2>1, <2>2 DEF NewConn, OpenCursor, Chat!Open, Chat!Next
    <2>3. CASE FreeConn(c)
      BY <1>0, <2>1, <2>3 DEF FreeConn, Live, OpenCursor, Chat!Close, Chat!Next
    <2>4. QED
      BY <1>6, <2>2, <2>3
  <1>7. ASSUME NEW c \in Conn, SendSkip(c) PROVE Chat!Next
    <2>1. ts[c] # None /\ ts[c] < wchat_head_ts
      BY <1>7 DEF SendSkip, OpenCursor, FREE, SENDING
    <2>2. wchat_tail_ts' = wchat_tail_ts /\ last' = last
      BY <1>7, RingUnchanged DEF SendSkip
    <2>3. ts' = [d \in Conn |-> IF d \in {c} THEN wchat_tail_ts ELSE ts[d]]
      BY <1>0, <1>7 DEF SendSkip, ConnTypeOK
    <2>4. Chat!Skip({c})
      BY <1>0, <1>1, <2>1, <2>2, <2>3 DEF Chat!Skip
    <2>5. QED
      BY <2>4 DEF Chat!Next
  <1>8. ASSUME NEW c \in Conn, SendChat(c) PROVE Chat!Next
    <2>1. /\ last' = last \/ last' = [last EXCEPT ![c] = ts[c]]
          /\ ts' = [ts EXCEPT ![c] = ts[c] + 1] /\ ts[c] \in Nat
      BY <1>8, SendsCursor
    <2>2. ts[c] \in 0 .. wchat_tail_ts - 1 /\ wchat_tail_ts' = wchat_tail_ts
      BY <1>0, <1>8, <2>1, RingUnchanged DEF SendChat, InWindow
    <2>3. Chat!Deliver(c) \/ Chat!Lose(c)
      BY <2>1, <2>2 DEF Chat!Deliver, Chat!Lose
    <2>4. QED
      BY <2>3 DEF Chat!Next
  <1>9. ASSUME NEW c \in Conn, Login(c) \/ NetWrite(c) \/ SendOut(c) \/ SendIdle(c)
        PROVE  UNCHANGED Chat!vars
    BY <1>9, RingUnchanged DEF Login, NetWrite, SendOut, SendIdle, Chat!vars
  <1>10. CASE UNCHANGED vars
    BY <1>10, RingUnchanged DEF vars, ring, Chat!vars
  <1>11. QED
    BY <1>3, <1>4, <1>5, <1>6, <1>7, <1>8, <1>9, <1>10 DEF Next, do_send

\* The ring buffer with its truncations is a log that everybody reads in order:
\* for every queue length, nobody that lags by at most QueueMax - QueueMax / 2
\* messages loses its place.
THEOREM ChatRefined == Spec => ImplementsWorldChat
  <1>1. Spec => [](IInv /\ LongWindow /\ OpenCursor)
    BY InitIInv, StepIInv, InitChat, StepOpen, PTL DEF Spec
  <1>2. QED
    BY <1>1, InitChat, StepChat, PTL DEF Spec, ImplementsWorldChat, Chat!Spec
=============================================================================
