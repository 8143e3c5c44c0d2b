---------------------------- MODULE DbPipeProofs ---------------------------
(***************************************************************************)
(* Proofs about the database pipeline for every ring size, every number of *)
(* workers and connections: the slots in use are exactly the requests on   *)
(* their way, in order, and each belongs to one side at a time; and, from  *)
(* that, a connection that waits for the database waits for a request that *)
(* is there, a command runs once, and when every reply comes in time the   *)
(* commands of a connection run in order.                                  *)
(***************************************************************************)
EXTENDS DbPipe, FiniteSetTheorems, TLAPS

USE RingAssumption, StoreAssumption, BoundAssumption

\* What the main loop is doing agrees with what it holds.
MainOK ==
    /\ main \in [phase : {"idle", "batch", "handler", "follow"},
                 conn : Conn \cup {None}, batch : Seq(Token),
                 slot : {NoSlot} \cup (Thread \X Index),
                 stale : {NoSlot} \cup (Thread \X Index), writes : 0 .. 2]
    /\ main.phase = "idle" => main = Idle
    /\ main.phase # "idle" => main.conn \in Conn
    /\ main.phase \in {"handler", "follow"} => main.slot # NoSlot
    /\ main.stale # NoSlot => main.phase = "batch" /\ main.slot = NoSlot

ConnsOK ==
    /\ session \in [Conn -> 0 .. MaxSession]
    /\ home \in [Conn -> Thread \cup {None}]
    /\ flag \in [Conn -> {"off", "on", "old"}]
    /\ stored \in [Conn -> Seq(Token)]

PipesOK ==
    /\ next \in [Thread -> Index]
    /\ slot \in [Thread -> [Index -> Messages \cup {Empty}]]
    /\ toWorker \in [Thread -> Seq(Index)]
    /\ busy \in [Thread -> {NoSlot} \cup (Index \X Messages)]
    /\ toMain \in [Thread -> Seq(Index)]
    /\ overrun \subseteq {"slot", "store"}

CountOK ==
    /\ count \in [session : Nat, token : Nat, offline : Nat, restart : Nat]
    /\ count.session <= MaxSession

TInv == MainOK /\ ConnsOK /\ PipesOK /\ CountOK

LEMMA EmptyNoMessage == Empty \notin Messages
  BY DEF Empty, Messages

LEMMA UnparsedMessage == Unparsed \in Messages
  BY DEF Unparsed, Messages, Ops, Free

\* A pair is not the empty sequence.
LEMMA PairSome == \A a, b : <<a, b>> # NoSlot
  <1>1. \A a, b : Len(<<a, b>>) = 2
    OBVIOUS
  <1>2. Len(<<>>) = 0
    OBVIOUS
  <1>3. QED
    BY <1>1, <1>2 DEF NoSlot

\* Put of a message keeps the pipes well typed.
LEMMA PutType ==
    ASSUME PipesOK, overrun' \subseteq {"slot", "store"}, NEW t \in Thread, NEW m \in Messages, Put(t, m)
    PROVE  PipesOK'
  <1>1. next' \in [Thread -> Index]
    BY DEF Put, PipesOK, Index
  <1>2. slot' \in [Thread -> [Index -> Messages \cup {Empty}]]
    BY DEF Put, PipesOK
  <1>3. toWorker' \in [Thread -> Seq(Index)]
    BY DEF Put, PipesOK
  <1>4. QED
    BY <1>1, <1>2, <1>3 DEF Put, PipesOK

LEMMA WriteType ==
    ASSUME PipesOK, ConnsOK, NEW c \in Conn, NEW o \in Ops, NEW n \in 0 .. MaxToken,
           dbin_write(c, o, n)
    PROVE  PipesOK' /\ flag' \in [Conn -> {"off", "on", "old"}]
  <1>1. PICK t \in DbIndex(c) :
            IF RingFull(t)
            THEN UNCHANGED <<pipes, flag>>
            ELSE /\ Put(t, Message(c, o, session[c], n))
                 /\ flag' = [flag EXCEPT ![c] = "on"]
                 /\ UNCHANGED overrun
    BY DEF dbin_write
  <1>2. t \in Thread
    BY DEF DbIndex, ConnsOK
  <1>3. CASE RingFull(t)
    BY <1>1, <1>3 DEF pipes, PipesOK, ConnsOK
  <1>4. CASE ~RingFull(t)
    <2>1. Message(c, o, session[c], n) \in Messages
      BY DEF Message, Messages, ConnsOK
    <2>2. PipesOK'
      BY <1>1, <1>2, <1>4, <2>1, PutType DEF PipesOK
    <2>3. QED
      BY <1>1, <1>4, <2>2 DEF ConnsOK
  <1>5. QED
    BY <1>3, <1>4

LEMMA TypeInit == Init => TInv
  <1> SUFFICES ASSUME Init PROVE TInv
    OBVIOUS
  <1>1. MainOK
    BY DEF Init, MainOK, Idle, NoSlot, None
  <1>2. ConnsOK
    BY DEF Init, ConnsOK, Free
  <1>3. PipesOK
    <2>1. 0 \in Index
      BY DEF Index
    <2>2. /\ toWorker \in [Thread -> Seq(Index)]
          /\ toMain \in [Thread -> Seq(Index)]
      BY DEF Init
    <2>3. slot \in [Thread -> [Index -> Messages \cup {Empty}]]
      BY DEF Init
    <2>4. QED
      BY <2>1, <2>2, <2>3 DEF Init, PipesOK
  <1>4. CountOK
    BY DEF Init, CountOK
  <1>5. QED
    BY <1>1, <1>2, <1>3, <1>4 DEF TInv

LEMMA FreeType ==
    ASSUME ConnsOK, NEW c \in Conn, FreeConn(c)
    PROVE  ConnsOK'
  BY DEF ConnsOK, FreeConn, Free

\* What fits in an empty read_buffer is the beginning of the batch.
LEMMA FittingPart ==
    ASSUME NEW b \in Seq(Token)
    PROVE  /\ Fitting(b) \in Seq(Token) /\ Len(Fitting(b)) <= Len(b)
           /\ \A k \in 1 .. Len(Fitting(b)) : Fitting(b)[k] = b[k]
  <1> DEFINE n == IF Len(b) < StoreMax THEN Len(b) ELSE StoreMax
  <1>1. Fitting(b) = SubSeq(b, 1, n) /\ n \in 0 .. Len(b)
    BY DEF Fitting
  <1> HIDE DEF n
  <1>2. \A k \in 1 .. n : b[k] \in Token
    BY <1>1
  <1>3. SubSeq(b, 1, n) \in Seq(Token) /\ Len(SubSeq(b, 1, n)) = n
    BY <1>1, <1>2
  <1>4. \A k \in 1 .. n : SubSeq(b, 1, n)[k] = b[k]
    BY <1>1
  <1>5. QED
    BY <1>1, <1>3, <1>4

\* The end of a batch with a restart in it: a slot of the fresh ring is cleared,
\* and if it was in use that is noted.
LEMMA RestartedDone ==
    ASSUME TInv, BatchDoneRestarted
    PROVE  /\ main.slot = NoSlot /\ main' = Idle
           /\ \E t \in Thread, i \in Index : slot' = [slot EXCEPT ![t][i] = Empty]
           /\ \/ slot' = slot /\ overrun' = overrun
              \/ overrun' = overrun \cup {"slot"}
  <1>1. main.slot = NoSlot /\ main.stale \in Thread \X Index
    BY DEF TInv, MainOK, BatchDoneRestarted
  <1>2. PICK t \in Thread, i \in Index : main.stale = <<t, i>>
    BY <1>1
  <1>3. slot' = [slot EXCEPT ![t][i] = Empty]
    BY <1>2 DEF BatchDoneRestarted
  <1>4. CASE slot[t][i] = Empty
    <2>1. slot' = slot
      BY <1>3, <1>4 DEF TInv, PipesOK
    <2>2. QED
      BY <1>1, <1>2, <1>3, <1>4, <2>1 DEF BatchDoneRestarted
  <1>5. CASE slot[t][i] # Empty
    <2>1. main.stale[1] = t /\ main.stale[2] = i
      BY <1>2
    <2>2. overrun' = overrun \cup {"slot"} /\ main' = Idle
      BY <1>5, <2>1 DEF BatchDoneRestarted
    <2>3. QED
      BY <1>1, <1>3, <2>2
  <1>6. QED
    BY <1>4, <1>5

\* Storing leaves the rings alone, unless it is noted that a read_buffer ran over.
LEMMA StoreKeeps ==
    ASSUME NEW c \in Conn, BatchStore(c)
    PROVE  /\ UNCHANGED <<next, slot, toWorker, busy, toMain>>
           /\ overrun' = overrun \/ overrun' = overrun \cup {"store"}
  BY DEF BatchStore

LEMMA TypeStep == TInv /\ [Next]_vars => TInv'
  <1> SUFFICES ASSUME TInv, [Next]_vars PROVE TInv'
    OBVIOUS
  <1> USE DEF TInv
  <1>1. CASE BatchDone
    <2>1. PipesOK'
      BY <1>1 DEF BatchDone, PipesOK, MainOK
    <2>2. MainOK'
      BY <1>1 DEF BatchDone, MainOK, Idle, NoSlot, None
    <2>3. QED
      BY <1>1, <2>1, <2>2 DEF BatchDone, conns, ConnsOK, CountOK
  <1>2. CASE HandlerLogin
    <2>1. main.conn \in Conn
      BY <1>2 DEF HandlerLogin, MainOK
    <2>2. ConnsOK' /\ CountOK'
      <3>1. PICK t \in Thread : home' = [home EXCEPT ![main.conn] = t]
        BY <1>2 DEF HandlerLogin
      <3>2. count.session + 1 \in 0 .. MaxSession
        BY <1>2 DEF HandlerLogin, NewSession, CountOK
      <3>3. ConnsOK'
        BY <1>2, <2>1, <3>1, <3>2 DEF HandlerLogin, NewSession, ConnsOK
      <3>4. CountOK'
        BY <1>2, <3>2 DEF HandlerLogin, NewSession, CountOK
      <3>5. QED
        BY <3>3, <3>4
    <2>3. MainOK'
      <3>1. PICK w \in {0, 2} : main' = [main EXCEPT !.phase = "follow", !.writes = w]
        BY <1>2 DEF HandlerLogin
      <3>2. main.phase = "handler"
        BY <1>2 DEF HandlerLogin
      <3>3. w \in 0 .. 2
        OBVIOUS
      <3>4. QED
        BY <3>1, <3>2, <3>3 DEF MainOK
    <2>4. QED
      BY <1>2, <2>2, <2>3 DEF HandlerLogin, pipes, PipesOK
  <1>3. CASE HandlerFollow
    <2>1. main.conn \in Conn
      BY <1>3 DEF HandlerFollow, MainOK
    <2>2. PipesOK' /\ flag' \in [Conn -> {"off", "on", "old"}]
      BY <1>3, <2>1, WriteType DEF HandlerFollow, Ops
    <2>3. MainOK'
      BY <1>3 DEF HandlerFollow, MainOK
    <2>4. QED
      BY <1>3, <2>2, <2>3 DEF HandlerFollow, ConnsOK, CountOK
  <1>4. CASE HandlerDone
    <2>1. main.conn \in Conn
      BY <1>4 DEF HandlerDone, MainOK
    <2>2. ConnsOK'
      BY <1>4, <2>1 DEF HandlerDone, ConnsOK
    <2>3. MainOK'
      BY <1>4, <2>1 DEF HandlerDone, MainOK, ConnsOK
    <2>4. QED
      BY <1>4, <2>2, <2>3 DEF HandlerDone, pipes, PipesOK, CountOK
  <1>5. ASSUME NEW c \in Conn, BatchUnjam(c) PROVE TInv'
    BY <1>5 DEF BatchUnjam, pipes, PipesOK, ConnsOK, MainOK, CountOK
  <1>6. ASSUME NEW c \in Conn, BatchStore(c) PROVE TInv'
    <2>1. main.batch \in Seq(Token) /\ stored[c] \in Seq(Token)
      BY DEF ConnsOK, MainOK
    <2>2. Fitting(main.batch) \in Seq(Token)
      BY <2>1, FittingPart
    <2>3. stored[c] \o Fitting(main.batch) \in Seq(Token)
      BY <2>1, <2>2
    <2>4. ConnsOK'
      BY <1>6, <2>3 DEF BatchStore, ConnsOK
    <2>5. MainOK'
      <3>1. main' = [main EXCEPT !.batch = <<>>] /\ main.phase = "batch"
        BY <1>6 DEF BatchStore, InBatch
      <3>2. <<>> \in Seq(Token)
        OBVIOUS
      <3>3. QED
        BY <3>1, <3>2 DEF MainOK
    <2>6. PipesOK'
      <3>1. overrun' \subseteq {"slot", "store"}
        BY <1>6 DEF BatchStore, PipesOK
      <3>2. QED
        BY <1>6, <3>1 DEF BatchStore, PipesOK
    <2>7. QED
      BY <1>6, <2>4, <2>5, <2>6 DEF BatchStore, CountOK
  <1>7. ASSUME NEW c \in Conn, BatchCommand(c) PROVE TInv'
    <2>1. Head(main.batch) \in Token /\ Tail(main.batch) \in Seq(Token)
      BY <1>7 DEF BatchCommand, InBatch, MainOK
    <2>2. MainOK'
      BY <1>7, <2>1 DEF BatchCommand, InBatch, MainOK
    <2>3. CountOK'
      BY <1>7 DEF BatchCommand, CountOK
    <2>4. CASE Head(main.batch).op = "quit"
      <3>1. FreeConn(c) /\ UNCHANGED pipes
        BY <1>7, <2>4 DEF BatchCommand
      <3>2. QED
        BY <2>2, <2>3, <3>1, FreeType DEF pipes, PipesOK
    <2>5. CASE UNCHANGED <<conns, pipes>>
      BY <2>2, <2>3, <2>5 DEF conns, pipes, PipesOK, ConnsOK
    <2>6. CASE /\ Head(main.batch).op \in {"log", "cmd"}
               /\ dbin_write(c, Head(main.batch).op, Head(main.batch).n)
               /\ UNCHANGED <<session, home, stored>>
      <3>1. /\ Head(main.batch).op \in Ops
            /\ Head(main.batch).n \in 0 .. MaxToken
        BY <2>1, <2>6 DEF Token, Ops
      <3>2. PipesOK' /\ flag' \in [Conn -> {"off", "on", "old"}]
        BY <2>6, <3>1, WriteType
      <3>3. QED
        BY <2>2, <2>3, <2>6, <3>2 DEF ConnsOK
    <2>7. QED
      BY <1>7, <2>4, <2>5, <2>6 DEF BatchCommand
  <1>8. ASSUME NEW c \in Conn, DbRestart(c) PROVE TInv'
    <2>1. 0 \in Index
      BY DEF Index
    <2>2. /\ toWorker' \in [Thread -> Seq(Index)]
          /\ toMain' \in [Thread -> Seq(Index)]
      BY <1>8 DEF DbRestart
    <2>3. PipesOK'
      BY <1>8, <2>1, <2>2 DEF DbRestart, PipesOK
    <2>4. CountOK'
      BY <1>8 DEF DbRestart, CountOK
    <2>5. MainOK'
      <3>1. Tail(main.batch) \in Seq(Token)
        BY <1>8 DEF DbRestart, InBatch, MainOK
      <3>2. QED
        BY <1>8, <3>1 DEF DbRestart, InBatch, MainOK
    <2>6. QED
      BY <1>8, <2>3, <2>4, <2>5 DEF DbRestart, conns, ConnsOK
  <1>9. ASSUME NEW c \in Conn, Accept(c) PROVE TInv'
    <2>1. count.session + 1 \in 0 .. MaxSession
      BY <1>9 DEF Accept, NewSession, CountOK
    <2>2. stored' \in [Conn -> Seq(Token)]
      BY <1>9 DEF Accept, ConnsOK
    <2>3. ConnsOK'
      BY <1>9, <2>1, <2>2 DEF Accept, NewSession, ConnsOK
    <2>4. CountOK'
      BY <1>9, <2>1 DEF Accept, NewSession, CountOK
    <2>5. QED
      BY <1>9, <2>3, <2>4 DEF Accept, pipes, PipesOK, MainOK
  <1>10. ASSUME NEW c \in Conn, Disconnect(c) PROVE TInv'
    BY <1>10, FreeType DEF Disconnect, pipes, PipesOK, MainOK, CountOK
  <1>11. ASSUME NEW c \in Conn, Recv(c) PROVE TInv'
    <2>1. PICK ops \in Packets :
              /\ count.token + Len(ops) <= MaxToken
              /\ main' = [Idle EXCEPT !.phase = "batch", !.conn = c,
                                      !.batch = Numbered(ops)]
              /\ count' = [count EXCEPT !.token = @ + Len(ops)]
      BY <1>11 DEF Recv
    <2>2. /\ Len(ops) \in {1, 2}
          /\ \A i \in 1 .. Len(ops) : ops[i] \in {"log", "cmd", "quit"}
      BY DEF Packets
    <2>3. count.token \in Nat
      BY DEF CountOK
    <2>4. \A i \in 1 .. Len(ops) : [op |-> ops[i], n |-> count.token + i] \in Token
      BY <2>1, <2>2, <2>3 DEF Token
    <2>5. Numbered(ops) \in Seq(Token)
      BY <2>2, <2>4 DEF Numbered
    <2>6. MainOK'
      <3>1. main' = [phase |-> "batch", conn |-> c, batch |-> Numbered(ops),
                     slot |-> NoSlot, stale |-> NoSlot, writes |-> 0]
        BY <2>1 DEF Idle
      <3>2. QED
        BY <2>5, <3>1 DEF MainOK
    <2>7. CountOK'
      <3>1. count.token + Len(ops) \in Nat
        BY <2>2, <2>3
      <3>2. QED
        BY <2>1, <3>1 DEF CountOK
    <2>8. QED
      BY <1>11, <2>6, <2>7 DEF Recv, conns, pipes, ConnsOK, PipesOK
  <1>12. ASSUME NEW c \in Conn, Age(c) PROVE TInv'
    BY <1>12 DEF Age, pipes, PipesOK, ConnsOK, MainOK, CountOK
  <1>13. ASSUME NEW t \in Thread, OfflineWrite(t) PROVE TInv'
    <2>1. Message(None, "auto", Free, 0) \in Messages
      BY DEF Message, Messages, Ops, Free
    <2>2. overrun' \subseteq {"slot", "store"}
      BY <1>13 DEF OfflineWrite, PipesOK, RingFull
    <2>3. PipesOK'
      BY <1>13, <2>1, <2>2, PutType DEF OfflineWrite
    <2>4. QED
      <3>1. CountOK'
        BY <1>13 DEF OfflineWrite, CountOK
      <3>2. QED
        BY <1>13, <2>3, <3>1 DEF OfflineWrite, conns, ConnsOK, MainOK
  <1>14. ASSUME NEW t \in Thread, ReplyDropped(t) PROVE TInv'
    <2>1. Head(toMain[t]) \in Index /\ Tail(toMain[t]) \in Seq(Index)
      BY <1>14 DEF ReplyDropped, PipesOK
    <2>2. PipesOK'
      BY <1>14, <2>1 DEF ReplyDropped, PipesOK
    <2>3. QED
      BY <1>14, <2>2 DEF ReplyDropped, conns, ConnsOK, MainOK, CountOK
  <1>15. ASSUME NEW t \in Thread, ReplyBegin(t) PROVE TInv'
    <2>1. Head(toMain[t]) \in Index /\ Tail(toMain[t]) \in Seq(Index)
      BY <1>15 DEF ReplyBegin, PipesOK
    <2>2. PipesOK'
      BY <1>15, <2>1 DEF ReplyBegin, PipesOK
    <2>3. MainOK'
      <3> DEFINE i == Head(toMain[t])
                 d == slot[t][i].conn
      <3>1. d \in Conn
        BY <1>15 DEF ReplyBegin
      <3>2. main' = [phase |-> "handler", conn |-> d, batch |-> <<>>,
                     slot |-> <<t, i>>, stale |-> NoSlot, writes |-> 0]
        BY <1>15 DEF ReplyBegin, Idle
      <3>3. <<t, i>> \in Thread \X Index /\ <<t, i>> # NoSlot
        BY <2>1, PairSome
      <3>4. <<>> \in Seq(Token)
        OBVIOUS
      <3> HIDE DEF i, d
      <3>5. QED
        BY <3>1, <3>2, <3>3, <3>4 DEF MainOK
    <2>4. QED
      BY <1>15, <2>2, <2>3 DEF ReplyBegin, conns, ConnsOK, CountOK
  <1>16. ASSUME NEW t \in Thread, WorkerTake(t) PROVE TInv'
    <2>1. Head(toWorker[t]) \in Index /\ Tail(toWorker[t]) \in Seq(Index)
      BY <1>16 DEF WorkerTake, PipesOK
    <2> DEFINE i == Head(toWorker[t])
               m == IF slot[t][i] = Empty THEN Unparsed ELSE slot[t][i]
    <2>2. m \in Messages
      BY <2>1, UnparsedMessage DEF PipesOK
    <2>3. busy' = [busy EXCEPT ![t] = <<i, m>>]
      BY <1>16 DEF WorkerTake
    <2>4. PipesOK'
      BY <1>16, <2>1, <2>2, <2>3 DEF WorkerTake, PipesOK
    <2>5. QED
      BY <1>16, <2>4 DEF WorkerTake, conns, ConnsOK, MainOK, CountOK
  <1>17. ASSUME NEW t \in Thread, WorkerDone(t) PROVE TInv'
    <2>1. busy[t][1] \in Index /\ busy[t][2] \in Messages
      BY <1>17 DEF WorkerDone, PipesOK
    <2>2. [busy[t][2] EXCEPT !.tag = "rep"] \in Messages
      BY <2>1 DEF Messages
    <2>3. PipesOK'
      BY <1>17, <2>1, <2>2 DEF WorkerDone, PipesOK
    <2>4. QED
      BY <1>17, <2>3 DEF WorkerDone, conns, ConnsOK, MainOK, CountOK
  <1>18. CASE UNCHANGED vars
    BY <1>18 DEF vars, ConnsOK, MainOK, PipesOK, CountOK
  <1>19. CASE BatchDoneRestarted
    <2>1. PICK t \in Thread, i \in Index :
             /\ slot' = [slot EXCEPT ![t][i] = Empty]
             /\ overrun' = overrun \/ overrun' = overrun \cup {"slot"}
      BY <1>19, RestartedDone
    <2>2. PipesOK'
      <3>1. slot' \in [Thread -> [Index -> Messages \cup {Empty}]]
        BY <2>1 DEF PipesOK
      <3>2. overrun' \subseteq {"slot", "store"}
        BY <2>1 DEF PipesOK
      <3>3. UNCHANGED <<next, toWorker, busy, toMain>>
        BY <1>19 DEF BatchDoneRestarted
      <3>4. QED
        BY <3>1, <3>2, <3>3 DEF PipesOK
    <2>3. MainOK'
      BY <1>19 DEF BatchDoneRestarted, MainOK, Idle, NoSlot, None
    <2>4. QED
      BY <1>19, <2>2, <2>3 DEF BatchDoneRestarted, conns, ConnsOK, CountOK
  <1>20. QED
    BY <1>1, <1>2, <1>3, <1>4, <1>5, <1>6, <1>7, <1>8, <1>9, <1>10, <1>11, <1>12,
       <1>13, <1>14, <1>15, <1>16, <1>17, <1>18, <1>19 DEF Next, MainStep

LEMMA TypeInvariant == Spec => []TInv
  BY TypeInit, TypeStep, PTL DEF Spec

\* The pipeline, its connections and the main loop are always well typed.
THEOREM TypeCorrect == Spec => []TypeOK
  <1>1. TInv => TypeOK
    BY DEF TInv, TypeOK, MainOK, ConnsOK, PipesOK
  <1>2. QED
    BY <1>1, TypeInvariant, PTL

----------------------------------------------------------------------------
(* The rings                                                               *)

\* What is said of one worker's ring; the same values, the same verdict.
Ring_OK(t) == RingOrder(t) /\ RingUse(t)
RInv == overrun = {} => \A t \in Thread : Ring_OK(t)

SameRing(t) ==
    /\ next'[t] = next[t] /\ slot'[t] = slot[t]
    /\ toWorker'[t] = toWorker[t] /\ busy'[t] = busy[t] /\ toMain'[t] = toMain[t]
    /\ AtMain(t)' = AtMain(t)
    /\ AtMain(t) = 1 => main'.slot = main.slot

\* Walking back around the ring: one lap, no slot twice.
LEMMA BackRange ==
    ASSUME NEW n \in Index, NEW d \in 1 .. Ring
    PROVE  Back(n, d) \in Index
  BY DEF Back, Index

LEMMA BackInjective ==
    ASSUME NEW n \in Index, NEW d \in 1 .. Ring, NEW e \in 1 .. Ring, Back(n, d) = Back(n, e)
    PROVE  d = e
  BY DEF Back, Index

LEMMA BackLap ==
    ASSUME NEW n \in Index
    PROVE  Back(n, Ring) = n
  BY DEF Back, Index

\* A request written now is one write back; all others move one further.
LEMMA BackPut ==
    ASSUME NEW n \in Index, NEW n2, n2 = IF n + 1 >= Ring THEN 0 ELSE n + 1
    PROVE  /\ Back(n2, 1) = n
           /\ \A d \in 1 .. Ring - 1 : Back(n2, d + 1) = Back(n, d)
  BY DEF Back, Index

LEMMA RingSame ==
    ASSUME NEW t \in Thread, Ring_OK(t), SameRing(t)
    PROVE  Ring_OK(t)'
  <1>1. /\ AtWorker(t)' = AtWorker(t) /\ InFlight(t)' = InFlight(t)
    BY DEF SameRing, AtWorker, InFlight, Unanswered
  <1>2. RingUse(t)'
    BY <1>1 DEF Ring_OK, RingUse, SameRing
  <1>3. RingOrder(t)'
    BY <1>1 DEF Ring_OK, RingOrder, Unanswered, SameRing
  <1>4. QED
    BY <1>2, <1>3 DEF Ring_OK

LEMMA SumOfFour ==
    ASSUME NEW x \in Nat, NEW y \in Nat, NEW z \in Nat, NEW u \in Nat
    PROVE  x + y + (u + z) \in Nat /\ x + y + (u + z) = x + (u + z + y)
  OBVIOUS

\* The numbers in flight, for the arithmetic below.
LEMMA RingNumbers ==
    ASSUME PipesOK, NEW t \in Thread
    PROVE  /\ Len(toWorker[t]) \in Nat /\ Len(toMain[t]) \in Nat
           /\ AtWorker(t) \in {0, 1} /\ AtMain(t) \in {0, 1}
           /\ AtWorker(t) \in Nat /\ AtMain(t) \in Nat
           /\ InFlight(t) \in Nat
           /\ InFlight(t) = AtMain(t) + (Len(toWorker[t]) + AtWorker(t) + Len(toMain[t]))
  <1>1. Len(toWorker[t]) \in Nat /\ Len(toMain[t]) \in Nat
    BY DEF PipesOK
  <1>2. AtWorker(t) \in {0, 1} /\ AtMain(t) \in {0, 1}
    BY DEF AtWorker, AtMain
  <1>3. AtWorker(t) \in Nat /\ AtMain(t) \in Nat
    BY <1>2
  <1> DEFINE x == AtMain(t)
             y == Len(toMain[t])
             z == AtWorker(t)
             u == Len(toWorker[t])
  <1>4. x \in Nat /\ y \in Nat /\ z \in Nat /\ u \in Nat
    BY <1>1, <1>3
  <1>5. InFlight(t) = x + y + (u + z)
    BY DEF InFlight, Unanswered
  <1> HIDE DEF x, y, z, u
  <1>6. InFlight(t) \in Nat /\ InFlight(t) = x + (u + z + y)
    BY <1>4, <1>5, SumOfFour
  <1>7. QED
    BY <1>1, <1>2, <1>3, <1>6 DEF x, y, z, u

\* A write to a ring that is not full.
LEMMA RingPut ==
    ASSUME TInv, NEW t \in Thread, NEW m \in Messages, Ring_OK(t), ~RingFull(t),
           Put(t, m), AtMain(t)' = AtMain(t), AtMain(t) = 1 => main'.slot = main.slot
    PROVE  Ring_OK(t)'
  <1>0. PICK w \in Nat, l \in Nat, x \in {0, 1}, y \in {0, 1} :
            /\ w = Len(toWorker[t]) /\ l = Len(toMain[t])
            /\ x = AtWorker(t) /\ y = AtMain(t) /\ InFlight(t) = y + (w + x + l)
    BY RingNumbers DEF TInv
  <1> DEFINE a == w + x + l
             f == y + a
  <1>1. PipesOK /\ next[t] \in Index /\ toWorker[t] \in Seq(Index)
    BY DEF TInv, PipesOK
  <1>2. /\ next'[t] = IF next[t] + 1 >= Ring THEN 0 ELSE next[t] + 1
        /\ slot'[t] = [slot[t] EXCEPT ![next[t]] = m]
        /\ toWorker'[t] = Append(toWorker[t], next[t])
        /\ busy' = busy /\ toMain' = toMain
    BY <1>1 DEF Put, PipesOK
  <1>3. Len(toWorker'[t]) = w + 1 /\ AtWorker(t)' = x /\ AtMain(t)' = y
    BY <1>0, <1>1, <1>2 DEF AtWorker
  <1>4. f \in Nat /\ f = InFlight(t)
    BY <1>0
  <1>5. InFlight(t)' = f + 1
    <2>1. InFlight(t)' = y + l + ((w + 1) + x)
      BY <1>0, <1>2, <1>3 DEF InFlight, Unanswered
    <2>2. QED
      BY <2>1
  <1>6. f < Ring
    <2>1. f <= Ring /\ (slot[t][next[t]] # Empty <=> \E d \in 1 .. f : next[t] = Back(next[t], d))
      BY <1>1, <1>4 DEF Ring_OK, RingUse
    <2>2. slot[t][next[t]] = Empty
      BY DEF RingFull
    <2>3. Ring \notin 1 .. f
      BY <1>1, <2>1, <2>2, BackLap
    <2>4. QED
      BY <1>4, <2>1, <2>3
  <1>7. /\ Back(next'[t], 1) = next[t]
        /\ \A d \in 1 .. Ring - 1 : Back(next'[t], d + 1) = Back(next[t], d)
    BY <1>1, <1>2, BackPut
  <1>8. RingUse(t)'
    <2>1. \A i \in Index : slot'[t][i] # Empty <=> \E d \in 1 .. f + 1 : i = Back(next'[t], d)
      <3> SUFFICES ASSUME NEW i \in Index
                   PROVE  slot'[t][i] # Empty <=> \E d \in 1 .. f + 1 : i = Back(next'[t], d)
        OBVIOUS
      <3>1. slot[t][i] # Empty <=> \E d \in 1 .. f : i = Back(next[t], d)
        BY <1>4 DEF Ring_OK, RingUse
      <3>2. (\E d \in 1 .. f + 1 : i = Back(next'[t], d))
              <=> (i = next[t] \/ \E d \in 1 .. f : i = Back(next[t], d))
        <4>1. ASSUME NEW d \in 1 .. f + 1, i = Back(next'[t], d)
              PROVE  i = next[t] \/ \E e \in 1 .. f : i = Back(next[t], e)
          <5>1. CASE d = 1
            BY <4>1, <5>1, <1>7
          <5>2. CASE d # 1
            <6>1. d - 1 \in 1 .. f /\ d - 1 \in 1 .. Ring - 1 /\ (d - 1) + 1 = d
              BY <5>2, <1>4, <1>6
            <6>2. Back(next'[t], (d - 1) + 1) = Back(next[t], d - 1)
              BY <6>1, <1>7
            <6>3. QED
              BY <4>1, <6>1, <6>2
          <5>3. QED
            BY <5>1, <5>2
        <4>2. ASSUME i = next[t] PROVE \E d \in 1 .. f + 1 : i = Back(next'[t], d)
          BY <4>2, <1>4, <1>7
        <4>3. ASSUME NEW e \in 1 .. f, i = Back(next[t], e)
              PROVE  \E d \in 1 .. f + 1 : i = Back(next'[t], d)
          <5>1. e + 1 \in 1 .. f + 1 /\ e \in 1 .. Ring - 1
            BY <1>4, <1>6
          <5>2. QED
            BY <4>3, <5>1, <1>7
        <4>4. QED
          BY <4>1, <4>2, <4>3
      <3>3. slot'[t][i] = IF i = next[t] THEN m ELSE slot[t][i]
        BY <1>1, <1>2 DEF PipesOK
      <3>4. m # Empty
        BY EmptyNoMessage
      <3>5. QED
        BY <3>1, <3>2, <3>3, <3>4
    <2>2. QED
      BY <1>4, <1>5, <1>6, <2>1 DEF RingUse
  <1>9. RingOrder(t)'
    <2>2. \A k \in 1 .. w + 1 : toWorker'[t][k] = Back(next'[t], (w + 1) - k + 1)
      <3> SUFFICES ASSUME NEW k \in 1 .. w + 1
                   PROVE  toWorker'[t][k] = Back(next'[t], (w + 1) - k + 1)
        OBVIOUS
      <3>1. CASE k = w + 1
        <4>1. toWorker'[t][k] = next[t] /\ (w + 1) - k + 1 = 1
          BY <1>0, <1>1, <1>2, <3>1
        <4>2. QED
          BY <4>1, <1>7
      <3>2. CASE k # w + 1
        <4>1. k \in 1 .. w /\ toWorker'[t][k] = toWorker[t][k]
          BY <1>0, <1>1, <1>2, <3>2
        <4>2. toWorker[t][k] = Back(next[t], w - k + 1)
          BY <1>0, <4>1 DEF Ring_OK, RingOrder, Unanswered
        <4>3. w - k + 1 \in 1 .. Ring - 1 /\ (w - k + 1) + 1 = (w + 1) - k + 1
          BY <4>1, <1>4, <1>6
        <4>4. QED
          BY <4>1, <4>2, <4>3, <1>7
      <3>3. QED
        BY <3>1, <3>2
    <2>3. busy[t] # NoSlot => busy[t][1] = Back(next'[t], w + 1 + x)
      <3> SUFFICES ASSUME busy[t] # NoSlot
                   PROVE  busy[t][1] = Back(next'[t], w + 1 + x)
        OBVIOUS
      <3>1. x = 1
        BY <1>0 DEF AtWorker
      <3>2. busy[t][1] = Back(next[t], w + x)
        BY <1>0 DEF Ring_OK, RingOrder, Unanswered
      <3>3. w + 1 \in 1 .. Ring - 1
        BY <1>4, <1>6, <3>1
      <3>4. QED
        BY <3>1, <3>2, <3>3, <1>7
    <2>4. \A k \in 1 .. l : toMain[t][k] = Back(next'[t], (w + 1 + x + l) - k + 1)
      <3> SUFFICES ASSUME NEW k \in 1 .. l
                   PROVE  toMain[t][k] = Back(next'[t], (w + 1 + x + l) - k + 1)
        OBVIOUS
      <3>1. toMain[t][k] = Back(next[t], a - k + 1)
        <4>1. toMain[t][k] = Back(next[t], Unanswered(t) + Len(toMain[t]) - k + 1)
          BY <1>0 DEF Ring_OK, RingOrder
        <4>2. Unanswered(t) = w + x
          BY <1>0 DEF Unanswered
        <4>3. QED
          BY <1>0, <4>1, <4>2
      <3>2. a - k + 1 \in 1 .. Ring - 1 /\ (a - k + 1) + 1 = (w + 1 + x + l) - k + 1
        BY <1>4, <1>6
      <3>3. QED
        BY <3>1, <3>2, <1>7
    <2>5. y = 1 => main.slot'[2] = Back(next'[t], (w + 1 + x + l) + 1)
      <3> SUFFICES ASSUME y = 1
                   PROVE  main.slot'[2] = Back(next'[t], (w + 1 + x + l) + 1)
        OBVIOUS
      <3>1. main.slot[2] = Back(next[t], a + 1)
        BY <1>0 DEF Ring_OK, RingOrder, Unanswered
      <3>2. a + 1 \in 1 .. Ring - 1
        BY <1>4, <1>6
      <3>3. Back(next'[t], (a + 1) + 1) = Back(next[t], a + 1)
        BY <3>2, <1>7
      <3>4. main.slot' = main.slot /\ (w + 1 + x + l) + 1 = (a + 1) + 1
        BY <1>0
      <3>5. QED
        BY <3>1, <3>3, <3>4
    <2>6. QED
      <3> DEFINE w2 == Len(toWorker'[t])
                 x2 == AtWorker(t)'
                 l2 == Len(toMain'[t])
      <3>1. \A k \in 1 .. w2 : toWorker'[t][k] = Back(next'[t], w2 - k + 1)
        BY <1>3, <2>2
      <3>2. busy'[t] # NoSlot => busy'[t][1] = Back(next'[t], w2 + x2)
        BY <1>2, <1>3, <2>3
      <3>3. \A k \in 1 .. l2 : toMain'[t][k] = Back(next'[t], w2 + x2 + l2 - k + 1)
        <4>1. w2 = w + 1 /\ x2 = x /\ l2 = l /\ toMain'[t] = toMain[t]
          BY <1>0, <1>2, <1>3
        <4> HIDE DEF w2, x2, l2
        <4>2. QED
          BY <2>4, <4>1
      <3>4. AtMain(t)' = 1 => main'.slot[2] = Back(next'[t], w2 + x2 + l2 + 1)
        <4>1. w2 = w + 1 /\ x2 = x /\ l2 = l /\ AtMain(t)' = y
          BY <1>0, <1>2, <1>3
        <4> HIDE DEF w2, x2, l2
        <4>2. QED
          BY <2>5, <4>1
      <3>5. QED
        BY <3>1, <3>2, <3>3, <3>4 DEF RingOrder, Unanswered
  <1>10. QED
    BY <1>8, <1>9 DEF Ring_OK

\* The oldest slot on its way is left and cleared: the reply was dropped, or
\* its handler and the commands behind it have run.
LEMMA RingRelease ==
    ASSUME TInv, NEW t \in Thread, Ring_OK(t), NEW i \in Index,
           i = Back(next[t], InFlight(t)), InFlight(t) \in 1 .. Ring,
           next'[t] = next[t], slot'[t] = [slot[t] EXCEPT ![i] = Empty],
           InFlight(t)' = InFlight(t) - 1
    PROVE  RingUse(t)'
  <1>1. PICK f \in 1 .. Ring : f = InFlight(t)
    OBVIOUS
  <1>2. next[t] \in Index /\ slot[t] \in [Index -> Messages \cup {Empty}]
    BY DEF TInv, PipesOK
  <1>3. ASSUME NEW j \in Index
        PROVE  slot'[t][j] # Empty <=> \E d \in 1 .. f - 1 : j = Back(next[t], d)
    <2>1. slot[t][j] # Empty <=> \E d \in 1 .. f : j = Back(next[t], d)
      BY <1>1 DEF Ring_OK, RingUse
    <2>2. CASE j = i
      <3>1. slot'[t][j] = Empty
        BY <1>2, <2>2
      <3>2. ASSUME NEW d \in 1 .. f - 1, j = Back(next[t], d) PROVE FALSE
        <4>1. Back(next[t], d) = Back(next[t], f) /\ d \in 1 .. Ring
          BY <1>1, <2>2, <3>2
        <4>2. d = f
          BY <1>2, <4>1, BackInjective
        <4>3. QED
          BY <4>2
      <3>3. QED
        BY <3>1, <3>2
    <2>3. CASE j # i
      <3>1. slot'[t][j] = slot[t][j]
        BY <1>2, <2>3
      <3>2. j # Back(next[t], f)
        BY <1>1, <2>3
      <3>3. QED
        BY <2>1, <3>1, <3>2
    <2>4. QED
      BY <2>2, <2>3
  <1>4. InFlight(t)' = f - 1
    BY <1>1
  <1>5. QED
    BY <1>3, <1>4 DEF RingUse

LEMMA RingDropped ==
    ASSUME TInv, NEW t \in Thread, Ring_OK(t), ReplyDropped(t)
    PROVE  Ring_OK(t)'
  <1>0. PICK w \in Nat, l \in Nat, x \in {0, 1}, y \in {0, 1} :
            /\ w = Len(toWorker[t]) /\ l = Len(toMain[t])
            /\ x = AtWorker(t) /\ y = AtMain(t) /\ InFlight(t) = y + (w + x + l)
    BY RingNumbers DEF TInv
  <1> DEFINE i == Head(toMain[t])
  <1>1. /\ toMain[t] \in Seq(Index) /\ toMain[t] # <<>>
        /\ toMain'[t] = Tail(toMain[t])
        /\ next' = next /\ busy' = busy /\ toWorker' = toWorker /\ main' = main
        /\ slot'[t] = [slot[t] EXCEPT ![i] = Empty]
    BY DEF ReplyDropped, TInv, PipesOK
  <1>2. /\ l \in Nat \ {0} /\ i \in Index /\ i = toMain[t][1] /\ Len(toMain'[t]) = l - 1
        /\ \A k \in 1 .. l - 1 : toMain'[t][k] = toMain[t][k + 1]
    BY <1>0, <1>1
  <1>3. y = 0 /\ AtMain(t)' = 0 /\ AtWorker(t)' = x
    <2>1. main.slot = NoSlot
      BY DEF ReplyDropped, IsIdle, TInv, MainOK, Idle
    <2>2. QED
      BY <1>0, <1>1, <2>1 DEF AtMain, AtWorker
  <1>4. Unanswered(t) = w + x /\ Unanswered(t)' = w + x
    BY <1>0, <1>1, <1>3 DEF Unanswered
  <1>5. InFlight(t) = w + x + l /\ InFlight(t)' = w + x + l - 1
    <2>1. InFlight(t)' = 0 + (l - 1) + (w + x)
      BY <1>2, <1>3, <1>4 DEF InFlight
    <2>2. QED
      BY <1>0, <1>2, <1>3, <2>1
  <1>6. \A k \in 1 .. l : toMain[t][k] = Back(next[t], w + x + l - k + 1)
    BY <1>0, <1>4 DEF Ring_OK, RingOrder
  <1>7. i = Back(next[t], InFlight(t))
    <2>1. w + x + l - 1 + 1 = w + x + l
      OBVIOUS
    <2>2. QED
      BY <1>2, <1>5, <1>6, <2>1
  <1>8. InFlight(t) \in 1 .. Ring
    <2>1. InFlight(t) <= Ring
      BY DEF Ring_OK, RingUse
    <2>2. QED
      BY <1>2, <1>5, <2>1
  <1>9. RingUse(t)'
    BY <1>1, <1>2, <1>5, <1>7, <1>8, RingRelease
  <1>10. RingOrder(t)'
    <2>1. ASSUME NEW k \in 1 .. l - 1
          PROVE  toMain'[t][k] = Back(next[t], (w + x) + (l - 1) - k + 1)
      <3>1. k + 1 \in 1 .. l /\ w + x + l - (k + 1) + 1 = (w + x) + (l - 1) - k + 1
        BY <1>2
      <3>2. QED
        BY <1>2, <1>6, <3>1
    <2>2. \A k \in 1 .. Len(toMain'[t]) :
              toMain'[t][k] = Back(next'[t], Unanswered(t)' + Len(toMain'[t]) - k + 1)
      BY <1>1, <1>2, <1>4, <2>1
    <2>3. \A k \in 1 .. Len(toWorker'[t]) :
              toWorker'[t][k] = Back(next'[t], Len(toWorker'[t]) - k + 1)
      BY <1>1 DEF Ring_OK, RingOrder
    <2>4. busy'[t] # NoSlot => busy'[t][1] = Back(next'[t], Unanswered(t)')
      BY <1>1, <1>4 DEF Ring_OK, RingOrder
    <2>5. QED
      BY <1>3, <2>2, <2>3, <2>4 DEF RingOrder
  <1>11. QED
    BY <1>9, <1>10 DEF Ring_OK

\* The batch behind a reply is done: the oldest slot is cleared.
LEMMA RingFinished ==
    ASSUME TInv, NEW t \in Thread, Ring_OK(t), BatchDone, AtMain(t) = 1
    PROVE  Ring_OK(t)'
  <1>0. PICK w \in Nat, l \in Nat, x \in {0, 1} :
            /\ w = Len(toWorker[t]) /\ l = Len(toMain[t])
            /\ x = AtWorker(t) /\ InFlight(t) = 1 + (w + x + l)
    BY RingNumbers DEF TInv
  <1> DEFINE i == main.slot[2]
  <1>1. /\ main.slot \in Thread \X Index /\ main.slot[1] = t /\ i \in Index
    <2>1. main.slot # NoSlot /\ main.slot[1] = t
      BY DEF AtMain
    <2>2. QED
      BY <2>1 DEF TInv, MainOK
  <1>2. /\ next' = next /\ busy' = busy /\ toWorker' = toWorker /\ toMain' = toMain
        /\ main' = Idle
        /\ slot'[t] = [slot[t] EXCEPT ![i] = Empty]
    <2>1. main.slot # NoSlot
      BY DEF AtMain
    <2>2. QED
      BY <1>1, <2>1 DEF BatchDone, TInv, PipesOK
  <1>3. AtMain(t)' = 0 /\ AtWorker(t)' = x
    BY <1>0, <1>2 DEF AtMain, AtWorker, Idle
  <1>4. Unanswered(t) = w + x /\ Unanswered(t)' = w + x
    BY <1>0, <1>2, <1>3 DEF Unanswered
  <1>5. InFlight(t)' = w + x + l
    <2>1. InFlight(t)' = 0 + l + (w + x)
      BY <1>0, <1>2, <1>3, <1>4 DEF InFlight
    <2>2. QED
      BY <2>1
  <1>6. i = Back(next[t], InFlight(t))
    <2>1. i = Back(next[t], Unanswered(t) + Len(toMain[t]) + 1)
      BY DEF Ring_OK, RingOrder
    <2>2. (w + x) + l + 1 = 1 + (w + x + l)
      OBVIOUS
    <2>3. QED
      BY <1>0, <1>4, <2>1, <2>2
  <1>7. InFlight(t) \in 1 .. Ring /\ InFlight(t)' = InFlight(t) - 1
    <2>1. InFlight(t) <= Ring
      BY DEF Ring_OK, RingUse
    <2>2. QED
      BY <1>0, <1>5, <2>1
  <1>8. RingUse(t)'
    BY <1>1, <1>2, <1>6, <1>7, RingRelease
  <1>9. RingOrder(t)'
    <2>1. \A k \in 1 .. Len(toMain'[t]) :
              toMain'[t][k] = Back(next'[t], Unanswered(t)' + Len(toMain'[t]) - k + 1)
      BY <1>2, <1>4 DEF Ring_OK, RingOrder
    <2>2. \A k \in 1 .. Len(toWorker'[t]) :
              toWorker'[t][k] = Back(next'[t], Len(toWorker'[t]) - k + 1)
      BY <1>2 DEF Ring_OK, RingOrder
    <2>3. busy'[t] # NoSlot => busy'[t][1] = Back(next'[t], Unanswered(t)')
      BY <1>2, <1>4 DEF Ring_OK, RingOrder
    <2>4. QED
      BY <1>3, <2>1, <2>2, <2>3 DEF RingOrder
  <1>10. QED
    BY <1>8, <1>9 DEF Ring_OK

\* The oldest reply becomes the one that main handles.
LEMMA RingBegun ==
    ASSUME TInv, NEW t \in Thread, Ring_OK(t), ReplyBegin(t)
    PROVE  Ring_OK(t)'
  <1>0. PICK w \in Nat, l \in Nat, x \in {0, 1}, y \in {0, 1} :
            /\ w = Len(toWorker[t]) /\ l = Len(toMain[t])
            /\ x = AtWorker(t) /\ y = AtMain(t) /\ InFlight(t) = y + (w + x + l)
    BY RingNumbers DEF TInv
  <1> DEFINE i == Head(toMain[t])
  <1>1. /\ toMain[t] \in Seq(Index) /\ toMain[t] # <<>>
        /\ toMain'[t] = Tail(toMain[t])
        /\ next' = next /\ busy' = busy /\ toWorker' = toWorker /\ slot' = slot
        /\ main'.slot = <<t, i>>
    BY DEF ReplyBegin, TInv, PipesOK, Idle
  <1>2. /\ l \in Nat \ {0} /\ i \in Index /\ i = toMain[t][1] /\ Len(toMain'[t]) = l - 1
        /\ \A k \in 1 .. l - 1 : toMain'[t][k] = toMain[t][k + 1]
    BY <1>0, <1>1
  <1>3. y = 0 /\ AtMain(t)' = 1 /\ AtWorker(t)' = x
    <2>1. main.slot = NoSlot
      BY DEF ReplyBegin, IsIdle, TInv, MainOK, Idle
    <2>2. main'.slot # NoSlot /\ main'.slot[1] = t
      BY <1>1, PairSome
    <2>3. QED
      BY <1>0, <1>1, <2>1, <2>2 DEF AtMain, AtWorker
  <1>4. Unanswered(t) = w + x /\ Unanswered(t)' = w + x
    BY <1>0, <1>1, <1>3 DEF Unanswered
  <1>5. InFlight(t)' = InFlight(t)
    <2>1. InFlight(t)' = 1 + (l - 1) + (w + x)
      BY <1>2, <1>3, <1>4 DEF InFlight
    <2>2. QED
      BY <1>0, <1>2, <1>3, <2>1
  <1>6. \A k \in 1 .. l : toMain[t][k] = Back(next[t], (w + x) + l - k + 1)
    BY <1>0, <1>4 DEF Ring_OK, RingOrder
  <1>7. RingUse(t)'
    BY <1>1, <1>5 DEF Ring_OK, RingUse
  <1>8. RingOrder(t)'
    <2>1. ASSUME NEW k \in 1 .. l - 1
          PROVE  toMain'[t][k] = Back(next[t], (w + x) + (l - 1) - k + 1)
      <3>1. k + 1 \in 1 .. l /\ (w + x) + l - (k + 1) + 1 = (w + x) + (l - 1) - k + 1
        BY <1>2
      <3>2. QED
        BY <1>2, <1>6, <3>1
    <2>2. \A k \in 1 .. Len(toMain'[t]) :
              toMain'[t][k] = Back(next'[t], Unanswered(t)' + Len(toMain'[t]) - k + 1)
      BY <1>1, <1>2, <1>4, <2>1
    <2>3. \A k \in 1 .. Len(toWorker'[t]) :
              toWorker'[t][k] = Back(next'[t], Len(toWorker'[t]) - k + 1)
      BY <1>1 DEF Ring_OK, RingOrder
    <2>4. busy'[t] # NoSlot => busy'[t][1] = Back(next'[t], Unanswered(t)')
      BY <1>1, <1>4 DEF Ring_OK, RingOrder
    <2>5. main'.slot[2] = Back(next'[t], Unanswered(t)' + Len(toMain'[t]) + 1)
      <3>1. i = Back(next[t], (w + x) + l - 1 + 1)
        BY <1>2, <1>6
      <3>2. (w + x) + l - 1 + 1 = (w + x) + (l - 1) + 1
        OBVIOUS
      <3>3. main'.slot[2] = i /\ next'[t] = next[t]
        BY <1>1
      <3>4. Unanswered(t)' + Len(toMain'[t]) + 1 = (w + x) + (l - 1) + 1
        BY <1>2, <1>4
      <3> HIDE DEF i
      <3>5. QED
        BY <3>1, <3>2, <3>3, <3>4
    <2>6. QED
      BY <2>2, <2>3, <2>4, <2>5 DEF RingOrder
  <1>9. QED
    BY <1>7, <1>8 DEF Ring_OK

\* The oldest request for the worker becomes the one it works on.
LEMMA RingTaken ==
    ASSUME TInv, NEW t \in Thread, Ring_OK(t), WorkerTake(t)
    PROVE  Ring_OK(t)'
  <1>0. PICK w \in Nat, l \in Nat, x \in {0, 1}, y \in {0, 1} :
            /\ w = Len(toWorker[t]) /\ l = Len(toMain[t])
            /\ x = AtWorker(t) /\ y = AtMain(t) /\ InFlight(t) = y + (w + x + l)
    BY RingNumbers DEF TInv
  <1> DEFINE i == Head(toWorker[t])
  <1>1. /\ toWorker[t] \in Seq(Index) /\ toWorker[t] # <<>>
        /\ toWorker'[t] = Tail(toWorker[t])
        /\ next' = next /\ toMain' = toMain /\ slot' = slot /\ main' = main
        /\ busy[t] = NoSlot
        /\ busy'[t] # NoSlot /\ busy'[t][1] = i
    BY PairSome DEF WorkerTake, TInv, PipesOK
  <1>2. /\ w \in Nat \ {0} /\ i = toWorker[t][1] /\ Len(toWorker'[t]) = w - 1
        /\ \A k \in 1 .. w - 1 : toWorker'[t][k] = toWorker[t][k + 1]
    BY <1>0, <1>1
  <1>3. x = 0 /\ AtWorker(t)' = 1 /\ AtMain(t)' = y
    BY <1>0, <1>1 DEF AtMain, AtWorker
  <1>4. Unanswered(t) = w /\ Unanswered(t)' = w
    <2>1. Unanswered(t) = w + x /\ Unanswered(t)' = (w - 1) + 1
      BY <1>0, <1>2, <1>3 DEF Unanswered
    <2>2. QED
      BY <1>3, <2>1
  <1>5. InFlight(t)' = InFlight(t)
    BY <1>0, <1>1, <1>3, <1>4 DEF InFlight
  <1>6. \A k \in 1 .. w : toWorker[t][k] = Back(next[t], w - k + 1)
    BY <1>0 DEF Ring_OK, RingOrder
  <1>7. RingUse(t)'
    BY <1>1, <1>5 DEF Ring_OK, RingUse
  <1>8. RingOrder(t)'
    <2>1. \A k \in 1 .. Len(toMain'[t]) :
              toMain'[t][k] = Back(next'[t], Unanswered(t)' + Len(toMain'[t]) - k + 1)
      BY <1>1, <1>4 DEF Ring_OK, RingOrder
    <2>2. ASSUME NEW k \in 1 .. w - 1
          PROVE  toWorker'[t][k] = Back(next[t], (w - 1) - k + 1)
      <3>1. k + 1 \in 1 .. w /\ w - (k + 1) + 1 = (w - 1) - k + 1
        BY <1>2
      <3>2. QED
        BY <1>2, <1>6, <3>1
    <2>3. \A k \in 1 .. Len(toWorker'[t]) :
              toWorker'[t][k] = Back(next'[t], Len(toWorker'[t]) - k + 1)
      BY <1>1, <1>2, <2>2
    <2>4. busy'[t][1] = Back(next'[t], Unanswered(t)')
      <3>1. i = Back(next[t], w)
        <4>1. 1 \in 1 .. w /\ w - 1 + 1 = w
          BY <1>2
        <4>2. toWorker[t][1] = Back(next[t], w)
          BY <1>6, <4>1
        <4>3. QED
          BY <1>2, <4>2
      <3> HIDE DEF i
      <3>2. QED
        BY <1>1, <1>4, <3>1
    <2>5. AtMain(t)' = 1 =>
              main'.slot[2] = Back(next'[t], Unanswered(t)' + Len(toMain'[t]) + 1)
      BY <1>0, <1>1, <1>3, <1>4 DEF Ring_OK, RingOrder
    <2>6. QED
      BY <2>1, <2>3, <2>4, <2>5 DEF RingOrder
  <1>9. QED
    BY <1>7, <1>8 DEF Ring_OK

\* The worker's reply takes the place of its request.
LEMMA RingAnswered ==
    ASSUME TInv, NEW t \in Thread, Ring_OK(t), WorkerDone(t)
    PROVE  Ring_OK(t)'
  <1>0. PICK w \in Nat, l \in Nat, x \in {0, 1}, y \in {0, 1} :
            /\ w = Len(toWorker[t]) /\ l = Len(toMain[t])
            /\ x = AtWorker(t) /\ y = AtMain(t) /\ InFlight(t) = y + (w + x + l)
    BY RingNumbers DEF TInv
  <1> DEFINE i == busy[t][1]
             m == [busy[t][2] EXCEPT !.tag = "rep"]
  <1>1. /\ toMain[t] \in Seq(Index) /\ i \in Index /\ busy[t][2] \in Messages
        /\ toMain'[t] = Append(toMain[t], i)
        /\ next' = next /\ toWorker' = toWorker /\ main' = main
        /\ busy[t] # NoSlot /\ busy'[t] = NoSlot
        /\ slot'[t] = [slot[t] EXCEPT ![i] = m]
        /\ slot[t] \in [Index -> Messages \cup {Empty}]
    BY DEF WorkerDone, TInv, PipesOK
  <1>2. /\ Len(toMain'[t]) = l + 1 /\ toMain'[t][l + 1] = i
        /\ \A k \in 1 .. l : toMain'[t][k] = toMain[t][k]
    BY <1>0, <1>1
  <1>3. x = 1 /\ AtWorker(t)' = 0 /\ AtMain(t)' = y
    BY <1>0, <1>1 DEF AtMain, AtWorker
  <1>4. Unanswered(t) = w + 1 /\ Unanswered(t)' = w
    <2>1. Unanswered(t) = w + x /\ Unanswered(t)' = w + 0
      BY <1>0, <1>1, <1>3 DEF Unanswered
    <2>2. QED
      BY <1>3, <2>1
  <1>5. InFlight(t)' = InFlight(t) /\ InFlight(t) = y + (w + 1 + l)
    <2>1. InFlight(t)' = y + (l + 1) + w
      BY <1>2, <1>3, <1>4 DEF InFlight
    <2>2. InFlight(t) = y + (w + 1 + l)
      BY <1>0, <1>3
    <2>3. y + (l + 1) + w = y + (w + 1 + l)
      OBVIOUS
    <2>4. QED
      BY <2>1, <2>2, <2>3
  <1>6. i = Back(next[t], w + 1)
    BY <1>1, <1>4 DEF Ring_OK, RingOrder
  <1>7. RingUse(t)'
    <2>1. slot[t][i] # Empty
      <3>1. w + 1 \in 1 .. InFlight(t)
        BY <1>5
      <3>2. QED
        BY <1>1, <1>6, <3>1 DEF Ring_OK, RingUse
    <2>2. m # Empty
      <3>1. m \in Messages
        BY <1>1 DEF Messages
      <3>2. QED
        BY <3>1, EmptyNoMessage
    <2>3. \A j \in Index : slot'[t][j] # Empty <=> slot[t][j] # Empty
      BY <1>1, <2>1, <2>2
    <2>4. QED
      BY <1>1, <1>5, <2>3 DEF Ring_OK, RingUse
  <1>8. RingOrder(t)'
    <2>1. ASSUME NEW k \in 1 .. l + 1
          PROVE  toMain'[t][k] = Back(next[t], w + (l + 1) - k + 1)
      <3>1. CASE k = l + 1
        <4>1. w + (l + 1) - k + 1 = w + 1
          BY <3>1
        <4>2. QED
          BY <1>2, <1>6, <3>1, <4>1
      <3>2. CASE k # l + 1
        <4>1. k \in 1 .. l /\ (w + 1) + l - k + 1 = w + (l + 1) - k + 1
          BY <3>2
        <4>2. toMain[t][k] = Back(next[t], (w + 1) + l - k + 1)
          BY <1>0, <1>4, <4>1 DEF Ring_OK, RingOrder
        <4>3. QED
          BY <1>2, <4>1, <4>2
      <3>3. QED
        BY <3>1, <3>2
    <2>2. \A k \in 1 .. Len(toMain'[t]) :
              toMain'[t][k] = Back(next'[t], Unanswered(t)' + Len(toMain'[t]) - k + 1)
      BY <1>1, <1>2, <1>4, <2>1
    <2>3. \A k \in 1 .. Len(toWorker'[t]) :
              toWorker'[t][k] = Back(next'[t], Len(toWorker'[t]) - k + 1)
      BY <1>1 DEF Ring_OK, RingOrder
    <2>4. AtMain(t)' = 1 =>
              main'.slot[2] = Back(next'[t], Unanswered(t)' + Len(toMain'[t]) + 1)
      <3>1. y = 1 => main.slot[2] = Back(next[t], (w + 1) + l + 1)
        BY <1>0, <1>4 DEF Ring_OK, RingOrder
      <3>2. (w + 1) + l + 1 = w + (l + 1) + 1
        OBVIOUS
      <3>3. QED
        BY <1>1, <1>2, <1>3, <1>4, <3>1, <3>2
    <2>5. QED
      BY <1>1, <2>2, <2>3, <2>4 DEF RingOrder
  <1>9. QED
    BY <1>7, <1>8 DEF Ring_OK

\* Init: nothing is on its way and every slot is empty.
LEMMA RingInit == Init => RInv
  <1> SUFFICES ASSUME Init, NEW t \in Thread PROVE Ring_OK(t)
    BY DEF RInv
  <1>1. /\ toWorker[t] = <<>> /\ toMain[t] = <<>> /\ busy[t] = NoSlot
        /\ main.slot = NoSlot /\ \A i \in Index : slot[t][i] = Empty
    BY DEF Init, Idle
  <1>2. AtMain(t) = 0 /\ AtWorker(t) = 0 /\ InFlight(t) = 0
    BY <1>1 DEF AtMain, AtWorker, InFlight, Unanswered
  <1>3. RingUse(t)
    BY <1>1, <1>2 DEF RingUse
  <1>4. RingOrder(t)
    BY <1>1, <1>2 DEF RingOrder
  <1>5. QED
    BY <1>3, <1>4 DEF Ring_OK

\* A write to one worker leaves the rings of the others alone.
LEMMA RingsPut ==
    ASSUME TInv, NEW t \in Thread, NEW m \in Messages, Put(t, m),
           ~RingFull(t), main'.slot = main.slot, \A u \in Thread : Ring_OK(u)
    PROVE  \A u \in Thread : Ring_OK(u)'
  <1> SUFFICES ASSUME NEW u \in Thread PROVE Ring_OK(u)'
    OBVIOUS
  <1>1. AtMain(u)' = AtMain(u)
    BY DEF AtMain
  <1>2. CASE u = t
    BY <1>1, <1>2, RingPut
  <1>3. CASE u # t
    <2>1. SameRing(u)
      BY <1>1, <1>3 DEF Put, SameRing, TInv, PipesOK
    <2>2. QED
      BY <2>1, RingSame
  <1>4. QED
    BY <1>2, <1>3

LEMMA RingsWrite ==
    ASSUME TInv, NEW c \in Conn, NEW o \in Ops, NEW n \in 0 .. MaxToken,
           dbin_write(c, o, n), main'.slot = main.slot, RInv
    PROVE  RInv'
  <1>1. PICK t \in DbIndex(c) :
            IF RingFull(t)
            THEN UNCHANGED <<pipes, flag>>
            ELSE /\ Put(t, Message(c, o, session[c], n))
                 /\ flag' = [flag EXCEPT ![c] = "on"]
                 /\ UNCHANGED overrun
    BY DEF dbin_write
  <1>2. t \in Thread
    BY DEF DbIndex, TInv, ConnsOK
  <1>3. CASE RingFull(t)
    <2>1. \A u \in Thread : SameRing(u)
      BY <1>1, <1>3 DEF pipes, SameRing, AtMain
    <2>2. QED
      BY <1>1, <1>3, <2>1, RingSame DEF RInv, pipes
  <1>4. CASE ~RingFull(t)
    <2>1. Message(c, o, session[c], n) \in Messages
      BY DEF Message, Messages, TInv, ConnsOK
    <2>2. QED
      BY <1>1, <1>2, <1>4, <2>1, RingsPut DEF RInv
  <1>5. QED
    BY <1>3, <1>4

LEMMA RingsKept ==
    ASSUME RInv, UNCHANGED pipes, main'.slot = main.slot
    PROVE  RInv'
  <1>1. \A u \in Thread : SameRing(u)
    BY DEF pipes, SameRing, AtMain
  <1>2. QED
    BY <1>1, RingSame DEF RInv, pipes

\* A step of one worker's ring that touches no other ring.
LEMMA RingsOne ==
    ASSUME RInv, overrun' = overrun, NEW t \in Thread,
           Ring_OK(t) => Ring_OK(t)', \A u \in Thread \ {t} : SameRing(u)
    PROVE  RInv'
  BY RingSame DEF RInv

LEMMA RingStep == TInv /\ RInv /\ [Next]_vars => RInv'
  <1> SUFFICES ASSUME TInv, RInv, [Next]_vars PROVE RInv'
    OBVIOUS
  <1>0. PipesOK /\ MainOK
    BY DEF TInv
  <1>1. CASE BatchDone
    <2>1. CASE main.slot = NoSlot
      BY <1>1, <2>1, RingsKept DEF BatchDone, pipes, Idle
    <2>2. CASE main.slot # NoSlot
      <3>1. PICK t \in Thread : t = main.slot[1] /\ AtMain(t) = 1
        BY <1>0, <2>2 DEF MainOK, AtMain
      <3>2. \A u \in Thread \ {t} : SameRing(u)
        BY <1>0, <1>1, <2>2, <3>1 DEF BatchDone, SameRing, AtMain, PipesOK, Idle
      <3>3. overrun' = overrun
        BY <1>1 DEF BatchDone
      <3>4. Ring_OK(t) => Ring_OK(t)'
        BY <1>1, <3>1, RingFinished
      <3>5. QED
        BY <3>1, <3>2, <3>3, <3>4, RingsOne
    <2>3. QED
      BY <2>1, <2>2
  <1>2. CASE HandlerLogin
    <2>1. main'.slot = main.slot
      BY <1>0, <1>2 DEF HandlerLogin, MainOK
    <2>2. QED
      BY <1>2, <2>1, RingsKept DEF HandlerLogin
  <1>3. CASE HandlerFollow
    <2>1. main'.slot = main.slot /\ main.conn \in Conn
      BY <1>0, <1>3 DEF HandlerFollow, MainOK
    <2>2. QED
      BY <1>3, <2>1, RingsWrite DEF HandlerFollow, Ops
  <1>4. CASE HandlerDone
    <2>1. main'.slot = main.slot
      BY <1>0, <1>4 DEF HandlerDone, MainOK
    <2>2. QED
      BY <1>4, <2>1, RingsKept DEF HandlerDone
  <1>5. ASSUME NEW c \in Conn, BatchUnjam(c) PROVE RInv'
    BY <1>5, RingsKept DEF BatchUnjam
  <1>6. ASSUME NEW c \in Conn, BatchStore(c) PROVE RInv'
    <2>1. main'.slot = main.slot
      BY <1>0, <1>6 DEF BatchStore, MainOK
    <2>2. CASE overrun' = overrun
      BY <1>6, <2>1, <2>2, StoreKeeps, RingsKept DEF pipes
    <2>3. CASE overrun' # overrun
      BY <1>6, <2>3, StoreKeeps DEF RInv
    <2>4. QED
      BY <2>2, <2>3
  <1>7. ASSUME NEW c \in Conn, BatchCommand(c) PROVE RInv'
    <2>1. main'.slot = main.slot /\ Head(main.batch) \in Token
      BY <1>0, <1>7 DEF BatchCommand, InBatch, MainOK
    <2>2. CASE UNCHANGED pipes
      BY <2>1, <2>2, RingsKept
    <2>3. CASE /\ Head(main.batch).op \in {"log", "cmd"}
               /\ dbin_write(c, Head(main.batch).op, Head(main.batch).n)
      <3>1. Head(main.batch).op \in Ops /\ Head(main.batch).n \in 0 .. MaxToken
        BY <2>1, <2>3 DEF Token, Ops
      <3>2. QED
        BY <2>1, <2>3, <3>1, RingsWrite
    <2>4. QED
      BY <1>7, <2>2, <2>3 DEF BatchCommand
  <1>8. ASSUME NEW c \in Conn, DbRestart(c) PROVE RInv'
    <2> SUFFICES ASSUME NEW t \in Thread PROVE Ring_OK(t)'
      BY DEF RInv
    <2>1. /\ toWorker'[t] = <<>> /\ toMain'[t] = <<>> /\ busy'[t] = NoSlot
          /\ main'.slot = NoSlot /\ \A i \in Index : slot'[t][i] = Empty
      BY <1>0, <1>8 DEF DbRestart, MainOK
    <2>2. AtMain(t)' = 0 /\ AtWorker(t)' = 0 /\ InFlight(t)' = 0
      BY <2>1 DEF AtMain, AtWorker, InFlight, Unanswered
    <2>3. RingUse(t)'
      BY <2>1, <2>2 DEF RingUse
    <2>4. RingOrder(t)'
      BY <2>1, <2>2 DEF RingOrder
    <2>5. QED
      BY <2>3, <2>4 DEF Ring_OK
  <1>9. ASSUME NEW c \in Conn, Accept(c) \/ Disconnect(c) \/ Age(c) PROVE RInv'
    BY <1>9, RingsKept DEF Accept, Disconnect, Age
  <1>10. ASSUME NEW c \in Conn, Recv(c) PROVE RInv'
    <2>1. main'.slot = NoSlot /\ main.slot = NoSlot
      BY <1>0, <1>10 DEF Recv, IsIdle, MainOK, Idle
    <2>2. QED
      BY <1>10, <2>1, RingsKept DEF Recv
  <1>11. ASSUME NEW t \in Thread, OfflineWrite(t) PROVE RInv'
    <2>1. Message(None, "auto", Free, 0) \in Messages
      BY DEF Message, Messages, Ops, Free
    <2>2. CASE RingFull(t)
      BY <1>11, <2>2 DEF OfflineWrite, RInv
    <2>3. CASE ~RingFull(t)
      <3>1. overrun' = overrun
        BY <1>0, <1>11, <2>3 DEF OfflineWrite, PipesOK
      <3>2. QED
        BY <1>11, <2>1, <2>3, <3>1, RingsPut DEF OfflineWrite, RInv
    <2>4. QED
      BY <2>2, <2>3
  <1>12. ASSUME NEW t \in Thread, ReplyDropped(t) PROVE RInv'
    <2>1. \A u \in Thread \ {t} : SameRing(u)
      BY <1>0, <1>12 DEF ReplyDropped, SameRing, AtMain, PipesOK
    <2>2. QED
      BY <1>12, <2>1, RingDropped, RingsOne DEF ReplyDropped
  <1>13. ASSUME NEW t \in Thread, ReplyBegin(t) PROVE RInv'
    <2>1. main.slot = NoSlot /\ main'.slot[1] = t
      BY <1>0, <1>13 DEF ReplyBegin, IsIdle, MainOK, Idle
    <2>2. \A u \in Thread \ {t} : SameRing(u)
      BY <1>0, <1>13, <2>1 DEF ReplyBegin, SameRing, AtMain, PipesOK
    <2>3. QED
      BY <1>13, <2>2, RingBegun, RingsOne DEF ReplyBegin
  <1>14. ASSUME NEW t \in Thread, WorkerTake(t) PROVE RInv'
    <2>1. \A u \in Thread \ {t} : SameRing(u)
      BY <1>0, <1>14 DEF WorkerTake, SameRing, AtMain, PipesOK
    <2>2. QED
      BY <1>14, <2>1, RingTaken, RingsOne DEF WorkerTake
  <1>15. ASSUME NEW t \in Thread, WorkerDone(t) PROVE RInv'
    <2>1. \A u \in Thread \ {t} : SameRing(u)
      BY <1>0, <1>15 DEF WorkerDone, SameRing, AtMain, PipesOK
    <2>2. QED
      BY <1>15, <2>1, RingAnswered, RingsOne DEF WorkerDone
  <1>16. CASE UNCHANGED vars
    BY <1>16, RingsKept DEF vars, pipes
  <1>17. CASE BatchDoneRestarted
    <2>1. main.slot = NoSlot /\ main'.slot = NoSlot
      BY <1>17, RestartedDone DEF Idle
    <2>2. CASE slot' = slot /\ overrun' = overrun
      BY <1>17, <2>1, <2>2, RingsKept DEF BatchDoneRestarted, pipes
    <2>3. CASE overrun' = overrun \cup {"slot"}
      BY <2>3 DEF RInv
    <2>4. QED
      BY <1>17, <2>2, <2>3, RestartedDone
  <1>18. QED
    BY <1>1, <1>2, <1>3, <1>4, <1>5, <1>6, <1>7, <1>8, <1>9, <1>10, <1>11, <1>12,
       <1>13, <1>14, <1>15, <1>16, <1>17 DEF Next, MainStep

\* The slots of a ring in use are those of the requests on their way, each
\* once and in the order they were written, until a slot in use is written over
\* or cleared, or a read_buffer runs over: no request is lost, answered twice or
\* answered out of turn.
THEOREM RingsExact == Spec => []RingExact
  <1>1. RInv => RingExact
    BY DEF RInv, Ring_OK, RingExact
  <1>2. QED
    BY <1>1, TypeInvariant, RingInit, RingStep, PTL DEF Spec
----------------------------------------------------------------------------
(* Who owns a slot                                                         *)

\* SlotOwner of one worker; what dbio works on is a request.
Owned(t) ==
    /\ \A k \in 1 .. Len(toWorker[t]) : slot[t][toWorker[t][k]].tag = "req"
    /\ \A k \in 1 .. Len(toMain[t]) : slot[t][toMain[t][k]].tag = "rep"
    /\ busy[t] # NoSlot => slot[t][busy[t][1]] = busy[t][2] /\ busy[t][2].tag = "req"
OInv == overrun = {} => \A t \in Thread : Owned(t)

LEMMA TagEmpty == \A m : m.tag \in {"req", "rep"} => m # Empty
  BY DEF Empty

\* The ring order gives every number on its way a slot of its own.
LEMMA RingApart ==
    ASSUME PipesOK, NEW t \in Thread, Ring_OK(t)
    PROVE  /\ busy[t] # NoSlot => \A k \in 1 .. Len(toWorker[t]) : toWorker[t][k] # busy[t][1]
           /\ \A j, k \in 1 .. Len(toMain[t]) : toMain[t][j] = toMain[t][k] => j = k
           /\ AtMain(t) = 1 =>
                /\ \A k \in 1 .. Len(toWorker[t]) : toWorker[t][k] # main.slot[2]
                /\ \A k \in 1 .. Len(toMain[t]) : toMain[t][k] # main.slot[2]
                /\ busy[t] # NoSlot => busy[t][1] # main.slot[2]
  <1>1. PICK w \in Nat, l \in Nat, x \in {0, 1}, y \in {0, 1} :
            /\ w = Len(toWorker[t]) /\ l = Len(toMain[t])
            /\ x = AtWorker(t) /\ y = AtMain(t) /\ InFlight(t) = y + (w + x + l)
    BY RingNumbers
  <1>2. next[t] \in Index /\ Unanswered(t) = w + x /\ y + (w + x + l) <= Ring
    BY <1>1 DEF PipesOK, Unanswered, Ring_OK, RingUse
  <1>3. \A k \in 1 .. w : w - k + 1 \in 1 .. w /\ toWorker[t][k] = Back(next[t], w - k + 1)
    BY <1>1 DEF Ring_OK, RingOrder
  <1>4. busy[t] # NoSlot => x = 1 /\ busy[t][1] = Back(next[t], w + x)
    BY <1>1, <1>2 DEF Ring_OK, RingOrder, AtWorker
  <1>5. \A k \in 1 .. l : /\ w + x + l - k + 1 \in w + x + 1 .. w + x + l
                          /\ toMain[t][k] = Back(next[t], w + x + l - k + 1)
    <2>1. ASSUME NEW k \in 1 .. l PROVE w + x + l - k + 1 \in w + x + 1 .. w + x + l
      OBVIOUS
    <2>2. RingOrder(t)
      BY DEF Ring_OK
    <2>3. ASSUME NEW k \in 1 .. l PROVE toMain[t][k] = Back(next[t], w + x + l - k + 1)
      <3>1. toMain[t][k] = Back(next[t], Unanswered(t) + Len(toMain[t]) - k + 1)
        BY <1>1, <2>2 DEF RingOrder
      <3>2. QED
        BY <1>1, <1>2, <3>1
    <2>4. QED
      BY <2>1, <2>3
  <1>6. y = 1 => main.slot[2] = Back(next[t], w + x + l + 1)
    BY <1>1, <1>2 DEF Ring_OK, RingOrder
  <1>7. \A d, e \in 1 .. y + (w + x + l) : Back(next[t], d) = Back(next[t], e) => d = e
    BY <1>2, BackInjective
  <1>8. ASSUME busy[t] # NoSlot, NEW k \in 1 .. w PROVE toWorker[t][k] # busy[t][1]
    <2>1. w - k + 1 \in 1 .. y + (w + x + l) /\ w + x \in 1 .. y + (w + x + l) /\ w - k + 1 # w + x
      BY <1>4, <1>8
    <2>2. QED
      BY <1>3, <1>4, <1>7, <1>8, <2>1
  <1>9. ASSUME NEW j \in 1 .. l, NEW k \in 1 .. l, toMain[t][j] = toMain[t][k] PROVE j = k
    <2>1. /\ w + x + l - j + 1 \in 1 .. y + (w + x + l)
          /\ w + x + l - k + 1 \in 1 .. y + (w + x + l)
      OBVIOUS
    <2>2. w + x + l - j + 1 = w + x + l - k + 1
      BY <1>5, <1>7, <1>9, <2>1
    <2>3. QED
      BY <2>2
  <1>10. ASSUME y = 1 PROVE /\ \A k \in 1 .. w : toWorker[t][k] # main.slot[2]
                            /\ \A k \in 1 .. l : toMain[t][k] # main.slot[2]
                            /\ busy[t] # NoSlot => busy[t][1] # main.slot[2]
    <2>1. w + x + l + 1 \in 1 .. y + (w + x + l)
      BY <1>10
    <2>2. ASSUME NEW k \in 1 .. w PROVE toWorker[t][k] # main.slot[2]
      <3>1. w - k + 1 \in 1 .. y + (w + x + l) /\ w - k + 1 # w + x + l + 1
        OBVIOUS
      <3>2. QED
        BY <1>3, <1>6, <1>7, <1>10, <2>1, <3>1
    <2>3. ASSUME NEW k \in 1 .. l PROVE toMain[t][k] # main.slot[2]
      <3>1. w + x + l - k + 1 \in 1 .. y + (w + x + l) /\ w + x + l - k + 1 # w + x + l + 1
        OBVIOUS
      <3>2. QED
        BY <1>5, <1>6, <1>7, <1>10, <2>1, <3>1
    <2>4. ASSUME busy[t] # NoSlot PROVE busy[t][1] # main.slot[2]
      <3>1. w + x \in 1 .. y + (w + x + l) /\ w + x # w + x + l + 1
        BY <1>4, <2>4
      <3>2. QED
        BY <1>4, <1>6, <1>7, <1>10, <2>1, <2>4, <3>1
    <2>5. QED
      BY <2>2, <2>3, <2>4
  <1>11. QED
    BY <1>1, <1>8, <1>9, <1>10

\* A write goes to an empty slot, which none of the numbers names.
LEMMA OwnedPut ==
    ASSUME PipesOK, NEW t \in Thread, NEW m \in Messages, m.tag = "req", ~RingFull(t), Put(t, m),
           \A u \in Thread : Owned(u)
    PROVE  \A u \in Thread : Owned(u)'
  <1> SUFFICES ASSUME NEW u \in Thread PROVE Owned(u)'
    OBVIOUS
  <1>1. CASE u # t
    BY <1>1 DEF Put, Owned, PipesOK
  <1>2. CASE u = t
    <2> DEFINE n == next[t]
    <2>1. n \in Index /\ slot[t][n] = Empty
      BY DEF RingFull, PipesOK
    <2>2. slot'[t] = [slot[t] EXCEPT ![n] = m] /\ toWorker'[t] = Append(toWorker[t], n)
          /\ toMain'[t] = toMain[t] /\ busy'[t] = busy[t]
      BY DEF Put, PipesOK
    <2>3. \A i \in Index : slot'[t][i] = IF i = n THEN m ELSE slot[t][i]
      BY <2>2 DEF PipesOK
    <2>4. ASSUME NEW k \in 1 .. Len(toWorker'[t]) PROVE slot'[t][toWorker'[t][k]].tag = "req"
      <3>1. CASE k = Len(toWorker[t]) + 1
        <4>1. toWorker'[t][k] = n
          BY <2>2, <3>1 DEF PipesOK
        <4>2. QED
          BY <2>1, <2>3, <4>1
      <3>2. CASE k # Len(toWorker[t]) + 1
        <4>1. k \in 1 .. Len(toWorker[t]) /\ toWorker'[t][k] = toWorker[t][k] /\ toWorker[t][k] \in Index
          BY <2>2, <3>2 DEF PipesOK
        <4>2. slot[t][toWorker[t][k]].tag = "req" /\ toWorker[t][k] # n
          BY <2>1, <4>1, TagEmpty DEF Owned
        <4>3. QED
          BY <2>3, <4>1, <4>2
      <3>3. QED
        BY <3>1, <3>2
    <2>5. ASSUME NEW k \in 1 .. Len(toMain'[t]) PROVE slot'[t][toMain'[t][k]].tag = "rep"
      <3>1. k \in 1 .. Len(toMain[t]) /\ toMain[t][k] \in Index
        BY <2>2 DEF PipesOK
      <3>2. slot[t][toMain[t][k]].tag = "rep" /\ toMain[t][k] # n
        BY <2>1, <3>1, TagEmpty DEF Owned
      <3>3. QED
        BY <2>2, <2>3, <3>1, <3>2
    <2>6. ASSUME busy'[t] # NoSlot
          PROVE  slot'[t][busy'[t][1]] = busy'[t][2] /\ busy'[t][2].tag = "req"
      <3>1. busy[t] \in Index \X Messages
        BY <2>2, <2>6 DEF PipesOK
      <3>2. busy[t][1] \in Index /\ busy[t][1] # n
        BY <2>1, <2>2, <2>6, <3>1, TagEmpty DEF Owned
      <3>3. QED
        BY <2>2, <2>3, <2>6, <3>2 DEF Owned
    <2>7. QED
      BY <1>2, <2>4, <2>5, <2>6 DEF Owned
  <1>3. QED
    BY <1>1, <1>2

LEMMA OwnedWrite ==
    ASSUME TInv, NEW c \in Conn, NEW o \in Ops, NEW n \in 0 .. MaxToken, dbin_write(c, o, n), OInv
    PROVE  OInv'
  <1>1. PICK t \in DbIndex(c) :
            IF RingFull(t)
            THEN UNCHANGED <<pipes, flag>>
            ELSE /\ Put(t, Message(c, o, session[c], n))
                 /\ flag' = [flag EXCEPT ![c] = "on"]
                 /\ UNCHANGED overrun
    BY DEF dbin_write
  <1>2. t \in Thread
    BY DEF DbIndex, TInv, ConnsOK
  <1>3. CASE RingFull(t)
    BY <1>1, <1>3 DEF pipes, OInv, Owned
  <1>4. CASE ~RingFull(t)
    <2>1. Message(c, o, session[c], n) \in Messages /\ Message(c, o, session[c], n).tag = "req"
      BY DEF Message, Messages, TInv, ConnsOK
    <2>2. QED
      BY <1>1, <1>2, <1>4, <2>1, OwnedPut DEF OInv, TInv
  <1>5. QED
    BY <1>3, <1>4

\* A slot is emptied that none of the numbers left names.
LEMMA OwnedEmptied ==
    ASSUME PipesOK, NEW t \in Thread, NEW i \in Index, Owned(t),
           slot'[t] = [slot[t] EXCEPT ![i] = Empty], busy'[t] = busy[t],
           toWorker'[t] = toWorker[t], toMain'[t] \in Seq(Index),
           \A k \in 1 .. Len(toMain'[t]) : /\ toMain'[t][k] # i
                                           /\ slot[t][toMain'[t][k]].tag = "rep",
           \A k \in 1 .. Len(toWorker[t]) : toWorker[t][k] # i,
           busy[t] # NoSlot => busy[t][1] # i
    PROVE  Owned(t)'
  <1>1. \A j \in Index : j # i => slot'[t][j] = slot[t][j]
    BY DEF PipesOK
  <1>2. \A k \in 1 .. Len(toWorker[t]) : toWorker[t][k] \in Index
    BY DEF PipesOK
  <1>3. \A k \in 1 .. Len(toMain'[t]) : toMain'[t][k] \in Index
    OBVIOUS
  <1>4. busy[t] # NoSlot => busy[t][1] \in Index
    BY DEF PipesOK
  <1>5. QED
    BY <1>1, <1>2, <1>3, <1>4 DEF Owned

\* A step of one worker's ring leaves the slots of the others to their owners.
LEMMA OwnedOne ==
    ASSUME OInv, overrun' = overrun, NEW t \in Thread, overrun = {} => Owned(t)',
           \A u \in Thread \ {t} : SameRing(u)
    PROVE  OInv'
  BY DEF OInv, Owned, SameRing

LEMMA OwnedDropped ==
    ASSUME TInv, RInv, OInv, NEW t \in Thread, ReplyDropped(t), overrun = {}
    PROVE  Owned(t)'
  <1> DEFINE i == Head(toMain[t])
  <1>0. PipesOK /\ Owned(t) /\ Ring_OK(t) /\ toMain[t] \in Seq(Index) /\ toMain[t] # <<>>
    BY DEF TInv, PipesOK, OInv, RInv, ReplyDropped
  <1>1. i \in Index /\ i = toMain[t][1] /\ 1 \in 1 .. Len(toMain[t]) /\ slot[t][i].tag = "rep"
    BY <1>0 DEF Owned
  <1>2. slot'[t] = [slot[t] EXCEPT ![i] = Empty] /\ busy'[t] = busy[t]
        /\ toWorker'[t] = toWorker[t] /\ toMain'[t] = Tail(toMain[t])
    BY <1>0 DEF ReplyDropped, PipesOK
  <1>3. /\ toMain'[t] \in Seq(Index)
        /\ \A k \in 1 .. Len(toMain'[t]) :
              k + 1 \in 1 .. Len(toMain[t]) /\ k + 1 # 1 /\ toMain'[t][k] = toMain[t][k + 1]
    BY <1>0, <1>2
  <1>4. ASSUME NEW k \in 1 .. Len(toMain'[t])
        PROVE  toMain'[t][k] # i /\ slot[t][toMain'[t][k]].tag = "rep"
    BY <1>0, <1>1, <1>3, RingApart DEF Owned
  <1>5. \A k \in 1 .. Len(toWorker[t]) : toWorker[t][k] # i
    BY <1>0, <1>1 DEF Owned
  <1>6. busy[t] # NoSlot => busy[t][1] # i
    BY <1>0, <1>1 DEF Owned
  <1>7. QED
    BY <1>0, <1>1, <1>2, <1>3, <1>4, <1>5, <1>6, OwnedEmptied

LEMMA OwnedFinished ==
    ASSUME TInv, RInv, OInv, NEW t \in Thread, BatchDone, main.slot # NoSlot, main.slot[1] = t, overrun = {}
    PROVE  Owned(t)'
  <1>0. PipesOK /\ Owned(t) /\ Ring_OK(t) /\ toMain[t] \in Seq(Index) /\ AtMain(t) = 1
    BY DEF TInv, PipesOK, OInv, RInv, AtMain
  <1>1. main.slot[2] \in Index
    BY DEF TInv, MainOK
  <1>2. slot'[t] = [slot[t] EXCEPT ![main.slot[2]] = Empty] /\ busy'[t] = busy[t]
        /\ toWorker'[t] = toWorker[t] /\ toMain'[t] = toMain[t]
    BY <1>0 DEF BatchDone, PipesOK
  <1>3. ASSUME NEW k \in 1 .. Len(toMain'[t])
        PROVE  toMain'[t][k] # main.slot[2] /\ slot[t][toMain'[t][k]].tag = "rep"
    BY <1>0, <1>2, RingApart DEF Owned
  <1>4. \A k \in 1 .. Len(toWorker[t]) : toWorker[t][k] # main.slot[2]
    BY <1>0, RingApart
  <1>5. busy[t] # NoSlot => busy[t][1] # main.slot[2]
    BY <1>0, RingApart
  <1>6. QED
    BY <1>0, <1>1, <1>2, <1>3, <1>4, <1>5, OwnedEmptied

LEMMA OwnedTaken ==
    ASSUME TInv, OInv, NEW t \in Thread, WorkerTake(t), overrun = {}
    PROVE  Owned(t)'
  <1> DEFINE i == Head(toWorker[t])
  <1>0. PipesOK /\ Owned(t) /\ toWorker[t] \in Seq(Index) /\ toWorker[t] # <<>>
    BY DEF TInv, PipesOK, OInv, WorkerTake
  <1>1. i \in Index /\ slot[t][i].tag = "req" /\ slot[t][i] # Empty
    BY <1>0, TagEmpty DEF Owned
  <1>2. busy'[t] = <<i, slot[t][i]>> /\ toWorker'[t] = Tail(toWorker[t])
        /\ toMain'[t] = toMain[t] /\ slot'[t] = slot[t]
    BY <1>0, <1>1 DEF WorkerTake, PipesOK
  <1>3. \A k \in 1 .. Len(toWorker'[t]) :
           k + 1 \in 1 .. Len(toWorker[t]) /\ toWorker'[t][k] = toWorker[t][k + 1]
    BY <1>0, <1>2
  <1>4. QED
    BY <1>0, <1>1, <1>2, <1>3 DEF Owned

LEMMA OwnedAnswered ==
    ASSUME TInv, RInv, OInv, NEW t \in Thread, WorkerDone(t), overrun = {}
    PROVE  Owned(t)'
  <1> DEFINE i == busy[t][1]
             m == [busy[t][2] EXCEPT !.tag = "rep"]
  <1>0. PipesOK /\ Owned(t) /\ Ring_OK(t) /\ toMain[t] \in Seq(Index) /\ busy[t] # NoSlot
    BY DEF TInv, PipesOK, OInv, RInv, WorkerDone
  <1>1. busy[t] \in Index \X Messages
    BY <1>0 DEF PipesOK
  <1>2. i \in Index /\ m.tag = "rep"
    BY <1>1 DEF Messages
  <1>3. slot'[t] = [slot[t] EXCEPT ![i] = m] /\ busy'[t] = NoSlot
        /\ toWorker'[t] = toWorker[t] /\ toMain'[t] = Append(toMain[t], i)
    BY <1>0 DEF WorkerDone, PipesOK
  <1>4. \A j \in Index : slot'[t][j] = IF j = i THEN m ELSE slot[t][j]
    BY <1>0, <1>3 DEF PipesOK
  <1> HIDE DEF m
  <1>5. ASSUME NEW k \in 1 .. Len(toWorker'[t]) PROVE slot'[t][toWorker'[t][k]].tag = "req"
    <2>1. k \in 1 .. Len(toWorker[t]) /\ toWorker[t][k] \in Index /\ toWorker[t][k] # i
      <3>1. k \in 1 .. Len(toWorker[t])
        BY <1>3
      <3>2. toWorker[t][k] # i
        BY <1>0, <3>1, RingApart
      <3>3. toWorker[t][k] \in Index
        BY <1>0, <3>1 DEF PipesOK
      <3>4. QED
        BY <3>1, <3>2, <3>3
    <2>2. QED
      BY <1>0, <1>3, <1>4, <2>1 DEF Owned
  <1>6. ASSUME NEW k \in 1 .. Len(toMain'[t]) PROVE slot'[t][toMain'[t][k]].tag = "rep"
    <2>1. CASE k = Len(toMain[t]) + 1
      <3>1. toMain'[t][k] = i
        BY <1>0, <1>3, <2>1
      <3>2. QED
        BY <1>2, <1>4, <3>1
    <2>2. CASE k # Len(toMain[t]) + 1
      <3>1. k \in 1 .. Len(toMain[t]) /\ toMain'[t][k] = toMain[t][k] /\ toMain[t][k] \in Index
        BY <1>0, <1>3, <2>2
      <3>2. QED
        BY <1>0, <1>2, <1>4, <3>1 DEF Owned
    <2>3. QED
      BY <2>1, <2>2
  <1>7. QED
    BY <1>3, <1>5, <1>6 DEF Owned

LEMMA OwnedStep == TInv /\ RInv /\ OInv /\ [Next]_vars => OInv'
  <1> SUFFICES ASSUME TInv, RInv, OInv, [Next]_vars PROVE OInv'
    OBVIOUS
  <1>0. PipesOK /\ MainOK
    BY DEF TInv
  <1>1. ASSUME UNCHANGED pipes PROVE OInv'
    BY <1>1 DEF pipes, OInv, Owned
  <1>2. CASE BatchDone
    <2>1. CASE main.slot = NoSlot
      BY <1>1, <1>2, <2>1 DEF BatchDone, pipes
    <2>2. CASE main.slot # NoSlot
      <3>1. PICK t \in Thread : t = main.slot[1]
        BY <1>0, <2>2 DEF MainOK
      <3>2. \A u \in Thread \ {t} : SameRing(u)
        BY <1>0, <1>2, <2>2, <3>1 DEF BatchDone, SameRing, AtMain, PipesOK, Idle
      <3>3. QED
        BY <1>2, <2>2, <3>1, <3>2, OwnedFinished, OwnedOne DEF BatchDone
    <2>3. QED
      BY <2>1, <2>2
  <1>3. CASE HandlerFollow
    <2>1. main.conn \in Conn
      BY <1>0, <1>3 DEF HandlerFollow, MainOK
    <2>2. QED
      BY <1>3, <2>1, OwnedWrite DEF HandlerFollow, Ops
  <1>4. ASSUME NEW c \in Conn, BatchCommand(c) PROVE OInv'
    <2>1. Head(main.batch) \in Token
      BY <1>0, <1>4 DEF BatchCommand, InBatch, MainOK
    <2>2. CASE UNCHANGED pipes
      BY <1>1, <2>2
    <2>3. CASE /\ Head(main.batch).op \in {"log", "cmd"}
               /\ dbin_write(c, Head(main.batch).op, Head(main.batch).n)
      <3>1. Head(main.batch).op \in Ops /\ Head(main.batch).n \in 0 .. MaxToken
        BY <2>1, <2>3 DEF Token, Ops
      <3>2. QED
        BY <2>3, <3>1, OwnedWrite
    <2>4. QED
      BY <1>4, <2>2, <2>3 DEF BatchCommand
  <1>5. ASSUME NEW c \in Conn, DbRestart(c) PROVE OInv'
    BY <1>5 DEF DbRestart, OInv, Owned
  <1>6. ASSUME NEW t \in Thread, OfflineWrite(t) PROVE OInv'
    <2>1. Message(None, "auto", Free, 0) \in Messages /\ Message(None, "auto", Free, 0).tag = "req"
      BY DEF Message, Messages, Ops, Free
    <2>2. CASE RingFull(t)
      BY <1>6, <2>2 DEF OfflineWrite, OInv
    <2>3. CASE ~RingFull(t)
      <3>1. overrun' = overrun
        BY <1>0, <1>6, <2>3 DEF OfflineWrite, PipesOK
      <3>2. QED
        BY <1>0, <1>6, <2>1, <2>3, <3>1, OwnedPut DEF OfflineWrite, OInv
    <2>4. QED
      BY <2>2, <2>3
  <1>7. ASSUME NEW t \in Thread, ReplyDropped(t) PROVE OInv'
    <2>1. \A u \in Thread \ {t} : SameRing(u)
      BY <1>0, <1>7 DEF ReplyDropped, SameRing, AtMain, PipesOK
    <2>2. QED
      BY <1>7, <2>1, OwnedDropped, OwnedOne DEF ReplyDropped
  <1>8. ASSUME NEW t \in Thread, ReplyBegin(t) PROVE OInv'
    <2>1. toMain[t] \in Seq(Index) /\ toMain[t] # <<>>
      BY <1>0, <1>8 DEF ReplyBegin, PipesOK
    <2>2. /\ toMain'[t] = Tail(toMain[t])
          /\ \A u \in Thread \ {t} : toMain'[u] = toMain[u]
          /\ UNCHANGED <<slot, busy, toWorker, overrun>>
      BY <1>0, <1>8 DEF ReplyBegin, PipesOK
    <2>3. \A k \in 1 .. Len(toMain'[t]) :
             k + 1 \in 1 .. Len(toMain[t]) /\ toMain'[t][k] = toMain[t][k + 1]
      BY <2>1, <2>2
    <2>4. ASSUME overrun' = {}, NEW u \in Thread PROVE Owned(u)'
      <3>1. Owned(u) /\ slot' = slot /\ busy' = busy /\ toWorker' = toWorker
        BY <2>2, <2>4 DEF OInv
      <3>2. CASE u # t
        BY <2>2, <3>1, <3>2 DEF Owned
      <3>3. CASE u = t
        <4>1. \A k \in 1 .. Len(toMain'[t]) : slot[t][toMain'[t][k]].tag = "rep"
          BY <2>3, <3>1, <3>3 DEF Owned
        <4>2. QED
          BY <3>1, <3>3, <4>1 DEF Owned
      <3>4. QED
        BY <3>2, <3>3
    <2>5. QED
      BY <2>4 DEF OInv
  <1>9. ASSUME NEW t \in Thread, WorkerTake(t) PROVE OInv'
    <2>1. \A u \in Thread \ {t} : SameRing(u)
      BY <1>0, <1>9 DEF WorkerTake, SameRing, AtMain, PipesOK
    <2>2. QED
      BY <1>9, <2>1, OwnedTaken, OwnedOne DEF WorkerTake
  <1>10. ASSUME NEW t \in Thread, WorkerDone(t) PROVE OInv'
    <2>1. \A u \in Thread \ {t} : SameRing(u)
      BY <1>0, <1>10 DEF WorkerDone, SameRing, AtMain, PipesOK
    <2>2. QED
      BY <1>10, <2>1, OwnedAnswered, OwnedOne DEF WorkerDone
  <1>11. ASSUME NEW c \in Conn, BatchStore(c) PROVE OInv'
    <2>1. CASE overrun' = overrun
      BY <1>1, <1>11, <2>1, StoreKeeps DEF pipes
    <2>2. CASE overrun' # overrun
      BY <1>11, <2>2, StoreKeeps DEF OInv
    <2>3. QED
      BY <2>1, <2>2
  <1>12. CASE BatchDoneRestarted
    <2>1. CASE slot' = slot /\ overrun' = overrun
      BY <1>1, <1>12, <2>1 DEF BatchDoneRestarted, pipes
    <2>2. CASE overrun' = overrun \cup {"slot"}
      BY <2>2 DEF OInv
    <2>3. QED
      BY <1>12, <2>1, <2>2, RestartedDone
  <1>13. QED
    BY <1>1, <1>2, <1>3, <1>4, <1>5, <1>6, <1>7, <1>8, <1>9, <1>10, <1>11, <1>12
    DEF Next, MainStep, HandlerLogin, HandlerDone, BatchUnjam, Accept, Disconnect,
        Recv, Age, vars, pipes

\* Main and worker share the slots without a lock: what is with the worker is
\* a request, what is with main a reply, and what dbio works on is still in
\* its slot, for every ring size and number of workers and connections.
THEOREM SlotsOwned == Spec => []SlotOwner
  <1>1. Init => OInv
    BY DEF Init, OInv, Owned
  <1>2. OInv => SlotOwner
    BY DEF OInv, Owned, SlotOwner
  <1>3. QED
    BY <1>1, <1>2, OwnedStep, TypeInvariant, RingInit, RingStep, PTL DEF Spec
-----------------------------------------------------------------------------
(* Flags, commands and their order: what rests on the ownership of slots.  *)

\* Slot i of worker t is what connection c waits for: while its batch runs,
\* the slot of the reply before it, cleared when the batch is done, is none.
Backs(c, t, i) ==
    /\ slot[t][i] # Empty /\ slot[t][i].conn = c
    /\ main.phase = "batch" /\ main.conn = c => main.slot # <<t, i>>
Backed(c) == Live(c) /\ flag[c] # "off" => \E t \in Thread, i \in Index : Backs(c, t, i)

\* The reply being handled is one of the connection it is handled for.
HandledOK == main.slot # NoSlot => Handled # Empty /\ Handled.conn = main.conn

FInv == overrun = {} /\ count.restart = 0 => HandledOK /\ \A c \in Conn : Backed(c)

\* No slot in use is cleared or given to another connection.
KeepsSlots ==
    \A t \in Thread, i \in Index :
        slot[t][i] # Empty => slot'[t][i] # Empty /\ slot'[t][i].conn = slot[t][i].conn

LEMMA FlagInit == Init => FInv
  <1> SUFFICES ASSUME Init PROVE FInv
    OBVIOUS
  <1>1. \A c \in Conn : ~Live(c)
    BY DEF Init, Live
  <1>2. main.slot = NoSlot
    BY DEF Init, Idle
  <1>3. QED
    BY <1>1, <1>2 DEF FInv, HandledOK, Backed

\* What c waits for stays while no slot in use changes hands, unless a batch
\* of c begins under the slot of a reply.
LEMMA BackKept ==
    ASSUME NEW c \in Conn, Backed(c), KeepsSlots,
           (Live(c) /\ flag[c] # "off")' => Live(c) /\ flag[c] # "off",
           main'.phase = "batch" /\ main'.conn = c =>
               \/ main'.slot = NoSlot
               \/ main.phase = "batch" /\ main.conn = c /\ main'.slot = main.slot
    PROVE  Backed(c)'
  <1> SUFFICES ASSUME (Live(c) /\ flag[c] # "off")' PROVE (\E t \in Thread, i \in Index : Backs(c, t, i))'
    BY DEF Backed
  <1>1. PICK t \in Thread, i \in Index : Backs(c, t, i)
    BY DEF Backed
  <1>2. slot'[t][i] # Empty /\ slot'[t][i].conn = c
    BY <1>1 DEF Backs, KeepsSlots
  <1>3. main'.phase = "batch" /\ main'.conn = c => main'.slot # <<t, i>>
    BY <1>1, PairSome DEF Backs
  <1>4. QED
    BY <1>2, <1>3 DEF Backs

\* The handler's slot stays that of its connection.
LEMMA HandledKept ==
    ASSUME TInv, HandledOK, KeepsSlots,
           main'.slot = NoSlot \/ (main'.slot = main.slot /\ main'.conn = main.conn)
    PROVE  HandledOK'
  <1> SUFFICES ASSUME main'.slot # NoSlot PROVE (Handled # Empty /\ Handled.conn = main.conn)'
    BY DEF HandledOK
  <1>1. main.slot \in Thread \X Index /\ main'.slot = main.slot /\ main'.conn = main.conn
    BY DEF TInv, MainOK
  <1>2. main.slot[1] \in Thread /\ main.slot[2] \in Index
    BY <1>1
  <1>3. QED
    BY <1>1, <1>2 DEF HandledOK, Handled, KeepsSlots

\* A request is written to a slot that is not in use, and is what its
\* connection then waits for.
LEMMA PutKeeps ==
    ASSUME PipesOK, NEW t \in Thread, NEW m \in Messages, ~RingFull(t), Put(t, m)
    PROVE  /\ KeepsSlots
           /\ next[t] \in Index /\ slot[t][next[t]] = Empty /\ slot'[t][next[t]] = m
  <1>1. next[t] \in Index /\ slot[t][next[t]] = Empty
    BY DEF PipesOK, RingFull
  <1>2. \A u \in Thread, i \in Index :
           slot'[u][i] = IF u = t /\ i = next[t] THEN m ELSE slot[u][i]
    BY <1>1 DEF PipesOK, Put
  <1>3. QED
    BY <1>1, <1>2 DEF KeepsSlots

LEMMA FlagWrite ==
    ASSUME TInv, HandledOK, \A d \in Conn : Backed(d), NEW c \in Conn, NEW o \in Ops,
           NEW n \in 0 .. MaxToken, dbin_write(c, o, n), session' = session,
           main'.slot = main.slot, main'.conn = main.conn, main'.phase = main.phase
    PROVE  HandledOK' /\ \A d \in Conn : Backed(d)'
  <1>1. PICK t \in DbIndex(c) :
            IF RingFull(t)
            THEN UNCHANGED <<pipes, flag>>
            ELSE /\ Put(t, Message(c, o, session[c], n))
                 /\ flag' = [flag EXCEPT ![c] = "on"]
                 /\ UNCHANGED overrun
    BY DEF dbin_write
  <1>2. t \in Thread
    BY DEF DbIndex, TInv, ConnsOK
  <1>3. CASE RingFull(t)
    <2>1. KeepsSlots /\ flag' = flag
      BY <1>1, <1>3 DEF pipes, KeepsSlots
    <2>2. QED
      BY <2>1, BackKept, HandledKept DEF Live
  <1>4. CASE ~RingFull(t)
    <2> DEFINE m == Message(c, o, session[c], n)
    <2>1. m \in Messages /\ m.conn = c /\ m # Empty
      <3>1. m \in Messages /\ m.conn = c
        BY DEF Message, Messages, TInv, ConnsOK
      <3>2. QED
        BY <3>1, EmptyNoMessage
    <2>2. Put(t, m) /\ flag' = [flag EXCEPT ![c] = "on"]
      BY <1>1, <1>4
    <2> HIDE DEF m
    <2>3. /\ KeepsSlots
          /\ next[t] \in Index /\ slot[t][next[t]] = Empty /\ slot'[t][next[t]] = m
      BY <1>2, <1>4, <2>1, <2>2, PutKeeps DEF TInv
    <2>4. HandledOK'
      BY <2>3, HandledKept
    <2>5. main.slot # <<t, next[t]>>
      BY <2>3, PairSome DEF HandledOK, Handled
    <2>6. Backed(c)'
      BY <1>2, <2>1, <2>3, <2>5 DEF Backed, Backs
    <2>7. ASSUME NEW d \in Conn, d # c PROVE Backed(d)'
      <3>1. flag'[d] = flag[d]
        BY <2>2, <2>7 DEF TInv, ConnsOK
      <3>2. QED
        BY <2>3, <3>1, BackKept DEF Live
    <2>8. QED
      BY <2>4, <2>6, <2>7
  <1>5. QED
    BY <1>3, <1>4

\* Slot i of worker t is cleared and nothing waits for it.
LEMMA ClearKeeps ==
    ASSUME TInv, \A d \in Conn : Backed(d), NEW t \in Thread, NEW i \in Index,
           slot' = [slot EXCEPT ![t][i] = Empty], session' = session, flag' = flag,
           main'.phase # "batch", \A d \in Conn : Live(d) => ~Backs(d, t, i)
    PROVE  \A d \in Conn : Backed(d)'
  <1>1. \A u \in Thread, j \in Index : <<u, j>> # <<t, i>> => slot'[u][j] = slot[u][j]
    BY DEF TInv, PipesOK
  <1>2. ASSUME NEW d \in Conn, (Live(d) /\ flag[d] # "off")'
        PROVE  (\E u \in Thread, j \in Index : Backs(d, u, j))'
    <2>1. Live(d) /\ flag[d] # "off"
      BY <1>2 DEF Live
    <2>2. PICK u \in Thread, j \in Index : Backs(d, u, j)
      BY <2>1 DEF Backed
    <2>3. <<u, j>> # <<t, i>>
      BY <2>1, <2>2
    <2>4. QED
      BY <1>1, <2>2, <2>3 DEF Backs
  <1>3. QED
    BY <1>2 DEF Backed

LEMMA FlagStep == TInv /\ OInv /\ FInv /\ [Next]_vars => FInv'
  <1> SUFFICES ASSUME TInv, OInv, FInv, [Next]_vars, overrun' = {}, count'.restart = 0
               PROVE  HandledOK' /\ \A c \in Conn : Backed(c)'
    BY DEF FInv
  <1>0. PipesOK /\ MainOK /\ ConnsOK /\ CountOK
    BY DEF TInv
  <1> DEFINE Before == overrun = {} /\ HandledOK /\ \A c \in Conn : Backed(c)
             Goal == HandledOK' /\ \A c \in Conn : Backed(c)'
  <1>a. ASSUME UNCHANGED <<slot, overrun, count>> PROVE Before /\ KeepsSlots
    BY <1>a DEF FInv, KeepsSlots
  <1>1. CASE BatchDone
    <2>1. Before
      BY <1>1 DEF BatchDone, FInv
    <2>2. HandledOK' /\ main'.phase # "batch" /\ main'.slot = NoSlot
      BY <1>1 DEF BatchDone, Idle, HandledOK
    <2>3. CASE main.slot = NoSlot
      <3>1. slot' = slot /\ session' = session /\ flag' = flag
        BY <1>1, <2>3 DEF BatchDone, conns
      <3>2. KeepsSlots
        BY <3>1 DEF KeepsSlots
      <3>3. QED
        BY <2>1, <2>2, <3>1, <3>2, BackKept DEF Live
    <2>4. CASE main.slot # NoSlot
      <3>1. PICK t \in Thread, i \in Index : main.slot = <<t, i>>
        BY <1>0, <2>4 DEF MainOK
      <3>2. slot' = [slot EXCEPT ![t][i] = Empty]
        BY <1>1, <2>4, <3>1 DEF BatchDone
      <3>3. \A d \in Conn : ~Backs(d, t, i)
        BY <1>1, <2>1, <2>4, <3>1 DEF BatchDone, Backs, HandledOK, Handled
      <3>4. session' = session /\ flag' = flag
        BY <1>1 DEF BatchDone, conns
      <3>5. QED
        BY <2>1, <2>2, <3>2, <3>3, <3>4, ClearKeeps
    <2>5. QED
      BY <2>3, <2>4
  <1>2. CASE HandlerLogin
    <2>1. Before /\ KeepsSlots /\ slot' = slot /\ flag' = flag
      BY <1>2, <1>a DEF HandlerLogin, pipes, NewSession, FInv, KeepsSlots
    <2>2. main.conn \in Conn /\ main'.slot = main.slot /\ main'.conn = main.conn
          /\ main'.phase # "batch" /\ main.slot # NoSlot
      BY <1>0, <1>2 DEF HandlerLogin, MainOK
    <2>3. PICK t \in Thread, i \in Index : main.slot = <<t, i>>
      BY <1>0, <2>2 DEF MainOK
    <2>4. Backs(main.conn, t, i)'
      BY <2>1, <2>2, <2>3 DEF Backs, HandledOK, Handled
    <2>5. ASSUME NEW c \in Conn, c # main.conn PROVE Backed(c)'
      <3>1. session'[c] = session[c]
        BY <1>0, <1>2, <2>5 DEF HandlerLogin, NewSession, ConnsOK
      <3>2. QED
        BY <2>1, <2>2, <3>1, BackKept DEF Live
    <2>6. Backed(main.conn)'
      BY <2>2, <2>4 DEF Backed
    <2>7. QED
      BY <2>1, <2>2, <2>5, <2>6, HandledKept
  <1>3. CASE HandlerFollow
    <2>1. main.conn \in Conn /\ main'.slot = main.slot /\ main'.conn = main.conn
          /\ main'.phase = main.phase /\ session' = session /\ count' = count
          /\ dbin_write(main.conn, "load", 0)
      BY <1>0, <1>3 DEF HandlerFollow, MainOK
    <2>2. overrun' = overrun
      BY <2>1 DEF dbin_write, pipes
    <2>3. Before
      BY <2>1, <2>2 DEF FInv
    <2>4. QED
      BY <2>1, <2>3, FlagWrite DEF Ops
  <1>4. CASE HandlerDone
    <2>1. Before /\ KeepsSlots
      BY <1>4, <1>a DEF HandlerDone, pipes
    <2>2. main'.slot = main.slot /\ main'.conn = main.conn /\ main.conn \in Conn
      BY <1>0, <1>4 DEF HandlerDone, MainOK
    <2>3. flag' = [flag EXCEPT ![main.conn] = "off"] /\ session' = session
      BY <1>4 DEF HandlerDone
    <2>4. ASSUME NEW c \in Conn, c # main.conn PROVE Backed(c)'
      BY <1>0, <2>1, <2>2, <2>3, <2>4, BackKept DEF Live, ConnsOK
    <2>5. Backed(main.conn)'
      BY <1>0, <2>2, <2>3 DEF Backed, ConnsOK
    <2>6. QED
      BY <2>1, <2>2, <2>4, <2>5, HandledKept
  <1>b. ASSUME NEW c \in Conn, Before, KeepsSlots, main'.slot = main.slot, main'.conn = main.conn,
               main'.phase = main.phase, flag'[c] = "off",
               \A d \in Conn \ {c} : flag'[d] = flag[d] /\ session'[d] = session[d]
        PROVE  Goal
    <2>1. Backed(c)'
      BY <1>b DEF Backed
    <2>2. ASSUME NEW d \in Conn \ {c} PROVE Backed(d)'
      BY <1>b, BackKept DEF Live
    <2>3. QED
      BY <1>b, <2>1, <2>2, HandledKept
  <1>5. ASSUME NEW c \in Conn, BatchUnjam(c) PROVE Goal
    <2>1. Before /\ KeepsSlots
      BY <1>5, <1>a DEF BatchUnjam, pipes
    <2>2. QED
      BY <1>0, <1>5, <1>b, <2>1 DEF BatchUnjam, ConnsOK
  <1>6. ASSUME NEW c \in Conn, BatchStore(c) PROVE Goal
    <2>1. Before /\ KeepsSlots
      BY <1>6, <1>a, StoreKeeps DEF BatchStore
    <2>2. main'.slot = main.slot /\ main'.conn = main.conn /\ main'.phase = main.phase
      BY <1>0, <1>6 DEF BatchStore, MainOK
    <2>3. session' = session /\ flag' = flag
      BY <1>6 DEF BatchStore
    <2>4. QED
      BY <2>1, <2>2, <2>3, BackKept, HandledKept DEF Live
  <1>7. ASSUME NEW c \in Conn, BatchCommand(c) PROVE Goal
    <2>1. Head(main.batch) \in Token /\ main.conn = c /\ count' = count
      BY <1>0, <1>7 DEF BatchCommand, InBatch, MainOK
    <2>2. main'.slot = main.slot /\ main'.conn = main.conn /\ main'.phase = main.phase
      BY <1>0, <1>7 DEF BatchCommand, InBatch, MainOK
    <2>3. CASE UNCHANGED <<conns, pipes>>
      <3>1. Before /\ KeepsSlots
        BY <2>1, <2>3, <1>a DEF pipes
      <3>2. QED
        BY <2>2, <2>3, <3>1, BackKept, HandledKept DEF Live, conns
    <2>4. CASE FreeConn(c) /\ UNCHANGED pipes
      <3>1. Before /\ KeepsSlots
        BY <2>1, <2>4, <1>a DEF pipes
      <3>2. QED
        BY <1>0, <1>b, <2>2, <2>4, <3>1 DEF FreeConn, ConnsOK
    <2>5. CASE /\ Head(main.batch).op \in {"log", "cmd"}
               /\ dbin_write(c, Head(main.batch).op, Head(main.batch).n)
               /\ session' = session
      <3>1. Head(main.batch).op \in Ops /\ Head(main.batch).n \in 0 .. MaxToken
        BY <2>1, <2>5 DEF Token, Ops
      <3>2. overrun' = overrun
        BY <2>5 DEF dbin_write, pipes
      <3>3. Before
        BY <2>1, <3>2 DEF FInv
      <3>4. QED
        BY <2>2, <2>5, <3>1, <3>3, FlagWrite
    <2>6. QED
      BY <1>7, <2>3, <2>4, <2>5 DEF BatchCommand
  <1>8. ASSUME NEW c \in Conn, DbRestart(c) PROVE Goal
    BY <1>0, <1>8 DEF DbRestart, CountOK
  <1>c. ASSUME UNCHANGED <<slot, overrun>>, IsIdle, count'.restart = count.restart
        PROVE  Before /\ KeepsSlots /\ main = Idle /\ main.slot = NoSlot /\ main.phase # "batch"
    BY <1>0, <1>c DEF FInv, KeepsSlots, IsIdle, MainOK, Idle
  <1>9. ASSUME NEW c \in Conn, Accept(c) PROVE Goal
    <2>1. count'.restart = count.restart
      BY <1>0, <1>9 DEF Accept, NewSession, CountOK
    <2>2. Before /\ KeepsSlots /\ main' = main
      BY <1>9, <1>c, <2>1 DEF Accept, pipes
    <2>3. QED
      BY <1>0, <1>9, <1>b, <2>2 DEF Accept, NewSession, ConnsOK
  <1>10. ASSUME NEW c \in Conn, Disconnect(c) PROVE Goal
    <2>1. Before /\ KeepsSlots /\ main' = main
      BY <1>10, <1>c DEF Disconnect, pipes
    <2>2. QED
      BY <1>0, <1>10, <1>b, <2>1 DEF Disconnect, FreeConn, ConnsOK
  <1>11. ASSUME NEW c \in Conn, Recv(c) PROVE Goal
    <2>1. count'.restart = count.restart
      BY <1>0, <1>11 DEF Recv, CountOK
    <2>2. Before /\ KeepsSlots /\ main'.slot = NoSlot /\ session' = session /\ flag' = flag
      BY <1>11, <1>c, <2>1 DEF Recv, pipes, conns, Idle
    <2>3. HandledOK'
      BY <2>2 DEF HandledOK
    <2>4. QED
      BY <2>2, <2>3, BackKept DEF Live
  <1>12. ASSUME NEW c \in Conn, Age(c) PROVE Goal
    <2>1. Before /\ KeepsSlots /\ main' = main /\ session' = session
      BY <1>12, <1>a DEF Age, pipes
    <2>2. \A d \in Conn : flag'[d] # "off" => flag[d] # "off"
      BY <1>0, <1>12 DEF Age, ConnsOK
    <2>3. QED
      BY <2>1, <2>2, BackKept, HandledKept DEF Live
  <1>13. ASSUME NEW t \in Thread, OfflineWrite(t) PROVE Goal
    <2>1. Message(None, "auto", Free, 0) \in Messages
      BY DEF Message, Messages, Ops, Free
    <2>2. overrun = {} /\ ~RingFull(t) /\ count'.restart = count.restart
      BY <1>0, <1>13 DEF OfflineWrite, PipesOK, CountOK
    <2>3. Before /\ KeepsSlots /\ main' = main /\ session' = session /\ flag' = flag
      BY <1>0, <1>13, <2>1, <2>2, PutKeeps DEF OfflineWrite, FInv, conns
    <2>4. QED
      BY <2>3, BackKept, HandledKept DEF Live
  <1>14. ASSUME NEW t \in Thread, ReplyDropped(t) PROVE Goal
    <2> DEFINE i == Head(toMain[t])
    <2>1. i \in Index /\ main = Idle /\ main' = main
      BY <1>0, <1>14 DEF ReplyDropped, PipesOK, MainOK, IsIdle
    <2>2. Before /\ session' = session /\ flag' = flag
      BY <1>14 DEF ReplyDropped, FInv, conns
    <2>3. \A d \in Conn : Live(d) => ~Backs(d, t, i)
      BY <1>14, ConnAssumption DEF ReplyDropped, Backs
    <2>4. slot' = [slot EXCEPT ![t][i] = Empty]
      BY <1>14 DEF ReplyDropped
    <2>5. main'.phase # "batch" /\ HandledOK'
      BY <2>1 DEF Idle, HandledOK
    <2>6. QED
      BY <2>1, <2>2, <2>3, <2>4, <2>5, ClearKeeps
  <1>15. ASSUME NEW t \in Thread, ReplyBegin(t) PROVE Goal
    <2> DEFINE i == Head(toMain[t])
    <2>1. i \in Index /\ slot[t][i] # Empty
      BY <1>0, <1>15 DEF ReplyBegin, PipesOK
    <2>2. Before /\ KeepsSlots /\ slot' = slot /\ session' = session /\ flag' = flag
      BY <1>15, <1>a DEF ReplyBegin, conns
    <2>3. main'.slot = <<t, i>> /\ main'.conn = slot[t][i].conn /\ main'.phase = "handler"
      BY <1>15 DEF ReplyBegin, Idle
    <2>4. HandledOK'
      BY <2>1, <2>2, <2>3 DEF HandledOK, Handled
    <2>5. QED
      BY <2>2, <2>3, <2>4, BackKept DEF Live
  <1>16. ASSUME NEW t \in Thread, WorkerTake(t) PROVE Goal
    <2>1. Before /\ KeepsSlots /\ main' = main /\ session' = session /\ flag' = flag
      BY <1>16, <1>a DEF WorkerTake, conns
    <2>2. QED
      BY <2>1, BackKept, HandledKept DEF Live
  <1>17. ASSUME NEW t \in Thread, WorkerDone(t) PROVE Goal
    <2> DEFINE i == busy[t][1]
               m == [busy[t][2] EXCEPT !.tag = "rep"]
    <2>1. Before /\ main' = main /\ session' = session /\ flag' = flag
      BY <1>17 DEF WorkerDone, conns, FInv
    <2>2. busy[t] \in Index \X Messages /\ slot[t][i] = busy[t][2]
      BY <1>0, <1>17, <2>1 DEF WorkerDone, PipesOK, OInv, Owned
    <2>3. i \in Index /\ m \in Messages /\ m.conn = slot[t][i].conn
      BY <2>2 DEF Messages
    <2>4. m # Empty
      BY <2>3, EmptyNoMessage
    <2>5. slot' = [slot EXCEPT ![t][i] = m]
      BY <1>17 DEF WorkerDone
    <2> HIDE DEF m
    <2>6. KeepsSlots
      BY <1>0, <2>3, <2>4, <2>5 DEF KeepsSlots, PipesOK
    <2>7. QED
      BY <2>1, <2>6, BackKept, HandledKept DEF Live
  <1>18. CASE UNCHANGED vars
    <2>1. Before /\ KeepsSlots /\ main' = main /\ session' = session /\ flag' = flag
      BY <1>18, <1>a DEF vars, conns, pipes
    <2>2. QED
      BY <2>1, BackKept, HandledKept DEF Live
  <1>19. CASE BatchDoneRestarted
    <2>1. main' = Idle /\ slot' = slot /\ overrun' = overrun
      BY <1>19, RestartedDone
    <2>2. main'.slot = NoSlot /\ main'.phase # "batch"
      BY <2>1 DEF Idle
    <2>3. Before /\ KeepsSlots /\ session' = session /\ flag' = flag
      BY <1>19, <1>a, <2>1 DEF BatchDoneRestarted, conns
    <2>4. QED
      BY <2>2, <2>3, BackKept, HandledKept DEF Live
  <1>20. QED
    BY <1>1, <1>2, <1>3, <1>4, <1>5, <1>6, <1>7, <1>8, <1>9, <1>10, <1>11, <1>12, <1>13,
       <1>14, <1>15, <1>16, <1>17, <1>18, <1>19 DEF Next, MainStep

\* While db_flag is set, a request of the connection is in some ring: nobody
\* waits for an answer that cannot come, until a slot in use is written over, a
\* read_buffer runs over or the workers are restarted.
THEOREM FlagsBacked == Spec => []FlagBacked
  <1>1. FInv => FlagBacked
    BY DEF FInv, FlagBacked, Backed, Backs
  <1>2. Init => OInv
    BY DEF Init, OInv, Owned
  <1>3. QED
    BY <1>1, <1>2, FlagInit, FlagStep, OwnedStep, TypeInvariant, RingInit, RingStep, PTL DEF Spec
----------------------------------------------------------------------------
(* A command is at one place.                                              *)

\* Slot p, or what its worker has read from it, is command n.
AtSlot(p, n) ==
    \/ Holds(slot[p[1]][p[2]], n)
    \/ busy[p[1]] # NoSlot /\ busy[p[1]][1] = p[2] /\ Holds(busy[p[1]][2], n)
SlotsOf(n) == {p \in Thread \X Index : AtSlot(p, n)}

\* Command n is at one place at most, and a number not yet given at none.
OneSlot(n) == \A p, q \in SlotsOf(n) : p = q
OneStored(n) == \A p, q \in InStored(n) : p = q
OneBatch(n) == \A k, l \in InBatchOf(n) : k = l
Apart(n) ==
    /\ SlotsOf(n) # {} => InStored(n) = {} /\ InBatchOf(n) = {}
    /\ InStored(n) # {} => InBatchOf(n) = {}
Nowhere(n) == SlotsOf(n) = {} /\ InStored(n) = {} /\ InBatchOf(n) = {}
OneInv ==
    \A n \in Nat \ {0} :
        /\ OneSlot(n) /\ OneStored(n) /\ OneBatch(n) /\ Apart(n)
        /\ n > count.token => Nowhere(n)

\* The places of n are some of those it had.
Fewer(n) ==
    /\ SlotsOf(n)' \subseteq SlotsOf(n)
    /\ InStored(n)' \subseteq InStored(n)
    /\ InBatchOf(n)' \subseteq InBatchOf(n)

LEMMA FewerPlaces ==
    ASSUME OneInv, \A n \in Nat \ {0} : Fewer(n), count'.token = count.token
    PROVE  OneInv'
  <1> SUFFICES ASSUME NEW n \in Nat \ {0}
               PROVE  /\ OneSlot(n)' /\ OneStored(n)' /\ OneBatch(n)' /\ Apart(n)'
                      /\ n > count'.token => Nowhere(n)'
    BY DEF OneInv
  <1>1. Fewer(n)
    OBVIOUS
  <1>2. OneSlot(n) /\ OneStored(n) /\ OneBatch(n) /\ Apart(n) /\ (n > count.token => Nowhere(n))
    BY DEF OneInv
  <1> DEFINE A == SlotsOf(n)  B == InStored(n)  C == InBatchOf(n)
  <1>3. A' \subseteq A /\ B' \subseteq B /\ C' \subseteq C
    BY <1>1 DEF Fewer
  <1>4. /\ \A p, q \in A : p = q
        /\ \A p, q \in B : p = q
        /\ \A k, l \in C : k = l
        /\ A # {} => B = {} /\ C = {}
        /\ B # {} => C = {}
    BY <1>2 DEF OneSlot, OneStored, OneBatch, Apart
  <1>5. n > count.token => A = {} /\ B = {} /\ C = {}
    BY <1>2 DEF Nowhere
  <1> HIDE DEF A, B, C
  <1>6. /\ \A p, q \in A' : p = q
        /\ \A p, q \in B' : p = q
        /\ \A k, l \in C' : k = l
        /\ A' # {} => B' = {} /\ C' = {}
        /\ B' # {} => C' = {}
    BY <1>3, <1>4
  <1>7. n > count'.token => A' = {} /\ B' = {} /\ C' = {}
    BY <1>3, <1>5
  <1>8. QED
    BY <1>6, <1>7 DEF A, B, C, OneSlot, OneStored, OneBatch, Apart, Nowhere

\* The places of n in the read_buffers.
StoredIn(s, n) == UNION {{c} \X {k \in 1 .. Len(s[c]) : s[c][k].n = n} : c \in Conn}

LEMMA StoredWhere ==
    ASSUME NEW s, NEW n, NEW p
    PROVE  p \in StoredIn(s, n) <=> /\ p = <<p[1], p[2]>> /\ p[1] \in Conn
                                   /\ p[2] \in 1 .. Len(s[p[1]]) /\ s[p[1]][p[2]].n = n
  BY DEF StoredIn

LEMMA InStoredWhere == ASSUME NEW n PROVE InStored(n) = StoredIn(stored, n)
  BY DEF InStored, StoredIn

LEMMA InStoredNext == ASSUME NEW n PROVE InStored(n)' = StoredIn(stored', n)
  BY DEF InStored, StoredIn

LEMMA SameStored == ASSUME NEW n, UNCHANGED stored PROVE InStored(n)' = InStored(n)
  BY DEF InStored

LEMMA SameBatch == ASSUME NEW n, main'.batch = main.batch PROVE InBatchOf(n)' = InBatchOf(n)
  BY DEF InBatchOf

LEMMA SameSlots == ASSUME NEW n, UNCHANGED <<slot, busy>> PROVE SlotsOf(n)' = SlotsOf(n)
  BY DEF SlotsOf, AtSlot

\* The connection of the batch has nothing stored.
LEMMA FreedStored ==
    ASSUME ConnsOK, NEW n, NEW c \in Conn, stored' = [stored EXCEPT ![c] = <<>>]
    PROVE  InStored(n)' \subseteq InStored(n) /\ \A p \in InStored(n)' : p[1] # c
  <1>1. \A d \in Conn : stored'[d] = IF d = c THEN <<>> ELSE stored[d]
    BY DEF ConnsOK
  <1>2. ASSUME NEW p \in InStored(n)' PROVE p \in InStored(n) /\ p[1] # c
    <2>1. /\ p = <<p[1], p[2]>> /\ p[1] \in Conn
          /\ p[2] \in 1 .. Len(stored'[p[1]]) /\ stored'[p[1]][p[2]].n = n
      <3>1. PICK s : s = stored'
        OBVIOUS
      <3>2. p \in StoredIn(s, n)
        BY <3>1, InStoredNext
      <3>3. /\ p = <<p[1], p[2]>> /\ p[1] \in Conn
            /\ p[2] \in 1 .. Len(s[p[1]]) /\ s[p[1]][p[2]].n = n
        BY <3>2, StoredWhere
      <3>4. QED
        BY <3>1, <3>3
    <2>2. p[1] # c
      <3>1. 1 .. Len(<<>>) = {}
        OBVIOUS
      <3>2. QED
        BY <1>1, <2>1, <3>1
    <2>3. QED
      BY <1>1, <2>1, <2>2, InStoredWhere, StoredWhere
  <1>3. QED
    BY <1>2

\* Slots are cleared, or their replies written.
LEMMA ClearedSlot ==
    ASSUME PipesOK, NEW n, NEW t \in Thread, NEW i \in Index,
           slot' = [slot EXCEPT ![t][i] = Empty], UNCHANGED busy
    PROVE  SlotsOf(n)' \subseteq SlotsOf(n)
  <1>1. \A p \in Thread \X Index :
            slot'[p[1]][p[2]] = IF p[1] = t /\ p[2] = i THEN Empty ELSE slot[p[1]][p[2]]
    BY DEF PipesOK
  <1>2. ~Holds(Empty, n)
    BY DEF Holds
  <1>3. QED
    BY <1>1, <1>2 DEF SlotsOf, AtSlot

\* A message is put into a slot: it may be a command that was nowhere else.
LEMMA PutSlot ==
    ASSUME PipesOK, NEW n, NEW t \in Thread, NEW m, Put(t, m)
    PROVE  /\ SlotsOf(n)' \subseteq SlotsOf(n) \cup {<<t, next[t]>>}
           /\ ~Holds(m, n) => SlotsOf(n)' \subseteq SlotsOf(n)
  <1>1. next[t] \in Index /\ busy' = busy
    BY DEF PipesOK, Put
  <1>2. \A p \in Thread \X Index :
            slot'[p[1]][p[2]] = IF p[1] = t /\ p[2] = next[t] THEN m ELSE slot[p[1]][p[2]]
    BY <1>1 DEF PipesOK, Put
  <1>3. \A p \in Thread \X Index : p[1] = t /\ p[2] = next[t] => p = <<t, next[t]>>
    OBVIOUS
  <1>4. ASSUME NEW p \in SlotsOf(n)' PROVE p \in SlotsOf(n) \/ (p = <<t, next[t]>> /\ Holds(m, n))
    <2>1. /\ p \in Thread \X Index
          /\ \/ Holds(slot'[p[1]][p[2]], n)
             \/ busy[p[1]] # NoSlot /\ busy[p[1]][1] = p[2] /\ Holds(busy[p[1]][2], n)
      BY <1>1 DEF SlotsOf, AtSlot
    <2>2. QED
      BY <1>2, <1>3, <2>1 DEF SlotsOf, AtSlot
  <1>5. QED
    BY <1>4

\* A packet: its commands have numbers not given before.
LEMMA OneRecv ==
    ASSUME TInv, OneInv, NEW c \in Conn, Recv(c)
    PROVE  OneInv'
  <1>1. PICK ops \in Packets : /\ main'.batch = Numbered(ops)
                               /\ count'.token = count.token + Len(ops)
    BY DEF Recv, Idle, TInv, CountOK
  <1>2. Len(ops) \in Nat /\ count.token \in Nat
    BY DEF TInv, CountOK, Packets
  <1>3. UNCHANGED <<slot, busy, stored>>
    BY DEF Recv, conns, pipes
  <1>4. /\ Len(Numbered(ops)) = Len(ops)
        /\ \A k \in 1 .. Len(ops) : Numbered(ops)[k].n = count.token + k
    BY <1>2 DEF Numbered
  <1> SUFFICES ASSUME NEW n \in Nat \ {0}
               PROVE  /\ OneSlot(n)' /\ OneStored(n)' /\ OneBatch(n)' /\ Apart(n)'
                      /\ n > count'.token => Nowhere(n)'
    BY DEF OneInv
  <1> DEFINE A == SlotsOf(n)  B == InStored(n)  C == InBatchOf(n)
  <1>5. A' = A /\ B' = B
    BY <1>3, SameSlots, SameStored
  <1>6. /\ \A p, q \in A : p = q
        /\ \A p, q \in B : p = q
        /\ A # {} => B = {} /\ C = {}
        /\ n > count.token => A = {} /\ B = {} /\ C = {}
    BY DEF OneInv, OneSlot, OneStored, Apart, Nowhere
  <1>7. C' = {k \in 1 .. Len(ops) : count.token + k = n}
    BY <1>1, <1>4 DEF InBatchOf
  <1> HIDE DEF A, B, C
  <1>8. \A k, l \in C' : k = l
    BY <1>2, <1>7
  <1>9. C' # {} => n > count.token /\ ~(n > count'.token)
    BY <1>1, <1>2, <1>7
  <1>10. n > count'.token => n > count.token
    BY <1>1, <1>2
  <1>11. /\ A' # {} => B' = {} /\ C' = {}
         /\ B' # {} => C' = {}
         /\ n > count'.token => A' = {} /\ B' = {} /\ C' = {}
    BY <1>5, <1>6, <1>9, <1>10
  <1>12. QED
    BY <1>5, <1>6, <1>8, <1>11 DEF A, B, C, OneSlot, OneStored, OneBatch, Apart, Nowhere

\* What is left of the batch is stored behind what is.
LEMMA OneStore ==
    ASSUME TInv, OneInv, NEW c \in Conn, BatchStore(c)
    PROVE  OneInv'
  <1>0. /\ main.batch \in Seq(Token) /\ stored \in [Conn -> Seq(Token)]
        /\ count' = count /\ UNCHANGED <<slot, busy>>
    BY DEF TInv, MainOK, ConnsOK, BatchStore
  <1>1. PICK u \in Seq(Token) : u = stored[c]
    BY <1>0
  <1>2. PICK b \in Seq(Token) : b = main.batch
    BY <1>0
  <1>3. PICK v \in Seq(Token) : v = Fitting(b)
    BY FittingPart
  <1>4. Len(v) <= Len(b) /\ \A k \in 1 .. Len(v) : v[k] = b[k]
    BY <1>3, FittingPart
  <1>5. PICK z : z = u \o v
    OBVIOUS
  <1>6. /\ z \in Seq(Token) /\ Len(z) = Len(u) + Len(v)
        /\ Len(u) \in Nat /\ Len(v) \in Nat /\ Len(b) \in Nat
        /\ \A k \in 1 .. Len(z) : z[k] = IF k <= Len(u) THEN u[k] ELSE v[k - Len(u)]
    BY <1>5
  <1>8. stored' = [stored EXCEPT ![c] = z] /\ main'.batch = <<>>
    BY <1>1, <1>2, <1>3, <1>5 DEF BatchStore, TInv, MainOK
  <1>9. \A d \in Conn : stored'[d] = IF d = c THEN z ELSE stored[d]
    BY <1>0, <1>8
  <1> SUFFICES ASSUME NEW n \in Nat \ {0}
               PROVE  /\ OneSlot(n)' /\ OneStored(n)' /\ OneBatch(n)' /\ Apart(n)'
                      /\ n > count'.token => Nowhere(n)'
    BY DEF OneInv
  <1> DEFINE A == SlotsOf(n)  B == InStored(n)  C == InBatchOf(n)
  <1>10. A' = A
    BY <1>0, SameSlots
  <1>11. C' = {}
    BY <1>8 DEF InBatchOf
  <1>12. /\ \A p, q \in A : p = q
         /\ \A p, q \in B : p = q
         /\ \A k, l \in C : k = l
         /\ A # {} => B = {} /\ C = {}
         /\ B # {} => C = {}
         /\ n > count.token => A = {} /\ B = {} /\ C = {}
    BY DEF OneInv, OneSlot, OneStored, OneBatch, Apart, Nowhere
  <1>13. ASSUME NEW p \in B'
         PROVE  /\ p = <<p[1], p[2]>> /\ p[2] \in Nat
                /\ \/ p \in B /\ (p[1] = c => p[2] <= Len(u))
                   \/ p[1] = c /\ p[2] > Len(u) /\ p[2] - Len(u) \in C
    <2>1. /\ p = <<p[1], p[2]>> /\ p[1] \in Conn
          /\ p[2] \in 1 .. Len(stored'[p[1]]) /\ stored'[p[1]][p[2]].n = n
      BY InStoredNext, StoredWhere
    <2>2. p[2] \in Nat
      <3>1. Len(stored'[p[1]]) \in Nat
        BY <1>0, <1>6, <1>9, <2>1
      <3>2. QED
        BY <2>1, <3>1
    <2>3. CASE p[1] # c
      BY <1>9, <2>1, <2>2, <2>3, InStoredWhere, StoredWhere
    <2>4. CASE p[1] = c
      <3>1. PICK k \in 1 .. Len(z) : k = p[2] /\ z[k].n = n
        BY <1>9, <2>1, <2>4
      <3>2. CASE k <= Len(u)
        <4>1. k \in 1 .. Len(u) /\ u[k].n = n
          BY <1>6, <3>1, <3>2
        <4>2. p \in B
          BY <1>1, <2>1, <2>4, <3>1, <4>1, InStoredWhere, StoredWhere
        <4>3. QED
          BY <2>1, <2>2, <3>1, <3>2, <4>2
      <3>3. CASE ~(k <= Len(u))
        <4>1. v[k - Len(u)].n = n /\ k - Len(u) \in 1 .. Len(v)
          BY <1>6, <3>1, <3>3
        <4>2. b[k - Len(u)].n = n /\ k - Len(u) \in 1 .. Len(b)
          BY <1>4, <1>6, <4>1
        <4>3. k - Len(u) \in C
          BY <1>2, <4>2 DEF InBatchOf
        <4>4. QED
          BY <1>6, <2>1, <2>2, <2>4, <3>1, <3>3, <4>3
      <3>4. QED
        BY <3>2, <3>3
    <2>5. QED
      BY <2>3, <2>4
  <1> HIDE DEF A, B, C
  <1>14. ASSUME NEW p \in B', NEW q \in B' PROVE p = q
    <2>1. CASE p \in B /\ q \in B
      BY <1>12, <2>1
    <2>2. CASE ~(p \in B /\ q \in B)
      <3>1. p \notin B /\ q \notin B
        BY <1>12, <1>13, <2>2
      <3>2. /\ p[1] = c /\ p[2] - Len(u) \in C /\ p = <<p[1], p[2]>> /\ p[2] \in Nat
            /\ q[1] = c /\ q[2] - Len(u) \in C /\ q = <<q[1], q[2]>> /\ q[2] \in Nat
        BY <1>13, <3>1
      <3>3. p[2] - Len(u) = q[2] - Len(u)
        BY <1>12, <3>2
      <3>4. p[2] = q[2]
        BY <1>6, <3>2, <3>3
      <3>5. QED
        BY <3>2, <3>4
    <2>3. QED
      BY <2>1, <2>2
  <1>15. B' # {} => B # {} \/ C # {}
    BY <1>13
  <1>16. /\ A' # {} => B' = {} /\ C' = {}
         /\ B' # {} => C' = {}
         /\ n > count'.token => A' = {} /\ B' = {} /\ C' = {}
    BY <1>0, <1>10, <1>11, <1>12, <1>15
  <1>17. QED
    BY <1>10, <1>11, <1>12, <1>14, <1>16 DEF A, B, C, OneSlot, OneStored, OneBatch, Apart, Nowhere

\* read_buffer becomes the batch.
LEMMA OneDrain ==
    ASSUME TInv, OneInv, HandlerDone
    PROVE  OneInv'
  <1>0. /\ stored \in [Conn -> Seq(Token)] /\ main.conn \in Conn /\ ConnsOK
        /\ count' = count /\ UNCHANGED <<slot, busy>>
        /\ stored' = [stored EXCEPT ![main.conn] = <<>>]
        /\ main'.batch = stored[main.conn]
    BY DEF TInv, MainOK, ConnsOK, HandlerDone, pipes
  <1>1. PICK c \in Conn : c = main.conn
    BY <1>0
  <1> SUFFICES ASSUME NEW n \in Nat \ {0}
               PROVE  /\ OneSlot(n)' /\ OneStored(n)' /\ OneBatch(n)' /\ Apart(n)'
                      /\ n > count'.token => Nowhere(n)'
    BY DEF OneInv
  <1> DEFINE A == SlotsOf(n)  B == InStored(n)  C == InBatchOf(n)
  <1>2. A' = A
    BY <1>0, SameSlots
  <1>3. B' \subseteq B /\ \A p \in B' : p[1] # c
    BY <1>0, <1>1, FreedStored
  <1>4. ASSUME NEW k \in C' PROVE <<c, k>> \in B
    <2>1. k \in 1 .. Len(stored[c]) /\ stored[c][k].n = n
      BY <1>0, <1>1 DEF InBatchOf
    <2>2. PICK p : p = <<c, k>>
      OBVIOUS
    <2>3. p = <<p[1], p[2]>> /\ p[1] = c /\ p[2] = k
      BY <2>2
    <2>4. QED
      BY <1>0, <1>1, <2>1, <2>2, <2>3, InStoredWhere, StoredWhere
  <1>5. /\ \A p, q \in A : p = q
        /\ \A p, q \in B : p = q
        /\ \A k, l \in C : k = l
        /\ A # {} => B = {} /\ C = {}
        /\ B # {} => C = {}
        /\ n > count.token => A = {} /\ B = {} /\ C = {}
    BY DEF OneInv, OneSlot, OneStored, OneBatch, Apart, Nowhere
  <1> HIDE DEF A, B, C
  <1>6. ASSUME NEW k \in C', NEW l \in C' PROVE k = l
    <2>1. <<c, k>> = <<c, l>>
      BY <1>4, <1>5
    <2>2. QED
      BY <2>1
  <1>7. ASSUME NEW k \in C', NEW p \in B' PROVE FALSE
    <2>1. p = <<c, k>>
      BY <1>3, <1>4, <1>5
    <2>2. QED
      BY <1>3, <2>1
  <1>8. /\ \A p, q \in B' : p = q
        /\ A' # {} => B' = {} /\ C' = {}
        /\ B' # {} => C' = {}
        /\ n > count'.token => A' = {} /\ B' = {} /\ C' = {}
    BY <1>0, <1>2, <1>3, <1>4, <1>5, <1>7
  <1>9. QED
    BY <1>2, <1>5, <1>6, <1>8 DEF A, B, C, OneSlot, OneStored, OneBatch, Apart, Nowhere

\* A message without a command is put into a slot.
LEMMA OnePut ==
    ASSUME PipesOK, NEW t \in Thread, NEW c, NEW o \in {"load", "auto"}, NEW x, NEW k,
           Put(t, Message(c, o, x, k)), NEW n
    PROVE  SlotsOf(n)' \subseteq SlotsOf(n)
  <1>1. PICK m : m = Message(c, o, x, k)
    OBVIOUS
  <1>2. ~Holds(m, n)
    BY <1>1 DEF Message, Holds
  <1>3. Put(t, m)
    BY <1>1
  <1>4. QED
    BY <1>2, <1>3, PutSlot

\* The first command of the batch runs.
LEMMA OneCommand ==
    ASSUME TInv, OneInv, NEW c \in Conn, BatchCommand(c)
    PROVE  OneInv'
  <1>0. /\ main.batch \in Seq(Token) /\ main.batch # <<>> /\ PipesOK /\ ConnsOK
        /\ count' = count /\ main'.batch = Tail(main.batch)
    BY DEF TInv, MainOK, BatchCommand, InBatch
  <1>1. PICK b \in Seq(Token) : b = main.batch
    BY <1>0
  <1>2. /\ Head(b) = b[1] /\ Len(b) \in Nat /\ Len(b) >= 1 /\ Len(Tail(b)) = Len(b) - 1
        /\ \A k \in 1 .. Len(Tail(b)) : Tail(b)[k] = b[k + 1]
    BY <1>0, <1>1
  <1> SUFFICES ASSUME NEW n \in Nat \ {0}
               PROVE  /\ OneSlot(n)' /\ OneStored(n)' /\ OneBatch(n)' /\ Apart(n)'
                      /\ n > count'.token => Nowhere(n)'
    BY DEF OneInv
  <1> DEFINE A == SlotsOf(n)  B == InStored(n)  C == InBatchOf(n)
  <1>3. C = {k \in 1 .. Len(b) : b[k].n = n} /\ C' = {k \in 1 .. Len(Tail(b)) : Tail(b)[k].n = n}
    BY <1>0, <1>1 DEF InBatchOf
  <1>4. ASSUME NEW k \in C' PROVE k + 1 \in C /\ k \in Nat /\ k + 1 # 1
    BY <1>2, <1>3
  <1>5. Head(b).n = n => 1 \in C
    BY <1>2, <1>3
  <1>6. B' \subseteq B
    <2>1. CASE UNCHANGED stored
      BY <2>1, SameStored
    <2>2. CASE FreeConn(c)
      BY <1>0, <2>2, FreedStored DEF FreeConn
    <2>3. QED
      BY <2>1, <2>2 DEF BatchCommand, conns
  <1>7. A' \subseteq A \/ (Head(b).n = n /\ \E t \in Thread : A' \subseteq A \cup {<<t, next[t]>>})
    <2>1. CASE UNCHANGED <<slot, busy>>
      BY <2>1, SameSlots
    <2>2. CASE ~UNCHANGED <<slot, busy>>
      <3>1. dbin_write(c, Head(b).op, Head(b).n)
        BY <1>1, <2>2 DEF BatchCommand, pipes
      <3>2. PICK t \in Thread : Put(t, Message(c, Head(b).op, session[c], Head(b).n))
        BY <1>0, <2>2, <3>1 DEF dbin_write, pipes, DbIndex, ConnsOK
      <3>3. PICK m : m = Message(c, Head(b).op, session[c], Head(b).n)
        OBVIOUS
      <3>4. A' \subseteq A \cup {<<t, next[t]>>} /\ (~Holds(m, n) => A' \subseteq A)
        BY <1>0, <3>2, <3>3, PutSlot
      <3>5. Holds(m, n) => Head(b).n = n
        BY <3>3 DEF Holds, Message
      <3>6. QED
        BY <3>4, <3>5
    <2>3. QED
      BY <2>1, <2>2
  <1>8. /\ \A p, q \in A : p = q
        /\ \A p, q \in B : p = q
        /\ \A k, l \in C : k = l
        /\ A # {} => B = {} /\ C = {}
        /\ B # {} => C = {}
        /\ n > count.token => A = {} /\ B = {} /\ C = {}
    BY DEF OneInv, OneSlot, OneStored, OneBatch, Apart, Nowhere
  <1> HIDE DEF A, B, C
  <1>9. ASSUME NEW k \in C', NEW l \in C' PROVE k = l
    <2>1. k + 1 = l + 1
      BY <1>4, <1>8
    <2>2. QED
      BY <1>4, <2>1
  <1>10. Head(b).n = n => C' = {} /\ A = {} /\ B = {}
    <2>1. ASSUME Head(b).n = n, NEW k \in C' PROVE FALSE
      BY <1>4, <1>5, <1>8, <2>1
    <2>2. QED
      BY <1>5, <1>8, <2>1
  <1>11. \A p, q \in A' : p = q
    BY <1>7, <1>8, <1>10
  <1>12. A' # {} => B' = {} /\ C' = {}
    BY <1>4, <1>6, <1>7, <1>8, <1>10
  <1>13. B' # {} => C' = {}
    BY <1>4, <1>6, <1>8
  <1>14. n > count'.token => A' = {} /\ B' = {} /\ C' = {}
    BY <1>0, <1>4, <1>5, <1>6, <1>7, <1>8
  <1>15. \A p, q \in B' : p = q
    BY <1>6, <1>8
  <1>16. QED
    BY <1>9, <1>11, <1>12, <1>13, <1>14, <1>15 DEF A, B, C, OneSlot, OneStored, OneBatch, Apart, Nowhere

\* The slot of a reply is cleared.
LEMMA OneCleared ==
    ASSUME TInv, OneInv, NEW t \in Thread, NEW i \in Index,
           slot' = [slot EXCEPT ![t][i] = Empty], UNCHANGED <<busy, stored, count>>,
           main'.batch \in {main.batch, <<>>}
    PROVE  OneInv'
  <1>1. ASSUME NEW n \in Nat \ {0} PROVE Fewer(n)
    <2>1. SlotsOf(n)' \subseteq SlotsOf(n)
      BY ClearedSlot DEF TInv
    <2>2. InBatchOf(n)' \subseteq InBatchOf(n)
      BY DEF InBatchOf
    <2>3. QED
      BY <2>1, <2>2, SameStored DEF Fewer
  <1>2. QED
    BY <1>1, FewerPlaces

\* What has to do with neither commands nor slots.
LEMMA OneKept ==
    ASSUME OneInv, UNCHANGED <<slot, busy>>, main'.batch \in {main.batch, <<>>},
           count'.token = count.token,
           UNCHANGED stored \/ (ConnsOK /\ \E c \in Conn : stored' = [stored EXCEPT ![c] = <<>>])
    PROVE  OneInv'
  <1>1. ASSUME NEW n \in Nat \ {0} PROVE Fewer(n)
    <2>1. SlotsOf(n)' \subseteq SlotsOf(n)
      BY SameSlots
    <2>2. InBatchOf(n)' \subseteq InBatchOf(n)
      BY DEF InBatchOf
    <2>3. InStored(n)' \subseteq InStored(n)
      BY SameStored, FreedStored
    <2>4. QED
      BY <2>1, <2>2, <2>3 DEF Fewer
  <1>2. QED
    BY <1>1, FewerPlaces

\* A slot is given a request without a command.
LEMMA OneOther ==
    ASSUME TInv, OneInv, NEW t \in Thread, NEW c, NEW o \in {"load", "auto"}, NEW x, NEW k,
           Put(t, Message(c, o, x, k)), UNCHANGED stored, main'.batch = main.batch,
           count'.token = count.token
    PROVE  OneInv'
  <1>1. ASSUME NEW n \in Nat \ {0} PROVE Fewer(n)
    <2>1. SlotsOf(n)' \subseteq SlotsOf(n)
      BY OnePut DEF TInv
    <2>2. QED
      BY <2>1, SameBatch, SameStored DEF Fewer
  <1>2. QED
    BY <1>1, FewerPlaces

\* A worker reads its next slot, and writes its reply where it has read.
LEMMA OneWorker ==
    ASSUME TInv, OneInv, NEW t \in Thread, WorkerTake(t) \/ WorkerDone(t)
    PROVE  OneInv'
  <1>0. PipesOK
    BY DEF TInv
  <1>1. CASE WorkerTake(t)
    <2>1. PICK i \in Index : i = Head(toWorker[t])
      BY <1>0, <1>1 DEF PipesOK, WorkerTake
    <2>2. PICK m : m = (IF slot[t][i] = Empty THEN Unparsed ELSE slot[t][i])
      OBVIOUS
    <2>3. busy' = [busy EXCEPT ![t] = <<i, m>>] /\ slot' = slot
      BY <1>1, <2>1, <2>2 DEF WorkerTake
    <2>4. ASSUME NEW n \in Nat \ {0} PROVE SlotsOf(n)' \subseteq SlotsOf(n)
      <3>1. Holds(m, n) => Holds(slot[t][i], n)
        BY <2>2, <2>4 DEF Holds, Unparsed
      <3>2. \A u \in Thread : busy'[u] = IF u = t THEN <<i, m>> ELSE busy[u]
        BY <1>0, <2>3 DEF PipesOK
      <3>3. ASSUME NEW p \in SlotsOf(n)' PROVE p \in SlotsOf(n)
        <4>1. /\ p \in Thread \X Index
              /\ \/ Holds(slot[p[1]][p[2]], n)
                 \/ busy'[p[1]] # NoSlot /\ busy'[p[1]][1] = p[2] /\ Holds(busy'[p[1]][2], n)
          BY <2>3 DEF SlotsOf, AtSlot
        <4>2. p[1] \in Thread
          BY <4>1
        <4>3. CASE p[1] = t
          BY <3>1, <3>2, <4>1, <4>3 DEF SlotsOf, AtSlot
        <4>4. CASE p[1] # t
          BY <3>2, <4>1, <4>2, <4>4 DEF SlotsOf, AtSlot
        <4>5. QED
          BY <4>3, <4>4
      <3>4. QED
        BY <3>3
    <2>5. main' = main /\ count' = count /\ stored' = stored
      BY <1>1 DEF WorkerTake, conns
    <2>6. \A n \in Nat \ {0} : Fewer(n)
      BY <2>4, <2>5, SameBatch, SameStored DEF Fewer
    <2>7. QED
      BY <2>5, <2>6, FewerPlaces
  <1>2. CASE WorkerDone(t)
    <2>1. busy[t] # NoSlot /\ busy[t] \in Index \X Messages
      BY <1>0, <1>2 DEF WorkerDone, PipesOK
    <2>2. PICK i \in Index, m \in Messages : busy[t] = <<i, m>> /\ busy[t][1] = i /\ busy[t][2] = m
      BY <2>1
    <2>3. PICK r : r = [m EXCEPT !.tag = "rep"]
      OBVIOUS
    <2>4. slot' = [slot EXCEPT ![t][i] = r] /\ busy' = [busy EXCEPT ![t] = NoSlot]
      BY <1>2, <2>2, <2>3 DEF WorkerDone
    <2>5. ASSUME NEW n \in Nat \ {0} PROVE SlotsOf(n)' \subseteq SlotsOf(n)
      <3>1. Holds(r, n) => Holds(m, n)
        <4>1. r.op = m.op /\ r.n = m.n /\ m # Empty
          BY <2>3, EmptyNoMessage DEF Messages
        <4>2. QED
          BY <4>1 DEF Holds
      <3>2. \A p \in Thread \X Index : slot'[p[1]][p[2]] = IF p[1] = t /\ p[2] = i THEN r ELSE slot[p[1]][p[2]]
        BY <1>0, <2>4 DEF PipesOK
      <3>3. \A u \in Thread : busy'[u] = IF u = t THEN NoSlot ELSE busy[u]
        BY <1>0, <2>4 DEF PipesOK
      <3>4. ASSUME NEW p \in SlotsOf(n)' PROVE p \in SlotsOf(n)
        <4>1. /\ p \in Thread \X Index
              /\ \/ Holds(slot'[p[1]][p[2]], n)
                 \/ busy'[p[1]] # NoSlot /\ busy'[p[1]][1] = p[2] /\ Holds(busy'[p[1]][2], n)
          BY DEF SlotsOf, AtSlot
        <4>2. p[1] \in Thread /\ p[2] \in Index
          BY <4>1
        <4>3. AtSlot(p, n)
          <5>1. CASE p[1] = t /\ p[2] = i
            <6>1. Holds(m, n)
              BY <3>1, <3>2, <3>3, <4>1, <5>1
            <6>2. QED
              BY <2>1, <2>2, <5>1, <6>1 DEF AtSlot
          <5>2. CASE p[1] = t /\ p[2] # i
            BY <3>2, <3>3, <4>1, <5>2 DEF AtSlot
          <5>3. CASE p[1] # t
            BY <3>2, <3>3, <4>1, <4>2, <5>3 DEF AtSlot
          <5>4. QED
            BY <5>1, <5>2, <5>3
        <4>4. QED
          BY <4>1, <4>3 DEF SlotsOf
      <3>5. QED
        BY <3>4
    <2>6. main' = main /\ count' = count /\ stored' = stored
      BY <1>2 DEF WorkerDone, conns
    <2>7. \A n \in Nat \ {0} : Fewer(n)
      BY <2>5, <2>6, SameBatch, SameStored DEF Fewer
    <2>8. QED
      BY <2>6, <2>7, FewerPlaces
  <1>3. QED
    BY <1>1, <1>2

\* The workers are stopped: what was in a slot is nowhere, and the command that
\* asked for it leaves the batch.
LEMMA OneRestart ==
    ASSUME TInv, OneInv, NEW c \in Conn, DbRestart(c)
    PROVE  OneInv'
  <1>0. /\ main.batch \in Seq(Token) /\ main.batch # <<>>
        /\ main'.batch = Tail(main.batch) /\ count'.token = count.token /\ stored' = stored
        /\ \A t \in Thread : busy'[t] = NoSlot /\ \A i \in Index : slot'[t][i] = Empty
    BY DEF TInv, MainOK, CountOK, DbRestart, InBatch, conns
  <1>1. PICK b \in Seq(Token) : b = main.batch
    BY <1>0
  <1>2. /\ Len(b) \in Nat /\ Len(b) >= 1 /\ Len(Tail(b)) = Len(b) - 1
        /\ \A k \in 1 .. Len(Tail(b)) : Tail(b)[k] = b[k + 1]
    BY <1>0, <1>1
  <1> SUFFICES ASSUME NEW n \in Nat \ {0}
               PROVE  /\ OneSlot(n)' /\ OneStored(n)' /\ OneBatch(n)' /\ Apart(n)'
                      /\ n > count'.token => Nowhere(n)'
    BY DEF OneInv
  <1> DEFINE A == SlotsOf(n)  B == InStored(n)  C == InBatchOf(n)
  <1>3. C = {k \in 1 .. Len(b) : b[k].n = n} /\ C' = {k \in 1 .. Len(Tail(b)) : Tail(b)[k].n = n}
    BY <1>0, <1>1 DEF InBatchOf
  <1>4. ASSUME NEW k \in C' PROVE k + 1 \in C /\ k \in Nat
    BY <1>2, <1>3
  <1>5. A' = {} /\ B' = B
    BY <1>0, SameStored DEF SlotsOf, AtSlot, Holds
  <1>6. /\ \A p, q \in B : p = q
        /\ \A k, l \in C : k = l
        /\ B # {} => C = {}
        /\ n > count.token => B = {} /\ C = {}
    BY DEF OneInv, OneSlot, OneStored, OneBatch, Apart, Nowhere
  <1> HIDE DEF A, B, C
  <1>7. ASSUME NEW k \in C', NEW l \in C' PROVE k = l
    <2>1. k + 1 = l + 1
      BY <1>4, <1>6
    <2>2. QED
      BY <1>4, <2>1
  <1>8. /\ A' = {} /\ (B' # {} => C' = {})
        /\ n > count'.token => B' = {} /\ C' = {}
    BY <1>0, <1>4, <1>5, <1>6
  <1>9. QED
    BY <1>5, <1>6, <1>7, <1>8 DEF A, B, C, OneSlot, OneStored, OneBatch, Apart, Nowhere

LEMMA OneStep == TInv /\ OneInv /\ [Next]_vars => OneInv'
  <1> SUFFICES ASSUME TInv, OneInv, [Next]_vars PROVE OneInv'
    OBVIOUS
  <1>0. PipesOK /\ MainOK /\ ConnsOK /\ CountOK
    BY DEF TInv
  <1>1. CASE BatchDone
    <2>1. main'.batch = <<>> /\ UNCHANGED <<busy, stored, count>>
      BY <1>1 DEF BatchDone, Idle, conns
    <2>2. CASE main.slot = NoSlot
      BY <1>1, <2>1, <2>2, OneKept DEF BatchDone
    <2>3. CASE main.slot # NoSlot
      <3>1. PICK t \in Thread, i \in Index : main.slot = <<t, i>>
        BY <1>0, <2>3 DEF MainOK
      <3>2. slot' = [slot EXCEPT ![t][i] = Empty]
        BY <1>1, <2>3, <3>1 DEF BatchDone
      <3>3. QED
        BY <2>1, <3>2, OneCleared
    <2>4. QED
      BY <2>2, <2>3
  <1>2. CASE HandlerLogin
    <2>1. main'.batch = main.batch /\ UNCHANGED <<slot, busy, stored>>
      BY <1>0, <1>2 DEF HandlerLogin, pipes, MainOK
    <2>2. count'.token = count.token
      BY <1>0, <1>2 DEF HandlerLogin, NewSession, CountOK
    <2>3. QED
      BY <2>1, <2>2, OneKept
  <1>3. CASE HandlerFollow
    <2>1. main'.batch = main.batch /\ UNCHANGED <<stored, count>> /\ main.conn \in Conn
      BY <1>0, <1>3 DEF HandlerFollow, MainOK
    <2>2. CASE UNCHANGED <<slot, busy>>
      BY <2>1, <2>2, OneKept
    <2>3. CASE ~UNCHANGED <<slot, busy>>
      <3>1. PICK t \in Thread : Put(t, Message(main.conn, "load", session[main.conn], 0))
        BY <1>0, <1>3, <2>1, <2>3 DEF HandlerFollow, dbin_write, pipes, DbIndex, ConnsOK
      <3>2. QED
        BY <2>1, <3>1, OneOther
    <2>4. QED
      BY <2>2, <2>3
  <1>4. CASE HandlerDone
    BY <1>4, OneDrain
  <1>5. ASSUME NEW c \in Conn, BatchUnjam(c) \/ Age(c) PROVE OneInv'
    BY <1>5, OneKept DEF BatchUnjam, Age, pipes
  <1>6. ASSUME NEW c \in Conn, BatchStore(c) PROVE OneInv'
    BY <1>6, OneStore
  <1>7. ASSUME NEW c \in Conn, BatchCommand(c) PROVE OneInv'
    BY <1>7, OneCommand
  <1>8. ASSUME NEW c \in Conn, DbRestart(c) PROVE OneInv'
    BY <1>8, OneRestart
  <1>9. ASSUME NEW c \in Conn, Accept(c) PROVE OneInv'
    <2>1. count'.token = count.token
      BY <1>0, <1>9 DEF Accept, NewSession, CountOK
    <2>2. stored' = [stored EXCEPT ![c] = <<>>] /\ main' = main /\ UNCHANGED <<slot, busy>>
      BY <1>9 DEF Accept, pipes
    <2>3. QED
      BY <1>0, <2>1, <2>2, OneKept
  <1>10. ASSUME NEW c \in Conn, Disconnect(c) PROVE OneInv'
    BY <1>0, <1>10, OneKept DEF Disconnect, FreeConn, pipes
  <1>11. ASSUME NEW c \in Conn, Recv(c) PROVE OneInv'
    BY <1>11, OneRecv
  <1>12. ASSUME NEW t \in Thread, OfflineWrite(t) PROVE OneInv'
    <2>1. Put(t, Message(None, "auto", Free, 0)) /\ main' = main /\ stored' = stored
      BY <1>12 DEF OfflineWrite, conns
    <2>2. count'.token = count.token
      BY <1>0, <1>12 DEF OfflineWrite, CountOK
    <2>3. QED
      BY <2>1, <2>2, OneOther
  <1>13. ASSUME NEW t \in Thread, ReplyDropped(t) PROVE OneInv'
    <2>1. PICK i \in Index : i = Head(toMain[t])
      BY <1>0, <1>13 DEF PipesOK, ReplyDropped
    <2>2. slot' = [slot EXCEPT ![t][i] = Empty] /\ main' = main /\ UNCHANGED <<busy, stored, count>>
      BY <1>13, <2>1 DEF ReplyDropped, conns
    <2>3. QED
      BY <2>2, OneCleared
  <1>14. ASSUME NEW t \in Thread, ReplyBegin(t) PROVE OneInv'
    <2>1. main'.batch = <<>> /\ UNCHANGED <<slot, busy, stored, count>>
      BY <1>14 DEF ReplyBegin, Idle, conns
    <2>2. QED
      BY <2>1, OneKept
  <1>15. ASSUME NEW t \in Thread, WorkerTake(t) \/ WorkerDone(t) PROVE OneInv'
    BY <1>15, OneWorker
  <1>16. CASE UNCHANGED vars
    BY <1>16, OneKept DEF vars
  <1>17. CASE BatchDoneRestarted
    <2>1. main'.batch = <<>> /\ UNCHANGED <<busy, stored, count>>
      BY <1>17 DEF BatchDoneRestarted, Idle, conns
    <2>2. QED
      BY <1>17, <2>1, RestartedDone, OneCleared
  <1>18. QED
    BY <1>1, <1>2, <1>3, <1>4, <1>5, <1>6, <1>7, <1>8, <1>9, <1>10, <1>11, <1>12, <1>13,
       <1>14, <1>15, <1>16, <1>17 DEF Next, MainStep

\* A set without two elements has none or one.
LEMMA NoneOrOne ==
    ASSUME NEW S, \A p, q \in S : p = q
    PROVE  (S = {} /\ Cardinality(S) = 0) \/ (S # {} /\ Cardinality(S) = 1)
  <1>1. CASE S = {}
    BY <1>1, FS_EmptySet
  <1>2. CASE S # {}
    <2>1. PICK p \in S : TRUE
      BY <1>2
    <2>2. S = {p}
      OBVIOUS
    <2>3. QED
      BY <1>2, <2>2, FS_Singleton
  <1>3. QED
    BY <1>1, <1>2

\* Storing, draining, replying, restarting and even a request written over
\* another never run a command a second time, unless a read_buffer ran over.
THEOREM CommandsRunOnce == Spec => []RunOnce
  <1>1. Init => OneInv
    <2> SUFFICES ASSUME Init, NEW n \in Nat \ {0} PROVE Nowhere(n)
      BY DEF OneInv, Nowhere, OneSlot, OneStored, OneBatch, Apart
    <2>1. SlotsOf(n) = {}
      BY DEF Init, SlotsOf, AtSlot, Holds
    <2>2. InStored(n) = {}
      <3>1. ASSUME NEW p \in InStored(n) PROVE FALSE
        <4>1. p[1] \in Conn /\ p[2] \in 1 .. Len(stored[p[1]])
          BY InStoredWhere, StoredWhere
        <4>2. stored[p[1]] = <<>> /\ 1 .. Len(<<>>) = {}
          BY <4>1 DEF Init
        <4>3. QED
          BY <4>1, <4>2
      <3>2. QED
        BY <3>1
    <2>3. InBatchOf(n) = {}
      BY DEF Init, Idle, InBatchOf
    <2>4. QED
      BY <2>1, <2>2, <2>3 DEF Nowhere
  <1>2. OneInv /\ TInv => RunOnce
    <2> SUFFICES ASSUME OneInv, TInv, NEW n \in 1 .. count.token
                 PROVE  Cardinality(InSlot(n)) + Cardinality(InStored(n)) + Cardinality(InBatchOf(n)) <= 1
      BY DEF RunOnce
    <2>1. n \in Nat \ {0}
      BY DEF TInv, CountOK
    <2>2. OneSlot(n) /\ OneStored(n) /\ OneBatch(n) /\ Apart(n)
      BY <2>1 DEF OneInv
    <2>3. InSlot(n) \subseteq SlotsOf(n)
      BY DEF InSlot, SlotsOf, AtSlot
    <2> DEFINE A == InSlot(n)  B == InStored(n)  C == InBatchOf(n)
    <2>4. /\ \A p, q \in A : p = q
          /\ \A p, q \in B : p = q
          /\ \A k, l \in C : k = l
          /\ A # {} => B = {} /\ C = {}
          /\ B # {} => C = {}
      BY <2>2, <2>3 DEF OneSlot, OneStored, OneBatch, Apart
    <2> HIDE DEF A, B, C
    <2>5. /\ (A = {} /\ Cardinality(A) = 0) \/ (A # {} /\ Cardinality(A) = 1)
          /\ (B = {} /\ Cardinality(B) = 0) \/ (B # {} /\ Cardinality(B) = 1)
          /\ (C = {} /\ Cardinality(C) = 0) \/ (C # {} /\ Cardinality(C) = 1)
      BY <2>4, NoneOrOne
    <2>6. Cardinality(A) + Cardinality(B) + Cardinality(C) <= 1
      BY <2>4, <2>5
    <2>7. QED
      BY <2>6 DEF A, B, C
  <1>3. QED
    BY <1>1, <1>2, OneStep, TypeInvariant, PTL DEF Spec

----------------------------------------------------------------------------
(* The commands of a connection run in order.                              *)

\* With replies in time db_flag is never taken for lost, and while it is off
\* nothing waits.
InTime == \A c \in Conn : flag[c] # "old" /\ (flag[c] = "off" => stored[c] = <<>>)

LEMMA InTimeStep == ~Slow /\ TInv /\ InTime /\ [Next]_vars => InTime'
  <1> SUFFICES ASSUME ~Slow, TInv, InTime, [Next]_vars PROVE InTime'
    OBVIOUS
  <1>0. MainOK /\ ConnsOK
    BY DEF TInv
  <1>1. ASSUME NEW c \in Conn, flag' = [flag EXCEPT ![c] = "off"], stored' = [stored EXCEPT ![c] = <<>>]
        PROVE  InTime'
    BY <1>0, <1>1 DEF InTime, ConnsOK
  <1>2. ASSUME NEW c \in Conn, NEW o, NEW n, dbin_write(c, o, n), UNCHANGED stored PROVE InTime'
    BY <1>0, <1>2 DEF InTime, ConnsOK, dbin_write
  <1>3. CASE UNCHANGED <<flag, stored>>
    BY <1>3 DEF InTime
  <1>4. CASE BatchDone \/ BatchDoneRestarted \/ HandlerLogin \/ \E c \in Conn : DbRestart(c)
    BY <1>3, <1>4 DEF BatchDone, BatchDoneRestarted, HandlerLogin, DbRestart, conns
  <1>5. CASE HandlerFollow \/ HandlerDone
    <2>1. main.conn \in Conn
      BY <1>0, <1>5 DEF HandlerFollow, HandlerDone, MainOK
    <2>2. QED
      BY <1>1, <1>2, <1>5, <2>1 DEF HandlerFollow, HandlerDone
  <1>6. ASSUME NEW c \in Conn, BatchStore(c) PROVE InTime'
    BY <1>0, <1>6 DEF BatchStore, InTime, ConnsOK
  <1>7. ASSUME NEW c \in Conn, BatchUnjam(c) \/ Age(c) PROVE InTime'
    BY <1>7 DEF BatchUnjam, Age, InTime
  <1>8. ASSUME NEW c \in Conn, BatchCommand(c) PROVE InTime'
    BY <1>1, <1>2, <1>3, <1>8 DEF BatchCommand, FreeConn, conns
  <1>9. ASSUME NEW c \in Conn, Accept(c) \/ Disconnect(c) \/ Recv(c) PROVE InTime'
    BY <1>1, <1>3, <1>9 DEF Accept, Disconnect, Recv, FreeConn, conns
  <1>10. ASSUME NEW t \in Thread, OfflineWrite(t) \/ ReplyDropped(t) \/ ReplyBegin(t)
                                  \/ WorkerTake(t) \/ WorkerDone(t)
         PROVE  InTime'
    BY <1>3, <1>10 DEF OfflineWrite, ReplyDropped, ReplyBegin, WorkerTake, WorkerDone, conns
  <1>11. CASE UNCHANGED vars
    BY <1>3, <1>11 DEF vars
  <1>12. QED
    BY <1>4, <1>5, <1>6, <1>7, <1>8, <1>9, <1>10, <1>11 DEF Next, MainStep

\* When every reply comes within five seconds no command of a connection runs
\* while an earlier one of it waits in read_buffer.
THEOREM CommandsInOrder ==
    ASSUME ~Slow
    PROVE  Spec => []NoOvertaking
  <1>1. Init => InTime
    BY DEF Init, InTime
  <1>2. TInv /\ InTime /\ [Next]_vars => InTime'
    BY InTimeStep
  <1>3. InTime => NoOvertaking
    BY DEF InTime, NoOvertaking
  <1>4. QED
    BY <1>1, <1>2, <1>3, TypeInvariant, PTL DEF Spec

==============================================================================
