--------------------------- MODULE ConnPoolProofs --------------------------
(***************************************************************************)
(* Proofs about the connection pool for every MAX_CONNECT: as long as no   *)
(* packet quits twice, the linked list is exactly the free slots and an    *)
(* accepted socket always finds one; and connections have descriptors of   *)
(* their own, one quit too many included.                                  *)
(***************************************************************************)
EXTENDS ConnPool, FiniteSetTheorems, TLAPS

USE ConnectAssumption, QuitAssumption

LEMMA TypeStep == TypeOK /\ [Next]_vars => TypeOK'
  <1> SUFFICES ASSUME TypeOK, [Next]_vars PROVE TypeOK'
    OBVIOUS
  <1>1. CASE Accept
    <2>1. PICK f \in Lowest(Fd \ open) :
              /\ open' = open \cup {f}
              /\ IF Chosen = {}
                 THEN /\ refused' = TRUE
                      /\ UNCHANGED <<state, conn_fd, next_free, g_free_connect, g_num_connect>>
                 ELSE (\E c \in Chosen : Take(c, f)) /\ UNCHANGED refused
      BY <1>1 DEF Accept
    <2>2. f \in Fd
      BY DEF Lowest
    <2>3. CASE Chosen = {}
      BY <1>1, <2>1, <2>2, <2>3 DEF Accept, TypeOK
    <2>4. CASE Chosen # {}
      <3>1. PICK c \in Chosen : Take(c, f)
        BY <2>1, <2>4
      <3>2. c \in Slot
        BY DEF Chosen, Lowest, Free
      <3>3. g_free_connect' \in Slot \cup {End} /\ g_num_connect' \in Int
        BY <3>1, <3>2 DEF Take, TypeOK
      <3>4. QED
        BY <1>1, <2>1, <2>2, <2>4, <3>1, <3>2, <3>3 DEF Accept, Take, TypeOK
    <2>5. QED
      BY <2>3, <2>4
  <1>2. CASE BatchDone
    BY <1>2 DEF BatchDone, pool, TypeOK
  <1>3. ASSUME NEW c \in Slot, Close(c), batch' = batch, refused' = refused,
               quits' \in 0 .. MaxQuit
        PROVE  TypeOK'
    <2>1. g_num_connect' \in Int /\ g_free_connect' \in Slot
      BY <1>3 DEF Close, TypeOK
    <2>2. 0 \in Fd
      BY DEF Fd
    <2>3. QED
      BY <1>3, <2>1, <2>2 DEF Close, TypeOK
  <1>4. ASSUME NEW c \in Slot, Disconnect(c) \/ CloseOwn(c) \/ ClosePeer(c)
        PROVE  TypeOK'
    BY <1>3, <1>4 DEF Disconnect, CloseOwn, ClosePeer, TypeOK
  <1>5. ASSUME NEW c \in Slot, QuitAgain(c) PROVE TypeOK'
    <2>1. quits' \in 0 .. MaxQuit
      BY <1>5 DEF QuitAgain, TypeOK
    <2>2. QED
      BY <1>3, <1>5, <2>1 DEF QuitAgain
  <1>6. ASSUME NEW c \in Slot, Recv(c) PROVE TypeOK'
    BY <1>6 DEF Recv, pool, TypeOK
  <1>7. CASE UNCHANGED vars
    BY <1>7 DEF vars, pool, TypeOK
  <1>8. QED
    BY <1>1, <1>2, <1>4, <1>5, <1>6, <1>7 DEF Next

\* The pool and its count are always well typed.
THEOREM TypeCorrect == Spec => []TypeOK
  <1>1. Init => TypeOK
    <2> SUFFICES ASSUME Init PROVE TypeOK
      OBVIOUS
    <2>1. 0 \in Slot /\ 0 \in Fd /\ \A c \in Slot : c # MaxConnect - 1 => c + 1 \in Slot
      BY DEF Slot, Fd
    <2>2. next_free \in [Slot -> Slot \cup {End}]
      BY <2>1 DEF Init
    <2>3. open \in SUBSET Fd
      BY <2>1 DEF Init, Stdin
    <2>4. quits \in 0 .. MaxQuit /\ g_num_connect \in Int
      BY DEF Init
    <2>5. state \in [Slot -> {"STATE_FREE", "STATE_READING"}] /\ conn_fd \in [Slot -> Fd]
      BY <2>1 DEF Init
    <2>6. /\ g_free_connect \in Slot \cup {End} /\ batch \in Slot \cup {End}
          /\ refused \in BOOLEAN
      BY <2>1 DEF Init
    <2>7. QED
      BY <2>2, <2>3, <2>4, <2>5, <2>6 DEF TypeOK
  <1>2. QED
    BY <1>1, TypeStep, PTL DEF Spec

----------------------------------------------------------------------------
(* The free list                                                           *)

\* The free slots as they are linked, or a packet quit twice.
LInv == quits = 0 => /\ ~refused
                     /\ g_num_connect \in 0 .. MaxConnect
                     /\ \E s \in [1 .. MaxConnect - g_num_connect -> Slot] :
                            IsFreeList(MaxConnect - g_num_connect, s)

LEMMA ListInit == Init => LInv
  <1> SUFFICES ASSUME Init PROVE LInv
    OBVIOUS
  <1> DEFINE s == [i \in 1 .. MaxConnect |-> i - 1]
  <1>1. s \in [1 .. MaxConnect -> Slot]
    BY DEF Slot
  <1>2. MaxConnect - g_num_connect = MaxConnect
    BY DEF Init
  <1>3. IsFreeList(MaxConnect, s)
    <2>1. \A i, j \in 1 .. MaxConnect : s[i] = s[j] => i = j
      OBVIOUS
    <2>2. \A c \in Slot : state[c] = "STATE_FREE" <=> \E i \in 1 .. MaxConnect : s[i] = c
      <3>1. ASSUME NEW c \in Slot PROVE c + 1 \in 1 .. MaxConnect /\ s[c + 1] = c
        BY DEF Slot
      <3>2. QED
        BY <3>1 DEF Init
    <2>3. g_free_connect = s[1]
      BY DEF Init
    <2>4. \A i \in 1 .. MaxConnect : next_free[s[i]] = IF i = MaxConnect THEN End ELSE s[i + 1]
      BY DEF Init, Slot
    <2>5. QED
      BY <2>1, <2>2, <2>3, <2>4 DEF IsFreeList
  <1>4. QED
    BY <1>1, <1>2, <1>3 DEF LInv, Init

LEMMA SlotCount == IsFiniteSet(Slot) /\ Cardinality(Slot) = MaxConnect
  BY FS_Interval DEF Slot

\* A list of different slots that leaves one out is shorter than the pool.
LEMMA ListShort ==
    ASSUME NEW n \in 0 .. MaxConnect, NEW s \in [1 .. n -> Slot], NEW c \in Slot,
           \A i, j \in 1 .. n : s[i] = s[j] => i = j,
           \A i \in 1 .. n : s[i] # c
    PROVE  n < MaxConnect
  <1> SUFFICES ASSUME n = MaxConnect PROVE FALSE
    OBVIOUS
  <1>1. IsFiniteSet(1 .. n) /\ Cardinality(1 .. n) = n
    BY FS_Interval
  <1>2. IsFiniteSet(Slot \ {c}) /\ Cardinality(Slot \ {c}) = MaxConnect - 1
    BY SlotCount, FS_RemoveElement
  <1>3. s \in [1 .. n -> Slot \ {c}]
    OBVIOUS
  <1>4. \E i, j \in 1 .. n : i # j /\ s[i] = s[j]
    BY <1>1, <1>2, <1>3, FS_PigeonHole
  <1>5. QED
    BY <1>4

\* free_conn puts a slot in use before the list.
LEMMA ListClose ==
    ASSUME TypeOK, LInv, quits = 0, NEW c \in Slot, state[c] # "STATE_FREE", Close(c),
           refused' = refused
    PROVE  LInv'
  <1> DEFINE m == MaxConnect - g_num_connect
  <1>1. PICK n \in 0 .. MaxConnect : n = m
    BY DEF LInv
  <1>2. PICK s \in [1 .. n -> Slot] : IsFreeList(n, s)
    BY <1>1 DEF LInv
  <1>3. \A i \in 1 .. n : s[i] # c
    BY <1>2 DEF IsFreeList
  <1>4. n < MaxConnect
    BY <1>2, <1>3, ListShort DEF IsFreeList
  <1>5. g_num_connect' \in 0 .. MaxConnect /\ MaxConnect - g_num_connect' = n + 1
    BY <1>1, <1>4 DEF Close, TypeOK
  <1> DEFINE u == [i \in 1 .. n + 1 |-> IF i = 1 THEN c ELSE s[i - 1]]
  <1>6. /\ u \in [1 .. n + 1 -> Slot] /\ u[1] = c
        /\ \A i \in 1 .. n : i + 1 \in 2 .. n + 1 /\ u[i + 1] = s[i]
        /\ \A i \in 2 .. n + 1 : i - 1 \in 1 .. n /\ u[i] = s[i - 1]
    OBVIOUS
  <1> HIDE DEF u
  <1>7. \A i, j \in 1 .. n + 1 : u[i] = u[j] => i = j
    <2> SUFFICES ASSUME NEW i \in 1 .. n + 1, NEW j \in 1 .. n + 1, u[i] = u[j] PROVE i = j
      OBVIOUS
    <2>1. CASE i = 1 /\ j = 1
      BY <2>1
    <2>2. CASE i = 1 /\ j # 1
      BY <2>2, <1>3, <1>6
    <2>3. CASE i # 1 /\ j = 1
      BY <2>3, <1>3, <1>6
    <2>4. CASE i # 1 /\ j # 1
      <3>1. i - 1 \in 1 .. n /\ j - 1 \in 1 .. n /\ s[i - 1] = s[j - 1]
        BY <2>4, <1>6
      <3>2. i - 1 = j - 1
        BY <1>2, <3>1 DEF IsFreeList
      <3>3. QED
        BY <3>2
    <2>5. QED
      BY <2>1, <2>2, <2>3, <2>4
  <1>8. \A d \in Slot : state'[d] = "STATE_FREE" <=> \E i \in 1 .. n + 1 : u[i] = d
    <2> SUFFICES ASSUME NEW d \in Slot
                 PROVE  state'[d] = "STATE_FREE" <=> \E i \in 1 .. n + 1 : u[i] = d
      OBVIOUS
    <2>1. CASE d = c
      <3>1. state'[d] = "STATE_FREE"
        BY <2>1 DEF Close, TypeOK
      <3>2. 1 \in 1 .. n + 1 /\ u[1] = d
        BY <1>6, <2>1
      <3>3. QED
        BY <3>1, <3>2
    <2>2. CASE d # c
      <3>1. state'[d] = state[d]
        BY <2>2 DEF Close, TypeOK
      <3>2. state[d] = "STATE_FREE" <=> \E i \in 1 .. n : s[i] = d
        BY <1>2 DEF IsFreeList
      <3>3. ASSUME NEW i \in 1 .. n, s[i] = d PROVE \E j \in 1 .. n + 1 : u[j] = d
        BY <1>6, <3>3
      <3>4. ASSUME NEW j \in 1 .. n + 1, u[j] = d PROVE \E i \in 1 .. n : s[i] = d
        <4>1. j \in 2 .. n + 1
          BY <1>6, <2>2, <3>4
        <4>2. QED
          BY <1>6, <3>4, <4>1
      <3>5. QED
        BY <3>1, <3>2, <3>3, <3>4
    <2>3. QED
      BY <2>1, <2>2
  <1>9. g_free_connect' = u[1]
    BY <1>6 DEF Close
  <1>10. ASSUME NEW i \in 1 .. n + 1
         PROVE  next_free'[u[i]] = IF i = n + 1 THEN End ELSE u[i + 1]
    <2>1. CASE i = 1
      <3>1. next_free'[c] = g_free_connect
        BY DEF Close, TypeOK
      <3>2. g_free_connect = IF n = 0 THEN End ELSE s[1]
        BY <1>2 DEF IsFreeList
      <3>3. n # 0 => u[2] = s[1]
        BY <1>6
      <3>4. QED
        BY <1>6, <2>1, <3>1, <3>2, <3>3
    <2>2. CASE i # 1
      <3>1. i - 1 \in 1 .. n /\ u[i] = s[i - 1] /\ s[i - 1] # c
        BY <1>3, <1>6, <2>2
      <3>2. next_free'[u[i]] = next_free[s[i - 1]]
        BY <3>1 DEF Close, TypeOK
      <3>3. next_free[s[i - 1]] = IF i - 1 = n THEN End ELSE s[(i - 1) + 1]
        BY <1>2, <3>1 DEF IsFreeList
      <3>4. i # n + 1 => u[i + 1] = s[i]
        BY <1>6, <2>2
      <3>5. QED
        BY <3>1, <3>2, <3>3, <3>4
    <2>3. QED
      BY <2>1, <2>2
  <1>11. IsFreeList(n + 1, u)'
    BY <1>7, <1>8, <1>9, <1>10 DEF IsFreeList
  <1>12. QED
    BY <1>5, <1>6, <1>11 DEF LInv

\* new_conn takes the head of the list.
LEMMA ListTake ==
    ASSUME TypeOK, LInv, quits = 0, Accept
    PROVE  LInv'
  <1>1. PICK n \in 0 .. MaxConnect : n = MaxConnect - g_num_connect
    BY DEF LInv
  <1>2. PICK s \in [1 .. n -> Slot] : IsFreeList(n, s)
    BY <1>1 DEF LInv
  <1>3. n # 0 /\ g_num_connect < MaxConnect
    BY <1>1 DEF Accept, TypeOK
  <1> DEFINE c == s[1]
  <1>4. 1 \in 1 .. n /\ c \in Slot /\ g_free_connect = c /\ state[c] = "STATE_FREE"
    BY <1>2, <1>3 DEF IsFreeList
  <1>5. Chosen = {c}
    BY <1>4 DEF Chosen
  <1>6. PICK f : Take(c, f) /\ refused' = refused
    BY <1>5 DEF Accept
  <1>7. g_num_connect' \in 0 .. MaxConnect /\ MaxConnect - g_num_connect' = n - 1
    BY <1>1, <1>3, <1>6 DEF Take, TypeOK
  <1> DEFINE u == [i \in 1 .. n - 1 |-> s[i + 1]]
  <1>8. /\ u \in [1 .. n - 1 -> Slot]
        /\ \A i \in 1 .. n - 1 : u[i] = s[i + 1] /\ i + 1 \in 2 .. n
    OBVIOUS
  <1> HIDE DEF u, c
  <1>9. \A i \in 2 .. n : i \in 1 .. n /\ s[i] # c
    BY <1>2, <1>3 DEF IsFreeList, c
  <1>10. \A i, j \in 1 .. n - 1 : u[i] = u[j] => i = j
    <2> SUFFICES ASSUME NEW i \in 1 .. n - 1, NEW j \in 1 .. n - 1, u[i] = u[j] PROVE i = j
      OBVIOUS
    <2>1. i + 1 \in 1 .. n /\ j + 1 \in 1 .. n /\ s[i + 1] = s[j + 1]
      BY <1>8, <1>9
    <2>2. i + 1 = j + 1
      BY <1>2, <2>1 DEF IsFreeList
    <2>3. QED
      BY <2>2
  <1>11. \A d \in Slot : state'[d] = "STATE_FREE" <=> \E i \in 1 .. n - 1 : u[i] = d
    <2> SUFFICES ASSUME NEW d \in Slot
                 PROVE  state'[d] = "STATE_FREE" <=> \E i \in 1 .. n - 1 : u[i] = d
      OBVIOUS
    <2>1. CASE d = c
      <3>1. state'[d] # "STATE_FREE"
        BY <1>4, <1>6, <2>1 DEF Take, TypeOK
      <3>2. \A i \in 1 .. n - 1 : u[i] # d
        BY <1>8, <1>9, <2>1
      <3>3. QED
        BY <3>1, <3>2
    <2>2. CASE d # c
      <3>1. state'[d] = state[d]
        BY <1>6, <2>2 DEF Take, TypeOK
      <3>2. state[d] = "STATE_FREE" <=> \E i \in 1 .. n : s[i] = d
        BY <1>2 DEF IsFreeList
      <3>3. ASSUME NEW i \in 1 .. n, s[i] = d PROVE \E j \in 1 .. n - 1 : u[j] = d
        <4>1. i # 1
          BY <2>2, <3>3 DEF c
        <4>2. i - 1 \in 1 .. n - 1 /\ (i - 1) + 1 = i
          BY <4>1
        <4>3. QED
          BY <1>8, <3>3, <4>2
      <3>4. ASSUME NEW j \in 1 .. n - 1, u[j] = d PROVE \E i \in 1 .. n : s[i] = d
        BY <1>8, <1>9, <3>4
      <3>5. QED
        BY <3>1, <3>2, <3>3, <3>4
    <2>3. QED
      BY <2>1, <2>2
  <1>12. g_free_connect' = IF n - 1 = 0 THEN End ELSE u[1]
    <2>1. g_free_connect' = next_free[c]
      BY <1>6 DEF Take
    <2>2. next_free[c] = IF 1 = n THEN End ELSE s[1 + 1]
      BY <1>2, <1>4 DEF IsFreeList, c
    <2>3. n # 1 => u[1] = s[1 + 1]
      BY <1>3, <1>8
    <2>4. QED
      BY <2>1, <2>2, <2>3
  <1>13. ASSUME NEW i \in 1 .. n - 1
         PROVE  next_free'[u[i]] = IF i = n - 1 THEN End ELSE u[i + 1]
    <2>1. u[i] = s[i + 1] /\ i + 1 \in 1 .. n /\ s[i + 1] # c /\ s[i + 1] \in Slot
      BY <1>8, <1>9
    <2>2. next_free'[u[i]] = next_free[s[i + 1]]
      BY <1>6, <2>1 DEF Take, TypeOK
    <2>3. next_free[s[i + 1]] = IF i + 1 = n THEN End ELSE s[(i + 1) + 1]
      BY <1>2, <2>1 DEF IsFreeList
    <2>4. i # n - 1 => u[i + 1] = s[(i + 1) + 1]
      BY <1>8
    <2>5. QED
      BY <2>2, <2>3, <2>4
  <1>14. IsFreeList(n - 1, u)'
    BY <1>10, <1>11, <1>12, <1>13 DEF IsFreeList
  <1>15. quits = 0 /\ ~refused'
    BY <1>6 DEF LInv
  <1>16. QED
    BY <1>7, <1>8, <1>14, <1>15 DEF LInv

LEMMA ListStep == TypeOK /\ LInv /\ [Next]_vars => LInv'
  <1> SUFFICES ASSUME TypeOK, LInv, [Next]_vars, quits' = 0 PROVE LInv'
    BY DEF LInv
  <1>1. quits = 0
    BY DEF Next, Accept, BatchDone, Disconnect, Recv, CloseOwn, ClosePeer, QuitAgain, vars, TypeOK
  <1>2. CASE Accept
    BY <1>1, <1>2, ListTake
  <1>3. ASSUME NEW c \in Slot, Disconnect(c) \/ CloseOwn(c) \/ ClosePeer(c) PROVE LInv'
    BY <1>1, <1>3, ListClose DEF Disconnect, CloseOwn, ClosePeer
  <1>4. ASSUME UNCHANGED <<pool, quits, refused>> PROVE LInv'
    BY <1>4 DEF pool, LInv, IsFreeList
  <1>5. ASSUME NEW c \in Slot, QuitAgain(c) PROVE FALSE
    BY <1>1, <1>5 DEF QuitAgain
  <1>6. QED
    BY <1>2, <1>3, <1>4, <1>5 DEF Next, BatchDone, Recv, vars

LEMMA ListInvariant == Spec => []LInv
  BY ListInit, ListStep, TypeCorrect, PTL DEF Spec

\* The free list is exactly the free slots, each once, and g_num_connect
\* counts the others, for every MAX_CONNECT, until a packet quits twice.
THEOREM FreeListExact == Spec => []PoolExact
  <1>1. LInv => PoolExact
    BY DEF LInv, PoolExact
  <1>2. QED
    BY <1>1, ListInvariant, PTL

\* Until then handle_newconnect's "this never run!" is right: a socket that
\* is accepted below the limit finds a connection.
THEOREM SlotBelowLimit == Spec => []AlwaysSlot
  <1>1. LInv => AlwaysSlot
    BY DEF LInv, AlwaysSlot
  <1>2. QED
    BY <1>1, ListInvariant, PTL
----------------------------------------------------------------------------
(* The descriptors                                                         *)

\* OwnSocket, with what one quit too many uses up: until then no connection
\* has descriptor 0, the one a cleared connection seems to have.
SInv == quits <= 1 =>
          /\ \A c \in InUse : conn_fd[c] \in open
          /\ \A c, d \in InUse : conn_fd[c] = conn_fd[d] => c = d
          /\ \A c \in Free : conn_fd[c] = Stdin
          /\ quits = 0 => Stdin \in open /\ \A c \in InUse : conn_fd[c] # Stdin

\* Closing a slot in use closes its own descriptor and no other.
LEMMA SocketClose ==
    ASSUME TypeOK, SInv, NEW c \in Slot, state[c] # "STATE_FREE", Close(c), quits' = quits
    PROVE  SInv'
  <1> SUFFICES ASSUME quits <= 1 PROVE SInv'
    BY DEF SInv
  <1>1. c \in InUse /\ InUse' = InUse \ {c} /\ Free' = Free \cup {c}
    BY DEF InUse, Free, Close, TypeOK
  <1>2. \A d \in Slot : conn_fd'[d] = IF d = c THEN 0 ELSE conn_fd[d]
    BY DEF Close, TypeOK
  <1>3. open' = open \ {conn_fd[c]}
    BY DEF Close
  <1>4. \A d \in InUse' : d \in Slot /\ conn_fd'[d] = conn_fd[d] /\ conn_fd[d] # conn_fd[c]
    BY <1>1, <1>2 DEF SInv, InUse
  <1>5. \A d \in InUse' : conn_fd'[d] \in open'
    BY <1>1, <1>3, <1>4 DEF SInv
  <1>6. \A d, e \in InUse' : conn_fd'[d] = conn_fd'[e] => d = e
    BY <1>1, <1>4 DEF SInv
  <1>7. \A d \in Free' : conn_fd'[d] = Stdin
    BY <1>1, <1>2 DEF SInv, Free, Stdin
  <1>8. quits' = 0 => Stdin \in open' /\ \A d \in InUse' : conn_fd'[d] # Stdin
    BY <1>1, <1>3, <1>4 DEF SInv
  <1>9. QED
    BY <1>5, <1>6, <1>7, <1>8 DEF SInv

\* A slot that is taken was free, and its descriptor is nobody's.
LEMMA SocketAccept ==
    ASSUME TypeOK, SInv, Accept
    PROVE  SInv'
  <1>1. quits' = quits
    BY DEF Accept
  <1> SUFFICES ASSUME quits <= 1 PROVE SInv'
    BY <1>1 DEF SInv
  <1>2. PICK f \in Lowest(Fd \ open) :
            /\ open' = open \cup {f}
            /\ IF Chosen = {}
               THEN UNCHANGED <<state, conn_fd, next_free, g_free_connect, g_num_connect>>
               ELSE \E c \in Chosen : Take(c, f)
    BY DEF Accept
  <1>3. f \notin open
    BY DEF Lowest
  <1>4. CASE Chosen = {}
    BY <1>1, <1>2, <1>4 DEF SInv, InUse, Free
  <1>5. CASE Chosen # {}
    <2>1. PICK c \in Chosen : Take(c, f)
      BY <1>2, <1>5
    <2>2. c \in Free
      BY DEF Chosen, Lowest, Free
    <2>3. c \in Slot /\ InUse' = InUse \cup {c} /\ Free' = Free \ {c}
      BY <2>1, <2>2 DEF InUse, Free, Take, TypeOK
    <2>4. \A d \in Slot : conn_fd'[d] = IF d = c THEN f ELSE conn_fd[d]
      BY <2>1, <2>3 DEF Take, TypeOK
    <2>5. \A d \in InUse : d \in Slot /\ d # c /\ conn_fd'[d] = conn_fd[d]
                           /\ conn_fd[d] \in open /\ conn_fd[d] # f
      BY <1>3, <2>2, <2>4 DEF SInv, InUse
    <2>6. conn_fd'[c] = f
      BY <2>3, <2>4
    <2>7. \A d \in InUse' : conn_fd'[d] \in open'
      BY <1>2, <2>3, <2>5, <2>6
    <2>8. \A d, e \in InUse' : conn_fd'[d] = conn_fd'[e] => d = e
      BY <2>3, <2>5, <2>6 DEF SInv
    <2>9. \A d \in Free' : conn_fd'[d] = Stdin
      BY <2>3, <2>4 DEF SInv, Free
    <2>10. quits' = 0 => Stdin \in open' /\ \A d \in InUse' : conn_fd'[d] # Stdin
      BY <1>1, <1>2, <1>3, <2>3, <2>5, <2>6 DEF SInv
    <2>11. QED
      BY <2>7, <2>8, <2>9, <2>10 DEF SInv
  <1>6. QED
    BY <1>4, <1>5

\* The first quit too many closes descriptor 0, which is no connection's.
LEMMA SocketQuit ==
    ASSUME TypeOK, SInv, NEW c \in Slot, QuitAgain(c)
    PROVE  SInv'
  <1>1. quits' = quits + 1 /\ quits \in Nat /\ state[c] = "STATE_FREE" /\ Close(c)
    BY DEF QuitAgain, TypeOK
  <1> SUFFICES ASSUME quits = 0 PROVE SInv'
    BY <1>1 DEF SInv
  <1>2. c \in Free /\ InUse' = InUse /\ Free' = Free
    BY <1>1 DEF InUse, Free, Close, TypeOK
  <1>3. \A d \in Slot : conn_fd'[d] = conn_fd[d]
    BY <1>1, <1>2 DEF SInv, Close, TypeOK, Stdin
  <1>4. open' = open \ {Stdin}
    BY <1>1, <1>2 DEF SInv, Close
  <1>5. InUse \subseteq Slot /\ Free \subseteq Slot
    BY DEF InUse, Free
  <1>6. QED
    BY <1>1, <1>2, <1>3, <1>4, <1>5 DEF SInv

LEMMA SocketStep == TypeOK /\ SInv /\ [Next]_vars => SInv'
  <1> SUFFICES ASSUME TypeOK, SInv, [Next]_vars PROVE SInv'
    OBVIOUS
  <1>1. ASSUME NEW c \in Slot, Disconnect(c) \/ CloseOwn(c) \/ ClosePeer(c) PROVE SInv'
    BY <1>1, SocketClose DEF Disconnect, CloseOwn, ClosePeer
  <1>2. ASSUME UNCHANGED <<pool, quits>> PROVE SInv'
    BY <1>2 DEF pool, SInv, InUse, Free
  <1>3. QED
    BY <1>1, <1>2, SocketAccept, SocketQuit DEF Next, BatchDone, Recv, vars

\* Two connections never share a descriptor and theirs are open, for every
\* MAX_CONNECT, even after one quit too many.
THEOREM SocketsOwned == Spec => []OwnSocket
  <1>1. Init => SInv
    BY DEF Init, SInv, InUse, Free, Stdin
  <1>2. SInv => OwnSocket
    BY DEF SInv, OwnSocket
  <1>3. QED
    BY <1>1, <1>2, SocketStep, TypeCorrect, PTL DEF Spec
=============================================================================
