--------------------------- MODULE ChallengeProofs ---------------------------
(***************************************************************************)
(* Proofs about the ranking challenge for any users, workers and rooms:    *)
(* type correctness, nobody is in two open challenges, a challenge is      *)
(* answered once, and the ranking never holds a rank twice.                *)
(***************************************************************************)
EXTENDS Challenge, SequenceTheorems, FiniteSetTheorems, TLAPS

----------------------------------------------------------------------------
(* A sequence without one of its places.                                   *)

\* The elements of a concatenation.
LEMMA JoinType ==
    ASSUME NEW S, NEW u \in Seq(S), NEW v \in Seq(S)
    PROVE  u \o v \in Seq(S) /\ Len(u \o v) = Len(u) + Len(v)
  OBVIOUS

LEMMA JoinAt ==
    ASSUME NEW S, NEW u \in Seq(S), NEW v \in Seq(S), NEW j \in 1 .. Len(u) + Len(v)
    PROVE  (u \o v)[j] = IF j <= Len(u) THEN u[j] ELSE v[j - Len(u)]
  OBVIOUS

\* A function on 1 .. n is a sequence.
LEMMA FcnIsSeq ==
    ASSUME NEW S, NEW n \in Nat, NEW f \in [1 .. n -> S]
    PROVE  f \in Seq(S) /\ Len(f) = n
  OBVIOUS

\* Earlier elements keep their place, later ones move up.
LEMMA RemovePlace ==
    ASSUME NEW S, NEW s \in Seq(S), NEW i \in 1 .. Len(s)
    PROVE  /\ RemoveAt(s, i) \in Seq(S)
           /\ Len(RemoveAt(s, i)) = Len(s) - 1
           /\ \A j \in 1 .. i - 1 : RemoveAt(s, i)[j] = s[j]
           /\ \A j \in i .. Len(s) - 1 : RemoveAt(s, i)[j] = s[j + 1]
  <1>1. /\ SubSeq(s, 1, i - 1) \in Seq(S) /\ Len(SubSeq(s, 1, i - 1)) = i - 1
        /\ \A j \in 1 .. i - 1 : SubSeq(s, 1, i - 1)[j] = s[j]
    BY SubSeqProperties
  <1>2. /\ SubSeq(s, i + 1, Len(s)) \in Seq(S) /\ Len(SubSeq(s, i + 1, Len(s))) = Len(s) - i
        /\ \A j \in 1 .. Len(s) - i : SubSeq(s, i + 1, Len(s))[j] = s[j + i]
    BY SubSeqProperties
  <1>3. PICK u \in Seq(S), v \in Seq(S) :
           /\ RemoveAt(s, i) = u \o v
           /\ Len(u) = i - 1 /\ \A j \in 1 .. i - 1 : u[j] = s[j]
           /\ Len(v) = Len(s) - i /\ \A j \in 1 .. Len(s) - i : v[j] = s[j + i]
    <2> WITNESS SubSeq(s, 1, i - 1) \in Seq(S), SubSeq(s, i + 1, Len(s)) \in Seq(S)
    <2> QED
      BY <1>1, <1>2, Zenon DEF RemoveAt
  <1>4. u \o v \in Seq(S) /\ Len(u \o v) = Len(u) + Len(v)
    BY JoinType
  <1>5. Len(s) \in Nat /\ Len(u) = i - 1 /\ Len(v) = Len(s) - i /\ i \in 1 .. Len(s)
    BY <1>3
  <1>6. Len(u) + Len(v) = Len(s) - 1
    BY <1>5
  <1>7. ASSUME NEW j \in 1 .. i - 1 PROVE (u \o v)[j] = s[j]
    <2>1. j \in 1 .. Len(u) + Len(v) /\ j <= Len(u)
      BY <1>5
    <2>2. (u \o v)[j] = u[j]
      BY <2>1, JoinAt
    <2>3. u[j] = s[j]
      BY <1>3
    <2>4. QED
      BY <2>2, <2>3
  <1>8. ASSUME NEW j \in i .. Len(s) - 1 PROVE (u \o v)[j] = s[j + 1]
    <2>1. j \in 1 .. Len(u) + Len(v) /\ ~(j <= Len(u)) /\ j - Len(u) \in 1 .. Len(s) - i
      BY <1>5
    <2>2. (u \o v)[j] = v[j - Len(u)]
      BY <2>1, JoinAt
    <2>3. v[j - Len(u)] = s[j - Len(u) + i]
      BY <1>3, <2>1
    <2>4. j - Len(u) + i = j + 1
      BY <1>5
    <2>5. QED
      BY <2>2, <2>3, <2>4
  <1>9. RemoveAt(s, i) = u \o v
    BY <1>3
  <1>10. QED
    BY <1>4, <1>6, <1>7, <1>8, <1>9, Zenon

\* M is the list of pairs L without its pair n.
Without(M, L, n) ==
    /\ M \in Seq(Pair) /\ Len(M) = Len(L) - 1
    /\ \A j \in 1 .. n - 1 : M[j] = L[j]
    /\ \A j \in n .. Len(L) - 1 : M[j] = L[j + 1]

\* RemovePlace, for the list of pairs.
LEMMA RemovePair ==
    ASSUME NEW L \in Seq(Pair), NEW n \in 1 .. Len(L), NEW M
    PROVE  M = RemoveAt(L, n) => Without(M, L, n)
  <1>1. RemoveAt(L, n) \in Seq(Pair)
    BY RemovePlace
  <1>2. Len(RemoveAt(L, n)) = Len(L) - 1
    BY RemovePlace
  <1>3. \A j \in 1 .. n - 1 : RemoveAt(L, n)[j] = L[j]
    BY RemovePlace
  <1>4. \A j \in n .. Len(L) - 1 : RemoveAt(L, n)[j] = L[j + 1]
    BY RemovePlace
  <1>5. QED
    BY <1>1, <1>2, <1>3, <1>4, Zenon DEF Without

----------------------------------------------------------------------------
(* What the parts of the actions do to the types.                          *)

USE ChallengeAssumption

\* A request is appended to a queue of a worker.
LEMMA WriteType ==
    ASSUME TypeOK, NEW th \in Thread, NEW q \in Request, DbinWrite(th, q)
    PROVE  queue' \in [Thread -> Seq(Request)] /\ busy' \in [Player -> BOOLEAN]
  <1>1. Append(queue[th], q) \in Seq(Request)
    BY DEF TypeOK
  <1>2. queue' \in [Thread -> Seq(Request)]
    BY <1>1 DEF DbinWrite, TypeOK
  <1>3. busy' \in [Player -> BOOLEAN]
    BY DEF DbinWrite, TypeOK
  <1>4. QED
    BY <1>2, <1>3

\* The oldest request of a worker is taken.
LEMMA DboutType ==
    ASSUME TypeOK, NEW th \in Thread, queue[th] # <<>>, Dbout(th)
    PROVE  /\ queue' \in [Thread -> Seq(Request)] /\ busy' \in [Player -> BOOLEAN]
           /\ Head(queue[th]) \in Request
  <1>1. Tail(queue[th]) \in Seq(Request) /\ Head(queue[th]) \in Request
    BY DEF TypeOK
  <1>2. queue' \in [Thread -> Seq(Request)]
    BY <1>1 DEF Dbout, TypeOK
  <1>3. busy' \in [Player -> BOOLEAN]
    BY DEF Dbout, TypeOK
  <1>4. QED
    BY <1>1, <1>2, <1>3

\* A worker gets on with a request.
LEMMA StepType ==
    ASSUME TypeOK, NEW th \in Thread, NEW i \in 1 .. Len(queue[th]),
           NEW at \in {"new", "read", "swapped", "done"}, NEW good \in BOOLEAN,
           Step(th, i, at, good)
    PROVE  queue' \in [Thread -> Seq(Request)]
  <1> DEFINE s == [queue[th] EXCEPT ![i] = [@ EXCEPT !.at = at, !.good = good]]
  <1>1. queue[th] \in Seq(Request) /\ queue[th][i] \in Request
    BY DEF TypeOK
  <1>2. [queue[th][i] EXCEPT !.at = at, !.good = good] \in Request
    BY <1>1 DEF Request
  <1>3. s \in Seq(Request)
    BY <1>1, <1>2
  <1>4. queue' = [queue EXCEPT ![th] = s]
    BY <1>1 DEF Step, TypeOK
  <1>5. QED
    BY <1>3, <1>4 DEF TypeOK

\* A ranking room is made, or seats are cleared.
LEMMA RoomType ==
    ASSUME TypeOK, NEW r \in FreeRooms, NEW c \in Player, NEW b \in Player,
           NEW clone \in BOOLEAN, NEW ok \in BOOLEAN, CreateRankRoom(r, c, b, clone, ok)
    PROVE  /\ seat' \in [Player -> RoomId \cup {NoRoom, Elsewhere}]
           /\ cloneSeat' \in [Player -> RoomId \cup {NoRoom}]
           /\ game' \in [RoomId -> {NoGame} \cup (Player \X Player \X BOOLEAN)]
  <1> DEFINE to == IF ok THEN r ELSE NoRoom
             s == [seat EXCEPT ![c] = to]
  <1>1. r \in RoomId
    BY DEF FreeRooms
  <1>2. to \in RoomId \cup {NoRoom}
    BY <1>1
  <1>3. s \in [Player -> RoomId \cup {NoRoom, Elsewhere}]
    BY <1>2 DEF TypeOK
  <1>4. seat' \in [Player -> RoomId \cup {NoRoom, Elsewhere}]
    BY <1>2, <1>3 DEF CreateRankRoom
  <1>5. cloneSeat' \in [Player -> RoomId \cup {NoRoom}]
    BY <1>2 DEF CreateRankRoom, TypeOK
  <1>6. game' \in [RoomId -> {NoGame} \cup (Player \X Player \X BOOLEAN)]
    BY <1>1 DEF CreateRankRoom, TypeOK
  <1>7. QED
    BY <1>4, <1>5, <1>6

\* A game is given back.
LEMMA GameParts ==
    ASSUME TypeOK, NEW r \in RoomId, game[r] # NoGame
    PROVE  game[r][1] \in Player /\ game[r][2] \in Player /\ game[r][3] \in BOOLEAN
  <1>1. game[r] \in Player \X Player \X BOOLEAN
    BY DEF TypeOK
  <1>2. QED
    BY <1>1

----------------------------------------------------------------------------
(* Type correctness.                                                       *)

\* Requests that users send, and the timer's, are requests.
LEMMA NewRequestType ==
    ASSUME NEW cmd \in {"rgame", "rresp", "win"}, NEW by \in Player \cup {NoOne},
           NEW e \in Player, NEW f \in Player, NEW arg \in 0 .. 2
    PROVE  NewRequest(cmd, by, e, f, arg) \in Request
  BY DEF NewRequest, Request

\* Each worker's step keeps the types.
LEMMA WorkType ==
    ASSUME TypeOK, NEW th \in Thread, Work(th)
    PROVE  TypeOK'
  <1>1. PICK i \in 1 .. Len(queue[th]) :
           \/ ReadRanks(th, i)
           \/ \E ok \in BOOLEAN : \/ InCheckRankingTarget(th, i, ok)
                                  \/ InRankingChallenge(th, i, ok)
                                  \/ ExchangeRanking(th, i, ok)
                                  \/ SubRankTime(th, i, ok)
    BY DEF Work, InChangeRankingData
  <1>2. queue[th][i] \in Request
    BY DEF TypeOK
  <1>3. queue[th][i].a \in Player /\ queue[th][i].b \in Player
    BY <1>2 DEF Request
  <1>4. CASE ReadRanks(th, i)
    <2>1. queue' \in [Thread -> Seq(Request)]
      BY <1>4, StepType DEF ReadRanks
    <2>2. QED
      BY <1>4, <2>1 DEF ReadRanks, TypeOK
  <1>5. ASSUME NEW ok \in BOOLEAN, InCheckRankingTarget(th, i, ok) PROVE TypeOK'
    <2>1. PICK good \in BOOLEAN : Step(th, i, "done", good)
      BY <1>5 DEF InCheckRankingTarget, InRangeList
    <2>2. queue' \in [Thread -> Seq(Request)]
      BY <2>1, StepType
    <2>3. QED
      BY <1>5, <2>2 DEF InCheckRankingTarget, TypeOK
  <1>6. ASSUME NEW ok \in BOOLEAN, InRankingChallenge(th, i, ok) PROVE TypeOK'
    <2>1. PICK good \in BOOLEAN : Step(th, i, "done", good)
      BY <1>6 DEF InRankingChallenge
    <2>2. queue' \in [Thread -> Seq(Request)]
      BY <2>1, StepType
    <2>3. QED
      BY <1>6, <2>2 DEF InRankingChallenge, TypeOK
  <1>7. ASSUME NEW ok \in BOOLEAN, ExchangeRanking(th, i, ok) PROVE TypeOK'
    <2>1. queue' \in [Thread -> Seq(Request)]
      BY <1>7, StepType DEF ExchangeRanking
    <2>2. rank' \in [Player -> 1 .. Cardinality(Player)]
      BY <1>3, <1>7 DEF ExchangeRanking, TypeOK
    <2>3. QED
      BY <1>7, <2>1, <2>2 DEF ExchangeRanking, TypeOK
  <1>8. ASSUME NEW ok \in BOOLEAN, SubRankTime(th, i, ok) PROVE TypeOK'
    <2>1. queue' \in [Thread -> Seq(Request)]
      BY <1>8, StepType DEF SubRankTime
    <2> DEFINE e == queue[th][i].a
    <2> SUFFICES rank_time' \in [Player -> 0 .. MAX_RANKING_CHALLENGE_TIME]
      BY <1>8, <2>1 DEF SubRankTime, TypeOK
    <2>2. rank_time[e] \in 0 .. MAX_RANKING_CHALLENGE_TIME /\ MAX_RANKING_CHALLENGE_TIME \in Nat
      BY <1>3 DEF TypeOK
    <2>3. rank_time[e] > 0 => rank_time[e] - 1 \in 0 .. MAX_RANKING_CHALLENGE_TIME
      BY <2>2
    <2>4. CASE ok /\ rank_time[e] > 0
      <3>1. rank_time' = [rank_time EXCEPT ![e] = @ - 1]
        BY <1>8, <2>4 DEF SubRankTime
      <3>2. QED
        BY <2>3, <2>4, <3>1 DEF TypeOK
    <2>5. CASE ~(ok /\ rank_time[e] > 0)
      BY <1>8, <2>5 DEF SubRankTime, TypeOK
    <2>6. QED
      BY <2>4, <2>5
  <1>9. QED
    BY <1>1, <1>4, <1>5, <1>6, <1>7, <1>8

\* Each reply keeps the types.
LEMMA OutType ==
    ASSUME TypeOK, NEW th \in Thread, Out(th)
    PROVE  TypeOK'
  <1>1. queue[th] # <<>>
    BY DEF Out
  <1>2. Head(queue[th]) \in Request
    BY <1>1 DEF TypeOK
  <1>3. Head(queue[th]).a \in Player /\ Head(queue[th]).b \in Player
    BY <1>2 DEF Request
  <1>4. ASSUME NEW same \in BOOLEAN, NEW ok \in BOOLEAN, OutRankingGame(th, same, ok) PROVE TypeOK'
    <2> DEFINE q == Head(queue[th])
    <2>1. queue' \in [Thread -> Seq(Request)] /\ busy' \in [Player -> BOOLEAN]
      BY <1>1, <1>4, DboutType DEF OutRankingGame
    <2>2. [c |-> q.a, r |-> q.b, status |-> WAITING] \in Pair
      BY <1>3 DEF Pair
    <2>3. pairs' \in Seq(Pair)
      BY <1>4, <2>2 DEF OutRankingGame, TypeOK
    <2>4. /\ seat' \in [Player -> RoomId \cup {NoRoom, Elsewhere}]
          /\ cloneSeat' \in [Player -> RoomId \cup {NoRoom}]
          /\ game' \in [RoomId -> {NoGame} \cup (Player \X Player \X BOOLEAN)]
      <3>1. CASE UNCHANGED <<game, seat, cloneSeat>>
        BY <3>1 DEF TypeOK
      <3>2. ASSUME NEW r \in FreeRooms, CreateRankRoom(r, q.a, q.b, TRUE, ok)
            PROVE  /\ seat' \in [Player -> RoomId \cup {NoRoom, Elsewhere}]
                   /\ cloneSeat' \in [Player -> RoomId \cup {NoRoom}]
                   /\ game' \in [RoomId -> {NoGame} \cup (Player \X Player \X BOOLEAN)]
        <4>1. (TRUE) \in BOOLEAN
          OBVIOUS
        <4>2. q.a \in Player /\ q.b \in Player
          BY <1>3
        <4>3. PICK clone \in BOOLEAN : CreateRankRoom(r, q.a, q.b, clone, ok)
          BY <3>2, <4>1, Zenon
        <4>4. QED
          BY <4>2, <4>3, RoomType
      <3>3. QED
        BY <1>4, <3>1, <3>2 DEF OutRankingGame
    <2>5. QED
      BY <1>4, <2>1, <2>3, <2>4 DEF OutRankingGame, TypeOK
  <1>5. ASSUME NEW ok \in BOOLEAN, OutRespRankingChallenge(th, ok) PROVE TypeOK'
    <2> DEFINE q == Head(queue[th])
    <2>1. queue' \in [Thread -> Seq(Request)] /\ busy' \in [Player -> BOOLEAN]
      BY <1>1, <1>5, DboutType DEF OutRespRankingChallenge
    <2>2. pairs' \in Seq(Pair)
      <3>1. CASE UNCHANGED pairs
        BY <3>1 DEF TypeOK
      <3>2. ASSUME NEW i \in 1 .. Len(pairs), pairs' = RemoveAt(pairs, i) PROVE pairs' \in Seq(Pair)
        BY <3>2, RemovePlace DEF TypeOK
      <3>3. QED
        BY <1>5, <3>1, <3>2 DEF OutRespRankingChallenge
    <2>3. /\ seat' \in [Player -> RoomId \cup {NoRoom, Elsewhere}]
          /\ cloneSeat' \in [Player -> RoomId \cup {NoRoom}]
          /\ game' \in [RoomId -> {NoGame} \cup (Player \X Player \X BOOLEAN)]
      <3>1. CASE UNCHANGED <<game, seat, cloneSeat>>
        BY <3>1 DEF TypeOK
      <3>2. ASSUME NEW r \in FreeRooms, CreateRankRoom(r, q.b, q.a, q.arg # ACCEPT, ok)
            PROVE  /\ seat' \in [Player -> RoomId \cup {NoRoom, Elsewhere}]
                   /\ cloneSeat' \in [Player -> RoomId \cup {NoRoom}]
                   /\ game' \in [RoomId -> {NoGame} \cup (Player \X Player \X BOOLEAN)]
        <4>1. (q.arg # ACCEPT) \in BOOLEAN
          OBVIOUS
        <4>2. q.a \in Player /\ q.b \in Player
          BY <1>3
        <4>3. PICK clone \in BOOLEAN : CreateRankRoom(r, q.b, q.a, clone, ok)
          BY <3>2, <4>1, Zenon
        <4>4. QED
          BY <4>2, <4>3, RoomType
      <3>3. QED
        BY <1>5, <3>1, <3>2 DEF OutRespRankingChallenge
    <2>4. QED
      BY <1>5, <2>1, <2>2, <2>3 DEF OutRespRankingChallenge, TypeOK
  <1>6. CASE OutWin(th)
    <2>1. queue' \in [Thread -> Seq(Request)] /\ busy' \in [Player -> BOOLEAN]
      BY <1>1, <1>6, DboutType DEF OutWin
    <2>2. QED
      BY <1>6, <2>1 DEF OutWin, TypeOK
  <1>7. QED
    BY <1>4, <1>5, <1>6 DEF Out

\* The timer keeps the types.
LEMMA AutoRespType ==
    ASSUME TypeOK, AutoResp
    PROVE  TypeOK'
  <1>0. PICK k \in 1 .. Len(pairs) :
           \E to \in [Thread -> UNION {[1 .. n -> 1 .. k] : n \in 0 .. k}] : AutoRankingChallengeResp(k, to)
    BY DEF AutoResp
  <1>1. PICK to \in [Thread -> UNION {[1 .. n -> 1 .. k] : n \in 0 .. k}] : AutoRankingChallengeResp(k, to)
    BY <1>0
  <1>2. \A j \in 1 .. Len(pairs) : pairs[j] \in Pair
    BY DEF TypeOK
  <1>3. pairs' \in Seq(Pair)
    <2> DEFINE late == {i \in 1 .. k : pairs[i].status = WAITING}
    <2>1. pairs' = [i \in 1 .. Len(pairs) |->
                      IF i \in late THEN [pairs[i] EXCEPT !.status = REFUSE] ELSE pairs[i]]
      BY <1>1 DEF AutoRankingChallengeResp
    <2>2. \A i \in 1 .. Len(pairs) : [pairs[i] EXCEPT !.status = REFUSE] \in Pair
      BY <1>2 DEF Pair
    <2>3. Len(pairs) \in Nat
      BY DEF TypeOK
    <2>4. pairs' \in [1 .. Len(pairs) -> Pair]
      BY <1>2, <2>1, <2>2
    <2>5. QED
      BY <2>3, <2>4, FcnIsSeq
  <1>4. ASSUME NEW th \in Thread
        PROVE  queue[th] \o [n \in 1 .. Len(to[th]) |->
                  NewRequest("rresp", NoOne, pairs[to[th][n]].r, pairs[to[th][n]].c, 0)] \in Seq(Request)
    <2> DEFINE new == [n \in 1 .. Len(to[th]) |->
                  NewRequest("rresp", NoOne, pairs[to[th][n]].r, pairs[to[th][n]].c, 0)]
    <2>1. to[th] \in UNION {[1 .. n -> 1 .. k] : n \in 0 .. k}
      OBVIOUS
    <2>2. PICK m \in 0 .. k : to[th] \in [1 .. m -> 1 .. k]
      BY <2>1
    <2>3. Len(to[th]) = m /\ m \in Nat
      BY <2>2, FcnIsSeq
    <2>4. ASSUME NEW n \in 1 .. Len(to[th])
          PROVE  NewRequest("rresp", NoOne, pairs[to[th][n]].r, pairs[to[th][n]].c, 0) \in Request
      <3>1. to[th][n] \in 1 .. Len(pairs)
        BY <2>2, <2>3 DEF TypeOK
      <3>2. pairs[to[th][n]].r \in Player /\ pairs[to[th][n]].c \in Player
        BY <1>2, <3>1 DEF Pair
      <3>3. QED
        BY <3>2 DEF NewRequest, Request
    <2>5. new \in [1 .. m -> Request]
      BY <2>3, <2>4
    <2>6. new \in Seq(Request)
      BY <2>3, <2>5, FcnIsSeq
    <2>7. QED
      BY <2>6, JoinType DEF TypeOK
  <1>5. queue' \in [Thread -> Seq(Request)]
    BY <1>1, <1>4 DEF AutoRankingChallengeResp
  <1>6. QED
    BY <1>1, <1>3, <1>5 DEF AutoRankingChallengeResp, TypeOK

\* What users send keeps the types.
LEMMA RgameType ==
    ASSUME TypeOK, NEW e \in Player, NEW f \in Player, DbinRankingGame(e, f)
    PROVE  TypeOK'
  <1>1. NewRequest("rgame", e, e, f, 0) \in Request /\ ThreadOf[e] \in Thread
    BY DEF NewRequest, Request
  <1>2. queue' \in [Thread -> Seq(Request)] /\ busy' \in [Player -> BOOLEAN]
    BY <1>1, WriteType DEF DbinRankingGame
  <1>3. QED
    BY <1>2 DEF DbinRankingGame, TypeOK

LEMMA RespType ==
    ASSUME TypeOK, NEW i \in 1 .. Len(pairs), NEW e \in Player, NEW c \in Player,
           NEW resp \in {ACCEPT, REFUSE}, DbinRespRankingGame(i, e, c, resp)
    PROVE  TypeOK'
  <1>1. NewRequest("rresp", e, e, c, resp) \in Request /\ ThreadOf[e] \in Thread
    BY DEF NewRequest, Request, ACCEPT, REFUSE
  <1>2. queue' \in [Thread -> Seq(Request)] /\ busy' \in [Player -> BOOLEAN]
    BY <1>1, WriteType DEF DbinRespRankingGame
  <1>3. pairs[i] \in Pair
    BY DEF TypeOK
  <1>4. [pairs[i] EXCEPT !.status = resp] \in Pair
    BY <1>3 DEF Pair
  <1>5. pairs' = [pairs EXCEPT ![i] = [pairs[i] EXCEPT !.status = resp]]
    BY DEF DbinRespRankingGame
  <1>6. pairs' \in Seq(Pair)
    BY <1>4, <1>5 DEF TypeOK
  <1>7. QED
    BY <1>2, <1>6 DEF DbinRespRankingGame, TypeOK

LEMMA CancelType ==
    ASSUME TypeOK, NEW i \in 1 .. Len(pairs), NEW e \in Player, CancelRankingGame(i, e)
    PROVE  TypeOK'
  <1>1. pairs' \in Seq(Pair)
    BY RemovePlace DEF CancelRankingGame, TypeOK
  <1>2. QED
    BY <1>1 DEF CancelRankingGame, TypeOK

\* A game ends.
LEMMA WinType ==
    ASSUME TypeOK, NEW r \in RoomId, NEW winner \in {1, 2}, NEW by \in Player \cup {NoOne},
           NEW th \in Thread, WinGame(r, winner, by, th)
    PROVE  TypeOK'
  <1>1. game[r][1] \in Player /\ game[r][2] \in Player /\ game[r][3] \in BOOLEAN
    BY GameParts DEF WinGame
  <1>2. NewRequest("win", by, game[r][1], game[r][2], winner) \in Request
    BY <1>1 DEF NewRequest, Request
  <1>3. DbinWrite(th, NewRequest("win", by, game[r][1], game[r][2], winner))
    BY DEF WinGame
  <1>4. queue' \in [Thread -> Seq(Request)] /\ busy' \in [Player -> BOOLEAN]
    BY <1>2, <1>3, WriteType
  <1>5. game' \in [RoomId -> {NoGame} \cup (Player \X Player \X BOOLEAN)]
    BY DEF WinGame, TypeOK
  <1>6. seat' \in [Player -> RoomId \cup {NoRoom, Elsewhere}]
    BY DEF WinGame, TypeOK
  <1>7. cloneSeat' \in [Player -> RoomId \cup {NoRoom}]
    BY <1>1 DEF WinGame, TypeOK
  <1>8. QED
    BY <1>4, <1>5, <1>6, <1>7 DEF WinGame, TypeOK

\* A user comes, goes, enters a room or leaves it.
LEMMA RoamType ==
    ASSUME TypeOK, NEW e \in Player, Login(e) \/ Disconnect(e) \/ Enter(e) \/ Leave(e)
    PROVE  TypeOK'
  <1>1. CASE Login(e)
    BY <1>1 DEF Login, TypeOK
  <1>2. CASE Disconnect(e)
    BY <1>2 DEF Disconnect, TypeOK
  <1>3. CASE Enter(e)
    BY <1>3 DEF Enter, TypeOK
  <1>4. CASE Leave(e)
    BY <1>4 DEF Leave, TypeOK
  <1>5. QED
    BY <1>1, <1>2, <1>3, <1>4

LEMMA TypeStep == TypeOK /\ [Next]_vars => TypeOK'
  <1> SUFFICES ASSUME TypeOK, [Next]_vars PROVE TypeOK'
    OBVIOUS
  <1>1. CASE \E w \in Wants : DbinRankingGame(w[1], w[2])
    <2>1. PICK w \in Wants : DbinRankingGame(w[1], w[2])
      BY <1>1
    <2>2. w[1] \in Player /\ w[2] \in Player
      OBVIOUS
    <2>3. QED
      BY <2>1, <2>2, RgameType
  <1>2. CASE \E i \in 1 .. Len(pairs), e, c \in Player : \E resp \in {ACCEPT, REFUSE} :
                DbinRespRankingGame(i, e, c, resp)
    BY <1>2, RespType
  <1>3. CASE \E i \in 1 .. Len(pairs), e \in Player : CancelRankingGame(i, e)
    BY <1>3, CancelType
  <1>4. CASE \E e \in Roaming : Login(e) \/ Disconnect(e) \/ Enter(e) \/ Leave(e)
    BY <1>4, RoamType
  <1>5. CASE AutoResp
    BY <1>5, AutoRespType
  <1>6. CASE \E th \in Thread : Work(th) \/ Out(th)
    BY <1>6, WorkType, OutType
  <1>7. CASE \E r \in RoomId : \E winner \in {1, 2} :
                \E by \in Player \cup {NoOne} : \E th \in Thread : WinGame(r, winner, by, th)
    BY <1>7, WinType
  <1>8. CASE UNCHANGED vars
    BY <1>8 DEF vars, TypeOK
  <1>9. QED
    BY <1>1, <1>2, <1>3, <1>4, <1>5, <1>6, <1>7, <1>8 DEF Next

LEMMA TypeInit == Init => TypeOK
  BY DEF Init, TypeOK

\* The tables of the code keep their shape, for any users, workers and rooms:
\* no request names a user that does not exist, and the count of challenges
\* left in a day never goes below 0 or above its limit.
THEOREM TypeCorrect == Spec => []TypeOK
  <1> QED
    BY TypeInit, TypeStep, PTL DEF Spec

----------------------------------------------------------------------------
(* The ranking.                                                            *)

\* Only __exchange_ranking() writes ranks.
LEMMA RankChange ==
    ASSUME TypeOK, [Next]_vars
    PROVE  \/ UNCHANGED rank
           \/ \E a, b \in Player : rank' = [rank EXCEPT ![a] = rank[b], ![b] = rank[a]]
  <1>1. CASE \E th \in Thread : Work(th)
    <2>1. PICK th \in Thread : Work(th)
      BY <1>1
    <2>2. PICK i \in 1 .. Len(queue[th]) :
             \/ ReadRanks(th, i)
             \/ \E ok \in BOOLEAN : \/ InCheckRankingTarget(th, i, ok)
                                    \/ InRankingChallenge(th, i, ok)
                                    \/ ExchangeRanking(th, i, ok)
                                    \/ SubRankTime(th, i, ok)
      BY <2>1 DEF Work, InChangeRankingData
    <2>3. ASSUME NEW ok \in BOOLEAN, ExchangeRanking(th, i, ok)
          PROVE  \/ UNCHANGED rank
                 \/ \E a, b \in Player : rank' = [rank EXCEPT ![a] = rank[b], ![b] = rank[a]]
      <3>1. queue[th][i] \in Request
        BY DEF TypeOK
      <3>2. queue[th][i].a \in Player /\ queue[th][i].b \in Player
        BY <3>1 DEF Request
      <3>3. QED
        BY <2>3, <3>2 DEF ExchangeRanking
    <2>4. (\E ok \in BOOLEAN : InCheckRankingTarget(th, i, ok) \/ InRankingChallenge(th, i, ok)
                               \/ SubRankTime(th, i, ok))
          \/ ReadRanks(th, i) => UNCHANGED rank
      BY DEF InCheckRankingTarget, InRankingChallenge, SubRankTime, ReadRanks
    <2>5. QED
      BY <2>2, <2>3, <2>4
  <1>2. CASE \E th \in Thread : Out(th)
    BY <1>2 DEF Out, OutRankingGame, OutRespRankingChallenge, OutWin
  <1>3. CASE AutoResp
    BY <1>3 DEF AutoResp, AutoRankingChallengeResp
  <1>4. CASE \E e \in Roaming : Login(e) \/ Disconnect(e) \/ Enter(e) \/ Leave(e)
    BY <1>4 DEF Login, Disconnect, Enter, Leave
  <1>5. CASE \/ \E w \in Wants : DbinRankingGame(w[1], w[2])
             \/ \E i \in 1 .. Len(pairs), e, c \in Player : \E resp \in {ACCEPT, REFUSE} :
                   DbinRespRankingGame(i, e, c, resp)
             \/ \E i \in 1 .. Len(pairs), e \in Player : CancelRankingGame(i, e)
    BY <1>5 DEF DbinRankingGame, DbinRespRankingGame, CancelRankingGame
  <1>6. CASE \E r \in RoomId : \E winner \in {1, 2} :
                \E by \in Player \cup {NoOne} : \E th \in Thread : WinGame(r, winner, by, th)
    BY <1>6 DEF WinGame
  <1>7. CASE UNCHANGED vars
    BY <1>7 DEF vars
  <1>8. QED
    BY <1>1, <1>2, <1>3, <1>4, <1>5, <1>6, <1>7 DEF Next

\* However the workers' queries interleave, and whichever of them fail, the
\* ranking never holds one rank twice: whoever takes a place gives its own.
THEOREM RanksStayDistinct == Spec => []RanksDistinct
  <1>1. Init => RanksDistinct
    BY DEF Init, RanksDistinct
  <1>2. TypeOK /\ RanksDistinct /\ [Next]_vars => RanksDistinct'
    <2> SUFFICES ASSUME TypeOK, RanksDistinct, [Next]_vars PROVE RanksDistinct'
      OBVIOUS
    <2>1. CASE UNCHANGED rank
      BY <2>1 DEF RanksDistinct
    <2>2. ASSUME NEW a \in Player, NEW b \in Player,
                 rank' = [rank EXCEPT ![a] = rank[b], ![b] = rank[a]]
          PROVE  RanksDistinct'
      <3>1. \A e \in Player : rank'[e] = IF e = b THEN rank[a] ELSE IF e = a THEN rank[b] ELSE rank[e]
        BY <2>2 DEF TypeOK
      <3>2. QED
        BY <3>1 DEF RanksDistinct
    <2>3. QED
      BY <2>1, <2>2, RankChange
  <1>3. QED
    BY <1>1, <1>2, TypeCorrect, PTL DEF Spec

----------------------------------------------------------------------------
(* The list of challenges.                                                 *)

\* A list of pairs whose waiting ones are waiting ones of the old list, and at
\* different places there, has no conflict the old list had not.
LEMMA FewerWait ==
    ASSUME TypeOK, OneChallengeEach, pairs' \in Seq(Pair),
           NEW from \in [1 .. Len(pairs') -> 1 .. Len(pairs)],
           \A i, j \in 1 .. Len(pairs') : from[i] = from[j] => i = j,
           \A i \in 1 .. Len(pairs') :
              pairs'[i].status = WAITING => pairs'[i] = pairs[from[i]]
    PROVE  OneChallengeEach'
  <1> SUFFICES ASSUME NEW i \in 1 .. Len(pairs'), NEW j \in 1 .. Len(pairs'), i # j,
                      pairs'[i].status = WAITING, pairs'[j].status = WAITING
               PROVE  {pairs'[i].c, pairs'[i].r} \cap {pairs'[j].c, pairs'[j].r} = {}
    BY DEF OneChallengeEach
  <1>1. from[i] \in 1 .. Len(pairs) /\ from[j] \in 1 .. Len(pairs) /\ from[i] # from[j]
    OBVIOUS
  <1>2. pairs'[i] = pairs[from[i]] /\ pairs'[j] = pairs[from[j]]
    OBVIOUS
  <1>3. QED
    BY <1>1, <1>2 DEF OneChallengeEach

\* A pair is taken from the list.
LEMMA RemoveOne ==
    ASSUME TypeOK, OneChallengeEach, NEW n \in 1 .. Len(pairs), pairs' = RemoveAt(pairs, n)
    PROVE  OneChallengeEach'
  <1>1. pairs \in Seq(Pair) /\ Len(pairs) \in Nat
    BY DEF TypeOK
  <1>2. /\ pairs' \in Seq(Pair) /\ Len(pairs') = Len(pairs) - 1
        /\ \A j \in 1 .. n - 1 : pairs'[j] = pairs[j]
        /\ \A j \in n .. Len(pairs) - 1 : pairs'[j] = pairs[j + 1]
    <2>1. ASSUME NEW s, s = pairs
          PROVE  /\ RemoveAt(s, n) \in Seq(Pair) /\ Len(RemoveAt(s, n)) = Len(s) - 1
                 /\ \A j \in 1 .. n - 1 : RemoveAt(s, n)[j] = s[j]
                 /\ \A j \in n .. Len(s) - 1 : RemoveAt(s, n)[j] = s[j + 1]
      <3>1. s \in Seq(Pair) /\ n \in 1 .. Len(s)
        BY <1>1, <2>1
      <3>2. RemoveAt(s, n) \in Seq(Pair)
        BY <3>1, RemovePlace
      <3>3. Len(RemoveAt(s, n)) = Len(s) - 1
        BY <3>1, RemovePlace
      <3>4. \A j \in 1 .. n - 1 : RemoveAt(s, n)[j] = s[j]
        BY <3>1, RemovePlace
      <3>5. \A j \in n .. Len(s) - 1 : RemoveAt(s, n)[j] = s[j + 1]
        BY <3>1, RemovePlace
      <3>6. QED
        BY <3>2, <3>3, <3>4, <3>5, Zenon
    <2>2. QED
      BY <2>1, Zenon
  <1> DEFINE from == [j \in 1 .. Len(pairs') |-> IF j < n THEN j ELSE j + 1]
  <1>3. from \in [1 .. Len(pairs') -> 1 .. Len(pairs)]
    BY <1>1, <1>2
  <1>4. \A i, j \in 1 .. Len(pairs') : from[i] = from[j] => i = j
    BY <1>1, <1>2
  <1>5. ASSUME NEW j \in 1 .. Len(pairs') PROVE pairs'[j] = pairs[from[j]]
    <2>1. CASE j < n
      BY <1>1, <1>2, <2>1
    <2>2. CASE ~(j < n)
      BY <1>1, <1>2, <2>2
    <2>3. QED
      BY <2>1, <2>2
  <1> HIDE DEF from
  <1>6. QED
    BY <1>2, <1>3, <1>4, <1>5, FewerWait

\* Pairs are answered, by whoever.
LEMMA Settle ==
    ASSUME TypeOK, OneChallengeEach, pairs' \in Seq(Pair), Len(pairs') = Len(pairs),
           \A i \in 1 .. Len(pairs) : pairs'[i].status = WAITING => pairs'[i] = pairs[i]
    PROVE  OneChallengeEach'
  <1> SUFFICES ASSUME NEW i \in 1 .. Len(pairs), NEW j \in 1 .. Len(pairs), i # j,
                      pairs'[i].status = WAITING, pairs'[j].status = WAITING
               PROVE  {pairs'[i].c, pairs'[i].r} \cap {pairs'[j].c, pairs'[j].r} = {}
    BY DEF OneChallengeEach
  <1>1. QED
    BY DEF OneChallengeEach

\* A pair of two that are free is added.
LEMMA AddFree ==
    ASSUME TypeOK, OneChallengeEach, NEW e \in Player, NEW t \in Player, MayChallenge(e, t),
           pairs' = Append(pairs, [c |-> e, r |-> t, status |-> WAITING])
    PROVE  OneChallengeEach'
  <1>1. pairs \in Seq(Pair) /\ Len(pairs) \in Nat
    BY DEF TypeOK
  <1>2. [c |-> e, r |-> t, status |-> WAITING] \in Pair
    BY DEF Pair
  <1>3. /\ Len(pairs') = Len(pairs) + 1
        /\ \A i \in 1 .. Len(pairs) : pairs'[i] = pairs[i]
        /\ pairs'[Len(pairs) + 1] = [c |-> e, r |-> t, status |-> WAITING]
    BY <1>1, <1>2
  <1>4. \A i \in 1 .. Len(pairs) : pairs[i].status = WAITING => {pairs[i].c, pairs[i].r} \cap {e, t} = {}
    BY DEF MayChallenge, InRankpairList, Is
  <1> SUFFICES ASSUME NEW i \in 1 .. Len(pairs'), NEW j \in 1 .. Len(pairs'), i # j,
                      pairs'[i].status = WAITING, pairs'[j].status = WAITING
               PROVE  {pairs'[i].c, pairs'[i].r} \cap {pairs'[j].c, pairs'[j].r} = {}
    BY DEF OneChallengeEach
  <1>5. CASE i \in 1 .. Len(pairs) /\ j \in 1 .. Len(pairs)
    BY <1>3, <1>5 DEF OneChallengeEach
  <1>6. CASE i = Len(pairs) + 1 /\ j \in 1 .. Len(pairs)
    BY <1>3, <1>4, <1>6
  <1>7. CASE j = Len(pairs) + 1 /\ i \in 1 .. Len(pairs)
    BY <1>3, <1>4, <1>7
  <1>8. QED
    BY <1>1, <1>3, <1>5, <1>6, <1>7

LEMMA OneStep == TypeOK /\ OneChallengeEach /\ [Next]_vars => OneChallengeEach'
  <1> SUFFICES ASSUME TypeOK, OneChallengeEach, [Next]_vars PROVE OneChallengeEach'
    OBVIOUS
  <1>1. TypeOK'
    BY TypeStep
  <1>2. pairs \in Seq(Pair) /\ Len(pairs) \in Nat /\ pairs' \in Seq(Pair)
    BY <1>1 DEF TypeOK
  <1>3. CASE UNCHANGED pairs
    BY <1>3 DEF OneChallengeEach
  <1>4. ASSUME NEW i \in 1 .. Len(pairs), NEW e \in Player, NEW c \in Player,
               NEW resp \in {ACCEPT, REFUSE}, DbinRespRankingGame(i, e, c, resp)
        PROVE  OneChallengeEach'
    <2>1. pairs' = [pairs EXCEPT ![i].status = resp] /\ resp # WAITING
      BY <1>4 DEF DbinRespRankingGame, ACCEPT, REFUSE, WAITING
    <2>2. Len(pairs') = Len(pairs)
      BY <1>2, <2>1
    <2>3. ASSUME NEW j \in 1 .. Len(pairs), pairs'[j].status = WAITING PROVE pairs'[j] = pairs[j]
      <3>1. pairs[i] \in Pair
        BY <1>2
      <3>2. CASE j = i
        BY <1>2, <2>1, <2>3, <3>1, <3>2 DEF Pair
      <3>3. CASE j # i
        BY <1>2, <2>1, <3>3
      <3>4. QED
        BY <3>2, <3>3
    <2>4. QED
      BY <1>2, <2>2, <2>3, Settle
  <1>5. CASE AutoResp
    <2>1. PICK k \in 1 .. Len(pairs) :
             \E to \in [Thread -> UNION {[1 .. n -> 1 .. k] : n \in 0 .. k}] : AutoRankingChallengeResp(k, to)
      BY <1>5 DEF AutoResp
    <2> DEFINE late == {i \in 1 .. k : pairs[i].status = WAITING}
    <2>2. pairs' = [i \in 1 .. Len(pairs) |->
                      IF i \in late THEN [pairs[i] EXCEPT !.status = REFUSE] ELSE pairs[i]]
      BY <2>1 DEF AutoRankingChallengeResp
    <2>3. pairs' \in [1 .. Len(pairs) -> Pair]
      <3>1. \A i \in 1 .. Len(pairs) : pairs[i] \in Pair
        BY <1>2
      <3>2. \A i \in 1 .. Len(pairs) : [pairs[i] EXCEPT !.status = REFUSE] \in Pair
        BY <3>1 DEF Pair
      <3>3. QED
        BY <2>2, <3>1, <3>2
    <2>4. Len(pairs') = Len(pairs)
      BY <1>2, <2>3, FcnIsSeq
    <2>5. ASSUME NEW j \in 1 .. Len(pairs), pairs'[j].status = WAITING PROVE pairs'[j] = pairs[j]
      <3>1. CASE j \in late
        <4>1. pairs'[j] = [pairs[j] EXCEPT !.status = REFUSE] /\ pairs[j] \in Pair
          BY <1>2, <2>2, <3>1
        <4>2. pairs'[j].status = REFUSE
          BY <4>1 DEF Pair
        <4>3. QED
          BY <2>5, <4>2 DEF REFUSE, WAITING
      <3>2. CASE j \notin late
        BY <2>2, <3>2
      <3>3. QED
        BY <3>1, <3>2
    <2>6. QED
      BY <1>2, <2>4, <2>5, Settle
  <1>6. ASSUME NEW i \in 1 .. Len(pairs), NEW e \in Player, CancelRankingGame(i, e)
        PROVE  OneChallengeEach'
    BY <1>6, RemoveOne DEF CancelRankingGame
  <1>7. ASSUME NEW th \in Thread, Out(th) PROVE OneChallengeEach'
    <2>1. Head(queue[th]) \in Request
      BY <1>7 DEF Out, TypeOK
    <2>2. Head(queue[th]).a \in Player /\ Head(queue[th]).b \in Player
      BY <2>1 DEF Request
    <2>3. ASSUME NEW same \in BOOLEAN, NEW ok \in BOOLEAN, OutRankingGame(th, same, ok)
          PROVE  OneChallengeEach'
      BY <1>3, <2>2, <2>3, AddFree DEF OutRankingGame
    <2>4. ASSUME NEW ok \in BOOLEAN, OutRespRankingChallenge(th, ok) PROVE OneChallengeEach'
      BY <1>3, <2>4, RemoveOne DEF OutRespRankingChallenge
    <2>5. CASE OutWin(th)
      BY <1>3, <2>5 DEF OutWin
    <2>6. QED
      BY <1>7, <2>3, <2>4, <2>5 DEF Out
  <1>8. ASSUME NEW th \in Thread, Work(th) PROVE UNCHANGED pairs
    BY <1>8 DEF Work, InChangeRankingData, ReadRanks, InCheckRankingTarget, InRankingChallenge, ExchangeRanking, SubRankTime
  <1>9. CASE \E e \in Roaming : Login(e) \/ Disconnect(e) \/ Enter(e) \/ Leave(e)
    BY <1>3, <1>9 DEF Login, Disconnect, Enter, Leave
  <1>10. CASE \E w \in Wants : DbinRankingGame(w[1], w[2])
    BY <1>3, <1>10 DEF DbinRankingGame
  <1>11. CASE \E r \in RoomId : \E winner \in {1, 2} :
                 \E by \in Player \cup {NoOne} : \E th \in Thread : WinGame(r, winner, by, th)
    BY <1>3, <1>11 DEF WinGame
  <1>12. CASE UNCHANGED vars
    BY <1>3, <1>12 DEF vars
  <1>13. CASE \E th \in Thread : Work(th) \/ Out(th)
    BY <1>3, <1>7, <1>8, <1>13
  <1>14. CASE \E i \in 1 .. Len(pairs), e, c \in Player : \E resp \in {ACCEPT, REFUSE} :
                 DbinRespRankingGame(i, e, c, resp)
    BY <1>4, <1>14
  <1>15. CASE \E i \in 1 .. Len(pairs), e \in Player : CancelRankingGame(i, e)
    BY <1>6, <1>15
  <1>16. QED
    BY <1>5, <1>9, <1>10, <1>11, <1>12, <1>13, <1>14, <1>15 DEF Next

\* Nobody is in two challenges that wait: what out_ranking_game() asks again
\* covers all that may have changed since dbin_ranking_game() asked.
THEOREM OnePerUser == Spec => []OneChallengeEach
  <1>1. Init => OneChallengeEach
    BY DEF Init, OneChallengeEach
  <1>2. QED
    BY <1>1, OneStep, TypeCorrect, PTL DEF Spec

----------------------------------------------------------------------------
(* Answers.                                                                *)

\* Where the requests of the workers' queues are, the answers to challenges
\* of c among them, and the pairs of c that are settled.
Spots(Q) == UNION {{<<th, i>> : i \in 1 .. Len(Q[th])} : th \in Thread}
Answers(Q, c) == {x \in Spots(Q) : Q[x[1]][x[2]].cmd = "rresp" /\ Q[x[1]][x[2]].b = c}
Settled(L, c) == {i \in 1 .. Len(L) : L[i].c = c /\ L[i].status # WAITING}

\* A queue has finitely many places.
LEMMA SpotsFinite ==
    ASSUME NEW Q \in [Thread -> Seq(Request)]
    PROVE  IsFiniteSet(Spots(Q))
  <1>0. PICK F : F = [th \in Thread |-> {<<th, i>> : i \in 1 .. Len(Q[th])}]
    OBVIOUS
  <1> DEFINE S == {F[th] : th \in Thread}
  <1>1. DOMAIN F = Thread /\ F = [th \in Thread |-> F[th]]
    BY <1>0
  <1>2. IsFiniteSet(S)
    <2>1. F \in [Thread -> S] /\ \A t \in S : \E th \in Thread : F[th] = t
      BY <1>1
    <2> HIDE DEF S
    <2>2. F \in Surjection(Thread, S)
      BY <2>1 DEF Surjection
    <2>3. QED
      BY <2>2, FS_Surjection
  <1>3. ASSUME NEW th \in Thread PROVE IsFiniteSet({<<th, i>> : i \in 1 .. Len(Q[th])})
    <2>1. PICK n \in Nat : n = Len(Q[th])
      OBVIOUS
    <2>0. 1 \in Int /\ n \in Int
      OBVIOUS
    <2>2. IsFiniteSet(1 .. n) /\ IsFiniteSet({th})
      BY <2>0, FS_Interval, FS_Singleton, Zenon
    <2>3. IsFiniteSet({th} \X (1 .. n))
      BY <2>2, FS_Product
    <2>4. {th} \X (1 .. n) = {<<th, i>> : i \in 1 .. Len(Q[th])}
      BY <2>1
    <2>5. QED
      BY <2>3, <2>4
  <1>4. \A T \in S : IsFiniteSet(T)
    BY <1>0, <1>3
  <1> HIDE DEF S
  <1>5. IsFiniteSet(UNION S)
    BY <1>2, <1>4, FS_UNION
  <1>6. UNION S = Spots(Q)
    BY <1>0 DEF S, Spots
  <1>7. QED
    BY <1>5, <1>6

LEMMA AnswersFinite ==
    ASSUME NEW Q \in [Thread -> Seq(Request)], NEW c
    PROVE  IsFiniteSet(Answers(Q, c)) /\ Cardinality(Answers(Q, c)) \in Nat
  <1>1. Answers(Q, c) \in SUBSET Spots(Q)
    BY DEF Answers
  <1>2. IsFiniteSet(Answers(Q, c))
    BY <1>1, SpotsFinite, FS_Subset
  <1>3. QED
    BY <1>2, FS_CardinalityType

LEMMA SettledFinite ==
    ASSUME NEW L \in Seq(Pair), NEW c
    PROVE  IsFiniteSet(Settled(L, c)) /\ Cardinality(Settled(L, c)) \in Nat
  <1>1. PICK n \in Nat : n = Len(L)
    OBVIOUS
  <1>2. IsFiniteSet(1 .. n)
    BY FS_Interval
  <1>3. Settled(L, c) \in SUBSET (1 .. n)
    BY <1>1 DEF Settled
  <1>4. IsFiniteSet(Settled(L, c))
    BY <1>2, <1>3, FS_Subset
  <1>5. QED
    BY <1>4, FS_CardinalityType

\* The property, in these terms.
Covered(Q, L, c) == Cardinality(Answers(Q, c)) <= Cardinality(Settled(L, c))

LEMMA CoveredIs == AnsweredOnce <=> \A c \in Player : Covered(queue, pairs, c)
  BY DEF AnsweredOnce, Covered, Answers, Settled, Spots, Requests, At

\* The places of a queue.
LEMMA SpotIs ==
    ASSUME NEW Q \in [Thread -> Seq(Request)], NEW x
    PROVE  x \in Spots(Q) <=> x = <<x[1], x[2]>> /\ x[1] \in Thread /\ x[2] \in 1 .. Len(Q[x[1]])
  BY DEF Spots

\* A request more.
LEMMA OneMore ==
    ASSUME NEW Q \in [Thread -> Seq(Request)], NEW th \in Thread, NEW q \in Request, NEW c
    PROVE  /\ [Q EXCEPT ![th] = Append(@, q)] \in [Thread -> Seq(Request)]
           /\ Answers([Q EXCEPT ![th] = Append(@, q)], c)
                  \subseteq Answers(Q, c) \cup {<<th, Len(Q[th]) + 1>>}
           /\ ~(q.cmd = "rresp" /\ q.b = c) =>
                  Answers([Q EXCEPT ![th] = Append(@, q)], c) \subseteq Answers(Q, c)
  <1> DEFINE P == [Q EXCEPT ![th] = Append(@, q)]
  <1>1. P \in [Thread -> Seq(Request)]
    OBVIOUS
  <1>2. ASSUME NEW x \in Answers(P, c)
        PROVE  x \in Answers(Q, c) \/ (x = <<th, Len(Q[th]) + 1>> /\ q.cmd = "rresp" /\ q.b = c)
    <2>1. x \in Spots(P) /\ P[x[1]][x[2]].cmd = "rresp" /\ P[x[1]][x[2]].b = c
      BY DEF Answers
    <2>2. x = <<x[1], x[2]>> /\ x[1] \in Thread /\ x[2] \in 1 .. Len(P[x[1]])
      BY <1>1, <2>1, SpotIs
    <2>3. CASE x[1] = th /\ x[2] = Len(Q[th]) + 1
      BY <2>1, <2>2, <2>3
    <2>4. CASE ~(x[1] = th /\ x[2] = Len(Q[th]) + 1)
      <3>1. x[2] \in 1 .. Len(Q[x[1]]) /\ P[x[1]][x[2]] = Q[x[1]][x[2]]
        BY <2>2, <2>4
      <3>2. x \in Spots(Q)
        BY <2>2, <3>1, SpotIs
      <3>3. QED
        BY <2>1, <3>1, <3>2 DEF Answers
    <2>5. QED
      BY <2>3, <2>4
  <1>3. QED
    BY <1>1, <1>2

\* The oldest request of a worker is taken.
LEMMA OneLess ==
    ASSUME NEW Q \in [Thread -> Seq(Request)], NEW th \in Thread, Q[th] # <<>>, NEW c
    PROVE  /\ [Q EXCEPT ![th] = Tail(@)] \in [Thread -> Seq(Request)]
           /\ Cardinality(Answers([Q EXCEPT ![th] = Tail(@)], c)) <= Cardinality(Answers(Q, c))
           /\ Head(Q[th]).cmd = "rresp" /\ Head(Q[th]).b = c =>
                Cardinality(Answers([Q EXCEPT ![th] = Tail(@)], c)) <= Cardinality(Answers(Q, c)) - 1
  <1>1. PICK P : P = [Q EXCEPT ![th] = Tail(@)]
    OBVIOUS
  <1>2. P \in [Thread -> Seq(Request)]
    BY <1>1
  <1>3. /\ Len(P[th]) = Len(Q[th]) - 1 /\ Len(Q[th]) \in Nat
        /\ \A i \in 1 .. Len(P[th]) : P[th][i] = Q[th][i + 1]
        /\ \A uh \in Thread : uh # th => P[uh] = Q[uh]
    BY <1>1
  <1>4. PICK T : T = Answers(Q, c) \ {<<th, 1>>}
    OBVIOUS
  <1> DEFINE f == [x \in Answers(P, c) |-> IF x[1] = th THEN <<th, x[2] + 1>> ELSE x]
  <1>5. ASSUME NEW x \in Answers(P, c)
        PROVE  f[x] \in T /\ x = <<x[1], x[2]>> /\ x[2] \in Nat
    <2>1. x \in Spots(P) /\ P[x[1]][x[2]].cmd = "rresp" /\ P[x[1]][x[2]].b = c
      BY DEF Answers
    <2>2. x = <<x[1], x[2]>> /\ x[1] \in Thread /\ x[2] \in 1 .. Len(P[x[1]])
      BY <1>2, <2>1, SpotIs
    <2>6. Len(P[x[1]]) \in Nat /\ x[2] \in Nat
      BY <1>2, <2>2
    <2>3. CASE x[1] = th
      <3>0. PICK i \in 1 .. Len(P[th]) : i = x[2]
        BY <2>2, <2>3
      <3>1. PICK j : j = i + 1
        OBVIOUS
      <3>2. j \in 1 .. Len(Q[th]) /\ j # 1 /\ P[th][i] = Q[th][j]
        BY <1>3, <3>1
      <3>3. <<th, j>>[1] = th /\ <<th, j>>[2] = j
        OBVIOUS
      <3>4. <<th, j>> \in Spots(Q)
        BY <3>2, <3>3, SpotIs
      <3>5. <<th, j>> \in Answers(Q, c)
        BY <2>1, <2>3, <3>0, <3>2, <3>3, <3>4 DEF Answers
      <3>6. QED
        BY <1>4, <2>2, <2>3, <2>6, <3>0, <3>1, <3>2, <3>5
    <2>4. CASE x[1] # th
      <3>1. P[x[1]] = Q[x[1]]
        BY <1>3, <2>2, <2>4
      <3>2. x \in Spots(Q)
        BY <2>2, <3>1, SpotIs
      <3>3. x \in Answers(Q, c)
        BY <2>1, <3>1, <3>2 DEF Answers
      <3>4. x # <<th, 1>>
        BY <2>4
      <3>5. QED
        BY <1>4, <2>2, <2>4, <2>6, <3>3, <3>4
    <2>5. QED
      BY <2>3, <2>4
  <1>6. f \in Injection(Answers(P, c), T)
    <2>1. f \in [Answers(P, c) -> T]
      BY <1>5
    <2>2. ASSUME NEW x \in Answers(P, c), NEW y \in Answers(P, c), f[x] = f[y] PROVE x = y
      <3>1. x = <<x[1], x[2]>> /\ y = <<y[1], y[2]>> /\ x[2] \in Nat /\ y[2] \in Nat
        BY <1>5
      <3>2. f[x] = (IF x[1] = th THEN <<th, x[2] + 1>> ELSE x) /\ f[y] = (IF y[1] = th THEN <<th, y[2] + 1>> ELSE y)
        OBVIOUS
      <3>3. f[x][1] = x[1] /\ f[y][1] = y[1]
        BY <3>2
      <3>4. x[1] = y[1] /\ x[2] = y[2]
        BY <2>2, <3>1, <3>2, <3>3
      <3>5. QED
        BY <3>1, <3>4
    <2>3. QED
      BY <2>1, <2>2 DEF Injection, IsInjective
  <1>7. IsFiniteSet(Answers(Q, c)) /\ Cardinality(Answers(Q, c)) \in Nat
    BY AnswersFinite
  <1>8. IsFiniteSet(T)
    BY <1>4, <1>7, FS_RemoveElement
  <1>9. Cardinality(T) = IF <<th, 1>> \in Answers(Q, c) THEN Cardinality(Answers(Q, c)) - 1
                         ELSE Cardinality(Answers(Q, c))
    BY <1>4, <1>7, FS_RemoveElement
  <1>10. Cardinality(Answers(P, c)) <= Cardinality(T)
    BY <1>6, <1>8, FS_Injection
  <1>11. Cardinality(Answers(P, c)) \in Nat
    BY <1>2, AnswersFinite
  <1>12. ASSUME Head(Q[th]).cmd = "rresp", Head(Q[th]).b = c PROVE <<th, 1>> \in Answers(Q, c)
    <2>1. Head(Q[th]) = Q[th][1] /\ 1 \in 1 .. Len(Q[th])
      BY <1>3
    <2>2. <<th, 1>>[1] = th /\ <<th, 1>>[2] = 1
      OBVIOUS
    <2>3. <<th, 1>> \in Spots(Q)
      BY <2>1, <2>2, SpotIs
    <2>4. QED
      BY <1>12, <2>1, <2>3 DEF Answers
  <1>13. QED
    BY <1>1, <1>2, <1>7, <1>9, <1>10, <1>11, <1>12

\* A worker gets on with a request.
LEMMA SameAnswers ==
    ASSUME NEW Q \in [Thread -> Seq(Request)], NEW P \in [Thread -> Seq(Request)], NEW c,
           \A th \in Thread :
              /\ Len(P[th]) = Len(Q[th])
              /\ \A i \in 1 .. Len(Q[th]) : P[th][i].cmd = Q[th][i].cmd /\ P[th][i].b = Q[th][i].b
    PROVE  Answers(P, c) = Answers(Q, c)
  <1>1. ASSUME NEW x PROVE x \in Spots(P) <=> x \in Spots(Q)
    BY SpotIs
  <1>2. ASSUME NEW x \in Spots(Q)
        PROVE  P[x[1]][x[2]].cmd = Q[x[1]][x[2]].cmd /\ P[x[1]][x[2]].b = Q[x[1]][x[2]].b
    <2>1. x[1] \in Thread /\ x[2] \in 1 .. Len(Q[x[1]])
      BY SpotIs
    <2>2. QED
      BY <2>1
  <1>3. QED
    BY <1>1, <1>2 DEF Answers

\* A pair is taken from the list.
LEMMA SettledLeft ==
    ASSUME NEW L \in Seq(Pair), NEW n \in 1 .. Len(L), NEW c
    PROVE  /\ L[n].status = WAITING \/ L[n].c # c =>
                 Cardinality(Settled(L, c)) <= Cardinality(Settled(RemoveAt(L, n), c))
           /\ Cardinality(Settled(L, c)) <= Cardinality(Settled(RemoveAt(L, n), c)) + 1
  <1>1. PICK M : M = RemoveAt(L, n)
    OBVIOUS
  <1>2. /\ M \in Seq(Pair) /\ Len(M) = Len(L) - 1
        /\ \A j \in 1 .. n - 1 : M[j] = L[j]
        /\ \A j \in n .. Len(L) - 1 : M[j] = L[j + 1]
    <2>1. Without(M, L, n)
      BY <1>1, RemovePair
    <2>2. QED
      BY <2>1 DEF Without
  <1>3. Len(L) \in Nat
    OBVIOUS
  <1>5. PICK T : T = Settled(L, c) \ {n}
    OBVIOUS
  <1> DEFINE f == [j \in T |-> IF j < n THEN j ELSE j - 1]
  <1>6. ASSUME NEW j \in T PROVE f[j] \in Settled(M, c) /\ j \in 1 .. Len(L) /\ j # n
    <2>1. j \in 1 .. Len(L) /\ j # n /\ L[j].c = c /\ L[j].status # WAITING
      BY <1>5 DEF Settled
    <2>2. CASE j < n
      <3>1. j \in 1 .. Len(M) /\ M[j] = L[j]
        BY <1>2, <1>3, <2>1, <2>2
      <3>2. QED
        BY <2>1, <2>2, <3>1 DEF Settled
    <2>3. CASE ~(j < n)
      <3>1. PICK i : i = j - 1
        OBVIOUS
      <3>2. i \in 1 .. Len(M) /\ i \in n .. Len(L) - 1 /\ i + 1 = j
        BY <1>2, <1>3, <2>1, <2>3, <3>1
      <3>3. M[i] = L[j]
        BY <1>2, <3>2
      <3>4. QED
        BY <2>1, <2>3, <3>1, <3>2, <3>3 DEF Settled
    <2>4. QED
      BY <2>2, <2>3
  <1>7. f \in Injection(T, Settled(M, c))
    <2>1. f \in [T -> Settled(M, c)]
      BY <1>6
    <2>2. ASSUME NEW i \in T, NEW j \in T, f[i] = f[j] PROVE i = j
      BY <1>6, <2>2
    <2>3. QED
      BY <2>1, <2>2 DEF Injection, IsInjective
  <1>8. IsFiniteSet(Settled(M, c)) /\ Cardinality(Settled(M, c)) \in Nat
    BY <1>2, SettledFinite
  <1>9. IsFiniteSet(Settled(L, c)) /\ Cardinality(Settled(L, c)) \in Nat
    BY SettledFinite
  <1>10. Cardinality(T) <= Cardinality(Settled(M, c))
    BY <1>7, <1>8, FS_Injection
  <1>11. Cardinality(T) = IF n \in Settled(L, c) THEN Cardinality(Settled(L, c)) - 1
                          ELSE Cardinality(Settled(L, c))
    BY <1>5, <1>9, FS_RemoveElement
  <1>12. L[n].status = WAITING \/ L[n].c # c => n \notin Settled(L, c)
    BY DEF Settled
  <1>13. QED
    BY <1>1, <1>8, <1>9, <1>10, <1>11, <1>12

\* One element more at most.
LEMMA AtMostOneMore ==
    ASSUME NEW S, IsFiniteSet(S), NEW x, NEW T, T \subseteq S \cup {x}
    PROVE  IsFiniteSet(T) /\ Cardinality(T) \in Nat /\ Cardinality(S) \in Nat
           /\ Cardinality(T) <= Cardinality(S) + 1
  <1>1. /\ IsFiniteSet(S \cup {x})
        /\ Cardinality(S \cup {x}) = IF x \in S THEN Cardinality(S) ELSE Cardinality(S) + 1
    BY FS_AddElement
  <1>2. IsFiniteSet(T) /\ Cardinality(T) <= Cardinality(S \cup {x})
    BY <1>1, FS_Subset
  <1>3. Cardinality(T) \in Nat /\ Cardinality(S) \in Nat /\ Cardinality(S \cup {x}) \in Nat
    BY <1>1, <1>2, FS_CardinalityType
  <1>4. QED
    BY <1>1, <1>2, <1>3

\* Pairs are settled: one of them, i, is c's.
LEMMA OneSettled ==
    ASSUME NEW L \in Seq(Pair), NEW M \in Seq(Pair), Len(M) = Len(L), NEW c,
           \A j \in 1 .. Len(L) :
              /\ M[j].c = L[j].c
              /\ L[j].status # WAITING => M[j].status # WAITING
    PROVE  /\ Cardinality(Settled(L, c)) <= Cardinality(Settled(M, c))
           /\ \A i \in 1 .. Len(L) :
                L[i].c = c /\ L[i].status = WAITING /\ M[i].status # WAITING =>
                    Cardinality(Settled(L, c)) + 1 <= Cardinality(Settled(M, c))
  <1>1. Settled(L, c) \subseteq Settled(M, c)
    BY DEF Settled
  <1>2. /\ IsFiniteSet(Settled(L, c)) /\ Cardinality(Settled(L, c)) \in Nat
        /\ IsFiniteSet(Settled(M, c)) /\ Cardinality(Settled(M, c)) \in Nat
    BY SettledFinite
  <1>3. Cardinality(Settled(L, c)) <= Cardinality(Settled(M, c))
    BY <1>1, <1>2, FS_Subset
  <1>4. ASSUME NEW i \in 1 .. Len(L), L[i].c = c, L[i].status = WAITING, M[i].status # WAITING
        PROVE  Cardinality(Settled(L, c)) + 1 <= Cardinality(Settled(M, c))
    <2>1. i \notin Settled(L, c) /\ i \in Settled(M, c)
      BY <1>4 DEF Settled
    <2>2. Settled(L, c) \cup {i} \in SUBSET Settled(M, c)
      BY <1>1, <2>1
    <2>3. Cardinality(Settled(L, c) \cup {i}) <= Cardinality(Settled(M, c))
      BY <1>2, <2>2, FS_Subset
    <2>4. Cardinality(Settled(L, c) \cup {i}) = Cardinality(Settled(L, c)) + 1
      BY <1>2, <2>1, FS_AddElement
    <2>5. QED
      BY <2>3, <2>4
  <1>5. QED
    BY <1>3, <1>4

----------------------------------------------------------------------------
\* A user's newest pair is the only one that may wait.
WaitsLast ==
    \A i, j \in 1 .. Len(pairs) :
        i < j /\ pairs[i].c = pairs[j].c => pairs[i].status # WAITING

LEMMA WaitsRemoved ==
    ASSUME TypeOK, WaitsLast, NEW n \in 1 .. Len(pairs), pairs' = RemoveAt(pairs, n)
    PROVE  WaitsLast'
  <1>1. PICK L \in Seq(Pair) : L = pairs
    BY DEF TypeOK
  <1>2. PICK M : M = RemoveAt(L, n)
    OBVIOUS
  <1>3. n \in 1 .. Len(L) /\ Len(L) \in Nat
    BY <1>1
  <1>4. /\ Len(M) = Len(L) - 1
        /\ \A j \in 1 .. n - 1 : M[j] = L[j]
        /\ \A j \in n .. Len(L) - 1 : M[j] = L[j + 1]
    <2>1. Without(M, L, n)
      BY <1>2, <1>3, RemovePair
    <2>2. QED
      BY <2>1 DEF Without
  <1>7. \A i, j \in 1 .. Len(L) : i < j /\ L[i].c = L[j].c => L[i].status # WAITING
    BY <1>1 DEF WaitsLast
  <1>8. ASSUME NEW i \in 1 .. Len(M), NEW j \in 1 .. Len(M), i < j, M[i].c = M[j].c
        PROVE  M[i].status # WAITING
    <2>1. PICK u \in 1 .. Len(L), v \in 1 .. Len(L) : M[i] = L[u] /\ M[j] = L[v] /\ u < v
      <3>1. CASE j < n
        <4>1. j \in 1 .. Len(L) /\ i \in 1 .. Len(L)
          BY <1>3, <1>4, <1>8
        <4>2. M[i] = L[i] /\ M[j] = L[j]
          BY <1>3, <1>4, <1>8, <3>1
        <4>3. QED
          BY <1>8, <4>1, <4>2
      <3>2. CASE i < n /\ ~(j < n)
        <4>1. j + 1 \in 1 .. Len(L) /\ i \in 1 .. Len(L) /\ i < j + 1
          BY <1>3, <1>4, <1>8
        <4>2. M[i] = L[i] /\ M[j] = L[j + 1]
          BY <1>3, <1>4, <1>8, <3>2
        <4>3. QED
          BY <4>1, <4>2
      <3>3. CASE ~(i < n)
        <4>1. j + 1 \in 1 .. Len(L) /\ i + 1 \in 1 .. Len(L) /\ i + 1 < j + 1
          BY <1>3, <1>4, <1>8
        <4>2. M[i] = L[i + 1] /\ M[j] = L[j + 1]
          BY <1>3, <1>4, <1>8, <3>3
        <4>3. QED
          BY <4>1, <4>2
      <3>4. QED
        BY <1>8, <3>1, <3>2, <3>3
    <2>2. QED
      BY <1>7, <1>8, <2>1
  <1>9. pairs' = M
    BY <1>1, <1>2
  <1>10. QED
    BY <1>8, <1>9 DEF WaitsLast

LEMMA WaitsSettled ==
    ASSUME TypeOK, WaitsLast, pairs' \in Seq(Pair), Len(pairs') = Len(pairs),
           \A j \in 1 .. Len(pairs) :
              /\ pairs'[j].c = pairs[j].c
              /\ pairs[j].status # WAITING => pairs'[j].status # WAITING
    PROVE  WaitsLast'
  <1> SUFFICES ASSUME NEW i \in 1 .. Len(pairs), NEW j \in 1 .. Len(pairs), i < j,
                      pairs'[i].c = pairs'[j].c
               PROVE  pairs'[i].status # WAITING
    BY DEF WaitsLast
  <1>1. pairs[i].c = pairs[j].c
    OBVIOUS
  <1>2. QED
    BY <1>1 DEF WaitsLast

LEMMA WaitsAdded ==
    ASSUME TypeOK, WaitsLast, NEW e \in Player, NEW t \in Player, MayChallenge(e, t),
           pairs' = Append(pairs, [c |-> e, r |-> t, status |-> WAITING])
    PROVE  WaitsLast' /\ \A c : Settled(pairs, c) \subseteq Settled(pairs', c)
  <1>1. pairs \in Seq(Pair) /\ Len(pairs) \in Nat
    BY DEF TypeOK
  <1>2. [c |-> e, r |-> t, status |-> WAITING] \in Pair
    BY DEF Pair
  <1>3. /\ Len(pairs') = Len(pairs) + 1
        /\ \A i \in 1 .. Len(pairs) : pairs'[i] = pairs[i]
        /\ pairs'[Len(pairs) + 1] = [c |-> e, r |-> t, status |-> WAITING]
    BY <1>1, <1>2
  <1>4. \A i \in 1 .. Len(pairs) : pairs[i].c = e => pairs[i].status # WAITING
    BY DEF MayChallenge, InRankpairList, Is
  <1>5. ASSUME NEW i \in 1 .. Len(pairs'), NEW j \in 1 .. Len(pairs'), i < j, pairs'[i].c = pairs'[j].c
        PROVE  pairs'[i].status # WAITING
    <2>1. i \in 1 .. Len(pairs) /\ pairs'[i] = pairs[i]
      BY <1>1, <1>3, <1>5
    <2>2. CASE j \in 1 .. Len(pairs)
      BY <1>3, <1>5, <2>1, <2>2 DEF WaitsLast
    <2>3. CASE j = Len(pairs) + 1
      BY <1>3, <1>4, <1>5, <2>1, <2>3
    <2>4. QED
      BY <1>1, <1>3, <2>2, <2>3
  <1>6. ASSUME NEW c PROVE Settled(pairs, c) \subseteq Settled(pairs', c)
    BY <1>1, <1>3 DEF Settled
  <1>7. WaitsLast'
    BY <1>5 DEF WaitsLast
  <1>8. QED
    BY <1>6, <1>7

----------------------------------------------------------------------------
\* The inductive invariant: the count of the property for each challenger, and
\* what makes the timer find one late pair of it at most.
AInv == WaitsLast /\ \A c \in Player : Covered(queue, pairs, c)

\* Fewer answers, or more settled pairs.
LEMMA CoveredStill ==
    ASSUME TypeOK, TypeOK', NEW c \in Player, Covered(queue, pairs, c),
           Answers(queue', c) \subseteq Answers(queue, c),
           Settled(pairs, c) \subseteq Settled(pairs', c)
    PROVE  Covered(queue', pairs', c)
  <1>1. /\ queue \in [Thread -> Seq(Request)] /\ queue' \in [Thread -> Seq(Request)]
        /\ pairs \in Seq(Pair) /\ pairs' \in Seq(Pair)
    BY DEF TypeOK
  <1>2. /\ IsFiniteSet(Answers(queue, c)) /\ Cardinality(Answers(queue, c)) \in Nat
        /\ IsFiniteSet(Answers(queue', c)) /\ Cardinality(Answers(queue', c)) \in Nat
    BY <1>1, AnswersFinite
  <1>3. /\ IsFiniteSet(Settled(pairs, c)) /\ Cardinality(Settled(pairs, c)) \in Nat
        /\ IsFiniteSet(Settled(pairs', c)) /\ Cardinality(Settled(pairs', c)) \in Nat
    BY <1>1, SettledFinite
  <1>4. Cardinality(Answers(queue', c)) <= Cardinality(Answers(queue, c))
    BY <1>2, FS_Subset
  <1>5. Cardinality(Settled(pairs, c)) <= Cardinality(Settled(pairs', c))
    BY <1>3, FS_Subset
  <1>6. QED
    BY <1>2, <1>3, <1>4, <1>5 DEF Covered

\* A request that is no answer.
LEMMA OtherRequest ==
    ASSUME TypeOK, TypeOK', AInv, NEW th \in Thread, NEW q \in Request, q.cmd # "rresp",
           DbinWrite(th, q), UNCHANGED pairs
    PROVE  AInv'
  <1>1. queue \in [Thread -> Seq(Request)]
    BY DEF TypeOK
  <1>2. queue' = [queue EXCEPT ![th] = Append(@, q)]
    BY DEF DbinWrite
  <1>3. ASSUME NEW c \in Player PROVE Covered(queue', pairs', c)
    <2>1. Answers([queue EXCEPT ![th] = Append(@, q)], c) \subseteq Answers(queue, c)
      BY <1>1, OneMore
    <2>2. Answers(queue', c) \subseteq Answers(queue, c) /\ Settled(pairs, c) \subseteq Settled(pairs', c)
      BY <1>2, <2>1
    <2>3. QED
      BY <2>2, CoveredStill DEF AInv
  <1>4. WaitsLast'
    BY DEF AInv, WaitsLast
  <1>5. QED
    BY <1>3, <1>4 DEF AInv

\* The receiver answers.
LEMMA RespAnswers ==
    ASSUME TypeOK, TypeOK', AInv, NEW i \in 1 .. Len(pairs), NEW e \in Player, NEW c \in Player,
           NEW resp \in {ACCEPT, REFUSE}, DbinRespRankingGame(i, e, c, resp)
    PROVE  AInv'
  <1>1. /\ queue \in [Thread -> Seq(Request)] /\ pairs \in Seq(Pair) /\ pairs' \in Seq(Pair)
        /\ queue' \in [Thread -> Seq(Request)]
    BY DEF TypeOK
  <1>0. pairs[i] \in Pair
    BY <1>1
  <1>2. /\ pairs' = [pairs EXCEPT ![i].status = resp] /\ resp # WAITING
        /\ pairs[i].status = WAITING /\ pairs[i].c = c
    BY DEF DbinRespRankingGame, ACCEPT, REFUSE, WAITING
  <1>9. PICK p : p = [pairs[i] EXCEPT !.status = resp]
    OBVIOUS
  <1>10. p \in Pair /\ p.c = c /\ p.status # WAITING
    BY <1>0, <1>2, <1>9 DEF Pair
  <1>11. pairs' = [pairs EXCEPT ![i] = p]
    BY <1>2, <1>9
  <1>3. /\ Len(pairs') = Len(pairs) /\ pairs'[i].c = c /\ pairs'[i].status # WAITING
        /\ \A j \in 1 .. Len(pairs) : j # i => pairs'[j] = pairs[j]
    BY <1>1, <1>10, <1>11
  <1>4. \A j \in 1 .. Len(pairs) : /\ pairs'[j].c = pairs[j].c
                                   /\ pairs[j].status # WAITING => pairs'[j].status # WAITING
    BY <1>2, <1>3
  <1>5. PICK th \in Thread, q \in Request :
           /\ queue' = [queue EXCEPT ![th] = Append(@, q)] /\ q.cmd = "rresp" /\ q.b = c
    <2>1. NewRequest("rresp", e, e, c, resp) \in Request /\ ThreadOf[e] \in Thread
      BY DEF NewRequest, Request, ACCEPT, REFUSE
    <2>2. NewRequest("rresp", e, e, c, resp).cmd = "rresp" /\ NewRequest("rresp", e, e, c, resp).b = c
      BY DEF NewRequest
    <2>3. queue' = [queue EXCEPT ![ThreadOf[e]] = Append(@, NewRequest("rresp", e, e, c, resp))]
      BY DEF DbinRespRankingGame, DbinWrite
    <2>4. QED
      BY <2>1, <2>2, <2>3
  <1>6. ASSUME NEW d \in Player PROVE Covered(queue', pairs', d)
    <2>1. /\ Cardinality(Settled(pairs, d)) \in Nat /\ Cardinality(Settled(pairs', d)) \in Nat
          /\ IsFiniteSet(Answers(queue, d)) /\ Cardinality(Answers(queue, d)) \in Nat
      BY <1>1, SettledFinite, AnswersFinite
    <2>2. CASE d = c
      <3>1. Cardinality(Settled(pairs, d)) + 1 <= Cardinality(Settled(pairs', d))
        BY <1>1, <1>2, <1>3, <1>4, <2>2, OneSettled
      <3>2. Answers([queue EXCEPT ![th] = Append(@, q)], d)
                \subseteq Answers(queue, d) \cup {<<th, Len(queue[th]) + 1>>}
        BY <1>1, OneMore
      <3>3. Answers(queue', d) \subseteq Answers(queue, d) \cup {<<th, Len(queue[th]) + 1>>}
        BY <1>5, <3>2
      <3>4. Cardinality(Answers(queue', d)) \in Nat
            /\ Cardinality(Answers(queue', d)) <= Cardinality(Answers(queue, d)) + 1
        BY <2>1, <3>3, AtMostOneMore
      <3>5. Cardinality(Answers(queue, d)) <= Cardinality(Settled(pairs, d))
        BY DEF AInv, Covered
      <3>6. QED
        BY <2>1, <3>1, <3>4, <3>5 DEF Covered
    <2>3. CASE d # c
      <3>1. Answers([queue EXCEPT ![th] = Append(@, q)], d) \subseteq Answers(queue, d)
        BY <1>1, <1>5, <2>3, OneMore
      <3>2. Answers(queue', d) \subseteq Answers(queue, d)
        BY <1>5, <3>1
      <3>3. Settled(pairs, d) \subseteq Settled(pairs', d)
        BY <1>3, <1>4 DEF Settled
      <3>4. QED
        BY <3>2, <3>3, CoveredStill DEF AInv
    <2>4. QED
      BY <2>2, <2>3
  <1>7. WaitsLast'
    BY <1>1, <1>3, <1>4, WaitsSettled DEF AInv
  <1>8. QED
    BY <1>6, <1>7 DEF AInv

\* The challenger takes back what waits.
LEMMA CancelAnswers ==
    ASSUME TypeOK, TypeOK', AInv, NEW i \in 1 .. Len(pairs), NEW e \in Player, CancelRankingGame(i, e)
    PROVE  AInv'
  <1>1. /\ queue \in [Thread -> Seq(Request)] /\ pairs \in Seq(Pair) /\ pairs' \in Seq(Pair)
    BY DEF TypeOK
  <1>2. pairs' = RemoveAt(pairs, i) /\ pairs[i].status = WAITING /\ queue' = queue
    BY DEF CancelRankingGame
  <1>3. ASSUME NEW c \in Player PROVE Covered(queue', pairs', c)
    <2>1. Cardinality(Settled(pairs, c)) <= Cardinality(Settled(RemoveAt(pairs, i), c))
      BY <1>1, <1>2, SettledLeft
    <2>2. /\ Cardinality(Settled(pairs, c)) \in Nat /\ Cardinality(Settled(pairs', c)) \in Nat
          /\ Cardinality(Answers(queue, c)) \in Nat
      BY <1>1, SettledFinite, AnswersFinite
    <2>3. Cardinality(Settled(pairs, c)) <= Cardinality(Settled(pairs', c))
      BY <1>2, <2>1
    <2>4. QED
      BY <1>2, <2>2, <2>3 DEF AInv, Covered
  <1>4. WaitsLast'
    BY <1>2, WaitsRemoved DEF AInv
  <1>5. QED
    BY <1>3, <1>4 DEF AInv

\* The workers change no answer and no pair.
LEMMA WorkAnswers ==
    ASSUME TypeOK, TypeOK', AInv, NEW th \in Thread, Work(th)
    PROVE  AInv'
  <1>1. /\ queue \in [Thread -> Seq(Request)] /\ queue' \in [Thread -> Seq(Request)]
    BY DEF TypeOK
  <1>2. PICK i \in 1 .. Len(queue[th]) : \E at, good : Step(th, i, at, good) /\ UNCHANGED pairs
    BY DEF Work, InChangeRankingData, ReadRanks, InCheckRankingTarget, InRankingChallenge, ExchangeRanking, SubRankTime
  <1>11. PICK at, good : Step(th, i, at, good) /\ UNCHANGED pairs
    BY <1>2
  <1>3. PICK q : q = [queue[th][i] EXCEPT !.at = at, !.good = good]
    OBVIOUS
  <1>4. queue[th][i] \in Request
    BY <1>1
  <1>5. q.cmd = queue[th][i].cmd /\ q.b = queue[th][i].b
    BY <1>3, <1>4 DEF Request
  <1>6. queue' = [queue EXCEPT ![th] = [queue[th] EXCEPT ![i] = q]]
    BY <1>1, <1>11, <1>3 DEF Step
  <1>7. ASSUME NEW uh \in Thread
        PROVE  /\ Len(queue'[uh]) = Len(queue[uh])
               /\ \A j \in 1 .. Len(queue[uh]) : /\ queue'[uh][j].cmd = queue[uh][j].cmd
                                                 /\ queue'[uh][j].b = queue[uh][j].b
    <2>1. CASE uh = th
      <3>1. queue'[uh] = [queue[th] EXCEPT ![i] = q] /\ queue[th] \in Seq(Request)
        BY <1>1, <1>6, <2>1
      <3>2. queue'[uh] \in Seq(Request)
        BY <1>1
      <3>3. Len(queue'[uh]) = Len(queue[uh])
        BY <2>1, <3>1, <3>2
      <3>4. QED
        BY <1>5, <2>1, <3>1, <3>3
    <2>2. CASE uh # th
      <3>1. queue'[uh] = queue[uh]
        BY <1>1, <1>6, <2>2
      <3>2. QED
        BY <3>1
    <2>3. QED
      BY <2>1, <2>2
  <1>8. ASSUME NEW c \in Player PROVE Covered(queue', pairs', c)
    <2>1. Answers(queue', c) = Answers(queue, c)
      BY <1>1, <1>7, SameAnswers
    <2>2. QED
      BY <1>11, <2>1 DEF AInv, Covered
  <1>9. WaitsLast'
    BY <1>11 DEF AInv, WaitsLast
  <1>10. QED
    BY <1>8, <1>9 DEF AInv

\* The reply to an answer goes, and when a game starts one pair of its
\* challenger with it.
LEMMA RespReplied ==
    ASSUME TypeOK, TypeOK', AInv, NEW th \in Thread, queue[th] # <<>>,
           NEW ok \in BOOLEAN, OutRespRankingChallenge(th, ok)
    PROVE  AInv'
  <1>1. /\ queue \in [Thread -> Seq(Request)] /\ pairs \in Seq(Pair) /\ pairs' \in Seq(Pair)
    BY DEF TypeOK
  <1>2. PICK q \in Request : q = Head(queue[th])
    BY <1>1
  <1>3. q.cmd = "rresp" /\ queue' = [queue EXCEPT ![th] = Tail(@)]
    BY <1>2 DEF OutRespRankingChallenge, Dbout
  <1>4. ASSUME NEW c \in Player
        PROVE  /\ Cardinality(Answers(queue', c)) <= Cardinality(Answers(queue, c))
               /\ q.b = c => Cardinality(Answers(queue', c)) <= Cardinality(Answers(queue, c)) - 1
               /\ Cardinality(Answers(queue, c)) \in Nat /\ Cardinality(Answers(queue', c)) \in Nat
               /\ Cardinality(Settled(pairs, c)) \in Nat /\ Cardinality(Settled(pairs', c)) \in Nat
    <2>1. /\ Cardinality(Answers([queue EXCEPT ![th] = Tail(@)], c)) <= Cardinality(Answers(queue, c))
          /\ q.b = c => Cardinality(Answers([queue EXCEPT ![th] = Tail(@)], c)) <= Cardinality(Answers(queue, c)) - 1
      BY <1>1, <1>2, <1>3, OneLess
    <2>2. queue' \in [Thread -> Seq(Request)]
      BY DEF TypeOK
    <2>3. /\ Cardinality(Answers(queue, c)) \in Nat /\ Cardinality(Answers(queue', c)) \in Nat
          /\ Cardinality(Settled(pairs, c)) \in Nat /\ Cardinality(Settled(pairs', c)) \in Nat
      BY <1>1, <2>2, AnswersFinite, SettledFinite
    <2>4. QED
      BY <1>3, <2>1, <2>3
  <1>5. CASE UNCHANGED pairs
    <2>1. WaitsLast'
      BY <1>5 DEF AInv, WaitsLast
    <2>2. QED
      BY <1>4, <1>5, <2>1 DEF AInv, Covered
  <1>6. ASSUME NEW n \in 1 .. Len(pairs), GetRankpair(n, q.b, FALSE), pairs' = RemoveAt(pairs, n)
        PROVE  AInv'
    <2>1. WaitsLast'
      BY <1>6, WaitsRemoved DEF AInv
    <2>2. pairs[n].c = q.b
      BY <1>6 DEF GetRankpair, Is
    <2>3. ASSUME NEW c \in Player PROVE Covered(queue', pairs', c)
      <3>1. CASE c = q.b
        <4>1. Cardinality(Settled(pairs, c)) <= Cardinality(Settled(RemoveAt(pairs, n), c)) + 1
          BY <1>1, SettledLeft
        <4>2. QED
          BY <1>4, <1>6, <3>1, <4>1 DEF AInv, Covered
      <3>2. CASE c # q.b
        <4>1. Cardinality(Settled(pairs, c)) <= Cardinality(Settled(RemoveAt(pairs, n), c))
          BY <1>1, <2>2, <3>2, SettledLeft
        <4>2. QED
          BY <1>4, <1>6, <4>1 DEF AInv, Covered
      <3>3. QED
        BY <3>1, <3>2
    <2>4. QED
      BY <2>1, <2>3 DEF AInv
  <1>7. CASE ~(UNCHANGED pairs)
    <2>1. PICK n \in 1 .. Len(pairs) : GetRankpair(n, q.b, FALSE) /\ pairs' = RemoveAt(pairs, n)
      BY <1>2, <1>7 DEF OutRespRankingChallenge
    <2>2. QED
      BY <1>6, <2>1
  <1>8. QED
    BY <1>5, <1>7

\* Other replies: a waiting pair may come to the list.
LEMMA OtherReply ==
    ASSUME TypeOK, TypeOK', AInv, NEW th \in Thread, queue[th] # <<>>,
           (\E same, ok \in BOOLEAN : OutRankingGame(th, same, ok)) \/ OutWin(th)
    PROVE  AInv'
  <1>1. /\ queue \in [Thread -> Seq(Request)] /\ pairs \in Seq(Pair) /\ pairs' \in Seq(Pair)
        /\ queue' \in [Thread -> Seq(Request)]
    BY DEF TypeOK
  <1>2. PICK q \in Request : q = Head(queue[th])
    BY <1>1
  <1>3. q.a \in Player /\ q.b \in Player
    BY DEF Request
  <1>4. queue' = [queue EXCEPT ![th] = Tail(@)]
    BY DEF OutRankingGame, OutWin, Dbout
  <1>5. \/ UNCHANGED pairs
        \/ /\ MayChallenge(q.a, q.b)
           /\ pairs' = Append(pairs, [c |-> q.a, r |-> q.b, status |-> WAITING])
    BY <1>2 DEF OutRankingGame, OutWin
  <1>6. WaitsLast' /\ \A c : Settled(pairs, c) \subseteq Settled(pairs', c)
    <2>1. CASE UNCHANGED pairs
      BY <2>1 DEF AInv, WaitsLast
    <2>2. CASE ~UNCHANGED pairs
      BY <1>3, <1>5, <2>2, WaitsAdded DEF AInv
    <2>3. QED
      BY <2>1, <2>2
  <1>7. ASSUME NEW c \in Player PROVE Covered(queue', pairs', c)
    <2>1. Cardinality(Answers([queue EXCEPT ![th] = Tail(@)], c)) <= Cardinality(Answers(queue, c))
      BY <1>1, OneLess
    <2>2. /\ Cardinality(Answers(queue, c)) \in Nat /\ Cardinality(Answers(queue', c)) \in Nat
          /\ IsFiniteSet(Settled(pairs', c))
          /\ Cardinality(Settled(pairs, c)) \in Nat /\ Cardinality(Settled(pairs', c)) \in Nat
      BY <1>1, AnswersFinite, SettledFinite
    <2>3. Cardinality(Settled(pairs, c)) <= Cardinality(Settled(pairs', c))
      BY <1>6, <2>2, FS_Subset
    <2>4. QED
      BY <1>4, <2>1, <2>2, <2>3 DEF AInv, Covered
  <1>8. QED
    BY <1>6, <1>7 DEF AInv

\* The timer gives each late pair to one worker: of c, one at most is late.
LEMMA AutoAnswers ==
    ASSUME TypeOK, TypeOK', AInv, AutoResp
    PROVE  AInv'
  <1>0. /\ queue \in [Thread -> Seq(Request)] /\ pairs \in Seq(Pair) /\ pairs' \in Seq(Pair)
        /\ queue' \in [Thread -> Seq(Request)] /\ Len(pairs) \in Nat
    BY DEF TypeOK
  <1>1. PICK k \in 1 .. Len(pairs) :
           \E to \in [Thread -> UNION {[1 .. n -> 1 .. k] : n \in 0 .. k}] : AutoRankingChallengeResp(k, to)
    BY DEF AutoResp
  <1>2. PICK to \in [Thread -> UNION {[1 .. n -> 1 .. k] : n \in 0 .. k}] : AutoRankingChallengeResp(k, to)
    BY <1>1
  <1>3. PICK late : late = {i \in 1 .. k : pairs[i].status = WAITING}
    OBVIOUS
  <1>4. /\ late = UNION {ToSet(to[th]) : th \in Thread}
        /\ \A th \in Thread : \A m, n \in 1 .. Len(to[th]) : m < n => to[th][m] < to[th][n]
        /\ \A th, uh \in Thread : th # uh => ToSet(to[th]) \cap ToSet(to[uh]) = {}
        /\ pairs' = [i \in 1 .. Len(pairs) |->
                      IF i \in late THEN [pairs[i] EXCEPT !.status = REFUSE] ELSE pairs[i]]
    BY <1>2, <1>3 DEF AutoRankingChallengeResp
  <1>5. queue' = [th \in Thread |->
                    queue[th] \o [n \in 1 .. Len(to[th]) |->
                        NewRequest("rresp", NoOne, pairs[to[th][n]].r, pairs[to[th][n]].c, 0)]]
    BY <1>2 DEF AutoRankingChallengeResp
  <1>6. ASSUME NEW th \in Thread
        PROVE  /\ Len(to[th]) \in Nat /\ to[th] \in [1 .. Len(to[th]) -> 1 .. k] /\ ToSet(to[th]) \subseteq late
               /\ \A n \in 1 .. Len(to[th]) : to[th][n] \in ToSet(to[th]) /\ to[th][n] \in late
    <2>1. to[th] \in UNION {[1 .. n -> 1 .. k] : n \in 0 .. k}
      OBVIOUS
    <2>2. PICK m \in 0 .. k : to[th] \in [1 .. m -> 1 .. k]
      BY <2>1
    <2>3. Len(to[th]) = m /\ m \in Nat
      BY <2>2, FcnIsSeq
    <2>4. ToSet(to[th]) \subseteq late
      BY <1>4
    <2>5. \A n \in 1 .. Len(to[th]) : to[th][n] \in ToSet(to[th])
      BY <2>2, <2>3 DEF ToSet
    <2>6. QED
      BY <2>2, <2>3, <2>4, <2>5
  <1>7. ASSUME NEW i \in 1 .. Len(pairs)
        PROVE  /\ pairs'[i].c = pairs[i].c
               /\ pairs[i].status # WAITING => pairs'[i].status # WAITING
               /\ i \in late => pairs'[i].status # WAITING
    <2>1. pairs[i] \in Pair
      BY <1>0
    <2>2. CASE i \in late
      <3>1. pairs'[i] = [pairs[i] EXCEPT !.status = REFUSE]
        BY <1>4, <2>2
      <3>2. QED
        BY <2>1, <3>1 DEF Pair, REFUSE, WAITING
    <2>3. CASE i \notin late
      <3>1. pairs'[i] = pairs[i]
        BY <1>4, <2>3
      <3>2. QED
        BY <2>3, <3>1
    <2>4. QED
      BY <2>2, <2>3
  <1>8. Len(pairs') = Len(pairs)
    <2>1. DOMAIN pairs' = 1 .. Len(pairs)
      BY <1>4
    <2>2. QED
      BY <1>0, <2>1
  <1>9. WaitsLast'
    BY <1>0, <1>7, <1>8, WaitsSettled DEF AInv
  <1>10. ASSUME NEW c \in Player, NEW x \in Answers(queue', c), x \notin Answers(queue, c)
         PROVE  \E th \in Thread : \E n \in 1 .. Len(to[th]) :
                   x = <<th, Len(queue[th]) + n>> /\ pairs[to[th][n]].c = c
    <2>1. x \in Spots(queue') /\ queue'[x[1]][x[2]].cmd = "rresp" /\ queue'[x[1]][x[2]].b = c
      BY <1>10 DEF Answers
    <2>2. x = <<x[1], x[2]>> /\ x[1] \in Thread /\ x[2] \in 1 .. Len(queue'[x[1]])
      BY <1>0, <2>1, SpotIs
    <2>15. PICK th \in Thread : th = x[1]
      BY <2>2
    <2>3. PICK j \in 1 .. Len(queue'[th]) : th = x[1] /\ j = x[2]
      BY <2>2, <2>15
    <2>4. PICK new : new = [n \in 1 .. Len(to[th]) |->
                             NewRequest("rresp", NoOne, pairs[to[th][n]].r, pairs[to[th][n]].c, 0)]
      OBVIOUS
    <2>5. PICK S : S = {NewRequest("rresp", NoOne, pairs[to[th][n]].r, pairs[to[th][n]].c, 0) :
                           n \in 1 .. Len(to[th])} \cup Request
      OBVIOUS
    <2>6. new \in [1 .. Len(to[th]) -> S] /\ Len(to[th]) \in Nat
      BY <1>6, <2>4, <2>5
    <2>7. new \in Seq(S) /\ Len(new) = Len(to[th])
      BY <2>6, FcnIsSeq
    <2>8. queue[th] \in Seq(S)
      BY <1>0, <2>5
    <2>9. queue'[th] = queue[th] \o new
      BY <1>5, <2>4
    <2>16. Len(queue[th] \o new) = Len(queue[th]) + Len(new)
      BY <2>7, <2>8, JoinType, Zenon
    <2>17. Len(queue[th]) \in Nat /\ Len(to[th]) \in Nat
      BY <1>0, <1>6
    <2>10. /\ Len(queue'[th]) = Len(queue[th]) + Len(to[th])
           /\ Len(queue[th]) \in Nat /\ Len(to[th]) \in Nat
      BY <2>7, <2>9, <2>16, <2>17
    <2>11. queue'[th][j] = IF j <= Len(queue[th]) THEN queue[th][j] ELSE new[j - Len(queue[th])]
      BY <2>7, <2>8, <2>9, <2>10, JoinAt
    <2>12. CASE j <= Len(queue[th])
      <3>1. queue'[th][j] = queue[th][j] /\ j \in 1 .. Len(queue[th])
        BY <2>10, <2>11, <2>12
      <3>2. x \in Spots(queue)
        BY <1>0, <2>2, <2>3, <3>1, SpotIs
      <3>3. x \in Answers(queue, c)
        BY <2>1, <2>3, <3>1, <3>2 DEF Answers
      <3>4. QED
        BY <1>10, <3>3
    <2>13. CASE ~(j <= Len(queue[th]))
      <3>1. PICK n \in 1 .. Len(to[th]) : n = j - Len(queue[th])
        <4>1. j - Len(queue[th]) \in 1 .. Len(to[th])
          BY <2>10, <2>13
        <4>2. QED
          BY <4>1
      <3>2. queue'[th][j] = new[n] /\ j = Len(queue[th]) + n
        BY <2>10, <2>11, <2>13, <3>1
      <3>3. new[n].b = pairs[to[th][n]].c
        BY <2>4 DEF NewRequest
      <3>4. x = <<th, Len(queue[th]) + n>>
        BY <2>2, <2>3, <3>2
      <3>5. pairs[to[th][n]].c = c
        BY <2>1, <2>3, <3>2, <3>3
      <3>6. QED
        BY <3>4, <3>5
    <2>14. QED
      BY <2>12, <2>13
  <1>11. ASSUME NEW c \in Player PROVE Covered(queue', pairs', c)
    <2>1. /\ Cardinality(Settled(pairs, c)) \in Nat /\ Cardinality(Settled(pairs', c)) \in Nat
          /\ IsFiniteSet(Answers(queue, c)) /\ Cardinality(Answers(queue, c)) \in Nat
      BY <1>0, SettledFinite, AnswersFinite
    <2>2. CASE \A i \in late : pairs[i].c # c
      <3>1. Answers(queue', c) \subseteq Answers(queue, c)
        BY <1>6, <1>10, <2>2
      <3>2. Settled(pairs, c) \subseteq Settled(pairs', c)
        BY <1>7, <1>8 DEF Settled
      <3>3. QED
        BY <3>1, <3>2, CoveredStill DEF AInv
    <2>3. ASSUME NEW i \in late, pairs[i].c = c PROVE Covered(queue', pairs', c)
      <3>1. i \in 1 .. Len(pairs) /\ pairs[i].status = WAITING
        BY <1>0, <1>3
      <3>2. \A j \in late : pairs[j].c = c => j = i
        <4>1. ASSUME NEW j \in late, pairs[j].c = c PROVE j = i
          <5>1. j \in 1 .. Len(pairs) /\ pairs[j].status = WAITING
            BY <1>0, <1>3
          <5>2. ~(i < j) /\ ~(j < i)
            BY <2>3, <3>1, <4>1, <5>1 DEF AInv, WaitsLast
          <5>3. QED
            BY <3>1, <5>1, <5>2
        <4>2. QED
          BY <4>1
      <3>3. PICK th \in Thread : i \in ToSet(to[th])
        BY <1>4
      <3>4. PICK n \in 1 .. Len(to[th]) : to[th][n] = i
        BY <1>6, <3>3 DEF ToSet
      <3>5. Answers(queue', c) \subseteq Answers(queue, c) \cup {<<th, Len(queue[th]) + n>>}
        <4>1. ASSUME NEW x \in Answers(queue', c), x \notin Answers(queue, c)
              PROVE  x = <<th, Len(queue[th]) + n>>
          <5>0. PICK uh \in Thread : \E m \in 1 .. Len(to[uh]) :
                   x = <<uh, Len(queue[uh]) + m>> /\ pairs[to[uh][m]].c = c
            BY <1>10, <4>1
          <5>1. PICK m \in 1 .. Len(to[uh]) : x = <<uh, Len(queue[uh]) + m>> /\ pairs[to[uh][m]].c = c
            BY <5>0
          <5>2. to[uh][m] \in late /\ to[uh][m] \in ToSet(to[uh])
            BY <1>6
          <5>3. to[uh][m] = i
            BY <3>2, <5>1, <5>2
          <5>4. uh = th
            BY <1>4, <3>3, <5>2, <5>3
          <5>5. m = n
            <6>1. m \in Int /\ n \in Int /\ to[th][m] = to[th][n] /\ to[th][n] \in Int
              BY <1>0, <1>6, <3>1, <3>4, <5>3, <5>4
            <6>2. ~(m < n) /\ ~(n < m)
              BY <1>4, <3>4, <5>4, <6>1
            <6>3. QED
              BY <6>1, <6>2
          <5>6. QED
            BY <5>1, <5>4, <5>5
        <4>2. QED
          BY <4>1
      <3>6. Cardinality(Answers(queue', c)) \in Nat
            /\ Cardinality(Answers(queue', c)) <= Cardinality(Answers(queue, c)) + 1
        BY <2>1, <3>5, AtMostOneMore
      <3>7. Cardinality(Settled(pairs, c)) + 1 <= Cardinality(Settled(pairs', c))
        BY <1>0, <1>7, <1>8, <2>3, <3>1, OneSettled
      <3>8. QED
        BY <2>1, <3>6, <3>7 DEF AInv, Covered
    <2>4. QED
      BY <2>2, <2>3
  <1>12. QED
    BY <1>9, <1>11 DEF AInv

LEMMA AnswersStep == TypeOK /\ AInv /\ [Next]_vars => AInv'
  <1> SUFFICES ASSUME TypeOK, AInv, [Next]_vars PROVE AInv'
    OBVIOUS
  <1>1. TypeOK'
    BY TypeStep
  <1>2. CASE UNCHANGED <<queue, pairs>>
    BY <1>2 DEF AInv, WaitsLast
  <1>3. CASE \E w \in Wants : DbinRankingGame(w[1], w[2])
    <2>1. PICK w \in Wants : DbinRankingGame(w[1], w[2])
      BY <1>3
    <2>2. PICK e \in Player, t \in Player : e = w[1] /\ t = w[2]
      OBVIOUS
    <2>3. NewRequest("rgame", e, e, t, 0) \in Request /\ ThreadOf[e] \in Thread
      BY DEF NewRequest, Request
    <2>4. NewRequest("rgame", e, e, t, 0).cmd # "rresp"
      BY DEF NewRequest
    <2>5. QED
      BY <1>1, <2>1, <2>2, <2>3, <2>4, OtherRequest DEF DbinRankingGame
  <1>4. CASE \E i \in 1 .. Len(pairs), e, c \in Player : \E resp \in {ACCEPT, REFUSE} :
                DbinRespRankingGame(i, e, c, resp)
    BY <1>1, <1>4, RespAnswers
  <1>5. CASE \E i \in 1 .. Len(pairs), e \in Player : CancelRankingGame(i, e)
    BY <1>1, <1>5, CancelAnswers
  <1>6. CASE \E e \in Roaming : Login(e) \/ Disconnect(e) \/ Enter(e) \/ Leave(e)
    BY <1>2, <1>6 DEF Login, Disconnect, Enter, Leave
  <1>7. CASE AutoResp
    BY <1>1, <1>7, AutoAnswers
  <1>8. CASE \E th \in Thread : Work(th) \/ Out(th)
    <2>1. ASSUME NEW th \in Thread, Out(th) PROVE AInv'
      BY <1>1, <2>1, RespReplied, OtherReply DEF Out
    <2>2. QED
      BY <1>1, <1>8, <2>1, WorkAnswers
  <1>9. ASSUME NEW r \in RoomId, NEW winner \in {1, 2}, NEW by \in Player \cup {NoOne},
               NEW th \in Thread, WinGame(r, winner, by, th)
        PROVE  AInv'
    <2>1. game[r][1] \in Player /\ game[r][2] \in Player
      BY <1>9, GameParts DEF WinGame
    <2>2. NewRequest("win", by, game[r][1], game[r][2], winner) \in Request
      BY <2>1 DEF NewRequest, Request
    <2>3. NewRequest("win", by, game[r][1], game[r][2], winner).cmd # "rresp"
      BY DEF NewRequest
    <2>4. DbinWrite(th, NewRequest("win", by, game[r][1], game[r][2], winner)) /\ UNCHANGED pairs
      BY <1>9 DEF WinGame
    <2>5. QED
      BY <1>1, <2>2, <2>3, <2>4, OtherRequest
  <1>10. CASE UNCHANGED vars
    BY <1>2, <1>10 DEF vars
  <1>11. QED
    BY <1>3, <1>4, <1>5, <1>6, <1>7, <1>8, <1>9, <1>10 DEF Next

\* A challenge is answered once: whatever the receiver, the challenger, the
\* timer and the workers do at the same time, the answers under way for a
\* challenger never outnumber its settled pairs.
THEOREM AnswersOnce == Spec => []AnsweredOnce
  <1>1. Init => AInv
    <2> SUFFICES ASSUME Init PROVE AInv
      OBVIOUS
    <2>1. WaitsLast
      BY DEF Init, WaitsLast
    <2>2. ASSUME NEW c \in Player PROVE Covered(queue, pairs, c)
      <3>1. TypeOK
        BY TypeInit
      <3>2. Spots(queue) = {}
        BY DEF Init, Spots
      <3>3. Answers(queue, c) = {}
        BY <3>2 DEF Answers
      <3>4. Settled(pairs, c) = {}
        BY DEF Init, Settled
      <3>5. QED
        BY <3>3, <3>4, FS_EmptySet DEF Covered
    <2>3. QED
      BY <2>1, <2>2 DEF AInv
  <1>2. AInv => AnsweredOnce
    BY CoveredIs DEF AInv
  <1>3. QED
    BY <1>1, <1>2, AnswersStep, TypeCorrect, PTL DEF Spec

==============================================================================
