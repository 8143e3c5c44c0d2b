----------------------------- MODULE LobbyProofs -----------------------------
(***************************************************************************)
(* Proofs about the lobby for any users, connections and rooms: its tables *)
(* agree with each other after every handler of the main loop, whatever    *)
(* went wrong before (SeatsExact, SessionsExact, PoolExact), and what      *)
(* holds only as long as no socket is lost without do_clean (QuickExact,   *)
(* RoomAlive) or as long as no master kicks itself out of its own game     *)
(* (TimerMeansAway, PlayersStay).                                          *)
(***************************************************************************)
EXTENDS Lobby, SequenceTheorems, FiniteSetTheorems, WellFoundedInduction, TLAPS

----------------------------------------------------------------------------
(* Induction.  The library's rule takes the induction hypothesis as an     *)
(* operator; here it is a set of numbers, and the rule follows from the    *)
(* order of Nat being well founded.                                        *)

\* The order of the numbers as the set of pairs the library speaks of.
LEMMA LessOnNat ==
    ASSUME NEW R, R = OpToRel(<, Nat), NEW x \in Nat, NEW y \in Nat
    PROVE  <<y, x>> \in R <=> y < x
  BY DEF OpToRel

\* A set of numbers that is not empty has a least element.
LEMMA LeastNat ==
    ASSUME NEW T \in SUBSET Nat, T # {}
    PROVE  \E m \in T : \A k \in T : m <= k
  <1>1. PICK R : R = OpToRel(<, Nat)
    OBVIOUS
  <1>2. IsWellFoundedOn(R, Nat)
    BY <1>1, NatLessThanWellFounded
  <1>3. PICK m \in T : \A k \in T : ~ (<<k, m>> \in R)
    BY <1>2, WFMin
  <1>4. \A k \in T : ~ (k < m)
    BY <1>1, <1>3, LessOnNat
  <1>5. QED
    BY <1>4

\* What holds of 0 and is handed on holds of every number.
LEMMA SetInduction ==
    ASSUME NEW T \in SUBSET Nat, 0 \in T, \A n \in T : n + 1 \in T
    PROVE  T = Nat
  <1> SUFFICES ASSUME Nat \ T # {} PROVE FALSE
    OBVIOUS
  <1>1. PICK m \in Nat \ T : \A k \in Nat \ T : m <= k
    BY LeastNat
  <1>2. m # 0 /\ m - 1 \in Nat
    BY <1>1
  <1>3. m - 1 \in T
    BY <1>1, <1>2
  <1>4. m - 1 + 1 = m
    BY <1>1
  <1>5. QED
    BY <1>1, <1>3, <1>4

----------------------------------------------------------------------------
(* Lists without repetition: the seats of a room, the free list of a       *)
(* channel, the waiting list.                                              *)

\* The places of a list are the numbers up to its length.
LEMMA Places ==
    ASSUME NEW S, NEW s \in Seq(S)
    PROVE  /\ IsInjective(s) <=> \A i, j \in 1 .. Len(s) : s[i] = s[j] => i = j
           /\ \A x : x \in ToSet(s) <=> \E i \in 1 .. Len(s) : x = s[i]
           /\ ToSet(s) \subseteq S
  BY DEF IsInjective, ToSet

\* The places of a sequence without its i-th: later ones move up.
LEMMA WithoutPlace ==
    ASSUME NEW S, NEW s \in Seq(S), NEW i \in 1 .. Len(s)
    PROVE  /\ RemoveAt(s, i) \in Seq(S)
           /\ Len(RemoveAt(s, i)) = Len(s) - 1
           /\ \A j \in 1 .. Len(s) - 1 :
                RemoveAt(s, i)[j] = s[IF j < i THEN j ELSE j + 1]
  <1> DEFINE u == SubSeq(s, 1, i - 1)
             v == SubSeq(s, i + 1, Len(s))
  <1>1. u \in Seq(S) /\ Len(u) = i - 1 /\ \A j \in 1 .. i - 1 : u[j] = s[j]
    BY SubSeqProperties
  <1>2. v \in Seq(S) /\ Len(v) = Len(s) - i /\ \A j \in 1 .. Len(s) - i : v[j] = s[j + i]
    BY SubSeqProperties
  <1>3. RemoveAt(s, i) = u \o v
    BY DEF RemoveAt
  <1> HIDE DEF u, v
  <1>4. u \o v \in Seq(S) /\ Len(u \o v) = Len(s) - 1
    BY <1>1, <1>2
  <1>5. ASSUME NEW j \in 1 .. Len(s) - 1
        PROVE  (u \o v)[j] = s[IF j < i THEN j ELSE j + 1]
    <2>1. CASE j < i
      BY <1>1, <1>2, <2>1
    <2>2. CASE ~(j < i)
      <3>1. j - Len(u) \in 1 .. Len(v) /\ j - Len(u) + i = j + 1
        BY <1>1, <1>2, <2>2
      <3>2. (u \o v)[j] = v[j - Len(u)]
        BY <1>1, <1>2, <2>2
      <3>3. QED
        BY <1>1, <1>2, <3>1, <3>2, <2>2
    <2>3. QED
      BY <2>1, <2>2
  <1>6. QED
    BY <1>3, <1>4, <1>5

\* An element that occurs once is gone after RemoveFirst; the others, and the
\* places before it, are what they were.
LEMMA RemoveOnce ==
    ASSUME NEW S, NEW s \in Seq(S), IsInjective(s), NEW e
    PROVE  /\ RemoveFirst(s, e) \in Seq(S)
           /\ IsInjective(RemoveFirst(s, e))
           /\ ToSet(RemoveFirst(s, e)) = ToSet(s) \ {e}
           /\ Len(RemoveFirst(s, e)) <= Len(s)
           /\ \A i \in 1 .. Len(s) :
                (\A j \in 1 .. i : s[j] # e)
                => i <= Len(RemoveFirst(s, e)) /\ RemoveFirst(s, e)[i] = s[i]
  <1> DEFINE r == RemoveFirst(s, e)
  <1>1. CASE ~ \E i \in 1 .. Len(s) : s[i] = e
    <2>1. r = s
      BY <1>1 DEF RemoveFirst
    <2>2. QED
      BY <1>1, <2>1 DEF ToSet
  <1>2. CASE \E i \in 1 .. Len(s) : s[i] = e
    <2>1. PICK p \in 1 .. Len(s) : s[p] = e
      BY <1>2
    <2>2. {i \in 1 .. Len(s) : s[i] = e} = {p}
      BY <2>1 DEF IsInjective
    <2>3. Min({p}) = p
      BY DEF Min
    <2>4. r = RemoveAt(s, p)
      BY <1>2, <2>2, <2>3 DEF RemoveFirst, SelectInSeq
    <2> HIDE DEF r
    <2>5. /\ r \in Seq(S) /\ Len(r) = Len(s) - 1
          /\ \A j \in 1 .. Len(s) - 1 : r[j] = s[IF j < p THEN j ELSE j + 1]
      BY <2>4, WithoutPlace
    <2>6. IsInjective(r)
      <3>1. SUFFICES ASSUME NEW i \in 1 .. Len(s) - 1, NEW j \in 1 .. Len(s) - 1, r[i] = r[j]
                     PROVE  i = j
        BY <2>5, Places
      <3> DEFINE moved(k) == IF k < p THEN k ELSE k + 1
      <3>2. moved(i) \in 1 .. Len(s) /\ moved(j) \in 1 .. Len(s) /\ (moved(i) = moved(j) => i = j)
        <4>1. CASE i < p /\ j < p
          BY <4>1
        <4>2. CASE i < p /\ ~(j < p)
          BY <4>2
        <4>3. CASE ~(i < p) /\ j < p
          BY <4>3
        <4>4. CASE ~(i < p) /\ ~(j < p)
          BY <4>4
        <4>5. QED
          BY <4>1, <4>2, <4>3, <4>4
      <3>3. s[moved(i)] = s[moved(j)]
        BY <2>5, <3>1
      <3> HIDE DEF moved
      <3>4. QED
        BY <3>2, <3>3, Places
    <2>7. ASSUME NEW i \in 1 .. Len(r) PROVE r[i] \in ToSet(s) \ {e}
      <3>1. PICK j : j = IF i < p THEN i ELSE i + 1
        OBVIOUS
      <3>2. j \in 1 .. Len(s) /\ r[i] = s[j] /\ j # p
        BY <2>5, <3>1
      <3>3. QED
        BY <3>2, <2>1, Places
    <2>8. ASSUME NEW i \in 1 .. Len(s), s[i] # e PROVE s[i] \in ToSet(r)
      <3>1. i # p
        BY <2>1, <2>8
      <3>2. CASE i < p
        <4>1. i \in 1 .. Len(r) /\ r[i] = s[i]
          BY <3>2, <2>5
        <4>2. QED
          BY <4>1, <2>5, Places
      <3>3. CASE i > p
        <4>1. i - 1 \in 1 .. Len(s) - 1 /\ ~(i - 1 < p) /\ i - 1 + 1 = i
          BY <3>3
        <4>2. i - 1 \in 1 .. Len(r) /\ r[i - 1] = s[i]
          BY <4>1, <2>5
        <4>3. QED
          BY <4>2, <2>5, Places
      <3>4. QED
        BY <3>1, <3>2, <3>3
    <2>9. ToSet(r) = ToSet(s) \ {e}
      <3>1. \A x : x \in ToSet(r) => x \in ToSet(s) \ {e}
        BY <2>5, <2>7, Places
      <3>2. \A x : x \in ToSet(s) \ {e} => x \in ToSet(r)
        BY <2>8, Places
      <3>3. QED
        BY <3>1, <3>2
    <2>10. ASSUME NEW i \in 1 .. Len(s), \A j \in 1 .. i : s[j] # e
           PROVE  i <= Len(r) /\ r[i] = s[i]
      <3>1. i < p
        BY <2>1, <2>10
      <3>2. QED
        BY <3>1, <2>5
    <2>11. QED
      BY <2>5, <2>6, <2>9, <2>10 DEF r
  <1>3. QED
    BY <1>1, <1>2

\* A newcomer takes the last place.
LEMMA AppendNew ==
    ASSUME NEW S, NEW s \in Seq(S), IsInjective(s), NEW e \in S, e \notin ToSet(s)
    PROVE  /\ Append(s, e) \in Seq(S)
           /\ IsInjective(Append(s, e))
           /\ ToSet(Append(s, e)) = ToSet(s) \cup {e}
           /\ Len(Append(s, e)) = Len(s) + 1
           /\ \A i \in 1 .. Len(s) : Append(s, e)[i] = s[i]
  <1>1. /\ Append(s, e) \in Seq(S) /\ Len(Append(s, e)) = Len(s) + 1
        /\ \A i \in 1 .. Len(s) : Append(s, e)[i] = s[i]
        /\ Append(s, e)[Len(s) + 1] = e
    OBVIOUS
  <1>2. IsInjective(Append(s, e))
    BY <1>1 DEF IsInjective, ToSet
  <1>3. ToSet(Append(s, e)) = ToSet(s) \cup {e}
    BY <1>1 DEF ToSet
  <1>4. QED
    BY <1>1, <1>2, <1>3

\* What is put in front of a list is its first element.
LEMMA PutInFront ==
    ASSUME NEW S, NEW s \in Seq(S), IsInjective(s), NEW e \in S, e \notin ToSet(s)
    PROVE  /\ <<e>> \o s \in Seq(S)
           /\ IsInjective(<<e>> \o s)
           /\ ToSet(<<e>> \o s) = ToSet(s) \cup {e}
  <1> DEFINE r == <<e>> \o s
  <1>1. /\ r \in Seq(S) /\ Len(r) = Len(s) + 1 /\ r[1] = e
        /\ \A i \in 2 .. Len(s) + 1 : r[i] = s[i - 1]
    OBVIOUS
  <1> HIDE DEF r
  <1>2. IsInjective(r)
    <2>1. \A i, j \in 1 .. Len(s) : s[i] = s[j] => i = j
      BY Places
    <2>2. \A i \in 1 .. Len(s) : s[i] # e
      BY Places
    <2>3. ASSUME NEW i \in 1 .. Len(s) + 1, NEW j \in 1 .. Len(s) + 1, r[i] = r[j]
          PROVE  i = j
      <3>1. CASE i = 1 \/ j = 1
        BY <1>1, <2>2, <2>3, <3>1
      <3>2. CASE i # 1 /\ j # 1
        <4>1. i - 1 \in 1 .. Len(s) /\ j - 1 \in 1 .. Len(s) /\ s[i - 1] = s[j - 1]
          BY <1>1, <2>3, <3>2
        <4>2. QED
          BY <4>1, <2>1
      <3>3. QED
        BY <3>1, <3>2
    <2>4. QED
      BY <2>3, <1>1, Places
  <1>3. \A i \in 1 .. Len(s) : r[i + 1] = s[i] /\ i + 1 \in 1 .. Len(r)
    BY <1>1
  <1>4. 1 \in 1 .. Len(r)
    BY <1>1
  <1>5. ToSet(r) = ToSet(s) \cup {e}
    <2>1. \A x : x \in ToSet(r) => x \in ToSet(s) \cup {e}
      <3>1. ASSUME NEW i \in 1 .. Len(s) + 1 PROVE r[i] = e \/ r[i] \in ToSet(s)
        <4>1. i = 1 \/ i - 1 \in 1 .. Len(s)
          OBVIOUS
        <4>2. QED
          BY <4>1, <1>1, Places
      <3>2. QED
        BY <3>1, <1>1, Places
    <2>2. \A i \in 1 .. Len(s) : s[i] \in ToSet(r)
      BY <1>1, <1>3, Places
    <2>3. e \in ToSet(r)
      BY <1>1, <1>4, Places
    <2>4. \A x : x \in ToSet(s) \cup {e} => x \in ToSet(r)
      BY <2>2, <2>3, Places
    <2>5. QED
      BY <2>1, <2>4
  <1>6. QED
    BY <1>1, <1>2, <1>5 DEF r

\* The first element is taken off the list.
LEMMA TakeFirst ==
    ASSUME NEW S, NEW s \in Seq(S), IsInjective(s), s # <<>>
    PROVE  /\ Head(s) \in ToSet(s) /\ Head(s) \in S
           /\ Tail(s) \in Seq(S)
           /\ IsInjective(Tail(s))
           /\ ToSet(Tail(s)) = ToSet(s) \ {Head(s)}
  <1>1. /\ Len(s) >= 1 /\ Head(s) = s[1] /\ s[1] \in S
        /\ Tail(s) \in Seq(S) /\ Len(Tail(s)) = Len(s) - 1
        /\ \A i \in 1 .. Len(s) - 1 : Tail(s)[i] = s[i + 1]
    OBVIOUS
  <1>2. IsInjective(Tail(s))
    BY <1>1 DEF IsInjective
  <1>3. ToSet(Tail(s)) \subseteq ToSet(s) \ {s[1]}
    BY <1>1 DEF ToSet, IsInjective
  <1>4. ASSUME NEW i \in 1 .. Len(s), s[i] # s[1] PROVE s[i] \in ToSet(Tail(s))
    <2>1. i - 1 \in 1 .. Len(Tail(s)) /\ Tail(s)[i - 1] = s[i]
      BY <1>1, <1>4
    <2>2. QED
      BY <2>1, <1>1, Places
  <1>5. ToSet(Tail(s)) = ToSet(s) \ {s[1]}
    BY <1>3, <1>4, Places
  <1>6. s[1] \in ToSet(s)
    BY <1>1 DEF ToSet
  <1>7. QED
    BY <1>1, <1>2, <1>5, <1>6

\* A finite set of numbers can be put in order.
LEMMA OrderExists ==
    ASSUME NEW n \in Nat
    PROVE  \A R \in SUBSET Nat :
             IsFiniteSet(R) /\ Cardinality(R) = n =>
               \E s \in [1 .. n -> R] : \A i, j \in 1 .. n : i < j => s[i] < s[j]
  <1> DEFINE P(m) == \A R \in SUBSET Nat :
                       IsFiniteSet(R) /\ Cardinality(R) = m =>
                         \E s \in [1 .. m -> R] : \A i, j \in 1 .. m : i < j => s[i] < s[j]
             T == {m \in Nat : P(m)}
  <1>1. P(0)
    <2> SUFFICES ASSUME NEW R \in SUBSET Nat
                 PROVE  \E s \in [1 .. 0 -> R] : \A i, j \in 1 .. 0 : i < j => s[i] < s[j]
      OBVIOUS
    <2>1. \A i \in 1 .. 0 : FALSE
      OBVIOUS
    <2>2. [i \in 1 .. 0 |-> 0] \in [1 .. 0 -> R]
      BY <2>1
    <2> WITNESS [i \in 1 .. 0 |-> 0] \in [1 .. 0 -> R]
    <2>3. QED
      BY <2>1
  <1>2. ASSUME NEW m \in Nat, P(m) PROVE P(m + 1)
    <2> SUFFICES ASSUME NEW R \in SUBSET Nat, IsFiniteSet(R), Cardinality(R) = m + 1
                 PROVE  \E s \in [1 .. m + 1 -> R] :
                          \A i, j \in 1 .. m + 1 : i < j => s[i] < s[j]
      OBVIOUS
    <2>1. R # {}
      BY FS_EmptySet
    <2>2. PICK x \in R : \A y \in R : x <= y
      BY <2>1, LeastNat
    <2>3. IsFiniteSet(R \ {x}) /\ Cardinality(R \ {x}) = m
      <3>1. IsFiniteSet(R \ {x}) /\ Cardinality(R \ {x}) = Cardinality(R) - 1
        BY FS_RemoveElement
      <3>2. QED
        BY <3>1
    <2>4. PICK s \in [1 .. m -> R \ {x}] : \A i, j \in 1 .. m : i < j => s[i] < s[j]
      BY <1>2, <2>3
    <2> DEFINE u == [i \in 1 .. m + 1 |-> IF i = 1 THEN x ELSE s[i - 1]]
    <2>5. u[1] = x /\ \A i \in 2 .. m + 1 : u[i] = s[i - 1] /\ i - 1 \in 1 .. m
      OBVIOUS
    <2>6. u \in [1 .. m + 1 -> R]
      OBVIOUS
    <2> HIDE DEF u
    <2>7. ASSUME NEW i \in 1 .. m + 1, NEW j \in 1 .. m + 1, i < j PROVE u[i] < u[j]
      <3>1. u[j] = s[j - 1] /\ j - 1 \in 1 .. m /\ s[j - 1] \in R \ {x}
        BY <2>5, <2>7
      <3>2. CASE i = 1
        <4>1. x <= s[j - 1] /\ x # s[j - 1] /\ x \in Nat /\ s[j - 1] \in Nat
          BY <2>2, <3>1
        <4>2. QED
          BY <2>5, <3>1, <3>2, <4>1
      <3>3. CASE i # 1
        <4>1. u[i] = s[i - 1] /\ i - 1 \in 1 .. m /\ i - 1 < j - 1
          BY <2>5, <2>7, <3>3
        <4>2. QED
          BY <2>4, <3>1, <4>1
      <3>4. QED
        BY <3>2, <3>3
    <2>8. QED
      BY <2>6, <2>7
  <1>3. 0 \in T /\ \A m \in T : m + 1 \in T
    <2> HIDE DEF P
    <2>1. QED
      BY <1>1, <1>2
  <1>4. T \in SUBSET Nat
    OBVIOUS
  <1>5. T = Nat
    <2> HIDE DEF T
    <2>1. QED
      BY <1>3, <1>4, SetInduction
  <1>6. QED
    BY <1>5

\* The rooms of a set in order: each room once.
LEMMA InOrderList ==
    ASSUME NEW R \in SUBSET Nat, IsFiniteSet(R)
    PROVE  /\ InOrder(R) \in Seq(R)
           /\ IsInjective(InOrder(R))
           /\ ToSet(InOrder(R)) = R
  <1> DEFINE n == Cardinality(R)
             s == InOrder(R)
             Sorted(u) == \A i, j \in DOMAIN u : i < j => u[i] < u[j]
  <1>1. n \in Nat
    BY FS_CardinalityType
  <1>2. \E u \in [1 .. n -> R] : Sorted(u)
    <2>1. PICK u \in [1 .. n -> R] : \A i, j \in 1 .. n : i < j => u[i] < u[j]
      BY <1>1, OrderExists
    <2>2. QED
      BY <2>1
  <1>3. s \in [1 .. n -> R] /\ Sorted(s)
    BY <1>2 DEF InOrder
  <1> HIDE DEF s
  <1>4. \A i, j \in 1 .. n : s[i] = s[j] => i = j
    <2>1. \A i, j \in 1 .. n : i < j => s[i] < s[j]
      BY <1>3
    <2>2. \A i \in 1 .. n : s[i] \in Nat
      BY <1>3
    <2> HIDE DEF n
    <2>3. QED
      BY <1>1, <2>1, <2>2
  <1> HIDE DEF n
  <1>5. s \in Injection(1 .. n, R)
    BY <1>3, <1>4 DEF Injection, IsInjective
  <1>6. Cardinality(1 .. n) = n
    BY <1>1, FS_Interval
  <1>7. s \in Surjection(1 .. n, R)
    BY <1>1, <1>5, <1>6, FS_Injection DEF n
  <1>8. s \in Seq(R) /\ Len(s) = n
    BY <1>1, <1>3
  <1>9. IsInjective(s)
    BY <1>4, <1>8, Places
  <1>10. ToSet(s) = R
    <2>1. \A x \in R : \E i \in 1 .. n : s[i] = x
      BY <1>7 DEF Surjection
    <2>2. \A x \in R : x \in ToSet(s)
      BY <2>1, <1>8, Places
    <2>3. ToSet(s) \subseteq R
      BY <1>8, Places
    <2>4. QED
      BY <2>2, <2>3
  <1>11. QED
    BY <1>8, <1>9, <1>10 DEF s

----------------------------------------------------------------------------
(* The inductive invariant, as a predicate on the tables: the functions of *)
(* the server are called one after the other within a handler, and each    *)
(* finds the tables as it needs them.                                      *)

RoomRec == [state : {0, ST_ROOM, ST_GAME}, guest : Seq(EID \cup AI), lua : BOOLEAN,
            off : [1 .. 2 -> 0 .. FOLD_PASSES]]

Tables == [up : BOOLEAN, conn : [CID -> Conns], index : [EID -> CID],
           userRoom : [EID -> ROOM \cup {NoRoom}], room : [ROOM -> RoomRec],
           pool : [Channel -> Seq(ROOM)], quick : Seq(EID)]

\* Who is logged in is found by the index, its room is the one it has a seat
\* in, and its level that of the room.
SessionAt(t, c) ==
    LET k == t.conn[c] IN
    k.eid # NoEid =>
      /\ k.up /\ t.index[k.eid] = c
      /\ k.room = t.userRoom[k.eid]
      /\ k.st # ST_NULL
      /\ k.room = NoRoom => k.st = ST_LOGIN
      /\ k.room # NoRoom => /\ t.room[k.room].state = ST_ROOM => k.st = ST_ROOM
                            /\ t.room[k.room].lua => k.st = ST_GAME

\* Who is not logged in is nowhere.
IdleAt(t, c) == t.conn[c].eid = NoEid => t.conn[c].room = NoRoom /\ t.conn[c].st = ST_NULL

\* A free room is zeroed, the game VM exists in a running game only, and
\* nobody has two of the seats.
RoomAt(t, r) ==
    /\ t.room[r].state = 0 => t.room[r] = FreeRoomRec
    /\ t.room[r].lua => t.room[r].state = ST_GAME
    /\ Len(t.room[r].guest) <= MAX_GUEST
    /\ IsInjective(t.room[r].guest)

SeatAt(t, r, e) == t.userRoom[e] = r <=> e \in ToSet(t.room[r].guest)

PoolAt(t, ch) ==
    /\ t.pool[ch] \in Seq(ch)
    /\ IsInjective(t.pool[ch])
    /\ ToSet(t.pool[ch]) = {r \in ch : t.room[r].state = 0}

\* What every function of the lobby keeps; IdleAt is left out, as out_login
\* breaks it for its own connection until it is done.
Sound(t) ==
    /\ t \in Tables
    /\ \A c \in CID : SessionAt(t, c)
    /\ \A r \in ROOM : RoomAt(t, r)
    /\ \A r \in ROOM, e \in EID : SeatAt(t, r, e)
    /\ \A ch \in Channel : PoolAt(t, ch)
    /\ IsInjective(t.quick)

----------------------------------------------------------------------------
(* The constants and the look-ups.                                         *)

\* What the assumptions say of the tables' indices.
LEMMA Indices ==
    /\ NoRoom \notin ROOM /\ ROOM \subseteq Nat
    /\ NoConn \notin CID /\ 0 \in CID
    /\ NoEid \notin EID /\ NoEid \notin AI /\ EID \cap AI = {}
    /\ QuickRooms \in Channel /\ CustomRooms \in Channel
    /\ \A ch \in Channel : ch \subseteq ROOM
    /\ \A r \in ROOM : \E ch \in Channel : r \in ch
    /\ QuickRooms \cap CustomRooms = {}
  BY LobbyAssumption DEF NoRoom, ROOM, NoConn, CID, Channel

\* The types of the tables' entries.
LEMMA Entries ==
    ASSUME NEW t \in Tables
    PROVE  /\ \A c \in CID : t.conn[c] \in Conns
           /\ \A c \in CID : /\ t.conn[c].eid \in EID \cup {NoEid}
                             /\ t.conn[c].room \in ROOM \cup {NoRoom}
                             /\ t.conn[c].st \in {0, 5, 10, 15}
                             /\ t.conn[c].up \in BOOLEAN
           /\ \A e \in EID : t.index[e] \in CID /\ t.userRoom[e] \in ROOM \cup {NoRoom}
           /\ \A r \in ROOM : /\ t.room[r] \in RoomRec
                              /\ t.room[r].state \in {0, 10, 15}
                              /\ t.room[r].guest \in Seq(EID \cup AI)
                              /\ t.room[r].lua \in BOOLEAN
                              /\ t.room[r].off \in [1 .. 2 -> 0 .. FOLD_PASSES]
           /\ \A ch \in Channel : t.pool[ch] \in Seq(ROOM)
           /\ t.quick \in Seq(EID)
  BY DEF Tables, Conns, RoomRec, ST_NULL, ST_LOGIN, ST_ROOM, ST_GAME

\* get_conn_by_eid() finds the connection that is logged in as e.
LEMMA WhereIs ==
    ASSUME NEW t \in Tables, \A c \in CID : SessionAt(t, c), NEW e
    PROVE  /\ ConnOf(t, e) \in CID \cup {NoConn}
           /\ \A c \in CID : ConnOf(t, e) = c <=> (e \in EID /\ t.conn[c].eid = e)
           /\ Online(t, e) <=> (e \in EID /\ \E c \in CID : t.conn[c].eid = e)
  <1>1. CASE e \in EID
    <2>1. t.index[e] \in CID /\ e # NoEid
      BY <1>1, Entries, Indices
    <2>2. ASSUME NEW c \in CID, t.conn[c].eid = e PROVE t.conn[c].up /\ t.index[e] = c
      BY <2>1, <2>2 DEF SessionAt
    <2>3. CASE t.conn[t.index[e]].up /\ t.conn[t.index[e]].eid = e
      <3>1. ConnOf(t, e) = t.index[e]
        BY <1>1, <2>3 DEF ConnOf
      <3>2. QED
        BY <1>1, <2>1, <2>2, <2>3, <3>1, Indices DEF Online
    <2>4. CASE ~(t.conn[t.index[e]].up /\ t.conn[t.index[e]].eid = e)
      <3>1. ConnOf(t, e) = NoConn
        BY <1>1, <2>4 DEF ConnOf
      <3>2. ~ \E c \in CID : t.conn[c].eid = e
        BY <2>2, <2>4
      <3>3. QED
        BY <3>1, <3>2, Indices DEF Online
    <2>5. QED
      BY <2>3, <2>4
  <1>2. CASE e \notin EID
    <2>1. ConnOf(t, e) = NoConn
      BY <1>2 DEF ConnOf
    <2>2. QED
      BY <1>2, <2>1, Indices DEF Online
  <1>3. QED
    BY <1>1, <1>2

\* room_active_user(): who is logged in on a connection that is in r.
LEMMA WhoIsActive ==
    ASSUME NEW t, Sound(t), NEW r \in ROOM, NEW x
    PROVE  ActiveUsers(t, r, x) =
             {e \in EID \ {x} : \E c \in CID : t.conn[c].eid = e /\ t.conn[c].room = r}
  <1>1. t \in Tables /\ \A c \in CID : SessionAt(t, c)
    BY DEF Sound
  <1>2. ASSUME NEW e, NEW c \in CID, e \in EID, t.conn[c].eid = e, t.conn[c].room = r
        PROVE  e \in ToSet(t.room[r].guest)
    <2>1. t.userRoom[e] = r
      BY <1>1, <1>2, Indices DEF SessionAt
    <2>2. QED
      BY <2>1, <1>2 DEF Sound, SeatAt
  <1>3. \A e : e \in ActiveUsers(t, r, x) <=>
                 /\ e \in ToSet(t.room[r].guest) /\ e # x /\ Online(t, e)
                 /\ t.conn[ConnOf(t, e)].room = r
    BY DEF ActiveUsers, Guests
  <1>4. ASSUME NEW e, e \in ActiveUsers(t, r, x)
        PROVE  e \in EID /\ e # x /\ \E c \in CID : t.conn[c].eid = e /\ t.conn[c].room = r
    BY <1>1, <1>3, <1>4, WhereIs
  <1>5. ASSUME NEW e \in EID, e # x, NEW c \in CID, t.conn[c].eid = e, t.conn[c].room = r
        PROVE  e \in ActiveUsers(t, r, x)
    <2>1. Online(t, e) /\ ConnOf(t, e) = c
      BY <1>1, <1>5, WhereIs
    <2>2. QED
      BY <1>2, <1>3, <1>5, <2>1
  <1>6. QED
    BY <1>4, <1>5

----------------------------------------------------------------------------
(* Seats are given up.                                                     *)

\* The connection k of somebody who is sent back to the lobby.
Outside(k) == [k EXCEPT !.room = NoRoom, !.st = ST_LOGIN]

\* The connections of t after the users of G lost their seats.
ConnsWithout(t, G) ==
    [c \in CID |-> IF t.conn[c].eid \in G \ {NoEid} THEN Outside(t.conn[c]) ELSE t.conn[c]]

\* What Outside changes of a connection.
LEMMA OutsideIs ==
    ASSUME NEW k \in Conns
    PROVE  /\ Outside(k) \in Conns
           /\ Outside(k).up = k.up /\ Outside(k).eid = k.eid /\ Outside(k).busy = k.busy
           /\ Outside(k).room = NoRoom /\ Outside(k).st = ST_LOGIN
  BY DEF Outside, Conns, ST_LOGIN

\* Guests of one room lose their seats there, and the tables stay sound.
LEMMA LeaveSound ==
    ASSUME NEW t, Sound(t), NEW r \in ROOM, NEW G,
           NEW s \in Tables,
           G \subseteq ToSet(t.room[r].guest),
           s.conn = ConnsWithout(t, G), s.index = t.index, s.quick = t.quick,
           \A e \in EID : s.userRoom[e] = IF e \in G THEN NoRoom ELSE t.userRoom[e],
           \A q \in ROOM \ {r} : s.room[q] = t.room[q],
           RoomAt(s, r),
           ToSet(s.room[r].guest) = ToSet(t.room[r].guest) \ G,
           \/ ToSet(s.room[r].guest) = {}
           \/ s.room[r].state = t.room[r].state /\ s.room[r].lua = t.room[r].lua,
           \A ch \in Channel : PoolAt(s, ch)
    PROVE  Sound(s)
  <1>1. /\ t \in Tables /\ \A c \in CID : SessionAt(t, c)
        /\ \A q \in ROOM : RoomAt(t, q)
        /\ \A q \in ROOM, e \in EID : SeatAt(t, q, e)
        /\ IsInjective(t.quick)
    BY DEF Sound
  <1>2. ASSUME NEW c \in CID PROVE SessionAt(s, c)
    <2>1. SUFFICES ASSUME s.conn[c].eid # NoEid
                   PROVE  /\ s.conn[c].up /\ s.index[s.conn[c].eid] = c
                          /\ s.conn[c].room = s.userRoom[s.conn[c].eid]
                          /\ s.conn[c].st # ST_NULL
                          /\ s.conn[c].room = NoRoom => s.conn[c].st = ST_LOGIN
                          /\ s.conn[c].room # NoRoom =>
                               /\ s.room[s.conn[c].room].state = ST_ROOM => s.conn[c].st = ST_ROOM
                               /\ s.room[s.conn[c].room].lua => s.conn[c].st = ST_GAME
      BY DEF SessionAt
    <2>2. t.conn[c] \in Conns /\ SessionAt(t, c)
      BY <1>1, Entries
    <2>3. CASE t.conn[c].eid \in G
      <3>1. s.conn[c] = Outside(t.conn[c])
        <4>1. t.conn[c].eid # NoEid
          BY <2>1, <2>2, OutsideIs DEF ConnsWithout
        <4>2. QED
          BY <4>1, <2>3 DEF ConnsWithout
      <3>2. /\ s.conn[c].up = t.conn[c].up /\ s.conn[c].eid = t.conn[c].eid
            /\ s.conn[c].room = NoRoom /\ s.conn[c].st = ST_LOGIN
        BY <2>2, <3>1, OutsideIs
      <3>3. t.conn[c].eid \in EID
        BY <1>1, <2>1, <3>2, Entries
      <3>4. s.userRoom[t.conn[c].eid] = NoRoom
        BY <2>3, <3>3
      <3>5. t.conn[c].up /\ t.index[t.conn[c].eid] = c
        BY <2>1, <2>2, <3>2 DEF SessionAt
      <3>6. QED
        BY <3>2, <3>4, <3>5 DEF ST_LOGIN, ST_NULL
    <2>4. CASE t.conn[c].eid \notin G
      <3>1. s.conn[c] = t.conn[c]
        BY <2>4 DEF ConnsWithout
      <3> DEFINE e == t.conn[c].eid
                 q == t.conn[c].room
      <3>2. e \in EID /\ e # NoEid /\ q \in ROOM \cup {NoRoom}
        BY <1>1, <2>1, <3>1, Entries
      <3>3. /\ t.conn[c].up /\ t.index[e] = c /\ q = t.userRoom[e] /\ t.conn[c].st # ST_NULL
            /\ q = NoRoom => t.conn[c].st = ST_LOGIN
            /\ q # NoRoom => /\ t.room[q].state = ST_ROOM => t.conn[c].st = ST_ROOM
                             /\ t.room[q].lua => t.conn[c].st = ST_GAME
        BY <2>2, <3>2 DEF SessionAt
      <3>4. s.userRoom[e] = q
        BY <2>4, <3>2, <3>3
      <3>5. ASSUME q # NoRoom
            PROVE  s.room[q].state = t.room[q].state /\ s.room[q].lua = t.room[q].lua
        <4>1. q \in ROOM /\ e \in ToSet(t.room[q].guest)
          BY <1>1, <3>2, <3>3, <3>5 DEF SeatAt
        <4>2. CASE q = r
          BY <2>4, <4>1, <4>2
        <4>3. CASE q # r
          BY <4>1, <4>3
        <4>4. QED
          BY <4>2, <4>3
      <3> HIDE DEF q, e
      <3>6. s.conn[c].eid = e /\ s.conn[c].room = q
        BY <3>1 DEF e, q
      <3>7. QED
        BY <3>1, <3>3, <3>4, <3>5, <3>6
    <2>5. QED
      BY <2>3, <2>4
  <1>3. ASSUME NEW q \in ROOM PROVE RoomAt(s, q)
    BY <1>1 DEF RoomAt
  <1>4. ASSUME NEW q \in ROOM, NEW e \in EID PROVE SeatAt(s, q, e)
    <2>1. t.userRoom[e] = q <=> e \in ToSet(t.room[q].guest)
      BY <1>1 DEF SeatAt
    <2>2. t.userRoom[e] = r <=> e \in ToSet(t.room[r].guest)
      BY <1>1 DEF SeatAt
    <2>3. QED
      BY <2>1, <2>2, Indices DEF SeatAt
  <1>5. QED
    BY <1>1, <1>2, <1>3, <1>4 DEF Sound

\* s is t with room r freed, table by table.
RoomFreed(t, r, s) ==
    /\ s \in Tables
    /\ (s.up = t.up) /\ s.index = t.index /\ s.quick = t.quick
    /\ s.conn = ConnsWithout(t, Guests(t, r))
    /\ s.userRoom = [e \in EID |-> IF e \in Guests(t, r) THEN NoRoom ELSE t.userRoom[e]]
    /\ s.room = [t.room EXCEPT ![r] = FreeRoomRec]
    /\ s.pool = [ch \in Channel |-> IF r \in ch THEN <<r>> \o t.pool[ch] ELSE t.pool[ch]]

\* free_room(): the tables it leaves.
LEMMA FreeRoomIs ==
    ASSUME NEW t, Sound(t), NEW r \in ROOM, t.room[r].state # 0
    PROVE  RoomFreed(t, r, FreeRoom(t, r))
  <1> DEFINE conn1 == [c \in CID |->
                         IF \E e \in Guests(t, r) : ConnOf(t, e) = c
                         THEN [t.conn[c] EXCEPT !.room = NoRoom,
                                                !.st = IF t.conn[c].st >= ST_ROOM THEN ST_LOGIN
                                                       ELSE t.conn[c].st]
                         ELSE t.conn[c]]
             user1 == [e \in EID |-> IF e \in Guests(t, r) THEN NoRoom ELSE t.userRoom[e]]
             room1 == [t.room EXCEPT ![r] = FreeRoomRec]
             pool1 == [ch \in Channel |-> IF r \in ch THEN <<r>> \o t.pool[ch] ELSE t.pool[ch]]
             s == FreeRoom(t, r)
  <1>1. t \in Tables /\ \A c \in CID : SessionAt(t, c)
    BY DEF Sound
  <1>2. conn1 = ConnsWithout(t, Guests(t, r))
    <2> SUFFICES ASSUME NEW c \in CID PROVE conn1[c] = ConnsWithout(t, Guests(t, r))[c]
      BY DEF ConnsWithout
    <2>1. t.conn[c] \in Conns /\ t.conn[c].eid \in EID \cup {NoEid} /\ t.conn[c].st \in {0, 5, 10, 15}
      BY <1>1, Entries
    <2>2. (\E e \in Guests(t, r) : ConnOf(t, e) = c) <=> t.conn[c].eid \in Guests(t, r) \ {NoEid}
      BY <1>1, <2>1, WhereIs, Indices
    <2>3. t.conn[c].eid # NoEid => t.conn[c].st # 0
      BY <1>1 DEF SessionAt, ST_NULL
    <2>4. CASE t.conn[c].eid \in Guests(t, r) \ {NoEid}
      <3>1. (IF t.conn[c].st >= ST_ROOM THEN ST_LOGIN ELSE t.conn[c].st) = ST_LOGIN
        BY <2>1, <2>3, <2>4 DEF ST_ROOM, ST_LOGIN
      <3>2. conn1[c] = Outside(t.conn[c])
        BY <2>2, <2>4, <3>1 DEF Outside
      <3>3. QED
        BY <2>4, <3>2 DEF ConnsWithout
    <2>5. CASE ~(t.conn[c].eid \in Guests(t, r) \ {NoEid})
      BY <2>2, <2>5 DEF ConnsWithout
    <2>6. QED
      BY <2>4, <2>5
  <1>3. conn1 \in [CID -> Conns]
    <2>1. ConnsWithout(t, Guests(t, r)) \in [CID -> Conns]
      BY <1>1, Entries, OutsideIs DEF ConnsWithout
    <2>2. QED
      BY <1>2, <2>1
  <1>4. user1 \in [EID -> ROOM \cup {NoRoom}]
    BY <1>1, Entries
  <1>5. FreeRoomRec \in RoomRec
    <2>1. FreeRoomRec.off \in [1 .. 2 -> 0 .. FOLD_PASSES]
      BY LobbyAssumption DEF FreeRoomRec
    <2>2. <<>> \in Seq(EID \cup AI)
      OBVIOUS
    <2>3. QED
      BY <2>1, <2>2 DEF FreeRoomRec, RoomRec
  <1>6. room1 \in [ROOM -> RoomRec]
    BY <1>1, <1>5 DEF Tables
  <1>7. pool1 \in [Channel -> Seq(ROOM)]
    <2>1. \A ch \in Channel : t.pool[ch] \in Seq(ROOM)
      BY <1>1, Entries
    <2>2. \A v \in Seq(ROOM) : <<r>> \o v \in Seq(ROOM)
      OBVIOUS
    <2>3. QED
      BY <2>1, <2>2
  <1>8. s = [t EXCEPT !.userRoom = user1, !.conn = conn1, !.room = room1, !.pool = pool1]
    BY <1>1 DEF FreeRoom, Tables
  <1> HIDE DEF conn1, user1, room1, pool1, s
  <1>9. /\ s \in Tables /\ s.up = t.up /\ s.index = t.index /\ s.quick = t.quick
        /\ s.conn = conn1 /\ s.userRoom = user1 /\ s.room = room1 /\ s.pool = pool1
    BY <1>1, <1>3, <1>4, <1>6, <1>7, <1>8 DEF Tables
  <1>10. QED
    BY <1>2, <1>9 DEF user1, room1, pool1, s, RoomFreed

\* free_room() leaves sound tables.
LEMMA FreeRoomSound ==
    ASSUME NEW t, Sound(t), NEW r \in ROOM, t.room[r].state # 0,
           NEW s, RoomFreed(t, r, s)
    PROVE  Sound(s)
  <1>2. /\ t \in Tables /\ \A ch \in Channel : PoolAt(t, ch)
    BY DEF Sound
  <1>3. /\ s \in Tables /\ s.index = t.index /\ s.quick = t.quick
        /\ s.conn = ConnsWithout(t, Guests(t, r))
        /\ s.userRoom = [e \in EID |-> IF e \in Guests(t, r) THEN NoRoom ELSE t.userRoom[e]]
        /\ s.room = [t.room EXCEPT ![r] = FreeRoomRec]
        /\ s.pool = [ch \in Channel |-> IF r \in ch THEN <<r>> \o t.pool[ch] ELSE t.pool[ch]]
    BY DEF RoomFreed
  <1>4. s.room[r] = FreeRoomRec /\ \A q \in ROOM \ {r} : s.room[q] = t.room[q]
    BY <1>2, <1>3 DEF Tables
  <1>5. FreeRoomRec.guest = <<>> /\ FreeRoomRec.state = 0 /\ FreeRoomRec.lua = FALSE
    BY DEF FreeRoomRec
  <1>6. RoomAt(s, r)
    BY <1>4, <1>5, LobbyAssumption DEF RoomAt, IsInjective
  <1>7. ToSet(s.room[r].guest) = {}
    BY <1>4, <1>5 DEF ToSet
  <1>8. ASSUME NEW ch \in Channel PROVE PoolAt(s, ch)
    <2>1. /\ t.pool[ch] \in Seq(ch) /\ IsInjective(t.pool[ch])
          /\ ToSet(t.pool[ch]) = {q \in ch : t.room[q].state = 0}
      BY <1>2 DEF PoolAt
    <2>2. ch \subseteq ROOM
      BY Indices
    <2>3. CASE r \in ch
      <3>1. s.pool[ch] = <<r>> \o t.pool[ch]
        BY <1>3, <2>3
      <3>2. r \notin ToSet(t.pool[ch])
        BY <2>1
      <3>3. s.pool[ch] \in Seq(ch) /\ IsInjective(s.pool[ch]) /\ ToSet(s.pool[ch]) = ToSet(t.pool[ch]) \cup {r}
        BY <2>1, <2>3, <3>1, <3>2, PutInFront
      <3>4. {q \in ch : s.room[q].state = 0} = {q \in ch : t.room[q].state = 0} \cup {r}
        BY <1>4, <1>5, <2>2, <2>3
      <3>5. QED
        BY <2>1, <3>3, <3>4 DEF PoolAt
    <2>4. CASE r \notin ch
      <3>1. s.pool[ch] = t.pool[ch]
        BY <1>3, <2>4
      <3>2. {q \in ch : s.room[q].state = 0} = {q \in ch : t.room[q].state = 0}
        BY <1>4, <2>2, <2>4
      <3>3. QED
        BY <2>1, <3>1, <3>2 DEF PoolAt
    <2>5. QED
      BY <2>3, <2>4
  <1>9. Sound(s)
    <2> DEFINE G == ToSet(t.room[r].guest)
    <2>1. \A e \in EID : s.userRoom[e] = IF e \in G THEN NoRoom ELSE t.userRoom[e]
      BY <1>3 DEF Guests
    <2>2. s.conn = ConnsWithout(t, G)
      BY <1>3 DEF Guests
    <2>3. ToSet(s.room[r].guest) = ToSet(t.room[r].guest) \ G
      BY <1>7
    <2> HIDE DEF G
    <2>4. G \subseteq ToSet(t.room[r].guest)
      BY DEF G
    <2>5. QED
      BY <1>3, <1>4, <1>6, <1>7, <1>8, <2>1, <2>2, <2>3, <2>4, LeaveSound
  <1>10. QED
    BY <1>9

\* do_room_del(): the tables it leaves, and that they are sound.
LEMMA DoRoomDelIs ==
    ASSUME NEW t, Sound(t), NEW r \in ROOM, NEW e \in ToSet(t.room[r].guest),
           NEW s, s = DoRoomDel(t, r, ConnOf(t, e), e)
    PROVE  /\ Sound(s)
           /\ s.up = t.up /\ s.index = t.index /\ s.quick = t.quick /\ s.pool = t.pool
           /\ s.conn = ConnsWithout(t, {e})
           /\ \A q \in ROOM \ {r} : s.room[q] = t.room[q]
           /\ s.room[r].state = t.room[r].state /\ s.room[r].lua = t.room[r].lua
           /\ s.room[r].off = t.room[r].off
           /\ s.room[r].guest = RemoveFirst(t.room[r].guest, e)
  <1> DEFINE g1 == RemoveFirst(t.room[r].guest, e)
             user1 == [u \in EID |-> IF u = e THEN NoRoom ELSE t.userRoom[u]]
             rec1 == [t.room[r] EXCEPT !.guest = g1]
             room1 == [t.room EXCEPT ![r] = rec1]
  <1>1. /\ t \in Tables /\ \A d \in CID : SessionAt(t, d)
        /\ RoomAt(t, r) /\ \A ch \in Channel : PoolAt(t, ch)
        /\ IsInjective(t.quick)
    BY DEF Sound
  <1>2. /\ t.room[r] \in RoomRec /\ t.room[r].guest \in Seq(EID \cup AI)
        /\ e \in EID \cup AI
    BY <1>1, Entries, Places
  <1>3. /\ g1 \in Seq(EID \cup AI) /\ IsInjective(g1)
        /\ ToSet(g1) = ToSet(t.room[r].guest) \ {e}
        /\ Len(g1) <= Len(t.room[r].guest)
    BY <1>1, <1>2, RemoveOnce DEF RoomAt
  <1>4. s.conn = ConnsWithout(t, {e}) /\ ConnsWithout(t, {e}) \in [CID -> Conns]
    <2>1. s.conn = [d \in CID |-> IF d = ConnOf(t, e) THEN Outside(t.conn[d]) ELSE t.conn[d]]
      BY <1>1 DEF DoRoomDel, Tables, Outside
    <2>2. ASSUME NEW d \in CID
          PROVE  /\ d = ConnOf(t, e) <=> t.conn[d].eid \in {e} \ {NoEid}
                 /\ t.conn[d] \in Conns /\ Outside(t.conn[d]) \in Conns
      <3>1. t.conn[d].eid \in EID \cup {NoEid} /\ t.conn[d] \in Conns
        BY <1>1, Entries
      <3>2. d = ConnOf(t, e) <=> (e \in EID /\ t.conn[d].eid = e)
        BY <1>1, WhereIs
      <3>3. QED
        BY <1>2, <3>1, <3>2, Indices, OutsideIs
    <2>3. QED
      BY <2>1, <2>2 DEF ConnsWithout
  <1>5. user1 \in [EID -> ROOM \cup {NoRoom}]
    BY <1>1, Entries
  <1> HIDE DEF g1
  <1>6. /\ rec1 \in RoomRec /\ rec1.guest = g1
        /\ rec1.state = t.room[r].state /\ rec1.lua = t.room[r].lua /\ rec1.off = t.room[r].off
    BY <1>2, <1>3 DEF RoomRec
  <1>7. room1 \in [ROOM -> RoomRec]
    BY <1>1, <1>6 DEF Tables
  <1>8. s = [t EXCEPT !.userRoom = user1, !.conn = s.conn, !.room = room1]
    BY <1>1 DEF DoRoomDel, Tables, g1
  <1> HIDE DEF rec1
  <1>9. room1[r] = rec1 /\ \A q \in ROOM \ {r} : room1[q] = t.room[q]
    BY <1>1 DEF Tables
  <1> HIDE DEF user1, room1
  <1>10. /\ s \in Tables /\ s.up = t.up /\ s.index = t.index /\ s.quick = t.quick
         /\ s.userRoom = user1 /\ s.room = room1 /\ s.pool = t.pool
    BY <1>1, <1>4, <1>5, <1>7, <1>8 DEF Tables
  <1>11. t.room[r].state # 0
    <2>1. FreeRoomRec.guest = <<>> /\ ToSet(<<>>) = {}
      BY DEF FreeRoomRec, ToSet
    <2>2. QED
      BY <1>1, <2>1 DEF RoomAt
  <1>12. RoomAt(s, r)
    BY <1>1, <1>2, <1>3, <1>6, <1>9, <1>10, <1>11, LobbyAssumption DEF RoomAt
  <1>13. ASSUME NEW ch \in Channel PROVE PoolAt(s, ch)
    <2>1. {q \in ch : s.room[q].state = 0} = {q \in ch : t.room[q].state = 0}
      BY <1>6, <1>9, <1>10, Indices
    <2>2. QED
      BY <1>1, <1>10, <2>1 DEF PoolAt
  <1>14. /\ \A u \in EID : s.userRoom[u] = IF u \in {e} THEN NoRoom ELSE t.userRoom[u]
         /\ \A q \in ROOM \ {r} : s.room[q] = t.room[q]
         /\ ToSet(s.room[r].guest) = ToSet(t.room[r].guest) \ {e}
         /\ s.room[r].state = t.room[r].state /\ s.room[r].lua = t.room[r].lua
         /\ {e} \subseteq ToSet(t.room[r].guest)
    BY <1>3, <1>6, <1>9, <1>10 DEF user1
  <1>15. Sound(s)
    BY <1>4, <1>10, <1>12, <1>13, <1>14, LeaveSound
  <1>16. QED
    BY <1>4, <1>6, <1>9, <1>10, <1>14, <1>15 DEF g1

----------------------------------------------------------------------------
(* Seats are taken, or a room changes under its guests.                    *)

\* The users of G get a seat of r, whose guests are told its new level; with
\* no room at all (r = NoConn) only what SessionAt does not read changes.
Seated(t, r, G, s) ==
    /\ r \in ROOM \/ (r = NoConn /\ G = {})
    /\ s \in Tables /\ s.index = t.index /\ IsInjective(s.quick)
    /\ \A q \in ROOM \ {r} : s.room[q] = t.room[q]
    /\ r \in ROOM => RoomAt(s, r) /\ ToSet(s.room[r].guest) = ToSet(t.room[r].guest) \cup G
    /\ \A e \in EID : s.userRoom[e] = IF e \in G THEN r ELSE t.userRoom[e]
    /\ \A e \in EID : e \in G => t.userRoom[e] \in {NoRoom, r}
    /\ \A c \in CID :
         /\ s.conn[c].eid = t.conn[c].eid
         /\ t.conn[c].eid # NoEid =>
              /\ (s.conn[c].up = t.conn[c].up)
              /\ \/ /\ t.conn[c].eid \in G \/ t.conn[c].room = r
                    /\ s.conn[c].room = r /\ s.conn[c].st # ST_NULL
                    /\ s.room[r].state = ST_ROOM => s.conn[c].st = ST_ROOM
                    /\ s.room[r].lua => s.conn[c].st = ST_GAME
                 \/ /\ ~(t.conn[c].eid \in G \/ t.conn[c].room = r)
                    /\ s.conn[c].room = t.conn[c].room /\ s.conn[c].st = t.conn[c].st
    /\ \A ch \in Channel : PoolAt(s, ch)

\* The tables stay sound.
LEMMA SeatSound ==
    ASSUME NEW t, Sound(t), NEW r, NEW G, NEW s, Seated(t, r, G, s)
    PROVE  Sound(s)
  <1>1. /\ t \in Tables /\ \A c \in CID : SessionAt(t, c)
        /\ \A q \in ROOM : RoomAt(t, q)
        /\ \A q \in ROOM, e \in EID : SeatAt(t, q, e)
    BY DEF Sound
  <1> USE DEF Seated
  <1>2. ASSUME NEW c \in CID PROVE SessionAt(s, c)
    <2> DEFINE e == t.conn[c].eid
               q == s.conn[c].room
    <2>1. s.conn[c].eid = e
      OBVIOUS
    <2>2. SUFFICES ASSUME e # NoEid
                   PROVE  /\ s.conn[c].up /\ s.index[e] = c
                          /\ q = s.userRoom[e]
                          /\ s.conn[c].st # ST_NULL
                          /\ q = NoRoom => s.conn[c].st = ST_LOGIN
                          /\ q # NoRoom => /\ s.room[q].state = ST_ROOM => s.conn[c].st = ST_ROOM
                                           /\ s.room[q].lua => s.conn[c].st = ST_GAME
      BY <2>1 DEF SessionAt
    <2>3. /\ t.conn[c].up /\ t.index[e] = c /\ t.conn[c].room = t.userRoom[e]
          /\ t.conn[c].st # ST_NULL
          /\ t.conn[c].room = NoRoom => t.conn[c].st = ST_LOGIN
          /\ t.conn[c].room # NoRoom =>
               /\ t.room[t.conn[c].room].state = ST_ROOM => t.conn[c].st = ST_ROOM
               /\ t.room[t.conn[c].room].lua => t.conn[c].st = ST_GAME
      BY <1>1, <2>2 DEF SessionAt
    <2>4. e \in EID /\ t.conn[c].room \in ROOM \cup {NoRoom}
      BY <1>1, <2>2, Entries
    <2>5. s.conn[c].up /\ s.index[e] = c
      BY <2>2, <2>3
    <2>6. CASE e \in G \/ t.conn[c].room = r
      <3>1. /\ q = r /\ s.conn[c].st # ST_NULL
            /\ s.room[r].state = ST_ROOM => s.conn[c].st = ST_ROOM
            /\ s.room[r].lua => s.conn[c].st = ST_GAME
        BY <2>2, <2>6
      <3>2. r \in ROOM /\ r # NoRoom
        BY <2>4, <2>6, Indices DEF NoConn, NoRoom
      <3>3. s.userRoom[e] = r
        BY <2>3, <2>4, <2>6
      <3>4. QED
        BY <2>5, <3>1, <3>2, <3>3
    <2>7. CASE ~(e \in G \/ t.conn[c].room = r)
      <3>1. q = t.conn[c].room /\ s.conn[c].st = t.conn[c].st
        BY <2>2, <2>7
      <3>2. s.userRoom[e] = q
        BY <2>3, <2>4, <2>7, <3>1
      <3>3. q # NoRoom => s.room[q] = t.room[q]
        BY <2>4, <2>7, <3>1
      <3> HIDE DEF q, e
      <3>4. QED
        BY <2>3, <2>5, <3>1, <3>2, <3>3
    <2>8. QED
      BY <2>6, <2>7
  <1>3. ASSUME NEW q \in ROOM PROVE RoomAt(s, q)
    BY <1>1 DEF RoomAt
  <1>4. ASSUME NEW q \in ROOM, NEW e \in EID PROVE SeatAt(s, q, e)
    <2>1. t.userRoom[e] = q <=> e \in ToSet(t.room[q].guest)
      BY <1>1 DEF SeatAt
    <2>2. CASE q = r
      <3>1. s.userRoom[e] = r <=> (e \in G \/ t.userRoom[e] = r)
        OBVIOUS
      <3>2. QED
        BY <2>1, <2>2, <3>1 DEF SeatAt
    <2>3. CASE q # r
      <3>1. s.room[q] = t.room[q]
        BY <2>3
      <3>2. s.userRoom[e] = q <=> t.userRoom[e] = q
        BY <2>3, Indices
      <3>3. QED
        BY <2>1, <3>1, <3>2 DEF SeatAt
    <2>4. QED
      BY <2>2, <2>3
  <1>5. QED
    BY <1>2, <1>3, <1>4 DEF Sound

\* What is not read by the invariant may change: the process, busy, who
\* waits for a quick match.
LEMMA FrameSound ==
    ASSUME NEW t, Sound(t), NEW s \in Tables, s.index = t.index, IsInjective(s.quick),
           s.room = t.room, s.userRoom = t.userRoom, s.pool = t.pool,
           \A c \in CID : /\ s.conn[c].eid = t.conn[c].eid
                          /\ t.conn[c].eid # NoEid =>
                               /\ s.conn[c].up = t.conn[c].up
                               /\ s.conn[c].room = t.conn[c].room /\ s.conn[c].st = t.conn[c].st
    PROVE  Sound(s)
  <1>1. t \in Tables /\ \A ch \in Channel : PoolAt(t, ch)
    BY DEF Sound
  <1>2. \A c \in CID : t.conn[c].room # NoConn
    BY <1>1, Entries, Indices DEF NoConn, NoRoom
  <1>3. \A ch \in Channel : PoolAt(s, ch)
    BY <1>1 DEF PoolAt
  <1>4. NoConn \notin ROOM
    BY Indices DEF NoConn
  <1>5. PICK r : r = NoConn
    OBVIOUS
  <1>6. PICK G : G = {}
    OBVIOUS
  <1>7. \A c \in CID :
          /\ s.conn[c].eid = t.conn[c].eid
          /\ t.conn[c].eid # NoEid =>
               /\ s.conn[c].up = t.conn[c].up
               /\ \/ /\ t.conn[c].eid \in G \/ t.conn[c].room = r
                     /\ s.conn[c].room = r /\ s.conn[c].st # ST_NULL
                     /\ s.room[r].state = ST_ROOM => s.conn[c].st = ST_ROOM
                     /\ s.room[r].lua => s.conn[c].st = ST_GAME
                  \/ /\ ~(t.conn[c].eid \in G \/ t.conn[c].room = r)
                     /\ s.conn[c].room = t.conn[c].room /\ s.conn[c].st = t.conn[c].st
    BY <1>2, <1>5, <1>6
  <1>8. \A e \in EID : s.userRoom[e] = IF e \in G THEN r ELSE t.userRoom[e]
    BY <1>6
  <1>9. /\ r \in ROOM \/ (r = NoConn /\ G = {})
        /\ \A q \in ROOM \ {r} : s.room[q] = t.room[q]
        /\ \A e \in EID : e \in G => t.userRoom[e] \in {NoRoom, r}
    BY <1>4, <1>5, <1>6
  <1>10. r \in ROOM => /\ RoomAt(s, r)
                       /\ ToSet(s.room[r].guest) = ToSet(t.room[r].guest) \cup G
    BY <1>4, <1>5
  <1>11. Seated(t, r, G, s)
    BY <1>3, <1>7, <1>8, <1>9, <1>10 DEF Seated
  <1>12. QED
    BY <1>11, SeatSound

----------------------------------------------------------------------------
(* Connections come and go.                                                *)

\* Somebody is connected to r.
Alive(t, r) == \E c \in CID : t.conn[c].eid # NoEid /\ t.conn[c].room = r

\* The only rooms that change are waiting rooms that are destroyed, and a
\* waiting room that is left has somebody connected to it if it had before.
RoomsKept(t, s) ==
    /\ \A r \in ROOM : \/ s.room[r] = t.room[r]
                       \/ t.room[r].state = ST_ROOM /\ s.room[r] = FreeRoomRec
    /\ \A r \in ROOM : s.room[r].state = ST_ROOM /\ Alive(t, r) => Alive(s, r)

\* Only connection c is logged out; who was idle before is left alone.
OthersStay(t, s, c) ==
    \A d \in CID \ {c} : /\ s.conn[d].eid = t.conn[d].eid
                         /\ t.conn[d].eid = NoEid => s.conn[d] = t.conn[d]

\* room_clean(): free_room() for the room of c, or nothing.
LEMMA RoomCleanIs ==
    ASSUME NEW t, Sound(t), NEW c \in CID, IdleAt(t, c)
    PROVE  /\ Cleanable(t, c) =>
                /\ t.conn[c].room \in ROOM /\ t.conn[c].eid \in EID
                /\ t.conn[c].eid \in Guests(t, t.conn[c].room)
                /\ t.room[t.conn[c].room].state = ST_ROOM
                /\ RoomClean(t, c) = FreeRoom(t, t.conn[c].room)
           /\ ~Cleanable(t, c) => RoomClean(t, c) = t
  <1> DEFINE r == t.conn[c].room
             e == t.conn[c].eid
  <1>1. /\ t \in Tables /\ \A d \in CID : SessionAt(t, d)
        /\ \A q \in ROOM : RoomAt(t, q)
        /\ \A q \in ROOM, u \in EID : SeatAt(t, q, u)
    BY DEF Sound
  <1>2. e \in EID \cup {NoEid} /\ r \in ROOM \cup {NoRoom}
    BY <1>1, Entries
  <1>3. ASSUME Cleanable(t, c)
        PROVE  /\ r \in ROOM /\ e \in EID /\ e \in Guests(t, r) /\ t.room[r].state = ST_ROOM
               /\ RoomClean(t, c) = FreeRoom(t, r)
    <2>1. r \in ROOM /\ e \in EID /\ e # NoEid /\ t.room[r].state # ST_GAME
      BY <1>2, <1>3 DEF Cleanable, IdleAt
    <2>2. e \in ToSet(t.room[r].guest)
      BY <1>1, <2>1 DEF SessionAt, SeatAt
    <2>3. t.room[r].state # 0
      <3>1. FreeRoomRec.guest = <<>> /\ ToSet(<<>>) = {}
        BY DEF FreeRoomRec, ToSet
      <3>2. QED
        BY <1>1, <2>1, <2>2, <3>1 DEF RoomAt
    <2>4. t.room[r].state = ST_ROOM
      BY <1>1, <2>1, <2>3, Entries DEF ST_ROOM, ST_GAME
    <2>5. PICK f \in Tables : f = FreeRoom(t, r) /\ f.conn = ConnsWithout(t, Guests(t, r))
      <3>1. PICK q \in ROOM : q = r
        BY <2>1
      <3>2. t.room[q].state # 0
        BY <2>3, <3>1
      <3>3. FreeRoom(t, q) \in Tables /\ FreeRoom(t, q).conn = ConnsWithout(t, Guests(t, q))
        BY <3>2, FreeRoomIs DEF RoomFreed
      <3>4. QED
        BY <3>1, <3>3
    <2>6. f.conn[c] = Outside(t.conn[c])
      BY <2>1, <2>2, <2>5 DEF ConnsWithout, Guests
    <2>7. f.conn[c].room = NoRoom /\ f.conn[c].st = ST_LOGIN /\ f.conn[c] \in Conns
      BY <1>1, <2>6, Entries, OutsideIs
    <2>8. [f.conn[c] EXCEPT !.room = NoRoom, !.st = ST_LOGIN] = f.conn[c]
      BY <2>7 DEF Conns
    <2>9. [f EXCEPT !.conn[c].room = NoRoom, !.conn[c].st = ST_LOGIN] = f
      <3>1. f.conn \in [CID -> Conns]
        BY <2>5 DEF Tables
      <3>2. [f.conn EXCEPT ![c] = f.conn[c]] = f.conn
        BY <3>1
      <3>3. [f EXCEPT !.conn = f.conn] = f
        BY <2>5 DEF Tables
      <3>4. [f EXCEPT !.conn[c].room = NoRoom, !.conn[c].st = ST_LOGIN]
              = [f EXCEPT !.conn = [f.conn EXCEPT ![c] =
                                      [f.conn[c] EXCEPT !.room = NoRoom, !.st = ST_LOGIN]]]
        BY <2>5, <3>1 DEF Tables, Conns
      <3>5. QED
        BY <2>8, <3>2, <3>3, <3>4
    <2>10. RoomClean(t, c) = [f EXCEPT !.conn[c].room = NoRoom, !.conn[c].st = ST_LOGIN]
      BY <1>3, <2>5 DEF RoomClean
    <2>11. QED
      BY <2>1, <2>2, <2>4, <2>5, <2>9, <2>10 DEF Guests
  <1>4. ~Cleanable(t, c) => RoomClean(t, c) = t
    BY DEF RoomClean
  <1>5. QED
    BY <1>3, <1>4

\* What room_clean() keeps: connection c, the guest that leaves, is not told
\* of separately.
RoomCleaned(t, c, s) ==
    /\ Sound(s) /\ (s.up = t.up) /\ s.index = t.index /\ s.quick = t.quick
    /\ \A d \in CID : /\ s.conn[d].eid = t.conn[d].eid
                      /\ t.conn[d].eid = NoEid => s.conn[d] = t.conn[d]
    /\ \A r \in ROOM : \/ s.room[r] = t.room[r]
                       \/ t.room[r].state = ST_ROOM /\ s.room[r] = FreeRoomRec
    /\ \A r \in ROOM : s.room[r].state = ST_ROOM /\ Alive(t, r) =>
         \E d \in CID \ {c} : s.conn[d].eid # NoEid /\ s.conn[d].room = r

\* A waiting room that room_clean() destroys.
LEMMA FreeRoomKeeps ==
    ASSUME NEW t, Sound(t), NEW r \in ROOM, t.room[r].state \in {ST_ROOM},
           NEW c \in CID, t.conn[c].room \in {r}, NEW s, RoomFreed(t, r, s)
    PROVE  RoomCleaned(t, c, s)
  <1>1. /\ t \in Tables /\ \A d \in CID : SessionAt(t, d)
        /\ \A q \in ROOM, u \in EID : SeatAt(t, q, u)
    BY DEF Sound
  <1>2. t.room[r].state # 0
    BY DEF ST_ROOM
  <1>5. /\ s \in Tables /\ (s.up = t.up) /\ s.index = t.index /\ s.quick = t.quick
        /\ s.conn = ConnsWithout(t, Guests(t, r))
        /\ s.room = [t.room EXCEPT ![r] = FreeRoomRec]
    BY DEF RoomFreed
  <1>6. Sound(s)
    BY <1>2, FreeRoomSound
  <1>7. ASSUME NEW d \in CID
        PROVE  /\ s.conn[d].eid = t.conn[d].eid
               /\ t.conn[d].eid = NoEid => s.conn[d] = t.conn[d]
    BY <1>1, <1>5, Entries, OutsideIs DEF ConnsWithout
  <1>8. s.room[r] = FreeRoomRec /\ \A q \in ROOM \ {r} : s.room[q] = t.room[q]
    BY <1>1, <1>5 DEF Tables
  <1>9. ASSUME NEW q \in ROOM, s.room[q].state = ST_ROOM, Alive(t, q)
        PROVE  \E d \in CID \ {c} : s.conn[d].eid # NoEid /\ s.conn[d].room = q
    <2>1. q # r
      BY <1>8, <1>9 DEF FreeRoomRec, ST_ROOM
    <2>2. PICK d \in CID : t.conn[d].eid # NoEid /\ t.conn[d].room = q
      BY <1>9 DEF Alive
    <2>3. d # c
      BY <2>1, <2>2
    <2>4. t.conn[d].eid \in EID /\ t.userRoom[t.conn[d].eid] = q
      BY <1>1, <2>2, Entries DEF SessionAt
    <2>5. t.conn[d].eid \notin Guests(t, r)
      BY <1>1, <2>1, <2>4 DEF SeatAt, Guests
    <2>6. s.conn[d] = t.conn[d]
      BY <1>5, <2>5 DEF ConnsWithout
    <2>7. QED
      BY <2>2, <2>3, <2>6
  <1>10. \A q \in ROOM : \/ s.room[q] = t.room[q]
                         \/ t.room[q].state = ST_ROOM /\ s.room[q] = FreeRoomRec
    BY <1>8
  <1>11. RoomCleaned(t, c, s)
    BY <1>5, <1>6, <1>7, <1>9, <1>10 DEF RoomCleaned
  <1>12. QED
    BY <1>11

\* room_clean() keeps what RoomCleaned says.
LEMMA RoomCleanKeeps ==
    ASSUME NEW t, Sound(t), NEW c \in CID, IdleAt(t, c)
    PROVE  RoomCleaned(t, c, RoomClean(t, c))
  <1>1. CASE Cleanable(t, c)
    <2>1. PICK r \in ROOM : /\ r = t.conn[c].room /\ t.room[r].state = ST_ROOM
                            /\ RoomClean(t, c) = FreeRoom(t, r)
      BY <1>1, RoomCleanIs
    <2>2. PICK s : s = FreeRoom(t, r)
      OBVIOUS
    <2>3. RoomFreed(t, r, s)
      BY <2>1, <2>2, FreeRoomIs DEF ST_ROOM
    <2>4. RoomCleaned(t, c, s)
      BY <2>1, <2>3, FreeRoomKeeps
    <2>5. QED
      BY <2>1, <2>2, <2>4
  <1>2. CASE ~Cleanable(t, c)
    <2>1. RoomClean(t, c) = t
      BY <1>2, RoomCleanIs
    <2>2. ASSUME NEW q \in ROOM, t.room[q].state = ST_ROOM, Alive(t, q)
          PROVE  \E d \in CID \ {c} : t.conn[d].eid # NoEid /\ t.conn[d].room = q
      <3>1. CASE t.conn[c].room = q
        <4>1. ActiveUsers(t, q, t.conn[c].eid) # {}
          BY <1>2, <2>2, <3>1, Indices DEF Cleanable, ST_ROOM, ST_GAME
        <4>2. PICK e \in EID \ {t.conn[c].eid} : \E d \in CID : t.conn[d].eid = e /\ t.conn[d].room = q
          BY <4>1, WhoIsActive
        <4>3. QED
          BY <4>2, Indices
      <3>2. CASE t.conn[c].room # q
        BY <2>2, <3>2 DEF Alive
      <3>3. QED
        BY <3>1, <3>2
    <2>3. RoomCleaned(t, c, t)
      BY <2>2 DEF RoomCleaned
    <2>4. QED
      BY <2>1, <2>3
  <1>3. QED
    BY <1>1, <1>2

\* do_clean(): the connection is nobody's, the others stay, e no longer waits.
Cleaned(t, c, s) ==
    /\ Sound(s) /\ (s.up = t.up)
    /\ s.conn[c].eid = NoEid
    /\ OthersStay(t, s, c)
    /\ s.quick = RemoveFirst(t.quick, t.conn[c].eid)
    /\ RoomsKept(t, s)

\* Tables with another waiting list, or another state of the process.
LEMMA QuickSound ==
    ASSUME NEW t, Sound(t), NEW list \in Seq(EID), IsInjective(list)
    PROVE  /\ Sound([t EXCEPT !.quick = list])
           /\ [t EXCEPT !.quick = list].quick = list
           /\ [t EXCEPT !.quick = list].up = t.up
           /\ [t EXCEPT !.quick = list].conn = t.conn
           /\ [t EXCEPT !.quick = list].index = t.index
           /\ [t EXCEPT !.quick = list].userRoom = t.userRoom
           /\ [t EXCEPT !.quick = list].room = t.room
           /\ [t EXCEPT !.quick = list].pool = t.pool
  <1>1. t \in Tables
    BY DEF Sound
  <1>2. PICK s : s = [t EXCEPT !.quick = list]
    OBVIOUS
  <1>3. /\ s \in Tables /\ s.quick = list /\ s.conn = t.conn /\ s.index = t.index
        /\ s.userRoom = t.userRoom /\ s.room = t.room /\ s.pool = t.pool
    BY <1>1, <1>2 DEF Tables
  <1>4. s.up = t.up
    BY <1>1, <1>2 DEF Tables
  <1>5. Sound(s)
    BY <1>3, FrameSound
  <1>6. QED
    BY <1>2, <1>3, <1>4, <1>5

\* do_clean(): the tables it leaves.
LEMMA DoCleanIs ==
    ASSUME NEW t, Sound(t), NEW c \in CID, IdleAt(t, c)
    PROVE  Cleaned(t, c, DoClean(t, c))
  <1>1. PICK e : e = t.conn[c].eid
    OBVIOUS
  <1>2. t \in Tables /\ t.quick \in Seq(EID) /\ IsInjective(t.quick) /\ e \in EID \cup {NoEid}
    BY <1>1, Entries DEF Sound
  <1>3. RemoveFirst(t.quick, e) \in Seq(EID) /\ IsInjective(RemoveFirst(t.quick, e))
    BY <1>2, RemoveOnce
  <1>4. PICK q : q = [t EXCEPT !.quick = RemoveFirst(t.quick, e)]
    OBVIOUS
  <1>5. /\ Sound(q) /\ q.quick = RemoveFirst(t.quick, e) /\ (q.up = t.up)
        /\ q.conn = t.conn /\ q.room = t.room
    BY <1>3, <1>4, QuickSound
  <1>6. IdleAt(q, c)
    BY <1>5 DEF IdleAt
  <1>7. PICK m : m = RoomClean(q, c)
    OBVIOUS
  <1>8. RoomCleaned(q, c, m)
    BY <1>5, <1>6, <1>7, RoomCleanKeeps
  <1>9. /\ Sound(m) /\ (m.up = t.up) /\ m.quick = q.quick
        /\ \A d \in CID : /\ m.conn[d].eid = t.conn[d].eid
                          /\ t.conn[d].eid = NoEid => m.conn[d] = t.conn[d]
    BY <1>5, <1>8 DEF RoomCleaned
  <1>10. /\ \A r \in ROOM : \/ m.room[r] = t.room[r]
                            \/ t.room[r].state = ST_ROOM /\ m.room[r] = FreeRoomRec
         /\ \A r \in ROOM : m.room[r].state = ST_ROOM /\ Alive(t, r) =>
              \E d \in CID \ {c} : m.conn[d].eid # NoEid /\ m.conn[d].room = r
    BY <1>5, <1>8 DEF RoomCleaned, Alive
  <1>11. /\ m \in Tables /\ \A d \in CID : SessionAt(m, d)
         /\ \A r \in ROOM : RoomAt(m, r)
         /\ \A r \in ROOM, u \in EID : SeatAt(m, r, u)
         /\ \A ch \in Channel : PoolAt(m, ch)
         /\ IsInjective(m.quick)
    BY <1>9 DEF Sound
  <1>12. m.conn[c] \in Conns /\ m.conn[c].eid = e
    BY <1>1, <1>9, <1>11, Entries
  <1> DEFINE k1 == [m.conn[c] EXCEPT !.eid = NoEid]
             conn1 == [m.conn EXCEPT ![c] = k1]
             index1 == [u \in EID |-> IF u = e THEN 0 ELSE m.index[u]]
  <1>13. PICK s : s = [m EXCEPT !.index = index1, !.conn = conn1]
    OBVIOUS
  <1>14. DoClean(t, c) = s
    BY <1>1, <1>2, <1>4, <1>7, <1>11, <1>12, <1>13 DEF DoClean, Tables
  <1>15. k1 \in Conns /\ k1.eid = NoEid
    BY <1>12 DEF Conns
  <1> HIDE DEF k1
  <1>16. /\ conn1 \in [CID -> Conns] /\ conn1[c] = k1
         /\ \A d \in CID \ {c} : conn1[d] = m.conn[d]
    BY <1>11, <1>15 DEF Tables
  <1>17. index1 \in [EID -> CID]
    BY <1>11, Entries, Indices
  <1> HIDE DEF conn1
  <1>18. \A u \in EID : index1[u] = IF u = e THEN 0 ELSE m.index[u]
    OBVIOUS
  <1> HIDE DEF index1
  <1>19. /\ s \in Tables /\ s.conn = conn1 /\ s.index = index1 /\ s.userRoom = m.userRoom
         /\ s.room = m.room /\ s.pool = m.pool /\ s.quick = m.quick
    BY <1>11, <1>13, <1>16, <1>17 DEF Tables
  <1>20. s.up = m.up
    BY <1>11, <1>13, <1>16, <1>17 DEF Tables
  <1>21. ASSUME NEW d \in CID PROVE SessionAt(s, d)
    <2>1. CASE d = c
      BY <1>15, <1>16, <1>19, <2>1 DEF SessionAt
    <2>2. CASE d # c
      <3>1. s.conn[d] = m.conn[d]
        BY <1>16, <1>19, <2>2
      <3>2. ASSUME m.conn[d].eid # NoEid PROVE s.index[m.conn[d].eid] = m.index[m.conn[d].eid]
        <4>1. m.conn[d].eid \in EID /\ m.index[m.conn[d].eid] = d
          BY <1>11, <3>2, Entries DEF SessionAt
        <4>2. m.conn[d].eid # e
          BY <1>11, <1>12, <2>2, <3>2, <4>1 DEF SessionAt
        <4>3. QED
          BY <1>18, <1>19, <4>1, <4>2
      <3>3. SessionAt(m, d)
        BY <1>11
      <3>4. QED
        BY <1>19, <3>1, <3>2, <3>3 DEF SessionAt
    <2>3. QED
      BY <2>1, <2>2
  <1>22. /\ \A r \in ROOM : RoomAt(s, r)
         /\ \A r \in ROOM, u \in EID : SeatAt(s, r, u)
         /\ \A ch \in Channel : PoolAt(s, ch)
    BY <1>11, <1>19 DEF RoomAt, SeatAt, PoolAt
  <1>23. Sound(s)
    BY <1>11, <1>19, <1>21, <1>22 DEF Sound
  <1>24. OthersStay(t, s, c) /\ s.conn[c].eid = NoEid
    BY <1>9, <1>15, <1>16, <1>19 DEF OthersStay
  <1>25. RoomsKept(t, s)
    <2>1. ASSUME NEW r \in ROOM, s.room[r].state = ST_ROOM, Alive(t, r) PROVE Alive(s, r)
      <3>1. PICK d \in CID \ {c} : m.conn[d].eid # NoEid /\ m.conn[d].room = r
        BY <1>10, <1>19, <2>1
      <3>2. s.conn[d] = m.conn[d]
        BY <1>16, <1>19
      <3>3. QED
        BY <3>1, <3>2 DEF Alive
    <2>2. QED
      BY <1>10, <1>19, <2>1 DEF RoomsKept
  <1>26. s.quick = RemoveFirst(t.quick, t.conn[c].eid)
    BY <1>1, <1>5, <1>9, <1>19
  <1>27. QED
    BY <1>9, <1>14, <1>20, <1>23, <1>24, <1>25, <1>26 DEF Cleaned

\* Who waits for a quick match is logged in.
WaitersOnline(t) == \A x \in ToSet(t.quick) : \E d \in CID : t.conn[d].eid = x

\* A connection that is nobody's is replaced by another one.
Replaced(t, c, k, s) ==
    /\ Sound(s)
    /\ (s.up = t.up) /\ s.index = t.index /\ s.quick = t.quick /\ s.room = t.room
    /\ s.userRoom = t.userRoom /\ s.pool = t.pool
    /\ s.conn[c] = k
    /\ \A d \in CID \ {c} : s.conn[d] = t.conn[d]

\* An empty slot in the place of a connection.
LEMMA ReplaceSound ==
    ASSUME NEW t, Sound(t), NEW c \in CID, NEW k \in Conns, k.eid = NoEid
    PROVE  Replaced(t, c, k, [t EXCEPT !.conn[c] = k])
  <1>1. PICK s : s = [t EXCEPT !.conn[c] = k]
    OBVIOUS
  <1>2. /\ t \in Tables /\ \A d \in CID : SessionAt(t, d)
        /\ \A r \in ROOM : RoomAt(t, r)
        /\ \A r \in ROOM, u \in EID : SeatAt(t, r, u)
        /\ \A ch \in Channel : PoolAt(t, ch)
        /\ IsInjective(t.quick)
    BY DEF Sound
  <1>3. /\ s \in Tables /\ s.index = t.index /\ s.quick = t.quick /\ s.room = t.room
        /\ s.userRoom = t.userRoom /\ s.pool = t.pool
        /\ s.conn[c] = k /\ \A d \in CID \ {c} : s.conn[d] = t.conn[d]
    BY <1>1, <1>2 DEF Tables
  <1>4. s.up = t.up
    BY <1>1, <1>2 DEF Tables
  <1>5. ASSUME NEW d \in CID PROVE SessionAt(s, d)
    <2>1. CASE d = c
      BY <1>3, <2>1 DEF SessionAt
    <2>2. CASE d # c
      BY <1>2, <1>3, <2>2 DEF SessionAt
    <2>3. QED
      BY <2>1, <2>2
  <1>6. /\ \A r \in ROOM : RoomAt(s, r)
        /\ \A r \in ROOM, u \in EID : SeatAt(s, r, u)
        /\ \A ch \in Channel : PoolAt(s, ch)
    BY <1>2, <1>3 DEF RoomAt, SeatAt, PoolAt
  <1>7. Sound(s)
    BY <1>2, <1>3, <1>5, <1>6 DEF Sound
  <1>8. QED
    BY <1>1, <1>3, <1>4, <1>7 DEF Replaced

\* The slots a connection starts and ends with.
LEMMA EmptySlots ==
    /\ FreeSlot \in Conns /\ FreeSlot.eid = NoEid
    /\ FreeSlot.room = NoRoom /\ FreeSlot.st = ST_NULL
    /\ FreshConn \in Conns /\ FreshConn.eid = NoEid
    /\ FreshConn.room = NoRoom /\ FreshConn.st = ST_NULL
  BY DEF FreeSlot, FreshConn, Conns

\* do_clean() and do_disconnect(): also the slot is zeroed.
Gone(t, c, s) ==
    /\ Sound(s) /\ (s.up = t.up)
    /\ s.conn[c] = FreeSlot
    /\ OthersStay(t, s, c)
    /\ s.quick = RemoveFirst(t.quick, t.conn[c].eid)
    /\ RoomsKept(t, s)

\* do_clean_disconnect(): the tables it leaves.
LEMMA DoCleanDisconnectIs ==
    ASSUME NEW t, Sound(t), NEW c \in CID, IdleAt(t, c)
    PROVE  Gone(t, c, DoCleanDisconnect(t, c))
  <1>1. PICK m : m = DoClean(t, c)
    OBVIOUS
  <1>2. Cleaned(t, c, m)
    BY <1>1, DoCleanIs
  <1>3. /\ Sound(m) /\ (m.up = t.up) /\ m.conn[c].eid = NoEid /\ OthersStay(t, m, c)
        /\ m.quick = RemoveFirst(t.quick, t.conn[c].eid) /\ RoomsKept(t, m)
    BY <1>2 DEF Cleaned
  <1>4. PICK s : s = [m EXCEPT !.conn[c] = FreeSlot]
    OBVIOUS
  <1>5. DoCleanDisconnect(t, c) = s
    BY <1>1, <1>4 DEF DoCleanDisconnect, DoDisconnect
  <1>6. Replaced(m, c, FreeSlot, s)
    BY <1>3, <1>4, EmptySlots, ReplaceSound
  <1>7. /\ Sound(s) /\ (s.up = m.up) /\ s.quick = m.quick /\ s.room = m.room
        /\ s.conn[c] = FreeSlot /\ \A d \in CID \ {c} : s.conn[d] = m.conn[d]
    BY <1>6 DEF Replaced
  <1>8. OthersStay(t, s, c)
    BY <1>3, <1>7 DEF OthersStay
  <1>9. RoomsKept(t, s)
    <2>1. ASSUME NEW r \in ROOM, s.room[r].state = ST_ROOM, Alive(t, r) PROVE Alive(s, r)
      <3>1. Alive(m, r)
        BY <1>3, <1>7, <2>1 DEF RoomsKept
      <3>2. PICK d \in CID : m.conn[d].eid # NoEid /\ m.conn[d].room = r
        BY <3>1 DEF Alive
      <3>3. s.conn[d] = m.conn[d]
        BY <1>3, <1>7, <3>2
      <3>4. QED
        BY <3>2, <3>3 DEF Alive
    <2>2. QED
      BY <1>3, <1>7, <2>1 DEF RoomsKept
  <1>10. s.quick = RemoveFirst(t.quick, t.conn[c].eid) /\ (s.up = t.up)
    BY <1>3, <1>7
  <1>11. QED
    BY <1>5, <1>7, <1>8, <1>9, <1>10 DEF Gone

\* The waiting list after do_clean.
LEMMA WaitersStay ==
    ASSUME NEW t, Sound(t), NEW c \in CID, NEW s, OthersStay(t, s, c),
           s.quick = RemoveFirst(t.quick, t.conn[c].eid)
    PROVE  /\ WaitersOnline(t) => WaitersOnline(s)
           /\ Len(s.quick) <= Len(t.quick)
  <1>1. t.quick \in Seq(EID) /\ IsInjective(t.quick)
    BY Entries DEF Sound
  <1>2. PICK e : e = t.conn[c].eid
    OBVIOUS
  <1>3. ToSet(s.quick) = ToSet(t.quick) \ {e} /\ Len(s.quick) <= Len(t.quick)
    BY <1>1, <1>2, RemoveOnce
  <1>4. ASSUME WaitersOnline(t), NEW x \in ToSet(s.quick)
        PROVE  \E d \in CID : s.conn[d].eid = x
    <2>1. PICK d \in CID : t.conn[d].eid = x
      BY <1>3, <1>4 DEF WaitersOnline
    <2>2. d # c
      BY <1>2, <1>3, <2>1
    <2>3. QED
      BY <2>1, <2>2 DEF OthersStay
  <1>5. QED
    BY <1>3, <1>4 DEF WaitersOnline

\* The old connection of a user that logs in again is gone.
Kicked(t, e, s) ==
    /\ Sound(s) /\ (s.up = t.up)
    /\ \A d \in CID : /\ s.conn[d].eid # e
                      /\ t.conn[d].eid # e => s.conn[d].eid = t.conn[d].eid
                      /\ t.conn[d].eid = NoEid => s.conn[d] = t.conn[d]
                      /\ t.conn[d].eid = e => s.conn[d] = FreeSlot
    /\ RoomsKept(t, s)
    /\ WaitersOnline(t) => WaitersOnline(s)
    /\ Len(s.quick) <= Len(t.quick)

\* out_login() has kicked who else was logged in as e.
LEMMA KickTwinIs ==
    ASSUME NEW t, Sound(t), NEW e \in EID
    PROVE  Kicked(t, e, KickTwin(t, e))
  <1>1. /\ t \in Tables /\ \A d \in CID : SessionAt(t, d)
    BY DEF Sound
  <1>2. e # NoEid
    BY Indices
  <1>3. CASE Online(t, e)
    <2>1. PICK c \in CID : t.conn[c].eid = e /\ c = ConnOf(t, e)
      BY <1>1, <1>3, WhereIs
    <2>2. PICK s : s = DoCleanDisconnect(t, c)
      OBVIOUS
    <2>3. KickTwin(t, e) = s
      BY <1>3, <2>1, <2>2 DEF KickTwin
    <2>4. Gone(t, c, s)
      <3>1. IdleAt(t, c)
        BY <1>2, <2>1 DEF IdleAt
      <3>2. QED
        BY <2>2, <3>1, DoCleanDisconnectIs
    <2>5. /\ Sound(s) /\ (s.up = t.up) /\ s.conn[c] = FreeSlot /\ OthersStay(t, s, c)
          /\ s.quick = RemoveFirst(t.quick, t.conn[c].eid) /\ RoomsKept(t, s)
      BY <2>4 DEF Gone
    <2>6. \A d \in CID : d # c => t.conn[d].eid # e
      BY <1>2, <2>1, <1>1 DEF SessionAt
    <2>7. \A d \in CID : /\ s.conn[d].eid # e
                         /\ t.conn[d].eid # e => s.conn[d].eid = t.conn[d].eid
                         /\ t.conn[d].eid = NoEid => s.conn[d] = t.conn[d]
                         /\ t.conn[d].eid = e => s.conn[d] = FreeSlot
      BY <1>2, <2>1, <2>5, <2>6, EmptySlots DEF OthersStay
    <2>8. /\ WaitersOnline(t) => WaitersOnline(s)
          /\ Len(s.quick) <= Len(t.quick)
      BY <2>5, WaitersStay
    <2>9. QED
      BY <2>3, <2>5, <2>7, <2>8 DEF Kicked
  <1>4. CASE ~Online(t, e)
    <2>1. KickTwin(t, e) = t
      BY <1>4 DEF KickTwin
    <2>2. \A d \in CID : t.conn[d].eid # e
      BY <1>1, <1>4, WhereIs
    <2>3. t.quick \in Seq(EID)
      BY <1>1, Entries
    <2>4. RoomsKept(t, t)
      BY DEF RoomsKept
    <2>5. Kicked(t, e, t)
      BY <2>2, <2>3, <2>4 DEF Kicked
    <2>6. QED
      BY <2>1, <2>5
  <1>5. QED
    BY <1>3, <1>4

\* Two functions after each other.
LEMMA RoomsKeptTwice ==
    ASSUME NEW t, NEW m, NEW s, RoomsKept(t, m), RoomsKept(m, s)
    PROVE  RoomsKept(t, s)
  <1>1. FreeRoomRec.state # ST_ROOM
    BY DEF FreeRoomRec, ST_ROOM
  <1>2. QED
    BY <1>1 DEF RoomsKept

\* out_login() stops the timers of e in the room it comes back to.
LEMMA StopTimerIs ==
    ASSUME NEW t \in Tables, NEW r, NEW e
    PROVE  /\ StopTimer(t, r, e) \in [ROOM -> RoomRec]
           /\ \A q \in ROOM \ {r} : StopTimer(t, r, e)[q] = t.room[q]
           /\ r \in ROOM =>
                /\ StopTimer(t, r, e)[r].state = t.room[r].state
                /\ StopTimer(t, r, e)[r].guest = t.room[r].guest
                /\ (StopTimer(t, r, e)[r].lua = t.room[r].lua)
                /\ \A i \in 1 .. 2 : StopTimer(t, r, e)[r].off[i] =
                                       IF Seat(t, r, i) = e THEN 0 ELSE t.room[r].off[i]
  <1>1. ASSUME r \in ROOM
        PROVE  /\ StopTimer(t, r, e)[r] \in RoomRec
               /\ StopTimer(t, r, e)[r].state = t.room[r].state
               /\ StopTimer(t, r, e)[r].guest = t.room[r].guest
               /\ (StopTimer(t, r, e)[r].lua = t.room[r].lua)
               /\ \A i \in 1 .. 2 : StopTimer(t, r, e)[r].off[i] =
                                      IF Seat(t, r, i) = e THEN 0 ELSE t.room[r].off[i]
    <2> DEFINE off1 == [i \in 1 .. 2 |-> IF Seat(t, r, i) = e THEN 0 ELSE t.room[r].off[i]]
    <2>1. t.room[r] \in RoomRec /\ t.room[r].off \in [1 .. 2 -> 0 .. FOLD_PASSES]
      BY <1>1, Entries
    <2>2. off1 \in [1 .. 2 -> 0 .. FOLD_PASSES]
      BY <2>1, LobbyAssumption
    <2>3. StopTimer(t, r, e)[r] = [t.room[r] EXCEPT !.off = off1]
      BY <1>1 DEF StopTimer
    <2>4. \A i \in 1 .. 2 : off1[i] = IF Seat(t, r, i) = e THEN 0 ELSE t.room[r].off[i]
      OBVIOUS
    <2> HIDE DEF off1
    <2>5. PICK k : k = t.room[r]
      OBVIOUS
    <2>6. PICK n : n = [k EXCEPT !.off = off1]
      OBVIOUS
    <2>7. n \in RoomRec /\ n.state = k.state /\ n.guest = k.guest /\ n.off = off1
      BY <2>1, <2>2, <2>5, <2>6 DEF RoomRec
    <2>8. n.lua = k.lua
      BY <2>1, <2>2, <2>5, <2>6 DEF RoomRec
    <2>9. QED
      BY <2>3, <2>4, <2>5, <2>6, <2>7, <2>8
  <1>2. \A q \in ROOM \ {r} : StopTimer(t, r, e)[q] = t.room[q]
    BY DEF StopTimer
  <1>3. StopTimer(t, r, e) \in [ROOM -> RoomRec]
    <2>1. \A q \in ROOM : StopTimer(t, r, e)[q] \in RoomRec
      BY <1>1, <1>2, Entries
    <2>2. StopTimer(t, r, e) = [q \in ROOM |-> StopTimer(t, r, e)[q]]
      BY DEF StopTimer
    <2>3. QED
      BY <2>1, <2>2
  <1>4. QED
    BY <1>1, <1>2, <1>3

\* out_login(): c is now e and e is nowhere else, its timers are stopped.
LoggedIn(t, c, e, s) ==
    /\ Sound(s) /\ (s.up = t.up)
    /\ s.conn[c].eid = e
    /\ \A d \in CID \ {c} : /\ s.conn[d].eid # e
                            /\ t.conn[d].eid # e => s.conn[d].eid = t.conn[d].eid
                            /\ t.conn[d].eid = e => s.conn[d].eid = NoEid
                            /\ IdleAt(t, d) => IdleAt(s, d)
    /\ \A r \in ROOM :
         \/ t.room[r].state = ST_ROOM /\ s.room[r] = FreeRoomRec
         \/ /\ s.room[r].state = t.room[r].state /\ s.room[r].guest = t.room[r].guest
            /\ (s.room[r].lua = t.room[r].lua)
            /\ \A i \in 1 .. 2 : /\ s.room[r].off[i] \in {0, t.room[r].off[i]}
                                 /\ Seat(s, r, i) = e => s.room[r].off[i] = 0
    /\ \A r \in ROOM : s.room[r].state = ST_ROOM /\ Alive(t, r) => Alive(s, r)
    /\ WaitersOnline(t) => WaitersOnline(s)
    /\ Len(s.quick) <= Len(t.quick)

\* The timers of a room of sound tables may be reset.
LEMMA TimerSound ==
    ASSUME NEW t, Sound(t), NEW r \in ROOM \cup {NoRoom}, NEW room1 \in [ROOM -> RoomRec],
           \A q \in ROOM \ {r} : room1[q] = t.room[q],
           r \in ROOM => /\ t.room[r].state # 0
                         /\ room1[r].state = t.room[r].state
                         /\ room1[r].guest = t.room[r].guest
                         /\ (room1[r].lua = t.room[r].lua),
           NEW s, s = [t EXCEPT !.room = room1]
    PROVE  /\ Sound(s) /\ (s.up = t.up) /\ s.conn = t.conn /\ s.index = t.index
           /\ s.userRoom = t.userRoom /\ s.room = room1 /\ s.pool = t.pool /\ s.quick = t.quick
  <1>1. /\ t \in Tables /\ \A d \in CID : SessionAt(t, d)
        /\ \A q \in ROOM : RoomAt(t, q)
        /\ \A ch \in Channel : PoolAt(t, ch) /\ ch \subseteq ROOM
        /\ IsInjective(t.quick)
    BY Indices DEF Sound
  <1>2. /\ s \in Tables /\ s.conn = t.conn /\ s.index = t.index
        /\ s.userRoom = t.userRoom /\ s.room = room1 /\ s.pool = t.pool /\ s.quick = t.quick
    BY <1>1 DEF Tables
  <1>3. s.up = t.up
    BY <1>1 DEF Tables
  <1>4. \A q \in ROOM : room1[q].state = t.room[q].state
    OBVIOUS
  <1>5. ASSUME NEW ch \in Channel PROVE PoolAt(s, ch)
    <2>1. {q \in ch : s.room[q].state = 0} = {q \in ch : t.room[q].state = 0}
      BY <1>1, <1>2, <1>4
    <2>2. QED
      BY <1>1, <1>2, <2>1 DEF PoolAt
  <1>6. CASE r = NoRoom
    <2>1. s.room = t.room
      <3>1. \A q \in ROOM : room1[q] = t.room[q]
        BY <1>6, Indices
      <3>2. QED
        BY <1>1, <1>2, <3>1 DEF Tables
    <2>2. Sound(s)
      BY <1>1, <1>2, <2>1, FrameSound
    <2>3. QED
      BY <1>2, <1>3, <2>2
  <1>7. CASE r \in ROOM
    <2>1. PICK G : G = {}
      OBVIOUS
    <2>2. RoomAt(s, r) /\ ToSet(s.room[r].guest) = ToSet(t.room[r].guest) \cup G
      BY <1>1, <1>2, <1>7, <2>1 DEF RoomAt
    <2>3. ASSUME NEW d \in CID, t.conn[d].eid # NoEid, t.conn[d].room = r
          PROVE  /\ s.conn[d].room = r /\ s.conn[d].st # ST_NULL
                 /\ s.room[r].state = ST_ROOM => s.conn[d].st = ST_ROOM
                 /\ s.room[r].lua => s.conn[d].st = ST_GAME
      <3>1. r # NoRoom /\ SessionAt(t, d)
        BY <1>1, <1>7, Indices
      <3>2. s.conn[d] = t.conn[d] /\ s.room[r].state = t.room[r].state /\ (s.room[r].lua = t.room[r].lua)
        BY <1>2, <1>7
      <3>3. QED
        BY <2>3, <3>1, <3>2 DEF SessionAt
    <2>4. /\ \A e \in EID : s.userRoom[e] = IF e \in G THEN r ELSE t.userRoom[e]
          /\ \A e \in EID : e \in G => t.userRoom[e] \in {NoRoom, r}
          /\ \A q \in ROOM \ {r} : s.room[q] = t.room[q]
      BY <1>2, <2>1
    <2>5. \A d \in CID :
            /\ s.conn[d].eid = t.conn[d].eid
            /\ t.conn[d].eid # NoEid =>
                 /\ (s.conn[d].up = t.conn[d].up)
                 /\ \/ /\ t.conn[d].eid \in G \/ t.conn[d].room = r
                       /\ s.conn[d].room = r /\ s.conn[d].st # ST_NULL
                       /\ s.room[r].state = ST_ROOM => s.conn[d].st = ST_ROOM
                       /\ s.room[r].lua => s.conn[d].st = ST_GAME
                    \/ /\ ~(t.conn[d].eid \in G \/ t.conn[d].room = r)
                       /\ s.conn[d].room = t.conn[d].room /\ s.conn[d].st = t.conn[d].st
      BY <1>2, <2>1, <2>3
    <2>6. Seated(t, r, G, s)
      BY <1>1, <1>2, <1>5, <1>7, <2>2, <2>4, <2>5 DEF Seated
    <2>7. Sound(s)
      BY <2>6, SeatSound
    <2>8. QED
      BY <1>2, <1>3, <2>7
  <1>8. QED
    BY <1>6, <1>7

\* out_login(): the tables it leaves.
LEMMA OutLoginIs ==
    ASSUME NEW t, Sound(t), NEW c \in CID, NEW e \in EID
    PROVE  LoggedIn(t, c, e, OutLogin(t, c, e))
  <1>1. PICK m : m = IF t.conn[c].eid # NoEid THEN DoClean(t, c) ELSE t
    OBVIOUS
  <1>2. /\ Sound(m) /\ (m.up = t.up) /\ m.conn[c].eid = NoEid
        /\ OthersStay(t, m, c) /\ RoomsKept(t, m)
        /\ WaitersOnline(t) => WaitersOnline(m)
        /\ Len(m.quick) <= Len(t.quick)
    <2>1. CASE t.conn[c].eid # NoEid
      <3>1. IdleAt(t, c) /\ m = DoClean(t, c)
        BY <1>1, <2>1 DEF IdleAt
      <3>2. Cleaned(t, c, m)
        BY <3>1, DoCleanIs
      <3>3. QED
        BY <3>2, WaitersStay DEF Cleaned
    <2>2. CASE t.conn[c].eid = NoEid
      <3>1. m = t /\ t.quick \in Seq(EID)
        BY <1>1, <2>2, Entries DEF Sound
      <3>2. QED
        BY <2>2, <3>1 DEF OthersStay, RoomsKept
    <2>3. QED
      BY <2>1, <2>2
  <1>3. PICK u : u = KickTwin(m, e)
    OBVIOUS
  <1>4. Kicked(m, e, u)
    BY <1>2, <1>3, KickTwinIs
  <1>5. /\ Sound(u) /\ (u.up = m.up) /\ RoomsKept(m, u)
        /\ \A d \in CID : /\ u.conn[d].eid # e
                          /\ m.conn[d].eid # e => u.conn[d].eid = m.conn[d].eid
                          /\ m.conn[d].eid = NoEid => u.conn[d] = m.conn[d]
                          /\ m.conn[d].eid = e => u.conn[d] = FreeSlot
        /\ WaitersOnline(m) => WaitersOnline(u)
        /\ Len(u.quick) <= Len(m.quick)
    BY <1>4 DEF Kicked
  <1>6. u.conn[c].eid = NoEid /\ e # NoEid
    BY <1>2, <1>5, Indices
  <1>7. RoomsKept(t, u)
    BY <1>2, <1>5, RoomsKeptTwice
  <1>8. PICK r : r = u.userRoom[e]
    OBVIOUS
  <1>9. /\ u \in Tables /\ r \in ROOM \cup {NoRoom}
        /\ \A d \in CID : SessionAt(u, d)
        /\ \A q \in ROOM : RoomAt(u, q)
        /\ \A q \in ROOM, x \in EID : SeatAt(u, q, x)
    BY <1>5, <1>8, Entries DEF Sound
  <1>10. r \in ROOM => u.room[r].state # 0
    <2>1. FreeRoomRec.guest = <<>> /\ ToSet(<<>>) = {}
      BY DEF FreeRoomRec, ToSet
    <2>2. r \in ROOM => e \in ToSet(u.room[r].guest)
      BY <1>8, <1>9 DEF SeatAt
    <2>3. QED
      BY <1>9, <2>1, <2>2 DEF RoomAt
  <1>11. PICK room1 : room1 = StopTimer(u, r, e)
    OBVIOUS
  <1>12. /\ room1 \in [ROOM -> RoomRec]
         /\ \A q \in ROOM \ {r} : room1[q] = u.room[q]
         /\ r \in ROOM => /\ room1[r].state = u.room[r].state
                          /\ room1[r].guest = u.room[r].guest
                          /\ (room1[r].lua = u.room[r].lua)
                          /\ \A i \in 1 .. 2 : room1[r].off[i] =
                                                 IF Seat(u, r, i) = e THEN 0 ELSE u.room[r].off[i]
    BY <1>9, <1>11, StopTimerIs
  <1>13. PICK v : v = [u EXCEPT !.room = room1]
    OBVIOUS
  <1>14. /\ Sound(v) /\ (v.up = u.up) /\ v.conn = u.conn /\ v.index = u.index
         /\ v.userRoom = u.userRoom /\ v.room = room1 /\ v.pool = u.pool /\ v.quick = u.quick
    BY <1>5, <1>9, <1>10, <1>12, <1>13, TimerSound
  <1>15. PICK k : k = [up |-> TRUE, eid |-> e, room |-> r, busy |-> FALSE,
                       st |-> IF r = NoRoom THEN ST_LOGIN ELSE u.room[r].state]
    OBVIOUS
  <1>16. /\ k \in Conns /\ k.eid = e /\ k.room = r
         /\ k.st = IF r = NoRoom THEN ST_LOGIN ELSE u.room[r].state
    <2>1. r \in ROOM => u.room[r].state \in {ST_NULL, ST_LOGIN, ST_ROOM, ST_GAME}
      BY <1>9, Entries DEF ST_NULL, ST_LOGIN, ST_ROOM, ST_GAME
    <2>2. QED
      BY <1>9, <1>15, <2>1 DEF Conns
  <1>17. k.up
    BY <1>15
  <1>18. PICK s : s = [v EXCEPT !.index[e] = c, !.conn[c] = k]
    OBVIOUS
  <1>19. OutLogin(t, c, e) = s
    BY <1>1, <1>3, <1>8, <1>9, <1>11, <1>13, <1>15, <1>18 DEF OutLogin, Tables
  <1>20. /\ v \in Tables /\ \A d \in CID : SessionAt(v, d)
         /\ \A q \in ROOM : RoomAt(v, q)
         /\ \A q \in ROOM, x \in EID : SeatAt(v, q, x)
         /\ \A ch \in Channel : PoolAt(v, ch)
         /\ IsInjective(v.quick)
    BY <1>14 DEF Sound
  <1>21. /\ s \in Tables /\ s.index[e] = c /\ \A x \in EID \ {e} : s.index[x] = v.index[x]
         /\ s.conn[c] = k /\ \A d \in CID \ {c} : s.conn[d] = v.conn[d]
         /\ s.userRoom = v.userRoom /\ s.room = v.room /\ s.pool = v.pool /\ s.quick = v.quick
    BY <1>16, <1>18, <1>20 DEF Tables
  <1>22. s.up = v.up
    BY <1>16, <1>18, <1>20 DEF Tables
  <1>23. ASSUME NEW d \in CID PROVE SessionAt(s, d)
    <2>1. CASE d = c
      <3>1. r # NoRoom => /\ s.room[r].state # 0 /\ s.room[r].state = u.room[r].state
                          /\ s.room[r].lua => s.room[r].state = ST_GAME
        <4>1. r # NoRoom => r \in ROOM
          BY <1>9
        <4>2. \A q \in ROOM : s.room[q].lua => s.room[q].state = ST_GAME
          BY <1>20, <1>21 DEF RoomAt
        <4>3. r # NoRoom => s.room[r].state = u.room[r].state
          BY <1>12, <1>14, <1>21, <4>1
        <4>4. QED
          BY <1>10, <4>1, <4>2, <4>3
      <3>2. s.userRoom[e] = r
        BY <1>8, <1>14, <1>21
      <3>3. ST_LOGIN # ST_NULL /\ ST_NULL = 0
        BY DEF ST_LOGIN, ST_NULL
      <3>4. QED
        BY <1>16, <1>17, <1>21, <2>1, <3>1, <3>2, <3>3 DEF SessionAt
    <2>2. CASE d # c
      <3>1. s.conn[d] = v.conn[d] /\ v.conn[d] = u.conn[d] /\ u.conn[d].eid # e
        BY <1>5, <1>14, <1>21, <2>2
      <3>2. v.conn[d].eid # NoEid => s.index[v.conn[d].eid] = v.index[v.conn[d].eid]
        BY <1>20, <1>21, <3>1, Entries
      <3>3. SessionAt(v, d)
        BY <1>20
      <3>4. QED
        BY <1>21, <3>1, <3>2, <3>3 DEF SessionAt
    <2>3. QED
      BY <2>1, <2>2
  <1>24. /\ \A q \in ROOM : RoomAt(s, q)
         /\ \A q \in ROOM, x \in EID : SeatAt(s, q, x)
         /\ \A ch \in Channel : PoolAt(s, ch)
    BY <1>20, <1>21 DEF RoomAt, SeatAt, PoolAt
  <1>25. Sound(s)
    BY <1>20, <1>21, <1>23, <1>24 DEF Sound
  <1>26. s.conn[c].eid = e /\ (s.up = t.up)
    BY <1>2, <1>5, <1>14, <1>16, <1>21, <1>22
  <1>27. ASSUME NEW d \in CID \ {c}
         PROVE  /\ s.conn[d].eid # e
                /\ t.conn[d].eid # e => s.conn[d].eid = t.conn[d].eid
                /\ t.conn[d].eid = e => s.conn[d].eid = NoEid
                /\ IdleAt(t, d) => IdleAt(s, d)
    <2>1. s.conn[d] = u.conn[d]
      BY <1>14, <1>21
    <2>2. /\ m.conn[d].eid = t.conn[d].eid
          /\ t.conn[d].eid = NoEid => m.conn[d] = t.conn[d]
      BY <1>2 DEF OthersStay
    <2>3. IdleAt(t, d) => IdleAt(s, d)
      BY <1>5, <2>1, <2>2, EmptySlots DEF IdleAt
    <2>4. QED
      BY <1>5, <2>1, <2>2, <2>3, EmptySlots
  <1>28. ASSUME NEW q \in ROOM
         PROVE  \/ t.room[q].state = ST_ROOM /\ s.room[q] = FreeRoomRec
                \/ /\ s.room[q].state = t.room[q].state /\ s.room[q].guest = t.room[q].guest
                   /\ (s.room[q].lua = t.room[q].lua)
                   /\ \A i \in 1 .. 2 : /\ s.room[q].off[i] \in {0, t.room[q].off[i]}
                                        /\ Seat(s, q, i) = e => s.room[q].off[i] = 0
    <2>1. \/ u.room[q] = t.room[q]
          \/ t.room[q].state = ST_ROOM /\ u.room[q] = FreeRoomRec
      BY <1>7 DEF RoomsKept
    <2>2. s.room[q] = room1[q]
      BY <1>14, <1>21
    <2>3. CASE u.room[q] # t.room[q]
      <3>1. t.room[q].state = ST_ROOM /\ u.room[q] = FreeRoomRec
        BY <2>1, <2>3
      <3>2. q # r
        BY <1>10, <3>1 DEF FreeRoomRec
      <3>3. QED
        BY <1>12, <2>2, <3>1, <3>2
    <2>4. CASE u.room[q] = t.room[q]
      <3>1. /\ s.room[q].state = t.room[q].state /\ s.room[q].guest = t.room[q].guest
            /\ (s.room[q].lua = t.room[q].lua)
        <4>1. CASE q = r
          BY <1>12, <2>2, <2>4, <4>1
        <4>2. CASE q # r
          BY <1>12, <2>2, <2>4, <4>2
        <4>3. QED
          BY <4>1, <4>2
      <3>2. ASSUME NEW i \in 1 .. 2
            PROVE  /\ s.room[q].off[i] \in {0, t.room[q].off[i]}
                   /\ Seat(s, q, i) = e => s.room[q].off[i] = 0
        <4>1. Seat(s, q, i) = Seat(u, q, i)
          BY <2>4, <3>1 DEF Seat
        <4>2. CASE q = r
          BY <1>12, <2>2, <2>4, <4>1, <4>2
        <4>3. CASE q # r
          <5>1. s.room[q].off[i] = t.room[q].off[i]
            BY <1>12, <2>2, <2>4, <4>3
          <5>2. Seat(u, q, i) # e
            <6>1. e \notin ToSet(u.room[q].guest)
              BY <1>8, <1>9, <4>3 DEF SeatAt
            <6>2. u.room[q].guest \in Seq(EID \cup AI)
              BY <1>9, Entries
            <6>3. i <= Len(u.room[q].guest) => u.room[q].guest[i] \in ToSet(u.room[q].guest)
              BY <6>2, Places
            <6>4. QED
              BY <1>6, <6>1, <6>3 DEF Seat
          <5>3. QED
            BY <4>1, <5>1, <5>2
        <4>4. QED
          BY <4>2, <4>3
      <3>3. QED
        BY <3>1, <3>2
    <2>5. QED
      BY <2>3, <2>4
  <1>29. ASSUME NEW q \in ROOM, s.room[q].state = ST_ROOM, Alive(t, q) PROVE Alive(s, q)
    <2>1. u.room[q].state = ST_ROOM
      <3>1. s.room[q] = room1[q]
        BY <1>14, <1>21
      <3>2. CASE q = r
        BY <1>12, <1>29, <3>1, <3>2
      <3>3. CASE q # r
        BY <1>12, <1>29, <3>1, <3>3
      <3>4. QED
        BY <3>2, <3>3
    <2>2. Alive(u, q)
      BY <1>7, <1>29, <2>1 DEF RoomsKept
    <2>3. PICK d \in CID : u.conn[d].eid # NoEid /\ u.conn[d].room = q
      BY <2>2 DEF Alive
    <2>4. s.conn[d] = u.conn[d]
      BY <1>6, <1>14, <1>21, <2>3
    <2>5. QED
      BY <2>3, <2>4 DEF Alive
  <1>30. /\ WaitersOnline(t) => WaitersOnline(s)
         /\ Len(s.quick) <= Len(t.quick)
    <2>1. s.quick = u.quick
      BY <1>14, <1>21
    <2>2. WaitersOnline(u) => WaitersOnline(s)
      <3>1. SUFFICES ASSUME WaitersOnline(u), NEW x \in ToSet(s.quick)
                     PROVE  \E d \in CID : s.conn[d].eid = x
        BY DEF WaitersOnline
      <3>2. x \in EID
        BY <1>9, <2>1, <3>1, Entries, Places
      <3>3. PICK d \in CID : u.conn[d].eid = x
        BY <2>1, <3>1 DEF WaitersOnline
      <3>4. s.conn[d] = u.conn[d]
        BY <1>6, <1>14, <1>21, <3>2, <3>3, Indices
      <3>5. QED
        BY <3>3, <3>4
    <2>3. Len(t.quick) \in Nat /\ Len(m.quick) \in Nat /\ Len(u.quick) \in Nat
      BY <1>2, <1>9, Entries DEF Sound
    <2>4. QED
      BY <1>2, <1>5, <2>1, <2>2, <2>3
  <1>31. QED
    BY <1>19, <1>25, <1>26, <1>27, <1>28, <1>29, <1>30 DEF LoggedIn

----------------------------------------------------------------------------
(* Rooms are opened, joined and left.                                      *)

\* Nobody sits in a free room.
LEMMA NobodyInFree ==
    ASSUME NEW t, Sound(t), NEW r \in ROOM, t.room[r].state = 0
    PROVE  /\ t.room[r] = FreeRoomRec
           /\ \A e \in EID : t.userRoom[e] # r
           /\ \A d \in CID : t.conn[d].eid # NoEid => t.conn[d].room # r
  <1>1. /\ t \in Tables /\ \A d \in CID : SessionAt(t, d)
        /\ RoomAt(t, r) /\ \A e \in EID : SeatAt(t, r, e)
    BY DEF Sound
  <1>2. t.room[r] = FreeRoomRec
    BY <1>1 DEF RoomAt
  <1>3. FreeRoomRec.guest = <<>> /\ ToSet(<<>>) = {}
    BY DEF FreeRoomRec, ToSet
  <1>4. \A e \in EID : t.userRoom[e] # r
    BY <1>1, <1>2, <1>3 DEF SeatAt
  <1>5. ASSUME NEW d \in CID, t.conn[d].eid # NoEid PROVE t.conn[d].room # r
    <2>1. t.conn[d].eid \in EID /\ t.conn[d].room = t.userRoom[t.conn[d].eid]
      BY <1>1, <1>5, Entries DEF SessionAt
    <2>2. QED
      BY <1>4, <2>1
  <1>6. QED
    BY <1>2, <1>4, <1>5

\* Two channels share no room.
LEMMA ChannelsApart ==
    ASSUME NEW c1 \in Channel, NEW c2 \in Channel, NEW r, r \in c1, r \in c2
    PROVE  c1 = c2
  BY Indices DEF Channel

\* Room r of channel ch is taken off the free list and becomes rec.
Opened(t, ch, r, rec, s) ==
    /\ s \in Tables
    /\ (s.up = t.up) /\ s.conn = t.conn /\ s.index = t.index /\ s.userRoom = t.userRoom
    /\ s.quick = t.quick
    /\ s.pool = [t.pool EXCEPT ![ch] = Tail(t.pool[ch])]
    /\ s.room = [t.room EXCEPT ![r] = rec]

\* Room r is the one that is handed out, and the free list of ch loses it.
Handed(t, ch, r, s) ==
    /\ t.pool[ch] # <<>> /\ r = Head(t.pool[ch])
    /\ s.pool[ch] = Tail(t.pool[ch])
    /\ \A cx \in Channel \ {ch} : s.pool[cx] = t.pool[cx]
    /\ s.room[r].state # 0
    /\ \A q \in ROOM \ {r} : s.room[q].state = t.room[q].state

\* The free lists are exact after it.
LEMMA PoolTaken ==
    ASSUME NEW t, Sound(t), NEW ch \in Channel, NEW r, NEW s, Handed(t, ch, r, s)
    PROVE  /\ r \in ch /\ r \in ROOM /\ t.room[r].state = 0
           /\ \A cx \in Channel : PoolAt(s, cx)
  <1> USE DEF Handed
  <1>1. t \in Tables /\ \A cx \in Channel : PoolAt(t, cx) /\ cx \subseteq ROOM
    BY Indices DEF Sound
  <1>2. /\ t.pool[ch] \in Seq(ch) /\ IsInjective(t.pool[ch])
        /\ ToSet(t.pool[ch]) = {q \in ch : t.room[q].state = 0}
    BY <1>1 DEF PoolAt
  <1>3. /\ r \in ToSet(t.pool[ch]) /\ Tail(t.pool[ch]) \in Seq(ch)
        /\ IsInjective(Tail(t.pool[ch])) /\ ToSet(Tail(t.pool[ch])) = ToSet(t.pool[ch]) \ {r}
    BY <1>2, TakeFirst
  <1>4. r \in ch /\ r \in ROOM /\ t.room[r].state = 0
    BY <1>1, <1>2, <1>3
  <1>6. s.pool[ch] = Tail(t.pool[ch]) /\ \A cx \in Channel \ {ch} : s.pool[cx] = t.pool[cx]
    OBVIOUS
  <1>7. PoolAt(s, ch)
    <2>1. {q \in ch : s.room[q].state = 0} = {q \in ch : t.room[q].state = 0} \ {r}
      BY <1>1
    <2>2. QED
      BY <1>2, <1>3, <1>6, <2>1 DEF PoolAt
  <1>8. ASSUME NEW cx \in Channel, cx # ch PROVE PoolAt(s, cx)
    <2>1. r \notin cx
      BY <1>4, <1>8, ChannelsApart
    <2>2. {q \in cx : s.room[q].state = 0} = {q \in cx : t.room[q].state = 0}
      BY <1>1, <2>1
    <2>3. QED
      BY <1>1, <1>6, <1>8, <2>2 DEF PoolAt
  <1>9. QED
    BY <1>4, <1>7, <1>8

\* The records of a waiting room without a guest.
LEMMA NewRoomRec ==
    /\ [FreeRoomRec EXCEPT !.state = ST_ROOM] \in RoomRec
    /\ [FreeRoomRec EXCEPT !.state = ST_ROOM].state = ST_ROOM
    /\ [FreeRoomRec EXCEPT !.state = ST_ROOM].guest = <<>>
    /\ [FreeRoomRec EXCEPT !.state = ST_ROOM].lua = FALSE
    /\ \A i \in 1 .. 2 : [FreeRoomRec EXCEPT !.state = ST_ROOM].off[i] = 0
    /\ FreeRoomRec \in RoomRec /\ FreeRoomRec.guest = <<>>
    /\ FreeRoomRec.lua = FALSE /\ FreeRoomRec.state = 0
    /\ \A i \in 1 .. 2 : FreeRoomRec.off[i] = 0
  <1>1. <<0, 0>> \in [1 .. 2 -> 0 .. FOLD_PASSES] /\ \A i \in 1 .. 2 : <<0, 0>>[i] = 0
    BY LobbyAssumption
  <1>2. <<>> \in Seq(EID \cup AI)
    OBVIOUS
  <1>3. QED
    BY <1>1, <1>2 DEF FreeRoomRec, RoomRec

\* new_room(): the tables it leaves, and that they are sound.
LEMMA NewRoomIs ==
    ASSUME NEW t, Sound(t), NEW ch \in Channel, t.pool[ch] # <<>>,
           NEW r, r = Head(t.pool[ch])
    PROVE  /\ r \in ROOM /\ t.room[r].state = 0
           /\ Opened(t, ch, r, [FreeRoomRec EXCEPT !.state = ST_ROOM], NewRoom(t, ch, r))
           /\ Sound(NewRoom(t, ch, r))
  <1>1. PICK rec : rec = [FreeRoomRec EXCEPT !.state = ST_ROOM]
    OBVIOUS
  <1>2. rec \in RoomRec /\ rec.state = ST_ROOM /\ rec.guest = <<>> /\ rec.lua = FALSE
    BY <1>1, NewRoomRec
  <1>3. /\ t \in Tables /\ IsInjective(t.quick)
        /\ t.pool \in [Channel -> Seq(ROOM)] /\ t.room \in [ROOM -> RoomRec]
    BY DEF Sound, Tables
  <1>4. r \in ROOM /\ t.room[r].state = 0
    <2>1. /\ t.pool[ch] \in Seq(ch) /\ IsInjective(t.pool[ch])
          /\ ToSet(t.pool[ch]) = {q \in ch : t.room[q].state = 0} /\ ch \subseteq ROOM
      BY Indices DEF Sound, PoolAt
    <2>2. r \in ToSet(t.pool[ch])
      BY <2>1, TakeFirst
    <2>3. QED
      BY <2>1, <2>2
  <1>5. PICK s : s = NewRoom(t, ch, r)
    OBVIOUS
  <1> DEFINE pool1 == [t.pool EXCEPT ![ch] = Tail(t.pool[ch])]
             room1 == [t.room EXCEPT ![r] = rec]
  <1>6. s = [t EXCEPT !.pool = pool1, !.room = room1]
    BY <1>1, <1>3, <1>5 DEF NewRoom, Tables
  <1>7. room1 \in [ROOM -> RoomRec] /\ room1[r] = rec /\ \A q \in ROOM \ {r} : room1[q] = t.room[q]
    BY <1>2, <1>3, <1>4
  <1>8. pool1 \in [Channel -> Seq(ROOM)]
    BY <1>3
  <1> HIDE DEF pool1, room1
  <1>9. /\ s \in Tables /\ s.conn = t.conn /\ s.index = t.index /\ s.userRoom = t.userRoom
        /\ s.quick = t.quick /\ s.pool = pool1 /\ s.room = room1
    BY <1>3, <1>6, <1>7, <1>8 DEF Tables
  <1>10. s.up = t.up
    BY <1>3, <1>6, <1>7, <1>8 DEF Tables
  <1>11. Opened(t, ch, r, rec, s)
    BY <1>9, <1>10 DEF Opened, pool1, room1
  <1>12. \A cx \in Channel : PoolAt(s, cx)
    <2>1. pool1[ch] = Tail(t.pool[ch]) /\ \A cx \in Channel \ {ch} : pool1[cx] = t.pool[cx]
      BY <1>3 DEF pool1
    <2>2. /\ s.room[r].state # 0
          /\ \A q \in ROOM \ {r} : s.room[q].state = t.room[q].state
      BY <1>2, <1>7, <1>9 DEF ST_ROOM
    <2>3. Handed(t, ch, r, s)
      BY <1>9, <2>1, <2>2 DEF Handed
    <2>4. QED
      BY <2>3, PoolTaken
  <1>13. Sound(s)
    <2>1. PICK G : G = {}
      OBVIOUS
    <2>2. RoomAt(s, r)
      BY <1>2, <1>7, <1>9, LobbyAssumption DEF RoomAt, IsInjective, ST_ROOM
    <2>3. ToSet(s.room[r].guest) = ToSet(t.room[r].guest) \cup G
      BY <1>2, <1>4, <1>7, <1>9, <2>1, NobodyInFree, NewRoomRec
    <2>4. \A d \in CID : t.conn[d].eid # NoEid => t.conn[d].room # r
      BY <1>4, NobodyInFree
    <2>5. Seated(t, r, G, s)
      BY <1>3, <1>4, <1>7, <1>9, <1>12, <2>1, <2>2, <2>3, <2>4 DEF Seated
    <2>6. QED
      BY <2>5, SeatSound
  <1>14. QED
    BY <1>1, <1>4, <1>5, <1>11, <1>13

\* A user has taken the last seat of r with connection c.
Added(t, r, c, s) ==
    /\ Sound(s)
    /\ (s.up = t.up) /\ s.quick = t.quick
    /\ s.conn[c].eid = t.conn[c].eid /\ s.conn[c].room = r
    /\ \A d \in CID \ {c} : s.conn[d] = t.conn[d]
    /\ \A q \in ROOM \ {r} : s.room[q] = t.room[q]
    /\ s.room[r].state = t.room[r].state /\ (s.room[r].lua = t.room[r].lua)
    /\ s.room[r].off = t.room[r].off
    /\ s.room[r].guest = Append(t.room[r].guest, t.conn[c].eid)

\* do_room_add() for a user outside of every room.
LEMMA DoRoomAddIs ==
    ASSUME NEW t, Sound(t), NEW r \in ROOM, NEW c \in CID,
           t.conn[c].eid # NoEid, t.conn[c].room = NoRoom,
           t.room[r].state # 0, Len(t.room[r].guest) < MAX_GUEST
    PROVE  Added(t, r, c, DoRoomAdd(t, r, c))
  <1>1. /\ t \in Tables /\ \A d \in CID : SessionAt(t, d)
        /\ RoomAt(t, r) /\ \A u \in EID : SeatAt(t, r, u)
        /\ \A ch \in Channel : PoolAt(t, ch) /\ ch \subseteq ROOM
        /\ IsInjective(t.quick)
    BY Indices DEF Sound
  <1>2. PICK e : e = t.conn[c].eid
    OBVIOUS
  <1>3. e \in EID /\ e # NoEid /\ t.userRoom[e] = NoRoom /\ NoRoom # r
    BY <1>1, <1>2, Entries, Indices DEF SessionAt
  <1>4. /\ t.room[r] \in RoomRec /\ t.room[r].guest \in Seq(EID \cup AI)
        /\ t.room[r].state \in {0, 10, 15}
    BY <1>1, Entries
  <1>5. e \notin ToSet(t.room[r].guest) /\ IsInjective(t.room[r].guest)
    BY <1>1, <1>3 DEF SeatAt, RoomAt
  <1> DEFINE g1 == Append(t.room[r].guest, e)
  <1>6. /\ g1 \in Seq(EID \cup AI) /\ IsInjective(g1)
        /\ ToSet(g1) = ToSet(t.room[r].guest) \cup {e}
        /\ Len(g1) = Len(t.room[r].guest) + 1
    BY <1>3, <1>4, <1>5, AppendNew
  <1> DEFINE rec1 == [t.room[r] EXCEPT !.guest = g1]
             room1 == [t.room EXCEPT ![r] = rec1]
             k1 == [t.conn[c] EXCEPT !.room = r, !.st = t.room[r].state]
             conn1 == [t.conn EXCEPT ![c] = k1]
             user1 == [t.userRoom EXCEPT ![e] = r]
  <1>7. PICK s : s = [t EXCEPT !.room = room1, !.conn = conn1, !.userRoom = user1]
    OBVIOUS
  <1>8. DoRoomAdd(t, r, c) = s
    <2>1. [t EXCEPT !.room = room1].conn = t.conn
      BY <1>1 DEF Tables
    <2>2. DOMAIN t.room = ROOM /\ DOMAIN t.conn = CID
      BY <1>1 DEF Tables
    <2>3. DoRoomAdd(t, r, c) =
            [t EXCEPT !.room = room1,
                      !.conn = [t.conn EXCEPT ![c] = [t.conn[c] EXCEPT !.room = r,
                                                                       !.st = t.room[r].state]],
                      !.userRoom = user1]
      BY <1>1, <1>2, <2>1, <2>2 DEF DoRoomAdd
    <2>4. QED
      BY <1>7, <2>3
  <1> HIDE DEF g1
  <1>9. /\ rec1 \in RoomRec /\ rec1.guest = g1
        /\ rec1.state = t.room[r].state /\ rec1.off = t.room[r].off
    BY <1>4, <1>6 DEF RoomRec
  <1>10. rec1.lua = t.room[r].lua
    BY <1>4, <1>6 DEF RoomRec
  <1>11. k1 \in Conns /\ k1.eid = e /\ k1.room = r /\ k1.st = t.room[r].state
    <2>1. t.conn[c] \in Conns
      BY <1>1, Entries
    <2>2. t.room[r].state \in {ST_NULL, ST_LOGIN, ST_ROOM, ST_GAME}
      BY <1>4 DEF ST_NULL, ST_LOGIN, ST_ROOM, ST_GAME
    <2>3. QED
      BY <1>2, <2>1, <2>2 DEF Conns
  <1>12. k1.up = t.conn[c].up
    BY <1>1, Entries DEF Conns
  <1> HIDE DEF rec1, k1
  <1>13. room1 \in [ROOM -> RoomRec] /\ room1[r] = rec1 /\ \A q \in ROOM \ {r} : room1[q] = t.room[q]
    BY <1>1, <1>9 DEF Tables
  <1>14. conn1 \in [CID -> Conns] /\ conn1[c] = k1 /\ \A d \in CID \ {c} : conn1[d] = t.conn[d]
    BY <1>1, <1>11 DEF Tables
  <1>15. user1 \in [EID -> ROOM \cup {NoRoom}] /\ \A u \in EID : user1[u] = IF u = e THEN r ELSE t.userRoom[u]
    BY <1>1, <1>3 DEF Tables
  <1> HIDE DEF room1, conn1, user1
  <1>16. /\ s \in Tables /\ s.room = room1 /\ s.conn = conn1 /\ s.userRoom = user1
         /\ s.index = t.index /\ s.pool = t.pool /\ s.quick = t.quick
    BY <1>1, <1>7, <1>13, <1>14, <1>15 DEF Tables
  <1>17. s.up = t.up
    BY <1>1, <1>7, <1>13, <1>14, <1>15 DEF Tables
  <1>18. \A ch \in Channel : PoolAt(s, ch)
    <2>1. \A q \in ROOM : s.room[q].state = t.room[q].state
      BY <1>9, <1>13, <1>16
    <2>2. ASSUME NEW ch \in Channel
          PROVE  {q \in ch : s.room[q].state = 0} = {q \in ch : t.room[q].state = 0}
      BY <1>1, <2>1
    <2>3. QED
      BY <1>1, <1>16, <2>2 DEF PoolAt
  <1>19. Sound(s)
    <2>1. PICK G : G = {e}
      OBVIOUS
    <2>2. RoomAt(s, r)
      <3>1. t.room[r].lua => t.room[r].state = ST_GAME
        BY <1>1 DEF RoomAt
      <3>2. s.room[r] = rec1
        BY <1>13, <1>16
      <3>3. Len(t.room[r].guest) \in Nat /\ Len(g1) <= MAX_GUEST
        BY <1>4, <1>6, LobbyAssumption
      <3>4. QED
        BY <1>6, <1>9, <1>10, <3>1, <3>2, <3>3 DEF RoomAt
    <2>3. ToSet(s.room[r].guest) = ToSet(t.room[r].guest) \cup G
      BY <1>6, <1>9, <1>13, <1>16, <2>1
    <2>4. ASSUME NEW d \in CID, t.conn[d].eid # NoEid, t.conn[d].eid = e \/ t.conn[d].room = r
          PROVE  /\ s.conn[d].room = r /\ s.conn[d].st # ST_NULL
                 /\ s.room[r].state = ST_ROOM => s.conn[d].st = ST_ROOM
                 /\ s.room[r].lua => s.conn[d].st = ST_GAME
      <3>1. CASE d = c
        <4>1. t.room[r].lua => t.room[r].state = ST_GAME
          BY <1>1 DEF RoomAt
        <4>2. /\ s.conn[d].room = r /\ s.conn[d].st = t.room[r].state
              /\ s.room[r].state = t.room[r].state /\ (s.room[r].lua = t.room[r].lua)
          BY <1>9, <1>10, <1>11, <1>13, <1>14, <1>16, <3>1
        <4>3. QED
          BY <4>1, <4>2 DEF ST_NULL
      <3>2. CASE d # c
        <4>1. s.conn[d] = t.conn[d]
          BY <1>14, <1>16, <3>2
        <4>2. t.conn[d].eid # e
          BY <1>1, <1>2, <1>3, <3>2 DEF SessionAt
        <4>3. t.conn[d].room = r /\ r # NoRoom /\ SessionAt(t, d)
          BY <1>1, <1>3, <2>4, <4>2
        <4>4. s.room[r].state = t.room[r].state /\ (s.room[r].lua = t.room[r].lua)
          BY <1>9, <1>10, <1>13, <1>16
        <4>5. QED
          BY <2>4, <4>1, <4>3, <4>4 DEF SessionAt
      <3>3. QED
        BY <3>1, <3>2
    <2>5. ASSUME NEW d \in CID
          PROVE  /\ s.conn[d].eid = t.conn[d].eid
                 /\ t.conn[d].eid # NoEid =>
                      /\ (s.conn[d].up = t.conn[d].up)
                      /\ ~(t.conn[d].eid = e \/ t.conn[d].room = r) =>
                           s.conn[d].room = t.conn[d].room /\ s.conn[d].st = t.conn[d].st
      BY <1>2, <1>11, <1>12, <1>14, <1>16
    <2>6. \A d \in CID :
            /\ s.conn[d].eid = t.conn[d].eid
            /\ t.conn[d].eid # NoEid =>
                 /\ (s.conn[d].up = t.conn[d].up)
                 /\ \/ /\ t.conn[d].eid \in G \/ t.conn[d].room = r
                       /\ s.conn[d].room = r /\ s.conn[d].st # ST_NULL
                       /\ s.room[r].state = ST_ROOM => s.conn[d].st = ST_ROOM
                       /\ s.room[r].lua => s.conn[d].st = ST_GAME
                    \/ /\ ~(t.conn[d].eid \in G \/ t.conn[d].room = r)
                       /\ s.conn[d].room = t.conn[d].room /\ s.conn[d].st = t.conn[d].st
      BY <2>1, <2>4, <2>5
    <2>7. /\ \A u \in EID : s.userRoom[u] = IF u \in G THEN r ELSE t.userRoom[u]
          /\ \A u \in EID : u \in G => t.userRoom[u] \in {NoRoom, r}
          /\ \A q \in ROOM \ {r} : s.room[q] = t.room[q]
      BY <1>3, <1>13, <1>15, <1>16, <2>1
    <2>8. Seated(t, r, G, s)
      BY <1>1, <1>16, <1>18, <2>2, <2>3, <2>6, <2>7 DEF Seated
    <2>9. QED
      BY <2>8, SeatSound
  <1>20. Added(t, r, c, s)
    BY <1>2, <1>9, <1>10, <1>11, <1>13, <1>14, <1>16, <1>17, <1>19 DEF Added, g1
  <1>21. QED
    BY <1>8, <1>20

----------------------------------------------------------------------------
(* What is kept besides Sound.                                             *)

\* A waiting room has somebody connected to it.
AllAlive(t) == \A r \in ROOM : t.room[r].state = ST_ROOM => Alive(t, r)

\* A running game has two players, and who is there has no timer.
TwoPlayers(t) == \A r \in ROOM : t.room[r].state = ST_GAME => Len(t.room[r].guest) >= 2
TimerAway(t) ==
    \A r \in ROOM, i \in 1 .. 2 :
      t.room[r].off[i] > 0 => t.room[r].state = ST_GAME /\ ~Online(t, Seat(t, r, i))
GamesOK(t) == TwoPlayers(t) /\ TimerAway(t)

SamePlayers(t, s) ==
    \A r \in ROOM : t.room[r].lua /\ s.room[r].lua =>
      \A i \in 1 .. 2 : Seat(t, r, i) = Seat(s, r, i)

\* Rooms and timers change, but nobody comes, goes or waits.
Calm(t, s) ==
    /\ Sound(s)
    /\ \A d \in CID : s.conn[d].eid = t.conn[d].eid /\ (IdleAt(t, d) => IdleAt(s, d))
    /\ s.quick = t.quick
    /\ AllAlive(t) => AllAlive(s)
    /\ GamesOK(t) => GamesOK(s)

\* Two functions after each other.
LEMMA CalmTwice ==
    ASSUME NEW t, NEW m, NEW s, Calm(t, m), Calm(m, s)
    PROVE  Calm(t, s)
  BY DEF Calm

\* Nothing at all.
LEMMA CalmSelf ==
    ASSUME NEW t, Sound(t)
    PROVE  Calm(t, t)
  BY DEF Calm

\* Who is logged in stays so.
LEMMA SameOnline ==
    ASSUME NEW t, Sound(t), NEW s, Sound(s),
           \A d \in CID : s.conn[d].eid = t.conn[d].eid,
           NEW e
    PROVE  (Online(s, e) <=> Online(t, e)) /\ ConnOf(s, e) = ConnOf(t, e)
  <1>1. /\ t \in Tables /\ \A d \in CID : SessionAt(t, d)
        /\ s \in Tables /\ \A d \in CID : SessionAt(s, d)
    BY DEF Sound
  <1>2. /\ Online(t, e) <=> (e \in EID /\ \E d \in CID : t.conn[d].eid = e)
        /\ ConnOf(t, e) \in CID \cup {NoConn}
        /\ \A d \in CID : ConnOf(t, e) = d <=> (e \in EID /\ t.conn[d].eid = e)
    BY <1>1, WhereIs
  <1>3. /\ Online(s, e) <=> (e \in EID /\ \E d \in CID : s.conn[d].eid = e)
        /\ ConnOf(s, e) \in CID \cup {NoConn}
        /\ \A d \in CID : ConnOf(s, e) = d <=> (e \in EID /\ s.conn[d].eid = e)
    BY <1>1, WhereIs
  <1>4. ConnOf(s, e) = ConnOf(t, e)
    <2>1. CASE ConnOf(t, e) \in CID
      BY <1>2, <1>3, <2>1
    <2>2. CASE ConnOf(s, e) \in CID
      BY <1>2, <1>3, <2>2
    <2>3. CASE ConnOf(s, e) \notin CID /\ ConnOf(t, e) \notin CID
      BY <1>2, <1>3, <2>3
    <2>4. QED
      BY <2>1, <2>2, <2>3
  <1>5. QED
    BY <1>2, <1>3, <1>4

\* A room is freed, whatever its state.
LEMMA FreedCalm ==
    ASSUME NEW t, Sound(t), NEW r \in ROOM, t.room[r].state # 0,
           NEW s, RoomFreed(t, r, s)
    PROVE  /\ Calm(t, s)
           /\ s.room[r] = FreeRoomRec /\ \A q \in ROOM \ {r} : s.room[q] = t.room[q]
  <1>1. /\ t \in Tables /\ \A d \in CID : SessionAt(t, d)
        /\ \A q \in ROOM, u \in EID : SeatAt(t, q, u)
    BY DEF Sound
  <1>2. /\ s \in Tables /\ s.quick = t.quick
        /\ s.conn = ConnsWithout(t, Guests(t, r))
        /\ s.room = [t.room EXCEPT ![r] = FreeRoomRec]
    BY DEF RoomFreed
  <1>3. Sound(s)
    BY FreeRoomSound
  <1>4. ASSUME NEW d \in CID
        PROVE  /\ s.conn[d].eid = t.conn[d].eid
               /\ t.conn[d].eid = NoEid => s.conn[d] = t.conn[d]
    BY <1>1, <1>2, Entries, OutsideIs DEF ConnsWithout
  <1>5. s.room[r] = FreeRoomRec /\ \A q \in ROOM \ {r} : s.room[q] = t.room[q]
    BY <1>1, <1>2 DEF Tables
  <1>6. ASSUME AllAlive(t) PROVE AllAlive(s)
    <2> SUFFICES ASSUME NEW q \in ROOM, s.room[q].state = ST_ROOM PROVE Alive(s, q)
      BY DEF AllAlive
    <2>1. q # r /\ t.room[q].state = ST_ROOM
      BY <1>5 DEF FreeRoomRec, ST_ROOM
    <2>2. PICK d \in CID : t.conn[d].eid # NoEid /\ t.conn[d].room = q
      BY <1>6, <2>1 DEF Alive, AllAlive
    <2>3. t.conn[d].eid \in EID /\ t.userRoom[t.conn[d].eid] = q
      BY <1>1, <2>2, Entries DEF SessionAt
    <2>4. t.conn[d].eid \notin Guests(t, r)
      BY <1>1, <2>1, <2>3 DEF SeatAt, Guests
    <2>5. s.conn[d] = t.conn[d]
      BY <1>2, <2>4 DEF ConnsWithout
    <2>6. QED
      BY <2>2, <2>5 DEF Alive
  <1>7. ASSUME GamesOK(t) PROVE GamesOK(s)
    <2>1. FreeRoomRec.state # ST_GAME /\ \A i \in 1 .. 2 : FreeRoomRec.off[i] = 0
      BY NewRoomRec DEF ST_GAME
    <2>2. TwoPlayers(s)
      BY <1>5, <1>7, <2>1 DEF GamesOK, TwoPlayers
    <2>3. ASSUME NEW q \in ROOM, NEW i \in 1 .. 2, s.room[q].off[i] > 0
          PROVE  s.room[q].state = ST_GAME /\ ~Online(s, Seat(s, q, i))
      <3>1. q # r
        BY <1>5, <2>1, <2>3
      <3>2. s.room[q] = t.room[q]
        BY <1>5, <3>1
      <3>3. Seat(s, q, i) = Seat(t, q, i)
        BY <3>2 DEF Seat
      <3>4. t.room[q].state = ST_GAME /\ ~Online(t, Seat(t, q, i))
        BY <1>7, <2>3, <3>2 DEF GamesOK, TimerAway
      <3>5. ~Online(s, Seat(t, q, i))
        BY <1>3, <1>4, <3>4, SameOnline
      <3>6. QED
        BY <3>2, <3>3, <3>4, <3>5
    <2>4. TimerAway(s)
      BY <2>3 DEF TimerAway
    <2>5. QED
      BY <2>2, <2>4 DEF GamesOK
  <1>8. \A d \in CID : IdleAt(t, d) => IdleAt(s, d)
    BY <1>4 DEF IdleAt
  <1>9. Calm(t, s)
    BY <1>2, <1>3, <1>4, <1>6, <1>7, <1>8 DEF Calm
  <1>10. QED
    BY <1>5, <1>9

----------------------------------------------------------------------------
(* Games end.                                                              *)

\* win_game() with a game VM frees the room, whose guests are out of it
\* already.
LEMMA WinGameIs ==
    ASSUME NEW t, Sound(t), NEW r \in ROOM, t.room[r].lua
    PROVE  t.room[r].state # 0 /\ RoomFreed(t, r, WinGame(t, r))
  <1>1. t \in Tables /\ (\A d \in CID : SessionAt(t, d)) /\ RoomAt(t, r)
    BY DEF Sound
  <1>2. t.room[r].state = ST_GAME /\ t.room[r].state # 0
    BY <1>1 DEF RoomAt, ST_GAME
  <1>3. ASSUME NEW d \in CID
        PROVE  /\ (\E e \in Guests(t, r) : ConnOf(t, e) = d) <=> t.conn[d].eid \in Guests(t, r) \ {NoEid}
               /\ t.conn[d] \in Conns
    <2>1. t.conn[d] \in Conns /\ t.conn[d].eid \in EID \cup {NoEid}
      BY <1>1, Entries
    <2>2. QED
      BY <1>1, <2>1, WhereIs, Indices
  <1>4. PICK m : m = [t EXCEPT !.conn = [c \in CID |->
                       IF \E e \in Guests(t, r) : ConnOf(t, e) = c
                       THEN [t.conn[c] EXCEPT !.room = NoRoom, !.st = ST_LOGIN] ELSE t.conn[c]]]
    OBVIOUS
  <1>5. WinGame(t, r) = FreeRoom(m, r)
    BY <1>4 DEF WinGame
  <1>6. m = [t EXCEPT !.conn = ConnsWithout(t, Guests(t, r))]
    BY <1>3, <1>4 DEF ConnsWithout, Outside
  <1>7. ConnsWithout(t, Guests(t, r)) \in [CID -> Conns]
    BY <1>3, OutsideIs DEF ConnsWithout
  <1>8. /\ m \in Tables /\ m.index = t.index /\ m.quick = t.quick /\ m.room = t.room
        /\ m.userRoom = t.userRoom /\ m.pool = t.pool /\ m.conn = ConnsWithout(t, Guests(t, r))
    BY <1>1, <1>6, <1>7 DEF Tables
  <1>9. m.up = t.up
    BY <1>1, <1>6, <1>7 DEF Tables
  <1>10. ASSUME NEW d \in CID
         PROVE  /\ m.conn[d] = IF t.conn[d].eid \in Guests(t, r) \ {NoEid}
                               THEN Outside(t.conn[d]) ELSE t.conn[d]
                /\ m.conn[d].eid = t.conn[d].eid
                /\ (m.conn[d].up = t.conn[d].up)
    BY <1>3, <1>8, OutsideIs DEF ConnsWithout
  <1>11. ASSUME NEW e \in Guests(t, r) PROVE ConnOf(m, e) = ConnOf(t, e)
    <2>1. e \in EID => t.index[e] \in CID
      BY <1>1, Entries
    <2>2. QED
      BY <1>8, <1>10, <2>1 DEF ConnOf
  <1>12. Guests(m, r) = Guests(t, r)
    BY <1>8 DEF Guests
  <1> DEFINE conn1 == [c \in CID |->
                         IF \E e \in Guests(m, r) : ConnOf(m, e) = c
                         THEN [m.conn[c] EXCEPT !.room = NoRoom,
                                                !.st = IF m.conn[c].st >= ST_ROOM THEN ST_LOGIN
                                                       ELSE m.conn[c].st]
                         ELSE m.conn[c]]
             user1 == [e \in EID |-> IF e \in Guests(m, r) THEN NoRoom ELSE m.userRoom[e]]
             room1 == [m.room EXCEPT ![r] = FreeRoomRec]
             pool1 == [ch \in Channel |-> IF r \in ch THEN <<r>> \o m.pool[ch] ELSE m.pool[ch]]
  <1>13. PICK s : s = FreeRoom(m, r)
    OBVIOUS
  <1>14. conn1 = ConnsWithout(t, Guests(t, r))
    <2> SUFFICES ASSUME NEW c \in CID PROVE conn1[c] = ConnsWithout(t, Guests(t, r))[c]
      BY DEF ConnsWithout
    <2>1. (\E e \in Guests(m, r) : ConnOf(m, e) = c) <=> t.conn[c].eid \in Guests(t, r) \ {NoEid}
      BY <1>3, <1>11, <1>12
    <2>2. CASE t.conn[c].eid \in Guests(t, r) \ {NoEid}
      <3>1. m.conn[c] = Outside(t.conn[c]) /\ Outside(t.conn[c]) \in Conns
            /\ Outside(t.conn[c]).st = ST_LOGIN /\ Outside(t.conn[c]).room = NoRoom
        BY <1>3, <1>10, <2>2, OutsideIs
      <3>2. conn1[c] = [Outside(t.conn[c]) EXCEPT !.room = NoRoom, !.st = ST_LOGIN]
        BY <2>1, <2>2, <3>1 DEF ST_LOGIN, ST_ROOM
      <3>3. [Outside(t.conn[c]) EXCEPT !.room = NoRoom, !.st = ST_LOGIN] = Outside(t.conn[c])
        BY <3>1 DEF Conns
      <3>4. QED
        BY <2>2, <3>2, <3>3 DEF ConnsWithout
    <2>3. CASE ~(t.conn[c].eid \in Guests(t, r) \ {NoEid})
      BY <1>10, <2>1, <2>3 DEF ConnsWithout
    <2>4. QED
      BY <2>2, <2>3
  <1>15. user1 \in [EID -> ROOM \cup {NoRoom}]
         /\ user1 = [e \in EID |-> IF e \in Guests(t, r) THEN NoRoom ELSE t.userRoom[e]]
    BY <1>1, <1>8, <1>12, Entries
  <1>16. room1 \in [ROOM -> RoomRec] /\ room1 = [t.room EXCEPT ![r] = FreeRoomRec]
    BY <1>1, <1>8, NewRoomRec DEF Tables
  <1>17. /\ pool1 \in [Channel -> Seq(ROOM)]
         /\ pool1 = [ch \in Channel |-> IF r \in ch THEN <<r>> \o t.pool[ch] ELSE t.pool[ch]]
    <2>1. \A ch \in Channel : t.pool[ch] \in Seq(ROOM)
      BY <1>1, Entries
    <2>2. \A v \in Seq(ROOM) : <<r>> \o v \in Seq(ROOM)
      OBVIOUS
    <2>3. QED
      BY <1>8, <2>1, <2>2
  <1>18. s = [m EXCEPT !.userRoom = user1, !.conn = conn1, !.room = room1, !.pool = pool1]
    <2>1. m.room[r].state # 0
      BY <1>2, <1>8
    <2>2. QED
      BY <1>8, <1>13, <2>1 DEF FreeRoom, Tables
  <1> HIDE DEF conn1, user1, room1, pool1
  <1>19. /\ s \in Tables /\ s.index = m.index /\ s.quick = m.quick
         /\ s.conn = conn1 /\ s.userRoom = user1 /\ s.room = room1 /\ s.pool = pool1
    BY <1>7, <1>8, <1>14, <1>15, <1>16, <1>17, <1>18 DEF Tables
  <1>20. s.up = m.up
    BY <1>7, <1>8, <1>14, <1>15, <1>16, <1>17, <1>18 DEF Tables
  <1>21. RoomFreed(t, r, s)
    BY <1>8, <1>9, <1>14, <1>15, <1>16, <1>17, <1>19, <1>20 DEF RoomFreed
  <1>22. QED
    BY <1>2, <1>5, <1>13, <1>21

\* The process ends: nothing else changes.
LEMMA DownCalm ==
    ASSUME NEW t, Sound(t)
    PROVE  /\ Calm(t, [t EXCEPT !.up = FALSE])
           /\ [t EXCEPT !.up = FALSE].room = t.room
  <1>1. PICK s : s = [t EXCEPT !.up = FALSE]
    OBVIOUS
  <1>2. t \in Tables /\ IsInjective(t.quick)
    BY DEF Sound
  <1>3. /\ s \in Tables /\ s.conn = t.conn /\ s.index = t.index /\ s.userRoom = t.userRoom
        /\ s.room = t.room /\ s.pool = t.pool /\ s.quick = t.quick
    BY <1>1, <1>2 DEF Tables
  <1>4. Sound(s)
    BY <1>2, <1>3, FrameSound
  <1>5. \A e : (Online(s, e) <=> Online(t, e))
    BY <1>3, <1>4, SameOnline
  <1>6. \A r \in ROOM, i \in 1 .. 2 : Seat(s, r, i) = Seat(t, r, i)
    BY <1>3 DEF Seat
  <1>7. GamesOK(t) => GamesOK(s)
    BY <1>3, <1>5, <1>6 DEF GamesOK, TwoPlayers, TimerAway
  <1>8. AllAlive(t) => AllAlive(s)
    BY <1>3 DEF AllAlive, Alive
  <1>9. \A d \in CID : s.conn[d].eid = t.conn[d].eid /\ (IdleAt(t, d) => IdleAt(s, d))
    BY <1>3 DEF IdleAt
  <1>10. Calm(t, s)
    BY <1>3, <1>4, <1>7, <1>8, <1>9 DEF Calm
  <1>11. QED
    BY <1>1, <1>3, <1>10

\* No game begins, and a game that goes on keeps its seats.
Folded(t, s) ==
    /\ Calm(t, s)
    /\ \A r \in ROOM : s.room[r].lua => t.room[r].lua /\ s.room[r].guest = t.room[r].guest

\* The end of a game, or of the process if there is no VM.
LEMMA WinGameFolds ==
    ASSUME NEW t, Sound(t), NEW r \in ROOM
    PROVE  Folded(t, WinGame(t, r))
  <1>1. CASE t.room[r].lua
    <2>1. PICK s : s = WinGame(t, r)
      OBVIOUS
    <2>2. t.room[r].state # 0 /\ RoomFreed(t, r, s)
      BY <1>1, <2>1, WinGameIs
    <2>3. /\ Calm(t, s)
          /\ s.room[r] = FreeRoomRec /\ \A q \in ROOM \ {r} : s.room[q] = t.room[q]
      BY <2>2, FreedCalm
    <2>4. Folded(t, s)
      BY <2>3, NewRoomRec DEF Folded
    <2>5. QED
      BY <2>1, <2>4
  <1>2. CASE ~t.room[r].lua
    <2>1. PICK s : s = [t EXCEPT !.up = FALSE]
      OBVIOUS
    <2>2. WinGame(t, r) = s
      BY <1>2, <2>1 DEF WinGame
    <2>3. Calm(t, s) /\ s.room = t.room
      BY <2>1, DownCalm
    <2>4. Folded(t, s)
      BY <2>3 DEF Folded
    <2>5. QED
      BY <2>2, <2>4
  <1>3. QED
    BY <1>1, <1>2

\* The timers of a running game after a pass of auto_fold that folds nobody.
LEMMA TimersCalm ==
    ASSUME NEW t, Sound(t), NEW r \in ROOM, t.room[r].state = ST_GAME,
           ~Expired(t, r, 1), ~Expired(t, r, 2)
    PROVE  Folded(t, [t EXCEPT !.room[r].off = <<Timer(t, r, 1), Timer(t, r, 2)>>])
  <1>1. t \in Tables /\ t.room \in [ROOM -> RoomRec] /\ t.room[r].off \in [1 .. 2 -> 0 .. FOLD_PASSES]
        /\ t.room[r] \in RoomRec /\ FOLD_PASSES \in Nat
    BY Entries, LobbyAssumption DEF Sound, Tables
  <1>2. ASSUME NEW i \in 1 .. 2 PROVE Timer(t, r, i) \in 0 .. FOLD_PASSES
    <2>1. t.room[r].off[i] \in 0 .. FOLD_PASSES
      BY <1>1
    <2>2. Seat(t, r, i) \in EID => ~(Timer(t, r, i) > FOLD_PASSES)
      BY <1>2 DEF Expired
    <2>3. QED
      BY <1>1, <2>1, <2>2 DEF Timer
  <1>3. PICK off : off = <<Timer(t, r, 1), Timer(t, r, 2)>>
    OBVIOUS
  <1>4. off \in [1 .. 2 -> 0 .. FOLD_PASSES] /\ \A i \in 1 .. 2 : off[i] = Timer(t, r, i)
    BY <1>2, <1>3
  <1> DEFINE rec1 == [t.room[r] EXCEPT !.off = off]
             room1 == [t.room EXCEPT ![r] = rec1]
  <1>5. PICK s : s = [t EXCEPT !.room = room1]
    OBVIOUS
  <1>6. [t EXCEPT !.room[r].off = <<Timer(t, r, 1), Timer(t, r, 2)>>] = s
    BY <1>1, <1>3, <1>5
  <1>7. /\ rec1 \in RoomRec /\ rec1.off = off
        /\ rec1.state = t.room[r].state /\ rec1.guest = t.room[r].guest
    BY <1>1, <1>4 DEF RoomRec
  <1>8. rec1.lua = t.room[r].lua
    BY <1>1, <1>4 DEF RoomRec
  <1> HIDE DEF rec1
  <1>9. room1 \in [ROOM -> RoomRec] /\ room1[r] = rec1 /\ \A q \in ROOM \ {r} : room1[q] = t.room[q]
    BY <1>1, <1>7
  <1> HIDE DEF room1
  <1>10. /\ Sound(s) /\ s.conn = t.conn /\ s.room = room1 /\ s.quick = t.quick
    <2>1. t.room[r].state # 0
      BY DEF ST_GAME
    <2>2. /\ room1[r].state = t.room[r].state
          /\ room1[r].guest = t.room[r].guest
          /\ (room1[r].lua = t.room[r].lua)
      BY <1>7, <1>8, <1>9
    <2>3. QED
      BY <1>5, <1>9, <2>1, <2>2, TimerSound
  <1>11. \A e : (Online(s, e) <=> Online(t, e))
    BY <1>10, SameOnline
  <1>12. /\ \A q \in ROOM : /\ s.room[q].state = t.room[q].state
                            /\ s.room[q].guest = t.room[q].guest
                            /\ (s.room[q].lua = t.room[q].lua)
         /\ s.room[r].off = off /\ \A q \in ROOM \ {r} : s.room[q].off = t.room[q].off
    BY <1>7, <1>8, <1>9, <1>10
  <1>13. \A q \in ROOM, i \in 1 .. 2 : Seat(s, q, i) = Seat(t, q, i)
    BY <1>12 DEF Seat
  <1>14. ASSUME GamesOK(t) PROVE GamesOK(s)
    <2>1. TwoPlayers(s)
      BY <1>12, <1>14 DEF GamesOK, TwoPlayers
    <2>2. ASSUME NEW q \in ROOM, NEW i \in 1 .. 2, s.room[q].off[i] > 0
          PROVE  s.room[q].state = ST_GAME /\ ~Online(s, Seat(s, q, i))
      <3>1. CASE q # r
        BY <1>11, <1>12, <1>13, <1>14, <2>2, <3>1 DEF GamesOK, TimerAway
      <3>2. CASE q = r
        <4>1. Timer(t, r, i) > 0
          BY <1>4, <1>12, <2>2, <3>2
        <4>2. ~Online(t, Seat(t, r, i))
          <5>1. CASE Seat(t, r, i) \in EID
            BY <4>1, <5>1 DEF Timer
          <5>2. CASE Seat(t, r, i) \notin EID
            BY <5>2 DEF Online, ConnOf
          <5>3. QED
            BY <5>1, <5>2
        <4>3. QED
          BY <1>11, <1>12, <1>13, <3>2, <4>2
      <3>3. QED
        BY <3>1, <3>2
    <2>3. QED
      BY <2>1, <2>2 DEF GamesOK, TimerAway
  <1>15. AllAlive(t) => AllAlive(s)
    BY <1>10, <1>12 DEF AllAlive, Alive
  <1>16. \A d \in CID : s.conn[d].eid = t.conn[d].eid /\ (IdleAt(t, d) => IdleAt(s, d))
    BY <1>10 DEF IdleAt
  <1>17. Calm(t, s)
    BY <1>10, <1>14, <1>15, <1>16 DEF Calm
  <1>18. Folded(t, s)
    BY <1>12, <1>17 DEF Folded
  <1>19. QED
    BY <1>6, <1>18

\* auto_fold_room(): one room.
LEMMA AutoFoldRoomFolds ==
    ASSUME NEW t, Sound(t), NEW r \in ROOM
    PROVE  Folded(t, AutoFoldRoom(t, r))
  <1>1. CASE Len(t.room[r].guest) < 2 \/ t.room[r].state # ST_GAME \/ ~t.up
    <2>1. AutoFoldRoom(t, r) = t
      BY <1>1 DEF AutoFoldRoom
    <2>2. Folded(t, t)
      BY CalmSelf DEF Folded
    <2>3. QED
      BY <2>1, <2>2
  <1>2. CASE /\ ~(Len(t.room[r].guest) < 2 \/ t.room[r].state # ST_GAME \/ ~t.up)
             /\ Expired(t, r, 1) \/ Expired(t, r, 2)
    <2>1. AutoFoldRoom(t, r) = WinGame(t, r)
      BY <1>2 DEF AutoFoldRoom
    <2>2. QED
      BY <2>1, WinGameFolds
  <1>3. CASE /\ ~(Len(t.room[r].guest) < 2 \/ t.room[r].state # ST_GAME \/ ~t.up)
             /\ ~(Expired(t, r, 1) \/ Expired(t, r, 2))
    <2>1. AutoFoldRoom(t, r) = [t EXCEPT !.room[r].off = <<Timer(t, r, 1), Timer(t, r, 2)>>]
      BY <1>3 DEF AutoFoldRoom
    <2>2. Folded(t, [t EXCEPT !.room[r].off = <<Timer(t, r, 1), Timer(t, r, 2)>>])
      BY <1>3, TimersCalm
    <2>3. QED
      BY <2>1, <2>2
  <1>4. QED
    BY <1>1, <1>2, <1>3

\* Two rooms after each other.
LEMMA FoldedTwice ==
    ASSUME NEW t, NEW m, NEW s, Folded(t, m), Folded(m, s)
    PROVE  Folded(t, s)
  BY CalmTwice DEF Folded

\* The passes of auto_fold over the rooms of a list exist as a function.
LEMMA FoldRun ==
    ASSUME NEW t, NEW rooms, NEW n \in Nat
    PROVE  \E g : g = [i \in 0 .. n |-> IF i = 0 THEN t ELSE AutoFoldRoom(g[i - 1], rooms[i])]
  <1> DEFINE E(m) == \E g : g = [i \in 0 .. m |-> IF i = 0 THEN t ELSE AutoFoldRoom(g[i - 1], rooms[i])]
             T == {m \in Nat : E(m)}
  <1>1. E(0)
    <2> DEFINE g0 == [i \in 0 .. 0 |-> t]
    <2>1. g0 = [i \in 0 .. 0 |-> IF i = 0 THEN t ELSE AutoFoldRoom(g0[i - 1], rooms[i])]
      OBVIOUS
    <2>2. QED
      BY <2>1
  <1>2. ASSUME NEW m \in Nat, E(m) PROVE E(m + 1)
    <2>1. PICK g : g = [i \in 0 .. m |-> IF i = 0 THEN t ELSE AutoFoldRoom(g[i - 1], rooms[i])]
      BY <1>2
    <2> DEFINE k == [i \in 0 .. m + 1 |-> IF i = m + 1 THEN AutoFoldRoom(g[m], rooms[i]) ELSE g[i]]
    <2>2. k = [i \in 0 .. m + 1 |-> IF i = 0 THEN t ELSE AutoFoldRoom(k[i - 1], rooms[i])]
      <3> SUFFICES ASSUME NEW i \in 0 .. m + 1
                   PROVE  k[i] = IF i = 0 THEN t ELSE AutoFoldRoom(k[i - 1], rooms[i])
        OBVIOUS
      <3>1. CASE i = m + 1
        <4>1. k[i] = AutoFoldRoom(g[m], rooms[i]) /\ k[i - 1] = g[m]
          BY <3>1
        <4>2. QED
          BY <4>1, <3>1
      <3>2. CASE i # m + 1
        <4>1. i \in 0 .. m /\ (i # 0 => i - 1 \in 0 .. m)
          BY <3>2
        <4>2. k[i] = g[i] /\ (i # 0 => k[i - 1] = g[i - 1])
          BY <4>1
        <4>3. g[i] = IF i = 0 THEN t ELSE AutoFoldRoom(g[i - 1], rooms[i])
          BY <4>1, <2>1
        <4>4. QED
          BY <4>2, <4>3
      <3>3. QED
        BY <3>1, <3>2
    <2> HIDE DEF k
    <2>3. QED
      BY <2>2
  <1>3. 0 \in T /\ \A m \in T : m + 1 \in T
    <2> HIDE DEF E
    <2>1. QED
      BY <1>1, <1>2
  <1>4. T = Nat
    <2>1. T \in SUBSET Nat
      OBVIOUS
    <2> HIDE DEF T
    <2>2. QED
      BY <2>1, <1>3, SetInduction
  <1>5. QED
    BY <1>4

\* auto_fold(): all the rooms, one after the other.
FoldAll(t) ==
    LET rooms == InOrder(ROOM)
        after[i \in 0 .. Len(rooms)] ==
            IF i = 0 THEN t ELSE AutoFoldRoom(after[i - 1], rooms[i])
    IN after[Len(rooms)]

\* A pass of auto_fold ends games and sets timers, and nothing else.
LEMMA AutoFoldFolds ==
    ASSUME NEW t, Sound(t)
    PROVE  Folded(t, FoldAll(t))
  <1>1. PICK rooms : rooms = InOrder(ROOM)
    OBVIOUS
  <1>2. rooms \in Seq(ROOM) /\ Len(rooms) \in Nat
    <2>1. ROOM \in SUBSET Nat /\ IsFiniteSet(ROOM)
      BY LobbyAssumption, FS_Union DEF ROOM
    <2>2. rooms \in Seq(ROOM)
      BY <1>1, <2>1, InOrderList
    <2>3. QED
      BY <2>2
  <1> DEFINE h[i \in 0 .. Len(rooms)] == IF i = 0 THEN t ELSE AutoFoldRoom(h[i - 1], rooms[i])
  <1>3. h = [i \in 0 .. Len(rooms) |-> IF i = 0 THEN t ELSE AutoFoldRoom(h[i - 1], rooms[i])]
    BY <1>2, FoldRun
  <1>4. \A i \in 0 .. Len(rooms) : h[i] = IF i = 0 THEN t ELSE AutoFoldRoom(h[i - 1], rooms[i])
    <2> HIDE DEF h
    <2>1. QED
      BY <1>3
  <1>5. FoldAll(t) = h[Len(rooms)]
    BY <1>1 DEF FoldAll
  <1> HIDE DEF h
  <1> DEFINE T == {i \in Nat : i \in 0 .. Len(rooms) => Folded(t, h[i])}
  <1>6. 0 \in T
    <2>1. h[0] = t /\ Folded(t, t)
      BY <1>2, <1>4, CalmSelf DEF Folded
    <2>2. QED
      BY <2>1
  <1>7. ASSUME NEW m \in T PROVE m + 1 \in T
    <2> SUFFICES ASSUME m + 1 \in 0 .. Len(rooms) PROVE Folded(t, h[m + 1])
      OBVIOUS
    <2>1. m \in 0 .. Len(rooms) /\ m + 1 # 0 /\ m + 1 - 1 = m /\ m + 1 \in 1 .. Len(rooms)
      BY <1>2
    <2>2. h[m + 1] = AutoFoldRoom(h[m], rooms[m + 1])
      BY <1>4, <2>1
    <2>3. Folded(t, h[m]) /\ Sound(h[m]) /\ rooms[m + 1] \in ROOM
      BY <1>2, <2>1 DEF Folded, Calm
    <2>4. PICK x : x = h[m]
      OBVIOUS
    <2>5. PICK r \in ROOM : r = rooms[m + 1]
      BY <2>3
    <2>6. Folded(x, AutoFoldRoom(x, r))
      BY <2>3, <2>4, AutoFoldRoomFolds
    <2>7. Folded(t, AutoFoldRoom(x, r))
      BY <2>3, <2>4, <2>6, FoldedTwice
    <2>8. QED
      BY <2>2, <2>4, <2>5, <2>7
  <1>8. T = Nat
    <2>1. T \in SUBSET Nat
      OBVIOUS
    <2> HIDE DEF T
    <2>2. QED
      BY <2>1, <1>6, <1>7, SetInduction
  <1>9. Len(rooms) \in T
    BY <1>2, <1>8
  <1>10. QED
    BY <1>2, <1>5, <1>9

----------------------------------------------------------------------------
(* The quick match.                                                        *)

\* Rooms in use are left alone.
Paired(t, s) ==
    /\ Calm(t, s)
    /\ \A r \in ROOM : t.room[r].state # 0 => s.room[r] = t.room[r]

\* Two pairs after each other.
LEMMA PairedTwice ==
    ASSUME NEW t, NEW m, NEW s, Paired(t, m), Paired(m, s)
    PROVE  Paired(t, s)
  BY CalmTwice DEF Paired

\* Two different players, the first a user.
PairOK(p) == p \in Seq(EID \cup AI) /\ Len(p) = 2 /\ p[1] # p[2]

\* The two of a pair.
LEMMA PairIs ==
    ASSUME NEW p, PairOK(p)
    PROVE  /\ IsInjective(p) /\ ToSet(p) = {p[1], p[2]} /\ ToSet(p) \subseteq EID \cup AI
           /\ NoEid \notin ToSet(p)
  <1>1. p \in Seq(EID \cup AI) /\ Len(p) = 2 /\ p[1] # p[2]
    BY DEF PairOK
  <1>2. \A i \in 1 .. 2 : i = 1 \/ i = 2
    OBVIOUS
  <1>3. IsInjective(p)
    BY <1>1, <1>2, Places
  <1>4. ToSet(p) = {p[1], p[2]} /\ ToSet(p) \subseteq EID \cup AI
    BY <1>1, <1>2, Places
  <1>5. QED
    BY <1>3, <1>4, Indices

\* A player that may be paired has no seat, and stands in the lobby.
LEMMA PlayableIs ==
    ASSUME NEW t, Sound(t), NEW e \in EID, Playable(t, e)
    PROVE  /\ t.userRoom[e] = NoRoom
           /\ \A d \in CID : t.conn[d].eid = e => t.conn[d].room = NoRoom /\ t.conn[d].st = ST_LOGIN
  <1>1. t \in Tables /\ \A d \in CID : SessionAt(t, d)
    BY DEF Sound
  <1>2. Online(t, e) /\ t.conn[ConnOf(t, e)].room = NoRoom
    BY Indices DEF Playable
  <1>3. PICK d \in CID : t.conn[d].eid = e
    BY <1>1, <1>2, WhereIs
  <1>4. ConnOf(t, e) = d
    BY <1>1, <1>3, WhereIs
  <1>5. t.userRoom[e] = NoRoom
    BY <1>1, <1>2, <1>3, <1>4, Indices DEF SessionAt
  <1>6. ASSUME NEW x \in CID, t.conn[x].eid = e
        PROVE  t.conn[x].room = NoRoom /\ t.conn[x].st = ST_LOGIN
    BY <1>1, <1>5, <1>6, Indices DEF SessionAt
  <1>7. QED
    BY <1>5, <1>6

\* The connection k of somebody who is sent to a game in r.
Playing(k, r) == [k EXCEPT !.room = r, !.st = ST_GAME]

\* What Playing changes of a connection.
LEMMA PlayingIs ==
    ASSUME NEW k \in Conns, NEW r \in ROOM
    PROVE  /\ Playing(k, r) \in Conns
           /\ (Playing(k, r).up = k.up) /\ Playing(k, r).eid = k.eid
           /\ Playing(k, r).room = r /\ Playing(k, r).st = ST_GAME
  <1>1. Playing(k, r) \in Conns /\ Playing(k, r).eid = k.eid
        /\ Playing(k, r).room = r /\ Playing(k, r).st = ST_GAME
    BY DEF Playing, Conns, ST_GAME
  <1>2. Playing(k, r).up = k.up
    BY DEF Playing, Conns, ST_GAME
  <1>3. QED
    BY <1>1, <1>2

\* The room of a pair.
PairRec(p) == [state |-> ST_GAME, guest |-> p, lua |-> TRUE, off |-> <<0, 0>>]

\* The tables after a pair p got the room r.
Given(t, r, p, s) ==
    /\ s \in Tables
    /\ (s.up = t.up) /\ s.index = t.index /\ s.quick = t.quick
    /\ Handed(t, QuickRooms, r, s)
    /\ s.room[r] = PairRec(p) /\ \A q \in ROOM \ {r} : s.room[q] = t.room[q]
    /\ \A e \in EID : s.userRoom[e] = IF e \in ToSet(p) THEN r ELSE t.userRoom[e]
    /\ \A c \in CID : s.conn[c] = IF t.conn[c].eid \in ToSet(p)
                                  THEN Playing(t.conn[c], r) ELSE t.conn[c]

\* A free room that is given to a pair leaves the others alone.
LEMMA GivenPaired ==
    ASSUME NEW t, Sound(t), NEW p, PairOK(p),
           \A e \in EID : e \in ToSet(p) => Playable(t, e),
           NEW r, NEW s, Given(t, r, p, s)
    PROVE  Paired(t, s)
  <1>1. /\ t \in Tables /\ (\A d \in CID : SessionAt(t, d)) /\ IsInjective(t.quick)
    BY DEF Sound
  <1>2. /\ s \in Tables /\ (s.up = t.up) /\ s.index = t.index /\ s.quick = t.quick
        /\ Handed(t, QuickRooms, r, s)
        /\ s.room[r] = PairRec(p) /\ \A q \in ROOM \ {r} : s.room[q] = t.room[q]
        /\ \A e \in EID : s.userRoom[e] = IF e \in ToSet(p) THEN r ELSE t.userRoom[e]
        /\ \A c \in CID : s.conn[c] = IF t.conn[c].eid \in ToSet(p)
                                      THEN Playing(t.conn[c], r) ELSE t.conn[c]
    BY DEF Given
  <1>3. r \in ROOM /\ t.room[r].state = 0 /\ \A ch \in Channel : PoolAt(s, ch)
    BY <1>2, Indices, PoolTaken
  <1>4. /\ PairRec(p).state = ST_GAME /\ PairRec(p).guest = p /\ PairRec(p).lua = TRUE
        /\ \A i \in 1 .. 2 : PairRec(p).off[i] = 0
    BY DEF PairRec
  <1>5. /\ p \in Seq(EID \cup AI) /\ Len(p) = 2 /\ IsInjective(p) /\ ToSet(p) \subseteq EID \cup AI
        /\ NoEid \notin ToSet(p)
    BY PairIs DEF PairOK
  <1>6. /\ \A e \in EID : e \in ToSet(p) => t.userRoom[e] = NoRoom
        /\ \A d \in CID : t.conn[d].eid # NoEid => t.conn[d].room # r
        /\ ToSet(t.room[r].guest) = {}
    <2>1. ToSet(FreeRoomRec.guest) = {}
      BY NewRoomRec DEF ToSet
    <2>2. QED
      BY <1>3, <2>1, PlayableIs, NobodyInFree
  <1>7. ASSUME NEW d \in CID
        PROVE  /\ s.conn[d].eid = t.conn[d].eid /\ (s.conn[d].up = t.conn[d].up)
               /\ t.conn[d].eid \in ToSet(p) => s.conn[d].room = r /\ s.conn[d].st = ST_GAME
               /\ t.conn[d].eid \notin ToSet(p) => s.conn[d] = t.conn[d]
    <2>1. t.conn[d] \in Conns
      BY <1>1, Entries
    <2>2. CASE t.conn[d].eid \in ToSet(p)
      <3>1. s.conn[d] = Playing(t.conn[d], r)
        BY <1>2, <2>2
      <3>2. QED
        BY <1>3, <2>1, <2>2, <3>1, PlayingIs
    <2>3. CASE t.conn[d].eid \notin ToSet(p)
      BY <1>2, <2>3
    <2>4. QED
      BY <2>2, <2>3
  <1>8. Sound(s)
    <2>1. PICK G : G = ToSet(p)
      OBVIOUS
    <2>2. RoomAt(s, r)
      BY <1>2, <1>4, <1>5, LobbyAssumption DEF RoomAt, ST_GAME
    <2>3. ToSet(s.room[r].guest) = ToSet(t.room[r].guest) \cup G
      BY <1>2, <1>4, <1>6, <2>1
    <2>4. \A d \in CID :
            /\ s.conn[d].eid = t.conn[d].eid
            /\ t.conn[d].eid # NoEid =>
                 /\ (s.conn[d].up = t.conn[d].up)
                 /\ \/ /\ t.conn[d].eid \in G \/ t.conn[d].room = r
                       /\ s.conn[d].room = r /\ s.conn[d].st # ST_NULL
                       /\ s.room[r].state = ST_ROOM => s.conn[d].st = ST_ROOM
                       /\ s.room[r].lua => s.conn[d].st = ST_GAME
                    \/ /\ ~(t.conn[d].eid \in G \/ t.conn[d].room = r)
                       /\ s.conn[d].room = t.conn[d].room /\ s.conn[d].st = t.conn[d].st
      BY <1>2, <1>4, <1>6, <1>7, <2>1 DEF ST_GAME, ST_ROOM, ST_NULL
    <2>5. /\ \A e \in EID : s.userRoom[e] = IF e \in G THEN r ELSE t.userRoom[e]
          /\ \A e \in EID : e \in G => t.userRoom[e] \in {NoRoom, r}
      BY <1>2, <1>6, <2>1
    <2>6. Seated(t, r, G, s)
      BY <1>1, <1>2, <1>3, <2>2, <2>3, <2>4, <2>5 DEF Seated
    <2>7. QED
      BY <2>6, SeatSound
  <1>9. ASSUME AllAlive(t) PROVE AllAlive(s)
    <2> SUFFICES ASSUME NEW q \in ROOM, s.room[q].state = ST_ROOM PROVE Alive(s, q)
      BY DEF AllAlive
    <2>1. q # r /\ t.room[q].state = ST_ROOM
      BY <1>2, <1>4 DEF ST_ROOM, ST_GAME
    <2>2. PICK d \in CID : t.conn[d].eid # NoEid /\ t.conn[d].room = q
      BY <1>9, <2>1 DEF Alive, AllAlive
    <2>3. t.conn[d].eid \in EID /\ t.userRoom[t.conn[d].eid] = q
      BY <1>1, <2>2, Entries DEF SessionAt
    <2>4. t.conn[d].eid \notin ToSet(p)
      BY <1>6, <2>3, Indices
    <2>5. QED
      BY <1>7, <2>2, <2>4 DEF Alive
  <1>10. ASSUME GamesOK(t) PROVE GamesOK(s)
    <2>1. TwoPlayers(s)
      <3>1. Len(s.room[r].guest) >= 2
        BY <1>2, <1>4, <1>5
      <3>2. \A q \in ROOM \ {r} : s.room[q].state = ST_GAME => Len(s.room[q].guest) >= 2
        BY <1>2, <1>10 DEF GamesOK, TwoPlayers
      <3>3. QED
        BY <3>1, <3>2 DEF TwoPlayers
    <2>2. ASSUME NEW q \in ROOM, NEW i \in 1 .. 2, s.room[q].off[i] > 0
          PROVE  s.room[q].state = ST_GAME /\ ~Online(s, Seat(s, q, i))
      <3>1. q # r
        BY <1>2, <1>4, <2>2
      <3>2. s.room[q] = t.room[q]
        BY <1>2, <3>1
      <3>3. Seat(s, q, i) = Seat(t, q, i)
        BY <3>2 DEF Seat
      <3>4. t.room[q].state = ST_GAME /\ ~Online(t, Seat(t, q, i))
        BY <1>10, <2>2, <3>2 DEF GamesOK, TimerAway
      <3>5. ~Online(s, Seat(t, q, i))
        BY <1>7, <1>8, <3>4, SameOnline
      <3>6. QED
        BY <3>2, <3>3, <3>4, <3>5
    <2>3. QED
      BY <2>1, <2>2 DEF GamesOK, TimerAway
  <1>11. \A d \in CID : IdleAt(t, d) => IdleAt(s, d)
    BY <1>5, <1>7 DEF IdleAt
  <1>12. Calm(t, s)
    BY <1>2, <1>7, <1>8, <1>9, <1>10, <1>11 DEF Calm
  <1>13. QED
    BY <1>2, <1>3, <1>12 DEF Paired

\* The tables in which quick_room() starts the game.
GameRec(p) == [FreeRoomRec EXCEPT !.state = ST_GAME, !.guest = p]
Begun(t, r, p) ==
    [t EXCEPT !.pool = [t.pool EXCEPT ![QuickRooms] = Tail(t.pool[QuickRooms])],
              !.room = [t.room EXCEPT ![r] = GameRec(p)]]

\* GameRoom, table by table.
LEMMA BegunIs ==
    ASSUME NEW t, t \in Tables, t.pool[QuickRooms] # <<>>, NEW p, NEW r \in ROOM
    PROVE  Begun(t, r, p) = GameRoom(t, r, p)
  <1>1. t.room \in [ROOM -> RoomRec] /\ t.pool \in [Channel -> Seq(ROOM)]
    BY DEF Tables
  <1>2. PICK rec0 : rec0 = [FreeRoomRec EXCEPT !.state = ST_ROOM]
    OBVIOUS
  <1>3. PICK x : x = NewRoom(t, QuickRooms, r)
    OBVIOUS
  <1> DEFINE pool1 == [t.pool EXCEPT ![QuickRooms] = Tail(t.pool[QuickRooms])]
             room0 == [t.room EXCEPT ![r] = rec0]
             room1 == [t.room EXCEPT ![r] = GameRec(p)]
             y == [rec0 EXCEPT !.state = ST_GAME]
             roomY == [room0 EXCEPT ![r] = y]
  <1>4. x = [t EXCEPT !.pool = pool1, !.room = room0]
    BY <1>1, <1>2, <1>3 DEF NewRoom, Tables
  <1>5. rec0 \in RoomRec
    BY <1>2, NewRoomRec
  <1>6. room0 \in [ROOM -> RoomRec] /\ room0[r] = rec0
    BY <1>1, <1>5
  <1>7. pool1 \in [Channel -> Seq(ROOM)]
    <2>1. t.pool[QuickRooms] \in Seq(ROOM)
      BY <1>1, Indices
    <2>2. Tail(t.pool[QuickRooms]) \in Seq(ROOM)
      BY <2>1
    <2>3. QED
      BY <1>1, <2>2
  <1> HIDE DEF pool1
  <1>8. x \in Tables /\ x.room = room0
    BY <1>4, <1>6, <1>7 DEF Tables
  <1>9. [y EXCEPT !.guest = p] = GameRec(p)
    BY <1>2 DEF GameRec, FreeRoomRec
  <1>10. roomY[r] = y /\ [roomY EXCEPT ![r] = GameRec(p)] = room1
    BY <1>1, <1>6
  <1> HIDE DEF room0
  <1>11. [x EXCEPT !.room[r].state = ST_GAME] = [x EXCEPT !.room = roomY]
    BY <1>6, <1>8
  <1> HIDE DEF y, roomY
  <1>12. [x EXCEPT !.room = roomY].room = roomY
    BY <1>8 DEF Tables
  <1>13. [[x EXCEPT !.room = roomY] EXCEPT !.room[r].guest = p] = [[x EXCEPT !.room = roomY] EXCEPT !.room = room1]
    <2>1. PICK z : z = [x EXCEPT !.room = roomY]
      OBVIOUS
    <2>2. z.room = roomY
      BY <1>12, <2>1
    <2>3. [z EXCEPT !.room[r].guest = p] = [z EXCEPT !.room = room1]
      <3>1. [z.room EXCEPT ![r] = [z.room[r] EXCEPT !.guest = p]] = room1
        BY <1>9, <1>10, <2>2
      <3>2. QED
        BY <3>1
    <2>4. QED
      BY <2>1, <2>3
  <1>14. [x EXCEPT !.room[r].state = ST_GAME, !.room[r].guest = p]
           = [[x EXCEPT !.room[r].state = ST_GAME] EXCEPT !.room[r].guest = p]
    OBVIOUS
  <1> HIDE DEF room1
  <1>15. [[x EXCEPT !.room = roomY] EXCEPT !.room = room1] = [t EXCEPT !.pool = pool1, !.room = room1]
    BY <1>4 DEF Tables
  <1>16. QED
    BY <1>3, <1>11, <1>13, <1>14, <1>15 DEF Begun, GameRoom, pool1, room1

\* The new room is the head of a list that holds free rooms.
LEMMA HeadIsFree ==
    ASSUME NEW t, Sound(t), NEW ch \in Channel, t.pool[ch] # <<>>
    PROVE  /\ Head(t.pool[ch]) \in ch /\ Head(t.pool[ch]) \in ROOM
           /\ t.room[Head(t.pool[ch])].state = 0
  <1>1. /\ t.pool[ch] \in Seq(ch) /\ IsInjective(t.pool[ch])
        /\ ToSet(t.pool[ch]) = {q \in ch : t.room[q].state = 0}
        /\ ch \subseteq ROOM
    BY Indices DEF Sound, PoolAt
  <1>2. Head(t.pool[ch]) \in ToSet(t.pool[ch])
    BY <1>1, TakeFirst
  <1>3. QED
    BY <1>1, <1>2

\* quick_room() with a game that does not start: the room goes back, and the
\* players stay where they are.
LEMMA FailedPair ==
    ASSUME NEW t, Sound(t), NEW p, PairOK(p),
           \A e \in EID : e \in ToSet(p) => Playable(t, e),
           t.pool[QuickRooms] # <<>>, NEW r \in {Head(t.pool[QuickRooms])},
           NEW m \in {Begun(t, r, p)}
    PROVE  FreeRoom(m, r) = t
  <1>1. /\ t \in Tables /\ (\A d \in CID : SessionAt(t, d)) /\ IsInjective(t.quick)
        /\ t.room \in [ROOM -> RoomRec] /\ t.pool \in [Channel -> Seq(ROOM)]
        /\ t.conn \in [CID -> Conns] /\ t.userRoom \in [EID -> ROOM \cup {NoRoom}]
    BY DEF Sound, Tables
  <1>2. r \in QuickRooms /\ r \in ROOM /\ t.room[r].state = 0
    BY HeadIsFree, Indices
  <1>3. t.room[r] = FreeRoomRec
    BY <1>2, NobodyInFree
  <1> DEFINE pool1 == [t.pool EXCEPT ![QuickRooms] = Tail(t.pool[QuickRooms])]
             rec1 == GameRec(p)
             room1 == [t.room EXCEPT ![r] = rec1]
  <1>4. m = [t EXCEPT !.pool = pool1, !.room = room1]
    BY DEF Begun
  <1>5. rec1.state = ST_GAME /\ rec1.guest = p /\ rec1 \in RoomRec
    BY NewRoomRec DEF GameRec, FreeRoomRec, RoomRec, PairOK
  <1> HIDE DEF rec1
  <1>6. /\ room1 \in [ROOM -> RoomRec]
        /\ room1[r] = rec1 /\ DOMAIN room1 = ROOM /\ \A q \in ROOM \ {r} : room1[q] = t.room[q]
    BY <1>1, <1>2, <1>5
  <1>7. /\ pool1[QuickRooms] = Tail(t.pool[QuickRooms]) /\ DOMAIN pool1 = Channel
        /\ \A ch \in Channel \ {QuickRooms} : pool1[ch] = t.pool[ch]
        /\ pool1 \in [Channel -> Seq(ROOM)]
    <2>1. t.pool[QuickRooms] \in Seq(ROOM) /\ t.pool[QuickRooms] # <<>>
      BY <1>1, Indices
    <2>2. Tail(t.pool[QuickRooms]) \in Seq(ROOM)
      BY <2>1
    <2>3. QED
      BY <1>1, <2>2, Indices
  <1> HIDE DEF room1, pool1
  <1>8. /\ m.conn = t.conn /\ m.index = t.index /\ m.userRoom = t.userRoom
        /\ m.quick = t.quick /\ m.room = room1 /\ m.pool = pool1
    BY <1>1, <1>4, <1>6, <1>7 DEF Tables
  <1>9. m.up = t.up
    BY <1>1, <1>4, <1>6, <1>7 DEF Tables
  <1>10. Guests(m, r) = ToSet(p) /\ m.room[r].state # 0
    BY <1>5, <1>6, <1>8 DEF Guests, ST_GAME
  <1>11. \A e \in ToSet(p) : ConnOf(m, e) = ConnOf(t, e)
    BY <1>8 DEF ConnOf
  <1>12. ToSet(p) \subseteq EID \cup AI
    BY PairIs
  <1> DEFINE conn2 == [c \in CID |->
                         IF \E e \in Guests(m, r) : ConnOf(m, e) = c
                         THEN [m.conn[c] EXCEPT !.room = NoRoom,
                                                !.st = IF m.conn[c].st >= ST_ROOM THEN ST_LOGIN
                                                       ELSE m.conn[c].st]
                         ELSE m.conn[c]]
             user2 == [e \in EID |-> IF e \in Guests(m, r) THEN NoRoom ELSE m.userRoom[e]]
             room2 == [m.room EXCEPT ![r] = FreeRoomRec]
             pool2 == [ch \in Channel |-> IF r \in ch THEN <<r>> \o m.pool[ch] ELSE m.pool[ch]]
  <1>13. FreeRoom(m, r) = [m EXCEPT !.userRoom = user2, !.conn = conn2, !.room = room2, !.pool = pool2]
    BY <1>1, <1>4, <1>8, <1>10 DEF FreeRoom, Tables
  <1>14. user2 = t.userRoom
    <2>1. \A e \in EID : e \in ToSet(p) => t.userRoom[e] = NoRoom
      BY PlayableIs
    <2>2. QED
      BY <1>1, <1>8, <1>10, <2>1
  <1>15. conn2 = t.conn
    <2> SUFFICES ASSUME NEW c \in CID PROVE conn2[c] = t.conn[c]
      BY <1>1
    <2>1. CASE \E e \in Guests(m, r) : ConnOf(m, e) = c
      <3>1. PICK e \in ToSet(p) : ConnOf(t, e) = c
        BY <1>10, <1>11, <2>1
      <3>2. e \in EID /\ t.conn[c].eid = e
        BY <1>1, <3>1, WhereIs
      <3>3. t.conn[c].room = NoRoom /\ t.conn[c].st = ST_LOGIN /\ t.conn[c] \in Conns
        BY <1>1, <3>2, PlayableIs
      <3>4. conn2[c] = [t.conn[c] EXCEPT !.room = NoRoom, !.st = ST_LOGIN]
        BY <1>8, <2>1, <3>3 DEF ST_LOGIN, ST_ROOM
      <3>5. [t.conn[c] EXCEPT !.room = NoRoom, !.st = ST_LOGIN] = t.conn[c]
        BY <3>3 DEF Conns
      <3>6. QED
        BY <3>4, <3>5
    <2>2. CASE ~ \E e \in Guests(m, r) : ConnOf(m, e) = c
      BY <1>8, <2>2
    <2>3. QED
      BY <2>1, <2>2
  <1>16. room2 = t.room
    BY <1>1, <1>3, <1>6, <1>8
  <1>17. pool2 = t.pool
    <2> SUFFICES ASSUME NEW ch \in Channel PROVE pool2[ch] = t.pool[ch]
      BY <1>1
    <2>1. CASE r \in ch
      <3>1. ch = QuickRooms
        BY <1>2, <2>1, Indices, ChannelsApart
      <3>2. t.pool[QuickRooms] \in Seq(ROOM) /\ t.pool[QuickRooms] # <<>>
        BY <1>1, Indices
      <3>3. \A v \in Seq(ROOM) : v # <<>> => <<Head(v)>> \o Tail(v) = v
        OBVIOUS
      <3>4. QED
        BY <1>7, <1>8, <2>1, <3>1, <3>2, <3>3
    <2>2. CASE r \notin ch
      <3>1. ch # QuickRooms
        BY <1>2, <2>2
      <3>2. QED
        BY <1>7, <1>8, <2>2, <3>1
    <2>3. QED
      BY <2>1, <2>2
  <1> HIDE DEF conn2, user2, room2, pool2
  <1>18. FreeRoom(m, r) = [t EXCEPT !.pool = t.pool, !.room = t.room,
                                    !.userRoom = t.userRoom, !.conn = t.conn]
    BY <1>1, <1>4, <1>13, <1>14, <1>15, <1>16, <1>17 DEF Tables
  <1>19. QED
    BY <1>1, <1>18 DEF Tables

\* The tables quick_room() leaves after game_init().
LEMMA BegunTables ==
    ASSUME NEW t, Sound(t), NEW p, PairOK(p),
           t.pool[QuickRooms] # <<>>, NEW r \in {Head(t.pool[QuickRooms])}
    PROVE  Begun(t, r, p) \in Tables
  <1>1. t \in Tables /\ t.room \in [ROOM -> RoomRec] /\ t.pool \in [Channel -> Seq(ROOM)]
    BY DEF Sound, Tables
  <1>2. r \in ROOM
    BY HeadIsFree, Indices
  <1>3. GameRec(p) \in RoomRec
    BY NewRoomRec DEF GameRec, FreeRoomRec, RoomRec, PairOK
  <1> DEFINE pool1 == [t.pool EXCEPT ![QuickRooms] = Tail(t.pool[QuickRooms])]
             room1 == [t.room EXCEPT ![r] = GameRec(p)]
  <1>4. pool1 \in [Channel -> Seq(ROOM)]
    <2>1. t.pool[QuickRooms] \in Seq(ROOM)
      BY <1>1, Indices
    <2>2. Tail(t.pool[QuickRooms]) \in Seq(ROOM)
      BY <2>1
    <2>3. QED
      BY <1>1, <2>2, Indices
  <1>5. room1 \in [ROOM -> RoomRec]
    BY <1>1, <1>2, <1>3
  <1>6. Begun(t, r, p) = [t EXCEPT !.pool = pool1, !.room = room1]
    BY DEF Begun
  <1> HIDE DEF pool1, room1
  <1>7. QED
    BY <1>1, <1>4, <1>5, <1>6 DEF Tables

\* quick_room() with a game that starts.
StartedIn(t, r, p, m) ==
    [m EXCEPT !.room[r].lua = TRUE,
              !.userRoom = [e \in EID |-> IF e \in ToSet(p) THEN r ELSE m.userRoom[e]],
              !.conn = [c \in CID |->
                          IF \E e \in ToSet(p) : ConnOf(t, e) = c
                          THEN [m.conn[c] EXCEPT !.room = r, !.st = ST_GAME]
                          ELSE m.conn[c]]]

\* A pair in its new room.
LEMMA StartedPair ==
    ASSUME NEW t, Sound(t), NEW p, PairOK(p),
           t.pool[QuickRooms] # <<>>, NEW r \in {Head(t.pool[QuickRooms])},
           NEW m \in {Begun(t, r, p)}
    PROVE  Given(t, r, p, StartedIn(t, r, p, m))
  <1>1. /\ t \in Tables /\ (\A d \in CID : SessionAt(t, d)) /\ IsInjective(t.quick)
        /\ t.room \in [ROOM -> RoomRec] /\ t.pool \in [Channel -> Seq(ROOM)]
        /\ t.conn \in [CID -> Conns] /\ t.userRoom \in [EID -> ROOM \cup {NoRoom}]
    BY DEF Sound, Tables
  <1>2. r \in QuickRooms /\ r \in ROOM /\ t.room[r].state = 0
    BY HeadIsFree, Indices
  <1> DEFINE pool1 == [t.pool EXCEPT ![QuickRooms] = Tail(t.pool[QuickRooms])]
             room1 == [t.room EXCEPT ![r] = GameRec(p)]
             room2 == [t.room EXCEPT ![r] = PairRec(p)]
             user2 == [e \in EID |-> IF e \in ToSet(p) THEN r ELSE t.userRoom[e]]
             conn2 == [c \in CID |-> IF t.conn[c].eid \in ToSet(p)
                                     THEN Playing(t.conn[c], r) ELSE t.conn[c]]
  <1>3. m = [t EXCEPT !.pool = pool1, !.room = room1]
    BY DEF Begun
  <1>4. GameRec(p) \in RoomRec /\ PairRec(p) \in RoomRec
    <2>1. /\ p \in Seq(EID \cup AI)
          /\ FreeRoomRec.off \in [1 .. 2 -> 0 .. FOLD_PASSES] /\ FreeRoomRec.off = <<0, 0>>
      BY NewRoomRec DEF PairOK, RoomRec, FreeRoomRec
    <2>2. GameRec(p) \in RoomRec
      BY <2>1, NewRoomRec DEF GameRec, RoomRec
    <2>3. PairRec(p) \in RoomRec
      BY <2>1 DEF PairRec, RoomRec
    <2>4. QED
      BY <2>2, <2>3
  <1>5. [GameRec(p) EXCEPT !.lua = TRUE] = PairRec(p)
    <2>1. /\ GameRec(p).state = ST_GAME /\ GameRec(p).guest = p /\ GameRec(p).off = <<0, 0>>
          /\ PairRec(p).state = ST_GAME /\ PairRec(p).guest = p /\ PairRec(p).off = <<0, 0>>
      BY DEF GameRec, PairRec, FreeRoomRec
    <2>2. PairRec(p).lua = TRUE
      BY DEF PairRec
    <2>3. QED
      BY <1>4, <2>1, <2>2 DEF RoomRec
  <1>6. /\ pool1 \in [Channel -> Seq(ROOM)] /\ pool1[QuickRooms] = Tail(t.pool[QuickRooms])
        /\ \A ch \in Channel \ {QuickRooms} : pool1[ch] = t.pool[ch]
    <2>1. t.pool[QuickRooms] \in Seq(ROOM)
      BY <1>1, Indices
    <2>2. Tail(t.pool[QuickRooms]) \in Seq(ROOM)
      BY <2>1
    <2>3. QED
      BY <1>1, <2>2, Indices
  <1> HIDE DEF pool1
  <1>7. /\ room1 \in [ROOM -> RoomRec] /\ room1[r] = GameRec(p)
        /\ [room1 EXCEPT ![r] = PairRec(p)] = room2
        /\ room2 \in [ROOM -> RoomRec] /\ room2[r] = PairRec(p)
        /\ \A q \in ROOM \ {r} : room2[q] = t.room[q]
    BY <1>1, <1>2, <1>4
  <1> HIDE DEF room1, room2
  <1>8. /\ m \in Tables /\ m.conn = t.conn /\ m.userRoom = t.userRoom /\ m.room = room1
        /\ m.index = t.index /\ m.quick = t.quick /\ m.pool = pool1
    BY <1>1, <1>3, <1>6, <1>7 DEF Tables
  <1>9. m.up = t.up
    BY <1>1, <1>3, <1>6, <1>7 DEF Tables
  <1>10. ToSet(p) \subseteq EID \cup AI /\ NoEid \notin ToSet(p)
    BY PairIs
  <1>11. ASSUME NEW c \in CID
         PROVE  (\E e \in ToSet(p) : ConnOf(t, e) = c) <=> t.conn[c].eid \in ToSet(p)
    <2>1. t.conn[c].eid \in EID \cup {NoEid}
      BY <1>1, Entries
    <2>2. QED
      BY <1>1, <1>10, <2>1, WhereIs, Indices
  <1> DEFINE conn3 == [c \in CID |-> IF \E e \in ToSet(p) : ConnOf(t, e) = c
                                     THEN [m.conn[c] EXCEPT !.room = r, !.st = ST_GAME]
                                     ELSE m.conn[c]]
             user3 == [e \in EID |-> IF e \in ToSet(p) THEN r ELSE m.userRoom[e]]
  <1>12. conn3 = conn2 /\ user3 = user2
    BY <1>8, <1>11 DEF Playing
  <1>13. conn2 \in [CID -> Conns] /\ user2 \in [EID -> ROOM \cup {NoRoom}]
    BY <1>1, <1>2, PlayingIs
  <1> HIDE DEF conn3, user3
  <1>14. PICK s : s = [m EXCEPT !.room[r].lua = TRUE, !.userRoom = user3, !.conn = conn3]
    OBVIOUS
  <1>15. s = [m EXCEPT !.room = room2, !.userRoom = user2, !.conn = conn2]
    <2>1. [m.room EXCEPT ![r] = [m.room[r] EXCEPT !.lua = TRUE]] = room2
      BY <1>5, <1>7, <1>8
    <2>2. QED
      BY <1>12, <1>14, <2>1
  <1>16. /\ \A e \in EID : user2[e] = IF e \in ToSet(p) THEN r ELSE t.userRoom[e]
         /\ \A c \in CID : conn2[c] = IF t.conn[c].eid \in ToSet(p)
                                      THEN Playing(t.conn[c], r) ELSE t.conn[c]
    OBVIOUS
  <1> HIDE DEF conn2, user2
  <1>17. /\ s \in Tables /\ s.conn = conn2 /\ s.userRoom = user2 /\ s.room = room2
         /\ s.index = t.index /\ s.quick = t.quick /\ s.pool = pool1
    BY <1>7, <1>8, <1>13, <1>15 DEF Tables
  <1>18. s.up = t.up
    BY <1>7, <1>8, <1>9, <1>13, <1>15 DEF Tables
  <1>19. Handed(t, QuickRooms, r, s)
    <2>1. PairRec(p).state # 0
      BY DEF PairRec, ST_GAME
    <2>2. r = Head(t.pool[QuickRooms])
      OBVIOUS
    <2>3. QED
      BY <1>6, <1>7, <1>17, <2>1, <2>2 DEF Handed
  <1>20. Given(t, r, p, s)
    BY <1>7, <1>16, <1>17, <1>18, <1>19 DEF Given
  <1>21. QED
    BY <1>14, <1>20 DEF StartedIn, conn3, user3

\* quick_room(): one pair.
LEMMA QuickRoomPairs ==
    ASSUME NEW t, Sound(t), NEW p, PairOK(p), NEW ok
    PROVE  Paired(t, QuickRoom(t, p, ok))
  <1>1. Paired(t, t)
    BY CalmSelf DEF Paired
  <1>2. CASE ~t.up \/ ~Playable(t, p[1]) \/ ~Playable(t, p[2])
    <2>1. QuickRoom(t, p, ok) = t
      BY <1>2 DEF QuickRoom
    <2>2. QED
      BY <1>1, <2>1
  <1>3. CASE /\ ~(~t.up \/ ~Playable(t, p[1]) \/ ~Playable(t, p[2]))
             /\ t.pool[QuickRooms] = <<>>
    <2>1. QuickRoom(t, p, ok) = [t EXCEPT !.up = FALSE]
      BY <1>3 DEF QuickRoom
    <2>2. PICK s : s = [t EXCEPT !.up = FALSE]
      OBVIOUS
    <2>3. Calm(t, s) /\ s.room = t.room
      BY <2>2, DownCalm
    <2>4. QED
      BY <2>1, <2>2, <2>3 DEF Paired
  <1>4. CASE /\ ~(~t.up \/ ~Playable(t, p[1]) \/ ~Playable(t, p[2]))
             /\ t.pool[QuickRooms] # <<>>
    <2>1. PICK r \in {Head(t.pool[QuickRooms])} : TRUE
      OBVIOUS
    <2>2. PICK m \in {Begun(t, r, p)} : TRUE
      OBVIOUS
    <2>3. r \in ROOM /\ t \in Tables
      <3>1. t \in Tables
        BY DEF Sound
      <3>2. QED
        BY <1>4, <3>1, HeadIsFree, Indices
    <2>4. m = GameRoom(t, r, p)
      BY <1>4, <2>3, BegunIs
    <2>5. \A e \in EID : e \in ToSet(p) => Playable(t, e)
      BY <1>4, PairIs
    <2>6. CASE ~ok
      <3>1. QuickRoom(t, p, ok) = FreeRoom(m, r)
        BY <1>4, <2>4, <2>6 DEF QuickRoom, GameRoom
      <3>2. FreeRoom(m, r) = t
        BY <1>4, <2>5, FailedPair
      <3>3. QED
        BY <1>1, <3>1, <3>2
    <2>7. CASE ok
      <3>1. PICK s : s = StartedIn(t, r, p, m)
        OBVIOUS
      <3>2. QuickRoom(t, p, ok) = s
        <4>1. QuickRoom(t, p, ok) =
                [m EXCEPT !.room[r].lua = TRUE,
                          !.userRoom = [e \in EID |-> IF e \in ToSet(p) THEN r ELSE @[e]],
                          !.conn = [c \in CID |->
                                      IF \E e \in ToSet(p) : ConnOf(t, e) = c
                                      THEN [@[c] EXCEPT !.room = r, !.st = ST_GAME]
                                      ELSE @[c]]]
          BY <1>4, <2>4, <2>7 DEF QuickRoom
        <4>2. m \in Tables
          BY <1>4, BegunTables
        <4>3. QED
          BY <3>1, <4>1, <4>2 DEF StartedIn, Tables
      <3>3. Given(t, r, p, s)
        BY <1>4, <3>1, StartedPair
      <3>4. Paired(t, s)
        BY <2>5, <3>3, GivenPaired
      <3>5. QED
        BY <3>2, <3>4
    <2>8. QED
      BY <2>6, <2>7
  <1>5. QED
    BY <1>2, <1>3, <1>4

\* quick_match() pairs different players: the list holds nobody twice, and no
\* user is a robot.
LEMMA PairsAre ==
    ASSUME NEW list \in Seq(EID), IsInjective(list), NEW k \in 0 .. Len(list), NEW ai \in AI
    PROVE  /\ Len(QuickPairs(list, k, ai)) \in Nat
           /\ \A i \in 1 .. Len(QuickPairs(list, k, ai)) : PairOK(QuickPairs(list, k, ai)[i])
  <1> DEFINE m == (Len(list) - k) \div 2
             a == [i \in 1 .. k |-> <<list[i], ai>>]
             b == [i \in 1 .. m |-> <<list[k + 2*i - 1], list[k + 2*i]>>]
             P == Seq(EID \cup AI)
  <1>1. k \in Nat /\ Len(list) \in Nat /\ m \in Nat /\ k + 2 * m <= Len(list)
    OBVIOUS
  <1>2. ASSUME NEW i \in 1 .. k PROVE PairOK(<<list[i], ai>>)
    <2>1. list[i] \in EID /\ ai \in AI /\ list[i] # ai
      BY Indices
    <2>2. QED
      BY <2>1 DEF PairOK
  <1>3. ASSUME NEW i \in 1 .. m PROVE PairOK(<<list[k + 2*i - 1], list[k + 2*i]>>)
    <2>1. k + 2*i - 1 \in 1 .. Len(list) /\ k + 2*i \in 1 .. Len(list) /\ k + 2*i - 1 # k + 2*i
      BY <1>1
    <2>2. list[k + 2*i - 1] \in EID /\ list[k + 2*i] \in EID /\ list[k + 2*i - 1] # list[k + 2*i]
      BY <2>1, Places
    <2>3. QED
      BY <2>2 DEF PairOK
  <1>4. a \in Seq(P) /\ Len(a) = k /\ \A i \in 1 .. k : PairOK(a[i])
    <2>1. \A i \in 1 .. k : <<list[i], ai>> \in P
      BY <1>2 DEF PairOK
    <2>2. QED
      BY <1>1, <1>2, <2>1
  <1>5. b \in Seq(P) /\ Len(b) = m /\ \A i \in 1 .. m : PairOK(b[i])
    <2>1. \A i \in 1 .. m : <<list[k + 2*i - 1], list[k + 2*i]>> \in P
      BY <1>3 DEF PairOK
    <2> HIDE DEF m, P
    <2>2. b \in [1 .. m -> P]
      BY <2>1
    <2>3. \A i \in 1 .. m : PairOK(b[i])
      BY <1>3
    <2> HIDE DEF b
    <2>4. QED
      BY <1>1, <2>2, <2>3
  <1>6. QuickPairs(list, k, ai) = a \o b
    BY DEF QuickPairs
  <1> HIDE DEF a, b, m, P
  <1>7. /\ Len(a \o b) = k + m
        /\ \A i \in 1 .. k + m : (a \o b)[i] = IF i <= k THEN a[i] ELSE b[i - k]
    BY <1>1, <1>4, <1>5
  <1>8. ASSUME NEW i \in 1 .. k + m PROVE PairOK((a \o b)[i])
    <2>1. CASE i <= k
      BY <1>1, <1>4, <1>7, <2>1
    <2>2. CASE i > k
      <3>1. i - k \in 1 .. m /\ (a \o b)[i] = b[i - k]
        BY <1>1, <1>7, <2>2
      <3>2. QED
        BY <1>5, <3>1
    <2>3. i \in Int /\ k \in Int
      BY <1>1
    <2>4. i <= k \/ i > k
      BY <2>3
    <2>5. QED
      BY <2>1, <2>2, <2>4
  <1>9. QED
    BY <1>1, <1>6, <1>7, <1>8

\* Who is left over waits on.
LEMMA LeftIs ==
    ASSUME NEW list \in Seq(EID), IsInjective(list), NEW k \in 0 .. Len(list)
    PROVE  /\ QuickLeft(list, k) \in Seq(EID) /\ IsInjective(QuickLeft(list, k))
           /\ Len(QuickLeft(list, k)) <= 1 /\ ToSet(QuickLeft(list, k)) \subseteq ToSet(list)
  <1>1. CASE (Len(list) - k) % 2 = 1
    <2>1. Len(list) \in 1 .. Len(list)
      BY <1>1
    <2>2. QuickLeft(list, k) = <<list[Len(list)]>> /\ list[Len(list)] \in EID /\ list[Len(list)] \in ToSet(list)
      BY <1>1, <2>1, Places DEF QuickLeft
    <2>3. ASSUME NEW x \in EID PROVE /\ <<x>> \in Seq(EID) /\ Len(<<x>>) = 1 /\ IsInjective(<<x>>)
                                     /\ ToSet(<<x>>) = {x}
      BY DEF IsInjective, ToSet
    <2>4. QED
      BY <2>2, <2>3
  <1>2. CASE (Len(list) - k) % 2 # 1
    <2>1. QuickLeft(list, k) = <<>>
      BY <1>2 DEF QuickLeft
    <2>2. <<>> \in Seq(EID) /\ Len(<<>>) = 0 /\ IsInjective(<<>>) /\ ToSet(<<>>) = {}
      BY DEF IsInjective, ToSet
    <2>3. QED
      BY <2>1, <2>2
  <1>3. QED
    BY <1>1, <1>2

\* The rooms of the pairs, one after the other, exist as a function.
LEMMA PairRun ==
    ASSUME NEW t, NEW pairs, NEW ok, NEW n \in Nat
    PROVE  \E g : g = [i \in 0 .. n |-> IF i = 0 THEN t ELSE QuickRoom(g[i - 1], pairs[i], ok)]
  <1> DEFINE E(m) == \E g : g = [i \in 0 .. m |-> IF i = 0 THEN t ELSE QuickRoom(g[i - 1], pairs[i], ok)]
             T == {m \in Nat : E(m)}
  <1>1. E(0)
    <2> DEFINE g0 == [i \in 0 .. 0 |-> t]
    <2>1. g0 = [i \in 0 .. 0 |-> IF i = 0 THEN t ELSE QuickRoom(g0[i - 1], pairs[i], ok)]
      OBVIOUS
    <2>2. QED
      BY <2>1
  <1>2. ASSUME NEW m \in Nat, E(m) PROVE E(m + 1)
    <2>1. PICK g : g = [i \in 0 .. m |-> IF i = 0 THEN t ELSE QuickRoom(g[i - 1], pairs[i], ok)]
      BY <1>2
    <2> DEFINE k == [i \in 0 .. m + 1 |-> IF i = m + 1 THEN QuickRoom(g[m], pairs[i], ok) ELSE g[i]]
    <2>2. k = [i \in 0 .. m + 1 |-> IF i = 0 THEN t ELSE QuickRoom(k[i - 1], pairs[i], ok)]
      <3> SUFFICES ASSUME NEW i \in 0 .. m + 1
                   PROVE  k[i] = IF i = 0 THEN t ELSE QuickRoom(k[i - 1], pairs[i], ok)
        OBVIOUS
      <3>1. CASE i = m + 1
        <4>1. k[i] = QuickRoom(g[m], pairs[i], ok) /\ k[i - 1] = g[m]
          BY <3>1
        <4>2. QED
          BY <4>1, <3>1
      <3>2. CASE i # m + 1
        <4>1. i \in 0 .. m /\ (i # 0 => i - 1 \in 0 .. m)
          BY <3>2
        <4>2. k[i] = g[i] /\ (i # 0 => k[i - 1] = g[i - 1])
          BY <4>1
        <4>3. g[i] = IF i = 0 THEN t ELSE QuickRoom(g[i - 1], pairs[i], ok)
          BY <4>1, <2>1
        <4>4. QED
          BY <4>2, <4>3
      <3>3. QED
        BY <3>1, <3>2
    <2> HIDE DEF k
    <2>3. QED
      BY <2>2
  <1>3. 0 \in T /\ \A m \in T : m + 1 \in T
    <2> HIDE DEF E
    <2>1. QED
      BY <1>1, <1>2
  <1>4. T = Nat
    <2>1. T \in SUBSET Nat
      OBVIOUS
    <2> HIDE DEF T
    <2>2. QED
      BY <2>1, <1>3, SetInduction
  <1>5. QED
    BY <1>4

\* quick_match(): who is paired leaves the list and may get a room.
Matched(t, s) ==
    /\ Sound(s)
    /\ \A d \in CID : s.conn[d].eid = t.conn[d].eid /\ (IdleAt(t, d) => IdleAt(s, d))
    /\ Len(s.quick) <= 1 /\ ToSet(s.quick) \subseteq ToSet(t.quick)
    /\ AllAlive(t) => AllAlive(s)
    /\ GamesOK(t) => GamesOK(s)
    /\ \A r \in ROOM : t.room[r].state # 0 => s.room[r] = t.room[r]

\* The pairs in their rooms keep what Matched says.
LEMMA PairUpIs ==
    ASSUME NEW t, Sound(t), NEW k \in 0 .. Len(t.quick), NEW ai \in AI, NEW ok
    PROVE  Matched(t, PairUp(t, k, ai, ok))
  <1>1. t.quick \in Seq(EID) /\ IsInjective(t.quick) /\ t \in Tables
    BY Entries DEF Sound
  <1>2. PICK pairs : pairs = QuickPairs(t.quick, k, ai)
    OBVIOUS
  <1>3. Len(pairs) \in Nat /\ \A i \in 1 .. Len(pairs) : PairOK(pairs[i])
    BY <1>1, <1>2, PairsAre
  <1>4. PICK list : list = QuickLeft(t.quick, k)
    OBVIOUS
  <1>5. list \in Seq(EID) /\ IsInjective(list) /\ Len(list) <= 1 /\ ToSet(list) \subseteq ToSet(t.quick)
    BY <1>1, <1>4, LeftIs
  <1>6. PICK u : u = [t EXCEPT !.quick = list]
    OBVIOUS
  <1>7. /\ Sound(u) /\ u.quick = list /\ u.conn = t.conn /\ u.index = t.index
        /\ u.userRoom = t.userRoom /\ u.room = t.room
    BY <1>5, <1>6, QuickSound
  <1> DEFINE h[i \in 0 .. Len(pairs)] == IF i = 0 THEN u ELSE QuickRoom(h[i - 1], pairs[i], ok)
  <1>8. h = [i \in 0 .. Len(pairs) |-> IF i = 0 THEN u ELSE QuickRoom(h[i - 1], pairs[i], ok)]
    BY <1>3, PairRun
  <1>9. \A i \in 0 .. Len(pairs) : h[i] = IF i = 0 THEN u ELSE QuickRoom(h[i - 1], pairs[i], ok)
    <2> HIDE DEF h
    <2>1. QED
      BY <1>8
  <1>10. PairUp(t, k, ai, ok) = h[Len(pairs)]
    BY <1>2, <1>4, <1>6 DEF PairUp
  <1> HIDE DEF h
  <1> DEFINE T == {i \in Nat : i \in 0 .. Len(pairs) => Paired(u, h[i])}
  <1>11. 0 \in T
    <2>1. h[0] = u /\ Paired(u, u)
      BY <1>3, <1>7, <1>9, CalmSelf DEF Paired
    <2>2. QED
      BY <2>1
  <1>12. ASSUME NEW m \in T PROVE m + 1 \in T
    <2> SUFFICES ASSUME m + 1 \in 0 .. Len(pairs) PROVE Paired(u, h[m + 1])
      OBVIOUS
    <2>1. m \in 0 .. Len(pairs) /\ m + 1 # 0 /\ m + 1 - 1 = m /\ m + 1 \in 1 .. Len(pairs)
      BY <1>3
    <2>2. h[m + 1] = QuickRoom(h[m], pairs[m + 1], ok)
      BY <1>9, <2>1
    <2>3. Paired(u, h[m]) /\ Sound(h[m]) /\ PairOK(pairs[m + 1])
      BY <1>3, <2>1 DEF Paired, Calm
    <2>4. PICK x : x = h[m]
      OBVIOUS
    <2>5. PICK p : p = pairs[m + 1]
      OBVIOUS
    <2>6. Paired(x, QuickRoom(x, p, ok))
      BY <2>3, <2>4, <2>5, QuickRoomPairs
    <2>7. Paired(u, QuickRoom(x, p, ok))
      BY <2>3, <2>4, <2>6, PairedTwice
    <2>8. QED
      BY <2>2, <2>4, <2>5, <2>7
  <1>13. T = Nat
    <2>1. T \in SUBSET Nat
      OBVIOUS
    <2> HIDE DEF T
    <2>2. QED
      BY <2>1, <1>11, <1>12, SetInduction
  <1>14. PICK s : s = h[Len(pairs)]
    OBVIOUS
  <1>15. Paired(u, s)
    BY <1>3, <1>13, <1>14
  <1>16. \A d \in CID : IdleAt(t, d) => IdleAt(u, d)
    BY <1>7 DEF IdleAt
  <1>17. AllAlive(t) => AllAlive(u)
    BY <1>7 DEF AllAlive, Alive
  <1>18. GamesOK(t) => GamesOK(u)
    <2>1. \A e : (Online(u, e) <=> Online(t, e))
      BY <1>7, SameOnline
    <2>2. \A q \in ROOM, i \in 1 .. 2 : Seat(u, q, i) = Seat(t, q, i)
      BY <1>7 DEF Seat
    <2>3. QED
      BY <1>7, <2>1, <2>2 DEF GamesOK, TwoPlayers, TimerAway
  <1>19. Matched(t, s)
    BY <1>5, <1>7, <1>15, <1>16, <1>17, <1>18 DEF Paired, Calm, Matched
  <1>20. QED
    BY <1>10, <1>14, <1>19

\* quick_match() keeps what Matched says, with robots and without.
LEMMA QuickMatchIs ==
    ASSUME NEW t, Sound(t), NEW k \in 0 .. Len(t.quick), NEW ai \in AI, NEW ok
    PROVE  Matched(t, QuickMatch(t, k, ai, ok))
  <1>1. PICK n : n = IF quick_robot_flag THEN k ELSE 0
    OBVIOUS
  <1>2. t.quick \in Seq(EID)
    BY Entries DEF Sound
  <1>3. n \in 0 .. Len(t.quick)
    BY <1>1, <1>2
  <1>4. Matched(t, PairUp(t, n, ai, ok))
    BY <1>3, PairUpIs
  <1>5. QED
    BY <1>1, <1>4 DEF QuickMatch

----------------------------------------------------------------------------
(* What a handler keeps, from the tables t it finds to the tables s it     *)
(* leaves.                                                                 *)

\* What every handler keeps.
TablesKept(t, s) ==
    /\ Sound(s)
    /\ (\A d \in CID : IdleAt(t, d)) => \A d \in CID : IdleAt(s, d)
    /\ Len(t.quick) <= 1 => Len(s.quick) <= 1

\* What every handler keeps that does not drop a connection without do_clean.
UsersKept(t, s) ==
    /\ WaitersOnline(t) => WaitersOnline(s)
    /\ AllAlive(t) => AllAlive(s)

\* What every handler keeps if no master kicks itself.
GamesKept(t, s) == GamesOK(t) => GamesOK(s) /\ SamePlayers(t, s)

\* A game that goes on with its two players, and no timer is set.
GoesOn(t, s, r) ==
    /\ t.room[r].state = ST_GAME /\ s.room[r].state = ST_GAME
    /\ Len(t.room[r].guest) >= 2 =>
         Len(s.room[r].guest) >= 2 /\ \A i \in 1 .. 2 : Seat(s, r, i) = Seat(t, r, i)
    /\ \A i \in 1 .. 2 :
         /\ s.room[r].off[i] \in {0, t.room[r].off[i]}
         /\ s.room[r].off[i] > 0 /\ Online(s, Seat(s, r, i)) => Online(t, Seat(s, r, i))

\* A room without a game, in which one may start.
NoGameYet(t, s, r) ==
    /\ t.room[r].state # ST_GAME
    /\ s.room[r].state = ST_GAME => Len(s.room[r].guest) >= 2
    /\ \A i \in 1 .. 2 : s.room[r].off[i] \in {0, t.room[r].off[i]}

\* Games are kept if each room is free, has no game yet, or goes on.
LEMMA GamesStay ==
    ASSUME NEW t, Sound(t), NEW s, Sound(s),
           \A r \in ROOM : s.room[r] = FreeRoomRec \/ NoGameYet(t, s, r) \/ GoesOn(t, s, r)
    PROVE  GamesKept(t, s)
  <1> SUFFICES ASSUME GamesOK(t) PROVE GamesOK(s) /\ SamePlayers(t, s)
    BY DEF GamesKept
  <1>1. /\ t \in Tables /\ \A r \in ROOM : RoomAt(t, r)
        /\ \A r \in ROOM : t.room[r].state = ST_GAME => Len(t.room[r].guest) >= 2
        /\ \A r \in ROOM, i \in 1 .. 2 :
             t.room[r].off[i] > 0 => t.room[r].state = ST_GAME /\ ~Online(t, Seat(t, r, i))
    BY DEF Sound, GamesOK, TwoPlayers, TimerAway
  <1>2. FreeRoomRec.state # ST_GAME /\ (\A i \in 1 .. 2 : FreeRoomRec.off[i] = 0) /\ ~FreeRoomRec.lua
    BY NewRoomRec DEF ST_GAME
  <1>3. ASSUME NEW r \in ROOM
        PROVE  /\ s.room[r].state = ST_GAME => Len(s.room[r].guest) >= 2
               /\ \A i \in 1 .. 2 : s.room[r].off[i] > 0 =>
                    s.room[r].state = ST_GAME /\ ~Online(s, Seat(s, r, i))
               /\ t.room[r].lua /\ s.room[r].lua => \A i \in 1 .. 2 : Seat(t, r, i) = Seat(s, r, i)
    <2>1. CASE s.room[r] = FreeRoomRec
      BY <1>2, <2>1
    <2>2. CASE NoGameYet(t, s, r)
      <3>1. ~t.room[r].lua
        BY <1>1, <2>2 DEF RoomAt, NoGameYet
      <3>2. ASSUME NEW i \in 1 .. 2 PROVE ~(s.room[r].off[i] > 0)
        <4>1. ~(t.room[r].off[i] > 0)
          BY <1>1, <2>2 DEF NoGameYet
        <4>2. QED
          BY <2>2, <4>1 DEF NoGameYet
      <3>3. QED
        BY <2>2, <3>1, <3>2 DEF NoGameYet
    <2>3. CASE GoesOn(t, s, r)
      <3>1. Len(t.room[r].guest) >= 2
        BY <1>1, <2>3 DEF GoesOn
      <3>2. /\ s.room[r].state = ST_GAME
            /\ Len(s.room[r].guest) >= 2 /\ \A i \in 1 .. 2 : Seat(s, r, i) = Seat(t, r, i)
        BY <2>3, <3>1 DEF GoesOn
      <3>3. ASSUME NEW i \in 1 .. 2, s.room[r].off[i] > 0 PROVE ~Online(s, Seat(s, r, i))
        <4>1. t.room[r].off[i] > 0
          BY <2>3, <3>3 DEF GoesOn
        <4>2. ~Online(t, Seat(t, r, i))
          BY <1>1, <4>1
        <4>3. QED
          BY <2>3, <3>2, <3>3, <4>2 DEF GoesOn
      <3>4. QED
        BY <3>2, <3>3
    <2>4. QED
      BY <2>1, <2>2, <2>3
  <1>4. QED
    BY <1>3 DEF GamesOK, TwoPlayers, TimerAway, SamePlayers

\* Nobody comes online when connections are only closed.
LEMMA OnlineLess ==
    ASSUME NEW t, Sound(t), NEW s, Sound(s),
           \A d \in CID : s.conn[d].eid \in {NoEid, t.conn[d].eid},
           NEW e, Online(s, e)
    PROVE  Online(t, e)
  <1>1. /\ t \in Tables /\ \A d \in CID : SessionAt(t, d)
        /\ s \in Tables /\ \A d \in CID : SessionAt(s, d)
    BY DEF Sound
  <1>2. PICK d \in CID : e \in EID /\ s.conn[d].eid = e
    BY <1>1, WhereIs
  <1>3. t.conn[d].eid = e
    BY <1>2, Indices
  <1>4. QED
    BY <1>1, <1>2, <1>3, WhereIs

\* Rooms that stay as they are, or go, while connections are closed.
LEMMA ClosingKeeps ==
    ASSUME NEW t, Sound(t), NEW s, Sound(s),
           \A d \in CID : s.conn[d].eid \in {NoEid, t.conn[d].eid},
           \A r \in ROOM : s.room[r] = t.room[r] \/ s.room[r] = FreeRoomRec
    PROVE  GamesKept(t, s)
  <1>1. ASSUME NEW r \in ROOM, s.room[r] = t.room[r]
        PROVE  NoGameYet(t, s, r) \/ GoesOn(t, s, r)
    <2>1. \A i \in 1 .. 2 : Seat(s, r, i) = Seat(t, r, i)
      BY <1>1 DEF Seat
    <2>2. \A e : Online(s, e) => Online(t, e)
      BY OnlineLess
    <2>3. QED
      BY <1>1, <2>1, <2>2 DEF NoGameYet, GoesOn
  <1>2. QED
    BY <1>1, GamesStay

\* What changes no room, no seat and no session.
LEMMA CalmKeeps ==
    ASSUME NEW t, Sound(t), NEW s, Calm(t, s)
    PROVE  TablesKept(t, s) /\ UsersKept(t, s)
  <1>1. WaitersOnline(t) => WaitersOnline(s)
    BY DEF Calm, WaitersOnline
  <1>2. QED
    BY <1>1 DEF Calm, TablesKept, UsersKept

\* The end of games.
LEMMA FoldedKeeps ==
    ASSUME NEW t, Sound(t), NEW s, Folded(t, s)
    PROVE  TablesKept(t, s) /\ UsersKept(t, s) /\ GamesKept(t, s)
  <1>1. Calm(t, s)
    BY DEF Folded
  <1>2. SamePlayers(t, s)
    BY DEF Folded, SamePlayers, Seat
  <1>3. QED
    BY <1>1, <1>2, CalmKeeps DEF GamesKept, Calm

----------------------------------------------------------------------------
(* The handlers of a connection.                                           *)

\* Connect.
LEMMA ConnectKeeps ==
    ASSUME NEW t, Sound(t), NEW c \in CID, ~t.conn[c].up, NEW s,
           Replaced(t, c, FreshConn, s)
    PROVE  TablesKept(t, s) /\ UsersKept(t, s) /\ GamesKept(t, s)
  <1>1. /\ Sound(s) /\ s.quick = t.quick /\ s.room = t.room
        /\ s.conn[c] = FreshConn
        /\ \A d \in CID \ {c} : s.conn[d] = t.conn[d]
    BY DEF Replaced
  <1>2. t.conn[c].eid = NoEid
    BY DEF Sound, SessionAt
  <1>3. \A d \in CID : s.conn[d].eid = t.conn[d].eid
    BY <1>1, <1>2, EmptySlots
  <1>4. \A d \in CID : IdleAt(t, d) => IdleAt(s, d)
    BY <1>1, EmptySlots DEF IdleAt
  <1>5. TablesKept(t, s)
    BY <1>1, <1>4 DEF TablesKept
  <1>6. UsersKept(t, s)
    <2>1. WaitersOnline(t) => WaitersOnline(s)
      BY <1>1, <1>3 DEF WaitersOnline
    <2>2. ASSUME NEW r \in ROOM, Alive(t, r) PROVE Alive(s, r)
      BY <1>1, <1>2, <2>2 DEF Alive
    <2>3. QED
      BY <1>1, <2>1, <2>2 DEF UsersKept, AllAlive
  <1>7. GamesKept(t, s)
    BY <1>1, <1>3, ClosingKeeps
  <1>8. QED
    BY <1>5, <1>6, <1>7

\* SendError: who waited or was alone in a room is no longer told of.
LEMMA SendErrorKeeps ==
    ASSUME NEW t, Sound(t), NEW c \in CID, NEW s, Replaced(t, c, FreeSlot, s)
    PROVE  TablesKept(t, s) /\ GamesKept(t, s)
  <1>1. /\ Sound(s) /\ s.quick = t.quick /\ s.room = t.room
        /\ s.conn[c] = FreeSlot
        /\ \A d \in CID \ {c} : s.conn[d] = t.conn[d]
    BY DEF Replaced
  <1>2. \A d \in CID : s.conn[d].eid \in {NoEid, t.conn[d].eid}
    BY <1>1, EmptySlots
  <1>3. \A d \in CID : IdleAt(t, d) => IdleAt(s, d)
    BY <1>1, EmptySlots DEF IdleAt
  <1>4. TablesKept(t, s)
    BY <1>1, <1>3 DEF TablesKept
  <1>5. GamesKept(t, s)
    BY <1>1, <1>2, ClosingKeeps
  <1>6. QED
    BY <1>4, <1>5

\* Waiting rooms that are kept alive.
LEMMA RoomsKeptAlive ==
    ASSUME NEW t, NEW s, RoomsKept(t, s)
    PROVE  AllAlive(t) => AllAlive(s)
  <1> SUFFICES ASSUME AllAlive(t), NEW r \in ROOM, s.room[r].state = ST_ROOM PROVE Alive(s, r)
    BY DEF AllAlive
  <1>1. t.room[r].state = ST_ROOM
    BY NewRoomRec DEF RoomsKept, ST_ROOM
  <1>2. Alive(t, r)
    BY <1>1 DEF AllAlive
  <1>3. QED
    BY <1>2 DEF RoomsKept

\* Disconnect.
LEMMA DisconnectKeeps ==
    ASSUME NEW t, Sound(t), NEW c \in CID, NEW s, Gone(t, c, s)
    PROVE  TablesKept(t, s) /\ UsersKept(t, s) /\ GamesKept(t, s)
  <1>1. /\ Sound(s) /\ s.conn[c] = FreeSlot /\ OthersStay(t, s, c) /\ RoomsKept(t, s)
        /\ s.quick = RemoveFirst(t.quick, t.conn[c].eid)
    BY DEF Gone
  <1>2. /\ WaitersOnline(t) => WaitersOnline(s)
        /\ Len(s.quick) <= Len(t.quick)
    BY <1>1, WaitersStay
  <1>3. \A d \in CID : s.conn[d].eid \in {NoEid, t.conn[d].eid}
    BY <1>1, EmptySlots DEF OthersStay
  <1>4. ASSUME NEW d \in CID, IdleAt(t, d) PROVE IdleAt(s, d)
    BY <1>1, <1>4, EmptySlots DEF IdleAt, OthersStay
  <1>5. Len(s.quick) \in Nat /\ Len(t.quick) \in Nat
    <2>1. s \in Tables /\ t \in Tables
      BY <1>1 DEF Sound
    <2>2. s.quick \in Seq(EID) /\ t.quick \in Seq(EID)
      BY <2>1, Entries
    <2>3. QED
      BY <2>2
  <1>6. TablesKept(t, s)
    BY <1>1, <1>2, <1>4, <1>5 DEF TablesKept
  <1>7. UsersKept(t, s)
    BY <1>1, <1>2, RoomsKeptAlive DEF UsersKept
  <1>8. GamesKept(t, s)
    <2>1. \A r \in ROOM : s.room[r] = t.room[r] \/ s.room[r] = FreeRoomRec
      BY <1>1 DEF RoomsKept
    <2>2. QED
      BY <1>1, <1>3, <2>1, ClosingKeeps
  <1>9. QED
    BY <1>6, <1>7, <1>8

\* Login.
LEMMA LoginKeeps ==
    ASSUME NEW t, Sound(t), NEW c \in CID, NEW e \in EID, NEW s, LoggedIn(t, c, e, s)
    PROVE  TablesKept(t, s) /\ UsersKept(t, s) /\ GamesKept(t, s)
  <1>1. /\ Sound(s) /\ s.conn[c].eid = e
        /\ \A d \in CID \ {c} : /\ s.conn[d].eid # e
                                /\ t.conn[d].eid # e => s.conn[d].eid = t.conn[d].eid
                                /\ t.conn[d].eid = e => s.conn[d].eid = NoEid
                                /\ IdleAt(t, d) => IdleAt(s, d)
        /\ \A r \in ROOM :
             \/ t.room[r].state = ST_ROOM /\ s.room[r] = FreeRoomRec
             \/ /\ s.room[r].state = t.room[r].state /\ s.room[r].guest = t.room[r].guest
                /\ (s.room[r].lua = t.room[r].lua)
                /\ \A i \in 1 .. 2 : /\ s.room[r].off[i] \in {0, t.room[r].off[i]}
                                     /\ Seat(s, r, i) = e => s.room[r].off[i] = 0
        /\ \A r \in ROOM : s.room[r].state = ST_ROOM /\ Alive(t, r) => Alive(s, r)
        /\ WaitersOnline(t) => WaitersOnline(s)
        /\ Len(s.quick) <= Len(t.quick)
    BY DEF LoggedIn
  <1>2. IdleAt(s, c)
    BY <1>1, Indices DEF IdleAt
  <1>3. Len(s.quick) \in Nat /\ Len(t.quick) \in Nat
    <2>1. s \in Tables /\ t \in Tables
      BY <1>1 DEF Sound
    <2>2. s.quick \in Seq(EID) /\ t.quick \in Seq(EID)
      BY <2>1, Entries
    <2>3. QED
      BY <2>2
  <1>4. TablesKept(t, s)
    <2>1. (\A d \in CID : IdleAt(t, d)) => \A d \in CID : IdleAt(s, d)
      BY <1>1, <1>2
    <2>2. Len(t.quick) <= 1 => Len(s.quick) <= 1
      BY <1>1, <1>3
    <2>3. QED
      BY <1>1, <2>1, <2>2 DEF TablesKept
  <1>5. AllAlive(t) => AllAlive(s)
    <2> SUFFICES ASSUME AllAlive(t), NEW r \in ROOM, s.room[r].state = ST_ROOM PROVE Alive(s, r)
      BY DEF AllAlive
    <2>1. t.room[r].state = ST_ROOM
      BY <1>1, NewRoomRec DEF ST_ROOM
    <2>2. QED
      BY <1>1, <2>1 DEF AllAlive
  <1>6. UsersKept(t, s)
    BY <1>1, <1>5 DEF UsersKept
  <1>7. ASSUME NEW x, x # e, Online(s, x) PROVE Online(t, x)
    <2>1. /\ t \in Tables /\ \A d \in CID : SessionAt(t, d)
          /\ s \in Tables /\ \A d \in CID : SessionAt(s, d)
      BY <1>1 DEF Sound
    <2>2. PICK d \in CID : x \in EID /\ s.conn[d].eid = x
      BY <1>7, <2>1, WhereIs
    <2>3. d # c
      BY <1>1, <1>7, <2>2
    <2>4. t.conn[d].eid = x
      BY <1>1, <2>2, <2>3, Indices
    <2>5. QED
      BY <2>1, <2>2, <2>4, WhereIs
  <1>8. ASSUME NEW r \in ROOM, s.room[r] # FreeRoomRec
        PROVE  NoGameYet(t, s, r) \/ GoesOn(t, s, r)
    <2>1. /\ s.room[r].state = t.room[r].state /\ s.room[r].guest = t.room[r].guest
          /\ \A i \in 1 .. 2 : /\ s.room[r].off[i] \in {0, t.room[r].off[i]}
                               /\ Seat(s, r, i) = e => s.room[r].off[i] = 0
      BY <1>1, <1>8
    <2>2. \A i \in 1 .. 2 : Seat(s, r, i) = Seat(t, r, i)
      BY <2>1 DEF Seat
    <2>3. ASSUME NEW i \in 1 .. 2, s.room[r].off[i] > 0, Online(s, Seat(s, r, i))
          PROVE  Online(t, Seat(s, r, i))
      BY <1>7, <2>1, <2>3
    <2>4. CASE t.room[r].state = ST_GAME
      BY <2>1, <2>2, <2>3, <2>4 DEF GoesOn
    <2>5. CASE t.room[r].state # ST_GAME
      BY <2>1, <2>5 DEF NoGameYet
    <2>6. QED
      BY <2>4, <2>5
  <1>9. GamesKept(t, s)
    BY <1>1, <1>8, GamesStay
  <1>10. QED
    BY <1>4, <1>6, <1>9

----------------------------------------------------------------------------
(* The handlers of the rooms.                                              *)

\* A new guest of room r, which was a room already or is a new one.
LEMMA AddKeeps ==
    ASSUME NEW t, Sound(t), NEW r \in ROOM, NEW c \in CID, NEW s, Added(t, r, c, s),
           t.conn[c].eid # NoEid, t.conn[c].room = NoRoom
    PROVE  TablesKept(t, s) /\ UsersKept(t, s) /\ GamesKept(t, s)
  <1>1. /\ Sound(s) /\ s.quick = t.quick
        /\ s.conn[c].eid = t.conn[c].eid /\ s.conn[c].room = r
        /\ \A d \in CID \ {c} : s.conn[d] = t.conn[d]
        /\ \A q \in ROOM \ {r} : s.room[q] = t.room[q]
        /\ s.room[r].state = t.room[r].state /\ s.room[r].off = t.room[r].off
        /\ s.room[r].guest = Append(t.room[r].guest, t.conn[c].eid)
    BY DEF Added
  <1>2. \A d \in CID : s.conn[d].eid = t.conn[d].eid
    BY <1>1
  <1>3. \A d \in CID : IdleAt(t, d) => IdleAt(s, d)
    BY <1>1 DEF IdleAt
  <1>4. TablesKept(t, s)
    BY <1>1, <1>3 DEF TablesKept
  <1>5. UsersKept(t, s)
    <2>1. WaitersOnline(t) => WaitersOnline(s)
      BY <1>1, <1>2 DEF WaitersOnline
    <2>2. ASSUME AllAlive(t), NEW q \in ROOM, s.room[q].state = ST_ROOM PROVE Alive(s, q)
      <3>1. CASE q = r
        BY <1>1, <3>1 DEF Alive
      <3>2. CASE q # r
        <4>1. PICK d \in CID : t.conn[d].eid # NoEid /\ t.conn[d].room = q
          BY <1>1, <2>2, <3>2 DEF AllAlive, Alive
        <4>2. d # c
          BY <4>1, Indices
        <4>3. QED
          BY <1>1, <4>1, <4>2 DEF Alive
      <3>3. QED
        BY <3>1, <3>2
    <2>3. QED
      BY <2>1, <2>2 DEF UsersKept, AllAlive
  <1>6. \A x : (Online(s, x) <=> Online(t, x))
    BY <1>1, <1>2, SameOnline
  <1>7. ASSUME NEW q \in ROOM PROVE NoGameYet(t, s, q) \/ GoesOn(t, s, q)
    <2>1. CASE q # r
      <3>1. s.room[q] = t.room[q]
        BY <1>1, <2>1
      <3>2. \A i \in 1 .. 2 : Seat(s, q, i) = Seat(t, q, i)
        BY <3>1 DEF Seat
      <3>3. QED
        BY <1>6, <3>1, <3>2 DEF NoGameYet, GoesOn
    <2>2. CASE q = r /\ t.room[r].state # ST_GAME
      BY <1>1, <2>2 DEF NoGameYet
    <2>3. CASE q = r /\ t.room[r].state = ST_GAME
      <3>1. /\ t.room[r].guest \in Seq(EID \cup AI) /\ t.conn[c].eid \in EID \cup AI
            /\ t \in Tables
        BY Entries DEF Sound
      <3>2. /\ Len(s.room[r].guest) = Len(t.room[r].guest) + 1 /\ Len(t.room[r].guest) \in Nat
            /\ \A i \in 1 .. Len(t.room[r].guest) : s.room[r].guest[i] = t.room[r].guest[i]
        BY <1>1, <3>1
      <3>3. ASSUME NEW i \in 1 .. 2, Len(t.room[r].guest) >= 2
            PROVE  Seat(s, r, i) = Seat(t, r, i)
        BY <3>2, <3>3 DEF Seat
      <3>4. ASSUME NEW i \in 1 .. 2, s.room[r].off[i] > 0, Online(s, Seat(s, r, i))
            PROVE  Online(t, Seat(s, r, i))
        BY <1>6, <3>4
      <3>5. /\ t.room[r].state = ST_GAME /\ s.room[r].state = ST_GAME
            /\ \A i \in 1 .. 2 : s.room[r].off[i] \in {0, t.room[r].off[i]}
        BY <1>1, <2>3
      <3>6. Len(t.room[r].guest) >= 2 => Len(s.room[r].guest) >= 2
        BY <3>2
      <3>7. GoesOn(t, s, r)
        BY <3>3, <3>4, <3>5, <3>6 DEF GoesOn
      <3>8. QED
        BY <2>3, <3>7
    <2>4. QED
      BY <2>1, <2>2, <2>3
  <1>8. GamesKept(t, s)
    BY <1>1, <1>7, GamesStay
  <1>9. QED
    BY <1>4, <1>5, <1>8

\* room: a new room with its master.
LEMMA CreateKeeps ==
    ASSUME NEW t, Sound(t), NEW c \in CID, NEW ch \in Channel, t.pool[ch] # <<>>,
           t.conn[c].eid # NoEid, t.conn[c].room = NoRoom,
           NEW r, r = Head(t.pool[ch])
    PROVE  LET s == DoRoomAdd(NewRoom(t, ch, r), r, c)
           IN TablesKept(t, s) /\ UsersKept(t, s) /\ GamesKept(t, s)
  <1>1. PICK m : m = NewRoom(t, ch, r)
    OBVIOUS
  <1>2. /\ r \in ROOM /\ t.room[r].state = 0 /\ Sound(m)
        /\ Opened(t, ch, r, [FreeRoomRec EXCEPT !.state = ST_ROOM], m)
    BY <1>1, NewRoomIs
  <1>3. /\ m.conn = t.conn /\ m.quick = t.quick
        /\ m.room = [t.room EXCEPT ![r] = [FreeRoomRec EXCEPT !.state = ST_ROOM]]
    BY <1>2 DEF Opened
  <1>4. t \in Tables /\ DOMAIN t.room = ROOM
    BY DEF Sound, Tables
  <1>5. m.room[r] = [FreeRoomRec EXCEPT !.state = ST_ROOM] /\ \A q \in ROOM \ {r} : m.room[q] = t.room[q]
    BY <1>2, <1>3, <1>4
  <1>6. /\ m.room[r].state = ST_ROOM /\ m.room[r].guest = <<>>
        /\ \A i \in 1 .. 2 : m.room[r].off[i] = 0
    BY <1>5, NewRoomRec
  <1>7. PICK s : s = DoRoomAdd(m, r, c)
    OBVIOUS
  <1>8. Added(m, r, c, s)
    <2>1. Len(m.room[r].guest) < MAX_GUEST
      BY <1>6, LobbyAssumption
    <2>2. m.room[r].state # 0 /\ m.conn[c].eid # NoEid /\ m.conn[c].room = NoRoom
      BY <1>3, <1>6 DEF ST_ROOM
    <2>3. Added(m, r, c, DoRoomAdd(m, r, c))
      BY <1>2, <2>1, <2>2, DoRoomAddIs
    <2>4. QED
      BY <1>7, <2>3
  <1>9. /\ Sound(s) /\ s.quick = t.quick
        /\ s.conn[c].eid = t.conn[c].eid /\ s.conn[c].room = r
        /\ \A d \in CID \ {c} : s.conn[d] = t.conn[d]
        /\ \A q \in ROOM \ {r} : s.room[q] = t.room[q]
        /\ s.room[r].state = ST_ROOM /\ \A i \in 1 .. 2 : s.room[r].off[i] = 0
    BY <1>3, <1>5, <1>6, <1>8 DEF Added
  <1>10. \A d \in CID : s.conn[d].eid = t.conn[d].eid
    BY <1>9
  <1>11. TablesKept(t, s)
    <2>1. \A d \in CID : IdleAt(t, d) => IdleAt(s, d)
      BY <1>9 DEF IdleAt
    <2>2. QED
      BY <1>9, <2>1 DEF TablesKept
  <1>12. UsersKept(t, s)
    <2>1. WaitersOnline(t) => WaitersOnline(s)
      BY <1>9, <1>10 DEF WaitersOnline
    <2>2. ASSUME AllAlive(t), NEW q \in ROOM, s.room[q].state = ST_ROOM PROVE Alive(s, q)
      <3>1. CASE q = r
        BY <1>9, <3>1 DEF Alive
      <3>2. CASE q # r
        <4>1. PICK d \in CID : t.conn[d].eid # NoEid /\ t.conn[d].room = q
          BY <1>9, <2>2, <3>2 DEF AllAlive, Alive
        <4>2. d # c
          BY <4>1, Indices
        <4>3. QED
          BY <1>9, <4>1, <4>2 DEF Alive
      <3>3. QED
        BY <3>1, <3>2
    <2>3. QED
      BY <2>1, <2>2 DEF UsersKept, AllAlive
  <1>13. GamesKept(t, s)
    <2>1. NoGameYet(t, s, r)
      <3>1. t.room[r].state # ST_GAME /\ s.room[r].state # ST_GAME
        BY <1>2, <1>9 DEF ST_ROOM, ST_GAME
      <3>2. QED
        BY <1>9, <3>1 DEF NoGameYet
    <2>2. ASSUME NEW q \in ROOM \ {r} PROVE NoGameYet(t, s, q) \/ GoesOn(t, s, q)
      <3>1. s.room[q] = t.room[q]
        BY <1>9
      <3>2. \A i \in 1 .. 2 : Seat(s, q, i) = Seat(t, q, i)
        BY <3>1 DEF Seat
      <3>3. \A x : (Online(s, x) <=> Online(t, x))
        BY <1>9, <1>10, SameOnline
      <3>4. QED
        BY <3>1, <3>2, <3>3 DEF NoGameYet, GoesOn
    <2>3. QED
      BY <1>9, <2>1, <2>2, GamesStay
  <1>14. QED
    BY <1>1, <1>7, <1>11, <1>12, <1>13

\* A seat of r is given up by e, who is not alone in a waiting room.
LEMMA DelKeeps ==
    ASSUME NEW t, Sound(t), NEW r \in ROOM, NEW e \in ToSet(t.room[r].guest),
           NEW s, s = DoRoomDel(t, r, ConnOf(t, e), e),
           ConnOf(t, e) # NoConn => ~Cleanable(t, ConnOf(t, e))
    PROVE  /\ TablesKept(t, s) /\ UsersKept(t, s)
           /\ (t.room[r].state = ST_GAME => e \notin Players(t, r)) => GamesKept(t, s)
  <1>1. /\ Sound(s) /\ s.quick = t.quick
        /\ s.conn = ConnsWithout(t, {e})
        /\ \A q \in ROOM \ {r} : s.room[q] = t.room[q]
        /\ s.room[r].state = t.room[r].state /\ s.room[r].off = t.room[r].off
        /\ s.room[r].guest = RemoveFirst(t.room[r].guest, e)
    BY DoRoomDelIs
  <1>2. /\ t \in Tables /\ RoomAt(t, r) /\ t.room[r].guest \in Seq(EID \cup AI)
        /\ \A d \in CID : SessionAt(t, d) /\ t.conn[d] \in Conns
    BY Entries DEF Sound
  <1>3. ASSUME NEW d \in CID
        PROVE  /\ s.conn[d].eid = t.conn[d].eid
               /\ t.conn[d].eid # e \/ t.conn[d].eid = NoEid => s.conn[d] = t.conn[d]
    BY <1>1, <1>2, OutsideIs DEF ConnsWithout
  <1>4. TablesKept(t, s)
    <2>1. \A d \in CID : IdleAt(t, d) => IdleAt(s, d)
      BY <1>3 DEF IdleAt
    <2>2. QED
      BY <1>1, <2>1 DEF TablesKept
  <1>5. UsersKept(t, s)
    <2>1. WaitersOnline(t) => WaitersOnline(s)
      <3>1. s.quick = t.quick /\ \A d \in CID : s.conn[d].eid = t.conn[d].eid
        BY <1>1, <1>3
      <3>2. QED
        BY <3>1 DEF WaitersOnline
    <2>2. ASSUME AllAlive(t), NEW q \in ROOM, s.room[q].state = ST_ROOM
          PROVE  \E d \in CID : t.conn[d].eid \notin {NoEid, e} /\ t.conn[d].room = q
      <3>1. t.room[q].state = ST_ROOM
        BY <1>1, <2>2
      <3>2. PICK d \in CID : t.conn[d].eid # NoEid /\ t.conn[d].room = q
        BY <2>2, <3>1 DEF AllAlive, Alive
      <3>3. CASE t.conn[d].eid # e
        BY <3>2, <3>3
      <3>4. CASE t.conn[d].eid = e
        <4>1. ConnOf(t, e) = d /\ e \in EID
          BY <1>2, <3>2, <3>4, Entries, WhereIs
        <4>2. ~Cleanable(t, d)
          BY <4>1, Indices
        <4>3. ActiveUsers(t, q, e) # {}
          BY <3>1, <3>2, <3>4, <4>2, Indices DEF Cleanable, ST_ROOM, ST_GAME
        <4>4. PICK x \in EID \ {e} : \E b \in CID : t.conn[b].eid = x /\ t.conn[b].room = q
          BY <4>3, WhoIsActive
        <4>5. QED
          BY <4>4, Indices
      <3>5. QED
        BY <3>3, <3>4
    <2>3. AllAlive(t) => AllAlive(s)
      BY <1>3, <2>2 DEF AllAlive, Alive
    <2>4. QED
      BY <2>1, <2>3 DEF UsersKept
  <1>6. ASSUME t.room[r].state = ST_GAME => e \notin Players(t, r) PROVE GamesKept(t, s)
    <2>1. \A x : (Online(s, x) <=> Online(t, x))
      <3>1. Sound(s) /\ \A d \in CID : s.conn[d].eid = t.conn[d].eid
        BY <1>1, <1>3
      <3>2. QED
        BY <3>1, SameOnline
    <2>2. ASSUME NEW q \in ROOM \ {r} PROVE NoGameYet(t, s, q) \/ GoesOn(t, s, q)
      <3>1. s.room[q] = t.room[q]
        BY <1>1
      <3>2. \A i \in 1 .. 2 : Seat(s, q, i) = Seat(t, q, i)
        BY <3>1 DEF Seat
      <3>3. QED
        BY <2>1, <3>1, <3>2 DEF NoGameYet, GoesOn
    <2>3. CASE t.room[r].state # ST_GAME
      <3>1. NoGameYet(t, s, r)
        BY <1>1, <2>3 DEF NoGameYet
      <3>2. QED
        BY <1>1, <2>2, <3>1, GamesStay
    <2>4. CASE t.room[r].state = ST_GAME
      <3>1. ASSUME Len(t.room[r].guest) >= 2
            PROVE  Len(s.room[r].guest) >= 2 /\ \A i \in 1 .. 2 : Seat(s, r, i) = Seat(t, r, i)
        <4>1. /\ IsInjective(t.room[r].guest) /\ Len(t.room[r].guest) \in Nat
              /\ t.room[r].guest[1] # e /\ t.room[r].guest[2] # e
          BY <1>2, <1>6, <2>4, <3>1 DEF RoomAt, Players, Seat
        <4>2. ASSUME NEW i \in 1 .. 2
              PROVE  i <= Len(s.room[r].guest) /\ s.room[r].guest[i] = t.room[r].guest[i]
          <5>1. i \in 1 .. Len(t.room[r].guest) /\ \A j \in 1 .. i : t.room[r].guest[j] # e
            BY <3>1, <4>1
          <5>2. QED
            BY <1>1, <1>2, <4>1, <5>1, RemoveOnce
        <4>3. s.room[r].guest \in Seq(EID \cup AI)
          BY <1>1, Entries DEF Sound
        <4>4. QED
          BY <3>1, <4>1, <4>2, <4>3 DEF Seat
      <3>2. GoesOn(t, s, r)
        BY <1>1, <2>1, <2>4, <3>1 DEF GoesOn
      <3>3. QED
        BY <1>1, <2>2, <3>2, GamesStay
    <2>5. QED
      BY <2>3, <2>4
  <1>7. QED
    BY <1>4, <1>5, <1>6

\* A waiting room is destroyed by its last guest, or nothing happens.
LEMMA CleanKeeps ==
    ASSUME NEW t, Sound(t), NEW c \in CID, IdleAt(t, c), NEW s, s = RoomClean(t, c)
    PROVE  TablesKept(t, s) /\ UsersKept(t, s) /\ GamesKept(t, s)
  <1>1. RoomCleaned(t, c, s)
    BY RoomCleanKeeps
  <1>2. /\ Sound(s) /\ s.quick = t.quick
        /\ \A d \in CID : /\ s.conn[d].eid = t.conn[d].eid
                          /\ t.conn[d].eid = NoEid => s.conn[d] = t.conn[d]
        /\ \A r \in ROOM : \/ s.room[r] = t.room[r]
                           \/ t.room[r].state = ST_ROOM /\ s.room[r] = FreeRoomRec
        /\ \A r \in ROOM : s.room[r].state = ST_ROOM /\ Alive(t, r) => Alive(s, r)
    BY <1>1 DEF RoomCleaned, Alive
  <1>3. TablesKept(t, s)
    <2>1. \A d \in CID : IdleAt(t, d) => IdleAt(s, d)
      BY <1>2 DEF IdleAt
    <2>2. QED
      BY <1>2, <2>1 DEF TablesKept
  <1>4. UsersKept(t, s)
    <2>1. WaitersOnline(t) => WaitersOnline(s)
      BY <1>2 DEF WaitersOnline
    <2>2. RoomsKept(t, s)
      BY <1>2 DEF RoomsKept
    <2>3. QED
      BY <2>1, <2>2, RoomsKeptAlive DEF UsersKept
  <1>5. GamesKept(t, s)
    BY <1>2, ClosingKeeps
  <1>6. QED
    BY <1>3, <1>4, <1>5

----------------------------------------------------------------------------
(* The quick match and the start of a game.                                *)

\* Only what the invariants do not read changes: busy, or who waits.
Framed(t, s) ==
    /\ Sound(s)
    /\ (s.up = t.up) /\ s.index = t.index /\ s.userRoom = t.userRoom
    /\ s.room = t.room /\ s.pool = t.pool
    /\ \A d \in CID : /\ s.conn[d].eid = t.conn[d].eid /\ s.conn[d].room = t.conn[d].room
                      /\ s.conn[d].st = t.conn[d].st

\* A flag of a connection is set or reset.
LEMMA BusyFramed ==
    ASSUME NEW t, Sound(t), NEW c \in CID, NEW b \in BOOLEAN
    PROVE  /\ Framed(t, [t EXCEPT !.conn[c].busy = b])
           /\ [t EXCEPT !.conn[c].busy = b].quick = t.quick
  <1>1. t \in Tables /\ t.conn \in [CID -> Conns] /\ t.conn[c] \in Conns /\ IsInjective(t.quick)
    BY DEF Sound, Tables
  <1>2. PICK k : k = [t.conn[c] EXCEPT !.busy = b]
    OBVIOUS
  <1>3. /\ k \in Conns /\ k.eid = t.conn[c].eid /\ k.room = t.conn[c].room
        /\ k.st = t.conn[c].st
    BY <1>1, <1>2 DEF Conns
  <1>4. k.up = t.conn[c].up
    BY <1>1, <1>2 DEF Conns
  <1>5. PICK s : s = [t EXCEPT !.conn[c].busy = b]
    OBVIOUS
  <1>6. PICK conn1 : conn1 = [t.conn EXCEPT ![c] = k]
    OBVIOUS
  <1>7. conn1 \in [CID -> Conns] /\ conn1[c] = k /\ \A d \in CID \ {c} : conn1[d] = t.conn[d]
    BY <1>1, <1>3, <1>6
  <1>8. s = [t EXCEPT !.conn = conn1]
    BY <1>1, <1>2, <1>5, <1>6 DEF Tables
  <1>9. /\ s \in Tables /\ s.conn = conn1 /\ s.index = t.index /\ s.userRoom = t.userRoom
        /\ s.room = t.room /\ s.pool = t.pool /\ s.quick = t.quick
    BY <1>1, <1>7, <1>8 DEF Tables
  <1>10. s.up = t.up
    BY <1>1, <1>7, <1>8 DEF Tables
  <1>11. ASSUME NEW d \in CID
         PROVE  /\ s.conn[d].eid = t.conn[d].eid /\ s.conn[d].room = t.conn[d].room
                /\ s.conn[d].st = t.conn[d].st /\ (s.conn[d].up = t.conn[d].up)
    BY <1>3, <1>4, <1>7, <1>9
  <1>12. Sound(s)
    BY <1>1, <1>9, <1>11, FrameSound
  <1>13. Framed(t, s)
    BY <1>9, <1>10, <1>11, <1>12 DEF Framed
  <1>14. QED
    BY <1>5, <1>9, <1>13

\* What the frame leaves alone.
LEMMA FramedKeeps ==
    ASSUME NEW t, Sound(t), NEW s, Framed(t, s)
    PROVE  /\ \A d \in CID : IdleAt(t, d) => IdleAt(s, d)
           /\ AllAlive(t) => AllAlive(s)
           /\ GamesKept(t, s)
           /\ s.quick = t.quick => TablesKept(t, s) /\ UsersKept(t, s)
  <1>1. Sound(s) /\ s.room = t.room /\ \A d \in CID : s.conn[d].eid = t.conn[d].eid
    BY DEF Framed
  <1>2. \A d \in CID : IdleAt(t, d) => IdleAt(s, d)
    BY DEF IdleAt, Framed
  <1>3. AllAlive(t) => AllAlive(s)
    BY DEF AllAlive, Alive, Framed
  <1>4. GamesKept(t, s)
    BY <1>1, ClosingKeeps
  <1>5. ASSUME s.quick = t.quick PROVE TablesKept(t, s) /\ UsersKept(t, s)
    <2>1. WaitersOnline(t) => WaitersOnline(s)
      BY <1>1, <1>5 DEF WaitersOnline
    <2>2. QED
      BY <1>1, <1>2, <1>3, <1>5, <2>1 DEF TablesKept, UsersKept
  <1>6. QED
    BY <1>2, <1>3, <1>4, <1>5

\* A handler after a frame.
LEMMA FramedThen ==
    ASSUME NEW t, Sound(t), NEW m, Framed(t, m), m.quick = t.quick, NEW s
    PROVE  /\ TablesKept(m, s) => TablesKept(t, s)
           /\ UsersKept(m, s) => UsersKept(t, s)
           /\ GamesKept(m, s) => GamesKept(t, s)
  <1>1. TablesKept(t, m) /\ UsersKept(t, m) /\ GamesKept(t, m)
    BY FramedKeeps
  <1>2. ASSUME GamesKept(m, s), GamesOK(t) PROVE GamesOK(s) /\ SamePlayers(t, s)
    <2>1. GamesOK(m) /\ GamesOK(s) /\ SamePlayers(m, s)
      BY <1>1, <1>2 DEF GamesKept
    <2>2. m.room = t.room
      BY DEF Framed
    <2>3. SamePlayers(t, s)
      BY <2>1, <2>2 DEF SamePlayers, Seat
    <2>4. QED
      BY <2>1, <2>3
  <1>3. QED
    BY <1>1, <1>2 DEF TablesKept, UsersKept, GamesKept

\* Only the waiting list has changed.
LEMMA QuickFramed ==
    ASSUME NEW t, Sound(t), NEW list \in Seq(EID), IsInjective(list)
    PROVE  /\ Framed(t, [t EXCEPT !.quick = list])
           /\ [t EXCEPT !.quick = list].quick = list
  <1>1. PICK s : s = [t EXCEPT !.quick = list]
    OBVIOUS
  <1>2. /\ Sound(s) /\ s.quick = list /\ s.conn = t.conn /\ s.index = t.index
        /\ s.userRoom = t.userRoom /\ s.room = t.room /\ s.pool = t.pool
    BY <1>1, QuickSound
  <1>3. s.up = t.up
    BY <1>1, QuickSound
  <1>4. QED
    BY <1>1, <1>2, <1>3 DEF Framed

\* quick 9: somebody leaves the waiting list.
LEMMA QuickLeaveKeeps ==
    ASSUME NEW t, Sound(t), NEW e,
           NEW s, s = [t EXCEPT !.quick = RemoveFirst(t.quick, e)]
    PROVE  TablesKept(t, s) /\ UsersKept(t, s) /\ GamesKept(t, s)
  <1>1. t.quick \in Seq(EID) /\ IsInjective(t.quick)
    BY Entries DEF Sound
  <1>2. PICK list : list = RemoveFirst(t.quick, e)
    OBVIOUS
  <1>3. /\ list \in Seq(EID) /\ IsInjective(list)
        /\ ToSet(list) \subseteq ToSet(t.quick) /\ Len(list) <= Len(t.quick)
    BY <1>1, <1>2, RemoveOnce
  <1>4. Framed(t, s) /\ s.quick = list
    BY <1>2, <1>3, QuickFramed
  <1>5. /\ \A d \in CID : IdleAt(t, d) => IdleAt(s, d)
        /\ AllAlive(t) => AllAlive(s)
        /\ GamesKept(t, s)
    BY <1>4, FramedKeeps
  <1>6. WaitersOnline(t) => WaitersOnline(s)
    BY <1>3, <1>4 DEF WaitersOnline, Framed
  <1>7. Len(t.quick) <= 1 => Len(list) <= 1
    <2>1. Len(list) \in Nat /\ Len(t.quick) \in Nat
      BY <1>1, <1>3
    <2>2. QED
      BY <1>3, <2>1
  <1>8. Sound(s)
    BY <1>4 DEF Framed
  <1>9. TablesKept(t, s)
    BY <1>4, <1>5, <1>7, <1>8 DEF TablesKept
  <1>10. QED
    BY <1>5, <1>6, <1>9 DEF UsersKept

\* quick: e, who is connected, is on the list; then those on it are paired.
LEMMA QuickGameKeeps ==
    ASSUME NEW t, Sound(t), NEW c \in CID, NEW e \in EID, t.conn[c].eid = e,
           NEW m, m = [t EXCEPT !.quick = IF e \in ToSet(t.quick) THEN t.quick
                                          ELSE Append(t.quick, e)],
           NEW k \in 0 .. Len(t.quick), NEW ai \in AI, NEW ok,
           NEW s, s = QuickMatch(m, k, ai, ok)
    PROVE  TablesKept(t, s) /\ UsersKept(t, s) /\ GamesKept(t, s)
  <1>1. t.quick \in Seq(EID) /\ IsInjective(t.quick)
    BY Entries DEF Sound
  <1>2. PICK list : list = IF e \in ToSet(t.quick) THEN t.quick ELSE Append(t.quick, e)
    OBVIOUS
  <1>3. /\ list \in Seq(EID) /\ IsInjective(list)
        /\ ToSet(list) \subseteq ToSet(t.quick) \cup {e} /\ k \in 0 .. Len(list)
    <2>1. CASE e \in ToSet(t.quick)
      BY <1>1, <1>2, <2>1
    <2>2. CASE e \notin ToSet(t.quick)
      <3>1. /\ list \in Seq(EID) /\ IsInjective(list)
            /\ ToSet(list) = ToSet(t.quick) \cup {e} /\ Len(list) = Len(t.quick) + 1
        BY <1>1, <1>2, <2>2, AppendNew
      <3>2. QED
        BY <1>1, <3>1
    <2>3. QED
      BY <2>1, <2>2
  <1>4. Framed(t, m) /\ m.quick = list
    BY <1>2, <1>3, QuickFramed
  <1>5. Sound(m) /\ m.room = t.room /\ \A d \in CID : m.conn[d].eid = t.conn[d].eid
    BY <1>4 DEF Framed
  <1>6. /\ \A d \in CID : IdleAt(t, d) => IdleAt(m, d)
        /\ AllAlive(t) => AllAlive(m)
        /\ GamesKept(t, m)
    BY <1>4, FramedKeeps
  <1>7. Matched(m, s)
    <2>1. k \in 0 .. Len(m.quick)
      BY <1>3, <1>4
    <2>2. Matched(m, QuickMatch(m, k, ai, ok))
      BY <1>5, <2>1, QuickMatchIs
    <2>3. QED
      BY <2>2
  <1>8. TablesKept(t, s)
    BY <1>6, <1>7 DEF Matched, TablesKept
  <1>9. ASSUME WaitersOnline(t) PROVE WaitersOnline(s)
    <2>1. ToSet(s.quick) \subseteq ToSet(t.quick) \cup {e}
      <3>1. ToSet(s.quick) \subseteq ToSet(m.quick) /\ m.quick = list
        BY <1>4, <1>7 DEF Matched
      <3>2. QED
        BY <1>3, <3>1
    <2>2. \A d \in CID : s.conn[d].eid = t.conn[d].eid
      BY <1>5, <1>7 DEF Matched
    <2>3. ASSUME NEW x \in ToSet(s.quick) PROVE \E d \in CID : s.conn[d].eid = x
      <3>1. CASE x = e
        <4>1. s.conn[c].eid = x
          BY <2>2, <3>1
        <4>2. QED
          BY <4>1
      <3>2. CASE x # e
        <4>1. x \in ToSet(t.quick)
          BY <2>1, <2>3, <3>2
        <4>2. PICK d \in CID : t.conn[d].eid = x
          BY <1>9, <4>1 DEF WaitersOnline
        <4>3. QED
          BY <2>2, <4>2
      <3>3. QED
        BY <3>1, <3>2
    <2>4. QED
      BY <2>3 DEF WaitersOnline
  <1>10. UsersKept(t, s)
    BY <1>6, <1>7, <1>9 DEF Matched, UsersKept
  <1>11. ASSUME GamesOK(t) PROVE GamesOK(s) /\ SamePlayers(t, s)
    <2>1. GamesOK(s)
      BY <1>6, <1>7, <1>11 DEF GamesKept, Matched
    <2>2. ASSUME NEW r \in ROOM, t.room[r].lua PROVE s.room[r] = t.room[r]
      <3>1. RoomAt(t, r)
        BY DEF Sound
      <3>2. t.room[r].state # 0
        BY <2>2, <3>1 DEF RoomAt, ST_GAME
      <3>3. QED
        BY <1>5, <1>7, <3>2 DEF Matched
    <2>3. SamePlayers(t, s)
      BY <2>2 DEF SamePlayers, Seat
    <2>4. QED
      BY <2>1, <2>3
  <1>12. QED
    BY <1>8, <1>10, <1>11 DEF GamesKept

\* auto_quick_match(): those on the list are paired.
LEMMA QuickMatchKeeps ==
    ASSUME NEW t, Sound(t), NEW k \in 0 .. Len(t.quick), NEW ai \in AI, NEW ok,
           NEW s, s = QuickMatch(t, k, ai, ok)
    PROVE  TablesKept(t, s) /\ UsersKept(t, s) /\ GamesKept(t, s)
  <1>1. Matched(t, s)
    BY QuickMatchIs
  <1>2. TablesKept(t, s)
    BY <1>1 DEF Matched, TablesKept
  <1>3. UsersKept(t, s)
    BY <1>1 DEF Matched, UsersKept, WaitersOnline
  <1>4. ASSUME GamesOK(t) PROVE GamesOK(s) /\ SamePlayers(t, s)
    <2>1. ASSUME NEW r \in ROOM, t.room[r].lua PROVE s.room[r] = t.room[r]
      <3>1. RoomAt(t, r)
        BY DEF Sound
      <3>2. t.room[r].state # 0
        BY <2>1, <3>1 DEF RoomAt, ST_GAME
      <3>3. QED
        BY <1>1, <3>2 DEF Matched
    <2>2. SamePlayers(t, s)
      BY <2>1 DEF SamePlayers, Seat
    <2>3. QED
      BY <1>1, <1>4, <2>2 DEF Matched
  <1>5. QED
    BY <1>2, <1>3, <1>4 DEF GamesKept

\* A game is on in room r, and nobody has moved.
Started(t, r, s) ==
    /\ Sound(s) /\ s.quick = t.quick
    /\ \A d \in CID : /\ s.conn[d].eid = t.conn[d].eid
                      /\ IdleAt(t, d) => IdleAt(s, d)
                      /\ t.conn[d].eid # NoEid => s.conn[d].room = t.conn[d].room
    /\ \A q \in ROOM \ {r} : s.room[q] = t.room[q]
    /\ s.room[r].state = ST_GAME /\ s.room[r].off = t.room[r].off
    /\ s.room[r].guest = t.room[r].guest

\* The start of a game between two guests.
LEMMA StartedKeeps ==
    ASSUME NEW t, Sound(t), NEW r \in ROOM, Len(t.room[r].guest) >= 2,
           NEW s, Started(t, r, s)
    PROVE  TablesKept(t, s) /\ UsersKept(t, s) /\ GamesKept(t, s)
  <1>1. Sound(s) /\ \A d \in CID : s.conn[d].eid = t.conn[d].eid
    BY DEF Started
  <1>2. TablesKept(t, s)
    BY DEF Started, TablesKept
  <1>3. UsersKept(t, s)
    <2>1. WaitersOnline(t) => WaitersOnline(s)
      BY DEF Started, WaitersOnline
    <2>2. ASSUME AllAlive(t), NEW q \in ROOM, s.room[q].state = ST_ROOM PROVE Alive(s, q)
      <3>1. q # r
        BY <2>2 DEF Started, ST_ROOM, ST_GAME
      <3>2. PICK d \in CID : t.conn[d].eid # NoEid /\ t.conn[d].room = q
        BY <2>2, <3>1 DEF Started, AllAlive, Alive
      <3>3. QED
        BY <3>2 DEF Started, Alive
    <2>3. QED
      BY <2>1, <2>2 DEF UsersKept, AllAlive
  <1>4. GamesKept(t, s)
    <2>1. \A x : (Online(s, x) <=> Online(t, x))
      BY <1>1, SameOnline
    <2>2. ASSUME NEW q \in ROOM, s.room[q] = t.room[q] PROVE NoGameYet(t, s, q) \/ GoesOn(t, s, q)
      <3>1. \A i \in 1 .. 2 : Seat(s, q, i) = Seat(t, q, i)
        BY <2>2 DEF Seat
      <3>2. QED
        BY <2>1, <2>2, <3>1 DEF NoGameYet, GoesOn
    <2>3. NoGameYet(t, s, r) \/ GoesOn(t, s, r)
      <3>1. \A i \in 1 .. 2 : Seat(s, r, i) = Seat(t, r, i)
        BY DEF Started, Seat
      <3>2. CASE t.room[r].state = ST_GAME
        BY <2>1, <3>1, <3>2 DEF Started, GoesOn
      <3>3. CASE t.room[r].state # ST_GAME
        BY <3>3 DEF Started, NoGameYet
      <3>4. QED
        BY <3>2, <3>3
    <2>4. \A q \in ROOM \ {r} : s.room[q] = t.room[q]
      BY DEF Started
    <2>5. QED
      BY <1>1, <2>2, <2>3, <2>4, GamesStay
  <1>5. QED
    BY <1>2, <1>3, <1>4

\* The tables after the start, whatever was told to the guests of r.
LEMMA StartedSound ==
    ASSUME NEW t, Sound(t), NEW r \in ROOM, t.room[r].state # 0,
           NEW s \in Tables, s.index = t.index, s.quick = t.quick, s.pool = t.pool,
           s.userRoom = t.userRoom,
           \A q \in ROOM \ {r} : s.room[q] = t.room[q],
           s.room[r].state = ST_GAME, s.room[r].off = t.room[r].off,
           s.room[r].guest = t.room[r].guest,
           \A d \in CID :
             /\ s.conn[d].eid = t.conn[d].eid /\ s.conn[d].room = t.conn[d].room
             /\ (s.conn[d].up = t.conn[d].up)
             /\ \/ s.conn[d].st = t.conn[d].st /\ (s.room[r].lua => t.room[r].lua)
                \/ t.conn[d].eid # NoEid /\ t.conn[d].room = r /\ s.conn[d].st = ST_GAME
                \/ (t.conn[d].eid = NoEid \/ t.conn[d].room # r) /\ s.conn[d].st = t.conn[d].st
    PROVE  Started(t, r, s)
  <1>1. /\ t \in Tables /\ IsInjective(t.quick) /\ RoomAt(t, r)
        /\ \A d \in CID : SessionAt(t, d)
        /\ \A ch \in Channel : PoolAt(t, ch) /\ ch \subseteq ROOM
    BY Indices DEF Sound
  <1>2. PICK G : G = {}
    OBVIOUS
  <1>3. RoomAt(s, r)
    BY <1>1 DEF RoomAt, ST_GAME
  <1>4. ASSUME NEW ch \in Channel PROVE PoolAt(s, ch)
    <2>1. {q \in ch : s.room[q].state = 0} = {q \in ch : t.room[q].state = 0}
      <3>1. \A q \in ch : s.room[q].state = 0 <=> t.room[q].state = 0
        BY <1>1 DEF ST_GAME
      <3>2. QED
        BY <3>1
    <2>2. QED
      BY <1>1, <2>1 DEF PoolAt
  <1>5. ASSUME NEW d \in CID, t.conn[d].eid # NoEid
        PROVE  \/ /\ t.conn[d].room = r /\ s.conn[d].room = r /\ s.conn[d].st # ST_NULL
                  /\ s.room[r].state = ST_ROOM => s.conn[d].st = ST_ROOM
                  /\ s.room[r].lua => s.conn[d].st = ST_GAME
               \/ /\ t.conn[d].room # r
                  /\ s.conn[d].room = t.conn[d].room /\ s.conn[d].st = t.conn[d].st
    <2>1. CASE t.conn[d].room = r
      <3>1. t.conn[d].st # ST_NULL /\ (t.room[r].lua => t.conn[d].st = ST_GAME)
        BY <1>1, <1>5, <2>1, Indices DEF SessionAt
      <3>2. s.room[r].state # ST_ROOM
        BY DEF ST_ROOM, ST_GAME
      <3>3. s.conn[d].room = r /\ s.conn[d].st # ST_NULL /\ (s.room[r].lua => s.conn[d].st = ST_GAME)
        BY <1>5, <2>1, <3>1 DEF ST_NULL, ST_GAME
      <3>4. QED
        BY <2>1, <3>2, <3>3
    <2>2. CASE t.conn[d].room # r
      BY <1>5, <2>2
    <2>3. QED
      BY <2>1, <2>2
  <1>6. \A d \in CID :
          /\ s.conn[d].eid = t.conn[d].eid
          /\ t.conn[d].eid # NoEid =>
               /\ (s.conn[d].up = t.conn[d].up)
               /\ \/ /\ t.conn[d].eid \in G \/ t.conn[d].room = r
                     /\ s.conn[d].room = r /\ s.conn[d].st # ST_NULL
                     /\ s.room[r].state = ST_ROOM => s.conn[d].st = ST_ROOM
                     /\ s.room[r].lua => s.conn[d].st = ST_GAME
                  \/ /\ ~(t.conn[d].eid \in G \/ t.conn[d].room = r)
                     /\ s.conn[d].room = t.conn[d].room /\ s.conn[d].st = t.conn[d].st
    BY <1>2, <1>5
  <1>7. /\ ToSet(s.room[r].guest) = ToSet(t.room[r].guest) \cup G
        /\ \A e \in EID : s.userRoom[e] = IF e \in G THEN r ELSE t.userRoom[e]
        /\ \A e \in EID : e \in G => t.userRoom[e] \in {NoRoom, r}
    BY <1>2
  <1>8. Seated(t, r, G, s)
    BY <1>1, <1>3, <1>4, <1>6, <1>7 DEF Seated
  <1>9. Sound(s)
    BY <1>8, SeatSound
  <1>10. ASSUME NEW d \in CID, IdleAt(t, d) PROVE IdleAt(s, d)
    BY <1>10 DEF IdleAt
  <1>11. QED
    BY <1>9, <1>10 DEF Started

\* The first thing out_game() does: the state of the room.
LEMMA GameOn ==
    ASSUME NEW t, Sound(t), NEW r \in ROOM, t.room[r].state # 0,
           NEW s, s = [t EXCEPT !.room[r].state = ST_GAME]
    PROVE  /\ Started(t, r, s) /\ s.conn = t.conn /\ (s.room[r].lua = t.room[r].lua)
           /\ s.index = t.index /\ s.pool = t.pool /\ s.userRoom = t.userRoom
  <1>1. t \in Tables /\ t.room \in [ROOM -> RoomRec] /\ t.room[r] \in RoomRec
    BY DEF Sound, Tables
  <1>2. PICK rec : rec = [t.room[r] EXCEPT !.state = ST_GAME]
    OBVIOUS
  <1>3. /\ rec \in RoomRec /\ rec.state = ST_GAME /\ rec.guest = t.room[r].guest
        /\ rec.off = t.room[r].off
    BY <1>1, <1>2 DEF RoomRec, ST_GAME
  <1>4. rec.lua = t.room[r].lua
    BY <1>1, <1>2 DEF RoomRec, ST_GAME
  <1>5. PICK room1 : room1 = [t.room EXCEPT ![r] = rec]
    OBVIOUS
  <1>6. room1 \in [ROOM -> RoomRec] /\ room1[r] = rec /\ \A q \in ROOM \ {r} : room1[q] = t.room[q]
    BY <1>1, <1>3, <1>5
  <1>7. s = [t EXCEPT !.room = room1]
    BY <1>1, <1>2, <1>5 DEF Tables
  <1>8. /\ s \in Tables /\ s.conn = t.conn /\ s.index = t.index /\ s.userRoom = t.userRoom
        /\ s.room = room1 /\ s.pool = t.pool /\ s.quick = t.quick
    BY <1>1, <1>6, <1>7 DEF Tables
  <1>9. s.room[r].lua = t.room[r].lua
    BY <1>4, <1>6, <1>8
  <1>10. Started(t, r, s)
    BY <1>3, <1>6, <1>8, <1>9, StartedSound
  <1>11. QED
    BY <1>8, <1>9, <1>10

\* The tables of out_game() once game_init() has made the game VM.
VmOn(t, m, r) ==
    [m EXCEPT !.room[r].lua = TRUE,
              !.conn = [c \in CID |-> IF \E e \in Guests(t, r) : ConnOf(t, e) = c
                                      THEN [m.conn[c] EXCEPT !.st = ST_GAME] ELSE m.conn[c]]]

\* The tables after game_init() are those of a started game.
LEMMA VmOnStarts ==
    ASSUME NEW t, Sound(t), NEW r \in ROOM, t.room[r].state # 0,
           NEW m, Started(t, r, m), m.conn = t.conn,
           m.index = t.index, m.pool = t.pool, m.userRoom = t.userRoom,
           NEW s, s = VmOn(t, m, r)
    PROVE  Started(t, r, s)
  <1>1. /\ t \in Tables /\ t.conn \in [CID -> Conns] /\ m.quick = t.quick
        /\ \A d \in CID : SessionAt(t, d)
        /\ m \in Tables /\ m.room \in [ROOM -> RoomRec] /\ m.room[r] \in RoomRec
    BY DEF Sound, Tables, Started
  <1>2. /\ \A q \in ROOM \ {r} : m.room[q] = t.room[q]
        /\ m.room[r].state = ST_GAME /\ m.room[r].off = t.room[r].off
        /\ m.room[r].guest = t.room[r].guest
    BY DEF Started
  <1>3. PICK rec : rec = [m.room[r] EXCEPT !.lua = TRUE]
    OBVIOUS
  <1>4. /\ rec \in RoomRec /\ rec.state = ST_GAME /\ rec.guest = t.room[r].guest
        /\ rec.off = t.room[r].off
    BY <1>1, <1>2, <1>3 DEF RoomRec
  <1>5. PICK room1 : room1 = [m.room EXCEPT ![r] = rec]
    OBVIOUS
  <1>6. room1 \in [ROOM -> RoomRec] /\ room1[r] = rec /\ \A q \in ROOM \ {r} : room1[q] = t.room[q]
    BY <1>1, <1>2, <1>4, <1>5
  <1> DEFINE k(d) == [t.conn[d] EXCEPT !.st = ST_GAME]
             told(d) == \E e \in Guests(t, r) : ConnOf(t, e) = d
  <1>7. PICK conn1 : conn1 = [d \in CID |-> IF told(d) THEN k(d) ELSE t.conn[d]]
    OBVIOUS
  <1>8. ASSUME NEW d \in CID
        PROVE  /\ k(d) \in Conns /\ k(d).eid = t.conn[d].eid /\ k(d).room = t.conn[d].room
               /\ k(d).st = ST_GAME
    BY <1>1 DEF Conns, ST_GAME
  <1>9. ASSUME NEW d \in CID PROVE k(d).up = t.conn[d].up
    BY <1>1 DEF Conns, ST_GAME
  <1>10. ASSUME NEW d \in CID
         PROVE  told(d) <=> t.conn[d].eid # NoEid /\ t.conn[d].room = r
    <2>1. told(d) <=> \E e \in ToSet(t.room[r].guest) : e \in EID /\ t.conn[d].eid = e
      BY <1>1, WhereIs DEF Guests
    <2>2. t.conn[d].eid \in EID \cup {NoEid} /\ NoEid \notin EID
      BY <1>1, Entries, Indices
    <2>3. told(d) <=> t.conn[d].eid # NoEid /\ t.conn[d].eid \in ToSet(t.room[r].guest)
      BY <2>1, <2>2
    <2>4. t.conn[d].eid # NoEid => (t.conn[d].eid \in ToSet(t.room[r].guest) <=> t.conn[d].room = r)
      BY <1>1, <2>2 DEF Sound, SeatAt, SessionAt
    <2>5. QED
      BY <2>3, <2>4
  <1>11. s = [m EXCEPT !.room = room1, !.conn = conn1]
    <2>1. conn1 = [c \in CID |-> IF \E e \in Guests(t, r) : ConnOf(t, e) = c
                                 THEN [m.conn[c] EXCEPT !.st = ST_GAME] ELSE m.conn[c]]
      BY <1>7
    <2>2. QED
      BY <1>1, <1>3, <1>5, <2>1 DEF VmOn, Tables
  <1> HIDE DEF k, told
  <1>12. conn1 \in [CID -> Conns]
    BY <1>1, <1>7, <1>8
  <1>13. ASSUME NEW d \in CID
         PROVE  /\ conn1[d].eid = t.conn[d].eid /\ conn1[d].room = t.conn[d].room
                /\ (conn1[d].up = t.conn[d].up)
                /\ \/ t.conn[d].eid # NoEid /\ t.conn[d].room = r /\ conn1[d].st = ST_GAME
                   \/ (t.conn[d].eid = NoEid \/ t.conn[d].room # r) /\ conn1[d].st = t.conn[d].st
    <2>1. CASE told(d)
      <3>1. conn1[d] = k(d)
        BY <1>7, <2>1
      <3>2. QED
        BY <1>8, <1>9, <1>10, <2>1, <3>1
    <2>2. CASE ~told(d)
      <3>1. conn1[d] = t.conn[d]
        BY <1>7, <2>2
      <3>2. QED
        BY <1>10, <2>2, <3>1
    <2>3. QED
      BY <2>1, <2>2
  <1>14. /\ s \in Tables /\ s.conn = conn1 /\ s.index = t.index /\ s.userRoom = t.userRoom
         /\ s.room = room1 /\ s.pool = t.pool /\ s.quick = t.quick
    BY <1>1, <1>6, <1>11, <1>12 DEF Tables
  <1>15. QED
    BY <1>4, <1>6, <1>13, <1>14, StartedSound

\* error_game: the room is destroyed or left.
LEMMA ErrorGameIs ==
    ASSUME NEW t, Sound(t), NEW r, NEW s, s = ErrorGame(t, r)
    PROVE  /\ Calm(t, s)
           /\ \A q \in ROOM : s.room[q] = t.room[q] \/ s.room[q] = FreeRoomRec
  <1>1. CASE r \in QuickRooms /\ t.room[r].state # 0
    <2>1. r \in ROOM
      BY <1>1 DEF ROOM
    <2>2. s = FreeRoom(t, r)
      BY <1>1 DEF ErrorGame
    <2>3. RoomFreed(t, r, s)
      BY <1>1, <2>1, <2>2, FreeRoomIs
    <2>4. QED
      BY <1>1, <2>1, <2>3, FreedCalm
  <1>2. CASE ~(r \in QuickRooms /\ t.room[r].state # 0)
    <2>1. s = t
      BY <1>2 DEF ErrorGame, FreeRoom
    <2>2. QED
      BY <2>1, CalmSelf
  <1>3. QED
    BY <1>1, <1>2

\* A failed start.
LEMMA ErrorGameKeeps ==
    ASSUME NEW t, Sound(t), NEW r, NEW s, s = ErrorGame(t, r)
    PROVE  TablesKept(t, s) /\ UsersKept(t, s) /\ GamesKept(t, s)
  <1>1. /\ Calm(t, s)
        /\ \A q \in ROOM : s.room[q] = t.room[q] \/ s.room[q] = FreeRoomRec
    BY ErrorGameIs
  <1>2. TablesKept(t, s) /\ UsersKept(t, s)
    BY <1>1, CalmKeeps
  <1>3. SamePlayers(t, s)
    BY <1>1, NewRoomRec DEF SamePlayers, Seat
  <1>4. QED
    BY <1>1, <1>2, <1>3 DEF GamesKept, Calm

\* Two users in one room are two guests of it.
LEMMA TwoGuests ==
    ASSUME NEW t, Sound(t), NEW e1 \in EID, NEW e2 \in EID, e1 # e2,
           NEW r, r = t.userRoom[e1], r = t.userRoom[e2], r # NoRoom
    PROVE  r \in ROOM /\ t.room[r].state # 0 /\ Len(t.room[r].guest) >= 2
  <1>1. /\ t \in Tables /\ \A q \in ROOM : RoomAt(t, q)
        /\ \A q \in ROOM, u \in EID : SeatAt(t, q, u)
    BY DEF Sound
  <1>2. r \in ROOM
    BY <1>1, Entries
  <1>3. /\ e1 \in ToSet(t.room[r].guest) /\ e2 \in ToSet(t.room[r].guest)
        /\ t.room[r].guest \in Seq(EID \cup AI)
    BY <1>1, <1>2, Entries DEF SeatAt
  <1>4. PICK i, j \in 1 .. Len(t.room[r].guest) :
          e1 = t.room[r].guest[i] /\ e2 = t.room[r].guest[j]
    BY <1>3, Places
  <1>5. PICK n \in Nat : n = Len(t.room[r].guest)
    BY <1>3
  <1>6. Len(t.room[r].guest) >= 2
    <2>1. i # j /\ i \in 1 .. n /\ j \in 1 .. n
      BY <1>4, <1>5
    <2>2. n >= 2
      BY <2>1
    <2>3. QED
      BY <1>5, <2>2
  <1>7. t.room[r].state # 0
    <2>1. Len(FreeRoomRec.guest) = 0
      BY NewRoomRec
    <2>2. QED
      BY <1>1, <1>2, <1>6, <2>1 DEF RoomAt
  <1>8. QED
    BY <1>2, <1>6, <1>7

\* out_game() with both decks.
LEMMA StartGameKeeps ==
    ASSUME NEW t, Sound(t), NEW r \in ROOM, t.room[r].state # 0, Len(t.room[r].guest) >= 2,
           NEW ok, NEW s, s = StartGame(t, r, ok)
    PROVE  TablesKept(t, s) /\ UsersKept(t, s) /\ GamesKept(t, s)
  <1>1. PICK m : m = [t EXCEPT !.room[r].state = ST_GAME]
    OBVIOUS
  <1>2. /\ Started(t, r, m) /\ m.conn = t.conn /\ (m.room[r].lua = t.room[r].lua)
        /\ m.index = t.index /\ m.pool = t.pool /\ m.userRoom = t.userRoom
    BY <1>1, GameOn
  <1>3. Sound(m) /\ TablesKept(t, m) /\ UsersKept(t, m) /\ GamesKept(t, m)
    BY <1>2, StartedKeeps DEF Started
  <1>4. CASE t.room[r].lua \/ ~ok
    <2>1. s = ErrorGame(m, r)
      BY <1>1, <1>4 DEF StartGame
    <2>2. TablesKept(m, s) /\ UsersKept(m, s) /\ GamesKept(m, s)
      BY <1>3, <2>1, ErrorGameKeeps
    <2>3. TablesKept(t, s) /\ UsersKept(t, s)
      BY <1>3, <2>2 DEF TablesKept, UsersKept
    <2>4. ASSUME NEW q \in ROOM, t.room[q].lua, s.room[q].lua, GamesOK(t), NEW i \in 1 .. 2
          PROVE  Seat(t, q, i) = Seat(s, q, i)
      <3>1. s.room[q] = m.room[q] \/ s.room[q] = FreeRoomRec
        BY <1>3, <2>1, ErrorGameIs
      <3>2. s.room[q] = m.room[q]
        BY <2>4, <3>1, NewRoomRec
      <3>3. m.room[q].lua
        BY <2>4, <3>2
      <3>4. Seat(t, q, i) = Seat(m, q, i)
        BY <1>3, <2>4, <3>3 DEF GamesKept, SamePlayers
      <3>5. QED
        BY <3>2, <3>4 DEF Seat
    <2>5. GamesKept(t, s)
      BY <1>3, <2>2, <2>4 DEF GamesKept, SamePlayers
    <2>6. QED
      BY <2>3, <2>5
  <1>5. CASE ~(t.room[r].lua \/ ~ok)
    <2>1. s = VmOn(t, m, r)
      <3>1. m.conn = t.conn
        BY <1>2
      <3>2. s = [m EXCEPT !.room[r].lua = TRUE,
                   !.conn = [c \in CID |-> IF \E e \in Guests(t, r) : ConnOf(t, e) = c
                                           THEN [m.conn[c] EXCEPT !.st = ST_GAME] ELSE m.conn[c]]]
        BY <1>1, <1>5 DEF StartGame
      <3>3. QED
        BY <3>2 DEF VmOn
    <2>2. Started(t, r, VmOn(t, m, r))
      BY <1>2, VmOnStarts
    <2>3. Started(t, r, s)
      BY <2>1, <2>2
    <2>4. QED
      BY <2>3, StartedKeeps
  <1>6. QED
    BY <1>4, <1>5

\* out_game(): r1 and r2 are the rooms of the two users, r0 that of the
\* connection.
OutGame(m, r0, r1, r2, ok) ==
    IF r1 # r2 \/ r1 = NoRoom THEN ErrorGame(m, r0) ELSE StartGame(m, r1, ok)

\* The reply to a "game" request for two users.
LEMMA ReplyKeeps ==
    ASSUME NEW t, Sound(t), NEW m, Framed(t, m), m.quick = t.quick,
           NEW e1 \in EID, NEW e2 \in EID, e1 # e2, NEW r0, NEW ok,
           NEW r1, r1 = t.userRoom[e1], NEW r2, r2 = t.userRoom[e2],
           NEW s, s = OutGame(m, r0, r1, r2, ok)
    PROVE  TablesKept(t, s) /\ UsersKept(t, s) /\ GamesKept(t, s)
  <1> USE DEF OutGame
  <1>1. m.quick = t.quick /\ Sound(m) /\ m.userRoom = t.userRoom
    BY DEF Framed
  <1>2. TablesKept(m, s) /\ UsersKept(m, s) /\ GamesKept(m, s)
    <2>1. CASE r1 # r2 \/ r1 = NoRoom
      BY <1>1, <2>1, ErrorGameKeeps
    <2>2. CASE ~(r1 # r2 \/ r1 = NoRoom)
      <3>1. r1 \in ROOM /\ m.room[r1].state # 0 /\ Len(m.room[r1].guest) >= 2
        BY <1>1, <2>2, TwoGuests
      <3>2. s = StartGame(m, r1, ok)
        BY <2>2
      <3>3. QED
        BY <1>1, <3>1, <3>2, StartGameKeeps
    <2>3. QED
      BY <2>1, <2>2
  <1>3. /\ TablesKept(m, s) => TablesKept(t, s)
        /\ UsersKept(m, s) => UsersKept(t, s)
        /\ GamesKept(m, s) => GamesKept(t, s)
    <2>1. PICK u : u = s
      OBVIOUS
    <2>2. /\ TablesKept(m, u) => TablesKept(t, u)
          /\ UsersKept(m, u) => UsersKept(t, u)
          /\ GamesKept(m, u) => GamesKept(t, u)
      BY <1>1, FramedThen
    <2>3. QED
      BY <2>1, <2>2
  <1>4. QED
    BY <1>2, <1>3

----------------------------------------------------------------------------
(* The steps of the main loop.                                             *)

\* The tables the server starts with.
LEMMA BootSound == Sound(Boot) /\ \A c \in CID : IdleAt(Boot, c)
  <1>1. ASSUME NEW ch \in Channel
        PROVE  /\ InOrder(ch) \in Seq(ch) /\ IsInjective(InOrder(ch)) /\ ToSet(InOrder(ch)) = ch
               /\ InOrder(ch) \in Seq(ROOM) /\ ch \subseteq ROOM
    <2>1. ch \in SUBSET Nat /\ IsFiniteSet(ch)
      BY LobbyAssumption DEF Channel
    <2>2. InOrder(ch) \in Seq(ch) /\ IsInjective(InOrder(ch)) /\ ToSet(InOrder(ch)) = ch
      BY <2>1, InOrderList
    <2>3. ch \subseteq ROOM
      BY Indices
    <2>4. QED
      BY <2>2, <2>3
  <1>2. PICK lists : lists = [ch \in Channel |-> InOrder(ch)]
    OBVIOUS
  <1>3. lists \in [Channel -> Seq(ROOM)] /\ \A ch \in Channel : lists[ch] = InOrder(ch)
    BY <1>1, <1>2
  <1>4. PICK rec : rec = FreeRoomRec
    OBVIOUS
  <1>5. PICK slot : slot = FreeSlot
    OBVIOUS
  <1>6. PICK s : s = [up |-> TRUE, conn |-> [c \in CID |-> slot], index |-> [e \in EID |-> 0],
                      userRoom |-> [e \in EID |-> NoRoom], room |-> [r \in ROOM |-> rec],
                      pool |-> lists, quick |-> <<>>]
    OBVIOUS
  <1>7. s = Boot
    BY <1>2, <1>4, <1>5, <1>6 DEF Boot
  <1>8. /\ rec \in RoomRec /\ rec.guest = <<>> /\ rec.lua = FALSE /\ rec.state = 0
        /\ slot \in Conns /\ slot.eid = NoEid /\ slot.room = NoRoom /\ slot.st = ST_NULL
    BY <1>4, <1>5, NewRoomRec, EmptySlots
  <1>9. /\ s \in Tables
        /\ \A c \in CID : s.conn[c] = slot
        /\ \A r \in ROOM : s.room[r] = rec
        /\ \A e \in EID : s.userRoom[e] = NoRoom
        /\ s.pool = lists /\ s.quick = <<>>
    BY <1>3, <1>6, <1>8, Indices DEF Tables
  <1>10. \A c \in CID : SessionAt(s, c) /\ IdleAt(s, c)
    BY <1>8, <1>9 DEF SessionAt, IdleAt
  <1>11. IsInjective(<<>>) /\ ToSet(<<>>) = {} /\ Len(<<>>) <= MAX_GUEST
    BY LobbyAssumption DEF IsInjective, ToSet
  <1>12. \A r \in ROOM : RoomAt(s, r)
    BY <1>4, <1>8, <1>9, <1>11 DEF RoomAt
  <1>13. \A r \in ROOM, e \in EID : SeatAt(s, r, e)
    BY <1>8, <1>9, <1>11, Indices DEF SeatAt
  <1>14. ASSUME NEW ch \in Channel PROVE PoolAt(s, ch)
    <2>1. {r \in ch : s.room[r].state = 0} = ch
      BY <1>1, <1>8, <1>9
    <2>2. QED
      BY <1>1, <1>3, <1>9, <2>1 DEF PoolAt
  <1>15. Sound(s)
    BY <1>9, <1>10, <1>11, <1>12, <1>13, <1>14 DEF Sound
  <1>16. QED
    BY <1>7, <1>10, <1>15

\* What a handler has to keep, whatever may go wrong in this run.
Handled(t, s) ==
    /\ TablesKept(t, s)
    /\ "send_error" \notin Faults => UsersKept(t, s)
    /\ "self_kick" \notin Faults => GamesKept(t, s)

\* A new process, whatever the tables were.
LEMMA BootHandled ==
    ASSUME NEW t
    PROVE  Handled(t, Boot)
  <1>1. Sound(Boot) /\ \A c \in CID : IdleAt(Boot, c)
    BY BootSound
  <1>2. Boot.quick = <<>> /\ Len(<<>>) <= 1 /\ ToSet(<<>>) = {}
    BY DEF Boot, ToSet
  <1>3. \A r \in ROOM : Boot.room[r] = FreeRoomRec
    BY DEF Boot
  <1>4. TablesKept(t, Boot)
    BY <1>1, <1>2 DEF TablesKept
  <1>5. WaitersOnline(Boot)
    BY <1>2 DEF WaitersOnline
  <1>6. AllAlive(Boot)
    BY <1>3, NewRoomRec DEF AllAlive, ST_ROOM
  <1>7. GamesOK(Boot)
    <2>1. TwoPlayers(Boot)
      BY <1>3, NewRoomRec DEF TwoPlayers, ST_GAME
    <2>2. TimerAway(Boot)
      BY <1>3, NewRoomRec DEF TimerAway
    <2>3. QED
      BY <2>1, <2>2 DEF GamesOK
  <1>8. SamePlayers(t, Boot)
    BY <1>3, NewRoomRec DEF SamePlayers
  <1>9. QED
    BY <1>4, <1>5, <1>6, <1>7, <1>8 DEF Handled, UsersKept, GamesKept

\* The "game" requests are for two different users.
PendingOK ==
    /\ pending \in Seq([cid : CID, eid1 : EID, eid2 : EID])
    /\ \A i \in 1 .. Len(pending) : pending[i].eid1 # pending[i].eid2

LInv ==
    /\ Sound(Now) /\ \A c \in CID : IdleAt(Now, c)
    /\ Len(quick) <= 1
    /\ PendingOK

\* Whose level is that of the lobby or higher is logged in.
LEMMA ReadyIs ==
    ASSUME NEW t, Sound(t), NEW c \in CID, IdleAt(t, c), NEW level \in {ST_LOGIN, ST_ROOM, ST_GAME},
           t.conn[c].st >= level
    PROVE  /\ t.conn[c].eid \in EID /\ t.conn[c].eid # NoEid
           /\ ConnOf(t, t.conn[c].eid) = c
           /\ t.conn[c].room # NoRoom =>
                t.conn[c].room \in ROOM /\ t.conn[c].eid \in ToSet(t.room[t.conn[c].room].guest)
  <1>1. /\ t \in Tables /\ \A d \in CID : SessionAt(t, d)
        /\ \A q \in ROOM, u \in EID : SeatAt(t, q, u)
    BY DEF Sound
  <1>2. t.conn[c].eid # NoEid
    BY DEF IdleAt, ST_NULL, ST_LOGIN, ST_ROOM, ST_GAME
  <1>3. t.conn[c].eid \in EID /\ t.conn[c].room \in ROOM \cup {NoRoom}
    BY <1>1, <1>2, Entries
  <1>4. ConnOf(t, t.conn[c].eid) = c
    BY <1>1, <1>3, WhereIs
  <1>5. t.conn[c].room = t.userRoom[t.conn[c].eid]
    BY <1>1, <1>2 DEF SessionAt
  <1>6. QED
    BY <1>1, <1>2, <1>3, <1>4, <1>5 DEF SeatAt

\* The steps of a connection's own commands.
LEMMA ConnSteps ==
    ASSUME LInv, NEW c \in CID, ConnStep(c)
    PROVE  \E s : Become(s) /\ Handled(Now, s)
  <1>1. PICK t : t = Now
    OBVIOUS
  <1>2. /\ Sound(t) /\ \A d \in CID : IdleAt(t, d)
        /\ t.conn = conn
    BY <1>1 DEF LInv, Now
  <1>3. ASSUME Connect(c) PROVE \E s : Become(s) /\ Handled(t, s)
    <2>1. PICK s : s = [t EXCEPT !.conn[c] = FreshConn]
      OBVIOUS
    <2>2. Become(s) /\ ~t.conn[c].up
      BY <1>1, <1>2, <1>3, <2>1 DEF Connect
    <2>3. Replaced(t, c, FreshConn, [t EXCEPT !.conn[c] = FreshConn])
      BY <1>2, ReplaceSound, EmptySlots
    <2>4. TablesKept(t, s) /\ UsersKept(t, s) /\ GamesKept(t, s)
      BY <1>2, <2>1, <2>2, <2>3, ConnectKeeps
    <2>5. QED
      BY <2>2, <2>4 DEF Handled
  <1>4. ASSUME Disconnect(c) PROVE \E s : Become(s) /\ Handled(t, s)
    <2>1. PICK s : s = DoCleanDisconnect(t, c)
      OBVIOUS
    <2>2. Become(s)
      BY <1>1, <1>4, <2>1 DEF Disconnect
    <2>3. Gone(t, c, DoCleanDisconnect(t, c))
      BY <1>2, DoCleanDisconnectIs
    <2>4. TablesKept(t, s) /\ UsersKept(t, s) /\ GamesKept(t, s)
      BY <1>2, <2>1, <2>3, DisconnectKeeps
    <2>5. QED
      BY <2>2, <2>4 DEF Handled
  <1>5. ASSUME SendError(c) PROVE \E s : Become(s) /\ Handled(t, s)
    <2>1. PICK s : s = [t EXCEPT !.conn[c] = FreeSlot]
      OBVIOUS
    <2>2. Become(s) /\ "send_error" \in Faults
      BY <1>1, <1>5, <2>1 DEF SendError, DoDisconnect
    <2>3. Replaced(t, c, FreeSlot, [t EXCEPT !.conn[c] = FreeSlot])
      BY <1>2, ReplaceSound, EmptySlots
    <2>4. TablesKept(t, s) /\ GamesKept(t, s)
      BY <1>2, <2>1, <2>3, SendErrorKeeps
    <2>5. QED
      BY <2>2, <2>4 DEF Handled
  <1>6. ASSUME Jam(c) PROVE \E s : Become(s) /\ Handled(t, s)
    <2>1. PICK s : s = [t EXCEPT !.conn[c].busy = FALSE]
      OBVIOUS
    <2>2. Become(s)
      BY <1>1, <1>6, <2>1 DEF Jam
    <2>3. Framed(t, s) /\ s.quick = t.quick
      BY <1>2, <2>1, BusyFramed
    <2>4. TablesKept(t, s) /\ UsersKept(t, s) /\ GamesKept(t, s)
      BY <1>2, <2>3, FramedKeeps
    <2>5. QED
      BY <2>2, <2>4 DEF Handled
  <1>7. ASSUME NEW e \in EID, Login(c, e) PROVE \E s : Become(s) /\ Handled(t, s)
    <2>1. PICK s : s = OutLogin(t, c, e)
      OBVIOUS
    <2>2. Become(s)
      BY <1>1, <1>7, <2>1 DEF Login
    <2>3. LoggedIn(t, c, e, OutLogin(t, c, e))
      BY <1>2, OutLoginIs
    <2>4. TablesKept(t, s) /\ UsersKept(t, s) /\ GamesKept(t, s)
      BY <1>2, <2>1, <2>3, LoginKeeps
    <2>5. QED
      BY <2>2, <2>4 DEF Handled
  <1>8. QED
    BY <1>1, <1>3, <1>4, <1>5, <1>6, <1>7 DEF ConnStep

\* The steps of the rooms.
LEMMA RoomSteps ==
    ASSUME LInv, NEW c \in CID, RoomStep(c)
    PROVE  \E s : Become(s) /\ Handled(Now, s)
  <1>1. PICK t : t = Now
    OBVIOUS
  <1>2. /\ Sound(t) /\ \A d \in CID : IdleAt(t, d)
        /\ t.conn = conn /\ t.room = room /\ t.pool = pool
    BY <1>1 DEF LInv, Now
  <1>3. ASSUME NEW level \in {ST_LOGIN, ST_ROOM, ST_GAME}, Ready(c, level)
        PROVE  /\ t.conn[c].eid \in EID /\ t.conn[c].eid # NoEid
               /\ ConnOf(t, t.conn[c].eid) = c
               /\ t.conn[c].room # NoRoom =>
                    t.conn[c].room \in ROOM /\ t.conn[c].eid \in ToSet(t.room[t.conn[c].room].guest)
    BY <1>2, <1>3, ReadyIs DEF Ready
  <1>4. ASSUME NEW ch \in Channel, RoomCreate(c, ch) PROVE \E s : Become(s) /\ Handled(t, s)
    <2>1. PICK r : r = Head(t.pool[ch])
      OBVIOUS
    <2>2. PICK s : s = DoRoomAdd(NewRoom(t, ch, r), r, c)
      OBVIOUS
    <2>3. Become(s) /\ t.pool[ch] # <<>> /\ Ready(c, ST_LOGIN) /\ t.conn[c].room = NoRoom
      BY <1>1, <1>2, <1>4, <2>1, <2>2 DEF RoomCreate
    <2>4. t.conn[c].eid # NoEid
      BY <1>3, <2>3
    <2>5. TablesKept(t, s) /\ UsersKept(t, s) /\ GamesKept(t, s)
      BY <1>2, <2>1, <2>2, <2>3, <2>4, CreateKeeps
    <2>6. QED
      BY <2>3, <2>5 DEF Handled
  <1>5. ASSUME NEW r \in ROOM, RoomJoin(c, r) PROVE \E s : Become(s) /\ Handled(t, s)
    <2>1. PICK s : s = DoRoomAdd(t, r, c)
      OBVIOUS
    <2>2. /\ Become(s) /\ Ready(c, ST_LOGIN) /\ t.conn[c].room = NoRoom
          /\ t.room[r].state # 0 /\ Len(t.room[r].guest) < MAX_GUEST
      BY <1>1, <1>2, <1>5, <2>1 DEF RoomJoin
    <2>3. t.conn[c].eid # NoEid
      BY <1>3, <2>2
    <2>4. Added(t, r, c, DoRoomAdd(t, r, c))
      BY <1>2, <2>2, <2>3, DoRoomAddIs
    <2>5. TablesKept(t, s) /\ UsersKept(t, s) /\ GamesKept(t, s)
      BY <1>2, <2>1, <2>2, <2>3, <2>4, AddKeeps
    <2>6. QED
      BY <2>2, <2>5 DEF Handled
  <1>6. ASSUME RoomLeave(c) PROVE \E s : Become(s) /\ Handled(t, s)
    <2>1. PICK r : r = t.conn[c].room
      OBVIOUS
    <2>2. PICK e : e = t.conn[c].eid
      OBVIOUS
    <2>3. /\ Ready(c, ST_ROOM) /\ r # NoRoom
          /\ t.room[r].state = ST_GAME => e \notin Players(t, r)
          /\ Become(IF Cleanable(t, c) THEN RoomClean(t, c) ELSE DoRoomDel(t, r, c, e))
      BY <1>1, <1>2, <1>6, <2>1, <2>2 DEF RoomLeave
    <2>4. r \in ROOM /\ e \in ToSet(t.room[r].guest) /\ ConnOf(t, e) = c
      BY <1>3, <2>1, <2>2, <2>3
    <2>5. CASE Cleanable(t, c)
      <3>1. PICK s : s = RoomClean(t, c)
        OBVIOUS
      <3>2. TablesKept(t, s) /\ UsersKept(t, s) /\ GamesKept(t, s)
        BY <1>2, <3>1, CleanKeeps
      <3>3. QED
        BY <2>3, <2>5, <3>1, <3>2 DEF Handled
    <2>6. CASE ~Cleanable(t, c)
      <3>1. PICK s : s = DoRoomDel(t, r, ConnOf(t, e), e)
        OBVIOUS
      <3>2. TablesKept(t, s) /\ UsersKept(t, s) /\ GamesKept(t, s)
        BY <1>2, <2>3, <2>4, <2>6, <3>1, DelKeeps
      <3>3. Become(s)
        BY <2>3, <2>4, <2>6, <3>1
      <3>4. QED
        BY <3>2, <3>3 DEF Handled
    <2>7. QED
      BY <2>5, <2>6
  <1>7. ASSUME NEW e \in EID \cup AI, RoomKick(c, e) PROVE \E s : Become(s) /\ Handled(t, s)
    <2>1. PICK r : r = t.conn[c].room
      OBVIOUS
    <2>2. PICK g : g = ConnOf(t, e)
      OBVIOUS
    <2>3. /\ Ready(c, ST_ROOM) /\ r # NoRoom
          /\ Seat(t, r, 1) = t.conn[c].eid
          /\ t.room[r].state = ST_GAME => Seat(t, r, 2) # e
          /\ t.room[r].state = ST_GAME /\ e = t.conn[c].eid => "self_kick" \in Faults
          /\ IF g # NoConn /\ Cleanable(t, g) THEN Become(RoomClean(t, g))
             ELSE e \in Guests(t, r) /\ Become(DoRoomDel(t, r, g, e))
      BY <1>1, <1>2, <1>7, <2>1, <2>2 DEF RoomKick
    <2>4. r \in ROOM
      BY <1>3, <2>1, <2>3
    <2>5. CASE g # NoConn /\ Cleanable(t, g)
      <3>1. PICK s : s = RoomClean(t, g)
        OBVIOUS
      <3>2. g \in CID
        BY <1>2, <2>2, <2>5, WhereIs DEF Sound
      <3>3. TablesKept(t, s) /\ UsersKept(t, s) /\ GamesKept(t, s)
        BY <1>2, <3>1, <3>2, CleanKeeps
      <3>4. QED
        BY <2>3, <2>5, <3>1, <3>3 DEF Handled
    <2>6. CASE ~(g # NoConn /\ Cleanable(t, g))
      <3>1. PICK s : s = DoRoomDel(t, r, ConnOf(t, e), e)
        OBVIOUS
      <3>2. e \in ToSet(t.room[r].guest) /\ Become(s)
        BY <2>2, <2>3, <2>6, <3>1 DEF Guests
      <3>3. /\ TablesKept(t, s) /\ UsersKept(t, s)
            /\ (t.room[r].state = ST_GAME => e \notin Players(t, r)) => GamesKept(t, s)
        BY <1>2, <2>2, <2>4, <2>6, <3>1, <3>2, DelKeeps
      <3>4. "self_kick" \notin Faults => (t.room[r].state = ST_GAME => e \notin Players(t, r))
        BY <2>3 DEF Players
      <3>5. QED
        BY <3>2, <3>3, <3>4 DEF Handled
    <2>7. QED
      BY <2>5, <2>6
  <1>8. QED
    BY <1>1, <1>4, <1>5, <1>6, <1>7 DEF RoomStep

\* The steps of the quick match, and of the players of a game.
LEMMA PlaySteps ==
    ASSUME LInv, NEW c \in CID, PlayStep(c)
    PROVE  \E s : Become(s) /\ Handled(Now, s)
  <1>1. PICK t : t = Now
    OBVIOUS
  <1>2. /\ Sound(t) /\ \A d \in CID : IdleAt(t, d)
        /\ t.conn = conn /\ t.room = room /\ t.quick = quick
    BY <1>1 DEF LInv, Now
  <1>3. ASSUME NEW level \in {ST_LOGIN, ST_ROOM, ST_GAME}, Ready(c, level)
        PROVE  /\ t.conn[c].eid \in EID /\ t.conn[c].eid # NoEid
               /\ t.conn[c].room # NoRoom => t.conn[c].room \in ROOM
    BY <1>2, <1>3, ReadyIs DEF Ready
  <1>4. ASSUME QuickGame(c) PROVE \E s : Become(s) /\ Handled(t, s)
    <2>1. PICK e : e = t.conn[c].eid
      OBVIOUS
    <2>2. PICK m : m = [t EXCEPT !.quick = IF e \in ToSet(t.quick) THEN t.quick
                                           ELSE Append(t.quick, e)]
      OBVIOUS
    <2>3. /\ Ready(c, ST_LOGIN)
          /\ \E k \in 0 .. Len(quick), ai \in AI, ok \in GameInitOutcomes :
               Become(QuickMatch([Now EXCEPT !.quick = IF conn[c].eid \in ToSet(@) THEN @
                                                       ELSE Append(@, conn[c].eid)], k, ai, ok))
      BY <1>4 DEF QuickGame
    <2>4. m = [Now EXCEPT !.quick = IF conn[c].eid \in ToSet(@) THEN @ ELSE Append(@, conn[c].eid)]
      BY <1>1, <1>2, <2>1, <2>2
    <2>5. PICK k \in 0 .. Len(t.quick), ai \in AI, ok \in GameInitOutcomes :
            Become(QuickMatch(m, k, ai, ok))
      BY <1>2, <2>3, <2>4
    <2>6. PICK s : s = QuickMatch(m, k, ai, ok)
      OBVIOUS
    <2>7. e \in EID
      BY <1>3, <2>1, <2>3
    <2>8. TablesKept(t, s) /\ UsersKept(t, s) /\ GamesKept(t, s)
      BY <1>2, <2>1, <2>2, <2>6, <2>7, QuickGameKeeps
    <2>9. QED
      BY <2>5, <2>6, <2>8 DEF Handled
  <1>5. ASSUME QuickLeave(c) PROVE \E s : Become(s) /\ Handled(t, s)
    <2>1. PICK e : e = t.conn[c].eid
      OBVIOUS
    <2>2. PICK s : s = [t EXCEPT !.quick = RemoveFirst(t.quick, e)]
      OBVIOUS
    <2>3. Become(s)
      <3>1. s = [Now EXCEPT !.quick = RemoveFirst(@, conn[c].eid)]
        BY <1>1, <1>2, <2>1, <2>2
      <3>2. Become([Now EXCEPT !.quick = RemoveFirst(@, conn[c].eid)])
        BY <1>5 DEF QuickLeave
      <3>3. QED
        BY <3>1, <3>2
    <2>4. TablesKept(t, s) /\ UsersKept(t, s) /\ GamesKept(t, s)
      BY <1>2, <2>2, QuickLeaveKeeps
    <2>5. QED
      BY <2>3, <2>4 DEF Handled
  <1>6. ASSUME DbinGame(c) PROVE \E s : Become(s) /\ Handled(t, s)
    <2>1. PICK s : s = [t EXCEPT !.conn[c].busy = TRUE]
      OBVIOUS
    <2>2. Become(s)
      BY <1>1, <1>6, <2>1 DEF DbinGame
    <2>3. Framed(t, s) /\ s.quick = t.quick
      BY <1>2, <2>1, BusyFramed
    <2>4. TablesKept(t, s) /\ UsersKept(t, s) /\ GamesKept(t, s)
      BY <1>2, <2>3, FramedKeeps
    <2>5. QED
      BY <2>2, <2>4 DEF Handled
  <1>7. ASSUME GameFold(c) \/ PlayWin(c) PROVE \E s : Become(s) /\ Handled(t, s)
    <2>1. PICK r : r = t.conn[c].room
      OBVIOUS
    <2>2. PICK s : s = WinGame(t, r)
      OBVIOUS
    <2>3. Become(s) /\ Ready(c, ST_GAME) /\ r # NoRoom
      BY <1>1, <1>2, <1>7, <2>1, <2>2 DEF GameFold, PlayWin
    <2>4. r \in ROOM
      BY <1>3, <2>1, <2>3
    <2>5. Folded(t, s)
      BY <1>2, <2>2, <2>4, WinGameFolds
    <2>6. TablesKept(t, s) /\ UsersKept(t, s) /\ GamesKept(t, s)
      BY <1>2, <2>5, FoldedKeeps
    <2>7. QED
      BY <2>3, <2>6 DEF Handled
  <1>8. QED
    BY <1>1, <1>4, <1>5, <1>6, <1>7 DEF PlayStep

\* The reply of the database to a "game" request.
LEMMA ReplySteps ==
    ASSUME LInv, NEW i \in 1 .. Len(pending), DbReply(i)
    PROVE  \E s : Become(s) /\ Handled(Now, s)
  <1>1. PICK t : t = Now
    OBVIOUS
  <1>2. /\ Sound(t) /\ \A d \in CID : IdleAt(t, d)
        /\ t.conn = conn /\ t.userRoom = userRoom
    BY <1>1 DEF LInv, Now
  <1>3. PICK q : q = pending[i]
    OBVIOUS
  <1>4. q.cid \in CID /\ q.eid1 \in EID /\ q.eid2 \in EID /\ q.eid1 # q.eid2
    <2>1. /\ pending \in Seq([cid : CID, eid1 : EID, eid2 : EID])
          /\ \A n \in 1 .. Len(pending) : pending[n].eid1 # pending[n].eid2
      BY DEF LInv, PendingOK
    <2>2. pending[i] \in [cid : CID, eid1 : EID, eid2 : EID]
      <3>1. PICK R : R = [cid : CID, eid1 : EID, eid2 : EID]
        OBVIOUS
      <3>2. pending \in Seq(R)
        BY <2>1, <3>1
      <3>3. pending[i] \in R
        BY <3>2
      <3>4. QED
        BY <3>1, <3>3
    <2>3. q.eid1 # q.eid2
      BY <1>3, <2>1
    <2>4. QED
      BY <1>3, <2>2, <2>3
  <1>5. PICK m : m = [t EXCEPT !.conn[q.cid].busy = FALSE]
    OBVIOUS
  <1>6. \/ UNCHANGED tables
        \/ Become(m)
        \/ \E ok \in GameInitOutcomes :
             Become(IF t.userRoom[q.eid1] # t.userRoom[q.eid2] \/ t.userRoom[q.eid1] = NoRoom
                    THEN ErrorGame(m, t.conn[q.cid].room)
                    ELSE StartGame(m, t.userRoom[q.eid1], ok))
    BY <1>1, <1>2, <1>3, <1>5 DEF DbReply
  <1>7. CASE UNCHANGED tables
    <2>1. Become(t)
      BY <1>1, <1>7 DEF Become, Now, tables
    <2>2. TablesKept(t, t) /\ UsersKept(t, t) /\ GamesKept(t, t)
      BY <1>2 DEF TablesKept, UsersKept, GamesKept, SamePlayers
    <2>3. QED
      BY <1>1, <2>1, <2>2 DEF Handled
  <1>8. CASE Become(m)
    <2>1. Framed(t, m) /\ m.quick = t.quick
      BY <1>2, <1>4, <1>5, BusyFramed
    <2>2. TablesKept(t, m) /\ UsersKept(t, m) /\ GamesKept(t, m)
      BY <1>2, <2>1, FramedKeeps
    <2>3. QED
      BY <1>1, <1>8, <2>2 DEF Handled
  <1>9. CASE \E ok \in GameInitOutcomes :
               Become(IF t.userRoom[q.eid1] # t.userRoom[q.eid2] \/ t.userRoom[q.eid1] = NoRoom
                      THEN ErrorGame(m, t.conn[q.cid].room)
                      ELSE StartGame(m, t.userRoom[q.eid1], ok))
    <2>1. PICK ok \in GameInitOutcomes :
            Become(IF t.userRoom[q.eid1] # t.userRoom[q.eid2] \/ t.userRoom[q.eid1] = NoRoom
                   THEN ErrorGame(m, t.conn[q.cid].room)
                   ELSE StartGame(m, t.userRoom[q.eid1], ok))
      BY <1>9
    <2>2. PICK r1 : r1 = t.userRoom[q.eid1]
      OBVIOUS
    <2>3. PICK r2 : r2 = t.userRoom[q.eid2]
      OBVIOUS
    <2>4. PICK s : s = IF r1 # r2 \/ r1 = NoRoom THEN ErrorGame(m, t.conn[q.cid].room)
                       ELSE StartGame(m, r1, ok)
      OBVIOUS
    <2>5. Become(s)
      BY <2>1, <2>2, <2>3, <2>4
    <2>6. TablesKept(t, s) /\ UsersKept(t, s) /\ GamesKept(t, s)
      <3>1. Framed(t, m) /\ m.quick = t.quick
        BY <1>2, <1>4, <1>5, BusyFramed
      <3>2. PICK e1 \in EID, e2 \in EID : e1 = q.eid1 /\ e2 = q.eid2 /\ e1 # e2
        BY <1>4
      <3>3. r1 = t.userRoom[e1] /\ r2 = t.userRoom[e2]
        BY <2>2, <2>3, <3>2
      <3>4. s = OutGame(m, t.conn[q.cid].room, r1, r2, ok)
        BY <2>4 DEF OutGame
      <3>5. QED
        BY <1>2, <3>1, <3>2, <3>3, <3>4, ReplyKeeps
    <2>7. QED
      BY <1>1, <2>5, <2>6 DEF Handled
  <1>10. QED
    BY <1>6, <1>7, <1>8, <1>9

\* Every step of the main loop.
LEMMA NextHandled ==
    ASSUME LInv, Next
    PROVE  \E s : Become(s) /\ Handled(Now, s)
  <1>1. PICK t : t = Now
    OBVIOUS
  <1>2. Sound(t) /\ t.quick = quick
    BY <1>1 DEF LInv, Now
  <1>3. ASSUME NEW c \in CID, ConnStep(c) \/ RoomStep(c) \/ PlayStep(c)
        PROVE  \E s : Become(s) /\ Handled(Now, s)
    <2>1. CASE ConnStep(c)
      BY <2>1, ConnSteps
    <2>2. CASE RoomStep(c)
      BY <2>2, RoomSteps
    <2>3. CASE PlayStep(c)
      BY <2>3, PlaySteps
    <2>4. QED
      BY <1>3, <2>1, <2>2, <2>3
  <1>4. ASSUME NEW k \in 0 .. Len(quick), AutoQuickMatch(k)
        PROVE  \E s : Become(s) /\ Handled(Now, s)
    <2>1. PICK ai \in AI, ok \in GameInitOutcomes : Become(QuickMatch(t, k, ai, ok))
      BY <1>1, <1>4 DEF AutoQuickMatch
    <2>2. PICK s : s = QuickMatch(t, k, ai, ok)
      OBVIOUS
    <2>3. TablesKept(t, s) /\ UsersKept(t, s) /\ GamesKept(t, s)
      BY <1>2, <2>2, QuickMatchKeeps
    <2>4. QED
      BY <1>1, <2>1, <2>2, <2>3 DEF Handled
  <1>5. ASSUME NEW i \in 1 .. Len(pending), DbReply(i)
        PROVE  \E s : Become(s) /\ Handled(Now, s)
    BY <1>5, ReplySteps
  <1>6. CASE AutoFold
    <2>1. PICK s : s = FoldAll(t)
      OBVIOUS
    <2>2. Become(FoldAll(Now))
      BY <1>6 DEF AutoFold, FoldAll
    <2>3. Folded(t, s)
      BY <1>2, <2>1, AutoFoldFolds
    <2>4. TablesKept(t, s) /\ UsersKept(t, s) /\ GamesKept(t, s)
      BY <1>2, <2>3, FoldedKeeps
    <2>5. QED
      BY <1>1, <2>1, <2>2, <2>4 DEF Handled
  <1>7. CASE Restart
    BY <1>7, BootHandled DEF Restart
  <1>8. QED
    BY <1>3, <1>4, <1>5, <1>6, <1>7 DEF Next

----------------------------------------------------------------------------
(* The theorems.                                                           *)

\* Tables that the variables become are their record.
LEMMA BecomeNow ==
    ASSUME NEW s \in Tables, Become(s)
    PROVE  Now' = s
  <1>1. Now' = [up |-> up', conn |-> conn', index |-> index', userRoom |-> userRoom',
                room |-> room', pool |-> pool', quick |-> quick']
    BY DEF Now
  <1>2. s = [up |-> s.up, conn |-> s.conn, index |-> s.index, userRoom |-> s.userRoom,
             room |-> s.room, pool |-> s.pool, quick |-> s.quick]
    BY DEF Tables
  <1>3. QED
    BY <1>1, <1>2 DEF Become

\* A request is made for the two first guests of a room, and taken off the
\* list by its reply.
LEMMA PendingKept ==
    ASSUME LInv, Next
    PROVE  PendingOK'
  <1>1. PICK R : R = [cid : CID, eid1 : EID, eid2 : EID]
    OBVIOUS
  <1>2. /\ pending \in Seq(R)
        /\ \A i \in 1 .. Len(pending) : pending[i].eid1 # pending[i].eid2
    BY <1>1 DEF LInv, PendingOK
  <1>3. ASSUME NEW p, p \in Seq(R), \A i \in 1 .. Len(p) : p[i].eid1 # p[i].eid2, pending' = p
        PROVE  PendingOK'
    BY <1>1, <1>3 DEF PendingOK
  <1>4. CASE UNCHANGED pending
    BY <1>2, <1>3, <1>4
  <1>5. ASSUME NEW c \in CID, DbinGame(c) PROVE PendingOK'
    <2>1. PICK t : t = Now
      OBVIOUS
    <2>2. /\ Sound(t) /\ IdleAt(t, c)
          /\ t.conn = conn /\ t.room = room
      BY <2>1 DEF LInv, Now
    <2>3. PICK r : r = t.conn[c].room
      OBVIOUS
    <2>4. PICK e2 : e2 = Seat(t, r, 2)
      OBVIOUS
    <2>5. PICK q : q = [cid |-> c, eid1 |-> t.conn[c].eid, eid2 |-> e2]
      OBVIOUS
    <2>6. /\ Ready(c, ST_ROOM) /\ r # NoRoom
          /\ Seat(t, r, 1) = t.conn[c].eid
          /\ Len(t.room[r].guest) >= 2 /\ Online(t, e2)
          /\ pending' = Append(pending, q)
      BY <1>5, <2>1, <2>2, <2>3, <2>4, <2>5 DEF DbinGame
    <2>7. t.conn[c].eid \in EID /\ r \in ROOM
      BY <2>2, <2>3, <2>6, ReadyIs DEF Ready
    <2>8. e2 \in EID
      BY <2>2, <2>6, WhereIs DEF Sound
    <2>9. t.conn[c].eid # e2
      <3>1. t.room[r].guest \in Seq(EID \cup AI) /\ IsInjective(t.room[r].guest)
        BY <2>2, <2>7, Entries DEF Sound, RoomAt
      <3>2. Seat(t, r, 1) = t.room[r].guest[1] /\ e2 = t.room[r].guest[2]
        BY <2>4, <2>6, <3>1 DEF Seat
      <3>3. 1 \in 1 .. Len(t.room[r].guest) /\ 2 \in 1 .. Len(t.room[r].guest)
        BY <2>6, <3>1
      <3>4. QED
        BY <2>6, <3>1, <3>2, <3>3, Places
    <2>10. q \in R /\ q.eid1 # q.eid2
      BY <1>1, <2>5, <2>7, <2>8, <2>9
    <2>11. PICK p : p = Append(pending, q)
      OBVIOUS
    <2>12. /\ p \in Seq(R) /\ Len(p) = Len(pending) + 1 /\ Len(pending) \in Nat
           /\ p[Len(pending) + 1] = q
           /\ \A i \in 1 .. Len(pending) : p[i] = pending[i]
      BY <1>2, <2>10, <2>11
    <2>13. ASSUME NEW i \in 1 .. Len(p) PROVE p[i].eid1 # p[i].eid2
      <3>1. CASE i = Len(pending) + 1
        BY <2>10, <2>12, <3>1
      <3>2. CASE i # Len(pending) + 1
        <4>1. i \in 1 .. Len(pending)
          BY <2>12, <2>13, <3>2
        <4>2. QED
          BY <1>2, <2>12, <4>1
      <3>3. QED
        BY <3>1, <3>2
    <2>14. QED
      BY <1>3, <2>6, <2>11, <2>12, <2>13
  <1>6. ASSUME NEW i \in 1 .. Len(pending), DbReply(i) PROVE PendingOK'
    <2>1. PICK p : p = RemoveAt(pending, i)
      OBVIOUS
    <2>2. /\ p \in Seq(R) /\ Len(p) = Len(pending) - 1
          /\ \A j \in 1 .. Len(pending) - 1 : p[j] = pending[IF j < i THEN j ELSE j + 1]
      BY <1>2, <2>1, WithoutPlace
    <2>3. ASSUME NEW j \in 1 .. Len(p) PROVE p[j].eid1 # p[j].eid2
      <3>1. PICK k : k = IF j < i THEN j ELSE j + 1
        OBVIOUS
      <3>2. PICK n \in Nat : n = Len(pending)
        BY <1>2
      <3>3. j \in 1 .. n - 1 /\ k \in 1 .. n
        BY <2>2, <2>3, <3>1, <3>2
      <3>4. p[j] = pending[k]
        BY <2>2, <3>1, <3>2, <3>3
      <3>5. QED
        BY <1>2, <3>2, <3>3, <3>4
    <2>4. QED
      BY <1>3, <1>6, <2>1, <2>2, <2>3 DEF DbReply
  <1>7. CASE Restart
    <2>1. <<>> \in Seq(R) /\ \A i \in 1 .. Len(<<>>) : <<>>[i].eid1 # <<>>[i].eid2
      OBVIOUS
    <2>2. QED
      BY <1>3, <1>7, <2>1 DEF Restart
  <1>8. ASSUME NEW c \in CID, ConnStep(c) \/ RoomStep(c) PROVE UNCHANGED pending
    BY <1>8 DEF ConnStep, RoomStep, Connect, Disconnect, SendError, Jam, Login, RoomCreate,
                RoomJoin, RoomLeave, RoomKick
  <1>9. ASSUME NEW c \in CID, PlayStep(c) PROVE PendingOK'
    <2>1. UNCHANGED pending \/ DbinGame(c)
      BY <1>9 DEF PlayStep, QuickGame, QuickLeave, GameFold, PlayWin
    <2>2. QED
      BY <1>4, <1>5, <2>1
  <1>10. ASSUME AutoFold \/ \E k \in 0 .. Len(quick) : AutoQuickMatch(k) PROVE UNCHANGED pending
    BY <1>10 DEF AutoFold, AutoQuickMatch
  <1>11. QED
    BY <1>4, <1>6, <1>7, <1>8, <1>9, <1>10 DEF Next

\* The invariant holds at the start and after every step.
LEMMA LobbyStep ==
    ASSUME LInv, [Next]_vars
    PROVE  /\ LInv'
           /\ Now' = Now \/ Handled(Now, Now')
  <1>1. CASE UNCHANGED vars
    <2>1. Now' = Now /\ quick' = quick /\ pending' = pending
      BY <1>1 DEF vars, Now
    <2>2. LInv'
      BY <2>1 DEF LInv, PendingOK
    <2>3. QED
      BY <2>1, <2>2
  <1>2. CASE Next
    <2>1. PICK s : Become(s) /\ Handled(Now, s)
      BY <1>2, NextHandled
    <2>2. Sound(s) /\ s \in Tables
      BY <2>1 DEF Handled, TablesKept, Sound
    <2>3. Now' = s
      BY <2>1, <2>2, BecomeNow
    <2>4. \A c \in CID : IdleAt(s, c)
      BY <2>1 DEF LInv, Handled, TablesKept
    <2>5. Len(s.quick) <= 1 /\ quick' = s.quick
      BY <2>1 DEF LInv, Handled, TablesKept, Become, Now
    <2>6. LInv'
      BY <1>2, <2>2, <2>3, <2>4, <2>5, PendingKept DEF LInv
    <2>7. QED
      BY <2>1, <2>3, <2>6
  <1>3. QED
    BY <1>1, <1>2

\* The first process.
LEMMA LobbyInit ==
    ASSUME Init
    PROVE  LInv /\ Now = Boot
  <1>1. Now = Boot
    BY DEF Init, Now, Boot
  <1>2. Sound(Now) /\ \A c \in CID : IdleAt(Now, c)
    BY <1>1, BootSound
  <1>3. Len(quick) <= 1
    BY DEF Init, Boot
  <1>4. PendingOK
    BY DEF Init, PendingOK
  <1>5. QED
    BY <1>1, <1>2, <1>3, <1>4 DEF LInv

\* The tables are sound after every step, whatever goes wrong: errors of a
\* socket, late replies, failed starts, a process that is started again.
THEOREM LobbySound == Spec => []LInv
  <1>1. Init => LInv
    BY LobbyInit
  <1>2. LInv /\ [Next]_vars => LInv'
    BY LobbyStep
  <1>3. QED
    BY <1>1, <1>2, PTL DEF Spec

\* The types of TypeOK, whatever goes wrong.
THEOREM TypeCorrect == Spec => []TypeOK
  <1>1. ASSUME LInv PROVE TypeOK
    <2>1. /\ Now \in Tables /\ PendingOK
          /\ \A r \in ROOM : RoomAt(Now, r)
      BY <1>1 DEF LInv, Sound
    <2>2. /\ up \in BOOLEAN /\ conn \in [CID -> Conns] /\ index \in [EID -> CID]
          /\ userRoom \in [EID -> ROOM \cup {NoRoom}] /\ room \in [ROOM -> RoomRec]
          /\ pool \in [Channel -> Seq(ROOM)] /\ quick \in Seq(EID)
      BY <2>1 DEF Tables, Now
    <2>3. DOMAIN room = ROOM /\ DOMAIN pool = Channel
      BY <2>2
    <2>4. ASSUME NEW r \in ROOM
          PROVE  /\ room[r].state \in {0, ST_ROOM, ST_GAME} /\ room[r].lua \in BOOLEAN
                 /\ room[r].guest \in Seq(EID \cup AI) /\ Len(room[r].guest) <= MAX_GUEST
                 /\ \A i \in 1 .. 2 : room[r].off[i] \in 0 .. FOLD_PASSES
      <3>1. room[r] \in RoomRec
        BY <2>2
      <3>2. Len(room[r].guest) <= MAX_GUEST
        BY <2>1 DEF RoomAt, Now
      <3>3. QED
        BY <3>1, <3>2 DEF RoomRec
    <2>5. QED
      BY <2>1, <2>2, <2>3, <2>4 DEF TypeOK, PendingOK
  <1>2. QED
    BY <1>1, LobbySound, PTL

\* g_user_room and the seats agree, whatever goes wrong: a user that logs in
\* again gets back the room it has a seat in, and no other.
THEOREM SeatsStayExact == Spec => []SeatsExact
  <1>1. ASSUME LInv PROVE SeatsExact
    <2>1. /\ \A r \in ROOM : RoomAt(Now, r)
          /\ \A r \in ROOM, e \in EID : SeatAt(Now, r, e)
      BY <1>1 DEF LInv, Sound
    <2>2. \A r \in ROOM, e \in EID : userRoom[e] = r <=> e \in Guests(Now, r)
      BY <2>1 DEF SeatAt, Guests, Now
    <2>3. \A r \in ROOM : IsInjective(room[r].guest) /\ (room[r].state = 0 => room[r] = FreeRoomRec)
      BY <2>1 DEF RoomAt, Now
    <2>4. QED
      BY <2>2, <2>3 DEF SeatsExact
  <1>2. QED
    BY <1>1, LobbySound, PTL

\* g_user_index and the connections agree, whatever goes wrong: a user is
\* connected once, in the room it has a seat in and with the level of the room.
THEOREM SessionsStayExact == Spec => []SessionsExact
  <1>1. ASSUME LInv PROVE SessionsExact
    <2>1. \A c \in CID : SessionAt(Now, c) /\ IdleAt(Now, c)
      BY <1>1 DEF LInv, Sound
    <2>2. Now.conn = conn /\ Now.index = index /\ Now.userRoom = userRoom /\ Now.room = room
      BY DEF Now
    <2>3. \A c \in CID : conn[c].eid = NoEid => conn[c].room = NoRoom /\ conn[c].st = ST_NULL
      BY <2>1, <2>2 DEF IdleAt
    <2>4. \A c \in CID : conn[c].eid # NoEid =>
            /\ conn[c].up /\ index[conn[c].eid] = c
            /\ conn[c].room = userRoom[conn[c].eid]
            /\ conn[c].room = NoRoom => conn[c].st = ST_LOGIN
            /\ conn[c].room # NoRoom =>
                 /\ room[conn[c].room].state = ST_ROOM => conn[c].st = ST_ROOM
                 /\ room[conn[c].room].lua => conn[c].st = ST_GAME
      BY <2>1, <2>2 DEF SessionAt
    <2>5. QED
      BY <2>3, <2>4 DEF SessionsExact
  <1>2. QED
    BY <1>1, LobbySound, PTL

\* The free lists hold exactly the free rooms, whatever goes wrong: new_room
\* never hands out a room in use.
THEOREM PoolStaysExact == Spec => []PoolExact
  <1>1. ASSUME LInv PROVE PoolExact
    <2>1. \A ch \in Channel : PoolAt(Now, ch)
      BY <1>1 DEF LInv, Sound
    <2>2. QED
      BY <2>1 DEF PoolAt, PoolExact, Now
  <1>2. QED
    BY <1>1, LobbySound, PTL

\* What is kept as long as every lost socket goes through do_clean.
UsersInv == LInv /\ WaitersOnline(Now) /\ AllAlive(Now)

\* UsersInv is an invariant.
LEMMA UsersAlways ==
    ASSUME "send_error" \notin Faults
    PROVE  Spec => []UsersInv
  <1>1. ASSUME Init PROVE UsersInv
    <2>1. LInv /\ Now = Boot
      BY <1>1, LobbyInit
    <2>2. WaitersOnline(Boot)
      BY DEF WaitersOnline, Boot, ToSet
    <2>3. AllAlive(Boot)
      <3>1. \A r \in ROOM : Boot.room[r] = FreeRoomRec
        BY DEF Boot
      <3>2. QED
        BY <3>1, NewRoomRec DEF AllAlive, ST_ROOM
    <2>4. QED
      BY <2>1, <2>2, <2>3 DEF UsersInv
  <1>2. ASSUME UsersInv, [Next]_vars PROVE UsersInv'
    <2>1. LInv' /\ (Now' = Now \/ Handled(Now, Now'))
      BY <1>2, LobbyStep DEF UsersInv
    <2>2. PICK s : s = Now'
      OBVIOUS
    <2>3. WaitersOnline(s) /\ AllAlive(s)
      BY <1>2, <2>1, <2>2 DEF UsersInv, Handled, UsersKept
    <2>4. QED
      BY <2>1, <2>2, <2>3 DEF UsersInv
  <1>3. QED
    BY <1>1, <1>2, PTL DEF Spec

\* A waiting room always has somebody connected to it, as every way out of a
\* connection but a failed read or write goes through room_clean.
THEOREM RoomsStayAlive ==
    ASSUME "send_error" \notin Faults
    PROVE  Spec => []RoomAlive
  <1>1. ASSUME UsersInv PROVE RoomAlive
    <2> SUFFICES ASSUME NEW r \in ROOM, room[r].state = ST_ROOM
                 PROVE  ActiveUsers(Now, r, NoEid) # {}
      BY DEF RoomAlive
    <2>1. PICK t : t = Now
      OBVIOUS
    <2>2. Sound(t) /\ Alive(t, r)
      BY <1>1, <2>1 DEF UsersInv, LInv, AllAlive, Now
    <2>3. PICK c \in CID : t.conn[c].eid # NoEid /\ t.conn[c].room = r
      BY <2>2 DEF Alive
    <2>4. t.conn[c].eid \in EID \ {NoEid}
      BY <2>2, <2>3, Entries DEF Sound
    <2>5. t.conn[c].eid \in ActiveUsers(t, r, NoEid)
      BY <2>2, <2>3, <2>4, WhoIsActive
    <2>6. QED
      BY <2>1, <2>5
  <1>2. QED
    BY <1>1, UsersAlways, PTL

\* At most one user waits for a quick match, and it is connected.
THEOREM QuickStaysExact ==
    ASSUME "send_error" \notin Faults
    PROVE  Spec => []QuickExact
  <1>1. ASSUME UsersInv PROVE QuickExact
    <2>1. PICK t : t = Now
      OBVIOUS
    <2>2. /\ t \in Tables /\ \A c \in CID : SessionAt(t, c)
          /\ WaitersOnline(t) /\ Len(quick) <= 1
          /\ t.quick = quick
      BY <1>1, <2>1 DEF UsersInv, LInv, Sound, Now
    <2>3. ASSUME NEW e \in ToSet(quick) PROVE Online(t, e)
      <3>1. e \in EID
        BY <2>2, Entries, Places
      <3>2. \E c \in CID : t.conn[c].eid = e
        BY <2>2 DEF WaitersOnline
      <3>3. QED
        BY <2>2, <3>1, <3>2, WhereIs
    <2>4. QED
      BY <2>1, <2>2, <2>3 DEF QuickExact
  <1>2. QED
    BY <1>1, UsersAlways, PTL

\* What is kept as long as no master kicks itself out of its running game.
GamesInv == LInv /\ GamesOK(Now)

\* A step keeps the games and their players.
LEMMA GamesStep ==
    ASSUME "self_kick" \notin Faults, GamesInv, [Next]_vars
    PROVE  GamesInv' /\ SamePlayers(Now, Now')
  <1>1. LInv' /\ (Now' = Now \/ Handled(Now, Now'))
    BY LobbyStep DEF GamesInv
  <1>2. PICK t : t = Now
    OBVIOUS
  <1>3. PICK s : s = Now'
    OBVIOUS
  <1>4. GamesOK(s) /\ SamePlayers(t, s)
    <2>1. CASE s = t
      BY <1>2, <2>1 DEF GamesInv, SamePlayers
    <2>2. CASE Handled(t, s)
      BY <1>2, <2>2 DEF GamesInv, Handled, GamesKept
    <2>3. QED
      BY <1>1, <1>2, <1>3, <2>1, <2>2
  <1>5. QED
    BY <1>1, <1>2, <1>3, <1>4 DEF GamesInv

\* GamesInv is an invariant.
LEMMA GamesAlways ==
    ASSUME "self_kick" \notin Faults
    PROVE  Spec => []GamesInv
  <1>1. ASSUME Init PROVE GamesInv
    <2>1. LInv /\ Now = Boot
      BY <1>1, LobbyInit
    <2>2. \A r \in ROOM : Boot.room[r] = FreeRoomRec
      BY DEF Boot
    <2>3. TwoPlayers(Boot)
      BY <2>2, NewRoomRec DEF TwoPlayers, ST_GAME
    <2>4. TimerAway(Boot)
      BY <2>2, NewRoomRec DEF TimerAway
    <2>5. QED
      BY <2>1, <2>3, <2>4 DEF GamesInv, GamesOK
  <1>2. GamesInv /\ [Next]_vars => GamesInv'
    BY GamesStep
  <1>3. QED
    BY <1>1, <1>2, PTL DEF Spec

\* The offline timer of a player runs only while the player is away.
THEOREM TimersMeanAway ==
    ASSUME "self_kick" \notin Faults
    PROVE  Spec => []TimerMeansAway
  <1>1. ASSUME GamesInv PROVE TimerMeansAway
    <2>1. TimerAway(Now) /\ Now.room = room
      BY <1>1 DEF GamesInv, GamesOK, Now
    <2>2. QED
      BY <2>1 DEF TimerAway, TimerMeansAway
  <1>2. QED
    BY <1>1, GamesAlways, PTL

\* A running game keeps its two players.
THEOREM PlayersKeepSeats ==
    ASSUME "self_kick" \notin Faults
    PROVE  Spec => PlayersStay
  <1>1. ASSUME GamesInv, [Next]_vars
        PROVE  [\A r \in ROOM : room[r].lua /\ room'[r].lua =>
                  \A i \in 1 .. 2 : Seat(Now, r, i) = Seat(Now', r, i)]_vars
    <2>1. SamePlayers(Now, Now')
      BY <1>1, GamesStep
    <2>2. Now.room = room /\ Now'.room = room'
      BY DEF Now
    <2>3. QED
      BY <2>1, <2>2 DEF SamePlayers
  <1>2. QED
    BY <1>1, GamesAlways, PTL DEF Spec, PlayersStay

=============================================================================
