---------------------------- MODULE EconomyProofs ----------------------------
(***************************************************************************)
(* The limits of what users own, for every set of users, every design and  *)
(* scenario, any number of workers and every statement that fails.         *)
(*                                                                         *)
(* A command reads in one statement and writes in another, so the          *)
(* invariant says of a request what its worker knows at each statement:    *)
(* of its numbers (Payload), of what it has read (Known), and of the rows  *)
(* as they are by then (Held).  The last lasts because a worker answers    *)
(* its requests in order (Line), those of a user go to one worker, and     *)
(* the others only add to his rows.                                        *)
(***************************************************************************)
EXTENDS Economy, FiniteSetTheorems, WellFoundedInduction, TLAPS

----------------------------------------------------------------------------
(* The tables.                                                             *)

PerUser == {"card", "piece", "deck", "power", "times", "tower", "status_tower", "status_arena", "arena"}
Names == PerUser \cup {"exchange", "offers"}

ShapeOK(d) == Names \subseteq DOMAIN d /\ \A f \in PerUser : DOMAIN d[f] = User

CardsOK(d) ==
    \A e \in User : CardsAlone(e) => d.card[e] = NoCards \/ d.card[e] \in [Card -> 0 .. EVIL_NUM_CARD_MAX]
PiecesOK(d) == \A e \in User : PiecesAlone(e) => d.piece[e] \in [Card -> 0 .. EVIL_NUM_PIECE_MAX]
DecksOK(d) ==
    \A e \in User : /\ DOMAIN d.deck[e] = {"slot", "list"}
                    /\ d.deck[e].list # NoDeck => Digits(d.deck[e].list)
PowerOK(d) == \A e \in User : d.power[e].left \in Nat
TimesOK(d) == \A e \in User, t \in {"ai", "gold", "crystal"} : d.times[e][t] >= 0

TowerRow(row) ==
    /\ {"on", "pos", "res", "energy", "buff"} \subseteq DOMAIN row
    /\ {row.res, row.energy} \subseteq 0 .. Design.tower_buff_max
TowersOK(d) == \A e \in User : TowerRow(d.tower[e]) /\ d.status_tower[e].times \in Nat

RanksOK(rank) ==
    /\ rank \in [User -> Nat]
    /\ \A e, g \in User : e # g /\ rank[e] > 0 => rank[e] # rank[g]
ArenaOK(d) ==
    /\ RanksOK(d.arena)
    /\ \A e \in User : "times" \in DOMAIN d.status_arena[e] /\ d.status_arena[e].times >= 0

SalesOK(sales) ==
    DOMAIN sales \subseteq Nat /\ \A x \in DOMAIN sales : "n" \in DOMAIN sales[x] /\ sales[x].n \in Nat
OffersOK(d) == d.offers \in Nat /\ SalesOK(d.exchange)

TablesOK(d) ==
    /\ ShapeOK(d) /\ CardsOK(d) /\ PiecesOK(d) /\ DecksOK(d) /\ PowerOK(d) /\ TimesOK(d)
    /\ TowersOK(d) /\ ArenaOK(d) /\ OffersOK(d)

----------------------------------------------------------------------------
(* The requests.                                                           *)

\* The commands of which the worker is not the user's, or need not be.
Loose == {"login", "pay", "xcreset", "reset_fight", "init_arena", "reset_arena", "up_hero_mlist", "fight_robot",
          "win", "update_signals", "update_gate_pos", "tower_result", "arenaexc"}

\* What a request brings.
Payload(q) ==
    /\ q.cmd \in {"buy", "sell", "xcbuy", "xcadd", "mpiece", "pbuy"} => "n" \in DOMAIN q.a /\ q.a.n \in Nat
    /\ q.cmd \in {"buy", "xcbuy", "xcreset", "pay"} => May(q.cmd, q.e)
    /\ q.cmd = "xcreset" => q.e \in User
    /\ q.cmd = "scard" => q.a.list \in [Card -> 0 .. EVIL_NUM_CARD_MAX]
    /\ q.cmd \in {"lottery", "mreward", "dreward"} => IsFiniteSet(DOMAIN q.a.cards)
    /\ q.cmd = "dreward" => q.a.pieces \in [Card -> Nat]
    /\ q.cmd = "gift" => q.a.key \in DOMAIN Design.gift
    /\ q.cmd \in {"gate", "chapter"} => q.a.power \in Nat
    /\ q.cmd = "tower_buff" => {q.a.res, q.a.energy} \subseteq Nat

FirstSale(sales) == sales[CHOOSE x \in DOMAIN sales : \A y \in DOMAIN sales : x <= y]

\* What its worker knows when it comes to a statement, whatever happened since.
KnownOffer(q) ==
    /\ q.cmd = "xcbuy" /\ q.at \in {"pieces", "buy", "count"} => q.got[1].n \in Nat
    /\ q.cmd = "xcreset" /\ q.at \in {"next", "give", "delete"} =>
           {"offers", "fit"} \subseteq DOMAIN q.got /\ SalesOK(q.got.offers)
    /\ q.cmd = "xcreset" /\ q.at = "give" =>
           LET sale == FirstSale(q.got.offers) IN
           sale.eid \in User /\ sale.card \in Card /\ PiecesAlone(sale.eid) => q.got.fit \in Nat
KnownReward(q) ==
    /\ q.cmd = "uhslot" /\ q.at = "slot" => Digits(q.a.list)
    /\ q.cmd = "gift" /\ q.at \in {"money", "cards"} => IsFiniteSet(DOMAIN q.got.teams)
    /\ q.cmd = "pay" /\ q.at \in {"money", "extra", "cards"} => IsFiniteSet(DOMAIN q.got.cards)
    /\ q.cmd = "arenaexc" /\ q.at = "exchange" => {q.e, q.a.target} \subseteq User
KnownTower(q) ==
    q.e \in User =>
        /\ q.cmd \in {"gate", "chapter"} /\ q.at = "power" => q.got \in Nat
        /\ q.cmd = "tower" /\ q.at = "row" => q.got.times \in Nat
        /\ q.cmd = "tower" /\ q.at = "times" => q.got.status.times \in Nat \ {0}
        /\ q.cmd \in {"tower", "tower_buff", "tower_result"} /\ q.at \in {"times", "deck", "replace"} =>
               {"row", "deck"} \subseteq DOMAIN q.got /\ TowerRow(q.got.row)
        /\ q.cmd = "tower_buff" /\ q.at \in {"deck", "replace"} =>
               {q.got.row.res + q.a.res, q.got.row.energy + q.a.energy} \subseteq 0 .. Design.tower_buff_max
        /\ q.cmd = "tower_result" /\ q.at \in {"deck", "replace", "status"} => "status" \in DOMAIN q.got
        /\ q.cmd = "tower_result" /\ q.at = "height" => q.got.status.times \in Nat
Known(q) == KnownOffer(q) /\ KnownReward(q) /\ KnownTower(q)

\* What it has found in the rows, and still finds there.
HeldBuy(d, q) ==
    q.cmd = "buy" /\ q.at = "buy" /\ q.e \in User /\ q.a.card \in Card =>
        /\ q.a.kind = "card" /\ CardsAlone(q.e) => d.card[q.e][q.a.card] \in 0 .. EVIL_NUM_CARD_MAX - q.a.n
        /\ q.a.kind = "piece" /\ PiecesAlone(q.e) => d.piece[q.e][q.a.card] \in 0 .. EVIL_NUM_PIECE_MAX - q.a.n
HeldSell(d, q) ==
    q.cmd = "sell" /\ q.at = "sell" /\ q.e \in User /\ q.a.card \in Card =>
        /\ q.a.kind = "card" /\ CardsAlone(q.e) => d.card[q.e][q.a.card] >= q.a.n
        /\ q.a.kind = "piece" /\ PiecesAlone(q.e) => d.piece[q.e][q.a.card] >= q.a.n
HeldXcbuy(d, q) ==
    q.cmd = "xcbuy" /\ q.at = "buy" /\ q.e \in User /\ q.got[1].card \in Card /\ PiecesAlone(q.e) =>
        d.piece[q.e][q.got[1].card] \in 0 .. EVIL_NUM_PIECE_MAX - q.a.n
Held(d, q) == HeldBuy(d, q) /\ HeldSell(d, q) /\ HeldXcbuy(d, q)

RequestOK(q) ==
    DOMAIN q = {"cmd", "by", "e", "a", "at", "good", "got"} /\ Payload(q) /\ Known(q)
Placed(th, q) == q.cmd \in Loose \/ th = q.e % threads
NewOK(q) == RequestOK(q) /\ q.at = "new"

\* A worker's requests: those behind the one it is at are new.
Line(th, s, d) ==
    /\ \E S : s \in Seq(S)
    /\ \A i \in 1 .. Len(s) : RequestOK(s[i]) /\ Placed(th, s[i]) /\ Held(d, s[i])
    /\ \A i, j \in 1 .. Len(s) : i < j /\ s[i].at # "done" => s[j].at = "new"
LinesOK(d, lines) == DOMAIN lines = Thread /\ \A th \in Thread : Line(th, lines[th], d)

\* The inductive invariant.
IInv == scenario \in Scenarios /\ TablesOK(db) /\ LinesOK(db, queue)

----------------------------------------------------------------------------
(* Lines of requests.                                                      *)

\* What a line is without its first one, and with more behind it.
LEMMA Rest ==
    ASSUME NEW S, NEW s \in Seq(S), s # <<>>
    PROVE  /\ Tail(s) \in Seq(S) /\ Len(s) \in Nat /\ Len(Tail(s)) = Len(s) - 1
           /\ \A i \in 1 .. Len(Tail(s)) : i + 1 \in 1 .. Len(s) /\ Tail(s)[i] = s[i + 1]
  OBVIOUS

LEMMA Joined ==
    ASSUME NEW S, NEW s \in Seq(S), NEW T, NEW t \in Seq(T)
    PROVE  /\ s \o t \in Seq(S \cup T) /\ Len(s) \in Nat /\ Len(t) \in Nat /\ Len(s \o t) = Len(s) + Len(t)
           /\ \A i \in 1 .. Len(s) : (s \o t)[i] = s[i]
           /\ \A i \in Len(s) + 1 .. Len(s) + Len(t) : i - Len(s) \in 1 .. Len(t) /\ (s \o t)[i] = t[i - Len(s)]
  <1>1. s \in Seq(S \cup T) /\ t \in Seq(S \cup T)
    OBVIOUS
  <1>2. QED
    BY <1>1

LEMMA LineRest ==
    ASSUME NEW th, NEW s, NEW d, Line(th, s, d), s # <<>>
    PROVE  Line(th, Tail(s), d)
  <1>1. PICK S : s \in Seq(S)
    BY DEF Line
  <1>2. /\ Tail(s) \in Seq(S) /\ Len(s) \in Nat /\ Len(Tail(s)) = Len(s) - 1
        /\ \A i \in 1 .. Len(Tail(s)) : i + 1 \in 1 .. Len(s) /\ Tail(s)[i] = s[i + 1]
    BY <1>1, Rest
  <1>3. \A i \in 1 .. Len(Tail(s)) : RequestOK(Tail(s)[i]) /\ Placed(th, Tail(s)[i]) /\ Held(d, Tail(s)[i])
    BY <1>2 DEF Line
  <1>4. ASSUME NEW i \in 1 .. Len(Tail(s)), NEW j \in 1 .. Len(Tail(s)), i < j, Tail(s)[i].at # "done"
        PROVE  Tail(s)[j].at = "new"
    <2>1. i + 1 \in 1 .. Len(s) /\ j + 1 \in 1 .. Len(s) /\ i + 1 < j + 1 /\ s[i + 1].at # "done"
      BY <1>2, <1>4
    <2>2. s[j + 1].at = "new"
      BY <2>1 DEF Line
    <2>3. QED
      BY <1>2, <2>2
  <1>5. QED
    BY <1>2, <1>3, <1>4 DEF Line

\* Requests that go behind those of a worker.
Sent(th, t) == \E T : t \in Seq(T) /\ \A q \in T : NewOK(q) /\ Placed(th, q)

LEMMA NewHeld ==
    ASSUME NEW q, NewOK(q), NEW d
    PROVE  Held(d, q)
  BY DEF NewOK, Held, HeldBuy, HeldSell, HeldXcbuy

LEMMA LineMore ==
    ASSUME NEW th, NEW s, NEW d, Line(th, s, d), NEW t, Sent(th, t)
    PROVE  Line(th, s \o t, d)
  <1>1. PICK S : s \in Seq(S)
    BY DEF Line
  <1>2. PICK T : t \in Seq(T) /\ \A q \in T : NewOK(q) /\ Placed(th, q)
    BY DEF Sent
  <1>3. PICK n \in Nat, m \in Nat : n = Len(s) /\ m = Len(t)
    BY <1>1, <1>2
  <1>4. /\ s \o t \in Seq(S \cup T) /\ Len(s \o t) = n + m
        /\ \A i \in 1 .. n : (s \o t)[i] = s[i]
        /\ \A i \in n + 1 .. n + m : i - n \in 1 .. m /\ (s \o t)[i] = t[i - n]
    BY <1>1, <1>2, <1>3, Joined
  <1>5. PICK u : u = s \o t
    OBVIOUS
  <1>6. \A i \in n + 1 .. n + m : NewOK(u[i]) /\ Placed(th, u[i])
    BY <1>2, <1>3, <1>4, <1>5
  <1>7. \A i \in 1 .. n : RequestOK(u[i]) /\ Placed(th, u[i]) /\ Held(d, u[i])
    BY <1>3, <1>4, <1>5 DEF Line
  <1>8. \A i \in n + 1 .. n + m : RequestOK(u[i]) /\ Placed(th, u[i]) /\ Held(d, u[i])
    BY <1>6, NewHeld DEF NewOK
  <1>9. ASSUME NEW i \in 1 .. n + m, NEW j \in 1 .. n + m, i < j, u[i].at # "done"
        PROVE  u[j].at = "new"
    <2>1. CASE j \in n + 1 .. n + m
      BY <1>6, <2>1 DEF NewOK
    <2>2. CASE j \in 1 .. n
      <3>1. i \in 1 .. n
        BY <1>9, <2>2
      <3>2. \A k \in 1 .. n : u[k] = s[k]
        BY <1>4, <1>5
      <3>3. i \in 1 .. n /\ u[i] = s[i] /\ u[j] = s[j]
        BY <3>1, <3>2, <2>2
      <3>4. j \in 1 .. Len(s) /\ i \in 1 .. Len(s) /\ s[i].at # "done"
        BY <3>3, <2>2, <1>3, <1>9
      <3>5. s[j].at = "new"
        BY <3>4, <1>9 DEF Line
      <3>6. QED
        BY <3>3, <3>5
    <2>3. QED
      BY <2>1, <2>2
  <1>10. \A i \in 1 .. n + m : i \in 1 .. n \/ i \in n + 1 .. n + m
    OBVIOUS
  <1>11. Len(u) = n + m /\ u \in Seq(S \cup T)
    BY <1>4, <1>5
  <1>12. Line(th, u, d)
    BY <1>7, <1>8, <1>9, <1>10, <1>11 DEF Line
  <1>13. QED
    BY <1>5, <1>12

LEMMA Sending ==
    ASSUME NEW th, NEW T, NEW t \in Seq(T), \A q \in T : NewOK(q) /\ Placed(th, q)
    PROVE  Sent(th, t)
  BY DEF Sent

LEMMA SentNone ==
    ASSUME NEW th
    PROVE  Sent(th, <<>>)
  <1>1. PICK t : t = <<>>
    OBVIOUS
  <1>2. t \in Seq({})
    BY <1>1
  <1>3. Sent(th, t)
    BY <1>2, Sending
  <1>4. QED
    BY <1>1, <1>3

LEMMA SentOne ==
    ASSUME NEW th, NEW q, NewOK(q), Placed(th, q)
    PROVE  Sent(th, <<q>>)
  <1>1. PICK t : t = <<q>>
    OBVIOUS
  <1>2. t \in Seq({q})
    BY <1>1
  <1>3. Sent(th, t)
    BY <1>2, Sending
  <1>4. QED
    BY <1>1, <1>3

LEMMA SentBoth ==
    ASSUME NEW th, NEW s, NEW t, Sent(th, s), Sent(th, t)
    PROVE  Sent(th, s \o t)
  <1>1. PICK S : s \in Seq(S) /\ \A q \in S : NewOK(q) /\ Placed(th, q)
    BY DEF Sent
  <1>2. PICK T : t \in Seq(T) /\ \A q \in T : NewOK(q) /\ Placed(th, q)
    BY DEF Sent
  <1>3. s \o t \in Seq(S \cup T)
    BY <1>1, <1>2, Joined
  <1>4. QED
    BY <1>1, <1>2, <1>3 DEF Sent

\* Of the lines of all workers, one gets longer or shorter.
LEMMA LinesMore ==
    ASSUME NEW d, NEW lines, LinesOK(d, lines), NEW th, NEW t, Sent(th, t)
    PROVE  LinesOK(d, [lines EXCEPT ![th] = @ \o t])
  <1>1. \A k \in Thread : Line(k, [lines EXCEPT ![th] = @ \o t][k], d)
    BY LineMore DEF LinesOK
  <1>2. QED
    BY <1>1 DEF LinesOK

LEMMA LinesRest ==
    ASSUME NEW d, NEW lines, LinesOK(d, lines), NEW th \in Thread, lines[th] # <<>>
    PROVE  LinesOK(d, [lines EXCEPT ![th] = Tail(@)])
  <1>1. \A k \in Thread : Line(k, [lines EXCEPT ![th] = Tail(@)][k], d)
    BY LineRest DEF LinesOK
  <1>2. QED
    BY <1>1 DEF LinesOK

LEMMA EnqueueKeeps ==
    ASSUME NEW d, NEW lines, LinesOK(d, lines), NEW e, NEW t, Sent(e % threads, t)
    PROVE  LinesOK(d, Enqueue(lines, e, t))
  BY LinesMore DEF Enqueue

LEMMA AppendKeeps ==
    ASSUME NEW d, NEW lines, LinesOK(d, lines), NEW th, NEW q, NewOK(q), th \in Thread => Placed(th, q)
    PROVE  LinesOK(d, [lines EXCEPT ![th] = Append(@, q)])
  <1>1. CASE th \in Thread
    <2>1. PICK S : lines[th] \in Seq(S)
      BY <1>1 DEF LinesOK, Line
    <2>2. PICK t : t = <<q>>
      OBVIOUS
    <2>3. Append(lines[th], q) = lines[th] \o t /\ Sent(th, t)
      BY <1>1, <2>1, <2>2, SentOne
    <2>4. LinesOK(d, [lines EXCEPT ![th] = @ \o t])
      BY <2>3, LinesMore
    <2>5. QED
      BY <2>3, <2>4
  <1>2. CASE th \notin Thread
    <2>1. PICK f : f = [lines EXCEPT ![th] = Append(@, q)]
      OBVIOUS
    <2>2. DOMAIN f = Thread /\ \A k \in Thread : f[k] = lines[k]
      BY <1>2, <2>1 DEF LinesOK
    <2>3. LinesOK(d, f)
      BY <2>2 DEF LinesOK
    <2>4. QED
      BY <2>1, <2>3
  <1>3. QED
    BY <1>1, <1>2

\* Requests of several users, or for any worker.
Mixed(s) ==
    \E S : s \in Seq(S) /\ \A q \in S : NewOK(q) /\ (q.cmd \in Loose \/ (q.by # Office /\ q.by = q.e))

LEMMA Mixing ==
    ASSUME NEW S, NEW s \in Seq(S),
           \A q \in S : NewOK(q) /\ (q.cmd \in Loose \/ (q.by # Office /\ q.by = q.e))
    PROVE  Mixed(s)
  BY DEF Mixed

LEMMA MixedNone == Mixed(<<>>)
  <1>1. PICK t : t = <<>>
    OBVIOUS
  <1>2. t \in Seq({})
    BY <1>1
  <1>3. Mixed(t)
    BY <1>2, Mixing
  <1>4. QED
    BY <1>1, <1>3

LEMMA MixedOne ==
    ASSUME NEW q, NewOK(q), q.cmd \in Loose \/ (q.by # Office /\ q.by = q.e)
    PROVE  Mixed(<<q>>)
  <1>1. PICK t : t = <<q>>
    OBVIOUS
  <1>2. t \in Seq({q})
    BY <1>1
  <1>3. Mixed(t)
    BY <1>2, Mixing
  <1>4. QED
    BY <1>1, <1>3

LEMMA MixedBoth ==
    ASSUME NEW s, NEW t, Mixed(s), Mixed(t)
    PROVE  Mixed(s \o t)
  <1>1. PICK S : s \in Seq(S) /\ \A q \in S : NewOK(q) /\ (q.cmd \in Loose \/ (q.by # Office /\ q.by = q.e))
    BY DEF Mixed
  <1>2. PICK T : t \in Seq(T) /\ \A q \in T : NewOK(q) /\ (q.cmd \in Loose \/ (q.by # Office /\ q.by = q.e))
    BY DEF Mixed
  <1>3. s \o t \in Seq(S \cup T)
    BY <1>1, <1>2, Joined
  <1>4. QED
    BY <1>1, <1>2, <1>3 DEF Mixed

\* The order of numbers as a relation; every set of them that is not empty has
\* a least one, which is what induction comes down to here.
LEMMA LessOnNat ==
    ASSUME NEW R, R = OpToRel(<, Nat), NEW x \in Nat, NEW y \in Nat
    PROVE  <<y, x>> \in R <=> y < x
  BY DEF OpToRel

LEMMA LeastNat ==
    ASSUME NEW T \in SUBSET Nat, T # {}
    PROVE  \E m \in T : \A k \in T : m <= k
  <1>1. PICK R : R = OpToRel(<, Nat)
    OBVIOUS
  <1>2. IsWellFoundedOn(R, Nat)
    BY <1>1, NatLessThanWellFounded
  <1>3. PICK m \in T : \A k \in T : ~ (<<k, m>> \in R)
    BY <1>2, WFMin
  <1>4. \A k \in T : ~ (k < m)
    BY <1>1, <1>3, LessOnNat
  <1>5. QED
    BY <1>4

LEMMA SetInduction ==
    ASSUME NEW T \in SUBSET Nat, 0 \in T, \A n \in T : n + 1 \in T
    PROVE  T = Nat
  <1> SUFFICES ASSUME Nat \ T # {} PROVE FALSE
    OBVIOUS
  <1>1. PICK m \in Nat \ T : \A k \in Nat \ T : m <= k
    BY LeastNat
  <1>2. m # 0 /\ m - 1 \in Nat
    BY <1>1
  <1>3. m - 1 \in T
    BY <1>1, <1>2
  <1>4. m - 1 + 1 = m
    BY <1>1
  <1>5. QED
    BY <1>1, <1>3, <1>4

\* A step of EnqueueAny, and its steps as a function.
Put(lines, office, requests, k) ==
    [lines EXCEPT ![IF k \in DOMAIN office THEN office[k] ELSE requests[k].by % threads] = Append(@, requests[k])]

LEMMA PutRun ==
    ASSUME NEW lines, NEW office, NEW requests, NEW n \in Nat
    PROVE  \E g : g = [k \in 0 .. n |-> IF k = 0 THEN lines ELSE Put(g[k - 1], office, requests, k)]
  <1> DEFINE E(m) == \E g : g = [k \in 0 .. m |-> IF k = 0 THEN lines ELSE Put(g[k - 1], office, requests, k)]
             T == {m \in Nat : E(m)}
  <1>1. E(0)
    <2> DEFINE g0 == [k \in 0 .. 0 |-> lines]
    <2>1. g0 = [k \in 0 .. 0 |-> IF k = 0 THEN lines ELSE Put(g0[k - 1], office, requests, k)]
      OBVIOUS
    <2>2. QED
      BY <2>1
  <1>2. ASSUME NEW m \in Nat, E(m) PROVE E(m + 1)
    <2>1. PICK g : g = [k \in 0 .. m |-> IF k = 0 THEN lines ELSE Put(g[k - 1], office, requests, k)]
      BY <1>2
    <2> DEFINE f == [k \in 0 .. m + 1 |-> IF k = m + 1 THEN Put(g[m], office, requests, k) ELSE g[k]]
    <2>2. f = [k \in 0 .. m + 1 |-> IF k = 0 THEN lines ELSE Put(f[k - 1], office, requests, k)]
      <3> SUFFICES ASSUME NEW k \in 0 .. m + 1
                   PROVE  f[k] = IF k = 0 THEN lines ELSE Put(f[k - 1], office, requests, k)
        OBVIOUS
      <3>1. CASE k = m + 1
        <4>1. f[k] = Put(g[m], office, requests, k) /\ f[k - 1] = g[m]
          BY <3>1
        <4>2. QED
          BY <4>1, <3>1
      <3>2. CASE k # m + 1
        <4>1. k \in 0 .. m /\ (k # 0 => k - 1 \in 0 .. m)
          BY <3>2
        <4>2. f[k] = g[k] /\ (k # 0 => f[k - 1] = g[k - 1])
          BY <4>1
        <4>3. g[k] = IF k = 0 THEN lines ELSE Put(g[k - 1], office, requests, k)
          BY <4>1, <2>1
        <4>4. QED
          BY <4>2, <4>3
      <3>3. QED
        BY <3>1, <3>2
    <2> HIDE DEF f
    <2>3. QED
      BY <2>2
  <1>3. 0 \in T /\ \A m \in T : m + 1 \in T
    <2> HIDE DEF E
    <2>1. QED
      BY <1>1, <1>2
  <1>4. T = Nat
    <2>1. T \in SUBSET Nat
      OBVIOUS
    <2> HIDE DEF T
    <2>2. QED
      BY <2>1, <1>3, SetInduction
  <1>5. QED
    BY <1>4

LEMMA PutKeeps ==
    ASSUME NEW d, NEW lines, LinesOK(d, lines), NEW requests, Mixed(requests),
           NEW office \in [{k \in DOMAIN requests : requests[k].by = Office} -> Thread],
           NEW k \in 1 .. Len(requests)
    PROVE  LinesOK(d, Put(lines, office, requests, k))
  <1>1. PICK S : requests \in Seq(S) /\ \A q \in S : NewOK(q) /\ (q.cmd \in Loose \/ (q.by # Office /\ q.by = q.e))
    BY DEF Mixed
  <1>2. k \in DOMAIN requests /\ requests[k] \in S
    BY <1>1
  <1>3. PICK q \in S : q = requests[k]
    BY <1>2
  <1>4. PICK th : th = IF k \in DOMAIN office THEN office[k] ELSE requests[k].by % threads
    OBVIOUS
  <1>5. Placed(th, q)
    BY <1>1, <1>2, <1>3, <1>4 DEF Placed
  <1>6. LinesOK(d, [lines EXCEPT ![th] = Append(@, q)])
    BY <1>1, <1>5, AppendKeeps
  <1>7. QED
    BY <1>3, <1>4, <1>6 DEF Put

LEMMA EnqueueAnyKeeps ==
    ASSUME NEW d, LinesOK(d, queue), NEW requests, Mixed(requests), EnqueueAny(requests)
    PROVE  LinesOK(d, queue')
  <1>1. PICK n \in Nat : n = Len(requests)
    BY DEF Mixed
  <1>2. PICK office \in [{k \in DOMAIN requests : requests[k].by = Office} -> Thread] :
            LET line(k) == IF k \in DOMAIN office THEN office[k] ELSE requests[k].by % threads
                sent[k \in 0 .. Len(requests)] ==
                    IF k = 0 THEN queue ELSE [sent[k - 1] EXCEPT ![line(k)] = Append(@, requests[k])]
            IN queue' = sent[Len(requests)]
    BY DEF EnqueueAny
  <1> DEFINE h[k \in 0 .. Len(requests)] == IF k = 0 THEN queue ELSE Put(h[k - 1], office, requests, k)
  <1>3. h = [k \in 0 .. Len(requests) |-> IF k = 0 THEN queue ELSE Put(h[k - 1], office, requests, k)]
    BY <1>1, PutRun
  <1>4. \A k \in 0 .. n : h[k] = IF k = 0 THEN queue ELSE Put(h[k - 1], office, requests, k)
    <2> HIDE DEF h
    <2>1. QED
      BY <1>1, <1>3
  <1>5. queue' = h[n]
    BY <1>1, <1>2 DEF Put
  <1> HIDE DEF h
  <1> DEFINE T == {k \in Nat : k \in 0 .. n => LinesOK(d, h[k])}
  <1>6. 0 \in T
    BY <1>4
  <1>7. ASSUME NEW m \in T PROVE m + 1 \in T
    <2> SUFFICES ASSUME m + 1 \in 0 .. n PROVE LinesOK(d, h[m + 1])
      OBVIOUS
    <2>1. m \in 0 .. n /\ m + 1 # 0 /\ m + 1 - 1 = m /\ m + 1 \in 1 .. n
      OBVIOUS
    <2>2. h[m + 1] = Put(h[m], office, requests, m + 1) /\ LinesOK(d, h[m])
      BY <1>4, <2>1
    <2>3. PICK lines : lines = h[m]
      OBVIOUS
    <2>4. PICK k \in 1 .. Len(requests) : k = m + 1
      BY <1>1, <2>1
    <2>5. LinesOK(d, Put(lines, office, requests, k))
      BY <2>2, <2>3, PutKeeps
    <2>6. QED
      BY <2>2, <2>3, <2>4, <2>5
  <1>8. T = Nat
    <2>1. T \in SUBSET Nat
      OBVIOUS
    <2> HIDE DEF T
    <2>2. QED
      BY <2>1, <1>6, <1>7, SetInduction
  <1>9. QED
    BY <1>5, <1>8

----------------------------------------------------------------------------
(* The statement of a worker.                                              *)

\* A request that has gone on.
Moved(q, at, got) ==
    [q EXCEPT !.at = IF at \in {"good", "bad", "broke"} THEN "done" ELSE at, !.good = at = "good", !.got = got]

\* Whose rows of cards and pieces it changes, and how those of whom else.
Grows(old, new) == \A c \in Card : new[c] >= old[c]
OthersKept(q, d) ==
    \A g \in User :
        /\ \/ d.card[g] = db.card[g]
           \/ g = q.e /\ q.cmd \notin Loose
           \/ g = q.e /\ q.cmd = "pay" /\ (CardsAlone(g) => Grows(db.card[g], d.card[g]))
        /\ \/ d.piece[g] = db.piece[g]
           \/ g = q.e /\ q.cmd \notin Loose
           \/ q.cmd = "xcreset" /\ (PiecesAlone(g) => Grows(db.piece[g], d.piece[g]))

\* What a statement has to leave behind.
Works(r, at, got) ==
    /\ Goes(r, at, got)
    /\ TablesOK(db') /\ OthersKept(At(r), db')
    /\ Known(Moved(At(r), at, got)) /\ Held(db', Moved(At(r), at, got))
Step(r) == \E at, got : Works(r, at, got)

LEMMA TwoWorkers ==
    ASSUME scenario \in Scenarios, NEW th \in Thread, NEW k \in Thread, th # k
    PROVE  threads # 1
  BY AccountAssumption DEF Thread, threads

\* What another worker has found in the rows, it still finds there.
LEMMA HeldElsewhere ==
    ASSUME scenario \in Scenarios, TablesOK(db), NEW d, TablesOK(d),
           NEW th \in Thread, NEW k \in Thread, th # k,
           NEW q, Payload(q), Placed(th, q), OthersKept(q, d),
           NEW p, Payload(p), Placed(k, p), Held(db, p)
    PROVE  Held(d, p)
  <1>1. threads # 1
    BY TwoWorkers
  <1>2. p.cmd \in {"buy", "sell", "xcbuy"} /\ q.cmd \notin Loose => p.e # q.e
    BY DEF Placed, Loose
  <1>3. ASSUME p.e \in User, p.cmd \in {"buy", "sell", "xcbuy"}, CardsAlone(p.e)
        PROVE  \/ d.card[p.e] = db.card[p.e]
               \/ p.cmd = "sell" /\ Grows(db.card[p.e], d.card[p.e])
               \/ p.cmd = "xcbuy"
    <2>1. \/ d.card[p.e] = db.card[p.e]
          \/ p.e = q.e /\ q.cmd = "pay" /\ Grows(db.card[p.e], d.card[p.e])
      BY <1>2, <1>3 DEF OthersKept
    <2>2. ASSUME p.e = q.e, q.cmd = "pay", p.cmd = "buy" PROVE FALSE
      <3>1. May("pay", p.e) /\ May("buy", p.e)
        BY <2>2 DEF Payload
      <3>2. QED
        BY <1>1, <1>3, <3>1 DEF CardsAlone
    <2>3. QED
      BY <1>3, <2>1, <2>2
  <1>4. ASSUME p.e \in User, p.cmd \in {"buy", "sell", "xcbuy"}, PiecesAlone(p.e)
        PROVE  \/ d.piece[p.e] = db.piece[p.e]
               \/ p.cmd = "sell" /\ Grows(db.piece[p.e], d.piece[p.e])
    <2>1. \/ d.piece[p.e] = db.piece[p.e]
          \/ q.cmd = "xcreset" /\ Grows(db.piece[p.e], d.piece[p.e])
      BY <1>2, <1>4 DEF OthersKept
    <2>2. ASSUME q.cmd = "xcreset", p.cmd \in {"buy", "xcbuy"} PROVE FALSE
      <3>1. May("xcreset", q.e) /\ q.e \in User /\ May(p.cmd, p.e)
        BY <2>2 DEF Payload
      <3>2. QED
        BY <1>1, <1>4, <2>2, <3>1 DEF PiecesAlone
    <2>3. QED
      BY <1>4, <2>1, <2>2
  <1>5. ASSUME NEW e \in User, NEW c \in Card, CardsAlone(e)
        PROVE  db.card[e][c] \in Int /\ d.card[e][c] \in Int
    BY <1>5, AccountAssumption DEF TablesOK, CardsOK, NoCards
  <1>6. ASSUME NEW e \in User, NEW c \in Card, PiecesAlone(e)
        PROVE  db.piece[e][c] \in Int /\ d.piece[e][c] \in Int
    BY <1>6, AccountAssumption DEF TablesOK, PiecesOK
  <1>7. HeldBuy(d, p)
    BY <1>3, <1>4 DEF Held, HeldBuy
  <1>8. HeldXcbuy(d, p)
    BY <1>4 DEF Held, HeldXcbuy
  <1>9. HeldSell(d, p)
    <2> SUFFICES ASSUME p.cmd = "sell", p.at = "sell", p.e \in User, p.a.card \in Card
                 PROVE  /\ p.a.kind = "card" /\ CardsAlone(p.e) => d.card[p.e][p.a.card] >= p.a.n
                        /\ p.a.kind = "piece" /\ PiecesAlone(p.e) => d.piece[p.e][p.a.card] >= p.a.n
      BY DEF HeldSell
    <2>1. PICK n \in Nat : n = p.a.n
      BY DEF Payload
    <2>2. PICK c \in Card : c = p.a.card
      OBVIOUS
    <2>3. ASSUME p.a.kind = "card", CardsAlone(p.e) PROVE d.card[p.e][c] >= n
      <3>1. db.card[p.e][c] >= n
        BY <2>1, <2>2, <2>3 DEF Held, HeldSell
      <3>2. d.card[p.e][c] >= db.card[p.e][c]
        BY <1>3, <1>5, <2>3 DEF Grows
      <3>3. QED
        BY <1>5, <2>3, <3>1, <3>2
    <2>4. ASSUME p.a.kind = "piece", PiecesAlone(p.e) PROVE d.piece[p.e][c] >= n
      <3>1. db.piece[p.e][c] >= n
        BY <2>1, <2>2, <2>4 DEF Held, HeldSell
      <3>2. d.piece[p.e][c] >= db.piece[p.e][c]
        BY <1>4, <1>6, <2>4 DEF Grows
      <3>3. QED
        BY <1>6, <2>4, <3>1, <3>2
    <2>5. QED
      BY <2>1, <2>2, <2>3, <2>4
  <1>10. QED
    BY <1>7, <1>8, <1>9 DEF Held

\* Its own line: those before are done, those behind are new.
LEMMA LineStep ==
    ASSUME NEW th, NEW s, Line(th, s, db), NEW d, NEW i \in 1 .. Len(s),
           s[i].at # "done", \A j \in 1 .. i - 1 : s[j].at = "done",
           NEW at, NEW got, Known(Moved(s[i], at, got)), Held(d, Moved(s[i], at, got))
    PROVE  Line(th, [s EXCEPT ![i] = Moved(s[i], at, got)], d)
  <1>1. PICK S : s \in Seq(S)
    BY DEF Line
  <1>2. PICK n \in Nat : n = Len(s)
    BY <1>1
  <1>3. PICK m : m = Moved(s[i], at, got)
    OBVIOUS
  <1>4. RequestOK(m) /\ Placed(th, m) /\ Held(d, m)
    <2>1. RequestOK(s[i]) /\ Placed(th, s[i])
      BY DEF Line
    <2>2. /\ DOMAIN m = {"cmd", "by", "e", "a", "at", "good", "got"}
          /\ m.cmd = s[i].cmd /\ m.e = s[i].e /\ m.a = s[i].a
      BY <1>3, <2>1 DEF Moved, RequestOK
    <2>3. Payload(m)
      BY <2>1, <2>2 DEF Payload, RequestOK
    <2>4. QED
      BY <1>3, <2>1, <2>2, <2>3 DEF RequestOK, Placed
  <1>5. PICK t : t = [s EXCEPT ![i] = m]
    OBVIOUS
  <1>6. t \in Seq(S \cup {m}) /\ Len(t) = n /\ t[i] = m /\ \A j \in 1 .. n : j # i => t[j] = s[j]
    BY <1>1, <1>2, <1>5
  <1>7. \A j \in 1 .. n : i < j => s[j].at = "new"
    BY <1>2 DEF Line
  <1>8. ASSUME NEW j \in 1 .. n, j # i PROVE RequestOK(s[j]) /\ Placed(th, s[j]) /\ Held(d, s[j])
    <2>1. RequestOK(s[j]) /\ Placed(th, s[j])
      BY <1>2 DEF Line
    <2>2. s[j].at \in {"done", "new"}
      BY <1>2, <1>7, <1>8
    <2>3. QED
      BY <2>1, <2>2 DEF Held, HeldBuy, HeldSell, HeldXcbuy
  <1>9. \A j \in 1 .. n : RequestOK(t[j]) /\ Placed(th, t[j]) /\ Held(d, t[j])
    BY <1>4, <1>6, <1>8
  <1>10. ASSUME NEW j \in 1 .. n, NEW k \in 1 .. n, j < k, t[j].at # "done" PROVE t[k].at = "new"
    <2>1. j < i => s[j].at = "done"
      BY <1>2, <1>10
    <2>2. ~ (j < i)
      BY <1>2, <1>6, <1>10, <2>1
    <2>3. i < k
      BY <1>2, <1>10, <2>2
    <2>4. QED
      BY <1>2, <1>6, <1>7, <2>3
  <1>11. Line(th, t, d)
    BY <1>6, <1>9, <1>10 DEF Line
  <1>12. QED
    BY <1>3, <1>5, <1>11

LEMMA WorkKeeps ==
    ASSUME IInv, NEW r \in Requests, Current(r), Step(r)
    PROVE  TablesOK(db') /\ LinesOK(db', queue')
  <1>1. PICK at, got : Works(r, at, got)
    BY DEF Step
  <1>2. PICK th \in Thread : \E j \in 1 .. Len(queue[th]) : r = <<th, j>>
    BY DEF Requests
  <1>3. PICK s : s = queue[th]
    OBVIOUS
  <1>4. PICK i \in 1 .. Len(s) : r = <<th, i>>
    BY <1>2, <1>3
  <1>5. At(r) = s[i] /\ s[i].at # "done" /\ \A j \in 1 .. i - 1 : s[j].at = "done"
    BY <1>3, <1>4 DEF At, Current
  <1>6. PICK d : d = db'
    OBVIOUS
  <1>7. /\ TablesOK(d) /\ OthersKept(s[i], d)
        /\ Known(Moved(s[i], at, got)) /\ Held(d, Moved(s[i], at, got))
    BY <1>1, <1>5, <1>6 DEF Works
  <1>8. PICK t : t = [s EXCEPT ![i] = Moved(s[i], at, got)]
    OBVIOUS
  <1>9. queue' = [queue EXCEPT ![th] = t]
    BY <1>1, <1>3, <1>4, <1>8 DEF Works, Goes, Moved
  <1>10. Line(th, t, d)
    BY <1>3, <1>5, <1>7, <1>8, LineStep DEF IInv, LinesOK
  <1>11. ASSUME NEW k \in Thread, k # th PROVE Line(k, queue[k], d)
    <2>1. Line(k, queue[k], db)
      BY DEF IInv, LinesOK
    <2>2. RequestOK(s[i]) /\ Placed(th, s[i])
      BY <1>3 DEF IInv, LinesOK, Line
    <2>3. ASSUME NEW j \in 1 .. Len(queue[k]) PROVE Held(d, queue[k][j])
      <3>1. RequestOK(queue[k][j]) /\ Placed(k, queue[k][j]) /\ Held(db, queue[k][j])
        BY <2>1 DEF Line
      <3>2. QED
        BY <1>7, <1>11, <2>2, <3>1, HeldElsewhere DEF IInv, RequestOK
    <2>4. QED
      BY <2>1, <2>3 DEF Line
  <1>12. DOMAIN queue = Thread
    BY DEF IInv, LinesOK
  <1>13. LinesOK(d, queue')
    BY <1>9, <1>10, <1>11, <1>12 DEF LinesOK
  <1>14. QED
    BY <1>6, <1>7, <1>13

----------------------------------------------------------------------------
(* Statements that touch no table of IInv.                                 *)

Same(d) == Names \subseteq DOMAIN d /\ \A f \in Names : d[f] = db[f]
Quick(r) == Same(db') /\ \E at, got : Goes(r, at, got)

LEMMA SameDb ==
    ASSUME ShapeOK(db)
    PROVE  Same(db)
  BY DEF Same, ShapeOK

LEMMA SameMoney ==
    ASSUME NEW d, Same(d), NEW e, NEW gold, NEW crystal
    PROVE  Same(UpdateMoney(d, e, gold, crystal))
  BY DEF Same, Names, PerUser, UpdateMoney

LEMMA SameGranted ==
    ASSUME NEW d, Same(d), NEW worth
    PROVE  Same(Granted(d, worth))
  BY DEF Same, Names, PerUser, Granted

LEMMA SameGiven ==
    ASSUME NEW d, Same(d), NEW reward
    PROVE  Same(Given(d, reward))
  BY DEF Same, Names, PerUser, Given

LEMMA SameKeeps ==
    ASSUME TablesOK(db), NEW d, Same(d), NEW q
    PROVE  TablesOK(d) /\ OthersKept(q, d)
  <1>1. /\ d.card = db.card /\ d.piece = db.piece /\ d.deck = db.deck /\ d.power = db.power
        /\ d.times = db.times /\ d.tower = db.tower /\ d.status_tower = db.status_tower
        /\ d.status_arena = db.status_arena /\ d.arena = db.arena
        /\ d.exchange = db.exchange /\ d.offers = db.offers
    BY DEF Same, Names, PerUser
  <1>2. ShapeOK(d)
    BY DEF Same, ShapeOK, TablesOK, Names
  <1>3. QED
    BY <1>1, <1>2 DEF TablesOK, CardsOK, PiecesOK, DecksOK, PowerOK, TimesOK, TowersOK, ArenaOK, OffersOK, OthersKept

\* Shop and Decks.
LEMMA QuickDecks ==
    ASSUME ShapeOK(db), NEW r, NEW ok,
           \/ InLoadBatch(r, ok) \/ InSaveBatch(r, ok) \/ InMoneyExchange(r, ok) \/ InLoadCard(r, ok)
           \/ InLoadDeck(r, ok) \/ InLoadHeroDeck(r, ok) \/ InLoadSlot(r, ok) \/ InSlotList(r, ok)
           \/ InSaveSlot(r, ok) \/ InRenameSlot(r, ok) \/ InBuySlot(r, ok) \/ InListHeroSlot(r, ok)
           \/ InGetHeroSlot(r, ok) \/ InInsertHeroSlot(r, ok)
    PROVE  Quick(r)
  <1>0. Same(db)
    BY SameDb
  <1>1. CASE InLoadBatch(r, ok)
    BY <1>0, <1>1 DEF InLoadBatch, Read, Write, Try, Quick
  <1>2. CASE InSaveBatch(r, ok)
    BY <1>0, <1>2, SameMoney DEF InSaveBatch, Read, Write, Try, Quick, Same, Names, PerUser
  <1>3. CASE InMoneyExchange(r, ok)
    BY <1>0, <1>3, SameMoney DEF InMoneyExchange, Read, Write, Try, Quick
  <1>4. CASE InLoadCard(r, ok)
    BY <1>0, <1>4 DEF InLoadCard, Read, Write, Try, Quick
  <1>5. CASE InLoadDeck(r, ok)
    BY <1>0, <1>5 DEF InLoadDeck, Read, Write, Try, Quick
  <1>6. CASE InLoadHeroDeck(r, ok)
    BY <1>0, <1>6 DEF InLoadHeroDeck, Read, Write, Try, Quick
  <1>7. CASE InLoadSlot(r, ok)
    BY <1>0, <1>7 DEF InLoadSlot, Read, Write, Try, Quick
  <1>8. CASE InSlotList(r, ok)
    BY <1>0, <1>8 DEF InSlotList, Read, Write, Try, Quick
  <1>9. CASE InSaveSlot(r, ok)
    BY <1>0, <1>9 DEF InSaveSlot, Read, Write, Try, Quick, SaveSlot, Same, Names, PerUser
  <1>10. CASE InRenameSlot(r, ok)
    BY <1>0, <1>10 DEF InRenameSlot, Read, Write, Try, Quick
  <1>11. CASE InBuySlot(r, ok)
    BY <1>0, <1>11, SameMoney DEF InBuySlot, Read, Write, Try, Quick, DeleteSlot, Same, Names, PerUser
  <1>12. CASE InListHeroSlot(r, ok)
    BY <1>0, <1>12 DEF InListHeroSlot, Read, Write, Try, Quick
  <1>13. CASE InGetHeroSlot(r, ok)
    BY <1>0, <1>13 DEF InGetHeroSlot, Read, Write, Try, Quick
  <1>14. CASE InInsertHeroSlot(r, ok)
    BY <1>0, <1>14 DEF InInsertHeroSlot, Read, Write, Try, Quick, InsertHeroSlot, Same, Names, PerUser
  <1>15. QED
    BY <1>1, <1>2, <1>3, <1>4, <1>5, <1>6, <1>7, <1>8, <1>9, <1>10, <1>11, <1>12, <1>13, <1>14

\* Market, Rewards and Heroes.
LEMMA QuickHeroes ==
    ASSUME ShapeOK(db), NEW r, NEW ok,
           \/ InLoadPiece(r, ok) \/ InListExchange(r, ok) \/ InGetPieceShop(r, ok) \/ InUpdatePieceShop(r, ok)
           \/ InRefreshPieceShop(r, ok) \/ InLoadMission(r, ok) \/ InSaveMission(r, ok)
           \/ InGetDailyLogin(r, ok) \/ InLoadHeroData(r, ok) \/ InUpdateHeroMission(r, ok)
           \/ InSubmitHeroMission(r, ok)
    PROVE  Quick(r)
  <1>0. Same(db)
    BY SameDb
  <1>1. CASE InLoadPiece(r, ok)
    BY <1>0, <1>1 DEF InLoadPiece, Read, Write, Try, Quick
  <1>2. CASE InListExchange(r, ok)
    BY <1>0, <1>2 DEF InListExchange, Read, Write, Try, Quick
  <1>3. CASE InGetPieceShop(r, ok)
    BY <1>0, <1>3 DEF InGetPieceShop, Read, Write, Try, Quick
  <1>4. CASE InUpdatePieceShop(r, ok)
    BY <1>0, <1>4 DEF InUpdatePieceShop, Read, Write, Try, Quick, Same, Names, PerUser
  <1>5. CASE InRefreshPieceShop(r, ok)
    BY <1>0, <1>5, SameMoney DEF InRefreshPieceShop, Read, Write, Try, Quick, Same, Names, PerUser
  <1>6. CASE InLoadMission(r, ok)
    BY <1>0, <1>6 DEF InLoadMission, Read, Write, Try, Quick
  <1>7. CASE InSaveMission(r, ok)
    BY <1>0, <1>7 DEF InSaveMission, Read, Write, Try, Quick, Same, Names, PerUser
  <1>8. CASE InGetDailyLogin(r, ok)
    BY <1>0, <1>8 DEF InGetDailyLogin, Read, Write, Try, Quick
  <1>9. CASE InLoadHeroData(r, ok)
    BY <1>0, <1>9 DEF InLoadHeroData, Read, Write, Try, Quick, InitHero, RefreshHeroMission, Same, Names, PerUser
  <1>10. CASE InUpdateHeroMission(r, ok)
    BY <1>0, <1>10 DEF InUpdateHeroMission, Read, Write, Try, Quick, SaveHeroMissionList, Same, Names, PerUser
  <1>11. CASE InSubmitHeroMission(r, ok)
    BY <1>0, <1>11 DEF InSubmitHeroMission, Read, Write, Try, Quick, Given, RefreshHeroMission, Same, Names, PerUser
  <1>12. QED
    BY <1>1, <1>2, <1>3, <1>4, <1>5, <1>6, <1>7, <1>8, <1>9, <1>10, <1>11

\* Campaign, Chapters, Games, Fights, Arena and the login.
LEMMA QuickArena ==
    ASSUME ShapeOK(db), NEW r, NEW ok,
           \/ InUpdateGatePos(r, ok) \/ InSolo(r, ok) \/ InGetChapter(r, ok) \/ InReplaceChapter(r, ok)
           \/ InUpdateSignals(r, ok) \/ InFight(r, ok) \/ InFightRobot(r, ok) \/ InArenaTopList(r, ok)
           \/ InArenaTarget(r, ok) \/ InArenaGame(r, ok) \/ InLogin(r, ok)
    PROVE  Quick(r)
  <1>0. Same(db)
    BY SameDb
  <1>1. CASE InUpdateGatePos(r, ok)
    BY <1>0, <1>1 DEF InUpdateGatePos, Read, Write, Try, Quick, Same, Names, PerUser
  <1>2. CASE InSolo(r, ok)
    BY <1>0, <1>2 DEF InSolo, Read, Write, Try, Quick
  <1>3. CASE InGetChapter(r, ok)
    BY <1>0, <1>3 DEF InGetChapter, Read, Write, Try, Quick
  <1>4. CASE InReplaceChapter(r, ok)
    BY <1>0, <1>4 DEF InReplaceChapter, Read, Write, Try, Quick, ReplaceChapter, Same, Names, PerUser
  <1>5. CASE InUpdateSignals(r, ok)
    BY <1>0, <1>5 DEF InUpdateSignals, Read, Write, Try, Quick, Same, Names, PerUser
  <1>6. CASE InFight(r, ok)
    BY <1>0, <1>6 DEF InFight, Read, Write, Try, Quick
  <1>7. CASE InFightRobot(r, ok)
    BY <1>0, <1>7 DEF InFightRobot, Read, Write, Try, Quick
  <1>8. CASE InArenaTopList(r, ok)
    BY <1>0, <1>8 DEF InArenaTopList, Read, Write, Try, Quick
  <1>9. CASE InArenaTarget(r, ok)
    BY <1>0, <1>9 DEF InArenaTarget, Read, Write, Try, Quick
  <1>10. CASE InArenaGame(r, ok)
    BY <1>0, <1>10 DEF InArenaGame, Read, Write, Try, Quick
  <1>11. CASE InLogin(r, ok)
    BY <1>0, <1>11 DEF InLogin, Read, Write, Try, Quick
  <1>12. QED
    BY <1>1, <1>2, <1>3, <1>4, <1>5, <1>6, <1>7, <1>8, <1>9, <1>10, <1>11

----------------------------------------------------------------------------
(* Statements that change rows: of the user's money, and of a table.       *)

\* The tables are in order, and the others' rows are left to them.
Fine(q, d) == TablesOK(d) /\ OthersKept(q, d)
Kept(r) == Fine(At(r), db') /\ \E at, got : Goes(r, at, got)

Alike(d, x) == Names \subseteq DOMAIN x /\ \A f \in Names : x[f] = d[f]

LEMMA AlikeFine ==
    ASSUME NEW q, NEW d, Fine(q, d), NEW x, Alike(d, x)
    PROVE  Fine(q, x)
  <1>1. /\ x.card = d.card /\ x.piece = d.piece /\ x.deck = d.deck /\ x.power = d.power
        /\ x.times = d.times /\ x.tower = d.tower /\ x.status_tower = d.status_tower
        /\ x.status_arena = d.status_arena /\ x.arena = d.arena
        /\ x.exchange = d.exchange /\ x.offers = d.offers
    BY DEF Alike, Names, PerUser
  <1>2. ShapeOK(x)
    BY DEF Alike, ShapeOK, Fine, TablesOK, Names
  <1>3. QED
    BY <1>1, <1>2 DEF Fine, TablesOK, CardsOK, PiecesOK, DecksOK, PowerOK, TimesOK, TowersOK, ArenaOK, OffersOK,
                      OthersKept

LEMMA FineMoney ==
    ASSUME NEW q, NEW d, Fine(q, d), NEW e, NEW gold, NEW crystal
    PROVE  Fine(q, UpdateMoney(d, e, gold, crystal))
  <1>1. Alike(d, UpdateMoney(d, e, gold, crystal))
    BY DEF Fine, TablesOK, ShapeOK, Alike, Names, PerUser, UpdateMoney
  <1>2. QED
    BY <1>1, AlikeFine

LEMMA FineGranted ==
    ASSUME NEW q, NEW d, Fine(q, d), NEW worth
    PROVE  Fine(q, Granted(d, worth))
  <1>1. Alike(d, Granted(d, worth))
    BY DEF Fine, TablesOK, ShapeOK, Alike, Names, PerUser, Granted
  <1>2. QED
    BY <1>1, AlikeFine

LEMMA FineGiven ==
    ASSUME NEW q, NEW d, Fine(q, d), NEW reward
    PROVE  Fine(q, Given(d, reward))
  <1>1. Alike(d, Given(d, reward))
    BY DEF Fine, TablesOK, ShapeOK, Alike, Names, PerUser, Given
  <1>2. QED
    BY <1>1, AlikeFine

LEMMA FineSame ==
    ASSUME TablesOK(db), NEW q, NEW d, Same(d)
    PROVE  Fine(q, d)
  BY SameKeeps DEF Fine

LEMMA FineDb ==
    ASSUME TablesOK(db), NEW q
    PROVE  Fine(q, db)
  BY FineSame, SameDb DEF TablesOK

\* All tables but one are as they were.
But(d, table) == Names \subseteq DOMAIN d /\ \A f \in Names : f # table => d[f] = db[f]

LEMMA ButCard ==
    ASSUME TablesOK(db), NEW d, But(d, "card"), DOMAIN d.card = User, CardsOK(d)
    PROVE  TablesOK(d)
  <1>1. /\ d.piece = db.piece /\ d.deck = db.deck /\ d.power = db.power
        /\ d.times = db.times /\ d.tower = db.tower /\ d.status_tower = db.status_tower
        /\ d.status_arena = db.status_arena /\ d.arena = db.arena
        /\ d.exchange = db.exchange /\ d.offers = db.offers
    BY DEF But, Names, PerUser
  <1>2. ShapeOK(d)
    BY DEF But, ShapeOK, TablesOK, Names
  <1>3. QED
    BY <1>1, <1>2 DEF TablesOK, PiecesOK, DecksOK, PowerOK, TimesOK, TowersOK, ArenaOK, OffersOK

LEMMA ButPiece ==
    ASSUME TablesOK(db), NEW d, But(d, "piece"), DOMAIN d.piece = User, PiecesOK(d)
    PROVE  TablesOK(d)
  <1>1. /\ d.card = db.card /\ d.deck = db.deck /\ d.power = db.power
        /\ d.times = db.times /\ d.tower = db.tower /\ d.status_tower = db.status_tower
        /\ d.status_arena = db.status_arena /\ d.arena = db.arena
        /\ d.exchange = db.exchange /\ d.offers = db.offers
    BY DEF But, Names, PerUser
  <1>2. ShapeOK(d)
    BY DEF But, ShapeOK, TablesOK, Names
  <1>3. QED
    BY <1>1, <1>2 DEF TablesOK, CardsOK, DecksOK, PowerOK, TimesOK, TowersOK, ArenaOK, OffersOK

\* None of the two that requests have looked at.
LEMMA ButOther ==
    ASSUME TablesOK(db), NEW d, NEW table \in Names \ {"card", "piece"}, But(d, table), NEW q,
           table \in PerUser => DOMAIN d[table] = User,
           table = "deck" => DecksOK(d), table = "power" => PowerOK(d), table = "times" => TimesOK(d),
           table \in {"tower", "status_tower"} => TowersOK(d), table \in {"arena", "status_arena"} => ArenaOK(d),
           table = "exchange" => SalesOK(d.exchange), table = "offers" => d.offers \in Nat
    PROVE  Fine(q, d)
  <1>1. \A f \in Names : f # table => d[f] = db[f]
    BY DEF But
  <1>2. ShapeOK(d)
    BY DEF But, ShapeOK, TablesOK, Names
  <1>3. d.card = db.card /\ d.piece = db.piece
    BY <1>1 DEF Names, PerUser
  <1>4. OthersKept(q, d) /\ CardsOK(d) /\ PiecesOK(d)
    BY <1>3 DEF OthersKept, TablesOK, CardsOK, PiecesOK
  <1>5. DecksOK(d) /\ PowerOK(d) /\ TimesOK(d)
    BY <1>1 DEF TablesOK, DecksOK, PowerOK, TimesOK, Names, PerUser
  <1>6. TowersOK(d)
    BY <1>1 DEF TablesOK, TowersOK, Names, PerUser
  <1>7. ArenaOK(d)
    BY <1>1 DEF TablesOK, ArenaOK, Names, PerUser
  <1>8. OffersOK(d)
    BY <1>1 DEF TablesOK, OffersOK, Names, PerUser
  <1>9. QED
    BY <1>2, <1>4, <1>5, <1>6, <1>7, <1>8 DEF Fine, TablesOK

\* Rows of its own.
LEMMA OwnRows ==
    ASSUME NEW q, q.cmd \notin Loose, NEW d,
           \A g \in User : g # q.e => d.card[g] = db.card[g] /\ d.piece[g] = db.piece[g]
    PROVE  OthersKept(q, d)
  BY DEF OthersKept

\* How often a card is in a list of finite length.
LEMMA HowOftenNat ==
    ASSUME NEW cards, IsFiniteSet(DOMAIN cards), NEW c
    PROVE  HowOften(cards, c) \in Nat
  <1>1. {i \in DOMAIN cards : cards[i] = c} \subseteq DOMAIN cards
    OBVIOUS
  <1>2. IsFiniteSet({i \in DOMAIN cards : cards[i] = c})
    BY <1>1, FS_Subset
  <1>3. QED
    BY <1>2, FS_CardinalityType DEF HowOften

\* A row of cards or of pieces within its limits.
CardRow(row) == row = NoCards \/ row \in [Card -> 0 .. EVIL_NUM_CARD_MAX]
PieceRow(row) == row \in [Card -> 0 .. EVIL_NUM_PIECE_MAX]

\* One user's row of cards, or of pieces, is another one.
LEMMA CardsFine ==
    ASSUME TablesOK(db), NEW q, q.cmd \notin Loose, NEW d, But(d, "card"), NEW row,
           d.card = [db.card EXCEPT ![q.e] = row], q.e \in User /\ CardsAlone(q.e) => CardRow(row)
    PROVE  Fine(q, d)
  <1>1. DOMAIN db.card = User
    BY DEF TablesOK, ShapeOK, PerUser
  <1>2. DOMAIN d.card = User /\ \A g \in User : d.card[g] = IF g = q.e THEN row ELSE db.card[g]
    BY <1>1
  <1>3. CardsOK(d)
    BY <1>2 DEF TablesOK, CardsOK, CardRow
  <1>4. d.piece = db.piece
    BY DEF But, Names, PerUser
  <1>5. QED
    BY <1>2, <1>3, <1>4, ButCard, OwnRows DEF Fine

LEMMA PiecesFine ==
    ASSUME TablesOK(db), NEW q, q.cmd \notin Loose, NEW d, But(d, "piece"), NEW row,
           d.piece = [db.piece EXCEPT ![q.e] = row], q.e \in User /\ PiecesAlone(q.e) => PieceRow(row)
    PROVE  Fine(q, d)
  <1>1. DOMAIN db.piece = User
    BY DEF TablesOK, ShapeOK, PerUser
  <1>2. DOMAIN d.piece = User /\ \A g \in User : d.piece[g] = IF g = q.e THEN row ELSE db.piece[g]
    BY <1>1
  <1>3. PiecesOK(d)
    BY <1>2 DEF TablesOK, PiecesOK, PieceRow
  <1>4. d.card = db.card
    BY DEF But, Names, PerUser
  <1>5. QED
    BY <1>2, <1>3, <1>4, ButPiece, OwnRows DEF Fine

LEMMA RowsOf ==
    ASSUME TablesOK(db), NEW e \in User
    PROVE  (CardsAlone(e) => CardRow(db.card[e])) /\ (PiecesAlone(e) => PieceRow(db.piece[e]))
  BY DEF TablesOK, CardsOK, PiecesOK, CardRow, PieceRow

\* update_card(): one more or one less.
LEMMA UpdateCardFine ==
    ASSUME TablesOK(db), NEW q, q.cmd \notin Loose, NEW c, NEW n \in {1, -1}
    PROVE  Fine(q, UpdateCard(db, q.e, c, n))
  <1>1. PICK row : row = [db.card[q.e] EXCEPT ![c] = IF @ + n \in 0 .. EVIL_NUM_CARD_MAX THEN @ + n ELSE @]
    OBVIOUS
  <1>2. PICK d : d = UpdateCard(db, q.e, c, n)
    OBVIOUS
  <1>3. d.card = [db.card EXCEPT ![q.e] = row]
    BY <1>1, <1>2 DEF UpdateCard, TablesOK, ShapeOK, Names, PerUser
  <1>4. But(d, "card")
    BY <1>2 DEF UpdateCard, But, TablesOK, ShapeOK, Names, PerUser
  <1>5. ASSUME CardRow(db.card[q.e]) PROVE CardRow(row)
    <2>1. CASE db.card[q.e] = NoCards
      <3>1. row = NoCards
        BY <1>1, <2>1, AccountAssumption DEF NoCards
      <3>2. QED
        BY <3>1 DEF CardRow
    <2>2. CASE db.card[q.e] \in [Card -> 0 .. EVIL_NUM_CARD_MAX]
      BY <1>1, <2>2, AccountAssumption DEF CardRow
    <2>3. QED
      BY <1>5, <2>1, <2>2 DEF CardRow
  <1>6. QED
    BY <1>2, <1>3, <1>4, <1>5, RowsOf, CardsFine

\* add_card_list(): of each card of a list one more.
LEMMA AddEachRow ==
    ASSUME NEW row, CardRow(row), NEW cards, IsFiniteSet(DOMAIN cards)
    PROVE  CardRow(AddEach(row, cards)) /\ Grows(row, AddEach(row, cards))
  <1>1. \A c \in Card : HowOften(cards, c) \in Nat
    BY HowOftenNat
  <1>2. CASE row = NoCards
    <2>1. AddEach(row, cards) = NoCards
      BY <1>2, AccountAssumption DEF AddEach, NoCards
    <2>2. QED
      BY <1>2, <2>1 DEF CardRow, Grows, NoCards
  <1>3. CASE row \in [Card -> 0 .. EVIL_NUM_CARD_MAX]
    <2>1. ASSUME NEW c \in Card
          PROVE  AddEach(row, cards)[c] \in 0 .. EVIL_NUM_CARD_MAX /\ AddEach(row, cards)[c] >= row[c]
      <3>1. PICK n \in Nat : n = HowOften(cards, c)
        BY <1>1
      <3>2. PICK k \in 0 .. EVIL_NUM_CARD_MAX : k = row[c]
        BY <1>3
      <3>3. AddEach(row, cards)[c] = Clip(k + n, EVIL_NUM_CARD_MAX)
        BY <3>1, <3>2 DEF AddEach
      <3>4. QED
        BY <3>2, <3>3, AccountAssumption DEF Clip
    <2>2. AddEach(row, cards) \in [Card -> 0 .. EVIL_NUM_CARD_MAX]
      <3>1. DOMAIN AddEach(row, cards) = Card /\ AddEach(row, cards) = [c \in Card |-> AddEach(row, cards)[c]]
        BY DEF AddEach
      <3>2. QED
        BY <2>1, <3>1
    <2>3. QED
      BY <2>1, <2>2 DEF CardRow, Grows
  <1>4. QED
    BY <1>2, <1>3 DEF CardRow

LEMMA UpdateEachFine ==
    ASSUME TablesOK(db), NEW q, q.cmd \notin Loose \/ q.cmd = "pay", NEW cards, IsFiniteSet(DOMAIN cards)
    PROVE  Fine(q, UpdateEach(db, q.e, cards))
  <1>1. PICK row : row = AddEach(db.card[q.e], cards)
    OBVIOUS
  <1>2. PICK d : d = UpdateEach(db, q.e, cards)
    OBVIOUS
  <1>3. d.card = [db.card EXCEPT ![q.e] = row]
    BY <1>1, <1>2 DEF UpdateEach, TablesOK, ShapeOK, Names, PerUser
  <1>4. But(d, "card")
    BY <1>2 DEF UpdateEach, But, TablesOK, ShapeOK, Names, PerUser
  <1>5. q.e \in User /\ CardsAlone(q.e) => CardRow(row) /\ Grows(db.card[q.e], row)
    BY <1>1, RowsOf, AddEachRow
  <1>6. CASE q.cmd \notin Loose
    BY <1>2, <1>3, <1>4, <1>5, <1>6, CardsFine
  <1>7. CASE q.cmd = "pay"
    <2>1. DOMAIN db.card = User
      BY DEF TablesOK, ShapeOK, PerUser
    <2>2. DOMAIN d.card = User /\ \A g \in User : d.card[g] = IF g = q.e THEN row ELSE db.card[g]
      BY <1>3, <2>1
    <2>3. CardsOK(d)
      BY <1>5, <2>2 DEF TablesOK, CardsOK, CardRow
    <2>4. d.piece = db.piece
      BY <1>4 DEF But, Names, PerUser
    <2>5. OthersKept(q, d)
      BY <1>5, <1>7, <2>2, <2>4 DEF OthersKept
    <2>6. QED
      BY <1>2, <1>4, <2>2, <2>3, <2>5, ButCard DEF Fine
  <1>8. QED
    BY <1>6, <1>7

\* update_piece(): as many more or less as it may be.
LEMMA UpdatePieceFine ==
    ASSUME TablesOK(db), NEW q, q.cmd \notin Loose, NEW c, NEW n \in Int, MayUpdatePiece(q.e, c, n)
    PROVE  Fine(q, UpdatePiece(db, q.e, c, n))
  <1>1. PICK row : row = [db.piece[q.e] EXCEPT ![c] = Clip(@ + n, EVIL_NUM_PIECE_MAX)]
    OBVIOUS
  <1>2. PICK d : d = UpdatePiece(db, q.e, c, n)
    OBVIOUS
  <1>3. d.piece = [db.piece EXCEPT ![q.e] = row]
    BY <1>1, <1>2 DEF UpdatePiece, TablesOK, ShapeOK, Names, PerUser
  <1>4. But(d, "piece")
    BY <1>2 DEF UpdatePiece, But, TablesOK, ShapeOK, Names, PerUser
  <1>5. ASSUME PieceRow(db.piece[q.e]) PROVE PieceRow(row)
    <2>1. DOMAIN row = Card /\ \A k \in Card : k # c => row[k] = db.piece[q.e][k]
      BY <1>1, <1>5 DEF PieceRow
    <2>2. ASSUME c \in Card PROVE row[c] \in 0 .. EVIL_NUM_PIECE_MAX
      <3>1. PICK k \in 0 .. EVIL_NUM_PIECE_MAX : k = db.piece[q.e][c]
        BY <1>5, <2>2 DEF PieceRow
      <3>2. row[c] = Clip(k + n, EVIL_NUM_PIECE_MAX) /\ k + n >= 0
        BY <1>1, <1>5, <2>2, <3>1 DEF PieceRow, MayUpdatePiece
      <3>3. QED
        BY <3>1, <3>2, AccountAssumption DEF Clip
    <2>3. row = [k \in Card |-> row[k]]
      BY <1>1, <1>5 DEF PieceRow
    <2>4. QED
      BY <1>5, <2>1, <2>2, <2>3 DEF PieceRow
  <1>6. QED
    BY <1>2, <1>3, <1>4, <1>5, RowsOf, PiecesFine

LEMMA UpdatePieceListFine ==
    ASSUME TablesOK(db), NEW q, q.cmd \notin Loose, NEW list \in [Card -> Nat]
    PROVE  Fine(q, UpdatePieceList(db, q.e, list))
  <1>1. PICK row : row = [c \in Card |-> Clip(db.piece[q.e][c] + list[c], EVIL_NUM_PIECE_MAX)]
    OBVIOUS
  <1>2. PICK d : d = UpdatePieceList(db, q.e, list)
    OBVIOUS
  <1>3. d.piece = [db.piece EXCEPT ![q.e] = row]
    BY <1>1, <1>2 DEF UpdatePieceList, TablesOK, ShapeOK, Names, PerUser
  <1>4. But(d, "piece")
    BY <1>2 DEF UpdatePieceList, But, TablesOK, ShapeOK, Names, PerUser
  <1>5. ASSUME PieceRow(db.piece[q.e]) PROVE PieceRow(row)
    BY <1>1, <1>5, AccountAssumption DEF PieceRow, Clip
  <1>6. QED
    BY <1>2, <1>3, <1>4, <1>5, RowsOf, PiecesFine

\* save_deck(), set_power().
LEMMA ReplaceDeckFine ==
    ASSUME TablesOK(db), NEW q, NEW e, NEW slot, NEW list, Digits(list)
    PROVE  Fine(q, ReplaceDeck(e, slot, list))
  <1>1. PICK d : d = ReplaceDeck(e, slot, list)
    OBVIOUS
  <1>2. But(d, "deck") /\ d.deck = [db.deck EXCEPT ![e] = [slot |-> slot, list |-> list]]
    BY <1>1 DEF ReplaceDeck, But, TablesOK, ShapeOK, Names, PerUser
  <1>3. DOMAIN d.deck = User /\ DecksOK(d)
    BY <1>2 DEF TablesOK, ShapeOK, PerUser, DecksOK
  <1>4. QED
    BY <1>1, <1>2, <1>3, ButOther DEF Names, PerUser

LEMMA SetPowerFine ==
    ASSUME TablesOK(db), NEW q, NEW e, NEW power, e \in User => power \in Nat
    PROVE  Fine(q, SetPower(e, power))
  <1>1. PICK d : d = SetPower(e, power)
    OBVIOUS
  <1>2. But(d, "power") /\ d.power = [db.power EXCEPT ![e] = [left |-> power, at |-> now]]
    BY <1>1 DEF SetPower, But, TablesOK, ShapeOK, Names, PerUser
  <1>3. DOMAIN d.power = User /\ PowerOK(d)
    BY <1>2 DEF TablesOK, ShapeOK, PerUser, PowerOK
  <1>4. QED
    BY <1>1, <1>2, <1>3, ButOther DEF Names, PerUser

\* The ranks of the arena: that a finite set of numbers has a greatest one.
LEMMA Bounded ==
    ASSUME NEW S, IsFiniteSet(S), S \subseteq Nat
    PROVE  \E m \in Nat : \A x \in S : x <= m
  <1>1. PICK n \in Nat : ExistsBijection(1 .. n, S)
    BY FS_CardinalityType
  <1>2. PICK f \in [1 .. n -> S] : \A x \in S : \E i \in 1 .. n : f[i] = x
    BY <1>1 DEF ExistsBijection, Bijection, Surjection
  <1> DEFINE T == {k \in Nat : k <= n => \E m \in Nat : \A i \in 1 .. k : f[i] <= m}
  <1>3. 0 \in T
    OBVIOUS
  <1>4. ASSUME NEW k \in T PROVE k + 1 \in T
    <2> SUFFICES ASSUME k + 1 <= n PROVE \E m \in Nat : \A i \in 1 .. k + 1 : f[i] <= m
      OBVIOUS
    <2>1. PICK m \in Nat : \A i \in 1 .. k : f[i] <= m
      OBVIOUS
    <2>2. PICK x \in Nat : x = f[k + 1]
      <3>1. k + 1 \in 1 .. n
        OBVIOUS
      <3>2. f[k + 1] \in Nat
        BY <3>1
      <3>3. QED
        BY <3>2
    <2>3. PICK y \in Nat : y = m + x
      OBVIOUS
    <2>4. ASSUME NEW i \in 1 .. k + 1 PROVE f[i] <= y
      <3>1. CASE i = k + 1
        BY <2>2, <2>3, <3>1
      <3>2. CASE i \in 1 .. k
        <4>1. i \in 1 .. n /\ f[i] <= m
          BY <2>1, <3>2
        <4>2. f[i] \in Nat
          BY <4>1
        <4>3. QED
          BY <2>3, <4>1, <4>2
      <3>3. QED
        BY <3>1, <3>2
    <2>5. QED
      BY <2>4
  <1>5. T = Nat
    <2>1. T \in SUBSET Nat
      OBVIOUS
    <2> HIDE DEF T
    <2>2. QED
      BY <2>1, <1>3, <1>4, SetInduction
  <1>6. \E m \in Nat : \A i \in 1 .. n : f[i] <= m
    <2>1. n \in T
      <3> HIDE DEF T
      <3>1. QED
        BY <1>5
    <2>2. QED
      BY <2>1
  <1>7. QED
    BY <1>2, <1>6

LEMMA Greatest ==
    ASSUME NEW S, IsFiniteSet(S), S \subseteq Nat, S # {}
    PROVE  Max(S) \in S /\ \A x \in S : Max(S) >= x
  <1> DEFINE U == {m \in Nat : \A x \in S : x <= m}
  <1>1. U # {} /\ U \in SUBSET Nat
    BY Bounded
  <1>2. PICK m \in U : \A k \in U : m <= k
    BY <1>1, LeastNat
  <1>3. m \in S
    <2> SUFFICES ASSUME m \notin S PROVE FALSE
      OBVIOUS
    <2>1. \A x \in S : x < m
      BY <1>2
    <2>2. m # 0
      <3>1. PICK x \in S : x < m
        BY <2>1
      <3>2. x \in Nat
        OBVIOUS
      <3>3. QED
        BY <3>1, <3>2
    <2>3. m - 1 \in U
      BY <2>1, <2>2
    <2>4. QED
      BY <1>2, <2>3
  <1>4. \A x \in S : m >= x
    BY <1>2
  <1>5. QED
    BY <1>3, <1>4 DEF Max

LEMMA LastRankLast ==
    ASSUME RanksOK(db.arena)
    PROVE  LastRank(db) \in Nat /\ \A g \in User : db.arena[g] <= LastRank(db)
  <1>1. PICK S : S = {0} \cup {db.arena[g] : g \in User}
    OBVIOUS
  <1>2. S \subseteq Nat /\ S # {} /\ LastRank(db) = Max(S) /\ \A g \in User : db.arena[g] \in S
    BY <1>1 DEF RanksOK, LastRank
  <1>3. IsFiniteSet(S)
    <2>1. IsFiniteSet({db.arena[g] : g \in User})
      <3>1. PICK f : f = [g \in User |-> db.arena[g]]
        OBVIOUS
      <3>2. PICK R : R = {db.arena[g] : g \in User}
        OBVIOUS
      <3>3. f \in Surjection(User, R)
        BY <3>1, <3>2 DEF Surjection
      <3>4. IsFiniteSet(R)
        BY <3>3, AccountAssumption, FS_Surjection
      <3>5. QED
        BY <3>2, <3>4
    <2>2. IsFiniteSet({0})
      BY FS_Singleton
    <2>3. QED
      BY <1>1, <2>1, <2>2, FS_Union
  <1>4. Max(S) \in S /\ \A x \in S : Max(S) >= x
    BY <1>2, <1>3, Greatest
  <1>5. QED
    BY <1>2, <1>4

\* New ranks for some.
LEMMA RanksFine ==
    ASSUME TablesOK(db), NEW q, NEW d, But(d, "arena"), RanksOK(d.arena)
    PROVE  Fine(q, d)
  <1>1. d.status_arena = db.status_arena
    BY DEF But, Names, PerUser
  <1>2. ArenaOK(d) /\ DOMAIN d.arena = User
    BY <1>1 DEF TablesOK, ArenaOK, RanksOK
  <1>3. QED
    BY <1>2, ButOther DEF Names, PerUser

LEMMA AddPlayerArenaFine ==
    ASSUME TablesOK(db), NEW q, NEW e
    PROVE  Fine(q, AddPlayerArena(db, e))
  <1>1. RanksOK(db.arena)
    BY DEF TablesOK, ArenaOK
  <1>2. PICK n \in Nat : n = LastRank(db)
    BY <1>1, LastRankLast
  <1>3. \A g \in User : db.arena[g] \in Nat /\ db.arena[g] <= n
    BY <1>1, <1>2, LastRankLast DEF RanksOK
  <1>4. PICK d : d = AddPlayerArena(db, e)
    OBVIOUS
  <1>5. But(d, "arena") /\ d.arena = [db.arena EXCEPT ![e] = n + 1]
    BY <1>2, <1>4 DEF AddPlayerArena, But, TablesOK, ShapeOK, Names, PerUser
  <1>6. RanksOK(d.arena)
    <2>1. DOMAIN d.arena = User /\ \A g \in User : d.arena[g] = IF g = e THEN n + 1 ELSE db.arena[g]
      BY <1>1, <1>5 DEF RanksOK
    <2>2. d.arena \in [User -> Nat]
      <3>1. d.arena = [g \in User |-> d.arena[g]]
        BY <1>1, <1>5 DEF RanksOK
      <3>2. QED
        BY <1>3, <2>1, <3>1
    <2>3. ASSUME NEW g \in User, NEW h \in User, g # h, d.arena[g] > 0 PROVE d.arena[g] # d.arena[h]
      BY <1>1, <1>3, <2>1, <2>3 DEF RanksOK
    <2>4. QED
      BY <2>2, <2>3 DEF RanksOK
  <1>7. QED
    BY <1>4, <1>5, <1>6, RanksFine

LEMMA AddPlayersArenaFine ==
    ASSUME TablesOK(db), NEW q, NEW S \in SUBSET User
    PROVE  Fine(q, AddPlayersArena(db, SetToSeq(S)))
  <1>1. RanksOK(db.arena)
    BY DEF TablesOK, ArenaOK
  <1>2. PICK n \in Nat : n = LastRank(db)
    BY <1>1, LastRankLast
  <1>3. \A g \in User : db.arena[g] \in Nat /\ db.arena[g] <= n
    BY <1>1, <1>2, LastRankLast DEF RanksOK
  <1>4. PICK list : list = SetToSeq(S)
    OBVIOUS
  <1>5. \E k \in Nat : DOMAIN list = 1 .. k
    <2>1. IsFiniteSet(S)
      BY AccountAssumption, FS_Subset
    <2>2. Cardinality(S) \in Nat /\ ExistsBijection(1 .. Cardinality(S), S)
      BY <2>1, FS_CardinalityType
    <2>3. PICK f \in [1 .. Cardinality(S) -> S] : IsInjective(f)
      BY <2>2 DEF ExistsBijection, Bijection, Injection, IsInjective
    <2>4. list \in [1 .. Cardinality(S) -> S]
      BY <1>4, <2>3 DEF SetToSeq
    <2>5. QED
      BY <2>2, <2>4
  <1>6. PICK d : d = AddPlayersArena(db, list)
    OBVIOUS
  <1> DEFINE pos(g) == CHOOSE i \in DOMAIN list : list[i] = g
  <1>7. But(d, "arena")
    BY <1>6 DEF AddPlayersArena, But, TablesOK, ShapeOK, Names, PerUser
  <1>8. d.arena = [g \in User |-> IF g \notin ToSet(list) THEN db.arena[g] ELSE n + pos(g)]
    BY <1>2, <1>6 DEF AddPlayersArena, TablesOK, ShapeOK, Names, PerUser
  <1>9. \A g \in ToSet(list) : pos(g) \in Nat \ {0} /\ list[pos(g)] = g
    <2>1. ASSUME NEW g \in ToSet(list) PROVE \E i \in DOMAIN list : list[i] = g
      BY DEF ToSet
    <2>2. QED
      BY <1>5, <2>1
  <1> HIDE DEF pos
  <1>10. RanksOK(d.arena)
    <2>1. d.arena \in [User -> Nat]
      BY <1>3, <1>8, <1>9
    <2>2. ASSUME NEW e \in User, NEW g \in User, e # g, d.arena[e] > 0 PROVE d.arena[e] # d.arena[g]
      <3>1. CASE e \in ToSet(list) /\ g \in ToSet(list)
        <4>1. pos(e) # pos(g)
          BY <1>9, <2>2, <3>1
        <4>2. QED
          BY <1>8, <1>9, <3>1, <4>1
      <3>2. CASE e \in ToSet(list) /\ g \notin ToSet(list)
        BY <1>3, <1>8, <1>9, <3>2
      <3>3. CASE e \notin ToSet(list) /\ g \in ToSet(list)
        BY <1>3, <1>8, <1>9, <3>3
      <3>4. CASE e \notin ToSet(list) /\ g \notin ToSet(list)
        BY <1>1, <1>8, <2>2, <3>4 DEF RanksOK
      <3>5. QED
        BY <3>1, <3>2, <3>3, <3>4
    <2>3. QED
      BY <2>1, <2>2 DEF RanksOK
  <1>11. QED
    BY <1>4, <1>6, <1>7, <1>10, RanksFine

LEMMA ExchangeArenaRankFine ==
    ASSUME TablesOK(db), NEW q, NEW e \in User, NEW t \in User
    PROVE  Fine(q, ExchangeArenaRank(db, e, t))
  <1>1. RanksOK(db.arena)
    BY DEF TablesOK, ArenaOK
  <1>2. PICK d : d = ExchangeArenaRank(db, e, t)
    OBVIOUS
  <1>3. But(d, "arena") /\ d.arena = [db.arena EXCEPT ![e] = db.arena[t], ![t] = db.arena[e]]
    BY <1>2 DEF ExchangeArenaRank, But, TablesOK, ShapeOK, Names, PerUser
  <1>4. DOMAIN d.arena = User /\ \A g \in User : d.arena[g] = IF g = t THEN db.arena[e] ELSE
                                                         IF g = e THEN db.arena[t] ELSE db.arena[g]
    BY <1>1, <1>3 DEF RanksOK
  <1>5. RanksOK(d.arena)
    <2>1. d.arena \in [User -> Nat]
      <3>1. d.arena = [g \in User |-> d.arena[g]]
        BY <1>1, <1>3 DEF RanksOK
      <3>2. QED
        BY <1>1, <1>4, <3>1 DEF RanksOK
    <2>2. QED
      BY <1>1, <1>4, <2>1 DEF RanksOK
  <1>6. QED
    BY <1>2, <1>3, <1>5, RanksFine

\* The offers of the exchange.
LEMMA OffersFine ==
    ASSUME TablesOK(db), NEW q, NEW d, Names \subseteq DOMAIN d, \A f \in PerUser : d[f] = db[f], OffersOK(d)
    PROVE  Fine(q, d)
  <1>1. /\ d.card = db.card /\ d.piece = db.piece /\ d.deck = db.deck /\ d.power = db.power
        /\ d.times = db.times /\ d.tower = db.tower /\ d.status_tower = db.status_tower
        /\ d.status_arena = db.status_arena /\ d.arena = db.arena
    BY DEF PerUser
  <1>2. ShapeOK(d)
    BY DEF ShapeOK, TablesOK
  <1>3. QED
    BY <1>1, <1>2 DEF Fine, OthersKept, TablesOK, CardsOK, PiecesOK, DecksOK, PowerOK, TimesOK, TowersOK, ArenaOK

LEMMA OneMoreOffer ==
    ASSUME NEW sales, SalesOK(sales), NEW k \in Nat, NEW a, "n" \in DOMAIN a, a.n \in Nat, NEW b
    PROVE  SalesOK(With(sales, [x \in {k} |-> With(a, b)]))
  <1>1. PICK v : v = With(a, b)
    OBVIOUS
  <1>2. "n" \in DOMAIN v /\ v.n = a.n
    BY <1>1 DEF With
  <1>3. PICK f : f = With(sales, [x \in {k} |-> v])
    OBVIOUS
  <1>4. DOMAIN f = DOMAIN sales \cup {k} /\ \A x \in DOMAIN f : f[x] = IF x \in DOMAIN sales THEN sales[x] ELSE v
    BY <1>3 DEF With
  <1>5. SalesOK(f)
    BY <1>2, <1>4 DEF SalesOK
  <1>6. QED
    BY <1>1, <1>3, <1>5

LEMMA QuickKept ==
    ASSUME TablesOK(db), NEW r, Quick(r)
    PROVE  Kept(r)
  BY FineSame DEF Quick, Kept

\* A count of pieces that stays within its limits.
AddPiece(d, e, c, n) == [d EXCEPT !.piece[e][c] = @ + n]

LEMMA AddPieceFine ==
    ASSUME TablesOK(db), NEW q, q.cmd \notin Loose, NEW c, NEW n,
           q.e \in User /\ c \in Card /\ PiecesAlone(q.e) => db.piece[q.e][c] + n \in 0 .. EVIL_NUM_PIECE_MAX
    PROVE  Fine(q, AddPiece(db, q.e, c, n))
  <1>1. PICK row : row = [db.piece[q.e] EXCEPT ![c] = @ + n]
    OBVIOUS
  <1>2. PICK d : d = AddPiece(db, q.e, c, n)
    OBVIOUS
  <1>3. d.piece = [db.piece EXCEPT ![q.e] = row]
    BY <1>1, <1>2 DEF AddPiece, TablesOK, ShapeOK, Names, PerUser
  <1>4. But(d, "piece")
    BY <1>2 DEF AddPiece, But, TablesOK, ShapeOK, Names, PerUser
  <1>5. ASSUME PieceRow(db.piece[q.e]), c \in Card => db.piece[q.e][c] + n \in 0 .. EVIL_NUM_PIECE_MAX
        PROVE  PieceRow(row)
    BY <1>1, <1>5 DEF PieceRow
  <1>6. QED
    BY <1>2, <1>3, <1>4, <1>5, RowsOf, PiecesFine

LEMMA KeptSaveCard ==
    ASSUME TablesOK(db), NEW r, NEW ok, RequestOK(At(r)), At(r).cmd = "scard", InSaveCard(r, ok)
    PROVE  Kept(r)
  <1>1. PICK q : q = At(r)
    OBVIOUS
  <1>2. Fine(q, InsertCard(q.e, q.a.list))
    <2>1. PICK list : list = q.a.list
      OBVIOUS
    <2>2. PICK d : d = [db EXCEPT !.card[q.e] = list]
      OBVIOUS
    <2>3. But(d, "card") /\ d.card = [db.card EXCEPT ![q.e] = list]
      BY <2>2 DEF But, TablesOK, ShapeOK, Names, PerUser
    <2>4. CardRow(list)
      BY <1>1, <2>1 DEF RequestOK, Payload, CardRow
    <2>5. Fine(q, d)
      BY <1>1, <2>3, <2>4, CardsFine DEF Loose
    <2>6. Fine(q, Granted(Given(d, <<"job", q.e>>), CardWorth(list)))
      BY <2>5, FineGiven, FineGranted
    <2>7. QED
      BY <2>1, <2>2, <2>6 DEF InsertCard
  <1>3. Digits(q.a.list) => Fine(q, ReplaceDeck(q.e, 1, q.a.list))
    BY ReplaceDeckFine
  <1>4. Fine(q, InsertFirstSlot(q.e, GetHero(q.a.list), q.a.list))
    <2>1. Same(InsertFirstSlot(q.e, GetHero(q.a.list), q.a.list))
      BY DEF InsertFirstSlot, Same, TablesOK, ShapeOK, Names, PerUser
    <2>2. QED
      BY <2>1, FineSame
  <1>5. Fine(q, AddPlayerArena(db, q.e)) /\ Fine(q, db)
    BY AddPlayerArenaFine, FineDb
  <1>6. QED
    BY <1>1, <1>2, <1>3, <1>4, <1>5 DEF InSaveCard, SaveCard, Write, Try, Kept

LEMMA KeptSaveDeck ==
    ASSUME TablesOK(db), NEW r, NEW ok, InSaveDeck(r, ok) \/ InChooseHeroSlot(r, ok)
    PROVE  Kept(r)
  <1>1. PICK q : q = At(r)
    OBVIOUS
  <1>2. Fine(q, db) /\ \A slot, list : Digits(list) => Fine(q, ReplaceDeck(q.e, slot, list))
    BY ReplaceDeckFine, FineDb
  <1>3. Fine(q, SaveSlot(q.e, q.a.slot, q.a.list))
    <2>1. Same(SaveSlot(q.e, q.a.slot, q.a.list))
      BY DEF SaveSlot, Same, TablesOK, ShapeOK, Names, PerUser
    <2>2. QED
      BY <2>1, FineSame
  <1>4. CASE InSaveDeck(r, ok)
    BY <1>1, <1>2, <1>3, <1>4 DEF InSaveDeck, SaveDeck, Write, Kept
  <1>5. CASE InChooseHeroSlot(r, ok)
    BY <1>1, <1>2, <1>5 DEF InChooseHeroSlot, SaveDeck, Write, Read, Kept
  <1>6. QED
    BY <1>4, <1>5

LEMMA KeptPick ==
    ASSUME TablesOK(db), NEW r, NEW ok, At(r).cmd = "pick", InPick(r, ok)
    PROVE  Kept(r)
  <1>1. Fine(At(r), db) /\ Fine(At(r), UpdateMoney(db, At(r).e, -At(r).a.gold, -At(r).a.crystal))
    BY FineDb, FineMoney
  <1>2. Fine(At(r), UpdateCard(db, At(r).e, At(r).a.card, 1))
    BY UpdateCardFine DEF Loose
  <1>3. QED
    BY <1>1, <1>2 DEF InPick, Write, Kept

LEMMA KeptMergePiece ==
    ASSUME TablesOK(db), NEW r, NEW ok, RequestOK(At(r)), At(r).cmd = "mpiece", InMergePiece(r, ok)
    PROVE  Kept(r)
  <1>1. PICK q : q = At(r)
    OBVIOUS
  <1>2. Fine(q, db) /\ Fine(q, UpdateMoney(db, q.e, -q.a.gold, -q.a.crystal))
    BY FineDb, FineMoney
  <1>3. Fine(q, UpdateCard(db, q.e, q.a.card, 1)) /\ Fine(q, UpdateCard(db, q.e, q.a.card, -1))
    BY <1>1, UpdateCardFine DEF Loose
  <1>4. q.a.n \in Int /\ -q.a.n \in Int
    BY <1>1 DEF RequestOK, Payload
  <1>5. /\ MayUpdatePiece(q.e, q.a.card, q.a.n) => Fine(q, UpdatePiece(db, q.e, q.a.card, q.a.n))
        /\ MayUpdatePiece(q.e, q.a.card, -q.a.n) => Fine(q, UpdatePiece(db, q.e, q.a.card, -q.a.n))
    BY <1>1, <1>4, UpdatePieceFine DEF Loose
  <1>6. QED
    BY <1>1, <1>2, <1>3, <1>5 DEF InMergePiece, Write, Try, Kept

LEMMA KeptPieceBuy ==
    ASSUME TablesOK(db), NEW r, NEW ok, RequestOK(At(r)), At(r).cmd = "pbuy", InPieceBuy(r, ok)
    PROVE  Kept(r)
  <1>1. PICK q : q = At(r)
    OBVIOUS
  <1>2. Fine(q, db) /\ Fine(q, UpdateMoney(db, q.e, -q.a.gold, -q.a.crystal))
    BY FineDb, FineMoney
  <1>3. PICK d : d = [db EXCEPT !.pshop[q.e].bought = @ \cup {q.a.pos}]
    OBVIOUS
  <1>4. Same(d)
    BY <1>3 DEF Same, TablesOK, ShapeOK, Names, PerUser
  <1>5. Fine(q, Given(d, <<"pshop", q.e, db.pshop[q.e].shown, q.a.pos>>))
    BY <1>4, FineSame, FineGiven
  <1>6. q.a.n \in Int
    BY <1>1 DEF RequestOK, Payload
  <1>7. MayUpdatePiece(q.e, q.a.card, q.a.n) => Fine(q, UpdatePiece(db, q.e, q.a.card, q.a.n))
    BY <1>1, <1>6, UpdatePieceFine DEF Loose
  <1>8. QED
    BY <1>1, <1>2, <1>3, <1>5, <1>7 DEF InPieceBuy, Write, Kept

LEMMA KeptPickPiece ==
    ASSUME TablesOK(db), NEW r, NEW ok, At(r).cmd = "ppiece", InPickPiece(r, ok)
    PROVE  Kept(r)
  <1>1. PICK q : q = At(r)
    OBVIOUS
  <1>2. Fine(q, db) /\ Fine(q, UpdateMoney(db, q.e, -q.a.gold, -q.a.crystal))
    BY FineDb, FineMoney
  <1>3. PICK n : n = q.got[1]
    OBVIOUS
  <1>4. db.piece[q.e][q.a.card] + n \in 0 .. EVIL_NUM_PIECE_MAX => Fine(q, AddPiece(db, q.e, q.a.card, n))
    BY <1>1, AddPieceFine DEF Loose
  <1>5. QED
    BY <1>1, <1>2, <1>3, <1>4 DEF InPickPiece, UpdatePieceUltimate, AddPiece, Read, Write, Kept

LEMMA KeptAddExchangePiece ==
    ASSUME TablesOK(db), NEW r, NEW ok, RequestOK(At(r)), At(r).cmd = "xcadd", InAddExchangePiece(r, ok)
    PROVE  Kept(r)
  <1>1. PICK q : q = At(r)
    OBVIOUS
  <1>2. Fine(q, db)
    BY FineDb
  <1>3. "n" \in DOMAIN q.a /\ q.a.n \in Nat /\ -q.a.n \in Int
    BY <1>1 DEF RequestOK, Payload
  <1>4. MayUpdatePiece(q.e, q.a.card, -q.a.n) => Fine(q, UpdatePiece(db, q.e, q.a.card, -q.a.n))
    BY <1>1, <1>3, UpdatePieceFine DEF Loose
  <1>5. PICK sales : sales = With(db.exchange, [x \in {db.offers + 1} |-> With(q.a, [eid |-> q.e])])
    OBVIOUS
  <1>6. SalesOK(sales) /\ db.offers + 1 \in Nat
    <2>1. db.offers + 1 \in Nat /\ SalesOK(db.exchange)
      BY DEF TablesOK, OffersOK
    <2>2. PICK k, a, b : k = db.offers + 1 /\ a = q.a /\ b = [eid |-> q.e]
      BY <2>1
    <2>3. SalesOK(With(db.exchange, [x \in {k} |-> With(a, b)]))
      BY <1>3, <2>1, <2>2, OneMoreOffer
    <2>4. QED
      BY <1>5, <2>1, <2>2, <2>3
  <1>7. PICK d : d = [db EXCEPT !.exchange = sales, !.offers = @ + 1]
    OBVIOUS
  <1>8. Fine(q, d)
    <2>1. /\ Names \subseteq DOMAIN d /\ \A f \in PerUser : d[f] = db[f]
          /\ d.exchange = sales /\ d.offers = db.offers + 1
      BY <1>7 DEF TablesOK, ShapeOK, Names, PerUser
    <2>2. QED
      BY <1>6, <2>1, OffersFine DEF OffersOK
  <1>9. QED
    BY <1>1, <1>2, <1>4, <1>5, <1>7, <1>8 DEF InAddExchangePiece, Write, Kept

\* One row of a table that requests do not look at.
LEMMA TimesFine ==
    ASSUME TablesOK(db), NEW q, NEW d, But(d, "times"), NEW e, NEW row,
           d.times = [db.times EXCEPT ![e] = row], \A t \in {"ai", "gold", "crystal"} : row[t] >= 0
    PROVE  Fine(q, d)
  <1>1. DOMAIN db.times = User
    BY DEF TablesOK, ShapeOK, PerUser
  <1>2. DOMAIN d.times = User /\ \A g \in User : d.times[g] = IF g = e THEN row ELSE db.times[g]
    BY <1>1
  <1>3. TimesOK(d)
    BY <1>2 DEF TablesOK, TimesOK
  <1>4. QED
    BY <1>2, <1>3, ButOther DEF Names, PerUser

LEMMA StatusArenaFine ==
    ASSUME TablesOK(db), NEW q, NEW d, But(d, "status_arena"), NEW e, NEW row,
           d.status_arena = [db.status_arena EXCEPT ![e] = row],
           e \in User => "times" \in DOMAIN row /\ row.times >= 0
    PROVE  Fine(q, d)
  <1>1. DOMAIN db.status_arena = User
    BY DEF TablesOK, ShapeOK, PerUser
  <1>2. /\ DOMAIN d.status_arena = User
        /\ \A g \in User : d.status_arena[g] = IF g = e THEN row ELSE db.status_arena[g]
    BY <1>1
  <1>3. d.arena = db.arena
    BY DEF But, Names, PerUser
  <1>4. ArenaOK(d)
    BY <1>2, <1>3 DEF TablesOK, ArenaOK
  <1>5. QED
    BY <1>2, <1>4, ButOther DEF Names, PerUser

LEMMA KeptMissionReward ==
    ASSUME TablesOK(db), NEW r, NEW ok, RequestOK(At(r)), At(r).cmd = "mreward", InMissionReward(r, ok)
    PROVE  Kept(r)
  <1>1. PICK q : q = At(r)
    OBVIOUS
  <1>2. PICK d : d = [UpdateMoney(db, q.e, q.a.gold, 0) EXCEPT !.lv[q.e] = @ + q.a.lv]
    OBVIOUS
  <1>3. Same(d)
    BY <1>2 DEF UpdateMoney, Same, TablesOK, ShapeOK, Names, PerUser
  <1>4. Same(Granted(d, q.a.gold + ListWorth(q.a.cards)))
    BY <1>3, SameGranted
  <1>5. Same(Given(Granted(d, q.a.gold + ListWorth(q.a.cards)), <<"mission", q.e, q.a.mis>>))
    BY <1>4, SameGiven
  <1>6. /\ Fine(q, Granted(d, q.a.gold + ListWorth(q.a.cards))) /\ Fine(q, db)
        /\ Fine(q, Given(Granted(d, q.a.gold + ListWorth(q.a.cards)), <<"mission", q.e, q.a.mis>>))
    BY <1>4, <1>5, FineSame, FineDb
  <1>7. Fine(q, UpdateEach(db, q.e, q.a.cards))
    BY <1>1, UpdateEachFine DEF RequestOK, Payload, Loose
  <1>8. QED
    BY <1>1, <1>2, <1>6, <1>7 DEF InMissionReward, Write, Try, Kept

LEMMA KeptLottery ==
    ASSUME TablesOK(db), NEW r, NEW ok, RequestOK(At(r)), At(r).cmd = "lottery", InLottery(r, ok)
    PROVE  Kept(r)
  <1>1. PICK q : q = At(r)
    OBVIOUS
  <1>2. Fine(q, db) /\ Fine(q, UpdateMoney(db, q.e, -q.a.gold, -q.a.crystal))
    BY FineDb, FineMoney
  <1>3. Fine(q, UpdateEach(db, q.e, q.a.cards))
    BY <1>1, UpdateEachFine DEF RequestOK, Payload, Loose
  <1>4. PICK d : d = [db EXCEPT !.signals[q.e] = q.a.signals \cup {q.a.unit}]
    OBVIOUS
  <1>5. Same(d)
    BY <1>4 DEF Same, TablesOK, ShapeOK, Names, PerUser
  <1>6. Fine(q, d)
    BY <1>5, FineSame
  <1>7. QED
    BY <1>1, <1>2, <1>3, <1>4, <1>6 DEF InLottery, Write, Kept

LEMMA KeptGetDailyReward ==
    ASSUME TablesOK(db), NEW r, NEW ok, RequestOK(At(r)), At(r).cmd = "dreward", InGetDailyReward(r, ok)
    PROVE  Kept(r)
  <1>1. PICK q : q = At(r)
    OBVIOUS
  <1>2. Fine(q, db) /\ \A worth : Fine(q, Granted(UpdateMoney(db, q.e, q.a.gold, 0), worth))
    BY FineDb, FineMoney, FineGranted
  <1>3. Fine(q, UpdateEach(db, q.e, q.a.cards)) /\ Fine(q, UpdatePieceList(db, q.e, q.a.pieces))
    BY <1>1, UpdateEachFine, UpdatePieceListFine DEF RequestOK, Payload, Loose
  <1>4. PICK d : d = [db EXCEPT !.daily[q.e] = [day |-> IF DiffDay(q.e) = 1 THEN @.day + 1 ELSE 1, last |-> Today]]
    OBVIOUS
  <1>5. Same(d)
    BY <1>4 DEF Same, TablesOK, ShapeOK, Names, PerUser
  <1>6. Fine(q, Given(d, <<"daily", q.e, Today>>))
    BY <1>5, SameGiven, FineSame
  <1>7. QED
    BY <1>1, <1>2, <1>3, <1>4, <1>6 DEF InGetDailyReward, Write, Try, Kept

LEMMA KeptChapterReward ==
    ASSUME TablesOK(db), NEW r, NEW ok, At(r).cmd = "chapter_reward", InChapterReward(r, ok)
    PROVE  Kept(r)
  <1>1. PICK q : q = At(r)
    OBVIOUS
  <1>2. Fine(q, db) /\ \A gold, crystal, worth : Fine(q, Granted(UpdateMoney(db, q.e, gold, crystal), worth))
    BY FineDb, FineMoney, FineGranted
  <1>3. \A c, worth : MayUpdatePiece(q.e, c, 1) => Fine(q, Granted(UpdatePiece(db, q.e, c, 1), worth))
    BY <1>1, UpdatePieceFine, FineGranted DEF Loose
  <1>4. \A c, worth : Fine(q, Granted(UpdateCard(db, q.e, c, 1), worth))
    BY <1>1, UpdateCardFine, FineGranted DEF Loose
  <1>5. PICK d : d = [db EXCEPT !.lv[q.e] = q.a.lv, !.exp[q.e] = q.a.exp]
    OBVIOUS
  <1>6. Same(d)
    BY <1>5 DEF Same, TablesOK, ShapeOK, Names, PerUser
  <1>7. Fine(q, d)
    BY <1>6, FineSame
  <1>8. QED
    BY <1>1, <1>2, <1>3, <1>4, <1>5, <1>7 DEF InChapterReward, Write, Try, Kept

LEMMA KeptWin ==
    ASSUME TablesOK(db), NEW r, NEW ok, InWin(r, ok)
    PROVE  Kept(r)
  <1>1. PICK q : q = At(r)
    OBVIOUS
  <1> DEFINE Runs(n) == [ai |-> db.times[n.e].ai + n.ai, gold |-> db.times[n.e].gold + n.vs_gold,
                         crystal |-> db.times[n.e].crystal + n.vs_crystal]
             Rows(n) == [Granted(UpdateMoney(db, n.e, n.gold, n.crystal), n.prize) EXCEPT
                            !.exp[n.e] = @ + n.exp, !.lv[n.e] = @ + n.lv,
                            !.times[n.e] = [ai |-> @.ai + n.ai, gold |-> @.gold + n.vs_gold,
                                            crystal |-> @.crystal + n.vs_crystal]]
             Bears(n) == /\ db.times[n.e].ai + n.ai >= 0 /\ db.times[n.e].gold + n.vs_gold >= 0
                         /\ db.times[n.e].crystal + n.vs_crystal >= 0
  <1>2. Fine(q, db)
    BY FineDb
  <1>3. ASSUME NEW n, Bears(n) PROVE Fine(q, Rows(n))
    <2>1. PICK d : d = Rows(n)
      OBVIOUS
    <2>2. But(d, "times")
      BY <2>1 DEF Granted, UpdateMoney, But, TablesOK, ShapeOK, Names, PerUser
    <2>3. d.times = [db.times EXCEPT ![n.e] = Runs(n)]
      BY <2>1 DEF Granted, UpdateMoney, TablesOK, ShapeOK, Names, PerUser
    <2>4. PICK row : row = Runs(n)
      OBVIOUS
    <2>5. \A t \in {"ai", "gold", "crystal"} : row[t] >= 0
      BY <1>3, <2>4
    <2>6. d.times = [db.times EXCEPT ![n.e] = row]
      BY <2>3, <2>4
    <2> HIDE DEF Runs
    <2>7. Fine(q, d)
      BY <2>2, <2>5, <2>6, TimesFine
    <2>8. QED
      BY <2>1, <2>7
  <1>4. QED
    BY <1>1, <1>2, <1>3 DEF InWin, Try, Kept

LEMMA KeptResetFightTimes ==
    ASSUME TablesOK(db), NEW r, NEW ok, InResetFightTimes(r, ok)
    PROVE  Kept(r)
  <1>1. PICK d : d = [db EXCEPT !.times = [e \in User |-> Design.fight_times]]
    OBVIOUS
  <1>2. But(d, "times") /\ d.times = [e \in User |-> Design.fight_times]
    BY <1>1 DEF But, TablesOK, ShapeOK, Names, PerUser
  <1>3. TimesOK(d) /\ DOMAIN d.times = User
    BY <1>2, DesignAssumption DEF TimesOK
  <1>4. \A q : Fine(q, d) /\ Fine(q, db)
    BY <1>2, <1>3, ButOther, FineDb DEF Names, PerUser
  <1>5. QED
    BY <1>1, <1>4 DEF InResetFightTimes, Write, Kept

LEMMA KeptArena ==
    ASSUME TablesOK(db), NEW r, NEW ok,
           InUpdateArenaTimes(r, ok) \/ InGetArenaReward(r, ok) \/ InInitArena(r, ok) \/ InResetArenaTimes(r, ok)
    PROVE  Kept(r)
  <1>1. PICK q : q = At(r)
    OBVIOUS
  <1>2. Fine(q, db)
    BY FineDb
  <1>3. CASE InUpdateArenaTimes(r, ok)
    <2>1. PICK d : d = [UpdateMoney(db, q.e, q.a.gold, q.a.crystal) EXCEPT !.status_arena[q.e].times = @ + q.a.n]
      OBVIOUS
    <2>2. PICK row : row = [db.status_arena[q.e] EXCEPT !.times = @ + q.a.n]
      OBVIOUS
    <2>3. But(d, "status_arena") /\ d.status_arena = [db.status_arena EXCEPT ![q.e] = row]
      BY <2>1, <2>2 DEF UpdateMoney, But, TablesOK, ShapeOK, Names, PerUser
    <2>4. db.status_arena[q.e].times + q.a.n >= 0 => Fine(q, d)
      BY <2>2, <2>3, StatusArenaFine DEF TablesOK, ArenaOK
    <2>5. QED
      BY <1>1, <1>2, <1>3, <2>1, <2>4 DEF InUpdateArenaTimes, Write, Kept
  <1>4. CASE InGetArenaReward(r, ok)
    <2>1. PICK d : d = [UpdateMoney(db, q.e, q.got.gold, q.got.crystal) EXCEPT
                           !.status_arena[q.e].last = q.got.half[1]]
      OBVIOUS
    <2>2. PICK row : row = [db.status_arena[q.e] EXCEPT !.last = q.got.half[1]]
      OBVIOUS
    <2>3. But(d, "status_arena") /\ d.status_arena = [db.status_arena EXCEPT ![q.e] = row]
      BY <2>1, <2>2 DEF UpdateMoney, But, TablesOK, ShapeOK, Names, PerUser
    <2>4. Fine(q, d)
      BY <2>2, <2>3, StatusArenaFine DEF TablesOK, ArenaOK
    <2>5. \A reward, worth : Fine(q, Granted(Given(d, reward), worth))
      BY <2>4, FineGiven, FineGranted
    <2>6. QED
      BY <1>1, <1>2, <1>4, <2>1, <2>5 DEF InGetArenaReward, Read, Write, Kept
  <1>5. CASE InInitArena(r, ok)
    <2>1. PICK S \in SUBSET User : S = {g \in User : HasDeck(g) /\ g \notin Ranked}
      OBVIOUS
    <2>2. Fine(q, AddPlayersArena(db, SetToSeq(S)))
      BY AddPlayersArenaFine
    <2>3. QED
      BY <1>1, <1>2, <1>5, <2>1, <2>2 DEF InInitArena, Write, Kept
  <1>6. CASE InResetArenaTimes(r, ok)
    <2>1. PICK d : d = [db EXCEPT !.status_arena = [g \in User |->
                                     [db.status_arena[g] EXCEPT !.times = Design.ARENA_TIMES_STD]]]
      OBVIOUS
    <2>2. /\ But(d, "status_arena")
          /\ d.status_arena = [g \in User |-> [db.status_arena[g] EXCEPT !.times = Design.ARENA_TIMES_STD]]
      BY <2>1 DEF But, TablesOK, ShapeOK, Names, PerUser
    <2>3. d.arena = db.arena
      BY <2>2 DEF But, Names, PerUser
    <2>4. ArenaOK(d) /\ DOMAIN d.status_arena = User
      BY <2>2, <2>3, DesignAssumption DEF TablesOK, ArenaOK
    <2>5. Fine(q, d)
      BY <2>2, <2>4, ButOther DEF Names, PerUser
    <2>6. QED
      BY <1>1, <1>2, <1>6, <2>1, <2>5 DEF InResetArenaTimes, Write, Kept
  <1>7. QED
    BY <1>3, <1>4, <1>5, <1>6

----------------------------------------------------------------------------
(* What a worker knows at its next statement.                              *)

LEMMA MovedIs ==
    ASSUME NEW q, RequestOK(q), NEW at, NEW got
    PROVE  /\ Moved(q, at, got).cmd = q.cmd /\ Moved(q, at, got).e = q.e /\ Moved(q, at, got).a = q.a
           /\ Moved(q, at, got).at = IF at \in {"good", "bad", "broke"} THEN "done" ELSE at
           /\ Moved(q, at, got).got = got
  BY DEF RequestOK, Moved

Special == {"buy", "sell", "uhslot", "xcbuy", "xcreset", "gift", "pay", "gate", "chapter", "tower", "tower_buff",
            "tower_result", "arenaexc"}

LEMMA KeptStep ==
    ASSUME NEW r, RequestOK(At(r)), At(r).cmd \notin Special, Kept(r)
    PROVE  Step(r)
  <1>1. PICK q : q = At(r)
    OBVIOUS
  <1>2. PICK at, got : Goes(r, at, got)
    BY DEF Kept
  <1>3. PICK m : m = Moved(q, at, got)
    OBVIOUS
  <1>4. m.cmd \notin Special
    BY <1>1, <1>3, MovedIs
  <1>5. Known(m) /\ \A d : Held(d, m)
    BY <1>4 DEF Special, Known, KnownOffer, KnownReward, KnownTower, Held, HeldBuy, HeldSell, HeldXcbuy
  <1>6. TablesOK(db') /\ OthersKept(q, db')
    BY <1>1 DEF Kept, Fine
  <1>7. Works(r, at, got)
    BY <1>1, <1>2, <1>3, <1>5, <1>6 DEF Works
  <1>8. QED
    BY <1>7 DEF Step

\* The end of a request: there is nothing to know.
LEMMA EndStep ==
    ASSUME NEW r, RequestOK(At(r)), Fine(At(r), db'), NEW at \in {"good", "bad", "broke"}, NEW got, Goes(r, at, got)
    PROVE  Step(r)
  <1>1. PICK m : m = Moved(At(r), at, got)
    OBVIOUS
  <1>2. m.at = "done"
    BY <1>1, MovedIs
  <1>3. Known(m) /\ \A d : Held(d, m)
    BY <1>2 DEF Known, KnownOffer, KnownReward, KnownTower, Held, HeldBuy, HeldSell, HeldXcbuy
  <1>4. Works(r, at, got)
    BY <1>1, <1>3 DEF Works, Fine
  <1>5. QED
    BY <1>4 DEF Step

\* A command that has nothing to find in the rows.
LEMMA KnownStep ==
    ASSUME NEW r, RequestOK(At(r)), Fine(At(r), db'), At(r).cmd \notin {"buy", "sell", "xcbuy"},
           NEW at, NEW got, Goes(r, at, got), Known(Moved(At(r), at, got))
    PROVE  Step(r)
  <1>1. PICK m : m = Moved(At(r), at, got)
    OBVIOUS
  <1>2. m.cmd \notin {"buy", "sell", "xcbuy"}
    BY <1>1, MovedIs
  <1>3. \A d : Held(d, m)
    BY <1>2 DEF Held, HeldBuy, HeldSell, HeldXcbuy
  <1>4. Works(r, at, got)
    BY <1>1, <1>3 DEF Works, Fine
  <1>5. QED
    BY <1>4 DEF Step

\* Shop: a count of cards changes by as many as were looked for.
LEMMA CountFine ==
    ASSUME TablesOK(db), NEW q, q.cmd \notin Loose, NEW d, NEW c, NEW table \in {"card", "piece"}, But(d, table), NEW v,
           d[table] = [db[table] EXCEPT ![q.e] = [@ EXCEPT ![c] = v]],
           q.e \in User /\ c \in Card =>
               /\ table = "card" /\ CardsAlone(q.e) => db.card[q.e] # NoCards /\ v \in 0 .. EVIL_NUM_CARD_MAX
               /\ table = "piece" /\ PiecesAlone(q.e) => v \in 0 .. EVIL_NUM_PIECE_MAX
    PROVE  Fine(q, d)
  <1>1. CASE table = "card"
    <2>1. PICK row : row = [db.card[q.e] EXCEPT ![c] = v]
      OBVIOUS
    <2>2. d.card = [db.card EXCEPT ![q.e] = row]
      BY <1>1, <2>1
    <2>3. ASSUME q.e \in User, CardsAlone(q.e), CardRow(db.card[q.e]) PROVE CardRow(row)
      <3>1. CASE c \in Card
        BY <1>1, <2>1, <2>3, <3>1 DEF CardRow
      <3>2. CASE c \notin Card
        BY <2>1, <2>3, <3>2 DEF CardRow, NoCards
      <3>3. QED
        BY <3>1, <3>2
    <2>4. QED
      BY <1>1, <2>2, <2>3, RowsOf, CardsFine
  <1>2. CASE table = "piece"
    <2>1. PICK row : row = [db.piece[q.e] EXCEPT ![c] = v]
      OBVIOUS
    <2>2. d.piece = [db.piece EXCEPT ![q.e] = row]
      BY <1>2, <2>1
    <2>3. ASSUME q.e \in User, PiecesAlone(q.e), PieceRow(db.piece[q.e]) PROVE PieceRow(row)
      BY <1>2, <2>1, <2>3 DEF PieceRow
    <2>4. QED
      BY <1>2, <2>2, <2>3, RowsOf, PiecesFine
  <1>3. QED
    BY <1>1, <1>2

LEMMA BuyStep ==
    ASSUME TablesOK(db), NEW r, NEW ok, RequestOK(At(r)), Held(db, At(r)), At(r).cmd = "buy", InBuyCard(r, ok)
    PROVE  Step(r)
  <1>1. PICK q : q = At(r)
    OBVIOUS
  <1>2. Fine(q, db) /\ q.cmd \notin Loose
    BY <1>1, FineDb DEF Loose
  <1>3. q.a.n \in Nat
    BY <1>1 DEF RequestOK, Payload
  <1> DEFINE Card1 == db.card[q.e][q.a.card] + q.a.n
             Piece1 == db.piece[q.e][q.a.card] + q.a.n
             Cards == [UpdateMoney(db, q.e, -q.a.gold, -q.a.crystal) EXCEPT !.card[q.e][q.a.card] = @ + q.a.n]
             Pieces == Astray([UpdateMoney(db, q.e, -q.a.gold, -q.a.crystal) EXCEPT !.piece[q.e][q.a.card] = @ + q.a.n],
                              q.e, q.a.card)
  <1>4. ASSUME q.a.kind = "card", q.at = "buy" PROVE Fine(q, Cards)
    <2>1. PICK d : d = Cards
      OBVIOUS
    <2>2. PICK v, c : v = Card1 /\ c = q.a.card
      OBVIOUS
    <2>3. But(d, "card") /\ d["card"] = [db["card"] EXCEPT ![q.e] = [@ EXCEPT ![c] = v]]
      BY <2>1, <2>2 DEF UpdateMoney, But, TablesOK, ShapeOK, Names, PerUser
    <2>4. ASSUME q.e \in User, c \in Card, CardsAlone(q.e)
          PROVE  db.card[q.e] # NoCards /\ v \in 0 .. EVIL_NUM_CARD_MAX
      <3>1. db.card[q.e][c] \in 0 .. EVIL_NUM_CARD_MAX - q.a.n
        BY <1>1, <1>4, <2>2, <2>4 DEF Held, HeldBuy
      <3>2. QED
        BY <1>3, <2>2, <2>4, <3>1, AccountAssumption DEF NoCards
    <2> HIDE DEF Card1
    <2>5. Fine(q, d)
      BY <1>2, <2>3, <2>4, CountFine
    <2>6. QED
      BY <2>1, <2>5
  <1>5. ASSUME q.a.kind = "piece", q.at = "buy" PROVE Fine(q, Pieces)
    <2>1. PICK d : d = Pieces
      OBVIOUS
    <2>2. PICK v, c : v = Piece1 /\ c = q.a.card
      OBVIOUS
    <2>3. But(d, "piece") /\ d["piece"] = [db["piece"] EXCEPT ![q.e] = [@ EXCEPT ![c] = v]]
      BY <2>1, <2>2 DEF Astray, UpdateMoney, But, TablesOK, ShapeOK, Names, PerUser
    <2>4. ASSUME q.e \in User, c \in Card, PiecesAlone(q.e)
          PROVE  v \in 0 .. EVIL_NUM_PIECE_MAX
      <3>1. db.piece[q.e][c] \in 0 .. EVIL_NUM_PIECE_MAX - q.a.n
        BY <1>1, <1>5, <2>2, <2>4 DEF Held, HeldBuy
      <3>2. QED
        BY <1>3, <2>2, <2>4, <3>1, AccountAssumption
    <2> HIDE DEF Piece1
    <2>5. Fine(q, d)
      BY <1>2, <2>3, <2>4, CountFine
    <2>6. QED
      BY <2>1, <2>5
  <1>6. ASSUME q.at = "new", UNCHANGED db, NEW got, Goes(r, "buy", got),
               \/ q.a.kind = "card" /\ db.card[q.e][q.a.card] \in 0 .. EVIL_NUM_CARD_MAX - q.a.n
               \/ q.a.kind = "piece" /\ db.piece[q.e][q.a.card] \in 0 .. EVIL_NUM_PIECE_MAX - q.a.n
        PROVE  Step(r)
    <2>1. PICK m : m = Moved(q, "buy", got)
      OBVIOUS
    <2>2. m.cmd = "buy" /\ m.e = q.e /\ m.a = q.a
      BY <1>1, <2>1, MovedIs
    <2>3. Known(m)
      BY <2>2 DEF Known, KnownOffer, KnownReward, KnownTower
    <2>4. Held(db, m)
      BY <1>6, <2>2 DEF Held, HeldBuy, HeldSell, HeldXcbuy
    <2>5. Works(r, "buy", got)
      BY <1>1, <1>2, <1>6, <2>1, <2>3, <2>4 DEF Works, Fine
    <2>6. QED
      BY <2>5 DEF Step
  <1>7. ASSUME Fine(q, db'), NEW got, Goes(r, "bad", got) \/ Goes(r, "good", got) PROVE Step(r)
    BY <1>1, <1>7, EndStep
  <1>8. CASE q.a.kind = "card" /\ BuyCard(r, ok)
    BY <1>1, <1>2, <1>4, <1>6, <1>7, <1>8 DEF BuyCard, GetCardCount, Read, Write
  <1>9. CASE q.a.kind = "piece" /\ BuyPiece(r, ok)
    BY <1>1, <1>2, <1>5, <1>6, <1>7, <1>9 DEF BuyPiece, GetPieceCount, Read, Write
  <1>10. QED
    BY <1>1, <1>8, <1>9 DEF InBuyCard

LEMMA SellStep ==
    ASSUME TablesOK(db), NEW r, NEW ok, RequestOK(At(r)), Held(db, At(r)), At(r).cmd = "sell", InSellCard(r, ok)
    PROVE  Step(r)
  <1>1. PICK q : q = At(r)
    OBVIOUS
  <1>2. Fine(q, db) /\ q.cmd \notin Loose
    BY <1>1, FineDb DEF Loose
  <1>3. q.a.n \in Nat
    BY <1>1 DEF RequestOK, Payload
  <1> DEFINE Card1 == db.card[q.e][q.a.card] - q.a.n
             Piece1 == db.piece[q.e][q.a.card] - q.a.n
             Cards == AstrayAtLimit([UpdateMoney(db, q.e, q.a.gold, q.a.crystal) EXCEPT !.card[q.e][q.a.card] = @ - q.a.n],
                             q.e, q.a.card)
             Pieces == [UpdateMoney(db, q.e, q.a.gold, q.a.crystal) EXCEPT !.piece[q.e][q.a.card] = @ - q.a.n]
  <1>4. ASSUME q.a.kind = "card", q.at = "sell" PROVE Fine(q, Cards)
    <2>1. PICK d : d = Cards
      OBVIOUS
    <2>2. PICK v, c : v = Card1 /\ c = q.a.card
      OBVIOUS
    <2>3. But(d, "card") /\ d["card"] = [db["card"] EXCEPT ![q.e] = [@ EXCEPT ![c] = v]]
      BY <2>1, <2>2 DEF AstrayAtLimit, Astray, UpdateMoney, But, TablesOK, ShapeOK, Names, PerUser
    <2>4. ASSUME q.e \in User, c \in Card, CardsAlone(q.e)
          PROVE  db.card[q.e] # NoCards /\ v \in 0 .. EVIL_NUM_CARD_MAX
      <3>1. db.card[q.e][c] >= q.a.n
        BY <1>1, <1>4, <2>2, <2>4 DEF Held, HeldSell
      <3>2. CardRow(db.card[q.e])
        BY <2>4, RowsOf
      <3>3. db.card[q.e] # NoCards
        BY <1>3, <2>4, <3>1 DEF NoCards
      <3>4. db.card[q.e][c] \in 0 .. EVIL_NUM_CARD_MAX
        BY <2>4, <3>2, <3>3 DEF CardRow
      <3>5. QED
        BY <1>3, <2>2, <3>1, <3>3, <3>4, AccountAssumption
    <2> HIDE DEF Card1
    <2>5. Fine(q, d)
      BY <1>2, <2>3, <2>4, CountFine
    <2>6. QED
      BY <2>1, <2>5
  <1>5. ASSUME q.a.kind = "piece", q.at = "sell" PROVE Fine(q, Pieces)
    <2>1. PICK d : d = Pieces
      OBVIOUS
    <2>2. PICK v, c : v = Piece1 /\ c = q.a.card
      OBVIOUS
    <2>3. But(d, "piece") /\ d["piece"] = [db["piece"] EXCEPT ![q.e] = [@ EXCEPT ![c] = v]]
      BY <2>1, <2>2 DEF UpdateMoney, But, TablesOK, ShapeOK, Names, PerUser
    <2>4. ASSUME q.e \in User, c \in Card, PiecesAlone(q.e)
          PROVE  v \in 0 .. EVIL_NUM_PIECE_MAX
      <3>1. db.piece[q.e][c] >= q.a.n
        BY <1>1, <1>5, <2>2, <2>4 DEF Held, HeldSell
      <3>2. db.piece[q.e][c] \in 0 .. EVIL_NUM_PIECE_MAX
        BY <2>4, RowsOf DEF PieceRow
      <3>3. QED
        BY <1>3, <2>2, <3>1, <3>2, AccountAssumption
    <2> HIDE DEF Piece1
    <2>5. Fine(q, d)
      BY <1>2, <2>3, <2>4, CountFine
    <2>6. QED
      BY <2>1, <2>5
  <1>6. ASSUME q.at = "new", UNCHANGED db, NEW got, Goes(r, "sell", got),
               \/ q.a.kind = "card" /\ db.card[q.e][q.a.card] - InDeck(q.e, q.a.card) >= q.a.n
               \/ q.a.kind = "piece" /\ db.piece[q.e][q.a.card] \in q.a.n .. EVIL_NUM_PIECE_MAX
        PROVE  Step(r)
    <2>1. PICK m : m = Moved(q, "sell", got)
      OBVIOUS
    <2>2. m.cmd = "sell" /\ m.e = q.e /\ m.a = q.a
      BY <1>1, <2>1, MovedIs
    <2>3. Known(m)
      BY <2>2 DEF Known, KnownOffer, KnownReward, KnownTower
    <2>4. ASSUME q.e \in User, q.a.card \in Card, q.a.kind = "card", CardsAlone(q.e)
          PROVE  db.card[q.e][q.a.card] >= q.a.n
      <3>1. InDeck(q.e, q.a.card) \in 0 .. 9
        BY <2>4 DEF InDeck, TablesOK, DecksOK, Digits
      <3>2. CardRow(db.card[q.e])
        BY <2>4, RowsOf
      <3>3. db.card[q.e][q.a.card] \in Int
        BY <2>4, <3>2, AccountAssumption DEF CardRow, NoCards
      <3>4. QED
        BY <1>3, <1>6, <2>4, <3>1, <3>3
    <2>5. ASSUME q.e \in User, q.a.card \in Card, q.a.kind = "piece", PiecesAlone(q.e)
          PROVE  db.piece[q.e][q.a.card] >= q.a.n
      <3>1. db.piece[q.e][q.a.card] \in q.a.n .. EVIL_NUM_PIECE_MAX
        BY <1>6, <2>5
      <3>2. QED
        BY <1>3, <3>1, AccountAssumption
    <2>6. Held(db, m)
      BY <2>2, <2>4, <2>5 DEF Held, HeldBuy, HeldSell, HeldXcbuy
    <2>7. Works(r, "sell", got)
      BY <1>1, <1>2, <1>6, <2>1, <2>3, <2>6 DEF Works, Fine
    <2>8. QED
      BY <2>7 DEF Step
  <1>7. ASSUME Fine(q, db'), NEW got, Goes(r, "bad", got) \/ Goes(r, "good", got) PROVE Step(r)
    BY <1>1, <1>7, EndStep
  <1>8. CASE q.a.kind = "card" /\ SellCard(r, ok)
    BY <1>1, <1>2, <1>4, <1>6, <1>7, <1>8 DEF SellCard, Read, Write
  <1>9. CASE q.a.kind = "piece" /\ SellPiece(r, ok)
    BY <1>1, <1>2, <1>5, <1>6, <1>7, <1>9 DEF SellPiece, GetPieceCount, Read, Write
  <1>10. QED
    BY <1>1, <1>8, <1>9 DEF InSellCard

\* Decks: the deck is written that was found to be digits.
LEMMA UpdateHeroSlotStep ==
    ASSUME TablesOK(db), NEW r, NEW ok, RequestOK(At(r)), At(r).cmd = "uhslot", InUpdateHeroSlot(r, ok)
    PROVE  Step(r)
  <1>1. PICK q : q = At(r)
    OBVIOUS
  <1>2. Fine(q, db)
    BY FineDb
  <1>3. PICK d : d = UpdateHeroSlot(q.e, q.a.hero, q.a.id, q.a.list)
    OBVIOUS
  <1>4. Same(d)
    BY <1>3, SameDb DEF UpdateHeroSlot, Same, TablesOK, ShapeOK, Names, PerUser
  <1>5. Fine(q, d)
    BY <1>4, FineSame
  <1>6. PICK x : x = [db EXCEPT !.deck[q.e].list = q.a.list]
    OBVIOUS
  <1>7. q.at = "slot" => Fine(q, x)
    <2> SUFFICES ASSUME q.at = "slot" PROVE Fine(q, x)
      OBVIOUS
    <2>1. Digits(q.a.list)
      BY <1>1 DEF RequestOK, Known, KnownReward
    <2>2. But(x, "deck") /\ x.deck = [db.deck EXCEPT ![q.e] = [@ EXCEPT !.list = q.a.list]]
      BY <1>6 DEF But, TablesOK, ShapeOK, Names, PerUser
    <2>3. DOMAIN x.deck = User /\ DecksOK(x)
      BY <2>1, <2>2 DEF TablesOK, ShapeOK, PerUser, DecksOK
    <2>4. QED
      BY <2>2, <2>3, ButOther DEF Names, PerUser
  <1>8. ASSUME Fine(q, db'), NEW at \in {"bad", "good", "broke"}, NEW got, Goes(r, at, got) PROVE Step(r)
    BY <1>1, <1>8, EndStep
  <1>9. ASSUME Fine(q, db'), NEW got, Goes(r, "slot", got), Digits(q.a.list) PROVE Step(r)
    <2>1. PICK m : m = Moved(q, "slot", got)
      OBVIOUS
    <2>2. m.cmd = "uhslot" /\ m.a = q.a
      BY <1>1, <2>1, MovedIs
    <2>3. Known(m)
      BY <1>9, <2>2 DEF Known, KnownOffer, KnownReward, KnownTower
    <2>4. QED
      BY <1>1, <1>9, <2>1, <2>3, KnownStep
  <1>10. CASE Write(r, ok, "new", Digits(q.a.list), d, "slot", "bad")
    BY <1>1, <1>2, <1>5, <1>8, <1>9, <1>10 DEF Write
  <1>11. CASE UpdateHeroDeck(r, ok, "slot", q.a.hero, q.a.id, q.a.list)
    BY <1>1, <1>2, <1>6, <1>7, <1>8, <1>11 DEF UpdateHeroDeck
  <1>12. QED
    BY <1>1, <1>3, <1>10, <1>11 DEF InUpdateHeroSlot

\* The exchange: what is left of an offer that was read, is not less than none.
LEMMA ExchangeFine ==
    ASSUME TablesOK(db), NEW q, NEW sales, SalesOK(sales)
    PROVE  Fine(q, [db EXCEPT !.exchange = sales])
  <1>1. PICK d : d = [db EXCEPT !.exchange = sales]
    OBVIOUS
  <1>2. But(d, "exchange") /\ d.exchange = sales
    BY <1>1 DEF But, TablesOK, ShapeOK, Names, PerUser
  <1>3. Fine(q, d)
    BY <1>2, ButOther DEF Names, PerUser
  <1>4. QED
    BY <1>1, <1>3

LEMMA XcbuyStep ==
    ASSUME TablesOK(db), NEW r, NEW ok, RequestOK(At(r)), Held(db, At(r)), At(r).cmd = "xcbuy", InBuyExchangePiece(r, ok)
    PROVE  Step(r)
  <1>1. PICK q : q = At(r)
    OBVIOUS
  <1>2. Fine(q, db) /\ q.cmd \notin Loose /\ SalesOK(db.exchange)
    BY <1>1, FineDb DEF Loose, TablesOK, OffersOK
  <1>3. q.a.n \in Nat
    BY <1>1 DEF RequestOK, Payload
  <1>4. ASSUME Fine(q, db'), NEW at \in {"bad", "good", "broke"}, NEW got, Goes(r, at, got) PROVE Step(r)
    BY <1>1, <1>4, EndStep
  <1>5. ASSUME Fine(q, db'), NEW at \in {"pieces", "buy", "count"}, NEW got, Goes(r, at, got), got[1].n \in Nat,
               at = "buy" => /\ UNCHANGED db
                             /\ db.piece[q.e][got[1].card] \in 0 .. EVIL_NUM_PIECE_MAX - q.a.n
        PROVE  Step(r)
    <2>1. PICK m : m = Moved(q, at, got)
      OBVIOUS
    <2>2. m.cmd = "xcbuy" /\ m.a = q.a /\ m.e = q.e /\ m.got = got /\ m.at = at
      BY <1>1, <1>5, <2>1, MovedIs
    <2>3. Known(m)
      BY <1>5, <2>2 DEF Known, KnownOffer, KnownReward, KnownTower
    <2>4. Held(db', m)
      BY <1>5, <2>2 DEF Held, HeldBuy, HeldSell, HeldXcbuy
    <2>5. Works(r, at, got)
      BY <1>1, <1>5, <2>1, <2>3, <2>4 DEF Works, Fine
    <2>6. QED
      BY <2>5 DEF Step
  <1>6. q.at \in {"pieces", "buy", "count"} => q.got[1].n \in Nat
    BY <1>1 DEF RequestOK, Known, KnownOffer
  <1>7. CASE q.a.offer \in Offer /\ InBuyExchangePiece(r, ok) /\ q.at = "new"
    <2>1. PICK sale : sale = db.exchange[q.a.offer]
      OBVIOUS
    <2>2. sale.n \in Nat
      BY <1>2, <1>7, <2>1 DEF SalesOK, Offer
    <2>3. Read(r, ok, "new", sale.eid # q.e /\ q.a.n <= sale.n, <<sale>>, "pieces", "bad")
      BY <1>1, <1>7, <2>1 DEF InBuyExchangePiece, GetPieceCount, Read
    <2>4. PICK got : got = <<sale>>
      OBVIOUS
    <2>5. got[1].n \in Nat
      BY <2>2, <2>4
    <2>6. QED
      BY <1>2, <1>4, <1>5, <2>3, <2>4, <2>5 DEF Read
  <1>8. CASE q.a.offer \notin Offer /\ Read(r, ok, "new", FALSE, <<>>, "bad", "bad")
    BY <1>2, <1>4, <1>8 DEF Read
  <1>9. CASE q.at = "pieces" /\ GetPieceCount(r, ok, "pieces", q.got[1].card, 0 .. EVIL_NUM_PIECE_MAX - q.a.n, "buy")
    BY <1>1, <1>2, <1>4, <1>5, <1>6, <1>9 DEF GetPieceCount, Read
  <1>10. CASE q.at \in {"buy", "count"} /\ BuyExchange(r, ok)
    <2>1. PICK sale : sale = q.got[1]
      OBVIOUS
    <2>2. sale.n \in Nat
      BY <1>6, <1>10, <2>1
    <2> DEFINE gold == sale.gold * q.a.n
               crystal == sale.crystal * q.a.n
               d == [db EXCEPT !.piece[q.e][sale.card] = @ + q.a.n]
               Bought == UpdateMoney(UpdateMoney(d, q.e, -gold, -crystal), sale.eid, gold, crystal)
    <2>3. q.at = "buy" => Fine(q, Bought)
      <3> SUFFICES ASSUME q.at = "buy" PROVE Fine(q, Bought)
        OBVIOUS
      <3>1. PICK c, n : c = sale.card /\ n = q.a.n
        OBVIOUS
      <3>2. ASSUME q.e \in User, c \in Card, PiecesAlone(q.e) PROVE db.piece[q.e][c] + n \in 0 .. EVIL_NUM_PIECE_MAX
        <4>1. db.piece[q.e][c] \in 0 .. EVIL_NUM_PIECE_MAX - q.a.n
          BY <1>1, <2>1, <3>1, <3>2 DEF Held, HeldXcbuy
        <4>2. QED
          BY <1>3, <3>1, <4>1, AccountAssumption
      <3>3. Fine(q, AddPiece(db, q.e, c, n))
        BY <1>2, <3>2, AddPieceFine
      <3>4. Fine(q, d)
        BY <3>1, <3>3 DEF AddPiece
      <3> HIDE DEF d, gold, crystal
      <3>5. QED
        BY <3>4, FineMoney
    <2>4. sale.n > q.a.n /\ q.a.offer \in Offer => Fine(q, [db EXCEPT !.exchange[q.a.offer].n = sale.n - q.a.n])
      <3> SUFFICES ASSUME sale.n > q.a.n, q.a.offer \in Offer
                   PROVE  Fine(q, [db EXCEPT !.exchange[q.a.offer].n = sale.n - q.a.n])
        OBVIOUS
      <3>1. PICK sales : sales = [db.exchange EXCEPT ![q.a.offer] = [@ EXCEPT !.n = sale.n - q.a.n]]
        OBVIOUS
      <3>2. SalesOK(sales)
        BY <1>2, <1>3, <2>2, <3>1 DEF SalesOK
      <3>3. Fine(q, [db EXCEPT !.exchange = sales])
        BY <3>2, ExchangeFine
      <3>4. QED
        BY <3>1, <3>3
    <2>5. Fine(q, [db EXCEPT !.exchange = Restrict(@, Offer \ {q.a.offer})])
      <3>1. PICK sales : sales = Restrict(db.exchange, Offer \ {q.a.offer})
        OBVIOUS
      <3>2. SalesOK(sales)
        BY <1>2, <3>1 DEF SalesOK, Restrict, Offer
      <3>3. Fine(q, [db EXCEPT !.exchange = sales])
        BY <3>2, ExchangeFine
      <3>4. QED
        BY <3>1, <3>3
    <2>6. CASE Write(r, ok, "buy", Affords(q.e, -gold, -crystal) /\ db.piece[q.e][sale.card] < EVIL_NUM_PIECE_MAX,
                     Bought, "count", "bad")
      <3> HIDE DEF Bought, gold, crystal
      <3>1. QED
        BY <1>1, <1>2, <1>4, <1>5, <1>6, <2>3, <2>6 DEF Write
    <2>7. CASE sale.n > q.a.n /\ Write(r, ok, "count", q.a.offer \in Offer,
                   [db EXCEPT !.exchange[q.a.offer].n = sale.n - q.a.n], "good", "broke")
      BY <1>1, <1>2, <1>4, <2>4, <2>7 DEF Write
    <2>8. CASE sale.n <= q.a.n /\ Write(r, ok, "count", q.a.offer \in Offer,
                   [db EXCEPT !.exchange = Restrict(@, Offer \ {q.a.offer})], "good", "broke")
      BY <1>1, <1>2, <1>4, <2>5, <2>8 DEF Write
    <2>9. QED
      BY <1>1, <1>10, <2>1, <2>6, <2>7, <2>8 DEF BuyExchange
  <1>11. QED
    BY <1>1, <1>7, <1>8, <1>9, <1>10 DEF InBuyExchangePiece, Read

\* in_reset_exchange(): the oldest of the offers, and as many pieces as fit.
LEMMA FirstSaleIs ==
    ASSUME NEW sales, SalesOK(sales), DOMAIN sales # {}
    PROVE  FirstSale(sales).n \in Nat
  <1>1. \E x \in DOMAIN sales : \A y \in DOMAIN sales : x <= y
    BY LeastNat DEF SalesOK
  <1>2. (CHOOSE x \in DOMAIN sales : \A y \in DOMAIN sales : x <= y) \in DOMAIN sales
    BY <1>1
  <1>3. QED
    BY <1>2 DEF SalesOK, FirstSale

LEMMA FitsNat ==
    ASSUME TablesOK(db), NEW e \in User, NEW c \in Card, NEW n \in Nat, PiecesAlone(e)
    PROVE  Fits(e, c, n) \in Nat
  <1>1. PICK k \in 0 .. EVIL_NUM_PIECE_MAX : k = db.piece[e][c]
    BY RowsOf DEF PieceRow
  <1>2. QED
    BY <1>1, AccountAssumption DEF Fits, Clip

LEMMA GiveBackFine ==
    ASSUME TablesOK(db), NEW q, q.cmd = "xcreset", NEW e, NEW c, NEW n,
           e \in User /\ c \in Card /\ PiecesAlone(e) => n \in Nat /\ db.piece[e][c] + n <= EVIL_NUM_PIECE_MAX
    PROVE  Fine(q, AddPiece(db, e, c, n))
  <1>1. PICK row : row = [db.piece[e] EXCEPT ![c] = @ + n]
    OBVIOUS
  <1>2. PICK d : d = AddPiece(db, e, c, n)
    OBVIOUS
  <1>3. d.piece = [db.piece EXCEPT ![e] = row] /\ DOMAIN db.piece = User
    BY <1>1, <1>2 DEF AddPiece, TablesOK, ShapeOK, Names, PerUser
  <1>4. But(d, "piece")
    BY <1>2 DEF AddPiece, But, TablesOK, ShapeOK, Names, PerUser
  <1>5. DOMAIN d.piece = User /\ \A g \in User : d.piece[g] = IF g = e THEN row ELSE db.piece[g]
    BY <1>3
  <1>6. ASSUME e \in User, PiecesAlone(e) PROVE PieceRow(row) /\ Grows(db.piece[e], row)
    <2>1. PieceRow(db.piece[e])
      BY <1>6, RowsOf
    <2>2. \A k \in Card : row[k] = IF k = c THEN db.piece[e][k] + n ELSE db.piece[e][k]
      BY <1>1, <2>1 DEF PieceRow
    <2>3. \A k \in Card : db.piece[e][k] \in 0 .. EVIL_NUM_PIECE_MAX
      BY <2>1 DEF PieceRow
    <2>4. \A k \in Card : row[k] \in 0 .. EVIL_NUM_PIECE_MAX /\ row[k] >= db.piece[e][k]
      <3> SUFFICES ASSUME NEW k \in Card
                   PROVE  row[k] \in 0 .. EVIL_NUM_PIECE_MAX /\ row[k] >= db.piece[e][k]
        OBVIOUS
      <3>1. PICK m \in 0 .. EVIL_NUM_PIECE_MAX : m = db.piece[e][k]
        BY <2>3
      <3>2. CASE k = c
        <4>1. n \in Nat /\ m + n <= EVIL_NUM_PIECE_MAX
          BY <1>6, <3>1, <3>2
        <4>2. row[k] = m + n
          BY <2>2, <3>1, <3>2
        <4>3. QED
          BY <3>1, <4>1, <4>2, AccountAssumption
      <3>3. CASE k # c
        <4>1. row[k] = m
          BY <2>2, <3>1, <3>3
        <4>2. QED
          BY <3>1, <4>1, AccountAssumption
      <3>4. QED
        BY <3>2, <3>3
    <2>5. row = [k \in Card |-> row[k]]
      BY <1>1, <2>1 DEF PieceRow
    <2>6. QED
      BY <2>4, <2>5 DEF PieceRow, Grows
  <1>7. PiecesOK(d)
    BY <1>5, <1>6 DEF TablesOK, PiecesOK, PieceRow
  <1>8. d.card = db.card
    BY <1>4 DEF But, Names, PerUser
  <1>9. OthersKept(q, d)
    BY <1>5, <1>6, <1>8 DEF OthersKept
  <1>10. TablesOK(d)
    BY <1>4, <1>5, <1>7, ButPiece
  <1>11. QED
    BY <1>2, <1>9, <1>10 DEF Fine

LEMMA XcresetStep ==
    ASSUME TablesOK(db), NEW r, NEW ok, RequestOK(At(r)), At(r).cmd = "xcreset", InResetExchange(r, ok)
    PROVE  Step(r)
  <1>1. PICK q : q = At(r)
    OBVIOUS
  <1>2. Fine(q, db) /\ SalesOK(db.exchange)
    BY FineDb DEF TablesOK, OffersOK
  <1>3. ASSUME Fine(q, db'), NEW at \in {"bad", "good", "broke"}, NEW got, Goes(r, at, got) PROVE Step(r)
    BY <1>1, <1>3, EndStep
  <1>4. ASSUME Fine(q, db'), NEW at \in {"next", "give", "delete"}, NEW got, Goes(r, at, got),
               {"offers", "fit"} \subseteq DOMAIN got, SalesOK(got.offers),
               at = "give" => LET sale == FirstSale(got.offers) IN
                              sale.eid \in User /\ sale.card \in Card /\ PiecesAlone(sale.eid) => got.fit \in Nat
        PROVE  Step(r)
    <2>1. PICK m : m = Moved(q, at, got)
      OBVIOUS
    <2>2. m.cmd = "xcreset" /\ m.a = q.a /\ m.e = q.e /\ m.got = got /\ m.at = at
      BY <1>1, <1>4, <2>1, MovedIs
    <2>3. Known(m)
      BY <1>4, <2>2 DEF Known, KnownOffer, KnownReward, KnownTower
    <2>4. QED
      BY <1>1, <1>4, <2>1, <2>3, KnownStep
  <1>5. q.at \in {"next", "give", "delete"} =>
            {"offers", "fit"} \subseteq DOMAIN q.got /\ SalesOK(q.got.offers)
    BY <1>1 DEF RequestOK, Known, KnownOffer
  <1> DEFINE left == DOMAIN q.got.offers
             first == CHOOSE x \in left : \A y \in left : x <= y
  <1>6. PICK sale : sale = FirstSale(q.got.offers)
    OBVIOUS
  <1>7. q.got.offers[first] = sale
    BY <1>6 DEF FirstSale
  <1>8. CASE Read(r, ok, "new", TRUE, [offers |-> GetTimeoutExchange(q.a.offer), fit |-> 0], "next", "bad")
    <2>1. PICK sales : sales = GetTimeoutExchange(q.a.offer)
      OBVIOUS
    <2>2. SalesOK(sales)
      BY <1>2, <2>1 DEF GetTimeoutExchange, SalesOK, Offer
    <2>3. PICK got : got = [offers |-> sales, fit |-> 0]
      OBVIOUS
    <2>4. {"offers", "fit"} \subseteq DOMAIN got /\ SalesOK(got.offers)
      BY <2>2, <2>3
    <2>5. QED
      BY <1>1, <1>2, <1>3, <1>4, <1>8, <2>1, <2>3, <2>4 DEF Read
  <1>9. CASE ok /\ q.at = "next" /\ left = {} /\ Goes(r, "good", <<>>) /\ UNCHANGED <<db, lapse>>
    BY <1>2, <1>3, <1>9
  <1>10. CASE /\ q.at = "next" /\ left # {}
              /\ Goes(r, IF ok /\ Fits(sale.eid, sale.card, sale.n) # 0 THEN "give" ELSE "delete",
                      [q.got EXCEPT !.fit = Fits(sale.eid, sale.card, sale.n)])
              /\ UNCHANGED db
    <2>1. PICK fit : fit = Fits(sale.eid, sale.card, sale.n)
      OBVIOUS
    <2>2. PICK got : got = [q.got EXCEPT !.fit = fit]
      OBVIOUS
    <2>3. {"offers", "fit"} \subseteq DOMAIN got /\ got.offers = q.got.offers /\ got.fit = fit
      BY <1>5, <1>10, <2>2
    <2>4. sale.n \in Nat
      BY <1>5, <1>6, <1>10, FirstSaleIs
    <2>5. sale.eid \in User /\ sale.card \in Card /\ PiecesAlone(sale.eid) => fit \in Nat
      BY <2>1, <2>4, FitsNat
    <2>6. \E at \in {"give", "delete"} : Goes(r, at, got)
      BY <1>10, <2>1, <2>2
    <2>7. QED
      BY <1>2, <1>4, <1>5, <1>6, <1>10, <2>3, <2>5, <2>6
  <1>11. CASE Try(r, ok, "give", db.piece[sale.eid][sale.card] + q.got.fit <= EVIL_NUM_PIECE_MAX,
                  [db EXCEPT !.piece[sale.eid][sale.card] = @ + q.got.fit], "delete")
    <2>1. q.at = "give"
      BY <1>1, <1>11 DEF Try
    <2>2. PICK e, c, n : e = sale.eid /\ c = sale.card /\ n = q.got.fit
      OBVIOUS
    <2>3. e \in User /\ c \in Card /\ PiecesAlone(e) => n \in Nat
      BY <1>1, <1>6, <2>1, <2>2 DEF RequestOK, Known, KnownOffer
    <2>4. db.piece[e][c] + n <= EVIL_NUM_PIECE_MAX => Fine(q, AddPiece(db, e, c, n))
      BY <1>1, <2>3, GiveBackFine
    <2>5. Fine(q, db')
      BY <1>2, <1>11, <2>2, <2>4 DEF Try, AddPiece
    <2>6. Goes(r, "delete", q.got)
      BY <1>1, <1>11 DEF Try
    <2>7. QED
      BY <1>4, <1>5, <2>1, <2>5, <2>6
  <1>12. CASE /\ q.at = "delete"
              /\ IF ok /\ first \in Offer
                 THEN /\ db' = [db EXCEPT !.exchange = Restrict(@, Offer \ {first})]
                      /\ Goes(r, "next", [q.got EXCEPT !.offers = Restrict(@, left \ {first})])
                 ELSE UNCHANGED db /\ Goes(r, "broke", <<>>)
    <2>1. PICK sales : sales = Restrict(db.exchange, Offer \ {first})
      OBVIOUS
    <2>2. SalesOK(sales)
      BY <1>2, <2>1 DEF SalesOK, Restrict, Offer
    <2>3. Fine(q, [db EXCEPT !.exchange = sales])
      BY <2>2, ExchangeFine
    <2>4. PICK rest : rest = Restrict(q.got.offers, left \ {first})
      OBVIOUS
    <2>5. SalesOK(rest)
      BY <1>5, <1>12, <2>4 DEF SalesOK, Restrict
    <2>6. PICK got : got = [q.got EXCEPT !.offers = rest]
      OBVIOUS
    <2>7. {"offers", "fit"} \subseteq DOMAIN got /\ got.offers = rest
      BY <1>5, <1>12, <2>6
    <2> HIDE DEF first, left
    <2>8. CASE db' = [db EXCEPT !.exchange = sales] /\ Goes(r, "next", got)
      BY <1>4, <2>3, <2>5, <2>7, <2>8
    <2>9. CASE UNCHANGED db /\ Goes(r, "broke", <<>>)
      BY <1>2, <1>3, <2>9
    <2>10. QED
      BY <1>12, <2>1, <2>4, <2>6, <2>8, <2>9
  <1>13. QED
    BY <1>1, <1>6, <1>7, <1>8, <1>9, <1>10, <1>11, <1>12 DEF InResetExchange

\* Gifts and payments: of the cards they bring, there are only so many.
LEMMA ListFinite ==
    ASSUME NEW S, NEW s \in Seq(S)
    PROVE  IsFiniteSet(DOMAIN s)
  <1>1. DOMAIN s = 1 .. Len(s) /\ Len(s) \in Nat
    OBVIOUS
  <1>2. 1 \in Int /\ Len(s) \in Int
    BY <1>1
  <1>3. IsFiniteSet(1 .. Len(s))
    BY <1>2, FS_Interval
  <1>4. QED
    BY <1>1, <1>3

LEMMA NoneFinite == IsFiniteSet(DOMAIN <<>>)
  <1>1. PICK s : s = <<>>
    OBVIOUS
  <1>2. s \in Seq({})
    BY <1>1
  <1>3. QED
    BY <1>1, <1>2, ListFinite

LEMMA GiftStep ==
    ASSUME TablesOK(db), NEW r, NEW ok, RequestOK(At(r)), At(r).cmd = "gift", InExchangeGift(r, ok)
    PROVE  Step(r)
  <1>1. PICK q : q = At(r)
    OBVIOUS
  <1>2. Fine(q, db) /\ q.cmd \notin Loose
    BY <1>1, FineDb DEF Loose
  <1>3. q.a.key \in DOMAIN Design.gift
    BY <1>1 DEF RequestOK, Payload
  <1>4. ASSUME Fine(q, db'), NEW at \in {"bad", "good", "broke"}, NEW got, Goes(r, at, got) PROVE Step(r)
    BY <1>1, <1>4, EndStep
  <1>5. ASSUME Fine(q, db'), NEW at, NEW got, Goes(r, at, got),
               at \in {"money", "cards"} => IsFiniteSet(DOMAIN got.teams)
        PROVE  Step(r)
    <2>1. PICK m : m = Moved(q, at, got)
      OBVIOUS
    <2>2. m.cmd = "gift" /\ m.a = q.a /\ m.e = q.e /\ m.got = got
          /\ m.at = IF at \in {"good", "bad", "broke"} THEN "done" ELSE at
      BY <1>1, <2>1, MovedIs
    <2>3. Known(m)
      BY <1>5, <2>2 DEF Known, KnownOffer, KnownReward, KnownTower
    <2>4. QED
      BY <1>1, <1>5, <2>1, <2>3, KnownStep
  <1>6. q.at \in {"money", "cards"} => IsFiniteSet(DOMAIN q.got.teams)
    BY <1>1 DEF RequestOK, Known, KnownReward
  <1>7. CASE \/ Read(r, ok, "new", CheckKeyCodeUnused(q.a.key), <<>>, "type", "bad")
             \/ Read(r, ok, "type", ~HasExchangeGift(q.e, q.a.key), <<>>, "gift", "bad")
    BY <1>2, <1>4, <1>5, <1>7 DEF Read
  <1>8. CASE Read(r, ok, "gift", TRUE, GetDesignGiftInfo(q.a.key), "money", "bad")
    <2>1. PICK got : got = GetDesignGiftInfo(q.a.key)
      OBVIOUS
    <2>2. got.teams \in Seq(Nat)
      BY <1>3, <2>1, DesignAssumption DEF GetDesignGiftInfo
    <2>3. IsFiniteSet(DOMAIN got.teams)
      BY <2>2, ListFinite
    <2>4. QED
      BY <1>2, <1>4, <1>5, <1>8, <2>1, <2>3 DEF Read
  <1>9. CASE Try(r, ok, "money", TRUE, GiveGold(q.e, q.a.key, q.got.gold), "cards")
    <2>1. Fine(q, UpdateMoney(db, q.e, q.got.gold, 0))
      BY <1>2, FineMoney
    <2>2. PICK d : d = UpdateMoney(db, q.e, q.got.gold, 0)
      OBVIOUS
    <2>3. Fine(q, Given(d, <<"gift", q.a.key>>))
      BY <2>1, <2>2, FineGiven
    <2>4. PICK x : x = Given(d, <<"gift", q.a.key>>)
      OBVIOUS
    <2>5. Fine(q, Granted(x, q.got.gold))
      BY <2>3, <2>4, FineGranted
    <2>6. Fine(q, GiveGold(q.e, q.a.key, q.got.gold))
      BY <2>2, <2>4, <2>5 DEF GiveGold
    <2>7. q.at = "money" /\ Goes(r, "cards", q.got) /\ Fine(q, db')
      BY <1>1, <1>2, <1>9, <2>6 DEF Try
    <2>8. QED
      BY <1>5, <1>6, <2>7
  <1>10. CASE /\ q.at = "cards"
              /\ \E cards \in RandomCards(q.got.teams) :
                    /\ Goes(r, "key", [gold |-> q.got.gold, cards |-> IF ok THEN cards ELSE <<>>])
                    /\ db' = IF ok THEN GiveCards(q.e, cards) ELSE db
    <2>1. PICK cards \in RandomCards(q.got.teams) :
             /\ \E got : Goes(r, "key", got)
             /\ db' = IF ok THEN GiveCards(q.e, cards) ELSE db
      BY <1>10
    <2>2. IsFiniteSet(DOMAIN cards)
      BY <1>6, <1>10 DEF RandomCards
    <2>3. PICK d : d = UpdateEach(db, q.e, cards)
      OBVIOUS
    <2>4. Fine(q, d)
      BY <1>2, <2>2, <2>3, UpdateEachFine
    <2>5. Fine(q, Granted(d, ListWorth(cards)))
      BY <2>4, FineGranted
    <2>6. Fine(q, db')
      BY <1>2, <2>1, <2>3, <2>5 DEF GiveCards
    <2>7. QED
      BY <1>5, <2>1, <2>6
  <1>11. CASE Write(r, ok, "key", TRUE, SetKeyCodeUsed(q.a.key, q.e), "good", "broke")
    <2>1. Same(SetKeyCodeUsed(q.a.key, q.e))
      BY SameDb DEF SetKeyCodeUsed, Same, TablesOK, ShapeOK, Names, PerUser
    <2>2. Fine(q, SetKeyCodeUsed(q.a.key, q.e))
      BY <2>1, FineSame
    <2>3. QED
      BY <1>1, <1>2, <1>4, <1>11, <2>2 DEF Write
  <1>12. QED
    BY <1>1, <1>7, <1>8, <1>9, <1>10, <1>11 DEF InExchangeGift, AddGift

LEMMA PayStep ==
    ASSUME TablesOK(db), NEW r, NEW ok, RequestOK(At(r)), At(r).cmd = "pay", InPay(r, ok)
    PROVE  Step(r)
  <1>1. PICK q : q = At(r)
    OBVIOUS
  <1>2. Fine(q, db)
    BY FineDb
  <1>3. ASSUME Fine(q, db'), NEW at, NEW got, Goes(r, at, got),
               at \in {"money", "extra", "cards"} => IsFiniteSet(DOMAIN got.cards)
        PROVE  Step(r)
    <2>1. PICK m : m = Moved(q, at, got)
      OBVIOUS
    <2>2. m.cmd = "pay" /\ m.a = q.a /\ m.e = q.e /\ m.got = got
          /\ m.at = IF at \in {"good", "bad", "broke"} THEN "done" ELSE at
      BY <1>1, <2>1, MovedIs
    <2>3. Known(m)
      BY <1>3, <2>2 DEF Known, KnownOffer, KnownReward, KnownTower
    <2>4. QED
      BY <1>1, <1>3, <2>1, <2>3, KnownStep
  <1>4. q.at \in {"money", "extra", "cards"} => IsFiniteSet(DOMAIN q.got.cards)
    BY <1>1 DEF RequestOK, Known, KnownReward
  <1>5. CASE /\ q.at = "new"
             /\ Goes(r, "money", Extra(ok /\ q.a.crystal > 0 /\ db.paid[q.e] = 0, q.a))
             /\ UNCHANGED db
    <2>1. PICK got : got = Extra(ok /\ q.a.crystal > 0 /\ db.paid[q.e] = 0, q.a)
      OBVIOUS
    <2>2. got.cards = Design.first_pay_cards \/ got.cards = <<>>
      BY <2>1 DEF Extra
    <2>3. IsFiniteSet(DOMAIN got.cards)
      BY <2>2, ListFinite, NoneFinite, DesignAssumption
    <2>4. QED
      BY <1>2, <1>3, <1>5, <2>1, <2>3
  <1>6. CASE Write(r, ok, "money", TRUE,
                   Granted(UpdateMoney(db, q.e, q.a.gold, q.a.crystal), MoneyWorth(q.a.gold, q.a.crystal)),
                   IF q.got.crystal > 0 THEN "extra" ELSE "log", "bad")
    <2>1. PICK d : d = UpdateMoney(db, q.e, q.a.gold, q.a.crystal)
      OBVIOUS
    <2>2. Fine(q, Granted(d, MoneyWorth(q.a.gold, q.a.crystal)))
      BY <1>2, <2>1, FineMoney, FineGranted
    <2>3. Fine(q, db') /\ q.at = "money" /\ \E at : Goes(r, at, q.got)
      BY <1>1, <1>2, <1>6, <2>1, <2>2 DEF Write
    <2>4. QED
      BY <1>3, <1>4, <2>3
  <1>7. CASE Try(r, ok, "extra", TRUE,
                 Granted(Given(UpdateMoney(db, q.e, 0, q.got.crystal), <<"double", q.e>>),
                         MoneyWorth(0, q.got.crystal) + ListWorth(q.got.cards)), "cards")
    <2>1. PICK d : d = UpdateMoney(db, q.e, 0, q.got.crystal)
      OBVIOUS
    <2>2. PICK x : x = Given(d, <<"double", q.e>>)
      OBVIOUS
    <2>3. Fine(q, d)
      BY <1>2, <2>1, FineMoney
    <2>4. Fine(q, x)
      BY <2>2, <2>3, FineGiven
    <2>5. PICK worth : worth = MoneyWorth(0, q.got.crystal) + ListWorth(q.got.cards)
      OBVIOUS
    <2>6. Fine(q, Granted(x, worth))
      BY <2>4, FineGranted
    <2>7. Fine(q, db') /\ q.at = "extra" /\ Goes(r, "cards", q.got)
      BY <1>1, <1>2, <1>7, <2>1, <2>2, <2>5, <2>6 DEF Try
    <2>8. QED
      BY <1>3, <1>4, <2>7
  <1>8. CASE Try(r, ok, "cards", TRUE, UpdateEach(db, q.e, q.got.cards), "log")
    <2>1. q.at = "cards" /\ Goes(r, "log", q.got)
      BY <1>1, <1>8 DEF Try
    <2>2. PICK cards : cards = q.got.cards
      OBVIOUS
    <2>3. Fine(q, UpdateEach(db, q.e, cards))
      BY <1>1, <1>4, <2>1, <2>2, UpdateEachFine
    <2>4. Fine(q, db')
      BY <1>2, <1>8, <2>2, <2>3 DEF Try
    <2>5. QED
      BY <1>3, <2>1, <2>4
  <1>9. CASE Try(r, ok, "log", TRUE, [db EXCEPT !.paid[q.e] = IF q.a.crystal > 0 THEN @ + 1 ELSE @], "good")
    <2>1. PICK d : d = [db EXCEPT !.paid[q.e] = IF q.a.crystal > 0 THEN @ + 1 ELSE @]
      OBVIOUS
    <2>2. Same(d)
      BY <2>1, SameDb DEF Same, TablesOK, ShapeOK, Names, PerUser
    <2>3. Fine(q, d)
      BY <2>2, FineSame
    <2>4. Fine(q, db') /\ Goes(r, "good", q.got)
      BY <1>1, <1>2, <1>9, <2>1, <2>3 DEF Try
    <2>5. QED
      BY <1>3, <2>4
  <1>10. QED
    BY <1>1, <1>5, <1>6, <1>7, <1>8, <1>9 DEF InPay

\* Campaign: no more power is spent than was read, and was enough.
LEMMA PowerNat ==
    ASSUME TablesOK(db), NEW e \in User, NEW p \in Nat, PowerNow(e) >= p
    PROVE  PowerNow(e) - p \in Nat
  <1>1. PowerNow(e) \in Nat
    BY DesignAssumption DEF PowerNow, TablesOK, PowerOK
  <1>2. QED
    BY <1>1

LEMMA PoweredStep ==
    ASSUME TablesOK(db), NEW r, NEW ok, RequestOK(At(r)), At(r).cmd \in {"gate", "chapter"}, Powered(r, ok)
    PROVE  Step(r)
  <1>1. PICK q : q = At(r)
    OBVIOUS
  <1>2. Fine(q, db)
    BY FineDb
  <1>3. ASSUME Fine(q, db'), NEW at, NEW got, Goes(r, at, got), at = "power" /\ q.e \in User => got \in Nat
        PROVE  Step(r)
    <2>1. PICK m : m = Moved(q, at, got)
      OBVIOUS
    <2>2. m.cmd = q.cmd /\ m.a = q.a /\ m.e = q.e /\ m.got = got
          /\ m.at = IF at \in {"good", "bad", "broke"} THEN "done" ELSE at
      BY <1>1, <2>1, MovedIs
    <2>3. Known(m)
      BY <1>1, <1>3, <2>2 DEF Known, KnownOffer, KnownReward, KnownTower
    <2>4. QED
      BY <1>1, <1>3, <2>1, <2>3, KnownStep
  <1>4. CASE Read(r, ok, "new", PowerNow(q.e) >= q.a.power, PowerNow(q.e) - q.a.power, "power", "bad")
    <2>1. q.a.power \in Nat
      BY <1>1 DEF RequestOK, Payload
    <2>2. PICK got : got = PowerNow(q.e) - q.a.power
      OBVIOUS
    <2>3. PowerNow(q.e) >= q.a.power /\ q.e \in User => got \in Nat
      BY <2>1, <2>2, PowerNat
    <2>4. QED
      BY <1>2, <1>3, <1>4, <2>2, <2>3 DEF Read
  <1>5. CASE Try(r, ok, "power", TRUE, SetPower(q.e, q.got), "deck")
    <2>1. q.at = "power"
      BY <1>1, <1>5 DEF Try
    <2>2. PICK e, p : e = q.e /\ p = q.got
      OBVIOUS
    <2>3. e \in User => p \in Nat
      BY <1>1, <2>1, <2>2 DEF RequestOK, Known, KnownTower
    <2>4. Fine(q, SetPower(e, p))
      BY <2>3, SetPowerFine
    <2>5. QED
      BY <1>2, <1>3, <1>5, <2>2, <2>4 DEF Try
  <1>6. CASE Read(r, ok, "deck", HasDeck(q.e), GetDeck(q.e), "good", "broke")
    BY <1>2, <1>3, <1>6 DEF Read
  <1>7. QED
    BY <1>1, <1>4, <1>5, <1>6 DEF Powered, UpdatePower

\* The tower: a row and the runs left.
LEMMA TowerFine ==
    ASSUME TablesOK(db), NEW q, NEW e, NEW row, e \in User => TowerRow(row)
    PROVE  Fine(q, [db EXCEPT !.tower[e] = row])
  <1>1. PICK d : d = [db EXCEPT !.tower[e] = row]
    OBVIOUS
  <1>2. But(d, "tower") /\ d.tower = [db.tower EXCEPT ![e] = row] /\ d.status_tower = db.status_tower
    BY <1>1 DEF But, TablesOK, ShapeOK, Names, PerUser
  <1>3. DOMAIN d.tower = User /\ \A g \in User : d.tower[g] = IF g = e THEN row ELSE db.tower[g]
    BY <1>2 DEF TablesOK, ShapeOK, PerUser
  <1>4. TowersOK(d)
    BY <1>2, <1>3 DEF TablesOK, TowersOK
  <1>5. Fine(q, d)
    BY <1>2, <1>3, <1>4, ButOther DEF Names, PerUser
  <1>6. QED
    BY <1>1, <1>5

LEMMA StatusTowerFine ==
    ASSUME TablesOK(db), NEW q, NEW e, NEW pos, NEW times, e \in User => times \in Nat
    PROVE  Fine(q, UpdateStatusTower(e, pos, times))
  <1>1. PICK d : d = UpdateStatusTower(e, pos, times)
    OBVIOUS
  <1>2. PICK row : row = [pos |-> pos, times |-> times]
    OBVIOUS
  <1>3. But(d, "status_tower") /\ d.status_tower = [db.status_tower EXCEPT ![e] = row] /\ d.tower = db.tower
    BY <1>1, <1>2 DEF UpdateStatusTower, But, TablesOK, ShapeOK, Names, PerUser
  <1>4. DOMAIN d.status_tower = User
        /\ \A g \in User : d.status_tower[g] = IF g = e THEN row ELSE db.status_tower[g]
    BY <1>3 DEF TablesOK, ShapeOK, PerUser
  <1>5. TowersOK(d)
    BY <1>2, <1>3, <1>4 DEF TablesOK, TowersOK
  <1>6. QED
    BY <1>1, <1>3, <1>4, <1>5, ButOther DEF Names, PerUser

TowerCmd == {"tower", "tower_buff", "tower_result"}

\* The next statement of a command of the tower.
LEMMA TowerGoes ==
    ASSUME NEW r, RequestOK(At(r)), At(r).cmd \in TowerCmd, Fine(At(r), db'), NEW at, NEW got, Goes(r, at, got),
           at # "power", KnownTower(Moved(At(r), at, got))
    PROVE  Step(r)
  <1>1. PICK m : m = Moved(At(r), at, got)
    OBVIOUS
  <1>2. m.cmd = At(r).cmd
    BY <1>1, MovedIs
  <1>3. Known(m)
    BY <1>1, <1>2 DEF TowerCmd, Known, KnownOffer, KnownReward
  <1>4. QED
    BY <1>1, <1>3, KnownStep DEF TowerCmd

LEMMA ReplaceTowerStep ==
    ASSUME TablesOK(db), NEW r, NEW ok, RequestOK(At(r)), At(r).cmd \in TowerCmd,
           NEW row, At(r).at = "replace" /\ At(r).e \in User => TowerRow(row),
           NEW then \in {"good", "status"}, then = "status" => At(r).cmd = "tower_result",
           NEW no \in {"bad", "broke"}, ReplaceTower(r, ok, row, then, no)
    PROVE  Step(r)
  <1>1. PICK q : q = At(r)
    OBVIOUS
  <1>2. Fine(q, db)
    BY FineDb
  <1>3. PICK e : e = q.e
    OBVIOUS
  <1>4. CASE Read(r, ok, "deck", HasDeck(e), [q.got EXCEPT !.deck = GetDeck(e)], "replace", no)
    <2>1. q.at = "deck" /\ Fine(q, db')
      BY <1>1, <1>2, <1>4 DEF Read
    <2>2. PICK got : got = [q.got EXCEPT !.deck = GetDeck(e)]
      OBVIOUS
    <2>3. CASE Goes(r, "replace", got)
      <3>1. PICK m : m = Moved(q, "replace", got)
        OBVIOUS
      <3>2. m.cmd = q.cmd /\ m.a = q.a /\ m.e = q.e /\ m.got = got /\ m.at = "replace"
        BY <1>1, <3>1, MovedIs
      <3>3. KnownTower(q)
        BY <1>1 DEF RequestOK, Known
      <3>4. q.e \in User => got.row = q.got.row /\ DOMAIN got = DOMAIN q.got
        BY <1>1, <2>1, <2>2, <3>3 DEF KnownTower, TowerCmd
      <3>5. KnownTower(m)
        BY <1>1, <2>1, <3>2, <3>3, <3>4 DEF KnownTower, TowerCmd
      <3>6. QED
        BY <1>1, <2>1, <2>3, <3>1, <3>5, TowerGoes
    <2>4. CASE Goes(r, no, <<>>)
      BY <1>1, <2>1, <2>4, EndStep
    <2>5. QED
      BY <1>4, <2>2, <2>3, <2>4 DEF Read
  <1>5. CASE Write(r, ok, "replace", TRUE, [db EXCEPT !.tower[e] = row], then, no)
    <2>1. q.at = "replace"
      BY <1>1, <1>5 DEF Write
    <2>2. e \in User => TowerRow(row)
      BY <1>1, <1>3, <2>1
    <2>3. Fine(q, [db EXCEPT !.tower[e] = row])
      BY <2>2, TowerFine
    <2>4. Fine(q, db')
      BY <1>2, <1>5, <2>3 DEF Write
    <2>5. CASE then = "status" /\ Goes(r, then, q.got)
      <3>1. PICK m : m = Moved(q, "status", q.got)
        OBVIOUS
      <3>2. m.cmd = "tower_result" /\ m.e = q.e /\ m.got = q.got /\ m.at = "status"
        BY <1>1, <2>5, <3>1, MovedIs
      <3>3. KnownTower(q)
        BY <1>1 DEF RequestOK, Known
      <3>4. KnownTower(m)
        BY <1>1, <2>1, <2>5, <3>2, <3>3 DEF KnownTower
      <3>5. QED
        BY <1>1, <2>4, <2>5, <3>1, <3>4, TowerGoes
    <2>6. CASE then = "good" /\ Goes(r, then, q.got)
      BY <1>1, <2>4, <2>6, EndStep
    <2>7. CASE Goes(r, no, q.got)
      BY <1>1, <2>4, <2>7, EndStep
    <2>8. QED
      BY <1>1, <1>5, <2>5, <2>6, <2>7 DEF Write
  <1>6. QED
    BY <1>1, <1>3, <1>4, <1>5 DEF ReplaceTower

LEMMA TowerStep ==
    ASSUME TablesOK(db), NEW r, NEW ok, RequestOK(At(r)), At(r).cmd = "tower", InTower(r, ok)
    PROVE  Step(r)
  <1>1. PICK q : q = At(r)
    OBVIOUS
  <1>2. Fine(q, db) /\ q.cmd \in TowerCmd
    BY <1>1, FineDb DEF TowerCmd
  <1>3. KnownTower(q)
    BY <1>1 DEF RequestOK, Known
  <1>4. q.e \in User => TowerRow(db.tower[q.e]) /\ db.status_tower[q.e].times \in Nat
    BY DEF TablesOK, TowersOK
  <1>5. ASSUME Fine(q, db'), NEW got, Goes(r, "bad", got) \/ Goes(r, "broke", got) PROVE Step(r)
    BY <1>1, <1>5, EndStep
  <1>6. ASSUME Fine(q, db'), NEW at, NEW got, Goes(r, at, got),
               at = "row" /\ q.e \in User => got.times \in Nat,
               at = "times" /\ q.e \in User => got.status.times \in Nat \ {0},
               at \in {"times", "deck"} /\ q.e \in User => {"row", "deck"} \subseteq DOMAIN got /\ TowerRow(got.row),
               at \in {"row", "times", "deck"}
        PROVE  Step(r)
    <2>1. PICK m : m = Moved(q, at, got)
      OBVIOUS
    <2>2. m.cmd = "tower" /\ m.e = q.e /\ m.got = got /\ m.at = at
      BY <1>1, <1>6, <2>1, MovedIs
    <2>3. KnownTower(m)
      BY <1>6, <2>2 DEF KnownTower
    <2>4. QED
      BY <1>1, <1>2, <1>6, <2>1, <2>3, TowerGoes
  <1>7. CASE Read(r, ok, "new", StatusTowerIsGood(q.e), GetStatusTower(q.e), "row", "bad")
    <2>1. PICK got : got = GetStatusTower(q.e)
      OBVIOUS
    <2>2. q.e \in User => got.times \in Nat
      BY <1>4, <2>1 DEF GetStatusTower
    <2>3. QED
      BY <1>2, <1>5, <1>6, <1>7, <2>1, <2>2 DEF Read
  <1>8. CASE Read(r, ok, "row", q.a.at = GetEvilTower(q.e).pos + 1 /\ (GetEvilTower(q.e).on \/ q.got.times > 0),
                  [row |-> GetEvilTower(q.e), status |-> q.got, deck |-> NoDeck],
                  IF GetEvilTower(q.e).on THEN "deck" ELSE "times", "bad")
    <2>1. PICK row : row = GetEvilTower(q.e)
      OBVIOUS
    <2>2. PICK got : got = [row |-> row, status |-> q.got, deck |-> NoDeck]
      OBVIOUS
    <2>3. {"row", "deck"} \subseteq DOMAIN got /\ got.row = row /\ got.status = q.got
      BY <2>2
    <2>4. q.e \in User => TowerRow(row)
      BY <1>4, <2>1 DEF GetEvilTower
    <2>5. q.at = "row" /\ Fine(q, db')
      BY <1>1, <1>2, <1>8 DEF Read
    <2>6. q.e \in User => q.got.times \in Nat
      BY <1>3, <2>5, <1>1 DEF KnownTower
    <2>7. CASE (row.on \/ q.got.times > 0) /\ Goes(r, IF row.on THEN "deck" ELSE "times", got)
      <3>1. PICK at : at = IF row.on THEN "deck" ELSE "times"
        OBVIOUS
      <3>2. at = "times" /\ q.e \in User => got.status.times \in Nat \ {0}
        BY <2>3, <2>6, <2>7, <3>1
      <3>3. Goes(r, at, got) /\ at \in {"row", "times", "deck"} /\ at # "row"
        BY <2>7, <3>1
      <3>4. QED
        BY <1>6, <2>3, <2>4, <2>5, <3>2, <3>3
    <2>8. CASE Goes(r, "bad", <<>>)
      BY <1>5, <2>5, <2>8
    <2>9. QED
      BY <1>8, <2>1, <2>2, <2>7, <2>8 DEF Read
  <1>9. CASE Write(r, ok, "times", TRUE,
                   UpdateStatusTower(q.e, q.got.status.pos, q.got.status.times - 1), "deck", "bad")
    <2>1. q.at = "times"
      BY <1>1, <1>9 DEF Write
    <2>2. PICK e, pos, times : e = q.e /\ pos = q.got.status.pos /\ times = q.got.status.times - 1
      OBVIOUS
    <2>3. e \in User => times \in Nat
      <3>1. q.e \in User => q.got.status.times \in Nat \ {0}
        BY <1>1, <1>3, <2>1 DEF KnownTower
      <3>2. QED
        BY <2>2, <3>1
    <2>4. Fine(q, UpdateStatusTower(e, pos, times))
      BY <2>3, StatusTowerFine
    <2>5. Fine(q, db')
      BY <1>2, <1>9, <2>2, <2>4 DEF Write
    <2>6. q.e \in User => {"row", "deck"} \subseteq DOMAIN q.got /\ TowerRow(q.got.row)
      BY <1>1, <1>3, <2>1 DEF KnownTower
    <2>7. Goes(r, "deck", q.got) \/ Goes(r, "bad", q.got)
      BY <1>1, <1>9 DEF Write
    <2>8. QED
      BY <1>5, <1>6, <2>5, <2>6, <2>7
  <1>10. CASE ReplaceTower(r, ok, [q.got.row EXCEPT !.on = TRUE], "good",
                           IF q.at \in {"deck", "replace"} /\ q.got.row.on THEN "bad" ELSE "broke")
    <2>1. PICK row, no : /\ row = [q.got.row EXCEPT !.on = TRUE]
                         /\ no = IF q.at \in {"deck", "replace"} /\ q.got.row.on THEN "bad" ELSE "broke"
      OBVIOUS
    <2>2. no \in {"bad", "broke"}
      BY <2>1
    <2>3. q.at = "replace" /\ q.e \in User => TowerRow(row)
      BY <1>1, <1>3, <2>1 DEF KnownTower, TowerRow
    <2>4. ReplaceTower(r, ok, row, "good", no)
      BY <1>10, <2>1
    <2>5. QED
      BY <1>1, <1>2, <2>2, <2>3, <2>4, ReplaceTowerStep
  <1>11. QED
    BY <1>1, <1>7, <1>8, <1>9, <1>10 DEF InTower

LEMMA TowerBuffStep ==
    ASSUME TablesOK(db), NEW r, NEW ok, RequestOK(At(r)), At(r).cmd = "tower_buff", InTowerBuff(r, ok)
    PROVE  Step(r)
  <1>1. PICK q : q = At(r)
    OBVIOUS
  <1>2. Fine(q, db) /\ q.cmd \in TowerCmd
    BY <1>1, FineDb DEF TowerCmd
  <1>3. KnownTower(q) /\ q.a.res \in Nat /\ q.a.energy \in Nat
    BY <1>1 DEF RequestOK, Known, Payload
  <1>4. PICK row, e, res, energy : row = GetEvilTower(e) /\ e = q.e /\ res = q.a.res /\ energy = q.a.energy
    OBVIOUS
  <1>5. e \in User => TowerRow(row)
    BY <1>4 DEF TablesOK, TowersOK, GetEvilTower
  <1>6. CASE Read(r, ok, "new",
                  /\ row.buff = 1
                  /\ row.res + res <= Design.tower_buff_max /\ row.energy + energy <= Design.tower_buff_max,
                  [row |-> row, deck |-> NoDeck], "deck", "bad")
    <2>1. Fine(q, db')
      BY <1>2, <1>6 DEF Read
    <2>2. PICK got : got = [row |-> row, deck |-> NoDeck]
      OBVIOUS
    <2>3. CASE /\ row.res + res <= Design.tower_buff_max /\ row.energy + energy <= Design.tower_buff_max
               /\ Goes(r, "deck", got)
      <3>1. PICK m : m = Moved(q, "deck", got)
        OBVIOUS
      <3>2. m.cmd = "tower_buff" /\ m.e = e /\ m.got = got /\ m.at = "deck" /\ m.a = q.a
        BY <1>1, <1>4, <3>1, MovedIs
      <3>3. {"row", "deck"} \subseteq DOMAIN got /\ got.row = row
        BY <2>2
      <3>4. e \in User => {row.res + res, row.energy + energy} \subseteq 0 .. Design.tower_buff_max
        <4>1. e \in User => row.res \in Nat /\ row.energy \in Nat /\ Design.tower_buff_max \in Nat
          BY <1>5, DesignAssumption DEF TowerRow
        <4>2. PICK n, k, j : n = row.res /\ k = row.energy /\ j = Design.tower_buff_max
          OBVIOUS
        <4>3. res \in Nat /\ energy \in Nat
          BY <1>3, <1>4
        <4>4. e \in User => n + res \in 0 .. j /\ k + energy \in 0 .. j
          BY <2>3, <4>1, <4>2, <4>3
        <4>5. QED
          BY <4>2, <4>4
      <3>5. KnownTower(m)
        BY <1>4, <1>5, <3>2, <3>3, <3>4 DEF KnownTower
      <3>6. QED
        BY <1>1, <1>2, <2>1, <2>3, <3>1, <3>5, TowerGoes
    <2>4. CASE Goes(r, "bad", <<>>)
      BY <1>1, <2>1, <2>4, EndStep
    <2>5. QED
      BY <1>6, <2>2, <2>3, <2>4 DEF Read
  <1>7. CASE ReplaceTower(r, ok, [q.got.row EXCEPT !.res = @ + res, !.energy = @ + energy, !.buff = 0],
                          "good", "bad")
    <2>1. PICK new : new = [q.got.row EXCEPT !.res = @ + res, !.energy = @ + energy, !.buff = 0]
      OBVIOUS
    <2>2. q.at = "replace" /\ q.e \in User => TowerRow(new)
      <3> SUFFICES ASSUME q.at = "replace", q.e \in User PROVE TowerRow(new)
        OBVIOUS
      <3>1. /\ TowerRow(q.got.row)
            /\ {q.got.row.res + res, q.got.row.energy + energy} \subseteq 0 .. Design.tower_buff_max
        BY <1>1, <1>3, <1>4 DEF KnownTower
      <3>2. PICK x : x = q.got.row
        OBVIOUS
      <3>3. DOMAIN new = DOMAIN x /\ new.res = x.res + res /\ new.energy = x.energy + energy
        BY <2>1, <3>1, <3>2 DEF TowerRow
      <3>4. QED
        BY <3>1, <3>2, <3>3 DEF TowerRow
    <2>3. ReplaceTower(r, ok, new, "good", "bad")
      BY <1>7, <2>1
    <2>4. QED
      BY <1>1, <1>2, <2>2, <2>3, ReplaceTowerStep
  <1>8. QED
    BY <1>1, <1>4, <1>6, <1>7 DEF InTowerBuff

LEMMA TowerResultStep ==
    ASSUME TablesOK(db), NEW r, NEW ok, RequestOK(At(r)), At(r).cmd = "tower_result", InTowerResult(r, ok)
    PROVE  Step(r)
  <1>1. PICK q : q = At(r)
    OBVIOUS
  <1>2. Fine(q, db) /\ q.cmd \in TowerCmd
    BY <1>1, FineDb DEF TowerCmd
  <1>3. KnownTower(q)
    BY <1>1 DEF RequestOK, Known
  <1>4. PICK row, e : row = GetEvilTower(e) /\ e = q.e
    OBVIOUS
  <1>5. e \in User => TowerRow(row) /\ db.status_tower[e].times \in Nat
    BY <1>4 DEF TablesOK, TowersOK, GetEvilTower
  <1>6. ASSUME Fine(q, db'), NEW at \in {"good", "bad", "broke"}, NEW got, Goes(r, at, got) PROVE Step(r)
    BY <1>1, <1>6, EndStep
  <1>7. CASE Write(r, ok, "new", row.on, [db EXCEPT !.tower[e] = NoTower], "good", "bad")
    <2>1. PICK none : none = NoTower
      OBVIOUS
    <2>2. TowerRow(none)
      BY <2>1, DesignAssumption DEF TowerRow, NoTower
    <2>3. Fine(q, [db EXCEPT !.tower[e] = none])
      BY <2>2, TowerFine
    <2>4. QED
      BY <1>2, <1>6, <1>7, <2>1, <2>3 DEF Write
  <1>8. CASE Read(r, ok, "new", ~row.on \/ row.pos + 1 = q.a.at, [row |-> row, status |-> <<>>, deck |-> NoDeck],
                  IF row.on THEN "deck" ELSE "good", "bad")
    <2>1. Fine(q, db')
      BY <1>2, <1>8 DEF Read
    <2>2. PICK got : got = [row |-> row, status |-> <<>>, deck |-> NoDeck]
      OBVIOUS
    <2>3. CASE Goes(r, "deck", got)
      <3>1. PICK m : m = Moved(q, "deck", got)
        OBVIOUS
      <3>2. m.cmd = "tower_result" /\ m.e = e /\ m.got = got /\ m.at = "deck"
        BY <1>1, <1>4, <3>1, MovedIs
      <3>3. {"row", "deck", "status"} \subseteq DOMAIN got /\ got.row = row
        BY <2>2
      <3>4. KnownTower(m)
        BY <1>5, <3>2, <3>3 DEF KnownTower
      <3>5. QED
        BY <1>1, <1>2, <2>1, <2>3, <3>1, <3>4, TowerGoes
    <2>4. CASE Goes(r, "good", got) \/ Goes(r, "bad", <<>>)
      BY <1>6, <2>1, <2>4
    <2>5. QED
      BY <1>8, <2>2, <2>3, <2>4 DEF Read
  <1>9. CASE ReplaceTower(r, ok, [q.got.row EXCEPT !.pos = q.got.row.pos + 1,
                                      !.buff = IF (q.got.row.pos + 1) % Design.tower_step = 0 THEN 1 ELSE @],
                          "status", "bad")
    <2>1. PICK new : new = [q.got.row EXCEPT !.pos = q.got.row.pos + 1,
                                 !.buff = IF (q.got.row.pos + 1) % Design.tower_step = 0 THEN 1 ELSE @]
      OBVIOUS
    <2>2. q.at = "replace" /\ q.e \in User => TowerRow(new)
      BY <1>1, <1>3, <2>1 DEF KnownTower, TowerRow
    <2>3. ReplaceTower(r, ok, new, "status", "bad")
      BY <1>9, <2>1
    <2>4. QED
      BY <1>1, <1>2, <2>2, <2>3, ReplaceTowerStep
  <1>10. CASE Read(r, ok, "status", StatusTowerIsGood(e), [q.got EXCEPT !.status = GetStatusTower(e)], "height", "broke")
    <2>1. Fine(q, db') /\ q.at = "status"
      BY <1>1, <1>2, <1>10 DEF Read
    <2>2. PICK got : got = [q.got EXCEPT !.status = GetStatusTower(e)]
      OBVIOUS
    <2>3. CASE Goes(r, "height", got)
      <3>1. PICK m : m = Moved(q, "height", got)
        OBVIOUS
      <3>2. m.cmd = "tower_result" /\ m.e = e /\ m.got = got /\ m.at = "height"
        BY <1>1, <1>4, <3>1, MovedIs
      <3>3. e \in User => got.status = db.status_tower[e]
        BY <1>1, <1>3, <1>4, <2>1, <2>2 DEF KnownTower, GetStatusTower
      <3>4. KnownTower(m)
        BY <1>5, <3>2, <3>3 DEF KnownTower
      <3>5. QED
        BY <1>1, <1>2, <2>1, <2>3, <3>1, <3>4, TowerGoes
    <2>4. CASE Goes(r, "broke", <<>>)
      BY <1>6, <2>1, <2>4
    <2>5. QED
      BY <1>10, <2>2, <2>3, <2>4 DEF Read
  <1>11. CASE Write(r, ok, "height", TRUE, UpdateStatusTower(e, q.got.status.pos + 1, q.got.status.times), "good", "broke")
    <2>1. q.at = "height"
      BY <1>1, <1>11 DEF Write
    <2>2. PICK pos, times : pos = q.got.status.pos + 1 /\ times = q.got.status.times
      OBVIOUS
    <2>3. e \in User => times \in Nat
      BY <1>1, <1>3, <1>4, <2>1, <2>2 DEF KnownTower
    <2>4. Fine(q, UpdateStatusTower(e, pos, times))
      BY <2>3, StatusTowerFine
    <2>5. QED
      BY <1>2, <1>6, <1>11, <2>2, <2>4 DEF Write
  <1>12. QED
    BY <1>1, <1>4, <1>7, <1>8, <1>9, <1>10, <1>11 DEF InTowerResult

\* The arena: those who exchange their ranks have them.
LEMMA ArenaexcStep ==
    ASSUME TablesOK(db), NEW r, NEW ok, RequestOK(At(r)), At(r).cmd = "arenaexc", InExchangeArenaRank(r, ok)
    PROVE  Step(r)
  <1>1. PICK q, e, t : q = At(r) /\ e = q.e /\ t = q.a.target
    OBVIOUS
  <1>2. Fine(q, db)
    BY FineDb
  <1>3. ASSUME Fine(q, db'), NEW at \in {"good", "bad", "broke"}, NEW got, Goes(r, at, got) PROVE Step(r)
    BY <1>1, <1>3, EndStep
  <1>4. CASE Read(r, ok, "new", HasArenaRank(e, t) /\ GetArenaRank(e) # GetArenaRank(t), <<>>,
                  IF GetArenaRank(e) < GetArenaRank(t) THEN "good" ELSE "exchange", "bad")
    <2>1. Fine(q, db')
      BY <1>2, <1>4 DEF Read
    <2>2. PICK got : got = <<>>
      OBVIOUS
    <2>3. CASE HasArenaRank(e, t) /\ Goes(r, "exchange", got)
      <3>1. PICK m : m = Moved(q, "exchange", got)
        OBVIOUS
      <3>2. m.cmd = "arenaexc" /\ m.e = e /\ m.a = q.a
        BY <1>1, <3>1, MovedIs
      <3>3. {e, t} \subseteq User
        BY <2>3 DEF HasArenaRank, Ranked
      <3>4. Known(m)
        BY <1>1, <3>2, <3>3 DEF Known, KnownOffer, KnownReward, KnownTower
      <3>5. QED
        BY <1>1, <2>1, <2>3, <3>1, <3>4, KnownStep
    <2>4. CASE Goes(r, "good", got) \/ Goes(r, "bad", got)
      BY <1>3, <2>1, <2>4
    <2>5. QED
      BY <1>4, <2>2, <2>3, <2>4 DEF Read
  <1>5. CASE Write(r, ok, "exchange", TRUE, ExchangeArenaRank(db, e, t), "good", "bad")
    <2>1. q.at = "exchange"
      BY <1>1, <1>5 DEF Write
    <2>2. {e, t} \subseteq User
      BY <1>1, <2>1 DEF RequestOK, Known, KnownReward
    <2>3. Fine(q, ExchangeArenaRank(db, e, t))
      BY <2>2, ExchangeArenaRankFine
    <2>4. QED
      BY <1>2, <1>3, <1>5, <2>3 DEF Write
  <1>6. QED
    BY <1>1, <1>4, <1>5 DEF InExchangeArenaRank

\* dbio(): whatever the command.
LEMMA CommandStep ==
    ASSUME TablesOK(db), NEW r, NEW ok, RequestOK(At(r)), Held(db, At(r)), InCommand(r, ok)
    PROVE  Step(r)
  <1>1. PICK cmd : cmd = At(r).cmd
    OBVIOUS
  <1>2. ASSUME cmd \notin Special, Quick(r) PROVE Step(r)
    BY <1>1, <1>2, QuickKept, KeptStep
  <1>3. ASSUME cmd \notin Special, Kept(r) PROVE Step(r)
    BY <1>1, <1>3, KeptStep
  <1>4. CASE \/ cmd = "buy" /\ InBuyCard(r, ok)
             \/ cmd = "sell" /\ InSellCard(r, ok)
             \/ cmd = "uhslot" /\ InUpdateHeroSlot(r, ok)
             \/ cmd = "xcbuy" /\ InBuyExchangePiece(r, ok)
             \/ cmd = "xcreset" /\ InResetExchange(r, ok)
             \/ cmd = "gift" /\ InExchangeGift(r, ok)
             \/ cmd = "pay" /\ InPay(r, ok)
             \/ cmd = "gate" /\ InGate(r, ok)
             \/ cmd = "chapter" /\ InChapter(r, ok)
    BY <1>1, <1>4, BuyStep, SellStep, UpdateHeroSlotStep, XcbuyStep, XcresetStep, GiftStep, PayStep, PoweredStep
       DEF InGate, InChapter
  <1>5. CASE \/ cmd = "tower" /\ InTower(r, ok)
             \/ cmd = "tower_buff" /\ InTowerBuff(r, ok)
             \/ cmd = "tower_result" /\ InTowerResult(r, ok)
             \/ cmd = "arenaexc" /\ InExchangeArenaRank(r, ok)
    BY <1>1, <1>5, TowerStep, TowerBuffStep, TowerResultStep, ArenaexcStep
  <1>6. CASE \/ cmd = "batch" /\ InLoadBatch(r, ok)
             \/ cmd = "savebatch" /\ InSaveBatch(r, ok)
             \/ cmd = "mexchange" /\ InMoneyExchange(r, ok)
             \/ cmd = "lcard" /\ InLoadCard(r, ok)
             \/ cmd = "ldeck" /\ InLoadDeck(r, ok)
             \/ cmd = "lhdeck" /\ InLoadHeroDeck(r, ok)
             \/ cmd = "lslot" /\ InLoadSlot(r, ok)
             \/ cmd = "slotlist" /\ InSlotList(r, ok)
             \/ cmd = "sslot" /\ InSaveSlot(r, ok)
             \/ cmd = "rslot" /\ InRenameSlot(r, ok)
             \/ cmd = "buyslot" /\ InBuySlot(r, ok)
             \/ cmd = "lhslot" /\ InListHeroSlot(r, ok)
             \/ cmd = "ghslot" /\ InGetHeroSlot(r, ok)
             \/ cmd = "ihslot" /\ InInsertHeroSlot(r, ok)
    <2>1. Quick(r)
      BY <1>6, QuickDecks DEF TablesOK
    <2>2. cmd \notin Special
      BY <1>6 DEF Special
    <2>3. QED
      BY <1>2, <2>1, <2>2
  <1>7. CASE \/ cmd = "lpiece" /\ InLoadPiece(r, ok)
             \/ cmd = "xclist" /\ InListExchange(r, ok)
             \/ cmd = "pshop" /\ InGetPieceShop(r, ok)
             \/ cmd = "upshop" /\ InUpdatePieceShop(r, ok)
             \/ cmd = "rpshop" /\ InRefreshPieceShop(r, ok)
             \/ cmd = "lmis" /\ InLoadMission(r, ok)
             \/ cmd = "smis" /\ InSaveMission(r, ok)
             \/ cmd = "dlogin" /\ InGetDailyLogin(r, ok)
             \/ cmd = "lhero" /\ InLoadHeroData(r, ok)
             \/ cmd = "up_hero_mlist" /\ InUpdateHeroMission(r, ok)
             \/ cmd = "shero_mis" /\ InSubmitHeroMission(r, ok)
    <2>1. Quick(r)
      BY <1>7, QuickHeroes DEF TablesOK
    <2>2. cmd \notin Special
      BY <1>7 DEF Special
    <2>3. QED
      BY <1>2, <2>1, <2>2
  <1>8. CASE \/ cmd = "update_gate_pos" /\ InUpdateGatePos(r, ok)
             \/ cmd = "solo_plus" /\ InSolo(r, ok)
             \/ cmd = "chapter_data" /\ InGetChapter(r, ok)
             \/ cmd = "chapter_replace" /\ InReplaceChapter(r, ok)
             \/ cmd = "update_signals" /\ InUpdateSignals(r, ok)
             \/ cmd = "fight" /\ InFight(r, ok)
             \/ cmd = "fight_robot" /\ InFightRobot(r, ok)
             \/ cmd = "arenatop" /\ InArenaTopList(r, ok)
             \/ cmd = "arenatarget" /\ InArenaTarget(r, ok)
             \/ cmd = "arenagame" /\ InArenaGame(r, ok)
             \/ cmd = "login" /\ InLogin(r, ok)
    <2>1. Quick(r)
      BY <1>8, QuickArena DEF TablesOK
    <2>2. cmd \notin Special
      BY <1>8 DEF Special
    <2>3. QED
      BY <1>2, <2>1, <2>2
  <1>9. CASE \/ cmd = "scard" /\ InSaveCard(r, ok)
             \/ cmd = "sdeck" /\ InSaveDeck(r, ok)
             \/ cmd = "chslot" /\ InChooseHeroSlot(r, ok)
             \/ cmd = "pick" /\ InPick(r, ok)
             \/ cmd = "mpiece" /\ InMergePiece(r, ok)
             \/ cmd = "pbuy" /\ InPieceBuy(r, ok)
             \/ cmd = "ppiece" /\ InPickPiece(r, ok)
             \/ cmd = "xcadd" /\ InAddExchangePiece(r, ok)
    <2>1. Kept(r)
      BY <1>1, <1>9, KeptSaveCard, KeptSaveDeck, KeptPick, KeptMergePiece, KeptPieceBuy, KeptPickPiece,
         KeptAddExchangePiece
    <2>2. cmd \notin Special
      BY <1>9 DEF Special
    <2>3. QED
      BY <1>3, <2>1, <2>2
  <1>10. CASE \/ cmd = "mreward" /\ InMissionReward(r, ok)
              \/ cmd = "lottery" /\ InLottery(r, ok)
              \/ cmd = "dreward" /\ InGetDailyReward(r, ok)
              \/ cmd = "chapter_reward" /\ InChapterReward(r, ok)
              \/ cmd = "win" /\ InWin(r, ok)
              \/ cmd = "reset_fight" /\ InResetFightTimes(r, ok)
              \/ cmd = "arenatimes" /\ InUpdateArenaTimes(r, ok)
              \/ cmd = "arenareward" /\ InGetArenaReward(r, ok)
              \/ cmd = "init_arena" /\ InInitArena(r, ok)
              \/ cmd = "reset_arena" /\ InResetArenaTimes(r, ok)
    <2>1. Kept(r)
      BY <1>1, <1>10, KeptMissionReward, KeptLottery, KeptGetDailyReward, KeptChapterReward, KeptWin,
         KeptResetFightTimes, KeptArena
    <2>2. cmd \notin Special
      BY <1>10 DEF Special
    <2>3. QED
      BY <1>3, <2>1, <2>2
  <1>11. QED
    BY <1>1, <1>4, <1>5, <1>6, <1>7, <1>8, <1>9, <1>10 DEF InCommand

LEMMA DbioKeeps ==
    ASSUME IInv, Dbio
    PROVE  TablesOK(db') /\ LinesOK(db', queue')
  <1>1. PICK r \in Requests, ok \in BOOLEAN : Current(r) /\ InCommand(r, ok)
    BY DEF Dbio
  <1>2. PICK th \in Thread : \E j \in 1 .. Len(queue[th]) : r = <<th, j>>
    BY DEF Requests
  <1>3. PICK j \in 1 .. Len(queue[th]) : r = <<th, j>>
    BY <1>2
  <1>4. At(r) = queue[th][j]
    BY <1>3 DEF At
  <1>5. RequestOK(queue[th][j]) /\ Held(db, queue[th][j])
    BY DEF IInv, LinesOK, Line
  <1>6. Step(r)
    BY <1>1, <1>4, <1>5, CommandStep DEF IInv
  <1>7. QED
    BY <1>1, <1>6, WorkKeeps

----------------------------------------------------------------------------
(* What the main loop sends.                                               *)

\* The tables stay, and whatever is sent finds its place in a line.
Leaves == scenario' = scenario /\ db' = db /\ LinesOK(db, queue')

\* The commands whose numbers matter.
Bringing == {"buy", "sell", "xcbuy", "xcadd", "mpiece", "pbuy", "pay", "xcreset", "scard", "lottery", "mreward",
             "dreward", "gift", "gate", "chapter", "tower_buff"}

LEMMA NewFine ==
    ASSUME NEW q, DOMAIN q = {"cmd", "by", "e", "a", "at", "good", "got"}, q.at = "new",
           q.cmd \notin Bringing \/ Payload(q)
    PROVE  NewOK(q)
  <1>1. Payload(q)
    BY DEF Bringing, Payload
  <1>2. Known(q)
    BY DEF Known, KnownOffer, KnownReward, KnownTower
  <1>3. QED
    BY <1>1, <1>2 DEF NewOK, RequestOK

LEMMA NewIs ==
    ASSUME NEW cmd, NEW e, NEW a, NEW q, q = NewRequest(cmd, e, a), cmd \notin Bringing \/ Payload(q)
    PROVE  NewOK(q) /\ q.cmd = cmd /\ q.by = e /\ q.e = e /\ q.a = a
  <1>1. /\ DOMAIN q = {"cmd", "by", "e", "a", "at", "good", "got"}
        /\ q.cmd = cmd /\ q.by = e /\ q.e = e /\ q.a = a /\ q.at = "new"
    BY DEF NewRequest
  <1>2. QED
    BY <1>1, NewFine

\* One request of a user's, for his worker.
LEMMA SentNew ==
    ASSUME NEW cmd, NEW e, NEW a, cmd \notin Bringing \/ Payload(NewRequest(cmd, e, a))
    PROVE  Sent(e % threads, <<NewRequest(cmd, e, a)>>)
  <1>1. PICK q : q = NewRequest(cmd, e, a)
    OBVIOUS
  <1>2. NewOK(q) /\ q.e = e
    BY <1>1, NewIs
  <1>3. Placed(e % threads, q)
    BY <1>2 DEF Placed
  <1>4. Sent(e % threads, <<q>>)
    BY <1>2, <1>3, SentOne
  <1>5. QED
    BY <1>1, <1>4

LEMMA WriteAllLeaves ==
    ASSUME IInv, NEW e, NEW cmd, NEW u, NEW requests, Sent(e % threads, requests),
           DbinWriteAll(e, cmd, u, requests)
    PROVE  Leaves
  BY EnqueueKeeps DEF IInv, DbinWriteAll, Leaves

LEMMA WriteLeaves ==
    ASSUME IInv, NEW e, NEW cmd, NEW a, DbinWrite(e, cmd, a),
           cmd \notin Bringing \/ Payload(NewRequest(cmd, e, a))
    PROVE  Leaves
  <1>1. PICK requests : requests = <<NewRequest(cmd, e, a)>>
    OBVIOUS
  <1>2. Sent(e % threads, requests)
    BY <1>1, SentNew
  <1>3. DbinWriteAll(e, cmd, conn[e], requests)
    BY <1>1 DEF DbinWrite
  <1>4. QED
    BY <1>2, <1>3, WriteAllLeaves

\* The administration's may be any worker's.
LEMMA OfficeLeaves ==
    ASSUME IInv, NEW e, NEW cmd \in Loose, NEW a, DbinOffice(cmd, e, a),
           cmd \notin Bringing \/ Payload([NewRequest(cmd, e, a) EXCEPT !.by = Office])
    PROVE  Leaves
  <1>1. PICK q : q = [NewRequest(cmd, e, a) EXCEPT !.by = Office]
    OBVIOUS
  <1>2. NewOK(q) /\ q.cmd = cmd
    <2>1. DOMAIN q = {"cmd", "by", "e", "a", "at", "good", "got"} /\ q.cmd = cmd /\ q.at = "new"
      BY <1>1 DEF NewRequest
    <2>2. QED
      BY <1>1, <2>1, NewFine
  <1>3. PICK th \in Thread : queue' = [queue EXCEPT ![th] = Append(@, q)]
    BY <1>1 DEF DbinOffice
  <1>4. LinesOK(db, queue')
    BY <1>2, <1>3, AppendKeeps DEF IInv, Placed
  <1>5. QED
    BY <1>4 DEF DbinOffice, Leaves

LEMMA LoginLeaves ==
    ASSUME IInv, NEW e, DbinLogin(e)
    PROVE  Leaves
  <1>1. PICK q : q = NewRequest("login", e, <<>>)
    OBVIOUS
  <1>2. NewOK(q) /\ q.cmd = "login"
    BY <1>1, NewIs DEF Bringing
  <1>3. PICK th \in Thread : queue' = [queue EXCEPT ![th] = Append(@, q)]
    BY <1>1 DEF DbinLogin
  <1>4. LinesOK(db, queue')
    BY <1>2, <1>3, AppendKeeps DEF IInv, Placed, Loose
  <1>5. QED
    BY <1>4 DEF DbinLogin, Leaves

\* Commands of which nothing is asked.
LEMMA PlainDecks ==
    ASSUME IInv, NEW e,
           \/ DbinPick(e) \/ DbinMoneyExchange(e) \/ DbinLoadCard(e) \/ DbinLoadDeck(e) \/ DbinLoadHeroDeck(e)
           \/ DbinSaveDeck(e) \/ DbinLoadSlot(e) \/ DbinSlotList(e) \/ DbinSaveSlot(e) \/ DbinRenameSlot(e)
           \/ DbinBuySlot(e) \/ DbinListHeroSlot(e) \/ DbinGetHeroSlot(e) \/ DbinInsertHeroSlot(e)
           \/ DbinUpdateHeroSlot(e) \/ DbinChooseHeroSlot(e)
    PROVE  Leaves
  <1>1. ASSUME NEW cmd \in {"pick", "mexchange", "lcard", "ldeck", "lhdeck", "sdeck", "lslot", "slotlist", "sslot", "rslot",
                            "buyslot", "lhslot", "ghslot", "ihslot", "uhslot", "chslot"},
               NEW a, DbinWrite(e, cmd, a)
        PROVE  Leaves
    BY <1>1, WriteLeaves DEF Bringing
  <1>2. QED
    BY <1>1 DEF DbinPick, DbinMoneyExchange, DbinLoadCard, DbinLoadDeck, DbinLoadHeroDeck, DbinSaveDeck,
                DbinLoadSlot, DbinSlotList, DbinSaveSlot, DbinRenameSlot, DbinBuySlot, DbinListHeroSlot,
                DbinGetHeroSlot, DbinInsertHeroSlot, DbinUpdateHeroSlot, DbinChooseHeroSlot

LEMMA PlainMarket ==
    ASSUME IInv, NEW e,
           \/ DbinLoadPiece(e) \/ DbinXclist(e) \/ DbinPickPiece(e) \/ DbinRefreshPieceShop(e) \/ DbinLoadMission(e)
           \/ GetDailyLogin(e) \/ SubmitHeroMission(e) \/ DbinTower(e) \/ DbinSoloPlus(e) \/ DbinChapterData(e)
           \/ DbinFight(e) \/ DbinArenaTopList(e) \/ DbinArenaTarget(e) \/ DbinArenaGame(e)
           \/ DbinGetArenaReward(e)
    PROVE  Leaves
  <1>1. ASSUME NEW cmd \in {"lpiece", "xclist", "ppiece", "rpshop", "lmis", "dlogin", "shero_mis", "tower", "solo_plus",
                            "chapter_data", "fight", "fight_robot", "arenatop", "arenatarget", "arenagame",
                            "arenareward"},
               NEW a, DbinWrite(e, cmd, a)
        PROVE  Leaves
    BY <1>1, WriteLeaves DEF Bringing
  <1>2. QED
    BY <1>1 DEF DbinLoadPiece, DbinXclist, DbinPickPiece, DbinRefreshPieceShop, DbinLoadMission, GetDailyLogin,
                SubmitHeroMission, DbinTower, DbinSoloPlus, DbinChapterData, DbinFight, DbinArenaTopList,
                DbinArenaTarget, DbinArenaGame, DbinGetArenaReward

LEMMA PlainOffice ==
    ASSUME IInv, NEW e, ResetFightTimes(e) \/ AdminInitArena(e) \/ AdminResetArenaTimes(e)
    PROVE  Leaves
  BY OfficeLeaves DEF ResetFightTimes, AdminInitArena, AdminResetArenaTimes, Loose, Bringing

\* The same of the command, the user and the numbers.
Brought(cmd, e, a) ==
    /\ cmd \in {"buy", "sell", "xcbuy", "xcadd", "mpiece", "pbuy"} => "n" \in DOMAIN a /\ a.n \in Nat
    /\ cmd \in {"buy", "xcbuy", "xcreset", "pay"} => May(cmd, e)
    /\ cmd = "xcreset" => e \in User
    /\ cmd = "scard" => a.list \in [Card -> 0 .. EVIL_NUM_CARD_MAX]
    /\ cmd \in {"lottery", "mreward", "dreward"} => IsFiniteSet(DOMAIN a.cards)
    /\ cmd = "dreward" => a.pieces \in [Card -> Nat]
    /\ cmd = "gift" => a.key \in DOMAIN Design.gift
    /\ cmd \in {"gate", "chapter"} => a.power \in Nat
    /\ cmd = "tower_buff" => {a.res, a.energy} \subseteq Nat

LEMMA BroughtPays ==
    ASSUME NEW cmd, NEW e, NEW a, Brought(cmd, e, a)
    PROVE  Payload(NewRequest(cmd, e, a))
  <1>1. PICK q : q = NewRequest(cmd, e, a)
    OBVIOUS
  <1>2. q.cmd = cmd /\ q.e = e /\ q.a = a
    BY <1>1 DEF NewRequest
  <1>3. Payload(q)
    BY <1>2 DEF Payload, Brought
  <1>4. QED
    BY <1>1, <1>3

LEMMA BroughtLeaves ==
    ASSUME IInv, NEW e, NEW cmd, NEW a, DbinWrite(e, cmd, a), May(cmd, e) => Brought(cmd, e, a)
    PROVE  Leaves
  <1>1. May(cmd, e)
    BY DEF DbinWrite, DbinWriteAll, MaySend
  <1>2. QED
    BY <1>1, BroughtPays, WriteLeaves

LEMMA BroughtOffice ==
    ASSUME IInv, NEW e, NEW cmd \in Loose, NEW a, DbinOffice(cmd, e, a), May(cmd, e) => Brought(cmd, e, a)
    PROVE  Leaves
  <1>1. Brought(cmd, e, a)
    BY DEF DbinOffice
  <1>2. PICK q : q = [NewRequest(cmd, e, a) EXCEPT !.by = Office]
    OBVIOUS
  <1>3. q.cmd = cmd /\ q.e = e /\ q.a = a
    BY <1>2 DEF NewRequest
  <1>4. Payload(q)
    BY <1>1, <1>3 DEF Payload, Brought
  <1>5. QED
    BY <1>2, <1>4, OfficeLeaves

LEMMA WithHas ==
    ASSUME NEW x, NEW y, NEW a, a = With(x, y), NEW f
    PROVE  /\ f \in DOMAIN x => f \in DOMAIN a /\ a[f] = x[f]
           /\ f \in DOMAIN y /\ f \notin DOMAIN x => f \in DOMAIN a /\ a[f] = y[f]
  BY DEF With

LEMMA BringCounts ==
    ASSUME IInv, NEW e, NEW cmd \in {"buy", "sell", "xcbuy", "xcadd", "mpiece", "pbuy"}, NEW a,
           DbinWrite(e, cmd, a), "n" \in DOMAIN a, a.n \in Nat
    PROVE  Leaves
  BY BroughtLeaves DEF Brought

LEMMA SendCounts ==
    ASSUME IInv, NEW e, DbinBuyCard(e) \/ DbinSellCard(e) \/ DbinXcadd(e) \/ DbinXcbuy(e)
    PROVE  Leaves
  <1>1. ASSUME NEW cmd \in {"buy", "sell", "xcadd"}, NEW x, "n" \in DOMAIN x, x.n \in Design.counts, NEW y,
               DbinWrite(e, cmd, With(x, y))
        PROVE  Leaves
    <2>1. PICK a : a = With(x, y)
      OBVIOUS
    <2>2. "n" \in DOMAIN a /\ a.n \in Nat
      BY <1>1, <2>1, WithHas, DesignAssumption
    <2>3. QED
      BY <1>1, <2>1, <2>2, BringCounts
  <1>2. CASE DbinBuyCard(e)
    <2>1. PICK kind \in Kind, unit \in Unit, c \in Design.goods, n \in Design.counts :
              DbinWrite(e, "buy", With([kind |-> kind, card |-> c, n |-> n], Price(unit, Design.buy[kind][unit] * n)))
      BY <1>2 DEF DbinBuyCard
    <2>2. PICK x, y : x = [kind |-> kind, card |-> c, n |-> n] /\ y = Price(unit, Design.buy[kind][unit] * n)
      OBVIOUS
    <2>3. "n" \in DOMAIN x /\ x.n \in Design.counts /\ DbinWrite(e, "buy", With(x, y))
      BY <2>1, <2>2
    <2>4. QED
      BY <1>1, <2>3
  <1>3. CASE DbinSellCard(e)
    <2>1. PICK kind \in Kind, unit \in Unit, c \in Design.goods, n \in Design.counts :
              DbinWrite(e, "sell", With([kind |-> kind, card |-> c, n |-> n],
                                        Price(unit, Design.sell[kind][unit] * n)))
      BY <1>3 DEF DbinSellCard
    <2>2. PICK x, y : x = [kind |-> kind, card |-> c, n |-> n] /\ y = Price(unit, Design.sell[kind][unit] * n)
      OBVIOUS
    <2>3. "n" \in DOMAIN x /\ x.n \in Design.counts /\ DbinWrite(e, "sell", With(x, y))
      BY <2>1, <2>2
    <2>4. QED
      BY <1>1, <2>3
  <1>4. CASE DbinXcadd(e)
    <2>1. PICK c \in Design.goods, n \in Design.counts, unit \in Unit :
              DbinWrite(e, "xcadd", With([card |-> c, n |-> n], Price(unit, Design.offer)))
      BY <1>4 DEF DbinXcadd
    <2>2. PICK x, y : x = [card |-> c, n |-> n] /\ y = Price(unit, Design.offer)
      OBVIOUS
    <2>3. "n" \in DOMAIN x /\ x.n \in Design.counts /\ DbinWrite(e, "xcadd", With(x, y))
      BY <2>1, <2>2
    <2>4. QED
      BY <1>1, <2>3
  <1>5. CASE DbinXcbuy(e)
    <2>1. PICK x \in 1 .. db.offers, n \in Design.counts : DbinWrite(e, "xcbuy", [offer |-> x, n |-> n])
      BY <1>5 DEF DbinXcbuy
    <2>2. PICK a : a = [offer |-> x, n |-> n]
      OBVIOUS
    <2>3. "n" \in DOMAIN a /\ a.n \in Nat /\ DbinWrite(e, "xcbuy", a)
      BY <2>1, <2>2, DesignAssumption
    <2>4. QED
      BY <2>3, BringCounts
  <1>6. QED
    BY <1>2, <1>3, <1>4, <1>5

LEMMA SendPieces ==
    ASSUME IInv, NEW e, DbinMergePiece(e) \/ DbinPieceBuy(e)
    PROVE  Leaves
  <1>1. ASSUME NEW cmd \in {"mpiece", "pbuy"}, NEW x, "n" \notin DOMAIN x, NEW y, "n" \in DOMAIN y, y.n \in Nat,
               DbinWrite(e, cmd, With(x, y))
        PROVE  Leaves
    <2>1. PICK a : a = With(x, y)
      OBVIOUS
    <2>2. "n" \in DOMAIN a /\ a.n \in Nat
      BY <1>1, <2>1, WithHas
    <2>3. QED
      BY <1>1, <2>1, <2>2, BringCounts
  <1>2. CASE DbinMergePiece(e)
    <2>1. PICK c \in DOMAIN Design.merge : DbinWrite(e, "mpiece", With([card |-> c], Design.merge[c]))
      BY <1>2 DEF DbinMergePiece
    <2>2. PICK x, y : x = [card |-> c] /\ y = Design.merge[c]
      OBVIOUS
    <2>3. "n" \notin DOMAIN x /\ "n" \in DOMAIN y /\ y.n \in Nat
      BY <2>2, DesignAssumption
    <2>4. QED
      BY <1>1, <2>1, <2>2, <2>3
  <1>3. CASE DbinPieceBuy(e)
    <2>1. PICK pos \in RowLength \ conn[e].shop.bought :
              DbinWrite(e, "pbuy", With([pos |-> pos], PieceShopItem(conn[e].shop.items[pos])))
      BY <1>3 DEF DbinPieceBuy
    <2>2. PICK pid : pid = conn[e].shop.items[pos]
      OBVIOUS
    <2>3. PICK x, y : x = [pos |-> pos] /\ y = PieceShopItem(pid)
      OBVIOUS
    <2>4. "n" \notin DOMAIN x /\ "n" \in DOMAIN y /\ y.n \in Nat
      BY <2>3, DesignAssumption DEF PieceShopItem
    <2>5. QED
      BY <1>1, <2>1, <2>2, <2>3, <2>4
  <1>4. QED
    BY <1>2, <1>3

LEMMA SendSaveCard ==
    ASSUME IInv, NEW e, DbinSaveCard(e)
    PROVE  Leaves
  <1>1. PICK h \in Hero : DbinWrite(e, "scard", [list |-> Design.job[h]])
    BY DEF DbinSaveCard
  <1>2. PICK a : a = [list |-> Design.job[h]]
    OBVIOUS
  <1>3. Brought("scard", e, a)
    BY <1>2, DesignAssumption DEF Hero, Brought
  <1>4. QED
    BY <1>1, <1>2, <1>3, BroughtLeaves

LEMMA SendLottery ==
    ASSUME IInv, NEW e, DbinLottery(e)
    PROVE  Leaves
  <1>1. ASSUME NEW x, "cards" \in DOMAIN x, NEW S, x.cards \in Seq(S), NEW y, DbinWrite(e, "lottery", With(x, y))
        PROVE  Leaves
    <2>1. PICK a : a = With(x, y)
      OBVIOUS
    <2>2. a.cards = x.cards
      BY <1>1, <2>1, WithHas
    <2>3. IsFiniteSet(DOMAIN a.cards)
      BY <1>1, <2>2, ListFinite
    <2>4. Brought("lottery", e, a)
      BY <2>3 DEF Brought
    <2>5. QED
      BY <1>1, <2>1, <2>4, BroughtLeaves
  <1>2. PICK unit \in Unit :
            LET list == IF unit \in conn[e].signals THEN "normal" ELSE "once" IN
            \/ \E c \in Design.draws[list] :
                  DbinWrite(e, "lottery", With([cards |-> <<c>>, signals |-> conn[e].signals, unit |-> unit],
                                               Price(unit, Design.lottery_one[unit])))
            \/ \E cards \in Design.ten :
                  DbinWrite(e, "lottery", With([cards |-> cards, signals |-> conn[e].signals, unit |-> unit],
                                               Price(unit, Design.lottery_ten[unit])))
    BY DEF DbinLottery
  <1>3. CASE \E c \in Design.draws[IF unit \in conn[e].signals THEN "normal" ELSE "once"] :
                  DbinWrite(e, "lottery", With([cards |-> <<c>>, signals |-> conn[e].signals, unit |-> unit],
                                               Price(unit, Design.lottery_one[unit])))
    <2>1. PICK c : DbinWrite(e, "lottery", With([cards |-> <<c>>, signals |-> conn[e].signals, unit |-> unit],
                                                Price(unit, Design.lottery_one[unit])))
      BY <1>3
    <2>2. PICK x, y : /\ x = [cards |-> <<c>>, signals |-> conn[e].signals, unit |-> unit]
                      /\ y = Price(unit, Design.lottery_one[unit])
      OBVIOUS
    <2>3. "cards" \in DOMAIN x /\ x.cards \in Seq({c})
      BY <2>2
    <2>4. QED
      BY <1>1, <2>1, <2>2, <2>3
  <1>4. CASE \E cards \in Design.ten :
                  DbinWrite(e, "lottery", With([cards |-> cards, signals |-> conn[e].signals, unit |-> unit],
                                               Price(unit, Design.lottery_ten[unit])))
    <2>1. PICK cards \in Design.ten :
              DbinWrite(e, "lottery", With([cards |-> cards, signals |-> conn[e].signals, unit |-> unit],
                                           Price(unit, Design.lottery_ten[unit])))
      BY <1>4
    <2>2. PICK x, y : /\ x = [cards |-> cards, signals |-> conn[e].signals, unit |-> unit]
                      /\ y = Price(unit, Design.lottery_ten[unit])
      OBVIOUS
    <2>3. "cards" \in DOMAIN x /\ x.cards \in Seq(Card)
      BY <2>2, DesignAssumption
    <2>4. QED
      BY <1>1, <2>1, <2>2, <2>3
  <1>5. QED
    BY <1>2, <1>3, <1>4

LEMMA SendDailyReward ==
    ASSUME IInv, NEW e, GetDailyReward(e)
    PROVE  Leaves
  <1>1. PICK day \in 1 .. Len(Design.daily) + 1 :
            DbinWrite(e, "dreward", With([day |-> day], Design.daily[RewardDay(day)]))
    BY DEF GetDailyReward
  <1>2. PICK x, y : x = [day |-> day] /\ y = Design.daily[RewardDay(day)]
    OBVIOUS
  <1>3. y \in [gold : Nat, cards : Seq(Card), pieces : [Card -> Nat]]
    <2>1. Design.daily \in Seq([gold : Nat, cards : Seq(Card), pieces : [Card -> Nat]]) /\ Len(Design.daily) \in Nat
          /\ Len(Design.daily) # 0
      BY DesignAssumption
    <2>2. RewardDay(day) \in 1 .. Len(Design.daily)
      BY <2>1 DEF RewardDay, Clip
    <2>3. PICK S, k : S = [gold : Nat, cards : Seq(Card), pieces : [Card -> Nat]] /\ k = RewardDay(day)
      OBVIOUS
    <2>4. PICK s \in Seq(S) : s = Design.daily
      BY <2>1, <2>3
    <2>5. k \in 1 .. Len(s) /\ y = s[k]
      BY <1>2, <2>2, <2>3, <2>4
    <2>6. y \in S
      BY <2>5
    <2>7. QED
      BY <2>3, <2>6
  <1>4. PICK a : a = With(x, y)
    OBVIOUS
  <1>5. a.cards = y.cards /\ a.pieces = y.pieces
    BY <1>2, <1>3, <1>4, WithHas
  <1>6. IsFiniteSet(DOMAIN a.cards) /\ a.pieces \in [Card -> Nat]
    BY <1>3, <1>5, ListFinite
  <1>7. Brought("dreward", e, a)
    BY <1>6 DEF Brought
  <1>8. QED
    BY <1>1, <1>2, <1>4, <1>7, BroughtLeaves

LEMMA SendNumbers ==
    ASSUME IInv, NEW e, ExchangeGift(e) \/ DbinGate(e) \/ DbinChapter(e) \/ DbinTowerBuff(e)
    PROVE  Leaves
  <1>1. CASE ExchangeGift(e)
    <2>1. PICK k \in DOMAIN Design.gift : DbinWrite(e, "gift", [key |-> k])
      BY <1>1 DEF ExchangeGift
    <2>2. PICK a : a = [key |-> k]
      OBVIOUS
    <2>3. Brought("gift", e, a)
      BY <2>2 DEF Brought
    <2>4. QED
      BY <2>1, <2>2, <2>3, BroughtLeaves
  <1>2. CASE DbinGate(e)
    <2>1. PICK g \in DOMAIN Design.gate : DbinWrite(e, "gate", [at |-> g, power |-> Design.gate[g].power])
      BY <1>2 DEF DbinGate
    <2>2. PICK a : a = [at |-> g, power |-> Design.gate[g].power]
      OBVIOUS
    <2>3. Brought("gate", e, a)
      BY <2>2, DesignAssumption DEF Brought
    <2>4. QED
      BY <2>1, <2>2, <2>3, BroughtLeaves
  <1>3. CASE DbinChapter(e)
    <2>1. PICK c \in Chapter : \E s \in Stage(c) :
              DbinWrite(e, "chapter", [c |-> c, s |-> s, power |-> Design.chapter[c][s].power])
      BY <1>3 DEF DbinChapter
    <2>2. PICK s \in Stage(c) : DbinWrite(e, "chapter", [c |-> c, s |-> s, power |-> Design.chapter[c][s].power])
      BY <2>1
    <2>3. PICK a : a = [c |-> c, s |-> s, power |-> Design.chapter[c][s].power]
      OBVIOUS
    <2>4. Brought("chapter", e, a)
      BY <2>3, DesignAssumption DEF Brought, Chapter, Stage
    <2>5. QED
      BY <2>2, <2>3, <2>4, BroughtLeaves
  <1>4. CASE DbinTowerBuff(e)
    <2>1. PICK a \in {[res |-> 0, energy |-> 0], [res |-> 1, energy |-> 0], [res |-> 0, energy |-> 1]} :
              DbinWrite(e, "tower_buff", a)
      BY <1>4 DEF DbinTowerBuff
    <2>2. {a.res, a.energy} \subseteq Nat
      OBVIOUS
    <2>3. Brought("tower_buff", e, a)
      BY <2>2 DEF Brought
    <2>4. QED
      BY <2>1, <2>3, BroughtLeaves
  <1>5. QED
    BY <1>1, <1>2, <1>3, <1>4

LEMMA SendOffice ==
    ASSUME IInv, NEW e \in User, AdminXcreset(e) \/ AdminPay(e)
    PROVE  Leaves
  <1>1. ASSUME NEW cmd \in {"xcreset", "pay"}, NEW a, DbinOffice(cmd, e, a)
        PROVE  Leaves
    <2>1. May(cmd, e) => Brought(cmd, e, a)
      BY <1>1 DEF Brought
    <2>2. cmd \in Loose
      BY <1>1 DEF Loose
    <2>3. QED
      BY <1>1, <2>1, <2>2, BroughtOffice
  <1>2. QED
    BY <1>1 DEF AdminXcreset, AdminPay

\* Requests with a list of missions or of chapters.
LEMMA SentPlain ==
    ASSUME NEW cmd, NEW e, NEW a, cmd \notin Bringing
    PROVE  Sent(e % threads, <<NewRequest(cmd, e, a)>>)
  BY SentNew

LEMMA SentMission ==
    ASSUME NEW e, NEW old, NEW new
    PROVE  Sent(e % threads, SaveMission(e, old, new))
  <1>1. CASE new.mis = old.mis
    <2>1. SaveMission(e, old, new) = <<>>
      BY <1>1 DEF SaveMission
    <2>2. QED
      BY <2>1, SentNone
  <1>2. CASE new.mis # old.mis
    <2>1. PICK a : a = [mis |-> new.mis, seen |-> new.seen]
      OBVIOUS
    <2>2. SaveMission(e, old, new) = <<NewRequest("smis", e, a)>>
      BY <1>2, <2>1 DEF SaveMission
    <2>3. "smis" \notin Bringing
      BY DEF Bringing
    <2>4. QED
      BY <2>2, <2>3, SentPlain
  <1>3. QED
    BY <1>1, <1>2

\* One request of a command of which nothing is asked.
LEMMA OneLeaves ==
    ASSUME IInv, NEW e, NEW cmd, NEW u, NEW c, c \notin Bringing, NEW a,
           DbinWriteAll(e, cmd, u, <<NewRequest(c, e, a)>>)
    PROVE  Leaves
  <1>1. PICK requests : requests = <<NewRequest(c, e, a)>>
    OBVIOUS
  <1>2. Sent(e % threads, requests)
    BY <1>1, SentPlain
  <1>3. QED
    BY <1>1, <1>2, WriteAllLeaves

LEMMA SendBatch ==
    ASSUME IInv, NEW e, DbinBatch(e)
    PROVE  Leaves
  <1>1. "batch" \notin Bringing /\ "savebatch" \notin Bringing
    BY DEF Bringing
  <1>2. CASE \E t \in BatchType, list \in GetRandomBatch :
                LET price == Price(BatchUnit(t), Design.refresh) IN
                /\ Has(e, price)
                /\ DbinWriteAll(e, "batch",
                       [AddMoney(conn[e], -price.gold, -price.crystal) EXCEPT !.batch[t] = list],
                       <<DbinSaveBatch(e, t, list, price)>>)
    <2>1. PICK t \in BatchType, list \in GetRandomBatch :
              LET price == Price(BatchUnit(t), Design.refresh) IN
              DbinWriteAll(e, "batch",
                  [AddMoney(conn[e], -price.gold, -price.crystal) EXCEPT !.batch[t] = list],
                  <<DbinSaveBatch(e, t, list, price)>>)
      BY <1>2
    <2>2. PICK a, u : DbinWriteAll(e, "batch", u, <<NewRequest("savebatch", e, a)>>)
      BY <2>1 DEF DbinSaveBatch
    <2>3. QED
      BY <1>1, <2>2, OneLeaves
  <1>3. CASE \E t \in BatchType : conn[e].batch[t] = NoBatch /\ DbinWrite(e, "batch", [type |-> t])
    <2>1. PICK a : DbinWrite(e, "batch", a)
      BY <1>3
    <2>2. QED
      BY <1>1, <2>1, WriteLeaves
  <1>4. QED
    BY <1>2, <1>3 DEF DbinBatch

LEMMA SendPieceShop ==
    ASSUME IInv, NEW e, DbinPieceShop(e)
    PROVE  Leaves
  <1>1. "pshop" \notin Bringing /\ "upshop" \notin Bringing
    BY DEF Bringing
  <1>2. CASE DbinWrite(e, "pshop", <<>>)
    BY <1>1, <1>2, WriteLeaves
  <1>3. CASE \E items \in RandomPieceShop :
                LET new == UpdatePieceShop(conn[e].shop, items) IN
                /\ Due(conn[e].shop) \/ OtherDay(conn[e].shop)
                /\ DbinWriteAll(e, "pshop", conn[e], <<NewRequest("upshop", e, [shop |-> new])>>)
    <2>1. PICK a : DbinWriteAll(e, "pshop", conn[e], <<NewRequest("upshop", e, a)>>)
      BY <1>3
    <2>2. QED
      BY <1>1, <2>1, OneLeaves
  <1>4. QED
    BY <1>2, <1>3 DEF DbinPieceShop

LEMMA SendSaveMission ==
    ASSUME IInv, NEW e, DbinSaveMission(e)
    PROVE  Leaves
  <1>1. "smis" \notin Bringing
    BY DEF Bringing
  <1>2. PICK new : new = ChangeMission(conn[e], <<>>)
    OBVIOUS
  <1>3. PICK a : a = [mis |-> new.mis, seen |-> new.seen]
    OBVIOUS
  <1>4. DbinWriteAll(e, "savemis", new, <<NewRequest("smis", e, a)>>)
    BY <1>2, <1>3 DEF DbinSaveMission
  <1>5. QED
    BY <1>1, <1>4, OneLeaves

LEMMA SendMissionReward ==
    ASSUME IInv, NEW e, DbinMissionReward(e)
    PROVE  Leaves
  <1>1. PICK m, new, cards, a :
            /\ cards = IF DesignMission[m].card = Wildcard THEN <<>> ELSE <<DesignMission[m].card>>
            /\ a = [mis |-> m, gold |-> DesignMission[m].gold, cards |-> cards, lv |-> DesignMission[m].lvup]
            /\ DbinWriteAll(e, "mreward", new, SaveMission(e, conn[e], new) \o <<NewRequest("mreward", e, a)>>)
    BY DEF DbinMissionReward
  <1>2. IsFiniteSet(DOMAIN a.cards)
    <2>1. CASE cards = <<>>
      BY <1>1, <2>1, NoneFinite
    <2>2. CASE cards # <<>>
      <3>1. PICK c : c = DesignMission[m].card
        OBVIOUS
      <3>2. cards = <<c>> /\ a.cards = cards
        BY <1>1, <2>2, <3>1
      <3>3. cards \in Seq({c})
        BY <3>2
      <3>4. QED
        BY <3>2, <3>3, ListFinite
    <2>3. QED
      BY <2>1, <2>2
  <1>3. Brought("mreward", e, a)
    BY <1>2 DEF Brought
  <1>4. PICK s, t : s = SaveMission(e, conn[e], new) /\ t = <<NewRequest("mreward", e, a)>>
    OBVIOUS
  <1>5. Sent(e % threads, s) /\ Sent(e % threads, t)
    BY <1>3, <1>4, SentMission, SentNew, BroughtPays
  <1>6. Sent(e % threads, s \o t) /\ DbinWriteAll(e, "mreward", new, s \o t)
    BY <1>1, <1>4, <1>5, SentBoth
  <1>7. QED
    BY <1>6, WriteAllLeaves

LEMMA SendArenaTimes ==
    ASSUME IInv, NEW e, DbinArenaTimes(e)
    PROVE  Leaves
  <1>1. "arenatimes" \notin Bringing
    BY DEF Bringing
  <1>2. PICK a : DbinWriteAll(e, "arenatimes", conn[e], <<NewRequest("arenatimes", e, a)>>)
    BY DEF DbinArenaTimes, ArenaTimes
  <1>3. QED
    BY <1>1, <1>2, OneLeaves

LEMMA SendNothing ==
    ASSUME IInv, NEW e, DbinSolo(e) \/ FightCancel(e)
    PROVE  Leaves
  <1>1. PICK cmd, u, requests : requests = <<>> /\ DbinWriteAll(e, cmd, u, requests)
    BY DEF DbinSolo, FightCancel
  <1>2. QED
    BY <1>1, SentNone, WriteAllLeaves

----------------------------------------------------------------------------
(* The end of a game, a client that leaves, and the clock.                 *)

LEMMA UserNoOffice ==
    ASSUME NEW e \in User
    PROVE  e # Office
  BY AccountAssumption DEF Office

LEMMA MixedNew ==
    ASSUME NEW cmd, NEW e \in User, NEW a, cmd \notin Bringing
    PROVE  Mixed(<<NewRequest(cmd, e, a)>>)
  <1>1. PICK q : q = NewRequest(cmd, e, a)
    OBVIOUS
  <1>2. NewOK(q) /\ q.by # Office /\ q.by = q.e
    BY <1>1, NewIs, UserNoOffice
  <1>3. QED
    BY <1>1, <1>2, MixedOne

LEMMA MixedLoose ==
    ASSUME NEW cmd \in Loose, NEW e, NEW a, NEW by, cmd \notin Bringing
    PROVE  Mixed(<<[NewRequest(cmd, e, a) EXCEPT !.by = by]>>)
  <1>1. PICK q : q = [NewRequest(cmd, e, a) EXCEPT !.by = by]
    OBVIOUS
  <1>2. DOMAIN q = {"cmd", "by", "e", "a", "at", "good", "got"} /\ q.at = "new" /\ q.cmd = cmd
    BY <1>1 DEF NewRequest
  <1>3. NewOK(q)
    BY <1>2, NewFine
  <1>4. Mixed(<<q>>)
    BY <1>2, <1>3, MixedOne
  <1>5. QED
    BY <1>1, <1>4

LEMMA MixedMission ==
    ASSUME NEW e \in User, NEW old, NEW new
    PROVE  Mixed(SaveMission(e, old, new))
  <1>1. CASE new.mis = old.mis
    <2>1. SaveMission(e, old, new) = <<>>
      BY <1>1 DEF SaveMission
    <2>2. QED
      BY <2>1, MixedNone
  <1>2. CASE new.mis # old.mis
    <2>1. PICK a : a = [mis |-> new.mis, seen |-> new.seen]
      OBVIOUS
    <2>2. SaveMission(e, old, new) = <<NewRequest("smis", e, a)>>
      BY <1>2, <2>1 DEF SaveMission
    <2>3. "smis" \notin Bringing
      BY DEF Bringing
    <2>4. QED
      BY <2>2, <2>3, MixedNew
  <1>3. QED
    BY <1>1, <1>2

LEMMA MixedHeroMission ==
    ASSUME NEW e, NEW u, NEW hero, NEW about
    PROVE  Mixed(SaveHeroMission(e, u, hero, about))
  <1>1. CASE about = {}
    <2>1. SaveHeroMission(e, u, hero, about) = <<>>
      BY <1>1 DEF SaveHeroMission
    <2>2. QED
      BY <2>1, MixedNone
  <1>2. CASE about # {}
    <2>1. PICK a : a = [hero |-> hero, list |-> [m \in about |-> u.hmis[hero][m]]]
      OBVIOUS
    <2>2. SaveHeroMission(e, u, hero, about) = <<[NewRequest("up_hero_mlist", e, a) EXCEPT !.by = Office]>>
      BY <1>2, <2>1 DEF SaveHeroMission
    <2>3. "up_hero_mlist" \notin Bringing /\ "up_hero_mlist" \in Loose
      BY DEF Bringing, Loose
    <2>4. QED
      BY <2>2, <2>3, MixedLoose
  <1>3. QED
    BY <1>1, <1>2

LEMMA MixedChapter ==
    ASSUME NEW e \in User, NEW u, NEW at
    PROVE  Mixed(AskChapter(e, u, at))
  <1>1. "chapter_data" \notin Bringing /\ "chapter_replace" \notin Bringing
    BY DEF Bringing
  <1>2. PICK a : a = [chap |-> RefreshChapter(u, at).chap]
    OBVIOUS
  <1>3. \/ AskChapter(e, u, at) = <<NewRequest("chapter_data", e, at)>>
        \/ AskChapter(e, u, at) = <<>>
        \/ AskChapter(e, u, at) = <<NewRequest("chapter_replace", e, a)>>
    BY <1>2 DEF AskChapter
  <1>4. QED
    BY <1>1, <1>3, MixedNew, MixedNone

\* The missions of a player who is there.
LEMMA MixedShare ==
    ASSUME NEW over, NEW i
    PROVE  Mixed(ShareOf(over, i).missions)
  <1>1. CASE Online(over.game.guest[i])
    <2>1. PICK side, got, told, about : ShareOf(over, i) = ShareMissions(over, i, side, got, told, about)
      BY <1>1 DEF ShareOf, ShareFrom, ShareStep, ShareGrown, SharePaid, ShareTold
    <2>2. PICK e \in User : e = over.game.guest[i]
      BY <1>1 DEF Online
    <2>7. PICK hero, left : /\ hero = over.game.hero[i]
                            /\ left = IF about = {} THEN told ELSE CountHero(told, hero, about)
      OBVIOUS
    <2>8. ShareMissions(over, i, side, got, told, about).missions
              = SaveMission(e, got, told) \o SaveHeroMission(e, left, hero, about)
      BY <2>2, <2>7 DEF ShareMissions
    <2>3. PICK s, t : s = SaveMission(e, got, told) /\ t = SaveHeroMission(e, left, hero, about)
      OBVIOUS
    <2>4. Mixed(s) /\ Mixed(t)
      BY <2>3, MixedMission, MixedHeroMission
    <2>5. Mixed(s \o t)
      BY <2>4, MixedBoth
    <2>6. QED
      BY <2>1, <2>8, <2>3, <2>5
  <1>2. CASE ~Online(over.game.guest[i])
    <2>1. ShareOf(over, i).missions = <<>>
      BY <1>2 DEF ShareOf
    <2>2. QED
      BY <2>1, MixedNone
  <1>3. QED
    BY <1>1, <1>2

\* What a request of the end of a game is, by its command.
LEMMA MixedFinisher ==
    ASSUME NEW cmd \in {"update_signals", "win", "update_gate_pos", "tower_result", "arenaexc"}, NEW e, NEW a, NEW by,
           NEW s, s = <<>> \/ s = <<[NewRequest(cmd, e, a) EXCEPT !.by = by]>>
    PROVE  Mixed(s)
  <1>1. cmd \in Loose /\ cmd \notin Bringing
    BY DEF Loose, Bringing
  <1>2. QED
    BY <1>1, MixedLoose, MixedNone

LEMMA MixedWin ==
    ASSUME NEW over, over.at # NoStage => Online(Guest1(over.game)), NEW share, NEW by,
           Mixed(share[1].missions), Mixed(share[2].missions)
    PROVE  Mixed(WinRequests(over, share, by))
  <1> DEFINE game == over.game
             e == Guest1(game)
             u == Before(over, 1)
             ask == AskChapter(e, conn[e], over.at)
             stage == <<NewRequest("chapter_reward", e, [reward |-> over.reward, lv |-> u.lv, exp |-> u.exp])>>
             s1 == IF over.at = NoStage THEN <<>> ELSE ask \o stage
             s2 == IF Online(game.guest[1])
                   THEN <<[NewRequest("update_signals", game.guest[1], [signals |-> share[1].signals]) EXCEPT !.by = by]>>
                   ELSE <<>>
             s3 == IF Online(game.guest[2])
                   THEN <<[NewRequest("update_signals", game.guest[2], [signals |-> share[2].signals]) EXCEPT !.by = by]>>
                   ELSE <<>>
             s4 == <<[NewRequest("win", e, [side |-> <<share[1].side, share[2].side>>]) EXCEPT !.by = by]>>
             s5 == IF MovesGate(game, over.winner)
                   THEN <<[NewRequest("update_gate_pos", e, [at |-> NextGate(game)]) EXCEPT !.by = by]>> ELSE <<>>
             s6 == IF game.type = "tower"
                   THEN <<[NewRequest("tower_result", e, [at |-> game.at, won |-> over.winner = 1]) EXCEPT !.by = by]>>
                   ELSE <<>>
             s9 == IF TakesRank(game, over.winner)
                   THEN <<[NewRequest("arenaexc", e, [target |-> Unclone(game.guest[2])]) EXCEPT !.by = by]>> ELSE <<>>
  <1>1. Mixed(s1)
    <2>1. CASE over.at = NoStage
      BY <2>1, MixedNone
    <2>2. CASE over.at # NoStage
      <3>1. e \in User
        BY <2>2 DEF Online
      <3>2. "chapter_reward" \notin Bringing
        BY DEF Bringing
      <3>3. Mixed(ask) /\ Mixed(stage)
        BY <3>1, <3>2, MixedChapter, MixedNew
      <3> HIDE DEF ask, stage
      <3>4. Mixed(ask \o stage)
        BY <3>3, MixedBoth
      <3>5. QED
        BY <2>2, <3>4
    <2>3. QED
      BY <2>1, <2>2
  <1>2. Mixed(s2)
    BY MixedFinisher
  <1>3. Mixed(s3)
    BY MixedFinisher
  <1>4. Mixed(s4)
    BY MixedFinisher
  <1>5. Mixed(s5)
    BY MixedFinisher
  <1>6. Mixed(s6)
    BY MixedFinisher
  <1>7. Mixed(s9)
    BY MixedFinisher
  <1>8. WinRequests(over, share, by)
            = s1 \o s2 \o s3 \o s4 \o s5 \o s6 \o share[1].missions \o share[2].missions \o s9
    BY DEF WinRequests
  <1> HIDE DEF s1, s2, s3, s4, s5, s6, s9
  <1>9. PICK s7, s8 : s7 = share[1].missions /\ s8 = share[2].missions
    OBVIOUS
  <1>10. Mixed(s1 \o s2)
    BY <1>1, <1>2, MixedBoth
  <1>11. Mixed(s1 \o s2 \o s3)
    BY <1>3, <1>10, MixedBoth
  <1>12. Mixed(s1 \o s2 \o s3 \o s4)
    BY <1>4, <1>11, MixedBoth
  <1>13. Mixed(s1 \o s2 \o s3 \o s4 \o s5)
    BY <1>5, <1>12, MixedBoth
  <1>14. Mixed(s1 \o s2 \o s3 \o s4 \o s5 \o s6)
    BY <1>6, <1>13, MixedBoth
  <1>15. Mixed(s1 \o s2 \o s3 \o s4 \o s5 \o s6 \o s7)
    BY <1>9, <1>14, MixedBoth
  <1>16. Mixed(s1 \o s2 \o s3 \o s4 \o s5 \o s6 \o s7 \o s8)
    BY <1>9, <1>15, MixedBoth
  <1>17. Mixed(s1 \o s2 \o s3 \o s4 \o s5 \o s6 \o s7 \o s8 \o s9)
    BY <1>7, <1>16, MixedBoth
  <1>18. QED
    BY <1>8, <1>9, <1>17

LEMMA WinLeaves ==
    ASSUME IInv, NEW game, NEW winner, NEW hp, NEW by, WinGame(game, winner, hp, by)
    PROVE  Leaves
  <1>1. PICK star, reward :
            EndGame(Over(game, winner, hp, star, reward),
                    <<ShareOf(Over(game, winner, hp, star, reward), 1), ShareOf(Over(game, winner, hp, star, reward), 2)>>,
                    WinRequests(Over(game, winner, hp, star, reward),
                        <<ShareOf(Over(game, winner, hp, star, reward), 1),
                          ShareOf(Over(game, winner, hp, star, reward), 2)>>, by))
    BY DEF WinGame
  <1>2. PICK over : over = Over(game, winner, hp, star, reward)
    OBVIOUS
  <1>3. PICK share : share = <<ShareOf(over, 1), ShareOf(over, 2)>>
    OBVIOUS
  <1>4. PICK requests : requests = WinRequests(over, share, by)
    OBVIOUS
  <1>5. EndGame(over, share, requests)
    BY <1>1, <1>2, <1>3, <1>4
  <1>6. over.at # NoStage => Online(Guest1(over.game))
    BY <1>2 DEF Over
  <1>7. Mixed(share[1].missions) /\ Mixed(share[2].missions)
    BY <1>3, MixedShare
  <1>8. Mixed(requests)
    BY <1>4, <1>6, <1>7, MixedWin
  <1>9. EnqueueAny(requests) /\ scenario' = scenario /\ db' = db
    BY <1>5 DEF EndGame
  <1>10. LinesOK(db, queue')
    BY <1>8, <1>9, EnqueueAnyKeeps DEF IInv
  <1>11. QED
    BY <1>9, <1>10 DEF Leaves

LEMMA GameLeaves ==
    ASSUME IInv, NEW e, DbinPlay(e) \/ GameFold(e) \/ AutoFold(e)
    PROVE  Leaves
  <1>1. PICK game, winner, hp, by : WinGame(game, winner, hp, by)
    BY DEF DbinPlay, GameFold, AutoFold
  <1>2. QED
    BY <1>1, WinLeaves

LEMMA AutoFightLeaves ==
    ASSUME IInv, NEW e, AutoFight(e)
    PROVE  Leaves
  <1>1. PICK a : EnqueueAny(<<[NewRequest("fight_robot", e, a) EXCEPT !.by = Office]>>)
    BY DEF AutoFight
  <1>2. PICK requests : requests = <<[NewRequest("fight_robot", e, a) EXCEPT !.by = Office]>>
    OBVIOUS
  <1>3. "fight_robot" \in Loose /\ "fight_robot" \notin Bringing
    BY DEF Loose, Bringing
  <1>4. Mixed(requests) /\ EnqueueAny(requests)
    BY <1>1, <1>2, <1>3, MixedLoose
  <1>5. LinesOK(db, queue')
    BY <1>4, EnqueueAnyKeeps DEF IInv
  <1>6. scenario' = scenario /\ db' = db
    BY DEF AutoFight, bounds
  <1>7. QED
    BY <1>5, <1>6 DEF Leaves

\* Whose requests are under way and how far, does not depend on who hears them.
LEMMA Unheard ==
    ASSUME NEW th, NEW s, NEW d, Line(th, s, d), NEW e,
           NEW t, t = [i \in 1 .. Len(s) |-> IF s[i].by = e THEN [s[i] EXCEPT !.by = NoOne] ELSE s[i]]
    PROVE  Line(th, t, d)
  <1>1. PICK S : s \in Seq(S)
    BY DEF Line
  <1>2. PICK n \in Nat : n = Len(s)
    BY <1>1
  <1>3. DOMAIN t = 1 .. n /\ \A i \in 1 .. n : t[i] \in {t[j] : j \in 1 .. n}
    BY <1>2
  <1>4. t \in Seq({t[j] : j \in 1 .. n}) /\ Len(t) = n
    <2>1. PICK T : T = {t[j] : j \in 1 .. n}
      OBVIOUS
    <2>2. t \in [1 .. n -> T]
      BY <1>2, <2>1
    <2>3. t \in Seq(T) /\ Len(t) = n
      BY <1>2, <2>2
    <2>4. QED
      BY <2>1, <2>3
  <1>5. ASSUME NEW i \in 1 .. n
        PROVE  /\ RequestOK(t[i]) /\ Placed(th, t[i]) /\ Held(d, t[i])
               /\ t[i].at = s[i].at
    <2>1. PICK q, p : q = s[i] /\ p = t[i]
      OBVIOUS
    <2>2. RequestOK(q) /\ Placed(th, q) /\ Held(d, q)
      BY <1>2, <2>1 DEF Line
    <2>3. p = q \/ p = [q EXCEPT !.by = NoOne]
      BY <1>2, <2>1
    <2>4. /\ DOMAIN p = {"cmd", "by", "e", "a", "at", "good", "got"}
          /\ p.cmd = q.cmd /\ p.e = q.e /\ p.a = q.a /\ p.at = q.at /\ p.got = q.got
      BY <2>2, <2>3 DEF RequestOK
    <2>5. Payload(p)
      BY <2>2, <2>4 DEF RequestOK, Payload
    <2>6. Known(p)
      BY <2>2, <2>4 DEF RequestOK, Known, KnownOffer, KnownReward, KnownTower
    <2>7. Held(d, p)
      BY <2>2, <2>4 DEF Held, HeldBuy, HeldSell, HeldXcbuy
    <2>8. QED
      BY <2>1, <2>2, <2>4, <2>5, <2>6, <2>7 DEF RequestOK, Placed
  <1>6. ASSUME NEW i \in 1 .. n, NEW j \in 1 .. n, i < j, t[i].at # "done"
        PROVE  t[j].at = "new"
    BY <1>2, <1>5, <1>6 DEF Line
  <1>7. QED
    BY <1>4, <1>5, <1>6 DEF Line

LEMMA CleanLeaves ==
    ASSUME IInv, NEW e, DoClean(e)
    PROVE  Leaves
  <1>1. queue' = [th \in Thread |-> [i \in 1 .. Len(queue[th]) |->
                     IF queue[th][i].by = e THEN [queue[th][i] EXCEPT !.by = NoOne] ELSE queue[th][i]]]
    BY DEF DoClean
  <1>2. ASSUME NEW th \in Thread PROVE Line(th, queue'[th], db)
    <2>1. PICK s : s = queue[th]
      OBVIOUS
    <2>2. PICK t : t = [i \in 1 .. Len(s) |-> IF s[i].by = e THEN [s[i] EXCEPT !.by = NoOne] ELSE s[i]]
      OBVIOUS
    <2>3. Line(th, s, db)
      BY <2>1 DEF IInv, LinesOK
    <2>4. Line(th, t, db)
      BY <2>2, <2>3, Unheard
    <2>5. queue'[th] = t
      BY <1>1, <2>1, <2>2
    <2>6. QED
      BY <2>4, <2>5
  <1>3. DOMAIN queue' = Thread
    BY <1>1
  <1>4. LinesOK(db, queue')
    BY <1>2, <1>3 DEF LinesOK
  <1>5. QED
    BY <1>4 DEF DoClean, bounds, Leaves

LEMMA TickLeaves ==
    ASSUME IInv, Tick
    PROVE  Leaves
  BY DEF IInv, Tick, bounds, Leaves

----------------------------------------------------------------------------
(* What the main loop makes of a reply.                                    *)

LEMMA NextLeaves ==
    ASSUME IInv, NEW th \in Thread, queue[th] # <<>>, queue' = NextReply(th), scenario' = scenario, db' = db
    PROVE  Leaves
  BY LinesRest DEF IInv, NextReply, Leaves

LEMMA DboutLeaves ==
    ASSUME IInv, NEW th \in Thread, queue[th] # <<>>, NEW c, NEW more, Dbout(th, c, more),
           Sent(Head(queue[th]).by % threads, more)
    PROVE  Leaves
  <1>1. PICK lines : lines = NextReply(th)
    OBVIOUS
  <1>2. LinesOK(db, lines)
    BY <1>1, LinesRest DEF IInv, NextReply
  <1>3. PICK by : by = Head(queue[th]).by
    OBVIOUS
  <1>4. LinesOK(db, Enqueue(lines, by, more))
    BY <1>2, <1>3, EnqueueKeeps
  <1>5. queue' = Enqueue(lines, by, more) /\ scenario' = scenario /\ db' = db
    BY <1>1, <1>3 DEF Dbout, bounds
  <1>6. QED
    BY <1>4, <1>5 DEF Leaves

LEMMA UserLeaves ==
    ASSUME IInv, NEW th \in Thread, queue[th] # <<>>, NEW u, NEW events, DboutUser(th, u, events)
    PROVE  Leaves
  <1>1. PICK e, new : e = Head(queue[th]).by /\ new = ChangeMission(u, events)
    OBVIOUS
  <1>2. PICK more : more = SaveMission(e, u, new)
    OBVIOUS
  <1>3. Dbout(th, [conn EXCEPT ![e] = new], more)
    BY <1>1, <1>2 DEF DboutUser
  <1>4. Sent(e % threads, more)
    BY <1>2, SentMission
  <1>5. QED
    BY <1>1, <1>3, <1>4, DboutLeaves

LEMMA OnlyLeaves ==
    ASSUME IInv, NEW th \in Thread, queue[th] # <<>>, NEW u, DboutOnly(th, u)
    PROVE  Leaves
  <1>1. PICK more, c : more = <<>> /\ Dbout(th, c, more)
    BY DEF DboutOnly
  <1>2. QED
    BY <1>1, SentNone, DboutLeaves

LEMMA AnyLeaves ==
    ASSUME IInv, NEW th \in Thread, queue[th] # <<>>, NEW c, DboutAny(th, c)
    PROVE  Leaves
  BY NextLeaves DEF DboutAny, bounds

LEMMA ErrorLeaves ==
    ASSUME IInv, NEW th \in Thread, queue[th] # <<>>, DboutError(th)
    PROVE  Leaves
  BY NextLeaves DEF DboutError, bounds

\* Handlers that send nothing more, or the missions.
LEMMA ReplyShop ==
    ASSUME IInv, NEW th \in Thread, queue[th] # <<>>,
           OutBuyCard(th) \/ OutSellCard(th) \/ OutSaveBatch(th) \/ OutPick(th) \/ OutMoneyExchange(th)
    PROVE  Leaves
  BY UserLeaves, OnlyLeaves DEF OutBuyCard, OutSellCard, OutSaveBatch, OutPick, OutMoneyExchange

LEMMA ReplyDecks ==
    ASSUME IInv, NEW th \in Thread, queue[th] # <<>>,
           \/ OutLoadCard(th) \/ OutLoadDeck(th) \/ OutLoadHeroDeck(th) \/ OutSaveDeck(th) \/ OutBuySlot(th)
           \/ OutUpdateHeroSlot(th) \/ OutChooseHeroSlot(th) \/ OutShown(th)
    PROVE  Leaves
  BY UserLeaves, OnlyLeaves DEF OutLoadCard, OutLoadDeck, OutLoadHeroDeck, OutSaveDeck, OutBuySlot,
                                OutUpdateHeroSlot, OutChooseHeroSlot, OutShown

LEMMA ReplyMarket ==
    ASSUME IInv, NEW th \in Thread, queue[th] # <<>>,
           OutXcadd(th) \/ OutPaid(th) \/ OutRefreshPieceShop(th) \/ OutPieceBuy(th)
    PROVE  Leaves
  BY OnlyLeaves DEF OutXcadd, OutPaid, OutRefreshPieceShop, OutPieceBuy

LEMMA ReplyNext ==
    ASSUME IInv, NEW th \in Thread, queue[th] # <<>>, OutXcbuy(th) \/ OutPay(th) \/ OutResetExchange(th)
    PROVE  Leaves
  BY NextLeaves DEF OutXcbuy, OutPay, OutResetExchange, bounds

LEMMA ReplyRewards ==
    ASSUME IInv, NEW th \in Thread, queue[th] # <<>>,
           \/ OutLottery(th) \/ OutExchangeGift(th) \/ OutGetDailyLogin(th) \/ OutGetDailyReward(th)
           \/ OutShownReward(th) \/ OutLoadHeroData(th) \/ OutUpdateHeroMission(th)
    PROVE  Leaves
  BY UserLeaves, OnlyLeaves, AnyLeaves
     DEF OutLottery, OutExchangeGift, OutGetDailyLogin, OutGetDailyReward, OutShownReward, OutLoadHeroData,
         OutUpdateHeroMission

LEMMA ReplyCampaign ==
    ASSUME IInv, NEW th \in Thread, queue[th] # <<>>,
           \/ OutGate(th) \/ OutUpdateGatePos(th) \/ OutTower(th) \/ OutTowerBuff(th) \/ OutTowerResult(th)
           \/ OutSoloPlus(th) \/ OutChapterUpdateData(th) \/ OutChapter(th) \/ OutChapterReward(th)
    PROVE  Leaves
  BY UserLeaves, OnlyLeaves, AnyLeaves
     DEF OutGate, OutUpdateGatePos, OutTower, OutTowerBuff, OutTowerResult, OutSoloPlus,
         OutChapterUpdateData, OutChapter, OutChapterReward

LEMMA ReplyGames ==
    ASSUME IInv, NEW th \in Thread, queue[th] # <<>>,
           \/ OutWin(th) \/ OutUpdateSignals(th) \/ OutFightRobot(th) \/ OutResetFightTimes(th)
           \/ OutUpdateArenaTimes(th) \/ OutArenaShown(th)
    PROVE  Leaves
  BY OnlyLeaves, AnyLeaves DEF OutWin, OutUpdateSignals, OutFightRobot, OutResetFightTimes, OutUpdateArenaTimes,
                               OutArenaShown

\* One request more, of which nothing is asked.
LEMMA MoreLeaves ==
    ASSUME IInv, NEW th \in Thread, queue[th] # <<>>, NEW c, NEW cmd, cmd \notin Bringing, NEW a,
           Dbout(th, c, <<NewRequest(cmd, Head(queue[th]).by, a)>>)
    PROVE  Leaves
  <1>1. PICK by : by = Head(queue[th]).by
    OBVIOUS
  <1>2. PICK more : more = <<NewRequest(cmd, by, a)>>
    OBVIOUS
  <1>3. Sent(by % threads, more)
    BY <1>2, SentPlain
  <1>4. QED
    BY <1>1, <1>2, <1>3, DboutLeaves

LEMMA ReplyBatch ==
    ASSUME IInv, NEW th \in Thread, queue[th] # <<>>, OutBatch(th)
    PROVE  Leaves
  <1>1. CASE \E u : DboutOnly(th, u)
    BY <1>1, OnlyLeaves
  <1>2. CASE \E list \in GetRandomBatch :
                Dbout(th, [conn EXCEPT ![Head(queue[th]).by].batch[Head(queue[th]).a.type] = list],
                      <<DbinSaveBatch(Head(queue[th]).by, Head(queue[th]).a.type, list, Price("gold", 0))>>)
    <2>1. PICK c, a : Dbout(th, c, <<NewRequest("savebatch", Head(queue[th]).by, a)>>)
      BY <1>2 DEF DbinSaveBatch
    <2>2. "savebatch" \notin Bringing
      BY DEF Bringing
    <2>3. QED
      BY <2>1, <2>2, MoreLeaves
  <1>3. QED
    BY <1>1, <1>2 DEF OutBatch

LEMMA ReplyPieceShop ==
    ASSUME IInv, NEW th \in Thread, queue[th] # <<>>, OutPieceShop(th)
    PROVE  Leaves
  <1>1. "upshop" \notin Bringing
    BY DEF Bringing
  <1>2. \/ \E u : DboutOnly(th, u)
        \/ \E a : Dbout(th, conn, <<NewRequest("upshop", Head(queue[th]).by, a)>>)
    BY DEF OutPieceShop
  <1>3. QED
    BY <1>1, <1>2, OnlyLeaves, MoreLeaves

LEMMA ReplyArenaGame ==
    ASSUME IInv, NEW th \in Thread, queue[th] # <<>>, OutArenaGame(th)
    PROVE  Leaves
  <1>1. "arenatimes" \notin Bringing
    BY DEF Bringing
  <1>2. \/ \E u : DboutOnly(th, u)
        \/ \E c, a : Dbout(th, c, <<NewRequest("arenatimes", Head(queue[th]).by, a)>>)
    BY DEF OutArenaGame, ArenaTimes
  <1>3. QED
    BY <1>1, <1>2, OnlyLeaves, MoreLeaves

LEMMA ReplyFight ==
    ASSUME IInv, NEW th \in Thread, queue[th] # <<>>, OutFight(th)
    PROVE  Leaves
  <1>1. PICK c, more : more = <<>> /\ Dbout(th, c, more)
    BY DEF OutFight
  <1>2. QED
    BY <1>1, SentNone, DboutLeaves

\* Several requests more: of missions, heroes and chapters.
LEMMA SentHero ==
    ASSUME NEW e
    PROVE  Sent(e % threads, <<DbinLoadHero(e)>>)
  <1>1. "lhero" \notin Bringing
    BY DEF Bringing
  <1>2. PICK a : a = <<>>
    OBVIOUS
  <1>3. Sent(e % threads, <<NewRequest("lhero", e, a)>>)
    BY <1>1, SentPlain
  <1>4. QED
    BY <1>2, <1>3 DEF DbinLoadHero

LEMMA ReplyLoadMission ==
    ASSUME IInv, NEW th \in Thread, queue[th] # <<>>, OutLoadMission(th)
    PROVE  Leaves
  <1>1. PICK loaded, new, c : Dbout(th, c, SaveMission(Head(queue[th]).by, loaded, new))
    BY DEF OutLoadMission
  <1>2. PICK by : by = Head(queue[th]).by
    OBVIOUS
  <1>3. PICK more : more = SaveMission(by, loaded, new)
    OBVIOUS
  <1>4. Sent(by % threads, more)
    BY <1>3, SentMission
  <1>5. QED
    BY <1>1, <1>2, <1>3, <1>4, DboutLeaves

LEMMA ReplySaveCard ==
    ASSUME IInv, NEW th \in Thread, queue[th] # <<>>, OutSaveCard(th)
    PROVE  Leaves
  <1>1. PICK by : by = Head(queue[th]).by
    OBVIOUS
  <1>2. PICK u, new, c : Dbout(th, c, SaveMission(by, u, new) \o <<DbinLoadHero(by)>>)
    BY <1>1 DEF OutSaveCard
  <1>3. PICK s, t : s = SaveMission(by, u, new) /\ t = <<DbinLoadHero(by)>>
    OBVIOUS
  <1>4. Sent(by % threads, s) /\ Sent(by % threads, t)
    BY <1>3, SentMission, SentHero
  <1>5. Sent(by % threads, s \o t)
    BY <1>4, SentBoth
  <1>6. QED
    BY <1>1, <1>2, <1>3, <1>5, DboutLeaves

LEMMA ReplySubmitHeroMission ==
    ASSUME IInv, NEW th \in Thread, queue[th] # <<>>, OutSubmitHeroMission(th)
    PROVE  Leaves
  <1>1. PICK by : by = Head(queue[th]).by
    OBVIOUS
  <1>2. PICK u, new, c : Dbout(th, c, <<DbinLoadHero(by)>> \o SaveMission(by, u, new))
    BY <1>1 DEF OutSubmitHeroMission
  <1>3. PICK s, t : s = SaveMission(by, u, new) /\ t = <<DbinLoadHero(by)>>
    OBVIOUS
  <1>4. Sent(by % threads, s) /\ Sent(by % threads, t)
    BY <1>3, SentMission, SentHero
  <1>5. Sent(by % threads, t \o s)
    BY <1>4, SentBoth
  <1>6. QED
    BY <1>1, <1>2, <1>3, <1>5, DboutLeaves

LEMMA ReplyChapterData ==
    ASSUME IInv, NEW th \in Thread, queue[th] # <<>>, OutChapterData(th)
    PROVE  Leaves
  <1>1. PICK by : by = Head(queue[th]).by
    OBVIOUS
  <1>2. PICK taken, u, first, new, c :
            Dbout(th, c, (IF u.chap = taken THEN <<>> ELSE <<NewRequest("chapter_replace", by, [chap |-> u.chap])>>)
                         \o SaveMission(by, u, first) \o SaveMission(by, first, new))
    <2>1. PICK q : q = Head(queue[th])
      OBVIOUS
    <2>2. PICK taken : taken = [k \in Chapter |-> IF q.got[k] # <<>> THEN q.got[k] ELSE conn[q.by].chap[k]]
      OBVIOUS
    <2>3. PICK u : u = [conn[q.by] EXCEPT !.chap = UpdateChapter(ResetChapter(taken), q.a.c, q.a.s, q.a.star)]
      OBVIOUS
    <2>4. PICK first, new, c : /\ first = ChangeMission(u, <<>>) /\ new = ChangeMission(first, ChapterEvents(first))
                               /\ c = [conn EXCEPT ![q.by] = new]
      OBVIOUS
    <2>5. Dbout(th, c, (IF u.chap = taken THEN <<>> ELSE <<NewRequest("chapter_replace", by, [chap |-> u.chap])>>)
                       \o SaveMission(by, u, first) \o SaveMission(by, first, new))
      BY <1>1, <2>1, <2>2, <2>3, <2>4 DEF OutChapterData
    <2>6. QED
      BY <2>5
  <1>3. PICK a : a = [chap |-> u.chap]
    OBVIOUS
  <1>4. PICK s, t, w : /\ s = IF u.chap = taken THEN <<>> ELSE <<NewRequest("chapter_replace", by, a)>>
                       /\ t = SaveMission(by, u, first) /\ w = SaveMission(by, first, new)
    OBVIOUS
  <1>5. "chapter_replace" \notin Bringing
    BY DEF Bringing
  <1>6. Sent(by % threads, s)
    BY <1>4, <1>5, SentNone, SentPlain
  <1>7. Sent(by % threads, t) /\ Sent(by % threads, w)
    BY <1>4, SentMission
  <1>8. Sent(by % threads, s \o t)
    BY <1>6, <1>7, SentBoth
  <1>9. Sent(by % threads, s \o t \o w)
    BY <1>7, <1>8, SentBoth
  <1>10. QED
    BY <1>1, <1>2, <1>3, <1>4, <1>9, DboutLeaves

LEMMA ReplyLogin ==
    ASSUME IInv, NEW th \in Thread, queue[th] # <<>>, OutLogin(th)
    PROVE  Leaves
  <1>1. PICK by : by = Head(queue[th]).by
    OBVIOUS
  <1>2. PICK c, more : /\ \/ more = <<>>
                          \/ more = <<NewRequest("lmis", by, <<>>), DbinLoadHero(by)>>
                       /\ Dbout(th, c, more)
    BY <1>1 DEF OutLogin
  <1>3. Sent(by % threads, more)
    <2>1. CASE more = <<>>
      BY <2>1, SentNone
    <2>2. CASE more = <<NewRequest("lmis", by, <<>>), DbinLoadHero(by)>>
      <3>1. PICK a : a = <<>>
        OBVIOUS
      <3>2. PICK q, p : q = NewRequest("lmis", by, a) /\ p = NewRequest("lhero", by, a)
        OBVIOUS
      <3>3. "lmis" \notin Bringing /\ "lhero" \notin Bringing
        BY DEF Bringing
      <3>4. NewOK(q) /\ q.e = by /\ NewOK(p) /\ p.e = by
        BY <3>2, <3>3, NewIs
      <3>5. more = <<q, p>>
        BY <2>2, <3>1, <3>2 DEF DbinLoadHero
      <3>6. more \in Seq({q, p}) /\ \A x \in {q, p} : NewOK(x) /\ Placed(by % threads, x)
        BY <3>4, <3>5 DEF Placed
      <3>7. QED
        BY <3>6, Sending
    <2>3. QED
      BY <1>2, <2>1, <2>2
  <1>4. QED
    BY <1>1, <1>2, <1>3, DboutLeaves

LEMMA ReplyLeaves ==
    ASSUME IInv, NEW th \in Thread, DboutNext(th)
    PROVE  Leaves
  <1>1. queue[th] # <<>>
    BY DEF DboutNext
  <1>2. QED
    BY <1>1, ReplyShop, ReplyDecks, ReplyMarket, ReplyNext, ReplyRewards, ReplyCampaign, ReplyGames, ReplyBatch,
       ReplyPieceShop, ReplyArenaGame, ReplyFight, ReplyLoadMission, ReplySaveCard, ReplySubmitHeroMission,
       ReplyChapterData, ReplyLogin, ErrorLeaves DEF DboutNext

----------------------------------------------------------------------------
(* All steps.                                                              *)

LEMMA DbinLeaves ==
    ASSUME IInv, NEW e \in User, Dbin(e)
    PROVE  Leaves
  BY PlainDecks, PlainMarket, PlainOffice, SendCounts, SendPieces, SendSaveCard, SendLottery, SendDailyReward,
     SendNumbers, SendOffice, SendBatch, SendPieceShop, SendSaveMission, SendMissionReward, SendArenaTimes,
     SendNothing, GameLeaves DEF Dbin

LEMMA NextKeeps ==
    ASSUME IInv, [Next]_vars
    PROVE  scenario' = scenario /\ TablesOK(db') /\ LinesOK(db', queue')
  <1>1. CASE Leaves
    BY <1>1 DEF IInv, Leaves
  <1>2. CASE Dbio
    BY <1>2, DbioKeeps DEF Dbio
  <1>3. CASE \E e \in User : Dbin(e) \/ DbinLogin(e) \/ DoClean(e) \/ AutoFold(e) \/ AutoFight(e)
    BY <1>1, <1>3, DbinLeaves, LoginLeaves, CleanLeaves, GameLeaves, AutoFightLeaves
  <1>4. CASE \E th \in Thread : DboutNext(th)
    BY <1>1, <1>4, ReplyLeaves
  <1>5. CASE Tick
    BY <1>1, <1>5, TickLeaves
  <1>6. CASE UNCHANGED vars
    BY <1>6 DEF vars, bounds, IInv
  <1>7. QED
    BY <1>2, <1>3, <1>4, <1>5, <1>6 DEF Next

LEMMA TablesLast ==
    ASSUME scenario' = scenario, TablesOK(db')
    PROVE  TablesOK(db)'
  BY DEF TablesOK, ShapeOK, CardsOK, PiecesOK, DecksOK, PowerOK, TimesOK, TowersOK, ArenaOK, OffersOK,
         CardsAlone, PiecesAlone, May, threads

LEMMA PayloadLast ==
    ASSUME scenario' = scenario, NEW q, Payload(q)
    PROVE  Payload(q)'
  BY DEF Payload, May

LEMMA KnownLast ==
    ASSUME scenario' = scenario, NEW q, Known(q)
    PROVE  Known(q)'
  BY DEF Known, KnownOffer, KnownReward, KnownTower, PiecesAlone, May, threads

LEMMA HeldLast ==
    ASSUME scenario' = scenario, NEW d, NEW q, Held(d, q)
    PROVE  Held(d, q)'
  BY DEF Held, HeldBuy, HeldSell, HeldXcbuy, CardsAlone, PiecesAlone, May, threads

LEMMA LineLast ==
    ASSUME scenario' = scenario, NEW th, NEW s, NEW d, Line(th, s, d)
    PROVE  Line(th, s, d)'
  <1>1. ASSUME NEW i \in 1 .. Len(s)
        PROVE  RequestOK(s[i])' /\ Placed(th, s[i])' /\ Held(d, s[i])'
    BY PayloadLast, KnownLast, HeldLast DEF Line, RequestOK, Placed, threads
  <1>2. QED
    BY <1>1 DEF Line

LEMMA LinesLast ==
    ASSUME scenario' = scenario, LinesOK(db', queue')
    PROVE  LinesOK(db, queue)'
  BY LineLast DEF LinesOK, Thread, threads

LEMMA InitKeeps ==
    ASSUME Init
    PROVE  IInv
  <1>1. scenario \in Scenarios /\ db = First /\ queue = [th \in Thread |-> <<>>]
    BY DEF Init
  <1>2. TablesOK(db)
    <2>1. ShapeOK(db)
      BY <1>1, FirstAssumption DEF ShapeOK, Names, PerUser
    <2>2. CardsOK(db) /\ PiecesOK(db)
      BY <1>1, FirstAssumption DEF CardsOK, PiecesOK, NoCards
    <2>3. DecksOK(db)
      BY <1>1, FirstAssumption DEF DecksOK, Digits, NoDeck
    <2>4. PowerOK(db) /\ TimesOK(db)
      BY <1>1, FirstAssumption DEF PowerOK, TimesOK
    <2>5. TowersOK(db)
      BY <1>1, FirstAssumption DEF TowersOK, TowerRow
    <2>6. ArenaOK(db)
      BY <1>1, FirstAssumption DEF ArenaOK, RanksOK
    <2>7. OffersOK(db)
      BY <1>1, FirstAssumption DEF OffersOK, SalesOK
    <2>8. QED
      BY <2>1, <2>2, <2>3, <2>4, <2>5, <2>6, <2>7 DEF TablesOK
  <1>3. LinesOK(db, queue)
    <2>1. PICK s : s = <<>>
      OBVIOUS
    <2>2. s \in Seq({}) /\ Len(s) = 0
      BY <2>1
    <2>3. \A th : Line(th, s, db)
      BY <2>2 DEF Line
    <2>4. DOMAIN queue = Thread /\ \A th \in Thread : queue[th] = s
      BY <1>1, <2>1
    <2>5. QED
      BY <2>3, <2>4 DEF LinesOK
  <1>4. QED
    BY <1>1, <1>2, <1>3 DEF IInv

LEMMA CapsFollow ==
    ASSUME IInv
    PROVE  CapsKept
  <1> SUFFICES ASSUME NEW e \in User
               PROVE  /\ \A c \in Card :
                             /\ CardsAlone(e) /\ db.card[e] # NoCards => db.card[e][c] \in 0 .. EVIL_NUM_CARD_MAX
                             /\ PiecesAlone(e) => db.piece[e][c] \in 0 .. EVIL_NUM_PIECE_MAX
                      /\ db.power[e].left >= 0 /\ \A t \in {"ai", "gold", "crystal"} : db.times[e][t] >= 0
                      /\ {db.tower[e].res, db.tower[e].energy} \subseteq 0 .. Design.tower_buff_max
                      /\ db.status_tower[e].times >= 0
                      /\ db.status_arena[e].times >= 0
                      /\ \A g \in User \ {e} : db.arena[e] > 0 => db.arena[e] # db.arena[g]
    BY DEF CapsKept
  <1>1. TablesOK(db)
    BY DEF IInv
  <1>2. \A c \in Card :
            /\ CardsAlone(e) /\ db.card[e] # NoCards => db.card[e][c] \in 0 .. EVIL_NUM_CARD_MAX
            /\ PiecesAlone(e) => db.piece[e][c] \in 0 .. EVIL_NUM_PIECE_MAX
    BY <1>1 DEF TablesOK, CardsOK, PiecesOK
  <1>3. db.power[e].left >= 0 /\ \A t \in {"ai", "gold", "crystal"} : db.times[e][t] >= 0
    BY <1>1 DEF TablesOK, PowerOK, TimesOK
  <1>4. {db.tower[e].res, db.tower[e].energy} \subseteq 0 .. Design.tower_buff_max /\ db.status_tower[e].times >= 0
    BY <1>1 DEF TablesOK, TowersOK, TowerRow
  <1>5. db.status_arena[e].times >= 0 /\ \A g \in User \ {e} : db.arena[e] > 0 => db.arena[e] # db.arena[g]
    BY <1>1 DEF TablesOK, ArenaOK, RanksOK
  <1>6. QED
    BY <1>2, <1>3, <1>4, <1>5

\* No row of cards or pieces leaves its limits, whatever users and the
\* administration ask for, in whatever order the statements of the workers
\* follow each other and whichever of them fail, but for the purchases that
\* ask for room while another worker adds to the same row; power, games and
\* runs left stay at or above 0, and ranks of the arena differ.
THEOREM LimitsKept == Spec => []CapsKept
  <1>1. Init => IInv
    BY InitKeeps
  <1>2. IInv /\ [Next]_vars => IInv'
    <2> SUFFICES ASSUME IInv, [Next]_vars PROVE IInv'
      OBVIOUS
    <2>1. scenario' = scenario /\ TablesOK(db') /\ LinesOK(db', queue')
      BY NextKeeps
    <2>2. TablesOK(db)' /\ LinesOK(db, queue)'
      BY <2>1, TablesLast, LinesLast
    <2>3. QED
      BY <2>1, <2>2 DEF IInv
  <1>3. IInv => CapsKept
    BY CapsFollow
  <1>4. QED
    BY <1>1, <1>2, <1>3, PTL DEF Spec
=============================================================================
