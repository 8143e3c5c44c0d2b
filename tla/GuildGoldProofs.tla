-------------------------- MODULE GuildGoldProofs --------------------------
(***************************************************************************)
(* The gold of the guilds, for every set of users and commands, any number *)
(* of workers and every statement that fails.  First sums over finite      *)
(* sets: which summand is taken out first does not matter, and a sum       *)
(* follows one summand that changes, or the places the summands move to.   *)
(* Then the books: each statement changes what one user or guild has, and  *)
(* what its request carries, by what the ledger changes.                   *)
(* Last the caches: the replies under way, told one after the other, make  *)
(* of every connection what the tables say.                                *)
(***************************************************************************)
EXTENDS GuildProofs

----------------------------------------------------------------------------
(* Sums over finite sets.                                                  *)

Pick(s) == CHOOSE x \in s : TRUE

\* it gives the sum of f over each subset of S.
IsSum(f, S, it) == it = [s \in SUBSET S |-> IF s = {} THEN 0 ELSE f[Pick(s)] + it[s \ {Pick(s)}]]
SumOf(f, S) == (CHOOSE it : IsSum(f, S, it))[S]

LEMMA PickIn == ASSUME NEW s, s # {} PROVE Pick(s) \in s
  BY DEF Pick

\* Among sets of parts of a finite set there is one that has no other below it.
LEMMA LeastSet ==
    ASSUME NEW S, IsFiniteSet(S), NEW B, B \subseteq SUBSET S, B # {}
    PROVE  \E m \in B : \A k \in B : k \subseteq m => k = m
  <1>1. PICK R : R = StrictSubsetOrdering(S)
    OBVIOUS
  <1>2. IsWellFoundedOn(R, FiniteSubsetsOf(S))
    BY <1>1, FS_StrictSubsetOrderingWellFounded
  <1>3. PICK F : F = FiniteSubsetsOf(S)
    OBVIOUS
  <1>4. B \subseteq F /\ IsWellFoundedOn(R, F)
    BY <1>2, <1>3, FS_Subset DEF FiniteSubsetsOf
  <1>5. PICK m \in B : \A k \in B : ~(<<k, m>> \in R)
    BY <1>4, WFMin
  <1>6. \A k \in B : k \subseteq m /\ k # m => <<k, m>> \in R
    <2>1. m \in SUBSET S /\ \A k \in B : k \in SUBSET S
      OBVIOUS
    <2>2. QED
      BY <1>1, <2>1 DEF StrictSubsetOrdering
  <1>7. \A k \in B : k \subseteq m => k = m
    BY <1>5, <1>6
  <1>8. QED
    BY <1>7

LEMMA LessOnNat ==
    ASSUME NEW R, R = OpToRel(<, Nat), NEW x \in Nat, NEW y \in Nat
    PROVE  <<y, x>> \in R <=> y < x
  BY DEF OpToRel

LEMMA LeastNat ==
    ASSUME NEW T \in SUBSET Nat, T # {}
    PROVE  \E m \in T : \A k \in T : m <= k
  <1>1. PICK R : R = OpToRel(<, Nat)
    OBVIOUS
  <1>2. IsWellFoundedOn(R, Nat)
    BY <1>1, NatLessThanWellFounded
  <1>3. PICK m \in T : \A k \in T : ~ (<<k, m>> \in R)
    BY <1>2, WFMin
  <1>4. \A k \in T : ~ (k < m)
    BY <1>1, <1>3, LessOnNat
  <1>5. QED
    BY <1>4

\* The sum exists: it is built up over the parts of n elements at most.
Parts(S, n) == {s \in SUBSET S : Cardinality(s) <= n}
IsPartSum(f, S, n, it) ==
    it = [s \in Parts(S, n) |-> IF s = {} THEN 0 ELSE f[Pick(s)] + it[s \ {Pick(s)}]]

LEMMA SmallerPart ==
    ASSUME NEW S, IsFiniteSet(S), NEW n \in Nat, NEW s \in Parts(S, n + 1), s # {}
    PROVE  s \ {Pick(s)} \in Parts(S, n)
  <1>1. IsFiniteSet(s) /\ Cardinality(s) \in Nat
    BY FS_Subset, FS_CardinalityType DEF Parts
  <1>2. Cardinality(s \ {Pick(s)}) = Cardinality(s) - 1
    BY <1>1, PickIn, FS_RemoveElement
  <1>3. QED
    BY <1>1, <1>2 DEF Parts

LEMMA PartSum ==
    ASSUME NEW f, NEW S, IsFiniteSet(S), NEW n \in Nat
    PROVE  \E it : IsPartSum(f, S, n, it)
  <1> DEFINE Bad == {k \in Nat : ~ \E it : IsPartSum(f, S, k, it)}
  <1>1. SUFFICES ASSUME Bad # {} PROVE FALSE
    OBVIOUS
  <1>2. PICK m \in Bad : \A k \in Bad : m <= k
    <2>1. Bad \in SUBSET Nat
      OBVIOUS
    <2>2. QED
      BY <1>1, <2>1, LeastNat
  <1>3. CASE m = 0
    <2>1. \A s \in Parts(S, 0) : s = {}
      <3> SUFFICES ASSUME NEW s \in Parts(S, 0) PROVE s = {}
        OBVIOUS
      <3>1. IsFiniteSet(s) /\ Cardinality(s) \in Nat /\ Cardinality(s) <= 0
        BY FS_Subset, FS_CardinalityType DEF Parts
      <3>2. Cardinality(s) = 0
        BY <3>1
      <3>3. QED
        BY <3>1, <3>2, FS_EmptySet
    <2>2. PICK it : it = [s \in Parts(S, 0) |-> 0]
      OBVIOUS
    <2>3. IsPartSum(f, S, 0, it)
      BY <2>1, <2>2 DEF IsPartSum
    <2>4. QED
      BY <1>3, <2>3
  <1>4. CASE m # 0
    <2>1. m - 1 \in Nat /\ m - 1 \notin Bad /\ (m - 1) + 1 = m
      BY <1>2, <1>4
    <2>2. PICK l \in Nat : l = m - 1
      BY <2>1
    <2>3. PICK jt : IsPartSum(f, S, l, jt)
      BY <2>1, <2>2
    <2>4. PICK it : it = [s \in Parts(S, l + 1) |-> IF s = {} THEN 0 ELSE f[Pick(s)] + jt[s \ {Pick(s)}]]
      OBVIOUS
    <2>5. ASSUME NEW s \in Parts(S, l) PROVE it[s] = jt[s]
      <3>1. s \in Parts(S, l + 1)
        <4>1. IsFiniteSet(s) /\ Cardinality(s) \in Nat /\ Cardinality(s) <= l
          BY FS_Subset, FS_CardinalityType DEF Parts
        <4>2. QED
          BY <4>1 DEF Parts
      <3>2. QED
        BY <2>3, <2>4, <3>1 DEF IsPartSum
    <2>6. \A s \in Parts(S, l + 1) : s # {} => it[s \ {Pick(s)}] = jt[s \ {Pick(s)}]
      BY <2>5, SmallerPart
    <2>7. IsPartSum(f, S, l + 1, it)
      BY <2>4, <2>6 DEF IsPartSum
    <2>8. QED
      BY <1>2, <2>1, <2>2, <2>7
  <1>5. QED
    BY <1>3, <1>4

LEMMA SumExists ==
    ASSUME NEW f, NEW S, IsFiniteSet(S)
    PROVE  IsSum(f, S, CHOOSE it : IsSum(f, S, it))
  <1>1. PICK n \in Nat : n = Cardinality(S)
    BY FS_CardinalityType
  <1>2. Parts(S, n) = SUBSET S
    BY <1>1, FS_Subset DEF Parts
  <1>3. PICK it : IsPartSum(f, S, n, it)
    BY PartSum
  <1>4. IsSum(f, S, it)
    BY <1>2, <1>3 DEF IsPartSum, IsSum
  <1>5. QED
    BY <1>4

\* The sum over a part is the same whatever set it is taken in.
LEMMA SumPart ==
    ASSUME NEW f, NEW S, IsFiniteSet(S), NEW T \in SUBSET S, NEW it, NEW jt, IsSum(f, S, it), IsSum(f, T, jt)
    PROVE  it[T] = jt[T]
  <1> DEFINE Bad == {s \in SUBSET T : it[s] # jt[s]}
  <1>1. SUFFICES ASSUME Bad # {} PROVE FALSE
    OBVIOUS
  <1>2. IsFiniteSet(T)
    BY FS_Subset
  <1>3. PICK m \in Bad : \A k \in Bad : k \subseteq m => k = m
    <2>1. Bad \subseteq SUBSET T
      OBVIOUS
    <2> HIDE DEF Bad
    <2>2. QED
      BY <1>1, <1>2, <2>1, LeastSet
  <1>4. m \in SUBSET T /\ m \in SUBSET S
    OBVIOUS
  <1>5. m # {}
    BY <1>3, <1>4 DEF IsSum
  <1>6. Pick(m) \in m
    BY <1>5, PickIn
  <1>7. it[m \ {Pick(m)}] = jt[m \ {Pick(m)}]
    BY <1>3, <1>4, <1>6
  <1>8. it[m] = jt[m]
    BY <1>4, <1>5, <1>7 DEF IsSum
  <1>9. QED
    BY <1>3, <1>8

LEMMA SumFirst ==
    ASSUME NEW f, NEW S, IsFiniteSet(S)
    PROVE  SumOf(f, S) = IF S = {} THEN 0 ELSE f[Pick(S)] + SumOf(f, S \ {Pick(S)})
  <1>1. PICK it : it = CHOOSE i : IsSum(f, S, i)
    OBVIOUS
  <1>2. IsSum(f, S, it)
    BY <1>1, SumExists
  <1>3. it[S] = IF S = {} THEN 0 ELSE f[Pick(S)] + it[S \ {Pick(S)}]
    BY <1>2 DEF IsSum
  <1>4. PICK T : T = S \ {Pick(S)}
    OBVIOUS
  <1>5. PICK jt : jt = CHOOSE i : IsSum(f, T, i)
    OBVIOUS
  <1>6. IsSum(f, T, jt)
    BY <1>4, <1>5, FS_Subset, SumExists
  <1>7. it[T] = jt[T]
    BY <1>2, <1>4, <1>6, SumPart
  <1>8. QED
    BY <1>1, <1>3, <1>4, <1>5, <1>7 DEF SumOf

\* What is summed are numbers.
Ints(f, S) == \A x \in S : f[x] \in Int

LEMMA SumInt ==
    ASSUME NEW f, NEW S, IsFiniteSet(S), Ints(f, S)
    PROVE  SumOf(f, S) \in Int
  <1> DEFINE Bad == {s \in SUBSET S : SumOf(f, s) \notin Int}
  <1>1. SUFFICES ASSUME Bad # {} PROVE FALSE
    OBVIOUS
  <1>2. PICK m \in Bad : \A k \in Bad : k \subseteq m => k = m
    <2>1. Bad \subseteq SUBSET S
      OBVIOUS
    <2> HIDE DEF Bad
    <2>2. QED
      BY <1>1, <2>1, LeastSet
  <1>3. SumOf(f, m) = IF m = {} THEN 0 ELSE f[Pick(m)] + SumOf(f, m \ {Pick(m)})
    BY FS_Subset, SumFirst
  <1>4. m # {}
    BY <1>3
  <1>5. Pick(m) \in m
    BY <1>4, PickIn
  <1>6. SumOf(f, m \ {Pick(m)}) \in Int /\ f[Pick(m)] \in Int
    BY <1>2, <1>5 DEF Ints
  <1>7. QED
    BY <1>3, <1>4, <1>6

\* Any summand may be taken out.
Takes(f, S, x) == SumOf(f, S) = f[x] + SumOf(f, S \ {x})

LEMMA SumTakes ==
    ASSUME NEW f, NEW S, IsFiniteSet(S), Ints(f, S), NEW x \in S
    PROVE  Takes(f, S, x)
  <1> DEFINE Bad == {s \in SUBSET S : \E y \in s : ~Takes(f, s, y)}
  <1>1. SUFFICES ASSUME Bad # {} PROVE FALSE
    OBVIOUS
  <1>2. PICK m \in Bad : \A k \in Bad : k \subseteq m => k = m
    <2>1. Bad \subseteq SUBSET S
      OBVIOUS
    <2> HIDE DEF Bad
    <2>2. QED
      BY <1>1, <2>1, LeastSet
  <1>3. PICK y \in m : ~Takes(f, m, y)
    OBVIOUS
  <1>4. PICK p : p = Pick(m)
    OBVIOUS
  <1>5. p \in m /\ SumOf(f, m) = f[p] + SumOf(f, m \ {p}) /\ IsFiniteSet(m)
    BY <1>3, <1>4, PickIn, FS_Subset, SumFirst
  <1>6. p # y
    BY <1>3, <1>5 DEF Takes
  <1>7. \A k \in SUBSET S : k \subseteq m /\ k # m => k \notin Bad
    BY <1>2
  <1>8. Takes(f, m \ {p}, y) /\ Takes(f, m \ {y}, p)
    BY <1>5, <1>6, <1>7
  <1>9. PICK n : n = (m \ {p}) \ {y}
    OBVIOUS
  <1>10. n = (m \ {y}) \ {p}
    BY <1>9
  <1>11. SumOf(f, n) \in Int /\ f[p] \in Int /\ f[y] \in Int
    <2>1. IsFiniteSet(n) /\ Ints(f, n)
      BY <1>5, <1>9, FS_Subset DEF Ints
    <2>2. QED
      BY <1>5, <2>1, SumInt DEF Ints
  <1>12. SumOf(f, m \ {p}) = f[y] + SumOf(f, n) /\ SumOf(f, m \ {y}) = f[p] + SumOf(f, n)
    BY <1>8, <1>9, <1>10 DEF Takes
  <1>13. QED
    BY <1>3, <1>5, <1>11, <1>12 DEF Takes

\* The sum of what f gives over S is that of what g gives where h leads.
LEMMA SumMoved ==
    ASSUME NEW f, NEW g, NEW h, NEW S, IsFiniteSet(S), NEW T, IsFiniteSet(T), Ints(g, T),
           \A x \in S : h[x] \in T /\ f[x] = g[h[x]],
           \A x \in S : \A y \in S : h[x] = h[y] => x = y,
           \A z \in T : \E x \in S : h[x] = z
    PROVE  SumOf(f, S) = SumOf(g, T)
  <1> DEFINE Im(s) == {h[x] : x \in s}
             Bad == {s \in SUBSET S : SumOf(f, s) # SumOf(g, Im(s))}
  <1>0. Im(S) = T
    OBVIOUS
  <1>1. SUFFICES ASSUME Bad # {} PROVE FALSE
    BY <1>0
  <1>2. PICK m \in Bad : \A k \in Bad : k \subseteq m => k = m
    <2>1. Bad \subseteq SUBSET S
      OBVIOUS
    <2> HIDE DEF Bad
    <2>2. QED
      BY <1>1, <2>1, LeastSet
  <1>3. PICK p : p = Pick(m)
    OBVIOUS
  <1>4. SumOf(f, m) = IF m = {} THEN 0 ELSE f[p] + SumOf(f, m \ {p})
    BY <1>3, FS_Subset, SumFirst
  <1>5. m # {}
    <2>1. SumOf(g, {}) = 0
      BY FS_EmptySet, SumFirst
    <2>2. m = {} => Im(m) = {}
      OBVIOUS
    <2>3. QED
      BY <1>4, <2>1, <2>2
  <1>6. p \in m
    BY <1>3, <1>5, PickIn
  <1>7. SumOf(f, m \ {p}) = SumOf(g, Im(m \ {p}))
    BY <1>2, <1>6
  <1>8. Im(m) \subseteq T /\ h[p] \in Im(m) /\ Im(m) \ {h[p]} = Im(m \ {p})
    BY <1>6
  <1>9. PICK n : n = Im(m)
    OBVIOUS
  <1>10. Takes(g, n, h[p])
    <2>1. IsFiniteSet(n) /\ Ints(g, n) /\ h[p] \in n
      BY <1>8, <1>9, FS_Subset DEF Ints
    <2>2. QED
      BY <2>1, SumTakes
  <1>11. SumOf(g, Im(m)) = g[h[p]] + SumOf(g, Im(m \ {p}))
    BY <1>8, <1>9, <1>10 DEF Takes
  <1>12. f[p] = g[h[p]]
    BY <1>6
  <1>13. QED
    BY <1>4, <1>5, <1>7, <1>11, <1>12

LEMMA SumSame ==
    ASSUME NEW f, NEW g, NEW S, IsFiniteSet(S), Ints(g, S), \A x \in S : f[x] = g[x]
    PROVE  SumOf(f, S) = SumOf(g, S)
  <1>1. PICK h : h = [x \in S |-> x]
    OBVIOUS
  <1>2. QED
    BY <1>1, SumMoved

\* One summand changes.
LEMMA SumOne ==
    ASSUME NEW f, NEW g, NEW S, IsFiniteSet(S), Ints(f, S), Ints(g, S), NEW x \in S,
           \A y \in S \ {x} : f[y] = g[y]
    PROVE  SumOf(g, S) = SumOf(f, S) + g[x] - f[x]
  <1>1. Takes(f, S, x) /\ Takes(g, S, x)
    BY SumTakes
  <1>2. PICK T : T = S \ {x}
    OBVIOUS
  <1>3. IsFiniteSet(T) /\ Ints(f, T) /\ Ints(g, T)
    BY <1>2, FS_Subset DEF Ints
  <1>4. SumOf(f, T) = SumOf(g, T) /\ SumOf(f, T) \in Int
    BY <1>2, <1>3, SumSame, SumInt
  <1>5. f[x] \in Int /\ g[x] \in Int
    BY DEF Ints
  <1>6. QED
    BY <1>1, <1>2, <1>4, <1>5 DEF Takes

\* A summand of 0 does not matter.
LEMMA SumZero ==
    ASSUME NEW f, NEW S, IsFiniteSet(S), Ints(f, S), NEW x \in S, f[x] = 0
    PROVE  SumOf(f, S) = SumOf(f, S \ {x})
  <1>1. Takes(f, S, x)
    BY SumTakes
  <1>2. PICK T : T = S \ {x}
    OBVIOUS
  <1>3. SumOf(f, T) \in Int
    BY <1>2, FS_Subset, SumInt DEF Ints
  <1>4. QED
    BY <1>1, <1>2, <1>3 DEF Takes

----------------------------------------------------------------------------
(* The gold there is                                                       *)

Value(e) == status[e].gold + guild[e].gold
Worth == [e \in User |-> Value(e)]
Load == [r \in Requests |-> InFlight(At(r))]
AllGold == SumOf(Worth, User) + SumOf(Load, Requests)

\* What a request carries is a number, and what it says of a level too.
MoneyOK(q) ==
    /\ q.cmd \in {"create", "deposit"} => q.x \in Nat
    /\ q.cmd = "create" => q.g \in User
    /\ q.cmd = "glevelup" => q.x \in Levels
    /\ q.cmd = "glv" /\ q.good => q.got[1] \in Nat
    /\ q.cmd = "login" /\ q.at = "done" => q.got[4] \in Nat

\* A guild that is not there has no gold.
GuildMoney ==
    \A g \in User : /\ guild[g].gold \in Int /\ guild[g].glevel \in Nat
                    /\ guild[g].there \/ guild[g].gold = 0

LevelsOK(m) == \A g \in User : m[g].glevel \in Nat

GInv ==
    /\ IsFiniteSet(Requests) /\ \A r \in Requests : MoneyOK(At(r))
    /\ GuildMoney /\ LevelsOK(map) /\ ledger \in Int
    /\ AllGold <= ledger /\ (lapse \/ AllGold = ledger)

LEMMA LevelRange == Levels \subseteq Nat \ {0} /\ Cardinality(Levels) \in Nat /\ Levels = 1 .. Cardinality(Levels)
  <1>1. PICK n \in Nat : Levels = 1 .. n
    BY GuildAssumption DEF Levels
  <1>2. 1 \in Int /\ n \in Int
    OBVIOUS
  <1>3. Cardinality(1 .. n) = n
    BY <1>2, FS_Interval
  <1>4. QED
    BY <1>1, <1>3

LEMMA FlightInt == ASSUME NEW q, MoneyOK(q) PROVE InFlight(q) \in Nat
  BY DEF MoneyOK, InFlight

LEMMA RequestIs ==
    \A r : r \in Requests <=> \E th \in Thread : \E i \in 1 .. Len(queue[th]) : r = <<th, i>>
  BY DEF Requests

LEMMA RequestNext ==
    \A r : r \in Requests' <=> \E th \in Thread' : \E i \in 1 .. Len(queue'[th]) : r = <<th, i>>
  BY DEF Requests

----------------------------------------------------------------------------
(* The statements of the workers, for the books                            *)

\* The step that makes r of request q: what one user or guild gains, and
\* the request, is what the ledger gains, or less, and then lapse is set.
Gain(u, q, r) == (Value(u)' - Value(u)) + (InFlight(r) - InFlight(q))
Books(q, r) ==
    /\ GuildMoney' /\ ledger' \in Int /\ MoneyOK(r) /\ (lapse => lapse')
    /\ \E u \in User : /\ \A e \in User \ {u} : Value(e)' = Value(e)
                       /\ Gain(u, q, r) <= ledger' - ledger
                       /\ lapse' \/ Gain(u, q, r) = ledger' - ledger

StatusSame == \A e \in User : status'[e].gold = status[e].gold
GuildSame ==
    \A g \in User : /\ guild'[g].gold = guild[g].gold /\ guild'[g].glevel = guild[g].glevel
                    /\ guild'[g].there = guild[g].there

\* A statement that moves no gold; it may lose what the request carries.
LEMMA BooksSame ==
    ASSUME StatusOK, GuildMoney, ledger \in Int, NEW q, NEW r, MoneyOK(q), MoneyOK(r), q.e \in User,
           StatusSame, GuildSame, ledger' = ledger, lapse \in BOOLEAN, lapse' \in {lapse, TRUE},
           InFlight(r) = InFlight(q) \/ (InFlight(r) = 0 /\ lapse' = TRUE)
    PROVE  Books(q, r)
  <1>1. \A e \in User : Value(e) \in Int /\ Value(e)' = Value(e)
    BY DEF StatusOK, GuildMoney, StatusSame, GuildSame, Value
  <1>2. GuildMoney'
    BY DEF GuildMoney, GuildSame
  <1>3. InFlight(r) \in Nat /\ InFlight(q) \in Nat
    BY FlightInt
  <1>4. Gain(q.e, q, r) = InFlight(r) - InFlight(q)
    BY <1>1, <1>3 DEF Gain
  <1>5. Gain(q.e, q, r) <= ledger' - ledger /\ (lapse' \/ Gain(q.e, q, r) = ledger' - ledger)
    BY <1>3, <1>4
  <1>6. QED
    BY <1>1, <1>2, <1>5 DEF Books

\* A statement that pays a user, or makes it pay.
LEMMA BooksUser ==
    ASSUME StatusOK, GuildMoney, ledger \in Int, NEW q, NEW r, MoneyOK(q), MoneyOK(r),
           NEW e \in User, NEW x \in Int, UpdateMoney(e, x), GuildSame, ledger' \in Int, lapse' = lapse,
           lapse \in BOOLEAN, x + (InFlight(r) - InFlight(q)) = ledger' - ledger
    PROVE  Books(q, r)
  <1>1. status'[e].gold = status[e].gold + x /\ \A u \in User \ {e} : status'[u] = status[u]
    BY DEF StatusOK, UpdateMoney
  <1>2. Value(e)' - Value(e) = x /\ \A u \in User \ {e} : Value(u)' = Value(u)
    BY <1>1 DEF StatusOK, GuildMoney, GuildSame, Value
  <1>3. GuildMoney'
    BY DEF GuildMoney, GuildSame
  <1>4. Gain(e, q, r) = ledger' - ledger
    BY <1>2 DEF Gain
  <1>5. QED
    BY <1>2, <1>3, <1>4 DEF Books

\* A statement that changes the gold of a guild.
LEMMA BooksGuild ==
    ASSUME StatusOK, GuildMoney, ledger \in Int, NEW q, NEW r, MoneyOK(q), MoneyOK(r),
           NEW g \in User, StatusSame, \A h \in User \ {g} : guild'[h] = guild[h],
           guild'[g].gold \in Int, guild'[g].glevel \in Nat, guild'[g].there \/ guild'[g].gold = 0,
           ledger' \in Int, lapse' = lapse, lapse \in BOOLEAN,
           (guild'[g].gold - guild[g].gold) + (InFlight(r) - InFlight(q)) = ledger' - ledger
    PROVE  Books(q, r)
  <1>1. /\ Value(g)' - Value(g) = guild'[g].gold - guild[g].gold
        /\ \A u \in User \ {g} : Value(u)' = Value(u)
    BY DEF StatusOK, GuildMoney, StatusSame, Value
  <1>2. GuildMoney'
    BY DEF GuildMoney
  <1>3. Gain(g, q, r) = ledger' - ledger
    BY <1>1 DEF Gain
  <1>4. QED
    BY <1>1, <1>2, <1>3 DEF Books

\* The books of request i of worker th.
WorkBooks(th, i) == Books(queue[th][i], queue'[th][i])

\* What the steps of a request do to it and to lapse.
LEMMA Ways ==
    ASSUME TInv, NEW th \in Thread, NEW i \in 1 .. Len(queue[th]), MoneyOK(queue[th][i]),
           queue[th][i].cmd \notin {"glv", "login"}
    PROVE  LET q == queue[th][i]
               r == queue'[th][i]
           IN /\ \A at : Go(th, i, at) => Outcome(q, r, at, q.good) /\ MoneyOK(r) /\ lapse' = lapse
              /\ Succeed(th, i) => Outcome(q, r, "done", TRUE) /\ MoneyOK(r) /\ lapse' = lapse
              /\ Refuse(th, i) => Outcome(q, r, "done", q.good) /\ MoneyOK(r) /\ lapse' = lapse
              /\ Break(th, i) => Outcome(q, r, "done", q.good) /\ MoneyOK(r) /\ lapse' = TRUE
  <1>1. ASSUME NEW r, NEW at, NEW good, Outcome(queue[th][i], r, at, good) PROVE MoneyOK(r)
    BY <1>1 DEF Outcome, MoneyOK
  <1>2. QED
    BY <1>1, Outcomes DEF Go, Succeed, Refuse, Break

LEMMA CreateBooks ==
    ASSUME TInv, GuildMoney, ledger \in Int, NEW th \in Thread, NEW i \in 1 .. Len(queue[th]), NEW ok \in BOOLEAN,
           MoneyOK(queue[th][i]), queue[th][i].cmd = "create", InCreateGuild(th, i, ok)
    PROVE  WorkBooks(th, i)
  <1> PICK q : q = queue[th][i]
    OBVIOUS
  <1> PICK r : r = queue'[th][i]
    OBVIOUS
  <1>1. /\ StatusOK /\ GuildOK /\ lapse \in BOOLEAN /\ q.e \in User /\ q.cmd = "create" /\ MoneyOK(q)
        /\ q.g \in User \cup {NoGuild}
    BY DEF TInv, QueueOK, ReqOK
  <1>2. /\ \A at : Go(th, i, at) => Outcome(q, r, at, q.good) /\ MoneyOK(r) /\ lapse' = lapse
        /\ Succeed(th, i) => Outcome(q, r, "done", TRUE) /\ MoneyOK(r) /\ lapse' = lapse
        /\ Refuse(th, i) => Outcome(q, r, "done", q.good) /\ MoneyOK(r) /\ lapse' = lapse
        /\ Break(th, i) => Outcome(q, r, "done", q.good) /\ MoneyOK(r) /\ lapse' = TRUE
    BY <1>1, Ways
  <1>3. q.x \in Nat
    BY <1>1 DEF MoneyOK
  <1>4. ASSUME NEW at, NEW good, Outcome(q, r, at, good)
        PROVE  InFlight(r) = IF at \in {"paid", "joined"} THEN q.x ELSE 0
    BY <1>1, <1>4 DEF Outcome, InFlight
  <1>5. InFlight(q) = IF q.at \in {"paid", "joined"} THEN q.x ELSE 0
    BY <1>1 DEF InFlight
  <1>6. ASSUME NEW at, NEW good, Outcome(q, r, at, good), MoneyOK(r), StatusSame, GuildSame, ledger' = ledger,
               \/ lapse' = lapse /\ (at \in {"paid", "joined"} <=> q.at \in {"paid", "joined"})
               \/ lapse' = TRUE /\ at = "done"
        PROVE  WorkBooks(th, i)
    <2>1. InFlight(r) = InFlight(q) \/ (InFlight(r) = 0 /\ lapse' = TRUE)
      BY <1>4, <1>5, <1>6
    <2>2. QED
      BY <1>1, <1>6, <2>1, BooksSame DEF WorkBooks
  <1>7. CASE q.at = "new"
    <2>1. StatusSame /\ GuildSame /\ ledger' = ledger
      BY <1>7 DEF InCreateGuild, tables, StatusSame, GuildSame
    <2>2. \E at \in {"checked", "done"} : Outcome(q, r, at, q.good) /\ MoneyOK(r) /\ lapse' = lapse
      BY <1>2, <1>7 DEF InCreateGuild
    <2>3. QED
      BY <1>6, <1>7, <2>1, <2>2
  <1>8. CASE q.at = "checked" /\ ok /\ status[q.e].gold >= q.x
    <2>1. UpdateMoney(q.e, -q.x) /\ Go(th, i, "paid") /\ UNCHANGED <<guild, ledger>>
      BY <1>8 DEF InCreateGuild
    <2>2. InFlight(q) = 0 /\ InFlight(r) = q.x /\ MoneyOK(r) /\ lapse' = lapse
      BY <1>2, <1>4, <1>5, <1>8, <2>1
    <2>3. GuildSame /\ ledger' = ledger /\ -q.x \in Int /\ -q.x + (InFlight(r) - InFlight(q)) = ledger' - ledger
      BY <1>3, <2>1, <2>2 DEF GuildSame
    <2>4. QED
      BY <1>1, <2>1, <2>2, <2>3, BooksUser DEF WorkBooks
  <1>9. CASE q.at = "checked" /\ ~(ok /\ status[q.e].gold >= q.x)
    <2>1. StatusSame /\ GuildSame /\ ledger' = ledger /\ Refuse(th, i)
      BY <1>9 DEF InCreateGuild, StatusSame, GuildSame
    <2>2. QED
      BY <1>2, <1>6, <1>9, <2>1
  <1>10. CASE q.at = "paid"
    <2>1. status' = status \/ UpdateStatusGuild(q.e, q.g, GUILD_POS_MASTER)
      BY <1>10 DEF InCreateGuild
    <2>2. StatusSame /\ GuildSame /\ ledger' = ledger
      BY <1>1, <1>10, <2>1 DEF InCreateGuild, StatusSame, GuildSame, UpdateStatusGuild, StatusOK
    <2>3. Go(th, i, "joined") \/ Break(th, i)
      BY <1>10 DEF InCreateGuild
    <2>4. QED
      BY <1>2, <1>6, <1>10, <2>2, <2>3
  <1>11. CASE q.at = "joined" /\ ok /\ ~Exists(q.g)
    <2> PICK row : row = [there |-> TRUE, total |-> 1, glevel |-> 1, gold |-> q.x]
      OBVIOUS
    <2>1. Go(th, i, "founded") /\ guild' = [guild EXCEPT ![q.g] = row] /\ UNCHANGED <<status, ledger>>
      BY <1>11 DEF InCreateGuild
    <2>2. q.g \in User
      BY <1>1 DEF MoneyOK
    <2>3. guild'[q.g] = row /\ \A h \in User \ {q.g} : guild'[h] = guild[h]
      BY <1>1, <2>1, <2>2 DEF GuildOK
    <2>4. guild[q.g].gold = 0
      BY <1>11, <2>2, Nobody DEF GuildMoney, Exists
    <2>5. InFlight(q) = q.x /\ InFlight(r) = 0 /\ MoneyOK(r) /\ lapse' = lapse
      BY <1>2, <1>4, <1>5, <1>11, <2>1
    <2>6. /\ guild'[q.g].gold \in Int /\ guild'[q.g].glevel \in Nat /\ guild'[q.g].there
          /\ (guild'[q.g].gold - guild[q.g].gold) + (InFlight(r) - InFlight(q)) = 0
      BY <1>3, <2>3, <2>4, <2>5
    <2>7. StatusSame /\ ledger' = ledger /\ ledger' - ledger = 0
      BY <2>1 DEF StatusSame
    <2>8. QED
      BY <1>1, <2>2, <2>3, <2>5, <2>6, <2>7, BooksGuild DEF WorkBooks
  <1>12. CASE q.at = "joined" /\ ~(ok /\ ~Exists(q.g))
    <2>1. StatusSame /\ GuildSame /\ ledger' = ledger /\ Break(th, i)
      BY <1>12 DEF InCreateGuild, StatusSame, GuildSame
    <2>2. QED
      BY <1>2, <1>6, <1>12, <2>1
  <1>13. CASE q.at = "founded"
    <2>1. StatusSame /\ GuildSame /\ ledger' = ledger /\ (Succeed(th, i) \/ Break(th, i))
      BY <1>13 DEF InCreateGuild, StatusSame, GuildSame
    <2>2. QED
      BY <1>2, <1>6, <1>13, <2>1
  <1>14. QED
    BY <1>7, <1>8, <1>9, <1>10, <1>11, <1>12, <1>13 DEF InCreateGuild

LEMMA DepositBooks ==
    ASSUME TInv, GuildMoney, ledger \in Int, NEW th \in Thread, NEW i \in 1 .. Len(queue[th]), NEW ok \in BOOLEAN,
           MoneyOK(queue[th][i]), queue[th][i].cmd = "deposit", InGuildDeposit(th, i, ok)
    PROVE  WorkBooks(th, i)
  <1> PICK q : q = queue[th][i]
    OBVIOUS
  <1> PICK r : r = queue'[th][i]
    OBVIOUS
  <1>1. /\ StatusOK /\ GuildOK /\ lapse \in BOOLEAN /\ q.e \in User /\ q.cmd = "deposit" /\ MoneyOK(q)
        /\ q.g \in User \cup {NoGuild}
    BY DEF TInv, QueueOK, ReqOK
  <1>2. /\ \A at : Go(th, i, at) => Outcome(q, r, at, q.good) /\ MoneyOK(r) /\ lapse' = lapse
        /\ Succeed(th, i) => Outcome(q, r, "done", TRUE) /\ MoneyOK(r) /\ lapse' = lapse
        /\ Refuse(th, i) => Outcome(q, r, "done", q.good) /\ MoneyOK(r) /\ lapse' = lapse
        /\ Break(th, i) => Outcome(q, r, "done", q.good) /\ MoneyOK(r) /\ lapse' = TRUE
    BY <1>1, Ways
  <1>3. q.x \in Nat
    BY <1>1 DEF MoneyOK
  <1>4. ASSUME NEW at, NEW good, Outcome(q, r, at, good)
        PROVE  InFlight(r) = IF at = "paid" THEN q.x ELSE 0
    BY <1>1, <1>4 DEF Outcome, InFlight
  <1>5. InFlight(q) = IF q.at = "paid" THEN q.x ELSE 0
    BY <1>1 DEF InFlight
  <1>6. ASSUME NEW at, NEW good, Outcome(q, r, at, good), MoneyOK(r), StatusSame, GuildSame, ledger' = ledger,
               \/ lapse' = lapse /\ (at \in {"paid"} <=> q.at \in {"paid"})
               \/ lapse' = TRUE /\ at = "done"
        PROVE  WorkBooks(th, i)
    <2>1. InFlight(r) = InFlight(q) \/ (InFlight(r) = 0 /\ lapse' = TRUE)
      BY <1>4, <1>5, <1>6
    <2>2. QED
      BY <1>1, <1>6, <2>1, BooksSame DEF WorkBooks
  <1>7. CASE q.at = "new"
    <2>1. StatusSame /\ GuildSame /\ ledger' = ledger /\ (Go(th, i, "found") \/ Refuse(th, i))
      BY <1>7 DEF InGuildDeposit, tables, StatusSame, GuildSame
    <2>2. QED
      BY <1>2, <1>6, <1>7, <2>1
  <1>8. CASE q.at = "found" /\ ok /\ status[q.e].gold >= q.x
    <2>1. UpdateMoney(q.e, -q.x) /\ Go(th, i, "paid") /\ UNCHANGED <<guild, ledger>>
      BY <1>8 DEF InGuildDeposit
    <2>2. InFlight(q) = 0 /\ InFlight(r) = q.x /\ MoneyOK(r) /\ lapse' = lapse
      BY <1>2, <1>4, <1>5, <1>8, <2>1
    <2>3. GuildSame /\ ledger' = ledger /\ -q.x \in Int /\ -q.x + (InFlight(r) - InFlight(q)) = ledger' - ledger
      BY <1>3, <2>1, <2>2 DEF GuildSame
    <2>4. QED
      BY <1>1, <2>1, <2>2, <2>3, BooksUser DEF WorkBooks
  <1>9. CASE q.at = "found" /\ ~(ok /\ status[q.e].gold >= q.x)
    <2>1. StatusSame /\ GuildSame /\ ledger' = ledger /\ Refuse(th, i)
      BY <1>9 DEF InGuildDeposit, StatusSame, GuildSame
    <2>2. QED
      BY <1>2, <1>6, <1>9, <2>1
  <1>10. CASE q.at = "paid" /\ ok /\ Exists(q.g)
    <2> PICK row : row = [guild[q.g] EXCEPT !.gold = @ + q.x]
      OBVIOUS
    <2>1. q.g \in User
      BY <1>1, <1>10 DEF Exists
    <2>2. Go(th, i, "given") /\ guild' = [guild EXCEPT ![q.g] = row] /\ UNCHANGED <<status, ledger>>
      BY <1>1, <1>10, <2>1 DEF InGuildDeposit, GuildOK
    <2>3. guild'[q.g] = row /\ \A h \in User \ {q.g} : guild'[h] = guild[h]
      BY <1>1, <2>1, <2>2 DEF GuildOK
    <2>4. row.gold = guild[q.g].gold + q.x /\ row.there = guild[q.g].there /\ row.glevel = guild[q.g].glevel
      BY <1>1, <2>1 DEF GuildOK
    <2>5. InFlight(q) = q.x /\ InFlight(r) = 0 /\ MoneyOK(r) /\ lapse' = lapse
      BY <1>2, <1>4, <1>5, <1>10, <2>2
    <2>6. /\ guild'[q.g].gold \in Int /\ guild'[q.g].glevel \in Nat /\ guild'[q.g].there
          /\ (guild'[q.g].gold - guild[q.g].gold) + (InFlight(r) - InFlight(q)) = 0
      BY <1>3, <1>10, <2>1, <2>3, <2>4, <2>5 DEF GuildMoney, Exists
    <2>7. StatusSame /\ ledger' = ledger /\ ledger' - ledger = 0
      BY <2>2 DEF StatusSame
    <2>8. QED
      BY <1>1, <2>1, <2>3, <2>5, <2>6, <2>7, BooksGuild DEF WorkBooks
  <1>11. CASE q.at = "paid" /\ ~(ok /\ Exists(q.g))
    <2>1. StatusSame /\ GuildSame /\ ledger' = ledger /\ Break(th, i)
      BY <1>11 DEF InGuildDeposit, StatusSame, GuildSame
    <2>2. QED
      BY <1>2, <1>6, <1>11, <2>1
  <1>12. CASE q.at = "given"
    <2>1. StatusSame /\ GuildSame /\ ledger' = ledger /\ (Succeed(th, i) \/ Break(th, i))
      BY <1>12 DEF InGuildDeposit, StatusSame, GuildSame
    <2>2. QED
      BY <1>2, <1>6, <1>12, <2>1
  <1>13. QED
    BY <1>7, <1>8, <1>9, <1>10, <1>11, <1>12 DEF InGuildDeposit

\* The bonus is new gold.
LEMMA BonusBooks ==
    ASSUME TInv, GuildMoney, ledger \in Int, NEW th \in Thread, NEW i \in 1 .. Len(queue[th]), NEW ok \in BOOLEAN,
           MoneyOK(queue[th][i]), queue[th][i].cmd = "bonus", InGuildBonus(th, i, ok)
    PROVE  WorkBooks(th, i)
  <1> PICK q : q = queue[th][i]
    OBVIOUS
  <1> PICK r : r = queue'[th][i]
    OBVIOUS
  <1>1. /\ StatusOK /\ GuildOK /\ lapse \in BOOLEAN /\ q.e \in User /\ q.cmd = "bonus" /\ MoneyOK(q)
        /\ q.g \in User \cup {NoGuild} /\ ReqOK(q)
    BY DEF TInv, QueueOK, ReqOK
  <1>2. /\ \A at : Go(th, i, at) => Outcome(q, r, at, q.good) /\ MoneyOK(r) /\ lapse' = lapse
        /\ Succeed(th, i) => Outcome(q, r, "done", TRUE) /\ MoneyOK(r) /\ lapse' = lapse
        /\ Refuse(th, i) => Outcome(q, r, "done", q.good) /\ MoneyOK(r) /\ lapse' = lapse
        /\ Break(th, i) => Outcome(q, r, "done", q.good) /\ MoneyOK(r) /\ lapse' = TRUE
    BY <1>1, Ways
  <1>3. InFlight(q) = 0
    BY <1>1 DEF InFlight
  <1>4. ASSUME MoneyOK(r), r.cmd = q.cmd, StatusSame, GuildSame, ledger' = ledger, lapse' \in {lapse, TRUE}
        PROVE  WorkBooks(th, i)
    <2>1. InFlight(r) = 0
      BY <1>1, <1>4 DEF InFlight
    <2>2. QED
      BY <1>1, <1>3, <1>4, <2>1, BooksSame DEF WorkBooks
  <1>5. CASE q.at = "new"
    <2>1. StatusSame /\ GuildSame /\ ledger' = ledger
      BY <1>5 DEF InGuildBonus, tables, StatusSame, GuildSame
    <2>2. CASE Refuse(th, i)
      BY <1>2, <1>4, <2>1, <2>2 DEF Outcome
    <2>3. CASE \E b \in Int : Set(th, i, [q EXCEPT !.at = "due", !.x = b]) /\ lapse' = lapse
      <3>1. PICK b \in Int : Set(th, i, [q EXCEPT !.at = "due", !.x = b]) /\ lapse' = lapse
        BY <2>3
      <3>2. r = [q EXCEPT !.at = "due", !.x = b]
        BY <3>1, SetIs
      <3>3. r.cmd = q.cmd
        BY <1>1, <3>2 DEF ReqOK, Fields
      <3>4. MoneyOK(r)
        BY <1>1, <3>3 DEF MoneyOK
      <3>5. QED
        BY <1>4, <2>1, <3>1, <3>3, <3>4
    <2>4. \/ Refuse(th, i)
          \/ /\ lapse' = lapse
             /\ \E b \in 0 .. IF share[q.e].gshare THEN 1 ELSE 0 : Set(th, i, [q EXCEPT !.at = "due", !.x = b])
      BY <1>5 DEF InGuildBonus
    <2>5. \A b \in 0 .. IF share[q.e].gshare THEN 1 ELSE 0 : b \in Int
      OBVIOUS
    <2>6. QED
      BY <2>2, <2>3, <2>4, <2>5
  <1>6. CASE q.at = "due" /\ ok
    <2>1. UpdateMoney(q.e, q.x) /\ Go(th, i, "paid") /\ guild' = guild /\ ledger' = ledger + q.x
      BY <1>6 DEF InGuildBonus
    <2>2. q.x \in Int
      BY <1>1, <1>6 DEF ReqOK
    <2>3. MoneyOK(r) /\ lapse' = lapse /\ InFlight(r) = 0
      BY <1>1, <1>2, <2>1 DEF Outcome, InFlight
    <2>4. GuildSame /\ ledger' \in Int /\ q.x + (InFlight(r) - InFlight(q)) = ledger' - ledger
      BY <1>3, <2>1, <2>2, <2>3 DEF GuildSame
    <2>5. QED
      BY <1>1, <2>1, <2>2, <2>3, <2>4, BooksUser DEF WorkBooks
  <1>7. CASE q.at = "due" /\ ~ok
    <2>1. StatusSame /\ GuildSame /\ ledger' = ledger /\ Refuse(th, i)
      BY <1>7 DEF InGuildBonus, StatusSame, GuildSame
    <2>2. QED
      BY <1>2, <1>4, <2>1 DEF Outcome
  <1>8. CASE q.at = "paid"
    <2>1. StatusSame /\ GuildSame /\ ledger' = ledger /\ (Succeed(th, i) \/ Break(th, i))
      BY <1>8 DEF InGuildBonus, StatusSame, GuildSame
    <2>2. QED
      BY <1>2, <1>4, <2>1 DEF Outcome
  <1>9. QED
    BY <1>5, <1>6, <1>7, <1>8 DEF InGuildBonus

\* The gold of a guild that is deleted goes.
LEMMA DeleteBooks ==
    ASSUME TInv, GuildMoney, ledger \in Int, NEW th \in Thread, NEW i \in 1 .. Len(queue[th]), NEW ok \in BOOLEAN,
           MoneyOK(queue[th][i]), queue[th][i].cmd = "delete", InDeleteGuild(th, i, ok)
    PROVE  WorkBooks(th, i)
  <1> PICK q : q = queue[th][i]
    OBVIOUS
  <1> PICK r : r = queue'[th][i]
    OBVIOUS
  <1>1. /\ StatusOK /\ GuildOK /\ lapse \in BOOLEAN /\ q.e \in User /\ q.cmd = "delete" /\ MoneyOK(q)
        /\ q.g \in User \cup {NoGuild} /\ ReqOK(q)
    BY DEF TInv, QueueOK, ReqOK
  <1>2. /\ \A at : Go(th, i, at) => Outcome(q, r, at, q.good) /\ MoneyOK(r) /\ lapse' = lapse
        /\ Succeed(th, i) => Outcome(q, r, "done", TRUE) /\ MoneyOK(r) /\ lapse' = lapse
        /\ Refuse(th, i) => Outcome(q, r, "done", q.good) /\ MoneyOK(r) /\ lapse' = lapse
        /\ Break(th, i) => Outcome(q, r, "done", q.good) /\ MoneyOK(r) /\ lapse' = TRUE
    BY <1>1, Ways
  <1>3. InFlight(q) = 0
    BY <1>1 DEF InFlight
  <1>4. ASSUME MoneyOK(r), r.cmd = q.cmd, StatusSame, GuildSame, ledger' = ledger, lapse' \in {lapse, TRUE}
        PROVE  WorkBooks(th, i)
    <2>1. InFlight(r) = 0
      BY <1>1, <1>4 DEF InFlight
    <2>2. QED
      BY <1>1, <1>3, <1>4, <2>1, BooksSame DEF WorkBooks
  <1>5. CASE q.at = "new"
    <2>1. StatusSame /\ GuildSame /\ ledger' = ledger /\ (Go(th, i, "found") \/ Refuse(th, i))
      BY <1>5 DEF InDeleteGuild, tables, StatusSame, GuildSame
    <2>2. QED
      BY <1>2, <1>4, <2>1 DEF Outcome
  <1>6. CASE q.at = "found"
    <2> DEFINE Out(e) == [status[e] EXCEPT !.gid = NoGuild, !.gpos = GUILD_POS_NONE]
    <2>1. \A e \in User : Out(e).gold = status[e].gold
      BY <1>1 DEF StatusOK
    <2>2. \/ status' = status
          \/ status' = [e \in User |-> IF status[e].gid # q.g THEN status[e] ELSE Out(e)]
      BY <1>6 DEF InDeleteGuild
    <2> HIDE DEF Out
    <2>3. StatusSame
      BY <2>1, <2>2 DEF StatusSame
    <2>4. GuildSame /\ ledger' = ledger /\ (Go(th, i, "kicked") \/ Refuse(th, i))
      BY <1>6 DEF InDeleteGuild, GuildSame
    <2>5. QED
      BY <1>2, <1>4, <2>3, <2>4 DEF Outcome
  <1>7. CASE q.at = "kicked" /\ guild' = guild /\ ledger' = ledger
    <2>1. StatusSame /\ GuildSame /\ (Succeed(th, i) \/ Break(th, i))
      BY <1>7 DEF InDeleteGuild, StatusSame, GuildSame
    <2>2. QED
      BY <1>2, <1>4, <1>7, <2>1 DEF Outcome
  <1>8. CASE q.at = "kicked" /\ ~(guild' = guild /\ ledger' = ledger)
    <2>1. /\ Succeed(th, i) /\ status' = status /\ Exists(q.g)
          /\ guild' = [guild EXCEPT ![q.g] = NoRow] /\ ledger' = ledger - guild[q.g].gold
      BY <1>8 DEF InDeleteGuild
    <2>2. q.g \in User
      BY <1>1, <2>1 DEF Exists
    <2>3. guild'[q.g] = NoRow /\ \A h \in User \ {q.g} : guild'[h] = guild[h]
      BY <1>1, <2>1, <2>2 DEF GuildOK
    <2>4. NoRow.gold = 0 /\ NoRow.glevel = 0
      BY DEF NoRow
    <2>5. MoneyOK(r) /\ lapse' = lapse /\ InFlight(r) = 0
      BY <1>1, <1>2, <2>1 DEF Outcome, InFlight
    <2>6. /\ guild'[q.g].gold \in Int /\ guild'[q.g].glevel \in Nat /\ guild'[q.g].gold = 0
          /\ guild[q.g].gold \in Int
      BY <2>2, <2>3, <2>4 DEF GuildMoney
    <2>7. ledger' \in Int /\ (guild'[q.g].gold - guild[q.g].gold) + (InFlight(r) - InFlight(q)) = ledger' - ledger
      BY <1>3, <2>1, <2>5, <2>6
    <2>8. StatusSame
      BY <2>1 DEF StatusSame
    <2>9. QED
      BY <1>1, <2>2, <2>3, <2>5, <2>6, <2>7, <2>8, BooksGuild DEF WorkBooks
  <1>9. QED
    BY <1>5, <1>6, <1>7, <1>8 DEF InDeleteGuild

LEMMA Spent == \A a \in Int : \A n, l \in Nat : a - n \in Int /\ (a - n) - a = 0 - n /\ l + 1 \in Nat
  OBVIOUS

\* A level is paid for by the guild.
LEMMA LevelupBooks ==
    ASSUME TInv, GuildMoney, ledger \in Int, NEW th \in Thread, NEW i \in 1 .. Len(queue[th]), NEW ok \in BOOLEAN,
           MoneyOK(queue[th][i]), queue[th][i].cmd = "glevelup", InGlevelup(th, i, ok)
    PROVE  WorkBooks(th, i)
  <1> PICK q : q = queue[th][i]
    OBVIOUS
  <1> PICK r : r = queue'[th][i]
    OBVIOUS
  <1>1. /\ StatusOK /\ GuildOK /\ lapse \in BOOLEAN /\ q.e \in User /\ q.cmd = "glevelup" /\ MoneyOK(q)
        /\ q.g \in User \cup {NoGuild} /\ ReqOK(q)
    BY DEF TInv, QueueOK, ReqOK
  <1>2. /\ \A at : Go(th, i, at) => Outcome(q, r, at, q.good) /\ MoneyOK(r) /\ lapse' = lapse
        /\ Succeed(th, i) => Outcome(q, r, "done", TRUE) /\ MoneyOK(r) /\ lapse' = lapse
        /\ Refuse(th, i) => Outcome(q, r, "done", q.good) /\ MoneyOK(r) /\ lapse' = lapse
        /\ Break(th, i) => Outcome(q, r, "done", q.good) /\ MoneyOK(r) /\ lapse' = TRUE
    BY <1>1, Ways
  <1>3. InFlight(q) = 0
    BY <1>1 DEF InFlight
  <1>4. ASSUME MoneyOK(r), r.cmd = q.cmd, StatusSame, GuildSame, ledger' = ledger, lapse' \in {lapse, TRUE}
        PROVE  WorkBooks(th, i)
    <2>1. InFlight(r) = 0
      BY <1>1, <1>4 DEF InFlight
    <2>2. QED
      BY <1>1, <1>3, <1>4, <2>1, BooksSame DEF WorkBooks
  <1>5. CASE guild' = guild /\ ledger' = ledger /\ Refuse(th, i)
    <2>1. StatusSame /\ GuildSame
      BY <1>5 DEF InGlevelup, StatusSame, GuildSame
    <2>2. QED
      BY <1>2, <1>4, <1>5, <2>1 DEF Outcome
  <1>6. CASE ~(guild' = guild /\ ledger' = ledger /\ Refuse(th, i))
    <2> PICK cost : cost = LevelUpGold[q.x]
      OBVIOUS
    <2>1. cost \in Nat
      BY <1>1, GuildAssumption DEF MoneyOK
    <2>2. /\ Succeed(th, i) /\ status' = status /\ Exists(q.g) /\ ledger' = ledger - cost
          /\ guild' = [guild EXCEPT ![q.g].glevel = @ + 1, ![q.g].gold = @ - cost]
      BY <1>6 DEF InGlevelup
    <2>3. q.g \in User
      BY <1>1, <2>2 DEF Exists
    <2>7. guild[q.g].gold \in Int /\ guild[q.g].glevel \in Nat /\ guild[q.g].there
      BY <2>2, <2>3 DEF GuildMoney, Exists
    <2>4. /\ guild'[q.g].gold = guild[q.g].gold - cost /\ guild'[q.g].there
          /\ guild'[q.g].glevel = guild[q.g].glevel + 1
          /\ \A h \in User \ {q.g} : guild'[h] = guild[h]
      <3> PICK row : row = [guild[q.g] EXCEPT !.glevel = @ + 1]
        OBVIOUS
      <3> PICK last : last = [row EXCEPT !.gold = @ - cost]
        OBVIOUS
      <3> PICK risen : risen = [guild EXCEPT ![q.g] = row]
        OBVIOUS
      <3>1. guild' = [risen EXCEPT ![q.g].gold = @ - cost]
        BY <1>1, <2>2, <2>3 DEF GuildOK
      <3>2. DOMAIN risen = User /\ risen[q.g] = row /\ \A h \in User \ {q.g} : risen[h] = guild[h]
        BY <1>1, <2>3 DEF GuildOK
      <3>3. guild'[q.g] = last /\ \A h \in User \ {q.g} : guild'[h] = guild[h]
        BY <2>3, <3>1, <3>2
      <3>4. DOMAIN row = {"there", "total", "glevel", "gold"} /\ row.gold = guild[q.g].gold
            /\ row.there = guild[q.g].there /\ row.glevel = guild[q.g].glevel + 1
        BY <1>1, <2>3 DEF GuildOK
      <3>5. last.gold = guild[q.g].gold - cost /\ last.there = guild[q.g].there
            /\ last.glevel = guild[q.g].glevel + 1
        BY <3>4
      <3>6. QED
        BY <2>7, <3>3, <3>5
    <2>8. MoneyOK(r) /\ lapse' = lapse /\ InFlight(r) = 0
      BY <1>1, <1>2, <2>2 DEF Outcome, InFlight
    <2>12. PICK c : c = guild'[q.g]
      OBVIOUS
    <2>13. c.gold = guild[q.g].gold - cost /\ c.there /\ c.glevel = guild[q.g].glevel + 1
      BY <2>4, <2>12
    <2>14. c.gold \in Int /\ c.glevel \in Nat /\ c.gold - guild[q.g].gold = 0 - cost
      <3>1. PICK a \in Int : a = guild[q.g].gold
        BY <2>7
      <3>2. PICK n \in Nat : n = cost
        BY <2>1
      <3>3. PICK l \in Nat : l = guild[q.g].glevel
        BY <2>7
      <3>4. a - n \in Int /\ (a - n) - a = 0 - n /\ l + 1 \in Nat
        BY Spent
      <3>5. c.gold = a - n /\ c.glevel = l + 1
        BY <2>13, <3>1, <3>2, <3>3
      <3>6. QED
        BY <3>1, <3>2, <3>4, <3>5
    <2>15. ledger' \in Int /\ ledger' - ledger = 0 - cost
      BY <2>1, <2>2
    <2>16. InFlight(r) - InFlight(q) = 0
      BY <1>3, <2>8
    <2>17. (c.gold - guild[q.g].gold) + (InFlight(r) - InFlight(q)) = ledger' - ledger
      BY <2>1, <2>14, <2>15, <2>16
    <2>9. /\ guild'[q.g].gold \in Int /\ guild'[q.g].glevel \in Nat /\ guild'[q.g].there /\ ledger' \in Int
          /\ (guild'[q.g].gold - guild[q.g].gold) + (InFlight(r) - InFlight(q)) = ledger' - ledger
      BY <2>12, <2>13, <2>14, <2>15, <2>17
    <2>10. StatusSame
      BY <2>2 DEF StatusSame
    <2>11. QED
      BY <1>1, <2>3, <2>4, <2>8, <2>9, <2>10, BooksGuild DEF WorkBooks
  <1>7. QED
    BY <1>5, <1>6

\* Joining, rising, leaving: no gold.
LEMMA MemberBooks ==
    ASSUME TInv, GuildMoney, ledger \in Int, NEW th \in Thread, NEW i \in 1 .. Len(queue[th]), NEW ok \in BOOLEAN,
           MoneyOK(queue[th][i]),
           \/ queue[th][i].cmd = "apply" /\ InGuildApply(th, i, ok)
           \/ queue[th][i].cmd = "gpos" /\ InGuildPos(th, i, ok)
           \/ queue[th][i].cmd = "gquit" /\ InGuildQuit(th, i, ok)
    PROVE  WorkBooks(th, i)
  <1> PICK q : q = queue[th][i]
    OBVIOUS
  <1> PICK r : r = queue'[th][i]
    OBVIOUS
  <1>1. /\ StatusOK /\ GuildOK /\ lapse \in BOOLEAN /\ q.e \in User /\ q.cmd \in {"apply", "gpos", "gquit"} /\ MoneyOK(q)
        /\ q.g \in User \cup {NoGuild} /\ ReqOK(q)
    BY DEF TInv, QueueOK, ReqOK
  <1>2. /\ \A at : Go(th, i, at) => Outcome(q, r, at, q.good) /\ MoneyOK(r) /\ lapse' = lapse
        /\ Succeed(th, i) => Outcome(q, r, "done", TRUE) /\ MoneyOK(r) /\ lapse' = lapse
        /\ Refuse(th, i) => Outcome(q, r, "done", q.good) /\ MoneyOK(r) /\ lapse' = lapse
        /\ Break(th, i) => Outcome(q, r, "done", q.good) /\ MoneyOK(r) /\ lapse' = TRUE
    BY <1>1, Ways
  <1>3. InFlight(q) = 0
    BY <1>1 DEF InFlight
  <1>4. ASSUME MoneyOK(r), r.cmd = q.cmd, StatusSame, GuildSame, ledger' = ledger, lapse' \in {lapse, TRUE}
        PROVE  WorkBooks(th, i)
    <2>1. InFlight(r) = 0
      BY <1>1, <1>4 DEF InFlight
    <2>2. QED
      BY <1>1, <1>3, <1>4, <2>1, BooksSame DEF WorkBooks
  <1>5. status' = status \/ \E g, p : UpdateStatusGuild(q.e, g, p)
    BY DEF InGuildApply, InGuildPos, InGuildQuit, tables
  <1>6. StatusSame
    <2>1. ASSUME NEW g, NEW p, UpdateStatusGuild(q.e, g, p) PROVE StatusSame
      <3> PICK row : row = [status[q.e] EXCEPT !.gid = g]
        OBVIOUS
      <3> PICK last : last = [row EXCEPT !.gpos = p]
        OBVIOUS
      <3>1. DOMAIN status = User /\ DOMAIN row = {"gid", "gpos", "gold"} /\ row.gold = status[q.e].gold
        BY <1>1 DEF StatusOK
      <3>2. last.gold = status[q.e].gold
        BY <3>1
      <3> PICK moved : moved = [status EXCEPT ![q.e] = row]
        OBVIOUS
      <3>3. DOMAIN moved = User /\ moved[q.e] = row /\ \A u \in User \ {q.e} : moved[u] = status[u]
        BY <1>1, <3>1
      <3>4. status' = [moved EXCEPT ![q.e].gpos = p]
        BY <1>1, <2>1, <3>1 DEF UpdateStatusGuild
      <3>5. status'[q.e] = last /\ \A u \in User \ {q.e} : status'[u] = status[u]
        BY <1>1, <3>3, <3>4
      <3>6. QED
        BY <3>2, <3>5 DEF StatusSame
    <2>2. QED
      BY <1>5, <2>1 DEF StatusSame
  <1>7. guild' = guild \/ \E offset : MayChange(q.g, offset, q.max) /\ GuildMemberChange(q.g, offset)
    BY DEF InGuildApply, InGuildPos, InGuildQuit, tables
  <1>8. GuildSame
    <2>1. ASSUME NEW offset, MayChange(q.g, offset, q.max), GuildMemberChange(q.g, offset) PROVE GuildSame
      <3>1. q.g \in User
        BY <1>1, <2>1 DEF MayChange, Exists
      <3> PICK row : row = [guild[q.g] EXCEPT !.total = @ + offset]
        OBVIOUS
      <3>2. row.gold = guild[q.g].gold /\ row.there = guild[q.g].there /\ row.glevel = guild[q.g].glevel
        BY <1>1, <3>1 DEF GuildOK
      <3>3. guild' = [guild EXCEPT ![q.g] = row]
        BY <1>1, <2>1, <3>1 DEF GuildMemberChange, GuildOK
      <3>4. \A g \in User : guild'[g] = IF g = q.g THEN row ELSE guild[g]
        BY <1>1, <3>1, <3>3 DEF GuildOK
      <3>5. QED
        BY <3>2, <3>4 DEF GuildSame
    <2>2. QED
      BY <1>7, <2>1 DEF GuildSame
  <1>9. ledger' = ledger
    BY DEF InGuildApply, InGuildPos, InGuildQuit, tables
  <1>10. \/ \E at : Go(th, i, at)
         \/ Succeed(th, i) \/ Refuse(th, i) \/ Break(th, i)
         \/ q.cmd = "gquit" /\ lapse' = lapse /\ \E v : Set(th, i, [q EXCEPT !.at = "leave", !.got = v])
    BY DEF InGuildApply, InGuildPos, InGuildQuit
  <1>11. MoneyOK(r) /\ r.cmd = q.cmd /\ lapse' \in {lapse, TRUE}
    <2>1. CASE \/ \E at : Go(th, i, at)
               \/ Succeed(th, i) \/ Refuse(th, i) \/ Break(th, i)
      BY <1>2, <2>1 DEF Outcome
    <2>2. ASSUME q.cmd = "gquit", lapse' = lapse, NEW v, Set(th, i, [q EXCEPT !.at = "leave", !.got = v])
          PROVE  MoneyOK(r) /\ r.cmd = q.cmd /\ lapse' \in {lapse, TRUE}
      <3>1. r = [q EXCEPT !.at = "leave", !.got = v]
        BY <2>2, SetIs
      <3>2. r.cmd = q.cmd
        BY <1>1, <3>1 DEF ReqOK, Fields
      <3>3. QED
        BY <2>2, <3>2 DEF MoneyOK
    <2>3. QED
      BY <1>10, <2>1, <2>2
  <1>12. QED
    BY <1>4, <1>6, <1>8, <1>9, <1>11

\* What is only read: a level is a number.
LEMMA ReadBooks ==
    ASSUME TInv, GuildMoney, ledger \in Int, NEW th \in Thread, NEW i \in 1 .. Len(queue[th]), NEW ok \in BOOLEAN,
           MoneyOK(queue[th][i]),
           \/ queue[th][i].cmd = "glv" /\ InGlv(th, i, ok)
           \/ queue[th][i].cmd = "login" /\ InLogin(th, i)
    PROVE  WorkBooks(th, i)
  <1> PICK q : q = queue[th][i]
    OBVIOUS
  <1> PICK r : r = queue'[th][i]
    OBVIOUS
  <1>1. /\ StatusOK /\ GuildOK /\ lapse \in BOOLEAN /\ q.e \in User /\ MoneyOK(q)
        /\ q.cmd \in {"glv", "login"} /\ q.g \in User \cup {NoGuild} /\ ReqOK(q)
    BY DEF TInv, QueueOK, ReqOK
  <1>2. StatusSame /\ GuildSame /\ ledger' = ledger /\ lapse' = lapse
    BY DEF InGlv, InLogin, Refuse, tables, StatusSame, GuildSame
  <1>3. InFlight(q) = 0
    BY <1>1 DEF InFlight
  <1>4. ASSUME MoneyOK(r), r.cmd = q.cmd PROVE WorkBooks(th, i)
    <2>1. InFlight(r) = 0
      BY <1>1, <1>4 DEF InFlight
    <2>2. QED
      BY <1>1, <1>2, <1>3, <1>4, <2>1, BooksSame DEF WorkBooks
  <1>5. CASE Refuse(th, i) /\ q.cmd = "glv"
    <2>1. Outcome(q, r, "done", q.good)
      BY <1>5, Outcomes
    <2>2. QED
      BY <1>1, <1>4, <1>5, <2>1 DEF Outcome, MoneyOK
  <1>6. CASE q.cmd = "glv" /\ ~Refuse(th, i)
    <2> PICK v : v = <<guild[q.g].glevel, guild[q.g].gold>>
      OBVIOUS
    <2>1. Exists(q.g) /\ Set(th, i, [q EXCEPT !.at = "done", !.good = TRUE, !.got = v])
      BY <1>6 DEF InGlv
    <2>2. r = [q EXCEPT !.at = "done", !.good = TRUE, !.got = v]
      BY <2>1, SetIs
    <2>3. r.cmd = q.cmd /\ r.got = v
      BY <1>1, <2>2 DEF ReqOK, Fields
    <2>4. v[1] \in Nat
      <3>1. q.g \in User
        BY <1>1, <2>1 DEF Exists
      <3>2. v[1] = guild[q.g].glevel
        OBVIOUS
      <3>3. QED
        BY <3>1, <3>2 DEF GuildMoney
    <2>5. MoneyOK(r)
      BY <1>6, <2>3, <2>4 DEF MoneyOK
    <2>6. QED
      BY <1>4, <2>3, <2>5
  <1>7. CASE q.cmd = "login"
    <2> PICK g : g = status[q.e].gid
      OBVIOUS
    <2> PICK l : l = IF Exists(g) THEN guild[g].glevel ELSE 0
      OBVIOUS
    <2> PICK v : v = <<g, status[q.e].gpos, status[q.e].gold, l>>
      OBVIOUS
    <2>1. Set(th, i, [q EXCEPT !.at = "done", !.good = TRUE, !.got = v])
      BY <1>7 DEF InLogin
    <2>2. r = [q EXCEPT !.at = "done", !.good = TRUE, !.got = v]
      BY <2>1, SetIs
    <2>3. r.cmd = q.cmd /\ r.got = v
      BY <1>1, <2>2 DEF ReqOK, Fields
    <2>4. l \in Nat
      <3>1. g \in User \cup {NoGuild}
        BY <1>1 DEF StatusOK
      <3>2. QED
        BY <3>1 DEF GuildMoney, Exists
    <2>5. v[4] = l
      OBVIOUS
    <2>6. MoneyOK(r)
      BY <1>7, <2>3, <2>4, <2>5 DEF MoneyOK
    <2>7. QED
      BY <1>4, <2>3, <2>6
  <1>8. QED
    BY <1>1, <1>5, <1>6, <1>7

LEMMA AllBooks ==
    ASSUME TInv, GuildMoney, ledger \in Int, NEW th \in Thread, NEW i \in 1 .. Len(queue[th]), NEW ok \in BOOLEAN,
           MoneyOK(queue[th][i]), Work(th, i, ok)
    PROVE  WorkBooks(th, i)
  BY CreateBooks, DepositBooks, BonusBooks, DeleteBooks, LevelupBooks, MemberBooks, ReadBooks DEF Work

----------------------------------------------------------------------------
(* The books as a whole                                                    *)

\* The request at this place, after the step.
Then(s) == queue'[s[1]][s[2]]

\* A worker changes the request it is at, and no other.
LEMMA WorkRequests ==
    ASSUME TInv, NEW th \in Thread, NEW i \in 1 .. Len(queue[th]), Current(th, i), threads' = threads,
           NEW to, MovedTo(th, i, to)
    PROVE  /\ Requests' = Requests /\ <<th, i>> \in Requests
           /\ At(<<th, i>>) = queue[th][i] /\ Then(<<th, i>>) = queue'[th][i]
           /\ \A s \in Requests \ {<<th, i>>} : Then(s) = At(s)
  <1>1. PICK r : Set(th, i, r) /\ Same(queue[th][i], r) /\ ReqOK(r)
    BY DEF MovedTo
  <1>2. /\ Len(queue'[th]) = Len(queue[th])
        /\ \A u \in Thread \ {th} : queue'[u] = queue[u]
        /\ \A j \in 1 .. Len(queue[th]) : queue'[th][j] = IF j = i THEN r ELSE queue[th][j]
    BY <1>1, SetQueue DEF TInv
  <1>3. Thread' = Thread
    BY DEF Thread
  <1>4. \A u \in Thread : Len(queue'[u]) = Len(queue[u])
    BY <1>2
  <1>5. Requests' = Requests
    <2>1. \A s : s \in Requests' <=> s \in Requests
      BY <1>3, <1>4, RequestIs, RequestNext
    <2>2. QED
      BY <2>1
  <1>6. <<th, i>> \in Requests
    BY RequestIs
  <1>7. ASSUME NEW s \in Requests \ {<<th, i>>} PROVE queue'[s[1]][s[2]] = queue[s[1]][s[2]]
    <2>1. PICK u \in Thread : \E j \in 1 .. Len(queue[u]) : s = <<u, j>>
      BY RequestIs
    <2>2. PICK j \in 1 .. Len(queue[u]) : s = <<u, j>>
      BY <2>1
    <2>3. u # th \/ j # i
      BY <2>2
    <2>4. queue'[u][j] = queue[u][j]
      BY <1>2, <2>3
    <2>5. QED
      BY <2>2, <2>4
  <1>8. QED
    BY <1>5, <1>6, <1>7 DEF At, Then

\* The request and the purse that change leave the books in order.
LEMMA BooksKeep ==
    ASSUME NEW A \in Int, NEW B \in Int, NEW l \in Int, NEW k \in Int, NEW a \in Int, NEW b \in Int,
           A + B <= l, a + b <= k - l
    PROVE  (A + a) + (B + b) <= k
  OBVIOUS

LEMMA BooksMatch ==
    ASSUME NEW A \in Int, NEW B \in Int, NEW l \in Int, NEW k \in Int, NEW a \in Int, NEW b \in Int,
           A + B = l, a + b = k - l
    PROVE  (A + a) + (B + b) = k
  OBVIOUS

LEMMA WorthInts == ASSUME StatusOK, GuildMoney PROVE Ints(Worth, User)
  BY DEF StatusOK, GuildMoney, Ints, Worth, Value

LEMMA LoadInts == ASSUME \A s \in Requests : MoneyOK(At(s)) PROVE Ints(Load, Requests)
  BY FlightInt DEF Ints, Load

LEMMA WorkGold ==
    ASSUME TInv, GInv, NEW th \in Thread, NEW i \in 1 .. Len(queue[th]), NEW ok \in BOOLEAN,
           Current(th, i), Work(th, i, ok), threads' = threads, map' = map
    PROVE  GInv'
  <1> PICK x : x = <<th, i>>
    OBVIOUS
  <1>1. (\E to : MovedTo(th, i, to)) /\ StatusOK'
    BY WorkType
  <1>2. /\ Requests' = Requests /\ x \in Requests /\ At(x) = queue[th][i] /\ Then(x) = queue'[th][i]
        /\ \A s \in Requests \ {x} : Then(s) = At(s)
    BY <1>1, WorkRequests
  <1>3. MoneyOK(At(x)) /\ GuildMoney /\ ledger \in Int /\ IsFiniteSet(Requests)
    BY <1>2 DEF GInv
  <1>4. Books(At(x), Then(x))
    BY <1>2, <1>3, AllBooks DEF WorkBooks
  <1>5. GuildMoney' /\ ledger' \in Int /\ (lapse => lapse') /\ MoneyOK(Then(x))
    BY <1>4 DEF Books
  <1>6. \A s \in Requests' : MoneyOK(Then(s))
    BY <1>2, <1>5 DEF GInv
  <1>7. PICK u \in User : /\ \A e \in User \ {u} : Value(e)' = Value(e)
                          /\ Gain(u, At(x), Then(x)) <= ledger' - ledger
                          /\ lapse' \/ Gain(u, At(x), Then(x)) = ledger' - ledger
    BY <1>4 DEF Books
  <1>8. Ints(Worth, User) /\ Ints(Worth', User)
    <2>1. Ints(Worth', User)
      BY <1>1, <1>5 DEF StatusOK, GuildMoney, Ints, Worth, Value
    <2>2. QED
      BY <1>3, <2>1, WorthInts DEF TInv
  <1>9. Ints(Load, Requests) /\ Ints(Load', Requests)
    <2>1. \A s \in Requests : Load'[s] = InFlight(Then(s))
      BY <1>2 DEF Load, At, Then
    <2>2. \A s \in Requests : InFlight(Then(s)) \in Int
      BY <1>2, <1>6, FlightInt
    <2>3. QED
      BY <2>1, <2>2, LoadInts DEF Ints, GInv
  <1>10. PICK A \in Int : A = SumOf(Worth, User)
    BY <1>8, SumInt, GuildAssumption
  <1>11. PICK B \in Int : B = SumOf(Load, Requests)
    BY <1>3, <1>9, SumInt
  <1>12. PICK a \in Int : a = Value(u)' - Value(u) /\ a = Worth'[u] - Worth[u]
    <2>1. Worth[u] = Value(u) /\ Worth'[u] = Value(u)'
      BY DEF Worth
    <2>2. Worth[u] \in Int /\ Worth'[u] \in Int
      BY <1>8 DEF Ints
    <2>3. QED
      BY <2>1, <2>2
  <1>13. PICK b \in Int : b = InFlight(Then(x)) - InFlight(At(x)) /\ b = Load'[x] - Load[x]
    <2>1. Load[x] = InFlight(At(x)) /\ Load'[x] = InFlight(Then(x))
      BY <1>2 DEF Load, At, Then
    <2>2. Load[x] \in Int /\ Load'[x] \in Int
      BY <1>2, <1>9 DEF Ints
    <2>3. QED
      BY <2>1, <2>2
  <1>14. SumOf(Worth', User) = A + a
    <2>1. SumOf(Worth', User) = SumOf(Worth, User) + Worth'[u] - Worth[u]
      <3>1. \A e \in User \ {u} : Worth[e] = Worth'[e]
        BY <1>7 DEF Worth
      <3>2. IsFiniteSet(User)
        BY GuildAssumption
      <3>3. PICK f : f = Worth
        OBVIOUS
      <3>4. PICK g : g = Worth'
        OBVIOUS
      <3>5. Ints(f, User) /\ Ints(g, User) /\ \A e \in User \ {u} : f[e] = g[e]
        BY <1>8, <3>1, <3>3, <3>4
      <3>6. SumOf(g, User) = SumOf(f, User) + g[u] - f[u]
        BY <3>2, <3>5, SumOne
      <3>7. QED
        BY <3>3, <3>4, <3>6
    <2>2. Worth[u] \in Int /\ Worth'[u] \in Int
      BY <1>8 DEF Ints
    <2>3. QED
      BY <1>10, <1>12, <2>1, <2>2
  <1>15. SumOf(Load', Requests) = B + b
    <2>1. SumOf(Load', Requests) = SumOf(Load, Requests) + Load'[x] - Load[x]
      <3>1. \A s \in Requests \ {x} : Load[s] = Load'[s]
        BY <1>2 DEF Load, At, Then
      <3>2. QED
        BY <1>2, <1>3, <1>9, <3>1, SumOne
    <2>2. Load[x] \in Int /\ Load'[x] \in Int
      BY <1>2, <1>9 DEF Ints
    <2>3. QED
      BY <1>11, <1>13, <2>1, <2>2
  <1>16. AllGold = A + B /\ AllGold' = (A + a) + (B + b)
    BY <1>2, <1>10, <1>11, <1>14, <1>15 DEF AllGold
  <1>17. a + b <= ledger' - ledger /\ (lapse' \/ a + b = ledger' - ledger)
    BY <1>7, <1>12, <1>13 DEF Gain
  <1>18. A + B <= ledger /\ (lapse \/ A + B = ledger)
    BY <1>16 DEF GInv
  <1>19. AllGold' <= ledger'
    BY <1>3, <1>5, <1>16, <1>17, <1>18, BooksKeep
  <1>20. lapse' \/ AllGold' = ledger'
    <2>1. CASE lapse'
      BY <2>1
    <2>2. CASE ~lapse'
      <3>1. A + B = ledger /\ a + b = ledger' - ledger
        BY <1>5, <1>17, <1>18, <2>2
      <3>2. PICK l \in Int : l = ledger
        BY <1>3
      <3>4. PICK k \in Int : k = ledger'
        BY <1>5
      <3>5. A + B = l /\ a + b = k - l
        BY <3>1, <3>2, <3>4
      <3>6. (A + a) + (B + b) = k
        BY <3>5, BooksMatch
      <3>3. QED
        BY <1>16, <3>4, <3>6
    <2>3. QED
      BY <2>1, <2>2
  <1>21. LevelsOK(map')
    BY DEF GInv
  <1>22. QED
    BY <1>2, <1>3, <1>5, <1>6, <1>19, <1>20, <1>21 DEF GInv, At, Then

\* The main loop leaves the tables alone: only the requests count.
LEMMA MainGold ==
    ASSUME GInv, UNCHANGED <<status, guild, ledger>>, lapse => lapse', IsFiniteSet(Requests'),
           \A s \in Requests' : MoneyOK(Then(s)), LevelsOK(map'), SumOf(Load', Requests') = SumOf(Load, Requests)
    PROVE  GInv'
  <1>1. Worth' = Worth
    BY DEF Worth, Value
  <1>2. AllGold' = AllGold
    BY <1>1 DEF AllGold
  <1>3. GuildMoney'
    BY DEF GInv, GuildMoney
  <1>4. AllGold' <= ledger' /\ (lapse' \/ AllGold' = ledger') /\ ledger' \in Int
    BY <1>2 DEF GInv
  <1>5. QED
    BY <1>3, <1>4 DEF GInv, At, Then

\* A new request carries nothing yet.
LEMMA NewFlight == ASSUME NEW q, q.at = "new" PROVE InFlight(q) = 0
  BY DEF InFlight

LEMMA AddGold ==
    ASSUME TInv, GInv, NEW th \in Thread, NEW r, ReqOK(r), r.at = "new", MoneyOK(r),
           r.cmd = "bonus" => th = r.e % threads, threads' = threads,
           queue' = [queue EXCEPT ![th] = Append(@, r)],
           UNCHANGED <<status, guild, ledger, lapse>>, LevelsOK(map')
    PROVE  GInv'
  <1>1. /\ Len(queue'[th]) = Len(queue[th]) + 1 /\ queue'[th][Len(queue[th]) + 1] = r
        /\ \A u \in Thread \ {th} : queue'[u] = queue[u]
        /\ \A j \in 1 .. Len(queue[th]) : queue'[th][j] = queue[th][j]
    BY AddQueue DEF TInv
  <1>2. Thread' = Thread
    BY DEF Thread
  <1>3. PICK l \in Nat : l = Len(queue[th])
    BY DEF TInv, QueueOK
  <1>4. PICK x : x = <<th, l + 1>>
    OBVIOUS
  <1>5. \A j : j \in 1 .. l + 1 <=> j \in 1 .. l \/ j = l + 1
    BY <1>3
  <1>6. x \notin Requests
    <2>1. ASSUME NEW u \in Thread, NEW j \in 1 .. Len(queue[u]), x = <<u, j>> PROVE FALSE
      BY <1>3, <1>4, <2>1
    <2>2. QED
      BY <2>1, RequestIs
  <1>7. Requests' = Requests \cup {x}
    <2>1. ASSUME NEW s \in Requests' PROVE s \in Requests \cup {x}
      <3>1. PICK u \in Thread : \E j \in 1 .. Len(queue'[u]) : s = <<u, j>>
        BY <1>2, RequestNext
      <3>2. PICK j \in 1 .. Len(queue'[u]) : s = <<u, j>>
        BY <3>1
      <3>3. CASE u = th
        BY <1>1, <1>3, <1>4, <1>5, <3>2, <3>3, RequestIs
      <3>4. CASE u # th
        BY <1>1, <3>2, <3>4, RequestIs
      <3>5. QED
        BY <3>3, <3>4
    <2>2. ASSUME NEW s \in Requests PROVE s \in Requests'
      <3>1. PICK u \in Thread : \E j \in 1 .. Len(queue[u]) : s = <<u, j>>
        BY RequestIs
      <3>2. PICK j \in 1 .. Len(queue[u]) : s = <<u, j>>
        BY <3>1
      <3>3. j \in 1 .. Len(queue'[u])
        BY <1>1, <1>3, <1>5, <3>2
      <3>4. QED
        BY <1>2, <3>2, <3>3, RequestNext
    <2>3. x \in Requests'
      <3>1. l + 1 \in 1 .. Len(queue'[th])
        BY <1>1, <1>3, <1>5
      <3>2. QED
        BY <1>2, <1>4, <3>1, RequestNext
    <2>4. QED
      BY <2>1, <2>2, <2>3
  <1>8. Then(x) = r
    BY <1>1, <1>3, <1>4 DEF Then
  <1>9. \A s \in Requests : Then(s) = At(s)
    <2>1. ASSUME NEW s \in Requests PROVE Then(s) = At(s)
      <3>1. PICK u \in Thread : \E j \in 1 .. Len(queue[u]) : s = <<u, j>>
        BY RequestIs
      <3>2. PICK j \in 1 .. Len(queue[u]) : s = <<u, j>>
        BY <3>1
      <3>3. queue'[u][j] = queue[u][j]
        BY <1>1, <3>2
      <3>4. QED
        BY <3>2, <3>3 DEF At, Then
    <2>2. QED
      BY <2>1
  <1>10. IsFiniteSet(Requests) /\ IsFiniteSet(Requests')
    <2>1. IsFiniteSet(Requests)
      BY DEF GInv
    <2>2. PICK R : R = Requests
      OBVIOUS
    <2>3. IsFiniteSet(R \cup {x})
      BY <2>1, <2>2, FS_AddElement
    <2>4. QED
      BY <1>7, <2>1, <2>2, <2>3
  <1>11. \A s \in Requests' : MoneyOK(Then(s)) /\ InFlight(Then(s)) \in Int
    <2>1. \A s \in Requests' : MoneyOK(Then(s))
      BY <1>7, <1>8, <1>9 DEF GInv
    <2>2. QED
      BY <2>1, FlightInt
  <1>12. PICK f : f = Load'
    OBVIOUS
  <1>13. \A s \in Requests' : f[s] = InFlight(Then(s))
    BY <1>12 DEF Load, At, Then
  <1>14. Ints(f, Requests') /\ Ints(f, Requests)
    BY <1>7, <1>11, <1>13 DEF Ints
  <1>15. SumOf(f, Requests') = SumOf(f, Requests)
    <2>1. f[x] = 0 /\ x \in Requests'
      BY <1>7, <1>8, <1>13, NewFlight
    <2>2. SumOf(f, Requests') = SumOf(f, Requests' \ {x})
      BY <1>10, <1>14, <2>1, SumZero
    <2>3. Requests' \ {x} = Requests
      BY <1>6, <1>7
    <2>4. QED
      BY <2>2, <2>3
  <1>16. SumOf(f, Requests) = SumOf(Load, Requests)
    <2>1. \A s \in Requests : f[s] = Load[s]
      BY <1>7, <1>9, <1>13 DEF Load
    <2>2. Ints(Load, Requests)
      BY LoadInts DEF GInv
    <2>3. QED
      BY <1>10, <2>1, <2>2, SumSame
  <1>17. SumOf(Load', Requests') = SumOf(Load, Requests)
    BY <1>12, <1>15, <1>16
  <1>18. QED
    BY <1>10, <1>11, <1>17, MainGold

\* An answered request carries nothing any more.
LEMMA DoneFlight == ASSUME NEW q, q.at = "done" PROVE InFlight(q) = 0
  BY DEF InFlight

LEMMA TailGold ==
    ASSUME TInv, GInv, NEW th \in Thread, queue[th] # <<>>, Head(queue[th]).at = "done", threads' = threads,
           queue' = [queue EXCEPT ![th] = Tail(@)],
           UNCHANGED <<status, guild, ledger>>, lapse => lapse', LevelsOK(map')
    PROVE  GInv'
  <1>1. /\ Len(queue'[th]) + 1 = Len(queue[th]) /\ QueueOK'
        /\ \A u \in Thread \ {th} : queue'[u] = queue[u]
        /\ \A j \in 1 .. Len(queue'[th]) : queue'[th][j] = queue[th][j + 1]
    BY TailQueue DEF TInv
  <1>2. Thread' = Thread
    BY DEF Thread
  <1>3. PICK l \in Nat : l = Len(queue'[th]) /\ l + 1 = Len(queue[th])
    <2>1. PICK S : queue'[th] \in Seq(S)
      BY <1>1, <1>2 DEF QueueOK
    <2>2. QED
      BY <1>1, <2>1
  <1>4. PICK x : x = <<th, 1>>
    OBVIOUS
  <1>5. /\ \A j \in 1 .. l : j \in 1 .. l + 1 /\ j + 1 \in 1 .. l + 1 /\ j + 1 # 1
        /\ \A j \in 1 .. l + 1 : j # 1 => j - 1 \in 1 .. l /\ (j - 1) + 1 = j
        /\ 1 \in 1 .. l + 1
    BY <1>3
  <1>6. \A s \in Requests' : s \in Requests
    <2>1. ASSUME NEW s \in Requests' PROVE s \in Requests
      <3>1. PICK u \in Thread : \E j \in 1 .. Len(queue'[u]) : s = <<u, j>>
        BY <1>2, RequestNext
      <3>2. PICK j \in 1 .. Len(queue'[u]) : s = <<u, j>>
        BY <3>1
      <3>3. j \in 1 .. Len(queue[u])
        BY <1>1, <1>3, <1>5, <3>2
      <3>4. QED
        BY <3>2, <3>3, RequestIs
    <2>2. QED
      BY <2>1
  <1>7. IsFiniteSet(Requests) /\ IsFiniteSet(Requests')
    <2>1. IsFiniteSet(Requests)
      BY DEF GInv
    <2>2. Requests' \subseteq Requests
      BY <1>6
    <2>3. QED
      BY <2>1, <2>2, FS_Subset
  <1>8. x \in Requests /\ Load[x] = 0
    <2>1. queue[th][1] = Head(queue[th]) /\ 1 \in 1 .. Len(queue[th])
      BY <1>3, <1>5 DEF TInv, QueueOK
    <2>2. x \in Requests /\ At(x) = Head(queue[th])
      BY <1>4, <2>1, RequestIs DEF At
    <2>3. QED
      BY <2>2, DoneFlight DEF Load
  <1>9. PICK R : R = Requests'
    OBVIOUS
  <1>10. PICK T : T = Requests \ {x}
    OBVIOUS
  <1>11. PICK h : h = [s \in R |-> IF s[1] = th THEN <<th, s[2] + 1>> ELSE s]
    OBVIOUS
  <1>12. \A u \in Thread : \A j : <<u, j>> \in R <=> j \in 1 .. Len(queue'[u])
    BY <1>2, <1>9, RequestNext
  <1>13. \A u \in Thread : \A j : <<u, j>> \in Requests <=> j \in 1 .. Len(queue[u])
    BY RequestIs
  <1>14. /\ \A s \in R : \E u \in Thread : \E j \in 1 .. Len(queue'[u]) : s = <<u, j>>
         /\ \A s \in Requests : \E u \in Thread : \E j \in 1 .. Len(queue[u]) : s = <<u, j>>
    BY <1>2, <1>9, RequestIs, RequestNext
  <1>15. /\ \A j \in 1 .. l : h[<<th, j>>] = <<th, j + 1>>
         /\ \A u \in Thread \ {th} : \A j \in 1 .. Len(queue[u]) : h[<<u, j>>] = <<u, j>>
    BY <1>1, <1>3, <1>11, <1>12
  <1>16. \A s \in R : h[s] \in T /\ Then(s) = At(h[s])
    <2>1. ASSUME NEW s \in R PROVE h[s] \in T /\ Then(s) = At(h[s])
      <3>1. PICK u \in Thread : \E j \in 1 .. Len(queue'[u]) : s = <<u, j>>
        BY <1>14
      <3>2. PICK j \in 1 .. Len(queue'[u]) : s = <<u, j>>
        BY <3>1
      <3>3. CASE u = th
        <4>1. h[s] = <<th, j + 1>> /\ j + 1 \in 1 .. Len(queue[th]) /\ j + 1 # 1
          BY <1>3, <1>5, <1>15, <3>2, <3>3
        <4>2. h[s] \in Requests /\ h[s] # x
          BY <1>4, <1>13, <4>1
        <4>3. queue'[th][j] = queue[th][j + 1]
          BY <1>1, <3>2, <3>3
        <4>4. QED
          BY <1>10, <3>2, <3>3, <4>1, <4>2, <4>3 DEF At, Then
      <3>4. CASE u # th
        <4>1. h[s] = s /\ s \in Requests /\ queue'[u] = queue[u]
          BY <1>1, <1>13, <1>15, <3>2, <3>4
        <4>2. s # x
          BY <1>4, <3>2, <3>4
        <4>3. h[s] \in T
          BY <1>10, <4>1, <4>2
        <4>4. At(s) = queue[u][j] /\ Then(s) = queue'[u][j]
          BY <3>2 DEF At, Then
        <4>5. At(h[s]) = At(s) /\ Then(s) = At(s)
          BY <4>1, <4>4
        <4>6. QED
          BY <4>3, <4>5
      <3>5. QED
        BY <3>3, <3>4
    <2>2. QED
      BY <2>1
  <1>17. \A s \in R : \A t \in R : h[s] = h[t] => s = t
    <2>1. ASSUME NEW s \in R, NEW t \in R, h[s] = h[t] PROVE s = t
      <3>1. PICK u \in Thread : \E j \in 1 .. Len(queue'[u]) : s = <<u, j>>
        BY <1>14
      <3>2. PICK j \in 1 .. Len(queue'[u]) : s = <<u, j>>
        BY <3>1
      <3>3. PICK v \in Thread : \E k \in 1 .. Len(queue'[v]) : t = <<v, k>>
        BY <1>14
      <3>4. PICK k \in 1 .. Len(queue'[v]) : t = <<v, k>>
        BY <3>3
      <3>5. PICK a : h[s] = <<u, a>> /\ a = IF u = th THEN j + 1 ELSE j
        BY <1>1, <1>3, <1>15, <3>2
      <3>11. PICK b : h[t] = <<v, b>> /\ b = IF v = th THEN k + 1 ELSE k
        BY <1>1, <1>3, <1>15, <3>4
      <3>12. <<u, a>> = <<v, b>>
        BY <2>1, <3>5, <3>11
      <3>6. u = v /\ a = b
        BY <3>12
      <3>7. u = th => j + 1 = k + 1 /\ j \in Int /\ k \in Int
        BY <3>2, <3>4, <3>5, <3>6, <3>11
      <3>8. u # th => j = k
        BY <3>5, <3>6, <3>11
      <3>9. j = k
        BY <3>7, <3>8
      <3>10. QED
        BY <3>2, <3>4, <3>6, <3>9
    <2>2. QED
      BY <2>1
  <1>18. \A z \in T : \E s \in R : h[s] = z
    <2>1. ASSUME NEW z \in T PROVE \E s \in R : h[s] = z
      <3>1. PICK u \in Thread : \E j \in 1 .. Len(queue[u]) : z = <<u, j>>
        BY <1>10, <1>14
      <3>2. PICK j \in 1 .. Len(queue[u]) : z = <<u, j>>
        BY <3>1
      <3>3. CASE u = th
        <4>1. j # 1
          BY <1>4, <1>10, <3>2, <3>3
        <4>2. j - 1 \in 1 .. l /\ (j - 1) + 1 = j
          BY <1>3, <1>5, <3>2, <3>3, <4>1
        <4>3. <<th, j - 1>> \in R /\ h[<<th, j - 1>>] = z
          BY <1>3, <1>12, <1>15, <3>2, <3>3, <4>2
        <4>4. QED
          BY <4>3
      <3>4. CASE u # th
        <4>1. z \in R /\ h[z] = z
          BY <1>1, <1>12, <1>15, <3>2, <3>4
        <4>2. QED
          BY <4>1
      <3>5. QED
        BY <3>3, <3>4
    <2>2. QED
      BY <2>1
  <1>19. PICK f : f = Load'
    OBVIOUS
  <1>20. \A s \in R : f[s] = InFlight(Then(s))
    BY <1>9, <1>19 DEF Load, At, Then
  <1>21. Ints(Load, Requests)
    BY LoadInts DEF GInv
  <1>22. SumOf(f, R) = SumOf(Load, T)
    <2>1. IsFiniteSet(R) /\ IsFiniteSet(T) /\ Ints(Load, T)
      BY <1>7, <1>9, <1>10, <1>21, FS_Subset DEF Ints
    <2>2. \A s \in R : h[s] \in T /\ f[s] = Load[h[s]]
      BY <1>10, <1>16, <1>20 DEF Load
    <2>3. QED
      BY <1>17, <1>18, <2>1, <2>2, SumMoved
  <1>23. SumOf(Load, Requests) = SumOf(Load, T)
    BY <1>7, <1>8, <1>10, <1>21, SumZero
  <1>24. \A s \in R : MoneyOK(Then(s))
    BY <1>10, <1>16 DEF GInv
  <1>25. QED
    BY <1>7, <1>9, <1>19, <1>22, <1>23, <1>24, MainGold

----------------------------------------------------------------------------
(* The levels that g_guild_map has                                         *)

LEMMA LevelPut ==
    ASSUME NEW m, MapShape(m), LevelsOK(m), NEW g, NEW v \in Nat, NEW w, NEW M
    PROVE  /\ LevelsOK([m EXCEPT ![g].glevel = v]) /\ LevelsOK([m EXCEPT ![g].gold = w])
           /\ LevelsOK([m EXCEPT ![g].mem = M]) /\ LevelsOK([m EXCEPT ![g] = NotLoaded])
  <1>1. ASSUME NEW row, row.glevel = v \/ row.glevel = m[g].glevel \/ row.glevel = 0
        PROVE  LevelsOK([m EXCEPT ![g] = row])
    <2>1. PICK d : d = [m EXCEPT ![g] = row]
      OBVIOUS
    <2>2. \A h \in User : d[h] = IF h = g THEN row ELSE m[h]
      BY <2>1 DEF MapShape
    <2>3. LevelsOK(d)
      BY <1>1, <2>2 DEF LevelsOK
    <2>4. QED
      BY <2>1, <2>3
  <1>2. LevelsOK([m EXCEPT ![g].glevel = v])
    <2>1. PICK row : row = [m[g] EXCEPT !.glevel = v]
      OBVIOUS
    <2>2. CASE g \in User
      <3>1. row.glevel = v
        BY <2>1, <2>2 DEF MapShape
      <3>2. LevelsOK([m EXCEPT ![g] = row])
        BY <1>1, <3>1
      <3>3. QED
        BY <2>1, <3>2
    <2>3. CASE g \notin User
      <3>1. PICK d : d = [m EXCEPT ![g].glevel = v]
        OBVIOUS
      <3>2. \A h \in User : d[h] = m[h]
        BY <2>3, <3>1 DEF MapShape
      <3>3. LevelsOK(d)
        BY <3>2 DEF LevelsOK
      <3>4. QED
        BY <3>1, <3>3
    <2>4. QED
      BY <2>2, <2>3
  <1>3. LevelsOK([m EXCEPT ![g].gold = w])
    <2>1. PICK row : row = [m[g] EXCEPT !.gold = w]
      OBVIOUS
    <2>2. row.glevel = m[g].glevel \/ g \notin User
      BY <2>1 DEF MapShape
    <2>3. PICK d : d = [m EXCEPT ![g].gold = w]
      OBVIOUS
    <2>4. \A h \in User : d[h] = IF h = g THEN row ELSE m[h]
      BY <2>1, <2>3 DEF MapShape
    <2>5. LevelsOK(d)
      BY <2>2, <2>4 DEF LevelsOK
    <2>6. QED
      BY <2>3, <2>5
  <1>4. LevelsOK([m EXCEPT ![g].mem = M])
    <2>1. PICK row : row = [m[g] EXCEPT !.mem = M]
      OBVIOUS
    <2>2. row.glevel = m[g].glevel \/ g \notin User
      BY <2>1 DEF MapShape
    <2>3. PICK d : d = [m EXCEPT ![g].mem = M]
      OBVIOUS
    <2>4. \A h \in User : d[h] = IF h = g THEN row ELSE m[h]
      BY <2>1, <2>3 DEF MapShape
    <2>5. LevelsOK(d)
      BY <2>2, <2>4 DEF LevelsOK
    <2>6. QED
      BY <2>3, <2>5
  <1>5. LevelsOK([m EXCEPT ![g] = NotLoaded])
    <2>1. NotLoaded.glevel = 0
      BY DEF NotLoaded
    <2>2. QED
      BY <1>1, <2>1
  <1>6. QED
    BY <1>2, <1>3, <1>4, <1>5

LEMMA ListLevels ==
    ASSUME NEW m, MapShape(m), LevelsOK(m), NEW g, NEW e
    PROVE  LevelsOK(GidAddEid(m, g, e)) /\ LevelsOK(GidDelEid(m, g, e))
  <1>1. LevelsOK([m EXCEPT ![g].mem = m[g].mem \cup {e}])
    BY LevelPut
  <1>2. LevelsOK([m EXCEPT ![g].mem = m[g].mem \ {e}])
    BY LevelPut
  <1>3. LevelsOK([m EXCEPT ![g] = NotLoaded])
    BY LevelPut
  <1>4. QED
    BY <1>1, <1>2, <1>3 DEF GidAddEid, GidDelEid

LEMMA ReplyLevels ==
    ASSUME TInv, GInv, MapShape(map), NEW th \in Thread, Dbout(th)
    PROVE  LevelsOK(map')
  <1> PICK q : q = Head(queue[th])
    OBVIOUS
  <1>1. ReqOK(q) /\ q.at = "done" /\ MoneyOK(q)
    <2>1. 1 \in 1 .. Len(queue[th]) /\ q = queue[th][1]
      BY DEF TInv, QueueOK, Dbout
    <2>2. <<th, 1>> \in Requests /\ At(<<th, 1>>) = q
      BY <2>1, RequestIs DEF At
    <2>3. QED
      BY <2>1, <2>2 DEF TInv, QueueOK, Dbout, GInv
  <1>2. PICK c : \/ map' = map
                 \/ OutCreateGuild(q, c) \/ OutDeleteGuild(q, c) \/ OutGapply(q, c) \/ OutGpos(q, c)
                 \/ OutGquit(q, c) \/ OutGdeposit(q, c) \/ OutGbonus(q, c)
                 \/ (q.good /\ q.cmd = "glv" /\ OutGlv(q, c))
                 \/ (q.cmd = "glevelup" /\ OutGlevelup(q, c)) \/ (q.cmd = "login" /\ OutLogin(q, c))
    BY DEF Dbout
  <1>3. LevelsOK(map)
    BY DEF GInv
  <1>4. CASE \/ OutGapply(q, c) \/ OutGdeposit(q, c) \/ OutGbonus(q, c) \/ map' = map
    BY <1>3, <1>4 DEF OutGapply, OutGdeposit, OutGbonus
  <1>5. CASE OutCreateGuild(q, c) \/ OutGpos(q, c) \/ OutGquit(q, c)
    <2>1. PICK e : map' = map \/ map' = GidAddEid(map, q.g, e) \/ map' = GidDelEid(map, q.g, e)
      BY <1>5 DEF OutCreateGuild, OutGpos, OutGquit
    <2>2. QED
      BY <1>3, <2>1, ListLevels
  <1>6. CASE OutDeleteGuild(q, c)
    <2>1. map' = map \/ map' = [map EXCEPT ![q.g] = NotLoaded]
      BY <1>6 DEF OutDeleteGuild
    <2>2. LevelsOK([map EXCEPT ![q.g] = NotLoaded])
      BY <1>3, LevelPut
    <2>3. QED
      BY <1>3, <2>1, <2>2
  <1>7. ASSUME NEW v \in Nat, NEW w, NEW m, m = [map EXCEPT ![q.g].glevel = v], map' = [m EXCEPT ![q.g].gold = w]
        PROVE  LevelsOK(map')
    <2>1. MapShape(m)
      <3>1. MemSame(map, [map EXCEPT ![q.g].glevel = v])
        BY MapLevel
      <3>2. QED
        BY <1>7, <3>1 DEF MemSame
    <2>2. LevelsOK(m)
      <3>1. LevelsOK([map EXCEPT ![q.g].glevel = v])
        BY <1>3, LevelPut
      <3>2. QED
        BY <1>7, <3>1
    <2>3. LevelsOK([m EXCEPT ![q.g].gold = w])
      BY <2>1, <2>2, LevelPut
    <2>4. QED
      BY <1>7, <2>3
  <1>8. CASE q.good /\ q.cmd = "glv" /\ OutGlv(q, c)
    <2>1. PICK v \in Nat : v = q.got[1]
      BY <1>1, <1>8 DEF MoneyOK
    <2>2. PICK m : m = [map EXCEPT ![q.g].glevel = v]
      OBVIOUS
    <2>3. map' = [m EXCEPT ![q.g].gold = q.got[2]]
      BY <1>8, <2>1, <2>2 DEF OutGlv
    <2>4. QED
      BY <1>7, <2>2, <2>3
  <1>9. CASE q.cmd = "glevelup" /\ OutGlevelup(q, c)
    <2>1. q.x + 1 \in Nat
      BY <1>1, <1>9, LevelRange DEF MoneyOK
    <2>2. PICK m : m = [map EXCEPT ![q.g].glevel = q.x + 1]
      OBVIOUS
    <2>3. map' = [m EXCEPT ![q.g].gold = m[q.g].gold - LevelUpGold[q.x]]
      BY <1>9, <2>2 DEF OutGlevelup
    <2>4. QED
      BY <1>7, <2>1, <2>2, <2>3
  <1>10. CASE q.cmd = "login" /\ OutLogin(q, c)
    <2> PICK g \in User \cup {NoGuild} : g = q.got[1]
      BY <1>1, <1>10 DEF ReqOK
    <2> PICK v \in Nat : v = q.got[4]
      BY <1>1, <1>10 DEF MoneyOK
    <2> PICK m : m = GidAddEid(map, g, q.e)
      OBVIOUS
    <2>1. MapShape(m)
      BY AddIs DEF Added
    <2>2. LevelsOK(m)
      BY <1>3, ListLevels
    <2>3. LevelsOK([m EXCEPT ![g].glevel = v])
      BY <2>1, <2>2, LevelPut
    <2>4. map' = map \/ map' = [m EXCEPT ![g].glevel = v]
      BY <1>10 DEF OutLogin
    <2>5. QED
      BY <1>3, <2>3, <2>4
  <1>11. QED
    BY <1>2, <1>4, <1>5, <1>6, <1>8, <1>9, <1>10

----------------------------------------------------------------------------
(* The main loop, and time, for the books                                  *)

LEMMA StillGold ==
    ASSUME GInv, UNCHANGED <<threads, queue, status, guild, ledger, map, lapse>>
    PROVE  GInv'
  <1>1. Requests' = Requests /\ \A s : Then(s) = At(s)
    BY DEF Requests, Thread, At, Then
  <1>2. SumOf(Load', Requests') = SumOf(Load, Requests)
    <2>1. Load' = Load
      BY <1>1 DEF Load, At
    <2>2. QED
      BY <1>1, <2>1
  <1>3. LevelsOK(map') /\ IsFiniteSet(Requests')
    BY <1>1 DEF GInv
  <1>4. \A s \in Requests' : MoneyOK(Then(s))
    BY <1>1 DEF GInv
  <1>5. QED
    BY <1>2, <1>3, <1>4, MainGold

\* A request that nobody will hear the answer of carries what it did.
LEMMA CleanGold ==
    ASSUME TInv, GInv, MapShape(map), NEW e \in User, DoClean(e)
    PROVE  GInv'
  <1>1. /\ map' = GuildClean(map, e) /\ threads' = threads /\ lapse' = lapse
        /\ queue' = [th \in Thread |-> [i \in 1 .. Len(queue[th]) |-> Unasked(queue[th][i], e)]]
        /\ UNCHANGED <<status, guild, ledger>>
    BY DEF DoClean, Unasked, tables, bounds
  <1>2. Thread' = Thread
    BY <1>1 DEF Thread
  <1>3. ASSUME NEW u \in Thread
        PROVE  Len(queue'[u]) = Len(queue[u]) /\ \A j \in 1 .. Len(queue[u]) : queue'[u][j] = Unasked(queue[u][j], e)
    <2>1. PICK l \in Nat : l = Len(queue[u])
      BY DEF TInv, QueueOK
    <2>2. queue'[u] = [i \in 1 .. l |-> Unasked(queue[u][i], e)]
      BY <1>1, <2>1
    <2>3. Len(queue'[u]) = l
      BY <2>2
    <2>4. QED
      BY <2>1, <2>2, <2>3
  <1>4. Requests' = Requests
    <2>1. \A s : s \in Requests' <=> s \in Requests
      BY <1>2, <1>3, RequestIs, RequestNext
    <2>2. QED
      BY <2>1
  <1>5. ASSUME NEW s \in Requests PROVE MoneyOK(Then(s)) /\ InFlight(Then(s)) = InFlight(At(s))
    <2>1. PICK u \in Thread : \E j \in 1 .. Len(queue[u]) : s = <<u, j>>
      BY RequestIs
    <2>2. PICK j \in 1 .. Len(queue[u]) : s = <<u, j>>
      BY <2>1
    <2>3. PICK q : q = queue[u][j]
      OBVIOUS
    <2>4. PICK r : r = queue'[u][j]
      OBVIOUS
    <2>5. r = Unasked(q, e) /\ DOMAIN q = Fields
      BY <1>3, <2>2, <2>3, <2>4 DEF TInv, QueueOK, ReqOK
    <2>6. /\ r.cmd = q.cmd /\ r.g = q.g /\ r.x = q.x /\ r.at = q.at /\ r.good = q.good /\ r.got = q.got
      BY <2>5 DEF Unasked, Fields
    <2>7. At(s) = q /\ Then(s) = r
      BY <2>2, <2>3, <2>4 DEF At, Then
    <2>8. MoneyOK(q)
      BY <2>7 DEF GInv
    <2>9. MoneyOK(r) /\ InFlight(r) = InFlight(q)
      BY <2>6, <2>8 DEF MoneyOK, InFlight
    <2>10. QED
      BY <2>7, <2>9
  <1>6. SumOf(Load', Requests') = SumOf(Load, Requests)
    <2>1. PICK f : f = Load'
      OBVIOUS
    <2>2. \A s \in Requests : f[s] = InFlight(Then(s))
      BY <1>4, <2>1 DEF Load, At, Then
    <2>3. \A s \in Requests : f[s] = Load[s]
      BY <1>5, <2>2 DEF Load
    <2>4. Ints(Load, Requests) /\ IsFiniteSet(Requests)
      BY LoadInts DEF GInv
    <2>5. SumOf(f, Requests) = SumOf(Load, Requests)
      BY <2>3, <2>4, SumSame
    <2>6. QED
      BY <1>4, <2>1, <2>5
  <1>7. LevelsOK(map')
    <2>1. map' = map \/ map' = GidDelEid(map, conn[e].gid, e)
      BY <1>1 DEF GuildClean
    <2>2. LevelsOK(map) /\ LevelsOK(GidDelEid(map, conn[e].gid, e))
      BY ListLevels DEF GInv
    <2>3. QED
      BY <2>1, <2>2
  <1>8. IsFiniteSet(Requests') /\ \A s \in Requests' : MoneyOK(Then(s))
    BY <1>4, <1>5 DEF GInv
  <1>9. QED
    BY <1>1, <1>6, <1>7, <1>8, MainGold

LEMMA LoginGold ==
    ASSUME TInv, GInv, NEW e \in User, NEW th \in Thread, DbinLogin(e, th)
    PROVE  GInv'
  <1> PICK r : r = NewRequest("login", NoOne, e, NoGuild, 0, 0)
    OBVIOUS
  <1>1. ReqOK(r) /\ r.at = "new" /\ r.cmd = "login"
    BY NewOK
  <1>2. MoneyOK(r)
    BY <1>1 DEF MoneyOK
  <1>3. /\ UNCHANGED <<threads, status, guild, ledger, lapse, map>>
        /\ queue' = [queue EXCEPT ![th] = Append(@, r)]
    BY DEF DbinLogin, tables, main
  <1>4. LevelsOK(map')
    BY <1>3 DEF GInv
  <1>5. QED
    BY <1>1, <1>2, <1>3, <1>4, AddGold

\* What users send.
LEMMA WriteGold ==
    ASSUME TInv, GInv, NEW e \in User, NEW q, DbinWrite(e, q), ReqOK(q), q.at = "new", MoneyOK(q),
           q.cmd = "bonus" => q.e = e
    PROVE  GInv'
  <1>1. e % threads \in Thread
    BY ThreadOf DEF TInv, QueueOK
  <1>2. /\ queue' = [queue EXCEPT ![e % threads] = Append(@, q)]
        /\ UNCHANGED <<threads, status, guild, ledger, lapse, map>>
    BY DEF DbinWrite
  <1>3. LevelsOK(map')
    BY <1>2 DEF GInv
  <1>4. QED
    BY <1>1, <1>2, <1>3, AddGold

LEMMA NewMoney ==
    ASSUME NEW cmd, NEW by, NEW e, NEW g, NEW x, NEW max,
           cmd \in {"create", "deposit"} => x \in Nat, cmd = "create" => g \in User, cmd = "glevelup" => x \in Levels
    PROVE  MoneyOK(NewRequest(cmd, by, e, g, x, max))
  BY DEF NewRequest, MoneyOK

LEMMA DbinGold ==
    ASSUME TInv, GInv, NEW e \in User, NEW t \in User,
           \/ DbinCreateGuild(e) \/ DbinDeleteGuild(e) \/ DbinGdeposit(e, 1) \/ DbinGbonus(e)
           \/ DbinGlv(e) \/ DbinGlevelup(e) \/ DbinGapply(e, t) \/ DbinGquit(e, t)
           \/ DbinGpos(e, t, GUILD_POS_SENIOR) \/ DbinGpos(e, t, GUILD_POS_MEMBER)
    PROVE  GInv'
  <1> DEFINE g == conn[e].gid
  <1>0. CreateGold \in Nat /\ CreateGold \in Int /\ g \in User \cup {NoGuild}
    BY GuildAssumption DEF TInv, ConnOK, Rows
  <1>1. CASE DbinCreateGuild(e)
    BY <1>0, <1>1, NewOK, NewMoney, WriteGold DEF DbinCreateGuild
  <1>2. CASE DbinDeleteGuild(e)
    BY <1>2, NewOK, NewMoney, WriteGold DEF DbinDeleteGuild
  <1>3. CASE DbinGdeposit(e, 1)
    BY <1>0, <1>3, NewOK, NewMoney, WriteGold DEF DbinGdeposit
  <1>4. CASE DbinGbonus(e)
    BY <1>4, NewOK, NewMoney, WriteGold DEF DbinGbonus
  <1>5. CASE DbinGlv(e)
    BY <1>0, <1>5, NewOK, NewMoney, WriteGold DEF DbinGlv
  <1>6. CASE DbinGlevelup(e)
    <2>1. DbinWrite(e, NewRequest("glevelup", e, e, e, map[e].glevel, 0))
      BY <1>6 DEF DbinGlevelup
    <2>2. map[e].glevel \in Nat /\ map[e].glevel # 0 /\ map[e].glevel < Cardinality(Levels)
      BY <1>6 DEF DbinGlevelup, Loaded, GInv, LevelsOK
    <2>3. map[e].glevel \in Levels
      BY <2>2, LevelRange
    <2>4. QED
      BY <2>1, <2>3, NewOK, NewMoney, WriteGold
  <1>7. CASE DbinGapply(e, t)
    BY <1>7, NewOK, NewMoney, WriteGold DEF DbinGapply
  <1>8. CASE DbinGquit(e, t)
    <2>1. g \in User
      BY <1>0, <1>8 DEF DbinGquit
    <2>2. \E max : DbinWrite(e, NewRequest("gquit", e, t, g, 0, max))
      BY <1>8 DEF DbinGquit
    <2>3. QED
      BY <2>1, <2>2, NewOK, NewMoney, WriteGold
  <1>9. ASSUME NEW pos \in {GUILD_POS_SENIOR, GUILD_POS_MEMBER}, DbinGpos(e, t, pos) PROVE GInv'
    <2>1. g \in User
      BY <1>0, <1>9 DEF DbinGpos
    <2>2. \E max : DbinWrite(e, NewRequest("gpos", e, t, g, pos, max))
      BY <1>9 DEF DbinGpos
    <2>3. QED
      BY <2>1, <2>2, NewOK, NewMoney, WriteGold
  <1>10. QED
    BY <1>1, <1>2, <1>3, <1>4, <1>5, <1>6, <1>7, <1>8, <1>9

LEMMA ReplyGold ==
    ASSUME TInv, GInv, MapShape(map), NEW th \in Thread, Dbout(th)
    PROVE  GInv'
  <1>1. /\ queue[th] # <<>> /\ Head(queue[th]).at = "done" /\ queue' = [queue EXCEPT ![th] = Tail(@)]
        /\ UNCHANGED <<threads, status, guild, ledger>>
    BY DEF Dbout, tables, bounds
  <1>2. lapse => lapse'
    <2>1. PICK b : lapse' = (lapse \/ b)
      BY DEF Dbout
    <2>2. QED
      BY <2>1
  <1>3. LevelsOK(map')
    BY ReplyLevels
  <1>4. QED
    BY <1>1, <1>2, <1>3, TailGold

LEMMA GoldStep == ASSUME TInv, MInv, GInv, [Next]_vars PROVE GInv'
  <1>1. MapShape(map)
    BY DEF MInv
  <1>2. CASE UNCHANGED <<threads, queue, status, guild, ledger, map, lapse>>
    BY <1>2, StillGold
  <1>3. ASSUME NEW th \in Thread, Dbio(th) PROVE GInv'
    <2>1. PICK i \in 1 .. Len(queue[th]), ok \in BOOLEAN :
             Current(th, i) /\ Work(th, i, ok) /\ UNCHANGED <<threads, conn, map>>
      BY <1>3 DEF Dbio, Work
    <2>2. QED
      BY <2>1, WorkGold
  <1>4. ASSUME NEW th \in Thread, Dbout(th) PROVE GInv'
    BY <1>1, <1>4, ReplyGold
  <1>5. ASSUME Midnight PROVE GInv'
    BY <1>2, <1>5 DEF Midnight, main, bounds
  <1>6. CASE UNCHANGED vars
    BY <1>2, <1>6 DEF vars
  <1>7. ASSUME NEW e \in User, DoClean(e) PROVE GInv'
    BY <1>1, <1>7, CleanGold
  <1>8. QED
    BY <1>3, <1>4, <1>5, <1>6, <1>7, DbinGold, LoginGold DEF Next

----------------------------------------------------------------------------
(* The start, and what the runs say                                        *)

LEMMA GoldInit == ASSUME Init PROVE GInv
  <1>1. /\ status = First /\ lapse = FALSE
        /\ guild = [g \in User |-> IF g \notin FirstGuilds THEN NoRow
                  ELSE [there |-> TRUE, glevel |-> 1, gold |-> CreateGold, total |->
                        Cardinality({e \in User : First[e].gid = g /\ First[e].gpos \in Membership})]]
        /\ queue = [th \in Thread |-> <<>>]
    BY DEF Init
  <1>2. Requests = {}
    <2>1. ASSUME NEW th \in Thread, NEW i \in 1 .. Len(queue[th]) PROVE FALSE
      <3>1. Len(queue[th]) = 0
        BY <1>1
      <3>2. QED
        BY <3>1
    <2>2. \A s : s \notin Requests
      BY <2>1, RequestIs
    <2>3. QED
      BY <2>2
  <1>3. GuildMoney
    <2>1. ASSUME NEW g \in User
          PROVE  guild[g].gold \in Int /\ guild[g].glevel \in Nat /\ (guild[g].there \/ guild[g].gold = 0)
      <3>1. CASE g \notin FirstGuilds
        <4>1. guild[g] = NoRow
          BY <1>1, <3>1, Zenon
        <4>2. QED
          BY <4>1 DEF NoRow
      <3>2. CASE g \in FirstGuilds
        <4>1. PICK n : n = Cardinality({e \in User : First[e].gid = g /\ First[e].gpos \in Membership})
          OBVIOUS
        <4>2. guild[g] = [there |-> TRUE, glevel |-> 1, gold |-> CreateGold, total |-> n]
          BY <1>1, <3>2, <4>1
        <4>3. CreateGold \in Int
          BY GuildAssumption
        <4>4. QED
          BY <4>2, <4>3
      <3>3. QED
        BY <3>1, <3>2
    <2>2. QED
      BY <2>1 DEF GuildMoney
  <1>4. LevelsOK(map)
    <2>1. ASSUME NEW g \in User PROVE map[g].glevel \in Nat
      <3>1. CASE g \notin FirstGuilds
        <4>1. map[g] = NotLoaded
          BY <3>1, Zenon DEF Init
        <4>2. QED
          BY <4>1 DEF NotLoaded
      <3>2. CASE g \in FirstGuilds
        <4>1. PICK M : M = {e \in User : First[e].gid = g /\ First[e].gpos \in Membership}
          OBVIOUS
        <4>2. map[g] = [glevel |-> 1, gold |-> CreateGold, mem |-> M]
          BY <3>2, <4>1 DEF Init
        <4>3. QED
          BY <4>2
      <3>3. QED
        BY <3>1, <3>2
    <2>2. QED
      BY <2>1 DEF LevelsOK
  <1>5. ledger = SumOf(Worth, User)
    BY DEF Init, MapThenSumSet, MapThenFoldSet, SumOf, IsSum, Pick, Worth, Value
  <1>6. SumOf(Load, Requests) = 0 /\ IsFiniteSet(Requests)
    BY <1>2, FS_EmptySet, SumFirst
  <1>7. StatusOK
    BY TypeInit DEF TInv
  <1>8. SumOf(Worth, User) \in Int
    BY <1>3, <1>7, WorthInts, SumInt, GuildAssumption
  <1>9. AllGold = ledger /\ ledger \in Int
    BY <1>5, <1>6, <1>8 DEF AllGold
  <1>10. \A r \in Requests : MoneyOK(At(r))
    BY <1>2
  <1>11. QED
    BY <1>3, <1>4, <1>6, <1>9, <1>10 DEF GInv

\* The two sums of Gold, written out.
InTables ==
    LET iter == CHOOSE iter : iter = [s \in SUBSET User |->
                    IF s = {} THEN 0
                    ELSE LET x == CHOOSE x \in s : TRUE
                         IN status[x].gold + guild[x].gold + iter[s \ {x}]]
    IN iter[User]
InRequests ==
    LET iter == CHOOSE iter : iter = [s \in SUBSET Requests |->
                    IF s = {} THEN 0
                    ELSE LET x == CHOOSE x \in s : TRUE
                         IN InFlight(At(x)) + iter[s \ {x}]]
    IN iter[Requests]

LEMMA InTablesIs == InTables = SumOf(Worth, User)
  BY DEF InTables, SumOf, IsSum, Pick, Worth, Value

LEMMA InRequestsIs == InRequests = SumOf(Load, Requests)
  BY DEF InRequests, SumOf, IsSum, Pick, Load

LEMMA GoldOf ==
    ASSUME InTables + InRequests <= ledger, lapse \/ InTables + InRequests = ledger
    PROVE  GoldKept
  BY DEF InTables, InRequests, GoldKept, Gold, MapThenSumSet, MapThenFoldSet

LEMMA GoldWitness == ASSUME GInv PROVE GoldKept
  <1>1. AllGold = InTables + InRequests
    BY InTablesIs, InRequestsIs DEF AllGold
  <1>2. InTables + InRequests <= ledger /\ (lapse \/ InTables + InRequests = ledger)
    BY <1>1 DEF GInv
  <1>3. QED
    BY <1>2, GoldOf

\* Whatever interleaves and fails, in however many workers, guilds and their
\* members never have more gold between them than was paid in, and they have
\* less only where a request has stopped half-way.
THEOREM GoldStaysKept == Spec => []GoldKept
  <1>1. Init => TInv /\ MInv /\ GInv
    BY TypeInit, ListsInit, GoldInit
  <1>2. TInv /\ MInv /\ GInv /\ [Next]_vars => TInv' /\ MInv' /\ GInv'
    BY TypeStep, ListsStep, GoldStep
  <1>3. GInv => GoldKept
    BY GoldWitness
  <1>4. QED
    BY <1>1, <1>2, <1>3, PTL DEF Spec

----------------------------------------------------------------------------
(* What connections will have been told                                    *)

\* What a request has done for its user so far, or against the members of
\* its guild.
Paid(q) ==
    \/ q.cmd = "create" /\ (q.at \in {"paid", "joined", "founded"} \/ Passed(q))
    \/ q.cmd = "deposit" /\ (q.at \in {"paid", "given"} \/ Passed(q))
    \/ q.cmd = "bonus" /\ (q.at = "paid" \/ Passed(q))
Joined(q) ==
    \/ q.cmd = "create" /\ (q.at \in {"joined", "founded"} \/ Passed(q))
    \/ q.cmd = "apply" /\ Passed(q)
    \/ q.cmd = "gpos" /\ (q.at = "joined" \/ Passed(q))
Quits(q) == q.cmd = "gquit" /\ (q.at \in {"left", "unshared"} \/ Passed(q))
Emptied(q) == q.cmd = "delete" /\ (q.at = "kicked" \/ Passed(q))
Effective(q) == Paid(q) \/ Joined(q) \/ Quits(q) \/ Emptied(q)
Reads(q, e) == q.cmd = "login" /\ q.e = e /\ q.at = "done"

Rank(q) ==
    IF q.cmd = "create" THEN GUILD_POS_MASTER ELSE IF q.cmd = "apply" THEN GUILD_POS_APPLY ELSE q.x
Earned(q, gold) == IF q.cmd = "bonus" THEN gold + q.x ELSE gold - q.x
Out(q, e, a) ==
    \/ Quits(q) /\ q.e = e
    \/ Emptied(q) /\ (q.e = e \/ (a.gid = q.g /\ a.gpos \in Membership))

SamePlace(a, b) == b.gid = a.gid /\ b.gpos = a.gpos
PlaceIs(a, g, p) == a.gid = g /\ a.gpos = p

\* The reply to q, as it stands, makes b of what is known to e's connection.
Told(q, e, a, b) ==
    IF Reads(q, e) THEN b.up = TRUE /\ PlaceIs(b, q.got[1], q.got[2]) /\ b.gold = q.got[3]
    ELSE /\ b.up = a.up
         /\ a.up => /\ IF Joined(q) /\ q.e = e THEN PlaceIs(b, q.g, Rank(q))
                       ELSE IF Out(q, e, a) THEN PlaceIs(b, NoGuild, GUILD_POS_NONE) ELSE SamePlace(a, b)
                    /\ b.gold = IF Paid(q) /\ q.e = e THEN Earned(q, a.gold) ELSE a.gold

\* a is what c, a connection, has cached; a agrees with s, a row of evil_status.
Shows(c, a) == a.up = c.up /\ (a.up => SamePlace(c, a) /\ a.gold = c.gold)
Agrees(s, a) ==
    a.up => /\ a.gold = s.gold
            /\ SamePlace(s, a) \/ (a.gpos = GUILD_POS_APPLY /\ s.gid = NoGuild)

\* The replies under way, told one after the other, make what e's connection
\* has cached agree with the tables, behind the one the worker is at.
Settled(p) == \A j \in Places : j > p => Q[j].at = "new"
RunOK(e) ==
    \E v : /\ Shows(conn[e], v[0])
           /\ \A p \in Places : Told(Q[p], e, v[p - 1], v[p])
           /\ \A p \in 0 .. Len(Q) : Settled(p) => Agrees(status[e], v[p])

\* No request has stopped half-way, and those that have done something are heard.
Spared == ~lapse /\ \A i \in Places : Effective(Q[i]) => Q[i].by # NoOne

\* Who asks is who is told: of his gold, of leaving his own guild, and of
\* deleting it, which he has been in since.
AsksOK ==
    \A i \in Places :
        /\ Q[i].cmd \in {"deposit", "bonus"} => Q[i].by \in {Q[i].e, NoOne}
        /\ Q[i].cmd = "gquit" /\ Q[i].e = Q[i].g => Q[i].by \in {Q[i].e, NoOne}
        /\ Q[i].cmd = "delete" /\ Q[i].by # NoOne => conn[Q[i].by].gid = Q[i].g
        /\ Q[i].cmd = "login" /\ Q[i].at = "done" => Q[i].good

AInv == threads = 1 => AsksOK /\ (Spared => \A e \in User : RunOK(e))

----------------------------------------------------------------------------
(* What a statement does to the user's row, and to what will be told of it *)

\* q becomes r, and the row s of user e becomes t: nothing changes; the user
\* is paid or pays; gets a place; leaves it; all in the guild do; a login
\* reads the row.
NoDeed(q, r, e, s, t) ==
    /\ Paid(r) <=> Paid(q)
    /\ Joined(r) <=> Joined(q)
    /\ Quits(r) <=> Quits(q)
    /\ Emptied(r) <=> Emptied(q)
    /\ Effective(q) => r.x = q.x
    /\ ~Reads(r, e) /\ SamePlace(s, t) /\ t.gold = s.gold
PayDeed(q, r, e, s, t) ==
    /\ ~Effective(q) /\ Paid(r) /\ ~Joined(r) /\ r.cmd \notin {"gquit", "delete", "login"}
    /\ SamePlace(s, t) /\ t.gold = IF q.e = e THEN Earned(r, s.gold) ELSE s.gold
JoinDeed(q, r, e, s, t) ==
    /\ ~Joined(q) /\ Joined(r) /\ r.cmd \in {"create", "apply", "gpos"} /\ r.x = q.x
    /\ Paid(r) <=> Paid(q)
    /\ (IF q.e = e THEN PlaceIs(t, q.g, Rank(r)) ELSE SamePlace(s, t)) /\ t.gold = s.gold
LeaveDeed(q, r, e, s, t) ==
    /\ ~Quits(q) /\ Quits(r)
    /\ (IF q.e = e THEN PlaceIs(t, NoGuild, GUILD_POS_NONE) ELSE SamePlace(s, t)) /\ t.gold = s.gold
EmptyDeed(q, r, e, s, t) ==
    /\ ~Emptied(q) /\ Emptied(r)
    /\ (IF s.gid = q.g THEN PlaceIs(t, NoGuild, GUILD_POS_NONE) ELSE SamePlace(s, t)) /\ t.gold = s.gold
ReadDeed(q, r, e, s, t) ==
    /\ r.cmd = "login" /\ r.at = "done" /\ r.good /\ SamePlace(s, t) /\ t.gold = s.gold
    /\ r.e = e => PlaceIs(s, r.got[1], r.got[2]) /\ s.gold = r.got[3]

Deed(q, r, e, s, t) ==
    \/ NoDeed(q, r, e, s, t) \/ PayDeed(q, r, e, s, t) \/ JoinDeed(q, r, e, s, t)
    \/ LeaveDeed(q, r, e, s, t) \/ EmptyDeed(q, r, e, s, t) \/ ReadDeed(q, r, e, s, t)

LEMMA ToldSome == ASSUME NEW q, NEW e, NEW a PROVE \E b : Told(q, e, a, b)
  <1> DEFINE up == IF Reads(q, e) THEN TRUE ELSE a.up
             gid == IF Reads(q, e) THEN q.got[1] ELSE IF Joined(q) /\ q.e = e THEN q.g
                    ELSE IF Out(q, e, a) THEN NoGuild ELSE a.gid
             gpos == IF Reads(q, e) THEN q.got[2] ELSE IF Joined(q) /\ q.e = e THEN Rank(q)
                     ELSE IF Out(q, e, a) THEN GUILD_POS_NONE ELSE a.gpos
             gold == IF Reads(q, e) THEN q.got[3] ELSE IF Paid(q) /\ q.e = e THEN Earned(q, a.gold) ELSE a.gold
  <1>1. PICK b : b.up = up /\ b.gid = gid /\ b.gpos = gpos /\ b.gold = gold
    <2> HIDE DEF up, gid, gpos, gold
    <2>1. LET b == [up |-> up, gid |-> gid, gpos |-> gpos, gold |-> gold] IN
          b.up = up /\ b.gid = gid /\ b.gpos = gpos /\ b.gold = gold
      OBVIOUS
    <2>2. QED
      BY <2>1
  <1>2. Told(q, e, a, b)
    BY <1>1 DEF Told, PlaceIs, SamePlace
  <1>3. QED
    BY <1>2

\* The request is the same; what it has done so far it has not done before.
Going(q, r) == r.cmd = q.cmd /\ r.e = q.e /\ r.g = q.g /\ q.at # "done"

LEMMA DeedTold ==
    ASSUME NEW q, NEW r, Going(q, r), NEW e, NEW s, NEW t, NEW a, NEW b, NEW c, Told(q, e, a, b), Agrees(s, b),
           Told(r, e, a, c), Deed(q, r, e, s, t),
           s.gid = NoGuild <=> s.gpos = GUILD_POS_NONE, s.gpos \in Gpos, q.g = NoGuild => ~Emptied(r),
           Emptied(r) /\ q.e = e => s.gid \in {NoGuild, q.g}
    PROVE  Agrees(t, c)
  <1>0. ~Reads(q, e) /\ b.up = a.up
    BY DEF Going, Reads, Told
  <1>1. CASE NoDeed(q, r, e, s, t)
    <2>1. c.up = a.up /\ ~Reads(r, e)
      BY <1>1 DEF NoDeed, Told
    <2>2. ASSUME a.up PROVE SamePlace(b, c) /\ c.gold = b.gold
      <3>1. Out(r, e, a) <=> Out(q, e, a)
        BY <1>1 DEF NoDeed, Out, Going
      <3>2. Joined(q) => Rank(r) = Rank(q)
        BY <1>1 DEF NoDeed, Effective, Rank, Going
      <3>3. Paid(q) => Earned(r, a.gold) = Earned(q, a.gold)
        BY <1>1 DEF NoDeed, Effective, Earned, Going
      <3>4. c.gold = b.gold
        BY <1>0, <1>1, <2>1, <2>2, <3>3 DEF NoDeed, Told, Going
      <3>5. SamePlace(b, c)
        BY <1>0, <1>1, <2>1, <2>2, <3>1, <3>2 DEF NoDeed, Told, Going, SamePlace, PlaceIs
      <3>6. QED
        BY <3>4, <3>5
    <2>3. QED
      BY <1>0, <1>1, <2>1, <2>2 DEF NoDeed, Agrees, SamePlace
  <1>2. CASE PayDeed(q, r, e, s, t)
    <2>1. ~Reads(r, e) /\ ~Out(r, e, a) /\ ~Out(q, e, a)
      BY <1>2 DEF PayDeed, Reads, Out, Quits, Emptied, Effective
    <2>2. QED
      BY <1>0, <1>2, <2>1 DEF PayDeed, Told, Going, SamePlace, Agrees, Effective
  <1>3. CASE JoinDeed(q, r, e, s, t)
    <2>1. ~Reads(r, e) /\ ~Out(r, e, a) /\ ~Out(q, e, a)
      BY <1>3 DEF JoinDeed, Reads, Out, Quits, Emptied, Going
    <2>2. Earned(r, a.gold) = Earned(q, a.gold)
      BY <1>3 DEF JoinDeed, Earned, Going
    <2>3. QED
      BY <1>0, <1>3, <2>1, <2>2 DEF JoinDeed, Told, Going, SamePlace, PlaceIs, Agrees
  <1>4. CASE LeaveDeed(q, r, e, s, t)
    <2>1. /\ ~Reads(r, e) /\ ~Joined(r) /\ ~Joined(q) /\ ~Paid(r) /\ ~Paid(q) /\ ~Out(q, e, a)
          /\ Out(r, e, a) <=> q.e = e
      BY <1>4 DEF LeaveDeed, Reads, Out, Quits, Emptied, Joined, Paid, Going
    <2>2. QED
      BY <1>0, <1>4, <2>1 DEF LeaveDeed, Told, SamePlace, PlaceIs, Agrees
  <1>5. CASE EmptyDeed(q, r, e, s, t)
    <2>1. /\ ~Reads(r, e) /\ ~Joined(r) /\ ~Joined(q) /\ ~Paid(r) /\ ~Paid(q) /\ ~Out(q, e, a)
          /\ Out(r, e, a) <=> q.e = e \/ (a.gid = q.g /\ a.gpos \in Membership)
      BY <1>5 DEF EmptyDeed, Reads, Out, Quits, Emptied, Joined, Paid, Going
    <2>2. SUFFICES ASSUME a.up PROVE Agrees(t, c)
      BY <2>1 DEF Told, Agrees
    <2>3. SamePlace(a, b) /\ b.gold = a.gold /\ c.gold = a.gold /\ t.gold = s.gold /\ a.gold = s.gold
      BY <1>0, <1>5, <2>1, <2>2 DEF Told, EmptyDeed, Agrees
    <2>4. q.g # NoGuild
      BY <1>5 DEF EmptyDeed
    <2>5. CASE Out(r, e, a)
      <3>1. PlaceIs(c, NoGuild, GUILD_POS_NONE)
        BY <2>1, <2>2, <2>5 DEF Told
      <3>2. s.gid \in {NoGuild, q.g}
        <4>1. GUILD_POS_APPLY \notin Membership
          BY DEF GUILD_POS_APPLY, Membership, GUILD_POS_MASTER, GUILD_POS_SENIOR, GUILD_POS_MEMBER
        <4>2. QED
          BY <1>0, <1>5, <2>1, <2>2, <2>3, <2>5, <4>1 DEF EmptyDeed, Agrees, SamePlace
      <3>3. PlaceIs(t, NoGuild, GUILD_POS_NONE)
        BY <1>5, <3>2 DEF EmptyDeed, SamePlace, PlaceIs
      <3>4. QED
        BY <2>3, <3>1, <3>3 DEF Agrees, PlaceIs, SamePlace
    <2>6. CASE ~Out(r, e, a)
      <3>1. SamePlace(a, c)
        BY <2>1, <2>2, <2>6 DEF Told
      <3>2. CASE s.gid = q.g
        <4>1. t.gid = NoGuild
          BY <1>5, <3>2 DEF EmptyDeed, PlaceIs
        <4>2. SamePlace(s, a) \/ a.gpos = GUILD_POS_APPLY
          BY <1>0, <2>2, <2>3 DEF Agrees, SamePlace
        <4>3. a.gpos = GUILD_POS_APPLY
          <5>1. \A p \in Gpos : p \in Membership \/ p = GUILD_POS_NONE \/ p = GUILD_POS_APPLY
            BY DEF Gpos, Membership
          <5>2. QED
            BY <2>1, <2>4, <2>6, <3>2, <4>2, <5>1 DEF SamePlace
        <4>4. QED
          BY <2>3, <3>1, <4>1, <4>3 DEF Agrees, SamePlace
      <3>3. CASE s.gid # q.g
        BY <1>0, <1>5, <2>2, <2>3, <3>1, <3>3 DEF EmptyDeed, Agrees, SamePlace
      <3>4. QED
        BY <3>2, <3>3
    <2>7. QED
      BY <2>5, <2>6
  <1>6. CASE ReadDeed(q, r, e, s, t)
    <2>1. CASE r.e = e
      BY <1>6, <2>1 DEF ReadDeed, Reads, Told, Agrees, SamePlace, PlaceIs
    <2>2. CASE r.e # e
      <3>1. /\ ~Reads(r, e) /\ ~Joined(r) /\ ~Joined(q) /\ ~Paid(r) /\ ~Paid(q) /\ ~Out(q, e, a) /\ ~Out(r, e, a)
        BY <1>6, <2>2 DEF ReadDeed, Reads, Out, Quits, Emptied, Joined, Paid, Going
      <3>2. QED
        BY <1>0, <1>6, <3>1 DEF ReadDeed, Told, SamePlace, Agrees
    <2>3. QED
      BY <2>1, <2>2
  <1>7. QED
    BY <1>1, <1>2, <1>3, <1>4, <1>5, <1>6 DEF Deed

WorkDeed(th, i) ==
    LET q == queue[th][i]
        r == queue'[th][i]
    IN \/ lapse' = TRUE
       \/ lapse' = lapse /\ \A e \in User : Deed(q, r, e, status[e], status'[e])

LEMMA StepOutcomes ==
    ASSUME TInv, NEW th \in Thread, NEW i \in 1 .. Len(queue[th]), Ready(queue[th][i])
    PROVE  /\ \A at : Go(th, i, at) => lapse' = lapse /\ Outcome(queue[th][i], queue'[th][i], at, FALSE)
           /\ Succeed(th, i) => lapse' = lapse /\ Outcome(queue[th][i], queue'[th][i], "done", TRUE)
           /\ Refuse(th, i) => lapse' = lapse /\ Outcome(queue[th][i], queue'[th][i], "done", FALSE)
           /\ Break(th, i) => lapse' = TRUE
  BY Outcomes DEF Ready, Go, Succeed, Refuse, Break

LEMMA PutRow ==
    ASSUME StatusOK, NEW e \in User, NEW g, NEW p, UpdateStatusGuild(e, g, p), NEW u \in User
    PROVE  /\ status'[u].gold = status[u].gold
           /\ IF e = u THEN PlaceIs(status'[u], g, p) ELSE SamePlace(status[u], status'[u])
  BY DEF StatusOK, UpdateStatusGuild, PlaceIs, SamePlace

LEMMA MoneyRow ==
    ASSUME StatusOK, NEW e \in User, NEW x, UpdateMoney(e, x), NEW u \in User
    PROVE  /\ SamePlace(status[u], status'[u])
           /\ status'[u].gold = IF e = u THEN status[u].gold + x ELSE status[u].gold
  BY DEF StatusOK, UpdateMoney, SamePlace

LEMMA CreateDeed ==
    ASSUME TInv, NEW th \in Thread, NEW i \in 1 .. Len(queue[th]), NEW ok \in BOOLEAN,
           queue[th][i].cmd = "create", Ready(queue[th][i]), InCreateGuild(th, i, ok)
    PROVE  WorkDeed(th, i)
  <1> PICK q : q = queue[th][i]
    OBVIOUS
  <1> PICK r : r = queue'[th][i]
    OBVIOUS
  <1>1. /\ StatusOK /\ q.e \in User /\ q.g = q.e /\ q.x \in Int /\ q.cmd = "create" /\ q.good = FALSE
    BY DEF TInv, QueueOK, ReqOK, Ready
  <1>2. /\ \A at : Go(th, i, at) => lapse' = lapse /\ Outcome(q, r, at, FALSE)
        /\ Succeed(th, i) => lapse' = lapse /\ Outcome(q, r, "done", TRUE)
        /\ Refuse(th, i) => lapse' = lapse /\ Outcome(q, r, "done", FALSE)
        /\ Break(th, i) => lapse' = TRUE
    BY StepOutcomes
  <1>3. ASSUME status' = status, lapse' = lapse, NEW at, NEW good, Outcome(q, r, at, good),
               \/ q.at \in {"new", "checked"} /\ at \in {"checked", "done"} /\ ~good
               \/ q.at = "joined" /\ at = "founded"
               \/ q.at = "founded" /\ good /\ at = "done"
        PROVE  WorkDeed(th, i)
    <2>1. /\ Paid(r) <=> Paid(q)
          /\ Joined(r) <=> Joined(q)
          /\ r.x = q.x /\ r.cmd = "create"
      BY <1>1, <1>3 DEF Outcome, Paid, Joined, Passed
    <2>2. \A e \in User : NoDeed(q, r, e, status[e], status'[e])
      BY <1>1, <1>3, <2>1 DEF NoDeed, Quits, Emptied, Reads, SamePlace
    <2>3. QED
      BY <1>3, <2>2 DEF WorkDeed, Deed
  <1>4. CASE q.at = "new"
    BY <1>2, <1>3, <1>4 DEF InCreateGuild, tables
  <1>5. CASE q.at = "checked"
    <2>1. CASE ok /\ status[q.e].gold >= q.x
      <3>1. UpdateMoney(q.e, -q.x) /\ lapse' = lapse /\ Outcome(q, r, "paid", FALSE)
        BY <1>2, <1>5, <2>1 DEF InCreateGuild
      <3>2. ~Effective(q) /\ Paid(r) /\ ~Joined(r) /\ r.cmd = "create" /\ r.x = q.x
        BY <1>1, <1>5, <3>1 DEF Outcome, Effective, Paid, Joined, Quits, Emptied, Passed
      <3>3. ASSUME NEW e \in User PROVE PayDeed(q, r, e, status[e], status'[e])
        <4>1. /\ SamePlace(status[e], status'[e])
              /\ status'[e].gold = IF q.e = e THEN status[e].gold + (-q.x) ELSE status[e].gold
          BY <1>1, <3>1, MoneyRow
        <4>2. status[e].gold + (-q.x) = Earned(r, status[e].gold)
          BY <1>1, <3>2 DEF Earned, StatusOK
        <4>3. QED
          BY <3>2, <4>1, <4>2 DEF PayDeed
      <3>4. QED
        BY <3>1, <3>3 DEF WorkDeed, Deed
    <2>2. CASE ~(ok /\ status[q.e].gold >= q.x)
      BY <1>2, <1>3, <1>5, <2>2 DEF InCreateGuild
    <2>3. QED
      BY <2>1, <2>2
  <1>6. CASE q.at = "paid"
    <2>1. CASE ok /\ StatusIs(q.e, NoGuild, GUILD_POS_NONE)
      <3>1. UpdateStatusGuild(q.e, q.g, GUILD_POS_MASTER) /\ lapse' = lapse /\ Outcome(q, r, "joined", FALSE)
        BY <1>2, <1>6, <2>1 DEF InCreateGuild
      <3>2. ~Joined(q) /\ Joined(r) /\ r.cmd = "create" /\ r.x = q.x /\ Paid(q) /\ Paid(r) /\ Rank(r) = GUILD_POS_MASTER
        BY <1>1, <1>6, <3>1 DEF Outcome, Paid, Joined, Passed, Rank
      <3>3. \A e \in User : JoinDeed(q, r, e, status[e], status'[e])
        BY <1>1, <3>1, <3>2, PutRow DEF JoinDeed
      <3>4. QED
        BY <3>1, <3>3 DEF WorkDeed, Deed
    <2>2. CASE ~(ok /\ StatusIs(q.e, NoGuild, GUILD_POS_NONE))
      BY <1>2, <1>6, <2>2 DEF InCreateGuild, WorkDeed
    <2>3. QED
      BY <2>1, <2>2
  <1>7. CASE q.at = "joined"
    <2>1. status' = status /\ (lapse' = TRUE \/ (lapse' = lapse /\ Outcome(q, r, "founded", FALSE)))
      BY <1>2, <1>7 DEF InCreateGuild
    <2>2. QED
      BY <1>3, <1>7, <2>1 DEF WorkDeed
  <1>8. CASE q.at = "founded"
    <2>1. status' = status /\ (lapse' = TRUE \/ (lapse' = lapse /\ Outcome(q, r, "done", TRUE)))
      BY <1>2, <1>8 DEF InCreateGuild
    <2>2. QED
      BY <1>3, <1>8, <2>1 DEF WorkDeed
  <1>9. QED
    BY <1>4, <1>5, <1>6, <1>7, <1>8 DEF InCreateGuild

LEMMA ApplyDeed ==
    ASSUME TInv, NEW th \in Thread, NEW i \in 1 .. Len(queue[th]), NEW ok \in BOOLEAN,
           queue[th][i].cmd = "apply", Ready(queue[th][i]), InGuildApply(th, i, ok)
    PROVE  WorkDeed(th, i)
  <1> PICK q : q = queue[th][i]
    OBVIOUS
  <1> PICK r : r = queue'[th][i]
    OBVIOUS
  <1>1. StatusOK /\ q.e \in User /\ q.cmd = "apply" /\ q.good = FALSE
    BY DEF TInv, QueueOK, ReqOK, Ready
  <1>2. /\ \A at : Go(th, i, at) => lapse' = lapse /\ Outcome(q, r, at, FALSE)
        /\ Succeed(th, i) => lapse' = lapse /\ Outcome(q, r, "done", TRUE)
        /\ Refuse(th, i) => lapse' = lapse /\ Outcome(q, r, "done", FALSE)
    BY StepOutcomes
  <1>3. ASSUME status' = status, lapse' = lapse, NEW at, Outcome(q, r, at, FALSE)
        PROVE  WorkDeed(th, i)
    <2>1. ~Effective(r) /\ ~Effective(q) /\ r.cmd = "apply"
      BY <1>1, <1>3 DEF Outcome, Effective, Paid, Joined, Quits, Emptied, Passed
    <2>2. \A e \in User : NoDeed(q, r, e, status[e], status'[e])
      BY <1>3, <2>1 DEF NoDeed, Effective, Reads, SamePlace
    <2>3. QED
      BY <1>3, <2>2 DEF WorkDeed, Deed
  <1>4. CASE q.at = "found" /\ ok /\ StatusIs(q.e, NoGuild, GUILD_POS_NONE)
    <2>1. UpdateStatusGuild(q.e, q.g, GUILD_POS_APPLY) /\ lapse' = lapse /\ Outcome(q, r, "done", TRUE)
      BY <1>2, <1>4 DEF InGuildApply
    <2>2. ~Joined(q) /\ Joined(r) /\ r.cmd = "apply" /\ r.x = q.x /\ ~Paid(q) /\ ~Paid(r) /\ Rank(r) = GUILD_POS_APPLY
      BY <1>1, <2>1 DEF Outcome, Paid, Joined, Passed, Rank
    <2>3. \A e \in User : JoinDeed(q, r, e, status[e], status'[e])
      BY <1>1, <2>1, <2>2, PutRow DEF JoinDeed
    <2>4. QED
      BY <2>1, <2>3 DEF WorkDeed, Deed
  <1>5. CASE ~(q.at = "found" /\ ok /\ StatusIs(q.e, NoGuild, GUILD_POS_NONE))
    BY <1>2, <1>3, <1>5 DEF InGuildApply, tables
  <1>6. QED
    BY <1>4, <1>5

LEMMA GposDeed ==
    ASSUME TInv, NEW th \in Thread, NEW i \in 1 .. Len(queue[th]), NEW ok \in BOOLEAN,
           queue[th][i].cmd = "gpos", Ready(queue[th][i]), InGuildPos(th, i, ok)
    PROVE  WorkDeed(th, i)
  <1> PICK q : q = queue[th][i]
    OBVIOUS
  <1> PICK r : r = queue'[th][i]
    OBVIOUS
  <1>1. StatusOK /\ q.e \in User /\ q.cmd = "gpos" /\ q.good = FALSE
    BY DEF TInv, QueueOK, ReqOK, Ready
  <1>2. /\ \A at : Go(th, i, at) => lapse' = lapse /\ Outcome(q, r, at, FALSE)
        /\ Succeed(th, i) => lapse' = lapse /\ Outcome(q, r, "done", TRUE)
        /\ Refuse(th, i) => lapse' = lapse /\ Outcome(q, r, "done", FALSE)
        /\ Break(th, i) => lapse' = TRUE
    BY StepOutcomes
  <1>3. ASSUME status' = status, lapse' = lapse, NEW at, NEW good, Outcome(q, r, at, good),
               \/ q.at # "joined" /\ at # "joined" /\ ~good
               \/ q.at = "joined" /\ at = "done" /\ good
        PROVE  WorkDeed(th, i)
    <2>1. /\ Joined(r) <=> Joined(q)
          /\ r.x = q.x /\ r.cmd = "gpos"
      BY <1>1, <1>3 DEF Outcome, Joined, Passed
    <2>2. \A e \in User : NoDeed(q, r, e, status[e], status'[e])
      BY <1>1, <1>3, <2>1 DEF NoDeed, Paid, Quits, Emptied, Reads, SamePlace
    <2>3. QED
      BY <1>3, <2>2 DEF WorkDeed, Deed
  <1>4. ASSUME UpdateStatusGuild(q.e, q.g, q.x), lapse' = lapse, q.at # "joined",
               Outcome(q, r, "joined", FALSE) \/ Outcome(q, r, "done", TRUE)
        PROVE  WorkDeed(th, i)
    <2>1. ~Joined(q) /\ Joined(r) /\ r.cmd = "gpos" /\ r.x = q.x /\ ~Paid(q) /\ ~Paid(r) /\ Rank(r) = q.x
      BY <1>1, <1>4 DEF Outcome, Paid, Joined, Passed, Rank
    <2>2. \A e \in User : JoinDeed(q, r, e, status[e], status'[e])
      BY <1>1, <1>4, <2>1, PutRow DEF JoinDeed
    <2>3. QED
      BY <1>4, <2>2 DEF WorkDeed, Deed
  <1>5. CASE q.at = "new"
    <2>1. status' = status /\ lapse' = lapse /\ \E at \in {"approve", "promote", "done"} : Outcome(q, r, at, FALSE)
      BY <1>2, <1>5 DEF InGuildPos, tables
    <2>2. QED
      BY <1>3, <1>5, <2>1
  <1>6. CASE q.at = "promote"
    <2>1. \/ UpdateStatusGuild(q.e, q.g, q.x) /\ lapse' = lapse /\ Outcome(q, r, "done", TRUE)
          \/ status' = status /\ lapse' = lapse /\ Outcome(q, r, "done", FALSE)
      BY <1>2, <1>6 DEF InGuildPos
    <2>2. QED
      BY <1>3, <1>4, <1>6, <2>1
  <1>7. CASE q.at \in {"approve", "undo"}
    <2>1. status' = status /\ (lapse' = TRUE \/ (lapse' = lapse /\ \E at \in {"counted", "done"} : Outcome(q, r, at, FALSE)))
      BY <1>2, <1>7 DEF InGuildPos
    <2>2. QED
      BY <1>3, <1>7, <2>1 DEF WorkDeed
  <1>8. CASE q.at = "counted"
    <2>1. \/ UpdateStatusGuild(q.e, q.g, q.x) /\ lapse' = lapse /\ Outcome(q, r, "joined", FALSE)
          \/ status' = status /\ lapse' = lapse /\ Outcome(q, r, "undo", FALSE)
      BY <1>2, <1>8 DEF InGuildPos
    <2>2. QED
      BY <1>3, <1>4, <1>8, <2>1
  <1>9. CASE q.at = "joined"
    <2>1. status' = status /\ (lapse' = TRUE \/ (lapse' = lapse /\ Outcome(q, r, "done", TRUE)))
      BY <1>2, <1>9 DEF InGuildPos
    <2>2. QED
      BY <1>3, <1>9, <2>1 DEF WorkDeed
  <1>10. QED
    BY <1>5, <1>6, <1>7, <1>8, <1>9 DEF InGuildPos

LEMMA GquitDeed ==
    ASSUME TInv, NEW th \in Thread, NEW i \in 1 .. Len(queue[th]), NEW ok \in BOOLEAN,
           queue[th][i].cmd = "gquit", Ready(queue[th][i]), InGuildQuit(th, i, ok)
    PROVE  WorkDeed(th, i)
  <1> PICK q : q = queue[th][i]
    OBVIOUS
  <1> PICK r : r = queue'[th][i]
    OBVIOUS
  <1>1. StatusOK /\ q.e \in User /\ q.cmd = "gquit" /\ q.good = FALSE /\ DOMAIN q = Fields
    BY DEF TInv, QueueOK, ReqOK, Ready
  <1>2. /\ \A at : Go(th, i, at) => lapse' = lapse /\ Outcome(q, r, at, FALSE)
        /\ Succeed(th, i) => lapse' = lapse /\ Outcome(q, r, "done", TRUE)
        /\ Refuse(th, i) => lapse' = lapse /\ Outcome(q, r, "done", FALSE)
        /\ Break(th, i) => lapse' = TRUE
    BY StepOutcomes
  <1>3. ASSUME status' = status, lapse' = lapse, r.cmd = "gquit", Quits(r) <=> Quits(q), r.x = q.x \/ ~Quits(q)
        PROVE  WorkDeed(th, i)
    <2>1. \A e \in User : NoDeed(q, r, e, status[e], status'[e])
      BY <1>1, <1>3 DEF NoDeed, Effective, Paid, Joined, Emptied, Reads, SamePlace
    <2>2. QED
      BY <1>3, <2>1 DEF WorkDeed, Deed
  <1>4. ASSUME NEW at \in {"done", "unshared"}, NEW good, Outcome(q, r, at, good),
               \/ q.at \in {"new", "leave"} /\ at = "done" /\ ~good
               \/ q.at = "left" /\ at = "unshared"
               \/ q.at = "unshared" /\ at = "done" /\ good
        PROVE  r.cmd = "gquit" /\ r.x = q.x /\ (Quits(r) <=> Quits(q))
    BY <1>1, <1>4 DEF Outcome, Quits, Passed
  <1>5. CASE q.at = "new"
    <2>1. status' = status /\ lapse' = lapse
      BY <1>2, <1>5 DEF InGuildQuit, tables
    <2>2. CASE Set(th, i, [q EXCEPT !.at = "leave", !.got = <<status[q.e].gpos>>])
      <3>1. r = [q EXCEPT !.at = "leave", !.got = <<status[q.e].gpos>>]
        BY <2>2, SetIs
      <3>2. r.at = "leave" /\ r.good = FALSE /\ r.cmd = q.cmd
        BY <1>1, <3>1, OutcomeGot
      <3>3. QED
        BY <1>1, <1>3, <1>5, <2>1, <3>2 DEF Quits, Passed
    <2>3. CASE Refuse(th, i)
      BY <1>2, <1>3, <1>4, <1>5, <2>1, <2>3
    <2>4. QED
      BY <1>5, <2>2, <2>3 DEF InGuildQuit
  <1>6. CASE q.at = "leave"
    <2>1. CASE ok /\ StatusIs(q.e, q.g, q.got[1])
      <3>1. /\ UpdateStatusGuild(q.e, NoGuild, GUILD_POS_NONE) /\ lapse' = lapse
            /\ Outcome(q, r, "done", TRUE) \/ Outcome(q, r, "left", FALSE)
        BY <1>2, <1>6, <2>1 DEF InGuildQuit
      <3>2. ~Quits(q) /\ Quits(r)
        BY <1>1, <1>6, <3>1 DEF Outcome, Quits, Passed
      <3>3. \A e \in User : LeaveDeed(q, r, e, status[e], status'[e])
        BY <1>1, <3>1, <3>2, PutRow DEF LeaveDeed
      <3>4. QED
        BY <3>1, <3>3 DEF WorkDeed, Deed
    <2>2. CASE ~(ok /\ StatusIs(q.e, q.g, q.got[1]))
      BY <1>2, <1>3, <1>4, <1>6, <2>2 DEF InGuildQuit
    <2>3. QED
      BY <2>1, <2>2
  <1>7. CASE q.at = "left"
    <2>1. status' = status /\ (lapse' = TRUE \/ (lapse' = lapse /\ Outcome(q, r, "unshared", FALSE)))
      BY <1>2, <1>7 DEF InGuildQuit
    <2>2. QED
      BY <1>3, <1>4, <1>7, <2>1 DEF WorkDeed
  <1>8. CASE q.at = "unshared"
    <2>1. status' = status /\ (lapse' = TRUE \/ (lapse' = lapse /\ Outcome(q, r, "done", TRUE)))
      BY <1>2, <1>8 DEF InGuildQuit
    <2>2. QED
      BY <1>3, <1>4, <1>8, <2>1 DEF WorkDeed
  <1>9. QED
    BY <1>5, <1>6, <1>7, <1>8 DEF InGuildQuit

LEMMA DeleteDeed ==
    ASSUME TInv, NEW th \in Thread, NEW i \in 1 .. Len(queue[th]), NEW ok \in BOOLEAN,
           queue[th][i].cmd = "delete", Ready(queue[th][i]), InDeleteGuild(th, i, ok)
    PROVE  WorkDeed(th, i)
  <1> PICK q : q = queue[th][i]
    OBVIOUS
  <1> PICK r : r = queue'[th][i]
    OBVIOUS
  <1>1. StatusOK /\ q.cmd = "delete" /\ q.good = FALSE
    BY DEF TInv, Ready
  <1>2. /\ \A at : Go(th, i, at) => lapse' = lapse /\ Outcome(q, r, at, FALSE)
        /\ Succeed(th, i) => lapse' = lapse /\ Outcome(q, r, "done", TRUE)
        /\ Refuse(th, i) => lapse' = lapse /\ Outcome(q, r, "done", FALSE)
        /\ Break(th, i) => lapse' = TRUE
    BY StepOutcomes
  <1>3. ASSUME status' = status, lapse' = lapse, NEW at, NEW good, Outcome(q, r, at, good),
               \/ q.at \in {"new", "found"} /\ at \in {"found", "done"} /\ ~good
               \/ q.at = "kicked" /\ at = "done" /\ good
        PROVE  WorkDeed(th, i)
    <2>1. /\ Emptied(r) <=> Emptied(q)
          /\ r.cmd = "delete" /\ r.x = q.x
      BY <1>1, <1>3 DEF Outcome, Emptied, Passed
    <2>2. \A e \in User : NoDeed(q, r, e, status[e], status'[e])
      BY <1>1, <1>3, <2>1 DEF NoDeed, Paid, Joined, Quits, Reads, SamePlace
    <2>3. QED
      BY <1>3, <2>2 DEF WorkDeed, Deed
  <1>4. CASE q.at = "found" /\ ok
    <2> DEFINE Cleared2(e) == [status[e] EXCEPT !.gid = NoGuild, !.gpos = GUILD_POS_NONE]
    <2>1. /\ status' = [e \in User |-> IF status[e].gid # q.g THEN status[e] ELSE Cleared2(e)]
          /\ lapse' = lapse /\ Outcome(q, r, "kicked", FALSE)
      BY <1>2, <1>4 DEF InDeleteGuild
    <2>2. \A e \in User : PlaceIs(Cleared2(e), NoGuild, GUILD_POS_NONE) /\ Cleared2(e).gold = status[e].gold
      BY <1>1 DEF StatusOK, PlaceIs
    <2> HIDE DEF Cleared2
    <2>3. ~Emptied(q) /\ Emptied(r)
      BY <1>1, <1>4, <2>1 DEF Outcome, Emptied, Passed
    <2>4. \A e \in User : EmptyDeed(q, r, e, status[e], status'[e])
      BY <2>1, <2>2, <2>3 DEF EmptyDeed, SamePlace
    <2>5. QED
      BY <2>1, <2>4 DEF WorkDeed, Deed
  <1>5. CASE q.at = "kicked"
    <2>1. status' = status /\ (lapse' = TRUE \/ (lapse' = lapse /\ Outcome(q, r, "done", TRUE)))
      BY <1>2, <1>5 DEF InDeleteGuild
    <2>2. QED
      BY <1>3, <1>5, <2>1 DEF WorkDeed
  <1>6. CASE q.at = "new" \/ (q.at = "found" /\ ~ok)
    <2>1. status' = status /\ lapse' = lapse /\ \E at \in {"found", "done"} : Outcome(q, r, at, FALSE)
      BY <1>2, <1>6 DEF InDeleteGuild, tables
    <2>2. QED
      BY <1>3, <1>6, <2>1
  <1>7. QED
    BY <1>4, <1>5, <1>6 DEF InDeleteGuild

LEMMA DepositDeed ==
    ASSUME TInv, NEW th \in Thread, NEW i \in 1 .. Len(queue[th]), NEW ok \in BOOLEAN,
           queue[th][i].cmd = "deposit", Ready(queue[th][i]), InGuildDeposit(th, i, ok)
    PROVE  WorkDeed(th, i)
  <1> PICK q : q = queue[th][i]
    OBVIOUS
  <1> PICK r : r = queue'[th][i]
    OBVIOUS
  <1>1. StatusOK /\ q.e \in User /\ q.x \in Int /\ q.cmd = "deposit" /\ q.good = FALSE
    BY DEF TInv, QueueOK, ReqOK, Ready
  <1>2. /\ \A at : Go(th, i, at) => lapse' = lapse /\ Outcome(q, r, at, FALSE)
        /\ Succeed(th, i) => lapse' = lapse /\ Outcome(q, r, "done", TRUE)
        /\ Refuse(th, i) => lapse' = lapse /\ Outcome(q, r, "done", FALSE)
        /\ Break(th, i) => lapse' = TRUE
    BY StepOutcomes
  <1>3. ASSUME status' = status, lapse' = lapse, NEW at, NEW good, Outcome(q, r, at, good),
               \/ q.at \in {"new", "found"} /\ at \in {"found", "done"} /\ ~good
               \/ q.at = "paid" /\ at = "given"
               \/ q.at = "given" /\ at = "done" /\ good
        PROVE  WorkDeed(th, i)
    <2>1. /\ Paid(r) <=> Paid(q)
          /\ r.cmd = "deposit" /\ r.x = q.x
      BY <1>1, <1>3 DEF Outcome, Paid, Passed
    <2>2. \A e \in User : NoDeed(q, r, e, status[e], status'[e])
      BY <1>1, <1>3, <2>1 DEF NoDeed, Emptied, Joined, Quits, Reads, SamePlace
    <2>3. QED
      BY <1>3, <2>2 DEF WorkDeed, Deed
  <1>4. CASE q.at = "found" /\ ok /\ status[q.e].gold >= q.x
    <2>1. UpdateMoney(q.e, -q.x) /\ lapse' = lapse /\ Outcome(q, r, "paid", FALSE)
      BY <1>2, <1>4 DEF InGuildDeposit
    <2>2. ~Effective(q) /\ Paid(r) /\ ~Joined(r) /\ r.cmd = "deposit" /\ r.x = q.x
      BY <1>1, <1>4, <2>1 DEF Outcome, Effective, Paid, Joined, Quits, Emptied, Passed
    <2>3. ASSUME NEW e \in User PROVE PayDeed(q, r, e, status[e], status'[e])
      <3>1. /\ SamePlace(status[e], status'[e])
            /\ status'[e].gold = IF q.e = e THEN status[e].gold + (-q.x) ELSE status[e].gold
        BY <1>1, <2>1, MoneyRow
      <3>2. status[e].gold + (-q.x) = Earned(r, status[e].gold)
        BY <1>1, <2>2 DEF Earned, StatusOK
      <3>3. QED
        BY <2>2, <3>1, <3>2 DEF PayDeed
    <2>4. QED
      BY <2>1, <2>3 DEF WorkDeed, Deed
  <1>5. CASE q.at = "new" \/ (q.at = "found" /\ ~(ok /\ status[q.e].gold >= q.x))
    <2>1. status' = status /\ lapse' = lapse /\ \E at \in {"found", "done"} : Outcome(q, r, at, FALSE)
      BY <1>2, <1>5 DEF InGuildDeposit, tables
    <2>2. QED
      BY <1>3, <1>5, <2>1
  <1>6. CASE q.at = "paid"
    <2>1. status' = status /\ (lapse' = TRUE \/ (lapse' = lapse /\ Outcome(q, r, "given", FALSE)))
      BY <1>2, <1>6 DEF InGuildDeposit
    <2>2. QED
      BY <1>3, <1>6, <2>1 DEF WorkDeed
  <1>7. CASE q.at = "given"
    <2>1. status' = status /\ (lapse' = TRUE \/ (lapse' = lapse /\ Outcome(q, r, "done", TRUE)))
      BY <1>2, <1>7 DEF InGuildDeposit
    <2>2. QED
      BY <1>3, <1>7, <2>1 DEF WorkDeed
  <1>8. QED
    BY <1>4, <1>5, <1>6, <1>7 DEF InGuildDeposit

LEMMA BonusDeed ==
    ASSUME TInv, NEW th \in Thread, NEW i \in 1 .. Len(queue[th]), NEW ok \in BOOLEAN,
           queue[th][i].cmd = "bonus", Ready(queue[th][i]), InGuildBonus(th, i, ok)
    PROVE  WorkDeed(th, i)
  <1> PICK q : q = queue[th][i]
    OBVIOUS
  <1> PICK r : r = queue'[th][i]
    OBVIOUS
  <1>1. StatusOK /\ q.e \in User /\ q.cmd = "bonus" /\ q.good = FALSE /\ DOMAIN q = Fields
    BY DEF TInv, QueueOK, ReqOK, Ready
  <1>2. /\ \A at : Go(th, i, at) => lapse' = lapse /\ Outcome(q, r, at, FALSE)
        /\ Succeed(th, i) => lapse' = lapse /\ Outcome(q, r, "done", TRUE)
        /\ Refuse(th, i) => lapse' = lapse /\ Outcome(q, r, "done", FALSE)
        /\ Break(th, i) => lapse' = TRUE
    BY StepOutcomes
  <1>3. ASSUME status' = status, lapse' = lapse, r.cmd = "bonus",
               Paid(r) <=> Paid(q), r.x = q.x \/ ~Paid(q)
        PROVE  WorkDeed(th, i)
    <2>1. \A e \in User : NoDeed(q, r, e, status[e], status'[e])
      BY <1>1, <1>3 DEF NoDeed, Effective, Emptied, Joined, Quits, Reads, SamePlace
    <2>2. QED
      BY <1>3, <2>1 DEF WorkDeed, Deed
  <1>4. CASE q.at = "new"
    <2>1. status' = status
      BY <1>4 DEF InGuildBonus, tables
    <2>2. ASSUME NEW b, Set(th, i, [q EXCEPT !.at = "due", !.x = b]), lapse' = lapse PROVE WorkDeed(th, i)
      <3>1. PICK u : u = [q EXCEPT !.at = "due", !.x = b]
        OBVIOUS
      <3>2. r = u
        BY <2>2, <3>1, SetIs
      <3>3. r.at = "due" /\ r.cmd = "bonus" /\ r.good = FALSE
        BY <1>1, <3>1, <3>2 DEF Fields
      <3>4. QED
        BY <1>3, <1>4, <2>1, <2>2, <3>3 DEF Paid, Passed
    <2>3. CASE Refuse(th, i)
      BY <1>1, <1>2, <1>3, <1>4, <2>1, <2>3 DEF Outcome, Paid, Passed
    <2>4. QED
      BY <1>4, <2>2, <2>3 DEF InGuildBonus
  <1>5. CASE q.at = "due"
    <2>1. CASE ok
      <3>1. UpdateMoney(q.e, q.x) /\ lapse' = lapse /\ Outcome(q, r, "paid", FALSE)
        BY <1>2, <1>5, <2>1 DEF InGuildBonus
      <3>2. ~Effective(q) /\ Paid(r) /\ ~Joined(r) /\ r.cmd = "bonus" /\ r.x = q.x
        BY <1>1, <1>5, <3>1 DEF Outcome, Effective, Paid, Joined, Quits, Emptied, Passed
      <3>3. \A e \in User : PayDeed(q, r, e, status[e], status'[e])
        BY <1>1, <3>1, <3>2, MoneyRow DEF PayDeed, Earned
      <3>4. QED
        BY <3>1, <3>3 DEF WorkDeed, Deed
    <2>2. CASE ~ok
      BY <1>1, <1>2, <1>3, <1>5, <2>2 DEF InGuildBonus, Outcome, Paid, Passed
    <2>3. QED
      BY <2>1, <2>2
  <1>6. CASE q.at = "paid"
    <2>1. status' = status /\ (lapse' = TRUE \/ (lapse' = lapse /\ Outcome(q, r, "done", TRUE)))
      BY <1>2, <1>6 DEF InGuildBonus
    <2>2. QED
      BY <1>1, <1>3, <1>6, <2>1 DEF WorkDeed, Outcome, Paid, Passed
  <1>7. QED
    BY <1>4, <1>5, <1>6 DEF InGuildBonus

LEMMA LevelDeed ==
    ASSUME TInv, NEW th \in Thread, NEW i \in 1 .. Len(queue[th]), NEW ok \in BOOLEAN,
           queue[th][i].cmd \in {"glv", "glevelup"}, Work(th, i, ok)
    PROVE  WorkDeed(th, i)
  <1> PICK q : q = queue[th][i]
    OBVIOUS
  <1> PICK r : r = queue'[th][i]
    OBVIOUS
  <1>1. status' = status /\ lapse' = lapse
    BY DEF Work, InGlv, InGlevelup, Succeed, Refuse, tables
  <1>2. PICK to, u : Set(th, i, u) /\ Same(q, u)
    BY WorkType DEF MovedTo
  <1>3. r.cmd = q.cmd
    BY <1>2, SetIs DEF Same
  <1>4. \A e \in User : NoDeed(q, r, e, status[e], status'[e])
    BY <1>1, <1>3 DEF NoDeed, Effective, Paid, Emptied, Joined, Quits, Reads, SamePlace
  <1>5. QED
    BY <1>1, <1>4 DEF WorkDeed, Deed

LEMMA LoginDeed ==
    ASSUME TInv, NEW th \in Thread, NEW i \in 1 .. Len(queue[th]), queue[th][i].cmd = "login", InLogin(th, i)
    PROVE  WorkDeed(th, i) /\ queue'[th][i].good
  <1> PICK q : q = queue[th][i]
    OBVIOUS
  <1> PICK r : r = queue'[th][i]
    OBVIOUS
  <1>1. DOMAIN q = Fields /\ q.cmd = "login"
    BY DEF TInv, QueueOK, ReqOK
  <1>2. status' = status /\ lapse' = lapse
    BY DEF InLogin, tables
  <1> DEFINE v == <<status[q.e].gid, status[q.e].gpos, status[q.e].gold,
                       IF Exists(status[q.e].gid) THEN guild[status[q.e].gid].glevel ELSE 0>>
  <1>3. v[1] = status[q.e].gid /\ v[2] = status[q.e].gpos /\ v[3] = status[q.e].gold
    OBVIOUS
  <1>4. Set(th, i, [q EXCEPT !.at = "done", !.good = TRUE, !.got = v])
    BY DEF InLogin
  <1> HIDE DEF v
  <1>5. r.at = "done" /\ r.good /\ r.cmd = "login" /\ r.e = q.e /\ r.got = v
    <2>1. PICK u : u = [q EXCEPT !.at = "done", !.good = TRUE, !.got = v]
      OBVIOUS
    <2>2. r = u
      BY <1>4, <2>1, SetIs
    <2>3. QED
      BY <1>1, <2>1, <2>2 DEF Fields
  <1>6. \A e \in User : ReadDeed(q, r, e, status[e], status'[e])
    BY <1>2, <1>3, <1>5 DEF ReadDeed, SamePlace, PlaceIs
  <1>7. QED
    BY <1>2, <1>5, <1>6 DEF WorkDeed, Deed

\* Whatever a worker does, it breaks off or does one of these.
LEMMA WorkDeeds ==
    ASSUME TInv, NEW th \in Thread, NEW i \in 1 .. Len(queue[th]), NEW ok \in BOOLEAN,
           Ready(queue[th][i]), Work(th, i, ok)
    PROVE  WorkDeed(th, i) /\ (queue[th][i].cmd = "login" => queue'[th][i].good)
  <1>1. CASE queue[th][i].cmd \in {"create", "apply", "gpos", "gquit", "delete"}
    BY <1>1, CreateDeed, ApplyDeed, GposDeed, GquitDeed, DeleteDeed DEF Work
  <1>2. CASE queue[th][i].cmd \in {"deposit", "bonus"}
    BY <1>2, DepositDeed, BonusDeed DEF Work
  <1>3. CASE queue[th][i].cmd = "login"
    BY <1>3, LoginDeed DEF Work
  <1>4. CASE queue[th][i].cmd \in {"glv", "glevelup"}
    BY <1>4, LevelDeed
  <1>5. QED
    BY <1>1, <1>2, <1>3, <1>4 DEF Work

----------------------------------------------------------------------------
(* The worker's step                                                       *)

\* A request that has done nothing tells nothing.
LEMMA NewDoes == ASSUME NEW q, q.at = "new" PROVE ~Effective(q) /\ \A e : ~Reads(q, e)
  BY DEF Effective, Paid, Joined, Quits, Emptied, Passed, Reads

LEMMA NothingTold ==
    ASSUME NEW q, NEW e, NEW a, ~Effective(q), ~Reads(q, e)
    PROVE  Told(q, e, a, a) /\ \A b : Told(q, e, a, b) => b.up = a.up /\ (a.up => SamePlace(a, b) /\ b.gold = a.gold)
  BY DEF Told, Effective, Out, SamePlace

LEMMA DeedLasts ==
    ASSUME NEW q, NEW r, NEW e, NEW s, NEW t, Going(q, r), Effective(q), Deed(q, r, e, s, t)
    PROVE  Effective(r)
  BY DEF Deed, NoDeed, PayDeed, JoinDeed, LeaveDeed, EmptyDeed, ReadDeed, Effective,
         Paid, Joined, Quits, Emptied, Going

\* Who deletes his guild is in it, and in no other by the tables.
LEMMA OwnGuild ==
    ASSUME OneInv, AsksOK, NEW i \in Places, Q[i].cmd = "delete", Q[i].by # NoOne, Q[i].e \in User
    PROVE  conn[Q[i].e].up /\ conn[Q[i].e].gid = Q[i].g /\ status[Q[i].e].gid \in {NoGuild, Q[i].g}
  <1> PICK u : u = Q[i].e
    OBVIOUS
  <1>1. Q[i].by = u /\ Q[i].g = u /\ u \in User /\ conn[u].up /\ conn[u].gid = u /\ u # NoGuild
    BY Nobody DEF OneInv, AskedOK, AsksOK
  <1>2. \A j \in Places : ~Taken(u, j)
    BY <1>1 DEF OneInv, AskedOK, Taken
  <1>3. Anchor(u, 0, u)
    BY <1>1, <1>2 DEF Anchor
  <1>4. 0 \in 0 .. Len(Q)
    BY DEF Places
  <1>5. Chain(u, 0, u)
    BY <1>1, <1>3, <1>4 DEF OneInv, ChainOK
  <1>6. QED
    BY <1>1, <1>5 DEF Chain

LEMMA WorkRun ==
    ASSUME StatusOK, OneInv, NEW i, NEW r, Advance(i, r), r.at # "new", NEW e \in User, RunOK(e), conn' = conn,
           Deed(Q[i], r, e, status[e], status'[e]), Emptied(r) => status[Q[i].e].gid \in {NoGuild, Q[i].g} /\ Q[i].g # NoGuild
    PROVE  RunOK(e)'
  <1> PICK q : q = Q[i]
    OBVIOUS
  <1>1. /\ Len(Q) \in Nat /\ i \in Places /\ Places' = Places
        /\ \A j \in Places : Q'[j] = IF j = i THEN r ELSE Q[j]
        /\ \A j \in Places : i < j => Q[j].at = "new"
        /\ Going(q, r)
    BY DEF Advance, Going
  <1>2. PICK v : /\ Shows(conn[e], v[0])
                 /\ \A p \in Places : Told(Q[p], e, v[p - 1], v[p])
                 /\ \A p \in 0 .. Len(Q) : Settled(p) => Agrees(status[e], v[p])
    BY DEF RunOK
  <1>3. PICK b : Told(r, e, v[i - 1], b)
    BY ToldSome
  <1>4. Agrees(status'[e], b)
    <2>1. Settled(i) /\ i \in 0 .. Len(Q)
      BY <1>1 DEF Settled, Places
    <2>2. Told(q, e, v[i - 1], v[i]) /\ Agrees(status[e], v[i])
      BY <1>1, <1>2, <2>1
    <2>3. /\ status[e].gid = NoGuild <=> status[e].gpos = GUILD_POS_NONE
          /\ status[e].gpos \in Gpos
      BY DEF OneInv, PosOK, StatusOK
    <2>4. (q.g = NoGuild => ~Emptied(r)) /\ (Emptied(r) /\ q.e = e => status[e].gid \in {NoGuild, q.g})
      OBVIOUS
    <2>5. PICK s, t : s = status[e] /\ t = status'[e]
      OBVIOUS
    <2>6. Agrees(t, b)
      BY <1>1, <1>3, <2>2, <2>3, <2>4, <2>5, DeedTold
    <2>7. QED
      BY <2>5, <2>6
  <1>5. PICK w : w = [p \in 0 .. Len(Q) |-> IF p < i THEN v[p] ELSE b]
    OBVIOUS
  <1>6. 0 .. Len(Q') = 0 .. Len(Q)
    BY <1>1 DEF Places
  <1>7. Shows(conn'[e], w[0])
    <2>1. w[0] = v[0]
      BY <1>1, <1>5 DEF Places
    <2>2. QED
      BY <1>2, <2>1
  <1>8. ASSUME NEW p \in Places PROVE Told(Q'[p], e, w[p - 1], w[p])
    <2>1. p \in Nat /\ p \in 0 .. Len(Q) /\ p - 1 \in 0 .. Len(Q)
      BY <1>1 DEF Places
    <2>2. CASE p < i
      <3>1. w[p] = v[p] /\ w[p - 1] = v[p - 1] /\ Q'[p] = Q[p]
        BY <1>1, <1>5, <2>1, <2>2 DEF Places
      <3>2. QED
        BY <1>2, <3>1
    <2>3. CASE p = i
      <3>1. w[p] = b /\ w[p - 1] = v[p - 1] /\ Q'[p] = r
        BY <1>1, <1>5, <2>1, <2>3 DEF Places
      <3>2. QED
        BY <1>3, <2>3, <3>1
    <2>4. CASE i < p
      <3>1. w[p] = b /\ w[p - 1] = b /\ Q'[p] = Q[p] /\ Q[p].at = "new"
        BY <1>1, <1>5, <2>1, <2>4 DEF Places
      <3>2. QED
        BY <3>1, NewDoes, NothingTold
    <2>5. QED
      BY <1>1, <2>1, <2>2, <2>3, <2>4 DEF Places
  <1>9. ASSUME NEW p \in 0 .. Len(Q), Settled(p)' PROVE Agrees(status'[e], w[p])
    <2>1. ~(p < i)
      BY <1>1, <1>9 DEF Settled
    <2>2. w[p] = b
      BY <1>5, <2>1
    <2>3. QED
      BY <1>4, <2>2
  <1>10. QED
    BY <1>1, <1>6, <1>7, <1>8, <1>9 DEF RunOK

LEMMA WorkAgrees ==
    ASSUME TInv, MInv, AInv, threads = 1, NEW th \in Thread, NEW i \in 1 .. Len(queue[th]), NEW ok \in BOOLEAN,
           Current(th, i), Work(th, i, ok), UNCHANGED <<threads, conn, map>>
    PROVE  AInv'
  <1> PICK r : r = queue'[th][i]
    OBVIOUS
  <1> PICK q : q = Q[i]
    OBVIOUS
  <1>1. th = 0 /\ Ready(q) /\ ReqOK(q) /\ Advance(i, r) /\ r.at # "new" /\ q = queue[th][i]
    BY WorkAdvance DEF Q
  <1>2. WorkDeed(th, i) /\ (q.cmd = "login" => r.good)
    BY <1>1, WorkDeeds
  <1>3. /\ i \in Places /\ Places' = Places
        /\ \A j \in Places : Q'[j] = IF j = i THEN r ELSE Q[j]
        /\ r.cmd = q.cmd /\ r.e = q.e /\ r.g = q.g /\ r.by = q.by /\ Going(q, r)
    BY <1>1 DEF Advance, Going
  <1>4. AsksOK /\ OneInv /\ (Spared => \A e \in User : RunOK(e))
    BY DEF AInv, MInv
  <1>5. AsksOK'
    BY <1>2, <1>3, <1>4 DEF AsksOK
  <1>6. ASSUME Spared', NEW e \in User PROVE RunOK(e)'
    <2>1. lapse' # TRUE
      BY <1>6 DEF Spared
    <2>2. lapse' = lapse /\ \A u \in User : Deed(q, r, u, status[u], status'[u])
      BY <1>1, <1>2, <2>1 DEF WorkDeed
    <2>3. Spared
      <3>1. Effective(q) => Effective(r)
        <4>1. PICK s, t : s = status[e] /\ t = status'[e]
          OBVIOUS
        <4>2. Deed(q, r, e, s, t)
          BY <2>2, <4>1
        <4>3. QED
          BY <1>3, <4>2, DeedLasts
      <3>2. ASSUME NEW j \in Places, Effective(Q[j]) PROVE Q[j].by # NoOne
        BY <1>3, <1>6, <3>1, <3>2 DEF Spared
      <3>3. QED
        BY <1>6, <2>2, <3>2 DEF Spared
    <2>4. RunOK(e)
      BY <1>4, <2>3
    <2>5. ASSUME Emptied(r) PROVE status[q.e].gid \in {NoGuild, q.g} /\ q.g # NoGuild
      <3>1. q.cmd = "delete" /\ q.by # NoOne /\ q.e \in User /\ q.g = q.e
        BY <1>1, <1>3, <1>6, <2>5 DEF Spared, Emptied, Effective, ReqOK, Ready
      <3>2. QED
        BY <1>3, <1>4, <3>1, OwnGuild, Nobody
    <2>6. StatusOK
      BY DEF TInv
    <2>7. QED
      BY <1>1, <1>4, <2>2, <2>4, <2>5, <2>6, WorkRun
  <1>7. QED
    BY <1>5, <1>6 DEF AInv

----------------------------------------------------------------------------
(* The main loop's steps                                                   *)

\* Nothing of the connection's row has changed that the tables have too.
SameRow(c, d) == d.up = c.up /\ SamePlace(c, d) /\ d.gold = c.gold

LEMMA EnteredRun ==
    ASSUME NEW r, Entered(r), NEW e \in User, RunOK(e), SameRow(conn[e], conn'[e]), status' = status
    PROVE  RunOK(e)'
  <1> PICK n \in Nat : n = Len(Q) + 1
    BY DEF Entered
  <1>1. /\ \A j \in Places : j \in Places' /\ Q'[j] = Q[j] /\ j < n
        /\ \A j \in Places' : j \in Places \/ j = n
        /\ Q'[n] = r /\ r.at = "new" /\ Len(Q') = n /\ n - 1 = Len(Q) /\ n - 1 \in Nat
    <2>1. Len(Q') = n /\ n - 1 = Len(Q) /\ n - 1 \in Nat /\ Q'[n] = r /\ r.at = "new"
      BY DEF Entered
    <2>2. \A j \in Places : Q'[j] = Q[j]
      BY DEF Entered
    <2>3. QED
      BY <2>1, <2>2, EnteredPlaces
  <1>2. PICK v : /\ Shows(conn[e], v[0])
                 /\ \A p \in Places : Told(Q[p], e, v[p - 1], v[p])
                 /\ \A p \in 0 .. Len(Q) : Settled(p) => Agrees(status[e], v[p])
    BY DEF RunOK
  <1>3. PICK w : w = [p \in 0 .. n |-> IF p < n THEN v[p] ELSE v[n - 1]]
    OBVIOUS
  <1>4. Shows(conn'[e], w[0])
    <2>1. w[0] = v[0]
      BY <1>1, <1>3
    <2>2. QED
      BY <1>2, <2>1 DEF Shows, SameRow, SamePlace
  <1>5. ASSUME NEW p \in Places' PROVE Told(Q'[p], e, w[p - 1], w[p])
    <2>1. CASE p \in Places
      <3>1. w[p] = v[p] /\ w[p - 1] = v[p - 1]
        BY <1>1, <1>3, <2>1 DEF Places
      <3>2. QED
        BY <1>1, <1>2, <2>1, <3>1
    <2>2. CASE p = n
      <3>1. w[n] = v[n - 1] /\ w[n - 1] = v[n - 1]
        BY <1>1, <1>3
      <3>2. ~Effective(r) /\ ~Reads(r, e)
        BY <1>1, NewDoes
      <3>3. Told(r, e, v[n - 1], v[n - 1])
        BY <3>2, NothingTold
      <3>4. QED
        BY <1>1, <2>2, <3>1, <3>3
    <2>3. QED
      BY <1>1, <2>1, <2>2
  <1>6. ASSUME NEW p \in 0 .. n, Settled(p)' PROVE Agrees(status'[e], w[p])
    <2>1. CASE p < n
      <3>1. Settled(p) /\ p \in 0 .. Len(Q) /\ w[p] = v[p]
        BY <1>1, <1>3, <1>6, <2>1 DEF Settled
      <3>2. QED
        BY <1>2, <3>1
    <2>2. CASE p = n
      <3>1. Settled(n - 1) /\ n - 1 \in 0 .. Len(Q) /\ w[p] = v[n - 1]
        BY <1>1, <1>3, <2>2 DEF Settled, Places
      <3>2. QED
        BY <1>2, <3>1
    <2>3. QED
      BY <2>1, <2>2
  <1>7. QED
    BY <1>1, <1>4, <1>5, <1>6 DEF RunOK

LEMMA EnteredAgrees ==
    ASSUME NEW r, Entered(r), OneInv, AInv, threads = 1, UNCHANGED <<threads, status, lapse>>,
           \A u \in User : SameRow(conn[u], conn'[u]),
           r.cmd \in {"deposit", "bonus"} => r.by = r.e,
           r.cmd = "gquit" /\ r.e = r.g => r.by = r.e,
           r.cmd = "delete" => r.by \in User /\ conn[r.by].gid = r.g
    PROVE  AInv'
  <1> PICK n \in Nat : n = Len(Q) + 1
    BY DEF Entered
  <1>1. /\ \A j \in Places : j \in Places' /\ Q'[j] = Q[j]
        /\ \A j \in Places' : j \in Places \/ j = n
        /\ Q'[n] = r /\ r.at = "new"
    BY EnteredPlaces DEF Entered
  <1>2. AsksOK /\ AskedOK
    BY DEF AInv, OneInv
  <1>3. AsksOK'
    <2> SUFFICES ASSUME NEW i \in Places'
        PROVE  /\ Q'[i].cmd \in {"deposit", "bonus"} => Q'[i].by \in {Q'[i].e, NoOne}
               /\ Q'[i].cmd = "gquit" /\ Q'[i].e = Q'[i].g => Q'[i].by \in {Q'[i].e, NoOne}
               /\ Q'[i].cmd = "delete" /\ Q'[i].by # NoOne => conn'[Q'[i].by].gid = Q'[i].g
               /\ Q'[i].cmd = "login" /\ Q'[i].at = "done" => Q'[i].good
      BY DEF AsksOK
    <2>1. CASE i \in Places
      <3>1. Q'[i] = Q[i]
        BY <1>1, <2>1
      <3>2. Q[i].by # NoOne => Q[i].by \in User
        BY <1>2, <2>1 DEF AskedOK
      <3>3. Q[i].cmd = "delete" /\ Q[i].by # NoOne => conn'[Q[i].by].gid = Q[i].g
        BY <1>2, <2>1, <3>2 DEF AsksOK, SameRow, SamePlace
      <3>4. QED
        BY <1>2, <2>1, <3>1, <3>3 DEF AsksOK
    <2>2. CASE i = n
      BY <1>1, <2>2 DEF SameRow, SamePlace
    <2>3. QED
      BY <1>1, <2>1, <2>2
  <1>4. ASSUME Spared', NEW e \in User PROVE RunOK(e)'
    <2>1. Spared
      BY <1>1, <1>4 DEF Spared
    <2>2. QED
      BY <2>1, EnteredRun DEF AInv
  <1>5. QED
    BY <1>3, <1>4 DEF AInv

\* A command of e.
LEMMA DbinAsked ==
    ASSUME TInv, MInv, AInv, NEW e \in User, NEW cmd, NEW t \in User, NEW g \in User \cup {NoGuild}, NEW x, NEW max,
           DbinWrite(e, NewRequest(cmd, e, t, g, x, max)),
           cmd \in {"create", "deposit"} => x \in Int,
           cmd = "gpos" => x \in {GUILD_POS_SENIOR, GUILD_POS_MEMBER} /\ g \in User,
           cmd = "gquit" => g \in User /\ (t = g => t = e),
           cmd \in {"deposit", "bonus"} => t = e,
           cmd = "delete" => conn[e].gid = g
    PROVE  AInv'
  <1>1. PICK r : r = NewRequest(cmd, e, t, g, x, max)
    OBVIOUS
  <1>2. ReqOK(r) /\ r.at = "new" /\ r.cmd = cmd /\ r.e = t
    BY <1>1, NewOK
  <1>3. r.by = e /\ r.g = g /\ r.good = FALSE
    BY <1>1 DEF NewRequest
  <1>4. DbinWrite(e, r) /\ UNCHANGED <<threads, status, lapse>>
    BY <1>1 DEF DbinWrite
  <1>5. ASSUME threads = 1 PROVE AInv'
    <2>1. Entered(r) /\ BusyNow(conn, conn', e, TRUE)
      BY <1>2, <1>3, <1>4, <1>5, DbinEnters
    <2>2. \A u \in User : SameRow(conn[u], conn'[u])
      BY <2>1 DEF BusyNow, Seen, SameRow, SamePlace
    <2>3. QED
      BY <1>2, <1>3, <1>4, <1>5, <2>1, <2>2, EnteredAgrees DEF MInv
  <1>6. QED
    BY <1>4, <1>5 DEF AInv

LEMMA DbinAgrees ==
    ASSUME TInv, MInv, AInv, NEW e \in User, NEW t \in User,
           \/ DbinCreateGuild(e) \/ DbinDeleteGuild(e) \/ DbinGdeposit(e, 1) \/ DbinGbonus(e)
           \/ DbinGlv(e) \/ DbinGlevelup(e) \/ DbinGapply(e, t) \/ DbinGquit(e, t)
           \/ DbinGpos(e, t, GUILD_POS_SENIOR) \/ DbinGpos(e, t, GUILD_POS_MEMBER)
    PROVE  AInv'
  <1> PICK g : g = conn[e].gid
    OBVIOUS
  <1>0. CreateGold \in Int /\ g \in User \cup {NoGuild} /\ 1 \in Int
    BY GuildAssumption DEF TInv, ConnOK, Rows
  <1>1. CASE DbinCreateGuild(e)
    BY <1>0, <1>1, DbinAsked DEF DbinCreateGuild
  <1>2. CASE DbinDeleteGuild(e)
    BY <1>2, DbinAsked DEF DbinDeleteGuild
  <1>3. CASE DbinGdeposit(e, 1)
    BY <1>0, <1>3, DbinAsked DEF DbinGdeposit
  <1>4. CASE DbinGbonus(e)
    BY <1>4, DbinAsked DEF DbinGbonus
  <1>5. CASE DbinGlv(e)
    BY <1>0, <1>5, DbinAsked DEF DbinGlv
  <1>6. CASE DbinGlevelup(e)
    BY <1>6, DbinAsked DEF DbinGlevelup
  <1>7. CASE DbinGapply(e, t)
    BY <1>7, DbinAsked DEF DbinGapply
  <1>8. CASE DbinGquit(e, t)
    <2>1. g \in User /\ (t = g => t = e)
      BY <1>0, <1>8 DEF DbinGquit
    <2>2. \E max : DbinWrite(e, NewRequest("gquit", e, t, g, 0, max))
      BY <1>8 DEF DbinGquit
    <2>3. QED
      BY <2>1, <2>2, DbinAsked
  <1>9. ASSUME NEW pos \in {GUILD_POS_SENIOR, GUILD_POS_MEMBER}, DbinGpos(e, t, pos) PROVE AInv'
    <2>1. g \in User
      BY <1>0, <1>9 DEF DbinGpos
    <2>2. \E max : DbinWrite(e, NewRequest("gpos", e, t, g, pos, max))
      BY <1>9 DEF DbinGpos
    <2>3. QED
      BY <2>1, <2>2, DbinAsked
  <1>10. QED
    BY <1>1, <1>2, <1>3, <1>4, <1>5, <1>6, <1>7, <1>8, <1>9

LEMMA LoginAgrees ==
    ASSUME TInv, MInv, AInv, NEW e \in User, NEW th \in Thread, DbinLogin(e, th)
    PROVE  AInv'
  <1>1. PICK r : r = NewRequest("login", NoOne, e, NoGuild, 0, 0)
    OBVIOUS
  <1>2. ReqOK(r) /\ r.at = "new" /\ r.cmd = "login" /\ r.good = FALSE
    BY <1>1, NewOK DEF NewRequest
  <1>3. queue' = [queue EXCEPT ![th] = Append(@, r)] /\ UNCHANGED <<threads, status, conn, lapse>>
    BY <1>1 DEF DbinLogin, tables, main
  <1>4. ASSUME threads = 1 PROVE AInv'
    <2>1. Thread = {0} /\ th = 0 /\ Len(Q) \in Nat
      BY <1>4, QueueIs
    <2>2. /\ Len(queue'[0]) = Len(queue[0]) + 1 /\ queue'[0][Len(queue[0]) + 1] = r
          /\ \A j \in 1 .. Len(queue[0]) : queue'[0][j] = queue[0][j]
      BY <1>2, <1>3, <2>1, AddQueue DEF TInv
    <2>3. Entered(r)
      BY <1>2, <2>1, <2>2 DEF Entered, Q, Places
    <2>4. \A u \in User : SameRow(conn[u], conn'[u])
      BY <1>3 DEF SameRow, SamePlace
    <2>5. QED
      BY <1>2, <1>3, <1>4, <2>3, <2>4, EnteredAgrees DEF MInv
  <1>5. QED
    BY <1>3, <1>4 DEF AInv

\* A request that nobody waits for any more has done what it has.
LEMMA TwinTells ==
    ASSUME NEW q, NEW r, r.cmd = q.cmd, r.e = q.e, r.g = q.g, r.x = q.x, r.at = q.at, r.good = q.good, r.got = q.got
    PROVE  (Effective(r) <=> Effective(q)) /\ \A e, a, b : Told(q, e, a, b) => Told(r, e, a, b)
  <1>1. /\ Paid(r) <=> Paid(q)
        /\ Joined(r) <=> Joined(q)
        /\ Quits(r) <=> Quits(q)
        /\ Emptied(r) <=> Emptied(q)
        /\ \A e : Reads(r, e) <=> Reads(q, e)
    BY DEF Paid, Joined, Quits, Emptied, Reads, Passed
  <1>2. Rank(r) = Rank(q) /\ \A gold : Earned(r, gold) = Earned(q, gold)
    BY DEF Rank, Earned
  <1>3. \A e, a : Out(r, e, a) <=> Out(q, e, a)
    BY <1>1 DEF Out
  <1>4. QED
    BY <1>1, <1>2, <1>3 DEF Effective, Told

LEMMA CleanAgrees ==
    ASSUME TInv, MInv, AInv, NEW e \in User, DoClean(e)
    PROVE  AInv'
  <1>1. /\ conn[e].up /\ conn' = [conn EXCEPT ![e] = Offline]
        /\ queue' = [th \in Thread |-> [i \in 1 .. Len(queue[th]) |-> Unasked(queue[th][i], e)]]
        /\ UNCHANGED <<threads, status, lapse>> /\ ConnOK
    BY DEF DoClean, Unasked, tables, bounds, TInv
  <1>2. ~conn'[e].up /\ \A u \in User \ {e} : conn'[u] = conn[u]
    BY <1>1 DEF ConnOK, Rows, Offline
  <1>3. ASSUME threads = 1 PROVE AInv'
    <2>1. 0 \in Thread /\ Len(Q) \in Nat /\ \A j \in Places : ReqOK(Q[j])
      BY <1>3, QueueIs
    <2> PICK n \in Nat : n = Len(Q)
      BY <2>1
    <2>2. Q' = [i \in 1 .. n |-> Unasked(Q[i], e)]
      BY <1>1, <2>1 DEF Q
    <2>3. Len(Q') = n /\ Places' = Places
      BY <2>2 DEF Places
    <2>4. ASSUME NEW j \in Places
          PROVE  /\ Q'[j].cmd = Q[j].cmd /\ Q'[j].e = Q[j].e /\ Q'[j].g = Q[j].g /\ Q'[j].x = Q[j].x
                 /\ Q'[j].at = Q[j].at /\ Q'[j].good = Q[j].good /\ Q'[j].got = Q[j].got
                 /\ Q'[j].by = IF Q[j].by = e THEN NoOne ELSE Q[j].by
      <3>1. Q'[j] = Unasked(Q[j], e) /\ DOMAIN Q[j] = Fields
        BY <2>1, <2>2 DEF Places, ReqOK
      <3>2. QED
        BY <3>1 DEF Unasked, Fields
    <2>5. OneInv /\ AsksOK
      BY <1>3 DEF MInv, AInv
    <2>6. AsksOK'
      <3>1. ASSUME NEW j \in Places, Q'[j].cmd = "delete", Q'[j].by # NoOne PROVE conn'[Q'[j].by].gid = Q'[j].g
        <4>1. Q'[j].by = Q[j].by /\ Q[j].by # e /\ Q[j].by \in User
          BY <2>4, <2>5, <3>1 DEF OneInv, AskedOK
        <4>2. conn'[Q[j].by] = conn[Q[j].by]
          BY <1>2, <4>1
        <4>3. QED
          BY <2>4, <2>5, <3>1, <4>1, <4>2 DEF AsksOK
      <3>2. QED
        BY <2>3, <2>4, <2>5, <3>1 DEF AsksOK
    <2>7. ASSUME Spared', NEW u \in User PROVE RunOK(u)'
      <3>1. \A j \in Places : (Effective(Q'[j]) <=> Effective(Q[j])) /\ \A a, b : Told(Q[j], u, a, b) => Told(Q'[j], u, a, b)
        BY <2>4, TwinTells
      <3>2. Spared
        BY <1>1, <2>3, <2>4, <2>7, <3>1 DEF Spared
      <3>3. \A p : Settled(p)' => Settled(p)
        BY <2>3, <2>4 DEF Settled
      <3>4. CASE u # e
        <4>1. PICK v : /\ Shows(conn[u], v[0])
                       /\ \A p \in Places : Told(Q[p], u, v[p - 1], v[p])
                       /\ \A p \in 0 .. Len(Q) : Settled(p) => Agrees(status[u], v[p])
          BY <1>3, <3>2 DEF AInv, RunOK
        <4>2. conn'[u] = conn[u]
          BY <1>2, <3>4
        <4>3. /\ Shows(conn'[u], v[0])
              /\ \A p \in Places' : Told(Q'[p], u, v[p - 1], v[p])
              /\ \A p \in 0 .. Len(Q') : Settled(p)' => Agrees(status'[u], v[p])
          BY <1>1, <2>3, <3>1, <3>3, <4>1, <4>2
        <4>4. QED
          BY <4>3 DEF RunOK
      <3>5. CASE u = e
        <4>1. PICK v : v = [p \in 0 .. n |-> conn'[e]]
          OBVIOUS
        <4>2. \A p \in Places : p \in 0 .. n /\ p - 1 \in 0 .. n
          BY DEF Places
        <4>3. ASSUME NEW p \in Places PROVE Told(Q'[p], u, v[p - 1], v[p])
          <5>1. ~Reads(Q'[p], e)
            BY <1>1, <2>4, <2>5 DEF Reads, OneInv, LoginsOK
          <5>2. v[p - 1] = conn'[e] /\ v[p] = conn'[e]
            BY <4>1, <4>2
          <5>3. QED
            BY <1>2, <3>5, <5>1, <5>2 DEF Told
        <4>4. \A p \in 0 .. n : Agrees(status'[u], v[p])
          BY <1>2, <4>1 DEF Agrees
        <4>5. Shows(conn'[u], v[0])
          BY <1>2, <3>5, <4>1 DEF Shows
        <4>6. QED
          BY <2>3, <4>3, <4>4, <4>5 DEF RunOK
      <3>6. QED
        BY <3>4, <3>5
    <2>8. QED
      BY <2>6, <2>7 DEF AInv
  <1>4. QED
    BY <1>1, <1>3 DEF AInv

LEMMA StillAgrees == ASSUME AInv, UNCHANGED <<threads, status, conn, queue, lapse>> PROVE AInv'
  <1>1. Q' = Q /\ Places' = Places
    BY DEF Q, Places
  <1>2. AsksOK' <=> AsksOK
    BY <1>1 DEF AsksOK
  <1>3. Spared' <=> Spared
    BY <1>1 DEF Spared
  <1>4. \A p : Settled(p)' <=> Settled(p)
    BY <1>1 DEF Settled
  <1>5. ASSUME NEW e \in User, RunOK(e) PROVE RunOK(e)'
    BY <1>1, <1>4, <1>5 DEF RunOK
  <1>6. QED
    BY <1>2, <1>3, <1>5 DEF AInv

LEMMA AgreesInit == ASSUME Init PROVE AInv
  <1> SUFFICES ASSUME threads = 1 PROVE AsksOK /\ \A e \in User : RunOK(e)
    BY DEF AInv
  <1>1. Q = <<>>
    <2>1. 0 \in Thread
      BY DEF Thread
    <2>2. queue = [th \in Thread |-> <<>>]
      BY DEF Init
    <2>3. QED
      BY <2>1, <2>2, Zenon DEF Q
  <1>2. Len(Q) = 0 /\ Places = {}
    BY <1>1 DEF Places
  <1>3. ASSUME NEW e \in User PROVE RunOK(e)
    <2>1. PICK v : v = [p \in 0 .. 0 |-> conn[e]]
      OBVIOUS
    <2>2. v[0] = conn[e] /\ \A p \in 0 .. Len(Q) : v[p] = conn[e]
      BY <1>2, <2>1
    <2>3. conn[e].gid = status[e].gid /\ conn[e].gpos = status[e].gpos /\ conn[e].gold = status[e].gold
      BY DEF Init
    <2>4. Shows(conn[e], v[0])
      BY <2>2 DEF Shows, SamePlace
    <2>5. Agrees(status[e], conn[e])
      BY <2>3 DEF Agrees, SamePlace
    <2>6. QED
      BY <1>2, <2>2, <2>4, <2>5 DEF RunOK
  <1>4. QED
    BY <1>2, <1>3 DEF AsksOK

----------------------------------------------------------------------------
(* A reply makes of the connections what it tells                          *)

LEMMA CacheRow ==
    ASSUME NEW c, Rows(c), NEW e \in User, NEW g, NEW p, NEW d, d = Cache(c, e, g, p), NEW u \in User
    PROVE  /\ d[u].up = c[u].up /\ d[u].gold = c[u].gold
           /\ IF u = e /\ c[e].up THEN PlaceIs(d[u], g, p) ELSE SamePlace(c[u], d[u])
  <1>1. CASE ~c[e].up
    BY <1>1 DEF Cache, SamePlace
  <1>2. CASE c[e].up
    <2>1. PICK row : row = [[c[e] EXCEPT !.gid = g] EXCEPT !.gpos = p]
      OBVIOUS
    <2>2. row.up = c[e].up /\ row.gid = g /\ row.gpos = p /\ row.gold = c[e].gold
      BY <2>1 DEF Rows
    <2>3. d = [c EXCEPT ![e].gid = g, ![e].gpos = p]
      BY <1>2 DEF Cache
    <2>4. d[u] = IF u = e THEN row ELSE c[u]
      BY <2>1, <2>3 DEF Rows
    <2>5. QED
      BY <1>2, <2>2, <2>4 DEF PlaceIs, SamePlace
  <1>3. QED
    BY <1>1, <1>2

LEMMA ClearRow ==
    ASSUME NEW c, Rows(c), NEW g, NEW d, d = GuildClear(c, g), NEW u \in User
    PROVE  /\ d[u].up = c[u].up /\ d[u].gold = c[u].gold
           /\ IF c[u].up /\ u \in map[g].mem THEN PlaceIs(d[u], NoGuild, GUILD_POS_NONE) ELSE SamePlace(c[u], d[u])
  <1>1. PICK row : row = [c[u] EXCEPT !.gid = NoGuild, !.gpos = GUILD_POS_NONE]
    OBVIOUS
  <1>2. row.up = c[u].up /\ row.gid = NoGuild /\ row.gpos = GUILD_POS_NONE /\ row.gold = c[u].gold
    BY <1>1 DEF Rows
  <1>3. d[u] = IF c[u].up /\ u \in map[g].mem THEN row ELSE c[u]
    BY <1>1 DEF GuildClear
  <1>4. QED
    BY <1>2, <1>3 DEF PlaceIs, SamePlace

\* What the main loop makes of the connections is what the reply tells.
ToldNow(q) == \A u \in User : Told(q, u, conn[u], conn'[u])

LEMMA HearsSame ==
    ASSUME NEW q, NEW c, Hears(q, c) PROVE \A u \in User : SameRow(conn[u], c[u])
  BY DEF Hears, Seen, SameRow, SamePlace

LEMMA QuietTold ==
    ASSUME NEW q, NEW c, Hears(q, c), conn' = c, ~Effective(q), q.cmd # "login"
    PROVE  ToldNow(q)
  <1>1. SUFFICES ASSUME NEW u \in User PROVE Told(q, u, conn[u], conn'[u])
    BY DEF ToldNow
  <1>2. SameRow(conn[u], conn'[u])
    BY HearsSame
  <1>3. QED
    BY <1>2 DEF Told, Effective, Out, Reads, SameRow, SamePlace

LEMMA CreateTold ==
    ASSUME NEW q, NEW c, Hears(q, c), Passed(q), q.cmd = "create", q.by = q.e, OutCreateGuild(q, c)
    PROVE  ToldNow(q)
  <1> PICK e \in User : e = q.e
    BY DEF Hears
  <1>1. PICK row : row = [[[c[e] EXCEPT !.gid = q.g] EXCEPT !.gpos = GUILD_POS_MASTER] EXCEPT !.gold = c[e].gold - q.x]
    OBVIOUS
  <1>2. row.up = c[e].up /\ row.gid = q.g /\ row.gpos = GUILD_POS_MASTER /\ row.gold = c[e].gold - q.x
    BY <1>1 DEF Rows, Hears
  <1>3. \A u \in User : conn'[u] = IF u = e THEN row ELSE c[u]
    BY <1>1 DEF OutCreateGuild, Rows, Hears
  <1>4. /\ Joined(q) /\ Paid(q) /\ ~Quits(q) /\ ~Emptied(q) /\ q.cmd # "login"
        /\ Rank(q) = GUILD_POS_MASTER /\ \A gold : Earned(q, gold) = gold - q.x
    BY DEF Joined, Paid, Quits, Emptied, Rank, Earned
  <1>5. ASSUME NEW u \in User PROVE Told(q, u, conn[u], conn'[u])
    <2>1. SameRow(conn[u], c[u])
      BY HearsSame
    <2>2. QED
      BY <1>2, <1>3, <1>4, <2>1 DEF Told, Out, Reads, SameRow, SamePlace, PlaceIs
  <1>6. QED
    BY <1>5 DEF ToldNow

\* Replies that give a user a place.
LEMMA PlaceTold ==
    ASSUME NEW q, NEW c, Hears(q, c), Passed(q),
           \/ q.cmd = "apply" /\ OutGapply(q, c)
           \/ q.cmd = "gpos" /\ OutGpos(q, c)
           \/ q.cmd = "gquit" /\ OutGquit(q, c)
    PROVE  ToldNow(q)
  <1> PICK e \in User : e = q.e
    BY DEF Hears
  <1> PICK g, p : g = (IF q.cmd = "gquit" THEN NoGuild ELSE q.g) /\ p = IF q.cmd = "gquit" THEN GUILD_POS_NONE ELSE Rank(q)
    OBVIOUS
  <1>1. conn' = Cache(c, e, g, p) /\ Rows(c)
    BY DEF OutGapply, OutGpos, OutGquit, Rank, Hears
  <1>2. /\ ~Paid(q) /\ ~Emptied(q) /\ q.cmd # "login"
        /\ Joined(q) <=> q.cmd # "gquit"
        /\ Quits(q) <=> q.cmd = "gquit"
    BY DEF Joined, Paid, Quits, Emptied
  <1>3. ASSUME NEW u \in User PROVE Told(q, u, conn[u], conn'[u])
    <2>1. SameRow(conn[u], c[u])
      BY HearsSame
    <2>2. /\ conn'[u].up = c[u].up /\ conn'[u].gold = c[u].gold
          /\ IF u = e /\ c[e].up THEN PlaceIs(conn'[u], g, p) ELSE SamePlace(c[u], conn'[u])
      BY <1>1, CacheRow
    <2>3. QED
      BY <1>2, <2>1, <2>2 DEF Told, Out, Reads, SameRow, SamePlace, PlaceIs
  <1>4. QED
    BY <1>3 DEF ToldNow

\* Whom his guild's list has, and who was the master.
LEMMA DeleteTold ==
    ASSUME NEW q, NEW c, Hears(q, c), Passed(q), q.cmd = "delete", q.by = q.e, conn[q.e].gid = q.g, q.g \in User,
           conn[q.e].up, ListOK(conn, map), OutDeleteGuild(q, c)
    PROVE  ToldNow(q)
  <1> PICK e \in User : e = q.e
    BY DEF Hears
  <1> PICK z : z = GuildClear(c, q.g)
    OBVIOUS
  <1>1. conn' = Cache(z, e, NoGuild, GUILD_POS_NONE) /\ Rows(z) /\ Rows(c)
    BY RowsClear DEF OutDeleteGuild, Hears
  <1>2. ~Paid(q) /\ ~Joined(q) /\ ~Quits(q) /\ Emptied(q) /\ q.cmd # "login"
    BY DEF Joined, Paid, Quits, Emptied
  <1>3. \A u \in User : /\ z[u].up = c[u].up /\ z[u].gold = c[u].gold
                        /\ IF c[u].up /\ u \in map[q.g].mem THEN PlaceIs(z[u], NoGuild, GUILD_POS_NONE)
                           ELSE SamePlace(c[u], z[u])
    BY <1>1, ClearRow
  <1>4. ASSUME NEW u \in User PROVE Told(q, u, conn[u], conn'[u])
    <2>1. SameRow(conn[u], c[u])
      BY HearsSame
    <2>2. /\ conn'[u].up = z[u].up /\ conn'[u].gold = z[u].gold
          /\ IF u = e /\ z[e].up THEN PlaceIs(conn'[u], NoGuild, GUILD_POS_NONE) ELSE SamePlace(z[u], conn'[u])
      BY <1>1, CacheRow
    <2>3. u \in map[q.g].mem <=> conn[u].up /\ conn[u].gid = q.g /\ conn[u].gpos \in Membership
      BY DEF ListOK, Listed
    <2>4. conn[u].up => (Out(q, u, conn[u]) <=> u = e \/ u \in map[q.g].mem)
      BY <1>2, <2>3 DEF Out
    <2>5. ~Reads(q, u)
      BY DEF Reads
    <2>6. conn'[u].up = conn[u].up /\ conn'[u].gold = conn[u].gold
      BY <1>3, <2>1, <2>2 DEF SameRow
    <2>7. conn[u].up => IF u = e \/ u \in map[q.g].mem THEN PlaceIs(conn'[u], NoGuild, GUILD_POS_NONE)
                        ELSE SamePlace(conn[u], conn'[u])
      <3>1. CASE u = e
        BY <1>3, <2>1, <2>2, <3>1 DEF SameRow
      <3>2. CASE u # e
        BY <1>3, <2>1, <2>2, <3>2 DEF SameRow, SamePlace, PlaceIs
      <3>3. QED
        BY <3>1, <3>2
    <2>8. QED
      BY <1>2, <2>4, <2>5, <2>6, <2>7 DEF Told
  <1>5. QED
    BY <1>4 DEF ToldNow

LEMMA GoldTold ==
    ASSUME NEW q, NEW c, Hears(q, c), Passed(q), q.by = q.e,
           (q.cmd = "deposit" /\ OutGdeposit(q, c)) \/ (q.cmd = "bonus" /\ OutGbonus(q, c))
    PROVE  ToldNow(q)
  <1> PICK e \in User : e = q.e
    BY DEF Hears
  <1> PICK x : x = Earned(q, c[e].gold)
    OBVIOUS
  <1>1. PICK row : row = [c[e] EXCEPT !.gold = x]
    OBVIOUS
  <1>2. Rows(c) /\ row.up = c[e].up /\ row.gid = c[e].gid /\ row.gpos = c[e].gpos /\ row.gold = x
    BY <1>1 DEF Rows, Hears
  <1>3. \A u \in User : conn'[u] = IF u = e THEN row ELSE c[u]
    BY <1>1 DEF OutGdeposit, OutGbonus, Earned, Hears, Rows
  <1>4. Paid(q) /\ ~Joined(q) /\ ~Quits(q) /\ ~Emptied(q) /\ q.cmd # "login"
    BY DEF Joined, Paid, Quits, Emptied
  <1>5. ASSUME NEW u \in User PROVE Told(q, u, conn[u], conn'[u])
    <2>1. SameRow(conn[u], c[u])
      BY HearsSame
    <2>2. QED
      BY <1>2, <1>3, <1>4, <2>1 DEF Told, Out, Reads, SameRow, SamePlace
  <1>6. QED
    BY <1>5 DEF ToldNow

LEMMA LoginTold ==
    ASSUME NEW q, Rows(conn), q.e \in User, q.cmd = "login", q.at = "done", OutLogin(q, conn)
    PROVE  ToldNow(q)
  <1> PICK e \in User : e = q.e
    OBVIOUS
  <1>1. PICK row : row = [up |-> TRUE, gid |-> q.got[1], gpos |-> q.got[2], gold |-> q.got[3], busy |-> FALSE]
    OBVIOUS
  <1>2. \A u \in User : conn'[u] = IF u = e THEN row ELSE conn[u]
    BY <1>1 DEF OutLogin, Rows
  <1>3. row.up = TRUE /\ row.gid = q.got[1] /\ row.gpos = q.got[2] /\ row.gold = q.got[3]
    BY <1>1
  <1>4. ~Paid(q) /\ ~Joined(q) /\ ~Quits(q) /\ ~Emptied(q)
    BY DEF Joined, Paid, Quits, Emptied
  <1>5. ASSUME NEW u \in User PROVE Told(q, u, conn[u], conn'[u])
    <2>1. Reads(q, u) <=> u = e
      BY DEF Reads
    <2>2. QED
      BY <1>2, <1>3, <1>4, <2>1 DEF Told, Out, SamePlace, PlaceIs
  <1>6. QED
    BY <1>5 DEF ToldNow

\* A reply that somebody hears, or that says nothing, is told to the letter;
\* one that nobody hears changes nothing.
LEMMA ReplyTold ==
    ASSUME TInv, MInv, threads = 1, AsksOK, Dbout(0), NEW q, q = Q[1], Shifted(q)
    PROVE  \/ ToldNow(q) /\ lapse' = lapse /\ (Effective(q) => q.by # NoOne)
           \/ lapse' = TRUE /\ \A u \in User : SameRow(conn[u], conn'[u])
  <1> PICK c : /\ Hears(q, c) /\ (q.by = NoOne => c = conn)
               /\ \/ Mute(q) /\ conn' = c /\ map' = map /\ lapse' = (lapse \/ q.good)
                  \/ ~Mute(q) /\ Passed(q) /\ Answers(q, c) /\ lapse' = lapse
    BY ReplyKinds
  <1>1. OneInv /\ ListOK(conn, map) /\ ConnOK /\ ReqOK(q) /\ 1 \in Places /\ Q[1] = q /\ q.at = "done" /\ lapse \in BOOLEAN
    BY QueueIs, ShiftedPlaces DEF MInv, OneInv, TInv, Shifted
  <1>2. /\ q.cmd \in {"deposit", "bonus"} => q.by \in {q.e, NoOne}
        /\ q.cmd = "delete" /\ q.by # NoOne => conn[q.by].gid = q.g
        /\ q.cmd = "login" => q.good
        /\ q.by # NoOne => conn[q.by].up
        /\ Own(q) \/ q.cmd = "delete" => q.by \in {q.e, NoOne}
    BY <1>1 DEF AsksOK, OneInv, AskedOK
  <1>3. q.cmd = "login" => ~Effective(q) /\ q.by = NoOne
    BY <1>1 DEF Effective, Paid, Joined, Quits, Emptied, OneInv, LoginsOK
  <1>4. Hears(q, c)
    OBVIOUS
  <1>5. CASE Mute(q) /\ conn' = c /\ lapse' = (lapse \/ q.good)
    <2>1. CASE q.good
      BY <1>1, <1>4, <1>5, <2>1, HearsSame
    <2>2. CASE ~q.good
      <3>1. ~Effective(q) /\ q.cmd # "login"
        BY <1>1, <1>2, <2>2 DEF Effective, Paid, Joined, Quits, Emptied, Passed
      <3>2. ToldNow(q)
        BY <1>4, <1>5, <3>1, QuietTold
      <3>3. QED
        BY <1>1, <1>5, <2>2, <3>1, <3>2
    <2>3. QED
      BY <2>1, <2>2
  <1>6. CASE ~Mute(q) /\ Passed(q) /\ Answers(q, c) /\ lapse' = lapse
    <2>1. q.by # NoOne \/ q.cmd = "login"
      BY <1>6 DEF Mute
    <2>2. Effective(q) => q.by # NoOne
      BY <1>3, <2>1
    <2>3. ASSUME q.cmd = "create", OutCreateGuild(q, c) PROVE ToldNow(q)
      <3>1. q.by = q.e
        BY <1>2, <2>1, <2>3 DEF Own
      <3>2. QED
        BY <1>4, <1>6, <2>3, <3>1, CreateTold
    <2>4. ASSUME q.cmd = "delete", OutDeleteGuild(q, c) PROVE ToldNow(q)
      <3>1. q.by = q.e /\ q.by # NoOne
        BY <1>2, <2>1, <2>4
      <3>2. conn[q.e].up /\ conn[q.e].gid = q.g
        BY <1>2, <2>4, <3>1
      <3>3. q.g \in User
        BY <1>1, <2>4 DEF OneInv, AskedOK, ReqOK
      <3>4. QED
        BY <1>1, <1>4, <1>6, <2>4, <3>1, <3>2, <3>3, DeleteTold
    <2>5. ASSUME \/ q.cmd = "apply" /\ OutGapply(q, c)
                 \/ q.cmd = "gpos" /\ OutGpos(q, c)
                 \/ q.cmd = "gquit" /\ OutGquit(q, c)
          PROVE  ToldNow(q)
      BY <1>4, <1>6, <2>5, PlaceTold
    <2>6. ASSUME (q.cmd = "deposit" /\ OutGdeposit(q, c)) \/ (q.cmd = "bonus" /\ OutGbonus(q, c)) PROVE ToldNow(q)
      <3>1. q.by = q.e
        BY <1>2, <2>1, <2>6
      <3>2. QED
        BY <1>4, <1>6, <2>6, <3>1, GoldTold
    <2>7. ASSUME (q.cmd = "glv" /\ OutGlv(q, c)) \/ (q.cmd = "glevelup" /\ OutGlevelup(q, c)) PROVE ToldNow(q)
      <3>1. conn' = c /\ ~Effective(q) /\ q.cmd # "login"
        BY <2>7 DEF OutGlv, OutGlevelup, Effective, Paid, Joined, Quits, Emptied
      <3>2. QED
        BY <1>4, <3>1, QuietTold
    <2>8. ASSUME q.cmd = "login", OutLogin(q, c) PROVE ToldNow(q)
      <3>1. q.by = NoOne
        BY <1>3, <2>8
      <3>2. c = conn
        BY <3>1
      <3>3. OutLogin(q, conn) /\ Rows(conn) /\ q.e \in User
        BY <1>1, <1>4, <2>8, <3>2 DEF Hears
      <3>4. QED
        BY <1>1, <2>8, <3>3, LoginTold
    <2>9. ToldNow(q)
      BY <1>6, <2>3, <2>4, <2>5, <2>6, <2>7, <2>8 DEF Answers
    <2>10. QED
      BY <1>6, <2>2, <2>9
  <1>7. QED
    BY <1>5, <1>6

\* What is told of what is known is known.
LEMMA ToldShows ==
    ASSUME NEW q, NEW e, NEW c, NEW d, NEW a, NEW b, Told(q, e, c, d), Shows(c, a), Told(q, e, a, b)
    PROVE  Shows(d, b)
  <1>1. a.up => (Out(q, e, a) <=> Out(q, e, c))
    BY DEF Shows, SamePlace, Out
  <1>2. CASE Reads(q, e)
    BY <1>2 DEF Told, Shows, SamePlace, PlaceIs
  <1>3. CASE ~Reads(q, e)
    BY <1>1, <1>3 DEF Told, Shows, SamePlace, PlaceIs
  <1>4. QED
    BY <1>2, <1>3

LEMMA ReplyRun ==
    ASSUME NEW q, Shifted(q), NEW e \in User, Told(q, e, conn[e], conn'[e]), RunOK(e), status' = status
    PROVE  RunOK(e)'
  <1> PICK n \in Nat : n = Len(Q')
    BY DEF Shifted
  <1>1. /\ 1 \in Places /\ Q[1] = q /\ Len(Q) = n + 1
        /\ \A j \in Places' : j + 1 \in Places /\ Q'[j] = Q[j + 1] /\ j \in Nat
        /\ \A j \in Places : j = 1 \/ (j - 1 \in Places' /\ Q'[j - 1] = Q[j])
    <2>1. \A j \in Places : j # 1 => (j - 1) + 1 = j
      BY ShiftedPlaces
    <2>2. 1 \in Places /\ \A j \in Places' : j + 1 \in Places /\ j \in Nat
      BY ShiftedPlaces
    <2>3. \A j \in Places : j = 1 \/ j - 1 \in Places'
      BY ShiftedPlaces
    <2>4. QED
      BY <2>1, <2>2, <2>3 DEF Shifted
  <1>2. PICK v : /\ Shows(conn[e], v[0])
                 /\ \A p \in Places : Told(Q[p], e, v[p - 1], v[p])
                 /\ \A p \in 0 .. Len(Q) : Settled(p) => Agrees(status[e], v[p])
    BY DEF RunOK
  <1>3. PICK w : w = [p \in 0 .. n |-> v[p + 1]]
    OBVIOUS
  <1>4. Shows(conn'[e], w[0])
    <2>1. Told(q, e, v[0], v[1])
      <3>1. Told(Q[1], e, v[1 - 1], v[1])
        BY <1>1, <1>2
      <3>2. QED
        BY <1>1, <3>1
    <2>2. PICK c, d, a, b : c = conn[e] /\ d = conn'[e] /\ a = v[0] /\ b = v[1]
      OBVIOUS
    <2>3. Shows(d, b)
      BY <1>2, <2>1, <2>2, ToldShows
    <2>4. w[0] = v[1]
      BY <1>3
    <2>5. QED
      BY <2>2, <2>3, <2>4
  <1>5. ASSUME NEW p \in Places' PROVE Told(Q'[p], e, w[p - 1], w[p])
    <2>1. p \in 1 .. n /\ p - 1 \in 0 .. n /\ p \in 0 .. n
      BY DEF Places
    <2>2. w[p - 1] = v[p] /\ w[p] = v[p + 1] /\ (p + 1) - 1 = p
      BY <1>3, <2>1
    <2>3. Told(Q[p + 1], e, v[(p + 1) - 1], v[p + 1])
      BY <1>1, <1>2
    <2>4. QED
      BY <1>1, <2>2, <2>3
  <1>6. ASSUME NEW p \in 0 .. n, Settled(p)' PROVE Agrees(status'[e], w[p])
    <2>1. Settled(p + 1)
      <3> SUFFICES ASSUME NEW j \in Places, j > p + 1 PROVE Q[j].at = "new"
        BY DEF Settled
      <3>1. j # 1 /\ j - 1 > p
        BY <1>1 DEF Places
      <3>2. j - 1 \in Places' /\ Q'[j - 1] = Q[j]
        BY <1>1, <3>1
      <3>3. QED
        BY <1>6, <3>1, <3>2 DEF Settled
    <2>2. p + 1 \in 0 .. Len(Q) /\ w[p] = v[p + 1]
      BY <1>1, <1>3
    <2>3. QED
      BY <1>2, <2>1, <2>2
  <1>7. QED
    BY <1>4, <1>5, <1>6 DEF RunOK

\* Who still waits for his guild to be deleted is not told anything else of it.
LEMMA MasterStays ==
    ASSUME NEW q, Shifted(q), OneInv, ConnOK, AsksOK, ToldNow(q), Effective(q) => q.by # NoOne, q.e \in User,
           NEW k \in Places, k # 1, Q[k].cmd = "delete", Q[k].by # NoOne
    PROVE  conn'[Q[k].by].gid = conn[Q[k].by].gid
  <1> PICK u : u = Q[k].by
    OBVIOUS
  <1>1. /\ u \in User /\ conn[u].up /\ Q[k].e = u /\ Q[k].g = u /\ u # NoOne
        /\ \A j \in Places : Q[j].by = u => j = k
    BY DEF OneInv, AskedOK
  <1>2. 1 \in Places /\ Q[1] = q /\ q.by # u /\ q.at = "done"
    BY <1>1, ShiftedPlaces DEF Shifted
  <1>3. ~Reads(q, u)
    BY <1>1, <1>2 DEF Reads, OneInv, LoginsOK
  <1>4. Joined(q) /\ q.e = u => q.g = conn[u].gid
    <2> SUFFICES ASSUME Joined(q), q.e = u PROVE q.g = conn[u].gid
      OBVIOUS
    <2>1. ~Own(q)
      BY <1>1, <1>2 DEF OneInv, AskedOK
    <2>2. Passed(q) /\ q.cmd = "gpos"
      BY <1>2, <2>1 DEF Joined, Own
    <2>3. QED
      BY <1>1, <2>2, ToldOf
  <1>5. ~Out(q, u, conn[u])
    <2>1. ASSUME Quits(q), q.e = u PROVE FALSE
      <3>1. Passed(q) /\ q.cmd = "gquit"
        BY <1>2, <2>1 DEF Quits
      <3>2. q.g = conn[u].gid
        BY <1>1, <2>1, <3>1, ToldOf
      <3>3. conn[u].gid = u
        BY <1>1 DEF AsksOK
      <3>4. q.by \in {u, NoOne}
        BY <1>2, <2>1, <3>1, <3>2, <3>3 DEF AsksOK
      <3>5. QED
        BY <1>2, <2>1, <3>4 DEF Effective
    <2>2. ASSUME Emptied(q) PROVE q.g # u
      <3>1. q.cmd = "delete" /\ q.by # NoOne /\ q.g = q.e /\ q.by \in {q.e, NoOne}
        BY <1>2, <2>2 DEF Emptied, Effective, OneInv, AskedOK
      <3>2. QED
        BY <1>2, <3>1
    <2>3. conn[u].gid = u
      BY <1>1 DEF AsksOK
    <2>4. ASSUME Emptied(q) PROVE q.e # u
      <3>1. q.g = q.e
        BY <1>2, <2>4 DEF Emptied, OneInv, AskedOK
      <3>2. QED
        BY <2>2, <2>4, <3>1
    <2>5. QED
      BY <2>1, <2>2, <2>3, <2>4 DEF Out
  <1>6. Told(q, u, conn[u], conn'[u])
    BY <1>1 DEF ToldNow
  <1>7. QED
    BY <1>1, <1>3, <1>4, <1>5, <1>6 DEF Told, SamePlace, PlaceIs

LEMMA ReplyAgrees ==
    ASSUME TInv, MInv, AInv, NEW th \in Thread, Dbout(th)
    PROVE  AInv'
  <1>0. threads' = threads /\ status' = status
    BY DEF Dbout, bounds, tables
  <1>1. ASSUME threads = 1 PROVE AInv'
    <2>1. th = 0 /\ Len(Q) \in Nat /\ (\E S : Q \in Seq(S)) /\ \A j \in Places : ReqOK(Q[j])
      BY <1>1, QueueIs
    <2>2. Q # <<>> /\ Head(Q).at = "done" /\ queue' = [queue EXCEPT ![0] = Tail(@)]
      BY <2>1 DEF Dbout, Q
    <2>3. /\ Len(queue'[0]) + 1 = Len(queue[0]) /\ QueueOK' /\ Thread' = Thread
          /\ \A j \in 1 .. Len(queue'[0]) : queue'[0][j] = queue[0][j + 1]
      BY <1>0, <2>1, <2>2, TailQueue DEF TInv, Q, Thread
    <2>4. Len(Q') \in Nat
      BY <2>1, <2>3 DEF QueueOK, Q
    <2> PICK q : q = Q[1]
      OBVIOUS
    <2>5. Shifted(q)
      BY <2>1, <2>2, <2>3, <2>4 DEF Shifted, Q, Places
    <2>6. /\ 1 \in Places /\ Q[1] = q /\ q.e \in User
          /\ \A j \in Places' : j + 1 \in Places /\ Q'[j] = Q[j + 1] /\ j + 1 # 1
          /\ \A j \in Places : j = 1 \/ (j - 1 \in Places' /\ Q'[j - 1] = Q[j])
      <3>1. \A j \in Places : j # 1 => (j - 1) + 1 = j
        BY <2>5, ShiftedPlaces
      <3>2. 1 \in Places /\ \A j \in Places' : j + 1 \in Places /\ j + 1 # 1
        BY <2>5, ShiftedPlaces
      <3>3. \A j \in Places : j = 1 \/ j - 1 \in Places'
        BY <2>5, ShiftedPlaces
      <3>4. QED
        BY <2>1, <2>5, <3>1, <3>2, <3>3 DEF Shifted, ReqOK
    <2>7. OneInv /\ AsksOK /\ ConnOK
      BY <1>1 DEF MInv, AInv, TInv
    <2>8. \/ ToldNow(q) /\ lapse' = lapse /\ (Effective(q) => q.by # NoOne)
          \/ lapse' = TRUE /\ \A u \in User : SameRow(conn[u], conn'[u])
      BY <1>1, <2>1, <2>5, <2>7, ReplyTold
    <2>9. AsksOK'
      <3>1. ASSUME NEW j \in Places', Q'[j].cmd = "delete", Q'[j].by # NoOne PROVE conn'[Q'[j].by].gid = Q'[j].g
        <4> PICK k \in Places : k = j + 1
          BY <2>6
        <4>1. Q'[j] = Q[k] /\ k # 1 /\ Q[k].by \in User /\ conn[Q[k].by].gid = Q[k].g
          BY <2>6, <2>7, <3>1 DEF AsksOK, OneInv, AskedOK
        <4>2. conn'[Q[k].by].gid = conn[Q[k].by].gid
          BY <2>5, <2>6, <2>7, <2>8, <3>1, <4>1, MasterStays DEF SameRow, SamePlace
        <4>3. QED
          BY <4>1, <4>2
      <3>2. QED
        BY <2>6, <2>7, <3>1 DEF AsksOK
    <2>10. ASSUME Spared', NEW e \in User PROVE RunOK(e)'
      <3>1. ToldNow(q) /\ lapse' = lapse /\ (Effective(q) => q.by # NoOne)
        BY <2>8, <2>10 DEF Spared
      <3>2. Spared
        <4>1. ASSUME NEW i \in Places, Effective(Q[i]) PROVE Q[i].by # NoOne
          <5>1. CASE i = 1
            BY <2>6, <3>1, <4>1, <5>1
          <5>2. CASE i # 1
            BY <2>6, <2>10, <4>1, <5>2 DEF Spared
          <5>3. QED
            BY <5>1, <5>2
        <4>2. QED
          BY <2>10, <3>1, <4>1 DEF Spared
      <3>3. RunOK(e) /\ Told(q, e, conn[e], conn'[e])
        BY <1>1, <3>1, <3>2 DEF AInv, ToldNow
      <3>4. QED
        BY <1>0, <2>5, <3>3, ReplyRun
    <2>11. QED
      BY <2>9, <2>10 DEF AInv
  <1>2. QED
    BY <1>0, <1>1 DEF AInv

LEMMA AgreesStep == ASSUME TInv, MInv, AInv, [Next]_vars PROVE AInv'
  <1>1. CASE UNCHANGED <<threads, status, conn, queue, lapse>>
    BY <1>1, StillAgrees
  <1>2. ASSUME NEW th \in Thread, Dbio(th) PROVE AInv'
    <2>1. PICK i \in 1 .. Len(queue[th]), ok \in BOOLEAN :
             Current(th, i) /\ Work(th, i, ok) /\ UNCHANGED <<threads, conn, map>>
      BY <1>2 DEF Dbio, Work
    <2>2. threads = 1 => AInv'
      BY <2>1, WorkAgrees
    <2>3. QED
      BY <2>1, <2>2 DEF AInv
  <1>3. ASSUME Midnight PROVE AInv'
    BY <1>1, <1>3 DEF Midnight, main, bounds
  <1>4. CASE UNCHANGED vars
    BY <1>1, <1>4 DEF vars
  <1>5. QED
    BY <1>2, <1>3, <1>4, DbinAgrees, LoginAgrees, CleanAgrees, ReplyAgrees DEF Next

\* With one worker, whatever interleaves and fails, and who comes and goes:
\* when all is answered and no request has stopped half-way, every user's
\* connection has cached the gold, the guild and the position of the tables,
\* but for one who applied to a guild deleted since.
THEOREM CacheStaysTrue == Spec => []CacheAgrees
  <1>1. Init => AInv
    BY AgreesInit
  <1>2. TInv /\ MInv /\ AInv /\ [Next]_vars => AInv'
    BY AgreesStep
  <1>3. TInv /\ AInv => CacheAgrees
    <2> SUFFICES ASSUME TInv, AInv, threads = 1, ~lapse, Requests = {}, NEW e \in User, conn[e].up
                 PROVE  /\ conn[e].gold = status[e].gold
                        /\ \/ conn[e].gid = status[e].gid /\ conn[e].gpos = status[e].gpos
                           \/ conn[e].gpos = GUILD_POS_APPLY /\ status[e].gid = NoGuild
      BY DEF CacheAgrees
    <2>1. Len(Q) \in Nat /\ 0 \in Thread
      BY QueueIs
    <2>2. Places = {}
      <3>1. ASSUME NEW i \in Places PROVE FALSE
        <4>1. <<0, i>> \in Requests
          BY <2>1, <3>1 DEF Requests, Places, Q
        <4>2. QED
          BY <4>1
      <3>2. QED
        BY <3>1
    <2>3. RunOK(e) /\ Settled(0) /\ 0 \in 0 .. Len(Q)
      BY <2>1, <2>2 DEF AInv, Spared, Settled
    <2>4. PICK v : Shows(conn[e], v[0]) /\ Agrees(status[e], v[0])
      BY <2>3 DEF RunOK
    <2>5. QED
      BY <2>4 DEF Shows, Agrees, SamePlace
  <1>4. Init => MInv
    BY ListsInit
  <1>5. TInv /\ MInv /\ [Next]_vars => MInv'
    BY ListsStep
  <1>6. QED
    BY <1>1, <1>2, <1>3, <1>4, <1>5, TypeInvariant, PTL DEF Spec
=============================================================================
