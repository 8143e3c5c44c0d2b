---------------------------- MODULE GuildProofs ----------------------------
(***************************************************************************)
(* Proofs about the guilds, for every set of users and commands, and every *)
(* statement that fails: a share pays its bonus once a day, with any       *)
(* number of workers; and, with one worker, every guild's list of members  *)
(* online agrees with the guilds its members' connections are in, at every *)
(* point of every handler, and its total_member covers its members.        *)
(***************************************************************************)
EXTENDS Guild, FiniteSetTheorems, TLAPS

Fields == {"cmd", "by", "e", "g", "x", "max", "at", "good", "got"}

\* What is known of a request by its command and how far it is.
ReqOK(q) ==
    /\ DOMAIN q = Fields /\ q.e \in User /\ q.g \in User \cup {NoGuild}
    /\ q.cmd \in {"create", "deposit"} => q.x \in Int
    /\ q.cmd = "gpos" => q.x \in {GUILD_POS_SENIOR, GUILD_POS_MEMBER} /\ q.g \in User
    /\ q.cmd = "gquit" => q.g \in User
    /\ q.cmd = "gquit" /\ q.at = "leave" => q.got[1] # GUILD_POS_MASTER
    /\ q.cmd = "bonus" /\ q.at = "due" => q.x \in 0 .. 1
    /\ q.cmd = "login" /\ q.at = "done" => q.got[1] \in User \cup {NoGuild}

\* The worker answers in order: behind a request it works on, all are new.
InTurn(th) ==
    \A i, j \in 1 .. Len(queue[th]) :
        i < j => queue[th][i].at = "done" \/ queue[th][j].at = "new"

QueueOK ==
    /\ DOMAIN queue = Thread /\ threads \in Nat \ {0}
    /\ \E S : \A th \in Thread : queue[th] \in Seq(S)
    /\ \A th \in Thread : InTurn(th)
    /\ \A th \in Thread : \A i \in 1 .. Len(queue[th]) :
          /\ ReqOK(queue[th][i])
          /\ queue[th][i].cmd = "bonus" => th = queue[th][i].e % threads

StatusOK == status \in [User -> [gid : User \cup {NoGuild}, gpos : Gpos, gold : Int]]
ShareOK == share \in [User -> [gid : User \cup {NoGuild}, gshare : BOOLEAN, today : BOOLEAN, paid : Int]]
GuildOK ==
    /\ DOMAIN guild = User
    /\ \A g \in User : /\ DOMAIN guild[g] = {"there", "total", "glevel", "gold"}
                       /\ guild[g].there \in BOOLEAN /\ guild[g].total \in Int

Rows(c) ==
    /\ DOMAIN c = User
    /\ \A e \in User : /\ DOMAIN c[e] = {"up", "gid", "gpos", "gold", "busy"}
                       /\ c[e].gid \in User \cup {NoGuild}
ConnOK == Rows(conn)

TInv == QueueOK /\ StatusOK /\ ShareOK /\ GuildOK /\ ConnOK /\ lapse \in BOOLEAN

----------------------------------------------------------------------------
(* Requests and queues                                                     *)

\* r is q, some steps further.
Same(q, r) == DOMAIN r = Fields /\ r.cmd = q.cmd /\ r.e = q.e /\ r.g = q.g

LEMMA MoveAt ==
    ASSUME NEW q, DOMAIN q = Fields, NEW a
    PROVE  LET r == [q EXCEPT !.at = a] IN Same(q, r) /\ r.at = a /\ r.x = q.x /\ r.got = q.got
  BY DEF Fields, Same

LEMMA MoveDone ==
    ASSUME NEW q, DOMAIN q = Fields
    PROVE  LET r == [q EXCEPT !.at = "done", !.good = TRUE] IN
           Same(q, r) /\ r.at = "done" /\ r.x = q.x /\ r.got = q.got
  BY DEF Fields, Same

LEMMA MoveGot ==
    ASSUME NEW q, DOMAIN q = Fields, NEW a, NEW v
    PROVE  LET r == [q EXCEPT !.at = a, !.got = v] IN Same(q, r) /\ r.at = a /\ r.x = q.x /\ r.got = v
  BY DEF Fields, Same

LEMMA MoveX ==
    ASSUME NEW q, DOMAIN q = Fields, NEW a, NEW v
    PROVE  LET r == [q EXCEPT !.at = a, !.x = v] IN Same(q, r) /\ r.at = a /\ r.x = v
  BY DEF Fields, Same

LEMMA MoveRead ==
    ASSUME NEW q, DOMAIN q = Fields, NEW v
    PROVE  LET r == [q EXCEPT !.at = "done", !.good = TRUE, !.got = v] IN
           Same(q, r) /\ r.at = "done" /\ r.x = q.x
  BY DEF Fields, Same

LEMMA MoveBy ==
    ASSUME NEW q, DOMAIN q = Fields, NEW v
    PROVE  LET r == [q EXCEPT !.by = v] IN Same(q, r) /\ r.at = q.at /\ r.x = q.x /\ r.got = q.got
  BY DEF Fields, Same

LEMMA NewOK ==
    ASSUME NEW cmd, NEW by, NEW e \in User, NEW g \in User \cup {NoGuild}, NEW x, NEW max,
           cmd \in {"create", "deposit"} => x \in Int,
           cmd = "gpos" => x \in {GUILD_POS_SENIOR, GUILD_POS_MEMBER} /\ g \in User,
           cmd = "gquit" => g \in User
    PROVE  LET q == NewRequest(cmd, by, e, g, x, max) IN
           ReqOK(q) /\ q.at = "new" /\ q.cmd = cmd /\ q.e = e
  BY DEF NewRequest, ReqOK, Fields

LEMMA SeqSet ==
    ASSUME NEW S, NEW s \in Seq(S), NEW i \in 1 .. Len(s), NEW r
    PROVE  LET z == [s EXCEPT ![i] = r] IN
           /\ z \in Seq(S \cup {r}) /\ Len(z) = Len(s)
           /\ \A j \in 1 .. Len(s) : z[j] = IF j = i THEN r ELSE s[j]
  OBVIOUS

LEMMA SeqPut ==
    ASSUME NEW S, NEW s \in Seq(S), NEW r
    PROVE  LET z == Append(s, r) IN
           /\ z \in Seq(S \cup {r}) /\ Len(z) = Len(s) + 1 /\ z[Len(s) + 1] = r
           /\ \A j \in 1 .. Len(s) : z[j] = s[j]
  OBVIOUS

\* A worker moves its current request on.
LEMMA SetQueue ==
    ASSUME QueueOK, NEW th \in Thread, NEW i \in 1 .. Len(queue[th]), Current(th, i), NEW r,
           Set(th, i, r), Same(queue[th][i], r), ReqOK(r), threads' = threads
    PROVE  /\ QueueOK'
           /\ Len(queue'[th]) = Len(queue[th])
           /\ \A u \in Thread \ {th} : queue'[u] = queue[u]
           /\ \A j \in 1 .. Len(queue[th]) : queue'[th][j] = IF j = i THEN r ELSE queue[th][j]
  <1>0. Thread' = Thread
    BY DEF Thread
  <1>1. PICK S : \A u \in Thread : queue[u] \in Seq(S)
    BY DEF QueueOK
  <1>2. /\ DOMAIN queue' = Thread
        /\ queue'[th] = [queue[th] EXCEPT ![i] = r]
        /\ \A u \in Thread \ {th} : queue'[u] = queue[u]
    BY DEF Set, QueueOK
  <1>3. /\ queue'[th] \in Seq(S \cup {r}) /\ Len(queue'[th]) = Len(queue[th])
        /\ \A j \in 1 .. Len(queue[th]) : queue'[th][j] = IF j = i THEN r ELSE queue[th][j]
    BY <1>1, <1>2, SeqSet
  <1>4. \A u \in Thread : queue'[u] \in Seq(S \cup {r})
    <2>1. ASSUME NEW u \in Thread \ {th} PROVE queue[u] \in Seq(S \cup {r})
      BY <1>1
    <2>2. QED
      BY <1>2, <1>3, <2>1
  <1>5. InTurn(th)'
    <2> SUFFICES ASSUME NEW j \in 1 .. Len(queue[th]), NEW k \in 1 .. Len(queue[th]), j < k
                 PROVE  queue'[th][j].at = "done" \/ queue'[th][k].at = "new"
      BY <1>3 DEF InTurn
    <2>1. queue[th][j].at = "done" \/ queue[th][k].at = "new"
      BY DEF QueueOK, InTurn
    <2>2. k = i => queue[th][j].at = "done"
      BY DEF Current
    <2>3. j = i => queue[th][k].at = "new"
      BY <2>1 DEF Current
    <2>4. QED
      BY <1>3, <2>1, <2>2, <2>3
  <1>6. \A u \in Thread : InTurn(u)'
    BY <1>2, <1>5 DEF InTurn, QueueOK
  <1>7. \A u \in Thread : \A j \in 1 .. Len(queue'[u]) :
           /\ ReqOK(queue'[u][j])
           /\ queue'[u][j].cmd = "bonus" => u = queue'[u][j].e % threads
    BY <1>2, <1>3 DEF QueueOK, Same
  <1>8. QED
    BY <1>0, <1>2, <1>3, <1>4, <1>6, <1>7 DEF QueueOK, ReqOK

\* The main loop asks for something more.
LEMMA AddQueue ==
    ASSUME QueueOK, NEW th \in Thread, NEW r, ReqOK(r), r.at = "new",
           r.cmd = "bonus" => th = r.e % threads, threads' = threads,
           queue' = [queue EXCEPT ![th] = Append(@, r)]
    PROVE  /\ QueueOK'
           /\ Len(queue'[th]) = Len(queue[th]) + 1 /\ queue'[th][Len(queue[th]) + 1] = r
           /\ \A u \in Thread \ {th} : queue'[u] = queue[u]
           /\ \A j \in 1 .. Len(queue[th]) : queue'[th][j] = queue[th][j]
  <1>0. Thread' = Thread
    BY DEF Thread
  <1>1. PICK S : \A u \in Thread : queue[u] \in Seq(S)
    BY DEF QueueOK
  <1>2. /\ DOMAIN queue' = Thread
        /\ queue'[th] = Append(queue[th], r)
        /\ \A u \in Thread \ {th} : queue'[u] = queue[u]
    BY DEF QueueOK
  <1>3. /\ queue'[th] \in Seq(S \cup {r}) /\ Len(queue'[th]) = Len(queue[th]) + 1
        /\ queue'[th][Len(queue[th]) + 1] = r
        /\ \A j \in 1 .. Len(queue[th]) : queue'[th][j] = queue[th][j]
    BY <1>1, <1>2, SeqPut
  <1>4. \A u \in Thread : queue'[u] \in Seq(S \cup {r})
    <2>1. ASSUME NEW u \in Thread \ {th} PROVE queue[u] \in Seq(S \cup {r})
      BY <1>1
    <2>2. QED
      BY <1>2, <1>3, <2>1
  <1>5. PICK l \in Nat : l = Len(queue[th])
    BY <1>1
  <1>6. \A j \in 1 .. l + 1 : j \in 1 .. l \/ j = l + 1
    OBVIOUS
  <1>7. InTurn(th)'
    <2> SUFFICES ASSUME NEW j \in 1 .. l + 1, NEW k \in 1 .. l + 1, j < k
                 PROVE  queue'[th][j].at = "done" \/ queue'[th][k].at = "new"
      BY <1>3, <1>5 DEF InTurn
    <2>1. CASE k = l + 1
      BY <1>3, <1>5, <2>1
    <2>2. CASE k # l + 1
      BY <1>3, <1>5, <2>2 DEF QueueOK, InTurn
    <2>3. QED
      BY <2>1, <2>2
  <1>8. \A u \in Thread : InTurn(u)'
    BY <1>2, <1>7 DEF InTurn, QueueOK
  <1>9. \A u \in Thread : \A j \in 1 .. Len(queue'[u]) :
           /\ ReqOK(queue'[u][j])
           /\ queue'[u][j].cmd = "bonus" => u = queue'[u][j].e % threads
    BY <1>2, <1>3, <1>5, <1>6 DEF QueueOK
  <1>10. QED
    BY <1>0, <1>2, <1>3, <1>4, <1>8, <1>9 DEF QueueOK, ReqOK

\* The main loop takes the first reply.
LEMMA TailQueue ==
    ASSUME QueueOK, NEW th \in Thread, queue[th] # <<>>, threads' = threads,
           queue' = [queue EXCEPT ![th] = Tail(@)]
    PROVE  /\ QueueOK'
           /\ Len(queue'[th]) + 1 = Len(queue[th])
           /\ \A u \in Thread \ {th} : queue'[u] = queue[u]
           /\ \A j \in 1 .. Len(queue'[th]) : queue'[th][j] = queue[th][j + 1]
  <1>0. Thread' = Thread
    BY DEF Thread
  <1>1. PICK S : \A u \in Thread : queue[u] \in Seq(S)
    BY DEF QueueOK
  <1>2. /\ DOMAIN queue' = Thread
        /\ queue'[th] = Tail(queue[th])
        /\ \A u \in Thread \ {th} : queue'[u] = queue[u]
    BY DEF QueueOK
  <1>3. /\ queue'[th] \in Seq(S) /\ Len(queue'[th]) + 1 = Len(queue[th])
        /\ \A j \in 1 .. Len(queue'[th]) :
              queue'[th][j] = queue[th][j + 1] /\ j + 1 \in 1 .. Len(queue[th])
    BY <1>1, <1>2
  <1>4. InTurn(th)'
    <2> SUFFICES ASSUME NEW j \in 1 .. Len(queue'[th]), NEW k \in 1 .. Len(queue'[th]), j < k
                 PROVE  queue'[th][j].at = "done" \/ queue'[th][k].at = "new"
      BY DEF InTurn
    <2>1. j + 1 < k + 1
      OBVIOUS
    <2>2. QED
      BY <1>3, <2>1 DEF QueueOK, InTurn
  <1>5. \A u \in Thread : InTurn(u)'
    BY <1>2, <1>4 DEF InTurn, QueueOK
  <1>6. \A u \in Thread : \A j \in 1 .. Len(queue'[u]) :
           /\ ReqOK(queue'[u][j])
           /\ queue'[u][j].cmd = "bonus" => u = queue'[u][j].e % threads
    BY <1>2, <1>3 DEF QueueOK
  <1>7. QED
    BY <1>0, <1>1, <1>2, <1>3, <1>5, <1>6 DEF QueueOK, ReqOK

----------------------------------------------------------------------------
(* What a worker does to the tables                                        *)

\* The worker's step leaves request i of worker th at the point `to'.
MovedTo(th, i, to) ==
    /\ \E r : Set(th, i, r) /\ Same(queue[th][i], r) /\ ReqOK(r) /\ r.at = to
    /\ lapse' \in {lapse, TRUE}

LEMMA Moves ==
    ASSUME NEW th, NEW i, ReqOK(queue[th][i]), queue[th][i].cmd # "login"
    PROVE  /\ \A at : (queue[th][i].cmd = "bonus" => at # "due") /\ (queue[th][i].cmd = "gquit" => at # "leave")
                      /\ Go(th, i, at) => MovedTo(th, i, at) /\ lapse' = lapse
           /\ Succeed(th, i) => MovedTo(th, i, "done") /\ lapse' = lapse
           /\ Refuse(th, i) => MovedTo(th, i, "done") /\ lapse' = lapse
           /\ Break(th, i) => MovedTo(th, i, "done") /\ lapse' = TRUE
  <1> DEFINE q == queue[th][i]
  <1>1. DOMAIN q = Fields /\ q.cmd # "login"
    BY DEF ReqOK
  <1>2. ASSUME NEW at, q.cmd = "bonus" => at # "due", q.cmd = "gquit" => at # "leave"
        PROVE  LET r == [q EXCEPT !.at = at] IN Same(q, r) /\ ReqOK(r) /\ r.at = at
    BY <1>1, <1>2, MoveAt DEF ReqOK, Same
  <1>3. LET r == [q EXCEPT !.at = "done", !.good = TRUE] IN Same(q, r) /\ ReqOK(r) /\ r.at = "done"
    BY <1>1, MoveDone DEF ReqOK, Same
  <1>4. ASSUME NEW at, q.cmd = "bonus" => at # "due", q.cmd = "gquit" => at # "leave", Go(th, i, at)
        PROVE  MovedTo(th, i, at) /\ lapse' = lapse
    BY <1>2, <1>4 DEF Go, MovedTo
  <1>5. Succeed(th, i) => MovedTo(th, i, "done") /\ lapse' = lapse
    BY <1>3 DEF Succeed, MovedTo
  <1>6. Refuse(th, i) => MovedTo(th, i, "done") /\ lapse' = lapse
    BY <1>2 DEF Refuse, MovedTo
  <1>7. Break(th, i) => MovedTo(th, i, "done") /\ lapse' = TRUE
    BY <1>2 DEF Break, MovedTo
  <1>8. QED
    BY <1>4, <1>5, <1>6, <1>7

\* Nobody's share is dated or paid from; one may be deleted or made anew.
ShareKept ==
    \A e \in User : \/ share'[e].paid = 0
                    \/ share'[e].paid = share[e].paid /\ share'[e].today = share[e].today

LEMMA GuildRow ==
    ASSUME GuildOK, NEW g, NEW row, DOMAIN row = {"there", "total", "glevel", "gold"},
           row.there \in BOOLEAN, row.total \in Int, guild' = [guild EXCEPT ![g] = row]
    PROVE  GuildOK' /\ \A h \in User : guild'[h] = IF h = g THEN row ELSE guild[h]
  <1>1. DOMAIN guild' = User /\ \A h \in User : guild'[h] = IF h = g THEN row ELSE guild[h]
    BY DEF GuildOK
  <1>2. QED
    BY <1>1 DEF GuildOK

LEMMA GuildCount ==
    ASSUME GuildOK, NEW g \in User, NEW offset \in Int, GuildMemberChange(g, offset)
    PROVE  /\ GuildOK'
           /\ guild'[g].there = guild[g].there /\ guild'[g].total = guild[g].total + offset
           /\ \A h \in User \ {g} : guild'[h] = guild[h]
  <1> DEFINE row == [guild[g] EXCEPT !.total = @ + offset]
  <1>1. /\ DOMAIN row = {"there", "total", "glevel", "gold"}
        /\ row.there = guild[g].there /\ row.total = guild[g].total + offset
    BY DEF GuildOK
  <1>2. guild' = [guild EXCEPT ![g] = row]
    BY DEF GuildMemberChange, GuildOK
  <1> HIDE DEF row
  <1>3. QED
    BY <1>1, <1>2, GuildRow DEF GuildOK

ShareRows == [gid : User \cup {NoGuild}, gshare : BOOLEAN, today : BOOLEAN, paid : Int]

LEMMA ShareRowPut ==
    ASSUME NEW s \in ShareRows, NEW g \in User \cup {NoGuild}, NEW all \in BOOLEAN
    PROVE  LET row == [s EXCEPT !.gid = g, !.gshare = all] IN row \in ShareRows /\ row.paid = s.paid
  BY DEF ShareRows

LEMMA ShareInsert ==
    ASSUME ShareOK, NEW e \in User, NEW g \in User \cup {NoGuild}, NEW all \in BOOLEAN,
           InsertGuildShare(e, g, all)
    PROVE  ShareOK' /\ ShareKept
  <1> DEFINE row == [NoShare EXCEPT !.gid = g, !.gshare = all]
  <1>1. row \in [gid : User \cup {NoGuild}, gshare : BOOLEAN, today : BOOLEAN, paid : Int] /\ row.paid = 0
    <2>1. NoShare \in ShareRows /\ NoShare.paid = 0
      BY DEF NoShare, ShareRows
    <2>2. QED
      BY <2>1, ShareRowPut DEF ShareRows
  <1>2. share' = [share EXCEPT ![e] = row]
    BY DEF InsertGuildShare
  <1> HIDE DEF row
  <1>3. QED
    BY <1>1, <1>2 DEF ShareOK, ShareKept

LEMMA CreateEffect ==
    ASSUME TInv, NEW th \in Thread, NEW i \in 1 .. Len(queue[th]), NEW ok \in BOOLEAN,
           queue[th][i].cmd = "create", InCreateGuild(th, i, ok)
    PROVE  (\E to : MovedTo(th, i, to)) /\ StatusOK' /\ ShareOK' /\ GuildOK' /\ ShareKept
  <1> DEFINE q == queue[th][i]
  <1>0. ReqOK(q)
    BY DEF TInv, QueueOK
  <1>1. StatusOK /\ ShareOK /\ GuildOK /\ q.e \in User /\ q.g \in User \cup {NoGuild} /\ q.x \in Int
    BY <1>0 DEF TInv, ReqOK
  <1>2. CASE q.at = "new" /\ UNCHANGED tables
    <2>1. \E to : MovedTo(th, i, to)
      BY <1>0, <1>2, Moves DEF InCreateGuild
    <2>2. QED
      BY <1>1, <1>2, <2>1 DEF tables, StatusOK, ShareOK, GuildOK, ShareKept
  <1>3. CASE q.at = "checked"
    <2>1. \E to : MovedTo(th, i, to)
      BY <1>0, <1>3, Moves DEF InCreateGuild
    <2>2. UNCHANGED <<share, guild>> /\ (status' = status \/ UpdateMoney(q.e, -q.x))
      BY <1>3 DEF InCreateGuild
    <2>3. StatusOK'
      BY <1>1, <2>2 DEF StatusOK, UpdateMoney
    <2>4. QED
      BY <1>1, <2>1, <2>2, <2>3 DEF ShareOK, GuildOK, ShareKept
  <1>4. CASE q.at = "paid"
    <2>1. \E to : MovedTo(th, i, to)
      BY <1>0, <1>4, Moves DEF InCreateGuild
    <2>2. UNCHANGED <<share, guild>> /\ (status' = status \/ UpdateStatusGuild(q.e, q.g, GUILD_POS_MASTER))
      BY <1>4 DEF InCreateGuild
    <2>3. StatusOK'
      BY <1>1, <2>2 DEF StatusOK, UpdateStatusGuild, Gpos
    <2>4. QED
      BY <1>1, <2>1, <2>2, <2>3 DEF ShareOK, GuildOK, ShareKept
  <1>5. CASE q.at = "joined"
    <2>1. \E to : MovedTo(th, i, to)
      BY <1>0, <1>5, Moves DEF InCreateGuild
    <2>2. UNCHANGED <<share, status>>
          /\ (guild' = guild \/ guild' = [guild EXCEPT ![q.g] = [there |-> TRUE, total |-> 1, glevel |-> 1, gold |-> q.x]])
      BY <1>5 DEF InCreateGuild
    <2> DEFINE row == [there |-> TRUE, total |-> 1, glevel |-> 1, gold |-> q.x]
    <2>5. DOMAIN row = {"there", "total", "glevel", "gold"} /\ row.there \in BOOLEAN /\ row.total \in Int
      OBVIOUS
    <2>6. guild' = guild \/ guild' = [guild EXCEPT ![q.g] = row]
      BY <2>2
    <2> HIDE DEF row
    <2>3. GuildOK'
      BY <1>1, <2>5, <2>6, GuildRow DEF GuildOK
    <2>4. QED
      BY <1>1, <2>1, <2>2, <2>3 DEF ShareOK, StatusOK, ShareKept
  <1>6. CASE q.at = "founded"
    <2>1. \E to : MovedTo(th, i, to)
      BY <1>0, <1>6, Moves DEF InCreateGuild
    <2>2. UNCHANGED <<guild, status>> /\ (share' = share \/ InsertGuildShare(q.e, q.g, TRUE))
      BY <1>6 DEF InCreateGuild
    <2>3. ShareOK' /\ ShareKept
      BY <1>1, <2>2, ShareInsert DEF ShareOK, ShareKept
    <2>4. QED
      BY <1>1, <2>1, <2>2, <2>3 DEF GuildOK, StatusOK
  <1>7. QED
    BY <1>2, <1>3, <1>4, <1>5, <1>6 DEF InCreateGuild

\* Nobody's membership changes, and no guild comes, goes or counts anew.
MembersSame ==
    /\ \A e \in User : status'[e].gid = status[e].gid /\ status'[e].gpos = status[e].gpos
    /\ \A g \in User : guild'[g].there = guild[g].there /\ guild'[g].total = guild[g].total

LEMMA MoneyMembers ==
    ASSUME StatusOK, NEW e \in User, NEW x \in Int, UpdateMoney(e, x)
    PROVE  /\ StatusOK'
           /\ \A u \in User : status'[u].gid = status[u].gid /\ status'[u].gpos = status[u].gpos
  BY DEF StatusOK, UpdateMoney

LEMMA StatusPut ==
    ASSUME StatusOK, NEW e \in User, NEW g \in User \cup {NoGuild}, NEW p \in Gpos,
           UpdateStatusGuild(e, g, p)
    PROVE  /\ StatusOK'
           /\ status'[e].gid = g /\ status'[e].gpos = p
           /\ \A u \in User \ {e} : status'[u] = status[u]
  BY DEF StatusOK, UpdateStatusGuild

LEMMA GposRange ==
    {GUILD_POS_NONE, GUILD_POS_MASTER, GUILD_POS_SENIOR, GUILD_POS_MEMBER, GUILD_POS_APPLY} \subseteq Gpos
  BY DEF Gpos

LEMMA ApplyEffect ==
    ASSUME TInv, NEW th \in Thread, NEW i \in 1 .. Len(queue[th]), NEW ok \in BOOLEAN,
           queue[th][i].cmd = "apply", InGuildApply(th, i, ok)
    PROVE  (\E to : MovedTo(th, i, to)) /\ StatusOK' /\ ShareOK' /\ GuildOK' /\ ShareKept
  <1> DEFINE q == queue[th][i]
  <1>0. ReqOK(q)
    BY DEF TInv, QueueOK
  <1>1. StatusOK /\ ShareOK /\ GuildOK /\ q.e \in User /\ q.g \in User \cup {NoGuild}
    BY <1>0 DEF TInv, ReqOK
  <1>2. \E to : MovedTo(th, i, to)
    BY <1>0, Moves DEF InGuildApply
  <1>3. UNCHANGED <<share, guild>> /\ (status' = status \/ UpdateStatusGuild(q.e, q.g, GUILD_POS_APPLY))
    BY DEF InGuildApply, tables
  <1>4. StatusOK'
    BY <1>1, <1>3, StatusPut, GposRange DEF StatusOK
  <1>5. QED
    BY <1>1, <1>2, <1>3, <1>4 DEF ShareOK, GuildOK, ShareKept

LEMMA GposEffect ==
    ASSUME TInv, NEW th \in Thread, NEW i \in 1 .. Len(queue[th]), NEW ok \in BOOLEAN,
           queue[th][i].cmd = "gpos", InGuildPos(th, i, ok)
    PROVE  (\E to : MovedTo(th, i, to)) /\ StatusOK' /\ ShareOK' /\ GuildOK' /\ ShareKept
  <1> DEFINE q == queue[th][i]
  <1>0. ReqOK(q)
    BY DEF TInv, QueueOK
  <1>1. StatusOK /\ ShareOK /\ GuildOK /\ q.e \in User /\ q.g \in User /\ q.x \in Gpos
    BY <1>0, GposRange DEF TInv, ReqOK
  <1>2. \E to : MovedTo(th, i, to)
    <2>1. CASE q.at \in {"new", "promote"}
      BY <1>0, <2>1, Moves DEF InGuildPos
    <2>2. CASE q.at \in {"approve", "counted"}
      BY <1>0, <2>2, Moves DEF InGuildPos
    <2>3. CASE q.at \in {"undo", "joined"}
      BY <1>0, <2>3, Moves DEF InGuildPos
    <2>4. QED
      BY <2>1, <2>2, <2>3 DEF InGuildPos
  <1>3. status' = status \/ UpdateStatusGuild(q.e, q.g, q.x)
    BY DEF InGuildPos, tables
  <1>4. guild' = guild \/ GuildMemberChange(q.g, 1) \/ GuildMemberChange(q.g, -1)
    BY DEF InGuildPos, tables
  <1>5. share' = share \/ InsertGuildShare(q.e, q.g, FALSE)
    BY DEF InGuildPos, tables
  <1>6. StatusOK'
    BY <1>1, <1>3, StatusPut DEF StatusOK
  <1>7. GuildOK'
    BY <1>1, <1>4, GuildCount DEF GuildOK
  <1>8. ShareOK' /\ ShareKept
    BY <1>1, <1>5, ShareInsert DEF ShareOK, ShareKept
  <1>9. QED
    BY <1>2, <1>6, <1>7, <1>8

LEMMA GquitEffect ==
    ASSUME TInv, NEW th \in Thread, NEW i \in 1 .. Len(queue[th]), NEW ok \in BOOLEAN,
           queue[th][i].cmd = "gquit", InGuildQuit(th, i, ok)
    PROVE  (\E to : MovedTo(th, i, to)) /\ StatusOK' /\ ShareOK' /\ GuildOK' /\ ShareKept
  <1> DEFINE q == queue[th][i]
  <1>0. ReqOK(q)
    BY DEF TInv, QueueOK
  <1>1. StatusOK /\ ShareOK /\ GuildOK /\ q.e \in User /\ q.g \in User /\ DOMAIN q = Fields
    BY <1>0 DEF TInv, ReqOK
  <1>2. \E to : MovedTo(th, i, to)
    <2>1. CASE q.at = "new"
      <3> DEFINE one == <<status[q.e].gpos>>
                 r == [q EXCEPT !.at = "leave", !.got = one]
      <3>2. one[1] = status[q.e].gpos
        OBVIOUS
      <3>1. Same(q, r) /\ r.at = "leave" /\ r.got = one
        <4> HIDE DEF q, one
        <4>1. QED
          BY <1>1 DEF Same, Fields
      <3> HIDE DEF r, one
      <3>3. CASE ok /\ status[q.e].gid = q.g /\ status[q.e].gpos # GUILD_POS_MASTER
        <4>1. ReqOK(r)
          BY <1>0, <3>1, <3>2, <3>3 DEF ReqOK, Same
        <4>2. Set(th, i, r) /\ lapse' = lapse
          BY <2>1, <3>3 DEF InGuildQuit, r, one
        <4>3. QED
          BY <3>1, <4>1, <4>2 DEF MovedTo
      <3>4. CASE ~(ok /\ status[q.e].gid = q.g /\ status[q.e].gpos # GUILD_POS_MASTER)
        BY <1>0, <2>1, <3>4, Moves DEF InGuildQuit
      <3>5. QED
        BY <3>3, <3>4
    <2>2. CASE q.at # "new"
      BY <1>0, <2>2, Moves DEF InGuildQuit
    <2>3. QED
      BY <2>1, <2>2
  <1>3. status' = status \/ UpdateStatusGuild(q.e, NoGuild, GUILD_POS_NONE)
    BY DEF InGuildQuit, tables
  <1>4. guild' = guild \/ GuildMemberChange(q.g, 1) \/ GuildMemberChange(q.g, -1)
    BY DEF InGuildQuit, tables
  <1>5. share' = share \/ share' = [share EXCEPT ![q.e] = NoShare]
    BY DEF InGuildQuit, tables
  <1>10. NoShare \in ShareRows /\ NoShare.paid = 0
    BY DEF NoShare, ShareRows
  <1>6. StatusOK'
    BY <1>1, <1>3, StatusPut, GposRange DEF StatusOK
  <1>7. GuildOK'
    BY <1>1, <1>4, GuildCount DEF GuildOK
  <1>8. ShareOK' /\ ShareKept
    BY <1>1, <1>5, <1>10 DEF ShareOK, ShareKept, ShareRows
  <1>9. QED
    BY <1>2, <1>6, <1>7, <1>8

LEMMA DeleteEffect ==
    ASSUME TInv, NEW th \in Thread, NEW i \in 1 .. Len(queue[th]), NEW ok \in BOOLEAN,
           queue[th][i].cmd = "delete", InDeleteGuild(th, i, ok)
    PROVE  (\E to : MovedTo(th, i, to)) /\ StatusOK' /\ ShareOK' /\ GuildOK' /\ ShareKept
  <1> DEFINE q == queue[th][i]
             Out(e) == [status[e] EXCEPT !.gid = NoGuild, !.gpos = GUILD_POS_NONE]
             joined == {e \in User : share[e].gid = q.g}
  <1>0. ReqOK(q)
    BY DEF TInv, QueueOK
  <1>1. StatusOK /\ ShareOK /\ GuildOK /\ q.g \in User \cup {NoGuild}
    BY <1>0 DEF TInv, ReqOK
  <1>2. \E to : MovedTo(th, i, to)
    BY <1>0, Moves DEF InDeleteGuild
  <1>3. status' = status \/ status' = [e \in User |-> IF status[e].gid # q.g THEN status[e] ELSE Out(e)]
    BY DEF InDeleteGuild, tables
  <1>4. guild' = guild \/ guild' = [guild EXCEPT ![q.g] = NoRow]
    BY DEF InDeleteGuild, tables
  <1>5. share' = share \/ share' = [e \in User |-> IF e \in joined THEN NoShare ELSE share[e]]
    BY DEF InDeleteGuild, tables
  <1>6. StatusOK'
    <2>1. \A e \in User : Out(e) \in [gid : User \cup {NoGuild}, gpos : Gpos, gold : Int]
      BY <1>1, GposRange DEF StatusOK
    <2> HIDE DEF Out
    <2>2. QED
      BY <1>1, <1>3, <2>1 DEF StatusOK
  <1>7. GuildOK'
    <2>1. DOMAIN NoRow = {"there", "total", "glevel", "gold"} /\ NoRow.there \in BOOLEAN /\ NoRow.total \in Int
      BY DEF NoRow
    <2>2. QED
      BY <1>1, <1>4, <2>1, GuildRow DEF GuildOK
  <1>8. ShareOK' /\ ShareKept
    <2>1. NoShare \in ShareRows /\ NoShare.paid = 0
      BY DEF NoShare, ShareRows
    <2> HIDE DEF joined
    <2>2. QED
      BY <1>1, <1>5, <2>1 DEF ShareOK, ShareKept, ShareRows
  <1>9. QED
    BY <1>2, <1>6, <1>7, <1>8

LEMMA DepositEffect ==
    ASSUME TInv, NEW th \in Thread, NEW i \in 1 .. Len(queue[th]), NEW ok \in BOOLEAN,
           queue[th][i].cmd = "deposit", InGuildDeposit(th, i, ok)
    PROVE  /\ (\E to : MovedTo(th, i, to)) /\ StatusOK' /\ ShareOK' /\ GuildOK' /\ ShareKept
           /\ MembersSame
  <1> DEFINE q == queue[th][i]
             row == [guild[q.g] EXCEPT !.gold = @ + q.x]
             mine == [share[q.e] EXCEPT !.gshare = TRUE]
  <1>0. ReqOK(q)
    BY DEF TInv, QueueOK
  <1>1. StatusOK /\ ShareOK /\ GuildOK /\ q.e \in User /\ q.g \in User \cup {NoGuild} /\ q.x \in Int
    BY <1>0 DEF TInv, ReqOK
  <1>2. \E to : MovedTo(th, i, to)
    <2>1. CASE q.at \in {"new", "found"}
      BY <1>0, <2>1, Moves DEF InGuildDeposit
    <2>2. CASE q.at \in {"paid", "given"}
      BY <1>0, <2>2, Moves DEF InGuildDeposit
    <2>3. QED
      BY <2>1, <2>2 DEF InGuildDeposit
  <1>3. status' = status \/ UpdateMoney(q.e, -q.x)
    BY DEF InGuildDeposit, tables
  <1>4. guild' = guild \/ (Exists(q.g) /\ guild' = [guild EXCEPT ![q.g] = row])
    BY <1>1 DEF InGuildDeposit, tables, GuildOK
  <1>5. share' = share \/ share' = [share EXCEPT ![q.e] = mine]
    BY <1>1 DEF InGuildDeposit, tables, ShareOK
  <1>6. StatusOK' /\ \A u \in User : status'[u].gid = status[u].gid /\ status'[u].gpos = status[u].gpos
    BY <1>1, <1>3, MoneyMembers DEF StatusOK
  <1>7. /\ GuildOK'
        /\ \A g \in User : guild'[g].there = guild[g].there /\ guild'[g].total = guild[g].total
    <2>1. CASE guild' = guild
      BY <1>1, <2>1 DEF GuildOK
    <2>2. CASE Exists(q.g) /\ guild' = [guild EXCEPT ![q.g] = row]
      <3>1. q.g \in User
        BY <1>1, <2>2 DEF Exists
      <3>2. /\ DOMAIN row = {"there", "total", "glevel", "gold"}
            /\ row.there = guild[q.g].there /\ row.total = guild[q.g].total
        BY <1>1, <3>1 DEF GuildOK
      <3> HIDE DEF row
      <3>3. QED
        BY <1>1, <2>2, <3>1, <3>2, GuildRow DEF GuildOK
    <2>3. QED
      BY <1>4, <2>1, <2>2
  <1>8. ShareOK' /\ ShareKept
    <2>1. mine \in ShareRows /\ mine.paid = share[q.e].paid /\ mine.today = share[q.e].today
      BY <1>1 DEF ShareOK, ShareRows
    <2> HIDE DEF mine
    <2>2. QED
      BY <1>1, <1>5, <2>1 DEF ShareOK, ShareKept, ShareRows
  <1>9. QED
    BY <1>2, <1>6, <1>7, <1>8 DEF MembersSame

LEMMA TablesSame ==
    ASSUME TInv, UNCHANGED tables
    PROVE  StatusOK' /\ ShareOK' /\ GuildOK' /\ ShareKept /\ MembersSame
  BY DEF TInv, tables, StatusOK, ShareOK, GuildOK, ShareKept, MembersSame

LEMMA GlvEffect ==
    ASSUME TInv, NEW th \in Thread, NEW i \in 1 .. Len(queue[th]), NEW ok \in BOOLEAN,
           queue[th][i].cmd = "glv", InGlv(th, i, ok)
    PROVE  /\ (\E to : MovedTo(th, i, to)) /\ StatusOK' /\ ShareOK' /\ GuildOK' /\ ShareKept
           /\ MembersSame
  <1> DEFINE q == queue[th][i]
             two == <<guild[q.g].glevel, guild[q.g].gold>>
             r == [q EXCEPT !.at = "done", !.good = TRUE, !.got = two]
  <1>0. ReqOK(q)
    BY DEF TInv, QueueOK
  <1>1. Same(q, r) /\ r.at = "done" /\ r.x = q.x
    <2> HIDE DEF q, two
    <2>1. QED
      BY <1>0 DEF Same, Fields, ReqOK
  <1>2. (Set(th, i, r) /\ lapse' = lapse) \/ Refuse(th, i)
    BY DEF InGlv
  <1> HIDE DEF r
  <1>3. ReqOK(r)
    BY <1>0, <1>1 DEF ReqOK, Same
  <1>4. \E to : MovedTo(th, i, to)
    BY <1>0, <1>1, <1>2, <1>3, Moves DEF MovedTo
  <1>5. UNCHANGED tables
    BY DEF InGlv
  <1>6. QED
    BY <1>4, <1>5, TablesSame

LEMMA LoginEffect ==
    ASSUME TInv, NEW th \in Thread, NEW i \in 1 .. Len(queue[th]),
           queue[th][i].cmd = "login", InLogin(th, i)
    PROVE  /\ (\E to : MovedTo(th, i, to)) /\ StatusOK' /\ ShareOK' /\ GuildOK' /\ ShareKept
           /\ MembersSame
  <1> DEFINE q == queue[th][i]
             four == <<status[q.e].gid, status[q.e].gpos, status[q.e].gold,
                       IF Exists(status[q.e].gid) THEN guild[status[q.e].gid].glevel ELSE 0>>
             r == [q EXCEPT !.at = "done", !.good = TRUE, !.got = four]
  <1>0. ReqOK(q)
    BY DEF TInv, QueueOK
  <1>1. Same(q, r) /\ r.at = "done" /\ r.x = q.x /\ r.got = four
    <2> HIDE DEF q, four
    <2>1. QED
      BY <1>0 DEF Same, Fields, ReqOK
  <1>7. four[1] = status[q.e].gid /\ four[1] \in User \cup {NoGuild}
    <2>1. four[1] = status[q.e].gid
      OBVIOUS
    <2>2. QED
      BY <1>0, <2>1 DEF TInv, StatusOK, ReqOK
  <1>2. Set(th, i, r) /\ lapse' = lapse
    BY DEF InLogin
  <1> HIDE DEF r, four
  <1>3. ReqOK(r)
    BY <1>0, <1>1, <1>7 DEF ReqOK, Same
  <1>4. \E to : MovedTo(th, i, to)
    BY <1>1, <1>2, <1>3 DEF MovedTo
  <1>5. UNCHANGED tables
    BY DEF InLogin
  <1>6. QED
    BY <1>4, <1>5, TablesSame

LEMMA GlevelupEffect ==
    ASSUME TInv, NEW th \in Thread, NEW i \in 1 .. Len(queue[th]), NEW ok \in BOOLEAN,
           queue[th][i].cmd = "glevelup", InGlevelup(th, i, ok)
    PROVE  /\ (\E to : MovedTo(th, i, to)) /\ StatusOK' /\ ShareOK' /\ GuildOK' /\ ShareKept
           /\ MembersSame
  <1> DEFINE q == queue[th][i]
             row == [guild[q.g] EXCEPT !.glevel = @ + 1]
             risen == [guild EXCEPT ![q.g] = row]
             last == [risen[q.g] EXCEPT !.gold = @ - LevelUpGold[q.x]]
  <1>0. ReqOK(q)
    BY DEF TInv, QueueOK
  <1>1. StatusOK /\ ShareOK /\ GuildOK /\ q.g \in User \cup {NoGuild}
    BY <1>0 DEF TInv, ReqOK
  <1>2. \E to : MovedTo(th, i, to)
    BY <1>0, Moves DEF InGlevelup
  <1>3. UNCHANGED <<status, share>>
    BY DEF InGlevelup
  <1>4. guild' = guild \/ (Exists(q.g) /\ guild' = [risen EXCEPT ![q.g] = last])
    <2>1. CASE guild' = guild
      BY <2>1
    <2>2. CASE Exists(q.g) /\ guild' = [guild EXCEPT ![q.g].glevel = @ + 1, ![q.g].gold = @ - LevelUpGold[q.x]]
      <3>1. q.g \in User
        BY <1>1, <2>2 DEF Exists
      <3>2. QED
        BY <1>1, <2>2, <3>1 DEF GuildOK
    <2>3. QED
      BY <2>1, <2>2 DEF InGlevelup
  <1>5. /\ GuildOK'
        /\ \A g \in User : guild'[g].there = guild[g].there /\ guild'[g].total = guild[g].total
    <2>1. CASE guild' = guild
      BY <1>1, <2>1 DEF GuildOK
    <2>2. CASE Exists(q.g) /\ guild' = [risen EXCEPT ![q.g] = last]
      <3>1. q.g \in User
        BY <1>1, <2>2 DEF Exists
      <3>2. /\ DOMAIN row = {"there", "total", "glevel", "gold"}
            /\ row.there = guild[q.g].there /\ row.total = guild[q.g].total
        BY <1>1, <3>1 DEF GuildOK
      <3> HIDE DEF row
      <3>3. DOMAIN risen = User /\ risen[q.g] = row /\ \A g \in User \ {q.g} : risen[g] = guild[g]
        BY <1>1, <3>1 DEF GuildOK
      <3> HIDE DEF risen
      <3>4. /\ DOMAIN last = {"there", "total", "glevel", "gold"}
            /\ last.there = guild[q.g].there /\ last.total = guild[q.g].total
        BY <3>2, <3>3
      <3> HIDE DEF last
      <3>5. DOMAIN guild' = User /\ guild'[q.g] = last /\ \A g \in User \ {q.g} : guild'[g] = guild[g]
        BY <2>2, <3>1, <3>3
      <3>6. QED
        BY <1>1, <3>1, <3>4, <3>5 DEF GuildOK
    <2>3. QED
      BY <1>4, <2>1, <2>2
  <1>6. QED
    BY <1>1, <1>2, <1>3, <1>5 DEF ShareOK, StatusOK, ShareKept, MembersSame

\* The bonus: what it has been found to be, once the day's is due.
LEMMA BonusEffect ==
    ASSUME TInv, NEW th \in Thread, NEW i \in 1 .. Len(queue[th]), NEW ok \in BOOLEAN,
           queue[th][i].cmd = "bonus", InGuildBonus(th, i, ok)
    PROVE  LET q == queue[th][i] IN
           /\ \/ q.at = "new" /\ UNCHANGED share
                 /\ (MovedTo(th, i, "done") \/ (BonusDue(q.e) /\ MovedTo(th, i, "due")))
              \/ q.at = "due" /\ UNCHANGED share /\ MovedTo(th, i, "done")
              \/ q.at = "due" /\ MovedTo(th, i, "paid")
                 /\ share' = [share EXCEPT ![q.e].paid = @ + q.x]
              \/ q.at = "paid" /\ UNCHANGED share /\ MovedTo(th, i, "done") /\ lapse' = TRUE
              \/ q.at = "paid" /\ MovedTo(th, i, "done")
                 /\ share' = [share EXCEPT ![q.e].today = TRUE]
           /\ StatusOK' /\ ShareOK' /\ GuildOK' /\ MembersSame
  <1> DEFINE q == queue[th][i]
  <1>0. ReqOK(q)
    BY DEF TInv, QueueOK
  <1>1. StatusOK /\ ShareOK /\ GuildOK /\ q.e \in User /\ (q.at = "due" => q.x \in 0 .. 1)
    BY <1>0 DEF TInv, ReqOK
  <1>2. CASE q.at = "new" /\ UNCHANGED tables
    <2>1. CASE ok /\ BonusDue(q.e)
      <3>a. PICK b \in 0 .. IF share[q.e].gshare THEN 1 ELSE 0 :
                Set(th, i, [q EXCEPT !.at = "due", !.x = b]) /\ lapse' = lapse
        BY <1>2, <2>1 DEF InGuildBonus
      <3>1. b \in 0 .. 1
        BY <1>1 DEF ShareOK
      <3> DEFINE r == [q EXCEPT !.at = "due", !.x = b]
      <3>2. Same(q, r) /\ r.at = "due" /\ r.x = b
        <4> HIDE DEF q
        <4>1. QED
          BY <1>0 DEF Same, Fields, ReqOK
      <3> HIDE DEF r
      <3>3. ReqOK(r)
        BY <1>0, <3>1, <3>2 DEF ReqOK, Same
      <3>4. MovedTo(th, i, "due")
        BY <3>a, <3>2, <3>3 DEF MovedTo, r
      <3>5. QED
        BY <1>2, <2>1, <3>4, TablesSame DEF tables
    <2>2. CASE ~(ok /\ BonusDue(q.e))
      <3>1. MovedTo(th, i, "done")
        BY <1>0, <1>2, <2>2, Moves DEF InGuildBonus
      <3>2. UNCHANGED share /\ StatusOK' /\ ShareOK' /\ GuildOK' /\ MembersSame
        BY <1>2, TablesSame DEF tables
      <3>3. QED
        BY <1>2, <3>1, <3>2
    <2>3. QED
      BY <2>1, <2>2
  <1>3. CASE q.at = "due" /\ UNCHANGED guild
    <2>1. CASE ok
      <3>1. /\ UpdateMoney(q.e, q.x) /\ Go(th, i, "paid")
            /\ share' = [share EXCEPT ![q.e].paid = @ + q.x]
        BY <1>3, <2>1 DEF InGuildBonus
      <3>2. MovedTo(th, i, "paid")
        BY <1>0, <3>1, Moves
      <3>3. ShareOK'
        BY <1>1, <1>3, <3>1 DEF ShareOK
      <3>4. QED
        BY <1>1, <1>3, <3>1, <3>2, <3>3, MoneyMembers DEF GuildOK, MembersSame
    <2>2. CASE ~ok
      <3>1. UNCHANGED tables /\ MovedTo(th, i, "done")
        BY <1>0, <1>3, <2>2, Moves DEF InGuildBonus, tables
      <3>2. QED
        BY <1>3, <3>1, TablesSame DEF tables
    <2>3. QED
      BY <2>1, <2>2
  <1>4. CASE q.at = "paid" /\ UNCHANGED <<status, guild, ledger>>
    <2>1. CASE ok /\ share[q.e].gid # NoGuild
      <3>1. Succeed(th, i) /\ share' = [share EXCEPT ![q.e].today = TRUE]
        BY <1>4, <2>1 DEF InGuildBonus
      <3>2. MovedTo(th, i, "done")
        BY <1>0, <3>1, Moves
      <3>3. ShareOK'
        BY <1>1, <3>1 DEF ShareOK
      <3>4. QED
        BY <1>1, <1>4, <3>1, <3>2, <3>3 DEF GuildOK, StatusOK, MembersSame
    <2>2. CASE ~(ok /\ share[q.e].gid # NoGuild)
      <3>1. UNCHANGED share /\ MovedTo(th, i, "done") /\ lapse' = TRUE
        BY <1>0, <1>4, <2>2, Moves DEF InGuildBonus
      <3>2. QED
        BY <1>4, <3>1, TablesSame DEF tables
    <2>3. QED
      BY <2>1, <2>2
  <1>5. QED
    BY <1>2, <1>3, <1>4 DEF InGuildBonus

----------------------------------------------------------------------------
(* Types                                                                   *)

\* dbio() of one request.
Work(th, i, ok) ==
    \/ queue[th][i].cmd = "create" /\ InCreateGuild(th, i, ok)
    \/ queue[th][i].cmd = "apply" /\ InGuildApply(th, i, ok)
    \/ queue[th][i].cmd = "gpos" /\ InGuildPos(th, i, ok)
    \/ queue[th][i].cmd = "gquit" /\ InGuildQuit(th, i, ok)
    \/ queue[th][i].cmd = "delete" /\ InDeleteGuild(th, i, ok)
    \/ queue[th][i].cmd = "deposit" /\ InGuildDeposit(th, i, ok)
    \/ queue[th][i].cmd = "bonus" /\ InGuildBonus(th, i, ok)
    \/ queue[th][i].cmd = "glv" /\ InGlv(th, i, ok)
    \/ queue[th][i].cmd = "glevelup" /\ InGlevelup(th, i, ok)
    \/ queue[th][i].cmd = "login" /\ ok /\ InLogin(th, i)

LEMMA DbioWork ==
    ASSUME NEW th \in Thread, Dbio(th)
    PROVE  \E i \in 1 .. Len(queue[th]), ok \in BOOLEAN : Current(th, i) /\ Work(th, i, ok) /\ threads' = threads
  BY DEF Dbio, Work

LEMMA WorkType ==
    ASSUME TInv, NEW th \in Thread, NEW i \in 1 .. Len(queue[th]), NEW ok \in BOOLEAN, Work(th, i, ok)
    PROVE  /\ (\E to : MovedTo(th, i, to)) /\ StatusOK' /\ ShareOK' /\ GuildOK'
           /\ queue[th][i].cmd # "bonus" => ShareKept
  <1>1. CASE queue[th][i].cmd \in {"create", "apply", "gpos", "gquit", "delete"}
    BY <1>1, CreateEffect, ApplyEffect, GposEffect, GquitEffect, DeleteEffect DEF Work
  <1>2. CASE queue[th][i].cmd \in {"deposit", "glv", "glevelup", "login"}
    BY <1>2, DepositEffect, GlvEffect, GlevelupEffect, LoginEffect DEF Work
  <1>3. CASE queue[th][i].cmd = "bonus"
    <2>1. InGuildBonus(th, i, ok)
      BY <1>3 DEF Work
    <2>2. QED
      BY <1>3, <2>1, BonusEffect
  <1>4. QED
    BY <1>1, <1>2, <1>3 DEF Work

\* The requests a worker is at are the same.
Like(r, q) == r.cmd = q.cmd /\ r.e = q.e /\ r.g = q.g /\ r.x = q.x /\ r.at = q.at
Quiet ==
    \A th \in Thread :
        /\ \A i \in 1 .. Len(queue[th]) : queue[th][i].at \notin {"new", "done"} =>
              \E j \in 1 .. Len(queue'[th]) : Like(queue'[th][j], queue[th][i])
        /\ \A j \in 1 .. Len(queue'[th]) : queue'[th][j].at \notin {"new", "done"} =>
              \E i \in 1 .. Len(queue[th]) : Like(queue'[th][j], queue[th][i])

\* The main loop leaves the tables to the workers.
MainOnly ==
    /\ UNCHANGED <<threads, status, guild, share>> /\ lapse' \in {lapse, TRUE}
    /\ Quiet /\ QueueOK' /\ ConnOK'

LEMMA QuietSame == queue' = queue => Quiet
  BY DEF Quiet, Like

LEMMA QuietAdd ==
    ASSUME QueueOK, NEW th \in Thread, NEW r, ReqOK(r), r.at = "new",
           r.cmd = "bonus" => th = r.e % threads, threads' = threads,
           queue' = [queue EXCEPT ![th] = Append(@, r)]
    PROVE  Quiet /\ QueueOK'
  <1>1. /\ QueueOK'
        /\ Len(queue'[th]) = Len(queue[th]) + 1 /\ queue'[th][Len(queue[th]) + 1] = r
        /\ \A u \in Thread \ {th} : queue'[u] = queue[u]
        /\ \A j \in 1 .. Len(queue[th]) : queue'[th][j] = queue[th][j]
    BY AddQueue
  <1>2. PICK l \in Nat : l = Len(queue[th])
    BY DEF QueueOK
  <1>3. \A j \in 1 .. l + 1 : j \in 1 .. l \/ j = l + 1
    OBVIOUS
  <1>4. \A j \in 1 .. l : j \in 1 .. l + 1
    OBVIOUS
  <1>5. ASSUME NEW u \in Thread, u # th
        PROVE  /\ \A i \in 1 .. Len(queue[u]) : \E j \in 1 .. Len(queue'[u]) : Like(queue'[u][j], queue[u][i])
               /\ \A j \in 1 .. Len(queue'[u]) : \E i \in 1 .. Len(queue[u]) : Like(queue'[u][j], queue[u][i])
    BY <1>1, <1>5 DEF Like
  <1>6. \A i \in 1 .. Len(queue[th]) : \E j \in 1 .. Len(queue'[th]) : Like(queue'[th][j], queue[th][i])
    BY <1>1, <1>2, <1>4 DEF Like
  <1>7. \A j \in 1 .. Len(queue'[th]) : queue'[th][j].at \notin {"new", "done"} =>
              \E i \in 1 .. Len(queue[th]) : Like(queue'[th][j], queue[th][i])
    BY <1>1, <1>2, <1>3 DEF Like
  <1>8. QED
    BY <1>1, <1>5, <1>6, <1>7 DEF Quiet

LEMMA QuietTail ==
    ASSUME QueueOK, NEW th \in Thread, queue[th] # <<>>, Head(queue[th]).at = "done", threads' = threads,
           queue' = [queue EXCEPT ![th] = Tail(@)]
    PROVE  Quiet /\ QueueOK'
  <1>1. /\ QueueOK'
        /\ Len(queue'[th]) + 1 = Len(queue[th])
        /\ \A u \in Thread \ {th} : queue'[u] = queue[u]
        /\ \A j \in 1 .. Len(queue'[th]) : queue'[th][j] = queue[th][j + 1]
    BY TailQueue
  <1>2. PICK l \in Nat : l = Len(queue'[th]) /\ l + 1 = Len(queue[th])
    <2>1. PICK S : queue'[th] \in Seq(S)
      BY <1>1 DEF QueueOK, Thread
    <2>2. QED
      BY <1>1, <2>1
  <1>3. queue[th][1].at = "done"
    BY DEF QueueOK
  <1>4. \A i \in 1 .. l + 1 : i # 1 => i - 1 \in 1 .. l /\ (i - 1) + 1 = i
    OBVIOUS
  <1>5. \A j \in 1 .. l : j + 1 \in 1 .. l + 1
    OBVIOUS
  <1>6. ASSUME NEW u \in Thread, u # th
        PROVE  /\ \A i \in 1 .. Len(queue[u]) : \E j \in 1 .. Len(queue'[u]) : Like(queue'[u][j], queue[u][i])
               /\ \A j \in 1 .. Len(queue'[u]) : \E i \in 1 .. Len(queue[u]) : Like(queue'[u][j], queue[u][i])
    BY <1>1, <1>6 DEF Like
  <1>7. ASSUME NEW i \in 1 .. Len(queue[th]), queue[th][i].at \notin {"new", "done"}
        PROVE  \E j \in 1 .. Len(queue'[th]) : Like(queue'[th][j], queue[th][i])
    <2>1. i - 1 \in 1 .. Len(queue'[th]) /\ queue'[th][i - 1] = queue[th][i]
      BY <1>1, <1>2, <1>3, <1>4, <1>7
    <2>2. QED
      BY <2>1 DEF Like
  <1>8. \A j \in 1 .. Len(queue'[th]) : \E i \in 1 .. Len(queue[th]) : Like(queue'[th][j], queue[th][i])
    BY <1>1, <1>2, <1>5 DEF Like
  <1>9. QED
    BY <1>1, <1>6, <1>7, <1>8 DEF Quiet

LEMMA ThreadOf == ASSUME NEW e \in User, threads \in Nat \ {0} PROVE e % threads \in Thread
  <1>1. e \in Nat
    BY GuildAssumption
  <1>2. QED
    BY <1>1 DEF Thread

LEMMA RowsOne ==
    ASSUME NEW c, Rows(c), NEW e, NEW row, DOMAIN row = {"up", "gid", "gpos", "gold", "busy"},
           row.gid \in User \cup {NoGuild}
    PROVE  Rows([c EXCEPT ![e] = row])
  <1> DEFINE d == [c EXCEPT ![e] = row]
  <1>1. DOMAIN d = User /\ \A u \in User : d[u] = IF u = e THEN row ELSE c[u]
    BY DEF Rows
  <1> HIDE DEF d
  <1>2. Rows(d)
    BY <1>1 DEF Rows
  <1>3. QED
    BY <1>2 DEF d

LEMMA RowsOut ==
    ASSUME NEW c, Rows(c), NEW e, e \notin User, NEW row
    PROVE  Rows([c EXCEPT ![e] = row])
  <1> DEFINE d == [c EXCEPT ![e] = row]
  <1>1. DOMAIN d = User /\ \A u \in User : d[u] = c[u]
    BY DEF Rows
  <1> HIDE DEF d
  <1>2. Rows(d)
    BY <1>1 DEF Rows
  <1>3. QED
    BY <1>2 DEF d

LEMMA RowsBusy ==
    ASSUME NEW c, Rows(c), NEW e, NEW busy
    PROVE  Rows([c EXCEPT ![e].busy = busy])
  <1> DEFINE row == [c[e] EXCEPT !.busy = busy]
  <1>1. CASE e \in User
    <2>1. DOMAIN row = {"up", "gid", "gpos", "gold", "busy"} /\ row.gid \in User \cup {NoGuild}
      BY <1>1 DEF Rows
    <2> HIDE DEF row
    <2>2. Rows([c EXCEPT ![e] = row])
      BY <2>1, RowsOne
    <2>3. QED
      BY <2>2 DEF row
  <1>2. CASE e \notin User
    <2> HIDE DEF row
    <2>1. Rows([c EXCEPT ![e] = row])
      BY <1>2, RowsOut
    <2>2. QED
      BY <2>1 DEF row
  <1>3. QED
    BY <1>1, <1>2

LEMMA DbinMain ==
    ASSUME TInv, NEW e \in User, NEW q, DbinWrite(e, q), ReqOK(q), q.at = "new",
           q.cmd = "bonus" => q.e = e
    PROVE  MainOnly
  <1>1. e % threads \in Thread
    BY ThreadOf DEF TInv, QueueOK
  <1>2. queue' = [queue EXCEPT ![e % threads] = Append(@, q)] /\ UNCHANGED <<threads, status, guild, share, lapse>>
    BY DEF DbinWrite
  <1>3. ConnOK'
    <2>1. conn' = [conn EXCEPT ![e].busy = TRUE]
      BY DEF DbinWrite
    <2>2. QED
      BY <2>1, RowsBusy DEF TInv, ConnOK
  <1>4. QED
    BY <1>1, <1>2, <1>3, QuietAdd DEF MainOnly, TInv

\* The commands of the users.
LEMMA DbinStep ==
    ASSUME TInv, NEW e \in User, NEW t \in User,
           \/ DbinCreateGuild(e) \/ DbinDeleteGuild(e) \/ DbinGdeposit(e, 1) \/ DbinGbonus(e)
           \/ DbinGlv(e) \/ DbinGlevelup(e) \/ DbinGapply(e, t) \/ DbinGquit(e, t)
           \/ DbinGpos(e, t, GUILD_POS_SENIOR) \/ DbinGpos(e, t, GUILD_POS_MEMBER)
    PROVE  MainOnly
  <1> DEFINE g == conn[e].gid
  <1>0. CreateGold \in Int /\ g \in User \cup {NoGuild}
    BY GuildAssumption DEF TInv, ConnOK, Rows
  <1>1. CASE DbinCreateGuild(e)
    BY <1>0, <1>1, NewOK, DbinMain DEF DbinCreateGuild
  <1>2. CASE DbinDeleteGuild(e)
    BY <1>2, NewOK, DbinMain DEF DbinDeleteGuild
  <1>3. CASE DbinGdeposit(e, 1)
    BY <1>0, <1>3, NewOK, DbinMain DEF DbinGdeposit
  <1>4. CASE DbinGbonus(e)
    BY <1>4, NewOK, DbinMain DEF DbinGbonus
  <1>5. CASE DbinGlv(e)
    BY <1>0, <1>5, NewOK, DbinMain DEF DbinGlv
  <1>6. CASE DbinGlevelup(e)
    BY <1>6, NewOK, DbinMain DEF DbinGlevelup
  <1>7. CASE DbinGapply(e, t)
    BY <1>7, NewOK, DbinMain DEF DbinGapply
  <1>8. CASE DbinGquit(e, t)
    <2>1. g \in User
      BY <1>0, <1>8 DEF DbinGquit
    <2>2. \E max : DbinWrite(e, NewRequest("gquit", e, t, g, 0, max))
      BY <1>8 DEF DbinGquit
    <2>3. QED
      BY <2>1, <2>2, NewOK, DbinMain
  <1>9. ASSUME NEW pos \in {GUILD_POS_SENIOR, GUILD_POS_MEMBER}, DbinGpos(e, t, pos) PROVE MainOnly
    <2>1. g \in User
      BY <1>0, <1>9 DEF DbinGpos
    <2>2. \E max : DbinWrite(e, NewRequest("gpos", e, t, g, pos, max))
      BY <1>9 DEF DbinGpos
    <2>3. QED
      BY <2>1, <2>2, NewOK, DbinMain
  <1>10. QED
    BY <1>1, <1>2, <1>3, <1>4, <1>5, <1>6, <1>7, <1>8, <1>9

LEMMA RowsCache ==
    ASSUME NEW c, Rows(c), NEW e, NEW g \in User \cup {NoGuild}, NEW p
    PROVE  Rows(Cache(c, e, g, p))
  <1> DEFINE row == [[c[e] EXCEPT !.gid = g] EXCEPT !.gpos = p]
             d == [c EXCEPT ![e] = row]
             z == [c EXCEPT ![e].gid = g, ![e].gpos = p]
  <1>1. CASE e \in User
    <2>1. DOMAIN row = {"up", "gid", "gpos", "gold", "busy"} /\ row.gid = g
      BY <1>1 DEF Rows
    <2>2. DOMAIN z = User /\ \A u \in User : z[u] = IF u = e THEN row ELSE c[u]
      BY <1>1 DEF Rows
    <2> HIDE DEF row, z
    <2>3. Rows(z)
      BY <2>1, <2>2 DEF Rows
    <2>4. QED
      BY <2>3 DEF Cache, z
  <1>2. CASE e \notin User
    <2>1. DOMAIN z = User /\ \A u \in User : z[u] = c[u]
      BY <1>2 DEF Rows
    <2> HIDE DEF z
    <2>2. Rows(z)
      BY <2>1 DEF Rows
    <2>3. QED
      BY <2>2 DEF Cache, z
  <1>3. QED
    BY <1>1, <1>2

LEMMA RowsClear ==
    ASSUME NEW c, Rows(c), NEW g
    PROVE  Rows(GuildClear(c, g))
  <1> DEFINE z == GuildClear(c, g)
             Out(e) == [c[e] EXCEPT !.gid = NoGuild, !.gpos = GUILD_POS_NONE]
  <1>1. \A e \in User : DOMAIN Out(e) = {"up", "gid", "gpos", "gold", "busy"} /\ Out(e).gid = NoGuild
    BY DEF Rows
  <1>2. DOMAIN z = User /\ \A e \in User : z[e] = Out(e) \/ z[e] = c[e]
    BY DEF GuildClear
  <1> HIDE DEF Out, z
  <1>3. Rows(z)
    BY <1>1, <1>2 DEF Rows
  <1>4. QED
    BY <1>3 DEF z

\* What a reply makes of the connections.
LEMMA ReplyRows ==
    ASSUME NEW q, ReqOK(q), q.at = "done", NEW c, Rows(c),
           \/ q.cmd = "create" /\ OutCreateGuild(q, c)
           \/ q.cmd = "delete" /\ OutDeleteGuild(q, c)
           \/ q.cmd = "apply" /\ OutGapply(q, c)
           \/ q.cmd = "gpos" /\ OutGpos(q, c)
           \/ q.cmd = "gquit" /\ OutGquit(q, c)
           \/ q.cmd = "deposit" /\ OutGdeposit(q, c)
           \/ q.cmd = "bonus" /\ OutGbonus(q, c)
           \/ q.cmd = "glv" /\ OutGlv(q, c)
           \/ q.cmd = "glevelup" /\ OutGlevelup(q, c)
           \/ q.cmd = "login" /\ OutLogin(q, c)
    PROVE  Rows(conn')
  <1>0. q.g \in User \cup {NoGuild} /\ NoGuild \in User \cup {NoGuild} /\ q.e \in User
    BY DEF ReqOK
  <1>1. CASE OutCreateGuild(q, c)
    <2> DEFINE row == [[[c[q.by] EXCEPT !.gid = q.g] EXCEPT !.gpos = GUILD_POS_MASTER] EXCEPT !.gold = @ - q.x]
    <2>1. CASE q.by \in User
      <3>1. DOMAIN row = {"up", "gid", "gpos", "gold", "busy"} /\ row.gid = q.g
        BY <2>1 DEF Rows
      <3>2. DOMAIN conn' = User /\ \A u \in User : conn'[u] = IF u = q.by THEN row ELSE c[u]
        BY <1>1, <2>1 DEF Rows, OutCreateGuild
      <3> HIDE DEF row
      <3>3. QED
        BY <1>0, <3>1, <3>2 DEF Rows
    <2>2. CASE q.by \notin User
      <3>1. DOMAIN conn' = User /\ \A u \in User : conn'[u] = c[u]
        BY <1>1, <2>2 DEF Rows, OutCreateGuild
      <3>2. QED
        BY <3>1 DEF Rows
    <2>3. QED
      BY <2>1, <2>2
  <1>2. CASE OutDeleteGuild(q, c)
    BY <1>0, <1>2, RowsCache, RowsClear DEF OutDeleteGuild
  <1>3. CASE OutGapply(q, c) \/ OutGpos(q, c) \/ OutGquit(q, c)
    BY <1>0, <1>3, RowsCache DEF OutGapply, OutGpos, OutGquit
  <1>a. ASSUME NEW gold, conn' = [c EXCEPT ![q.by].gold = gold] PROVE Rows(conn')
    <2> DEFINE row == [c[q.by] EXCEPT !.gold = gold]
    <2>1. CASE q.by \in User
      <3>1. DOMAIN row = {"up", "gid", "gpos", "gold", "busy"} /\ row.gid \in User \cup {NoGuild}
        BY <2>1 DEF Rows
      <3>2. conn' = [c EXCEPT ![q.by] = row]
        BY <1>a
      <3> HIDE DEF row
      <3>3. QED
        BY <3>1, <3>2, RowsOne
    <2>2. CASE q.by \notin User
      <3>1. DOMAIN conn' = User /\ \A u \in User : conn'[u] = c[u]
        BY <1>a, <2>2 DEF Rows
      <3>2. QED
        BY <3>1 DEF Rows
    <2>3. QED
      BY <2>1, <2>2
  <1>4. CASE OutGdeposit(q, c)
    <2>1. conn' = [c EXCEPT ![q.by].gold = c[q.by].gold - q.x]
      BY <1>4 DEF OutGdeposit
    <2>2. QED
      BY <1>a, <2>1
  <1>5. CASE OutGbonus(q, c)
    <2>1. conn' = [c EXCEPT ![q.by].gold = c[q.by].gold + q.x]
      BY <1>5 DEF OutGbonus
    <2>2. QED
      BY <1>a, <2>1
  <1>6. CASE OutGlv(q, c) \/ OutGlevelup(q, c)
    BY <1>6 DEF OutGlv, OutGlevelup
  <1>7. CASE q.cmd = "login" /\ OutLogin(q, c)
    <2> DEFINE row == [up |-> TRUE, gid |-> q.got[1], gpos |-> q.got[2], gold |-> q.got[3], busy |-> FALSE]
    <2>1. DOMAIN row = {"up", "gid", "gpos", "gold", "busy"} /\ row.gid \in User \cup {NoGuild}
      BY <1>7 DEF ReqOK
    <2>2. conn' = [c EXCEPT ![q.e] = row]
      BY <1>7 DEF OutLogin
    <2> HIDE DEF row
    <2>3. QED
      BY <2>1, <2>2, RowsOne
  <1>8. QED
    BY <1>1, <1>2, <1>3, <1>4, <1>5, <1>6, <1>7

LEMMA ReplyStep ==
    ASSUME TInv, NEW th \in Thread, Dbout(th)
    PROVE  MainOnly
  <1> DEFINE q == Head(queue[th])
             c == IF q.by = NoOne THEN conn ELSE [conn EXCEPT ![q.by].busy = FALSE]
  <1>1. queue[th] # <<>> /\ q.at = "done" /\ queue' = [queue EXCEPT ![th] = Tail(@)]
        /\ UNCHANGED <<threads, status, guild, share>>
    BY DEF Dbout, tables, bounds
  <1>2. lapse' \in {lapse, TRUE}
    <2>1. PICK b \in BOOLEAN : lapse' = (lapse \/ b)
      <3>1. PICK h \in BOOLEAN : lapse' = (lapse \/ (q.good /\ h))
        BY DEF Dbout
      <3>2. QED
        BY <3>1
    <2>2. QED
      BY <2>1 DEF TInv
  <1>3. ReqOK(q)
    <2>1. 1 \in 1 .. Len(queue[th]) /\ q = queue[th][1]
      BY <1>1 DEF TInv, QueueOK
    <2>2. QED
      BY <2>1 DEF TInv, QueueOK
  <1>4. Rows(c)
    BY RowsBusy DEF TInv, ConnOK
  <1>5. Rows(conn')
    <2>1. CASE conn' = c
      BY <1>4, <2>1
    <2>2. CASE ~(conn' = c /\ UNCHANGED map)
      <3> HIDE DEF c, q
      <3>1. QED
        BY <1>1, <1>3, <1>4, <2>2, ReplyRows DEF Dbout, q, c
    <2>3. QED
      BY <2>1, <2>2
  <1>6. QED
    BY <1>1, <1>2, <1>5, QuietTail DEF MainOnly, TInv, ConnOK

\* The connection of a user goes: its requests are nobody's.
Unasked(q, e) == IF q.by = e THEN [q EXCEPT !.by = NoOne] ELSE q

LEMMA UnaskedLike == ASSUME NEW q, ReqOK(q), NEW e PROVE Like(Unasked(q, e), q) /\ ReqOK(Unasked(q, e))
  <1> DEFINE r == Unasked(q, e)
  <1>1. DOMAIN q = Fields
    BY DEF ReqOK
  <1>2. Same(q, r) /\ r.at = q.at /\ r.x = q.x /\ r.got = q.got
    BY <1>1, MoveBy DEF Same, Unasked
  <1> HIDE DEF r
  <1>3. Like(r, q) /\ ReqOK(r)
    BY <1>2 DEF ReqOK, Same, Like
  <1>4. QED
    BY <1>3 DEF r

LEMMA QuietBy ==
    ASSUME QueueOK, NEW e, threads' = threads, DOMAIN queue' = Thread,
           \A th \in Thread : queue'[th] = [i \in 1 .. Len(queue[th]) |-> Unasked(queue[th][i], e)]
    PROVE  Quiet /\ QueueOK'
  <1>0. Thread' = Thread
    BY DEF Thread
  <1>1. PICK S : \A u \in Thread : queue[u] \in Seq(S)
    BY DEF QueueOK
  <1> DEFINE T == {Unasked(q, e) : q \in S}
  <1>2. \A q \in S : Unasked(q, e) \in T
    OBVIOUS
  <1> HIDE DEF T
  <1>3. ASSUME NEW u \in Thread
        PROVE  /\ queue'[u] \in Seq(T) /\ Len(queue'[u]) = Len(queue[u])
               /\ \A i \in 1 .. Len(queue[u]) : queue'[u][i] = Unasked(queue[u][i], e)
    <2>1. PICK l \in Nat : l = Len(queue[u])
      BY <1>1
    <2>2. queue'[u] = [i \in 1 .. l |-> Unasked(queue[u][i], e)]
      BY <2>1
    <2>3. \A i \in 1 .. l : Unasked(queue[u][i], e) \in T
      BY <1>1, <1>2, <2>1
    <2>4. QED
      BY <2>1, <2>2, <2>3
  <1>4. ASSUME NEW u \in Thread, NEW i \in 1 .. Len(queue[u])
        PROVE  Like(queue'[u][i], queue[u][i]) /\ ReqOK(queue'[u][i])
    BY <1>3, UnaskedLike DEF QueueOK
  <1>5. Quiet
    BY <1>3, <1>4 DEF Quiet
  <1>6. \A u \in Thread : InTurn(u)'
    BY <1>3, <1>4 DEF InTurn, QueueOK, Like
  <1>7. \A u \in Thread : \A j \in 1 .. Len(queue'[u]) :
           /\ ReqOK(queue'[u][j])
           /\ queue'[u][j].cmd = "bonus" => u = queue'[u][j].e % threads
    BY <1>3, <1>4 DEF QueueOK, Like
  <1>8. QED
    BY <1>0, <1>3, <1>5, <1>6, <1>7 DEF QueueOK, ReqOK

LEMMA ComeAndGo ==
    ASSUME TInv, NEW e \in User, DoClean(e) \/ \E th \in Thread : DbinLogin(e, th)
    PROVE  MainOnly
  <1>1. CASE DoClean(e)
    <2>1. UNCHANGED <<threads, status, guild, share, lapse>>
      BY <1>1 DEF DoClean, tables, bounds
    <2>2. /\ DOMAIN queue' = Thread
          /\ \A th \in Thread : queue'[th] = [i \in 1 .. Len(queue[th]) |-> Unasked(queue[th][i], e)]
      BY <1>1 DEF DoClean, Unasked
    <2>a. Quiet /\ QueueOK'
      BY <2>1, <2>2, QuietBy DEF TInv
    <2>3. Rows(conn')
      <3>1. DOMAIN Offline = {"up", "gid", "gpos", "gold", "busy"} /\ Offline.gid \in User \cup {NoGuild}
        BY DEF Offline
      <3>2. QED
        BY <1>1, <3>1, RowsOne DEF DoClean, TInv, ConnOK
    <2>4. QED
      BY <2>1, <2>a, <2>3 DEF MainOnly, ConnOK
  <1>2. ASSUME NEW th \in Thread, DbinLogin(e, th) PROVE MainOnly
    <2>1. UNCHANGED <<threads, status, guild, share, lapse, conn>>
      BY <1>2 DEF DbinLogin, tables, main
    <2> DEFINE r == NewRequest("login", NoOne, e, NoGuild, 0, 0)
    <2>2. ReqOK(r) /\ r.at = "new" /\ r.cmd = "login"
      BY NewOK
    <2>3. queue' = [queue EXCEPT ![th] = Append(@, r)]
      BY <1>2 DEF DbinLogin
    <2> HIDE DEF r
    <2>4. Quiet /\ QueueOK'
      BY <2>1, <2>2, <2>3, QuietAdd DEF TInv
    <2>5. QED
      BY <2>1, <2>4 DEF MainOnly, TInv, ConnOK, Rows
  <1>3. QED
    BY <1>1, <1>2

LEMMA ShareRowDay ==
    ASSUME NEW s \in ShareRows, NEW day \in BOOLEAN, NEW paid \in Int
    PROVE  LET row == [s EXCEPT !.today = day, !.paid = paid] IN row \in ShareRows /\ row.paid = paid
  BY DEF ShareRows

LEMMA MidnightShares ==
    ASSUME ShareOK, Midnight
    PROVE  ShareOK' /\ \A e \in User : share'[e].paid = 0
  <1>1. ASSUME NEW e \in User
        PROVE  LET row == [share[e] EXCEPT !.today = FALSE, !.paid = 0] IN row \in ShareRows /\ row.paid = 0
    <2>1. share[e] \in ShareRows /\ FALSE \in BOOLEAN /\ 0 \in Int
      BY DEF ShareOK, ShareRows
    <2>2. QED
      BY <2>1, ShareRowDay, Zenon
  <1>2. share' = [e \in User |-> [share[e] EXCEPT !.today = FALSE, !.paid = 0]]
    BY DEF Midnight
  <1>3. QED
    BY <1>1, <1>2 DEF ShareOK, ShareRows

\* A step is a worker's, the main loop's, or a day passes.
StepKinds ==
    \/ \E th \in Thread : \E i \in 1 .. Len(queue[th]) : \E ok \in BOOLEAN :
          Current(th, i) /\ Work(th, i, ok) /\ UNCHANGED <<threads, conn>>
    \/ MainOnly
    \/ Midnight

LEMMA Kinds == ASSUME TInv, [Next]_vars PROVE StepKinds
  <1>1. CASE UNCHANGED vars
    BY <1>1, QuietSame DEF vars, MainOnly, StepKinds, TInv, QueueOK, ReqOK, InTurn, Thread, ConnOK, Rows
  <1>2. ASSUME NEW th \in Thread, Dbio(th) PROVE StepKinds
    BY <1>2 DEF Dbio, Work, StepKinds
  <1>3. ASSUME NEW th \in Thread, Dbout(th) PROVE StepKinds
    BY <1>3, ReplyStep DEF StepKinds
  <1>4. QED
    BY <1>1, <1>2, <1>3, DbinStep, ComeAndGo DEF Next, StepKinds

LEMMA ShareInit == ASSUME Init PROVE ShareOK /\ \A e \in User : share[e].paid = 0
  <1>1. NoShare \in ShareRows /\ NoShare.paid = 0
    BY DEF NoShare, ShareRows
  <1>2. ASSUME NEW e \in User PROVE share[e] \in ShareRows /\ share[e].paid = 0
    <2>1. First[e].gid \in User \cup {NoGuild}
      BY GuildAssumption
    <2>2. PICK master \in BOOLEAN : master = (First[e].gpos = GUILD_POS_MASTER)
      OBVIOUS
    <2> DEFINE row == [NoShare EXCEPT !.gid = First[e].gid, !.gshare = master]
    <2>3. row \in ShareRows /\ row.paid = 0
      BY <1>1, <2>1, ShareRowPut
    <2>4. share[e] = NoShare \/ share[e] = row
      BY <2>2 DEF Init
    <2> HIDE DEF row
    <2>5. QED
      BY <1>1, <2>3, <2>4
  <1>3. share = [e \in User |-> share[e]]
    BY DEF Init
  <1>4. QED
    BY <1>2, <1>3 DEF ShareOK, ShareRows

LEMMA TypeInit == ASSUME Init PROVE TInv
  <1>1. threads \in Nat \ {0}
    BY GuildAssumption DEF Init
  <1>2. QueueOK
    <2>1. /\ DOMAIN queue = Thread
          /\ \A th \in Thread : queue[th] = <<>>
      BY DEF Init
    <2>2. <<>> \in Seq({}) /\ Len(<<>>) = 0
      OBVIOUS
    <2>3. \A th \in Thread : queue[th] \in Seq({}) /\ Len(queue[th]) = 0
      BY <2>1, <2>2, Zenon
    <2>4. QED
      BY <1>1, <2>1, <2>3 DEF QueueOK, InTurn
  <1>3. /\ DOMAIN First = User
        /\ \A e \in User : First[e] \in [gid : User \cup {NoGuild}, gpos : Gpos, gold : Nat]
    BY GuildAssumption
  <1>4. StatusOK
    <2>1. \A e \in User : First[e] \in [gid : User \cup {NoGuild}, gpos : Gpos, gold : Int]
      BY <1>3
    <2>2. First \in [User -> [gid : User \cup {NoGuild}, gpos : Gpos, gold : Nat]]
      BY GuildAssumption
    <2>3. QED
      BY <2>1, <2>2 DEF Init, StatusOK
  <1>5. ShareOK
    BY ShareInit
  <1>6. GuildOK
    <2>1. User \subseteq Nat /\ IsFiniteSet(User)
      BY GuildAssumption
    <2>2. ASSUME NEW g \in User
          PROVE  Cardinality({e \in User : First[e].gid = g /\ First[e].gpos \in Membership}) \in Int
      BY <2>1, FS_Subset, FS_CardinalityType
    <2>3. ASSUME NEW g \in User
          PROVE  /\ DOMAIN guild[g] = {"there", "total", "glevel", "gold"}
                 /\ guild[g].there \in BOOLEAN /\ guild[g].total \in Int
      <3>1. CASE g \in FirstGuilds
        <4>1. PICK n \in Int : n = Cardinality({e \in User : First[e].gid = g /\ First[e].gpos \in Membership})
          BY <2>2
        <4>2. guild[g] = [there |-> TRUE, glevel |-> 1, gold |-> CreateGold, total |-> n]
          BY <3>1, <4>1 DEF Init
        <4>3. QED
          BY <4>1, <4>2
      <3>2. CASE g \notin FirstGuilds
        <4>1. guild[g] = NoRow
          BY <3>2, Zenon DEF Init
        <4>2. QED
          BY <4>1 DEF NoRow
      <3>3. QED
        BY <3>1, <3>2
    <2>4. DOMAIN guild = User
      BY DEF Init
    <2>5. QED
      BY <2>3, <2>4 DEF GuildOK
  <1>7. ConnOK
    BY <1>3 DEF Init, ConnOK, Rows
  <1>8. QED
    BY <1>2, <1>4, <1>5, <1>6, <1>7 DEF TInv, Init

LEMMA TypeStep == ASSUME TInv, [Next]_vars PROVE TInv'
  <1>1. ASSUME NEW th \in Thread, NEW i \in 1 .. Len(queue[th]), NEW ok \in BOOLEAN,
               Current(th, i), Work(th, i, ok), UNCHANGED <<threads, conn>>
        PROVE  TInv'
    <2>1. PICK to : MovedTo(th, i, to)
      BY <1>1, WorkType
    <2>2. QueueOK' /\ lapse' \in BOOLEAN
      BY <1>1, <2>1, SetQueue DEF MovedTo, TInv
    <2>3. QED
      BY <1>1, <2>2, WorkType DEF TInv, ConnOK, Rows
  <1>2. CASE MainOnly
    BY <1>2 DEF MainOnly, TInv, StatusOK, ShareOK, GuildOK
  <1>3. CASE Midnight
    <2>1. UNCHANGED <<threads, status, guild, conn, queue, lapse>>
      BY <1>3 DEF Midnight, main, bounds
    <2>2. QED
      BY <1>3, <2>1, MidnightShares DEF TInv, StatusOK, GuildOK, ConnOK, Rows, QueueOK, InTurn, ReqOK, Thread
  <1>4. QED
    BY <1>1, <1>2, <1>3, Kinds DEF StepKinds

\* Every request, row and connection keeps its shape, whatever fails.
THEOREM TypeInvariant == Spec => []TInv
  <1>1. Init => TInv
    BY TypeInit
  <1>2. TInv /\ [Next]_vars => TInv'
    BY TypeStep
  <1>3. QED
    BY <1>1, <1>2, PTL DEF Spec

----------------------------------------------------------------------------
(* A share pays its bonus once a day                                       *)

\* A bonus request of e is at this point.
Paying(e, stage) ==
    \E th \in Thread : \E i \in 1 .. Len(queue[th]) :
        queue[th][i].cmd = "bonus" /\ queue[th][i].e = e /\ queue[th][i].at = stage

\* What has been paid is dated, or its request is about to date it; and what
\* is found due has not been paid.
BInv ==
    ~lapse => \A e \in User :
        /\ share[e].paid \in 0 .. 1
        /\ share[e].paid = 1 /\ ~share[e].today => Paying(e, "paid")
        /\ Paying(e, "due") => share[e].paid = 0

LEMMA QuietPaying ==
    ASSUME Quiet, threads' = threads, NEW e, NEW stage \in {"due", "paid"}
    PROVE  Paying(e, stage)' <=> Paying(e, stage)
  <1>1. Thread' = Thread
    BY DEF Thread
  <1>2. ASSUME Paying(e, stage) PROVE Paying(e, stage)'
    <2>1. PICK th \in Thread : \E i \in 1 .. Len(queue[th]) :
              queue[th][i].cmd = "bonus" /\ queue[th][i].e = e /\ queue[th][i].at = stage
      BY <1>2 DEF Paying
    <2>2. \E j \in 1 .. Len(queue'[th]) :
              queue'[th][j].cmd = "bonus" /\ queue'[th][j].e = e /\ queue'[th][j].at = stage
      BY <2>1 DEF Quiet, Like
    <2>3. QED
      BY <1>1, <2>2 DEF Paying
  <1>3. ASSUME Paying(e, stage)' PROVE Paying(e, stage)
    <2>1. PICK th \in Thread : \E j \in 1 .. Len(queue'[th]) :
              queue'[th][j].cmd = "bonus" /\ queue'[th][j].e = e /\ queue'[th][j].at = stage
      BY <1>1, <1>3 DEF Paying
    <2>2. \E i \in 1 .. Len(queue[th]) :
              queue[th][i].cmd = "bonus" /\ queue[th][i].e = e /\ queue[th][i].at = stage
      BY <2>1 DEF Quiet, Like
    <2>3. QED
      BY <2>2 DEF Paying
  <1>4. QED
    BY <1>2, <1>3

\* A worker that is at one request changes what is said of its user only.
LEMMA WorkPaying ==
    ASSUME TInv, NEW th \in Thread, NEW i \in 1 .. Len(queue[th]), Current(th, i), threads' = threads,
           NEW to, MovedTo(th, i, to), NEW e \in User, NEW stage \in {"due", "paid"}
    PROVE  LET q == queue[th][i] IN
           IF q.cmd = "bonus" /\ q.e = e
           THEN (Paying(e, stage) <=> q.at = stage) /\ (Paying(e, stage)' <=> to = stage)
           ELSE Paying(e, stage)' <=> Paying(e, stage)
  <1> DEFINE q == queue[th][i]
  <1>1. PICK r : Set(th, i, r) /\ Same(q, r) /\ ReqOK(r) /\ r.at = to
    BY DEF MovedTo
  <1>2. /\ Len(queue'[th]) = Len(queue[th])
        /\ \A u \in Thread \ {th} : queue'[u] = queue[u]
        /\ \A j \in 1 .. Len(queue[th]) : queue'[th][j] = IF j = i THEN r ELSE queue[th][j]
    BY <1>1, SetQueue DEF TInv
  <1>3. Thread' = Thread
    BY DEF Thread
  <1>4. CASE ~(q.cmd = "bonus" /\ q.e = e)
    <2> DEFINE At1(s, j) == s[j].cmd = "bonus" /\ s[j].e = e /\ s[j].at = stage
    <2>1. r.cmd = q.cmd /\ r.e = q.e
      BY <1>1 DEF Same
    <2>2. ~At1(queue[th], i) /\ ~At1(queue'[th], i)
      BY <1>2, <1>4, <2>1
    <2>3. ASSUME NEW u \in Thread
          PROVE  Len(queue'[u]) = Len(queue[u]) /\ \A j \in 1 .. Len(queue[u]) : At1(queue'[u], j) <=> At1(queue[u], j)
      BY <1>2, <2>2
    <2>4. Paying(e, stage) <=> \E u \in Thread : \E j \in 1 .. Len(queue[u]) : At1(queue[u], j)
      BY DEF Paying
    <2>5. Paying(e, stage)' <=> \E u \in Thread : \E j \in 1 .. Len(queue'[u]) : At1(queue'[u], j)
      BY <1>3 DEF Paying
    <2> HIDE DEF At1
    <2>6. QED
      BY <1>4, <2>3, <2>4, <2>5
  <1>5. CASE q.cmd = "bonus" /\ q.e = e
    <2>1. th = e % threads /\ r.cmd = "bonus" /\ r.e = e
      BY <1>1, <1>5 DEF TInv, QueueOK, Same
    <2>2. \A u \in Thread \ {th} : \A j \in 1 .. Len(queue[u]) : ~(queue[u][j].cmd = "bonus" /\ queue[u][j].e = e)
      BY <2>1 DEF TInv, QueueOK
    <2>3. \A j \in 1 .. Len(queue[th]) : j # i => queue[th][j].at \in {"new", "done"}
      <3>1. ASSUME NEW j \in 1 .. Len(queue[th]), j # i PROVE queue[th][j].at \in {"new", "done"}
        <4>1. PICK l \in Nat : l = Len(queue[th])
          BY DEF TInv, QueueOK
        <4>2. j < i \/ i < j
          BY <3>1, <4>1
        <4>3. j < i => j \in 1 .. i - 1
          BY <4>1
        <4>4. QED
          BY <4>2, <4>3 DEF TInv, QueueOK, InTurn, Current
      <3>2. QED
        BY <3>1
    <2>4. Paying(e, stage) <=> q.at = stage
      BY <1>5, <2>2, <2>3 DEF Paying
    <2>5. Paying(e, stage)' <=> r.at = stage
      <3>1. ASSUME NEW u \in Thread, NEW j \in 1 .. Len(queue'[u]),
                   queue'[u][j].cmd = "bonus" /\ queue'[u][j].e = e /\ queue'[u][j].at = stage
            PROVE  r.at = stage
        <4>1. u = th
          BY <1>2, <2>2, <3>1
        <4>2. j \in 1 .. Len(queue[th]) /\ queue'[th][j] = IF j = i THEN r ELSE queue[th][j]
          BY <1>2, <4>1
        <4>3. j = i
          BY <2>3, <3>1, <4>1, <4>2
        <4>4. QED
          BY <3>1, <4>1, <4>2, <4>3
      <3>2. ASSUME r.at = stage
            PROVE  \E j \in 1 .. Len(queue'[th]) :
                      queue'[th][j].cmd = "bonus" /\ queue'[th][j].e = e /\ queue'[th][j].at = stage
        BY <1>2, <2>1, <3>2
      <3>3. Paying(e, stage)' => r.at = stage
        BY <1>3, <3>1 DEF Paying
      <3>4. r.at = stage => Paying(e, stage)'
        BY <1>3, <3>2 DEF Paying
      <3>5. QED
        BY <3>3, <3>4
    <2>6. QED
      BY <1>1, <1>5, <2>4, <2>5
  <1>6. QED
    BY <1>4, <1>5

LEMMA BonusStep == ASSUME TInv, BInv, [Next]_vars PROVE BInv'
  <1>1. ASSUME NEW th \in Thread, NEW i \in 1 .. Len(queue[th]), NEW ok \in BOOLEAN,
               Current(th, i), Work(th, i, ok), threads' = threads, ~lapse', NEW e \in User
        PROVE  /\ share'[e].paid \in 0 .. 1
               /\ share'[e].paid = 1 /\ ~share'[e].today => Paying(e, "paid")'
               /\ Paying(e, "due")' => share'[e].paid = 0
    <2> DEFINE q == queue[th][i]
    <2>1. ReqOK(q) /\ ShareOK
      BY DEF TInv, QueueOK
    <2>2. CASE q.cmd # "bonus"
      <3>1. PICK to : MovedTo(th, i, to)
        BY <1>1, WorkType
      <3>2. ~lapse /\ ShareKept
        <4>1. lapse' \in {lapse, TRUE}
          BY <3>1 DEF MovedTo
        <4>2. ~lapse
          BY <1>1, <4>1, Zenon
        <4>3. QED
          BY <1>1, <2>2, <4>2, WorkType
      <3>3. /\ Paying(e, "paid")' <=> Paying(e, "paid")
            /\ Paying(e, "due")' <=> Paying(e, "due")
        BY <1>1, <2>2, <3>1, WorkPaying
      <3>4. QED
        BY <3>2, <3>3 DEF BInv, ShareKept
    <2>3. CASE q.cmd = "bonus"
      <3>0. InGuildBonus(th, i, ok)
        BY <1>1, <2>3 DEF Work
      <3> DEFINE
            Moved(to) ==
              /\ MovedTo(th, i, to)
              /\ \/ q.at = "new" /\ UNCHANGED share /\ (to = "done" \/ (BonusDue(q.e) /\ to = "due"))
                 \/ q.at = "due" /\ UNCHANGED share /\ to = "done"
                 \/ q.at = "due" /\ to = "paid" /\ share' = [share EXCEPT ![q.e].paid = @ + q.x]
                 \/ q.at = "paid" /\ to = "done" /\ share' = [share EXCEPT ![q.e].today = TRUE]
      <3>a. \/ q.at = "new" /\ UNCHANGED share
               /\ (MovedTo(th, i, "done") \/ (BonusDue(q.e) /\ MovedTo(th, i, "due")))
            \/ q.at = "due" /\ UNCHANGED share /\ MovedTo(th, i, "done")
            \/ q.at = "due" /\ MovedTo(th, i, "paid") /\ share' = [share EXCEPT ![q.e].paid = @ + q.x]
            \/ q.at = "paid" /\ UNCHANGED share /\ MovedTo(th, i, "done") /\ lapse' = TRUE
            \/ q.at = "paid" /\ MovedTo(th, i, "done") /\ share' = [share EXCEPT ![q.e].today = TRUE]
        BY <1>1, <2>3, <3>0, BonusEffect
      <3>b. Moved("done") \/ Moved("due") \/ Moved("paid")
        BY <1>1, <3>a, Zenon
      <3>1. PICK to : Moved(to)
        BY <3>b
      <3>2. ~lapse
        <4>1. lapse' \in {lapse, TRUE}
          BY <3>1 DEF MovedTo
        <4>2. QED
          BY <1>1, <4>1, Zenon
      <3>3. CASE q.e # e
        <4>1. /\ Paying(e, "paid")' <=> Paying(e, "paid")
              /\ Paying(e, "due")' <=> Paying(e, "due")
          BY <1>1, <3>1, <3>3, WorkPaying
        <4>2. share'[e] = share[e]
          BY <2>1, <3>1, <3>3 DEF ShareOK
        <4>3. QED
          BY <3>2, <4>1, <4>2 DEF BInv
      <3>4. CASE q.e = e
        <4>1. /\ Paying(e, "paid") <=> q.at = "paid"
              /\ Paying(e, "due") <=> q.at = "due"
              /\ Paying(e, "paid")' <=> to = "paid"
              /\ Paying(e, "due")' <=> to = "due"
          BY <1>1, <2>3, <3>1, <3>4, WorkPaying
        <4>2. /\ share[e].paid \in 0 .. 1
              /\ share[e].paid = 1 /\ ~share[e].today => q.at = "paid"
              /\ q.at = "due" => share[e].paid = 0
          BY <3>2, <4>1 DEF BInv
        <4>3. CASE q.at = "new"
          BY <3>1, <3>4, <4>1, <4>2, <4>3 DEF BonusDue
        <4>4. CASE q.at = "due"
          <5>1. q.x \in 0 .. 1 /\ share[e].paid = 0
            BY <2>1, <2>3, <4>2, <4>4 DEF ReqOK
          <5>2. CASE UNCHANGED share /\ to = "done"
            BY <4>1, <5>1, <5>2
          <5>3. CASE to = "paid" /\ share' = [share EXCEPT ![q.e].paid = @ + q.x]
            <6>1. share'[e].paid = q.x
              BY <2>1, <3>4, <5>1, <5>3 DEF ShareOK
            <6>2. QED
              BY <4>1, <5>1, <5>3, <6>1
          <5>4. QED
            BY <3>1, <4>4, <5>2, <5>3
        <4>5. CASE q.at = "paid"
          <5>1. to = "done" /\ share'[e].today = TRUE /\ share'[e].paid = share[e].paid
            BY <2>1, <3>1, <3>4, <4>5 DEF ShareOK
          <5>2. QED
            BY <4>1, <4>2, <5>1
        <4>6. QED
          BY <3>1, <4>3, <4>4, <4>5
      <3>5. QED
        BY <3>3, <3>4
    <2>4. QED
      BY <2>2, <2>3
  <1>2. CASE MainOnly
    <2>1. threads' = threads /\ share' = share /\ lapse' \in {lapse, TRUE} /\ Quiet
      BY <1>2 DEF MainOnly
    <2>a. ~lapse' => ~lapse
      BY <2>1, Zenon
    <2>2. \A e \in User : /\ Paying(e, "paid")' <=> Paying(e, "paid")
                          /\ Paying(e, "due")' <=> Paying(e, "due")
      BY <2>1, QuietPaying
    <2>3. QED
      BY <2>1, <2>a, <2>2 DEF BInv
  <1>3. CASE Midnight
    BY <1>3, MidnightShares DEF BInv, TInv
  <1>4. QED
    BY <1>1, <1>2, <1>3, Kinds DEF StepKinds, BInv

\* Nobody is paid the bonus of one share twice a day, with any number of
\* workers, unless the statement that dates it has failed.
THEOREM BonusPaidOnce == Spec => []BonusOnce
  <1>1. Init => BInv
    <2> SUFFICES ASSUME Init PROVE BInv
      OBVIOUS
    <2>1. \A e \in User : share[e].paid = 0
      BY ShareInit
    <2>2. QED
      BY <2>1 DEF BInv
  <1>2. TInv /\ BInv /\ [Next]_vars => BInv'
    BY BonusStep
  <1>3. TInv /\ BInv => BonusOnce
    BY DEF TInv, BInv, BonusOnce
  <1>4. QED
    BY <1>1, <1>2, <1>3, TypeInvariant, PTL DEF Spec

----------------------------------------------------------------------------
(* With one worker g_guild_map lists the members online.                   *)

\* The queue of the worker, when there is one.
Q == queue[0]
Places == 1 .. Len(Q)

\* Requests by which a user gets a guild; only who has none sends them.
Own(q) == q.cmd \in {"create", "apply"}

Passed(q) == q.at = "done" /\ q.good

\* The request has changed the membership of its user, and will tell.
Changes(q) ==
    \/ q.cmd = "gpos" /\ (q.at = "joined" \/ Passed(q))
    \/ q.cmd = "gquit" /\ (q.at \in {"left", "unshared"} \/ Passed(q))

\* The request has ended that of e in b.
Ends(q, e, b) ==
    \/ q.cmd = "gquit" /\ q.e = e /\ Changes(q)
    \/ q.cmd = "delete" /\ q.g = b /\ (q.at = "kicked" \/ Passed(q))

Taken(e, i) == Own(Q[i]) /\ Q[i].e = e /\ Passed(Q[i])
ReadIn(e, i) == Q[i].cmd = "login" /\ Q[i].e = e /\ Q[i].at = "done"

\* From the p-th reply on, e's connection has guild b until a reply says otherwise.
Anchor(e, p, b) ==
    \/ p = 0 /\ conn[e].up /\ b = conn[e].gid /\ \A i \in Places : ~Taken(e, i)
    \/ p \in Places /\ conn[e].up /\ Taken(e, p) /\ b = Q[p].g
    \/ p \in Places /\ ReadIn(e, p) /\ b = Q[p].got[1]

\* All that is told of e behind its p-th reply is about guild b; status has
\* that guild or none, and once e is out of it nothing more is told.
Chain(e, p, b) ==
    /\ \A j \in Places : j > p /\ Q[j].e = e /\ Changes(Q[j]) => Q[j].g = b /\ b # NoGuild
    /\ status[e].gid \in {NoGuild, b} \/ (b = NoGuild /\ status[e].gpos = GUILD_POS_MASTER)
    /\ \A j \in Places : j > p /\ Ends(Q[j], e, b) /\ b # NoGuild =>
          status[e].gid = NoGuild /\ \A k \in Places : k > j => ~(Q[k].e = e /\ Changes(Q[k]))

ChainOK == \A e \in User : \A p \in 0 .. Len(Q) : \A b \in User \cup {NoGuild} : Anchor(e, p, b) => Chain(e, p, b)

\* Before a user gets a guild nothing is told of it.
BeforeOK ==
    \A e \in User : \A i \in Places : conn[e].up /\ Taken(e, i) =>
        \A j \in Places : j < i => ~(Q[j].e = e /\ Changes(Q[j]))

\* A connection asks for one thing at a time, and for a guild when it has none.
AskedOK ==
    \A i \in Places :
        /\ Own(Q[i]) /\ conn[Q[i].e].up => Q[i].by = Q[i].e /\ conn[Q[i].e].gid = NoGuild
        /\ Q[i].by # NoOne => /\ Q[i].by \in User /\ conn[Q[i].by].up /\ conn[Q[i].by].busy
                              /\ \A j \in Places : Q[j].by = Q[i].by => j = i
        /\ Own(Q[i]) => Q[i].by \in {Q[i].e, NoOne}
        /\ Q[i].cmd \in {"create", "delete"} => Q[i].g = Q[i].e
        /\ Q[i].cmd = "apply" => Q[i].g # NoGuild
        /\ Q[i].cmd = "delete" => Q[i].by \in {Q[i].e, NoOne}
        /\ Q[i].good \in BOOLEAN /\ (Q[i].good => Q[i].at = "done")

\* A login is asked for by who is not there; what it reads is a membership.
LoginsOK ==
    \A i \in Places : Q[i].cmd = "login" =>
        /\ ~conn[Q[i].e].up /\ Q[i].by = NoOne
        /\ \A j \in Places : Q[j].cmd = "login" /\ Q[j].e = Q[i].e => j = i
        /\ \A j \in Places : Own(Q[j]) /\ Q[j].e = Q[i].e => j < i
        /\ Q[i].at = "done" => Q[i].got[2] \in Gpos /\ (Q[i].got[1] = NoGuild <=> Q[i].got[2] = GUILD_POS_NONE)

\* Who has a guild has a position in it; a master has his own.
PosOK ==
    \A e \in User : /\ status[e].gid = NoGuild <=> status[e].gpos = GUILD_POS_NONE
                    /\ status[e].gpos = GUILD_POS_MASTER => status[e].gid = e

MapShape(m) == DOMAIN m = User /\ \A g \in User : DOMAIN m[g] = {"mem", "glevel", "gold"}

Listed(c, e, g) == c[e].up /\ c[e].gid = g /\ c[e].gpos \in Membership
ListOK(c, m) == \A g \in User : m[g].mem = {e \in User : Listed(c, e, g)}

OneInv == PosOK /\ ChainOK /\ BeforeOK /\ AskedOK /\ LoginsOK /\ ListOK(conn, map)
MInv == MapShape(map) /\ (threads = 1 => OneInv)

SameStatus ==
    \A e \in User : status'[e].gid = status[e].gid /\ status'[e].gpos = status[e].gpos
Moved(e, g, p) ==
    /\ status'[e].gid = g /\ status'[e].gpos = p
    /\ \A u \in User \ {e} : status'[u].gid = status[u].gid /\ status'[u].gpos = status[u].gpos

\* A statement of request q, which leaves it as r: one that changes nobody's
\* membership, the one by which a user joins (or rises), leaves, or is
\* cleared out, the one that makes a master, the last one of a request for a
\* guild, and the one that reads the user's row.
TurnIdle(q, r) ==
    /\ SameStatus /\ (Changes(r) => Changes(q)) /\ ~(Own(r) /\ Passed(r))
    /\ \A e \in User, b \in User : Ends(r, e, b) => Ends(q, e, b)
    /\ ~(r.cmd = "login" /\ r.at = "done")
TurnJoin(q, r) ==
    /\ q.cmd = "gpos" /\ status[q.e].gid = q.g /\ status[q.e].gpos # GUILD_POS_MASTER
    /\ Moved(q.e, q.g, q.x)
TurnLeave(q, r) ==
    /\ q.cmd = "gquit" /\ status[q.e].gid = q.g /\ status[q.e].gpos # GUILD_POS_MASTER
    /\ Moved(q.e, NoGuild, GUILD_POS_NONE)
TurnClear(q, r) ==
    /\ q.cmd = "delete"
    /\ \A e \in User : IF status[e].gid = q.g THEN status'[e].gid = NoGuild /\ status'[e].gpos = GUILD_POS_NONE
                       ELSE status'[e].gid = status[e].gid /\ status'[e].gpos = status[e].gpos
TurnFound(q, r) ==
    /\ q.cmd = "create" /\ r.at # "done" /\ status[q.e].gid = NoGuild
    /\ Moved(q.e, q.e, GUILD_POS_MASTER)
TurnTaken(q, r) ==
    /\ Own(q) /\ Passed(r)
    /\ \/ q.cmd = "create" /\ SameStatus
       \/ q.cmd = "apply" /\ status[q.e].gid = NoGuild /\ q.g # NoGuild /\ Moved(q.e, q.g, GUILD_POS_APPLY)
TurnRead(q, r) ==
    q.cmd = "login" /\ SameStatus /\ r.got[1] = status[q.e].gid /\ r.got[2] = status[q.e].gpos

Turn(q, r) ==
    \/ TurnIdle(q, r) \/ TurnJoin(q, r) \/ TurnLeave(q, r) \/ TurnClear(q, r)
    \/ TurnFound(q, r) \/ TurnTaken(q, r) \/ TurnRead(q, r)

\* What is known of the request when its worker comes to it.
Ready(q) ==
    /\ q.good = FALSE /\ q.at # "done"
    /\ q.cmd \in {"create", "delete"} => q.g = q.e
    /\ q.cmd = "apply" => q.g # NoGuild

Outcome(q, r, at, good) ==
    /\ r.at = at /\ r.good = good /\ r.by = q.by
    /\ r.cmd = q.cmd /\ r.e = q.e /\ r.g = q.g /\ r.x = q.x /\ r.got = q.got

LEMMA SetIs ==
    ASSUME TInv, NEW th \in Thread, NEW i \in 1 .. Len(queue[th]), NEW r, Set(th, i, r)
    PROVE  queue'[th][i] = r
  <1>1. PICK S : queue[th] \in Seq(S)
    BY DEF TInv, QueueOK
  <1>2. queue'[th] = [queue[th] EXCEPT ![i] = r]
    BY DEF Set, TInv, QueueOK
  <1>3. QED
    BY <1>1, <1>2

LEMMA OutcomeAt ==
    ASSUME NEW q, DOMAIN q = Fields, NEW a, NEW r, r = [q EXCEPT !.at = a]
    PROVE  Outcome(q, r, a, q.good)
  BY DEF Fields, Outcome

LEMMA OutcomeGood ==
    ASSUME NEW q, DOMAIN q = Fields
    PROVE  Outcome(q, [q EXCEPT !.at = "done", !.good = TRUE], "done", TRUE)
  BY DEF Fields, Outcome

LEMMA Outcomes ==
    ASSUME TInv, NEW th \in Thread, NEW i \in 1 .. Len(queue[th])
    PROVE  /\ \A at : Go(th, i, at) => Outcome(queue[th][i], queue'[th][i], at, queue[th][i].good)
           /\ Succeed(th, i) => Outcome(queue[th][i], queue'[th][i], "done", TRUE)
           /\ Refuse(th, i) => Outcome(queue[th][i], queue'[th][i], "done", queue[th][i].good)
           /\ Break(th, i) => Outcome(queue[th][i], queue'[th][i], "done", queue[th][i].good)
  <1> PICK q : q = queue[th][i]
    OBVIOUS
  <1>1. DOMAIN q = Fields
    BY DEF TInv, QueueOK, ReqOK
  <1>a. ASSUME NEW at, Set(th, i, [q EXCEPT !.at = at]) PROVE Outcome(q, queue'[th][i], at, q.good)
    <2>1. PICK r : r = [q EXCEPT !.at = at]
      OBVIOUS
    <2>2. queue'[th][i] = r
      BY <1>a, <2>1, SetIs
    <2>3. Outcome(q, r, at, q.good)
      BY <1>1, <2>1, OutcomeAt
    <2>4. QED
      BY <2>2, <2>3
  <1>2. ASSUME NEW at PROVE Go(th, i, at) => Outcome(q, queue'[th][i], at, q.good)
    BY <1>a DEF Go
  <1>3. Succeed(th, i) => Outcome(q, queue'[th][i], "done", TRUE)
    BY <1>1, SetIs, OutcomeGood DEF Succeed
  <1>4. Refuse(th, i) => Outcome(q, queue'[th][i], "done", q.good)
    BY <1>a DEF Refuse
  <1>5. Break(th, i) => Outcome(q, queue'[th][i], "done", q.good)
    BY <1>a DEF Break
  <1>6. QED
    BY <1>2, <1>3, <1>4, <1>5

\* The statements that set a membership, as Moved says it.
LEMMA PutMoves ==
    ASSUME StatusOK, NEW e \in User, NEW g \in User \cup {NoGuild}, NEW p \in Gpos,
           UpdateStatusGuild(e, g, p)
    PROVE  Moved(e, g, p)
  BY StatusPut DEF Moved

LEMMA MoneySame ==
    ASSUME StatusOK, NEW e \in User, NEW x \in Int, UpdateMoney(e, x)
    PROVE  SameStatus
  BY MoneyMembers DEF SameStatus

\* A request that goes on or ends without telling of a membership.
LEMMA IdleTurn ==
    ASSUME NEW q, NEW r, NEW at, Outcome(q, r, at, FALSE), SameStatus, q.cmd # "login",
           q.cmd \in {"gpos", "gquit", "delete"} => at \notin {"joined", "left", "kicked"}, at # "unshared"
    PROVE  TurnIdle(q, r)
  BY DEF Outcome, TurnIdle, Changes, Ends, Passed, Own

LEMMA CreateTurn ==
    ASSUME TInv, NEW th \in Thread, NEW i \in 1 .. Len(queue[th]), NEW ok \in BOOLEAN,
           queue[th][i].cmd = "create", Ready(queue[th][i]), InCreateGuild(th, i, ok)
    PROVE  queue'[th][i].by = queue[th][i].by /\ Turn(queue[th][i], queue'[th][i])
  <1> PICK q : q = queue[th][i]
    OBVIOUS
  <1> PICK r : r = queue'[th][i]
    OBVIOUS
  <1>1. /\ StatusOK /\ q.e \in User /\ q.g = q.e /\ q.x \in Int /\ q.cmd = "create" /\ q.good = FALSE
    BY DEF TInv, QueueOK, ReqOK, Ready
  <1>2. /\ \A at : Go(th, i, at) => Outcome(q, r, at, FALSE)
        /\ Succeed(th, i) => Outcome(q, r, "done", TRUE)
        /\ Refuse(th, i) => Outcome(q, r, "done", FALSE)
        /\ Break(th, i) => Outcome(q, r, "done", FALSE)
    BY <1>1, Outcomes
  <1>3. ASSUME NEW at, Outcome(q, r, at, FALSE), SameStatus, at \in {"checked", "paid", "founded", "done"}
        PROVE  r.by = q.by /\ TurnIdle(q, r)
    BY <1>1, <1>3, IdleTurn DEF Outcome
  <1>4. CASE q.at \in {"new", "checked"}
    <2>1. SameStatus
      <3>1. status' = status \/ UpdateMoney(q.e, -q.x)
        BY <1>4 DEF InCreateGuild, tables
      <3>2. QED
        BY <1>1, <3>1, MoneySame DEF SameStatus
    <2>2. \E at \in {"checked", "paid", "done"} : Outcome(q, r, at, FALSE)
      BY <1>2, <1>4 DEF InCreateGuild
    <2>3. QED
      BY <1>3, <2>1, <2>2 DEF Turn
  <1>5. CASE q.at = "paid"
    <2>1. CASE ok /\ StatusIs(q.e, NoGuild, GUILD_POS_NONE)
      <3>1. UpdateStatusGuild(q.e, q.e, GUILD_POS_MASTER) /\ Outcome(q, r, "joined", FALSE)
        BY <1>1, <1>2, <1>5, <2>1 DEF InCreateGuild
      <3>2. Moved(q.e, q.e, GUILD_POS_MASTER)
        BY <1>1, <3>1, PutMoves, GposRange
      <3>3. QED
        BY <1>1, <2>1, <3>1, <3>2 DEF StatusIs, TurnFound, Turn, Outcome
    <2>2. CASE ~(ok /\ StatusIs(q.e, NoGuild, GUILD_POS_NONE))
      <3>1. status' = status /\ Outcome(q, r, "done", FALSE)
        BY <1>2, <1>5, <2>2 DEF InCreateGuild
      <3>2. QED
        BY <1>3, <3>1 DEF SameStatus, Turn
    <2>3. QED
      BY <2>1, <2>2
  <1>6. CASE q.at = "joined"
    <2>1. status' = status /\ (Outcome(q, r, "founded", FALSE) \/ Outcome(q, r, "done", FALSE))
      BY <1>2, <1>6 DEF InCreateGuild
    <2>2. QED
      BY <1>3, <2>1 DEF SameStatus, Turn
  <1>7. CASE q.at = "founded"
    <2>1. status' = status /\ (Outcome(q, r, "done", TRUE) \/ Outcome(q, r, "done", FALSE))
      BY <1>2, <1>7 DEF InCreateGuild
    <2>2. CASE Outcome(q, r, "done", FALSE)
      BY <1>3, <2>1, <2>2 DEF SameStatus, Turn
    <2>3. CASE Outcome(q, r, "done", TRUE)
      BY <1>1, <2>1, <2>3 DEF SameStatus, Turn, TurnTaken, Own, Outcome, Passed
    <2>4. QED
      BY <2>1, <2>2, <2>3
  <1>8. QED
    BY <1>4, <1>5, <1>6, <1>7 DEF InCreateGuild

LEMMA ApplyTurn ==
    ASSUME TInv, NEW th \in Thread, NEW i \in 1 .. Len(queue[th]), NEW ok \in BOOLEAN,
           queue[th][i].cmd = "apply", Ready(queue[th][i]), InGuildApply(th, i, ok)
    PROVE  queue'[th][i].by = queue[th][i].by /\ Turn(queue[th][i], queue'[th][i])
  <1> PICK q : q = queue[th][i]
    OBVIOUS
  <1> PICK r : r = queue'[th][i]
    OBVIOUS
  <1>1. /\ StatusOK /\ q.e \in User /\ q.g \in User /\ q.cmd = "apply" /\ q.good = FALSE
    BY DEF TInv, QueueOK, ReqOK, Ready
  <1>2. /\ \A at : Go(th, i, at) => Outcome(q, r, at, FALSE)
        /\ Succeed(th, i) => Outcome(q, r, "done", TRUE)
        /\ Refuse(th, i) => Outcome(q, r, "done", FALSE)
    BY <1>1, Outcomes
  <1>3. ASSUME NEW at, Outcome(q, r, at, FALSE), SameStatus, at \in {"found", "done"}
        PROVE  r.by = q.by /\ TurnIdle(q, r)
    BY <1>1, <1>3, IdleTurn DEF Outcome
  <1>4. CASE q.at = "new"
    <2>1. status' = status /\ (Outcome(q, r, "found", FALSE) \/ Outcome(q, r, "done", FALSE))
      BY <1>2, <1>4 DEF InGuildApply, tables
    <2>2. QED
      BY <1>3, <2>1 DEF SameStatus, Turn
  <1>5. CASE q.at = "found"
    <2>1. CASE ok /\ StatusIs(q.e, NoGuild, GUILD_POS_NONE)
      <3>1. UpdateStatusGuild(q.e, q.g, GUILD_POS_APPLY) /\ Outcome(q, r, "done", TRUE)
        BY <1>1, <1>2, <1>5, <2>1 DEF InGuildApply
      <3>2. Moved(q.e, q.g, GUILD_POS_APPLY)
        BY <1>1, <3>1, PutMoves, GposRange
      <3>3. TurnTaken(q, r) /\ r.by = q.by
        <4>1. NoGuild \notin User
          BY GuildAssumption DEF NoGuild
        <4>2. QED
          BY <1>1, <2>1, <3>1, <3>2, <4>1 DEF StatusIs, TurnTaken, Outcome, Own, Passed
      <3>4. QED
        BY <3>3 DEF Turn
    <2>2. CASE ~(ok /\ StatusIs(q.e, NoGuild, GUILD_POS_NONE))
      <3>1. status' = status /\ Outcome(q, r, "done", FALSE)
        BY <1>2, <1>5, <2>2 DEF InGuildApply
      <3>2. QED
        BY <1>3, <3>1 DEF SameStatus, Turn
    <2>3. QED
      BY <2>1, <2>2
  <1>6. QED
    BY <1>4, <1>5 DEF InGuildApply

\* A request that has told already what it will tell.
LEMMA ToldTurn ==
    ASSUME NEW q, NEW r, NEW at, NEW good, Outcome(q, r, at, good), SameStatus,
           \/ q.cmd \in {"gpos", "gquit"} /\ Changes(q)
           \/ q.cmd = "delete" /\ q.at = "kicked"
    PROVE  TurnIdle(q, r)
  BY DEF Outcome, TurnIdle, Changes, Ends, Passed, Own

LEMMA GposTurn ==
    ASSUME TInv, NEW th \in Thread, NEW i \in 1 .. Len(queue[th]), NEW ok \in BOOLEAN,
           queue[th][i].cmd = "gpos", Ready(queue[th][i]), InGuildPos(th, i, ok)
    PROVE  queue'[th][i].by = queue[th][i].by /\ Turn(queue[th][i], queue'[th][i])
  <1> PICK q : q = queue[th][i]
    OBVIOUS
  <1> PICK r : r = queue'[th][i]
    OBVIOUS
  <1>1. /\ StatusOK /\ q.e \in User /\ q.g \in User /\ q.x \in {GUILD_POS_SENIOR, GUILD_POS_MEMBER}
        /\ q.cmd = "gpos" /\ q.good = FALSE /\ q.x \in Gpos
    BY GposRange DEF TInv, QueueOK, ReqOK, Ready
  <1>2. /\ \A at : Go(th, i, at) => Outcome(q, r, at, FALSE)
        /\ Succeed(th, i) => Outcome(q, r, "done", TRUE)
        /\ Refuse(th, i) => Outcome(q, r, "done", FALSE)
        /\ Break(th, i) => Outcome(q, r, "done", FALSE)
    BY <1>1, Outcomes
  <1>3. ASSUME NEW at, Outcome(q, r, at, FALSE), SameStatus, at \in {"approve", "promote", "counted", "undo", "done"}
        PROVE  r.by = q.by /\ Turn(q, r)
    BY <1>1, <1>3, IdleTurn DEF Outcome, Turn
  <1>4. ASSUME NEW p, p # GUILD_POS_MASTER, StatusIs(q.e, q.g, p), UpdateStatusGuild(q.e, q.g, q.x),
               Outcome(q, r, "joined", FALSE) \/ Outcome(q, r, "done", TRUE)
        PROVE  r.by = q.by /\ Turn(q, r)
    <2>1. Moved(q.e, q.g, q.x)
      BY <1>1, <1>4, PutMoves
    <2>2. QED
      BY <1>1, <1>4, <2>1 DEF StatusIs, TurnJoin, Turn, Outcome
  <1>5. CASE q.at = "new"
    <2>1. status' = status /\ \E at \in {"approve", "promote", "done"} : Outcome(q, r, at, FALSE)
      BY <1>2, <1>5 DEF InGuildPos, tables
    <2>2. QED
      BY <1>3, <2>1 DEF SameStatus
  <1>6. CASE q.at = "promote"
    <2> DEFINE other == IF q.x = GUILD_POS_SENIOR THEN GUILD_POS_MEMBER ELSE GUILD_POS_SENIOR
    <2>a. other # GUILD_POS_MASTER
      BY DEF GUILD_POS_MASTER, GUILD_POS_MEMBER, GUILD_POS_SENIOR
    <2>1. CASE ok /\ StatusIs(q.e, q.g, other)
      <3>1. UpdateStatusGuild(q.e, q.g, q.x) /\ Outcome(q, r, "done", TRUE)
        BY <1>2, <1>6, <2>1 DEF InGuildPos
      <3>2. QED
        BY <1>4, <2>a, <2>1, <3>1
    <2>2. CASE ~(ok /\ StatusIs(q.e, q.g, other))
      <3>1. status' = status /\ Outcome(q, r, "done", FALSE)
        BY <1>2, <1>6, <2>2 DEF InGuildPos
      <3>2. QED
        BY <1>3, <3>1 DEF SameStatus
    <2>3. QED
      BY <2>1, <2>2
  <1>7. CASE q.at \in {"approve", "undo"}
    <2>1. status' = status /\ \E at \in {"counted", "done"} : Outcome(q, r, at, FALSE)
      BY <1>2, <1>7 DEF InGuildPos
    <2>2. QED
      BY <1>3, <2>1 DEF SameStatus
  <1>8. CASE q.at = "counted"
    <2>1. CASE ok /\ StatusIs(q.e, q.g, GUILD_POS_APPLY)
      <3>1. UpdateStatusGuild(q.e, q.g, q.x) /\ Outcome(q, r, "joined", FALSE)
        BY <1>2, <1>8, <2>1 DEF InGuildPos
      <3>2. GUILD_POS_APPLY # GUILD_POS_MASTER
        BY DEF GUILD_POS_APPLY, GUILD_POS_MASTER
      <3>3. QED
        BY <1>4, <2>1, <3>1, <3>2
    <2>2. CASE ~(ok /\ StatusIs(q.e, q.g, GUILD_POS_APPLY))
      <3>1. status' = status /\ Outcome(q, r, "undo", FALSE)
        BY <1>2, <1>8, <2>2 DEF InGuildPos
      <3>2. QED
        BY <1>3, <3>1 DEF SameStatus
    <2>3. QED
      BY <2>1, <2>2
  <1>9. CASE q.at = "joined"
    <2>1. status' = status /\ \E good : Outcome(q, r, "done", good)
      BY <1>2, <1>9 DEF InGuildPos
    <2>2. Changes(q)
      BY <1>1, <1>9 DEF Changes
    <2>3. TurnIdle(q, r) /\ r.by = q.by
      BY <1>1, <2>1, <2>2, ToldTurn DEF SameStatus, Outcome
    <2>4. QED
      BY <2>3 DEF Turn
  <1>10. QED
    BY <1>5, <1>6, <1>7, <1>8, <1>9 DEF InGuildPos

LEMMA OutcomeGot ==
    ASSUME NEW q, DOMAIN q = Fields, NEW a, NEW v
    PROVE  LET r == [q EXCEPT !.at = a, !.got = v] IN
           /\ r.at = a /\ r.good = q.good /\ r.by = q.by /\ r.got = v
           /\ r.cmd = q.cmd /\ r.e = q.e /\ r.g = q.g
  BY DEF Fields

LEMMA GquitTurn ==
    ASSUME TInv, NEW th \in Thread, NEW i \in 1 .. Len(queue[th]), NEW ok \in BOOLEAN,
           queue[th][i].cmd = "gquit", Ready(queue[th][i]), InGuildQuit(th, i, ok)
    PROVE  queue'[th][i].by = queue[th][i].by /\ Turn(queue[th][i], queue'[th][i])
  <1> PICK q : q = queue[th][i]
    OBVIOUS
  <1> PICK r : r = queue'[th][i]
    OBVIOUS
  <1>1. /\ StatusOK /\ q.e \in User /\ q.g \in User /\ q.cmd = "gquit" /\ q.good = FALSE /\ DOMAIN q = Fields
        /\ NoGuild \in User \cup {NoGuild} /\ GUILD_POS_NONE \in Gpos
    BY GposRange DEF TInv, QueueOK, ReqOK, Ready
  <1>2. /\ \A at : Go(th, i, at) => Outcome(q, r, at, FALSE)
        /\ Succeed(th, i) => Outcome(q, r, "done", TRUE)
        /\ Refuse(th, i) => Outcome(q, r, "done", FALSE)
        /\ Break(th, i) => Outcome(q, r, "done", FALSE)
    BY <1>1, Outcomes
  <1>3. CASE q.at = "new"
    <2>1. status' = status
      BY <1>3 DEF InGuildQuit, tables
    <2>2. CASE Set(th, i, [q EXCEPT !.at = "leave", !.got = <<status[q.e].gpos>>])
      <3>1. r = [q EXCEPT !.at = "leave", !.got = <<status[q.e].gpos>>]
        BY <2>2, SetIs
      <3>2. r.at = "leave" /\ r.good = FALSE /\ r.by = q.by /\ r.cmd = q.cmd /\ r.e = q.e /\ r.g = q.g
        BY <1>1, <3>1, OutcomeGot
      <3>3. TurnIdle(q, r)
        BY <1>1, <2>1, <3>2 DEF TurnIdle, SameStatus, Changes, Ends, Passed, Own
      <3>4. QED
        BY <3>2, <3>3 DEF Turn
    <2>3. CASE Refuse(th, i)
      BY <1>1, <1>2, <2>1, <2>3, IdleTurn DEF SameStatus, Turn, Outcome
    <2>4. QED
      BY <1>3, <2>2, <2>3 DEF InGuildQuit
  <1>4. CASE q.at = "leave"
    <2>1. CASE ok /\ StatusIs(q.e, q.g, q.got[1])
      <3>1. UpdateStatusGuild(q.e, NoGuild, GUILD_POS_NONE) /\ \E at, good : Outcome(q, r, at, good)
        BY <1>2, <1>4, <2>1 DEF InGuildQuit
      <3>2. Moved(q.e, NoGuild, GUILD_POS_NONE)
        BY <1>1, <3>1, PutMoves
      <3>3. q.got[1] # GUILD_POS_MASTER
        BY <1>1, <1>4 DEF TInv, QueueOK, ReqOK
      <3>4. QED
        BY <1>1, <2>1, <3>1, <3>2, <3>3 DEF TurnLeave, Turn, StatusIs, Outcome
    <2>2. CASE ~(ok /\ StatusIs(q.e, q.g, q.got[1]))
      <3>1. status' = status /\ Outcome(q, r, "done", FALSE)
        BY <1>2, <1>4, <2>2 DEF InGuildQuit
      <3>2. QED
        BY <1>1, <3>1, IdleTurn DEF SameStatus, Turn, Outcome
    <2>3. QED
      BY <2>1, <2>2
  <1>5. CASE q.at \in {"left", "unshared"}
    <2>1. status' = status /\ \E at, good : Outcome(q, r, at, good)
      BY <1>2, <1>5 DEF InGuildQuit
    <2>2. Changes(q)
      BY <1>1, <1>5 DEF Changes
    <2>3. TurnIdle(q, r) /\ r.by = q.by
      BY <1>1, <2>1, <2>2, ToldTurn DEF SameStatus, Outcome
    <2>4. QED
      BY <2>3 DEF Turn
  <1>6. QED
    BY <1>3, <1>4, <1>5 DEF InGuildQuit

LEMMA DeleteTurn ==
    ASSUME TInv, NEW th \in Thread, NEW i \in 1 .. Len(queue[th]), NEW ok \in BOOLEAN,
           queue[th][i].cmd = "delete", Ready(queue[th][i]), InDeleteGuild(th, i, ok)
    PROVE  queue'[th][i].by = queue[th][i].by /\ Turn(queue[th][i], queue'[th][i])
  <1> PICK q : q = queue[th][i]
    OBVIOUS
  <1> PICK r : r = queue'[th][i]
    OBVIOUS
  <1>1. StatusOK /\ q.cmd = "delete" /\ q.good = FALSE
    BY DEF TInv, Ready
  <1>2. /\ \A at : Go(th, i, at) => Outcome(q, r, at, FALSE)
        /\ Succeed(th, i) => Outcome(q, r, "done", TRUE)
        /\ Refuse(th, i) => Outcome(q, r, "done", FALSE)
        /\ Break(th, i) => Outcome(q, r, "done", FALSE)
    BY <1>1, Outcomes
  <1>3. CASE q.at = "new"
    <2>1. status' = status /\ \E at \in {"found", "done"} : Outcome(q, r, at, FALSE)
      BY <1>2, <1>3 DEF InDeleteGuild, tables
    <2>2. QED
      BY <1>1, <2>1, IdleTurn DEF SameStatus, Turn, Outcome
  <1>4. CASE q.at = "found"
    <2>1. CASE ok
      <3> DEFINE Out(e) == [status[e] EXCEPT !.gid = NoGuild, !.gpos = GUILD_POS_NONE]
      <3>1. /\ status' = [e \in User |-> IF status[e].gid # q.g THEN status[e] ELSE Out(e)]
            /\ Outcome(q, r, "kicked", FALSE)
        BY <1>2, <1>4, <2>1 DEF InDeleteGuild
      <3>2. \A e \in User : Out(e).gid = NoGuild /\ Out(e).gpos = GUILD_POS_NONE
        BY <1>1 DEF StatusOK
      <3> HIDE DEF Out
      <3>3. TurnClear(q, r)
        BY <1>1, <3>1, <3>2 DEF TurnClear
      <3>4. QED
        BY <3>1, <3>3 DEF Turn, Outcome
    <2>2. CASE ~ok
      <3>1. status' = status /\ Outcome(q, r, "done", FALSE)
        BY <1>2, <1>4, <2>2 DEF InDeleteGuild
      <3>2. QED
        BY <1>1, <3>1, IdleTurn DEF SameStatus, Turn, Outcome
    <2>3. QED
      BY <2>1, <2>2
  <1>5. CASE q.at = "kicked"
    <2>1. status' = status /\ \E good : Outcome(q, r, "done", good)
      BY <1>2, <1>5 DEF InDeleteGuild
    <2>2. TurnIdle(q, r) /\ r.by = q.by
      BY <1>1, <1>5, <2>1, ToldTurn DEF SameStatus, Outcome
    <2>3. QED
      BY <2>2 DEF Turn
  <1>6. QED
    BY <1>3, <1>4, <1>5 DEF InDeleteGuild

LEMMA BooksTurn ==
    ASSUME TInv, NEW th \in Thread, NEW i \in 1 .. Len(queue[th]), NEW ok \in BOOLEAN,
           queue[th][i].cmd \in {"deposit", "bonus", "glv", "glevelup"}, Work(th, i, ok)
    PROVE  queue'[th][i].by = queue[th][i].by /\ Turn(queue[th][i], queue'[th][i])
  <1> PICK q : q = queue[th][i]
    OBVIOUS
  <1> PICK r : r = queue'[th][i]
    OBVIOUS
  <1>1. DOMAIN q = Fields
    BY DEF TInv, QueueOK, ReqOK
  <1>2. SameStatus
    BY DepositEffect, BonusEffect, GlvEffect, GlevelupEffect DEF Work, MembersSame, SameStatus
  <1>3. (\E at : Go(th, i, at)) \/ Succeed(th, i) \/ Refuse(th, i) \/ Break(th, i) => r.by = q.by /\ r.cmd = q.cmd
    BY Outcomes DEF Outcome
  <1>4. r.by = q.by /\ r.cmd = q.cmd
    <2>1. CASE q.cmd = "deposit"
      BY <1>3, <2>1 DEF Work, InGuildDeposit
    <2>2. CASE q.cmd = "bonus"
      <3>1. ASSUME NEW b, Set(th, i, [q EXCEPT !.at = "due", !.x = b]) PROVE r.by = q.by /\ r.cmd = q.cmd
        <4>1. PICK u : u = [q EXCEPT !.at = "due", !.x = b]
          OBVIOUS
        <4>2. r = u
          BY <3>1, <4>1, SetIs
        <4>3. QED
          BY <1>1, <4>1, <4>2 DEF Fields
      <3>2. (\E b : Set(th, i, [q EXCEPT !.at = "due", !.x = b])) \/ (\E at : Go(th, i, at))
            \/ Succeed(th, i) \/ Refuse(th, i) \/ Break(th, i)
        BY <2>2 DEF Work, InGuildBonus
      <3>3. QED
        BY <1>3, <3>1, <3>2
    <2>3. CASE q.cmd = "glv"
      <3>1. ASSUME NEW v, Set(th, i, [q EXCEPT !.at = "done", !.good = TRUE, !.got = v])
            PROVE  r.by = q.by /\ r.cmd = q.cmd
        <4>1. PICK u : u = [q EXCEPT !.at = "done", !.good = TRUE, !.got = v]
          OBVIOUS
        <4>2. r = u
          BY <3>1, <4>1, SetIs
        <4>3. QED
          BY <1>1, <4>1, <4>2 DEF Fields
      <3>2. (\E v : Set(th, i, [q EXCEPT !.at = "done", !.good = TRUE, !.got = v])) \/ Refuse(th, i)
        BY <2>3 DEF Work, InGlv
      <3>3. QED
        BY <1>3, <3>1, <3>2
    <2>4. CASE q.cmd = "glevelup"
      BY <1>3, <2>4 DEF Work, InGlevelup
    <2>5. QED
      BY <2>1, <2>2, <2>3, <2>4
  <1>5. TurnIdle(q, r)
    BY <1>2, <1>4 DEF TurnIdle, Changes, Ends, Own
  <1>6. QED
    BY <1>4, <1>5 DEF Turn

LEMMA LoginTurn ==
    ASSUME TInv, NEW th \in Thread, NEW i \in 1 .. Len(queue[th]),
           queue[th][i].cmd = "login", InLogin(th, i)
    PROVE  queue'[th][i].by = queue[th][i].by /\ Turn(queue[th][i], queue'[th][i])
  <1> PICK q : q = queue[th][i]
    OBVIOUS
  <1> PICK r : r = queue'[th][i]
    OBVIOUS
  <1>1. DOMAIN q = Fields /\ q.cmd = "login"
    BY DEF TInv, QueueOK, ReqOK
  <1>2. SameStatus
    BY LoginEffect DEF MembersSame, SameStatus
  <1> DEFINE v == <<status[q.e].gid, status[q.e].gpos, status[q.e].gold,
                       IF Exists(status[q.e].gid) THEN guild[status[q.e].gid].glevel ELSE 0>>
  <1>3. v[1] = status[q.e].gid /\ v[2] = status[q.e].gpos
    OBVIOUS
  <1>4. Set(th, i, [q EXCEPT !.at = "done", !.good = TRUE, !.got = v])
    BY DEF InLogin
  <1> HIDE DEF v
  <1>5. r.by = q.by /\ r.got = v
    <2>1. PICK u : u = [q EXCEPT !.at = "done", !.good = TRUE, !.got = v]
      OBVIOUS
    <2>2. r = u
      BY <1>4, <2>1, SetIs
    <2>3. QED
      BY <1>1, <2>1, <2>2 DEF Fields
  <1>6. TurnRead(q, r)
    BY <1>1, <1>2, <1>3, <1>5 DEF TurnRead
  <1>7. QED
    BY <1>5, <1>6 DEF Turn

\* Whatever a worker does, it is one of these.
LEMMA WorkTurn ==
    ASSUME TInv, NEW th \in Thread, NEW i \in 1 .. Len(queue[th]), NEW ok \in BOOLEAN,
           Ready(queue[th][i]), Work(th, i, ok)
    PROVE  queue'[th][i].by = queue[th][i].by /\ Turn(queue[th][i], queue'[th][i])
  <1>1. CASE queue[th][i].cmd \in {"create", "apply", "gpos", "gquit", "delete"}
    BY <1>1, CreateTurn, ApplyTurn, GposTurn, GquitTurn, DeleteTurn DEF Work
  <1>2. CASE queue[th][i].cmd = "login"
    BY <1>2, LoginTurn DEF Work
  <1>3. CASE queue[th][i].cmd \in {"deposit", "bonus", "glv", "glevelup"}
    BY <1>3, BooksTurn
  <1>4. QED
    BY <1>1, <1>2, <1>3 DEF Work

LEMMA GoodWhenDone ==
    ASSUME TInv, NEW th \in Thread, NEW i \in 1 .. Len(queue[th]), NEW ok \in BOOLEAN,
           Ready(queue[th][i]), Work(th, i, ok)
    PROVE  /\ queue'[th][i].good \in BOOLEAN /\ (queue'[th][i].good => queue'[th][i].at = "done")
           /\ queue'[th][i].at # "new"
  <1> PICK q : q = queue[th][i]
    OBVIOUS
  <1> PICK r : r = queue'[th][i]
    OBVIOUS
  <1>1. DOMAIN q = Fields /\ q.good = FALSE
    BY DEF TInv, QueueOK, ReqOK, Ready
  <1>a. ASSUME NEW at, at # "new", Go(th, i, at) PROVE r.good = FALSE /\ r.at # "new"
    <2>1. Outcome(q, r, at, q.good)
      BY <1>a, Outcomes
    <2>2. QED
      BY <1>1, <1>a, <2>1 DEF Outcome
  <1>b. /\ Succeed(th, i) => r.good = TRUE /\ r.at = "done"
        /\ Refuse(th, i) \/ Break(th, i) => r.good = FALSE /\ r.at = "done"
    BY <1>1, Outcomes DEF Outcome
  <1>2. (\E at : at # "new" /\ Go(th, i, at)) \/ Succeed(th, i) \/ Refuse(th, i) \/ Break(th, i)
        => r.good \in BOOLEAN /\ (r.good => r.at = "done") /\ r.at # "new"
    BY <1>a, <1>b
  <1>3. ASSUME NEW v, Set(th, i, [q EXCEPT !.at = "done", !.good = TRUE, !.got = v])
        PROVE  r.good \in BOOLEAN /\ (r.good => r.at = "done") /\ r.at # "new"
    <2>1. PICK u : u = [q EXCEPT !.at = "done", !.good = TRUE, !.got = v]
      OBVIOUS
    <2>2. r = u
      BY <1>3, <2>1, SetIs
    <2>3. QED
      BY <1>1, <2>1, <2>2 DEF Fields
  <1>4. ASSUME NEW v, Set(th, i, [q EXCEPT !.at = "due", !.x = v])
        PROVE  r.good \in BOOLEAN /\ (r.good => r.at = "done") /\ r.at # "new"
    <2>1. PICK u : u = [q EXCEPT !.at = "due", !.x = v]
      OBVIOUS
    <2>2. r = u
      BY <1>4, <2>1, SetIs
    <2>3. QED
      BY <1>1, <2>1, <2>2 DEF Fields
  <1>5. ASSUME NEW v, Set(th, i, [q EXCEPT !.at = "leave", !.got = v])
        PROVE  r.good \in BOOLEAN /\ (r.good => r.at = "done") /\ r.at # "new"
    <2>1. PICK u : u = [q EXCEPT !.at = "leave", !.got = v]
      OBVIOUS
    <2>2. r = u
      BY <1>5, <2>1, SetIs
    <2>3. QED
      BY <1>1, <2>1, <2>2 DEF Fields
  <1>6. CASE q.cmd = "create"
    BY <1>2, <1>6 DEF Work, InCreateGuild
  <1>7. CASE q.cmd = "gpos"
    BY <1>2, <1>7 DEF Work, InGuildPos
  <1>8. CASE q.cmd = "gquit"
    BY <1>2, <1>5, <1>8 DEF Work, InGuildQuit
  <1>9. CASE q.cmd = "delete" \/ q.cmd = "apply"
    BY <1>2, <1>9 DEF Work, InDeleteGuild, InGuildApply
  <1>10. CASE q.cmd = "deposit"
    BY <1>2, <1>10 DEF Work, InGuildDeposit
  <1>11. CASE q.cmd = "bonus"
    BY <1>2, <1>4, <1>11 DEF Work, InGuildBonus
  <1>12. CASE q.cmd \in {"glv", "glevelup"}
    BY <1>2, <1>3, <1>12 DEF Work, InGlv, InGlevelup
  <1>13. CASE q.cmd = "login"
    BY <1>3, <1>13 DEF Work, InLogin
  <1>14. QED
    BY <1>6, <1>7, <1>8, <1>9, <1>10, <1>11, <1>12, <1>13 DEF Work

\* The worker is at its i-th request and leaves it as r.
Advance(i, r) ==
    /\ Len(Q) \in Nat /\ i \in Places /\ Places' = Places
    /\ \A j \in Places : Q'[j] = IF j = i THEN r ELSE Q[j]
    /\ Q[i].at # "done"
    /\ \A j \in Places : (j < i => Q[j].at = "done") /\ (i < j => Q[j].at = "new")
    /\ r.cmd = Q[i].cmd /\ r.e = Q[i].e /\ r.g = Q[i].g /\ r.by = Q[i].by
    /\ r.good \in BOOLEAN /\ (r.good => r.at = "done")
    /\ Q[i].e \in User /\ Q[i].g \in User \cup {NoGuild}

\* Behind the request a worker is at nothing is told yet.
LEMMA NewTellsNothing ==
    ASSUME NEW q, q.at = "new"
    PROVE  ~Changes(q) /\ ~Passed(q) /\ \A e, b : ~Ends(q, e, b)
  BY DEF Changes, Passed, Ends

LEMMA ChainTurn ==
    ASSUME NEW i, NEW r, Advance(i, r), Turn(Q[i], r), StatusOK, NoGuild \notin User,
           Q[i].cmd = "gpos" => Q[i].x \in {GUILD_POS_SENIOR, GUILD_POS_MEMBER} /\ Q[i].g \in User,
           Q[i].cmd \in {"gquit", "delete"} => Q[i].g \in User,
           NEW e \in User, NEW p \in 0 .. Len(Q), p < i, NEW b \in User \cup {NoGuild}, Chain(e, p, b),
           TurnFound(Q[i], r) /\ Q[i].e = e => b = NoGuild,
           TurnTaken(Q[i], r) => Q[i].e # e
    PROVE  Chain(e, p, b)'
  <1> PICK q : q = Q[i]
    OBVIOUS
  <1>1. /\ \A j \in Places : j > p /\ Q[j].e = e /\ Changes(Q[j]) => Q[j].g = b /\ b # NoGuild
        /\ status[e].gid \in {NoGuild, b} \/ (b = NoGuild /\ status[e].gpos = GUILD_POS_MASTER)
        /\ \A j \in Places : j > p /\ Ends(Q[j], e, b) /\ b # NoGuild =>
             status[e].gid = NoGuild /\ \A k \in Places : k > j => ~(Q[k].e = e /\ Changes(Q[k]))
    BY DEF Chain
  <1>2. /\ Places' = Places /\ i \in Places /\ Len(Q) \in Nat
        /\ \A j \in Places : Q'[j] = IF j = i THEN r ELSE Q[j]
        /\ \A j \in Places : i < j => ~Changes(Q[j])
        /\ r.cmd = q.cmd /\ r.e = q.e /\ r.g = q.g
    BY NewTellsNothing DEF Advance
  <1>3. ASSUME \* what status and r must do for the chain to hold
               /\ Changes(r) /\ q.e = e => q.g = b /\ b # NoGuild
               /\ status'[e].gid \in {NoGuild, b} \/ (b = NoGuild /\ status'[e].gpos = GUILD_POS_MASTER),
               b # NoGuild /\ status[e].gid = NoGuild => status'[e].gid = NoGuild,
               Changes(r) /\ ~Changes(q) /\ q.e = e /\ b # NoGuild => status[e].gid # NoGuild,
               b # NoGuild /\ Ends(r, e, b) => Ends(q, e, b) \/ status'[e].gid = NoGuild
        PROVE  Chain(e, p, b)'
    <2>1. ASSUME NEW j \in Places, j > p, Q'[j].e = e, Changes(Q'[j]) PROVE Q'[j].g = b /\ b # NoGuild
      BY <1>1, <1>2, <1>3, <2>1
    <2>2. ASSUME NEW j \in Places, j > p, Ends(Q'[j], e, b), b # NoGuild
          PROVE  status'[e].gid = NoGuild /\ \A k \in Places : k > j => ~(Q'[k].e = e /\ Changes(Q'[k]))
      <3>1. CASE Ends(Q[j], e, b)
        <4>1. status[e].gid = NoGuild /\ \A k \in Places : k > j => ~(Q[k].e = e /\ Changes(Q[k]))
          BY <1>1, <2>2, <3>1
        <4>2. ASSUME NEW k \in Places, k > j, Q'[k].e = e, Changes(Q'[k]) PROVE FALSE
          BY <1>2, <1>3, <2>2, <4>1, <4>2
        <4>3. QED
          BY <1>3, <2>2, <4>1, <4>2
      <3>2. CASE ~Ends(Q[j], e, b)
        <4>1. j = i
          BY <1>2, <2>2, <3>2
        <4>2. \A k \in Places : k > j => Q'[k] = Q[k] /\ ~Changes(Q[k])
          BY <1>2, <4>1 DEF Places
        <4>3. Q'[j] = r /\ Q[j] = q
          BY <1>2, <4>1
        <4>4. status'[e].gid = NoGuild
          BY <1>3, <2>2, <3>2, <4>3
        <4>5. QED
          BY <4>2, <4>4
      <3>3. QED
        BY <3>1, <3>2
    <2>3. QED
      BY <1>2, <1>3, <2>1, <2>2 DEF Chain
  <1>4. CASE TurnIdle(q, r)
    BY <1>1, <1>2, <1>3, <1>4 DEF TurnIdle, SameStatus, Advance
  <1>5. CASE TurnJoin(q, r)
    <2>1. q.g \in User /\ ~Ends(r, e, b) /\ q.e \in User
      BY <1>2, <1>5 DEF TurnJoin, Ends, Advance
    <2>2. CASE q.e = e
      <3>1. status[e].gid = q.g /\ q.g = b /\ b # NoGuild /\ status'[e].gid = q.g
        BY <1>1, <1>5, <2>1, <2>2 DEF TurnJoin, Moved
      <3>2. QED
        BY <1>3, <2>1, <2>2, <3>1
    <2>3. CASE q.e # e
      BY <1>1, <1>3, <1>5, <2>1, <2>3 DEF TurnJoin, Moved
    <2>4. QED
      BY <2>2, <2>3
  <1>6. CASE TurnLeave(q, r)
    <2>1. q.g \in User /\ q.e \in User
      BY <1>2, <1>6 DEF TurnLeave, Advance
    <2>2. CASE q.e = e
      <3>1. status[e].gid = q.g /\ q.g = b /\ b # NoGuild /\ status'[e].gid = NoGuild
        BY <1>1, <1>6, <2>1, <2>2 DEF TurnLeave, Moved
      <3>2. QED
        BY <1>3, <2>1, <2>2, <3>1
    <2>3. CASE q.e # e
      <3>1. ~Ends(r, e, b)
        BY <1>2, <1>6, <2>3 DEF TurnLeave, Ends
      <3>2. QED
        BY <1>1, <1>3, <1>6, <2>1, <2>3, <3>1 DEF TurnLeave, Moved
    <2>4. QED
      BY <2>2, <2>3
  <1>7. CASE TurnClear(q, r)
    <2>1. q.g \in User /\ ~Changes(r) /\ (Ends(r, e, b) => q.g = b)
      BY <1>2, <1>7 DEF TurnClear, Changes, Ends
    <2>2. CASE status[e].gid = q.g
      BY <1>1, <1>3, <1>7, <2>1, <2>2 DEF TurnClear
    <2>3. CASE status[e].gid # q.g
      BY <1>1, <1>3, <1>7, <2>1, <2>3 DEF TurnClear
    <2>4. QED
      BY <2>2, <2>3
  <1>8. CASE TurnFound(q, r)
    <2>1. ~Changes(r) /\ ~Ends(r, e, b) /\ q.e \in User
      BY <1>2, <1>8 DEF TurnFound, Changes, Ends, Advance
    <2>2. QED
      BY <1>1, <1>3, <1>8, <2>1 DEF TurnFound, Moved
  <1>9. CASE TurnTaken(q, r)
    <2>1. ~Changes(r) /\ ~Ends(r, e, b) /\ q.e \in User
      BY <1>2, <1>9 DEF TurnTaken, Changes, Ends, Advance, Own
    <2>2. status'[e].gid = status[e].gid /\ status'[e].gpos = status[e].gpos
      BY <1>9, <2>1 DEF TurnTaken, Moved, SameStatus
    <2>3. QED
      BY <1>1, <1>3, <2>1, <2>2
  <1>10. CASE TurnRead(q, r)
    <2>1. ~Changes(r) /\ ~Ends(r, e, b)
      BY <1>2, <1>10 DEF TurnRead, Changes, Ends
    <2>2. QED
      BY <1>1, <1>3, <1>10, <2>1 DEF TurnRead, SameStatus
  <1>11. QED
    BY <1>4, <1>5, <1>6, <1>7, <1>8, <1>9, <1>10 DEF Turn

\* Neither sentinel is a user.
LEMMA Nobody == NoGuild \notin User /\ NoOne \notin User
  BY GuildAssumption DEF NoGuild, NoOne

\* The turn leaves every anchor where it was, and may set one for its user.
LEMMA AnchorTurn ==
    ASSUME NEW i, NEW r, Advance(i, r), Turn(Q[i], r), AskedOK, LoginsOK, UNCHANGED conn,
           NEW e \in User, NEW p \in 0 .. Len(Q), NEW b, Anchor(e, p, b)'
    PROVE  \/ p < i /\ Anchor(e, p, b) /\ ~(Own(Q[i]) /\ Q[i].e = e /\ Passed(r) /\ conn[e].up)
           \/ p = i /\ conn[e].up /\ Own(r) /\ r.e = e /\ Passed(r) /\ b = r.g
           \/ p = i /\ r.cmd = "login" /\ r.e = e /\ r.at = "done" /\ b = r.got[1]
  <1>1. /\ Places' = Places /\ i \in Places /\ Len(Q) \in Nat
        /\ \A j \in Places : Q'[j] = IF j = i THEN r ELSE Q[j]
        /\ r.cmd = Q[i].cmd /\ r.e = Q[i].e /\ r.g = Q[i].g
        /\ \A j \in Places : i < j => Q[j].at = "new"
        /\ Q[i].at # "done" /\ Q'[i] = r
    BY DEF Advance
  <1>2. CASE p = 0 /\ conn[e].up /\ b = conn[e].gid /\ \A j \in Places : ~Taken(e, j)'
    <2>1. ASSUME NEW j \in Places PROVE ~Taken(e, j)
      <3>1. CASE j = i
        BY <1>1, <3>1 DEF Taken, Passed
      <3>2. CASE j # i
        <4>1. Q'[j] = Q[j] /\ ~Taken(e, j)'
          BY <1>1, <1>2, <3>2
        <4>2. QED
          BY <4>1 DEF Taken
      <3>3. QED
        BY <3>1, <3>2
    <2>2. ~Taken(e, i)'
      BY <1>1, <1>2
    <2>3. ~(Own(r) /\ r.e = e /\ Passed(r))
      BY <1>1, <2>2 DEF Taken
    <2>4. p < i
      BY <1>1, <1>2 DEF Places
    <2>5. QED
      BY <1>1, <1>2, <2>1, <2>3, <2>4 DEF Anchor, Own
  <1>3. CASE p \in Places /\ conn[e].up /\ Taken(e, p)' /\ b = Q'[p].g
    <2>1. CASE p = i
      BY <1>1, <1>3, <2>1 DEF Taken
    <2>2. CASE p # i
      <3>1. Q'[p] = Q[p] /\ Taken(e, p)
        BY <1>1, <1>3, <2>2 DEF Taken
      <3>2. p < i
        BY <1>1, <1>3, <2>2, <3>1 DEF Taken, Passed, Places
      <3>3. ~(Own(Q[i]) /\ Q[i].e = e)
        <4>1. Own(Q[i]) /\ Q[i].e = e => Q[i].by = e
          BY <1>1, <1>3 DEF AskedOK
        <4>2. Q[p].by = e
          BY <1>3, <3>1 DEF AskedOK, Taken
        <4>3. e # NoOne
          BY Nobody
        <4>4. QED
          BY <1>1, <1>3, <2>2, <4>1, <4>2, <4>3 DEF AskedOK
      <3>4. QED
        BY <1>3, <3>1, <3>2, <3>3 DEF Anchor
    <2>3. QED
      BY <2>1, <2>2
  <1>4. CASE p \in Places /\ ReadIn(e, p)' /\ b = Q'[p].got[1]
    <2>1. CASE p = i
      BY <1>1, <1>4, <2>1 DEF ReadIn
    <2>2. CASE p # i
      <3>1. Q'[p] = Q[p] /\ ReadIn(e, p)
        BY <1>1, <1>4, <2>2 DEF ReadIn
      <3>2. p < i
        BY <1>1, <1>4, <2>2, <3>1 DEF ReadIn, Places
      <3>3. ~conn[e].up
        BY <1>4, <3>1 DEF ReadIn, LoginsOK
      <3>4. QED
        BY <1>4, <3>1, <3>2, <3>3 DEF Anchor
    <2>3. QED
      BY <2>1, <2>2
  <1>5. QED
    BY <1>1, <1>2, <1>3, <1>4 DEF Anchor

\* Who asks for a guild has none, and nothing else is known of it.
LEMMA OwnAnchor ==
    ASSUME NEW i, NEW r, Advance(i, r), Own(Q[i]), AskedOK, LoginsOK,
           NEW p \in 0 .. Len(Q), p < i, NEW b, Anchor(Q[i].e, p, b)
    PROVE  p = 0 /\ b = NoGuild /\ conn[Q[i].e].up
  <1> PICK e : e = Q[i].e
    OBVIOUS
  <1>1. e \in User /\ i \in Places /\ Len(Q) \in Nat /\ e # NoOne
    BY Nobody DEF Advance
  <1>2. CASE p = 0 /\ conn[e].up /\ b = conn[e].gid
    BY <1>1, <1>2 DEF AskedOK
  <1>3. CASE p \in Places /\ conn[e].up /\ Taken(e, p)
    <2>1. Q[i].by = e /\ Q[p].by = e
      BY <1>1, <1>3 DEF AskedOK, Taken
    <2>2. p = i
      BY <1>1, <1>3, <2>1 DEF AskedOK
    <2>3. QED
      BY <1>1, <2>2 DEF Places
  <1>4. CASE p \in Places /\ ReadIn(e, p)
    <2>1. i < p
      BY <1>1, <1>4 DEF ReadIn, LoginsOK
    <2>2. QED
      BY <1>1, <1>4, <2>1 DEF Places
  <1>5. QED
    BY <1>2, <1>3, <1>4 DEF Anchor

LEMMA ChainTurns ==
    ASSUME NEW i, NEW r, Advance(i, r), Turn(Q[i], r), StatusOK, UNCHANGED conn,
           Q[i].cmd = "gpos" => Q[i].x \in {GUILD_POS_SENIOR, GUILD_POS_MEMBER} /\ Q[i].g \in User,
           Q[i].cmd \in {"gquit", "delete"} => Q[i].g \in User,
           Q[i].cmd = "create" => Q[i].g = Q[i].e,
           PosOK, ChainOK, AskedOK, LoginsOK
    PROVE  ChainOK'
  <1> PICK q : q = Q[i]
    OBVIOUS
  <1> SUFFICES ASSUME NEW e \in User, NEW p \in (0 .. Len(Q))', NEW b \in User \cup {NoGuild}, Anchor(e, p, b)'
               PROVE  Chain(e, p, b)'
    BY DEF ChainOK
  <1>1. /\ Len(Q') = Len(Q) /\ p \in 0 .. Len(Q) /\ Len(Q) \in Nat /\ i \in Places
        /\ Places' = Places /\ Q'[i] = r
        /\ \A j \in Places : j > i => Q'[j].at = "new"
        /\ r.cmd = q.cmd /\ r.e = q.e /\ r.g = q.g
    BY DEF Advance, Places
  <1>2. CASE p < i /\ Anchor(e, p, b) /\ ~(Own(q) /\ q.e = e /\ Passed(r) /\ conn[e].up)
    <2>1. Chain(e, p, b)
      BY <1>1, <1>2 DEF ChainOK
    <2>2. TurnFound(q, r) /\ q.e = e => b = NoGuild
      BY <1>1, <1>2, OwnAnchor DEF TurnFound, Own
    <2>3. TurnTaken(q, r) => q.e # e
      BY <1>1, <1>2, OwnAnchor DEF TurnTaken
    <2>4. QED
      BY <1>1, <1>2, <2>1, <2>2, <2>3, ChainTurn, Nobody
  <1>3. ASSUME p = i, status'[e].gid \in {NoGuild, b} PROVE Chain(e, p, b)'
    <2>1. \A j \in Places : j > p => ~Changes(Q'[j]) /\ ~Ends(Q'[j], e, b)
      BY <1>1, <1>3, NewTellsNothing
    <2>2. QED
      BY <1>1, <1>3, <2>1 DEF Chain
  <1>4. CASE p = i /\ conn[e].up /\ Own(r) /\ r.e = e /\ Passed(r) /\ b = r.g
    <2>1. TurnTaken(q, r)
      BY <1>1, <1>4 DEF Turn, TurnIdle, TurnJoin, TurnLeave, TurnClear, TurnFound, TurnRead, Own, Passed
    <2>2. CASE q.cmd = "apply"
      BY <1>1, <1>3, <1>4, <2>1, <2>2 DEF TurnTaken, Moved
    <2>3. CASE q.cmd = "create"
      <3>1. \A j \in Places : ~Taken(e, j)
        <4>1. ASSUME NEW j \in Places, Taken(e, j) PROVE FALSE
          <5>1. Q[i].by = e /\ Q[j].by = e /\ e # NoOne
            BY <1>1, <1>4, <4>1, Nobody DEF AskedOK, Taken, Own
          <5>2. j = i
            BY <1>1, <4>1, <5>1 DEF AskedOK
          <5>3. QED
            BY <1>1, <4>1, <5>2 DEF Taken, Passed, Advance
        <4>2. QED
          BY <4>1
      <3>2. conn[e].gid = NoGuild
        BY <1>1, <1>4 DEF AskedOK, Own
      <3>3. Anchor(e, 0, NoGuild)
        BY <1>4, <3>1, <3>2 DEF Anchor
      <3>4. Chain(e, 0, NoGuild)
        BY <1>1, <3>3 DEF ChainOK
      <3>5. status[e].gid = NoGuild \/ status[e].gpos = GUILD_POS_MASTER
        BY <3>4 DEF Chain
      <3>6. status[e].gid \in {NoGuild, e}
        BY <3>5 DEF PosOK
      <3>7. status'[e].gid = status[e].gid /\ b = e
        BY <1>1, <1>4, <2>1, <2>3 DEF TurnTaken, SameStatus
      <3>8. QED
        BY <1>3, <1>4, <3>6, <3>7
    <2>4. QED
      BY <1>1, <1>4, <2>2, <2>3 DEF Own
  <1>5. CASE p = i /\ r.cmd = "login" /\ r.e = e /\ r.at = "done" /\ b = r.got[1]
    <2>1. TurnRead(q, r)
      BY <1>1, <1>5 DEF Turn, TurnIdle, TurnJoin, TurnLeave, TurnClear, TurnFound, TurnTaken, Own
    <2>2. QED
      BY <1>1, <1>3, <1>5, <2>1 DEF TurnRead, SameStatus
  <1>6. QED
    BY <1>1, <1>2, <1>4, <1>5, AnchorTurn

LEMMA BeforeTurn ==
    ASSUME NEW i, NEW r, Advance(i, r), UNCHANGED conn, BeforeOK, ChainOK, AskedOK, LoginsOK
    PROVE  BeforeOK'
  <1> PICK q : q = Q[i]
    OBVIOUS
  <1>1. /\ i \in Places /\ Places' = Places /\ Len(Q) \in Nat /\ q.at # "done"
        /\ \A j \in Places : Q'[j] = IF j = i THEN r ELSE Q[j]
        /\ \A j \in Places : j > i => Q[j].at = "new"
        /\ r.cmd = q.cmd /\ r.e = q.e
    BY DEF Advance
  <1> SUFFICES ASSUME NEW e \in User, NEW k \in Places, conn[e].up, Taken(e, k)',
                      NEW j \in Places, j < k
               PROVE  ~(Q'[j].e = e /\ Changes(Q'[j]))
    BY <1>1 DEF BeforeOK
  <1>2. CASE k = i
    <2>1. Own(q) /\ q.e = e
      BY <1>1, <1>2 DEF Taken, Own
    <2>2. \A m \in Places : ~Taken(e, m)
      <3>1. ASSUME NEW m \in Places, Taken(e, m) PROVE FALSE
        <4>1. q.by = e /\ Q[m].by = e /\ e # NoOne
          BY <1>1, <2>1, <3>1, Nobody DEF AskedOK, Taken
        <4>2. m = i
          BY <1>1, <3>1, <4>1 DEF AskedOK
        <4>3. QED
          BY <1>1, <3>1, <4>2 DEF Taken, Passed
      <3>2. QED
        BY <3>1
    <2>3. conn[e].gid = NoGuild
      BY <1>1, <2>1 DEF AskedOK
    <2>4. Anchor(e, 0, NoGuild)
      BY <2>2, <2>3 DEF Anchor
    <2>5. Chain(e, 0, NoGuild)
      BY <1>1, <2>4 DEF ChainOK
    <2>6. ~(Q[j].e = e /\ Changes(Q[j]))
      BY <2>5 DEF Chain, Places
    <2>7. Q'[j] = Q[j]
      BY <1>1, <1>2 DEF Places
    <2>8. QED
      BY <2>6, <2>7
  <1>3. CASE k # i
    <2>1. Q'[k] = Q[k] /\ Taken(e, k) /\ k < i
      BY <1>1, <1>3 DEF Taken, Passed, Places
    <2>2. Q'[j] = Q[j]
      BY <1>1, <2>1 DEF Places
    <2>3. QED
      BY <2>1, <2>2 DEF BeforeOK
  <1>4. QED
    BY <1>2, <1>3

LEMMA AskedTurn ==
    ASSUME NEW i, NEW r, Advance(i, r), UNCHANGED conn, AskedOK
    PROVE  AskedOK'
  <1>1. /\ i \in Places /\ Places' = Places
        /\ \A j \in Places : Q'[j] = IF j = i THEN r ELSE Q[j]
        /\ r.cmd = Q[i].cmd /\ r.e = Q[i].e /\ r.g = Q[i].g /\ r.by = Q[i].by
        /\ r.good \in BOOLEAN /\ (r.good => r.at = "done")
    BY DEF Advance
  <1>2. ASSUME NEW j \in Places
        PROVE  /\ Q'[j].cmd = Q[j].cmd /\ Q'[j].e = Q[j].e /\ Q'[j].g = Q[j].g /\ Q'[j].by = Q[j].by
               /\ Own(Q'[j]) <=> Own(Q[j])
               /\ Q'[j].good \in BOOLEAN /\ (Q'[j].good => Q'[j].at = "done")
    BY <1>1 DEF AskedOK, Own
  <1>3. QED
    BY <1>1, <1>2 DEF AskedOK

LEMMA LoginsTurn ==
    ASSUME NEW i, NEW r, Advance(i, r), Turn(Q[i], r), UNCHANGED conn, StatusOK, PosOK, LoginsOK
    PROVE  LoginsOK'
  <1>1. /\ i \in Places /\ Places' = Places /\ Q[i].e \in User
        /\ \A j \in Places : Q'[j] = IF j = i THEN r ELSE Q[j]
        /\ r.cmd = Q[i].cmd /\ r.e = Q[i].e /\ r.by = Q[i].by
    BY DEF Advance
  <1>2. ASSUME NEW j \in Places
        PROVE  /\ Q'[j].cmd = Q[j].cmd /\ Q'[j].e = Q[j].e /\ Q'[j].by = Q[j].by
               /\ Own(Q'[j]) <=> Own(Q[j])
    BY <1>1 DEF Own
  <1>3. r.cmd = "login" /\ r.at = "done" =>
           r.got[2] \in Gpos /\ (r.got[1] = NoGuild <=> r.got[2] = GUILD_POS_NONE)
    <2>1. ASSUME r.cmd = "login", r.at = "done" PROVE TurnRead(Q[i], r)
      BY <1>1, <2>1 DEF Turn, TurnIdle, TurnJoin, TurnLeave, TurnClear, TurnFound, TurnTaken, Own
    <2>2. QED
      BY <1>1, <2>1 DEF TurnRead, PosOK, StatusOK
  <1>4. ASSUME NEW j \in Places, Q'[j].cmd = "login", Q'[j].at = "done"
        PROVE  Q'[j].got[2] \in Gpos /\ (Q'[j].got[1] = NoGuild <=> Q'[j].got[2] = GUILD_POS_NONE)
    BY <1>1, <1>3, <1>4 DEF LoginsOK
  <1>5. QED
    BY <1>1, <1>2, <1>4 DEF LoginsOK

LEMMA PosTurn ==
    ASSUME NEW q, NEW r, Turn(q, r), PosOK, q.e \in User,
           q.cmd = "gpos" => q.x \in {GUILD_POS_SENIOR, GUILD_POS_MEMBER} /\ q.g \in User,
           q.cmd \in {"gquit", "delete"} => q.g \in User,
           q.cmd = "create" => q.g = q.e
    PROVE  PosOK'
  <1>0. /\ GUILD_POS_NONE \notin {GUILD_POS_MASTER, GUILD_POS_SENIOR, GUILD_POS_MEMBER, GUILD_POS_APPLY}
        /\ GUILD_POS_MASTER \notin {GUILD_POS_SENIOR, GUILD_POS_MEMBER, GUILD_POS_APPLY}
        /\ NoGuild \notin User
    BY Nobody DEF GUILD_POS_NONE, GUILD_POS_MASTER, GUILD_POS_SENIOR, GUILD_POS_MEMBER, GUILD_POS_APPLY
  <1>1. CASE TurnIdle(q, r) \/ TurnRead(q, r)
    BY <1>1 DEF TurnIdle, TurnRead, SameStatus, PosOK
  <1>2. CASE TurnJoin(q, r)
    BY <1>0, <1>2 DEF TurnJoin, Moved, PosOK
  <1>3. CASE TurnLeave(q, r)
    BY <1>0, <1>3 DEF TurnLeave, Moved, PosOK
  <1>4. CASE TurnClear(q, r)
    <2> SUFFICES ASSUME NEW e \in User
                 PROVE  /\ status'[e].gid = NoGuild <=> status'[e].gpos = GUILD_POS_NONE
                        /\ status'[e].gpos = GUILD_POS_MASTER => status'[e].gid = e
      BY DEF PosOK
    <2>1. CASE status[e].gid = q.g
      BY <1>0, <1>4, <2>1 DEF TurnClear
    <2>2. CASE status[e].gid # q.g
      BY <1>0, <1>4, <2>2 DEF TurnClear, PosOK
    <2>3. QED
      BY <2>1, <2>2
  <1>5. CASE TurnFound(q, r)
    BY <1>0, <1>5 DEF TurnFound, Moved, PosOK
  <1>6. CASE TurnTaken(q, r)
    BY <1>0, <1>6 DEF TurnTaken, Moved, SameStatus, PosOK
  <1>7. QED
    BY <1>1, <1>2, <1>3, <1>4, <1>5, <1>6 DEF Turn

\* The queue of the worker, as the types know it.
LEMMA QueueIs ==
    ASSUME TInv, threads = 1
    PROVE  /\ Thread = {0} /\ (\E S : Q \in Seq(S)) /\ Len(Q) \in Nat
           /\ \A j \in Places : ReqOK(Q[j])
           /\ \A j, k \in Places : j < k => Q[j].at = "done" \/ Q[k].at = "new"
  <1>1. Thread = {0} /\ 0 \in Thread
    BY DEF Thread
  <1>2. \E S : Q \in Seq(S)
    BY <1>1 DEF TInv, QueueOK, Q
  <1>3. Len(Q) \in Nat
    BY <1>2
  <1>4. QED
    BY <1>1, <1>2, <1>3 DEF TInv, QueueOK, InTurn, Q, Places

\* The same, when the worker is the only one.
LEMMA WorkAdvance ==
    ASSUME TInv, MInv, threads = 1, NEW th \in Thread, NEW i \in 1 .. Len(queue[th]), NEW ok \in BOOLEAN,
           Current(th, i), Work(th, i, ok), UNCHANGED <<threads, conn, map>>, NEW r, r = queue'[th][i]
    PROVE  th = 0 /\ Ready(Q[i]) /\ ReqOK(Q[i]) /\ Turn(Q[i], r) /\ Advance(i, r) /\ r.at # "new"
  <1>1. th = 0 /\ i \in Places /\ Len(Q) \in Nat
    BY QueueIs DEF Q, Places
  <1>2. PICK to, u : Set(th, i, u) /\ Same(Q[i], u) /\ ReqOK(u) /\ u.at = to
    BY <1>1, WorkType DEF MovedTo, Q
  <1>3. /\ Len(queue'[th]) = Len(queue[th])
        /\ \A j \in 1 .. Len(queue[th]) : queue'[th][j] = IF j = i THEN u ELSE queue[th][j]
    BY <1>1, <1>2, SetQueue DEF TInv, Q
  <1>4. OneInv /\ ReqOK(Q[i])
    BY <1>1, QueueIs DEF MInv
  <1>5. Ready(Q[i])
    BY <1>1, <1>4 DEF OneInv, AskedOK, Ready, Current, Q
  <1>6. r = u
    BY <1>3
  <1>7. r.by = Q[i].by /\ Turn(Q[i], r) /\ r.good \in BOOLEAN /\ (r.good => r.at = "done") /\ r.at # "new"
    BY <1>1, <1>5, <1>6, WorkTurn, GoodWhenDone DEF Q
  <1>8. \A j \in Places : (j < i => Q[j].at = "done") /\ (i < j => Q[j].at = "new")
    <2>1. ASSUME NEW j \in Places, j < i PROVE Q[j].at = "done"
      <3>1. j \in 1 .. i - 1
        BY <1>1, <2>1 DEF Places
      <3>2. QED
        BY <1>1, <3>1 DEF Current, Q
    <2>2. ASSUME NEW j \in Places, i < j PROVE Q[j].at = "new"
      BY <1>1, <2>2, QueueIs DEF Current, Q
    <2>3. QED
      BY <2>1, <2>2
  <1>9. Q[i].e \in User /\ Q[i].g \in User \cup {NoGuild}
    BY <1>4 DEF ReqOK
  <1>10. Places' = Places /\ \A j \in Places : Q'[j] = IF j = i THEN r ELSE Q[j]
    BY <1>1, <1>3, <1>6 DEF Q, Places
  <1>11. Advance(i, r)
    BY <1>1, <1>2, <1>6, <1>7, <1>8, <1>9, <1>10 DEF Advance, Same, Current, Q
  <1>12. QED
    BY <1>1, <1>4, <1>5, <1>7, <1>11

LEMMA OneTurn ==
    ASSUME TInv, MInv, threads = 1, NEW th \in Thread, NEW i \in 1 .. Len(queue[th]), NEW ok \in BOOLEAN,
           Current(th, i), Work(th, i, ok), UNCHANGED <<threads, conn, map>>
    PROVE  OneInv'
  <1> PICK r : r = queue'[th][i]
    OBVIOUS
  <1>1. th = 0 /\ ReqOK(Q[i]) /\ Turn(Q[i], r) /\ Advance(i, r)
    BY WorkAdvance
  <1>2. OneInv
    BY DEF MInv
  <1>3. /\ Q[i].cmd = "gpos" => Q[i].x \in {GUILD_POS_SENIOR, GUILD_POS_MEMBER} /\ Q[i].g \in User
        /\ Q[i].cmd \in {"gquit", "delete"} => Q[i].g \in User
        /\ Q[i].cmd = "create" => Q[i].g = Q[i].e
        /\ Q[i].e \in User
    BY <1>1, <1>2 DEF ReqOK, OneInv, AskedOK, Advance
  <1>4. PosOK' /\ ChainOK' /\ BeforeOK' /\ AskedOK' /\ LoginsOK'
    BY <1>1, <1>2, <1>3, PosTurn, ChainTurns, BeforeTurn, AskedTurn, LoginsTurn DEF OneInv, TInv
  <1>5. ListOK(conn, map)'
    BY <1>2 DEF OneInv, ListOK, Listed
  <1>6. QED
    BY <1>4, <1>5 DEF OneInv

----------------------------------------------------------------------------
(* The main loop: what it asks, what it hears, who comes and who goes.     *)

\* The connections and the lists are as they were, but for gold and busy.
Seen(c, d, u) == d[u].up = c[u].up /\ d[u].gid = c[u].gid /\ d[u].gpos = c[u].gpos
BusyKept(u) == conn[u].up => conn'[u].up /\ conn'[u].busy = conn[u].busy
MemKept == \A g \in User : map'[g].mem = map[g].mem

\* A request is put behind all others: a command of e, or a login.
Entered(r) ==
    /\ Len(Q) \in Nat /\ Len(Q') = Len(Q) + 1 /\ Q'[Len(Q) + 1] = r
    /\ \A j \in Places : Q'[j] = Q[j]
    /\ r.at = "new" /\ r.good = FALSE
Command(e, r) ==
    /\ r.by = e /\ conn[e].up /\ ~conn[e].busy /\ conn'[e].busy /\ r.cmd # "login"
    /\ \A u \in User \ {e} : BusyKept(u)
    /\ Own(r) => r.e = e /\ conn[e].gid = NoGuild
    /\ r.cmd \in {"create", "delete"} => r.e = e /\ r.g = e
    /\ r.cmd = "apply" => r.g # NoGuild
LoginAsked(r) ==
    /\ r.cmd = "login" /\ r.by = NoOne /\ ~conn[r.e].up /\ \A u \in User : BusyKept(u)
    /\ \A j \in Places : ~(Q[j].cmd = "login" /\ Q[j].e = r.e)

LEMMA ListSeen ==
    ASSUME ListOK(conn, map), MemKept, \A u \in User : Seen(conn, conn', u)
    PROVE  ListOK(conn, map)'
  BY DEF ListOK, MemKept, Seen, Listed

LEMMA EnteredPlaces ==
    ASSUME NEW r, Entered(r)
    PROVE  /\ Places \subseteq Places' /\ Len(Q) + 1 \in Places'
           /\ \A j \in Places' : j \in Places \/ j = Len(Q) + 1
           /\ \A j \in Places : j < Len(Q) + 1
           /\ Len(Q) + 1 \notin Places
  BY DEF Entered, Places

LEMMA EnteredChain ==
    ASSUME NEW r, Entered(r), ChainOK, status' = status, \A u \in User : Seen(conn, conn', u)
    PROVE  ChainOK'
  <1> SUFFICES ASSUME NEW e \in User, NEW p \in (0 .. Len(Q))', NEW b \in User \cup {NoGuild}, Anchor(e, p, b)'
               PROVE  Chain(e, p, b)'
    BY DEF ChainOK
  <1> PICK n \in Nat : n = Len(Q) + 1
    BY DEF Entered
  <1>1. /\ \A j \in Places : j \in Places' /\ Q'[j] = Q[j] /\ j < n
        /\ \A j \in Places' : j \in Places \/ j = n
        /\ Q'[n] = r /\ r.at = "new" /\ n \in Places'
    BY EnteredPlaces DEF Entered
  <1>2. ~Changes(r) /\ ~Passed(r) /\ ~Ends(r, e, b)
    BY <1>1, NewTellsNothing
  <1>3. ~Taken(e, n)' /\ ~ReadIn(e, n)'
    BY <1>1, <1>2 DEF Taken, ReadIn
  <1>4. \A j \in Places : (Taken(e, j)' <=> Taken(e, j)) /\ (ReadIn(e, j)' <=> ReadIn(e, j))
    BY <1>1 DEF Taken, ReadIn
  <1>5. p \in 0 .. Len(Q) /\ Anchor(e, p, b)
    <2>1. CASE p = 0
      <3>1. 0 \notin Places' /\ p \in 0 .. Len(Q)
        BY <2>1 DEF Places, Entered
      <3>2. conn'[e].up /\ b = conn'[e].gid /\ \A j \in Places' : ~Taken(e, j)'
        BY <2>1, <3>1 DEF Anchor
      <3>3. conn[e].up /\ b = conn[e].gid /\ \A j \in Places : ~Taken(e, j)
        BY <1>1, <1>4, <3>2 DEF Seen
      <3>4. QED
        BY <2>1, <3>1, <3>3 DEF Anchor
    <2>2. CASE p # 0
      <3>1. p \in Places
        BY <1>1, <1>3, <2>2 DEF Anchor
      <3>2. p \in 0 .. Len(Q)
        BY <3>1 DEF Places, Entered
      <3>3. QED
        BY <1>1, <1>4, <2>2, <3>1, <3>2 DEF Anchor, Seen
    <2>3. QED
      BY <2>1, <2>2
  <1>6. Chain(e, p, b)
    BY <1>5 DEF ChainOK
  <1>7. \A j \in Places' : j > p /\ Q'[j].e = e /\ Changes(Q'[j]) => Q'[j].g = b /\ b # NoGuild
    BY <1>1, <1>2, <1>6 DEF Chain
  <1>8. ASSUME NEW j \in Places', j > p, Ends(Q'[j], e, b), b # NoGuild
        PROVE  status[e].gid = NoGuild /\ \A k \in Places' : k > j => ~(Q'[k].e = e /\ Changes(Q'[k]))
    <2>1. j \in Places /\ Q'[j] = Q[j]
      BY <1>1, <1>2, <1>8
    <2>2. QED
      BY <1>1, <1>2, <1>6, <1>8, <2>1 DEF Chain
  <1>9. status'[e].gid \in {NoGuild, b} \/ (b = NoGuild /\ status'[e].gpos = GUILD_POS_MASTER)
    BY <1>6 DEF Chain
  <1>10. QED
    BY <1>7, <1>8, <1>9 DEF Chain

LEMMA EnteredAsked ==
    ASSUME NEW r, Entered(r), AskedOK, LoginsOK, \A u \in User : Seen(conn, conn', u),
           r.e \in User, (\E e \in User : Command(e, r)) \/ LoginAsked(r),
           \A j \in Places : Q[j].e \in User
    PROVE  AskedOK' /\ LoginsOK'
  <1> PICK n \in Nat : n = Len(Q) + 1
    BY DEF Entered
  <1>1. /\ \A j \in Places : j \in Places' /\ Q'[j] = Q[j] /\ j < n
        /\ \A j \in Places' : j \in Places \/ j = n
        /\ Q'[n] = r /\ r.at = "new" /\ r.good = FALSE /\ n \in Places'
    BY EnteredPlaces DEF Entered
  <1>2. ASSUME NEW i \in Places
        PROVE  /\ Own(Q[i]) /\ conn'[Q[i].e].up => Q[i].by = Q[i].e /\ conn'[Q[i].e].gid = NoGuild
               /\ Q[i].by # NoOne => /\ Q[i].by \in User /\ conn'[Q[i].by].up /\ conn'[Q[i].by].busy
                                     /\ Q[i].by # r.by
               /\ Q[i].cmd = "login" => ~conn'[Q[i].e].up /\ (r.cmd = "login" => r.e # Q[i].e)
                                        /\ (Own(r) => r.e # Q[i].e)
    <2>1. Own(Q[i]) /\ conn'[Q[i].e].up => Q[i].by = Q[i].e /\ conn'[Q[i].e].gid = NoGuild
      BY DEF AskedOK, Seen
    <2>2. Q[i].by # NoOne => Q[i].by \in User /\ conn'[Q[i].by].up /\ conn'[Q[i].by].busy /\ Q[i].by # r.by
      BY DEF AskedOK, Seen, Command, LoginAsked, BusyKept
    <2>3. Q[i].cmd = "login" => ~conn'[Q[i].e].up
      BY DEF LoginsOK, Seen
    <2>4. Q[i].cmd = "login" => (r.cmd = "login" => r.e # Q[i].e) /\ (Own(r) => r.e # Q[i].e)
      <3>1. r.cmd = "login" => ~Own(r)
        BY DEF Own
      <3>2. QED
        BY <3>1 DEF LoginsOK, Command, LoginAsked
    <2>5. QED
      BY <2>1, <2>2, <2>3, <2>4
  <1>3. /\ Own(r) => r.by = r.e /\ conn'[r.e].gid = NoGuild
        /\ r.by # NoOne => r.by \in User /\ conn'[r.by].up /\ conn'[r.by].busy
        /\ r.cmd \in {"create", "delete"} => r.g = r.e /\ r.by = r.e
        /\ r.cmd = "apply" => r.g # NoGuild
        /\ r.cmd = "login" => ~conn'[r.e].up /\ r.by = NoOne
    BY DEF Own, Seen, Command, LoginAsked
  <1>4. AskedOK'
    <2> SUFFICES ASSUME NEW i \in Places'
        PROVE /\ Own(Q'[i]) /\ conn'[Q'[i].e].up => Q'[i].by = Q'[i].e /\ conn'[Q'[i].e].gid = NoGuild
              /\ Q'[i].by # NoOne => /\ Q'[i].by \in User /\ conn'[Q'[i].by].up /\ conn'[Q'[i].by].busy
                                     /\ \A j \in Places' : Q'[j].by = Q'[i].by => j = i
              /\ Own(Q'[i]) => Q'[i].by \in {Q'[i].e, NoOne}
              /\ Q'[i].cmd \in {"create", "delete"} => Q'[i].g = Q'[i].e
              /\ Q'[i].cmd = "apply" => Q'[i].g # NoGuild
              /\ Q'[i].cmd = "delete" => Q'[i].by \in {Q'[i].e, NoOne}
              /\ Q'[i].good \in BOOLEAN /\ (Q'[i].good => Q'[i].at = "done")
      BY DEF AskedOK
    <2>1. CASE i \in Places
      <3>1. Q'[i] = Q[i]
        BY <1>1, <2>1
      <3>2. Q[i].by # NoOne => \A j \in Places' : Q'[j].by = Q[i].by => j = i
        BY <1>1, <1>2, <2>1 DEF AskedOK
      <3>3. QED
        BY <1>2, <2>1, <3>1, <3>2 DEF AskedOK
    <2>2. CASE i = n
      <3>1. r.by # NoOne => \A j \in Places' : Q'[j].by = r.by => j = n
        BY <1>1, <1>2
      <3>2. QED
        BY <1>1, <1>3, <2>2, <3>1
    <2>3. QED
      BY <1>1, <2>1, <2>2
  <1>5. LoginsOK'
    <2> SUFFICES ASSUME NEW i \in Places', Q'[i].cmd = "login"
        PROVE /\ ~conn'[Q'[i].e].up /\ Q'[i].by = NoOne
              /\ \A j \in Places' : Q'[j].cmd = "login" /\ Q'[j].e = Q'[i].e => j = i
              /\ \A j \in Places' : Own(Q'[j]) /\ Q'[j].e = Q'[i].e => j < i
              /\ Q'[i].at = "done" => /\ Q'[i].got[2] \in Gpos
                                      /\ (Q'[i].got[1] = NoGuild <=> Q'[i].got[2] = GUILD_POS_NONE)
      BY DEF LoginsOK
    <2>1. CASE i \in Places
      <3>1. Q'[i] = Q[i]
        BY <1>1, <2>1
      <3>2. /\ \A j \in Places' : Q'[j].cmd = "login" /\ Q'[j].e = Q[i].e => j = i
            /\ \A j \in Places' : Own(Q'[j]) /\ Q'[j].e = Q[i].e => j < i
        BY <1>1, <1>2, <2>1, <3>1 DEF LoginsOK
      <3>3. QED
        BY <1>2, <2>1, <3>1, <3>2 DEF LoginsOK
    <2>2. CASE i = n
      <3>1. Q'[i] = r /\ r.cmd = "login" /\ ~Own(r)
        BY <1>1, <2>2 DEF Own
      <3>2. LoginAsked(r)
        BY <3>1 DEF Command
      <3>3. QED
        BY <1>1, <1>3, <2>2, <3>1, <3>2 DEF LoginAsked
    <2>3. QED
      BY <1>1, <2>1, <2>2
  <1>6. QED
    BY <1>4, <1>5

\* What the main loop has asked for is told of only when it is answered.
LEMMA EnteredOne ==
    ASSUME NEW r, Entered(r), OneInv, status' = status, MemKept, \A u \in User : Seen(conn, conn', u),
           r.e \in User, (\E e \in User : Command(e, r)) \/ LoginAsked(r),
           \A j \in Places : Q[j].e \in User
    PROVE  OneInv'
  <1>1. ChainOK' /\ AskedOK' /\ LoginsOK' /\ ListOK(conn, map)'
    BY EnteredChain, EnteredAsked, ListSeen DEF OneInv
  <1>2. PosOK'
    BY DEF OneInv, PosOK
  <1>3. BeforeOK'
    <2> SUFFICES ASSUME NEW e \in User, NEW i \in Places', conn'[e].up, Taken(e, i)', NEW j \in Places', j < i
                 PROVE  ~(Q'[j].e = e /\ Changes(Q'[j]))
      BY DEF BeforeOK
    <2> PICK n \in Nat : n = Len(Q) + 1
      BY DEF Entered
    <2>1. /\ \A k \in Places : Q'[k] = Q[k] /\ k < n
          /\ \A k \in Places' : k \in Places \/ k = n
          /\ Q'[n] = r /\ r.at = "new"
      BY EnteredPlaces DEF Entered
    <2>2. i \in Places
      BY <2>1 DEF Taken, Passed
    <2>3. j \in Places
      BY <2>1, <2>2 DEF Places
    <2>4. Taken(e, i) /\ conn[e].up
      BY <2>1, <2>2 DEF Taken, Seen
    <2>5. QED
      BY <2>1, <2>2, <2>3, <2>4 DEF OneInv, BeforeOK
  <1>4. QED
    BY <1>1, <1>2, <1>3 DEF OneInv

\* The first reply q is taken.
Shifted(q) ==
    /\ Len(Q') \in Nat /\ Len(Q) = Len(Q') + 1 /\ q = Q[1] /\ q.at = "done"
    /\ \A j \in Places' : Q'[j] = Q[j + 1]

GuildKept(u) == conn'[u].up = conn[u].up /\ conn'[u].gid = conn[u].gid

\* What the main loop makes of it: nothing, the guild of its user, nobody's
\* guild, or a user who comes in.
Dropped(q) == (\A u \in User : GuildKept(u)) /\ ~(Own(q) /\ Passed(q) /\ conn[q.e].up)
SetsGuild(q) ==
    /\ q.cmd \in {"create", "apply", "gpos", "gquit"} /\ Passed(q)
    /\ conn[q.e].up /\ conn'[q.e].up /\ conn'[q.e].gid = IF q.cmd = "gquit" THEN NoGuild ELSE q.g
    /\ \A u \in User \ {q.e} : GuildKept(u)
Clears(q) ==
    /\ q.cmd = "delete" /\ Passed(q) /\ q.g # NoGuild
    /\ \A u \in User : \/ GuildKept(u)
                       \/ conn[u].up /\ conn'[u].up /\ conn[u].gid = q.g /\ conn'[u].gid = NoGuild
Enters(q) ==
    /\ q.cmd = "login" /\ ~conn[q.e].up /\ conn'[q.e].up /\ conn'[q.e].gid = q.got[1]
    /\ \A u \in User \ {q.e} : GuildKept(u)
Heard(q) ==
    /\ q.e \in User /\ (Dropped(q) \/ SetsGuild(q) \/ Clears(q) \/ Enters(q))
    /\ \A u \in User : u # q.by => BusyKept(u)

LEMMA ShiftedPlaces ==
    ASSUME NEW q, Shifted(q)
    PROVE  /\ 1 \in Places /\ \A j \in Places' : j + 1 \in Places /\ 1 < j + 1 /\ j + 1 # 1 /\ j \in Nat
           /\ \A j \in Places : j = 1 \/ (j - 1 \in Places' /\ (j - 1) + 1 = j)
           /\ \A j, k \in Places' : (j < k <=> j + 1 < k + 1) /\ (j = k <=> j + 1 = k + 1)
  BY DEF Shifted, Places

\* Whatever is heard, nobody is told of a guild who comes to be another's.
LEMMA ReplyAnchor ==
    ASSUME NEW q, Shifted(q), Heard(q), ChainOK, LoginsOK, ConnOK,
           NEW e \in User, NEW p \in (0 .. Len(Q))', NEW b \in User \cup {NoGuild}, Anchor(e, p, b)'
    PROVE  Chain(e, p + 1, b)
  <1>1. /\ 1 \in Places /\ Q[1] = q /\ q.at = "done" /\ p + 1 \in 0 .. Len(Q) /\ 1 \in 0 .. Len(Q) /\ 0 \in 0 .. Len(Q)
        /\ \A j \in Places' : j + 1 \in Places /\ Q'[j] = Q[j + 1]
        /\ \A j \in Places : j = 1 \/ (j - 1 \in Places' /\ Q'[j - 1] = Q[j])
    BY ShiftedPlaces DEF Shifted
  <1>2. conn'[e].up => conn[e].up \/ (Enters(q) /\ e = q.e)
    BY DEF Heard, Dropped, SetsGuild, Clears, Enters, GuildKept
  <1>3. CASE p = 0 /\ conn'[e].up /\ b = conn'[e].gid /\ \A j \in Places' : ~Taken(e, j)'
    <2>0. p + 1 = 1
      BY <1>3
    <2>1. CASE Enters(q) /\ e = q.e
      <3>1. Anchor(e, 1, b)
        BY <1>1, <1>3, <2>1 DEF Anchor, Enters, ReadIn
      <3>2. QED
        BY <1>1, <2>0, <3>1 DEF ChainOK
    <2>2. CASE SetsGuild(q) /\ Own(q) /\ q.e = e
      <3>1. Anchor(e, 1, b)
        BY <1>1, <1>3, <2>2 DEF Anchor, SetsGuild, Taken, Own
      <3>2. QED
        BY <1>1, <2>0, <3>1 DEF ChainOK
    <2>3. CASE conn[e].up /\ ~(SetsGuild(q) /\ Own(q) /\ q.e = e)
      <3>1. ~Taken(e, 1)
        BY <1>1, <2>3 DEF Taken, Heard, Dropped, Clears, Enters, Own
      <3>2. \A j \in Places : ~Taken(e, j)
        <4>1. ASSUME NEW j \in Places PROVE ~Taken(e, j)
          <5>1. CASE j = 1
            BY <3>1, <5>1
          <5>2. CASE j # 1
            <6>1. ~Taken(e, j - 1)' /\ Q'[j - 1] = Q[j]
              BY <1>1, <1>3, <5>2
            <6>2. QED
              BY <6>1 DEF Taken
          <5>3. QED
            BY <5>1, <5>2
        <4>2. QED
          BY <4>1
      <3> PICK c : c = conn[e].gid
        OBVIOUS
      <3>3. c \in User \cup {NoGuild}
        BY DEF ConnOK, Rows
      <3>4. Anchor(e, 0, c)
        BY <2>3, <3>2 DEF Anchor
      <3>5. Chain(e, 0, c)
        BY <1>1, <3>3, <3>4 DEF ChainOK
      <3>6. CASE b = c
        BY <2>0, <3>5, <3>6 DEF Chain, Places
      <3>7. CASE b # c
        <4>1. conn'[e].gid # conn[e].gid
          BY <1>3, <3>7
        <4>2. \/ SetsGuild(q) /\ q.e = e /\ q.cmd \in {"gpos", "gquit"}
              \/ Clears(q) /\ c = q.g /\ b = NoGuild
          BY <1>3, <2>3, <4>1 DEF Heard, Dropped, SetsGuild, Clears, Enters, GuildKept, Own
        <4>3. 1 > 0 /\ \A j \in Places : j > 1 => j > 0
          BY DEF Places
        <4>4. b = NoGuild /\ c # NoGuild /\ Ends(q, e, c)
          <5>1. CASE SetsGuild(q) /\ q.e = e /\ q.cmd \in {"gpos", "gquit"}
            <6>1. Changes(q)
              BY <5>1 DEF SetsGuild, Changes
            <6>2. q.g = c /\ c # NoGuild
              BY <1>1, <3>5, <4>3, <5>1, <6>1 DEF Chain
            <6>3. q.cmd = "gquit" /\ b = NoGuild
              BY <1>3, <3>7, <5>1, <6>2 DEF SetsGuild
            <6>4. QED
              BY <5>1, <6>1, <6>2, <6>3 DEF Ends
          <5>2. CASE Clears(q) /\ c = q.g /\ b = NoGuild
            BY <5>2 DEF Clears, Ends
          <5>3. QED
            BY <4>2, <5>1, <5>2
        <4>5. status[e].gid = NoGuild /\ \A k \in Places : k > 1 => ~(Q[k].e = e /\ Changes(Q[k]))
          BY <1>1, <3>5, <4>3, <4>4 DEF Chain
        <4>6. QED
          BY <2>0, <4>4, <4>5 DEF Chain
      <3>8. QED
        BY <3>6, <3>7
    <2>4. QED
      BY <1>2, <1>3, <2>1, <2>2, <2>3
  <1>4. CASE p \in Places' /\ conn'[e].up /\ Taken(e, p)' /\ b = Q'[p].g
    <2>1. Taken(e, p + 1) /\ Q[p + 1] = Q'[p] /\ p + 1 \in Places /\ ~(p + 1 < 1)
      <3>1. Q[p + 1] = Q'[p] /\ p + 1 \in Places
        BY <1>1, <1>4
      <3>2. QED
        BY <1>4, <3>1 DEF Taken, Places
    <2>2. conn[e].up
      BY <1>1, <1>2, <1>4, <2>1 DEF Enters, LoginsOK, Taken
    <2>3. Anchor(e, p + 1, b)
      BY <1>4, <2>1, <2>2 DEF Anchor
    <2>4. QED
      BY <1>1, <2>3 DEF ChainOK
  <1>5. CASE p \in Places' /\ ReadIn(e, p)' /\ b = Q'[p].got[1]
    <2>1. Q[p + 1] = Q'[p] /\ p + 1 \in Places
      BY <1>1, <1>5
    <2>2. Anchor(e, p + 1, b)
      BY <1>5, <2>1 DEF Anchor, ReadIn
    <2>3. QED
      BY <1>1, <2>2 DEF ChainOK
  <1>6. QED
    BY <1>3, <1>4, <1>5 DEF Anchor

LEMMA ReplyChain ==
    ASSUME NEW q, Shifted(q), Heard(q), ChainOK, LoginsOK, ConnOK, status' = status
    PROVE  ChainOK'
  <1> SUFFICES ASSUME NEW e \in User, NEW p \in (0 .. Len(Q))', NEW b \in User \cup {NoGuild}, Anchor(e, p, b)'
               PROVE  Chain(e, p, b)'
    BY DEF ChainOK
  <1>1. Chain(e, p + 1, b)
    BY ReplyAnchor
  <1>2. \A j \in Places' : j + 1 \in Places /\ Q'[j] = Q[j + 1] /\ (j > p <=> j + 1 > p + 1)
    BY ShiftedPlaces DEF Shifted
  <1>3. \A j \in Places' : j > p /\ Q'[j].e = e /\ Changes(Q'[j]) => Q'[j].g = b /\ b # NoGuild
    BY <1>1, <1>2 DEF Chain
  <1>4. ASSUME NEW j \in Places', j > p, Ends(Q'[j], e, b), b # NoGuild
        PROVE  status[e].gid = NoGuild /\ \A k \in Places' : k > j => ~(Q'[k].e = e /\ Changes(Q'[k]))
    <2>1. status[e].gid = NoGuild /\ \A k \in Places : k > j + 1 => ~(Q[k].e = e /\ Changes(Q[k]))
      BY <1>1, <1>2, <1>4 DEF Chain
    <2>2. \A k \in Places' : k > j => k + 1 > j + 1
      BY ShiftedPlaces
    <2>3. QED
      BY <1>2, <2>1, <2>2
  <1>5. status'[e].gid \in {NoGuild, b} \/ (b = NoGuild /\ status'[e].gpos = GUILD_POS_MASTER)
    BY <1>1 DEF Chain
  <1>6. QED
    BY <1>3, <1>4, <1>5 DEF Chain

\* Who waits for a guild of his own is not told of another.
LEMMA OwnUntold ==
    ASSUME NEW q, Shifted(q), Heard(q), ChainOK, BeforeOK, AskedOK, LoginsOK,
           NEW k \in Places, k # 1, Own(Q[k]), Q[k].e \in User, conn'[Q[k].e].up
    PROVE  conn[Q[k].e].up /\ conn'[Q[k].e].gid = NoGuild
  <1> PICK e : e = Q[k].e
    OBVIOUS
  <1>1. 1 \in Places /\ Q[1] = q /\ 1 < k /\ ~(k < 1) /\ 0 \in 0 .. Len(Q)
    BY ShiftedPlaces DEF Shifted, Places
  <1>2. ~(Enters(q) /\ e = q.e)
    BY <1>1 DEF Enters, LoginsOK
  <1>3. conn[e].up
    BY <1>2 DEF Heard, Dropped, SetsGuild, Clears, Enters, GuildKept
  <1>4. Q[k].by = e /\ e # NoOne /\ conn[e].gid = NoGuild /\ \A j \in Places : Q[j].by = e => j = k
    <2>1. Q[k].by = e /\ conn[e].gid = NoGuild
      BY <1>3 DEF AskedOK
    <2>2. e # NoOne
      BY Nobody
    <2>3. QED
      BY <2>1, <2>2 DEF AskedOK
  <1>5. ~(q.e = e /\ Own(q))
    BY <1>1, <1>3, <1>4 DEF AskedOK
  <1>6. ~(q.e = e /\ q.cmd = "gpos" /\ Passed(q))
    <2> SUFFICES ASSUME q.e = e, q.cmd = "gpos", Passed(q) PROVE FALSE
      OBVIOUS
    <2>1. Changes(q)
      BY DEF Changes
    <2>2. CASE Taken(e, k)
      BY <1>1, <1>3, <2>1, <2>2 DEF BeforeOK
    <2>3. CASE ~Taken(e, k)
      <3>1. \A j \in Places : ~Taken(e, j)
        BY <1>3, <1>4, <2>3 DEF AskedOK, Taken
      <3>2. Anchor(e, 0, NoGuild)
        BY <1>3, <1>4, <3>1 DEF Anchor
      <3>3. Chain(e, 0, NoGuild)
        BY <1>1, <3>2 DEF ChainOK
      <3>4. 1 > 0
        OBVIOUS
      <3>5. QED
        BY <1>1, <2>1, <3>3, <3>4 DEF Chain
    <2>4. QED
      BY <2>2, <2>3
  <1>7. conn'[e].gid = NoGuild
    BY <1>2, <1>3, <1>4, <1>5, <1>6 DEF Heard, Dropped, SetsGuild, Clears, Enters, GuildKept, Own
  <1>8. QED
    BY <1>3, <1>7

LEMMA ReplyAsked ==
    ASSUME NEW q, Shifted(q), Heard(q), ChainOK, BeforeOK, AskedOK, LoginsOK,
           \A j \in Places : Q[j].e \in User
    PROVE  AskedOK'
  <1>1. /\ \A j \in Places' : j + 1 \in Places /\ Q'[j] = Q[j + 1] /\ j + 1 # 1
        /\ \A j, k \in Places' : j = k <=> j + 1 = k + 1
        /\ 1 \in Places /\ Q[1] = q
    BY ShiftedPlaces DEF Shifted
  <1> SUFFICES ASSUME NEW i \in Places'
        PROVE /\ Own(Q'[i]) /\ conn'[Q'[i].e].up => Q'[i].by = Q'[i].e /\ conn'[Q'[i].e].gid = NoGuild
              /\ Q'[i].by # NoOne => /\ Q'[i].by \in User /\ conn'[Q'[i].by].up /\ conn'[Q'[i].by].busy
                                     /\ \A j \in Places' : Q'[j].by = Q'[i].by => j = i
              /\ Own(Q'[i]) => Q'[i].by \in {Q'[i].e, NoOne}
              /\ Q'[i].cmd \in {"create", "delete"} => Q'[i].g = Q'[i].e
              /\ Q'[i].cmd = "apply" => Q'[i].g # NoGuild
              /\ Q'[i].cmd = "delete" => Q'[i].by \in {Q'[i].e, NoOne}
              /\ Q'[i].good \in BOOLEAN /\ (Q'[i].good => Q'[i].at = "done")
    BY DEF AskedOK
  <1> PICK k \in Places : k = i + 1 /\ k # 1 /\ Q'[i] = Q[k]
    BY <1>1
  <1>2. Own(Q[k]) /\ conn'[Q[k].e].up => Q[k].by = Q[k].e /\ conn'[Q[k].e].gid = NoGuild
    BY OwnUntold DEF AskedOK
  <1>3. ASSUME Q[k].by # NoOne
        PROVE  /\ Q[k].by \in User /\ conn'[Q[k].by].up /\ conn'[Q[k].by].busy
               /\ \A j \in Places' : Q'[j].by = Q[k].by => j = i
    <2>1. /\ Q[k].by \in User /\ conn[Q[k].by].up /\ conn[Q[k].by].busy
          /\ \A j \in Places : Q[j].by = Q[k].by => j = k
      BY <1>3 DEF AskedOK
    <2>2. Q[k].by # q.by
      BY <1>1, <2>1
    <2>3. conn'[Q[k].by].up /\ conn'[Q[k].by].busy
      BY <2>1, <2>2 DEF Heard, BusyKept
    <2>4. QED
      BY <1>1, <2>1, <2>3
  <1>4. QED
    BY <1>2, <1>3 DEF AskedOK

LEMMA ReplyLogins ==
    ASSUME NEW q, Shifted(q), Heard(q), LoginsOK, \A j \in Places : Q[j].e \in User
    PROVE  LoginsOK'
  <1>1. /\ \A j \in Places' : j + 1 \in Places /\ Q'[j] = Q[j + 1] /\ j + 1 # 1
        /\ \A j, k \in Places' : (j = k <=> j + 1 = k + 1) /\ (j < k <=> j + 1 < k + 1)
        /\ 1 \in Places /\ Q[1] = q
    BY ShiftedPlaces DEF Shifted
  <1> SUFFICES ASSUME NEW i \in Places', Q'[i].cmd = "login"
        PROVE /\ ~conn'[Q'[i].e].up /\ Q'[i].by = NoOne
              /\ \A j \in Places' : Q'[j].cmd = "login" /\ Q'[j].e = Q'[i].e => j = i
              /\ \A j \in Places' : Own(Q'[j]) /\ Q'[j].e = Q'[i].e => j < i
              /\ Q'[i].at = "done" => /\ Q'[i].got[2] \in Gpos
                                      /\ (Q'[i].got[1] = NoGuild <=> Q'[i].got[2] = GUILD_POS_NONE)
    BY DEF LoginsOK
  <1> PICK k \in Places : k = i + 1 /\ k # 1 /\ Q'[i] = Q[k]
    BY <1>1
  <1>2. ~(Enters(q) /\ q.e = Q[k].e)
    BY <1>1 DEF Enters, LoginsOK
  <1>3. ~conn[Q[k].e].up
    BY DEF LoginsOK
  <1>4. ~conn'[Q[k].e].up
    BY <1>2, <1>3 DEF Heard, Dropped, SetsGuild, Clears, Enters, GuildKept
  <1>5. \A j \in Places' : Q'[j].cmd = "login" /\ Q'[j].e = Q[k].e => j = i
    BY <1>1 DEF LoginsOK
  <1>6. \A j \in Places' : Own(Q'[j]) /\ Q'[j].e = Q[k].e => j < i
    <2>1. ASSUME NEW j \in Places', Own(Q'[j]), Q'[j].e = Q[k].e PROVE j < i
      <3>1. j + 1 \in Places /\ Own(Q[j + 1]) /\ Q[j + 1].e = Q[k].e
        BY <1>1, <2>1 DEF Own
      <3>2. j + 1 < k
        BY <3>1 DEF LoginsOK
      <3>3. QED
        BY <1>1, <3>2
    <2>2. QED
      BY <2>1
  <1>7. QED
    BY <1>4, <1>5, <1>6 DEF LoginsOK

LEMMA ReplyOne ==
    ASSUME NEW q, Shifted(q), Heard(q), OneInv, ConnOK, status' = status, ListOK(conn, map)',
           \A j \in Places : Q[j].e \in User
    PROVE  OneInv'
  <1>1. ChainOK' /\ AskedOK' /\ LoginsOK'
    BY ReplyChain, ReplyAsked, ReplyLogins DEF OneInv
  <1>2. PosOK'
    BY DEF OneInv, PosOK
  <1>3. BeforeOK'
    <2> SUFFICES ASSUME NEW e \in User, NEW i \in Places', conn'[e].up, Taken(e, i)', NEW j \in Places', j < i
                 PROVE  ~(Q'[j].e = e /\ Changes(Q'[j]))
      BY DEF BeforeOK
    <2>1. /\ i + 1 \in Places /\ Q'[i] = Q[i + 1] /\ i + 1 # 1
          /\ j + 1 \in Places /\ Q'[j] = Q[j + 1] /\ j + 1 < i + 1
      BY ShiftedPlaces DEF Shifted
    <2>2. Taken(e, i + 1)
      BY <2>1 DEF Taken
    <2>3. conn[e].up
      BY <2>1, <2>2, OwnUntold DEF OneInv, Taken
    <2>4. QED
      BY <2>1, <2>2, <2>3 DEF OneInv, BeforeOK
  <1>4. QED
    BY <1>1, <1>2, <1>3 DEF OneInv

\* A connection goes, and nobody hears what it has asked for.
Alike(r, q) ==
    /\ r.cmd = q.cmd /\ r.e = q.e /\ r.g = q.g /\ r.at = q.at /\ r.good = q.good /\ r.got = q.got
Gone(e) ==
    /\ Len(Q) \in Nat /\ Len(Q') = Len(Q)
    /\ \A j \in Places : Alike(Q'[j], Q[j]) /\ Q'[j].by = IF Q[j].by = e THEN NoOne ELSE Q[j].by
    /\ conn[e].up /\ ~conn'[e].up /\ \A u \in User \ {e} : conn'[u] = conn[u]

LEMMA AlikeTells ==
    ASSUME NEW q, NEW r, Alike(r, q)
    PROVE  /\ Changes(r) <=> Changes(q)
           /\ Passed(r) <=> Passed(q)
           /\ Own(r) <=> Own(q)
           /\ \A e, b : Ends(r, e, b) <=> Ends(q, e, b)
  <1>1. Changes(r) <=> Changes(q)
    BY DEF Alike, Changes, Passed
  <1>2. (Passed(r) <=> Passed(q)) /\ (Own(r) <=> Own(q))
    BY DEF Alike, Passed, Own
  <1>3. \A e, b : Ends(r, e, b) <=> Ends(q, e, b)
    BY <1>1, <1>2 DEF Alike, Ends
  <1>4. QED
    BY <1>1, <1>2, <1>3

LEMMA GoneOne ==
    ASSUME NEW e \in User, Gone(e), OneInv, ListOK(conn, map)', status' = status,
           \A j \in Places : Q[j].e \in User
    PROVE  OneInv'
  <1>1. /\ Places' = Places /\ Len(Q') = Len(Q)
        /\ \A j \in Places : Alike(Q'[j], Q[j]) /\ Q'[j].by = IF Q[j].by = e THEN NoOne ELSE Q[j].by
        /\ \A u \in User : conn'[u].up => u # e /\ conn'[u] = conn[u]
        /\ conn[e].up
    BY DEF Gone, Places
  <1>2. ASSUME NEW j \in Places
        PROVE  /\ Q'[j].cmd = Q[j].cmd /\ Q'[j].e = Q[j].e /\ Q'[j].g = Q[j].g /\ Q'[j].at = Q[j].at
               /\ Q'[j].good = Q[j].good /\ Q'[j].got = Q[j].got
               /\ (Changes(Q'[j]) <=> Changes(Q[j])) /\ (Own(Q'[j]) <=> Own(Q[j]))
               /\ \A u, b : Ends(Q'[j], u, b) <=> Ends(Q[j], u, b)
               /\ \A u : (Taken(u, j)' <=> Taken(u, j)) /\ (ReadIn(u, j)' <=> ReadIn(u, j))
    <2>1. Alike(Q'[j], Q[j])
      BY <1>1
    <2>2. /\ (Changes(Q'[j]) <=> Changes(Q[j])) /\ (Own(Q'[j]) <=> Own(Q[j])) /\ (Passed(Q'[j]) <=> Passed(Q[j]))
          /\ \A u, b : Ends(Q'[j], u, b) <=> Ends(Q[j], u, b)
      BY <2>1, AlikeTells
    <2>3. QED
      BY <2>1, <2>2 DEF Alike, Taken, ReadIn
  <1>3. PosOK'
    BY DEF OneInv, PosOK
  <1>4. ChainOK'
    <2> SUFFICES ASSUME NEW u \in User, NEW p \in 0 .. Len(Q), NEW b \in User \cup {NoGuild}, Anchor(u, p, b)'
                 PROVE  Chain(u, p, b)'
      BY <1>1 DEF ChainOK
    <2>1. Anchor(u, p, b)
      BY <1>1, <1>2 DEF Anchor
    <2>2. Chain(u, p, b)
      BY <2>1 DEF OneInv, ChainOK
    <2>3. QED
      BY <1>1, <1>2, <2>2 DEF Chain
  <1>5. BeforeOK'
    <2> SUFFICES ASSUME NEW u \in User, NEW i \in Places, conn'[u].up, Taken(u, i)', NEW j \in Places, j < i
                 PROVE  ~(Q'[j].e = u /\ Changes(Q'[j]))
      BY <1>1 DEF BeforeOK
    <2>1. conn[u].up /\ Taken(u, i)
      BY <1>1, <1>2
    <2>2. QED
      BY <1>2, <2>1 DEF OneInv, BeforeOK
  <1>6. AskedOK'
    <2> SUFFICES ASSUME NEW i \in Places
        PROVE /\ Own(Q'[i]) /\ conn'[Q'[i].e].up => Q'[i].by = Q'[i].e /\ conn'[Q'[i].e].gid = NoGuild
              /\ Q'[i].by # NoOne => /\ Q'[i].by \in User /\ conn'[Q'[i].by].up /\ conn'[Q'[i].by].busy
                                     /\ \A j \in Places : Q'[j].by = Q'[i].by => j = i
              /\ Own(Q'[i]) => Q'[i].by \in {Q'[i].e, NoOne}
              /\ Q'[i].cmd \in {"create", "delete"} => Q'[i].g = Q'[i].e
              /\ Q'[i].cmd = "apply" => Q'[i].g # NoGuild
              /\ Q'[i].cmd = "delete" => Q'[i].by \in {Q'[i].e, NoOne}
              /\ Q'[i].good \in BOOLEAN /\ (Q'[i].good => Q'[i].at = "done")
      BY <1>1 DEF AskedOK
    <2>1. Own(Q'[i]) /\ conn'[Q'[i].e].up => Q'[i].by = Q'[i].e /\ conn'[Q'[i].e].gid = NoGuild
      BY <1>1, <1>2 DEF OneInv, AskedOK
    <2>2. ASSUME Q'[i].by # NoOne
          PROVE  /\ Q'[i].by \in User /\ conn'[Q'[i].by].up /\ conn'[Q'[i].by].busy
                 /\ \A j \in Places : Q'[j].by = Q'[i].by => j = i
      <3>1. Q'[i].by = Q[i].by /\ Q[i].by # e /\ Q[i].by # NoOne
        BY <1>1, <2>2
      <3>2. /\ Q[i].by \in User /\ conn[Q[i].by].up /\ conn[Q[i].by].busy
            /\ \A j \in Places : Q[j].by = Q[i].by => j = i
        BY <3>1 DEF OneInv, AskedOK
      <3>3. conn'[Q[i].by] = conn[Q[i].by]
        BY <3>1, <3>2 DEF Gone
      <3>4. QED
        BY <1>1, <3>1, <3>2, <3>3
    <2>3. QED
      BY <1>1, <1>2, <2>1, <2>2 DEF OneInv, AskedOK
  <1>7. LoginsOK'
    <2> SUFFICES ASSUME NEW i \in Places, Q'[i].cmd = "login"
        PROVE /\ ~conn'[Q'[i].e].up /\ Q'[i].by = NoOne
              /\ \A j \in Places : Q'[j].cmd = "login" /\ Q'[j].e = Q'[i].e => j = i
              /\ \A j \in Places : Own(Q'[j]) /\ Q'[j].e = Q'[i].e => j < i
              /\ Q'[i].at = "done" => /\ Q'[i].got[2] \in Gpos
                                      /\ (Q'[i].got[1] = NoGuild <=> Q'[i].got[2] = GUILD_POS_NONE)
      BY <1>1 DEF LoginsOK
    <2>1. ~conn[Q[i].e].up /\ Q[i].by = NoOne
      BY <1>2 DEF OneInv, LoginsOK
    <2>2. ~conn'[Q'[i].e].up /\ Q'[i].by = NoOne
      BY <1>1, <1>2, <2>1
    <2>3. QED
      BY <1>2, <2>2 DEF OneInv, LoginsOK
  <1>8. QED
    BY <1>3, <1>4, <1>5, <1>6, <1>7 DEF OneInv

LEMMA StillOne ==
    ASSUME OneInv, UNCHANGED <<status, conn, map, queue>>
    PROVE  OneInv'
  <1>1. Q' = Q /\ Places' = Places /\ status' = status /\ conn' = conn /\ map' = map
    BY DEF Q, Places
  <1>2. \A e : \A j \in Places : (Taken(e, j)' <=> Taken(e, j)) /\ (ReadIn(e, j)' <=> ReadIn(e, j))
    BY <1>1 DEF Taken, ReadIn
  <1>3. ChainOK'
    <2>1. \A e, p, b : (Anchor(e, p, b)' <=> Anchor(e, p, b)) /\ (Chain(e, p, b)' <=> Chain(e, p, b))
      BY <1>1, <1>2 DEF Anchor, Chain
    <2>2. QED
      BY <1>1, <2>1 DEF OneInv, ChainOK
  <1>4. BeforeOK'
    BY <1>1, <1>2 DEF OneInv, BeforeOK
  <1>5. PosOK' /\ AskedOK' /\ LoginsOK' /\ ListOK(conn, map)'
    BY <1>1 DEF OneInv, PosOK, AskedOK, LoginsOK, ListOK, Listed
  <1>6. QED
    BY <1>3, <1>4, <1>5 DEF OneInv

BusyNow(c, d, e, busy) ==
    /\ Rows(d) /\ \A u \in User : Seen(c, d, u)
    /\ d[e].busy = busy /\ d[e].gold = c[e].gold /\ \A u \in User \ {e} : d[u] = c[u]

LEMMA BusyIs ==
    ASSUME NEW c, Rows(c), NEW e \in User, NEW busy
    PROVE  BusyNow(c, [c EXCEPT ![e].busy = busy], e, busy)
  <1>0. PICK d : d = [c EXCEPT ![e].busy = busy]
    OBVIOUS
  <1>1. PICK row : row = [c[e] EXCEPT !.busy = busy]
    OBVIOUS
  <1>2. row.up = c[e].up /\ row.gid = c[e].gid /\ row.gpos = c[e].gpos /\ row.gold = c[e].gold /\ row.busy = busy
    BY <1>1 DEF Rows
  <1>3. DOMAIN d = User /\ \A u \in User : d[u] = IF u = e THEN row ELSE c[u]
    BY <1>0, <1>1 DEF Rows
  <1>4. Rows([c EXCEPT ![e].busy = busy])
    BY RowsBusy
  <1>5. BusyNow(c, d, e, busy)
    BY <1>0, <1>2, <1>3, <1>4 DEF Seen, BusyNow
  <1>6. QED
    BY <1>0, <1>5

\* A command of e, as it is put into the queue of the one worker.
LEMMA DbinEnters ==
    ASSUME TInv, threads = 1, NEW e \in User, NEW r, ReqOK(r), r.at = "new", r.good = FALSE,
           r.cmd = "bonus" => r.e = e, DbinWrite(e, r)
    PROVE  Entered(r) /\ BusyNow(conn, conn', e, TRUE)
  <1>1. Thread = {0} /\ Len(Q) \in Nat /\ \A j \in Places : ReqOK(Q[j])
    BY QueueIs
  <1>2. e % threads = 0
    BY <1>1, ThreadOf DEF TInv, QueueOK
  <1>3. /\ queue' = [queue EXCEPT ![e % threads] = Append(@, r)] /\ conn' = [conn EXCEPT ![e].busy = TRUE]
        /\ threads' = threads
    BY DEF DbinWrite
  <1>4. /\ Len(queue'[0]) = Len(queue[0]) + 1 /\ queue'[0][Len(queue[0]) + 1] = r
        /\ \A j \in 1 .. Len(queue[0]) : queue'[0][j] = queue[0][j]
    <2>1. r.cmd = "bonus" => 0 = r.e % threads
      BY <1>2
    <2>2. queue' = [queue EXCEPT ![0] = Append(@, r)] /\ 0 \in Thread
      BY <1>1, <1>2, <1>3
    <2>3. QED
      BY <1>3, <2>1, <2>2, AddQueue DEF TInv
  <1>5. Entered(r)
    BY <1>1, <1>4 DEF Entered, Q, Places
  <1>6. BusyNow(conn, [conn EXCEPT ![e].busy = TRUE], e, TRUE)
    BY BusyIs DEF TInv, ConnOK
  <1>7. QED
    BY <1>3, <1>5, <1>6

LEMMA DbinOne ==
    ASSUME TInv, MInv, NEW e \in User, NEW cmd, NEW t \in User, NEW g \in User \cup {NoGuild}, NEW x, NEW max,
           DbinWrite(e, NewRequest(cmd, e, t, g, x, max)), cmd # "login",
           cmd \in {"create", "deposit"} => x \in Int,
           cmd = "gpos" => x \in {GUILD_POS_SENIOR, GUILD_POS_MEMBER} /\ g \in User,
           cmd = "gquit" => g \in User,
           cmd = "bonus" => t = e,
           cmd \in {"create", "apply"} => t = e /\ conn[e].gid = NoGuild,
           cmd \in {"create", "delete"} => t = e /\ g = e,
           cmd = "apply" => g # NoGuild
    PROVE  MInv'
  <1>1. PICK r : r = NewRequest(cmd, e, t, g, x, max)
    OBVIOUS
  <1>2. ReqOK(r) /\ r.at = "new" /\ r.cmd = cmd /\ r.e = t
    BY <1>1, NewOK
  <1>3. r.by = e /\ r.g = g /\ r.good = FALSE
    BY <1>1 DEF NewRequest
  <1>4. DbinWrite(e, r) /\ conn[e].up /\ ~conn[e].busy /\ UNCHANGED <<threads, status, map>>
    BY <1>1 DEF DbinWrite
  <1>5. ASSUME threads = 1 PROVE OneInv'
    <2>1. Entered(r) /\ BusyNow(conn, conn', e, TRUE)
      BY <1>2, <1>3, <1>4, <1>5, DbinEnters
    <2>2. /\ \A u \in User : Seen(conn, conn', u)
          /\ conn'[e].busy = TRUE /\ \A u \in User \ {e} : conn'[u] = conn[u]
      BY <2>1 DEF BusyNow
    <2>3. Command(e, r)
      BY <1>2, <1>3, <1>4, <2>2 DEF Command, Own, BusyKept
    <2>4. \A j \in Places : Q[j].e \in User
      BY <1>5, QueueIs DEF ReqOK
    <2>5. MemKept
      BY <1>4 DEF MemKept
    <2>6. QED
      BY <1>2, <1>4, <1>5, <2>1, <2>2, <2>3, <2>4, <2>5, EnteredOne DEF MInv
  <1>6. QED
    BY <1>4, <1>5 DEF MInv

LEMMA DbinLists ==
    ASSUME TInv, MInv, NEW e \in User, NEW t \in User,
           \/ DbinCreateGuild(e) \/ DbinDeleteGuild(e) \/ DbinGdeposit(e, 1) \/ DbinGbonus(e)
           \/ DbinGlv(e) \/ DbinGlevelup(e) \/ DbinGapply(e, t) \/ DbinGquit(e, t)
           \/ DbinGpos(e, t, GUILD_POS_SENIOR) \/ DbinGpos(e, t, GUILD_POS_MEMBER)
    PROVE  MInv'
  <1> PICK g : g = conn[e].gid
    OBVIOUS
  <1>0. CreateGold \in Int /\ g \in User \cup {NoGuild} /\ 1 \in Int
    BY GuildAssumption DEF TInv, ConnOK, Rows
  <1>1. CASE DbinCreateGuild(e)
    BY <1>0, <1>1, DbinOne DEF DbinCreateGuild
  <1>2. CASE DbinDeleteGuild(e)
    BY <1>2, DbinOne DEF DbinDeleteGuild
  <1>3. CASE DbinGdeposit(e, 1)
    BY <1>0, <1>3, DbinOne DEF DbinGdeposit
  <1>4. CASE DbinGbonus(e)
    BY <1>4, DbinOne DEF DbinGbonus
  <1>5. CASE DbinGlv(e)
    BY <1>0, <1>5, DbinOne DEF DbinGlv
  <1>6. CASE DbinGlevelup(e)
    BY <1>6, DbinOne DEF DbinGlevelup
  <1>7. CASE DbinGapply(e, t)
    BY <1>7, DbinOne, Nobody DEF DbinGapply
  <1>8. CASE DbinGquit(e, t)
    <2>1. g \in User
      BY <1>0, <1>8 DEF DbinGquit
    <2>2. \E max : DbinWrite(e, NewRequest("gquit", e, t, g, 0, max))
      BY <1>8 DEF DbinGquit
    <2>3. QED
      BY <2>1, <2>2, DbinOne
  <1>9. ASSUME NEW pos \in {GUILD_POS_SENIOR, GUILD_POS_MEMBER}, DbinGpos(e, t, pos) PROVE MInv'
    <2>1. g \in User
      BY <1>0, <1>9 DEF DbinGpos
    <2>2. \E max : DbinWrite(e, NewRequest("gpos", e, t, g, pos, max))
      BY <1>9 DEF DbinGpos
    <2>3. QED
      BY <2>1, <2>2, DbinOne
  <1>10. QED
    BY <1>1, <1>2, <1>3, <1>4, <1>5, <1>6, <1>7, <1>8, <1>9

LEMMA LoginOne ==
    ASSUME TInv, MInv, NEW e \in User, NEW th \in Thread, DbinLogin(e, th)
    PROVE  MInv'
  <1>1. PICK r : r = NewRequest("login", NoOne, e, NoGuild, 0, 0)
    OBVIOUS
  <1>2. ReqOK(r) /\ r.at = "new" /\ r.cmd = "login" /\ r.e = e
    BY <1>1, NewOK
  <1>3. r.by = NoOne /\ r.good = FALSE
    BY <1>1 DEF NewRequest
  <1>4. /\ queue' = [queue EXCEPT ![th] = Append(@, r)] /\ ~conn[e].up
        /\ UNCHANGED <<threads, status, map, conn>>
    BY <1>1 DEF DbinLogin, tables, main
  <1>5. ASSUME threads = 1 PROVE OneInv'
    <2>1. Thread = {0} /\ th = 0 /\ Len(Q) \in Nat /\ \A j \in Places : ReqOK(Q[j])
      BY <1>5, QueueIs
    <2>2. Entered(r)
      <3>1. /\ Len(queue'[0]) = Len(queue[0]) + 1 /\ queue'[0][Len(queue[0]) + 1] = r
            /\ \A j \in 1 .. Len(queue[0]) : queue'[0][j] = queue[0][j]
        BY <1>2, <1>4, <2>1, AddQueue DEF TInv
      <3>2. QED
        BY <1>2, <1>3, <2>1, <3>1 DEF Entered, Q, Places
    <2>3. \A j \in Places : ~(Q[j].cmd = "login" /\ Q[j].e = e)
      <3>1. ASSUME NEW j \in Places PROVE Q[j] \in UnderWay
        <4>1. <<0, j>> \in Requests
          BY <2>1, <3>1 DEF Requests, Places, Q
        <4>2. At(<<0, j>>) = Q[j]
          BY DEF At, Q
        <4>3. QED
          BY <4>1, <4>2 DEF UnderWay
      <3>2. QED
        BY <3>1 DEF DbinLogin
    <2>4. LoginAsked(r)
      BY <1>2, <1>3, <1>4, <2>3 DEF LoginAsked, BusyKept
    <2>5. \A j \in Places : Q[j].e \in User
      BY <2>1 DEF ReqOK
    <2>6. MemKept /\ \A u \in User : Seen(conn, conn', u)
      BY <1>4 DEF MemKept, Seen
    <2>7. QED
      BY <1>2, <1>4, <1>5, <2>2, <2>4, <2>5, <2>6, EnteredOne DEF MInv
  <1>6. QED
    BY <1>4, <1>5 DEF MInv

----------------------------------------------------------------------------
(* The lists.                                                              *)

\* d is m, but for the list of g.
MemSet(m, d, g, M) == MapShape(d) /\ \A h \in User : d[h].mem = IF h = g THEN M ELSE m[h].mem

LEMMA MemPut ==
    ASSUME NEW m, MapShape(m), NEW g \in User, NEW M
    PROVE  MemSet(m, [m EXCEPT ![g].mem = M], g, M)
  <1>0. PICK d : d = [m EXCEPT ![g].mem = M]
    OBVIOUS
  <1>1. PICK row : row = [m[g] EXCEPT !.mem = M]
    OBVIOUS
  <1>2. DOMAIN row = {"mem", "glevel", "gold"} /\ row.mem = M
    BY <1>1 DEF MapShape
  <1>3. DOMAIN d = User /\ \A h \in User : d[h] = IF h = g THEN row ELSE m[h]
    BY <1>0, <1>1 DEF MapShape
  <1>4. MemSet(m, d, g, M)
    BY <1>2, <1>3 DEF MapShape, MemSet
  <1>5. QED
    BY <1>0, <1>4

LEMMA MapClear ==
    ASSUME NEW m, MapShape(m), NEW g \in User
    PROVE  MemSet(m, [m EXCEPT ![g] = NotLoaded], g, {})
  <1>0. PICK d : d = [m EXCEPT ![g] = NotLoaded]
    OBVIOUS
  <1>1. DOMAIN d = User /\ \A h \in User : d[h] = IF h = g THEN NotLoaded ELSE m[h]
    BY <1>0 DEF MapShape
  <1>2. DOMAIN NotLoaded = {"mem", "glevel", "gold"} /\ NotLoaded.mem = {}
    BY DEF NotLoaded
  <1>3. MemSet(m, d, g, {})
    BY <1>1, <1>2 DEF MapShape, MemSet
  <1>4. QED
    BY <1>0, <1>3

\* What a reply says of the level and the gold of a guild.
MemSame(m, d) == MapShape(d) /\ \A h \in User : d[h].mem = m[h].mem

LEMMA MapLevel ==
    ASSUME NEW m, MapShape(m), NEW g, NEW v
    PROVE  MemSame(m, [m EXCEPT ![g].glevel = v]) /\ MemSame(m, [m EXCEPT ![g].gold = v])
  <1>0. PICK d : d = [m EXCEPT ![g].glevel = v]
    OBVIOUS
  <1>1. PICK row : row = [m[g] EXCEPT !.glevel = v]
    OBVIOUS
  <1>2. g \in User => DOMAIN row = {"mem", "glevel", "gold"} /\ row.mem = m[g].mem
    BY <1>1 DEF MapShape
  <1>3. DOMAIN d = User /\ \A h \in User : d[h] = IF h = g THEN row ELSE m[h]
    BY <1>0, <1>1 DEF MapShape
  <1>4. MemSame(m, d)
    BY <1>2, <1>3 DEF MapShape, MemSame
  <1>5. PICK f : f = [m EXCEPT ![g].gold = v]
    OBVIOUS
  <1>6. PICK gow : gow = [m[g] EXCEPT !.gold = v]
    OBVIOUS
  <1>7. g \in User => DOMAIN gow = {"mem", "glevel", "gold"} /\ gow.mem = m[g].mem
    BY <1>6 DEF MapShape
  <1>8. DOMAIN f = User /\ \A h \in User : f[h] = IF h = g THEN gow ELSE m[h]
    BY <1>5, <1>6 DEF MapShape
  <1>9. MemSame(m, f)
    BY <1>7, <1>8 DEF MapShape, MemSame
  <1>10. QED
    BY <1>0, <1>4, <1>5, <1>9

\* d is m with e added to the list of g, or taken out of it.
Added(m, d, g, e) == MapShape(d) /\ \A h \in User : d[h].mem = IF h = g THEN m[h].mem \cup {e} ELSE m[h].mem
Dropt(m, d, g, e) == MapShape(d) /\ \A h \in User : d[h].mem = IF h = g THEN m[h].mem \ {e} ELSE m[h].mem

LEMMA AddIs ==
    ASSUME NEW m, MapShape(m), NEW g \in User \cup {NoGuild}, NEW e
    PROVE  Added(m, GidAddEid(m, g, e), g, e)
  <1>1. CASE g = NoGuild
    BY <1>1, Nobody DEF GidAddEid, Added
  <1>2. CASE g \in User
    <2>1. g # NoGuild
      BY <1>2, Nobody
    <2>2. MemSet(m, [m EXCEPT ![g].mem = m[g].mem \cup {e}], g, m[g].mem \cup {e})
      BY <1>2, MemPut
    <2>3. MemSet(m, GidAddEid(m, g, e), g, m[g].mem \cup {e})
      BY <2>1, <2>2 DEF GidAddEid
    <2>4. QED
      BY <2>3 DEF MemSet, Added
  <1>3. QED
    BY <1>1, <1>2

LEMMA DelIs ==
    ASSUME NEW m, MapShape(m), NEW g \in User \cup {NoGuild}, NEW e
    PROVE  Dropt(m, GidDelEid(m, g, e), g, e)
  <1>1. CASE g = NoGuild
    BY <1>1, Nobody DEF GidDelEid, Dropt
  <1>2. CASE g \in User /\ e \notin m[g].mem
    <2>1. GidDelEid(m, g, e) = m
      BY <1>2 DEF GidDelEid
    <2>2. m[g].mem \ {e} = m[g].mem
      BY <1>2
    <2>3. QED
      BY <2>1, <2>2 DEF Dropt
  <1>3. CASE g \in User /\ e \in m[g].mem /\ m[g].mem = {e}
    <2>1. g # NoGuild
      BY <1>3, Nobody
    <2>2. MemSet(m, [m EXCEPT ![g] = NotLoaded], g, {})
      BY <1>3, MapClear
    <2>3. MemSet(m, GidDelEid(m, g, e), g, {}) /\ m[g].mem \ {e} = {}
      BY <1>3, <2>1, <2>2 DEF GidDelEid
    <2>4. QED
      BY <2>3 DEF MemSet, Dropt
  <1>4. CASE g \in User /\ e \in m[g].mem /\ m[g].mem # {e}
    <2>1. g # NoGuild
      BY <1>4, Nobody
    <2>2. MemSet(m, [m EXCEPT ![g].mem = m[g].mem \ {e}], g, m[g].mem \ {e})
      BY <1>4, MemPut
    <2>3. MemSet(m, GidDelEid(m, g, e), g, m[g].mem \ {e})
      BY <1>4, <2>1, <2>2 DEF GidDelEid
    <2>4. QED
      BY <2>3 DEF MemSet, Dropt
  <1>5. QED
    BY <1>1, <1>2, <1>3, <1>4

\* One user comes to be listed elsewhere, or nowhere.
OthersSeen(c, d, e) == \A u \in User \ {e} : Seen(c, d, u)
OneListed(m, n, d, e) ==
    \A h \in User : n[h].mem \ {e} = m[h].mem \ {e} /\ (e \in n[h].mem <=> Listed(d, e, h))

LEMMA ListOne ==
    ASSUME NEW c, NEW m, ListOK(c, m), NEW e \in User, NEW d, NEW n, OthersSeen(c, d, e), OneListed(m, n, d, e)
    PROVE  ListOK(d, n)
  <1> SUFFICES ASSUME NEW h \in User PROVE n[h].mem = {u \in User : Listed(d, u, h)}
    BY DEF ListOK
  <1>1. n[h].mem \ {e} = m[h].mem \ {e} /\ (e \in n[h].mem <=> Listed(d, e, h))
    BY DEF OneListed
  <1>2. m[h].mem = {u \in User : Listed(c, u, h)}
    BY DEF ListOK
  <1>3. \A u \in User : u # e => (Listed(c, u, h) <=> Listed(d, u, h))
    BY DEF Seen, Listed, OthersSeen
  <1>4. \A u : u \in n[h].mem => u \in User
    BY <1>1, <1>2
  <1>5. \A u \in User : u \in n[h].mem <=> Listed(d, u, h)
    BY <1>1, <1>2, <1>3
  <1>6. QED
    BY <1>4, <1>5

----------------------------------------------------------------------------
(* The replies.                                                            *)

\* q is the reply, c the connections with db_flag reset.
Hears(q, c) ==
    /\ q.e \in User /\ q.g \in User \cup {NoGuild} /\ Rows(c)
    /\ \A u \in User : Seen(conn, c, u) /\ c[u].gold = conn[u].gold /\ (u # q.by => c[u] = conn[u])

\* e is seen in guild g at position p, the others as they were.
Placed(c, d, e, g, p) ==
    /\ d[e].up = c[e].up /\ d[e].gid = g /\ d[e].gpos = p /\ d[e].busy = c[e].busy
    /\ \A u \in User \ {e} : d[u] = c[u]

LEMMA CacheIs ==
    ASSUME NEW c, Rows(c), NEW e \in User, NEW g, NEW p, c[e].up
    PROVE  Placed(c, Cache(c, e, g, p), e, g, p)
  <1>1. PICK row : row = [[c[e] EXCEPT !.gid = g] EXCEPT !.gpos = p]
    OBVIOUS
  <1>2. row.up = c[e].up /\ row.gid = g /\ row.gpos = p /\ row.busy = c[e].busy
    BY <1>1 DEF Rows
  <1>3. PICK d : d = [c EXCEPT ![e].gid = g, ![e].gpos = p]
    OBVIOUS
  <1>4. \A u \in User : d[u] = IF u = e THEN row ELSE c[u]
    BY <1>1, <1>3 DEF Rows
  <1>5. Placed(c, d, e, g, p)
    BY <1>2, <1>4 DEF Placed
  <1>6. QED
    BY <1>3, <1>5 DEF Cache

Kept(c, d) == \A u \in User : Seen(c, d, u) /\ d[u].busy = c[u].busy

LEMMA GoldIs ==
    ASSUME NEW c, Rows(c), NEW e, NEW v
    PROVE  Kept(c, [c EXCEPT ![e].gold = v])
  <1>1. PICK row : row = [c[e] EXCEPT !.gold = v]
    OBVIOUS
  <1>2. e \in User => row.up = c[e].up /\ row.gid = c[e].gid /\ row.gpos = c[e].gpos /\ row.busy = c[e].busy
    BY <1>1 DEF Rows
  <1>3. PICK d : d = [c EXCEPT ![e].gold = v]
    OBVIOUS
  <1>4. \A u \in User : d[u] = IF u = e THEN row ELSE c[u]
    BY <1>1, <1>3 DEF Rows
  <1>5. Kept(c, d)
    BY <1>2, <1>4 DEF Kept, Seen
  <1>6. QED
    BY <1>3, <1>5

Cleared(c, d, g) ==
    \A u \in User : IF c[u].up /\ u \in map[g].mem
                    THEN /\ d[u].up = c[u].up /\ d[u].gid = NoGuild /\ d[u].gpos = GUILD_POS_NONE
                         /\ d[u].busy = c[u].busy
                    ELSE d[u] = c[u]

LEMMA ClearIs ==
    ASSUME NEW c, Rows(c), NEW g
    PROVE  Cleared(c, GuildClear(c, g), g)
  <1> PICK d : d = GuildClear(c, g)
    OBVIOUS
  <1> SUFFICES ASSUME NEW u \in User
               PROVE IF c[u].up /\ u \in map[g].mem
                     THEN /\ d[u].up = c[u].up /\ d[u].gid = NoGuild /\ d[u].gpos = GUILD_POS_NONE
                          /\ d[u].busy = c[u].busy
                     ELSE d[u] = c[u]
    BY DEF Cleared
  <1>1. PICK row : row = [c[u] EXCEPT !.gid = NoGuild, !.gpos = GUILD_POS_NONE]
    OBVIOUS
  <1>2. row.up = c[u].up /\ row.gid = NoGuild /\ row.gpos = GUILD_POS_NONE /\ row.busy = c[u].busy
    BY <1>1 DEF Rows
  <1>3. d[u] = IF c[u].up /\ u \in map[g].mem THEN row ELSE c[u]
    BY <1>1 DEF GuildClear
  <1>4. QED
    BY <1>2, <1>3

\* A reply that says nothing of who is in a guild.
LEMMA QuietReply ==
    ASSUME NEW q, NEW c, Hears(q, c), Kept(c, conn'), MemSame(map, map'), ListOK(conn, map),
           ~(Own(q) /\ Passed(q) /\ conn[q.e].up)
    PROVE  Heard(q) /\ ListOK(conn, map)'
  <1>1. \A u \in User : Seen(conn, conn', u) /\ (u # q.by => conn'[u].busy = conn[u].busy)
    BY DEF Hears, Kept, Seen
  <1>2. Heard(q)
    BY <1>1 DEF Heard, Hears, Dropped, GuildKept, BusyKept, Seen
  <1>3. ListOK(conn, map)'
    BY <1>1, ListSeen DEF MemSame, MemKept
  <1>4. QED
    BY <1>2, <1>3

\* One that gives its user a guild or takes it.
LEMMA PlacedReply ==
    ASSUME NEW q, NEW c, Hears(q, c), Passed(q), q.cmd \in {"create", "apply", "gpos", "gquit"}, conn[q.e].up,
           NEW p, Placed(c, conn', q.e, IF q.cmd = "gquit" THEN NoGuild ELSE q.g, p)
    PROVE  Heard(q) /\ OthersSeen(conn, conn', q.e)
  <1>1. \A u \in User \ {q.e} : Seen(conn, conn', u) /\ (u # q.by => conn'[u].busy = conn[u].busy)
    BY DEF Hears, Placed, Seen
  <1>2. conn'[q.e].up /\ (q.e # q.by => conn'[q.e].busy = conn[q.e].busy)
    BY DEF Hears, Placed, Seen
  <1>3. SetsGuild(q)
    BY <1>1, <1>2 DEF SetsGuild, GuildKept, Seen, Placed
  <1>4. QED
    BY <1>1, <1>2, <1>3 DEF Heard, BusyKept, Seen, Hears, OthersSeen

\* Who is told to be in or out of a guild is seen in it.
LEMMA ToldOf ==
    ASSUME NEW q, Shifted(q), OneInv, ConnOK, Passed(q), q.cmd \in {"gpos", "gquit"}, q.e \in User, conn[q.e].up
    PROVE  q.g = conn[q.e].gid /\ q.g # NoGuild
  <1> PICK e : e = q.e
    OBVIOUS
  <1>1. Changes(q) /\ 1 \in Places /\ Q[1] = q /\ 0 \in 0 .. Len(Q) /\ 1 > 0
    BY ShiftedPlaces DEF Changes, Shifted
  <1>2. \A i \in Places : ~Taken(e, i)
    <2>1. ASSUME NEW i \in Places, Taken(e, i) PROVE FALSE
      <3>1. i # 1
        BY <1>1, <2>1 DEF Taken, Own
      <3>2. 1 < i
        BY <3>1 DEF Places
      <3>3. QED
        BY <1>1, <2>1, <3>2 DEF OneInv, BeforeOK
    <2>2. QED
      BY <2>1
  <1>3. Anchor(e, 0, conn[e].gid) /\ conn[e].gid \in User \cup {NoGuild}
    BY <1>2 DEF Anchor, ConnOK, Rows
  <1>4. Chain(e, 0, conn[e].gid)
    BY <1>1, <1>3 DEF OneInv, ChainOK
  <1>5. QED
    BY <1>1, <1>4 DEF Chain

LEMMA CreateReply ==
    ASSUME NEW q, NEW c, Hears(q, c), Passed(q), q.cmd = "create", q.by = q.e, q.g = q.e, conn[q.e].up,
           conn[q.e].gid = NoGuild, MapShape(map), ListOK(conn, map), OutCreateGuild(q, c)
    PROVE  Heard(q) /\ MapShape(map') /\ ListOK(conn, map)'
  <1> PICK e \in User : e = q.e
    BY DEF Hears
  <1>1. Placed(c, conn', e, e, GUILD_POS_MASTER)
    <2>1. PICK row : row = [[[c[e] EXCEPT !.gid = e] EXCEPT !.gpos = GUILD_POS_MASTER] EXCEPT !.gold = c[e].gold - q.x]
      OBVIOUS
    <2>2. row.up = c[e].up /\ row.gid = e /\ row.gpos = GUILD_POS_MASTER /\ row.busy = c[e].busy
      BY <2>1 DEF Rows, Hears
    <2>3. \A u \in User : conn'[u] = IF u = e THEN row ELSE c[u]
      BY <2>1 DEF OutCreateGuild, Rows, Hears
    <2>4. QED
      BY <2>2, <2>3 DEF Placed
  <1>2. Heard(q) /\ OthersSeen(conn, conn', e)
    BY <1>1, PlacedReply
  <1>3. Added(map, map', e, e)
    BY AddIs DEF OutCreateGuild
  <1>4. \A h \in User : e \notin map[h].mem
    BY Nobody DEF ListOK, Listed
  <1>5. conn'[e].up /\ \A h \in User : Listed(conn', e, h) <=> h = e
    BY <1>1 DEF Placed, Listed, Membership, Hears, Seen
  <1>6. ListOK(conn', map')
    <2>1. OneListed(map, map', conn', e)
      BY <1>3, <1>4, <1>5 DEF Added, OneListed
    <2>2. QED
      BY <1>2, <2>1, ListOne
  <1>7. QED
    BY <1>2, <1>3, <1>6 DEF Added, ListOK, Listed

LEMMA ApplyReply ==
    ASSUME NEW q, NEW c, Hears(q, c), Passed(q), q.cmd = "apply", conn[q.e].up, q.g # NoGuild,
           conn[q.e].gid = NoGuild, MapShape(map), ListOK(conn, map), OutGapply(q, c)
    PROVE  Heard(q) /\ MapShape(map') /\ ListOK(conn, map)'
  <1> PICK e \in User : e = q.e
    BY DEF Hears
  <1>1. Placed(c, conn', e, q.g, GUILD_POS_APPLY)
    BY CacheIs DEF OutGapply, Hears, Seen
  <1>2. Heard(q) /\ OthersSeen(conn, conn', e)
    BY <1>1, PlacedReply
  <1>3. map' = map
    BY DEF OutGapply
  <1>4. \A h \in User : e \notin map[h].mem
    BY Nobody DEF ListOK, Listed
  <1>5. GUILD_POS_APPLY \notin Membership
    BY DEF GUILD_POS_APPLY, Membership, GUILD_POS_MASTER, GUILD_POS_SENIOR, GUILD_POS_MEMBER
  <1>6. \A h \in User : ~Listed(conn', e, h)
    BY <1>1, <1>5 DEF Placed, Listed
  <1>7. ListOK(conn', map)
    <2>1. OneListed(map, map, conn', e)
      BY <1>4, <1>6 DEF OneListed
    <2>2. QED
      BY <1>2, <2>1, ListOne
  <1>8. QED
    BY <1>2, <1>3, <1>7 DEF ListOK, Listed

\* A reply to an officer, about a user who may have gone by now.
LEMMA GposReply ==
    ASSUME NEW q, NEW c, Hears(q, c), Passed(q), q.cmd = "gpos", q.x \in {GUILD_POS_SENIOR, GUILD_POS_MEMBER},
           conn[q.e].up => q.g = conn[q.e].gid /\ q.g # NoGuild,
           MapShape(map), ListOK(conn, map), OutGpos(q, c)
    PROVE  Heard(q) /\ MapShape(map') /\ ListOK(conn, map)'
  <1> PICK e \in User : e = q.e
    BY DEF Hears
  <1>1. CASE ~conn[e].up
    <2>1. conn' = c /\ map' = map
      BY <1>1 DEF OutGpos, Cache, Hears, Seen
    <2>2. Kept(c, conn') /\ MemSame(map, map')
      BY <2>1 DEF Kept, Seen, MemSame
    <2>3. QED
      BY <1>1, <2>1, <2>2, QuietReply
  <1>2. CASE conn[e].up
    <2>1. Placed(c, conn', e, q.g, q.x)
      BY <1>2, CacheIs DEF OutGpos, Hears, Seen
    <2>2. Heard(q) /\ OthersSeen(conn, conn', e)
      BY <1>2, <2>1, PlacedReply
    <2>3. Added(map, map', q.g, e) /\ q.g \in User
      BY <1>2, AddIs DEF OutGpos, Hears
    <2>4. \A h \in User : h # q.g => e \notin map[h].mem
      BY <1>2 DEF ListOK, Listed
    <2>5. q.x \in Membership
      BY DEF Membership
    <2>6. \A h \in User : Listed(conn', e, h) <=> h = q.g
      BY <1>2, <2>1, <2>5 DEF Placed, Listed, Hears, Seen
    <2>7. ListOK(conn', map')
      <3>1. OneListed(map, map', conn', e)
        BY <2>3, <2>4, <2>6 DEF Added, OneListed
      <3>2. QED
        BY <2>2, <3>1, ListOne
    <2>8. QED
      BY <2>2, <2>3, <2>7 DEF Added, ListOK, Listed
  <1>3. QED
    BY <1>1, <1>2

LEMMA GquitReply ==
    ASSUME NEW q, NEW c, Hears(q, c), Passed(q), q.cmd = "gquit",
           conn[q.e].up => q.g = conn[q.e].gid /\ q.g # NoGuild,
           MapShape(map), ListOK(conn, map), OutGquit(q, c)
    PROVE  Heard(q) /\ MapShape(map') /\ ListOK(conn, map)'
  <1> PICK e \in User : e = q.e
    BY DEF Hears
  <1>1. CASE ~conn[e].up
    <2>1. conn' = c /\ map' = map
      BY <1>1 DEF OutGquit, Cache, Hears, Seen
    <2>2. Kept(c, conn') /\ MemSame(map, map')
      BY <2>1 DEF Kept, Seen, MemSame
    <2>3. QED
      BY <1>1, <2>1, <2>2, QuietReply
  <1>2. CASE conn[e].up
    <2>1. Placed(c, conn', e, NoGuild, GUILD_POS_NONE)
      BY <1>2, CacheIs DEF OutGquit, Hears, Seen
    <2>2. Heard(q) /\ OthersSeen(conn, conn', e)
      BY <1>2, <2>1, PlacedReply
    <2>3. \A h \in User : ~Listed(conn', e, h)
      BY <2>1, Nobody DEF Placed, Listed
    <2>4. MapShape(map') /\ \A h \in User : map'[h].mem = map[h].mem \ {e}
      <3>1. CASE conn[e].gpos # GUILD_POS_APPLY
        <4>1. Dropt(map, map', q.g, e)
          BY <1>2, <3>1, DelIs DEF OutGquit, Hears
        <4>2. \A h \in User : h # q.g => e \notin map[h].mem
          BY <1>2 DEF ListOK, Listed
        <4>3. QED
          BY <4>1, <4>2 DEF Dropt
      <3>2. CASE conn[e].gpos = GUILD_POS_APPLY
        <4>1. GUILD_POS_APPLY \notin Membership
          BY DEF GUILD_POS_APPLY, Membership, GUILD_POS_MASTER, GUILD_POS_SENIOR, GUILD_POS_MEMBER
        <4>2. map' = map /\ \A h \in User : e \notin map[h].mem
          BY <3>2, <4>1 DEF OutGquit, ListOK, Listed
        <4>3. QED
          BY <4>2
      <3>3. QED
        BY <3>1, <3>2
    <2>5. ListOK(conn', map')
      <3>1. OneListed(map, map', conn', e)
        BY <2>3, <2>4 DEF OneListed
      <3>2. QED
        BY <2>2, <3>1, ListOne
    <2>6. QED
      BY <2>2, <2>4, <2>5 DEF ListOK, Listed
  <1>3. QED
    BY <1>1, <1>2

LEMMA DeleteReply ==
    ASSUME NEW q, NEW c, Hears(q, c), Passed(q), q.cmd = "delete", q.by = q.e, conn[q.e].up, q.g \in User,
           MapShape(map), ListOK(conn, map), OutDeleteGuild(q, c)
    PROVE  Heard(q) /\ MapShape(map') /\ ListOK(conn, map)'
  <1> PICK e \in User : e = q.e
    BY DEF Hears
  <1>1. CASE conn[e].gid # q.g
    <2>1. conn' = c /\ map' = map
      BY <1>1 DEF OutDeleteGuild
    <2>2. Kept(c, conn') /\ MemSame(map, map')
      BY <2>1 DEF Kept, Seen, MemSame
    <2>3. ~Own(q)
      BY DEF Own
    <2>4. QED
      BY <2>1, <2>2, <2>3, QuietReply
  <1>2. CASE conn[e].gid = q.g
    <2> PICK z : z = GuildClear(c, q.g)
      OBVIOUS
    <2>1. Cleared(c, z, q.g) /\ Rows(z)
      BY ClearIs, RowsClear DEF Hears
    <2>2. z[e].up
      BY <2>1 DEF Cleared, Hears, Seen
    <2>3. Placed(z, conn', e, NoGuild, GUILD_POS_NONE)
      BY <1>2, <2>1, <2>2, CacheIs DEF OutDeleteGuild
    <2>4. MemSet(map, map', q.g, {})
      BY <1>2, MapClear DEF OutDeleteGuild
    <2>5. ASSUME NEW u \in User
          PROVE  /\ conn'[u].up = conn[u].up
                 /\ IF u = e \/ (conn[u].up /\ u \in map[q.g].mem)
                    THEN conn'[u].gid = NoGuild /\ conn[u].up /\ conn[u].gid = q.g
                    ELSE Seen(conn, conn', u)
                 /\ u # e => conn'[u].busy = conn[u].busy
      <3>1. CASE u = e
        BY <1>2, <2>1, <2>3, <3>1 DEF Placed, Cleared, Hears, Seen
      <3>2. CASE u # e
        <4>1. conn'[u] = z[u] /\ c[u] = conn[u]
          BY <2>3, <3>2 DEF Placed, Hears
        <4>2. u \in map[q.g].mem => conn[u].gid = q.g
          BY DEF ListOK, Listed
        <4>3. QED
          BY <2>1, <3>2, <4>1, <4>2 DEF Cleared, Seen
      <3>3. QED
        BY <3>1, <3>2
    <2>6. Clears(q)
      BY <2>5, Nobody DEF Clears, GuildKept, Seen
    <2>7. Heard(q)
      BY <2>5, <2>6 DEF Heard, BusyKept, Hears
    <2>8. ListOK(conn', map')
      <3> SUFFICES ASSUME NEW h \in User PROVE map'[h].mem = {u \in User : Listed(conn', u, h)}
        BY DEF ListOK
      <3>1. h \in User /\ h # NoGuild
        BY Nobody
      <3>2. CASE h = q.g
        <4>1. \A u \in User : ~Listed(conn', u, h)
          BY <2>5, <3>1, <3>2 DEF Listed, Seen, ListOK
        <4>2. QED
          BY <2>4, <3>2, <4>1 DEF MemSet
      <3>3. CASE h # q.g
        <4>1. \A u \in User : Listed(conn', u, h) <=> Listed(conn, u, h)
          BY <2>5, <3>1, <3>3 DEF Listed, Seen
        <4>2. map'[h].mem = {u \in User : Listed(conn, u, h)}
          BY <2>4, <3>3 DEF MemSet, ListOK
        <4>3. QED
          BY <4>1, <4>2
      <3>4. QED
        BY <3>2, <3>3
    <2>9. QED
      BY <2>4, <2>7, <2>8 DEF MemSet, ListOK, Listed
  <1>3. QED
    BY <1>1, <1>2

LEMMA LoginReply ==
    ASSUME NEW q, NEW c, Hears(q, c), q.cmd = "login", ~conn[q.e].up, q.by = NoOne, c = conn,
           q.got[1] \in User \cup {NoGuild}, q.got[2] \in Gpos, q.got[1] = NoGuild <=> q.got[2] = GUILD_POS_NONE,
           MapShape(map), ListOK(conn, map), OutLogin(q, c)
    PROVE  Heard(q) /\ MapShape(map') /\ ListOK(conn, map)'
  <1> PICK e \in User : e = q.e
    BY DEF Hears
  <1> PICK g \in User \cup {NoGuild} : g = q.got[1]
    OBVIOUS
  <1>1. /\ conn'[e].up /\ conn'[e].gid = g /\ conn'[e].gpos = q.got[2]
        /\ \A u \in User \ {e} : conn'[u] = conn[u]
    <2>1. PICK row : row = [up |-> TRUE, gid |-> g, gpos |-> q.got[2], gold |-> q.got[3], busy |-> FALSE]
      OBVIOUS
    <2>2. \A u \in User : conn'[u] = IF u = e THEN row ELSE conn[u]
      BY <2>1 DEF OutLogin, Rows, Hears
    <2>3. QED
      BY <2>1, <2>2
  <1>2. OthersSeen(conn, conn', e)
    BY <1>1 DEF OthersSeen, Seen
  <1>3. Heard(q)
    BY <1>1 DEF Heard, Hears, Enters, GuildKept, BusyKept
  <1>4. g # NoGuild /\ q.got[2] # GUILD_POS_APPLY <=> g \in User /\ q.got[2] \in Membership
    <2>1. Gpos = Membership \cup {GUILD_POS_NONE, GUILD_POS_APPLY} /\ GUILD_POS_APPLY \notin Membership
          /\ GUILD_POS_NONE \notin Membership
      BY DEF Gpos, Membership, GUILD_POS_NONE, GUILD_POS_APPLY, GUILD_POS_MASTER, GUILD_POS_SENIOR, GUILD_POS_MEMBER
    <2>2. QED
      BY <2>1, Nobody
  <1>5. \A h \in User : e \notin map[h].mem
    BY DEF ListOK, Listed
  <1>6. MapShape(map') /\ OneListed(map, map', conn', e)
    <2>1. CASE g # NoGuild /\ q.got[2] # GUILD_POS_APPLY
      <3> PICK m : m = GidAddEid(map, g, e)
        OBVIOUS
      <3>1. Added(map, m, g, e)
        BY AddIs
      <3>2. MemSame(m, map')
        <4>1. map' = [m EXCEPT ![g].glevel = q.got[4]]
          BY <2>1 DEF OutLogin
        <4>2. MemSame(m, [m EXCEPT ![g].glevel = q.got[4]])
          BY <3>1, MapLevel DEF Added
        <4>3. QED
          BY <4>1, <4>2
      <3>3. \A h \in User : Listed(conn', e, h) <=> h = g
        BY <1>1, <1>4, <2>1 DEF Listed
      <3>4. QED
        BY <1>5, <3>1, <3>2, <3>3 DEF MemSame, Added, OneListed
    <2>2. CASE ~(g # NoGuild /\ q.got[2] # GUILD_POS_APPLY)
      <3>1. map' = map
        BY <2>2 DEF OutLogin
      <3>2. \A h \in User : ~Listed(conn', e, h)
        BY <1>1, <1>4, <2>2 DEF Listed
      <3>3. QED
        BY <1>5, <3>1, <3>2 DEF OneListed
    <2>3. QED
      BY <2>1, <2>2
  <1>7. ListOK(conn', map')
    BY <1>2, <1>6, ListOne
  <1>8. QED
    BY <1>3, <1>6, <1>7 DEF ListOK, Listed

\* A reply that says nothing or that nobody hears, and what the others say.
Mute(q) == ~q.good \/ (q.by = NoOne /\ q.cmd # "login")
Answers(q, c) ==
    \/ q.cmd = "create" /\ OutCreateGuild(q, c)
    \/ q.cmd = "delete" /\ OutDeleteGuild(q, c)
    \/ q.cmd = "apply" /\ OutGapply(q, c)
    \/ q.cmd = "gpos" /\ OutGpos(q, c)
    \/ q.cmd = "gquit" /\ OutGquit(q, c)
    \/ q.cmd = "deposit" /\ OutGdeposit(q, c)
    \/ q.cmd = "bonus" /\ OutGbonus(q, c)
    \/ q.cmd = "glv" /\ OutGlv(q, c)
    \/ q.cmd = "glevelup" /\ OutGlevelup(q, c)
    \/ q.cmd = "login" /\ OutLogin(q, c)

LEMMA ReplyKinds ==
    ASSUME TInv, MInv, threads = 1, Dbout(0), NEW q, q = Q[1], Shifted(q)
    PROVE  \E c : /\ Hears(q, c) /\ (q.by = NoOne => c = conn)
                  /\ \/ Mute(q) /\ conn' = c /\ map' = map /\ lapse' = (lapse \/ q.good)
                     \/ ~Mute(q) /\ Passed(q) /\ Answers(q, c) /\ lapse' = lapse
  <1> PICK c : c = IF q.by = NoOne THEN conn ELSE [conn EXCEPT ![q.by].busy = FALSE]
    OBVIOUS
  <1>1. OneInv /\ ConnOK /\ ReqOK(q) /\ 1 \in Places /\ q.at = "done" /\ lapse \in BOOLEAN /\ q.good \in BOOLEAN
    BY QueueIs, ShiftedPlaces DEF MInv, OneInv, TInv, Shifted, AskedOK
  <1>2. Hears(q, c)
    <2>1. CASE q.by = NoOne
      <3>1. c = conn
        BY <2>1
      <3>2. QED
        BY <1>1, <3>1 DEF Hears, ReqOK, ConnOK, Seen
    <2>2. CASE q.by # NoOne
      <3>1. q.by \in User
        BY <1>1, <2>2 DEF OneInv, AskedOK
      <3>2. BusyNow(conn, [conn EXCEPT ![q.by].busy = FALSE], q.by, FALSE)
        BY <1>1, <3>1, BusyIs DEF ConnOK
      <3>3. BusyNow(conn, c, q.by, FALSE)
        BY <2>2, <3>2
      <3>4. QED
        BY <1>1, <3>3 DEF Hears, ReqOK, BusyNow
    <2>3. QED
      BY <2>1, <2>2
  <1>3. q = Head(queue[0])
    BY QueueIs DEF Q, Shifted
  <1>4. CASE Mute(q)
    <2>1. ~q.good \/ ~(q.by # NoOne \/ q.cmd = "login")
      BY <1>4 DEF Mute
    <2>2. conn' = c /\ map' = map /\ lapse' = (lapse \/ (q.good /\ ~(q.by # NoOne \/ q.cmd = "login")))
      BY <1>3, <2>1 DEF Dbout
    <2>3. QED
      BY <1>1, <1>2, <1>4, <2>1, <2>2
  <1>5. CASE ~Mute(q)
    <2>1. ~(~q.good \/ ~(q.by # NoOne \/ q.cmd = "login"))
      BY <1>5 DEF Mute
    <2>2. Answers(q, c) /\ lapse' = (lapse \/ (q.good /\ ~(q.by # NoOne \/ q.cmd = "login")))
      BY <1>3, <2>1 DEF Dbout, Answers
    <2>3. QED
      BY <1>1, <1>2, <1>5, <2>1, <2>2 DEF Passed
  <1>6. QED
    BY <1>4, <1>5

\* Whatever the reply is.
LEMMA ReplyHeard ==
    ASSUME TInv, MInv, threads = 1, Dbout(0), NEW q, q = Q[1], Shifted(q)
    PROVE  Heard(q) /\ MapShape(map') /\ ListOK(conn, map)'
  <1> PICK c : /\ Hears(q, c) /\ (q.by = NoOne => c = conn)
               /\ \/ Mute(q) /\ conn' = c /\ map' = map /\ lapse' = (lapse \/ q.good)
                  \/ ~Mute(q) /\ Passed(q) /\ Answers(q, c) /\ lapse' = lapse
    BY ReplyKinds
  <1>1. OneInv /\ MapShape(map) /\ ListOK(conn, map) /\ ConnOK /\ ReqOK(q) /\ 1 \in Places /\ q.at = "done"
    BY QueueIs, ShiftedPlaces DEF MInv, OneInv, TInv, Shifted
  <1>2. Hears(q, c)
    OBVIOUS
  <1>4. Own(q) /\ conn[q.e].up => q.by = q.e /\ q.by # NoOne
    BY <1>1, Nobody DEF OneInv, AskedOK, ReqOK
  <1>6. CASE Mute(q) /\ conn' = c /\ map' = map
    <2>1. Kept(c, conn') /\ MemSame(map, map')
      BY <1>1, <1>6 DEF Kept, Seen, MemSame
    <2>2. ~(Own(q) /\ Passed(q) /\ conn[q.e].up)
      BY <1>4, <1>6 DEF Passed, Mute, Own
    <2>3. QED
      BY <1>1, <1>2, <2>1, <2>2, QuietReply DEF MemSame
  <1>7. CASE q.cmd = "create" /\ OutCreateGuild(q, c) /\ Passed(q) /\ q.by # NoOne
    <2>1. q.by = q.e /\ conn[q.e].up /\ conn[q.e].gid = NoGuild /\ q.g = q.e
      BY <1>1, <1>7 DEF OneInv, AskedOK, Own
    <2>2. QED
      BY <1>1, <1>2, <1>7, <2>1, CreateReply
  <1>8. CASE q.cmd = "delete" /\ OutDeleteGuild(q, c) /\ Passed(q) /\ q.by # NoOne
    <2>1. q.by = q.e /\ conn[q.e].up /\ q.g \in User
      BY <1>1, <1>8 DEF OneInv, AskedOK, ReqOK
    <2>2. QED
      BY <1>1, <1>2, <1>8, <2>1, DeleteReply
  <1>9. CASE q.cmd = "apply" /\ OutGapply(q, c) /\ Passed(q) /\ q.by # NoOne
    <2>1. conn[q.e].up /\ conn[q.e].gid = NoGuild /\ q.g # NoGuild
      BY <1>1, <1>9 DEF OneInv, AskedOK, Own
    <2>2. QED
      BY <1>1, <1>2, <1>9, <2>1, ApplyReply
  <1>10. CASE q.cmd = "gpos" /\ OutGpos(q, c) /\ Passed(q)
    <2>1. q.x \in {GUILD_POS_SENIOR, GUILD_POS_MEMBER} /\ (conn[q.e].up => q.g = conn[q.e].gid /\ q.g # NoGuild)
      BY <1>1, <1>10, ToldOf DEF ReqOK
    <2>2. QED
      BY <1>1, <1>2, <1>10, <2>1, GposReply
  <1>11. CASE q.cmd = "gquit" /\ OutGquit(q, c) /\ Passed(q)
    <2>1. conn[q.e].up => q.g = conn[q.e].gid /\ q.g # NoGuild
      BY <1>1, <1>11, ToldOf DEF ReqOK
    <2>2. QED
      BY <1>1, <1>2, <1>11, <2>1, GquitReply
  <1>12. CASE q.cmd \in {"deposit", "bonus"} /\ (OutGdeposit(q, c) \/ OutGbonus(q, c))
    <2>1. Kept(c, conn')
      <3>1. \E v : conn' = [c EXCEPT ![q.by].gold = v]
        BY <1>12 DEF OutGdeposit, OutGbonus
      <3>2. PICK v : conn' = [c EXCEPT ![q.by].gold = v]
        BY <3>1
      <3>3. Rows(c)
        BY <1>2 DEF Hears
      <3>4. Kept(c, [c EXCEPT ![q.by].gold = v])
        BY <3>3, GoldIs
      <3>5. QED
        BY <3>2, <3>4
    <2>2. MemSame(map, map') /\ ~Own(q)
      BY <1>1, <1>12 DEF OutGdeposit, OutGbonus, MemSame, Own
    <2>3. QED
      BY <1>1, <1>2, <2>1, <2>2, QuietReply DEF MemSame
  <1>13. CASE q.cmd \in {"glv", "glevelup"} /\ (OutGlv(q, c) \/ OutGlevelup(q, c))
    <2>1. Kept(c, conn') /\ ~Own(q)
      BY <1>13 DEF OutGlv, OutGlevelup, Kept, Seen, Own
    <2>2. MemSame(map, map')
      <3>1. PICK m, v, w : m = [map EXCEPT ![q.g].glevel = v] /\ map' = [m EXCEPT ![q.g].gold = w]
        <4>1. CASE OutGlv(q, c)
          <5>1. PICK m : m = [map EXCEPT ![q.g].glevel = q.got[1]]
            OBVIOUS
          <5>2. map' = [m EXCEPT ![q.g].gold = q.got[2]]
            BY <4>1, <5>1 DEF OutGlv
          <5>3. QED
            BY <5>1, <5>2
        <4>2. CASE OutGlevelup(q, c)
          <5>1. PICK m : m = [map EXCEPT ![q.g].glevel = q.x + 1]
            OBVIOUS
          <5>2. map' = [m EXCEPT ![q.g].gold = m[q.g].gold - LevelUpGold[q.x]]
            BY <4>2, <5>1 DEF OutGlevelup
          <5>3. QED
            BY <5>1, <5>2
        <4>3. QED
          BY <1>13, <4>1, <4>2
      <3>2. MemSame(map, [map EXCEPT ![q.g].glevel = v])
        BY <1>1, MapLevel
      <3>3. MemSame(map, m)
        BY <3>1, <3>2
      <3>a. MapShape(m)
        BY <3>3 DEF MemSame
      <3>4. MemSame(m, [m EXCEPT ![q.g].gold = w])
        BY <3>a, MapLevel
      <3>5. MemSame(m, map')
        BY <3>1, <3>4
      <3>6. QED
        BY <3>3, <3>5 DEF MemSame
    <2>3. QED
      BY <1>1, <1>2, <2>1, <2>2, QuietReply DEF MemSame
  <1>14. CASE q.cmd = "login" /\ OutLogin(q, c)
    <2>1. /\ ~conn[q.e].up /\ q.by = NoOne /\ q.got[1] \in User \cup {NoGuild} /\ q.got[2] \in Gpos
          /\ q.got[1] = NoGuild <=> q.got[2] = GUILD_POS_NONE
      BY <1>1, <1>14 DEF OneInv, LoginsOK, ReqOK
    <2>2. c = conn
      BY <2>1
    <2>3. QED
      BY <1>1, <1>2, <1>14, <2>1, <2>2, LoginReply
  <1>15. CASE Answers(q, c) /\ Passed(q) /\ ~Mute(q)
    <2>1. q.by # NoOne \/ q.cmd = "login"
      BY <1>15 DEF Mute, Passed
    <2>2. QED
      BY <1>7, <1>8, <1>9, <1>10, <1>11, <1>12, <1>13, <1>14, <1>15, <2>1 DEF Answers
  <1>16. QED
    BY <1>6, <1>15

LEMMA ReplyLists ==
    ASSUME TInv, MInv, NEW th \in Thread, Dbout(th)
    PROVE  threads = 1 => OneInv' /\ MapShape(map')
  <1> SUFFICES ASSUME threads = 1 PROVE OneInv' /\ MapShape(map')
    OBVIOUS
  <1>1. th = 0 /\ Len(Q) \in Nat /\ (\E S : Q \in Seq(S)) /\ \A j \in Places : ReqOK(Q[j])
    BY QueueIs
  <1>2. /\ Q # <<>> /\ Head(Q).at = "done" /\ queue' = [queue EXCEPT ![0] = Tail(@)]
        /\ threads' = threads /\ status' = status
    BY <1>1 DEF Dbout, Q, bounds, tables
  <1>3. /\ Len(queue'[0]) + 1 = Len(queue[0]) /\ QueueOK' /\ Thread' = Thread
        /\ \A j \in 1 .. Len(queue'[0]) : queue'[0][j] = queue[0][j + 1]
    BY <1>1, <1>2, TailQueue DEF TInv, Q, Thread
  <1>4. Len(Q') \in Nat
    BY <1>1, <1>3 DEF QueueOK, Q
  <1> PICK q : q = Q[1]
    OBVIOUS
  <1>5. Shifted(q)
    BY <1>1, <1>2, <1>3, <1>4 DEF Shifted, Q, Places
  <1>6. Heard(q) /\ MapShape(map') /\ ListOK(conn, map)'
    BY <1>1, <1>5, ReplyHeard
  <1>7. \A j \in Places : Q[j].e \in User
    BY <1>1 DEF ReqOK
  <1>8. OneInv'
    BY <1>2, <1>5, <1>6, <1>7, ReplyOne DEF MInv, TInv
  <1>9. QED
    BY <1>6, <1>8

\* With any number of workers the lists keep their shape.
LEMMA ReplyShape ==
    ASSUME TInv, MapShape(map), NEW th \in Thread, Dbout(th)
    PROVE  MapShape(map')
  <1> PICK q : q = Head(queue[th])
    OBVIOUS
  <1>1. ReqOK(q) /\ q.at = "done"
    <2>1. 1 \in 1 .. Len(queue[th]) /\ q = queue[th][1]
      BY DEF TInv, QueueOK, Dbout
    <2>2. QED
      BY <2>1 DEF TInv, QueueOK, Dbout
  <1>2. PICK c : \/ map' = map
                 \/ OutCreateGuild(q, c) \/ OutDeleteGuild(q, c) \/ OutGapply(q, c) \/ OutGpos(q, c)
                 \/ OutGquit(q, c) \/ OutGdeposit(q, c) \/ OutGbonus(q, c) \/ OutGlv(q, c)
                 \/ OutGlevelup(q, c) \/ (q.cmd = "login" /\ OutLogin(q, c))
    BY DEF Dbout
  <1>3. q.g \in User \cup {NoGuild}
    BY <1>1 DEF ReqOK
  <1>4. CASE \/ OutGapply(q, c) \/ OutGdeposit(q, c) \/ OutGbonus(q, c) \/ map' = map
    BY <1>4 DEF OutGapply, OutGdeposit, OutGbonus
  <1>5. CASE OutCreateGuild(q, c) \/ OutGpos(q, c)
    <2>1. PICK e : map' = map \/ map' = GidAddEid(map, q.g, e)
      BY <1>5 DEF OutCreateGuild, OutGpos
    <2>2. Added(map, GidAddEid(map, q.g, e), q.g, e)
      BY <1>3, AddIs
    <2>3. MapShape(GidAddEid(map, q.g, e))
      BY <2>2 DEF Added
    <2>4. QED
      BY <2>1, <2>3
  <1>6. CASE OutGquit(q, c)
    BY <1>3, <1>6, DelIs DEF OutGquit, Dropt
  <1>7. CASE OutDeleteGuild(q, c)
    <2>1. map' = map \/ map' = [map EXCEPT ![q.g] = NotLoaded]
      BY <1>7 DEF OutDeleteGuild
    <2>2. DOMAIN NotLoaded = {"mem", "glevel", "gold"}
      BY DEF NotLoaded
    <2>3. QED
      BY <2>1, <2>2 DEF MapShape
  <1>8. CASE OutGlv(q, c) \/ OutGlevelup(q, c)
    <2>1. \E m, v, w : m = [map EXCEPT ![q.g].glevel = v] /\ map' = [m EXCEPT ![q.g].gold = w]
      <3>1. CASE OutGlv(q, c)
        <4>1. PICK m : m = [map EXCEPT ![q.g].glevel = q.got[1]]
          OBVIOUS
        <4>2. map' = [m EXCEPT ![q.g].gold = q.got[2]]
          BY <3>1, <4>1 DEF OutGlv
        <4>3. QED
          BY <4>1, <4>2
      <3>2. CASE OutGlevelup(q, c)
        <4>1. PICK m : m = [map EXCEPT ![q.g].glevel = q.x + 1]
          OBVIOUS
        <4>2. map' = [m EXCEPT ![q.g].gold = m[q.g].gold - LevelUpGold[q.x]]
          BY <3>2, <4>1 DEF OutGlevelup
        <4>3. QED
          BY <4>1, <4>2
      <3>3. QED
        BY <1>8, <3>1, <3>2
    <2>2. PICK m, v, w : m = [map EXCEPT ![q.g].glevel = v] /\ map' = [m EXCEPT ![q.g].gold = w]
      BY <2>1
    <2>3. MemSame(map, [map EXCEPT ![q.g].glevel = v])
      BY MapLevel
    <2>4. MapShape(m)
      BY <2>2, <2>3 DEF MemSame
    <2>5. MemSame(m, [m EXCEPT ![q.g].gold = w])
      BY <2>4, MapLevel
    <2>6. QED
      BY <2>2, <2>5 DEF MemSame
  <1>9. CASE q.cmd = "login" /\ OutLogin(q, c)
    <2> PICK g \in User \cup {NoGuild} : g = q.got[1]
      BY <1>1, <1>9 DEF ReqOK
    <2> PICK m : m = GidAddEid(map, g, q.e)
      OBVIOUS
    <2>1. MapShape(m)
      BY AddIs DEF Added
    <2>2. MemSame(m, [m EXCEPT ![g].glevel = q.got[4]])
      BY <2>1, MapLevel
    <2>3. map' = map \/ map' = [m EXCEPT ![g].glevel = q.got[4]]
      BY <1>9 DEF OutLogin
    <2>4. QED
      BY <2>2, <2>3 DEF MemSame
  <1>10. QED
    BY <1>2, <1>4, <1>5, <1>6, <1>7, <1>8, <1>9

LEMMA CleanLists ==
    ASSUME TInv, MInv, NEW e \in User, DoClean(e)
    PROVE  MInv'
  <1>1. /\ conn[e].up /\ map' = GuildClean(map, e) /\ conn' = [conn EXCEPT ![e] = Offline]
        /\ queue' = [th \in Thread |-> [i \in 1 .. Len(queue[th]) |-> Unasked(queue[th][i], e)]]
        /\ threads' = threads /\ status' = status /\ ConnOK /\ MapShape(map)
    BY DEF DoClean, Unasked, tables, bounds, TInv, MInv
  <1>2. /\ ~conn'[e].up /\ \A u \in User \ {e} : conn'[u] = conn[u]
    BY <1>1 DEF ConnOK, Rows, Offline
  <1>3. conn[e].gid \in User \cup {NoGuild}
    BY <1>1 DEF ConnOK, Rows
  <1>4. map' = map \/ (conn[e].gpos \in Membership /\ Dropt(map, map', conn[e].gid, e))
    BY <1>1, <1>3, DelIs DEF GuildClean
  <1>5. MapShape(map')
    BY <1>1, <1>4 DEF Dropt
  <1>6. ASSUME threads = 1 PROVE OneInv'
    <2>1. 0 \in Thread /\ Len(Q) \in Nat /\ \A j \in Places : ReqOK(Q[j])
      BY <1>6, QueueIs
    <2> PICK n \in Nat : n = Len(Q)
      BY <2>1
    <2>2. Q' = [i \in 1 .. n |-> Unasked(Q[i], e)]
      BY <1>1, <2>1 DEF Q
    <2>3. Len(Q') = n
      BY <2>2
    <2>4. ASSUME NEW j \in Places PROVE Alike(Q'[j], Q[j]) /\ Q'[j].by = IF Q[j].by = e THEN NoOne ELSE Q[j].by
      <3>1. Q'[j] = Unasked(Q[j], e) /\ DOMAIN Q[j] = Fields
        BY <2>1, <2>2 DEF Places, ReqOK
      <3>2. QED
        BY <3>1 DEF Unasked, Fields, Alike
    <2>5. Gone(e)
      BY <1>1, <1>2, <2>3, <2>4 DEF Gone
    <2>6. OneInv /\ ListOK(conn, map)
      BY <1>6 DEF MInv, OneInv
    <2>7. OneListed(map, map', conn', e)
      <3>1. \A h \in User : ~Listed(conn', e, h)
        BY <1>2 DEF Listed
      <3>2. \A h \in User : e \in map[h].mem => h = conn[e].gid /\ conn[e].gpos \in Membership
        BY <2>6 DEF ListOK, Listed
      <3>3. CASE map' = map /\ conn[e].gpos \notin Membership
        BY <3>1, <3>2, <3>3 DEF OneListed
      <3>4. CASE Dropt(map, map', conn[e].gid, e)
        BY <3>1, <3>2, <3>4 DEF OneListed, Dropt
      <3>5. QED
        BY <1>1, <1>3, <1>4, <3>3, <3>4, DelIs DEF GuildClean
    <2>8. OthersSeen(conn, conn', e)
      BY <1>2 DEF OthersSeen, Seen
    <2>9. ListOK(conn', map')
      BY <2>6, <2>7, <2>8, ListOne
    <2>10. \A j \in Places : Q[j].e \in User
      BY <2>1 DEF ReqOK
    <2>11. QED
      BY <1>1, <2>5, <2>6, <2>9, <2>10, GoneOne DEF ListOK, Listed
  <1>7. QED
    BY <1>1, <1>5, <1>6 DEF MInv

LEMMA ListsStep == ASSUME TInv, MInv, [Next]_vars PROVE MInv'
  <1>1. CASE UNCHANGED <<threads, status, conn, map, queue>>
    BY <1>1, StillOne DEF MInv, MapShape
  <1>2. ASSUME NEW th \in Thread, Dbio(th) PROVE MInv'
    <2>1. PICK i \in 1 .. Len(queue[th]), ok \in BOOLEAN :
             Current(th, i) /\ Work(th, i, ok) /\ UNCHANGED <<threads, conn, map>>
      BY <1>2 DEF Dbio, Work
    <2>2. threads = 1 => OneInv'
      BY <2>1, OneTurn
    <2>3. QED
      BY <2>1, <2>2 DEF MInv, MapShape
  <1>3. ASSUME NEW th \in Thread, Dbout(th) PROVE MInv'
    <2>1. threads' = threads /\ MapShape(map')
      BY <1>3, ReplyShape DEF Dbout, bounds, MInv
    <2>2. QED
      BY <1>3, <2>1, ReplyLists DEF MInv
  <1>4. ASSUME Midnight PROVE MInv'
    BY <1>1, <1>4 DEF Midnight, main, bounds
  <1>5. CASE UNCHANGED vars
    BY <1>1, <1>5 DEF vars
  <1>6. QED
    BY <1>2, <1>3, <1>4, <1>5, DbinLists, LoginOne, CleanLists DEF Next

LEMMA ListsInit == ASSUME Init PROVE MInv
  <1>1. /\ status = First /\ DOMAIN First = User
        /\ conn = [e \in User |-> [up |-> TRUE, gid |-> First[e].gid, gpos |-> First[e].gpos,
                                   gold |-> First[e].gold, busy |-> FALSE]]
    BY GuildAssumption DEF Init
  <1>2. ASSUME NEW g \in User
        PROVE  /\ DOMAIN map[g] = {"mem", "glevel", "gold"}
               /\ map[g].mem = {e \in User : First[e].gid = g /\ First[e].gpos \in Membership}
    <2>1. CASE g \in FirstGuilds
      <3>1. PICK M : M = {e \in User : First[e].gid = g /\ First[e].gpos \in Membership}
        OBVIOUS
      <3>2. map[g] = [glevel |-> 1, gold |-> CreateGold, mem |-> M]
        BY <2>1, <3>1 DEF Init
      <3>3. QED
        BY <3>1, <3>2
    <2>2. CASE g \notin FirstGuilds
      <3>1. map[g] = NotLoaded
        BY <2>2, Zenon DEF Init
      <3>2. \A e \in User : First[e].gid # g
        BY <2>2, FirstAssumption, Nobody DEF FirstGuilds
      <3>3. QED
        BY <3>1, <3>2 DEF NotLoaded
    <2>3. QED
      BY <2>1, <2>2
  <1>3. MapShape(map)
    <2>1. DOMAIN map = User
      BY DEF Init
    <2>2. QED
      BY <1>2, <2>1 DEF MapShape
  <1>4. ListOK(conn, map)
    <2>1. \A e \in User : conn[e].up /\ conn[e].gid = First[e].gid /\ conn[e].gpos = First[e].gpos
      BY <1>1
    <2>2. QED
      BY <1>2, <2>1 DEF ListOK, Listed
  <1>5. PosOK
    BY <1>1, FirstAssumption DEF PosOK
  <1>6. ASSUME threads = 1 PROVE ChainOK /\ BeforeOK /\ AskedOK /\ LoginsOK
    <2>1. Q = <<>>
      <3>1. 0 \in Thread
        BY <1>6 DEF Thread
      <3>2. queue = [th \in Thread |-> <<>>]
        BY DEF Init
      <3>3. QED
        BY <3>1, <3>2, Zenon DEF Q
    <2>2. Len(Q) = 0
      BY <2>1
    <2>3. \A j \in Places : FALSE
      BY <2>2 DEF Places
    <2>4. ChainOK
      <3> SUFFICES ASSUME NEW e \in User, NEW p \in 0 .. Len(Q), NEW b \in User \cup {NoGuild}, Anchor(e, p, b)
                   PROVE  Chain(e, p, b)
        BY DEF ChainOK
      <3>1. b = conn[e].gid
        BY <2>3 DEF Anchor
      <3>2. b = status[e].gid
        BY <1>1, <3>1
      <3>3. QED
        BY <2>3, <3>2 DEF Chain
    <2>5. QED
      BY <2>3, <2>4 DEF BeforeOK, AskedOK, LoginsOK
  <1>7. QED
    BY <1>3, <1>4, <1>5, <1>6 DEF MInv, OneInv

\* With one worker g_guild_map lists exactly the members who are online, as
\* they are cached, whoever founds, joins, leaves, is removed, comes or goes
\* meanwhile, and whatever statement fails.
THEOREM MemberListStaysExact == Spec => []MemberListExact
  <1>1. Init => MInv
    BY ListsInit
  <1>2. TInv /\ MInv /\ [Next]_vars => MInv'
    BY ListsStep
  <1>3. MInv => MemberListExact
    BY DEF MInv, OneInv, ListOK, Listed, MemberListExact
  <1>4. QED
    BY <1>1, <1>2, <1>3, TypeInvariant, PTL DEF Spec

----------------------------------------------------------------------------
(* With one worker total_member covers the members.                        *)

\* Members below the master.
Held(g) == {e \in User : status[e].gid = g /\ status[e].gpos \in {GUILD_POS_SENIOR, GUILD_POS_MEMBER}}

\* The request has counted a member of g who has not joined yet, or not yet
\* counted out one who has left.
Ahead(q, g) ==
    /\ q.g = g
    /\ \/ q.cmd = "gpos" /\ q.at \in {"counted", "undo"}
       \/ q.cmd = "gquit" /\ q.at \in {"left", "unshared"}

\* Those counted for g who are no members.
Spare(g) == IF \E i \in Places : Ahead(Q[i], g) THEN 1 ELSE 0

\* The count has a place for the master, who may be without a guild for a
\* while, each other member, and what the request under way is ahead.
Fits(g) == IF Exists(g) THEN Cardinality(Held(g)) + 1 + Spare(g) <= guild[g].total ELSE Held(g) = {}

\* A guild is not deleted before its members are out, nor while one joins.
Staged(q) ==
    /\ q.cmd = "gpos" /\ q.at \in {"counted", "undo"} => Exists(q.g)
    /\ q.cmd = "delete" /\ q.at = "kicked" => Held(q.g) = {}

CountInv == (\A g \in User : Fits(g)) /\ \A i \in Places : Staged(Q[i])
CInv == threads = 1 => CountInv

\* The same, when q is the request the worker is at.
FitsBy(g, q) ==
    IF Exists(g) THEN Cardinality(Held(g)) + 1 + (IF Ahead(q, g) THEN 1 ELSE 0) <= guild[g].total
    ELSE Held(g) = {}
Counted(th, i) == (\A g \in User : FitsBy(g, queue[th][i])) /\ Staged(queue[th][i])

SameGuild(g) == guild'[g].there = guild[g].there /\ guild'[g].total = guild[g].total

LEMMA HeldCount ==
    ASSUME NEW g
    PROVE  /\ IsFiniteSet(Held(g)) /\ Cardinality(Held(g)) \in Nat
           /\ IsFiniteSet(Held(g)') /\ Cardinality(Held(g)') \in Nat
  <1>1. IsFiniteSet(User)
    BY GuildAssumption
  <1>2. Held(g) \subseteq User /\ Held(g)' \subseteq User
    BY DEF Held
  <1>3. QED
    BY <1>1, <1>2, FS_Subset, FS_CardinalityType

LEMMA HeldSame ==
    ASSUME SameStatus, NEW g PROVE Held(g)' = Held(g)
  BY DEF SameStatus, Held

\* Who moves elsewhere than below a master is below none.
LEMMA HeldOut ==
    ASSUME NEW e \in User, NEW g, NEW p, Moved(e, g, p), NEW h,
           g # h \/ p \notin {GUILD_POS_SENIOR, GUILD_POS_MEMBER}
    PROVE  Held(h)' = Held(h) \ {e}
  BY DEF Moved, Held

LEMMA HeldIn ==
    ASSUME NEW e \in User, NEW g, NEW p \in {GUILD_POS_SENIOR, GUILD_POS_MEMBER}, Moved(e, g, p)
    PROVE  Held(g)' = Held(g) \cup {e}
  BY DEF Moved, Held

\* A guild with no more members than before, counted as before.
LEMMA FewerHeld ==
    ASSUME NEW g \in User, NEW q, NEW r, FitsBy(g, q), Held(g)' \subseteq Held(g), SameGuild(g),
           Ahead(r, g) => Ahead(q, g), GuildOK
    PROVE  IF Exists(g)' THEN Cardinality(Held(g)') + 1 + (IF Ahead(r, g) THEN 1 ELSE 0) <= guild'[g].total
           ELSE Held(g)' = {}
  <1>1. Exists(g)' = Exists(g) /\ guild'[g].total = guild[g].total /\ guild[g].total \in Int
    BY DEF SameGuild, Exists, GuildOK
  <1>2. PICK n \in Nat : n = Cardinality(Held(g))
    BY HeldCount
  <1>3. PICK m \in Nat : m = Cardinality(Held(g)')
    BY HeldCount
  <1>4. m <= n
    BY <1>2, <1>3, HeldCount, FS_Subset
  <1>5. CASE Exists(g)
    BY <1>1, <1>2, <1>3, <1>4, <1>5 DEF FitsBy
  <1>6. CASE ~Exists(g)
    BY <1>1, <1>6 DEF FitsBy
  <1>7. QED
    BY <1>5, <1>6

\* A statement that counts nothing, and by which nobody joins.
LEMMA IdleCount ==
    ASSUME TInv, NEW th \in Thread, NEW i \in 1 .. Len(queue[th]), Counted(th, i),
           \A g \in User : Held(g)' \subseteq Held(g) /\ SameGuild(g),
           \A g \in User : Ahead(queue'[th][i], g) => Ahead(queue[th][i], g),
           Staged(queue[th][i])'
    PROVE  Counted(th, i)'
  <1>1. ASSUME NEW g \in User PROVE FitsBy(g, queue[th][i])'
    <2>1. GuildOK /\ FitsBy(g, queue[th][i])
      BY DEF TInv, Counted
    <2>2. PICK r : r = queue'[th][i]
      OBVIOUS
    <2>3. IF Exists(g)' THEN Cardinality(Held(g)') + 1 + (IF Ahead(r, g) THEN 1 ELSE 0) <= guild'[g].total
          ELSE Held(g)' = {}
      BY <2>1, <2>2, FewerHeld
    <2>4. Ahead(queue[th][i], g)' = Ahead(r, g)
      BY <2>2 DEF Ahead
    <2>5. QED
      BY <2>3, <2>4 DEF FitsBy
  <1>2. QED
    BY <1>1 DEF Counted

LEMMA CreateCount ==
    ASSUME TInv, NEW th \in Thread, NEW i \in 1 .. Len(queue[th]), NEW ok \in BOOLEAN,
           queue[th][i].cmd = "create", Ready(queue[th][i]), InCreateGuild(th, i, ok), Counted(th, i)
    PROVE  Counted(th, i)'
  <1> PICK q : q = queue[th][i]
    OBVIOUS
  <1> PICK r : r = queue'[th][i]
    OBVIOUS
  <1>1. /\ StatusOK /\ GuildOK /\ q.e \in User /\ q.g = q.e /\ q.x \in Int /\ q.cmd = "create" /\ q.good = FALSE
    BY DEF TInv, QueueOK, ReqOK, Ready
  <1>2. r.cmd = "create"
    BY <1>1, Outcomes DEF InCreateGuild, Outcome
  <1>3. (\A g : ~Ahead(r, g) /\ ~Ahead(q, g)) /\ Staged(queue[th][i])'
    BY <1>1, <1>2 DEF Ahead, Staged
  <1>4. CASE /\ q.at # "joined"
    <2>1. \A g \in User : SameGuild(g)
      BY <1>4 DEF InCreateGuild, tables, SameGuild
    <2>2. \A g \in User : Held(g)' \subseteq Held(g)
      <3>1. status' = status \/ UpdateMoney(q.e, -q.x) \/ UpdateStatusGuild(q.e, q.e, GUILD_POS_MASTER)
        BY <1>1, <1>4 DEF InCreateGuild, tables
      <3>2. CASE UpdateStatusGuild(q.e, q.e, GUILD_POS_MASTER)
        <4>1. Moved(q.e, q.e, GUILD_POS_MASTER)
          BY <1>1, <3>2, PutMoves, GposRange
        <4>2. GUILD_POS_MASTER \notin {GUILD_POS_SENIOR, GUILD_POS_MEMBER}
          BY DEF GUILD_POS_MASTER, GUILD_POS_SENIOR, GUILD_POS_MEMBER
        <4>3. QED
          BY <1>1, <4>1, <4>2, HeldOut
      <3>3. CASE status' = status \/ UpdateMoney(q.e, -q.x)
        <4>1. SameStatus
          BY <1>1, <3>3, MoneySame DEF SameStatus
        <4>2. QED
          BY <4>1, HeldSame
      <3>4. QED
        BY <3>1, <3>2, <3>3
    <2>3. QED
      BY <1>3, <2>1, <2>2, IdleCount
  <1>5. CASE q.at = "joined"
    <2>1. status' = status /\ SameStatus
      BY <1>5 DEF InCreateGuild, SameStatus
    <2>2. CASE ok /\ ~Exists(q.g)
      <3>1. PICK row : row = [there |-> TRUE, total |-> 1, glevel |-> 1, gold |-> q.x]
        OBVIOUS
      <3>2. guild' = [guild EXCEPT ![q.g] = row]
        BY <1>5, <2>2, <3>1 DEF InCreateGuild
      <3>3. \A h \in User : guild'[h] = IF h = q.g THEN row ELSE guild[h]
        BY <1>1, <3>2 DEF GuildOK
      <3>4. ASSUME NEW g \in User PROVE FitsBy(g, queue[th][i])'
        <4>1. ~Ahead(queue[th][i], g)'
          BY <1>3 DEF Ahead
        <4>2. Held(g)' = Held(g)
          BY <2>1, HeldSame
        <4>3. CASE g = q.g
          <5>1. Held(g) = {}
            BY <2>2, <4>3 DEF Counted, FitsBy
          <5>2. Cardinality(Held(g)') = 0 /\ guild'[g].total = 1
            BY <3>1, <3>3, <4>2, <4>3, <5>1, FS_EmptySet
          <5>3. Exists(g)'
            BY <3>1, <3>3, <4>3, Nobody DEF Exists
          <5>4. QED
            BY <4>1, <5>2, <5>3 DEF FitsBy
        <4>4. CASE g # q.g
          <5>1. SameGuild(g)
            BY <3>3, <4>4 DEF SameGuild
          <5>2. FitsBy(g, q)
            BY DEF Counted
          <5>3. IF Exists(g)' THEN Cardinality(Held(g)') + 1 + (IF Ahead(r, g) THEN 1 ELSE 0) <= guild'[g].total
                ELSE Held(g)' = {}
            BY <1>1, <1>3, <4>2, <5>1, <5>2, FewerHeld
          <5>4. QED
            BY <1>3, <4>1, <5>3 DEF FitsBy
        <4>5. QED
          BY <4>3, <4>4
      <3>5. QED
        BY <1>3, <3>4 DEF Counted
    <2>3. CASE ~(ok /\ ~Exists(q.g))
      <3>1. guild' = guild
        BY <1>5, <2>3 DEF InCreateGuild
      <3>2. QED
        BY <1>3, <2>1, <3>1, HeldSame, IdleCount DEF SameGuild
    <2>4. QED
      BY <2>2, <2>3
  <1>6. QED
    BY <1>4, <1>5

LEMMA ApplyCount ==
    ASSUME TInv, NEW th \in Thread, NEW i \in 1 .. Len(queue[th]), NEW ok \in BOOLEAN,
           queue[th][i].cmd = "apply", Ready(queue[th][i]), InGuildApply(th, i, ok), Counted(th, i)
    PROVE  Counted(th, i)'
  <1> PICK q : q = queue[th][i]
    OBVIOUS
  <1> PICK r : r = queue'[th][i]
    OBVIOUS
  <1>1. /\ StatusOK /\ q.e \in User /\ q.g \in User /\ q.cmd = "apply"
    BY DEF TInv, QueueOK, ReqOK, Ready
  <1>2. r.cmd = "apply"
    BY <1>1, Outcomes DEF InGuildApply, Outcome
  <1>3. (\A g : ~Ahead(r, g)) /\ Staged(queue[th][i])'
    BY <1>2 DEF Ahead, Staged
  <1>4. \A g \in User : SameGuild(g)
    BY DEF InGuildApply, tables, SameGuild
  <1>5. status' = status \/ UpdateStatusGuild(q.e, q.g, GUILD_POS_APPLY)
    BY DEF InGuildApply, tables
  <1>6. CASE UpdateStatusGuild(q.e, q.g, GUILD_POS_APPLY)
    <2>1. Moved(q.e, q.g, GUILD_POS_APPLY)
      BY <1>1, <1>6, PutMoves, GposRange
    <2>2. GUILD_POS_APPLY \notin {GUILD_POS_SENIOR, GUILD_POS_MEMBER}
      BY DEF GUILD_POS_APPLY, GUILD_POS_SENIOR, GUILD_POS_MEMBER
    <2>3. \A g : Held(g)' \subseteq Held(g)
      BY <1>1, <2>1, <2>2, HeldOut
    <2>4. QED
      BY <1>3, <1>4, <2>3, IdleCount
  <1>7. CASE status' = status
    BY <1>3, <1>4, <1>7, HeldSame, IdleCount DEF SameStatus
  <1>8. QED
    BY <1>5, <1>6, <1>7

\* A step after which the guild of the request is counted one more or less.
LEMMA OthersCount ==
    ASSUME TInv, NEW th \in Thread, NEW i \in 1 .. Len(queue[th]), Counted(th, i),
           NEW g \in User, queue[th][i].g = g, queue'[th][i].g = g,
           \A h \in User \ {g} : Held(h)' \subseteq Held(h) /\ SameGuild(h),
           FitsBy(g, queue[th][i])', Staged(queue[th][i])'
    PROVE  Counted(th, i)'
  <1>1. ASSUME NEW h \in User, h # g PROVE FitsBy(h, queue[th][i])'
    <2>1. GuildOK /\ FitsBy(h, queue[th][i])
      BY DEF TInv, Counted
    <2>2. PICK r : r = queue'[th][i]
      OBVIOUS
    <2>3. ~Ahead(r, h)
      BY <1>1, <2>2 DEF Ahead
    <2>4. IF Exists(h)' THEN Cardinality(Held(h)') + 1 + (IF Ahead(r, h) THEN 1 ELSE 0) <= guild'[h].total
          ELSE Held(h)' = {}
      BY <1>1, <2>1, <2>3, FewerHeld
    <2>5. Ahead(queue[th][i], h)' = Ahead(r, h)
      BY <2>2 DEF Ahead
    <2>6. QED
      BY <2>4, <2>5 DEF FitsBy
  <1>2. QED
    BY <1>1 DEF Counted

\* One more in the count, and one that it is ahead.
LEMMA CountUp ==
    ASSUME TInv, NEW th \in Thread, NEW i \in 1 .. Len(queue[th]), NEW g \in User,
           FitsBy(g, queue[th][i]), Exists(g), SameStatus, GuildMemberChange(g, 1),
           ~Ahead(queue[th][i], g)
    PROVE  FitsBy(g, queue[th][i])'
  <1>1. GuildOK
    BY DEF TInv
  <1>2. guild'[g].there = guild[g].there /\ guild'[g].total = guild[g].total + 1 /\ guild[g].total \in Int
    BY <1>1, GuildCount DEF GuildOK
  <1>3. Held(g)' = Held(g)
    BY HeldSame
  <1>4. PICK n \in Nat : n = Cardinality(Held(g))
    BY HeldCount
  <1>5. n + 1 <= guild[g].total
    BY <1>4 DEF FitsBy
  <1>6. Exists(g)' /\ Cardinality(Held(g)') = n
    BY <1>2, <1>3, <1>4 DEF Exists
  <1>7. QED
    BY <1>2, <1>5, <1>6 DEF FitsBy

\* One less in the count, which was ahead.
LEMMA CountDown ==
    ASSUME TInv, NEW th \in Thread, NEW i \in 1 .. Len(queue[th]), NEW g \in User,
           FitsBy(g, queue[th][i]), Exists(g), SameStatus, GuildMemberChange(g, -1),
           Ahead(queue[th][i], g), ~Ahead(queue'[th][i], g)
    PROVE  FitsBy(g, queue[th][i])'
  <1>1. GuildOK
    BY DEF TInv
  <1>2. guild'[g].there = guild[g].there /\ guild'[g].total = guild[g].total - 1 /\ guild[g].total \in Int
    BY <1>1, GuildCount DEF GuildOK
  <1>3. Held(g)' = Held(g)
    BY HeldSame
  <1>4. PICK n \in Nat : n = Cardinality(Held(g))
    BY HeldCount
  <1>5. n + 2 <= guild[g].total
    BY <1>2, <1>4 DEF FitsBy
  <1>6. Exists(g)' /\ Cardinality(Held(g)') = n /\ ~Ahead(queue[th][i], g)'
    BY <1>2, <1>3, <1>4 DEF Exists, Ahead
  <1>7. QED
    BY <1>2, <1>5, <1>6 DEF FitsBy

\* One who has been counted joins.
LEMMA CountJoin ==
    ASSUME TInv, NEW th \in Thread, NEW i \in 1 .. Len(queue[th]), NEW g \in User, NEW e \in User,
           FitsBy(g, queue[th][i]), Exists(g), Held(g)' = Held(g) \cup {e}, SameGuild(g),
           Ahead(queue[th][i], g), ~Ahead(queue'[th][i], g)
    PROVE  FitsBy(g, queue[th][i])'
  <1>1. PICK n \in Nat : n = Cardinality(Held(g))
    BY HeldCount
  <1>2. PICK m \in Nat : m = Cardinality(Held(g)')
    BY HeldCount
  <1>3. m <= n + 1
    <2>1. PICK A : A = Held(g)
      OBVIOUS
    <2>2. IsFiniteSet(A) /\ Cardinality(A) = n /\ Cardinality(A \cup {e}) = m
      BY <1>1, <1>2, <2>1, HeldCount
    <2>3. Cardinality(A \cup {e}) = IF e \in A THEN Cardinality(A) ELSE Cardinality(A) + 1
      BY <2>2, FS_AddElement
    <2>4. QED
      BY <2>2, <2>3
  <1>4. guild'[g].total = guild[g].total /\ guild[g].total \in Int /\ Exists(g)'
    BY DEF SameGuild, Exists, TInv, GuildOK
  <1>5. n + 2 <= guild[g].total
    BY <1>1, <1>4 DEF FitsBy
  <1>6. ~Ahead(queue[th][i], g)'
    BY DEF Ahead
  <1>7. QED
    BY <1>2, <1>3, <1>4, <1>5, <1>6 DEF FitsBy

\* One leaves, and is still counted.
LEMMA CountLeave ==
    ASSUME TInv, NEW th \in Thread, NEW i \in 1 .. Len(queue[th]), NEW g \in User, NEW e \in Held(g),
           FitsBy(g, queue[th][i]), Held(g)' = Held(g) \ {e}, SameGuild(g), ~Ahead(queue[th][i], g)
    PROVE  FitsBy(g, queue[th][i])'
  <1>1. PICK n \in Nat : n = Cardinality(Held(g))
    BY HeldCount
  <1>2. PICK m \in Nat : m = Cardinality(Held(g)')
    BY HeldCount
  <1>3. m = n - 1
    BY <1>1, <1>2, HeldCount, FS_RemoveElement
  <1>4. guild'[g].total = guild[g].total /\ guild[g].total \in Int /\ Exists(g) /\ Exists(g)'
    BY DEF SameGuild, Exists, TInv, GuildOK, FitsBy
  <1>5. n + 1 <= guild[g].total
    BY <1>1, <1>4 DEF FitsBy
  <1>6. QED
    BY <1>2, <1>3, <1>4, <1>5 DEF FitsBy

LEMMA GposCount ==
    ASSUME TInv, NEW th \in Thread, NEW i \in 1 .. Len(queue[th]), NEW ok \in BOOLEAN,
           queue[th][i].cmd = "gpos", Ready(queue[th][i]), InGuildPos(th, i, ok), Counted(th, i)
    PROVE  Counted(th, i)'
  <1> PICK q : q = queue[th][i]
    OBVIOUS
  <1> PICK r : r = queue'[th][i]
    OBVIOUS
  <1>1. /\ StatusOK /\ GuildOK /\ q.e \in User /\ q.g \in User /\ q.x \in {GUILD_POS_SENIOR, GUILD_POS_MEMBER}
        /\ q.cmd = "gpos" /\ q.x \in Gpos
    BY GposRange DEF TInv, QueueOK, ReqOK
  <1>2. /\ \A at : Go(th, i, at) => Outcome(q, r, at, q.good)
        /\ Succeed(th, i) => Outcome(q, r, "done", TRUE)
        /\ Refuse(th, i) => Outcome(q, r, "done", q.good)
        /\ Break(th, i) => Outcome(q, r, "done", q.good)
    BY <1>1, Outcomes
  <1>3. r.cmd = "gpos" /\ r.e = q.e /\ r.g = q.g
    <2>1. \/ Succeed(th, i) \/ Refuse(th, i) \/ Break(th, i) \/ \E at : Go(th, i, at)
      BY DEF InGuildPos
    <2>2. QED
      BY <1>1, <1>2, <2>1 DEF Outcome
  <1>4. FitsBy(q.g, q) /\ Staged(q)
    BY <1>1 DEF Counted
  <1>5. ASSUME r.at \notin {"counted", "undo"} PROVE Staged(queue[th][i])' /\ \A g : ~Ahead(r, g)
    BY <1>3, <1>5 DEF Staged, Ahead
  <1>6. ASSUME SameStatus, guild' = guild, r.at \in {"counted", "undo"} => q.at \in {"counted", "undo"}
        PROVE  Counted(th, i)'
    <2>1. \A g : Held(g)' \subseteq Held(g) /\ SameGuild(g)
      BY <1>6, HeldSame DEF SameGuild
    <2>2. \A g : Ahead(r, g) => Ahead(q, g)
      BY <1>1, <1>3, <1>6 DEF Ahead
    <2>3. Staged(queue[th][i])'
      BY <1>1, <1>3, <1>4, <1>6 DEF Staged, Exists
    <2>4. QED
      BY <2>1, <2>2, <2>3, IdleCount
  <1>7. CASE q.at = "new" \/ q.at = "joined"
    <2>1. status' = status /\ guild' = guild /\ \E at \in {"approve", "promote", "done"} : r.at = at
      BY <1>2, <1>7 DEF InGuildPos, tables, Outcome
    <2>2. QED
      BY <1>6, <2>1 DEF SameStatus
  <1>8. CASE q.at = "promote"
    <2>1. guild' = guild /\ r.at = "done"
      BY <1>2, <1>8 DEF InGuildPos, Outcome
    <2> DEFINE other == IF q.x = GUILD_POS_SENIOR THEN GUILD_POS_MEMBER ELSE GUILD_POS_SENIOR
    <2>2. CASE StatusIs(q.e, q.g, other) /\ UpdateStatusGuild(q.e, q.g, q.x)
      <3>1. Moved(q.e, q.g, q.x)
        BY <1>1, <2>2, PutMoves
      <3>2. q.e \in Held(q.g)
        BY <1>1, <2>2 DEF StatusIs, Held
      <3>3. Held(q.g)' = Held(q.g) \cup {q.e}
        BY <1>1, <3>1, HeldIn
      <3>4. \A h : h # q.g => Held(h)' \subseteq Held(h)
        BY <1>1, <3>1, HeldOut
      <3>5. \A h : Held(h)' \subseteq Held(h)
        BY <3>2, <3>3, <3>4
      <3>6. QED
        BY <1>5, <2>1, <3>5, IdleCount DEF SameGuild
    <2>3. CASE status' = status
      BY <1>6, <2>1, <2>3 DEF SameStatus
    <2>4. QED
      BY <1>8, <2>2, <2>3 DEF InGuildPos
  <1>9. CASE q.at = "approve"
    <2>1. status' = status /\ SameStatus
      BY <1>9 DEF InGuildPos, SameStatus
    <2>2. CASE guild' = guild /\ Refuse(th, i)
      BY <1>2, <1>6, <2>1, <2>2 DEF Outcome
    <2>3. CASE MayChange(q.g, 1, q.max) /\ GuildMemberChange(q.g, 1) /\ Go(th, i, "counted")
      <3>1. r.at = "counted"
        BY <1>2, <2>3 DEF Outcome
      <3>2. Exists(q.g) /\ ~Ahead(q, q.g)
        BY <1>1, <1>9, <2>3 DEF MayChange, Ahead
      <3>3. FitsBy(q.g, queue[th][i])'
        BY <1>1, <1>4, <2>1, <2>3, <3>2, CountUp
      <3>4. /\ \A h \in User \ {q.g} : SameGuild(h)
            /\ guild'[q.g].there = guild[q.g].there
        BY <1>1, <2>3, GuildCount DEF SameGuild
      <3>5. Staged(queue[th][i])'
        BY <1>3, <3>1, <3>2, <3>4 DEF Staged, Exists
      <3>6. QED
        BY <1>1, <1>3, <2>1, <3>3, <3>4, <3>5, HeldSame, OthersCount
    <2>4. QED
      BY <1>9, <2>2, <2>3 DEF InGuildPos
  <1>10. CASE q.at = "counted"
    <2>1. guild' = guild
      BY <1>10 DEF InGuildPos
    <2>2. CASE UpdateStatusGuild(q.e, q.g, q.x) /\ Go(th, i, "joined")
      <3>1. r.at = "joined"
        BY <1>2, <2>2 DEF Outcome
      <3>2. Moved(q.e, q.g, q.x)
        BY <1>1, <2>2, PutMoves
      <3>3. Held(q.g)' = Held(q.g) \cup {q.e} /\ \A h : h # q.g => Held(h)' \subseteq Held(h)
        BY <1>1, <3>2, HeldIn, HeldOut
      <3>4. Exists(q.g) /\ Ahead(q, q.g) /\ ~Ahead(r, q.g)
        BY <1>1, <1>3, <1>4, <1>10, <3>1 DEF Staged, Ahead
      <3>5. FitsBy(q.g, queue[th][i])'
        BY <1>1, <1>4, <2>1, <3>3, <3>4, CountJoin DEF SameGuild
      <3>6. QED
        BY <1>1, <1>3, <1>5, <2>1, <3>1, <3>3, <3>5, OthersCount DEF SameGuild
    <2>3. CASE status' = status
      <3>1. QED
        BY <1>6, <1>10, <2>1, <2>3 DEF SameStatus
    <2>4. QED
      BY <1>10, <2>2, <2>3 DEF InGuildPos
  <1>11. CASE q.at = "undo"
    <2>1. status' = status /\ SameStatus
      BY <1>11 DEF InGuildPos, SameStatus
    <2>2. r.at = "done"
      BY <1>2, <1>11 DEF InGuildPos, Outcome
    <2>3. CASE guild' = guild
      BY <1>6, <2>1, <2>2, <2>3
    <2>4. CASE MayChange(q.g, -1, q.max) /\ GuildMemberChange(q.g, -1)
      <3>1. Exists(q.g) /\ Ahead(q, q.g) /\ ~Ahead(r, q.g)
        BY <1>1, <1>3, <1>11, <2>2, <2>4 DEF MayChange, Ahead
      <3>2. FitsBy(q.g, queue[th][i])'
        BY <1>1, <1>4, <2>1, <2>4, <3>1, CountDown
      <3>3. \A h \in User \ {q.g} : SameGuild(h)
        BY <1>1, <2>4, GuildCount DEF SameGuild
      <3>4. QED
        BY <1>1, <1>3, <1>5, <2>1, <2>2, <3>2, <3>3, HeldSame, OthersCount
    <2>5. QED
      BY <1>11, <2>3, <2>4 DEF InGuildPos
  <1>12. QED
    BY <1>7, <1>8, <1>9, <1>10, <1>11 DEF InGuildPos

LEMMA GquitCount ==
    ASSUME TInv, PosOK, NEW th \in Thread, NEW i \in 1 .. Len(queue[th]), NEW ok \in BOOLEAN,
           queue[th][i].cmd = "gquit", Ready(queue[th][i]), InGuildQuit(th, i, ok), Counted(th, i)
    PROVE  Counted(th, i)'
  <1> PICK q : q = queue[th][i]
    OBVIOUS
  <1> PICK r : r = queue'[th][i]
    OBVIOUS
  <1>1. /\ StatusOK /\ GuildOK /\ q.e \in User /\ q.g \in User /\ q.cmd = "gquit" /\ q.good = FALSE
        /\ DOMAIN q = Fields /\ (q.at = "leave" => q.got[1] # GUILD_POS_MASTER)
    BY DEF TInv, QueueOK, ReqOK, Ready
  <1>2. /\ \A at : Go(th, i, at) => Outcome(q, r, at, FALSE)
        /\ Succeed(th, i) => Outcome(q, r, "done", TRUE)
        /\ Refuse(th, i) => Outcome(q, r, "done", FALSE)
        /\ Break(th, i) => Outcome(q, r, "done", FALSE)
    BY <1>1, Outcomes
  <1>3. r.cmd = "gquit" /\ r.g = q.g
    <2>1. CASE q.at = "new" /\ Set(th, i, [q EXCEPT !.at = "leave", !.got = <<status[q.e].gpos>>])
      <3>1. PICK one : one = <<status[q.e].gpos>>
        OBVIOUS
      <3>2. r = [q EXCEPT !.at = "leave", !.got = one]
        BY <2>1, <3>1, SetIs
      <3>3. QED
        BY <1>1, <3>2, MoveGot DEF Same
    <2>2. CASE \/ Succeed(th, i) \/ Refuse(th, i) \/ Break(th, i) \/ \E at : Go(th, i, at)
      BY <1>1, <1>2, <2>2 DEF Outcome
    <2>3. QED
      BY <2>1, <2>2 DEF InGuildQuit
  <1>4. FitsBy(q.g, q) /\ Staged(queue[th][i])'
    BY <1>1, <1>3 DEF Counted, Staged
  <1>5. ASSUME SameStatus, guild' = guild, \A g : Ahead(r, g) => Ahead(q, g) PROVE Counted(th, i)'
    <2>1. \A g : Held(g)' \subseteq Held(g) /\ SameGuild(g)
      BY <1>5, HeldSame DEF SameGuild
    <2>2. QED
      BY <1>4, <1>5, <2>1, IdleCount
  <1>6. CASE q.at = "new"
    <2>1. status' = status /\ guild' = guild
      BY <1>6 DEF InGuildQuit, tables
    <2>2. r.at \in {"leave", "done"}
      <3>1. CASE Set(th, i, [q EXCEPT !.at = "leave", !.got = <<status[q.e].gpos>>])
        <4>1. PICK one : one = <<status[q.e].gpos>>
          OBVIOUS
        <4>2. r = [q EXCEPT !.at = "leave", !.got = one]
          BY <3>1, <4>1, SetIs
        <4>3. QED
          BY <1>1, <4>2, MoveGot DEF Same
      <3>2. CASE Refuse(th, i)
        BY <1>2, <3>2 DEF Outcome
      <3>3. QED
        BY <1>6, <3>1, <3>2 DEF InGuildQuit
    <2>3. \A g : ~Ahead(r, g)
      BY <1>3, <2>2 DEF Ahead
    <2>4. QED
      BY <1>5, <2>1, <2>3 DEF SameStatus
  <1>7. CASE q.at = "leave"
    <2>1. guild' = guild
      BY <1>7 DEF InGuildQuit
    <2>2. CASE StatusIs(q.e, q.g, q.got[1]) /\ UpdateStatusGuild(q.e, NoGuild, GUILD_POS_NONE)
      <3>1. Moved(q.e, NoGuild, GUILD_POS_NONE)
        BY <1>1, <2>2, PutMoves, GposRange
      <3>2. \A h \in User : Held(h)' = Held(h) \ {q.e}
        BY <1>1, <3>1, HeldOut, Nobody
      <3>3. CASE q.got[1] = GUILD_POS_APPLY
        <4>1. r.at = "done"
          BY <1>2, <1>7, <2>2, <3>3 DEF InGuildQuit, Outcome
        <4>2. \A g : ~Ahead(r, g)
          BY <1>3, <4>1 DEF Ahead
        <4>3. QED
          BY <1>4, <2>1, <3>2, <4>2, IdleCount DEF SameGuild
      <3>4. CASE q.got[1] # GUILD_POS_APPLY
        <4>1. q.e \in Held(q.g)
          <5>1. status[q.e].gpos \in Gpos
            BY <1>1 DEF StatusOK
          <5>2. status[q.e].gid = q.g /\ status[q.e].gpos = q.got[1]
            BY <2>2 DEF StatusIs
          <5>3. status[q.e].gpos # GUILD_POS_NONE
            BY <1>1, <5>2, Nobody DEF PosOK
          <5>4. QED
            BY <1>1, <1>7, <3>4, <5>1, <5>2, <5>3 DEF Gpos, Held
        <4>2. ~Ahead(q, q.g)
          BY <1>7, <1>1 DEF Ahead
        <4>3. FitsBy(q.g, queue[th][i])'
          BY <1>1, <1>4, <2>1, <3>2, <4>1, <4>2, CountLeave DEF SameGuild
        <4>4. QED
          BY <1>1, <1>3, <1>4, <2>1, <3>2, <4>3, OthersCount DEF SameGuild
      <3>5. QED
        BY <3>3, <3>4
    <2>3. CASE status' = status /\ Refuse(th, i)
      <3>1. r.at = "done"
        BY <1>2, <2>3 DEF Outcome
      <3>2. \A g : ~Ahead(r, g)
        BY <1>3, <3>1 DEF Ahead
      <3>3. QED
        BY <1>5, <2>1, <2>3, <3>2 DEF SameStatus
    <2>4. QED
      BY <1>7, <2>2, <2>3 DEF InGuildQuit
  <1>8. CASE q.at = "left"
    <2>1. status' = status /\ guild' = guild
      BY <1>8 DEF InGuildQuit
    <2>2. \A g : Ahead(r, g) => Ahead(q, g)
      BY <1>1, <1>3, <1>8 DEF Ahead
    <2>3. QED
      BY <1>5, <2>1, <2>2 DEF SameStatus
  <1>9. CASE q.at = "unshared"
    <2>1. status' = status /\ SameStatus
      BY <1>9 DEF InGuildQuit, SameStatus
    <2>2. r.at = "done"
      BY <1>2, <1>9 DEF InGuildQuit, Outcome
    <2>3. \A g : ~Ahead(r, g)
      BY <1>3, <2>2 DEF Ahead
    <2>4. CASE guild' = guild
      BY <1>5, <2>1, <2>3, <2>4
    <2>5. CASE MayChange(q.g, -1, q.max) /\ GuildMemberChange(q.g, -1)
      <3>1. Exists(q.g) /\ Ahead(q, q.g)
        BY <1>1, <1>9, <2>5 DEF MayChange, Ahead
      <3>2. FitsBy(q.g, queue[th][i])'
        BY <1>1, <1>4, <2>1, <2>3, <2>5, <3>1, CountDown
      <3>3. \A h \in User \ {q.g} : SameGuild(h)
        BY <1>1, <2>5, GuildCount DEF SameGuild
      <3>4. QED
        BY <1>1, <1>3, <1>4, <2>1, <3>2, <3>3, HeldSame, OthersCount
    <2>6. QED
      BY <1>9, <2>4, <2>5 DEF InGuildQuit
  <1>10. QED
    BY <1>6, <1>7, <1>8, <1>9 DEF InGuildQuit

LEMMA DeleteCount ==
    ASSUME TInv, NEW th \in Thread, NEW i \in 1 .. Len(queue[th]), NEW ok \in BOOLEAN,
           queue[th][i].cmd = "delete", Ready(queue[th][i]), InDeleteGuild(th, i, ok), Counted(th, i)
    PROVE  Counted(th, i)'
  <1> PICK q : q = queue[th][i]
    OBVIOUS
  <1> PICK r : r = queue'[th][i]
    OBVIOUS
  <1>1. /\ StatusOK /\ GuildOK /\ q.g \in User /\ q.cmd = "delete" /\ q.good = FALSE
    BY DEF TInv, QueueOK, ReqOK, Ready
  <1>2. /\ \A at : Go(th, i, at) => Outcome(q, r, at, FALSE)
        /\ Succeed(th, i) => Outcome(q, r, "done", TRUE)
        /\ Refuse(th, i) => Outcome(q, r, "done", FALSE)
        /\ Break(th, i) => Outcome(q, r, "done", FALSE)
    BY <1>1, Outcomes
  <1>3. r.cmd = "delete" /\ r.g = q.g
    BY <1>1, <1>2 DEF Outcome, InDeleteGuild
  <1>4. \A g : ~Ahead(r, g)
    BY <1>3 DEF Ahead
  <1>5. CASE q.at = "new"
    <2>1. status' = status /\ guild' = guild /\ r.at # "kicked"
      BY <1>2, <1>5 DEF InDeleteGuild, tables, Outcome
    <2>2. QED
      BY <1>3, <1>4, <2>1, HeldSame, IdleCount DEF SameStatus, SameGuild, Staged
  <1>6. CASE q.at = "found"
    <2>1. guild' = guild
      BY <1>6 DEF InDeleteGuild
    <2>2. CASE ok
      <3>1. /\ \A e \in User : status[e].gid # q.g => status'[e] = status[e]
            /\ \A e \in User : status[e].gid = q.g => status'[e].gid = NoGuild
        <4> DEFINE Out(e) == [status[e] EXCEPT !.gid = NoGuild, !.gpos = GUILD_POS_NONE]
        <4>1. status' = [e \in User |-> IF status[e].gid # q.g THEN status[e] ELSE Out(e)]
          BY <1>6, <2>2 DEF InDeleteGuild
        <4>2. \A e \in User : Out(e).gid = NoGuild
          BY <1>1 DEF StatusOK
        <4> HIDE DEF Out
        <4>3. QED
          BY <4>1, <4>2
      <3>2. \A h : h \in User => Held(h)' \subseteq Held(h)
        BY <3>1, Nobody DEF Held
      <3>3. Held(q.g)' = {}
        BY <1>1, <3>1, Nobody DEF Held
      <3>4. Staged(queue[th][i])'
        BY <1>3, <3>3 DEF Staged
      <3>5. QED
        BY <1>4, <2>1, <3>2, <3>4, IdleCount DEF SameGuild
    <2>3. CASE ~ok
      <3>1. status' = status /\ r.at = "done"
        BY <1>2, <1>6, <2>3 DEF InDeleteGuild, Outcome
      <3>2. QED
        BY <1>3, <1>4, <2>1, <3>1, HeldSame, IdleCount DEF SameStatus, SameGuild, Staged
    <2>4. QED
      BY <2>2, <2>3
  <1>7. CASE q.at = "kicked"
    <2>1. status' = status /\ SameStatus /\ r.at = "done"
      BY <1>2, <1>7 DEF InDeleteGuild, SameStatus, Outcome
    <2>2. Staged(queue[th][i])'
      BY <1>3, <2>1 DEF Staged
    <2>3. CASE guild' = guild
      BY <1>4, <2>1, <2>2, <2>3, HeldSame, IdleCount DEF SameGuild
    <2>4. CASE guild' = [guild EXCEPT ![q.g] = NoRow]
      <3>1. ~guild'[q.g].there /\ \A h \in User \ {q.g} : SameGuild(h)
        BY <1>1, <2>4 DEF GuildOK, NoRow, SameGuild
      <3>2. Held(q.g)' = {}
        BY <1>1, <1>7, <2>1, HeldSame DEF Counted, Staged
      <3>3. FitsBy(q.g, queue[th][i])'
        BY <3>1, <3>2 DEF FitsBy, Exists
      <3>4. QED
        BY <1>1, <1>3, <2>1, <2>2, <3>1, <3>3, HeldSame, OthersCount
    <2>5. QED
      BY <1>7, <2>3, <2>4 DEF InDeleteGuild
  <1>8. QED
    BY <1>5, <1>6, <1>7 DEF InDeleteGuild

LEMMA BooksCount ==
    ASSUME TInv, NEW th \in Thread, NEW i \in 1 .. Len(queue[th]), NEW ok \in BOOLEAN,
           queue[th][i].cmd \in {"deposit", "bonus", "glv", "glevelup", "login"}, Work(th, i, ok), Counted(th, i)
    PROVE  Counted(th, i)'
  <1>1. MembersSame /\ \E to : MovedTo(th, i, to)
    <2>1. CASE queue[th][i].cmd = "bonus"
      <3>1. InGuildBonus(th, i, ok)
        BY <2>1 DEF Work
      <3>2. QED
        BY <2>1, <3>1, BonusEffect
    <2>2. CASE queue[th][i].cmd # "bonus"
      BY <2>2, DepositEffect, GlvEffect, GlevelupEffect, LoginEffect DEF Work
    <2>3. QED
      BY <2>1, <2>2
  <1>2. queue'[th][i].cmd = queue[th][i].cmd
    BY <1>1, SetIs DEF MovedTo, Same
  <1>3. Staged(queue[th][i])' /\ \A g : ~Ahead(queue'[th][i], g)
    BY <1>2 DEF Staged, Ahead
  <1>4. \A g \in User : Held(g)' \subseteq Held(g) /\ SameGuild(g)
    BY <1>1, HeldSame DEF MembersSame, SameStatus, SameGuild
  <1>5. QED
    BY <1>3, <1>4, IdleCount

LEMMA WorkCount ==
    ASSUME TInv, PosOK, NEW th \in Thread, NEW i \in 1 .. Len(queue[th]), NEW ok \in BOOLEAN,
           Ready(queue[th][i]), Work(th, i, ok), Counted(th, i)
    PROVE  Counted(th, i)'
  <1>1. CASE queue[th][i].cmd \in {"deposit", "bonus", "glv", "glevelup", "login"}
    BY <1>1, BooksCount
  <1>2. CASE queue[th][i].cmd \in {"create", "apply", "gpos", "gquit", "delete"}
    BY <1>2, CreateCount, ApplyCount, GposCount, GquitCount, DeleteCount DEF Work
  <1>3. QED
    BY <1>1, <1>2 DEF Work

\* The request the worker is at is the only one that may be ahead.
LEMMA OneAhead ==
    ASSUME NEW i \in Places, \A j \in Places : j # i => Q[j].at \in {"new", "done"}
    PROVE  CountInv <=> Counted(0, i)
  <1>1. ASSUME NEW j \in Places, j # i PROVE Staged(Q[j]) /\ \A g : ~Ahead(Q[j], g)
    BY <1>1 DEF Staged, Ahead
  <1>2. \A g : Spare(g) = IF Ahead(Q[i], g) THEN 1 ELSE 0
    BY <1>1 DEF Spare
  <1>3. \A g \in User : Fits(g) <=> FitsBy(g, Q[i])
    BY <1>2 DEF Fits, FitsBy
  <1>4. QED
    BY <1>1, <1>3 DEF CountInv, Counted, Q

LEMMA CountTurn ==
    ASSUME TInv, MInv, CountInv, threads = 1, NEW th \in Thread, NEW i \in 1 .. Len(queue[th]),
           NEW ok \in BOOLEAN, Current(th, i), Work(th, i, ok), threads' = threads
    PROVE  CountInv'
  <1>1. th = 0 /\ i \in Places /\ Len(Q) \in Nat
    BY QueueIs DEF Q, Places
  <1>2. PICK to, r : Set(th, i, r) /\ Same(Q[i], r) /\ ReqOK(r) /\ r.at = to
    BY <1>1, WorkType DEF MovedTo, Q
  <1>3. /\ Len(queue'[th]) = Len(queue[th])
        /\ \A j \in 1 .. Len(queue[th]) : queue'[th][j] = IF j = i THEN r ELSE queue[th][j]
    BY <1>1, <1>2, SetQueue DEF TInv, Q
  <1>4. OneInv
    BY DEF MInv
  <1>5. Ready(Q[i]) /\ PosOK
    BY <1>1, <1>4 DEF OneInv, AskedOK, Ready, Current, Q
  <1>6. \A j \in Places : j # i => Q[j].at \in {"new", "done"}
    <2>1. ASSUME NEW j \in Places, j < i PROVE Q[j].at = "done"
      <3>1. j \in 1 .. i - 1
        BY <1>1, <2>1 DEF Places
      <3>2. QED
        BY <1>1, <3>1 DEF Current, Q
    <2>2. ASSUME NEW j \in Places, i < j PROVE Q[j].at = "new"
      BY <1>1, <2>2, QueueIs DEF Current, Q
    <2>3. QED
      BY <1>1, <2>1, <2>2 DEF Places
  <1>7. Counted(0, i)
    BY <1>1, <1>6, OneAhead
  <1>8. Counted(0, i)'
    BY <1>1, <1>5, <1>7, WorkCount DEF Q
  <1>9. Places' = Places /\ \A j \in Places : j # i => Q'[j].at \in {"new", "done"}
    BY <1>1, <1>3, <1>6 DEF Q, Places
  <1>10. ASSUME NEW j \in Places, j # i PROVE Staged(Q[j])' /\ \A g : ~Ahead(Q[j], g)'
    BY <1>9, <1>10 DEF Staged, Ahead
  <1>11. \A g : Spare(g)' = IF Ahead(Q[i], g)' THEN 1 ELSE 0
    BY <1>1, <1>9, <1>10 DEF Spare
  <1>12. \A g \in User : Fits(g)' <=> FitsBy(g, Q[i])'
    BY <1>11 DEF Fits, FitsBy
  <1>13. QED
    BY <1>8, <1>9, <1>10, <1>12 DEF CountInv, Counted, Q

LEMMA CountMain ==
    ASSUME TInv, CountInv, threads = 1, Quiet, UNCHANGED <<status, guild>>
    PROVE  CountInv'
  <1>1. 0 \in Thread
    BY DEF Thread
  <1>2. /\ \A i \in Places : Q[i].at \notin {"new", "done"} => \E j \in Places' : Like(Q'[j], Q[i])
        /\ \A j \in Places' : Q'[j].at \notin {"new", "done"} => \E i \in Places : Like(Q'[j], Q[i])
    BY <1>1 DEF Quiet, Q, Places
  <1>3. \A g : Held(g)' = Held(g) /\ Exists(g)' = Exists(g)
    BY DEF Held, Exists
  <1>4. ASSUME NEW q, NEW r, Like(r, q) PROVE \A g : Ahead(r, g) <=> Ahead(q, g)
    BY <1>4 DEF Like, Ahead
  <1>5. \A q, g : Ahead(q, g) => q.at \notin {"new", "done"}
    BY DEF Ahead
  <1>6. \A g : (\E j \in Places' : Ahead(Q'[j], g)) <=> \E i \in Places : Ahead(Q[i], g)
    BY <1>2, <1>4, <1>5
  <1>7. \A g : (\E i \in Places : Ahead(Q[i], g))' <=> \E j \in Places' : Ahead(Q'[j], g)
    BY DEF Ahead
  <1>8. \A g : Spare(g)' = Spare(g)
    BY <1>6, <1>7 DEF Spare
  <1>9. \A g \in User : Fits(g)'
    BY <1>3, <1>8 DEF CountInv, Fits
  <1>10. ASSUME NEW j \in Places' PROVE Staged(Q[j])'
    <2>1. CASE Q'[j].at \in {"new", "done"}
      BY <2>1 DEF Staged
    <2>2. CASE Q'[j].at \notin {"new", "done"}
      <3>1. PICK i \in Places : Like(Q'[j], Q[i])
        BY <1>2, <2>2
      <3>2. Staged(Q[i])
        BY DEF CountInv
      <3>3. QED
        BY <1>3, <3>1, <3>2 DEF Staged, Like
    <2>3. QED
      BY <2>1, <2>2
  <1>11. QED
    BY <1>9, <1>10 DEF CountInv

LEMMA CountStep == ASSUME TInv, MInv, CInv, [Next]_vars PROVE CInv'
  <1>1. ASSUME NEW th \in Thread, NEW i \in 1 .. Len(queue[th]), NEW ok \in BOOLEAN,
               Current(th, i), Work(th, i, ok), UNCHANGED <<threads, conn>>
        PROVE  CInv'
    BY <1>1, CountTurn DEF CInv
  <1>2. CASE MainOnly
    BY <1>2, CountMain DEF MainOnly, CInv
  <1>3. CASE Midnight
    BY <1>3, QuietSame, CountMain DEF Midnight, main, bounds, CInv
  <1>4. QED
    BY <1>1, <1>2, <1>3, Kinds DEF StepKinds

LEMMA CountInit == ASSUME Init PROVE CInv
  <1>1. /\ status = First /\ DOMAIN First = User
    BY GuildAssumption DEF Init
  <1>2. SUFFICES ASSUME threads = 1 PROVE CountInv
    BY DEF CInv
  <1>3. Places = {}
    <2>1. 0 \in Thread
      BY <1>2 DEF Thread
    <2>2. queue = [th \in Thread |-> <<>>]
      BY DEF Init
    <2>3. Q = <<>>
      BY <2>1, <2>2, Zenon DEF Q
    <2>4. Len(Q) = 0
      BY <2>3
    <2>5. QED
      BY <2>4 DEF Places
  <1>4. ASSUME NEW g \in User PROVE Fits(g)
    <2>1. Spare(g) = 0
      BY <1>3 DEF Spare
    <2>2. CASE g \in FirstGuilds
      <3> DEFINE All == {e \in User : First[e].gid = g /\ First[e].gpos \in Membership}
      <3>1. PICK A : A = Held(g)
        OBVIOUS
      <3>2. IsFiniteSet(A) /\ Cardinality(A) \in Nat
        BY <3>1, HeldCount
      <3>3. First[g].gpos = GUILD_POS_MASTER
        BY <2>2 DEF FirstGuilds
      <3>4. g \notin A
        BY <1>1, <3>1, <3>3 DEF Held, GUILD_POS_MASTER, GUILD_POS_SENIOR, GUILD_POS_MEMBER
      <3>5. All = A \cup {g}
        BY <1>1, <3>1, <3>3, FirstAssumption DEF Held, Membership
      <3>6. Cardinality(A \cup {g}) = Cardinality(A) + 1
        BY <3>2, <3>4, FS_AddElement
      <3>7. guild[g].total = Cardinality(All) /\ guild[g].there
        <4>1. PICK n : n = Cardinality(All)
          OBVIOUS
        <4>2. guild[g] = [there |-> TRUE, glevel |-> 1, gold |-> CreateGold, total |-> n]
          BY <2>2, <4>1 DEF Init
        <4>3. QED
          BY <4>1, <4>2
      <3> HIDE DEF All
      <3>8. Exists(g) /\ Cardinality(Held(g)) + 1 + 0 <= guild[g].total
        BY <3>1, <3>2, <3>5, <3>6, <3>7, Nobody DEF Exists
      <3>9. QED
        BY <2>1, <3>8 DEF Fits
    <2>3. CASE g \notin FirstGuilds
      <3>1. guild[g] = NoRow
        BY <2>3, Zenon DEF Init
      <3>2. ~Exists(g)
        BY <3>1 DEF Exists, NoRow
      <3>3. \A e \in User : First[e].gid # g
        BY <2>3, FirstAssumption, Nobody DEF FirstGuilds
      <3>4. Held(g) = {}
        BY <1>1, <3>3 DEF Held
      <3>5. QED
        BY <3>2, <3>4 DEF Fits
    <2>4. QED
      BY <2>2, <2>3
  <1>5. QED
    BY <1>3, <1>4 DEF CountInv

\* With one worker total_member counts every member, whatever statement
\* fails and wherever a request stops: the limit on members holds.
THEOREM TotalStaysCovered == Spec => []TotalCovers
  <1>1. Init => CInv
    BY CountInit
  <1>2. TInv /\ MInv /\ CInv /\ [Next]_vars => CInv'
    BY CountStep
  <1>3. TInv /\ MInv /\ CInv => TotalCovers
    <2> SUFFICES ASSUME TInv, MInv, CInv, threads = 1, NEW g \in User, Exists(g)
                 PROVE  Cardinality(Members(g)) <= guild[g].total
      BY DEF TotalCovers
    <2>1. Fits(g) /\ PosOK /\ guild[g].total \in Int
      BY DEF CInv, CountInv, MInv, OneInv, TInv, GuildOK
    <2>2. PICK A : A = Held(g)
      OBVIOUS
    <2>3. IsFiniteSet(A) /\ Cardinality(A) \in Nat
      BY <2>2, HeldCount
    <2>4. Members(g) \subseteq A \cup {g}
      BY <2>1, <2>2 DEF PosOK, Members, Membership, Held
    <2>5. IsFiniteSet(A \cup {g}) /\ Cardinality(A \cup {g}) <= Cardinality(A) + 1
      <3>1. /\ IsFiniteSet(A \cup {g})
            /\ Cardinality(A \cup {g}) = IF g \in A THEN Cardinality(A) ELSE Cardinality(A) + 1
        BY <2>3, FS_AddElement
      <3>2. QED
        BY <2>3, <3>1
    <2>6. Cardinality(Members(g)) \in Nat /\ Cardinality(Members(g)) <= Cardinality(A \cup {g})
      BY <2>4, <2>5, FS_Subset, FS_CardinalityType
    <2>7. Cardinality(A) + 1 <= guild[g].total
      BY <2>1, <2>2, <2>3 DEF Fits, Spare
    <2>8. Cardinality(A \cup {g}) \in Nat
      BY <2>5, FS_CardinalityType
    <2>9. QED
      BY <2>1, <2>3, <2>5, <2>6, <2>7, <2>8
  <1>4. Init => MInv
    BY ListsInit
  <1>5. TInv /\ MInv /\ [Next]_vars => MInv'
    BY ListsStep
  <1>6. QED
    BY <1>1, <1>2, <1>3, <1>4, <1>5, TypeInvariant, PTL DEF Spec
=============================================================================
