-------------------------------- MODULE Guild --------------------------------
(***************************************************************************)
(* The guilds of dbio.cpp and nio.cpp.  A guild is a row of evil_guild     *)
(* (its gid is the eid of its master), the rows of evil_status whose gid   *)
(* it is, and one row of evil_guild_share per member.  The workers change  *)
(* them statement by statement without a transaction, and each statement   *)
(* may fail.  The main loop decides by what it has cached: the user's gid, *)
(* gpos and gold in its connection, and g_guild_map, the members who are   *)
(* online with the guild's level and gold.                                 *)
(*                                                                         *)
(* Abstracted: crystal (spent beside gold in the same statements), names,  *)
(* the log of deposits, the size of a share (there is one or it is 0), and *)
(* the commands that only list.  A reply whose connection has gone is      *)
(* dropped; module DbPipe is about what else may become of it.             *)
(***************************************************************************)
EXTENDS Integers, Sequences, FiniteSets, FiniteSetsExt

CONSTANTS
    User,         \* eids
    Workers,      \* the values of MAX_DB_THREAD looked at
    MemberMax,    \* design: member_max of each level
    LevelUpGold,  \* design: levelup_gold of each level
    CreateGold,   \* design: create_guild_gold
    First,        \* evil_status at the start
    Roaming,      \* bound: the users that come and go
    Wishes,       \* bound: who sends what, pairs of a command and a user
    CmdMax,       \* bound: commands and logins sent
    QueueMax,     \* bound: requests under way
    FailMax       \* bound: statements that fail

Levels == DOMAIN MemberMax
NoGuild == 0

GUILD_POS_NONE == 0
GUILD_POS_MASTER == 1
GUILD_POS_SENIOR == 2
GUILD_POS_MEMBER == 3
GUILD_POS_APPLY == 9
Gpos == {GUILD_POS_NONE, GUILD_POS_MASTER, GUILD_POS_SENIOR, GUILD_POS_MEMBER, GUILD_POS_APPLY}
Membership == {GUILD_POS_MASTER, GUILD_POS_SENIOR, GUILD_POS_MEMBER}

ASSUME GuildAssumption ==
    /\ User \subseteq Nat \ {0} /\ IsFiniteSet(User) /\ Workers \subseteq Nat \ {0}
    /\ MemberMax \in Seq(Nat \ {0})
    /\ LevelUpGold \in [Levels -> Nat \ {0}] /\ CreateGold \in Nat \ {0}
    /\ First \in [User -> [gid : User \cup {NoGuild}, gpos : Gpos, gold : Nat]]
    /\ Roaming \subseteq User /\ {CmdMax, QueueMax, FailMax} \subseteq Nat

\* A master has a guild of its own, and a guild has its master.
ASSUME FirstAssumption ==
    \A e \in User :
        /\ First[e].gid = NoGuild <=> First[e].gpos = GUILD_POS_NONE
        /\ First[e].gpos = GUILD_POS_MASTER => First[e].gid = e
        /\ First[e].gid # NoGuild => First[First[e].gid].gpos = GUILD_POS_MASTER

VARIABLES
    threads,   \* MAX_DB_THREAD
    status,    \* evil_status: gid, gpos, gold of each user
    guild,     \* evil_guild: rows by gid
    share,     \* evil_guild_share: rows by eid; gid = NoGuild where there is none
    conn,      \* the user's connection: euser.gid, gpos, gold, and db_flag
    map,       \* g_guild_map: who is in it, glevel (0: not loaded) and gold
    queue,     \* worker -> its requests, from the oldest one not yet answered
    cmds,      \* history: commands sent
    fails,     \* history: statements that failed
    lapse,     \* history: a request stopped half-way, or nobody heard its reply
    ledger     \* history: all gold there should be

tables == <<status, guild, share, ledger>>
main == <<conn, map>>
bounds == <<threads, cmds, fails>>
vars == <<threads, status, guild, share, conn, map, queue, cmds, fails, lapse, ledger>>

NoRow == [there |-> FALSE, total |-> 0, glevel |-> 0, gold |-> 0]
NoShare == [gid |-> NoGuild, gshare |-> FALSE, today |-> FALSE, paid |-> 0]
Offline == [up |-> FALSE, gid |-> NoGuild, gpos |-> GUILD_POS_NONE, gold |-> 0, busy |-> FALSE]
NotLoaded == [mem |-> {}, glevel |-> 0, gold |-> 0]

Exists(g) == g # NoGuild /\ guild[g].there
Thread == 0 .. threads - 1
NoOne == 0

\* A request: whose connection hears the answer (by), about which user (e)
\* and guild (g), its number (x: position, gold or level) and member_max,
\* how far the worker is (at), what it has read (got), whether it succeeded.
NewRequest(cmd, by, e, g, x, max) ==
    [cmd |-> cmd, by |-> by, e |-> e, g |-> g, x |-> x, max |-> max,
     at |-> "new", good |-> FALSE, got |-> <<>>]

Requests == UNION {{<<th, i>> : i \in 1 .. Len(queue[th])} : th \in Thread}
At(r) == queue[r[1]][r[2]]
UnderWay == {At(r) : r \in Requests}

------------------------------------------------------------------------------
(* g_guild_map.                                                            *)

\* gid_add_eid(), guild_add_member()
GidAddEid(m, g, e) == IF g = NoGuild THEN m ELSE [m EXCEPT ![g].mem = @ \cup {e}]

\* gid_del_eid(), guild_del_member(): the last member takes the entry with it.
GidDelEid(m, g, e) ==
    IF g = NoGuild \/ e \notin m[g].mem THEN m
    ELSE IF m[g].mem = {e} THEN [m EXCEPT ![g] = NotLoaded]
    ELSE [m EXCEPT ![g].mem = @ \ {e}]

\* Mutant: who leaves the server stays in the list.
CleanNothing(m, e) == m

\* guild_clean(): a member that leaves the server.
GuildClean(m, e) ==
    IF conn[e].gpos \in Membership THEN GidDelEid(m, conn[e].gid, e) ELSE m

\* Membership of e as cached.
Cache(c, e, g, p) == IF c[e].up THEN [c EXCEPT ![e].gid = g, ![e].gpos = p] ELSE c

\* guild_clear(): the members in the list are told, and the entry is erased.
GuildClear(c, g) ==
    [e \in User |-> IF c[e].up /\ e \in map[g].mem
                    THEN [c[e] EXCEPT !.gid = NoGuild, !.gpos = GUILD_POS_NONE] ELSE c[e]]

------------------------------------------------------------------------------
(* What users send: the checks of the main loop, on what it has cached.    *)

\* dbin_write(): to the worker of the user.
DbinWrite(e, q) ==
    /\ <<q.cmd, e>> \in Wishes /\ cmds < CmdMax /\ Cardinality(Requests) < QueueMax
    /\ conn[e].up /\ ~conn[e].busy
    /\ queue' = [queue EXCEPT ![e % threads] = Append(@, q)]
    /\ conn' = [conn EXCEPT ![e].busy = TRUE]
    /\ cmds' = cmds + 1
    /\ UNCHANGED <<threads, status, guild, share, map, fails, lapse, ledger>>

Loaded(g) == map[g].glevel # 0
Member(e) == conn[e].gid # NoGuild /\ conn[e].gpos # GUILD_POS_APPLY
Officer(e) == conn[e].gpos \in {GUILD_POS_MASTER, GUILD_POS_SENIOR}

DbinCreateGuild(e) ==
    /\ conn[e].gid = NoGuild /\ conn[e].gold >= CreateGold
    /\ DbinWrite(e, NewRequest("create", e, e, e, CreateGold, 0))

DbinDeleteGuild(e) ==
    /\ conn[e].gid = e
    /\ DbinWrite(e, NewRequest("delete", e, e, e, 0, 0))

DbinGapply(e, g) ==
    /\ conn[e].gid = NoGuild
    /\ DbinWrite(e, NewRequest("apply", e, e, g, 0, 0))

DbinGpos(e, t, pos) ==
    LET g == conn[e].gid IN
    /\ Officer(e) /\ g # NoGuild /\ Loaded(g)
    /\ DbinWrite(e, NewRequest("gpos", e, t, g, pos, MemberMax[map[g].glevel]))

\* e leaves, or an officer e removes t; who applies sends no member_max.
DbinGquit(e, t) ==
    LET g == conn[e].gid IN
    /\ t # e => Officer(e) /\ t # g
    /\ g # NoGuild
    /\ ~(t = e /\ conn[e].gpos = GUILD_POS_MASTER)
    /\ conn[e].gpos = GUILD_POS_APPLY \/ Loaded(g)
    /\ DbinWrite(e, NewRequest("gquit", e, t, g, 0,
           IF conn[e].gpos = GUILD_POS_APPLY THEN 0 ELSE MemberMax[map[g].glevel]))

DbinGdeposit(e, gold) ==
    /\ Member(e) /\ gold <= conn[e].gold
    /\ DbinWrite(e, NewRequest("deposit", e, e, conn[e].gid, gold, 0))

\* get_flag = 1; without it the bonus is only shown.
DbinGbonus(e) ==
    /\ Member(e)
    /\ DbinWrite(e, NewRequest("bonus", e, e, NoGuild, 0, 0))

DbinGlv(e) ==
    /\ conn[e].gid # NoGuild
    /\ DbinWrite(e, NewRequest("glv", e, e, conn[e].gid, 0, 0))

DbinGlevelup(e) ==
    /\ conn[e].gid = e /\ conn[e].gpos = GUILD_POS_MASTER
    /\ Loaded(e) /\ map[e].glevel < Cardinality(Levels)
    /\ map[e].gold > LevelUpGold[map[e].glevel]
    /\ DbinWrite(e, NewRequest("glevelup", e, e, e, map[e].glevel, 0))

------------------------------------------------------------------------------
(* The workers, a statement at a time.  ok says that the statement did not *)
(* fail with an error of MySQL; a WHERE that matches no row ends the       *)
(* function too.                                                           *)

Current(th, i) ==
    /\ queue[th][i].at # "done"
    /\ \A j \in 1 .. i - 1 : queue[th][j].at = "done"

Set(th, i, q) == queue' = [queue EXCEPT ![th][i] = q]

\* The request goes on, succeeds, or ends with an error before (Refuse) or
\* after it has changed something (Break).
Go(th, i, at) == Set(th, i, [queue[th][i] EXCEPT !.at = at]) /\ UNCHANGED lapse
Succeed(th, i) == Set(th, i, [queue[th][i] EXCEPT !.at = "done", !.good = TRUE]) /\ UNCHANGED lapse
Refuse(th, i) == Set(th, i, [queue[th][i] EXCEPT !.at = "done"]) /\ UNCHANGED lapse
Break(th, i) == Set(th, i, [queue[th][i] EXCEPT !.at = "done"]) /\ lapse' = TRUE

\* update_status_guild(): a compare and set of gid and gpos.
StatusIs(e, g, p) == status[e].gid = g /\ status[e].gpos = p
UpdateStatusGuild(e, g, p) == status' = [status EXCEPT ![e].gid = g, ![e].gpos = p]

\* update_money(): never below 0.
UpdateMoney(e, x) == status' = [status EXCEPT ![e].gold = @ + x]

\* guild_member_change()
MayChange(g, offset, max) == max > 0 /\ Exists(g) /\ guild[g].total + offset <= max
GuildMemberChange(g, offset) == guild' = [guild EXCEPT ![g].total = @ + offset]

\* insert_guild_share(): eid is the key.
MayInsertShare(e) == share[e].gid = NoGuild
InsertGuildShare(e, g, all) == share' = [share EXCEPT ![e] = [NoShare EXCEPT !.gid = g, !.gshare = all]]

\* in_create_guild(): check_create_guild(), then money, status, guild, share.
InCreateGuild(th, i, ok) ==
    LET q == queue[th][i] IN
    \/ /\ q.at = "new" /\ UNCHANGED tables
       /\ IF ok /\ status[q.e].gid = NoGuild THEN Go(th, i, "checked") ELSE Refuse(th, i)
    \/ /\ q.at = "checked" /\ UNCHANGED <<guild, share, ledger>>
       /\ IF ok /\ status[q.e].gold >= q.x
          THEN UpdateMoney(q.e, -q.x) /\ Go(th, i, "paid")
          ELSE UNCHANGED status /\ Refuse(th, i)
    \/ /\ q.at = "paid" /\ UNCHANGED <<guild, share, ledger>>
       /\ IF ok /\ StatusIs(q.e, NoGuild, GUILD_POS_NONE)
          THEN UpdateStatusGuild(q.e, q.g, GUILD_POS_MASTER) /\ Go(th, i, "joined")
          ELSE UNCHANGED status /\ Break(th, i)
    \/ /\ q.at = "joined" /\ UNCHANGED <<status, share, ledger>>
       /\ IF ok /\ ~Exists(q.g)
          THEN /\ guild' = [guild EXCEPT ![q.g] =
                      [there |-> TRUE, total |-> 1, glevel |-> 1, gold |-> q.x]]
               /\ Go(th, i, "founded")
          ELSE UNCHANGED guild /\ Break(th, i)
    \/ /\ q.at = "founded" /\ UNCHANGED <<status, guild, ledger>>
       /\ IF ok /\ MayInsertShare(q.e) THEN InsertGuildShare(q.e, q.g, TRUE) /\ Succeed(th, i)
          ELSE UNCHANGED share /\ Break(th, i)

\* in_guild_apply(): check_guild_exist(), then status.
InGuildApply(th, i, ok) ==
    LET q == queue[th][i] IN
    \/ /\ q.at = "new" /\ UNCHANGED tables
       /\ IF ok /\ Exists(q.g) THEN Go(th, i, "found") ELSE Refuse(th, i)
    \/ /\ q.at = "found" /\ UNCHANGED <<guild, share, ledger>>
       /\ IF ok /\ StatusIs(q.e, NoGuild, GUILD_POS_NONE)
          THEN UpdateStatusGuild(q.e, q.g, GUILD_POS_APPLY) /\ Succeed(th, i)
          ELSE UNCHANGED status /\ Refuse(th, i)

\* in_guild_pos(): get_status(), then guild_approve() or guild_promote().
InGuildPos(th, i, ok) ==
    LET q == queue[th][i]
        other == IF q.x = GUILD_POS_SENIOR THEN GUILD_POS_MEMBER ELSE GUILD_POS_SENIOR
    IN
    \/ /\ q.at = "new" /\ UNCHANGED tables
       /\ IF ~ok \/ status[q.e].gpos = GUILD_POS_MASTER THEN Refuse(th, i)
          ELSE Go(th, i, IF status[q.e].gpos = GUILD_POS_APPLY THEN "approve" ELSE "promote")
    \/ /\ q.at = "promote" /\ UNCHANGED <<guild, share, ledger>>
       /\ IF ok /\ StatusIs(q.e, q.g, other)
          THEN UpdateStatusGuild(q.e, q.g, q.x) /\ Succeed(th, i)
          ELSE UNCHANGED status /\ Refuse(th, i)
    \/ /\ q.at = "approve" /\ UNCHANGED <<status, share, ledger>>
       /\ IF ok /\ MayChange(q.g, 1, q.max) THEN GuildMemberChange(q.g, 1) /\ Go(th, i, "counted")
          ELSE UNCHANGED guild /\ Refuse(th, i)
    \/ /\ q.at = "counted" /\ UNCHANGED <<guild, share, ledger>>
       /\ IF ok /\ StatusIs(q.e, q.g, GUILD_POS_APPLY)
          THEN UpdateStatusGuild(q.e, q.g, q.x) /\ Go(th, i, "joined")
          ELSE UNCHANGED status /\ Go(th, i, "undo")
    \/ /\ q.at = "undo" /\ UNCHANGED <<status, share, ledger>>
       /\ IF ok /\ MayChange(q.g, -1, q.max) THEN GuildMemberChange(q.g, -1) /\ Refuse(th, i)
          ELSE UNCHANGED guild /\ Break(th, i)
    \/ /\ q.at = "joined" /\ UNCHANGED <<status, guild, ledger>>
       /\ IF ok /\ MayInsertShare(q.e) THEN InsertGuildShare(q.e, q.g, FALSE) /\ Succeed(th, i)
          ELSE UNCHANGED share /\ Break(th, i)

\* Mutant: the member is counted out before it has left.
QuitCountsFirst(th, i, ok) ==
    LET q == queue[th][i] IN
    \/ /\ q.at = "new" /\ UNCHANGED <<status, share, ledger>>
       /\ IF ok /\ status[q.e].gid = q.g /\ status[q.e].gpos \in {GUILD_POS_SENIOR, GUILD_POS_MEMBER}
          THEN /\ GuildMemberChange(q.g, -1)
               /\ Set(th, i, [q EXCEPT !.at = "leave", !.got = <<status[q.e].gpos>>]) /\ UNCHANGED lapse
          ELSE UNCHANGED guild /\ Refuse(th, i)
    \/ /\ q.at = "leave" /\ UNCHANGED <<guild, share, ledger>>
       /\ IF ok /\ StatusIs(q.e, q.g, q.got[1])
          THEN UpdateStatusGuild(q.e, NoGuild, GUILD_POS_NONE) /\ Succeed(th, i)
          ELSE UNCHANGED status /\ Refuse(th, i)

\* in_guild_quit(): get_status(), then status, share and total_member.
InGuildQuit(th, i, ok) ==
    LET q == queue[th][i] IN
    \/ /\ q.at = "new" /\ UNCHANGED tables
       /\ IF ok /\ status[q.e].gid = q.g /\ status[q.e].gpos # GUILD_POS_MASTER
          THEN Set(th, i, [q EXCEPT !.at = "leave", !.got = <<status[q.e].gpos>>]) /\ UNCHANGED lapse
          ELSE Refuse(th, i)
    \/ /\ q.at = "leave" /\ UNCHANGED <<guild, share, ledger>>
       /\ IF ok /\ StatusIs(q.e, q.g, q.got[1])
          THEN /\ UpdateStatusGuild(q.e, NoGuild, GUILD_POS_NONE)
               /\ IF q.got[1] = GUILD_POS_APPLY THEN Succeed(th, i) ELSE Go(th, i, "left")
          ELSE UNCHANGED status /\ Refuse(th, i)
    \/ /\ q.at = "left" /\ UNCHANGED <<status, guild, ledger>>
       /\ IF ok /\ share[q.e].gid = q.g
          THEN share' = [share EXCEPT ![q.e] = NoShare] /\ Go(th, i, "unshared")
          ELSE UNCHANGED share /\ Break(th, i)
    \/ /\ q.at = "unshared" /\ UNCHANGED <<status, share, ledger>>
       /\ IF ok /\ MayChange(q.g, -1, q.max) THEN GuildMemberChange(q.g, -1) /\ Succeed(th, i)
          ELSE UNCHANGED guild /\ Break(th, i)

\* in_delete_guild(): every gid of the guild is cleared, then one DELETE
\* joins the guild with its shares, and deletes nothing if it has none.
InDeleteGuild(th, i, ok) ==
    LET q == queue[th][i] IN
    \/ /\ q.at = "new" /\ UNCHANGED tables
       /\ IF ok /\ Exists(q.g) THEN Go(th, i, "found") ELSE Refuse(th, i)
    \/ /\ q.at = "found" /\ UNCHANGED <<guild, share, ledger>>
       /\ IF ok
          THEN /\ status' = [e \in User |-> IF status[e].gid # q.g THEN status[e]
                                ELSE [status[e] EXCEPT !.gid = NoGuild, !.gpos = GUILD_POS_NONE]]
               /\ Go(th, i, "kicked")
          ELSE UNCHANGED status /\ Refuse(th, i)
    \/ /\ q.at = "kicked" /\ UNCHANGED status
       /\ IF ok
          THEN LET joined == {e \in User : share[e].gid = q.g} IN
               /\ Succeed(th, i)
               /\ IF Exists(q.g) /\ joined # {}
                  THEN /\ guild' = [guild EXCEPT ![q.g] = NoRow]
                       /\ share' = [e \in User |-> IF e \in joined THEN NoShare ELSE share[e]]
                       /\ ledger' = ledger - guild[q.g].gold
                  ELSE UNCHANGED <<guild, share, ledger>>
          ELSE UNCHANGED <<guild, share, ledger>> /\ Break(th, i)

\* Mutant: the guild is given what the member is then asked to pay.
DepositGivesFirst(th, i, ok) ==
    LET q == queue[th][i] IN
    \/ /\ q.at = "new" /\ UNCHANGED <<status, share, ledger>>
       /\ IF ok /\ Exists(q.g)
          THEN guild' = [guild EXCEPT ![q.g].gold = @ + q.x] /\ Go(th, i, "found")
          ELSE UNCHANGED guild /\ Refuse(th, i)
    \/ /\ q.at = "found" /\ UNCHANGED <<guild, share, ledger>>
       /\ IF ok /\ status[q.e].gold >= q.x
          THEN UpdateMoney(q.e, -q.x) /\ Succeed(th, i)
          ELSE UNCHANGED status /\ Refuse(th, i)

\* in_guild_deposit(): get_guild_gold(), the member's gold, the guild's, the
\* shares (a share that is missing is nobody's error).
InGuildDeposit(th, i, ok) ==
    LET q == queue[th][i] IN
    \/ /\ q.at = "new" /\ UNCHANGED tables
       /\ IF ok /\ Exists(q.g) THEN Go(th, i, "found") ELSE Refuse(th, i)
    \/ /\ q.at = "found" /\ UNCHANGED <<guild, share, ledger>>
       /\ IF ok /\ status[q.e].gold >= q.x
          THEN UpdateMoney(q.e, -q.x) /\ Go(th, i, "paid")
          ELSE UNCHANGED status /\ Refuse(th, i)
    \/ /\ q.at = "paid" /\ UNCHANGED <<status, share, ledger>>
       /\ IF ok /\ Exists(q.g)
          THEN guild' = [guild EXCEPT ![q.g].gold = @ + q.x] /\ Go(th, i, "given")
          ELSE UNCHANGED guild /\ Break(th, i)
    \/ /\ q.at = "given" /\ UNCHANGED <<status, guild, ledger>>
       /\ IF ok
          THEN /\ share' = IF share[q.e].gid = NoGuild THEN share
                           ELSE [share EXCEPT ![q.e].gshare = TRUE]
               /\ Succeed(th, i)
          ELSE UNCHANGED share /\ Break(th, i)

\* Mutant: the date of the last bonus is not looked at.
BonusAnyTime(e) == Exists(share[e].gid)

BonusDue(e) == Exists(share[e].gid) /\ ~share[e].today

\* in_guild_bonus(): the share and its guild's gold, the payment, the date
\* of the bonus.  The guild keeps its gold; the bonus is a part of it.
InGuildBonus(th, i, ok) ==
    LET q == queue[th][i] IN
    \/ /\ q.at = "new" /\ UNCHANGED tables
       /\ IF ok /\ BonusDue(q.e)
          THEN /\ \E bonus \in 0 .. IF share[q.e].gshare THEN 1 ELSE 0 :
                     Set(th, i, [q EXCEPT !.at = "due", !.x = bonus])
               /\ UNCHANGED lapse
          ELSE Refuse(th, i)
    \/ /\ q.at = "due" /\ UNCHANGED guild
       /\ IF ok
          THEN /\ UpdateMoney(q.e, q.x) /\ Go(th, i, "paid")
               /\ share' = [share EXCEPT ![q.e].paid = @ + q.x]
               /\ ledger' = ledger + q.x
          ELSE UNCHANGED <<status, share, ledger>> /\ Refuse(th, i)
    \/ /\ q.at = "paid" /\ UNCHANGED <<status, guild, ledger>>
       /\ IF ok /\ share[q.e].gid # NoGuild
          THEN share' = [share EXCEPT ![q.e].today = TRUE] /\ Succeed(th, i)
          ELSE UNCHANGED share /\ Break(th, i)

\* in_glv()
InGlv(th, i, ok) ==
    LET q == queue[th][i] IN
    /\ q.at = "new" /\ UNCHANGED tables
    /\ IF ok /\ Exists(q.g)
       THEN /\ Set(th, i, [q EXCEPT !.at = "done", !.good = TRUE,
                              !.got = <<guild[q.g].glevel, guild[q.g].gold>>])
            /\ UNCHANGED lapse
       ELSE Refuse(th, i)

\* in_glevelup(): one compare and set.
InGlevelup(th, i, ok) ==
    LET q == queue[th][i]
        x == LevelUpGold[q.x]
    IN /\ q.at = "new" /\ UNCHANGED <<status, share>>
       /\ IF ok /\ Exists(q.g) /\ guild[q.g].glevel = q.x /\ guild[q.g].gold > x
          THEN /\ guild' = [guild EXCEPT ![q.g].glevel = @ + 1, ![q.g].gold = @ - x]
               /\ ledger' = ledger - x /\ Succeed(th, i)
          ELSE UNCHANGED <<guild, ledger>> /\ Refuse(th, i)

\* in_login() reads the row of the user joined with its guild's.
InLogin(th, i) ==
    LET q == queue[th][i]
        g == status[q.e].gid
    IN /\ q.at = "new" /\ UNCHANGED tables /\ UNCHANGED lapse
       /\ Set(th, i, [q EXCEPT !.at = "done", !.good = TRUE,
                 !.got = <<g, status[q.e].gpos, status[q.e].gold,
                           IF Exists(g) THEN guild[g].glevel ELSE 0>>])

Fails(ok) == ~ok => fails < FailMax

\* dbio(): the oldest unanswered request of a worker, by its type.
Dbio(th) ==
    \E i \in 1 .. Len(queue[th]), ok \in BOOLEAN :
       /\ Current(th, i) /\ Fails(ok)
       /\ \/ queue[th][i].cmd = "create" /\ InCreateGuild(th, i, ok)
          \/ queue[th][i].cmd = "apply" /\ InGuildApply(th, i, ok)
          \/ queue[th][i].cmd = "gpos" /\ InGuildPos(th, i, ok)
          \/ queue[th][i].cmd = "gquit" /\ InGuildQuit(th, i, ok)
          \/ queue[th][i].cmd = "delete" /\ InDeleteGuild(th, i, ok)
          \/ queue[th][i].cmd = "deposit" /\ InGuildDeposit(th, i, ok)
          \/ queue[th][i].cmd = "bonus" /\ InGuildBonus(th, i, ok)
          \/ queue[th][i].cmd = "glv" /\ InGlv(th, i, ok)
          \/ queue[th][i].cmd = "glevelup" /\ InGlevelup(th, i, ok)
          \/ queue[th][i].cmd = "login" /\ ok /\ InLogin(th, i)
       /\ fails' = IF ok THEN fails ELSE fails + 1
       /\ UNCHANGED <<conn, map, threads, cmds>>

------------------------------------------------------------------------------
(* The replies.  q.by still hears them; c is the connections with q.by's   *)
(* db_flag reset.                                                          *)

OutCreateGuild(q, c) ==
    /\ conn' = [c EXCEPT ![q.by].gid = q.g, ![q.by].gpos = GUILD_POS_MASTER, ![q.by].gold = @ - q.x]
    /\ map' = GidAddEid(map, q.g, q.g)

\* out_delete_guild(): only if the connection is still of that guild.
OutDeleteGuild(q, c) ==
    IF conn[q.by].gid = q.g
    THEN /\ conn' = Cache(GuildClear(c, q.g), q.by, NoGuild, GUILD_POS_NONE)
         /\ map' = [map EXCEPT ![q.g] = NotLoaded]
    ELSE conn' = c /\ UNCHANGED map

OutGapply(q, c) == conn' = Cache(c, q.e, q.g, GUILD_POS_APPLY) /\ UNCHANGED map

OutGpos(q, c) ==
    /\ conn' = Cache(c, q.e, q.g, q.x)
    /\ map' = IF conn[q.e].up THEN GidAddEid(map, q.g, q.e) ELSE map

\* Mutant: a member who is removed keeps the guild until the next login.
QuitUntold(q, c) == conn' = c /\ UNCHANGED map

OutGquit(q, c) ==
    /\ conn' = Cache(c, q.e, NoGuild, GUILD_POS_NONE)
    /\ map' = IF conn[q.e].up /\ conn[q.e].gpos # GUILD_POS_APPLY THEN GidDelEid(map, q.g, q.e) ELSE map

OutGdeposit(q, c) == conn' = [c EXCEPT ![q.by].gold = @ - q.x] /\ UNCHANGED map

OutGbonus(q, c) == conn' = [c EXCEPT ![q.by].gold = @ + q.x] /\ UNCHANGED map

\* out_glv(), out_glevelup(): get_guild_by_gid() makes the entry if need be.
OutGlv(q, c) ==
    conn' = c /\ map' = [map EXCEPT ![q.g].glevel = q.got[1], ![q.g].gold = q.got[2]]
OutGlevelup(q, c) ==
    conn' = c /\ map' = [map EXCEPT ![q.g].glevel = q.x + 1, ![q.g].gold = @ - LevelUpGold[q.x]]

\* out_login(): a member joins the list, which learns the guild's level.
OutLogin(q, c) ==
    LET g == q.got[1] IN
    /\ conn' = [c EXCEPT ![q.e] = [up |-> TRUE, gid |-> g, gpos |-> q.got[2],
                                   gold |-> q.got[3], busy |-> FALSE]]
    /\ map' = IF g # NoGuild /\ q.got[2] # GUILD_POS_APPLY
              THEN [GidAddEid(map, g, q.e) EXCEPT ![g].glevel = q.got[4]] ELSE map

\* dbout(): the reply is taken and db_flag reset.  One that comes from a
\* connection gone by now is dropped: the others it should have reached
\* (lapse) do not hear of it.
Dbout(th) ==
    LET q == Head(queue[th])
        heard == q.by # NoOne \/ q.cmd = "login"
        c == IF q.by = NoOne THEN conn ELSE [conn EXCEPT ![q.by].busy = FALSE]
    IN /\ queue[th] # <<>> /\ q.at = "done"
       /\ queue' = [queue EXCEPT ![th] = Tail(@)]
       /\ lapse' = (lapse \/ (q.good /\ ~heard))
       /\ IF ~q.good \/ ~heard THEN conn' = c /\ UNCHANGED map
          ELSE \/ q.cmd = "create" /\ OutCreateGuild(q, c)
               \/ q.cmd = "delete" /\ OutDeleteGuild(q, c)
               \/ q.cmd = "apply" /\ OutGapply(q, c)
               \/ q.cmd = "gpos" /\ OutGpos(q, c)
               \/ q.cmd = "gquit" /\ OutGquit(q, c)
               \/ q.cmd = "deposit" /\ OutGdeposit(q, c)
               \/ q.cmd = "bonus" /\ OutGbonus(q, c)
               \/ q.cmd = "glv" /\ OutGlv(q, c)
               \/ q.cmd = "glevelup" /\ OutGlevelup(q, c)
               \/ q.cmd = "login" /\ OutLogin(q, c)
       /\ UNCHANGED <<tables, bounds>>

------------------------------------------------------------------------------
(* Users come and go, days pass.                                           *)

\* dbin_login(): a connection without a user asks any worker.
DbinLogin(e, th) ==
    /\ ~conn[e].up /\ cmds < CmdMax
    /\ \A q \in UnderWay : ~(q.cmd = "login" /\ q.e = e)
    /\ queue' = [queue EXCEPT ![th] = Append(@, NewRequest("login", NoOne, e, NoGuild, 0, 0))]
    /\ cmds' = cmds + 1
    /\ UNCHANGED <<tables, main, threads, fails, lapse>>

\* do_clean(): nobody hears what the user's connection has asked for.
DoClean(e) ==
    /\ e \in Roaming /\ conn[e].up
    /\ map' = GuildClean(map, e)
    /\ conn' = [conn EXCEPT ![e] = Offline]
    /\ queue' = [th \in Thread |-> [i \in 1 .. Len(queue[th]) |->
                    IF queue[th][i].by = e THEN [queue[th][i] EXCEPT !.by = NoOne] ELSE queue[th][i]]]
    /\ UNCHANGED <<tables, bounds, lapse>>

\* get_yesterday(): a bonus of yesterday is no bonus of today.
Midnight ==
    /\ \E e \in User : share[e].today
    /\ share' = [e \in User |-> [share[e] EXCEPT !.today = FALSE, !.paid = 0]]
    /\ UNCHANGED <<status, guild, ledger, main, queue, bounds, lapse>>

FirstGuilds == {e \in User : First[e].gpos = GUILD_POS_MASTER}

Init ==
    /\ threads \in Workers
    /\ status = First
    /\ guild = [g \in User |-> IF g \notin FirstGuilds THEN NoRow
                  ELSE [there |-> TRUE, glevel |-> 1, gold |-> CreateGold, total |->
                        Cardinality({e \in User : First[e].gid = g /\ First[e].gpos \in Membership})]]
    /\ share = [e \in User |-> IF First[e].gpos \notin Membership THEN NoShare
                  ELSE [NoShare EXCEPT !.gid = First[e].gid, !.gshare = First[e].gpos = GUILD_POS_MASTER]]
    /\ conn = [e \in User |-> [up |-> TRUE, gid |-> First[e].gid, gpos |-> First[e].gpos,
                               gold |-> First[e].gold, busy |-> FALSE]]
    /\ map = [g \in User |-> IF g \notin FirstGuilds THEN NotLoaded
                ELSE [glevel |-> 1, gold |-> CreateGold, mem |->
                      {e \in User : First[e].gid = g /\ First[e].gpos \in Membership}]]
    /\ queue = [th \in Thread |-> <<>>]
    /\ cmds = 0 /\ fails = 0 /\ lapse = FALSE
    /\ ledger = MapThenSumSet(LAMBDA e : status[e].gold + guild[e].gold, User)

Next ==
    \/ \E e \in User : \/ DbinCreateGuild(e) \/ DbinDeleteGuild(e) \/ DbinGdeposit(e, 1)
                       \/ DbinGbonus(e) \/ DbinGlv(e) \/ DbinGlevelup(e) \/ DoClean(e)
    \/ \E e, t \in User : \/ DbinGapply(e, t) \/ DbinGquit(e, t)
                          \/ DbinGpos(e, t, GUILD_POS_SENIOR) \/ DbinGpos(e, t, GUILD_POS_MEMBER)
    \/ \E th \in Thread : Dbio(th) \/ Dbout(th) \/ \E e \in User : DbinLogin(e, th)
    \/ Midnight

Spec == Init /\ [][Next]_vars

------------------------------------------------------------------------------
\* Every variable stays within the shape of the code's tables.
TypeOK ==
    /\ threads \in Workers
    /\ status \in [User -> [gid : User \cup {NoGuild}, gpos : Gpos, gold : Nat]]
    /\ guild \in [User -> [there : BOOLEAN, total : Int, glevel : Levels \cup {0}, gold : Nat]]
    /\ share \in [User -> [gid : User \cup {NoGuild}, gshare : BOOLEAN, today : BOOLEAN, paid : Nat]]
    /\ conn \in [User -> [up : BOOLEAN, gid : User \cup {NoGuild}, gpos : Gpos, gold : Int, busy : BOOLEAN]]
    /\ map \in [User -> [mem : SUBSET User, glevel : Levels \cup {0}, gold : Int]]
    /\ DOMAIN queue = Thread /\ lapse \in BOOLEAN
    /\ ledger \in Nat

\* Gold that a request has taken from its user and not yet given.
InFlight(q) ==
    IF \/ q.cmd = "create" /\ q.at \in {"paid", "joined"}
       \/ q.cmd = "deposit" /\ q.at = "paid" THEN q.x ELSE 0

Gold == MapThenSumSet(LAMBDA e : status[e].gold + guild[e].gold, User)
        + MapThenSumSet(LAMBDA r : InFlight(At(r)), Requests)

\* Whatever interleaves and fails, founding, paying in, levelling up and
\* deleting guilds makes no gold; and it is only lost where a request stops
\* half-way.
GoldKept == Gold <= ledger /\ (~lapse => Gold = ledger)

\* Nobody is paid the bonus of one share twice a day, unless the statement
\* that dates it has failed.
BonusOnce == \A e \in User : share[e].paid > 1 => lapse

Members(g) == {e \in User : status[e].gid = g /\ status[e].gpos \in Membership}

\* With one worker total_member counts every member, whatever statement
\* fails: the limit on members holds.
TotalCovers ==
    threads = 1 => \A g \in User : Exists(g) => Cardinality(Members(g)) <= guild[g].total

\* With one worker g_guild_map lists exactly the members who are online, as
\* they are cached: nobody else reads the guild's chat.
MemberListExact ==
    threads = 1 => \A g \in User :
        map[g].mem = {e \in User : conn[e].up /\ conn[e].gid = g /\ conn[e].gpos \in Membership}

\* With one worker, and no request stopped half-way, what a user's
\* connection has cached is what the tables say once all is answered; only
\* who applied to a guild that was deleted is not told.
CacheAgrees ==
    threads = 1 /\ ~lapse /\ Requests = {} =>
        \A e \in User : conn[e].up =>
            /\ conn[e].gold = status[e].gold
            /\ \/ conn[e].gid = status[e].gid /\ conn[e].gpos = status[e].gpos
               \/ conn[e].gpos = GUILD_POS_APPLY /\ status[e].gid = NoGuild
=============================================================================
