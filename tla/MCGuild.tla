------------------------------- MODULE MCGuild -------------------------------
(* Users 1 and 3 share a worker when there are two; 2 is a master, 1 its   *)
(* senior, 3 has no guild yet.                                             *)
EXTENDS Guild, TLC
MCMemberMax == <<3, 4>>
MCLevelUpGold == <<1, 1>>
MCFirst == (1 :> [gid |-> 2, gpos |-> 2, gold |-> 1]) @@ (2 :> [gid |-> 2, gpos |-> 1, gold |-> 3])
           @@ (3 :> [gid |-> 0, gpos |-> 0, gold |-> 1])
MCWishes == ({"create", "delete", "glevelup", "glv", "bonus"} \X {2})
            \cup ({"gpos", "gquit", "deposit"} \X {1}) \cup ({"apply", "gquit"} \X {3})
=============================================================================
