------------------------------ MODULE MCShard -------------------------------
(* ShardMaster with the scripts of the clerks that TLC checks. *)
EXTENDS ShardInv

CONSTANTS c1, c2

Join(gids) == [type |-> "Join", gids |-> gids]
Leave(gids) == [type |-> "Leave", gids |-> gids]
Move(shard, gid) == [type |-> "Move", shard |-> shard, gid |-> gid]
Query(num) == [type |-> "Query", num |-> num]

\* One clerk lets groups join and changes what it made, while another one looks,
\* lets a third group join or takes one away.
ChangeAndLook ==
    c1 :> <<{Join({1, 2})}, {Move(0, 2), Move(NShards, 2), Leave({1, 2})}>> @@
    c2 :> <<{Join({3}), Leave({2}), Query(-1), Query(1)}>>

\* One clerk lets four groups join at once.
FourGroups == c1 :> <<{Join({1, 2, 3, 4})}>>

\* One clerk lets five groups join, and then another one.
SixthGroup == c1 :> <<{Join(1..5)}, {Join({6})}>>

\* One clerk lets two groups join, and then a third.
ThirdGroup == c1 :> <<{Join({1, 2})}, {Join({3})}>>
=============================================================================
