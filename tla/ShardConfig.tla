---------------------------- MODULE ShardConfig -----------------------------
(***************************************************************************)
(* Configurations of src/src/shardmaster/server.go and what each command   *)
(* does to them, as operators on the state of one server:                  *)
(*   groupMap   the groups that have joined (their server lists are only   *)
(*              carried along and are left out),                           *)
(*   shards     the group of each shard, 0 for none,                       *)
(*   configs    every configuration so far, the first one numbered 0.      *)
(***************************************************************************)
EXTENDS Integers, Sequences, FiniteSets, SequencesExt

CONSTANTS
    Gid,      \* group numbers
    NShards

ASSUME ShardConstants == IsFiniteSet(Gid) /\ Gid \subseteq Nat \ {0} /\ NShards \in Nat \ {0}

Shard == 0..(NShards - 1)

NoGroup == [i \in Shard |-> 0]

Config(num, shards, groups) == [num |-> num, shards |-> shards, groups |-> groups]

\* The state StartServer makes.
freshState == [groupMap |-> {}, shards |-> NoGroup, configs |-> <<Config(0, NoGroup, {})>>]

\* Leaves the keys in the order of the iteration.
sortIntsNot(keys) == keys

\* sort.Ints, of keys that differ: the same ones in increasing order.
sortInts(keys) ==
    CHOOSE s \in SetToSeqs(Range(keys)) : \A j, k \in DOMAIN s : j < k => s[j] < s[k]

\* The last shard keeps its group.
redistributeShardShort(shards, order) ==
    IF order = <<>> THEN NoGroup
    ELSE LET keys == sortInts(order)
             shardPerGroup == NShards \div Len(keys)
         IN  [i \in Shard |-> IF i < shardPerGroup * Len(keys)
                              THEN keys[i \div shardPerGroup + 1] ELSE shards[i]]

\* Equal shares to the groups by their numbers, the last shard to the last
\* group; what lies between keeps its group.  Go iterates over groupMap in an
\* order of its own each time: order is that one.
redistributeShard(shards, order) ==
    IF order = <<>> THEN NoGroup
    ELSE LET keys == sortInts(order)
             shardPerGroup == NShards \div Len(keys)
         IN  [i \in Shard |->
                 CASE i = NShards - 1               -> keys[Len(keys)]
                   [] i < shardPerGroup * Len(keys) -> keys[i \div shardPerGroup + 1]
                   [] OTHER                         -> shards[i]]

getLastConfigNumber(st) == st.configs[Len(st.configs)].num

\* Numbers the configuration like the one before.
generateConfigSame(st) == Config(getLastConfigNumber(st), st.shards, st.groupMap)

generateConfig(st) == Config(getLastConfigNumber(st) + 1, st.shards, st.groupMap)

addNewConfig(st) == [st EXCEPT !.configs = Append(@, generateConfig(st))]

\* The groups become groups, in whatever order the map is iterated over.
regrouped(st, groups) ==
    {addNewConfig([st EXCEPT !.groupMap = groups, !.shards = redistributeShard(@, order)]) :
        order \in SetToSeqs(groups)}

handleJoin(st, gids) == regrouped(st, st.groupMap \cup gids)

handleLeave(st, gids) == regrouped(st, st.groupMap \ gids)

handleMove(st, shard, gid) == {addNewConfig([st EXCEPT !.shards[shard] = gid])}

handleQuery(st, n) ==
    IF n < 0 \/ n > getLastConfigNumber(st)
    THEN st.configs[getLastConfigNumber(st) + 1]
    ELSE st.configs[n + 1]

\* The assertions of handleJoin and handleMove, and the bounds of sm.shards.
panics(st, op) ==
    \/ op.type = "Join" /\ op.gids \cap st.groupMap # {}
    \/ op.type = "Move" /\ (op.gid \notin st.groupMap \/ op.shard \notin Shard)

\* The states a command can leave.
execute(st, op) ==
    CASE op.type = "Join"  -> handleJoin(st, op.gids)
      [] op.type = "Leave" -> handleLeave(st, op.gids)
      [] op.type = "Move"  -> handleMove(st, op.shard, op.gid)
      [] op.type = "Query" -> {st}
=============================================================================
