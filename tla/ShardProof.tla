------------------------------ MODULE ShardProof ------------------------------
(* The shard masters keep their inductive invariant, for any servers, clerks, *)
(* scripts, groups, number of shards, bounds and crashes.                     *)
EXTENDS ShardInv, FiniteSetTheorems, SequenceTheorems, TLAPS

increasing(s) == \A j, k \in DOMAIN s : j < k => s[j] < s[k]

\* Finitely many numbers can be put in increasing order.
LEMMA SortedExists ==
    ASSUME NEW S \in SUBSET Nat, IsFiniteSet(S)
    PROVE  \E s \in SetToSeqs(S) : increasing(s)
<1> DEFINE n == Cardinality(S)
           below(x) == {y \in S : y <= x}
           rank == [x \in S |-> Cardinality(below(x))]
<1>1. n \in Nat
  BY FS_CardinalityType
<1>2. ASSUME NEW x \in S
      PROVE  IsFiniteSet(below(x)) /\ rank[x] \in 1..n /\ rank[x] = Cardinality(below(x))
  <2>1. below(x) \in SUBSET S /\ x \in below(x)
    OBVIOUS
  <2>2. /\ IsFiniteSet(below(x)) /\ Cardinality(below(x)) <= n
    BY <2>1, FS_Subset
  <2>3. Cardinality(below(x)) \in Nat /\ Cardinality(below(x)) # 0
    BY <2>1, <2>2, FS_CardinalityType, FS_EmptySet
  <2> QED
    BY <1>1, <2>2, <2>3
<1>3. ASSUME NEW x \in S, NEW y \in S, x < y
      PROVE  rank[x] < rank[y]
  <2>0. x \in Nat /\ y \in Nat /\ ~(y <= x) /\ y <= y /\ \A z \in S : z <= x => z <= y
    BY <1>3
  <2>1. below(x) \subseteq below(y) /\ y \in below(y) /\ y \notin below(x)
    BY <2>0, Zenon
  <2>2. PICK X, Y : X = below(x) /\ Y = below(y)
    OBVIOUS
  <2>3. IsFiniteSet(Y) /\ X \in SUBSET Y /\ X # Y
    BY <1>2, <2>1, <2>2, Zenon
  <2>4. Cardinality(X) <= Cardinality(Y) /\ Cardinality(X) # Cardinality(Y)
    BY <2>3, FS_Subset
  <2>5. rank[x] = Cardinality(X) /\ rank[y] = Cardinality(Y) /\ rank[x] \in Nat /\ rank[y] \in Nat
    BY <1>1, <1>2, <2>2
  <2> QED
    BY <2>4, <2>5
<1> HIDE DEF rank, below
<1>4. \A x, y \in S : x # y => rank[x] # rank[y]
  <2> SUFFICES ASSUME NEW x \in S, NEW y \in S, x # y
               PROVE  rank[x] # rank[y]
    OBVIOUS
  <2>1. x \in Nat /\ y \in Nat /\ rank[x] \in Nat /\ rank[y] \in Nat
    BY <1>1, <1>2
  <2>2. x < y \/ y < x
    BY <2>1
  <2> QED
    BY <1>3, <2>1, <2>2
<1>5. rank \in [S -> 1..n]
  BY <1>2 DEF rank
<1>6. rank \in Injection(S, 1..n)
  BY <1>4, <1>5 DEF Injection, IsInjective
<1>7. IsFiniteSet(1..n) /\ Cardinality(1..n) = n
  BY <1>1, FS_Interval
<1>8. rank \in Surjection(S, 1..n)
  BY <1>6, <1>7, FS_Injection
<1>9. \A j \in 1..n : \E x \in S : rank[x] = j
  BY <1>8 DEF Surjection
<1> DEFINE s == [j \in 1..n |-> CHOOSE x \in S : rank[x] = j]
<1>10. \A j \in 1..n : s[j] \in S /\ rank[s[j]] = j
  BY <1>9
<1>11. s \in [1..n -> S] /\ DOMAIN s = 1..n
  BY <1>10
<1> HIDE DEF s
<1>12. s \in SetToSeqs(S)
  BY <1>10, <1>11 DEF SetToSeqs
<1>13. increasing(s)
  <2> SUFFICES ASSUME NEW j \in 1..n, NEW k \in 1..n, j < k
               PROVE  s[j] < s[k]
    BY <1>11 DEF increasing
  <2>1. s[j] \in S /\ s[k] \in S /\ rank[s[j]] = j /\ rank[s[k]] = k
    BY <1>10
  <2>2. PICK x \in S, y \in S : x = s[j] /\ y = s[k]
    BY <2>1
  <2>3. x \in Nat /\ y \in Nat /\ rank[x] = j /\ rank[y] = k /\ j \in Nat /\ k \in Nat
    BY <1>1, <2>1, <2>2
  <2>4. ~(y < x) /\ x # y
    BY <1>3, <2>3
  <2> QED
    BY <2>2, <2>3, <2>4
<1> QED
  BY <1>12, <1>13

\* An order of a finite set lists all of it.
LEMMA OrderFacts ==
    ASSUME NEW S, IsFiniteSet(S), NEW order \in SetToSeqs(S)
    PROVE  /\ Cardinality(S) \in Nat /\ DOMAIN order = 1..Cardinality(S)
           /\ Len(order) = Cardinality(S) /\ order \in Seq(S)
           /\ Range(order) = S
           /\ order = <<>> <=> S = {}
<1> DEFINE n == Cardinality(S)
<1>1. n \in Nat
  BY FS_CardinalityType
<1>2. order \in [1..n -> S] /\ \A i, j \in 1..n : i # j => order[i] # order[j]
  BY DEF SetToSeqs
<1>3. order \in Injection(1..n, S)
  BY <1>2 DEF Injection, IsInjective
<1>4. IsFiniteSet(1..n) /\ Cardinality(1..n) = n
  BY <1>1, FS_Interval
<1>5. order \in Surjection(1..n, S)
  BY <1>3, <1>4, FS_Injection
<1>6. \A x \in S : \E j \in 1..n : order[j] = x
  BY <1>5 DEF Surjection
<1>7. Range(order) = S
  BY <1>2, <1>6 DEF Range
<1>8. order \in Seq(S) /\ Len(order) = n
  BY <1>1, <1>2
<1>9. order = <<>> <=> n = 0
  BY <1>1, <1>8
<1> QED
  BY <1>1, <1>2, <1>7, <1>8, <1>9, FS_EmptySet

\* Sorting does not depend on the order of the iteration.
LEMMA SortFacts ==
    ASSUME NEW S \in SUBSET Nat, IsFiniteSet(S), NEW order \in SetToSeqs(S)
    PROVE  /\ sortInts(order) \in SetToSeqs(S)
           /\ sortInts(order) = CHOOSE s \in SetToSeqs(S) : increasing(s)
<1>1. Range(order) = S
  BY OrderFacts
<1>2. sortInts(order) = CHOOSE s \in SetToSeqs(S) : increasing(s)
  BY <1>1, Zenon DEF sortInts, increasing
<1> QED
  BY <1>2, SortedExists

\* There is an order.
LEMMA OrderExists ==
    ASSUME NEW S, IsFiniteSet(S)
    PROVE  SetToSeqs(S) # {}
<1>1. Cardinality(S) \in Nat /\ ExistsBijection(1..Cardinality(S), S)
  BY FS_CardinalityType
<1>2. PICK f \in [1..Cardinality(S) -> S] :
          \A i, j \in 1..Cardinality(S) : i # j => f[i] # f[j]
  BY <1>1 DEF ExistsBijection, Bijection, Injection, IsInjective
<1> QED
  BY <1>2 DEF SetToSeqs

-----------------------------------------------------------------------------
\* A shard that is shared out goes to one of n groups, each with per shards.
LEMMA ShareInRange ==
    ASSUME NEW i \in Nat, NEW per \in Nat, NEW n \in Nat, i < per * n
    PROVE  i \div per + 1 \in 1..n
<1>1. per > 0
  BY SMT
<1> DEFINE q == i \div per
<1>2. q \in Nat /\ q * per <= i
  BY <1>1
<1>3. q < n
  BY <1>1, <1>2
<1> QED
  BY <1>2, <1>3

\* With at most one shard left over, only the last one is not shared out.
LEMMA LeftOver ==
    ASSUME NEW n \in Nat, n > 0, NEW N \in Nat, N % n <= 1, NEW i \in Nat, i < N, i # N - 1
    PROVE  i < (N \div n) * n
<1>1. N = ((N \div n) * n) + (N % n)
  OBVIOUS
<1> QED
  BY <1>1

ShardsType == [Shard -> Gid \cup {0}]

\* redistributeShard: whatever the order of the iteration, the shards go to the
\* same groups; with at most one left over, all of them to groups of S.
LEMMA Redistributed ==
    ASSUME NEW S \in SUBSET Gid, NEW shards \in ShardsType
    PROVE  /\ IsFiniteSet(S)
           /\ \A a, b \in SetToSeqs(S) : redistributeShard(shards, a) = redistributeShard(shards, b)
           /\ \A order \in SetToSeqs(S) :
                  /\ redistributeShard(shards, order) \in ShardsType
                  /\ S # {} /\ NShards % Cardinality(S) <= 1
                         => \A i \in Shard : redistributeShard(shards, order)[i] \in S
<1>1. IsFiniteSet(S) /\ S \in SUBSET Nat
  BY ShardConstants, FS_Subset
<1>2. ASSUME NEW a \in SetToSeqs(S), NEW b \in SetToSeqs(S)
      PROVE  redistributeShard(shards, a) = redistributeShard(shards, b)
  <2>1. sortInts(a) = sortInts(b)
    BY <1>1, SortFacts
  <2>2. a = <<>> <=> b = <<>>
    BY <1>1, OrderFacts
  <2>3. CASE a = <<>>
    BY <2>2, <2>3 DEF redistributeShard
  <2>4. CASE a # <<>>
    <3>1. PICK keys : keys = sortInts(a) /\ keys = sortInts(b)
      BY <2>1
    <3> QED
      BY <2>2, <2>4, <3>1 DEF redistributeShard
  <2> QED
    BY <2>3, <2>4
<1>3. ASSUME NEW order \in SetToSeqs(S)
      PROVE  /\ redistributeShard(shards, order) \in ShardsType
             /\ S # {} /\ NShards % Cardinality(S) <= 1
                    => \A i \in Shard : redistributeShard(shards, order)[i] \in S
  <2>1. CASE order = <<>>
    <3>1. S = {}
      BY <1>1, <2>1, OrderFacts
    <3>2. redistributeShard(shards, order) = NoGroup
      BY <2>1 DEF redistributeShard
    <3> QED
      BY <3>1, <3>2 DEF NoGroup, ShardsType
  <2>2. CASE order # <<>>
    <3>1. PICK keys \in SetToSeqs(S) : keys = sortInts(order)
      BY <1>1, SortFacts
    <3>2. PICK n \in Nat : /\ n = Cardinality(S) /\ n = Len(keys) /\ DOMAIN keys = 1..n
                           /\ keys \in Seq(S)
      BY <1>1, OrderFacts
    <3>3. n > 0
      <4>1. S # {}
        BY <1>1, <2>2, OrderFacts
      <4>2. n # 0
        BY <1>1, <3>2, <4>1, FS_EmptySet
      <4> QED
        BY <3>2, <4>2
    <3>4. \A j \in 1..n : keys[j] \in S
      BY <3>2
    <3>5. PICK per \in Nat : per = NShards \div n
      BY <3>3, ShardConstants
    <3> DEFINE given == redistributeShard(shards, order)
    <3>6. given = [i \in Shard |->
                      CASE i = NShards - 1 -> keys[n]
                        [] i < per * n     -> keys[i \div per + 1]
                        [] OTHER           -> shards[i]]
      BY <2>2, <3>1, <3>2, <3>5 DEF redistributeShard
    <3> HIDE DEF given
    <3>7. ASSUME NEW i \in Shard
          PROVE  given[i] \in S \/ (~(i = NShards - 1) /\ ~(i < per * n) /\ given[i] = shards[i])
      <4>0. i \in Nat /\ n \in 1..n
        BY <3>3, ShardConstants DEF Shard
      <4>1. CASE i = NShards - 1
        BY <3>4, <3>6, <4>0, <4>1
      <4>2. CASE ~(i = NShards - 1) /\ i < per * n
        <5>1. PICK j \in 1..n : j = i \div per + 1
          BY <4>0, <4>2, ShareInRange
        <5>2. given[i] = keys[j]
          BY <3>6, <4>2, <5>1
        <5> QED
          BY <3>4, <5>1, <5>2
      <4>3. CASE ~(i = NShards - 1) /\ ~(i < per * n)
        BY <3>6, <4>3
      <4> QED
        BY <4>1, <4>2, <4>3
    <3>8. given \in ShardsType
      <4>1. \A i \in Shard : given[i] \in Gid \cup {0}
        BY <3>7 DEF ShardsType
      <4>2. given = [i \in Shard |-> given[i]]
        BY <3>6
      <4> QED
        BY <4>1, <4>2 DEF ShardsType
    <3>9. ASSUME NShards % Cardinality(S) <= 1, NEW i \in Shard
          PROVE  given[i] \in S
      <4>1. NShards \in Nat /\ i \in Nat /\ i < NShards
        BY ShardConstants DEF Shard
      <4>2. NShards % n <= 1
        BY <3>2, <3>9
      <4>3. i = NShards - 1 \/ i < (NShards \div n) * n
        BY <3>3, <4>1, <4>2, LeftOver
      <4> QED
        BY <3>5, <3>7, <4>3
    <3> QED
      BY <3>8, <3>9 DEF given
  <2> QED
    BY <2>1, <2>2
<1> QED
  BY <1>1, <1>2, <1>3

-----------------------------------------------------------------------------
\* A state that every command keeps sound.
Sound(st) ==
    /\ st \in StateType
    /\ Indexed(st)
    /\ \A k \in DOMAIN st.configs : covers(st.configs[k])

\* What the numbers of the configurations are.
LEMMA IndexedFacts ==
    ASSUME NEW st \in StateType, Indexed(st)
    PROVE  /\ Len(st.configs) \in Nat /\ Len(st.configs) >= 1
           /\ DOMAIN st.configs = 1..Len(st.configs)
           /\ \A k \in DOMAIN st.configs : /\ st.configs[k] \in ConfigType
                                           /\ st.configs[k].num = k - 1
           /\ getLastConfigNumber(st) = Len(st.configs) - 1
           /\ getLastConfigNumber(st) \in Nat
<1>1. st.configs \in Seq(ConfigType) /\ st.configs # <<>>
  BY DEF StateType, Indexed
<1>2. /\ Len(st.configs) \in Nat /\ Len(st.configs) >= 1
      /\ DOMAIN st.configs = 1..Len(st.configs)
      /\ \A k \in DOMAIN st.configs : st.configs[k] \in ConfigType
  BY <1>1
<1>3. \A k \in DOMAIN st.configs : st.configs[k].num = k - 1
  BY DEF Indexed
<1>4. getLastConfigNumber(st) = Len(st.configs) - 1
  BY <1>2, <1>3 DEF getLastConfigNumber
<1> QED
  BY <1>2, <1>3, <1>4

\* addNewConfig: one more configuration, with the groups and shards given.
LEMMA ConfigAdded ==
    ASSUME NEW old, Sound(old), NEW groups \in SUBSET Gid, NEW shards \in ShardsType,
           NEW configs, configs = Append(old.configs,
               Config(getLastConfigNumber(old) + 1, shards, groups)),
           NEW new, new = [groupMap |-> groups, shards |-> shards, configs |-> configs],
           covers([num |-> 0, shards |-> shards, groups |-> groups])
    PROVE  Sound(new) /\ continues(old.configs, new.configs)
<1> DEFINE n == Len(old.configs)
           config == Config(getLastConfigNumber(old) + 1, shards, groups)
<1>1. /\ n \in Nat /\ n >= 1 /\ DOMAIN old.configs = 1..n
      /\ \A k \in 1..n : /\ old.configs[k] \in ConfigType /\ old.configs[k].num = k - 1
      /\ getLastConfigNumber(old) = n - 1
  BY IndexedFacts DEF Sound
<1>2. /\ config = [num |-> n, shards |-> shards, groups |-> groups] /\ config \in ConfigType
      /\ config.num = n /\ config.shards = shards /\ config.groups = groups
  BY <1>1 DEF Config, ConfigType, ShardsType
<1>3. old.configs \in Seq(ConfigType)
  BY DEF Sound, StateType
<1>4. PICK c \in ConfigType : c = config
  BY <1>2
<1> HIDE DEF config
<1>5. /\ configs \in Seq(ConfigType) /\ Len(configs) = n + 1 /\ DOMAIN configs = 1..(n + 1)
      /\ \A k \in 1..n : configs[k] = old.configs[k]
      /\ configs[n + 1] = c
  <2>1. configs = Append(old.configs, c)
    BY <1>4 DEF config
  <2> QED
    BY <1>1, <1>3, <2>1
<1>6. new \in StateType /\ new.configs = configs /\ new.shards = shards /\ new.groupMap = groups
  BY <1>5 DEF StateType, ShardsType
<1>7. configs # <<>> /\ \A k \in DOMAIN configs : configs[k].num = k - 1
  BY <1>1, <1>2, <1>4, <1>5
<1>8. Indexed(new)
  BY <1>1, <1>2, <1>4, <1>5, <1>6, <1>7 DEF Indexed
<1>9. covers(c)
  BY <1>2, <1>4 DEF covers
<1>10. \A k \in 1..(n + 1) : k \in 1..n \/ k = n + 1
  BY <1>1
<1>11. \A k \in DOMAIN configs : covers(configs[k])
  BY <1>1, <1>5, <1>9, <1>10 DEF Sound
<1>12. continues(old.configs, configs)
  BY <1>1, <1>5 DEF continues
<1> QED
  BY <1>6, <1>8, <1>11, <1>12 DEF Sound

\* Join and Leave: one state, whatever the order of the iteration.
LEMMA Regrouped ==
    ASSUME NEW st, Sound(st), NEW groups \in SUBSET Gid
    PROVE  \E new : /\ regrouped(st, groups) = {new}
                    /\ Sound(new) /\ continues(st.configs, new.configs)
<1>1. st \in StateType /\ st.shards \in ShardsType
  BY DEF Sound, StateType, ShardsType
<1>2. IsFiniteSet(groups)
  BY <1>1, Redistributed
<1>3. PICK order : order \in SetToSeqs(groups)
  BY <1>2, OrderExists
<1>4. PICK shards \in ShardsType : shards = redistributeShard(st.shards, order)
  BY <1>1, <1>3, Redistributed
<1>5. \A o \in SetToSeqs(groups) : redistributeShard(st.shards, o) = shards
  BY <1>1, <1>3, <1>4, Redistributed
<1>6. groups # {} /\ NShards % Cardinality(groups) <= 1 => \A i \in Shard : shards[i] \in groups
  BY <1>1, <1>3, <1>4, Redistributed
<1>7. covers([num |-> 0, shards |-> shards, groups |-> groups])
  BY <1>6 DEF covers
<1> DEFINE made == [st EXCEPT !.groupMap = groups, !.shards = shards]
           new == addNewConfig(made)
<1>8. regrouped(st, groups) = {new}
  BY <1>3, <1>5, Zenon DEF regrouped
<1>9. PICK configs : configs = Append(st.configs, Config(getLastConfigNumber(st) + 1, shards, groups))
  OBVIOUS
<1>10. new = [groupMap |-> groups, shards |-> shards, configs |-> configs]
  <2>0. PICK g, h, l : st = [groupMap |-> g, shards |-> h, configs |-> l]
    BY <1>1 DEF StateType
  <2>a. PICK joined : joined = [st EXCEPT !.groupMap = groups]
    OBVIOUS
  <2>b. made = [joined EXCEPT !.shards = shards]
    BY <2>0, <2>a
  <2>c. joined = [groupMap |-> groups, shards |-> h, configs |-> l]
    BY <2>0, <2>a
  <2>d. [joined EXCEPT !.shards = shards] = [groupMap |-> groups, shards |-> shards, configs |-> l]
    BY <2>c
  <2>e. st.configs = l
    BY <2>0
  <2>1. made = [groupMap |-> groups, shards |-> shards, configs |-> st.configs]
    BY <2>b, <2>d, <2>e, Zenon
  <2>2. generateConfig(made) = Config(getLastConfigNumber(st) + 1, shards, groups)
    BY <2>1 DEF generateConfig, getLastConfigNumber
  <2>3. PICK m : m = made
    OBVIOUS
  <2> HIDE DEF made
  <2>4. new = [m EXCEPT !.configs = configs]
    BY <1>9, <2>1, <2>2, <2>3 DEF addNewConfig
  <2> QED
    BY <2>1, <2>3, <2>4
<1> HIDE DEF new
<1>11. Sound(new) /\ continues(st.configs, new.configs)
  BY <1>7, <1>9, <1>10, ConfigAdded
<1> QED
  BY <1>8, <1>11

\* Move: the shard goes to a group that has joined.
LEMMA Moved ==
    ASSUME NEW st, Sound(st), NEW shard \in Shard, NEW gid \in Gid, gid \in st.groupMap
    PROVE  \E new : /\ handleMove(st, shard, gid) = {new}
                    /\ Sound(new) /\ continues(st.configs, new.configs)
<1>1. st \in StateType /\ st.shards \in ShardsType /\ st.groupMap \in SUBSET Gid
  BY DEF Sound, StateType, ShardsType
<1>2. PICK shards \in ShardsType : shards = [st.shards EXCEPT ![shard] = gid]
  BY <1>1 DEF ShardsType
<1>3. PICK groups \in SUBSET Gid : groups = st.groupMap
  BY <1>1
<1>4. covers([num |-> 0, shards |-> shards, groups |-> groups])
  <2>1. Len(st.configs) \in DOMAIN st.configs
    BY <1>1, IndexedFacts DEF Sound
  <2>2. PICK config : config = st.configs[Len(st.configs)]
    OBVIOUS
  <2>3. covers(config) /\ config.shards = st.shards /\ config.groups = groups
    BY <1>3, <2>1, <2>2 DEF Sound, Indexed
  <2>4. groups # {} /\ NShards % Cardinality(groups) <= 1 => \A i \in Shard : st.shards[i] \in groups
    BY <2>3 DEF covers
  <2>5. \A i \in Shard : shards[i] = gid \/ shards[i] = st.shards[i]
    BY <1>1, <1>2 DEF ShardsType
  <2> QED
    BY <1>3, <2>4, <2>5 DEF covers
<1> DEFINE made == [st EXCEPT !.shards[shard] = gid]
           new == addNewConfig(made)
<1>8. handleMove(st, shard, gid) = {new}
  BY DEF handleMove
<1>9. PICK configs : configs = Append(st.configs, Config(getLastConfigNumber(st) + 1, shards, groups))
  OBVIOUS
<1>10. new = [groupMap |-> groups, shards |-> shards, configs |-> configs]
  <2>0. made = [st EXCEPT !.shards = shards]
    BY <1>1, <1>2 DEF StateType
  <2>1. made = [groupMap |-> groups, shards |-> shards, configs |-> st.configs]
    BY <1>1, <1>3, <2>0 DEF StateType
  <2>2. generateConfig(made) = Config(getLastConfigNumber(st) + 1, shards, groups)
    BY <2>1 DEF generateConfig, getLastConfigNumber
  <2>3. PICK m : m = made
    OBVIOUS
  <2> HIDE DEF made
  <2>4. new = [m EXCEPT !.configs = configs]
    BY <1>9, <2>1, <2>2, <2>3 DEF addNewConfig
  <2> QED
    BY <2>1, <2>3, <2>4
<1> HIDE DEF new
<1>11. Sound(new) /\ continues(st.configs, new.configs)
  BY <1>4, <1>9, <1>10, ConfigAdded
<1> QED
  BY <1>8, <1>11

LEMMA ContinuesReflexive == ASSUME NEW a PROVE continues(a, a)
BY DEF continues

LEMMA ContinuesTransitive ==
    ASSUME NEW a, NEW b, NEW c, continues(a, b), continues(b, c)
    PROVE  continues(a, c)
BY DEF continues

\* A command that violates no assertion makes one state, and only adds to the
\* configurations.
LEMMA ExecuteFacts ==
    ASSUME NEW st, Sound(st), NEW op \in OpType, ~panics(st, op)
    PROVE  \E new : /\ execute(st, op) = {new}
                    /\ Sound(new) /\ continues(st.configs, new.configs)
<1>0. st.groupMap \in SUBSET Gid
  BY DEF Sound, StateType
<1>1. CASE op \in [type : {"Join", "Leave"}, gids : SUBSET Gid]
  <2>1. PICK gids \in SUBSET Gid : gids = op.gids
    BY <1>1
  <2>2. CASE op.type = "Join"
    <3>1. PICK groups \in SUBSET Gid : groups = st.groupMap \cup gids
      BY <1>0
    <3>2. execute(st, op) = regrouped(st, groups)
      BY <2>1, <2>2, <3>1 DEF execute, handleJoin
    <3> QED
      BY <3>2, Regrouped
  <2>3. CASE op.type = "Leave"
    <3>1. PICK groups \in SUBSET Gid : groups = st.groupMap \ gids
      BY <1>0
    <3>2. execute(st, op) = regrouped(st, groups)
      BY <2>1, <2>3, <3>1 DEF execute, handleLeave
    <3> QED
      BY <3>2, Regrouped
  <2> QED
    BY <1>1, <2>2, <2>3
<1>2. CASE op \in [type : {"Move"}, shard : Int, gid : Gid]
  <2>1. op.type = "Move" /\ op.gid \in Gid
    BY <1>2
  <2>2. op.gid \in st.groupMap /\ op.shard \in Shard
    BY <2>1 DEF panics
  <2>3. execute(st, op) = handleMove(st, op.shard, op.gid)
    BY <2>1 DEF execute
  <2> QED
    BY <2>1, <2>2, <2>3, Moved
<1>3. CASE op \in [type : {"Query"}, num : Int]
  <2>1. execute(st, op) = {st}
    BY <1>3 DEF execute
  <2> QED
    BY <2>1, ContinuesReflexive
<1> QED
  BY <1>1, <1>2, <1>3 DEF OpType

ReplayType == [state : StateType, last : TableType]

\* Reading a command: at most its clerk's number goes up, and configurations are
\* only added.
LEMMA OnceFacts ==
    ASSUME NEW r \in ReplayType, Sound(r.state), NEW cmd \in CommandType
    PROVE  /\ once(r, cmd) \in ReplayType
           /\ Sound(once(r, cmd).state)
           /\ continues(r.state.configs, once(r, cmd).state.configs)
           /\ \A c \in Clerk : /\ \/ once(r, cmd).last[c] = r.last[c]
                                  \/ c = cmd.clerk /\ once(r, cmd).last[c] = cmd.id
                               /\ r.last[c] <= once(r, cmd).last[c]
<1>1. cmd.clerk \in Clerk /\ cmd.id \in Nat /\ cmd.op \in OpType
  BY DEF CommandType
<1>2. r.last \in [Clerk -> Int] /\ r.state \in StateType
  BY DEF ReplayType, TableType
<1>3. CASE r.last[cmd.clerk] >= cmd.id \/ panics(r.state, cmd.op)
  <2>1. once(r, cmd) = r
    BY <1>3 DEF once
  <2>2. \A c \in Clerk : r.last[c] <= r.last[c]
    BY <1>2
  <2> QED
    BY <2>1, <2>2, ContinuesReflexive
<1>4. CASE ~(r.last[cmd.clerk] >= cmd.id) /\ ~panics(r.state, cmd.op)
  <2>1. PICK st, op : st = r.state /\ op = cmd.op
    OBVIOUS
  <2>2. PICK new : execute(st, op) = {new} /\ Sound(new) /\ continues(st.configs, new.configs)
    BY <1>1, <1>4, <2>1, ExecuteFacts
  <2>3. (CHOOSE x \in execute(st, op) : TRUE) = new
    BY <2>2
  <2> DEFINE last == [r.last EXCEPT ![cmd.clerk] = cmd.id]
  <2>4. once(r, cmd) = [state |-> new, last |-> last]
    BY <1>4, <2>1, <2>3 DEF once
  <2>5. /\ last \in TableType
        /\ \A c \in Clerk : /\ last[c] = r.last[c] \/ (c = cmd.clerk /\ last[c] = cmd.id)
                            /\ r.last[c] <= last[c]
    BY <1>1, <1>2, <1>4 DEF TableType
  <2> HIDE DEF last
  <2>6. once(r, cmd).state = new /\ once(r, cmd).last = last
    BY <2>4
  <2>7. once(r, cmd) \in ReplayType
    BY <2>2, <2>4, <2>5 DEF ReplayType, Sound
  <2> QED
    BY <2>1, <2>2, <2>5, <2>6, <2>7
<1> QED
  BY <1>3, <1>4

\* A history that goes on has no smaller last number.
LEMMA ContinuesNumber ==
    ASSUME NEW a, NEW b, Sound(a), Sound(b), continues(a.configs, b.configs)
    PROVE  /\ getLastConfigNumber(a) <= getLastConfigNumber(b)
           /\ getLastConfigNumber(a) \in Nat /\ getLastConfigNumber(b) \in Nat
<1>1. /\ Len(a.configs) \in Nat /\ Len(a.configs) >= 1 /\ DOMAIN a.configs = 1..Len(a.configs)
      /\ getLastConfigNumber(a) = Len(a.configs) - 1 /\ getLastConfigNumber(a) \in Nat
  BY IndexedFacts DEF Sound
<1>2. /\ Len(b.configs) \in Nat /\ DOMAIN b.configs = 1..Len(b.configs)
      /\ getLastConfigNumber(b) = Len(b.configs) - 1 /\ getLastConfigNumber(b) \in Nat
  BY IndexedFacts DEF Sound
<1>3. Len(a.configs) \in DOMAIN a.configs
  BY <1>1
<1>4. Len(a.configs) \in DOMAIN b.configs
  BY <1>3 DEF continues
<1> QED
  BY <1>1, <1>2, <1>4

-----------------------------------------------------------------------------
\* The replay has one state more than the log has commands.
LEMMA ReplayFacts ==
    ASSUME TypeOK, ShardInv
    PROVE  /\ Len(log) \in Nat /\ DOMAIN log = 1..Len(log) /\ log \in Seq(CommandType)
           /\ \A n \in DOMAIN log : log[n] \in CommandType
           /\ Len(replay) = Len(log) + 1 /\ DOMAIN replay = 1..(Len(log) + 1)
           /\ replay \in Seq(ReplayType) /\ Len(replay) \in DOMAIN replay
           /\ \A n \in DOMAIN replay : /\ replay[n] \in ReplayType
                                       /\ Sound(replay[n].state)
                                       /\ \A c \in Clerk : replay[n].last[c] \in Int
<1>1. log \in Seq(CommandType) /\ replay \in Seq(ReplayType)
  BY DEF TypeOK, ServerTypes, HistoryTypes, ReplayType
<1>2. Len(replay) = Len(log) + 1
  BY DEF ShardInv, ReplayFollowsLog
<1>3. /\ Len(log) \in Nat /\ DOMAIN log = 1..Len(log) /\ DOMAIN replay = 1..(Len(log) + 1)
      /\ \A n \in DOMAIN log : log[n] \in CommandType
      /\ \A n \in DOMAIN replay : replay[n] \in ReplayType
  BY <1>1, <1>2
<1>4. \A n \in DOMAIN replay : replay[n].last \in TableType /\ replay[n].state \in StateType
  BY <1>3 DEF ReplayType
<1>5. \A n \in DOMAIN replay : \A c \in Clerk : replay[n].last[c] \in Int
  BY <1>4 DEF TableType
<1>6. \A n \in DOMAIN replay : Sound(replay[n].state)
  BY <1>4 DEF ShardInv, ConfigsSound, Sound
<1> QED
  BY <1>1, <1>2, <1>3, <1>5, <1>6

\* The parts of the invariant that only depend on the log and the clerks' numbers.
LogParts ==
    /\ log \in Seq(CommandType) /\ replay \in Seq(ReplayType)
    /\ ReplayFollowsLog /\ ConfigsSound

\* What a step does to the log at most: states that were passed stay.
LogOnlyGrows ==
    /\ Len(log) <= Len(log')
    /\ \A n \in DOMAIN log : log'[n] = log[n]
    /\ \A n \in DOMAIN replay : n \in DOMAIN replay' /\ replay'[n] = replay[n]
    /\ continues(newest.configs, newest'.configs)
    /\ getLastConfigNumber(newest) <= getLastConfigNumber(newest')
    /\ getLastConfigNumber(newest) \in Nat /\ getLastConfigNumber(newest') \in Nat
    /\ \A n \in DOMAIN replay' : n \in DOMAIN replay \/ replay'[n].state = newest'

LEMMA LogUnchanged ==
    ASSUME TypeOK, ShardInv, UNCHANGED logVars
    PROVE  LogOnlyGrows /\ LogParts' /\ log' = log /\ replay' = replay
<1>1. log' = log /\ replay' = replay
  BY DEF logVars
<1>2. newest' = newest
  BY <1>1 DEF newest
<1>3. Sound(newest) /\ Len(log) \in Nat
  BY ReplayFacts DEF newest
<1>4. getLastConfigNumber(newest) \in Nat
  BY <1>3, IndexedFacts DEF Sound
<1>5. LogOnlyGrows
  BY <1>1, <1>2, <1>3, <1>4, ContinuesReflexive DEF LogOnlyGrows
<1>6. log \in Seq(CommandType) /\ replay \in Seq(ReplayType)
  BY ReplayFacts
<1>7. ReplayFollowsLog' /\ ConfigsSound'
  BY <1>1 DEF ShardInv, ReplayFollowsLog, ConfigsSound
<1> QED
  BY <1>1, <1>5, <1>6, <1>7 DEF LogParts

\* Start: one more command, and the state after it.
LEMMA LogGrown ==
    ASSUME TypeOK, ShardInv, NEW cmd \in CommandType,
           log' = Append(log, cmd),
           replay' = Append(replay, once(replay[Len(replay)], cmd))
    PROVE  /\ LogOnlyGrows /\ LogParts'
           /\ \A n \in DOMAIN replay' : \A c \in Clerk :
                  \/ n \in DOMAIN replay
                  \/ replay'[n].last[c] = replay[Len(replay)].last[c]
                  \/ c = cmd.clerk /\ replay'[n].last[c] = cmd.id
<1>1. PICK L \in Nat : /\ L = Len(log) /\ DOMAIN log = 1..L /\ Len(replay) = L + 1
                       /\ DOMAIN replay = 1..(L + 1) /\ L + 1 \in 1..(L + 1)
  BY ReplayFacts
<1>2. \A n \in 1..(L + 1) : replay[n] \in ReplayType /\ Sound(replay[n].state)
  BY <1>1, ReplayFacts
<1>3. PICK last \in ReplayType : last = replay[L + 1]
  BY <1>1, <1>2
<1>4. Sound(last.state)
  BY <1>1, <1>2, <1>3
<1>5. PICK new \in ReplayType : new = once(last, cmd)
  BY <1>4, OnceFacts
<1>6. /\ Sound(new.state) /\ continues(last.state.configs, new.state.configs)
      /\ \A c \in Clerk : /\ new.last[c] = last.last[c] \/ (c = cmd.clerk /\ new.last[c] = cmd.id)
                          /\ last.last[c] <= new.last[c]
  BY <1>4, <1>5, OnceFacts
<1>7. log \in Seq(CommandType) /\ replay \in Seq(ReplayType)
  BY ReplayFacts
<1>8. replay' = Append(replay, new)
  BY <1>1, <1>3, <1>5
<1>9. /\ log' \in Seq(CommandType) /\ Len(log') = L + 1 /\ DOMAIN log' = 1..(L + 1)
      /\ \A n \in 1..L : log'[n] = log[n]
      /\ log'[L + 1] = cmd
  BY <1>1, <1>7
<1>10. /\ replay' \in Seq(ReplayType) /\ Len(replay') = L + 2 /\ DOMAIN replay' = 1..(L + 2)
       /\ \A n \in 1..(L + 1) : replay'[n] = replay[n]
       /\ replay'[L + 2] = new
  BY <1>1, <1>7, <1>8
<1>11. \A n \in 1..(L + 2) : n \in 1..(L + 1) \/ n = L + 2
  OBVIOUS
<1>12. newest = last.state /\ newest' = new.state
  BY <1>1, <1>3, <1>10 DEF newest
<1>13. LogOnlyGrows
  <2>1. L <= L + 1 /\ \A n \in 1..(L + 1) : n \in 1..(L + 2)
    OBVIOUS
  <2>2. /\ getLastConfigNumber(newest) <= getLastConfigNumber(newest')
        /\ getLastConfigNumber(newest) \in Nat /\ getLastConfigNumber(newest') \in Nat
    BY <1>4, <1>6, <1>12, ContinuesNumber
  <2> QED
    BY <1>1, <1>6, <1>9, <1>10, <1>11, <1>12, <2>1, <2>2 DEF LogOnlyGrows
<1>14. ASSUME NEW n \in DOMAIN log'
       PROVE  replay'[n + 1] = once(replay'[n], log'[n])
  <2>1. CASE n = L + 1
    <3>1. n + 1 = L + 2 /\ n \in 1..(L + 1)
      BY <2>1
    <3> QED
      BY <1>3, <1>5, <1>9, <1>10, <2>1, <3>1
  <2>2. CASE n # L + 1
    <3>1. n \in 1..L /\ n \in 1..(L + 1) /\ n + 1 \in 1..(L + 1)
      BY <1>9, <2>2
    <3>2. replay[n + 1] = once(replay[n], log[n])
      BY <1>1, <3>1 DEF ShardInv, ReplayFollowsLog
    <3> QED
      BY <1>9, <1>10, <3>1, <3>2
  <2> QED
    BY <2>1, <2>2
<1>15. ASSUME NEW m \in DOMAIN replay', NEW n \in DOMAIN replay', m <= n
       PROVE  continues(replay'[m].state.configs, replay'[n].state.configs)
  <2>1. CASE n \in 1..(L + 1)
    <3>1. m \in 1..(L + 1)
      BY <1>10, <1>15, <2>1
    <3>2. continues(replay[m].state.configs, replay[n].state.configs)
      BY <1>1, <1>15, <2>1, <3>1 DEF ShardInv, ReplayFollowsLog
    <3> QED
      BY <1>10, <2>1, <3>1, <3>2
  <2>2. CASE n = L + 2 /\ m \in 1..(L + 1)
    <3>1. m <= L + 1
      BY <2>2
    <3>2. continues(replay[m].state.configs, last.state.configs)
      BY <1>1, <1>3, <2>2, <3>1 DEF ShardInv, ReplayFollowsLog
    <3>3. continues(replay[m].state.configs, new.state.configs)
      BY <1>6, <3>2, ContinuesTransitive
    <3> QED
      BY <1>10, <2>2, <3>3
  <2>3. CASE n = L + 2 /\ m = L + 2
    BY <2>3, ContinuesReflexive
  <2> QED
    BY <1>10, <1>11, <2>1, <2>2, <2>3
<1>a. ASSUME NEW m \in DOMAIN replay', NEW n \in DOMAIN replay', m <= n, NEW c \in Clerk
      PROVE  replay'[m].last[c] <= replay'[n].last[c]
  <2>0. /\ \A k \in 1..(L + 1) : replay[k].last[c] \in Int
        /\ last.last[c] \in Int /\ new.last[c] \in Int
    BY <1>2 DEF ReplayType, TableType
  <2>1. CASE n \in 1..(L + 1)
    <3>1. m \in 1..(L + 1)
      BY <1>10, <1>a, <2>1
    <3>2. replay[m].last[c] <= replay[n].last[c]
      BY <1>1, <1>a, <2>1, <3>1 DEF ShardInv, ReplayFollowsLog
    <3> QED
      BY <1>10, <2>1, <3>1, <3>2
  <2>2. CASE n = L + 2 /\ m \in 1..(L + 1)
    <3>1. m <= L + 1
      BY <2>2
    <3>2. replay[m].last[c] <= last.last[c]
      BY <1>1, <1>3, <2>2, <3>1 DEF ShardInv, ReplayFollowsLog
    <3>3. replay[m].last[c] <= new.last[c]
      BY <1>6, <2>0, <2>2, <3>2
    <3> QED
      BY <1>10, <2>2, <3>3
  <2>3. CASE n = L + 2 /\ m = L + 2
    BY <1>10, <2>0, <2>3
  <2> QED
    BY <1>10, <1>11, <2>1, <2>2, <2>3
<1>16. replay'[1] = [state |-> freshState, last |-> noCommand]
  <2>1. 1 \in 1..(L + 1)
    OBVIOUS
  <2> QED
    BY <1>10, <2>1 DEF ShardInv, ReplayFollowsLog
<1>17. ReplayFollowsLog'
  BY <1>9, <1>10, <1>14, <1>15, <1>16, <1>a DEF ReplayFollowsLog
<1>18. ConfigsSound'
  <2>1. \A n \in DOMAIN replay' : Sound(replay'[n].state)
    BY <1>2, <1>6, <1>10, <1>11
  <2> QED
    BY <2>1 DEF ConfigsSound, Sound
<1>19. LogParts'
  BY <1>9, <1>10, <1>17, <1>18 DEF LogParts
<1> QED
  BY <1>1, <1>3, <1>6, <1>10, <1>11, <1>13, <1>19

-----------------------------------------------------------------------------
\* Servers that do not move keep their states.
LEMMA ServersKept ==
    ASSUME TypeOK, ShardInv, LogOnlyGrows, LogParts', UNCHANGED serverVars
    PROVE  ServerTypes' /\ ReplicasAgree' /\ StopsAtFatal' /\ \A s \in Server : Indexed(state'[s])
<1>1. /\ applied' = applied /\ state' = state /\ panicked' = panicked
      /\ lastCommittedCommandCount' = lastCommittedCommandCount
  BY DEF serverVars
<1>2. Len(log) \in Nat /\ Len(log') \in Nat /\ Len(log) <= Len(log') /\ log' \in Seq(CommandType)
  BY ReplayFacts DEF LogOnlyGrows, LogParts
<1>3. \A s \in Server : applied[s] \in Nat /\ applied[s] <= Len(log)
  BY DEF TypeOK, ServerTypes
<1>4. \A s \in Server : applied[s] <= Len(log')
  BY <1>2, <1>3
<1>5. ServerTypes'
  BY <1>1, <1>2, <1>4 DEF TypeOK, ServerTypes
<1>6. \A s \in Server : applied[s] + 1 \in DOMAIN replay
  BY <1>2, <1>3, ReplayFacts
<1>7. \A s \in Server : replay'[applied[s] + 1] = replay[applied[s] + 1]
  BY <1>6 DEF LogOnlyGrows
<1>8. ReplicasAgree'
  BY <1>1, <1>7 DEF ShardInv, ReplicasAgree
<1>9. \A n \in DOMAIN log : Fatal(n)' <=> Fatal(n)
  <2>1. \A n \in DOMAIN log : n \in DOMAIN replay
    BY ReplayFacts
  <2> QED
    BY <2>1 DEF Fatal, LogOnlyGrows
<1>10. \A s \in Server : \A n \in 1..applied[s] : n \in DOMAIN log
  BY <1>2, <1>3, ReplayFacts
<1>11. \A s \in Server : applied[s] > 0 => applied[s] \in 1..applied[s]
  BY <1>3
<1>12. StopsAtFatal'
  BY <1>1, <1>9, <1>10, <1>11 DEF ShardInv, StopsAtFatal
<1> QED
  BY <1>1, <1>5, <1>8, <1>12 DEF TypeOK

\* What the log made, it has made.
LEMMA KnownKept ==
    ASSUME LogOnlyGrows, NEW config, Known(config)
    PROVE  Known(config)'
BY DEF LogOnlyGrows, Known, continues

\* The clerks' beginnings and results while the log grows.
LEMMA BeginningsKept ==
    ASSUME TypeOK, ShardInv, LogOnlyGrows, LogParts',
           UNCHANGED <<current, since, result, acknowledged>>
    PROVE  BegunAfter' /\ QueryFresh'
<1>1. QueryFresh'
  BY DEF ShardInv, QueryFresh
<1>2. /\ getLastConfigNumber(newest) <= getLastConfigNumber(newest')
      /\ getLastConfigNumber(newest) \in Nat /\ getLastConfigNumber(newest') \in Nat
  BY DEF LogOnlyGrows
<1>3. acknowledged \in Nat /\ \A c \in Clerk : since[c] \in Nat
  BY DEF TypeOK, HistoryTypes
<1>4. /\ acknowledged <= getLastConfigNumber(newest)
      /\ \A c \in Clerk : since[c] <= getLastConfigNumber(newest)
  BY DEF ShardInv, BegunAfter
<1>5. /\ acknowledged <= getLastConfigNumber(newest')
      /\ \A c \in Clerk : since[c] <= getLastConfigNumber(newest')
  BY <1>2, <1>3, <1>4
<1>6. ASSUME NEW c \in Clerk, current[c] # Nil, NEW n \in DOMAIN replay',
             replay'[n].last[c] >= current[c].id
      PROVE  since[c] <= getLastConfigNumber(replay'[n].state)
  <2>1. CASE n \in DOMAIN replay
    <3>1. replay'[n] = replay[n]
      BY <2>1 DEF LogOnlyGrows
    <3>2. since[c] <= getLastConfigNumber(replay[n].state)
      BY <1>6, <2>1, <3>1 DEF ShardInv, BegunAfter
    <3> QED
      BY <3>1, <3>2
  <2>2. CASE replay'[n].state = newest'
    BY <1>5, <2>2
  <2> QED
    BY <2>1, <2>2 DEF LogOnlyGrows
<1>7. getLastConfigNumber(newest)' = getLastConfigNumber(newest')
  BY DEF getLastConfigNumber
<1>8. \A n : getLastConfigNumber(replay[n].state)' = getLastConfigNumber(replay'[n].state)
  BY DEF getLastConfigNumber
<1>9. BegunAfter'
  BY <1>5, <1>6, <1>7, <1>8 DEF BegunAfter
<1> QED
  BY <1>1, <1>9

\* What holds of a reply on its way to its clerk.
Answers(p) ==
    /\ p.seen <= getLastConfigNumber(newest)
    /\ p.value # Nil => Known(p.value.config) /\ freshAs(p.value, since[p.cmd.clerk])

LEMMA AnswerKept ==
    ASSUME LogOnlyGrows, NEW p, p.seen \in Nat, Answers(p),
           since'[p.cmd.clerk] = since[p.cmd.clerk]
    PROVE  Answers(p)'
<1>1. p.seen <= getLastConfigNumber(newest')
  BY DEF LogOnlyGrows, Answers
<1>2. ASSUME p.value # Nil
      PROVE  Known(p.value.config)' /\ freshAs(p.value, since'[p.cmd.clerk])
  <2>1. PICK config : config = p.value.config
    OBVIOUS
  <2>2. Known(config) /\ freshAs(p.value, since[p.cmd.clerk])
    BY <1>2, <2>1 DEF Answers
  <2>3. Known(config)'
    BY <2>2, KnownKept
  <2> QED
    BY <2>1, <2>2, <2>3
<1>3. getLastConfigNumber(newest)' = getLastConfigNumber(newest')
  BY DEF getLastConfigNumber
<1> QED
  BY <1>1, <1>2, <1>3 DEF Answers, freshAs

-----------------------------------------------------------------------------
\* A step of a call: its goroutine goes on, or ends; the log may grow.
LEMMA CallGoesOn ==
    ASSUME TypeOK, ShardInv, NEW p \in calls, NEW at \in {"sent", "polling", "replied"},
           NEW value \in AnswerType \cup {Nil}, NEW seen \in Nat,
           goOn(p, at, value, seen), UNCHANGED <<clerkVars, serverVars, historyVars>>,
           LogOnlyGrows, LogParts',
           \A n \in DOMAIN replay' : \A c \in Clerk : replay'[n].last[c] < nextCommandN[c],
           at = "replied" => Answers(Call(p.cmd, p.srv, at, value, seen))
    PROVE  TypeOK' /\ ShardInv'
<1>1. PICK new : new = Call(p.cmd, p.srv, at, value, seen)
  OBVIOUS
<1>2. /\ new.cmd = p.cmd /\ new.srv = p.srv /\ new.at = at /\ new.value = value
      /\ new.seen = seen
  BY <1>1 DEF Call
<1>3. p \in CallType /\ p.cmd.id < nextCommandN[p.cmd.clerk]
  BY DEF TypeOK, ClerkTypes, ShardInv, NumbersIssued
<1>4. new \in CallType
  BY <1>1, <1>3 DEF CallType, Call
<1>5. ASSUME NEW q \in calls'
      PROVE  q \in calls \/ (open(p) /\ q = new)
  BY <1>1 DEF goOn
<1>6. /\ current' = current /\ since' = since /\ nextCommandN' = nextCommandN /\ result' = result
      /\ published' = published /\ acknowledged' = acknowledged
      /\ UNCHANGED serverVars
  BY DEF clerkVars, historyVars
<1>7. ServerTypes' /\ ReplicasAgree' /\ StopsAtFatal' /\ \A s \in Server : Indexed(state'[s])
  BY <1>6, ServersKept
<1>8. BegunAfter' /\ QueryFresh'
  BY <1>6, BeginningsKept
<1>9. ClerkTypes'
  <2>1. calls' \subseteq CallType
    BY <1>4, <1>5 DEF TypeOK, ClerkTypes
  <2> QED
    BY <1>6, <2>1 DEF TypeOK, ClerkTypes
<1>10. HistoryTypes'
  BY <1>6 DEF TypeOK, HistoryTypes, LogParts, ReplayType
<1>11. NumbersIssued'
  <2>1. \A q \in calls' : q.cmd.id < nextCommandN[q.cmd.clerk]
    BY <1>2, <1>3, <1>5 DEF ShardInv, NumbersIssued
  <2> QED
    BY <1>6, <2>1 DEF ShardInv, NumbersIssued
<1>12. AnswersKnown'
  <2>1. \A config \in published' : Known(config)'
    BY <1>6, KnownKept DEF ShardInv, AnswersKnown
  <2>2. ASSUME NEW q \in calls', q.at = "replied"
        PROVE  open(q)' /\ Answers(q)'
    <3>1. CASE q \in calls
      <4>1. open(q) /\ Answers(q) /\ q.seen \in Nat
        BY <2>2, <3>1 DEF TypeOK, ClerkTypes, CallType, ShardInv, AnswersKnown, Answers
      <4>2. Answers(q)'
        BY <1>6, <4>1, AnswerKept
      <4> QED
        BY <1>6, <4>1, <4>2 DEF open
    <3>2. CASE open(p) /\ q = new
      <4>1. open(q) /\ Answers(q) /\ q.seen \in Nat
        BY <1>1, <1>2, <2>2, <3>2 DEF open
      <4>2. Answers(q)'
        BY <1>6, <4>1, AnswerKept
      <4> QED
        BY <1>6, <4>1, <4>2 DEF open
    <3> QED
      BY <1>5, <3>1, <3>2
  <2> QED
    BY <2>1, <2>2 DEF AnswersKnown, Answers
<1> QED
  BY <1>7, <1>8, <1>9, <1>10, <1>11, <1>12 DEF TypeOK, ShardInv, LogParts

\* What a Query finds in the configurations.
LEMMA QueryFacts ==
    ASSUME NEW st, Sound(st), NEW num \in Int
    PROVE  /\ \E k \in DOMAIN st.configs : handleQuery(st, num) = st.configs[k]
           /\ handleQuery(st, num) \in ConfigType
           /\ \A m \in Nat : m <= getLastConfigNumber(st) =>
                  freshAs([asked |-> num, config |-> handleQuery(st, num)], m)
<1>1. PICK n \in Nat : n = getLastConfigNumber(st) /\ n = Len(st.configs) - 1
  BY IndexedFacts DEF Sound
<1>2. /\ DOMAIN st.configs = 1..(n + 1)
      /\ \A k \in 1..(n + 1) : st.configs[k] \in ConfigType /\ st.configs[k].num = k - 1
  BY <1>1, IndexedFacts DEF Sound
<1>3. CASE num < 0 \/ num > n
  <2>1. PICK config : config = st.configs[n + 1]
    OBVIOUS
  <2>2. handleQuery(st, num) = config /\ n + 1 \in 1..(n + 1)
    BY <1>1, <1>3, <2>1 DEF handleQuery
  <2>3. config.num = n /\ config \in ConfigType
    BY <1>2, <2>1, <2>2
  <2>4. ASSUME NEW m \in Nat, m <= n
        PROVE  freshAs([asked |-> num, config |-> config], m)
    BY <1>3, <2>3, <2>4 DEF freshAs
  <2> QED
    BY <1>1, <1>2, <2>1, <2>2, <2>3, <2>4
<1>4. CASE ~(num < 0 \/ num > n)
  <2>1. PICK config : config = st.configs[num + 1]
    OBVIOUS
  <2>2. handleQuery(st, num) = config /\ num + 1 \in 1..(n + 1)
    BY <1>1, <1>4, <2>1 DEF handleQuery
  <2>3. config.num = num /\ config \in ConfigType
    BY <1>2, <2>1, <2>2
  <2>4. ASSUME NEW m \in Nat, m <= n
        PROVE  freshAs([asked |-> num, config |-> config], m)
    BY <1>4, <2>3, <2>4 DEF freshAs
  <2> QED
    BY <1>1, <1>2, <2>1, <2>2, <2>3, <2>4
<1> QED
  BY <1>3, <1>4

\* A server's place in the log.
LEMMA PlaceFacts ==
    ASSUME TypeOK, ShardInv, NEW s \in Server
    PROVE  /\ applied[s] \in Nat /\ applied[s] <= Len(log)
           /\ applied[s] + 1 \in DOMAIN replay
           /\ state[s] = replay[applied[s] + 1].state /\ Sound(state[s])
           /\ lastCommittedCommandCount[s] = replay[applied[s] + 1].last
           /\ continues(state[s].configs, newest.configs)
           /\ getLastConfigNumber(state[s]) \in Nat
           /\ getLastConfigNumber(state[s]) <= getLastConfigNumber(newest)
<1>1. applied[s] \in Nat /\ applied[s] <= Len(log)
  BY DEF TypeOK, ServerTypes
<1>2. /\ applied[s] + 1 \in DOMAIN replay /\ Len(replay) \in DOMAIN replay
      /\ applied[s] + 1 <= Len(replay)
  BY <1>1, ReplayFacts
<1>3. /\ state[s] = replay[applied[s] + 1].state
      /\ lastCommittedCommandCount[s] = replay[applied[s] + 1].last
  BY DEF ShardInv, ReplicasAgree
<1>4. Sound(state[s]) /\ Sound(newest)
  BY <1>2, <1>3, ReplayFacts DEF newest
<1>5. continues(state[s].configs, newest.configs)
  BY <1>2, <1>3 DEF ShardInv, ReplayFollowsLog, newest
<1> QED
  BY <1>1, <1>2, <1>3, <1>4, <1>5, ContinuesNumber

\* A handler replies only what the log made, and nothing older than what was
\* acknowledged when its operation began.
LEMMA PollAnswers ==
    ASSUME TypeOK, ShardInv, NEW p \in calls, open(p), isCommandCommitted(p.srv, p.cmd)
    PROVE  /\ replyValue(p) \in AnswerType \cup {Nil}
           /\ getLastConfigNumber(state[p.srv]) \in Nat
           /\ Answers(Call(p.cmd, p.srv, "replied", replyValue(p), getLastConfigNumber(state[p.srv])))
<1>1. /\ p \in CallType /\ p.cmd \in CommandType /\ p.srv \in Server
      /\ p.cmd.clerk \in Clerk /\ p.cmd.op \in OpType /\ p.cmd.id \in Nat
  BY DEF TypeOK, ClerkTypes, CallType, CommandType
<1>2. PICK s \in Server, c \in Clerk : s = p.srv /\ c = p.cmd.clerk
  BY <1>1
<1>3. PICK st : st = state[s]
  OBVIOUS
<1>4. /\ applied[s] + 1 \in DOMAIN replay
      /\ st = replay[applied[s] + 1].state /\ Sound(st)
      /\ lastCommittedCommandCount[s] = replay[applied[s] + 1].last
      /\ continues(st.configs, newest.configs)
      /\ getLastConfigNumber(st) \in Nat
      /\ getLastConfigNumber(st) <= getLastConfigNumber(newest)
  BY <1>3, PlaceFacts
<1>5. since[c] \in Nat /\ since[c] <= getLastConfigNumber(st)
  <2>1. current[c] = p.cmd /\ current[c] # Nil
    BY <1>1, <1>2, NilAssumption DEF open
  <2>2. replay[applied[s] + 1].last[c] >= current[c].id
    BY <1>2, <1>4, <2>1 DEF isCommandCommitted
  <2>3. since[c] <= getLastConfigNumber(replay[applied[s] + 1].state)
    BY <1>4, <2>1, <2>2 DEF ShardInv, BegunAfter
  <2> QED
    BY <1>4, <2>3 DEF TypeOK, HistoryTypes
<1>6. PICK value, seen : value = replyValue(p) /\ seen = getLastConfigNumber(st)
  OBVIOUS
<1>7. value = Nil \/ /\ value \in AnswerType /\ Known(value.config)
                     /\ freshAs(value, since[c])
  <2>1. CASE p.cmd.op.type = "Query"
    <3>1. PICK num \in Int : num = p.cmd.op.num
      BY <1>1, <2>1 DEF OpType
    <3>2. PICK config : config = handleQuery(st, num)
      OBVIOUS
    <3>3. value = [asked |-> num, config |-> config]
      BY <1>2, <1>3, <1>6, <2>1, <3>1, <3>2 DEF replyValue
    <3>4. /\ config \in ConfigType /\ freshAs(value, since[c])
          /\ \E k \in DOMAIN st.configs : config = st.configs[k]
      BY <1>4, <1>5, <3>2, <3>3, QueryFacts
    <3>5. Known(config)
      BY <1>4, <3>4 DEF Known, continues
    <3>6. value \in AnswerType /\ value.config = config
      BY <3>3, <3>4 DEF AnswerType
    <3> QED
      BY <3>4, <3>5, <3>6
  <2>2. CASE p.cmd.op.type # "Query"
    BY <1>6, <2>2 DEF replyValue
  <2> QED
    BY <2>1, <2>2
<1>8. PICK r : r = Call(p.cmd, p.srv, "replied", value, seen)
  OBVIOUS
<1>9. r.cmd = p.cmd /\ r.value = value /\ r.seen = seen
  BY <1>8 DEF Call
<1>10. Answers(r)
  BY <1>2, <1>4, <1>6, <1>7, <1>9 DEF Answers
<1> QED
  BY <1>2, <1>3, <1>4, <1>6, <1>7, <1>8, <1>10

\* Calls that are submitted, find no leader, are answered or time out.
LEMMA InvHandler ==
    ASSUME TypeOK, ShardInv, NEW p \in calls,
           Submit(p) \/ WrongLeader(p) \/ Poll(p) \/ TimeOut(p)
    PROVE  TypeOK' /\ ShardInv'
<1>1. p.cmd \in CommandType /\ p.cmd.clerk \in Clerk /\ p.cmd.id \in Nat
      /\ p.cmd.id < nextCommandN[p.cmd.clerk]
  BY DEF TypeOK, ClerkTypes, CallType, CommandType, ShardInv, NumbersIssued
<1>2. ASSUME UNCHANGED logVars
      PROVE  /\ LogOnlyGrows /\ LogParts'
             /\ \A n \in DOMAIN replay' : \A c \in Clerk : replay'[n].last[c] < nextCommandN[c]
  BY <1>2, LogUnchanged DEF ShardInv, NumbersIssued
<1>3. CASE WrongLeader(p) \/ TimeOut(p)
  <2>1. goOn(p, "sent", Nil, 0) /\ UNCHANGED <<clerkVars, logVars, serverVars, historyVars>>
    BY <1>3 DEF WrongLeader, TimeOut
  <2> QED
    BY <1>2, <2>1, CallGoesOn
<1>4. CASE Poll(p)
  <2>0. PICK value, seen : value = replyValue(p) /\ seen = getLastConfigNumber(state[p.srv])
    OBVIOUS
  <2>1. /\ isCommandCommitted(p.srv, p.cmd) /\ goOn(p, "replied", value, seen)
        /\ UNCHANGED <<clerkVars, logVars, serverVars, historyVars>>
    BY <1>4, <2>0 DEF Poll
  <2>2. CASE open(p)
    <3>1. /\ value \in AnswerType \cup {Nil} /\ seen \in Nat
          /\ Answers(Call(p.cmd, p.srv, "replied", value, seen))
      BY <2>0, <2>1, <2>2, PollAnswers
    <3> QED
      BY <1>2, <2>1, <3>1, CallGoesOn
  <2>3. CASE ~open(p)
    <3>1. goOn(p, "sent", Nil, 0)
      BY <2>1, <2>3 DEF goOn
    <3> QED
      BY <1>2, <2>1, <3>1, CallGoesOn
  <2> QED
    BY <2>2, <2>3
<1>5. CASE Submit(p)
  <2>1. goOn(p, "polling", Nil, 0) /\ UNCHANGED <<clerkVars, serverVars, historyVars>>
    BY <1>5 DEF Submit
  <2>2. CASE UNCHANGED logVars
    BY <1>2, <2>1, <2>2, CallGoesOn
  <2>3. CASE log' = Append(log, p.cmd) /\ replay' = Append(replay, once(replay[Len(replay)], p.cmd))
    <3>1. PICK cmd \in CommandType : cmd = p.cmd
      BY <1>1
    <3>2. /\ LogOnlyGrows /\ LogParts'
          /\ \A n \in DOMAIN replay' : \A c \in Clerk :
                 \/ n \in DOMAIN replay
                 \/ replay'[n].last[c] = replay[Len(replay)].last[c]
                 \/ c = cmd.clerk /\ replay'[n].last[c] = cmd.id
      BY <2>3, <3>1, LogGrown
    <3>3. \A n \in DOMAIN replay : \A c \in Clerk : replay[n].last[c] < nextCommandN[c]
      BY DEF ShardInv, NumbersIssued
    <3>4. Len(replay) \in DOMAIN replay
      BY ReplayFacts
    <3>5. \A n \in DOMAIN replay : replay'[n] = replay[n]
      BY <3>2 DEF LogOnlyGrows
    <3>6. \A n \in DOMAIN replay' : \A c \in Clerk : replay'[n].last[c] < nextCommandN[c]
      BY <1>1, <3>1, <3>2, <3>3, <3>4, <3>5
    <3> QED
      BY <2>1, <3>2, <3>6, CallGoesOn
  <2> QED
    BY <1>5, <2>2, <2>3 DEF Submit, Start
<1> QED
  BY <1>3, <1>4, <1>5

\* A clerk begins an operation.
LEMMA InvBegin ==
    ASSUME TypeOK, ShardInv, NEW c \in Clerk, Begin(c)
    PROVE  TypeOK' /\ ShardInv'
<1>1. PICK op \in Script[c][nextCommandN[c] + 1] :
          /\ current' = [current EXCEPT ![c] = Command(c, op)]
          /\ calls' = calls \cup {Call(Command(c, op), s, "sent", Nil, 0) : s \in Server}
  BY DEF Begin
<1>2. /\ current[c] = Nil /\ nextCommandN[c] < Len(Script[c])
      /\ nextCommandN' = [nextCommandN EXCEPT ![c] = nextCommandN[c] + 1]
      /\ result' = [result EXCEPT ![c] = Nil]
      /\ since' = [since EXCEPT ![c] = acknowledged]
      /\ UNCHANGED <<logVars, serverVars, historyVars>>
  BY DEF Begin
<1>3. PICK id \in Nat : id = nextCommandN[c]
  BY DEF TypeOK, ClerkTypes
<1>4. op \in OpType
  <2>1. Script[c] \in Seq(SUBSET OpType) /\ Len(Script[c]) \in Nat
    BY ScriptAssumption
  <2>2. id + 1 \in 1..Len(Script[c])
    BY <1>2, <1>3, <2>1
  <2>3. Script[c][id + 1] \in SUBSET OpType
    BY <2>1, <2>2
  <2> QED
    BY <1>3, <2>3
<1>5. PICK cmd : cmd = Command(c, op)
  OBVIOUS
<1>6. cmd \in CommandType /\ cmd.clerk = c /\ cmd.id = id /\ cmd # Nil
  <2>1. cmd = [clerk |-> c, id |-> id, op |-> op]
    BY <1>3, <1>5 DEF Command
  <2>2. cmd \in CommandType
    BY <1>4, <2>1 DEF CommandType
  <2> QED
    BY <2>1, <2>2, NilAssumption
<1>7. LogOnlyGrows /\ LogParts' /\ log' = log /\ replay' = replay
  BY <1>2, LogUnchanged
<1>8. ServerTypes' /\ ReplicasAgree' /\ StopsAtFatal' /\ \A s \in Server : Indexed(state'[s])
  BY <1>2, <1>7, ServersKept
<1>9. /\ published' = published /\ acknowledged' = acknowledged
      /\ newest' = newest /\ acknowledged \in Nat
  BY <1>2, <1>7 DEF historyVars, newest, TypeOK, HistoryTypes
<1>10. /\ nextCommandN' \in [Clerk -> Nat] /\ nextCommandN'[c] = id + 1
       /\ \A d \in Clerk \ {c} : nextCommandN'[d] = nextCommandN[d]
  BY <1>2, <1>3 DEF TypeOK, ClerkTypes
<1>11. /\ current' \in [Clerk -> CommandType \cup {Nil}] /\ current'[c] = cmd
       /\ \A d \in Clerk \ {c} : current'[d] = current[d]
  BY <1>1, <1>5, <1>6 DEF TypeOK, ClerkTypes
<1>12. /\ since' \in [Clerk -> Nat] /\ since'[c] = acknowledged
       /\ \A d \in Clerk \ {c} : since'[d] = since[d]
  BY <1>2, <1>9 DEF TypeOK, HistoryTypes
<1>13. /\ result' \in [Clerk -> AnswerType \cup {Nil}] /\ result'[c] = Nil
       /\ \A d \in Clerk \ {c} : result'[d] = result[d]
  BY <1>2 DEF TypeOK, ClerkTypes
<1>14. ASSUME NEW q \in calls'
       PROVE  \/ q \in calls
              \/ q \in CallType /\ q.at = "sent" /\ q.cmd = cmd
  <2>1. CASE \E s \in Server : q = Call(cmd, s, "sent", Nil, 0)
    BY <1>6, <2>1 DEF Call, CallType
  <2> QED
    BY <1>1, <1>5, <2>1
<1>15. ClerkTypes'
  <2>1. calls' \subseteq CallType
    BY <1>14 DEF TypeOK, ClerkTypes
  <2>2. \A d \in Clerk : nextCommandN'[d] <= Len(Script[d])
    <3>1. Len(Script[c]) \in Nat
      BY ScriptAssumption
    <3>2. id + 1 <= Len(Script[c])
      BY <1>2, <1>3, <3>1
    <3> QED
      BY <1>10, <3>2 DEF TypeOK, ClerkTypes
  <2> QED
    BY <1>10, <1>11, <1>13, <2>1, <2>2 DEF ClerkTypes
<1>16. HistoryTypes'
  BY <1>7, <1>9, <1>12 DEF TypeOK, HistoryTypes
<1>17. ASSUME NEW d \in Clerk
       PROVE  /\ nextCommandN[d] \in Nat /\ nextCommandN'[d] \in Nat
              /\ nextCommandN[d] <= nextCommandN'[d]
  <2>1. nextCommandN[d] \in Nat /\ nextCommandN'[d] \in Nat
    BY <1>10 DEF TypeOK, ClerkTypes
  <2>2. CASE d = c
    BY <1>3, <1>10, <2>1, <2>2
  <2>3. CASE d # c
    BY <1>10, <2>1, <2>3
  <2> QED
    BY <2>1, <2>2, <2>3
<1>18. NumbersIssued'
  <2>1. ASSUME NEW n \in DOMAIN replay, NEW d \in Clerk
        PROVE  replay[n].last[d] < nextCommandN'[d]
    <3>1. replay[n].last[d] < nextCommandN[d] /\ replay[n].last[d] \in Int
      BY ReplayFacts DEF ShardInv, NumbersIssued
    <3> QED
      BY <1>17, <3>1
  <2>2. ASSUME NEW q \in calls'
        PROVE  q.cmd.id < nextCommandN'[q.cmd.clerk]
    <3>1. CASE q \in calls
      <4>1. PICK d \in Clerk : d = q.cmd.clerk
        BY <3>1 DEF TypeOK, ClerkTypes, CallType, CommandType
      <4>2. q.cmd.id \in Nat /\ q.cmd.id < nextCommandN[d]
        BY <3>1, <4>1 DEF TypeOK, ClerkTypes, CallType, CommandType, ShardInv, NumbersIssued
      <4>3. q.cmd.id < nextCommandN'[d]
        BY <1>17, <4>2
      <4> QED
        BY <4>1, <4>3
    <3>2. CASE q.cmd = cmd
      BY <1>6, <1>10, <3>2
    <3> QED
      BY <1>14, <3>1, <3>2
  <2>3. \A d \in Clerk : current'[d] # Nil => current'[d].clerk = d
    BY <1>6, <1>11 DEF ShardInv, NumbersIssued
  <2> QED
    BY <1>7, <2>1, <2>2, <2>3 DEF NumbersIssued
<1>19. AnswersKnown'
  <2>1. \A config \in published' : Known(config)'
    BY <1>7, <1>9, KnownKept DEF ShardInv, AnswersKnown
  <2>2. ASSUME NEW q \in calls', q.at = "replied"
        PROVE  open(q)' /\ Answers(q)'
    <3>1. q \in calls
      BY <1>14, <2>2
    <3>2. q.cmd.clerk \in Clerk /\ q.cmd # Nil /\ q.seen \in Nat
      BY <3>1, NilAssumption DEF TypeOK, ClerkTypes, CallType, CommandType
    <3>3. open(q) /\ Answers(q)
      BY <2>2, <3>1 DEF ShardInv, AnswersKnown, Answers
    <3>4. q.cmd.clerk # c
      BY <1>2, <3>2, <3>3 DEF open
    <3>5. since'[q.cmd.clerk] = since[q.cmd.clerk] /\ current'[q.cmd.clerk] = current[q.cmd.clerk]
      BY <1>11, <1>12, <3>2, <3>4
    <3>6. Answers(q)'
      BY <1>7, <3>2, <3>3, <3>5, AnswerKept
    <3> QED
      BY <3>3, <3>5, <3>6 DEF open
  <2> QED
    BY <2>1, <2>2 DEF AnswersKnown, Answers
<1>20. BegunAfter'
  <2>1. acknowledged <= getLastConfigNumber(newest)
    BY DEF ShardInv, BegunAfter
  <2>2. ASSUME NEW d \in Clerk
        PROVE  /\ since'[d] <= getLastConfigNumber(newest)
               /\ current'[d] # Nil => \A n \in DOMAIN replay :
                      replay[n].last[d] >= current'[d].id =>
                          since'[d] <= getLastConfigNumber(replay[n].state)
    <3>1. CASE d = c
      <4>1. ASSUME NEW n \in DOMAIN replay
            PROVE  ~(replay[n].last[d] >= id)
        <5>1. replay[n].last[d] < nextCommandN[d] /\ replay[n].last[d] \in Int
          BY ReplayFacts DEF ShardInv, NumbersIssued
        <5> QED
          BY <1>3, <3>1, <5>1
      <4> QED
        BY <1>6, <1>11, <1>12, <2>1, <3>1, <4>1
    <3>2. CASE d # c
      BY <1>11, <1>12, <3>2 DEF ShardInv, BegunAfter
    <3> QED
      BY <3>1, <3>2
  <2>3. /\ getLastConfigNumber(newest)' = getLastConfigNumber(newest)
        /\ \A n : getLastConfigNumber(replay[n].state)' = getLastConfigNumber(replay[n].state)
    BY <1>7, <1>9 DEF getLastConfigNumber
  <2> QED
    BY <1>7, <1>9, <2>1, <2>2, <2>3 DEF BegunAfter
<1>21. QueryFresh'
  BY <1>12, <1>13 DEF ShardInv, QueryFresh
<1> QED
  BY <1>7, <1>8, <1>15, <1>16, <1>18, <1>19, <1>20, <1>21 DEF TypeOK, ShardInv, LogParts

\* A clerk returns from its operation.
LEMMA InvDone ==
    ASSUME TypeOK, ShardInv, NEW p \in calls, Done(p)
    PROVE  TypeOK' /\ ShardInv'
<1>1. /\ p \in CallType /\ p.cmd \in CommandType /\ p.cmd.clerk \in Clerk
      /\ p.value \in AnswerType \cup {Nil} /\ p.seen \in Nat
  BY DEF TypeOK, ClerkTypes, CallType, CommandType
<1>2. PICK c \in Clerk : c = p.cmd.clerk
  BY <1>1
<1>3. /\ p.at = "replied"
      /\ current' = [current EXCEPT ![c] = Nil]
      /\ result' = [result EXCEPT ![c] = p.value]
      /\ calls' = {q \in calls : q.cmd = p.cmd => q.at = "sent"}
      /\ published' = published \cup (IF p.value = Nil THEN {} ELSE {p.value.config})
      /\ acknowledged' = IF p.seen > acknowledged THEN p.seen ELSE acknowledged
      /\ UNCHANGED <<nextCommandN, since, logVars, serverVars>>
  BY <1>2 DEF Done
<1>4. open(p) /\ Answers(p)
  BY <1>3 DEF ShardInv, AnswersKnown, Answers
<1>5. LogOnlyGrows /\ LogParts' /\ log' = log /\ replay' = replay
  BY <1>3, LogUnchanged
<1>6. ServerTypes' /\ ReplicasAgree' /\ StopsAtFatal' /\ \A s \in Server : Indexed(state'[s])
  BY <1>3, <1>5, ServersKept
<1>7. nextCommandN' = nextCommandN /\ since' = since /\ newest' = newest
  BY <1>3, <1>5 DEF newest
<1>8. /\ current' \in [Clerk -> CommandType \cup {Nil}] /\ current'[c] = Nil
      /\ \A d \in Clerk \ {c} : current'[d] = current[d]
  BY <1>3 DEF TypeOK, ClerkTypes
<1>9. /\ result' \in [Clerk -> AnswerType \cup {Nil}] /\ result'[c] = p.value
      /\ \A d \in Clerk \ {c} : result'[d] = result[d]
  BY <1>1, <1>3 DEF TypeOK, ClerkTypes
<1>10. calls' \subseteq calls
  BY <1>3
<1>11. \A config \in published' : config \in ConfigType /\ Known(config)
  <2>1. \A config \in published : config \in ConfigType /\ Known(config)
    BY DEF TypeOK, HistoryTypes, ShardInv, AnswersKnown
  <2>2. p.value # Nil => p.value.config \in ConfigType /\ Known(p.value.config)
    BY <1>1, <1>4 DEF Answers, AnswerType
  <2> QED
    BY <1>3, <2>1, <2>2
<1>12. acknowledged' \in Nat /\ acknowledged' <= getLastConfigNumber(newest)
  <2>1. p.seen <= getLastConfigNumber(newest) /\ acknowledged <= getLastConfigNumber(newest)
    BY <1>4 DEF Answers, ShardInv, BegunAfter
  <2>2. acknowledged \in Nat
    BY DEF TypeOK, HistoryTypes
  <2> QED
    BY <1>1, <1>3, <2>1, <2>2
<1>13. ClerkTypes'
  BY <1>7, <1>8, <1>9, <1>10 DEF TypeOK, ClerkTypes
<1>14. HistoryTypes'
  BY <1>5, <1>7, <1>11, <1>12 DEF TypeOK, HistoryTypes
<1>15. NumbersIssued'
  BY <1>5, <1>7, <1>8, <1>10 DEF ShardInv, NumbersIssued
<1>16. AnswersKnown'
  <2>1. \A config \in published' : Known(config)'
    BY <1>5, <1>11, KnownKept
  <2>2. ASSUME NEW q \in calls', q.at = "replied"
        PROVE  open(q)' /\ Answers(q)'
    <3>1. q \in calls /\ q.cmd # p.cmd
      BY <1>3, <2>2
    <3>2. q.cmd.clerk \in Clerk /\ q.seen \in Nat
      BY <3>1 DEF TypeOK, ClerkTypes, CallType, CommandType
    <3>3. open(q) /\ Answers(q)
      BY <2>2, <3>1 DEF ShardInv, AnswersKnown, Answers
    <3>4. q.cmd.clerk # c
      BY <1>2, <1>4, <3>1, <3>3 DEF open
    <3>5. Answers(q)'
      BY <1>5, <1>7, <3>2, <3>3, AnswerKept
    <3> QED
      BY <1>8, <3>2, <3>3, <3>4, <3>5 DEF open
  <2> QED
    BY <2>1, <2>2 DEF AnswersKnown, Answers
<1>17. BegunAfter'
  <2>1. /\ getLastConfigNumber(newest)' = getLastConfigNumber(newest)
        /\ \A n : getLastConfigNumber(replay[n].state)' = getLastConfigNumber(replay[n].state)
    BY <1>5, <1>7 DEF getLastConfigNumber
  <2>2. ASSUME NEW d \in Clerk
        PROVE  /\ since[d] <= getLastConfigNumber(newest)
               /\ current'[d] # Nil => \A n \in DOMAIN replay :
                      replay[n].last[d] >= current'[d].id =>
                          since[d] <= getLastConfigNumber(replay[n].state)
    BY <1>8 DEF ShardInv, BegunAfter
  <2> QED
    BY <1>5, <1>7, <1>12, <2>1, <2>2 DEF BegunAfter
<1>18. QueryFresh'
  <2>1. p.value # Nil => freshAs(p.value, since[c])
    BY <1>2, <1>4 DEF Answers
  <2>2. ASSUME NEW d \in Clerk, result'[d] # Nil
        PROVE  freshAs(result'[d], since[d])
    BY <1>9, <2>1, <2>2 DEF ShardInv, QueryFresh
  <2> QED
    BY <1>7, <2>2 DEF QueryFresh, freshAs
<1> QED
  BY <1>5, <1>6, <1>13, <1>14, <1>15, <1>16, <1>17, <1>18 DEF TypeOK, ShardInv, LogParts

\* The clerks, the log and the calls while servers move: no call begins, none is
\* answered.
LEMMA CallsKept ==
    ASSUME TypeOK, ShardInv, UNCHANGED <<clerkVars, logVars, historyVars>>,
           \A q \in calls' : \/ q \in calls
                             \/ q \in CallType /\ q.at = "sent" /\ \E p \in calls : q.cmd = p.cmd
    PROVE  /\ ClerkTypes' /\ HistoryTypes' /\ LogParts' /\ log' = log /\ replay' = replay
           /\ NumbersIssued' /\ AnswersKnown' /\ BegunAfter' /\ QueryFresh'
<1>1. /\ current' = current /\ since' = since /\ nextCommandN' = nextCommandN /\ result' = result
      /\ published' = published /\ acknowledged' = acknowledged
  BY DEF clerkVars, historyVars
<1>2. LogOnlyGrows /\ LogParts' /\ log' = log /\ replay' = replay
  BY LogUnchanged
<1>3. BegunAfter' /\ QueryFresh'
  BY <1>1, <1>2, BeginningsKept
<1>4. ClerkTypes'
  <2>1. calls' \subseteq CallType
    BY DEF TypeOK, ClerkTypes
  <2> QED
    BY <1>1, <2>1 DEF TypeOK, ClerkTypes
<1>5. HistoryTypes'
  BY <1>1, <1>2 DEF TypeOK, HistoryTypes
<1>6. NumbersIssued'
  BY <1>1, <1>2 DEF ShardInv, NumbersIssued
<1>7. AnswersKnown'
  <2>1. \A config \in published' : Known(config)'
    BY <1>1, <1>2, KnownKept DEF ShardInv, AnswersKnown
  <2>2. ASSUME NEW q \in calls', q.at = "replied"
        PROVE  open(q)' /\ Answers(q)'
    <3>1. q \in calls
      BY <2>2
    <3>2. open(q) /\ Answers(q) /\ q.seen \in Nat
      BY <2>2, <3>1 DEF TypeOK, ClerkTypes, CallType, ShardInv, AnswersKnown, Answers
    <3>3. Answers(q)'
      BY <1>1, <1>2, <3>2, AnswerKept
    <3> QED
      BY <1>1, <3>2, <3>3 DEF open
  <2> QED
    BY <2>1, <2>2 DEF AnswersKnown, Answers
<1> QED
  BY <1>2, <1>3, <1>4, <1>5, <1>6, <1>7

\* A server reads the next command.
LEMMA InvApply ==
    ASSUME TypeOK, ShardInv, NEW s \in Server, checkApplyCommand(s)
    PROVE  TypeOK' /\ ShardInv'
<1>1. /\ applied[s] < Len(log) /\ applied' = [applied EXCEPT ![s] = applied[s] + 1]
      /\ UNCHANGED <<clerkVars, calls, logVars, historyVars>>
  BY DEF checkApplyCommand
<1>2. /\ ClerkTypes' /\ HistoryTypes' /\ LogParts' /\ log' = log /\ replay' = replay
      /\ NumbersIssued' /\ AnswersKnown' /\ BegunAfter' /\ QueryFresh'
  BY <1>1, CallsKept
<1>3. PICK a \in Nat : a = applied[s]
  BY DEF TypeOK, ServerTypes
<1>4. /\ a + 1 \in DOMAIN log /\ a + 1 \in DOMAIN replay /\ a + 2 \in DOMAIN replay
      /\ a + 1 <= Len(log) /\ a + 1 \in Nat
  BY <1>1, <1>3, ReplayFacts
<1>5. PICK cmd \in CommandType : cmd = log[a + 1]
  BY <1>4, ReplayFacts
<1>6. PICK r \in ReplayType : r = replay[a + 1] /\ Sound(r.state)
  BY <1>4, ReplayFacts
<1>7. PICK new \in ReplayType : new = replay[a + 2] /\ Sound(new.state)
  BY <1>4, ReplayFacts
<1>8. new = once(r, cmd)
  BY <1>3, <1>4, <1>5, <1>6, <1>7 DEF ShardInv, ReplayFollowsLog
<1>9. state[s] = r.state /\ lastCommittedCommandCount[s] = r.last
  BY <1>3, <1>6 DEF ShardInv, ReplicasAgree
<1>10. cmd.clerk \in Clerk /\ cmd.id \in Nat /\ cmd.op \in OpType
  BY DEF CommandType
<1>11. /\ state' \in [Server -> StateType] /\ state'[s] = new.state
       /\ lastCommittedCommandCount' \in [Server -> TableType]
       /\ lastCommittedCommandCount'[s] = new.last
       /\ \A t \in Server \ {s} : /\ state'[t] = state[t]
                                  /\ lastCommittedCommandCount'[t] = lastCommittedCommandCount[t]
       /\ panicked' \subseteq Server
  <2>0. /\ state \in [Server -> StateType]
        /\ lastCommittedCommandCount \in [Server -> TableType] /\ panicked \subseteq Server
    BY DEF TypeOK, ServerTypes
  <2>1. CASE isCommandCommitted(s, cmd)
    <3>1. UNCHANGED <<state, lastCommittedCommandCount, panicked>>
      BY <1>3, <1>5, <2>1 DEF checkApplyCommand
    <3>2. new = r
      BY <1>8, <1>9, <2>1 DEF once, isCommandCommitted
    <3> QED
      BY <1>9, <2>0, <3>1, <3>2
  <2>2. CASE ~isCommandCommitted(s, cmd) /\ panics(state[s], cmd.op)
    <3>1. panicked' = panicked \cup {s} /\ UNCHANGED <<state, lastCommittedCommandCount>>
      BY <1>3, <1>5, <2>2 DEF checkApplyCommand
    <3>2. new = r
      BY <1>8, <1>9, <2>2 DEF once
    <3> QED
      BY <1>9, <2>0, <3>1, <3>2
  <2>3. CASE ~isCommandCommitted(s, cmd) /\ ~panics(state[s], cmd.op)
    <3>1. PICK st \in execute(state[s], cmd.op) : state' = [state EXCEPT ![s] = st]
      BY <1>3, <1>5, <2>3 DEF checkApplyCommand
    <3>2. /\ lastCommittedCommandCount' =
                 [lastCommittedCommandCount EXCEPT ![s][cmd.clerk] = cmd.id]
          /\ panicked' = panicked
      BY <1>3, <1>5, <2>3 DEF checkApplyCommand
    <3>3. PICK x, op : x = r.state /\ op = cmd.op
      OBVIOUS
    <3>a. Sound(x) /\ op \in OpType /\ ~panics(x, op)
      BY <1>6, <1>9, <1>10, <2>3, <3>3
    <3>4. PICK made : execute(x, op) = {made}
      BY <3>a, ExecuteFacts
    <3>5. (CHOOSE y \in execute(x, op) : TRUE) = made /\ st = made
      BY <1>9, <3>1, <3>3, <3>4
    <3>6. new = [state |-> made, last |-> [r.last EXCEPT ![cmd.clerk] = cmd.id]]
      BY <1>8, <1>9, <2>3, <3>3, <3>5 DEF once, isCommandCommitted
    <3>7. new.state = made /\ new.last = [r.last EXCEPT ![cmd.clerk] = cmd.id]
      BY <3>6
    <3>8. new.state \in StateType /\ new.last \in TableType
      BY DEF ReplayType
    <3>9. lastCommittedCommandCount' = [lastCommittedCommandCount EXCEPT ![s] = new.last]
      BY <1>9, <2>0, <3>2, <3>7
    <3>10. state' = [state EXCEPT ![s] = new.state]
      BY <3>1, <3>5, <3>7
    <3> QED
      BY <2>0, <3>2, <3>8, <3>9, <3>10
  <2> QED
    BY <2>1, <2>2, <2>3
<1>12. /\ applied' \in [Server -> Nat] /\ applied'[s] = a + 1
       /\ \A t \in Server \ {s} : applied'[t] = applied[t]
  BY <1>1, <1>3, <1>4 DEF TypeOK, ServerTypes
<1>13. ServerTypes'
  <2>1. \A t \in Server : applied'[t] <= Len(log')
    BY <1>2, <1>4, <1>12 DEF TypeOK, ServerTypes
  <2> QED
    BY <1>2, <1>11, <1>12, <2>1 DEF ServerTypes, LogParts
<1>14. ReplicasAgree'
  <2>1. a + 1 + 1 = a + 2
    OBVIOUS
  <2> SUFFICES ASSUME NEW t \in Server
               PROVE  /\ state'[t] = replay[applied'[t] + 1].state
                      /\ lastCommittedCommandCount'[t] = replay[applied'[t] + 1].last
    BY <1>2 DEF ReplicasAgree
  <2>2. CASE t = s
    BY <1>7, <1>11, <1>12, <2>1, <2>2
  <2>3. CASE t # s
    BY <1>11, <1>12, <2>3 DEF ShardInv, ReplicasAgree
  <2> QED
    BY <2>2, <2>3
<1>a. s \notin panicked /\ (panicked' = panicked \/ panicked' = panicked \cup {s})
  BY <1>3, <1>5 DEF checkApplyCommand
<1>b. s \in panicked' <=> Fatal(a + 1)
  <2>1. isCommandCommitted(s, cmd) <=> ~(r.last[cmd.clerk] < cmd.id)
    BY <1>9, <1>10 DEF isCommandCommitted, ReplayType, TableType
  <2>2. s \in panicked' <=> ~isCommandCommitted(s, cmd) /\ panics(state[s], cmd.op)
    BY <1>3, <1>5, <1>a DEF checkApplyCommand
  <2> QED
    BY <1>5, <1>6, <1>9, <2>1, <2>2 DEF Fatal
<1>c. \A n : Fatal(n)' <=> Fatal(n)
  BY <1>2 DEF Fatal
<1>d. StopsAtFatal'
  <2> SUFFICES ASSUME NEW t \in Server
               PROVE  /\ t \in panicked' => applied'[t] > 0 /\ Fatal(applied'[t])
                      /\ \A n \in 1..applied'[t] :
                             Fatal(n) => n = applied'[t] /\ t \in panicked'
    BY <1>c DEF StopsAtFatal
  <2>1. CASE t = s
    <3>1. \A n \in 1..(a + 1) : n \in 1..a \/ n = a + 1
      BY <1>3
    <3>2. \A n \in 1..a : ~Fatal(n)
      BY <1>3, <1>a DEF ShardInv, StopsAtFatal
    <3> QED
      BY <1>3, <1>12, <1>b, <2>1, <3>1, <3>2
  <2>2. CASE t # s
    BY <1>12, <1>a, <2>2 DEF ShardInv, StopsAtFatal
  <2> QED
    BY <2>1, <2>2
<1>15. \A t \in Server : Indexed(state'[t])
  <2>1. Indexed(new.state)
    BY <1>7 DEF Sound
  <2> QED
    BY <1>11, <2>1 DEF TypeOK
<1> QED
  BY <1>2, <1>13, <1>14, <1>15, <1>d DEF TypeOK, ShardInv, LogParts

\* The state of StartServer.
LEMMA FreshSound == Sound(freshState) /\ noCommand \in TableType
<1>1. PICK config : config = Config(0, NoGroup, {})
  OBVIOUS
<1>2. /\ config \in ConfigType /\ config.num = 0 /\ config.shards = NoGroup
      /\ config.groups = {}
  BY <1>1 DEF Config, ConfigType, NoGroup
<1>3. PICK configs : configs = <<config>>
  OBVIOUS
<1>4. /\ configs \in Seq(ConfigType) /\ Len(configs) = 1 /\ DOMAIN configs = {1}
      /\ configs[1] = config /\ configs # <<>>
  BY <1>2, <1>3
<1>5. freshState = [groupMap |-> {}, shards |-> NoGroup, configs |-> configs]
  BY <1>1, <1>3 DEF freshState
<1>6. /\ freshState \in StateType
      /\ freshState.configs = configs /\ freshState.shards = NoGroup /\ freshState.groupMap = {}
  BY <1>4, <1>5 DEF StateType, NoGroup
<1>a. \A n \in DOMAIN configs : configs[n].num = n - 1
  BY <1>2, <1>4
<1>b. configs[Len(configs)] = config
  BY <1>4
<1>7. Indexed(freshState)
  BY <1>2, <1>4, <1>6, <1>a, <1>b DEF Indexed
<1>8. covers(config)
  BY <1>2 DEF covers
<1> QED
  BY <1>4, <1>6, <1>7, <1>8 DEF Sound, noCommand, TableType

\* A server dies and starts again.
LEMMA InvRestart ==
    ASSUME TypeOK, ShardInv, NEW s \in Server, Restart(s)
    PROVE  TypeOK' /\ ShardInv'
<1>1. /\ applied' = [applied EXCEPT ![s] = 0]
      /\ state' = [state EXCEPT ![s] = freshState]
      /\ lastCommittedCommandCount' = [lastCommittedCommandCount EXCEPT ![s] = noCommand]
      /\ panicked' = panicked \ {s}
      /\ UNCHANGED <<clerkVars, logVars, historyVars>>
  BY DEF Restart
<1>2. ASSUME NEW q \in calls'
      PROVE  \/ q \in calls
             \/ q \in CallType /\ q.at = "sent" /\ \E p \in calls : q.cmd = p.cmd
  <2>1. q \in calls \/ \E p \in calls : q = Call(p.cmd, s, "sent", Nil, 0)
    BY DEF Restart
  <2>2. ASSUME NEW p \in calls, q = Call(p.cmd, s, "sent", Nil, 0)
        PROVE  q \in CallType /\ q.at = "sent" /\ q.cmd = p.cmd
    <3>1. p.cmd \in CommandType
      BY DEF TypeOK, ClerkTypes, CallType
    <3> QED
      BY <2>2, <3>1 DEF Call, CallType
  <2> QED
    BY <2>1, <2>2
<1>3. /\ ClerkTypes' /\ HistoryTypes' /\ LogParts' /\ log' = log /\ replay' = replay
      /\ NumbersIssued' /\ AnswersKnown' /\ BegunAfter' /\ QueryFresh'
  BY <1>1, <1>2, CallsKept
<1>4. /\ state' \in [Server -> StateType] /\ state'[s] = freshState
      /\ lastCommittedCommandCount' \in [Server -> TableType]
      /\ lastCommittedCommandCount'[s] = noCommand
      /\ applied' \in [Server -> Nat] /\ applied'[s] = 0
      /\ panicked' \subseteq Server
      /\ \A t \in Server \ {s} : /\ state'[t] = state[t] /\ applied'[t] = applied[t]
                                 /\ lastCommittedCommandCount'[t] = lastCommittedCommandCount[t]
  BY <1>1, FreshSound DEF TypeOK, ServerTypes, Sound
<1>5. ServerTypes'
  <2>1. Len(log) \in Nat
    BY ReplayFacts
  <2>2. \A t \in Server : applied[t] <= Len(log)
    BY DEF TypeOK, ServerTypes
  <2>3. \A t \in Server : applied'[t] <= Len(log)
    BY <1>4, <2>1, <2>2
  <2> QED
    BY <1>3, <1>4, <2>3 DEF ServerTypes, LogParts
<1>6. ReplicasAgree'
  <2> SUFFICES ASSUME NEW t \in Server
               PROVE  /\ state'[t] = replay[applied'[t] + 1].state
                      /\ lastCommittedCommandCount'[t] = replay[applied'[t] + 1].last
    BY <1>3 DEF ReplicasAgree
  <2>1. CASE t = s
    <3>1. replay[1] = [state |-> freshState, last |-> noCommand]
      BY DEF ShardInv, ReplayFollowsLog
    <3> QED
      BY <1>4, <2>1, <3>1
  <2>2. CASE t # s
    BY <1>4, <2>2 DEF ShardInv, ReplicasAgree
  <2> QED
    BY <2>1, <2>2
<1>a. StopsAtFatal'
  <2>1. \A n : Fatal(n)' <=> Fatal(n)
    BY <1>3 DEF Fatal
  <2>2. 1..applied'[s] = {}
    BY <1>4
  <2> QED
    BY <1>1, <1>4, <2>1, <2>2 DEF ShardInv, StopsAtFatal
<1>7. \A t \in Server : Indexed(state'[t])
  BY <1>4, FreshSound DEF TypeOK, Sound
<1> QED
  BY <1>3, <1>5, <1>6, <1>7, <1>a DEF TypeOK, ShardInv, LogParts

-----------------------------------------------------------------------------
LEMMA InvInit ==
    ASSUME Init
    PROVE  TypeOK /\ ShardInv
<1> USE DEF Init
<1>1. PICK r : r = [state |-> freshState, last |-> noCommand]
  OBVIOUS
<1>2. r \in ReplayType /\ r.state = freshState /\ r.last = noCommand
  BY <1>1, FreshSound DEF ReplayType, Sound
<1>3. replay = <<r>>
  BY <1>1
<1>4. /\ replay \in Seq(ReplayType) /\ Len(replay) = 1 /\ DOMAIN replay = {1} /\ replay[1] = r
  BY <1>2, <1>3
<1>5. log \in Seq(CommandType) /\ Len(log) = 0 /\ DOMAIN log = {}
  OBVIOUS
<1>6. freshState \in StateType /\ Indexed(freshState)
  BY FreshSound DEF Sound
<1>7. ClerkTypes
  <2>1. \A c \in Clerk : Len(Script[c]) \in Nat
    BY ScriptAssumption
  <2> QED
    BY <2>1 DEF ClerkTypes
<1>8. ServerTypes
  BY <1>5, <1>6, FreshSound DEF ServerTypes
<1>9. HistoryTypes
  BY <1>4 DEF HistoryTypes, ReplayType
<1>10. TypeOK
  BY <1>6, <1>7, <1>8, <1>9 DEF TypeOK
<1>11. ReplayFollowsLog
  <2>1. \A c \in Clerk : r.last[c] <= r.last[c]
    BY <1>2 DEF noCommand
  <2> QED
    BY <1>1, <1>4, <1>5, <2>1, ContinuesReflexive DEF ReplayFollowsLog
<1>12. ReplicasAgree
  BY <1>2, <1>4 DEF ReplicasAgree
<1>a. StopsAtFatal
  BY DEF StopsAtFatal
<1>13. ConfigsSound
  BY <1>2, <1>4, FreshSound DEF ConfigsSound, Sound
<1>14. NumbersIssued
  BY <1>2, <1>4 DEF NumbersIssued, noCommand
<1>15. AnswersKnown
  BY DEF AnswersKnown
<1>16. newest = freshState
  BY <1>2, <1>4 DEF newest
<1>17. getLastConfigNumber(newest) \in Nat
  BY <1>6, <1>16, IndexedFacts
<1>18. BegunAfter
  BY <1>17 DEF BegunAfter
<1>19. QueryFresh
  BY DEF QueryFresh
<1> QED
  BY <1>10, <1>11, <1>12, <1>13, <1>14, <1>15, <1>18, <1>19, <1>a DEF ShardInv

LEMMA InvStutter ==
    ASSUME TypeOK, ShardInv, UNCHANGED vars
    PROVE  TypeOK' /\ ShardInv'
<1>1. UNCHANGED <<clerkVars, logVars, historyVars, serverVars>> /\ calls' = calls
  BY DEF vars
<1>2. /\ ClerkTypes' /\ HistoryTypes' /\ LogParts'
      /\ NumbersIssued' /\ AnswersKnown' /\ BegunAfter' /\ QueryFresh'
  BY <1>1, CallsKept
<1>3. ServerTypes' /\ ReplicasAgree' /\ StopsAtFatal' /\ \A s \in Server : Indexed(state'[s])
  BY <1>1, <1>2, LogUnchanged, ServersKept
<1> QED
  BY <1>2, <1>3 DEF TypeOK, ShardInv, LogParts

\* The inductive invariant of the shard masters: each server holds what its part
\* of the log makes, and no answer is older than what was acknowledged when its
\* operation began.
THEOREM ShardInvariant == Spec => [](TypeOK /\ ShardInv)
<1>1. Init => TypeOK /\ ShardInv
  BY InvInit
<1>2. TypeOK /\ ShardInv /\ [Next]_vars => (TypeOK /\ ShardInv)'
  <2> SUFFICES ASSUME TypeOK, ShardInv, [Next]_vars
               PROVE  TypeOK' /\ ShardInv'
    OBVIOUS
  <2>1. CASE ClerkStep
    BY <2>1, InvBegin, InvDone DEF ClerkStep
  <2>2. CASE HandlerStep
    BY <2>2, InvHandler DEF HandlerStep
  <2>3. CASE ServerStep
    BY <2>3, InvApply, InvRestart DEF ServerStep
  <2>4. CASE UNCHANGED vars
    BY <2>4, InvStutter
  <2> QED
    BY <2>1, <2>2, <2>3, <2>4 DEF Next
<1> QED
  BY <1>1, <1>2, PTL DEF Spec

\* Type correctness: every field keeps its Go type, and configs stays indexed by
\* number on every server.
THEOREM ShardTypeCorrect == Spec => []TypeOK
BY ShardInvariant, PTL

\* A configuration number means one configuration: on every server, across
\* restarts, whatever order Go iterates over its maps in, and in everything a
\* Query of client.go ever returned.
THEOREM ConfigsUniqueAlways == Spec => []ConfigsUnique
<1>1. ASSUME TypeOK, ShardInv
      PROVE  ConfigsUnique
  <2>1. Sound(newest)
    BY <1>1, ReplayFacts DEF newest
  <2>2. PICK new : new = newest
    OBVIOUS
  <2>3. \A k \in DOMAIN new.configs : new.configs[k].num = k - 1 /\ k \in Int
    BY <2>1, <2>2, IndexedFacts DEF Sound
  <2>4. ASSUME NEW config \in published \cup UNION {ConfigsOf(s) : s \in Server}
        PROVE  \E k \in DOMAIN new.configs : config = new.configs[k]
    <3>1. CASE config \in published
      BY <1>1, <2>2, <3>1 DEF ShardInv, AnswersKnown, Known
    <3>2. ASSUME NEW s \in Server, config \in ConfigsOf(s)
          PROVE  \E k \in DOMAIN new.configs : config = new.configs[k]
      <4>1. continues(state[s].configs, new.configs)
        BY <1>1, <2>2, PlaceFacts
      <4> QED
        BY <3>2, <4>1 DEF ConfigsOf, continues
    <3> QED
      BY <3>1, <3>2
  <2> SUFFICES ASSUME NEW a \in published \cup UNION {ConfigsOf(s) : s \in Server},
                      NEW b \in published \cup UNION {ConfigsOf(s) : s \in Server}, a.num = b.num
               PROVE  a = b
    BY DEF ConfigsUnique
  <2>5. PICK j \in DOMAIN new.configs : a = new.configs[j]
    BY <2>4
  <2>6. PICK k \in DOMAIN new.configs : b = new.configs[k]
    BY <2>4
  <2>7. j = k
    BY <2>3, <2>5, <2>6
  <2> QED
    BY <2>5, <2>6, <2>7
<1> QED
  BY <1>1, ShardInvariant, PTL

\* No stale answers: a Query that begins after another operation returned is
\* answered with the configurations that one had, whichever server replies first.
THEOREM QueryFreshAlways == Spec => []QueryFresh
<1>1. ShardInv => QueryFresh
  BY DEF ShardInv
<1> QED
  BY <1>1, ShardInvariant, PTL

\* redistributeShard leaves no shard to a group that is gone, if the shards divide
\* among the groups with at most one left over.
THEOREM SharesCoverAlways == Spec => []SharesCover
<1>1. ASSUME TypeOK, ShardInv
      PROVE  SharesCover
  <2> SUFFICES ASSUME NEW s \in Server, NEW config \in ConfigsOf(s)
               PROVE  covers(config)
    BY DEF SharesCover
  <2>1. Sound(state[s])
    BY <1>1, PlaceFacts
  <2> QED
    BY <2>1 DEF Sound, ConfigsOf
<1> QED
  BY <1>1, ShardInvariant, PTL

\* A server stops only at the first copy of a command, and none gets past the
\* place where another one stopped: what a server stops at is fixed by the log.
THEOREM StopsTogetherAlways == Spec => []StopsTogether
<1>1. TypeOK /\ ShardInv => StopsTogether
  <2> SUFFICES ASSUME TypeOK, ShardInv, NEW s \in panicked
               PROVE  /\ \A n \in 1..(applied[s] - 1) : log[n] # log[applied[s]]
                      /\ \A t \in Server : applied[t] >= applied[s] =>
                             applied[t] = applied[s] /\ t \in panicked
    BY DEF StopsTogether
  <2>1. s \in Server /\ applied[s] \in Nat /\ applied[s] <= Len(log) /\ Len(log) \in Nat
    BY ReplayFacts DEF TypeOK, ServerTypes
  <2>2. PICK a \in Nat : a = applied[s]
    BY <2>1
  <2>3. a > 0 /\ Fatal(a) /\ \A n \in 1..a : Fatal(n) => n = a
    BY <2>1, <2>2 DEF ShardInv, StopsAtFatal
  <2>4. ASSUME NEW n \in 1..(a - 1), log[n] = log[a]
        PROVE  FALSE
    <3>1. n \in DOMAIN log /\ a \in DOMAIN replay /\ n \in DOMAIN replay /\ n + 1 \in DOMAIN replay
          /\ n + 1 <= a /\ n # a /\ n \in 1..a
      BY <2>1, <2>2, <2>3, ReplayFacts
    <3>2. PICK cmd \in CommandType : cmd = log[n]
      BY <3>1, ReplayFacts
    <3>3. PICK r \in ReplayType : r = replay[n] /\ Sound(r.state)
      BY <3>1, ReplayFacts
    <3>4. PICK new \in ReplayType : new = replay[n + 1]
      BY <3>1, ReplayFacts
    <3>5. cmd.clerk \in Clerk /\ cmd.id \in Nat
      BY DEF CommandType
    <3>6. /\ r.last \in [Clerk -> Int] /\ new.last \in [Clerk -> Int]
          /\ replay[a].last[cmd.clerk] \in Int
      BY <3>1, <3>5, ReplayFacts DEF ReplayType, TableType
    <3>7. new = once(r, cmd)
      BY <3>1, <3>2, <3>3, <3>4 DEF ShardInv, ReplayFollowsLog
    <3>8. r.last[cmd.clerk] >= cmd.id \/ ~panics(r.state, cmd.op)
      BY <2>3, <3>1, <3>2, <3>3, <3>5, <3>6 DEF Fatal
    <3>9. new.last[cmd.clerk] >= cmd.id
      <4>1. CASE r.last[cmd.clerk] >= cmd.id
        BY <3>7, <4>1 DEF once
      <4>2. CASE ~(r.last[cmd.clerk] >= cmd.id)
        <5>1. new.last = [r.last EXCEPT ![cmd.clerk] = cmd.id]
          BY <3>7, <3>8, <4>2 DEF once
        <5> QED
          BY <3>5, <3>6, <5>1
      <4> QED
        BY <4>1, <4>2
    <3>10. new.last[cmd.clerk] <= replay[a].last[cmd.clerk]
      BY <3>1, <3>4, <3>5 DEF ShardInv, ReplayFollowsLog
    <3>11. replay[a].last[cmd.clerk] < cmd.id
      BY <2>3, <2>4, <3>2 DEF Fatal
    <3> QED
      BY <3>5, <3>6, <3>9, <3>10, <3>11
  <2>5. ASSUME NEW t \in Server, applied[t] >= a
        PROVE  applied[t] = a /\ t \in panicked
    <3>1. applied[t] \in Nat
      BY DEF TypeOK, ServerTypes
    <3>2. a \in 1..applied[t]
      BY <2>3, <2>5, <3>1
    <3> QED
      BY <2>3, <3>2 DEF ShardInv, StopsAtFatal
  <2> QED
    BY <2>2, <2>4, <2>5
<1> QED
  BY <1>1, ShardInvariant, PTL
=============================================================================
