# Verification of the sharded key/value store

TLA+ models of the Go code under `src/src`, model-checked with TLC on small
instances, and theorems about them that TLAPS proves for every instance.
`PROJECT.json` maps each definition to the lines it models and lists the runs,
mutants, findings, hazards and theorems.

## 1. The system

| component | state it keeps | operations | talks to |
|---|---|---|---|
| Raft peer (`raft/raft.go`) | role, term, vote, vote count, log, commitIndex, nextIndex/matchIndex | handlers RequestVote, AppendEntries, InstallSnapshot; loops startElection, startAppend, startInstallSnapshot; Start and SaveSnapshot for the service | other peers by RPC; the service through `applyCh`; Persister |
| Persister (`raft/persister.go`) | encoded raft state, snapshot | save state, save both atomically, read | Raft peer |
| network (`labrpc/labrpc.go`) | ends, which of them are enabled, servers, connections | Call, processReq: delays, reorders, drops, executes at most once; MakeEnd, Connect, Enable, AddServer, DeleteServer, Cleanup | all RPC users, test harness |
| KV server (`kvraft/server.go`) | kvMap, last command number per clerk, snapshot lock | Get, PutAppend, apply loop, snapshots | Raft peer, clerks |
| KV clerk (`kvraft/client.go`) | next command number | Get, Put, Append: calls all servers at once until one answers | KV servers |
| shard master (`shardmaster/server.go`) | configurations, groups, shards, last command per clerk | Join, Leave, Move, Query, redistributeShard | Raft peer, clerks |
| shard master clerk (`shardmaster/client.go`) | next command number | as above | shard masters |
| test harness (`kvraft/config.go`, `shardmaster/config.go`, `raft/config.go`) | running instances, saved Persisters, names of ends, clerks | StartServer, ShutdownServer, ConnectAll, partition, makeClient, cleanup | network, servers |
| porcupine (`porcupine/checker.go`, `models/kv.go`) | one search per key: linked list, cache, stack of calls; verdicts, time-out | checkOperations, checkParallel, checkSingle | tests |
| labgob, visualization | – | encoding; picture of a history | – |

What is hard here: every handler and every goroutine that waits for a reply runs
under `rf.mu`, but between sending a request and handling its reply anything may
happen: terms change, logs are truncated or compacted, peers crash and restart
from disk, and the network reorders and loses calls. The service saves snapshots
in a goroutine of its own, against a log that may have changed since. Raft sends to
the service on a bounded channel while it holds `rf.mu`. A server that was shut down
cannot be stopped: its goroutines go on while its successor runs. The full list, with
lines, is `hazards` in `PROJECT.json`.

What makes the parts correct:

* elections: a durable vote per peer and term, a leader per term;
* replication: logs agree entry by entry, a leader keeps its log, what a follower
  acknowledges is on its disk, a commit rests on a majority of disks, no two services
  see different commands at an index, and a leader that stays brings everyone up to
  date;
* compaction: log, snapshot and service stay aligned through crashes;
* KV service: every command is applied once, reads are those of a single map, and
  no goroutine waits for ever;
* shard master: a number means one configuration, queries are never older than what
  was acknowledged, and each configuration assigns every shard to a group that
  exists, evenly and moving little;
* network and harness: a call returns; one that returned true is in the state the
  server's next instance starts from; an instance that was shut down reaches nobody;
* porcupine: the verdict and the partial linearizations it reports are those of the
  definition of linearizability, whatever was killed or timed out.

## 2. Modules

* `RaftLog` – the log helpers of `raft.go` as operators on a sequence of items
  with consecutive indexes.
* `Raft` – the peers, disks, calls in flight and the reading side of `applyCh`.
* `RaftInv` – the inductive invariants of `Raft`: `TypeInv`, `ElectionInv`, `LogInv`,
  `MatchInv`.
* `MCRaft` – start states, symmetry, fairness and the liveness property.
* `RaftTypeProof`, `RaftElectionProof`, `RaftLogProof` – theorems, each module on top of
  the one before.
* `KVStore` – what the key/value service promises: one map, commands that take
  effect once, between call and return (abstract specification).
* `KVService` – the servers and clerks of `kvraft`.
* `KVRefinement` – the mapping from `KVService` to `KVStore`, and the properties.
* `KVInv`, `KVProof` – the inductive invariant of `KVService`, the theorems and the proof
  of the refinement.
* `MCKV` – operations, symmetry and the abstract specification as a property.
* `ShardConfig` – configurations and what Join, Leave, Move and Query do to them.
* `ShardMaster` – the servers and clerks of `shardmaster`, and their properties.
* `ShardInv`, `ShardProof` – the inductive invariant of `ShardMaster` and the theorems.
* `MCShard` – the clerks' scripts.
* `ApplyPath` – the two mutexes and the bounded channel between Raft and a service.
* `Network` – the network of `labrpc`: its registry and the life of one RPC.
* `Tester` – the harness that drives `Network` (composed by EXTENDS), with old and new
  instances of servers.
* `TesterInv`, `TesterProof` – the inductive invariant of `Tester` and the theorems.
* `Porcupine` – the checker's search and its collection of verdicts, with the
  definition of linearizability as reference. `MCPorcupine` – the histories.
* `PorcupineInv` – the inductive invariant of `Porcupine`. `PorcupineLemmas` – sorting,
  the linked list, runs of the model and partial linearizations. `PorcupineProof` – the
  theorems.

### Raft and the code

One action is one critical section of `rf.mu`. A handler with early returns is
split into one action per end (`AppendEntriesStale`, `…OutOfRange`,
`…Conflict`, `…Accept`), each of which makes all the assignments, the `persist()`
and the reply of that path. The goroutine that waits for a reply is an action per
branch (`VoteReplyStale`, `VoteReplyNewer`, `VoteReplyCount`, …).

A call is a record in `voteReq`, `appendReq` or `snapReq`, and after its handler
ran, a record in `voteRep`, `appendRep` or `snapRep` that also holds what the
waiting goroutine's closure remembers of the arguments. Both are delivered in any
order, at most once. `Lose…` drops either. After a restart the old instance's
requests still travel (`orphan`) but nobody waits for the replies.

`persisted` and `snapshot` are the Persister. `persist(i)` writes the primed
values, so an action that forgot to call it would leave the disk behind. `Restart`
is a crash followed by Make and, for the service, StartKVServer.

A panic of the code puts the peer into `panicked`: it takes no further step until it
is restarted. A round of `startAppend` that panics for one peer may have sent to some of
the others. A peer whose conflict deletion emptied its log is in `panicked`, too, since
every access to `rf.log[0]` would end it; only an InstallSnapshot, which replaces the log
before it looks at it, brings it back.
`applyCh` is the queue of messages sent and not yet read; `Apply` is a turn of
`checkApplyCommand`; the goroutine it may start is `saving`, and `SaveSnapshot`
its body.

Left out: clock values (a timer may fire at any time, a leader's too, as in the
code), `lastApplied` (never read), logging. `ballots`, `elected` and `delivered`
are history variables for the properties.

### KVService, ShardMaster and the code

Both services stand on what Raft promises them, not on `Raft`: one `log`, to which
`Start` appends a command or loses it, and which every server reads in order
(`applied`). The place in the log is taken when Start is called. That is exact: a
leader that appends an entry holds all entries before it, so in a log that survives
the order of places is the order of the calls of Start. Which commands are lost is
left open. The findings `stale_append` and `figure8` are cases in which the Raft of
this repository breaks the promise; what is shown here is that the services are
right when it is kept.

A clerk starts one goroutine per server. The goroutine and the handler it waits for
are one record of `calls`: `sent` (on its way, or about to be sent again),
`polling` (the handler has released the mutex and polls), `replied`. When the
operation returns, the calls still `sent` remain and may reach their server during
the next operation; those of handlers that poll are dropped, because a poll changes
nothing and its reply would find `count = 1`. One action is one critical section of
`kv.mu` or `sm.mu`.

A value is the sequence of strings appended to it, and `<<>>` stands for both the
empty string and a missing key: Get returns "" for either. -1 in
`lastCommittedCommandCount` is a clerk the map does not hold.

`SaveSnapshot` and `InstallSnapshot` of `KVService` are the service's view of
compaction. A snapshot that was saved once may be installed on any server at any
later time (`taken`), also on one that is ahead: the late call of `Raft`. Raft's
message and the log that follows it are one step, since the server sees both
through the same channel.

In `ShardConfig` the order in which Go iterates over `groupMap` is a choice of every
application of a command; only `sort.Ints` makes servers agree. A failed assertion
puts a server into `panicked`. `Script` gives each clerk the operations it may ask
for, one set per call, and so bounds their number.

`replay` (what executing the log up to each place makes, kept beside the log in both
modules), `since`, `published` and `acknowledged` are history variables.

### ApplyPath and the code

`Raft` and `KVService` take a handler, a delivery and a turn of the apply loop as one
step each. `ApplyPath` takes them apart where they can block: a Raft goroutine takes
`rf.mu`, sends its batch message by message (`SendMsg` waits for room) and unlocks; the
apply loop receives, then waits for `kv.mu`; a handler holds `kv.mu` while it waits for
`rf.mu` in Start. What a command does is left out. `shardmaster/server.go` has the same
structure with a capacity of 10.

### Network, Tester and the code

An RPC is a record: the phase of the goroutine in processReq, what readEndnameInfo
read, and how far the handler's goroutine is. The two are separate because
processReq gives up on a dead server while the handler runs on. One action is one
critical section of `rn.mu` or one communication on a channel; the loops of the
harness over `Enable` and `MakeEnd` are one step. `ShutdownServer` is three steps
(`Isolate`, `Delete`, `Supersede`) and `StartServer` two (`StartServer`, `Register`),
between which RPCs proceed. An end is named by its owner, the start that made it and
its target, which stands for the random names of the harness. A handler is reduced to
the fact that it saved the outcome of its RPC in its instance's Persister: `attached`
is the instance whose Persister `cfg.saved` points to, `saved` what is in it. `late` is a
history variable. As in the tests, servers are connected and partitioned only while all
of them are up.

### Porcupine and the code

A step of a search is one iteration of the loop of `checkSingle`, on the real linked
list (`next`, `prev`), whose `lift` and `unlift` are those of the code. The bit set
and the hash buckets are the sets they stand for. checkParallel takes verdicts, a
time-out, drains the channel and concludes; the flag `kill` is read at the head of each
iteration. `sort.Sort` and `sort.Strings` are `InOrder`: the elements of a set by rank,
all times (and keys) being different. lift and unlift write `entry.next.prev` without a
test, as a call is never the last of its list; `SetPrev` has the test for both writes,
and the proof has the reason (`TriedNext`: the call's return is still behind it).

The reference does not mention the search: `Continues(h, done, state, seq)` says that
seq lists operations that are not in done, each allowed by the state that `Run` gives
there and none before one that returned before it was called; a partial linearization
continues from nothing, and a history is linearizable if a complete one exists.

## 3. Runs

Bounds are CONSTANTS of `Raft`: `MaxTerm`, `MaxIndex`, `MaxInFlight`
(outstanding AppendEntries per pair), `MaxQueue`, and the sets `MayTimeout` and
`Crashable`. Deadlock is not checked because the bounds end every behaviour.
`MCRaft` starts some runs in states that are reachable but deep, and says how
each is reached.
`usedSlots` and `freeSlots` of `Raft` number the outstanding calls of a pair for
`MaxInFlight`; the code has no such limit.

| run | start | shows |
|---|---|---|
| election | cold | OneVotePerTerm, ElectionSafety, PersistedIsCurrent, ElectionInv with crashes, losses and two competing timers |
| replication | a leader that is deposed, or two diverged logs; two calls of a pair in flight, calls are lost, the leader crashes | TypeOK, LogInv, LogShape, LogMatching, MatchInLog, AcknowledgedIsHeld, LeaderAppendOnly |
| compaction | a compacted leader, re-elected in term 2, a peer behind; or a late snapshot for a peer that holds more and is saving | LogShape, SnapshotHeadsLog, CompactedWasCommitted |
| agreement | diverged logs, or a peer left behind with a snapshot; no timer deposes the last leader | Agreement (liveness) |
| stale_append | leader of term 1, two calls in flight | violated: StateMachineSafety |
| figure8 | diverged logs, leader of term 3 | violated: NewestLeaderHasCommitted |
| catch_up | a peer left behind with a snapshot, a leader that has not compacted | violated: AssertionsHold |
| kv | two clerks or one with two operations; servers crash, calls are lost, commands are logged twice, snapshots are saved and installed late | TypeOK, KVInv, ReplicasAgree, Linearizable |
| shard_configs | two clerks with three commands, a Move and a Leave of its group among them, a server restarts, 3 shards, 3 groups | TypeOK, ShardInv, ConfigsUnique, QueryFresh, SharesCover, StopsTogether |
| labrpc | two servers, a clerk, an RPC, two starts of each server | TesterInv, PositiveReplyDurable, OldInstanceSilent, CallReturns (liveness) |
| porcupine | all histories of three operations | SearchConsistent, VerdictRight, PartialsLongest, CheckerInv, CheckReturns (liveness) |
| apply_deadlock | a restarted server, applyCh of 2, up to 4 entries | violated: StartReturns |

The bounds of the services: two servers are enough for one that is behind, restarts
or answers for the other. Two clerks, or one with two operations, give a command that
is logged twice around another one. With two values to append, a Get tells the order
of two Appends and a duplicate apart; Put overwrites and would hide them, so the runs
leave it out. With
3 shards and up to 3 groups `shard_configs` meets a division without a remainder and
one that leaves a shard over.

In `kv` the constraint `OneClerkOrNoSnapshot` keeps two families of behaviours: two
clerks with an operation each and no snapshot, or one clerk with two operations and
snapshots. Two clerks and snapshots together are beyond five minutes.

`labrpc` follows one RPC. RPCs do not read each other's state: each depends on the
network and on the harness only, so a violation by one of several is a violation by
that one alone. Two starts give an old and a new instance of each server. `porcupine`
has three operations, enough for one to overlap two that are ordered, on one key or
with the second on another key, so that a search is killed while another runs.

`replication` has two families of behaviours. A leader of term 1 is deposed by another in
term 2, which its late requests then reach, with one command and two AppendEntries calls
under way; or a leader of term 3 repairs logs that diverged in terms 1 and 2, with three
calls (`FewCalls`). Two calls may be between the same peers, so requests overtake each
other and replies arrive in another order. `PromptServices` lets a service read its channel
at once, which loses no behaviour of the peers where services do not save.

`compaction` has no election: the start states hold what elections before it left, a
snapshot that a later leader passes on, and a snapshot that arrives late. `agreement` has
`Snapshots = FALSE`: nobody compacts further than the start state says, and the entries a
peer needs stay in the leader's log (`SendsEntries`).

Fairness (`agreement`): weak fairness of every peer's append loop, of every service's
loop, and of the delivery of each pair's requests and replies. The loops run for ever and
nothing they wait for is held for ever; Call is "guaranteed to return" (`raft.go:699`),
and this run has no losses. No timer has to fire. None fires in the term `MaxTerm`: there
the leader sends AppendEntries to every peer every 100 ms, and each refreshes the peer's
timestamp (`raft.go:396`), also when it is rejected. A peer that is sent snapshots instead
gets no such heartbeat (`raft.go:567`), so it is not among those `Agreement` speaks of
until a later leader sends it entries; `LeftBehind` starts there.
`labrpc`: weak fairness of the steps of processReq and of handlers of registered
instances; the handler of a server that was shut down may hang, as the comment on Call
allows, and the call returns all the same. `porcupine`: the goroutines run on; the
time-out need not fire. `apply_deadlock`: goroutines run on, and a goroutine that waits
for a mutex or a channel gets it when it is free again and again (strong fairness, Go's
mutexes do not starve); RPCs need not arrive. The counterexample is a deadlock, which no
fairness resolves.

The four violated runs are disagreements between the code and what its tests,
comments and assertions say; `findings` quotes them. Further ones, of definitions that
are in the modules, are seen by changing the settings of a run:

* `RaftStaleAppend.cfg` with `Server = {s1, s2, s3, s4}`, `MaxInFlight = 1` and
  `PROPERTIES CommitNeedsMajority` is violated: `match[len(match)/2]` (`raft.go:199`) of an
  even number is reached by half only. As it is, with three peers, it violates the same
  property because an overtaken call removes what the leader has counted (`raft.go:415`).
  `CommitNeedsMajority` speaks of entries of the leader's own term; entries of earlier
  terms are what `figure8` is about;
* `RaftStaleAppend.cfg` with `Snapshots = TRUE` and `INVARIANTS AssertionsHold` is
  violated: a follower that has compacted rejects an AppendEntries overtaken by another,
  which moves nextIndex to the leader's dummy index (`raft.go:611`), and a leader that
  never compacted panics with "No snapshot is read" (`raft.go:283`);
* `RaftCatchUp.cfg` with `SPECIFICATION SnapshotLateSpec` and `INVARIANTS ServiceInOrder`
  is violated: a late InstallSnapshot takes a follower back to index 1 (`raft.go:449`), it
  receives entry 2 again, and the save of index 2 that its service had begun compacts that
  entry away (`raft.go:812`) before it is committed again. The next commit goes on at 3
  and the service never executes 2;
* a rejection is applied whatever term its request was of (`raft.go:609`). A peer that
  leads with a long log, is deposed, loses the end of its log and leads again later may
  receive the rejection of a request of its earlier term from a follower that already is
  in the new term. nextIndex then points past its log, and the next round panics with
  "Index out of bound" (`raft.go:168`). It takes four terms and three entries of the first,
  more than the runs have;
* `ApplyDeadlock.cfg` with `Capacity = 3` has no deadlock: a batch must exceed the
  capacity by two, one message being in the apply loop's hands. With `Capacity = 3` and
  `MayKill = TRUE` StartReturns fails again: the killed loop stops reading, and Start
  hangs on a killed instance, which should "return gracefully" (`raft.go:756`);
* `ShardConfigs.cfg` with `NShards = 10`, `Clerk = {c1}`, `Gid = {1, 2, 3, 4}`,
  `Script <- FourGroups` and `MaxLog = 1` violates the invariant ShardsAssigned:
  redistributeShard sets only the last shard left over (`shardmaster/server.go:153`) and
  shard 8 stays with group 0, a "shard %v -> invalid group %v" of
  `shardmaster/test_test.go:30`;
* with `NShards = 10`, `Clerk = {c1}`, `Gid = {1, 2, 3, 4, 5, 6}`, `Script <- SixthGroup`
  and `MaxLog = 2` it violates SharesBalanced: shards left over keep their group
  (`shardmaster/server.go:157`), while the tests ask for a maximum close to the minimum
  (`shardmaster/test_test.go:51`);
* with `NShards = 10`, `Clerk = {c1}`, `Script <- ThirdGroup` and `MaxLog = 2` it violates
  JoinMovesLittle, against "non-minimal transfer after Join()s"
  (`shardmaster/test_test.go:225`);
* `ShardConfigs.cfg` with `INVARIANTS AssertionsHold` (of `ShardMaster`) is violated: a
  Move logged after the Leave of its group makes every server that applies it panic
  (`shardmaster/server.go:271`), again after every restart. So does a Move of a shard that
  does not exist (`server.go:273`). What does hold is `StopsTogether`.

## 4. Theorems

Proved for every set of peers, servers, clerks, commands or groups, every bound and
every choice of faults, from the ASSUMEs of `Raft`, `Network`, `KVService`,
`KVRefinement`, `ShardConfig`, `ShardMaster` and `Porcupine` alone: the finite sets are
finite, the bounds are numbers, the values that stand for "nothing" are no commands,
snapshots, entries or answers, and a history that is checked has operations, which are
called before they return, all at different times. The runs evaluate these ASSUMEs on
their instances. The inductive invariants `ElectionInv`, `LogInv`, `TesterInv`, `KVInv`,
`ShardInv` and `CheckerInv` are also invariants of runs.

### Raft

* `TypeCorrect`: `Spec => []TypeOK`. The types alone are not inductive: an index is
  found by its offset, so `TypeInv` adds that logs and the entries of requests have
  no holes (`LogsConsecutive`, `EntriesConsecutive`), and that the disk equals the
  memory, since a restart brings the disk's log back.
* `PersistedCorrect`: `Spec => []PersistedIsCurrent`, from the same invariant.
* `ElectionInvariant`: `Spec => []ElectionInv`. A leader's majority is counted, not
  remembered, so the invariant ties `voteCount` to the set of voters whose reply is
  no longer travelling (`CountsAreVotes`). That needs replies to be truthful and
  unique (`RepliesTruthful`), requests to be answered once (`RequestsUnanswered`)
  and a vote to stay the voter's `voteFor` for the rest of its term, through a
  restart too (`VotesRemembered`, with `PersistedIsCurrent`).
* `VotesOnce` and `OneLeaderPerTerm`: `OneVotePerTerm` is part of the invariant;
  two majorities of one term share a voter, who voted once.

* `LogInvariant`: `Spec => []LogInv`. Log Matching speaks of what peers hold, but
  entries also travel in requests, and a leader of an old term goes on sending. So the
  invariant is about *links*: an entry with the term of the one before it, wherever the
  two are side by side, in a log or in an AppendEntries (the disk equals the memory, by
  `PersistedIsCurrent`). Index and term of an entry determine its link (`LinksAgree`); a
  link of a term comes from a leader of that term, whose log still reaches it while it
  leads (`LinksFromLeaders`), so the entry Start appends is new; requests are sent by leaders
  elected in their term (`SentByLeaders`); a leader that crashed in its term cannot win it
  again (`DeposedForGood`); and no term in a log or a request passes that of its holder
  (`TermsBounded`). It rests on `OneLeaderPerTerm`. A peer that installs a snapshot or
  compacts keeps its remaining links, and its log begins where its snapshot ends, in
  memory too (`HeadsAtSnapshot`).
* `LogMatchingAlways`, `LogShapeAlways`, `SnapshotFits` follow: `LogMatching`, `LogShape`
  and `SnapshotHeadsLog` of every reachable state. `LeaderKeepsLog` is the
  action property `LeaderAppendOnly`, from the same invariant: only a
  peer that follows accepts entries, and an AppendEntries of a leader's own term cannot
  reach it.
* `MatchInLogAlways`: `Spec => [](~Snapshots => MatchInLog)`. A leader assigns to
  matchIndex what a reply's request carried, in any order of replies, and the code does
  not ask of which term the request was (`raft.go:595`). The invariant `MatchInv` therefore
  follows the calls: while their sender leads their term its log reaches the last entry
  they carry, in the request and in the reply (`CallsInLog`), since a leader's log only
  grows; and a peer that accepts a request replies in exactly its term, so an accepted reply
  that passes the test of terms is of the current one. A rejection may be of any term, and
  for nextIndex the claim fails (section 3). Without compaction there is no snapshot
  (`NoSnapshots`), whose reply would set nextIndex.

### Network and harness

* `TesterInvariant`: `Spec => []TesterInv` of `Tester`, for any servers, clerks,
  restarts and RPCs. `RepliesDurable` and `OldInstancesSilent` follow. That a positive
  reply is durable is not inductive: processReq compares the instance it remembers with
  the one registered now, so the invariant says that a registered instance is the last
  one started and the one that saves into `cfg.saved` (`ServersInv`), that no RPC holds
  the instance that is being started (`HoldsInv`: a remembered instance is older), and
  that a finished handler of a registered instance has saved there (`SavedInv`). For old
  instances, only ends of running and connected instances are enabled (`EndsInv`), and
  an RPC of an isolated one stays so (`LateInv`).

### Key/value service

* `KVInvariant`: `Spec => [](TypeOK /\ KVInv)`. That servers agree is not inductive: a
  server may be put back to any snapshot that was ever saved, and a copy of a command
  may be logged after its operation returned. `KVInv` says that `replay` executes each
  command of the log once (`ReplayFollowsLog`), that every snapshot, being saved, on
  disk or travelling, is the state at its place in the log (`SnapshotsTrue`), that a
  command waited for was not executed before its operation began (`BegunBefore`), that
  calls left over from an operation carry a command that was executed
  (`LeftOversHarmless`), and that a reply reports an executed command and a value its key
  had since the operation began (`RepliesTrue`). `KVTypeCorrect` and
  `ReplicasAgreeAlways` follow.
* `ImplementsStore`: `Spec => Linearizable`, the refinement of `KVStore`. The store's
  history is the map of each state of `replay`; an operation is pending while its clerk
  waits and done once its command is in the table of the newest state. Begin is Invoke,
  Done is Return, an append of Submit is TakeEffect, or Pass when it is a copy; every
  other step changes nothing in the store.

### Shard masters

* `ShardInvariant`: `Spec => [](TypeOK /\ ShardInv)`. The servers apply a command to maps
  that Go iterates over in an order of its own each time. The core lemmas are therefore
  about `ShardConfig`: finitely many numbers can be sorted (`SortedExists`, by ranks),
  sorting forgets the order of the iteration (`SortFacts`), so a command that violates no
  assertion makes exactly one state (`ExecuteFacts`). From that, every server holds what
  its prefix of the log makes (`ReplicasAgree`) and configurations are only ever added
  (`ReplayFollowsLog`); what was or is about to be answered is one of them
  (`AnswersKnown`), and a command is executed on configurations as new as any that was
  acknowledged when its operation began (`BegunAfter`). A server that panicked is covered:
  it stops where it is.
* `StopsTogetherAlways`: a server has stopped exactly when the last command it read is new
  where it stands and violates an assertion (`Fatal`, `StopsAtFatal`), which depends on the
  log alone: no server reads on past such a command, and a second copy is never new.
* `ShardTypeCorrect`, `ConfigsUniqueAlways`, `QueryFreshAlways`, `SharesCoverAlways`
  follow. The last one is arithmetic: with `NShards % n <= 1` only the last shard is left
  over (`LeftOver`, `ShareInRange`), and redistributeShard gives that one away.

### Linearizability checker

* `CheckerInvariant`: `Spec => []CheckerInv`, for histories of any length over any keys,
  any interleaving of the searches, with and without kills, a time-out and partial
  linearizations. A search is a stack of levels, one for each linearized call. The
  invariant says of every level, and not only of the top:
  - the stack is a partial linearization with the states of its run (`StackReplayed`);
  - a lifted call and its return still point at the neighbours they had in the list of
    their level, so unlift can put them back (`LinksRestorable`). One half of lift or
    unlift takes out or puts back one entry (`TakeOut`, `PutBack`) and touches no entry
    outside the list, which is where the other lifted ones are;
  - the search is not past the first return that is left, and each call it has passed is
    forbidden by the model or led to a configuration in the cache (`Tried`);
  - a configuration in the cache is on the stack or `Explored`: no continuation of it is
    complete, and every one has been counted in `longest` (`CacheExplored`).
  That the cache may prune is the lemma `LevelExplored`: at a return, whatever continues
  the configuration begins with an operation called before that return, so with one that
  was passed; the configuration after it is in the cache and has more operations than any
  on the stack, so it is explored. At the bottom of the stack this says that there is no
  linearization (`RootExplored`).
  For checkParallel the invariant counts the verdicts on their way (`VerdictsCounted`) and
  says that in the loop none was cut short (`VerdictsRight`).
* `SearchConsistentAlways`, `VerdictRightAlways`, `PartialsLongestAlways` follow: the
  checker is sound, complete unless it times out, and its report is the longest.

What a run of the model computes is defined by recursion on the sequence. The library's
induction cannot be instantiated by the installed provers, so `Induction` states it for a
set of numbers, from the well-foundedness of `<`; `RunDefined` uses it to show that the
recursive function exists.

### Model-checked only

* Liveness (`Agreement`, `CallReturns`, `CheckReturns`): outside the prover.
* `AcknowledgedIsHeld`: it needs, beyond `LogInv`, that the logs of a leader and of a peer
  that accepted its request agree on all entries before, which is Log Matching carried
  down the log by induction. `CompactedWasCommitted`: what a service saved was delivered.
* `StateMachineSafety`, `NewestLeaderHasCommitted`, `CommitNeedsMajority`,
  `ServiceInOrder`, `StartReturns`, `ShardsAssigned`, `SharesBalanced`, `JoinMovesLittle` and
  both `AssertionsHold` do not hold of this code.

## 5. Not modelled

* labgob: encoding through reflection; the values that travel are records of the models.
* porcupine's visualization renders a history as HTML; its checkEvents is not called.
  Equal times, for which `sort.Sort` may put a return before its call, are left out.
* The statistics of network and harness; the checks the harness of Raft makes of
  committed values, which are properties of `Raft` here (StateMachineSafety); deleteClient.
* Snapshots of the shard master, which `MaxLogSize = -1` switches off.
* That a clerk's operation ends: the deadlock of `apply_deadlock` and the panic of
  `catch_up` break it, so it would hold only of a Raft without them.

## 6. Plan

The inductive invariants of all modules, and what follows from them, are proved. What
could be added: `AcknowledgedIsHeld` from `LogInv`, by the induction for sets of numbers that
`PorcupineLemmas` has; a variant of `Raft` in which the calls of a pair do not overtake each other, for which
`CommitNeedsMajority` and State Machine Safety could be proved from `LogInv`.

The runs are kept few: a new question replaces or joins a run where it can.
