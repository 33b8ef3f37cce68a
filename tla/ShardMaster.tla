---------------------------- MODULE ShardMaster -----------------------------
(***************************************************************************)
(* The shard masters of src/src/shardmaster/server.go and their clerks     *)
(* (client.go), over what Raft promises its service: a command that Start  *)
(* accepts takes the next place in one log or is lost, and every server is *)
(* sent the log in order.  MaxLogSize = -1: there are no snapshots, and a  *)
(* server that restarts reads the log from its beginning.                  *)
(*                                                                         *)
(* The handlers Join, Leave, Move and Query are the same but for what they *)
(* reply.  Calls are those of KVService: one goroutine for every server,   *)
(* together with the handler it waits for, is a record.                    *)
(***************************************************************************)
EXTENDS ShardConfig

CONSTANTS
    Server,
    Clerk,
    Script,     \* Script[c][n]: the operations clerk c may ask for as its nth
    Nil,
    MaxLog,     \* bound: the log's length
    Crashable   \* the servers that may crash and restart

OpType ==
    [type : {"Join", "Leave"}, gids : SUBSET Gid]
    \cup [type : {"Move"}, shard : Int, gid : Gid]
    \cup [type : {"Query"}, num : Int]

CommandType == [clerk : Clerk, id : Nat, op : OpType]

ConfigType == [num : Nat, shards : [Shard -> Gid \cup {0}], groups : SUBSET Gid]

AnswerType == [asked : Int, config : ConfigType]

ASSUME MasterConstants == MaxLog \in Nat /\ Crashable \subseteq Server
ASSUME ScriptAssumption ==
    /\ DOMAIN Script = Clerk
    /\ \A c \in Clerk : Script[c] \in Seq(SUBSET OpType)
ASSUME NilAssumption == Nil \notin CommandType /\ Nil \notin AnswerType

VARIABLES
    nextCommandN, \* Clerk.nextCommandN
    current,      \* the command a clerk waits for, or Nil
    result,       \* what its last operation returned: for a Query [asked, config]
    calls,        \* the goroutines of concurrentCall, with their calls
    log,          \* the commands Raft agreed on
    applied,      \* how many of them a server has read from applyCh
    state,        \* its groupMap, shards and configs
    lastCommittedCommandCount,
    panicked,     \* the servers that have panicked
    published,    \* history: every configuration a Query returned
    acknowledged, \* history: the newest configuration of a server that replied
    since,        \* history: acknowledged, when a clerk's operation began
    replay        \* history: what executing the log up to each place makes

clerkVars  == <<nextCommandN, current, result, since>>
logVars    == <<log, replay>>
serverVars == <<applied, state, lastCommittedCommandCount, panicked>>
historyVars == <<published, acknowledged>>
vars == <<clerkVars, calls, logVars, serverVars, historyVars>>

noCommand == [c \in Clerk |-> -1]

Init ==
    /\ nextCommandN = [c \in Clerk |-> 0]
    /\ current = [c \in Clerk |-> Nil]
    /\ result = [c \in Clerk |-> Nil]
    /\ calls = {}
    /\ log = <<>>
    /\ applied = [s \in Server |-> 0]
    /\ state = [s \in Server |-> freshState]
    /\ lastCommittedCommandCount = [s \in Server |-> noCommand]
    /\ panicked = {}
    /\ published = {}
    /\ acknowledged = 0
    /\ since = [c \in Clerk |-> 0]
    /\ replay = <<[state |-> freshState, last |-> noCommand]>>

-----------------------------------------------------------------------------
(* Clerks.                                                                 *)

Command(c, op) == [clerk |-> c, id |-> nextCommandN[c], op |-> op]

\* seen: the number of the server's last configuration when it replied.
Call(cmd, s, at, value, seen) ==
    [cmd |-> cmd, srv |-> s, at |-> at, value |-> value, seen |-> seen]

\* Join, Leave, Move or Query: concurrentCall, up to its Wait.
Begin(c) ==
    /\ current[c] = Nil
    /\ nextCommandN[c] < Len(Script[c])
    /\ \E op \in Script[c][nextCommandN[c] + 1] :
           /\ current' = [current EXCEPT ![c] = Command(c, op)]
           /\ calls' = calls \cup {Call(Command(c, op), s, "sent", Nil, 0) : s \in Server}
    /\ nextCommandN' = [nextCommandN EXCEPT ![c] = @ + 1]
    /\ result' = [result EXCEPT ![c] = Nil]
    /\ since' = [since EXCEPT ![c] = acknowledged]
    /\ UNCHANGED <<logVars, serverVars, historyVars>>

open(p) == current[p.cmd.clerk] = p.cmd

\* The goroutine and its call go on; once another one has won, nothing that
\* happens to the call matters any more and it is forgotten.
goOn(p, at, value, seen) ==
    calls' = (calls \ {p}) \cup
                 (IF open(p) THEN {Call(p.cmd, p.srv, at, value, seen)} ELSE {})

\* The first reply OK ends the operation.
Done(p) ==
    /\ p.at = "replied"
    /\ current' = [current EXCEPT ![p.cmd.clerk] = Nil]
    /\ result' = [result EXCEPT ![p.cmd.clerk] = p.value]
    /\ calls' = {q \in calls : q.cmd = p.cmd => q.at = "sent"}
    /\ published' = published \cup (IF p.value = Nil THEN {} ELSE {p.value.config})
    /\ acknowledged' = IF p.seen > acknowledged THEN p.seen ELSE acknowledged
    /\ UNCHANGED <<nextCommandN, since, logVars, serverVars>>

-----------------------------------------------------------------------------
(* Handlers.                                                               *)

\* Takes the command with the last number for a new one.
isCommandCommittedBefore(s, cmd) == lastCommittedCommandCount[s][cmd.clerk] > cmd.id

isCommandCommitted(s, cmd) == lastCommittedCommandCount[s][cmd.clerk] >= cmd.id

\* What reading cmd should make of the state and the table of a server.  A
\* command that ends the server leaves them as they are.
once(r, cmd) ==
    IF r.last[cmd.clerk] >= cmd.id \/ panics(r.state, cmd.op) THEN r
    ELSE [state |-> CHOOSE st \in execute(r.state, cmd.op) : TRUE,
          last |-> [r.last EXCEPT ![cmd.clerk] = cmd.id]]

\* Raft takes the command; a leader that is deposed later may lose it.
Start(cmd) ==
    \/ /\ Len(log) < MaxLog
       /\ log' = Append(log, cmd)
       /\ replay' = Append(replay, once(replay[Len(replay)], cmd))
    \/ UNCHANGED logVars

\* The first half of a handler: what was not applied here is given to Raft.
Submit(p) ==
    /\ p.at = "sent"
    /\ p.srv \notin panicked
    /\ IF isCommandCommitted(p.srv, p.cmd) THEN UNCHANGED logVars ELSE Start(p.cmd)
    /\ goOn(p, "polling", Nil, 0)
    /\ UNCHANGED <<clerkVars, serverVars, historyVars>>

\* Start says this server is not the leader.
WrongLeader(p) ==
    /\ p.at = "sent"
    /\ p.srv \notin panicked
    /\ ~isCommandCommitted(p.srv, p.cmd)
    /\ goOn(p, "sent", Nil, 0)
    /\ UNCHANGED <<clerkVars, logVars, serverVars, historyVars>>

\* A Query replies the configuration as it is when the handler looks.
replyValue(p) ==
    IF p.cmd.op.type = "Query"
    THEN [asked |-> p.cmd.op.num, config |-> handleQuery(state[p.srv], p.cmd.op.num)]
    ELSE Nil

\* Replies as soon as Raft has the command.
PollStarted(p) ==
    /\ p.at = "polling"
    /\ p.srv \notin panicked
    /\ goOn(p, "replied", replyValue(p), getLastConfigNumber(state[p.srv]))
    /\ UNCHANGED <<clerkVars, logVars, serverVars, historyVars>>

\* A poll that finds the command applied.
Poll(p) ==
    /\ p.at = "polling"
    /\ p.srv \notin panicked
    /\ isCommandCommitted(p.srv, p.cmd)
    /\ goOn(p, "replied", replyValue(p), getLastConfigNumber(state[p.srv]))
    /\ UNCHANGED <<clerkVars, logVars, serverVars, historyVars>>

\* CommandTimeOut has passed, or the server is gone: the clerk calls again.
TimeOut(p) ==
    /\ p.at = "polling"
    /\ goOn(p, "sent", Nil, 0)
    /\ UNCHANGED <<clerkVars, logVars, serverVars, historyVars>>

-----------------------------------------------------------------------------
(* The apply loop.                                                         *)

\* A command whose number was reached before is skipped; one that violates an
\* assertion ends the server.
checkApplyCommand(s) ==
    LET cmd == log[applied[s] + 1]
    IN  /\ s \notin panicked
        /\ applied[s] < Len(log)
        /\ applied' = [applied EXCEPT ![s] = @ + 1]
        /\ IF isCommandCommitted(s, cmd)
           THEN UNCHANGED <<state, lastCommittedCommandCount, panicked>>
           ELSE IF panics(state[s], cmd.op)
           THEN /\ panicked' = panicked \cup {s}
                /\ UNCHANGED <<state, lastCommittedCommandCount>>
           ELSE /\ \E st \in execute(state[s], cmd.op) : state' = [state EXCEPT ![s] = st]
                /\ lastCommittedCommandCount' =
                       [lastCommittedCommandCount EXCEPT ![s][cmd.clerk] = cmd.id]
                /\ UNCHANGED panicked
        /\ UNCHANGED <<clerkVars, calls, logVars, historyVars>>

\* The server dies and StartServer runs.  Nothing but Raft's log survives.
Restart(s) ==
    /\ s \in Crashable
    /\ applied' = [applied EXCEPT ![s] = 0]
    /\ state' = [state EXCEPT ![s] = freshState]
    /\ lastCommittedCommandCount' = [lastCommittedCommandCount EXCEPT ![s] = noCommand]
    /\ panicked' = panicked \ {s}
    /\ LET cut == {p \in calls : p.srv = s /\ p.at = "polling"}
       IN  calls' = (calls \ cut) \cup
               {Call(p.cmd, s, "sent", Nil, 0) : p \in {q \in cut : open(q)}}
    /\ UNCHANGED <<clerkVars, logVars, historyVars>>

-----------------------------------------------------------------------------
ClerkStep == (\E c \in Clerk : Begin(c)) \/ (\E p \in calls : Done(p))

HandlerStep == \E p \in calls : Submit(p) \/ WrongLeader(p) \/ Poll(p) \/ TimeOut(p)

ServerStep == \E s \in Server : checkApplyCommand(s) \/ Restart(s)

Next == ClerkStep \/ HandlerStep \/ ServerStep

Spec == Init /\ [][Next]_vars

-----------------------------------------------------------------------------
(* Properties.                                                             *)

\* The configurations a server holds.
ConfigsOf(s) == {state[s].configs[n] : n \in DOMAIN state[s].configs}

StateType ==
    [groupMap : SUBSET Gid, shards : [Shard -> Gid \cup {0}], configs : Seq(ConfigType)]

TableType == [Clerk -> Int]

CallType == [cmd : CommandType, srv : Server, at : {"sent", "polling", "replied"},
             value : AnswerType \cup {Nil}, seen : Nat]

ClerkTypes ==
    /\ nextCommandN \in [Clerk -> Nat]
    /\ \A c \in Clerk : nextCommandN[c] <= Len(Script[c])
    /\ current \in [Clerk -> CommandType \cup {Nil}]
    /\ result \in [Clerk -> AnswerType \cup {Nil}]
    /\ calls \subseteq CallType

ServerTypes ==
    /\ log \in Seq(CommandType)
    /\ applied \in [Server -> Nat]
    /\ \A s \in Server : applied[s] <= Len(log)
    /\ state \in [Server -> StateType]
    /\ lastCommittedCommandCount \in [Server -> TableType]
    /\ panicked \subseteq Server

HistoryTypes ==
    /\ published \subseteq ConfigType
    /\ acknowledged \in Nat
    /\ since \in [Clerk -> Nat]
    /\ replay \in Seq([state : StateType, last : TableType])

\* configs is "indexed by config num", and ends with what groupMap and shards
\* hold.
Indexed(st) ==
    /\ st.configs # <<>>
    /\ \A n \in DOMAIN st.configs : st.configs[n].num = n - 1
    /\ st.configs[Len(st.configs)].shards = st.shards
    /\ st.configs[Len(st.configs)].groups = st.groupMap

\* Every variable has the type of its Go field, and a configuration is found
\* by its number.
TypeOK ==
    /\ ClerkTypes
    /\ ServerTypes
    /\ HistoryTypes
    /\ \A s \in Server : Indexed(state[s])

\* A configuration number means one configuration: on every server, before and
\* after restarts, and in everything a clerk was ever told.
ConfigsUnique ==
    \A a, b \in published \cup UNION {ConfigsOf(s) : s \in Server} : a.num = b.num => a = b

\* Whether an answer is as new as configuration num: Query(-1) has returned one
\* as new, Query(n) exactly the one asked for if it is not newer.
freshAs(answer, num) ==
    IF answer.asked < 0 THEN answer.config.num >= num
    ELSE answer.asked <= num => answer.config.num = answer.asked

\* A Query that begins after another operation returned sees at least the
\* configurations that one had.
QueryFresh == \A c \in Clerk : result[c] # Nil => freshAs(result[c], since[c])

\* If the shards divide evenly, or with one left over, all of them are assigned
\* to groups that have joined.
covers(config) ==
    (config.groups # {} /\ NShards % Cardinality(config.groups) <= 1)
        => \A i \in Shard : config.shards[i] \in config.groups

\* Every configuration that can be shared out (nearly) evenly gives every shard a
\* group that has joined, whatever left or was moved before.
SharesCover == \A s \in Server : \A config \in ConfigsOf(s) : covers(config)

\* A server stops (handleJoin, handleMove) only at the first copy of a command in
\* the log, never because a clerk's retry was agreed on twice; and no server, at
\* any time and after any restart, gets past the place where another one stopped.
StopsTogether ==
    \A s \in panicked :
        /\ \A n \in 1..(applied[s] - 1) : log[n] # log[applied[s]]
        /\ \A t \in Server : applied[t] >= applied[s] => applied[t] = applied[s] /\ t \in panicked

\* No server stops at an assertion of handleJoin or handleMove.
AssertionsHold == panicked = {}

\* Every shard belongs to a group that has joined, once there is one.
ShardsAssigned ==
    \A s \in Server : \A config \in ConfigsOf(s) :
        config.groups # {} => \A i \in Shard : config.shards[i] \in config.groups

shareOf(config, g) == Cardinality({i \in Shard : config.shards[i] = g})

\* Without Moves no group has two shards more than another.
SharesBalanced ==
    \A s \in Server : \A config \in ConfigsOf(s) :
        \A g, h \in config.groups : shareOf(config, g) <= shareOf(config, h) + 1

\* After a Join a group that was there before has no shard it did not have.
JoinMovesLittle ==
    \A s \in Server : \A n \in 2..Len(state[s].configs) :
        LET old == state[s].configs[n - 1]
            new == state[s].configs[n]
        IN  old.groups \subseteq new.groups
                => \A i \in Shard : new.shards[i] \in old.groups => old.shards[i] = new.shards[i]
=============================================================================
