----------------------------- MODULE KVService ------------------------------
(***************************************************************************)
(* The key/value servers of src/src/kvraft/server.go and the clerks of     *)
(* client.go, over what Raft promises its service: a command that Start    *)
(* accepts takes the next place in one log or is lost, and every server    *)
(* is sent the log in order, or a snapshot instead of a prefix.            *)
(*                                                                         *)
(* A clerk's operation calls all servers at once, each from a goroutine    *)
(* that repeats its call until one of them returned OK.  A goroutine and   *)
(* the handler it waits for are one record of calls; a call left over when *)
(* the operation returns can still reach its server.                       *)
(***************************************************************************)
EXTENDS Integers, Sequences, FiniteSets

CONSTANTS
    Server,
    Clerk,
    Key,
    Op,          \* the operations clerks ask for: records [type, key, value]
    Nil,
    MaxCommand,  \* bound: the number of operations of each clerk
    MaxRepeats,  \* bound: how often a command that is in the log is logged again
    Crashable,   \* the servers that may crash and restart
    Lossy,       \* whether calls can fail for no other reason
    Snapshots    \* maxraftstate > 0

ASSUME KVConstants ==
    /\ Nil \notin Op
    /\ MaxCommand \in [Clerk -> Nat] /\ MaxRepeats \in Nat
    /\ Crashable \subseteq Server
    /\ {Lossy, Snapshots} \subseteq BOOLEAN
ASSUME OpAssumption ==
    \A op \in Op : op.type \in {"Get", "Put", "Append"} /\ op.key \in Key
ASSUME NoCommandAssumption == Nil \notin [clerk : Clerk, id : Nat, op : Op]

VARIABLES
    nextCommandId, \* Clerk.nextCommandId
    current,       \* the command a clerk waits for (its WaitGroup), or Nil
    result,        \* what each clerk's last operation returned
    calls,         \* the goroutines of the clerks, with their calls
    log,           \* the commands Raft agreed on
    applied,       \* how many of them a server has read from applyCh
    kvMap, lastCommittedCommandCount,
    saving,        \* the argument of the running SaveSnapshot goroutine, or Nil
    snapshot,      \* the snapshot on a server's disk
    taken,         \* the snapshots ever saved: a call that carries one may be late
    since,         \* history: the length of the log when a clerk's operation began
    replay         \* history: the states a server passes through that reads the log

clerkVars  == <<nextCommandId, current, result, since>>
serverVars == <<applied, kvMap, lastCommittedCommandCount>>
diskVars   == <<saving, snapshot, taken>>
logVars == <<log, replay>>
vars == <<clerkVars, calls, logVars, serverVars, diskVars>>

emptyMap == [k \in Key |-> <<>>]
noCommand == [c \in Clerk |-> -1]

\* The state of a server as encodeState saves it, with its place in the log.
Snapshot(index, map, last) == [index |-> index, kvMap |-> map, last |-> last]

Init ==
    /\ nextCommandId = [c \in Clerk |-> 0]
    /\ current = [c \in Clerk |-> Nil]
    /\ result = [c \in Clerk |-> Nil]
    /\ calls = {}
    /\ log = <<>>
    /\ applied = [s \in Server |-> 0]
    /\ kvMap = [s \in Server |-> emptyMap]
    /\ lastCommittedCommandCount = [s \in Server |-> noCommand]
    /\ saving = [s \in Server |-> Nil]
    /\ snapshot = [s \in Server |-> Snapshot(0, emptyMap, noCommand)]
    /\ taken = {}
    /\ since = [c \in Clerk |-> 0]
    /\ replay = <<[map |-> emptyMap, last |-> noCommand]>>

-----------------------------------------------------------------------------
(* Clerks.                                                                 *)

Command(c, id, op) == [clerk |-> c, id |-> id, op |-> op]

Call(cmd, s, at, value) == [cmd |-> cmd, srv |-> s, at |-> at, value |-> value]

\* Returns the number after the increment.
getCurrentIdLate(c) == nextCommandId[c] + 1

getCurrentId(c) == nextCommandId[c]

\* Get, Put or Append: a goroutine for every server, then wait.
Begin(c, op) ==
    LET cmd == Command(c, getCurrentId(c), op)
    IN  /\ current[c] = Nil
        /\ nextCommandId[c] < MaxCommand[c]
        /\ nextCommandId' = [nextCommandId EXCEPT ![c] = @ + 1]
        /\ current' = [current EXCEPT ![c] = cmd]
        /\ since' = [since EXCEPT ![c] = Len(log)]
        /\ calls' = calls \cup {Call(cmd, s, "sent", Nil) : s \in Server}
        /\ UNCHANGED <<result, logVars, serverVars, diskVars>>

\* count # 1: no goroutine of this operation has won yet.
open(p) == current[p.cmd.clerk] = p.cmd

\* The goroutine of p and its call go on.  Once another one has won, nothing
\* that happens to the call matters any more and it is forgotten.
goOn(p, at, value) ==
    calls' = (calls \ {p}) \cup (IF open(p) THEN {Call(p.cmd, p.srv, at, value)} ELSE {})

\* No usable reply: the goroutine calls again, or ends if another one has won.
tryAgain(p) == goOn(p, "sent", Nil)

\* The reply OK (or ErrNoKey) arrives and wins the CompareAndSwap.  Of the other
\* goroutines' calls only those that can still reach a handler are kept.
Done(p) ==
    /\ p.at = "replied"
    /\ current' = [current EXCEPT ![p.cmd.clerk] = Nil]
    /\ result' = [result EXCEPT ![p.cmd.clerk] = p.value]
    /\ calls' = {q \in calls : q.cmd = p.cmd => q.at = "sent"}
    /\ UNCHANGED <<nextCommandId, since, logVars, serverVars, diskVars>>

\* The request or the reply is lost.
CallFails(p) ==
    /\ Lossy
    /\ tryAgain(p)
    /\ UNCHANGED <<clerkVars, logVars, serverVars, diskVars>>

-----------------------------------------------------------------------------
(* Handlers.                                                               *)

isCommitted(s, cmd) == lastCommittedCommandCount[s][cmd.clerk] >= cmd.id

\* The handler of p polls from now on.
wait(p) == goOn(p, "polling", Nil)

\* What a command does to the map.
execute(map, op) ==
    CASE op.type = "Get"    -> map
      [] op.type = "Put"    -> [map EXCEPT ![op.key] = <<op.value>>]
      [] op.type = "Append" -> [map EXCEPT ![op.key] = Append(@, op.value)]

\* Whether one more copy of a command stays within the bound.
hasRoom(cmd) ==
    LET logged == {log[n] : n \in DOMAIN log}
    IN  cmd \in logged => Len(log) < Cardinality(logged) + MaxRepeats

\* What reading cmd should do to the state st of a server.
once(st, cmd) ==
    IF st.last[cmd.clerk] >= cmd.id THEN st
    ELSE [map |-> execute(st.map, cmd.op), last |-> [st.last EXCEPT ![cmd.clerk] = cmd.id]]

\* Raft takes the command.  A leader that is deposed later may lose it.
Start(cmd) ==
    \/ /\ hasRoom(cmd)
       /\ log' = Append(log, cmd)
       /\ replay' = Append(replay, once(replay[Len(replay)], cmd))
    \/ UNCHANGED logVars

\* The first half of Get and PutAppend: a command that was not applied here is
\* given to Raft, any other is only waited for.
Submit(p) ==
    /\ p.at = "sent"
    /\ IF isCommitted(p.srv, p.cmd) THEN UNCHANGED logVars ELSE Start(p.cmd)
    /\ wait(p)
    /\ UNCHANGED <<clerkVars, serverVars, diskVars>>

\* Start says this server is not the leader: ErrWrongLeader.
WrongLeader(p) ==
    /\ p.at = "sent"
    /\ ~isCommitted(p.srv, p.cmd)
    /\ tryAgain(p)
    /\ UNCHANGED <<clerkVars, logVars, serverVars, diskVars>>

\* The value a Get replies: that of its key when the handler looks.
replyValue(p) == IF p.cmd.op.type = "Get" THEN kvMap[p.srv][p.cmd.op.key] ELSE Nil

\* Replies as soon as Raft has the command.
PollStarted(p) ==
    /\ p.at = "polling"
    /\ goOn(p, "replied", replyValue(p))
    /\ UNCHANGED <<clerkVars, logVars, serverVars, diskVars>>

\* A poll that finds the command applied.
Poll(p) ==
    /\ p.at = "polling"
    /\ isCommitted(p.srv, p.cmd)
    /\ goOn(p, "replied", replyValue(p))
    /\ UNCHANGED <<clerkVars, logVars, serverVars, diskVars>>

\* CommandTimeOut has passed: ErrTimeOut, also if the command was applied since
\* the last poll.
TimeOut(p) ==
    /\ p.at = "polling"
    /\ tryAgain(p)
    /\ UNCHANGED <<clerkVars, logVars, serverVars, diskVars>>

-----------------------------------------------------------------------------
(* The apply loop.                                                         *)

\* A command whose number was reached before is skipped; after any other the
\* server may find the log too long and, if no save is running, start one.
checkApplyCommand(s) ==
    LET cmd == log[applied[s] + 1]
    IN  /\ applied[s] < Len(log)
        /\ applied' = [applied EXCEPT ![s] = @ + 1]
        /\ IF isCommitted(s, cmd)
           THEN UNCHANGED <<kvMap, lastCommittedCommandCount, saving>>
           ELSE /\ kvMap' = [kvMap EXCEPT ![s] = execute(@, cmd.op)]
                /\ lastCommittedCommandCount' =
                       [lastCommittedCommandCount EXCEPT ![s][cmd.clerk] = cmd.id]
                /\ \/ UNCHANGED saving
                   \/ /\ Snapshots /\ saving[s] = Nil
                      /\ saving' = [saving EXCEPT ![s] =
                             Snapshot(applied[s] + 1, kvMap'[s], lastCommittedCommandCount'[s])]
        /\ UNCHANGED <<clerkVars, calls, logVars, snapshot, taken>>

\* The map alone.
decodeStateMap(snap) == [map |-> snap.kvMap, last |-> noCommand]

\* What decodeState makes of a snapshot.
decodeState(snap) == [map |-> snap.kvMap, last |-> snap.last]

\* The goroutine of checkApplyCommand calls SaveSnapshot, which drops what the
\* log no longer holds: a place before the snapshot on disk, or one that was
\* cut off in the meantime.
SaveSnapshot(s) ==
    /\ saving[s] # Nil
    /\ saving' = [saving EXCEPT ![s] = Nil]
    /\ \/ /\ saving[s].index >= snapshot[s].index
          /\ snapshot' = [snapshot EXCEPT ![s] = saving[s]]
          /\ taken' = taken \cup {saving[s]}
       \/ UNCHANGED <<snapshot, taken>>
    /\ UNCHANGED <<clerkVars, calls, logVars, serverVars>>

\* The loop reads a snapshot instead of a command: one that some server took,
\* perhaps of an earlier state than that of s.
InstallSnapshot(s, snap) ==
    /\ snapshot' = [snapshot EXCEPT ![s] = snap]
    /\ applied' = [applied EXCEPT ![s] = snap.index]
    /\ kvMap' = [kvMap EXCEPT ![s] = decodeState(snap).map]
    /\ lastCommittedCommandCount' =
           [lastCommittedCommandCount EXCEPT ![s] = decodeState(snap).last]
    /\ UNCHANGED <<clerkVars, calls, logVars, saving, taken>>

\* The server dies and StartKVServer runs on its disk.  Handlers die with it and
\* the goroutines that wait for them call again; a call that has not reached its
\* handler may find the new server.
Restart(s) ==
    /\ s \in Crashable
    /\ applied' = [applied EXCEPT ![s] = snapshot[s].index]
    /\ kvMap' = [kvMap EXCEPT ![s] = decodeState(snapshot[s]).map]
    /\ lastCommittedCommandCount' =
           [lastCommittedCommandCount EXCEPT ![s] = decodeState(snapshot[s]).last]
    /\ saving' = [saving EXCEPT ![s] = Nil]
    /\ LET cut == {p \in calls : p.srv = s /\ p.at = "polling"}
       IN  calls' = (calls \ cut) \cup
               {Call(p.cmd, s, "sent", Nil) : p \in {q \in cut : open(q)}}
    /\ UNCHANGED <<clerkVars, logVars, snapshot, taken>>

-----------------------------------------------------------------------------
ClerkStep ==
    \/ \E c \in Clerk, op \in Op : Begin(c, op)
    \/ \E p \in calls : Done(p) \/ CallFails(p)

HandlerStep == \E p \in calls : Submit(p) \/ WrongLeader(p) \/ Poll(p) \/ TimeOut(p)

ServerStep ==
    \/ \E s \in Server : checkApplyCommand(s) \/ SaveSnapshot(s) \/ Restart(s)
    \/ \E s \in Server, snap \in taken : InstallSnapshot(s, snap)

Next == ClerkStep \/ HandlerStep \/ ServerStep

Spec == Init /\ [][Next]_vars
=============================================================================
