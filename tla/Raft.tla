-------------------------------- MODULE Raft --------------------------------
(***************************************************************************)
(* The Raft peers of src/src/raft/raft.go: elections, log replication,     *)
(* persistence, log compaction and snapshot transfer, over the network of  *)
(* labrpc and with the service that reads applyCh.                         *)
(*                                                                         *)
(* Every handler and every reply goroutine runs under rf.mu, so each is    *)
(* one action.  An RPC is two records: the request, and the reply together *)
(* with what the calling goroutine's closure remembers of the arguments.   *)
(* The network delivers both in any order, at most once, or never.         *)
(*                                                                         *)
(* Election timers are a nondeterministic timeout.  rf.lastApplied is not  *)
(* modelled: nothing reads it.                                             *)
(***************************************************************************)
EXTENDS RaftLog

CONSTANTS
    Server,      \* rf.peers
    Value,       \* the commands given to Start
    Nil,         \* voteFor = -1; also "no snapshot", "no job"
    DummyNode,   \* the command of the first item of a fresh log
    MayTimeout,  \* bound: the peers whose election timer may fire
    MaxTerm,     \* bound: no election timer fires in this term
    MaxIndex,    \* bound: Start is not called once the log reaches this index
    MaxInFlight, \* bound: outstanding AppendEntries calls per pair of peers
    MaxQueue,    \* bound: no snapshot is installed while applyCh is this long
    Crashable,   \* the peers that may crash and restart
    Lossy,       \* whether requests and replies can be lost
    Snapshots    \* maxraftstate > 0: the service compacts the log

ASSUME ServerAssumption == IsFiniteSet(Server) /\ Server # {} /\ Nil \notin Server
ASSUME NoSnapshotAssumption == Nil \notin [index : Nat, term : Nat]
ASSUME BoundAssumption == {MaxTerm, MaxIndex, MaxInFlight, MaxQueue} \subseteq Nat
ASSUME FaultAssumption == Crashable \cup MayTimeout \subseteq Server /\ {Lossy, Snapshots} \subseteq BOOLEAN

Follower == "Follower"
Candidate == "Candidate"
Leader == "Leader"

VARIABLES
    state, currentTerm, voteFor, voteCount,
    log, commitIndex,
    nextIndex, matchIndex,
    persisted,   \* Persister.raftstate of each peer
    snapshot,    \* Persister.snapshot of each peer, by its last included entry
    applyCh,     \* ApplyMsgs sent and not yet read by the service
    applied,     \* the index of the service's state
    saving,      \* the service's pending SaveSnapshot call, or Nil
    panicked,    \* peers whose process died in a panic, or whose log was emptied
    voteReq, voteRep, appendReq, appendRep, snapReq, snapRep,
    ballots,     \* history: every vote that was persisted
    elected,     \* history: every leader of every term
    delivered    \* history: every entry a peer ever sent to its applyCh

electionVars == <<state, currentTerm, voteFor, voteCount>>
logVars      == <<log, commitIndex>>
leaderVars   == <<nextIndex, matchIndex>>
diskVars     == <<persisted, snapshot>>
serviceVars  == <<applyCh, applied, saving>>
voteNet      == <<voteReq, voteRep>>
appendNet    == <<appendReq, appendRep>>
snapNet      == <<snapReq, snapRep>>
historyVars  == <<ballots, elected, delivered>>
vars == <<electionVars, logVars, leaderVars, diskVars, serviceVars, panicked,
          voteNet, appendNet, snapNet, historyVars>>

-----------------------------------------------------------------------------
(* Initial state: every peer has just run Make with an empty Persister.    *)

freshLog == <<LogItem(DummyNode, 0, 0)>>

Init ==
    /\ state = [i \in Server |-> Follower]
    /\ currentTerm = [i \in Server |-> 0]
    /\ voteFor = [i \in Server |-> Nil]
    /\ voteCount = [i \in Server |-> 0]
    /\ log = [i \in Server |-> freshLog]
    /\ commitIndex = [i \in Server |-> 0]
    /\ nextIndex = [i \in Server |-> [j \in Server |-> 0]]
    /\ matchIndex = [i \in Server |-> [j \in Server |-> 0]]
    /\ persisted = [i \in Server |-> [term |-> 0, voteFor |-> Nil, log |-> freshLog]]
    /\ snapshot = [i \in Server |-> Nil]
    /\ applyCh = [i \in Server |-> <<>>]
    /\ applied = [i \in Server |-> 0]
    /\ saving = [i \in Server |-> Nil]
    /\ panicked = {}
    /\ voteReq = {} /\ voteRep = {}
    /\ appendReq = {} /\ appendRep = {}
    /\ snapReq = {} /\ snapRep = {}
    /\ ballots = {} /\ elected = {}
    /\ delivered = [i \in Server |-> {}]

-----------------------------------------------------------------------------
(* Pieces shared by the handlers.                                          *)

Running(i) == i \notin panicked

\* The peers forget their vote in a crash.
persistWithoutVote(i) ==
    persisted' = [persisted EXCEPT ![i] =
        [term |-> currentTerm'[i], voteFor |-> Nil, log |-> log'[i]]]

\* rf.persist(): it encodes the fields as the handler has left them.
persist(i) ==
    persisted' = [persisted EXCEPT ![i] =
        [term |-> currentTerm'[i], voteFor |-> voteFor'[i], log |-> log'[i]]]

\* Requests of earlier terms are served, too.
upToDateAlways(i, term) == TRUE

\* A request is refused when its term is behind the receiver's.
upToDate(i, term) == term >= currentTerm[i]

becomeFollower(i, term) ==
    /\ state' = [state EXCEPT ![i] = Follower]
    /\ currentTerm' = [currentTerm EXCEPT ![i] = term]
    /\ voteCount' = [voteCount EXCEPT ![i] = 0]
    /\ voteFor' = [voteFor EXCEPT ![i] = Nil]

\* A request of a newer term makes the receiver a follower of that term.
observeTerm(i, term) ==
    IF term > currentTerm[i] THEN becomeFollower(i, term) ELSE UNCHANGED electionVars

\* The count of an earlier election is kept.
becomeCandidateKeepCount(i) ==
    /\ state' = [state EXCEPT ![i] = Candidate]
    /\ voteFor' = [voteFor EXCEPT ![i] = i]
    /\ voteCount' = [voteCount EXCEPT ![i] = @ + 1]
    /\ currentTerm' = [currentTerm EXCEPT ![i] = @ + 1]

becomeCandidate(i) ==
    /\ state' = [state EXCEPT ![i] = Candidate]
    /\ voteFor' = [voteFor EXCEPT ![i] = i]
    /\ voteCount' = [voteCount EXCEPT ![i] = 1]
    /\ currentTerm' = [currentTerm EXCEPT ![i] = @ + 1]

becomeLeader(i) ==
    /\ state' = [state EXCEPT ![i] = Leader]
    /\ voteCount' = [voteCount EXCEPT ![i] = 0]
    /\ nextIndex' = [nextIndex EXCEPT ![i] = [j \in Server |-> getLastLogIndex(log[i]) + 1]]
    /\ matchIndex' = [matchIndex EXCEPT ![i] = [j \in Server |-> 0]]
    /\ elected' = elected \cup {[term |-> currentTerm[i], leader |-> i]}

ApplyMsg(valid, item) == [valid |-> valid, item |-> item]

\* The first index rf.sendCommitMessage(from, to) sends from the log l.
firstSent(l, from) == Max2(from, getDummyLogIndex(l) + 1)

\* rf.sendCommitMessage(from, to) on the log l of peer i.  The loop sends one
\* entry after the other and panics at the first index the log does not hold.
sendCommitMessage(i, l, from, to) ==
    LET first == firstSent(l, from)
        items == getLogItemSliceInclusive(l, first, Min2(to, getLastLogIndex(l)))
    IN  /\ applyCh' = [applyCh EXCEPT ![i] =
               @ \o [k \in DOMAIN items |-> ApplyMsg(TRUE, items[k])]]
        /\ delivered' = [delivered EXCEPT ![i] = @ \cup {items[k] : k \in DOMAIN items}]
        /\ panicked' = IF first <= to /\ getLastLogIndex(l) < to
               THEN panicked \cup {i} ELSE panicked

-----------------------------------------------------------------------------
(* Elections.                                                              *)

VoteRequest(i, j, term) ==
    [src |-> i, dst |-> j, term |-> term, lastLogIndex |-> getLastLogIndex(log[i]),
     lastLogTerm |-> getLastLogTerm(log[i]), orphan |-> FALSE]

\* The timer of i fires; nothing asks whether i is already the leader.
startElection(i) ==
    /\ Running(i)
    /\ i \in MayTimeout
    /\ currentTerm[i] < MaxTerm
    /\ becomeCandidate(i)
    /\ UNCHANGED log
    /\ persist(i)
    /\ ballots' = ballots \cup {[voter |-> i, term |-> currentTerm[i] + 1, cand |-> i]}
    /\ voteReq' = voteReq \cup {VoteRequest(i, j, currentTerm[i] + 1) : j \in Server \ {i}}
    /\ UNCHANGED <<commitIndex, leaderVars, snapshot, serviceVars, panicked, voteRep,
                   appendNet, snapNet, elected, delivered>>

\* The reply goes to the goroutine that made the call, if its peer still runs.
voteReply(m, term, granted) ==
    /\ voteReq' = voteReq \ {m}
    /\ voteRep' = IF m.orphan THEN voteRep ELSE voteRep \cup
           {[src |-> m.src, dst |-> m.dst, term |-> m.term,
             replyTerm |-> term, granted |-> granted]}

RequestVoteStale(m) ==
    /\ Running(m.dst)
    /\ m.term < currentTerm[m.dst]
    /\ voteReply(m, currentTerm[m.dst], FALSE)
    /\ UNCHANGED <<electionVars, logVars, leaderVars, diskVars, serviceVars, panicked,
                   appendNet, snapNet, historyVars>>

\* Whether peer i, with vote vf in the term of request m, grants it.
grantsVote(i, vf, m) ==
    /\ vf \in {Nil, m.src}
    /\ isMoreUpdated(m.lastLogTerm, m.lastLogIndex,
                     getLastLogTerm(log[i]), getLastLogIndex(log[i]))

RequestVote(m) ==
    LET i == m.dst
        newer == m.term > currentTerm[i]
        vf == IF newer THEN Nil ELSE voteFor[i]
        granted == grantsVote(i, vf, m)
    IN  /\ Running(i)
        /\ upToDate(i, m.term)
        /\ state' = IF newer THEN [state EXCEPT ![i] = Follower] ELSE state
        /\ currentTerm' = [currentTerm EXCEPT ![i] = m.term]
        /\ voteCount' = IF newer THEN [voteCount EXCEPT ![i] = 0] ELSE voteCount
        /\ voteFor' = [voteFor EXCEPT ![i] = IF granted THEN m.src ELSE vf]
        /\ UNCHANGED log
        /\ persist(i)
        /\ ballots' = IF granted
               THEN ballots \cup {[voter |-> i, term |-> m.term, cand |-> m.src]}
               ELSE ballots
        /\ voteReply(m, m.term, granted)
        /\ UNCHANGED <<commitIndex, leaderVars, snapshot, serviceVars, panicked,
                       appendNet, snapNet, elected, delivered>>

\* The three ends of the goroutine that waits for a vote.
VoteReplyStale(r) ==
    /\ Running(r.src)
    /\ r.replyTerm < currentTerm[r.src]
    /\ voteRep' = voteRep \ {r}
    /\ UNCHANGED <<electionVars, logVars, leaderVars, diskVars, serviceVars, panicked,
                   voteReq, appendNet, snapNet, historyVars>>

\* Adopts the newer term in memory only.
VoteReplyNewerUnsaved(r) ==
    /\ Running(r.src)
    /\ r.replyTerm > currentTerm[r.src]
    /\ becomeFollower(r.src, r.replyTerm)
    /\ voteRep' = voteRep \ {r}
    /\ UNCHANGED <<logVars, leaderVars, diskVars, serviceVars, panicked,
                   voteReq, appendNet, snapNet, historyVars>>

VoteReplyNewer(r) ==
    /\ Running(r.src)
    /\ r.replyTerm > currentTerm[r.src]
    /\ becomeFollower(r.src, r.replyTerm)
    /\ UNCHANGED log
    /\ persist(r.src)
    /\ voteRep' = voteRep \ {r}
    /\ UNCHANGED <<commitIndex, leaderVars, snapshot, serviceVars, panicked,
                   voteReq, appendNet, snapNet, historyVars>>

VoteReplyCount(r) ==
    LET i == r.src
        count == voteCount[i] + (IF r.granted THEN 1 ELSE 0)
    IN  /\ Running(i)
        /\ r.replyTerm = currentTerm[i]
        /\ UNCHANGED <<currentTerm, voteFor, log>>
        /\ IF state[i] # Leader /\ count >= getMajorityCount(Server)
           THEN becomeLeader(i) /\ persist(i)
           ELSE /\ voteCount' = [voteCount EXCEPT ![i] = count]
                /\ UNCHANGED <<state, leaderVars, elected, persisted>>
        /\ voteRep' = voteRep \ {r}
        /\ UNCHANGED <<commitIndex, snapshot, serviceVars, panicked, voteReq,
                       appendNet, snapNet, ballots, delivered>>

-----------------------------------------------------------------------------
(* Replication.                                                            *)

\* The length of the log: right until the log is compacted.
nextLogIndexByLength(l) == Len(l)

nextLogIndex(l) == getLastLogIndex(l) + 1

\* Takes the place behind the last committed entry.
StartBehindCommit(i, v) ==
    LET index == commitIndex[i] + 1
        kept == getLogItemSliceInclusive(log[i], getDummyLogIndex(log[i]), commitIndex[i])
    IN  /\ Running(i)
        /\ state[i] = Leader
        /\ index <= MaxIndex
        /\ log' = [log EXCEPT ![i] = Append(kept, LogItem(v, currentTerm[i], index))]
        /\ matchIndex' = [matchIndex EXCEPT ![i][i] = index]
        /\ UNCHANGED <<electionVars, commitIndex, nextIndex>>
        /\ persist(i)
        /\ UNCHANGED <<snapshot, serviceVars, panicked, voteNet, appendNet, snapNet,
                       historyVars>>

\* Start(v) on a leader; on any other peer it returns without effect.
Start(i, v) ==
    LET index == nextLogIndex(log[i])
    IN  /\ Running(i)
        /\ state[i] = Leader
        /\ index <= MaxIndex
        /\ log' = [log EXCEPT ![i] = Append(@, LogItem(v, currentTerm[i], index))]
        /\ matchIndex' = [matchIndex EXCEPT ![i][i] = index]
        /\ UNCHANGED <<electionVars, commitIndex, nextIndex>>
        /\ persist(i)
        /\ UNCHANGED <<snapshot, serviceVars, panicked, voteNet, appendNet, snapNet,
                       historyVars>>

getPreviousIndexForServer(i, j) == nextIndex[i][j] - 1

\* The calls from i to j that have not returned; their slots keep apart two
\* calls with equal arguments.
usedSlots(i, j) ==
    {m.slot : m \in {c \in appendReq : c.src = i /\ c.dst = j /\ ~c.orphan}}
    \cup {r.slot : r \in {c \in appendRep : c.src = i /\ c.dst = j}}

freeSlots(i, j) == (1..MaxInFlight) \ usedSlots(i, j)

AppendRequest(i, j, slot) ==
    LET prev == getPreviousIndexForServer(i, j)
    IN  [src |-> i, dst |-> j, slot |-> slot, term |-> currentTerm[i],
         prevLogIndex |-> prev,
         prevLogTerm |-> getLogItemAtIndex(log[i], prev).term,
         entries |-> getAppendLogItem(log[i], nextIndex[i][j]),
         leaderCommit |-> commitIndex[i], orphan |-> FALSE]

\* One pass of the leader's 100 ms loop.  A peer with no free slot is skipped
\* (the bound).  A peer that needs a snapshot is left to startInstallSnapshot.
\* PrevLogTerm of an index past the log is the "Index out of bound" panic: what
\* was sent to other peers before it in the same pass is on its way.
startAppend(i) ==
    LET peers == {j \in Server \ {i} :
                    /\ freeSlots(i, j) # {}
                    /\ getPreviousIndexForServer(i, j) >= getDummyLogIndex(log[i])}
        outside == {j \in peers : getPreviousIndexForServer(i, j) > getLastLogIndex(log[i])}
        slot(j) == CHOOSE k \in freeSlots(i, j) : TRUE
    IN  /\ Running(i)
        /\ state[i] = Leader
        /\ peers # {}
        /\ \E sent \in IF outside = {} THEN {peers} ELSE SUBSET (peers \ outside) :
               appendReq' = appendReq \cup {AppendRequest(i, j, slot(j)) : j \in sent}
        /\ panicked' = IF outside = {} THEN panicked ELSE panicked \cup {i}
        /\ UNCHANGED <<electionVars, logVars, leaderVars, diskVars, serviceVars, voteNet,
                       appendRep, snapNet, historyVars>>

appendReply(m, term, success) ==
    /\ appendReq' = appendReq \ {m}
    /\ appendRep' = IF m.orphan THEN appendRep ELSE appendRep \cup
           {[src |-> m.src, dst |-> m.dst, slot |-> m.slot, term |-> m.term,
             prevLogIndex |-> m.prevLogIndex, sent |-> Len(m.entries),
             replyTerm |-> term, success |-> success]}

\* The four ends of the AppendEntries handler.
AppendEntriesStale(m) ==
    /\ Running(m.dst)
    /\ m.term < currentTerm[m.dst]
    /\ appendReply(m, currentTerm[m.dst], FALSE)
    /\ UNCHANGED <<electionVars, logVars, leaderVars, diskVars, serviceVars, panicked,
                   voteNet, snapNet, historyVars>>

AppendEntriesOutOfRange(m) ==
    LET i == m.dst
    IN  /\ Running(i)
        /\ upToDate(i, m.term)
        /\ ~logContainIndex(log[i], m.prevLogIndex)
        /\ observeTerm(i, m.term)
        /\ UNCHANGED log
        /\ persist(i)
        /\ appendReply(m, m.term, FALSE)
        /\ UNCHANGED <<commitIndex, leaderVars, snapshot, serviceVars, panicked, voteNet,
                       snapNet, historyVars>>

\* Only the index of the previous entry is checked.
matchesPreviousIndex(l, m) == TRUE

matchesPrevious(l, m) == getLogItemAtIndex(l, m.prevLogIndex).term = m.prevLogTerm

\* Deleting from the first item on leaves an empty log.  The next access to it
\* panics, and only InstallSnapshot, which replaces it, can come before that.
AppendEntriesConflict(m) ==
    LET i == m.dst
        kept == deleteLogFromIndexInclusive(log[i], m.prevLogIndex)
    IN  /\ Running(i)
        /\ upToDate(i, m.term)
        /\ logContainIndex(log[i], m.prevLogIndex)
        /\ ~matchesPrevious(log[i], m)
        /\ observeTerm(i, m.term)
        /\ log' = [log EXCEPT ![i] = kept]
        /\ persist(i)
        /\ panicked' = IF kept = <<>> THEN panicked \cup {i} ELSE panicked
        /\ appendReply(m, m.term, FALSE)
        /\ UNCHANGED <<commitIndex, leaderVars, snapshot, serviceVars, voteNet, snapNet,
                       historyVars>>

\* Appends without deleting what follows PrevLogIndex.
appendedLogKeepTail(l, m) == l \o m.entries

\* The follower's log after a request that matches: everything after
\* PrevLogIndex is deleted, whatever the entries are.
appendedLog(l, m) == deleteLogFromIndexInclusive(l, m.prevLogIndex + 1) \o m.entries

AppendEntriesAccept(m) ==
    LET i == m.dst
        newLog == appendedLog(log[i], m)
        newCommit == Min2(getLastLogIndex(newLog), m.leaderCommit)
    IN  /\ Running(i)
        /\ upToDate(i, m.term)
        /\ logContainIndex(log[i], m.prevLogIndex)
        /\ matchesPrevious(log[i], m)
        /\ observeTerm(i, m.term)
        /\ log' = [log EXCEPT ![i] = newLog]
        /\ IF m.leaderCommit > commitIndex[i]
           THEN /\ commitIndex' = [commitIndex EXCEPT ![i] = newCommit]
                /\ sendCommitMessage(i, newLog, commitIndex[i] + 1, newCommit)
           ELSE UNCHANGED <<commitIndex, applyCh, delivered, panicked>>
        /\ persist(i)
        /\ appendReply(m, m.term, TRUE)
        /\ UNCHANGED <<leaderVars, snapshot, applied, saving, voteNet, snapNet, ballots,
                       elected>>

\* The four ends of the goroutine that waits for an AppendEntries reply.
AppendReplyNewer(r) ==
    /\ Running(r.src)
    /\ r.replyTerm > currentTerm[r.src]
    /\ becomeFollower(r.src, r.replyTerm)
    /\ UNCHANGED log
    /\ persist(r.src)
    /\ appendRep' = appendRep \ {r}
    /\ UNCHANGED <<commitIndex, leaderVars, snapshot, serviceVars, panicked, voteNet,
                   appendReq, snapNet, historyVars>>

AppendReplyStale(r) ==
    /\ Running(r.src)
    /\ r.replyTerm < currentTerm[r.src]
    /\ appendRep' = appendRep \ {r}
    /\ UNCHANGED <<electionVars, logVars, leaderVars, diskVars, serviceVars, panicked,
                   voteNet, appendReq, snapNet, historyVars>>

\* When the leader counts a replicated entry as committed: only the term of
\* its last entry is compared with the current term.
mayCommit(i) == getLastLogTerm(log[i]) = currentTerm[i]

\* matchIndex after a success, counted from where the leader is by now.
matchAfterSuccessNow(r) == nextIndex[r.src][r.dst] - 1 + r.sent

\* matchIndex after a success, from the arguments of the call.
matchAfterSuccess(r) == r.prevLogIndex + r.sent

AppendReplySuccess(r) ==
    LET i == r.src
        match == [matchIndex[i] EXCEPT ![r.dst] = matchAfterSuccess(r)]
    IN  /\ Running(i)
        /\ r.replyTerm = currentTerm[i]
        /\ r.success
        /\ nextIndex' = [nextIndex EXCEPT ![i][r.dst] = matchAfterSuccess(r) + 1]
        /\ matchIndex' = [matchIndex EXCEPT ![i] = match]
        /\ IF mayCommit(i)
           THEN \E v \in {match[j] : j \in Server} :
                    LET newCommit == Max2(commitIndex[i], v)
                    IN  /\ isMatch(v, match)
                        /\ commitIndex' = [commitIndex EXCEPT ![i] = newCommit]
                        /\ sendCommitMessage(i, log[i], commitIndex[i] + 1, newCommit)
           ELSE UNCHANGED <<commitIndex, applyCh, delivered, panicked>>
        /\ appendRep' = appendRep \ {r}
        /\ UNCHANGED <<electionVars, log, diskVars, applied, saving, voteNet, appendReq,
                       snapNet, ballots, elected>>

\* Sends the same entries again.
nextAfterFailureSame(l, r) == r.prevLogIndex + 1

\* Steps back past the entries that were sent, without a lower bound.
nextAfterFailureUnbounded(l, r) == r.prevLogIndex - r.sent - 1

\* nextIndex after a rejected request.
nextAfterFailure(l, r) ==
    IF r.prevLogIndex = getDummyLogIndex(l)
    THEN getDummyLogIndex(l)
    ELSE Max2(r.prevLogIndex - r.sent, getDummyLogIndex(l) + 1)

AppendReplyFailure(r) ==
    /\ Running(r.src)
    /\ r.replyTerm = currentTerm[r.src]
    /\ ~r.success
    /\ nextIndex' = [nextIndex EXCEPT ![r.src][r.dst] = nextAfterFailure(log[r.src], r)]
    /\ appendRep' = appendRep \ {r}
    /\ UNCHANGED <<electionVars, logVars, matchIndex, diskVars, serviceVars, panicked,
                   voteNet, appendReq, snapNet, historyVars>>

-----------------------------------------------------------------------------
(* The service: it reads applyCh and compacts the log.                     *)

\* One turn of checkApplyCommand.  After a command the service may find the
\* persisted state too large and, if no save is pending, start one.
Apply(i) ==
    LET msg == Head(applyCh[i])
    IN  /\ Running(i)
        /\ applyCh[i] # <<>>
        /\ applyCh' = [applyCh EXCEPT ![i] = Tail(@)]
        /\ applied' = [applied EXCEPT ![i] = msg.item.index]
        /\ \/ UNCHANGED saving
           \/ /\ Snapshots /\ msg.valid /\ saving[i] = Nil
              /\ saving' = [saving EXCEPT ![i] =
                     [index |-> msg.item.index, term |-> msg.item.term]]
        /\ UNCHANGED <<electionVars, logVars, leaderVars, diskVars, panicked, voteNet,
                       appendNet, snapNet, historyVars>>

\* Saves the snapshot without the shortened log.
SaveSnapshotAlone(i) ==
    LET s == saving[i]
        kept == getLogItemSliceInclusive(log[i], s.index, getLastLogIndex(log[i]))
    IN  /\ Running(i)
        /\ s # Nil
        /\ saving' = [saving EXCEPT ![i] = Nil]
        /\ IF logContainIndex(log[i], s.index)
           THEN /\ log' = [log EXCEPT ![i] = kept]
                /\ snapshot' = [snapshot EXCEPT ![i] = s]
           ELSE UNCHANGED <<log, snapshot>>
        /\ UNCHANGED <<electionVars, commitIndex, leaderVars, persisted, applyCh, applied,
                       panicked, voteNet, appendNet, snapNet, historyVars>>

\* The goroutine of the pending save.  An index the log no longer (or not yet)
\* holds is dropped; otherwise the log starts at that index from now on.
SaveSnapshot(i) ==
    LET s == saving[i]
        kept == getLogItemSliceInclusive(log[i], s.index, getLastLogIndex(log[i]))
    IN  /\ Running(i)
        /\ s # Nil
        /\ saving' = [saving EXCEPT ![i] = Nil]
        /\ IF logContainIndex(log[i], s.index)
           THEN /\ log' = [log EXCEPT ![i] = kept]
                /\ UNCHANGED electionVars
                /\ persist(i)
                /\ snapshot' = [snapshot EXCEPT ![i] = s]
           ELSE UNCHANGED <<electionVars, log, diskVars>>
        /\ UNCHANGED <<commitIndex, leaderVars, applyCh, applied, panicked, voteNet,
                       appendNet, snapNet, historyVars>>

-----------------------------------------------------------------------------
(* Snapshot transfer.                                                      *)

\* The loop of i for peer j; it waits for one call before the next.
startInstallSnapshot(i, j) ==
    /\ Running(i)
    /\ state[i] = Leader
    /\ ~\E m \in snapReq : m.src = i /\ m.dst = j /\ ~m.orphan
    /\ ~\E r \in snapRep : r.src = i /\ r.dst = j
    /\ getPreviousIndexForServer(i, j) < getDummyLogIndex(log[i])
    /\ IF snapshot[i] = Nil
       THEN panicked' = panicked \cup {i} /\ UNCHANGED snapReq
       ELSE /\ snapReq' = snapReq \cup
                   {[src |-> i, dst |-> j, term |-> currentTerm[i],
                     lastIncludedIndex |-> snapshot[i].index,
                     lastIncludedTerm |-> snapshot[i].term, orphan |-> FALSE]}
            /\ UNCHANGED panicked
    /\ UNCHANGED <<electionVars, logVars, leaderVars, diskVars, serviceVars, voteNet,
                   appendNet, snapRep, historyVars>>

snapReply(m, term) ==
    /\ snapReq' = snapReq \ {m}
    /\ snapRep' = IF m.orphan THEN snapRep ELSE snapRep \cup
           {[src |-> m.src, dst |-> m.dst, term |-> m.term,
             lastIncludedIndex |-> m.lastIncludedIndex, replyTerm |-> term]}

InstallSnapshotStale(m) ==
    /\ Running(m.dst)
    /\ m.term < currentTerm[m.dst]
    /\ snapReply(m, currentTerm[m.dst])
    /\ UNCHANGED <<electionVars, logVars, leaderVars, diskVars, serviceVars, panicked,
                   voteNet, appendNet, historyVars>>

\* reply.Term as the handler leaves it when it installs: never assigned.
installedReplyTerm(m) == 0

\* Takes the sender's term for the term of the last included entry.
snapshotHeadOfSender(m) == LogItem(DummyNode, m.term, m.lastIncludedIndex)

snapshotHead(m) == LogItem(DummyNode, m.lastIncludedTerm, m.lastIncludedIndex)

\* rebuildLogFromSnapshot: the whole log is replaced and commitIndex set,
\* whatever the peer held, nothing at all included; the service is handed the
\* snapshot's state.
InstallSnapshot(m) ==
    LET i == m.dst
        head == snapshotHead(m)
    IN  /\ Running(i) \/ log[i] = <<>>
        /\ Len(applyCh[i]) < MaxQueue
        /\ upToDate(i, m.term)
        /\ observeTerm(i, m.term)
        /\ log' = [log EXCEPT ![i] = <<head>>]
        /\ commitIndex' = [commitIndex EXCEPT ![i] = m.lastIncludedIndex]
        /\ applyCh' = [applyCh EXCEPT ![i] = Append(@, ApplyMsg(FALSE, head))]
        /\ persist(i)
        /\ snapshot' = [snapshot EXCEPT ![i] =
               [index |-> m.lastIncludedIndex, term |-> m.lastIncludedTerm]]
        /\ panicked' = panicked \ {i}
        /\ snapReply(m, installedReplyTerm(m))
        /\ UNCHANGED <<leaderVars, applied, saving, voteNet, appendNet, historyVars>>

\* The three ends of a turn of the loop whose call returned.
SnapReplyIgnored(r) ==
    /\ Running(r.src)
    /\ state[r.src] # Leader \/ r.replyTerm < currentTerm[r.src]
    /\ snapRep' = snapRep \ {r}
    /\ UNCHANGED <<electionVars, logVars, leaderVars, diskVars, serviceVars, panicked,
                   voteNet, appendNet, snapReq, historyVars>>

SnapReplyNewer(r) ==
    /\ Running(r.src)
    /\ state[r.src] = Leader
    /\ r.replyTerm > currentTerm[r.src]
    /\ becomeFollower(r.src, r.replyTerm)
    /\ UNCHANGED log
    /\ persist(r.src)
    /\ snapRep' = snapRep \ {r}
    /\ UNCHANGED <<commitIndex, leaderVars, snapshot, serviceVars, panicked, voteNet,
                   appendNet, snapReq, historyVars>>

SnapReplyAdvance(r) ==
    /\ Running(r.src)
    /\ state[r.src] = Leader
    /\ r.replyTerm = currentTerm[r.src]
    /\ nextIndex' = [nextIndex EXCEPT ![r.src][r.dst] = r.lastIncludedIndex + 1]
    /\ matchIndex' = [matchIndex EXCEPT ![r.src][r.dst] = r.lastIncludedIndex]
    /\ snapRep' = snapRep \ {r}
    /\ UNCHANGED <<electionVars, logVars, diskVars, serviceVars, panicked, voteNet,
                   appendNet, snapReq, historyVars>>

-----------------------------------------------------------------------------
(* Faults.                                                                 *)

orphaned(reqs, i) == {[m EXCEPT !.orphan = @ \/ m.src = i] : m \in reqs}

\* Peer i is killed and Make runs again on its Persister.  Requests of the old
\* instance still travel, but no reply reaches it.  An empty persisted log
\* makes Make itself panic.  The service reloads the snapshot.
Restart(i) ==
    LET disk == persisted[i]
    IN  /\ i \in Crashable
        /\ disk.log # <<>>
        /\ state' = [state EXCEPT ![i] = Follower]
        /\ currentTerm' = [currentTerm EXCEPT ![i] = disk.term]
        /\ voteFor' = [voteFor EXCEPT ![i] = disk.voteFor]
        /\ voteCount' = [voteCount EXCEPT ![i] = 0]
        /\ log' = [log EXCEPT ![i] = disk.log]
        /\ commitIndex' = [commitIndex EXCEPT ![i] = getDummyLogIndex(disk.log)]
        /\ nextIndex' = [nextIndex EXCEPT ![i] = [j \in Server |-> 0]]
        /\ matchIndex' = [matchIndex EXCEPT ![i] = [j \in Server |-> 0]]
        /\ applyCh' = [applyCh EXCEPT ![i] = <<>>]
        /\ applied' = [applied EXCEPT ![i] = IF snapshot[i] = Nil THEN 0 ELSE snapshot[i].index]
        /\ saving' = [saving EXCEPT ![i] = Nil]
        /\ panicked' = panicked \ {i}
        /\ voteReq' = orphaned(voteReq, i)
        /\ appendReq' = orphaned(appendReq, i)
        /\ snapReq' = orphaned(snapReq, i)
        /\ voteRep' = {r \in voteRep : r.src # i}
        /\ appendRep' = {r \in appendRep : r.src # i}
        /\ snapRep' = {r \in snapRep : r.src # i}
        /\ UNCHANGED <<diskVars, historyVars>>

\* The network drops a request or a reply: Call returns false to its goroutine,
\* which does nothing more.
LoseVote ==
    /\ Lossy
    /\ \/ \E m \in voteReq : voteReq' = voteReq \ {m} /\ UNCHANGED voteRep
       \/ \E r \in voteRep : voteRep' = voteRep \ {r} /\ UNCHANGED voteReq
    /\ UNCHANGED <<electionVars, logVars, leaderVars, diskVars, serviceVars, panicked,
                   appendNet, snapNet, historyVars>>

LoseAppend ==
    /\ Lossy
    /\ \/ \E m \in appendReq : appendReq' = appendReq \ {m} /\ UNCHANGED appendRep
       \/ \E r \in appendRep : appendRep' = appendRep \ {r} /\ UNCHANGED appendReq
    /\ UNCHANGED <<electionVars, logVars, leaderVars, diskVars, serviceVars, panicked,
                   voteNet, snapNet, historyVars>>

LoseSnapshot ==
    /\ Lossy
    /\ \/ \E m \in snapReq : snapReq' = snapReq \ {m} /\ UNCHANGED snapRep
       \/ \E r \in snapRep : snapRep' = snapRep \ {r} /\ UNCHANGED snapReq
    /\ UNCHANGED <<electionVars, logVars, leaderVars, diskVars, serviceVars, panicked,
                   voteNet, appendNet, historyVars>>

-----------------------------------------------------------------------------
ElectionStep ==
    \/ \E i \in Server : startElection(i)
    \/ \E m \in voteReq : RequestVoteStale(m) \/ RequestVote(m)
    \/ \E r \in voteRep : VoteReplyStale(r) \/ VoteReplyNewer(r) \/ VoteReplyCount(r)

ReplicationStep ==
    \/ \E i \in Server : startAppend(i) \/ \E v \in Value : Start(i, v)
    \/ \E m \in appendReq :
          \/ AppendEntriesStale(m) \/ AppendEntriesOutOfRange(m)
          \/ AppendEntriesConflict(m) \/ AppendEntriesAccept(m)
    \/ \E r \in appendRep :
          \/ AppendReplyNewer(r) \/ AppendReplyStale(r)
          \/ AppendReplySuccess(r) \/ AppendReplyFailure(r)

SnapshotStep ==
    \/ \E i \in Server : Apply(i) \/ SaveSnapshot(i)
    \/ \E i \in Server : \E j \in Server \ {i} : startInstallSnapshot(i, j)
    \/ \E m \in snapReq : InstallSnapshotStale(m) \/ InstallSnapshot(m)
    \/ \E r \in snapRep : SnapReplyIgnored(r) \/ SnapReplyNewer(r) \/ SnapReplyAdvance(r)

FaultStep ==
    \/ \E i \in Server : Restart(i)
    \/ LoseVote \/ LoseAppend \/ LoseSnapshot

Next == ElectionStep \/ ReplicationStep \/ SnapshotStep \/ FaultStep

Spec == Init /\ [][Next]_vars

-----------------------------------------------------------------------------
(* Types.                                                                  *)

ItemType == [cmd : Value \cup {DummyNode}, term : Nat, index : Nat]

SnapshotType == [index : Nat, term : Nat] \cup {Nil}

DiskType == [term : Nat, voteFor : Server \cup {Nil}, log : Seq(ItemType)]

ApplyMsgType == [valid : BOOLEAN, item : ItemType]

VoteReqType == [src : Server, dst : Server, term : Nat, lastLogIndex : Nat,
                lastLogTerm : Nat, orphan : BOOLEAN]

VoteRepType == [src : Server, dst : Server, term : Nat, replyTerm : Nat, granted : BOOLEAN]

AppendReqType == [src : Server, dst : Server, slot : Nat, term : Nat, prevLogIndex : Nat,
                  prevLogTerm : Nat, entries : Seq(ItemType), leaderCommit : Nat,
                  orphan : BOOLEAN]

AppendRepType == [src : Server, dst : Server, slot : Nat, term : Nat, prevLogIndex : Nat,
                  sent : Nat, replyTerm : Nat, success : BOOLEAN]

SnapReqType == [src : Server, dst : Server, term : Nat, lastIncludedIndex : Nat,
                lastIncludedTerm : Nat, orphan : BOOLEAN]

SnapRepType == [src : Server, dst : Server, term : Nat, lastIncludedIndex : Nat,
                replyTerm : Nat]

BallotType == [voter : Server, term : Nat, cand : Server]

PeerTypes ==
    /\ state \in [Server -> {Follower, Candidate, Leader}]
    /\ currentTerm \in [Server -> Nat]
    /\ voteFor \in [Server -> Server \cup {Nil}]
    /\ voteCount \in [Server -> Nat]
    /\ commitIndex \in [Server -> Nat]
    /\ nextIndex \in [Server -> [Server -> Nat]]
    /\ matchIndex \in [Server -> [Server -> Nat]]
    /\ panicked \subseteq Server

LogTypes ==
    /\ log \in [Server -> Seq(ItemType)]
    /\ persisted \in [Server -> DiskType]

ServiceTypes ==
    /\ snapshot \in [Server -> SnapshotType]
    /\ applyCh \in [Server -> Seq(ApplyMsgType)]
    /\ applied \in [Server -> Nat]
    /\ saving \in [Server -> SnapshotType]

CallTypes ==
    /\ voteReq \subseteq VoteReqType
    /\ voteRep \subseteq VoteRepType
    /\ appendReq \subseteq AppendReqType
    /\ appendRep \subseteq AppendRepType
    /\ snapReq \subseteq SnapReqType
    /\ snapRep \subseteq SnapRepType

HistoryTypes ==
    /\ ballots \subseteq BallotType
    /\ elected \subseteq [term : Nat, leader : Server]
    /\ delivered \in [Server -> SUBSET ItemType]

\* Every variable holds values of the Go type of its field; an index or a term
\* that a subtraction (nextAfterFailure, prevLogIndex) made negative is not one.
TypeOK == PeerTypes /\ LogTypes /\ ServiceTypes /\ CallTypes /\ HistoryTypes

-----------------------------------------------------------------------------
(* Safety.                                                                 *)

\* A peer persists votes for at most one candidate of a term, through every
\* term change, reordered request and restart (RequestVote, startElection).
OneVotePerTerm ==
    \A b, c \in ballots : b.voter = c.voter /\ b.term = c.term => b.cand = c.cand

\* No term ever has two leaders, crashed ones included: the tester's "term %d
\* has %d (>1) leaders", over all time instead of one poll.
ElectionSafety ==
    \A e, f \in elected : e.term = f.term => e.leader = f.leader

\* What a restart would read back is what the peer holds whenever rf.mu is free.
PersistedIsCurrent ==
    \A i \in Server :
        persisted[i] = [term |-> currentTerm[i], voteFor |-> voteFor[i], log |-> log[i]]

\* The log of a live peer is an unbroken run of indexes whose terms never go
\* down and never exceed the peer's term, whatever was truncated, appended or
\* compacted; getLogItemAtIndex finds items by offset and relies on it.
LogShape ==
    \A i \in Server : Running(i) =>
        /\ log[i] # <<>>
        /\ \A k \in DOMAIN log[i] : log[i][k].index = log[i][1].index + k - 1
        /\ \A k \in 2..Len(log[i]) : log[i][k - 1].term <= log[i][k].term
        /\ log[i][Len(log[i])].term <= currentTerm[i]

\* Two entries with the same index and term hold the same command and follow
\* entries of the same term (AppendEntries' consistency check).
LogMatching ==
    \A i, j \in Server : \A x \in 2..Len(log[i]), y \in 2..Len(log[j]) :
        log[i][x].index = log[j][y].index /\ log[i][x].term = log[j][y].term =>
            /\ log[i][x].cmd = log[j][y].cmd
            /\ log[i][x - 1].term = log[j][y - 1].term

\* While a peer leads one term, no request and no reply removes or changes an
\* entry of its log; only SaveSnapshot drops entries, from the front.
LeaderAppendOnly ==
    [][\A i \in Server :
          state[i] = Leader /\ state'[i] = Leader /\ currentTerm'[i] = currentTerm[i] =>
              \A k \in DOMAIN log[i] :
                  log[i][k].index >= getDummyLogIndex(log'[i]) =>
                      /\ logContainIndex(log'[i], log[i][k].index)
                      /\ getLogItemAtIndex(log'[i], log[i][k].index) = log[i][k]]_vars

\* What a leader counts as replicated by AppendEntries lies in its own log, though
\* replies come late, twice for the same entries or in another order than they
\* were sent: the commit of findMatch never runs off the log.
MatchInLog ==
    \A i \in Server : state[i] = Leader /\ Running(i) =>
        \A j \in Server : matchIndex[i][j] <= getLastLogIndex(log[i])

\* When a peer acknowledges an AppendEntries of a leader still in office, it has
\* on disk, entry by entry, what the leader's log holds up to the last entry it
\* acknowledges, whichever calls overtook this one.
AcknowledgedIsHeld ==
    [][\A r \in appendRep' \ appendRep :
          r.success /\ state[r.src] = Leader /\ currentTerm[r.src] = r.term /\ Running(r.src) =>
              LET held == persisted'[r.dst].log
                  last == r.prevLogIndex + r.sent
              IN  /\ getLastLogIndex(held) >= last
                  /\ \A x \in 2..Len(log[r.src]), y \in 2..Len(held) :
                         log[r.src][x].index = held[y].index /\ held[y].index <= last
                             => log[r.src][x] = held[y]]_vars

\* A leader that commits an entry of its own term does so when a majority of the
\* peers hold it on disk: the tester's "%v committed but no majority".  It fails
\* of an even number of peers, and where calls of a pair overtake each other.
CommitNeedsMajority ==
    [][\A i \in Server :
          LET item == getLogItemAtIndex(log[i], commitIndex'[i])
              holders == {j \in Server : \E k \in DOMAIN persisted[j].log :
                                            persisted[j].log[k] = item}
          IN  (/\ state[i] = Leader /\ state'[i] = Leader
               /\ commitIndex'[i] > commitIndex[i]
               /\ item.term = currentTerm[i])
                  => 2 * Cardinality(holders) > Cardinality(Server)]_vars

\* No assertion of the code fails: "Index out of bound", "No snapshot is read",
\* and the accesses to an emptied log.
AssertionsHold == panicked = {}

\* No two peers ever hand different commands for one index to their services:
\* the tester's check on applyCh.
StateMachineSafety ==
    \A i, j \in Server : \A x \in delivered[i], y \in delivered[j] :
        x.index = y.index => x.cmd = y.cmd

\* A leader of the newest term has every entry that any peer ever handed to its
\* service: "the full set of servers should preserve previous agreements".
NewestLeaderHasCommitted ==
    \A l \in Server :
        state[l] = Leader /\ Running(l) /\ (\A i \in Server : currentTerm[i] <= currentTerm[l]) =>
            \A i \in Server : \A x \in delivered[i] :
                x.index > getDummyLogIndex(log[l]) =>
                    \E k \in DOMAIN log[l] : log[l][k] = x

\* The next command a service reads continues its state without a gap, after
\* restarts and installed snapshots too: "as each Raft peer becomes aware that
\* successive log entries are committed" it sends them.  It fails when a late
\* snapshot takes a peer back whose service is saving a later one.
ServiceInOrder ==
    \A i \in Server : applyCh[i] # <<>> /\ Head(applyCh[i]).valid =>
        Head(applyCh[i]).item.index <= applied[i] + 1

\* The snapshot and the raft state on disk fit each other: the log starts
\* exactly where the snapshot ends, so a restart neither skips nor repeats.
SnapshotHeadsLog ==
    \A i \in Server : Running(i) =>
        getDummyLogIndex(persisted[i].log) = IF snapshot[i] = Nil THEN 0 ELSE snapshot[i].index

\* A log starts at an entry that some peer committed in exactly that term, even
\* when a later leader passed it on: what was compacted can never be undone.
CompactedWasCommitted ==
    \A i \in Server : Running(i) /\ log[i][1].index > 0 =>
        \E j \in Server : \E x \in delivered[j] :
            x.index = log[i][1].index /\ x.term = log[i][1].term
=============================================================================
