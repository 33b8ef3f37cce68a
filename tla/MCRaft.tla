------------------------------- MODULE MCRaft -------------------------------
(* Raft with what TLC needs to check small instances. *)
EXTENDS RaftInv, TLC

CONSTANT FirstLeader   \* the leader of term 1 in the start states below, or Nil

\* The permutations of the peers that keep Crashable, MayTimeout and
\* FirstLeader, and of the commands.
Symmetry ==
    {p \in Permutations(Server) :
        /\ \A i \in Crashable : p[i] \in Crashable
        /\ \A i \in MayTimeout : p[i] \in MayTimeout
        /\ FirstLeader \in Server => p[FirstLeader] = FirstLeader}
    \cup Permutations(Value)

\* What every start state below has in common: a disk that agrees with the
\* memory, services that have read what was sent, no vote and no entry in flight.
Quiet ==
    /\ persisted = [i \in Server |->
           [term |-> currentTerm[i], voteFor |-> voteFor[i], log |-> log[i]]]
    /\ applyCh = [i \in Server |-> <<>>]
    /\ panicked = {}
    /\ voteReq = {} /\ voteRep = {}
    /\ appendReq = {} /\ appendRep = {}
    /\ snapRep = {}

\* No snapshot is being saved or sent.
NoSnapshotMoves == saving = [i \in Server |-> Nil] /\ snapReq = {}

NothingCommitted ==
    /\ commitIndex = [i \in Server |-> 0]
    /\ snapshot = [i \in Server |-> Nil]
    /\ applied = [i \in Server |-> 0]
    /\ delivered = [i \in Server |-> {}]
    /\ NoSnapshotMoves

\* Every peer voted for l in term 1 and all votes were counted.
LedElection(l) ==
    /\ state = [i \in Server |-> IF i = l THEN Leader ELSE Follower]
    /\ currentTerm = [i \in Server |-> 1]
    /\ voteFor = [i \in Server |-> l]
    /\ voteCount = [i \in Server |->
           IF i = l THEN Cardinality(Server) - getMajorityCount(Server) ELSE 0]
    /\ ballots = {[voter |-> i, term |-> 1, cand |-> l] : i \in Server}
    /\ elected = {[term |-> 1, leader |-> l]}

\* A reachable state: l leads term 1, no peer has an entry.
Led(l) ==
    /\ LedElection(l)
    /\ log = [i \in Server |-> freshLog]
    /\ nextIndex = [i \in Server |-> [j \in Server |-> IF i = l THEN 1 ELSE 0]]
    /\ matchIndex = [i \in Server |-> [j \in Server |-> 0]]
    /\ NothingCommitted
    /\ Quiet

LedSpec == Led(FirstLeader) /\ [][Next]_vars

\* A reachable state: l led term 1; q acknowledged the entry v, so l committed,
\* applied and compacted it; every other call to the other peers was lost; then
\* all peers elected l again, for term 2.
Compacted(l, q, v) ==
    LET item == LogItem(v, 1, 1)
    IN  /\ state = [i \in Server |-> IF i = l THEN Leader ELSE Follower]
        /\ currentTerm = [i \in Server |-> 2]
        /\ voteFor = [i \in Server |-> l]
        /\ voteCount = [i \in Server |->
               IF i = l THEN Cardinality(Server) - getMajorityCount(Server) ELSE 0]
        /\ ballots = {[voter |-> i, term |-> t, cand |-> l] : i \in Server, t \in 1..2}
        /\ elected = {[term |-> t, leader |-> l] : t \in 1..2}
        /\ log = [i \in Server |-> CASE i = l -> <<item>>
                                     [] i = q -> Append(freshLog, item)
                                     [] OTHER -> freshLog]
        /\ nextIndex = [i \in Server |-> [j \in Server |-> IF i = l THEN 2 ELSE 0]]
        /\ matchIndex = [i \in Server |-> [j \in Server |-> 0]]
        /\ commitIndex = [i \in Server |-> IF i = l THEN 1 ELSE 0]
        /\ snapshot = [i \in Server |-> IF i = l THEN [index |-> 1, term |-> 1] ELSE Nil]
        /\ applied = [i \in Server |-> IF i = l THEN 1 ELSE 0]
        /\ delivered = [i \in Server |-> IF i = l THEN {item} ELSE {}]
        /\ NoSnapshotMoves
        /\ Quiet

\* A reachable continuation of Compacted, with three peers: l sent its snapshot to
\* r, appended a second entry and sent it to q; the reply of q was lost.  As r has
\* no heartbeat from a leader that only sends it the snapshot again, its timer
\* fired; l or q, here x, won the next term with all votes.
LeftBehind(l, q, r, x, v) ==
    LET items == <<LogItem(v, 1, 1), LogItem(v, 2, 2)>>
        installed == [index |-> 1, term |-> 1]
    IN  /\ state = [i \in Server |-> IF i = x THEN Leader ELSE Follower]
        /\ currentTerm = [i \in Server |-> 4]
        /\ voteFor = [i \in Server |-> x]
        /\ voteCount = [i \in Server |->
               IF i = x THEN Cardinality(Server) - getMajorityCount(Server) ELSE 0]
        /\ ballots = {[voter |-> i, term |-> t, cand |-> l] : i \in Server, t \in 1..2}
                     \cup {[voter |-> r, term |-> 3, cand |-> r]}
                     \cup {[voter |-> i, term |-> 4, cand |-> x] : i \in Server}
        /\ elected = {[term |-> 1, leader |-> l], [term |-> 2, leader |-> l],
                      [term |-> 4, leader |-> x]}
        /\ log = [i \in Server |->
               CASE i = l -> items
                 [] i = q -> freshLog \o items
                 [] OTHER -> <<LogItem(DummyNode, 1, 1)>>]
        /\ nextIndex = [i \in Server |-> [j \in Server |->
               IF i = x THEN 3 ELSE IF i = l THEN IF j = r THEN 1 ELSE 2 ELSE 0]]
        /\ matchIndex = [i \in Server |-> [j \in Server |->
               IF i = l /\ j = l /\ x # l THEN 2 ELSE 0]]
        /\ commitIndex = [i \in Server |-> 1]
        /\ snapshot = [i \in Server |-> IF i = q THEN Nil ELSE installed]
        /\ applied = [i \in Server |-> 1]
        /\ delivered = [i \in Server |-> IF i = r THEN {} ELSE {items[1]}]
        /\ NoSnapshotMoves
        /\ Quiet

\* A reachable state of three peers: l leads term 1 and has v at 1 and 2; q holds
\* both and does not know that they are committed.  A request with both and the
\* commit was sent to r; then l's service saved the first, so that l began to send
\* that snapshot to r, too.  The entries arrived first: r applied both, its service
\* is about to save the second, and l has the reply.
SnapshotLate(l, q, r, v) ==
    LET items == <<LogItem(v, 1, 1), LogItem(v, 1, 2)>>
    IN  /\ LedElection(l)
        /\ log = [i \in Server |-> IF i = l THEN items ELSE freshLog \o items]
        /\ nextIndex = [i \in Server |->
               [j \in Server |-> IF i # l THEN 0 ELSE IF j = l THEN 1 ELSE 3]]
        /\ matchIndex = [i \in Server |-> [j \in Server |-> IF i = l THEN 2 ELSE 0]]
        /\ commitIndex = [i \in Server |-> IF i = q THEN 0 ELSE 2]
        /\ snapshot = [i \in Server |-> IF i = l THEN [index |-> 1, term |-> 1] ELSE Nil]
        /\ applied = commitIndex
        /\ delivered = [i \in Server |-> IF i = q THEN {} ELSE {items[1], items[2]}]
        /\ saving = [i \in Server |-> IF i = r THEN [index |-> 2, term |-> 1] ELSE Nil]
        /\ snapReq = {[src |-> l, dst |-> r, term |-> 1, lastIncludedIndex |-> 1,
                       lastIncludedTerm |-> 1, orphan |-> FALSE]}
        /\ Quiet

\* The next leader is one that has not compacted its log.
LeftBehindSpec ==
    /\ \E q \in MayTimeout \ {FirstLeader}, r \in Server, v \in Value :
           r \notin {FirstLeader, q} /\ LeftBehind(FirstLeader, q, r, q, v)
    /\ [][Next]_vars

\* A follower whose timer does not fire is behind a compacted leader.
CompactedInit ==
    \E q \in Server \ {FirstLeader}, v \in Value : Compacted(FirstLeader, q, v)

\* A follower whose timer does not fire gets a snapshot it is ahead of.
SnapshotLateInit ==
    \E q \in Server \ {FirstLeader}, r \in Server \ (MayTimeout \cup {FirstLeader}), v \in Value :
        q # r /\ SnapshotLate(FirstLeader, q, r, v)

CompactionSpec == (CompactedInit \/ SnapshotLateInit) /\ [][Next]_vars

SnapshotLateSpec == SnapshotLateInit /\ [][Next]_vars

\* A reachable state of three peers: p led term 1 with the votes of all and
\* appended v; q led term 2 with the vote of r and appended w; neither entry was
\* sent; then all three restarted.  The timer of p fired twice, r granted term 3
\* to p, the other calls were lost.
Reelected(p, q, r, v, w) ==
    /\ state = [i \in Server |-> IF i = p THEN Leader ELSE Follower]
    /\ currentTerm = [i \in Server |-> IF i = q THEN 2 ELSE 3]
    /\ voteFor = [i \in Server |-> IF i = q THEN q ELSE p]
    /\ voteCount = [i \in Server |-> 0]
    /\ log = [i \in Server |->
           CASE i = p -> Append(freshLog, LogItem(v, 1, 1))
             [] i = q -> Append(freshLog, LogItem(w, 2, 1))
             [] OTHER -> freshLog]
    /\ nextIndex = [i \in Server |-> [j \in Server |-> IF i = p THEN 2 ELSE 0]]
    /\ matchIndex = [i \in Server |-> [j \in Server |-> 0]]
    /\ ballots = {[voter |-> i, term |-> 1, cand |-> p] : i \in Server}
                 \cup {[voter |-> i, term |-> 2, cand |-> q] : i \in {q, r}}
                 \cup {[voter |-> p, term |-> 2, cand |-> p]}
                 \cup {[voter |-> i, term |-> 3, cand |-> p] : i \in {p, r}}
    /\ elected = {[term |-> 1, leader |-> p], [term |-> 2, leader |-> q],
                  [term |-> 3, leader |-> p]}
    /\ NothingCommitted
    /\ Quiet

ReelectedInit ==
    \E q \in MayTimeout \ {FirstLeader}, r \in Server, v, w \in Value :
        r \notin {FirstLeader, q} /\ v # w /\ Reelected(FirstLeader, q, r, v, w)

ReelectedSpec == ReelectedInit /\ [][Next]_vars

\* A leader that will be deposed, or one whose peers hold other entries than it.
ReplicationSpec == (Led(FirstLeader) \/ ReelectedInit) /\ [][Next]_vars

\* Bounds of that run: the AppendEntries calls on their way at a time.  With
\* three, two of them can be between the same peers.  A leader that will be
\* deposed gets one command.
FewCalls ==
    LET calls == Cardinality(appendReq) + Cardinality(appendRep)
    IN  IF \E e \in elected : e.term = 3
        THEN calls <= 3
        ELSE /\ calls <= 2
             /\ \A i \in Server : log[i] # <<>> => getLastLogIndex(log[i]) <= 1

\* A service reads its applyCh at once.  It loses no behaviour of the peers: with
\* Snapshots = FALSE no step but Apply reads applyCh.
PromptServices ==
    (\E i \in Server : applyCh[i] # <<>>) =>
        \E i \in Server : Len(applyCh'[i]) < Len(applyCh[i])

-----------------------------------------------------------------------------
(* Liveness, over a reliable network (Lossy = FALSE): "Call() is guaranteed to *)
(* return".  No timer has to fire, and none fires in the term MaxTerm.         *)

\* Each request from i to j is executed, and its reply is handed to the goroutine
\* that waits for it.
AppendsTo(i, j) ==
    \E m \in appendReq : /\ m.src = i /\ m.dst = j
                         /\ \/ AppendEntriesStale(m) \/ AppendEntriesOutOfRange(m)
                            \/ AppendEntriesConflict(m) \/ AppendEntriesAccept(m)

AppendRepliesFrom(i, j) ==
    \E r \in appendRep : /\ r.src = i /\ r.dst = j
                         /\ \/ AppendReplyNewer(r) \/ AppendReplyStale(r)
                            \/ AppendReplySuccess(r) \/ AppendReplyFailure(r)

\* The loops of a running peer keep running, and so does its service.
LoopFairness == \A i \in Server : WF_vars(startAppend(i)) /\ WF_vars(Apply(i))

NetworkFairness ==
    \A i \in Server : \A j \in Server \ {i} :
        WF_vars(AppendsTo(i, j)) /\ WF_vars(AppendRepliesFrom(i, j))

\* A leader whose peers hold other entries than it, or one that left a peer behind
\* with a snapshot in an earlier term.
AgreementInit ==
    \E q \in MayTimeout \ {FirstLeader}, r \in Server, v \in Value :
        /\ r \notin {FirstLeader, q}
        /\ \/ Reelected(FirstLeader, q, r, v, v)
           \/ LeftBehind(FirstLeader, q, r, FirstLeader, v)

AgreementSpec == AgreementInit /\ [][Next]_vars /\ LoopFairness /\ NetworkFairness

\* The log of j starts no later than the log of i and reaches it: what j needs
\* is in the log of i, which has not turned to sending it a snapshot.
SendsEntries(i, j) ==
    /\ getDummyLogIndex(log[j]) <= getDummyLogIndex(log[i])
    /\ getDummyLogIndex(log[i]) <= getLastLogIndex(log[j])
    /\ getDummyLogIndex(log[i]) <= getPreviousIndexForServer(i, j)

\* Once a leader that no timer deposes has an entry of its own term, that entry
\* and all before it reach the service of every peer, one that an earlier leader
\* had left behind with a snapshot included.
Agreement ==
    \A k \in 1..MaxIndex :
        (\E i \in Server :
            /\ state[i] = Leader /\ currentTerm[i] >= MaxTerm
            /\ mayCommit(i) /\ getLastLogIndex(log[i]) >= k
            /\ \A j \in Server \ {i} : SendsEntries(i, j))
        ~> \A j \in Server : applied[j] >= k
=============================================================================
