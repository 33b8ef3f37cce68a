---------------------------- MODULE RaftLogProof ----------------------------
(* The logs of Raft, for any number of servers: their terms, that a leader   *)
(* keeps its entries, Log Matching, and that log and snapshot fit together.  *)
EXTENDS RaftElectionProof

USE DEF Follower, Candidate, Leader

\* A peer keeps its role and its term, or moves to a later term and does not
\* lead it.
SameRole(j) == state'[j] = state[j] /\ currentTerm'[j] = currentTerm[j]

LaterTerm(j) == currentTerm'[j] > currentTerm[j] /\ state'[j] # Leader

\* A peer that observes a term.
LEMMA ObservedRole ==
    ASSUME TypeInv, NEW i \in Server, NEW t \in Nat,
           (t > currentTerm[i] /\ becomeFollower(i, t)) \/ UNCHANGED electionVars
    PROVE  \A j \in Server : (SameRole(j) /\ voteCount'[j] = voteCount[j]) \/ LaterTerm(j)
<1>1. /\ state \in [Server -> {Follower, Candidate, Leader}] /\ currentTerm \in [Server -> Nat]
      /\ voteCount \in [Server -> Nat]
  BY DEF TypeInv, TypeOK, PeerTypes
<1>2. CASE t > currentTerm[i] /\ becomeFollower(i, t)
  BY <1>1, <1>2 DEF becomeFollower, SameRole, LaterTerm
<1>3. CASE UNCHANGED electionVars
  BY <1>3 DEF electionVars, SameRole
<1> QED
  BY <1>2, <1>3

\* A restart changes nothing of a call but who waits for it.
LEMMA OrphanedFields ==
    ASSUME TypeInv, NEW i \in Server
    PROVE  /\ \A n \in orphaned(appendReq, i) : \E m \in appendReq :
                  /\ n.src = m.src /\ n.dst = m.dst /\ n.term = m.term
                  /\ n.prevLogIndex = m.prevLogIndex /\ n.prevLogTerm = m.prevLogTerm
                  /\ n.entries = m.entries
           /\ \A n \in orphaned(snapReq, i) : \E m \in snapReq :
                  /\ n.src = m.src /\ n.dst = m.dst /\ n.term = m.term
                  /\ n.lastIncludedTerm = m.lastIncludedTerm
           /\ \A n \in orphaned(voteReq, i) : \E m \in voteReq :
                  /\ n.src = m.src /\ n.term = m.term
                  /\ n.orphan = (m.orphan \/ m.src = i)
<1>1. ASSUME NEW n \in orphaned(appendReq, i)
      PROVE  \E m \in appendReq :
                  /\ n.src = m.src /\ n.dst = m.dst /\ n.term = m.term
                  /\ n.prevLogIndex = m.prevLogIndex /\ n.prevLogTerm = m.prevLogTerm
                  /\ n.entries = m.entries
  <2>1. PICK m \in appendReq : n = [m EXCEPT !.orphan = @ \/ m.src = i]
    BY DEF orphaned
  <2>2. m \in AppendReqType
    BY DEF TypeInv, TypeOK, CallTypes
  <2> QED
    BY <2>1, <2>2 DEF AppendReqType
<1>2. ASSUME NEW n \in orphaned(snapReq, i)
      PROVE  \E m \in snapReq :
                  /\ n.src = m.src /\ n.dst = m.dst /\ n.term = m.term
                  /\ n.lastIncludedTerm = m.lastIncludedTerm
  <2>1. PICK m \in snapReq : n = [m EXCEPT !.orphan = @ \/ m.src = i]
    BY DEF orphaned
  <2>2. m \in SnapReqType
    BY DEF TypeInv, TypeOK, CallTypes
  <2> QED
    BY <2>1, <2>2 DEF SnapReqType
<1>3. ASSUME NEW n \in orphaned(voteReq, i)
      PROVE  \E m \in voteReq : /\ n.src = m.src /\ n.term = m.term
                                /\ n.orphan = (m.orphan \/ m.src = i)
  <2>1. PICK m \in voteReq : n = [m EXCEPT !.orphan = @ \/ m.src = i]
    BY DEF orphaned
  <2>2. m \in VoteReqType
    BY DEF TypeInv, TypeOK, CallTypes
  <2> QED
    BY <2>1, <2>2 DEF VoteReqType
<1> QED
  BY <1>1, <1>2, <1>3

\* A restart reads back what the peer held.
LEMMA RestartKeeps ==
    ASSUME TypeInv, NEW i \in Server, Restart(i)
    PROVE  /\ log' = log /\ currentTerm' = currentTerm /\ snapshot' = snapshot
           /\ elected' = elected
           /\ state'[i] = Follower /\ voteCount'[i] = 0
           /\ \A j \in Server \ {i} : state'[j] = state[j] /\ voteCount'[j] = voteCount[j]
           /\ applyCh' = [applyCh EXCEPT ![i] = <<>>]
           /\ saving' = [saving EXCEPT ![i] = Nil]
           /\ appendReq' = orphaned(appendReq, i) /\ snapReq' = orphaned(snapReq, i)
           /\ voteReq' = orphaned(voteReq, i)
           /\ voteRep' = {r \in voteRep : r.src # i}
<1>1. persisted[i].term = currentTerm[i] /\ persisted[i].log = log[i]
  <2>1. persisted[i] = [term |-> currentTerm[i], voteFor |-> voteFor[i], log |-> log[i]]
    BY DEF TypeInv, PersistedIsCurrent
  <2> QED
    BY <2>1
<1>2. /\ state \in [Server -> {Follower, Candidate, Leader}] /\ currentTerm \in [Server -> Nat]
      /\ voteCount \in [Server -> Nat] /\ log \in [Server -> Seq(ItemType)]
  BY DEF TypeInv, TypeOK, PeerTypes, LogTypes
<1>3. log' = log /\ currentTerm' = currentTerm
  BY <1>1, <1>2 DEF Restart
<1>4. /\ state'[i] = Follower /\ voteCount'[i] = 0
      /\ \A j \in Server \ {i} : state'[j] = state[j] /\ voteCount'[j] = voteCount[j]
  BY <1>2 DEF Restart
<1> QED
  BY <1>3, <1>4 DEF Restart, diskVars, historyVars

-----------------------------------------------------------------------------
(* Who sends entries, and who can lead a term again.                       *)

\* Steps that elect nobody and depose nobody in its own term.
LEMMA LeaderSteady ==
    ASSUME TypeInv, TypeInv', LeaderInv, elected' = elected,
           \A m \in appendReq' \cup snapReq' :
               \/ \E n \in appendReq \cup snapReq : m.src = n.src /\ m.dst = n.dst /\ m.term = n.term
               \/ /\ m.src \in Server /\ m.src # m.dst
                  /\ state[m.src] = Leader /\ m.term = currentTerm[m.src],
           \A m \in voteReq' : m \in voteReq \/ m.term > currentTerm[m.src],
           \A r \in voteRep' : \/ r \in voteRep
                               \/ \E m \in voteReq : m.src = r.src /\ m.term = r.term /\ ~m.orphan,
           \A j \in Server :
               \/ LaterTerm(j)
               \/ /\ SameRole(j)
                  /\ \/ state[j] = Leader \/ voteCount'[j] = voteCount[j]
                     \/ \E r \in voteRep : r.src = j /\ r.term = currentTerm[j]
    PROVE  LeaderInv'
<1>1. \A j \in Server : currentTerm[j] \in Nat /\ currentTerm'[j] \in Nat
  BY DEF TypeInv, TypeOK, PeerTypes
<1>2. \A e \in elected : e.leader \in Server /\ e.term \in Nat
  BY DEF TypeInv, TypeOK, HistoryTypes
<1>3. SentByLeaders'
  <2>1. ASSUME NEW i \in Server, state'[i] = Leader
        PROVE  Leadership(i, currentTerm'[i]) \in elected'
    <3>1. state[i] = Leader /\ currentTerm'[i] = currentTerm[i]
      BY <2>1 DEF SameRole, LaterTerm
    <3> QED
      BY <3>1 DEF LeaderInv, SentByLeaders
  <2>2. ASSUME NEW m \in appendReq' \cup snapReq'
        PROVE  m.src # m.dst /\ Leadership(m.src, m.term) \in elected'
    BY DEF LeaderInv, SentByLeaders
  <2> QED
    BY <2>1, <2>2 DEF SentByLeaders
<1>4. DeposedForGood'
  <2> SUFFICES ASSUME NEW e \in elected
               PROVE  /\ e.term <= currentTerm'[e.leader]
                      /\ currentTerm'[e.leader] = e.term /\ state'[e.leader] # Leader =>
                             /\ voteCount'[e.leader] = 0
                             /\ ~\E r \in voteRep' : r.src = e.leader /\ r.term = e.term
                             /\ ~\E m \in voteReq' : m.src = e.leader /\ m.term = e.term /\ ~m.orphan
    BY DEF DeposedForGood
  <2>1. PICK l \in Server : l = e.leader
    BY <1>2
  <2>2. e.term <= currentTerm[l] /\ e.term \in Nat
    BY <1>2, <2>1 DEF LeaderInv, DeposedForGood
  <2>3. e.term <= currentTerm'[l]
    BY <1>1, <2>2 DEF SameRole, LaterTerm
  <2>4. ASSUME currentTerm'[l] = e.term, state'[l] # Leader
        PROVE  /\ voteCount'[l] = 0
               /\ ~\E r \in voteRep' : r.src = l /\ r.term = e.term
               /\ ~\E m \in voteReq' : m.src = l /\ m.term = e.term /\ ~m.orphan
    <3>1. ~LaterTerm(l)
      BY <1>1, <2>2, <2>4 DEF LaterTerm
    <3>2. state[l] # Leader /\ currentTerm[l] = e.term
      BY <2>4, <3>1 DEF SameRole
    <3>3. /\ voteCount[l] = 0
          /\ ~\E r \in voteRep : r.src = l /\ r.term = e.term
          /\ ~\E m \in voteReq : m.src = l /\ m.term = e.term /\ ~m.orphan
      BY <2>1, <3>2 DEF LeaderInv, DeposedForGood
    <3>4. voteCount'[l] = 0
      BY <3>1, <3>2, <3>3
    <3>5. ~\E m \in voteReq' : m.src = l /\ m.term = e.term /\ ~m.orphan
      BY <1>1, <2>2, <3>2, <3>3
    <3> QED
      BY <3>3, <3>4, <3>5
  <2> QED
    BY <2>1, <2>3, <2>4
<1> QED
  BY <1>3, <1>4 DEF LeaderInv

\* The steps of replication and of snapshots elect nobody; what they send comes
\* from a leader.
LEMMA ReplicationRoles ==
    ASSUME TypeInv, ReplicationStep
    PROVE  /\ elected' = elected /\ UNCHANGED voteNet
           /\ \A j \in Server : (SameRole(j) /\ voteCount'[j] = voteCount[j]) \/ LaterTerm(j)
           /\ snapReq' = snapReq
           /\ \A m \in appendReq' : m \in appendReq \/
                  /\ m.src \in Server /\ m.src # m.dst
                  /\ state[m.src] = Leader /\ m.term = currentTerm[m.src]
<1>1. ASSUME NEW i \in Server, startAppend(i)
      PROVE  /\ UNCHANGED <<electionVars, voteNet, elected, snapReq>>
             /\ \A m \in appendReq' : m \in appendReq \/
                  /\ m.src \in Server /\ m.src # m.dst
                  /\ state[m.src] = Leader /\ m.term = currentTerm[m.src]
  <2>1. UNCHANGED <<electionVars, voteNet, elected, snapReq>> /\ state[i] = Leader
    BY <1>1 DEF startAppend, historyVars, snapNet
  <2>2. ASSUME NEW m \in appendReq', m \notin appendReq
        PROVE  m.src = i /\ m.dst \in Server \ {i} /\ m.term = currentTerm[i]
    <3>1. PICK j \in Server \ {i} : \E s \in freeSlots(i, j) : m = AppendRequest(i, j, s)
      BY <1>1, <2>2, StartAppendCalls
    <3> QED
      BY <3>1 DEF AppendRequest
  <2> QED
    BY <2>1, <2>2
<1>2. ASSUME NEW i \in Server, NEW v \in Value, Start(i, v)
      PROVE  UNCHANGED <<electionVars, voteNet, elected, snapReq, appendReq>>
  BY <1>2 DEF Start, historyVars, snapNet, appendNet
<1>3. ASSUME NEW m \in appendReq,
             \/ AppendEntriesStale(m) \/ AppendEntriesOutOfRange(m)
             \/ AppendEntriesConflict(m) \/ AppendEntriesAccept(m)
      PROVE  /\ UNCHANGED <<voteNet, elected, snapReq>> /\ appendReq' \subseteq appendReq
             /\ \A j \in Server : (SameRole(j) /\ voteCount'[j] = voteCount[j]) \/ LaterTerm(j)
  <2>1. m.dst \in Server /\ m.term \in Nat
    BY DEF TypeInv, TypeOK, CallTypes, AppendReqType
  <2>2. (m.term > currentTerm[m.dst] /\ becomeFollower(m.dst, m.term)) \/ UNCHANGED electionVars
    BY <1>3 DEF AppendEntriesStale, AppendEntriesOutOfRange, AppendEntriesConflict,
           AppendEntriesAccept, observeTerm
  <2>3. UNCHANGED <<voteNet, elected, snapReq>> /\ appendReq' \subseteq appendReq
    BY <1>3 DEF AppendEntriesStale, AppendEntriesOutOfRange, AppendEntriesConflict,
           AppendEntriesAccept, historyVars, snapNet, appendReply
  <2> QED
    BY <2>1, <2>2, <2>3, ObservedRole
<1>4. ASSUME NEW r \in appendRep,
             \/ AppendReplyNewer(r) \/ AppendReplyStale(r)
             \/ AppendReplySuccess(r) \/ AppendReplyFailure(r)
      PROVE  /\ UNCHANGED <<voteNet, elected, snapReq, appendReq>>
             /\ \A j \in Server : (SameRole(j) /\ voteCount'[j] = voteCount[j]) \/ LaterTerm(j)
  <2>1. r.src \in Server /\ r.replyTerm \in Nat
    BY DEF TypeInv, TypeOK, CallTypes, AppendRepType
  <2>2. (r.replyTerm > currentTerm[r.src] /\ becomeFollower(r.src, r.replyTerm)) \/ UNCHANGED electionVars
    BY <1>4 DEF AppendReplyNewer, AppendReplyStale, AppendReplySuccess, AppendReplyFailure
  <2>3. UNCHANGED <<voteNet, elected, snapReq, appendReq>>
    BY <1>4 DEF AppendReplyNewer, AppendReplyStale, AppendReplySuccess, AppendReplyFailure,
           historyVars, snapNet
  <2> QED
    BY <2>1, <2>2, <2>3, ObservedRole
<1>5. UNCHANGED electionVars => \A j \in Server : SameRole(j) /\ voteCount'[j] = voteCount[j]
  BY DEF electionVars, SameRole
<1> QED
  BY <1>1, <1>2, <1>3, <1>4, <1>5 DEF ReplicationStep

LEMMA SnapshotRoles ==
    ASSUME TypeInv, SnapshotStep
    PROVE  /\ elected' = elected /\ UNCHANGED voteNet
           /\ \A j \in Server : (SameRole(j) /\ voteCount'[j] = voteCount[j]) \/ LaterTerm(j)
           /\ appendReq' = appendReq
           /\ \A m \in snapReq' : m \in snapReq \/
                  /\ m.src \in Server /\ m.src # m.dst
                  /\ state[m.src] = Leader /\ m.term = currentTerm[m.src]
<1>1. ASSUME NEW i \in Server, Apply(i) \/ SaveSnapshot(i)
      PROVE  UNCHANGED <<electionVars, voteNet, elected, snapReq, appendReq>>
  BY <1>1 DEF Apply, SaveSnapshot, historyVars, snapNet, appendNet
<1>2. ASSUME NEW i \in Server, NEW j \in Server \ {i}, startInstallSnapshot(i, j)
      PROVE  /\ UNCHANGED <<electionVars, voteNet, elected, appendReq>>
             /\ \A m \in snapReq' : m \in snapReq \/
                  /\ m.src \in Server /\ m.src # m.dst
                  /\ state[m.src] = Leader /\ m.term = currentTerm[m.src]
  <2>1. UNCHANGED <<electionVars, voteNet, elected, appendReq>> /\ state[i] = Leader
    BY <1>2 DEF startInstallSnapshot, historyVars, appendNet
  <2>2. \A m \in snapReq' : m \in snapReq \/ (m.src = i /\ m.dst = j /\ m.term = currentTerm[i])
    BY <1>2 DEF startInstallSnapshot
  <2> QED
    BY <2>1, <2>2
<1>3. ASSUME NEW m \in snapReq, InstallSnapshotStale(m) \/ InstallSnapshot(m)
      PROVE  /\ UNCHANGED <<voteNet, elected, appendReq>> /\ snapReq' \subseteq snapReq
             /\ \A j \in Server : (SameRole(j) /\ voteCount'[j] = voteCount[j]) \/ LaterTerm(j)
  <2>1. m.dst \in Server /\ m.term \in Nat
    BY DEF TypeInv, TypeOK, CallTypes, SnapReqType
  <2>2. (m.term > currentTerm[m.dst] /\ becomeFollower(m.dst, m.term)) \/ UNCHANGED electionVars
    BY <1>3 DEF InstallSnapshotStale, InstallSnapshot, observeTerm
  <2>3. UNCHANGED <<voteNet, elected, appendReq>> /\ snapReq' \subseteq snapReq
    BY <1>3 DEF InstallSnapshotStale, InstallSnapshot, historyVars, appendNet, snapReply
  <2> QED
    BY <2>1, <2>2, <2>3, ObservedRole
<1>4. ASSUME NEW r \in snapRep, SnapReplyIgnored(r) \/ SnapReplyNewer(r) \/ SnapReplyAdvance(r)
      PROVE  /\ UNCHANGED <<voteNet, elected, snapReq, appendReq>>
             /\ \A j \in Server : (SameRole(j) /\ voteCount'[j] = voteCount[j]) \/ LaterTerm(j)
  <2>1. r.src \in Server /\ r.replyTerm \in Nat
    BY DEF TypeInv, TypeOK, CallTypes, SnapRepType
  <2>2. (r.replyTerm > currentTerm[r.src] /\ becomeFollower(r.src, r.replyTerm)) \/ UNCHANGED electionVars
    BY <1>4 DEF SnapReplyIgnored, SnapReplyNewer, SnapReplyAdvance
  <2>3. UNCHANGED <<voteNet, elected, snapReq, appendReq>>
    BY <1>4 DEF SnapReplyIgnored, SnapReplyNewer, SnapReplyAdvance, historyVars, appendNet
  <2> QED
    BY <2>1, <2>2, <2>3, ObservedRole
<1>5. UNCHANGED electionVars => \A j \in Server : SameRole(j) /\ voteCount'[j] = voteCount[j]
  BY DEF electionVars, SameRole
<1> QED
  BY <1>1, <1>2, <1>3, <1>4, <1>5 DEF SnapshotStep

\* The reply r makes its receiver a leader.
Wins(r) ==
    /\ state[r.src] # Leader
    /\ voteCount[r.src] + (IF r.granted THEN 1 ELSE 0) >= getMajorityCount(Server)

\* The steps of an election that make no leader send no entries.
LEMMA ElectionRoles ==
    ASSUME TypeInv, ElectionInv, ElectionStep,
           ~\E r \in voteRep : VoteReplyCount(r) /\ Wins(r)
    PROVE  /\ elected' = elected /\ UNCHANGED <<appendReq, snapReq>>
           /\ \A m \in voteReq' : m \in voteReq \/ m.term > currentTerm[m.src]
           /\ \A r \in voteRep' : \/ r \in voteRep
                                  \/ \E m \in voteReq : m.src = r.src /\ m.term = r.term /\ ~m.orphan
           /\ \A j \in Server :
                  \/ LaterTerm(j)
                  \/ /\ SameRole(j)
                     /\ \/ state[j] = Leader \/ voteCount'[j] = voteCount[j]
                        \/ \E r \in voteRep : r.src = j /\ r.term = currentTerm[j]
<1>0. /\ state \in [Server -> {Follower, Candidate, Leader}] /\ currentTerm \in [Server -> Nat]
      /\ voteCount \in [Server -> Nat]
  BY DEF TypeInv, TypeOK, PeerTypes
<1>1. ASSUME NEW i \in Server, startElection(i)
      PROVE  /\ UNCHANGED <<elected, appendReq, snapReq, voteRep>>
             /\ \A m \in voteReq' : m \in voteReq \/ m.term > currentTerm[m.src]
             /\ \A j \in Server : (SameRole(j) /\ voteCount'[j] = voteCount[j]) \/ LaterTerm(j)
  <2>1. \A m \in voteReq' : m \in voteReq \/ m.term > currentTerm[m.src]
    BY <1>0, <1>1 DEF startElection, VoteRequest
  <2>2. \A j \in Server : (SameRole(j) /\ voteCount'[j] = voteCount[j]) \/ LaterTerm(j)
    BY <1>0, <1>1 DEF startElection, becomeCandidate, SameRole, LaterTerm
  <2> QED
    BY <1>1, <2>1, <2>2 DEF startElection, appendNet, snapNet
<1>2. ASSUME NEW m \in voteReq, RequestVoteStale(m) \/ RequestVote(m)
      PROVE  /\ UNCHANGED <<elected, appendReq, snapReq>> /\ voteReq' \subseteq voteReq
             /\ \A r \in voteRep' : \/ r \in voteRep
                                    \/ \E n \in voteReq : n.src = r.src /\ n.term = r.term /\ ~n.orphan
             /\ \A j \in Server : (SameRole(j) /\ voteCount'[j] = voteCount[j]) \/ LaterTerm(j)
  <2>1. m.dst \in Server /\ m.term \in Nat
    BY DEF TypeInv, TypeOK, CallTypes, VoteReqType
  <2>2. \E t, g : voteReply(m, t, g)
    BY <1>2 DEF RequestVoteStale, RequestVote
  <2>3. /\ voteReq' \subseteq voteReq
        /\ \A r \in voteRep' : \/ r \in voteRep
                               \/ r.src = m.src /\ r.term = m.term /\ ~m.orphan
    BY <2>2 DEF voteReply
  <2>4. \A j \in Server : (SameRole(j) /\ voteCount'[j] = voteCount[j]) \/ LaterTerm(j)
    <3>1. CASE RequestVoteStale(m)
      BY <3>1 DEF RequestVoteStale, electionVars, SameRole
    <3>2. CASE RequestVote(m)
      <4>1. PICK i \in Server : i = m.dst
        BY <2>1
      <4>2. /\ m.term >= currentTerm[i]
            /\ state' = IF m.term > currentTerm[i] THEN [state EXCEPT ![i] = Follower] ELSE state
            /\ currentTerm' = [currentTerm EXCEPT ![i] = m.term]
            /\ voteCount' = IF m.term > currentTerm[i] THEN [voteCount EXCEPT ![i] = 0] ELSE voteCount
        BY <3>2, <4>1 DEF RequestVote, upToDate
      <4>3. CASE m.term > currentTerm[i]
        BY <1>0, <4>2, <4>3 DEF SameRole, LaterTerm
      <4>4. CASE m.term = currentTerm[i]
        BY <1>0, <4>2, <4>4 DEF SameRole
      <4> QED
        BY <1>0, <2>1, <4>2, <4>3, <4>4
    <3> QED
      BY <1>2, <3>1, <3>2
  <2>5. UNCHANGED <<elected, appendReq, snapReq>>
    BY <1>2 DEF RequestVoteStale, RequestVote, historyVars, appendNet, snapNet
  <2> QED
    BY <2>3, <2>4, <2>5
<1>3. ASSUME NEW r \in voteRep, VoteReplyStale(r) \/ VoteReplyNewer(r)
      PROVE  /\ UNCHANGED <<elected, appendReq, snapReq, voteReq>> /\ voteRep' \subseteq voteRep
             /\ \A j \in Server : (SameRole(j) /\ voteCount'[j] = voteCount[j]) \/ LaterTerm(j)
  <2>1. r.src \in Server /\ r.replyTerm \in Nat
    BY DEF TypeInv, TypeOK, CallTypes, VoteRepType
  <2>2. (r.replyTerm > currentTerm[r.src] /\ becomeFollower(r.src, r.replyTerm)) \/ UNCHANGED electionVars
    BY <1>3 DEF VoteReplyStale, VoteReplyNewer
  <2>3. UNCHANGED <<elected, appendReq, snapReq, voteReq>> /\ voteRep' \subseteq voteRep
    BY <1>3 DEF VoteReplyStale, VoteReplyNewer, historyVars, appendNet, snapNet
  <2> QED
    BY <2>1, <2>2, <2>3, ObservedRole
<1>4. ASSUME NEW r \in voteRep, VoteReplyCount(r)
      PROVE  /\ UNCHANGED <<elected, appendReq, snapReq, voteReq>> /\ voteRep' \subseteq voteRep
             /\ \A j \in Server : /\ SameRole(j)
                                  /\ \/ state[j] = Leader \/ voteCount'[j] = voteCount[j]
                                     \/ \E q \in voteRep : q.src = j /\ q.term = currentTerm[j]
  <2>1. PICK i \in Server : i = r.src
    BY DEF TypeInv, TypeOK, CallTypes, VoteRepType
  <2>2. PICK count : count = voteCount[i] + (IF r.granted THEN 1 ELSE 0)
    OBVIOUS
  <2>3. ~(state[i] # Leader /\ count >= getMajorityCount(Server))
    BY <1>4, <2>1, <2>2 DEF Wins
  <2>4. /\ voteCount' = [voteCount EXCEPT ![i] = count]
        /\ UNCHANGED <<state, currentTerm, elected, appendReq, snapReq, voteReq>>
        /\ voteRep' \subseteq voteRep /\ r.replyTerm = currentTerm[i]
    BY <1>4, <2>1, <2>2, <2>3 DEF VoteReplyCount, appendNet, snapNet
  <2>5. ~r.granted => voteCount' = voteCount
    BY <1>0, <2>1, <2>2, <2>4
  <2>6. r.granted => r.term = currentTerm[i]
    BY <2>4 DEF ElectionInv, RepliesTruthful
  <2> QED
    BY <1>0, <2>1, <2>4, <2>5, <2>6 DEF SameRole
<1> QED
  BY <1>1, <1>2, <1>3, <1>4 DEF ElectionStep

\* The reply that makes a leader changes no log and sends nothing.
LEMMA WinStep ==
    ASSUME TypeInv, NEW r \in voteRep, VoteReplyCount(r), Wins(r), NEW i, i = r.src
    PROVE  /\ i \in Server /\ state'[i] = Leader /\ currentTerm' = currentTerm
           /\ \A j \in Server \ {i} : state'[j] = state[j] /\ voteCount'[j] = voteCount[j]
           /\ elected' = elected \cup {Leadership(i, currentTerm[i])}
           /\ UNCHANGED <<log, snapshot, applyCh, saving, appendReq, snapReq, voteReq>>
           /\ voteRep' \subseteq voteRep
<1>1. /\ state \in [Server -> {Follower, Candidate, Leader}] /\ voteCount \in [Server -> Nat]
  BY DEF TypeInv, TypeOK, PeerTypes
<1>2. i \in Server
  BY DEF TypeInv, TypeOK, CallTypes, VoteRepType
<1>3. becomeLeader(i) /\ voteRep' \subseteq voteRep /\ currentTerm' = currentTerm
      /\ UNCHANGED <<log, snapshot, applyCh, saving, appendReq, snapReq, voteReq>>
  BY DEF VoteReplyCount, Wins, serviceVars, appendNet, snapNet
<1> QED
  BY <1>1, <1>2, <1>3 DEF becomeLeader, Leadership

\* No peer wins a term twice: after a crash it has no vote of that term left.
LEMMA FirstWin ==
    ASSUME TypeInv, ElectionInv, LeaderInv, NEW r \in voteRep, VoteReplyCount(r), Wins(r),
           NEW i, i = r.src
    PROVE  Leadership(i, currentTerm[i]) \notin elected
<1> SUFFICES ASSUME Leadership(i, currentTerm[i]) \in elected PROVE FALSE
  OBVIOUS
<1>1. PICK e \in elected : e.term = currentTerm[i] /\ e.leader = i
  BY DEF Leadership
<1>2. /\ voteCount[i] = 0
      /\ ~\E q \in voteRep : q.src = i /\ q.term = currentTerm[i]
  BY <1>1 DEF LeaderInv, DeposedForGood, Wins
<1>3. ~r.granted
  BY <1>2 DEF ElectionInv, RepliesTruthful, VoteReplyCount
<1>4. getMajorityCount(Server) >= 1 /\ getMajorityCount(Server) \in Nat
  BY ServerAssumption, FS_CardinalityType DEF getMajorityCount
<1> QED
  BY <1>2, <1>3, <1>4 DEF Wins

\* The peer that wins leads its term.
LEMMA LeaderWins ==
    ASSUME TypeInv, TypeInv', ElectionInv, LeaderInv, NEW r \in voteRep, VoteReplyCount(r), Wins(r)
    PROVE  LeaderInv'
<1>1. PICK i : i = r.src
  OBVIOUS
<1>2. /\ i \in Server /\ state'[i] = Leader /\ currentTerm' = currentTerm
      /\ \A j \in Server \ {i} : state'[j] = state[j] /\ voteCount'[j] = voteCount[j]
      /\ elected' = elected \cup {Leadership(i, currentTerm[i])}
      /\ UNCHANGED <<appendReq, snapReq, voteReq>>
      /\ voteRep' \subseteq voteRep
  BY <1>1, WinStep
<1>3. SentByLeaders'
  BY <1>2 DEF LeaderInv, SentByLeaders
<1>4. ASSUME NEW e \in elected'
      PROVE  /\ e.term <= currentTerm'[e.leader]
             /\ currentTerm'[e.leader] = e.term /\ state'[e.leader] # Leader =>
                    /\ voteCount'[e.leader] = 0
                    /\ ~\E q \in voteRep' : q.src = e.leader /\ q.term = e.term
                    /\ ~\E m \in voteReq' : m.src = e.leader /\ m.term = e.term /\ ~m.orphan
  <2>1. CASE e = Leadership(i, currentTerm[i])
    <3>1. e.leader = i /\ e.term = currentTerm[i] /\ currentTerm[i] \in Nat
      BY <1>2, <2>1 DEF Leadership, TypeInv, TypeOK, PeerTypes
    <3> QED
      BY <1>2, <3>1
  <2>2. CASE e \in elected
    <3>1. e.leader \in Server
      BY <2>2 DEF TypeInv, TypeOK, HistoryTypes
    <3> QED
      BY <1>2, <2>2, <3>1 DEF LeaderInv, DeposedForGood
  <2> QED
    BY <1>2, <2>1, <2>2
<1> QED
  BY <1>3, <1>4 DEF LeaderInv, DeposedForGood

\* A leader that restarts has lost its office and every vote of that term.
LEMMA LeaderRestart ==
    ASSUME TypeInv, TypeInv', LeaderInv, NEW i \in Server, Restart(i)
    PROVE  LeaderInv'
<1>1. /\ currentTerm' = currentTerm /\ elected' = elected
      /\ state'[i] = Follower /\ voteCount'[i] = 0
      /\ \A j \in Server \ {i} : state'[j] = state[j] /\ voteCount'[j] = voteCount[j]
      /\ appendReq' = orphaned(appendReq, i) /\ snapReq' = orphaned(snapReq, i)
      /\ voteReq' = orphaned(voteReq, i)
      /\ voteRep' = {r \in voteRep : r.src # i}
  BY RestartKeeps
<1>2. /\ \A n \in appendReq' \cup snapReq' : \E m \in appendReq \cup snapReq :
             n.src = m.src /\ n.dst = m.dst /\ n.term = m.term
      /\ \A n \in voteReq' : \E m \in voteReq :
             n.src = m.src /\ n.term = m.term /\ n.orphan = (m.orphan \/ m.src = i)
  BY <1>1, OrphanedFields
<1>3. SentByLeaders'
  <2>1. \A j \in Server : state'[j] = Leader => state[j] = Leader
    BY <1>1
  <2> QED
    BY <1>1, <1>2, <2>1 DEF LeaderInv, SentByLeaders
<1>4. DeposedForGood'
  <2> SUFFICES ASSUME NEW e \in elected
               PROVE  /\ e.term <= currentTerm[e.leader]
                      /\ currentTerm[e.leader] = e.term /\ state'[e.leader] # Leader =>
                             /\ voteCount'[e.leader] = 0
                             /\ ~\E r \in voteRep' : r.src = e.leader /\ r.term = e.term
                             /\ ~\E m \in voteReq' : m.src = e.leader /\ m.term = e.term /\ ~m.orphan
    BY <1>1 DEF DeposedForGood
  <2>1. e.term <= currentTerm[e.leader] /\ e.leader \in Server
    BY DEF LeaderInv, DeposedForGood, TypeInv, TypeOK, HistoryTypes
  <2>2. CASE e.leader = i
    BY <1>1, <1>2, <2>1, <2>2
  <2>3. CASE e.leader # i
    <3>1. state'[e.leader] = state[e.leader] /\ voteCount'[e.leader] = voteCount[e.leader]
      BY <1>1, <2>1, <2>3
    <3>2. currentTerm[e.leader] = e.term /\ state[e.leader] # Leader =>
              /\ voteCount[e.leader] = 0
              /\ ~\E r \in voteRep : r.src = e.leader /\ r.term = e.term
              /\ ~\E m \in voteReq : m.src = e.leader /\ m.term = e.term /\ ~m.orphan
      BY DEF LeaderInv, DeposedForGood
    <3>3. ~(\E r \in voteRep : r.src = e.leader /\ r.term = e.term) =>
              ~\E r \in voteRep' : r.src = e.leader /\ r.term = e.term
      BY <1>1
    <3>4. ~(\E m \in voteReq : m.src = e.leader /\ m.term = e.term /\ ~m.orphan) =>
              ~\E m \in voteReq' : m.src = e.leader /\ m.term = e.term /\ ~m.orphan
      <4> SUFFICES ASSUME NEW n \in voteReq', n.src = e.leader, n.term = e.term, ~n.orphan
                   PROVE  \E m \in voteReq : m.src = e.leader /\ m.term = e.term /\ ~m.orphan
        OBVIOUS
      <4>1. PICK m \in voteReq : n.src = m.src /\ n.term = m.term /\ n.orphan = (m.orphan \/ m.src = i)
        BY <1>2
      <4> QED
        BY <4>1, Zenon
    <3> QED
      BY <2>1, <3>1, <3>2, <3>3, <3>4
  <2> QED
    BY <2>2, <2>3
<1> QED
  BY <1>3, <1>4 DEF LeaderInv

\* No step makes two leaders of a term, or one of them twice.
LEMMA LeaderNext ==
    ASSUME TypeInv, TypeInv', ElectionInv, LeaderInv, [Next]_vars
    PROVE  LeaderInv'
<1>1. CASE ElectionStep /\ ~\E r \in voteRep : VoteReplyCount(r) /\ Wins(r)
  BY <1>1, ElectionRoles, LeaderSteady
<1>2. CASE \E r \in voteRep : VoteReplyCount(r) /\ Wins(r)
  BY <1>2, LeaderWins
<1>3. CASE ReplicationStep
  BY <1>3, ReplicationRoles, LeaderSteady DEF voteNet
<1>4. CASE SnapshotStep
  BY <1>4, SnapshotRoles, LeaderSteady DEF voteNet
<1>5. CASE LoseVote \/ LoseAppend \/ LoseSnapshot
  <2>1. /\ voteReq' \subseteq voteReq /\ voteRep' \subseteq voteRep
        /\ appendReq' \subseteq appendReq /\ snapReq' \subseteq snapReq
        /\ UNCHANGED <<electionVars, elected>>
    BY <1>5 DEF LoseVote, LoseAppend, LoseSnapshot, voteNet, appendNet, snapNet, historyVars
  <2> QED
    BY <2>1, LeaderSteady DEF electionVars, SameRole
<1>6. CASE \E i \in Server : Restart(i)
  BY <1>6, LeaderRestart
<1>7. CASE UNCHANGED vars
  BY <1>7, LeaderSteady DEF vars, electionVars, voteNet, appendNet, snapNet, historyVars, SameRole
<1> QED
  BY <1>1, <1>2, <1>3, <1>4, <1>5, <1>6, <1>7 DEF Next, FaultStep

-----------------------------------------------------------------------------
(* What a step does to the logs and to what is made from them.             *)

\* The steps that touch no log, no snapshot and no message to the service.
QuietLogs ==
    /\ UNCHANGED <<log, snapshot, applyCh, saving>>
    /\ appendReq' \subseteq appendReq /\ snapReq' \subseteq snapReq

LEMMA StepCases ==
    ASSUME [Next]_vars
    PROVE  \/ QuietLogs
           \/ \E i \in Server : \/ startAppend(i) \/ \E v \in Value : Start(i, v)
                                \/ Apply(i) \/ SaveSnapshot(i) \/ Restart(i)
                                \/ \E j \in Server \ {i} : startInstallSnapshot(i, j)
           \/ \E m \in appendReq : AppendEntriesConflict(m) \/ AppendEntriesAccept(m)
           \/ \E r \in appendRep : AppendReplySuccess(r)
           \/ \E m \in snapReq : InstallSnapshot(m)
<1> USE DEF QuietLogs, serviceVars, logVars, diskVars, appendNet, snapNet
<1>1. CASE ElectionStep
  <2>1. ASSUME NEW i \in Server, startElection(i) PROVE QuietLogs
    BY <2>1 DEF startElection
  <2>2. ASSUME NEW m \in voteReq, RequestVoteStale(m) \/ RequestVote(m) PROVE QuietLogs
    BY <2>2 DEF RequestVoteStale, RequestVote
  <2>3. ASSUME NEW r \in voteRep, VoteReplyStale(r) \/ VoteReplyNewer(r) \/ VoteReplyCount(r)
        PROVE  QuietLogs
    BY <2>3 DEF VoteReplyStale, VoteReplyNewer, VoteReplyCount
  <2> QED
    BY <1>1, <2>1, <2>2, <2>3 DEF ElectionStep
<1>2. CASE ReplicationStep
  <2>1. ASSUME NEW m \in appendReq, AppendEntriesStale(m) \/ AppendEntriesOutOfRange(m)
        PROVE  QuietLogs
    BY <2>1 DEF AppendEntriesStale, AppendEntriesOutOfRange, appendReply
  <2>2. ASSUME NEW r \in appendRep, AppendReplyNewer(r) \/ AppendReplyStale(r) \/ AppendReplyFailure(r)
        PROVE  QuietLogs
    BY <2>2 DEF AppendReplyNewer, AppendReplyStale, AppendReplyFailure
  <2> QED
    BY <1>2, <2>1, <2>2 DEF ReplicationStep
<1>3. CASE SnapshotStep
  <2>1. ASSUME NEW m \in snapReq, InstallSnapshotStale(m) PROVE QuietLogs
    BY <2>1 DEF InstallSnapshotStale, snapReply
  <2>2. ASSUME NEW r \in snapRep, SnapReplyIgnored(r) \/ SnapReplyNewer(r) \/ SnapReplyAdvance(r)
        PROVE  QuietLogs
    BY <2>2 DEF SnapReplyIgnored, SnapReplyNewer, SnapReplyAdvance
  <2> QED
    BY <1>3, <2>1, <2>2 DEF SnapshotStep
<1>4. CASE LoseVote \/ LoseAppend \/ LoseSnapshot
  BY <1>4 DEF LoseVote, LoseAppend, LoseSnapshot
<1>5. CASE UNCHANGED vars
  BY <1>5 DEF vars
<1> QED
  BY <1>1, <1>2, <1>3, <1>4, <1>5 DEF Next, FaultStep

\* A peer keeps its role and its term, or goes to a later term, or loses its
\* role in a crash, or wins an election.
LEMMA Roles ==
    ASSUME TypeInv, TypeInv', ElectionInv, [Next]_vars
    PROVE  /\ elected \subseteq elected'
           /\ \A j \in Server : \/ SameRole(j) \/ LaterTerm(j)
                                \/ currentTerm'[j] = currentTerm[j] /\ state'[j] = Follower
                                \/ \E r \in voteRep : VoteReplyCount(r) /\ Wins(r)
           /\ \A j \in Server : currentTerm[j] <= currentTerm'[j]
<1>0. \A j \in Server : currentTerm[j] \in Nat /\ currentTerm'[j] \in Nat
  BY DEF TypeInv, TypeOK, PeerTypes
<1>1. CASE ElectionStep /\ ~\E r \in voteRep : VoteReplyCount(r) /\ Wins(r)
  BY <1>0, <1>1, ElectionRoles DEF SameRole, LaterTerm
<1>2. CASE \E r \in voteRep : VoteReplyCount(r) /\ Wins(r)
  <2>1. PICK r \in voteRep : VoteReplyCount(r) /\ Wins(r)
    BY <1>2
  <2>2. PICK i : i = r.src
    OBVIOUS
  <2>3. currentTerm' = currentTerm /\ elected' = elected \cup {Leadership(i, currentTerm[i])}
    BY <2>1, <2>2, WinStep
  <2> QED
    BY <1>0, <2>1, <2>3
<1>3. CASE ReplicationStep
  BY <1>0, <1>3, ReplicationRoles DEF SameRole, LaterTerm
<1>4. CASE SnapshotStep
  BY <1>0, <1>4, SnapshotRoles DEF SameRole, LaterTerm
<1>5. CASE (LoseVote \/ LoseAppend \/ LoseSnapshot) \/ UNCHANGED vars
  <2>1. UNCHANGED <<electionVars, elected>>
    BY <1>5 DEF LoseVote, LoseAppend, LoseSnapshot, historyVars, vars
  <2> QED
    BY <1>0, <2>1 DEF electionVars, SameRole
<1>6. CASE \E i \in Server : Restart(i)
  <2>1. PICK i \in Server : Restart(i)
    BY <1>6
  <2>2. /\ currentTerm' = currentTerm /\ elected' = elected
        /\ state'[i] = Follower /\ \A j \in Server \ {i} : state'[j] = state[j]
    BY <2>1, RestartKeeps
  <2> QED
    BY <1>0, <2>2 DEF SameRole
<1> QED
  BY <1>1, <1>2, <1>3, <1>4, <1>5, <1>6 DEF Next, FaultStep

\* The bounds hold again when every entry and snapshot was there before, or is
\* of no later term than its peer or its request.
LEMMA TermsKept ==
    ASSUME TypeInv, TypeInv', TermsBounded,
           \A i \in Server : currentTerm[i] <= currentTerm'[i],
           \A i \in Server : \A k \in DOMAIN log'[i] :
               (\E n \in DOMAIN log[i] : log'[i][k] = log[i][n]) \/ log'[i][k].term <= currentTerm'[i],
           \A i \in Server : \A k \in DOMAIN applyCh'[i] :
               \/ \E n \in DOMAIN applyCh[i] : applyCh'[i][k] = applyCh[i][n]
               \/ \E n \in DOMAIN log'[i] : applyCh'[i][k].item = log'[i][n],
           \A i \in Server : \/ saving'[i] \in {Nil, saving[i]}
                             \/ \E n \in DOMAIN applyCh[i] : saving'[i].term = applyCh[i][n].item.term,
           \A i \in Server : snapshot'[i] \in {snapshot[i], saving[i]} \/ snapshot'[i].term <= currentTerm'[i],
           \A m \in appendReq' : \/ \E n \in appendReq : m.term = n.term /\ m.entries = n.entries
                                 \/ \A k \in DOMAIN m.entries : m.entries[k].term <= m.term,
           \A m \in snapReq' : \/ \E n \in snapReq : m.term = n.term /\ m.lastIncludedTerm = n.lastIncludedTerm
                               \/ m.lastIncludedTerm <= m.term
    PROVE  TermsBounded'
<1>1. \A i \in Server : currentTerm[i] \in Nat /\ currentTerm'[i] \in Nat
  BY DEF TypeInv, TypeOK, PeerTypes
<1>2. ASSUME NEW i \in Server, NEW k \in DOMAIN log'[i]
      PROVE  log'[i][k].term <= currentTerm'[i]
  <2>1. CASE \E n \in DOMAIN log[i] : log'[i][k] = log[i][n]
    <3>1. PICK n \in DOMAIN log[i] : log'[i][k] = log[i][n]
      BY <2>1
    <3>2. log[i][n].term <= currentTerm[i] /\ log[i][n].term \in Nat
      <4>1. log[i] \in Seq(ItemType)
        BY DEF TypeInv, TypeOK, LogTypes
      <4>2. log[i][n] \in ItemType
        BY <3>1, <4>1
      <4> QED
        BY <4>2 DEF TermsBounded, ItemType
    <3> QED
      BY <1>1, <3>1, <3>2
  <2> QED
    BY <2>1
<1>3. ASSUME NEW i \in Server, NEW n \in DOMAIN applyCh[i]
      PROVE  applyCh[i][n].item.term <= currentTerm'[i]
  <2>1. applyCh[i] \in Seq(ApplyMsgType)
    BY DEF TypeInv, TypeOK, ServiceTypes
  <2>2. applyCh[i][n].item.term \in Nat
    <3>1. applyCh[i][n] \in ApplyMsgType
      BY <2>1
    <3> QED
      BY <3>1 DEF ApplyMsgType, ItemType
  <2>3. applyCh[i][n].item.term <= currentTerm[i]
    BY DEF TermsBounded
  <2> QED
    BY <1>1, <2>2, <2>3
<1>4. ASSUME NEW i \in Server, NEW k \in DOMAIN applyCh'[i]
      PROVE  applyCh'[i][k].item.term <= currentTerm'[i]
  BY <1>2, <1>3
<1>5. ASSUME NEW i \in Server, NEW s, s \in {saving[i], snapshot[i]}, s # Nil
      PROVE  s.term <= currentTerm'[i]
  <2>1. s \in SnapshotType
    BY <1>5 DEF TypeInv, TypeOK, ServiceTypes
  <2>2. s.term \in Nat
    BY <1>5, <2>1 DEF SnapshotType
  <2>3. s.term <= currentTerm[i]
    BY <1>5 DEF TermsBounded
  <2> QED
    BY <1>1, <2>2, <2>3
<1>6. ASSUME NEW i \in Server
      PROVE  /\ saving'[i] # Nil => saving'[i].term <= currentTerm'[i]
             /\ snapshot'[i] # Nil => snapshot'[i].term <= currentTerm'[i]
  BY <1>3, <1>5
<1>7. ASSUME NEW m \in appendReq', NEW k \in DOMAIN m.entries
      PROVE  m.entries[k].term <= m.term
  BY DEF TermsBounded
<1>8. ASSUME NEW m \in snapReq'
      PROVE  m.lastIncludedTerm <= m.term
  BY DEF TermsBounded
<1> QED
  BY <1>2, <1>4, <1>6, <1>7, <1>8 DEF TermsBounded

-----------------------------------------------------------------------------
\* What sendCommitMessage adds to a channel are items of the log.
LEMMA SentItems ==
    ASSUME TypeInv, NEW i \in Server, NEW l, IsLog(l), NEW from \in Nat, NEW to \in Nat,
           sendCommitMessage(i, l, from, to)
    PROVE  \A j \in Server : \A k \in DOMAIN applyCh'[j] :
               \/ \E n \in DOMAIN applyCh[j] : applyCh'[j][k] = applyCh[j][n]
               \/ j = i /\ \E n \in DOMAIN l : applyCh'[j][k].item = l[n]
<1> DEFINE first == firstSent(l, from)
           last == Min2(to, getLastLogIndex(l))
           items == getLogItemSliceInclusive(l, first, last)
           msgs == [k \in DOMAIN items |-> ApplyMsg(TRUE, items[k])]
<1>1. first \in Int /\ last \in Int /\ getDummyLogIndex(l) <= first /\ last <= getLastLogIndex(l)
  BY LogBounds DEF firstSent, Max2, Min2
<1>2. /\ items \in Seq(ItemType) /\ DOMAIN items = 1..Len(items)
      /\ \A k \in DOMAIN items : \E n \in DOMAIN l : items[k] = l[n]
  BY <1>1, LogSlice
<1>3. \A k \in DOMAIN items : items[k] \in ItemType /\ ApplyMsg(TRUE, items[k]) \in ApplyMsgType
  BY <1>2 DEF ApplyMsg, ApplyMsgType
<1>4. Len(items) \in Nat
  BY <1>2
<1>5. msgs \in Seq(ApplyMsgType)
  <2>1. msgs \in [1..Len(items) -> ApplyMsgType]
    BY <1>2, <1>3
  <2> QED
    BY <1>4, <2>1, FunctionIsSeq
<1>6. \A k \in DOMAIN msgs : \E n \in DOMAIN l : msgs[k].item = l[n]
  BY <1>2 DEF ApplyMsg
<1>7. applyCh' = [applyCh EXCEPT ![i] = @ \o msgs]
  BY DEF sendCommitMessage
<1> HIDE DEF first, last, items, msgs
<1>8. applyCh[i] \in Seq(ApplyMsgType) /\ applyCh \in [Server -> Seq(ApplyMsgType)]
  BY DEF TypeInv, TypeOK, ServiceTypes
<1>9. /\ applyCh'[i] = applyCh[i] \o msgs
      /\ \A j \in Server \ {i} : applyCh'[j] = applyCh[j]
  BY <1>7, <1>8
<1>10. ASSUME NEW k \in DOMAIN applyCh'[i]
       PROVE  \/ \E n \in DOMAIN applyCh[i] : applyCh'[i][k] = applyCh[i][n]
              \/ \E n \in DOMAIN l : applyCh'[i][k].item = l[n]
  <2>1. PICK c \in Seq(ApplyMsgType) : c = applyCh[i]
    BY <1>8
  <2>2. k \in 1..(Len(c) + Len(msgs)) /\ Len(c) \in Nat /\ Len(msgs) \in Nat
    BY <1>5, <1>9, <2>1
  <2>3. CASE k <= Len(c)
    <3>1. k \in DOMAIN c /\ applyCh'[i][k] = c[k]
      BY <1>5, <1>9, <2>1, <2>2, <2>3
    <3> QED
      BY <2>1, <3>1
  <2>4. CASE k > Len(c)
    <3>1. k - Len(c) \in DOMAIN msgs /\ applyCh'[i][k] = msgs[k - Len(c)]
      BY <1>5, <1>9, <2>1, <2>2, <2>4
    <3> QED
      BY <1>6, <3>1
  <2> QED
    BY <2>2, <2>3, <2>4
<1> QED
  BY <1>9, <1>10

\* The log of the receiver of a request in conflict is cut.
LEMMA ConflictStep ==
    ASSUME TypeInv, NEW m \in appendReq, AppendEntriesConflict(m), NEW i, i = m.dst
    PROVE  /\ i \in Server /\ m.src \in Server /\ m.term \in Nat
           /\ \A j \in Server \ {i} : log'[j] = log[j]
           /\ log'[i] \in Seq(ItemType)
           /\ \A k \in DOMAIN log'[i] : k \in DOMAIN log[i] /\ log'[i][k] = log[i][k]
           /\ log[i] # <<>>
           /\ UNCHANGED <<snapshot, applyCh, saving, snapReq>>
           /\ appendReq' \subseteq appendReq
           /\ m.term >= currentTerm[i] /\ currentTerm'[i] = m.term
<1>1. /\ i \in Server /\ m.term \in Nat /\ m.prevLogIndex \in Nat /\ m.src \in Server
      /\ currentTerm \in [Server -> Nat] /\ log \in [Server -> Seq(ItemType)]
  BY DEF TypeInv, TypeOK, CallTypes, AppendReqType, PeerTypes, LogTypes
<1>2. PICK kept : kept = deleteLogFromIndexInclusive(log[i], m.prevLogIndex)
  OBVIOUS
<1>3. /\ Running(i) /\ logContainIndex(log[i], m.prevLogIndex) /\ upToDate(i, m.term)
      /\ observeTerm(i, m.term) /\ appendReply(m, m.term, FALSE)
      /\ log' = [log EXCEPT ![i] = kept]
      /\ UNCHANGED <<snapshot, serviceVars, snapNet>>
  BY <1>2 DEF AppendEntriesConflict
<1>4. IsLog(log[i])
  BY <1>1, <1>3, RunningLog
<1>5. /\ m.prevLogIndex \in Int /\ getDummyLogIndex(log[i]) <= m.prevLogIndex
      /\ m.prevLogIndex <= getLastLogIndex(log[i]) + 1
  BY <1>1, <1>3, <1>4, LogBounds DEF logContainIndex
<1>6. /\ kept \in Seq(ItemType)
      /\ \A k \in DOMAIN kept : k \in DOMAIN log[i] /\ kept[k] = log[i][k]
  BY <1>2, <1>4, <1>5, LogPrefix
<1>7. m.term >= currentTerm[i] /\ currentTerm'[i] = m.term
  BY <1>1, <1>3 DEF upToDate, observeTerm, becomeFollower, electionVars
<1>8. log'[i] = kept /\ \A j \in Server \ {i} : log'[j] = log[j]
  BY <1>1, <1>3
<1> QED
  BY <1>1, <1>3, <1>4, <1>6, <1>7, <1>8 DEF serviceVars, snapNet, appendReply, IsLog

\* The log of the receiver of a request that matches: what it had up to
\* PrevLogIndex, then the entries.
LEMMA AcceptStep ==
    ASSUME TypeInv, NEW m \in appendReq, AppendEntriesAccept(m), NEW i, i = m.dst
    PROVE  /\ i \in Server /\ m.src \in Server /\ m.term \in Nat
           /\ \A j \in Server \ {i} : log'[j] = log[j]
           /\ \E n \in DOMAIN log[i] :
                  /\ log'[i] \in Seq(ItemType) /\ Len(log'[i]) = n + Len(m.entries)
                  /\ \A k \in 1..n : k \in DOMAIN log[i] /\ log'[i][k] = log[i][k]
                  /\ \A k \in DOMAIN m.entries : log'[i][n + k] = m.entries[k]
                  /\ log[i][n].term = m.prevLogTerm
           /\ log[i] # <<>>
           /\ UNCHANGED <<snapshot, saving, snapReq>>
           /\ appendReq' \subseteq appendReq
           /\ m.term >= currentTerm[i] /\ currentTerm'[i] = m.term
           /\ \A j \in Server : \A k \in DOMAIN applyCh'[j] :
                  \/ \E n \in DOMAIN applyCh[j] : applyCh'[j][k] = applyCh[j][n]
                  \/ \E n \in DOMAIN log'[j] : applyCh'[j][k].item = log'[j][n]
<1>1. /\ i \in Server /\ m.term \in Nat /\ m.prevLogIndex \in Nat /\ m.src \in Server
      /\ m.entries \in Seq(ItemType) /\ m.leaderCommit \in Nat
      /\ currentTerm \in [Server -> Nat] /\ log \in [Server -> Seq(ItemType)]
      /\ commitIndex \in [Server -> Nat]
  BY DEF TypeInv, TypeOK, CallTypes, AppendReqType, PeerTypes, LogTypes
<1>2. PICK newLog : newLog = appendedLog(log[i], m)
  OBVIOUS
<1>3. PICK newCommit : newCommit = Min2(getLastLogIndex(newLog), m.leaderCommit)
  OBVIOUS
<1>4. /\ Running(i) /\ logContainIndex(log[i], m.prevLogIndex) /\ upToDate(i, m.term)
      /\ matchesPrevious(log[i], m)
      /\ observeTerm(i, m.term) /\ appendReply(m, m.term, TRUE)
      /\ log' = [log EXCEPT ![i] = newLog]
      /\ \/ sendCommitMessage(i, newLog, commitIndex[i] + 1, newCommit)
         \/ UNCHANGED applyCh
      /\ UNCHANGED <<snapshot, saving, snapNet>>
  BY <1>2, <1>3 DEF AppendEntriesAccept
<1>5. IsLog(log[i])
  BY <1>1, <1>4, RunningLog
<1>6. PICK d \in Nat, next \in Int : d = getDummyLogIndex(log[i]) /\ next = m.prevLogIndex + 1
  BY <1>1, <1>5, LogBounds
<1>7. PICK p : p = deleteLogFromIndexInclusive(log[i], next)
  OBVIOUS
<1>8. /\ d <= m.prevLogIndex /\ m.prevLogIndex <= getLastLogIndex(log[i])
      /\ getLastLogIndex(log[i]) \in Nat
  BY <1>4, <1>5, <1>6, LogBounds DEF logContainIndex
<1>9. /\ getDummyLogIndex(log[i]) <= next /\ next <= getLastLogIndex(log[i]) + 1
      /\ next - d > 0 /\ next - 1 = m.prevLogIndex
  <2>1. PICK q \in Nat, e \in Nat : q = m.prevLogIndex /\ e = getLastLogIndex(log[i])
    BY <1>1, <1>8
  <2>2. d <= q /\ q <= e /\ next = q + 1
    BY <1>6, <1>8, <2>1
  <2> QED
    BY <1>6, <2>1, <2>2
<1>10. /\ p \in Seq(ItemType) /\ Len(p) = next - d
       /\ \A k \in DOMAIN p : k \in DOMAIN log[i] /\ p[k] = log[i][k]
       /\ p # <<>> => IsLog(p) /\ getLastLogIndex(p) = next - 1
  BY <1>5, <1>6, <1>7, <1>9, LogPrefix
<1>11. IsLog(p) /\ getLastLogIndex(p) = m.prevLogIndex
  BY <1>9, <1>10
<1>12. \A k \in DOMAIN m.entries : m.entries[k].index = getLastLogIndex(p) + k
  BY <1>11 DEF TypeInv, EntriesConsecutive
<1>13. newLog = p \o m.entries
  BY <1>2, <1>6, <1>7 DEF appendedLog
<1>14. /\ IsLog(newLog) /\ Len(newLog) = Len(p) + Len(m.entries)
       /\ \A k \in DOMAIN p : newLog[k] = p[k]
       /\ \A k \in DOMAIN m.entries : newLog[Len(p) + k] = m.entries[k]
  <2>1. PICK es \in Seq(ItemType) : es = m.entries
    BY <1>1
  <2>2. \A k \in DOMAIN es : es[k].index = getLastLogIndex(p) + k
    BY <1>12, <2>1
  <2>3. newLog = p \o es
    BY <1>13, <2>1
  <2>4. /\ IsLog(newLog) /\ Len(newLog) = Len(p) + Len(es)
        /\ \A k \in DOMAIN p : k \in DOMAIN newLog /\ newLog[k] = p[k]
        /\ \A k \in DOMAIN es : Len(p) + k \in DOMAIN newLog /\ newLog[Len(p) + k] = es[k]
    <3>1. IsLog(p)
      BY <1>11
    <3> QED
      BY <2>2, <2>3, <3>1, LogExtended, ZenonT(40)
  <2> QED
    BY <2>1, <2>4
<1>15. PICK n \in Nat : n = Len(p) /\ n = m.prevLogIndex - d + 1 /\ DOMAIN p = 1..n /\ n \in DOMAIN p
  <2>1. p \in Seq(ItemType)
    BY <1>10
  <2>2. Len(p) \in Nat /\ DOMAIN p = 1..Len(p)
    BY <2>1
  <2>3. Len(p) = m.prevLogIndex - d + 1 /\ Len(p) > 0
    BY <1>1, <1>6, <1>9, <1>10
  <2> QED
    BY <2>2, <2>3
<1>16. log[i][n].term = m.prevLogTerm
  BY <1>4, <1>6, <1>15 DEF matchesPrevious, getLogItemAtIndex
<1>17. log'[i] = newLog /\ \A j \in Server \ {i} : log'[j] = log[j]
  BY <1>1, <1>4
<1>18. m.term >= currentTerm[i] /\ currentTerm'[i] = m.term
  BY <1>1, <1>4 DEF upToDate, observeTerm, becomeFollower, electionVars
<1>19. \A j \in Server : \A k \in DOMAIN applyCh'[j] :
           \/ \E q \in DOMAIN applyCh[j] : applyCh'[j][k] = applyCh[j][q]
           \/ \E q \in DOMAIN log'[j] : applyCh'[j][k].item = log'[j][q]
  <2>1. CASE UNCHANGED applyCh
    BY <2>1
  <2>2. CASE sendCommitMessage(i, newLog, commitIndex[i] + 1, newCommit)
    <3>0. newCommit \in Nat
      <4>1. getLastLogIndex(newLog) \in Nat
        BY <1>14, LogBounds
      <4> QED
        BY <1>1, <1>3, <4>1 DEF Min2
    <3>1. PICK from \in Nat : from = commitIndex[i] + 1
      BY <1>1
    <3>a. sendCommitMessage(i, newLog, from, newCommit)
      BY <2>2, <3>1
    <3>2. \A j \in Server : \A k \in DOMAIN applyCh'[j] :
              \/ \E q \in DOMAIN applyCh[j] : applyCh'[j][k] = applyCh[j][q]
              \/ j = i /\ \E q \in DOMAIN newLog : applyCh'[j][k].item = newLog[q]
      <4>1. IsLog(newLog) /\ i \in Server
        BY <1>1, <1>14
      <4> QED
        BY <3>0, <3>a, <4>1, SentItems
    <3> QED
      BY <1>17, <3>2
  <2> QED
    BY <1>4, <2>1, <2>2
<1>20. \E q \in DOMAIN log[i] :
           /\ log'[i] \in Seq(ItemType) /\ Len(log'[i]) = q + Len(m.entries)
           /\ \A k \in 1..q : k \in DOMAIN log[i] /\ log'[i][k] = log[i][k]
           /\ \A k \in DOMAIN m.entries : log'[i][q + k] = m.entries[k]
           /\ log[i][q].term = m.prevLogTerm
  <2>1. n \in DOMAIN log[i]
    BY <1>10, <1>15
  <2> WITNESS n \in DOMAIN log[i]
  <2> QED
    BY <1>10, <1>14, <1>15, <1>16, <1>17 DEF IsLog
<1> QED
  BY <1>1, <1>4, <1>5, <1>17, <1>18, <1>19, <1>20 DEF snapNet, appendReply, IsLog

\* Start puts one entry of the leader's term behind its log.
LEMMA StartStep ==
    ASSUME TypeInv, NEW i \in Server, NEW v \in Value, Start(i, v)
    PROVE  /\ state[i] = Leader /\ UNCHANGED electionVars
           /\ \A j \in Server \ {i} : log'[j] = log[j]
           /\ IsLog(log[i])
           /\ log'[i] \in Seq(ItemType) /\ Len(log'[i]) = Len(log[i]) + 1
           /\ \A k \in DOMAIN log[i] : k \in DOMAIN log'[i] /\ log'[i][k] = log[i][k]
           /\ log'[i][Len(log[i]) + 1] = LogItem(v, currentTerm[i], getLastLogIndex(log[i]) + 1)
           /\ UNCHANGED <<snapshot, applyCh, saving, appendReq, snapReq, elected>>
<1>1. /\ log \in [Server -> Seq(ItemType)] /\ currentTerm[i] \in Nat
  BY DEF TypeInv, TypeOK, PeerTypes, LogTypes
<1>2. IsLog(log[i])
  BY RunningLog DEF Start
<1>3. PICK index \in Nat : index = getLastLogIndex(log[i]) + 1
  BY <1>2, LogBounds
<1>4. PICK item : item = LogItem(v, currentTerm[i], index)
  OBVIOUS
<1>5. item \in ItemType
  BY <1>1, <1>4 DEF LogItem, ItemType
<1>6. log' = [log EXCEPT ![i] = Append(log[i], item)]
  BY <1>3, <1>4 DEF Start, nextLogIndex
<1>7. log'[i] = Append(log[i], item) /\ \A j \in Server \ {i} : log'[j] = log[j]
  BY <1>1, <1>6
<1>8. log[i] \in Seq(ItemType)
  BY <1>1
<1>9. /\ log'[i] \in Seq(ItemType) /\ Len(log'[i]) = Len(log[i]) + 1
      /\ \A k \in DOMAIN log[i] : k \in DOMAIN log'[i] /\ log'[i][k] = log[i][k]
      /\ log'[i][Len(log[i]) + 1] = item
  BY <1>5, <1>7, <1>8
<1> QED
  BY <1>2, <1>3, <1>4, <1>7, <1>9 DEF Start, serviceVars, appendNet, snapNet, historyVars

\* SaveSnapshot drops the items before the snapshot's last, or nothing.
LEMMA SaveStep ==
    ASSUME TypeInv, NEW i \in Server, SaveSnapshot(i)
    PROVE  /\ UNCHANGED <<electionVars, applyCh, appendReq, snapReq, elected>>
           /\ \A j \in Server \ {i} : log'[j] = log[j] /\ snapshot'[j] = snapshot[j] /\ saving'[j] = saving[j]
           /\ saving'[i] = Nil /\ saving[i] # Nil
           /\ \/ log' = log /\ snapshot' = snapshot
              \/ /\ snapshot'[i] = saving[i]
                 /\ IsLog(log'[i]) /\ getDummyLogIndex(log'[i]) = saving[i].index
                 /\ getLastLogIndex(log'[i]) = getLastLogIndex(log[i])
                 /\ IsLog(log[i])
                 /\ \E n \in Nat : \A k \in DOMAIN log'[i] :
                        n + k \in DOMAIN log[i] /\ log'[i][k] = log[i][n + k]
<1>1. /\ log \in [Server -> Seq(ItemType)] /\ snapshot \in [Server -> SnapshotType]
      /\ saving \in [Server -> SnapshotType]
  BY DEF TypeInv, TypeOK, ServiceTypes, LogTypes
<1>2. PICK s : s = saving[i]
  OBVIOUS
<1>3. PICK kept : kept = getLogItemSliceInclusive(log[i], s.index, getLastLogIndex(log[i]))
  OBVIOUS
<1>4. /\ Running(i) /\ s # Nil /\ saving' = [saving EXCEPT ![i] = Nil]
      /\ \/ /\ logContainIndex(log[i], s.index)
            /\ log' = [log EXCEPT ![i] = kept] /\ snapshot' = [snapshot EXCEPT ![i] = s]
         \/ log' = log /\ snapshot' = snapshot
      /\ UNCHANGED <<electionVars, applyCh, appendReq, snapReq, elected>>
  BY <1>2, <1>3 DEF SaveSnapshot, diskVars, appendNet, snapNet, historyVars
<1>5. saving'[i] = Nil /\ \A j \in Server \ {i} : saving'[j] = saving[j]
  BY <1>1, <1>4
<1>6. CASE log' = log /\ snapshot' = snapshot
  BY <1>2, <1>4, <1>5, <1>6
<1>7. CASE /\ logContainIndex(log[i], s.index)
           /\ log' = [log EXCEPT ![i] = kept] /\ snapshot' = [snapshot EXCEPT ![i] = s]
  <2>1. IsLog(log[i])
    BY <1>4, RunningLog
  <2>2. PICK x \in Nat : x = s.index
    BY <1>1, <1>2, <1>4 DEF SnapshotType
  <2>3. /\ logContainIndex(log[i], x) /\ x \in Int
        /\ kept = getLogItemSliceInclusive(log[i], x, getLastLogIndex(log[i]))
    BY <1>3, <1>7, <2>2
  <2>4. /\ IsLog(kept) /\ getDummyLogIndex(kept) = x
        /\ Len(kept) = getLastLogIndex(log[i]) - x + 1
        /\ \A k \in DOMAIN kept : /\ x - getDummyLogIndex(log[i]) + k \in DOMAIN log[i]
                                  /\ kept[k] = log[i][x - getDummyLogIndex(log[i]) + k]
    BY <2>1, <2>3, LogSuffix
  <2>5. PICK n \in Nat : n = x - getDummyLogIndex(log[i])
    <3>1. getDummyLogIndex(log[i]) \in Nat /\ getDummyLogIndex(log[i]) <= x
      BY <2>1, <2>3, LogBounds DEF logContainIndex
    <3> QED
      BY <3>1
  <2>6. getLastLogIndex(kept) = getLastLogIndex(log[i])
    <3>1. PICK e \in Nat : e = getLastLogIndex(log[i])
      BY <2>1, LogBounds
    <3>2. getLastLogIndex(kept) = x + (e - x + 1) - 1
      BY <2>4, <3>1, LogBounds
    <3> QED
      BY <3>1, <3>2
  <2>7. /\ log'[i] = kept /\ snapshot'[i] = s
        /\ \A j \in Server \ {i} : log'[j] = log[j] /\ snapshot'[j] = snapshot[j]
    BY <1>1, <1>7
  <2>8. \A k \in DOMAIN log'[i] : n + k \in DOMAIN log[i] /\ log'[i][k] = log[i][n + k]
    BY <2>4, <2>5, <2>7
  <2> QED
    BY <1>2, <1>4, <1>5, <2>1, <2>2, <2>4, <2>6, <2>7, <2>8
<1> QED
  BY <1>4, <1>6, <1>7

\* InstallSnapshot leaves nothing but the snapshot's last entry.
LEMMA InstallStep ==
    ASSUME TypeInv, NEW m \in snapReq, InstallSnapshot(m), NEW i, i = m.dst
    PROVE  /\ i \in Server /\ m.src \in Server /\ m.term \in Nat
           /\ m.lastIncludedTerm \in Nat /\ m.lastIncludedIndex \in Nat
           /\ \A j \in Server \ {i} : log'[j] = log[j] /\ snapshot'[j] = snapshot[j]
           /\ Len(log'[i]) = 1 /\ DOMAIN log'[i] = {1}
           /\ log'[i][1].index = m.lastIncludedIndex /\ log'[i][1].term = m.lastIncludedTerm
           /\ snapshot'[i] = [index |-> m.lastIncludedIndex, term |-> m.lastIncludedTerm]
           /\ saving' = saving /\ appendReq' = appendReq /\ snapReq' \subseteq snapReq
           /\ m.term >= currentTerm[i] /\ currentTerm'[i] = m.term
           /\ \A j \in Server : \A k \in DOMAIN applyCh'[j] :
                  \/ \E n \in DOMAIN applyCh[j] : applyCh'[j][k] = applyCh[j][n]
                  \/ \E n \in DOMAIN log'[j] : applyCh'[j][k].item = log'[j][n]
<1>1. /\ i \in Server /\ m.term \in Nat /\ m.src \in Server
      /\ m.lastIncludedTerm \in Nat /\ m.lastIncludedIndex \in Nat
      /\ currentTerm \in [Server -> Nat] /\ log \in [Server -> Seq(ItemType)]
      /\ snapshot \in [Server -> SnapshotType] /\ applyCh \in [Server -> Seq(ApplyMsgType)]
  BY DEF TypeInv, TypeOK, CallTypes, SnapReqType, PeerTypes, LogTypes, ServiceTypes
<1>2. PICK head : head = snapshotHead(m)
  OBVIOUS
<1>3. head.index = m.lastIncludedIndex /\ head.term = m.lastIncludedTerm /\ head \in ItemType
  BY <1>1, <1>2 DEF snapshotHead, LogItem, ItemType
<1>4. PICK msg : msg = ApplyMsg(FALSE, head)
  OBVIOUS
<1>5. msg.item = head
  BY <1>4 DEF ApplyMsg
<1>6. /\ log' = [log EXCEPT ![i] = <<head>>]
      /\ snapshot' = [snapshot EXCEPT ![i] =
             [index |-> m.lastIncludedIndex, term |-> m.lastIncludedTerm]]
      /\ applyCh' = [applyCh EXCEPT ![i] = Append(@, msg)]
      /\ upToDate(i, m.term) /\ observeTerm(i, m.term)
      /\ saving' = saving /\ appendReq' = appendReq /\ snapReq' \subseteq snapReq
  BY <1>2, <1>4 DEF InstallSnapshot, appendNet, snapReply
<1>7. /\ log'[i] = <<head>> /\ \A j \in Server \ {i} : log'[j] = log[j]
      /\ snapshot'[i] = [index |-> m.lastIncludedIndex, term |-> m.lastIncludedTerm]
      /\ \A j \in Server \ {i} : snapshot'[j] = snapshot[j]
      /\ applyCh'[i] = Append(applyCh[i], msg) /\ \A j \in Server \ {i} : applyCh'[j] = applyCh[j]
  BY <1>1, <1>6
<1>8. m.term >= currentTerm[i] /\ currentTerm'[i] = m.term
  BY <1>1, <1>6 DEF upToDate, observeTerm, becomeFollower, electionVars
<1>9. ASSUME NEW k \in DOMAIN applyCh'[i]
      PROVE  \/ \E n \in DOMAIN applyCh[i] : applyCh'[i][k] = applyCh[i][n]
             \/ \E n \in DOMAIN log'[i] : applyCh'[i][k].item = log'[i][n]
  <2>1. PICK c \in Seq(ApplyMsgType) : c = applyCh[i]
    BY <1>1
  <2>2. \/ k \in DOMAIN c /\ applyCh'[i][k] = c[k]
        \/ applyCh'[i][k] = msg
    BY <1>7, <2>1
  <2>3. 1 \in DOMAIN log'[i] /\ log'[i][1] = head
    BY <1>7
  <2> QED
    BY <1>5, <2>1, <2>2, <2>3
<1>10. \A j \in Server : \A k \in DOMAIN applyCh'[j] :
           \/ \E n \in DOMAIN applyCh[j] : applyCh'[j][k] = applyCh[j][n]
           \/ \E n \in DOMAIN log'[j] : applyCh'[j][k].item = log'[j][n]
  <2>1. \A j \in Server \ {i} : applyCh'[j] = applyCh[j]
    BY <1>7
  <2> QED
    BY <1>9, <2>1
<1>11. /\ Len(log'[i]) = 1 /\ DOMAIN log'[i] = {1}
       /\ log'[i][1].index = m.lastIncludedIndex /\ log'[i][1].term = m.lastIncludedTerm
  BY <1>3, <1>7
<1> QED
  BY <1>1, <1>6, <1>7, <1>8, <1>10, <1>11

\* The leader commits items of its own log.
LEMMA SuccessStep ==
    ASSUME TypeInv, NEW r \in appendRep, AppendReplySuccess(r)
    PROVE  /\ UNCHANGED <<electionVars, log, snapshot, saving, appendReq, snapReq, elected>>
           /\ \A j \in Server : \A k \in DOMAIN applyCh'[j] :
                  \/ \E n \in DOMAIN applyCh[j] : applyCh'[j][k] = applyCh[j][n]
                  \/ \E n \in DOMAIN log'[j] : applyCh'[j][k].item = log'[j][n]
<1>1. /\ r.src \in Server /\ r.dst \in Server /\ r.prevLogIndex \in Nat /\ r.sent \in Nat
      /\ commitIndex \in [Server -> Nat] /\ matchIndex \in [Server -> [Server -> Nat]]
  BY DEF TypeInv, TypeOK, CallTypes, AppendRepType, PeerTypes
<1>2. PICK i \in Server : i = r.src
  BY <1>1
<1>3. PICK match : match = [matchIndex[i] EXCEPT ![r.dst] = r.prevLogIndex + r.sent]
  OBVIOUS
<1>4. \A j \in Server : match[j] \in Nat
  <2>1. r.prevLogIndex + r.sent \in Nat /\ matchIndex[i] \in [Server -> Nat]
    BY <1>1
  <2> QED
    BY <1>1, <1>3, <2>1
<1>5. /\ Running(i)
      /\ UNCHANGED <<electionVars, log, snapshot, saving, appendReq, snapReq, elected>>
  BY <1>2 DEF AppendReplySuccess, diskVars, snapNet
<1>6. \/ UNCHANGED applyCh
      \/ \E v \in {match[j] : j \in Server} :
             sendCommitMessage(i, log[i], commitIndex[i] + 1, Max2(commitIndex[i], v))
  BY <1>2, <1>3 DEF AppendReplySuccess, matchAfterSuccess
<1>7. CASE UNCHANGED applyCh
  BY <1>5, <1>7
<1>8. CASE \E v \in {match[j] : j \in Server} :
               sendCommitMessage(i, log[i], commitIndex[i] + 1, Max2(commitIndex[i], v))
  <2>1. PICK v \in {match[j] : j \in Server} :
            sendCommitMessage(i, log[i], commitIndex[i] + 1, Max2(commitIndex[i], v))
    BY <1>8
  <2>2. PICK from \in Nat, to \in Nat : from = commitIndex[i] + 1 /\ to = Max2(commitIndex[i], v)
    BY <1>1, <1>4, <2>1 DEF Max2
  <2>3. sendCommitMessage(i, log[i], from, to)
    BY <2>1, <2>2
  <2>4. IsLog(log[i])
    BY <1>5, RunningLog
  <2>5. \A j \in Server : \A k \in DOMAIN applyCh'[j] :
            \/ \E n \in DOMAIN applyCh[j] : applyCh'[j][k] = applyCh[j][n]
            \/ j = i /\ \E n \in DOMAIN log[i] : applyCh'[j][k].item = log[i][n]
    BY <2>3, <2>4, SentItems
  <2> QED
    BY <1>5, <2>5
<1> QED
  BY <1>6, <1>7, <1>8

\* The service reads one message; a save it starts is of that message.
LEMMA ApplyStep ==
    ASSUME TypeInv, NEW i \in Server, Apply(i)
    PROVE  /\ UNCHANGED <<electionVars, log, snapshot, appendReq, snapReq, elected>>
           /\ \A j \in Server : \A k \in DOMAIN applyCh'[j] :
                  \E n \in DOMAIN applyCh[j] : applyCh'[j][k] = applyCh[j][n]
           /\ \A j \in Server : \/ saving'[j] \in {Nil, saving[j]}
                                \/ \E n \in DOMAIN applyCh[j] : saving'[j].term = applyCh[j][n].item.term
<1>1. /\ applyCh \in [Server -> Seq(ApplyMsgType)] /\ saving \in [Server -> SnapshotType]
      /\ applyCh[i] # <<>>
  BY DEF TypeInv, TypeOK, ServiceTypes, Apply
<1>2. PICK c \in Seq(ApplyMsgType) : c = applyCh[i] /\ c # <<>>
  BY <1>1
<1>3. PICK msg : msg = c[1] /\ msg = Head(c) /\ 1 \in DOMAIN c
  BY <1>2
<1>4. /\ UNCHANGED <<electionVars, log, snapshot, appendReq, snapReq, elected>>
      /\ applyCh' = [applyCh EXCEPT ![i] = Tail(c)]
      /\ \/ saving' = saving
         \/ saving' = [saving EXCEPT ![i] = [index |-> msg.item.index, term |-> msg.item.term]]
  BY <1>1, <1>2, <1>3 DEF Apply, logVars, diskVars, appendNet, snapNet, historyVars
<1>5. applyCh'[i] = Tail(c) /\ \A j \in Server \ {i} : applyCh'[j] = applyCh[j]
  BY <1>1, <1>4
<1>6. \A k \in DOMAIN Tail(c) : \E n \in DOMAIN c : Tail(c)[k] = c[n]
  BY <1>2
<1>7. \A j \in Server : \A k \in DOMAIN applyCh'[j] :
          \E n \in DOMAIN applyCh[j] : applyCh'[j][k] = applyCh[j][n]
  <2>1. PICK t : t = Tail(c)
    OBVIOUS
  <2>2. applyCh'[i] = t /\ \A j \in Server \ {i} : applyCh'[j] = applyCh[j]
    BY <1>5, <2>1
  <2>3. \A k \in DOMAIN t : \E n \in DOMAIN applyCh[i] : t[k] = applyCh[i][n]
    BY <1>2, <1>6, <2>1
  <2> QED
    BY <2>2, <2>3
<1>8. ASSUME NEW j \in Server
      PROVE  \/ saving'[j] = saving[j]
             \/ j = i /\ saving'[j].term = msg.item.term
  BY <1>1, <1>4
<1>9. ASSUME NEW j \in Server
      PROVE  \/ saving'[j] \in {Nil, saving[j]}
             \/ \E n \in DOMAIN applyCh[j] : saving'[j].term = applyCh[j][n].item.term
  BY <1>2, <1>3, <1>8
<1> QED
  BY <1>4, <1>7, <1>9

-----------------------------------------------------------------------------
\* The entries of a request are the leader's, from PrevLogIndex on.
LEMMA RequestEntries ==
    ASSUME TypeInv, NEW i \in Server, NEW j \in Server, Running(i), NEW s,
           logContainIndex(log[i], getPreviousIndexForServer(i, j)),
           NEW m, m = AppendRequest(i, j, s)
    PROVE  /\ m.term = currentTerm[i] /\ m.entries \in Seq(ItemType)
           /\ \E n \in DOMAIN log[i] :
                  /\ m.prevLogTerm = log[i][n].term
                  /\ \A k \in DOMAIN m.entries :
                         n + k \in DOMAIN log[i] /\ m.entries[k] = log[i][n + k]
<1>1. IsLog(log[i])
  BY RunningLog
<1>2. PICK d \in Nat, e \in Nat : d = getDummyLogIndex(log[i]) /\ e = getLastLogIndex(log[i])
  BY <1>1, LogBounds
<1>3. PICK next \in Nat : next = nextIndex[i][j] /\ d <= next - 1 /\ next - 1 <= e
  BY <1>2 DEF TypeInv, TypeOK, PeerTypes, getPreviousIndexForServer, logContainIndex
<1>4. PICK es : es = getLogItemSliceInclusive(log[i], next, e)
  OBVIOUS
<1>5. /\ m.term = currentTerm[i] /\ m.entries = es
      /\ m.prevLogTerm = log[i][next - 1 - d + 1].term
  BY <1>2, <1>3, <1>4 DEF AppendRequest, getAppendLogItem, getLogItemAtIndex, getPreviousIndexForServer
<1>6. d <= next /\ next \in Int /\ e \in Int /\ e <= getLastLogIndex(log[i])
  BY <1>2, <1>3
<1>7. /\ es \in Seq(ItemType)
      /\ \A k \in DOMAIN es : next - d + k \in DOMAIN log[i] /\ es[k] = log[i][next - d + k]
  <2>1. PICK l : l = log[i]
    OBVIOUS
  <2>2. /\ IsLog(l) /\ getDummyLogIndex(l) <= next /\ e <= getLastLogIndex(l)
        /\ next \in Int /\ e \in Int /\ es = getLogItemSliceInclusive(l, next, e)
    BY <1>1, <1>2, <1>4, <1>6, <2>1
  <2>3. /\ es \in Seq(ItemType)
        /\ \A k \in DOMAIN es : /\ next - getDummyLogIndex(l) + k \in DOMAIN l
                                 /\ es[k] = l[next - getDummyLogIndex(l) + k]
    BY ONLY <2>2, LogSlice
  <2> QED
    BY <1>2, <2>1, <2>3
<1>8. next - 1 - d + 1 \in DOMAIN log[i]
  <2>1. logContainIndex(log[i], next - 1) /\ next - 1 \in Int
    BY <1>2, <1>3 DEF logContainIndex
  <2> QED
    BY <1>1, <1>2, <2>1, LogLookup
<1>9. PICK n \in DOMAIN log[i] : n = next - d /\ n = next - 1 - d + 1
  BY <1>2, <1>3, <1>8
<1>10. m.prevLogTerm = log[i][n].term
  BY <1>5, <1>9
<1>11. \A k \in DOMAIN m.entries : n + k \in DOMAIN log[i] /\ m.entries[k] = log[i][n + k]
  BY <1>5, <1>7, <1>9
<1> QED
  BY <1>5, <1>7, <1>10, <1>11

\* No step brings an entry or a snapshot of a later term to a peer.
LEMMA TermsNext ==
    ASSUME TypeInv, TypeInv', ElectionInv, TermsBounded, [Next]_vars
    PROVE  TermsBounded'
<1>0. \A j \in Server : currentTerm[j] <= currentTerm'[j]
  BY Roles
<1>1. \A j \in Server : currentTerm[j] \in Nat
  BY DEF TypeInv, TypeOK, PeerTypes
<1>2. CASE QuietLogs
  BY <1>0, <1>2, TermsKept DEF QuietLogs
<1>3. ASSUME NEW i \in Server, startAppend(i)
      PROVE  TermsBounded'
  <2>1. UNCHANGED <<log, snapshot, applyCh, saving, snapReq>> /\ Running(i)
    BY <1>3 DEF startAppend, logVars, diskVars, serviceVars, snapNet
  <2>2. ASSUME NEW m \in appendReq', m \notin appendReq, NEW k \in DOMAIN m.entries
        PROVE  m.entries[k].term <= m.term
    <3>1. PICK j \in Server \ {i} : \E s \in freeSlots(i, j) :
              /\ logContainIndex(log[i], getPreviousIndexForServer(i, j))
              /\ m = AppendRequest(i, j, s)
      BY <1>3, <2>2, StartAppendCalls
    <3>2. /\ m.term = currentTerm[i]
          /\ \E n \in DOMAIN log[i] : \A q \in DOMAIN m.entries :
                 n + q \in DOMAIN log[i] /\ m.entries[q] = log[i][n + q]
      BY <2>1, <3>1, RequestEntries
    <3> QED
      BY <2>2, <3>2 DEF TermsBounded
  <2> QED
    BY <1>0, <2>1, <2>2, TermsKept
<1>4. ASSUME NEW i \in Server, NEW v \in Value, Start(i, v)
      PROVE  TermsBounded'
  <2>1. /\ UNCHANGED electionVars
        /\ \A j \in Server \ {i} : log'[j] = log[j]
        /\ log'[i] \in Seq(ItemType) /\ Len(log'[i]) = Len(log[i]) + 1 /\ IsLog(log[i])
        /\ \A k \in DOMAIN log[i] : k \in DOMAIN log'[i] /\ log'[i][k] = log[i][k]
        /\ log'[i][Len(log[i]) + 1] = LogItem(v, currentTerm[i], getLastLogIndex(log[i]) + 1)
        /\ UNCHANGED <<snapshot, applyCh, saving, appendReq, snapReq>>
    BY <1>4, StartStep
  <2>2. ASSUME NEW k \in DOMAIN log'[i]
        PROVE  (\E n \in DOMAIN log[i] : log'[i][k] = log[i][n]) \/ log'[i][k].term <= currentTerm'[i]
    <3>1. k \in DOMAIN log[i] \/ k = Len(log[i]) + 1
      BY <2>1 DEF IsLog
    <3>2. log'[i][Len(log[i]) + 1].term = currentTerm[i] /\ currentTerm' = currentTerm
      BY <2>1 DEF LogItem, electionVars
    <3> QED
      BY <1>1, <2>1, <3>1, <3>2
  <2>3. \A j \in Server : \A k \in DOMAIN log'[j] :
            (\E n \in DOMAIN log[j] : log'[j][k] = log[j][n]) \/ log'[j][k].term <= currentTerm'[j]
    BY <2>1, <2>2
  <2> QED
    BY <1>0, <2>1, <2>3, TermsKept
<1>5. ASSUME NEW m \in appendReq, AppendEntriesConflict(m)
      PROVE  TermsBounded'
  <2>1. PICK i : i = m.dst
    OBVIOUS
  <2>2. /\ i \in Server /\ \A j \in Server \ {i} : log'[j] = log[j]
        /\ \A k \in DOMAIN log'[i] : k \in DOMAIN log[i] /\ log'[i][k] = log[i][k]
        /\ UNCHANGED <<snapshot, applyCh, saving, snapReq>>
        /\ appendReq' \subseteq appendReq
    BY <1>5, <2>1, ConflictStep
  <2>3. \A j \in Server : \A k \in DOMAIN log'[j] : \E n \in DOMAIN log[j] : log'[j][k] = log[j][n]
    BY <2>2
  <2> QED
    BY <1>0, <2>2, <2>3, TermsKept
<1>6. ASSUME NEW m \in appendReq, AppendEntriesAccept(m)
      PROVE  TermsBounded'
  <2>1. PICK i : i = m.dst
    OBVIOUS
  <2>2. /\ i \in Server /\ \A j \in Server \ {i} : log'[j] = log[j]
        /\ \E n \in DOMAIN log[i] :
               /\ log'[i] \in Seq(ItemType) /\ Len(log'[i]) = n + Len(m.entries)
               /\ \A k \in 1..n : k \in DOMAIN log[i] /\ log'[i][k] = log[i][k]
               /\ \A k \in DOMAIN m.entries : log'[i][n + k] = m.entries[k]
        /\ UNCHANGED <<snapshot, saving, snapReq>>
        /\ appendReq' \subseteq appendReq /\ currentTerm'[i] = m.term
        /\ \A j \in Server : \A k \in DOMAIN applyCh'[j] :
               \/ \E n \in DOMAIN applyCh[j] : applyCh'[j][k] = applyCh[j][n]
               \/ \E n \in DOMAIN log'[j] : applyCh'[j][k].item = log'[j][n]
    BY <1>6, <2>1, AcceptStep
  <2>3. ASSUME NEW k \in DOMAIN log'[i]
        PROVE  (\E n \in DOMAIN log[i] : log'[i][k] = log[i][n]) \/ log'[i][k].term <= currentTerm'[i]
    <3>1. PICK n \in DOMAIN log[i] :
               /\ log'[i] \in Seq(ItemType) /\ Len(log'[i]) = n + Len(m.entries)
               /\ \A q \in 1..n : q \in DOMAIN log[i] /\ log'[i][q] = log[i][q]
               /\ \A q \in DOMAIN m.entries : log'[i][n + q] = m.entries[q]
      BY <2>2
    <3>2. m.entries \in Seq(ItemType) /\ log[i] \in Seq(ItemType)
      BY <2>2 DEF TypeInv, TypeOK, CallTypes, AppendReqType, LogTypes
    <3>3. PICK len \in Nat : len = Len(m.entries) /\ DOMAIN m.entries = 1..len
      BY <3>2
    <3>4. n \in Nat /\ k \in 1..(n + len)
      BY <3>1, <3>2, <3>3
    <3>5. CASE k \in 1..n
      BY <3>1, <3>5
    <3>6. CASE k \notin 1..n
      <4>1. PICK q \in 1..len : k = n + q
        <5>1. k - n \in 1..len /\ k = n + (k - n)
          BY <3>4, <3>6
        <5> QED
          BY <5>1
      <4>2. log'[i][k] = m.entries[q] /\ q \in DOMAIN m.entries
        BY <3>1, <3>3, <4>1
      <4>3. m.entries[q].term <= m.term
        BY <4>2 DEF TermsBounded
      <4> QED
        BY <2>2, <4>2, <4>3
    <3> QED
      BY <3>5, <3>6
  <2>4. \A j \in Server : \A k \in DOMAIN log'[j] :
            (\E n \in DOMAIN log[j] : log'[j][k] = log[j][n]) \/ log'[j][k].term <= currentTerm'[j]
    BY <2>2, <2>3
  <2> QED
    BY <1>0, <2>2, <2>4, TermsKept
<1>7. ASSUME NEW r \in appendRep, AppendReplySuccess(r)
      PROVE  TermsBounded'
  BY <1>0, <1>7, SuccessStep, TermsKept
<1>8. ASSUME NEW i \in Server, Apply(i)
      PROVE  TermsBounded'
  BY <1>0, <1>8, ApplyStep, TermsKept
<1>9. ASSUME NEW i \in Server, SaveSnapshot(i)
      PROVE  TermsBounded'
  <2>1. /\ UNCHANGED <<applyCh, appendReq, snapReq>>
        /\ \A j \in Server \ {i} : log'[j] = log[j] /\ snapshot'[j] = snapshot[j] /\ saving'[j] = saving[j]
        /\ saving'[i] = Nil
        /\ \/ log' = log /\ snapshot' = snapshot
           \/ /\ snapshot'[i] = saving[i]
              /\ \E n \in Nat : \A k \in DOMAIN log'[i] :
                     n + k \in DOMAIN log[i] /\ log'[i][k] = log[i][n + k]
    BY <1>9, SaveStep
  <2>2. \A j \in Server : \A k \in DOMAIN log'[j] : \E n \in DOMAIN log[j] : log'[j][k] = log[j][n]
    BY <2>1
  <2> QED
    BY <1>0, <2>1, <2>2, TermsKept
<1>10. ASSUME NEW i \in Server, NEW j \in Server \ {i}, startInstallSnapshot(i, j)
       PROVE  TermsBounded'
  <2>1. UNCHANGED <<log, snapshot, applyCh, saving, appendReq>>
    BY <1>10 DEF startInstallSnapshot, logVars, diskVars, serviceVars, appendNet
  <2>2. ASSUME NEW m \in snapReq', m \notin snapReq
        PROVE  m.lastIncludedTerm <= m.term
    <3>1. /\ m.term = currentTerm[i] /\ m.lastIncludedTerm = snapshot[i].term /\ snapshot[i] # Nil
      BY <1>10, <2>2 DEF startInstallSnapshot
    <3> QED
      BY <3>1 DEF TermsBounded
  <2> QED
    BY <1>0, <2>1, <2>2, TermsKept
<1>11. ASSUME NEW m \in snapReq, InstallSnapshot(m)
       PROVE  TermsBounded'
  <2>1. PICK i : i = m.dst
    OBVIOUS
  <2>2. /\ i \in Server
        /\ \A j \in Server \ {i} : log'[j] = log[j] /\ snapshot'[j] = snapshot[j]
        /\ DOMAIN log'[i] = {1} /\ log'[i][1].term = m.lastIncludedTerm
        /\ snapshot'[i] = [index |-> m.lastIncludedIndex, term |-> m.lastIncludedTerm]
        /\ saving' = saving /\ appendReq' = appendReq /\ snapReq' \subseteq snapReq
        /\ currentTerm'[i] = m.term
        /\ \A j \in Server : \A k \in DOMAIN applyCh'[j] :
               \/ \E n \in DOMAIN applyCh[j] : applyCh'[j][k] = applyCh[j][n]
               \/ \E n \in DOMAIN log'[j] : applyCh'[j][k].item = log'[j][n]
    BY <1>11, <2>1, InstallStep
  <2>3. m.lastIncludedTerm <= m.term
    BY DEF TermsBounded
  <2>4. \A j \in Server : \A k \in DOMAIN log'[j] :
            (\E n \in DOMAIN log[j] : log'[j][k] = log[j][n]) \/ log'[j][k].term <= currentTerm'[j]
    BY <2>2, <2>3
  <2>5. \A j \in Server : snapshot'[j] = snapshot[j] \/ snapshot'[j].term <= currentTerm'[j]
    <3>1. snapshot'[i].term = m.lastIncludedTerm
      BY <2>2
    <3> QED
      BY <2>2, <2>3, <3>1
  <2> QED
    BY <1>0, <2>2, <2>4, <2>5, TermsKept
<1>12. ASSUME NEW i \in Server, Restart(i)
       PROVE  TermsBounded'
  <2>1. /\ log' = log /\ snapshot' = snapshot
        /\ applyCh' = [applyCh EXCEPT ![i] = <<>>]
        /\ saving' = [saving EXCEPT ![i] = Nil]
        /\ appendReq' = orphaned(appendReq, i) /\ snapReq' = orphaned(snapReq, i)
    BY <1>12, RestartKeeps
  <2>2. /\ \A n \in appendReq' : \E m \in appendReq : n.term = m.term /\ n.entries = m.entries
        /\ \A n \in snapReq' : \E m \in snapReq :
               n.term = m.term /\ n.lastIncludedTerm = m.lastIncludedTerm
    BY <2>1, OrphanedFields
  <2>3. /\ \A j \in Server : \A k \in DOMAIN applyCh'[j] :
               \E n \in DOMAIN applyCh[j] : applyCh'[j][k] = applyCh[j][n]
        /\ \A j \in Server : saving'[j] \in {Nil, saving[j]}
    BY <2>1 DEF TypeInv, TypeOK, ServiceTypes
  <2> QED
    BY <1>0, <2>1, <2>2, <2>3, TermsKept
<1> QED
  BY <1>2, <1>3, <1>4, <1>5, <1>6, <1>7, <1>8, <1>9, <1>10, <1>11, <1>12, StepCases

-----------------------------------------------------------------------------
(* The log starts where the snapshot ends.                                 *)

LEMMA HeadsKept ==
    ASSUME HeadsAtSnapshot,
           \A i \in Server : log'[i] # <<>> =>
               \/ log[i] # <<>> /\ log'[i][1] = log[i][1] /\ snapshot'[i] = snapshot[i]
               \/ snapshot'[i] # Nil /\ log'[i][1].index = snapshot'[i].index
    PROVE  HeadsAtSnapshot'
BY DEF HeadsAtSnapshot, getDummyLogIndex

LEMMA HeadsNext ==
    ASSUME TypeInv, TypeInv', HeadsAtSnapshot, [Next]_vars
    PROVE  HeadsAtSnapshot'
<1>1. CASE UNCHANGED <<log, snapshot>>
  BY <1>1, HeadsKept
<1>2. ASSUME \/ QuietLogs \/ \E r \in appendRep : AppendReplySuccess(r)
             \/ \E i \in Server : \/ startAppend(i) \/ Apply(i) \/ Restart(i)
                                  \/ \E j \in Server \ {i} : startInstallSnapshot(i, j)
      PROVE  UNCHANGED <<log, snapshot>>
  <2>1. CASE \E i \in Server : Restart(i)
    BY <2>1, RestartKeeps
  <2> QED
    BY <1>2, <2>1 DEF QuietLogs, AppendReplySuccess, startAppend, Apply, startInstallSnapshot,
           logVars, diskVars
<1>3. ASSUME NEW i \in Server, NEW v \in Value, Start(i, v)
      PROVE  HeadsAtSnapshot'
  <2>1. /\ \A j \in Server \ {i} : log'[j] = log[j]
        /\ snapshot' = snapshot
        /\ IsLog(log[i]) /\ \A k \in DOMAIN log[i] : log'[i][k] = log[i][k]
    BY <1>3, StartStep
  <2>2. log[i] # <<>> /\ log'[i][1] = log[i][1]
    BY <2>1 DEF IsLog
  <2> QED
    BY <2>1, <2>2, HeadsKept
<1>4. ASSUME NEW m \in appendReq, AppendEntriesConflict(m)
      PROVE  HeadsAtSnapshot'
  <2>1. PICK i : i = m.dst
    OBVIOUS
  <2>2. /\ i \in Server /\ \A j \in Server \ {i} : log'[j] = log[j]
        /\ log'[i] \in Seq(ItemType) /\ log[i] # <<>> /\ snapshot' = snapshot
        /\ \A k \in DOMAIN log'[i] : log'[i][k] = log[i][k]
    BY <1>4, <2>1, ConflictStep
  <2>3. log'[i] # <<>> => log'[i][1] = log[i][1]
    BY <2>2
  <2> QED
    BY <2>2, <2>3, HeadsKept
<1>5. ASSUME NEW m \in appendReq, AppendEntriesAccept(m)
      PROVE  HeadsAtSnapshot'
  <2>1. PICK i : i = m.dst
    OBVIOUS
  <2>2. /\ i \in Server /\ \A j \in Server \ {i} : log'[j] = log[j]
        /\ log[i] # <<>> /\ snapshot' = snapshot
        /\ \E n \in DOMAIN log[i] : \A k \in 1..n : log'[i][k] = log[i][k]
    BY <1>5, <2>1, AcceptStep
  <2>3. log[i] \in Seq(ItemType)
    BY <2>2 DEF TypeInv, TypeOK, LogTypes
  <2>4. log'[i][1] = log[i][1]
    BY <2>2, <2>3
  <2> QED
    BY <2>2, <2>4, HeadsKept
<1>6. ASSUME NEW i \in Server, SaveSnapshot(i)
      PROVE  HeadsAtSnapshot'
  <2>1. /\ \A j \in Server \ {i} : log'[j] = log[j] /\ snapshot'[j] = snapshot[j]
        /\ saving[i] # Nil
        /\ \/ log' = log /\ snapshot' = snapshot
           \/ snapshot'[i] = saving[i] /\ getDummyLogIndex(log'[i]) = saving[i].index
    BY <1>6, SaveStep
  <2> QED
    BY <2>1, HeadsKept DEF getDummyLogIndex
<1>7. ASSUME NEW m \in snapReq, InstallSnapshot(m)
      PROVE  HeadsAtSnapshot'
  <2>1. PICK i : i = m.dst
    OBVIOUS
  <2>2. /\ i \in Server
        /\ \A j \in Server \ {i} : log'[j] = log[j] /\ snapshot'[j] = snapshot[j]
        /\ log'[i][1].index = m.lastIncludedIndex
        /\ m.lastIncludedTerm \in Nat /\ m.lastIncludedIndex \in Nat
        /\ snapshot'[i] = [index |-> m.lastIncludedIndex, term |-> m.lastIncludedTerm]
    BY <1>7, <2>1, InstallStep
  <2>3. snapshot'[i] # Nil /\ snapshot'[i].index = m.lastIncludedIndex
    BY <2>2, NoSnapshotAssumption
  <2> QED
    BY <2>2, <2>3, HeadsKept
<1> QED
  BY <1>1, <1>2, <1>3, <1>4, <1>5, <1>6, <1>7, StepCases

-----------------------------------------------------------------------------
(* Only its own commands and its own snapshots change the log of a leader. *)

\* A request of its own term never reaches a leader: no other peer leads it.
LEMMA NoRivalCalls ==
    ASSUME TypeInv, ElectionInv, LeaderInv, NEW m \in appendReq \cup snapReq,
           m.dst \in Server, state[m.dst] = Leader
    PROVE  m.term # currentTerm[m.dst]
<1> SUFFICES ASSUME m.term = currentTerm[m.dst] PROVE FALSE
  OBVIOUS
<1>1. /\ m.src # m.dst /\ Leadership(m.src, m.term) \in elected
      /\ Leadership(m.dst, m.term) \in elected
  BY DEF LeaderInv, SentByLeaders
<1>2. ElectionSafety
  BY MajoritiesAgree
<1> QED
  BY <1>1, <1>2 DEF ElectionSafety, Leadership

\* What happens to the log of a peer that leads and goes on leading its term.
LEMMA LeaderLog ==
    ASSUME TypeInv, TypeInv', ElectionInv, LeaderInv, [Next]_vars,
           NEW i \in Server, state[i] = Leader, state'[i] = Leader, currentTerm'[i] = currentTerm[i]
    PROVE  \/ log'[i] = log[i]
           \/ \E v \in Value : Start(i, v)
           \/ SaveSnapshot(i)
<1>1. CASE QuietLogs
  BY <1>1 DEF QuietLogs
<1>2. ASSUME NEW j \in Server, Restart(j)
      PROVE  log' = log
  BY <1>2, RestartKeeps
<1>3. ASSUME NEW m \in appendReq, AppendEntriesConflict(m) \/ AppendEntriesAccept(m)
      PROVE  log'[i] = log[i]
  <2>1. PICK j : j = m.dst
    OBVIOUS
  <2>2. /\ j \in Server /\ currentTerm'[j] = m.term
        /\ \A k \in Server \ {j} : log'[k] = log[k]
    BY <1>3, <2>1, ConflictStep, AcceptStep
  <2>3. CASE j = i
    BY <2>1, <2>2, <2>3, NoRivalCalls
  <2> QED
    BY <2>2, <2>3
<1>4. ASSUME NEW m \in snapReq, InstallSnapshot(m)
      PROVE  log'[i] = log[i]
  <2>1. PICK j : j = m.dst
    OBVIOUS
  <2>2. /\ j \in Server /\ currentTerm'[j] = m.term
        /\ \A k \in Server \ {j} : log'[k] = log[k]
    BY <1>4, <2>1, InstallStep
  <2>3. CASE j = i
    BY <2>1, <2>2, <2>3, NoRivalCalls
  <2> QED
    BY <2>2, <2>3
<1>5. ASSUME \/ \E r \in appendRep : AppendReplySuccess(r)
             \/ \E j \in Server : \/ startAppend(j) \/ Apply(j)
                                  \/ \E k \in Server \ {j} : startInstallSnapshot(j, k)
      PROVE  log' = log
  BY <1>5 DEF AppendReplySuccess, startAppend, Apply, startInstallSnapshot, logVars
<1>6. ASSUME NEW j \in Server, NEW v \in Value, Start(j, v)
      PROVE  log'[i] = log[i] \/ Start(i, v)
  BY <1>6, StartStep
<1>7. ASSUME NEW j \in Server, SaveSnapshot(j)
      PROVE  log'[i] = log[i] \/ SaveSnapshot(i)
  BY <1>7, SaveStep
<1> QED
  BY <1>1, <1>2, <1>3, <1>4, <1>5, <1>6, <1>7, StepCases

\* An item is where getLogItemAtIndex looks for it.
LEMMA ItemPlace ==
    ASSUME NEW l, IsLog(l), NEW k \in DOMAIN l
    PROVE  /\ l[k].index \in Nat
           /\ logContainIndex(l, l[k].index)
           /\ getLogItemAtIndex(l, l[k].index) = l[k]
<1>1. PICK d \in Nat, n \in Nat : d = getDummyLogIndex(l) /\ n = Len(l) /\ d = l[1].index
  BY LogBounds DEF getDummyLogIndex
<1>2. k \in 1..n
  BY <1>1 DEF IsLog
<1>3. l[k].index = d + k - 1
  BY <1>1 DEF IsLog
<1>5. getLastLogIndex(l) = d + n - 1
  BY <1>1, LogBounds
<1>4. l[k].index - d + 1 = k /\ d <= l[k].index /\ l[k].index <= d + n - 1 /\ l[k].index \in Nat
  BY <1>2, <1>3
<1> QED
  BY <1>1, <1>4, <1>5 DEF logContainIndex, getLogItemAtIndex

\* A log kept but for a prefix has its items at the same indexes.
LEMMA ShiftedItems ==
    ASSUME NEW l, IsLog(l), NEW q, IsLog(q), NEW n \in Nat,
           getLastLogIndex(q) >= getLastLogIndex(l),
           \A k \in DOMAIN q : n + k \in DOMAIN l => q[k] = l[n + k],
           n + 1 \in DOMAIN l,
           NEW k \in DOMAIN l, l[k].index >= getDummyLogIndex(q)
    PROVE  /\ logContainIndex(q, l[k].index)
           /\ getLogItemAtIndex(q, l[k].index) = l[k]
<1>1. PICK d \in Nat, len \in Nat : d = getDummyLogIndex(l) /\ len = Len(l) /\ d = l[1].index /\ len >= 1
  BY LogBounds DEF getDummyLogIndex
<1>2. PICK e \in Nat, m \in Nat : e = getDummyLogIndex(q) /\ m = Len(q) /\ e = q[1].index /\ m >= 1
  BY LogBounds DEF getDummyLogIndex
<1>3. k \in 1..len /\ DOMAIN q = 1..m /\ DOMAIN l = 1..len
  BY <1>1, <1>2 DEF IsLog
<1>4. getLastLogIndex(l) = d + len - 1 /\ getLastLogIndex(q) = e + m - 1
  BY <1>1, <1>2, LogBounds
<1>5. l[k].index = d + k - 1
  BY <1>1 DEF IsLog
<1>6. e = d + n
  <2>1. q[1] = l[n + 1]
    BY <1>2, <1>3
  <2>2. l[n + 1].index = d + (n + 1) - 1
    BY <1>1 DEF IsLog
  <2> QED
    BY <1>1, <1>2, <2>1, <2>2
<1>7. PICK x \in Nat : x = l[k].index /\ x = d + k - 1
  BY <1>1, <1>3, <1>5
<1>8. e <= x /\ x <= e + m - 1
  <2>1. e <= x /\ e + m - 1 >= d + len - 1
    BY <1>2, <1>4, <1>7
  <2>2. k \in Nat /\ k <= len
    BY <1>3
  <2> QED
    BY <1>7, <2>1, <2>2
<1>9. PICK y \in Int : y = x - e + 1
  BY <1>1, <1>2, <1>7
<1>10. y \in 1..m
  BY <1>2, <1>7, <1>8, <1>9
<1>11. n + y = k
  <2>1. k \in Int /\ n \in Int /\ d \in Int
    BY <1>3
  <2>2. x = d + k - 1 /\ e = d + n /\ y = x - e + 1
    BY <1>6, <1>7, <1>9
  <2> QED
    BY <2>1, <2>2
<1>12. q[x - e + 1] = l[k]
  BY <1>3, <1>9, <1>10, <1>11
<1> QED
  BY <1>2, <1>4, <1>7, <1>8, <1>12 DEF logContainIndex, getLogItemAtIndex

\* One step keeps the entries of a leader.
LEMMA LeaderKeeps ==
    ASSUME TypeInv, TypeInv', ElectionInv, LeaderInv, [Next]_vars,
           NEW i \in Server, state[i] = Leader, state'[i] = Leader, currentTerm'[i] = currentTerm[i],
           NEW k \in DOMAIN log[i], log[i][k].index >= getDummyLogIndex(log'[i])
    PROVE  /\ logContainIndex(log'[i], log[i][k].index)
           /\ getLogItemAtIndex(log'[i], log[i][k].index) = log[i][k]
<1>1. IsLog(log[i])
  BY DEF TypeInv, TypeOK, LogTypes, LogsConsecutive, IsLog
<1>2. CASE log'[i] = log[i]
  BY <1>1, <1>2, ItemPlace
<1>3. ASSUME NEW v \in Value, Start(i, v)
      PROVE  /\ logContainIndex(log'[i], log[i][k].index)
             /\ getLogItemAtIndex(log'[i], log[i][k].index) = log[i][k]
  <2>1. /\ log'[i] \in Seq(ItemType) /\ Len(log'[i]) = Len(log[i]) + 1
        /\ \A n \in DOMAIN log[i] : n \in DOMAIN log'[i] /\ log'[i][n] = log[i][n]
    BY <1>3, StartStep
  <2>2. IsLog(log'[i])
    BY <1>1, <2>1 DEF TypeInv, LogsConsecutive, IsLog
  <2> QED
    BY <2>1, <2>2, ItemPlace
<1>4. CASE SaveSnapshot(i)
  <2>1. \/ log'[i] = log[i]
        \/ /\ IsLog(log'[i]) /\ getLastLogIndex(log'[i]) = getLastLogIndex(log[i])
           /\ \E n \in Nat : \A q \in DOMAIN log'[i] :
                  n + q \in DOMAIN log[i] /\ log'[i][q] = log[i][n + q]
    BY <1>4, SaveStep
  <2>2. CASE /\ IsLog(log'[i]) /\ getLastLogIndex(log'[i]) = getLastLogIndex(log[i])
             /\ \E n \in Nat : \A q \in DOMAIN log'[i] :
                    n + q \in DOMAIN log[i] /\ log'[i][q] = log[i][n + q]
    <3>1. PICK n \in Nat : \A q \in DOMAIN log'[i] :
              n + q \in DOMAIN log[i] /\ log'[i][q] = log[i][n + q]
      BY <2>2
    <3>2. 1 \in DOMAIN log'[i]
      BY <2>2 DEF IsLog
    <3>3. getLastLogIndex(log'[i]) >= getLastLogIndex(log[i])
      BY <1>1, <2>2, LogBounds
    <3>4. PICK l, q : l = log[i] /\ q = log'[i]
      OBVIOUS
    <3>5. /\ IsLog(l) /\ IsLog(q) /\ getLastLogIndex(q) >= getLastLogIndex(l)
          /\ \A x \in DOMAIN q : n + x \in DOMAIN l => q[x] = l[n + x]
          /\ n + 1 \in DOMAIN l /\ k \in DOMAIN l /\ l[k].index >= getDummyLogIndex(q)
      BY <1>1, <2>2, <3>1, <3>2, <3>3, <3>4
    <3>6. logContainIndex(q, l[k].index) /\ getLogItemAtIndex(q, l[k].index) = l[k]
      BY <3>5, ShiftedItems
    <3> QED
      BY <3>4, <3>6
  <2> QED
    BY <1>2, <2>1, <2>2
<1> QED
  BY <1>2, <1>3, <1>4, LeaderLog

-----------------------------------------------------------------------------
(* Log Matching: links only move between logs and requests, and only the   *)
(* leader of a term makes new ones.                                        *)

\* Where links are.
LEMMA LinkPlaces ==
    /\ \A i \in Server : \A k \in 2..Len(log[i]) : Link(log[i][k - 1].term, log[i][k]) \in Links
    /\ \A m \in appendReq : SentLinks(m) \subseteq Links
    /\ \A a \in Links : \/ \E i \in Server : \E k \in 2..Len(log[i]) : a = Link(log[i][k - 1].term, log[i][k])
                        \/ \E m \in appendReq : a \in SentLinks(m)
<1>1. ASSUME NEW i \in Server PROVE LogLinks(log[i]) \subseteq Links
  BY DEF Links
<1>2. ASSUME NEW i \in Server, NEW k \in 2..Len(log[i])
      PROVE  Link(log[i][k - 1].term, log[i][k]) \in LogLinks(log[i])
  BY DEF LogLinks
<1>3. ASSUME NEW m \in appendReq PROVE SentLinks(m) \subseteq Links
  BY DEF Links
<1>4. ASSUME NEW a \in Links
      PROVE  \/ \E i \in Server : a \in LogLinks(log[i])
             \/ \E m \in appendReq : a \in SentLinks(m)
  BY DEF Links
<1>5. ASSUME NEW i \in Server, NEW a \in LogLinks(log[i])
      PROVE  \E k \in 2..Len(log[i]) : a = Link(log[i][k - 1].term, log[i][k])
  BY DEF LogLinks
<1> QED
  BY <1>1, <1>2, <1>3, <1>4, <1>5

\* The links after a step, from the logs and the requests after it.
LEMMA LinksMoved ==
    ASSUME NEW S,
           \A i \in Server : \A k \in 2..Len(log'[i]) : Link(log'[i][k - 1].term, log'[i][k]) \in S,
           \A m \in appendReq' : SentLinks(m) \subseteq S
    PROVE  Links' \subseteq S
<1> SUFFICES ASSUME NEW a \in Links' PROVE a \in S
  OBVIOUS
<1>1. \/ \E i \in Server : a \in LogLinks(log'[i])
      \/ \E m \in appendReq' : a \in SentLinks(m)
  BY DEF Links, LogLinks, SentLinks
<1>2. ASSUME NEW i \in Server, a \in LogLinks(log'[i]) PROVE a \in S
  BY <1>2 DEF LogLinks
<1> QED
  BY <1>1, <1>2

\* A request has the links it had, whoever waits for it.
LEMMA SameSentLinks ==
    ASSUME NEW n \in appendReq, NEW m, m.entries = n.entries, m.prevLogTerm = n.prevLogTerm
    PROVE  SentLinks(m) \subseteq Links
<1>1. SentLinks(m) = SentLinks(n)
  BY DEF SentLinks
<1> QED
  BY <1>1, LinkPlaces

\* When links are only moved and no leader is made, they still agree.
LEMMA LinksKept ==
    ASSUME LinksAgree, LinksFromLeaders, Links' \subseteq Links, elected \subseteq elected',
           \A i \in Server : state'[i] = Leader =>
               /\ state[i] = Leader /\ currentTerm'[i] = currentTerm[i]
               /\ getLastLogIndex(log'[i]) = getLastLogIndex(log[i])
    PROVE  LinksAgree' /\ LinksFromLeaders'
<1>1. LinksAgree'
  BY DEF LinksAgree
<1>2. \A a \in Links' : a.prev <= a.item.term /\ \E e \in elected' : e.term = a.item.term
  BY DEF LinksFromLeaders
<1>3. ASSUME NEW i \in Server, state'[i] = Leader, NEW a \in Links', a.item.term = currentTerm'[i]
      PROVE  a.item.index <= getLastLogIndex(log'[i])
  BY <1>3 DEF LinksFromLeaders
<1> QED
  BY <1>1, <1>2, <1>3 DEF LinksFromLeaders

\* A link is about an item of the log.
LEMMA LinksTyped ==
    ASSUME TypeInv, NEW a \in Links
    PROVE  a.item.index \in Nat /\ a.item.term \in Nat
<1>1. ASSUME NEW i \in Server, NEW k \in 2..Len(log[i]) PROVE log[i][k] \in ItemType
  <2>1. log[i] \in Seq(ItemType)
    BY DEF TypeInv, TypeOK, LogTypes
  <2> QED
    BY <2>1
<1>2. ASSUME NEW m \in appendReq, NEW k \in DOMAIN m.entries PROVE m.entries[k] \in ItemType
  <2>1. m.entries \in Seq(ItemType)
    BY DEF TypeInv, TypeOK, CallTypes, AppendReqType
  <2> QED
    BY <2>1
<1>3. a.item \in ItemType
  <2>1. CASE \E i \in Server : \E k \in 2..Len(log[i]) : a = Link(log[i][k - 1].term, log[i][k])
    BY <1>1, <2>1 DEF Link
  <2>2. CASE \E m \in appendReq : a \in SentLinks(m)
    BY <1>2, <2>2 DEF SentLinks, Link
  <2> QED
    BY <2>1, <2>2, LinkPlaces
<1> QED
  BY <1>3 DEF ItemType

\* A step without a new leader makes none: who leads after it led before it.
LEMMA LeadersStay ==
    ASSUME TypeInv, TypeInv', ElectionInv, [Next]_vars,
           ~\E r \in voteRep : VoteReplyCount(r) /\ Wins(r)
    PROVE  /\ elected \subseteq elected'
           /\ \A i \in Server : state'[i] = Leader => state[i] = Leader /\ currentTerm'[i] = currentTerm[i]
BY Roles DEF SameRole, LaterTerm

\* A new leader finds no entry of its term.
LEMMA LinksWin ==
    ASSUME TypeInv, TypeInv', ElectionInv, ElectionSafety', LeaderInv, LinksAgree, LinksFromLeaders,
           NEW r \in voteRep, VoteReplyCount(r), Wins(r)
    PROVE  LinksAgree' /\ LinksFromLeaders'
<1>1. PICK i : i = r.src
  OBVIOUS
<1>2. /\ i \in Server /\ currentTerm' = currentTerm
      /\ \A j \in Server \ {i} : state'[j] = state[j]
      /\ elected' = elected \cup {Leadership(i, currentTerm[i])}
      /\ log' = log /\ appendReq' = appendReq
  BY <1>1, WinStep
<1>3. Leadership(i, currentTerm[i]) \notin elected
  BY <1>1, FirstWin
<1>4. Links' = Links
  BY <1>2 DEF Links
<1>5. ASSUME NEW a \in Links PROVE a.item.term # currentTerm[i]
  <2>1. SUFFICES ASSUME a.item.term = currentTerm[i] PROVE FALSE
    OBVIOUS
  <2>2. PICK e \in elected : e.term = currentTerm[i]
    BY <2>1 DEF LinksFromLeaders
  <2>3. e.leader = i
    <3>1. e \in elected' /\ Leadership(i, currentTerm[i]) \in elected'
      BY <1>2
    <3> QED
      BY <2>2, <3>1 DEF ElectionSafety, Leadership
  <2>4. e \in [term : Nat, leader : Server]
    BY DEF TypeInv, TypeOK, HistoryTypes
  <2>5. e = Leadership(i, currentTerm[i])
    BY <2>2, <2>3, <2>4 DEF Leadership
  <2> QED
    BY <1>3, <2>5
<1>6. LinksAgree'
  BY <1>4 DEF LinksAgree
<1>7. \A a \in Links' : a.prev <= a.item.term /\ \E e \in elected' : e.term = a.item.term
  BY <1>2, <1>4 DEF LinksFromLeaders
<1>8. ASSUME NEW j \in Server, state'[j] = Leader, NEW a \in Links', a.item.term = currentTerm'[j]
      PROVE  a.item.index <= getLastLogIndex(log'[j])
  BY <1>2, <1>4, <1>5, <1>8 DEF LinksFromLeaders
<1> QED
  BY <1>6, <1>7, <1>8 DEF LinksFromLeaders

\* Start makes one link, of an index and a term no other link has.
LEMMA LinksStart ==
    ASSUME TypeInv, TypeInv', ElectionInv, LeaderInv, TermsBounded, LinksAgree, LinksFromLeaders,
           NEW i \in Server, NEW v \in Value, Start(i, v)
    PROVE  LinksAgree' /\ LinksFromLeaders'
<1>1. /\ state[i] = Leader /\ UNCHANGED electionVars
      /\ \A j \in Server \ {i} : log'[j] = log[j]
      /\ IsLog(log[i])
      /\ log'[i] \in Seq(ItemType) /\ Len(log'[i]) = Len(log[i]) + 1
      /\ \A k \in DOMAIN log[i] : k \in DOMAIN log'[i] /\ log'[i][k] = log[i][k]
      /\ log'[i][Len(log[i]) + 1] = LogItem(v, currentTerm[i], getLastLogIndex(log[i]) + 1)
      /\ appendReq' = appendReq /\ elected' = elected
  BY StartStep
<1>2. PICK len \in Nat, last \in Nat, t \in Nat :
         /\ len = Len(log[i]) /\ last = getLastLogIndex(log[i]) /\ t = currentTerm[i] /\ len >= 1
  BY <1>1, LogBounds DEF TypeInv, TypeOK, PeerTypes
<1>3. PICK new : new = Link(log[i][len].term, LogItem(v, t, last + 1))
  OBVIOUS
<1>4. /\ new.prev = log[i][len].term /\ new.item.term = t /\ new.item.index = last + 1
  BY <1>3 DEF Link, LogItem
<1>5. Links' \subseteq Links \cup {new}
  <2>1. PICK S : S = Links \cup {new}
    OBVIOUS
  <2>2. ASSUME NEW j \in Server, NEW k \in 2..Len(log'[j])
        PROVE  Link(log'[j][k - 1].term, log'[j][k]) \in S
    <3>1. CASE j # i
      <4>1. log'[j] = log[j]
        BY <1>1, <3>1
      <4> QED
        BY <2>1, <4>1, LinkPlaces
    <3>2. CASE j = i /\ k \in 2..len
      <4>1. DOMAIN log[i] = 1..len
        BY <1>1, <1>2 DEF IsLog
      <4>2. k \in DOMAIN log[i] /\ k - 1 \in DOMAIN log[i]
        BY <3>2, <4>1
      <4>3. log'[i][k] = log[i][k] /\ log'[i][k - 1] = log[i][k - 1]
        BY <1>1, <4>2
      <4> QED
        BY <1>2, <2>1, <3>2, <4>3, LinkPlaces
    <3>3. CASE j = i /\ k = len + 1
      <4>1. k - 1 = len /\ len \in DOMAIN log[i]
        BY <1>1, <1>2, <3>3 DEF IsLog
      <4>2. log'[i][k] = LogItem(v, t, last + 1) /\ log'[i][k - 1] = log[i][len]
        BY <1>1, <1>2, <3>3, <4>1
      <4> QED
        BY <1>3, <2>1, <3>3, <4>2
    <3>4. j = i => k \in 2..(len + 1)
      BY <1>1, <1>2
    <3> QED
      BY <1>2, <3>1, <3>2, <3>3, <3>4
  <2>3. \A m \in appendReq' : SentLinks(m) \subseteq S
    BY <1>1, <2>1, LinkPlaces
  <2> QED
    BY <2>1, <2>2, <2>3, LinksMoved
<1>6. ASSUME NEW a \in Links, a.item.term = t PROVE a.item.index <= last
  BY <1>1, <1>2, <1>6 DEF LinksFromLeaders
<1>7. LinksAgree'
  <2>1. SUFFICES ASSUME NEW a \in Links \cup {new}, NEW b \in Links \cup {new},
                        a.item.index = b.item.index, a.item.term = b.item.term
                 PROVE  a.item.cmd = b.item.cmd /\ a.prev = b.prev
    BY <1>5 DEF LinksAgree
  <2>2. CASE a \in Links /\ b \in Links
    BY <2>1, <2>2 DEF LinksAgree
  <2>3. a = new /\ b \in Links => FALSE
    BY <1>2, <1>4, <1>6, <2>1
  <2>4. b = new /\ a \in Links => FALSE
    BY <1>2, <1>4, <1>6, <2>1
  <2> QED
    BY <2>2, <2>3, <2>4
<1>8. Leadership(i, t) \in elected
  BY <1>1, <1>2 DEF LeaderInv, SentByLeaders
<1>9. ASSUME NEW a \in Links'
      PROVE  a.prev <= a.item.term /\ \E e \in elected' : e.term = a.item.term
  <2>1. CASE a \in Links
    BY <1>1, <2>1 DEF LinksFromLeaders
  <2>2. CASE a = new
    <3>1. len \in DOMAIN log[i]
      BY <1>1, <1>2 DEF IsLog
    <3>2. log[i][len].term <= t
      BY <1>2, <3>1 DEF TermsBounded
    <3>3. Leadership(i, t).term = t
      BY DEF Leadership
    <3> QED
      BY <1>1, <1>4, <1>8, <2>2, <3>2, <3>3
  <2> QED
    BY <1>5, <2>1, <2>2
<1>10. ASSUME NEW j \in Server, state'[j] = Leader, NEW a \in Links', a.item.term = currentTerm'[j]
       PROVE  a.item.index <= getLastLogIndex(log'[j])
  <2>1. state[j] = Leader /\ a.item.term = currentTerm[j]
    BY <1>1, <1>10 DEF electionVars
  <2>2. CASE j = i
    <3>1. getLastLogIndex(log'[i]) = last + 1
      BY <1>1, <1>2 DEF getLastLogIndex, LogItem
    <3>2. a \in Links => a.item.index \in Nat /\ a.item.index <= last
      BY <1>2, <1>6, <2>1, <2>2, LinksTyped
    <3> QED
      BY <1>2, <1>4, <1>5, <2>2, <3>1, <3>2
  <2>3. CASE j # i
    <3>1. log'[j] = log[j]
      BY <1>1, <2>3
    <3>2. a # new
      <4>1. SUFFICES ASSUME a = new PROVE FALSE
        OBVIOUS
      <4>2. Leadership(j, t) \in elected
        BY <1>4, <2>1, <4>1 DEF LeaderInv, SentByLeaders
      <4>3. ElectionSafety
        BY MajoritiesAgree
      <4> QED
        BY <1>8, <2>3, <4>2, <4>3 DEF ElectionSafety, Leadership
    <3> QED
      BY <1>5, <2>1, <3>1, <3>2 DEF LinksFromLeaders
  <2> QED
    BY <2>2, <2>3
<1> QED
  BY <1>7, <1>9, <1>10 DEF LinksFromLeaders

\* A log that is a piece of an old one has its links.
LEMMA PieceLinks ==
    ASSUME TypeInv, NEW i \in Server, NEW n \in Nat, NEW q \in Seq(ItemType),
           \A k \in DOMAIN q : n + k \in DOMAIN log[i] /\ q[k] = log[i][n + k],
           NEW k \in 2..Len(q)
    PROVE  Link(q[k - 1].term, q[k]) \in Links
<1>1. log[i] \in Seq(ItemType)
  BY DEF TypeInv, TypeOK, LogTypes
<1>2. PICK len \in Nat : len = Len(log[i]) /\ DOMAIN log[i] = 1..len
  BY <1>1
<1>3. k \in DOMAIN q /\ k - 1 \in DOMAIN q /\ k \in Int /\ k >= 2
  OBVIOUS
<1>4. PICK x \in Int : x = n + k /\ n + (k - 1) = x - 1 /\ x >= 2
  BY <1>3
<1>5. x \in DOMAIN log[i] /\ q[k] = log[i][x] /\ q[k - 1] = log[i][x - 1]
  BY <1>3, <1>4
<1>6. x \in 2..Len(log[i])
  BY <1>2, <1>4, <1>5
<1> QED
  BY <1>5, <1>6, LinkPlaces

\* The entries of a request that extends a log: the first follows PrevLogTerm.
LEMMA AcceptLinks ==
    ASSUME TypeInv, NEW m \in appendReq, AppendEntriesAccept(m), NEW i, i = m.dst,
           NEW k \in 2..Len(log'[i])
    PROVE  Link(log'[i][k - 1].term, log'[i][k]) \in Links
<1>1. /\ i \in Server
      /\ \E n \in DOMAIN log[i] :
            /\ log'[i] \in Seq(ItemType) /\ Len(log'[i]) = n + Len(m.entries)
            /\ \A x \in 1..n : x \in DOMAIN log[i] /\ log'[i][x] = log[i][x]
            /\ \A x \in DOMAIN m.entries : log'[i][n + x] = m.entries[x]
            /\ log[i][n].term = m.prevLogTerm
  BY AcceptStep
<1>2. PICK n \in DOMAIN log[i] :
            /\ log'[i] \in Seq(ItemType) /\ Len(log'[i]) = n + Len(m.entries)
            /\ \A x \in 1..n : x \in DOMAIN log[i] /\ log'[i][x] = log[i][x]
            /\ \A x \in DOMAIN m.entries : log'[i][n + x] = m.entries[x]
            /\ log[i][n].term = m.prevLogTerm
  BY <1>1
<1>3. log[i] \in Seq(ItemType) /\ m.entries \in Seq(ItemType)
  BY <1>1 DEF TypeInv, TypeOK, LogTypes, CallTypes, AppendReqType
<1>4. PICK len \in Nat, e \in Nat : /\ len = Len(log[i]) /\ DOMAIN log[i] = 1..len
                                    /\ e = Len(m.entries) /\ DOMAIN m.entries = 1..e
  BY <1>3
<1>5. n \in 1..len /\ k \in 2..(n + e) /\ n \in Nat
  BY <1>2, <1>4
<1>6. CASE k <= n
  <2>1. k \in 1..n /\ k - 1 \in 1..n /\ k \in 2..Len(log[i])
    BY <1>4, <1>5, <1>6
  <2>2. log'[i][k] = log[i][k] /\ log'[i][k - 1] = log[i][k - 1]
    BY <1>2, <2>1
  <2> QED
    BY <1>1, <2>1, <2>2, LinkPlaces
<1>7. CASE k > n
  <2>1. PICK x \in 1..e : n + x = k
    BY <1>4, <1>5, <1>7
  <2>2. log'[i][k] = m.entries[x]
    BY <1>2, <1>4, <2>1
  <2>3. log'[i][k - 1].term = IF x = 1 THEN m.prevLogTerm ELSE m.entries[x - 1].term
    <3>1. CASE x = 1
      <4>1. k - 1 = n /\ n \in 1..n
        BY <1>4, <1>5, <2>1, <3>1
      <4> QED
        BY <1>2, <3>1, <4>1
    <3>2. CASE x # 1
      <4>1. x - 1 \in 1..e /\ n + (x - 1) = k - 1
        BY <1>4, <1>5, <2>1, <3>2
      <4> QED
        BY <1>2, <1>4, <3>2, <4>1
    <3> QED
      BY <3>1, <3>2
  <2>4. Link(log'[i][k - 1].term, log'[i][k]) \in SentLinks(m)
    BY <1>4, <2>1, <2>2, <2>3 DEF SentLinks
  <2> QED
    BY <2>4, LinkPlaces
<1> QED
  BY <1>5, <1>6, <1>7

\* A request carries links of its sender's log.
LEMMA RequestLinks ==
    ASSUME TypeInv, NEW i \in Server, startAppend(i), NEW m \in appendReq', m \notin appendReq
    PROVE  SentLinks(m) \subseteq Links
<1>1. PICK j \in Server \ {i} : \E s \in freeSlots(i, j) :
          /\ logContainIndex(log[i], getPreviousIndexForServer(i, j))
          /\ m = AppendRequest(i, j, s)
  BY StartAppendCalls
<1>2. Running(i)
  BY DEF startAppend
<1>3. /\ m.entries \in Seq(ItemType)
      /\ \E n \in DOMAIN log[i] :
             /\ m.prevLogTerm = log[i][n].term
             /\ \A k \in DOMAIN m.entries :
                    n + k \in DOMAIN log[i] /\ m.entries[k] = log[i][n + k]
  BY <1>1, <1>2, RequestEntries
<1>4. PICK n \in DOMAIN log[i] :
             /\ m.prevLogTerm = log[i][n].term
             /\ \A k \in DOMAIN m.entries :
                    n + k \in DOMAIN log[i] /\ m.entries[k] = log[i][n + k]
  BY <1>3
<1>5. log[i] \in Seq(ItemType)
  BY DEF TypeInv, TypeOK, LogTypes
<1>6. PICK len \in Nat : len = Len(log[i]) /\ DOMAIN log[i] = 1..len /\ n \in 1..len
  BY <1>5
<1>7. ASSUME NEW k \in DOMAIN m.entries
      PROVE  Link(IF k = 1 THEN m.prevLogTerm ELSE m.entries[k - 1].term, m.entries[k]) \in Links
  <2>1. k \in Nat /\ k >= 1 /\ (k # 1 => k - 1 \in DOMAIN m.entries)
    BY <1>3
  <2>2. PICK x \in Int : x = n + k /\ x - 1 = n + (k - 1) /\ x >= 2
    <3>1. n \in Nat /\ n >= 1 /\ k \in Nat /\ k >= 1
      BY <1>6, <2>1
    <3> QED
      BY <3>1
  <2>3. x \in DOMAIN log[i] /\ m.entries[k] = log[i][x]
    BY <1>4, <2>2
  <2>4. (IF k = 1 THEN m.prevLogTerm ELSE m.entries[k - 1].term) = log[i][x - 1].term
    <3>1. CASE k = 1
      <4>1. x - 1 = n
        BY <1>6, <2>2, <3>1
      <4> QED
        BY <1>4, <3>1, <4>1
    <3>2. CASE k # 1
      BY <1>4, <2>1, <2>2, <3>2
    <3> QED
      BY <3>1, <3>2
  <2>5. x \in 2..Len(log[i])
    BY <1>6, <2>2, <2>3
  <2> QED
    BY <2>3, <2>4, <2>5, LinkPlaces
<1> QED
  BY <1>7 DEF SentLinks

\* All steps but Start only move links.
LEMMA OnlyStartLinks ==
    ASSUME TypeInv, TypeInv', [Next]_vars, ~\E i \in Server : \E v \in Value : Start(i, v)
    PROVE  Links' \subseteq Links
<1>0. PICK S : S = Links
  OBVIOUS
<1>1. ASSUME NEW i \in Server, log'[i] = log[i]
      PROVE  \A k \in 2..Len(log'[i]) : Link(log'[i][k - 1].term, log'[i][k]) \in S
  BY <1>0, <1>1, LinkPlaces
<1>2. \A m \in appendReq : SentLinks(m) \subseteq S
  BY <1>0, LinkPlaces
<1>3. CASE log' = log /\ appendReq' \subseteq appendReq
  BY <1>0, <1>1, <1>2, <1>3, LinksMoved
<1>4. ASSUME NEW i \in Server, startAppend(i)
      PROVE  Links' \subseteq Links
  <2>1. log' = log
    BY <1>4 DEF startAppend, logVars
  <2>2. \A m \in appendReq' : SentLinks(m) \subseteq S
    BY <1>0, <1>2, <1>4, RequestLinks
  <2> QED
    BY <1>0, <1>1, <2>1, <2>2, LinksMoved
<1>5. ASSUME NEW i \in Server, Restart(i)
      PROVE  Links' \subseteq Links
  <2>1. log' = log /\ appendReq' = orphaned(appendReq, i)
    BY <1>5, RestartKeeps
  <2>2. ASSUME NEW m \in appendReq' PROVE SentLinks(m) \subseteq S
    <3>1. PICK n \in appendReq : m.prevLogTerm = n.prevLogTerm /\ m.entries = n.entries
      BY <2>1, OrphanedFields
    <3> QED
      BY <1>0, <3>1, SameSentLinks
  <2> QED
    BY <1>0, <1>1, <2>1, <2>2, LinksMoved
<1>6. ASSUME NEW m \in appendReq, AppendEntriesConflict(m)
      PROVE  Links' \subseteq Links
  <2>1. PICK i : i = m.dst
    OBVIOUS
  <2>2. /\ i \in Server /\ \A j \in Server \ {i} : log'[j] = log[j]
        /\ log'[i] \in Seq(ItemType)
        /\ \A k \in DOMAIN log'[i] : k \in DOMAIN log[i] /\ log'[i][k] = log[i][k]
        /\ appendReq' \subseteq appendReq
    BY <1>6, <2>1, ConflictStep
  <2>3. PICK q : q = log'[i]
    OBVIOUS
  <2>4. \A k \in DOMAIN q : 0 + k \in DOMAIN log[i] /\ q[k] = log[i][0 + k]
    BY <2>2, <2>3
  <2>5. q \in Seq(ItemType) /\ i \in Server
    BY <2>2, <2>3
  <2>6. \A k \in 2..Len(q) : Link(q[k - 1].term, q[k]) \in Links
    BY <2>4, <2>5, PieceLinks
  <2>7. \A j \in Server : \A k \in 2..Len(log'[j]) : Link(log'[j][k - 1].term, log'[j][k]) \in S
    BY <1>0, <1>1, <2>2, <2>3, <2>6
  <2> QED
    BY <1>0, <1>2, <2>2, <2>7, LinksMoved
<1>7. ASSUME NEW m \in appendReq, AppendEntriesAccept(m)
      PROVE  Links' \subseteq Links
  <2>1. PICK i : i = m.dst
    OBVIOUS
  <2>2. /\ i \in Server /\ \A j \in Server \ {i} : log'[j] = log[j]
        /\ appendReq' \subseteq appendReq
    BY <1>7, <2>1, AcceptStep
  <2>3. \A k \in 2..Len(log'[i]) : Link(log'[i][k - 1].term, log'[i][k]) \in S
    BY <1>0, <1>7, <2>1, AcceptLinks
  <2>4. \A j \in Server : \A k \in 2..Len(log'[j]) : Link(log'[j][k - 1].term, log'[j][k]) \in S
    BY <1>1, <2>2, <2>3
  <2> QED
    BY <1>0, <1>2, <2>2, <2>4, LinksMoved
<1>8. ASSUME NEW i \in Server, SaveSnapshot(i)
      PROVE  Links' \subseteq Links
  <2>1. /\ appendReq' = appendReq /\ \A j \in Server \ {i} : log'[j] = log[j]
        /\ \/ log' = log
           \/ /\ IsLog(log'[i])
              /\ \E n \in Nat : \A k \in DOMAIN log'[i] :
                     n + k \in DOMAIN log[i] /\ log'[i][k] = log[i][n + k]
    BY <1>8, SaveStep
  <2>2. CASE log' = log
    BY <1>3, <2>1, <2>2
  <2>3. CASE /\ IsLog(log'[i])
             /\ \E n \in Nat : \A k \in DOMAIN log'[i] :
                    n + k \in DOMAIN log[i] /\ log'[i][k] = log[i][n + k]
    <3>1. PICK q : q = log'[i]
      OBVIOUS
    <3>2. PICK n \in Nat : \A k \in DOMAIN q : n + k \in DOMAIN log[i] /\ q[k] = log[i][n + k]
      BY <2>3, <3>1
    <3>3. q \in Seq(ItemType)
      BY <2>3, <3>1 DEF IsLog
    <3>4. \A k \in 2..Len(q) : Link(q[k - 1].term, q[k]) \in S
      BY <1>0, <3>2, <3>3, PieceLinks
    <3>5. \A j \in Server : \A k \in 2..Len(log'[j]) : Link(log'[j][k - 1].term, log'[j][k]) \in S
      BY <1>1, <2>1, <3>1, <3>4
    <3> QED
      BY <1>0, <1>2, <2>1, <3>5, LinksMoved
  <2> QED
    BY <2>1, <2>2, <2>3
<1>9. ASSUME NEW m \in snapReq, InstallSnapshot(m)
      PROVE  Links' \subseteq Links
  <2>1. PICK i : i = m.dst
    OBVIOUS
  <2>2. /\ i \in Server /\ \A j \in Server \ {i} : log'[j] = log[j]
        /\ Len(log'[i]) = 1 /\ appendReq' = appendReq
    BY <1>9, <2>1, InstallStep
  <2>3. \A k \in 2..Len(log'[i]) : Link(log'[i][k - 1].term, log'[i][k]) \in S
    BY <2>2
  <2>4. \A j \in Server : \A k \in 2..Len(log'[j]) : Link(log'[j][k - 1].term, log'[j][k]) \in S
    BY <1>1, <2>2, <2>3
  <2> QED
    BY <1>0, <1>2, <2>2, <2>4, LinksMoved
<1>10. ASSUME \/ QuietLogs \/ \E r \in appendRep : AppendReplySuccess(r)
              \/ \E i \in Server : \/ Apply(i) \/ \E j \in Server \ {i} : startInstallSnapshot(i, j)
       PROVE  log' = log /\ appendReq' \subseteq appendReq
  BY <1>10 DEF QuietLogs, AppendReplySuccess, Apply, startInstallSnapshot, logVars, appendNet
<1> QED
  BY <1>3, <1>4, <1>5, <1>6, <1>7, <1>8, <1>9, <1>10, StepCases

LEMMA LinksNext ==
    ASSUME TypeInv, TypeInv', ElectionInv, ElectionSafety', LeaderInv, TermsBounded,
           LinksAgree, LinksFromLeaders, [Next]_vars
    PROVE  LinksAgree' /\ LinksFromLeaders'
<1>1. CASE \E r \in voteRep : VoteReplyCount(r) /\ Wins(r)
  BY <1>1, LinksWin
<1>2. CASE \E i \in Server : \E v \in Value : Start(i, v)
  BY <1>2, LinksStart
<1>3. CASE /\ ~\E r \in voteRep : VoteReplyCount(r) /\ Wins(r)
           /\ ~\E i \in Server : \E v \in Value : Start(i, v)
  <2>1. Links' \subseteq Links
    BY <1>3, OnlyStartLinks
  <2>2. /\ elected \subseteq elected'
        /\ \A i \in Server : state'[i] = Leader => state[i] = Leader /\ currentTerm'[i] = currentTerm[i]
    BY <1>3, LeadersStay
  <2>3. ASSUME NEW i \in Server, state'[i] = Leader
        PROVE  getLastLogIndex(log'[i]) = getLastLogIndex(log[i])
    <3>1. log'[i] = log[i] \/ SaveSnapshot(i)
      BY <1>3, <2>2, <2>3, LeaderLog
    <3>2. CASE SaveSnapshot(i)
      BY <3>2, SaveStep
    <3> QED
      BY <3>1, <3>2
  <2> QED
    BY <2>1, <2>2, <2>3, LinksKept
<1> QED
  BY <1>1, <1>2, <1>3

-----------------------------------------------------------------------------
LEMMA LogInit == Init => LogInv
<1> SUFFICES ASSUME Init PROVE LogInv
  OBVIOUS
<1>1. /\ \A i \in Server : /\ log[i] = freshLog /\ applyCh[i] = <<>> /\ saving[i] = Nil
                           /\ snapshot[i] = Nil /\ state[i] = Follower /\ currentTerm[i] = 0
      /\ appendReq = {} /\ snapReq = {} /\ elected = {}
  BY DEF Init
<1>2. /\ freshLog # <<>> /\ Len(freshLog) = 1 /\ DOMAIN freshLog = {1}
      /\ freshLog[1].term = 0 /\ freshLog[1].index = 0
  BY DEF freshLog, LogItem
<1>3. HeadsAtSnapshot
  BY <1>1, <1>2 DEF HeadsAtSnapshot, getDummyLogIndex
<1>4. TermsBounded
  BY <1>1, <1>2 DEF TermsBounded
<1>5. LeaderInv
  BY <1>1 DEF LeaderInv, SentByLeaders, DeposedForGood
<1>6. Links = {}
  <2>1. ASSUME NEW a \in Links PROVE FALSE
    BY <1>1, <1>2, <2>1, LinkPlaces
  <2> QED
    BY <2>1
<1> QED
  BY <1>1, <1>3, <1>4, <1>5, <1>6 DEF LogInv, LinksAgree, LinksFromLeaders

LEMMA LogNext ==
    ASSUME TypeInv, TypeInv', ElectionInv, ElectionSafety', LogInv, [Next]_vars
    PROVE  LogInv'
BY HeadsNext, TermsNext, LeaderNext, LinksNext DEF LogInv

\* The inductive invariant of the logs holds in every reachable state: entries
\* are made by the leader of their term only, each at a new index, and what
\* AppendEntries and snapshots move around stays attached to what precedes it.
THEOREM LogInvariant == Spec => []LogInv
<1>1. TypeInv /\ ElectionInv /\ LogInv /\ [Next]_vars => (TypeInv /\ ElectionInv /\ LogInv)'
  <2> SUFFICES ASSUME TypeInv, ElectionInv, LogInv, [Next]_vars
               PROVE  (TypeInv /\ ElectionInv /\ LogInv)'
    OBVIOUS
  <2>1. TypeInv' /\ ElectionInv'
    BY TypeNext, ElectionNext
  <2>2. (ElectionInv /\ TypeInv => ElectionSafety)'
    BY MajoritiesAgree, PTL
  <2>3. LogInv'
    BY <2>1, <2>2, LogNext
  <2> QED
    BY <2>1, <2>3
<1> QED
  BY <1>1, TypeInit, ElectionInit, LogInit, PTL DEF Spec

\* The type invariant with its strengthening, for the theorems below.
LEMMA TypeInvAlways == Spec => []TypeInv
BY TypeInit, TypeNext, PTL DEF Spec

\* On every live peer the log on disk starts where the snapshot on disk ends,
\* after any number of saves, installed snapshots and crashes between them: a
\* restart neither skips nor repeats a command.
THEOREM SnapshotFits == Spec => []SnapshotHeadsLog
<1>1. ASSUME TypeInv, LogInv, NEW i \in Server, Running(i)
      PROVE  getDummyLogIndex(persisted[i].log) = IF snapshot[i] = Nil THEN 0 ELSE snapshot[i].index
  <2>1. persisted[i] = [term |-> currentTerm[i], voteFor |-> voteFor[i], log |-> log[i]]
    BY <1>1 DEF TypeInv, PersistedIsCurrent
  <2>2. persisted[i].log = log[i]
    BY <2>1
  <2>3. log[i] # <<>>
    BY <1>1 DEF TypeInv, LogsConsecutive
  <2> QED
    BY <1>1, <2>2, <2>3 DEF LogInv, HeadsAtSnapshot
<1>2. TypeInv /\ LogInv => SnapshotHeadsLog
  BY <1>1 DEF SnapshotHeadsLog
<1> QED
  BY <1>2, TypeInvAlways, LogInvariant, PTL

\* The log of every live peer is an unbroken run of indexes whose terms never
\* go down and never pass the peer's term, so getLogItemAtIndex's offsets and
\* the comparison of last terms in RequestVote mean what they say.
THEOREM LogShapeAlways == Spec => []LogShape
<1>1. ASSUME TypeInv, LogInv PROVE LogShape
  <2> SUFFICES ASSUME NEW i \in Server, Running(i)
               PROVE  /\ log[i] # <<>>
                      /\ \A k \in DOMAIN log[i] : log[i][k].index = log[i][1].index + k - 1
                      /\ \A k \in 2..Len(log[i]) : log[i][k - 1].term <= log[i][k].term
                      /\ log[i][Len(log[i])].term <= currentTerm[i]
    BY DEF LogShape
  <2>1. /\ log[i] # <<>> /\ log[i] \in Seq(ItemType)
        /\ \A k \in DOMAIN log[i] : log[i][k].index = log[i][1].index + k - 1
    BY <1>1 DEF TypeInv, TypeOK, LogTypes, LogsConsecutive
  <2>2. ASSUME NEW k \in 2..Len(log[i]) PROVE log[i][k - 1].term <= log[i][k].term
    <3>1. PICK a : a = Link(log[i][k - 1].term, log[i][k])
      OBVIOUS
    <3>2. a \in Links
      BY <3>1, LinkPlaces
    <3>3. a.prev <= a.item.term
      BY <1>1, <3>2 DEF LogInv, LinksFromLeaders
    <3> QED
      BY <3>1, <3>3 DEF Link
  <2>3. Len(log[i]) \in DOMAIN log[i]
    BY <2>1
  <2>4. log[i][Len(log[i])].term <= currentTerm[i]
    BY <1>1, <2>3 DEF LogInv, TermsBounded
  <2> QED
    BY <2>1, <2>2, <2>4
<1> QED
  BY <1>1, TypeInvAlways, LogInvariant, PTL

\* Log Matching: two entries with one index and one term, on any two peers and
\* after any conflicts, restarts, reordered requests and compactions, hold the
\* same command and follow entries of the same term.
THEOREM LogMatchingAlways == Spec => []LogMatching
<1>1. ASSUME LogInv PROVE LogMatching
  <2> SUFFICES ASSUME NEW i \in Server, NEW j \in Server,
                      NEW x \in 2..Len(log[i]), NEW y \in 2..Len(log[j]),
                      log[i][x].index = log[j][y].index, log[i][x].term = log[j][y].term
               PROVE  log[i][x].cmd = log[j][y].cmd /\ log[i][x - 1].term = log[j][y - 1].term
    BY DEF LogMatching
  <2>1. PICK a, b : a = Link(log[i][x - 1].term, log[i][x]) /\ b = Link(log[j][y - 1].term, log[j][y])
    OBVIOUS
  <2>2. a \in Links /\ b \in Links
    BY <2>1, LinkPlaces
  <2>3. a.item = log[i][x] /\ b.item = log[j][y] /\ a.prev = log[i][x - 1].term /\ b.prev = log[j][y - 1].term
    BY <2>1 DEF Link
  <2> QED
    BY <1>1, <2>2, <2>3 DEF LogInv, LinksAgree
<1> QED
  BY <1>1, LogInvariant, PTL

\* No request and no reply makes a peer drop or change an entry of its log
\* while it leads a term; only SaveSnapshot drops entries, from the front.
THEOREM LeaderKeepsLog == Spec => LeaderAppendOnly
<1>1. TypeInv /\ TypeInv' /\ ElectionInv /\ LogInv /\ [Next]_vars =>
          [\A i \in Server :
              state[i] = Leader /\ state'[i] = Leader /\ currentTerm'[i] = currentTerm[i] =>
                  \A k \in DOMAIN log[i] :
                      log[i][k].index >= getDummyLogIndex(log'[i]) =>
                          /\ logContainIndex(log'[i], log[i][k].index)
                          /\ getLogItemAtIndex(log'[i], log[i][k].index) = log[i][k]]_vars
  BY LeaderKeeps DEF LogInv
<1> QED
  BY <1>1, TypeInvAlways, ElectionInvariant, LogInvariant, PTL DEF Spec, LeaderAppendOnly

-----------------------------------------------------------------------------
(* Without snapshots: what a leader counts as replicated is in its log.    *)

\* AppendEntries calls come from startAppend, their replies from the calls; who
\* changes matchIndex; a peer that panicked comes back by a restart.
CallsMove ==
    /\ NoSnapshots'
    /\ \A m \in appendReq' :
           \/ \E n \in appendReq : /\ m.src = n.src /\ m.term = n.term
                                   /\ m.prevLogIndex = n.prevLogIndex /\ m.entries = n.entries
           \/ m \notin appendReq /\ \E i \in Server : startAppend(i)
    /\ \A r \in appendRep' :
           \/ r \in appendRep
           \/ \E n \in appendReq : /\ r.src = n.src /\ r.term = n.term
                                   /\ r.prevLogIndex = n.prevLogIndex /\ r.sent = Len(n.entries)
                                   /\ r.success => r.replyTerm = r.term
    /\ \/ UNCHANGED matchIndex
       \/ \E i \in Server : Restart(i) \/ \E v \in Value : Start(i, v)
       \/ \E r \in appendRep : AppendReplySuccess(r)
       \/ \E r \in voteRep : VoteReplyCount(r) /\ Wins(r)
    /\ \A i \in Server : i \in panicked => i \in panicked' \/ Restart(i)

\* An answer to an AppendEntries call.
LEMMA AnswerMoves ==
    ASSUME TypeInv, NEW m \in appendReq, NEW t, NEW ok, appendReply(m, t, ok), ok => t = m.term
    PROVE  /\ appendReq' \subseteq appendReq
           /\ \A r \in appendRep' :
                  \/ r \in appendRep
                  \/ \E n \in appendReq : /\ r.src = n.src /\ r.term = n.term
                                          /\ r.prevLogIndex = n.prevLogIndex /\ r.sent = Len(n.entries)
                                          /\ r.success => r.replyTerm = r.term
<1>1. appendReq' \subseteq appendReq
  BY DEF appendReply
<1>2. ASSUME NEW r \in appendRep', r \notin appendRep
      PROVE  \E n \in appendReq : /\ r.src = n.src /\ r.term = n.term
                                  /\ r.prevLogIndex = n.prevLogIndex /\ r.sent = Len(n.entries)
                                  /\ r.success => r.replyTerm = r.term
  <2>1. r = [src |-> m.src, dst |-> m.dst, slot |-> m.slot, term |-> m.term,
             prevLogIndex |-> m.prevLogIndex, sent |-> Len(m.entries),
             replyTerm |-> t, success |-> ok]
    BY <1>2 DEF appendReply
  <2> QED
    BY <2>1
<1> QED
  BY <1>1, <1>2

LEMMA CallSteps ==
    ASSUME TypeInv, ~Snapshots, NoSnapshots, [Next]_vars
    PROVE  CallsMove
<1> USE DEF NoSnapshots, serviceVars, diskVars, leaderVars, appendNet, snapNet
<1>1. CASE ElectionStep
  <2>1. /\ UNCHANGED <<appendNet, snapNet, snapshot, saving, panicked>>
        /\ UNCHANGED matchIndex \/ \E r \in voteRep : VoteReplyCount(r) /\ Wins(r)
    <3>1. ASSUME NEW i \in Server, startElection(i)
          PROVE  UNCHANGED <<appendNet, snapNet, snapshot, saving, panicked, matchIndex>>
      BY <3>1 DEF startElection
    <3>2. ASSUME NEW m \in voteReq, RequestVoteStale(m) \/ RequestVote(m)
          PROVE  UNCHANGED <<appendNet, snapNet, snapshot, saving, panicked, matchIndex>>
      BY <3>2 DEF RequestVoteStale, RequestVote
    <3>3. ASSUME NEW r \in voteRep, VoteReplyStale(r) \/ VoteReplyNewer(r)
          PROVE  UNCHANGED <<appendNet, snapNet, snapshot, saving, panicked, matchIndex>>
      BY <3>3 DEF VoteReplyStale, VoteReplyNewer
    <3>4. ASSUME NEW r \in voteRep, VoteReplyCount(r)
          PROVE  /\ UNCHANGED <<appendNet, snapNet, snapshot, saving, panicked>>
                 /\ UNCHANGED matchIndex \/ Wins(r)
      BY <3>4 DEF VoteReplyCount, Wins
    <3> QED
      BY <1>1, <3>1, <3>2, <3>3, <3>4 DEF ElectionStep
  <2> QED
    BY <2>1 DEF CallsMove
<1>2. ASSUME NEW i \in Server, startAppend(i)
      PROVE  CallsMove
  <2>1. UNCHANGED <<appendRep, snapNet, snapshot, saving, matchIndex>> /\ panicked \subseteq panicked'
    BY <1>2 DEF startAppend
  <2> QED
    BY <1>2, <2>1 DEF CallsMove
<1>3. ASSUME NEW i \in Server, NEW v \in Value, Start(i, v)
      PROVE  CallsMove
  <2>1. UNCHANGED <<appendNet, snapNet, snapshot, saving, panicked>>
    BY <1>3 DEF Start
  <2> QED
    BY <1>3, <2>1 DEF CallsMove
<1>4. ASSUME NEW m \in appendReq,
             \/ AppendEntriesStale(m) \/ AppendEntriesOutOfRange(m)
             \/ AppendEntriesConflict(m) \/ AppendEntriesAccept(m)
      PROVE  CallsMove
  <2>1. /\ UNCHANGED <<snapNet, snapshot, saving, matchIndex>> /\ panicked \subseteq panicked'
        /\ \E t : \E ok : appendReply(m, t, ok) /\ (ok => t = m.term)
    <3>1. CASE AppendEntriesStale(m)
      BY <3>1 DEF AppendEntriesStale
    <3>2. CASE AppendEntriesOutOfRange(m)
      BY <3>2 DEF AppendEntriesOutOfRange
    <3>3. CASE AppendEntriesConflict(m)
      BY <3>3 DEF AppendEntriesConflict
    <3>4. CASE AppendEntriesAccept(m)
      <4>1. panicked \subseteq panicked'
        BY <3>4 DEF AppendEntriesAccept, sendCommitMessage
      <4> QED
        BY <3>4, <4>1 DEF AppendEntriesAccept
    <3> QED
      BY <1>4, <3>1, <3>2, <3>3, <3>4
  <2>2. PICK t, ok : appendReply(m, t, ok) /\ (ok => t = m.term)
    BY <2>1
  <2>3. /\ appendReq' \subseteq appendReq
        /\ \A r \in appendRep' :
               \/ r \in appendRep
               \/ \E n \in appendReq : /\ r.src = n.src /\ r.term = n.term
                                       /\ r.prevLogIndex = n.prevLogIndex /\ r.sent = Len(n.entries)
                                       /\ r.success => r.replyTerm = r.term
    BY <2>2, AnswerMoves
  <2> QED
    BY <2>1, <2>3 DEF CallsMove
<1>5. ASSUME NEW r \in appendRep,
             \/ AppendReplyNewer(r) \/ AppendReplyStale(r)
             \/ AppendReplySuccess(r) \/ AppendReplyFailure(r)
      PROVE  CallsMove
  <2>1. /\ UNCHANGED <<appendReq, snapNet, snapshot, saving>> /\ panicked \subseteq panicked'
        /\ appendRep' \subseteq appendRep
        /\ UNCHANGED matchIndex \/ AppendReplySuccess(r)
    <3>1. CASE AppendReplyNewer(r) \/ AppendReplyStale(r) \/ AppendReplyFailure(r)
      BY <3>1 DEF AppendReplyNewer, AppendReplyStale, AppendReplyFailure
    <3>2. CASE AppendReplySuccess(r)
      <4>1. panicked \subseteq panicked'
        BY <3>2 DEF AppendReplySuccess, sendCommitMessage
      <4> QED
        BY <3>2, <4>1 DEF AppendReplySuccess
    <3> QED
      BY <1>5, <3>1, <3>2
  <2> QED
    BY <2>1 DEF CallsMove
<1>6. CASE SnapshotStep
  <2>1. ASSUME NEW i \in Server, Apply(i)
        PROVE  UNCHANGED <<appendNet, snapNet, snapshot, saving, panicked, matchIndex>>
    BY <2>1 DEF Apply
  <2>2. ASSUME NEW i \in Server, SaveSnapshot(i)
        PROVE  FALSE
    BY <2>2 DEF SaveSnapshot
  <2>3. ASSUME NEW i \in Server, NEW j \in Server \ {i}, startInstallSnapshot(i, j)
        PROVE  /\ UNCHANGED <<appendNet, snapNet, snapshot, saving, matchIndex>>
               /\ panicked \subseteq panicked'
    BY <2>3 DEF startInstallSnapshot
  <2>4. snapReq = {} /\ snapRep = {}
    OBVIOUS
  <2>5. /\ UNCHANGED <<appendNet, snapNet, snapshot, saving, matchIndex>>
        /\ panicked \subseteq panicked'
    BY <1>6, <2>1, <2>2, <2>3, <2>4 DEF SnapshotStep
  <2> QED
    BY <2>5 DEF CallsMove
<1>7. ASSUME NEW i \in Server, Restart(i)
      PROVE  CallsMove
  <2>1. /\ appendReq' = orphaned(appendReq, i) /\ appendRep' \subseteq appendRep
        /\ snapReq' = orphaned(snapReq, i) /\ snapRep' \subseteq snapRep
        /\ panicked' = panicked \ {i} /\ snapshot' = snapshot
        /\ saving' = [saving EXCEPT ![i] = Nil]
    BY <1>7 DEF Restart
  <2>2. snapReq' = {} /\ snapRep' = {}
    BY <2>1 DEF orphaned
  <2>3. \A j \in Server : snapshot'[j] = Nil /\ saving'[j] = Nil
    BY <2>1 DEF TypeInv, TypeOK, ServiceTypes
  <2>4. NoSnapshots'
    BY <2>2, <2>3
  <2>5. \A m \in appendReq' : \E n \in appendReq :
            /\ m.src = n.src /\ m.term = n.term
            /\ m.prevLogIndex = n.prevLogIndex /\ m.entries = n.entries
    BY <2>1, OrphanedFields
  <2> QED
    BY <1>7, <2>1, <2>4, <2>5 DEF CallsMove
<1>8. CASE LoseVote \/ LoseAppend \/ LoseSnapshot
  <2>1. /\ UNCHANGED <<snapshot, saving, panicked, matchIndex>>
        /\ appendReq' \subseteq appendReq /\ appendRep' \subseteq appendRep
        /\ snapReq' \subseteq snapReq /\ snapRep' \subseteq snapRep
    BY <1>8 DEF LoseVote, LoseAppend, LoseSnapshot
  <2> QED
    BY <2>1 DEF CallsMove
<1>9. CASE UNCHANGED vars
  BY <1>9 DEF vars, CallsMove
<1> QED
  BY <1>1, <1>2, <1>3, <1>4, <1>5, <1>6, <1>7, <1>8, <1>9 DEF Next, ReplicationStep, FaultStep

\* The entries of a new request end with the leader's last.
LEMMA RequestReach ==
    ASSUME TypeInv, NEW i \in Server, startAppend(i), NEW m \in appendReq', m \notin appendReq
    PROVE  /\ m.src = i /\ m.term = currentTerm[i]
           /\ m.prevLogIndex + Len(m.entries) <= getLastLogIndex(log[i])
<1>1. PICK j \in Server \ {i} : \E s \in freeSlots(i, j) :
          /\ logContainIndex(log[i], getPreviousIndexForServer(i, j))
          /\ m = AppendRequest(i, j, s)
  BY StartAppendCalls
<1>2. IsLog(log[i])
  BY RunningLog DEF startAppend
<1>3. PICK d \in Nat, e \in Nat : d = getDummyLogIndex(log[i]) /\ e = getLastLogIndex(log[i])
  BY <1>2, LogBounds
<1>4. PICK next \in Nat : next = nextIndex[i][j] /\ d <= next - 1 /\ next - 1 <= e
  BY <1>1, <1>3 DEF TypeInv, TypeOK, PeerTypes, getPreviousIndexForServer, logContainIndex
<1>5. PICK es : es = getLogItemSliceInclusive(log[i], next, e)
  OBVIOUS
<1>6. m.src = i /\ m.term = currentTerm[i] /\ m.prevLogIndex = next - 1 /\ m.entries = es
  BY <1>1, <1>3, <1>4, <1>5 DEF AppendRequest, getAppendLogItem, getPreviousIndexForServer
<1>7. d <= next /\ next \in Int /\ e \in Int /\ e <= getLastLogIndex(log[i])
  BY <1>3, <1>4
<1>8. Len(es) = IF next <= e THEN e - next + 1 ELSE 0
  BY <1>2, <1>3, <1>5, <1>7, LogSlice
<1>9. PICK len \in Nat : len = Len(es) /\ (next <= e => len = e - next + 1) /\ (e < next => len = 0)
  BY <1>3, <1>4, <1>8
<1>10. next - 1 + len <= e
  BY <1>4, <1>9
<1> QED
  BY <1>3, <1>6, <1>9, <1>10

\* The log of a leader that goes on leading does not get shorter.
LEMMA LeaderReach ==
    ASSUME TypeInv, TypeInv', ElectionInv, LeaderInv, NoSnapshots, [Next]_vars,
           NEW i \in Server, Running(i), state[i] = Leader, state'[i] = Leader,
           currentTerm'[i] = currentTerm[i]
    PROVE  /\ getLastLogIndex(log[i]) \in Nat /\ getLastLogIndex(log'[i]) \in Nat
           /\ getLastLogIndex(log[i]) <= getLastLogIndex(log'[i])
<1>1. IsLog(log[i])
  BY RunningLog
<1>2. PICK e \in Nat : e = getLastLogIndex(log[i])
  BY <1>1, LogBounds
<1>3. CASE log'[i] = log[i]
  BY <1>2, <1>3
<1>4. ASSUME NEW v \in Value, Start(i, v)
      PROVE  getLastLogIndex(log'[i]) = e + 1
  <2>1. /\ Len(log'[i]) = Len(log[i]) + 1
        /\ log'[i][Len(log[i]) + 1] = LogItem(v, currentTerm[i], e + 1)
    BY <1>2, <1>4, StartStep
  <2> QED
    BY <2>1 DEF getLastLogIndex, LogItem
<1>5. ~SaveSnapshot(i)
  BY DEF SaveSnapshot, NoSnapshots
<1> QED
  BY <1>2, <1>3, <1>4, <1>5, LeaderLog

\* The peer that wins an election has sent nothing in its term.
LEMMA MatchWins ==
    ASSUME TypeInv, TypeInv', ElectionInv, LeaderInv, NoSnapshots', CallsInLog, MatchInLog,
           NEW r \in voteRep, VoteReplyCount(r), Wins(r)
    PROVE  CallsInLog' /\ MatchInLog'
<1>1. PICK i : i = r.src
  OBVIOUS
<1>2. /\ i \in Server /\ currentTerm' = currentTerm
      /\ \A j \in Server \ {i} : state'[j] = state[j]
      /\ elected' = elected \cup {Leadership(i, currentTerm[i])}
      /\ log' = log /\ appendReq' = appendReq
  BY <1>1, WinStep
<1>3. Leadership(i, currentTerm[i]) \notin elected
  BY <1>1, FirstWin
<1>4. /\ appendRep' = appendRep /\ panicked' = panicked /\ Running(i)
      /\ matchIndex' = [matchIndex EXCEPT ![i] = [j \in Server |-> 0]]
  BY <1>1 DEF VoteReplyCount, Wins, becomeLeader, appendNet
<1>5. \A m \in appendReq : m.src \in Server /\ Leadership(m.src, m.term) \in elected
  BY DEF LeaderInv, SentByLeaders, TypeInv, TypeOK, CallTypes, AppendReqType
<1>6. \A q \in appendRep : q.src \in Server /\ Leadership(q.src, q.term) \in elected
  BY DEF CallsInLog, TypeInv, TypeOK, CallTypes, AppendRepType
<1>7. ASSUME NEW m \in appendReq', state'[m.src] = Leader, Running(m.src)',
             m.term = currentTerm'[m.src]
      PROVE  m.prevLogIndex + Len(m.entries) <= getLastLogIndex(log'[m.src])
  <2>1. m.src # i
    BY <1>2, <1>3, <1>5, <1>7
  <2> QED
    BY <1>2, <1>4, <1>5, <1>7, <2>1 DEF CallsInLog, Running
<1>8. ASSUME NEW q \in appendRep'
      PROVE  /\ Leadership(q.src, q.term) \in elected'
             /\ q.success => q.replyTerm = q.term
             /\ state'[q.src] = Leader /\ Running(q.src)' /\ q.term = currentTerm'[q.src] =>
                    q.prevLogIndex + q.sent <= getLastLogIndex(log'[q.src])
  <2>1. q \in appendRep /\ (q.src = i => q.term # currentTerm[i])
    BY <1>3, <1>4, <1>6
  <2> QED
    BY <1>2, <1>4, <1>6, <2>1 DEF CallsInLog, Running
<1>9. ASSUME NEW l \in Server, state'[l] = Leader, Running(l)', NEW j \in Server
      PROVE  matchIndex'[l][j] <= getLastLogIndex(log'[l])
  <2>1. CASE l = i
    <3>1. matchIndex'[l][j] = 0
      BY <1>4, <2>1 DEF TypeInv, TypeOK, PeerTypes
    <3>2. getLastLogIndex(log'[l]) \in Nat
      BY <1>2, <1>4, <2>1, RunningLog, LogBounds
    <3> QED
      BY <3>1, <3>2
  <2>2. CASE l # i
    BY <1>2, <1>4, <1>9, <2>2 DEF MatchInLog, Running, TypeInv, TypeOK, PeerTypes
  <2> QED
    BY <2>1, <2>2
<1> QED
  BY <1>7, <1>8, <1>9 DEF CallsInLog, MatchInLog

LEMMA MatchNext ==
    ASSUME TypeInv, TypeInv', ElectionInv, LeaderInv, MatchInv, [Next]_vars
    PROVE  MatchInv'
<1> SUFFICES ASSUME ~Snapshots PROVE NoSnapshots' /\ CallsInLog' /\ MatchInLog'
  BY DEF MatchInv
<1>1. NoSnapshots /\ CallsInLog /\ MatchInLog
  BY DEF MatchInv
<1>2. CallsMove
  BY <1>1, CallSteps
<1>3. NoSnapshots'
  BY <1>2 DEF CallsMove
<1>4. CASE \E r \in voteRep : VoteReplyCount(r) /\ Wins(r)
  BY <1>1, <1>3, <1>4, MatchWins
<1>5. CASE ~\E r \in voteRep : VoteReplyCount(r) /\ Wins(r)
  <2>1. /\ elected \subseteq elected'
        /\ \A i \in Server : state'[i] = Leader => state[i] = Leader /\ currentTerm'[i] = currentTerm[i]
    BY <1>5, LeadersStay
  <2>2. ASSUME NEW i \in Server, state'[i] = Leader, Running(i)'
        PROVE  /\ state[i] = Leader /\ currentTerm'[i] = currentTerm[i] /\ Running(i)
               /\ getLastLogIndex(log[i]) \in Nat /\ getLastLogIndex(log'[i]) \in Nat
               /\ getLastLogIndex(log[i]) <= getLastLogIndex(log'[i])
    <3>1. state[i] = Leader /\ currentTerm'[i] = currentTerm[i]
      BY <2>1, <2>2
    <3>2. ~Restart(i)
      BY <2>2, RestartKeeps
    <3>3. Running(i)
      BY <1>2, <2>2, <3>2 DEF CallsMove, Running
    <3> QED
      BY <1>1, <2>2, <3>1, <3>3, LeaderReach
  <2>3. ASSUME NEW m \in appendReq', state'[m.src] = Leader, Running(m.src)',
               m.term = currentTerm'[m.src]
        PROVE  m.prevLogIndex + Len(m.entries) <= getLastLogIndex(log'[m.src])
    <3>1. m.src \in Server /\ m.prevLogIndex \in Nat /\ Len(m.entries) \in Nat
      BY DEF TypeInv, TypeOK, CallTypes, AppendReqType
    <3>2. PICK i \in Server : i = m.src
      BY <3>1
    <3>3. PICK n \in Nat : n = m.prevLogIndex + Len(m.entries)
      BY <3>1
    <3>4. n <= getLastLogIndex(log[i])
      <4>1. CASE \E k \in appendReq : /\ m.src = k.src /\ m.term = k.term
                                      /\ m.prevLogIndex = k.prevLogIndex /\ m.entries = k.entries
        BY <1>1, <2>2, <2>3, <3>2, <3>3, <4>1 DEF CallsInLog
      <4>2. CASE m \notin appendReq /\ \E j \in Server : startAppend(j)
        BY <3>2, <3>3, <4>2, RequestReach
      <4> QED
        BY <1>2, <4>1, <4>2 DEF CallsMove
    <3> QED
      BY <2>2, <2>3, <3>2, <3>3, <3>4
  <2>4. ASSUME NEW r \in appendRep'
        PROVE  /\ Leadership(r.src, r.term) \in elected'
               /\ r.success => r.replyTerm = r.term
               /\ state'[r.src] = Leader /\ Running(r.src)' /\ r.term = currentTerm'[r.src] =>
                      r.prevLogIndex + r.sent <= getLastLogIndex(log'[r.src])
    <3>1. r.src \in Server /\ r.prevLogIndex \in Nat /\ r.sent \in Nat
      BY DEF TypeInv, TypeOK, CallTypes, AppendRepType
    <3>2. PICK i \in Server : i = r.src
      BY <3>1
    <3>3. PICK n \in Nat : n = r.prevLogIndex + r.sent
      BY <3>1
    <3>4. /\ Leadership(i, r.term) \in elected
          /\ r.success => r.replyTerm = r.term
          /\ state[i] = Leader /\ Running(i) /\ r.term = currentTerm[i] =>
                 n <= getLastLogIndex(log[i])
      <4>1. CASE r \in appendRep
        BY <1>1, <3>2, <3>3, <4>1 DEF CallsInLog
      <4>2. CASE r \notin appendRep
        <5>1. PICK m \in appendReq : /\ r.src = m.src /\ r.term = m.term
                                     /\ r.prevLogIndex = m.prevLogIndex /\ r.sent = Len(m.entries)
                                     /\ r.success => r.replyTerm = r.term
          BY <1>2, <4>2 DEF CallsMove
        <5>2. Leadership(m.src, m.term) \in elected
          BY DEF LeaderInv, SentByLeaders
        <5> QED
          BY <1>1, <3>2, <3>3, <5>1, <5>2 DEF CallsInLog
      <4> QED
        BY <4>1, <4>2
    <3> QED
      BY <2>1, <2>2, <3>2, <3>3, <3>4
  <2>5. ASSUME NEW i \in Server, state'[i] = Leader, Running(i)', NEW j \in Server
        PROVE  matchIndex'[i][j] <= getLastLogIndex(log'[i])
    <3>1. /\ matchIndex[i][j] <= getLastLogIndex(log[i]) /\ matchIndex[i][j] \in Nat
          /\ matchIndex \in [Server -> [Server -> Nat]]
      BY <1>1, <2>2, <2>5 DEF MatchInLog, TypeInv, TypeOK, PeerTypes
    <3>2. CASE matchIndex'[i][j] = matchIndex[i][j]
      BY <2>2, <2>5, <3>1, <3>2
    <3>3. ASSUME NEW k \in Server, Restart(k)
          PROVE  matchIndex'[i][j] = matchIndex[i][j]
      <4>1. k # i
        BY <2>5, <3>3, RestartKeeps
      <4> QED
        BY <3>1, <3>3, <4>1 DEF Restart
    <3>4. ASSUME NEW k \in Server, NEW v \in Value, Start(k, v)
          PROVE  matchIndex'[i][j] <= getLastLogIndex(log'[i])
      <4>1. matchIndex' = [matchIndex EXCEPT ![k][k] = getLastLogIndex(log[k]) + 1]
        BY <3>4 DEF Start, nextLogIndex
      <4>2. CASE k = i /\ k = j
        <5>1. matchIndex'[i][j] = getLastLogIndex(log[i]) + 1
          BY <3>1, <4>1, <4>2
        <5>2. /\ Len(log'[i]) = Len(log[i]) + 1
              /\ log'[i][Len(log[i]) + 1] = LogItem(v, currentTerm[i], getLastLogIndex(log[i]) + 1)
          BY <3>4, <4>2, StartStep
        <5>3. getLastLogIndex(log'[i]) = getLastLogIndex(log[i]) + 1
          BY <5>2 DEF getLastLogIndex, LogItem
        <5> QED
          BY <2>2, <2>5, <5>1, <5>3
      <4>3. CASE ~(k = i /\ k = j)
        <5>1. matchIndex'[i][j] = matchIndex[i][j]
          BY <3>1, <4>1, <4>3
        <5> QED
          BY <3>2, <5>1
      <4> QED
        BY <4>2, <4>3
    <3>5. ASSUME NEW r \in appendRep, AppendReplySuccess(r)
          PROVE  matchIndex'[i][j] <= getLastLogIndex(log'[i])
      <4>1. /\ matchIndex' = [matchIndex EXCEPT ![r.src] =
                                 [matchIndex[r.src] EXCEPT ![r.dst] = r.prevLogIndex + r.sent]]
            /\ r.replyTerm = currentTerm[r.src] /\ r.success
        BY <3>5 DEF AppendReplySuccess, matchAfterSuccess
      <4>2. r.src \in Server /\ r.dst \in Server /\ r.prevLogIndex \in Nat /\ r.sent \in Nat
        BY DEF TypeInv, TypeOK, CallTypes, AppendRepType
      <4>3. CASE r.src = i /\ r.dst = j
        <5>1. matchIndex'[i][j] = r.prevLogIndex + r.sent
          BY <3>1, <4>1, <4>2, <4>3
        <5>2. r.prevLogIndex + r.sent <= getLastLogIndex(log[i])
          BY <1>1, <2>2, <2>5, <4>1, <4>3 DEF CallsInLog
        <5>3. PICK n \in Nat : n = r.prevLogIndex + r.sent
          BY <4>2
        <5> QED
          BY <2>2, <2>5, <5>1, <5>2, <5>3
      <4>4. CASE ~(r.src = i /\ r.dst = j)
        <5>1. matchIndex'[i][j] = matchIndex[i][j]
          BY <3>1, <4>1, <4>2, <4>4
        <5> QED
          BY <3>2, <5>1
      <4> QED
        BY <4>3, <4>4
    <3> QED
      BY <1>2, <1>5, <3>2, <3>3, <3>4, <3>5 DEF CallsMove
  <2> QED
    BY <1>3, <2>3, <2>4, <2>5 DEF CallsInLog, MatchInLog
<1> QED
  BY <1>4, <1>5

LEMMA MatchInit == Init => MatchInv
<1> SUFFICES ASSUME Init PROVE NoSnapshots /\ CallsInLog /\ MatchInLog
  BY DEF MatchInv
<1> QED
  BY DEF Init, NoSnapshots, CallsInLog, MatchInLog

\* Where the service does not compact the log, no leader ever counts as
\* replicated what its own log does not hold, whichever replies overtake others
\* or come after it was deposed and elected again.
THEOREM MatchInLogAlways == Spec => [](~Snapshots => MatchInLog)
<1>1. TypeInv /\ ElectionInv /\ LogInv /\ MatchInv /\ [Next]_vars /\ TypeInv' => MatchInv'
  BY MatchNext DEF LogInv
<1>2. MatchInv => (~Snapshots => MatchInLog)
  BY DEF MatchInv
<1> QED
  BY <1>1, <1>2, MatchInit, TypeInvAlways, ElectionInvariant, LogInvariant, PTL DEF Spec
=============================================================================
