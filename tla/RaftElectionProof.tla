------------------------- MODULE RaftElectionProof --------------------------
(* No term has two leaders and no peer votes twice in a term, for any number *)
(* of servers, through crashes and lost, delayed and reordered calls.        *)
EXTENDS RaftTypeProof, FiniteSetTheorems

\* The votes a peer has counted are finitely many.
LEMMA CountedFinite ==
    ASSUME NEW i \in Server
    PROVE  /\ IsFiniteSet(Counted(i)) /\ Cardinality(Counted(i)) \in Nat
           /\ IsFiniteSet(Counted(i)') /\ Cardinality(Counted(i)') \in Nat
<1>1. Counted(i) \subseteq Server /\ Counted(i)' \subseteq Server
  BY DEF Counted
<1>2. IsFiniteSet(Server)
  BY ServerAssumption
<1> QED
  BY <1>1, <1>2, FS_Subset, FS_CardinalityType

\* A peer whose term stays keeps its votes, when no reply with one of them is
\* sent again.
LEMMA CountedGrows ==
    ASSUME NEW i \in Server, currentTerm'[i] = currentTerm[i], ballots \subseteq ballots',
           \A r \in voteRep' : r.src = i /\ r.term = currentTerm[i] /\ r.granted =>
               r \in voteRep \/ Ballot(r.dst, r.term, i) \notin ballots
    PROVE  /\ Counted(i) \subseteq Counted(i)'
           /\ Cardinality(Counted(i)) <= Cardinality(Counted(i)')
<1>1. Counted(i) \subseteq Counted(i)'
  BY DEF Counted
<1> QED
  BY <1>1, CountedFinite, FS_Subset

\* The voters of a leader never become fewer.
LEMMA VotersGrow ==
    ASSUME NEW e, ballots \subseteq ballots'
    PROVE  /\ Cardinality(Voters(e)) \in Nat /\ Cardinality(Voters(e)') \in Nat
           /\ Cardinality(Voters(e)) <= Cardinality(Voters(e)')
<1>1. Voters(e) \subseteq Server /\ Voters(e)' \subseteq Server /\ Voters(e) \subseteq Voters(e)'
  BY DEF Voters
<1>2. IsFiniteSet(Server)
  BY ServerAssumption
<1> QED
  BY <1>1, <1>2, FS_Subset, FS_CardinalityType

\* A majority is a number of peers.
LEMMA MajorityIsNat == getMajorityCount(Server) \in Nat
BY ServerAssumption, FS_CardinalityType DEF getMajorityCount

\* Leaders keep their majority while votes only accumulate.
LEMMA MajorityKept ==
    ASSUME LeadersHaveMajority, ballots \subseteq ballots', elected' = elected
    PROVE  LeadersHaveMajority'
<1> SUFFICES ASSUME NEW e \in elected
             PROVE  Cardinality(Voters(e)') >= getMajorityCount(Server)
  BY DEF LeadersHaveMajority
<1>1. Cardinality(Voters(e)) >= getMajorityCount(Server)
  BY DEF LeadersHaveMajority
<1> QED
  BY <1>1, VotersGrow, MajorityIsNat

-----------------------------------------------------------------------------
\* Steps that cast no vote, elect nobody and send no vote call: terms may grow
\* (the peer then forgets its vote and its count), calls may vanish.
LEMMA ElectionQuiet ==
    ASSUME TypeInv, TypeInv', ElectionInv,
           voteReq' \subseteq voteReq, voteRep' \subseteq voteRep,
           ballots' = ballots, elected' = elected,
           \A j \in Server : \/ /\ state'[j] = state[j] /\ currentTerm'[j] = currentTerm[j]
                                /\ voteFor'[j] = voteFor[j] /\ voteCount'[j] = voteCount[j]
                             \/ currentTerm'[j] > currentTerm[j] /\ voteCount'[j] = 0
                             \/ /\ currentTerm'[j] = currentTerm[j] /\ voteFor'[j] = voteFor[j]
                                /\ voteCount'[j] = 0
    PROVE  ElectionInv'
<1>1. \A j \in Server : currentTerm[j] \in Nat /\ currentTerm'[j] \in Nat /\ currentTerm'[j] >= currentTerm[j]
  <2>1. currentTerm \in [Server -> Nat] /\ currentTerm' \in [Server -> Nat]
    BY DEF TypeInv, TypeOK, PeerTypes
  <2> QED
    BY <2>1
<1>2. \A b \in ballots : b.voter \in Server /\ b.cand \in Server /\ b.term \in Nat
  BY DEF TypeInv, TypeOK, HistoryTypes, BallotType
<1>3. \A m \in voteReq : m.src \in Server /\ m.term \in Nat
  BY DEF TypeInv, TypeOK, CallTypes, VoteReqType
<1>4. \A r \in voteRep : r.src \in Server /\ r.term \in Nat
  BY DEF TypeInv, TypeOK, CallTypes, VoteRepType
<1>5. VotesRemembered'
  <2> SUFFICES ASSUME NEW b \in ballots
               PROVE  /\ b.term <= currentTerm'[b.cand]
                      /\ b.term <= currentTerm'[b.voter]
                      /\ b.term = currentTerm'[b.voter] => voteFor'[b.voter] = b.cand
    BY DEF VotesRemembered
  <2>1. /\ b.term <= currentTerm[b.cand] /\ b.term <= currentTerm[b.voter]
        /\ b.term = currentTerm[b.voter] => voteFor[b.voter] = b.cand
    BY DEF ElectionInv, VotesRemembered
  <2> QED
    BY <1>1, <1>2, <2>1
<1>6. OneVotePerTerm'
  BY DEF ElectionInv, OneVotePerTerm
<1>7. RequestsUnanswered'
  <2>1. \A m \in voteReq' : m.term <= currentTerm'[m.src]
    BY <1>1, <1>3 DEF ElectionInv, RequestsUnanswered
  <2> QED
    BY <2>1 DEF ElectionInv, RequestsUnanswered
<1>8. RepliesTruthful'
  <2>1. \A r \in voteRep' : r.term <= currentTerm'[r.src]
    BY <1>1, <1>4 DEF ElectionInv, RepliesTruthful
  <2> QED
    BY <2>1 DEF ElectionInv, RepliesTruthful
<1>9. CountsAreVotes'
  <2> SUFFICES ASSUME NEW j \in Server, state'[j] # Leader
               PROVE  voteCount'[j] <= Cardinality(Counted(j)')
    BY DEF CountsAreVotes
  <2>1. CASE voteCount'[j] = 0
    BY <2>1, CountedFinite
  <2>2. CASE voteCount'[j] # 0
    <3>1. state'[j] = state[j] /\ currentTerm'[j] = currentTerm[j] /\ voteCount'[j] = voteCount[j]
      BY <2>2
    <3>2. voteCount[j] <= Cardinality(Counted(j)) /\ voteCount[j] \in Nat
      BY <3>1 DEF ElectionInv, CountsAreVotes, TypeInv, TypeOK, PeerTypes
    <3>3. Cardinality(Counted(j)) <= Cardinality(Counted(j)')
      BY <3>1, CountedGrows
    <3> QED
      BY <3>1, <3>2, <3>3, CountedFinite
  <2> QED
    BY <2>1, <2>2
<1>10. LeadersHaveMajority'
  BY MajorityKept DEF ElectionInv
<1> QED
  BY <1>5, <1>6, <1>7, <1>8, <1>9, <1>10 DEF ElectionInv

-----------------------------------------------------------------------------
\* The candidate votes for itself and asks every other peer once.
LEMMA ElectionStart ==
    ASSUME TypeInv, TypeInv', ElectionInv, NEW i \in Server, startElection(i)
    PROVE  ElectionInv'
<1> DEFINE t == currentTerm[i] + 1
           own == [voter |-> i, term |-> t, cand |-> i]
<1>1. /\ state' = [state EXCEPT ![i] = Candidate]
      /\ voteFor' = [voteFor EXCEPT ![i] = i]
      /\ voteCount' = [voteCount EXCEPT ![i] = 1]
      /\ currentTerm' = [currentTerm EXCEPT ![i] = t]
      /\ ballots' = ballots \cup {own}
      /\ voteReq' = voteReq \cup {VoteRequest(i, j, t) : j \in Server \ {i}}
      /\ voteRep' = voteRep /\ elected' = elected
  BY DEF startElection, becomeCandidate
<1>2. /\ currentTerm[i] \in Nat /\ t \in Nat /\ currentTerm'[i] = t /\ t > currentTerm[i]
      /\ voteFor'[i] = i /\ voteCount'[i] = 1 /\ state'[i] = Candidate
      /\ \A j \in Server \ {i} : /\ state'[j] = state[j] /\ currentTerm'[j] = currentTerm[j]
                                 /\ voteFor'[j] = voteFor[j] /\ voteCount'[j] = voteCount[j]
  BY <1>1 DEF TypeInv, TypeOK, PeerTypes
<1>3. \A j \in Server : currentTerm[j] \in Nat /\ currentTerm'[j] \in Nat /\ currentTerm'[j] >= currentTerm[j]
  <2>1. currentTerm \in [Server -> Nat] /\ currentTerm' \in [Server -> Nat]
    BY DEF TypeInv, TypeOK, PeerTypes
  <2> QED
    BY <1>2, <2>1
<1>4. own.voter = i /\ own.term = t /\ own.cand = i
  OBVIOUS
<1>5. \A m \in voteReq' : m \in voteReq \/ (m.src = i /\ m.dst \in Server \ {i} /\ m.term = t)
  BY <1>1 DEF VoteRequest
<1>6. \A m \in voteReq' : m \in voteReq \/ m = VoteRequest(i, m.dst, t)
  BY <1>1 DEF VoteRequest
<1> HIDE DEF t, own
<1>7. \A b \in ballots : /\ b.voter \in Server /\ b.cand \in Server /\ b.term \in Nat
                         /\ b.term <= currentTerm[b.cand] /\ b.term <= currentTerm[b.voter]
                         /\ b.term = currentTerm[b.voter] => voteFor[b.voter] = b.cand
  BY DEF TypeInv, TypeOK, HistoryTypes, BallotType, ElectionInv, VotesRemembered
<1>8. \A m \in voteReq : m.src \in Server /\ m.term \in Nat /\ m.term <= currentTerm[m.src]
  BY DEF TypeInv, TypeOK, CallTypes, VoteReqType, ElectionInv, RequestsUnanswered
<1>9. \A r \in voteRep : r.src \in Server /\ r.term \in Nat /\ r.term <= currentTerm[r.src]
  BY DEF TypeInv, TypeOK, CallTypes, VoteRepType, ElectionInv, RepliesTruthful
<1>10. VotesRemembered'
  <2> SUFFICES ASSUME NEW b \in ballots'
               PROVE  /\ b.term <= currentTerm'[b.cand]
                      /\ b.term <= currentTerm'[b.voter]
                      /\ b.term = currentTerm'[b.voter] => voteFor'[b.voter] = b.cand
    BY DEF VotesRemembered
  <2>1. CASE b = own
    BY <1>2, <1>4, <2>1
  <2>2. CASE b \in ballots
    BY <1>2, <1>3, <1>7, <2>2
  <2> QED
    BY <1>1, <2>1, <2>2
<1>11. OneVotePerTerm'
  <2> SUFFICES ASSUME NEW b \in ballots', NEW c \in ballots', b.voter = c.voter, b.term = c.term
               PROVE  b.cand = c.cand
    BY DEF OneVotePerTerm
  <2>1. \A d \in ballots : ~(d.voter = i /\ d.term = t)
    BY <1>2, <1>7
  <2>2. CASE b \in ballots /\ c \in ballots
    BY <2>2 DEF ElectionInv, OneVotePerTerm
  <2>3. CASE b = own \/ c = own
    BY <1>1, <1>4, <2>1, <2>3
  <2> QED
    BY <1>1, <2>2, <2>3
<1>12. RequestsUnanswered'
  <2>1. ASSUME NEW m \in voteReq'
        PROVE  /\ m.term <= currentTerm'[m.src]
               /\ m.src # m.dst
               /\ Ballot(m.dst, m.term, m.src) \notin ballots'
    <3>1. m.term <= currentTerm'[m.src]
      BY <1>2, <1>3, <1>5, <1>8
    <3>2. m.src # m.dst
      BY <1>5 DEF ElectionInv, RequestsUnanswered
    <3>3. Ballot(m.dst, m.term, m.src) # own
      BY <3>2 DEF own, Ballot
    <3>4. Ballot(m.dst, m.term, m.src) \notin ballots
      <4>1. CASE m \in voteReq
        BY <4>1 DEF ElectionInv, RequestsUnanswered
      <4>2. CASE m.src = i /\ m.term = t
        <5>1. Ballot(m.dst, t, i).cand = i /\ Ballot(m.dst, t, i).term = t
          BY DEF Ballot
        <5> QED
          BY <1>2, <1>7, <4>2, <5>1
      <4> QED
        BY <1>5, <4>1, <4>2
    <3> QED
      BY <1>1, <3>1, <3>2, <3>3, <3>4
  <2>2. ASSUME NEW m \in voteReq', NEW n \in voteReq',
               m.src = n.src, m.dst = n.dst, m.term = n.term
        PROVE  m = n
    <3>1. \A q \in voteReq : ~(q.src = i /\ q.term = t)
      BY <1>2, <1>8
    <3>2. CASE m \in voteReq /\ n \in voteReq
      BY <2>2, <3>2 DEF ElectionInv, RequestsUnanswered
    <3>3. CASE m \notin voteReq \/ n \notin voteReq
      <4>1. m \notin voteReq /\ n \notin voteReq
        BY <1>5, <2>2, <3>1, <3>3
      <4> QED
        BY <1>6, <2>2, <4>1
    <3> QED
      BY <3>2, <3>3
  <2>3. ASSUME NEW m \in voteReq', NEW r \in voteRep'
        PROVE  ~(m.src = r.src /\ m.dst = r.dst /\ m.term = r.term)
    <3>1. CASE m \in voteReq
      BY <1>1, <3>1 DEF ElectionInv, RequestsUnanswered
    <3>2. CASE m.src = i /\ m.term = t
      BY <1>1, <1>2, <1>9, <3>2
    <3> QED
      BY <1>5, <3>1, <3>2
  <2> QED
    BY <2>1, <2>2, <2>3 DEF RequestsUnanswered
<1>13. RepliesTruthful'
  <2>1. \A r \in voteRep' : r.term <= currentTerm'[r.src]
    BY <1>1, <1>3, <1>9
  <2> QED
    BY <1>1, <2>1 DEF ElectionInv, RepliesTruthful
<1>14. CountsAreVotes'
  <2> SUFFICES ASSUME NEW j \in Server, state'[j] # Leader
               PROVE  voteCount'[j] <= Cardinality(Counted(j)')
    BY DEF CountsAreVotes
  <2>1. CASE j = i
    <3>1. i \in Counted(i)'
      <4>1. Ballot(i, currentTerm'[i], i) \in ballots'
        BY <1>1, <1>2 DEF Ballot, own
      <4>2. ~\E r \in voteRep' : r.src = i /\ r.term = currentTerm'[i]
        BY <1>1, <1>2, <1>9
      <4> QED
        BY <4>1, <4>2 DEF Counted
    <3>2. {i} \in SUBSET Counted(i)'
      BY <3>1
    <3>3. Cardinality({i}) = 1
      BY FS_Singleton
    <3>4. Cardinality({i}) <= Cardinality(Counted(i)')
      BY <3>2, CountedFinite, FS_Subset
    <3> QED
      BY <1>2, <2>1, <3>3, <3>4
  <2>2. CASE j # i
    <3>1. voteCount[j] <= Cardinality(Counted(j)) /\ voteCount[j] \in Nat
      BY <1>2, <2>2 DEF ElectionInv, CountsAreVotes, TypeInv, TypeOK, PeerTypes
    <3>2. Cardinality(Counted(j)) <= Cardinality(Counted(j)')
      BY <1>1, <1>2, <2>2, CountedGrows
    <3> QED
      BY <1>2, <2>2, <3>1, <3>2, CountedFinite
  <2> QED
    BY <2>1, <2>2
<1>15. LeadersHaveMajority'
  BY <1>1, MajorityKept DEF ElectionInv
<1> QED
  BY <1>10, <1>11, <1>12, <1>13, <1>14, <1>15 DEF ElectionInv

\* The voter refuses an old request: the reply grants nothing.
LEMMA ElectionRefuse ==
    ASSUME TypeInv, TypeInv', ElectionInv, NEW m \in voteReq, RequestVoteStale(m)
    PROVE  ElectionInv'
<1> DEFINE reply == [src |-> m.src, dst |-> m.dst, term |-> m.term,
                     replyTerm |-> currentTerm[m.dst], granted |-> FALSE]
<1>1. /\ voteReq' = voteReq \ {m}
      /\ voteRep' \subseteq voteRep \cup {reply}
      /\ UNCHANGED <<state, currentTerm, voteFor, voteCount, ballots, elected>>
  BY DEF RequestVoteStale, voteReply, electionVars, historyVars
<1>2. /\ reply.src = m.src /\ reply.dst = m.dst /\ reply.term = m.term /\ ~reply.granted
  OBVIOUS
<1> HIDE DEF reply
<1>3. VotesRemembered' /\ OneVotePerTerm'
  BY <1>1 DEF ElectionInv, VotesRemembered, OneVotePerTerm
<1>4. RequestsUnanswered'
  <2>1. \A n \in voteReq' : n \in voteReq /\ n # m
    BY <1>1
  <2>2. \A n \in voteReq', r \in voteRep' : ~(n.src = r.src /\ n.dst = r.dst /\ n.term = r.term)
    BY <1>1, <1>2, <2>1 DEF ElectionInv, RequestsUnanswered
  <2> QED
    BY <1>1, <2>1, <2>2 DEF ElectionInv, RequestsUnanswered
<1>5. RepliesTruthful'
  <2>1. \A r \in voteRep : ~(m.src = r.src /\ m.dst = r.dst /\ m.term = r.term)
    BY DEF ElectionInv, RequestsUnanswered
  <2>2. m.term <= currentTerm[m.src]
    BY DEF ElectionInv, RequestsUnanswered
  <2>3. \A r \in voteRep' :
            /\ r.term <= currentTerm'[r.src]
            /\ r.granted => r.replyTerm = r.term /\ Ballot(r.dst, r.term, r.src) \in ballots'
    BY <1>1, <1>2, <2>2 DEF ElectionInv, RepliesTruthful
  <2>4. \A r, s \in voteRep' : r.src = s.src /\ r.dst = s.dst /\ r.term = s.term => r = s
    BY <1>1, <1>2, <2>1 DEF ElectionInv, RepliesTruthful
  <2> QED
    BY <2>3, <2>4 DEF RepliesTruthful
<1>6. CountsAreVotes'
  <2> SUFFICES ASSUME NEW j \in Server, state'[j] # Leader
               PROVE  voteCount'[j] <= Cardinality(Counted(j)')
    BY DEF CountsAreVotes
  <2>1. voteCount[j] <= Cardinality(Counted(j)) /\ voteCount[j] \in Nat
    BY <1>1 DEF ElectionInv, CountsAreVotes, TypeInv, TypeOK, PeerTypes
  <2>2. Cardinality(Counted(j)) <= Cardinality(Counted(j)')
    <3>1. \A r \in voteRep' : r.granted => r \in voteRep
      BY <1>1, <1>2
    <3> QED
      BY <1>1, <3>1, CountedGrows
  <2> QED
    BY <1>1, <2>1, <2>2, CountedFinite
<1>7. LeadersHaveMajority'
  BY <1>1, MajorityKept DEF ElectionInv
<1> QED
  BY <1>3, <1>4, <1>5, <1>6, <1>7 DEF ElectionInv

\* The voter handles a request of its own or of a newer term.
LEMMA ElectionVote ==
    ASSUME TypeInv, TypeInv', ElectionInv, NEW m \in voteReq, RequestVote(m)
    PROVE  ElectionInv'
<1> DEFINE i == m.dst
           newer == m.term > currentTerm[i]
           vf == IF newer THEN Nil ELSE voteFor[i]
           granted == grantsVote(i, vf, m)
           ballot == [voter |-> i, term |-> m.term, cand |-> m.src]
           reply == [src |-> m.src, dst |-> i, term |-> m.term,
                     replyTerm |-> m.term, granted |-> granted]
<1>1. /\ upToDate(i, m.term)
      /\ state' = IF newer THEN [state EXCEPT ![i] = Follower] ELSE state
      /\ currentTerm' = [currentTerm EXCEPT ![i] = m.term]
      /\ voteCount' = IF newer THEN [voteCount EXCEPT ![i] = 0] ELSE voteCount
      /\ voteFor' = [voteFor EXCEPT ![i] = IF granted THEN m.src ELSE vf]
      /\ ballots' = IF granted THEN ballots \cup {ballot} ELSE ballots
      /\ voteReq' = voteReq \ {m}
      /\ voteRep' \subseteq voteRep \cup {reply}
      /\ elected' = elected
  BY DEF RequestVote, voteReply
<1>2. i \in Server /\ m.src \in Server /\ m.term \in Nat
  BY DEF TypeInv, TypeOK, CallTypes, VoteReqType
<1>3. granted => vf \in {Nil, m.src}
  BY DEF grantsVote
<1>4. /\ reply.src = m.src /\ reply.dst = i /\ reply.term = m.term /\ reply.replyTerm = m.term
      /\ reply.granted = granted
      /\ ballot = Ballot(i, m.term, m.src)
      /\ ballot.voter = i /\ ballot.term = m.term /\ ballot.cand = m.src
  BY DEF Ballot
<1> HIDE DEF granted, reply, ballot
<1>5. /\ currentTerm \in [Server -> Nat] /\ currentTerm' \in [Server -> Nat]
      /\ voteFor \in [Server -> Server \cup {Nil}]
  BY DEF TypeInv, TypeOK, PeerTypes
<1>6. /\ currentTerm'[i] = m.term /\ m.term >= currentTerm[i]
      /\ voteFor'[i] = IF granted THEN m.src ELSE vf
      /\ \A j \in Server \ {i} : currentTerm'[j] = currentTerm[j] /\ voteFor'[j] = voteFor[j]
  BY <1>1, <1>2, <1>5 DEF upToDate
<1>7. /\ newer => voteCount'[i] = 0
      /\ ~newer => voteCount' = voteCount /\ state' = state /\ currentTerm' = currentTerm
      /\ \A j \in Server \ {i} : voteCount'[j] = voteCount[j] /\ state'[j] = state[j]
  <2>1. state \in [Server -> {Follower, Candidate, Leader}] /\ voteCount \in [Server -> Nat]
    BY DEF TypeInv, TypeOK, PeerTypes
  <2>2. ~newer => m.term = currentTerm[i]
    BY <1>2, <1>5, <1>6
  <2> QED
    BY <1>1, <1>2, <1>5, <2>1, <2>2
<1>8. \A j \in Server : currentTerm'[j] >= currentTerm[j]
  BY <1>2, <1>5, <1>6
<1>9. \A b \in ballots : /\ b.voter \in Server /\ b.cand \in Server /\ b.term \in Nat
                         /\ b.term <= currentTerm[b.cand] /\ b.term <= currentTerm[b.voter]
                         /\ b.term = currentTerm[b.voter] => voteFor[b.voter] = b.cand
  BY DEF TypeInv, TypeOK, HistoryTypes, BallotType, ElectionInv, VotesRemembered
<1>10. ballots \subseteq ballots' /\ ballots' \subseteq ballots \cup {ballot}
       /\ (ballot \in ballots' \/ ~granted) /\ (granted \/ ballots' = ballots)
  BY <1>1
<1>11. m.term <= currentTerm[m.src] /\ m.src # i /\ ballot \notin ballots
  BY <1>4 DEF ElectionInv, RequestsUnanswered
<1>12. \A r \in voteRep : ~(m.src = r.src /\ i = r.dst /\ m.term = r.term)
  BY DEF ElectionInv, RequestsUnanswered
<1>13. \A b \in ballots : b.voter = i /\ b.term = m.term => ~newer /\ voteFor[i] = b.cand
  BY <1>2, <1>5, <1>6, <1>9
<1>14. VotesRemembered'
  <2> SUFFICES ASSUME NEW b \in ballots'
               PROVE  /\ b.term <= currentTerm'[b.cand]
                      /\ b.term <= currentTerm'[b.voter]
                      /\ b.term = currentTerm'[b.voter] => voteFor'[b.voter] = b.cand
    BY DEF VotesRemembered
  <2>1. CASE b \in ballots
    <3>1. b.term <= currentTerm'[b.cand] /\ b.term <= currentTerm'[b.voter]
      BY <1>5, <1>8, <1>9, <2>1
    <3>2. CASE b.voter = i
      <4>1. b.term = m.term => ~newer /\ voteFor[i] = b.cand
        BY <1>13, <2>1, <3>2
      <4>2. b.cand \in Server /\ Nil \notin Server
        BY <1>9, <2>1, ServerAssumption
      <4>3. b.term = m.term => vf = b.cand /\ (granted => m.src = b.cand)
        BY <1>3, <4>1, <4>2
      <4> QED
        BY <1>6, <3>1, <3>2, <4>3
    <3>3. CASE b.voter # i
      BY <1>6, <1>9, <2>1, <3>1, <3>3
    <3> QED
      BY <3>2, <3>3
  <2>2. CASE b = ballot /\ granted
    <3>1. m.term <= currentTerm'[m.src]
      BY <1>2, <1>5, <1>8, <1>11
    <3> QED
      BY <1>2, <1>4, <1>6, <2>2, <3>1
  <2> QED
    BY <1>10, <2>1, <2>2
<1>15. OneVotePerTerm'
  <2> SUFFICES ASSUME NEW b \in ballots', NEW c \in ballots', b.voter = c.voter, b.term = c.term
               PROVE  b.cand = c.cand
    BY DEF OneVotePerTerm
  <2>1. ASSUME granted, NEW d \in ballots, d.voter = i, d.term = m.term
        PROVE  d.cand = m.src
    <3>1. ~newer /\ voteFor[i] = d.cand /\ d.cand \in Server /\ Nil \notin Server
      BY <1>9, <1>13, <2>1, ServerAssumption
    <3> QED
      BY <1>3, <2>1, <3>1
  <2>2. CASE b \in ballots /\ c \in ballots
    BY <2>2 DEF ElectionInv, OneVotePerTerm
  <2>3. CASE ~(b \in ballots /\ c \in ballots)
    BY <1>4, <1>10, <2>1, <2>3
  <2> QED
    BY <2>2, <2>3
<1>16. RequestsUnanswered'
  <2>1. ASSUME NEW n \in voteReq'
        PROVE  n \in voteReq /\ n # m /\ ~(n.src = m.src /\ n.dst = i /\ n.term = m.term)
    BY <1>1 DEF ElectionInv, RequestsUnanswered
  <2>2. ASSUME NEW n \in voteReq'
        PROVE  /\ n.term <= currentTerm'[n.src]
               /\ n.src # n.dst
               /\ Ballot(n.dst, n.term, n.src) \notin ballots'
    <3>1. n.src \in Server /\ n.term \in Nat
      BY <2>1 DEF TypeInv, TypeOK, CallTypes, VoteReqType
    <3>2. n.term <= currentTerm[n.src] /\ n.src # n.dst /\ Ballot(n.dst, n.term, n.src) \notin ballots
      BY <2>1 DEF ElectionInv, RequestsUnanswered
    <3>3. n.term <= currentTerm'[n.src]
      BY <1>5, <1>8, <3>1, <3>2
    <3>4. Ballot(n.dst, n.term, n.src) # ballot
      BY <1>4, <2>1 DEF Ballot
    <3> QED
      BY <1>10, <3>2, <3>3, <3>4
  <2>3. \A n, q \in voteReq' :
            n.src = q.src /\ n.dst = q.dst /\ n.term = q.term => n = q
    BY <2>1 DEF ElectionInv, RequestsUnanswered
  <2>4. \A n \in voteReq', r \in voteRep' : ~(n.src = r.src /\ n.dst = r.dst /\ n.term = r.term)
    BY <1>1, <1>4, <2>1 DEF ElectionInv, RequestsUnanswered
  <2> QED
    BY <2>2, <2>3, <2>4 DEF RequestsUnanswered
<1>17. RepliesTruthful'
  <2>1. ASSUME NEW r \in voteRep'
        PROVE  /\ r.term <= currentTerm'[r.src]
               /\ r.granted => r.replyTerm = r.term /\ Ballot(r.dst, r.term, r.src) \in ballots'
    <3>1. CASE r \in voteRep
      <4>1. r.src \in Server /\ r.term \in Nat
        BY <3>1 DEF TypeInv, TypeOK, CallTypes, VoteRepType
      <4>2. /\ r.term <= currentTerm[r.src]
            /\ r.granted => r.replyTerm = r.term /\ Ballot(r.dst, r.term, r.src) \in ballots
        BY <3>1 DEF ElectionInv, RepliesTruthful
      <4> QED
        BY <1>5, <1>8, <1>10, <4>1, <4>2
    <3>2. CASE r = reply
      <4>1. m.term <= currentTerm'[m.src]
        BY <1>2, <1>5, <1>8, <1>11
      <4> QED
        BY <1>4, <1>10, <3>2, <4>1
    <3> QED
      BY <1>1, <3>1, <3>2
  <2>2. \A r, s \in voteRep' : r.src = s.src /\ r.dst = s.dst /\ r.term = s.term => r = s
    BY <1>1, <1>4, <1>12 DEF ElectionInv, RepliesTruthful
  <2> QED
    BY <2>1, <2>2 DEF RepliesTruthful
<1>18. CountsAreVotes'
  <2> SUFFICES ASSUME NEW j \in Server, state'[j] # Leader
               PROVE  voteCount'[j] <= Cardinality(Counted(j)')
    BY DEF CountsAreVotes
  <2>1. CASE j = i /\ newer
    BY <1>7, <2>1, CountedFinite
  <2>2. CASE j # i \/ ~newer
    <3>1. state'[j] = state[j] /\ voteCount'[j] = voteCount[j] /\ currentTerm'[j] = currentTerm[j]
      BY <1>6, <1>7, <2>2
    <3>2. voteCount[j] <= Cardinality(Counted(j)) /\ voteCount[j] \in Nat
      BY <3>1 DEF ElectionInv, CountsAreVotes, TypeInv, TypeOK, PeerTypes
    <3>3. \A r \in voteRep' : r.src = j => r \in voteRep \/ Ballot(r.dst, r.term, j) \notin ballots
      BY <1>1, <1>4, <1>11
    <3>4. Cardinality(Counted(j)) <= Cardinality(Counted(j)')
      BY <1>10, <3>1, <3>3, CountedGrows
    <3> QED
      BY <3>1, <3>2, <3>4, CountedFinite
  <2> QED
    BY <2>1, <2>2
<1>19. LeadersHaveMajority'
  BY <1>1, <1>10, MajorityKept DEF ElectionInv
<1> QED
  BY <1>14, <1>15, <1>16, <1>17, <1>18, <1>19 DEF ElectionInv

\* A vote that arrives in time is counted once, and a majority of counted
\* votes makes a leader.
LEMMA ElectionCount ==
    ASSUME TypeInv, TypeInv', ElectionInv, NEW r \in voteRep, VoteReplyCount(r)
    PROVE  ElectionInv'
<1> DEFINE i == r.src
           count == voteCount[i] + (IF r.granted THEN 1 ELSE 0)
           wins == state[i] # Leader /\ count >= getMajorityCount(Server)
           e == [term |-> currentTerm[i], leader |-> i]
<1>1. /\ r.replyTerm = currentTerm[i]
      /\ UNCHANGED <<currentTerm, voteFor, voteReq, ballots>>
      /\ voteRep' = voteRep \ {r}
      /\ wins => becomeLeader(i)
      /\ ~wins => /\ voteCount' = [voteCount EXCEPT ![i] = count]
                  /\ UNCHANGED <<state, elected>>
  BY DEF VoteReplyCount
<1>2. i \in Server /\ r.dst \in Server /\ r.granted \in BOOLEAN /\ voteCount[i] \in Nat
  BY DEF TypeInv, TypeOK, CallTypes, VoteRepType, PeerTypes
<1>3. /\ state'[i] = IF wins THEN Leader ELSE state[i]
      /\ ~wins => voteCount'[i] = count
      /\ \A j \in Server \ {i} : state'[j] = state[j] /\ voteCount'[j] = voteCount[j]
      /\ elected' = IF wins THEN elected \cup {e} ELSE elected
  <2>1. state \in [Server -> {Follower, Candidate, Leader}] /\ voteCount \in [Server -> Nat]
    BY DEF TypeInv, TypeOK, PeerTypes
  <2>2. CASE wins
    BY <1>1, <1>2, <2>1, <2>2 DEF becomeLeader
  <2>3. CASE ~wins
    BY <1>1, <1>2, <2>1, <2>3
  <2> QED
    BY <2>2, <2>3
<1>4. VotesRemembered' /\ OneVotePerTerm' /\ RequestsUnanswered' /\ RepliesTruthful'
  BY <1>1 DEF ElectionInv, VotesRemembered, OneVotePerTerm, RequestsUnanswered, RepliesTruthful
<1>5. \A j \in Server : /\ Counted(j) \subseteq Counted(j)'
                        /\ Cardinality(Counted(j)) <= Cardinality(Counted(j)')
  BY <1>1, CountedGrows
<1>6. state[i] # Leader => count <= Cardinality(Counted(i)')
  <2> SUFFICES ASSUME state[i] # Leader
               PROVE  count <= Cardinality(Counted(i)')
    OBVIOUS
  <2>1. voteCount[i] <= Cardinality(Counted(i))
    BY <1>2 DEF ElectionInv, CountsAreVotes
  <2>2. CASE ~r.granted
    <3>1. count = voteCount[i]
      BY <1>2, <2>2
    <3> QED
      BY <1>2, <1>5, <2>1, <3>1, CountedFinite
  <2>3. CASE r.granted
    <3>1. r.term = currentTerm[i] /\ Ballot(r.dst, currentTerm[i], i) \in ballots
      BY <1>1, <2>3 DEF ElectionInv, RepliesTruthful
    <3>2. r.dst \notin Counted(i)
      BY <2>3, <3>1 DEF Counted
    <3>3. r.dst \in Counted(i)'
      <4>1. ~\E s \in voteRep' : s.src = i /\ s.dst = r.dst /\ s.term = r.term
        BY <1>1 DEF ElectionInv, RepliesTruthful
      <4> QED
        BY <1>1, <1>2, <3>1, <4>1 DEF Counted
    <3>4. Counted(i) \cup {r.dst} \in SUBSET Counted(i)'
      BY <1>2, <1>5, <3>3
    <3>5. Cardinality(Counted(i) \cup {r.dst}) = Cardinality(Counted(i)) + 1
      BY <1>2, <3>2, CountedFinite, FS_AddElement
    <3>6. Cardinality(Counted(i) \cup {r.dst}) <= Cardinality(Counted(i)')
      BY <1>2, <3>4, CountedFinite, FS_Subset
    <3>7. count = voteCount[i] + 1
      BY <2>3
    <3> QED
      BY <1>2, <2>1, <3>5, <3>6, <3>7, CountedFinite
  <2> QED
    BY <2>2, <2>3
<1>7. CountsAreVotes'
  <2> SUFFICES ASSUME NEW j \in Server, state'[j] # Leader
               PROVE  voteCount'[j] <= Cardinality(Counted(j)')
    BY DEF CountsAreVotes
  <2>1. CASE j = i
    BY <1>3, <1>6, <2>1
  <2>2. CASE j # i
    <3>1. voteCount[j] <= Cardinality(Counted(j)) /\ voteCount[j] \in Nat
      BY <1>3, <2>2 DEF ElectionInv, CountsAreVotes, TypeInv, TypeOK, PeerTypes
    <3> QED
      BY <1>3, <1>5, <2>2, <3>1, CountedFinite
  <2> QED
    BY <2>1, <2>2
<1>8. LeadersHaveMajority'
  <2> SUFFICES ASSUME NEW f \in elected'
               PROVE  Cardinality(Voters(f)') >= getMajorityCount(Server)
    BY DEF LeadersHaveMajority
  <2>1. CASE f \in elected
    <3>1. Cardinality(Voters(f)) >= getMajorityCount(Server)
      BY <2>1 DEF ElectionInv, LeadersHaveMajority
    <3> QED
      BY <1>1, <3>1, VotersGrow, MajorityIsNat
  <2>2. CASE wins /\ f = e
    <3>1. f.term = currentTerm[i] /\ f.leader = i
      BY <2>2
    <3>2. Counted(i)' \in SUBSET Voters(f)'
      BY <1>1, <3>1 DEF Counted, Voters
    <3>3. Voters(f)' \in SUBSET Server /\ IsFiniteSet(Server)
      BY ServerAssumption DEF Voters
    <3>4. IsFiniteSet(Voters(f)') /\ Cardinality(Voters(f)') \in Nat
      BY <3>3, FS_Subset, FS_CardinalityType
    <3>5. Cardinality(Counted(i)') <= Cardinality(Voters(f)')
      BY <3>2, <3>4, FS_Subset
    <3>6. count <= Cardinality(Counted(i)') /\ count >= getMajorityCount(Server) /\ count \in Nat
      BY <1>2, <1>6, <2>2
    <3> QED
      BY <1>2, <3>4, <3>5, <3>6, CountedFinite, MajorityIsNat
  <2> QED
    BY <1>3, <2>1, <2>2
<1> QED
  BY <1>4, <1>7, <1>8 DEF ElectionInv

\* A restarted peer remembers its term and its vote, and counts from zero.
LEMMA ElectionRestart ==
    ASSUME TypeInv, TypeInv', ElectionInv, NEW i \in Server, Restart(i)
    PROVE  ElectionInv'
<1>1. persisted[i].term = currentTerm[i] /\ persisted[i].voteFor = voteFor[i]
  <2>1. persisted[i] = [term |-> currentTerm[i], voteFor |-> voteFor[i], log |-> log[i]]
    BY DEF TypeInv, PersistedIsCurrent
  <2> QED
    BY <2>1
<1>2. /\ state \in [Server -> {Follower, Candidate, Leader}] /\ currentTerm \in [Server -> Nat]
      /\ voteFor \in [Server -> Server \cup {Nil}] /\ voteCount \in [Server -> Nat]
  BY DEF TypeInv, TypeOK, PeerTypes
<1>3. /\ currentTerm' = currentTerm /\ voteFor' = voteFor
      /\ voteCount'[i] = 0
      /\ \A j \in Server \ {i} : state'[j] = state[j] /\ voteCount'[j] = voteCount[j]
  BY <1>1, <1>2 DEF Restart
<1>4. /\ voteReq' = {[m EXCEPT !.orphan = @ \/ m.src = i] : m \in voteReq}
      /\ voteRep' \subseteq voteRep
      /\ ballots' = ballots /\ elected' = elected
  BY DEF Restart, orphaned, historyVars
<1>5. VotesRemembered' /\ OneVotePerTerm' /\ RepliesTruthful'
  BY <1>3, <1>4 DEF ElectionInv, VotesRemembered, OneVotePerTerm, RepliesTruthful
<1>6. ASSUME NEW n \in voteReq'
      PROVE  \E m \in voteReq : /\ n = [m EXCEPT !.orphan = @ \/ m.src = i]
                                /\ n.src = m.src /\ n.dst = m.dst /\ n.term = m.term
  <2>1. PICK m \in voteReq : n = [m EXCEPT !.orphan = @ \/ m.src = i]
    BY <1>4
  <2>2. m \in VoteReqType
    BY DEF TypeInv, TypeOK, CallTypes
  <2> QED
    BY <2>1, <2>2 DEF VoteReqType
<1>7. RequestsUnanswered'
  <2>1. \A n \in voteReq' : /\ n.term <= currentTerm'[n.src]
                            /\ n.src # n.dst
                            /\ Ballot(n.dst, n.term, n.src) \notin ballots'
    BY <1>3, <1>4, <1>6 DEF ElectionInv, RequestsUnanswered
  <2>2. ASSUME NEW n \in voteReq', NEW q \in voteReq',
               n.src = q.src, n.dst = q.dst, n.term = q.term
        PROVE  n = q
    <3>1. PICK m \in voteReq : /\ n = [m EXCEPT !.orphan = @ \/ m.src = i]
                               /\ n.src = m.src /\ n.dst = m.dst /\ n.term = m.term
      BY <1>6
    <3>2. PICK p \in voteReq : /\ q = [p EXCEPT !.orphan = @ \/ p.src = i]
                               /\ q.src = p.src /\ q.dst = p.dst /\ q.term = p.term
      BY <1>6
    <3>3. m = p
      BY <2>2, <3>1, <3>2 DEF ElectionInv, RequestsUnanswered
    <3> QED
      BY <3>1, <3>2, <3>3
  <2>3. \A n \in voteReq', s \in voteRep' : ~(n.src = s.src /\ n.dst = s.dst /\ n.term = s.term)
    BY <1>4, <1>6 DEF ElectionInv, RequestsUnanswered
  <2> QED
    BY <2>1, <2>2, <2>3 DEF RequestsUnanswered
<1>8. CountsAreVotes'
  <2> SUFFICES ASSUME NEW j \in Server, state'[j] # Leader
               PROVE  voteCount'[j] <= Cardinality(Counted(j)')
    BY DEF CountsAreVotes
  <2>1. CASE j = i
    BY <1>3, <2>1, CountedFinite
  <2>2. CASE j # i
    <3>1. voteCount[j] <= Cardinality(Counted(j)) /\ voteCount[j] \in Nat
      BY <1>2, <1>3, <2>2 DEF ElectionInv, CountsAreVotes
    <3>2. Cardinality(Counted(j)) <= Cardinality(Counted(j)')
      BY <1>3, <1>4, CountedGrows
    <3> QED
      BY <1>3, <2>2, <3>1, <3>2, CountedFinite
  <2> QED
    BY <2>1, <2>2
<1>9. LeadersHaveMajority'
  BY <1>4, MajorityKept DEF ElectionInv
<1> QED
  BY <1>5, <1>7, <1>8, <1>9 DEF ElectionInv

-----------------------------------------------------------------------------
\* A peer that learns of a newer term, from whatever call or reply.
LEMMA ElectionNewer ==
    ASSUME TypeInv, TypeInv', ElectionInv, NEW i \in Server, NEW t \in Nat,
           (t > currentTerm[i] /\ becomeFollower(i, t)) \/ UNCHANGED electionVars,
           voteReq' \subseteq voteReq, voteRep' \subseteq voteRep, ballots' = ballots, elected' = elected
    PROVE  ElectionInv'
<1>1. CASE t > currentTerm[i] /\ becomeFollower(i, t)
  <2>1. /\ state \in [Server -> {Follower, Candidate, Leader}] /\ currentTerm \in [Server -> Nat]
        /\ voteFor \in [Server -> Server \cup {Nil}] /\ voteCount \in [Server -> Nat]
    BY DEF TypeInv, TypeOK, PeerTypes
  <2>2. /\ currentTerm'[i] > currentTerm[i] /\ voteCount'[i] = 0
        /\ \A j \in Server \ {i} : /\ state'[j] = state[j] /\ currentTerm'[j] = currentTerm[j]
                                   /\ voteFor'[j] = voteFor[j] /\ voteCount'[j] = voteCount[j]
    BY <1>1, <2>1 DEF becomeFollower
  <2> QED
    BY <2>2, ElectionQuiet
<1>2. CASE UNCHANGED electionVars
  BY <1>2, ElectionQuiet DEF electionVars
<1> QED
  BY <1>1, <1>2

\* Nobody has voted when every peer has just started.
LEMMA ElectionInit == Init => ElectionInv
<1> SUFFICES ASSUME Init PROVE ElectionInv
  OBVIOUS
<1>1. CountsAreVotes
  <2>1. \A i \in Server : voteCount[i] = 0 /\ Cardinality(Counted(i)) \in Nat
    BY CountedFinite DEF Init
  <2> QED
    BY <2>1 DEF CountsAreVotes
<1> QED
  BY <1>1 DEF Init, ElectionInv, VotesRemembered, OneVotePerTerm, RequestsUnanswered,
         RepliesTruthful, LeadersHaveMajority

\* The calls of replication.
LEMMA ElectionReplication ==
    ASSUME TypeInv, TypeInv', ElectionInv, ReplicationStep
    PROVE  ElectionInv'
<1>1. ASSUME NEW i \in Server, startAppend(i) \/ \E v \in Value : Start(i, v)
      PROVE  ElectionInv'
  <2>1. UNCHANGED <<electionVars, voteNet, historyVars>>
    BY <1>1 DEF startAppend, Start
  <2> QED
    BY <2>1, ElectionQuiet DEF electionVars, voteNet, historyVars
<1>2. ASSUME NEW m \in appendReq,
             \/ AppendEntriesStale(m) \/ AppendEntriesOutOfRange(m)
             \/ AppendEntriesConflict(m) \/ AppendEntriesAccept(m)
      PROVE  ElectionInv'
  <2>1. m.dst \in Server /\ m.term \in Nat
    BY DEF TypeInv, TypeOK, CallTypes, AppendReqType
  <2>2. (m.term > currentTerm[m.dst] /\ becomeFollower(m.dst, m.term)) \/ UNCHANGED electionVars
    BY <1>2 DEF AppendEntriesStale, AppendEntriesOutOfRange, AppendEntriesConflict,
           AppendEntriesAccept, observeTerm
  <2>3. UNCHANGED <<voteNet, ballots, elected>>
    BY <1>2 DEF AppendEntriesStale, AppendEntriesOutOfRange, AppendEntriesConflict,
           AppendEntriesAccept, historyVars
  <2> QED
    BY <2>1, <2>2, <2>3, ElectionNewer DEF voteNet
<1>3. ASSUME NEW r \in appendRep,
             \/ AppendReplyNewer(r) \/ AppendReplyStale(r)
             \/ AppendReplySuccess(r) \/ AppendReplyFailure(r)
      PROVE  ElectionInv'
  <2>1. r.src \in Server /\ r.replyTerm \in Nat
    BY DEF TypeInv, TypeOK, CallTypes, AppendRepType
  <2>2. (r.replyTerm > currentTerm[r.src] /\ becomeFollower(r.src, r.replyTerm)) \/ UNCHANGED electionVars
    BY <1>3 DEF AppendReplyNewer, AppendReplyStale, AppendReplySuccess, AppendReplyFailure
  <2>3. UNCHANGED <<voteNet, ballots, elected>>
    BY <1>3 DEF AppendReplyNewer, AppendReplyStale, AppendReplySuccess, AppendReplyFailure, historyVars
  <2> QED
    BY <2>1, <2>2, <2>3, ElectionNewer DEF voteNet
<1> QED
  BY <1>1, <1>2, <1>3 DEF ReplicationStep

\* The service and the snapshot calls.
LEMMA ElectionSnapshot ==
    ASSUME TypeInv, TypeInv', ElectionInv, SnapshotStep
    PROVE  ElectionInv'
<1>1. ASSUME NEW i \in Server,
             Apply(i) \/ SaveSnapshot(i) \/ \E j \in Server \ {i} : startInstallSnapshot(i, j)
      PROVE  ElectionInv'
  <2>1. UNCHANGED <<electionVars, voteNet, historyVars>>
    BY <1>1 DEF Apply, SaveSnapshot, startInstallSnapshot
  <2> QED
    BY <2>1, ElectionQuiet DEF electionVars, voteNet, historyVars
<1>2. ASSUME NEW m \in snapReq, InstallSnapshotStale(m) \/ InstallSnapshot(m)
      PROVE  ElectionInv'
  <2>1. m.dst \in Server /\ m.term \in Nat
    BY DEF TypeInv, TypeOK, CallTypes, SnapReqType
  <2>2. (m.term > currentTerm[m.dst] /\ becomeFollower(m.dst, m.term)) \/ UNCHANGED electionVars
    BY <1>2 DEF InstallSnapshotStale, InstallSnapshot, observeTerm
  <2>3. UNCHANGED <<voteNet, ballots, elected>>
    BY <1>2 DEF InstallSnapshotStale, InstallSnapshot, historyVars
  <2> QED
    BY <2>1, <2>2, <2>3, ElectionNewer DEF voteNet
<1>3. ASSUME NEW r \in snapRep, SnapReplyIgnored(r) \/ SnapReplyNewer(r) \/ SnapReplyAdvance(r)
      PROVE  ElectionInv'
  <2>1. r.src \in Server /\ r.replyTerm \in Nat
    BY DEF TypeInv, TypeOK, CallTypes, SnapRepType
  <2>2. (r.replyTerm > currentTerm[r.src] /\ becomeFollower(r.src, r.replyTerm)) \/ UNCHANGED electionVars
    BY <1>3 DEF SnapReplyIgnored, SnapReplyNewer, SnapReplyAdvance
  <2>3. UNCHANGED <<voteNet, ballots, elected>>
    BY <1>3 DEF SnapReplyIgnored, SnapReplyNewer, SnapReplyAdvance, historyVars
  <2> QED
    BY <2>1, <2>2, <2>3, ElectionNewer DEF voteNet
<1> QED
  BY <1>1, <1>2, <1>3 DEF SnapshotStep

\* No step breaks what the history of votes guarantees.
LEMMA ElectionNext ==
    ASSUME TypeInv, TypeInv', ElectionInv, [Next]_vars
    PROVE  ElectionInv'
<1>1. CASE ElectionStep
  <2>1. ASSUME NEW r \in voteRep, VoteReplyStale(r) \/ VoteReplyNewer(r)
        PROVE  ElectionInv'
    <3>1. r.src \in Server /\ r.replyTerm \in Nat
      BY DEF TypeInv, TypeOK, CallTypes, VoteRepType
    <3>2. (r.replyTerm > currentTerm[r.src] /\ becomeFollower(r.src, r.replyTerm)) \/ UNCHANGED electionVars
      BY <2>1 DEF VoteReplyStale, VoteReplyNewer
    <3>3. voteRep' \subseteq voteRep /\ UNCHANGED <<voteReq, ballots, elected>>
      BY <2>1 DEF VoteReplyStale, VoteReplyNewer, historyVars
    <3> QED
      BY <3>1, <3>2, <3>3, ElectionNewer
  <2> QED
    BY <1>1, <2>1, ElectionStart, ElectionRefuse, ElectionVote, ElectionCount DEF ElectionStep
<1>2. CASE ReplicationStep
  BY <1>2, ElectionReplication
<1>3. CASE SnapshotStep
  BY <1>3, ElectionSnapshot
<1>4. CASE FaultStep
  <2>1. CASE LoseVote \/ LoseAppend \/ LoseSnapshot
    <3>1. /\ voteReq' \subseteq voteReq /\ voteRep' \subseteq voteRep
          /\ UNCHANGED <<electionVars, historyVars>>
      BY <2>1 DEF LoseVote, LoseAppend, LoseSnapshot, voteNet
    <3> QED
      BY <3>1, ElectionQuiet DEF electionVars, historyVars
  <2> QED
    BY <1>4, <2>1, ElectionRestart DEF FaultStep
<1>5. CASE UNCHANGED vars
  BY <1>5, ElectionQuiet DEF vars, electionVars, voteNet, historyVars
<1> QED
  BY <1>1, <1>2, <1>3, <1>4, <1>5 DEF Next

\* The inductive invariant of elections holds in every reachable state: a vote
\* is on disk before it is sent, is answered once and is counted once.
THEOREM ElectionInvariant == Spec => []ElectionInv
<1>1. Init => TypeInv /\ ElectionInv
  BY TypeInit, ElectionInit
<1>2. TypeInv /\ ElectionInv /\ [Next]_vars => (TypeInv /\ ElectionInv)'
  BY TypeNext, ElectionNext
<1> QED
  BY <1>1, <1>2, PTL DEF Spec

\* Two majorities of one term share a voter, who voted for both leaders.
LEMMA MajoritiesAgree == ElectionInv /\ TypeInv => ElectionSafety
<1> SUFFICES ASSUME ElectionInv, TypeInv, NEW e \in elected, NEW f \in elected, e.term = f.term
             PROVE  e.leader = f.leader
  BY DEF ElectionSafety
<1>1. /\ Cardinality(Voters(e)) >= Cardinality(Server) \div 2 + 1
      /\ Cardinality(Voters(f)) >= Cardinality(Server) \div 2 + 1
  BY DEF ElectionInv, LeadersHaveMajority, getMajorityCount
<1>2. Voters(e) \subseteq Server /\ Voters(f) \subseteq Server /\ IsFiniteSet(Server)
  BY ServerAssumption DEF Voters
<1>3. /\ Cardinality(Server) \in Nat /\ Cardinality(Voters(e)) \in Nat
      /\ Cardinality(Voters(f)) \in Nat
  BY <1>2, FS_Subset, FS_CardinalityType
<1>4. Cardinality(Voters(e)) + Cardinality(Voters(f)) > Cardinality(Server)
  BY <1>1, <1>3
<1>5. PICK j : j \in Voters(e) /\ j \in Voters(f)
  BY <1>2, <1>4, FS_MajoritiesIntersect
<1>6. Ballot(j, e.term, e.leader) \in ballots /\ Ballot(j, f.term, f.leader) \in ballots
  BY <1>5 DEF Voters
<1> QED
  BY <1>6 DEF Ballot, ElectionInv, OneVotePerTerm

\* No peer ever casts two votes in one term, whatever crashes, restarts and
\* reordered requests come between them.
THEOREM VotesOnce == Spec => []OneVotePerTerm
<1>1. ElectionInv => OneVotePerTerm
  BY DEF ElectionInv
<1> QED
  BY <1>1, ElectionInvariant, PTL

\* No term ever has two leaders, for any number of peers (even ones included)
\* and under crashes, lost, delayed and reordered calls.
THEOREM OneLeaderPerTerm == Spec => []ElectionSafety
<1>1. Spec => []TypeInv
  BY TypeInit, TypeNext, PTL DEF Spec
<1> QED
  BY <1>1, ElectionInvariant, MajoritiesAgree, PTL
=============================================================================
