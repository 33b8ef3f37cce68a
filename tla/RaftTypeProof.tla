--------------------------- MODULE RaftTypeProof ----------------------------
(* Type correctness of Raft: no step stores a value outside its type, for    *)
(* any set of servers and any bounds.                                        *)
EXTENDS RaftInv, SequenceTheorems, TLAPS

\* A log as getLogItemAtIndex needs it.
IsLog(l) ==
    /\ l \in Seq(ItemType)
    /\ l # <<>>
    /\ \A k \in DOMAIN l : l[k].index = l[1].index + k - 1

\* First and last index of a log differ by its length.
LEMMA LogBounds ==
    ASSUME NEW l, IsLog(l)
    PROVE  /\ Len(l) \in Nat /\ Len(l) >= 1
           /\ getDummyLogIndex(l) \in Nat
           /\ getLastLogIndex(l) \in Nat
           /\ getLastLogIndex(l) = getDummyLogIndex(l) + Len(l) - 1
           /\ getLastLogTerm(l) \in Nat
<1>1. Len(l) \in Nat /\ Len(l) >= 1 /\ DOMAIN l = 1..Len(l)
  BY DEF IsLog
<1>2. l[1] \in ItemType /\ l[Len(l)] \in ItemType
  BY <1>1 DEF IsLog
<1>3. getDummyLogIndex(l) = l[1].index /\ getLastLogIndex(l) = l[Len(l)].index
  BY DEF getDummyLogIndex, getLastLogIndex
<1>4. l[1].index \in Nat /\ l[Len(l)].index \in Nat /\ l[Len(l)].term \in Nat
  BY <1>2 DEF ItemType
<1>5. l[Len(l)].index = l[1].index + Len(l) - 1
  BY <1>1 DEF IsLog
<1>6. getLastLogIndex(l) - getDummyLogIndex(l) + 1 = Len(l)
  BY <1>1, <1>3, <1>4, <1>5
<1>7. getLastLogTerm(l) = l[Len(l)].term
  BY <1>6 DEF getLastLogTerm, getLogItemAtIndex
<1> QED
  BY <1>1, <1>3, <1>4, <1>5, <1>7

\* getLogItemAtIndex finds the item with that index.
LEMMA LogLookup ==
    ASSUME NEW l, IsLog(l), NEW i \in Int, logContainIndex(l, i)
    PROVE  /\ i - getDummyLogIndex(l) + 1 \in DOMAIN l
           /\ getLogItemAtIndex(l, i) \in ItemType
           /\ getLogItemAtIndex(l, i).index = i
<1>1. PICK d \in Nat : d = getDummyLogIndex(l) /\ d = l[1].index
  BY LogBounds DEF getDummyLogIndex
<1>2. DOMAIN l = 1..Len(l) /\ Len(l) \in Nat
  BY DEF IsLog
<1>10. getLastLogIndex(l) = d + Len(l) - 1
  BY <1>1, LogBounds
<1>11. d <= i /\ i <= getLastLogIndex(l)
  BY <1>1 DEF logContainIndex
<1>12. d <= i /\ i <= d + Len(l) - 1
  BY <1>10, <1>11
<1>3. i - d + 1 \in 1..Len(l)
  BY <1>1, <1>2, <1>12
<1>4. PICK k \in 1..Len(l) : k = i - d + 1
  BY <1>3
<1>5. l[k] \in ItemType
  BY <1>4 DEF IsLog
<1>6. l[k].index = d + k - 1
  BY <1>1, <1>2, <1>4 DEF IsLog
<1>7. getLogItemAtIndex(l, i) = l[k]
  BY <1>1, <1>4 DEF getLogItemAtIndex
<1>8. d + k - 1 = i
  BY <1>1, <1>2, <1>4
<1> QED
  BY <1>1, <1>2, <1>4, <1>5, <1>6, <1>7, <1>8

\* A subsequence within a sequence: its length and its elements.
LEMMA SubSeqWithin ==
    ASSUME NEW S, NEW l \in Seq(S), NEW a \in Int, NEW b \in Int, a >= 1, b <= Len(l)
    PROVE  /\ SubSeq(l, a, b) \in Seq(S)
           /\ Len(SubSeq(l, a, b)) = IF a <= b THEN b - a + 1 ELSE 0
           /\ DOMAIN SubSeq(l, a, b) = 1..Len(SubSeq(l, a, b))
           /\ \A k \in 1..Len(SubSeq(l, a, b)) :
                  SubSeq(l, a, b)[k] = l[a + k - 1] /\ a + k - 1 \in 1..Len(l)
<1>1. Len(SubSeq(l, a, b)) = IF a <= b THEN b - a + 1 ELSE 0
  OBVIOUS
<1>2. DOMAIN SubSeq(l, a, b) = 1..Len(SubSeq(l, a, b))
  BY <1>1
<1>3. \A k \in 1..Len(SubSeq(l, a, b)) :
          SubSeq(l, a, b)[k] = l[a + k - 1] /\ a + k - 1 \in 1..Len(l)
  BY <1>1
<1>4. SubSeq(l, a, b) \in Seq(S)
  BY <1>1, <1>3
<1> QED
  BY <1>1, <1>2, <1>3, <1>4

\* A slice within the log: its length and its items.
LEMMA LogSlice ==
    ASSUME NEW l, IsLog(l), NEW i \in Int, NEW j \in Int,
           getDummyLogIndex(l) <= i, j <= getLastLogIndex(l),
           NEW s, s = getLogItemSliceInclusive(l, i, j)
    PROVE  /\ s \in Seq(ItemType)
           /\ Len(s) = IF i <= j THEN j - i + 1 ELSE 0
           /\ DOMAIN s = 1..Len(s)
           /\ \A k \in DOMAIN s :
                  /\ i - getDummyLogIndex(l) + k \in DOMAIN l
                  /\ s[k] = l[i - getDummyLogIndex(l) + k]
                  /\ s[k].index = i + k - 1
<1>0. PICK d \in Nat : d = getDummyLogIndex(l)
  BY LogBounds
<1>1. i - d + 1 \in Int /\ j - d + 1 \in Int /\ i - d + 1 >= 1 /\ j - d + 1 <= Len(l)
  BY <1>0, LogBounds
<1>2. l \in Seq(ItemType) /\ s = SubSeq(l, i - d + 1, j - d + 1)
  BY <1>0 DEF IsLog, getLogItemSliceInclusive
<1>3. /\ s \in Seq(ItemType)
      /\ Len(s) = IF i - d + 1 <= j - d + 1 THEN (j - d + 1) - (i - d + 1) + 1 ELSE 0
      /\ DOMAIN s = 1..Len(s)
      /\ \A k \in 1..Len(s) :
             s[k] = l[(i - d + 1) + k - 1] /\ (i - d + 1) + k - 1 \in 1..Len(l)
  BY <1>1, <1>2, SubSeqWithin
<1>4. ASSUME NEW k \in 1..Len(s)
      PROVE  i - d + k \in DOMAIN l /\ s[k] = l[i - d + k] /\ s[k].index = i + k - 1
  <2>0. k \in Int
    BY <1>3
  <2>1. (i - d + 1) + k - 1 = i - d + k
    BY <2>0
  <2>a. s[k] = l[(i - d + 1) + k - 1] /\ (i - d + 1) + k - 1 \in 1..Len(l)
    BY <1>3
  <2>b. DOMAIN l = 1..Len(l)
    BY <1>2
  <2>2. i - d + k \in DOMAIN l /\ s[k] = l[i - d + k]
    BY <2>1, <2>a, <2>b
  <2>3. l[i - d + k].index = l[1].index + (i - d + k) - 1
    BY <2>2 DEF IsLog
  <2>4. l[1].index = d
    BY <1>0 DEF getDummyLogIndex
  <2> QED
    BY <2>0, <2>2, <2>3, <2>4
<1>5. Len(s) = IF i <= j THEN j - i + 1 ELSE 0
  BY <1>3
<1> QED
  BY <1>0, <1>3, <1>4, <1>5

\* What deleteLogFromIndexInclusive leaves of a log.
LEMMA LogPrefix ==
    ASSUME NEW l, IsLog(l), NEW i \in Int,
           getDummyLogIndex(l) <= i, i <= getLastLogIndex(l) + 1,
           NEW p, p = deleteLogFromIndexInclusive(l, i)
    PROVE  /\ p \in Seq(ItemType)
           /\ Len(p) = i - getDummyLogIndex(l)
           /\ \A k \in DOMAIN p : k \in DOMAIN l /\ p[k] = l[k] /\ p[k].index = p[1].index + k - 1
           /\ p # <<>> => IsLog(p) /\ getLastLogIndex(p) = i - 1
<1>0. PICK d \in Nat : d = getDummyLogIndex(l)
  BY LogBounds
<1>1. p = getLogItemSliceInclusive(l, d, i - 1) /\ i - 1 \in Int /\ i - 1 <= getLastLogIndex(l)
  BY <1>0, LogBounds DEF deleteLogFromIndexInclusive
<1>2. /\ p \in Seq(ItemType)
      /\ Len(p) = IF d <= i - 1 THEN (i - 1) - d + 1 ELSE 0
      /\ DOMAIN p = 1..Len(p)
      /\ \A k \in DOMAIN p : d - d + k \in DOMAIN l /\ p[k] = l[d - d + k] /\ p[k].index = d + k - 1
  BY <1>0, <1>1, LogSlice
<1>3. Len(p) = i - d /\ Len(p) \in Nat
  BY <1>0, <1>2
<1>4. ASSUME NEW k \in DOMAIN p
      PROVE  k \in DOMAIN l /\ p[k] = l[k] /\ p[k].index = d + k - 1 /\ p[1].index = d
  <2>1. k \in Int /\ d - d + k = k /\ 1 \in DOMAIN p /\ d + 1 - 1 = d
    BY <1>2, <1>3
  <2> QED
    BY <1>2, <2>1
<1>5. ASSUME p # <<>>
      PROVE  IsLog(p) /\ getLastLogIndex(p) = i - 1
  <2>1. Len(p) \in DOMAIN p
    BY <1>2, <1>3, <1>5
  <2>2. \A k \in DOMAIN p : p[k].index = p[1].index + k - 1
    BY <1>4
  <2>3. p[Len(p)].index = d + Len(p) - 1
    BY <1>4, <2>1
  <2>4. p[Len(p)].index = i - 1
    BY <1>0, <1>3, <2>3
  <2> QED
    BY <1>2, <1>5, <2>2, <2>4 DEF IsLog, getLastLogIndex
<1> QED
  BY <1>0, <1>2, <1>3, <1>4, <1>5

\* What SaveSnapshot keeps of a log.
LEMMA LogSuffix ==
    ASSUME NEW l, IsLog(l), NEW i \in Int, logContainIndex(l, i),
           NEW s, s = getLogItemSliceInclusive(l, i, getLastLogIndex(l))
    PROVE  /\ IsLog(s)
           /\ getDummyLogIndex(s) = i
           /\ Len(s) = getLastLogIndex(l) - i + 1
           /\ \A k \in DOMAIN s : /\ i - getDummyLogIndex(l) + k \in DOMAIN l
                                  /\ s[k] = l[i - getDummyLogIndex(l) + k]
<1>0. PICK d \in Nat, e \in Nat : d = getDummyLogIndex(l) /\ e = getLastLogIndex(l)
  BY LogBounds
<1>1. d <= i /\ i <= e /\ s = getLogItemSliceInclusive(l, i, e) /\ e <= getLastLogIndex(l)
  BY <1>0 DEF logContainIndex
<1>2. /\ s \in Seq(ItemType)
      /\ Len(s) = IF i <= e THEN e - i + 1 ELSE 0
      /\ DOMAIN s = 1..Len(s)
      /\ \A k \in DOMAIN s : i - d + k \in DOMAIN l /\ s[k] = l[i - d + k] /\ s[k].index = i + k - 1
  BY <1>0, <1>1, LogSlice
<1>3. Len(s) = e - i + 1 /\ 1 \in DOMAIN s
  BY <1>0, <1>1, <1>2
<1>4. s[1].index = i
  <2>1. s[1].index = i + 1 - 1
    BY <1>2, <1>3
  <2> QED
    BY <2>1
<1>5. \A k \in DOMAIN s : s[k].index = s[1].index + k - 1
  BY <1>2, <1>4
<1> QED
  BY <1>0, <1>2, <1>3, <1>4, <1>5 DEF IsLog, getDummyLogIndex

\* Offsets from the first and from the last of n consecutive numbers.
LEMMA Offsets ==
    \A e, f, n, k \in Int : e = f + n - 1 => e + (k - n) = f + k - 1
OBVIOUS

\* Entries that follow the last item of a log extend it.
LEMMA LogExtended ==
    ASSUME NEW p, IsLog(p), NEW es \in Seq(ItemType),
           \A k \in DOMAIN es : es[k].index = getLastLogIndex(p) + k,
           NEW l, l = p \o es
    PROVE  /\ IsLog(l)
           /\ Len(l) = Len(p) + Len(es)
           /\ getLastLogIndex(l) = getLastLogIndex(p) + Len(es)
           /\ \A k \in DOMAIN p : k \in DOMAIN l /\ l[k] = p[k]
           /\ \A k \in DOMAIN es : Len(p) + k \in DOMAIN l /\ l[Len(p) + k] = es[k]
<1>1. /\ p \in Seq(ItemType) /\ Len(p) \in Nat /\ Len(p) >= 1 /\ DOMAIN p = 1..Len(p)
      /\ Len(es) \in Nat /\ DOMAIN es = 1..Len(es)
  BY LogBounds DEF IsLog
<1>2. /\ l \in Seq(ItemType) /\ Len(l) = Len(p) + Len(es) /\ DOMAIN l = 1..Len(l)
      /\ \A k \in 1..Len(l) : l[k] = IF k <= Len(p) THEN p[k] ELSE es[k - Len(p)]
  BY <1>1
<1>3. getDummyLogIndex(p) = p[1].index /\ getDummyLogIndex(p) \in Nat
      /\ getLastLogIndex(p) = p[1].index + Len(p) - 1 /\ getLastLogIndex(p) \in Nat
  BY LogBounds DEF getDummyLogIndex
<1>4. l[1] = p[1] /\ l # <<>>
  BY <1>1, <1>2
<1>5. ASSUME NEW k \in DOMAIN l
      PROVE  l[k].index = l[1].index + k - 1
  <2>1. CASE k <= Len(p)
    BY <1>1, <1>2, <1>4, <2>1 DEF IsLog
  <2>2. CASE k > Len(p)
    <3>1. k - Len(p) \in DOMAIN es /\ k \in Int
      BY <1>1, <1>2, <2>2
    <3>a. l[k] = es[k - Len(p)]
      BY <1>1, <1>2, <2>2, <3>1
    <3>2. l[k].index = getLastLogIndex(p) + (k - Len(p))
      BY <3>a, <3>1
    <3>3. PICK f \in Nat, e \in Nat, n \in Nat :
              /\ f = l[1].index /\ e = getLastLogIndex(p) /\ n = Len(p)
              /\ e = f + n - 1
      BY <1>1, <1>3, <1>4
    <3>4. k \in Int
      BY <3>1
    <3>7. e \in Int /\ f \in Int /\ n \in Int /\ k \in Int
      BY <3>4
    <3>8. e = f + n - 1
      BY <3>3
    <3>6. e + (k - n) = f + k - 1
      BY <3>7, <3>8, Offsets
    <3>5. l[k].index = e + (k - n)
      BY <3>2, <3>3
    <3> QED
      BY <3>3, <3>5, <3>6
  <2> QED
    BY <1>1, <1>2, <2>1, <2>2
<1>6. IsLog(l)
  BY <1>2, <1>4, <1>5 DEF IsLog
<1>7. getLastLogIndex(l) = getLastLogIndex(p) + Len(es)
  <2>1. getLastLogIndex(l) = l[1].index + Len(l) - 1
    BY <1>6, LogBounds DEF getDummyLogIndex
  <2> QED
    BY <2>1, <1>1, <1>2, <1>3, <1>4
<1>8. \A k \in DOMAIN p : k \in DOMAIN l /\ l[k] = p[k]
  BY <1>1, <1>2
<1>9. \A k \in DOMAIN es : Len(p) + k \in DOMAIN l /\ l[Len(p) + k] = es[k]
  BY <1>1, <1>2
<1> QED
  BY <1>2, <1>6, <1>7, <1>8, <1>9

-----------------------------------------------------------------------------
\* The log of a running peer is a log.
LEMMA RunningLog ==
    ASSUME TypeInv, NEW i \in Server, Running(i)
    PROVE  IsLog(log[i])
BY DEF TypeInv, TypeOK, LogTypes, LogsConsecutive, IsLog

USE DEF Follower, Candidate, Leader

\* Make on an empty Persister.
LEMMA TypeInit == Init => TypeInv
<1> SUFFICES ASSUME Init PROVE TypeInv
  OBVIOUS
<1>1. LogItem(DummyNode, 0, 0) \in ItemType
  BY DEF LogItem, ItemType
<1>2. freshLog \in Seq(ItemType) /\ freshLog # <<>> /\ DOMAIN freshLog = {1}
  BY <1>1 DEF freshLog
<1>3. PeerTypes
  BY DEF Init, PeerTypes
<1>4. log \in [Server -> Seq(ItemType)]
  BY <1>2 DEF Init
<1>5. [term |-> 0, voteFor |-> Nil, log |-> freshLog] \in DiskType
  BY <1>2 DEF DiskType
<1>6. persisted \in [Server -> DiskType]
  BY <1>5 DEF Init
<1>7. ServiceTypes
  BY DEF Init, ServiceTypes, SnapshotType
<1>8. CallTypes /\ HistoryTypes
  BY DEF Init, CallTypes, HistoryTypes
<1>9. PersistedIsCurrent
  BY DEF Init, PersistedIsCurrent
<1>10. LogsConsecutive
  <2>1. \A i \in Server : log[i] = freshLog
    BY DEF Init
  <2>2. freshLog[1].index = freshLog[1].index + 1 - 1
    BY DEF freshLog, LogItem
  <2> QED
    BY <1>2, <2>1, <2>2 DEF LogsConsecutive
<1>11. EntriesConsecutive
  BY DEF Init, EntriesConsecutive
<1> QED
  BY <1>3, <1>4, <1>6, <1>7, <1>8, <1>9, <1>10, <1>11 DEF TypeInv, TypeOK, LogTypes

\* persist(i) keeps the persisted fields typed and equal to the volatile ones.
LEMMA PersistTyped ==
    ASSUME TypeInv, NEW i \in Server, persist(i), PeerTypes', log' \in [Server -> Seq(ItemType)],
           \A j \in Server \ {i} : /\ currentTerm'[j] = currentTerm[j]
                                   /\ voteFor'[j] = voteFor[j]
                                   /\ log'[j] = log[j]
    PROVE  LogTypes' /\ PersistedIsCurrent'
<1>1. persisted' = [persisted EXCEPT ![i] =
          [term |-> currentTerm'[i], voteFor |-> voteFor'[i], log |-> log'[i]]]
  BY DEF persist
<1>2. [term |-> currentTerm'[i], voteFor |-> voteFor'[i], log |-> log'[i]] \in DiskType
  BY DEF DiskType, PeerTypes
<1>3. persisted \in [Server -> DiskType]
  BY DEF TypeInv, TypeOK, LogTypes
<1>4. persisted' \in [Server -> DiskType]
  BY <1>1, <1>2, <1>3
<1>5. persisted'[i] = [term |-> currentTerm'[i], voteFor |-> voteFor'[i], log |-> log'[i]]
  BY <1>1, <1>3
<1>6. \A j \in Server \ {i} : persisted'[j] = persisted[j]
  BY <1>1, <1>3
<1>7. PersistedIsCurrent'
  BY <1>5, <1>6 DEF PersistedIsCurrent, TypeInv
<1> QED
  BY <1>4, <1>7 DEF LogTypes

\* A step that changes no log and no AppendEntries request disturbs neither.
LEMMA SameLogs ==
    ASSUME TypeInv, log' = log, appendReq' \subseteq appendReq, panicked \subseteq panicked'
    PROVE  LogsConsecutive' /\ EntriesConsecutive'
BY DEF TypeInv, LogsConsecutive, EntriesConsecutive, Running

\* A step that changes none of the persisted fields.
LEMMA SameDisk ==
    ASSUME TypeInv, log' = log, currentTerm' = currentTerm, voteFor' = voteFor, persisted' = persisted
    PROVE  LogTypes' /\ PersistedIsCurrent'
BY DEF TypeInv, TypeOK, LogTypes, PersistedIsCurrent

\* A peer that observes a newer term.
LEMMA FollowerTyped ==
    ASSUME TypeInv, NEW i \in Server, NEW t \in Nat, becomeFollower(i, t),
           UNCHANGED <<commitIndex, nextIndex, matchIndex, panicked>>
    PROVE  /\ PeerTypes'
           /\ \A j \in Server \ {i} : currentTerm'[j] = currentTerm[j] /\ voteFor'[j] = voteFor[j]
BY DEF becomeFollower, PeerTypes, TypeInv, TypeOK

\* Elections change no log.
LEMMA TypeElection ==
    ASSUME TypeInv, ElectionStep
    PROVE  TypeInv'
<1> USE DEF TypeInv, TypeOK
<1>1. ASSUME NEW i \in Server, startElection(i)
      PROVE  TypeInv'
  <2>1. getLastLogIndex(log[i]) \in Nat /\ getLastLogTerm(log[i]) \in Nat
    BY <1>1, RunningLog, LogBounds DEF startElection
  <2>2. PeerTypes'
    BY <1>1 DEF startElection, becomeCandidate, PeerTypes, leaderVars
  <2>3. LogTypes' /\ PersistedIsCurrent'
    <3>1. \A j \in Server \ {i} : currentTerm'[j] = currentTerm[j] /\ voteFor'[j] = voteFor[j]
      BY <1>1 DEF startElection, becomeCandidate, PeerTypes
    <3> QED
      BY <1>1, <2>2, <3>1, PersistTyped DEF startElection, LogTypes
  <2>4. currentTerm[i] + 1 \in Nat
    BY DEF PeerTypes
  <2>5. \A j \in Server \ {i} : VoteRequest(i, j, currentTerm[i] + 1) \in VoteReqType
    BY <2>1, <2>4 DEF VoteRequest, VoteReqType
  <2>6. CallTypes'
    BY <1>1, <2>5 DEF startElection, CallTypes, appendNet, snapNet
  <2>7. ServiceTypes' /\ HistoryTypes'
    BY <1>1, <2>4 DEF startElection, ServiceTypes, HistoryTypes, BallotType, serviceVars
  <2>8. LogsConsecutive' /\ EntriesConsecutive'
    BY <1>1, SameLogs DEF startElection, appendNet
  <2> QED
    BY <2>2, <2>3, <2>6, <2>7, <2>8
<1>2. ASSUME NEW m \in voteReq, RequestVoteStale(m)
      PROVE  TypeInv'
  <2>1. m \in VoteReqType /\ currentTerm[m.dst] \in Nat
    BY DEF CallTypes, PeerTypes, VoteReqType
  <2>2. CallTypes'
    <3>1. [src |-> m.src, dst |-> m.dst, term |-> m.term, replyTerm |-> currentTerm[m.dst],
           granted |-> FALSE] \in VoteRepType
      BY <2>1 DEF VoteReqType, VoteRepType
    <3>2. voteReply(m, currentTerm[m.dst], FALSE) /\ UNCHANGED <<appendNet, snapNet>>
      BY <1>2 DEF RequestVoteStale
    <3> QED
      BY <3>1, <3>2 DEF voteReply, CallTypes, appendNet, snapNet
  <2>3. PeerTypes' /\ ServiceTypes' /\ HistoryTypes'
    BY <1>2 DEF RequestVoteStale, PeerTypes, ServiceTypes, HistoryTypes,
           electionVars, logVars, leaderVars, diskVars, serviceVars, historyVars
  <2>4. LogTypes' /\ PersistedIsCurrent'
    BY <1>2, SameDisk DEF RequestVoteStale, electionVars, logVars, diskVars
  <2>5. LogsConsecutive' /\ EntriesConsecutive'
    BY <1>2, SameLogs DEF RequestVoteStale, appendNet, logVars
  <2> QED
    BY <2>2, <2>3, <2>4, <2>5
<1>3. ASSUME NEW m \in voteReq, RequestVote(m)
      PROVE  TypeInv'
  <2> DEFINE i == m.dst
             vf == IF m.term > currentTerm[i] THEN Nil ELSE voteFor[i]
             granted == grantsVote(i, vf, m)
  <2>1. m \in VoteReqType /\ i \in Server /\ m.src \in Server /\ m.term \in Nat
    BY DEF CallTypes, VoteReqType
  <2>2. granted \in BOOLEAN
    BY DEF grantsVote
  <2>3. PeerTypes'
    BY <1>3, <2>1 DEF RequestVote, PeerTypes, leaderVars
  <2>4. LogTypes' /\ PersistedIsCurrent'
    <3>1. \A j \in Server \ {i} : currentTerm'[j] = currentTerm[j] /\ voteFor'[j] = voteFor[j]
      BY <1>3, <2>1 DEF RequestVote, PeerTypes
    <3>2. log' = log /\ persist(i)
      BY <1>3 DEF RequestVote
    <3> QED
      BY <2>1, <2>3, <3>1, <3>2, PersistTyped DEF LogTypes
  <2>5. [src |-> m.src, dst |-> m.dst, term |-> m.term, replyTerm |-> m.term, granted |-> granted]
            \in VoteRepType
    BY <2>1, <2>2 DEF VoteRepType
  <2>6. CallTypes'
    <3>1. voteReply(m, m.term, granted)
      BY <1>3 DEF RequestVote
    <3>2. voteReq' \subseteq VoteReqType /\ voteRep' \subseteq VoteRepType
      BY <2>5, <3>1 DEF voteReply, CallTypes
    <3> QED
      BY <1>3, <3>2 DEF RequestVote, CallTypes, appendNet, snapNet
  <2>7. HistoryTypes'
    BY <1>3, <2>1 DEF RequestVote, HistoryTypes, BallotType
  <2>8. ServiceTypes'
    BY <1>3 DEF RequestVote, ServiceTypes, serviceVars
  <2>9. LogsConsecutive' /\ EntriesConsecutive'
    BY <1>3, SameLogs DEF RequestVote, appendNet
  <2> QED
    BY <2>3, <2>4, <2>6, <2>7, <2>8, <2>9
<1>4. ASSUME NEW r \in voteRep, VoteReplyStale(r)
      PROVE  TypeInv'
  <2>1. CallTypes'
    BY <1>4 DEF VoteReplyStale, CallTypes, appendNet, snapNet
  <2>2. PeerTypes' /\ ServiceTypes' /\ HistoryTypes'
    BY <1>4 DEF VoteReplyStale, PeerTypes, ServiceTypes, HistoryTypes,
           electionVars, logVars, leaderVars, diskVars, serviceVars, historyVars
  <2>3. LogTypes' /\ PersistedIsCurrent'
    BY <1>4, SameDisk DEF VoteReplyStale, electionVars, logVars, diskVars
  <2>4. LogsConsecutive' /\ EntriesConsecutive'
    BY <1>4, SameLogs DEF VoteReplyStale, appendNet, logVars
  <2> QED
    BY <2>1, <2>2, <2>3, <2>4
<1>5. ASSUME NEW r \in voteRep, VoteReplyNewer(r)
      PROVE  TypeInv'
  <2>1. r.src \in Server /\ r.replyTerm \in Nat
    BY DEF CallTypes, VoteRepType
  <2>2. PeerTypes' /\ \A j \in Server \ {r.src} : currentTerm'[j] = currentTerm[j] /\ voteFor'[j] = voteFor[j]
    BY <1>5, <2>1, FollowerTyped DEF VoteReplyNewer, leaderVars
  <2>3. LogTypes' /\ PersistedIsCurrent'
    BY <1>5, <2>1, <2>2, PersistTyped DEF VoteReplyNewer, LogTypes
  <2>4. CallTypes' /\ ServiceTypes' /\ HistoryTypes'
    BY <1>5 DEF VoteReplyNewer, CallTypes, ServiceTypes, HistoryTypes,
           serviceVars, appendNet, snapNet, historyVars
  <2>5. LogsConsecutive' /\ EntriesConsecutive'
    BY <1>5, SameLogs DEF VoteReplyNewer, appendNet
  <2> QED
    BY <2>2, <2>3, <2>4, <2>5
<1>6. ASSUME NEW r \in voteRep, VoteReplyCount(r)
      PROVE  TypeInv'
  <2> DEFINE i == r.src
             count == voteCount[i] + (IF r.granted THEN 1 ELSE 0)
  <2>1. i \in Server /\ count \in Nat
    BY DEF CallTypes, VoteRepType, PeerTypes
  <2>2. getLastLogIndex(log[i]) + 1 \in Nat
    BY <1>6, <2>1, RunningLog, LogBounds DEF VoteReplyCount
  <2>5. CallTypes' /\ ServiceTypes'
    BY <1>6 DEF VoteReplyCount, CallTypes, ServiceTypes, serviceVars, appendNet, snapNet
  <2>6. LogsConsecutive' /\ EntriesConsecutive'
    BY <1>6, SameLogs DEF VoteReplyCount, appendNet
  <2>3. CASE state[i] # Leader /\ count >= getMajorityCount(Server)
    <3>1. becomeLeader(i) /\ persist(i) /\ UNCHANGED <<currentTerm, voteFor, log>>
      BY <1>6, <2>3 DEF VoteReplyCount
    <3>2. PeerTypes'
      BY <1>6, <2>1, <2>2, <3>1 DEF VoteReplyCount, becomeLeader, PeerTypes
    <3>3. LogTypes' /\ PersistedIsCurrent'
      BY <2>1, <3>1, <3>2, PersistTyped DEF LogTypes
    <3>4. HistoryTypes'
      BY <1>6, <2>1, <3>1 DEF VoteReplyCount, becomeLeader, HistoryTypes, PeerTypes
    <3> QED
      BY <2>5, <2>6, <3>2, <3>3, <3>4
  <2>4. CASE ~(state[i] # Leader /\ count >= getMajorityCount(Server))
    <3>1. /\ voteCount' = [voteCount EXCEPT ![i] = count]
          /\ UNCHANGED <<state, currentTerm, voteFor, log, leaderVars, elected, persisted>>
      BY <1>6, <2>4 DEF VoteReplyCount
    <3>2. PeerTypes'
      BY <1>6, <2>1, <3>1 DEF VoteReplyCount, PeerTypes, leaderVars
    <3>3. LogTypes' /\ PersistedIsCurrent'
      BY <3>1, SameDisk
    <3>4. HistoryTypes'
      BY <1>6, <3>1 DEF VoteReplyCount, HistoryTypes
    <3> QED
      BY <2>5, <2>6, <3>2, <3>3, <3>4
  <2> QED
    BY <2>3, <2>4
<1> QED
  BY <1>1, <1>2, <1>3, <1>4, <1>5, <1>6 DEF ElectionStep

-----------------------------------------------------------------------------
\* A request of a newer or of the same term.
LEMMA ObserveTyped ==
    ASSUME TypeInv, NEW i \in Server, NEW t \in Nat, observeTerm(i, t)
    PROVE  /\ state' \in [Server -> {Follower, Candidate, Leader}]
           /\ currentTerm' \in [Server -> Nat]
           /\ voteFor' \in [Server -> Server \cup {Nil}]
           /\ voteCount' \in [Server -> Nat]
           /\ \A j \in Server \ {i} : currentTerm'[j] = currentTerm[j] /\ voteFor'[j] = voteFor[j]
<1>1. CASE t > currentTerm[i]
  <2>1. becomeFollower(i, t)
    BY <1>1 DEF observeTerm
  <2> QED
    BY <2>1 DEF becomeFollower, PeerTypes, TypeInv, TypeOK
<1>2. CASE ~(t > currentTerm[i])
  BY <1>2 DEF observeTerm, electionVars, PeerTypes, TypeInv, TypeOK
<1> QED
  BY <1>1, <1>2

\* The reply to an AppendEntries request.
LEMMA AppendReplyTyped ==
    ASSUME TypeInv, NEW m \in appendReq, NEW t \in Nat, NEW ok \in BOOLEAN, appendReply(m, t, ok),
           UNCHANGED <<voteNet, snapNet>>
    PROVE  CallTypes' /\ appendReq' \subseteq appendReq
<1>1. m \in AppendReqType
  BY DEF TypeInv, TypeOK, CallTypes
<1>2. Len(m.entries) \in Nat
  BY <1>1 DEF AppendReqType
<1>3. [src |-> m.src, dst |-> m.dst, slot |-> m.slot, term |-> m.term,
       prevLogIndex |-> m.prevLogIndex, sent |-> Len(m.entries),
       replyTerm |-> t, success |-> ok] \in AppendRepType
  BY <1>1, <1>2 DEF AppendReqType, AppendRepType
<1>4. appendReq' \subseteq appendReq /\ appendRep' \subseteq AppendRepType
  BY <1>3 DEF appendReply, TypeInv, TypeOK, CallTypes
<1> QED
  BY <1>4 DEF TypeInv, TypeOK, CallTypes, voteNet, snapNet

\* The reply to an InstallSnapshot request.
LEMMA SnapReplyTyped ==
    ASSUME TypeInv, NEW m \in snapReq, NEW t \in Nat, snapReply(m, t), UNCHANGED <<voteNet, appendNet>>
    PROVE  CallTypes'
<1>1. m \in SnapReqType
  BY DEF TypeInv, TypeOK, CallTypes
<1>2. [src |-> m.src, dst |-> m.dst, term |-> m.term,
       lastIncludedIndex |-> m.lastIncludedIndex, replyTerm |-> t] \in SnapRepType
  BY <1>1 DEF SnapReqType, SnapRepType
<1>3. snapReq' \subseteq SnapReqType /\ snapRep' \subseteq SnapRepType
  BY <1>2 DEF snapReply, TypeInv, TypeOK, CallTypes
<1> QED
  BY <1>3 DEF TypeInv, TypeOK, CallTypes, voteNet, appendNet

\* A function on 1..n is a sequence.
LEMMA FunctionIsSeq ==
    ASSUME NEW S, NEW n \in Nat, NEW f \in [1..n -> S]
    PROVE  f \in Seq(S)
BY SeqDef, Zenon

\* What is sent to applyCh is a slice of the log.
LEMMA SendTyped ==
    ASSUME TypeInv, NEW i \in Server, NEW l, IsLog(l), NEW from \in Nat, NEW to \in Nat,
           sendCommitMessage(i, l, from, to)
    PROVE  /\ applyCh' \in [Server -> Seq(ApplyMsgType)]
           /\ delivered' \in [Server -> SUBSET ItemType]
           /\ panicked' \subseteq Server /\ panicked \subseteq panicked'
<1> DEFINE first == firstSent(l, from)
           last == Min2(to, getLastLogIndex(l))
           items == getLogItemSliceInclusive(l, first, last)
           msgs == [k \in DOMAIN items |-> ApplyMsg(TRUE, items[k])]
<1>1. first \in Int /\ last \in Int /\ getDummyLogIndex(l) <= first /\ last <= getLastLogIndex(l)
  BY LogBounds DEF firstSent, Max2, Min2
<1>2. items \in Seq(ItemType)
  BY <1>1, LogSlice
<1>3. \A k \in DOMAIN items : items[k] \in ItemType /\ ApplyMsg(TRUE, items[k]) \in ApplyMsgType
  BY <1>2 DEF ApplyMsg, ApplyMsgType
<1>4. DOMAIN items = 1..Len(items) /\ Len(items) \in Nat
  BY <1>2
<1>5. msgs \in Seq(ApplyMsgType)
  <2>1. msgs \in [1..Len(items) -> ApplyMsgType]
    BY <1>3, <1>4
  <2> QED
    BY <1>4, <2>1, FunctionIsSeq
<1>6. /\ applyCh' = [applyCh EXCEPT ![i] = @ \o msgs]
      /\ delivered' = [delivered EXCEPT ![i] = @ \cup {items[k] : k \in DOMAIN items}]
      /\ panicked' = panicked \/ panicked' = panicked \cup {i}
  BY DEF sendCommitMessage
<1> HIDE DEF first, last, items, msgs
<1>7. applyCh[i] \o msgs \in Seq(ApplyMsgType)
  BY <1>5 DEF TypeInv, TypeOK, ServiceTypes
<1>8. applyCh' \in [Server -> Seq(ApplyMsgType)]
  BY <1>6, <1>7 DEF TypeInv, TypeOK, ServiceTypes
<1>9. delivered' \in [Server -> SUBSET ItemType]
  BY <1>3, <1>6 DEF TypeInv, TypeOK, HistoryTypes
<1> QED
  BY <1>6, <1>8, <1>9 DEF TypeInv, TypeOK, PeerTypes

\* A step that gives one peer a log without holes.
LEMMA NewLog ==
    ASSUME TypeInv, NEW i \in Server, NEW l \in Seq(ItemType), log' = [log EXCEPT ![i] = l],
           \A k \in DOMAIN l : l[k].index = l[1].index + k - 1,
           l = <<>> => i \in panicked',
           panicked \ {i} \subseteq panicked', appendReq' \subseteq appendReq
    PROVE  /\ log' \in [Server -> Seq(ItemType)]
           /\ \A j \in Server \ {i} : log'[j] = log[j]
           /\ LogsConsecutive' /\ EntriesConsecutive'
<1>1. log \in [Server -> Seq(ItemType)]
  BY DEF TypeInv, TypeOK, LogTypes
<1>2. log' \in [Server -> Seq(ItemType)] /\ log'[i] = l /\ \A j \in Server \ {i} : log'[j] = log[j]
  BY <1>1
<1>3. LogsConsecutive'
  <2> SUFFICES ASSUME NEW j \in Server
               PROVE  /\ j \notin panicked' => log'[j] # <<>>
                      /\ \A k \in DOMAIN log'[j] : log'[j][k].index = log'[j][1].index + k - 1
    BY DEF LogsConsecutive, Running
  <2>1. CASE j = i
    BY <1>2, <2>1
  <2>2. CASE j # i
    BY <1>2, <2>2 DEF TypeInv, LogsConsecutive, Running
  <2> QED
    BY <2>1, <2>2
<1>4. EntriesConsecutive'
  BY DEF TypeInv, EntriesConsecutive
<1> QED
  BY <1>2, <1>3, <1>4

-----------------------------------------------------------------------------
\* The request startAppend sends to a peer whose log position its log holds.
LEMMA AppendRequestTyped ==
    ASSUME TypeInv, NEW i \in Server, NEW j \in Server, Running(i), freeSlots(i, j) # {},
           NEW slot \in freeSlots(i, j),
           logContainIndex(log[i], getPreviousIndexForServer(i, j))
    PROVE  /\ AppendRequest(i, j, slot) \in AppendReqType
           /\ \A k \in DOMAIN AppendRequest(i, j, slot).entries :
                  AppendRequest(i, j, slot).entries[k].index
                      = AppendRequest(i, j, slot).prevLogIndex + k
<1>1. IsLog(log[i])
  BY RunningLog
<1>2. nextIndex[i][j] \in Nat /\ currentTerm[i] \in Nat /\ commitIndex[i] \in Nat
  BY DEF TypeInv, TypeOK, PeerTypes
<1>3. PICK next \in Nat : next = nextIndex[i][j]
  BY <1>2
<1>4. PICK l : l = log[i] /\ IsLog(l)
  BY <1>1
<1>5. PICK prev \in Int : prev = next - 1 /\ prev = getPreviousIndexForServer(i, j)
  BY <1>3 DEF getPreviousIndexForServer
<1>6. logContainIndex(l, prev)
  BY <1>4, <1>5
<1>7. getLogItemAtIndex(l, prev).term \in Nat
  BY <1>4, <1>6, LogLookup DEF ItemType
<1>8. prev \in Nat /\ getDummyLogIndex(l) <= next
  BY <1>4, <1>5, <1>6, LogBounds DEF logContainIndex
<1>9. PICK es : es = getAppendLogItem(l, next)
  OBVIOUS
<1>10. es \in Seq(ItemType) /\ DOMAIN es = 1..Len(es) /\ \A k \in DOMAIN es : es[k].index = next + k - 1
  <2>1. PICK last \in Nat : last = getLastLogIndex(l)
    BY <1>4, LogBounds
  <2>2. es = getLogItemSliceInclusive(l, next, last)
    BY <1>9, <2>1 DEF getAppendLogItem
  <2>3. last <= getLastLogIndex(l) /\ next \in Int
    BY <1>5, <1>8, <2>1
  <2> QED
    BY <1>4, <1>8, <2>1, <2>2, <2>3, LogSlice
<1>11. \A k \in DOMAIN es : es[k].index = prev + k
  BY <1>5, <1>10
<1>12. slot \in Nat
  BY DEF freeSlots
<1>13. AppendRequest(i, j, slot) =
          [src |-> i, dst |-> j, slot |-> slot, term |-> currentTerm[i], prevLogIndex |-> prev,
           prevLogTerm |-> getLogItemAtIndex(l, prev).term, entries |-> es,
           leaderCommit |-> commitIndex[i], orphan |-> FALSE]
  BY <1>3, <1>4, <1>5, <1>9 DEF AppendRequest
<1>14. AppendRequest(i, j, slot) \in AppendReqType
  BY <1>2, <1>7, <1>8, <1>10, <1>12, <1>13 DEF AppendReqType
<1>15. AppendRequest(i, j, slot).entries = es /\ AppendRequest(i, j, slot).prevLogIndex = prev
  BY <1>13
<1> QED
  BY <1>11, <1>14, <1>15

\* What a pass of the leader's loop sends: requests to peers whose next position
\* its log holds, also when the pass ends in a panic.
LEMMA StartAppendCalls ==
    ASSUME TypeInv, NEW i \in Server, startAppend(i), NEW m \in appendReq', m \notin appendReq
    PROVE  \E j \in Server \ {i} : \E s \in freeSlots(i, j) :
               /\ logContainIndex(log[i], getPreviousIndexForServer(i, j))
               /\ m = AppendRequest(i, j, s)
<1> DEFINE peers == {j \in Server \ {i} :
                       /\ freeSlots(i, j) # {}
                       /\ getPreviousIndexForServer(i, j) >= getDummyLogIndex(log[i])}
           outside == {j \in peers : getPreviousIndexForServer(i, j) > getLastLogIndex(log[i])}
           slot(j) == CHOOSE k \in freeSlots(i, j) : TRUE
<1>1. PICK sent \in IF outside = {} THEN {peers} ELSE SUBSET (peers \ outside) :
          appendReq' = appendReq \cup {AppendRequest(i, j, slot(j)) : j \in sent}
  BY DEF startAppend
<1>2. sent \subseteq peers \ outside
  <2> HIDE DEF peers, outside
  <2> QED
    BY <1>1
<1>3. PICK j \in sent : m = AppendRequest(i, j, slot(j))
  <2> HIDE DEF peers, outside, slot
  <2> QED
    BY <1>1
<1>4. j \in peers /\ ~(getPreviousIndexForServer(i, j) > getLastLogIndex(log[i]))
  BY <1>2, <1>3
<1>5. slot(j) \in freeSlots(i, j)
  BY <1>4
<1>6. getPreviousIndexForServer(i, j) \in Int
  BY <1>4 DEF getPreviousIndexForServer, TypeInv, TypeOK, PeerTypes
<1>7. getLastLogIndex(log[i]) \in Nat /\ getDummyLogIndex(log[i]) \in Nat
  BY RunningLog, LogBounds DEF startAppend
<1>8. logContainIndex(log[i], getPreviousIndexForServer(i, j))
  BY <1>4, <1>6, <1>7 DEF logContainIndex
<1> HIDE DEF slot
<1> QED
  BY <1>3, <1>4, <1>5, <1>8

\* Everything but the AppendEntries calls, nextIndex, matchIndex and panicked is as before.
LEMMA SameRest ==
    ASSUME TypeInv, UNCHANGED <<electionVars, logVars, diskVars, serviceVars, historyVars>>
    PROVE  /\ LogTypes' /\ PersistedIsCurrent' /\ ServiceTypes' /\ HistoryTypes'
           /\ state' \in [Server -> {Follower, Candidate, Leader}]
           /\ currentTerm' \in [Server -> Nat]
           /\ voteFor' \in [Server -> Server \cup {Nil}]
           /\ voteCount' \in [Server -> Nat]
           /\ commitIndex' \in [Server -> Nat]
           /\ log' = log
BY SameDisk DEF TypeInv, TypeOK, PeerTypes, ServiceTypes, HistoryTypes, electionVars, logVars,
       diskVars, serviceVars, historyVars

\* The leader's sends.
LEMMA TypeStartAppend ==
    ASSUME TypeInv, NEW i \in Server, startAppend(i)
    PROVE  TypeInv'
<1>1. /\ Running(i)
      /\ panicked' = panicked \/ panicked' = panicked \cup {i}
      /\ UNCHANGED <<electionVars, logVars, leaderVars, diskVars, serviceVars, voteNet,
                     appendRep, snapNet, historyVars>>
  BY DEF startAppend
<1>2. /\ LogTypes' /\ PersistedIsCurrent' /\ ServiceTypes' /\ HistoryTypes' /\ log' = log
  BY <1>1, SameRest
<1>3. ASSUME NEW m \in appendReq', m \notin appendReq
      PROVE  /\ m \in AppendReqType
             /\ \A k \in DOMAIN m.entries : m.entries[k].index = m.prevLogIndex + k
  <2>1. PICK j \in Server \ {i} : \E s \in freeSlots(i, j) :
            /\ logContainIndex(log[i], getPreviousIndexForServer(i, j))
            /\ m = AppendRequest(i, j, s)
    BY <1>3, StartAppendCalls
  <2>2. PICK s \in freeSlots(i, j) : m = AppendRequest(i, j, s)
    BY <2>1
  <2> QED
    BY <1>1, <2>1, <2>2, AppendRequestTyped
<1>4. PeerTypes'
  BY <1>1, SameRest DEF PeerTypes, leaderVars, TypeInv, TypeOK
<1>5. appendReq' \subseteq AppendReqType
  BY <1>3 DEF CallTypes, TypeInv, TypeOK
<1>6. CallTypes'
  BY <1>1, <1>5 DEF CallTypes, voteNet, snapNet, TypeInv, TypeOK
<1>7. EntriesConsecutive'
  BY <1>3 DEF EntriesConsecutive, TypeInv
<1>8. LogsConsecutive'
  BY <1>1, <1>2 DEF LogsConsecutive, Running, TypeInv
<1> QED
  BY <1>2, <1>4, <1>6, <1>7, <1>8 DEF TypeInv, TypeOK

\* A command given to the leader.
LEMMA TypeStart ==
    ASSUME TypeInv, NEW i \in Server, NEW v \in Value, Start(i, v)
    PROVE  TypeInv'
<1>1. IsLog(log[i])
  BY RunningLog DEF Start
<1>2. PICK index \in Nat : index = nextLogIndex(log[i]) /\ index = getLastLogIndex(log[i]) + 1
  BY <1>1, LogBounds DEF nextLogIndex
<1>b. /\ LogItem(v, currentTerm[i], index) \in ItemType
      /\ LogItem(v, currentTerm[i], index).index = index
  BY DEF LogItem, ItemType, TypeInv, TypeOK, PeerTypes
<1>3. PICK item : item = LogItem(v, currentTerm[i], index) /\ item \in ItemType /\ item.index = index
  BY <1>b
<1>4. PICK p : p = log[i] /\ IsLog(p)
  BY <1>1
<1>5. PICK es : es = <<item>>
  OBVIOUS
<1>6. es \in Seq(ItemType) /\ DOMAIN es = {1} /\ es[1].index = getLastLogIndex(p) + 1
  BY <1>2, <1>3, <1>4, <1>5
<1>7. Append(p, item) = p \o es
  BY <1>3, <1>4, <1>5 DEF IsLog
<1>8. IsLog(Append(p, item))
  BY <1>4, <1>6, <1>7, LogExtended
<1>9. /\ log' = [log EXCEPT ![i] = Append(p, item)]
      /\ matchIndex' = [matchIndex EXCEPT ![i][i] = index]
      /\ persist(i)
      /\ UNCHANGED <<electionVars, commitIndex, nextIndex, snapshot, serviceVars, panicked, voteNet,
                     appendNet, snapNet, historyVars>>
  BY <1>2, <1>3, <1>4 DEF Start
<1>10. /\ log' \in [Server -> Seq(ItemType)]
       /\ \A j \in Server \ {i} : log'[j] = log[j]
       /\ LogsConsecutive' /\ EntriesConsecutive'
  BY <1>8, <1>9, NewLog DEF IsLog, appendNet
<1>a. matchIndex' \in [Server -> [Server -> Nat]]
  <2>1. matchIndex \in [Server -> [Server -> Nat]]
    BY DEF PeerTypes, TypeInv, TypeOK
  <2> QED
    BY <1>9, <2>1
<1>11. PeerTypes'
  BY <1>9, <1>a DEF PeerTypes, TypeInv, TypeOK, electionVars
<1>12. LogTypes' /\ PersistedIsCurrent'
  BY <1>9, <1>10, <1>11, PersistTyped DEF electionVars
<1>13. ServiceTypes' /\ CallTypes' /\ HistoryTypes'
  BY <1>9 DEF ServiceTypes, CallTypes, HistoryTypes, TypeInv, TypeOK, serviceVars, voteNet,
         appendNet, snapNet, historyVars
<1> QED
  BY <1>10, <1>11, <1>12, <1>13 DEF TypeInv, TypeOK

\* The AppendEntries handler.
LEMMA TypeAppendEntries ==
    ASSUME TypeInv, NEW m \in appendReq,
           \/ AppendEntriesStale(m) \/ AppendEntriesOutOfRange(m)
           \/ AppendEntriesConflict(m) \/ AppendEntriesAccept(m)
    PROVE  TypeInv'
<1> USE DEF TypeInv, TypeOK
<1> DEFINE i == m.dst
<1>1. /\ m \in AppendReqType /\ i \in Server /\ m.term \in Nat /\ m.prevLogIndex \in Nat
      /\ m.leaderCommit \in Nat /\ m.entries \in Seq(ItemType) /\ currentTerm[i] \in Nat
  BY DEF CallTypes, AppendReqType, PeerTypes
<1> HIDE DEF i
<1>2. CASE AppendEntriesStale(m)
  <2>1. /\ appendReply(m, currentTerm[i], FALSE)
        /\ UNCHANGED <<electionVars, logVars, leaderVars, diskVars, serviceVars, panicked,
                       voteNet, snapNet, historyVars>>
    BY <1>2 DEF AppendEntriesStale, i
  <2>2. CallTypes' /\ appendReq' \subseteq appendReq
    BY <1>1, <2>1, AppendReplyTyped
  <2>3. LogTypes' /\ PersistedIsCurrent' /\ ServiceTypes' /\ HistoryTypes' /\ log' = log
    BY <2>1, SameRest
  <2>4. PeerTypes'
    BY <2>1, SameRest DEF PeerTypes, leaderVars
  <2>5. LogsConsecutive' /\ EntriesConsecutive'
    BY <2>1, <2>2, <2>3, SameLogs
  <2> QED
    BY <2>2, <2>3, <2>4, <2>5
<1>3. CASE AppendEntriesOutOfRange(m)
  <2>1. /\ observeTerm(i, m.term) /\ UNCHANGED log /\ persist(i) /\ appendReply(m, m.term, FALSE)
        /\ UNCHANGED <<commitIndex, leaderVars, snapshot, serviceVars, panicked, voteNet,
                       snapNet, historyVars>>
    BY <1>3 DEF AppendEntriesOutOfRange, i
  <2>2. CallTypes' /\ appendReq' \subseteq appendReq
    BY <1>1, <2>1, AppendReplyTyped
  <2>3. PeerTypes'
    BY <1>1, <2>1, ObserveTyped DEF PeerTypes, leaderVars
  <2>4. LogTypes' /\ PersistedIsCurrent'
    BY <1>1, <2>1, <2>3, ObserveTyped, PersistTyped DEF LogTypes
  <2>5. ServiceTypes' /\ HistoryTypes'
    BY <2>1 DEF ServiceTypes, HistoryTypes, serviceVars, historyVars
  <2>6. LogsConsecutive' /\ EntriesConsecutive'
    BY <2>1, <2>2, SameLogs
  <2> QED
    BY <2>2, <2>3, <2>4, <2>5, <2>6
<1>4. CASE AppendEntriesConflict(m)
  <2>1. PICK kept : kept = deleteLogFromIndexInclusive(log[i], m.prevLogIndex)
    OBVIOUS
  <2>2. /\ Running(i) /\ logContainIndex(log[i], m.prevLogIndex)
        /\ observeTerm(i, m.term) /\ persist(i) /\ appendReply(m, m.term, FALSE)
        /\ log' = [log EXCEPT ![i] = kept]
        /\ panicked' = IF kept = <<>> THEN panicked \cup {i} ELSE panicked
        /\ UNCHANGED <<commitIndex, leaderVars, snapshot, serviceVars, voteNet, snapNet,
                       historyVars>>
    BY <1>4, <2>1 DEF AppendEntriesConflict, i
  <2>3. CallTypes' /\ appendReq' \subseteq appendReq
    BY <1>1, <2>2, AppendReplyTyped
  <2>4. PeerTypes'
    BY <1>1, <2>2, ObserveTyped DEF PeerTypes, leaderVars
  <2>5. kept \in Seq(ItemType) /\ \A k \in DOMAIN kept : kept[k].index = kept[1].index + k - 1
    <3>1. IsLog(log[i])
      BY <1>1, <2>2, RunningLog
    <3>2. /\ m.prevLogIndex \in Int /\ getDummyLogIndex(log[i]) <= m.prevLogIndex
          /\ m.prevLogIndex <= getLastLogIndex(log[i]) + 1
      BY <1>1, <2>2, <3>1, LogBounds DEF logContainIndex
    <3> QED
      BY <2>1, <3>1, <3>2, LogPrefix
  <2>6. /\ log' \in [Server -> Seq(ItemType)]
        /\ \A j \in Server \ {i} : log'[j] = log[j]
        /\ LogsConsecutive' /\ EntriesConsecutive'
    <3>1. (kept = <<>> => i \in panicked') /\ panicked \subseteq panicked'
      BY <2>2
    <3> QED
      BY <1>1, <2>2, <2>3, <2>5, <3>1, NewLog
  <2>7. LogTypes' /\ PersistedIsCurrent'
    BY <1>1, <2>2, <2>4, <2>6, ObserveTyped, PersistTyped
  <2>8. ServiceTypes' /\ HistoryTypes'
    BY <2>2 DEF ServiceTypes, HistoryTypes, serviceVars, historyVars
  <2> QED
    BY <2>3, <2>4, <2>6, <2>7, <2>8
<1>5. CASE AppendEntriesAccept(m)
  <2>1. PICK newLog : newLog = appendedLog(log[i], m)
    OBVIOUS
  <2>2. PICK newCommit : newCommit = Min2(getLastLogIndex(newLog), m.leaderCommit)
    OBVIOUS
  <2>3. /\ Running(i) /\ logContainIndex(log[i], m.prevLogIndex)
        /\ observeTerm(i, m.term) /\ persist(i) /\ appendReply(m, m.term, TRUE)
        /\ log' = [log EXCEPT ![i] = newLog]
        /\ IF m.leaderCommit > commitIndex[i]
           THEN /\ commitIndex' = [commitIndex EXCEPT ![i] = newCommit]
                /\ sendCommitMessage(i, newLog, commitIndex[i] + 1, newCommit)
           ELSE UNCHANGED <<commitIndex, applyCh, delivered, panicked>>
        /\ UNCHANGED <<leaderVars, snapshot, applied, saving, voteNet, snapNet, ballots,
                       elected>>
    BY <1>5, <2>1, <2>2 DEF AppendEntriesAccept, i
  <2>4. CallTypes' /\ appendReq' \subseteq appendReq
    BY <1>1, <2>3, AppendReplyTyped
  <2>5. IsLog(newLog)
    <3>1. IsLog(log[i])
      BY <1>1, <2>3, RunningLog
    <3>a. PICK next \in Int : next = m.prevLogIndex + 1
      BY <1>1
    <3>2. PICK p : p = deleteLogFromIndexInclusive(log[i], next)
      OBVIOUS
    <3>3. /\ getDummyLogIndex(log[i]) <= next
          /\ next <= getLastLogIndex(log[i]) + 1
          /\ next - getDummyLogIndex(log[i]) > 0
          /\ next - 1 = m.prevLogIndex
      <4>1. getDummyLogIndex(log[i]) <= m.prevLogIndex /\ m.prevLogIndex <= getLastLogIndex(log[i])
        BY <2>3 DEF logContainIndex
      <4>2. getDummyLogIndex(log[i]) \in Nat /\ getLastLogIndex(log[i]) \in Nat
        BY <3>1, LogBounds
      <4>3. m.prevLogIndex \in Nat
        BY <1>1
      <4> QED
        BY <3>a, <4>1, <4>2, <4>3
    <3>4. /\ p \in Seq(ItemType) /\ Len(p) = next - getDummyLogIndex(log[i])
          /\ p # <<>> => IsLog(p) /\ getLastLogIndex(p) = next - 1
      BY <3>1, <3>2, <3>3, LogPrefix
    <3>5. p # <<>>
      BY <3>3, <3>4
    <3>6. IsLog(p) /\ getLastLogIndex(p) = m.prevLogIndex
      BY <3>3, <3>4, <3>5
    <3>7. \A k \in DOMAIN m.entries : m.entries[k].index = getLastLogIndex(p) + k
      BY <3>6 DEF EntriesConsecutive
    <3>8. newLog = p \o m.entries
      BY <2>1, <3>a, <3>2 DEF appendedLog
    <3> QED
      BY <1>1, <3>6, <3>7, <3>8, LogExtended
  <2>6. newCommit \in Nat /\ commitIndex[i] + 1 \in Nat
    BY <1>1, <2>2, <2>5, LogBounds DEF Min2, PeerTypes
  <2>7. /\ applyCh' \in [Server -> Seq(ApplyMsgType)]
        /\ delivered' \in [Server -> SUBSET ItemType]
        /\ panicked' \subseteq Server /\ panicked \subseteq panicked'
        /\ commitIndex' \in [Server -> Nat]
    <3>1. CASE m.leaderCommit > commitIndex[i]
      BY <1>1, <2>3, <2>5, <2>6, <3>1, SendTyped DEF PeerTypes
    <3>2. CASE ~(m.leaderCommit > commitIndex[i])
      BY <2>3, <3>2 DEF PeerTypes, ServiceTypes, HistoryTypes
    <3> QED
      BY <3>1, <3>2
  <2>8. PeerTypes'
    BY <1>1, <2>3, <2>7, ObserveTyped DEF PeerTypes, leaderVars
  <2>9. /\ log' \in [Server -> Seq(ItemType)]
        /\ \A j \in Server \ {i} : log'[j] = log[j]
        /\ LogsConsecutive' /\ EntriesConsecutive'
    BY <1>1, <2>3, <2>4, <2>5, <2>7, NewLog DEF IsLog
  <2>10. LogTypes' /\ PersistedIsCurrent'
    BY <1>1, <2>3, <2>8, <2>9, ObserveTyped, PersistTyped
  <2>11. ServiceTypes' /\ HistoryTypes'
    BY <2>3, <2>7 DEF ServiceTypes, HistoryTypes
  <2> QED
    BY <2>4, <2>8, <2>9, <2>10, <2>11
<1> QED
  BY <1>2, <1>3, <1>4, <1>5

\* The goroutine that waits for an AppendEntries reply.
LEMMA TypeAppendReply ==
    ASSUME TypeInv, NEW r \in appendRep,
           \/ AppendReplyNewer(r) \/ AppendReplyStale(r)
           \/ AppendReplySuccess(r) \/ AppendReplyFailure(r)
    PROVE  TypeInv'
<1> USE DEF TypeInv, TypeOK
<1> DEFINE i == r.src
<1>1. /\ i \in Server /\ r.dst \in Server /\ r.replyTerm \in Nat /\ r.prevLogIndex \in Nat
      /\ r.sent \in Nat
  BY DEF CallTypes, AppendRepType
<1> HIDE DEF i
<1>2. CASE AppendReplyNewer(r)
  <2>1. /\ becomeFollower(i, r.replyTerm) /\ UNCHANGED log /\ persist(i) /\ appendRep' = appendRep \ {r}
        /\ UNCHANGED <<commitIndex, leaderVars, snapshot, serviceVars, panicked, voteNet,
                       appendReq, snapNet, historyVars>>
    BY <1>2 DEF AppendReplyNewer, i
  <2>2. PeerTypes' /\ \A j \in Server \ {i} : currentTerm'[j] = currentTerm[j] /\ voteFor'[j] = voteFor[j]
    BY <1>1, <2>1, FollowerTyped DEF leaderVars
  <2>3. LogTypes' /\ PersistedIsCurrent'
    BY <1>1, <2>1, <2>2, PersistTyped DEF LogTypes
  <2>4. CallTypes' /\ ServiceTypes' /\ HistoryTypes'
    BY <2>1 DEF CallTypes, ServiceTypes, HistoryTypes, serviceVars, voteNet, snapNet, historyVars
  <2>5. LogsConsecutive' /\ EntriesConsecutive'
    BY <2>1, SameLogs
  <2> QED
    BY <2>2, <2>3, <2>4, <2>5
<1>3. CASE AppendReplyStale(r)
  <2>1. /\ appendRep' = appendRep \ {r}
        /\ UNCHANGED <<electionVars, logVars, leaderVars, diskVars, serviceVars, panicked,
                       voteNet, appendReq, snapNet, historyVars>>
    BY <1>3 DEF AppendReplyStale
  <2>2. CallTypes'
    BY <2>1 DEF CallTypes, voteNet, snapNet
  <2>3. LogTypes' /\ PersistedIsCurrent' /\ ServiceTypes' /\ HistoryTypes' /\ log' = log
    BY <2>1, SameRest
  <2>4. PeerTypes'
    BY <2>1, SameRest DEF PeerTypes, leaderVars
  <2>5. LogsConsecutive' /\ EntriesConsecutive'
    BY <2>1, <2>3, SameLogs
  <2> QED
    BY <2>2, <2>3, <2>4, <2>5
<1>4. CASE AppendReplyFailure(r)
  <2>1. /\ Running(i)
        /\ nextIndex' = [nextIndex EXCEPT ![i][r.dst] = nextAfterFailure(log[i], r)]
        /\ appendRep' = appendRep \ {r}
        /\ UNCHANGED <<electionVars, logVars, matchIndex, diskVars, serviceVars, panicked,
                       voteNet, appendReq, snapNet, historyVars>>
    BY <1>4 DEF AppendReplyFailure, i
  <2>2. nextAfterFailure(log[i], r) \in Nat
    BY <1>1, <2>1, RunningLog, LogBounds DEF nextAfterFailure, Max2
  <2>3. nextIndex' \in [Server -> [Server -> Nat]]
    <3>1. nextIndex \in [Server -> [Server -> Nat]]
      BY DEF PeerTypes
    <3> QED
      BY <1>1, <2>1, <2>2, <3>1
  <2>4. CallTypes'
    BY <2>1 DEF CallTypes, voteNet, snapNet
  <2>5. LogTypes' /\ PersistedIsCurrent' /\ ServiceTypes' /\ HistoryTypes' /\ log' = log
    BY <2>1, SameRest
  <2>6. PeerTypes'
    BY <2>1, <2>3, SameRest DEF PeerTypes
  <2>7. LogsConsecutive' /\ EntriesConsecutive'
    BY <2>1, <2>5, SameLogs
  <2> QED
    BY <2>4, <2>5, <2>6, <2>7
<1>5. CASE AppendReplySuccess(r)
  <2>1. PICK acked \in Nat : acked = r.prevLogIndex + r.sent
    BY <1>1
  <2>2. PICK match : match = [matchIndex[i] EXCEPT ![r.dst] = acked]
    OBVIOUS
  <2>3. /\ Running(i)
        /\ nextIndex' = [nextIndex EXCEPT ![i][r.dst] = acked + 1]
        /\ matchIndex' = [matchIndex EXCEPT ![i] = match]
        /\ IF mayCommit(i)
           THEN \E v \in {match[j] : j \in Server} :
                    /\ commitIndex' = [commitIndex EXCEPT ![i] = Max2(commitIndex[i], v)]
                    /\ sendCommitMessage(i, log[i], commitIndex[i] + 1, Max2(commitIndex[i], v))
           ELSE UNCHANGED <<commitIndex, applyCh, delivered, panicked>>
        /\ appendRep' = appendRep \ {r}
        /\ UNCHANGED <<electionVars, log, diskVars, applied, saving, voteNet, appendReq,
                       snapNet, ballots, elected>>
    BY <1>5, <2>1, <2>2 DEF AppendReplySuccess, matchAfterSuccess, i
  <2>4. match \in [Server -> Nat]
    BY <1>1, <2>1, <2>2 DEF PeerTypes
  <2>5. matchIndex' \in [Server -> [Server -> Nat]]
    BY <2>3, <2>4 DEF PeerTypes
  <2>6. nextIndex' \in [Server -> [Server -> Nat]]
    <3>1. nextIndex \in [Server -> [Server -> Nat]] /\ acked + 1 \in Nat
      BY DEF PeerTypes
    <3> QED
      BY <1>1, <2>3, <3>1
  <2>7. /\ applyCh' \in [Server -> Seq(ApplyMsgType)]
        /\ delivered' \in [Server -> SUBSET ItemType]
        /\ panicked' \subseteq Server /\ panicked \subseteq panicked'
        /\ commitIndex' \in [Server -> Nat]
    <3>1. CASE mayCommit(i)
      <4>1. PICK v \in {match[j] : j \in Server} :
                /\ commitIndex' = [commitIndex EXCEPT ![i] = Max2(commitIndex[i], v)]
                /\ sendCommitMessage(i, log[i], commitIndex[i] + 1, Max2(commitIndex[i], v))
        BY <2>3, <3>1
      <4>2. v \in Nat
        BY <2>4
      <4>3. Max2(commitIndex[i], v) \in Nat /\ commitIndex[i] + 1 \in Nat
        BY <1>1, <4>2 DEF Max2, PeerTypes
      <4>4. IsLog(log[i])
        BY <1>1, <2>3, RunningLog
      <4>5. commitIndex' \in [Server -> Nat]
        BY <4>1, <4>3 DEF PeerTypes
      <4> QED
        BY <1>1, <4>1, <4>3, <4>4, <4>5, SendTyped
    <3>2. CASE ~mayCommit(i)
      BY <2>3, <3>2 DEF PeerTypes, ServiceTypes, HistoryTypes
    <3> QED
      BY <3>1, <3>2
  <2>8. PeerTypes'
    BY <2>3, <2>5, <2>6, <2>7 DEF PeerTypes, electionVars
  <2>9. LogTypes' /\ PersistedIsCurrent'
    BY <2>3, SameDisk DEF electionVars, diskVars
  <2>10. CallTypes' /\ ServiceTypes' /\ HistoryTypes'
    BY <2>3, <2>7 DEF CallTypes, ServiceTypes, HistoryTypes, diskVars, voteNet, snapNet
  <2>11. LogsConsecutive' /\ EntriesConsecutive'
    BY <2>3, <2>7, SameLogs
  <2> QED
    BY <2>8, <2>9, <2>10, <2>11
<1> QED
  BY <1>2, <1>3, <1>4, <1>5

-----------------------------------------------------------------------------
\* The service reads applyCh.
LEMMA TypeApply ==
    ASSUME TypeInv, NEW i \in Server, Apply(i)
    PROVE  TypeInv'
<1> USE DEF TypeInv, TypeOK
<1>1. applyCh[i] \in Seq(ApplyMsgType) /\ applyCh[i] # <<>>
  BY DEF Apply, ServiceTypes
<1>2. PICK msg : msg = Head(applyCh[i])
  OBVIOUS
<1>3. msg \in ApplyMsgType /\ Tail(applyCh[i]) \in Seq(ApplyMsgType)
  BY <1>1, <1>2
<1>4. msg.item.index \in Nat /\ msg.item.term \in Nat
  BY <1>3 DEF ApplyMsgType, ItemType
<1>5. [index |-> msg.item.index, term |-> msg.item.term] \in SnapshotType
  BY <1>4 DEF SnapshotType
<1>6. /\ applyCh' = [applyCh EXCEPT ![i] = Tail(@)]
      /\ applied' = [applied EXCEPT ![i] = msg.item.index]
      /\ \/ UNCHANGED saving
         \/ saving' = [saving EXCEPT ![i] = [index |-> msg.item.index, term |-> msg.item.term]]
      /\ UNCHANGED <<electionVars, logVars, leaderVars, diskVars, panicked, voteNet,
                     appendNet, snapNet, historyVars>>
  BY <1>2 DEF Apply
<1>7. applyCh' \in [Server -> Seq(ApplyMsgType)] /\ applied' \in [Server -> Nat]
  BY <1>3, <1>4, <1>6 DEF ServiceTypes
<1>8. saving' \in [Server -> SnapshotType]
  BY <1>5, <1>6 DEF ServiceTypes
<1>9. ServiceTypes' /\ HistoryTypes'
  BY <1>6, <1>7, <1>8 DEF ServiceTypes, HistoryTypes, diskVars, historyVars
<1>10. PeerTypes' /\ CallTypes'
  BY <1>6 DEF PeerTypes, CallTypes, electionVars, logVars, leaderVars, voteNet, appendNet, snapNet
<1>11. LogTypes' /\ PersistedIsCurrent'
  BY <1>6, SameDisk DEF electionVars, logVars, diskVars
<1>12. LogsConsecutive' /\ EntriesConsecutive'
  BY <1>6, SameLogs DEF logVars, appendNet
<1> QED
  BY <1>9, <1>10, <1>11, <1>12

\* The service's pending save.
LEMMA TypeSaveSnapshot ==
    ASSUME TypeInv, NEW i \in Server, SaveSnapshot(i)
    PROVE  TypeInv'
<1> USE DEF TypeInv, TypeOK
<1>1. PICK s : s = saving[i]
  OBVIOUS
<1>2. s \in SnapshotType /\ s # Nil /\ s.index \in Nat /\ Running(i)
  BY <1>1 DEF SaveSnapshot, ServiceTypes, SnapshotType
<1>3. PICK kept : kept = getLogItemSliceInclusive(log[i], s.index, getLastLogIndex(log[i]))
  OBVIOUS
<1>4. /\ saving' = [saving EXCEPT ![i] = Nil]
      /\ IF logContainIndex(log[i], s.index)
         THEN /\ log' = [log EXCEPT ![i] = kept]
              /\ UNCHANGED electionVars
              /\ persist(i)
              /\ snapshot' = [snapshot EXCEPT ![i] = s]
         ELSE UNCHANGED <<electionVars, log, diskVars>>
      /\ UNCHANGED <<commitIndex, leaderVars, applyCh, applied, panicked, voteNet,
                     appendNet, snapNet, historyVars>>
  BY <1>1, <1>3 DEF SaveSnapshot
<1>5. electionVars' = electionVars
  BY <1>4
<1>6. PeerTypes' /\ CallTypes' /\ HistoryTypes'
  BY <1>4, <1>5 DEF PeerTypes, CallTypes, HistoryTypes, electionVars, leaderVars, voteNet,
         appendNet, snapNet, historyVars
<1>7. saving' \in [Server -> SnapshotType]
  BY <1>4 DEF ServiceTypes, SnapshotType
<1>8. CASE logContainIndex(log[i], s.index)
  <2>1. IsLog(kept)
    BY <1>2, <1>3, <1>8, RunningLog, LogSuffix
  <2>2. /\ log' \in [Server -> Seq(ItemType)]
        /\ \A j \in Server \ {i} : log'[j] = log[j]
        /\ LogsConsecutive' /\ EntriesConsecutive'
    BY <1>4, <1>8, <2>1, NewLog DEF IsLog, appendNet
  <2>3. LogTypes' /\ PersistedIsCurrent'
    BY <1>4, <1>6, <1>8, <2>2, PersistTyped DEF electionVars
  <2>4. ServiceTypes'
    BY <1>2, <1>4, <1>7, <1>8 DEF ServiceTypes
  <2> QED
    BY <1>6, <2>2, <2>3, <2>4
<1>9. CASE ~logContainIndex(log[i], s.index)
  <2>1. UNCHANGED <<log, diskVars>>
    BY <1>4, <1>9
  <2>2. LogTypes' /\ PersistedIsCurrent'
    BY <1>5, <2>1, SameDisk DEF electionVars, diskVars
  <2>3. LogsConsecutive' /\ EntriesConsecutive'
    BY <1>4, <2>1, SameLogs DEF appendNet
  <2>4. ServiceTypes'
    BY <1>4, <1>7, <2>1 DEF ServiceTypes, diskVars
  <2> QED
    BY <1>6, <2>2, <2>3, <2>4
<1> QED
  BY <1>8, <1>9

\* The leader's snapshot loop.
LEMMA TypeStartInstallSnapshot ==
    ASSUME TypeInv, NEW i \in Server, NEW j \in Server, startInstallSnapshot(i, j)
    PROVE  TypeInv'
<1> USE DEF TypeInv, TypeOK
<1>1. UNCHANGED <<electionVars, logVars, leaderVars, diskVars, serviceVars, voteNet,
                  appendNet, snapRep, historyVars>>
  BY DEF startInstallSnapshot
<1>2. panicked' \subseteq Server /\ panicked \subseteq panicked'
  BY DEF startInstallSnapshot, PeerTypes
<1>3. snapReq' \subseteq SnapReqType
  <2>1. CASE snapshot[i] = Nil
    BY <2>1 DEF startInstallSnapshot, CallTypes
  <2>2. CASE snapshot[i] # Nil
    <3>1. snapshot[i] \in [index : Nat, term : Nat]
      BY <2>2 DEF ServiceTypes, SnapshotType
    <3>2. [src |-> i, dst |-> j, term |-> currentTerm[i],
           lastIncludedIndex |-> snapshot[i].index,
           lastIncludedTerm |-> snapshot[i].term, orphan |-> FALSE] \in SnapReqType
      BY <3>1 DEF SnapReqType, PeerTypes
    <3> QED
      BY <2>2, <3>2 DEF startInstallSnapshot, CallTypes
  <2> QED
    BY <2>1, <2>2
<1>4. LogTypes' /\ PersistedIsCurrent' /\ ServiceTypes' /\ HistoryTypes' /\ log' = log
  BY <1>1, SameRest
<1>5. PeerTypes'
  BY <1>1, <1>2, SameRest DEF PeerTypes, leaderVars
<1>6. CallTypes'
  BY <1>1, <1>3 DEF CallTypes, voteNet, appendNet
<1>7. LogsConsecutive' /\ EntriesConsecutive'
  BY <1>1, <1>2, <1>4, SameLogs DEF appendNet
<1> QED
  BY <1>4, <1>5, <1>6, <1>7

\* The InstallSnapshot handler.
LEMMA TypeInstallSnapshot ==
    ASSUME TypeInv, NEW m \in snapReq, InstallSnapshotStale(m) \/ InstallSnapshot(m)
    PROVE  TypeInv'
<1> USE DEF TypeInv, TypeOK
<1> DEFINE i == m.dst
<1>1. /\ i \in Server /\ m.term \in Nat /\ m.lastIncludedIndex \in Nat /\ m.lastIncludedTerm \in Nat
      /\ currentTerm[i] \in Nat
  BY DEF CallTypes, SnapReqType, PeerTypes
<1> HIDE DEF i
<1>2. CASE InstallSnapshotStale(m)
  <2>1. /\ snapReply(m, currentTerm[i])
        /\ UNCHANGED <<electionVars, logVars, leaderVars, diskVars, serviceVars, panicked,
                       voteNet, appendNet, historyVars>>
    BY <1>2 DEF InstallSnapshotStale, i
  <2>2. CallTypes'
    BY <1>1, <2>1, SnapReplyTyped
  <2>3. LogTypes' /\ PersistedIsCurrent' /\ ServiceTypes' /\ HistoryTypes' /\ log' = log
    BY <2>1, SameRest
  <2>4. PeerTypes'
    BY <2>1, SameRest DEF PeerTypes, leaderVars
  <2>5. LogsConsecutive' /\ EntriesConsecutive'
    BY <2>1, <2>3, SameLogs DEF appendNet
  <2> QED
    BY <2>2, <2>3, <2>4, <2>5
<1>3. CASE InstallSnapshot(m)
  <2>1. PICK head : head = snapshotHead(m)
    OBVIOUS
  <2>2. /\ observeTerm(i, m.term) /\ persist(i) /\ snapReply(m, 0)
        /\ log' = [log EXCEPT ![i] = <<head>>]
        /\ commitIndex' = [commitIndex EXCEPT ![i] = m.lastIncludedIndex]
        /\ applyCh' = [applyCh EXCEPT ![i] = Append(@, ApplyMsg(FALSE, head))]
        /\ snapshot' = [snapshot EXCEPT ![i] =
               [index |-> m.lastIncludedIndex, term |-> m.lastIncludedTerm]]
        /\ panicked' = panicked \ {i}
        /\ UNCHANGED <<leaderVars, applied, saving, voteNet, appendNet, historyVars>>
    BY <1>3, <2>1 DEF InstallSnapshot, installedReplyTerm, i
  <2>3. head \in ItemType
    BY <1>1, <2>1 DEF snapshotHead, LogItem, ItemType
  <2>4. ApplyMsg(FALSE, head) \in ApplyMsgType
    BY <2>3 DEF ApplyMsg, ApplyMsgType
  <2>5. CallTypes'
    <3>1. 0 \in Nat
      OBVIOUS
    <3> QED
      BY <2>2, <3>1, SnapReplyTyped
  <2>6. PeerTypes'
    BY <1>1, <2>2, ObserveTyped DEF PeerTypes, leaderVars
  <2>7. Append(applyCh[i], ApplyMsg(FALSE, head)) \in Seq(ApplyMsgType)
    <3>1. applyCh[i] \in Seq(ApplyMsgType)
      BY <1>1 DEF ServiceTypes
    <3>2. \A q \in Seq(ApplyMsgType), msg \in ApplyMsgType : Append(q, msg) \in Seq(ApplyMsgType)
      OBVIOUS
    <3> QED
      BY <2>4, <3>1, <3>2, Zenon
  <2>8. applyCh' \in [Server -> Seq(ApplyMsgType)]
    BY <2>2, <2>7 DEF ServiceTypes
  <2>9. snapshot' \in [Server -> SnapshotType]
    <3>1. [index |-> m.lastIncludedIndex, term |-> m.lastIncludedTerm] \in SnapshotType
      BY <1>1 DEF SnapshotType
    <3> QED
      BY <2>2, <3>1 DEF ServiceTypes
  <2>10. ServiceTypes' /\ HistoryTypes'
    BY <2>2, <2>8, <2>9 DEF ServiceTypes, HistoryTypes, historyVars
  <2>11. PICK l : l = <<head>>
    OBVIOUS
  <2>12. l \in Seq(ItemType) /\ l # <<>> /\ DOMAIN l = {1}
    BY <2>3, <2>11
  <2>13. l[1].index \in Nat
    BY <2>3, <2>11 DEF ItemType
  <2>14. \A k \in DOMAIN l : l[k].index = l[1].index + k - 1
    BY <2>12, <2>13
  <2>15. /\ log' \in [Server -> Seq(ItemType)]
         /\ \A j \in Server \ {i} : log'[j] = log[j]
         /\ LogsConsecutive' /\ EntriesConsecutive'
    BY <1>1, <2>2, <2>11, <2>12, <2>14, NewLog DEF appendNet
  <2>16. LogTypes' /\ PersistedIsCurrent'
    BY <1>1, <2>2, <2>6, <2>15, ObserveTyped, PersistTyped
  <2> QED
    BY <2>5, <2>6, <2>10, <2>15, <2>16
<1> QED
  BY <1>2, <1>3

\* A turn of the snapshot loop whose call returned.
LEMMA TypeSnapReply ==
    ASSUME TypeInv, NEW r \in snapRep, SnapReplyIgnored(r) \/ SnapReplyNewer(r) \/ SnapReplyAdvance(r)
    PROVE  TypeInv'
<1> USE DEF TypeInv, TypeOK
<1> DEFINE i == r.src
<1>1. i \in Server /\ r.dst \in Server /\ r.replyTerm \in Nat /\ r.lastIncludedIndex \in Nat
  BY DEF CallTypes, SnapRepType
<1> HIDE DEF i
<1>2. CASE SnapReplyIgnored(r)
  <2>1. /\ snapRep' = snapRep \ {r}
        /\ UNCHANGED <<electionVars, logVars, leaderVars, diskVars, serviceVars, panicked,
                       voteNet, appendNet, snapReq, historyVars>>
    BY <1>2 DEF SnapReplyIgnored
  <2>2. CallTypes'
    BY <2>1 DEF CallTypes, voteNet, appendNet
  <2>3. LogTypes' /\ PersistedIsCurrent' /\ ServiceTypes' /\ HistoryTypes' /\ log' = log
    BY <2>1, SameRest
  <2>4. PeerTypes'
    BY <2>1, SameRest DEF PeerTypes, leaderVars
  <2>5. LogsConsecutive' /\ EntriesConsecutive'
    BY <2>1, <2>3, SameLogs DEF appendNet
  <2> QED
    BY <2>2, <2>3, <2>4, <2>5
<1>3. CASE SnapReplyNewer(r)
  <2>1. /\ becomeFollower(i, r.replyTerm) /\ UNCHANGED log /\ persist(i) /\ snapRep' = snapRep \ {r}
        /\ UNCHANGED <<commitIndex, leaderVars, snapshot, serviceVars, panicked, voteNet,
                       appendNet, snapReq, historyVars>>
    BY <1>3 DEF SnapReplyNewer, i
  <2>2. PeerTypes' /\ \A j \in Server \ {i} : currentTerm'[j] = currentTerm[j] /\ voteFor'[j] = voteFor[j]
    BY <1>1, <2>1, FollowerTyped DEF leaderVars
  <2>3. LogTypes' /\ PersistedIsCurrent'
    BY <1>1, <2>1, <2>2, PersistTyped DEF LogTypes
  <2>4. CallTypes' /\ ServiceTypes' /\ HistoryTypes'
    BY <2>1 DEF CallTypes, ServiceTypes, HistoryTypes, serviceVars, voteNet, appendNet, historyVars
  <2>5. LogsConsecutive' /\ EntriesConsecutive'
    BY <2>1, SameLogs DEF appendNet
  <2> QED
    BY <2>2, <2>3, <2>4, <2>5
<1>4. CASE SnapReplyAdvance(r)
  <2>1. /\ nextIndex' = [nextIndex EXCEPT ![i][r.dst] = r.lastIncludedIndex + 1]
        /\ matchIndex' = [matchIndex EXCEPT ![i][r.dst] = r.lastIncludedIndex]
        /\ snapRep' = snapRep \ {r}
        /\ UNCHANGED <<electionVars, logVars, diskVars, serviceVars, panicked, voteNet,
                       appendNet, snapReq, historyVars>>
    BY <1>4 DEF SnapReplyAdvance, i
  <2>2. nextIndex' \in [Server -> [Server -> Nat]] /\ matchIndex' \in [Server -> [Server -> Nat]]
    <3>1. /\ nextIndex \in [Server -> [Server -> Nat]] /\ matchIndex \in [Server -> [Server -> Nat]]
          /\ r.lastIncludedIndex + 1 \in Nat
      BY <1>1 DEF PeerTypes
    <3> QED
      BY <1>1, <2>1, <3>1
  <2>3. CallTypes'
    BY <2>1 DEF CallTypes, voteNet, appendNet
  <2>4. LogTypes' /\ PersistedIsCurrent' /\ ServiceTypes' /\ HistoryTypes' /\ log' = log
    BY <2>1, SameRest
  <2>5. PeerTypes'
    BY <2>1, <2>2, SameRest DEF PeerTypes
  <2>6. LogsConsecutive' /\ EntriesConsecutive'
    BY <2>1, <2>4, SameLogs DEF appendNet
  <2> QED
    BY <2>3, <2>4, <2>5, <2>6
<1> QED
  BY <1>2, <1>3, <1>4

-----------------------------------------------------------------------------
\* A restart reads back the log the peer had.
LEMMA TypeRestart ==
    ASSUME TypeInv, NEW i \in Server, Restart(i)
    PROVE  TypeInv'
<1> USE DEF TypeInv, TypeOK
<1>1. /\ persisted[i] \in DiskType
      /\ persisted[i] = [term |-> currentTerm[i], voteFor |-> voteFor[i], log |-> log[i]]
  BY DEF LogTypes, PersistedIsCurrent
<1>2. persisted[i].log = log[i] /\ persisted[i].term = currentTerm[i] /\ persisted[i].voteFor = voteFor[i]
  BY <1>1
<1>3. /\ log[i] # <<>>
      /\ state' = [state EXCEPT ![i] = Follower]
      /\ currentTerm' = [currentTerm EXCEPT ![i] = currentTerm[i]]
      /\ voteFor' = [voteFor EXCEPT ![i] = voteFor[i]]
      /\ voteCount' = [voteCount EXCEPT ![i] = 0]
      /\ log' = [log EXCEPT ![i] = log[i]]
      /\ commitIndex' = [commitIndex EXCEPT ![i] = getDummyLogIndex(log[i])]
      /\ nextIndex' = [nextIndex EXCEPT ![i] = [j \in Server |-> 0]]
      /\ matchIndex' = [matchIndex EXCEPT ![i] = [j \in Server |-> 0]]
      /\ applyCh' = [applyCh EXCEPT ![i] = <<>>]
      /\ applied' = [applied EXCEPT ![i] = IF snapshot[i] = Nil THEN 0 ELSE snapshot[i].index]
      /\ saving' = [saving EXCEPT ![i] = Nil]
      /\ panicked' = panicked \ {i}
      /\ UNCHANGED <<diskVars, historyVars>>
  BY <1>2 DEF Restart
<1>4. currentTerm' = currentTerm /\ voteFor' = voteFor
  BY <1>3 DEF PeerTypes
<1>5. log' = log
  BY <1>3 DEF LogTypes
<1>6. IsLog(log[i])
  BY <1>3 DEF LogTypes, LogsConsecutive, IsLog
<1>7. getDummyLogIndex(log[i]) \in Nat
  BY <1>6, LogBounds
<1>8. PeerTypes'
  BY <1>3, <1>4, <1>7 DEF PeerTypes
<1>9. LogTypes' /\ PersistedIsCurrent'
  BY <1>3, <1>4, <1>5, SameDisk DEF diskVars
<1>10. ServiceTypes'
  <2>1. (IF snapshot[i] = Nil THEN 0 ELSE snapshot[i].index) \in Nat
    BY DEF ServiceTypes, SnapshotType
  <2>2. applied' \in [Server -> Nat]
    BY <1>3, <2>1 DEF ServiceTypes
  <2>3. applyCh' \in [Server -> Seq(ApplyMsgType)]
    BY <1>3 DEF ServiceTypes
  <2>4. saving' \in [Server -> SnapshotType] /\ snapshot' = snapshot
    BY <1>3 DEF ServiceTypes, SnapshotType, diskVars
  <2> QED
    BY <2>2, <2>3, <2>4 DEF ServiceTypes
<1>11. HistoryTypes'
  BY <1>3 DEF HistoryTypes, historyVars
<1>12. LogsConsecutive'
  BY <1>3, <1>5 DEF LogsConsecutive, Running
<1>13. /\ voteReq' = orphaned(voteReq, i) /\ appendReq' = orphaned(appendReq, i)
       /\ snapReq' = orphaned(snapReq, i)
       /\ voteRep' \subseteq voteRep /\ appendRep' \subseteq appendRep /\ snapRep' \subseteq snapRep
  BY DEF Restart
<1>14. orphaned(voteReq, i) \subseteq VoteReqType
  BY DEF orphaned, CallTypes, VoteReqType
<1>15. orphaned(snapReq, i) \subseteq SnapReqType
  BY DEF orphaned, CallTypes, SnapReqType
<1>16. ASSUME NEW m \in appendReq
       PROVE  /\ [m EXCEPT !.orphan = @ \/ m.src = i] \in AppendReqType
              /\ [m EXCEPT !.orphan = @ \/ m.src = i].entries = m.entries
              /\ [m EXCEPT !.orphan = @ \/ m.src = i].prevLogIndex = m.prevLogIndex
  BY DEF CallTypes, AppendReqType
<1>17. CallTypes'
  BY <1>13, <1>14, <1>15, <1>16 DEF CallTypes, orphaned
<1>18. EntriesConsecutive'
  <2> SUFFICES ASSUME NEW n \in appendReq', NEW k \in DOMAIN n.entries
               PROVE  n.entries[k].index = n.prevLogIndex + k
    BY DEF EntriesConsecutive
  <2>1. PICK m \in appendReq : n = [m EXCEPT !.orphan = @ \/ m.src = i]
    BY <1>13 DEF orphaned
  <2>2. n.entries = m.entries /\ n.prevLogIndex = m.prevLogIndex
    BY <1>16, <2>1
  <2> QED
    BY <2>2 DEF EntriesConsecutive
<1> QED
  BY <1>8, <1>9, <1>10, <1>11, <1>12, <1>17, <1>18

\* A lost request or reply.
LEMMA TypeLose ==
    ASSUME TypeInv, LoseVote \/ LoseAppend \/ LoseSnapshot
    PROVE  TypeInv'
<1> USE DEF TypeInv, TypeOK
<1>1. UNCHANGED <<electionVars, logVars, leaderVars, diskVars, serviceVars, panicked, historyVars>>
  BY DEF LoseVote, LoseAppend, LoseSnapshot
<1>2. /\ voteReq' \subseteq voteReq /\ voteRep' \subseteq voteRep
      /\ appendReq' \subseteq appendReq /\ appendRep' \subseteq appendRep
      /\ snapReq' \subseteq snapReq /\ snapRep' \subseteq snapRep
  BY DEF LoseVote, LoseAppend, LoseSnapshot, voteNet, appendNet, snapNet
<1>3. LogTypes' /\ PersistedIsCurrent' /\ ServiceTypes' /\ HistoryTypes' /\ log' = log
  BY <1>1, SameRest
<1>4. PeerTypes'
  BY <1>1, SameRest DEF PeerTypes, leaderVars
<1>5. CallTypes'
  BY <1>2 DEF CallTypes
<1>6. LogsConsecutive' /\ EntriesConsecutive'
  BY <1>1, <1>2, <1>3, SameLogs
<1> QED
  BY <1>3, <1>4, <1>5, <1>6

\* No step breaks the types, the persisted copy or the offsets of the logs.
LEMMA TypeNext ==
    ASSUME TypeInv, [Next]_vars
    PROVE  TypeInv'
<1>1. CASE ElectionStep
  BY <1>1, TypeElection
<1>2. CASE ReplicationStep
  BY <1>2, TypeStartAppend, TypeStart, TypeAppendEntries, TypeAppendReply DEF ReplicationStep
<1>3. CASE SnapshotStep
  BY <1>3, TypeApply, TypeSaveSnapshot, TypeStartInstallSnapshot, TypeInstallSnapshot, TypeSnapReply
     DEF SnapshotStep
<1>4. CASE FaultStep
  BY <1>4, TypeRestart, TypeLose DEF FaultStep
<1>5. CASE UNCHANGED vars
  BY <1>5 DEF vars, TypeInv, TypeOK, PeerTypes, LogTypes, ServiceTypes, CallTypes, HistoryTypes,
         PersistedIsCurrent, LogsConsecutive, EntriesConsecutive, Running, electionVars, logVars,
         leaderVars, diskVars, serviceVars, voteNet, appendNet, snapNet, historyVars
<1> QED
  BY <1>1, <1>2, <1>3, <1>4, <1>5 DEF Next

\* Every field of every peer, every call in flight and everything persisted
\* keeps its Go type: in particular no index computed by a subtraction
\* (PrevLogIndex, nextAfterFailure, the offsets into rf.log) goes negative.
THEOREM TypeCorrect == Spec => []TypeOK
<1>1. Spec => []TypeInv
  BY TypeInit, TypeNext, PTL DEF Spec
<1>2. TypeInv => TypeOK
  BY DEF TypeInv
<1> QED
  BY <1>1, <1>2, PTL

\* Whenever rf.mu is free, what a restart would read back is what the peer
\* holds: every handler that changes term, vote or log also persists.
THEOREM PersistedCorrect == Spec => []PersistedIsCurrent
<1>1. Spec => []TypeInv
  BY TypeInit, TypeNext, PTL DEF Spec
<1>2. TypeInv => PersistedIsCurrent
  BY DEF TypeInv
<1> QED
  BY <1>1, <1>2, PTL
=============================================================================
