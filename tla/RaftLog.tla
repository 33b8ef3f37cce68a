------------------------------ MODULE RaftLog ------------------------------
(***************************************************************************)
(* The log of a Raft peer and the helpers raft.go computes on it.  A log   *)
(* is a sequence of LogItems with consecutive indexes.  Its first item is  *)
(* never an entry to apply: it is the "dummy node" of Make, or the last    *)
(* entry covered by the snapshot.  The helpers take the log as a parameter *)
(* where the code reads rf.log.                                            *)
(***************************************************************************)
EXTENDS Integers, Sequences, FiniteSets

LogItem(cmd, term, index) == [cmd |-> cmd, term |-> term, index |-> index]

getDummyLogIndex(log) == log[1].index

getLastLogIndex(log) == log[Len(log)].index

\* Both bounds of the "Index out of bound" panic of getLogItemAtIndex.
logContainIndex(log, i) == getDummyLogIndex(log) <= i /\ i <= getLastLogIndex(log)

getLogItemAtIndex(log, i) == log[i - getDummyLogIndex(log) + 1]

getLastLogTerm(log) == getLogItemAtIndex(log, getLastLogIndex(log)).term

getLogItemSliceInclusive(log, i, j) ==
    SubSeq(log, i - getDummyLogIndex(log) + 1, j - getDummyLogIndex(log) + 1)

deleteLogFromIndexInclusive(log, i) ==
    getLogItemSliceInclusive(log, getDummyLogIndex(log), i - 1)

getAppendLogItem(log, next) == getLogItemSliceInclusive(log, next, getLastLogIndex(log))

isMoreUpdated(term1, index1, term2, index2) ==
    term1 > term2 \/ (term1 = term2 /\ index1 >= index2)

Max2(a, b) == IF a > b THEN a ELSE b

Min2(a, b) == IF a < b THEN a ELSE b

\* Half of the peers is enough.
getMajorityCountHalf(peers) == Cardinality(peers) \div 2

getMajorityCount(peers) == Cardinality(peers) \div 2 + 1

\* v is what findMatch returns, match[len(match)/2] of the sorted copy of
\* matchIndex: at most len/2 entries are below v and more are not above it.
isMatch(v, matchIndex) ==
    LET peers == DOMAIN matchIndex
        middle == Cardinality(peers) \div 2
    IN  /\ Cardinality({j \in peers : matchIndex[j] < v}) <= middle
        /\ Cardinality({j \in peers : matchIndex[j] <= v}) > middle
=============================================================================
