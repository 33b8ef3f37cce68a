------------------------------ MODULE RaftInv -------------------------------
(***************************************************************************)
(* Inductive strengthenings of the invariants of Raft: what has to hold of *)
(* the logs, the calls in flight and the history for one step to preserve  *)
(* the properties a reader cares about.                                    *)
(***************************************************************************)
EXTENDS Raft

\* Items are found by offset: a log has no hole, and is empty only on a peer
\* that died deleting its first item.
LogsConsecutive ==
    \A i \in Server :
        /\ Running(i) => log[i] # <<>>
        /\ \A k \in DOMAIN log[i] : log[i][k].index = log[i][1].index + k - 1

\* The entries of a request follow PrevLogIndex without a hole.
EntriesConsecutive ==
    \A m \in appendReq : \A k \in DOMAIN m.entries :
        m.entries[k].index = m.prevLogIndex + k

TypeInv == TypeOK /\ PersistedIsCurrent /\ LogsConsecutive /\ EntriesConsecutive

-----------------------------------------------------------------------------
Ballot(j, t, i) == [voter |-> j, term |-> t, cand |-> i]

\* A vote is remembered: in its own term it is still the voter's voteFor.
VotesRemembered ==
    \A b \in ballots :
        /\ b.term <= currentTerm[b.cand]
        /\ b.term <= currentTerm[b.voter]
        /\ b.term = currentTerm[b.voter] => voteFor[b.voter] = b.cand

\* A request for a vote asks once: not again in its term, and not after its vote.
RequestsUnanswered ==
    /\ \A m \in voteReq : /\ m.term <= currentTerm[m.src]
                          /\ m.src # m.dst
                          /\ Ballot(m.dst, m.term, m.src) \notin ballots
    /\ \A m, n \in voteReq :
           m.src = n.src /\ m.dst = n.dst /\ m.term = n.term => m = n
    /\ \A m \in voteReq, r \in voteRep : ~(m.src = r.src /\ m.dst = r.dst /\ m.term = r.term)

\* A granted reply reports a vote that was persisted, and is the only one.
RepliesTruthful ==
    /\ \A r \in voteRep :
           /\ r.term <= currentTerm[r.src]
           /\ r.granted => r.replyTerm = r.term /\ Ballot(r.dst, r.term, r.src) \in ballots
    /\ \A r, s \in voteRep :
           r.src = s.src /\ r.dst = s.dst /\ r.term = s.term => r = s

\* The voters of i in its current term whose reply is no longer on its way.
Counted(i) ==
    {j \in Server :
        /\ Ballot(j, currentTerm[i], i) \in ballots
        /\ ~\E r \in voteRep : r.src = i /\ r.dst = j /\ r.term = currentTerm[i] /\ r.granted}

\* A peer counts no vote twice and none that was not cast.
CountsAreVotes == \A i \in Server : state[i] # Leader => voteCount[i] <= Cardinality(Counted(i))

Voters(e) == {j \in Server : Ballot(j, e.term, e.leader) \in ballots}

\* Every leader there ever was has the votes of a majority of its term.
LeadersHaveMajority ==
    \A e \in elected : Cardinality(Voters(e)) >= getMajorityCount(Server)

ElectionInv ==
    /\ VotesRemembered
    /\ OneVotePerTerm
    /\ RequestsUnanswered
    /\ RepliesTruthful
    /\ CountsAreVotes
    /\ LeadersHaveMajority

-----------------------------------------------------------------------------
\* In memory, too, the log starts where the snapshot ends; a peer that died with
\* entries left in its log starts from it again.
HeadsAtSnapshot ==
    \A i \in Server : log[i] # <<>> =>
        getDummyLogIndex(log[i]) = IF snapshot[i] = Nil THEN 0 ELSE snapshot[i].index

\* No entry or snapshot, wherever it is kept or on its way, is of a later term
\* than the peer that has it or the request that carries it.
TermsBounded ==
    /\ \A i \in Server :
           /\ \A k \in DOMAIN log[i] : log[i][k].term <= currentTerm[i]
           /\ \A k \in DOMAIN applyCh[i] : applyCh[i][k].item.term <= currentTerm[i]
           /\ saving[i] # Nil => saving[i].term <= currentTerm[i]
           /\ snapshot[i] # Nil => snapshot[i].term <= currentTerm[i]
    /\ \A m \in appendReq : \A k \in DOMAIN m.entries : m.entries[k].term <= m.term
    /\ \A m \in snapReq : m.lastIncludedTerm <= m.term

Leadership(i, t) == [term |-> t, leader |-> i]

\* Only the leader of a term sends entries and snapshots in it, to others.
SentByLeaders ==
    /\ \A i \in Server : state[i] = Leader => Leadership(i, currentTerm[i]) \in elected
    /\ \A m \in appendReq \cup snapReq : m.src # m.dst /\ Leadership(m.src, m.term) \in elected

\* A leader that lost its office in its own term (it crashed) cannot win it
\* again: no vote of that term is counted, and none can reach it.
DeposedForGood ==
    \A e \in elected :
        /\ e.term <= currentTerm[e.leader]
        /\ currentTerm[e.leader] = e.term /\ state[e.leader] # Leader =>
               /\ voteCount[e.leader] = 0
               /\ ~\E r \in voteRep : r.src = e.leader /\ r.term = e.term
               /\ ~\E m \in voteReq : m.src = e.leader /\ m.term = e.term /\ ~m.orphan

LeaderInv == SentByLeaders /\ DeposedForGood

\* An entry, together with the term of the entry it follows.
Link(prev, item) == [prev |-> prev, item |-> item]

LogLinks(l) == {Link(l[k - 1].term, l[k]) : k \in 2..Len(l)}

SentLinks(m) ==
    {Link(IF k = 1 THEN m.prevLogTerm ELSE m.entries[k - 1].term, m.entries[k]) :
        k \in DOMAIN m.entries}

Links == (UNION {LogLinks(log[i]) : i \in Server}) \cup (UNION {SentLinks(m) : m \in appendReq})

\* Index and term determine the command and the term of the entry before.
LinksAgree ==
    \A a, b \in Links :
        a.item.index = b.item.index /\ a.item.term = b.item.term =>
            a.item.cmd = b.item.cmd /\ a.prev = b.prev

\* Entries come from leaders, and a leader still has the last it made.
LinksFromLeaders ==
    /\ \A a \in Links : a.prev <= a.item.term /\ \E e \in elected : e.term = a.item.term
    /\ \A i \in Server : state[i] = Leader =>
           \A a \in Links : a.item.term = currentTerm[i] =>
               a.item.index <= getLastLogIndex(log[i])

LogInv == HeadsAtSnapshot /\ TermsBounded /\ LeaderInv /\ LinksAgree /\ LinksFromLeaders

-----------------------------------------------------------------------------
\* Where the service does not compact the log there is never a snapshot.
NoSnapshots ==
    /\ snapReq = {} /\ snapRep = {}
    /\ \A i \in Server : snapshot[i] = Nil /\ saving[i] = Nil

\* The log of a leader reaches as far as the entries of each of its calls, and a
\* peer that accepts a call answers in the term of the call.
CallsInLog ==
    /\ \A m \in appendReq :
           state[m.src] = Leader /\ Running(m.src) /\ m.term = currentTerm[m.src] =>
               m.prevLogIndex + Len(m.entries) <= getLastLogIndex(log[m.src])
    /\ \A r \in appendRep :
           /\ Leadership(r.src, r.term) \in elected
           /\ r.success => r.replyTerm = r.term
           /\ state[r.src] = Leader /\ Running(r.src) /\ r.term = currentTerm[r.src] =>
                  r.prevLogIndex + r.sent <= getLastLogIndex(log[r.src])

MatchInv == ~Snapshots => NoSnapshots /\ CallsInLog /\ MatchInLog
=============================================================================
