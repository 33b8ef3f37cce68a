-------------------------------- MODULE KVInv --------------------------------
(***************************************************************************)
(* Why the key/value service implements one map: what has to hold of the   *)
(* log, the servers and the calls in flight for each step to keep          *)
(* ReplicasAgree and to be a step of KVStore.                              *)
(***************************************************************************)
EXTENDS KVRefinement

\* Each entry of the log was executed once, and numbers only go up.
ReplayFollowsLog ==
    /\ Len(replay) = Len(log) + 1
    /\ \A n \in DOMAIN log : replay[n + 1] = once(replay[n], log[n])
    /\ \A m, n \in DOMAIN replay : m <= n =>
           \A c \in Clerk : replay[m].last[c] <= replay[n].last[c]

\* Whether a command was executed, somewhere in the log.
TookEffect(cmd) == replay[Len(replay)].last[cmd.clerk] >= cmd.id

\* No number is in use that getCurrentId did not return.
NumbersIssued ==
    /\ \A c \in Clerk : replay[Len(replay)].last[c] < nextCommandId[c]
    /\ \A p \in calls : p.cmd.id < nextCommandId[p.cmd.clerk]

\* A snapshot is the state at its place in the log.
Recorded(snap) == snap.index <= Len(log) /\ replay[snap.index + 1] = decodeState(snap)

\* Wherever a snapshot is kept, also one that will be installed late.
SnapshotsTrue ==
    /\ \A s \in Server : Recorded(snapshot[s]) /\ (saving[s] # Nil => Recorded(saving[s]))
    /\ \A snap \in taken : Recorded(snap)

\* An operation that is waited for had not been executed when it began.
BegunBefore ==
    \A c \in Clerk : current[c] # Nil =>
        /\ current[c].clerk = c
        /\ since[c] <= Len(log)
        /\ replay[since[c] + 1].last[c] < current[c].id

\* A call whose operation has returned is still to reach its handler, and its
\* command was executed before.
LeftOversHarmless ==
    \A p \in calls : open(p) \/ (p.at = "sent" /\ TookEffect(p.cmd))

\* A reply reports a command that was executed and, for a Get, the value its
\* key had at some moment since the operation began.
ReplyTrue(p) ==
    /\ TookEffect(p.cmd)
    /\ IF p.cmd.op.type = "Get"
       THEN \E n \in DOMAIN replay : /\ since[p.cmd.clerk] < n
                                     /\ p.value = replay[n].map[p.cmd.op.key]
       ELSE p.value = Nil

RepliesTrue == \A p \in calls : p.at = "replied" => ReplyTrue(p)

\* The inductive invariant: together with TypeOK it is kept by every step.
KVInv ==
    /\ ReplicasAgree
    /\ ReplayFollowsLog
    /\ NumbersIssued
    /\ SnapshotsTrue
    /\ BegunBefore
    /\ LeftOversHarmless
    /\ RepliesTrue
=============================================================================
