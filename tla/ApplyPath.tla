------------------------------ MODULE ApplyPath ------------------------------
(***************************************************************************)
(* The path of a committed command inside one KV server: Raft's goroutines *)
(* send on applyCh while they hold rf.mu (raft/raft.go), the apply loop    *)
(* receives and takes kv.mu, and the RPC handlers take kv.mu and, holding  *)
(* it, rf.mu in Start (kvraft/server.go; shardmaster/server.go has the     *)
(* same structure).  Raft and KVService treat each of these as one step;   *)
(* here they are goroutines that block on two mutexes and a bounded        *)
(* channel.  What a command does is left out.                              *)
(***************************************************************************)
EXTENDS Naturals, Sequences

CONSTANTS RaftRPC,   \* goroutines in AppendEntries, InstallSnapshot or a reply
          Handler,   \* goroutines in Get or PutAppend
          Capacity,  \* of applyCh: 100 in kvraft, 10 in shardmaster
          MaxIndex,  \* last index of the log
          Installed, \* last indices of snapshots a leader may send, within 1 .. MaxIndex
          MayKill,   \* the tester may call Kill
          Nil

VARIABLES rfMu,         \* the goroutine that holds rf.mu, or Nil
          kvMu,         \* the goroutine that holds kv.mu, or Nil
          applyCh,      \* the kinds of the messages in the channel
          commitIndex,  \* rf.commitIndex
          dead,         \* kv.dead and rf.dead
          snapshotLock, \* kv.snapshotLock: a goroutine is saving a snapshot
          pc,           \* where each goroutine is
          sending       \* the part of its batch that a Raft goroutine has to send

vars == <<rfMu, kvMu, applyCh, commitIndex, dead, snapshotLock, pc, sending>>

(* A server that was restarted with a log of MaxIndex entries: Make sets   *)
(* commitIndex to the index of the dummy entry.                            *)
Init ==
    /\ rfMu = Nil
    /\ kvMu = Nil
    /\ applyCh = <<>>
    /\ commitIndex = 0
    /\ dead = FALSE
    /\ snapshotLock = FALSE
    /\ pc = [t \in RaftRPC \cup Handler \cup {"loop"} |->
               IF t = "loop" THEN "head" ELSE "idle"]
    /\ sending = [r \in RaftRPC |-> <<>>]

Goto(t, label) == pc' = [pc EXCEPT ![t] = label]

-----------------------------------------------------------------------------
(* Raft's goroutines.                                                      *)

(* AppendEntries, or a reply to startAppend, moves commitIndex and sends   *)
(* the entries in between with sendCommitMessage.                          *)
AdvanceCommit(r, to) ==
    /\ pc[r] = "idle"
    /\ rfMu = Nil
    /\ to \in commitIndex .. MaxIndex
    /\ rfMu' = r
    /\ commitIndex' = to
    /\ sending' = [sending EXCEPT ![r] = [k \in 1 .. to - commitIndex |-> "command"]]
    /\ Goto(r, "sending")
    /\ UNCHANGED <<kvMu, applyCh, dead, snapshotLock>>

(* InstallSnapshot: rebuildLogFromSnapshot sends the snapshot.             *)
InstallSnapshot(r, lastIndex) ==
    /\ pc[r] = "idle"
    /\ rfMu = Nil
    /\ rfMu' = r
    /\ commitIndex' = lastIndex
    /\ sending' = [sending EXCEPT ![r] = <<"snapshot">>]
    /\ Goto(r, "sending")
    /\ UNCHANGED <<kvMu, applyCh, dead, snapshotLock>>

(* rf.applyCh <- ApplyMsg{...} blocks while the channel is full.           *)
SendMsg(r) ==
    /\ pc[r] = "sending"
    /\ sending[r] # <<>>
    /\ Len(applyCh) < Capacity
    /\ applyCh' = Append(applyCh, Head(sending[r]))
    /\ sending' = [sending EXCEPT ![r] = Tail(@)]
    /\ UNCHANGED <<rfMu, kvMu, commitIndex, dead, snapshotLock, pc>>

(* The rest of the handler: persist and unlock.                            *)
FinishRaft(r) ==
    /\ pc[r] = "sending"
    /\ sending[r] = <<>>
    /\ rfMu' = Nil
    /\ Goto(r, "idle")
    /\ UNCHANGED <<kvMu, applyCh, commitIndex, dead, snapshotLock, sending>>

-----------------------------------------------------------------------------
(* checkApplyCommand.                                                      *)

LoopHead ==
    /\ pc["loop"] = "head"
    /\ Goto("loop", IF dead THEN "ended" ELSE "receive")
    /\ UNCHANGED <<rfMu, kvMu, applyCh, commitIndex, dead, snapshotLock, sending>>

ReceiveMsg ==
    /\ pc["loop"] = "receive"
    /\ applyCh # <<>>
    /\ applyCh' = Tail(applyCh)
    /\ Goto("loop", Head(applyCh))
    /\ UNCHANGED <<rfMu, kvMu, commitIndex, dead, snapshotLock, sending>>

(* kv.mu is taken, the message applied and kv.mu released; nothing blocks  *)
(* in between. A command may make the log large enough to start a save.    *)
ApplyMsg ==
    /\ pc["loop"] \in {"command", "snapshot"}
    /\ kvMu = Nil
    /\ \/ UNCHANGED snapshotLock
       \/ /\ pc["loop"] = "command"
          /\ ~snapshotLock
          /\ snapshotLock' = TRUE
    /\ Goto("loop", "head")
    /\ UNCHANGED <<rfMu, kvMu, applyCh, commitIndex, dead, sending>>

(* The goroutine that the loop starts: SaveSnapshot, under rf.mu, and      *)
(* releaseSnapshotLock.                                                    *)
SaveSnapshot ==
    /\ snapshotLock
    /\ rfMu = Nil
    /\ snapshotLock' = FALSE
    /\ UNCHANGED <<rfMu, kvMu, applyCh, commitIndex, dead, pc, sending>>

-----------------------------------------------------------------------------
(* Get and PutAppend.                                                      *)

(* kv.mu.Lock(); a command that was applied already is not started again.  *)
LockKV(h) ==
    /\ pc[h] = "idle"
    /\ kvMu = Nil
    /\ \/ Goto(h, "Start") /\ kvMu' = h
       \/ Goto(h, "polling") /\ UNCHANGED kvMu
    /\ UNCHANGED <<rfMu, applyCh, commitIndex, dead, snapshotLock, sending>>

(* Start returns once it has had rf.mu; then kv.mu is released, and the    *)
(* handler of a server that is not the leader returns.                     *)
Start(h, isLeader) ==
    /\ pc[h] = "Start"
    /\ rfMu = Nil
    /\ kvMu' = Nil
    /\ Goto(h, IF isLeader THEN "polling" ELSE "idle")
    /\ UNCHANGED <<rfMu, applyCh, commitIndex, dead, snapshotLock, sending>>

(* The loop that waits for the command: it looks under kv.mu, finds the    *)
(* command applied or goes on until CommandTimeOut.                        *)
Poll(h) ==
    /\ pc[h] = "polling"
    /\ kvMu = Nil
    /\ Goto(h, "idle")
    /\ UNCHANGED <<rfMu, kvMu, applyCh, commitIndex, dead, snapshotLock, sending>>

Kill ==
    /\ MayKill
    /\ dead' = TRUE
    /\ UNCHANGED <<rfMu, kvMu, applyCh, commitIndex, snapshotLock, pc, sending>>

Next ==
    \/ \E r \in RaftRPC, to \in 0 .. MaxIndex : AdvanceCommit(r, to)
    \/ \E r \in RaftRPC, i \in Installed : InstallSnapshot(r, i)
    \/ \E r \in RaftRPC : SendMsg(r) \/ FinishRaft(r)
    \/ LoopHead
    \/ ReceiveMsg
    \/ ApplyMsg
    \/ SaveSnapshot
    \/ \E h \in Handler : LockKV(h) \/ Poll(h)
    \/ \E h \in Handler, isLeader \in BOOLEAN : Start(h, isLeader)
    \/ Kill

(* Goroutines run on, and Go's mutexes and channels serve every goroutine  *)
(* that waits: strong fairness wherever one waits for another. RPCs need   *)
(* not arrive.                                                             *)
Fairness ==
    /\ \A r \in RaftRPC : SF_vars(SendMsg(r)) /\ WF_vars(FinishRaft(r))
    /\ WF_vars(LoopHead) /\ WF_vars(ReceiveMsg) /\ SF_vars(ApplyMsg)
    /\ SF_vars(SaveSnapshot)
    /\ \A h \in Handler :
          /\ SF_vars(Start(h, TRUE) \/ Start(h, FALSE))
          /\ SF_vars(Poll(h))

Spec == Init /\ [][Next]_vars /\ Fairness

-----------------------------------------------------------------------------
(* What the comment on Start promises: it starts the agreement and returns *)
(* immediately. A handler that calls Start gets an answer.                 *)
StartReturns == \A h \in Handler : pc[h] = "Start" ~> pc[h] # "Start"
=============================================================================
