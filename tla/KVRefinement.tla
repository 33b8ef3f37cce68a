---------------------------- MODULE KVRefinement ----------------------------
(***************************************************************************)
(* The key/value servers and clerks implement the store of KVStore: its    *)
(* history is the log, executed once.                                      *)
(***************************************************************************)
EXTENDS KVService

storeHistory == [n \in DOMAIN replay |-> replay[n].map]

storePending ==
    [c \in Clerk |->
        IF current[c] = Nil THEN Nil
        ELSE [op |-> current[c].op, since |-> since[c] + 1,
              done |-> replay[Len(replay)].last[c] >= current[c].id]]

\* Nil stands for no operation in KVStore too.
ASSUME NoPendingAssumption == Nil \notin [op : Op, since : Nat, done : BOOLEAN]

Store == INSTANCE KVStore WITH history <- storeHistory, pending <- storePending

-----------------------------------------------------------------------------
CommandType == {cmd \in [clerk : Clerk, id : Nat, op : Op] : cmd.id < MaxCommand[cmd.clerk]}

MapType == [Key -> Seq({op.value : op \in Op})]

\* The numbers of commands start at 0, below which -1 stands for a clerk the
\* table does not hold.
TableType == {last \in [Clerk -> Int] : \A c \in Clerk : last[c] \in -1..(MaxCommand[c] - 1)}

SnapshotType == [index : Nat, kvMap : MapType, last : TableType]

ClerkTypes ==
    /\ nextCommandId \in [Clerk -> Nat]
    /\ \A c \in Clerk : nextCommandId[c] <= MaxCommand[c]
    /\ current \in [Clerk -> CommandType \cup {Nil}]
    /\ since \in [Clerk -> Nat]
    /\ DOMAIN result = Clerk
    /\ \A p \in calls : /\ p = Call(p.cmd, p.srv, p.at, p.value)
                        /\ p.cmd \in CommandType /\ p.srv \in Server
                        /\ p.at \in {"sent", "polling", "replied"}

ServerTypes ==
    /\ log \in Seq(CommandType)
    /\ replay \in Seq([map : MapType, last : TableType])
    /\ applied \in [Server -> Nat]
    /\ \A s \in Server : applied[s] <= Len(log)
    /\ kvMap \in [Server -> MapType]
    /\ lastCommittedCommandCount \in [Server -> TableType]
    /\ snapshot \in [Server -> SnapshotType]
    /\ saving \in [Server -> SnapshotType \cup {Nil}]
    /\ taken \subseteq SnapshotType

\* Every variable has the type of its Go field: no number is used beyond those
\* the clerks handed out, and no server is ahead of the log.
TypeOK == ClerkTypes /\ ServerTypes

\* Every server holds the state that the first commands of the log make, each
\* executed once, after duplicates, restarts and installed snapshots.
ReplicasAgree ==
    \A s \in Server :
        replay[applied[s] + 1] = [map |-> kvMap[s], last |-> lastCommittedCommandCount[s]]

\* The clerks see a single store: each command takes effect once, between its
\* call and its return, and a Get returns a value its key had meanwhile.
Linearizable == Store!StoreSpec
=============================================================================
