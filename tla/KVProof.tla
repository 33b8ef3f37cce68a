------------------------------- MODULE KVProof -------------------------------
(* The key/value service keeps its inductive invariant and implements        *)
(* KVStore, for any servers, clerks, operations, bounds and faults.          *)
EXTENDS KVInv, SequenceTheorems, TLAPS

StateType == [map : MapType, last : TableType]

\* A command leaves a map.
LEMMA ExecuteTyped ==
    ASSUME NEW map \in MapType, NEW op \in Op
    PROVE  execute(map, op) \in MapType
<1> DEFINE D == {o.value : o \in Op}
<1>1. op.type \in {"Get", "Put", "Append"} /\ op.key \in Key /\ op.value \in D
  BY OpAssumption
<1>2. map \in [Key -> Seq(D)]
  BY DEF MapType
<1>3. CASE op.type = "Get"
  BY <1>3 DEF execute
<1>4. CASE op.type = "Put"
  <2>1. <<op.value>> \in Seq(D)
    BY <1>1
  <2>2. execute(map, op) = [map EXCEPT ![op.key] = <<op.value>>]
    BY <1>4 DEF execute
  <2> QED
    BY <1>2, <2>1, <2>2 DEF MapType
<1>5. CASE op.type = "Append"
  <2>1. Append(map[op.key], op.value) \in Seq(D)
    BY <1>1, <1>2
  <2>2. execute(map, op) = [map EXCEPT ![op.key] = Append(map[op.key], op.value)]
    BY <1>5 DEF execute
  <2> QED
    BY <1>2, <2>1, <2>2 DEF MapType
<1> QED
  BY <1>1, <1>3, <1>4, <1>5

\* The entry of a clerk in the table is its number.
LEMMA TableEntry ==
    ASSUME NEW last \in TableType, NEW c \in Clerk
    PROVE  last[c] \in Int
BY DEF TableType

LEMMA TableUpdated ==
    ASSUME NEW last \in TableType, NEW cmd \in CommandType, NEW new \in [Clerk -> Int],
           new[cmd.clerk] = cmd.id, \A c \in Clerk \ {cmd.clerk} : new[c] = last[c]
    PROVE  new \in TableType
<1>1. cmd.clerk \in Clerk /\ cmd.id \in Nat /\ cmd.id < MaxCommand[cmd.clerk]
  BY DEF CommandType
<1>2. MaxCommand \in [Clerk -> Nat]
  BY KVConstants
<1>3. \A c \in Clerk : last[c] \in -1..(MaxCommand[c] - 1)
  BY DEF TableType
<1>4. cmd.id \in -1..(MaxCommand[cmd.clerk] - 1)
  BY <1>1, <1>2
<1>5. \A c \in Clerk : new[c] \in -1..(MaxCommand[c] - 1)
  BY <1>3, <1>4
<1> QED
  BY <1>5 DEF TableType

\* Reading a command: the table grows to its number, for no other clerk, and a
\* command that is skipped changes nothing.
LEMMA OnceTyped ==
    ASSUME NEW st \in StateType, NEW cmd \in CommandType
    PROVE  /\ once(st, cmd) \in StateType
           /\ \A c \in Clerk : st.last[c] <= once(st, cmd).last[c]
           /\ once(st, cmd).last[cmd.clerk] >= cmd.id
           /\ \A c \in Clerk \ {cmd.clerk} : once(st, cmd).last[c] = st.last[c]
<1>1. cmd.clerk \in Clerk /\ cmd.id \in Nat /\ cmd.op \in Op
  BY DEF CommandType
<1>2. st.map \in MapType /\ st.last \in TableType
  BY DEF StateType
<1>3. \A c \in Clerk : st.last[c] \in Int
  BY <1>2, TableEntry
<1>4. CASE st.last[cmd.clerk] >= cmd.id
  BY <1>1, <1>3, <1>4 DEF once
<1>5. CASE ~(st.last[cmd.clerk] >= cmd.id)
  <2> DEFINE new == [st.last EXCEPT ![cmd.clerk] = cmd.id]
  <2>1. once(st, cmd) = [map |-> execute(st.map, cmd.op), last |-> new]
    BY <1>5 DEF once
  <2>a. st.last \in [Clerk -> Int]
    BY <1>2 DEF TableType
  <2>b. /\ new \in [Clerk -> Int]
        /\ new[cmd.clerk] = cmd.id
        /\ \A c \in Clerk \ {cmd.clerk} : new[c] = st.last[c]
    BY <1>1, <2>a
  <2> HIDE DEF new
  <2>2. new \in TableType
    BY <1>2, <2>b, TableUpdated
  <2>3. execute(st.map, cmd.op) \in MapType
    BY <1>1, <1>2, ExecuteTyped
  <2>4. once(st, cmd) \in StateType /\ once(st, cmd).last = new
    BY <2>1, <2>2, <2>3 DEF StateType
  <2>5. \A c \in Clerk : st.last[c] <= new[c]
    BY <1>1, <1>3, <1>5, <2>b
  <2> QED
    BY <1>1, <2>b, <2>4, <2>5
<1> QED
  BY <1>4, <1>5

-----------------------------------------------------------------------------
\* The replay has one state more than the log has commands.
LEMMA ReplayFacts ==
    ASSUME TypeOK, ReplayFollowsLog
    PROVE  /\ Len(log) \in Nat /\ DOMAIN log = 1..Len(log)
           /\ Len(replay) = Len(log) + 1 /\ DOMAIN replay = 1..(Len(log) + 1)
           /\ \A n \in DOMAIN log : log[n] \in CommandType
           /\ \A n \in DOMAIN replay : replay[n] \in StateType
           /\ \A n \in DOMAIN replay : \A c \in Clerk : replay[n].last[c] \in Int
<1>1. log \in Seq(CommandType) /\ replay \in Seq(StateType)
  BY DEF TypeOK, ServerTypes, StateType
<1>2. Len(replay) = Len(log) + 1
  BY DEF ReplayFollowsLog
<1>3. Len(log) \in Nat /\ DOMAIN log = 1..Len(log) /\ DOMAIN replay = 1..(Len(log) + 1)
  BY <1>1, <1>2
<1>4. \A n \in DOMAIN replay : replay[n] \in StateType
  BY <1>1
<1>5. \A n \in DOMAIN replay : replay[n].last \in TableType
  BY <1>4 DEF StateType
<1> QED
  BY <1>1, <1>2, <1>3, <1>4, <1>5, TableEntry

\* What a step does to the log at most: states that were passed stay.
LogOnlyGrows ==
    /\ Len(log) <= Len(log')
    /\ \A n \in DOMAIN replay : n \in DOMAIN replay' /\ replay'[n] = replay[n]
    /\ \A c \in Clerk : replay[Len(replay)].last[c] <= replay'[Len(replay')].last[c]

LEMMA LogUnchanged ==
    ASSUME TypeOK, ReplayFollowsLog, UNCHANGED logVars
    PROVE  /\ LogOnlyGrows
           /\ ReplayFollowsLog'
           /\ log' \in Seq(CommandType) /\ replay' \in Seq(StateType)
<1>1. log' = log /\ replay' = replay
  BY DEF logVars
<1>2. Len(replay) \in DOMAIN replay
  BY ReplayFacts
<1>3. LogOnlyGrows
  BY <1>1, <1>2, ReplayFacts DEF LogOnlyGrows
<1> QED
  BY <1>1, <1>3 DEF ReplayFollowsLog, TypeOK, ServerTypes, StateType

\* Start: one more command, and the state after it.
LEMMA LogGrown ==
    ASSUME TypeOK, ReplayFollowsLog, NEW cmd \in CommandType,
           log' = Append(log, cmd),
           replay' = Append(replay, once(replay[Len(replay)], cmd))
    PROVE  /\ LogOnlyGrows
           /\ ReplayFollowsLog'
           /\ log' \in Seq(CommandType) /\ replay' \in Seq(StateType)
           /\ Len(replay') = Len(replay) + 1
           /\ replay'[Len(replay')] = once(replay[Len(replay)], cmd)
<1> DEFINE L == Len(log)
           last == replay[L + 1]
           new == once(last, cmd)
<1>1. /\ L \in Nat /\ DOMAIN log = 1..L
      /\ Len(replay) = L + 1 /\ DOMAIN replay = 1..(L + 1)
      /\ \A n \in DOMAIN replay : replay[n] \in StateType
      /\ \A n \in DOMAIN replay : \A c \in Clerk : replay[n].last[c] \in Int
  BY ReplayFacts
<1>2. last \in StateType
  BY <1>1
<1>3. /\ new \in StateType
      /\ \A c \in Clerk : last.last[c] <= new.last[c]
  BY <1>2, OnceTyped
<1>4. \A c \in Clerk : new.last[c] \in Int
  BY <1>3, TableEntry DEF StateType
<1>5. log \in Seq(CommandType) /\ replay \in Seq(StateType)
  BY DEF TypeOK, ServerTypes, StateType
<1>6. replay' = Append(replay, new)
  BY <1>1
<1> HIDE DEF new, last
<1>7. /\ log' \in Seq(CommandType) /\ Len(log') = L + 1 /\ DOMAIN log' = 1..(L + 1)
      /\ \A n \in 1..L : log'[n] = log[n]
      /\ log'[L + 1] = cmd
  BY <1>1, <1>5
<1>8. /\ replay' \in Seq(StateType) /\ Len(replay') = L + 2 /\ DOMAIN replay' = 1..(L + 2)
      /\ \A n \in 1..(L + 1) : replay'[n] = replay[n]
      /\ replay'[L + 2] = new
  BY <1>1, <1>3, <1>5, <1>6
<1>9. LogOnlyGrows
  <2>1. L <= L + 1 /\ \A n \in 1..(L + 1) : n \in 1..(L + 2)
    BY <1>1
  <2>2. \A c \in Clerk : replay[L + 1].last[c] <= replay'[L + 2].last[c]
    BY <1>3, <1>8 DEF last
  <2> QED
    BY <1>1, <1>7, <1>8, <2>1, <2>2 DEF LogOnlyGrows
<1>10. ASSUME NEW n \in DOMAIN log'
       PROVE  replay'[n + 1] = once(replay'[n], log'[n])
  <2>1. CASE n = L + 1
    <3>1. n + 1 = L + 2 /\ n \in 1..(L + 1)
      BY <1>1, <2>1
    <3>2. replay'[n] = last /\ log'[n] = cmd /\ replay'[n + 1] = new
      BY <2>1, <3>1, <1>7, <1>8 DEF last
    <3> QED
      BY <3>2 DEF new
  <2>2. CASE n # L + 1
    <3>1. n \in 1..L /\ n \in 1..(L + 1) /\ n + 1 \in 1..(L + 1)
      BY <1>1, <1>7, <2>2
    <3>2. replay[n + 1] = once(replay[n], log[n])
      BY <1>1, <3>1 DEF ReplayFollowsLog
    <3>3. replay'[n + 1] = replay[n + 1] /\ replay'[n] = replay[n] /\ log'[n] = log[n]
      BY <1>7, <1>8, <3>1
    <3> QED
      BY <3>2, <3>3
  <2> QED
    BY <2>1, <2>2
<1>11. ASSUME NEW m \in DOMAIN replay', NEW n \in DOMAIN replay', m <= n, NEW c \in Clerk
       PROVE  replay'[m].last[c] <= replay'[n].last[c]
  <2>1. CASE n \in 1..(L + 1)
    <3>1. m \in 1..(L + 1)
      BY <1>1, <1>8, <1>11, <2>1
    <3>2. replay'[m] = replay[m] /\ replay'[n] = replay[n]
      BY <1>8, <2>1, <3>1
    <3> QED
      BY <1>1, <1>11, <2>1, <3>1, <3>2 DEF ReplayFollowsLog
  <2>2. CASE n = L + 2 /\ m \in 1..(L + 1)
    <3>1. L + 1 \in 1..(L + 1) /\ m <= L + 1
      BY <1>1, <2>2
    <3>2. replay[m].last[c] <= last.last[c]
      BY <1>1, <2>2, <3>1 DEF last, ReplayFollowsLog
    <3>3. replay[m].last[c] \in Int /\ last.last[c] \in Int /\ new.last[c] \in Int
      BY <1>1, <1>4, <2>2, <3>1 DEF last
    <3>4. last.last[c] <= new.last[c]
      BY <1>3
    <3>5. replay'[m] = replay[m] /\ replay'[n] = new
      BY <1>8, <2>2
    <3>6. replay[m].last[c] <= new.last[c]
      BY <3>2, <3>3, <3>4
    <3> QED
      BY <3>5, <3>6
  <2>3. CASE n = L + 2 /\ m = L + 2
    BY <1>4, <1>8, <2>3
  <2> QED
    BY <1>1, <1>8, <2>1, <2>2, <2>3
<1>12. ReplayFollowsLog'
  BY <1>7, <1>8, <1>10, <1>11 DEF ReplayFollowsLog
<1> QED
  BY <1>1, <1>7, <1>8, <1>9, <1>12 DEF new, last

\* A state that was recorded stays recorded while the log grows.
LEMMA RecordedKept ==
    ASSUME TypeOK, ReplayFollowsLog, LogOnlyGrows, ReplayFollowsLog', log' \in Seq(CommandType),
           NEW snap \in SnapshotType, Recorded(snap)
    PROVE  Recorded(snap)'
<1>1. snap.index \in Nat /\ snap.index <= Len(log) /\ replay[snap.index + 1] = decodeState(snap)
  BY DEF Recorded, SnapshotType
<1>2. snap.index + 1 \in DOMAIN replay /\ Len(log) \in Nat /\ Len(log') \in Nat
  BY <1>1, ReplayFacts
<1>3. replay'[snap.index + 1] = replay[snap.index + 1] /\ Len(log) <= Len(log')
  BY <1>2 DEF LogOnlyGrows
<1>4. snap.index <= Len(log')
  BY <1>1, <1>2, <1>3
<1> QED
  BY <1>1, <1>3, <1>4 DEF Recorded, decodeState

\* Servers that do not move keep their states and snapshots.
LEMMA ServersKept ==
    ASSUME TypeOK, KVInv, LogOnlyGrows, ReplayFollowsLog', log' \in Seq(CommandType),
           replay' \in Seq(StateType), UNCHANGED <<serverVars, diskVars>>
    PROVE  ServerTypes' /\ ReplicasAgree' /\ SnapshotsTrue'
<1> USE DEF serverVars, diskVars
<1>1. Len(log) <= Len(log') /\ Len(log) \in Nat /\ Len(log') \in Nat
  BY ReplayFacts DEF LogOnlyGrows, KVInv
<1>2. ServerTypes'
  BY <1>1 DEF TypeOK, ServerTypes, StateType
<1>3. ReplicasAgree'
  <2>1. \A s \in Server : applied[s] + 1 \in DOMAIN replay
    BY ReplayFacts DEF KVInv, TypeOK, ServerTypes
  <2>2. \A s \in Server : replay'[applied[s] + 1] = replay[applied[s] + 1]
    BY <2>1 DEF LogOnlyGrows
  <2> QED
    BY <2>2 DEF ReplicasAgree, KVInv
<1>4. ASSUME NEW snap \in SnapshotType, Recorded(snap)
      PROVE  Recorded(snap)'
    BY <1>4, RecordedKept DEF KVInv
<1>5. /\ \A s \in Server : snapshot[s] \in SnapshotType /\ Recorded(snapshot[s])
      /\ \A s \in Server : saving[s] # Nil => saving[s] \in SnapshotType /\ Recorded(saving[s])
      /\ \A snap \in taken : snap \in SnapshotType /\ Recorded(snap)
  BY DEF KVInv, SnapshotsTrue, TypeOK, ServerTypes
<1>6. SnapshotsTrue'
  BY <1>4, <1>5 DEF SnapshotsTrue, Recorded, decodeState
<1> QED
  BY <1>2, <1>3, <1>6

\* The clerks' numbers and beginnings while the log grows.
LEMMA BeginningsKept ==
    ASSUME TypeOK, KVInv, LogOnlyGrows, log' \in Seq(CommandType), ReplayFollowsLog',
           UNCHANGED <<nextCommandId, current, since>>
    PROVE  BegunBefore'
<1>1. Len(log) \in Nat /\ Len(log') \in Nat /\ Len(log) <= Len(log')
  BY ReplayFacts DEF KVInv, LogOnlyGrows
<1>2. SUFFICES ASSUME NEW c \in Clerk, current[c] # Nil
               PROVE  /\ current[c].clerk = c
                      /\ since[c] <= Len(log')
                      /\ replay'[since[c] + 1].last[c] < current[c].id
  BY DEF BegunBefore
<1>3. /\ current[c].clerk = c /\ since[c] <= Len(log)
      /\ replay[since[c] + 1].last[c] < current[c].id
  BY <1>2 DEF KVInv, BegunBefore
<1>4. since[c] \in Nat /\ since[c] + 1 \in DOMAIN replay
  BY <1>1, <1>3, ReplayFacts DEF KVInv, TypeOK, ClerkTypes
<1>5. replay'[since[c] + 1] = replay[since[c] + 1]
  BY <1>4 DEF LogOnlyGrows
<1> QED
  BY <1>1, <1>3, <1>4, <1>5

\* What took effect has taken effect.
LEMMA EffectKept ==
    ASSUME TypeOK, KVInv, LogOnlyGrows, ReplayFollowsLog', log' \in Seq(CommandType),
           replay' \in Seq(StateType), NEW cmd \in CommandType, TookEffect(cmd)
    PROVE  TookEffect(cmd)'
<1>1. cmd.clerk \in Clerk /\ cmd.id \in Nat
  BY DEF CommandType
<1>2. replay[Len(replay)].last[cmd.clerk] \in Int
  BY <1>1, ReplayFacts DEF KVInv
<1>3. Len(replay') \in DOMAIN replay'
  BY DEF ReplayFollowsLog
<1>a. replay'[Len(replay')] \in StateType
  BY <1>3
<1>4. replay'[Len(replay')].last \in TableType
  BY <1>a DEF StateType
<1>5. replay'[Len(replay')].last[cmd.clerk] \in Int
  BY <1>1, <1>4, TableEntry
<1>6. replay[Len(replay)].last[cmd.clerk] <= replay'[Len(replay')].last[cmd.clerk]
  BY <1>1 DEF LogOnlyGrows
<1>7. replay[Len(replay)].last[cmd.clerk] >= cmd.id
  BY DEF TookEffect
<1> QED
  BY <1>1, <1>2, <1>5, <1>6, <1>7 DEF TookEffect

\* A true reply stays true.
LEMMA ReplyKept ==
    ASSUME TypeOK, KVInv, LogOnlyGrows, ReplayFollowsLog', log' \in Seq(CommandType),
           replay' \in Seq(StateType), NEW p, p.cmd \in CommandType, ReplyTrue(p),
           since'[p.cmd.clerk] = since[p.cmd.clerk]
    PROVE  ReplyTrue(p)'
<1>1. TookEffect(p.cmd)'
  BY EffectKept DEF ReplyTrue
<1>2. CASE p.cmd.op.type = "Get"
  <2>1. PICK n \in DOMAIN replay : /\ since[p.cmd.clerk] < n
                                  /\ p.value = replay[n].map[p.cmd.op.key]
    BY <1>2 DEF ReplyTrue
  <2>2. n \in DOMAIN replay' /\ replay'[n] = replay[n]
    BY DEF LogOnlyGrows
  <2> QED
    BY <1>1, <1>2, <2>1, <2>2 DEF ReplyTrue
<1>3. CASE p.cmd.op.type # "Get"
  BY <1>1, <1>3 DEF ReplyTrue
<1> QED
  BY <1>2, <1>3

-----------------------------------------------------------------------------
\* A step of a call: its goroutine goes on, or ends; the log may grow.
LEMMA CallGoesOn ==
    ASSUME TypeOK, KVInv, NEW p \in calls, NEW at \in {"sent", "polling", "replied"}, NEW value,
           goOn(p, at, value), UNCHANGED <<clerkVars, serverVars, diskVars>>,
           LogOnlyGrows, ReplayFollowsLog', log' \in Seq(CommandType), replay' \in Seq(StateType),
           \A c \in Clerk : replay'[Len(replay')].last[c] < nextCommandId[c],
           at = "replied" => ReplyTrue(Call(p.cmd, p.srv, at, value))
    PROVE  TypeOK' /\ KVInv'
<1> DEFINE new == Call(p.cmd, p.srv, at, value)
<1>1. /\ new.cmd = p.cmd /\ new.srv = p.srv /\ new.at = at /\ new.value = value
      /\ new = Call(new.cmd, new.srv, new.at, new.value)
  BY DEF Call
<1>2. p.cmd \in CommandType /\ p.srv \in Server /\ p.cmd.id < nextCommandId[p.cmd.clerk]
  BY DEF TypeOK, ClerkTypes, KVInv, NumbersIssued
<1>3. ASSUME NEW q \in calls'
      PROVE  q \in calls \/ (open(p) /\ q = new)
  BY DEF goOn
<1>4. /\ current' = current /\ since' = since /\ nextCommandId' = nextCommandId /\ result' = result
      /\ UNCHANGED <<serverVars, diskVars>>
  BY DEF clerkVars
<1>5. ServerTypes' /\ ReplicasAgree' /\ SnapshotsTrue'
  BY <1>4, ServersKept
<1>6. BegunBefore'
  BY <1>4, BeginningsKept
<1> HIDE DEF new
<1>7. ClerkTypes'
  <2>1. \A q \in calls' : /\ q = Call(q.cmd, q.srv, q.at, q.value)
                          /\ q.cmd \in CommandType /\ q.srv \in Server
                          /\ q.at \in {"sent", "polling", "replied"}
    BY <1>1, <1>2, <1>3 DEF TypeOK, ClerkTypes
  <2> QED
    BY <1>4, <2>1 DEF TypeOK, ClerkTypes
<1>8. NumbersIssued'
  BY <1>1, <1>2, <1>3, <1>4 DEF KVInv, NumbersIssued
<1>9. LeftOversHarmless'
  <2> SUFFICES ASSUME NEW q \in calls'
               PROVE  open(q)' \/ (q.at = "sent" /\ TookEffect(q.cmd)')
    BY DEF LeftOversHarmless
  <2>1. CASE q \in calls
    <3>1. q.cmd \in CommandType
      BY <2>1 DEF TypeOK, ClerkTypes
    <3>2. open(q) \/ (q.at = "sent" /\ TookEffect(q.cmd))
      BY <2>1 DEF KVInv, LeftOversHarmless
    <3>3. open(q) => open(q)'
      BY <1>4 DEF open
    <3>4. TookEffect(q.cmd) => TookEffect(q.cmd)'
      BY <3>1, EffectKept
    <3> QED
      BY <3>2, <3>3, <3>4
  <2>2. CASE open(p) /\ q = new
    BY <1>1, <1>4, <2>2 DEF open
  <2> QED
    BY <1>3, <2>1, <2>2
<1>10. RepliesTrue'
  <2> SUFFICES ASSUME NEW q \in calls', q.at = "replied"
               PROVE  ReplyTrue(q)'
    BY DEF RepliesTrue
  <2>1. CASE q \in calls
    <3>1. q.cmd \in CommandType /\ ReplyTrue(q)
      BY <2>1 DEF TypeOK, ClerkTypes, KVInv, RepliesTrue
    <3> QED
      BY <1>4, <3>1, ReplyKept
  <2>2. CASE q = new
    <3>1. q.cmd \in CommandType /\ ReplyTrue(q)
      BY <1>1, <1>2, <2>2 DEF new
    <3> QED
      BY <1>4, <3>1, ReplyKept
  <2> QED
    BY <1>3, <2>1, <2>2
<1> QED
  BY <1>5, <1>6, <1>7, <1>8, <1>9, <1>10 DEF TypeOK, KVInv

\* Calls that fail, time out, find no leader or are answered.
LEMMA InvHandler ==
    ASSUME TypeOK, KVInv, NEW p \in calls,
           CallFails(p) \/ WrongLeader(p) \/ Poll(p) \/ TimeOut(p) \/ Submit(p)
    PROVE  TypeOK' /\ KVInv'
<1>1. p.cmd \in CommandType /\ p.srv \in Server /\ p.cmd.clerk \in Clerk /\ p.cmd.id \in Nat
      /\ p.cmd.id < nextCommandId[p.cmd.clerk]
  BY DEF TypeOK, ClerkTypes, CommandType, KVInv, NumbersIssued
<1>2. ASSUME UNCHANGED logVars
      PROVE  /\ LogOnlyGrows /\ ReplayFollowsLog'
             /\ log' \in Seq(CommandType) /\ replay' \in Seq(StateType)
             /\ \A c \in Clerk : replay'[Len(replay')].last[c] < nextCommandId[c]
  <2>1. replay' = replay
    BY <1>2 DEF logVars
  <2> QED
    BY <1>2, <2>1, LogUnchanged DEF KVInv, NumbersIssued
<1>3. CASE CallFails(p) \/ WrongLeader(p) \/ TimeOut(p)
  <2>1. goOn(p, "sent", Nil) /\ UNCHANGED <<clerkVars, logVars, serverVars, diskVars>>
    BY <1>3 DEF CallFails, WrongLeader, TimeOut, tryAgain
  <2> QED
    BY <1>2, <2>1, CallGoesOn
<1>4. CASE Poll(p)
  <2> DEFINE s == p.srv
             value == replyValue(p)
  <2>1. /\ isCommitted(s, p.cmd) /\ goOn(p, "replied", value) /\ p.at = "polling"
        /\ UNCHANGED <<clerkVars, logVars, serverVars, diskVars>>
    BY <1>4 DEF Poll
  <2>2. open(p)
    BY <2>1 DEF KVInv, LeftOversHarmless
  <2>3. /\ applied[s] \in Nat /\ applied[s] + 1 \in DOMAIN replay
        /\ Len(replay) \in DOMAIN replay /\ applied[s] + 1 <= Len(replay)
    BY <1>1, ReplayFacts DEF TypeOK, ServerTypes, KVInv
  <2>4. replay[applied[s] + 1] = [map |-> kvMap[s], last |-> lastCommittedCommandCount[s]]
    BY <1>1 DEF KVInv, ReplicasAgree
  <2>5. replay[applied[s] + 1].last[p.cmd.clerk] >= p.cmd.id
    BY <2>1, <2>4 DEF isCommitted
  <2>6. TookEffect(p.cmd)
    <3>1. replay[applied[s] + 1].last[p.cmd.clerk] <= replay[Len(replay)].last[p.cmd.clerk]
      BY <1>1, <2>3 DEF KVInv, ReplayFollowsLog
    <3>2. /\ replay[applied[s] + 1].last[p.cmd.clerk] \in Int
          /\ replay[Len(replay)].last[p.cmd.clerk] \in Int
      BY <1>1, <2>3, ReplayFacts DEF KVInv
    <3> QED
      BY <1>1, <2>5, <3>1, <3>2 DEF TookEffect
  <2>7. since[p.cmd.clerk] < applied[s] + 1
    <3>0. PICK c \in Clerk : c = p.cmd.clerk
      BY <1>1
    <3>1. current[c] = p.cmd /\ current[c] # Nil
      BY <1>1, <2>2, <3>0, NoCommandAssumption DEF open, CommandType
    <3>2. since[c] \in Nat /\ since[c] <= Len(log) /\ replay[since[c] + 1].last[c] < p.cmd.id
      BY <3>1 DEF KVInv, BegunBefore, TypeOK, ClerkTypes
    <3>3. since[c] + 1 \in DOMAIN replay /\ Len(log) \in Nat
      BY <3>2, ReplayFacts DEF KVInv
    <3>4. /\ replay[since[c] + 1].last[c] \in Int
          /\ replay[applied[s] + 1].last[c] \in Int
      BY <2>3, <3>3, ReplayFacts DEF KVInv
    <3>5. ~(replay[applied[s] + 1].last[c] <= replay[since[c] + 1].last[c])
      BY <1>1, <2>5, <3>0, <3>2, <3>4
    <3>6. ~(applied[s] + 1 <= since[c] + 1)
      BY <2>3, <3>3, <3>5 DEF KVInv, ReplayFollowsLog
    <3> QED
      BY <2>3, <3>0, <3>2, <3>6
  <2>8. ReplyTrue(Call(p.cmd, s, "replied", value))
    <3> DEFINE r == Call(p.cmd, s, "replied", value)
    <3>1. r.cmd = p.cmd /\ r.value = value
      BY DEF Call
    <3>a. SUFFICES ReplyTrue(r)
      OBVIOUS
    <3> HIDE DEF r
    <3>2. CASE p.cmd.op.type = "Get"
      <4>1. value = replay[applied[s] + 1].map[p.cmd.op.key]
        BY <2>4, <3>2 DEF replyValue
      <4> QED
        BY <2>3, <2>6, <2>7, <3>1, <3>2, <4>1 DEF ReplyTrue
    <3>3. CASE p.cmd.op.type # "Get"
      BY <2>6, <3>1, <3>3 DEF ReplyTrue, replyValue
    <3> QED
      BY <3>2, <3>3
  <2> HIDE DEF value
  <2> QED
    BY <1>2, <2>1, <2>8, CallGoesOn
<1>5. CASE Submit(p)
  <2>1. goOn(p, "polling", Nil) /\ UNCHANGED <<clerkVars, serverVars, diskVars>>
    BY <1>5 DEF Submit, wait
  <2>2. CASE UNCHANGED logVars
    BY <1>2, <2>1, <2>2, CallGoesOn
  <2>3. CASE log' = Append(log, p.cmd) /\ replay' = Append(replay, once(replay[Len(replay)], p.cmd))
    <3>1. PICK cmd \in CommandType : cmd = p.cmd
      BY <1>1
    <3>2. /\ LogOnlyGrows
          /\ ReplayFollowsLog'
          /\ log' \in Seq(CommandType) /\ replay' \in Seq(StateType)
          /\ replay'[Len(replay')] = once(replay[Len(replay)], cmd)
      BY <2>3, <3>1, LogGrown DEF KVInv
    <3>3. \A c \in Clerk : once(replay[Len(replay)], cmd).last[c] < nextCommandId[c]
      <4>1. replay[Len(replay)] \in StateType
        BY ReplayFacts DEF KVInv
      <4>2. \A c \in Clerk : replay[Len(replay)].last[c] < nextCommandId[c]
        BY DEF KVInv, NumbersIssued
      <4>3. CASE replay[Len(replay)].last[cmd.clerk] >= cmd.id
        BY <4>2, <4>3 DEF once
      <4>4. CASE ~(replay[Len(replay)].last[cmd.clerk] >= cmd.id)
        <5>1. once(replay[Len(replay)], cmd).last = [replay[Len(replay)].last EXCEPT ![cmd.clerk] = cmd.id]
          BY <4>4 DEF once
        <5>2. replay[Len(replay)].last \in [Clerk -> Int]
          BY <4>1 DEF StateType, TableType
        <5> QED
          BY <1>1, <3>1, <4>2, <5>1, <5>2
      <4> QED
        BY <4>3, <4>4
    <3> QED
      BY <2>1, <3>2, <3>3, CallGoesOn
  <2> QED
    BY <1>5, <2>2, <2>3 DEF Submit, Start
<1> QED
  BY <1>3, <1>4, <1>5

\* A clerk begins an operation.
LEMMA InvBegin ==
    ASSUME TypeOK, KVInv, NEW c \in Clerk, NEW op \in Op, Begin(c, op)
    PROVE  TypeOK' /\ KVInv'
<1> DEFINE cmd == Command(c, nextCommandId[c], op)
<1>1. /\ current[c] = Nil /\ nextCommandId[c] < MaxCommand[c]
      /\ nextCommandId' = [nextCommandId EXCEPT ![c] = nextCommandId[c] + 1]
      /\ current' = [current EXCEPT ![c] = cmd]
      /\ since' = [since EXCEPT ![c] = Len(log)]
      /\ calls' = calls \cup {Call(cmd, s, "sent", Nil) : s \in Server}
      /\ UNCHANGED <<result, logVars, serverVars, diskVars>>
  BY DEF Begin, getCurrentId
<1>2. /\ cmd \in CommandType /\ cmd.clerk = c /\ cmd.id = nextCommandId[c]
      /\ nextCommandId[c] \in Nat /\ cmd # Nil
  <2>1. nextCommandId[c] \in Nat
    BY DEF TypeOK, ClerkTypes
  <2> QED
    BY <1>1, <2>1, NoCommandAssumption DEF Command, CommandType
<1>3. /\ LogOnlyGrows /\ ReplayFollowsLog'
      /\ log' \in Seq(CommandType) /\ replay' \in Seq(StateType)
      /\ log' = log /\ replay' = replay /\ result' = result
  BY <1>1, LogUnchanged DEF KVInv, logVars
<1>4. ServerTypes' /\ ReplicasAgree' /\ SnapshotsTrue'
  BY <1>1, <1>3, ServersKept
<1> HIDE DEF cmd
<1>5. Len(log) \in Nat /\ Len(replay) = Len(log) + 1 /\ Len(replay) \in DOMAIN replay
  BY ReplayFacts DEF KVInv
<1>6. /\ nextCommandId' \in [Clerk -> Nat] /\ nextCommandId'[c] = nextCommandId[c] + 1
      /\ current' \in [Clerk -> CommandType \cup {Nil}] /\ current'[c] = cmd
      /\ since' \in [Clerk -> Nat] /\ since'[c] = Len(log)
      /\ \A d \in Clerk \ {c} : /\ nextCommandId'[d] = nextCommandId[d]
                               /\ current'[d] = current[d]
                               /\ since'[d] = since[d]
  BY <1>1, <1>2, <1>5 DEF TypeOK, ClerkTypes
<1>7. ASSUME NEW q \in calls'
      PROVE  q \in calls \/ \E s \in Server : q = Call(cmd, s, "sent", Nil)
  BY <1>1
<1>8. ClerkTypes'
  <2>1. \A q \in calls' : /\ q = Call(q.cmd, q.srv, q.at, q.value)
                          /\ q.cmd \in CommandType /\ q.srv \in Server
                          /\ q.at \in {"sent", "polling", "replied"}
    BY <1>2, <1>7 DEF TypeOK, ClerkTypes, Call
  <2>2. \A d \in Clerk : nextCommandId'[d] <= MaxCommand[d]
    <3>1. MaxCommand[c] \in Nat
      BY KVConstants
    <3> QED
      BY <1>1, <1>2, <1>6, <3>1 DEF TypeOK, ClerkTypes
  <2> QED
    BY <1>3, <1>6, <2>1, <2>2 DEF TypeOK, ClerkTypes
<1>9. NumbersIssued'
  <2>1. ASSUME NEW d \in Clerk
        PROVE  /\ nextCommandId[d] \in Nat /\ nextCommandId'[d] \in Nat
               /\ nextCommandId[d] <= nextCommandId'[d]
    <3>1. nextCommandId[d] \in Nat /\ nextCommandId'[d] \in Nat
      BY <1>6 DEF TypeOK, ClerkTypes
    <3>2. CASE d = c
      BY <1>6, <3>1, <3>2
    <3>3. CASE d # c
      BY <1>6, <3>1, <3>3
    <3> QED
      BY <3>1, <3>2, <3>3
  <2>2. ASSUME NEW d \in Clerk
        PROVE  replay'[Len(replay')].last[d] < nextCommandId'[d]
    <3>1. /\ replay[Len(replay)].last[d] < nextCommandId[d]
          /\ replay[Len(replay)].last[d] \in Int
      BY <1>5, ReplayFacts DEF KVInv, NumbersIssued
    <3>2. replay[Len(replay)].last[d] < nextCommandId'[d]
      BY <2>1, <3>1
    <3> QED
      BY <1>3, <3>2
  <2>3. ASSUME NEW q \in calls'
        PROVE  q.cmd.id < nextCommandId'[q.cmd.clerk]
    <3>1. CASE q \in calls
      <4>1. q.cmd.clerk \in Clerk /\ q.cmd.id \in Nat /\ q.cmd.id < nextCommandId[q.cmd.clerk]
        BY <3>1 DEF TypeOK, ClerkTypes, CommandType, KVInv, NumbersIssued
      <4>2. /\ nextCommandId[q.cmd.clerk] <= nextCommandId'[q.cmd.clerk]
            /\ nextCommandId[q.cmd.clerk] \in Nat /\ nextCommandId'[q.cmd.clerk] \in Nat
        BY <1>6, <2>1, <4>1
      <4> QED
        BY <4>1, <4>2
    <3>2. CASE \E s \in Server : q = Call(cmd, s, "sent", Nil)
      <4>1. q.cmd = cmd
        BY <3>2 DEF Call
      <4> QED
        BY <1>2, <1>6, <4>1
    <3> QED
      BY <1>7, <3>1, <3>2
  <2> QED
    BY <2>2, <2>3 DEF NumbersIssued
<1>10. BegunBefore'
  <2> SUFFICES ASSUME NEW d \in Clerk, current'[d] # Nil
               PROVE  /\ current'[d].clerk = d
                      /\ since'[d] <= Len(log')
                      /\ replay'[since'[d] + 1].last[d] < current'[d].id
    BY DEF BegunBefore
  <2>1. CASE d = c
    <3>1. replay[Len(log) + 1].last[c] < nextCommandId[c]
      BY <1>5 DEF KVInv, NumbersIssued
    <3> QED
      BY <1>2, <1>3, <1>5, <1>6, <2>1, <3>1
  <2>2. CASE d # c
    BY <1>3, <1>6, <2>2 DEF KVInv, BegunBefore
  <2> QED
    BY <2>1, <2>2
<1>11. \A q \in calls : TookEffect(q.cmd) => TookEffect(q.cmd)'
  BY <1>3 DEF TookEffect
\* No call of this clerk is open: it waits for nothing.
<1>12. ASSUME NEW q \in calls, q.cmd.clerk = c
       PROVE  ~open(q)
  <2>1. q.cmd # Nil
    BY NoCommandAssumption DEF TypeOK, ClerkTypes, CommandType
  <2> QED
    BY <1>1, <1>12, <2>1 DEF open
<1>13. LeftOversHarmless'
  <2> SUFFICES ASSUME NEW q \in calls'
               PROVE  open(q)' \/ (q.at = "sent" /\ TookEffect(q.cmd)')
    BY DEF LeftOversHarmless
  <2>1. CASE q \in calls
    <3>1. open(q) \/ (q.at = "sent" /\ TookEffect(q.cmd))
      BY <2>1 DEF KVInv, LeftOversHarmless
    <3>2. q.cmd.clerk \in Clerk
      BY <2>1 DEF TypeOK, ClerkTypes, CommandType
    <3>3. open(q) => open(q)'
      BY <1>6, <1>12, <2>1, <3>2 DEF open
    <3> QED
      BY <1>11, <2>1, <3>1, <3>3
  <2>2. CASE \E s \in Server : q = Call(cmd, s, "sent", Nil)
    <3>1. q.cmd = cmd
      BY <2>2 DEF Call
    <3> QED
      BY <1>2, <1>6, <3>1 DEF open
  <2> QED
    BY <1>7, <2>1, <2>2
<1>14. RepliesTrue'
  <2> SUFFICES ASSUME NEW q \in calls', q.at = "replied"
               PROVE  ReplyTrue(q)'
    BY DEF RepliesTrue
  <2>1. q \in calls
    BY <1>7 DEF Call
  <2>2. q.cmd \in CommandType /\ ReplyTrue(q) /\ open(q) /\ q.cmd.clerk \in Clerk
    BY <2>1 DEF TypeOK, ClerkTypes, CommandType, KVInv, RepliesTrue, LeftOversHarmless
  <2>3. since'[q.cmd.clerk] = since[q.cmd.clerk]
    BY <1>6, <1>12, <2>1, <2>2
  <2> QED
    BY <1>3, <2>2, <2>3, ReplyKept
<1> QED
  BY <1>3, <1>4, <1>8, <1>9, <1>10, <1>13, <1>14 DEF TypeOK, KVInv

\* A clerk returns from its operation.
LEMMA InvDone ==
    ASSUME TypeOK, KVInv, NEW p \in calls, Done(p)
    PROVE  TypeOK' /\ KVInv'
<1>1. /\ p.at = "replied"
      /\ current' = [current EXCEPT ![p.cmd.clerk] = Nil]
      /\ result' = [result EXCEPT ![p.cmd.clerk] = p.value]
      /\ calls' = {q \in calls : q.cmd = p.cmd => q.at = "sent"}
      /\ UNCHANGED <<nextCommandId, since, logVars, serverVars, diskVars>>
  BY DEF Done
<1>2. p.cmd \in CommandType /\ p.cmd.clerk \in Clerk /\ TookEffect(p.cmd)
  BY <1>1 DEF TypeOK, ClerkTypes, CommandType, KVInv, RepliesTrue, ReplyTrue
<1>3. open(p)
  BY <1>1 DEF KVInv, LeftOversHarmless
<1>4. /\ LogOnlyGrows /\ ReplayFollowsLog'
      /\ log' \in Seq(CommandType) /\ replay' \in Seq(StateType)
      /\ log' = log /\ replay' = replay
  BY <1>1, LogUnchanged DEF KVInv, logVars
<1>5. ServerTypes' /\ ReplicasAgree' /\ SnapshotsTrue'
  BY <1>1, <1>4, ServersKept
<1>6. /\ current' \in [Clerk -> CommandType \cup {Nil}] /\ current'[p.cmd.clerk] = Nil
      /\ \A d \in Clerk \ {p.cmd.clerk} : current'[d] = current[d]
      /\ DOMAIN result' = Clerk
      /\ nextCommandId' = nextCommandId /\ since' = since
  BY <1>1, <1>2 DEF TypeOK, ClerkTypes
<1>7. ClerkTypes'
  BY <1>1, <1>6 DEF TypeOK, ClerkTypes
<1>8. NumbersIssued' /\ BegunBefore'
  BY <1>1, <1>4, <1>6 DEF KVInv, NumbersIssued, BegunBefore
<1>9. LeftOversHarmless'
  <2> SUFFICES ASSUME NEW q \in calls'
               PROVE  open(q)' \/ (q.at = "sent" /\ TookEffect(q.cmd)')
    BY DEF LeftOversHarmless
  <2>1. q \in calls /\ (q.cmd = p.cmd => q.at = "sent") /\ q.cmd.clerk \in Clerk
    BY <1>1 DEF TypeOK, ClerkTypes, CommandType
  <2>2. TookEffect(q.cmd) => TookEffect(q.cmd)'
    BY <1>4 DEF TookEffect
  <2>3. CASE q.cmd = p.cmd
    BY <1>2, <2>1, <2>2, <2>3
  <2>4. CASE q.cmd # p.cmd
    <3>1. open(q) => q.cmd.clerk # p.cmd.clerk
      BY <1>3, <2>4 DEF open
    <3>2. open(q) => open(q)'
      BY <1>6, <2>1, <3>1 DEF open
    <3> QED
      BY <2>1, <2>2, <3>2 DEF KVInv, LeftOversHarmless
  <2> QED
    BY <2>3, <2>4
<1>10. RepliesTrue'
  BY <1>1, <1>4, <1>6 DEF KVInv, RepliesTrue, ReplyTrue, TookEffect
<1> QED
  BY <1>4, <1>5, <1>7, <1>8, <1>9, <1>10 DEF TypeOK, KVInv

\* The calls while servers move: none begins, none is answered.
LEMMA CallsKept ==
    ASSUME TypeOK, KVInv, UNCHANGED <<clerkVars, logVars>>,
           \A q \in calls' :
               q \in calls \/ \E p \in calls : open(p) /\ q = Call(p.cmd, p.srv, "sent", Nil)
    PROVE  /\ ClerkTypes' /\ ReplayFollowsLog' /\ NumbersIssued'
           /\ BegunBefore' /\ LeftOversHarmless' /\ RepliesTrue'
<1>1. /\ current' = current /\ since' = since /\ nextCommandId' = nextCommandId /\ result' = result
      /\ log' = log /\ replay' = replay
  BY DEF clerkVars, logVars
<1>2. \A q \in calls' :
          \/ q \in calls
          \/ /\ q.at = "sent" /\ q = Call(q.cmd, q.srv, q.at, q.value)
             /\ \E p \in calls : open(p) /\ q.cmd = p.cmd /\ q.srv = p.srv
  BY DEF Call
<1>3. ClerkTypes'
  BY <1>1, <1>2 DEF TypeOK, ClerkTypes
<1>4. ReplayFollowsLog' /\ BegunBefore'
  BY <1>1 DEF KVInv, ReplayFollowsLog, BegunBefore
<1>5. NumbersIssued'
  BY <1>1, <1>2 DEF KVInv, NumbersIssued
<1>6. LeftOversHarmless'
  BY <1>1, <1>2 DEF KVInv, LeftOversHarmless, open, TookEffect
<1>7. RepliesTrue'
  BY <1>1, <1>2 DEF KVInv, RepliesTrue, ReplyTrue, TookEffect
<1> QED
  BY <1>3, <1>4, <1>5, <1>6, <1>7

\* The apply loop reads the next command: what it leaves is the next state of
\* the replay, and what it hands to SaveSnapshot too.
LEMMA InvApply ==
    ASSUME TypeOK, KVInv, NEW s \in Server, checkApplyCommand(s)
    PROVE  TypeOK' /\ KVInv'
<1> DEFINE n == applied[s] + 1
           cmd == log[n]
           st == replay[n]
<1>1. /\ applied[s] < Len(log)
      /\ applied' = [applied EXCEPT ![s] = n]
      /\ UNCHANGED <<clerkVars, calls, logVars, snapshot, taken>>
  BY DEF checkApplyCommand
<1>2. /\ applied[s] \in Nat /\ n \in Nat /\ n \in DOMAIN log /\ n \in DOMAIN replay
      /\ n + 1 \in DOMAIN replay /\ n <= Len(log)
      /\ cmd \in CommandType /\ st \in StateType /\ replay[n + 1] \in StateType
  <2>1. applied[s] \in Nat /\ Len(log) \in Nat
    BY ReplayFacts DEF TypeOK, ServerTypes, KVInv
  <2> QED
    BY <1>1, <2>1, ReplayFacts DEF KVInv
<1>3. replay[n + 1] = once(st, cmd)
  BY <1>2 DEF KVInv, ReplayFollowsLog
<1>4. st = [map |-> kvMap[s], last |-> lastCommittedCommandCount[s]]
  BY DEF KVInv, ReplicasAgree
<1>5. log' = log /\ replay' = replay /\ snapshot' = snapshot /\ taken' = taken
      /\ calls' = calls /\ UNCHANGED <<clerkVars, logVars>>
  BY <1>1 DEF logVars
<1>6. /\ ClerkTypes' /\ ReplayFollowsLog' /\ NumbersIssued'
      /\ BegunBefore' /\ LeftOversHarmless' /\ RepliesTrue'
  BY <1>5, CallsKept
<1> HIDE DEF n, cmd, st
<1>7. /\ applied' \in [Server -> Nat] /\ applied'[s] = n
      /\ \A t \in Server \ {s} : applied'[t] = applied[t]
      /\ \A t \in Server : applied'[t] <= Len(log)
  BY <1>1, <1>2 DEF TypeOK, ServerTypes
\* Both branches leave the next state of the replay.
<1>8. /\ kvMap' \in [Server -> MapType] /\ lastCommittedCommandCount' \in [Server -> TableType]
      /\ replay[n + 1] = [map |-> kvMap'[s], last |-> lastCommittedCommandCount'[s]]
      /\ \A t \in Server \ {s} : /\ kvMap'[t] = kvMap[t]
                                /\ lastCommittedCommandCount'[t] = lastCommittedCommandCount[t]
  <2>0. kvMap \in [Server -> MapType] /\ lastCommittedCommandCount \in [Server -> TableType]
    BY DEF TypeOK, ServerTypes
  <2>1. CASE isCommitted(s, cmd)
    <3>1. UNCHANGED <<kvMap, lastCommittedCommandCount>>
      BY <2>1 DEF checkApplyCommand, cmd, n
    <3>2. once(st, cmd) = st
      BY <1>4, <2>1 DEF once, isCommitted
    <3> QED
      BY <1>3, <1>4, <2>0, <3>1, <3>2
  <2>2. CASE ~isCommitted(s, cmd)
    <3>1. /\ kvMap' = [kvMap EXCEPT ![s] = execute(kvMap[s], cmd.op)]
          /\ lastCommittedCommandCount' =
                 [lastCommittedCommandCount EXCEPT ![s] =
                     [lastCommittedCommandCount[s] EXCEPT ![cmd.clerk] = cmd.id]]
      BY <2>2 DEF checkApplyCommand, cmd, n
    <3>2. once(st, cmd) = [map |-> execute(kvMap[s], cmd.op),
                           last |-> [lastCommittedCommandCount[s] EXCEPT ![cmd.clerk] = cmd.id]]
      BY <1>4, <2>2 DEF once, isCommitted
    <3>3. /\ execute(kvMap[s], cmd.op) \in MapType
          /\ [lastCommittedCommandCount[s] EXCEPT ![cmd.clerk] = cmd.id] \in TableType
      BY <1>2, <1>3, <3>2 DEF StateType
    <3>4. kvMap' \in [Server -> MapType] /\ lastCommittedCommandCount' \in [Server -> TableType]
      BY <2>0, <3>1, <3>3
    <3>5. /\ kvMap'[s] = execute(kvMap[s], cmd.op)
          /\ lastCommittedCommandCount'[s] = [lastCommittedCommandCount[s] EXCEPT ![cmd.clerk] = cmd.id]
      BY <2>0, <3>1
    <3>6. \A t \in Server \ {s} : /\ kvMap'[t] = kvMap[t]
                                 /\ lastCommittedCommandCount'[t] = lastCommittedCommandCount[t]
      BY <2>0, <3>1
    <3> QED
      BY <1>3, <3>2, <3>4, <3>5, <3>6
  <2> QED
    BY <2>1, <2>2
<1>9. ReplicasAgree'
  BY <1>5, <1>7, <1>8 DEF KVInv, ReplicasAgree
<1>a. PICK snap : snap = Snapshot(n, kvMap'[s], lastCommittedCommandCount'[s])
  OBVIOUS
<1>10. saving' = saving \/ saving' = [saving EXCEPT ![s] = snap]
  <2>1. CASE isCommitted(s, cmd)
    BY <2>1 DEF checkApplyCommand, cmd, n
  <2>2. CASE ~isCommitted(s, cmd)
    BY <1>a, <2>2 DEF checkApplyCommand, cmd, n
  <2> QED
    BY <2>1, <2>2
<1>11. snap \in SnapshotType /\ Recorded(snap)
  <2>1. snap.index = n /\ decodeState(snap) = replay[n + 1]
    BY <1>a, <1>8 DEF Snapshot, decodeState
  <2>2. Recorded(snap)
    BY <1>2, <2>1 DEF Recorded
  <2> QED
    BY <1>a, <1>2, <1>8, <2>2 DEF Snapshot, SnapshotType
<1>12. /\ saving' \in [Server -> SnapshotType \cup {Nil}]
       /\ \A t \in Server : saving'[t] = saving[t] \/ saving'[t] = snap
  BY <1>10, <1>11 DEF TypeOK, ServerTypes
<1>13. SnapshotsTrue'
  <2>1. \A t \in Server : saving'[t] # Nil => Recorded(saving'[t])
    BY <1>11, <1>12 DEF KVInv, SnapshotsTrue
  <2> QED
    BY <1>5, <2>1 DEF KVInv, SnapshotsTrue, Recorded, decodeState
<1>14. ServerTypes'
  BY <1>5, <1>7, <1>8, <1>12 DEF TypeOK, ServerTypes
<1> QED
  BY <1>6, <1>9, <1>13, <1>14 DEF TypeOK, KVInv

\* A snapshot is saved, or dropped.
LEMMA InvSave ==
    ASSUME TypeOK, KVInv, NEW s \in Server, SaveSnapshot(s)
    PROVE  TypeOK' /\ KVInv'
<1>1. /\ saving[s] # Nil
      /\ saving' = [saving EXCEPT ![s] = Nil]
      /\ \/ snapshot' = [snapshot EXCEPT ![s] = saving[s]] /\ taken' = taken \cup {saving[s]}
         \/ UNCHANGED <<snapshot, taken>>
      /\ UNCHANGED <<clerkVars, calls, logVars, serverVars>>
  BY DEF SaveSnapshot
<1>2. /\ ClerkTypes' /\ ReplayFollowsLog' /\ NumbersIssued'
      /\ BegunBefore' /\ LeftOversHarmless' /\ RepliesTrue'
  BY <1>1, CallsKept
<1>3. saving[s] \in SnapshotType /\ Recorded(saving[s])
  BY <1>1 DEF TypeOK, ServerTypes, KVInv, SnapshotsTrue
<1>4. /\ saving' \in [Server -> SnapshotType \cup {Nil}]
      /\ \A t \in Server : saving'[t] \in {saving[t], Nil}
  BY <1>1 DEF TypeOK, ServerTypes
<1>5. /\ snapshot' \in [Server -> SnapshotType] /\ taken' \subseteq SnapshotType
      /\ \A t \in Server : snapshot'[t] \in {snapshot[t], saving[s]}
      /\ \A x \in taken' : x \in taken \/ x = saving[s]
  BY <1>1, <1>3 DEF TypeOK, ServerTypes
<1>6. /\ \A t \in Server : Recorded(snapshot'[t])
      /\ \A t \in Server : saving'[t] # Nil => Recorded(saving'[t])
      /\ \A x \in taken' : Recorded(x)
  BY <1>3, <1>4, <1>5 DEF KVInv, SnapshotsTrue
<1>7. SnapshotsTrue'
  BY <1>1, <1>6 DEF SnapshotsTrue, Recorded, decodeState, logVars
<1>8. ServerTypes' /\ ReplicasAgree'
  BY <1>1, <1>4, <1>5 DEF TypeOK, ServerTypes, KVInv, ReplicasAgree, logVars, serverVars
<1> QED
  BY <1>2, <1>7, <1>8 DEF TypeOK, KVInv

\* A server that takes over a recorded state agrees with the replay.
LEMMA StateLoaded ==
    ASSUME TypeOK, KVInv, NEW s \in Server, NEW snap \in SnapshotType, Recorded(snap),
           UNCHANGED logVars,
           applied' = [applied EXCEPT ![s] = snap.index],
           kvMap' = [kvMap EXCEPT ![s] = decodeState(snap).map],
           lastCommittedCommandCount' = [lastCommittedCommandCount EXCEPT ![s] = decodeState(snap).last]
    PROVE  /\ ReplicasAgree'
           /\ applied' \in [Server -> Nat] /\ \A t \in Server : applied'[t] <= Len(log')
           /\ kvMap' \in [Server -> MapType]
           /\ lastCommittedCommandCount' \in [Server -> TableType]
<1>1. snap.index \in Nat /\ snap.index <= Len(log) /\ snap.kvMap \in MapType /\ snap.last \in TableType
  BY DEF SnapshotType, Recorded
<1>2. decodeState(snap) = [map |-> snap.kvMap, last |-> snap.last]
  BY DEF decodeState
<1>3. replay[snap.index + 1] = [map |-> snap.kvMap, last |-> snap.last]
  BY <1>2 DEF Recorded
<1>4. log' = log /\ replay' = replay
  BY DEF logVars
<1>5. /\ applied \in [Server -> Nat] /\ \A t \in Server : applied[t] <= Len(log)
      /\ kvMap \in [Server -> MapType] /\ lastCommittedCommandCount \in [Server -> TableType]
  BY DEF TypeOK, ServerTypes
<1>6. /\ applied'[s] = snap.index /\ kvMap'[s] = snap.kvMap
      /\ lastCommittedCommandCount'[s] = snap.last
  BY <1>2, <1>5
<1>7. \A t \in Server \ {s} : /\ applied'[t] = applied[t] /\ kvMap'[t] = kvMap[t]
                             /\ lastCommittedCommandCount'[t] = lastCommittedCommandCount[t]
  BY <1>5
<1>8. ReplicasAgree'
  BY <1>3, <1>4, <1>6, <1>7 DEF KVInv, ReplicasAgree
<1>9. /\ applied' \in [Server -> Nat] /\ kvMap' \in [Server -> MapType]
      /\ lastCommittedCommandCount' \in [Server -> TableType]
  BY <1>1, <1>2, <1>5
<1>10. \A t \in Server : applied'[t] <= Len(log')
  BY <1>1, <1>4, <1>5, <1>6, <1>7
<1> QED
  BY <1>8, <1>9, <1>10

\* A snapshot is read instead of a command, early or late.
LEMMA InvInstall ==
    ASSUME TypeOK, KVInv, NEW s \in Server, NEW snap \in taken, InstallSnapshot(s, snap)
    PROVE  TypeOK' /\ KVInv'
<1>1. /\ snapshot' = [snapshot EXCEPT ![s] = snap]
      /\ applied' = [applied EXCEPT ![s] = snap.index]
      /\ kvMap' = [kvMap EXCEPT ![s] = decodeState(snap).map]
      /\ lastCommittedCommandCount' =
             [lastCommittedCommandCount EXCEPT ![s] = decodeState(snap).last]
      /\ UNCHANGED <<clerkVars, calls, logVars, saving, taken>>
  BY DEF InstallSnapshot
<1>2. snap \in SnapshotType /\ Recorded(snap)
  BY DEF TypeOK, ServerTypes, KVInv, SnapshotsTrue
<1>3. /\ ClerkTypes' /\ ReplayFollowsLog' /\ NumbersIssued'
      /\ BegunBefore' /\ LeftOversHarmless' /\ RepliesTrue'
  BY <1>1, CallsKept
<1>4. /\ ReplicasAgree'
      /\ applied' \in [Server -> Nat] /\ \A t \in Server : applied'[t] <= Len(log')
      /\ kvMap' \in [Server -> MapType]
      /\ lastCommittedCommandCount' \in [Server -> TableType]
  BY <1>1, <1>2, StateLoaded
<1>5. /\ snapshot' \in [Server -> SnapshotType]
      /\ \A t \in Server : snapshot'[t] \in {snapshot[t], snap}
  BY <1>1, <1>2 DEF TypeOK, ServerTypes
<1>6. \A t \in Server : Recorded(snapshot'[t])
  BY <1>2, <1>5 DEF KVInv, SnapshotsTrue
<1>7. SnapshotsTrue'
  BY <1>1, <1>6 DEF KVInv, SnapshotsTrue, Recorded, decodeState, logVars
<1>8. ServerTypes'
  BY <1>1, <1>4, <1>5 DEF TypeOK, ServerTypes, logVars
<1> QED
  BY <1>3, <1>4, <1>7, <1>8 DEF TypeOK, KVInv

\* A server restarts from its snapshot; the calls it held are made again.
LEMMA InvRestart ==
    ASSUME TypeOK, KVInv, NEW s \in Server, Restart(s)
    PROVE  TypeOK' /\ KVInv'
<1> DEFINE cut == {p \in calls : p.srv = s /\ p.at = "polling"}
<1>0. PICK snap : snap = snapshot[s]
  OBVIOUS
<1>1. /\ applied' = [applied EXCEPT ![s] = snap.index]
      /\ kvMap' = [kvMap EXCEPT ![s] = decodeState(snap).map]
      /\ lastCommittedCommandCount' =
             [lastCommittedCommandCount EXCEPT ![s] = decodeState(snap).last]
      /\ saving' = [saving EXCEPT ![s] = Nil]
      /\ calls' = (calls \ cut) \cup {Call(p.cmd, s, "sent", Nil) : p \in {q \in cut : open(q)}}
      /\ UNCHANGED <<clerkVars, logVars, snapshot, taken>>
  BY <1>0 DEF Restart
<1>2. snap \in SnapshotType /\ Recorded(snap)
  BY <1>0 DEF TypeOK, ServerTypes, KVInv, SnapshotsTrue
<1>3. \A q \in calls' :
          q \in calls \/ \E p \in calls : open(p) /\ q = Call(p.cmd, p.srv, "sent", Nil)
  BY <1>1
<1>4. /\ ClerkTypes' /\ ReplayFollowsLog' /\ NumbersIssued'
      /\ BegunBefore' /\ LeftOversHarmless' /\ RepliesTrue'
  BY <1>1, <1>3, CallsKept
<1>5. /\ ReplicasAgree'
      /\ applied' \in [Server -> Nat] /\ \A t \in Server : applied'[t] <= Len(log')
      /\ kvMap' \in [Server -> MapType]
      /\ lastCommittedCommandCount' \in [Server -> TableType]
  BY <1>1, <1>2, StateLoaded
<1>6. /\ saving' \in [Server -> SnapshotType \cup {Nil}]
      /\ \A t \in Server : saving'[t] \in {saving[t], Nil}
  BY <1>1 DEF TypeOK, ServerTypes
<1>7. SnapshotsTrue'
  BY <1>1, <1>6 DEF KVInv, SnapshotsTrue, Recorded, decodeState, logVars
<1>8. ServerTypes'
  BY <1>1, <1>5, <1>6 DEF TypeOK, ServerTypes, logVars
<1> QED
  BY <1>4, <1>5, <1>7, <1>8 DEF TypeOK, KVInv

-----------------------------------------------------------------------------
LEMMA InvInit == Init => TypeOK /\ KVInv
<1> SUFFICES ASSUME Init PROVE TypeOK /\ KVInv
  OBVIOUS
<1>1. MaxCommand \in [Clerk -> Nat]
  BY KVConstants
<1>2. emptyMap \in MapType
  BY DEF emptyMap, MapType
<1>3. noCommand \in TableType
  BY <1>1 DEF noCommand, TableType
<1>4. [map |-> emptyMap, last |-> noCommand] \in StateType
  BY <1>2, <1>3 DEF StateType
<1>5. Snapshot(0, emptyMap, noCommand) \in SnapshotType
  BY <1>2, <1>3 DEF Snapshot, SnapshotType
<1>6. ClerkTypes
  BY <1>1 DEF Init, ClerkTypes
<1>7. log = <<>> /\ replay = <<[map |-> emptyMap, last |-> noCommand]>>
  BY DEF Init
<1>8. /\ log \in Seq(CommandType) /\ Len(log) = 0 /\ DOMAIN log = {}
      /\ replay \in Seq(StateType) /\ Len(replay) = 1 /\ DOMAIN replay = {1}
      /\ replay[1] = [map |-> emptyMap, last |-> noCommand]
  BY <1>4, <1>7
<1>9. ServerTypes
  BY <1>2, <1>3, <1>5, <1>8 DEF Init, ServerTypes, StateType
<1>10. \A c \in Clerk : replay[1].last[c] = -1
  BY <1>8 DEF noCommand
<1>11. ReplayFollowsLog
  BY <1>8, <1>10 DEF ReplayFollowsLog
<1>12. ReplicasAgree
  BY <1>8 DEF Init, ReplicasAgree
<1>13. NumbersIssued
  BY <1>8, <1>10 DEF Init, NumbersIssued
<1>14. SnapshotsTrue
  BY <1>8 DEF Init, SnapshotsTrue, Recorded, Snapshot, decodeState
<1>15. BegunBefore /\ LeftOversHarmless /\ RepliesTrue
  BY DEF Init, BegunBefore, LeftOversHarmless, RepliesTrue
<1> QED
  BY <1>6, <1>9, <1>11, <1>12, <1>13, <1>14, <1>15 DEF TypeOK, KVInv

LEMMA InvNext ==
    ASSUME TypeOK, KVInv, [Next]_vars
    PROVE  TypeOK' /\ KVInv'
<1>1. CASE ClerkStep
  BY <1>1, InvBegin, InvDone, InvHandler DEF ClerkStep
<1>2. CASE HandlerStep
  BY <1>2, InvHandler DEF HandlerStep
<1>3. CASE ServerStep
  BY <1>3, InvApply, InvSave, InvRestart, InvInstall DEF ServerStep
<1>4. CASE UNCHANGED vars
  <2>1. UNCHANGED <<clerkVars, logVars, serverVars, diskVars>> /\ calls' = calls
    BY <1>4 DEF vars
  <2>2. /\ ClerkTypes' /\ ReplayFollowsLog' /\ NumbersIssued'
        /\ BegunBefore' /\ LeftOversHarmless' /\ RepliesTrue'
    BY <2>1, CallsKept
  <2>3. ServerTypes' /\ ReplicasAgree' /\ SnapshotsTrue'
    BY <2>1, LogUnchanged, ServersKept DEF KVInv
  <2> QED
    BY <2>2, <2>3 DEF TypeOK, KVInv
<1> QED
  BY <1>1, <1>2, <1>3, <1>4 DEF Next

\* The invariant that links the log to the servers and to the calls in flight
\* holds in every state of the service: each server's state is the log's, and
\* what was executed, replied and saved agrees with it.
THEOREM KVInvariant == Spec => [](TypeOK /\ KVInv)
BY InvInit, InvNext, PTL DEF Spec

\* Every field keeps its type and no server is ahead of the log.
THEOREM KVTypeCorrect == Spec => []TypeOK
BY KVInvariant, PTL

\* Every server holds what executing a prefix of the log once makes, after
\* duplicates, crashes and late snapshots (checkApplyCommand, isCommitted).
THEOREM ReplicasAgreeAlways == Spec => []ReplicasAgree
<1>1. KVInv => ReplicasAgree
  BY DEF KVInv
<1> QED
  BY <1>1, KVInvariant, PTL

-----------------------------------------------------------------------------
(* The refinement: the log is the history of one store.                    *)

\* What a clerk waits for, as KVStore records it.
PendingOf(cmd, at, done) == [op |-> cmd.op, since |-> at + 1, done |-> done]

LEMMA PendingFacts ==
    ASSUME TypeOK, KVInv
    PROVE  /\ storePending \in [Clerk -> [op : Op, since : Nat, done : BOOLEAN] \cup {Nil}]
           /\ \A c \in Clerk : current[c] = Nil => storePending[c] = Nil
           /\ \A c \in Clerk : current[c] # Nil =>
                  /\ storePending[c] = PendingOf(current[c], since[c], TookEffect(current[c]))
                  /\ storePending[c] # Nil
<1>1. ASSUME NEW c \in Clerk, current[c] # Nil
      PROVE  /\ current[c] \in CommandType /\ current[c].clerk = c
             /\ current[c].op \in Op /\ since[c] + 1 \in Nat
    BY <1>1 DEF TypeOK, ClerkTypes, CommandType, KVInv, BegunBefore
<1>2. ASSUME NEW c \in Clerk, current[c] # Nil
      PROVE  storePending[c] = PendingOf(current[c], since[c], TookEffect(current[c]))
    BY <1>1, <1>2 DEF storePending, PendingOf, TookEffect
<1>3. ASSUME NEW c \in Clerk, current[c] # Nil
      PROVE  storePending[c] \in [op : Op, since : Nat, done : BOOLEAN]
  <2>1. current[c].op \in Op /\ since[c] + 1 \in Nat
    BY <1>1, <1>3
  <2>2. TookEffect(current[c]) = TRUE \/ TookEffect(current[c]) = FALSE
    BY DEF TookEffect
  <2>3. \/ storePending[c] = [op |-> current[c].op, since |-> since[c] + 1, done |-> TRUE]
        \/ storePending[c] = [op |-> current[c].op, since |-> since[c] + 1, done |-> FALSE]
    BY <1>2, <1>3, <2>2, Zenon DEF PendingOf
  <2>4. /\ [op |-> current[c].op, since |-> since[c] + 1, done |-> TRUE]
                \in [op : Op, since : Nat, done : BOOLEAN]
        /\ [op |-> current[c].op, since |-> since[c] + 1, done |-> FALSE]
                \in [op : Op, since : Nat, done : BOOLEAN]
    BY <2>1
  <2> QED
    BY <2>3, <2>4, Zenon
<1>4. \A c \in Clerk : current[c] = Nil => storePending[c] = Nil
  BY DEF storePending
<1>5. storePending \in [Clerk -> [op : Op, since : Nat, done : BOOLEAN] \cup {Nil}]
  <2>1. storePending = [c \in Clerk |-> storePending[c]]
    BY DEF storePending
  <2> QED
    BY <1>3, <1>4, <2>1
<1> QED
  BY <1>2, <1>3, <1>4, <1>5, NoPendingAssumption

LEMMA HistoryFacts ==
    ASSUME TypeOK, KVInv
    PROVE  /\ Len(replay) \in Nat /\ DOMAIN storeHistory = 1..Len(replay)
           /\ Len(storeHistory) = Len(replay)
           /\ \A n \in 1..Len(replay) : storeHistory[n] = replay[n].map
           /\ storeHistory \in Seq(MapType)
<1>1. Len(replay) \in Nat /\ DOMAIN replay = 1..Len(replay)
  BY ReplayFacts DEF KVInv
<1>2. \A n \in 1..Len(replay) : replay[n].map \in MapType
  BY <1>1, ReplayFacts DEF KVInv, StateType
<1>3. storeHistory = [n \in 1..Len(replay) |-> replay[n].map]
  BY <1>1 DEF storeHistory
<1>4. storeHistory \in [1..Len(replay) -> MapType]
  BY <1>2, <1>3
<1>5. storeHistory \in Seq(MapType) /\ Len(storeHistory) = Len(replay)
  BY <1>1, <1>4
<1> QED
  BY <1>1, <1>3, <1>5

\* A fresh service is an empty store.
LEMMA RefineInit == Init => Store!StoreInit
<1> SUFFICES ASSUME Init PROVE Store!StoreInit
  OBVIOUS
<1>1. replay = <<[map |-> emptyMap, last |-> noCommand]>>
  BY DEF Init
<1>2. DOMAIN replay = 1..1 /\ replay[1].map = emptyMap
  BY <1>1
<1>3. storeHistory = [n \in 1..1 |-> emptyMap]
  BY <1>2 DEF storeHistory
<1>4. storeHistory = <<emptyMap>>
  BY <1>3
<1>5. storePending = [c \in Clerk |-> Nil]
  BY DEF Init, storePending
<1> QED
  BY <1>4, <1>5 DEF Init, Store!StoreInit, Store!emptyMap, emptyMap

\* Steps of servers and of the network leave the store alone.
LEMMA RefineStutter ==
    ASSUME UNCHANGED <<clerkVars, logVars>>
    PROVE  UNCHANGED Store!storeVars
<1>1. storeHistory' = storeHistory
  BY DEF storeHistory, logVars
<1>2. storePending' = storePending
  BY DEF storePending, clerkVars, logVars
<1> QED
  BY <1>1, <1>2 DEF Store!storeVars, clerkVars

\* A clerk's call is the store's.
LEMMA RefineBegin ==
    ASSUME TypeOK, KVInv, TypeOK', KVInv', NEW c \in Clerk, NEW op \in Op, Begin(c, op)
    PROVE  Store!Invoke(c)
<1> DEFINE cmd == Command(c, nextCommandId[c], op)
<1>1. /\ current[c] = Nil
      /\ current' = [current EXCEPT ![c] = cmd]
      /\ since' = [since EXCEPT ![c] = Len(log)]
      /\ UNCHANGED <<result, logVars>>
  BY DEF Begin, getCurrentId
<1>2. /\ cmd.op = op /\ cmd.id = nextCommandId[c] /\ cmd.clerk = c
      /\ cmd \in [clerk : Clerk, id : Nat, op : Op]
  BY DEF Command, TypeOK, ClerkTypes
<1>3. cmd # Nil
  BY <1>2, NoCommandAssumption
<1> HIDE DEF cmd
<1>4. replay' = replay /\ log' = log /\ result' = result
  BY <1>1 DEF logVars
<1>5. current'[c] = cmd /\ since'[c] = Len(log)
      /\ \A d \in Clerk \ {c} : current'[d] = current[d] /\ since'[d] = since[d]
  BY <1>1 DEF TypeOK, ClerkTypes
<1>6. (replay[Len(replay)].last[c] >= nextCommandId[c]) = FALSE
  <2>1. replay[Len(replay)].last[c] < nextCommandId[c]
    BY DEF KVInv, NumbersIssued
  <2>2. replay[Len(replay)].last[c] \in Int /\ nextCommandId[c] \in Int
    BY ReplayFacts DEF KVInv, TypeOK, ClerkTypes
  <2> QED
    BY <2>1, <2>2
<1>7. Len(log) + 1 = Len(storeHistory)
  BY HistoryFacts, ReplayFacts DEF KVInv
<1>8. storePending' = [storePending EXCEPT ![c] =
          [op |-> op, since |-> Len(storeHistory), done |-> FALSE]]
  <2>1. storePending'[c] = [op |-> op, since |-> Len(storeHistory), done |-> FALSE]
    BY <1>2, <1>3, <1>4, <1>5, <1>6, <1>7 DEF storePending
  <2>2. \A d \in Clerk \ {c} : storePending'[d] = storePending[d]
    BY <1>4, <1>5 DEF storePending
  <2>3. /\ storePending = [d \in Clerk |-> storePending[d]]
        /\ storePending' = [d \in Clerk |-> storePending'[d]]
    BY DEF storePending
  <2> QED
    BY <2>1, <2>2, <2>3
<1>9. storePending[c] = Nil
  BY <1>1, PendingFacts
<1>10. storeHistory' = storeHistory
  BY <1>4 DEF storeHistory
<1> QED
  BY <1>4, <1>8, <1>9, <1>10 DEF Store!Invoke

\* A clerk returns: its operation took effect, and a Get returns a value its
\* key had meanwhile.
LEMMA RefineDone ==
    ASSUME TypeOK, KVInv, TypeOK', KVInv', NEW p \in calls, Done(p)
    PROVE  Store!Return(p.cmd.clerk)
<1>0. PICK c \in Clerk : c = p.cmd.clerk
  BY DEF TypeOK, ClerkTypes, CommandType
<1>1. /\ p.at = "replied"
      /\ current' = [current EXCEPT ![c] = Nil]
      /\ result' = [result EXCEPT ![c] = p.value]
      /\ UNCHANGED <<nextCommandId, since, logVars>>
  BY <1>0 DEF Done
<1>2. p.cmd \in CommandType /\ ReplyTrue(p) /\ open(p)
  BY <1>1 DEF TypeOK, ClerkTypes, KVInv, RepliesTrue, LeftOversHarmless
<1>3. current[c] = p.cmd /\ current[c] # Nil
  BY <1>0, <1>2, NoCommandAssumption DEF open, CommandType
<1>4. /\ storePending[c] = PendingOf(p.cmd, since[c], TookEffect(p.cmd))
      /\ storePending[c] # Nil
  BY <1>3, PendingFacts
<1>5. TookEffect(p.cmd)
  BY <1>2 DEF ReplyTrue
<1>6. /\ storePending[c].op = p.cmd.op /\ storePending[c].since = since[c] + 1
      /\ storePending[c].done
  BY <1>4, <1>5 DEF PendingOf
<1>7. replay' = replay /\ since' = since
  BY <1>1 DEF logVars
<1>8. /\ current'[c] = Nil /\ \A d \in Clerk \ {c} : current'[d] = current[d]
  BY <1>1 DEF TypeOK, ClerkTypes
<1>9. storePending' = [storePending EXCEPT ![c] = Nil]
  <2>1. storePending'[c] = Nil
    BY <1>8 DEF storePending
  <2>2. \A d \in Clerk \ {c} : storePending'[d] = storePending[d]
    BY <1>7, <1>8 DEF storePending
  <2>3. /\ storePending = [d \in Clerk |-> storePending[d]]
        /\ storePending' = [d \in Clerk |-> storePending'[d]]
    BY DEF storePending
  <2> QED
    BY <2>1, <2>2, <2>3
<1>10. storeHistory' = storeHistory
  BY <1>7 DEF storeHistory
<1>11. CASE p.cmd.op.type = "Get"
  <2>1. PICK n \in DOMAIN replay : since[c] < n /\ p.value = replay[n].map[p.cmd.op.key]
    BY <1>0, <1>2, <1>11 DEF ReplyTrue
  <2>2. since[c] \in Nat /\ Len(replay) \in Nat /\ DOMAIN replay = 1..Len(replay)
    BY ReplayFacts DEF KVInv, TypeOK, ClerkTypes
  <2>3. n \in (since[c] + 1)..Len(storeHistory)
    BY <2>1, <2>2, HistoryFacts
  <2>4. storeHistory[n] = replay[n].map
    BY <2>2, HistoryFacts
  <2>5. result' = [result EXCEPT ![c] = storeHistory[n][p.cmd.op.key]]
    BY <1>1, <2>1, <2>4
  <2>6. \E k \in storePending[c].since .. Len(storeHistory) :
            result' = [result EXCEPT ![c] = storeHistory[k][storePending[c].op.key]]
    BY <1>6, <2>3, <2>5
  <2>7. storePending[c].op.type = "Get"
    BY <1>6, <1>11
  <2>8. Store!Return(c)
    BY <1>4, <1>6, <1>9, <1>10, <2>6, <2>7 DEF Store!Return
  <2> QED
    BY <1>0, <2>8
<1>12. CASE p.cmd.op.type # "Get"
  <2>1. p.value = Nil
    BY <1>2, <1>12 DEF ReplyTrue
  <2>2. result' = [result EXCEPT ![c] = Nil]
    BY <1>1, <2>1
  <2>3. storePending[c].op.type # "Get"
    BY <1>6, <1>12
  <2>4. Store!Return(c)
    BY <1>4, <1>6, <1>9, <1>10, <2>2, <2>3 DEF Store!Return
  <2> QED
    BY <1>0, <2>4
<1> QED
  BY <1>11, <1>12

\* A command enters the log: it takes effect, or it is a copy and time passes.
LEMMA RefineSubmit ==
    ASSUME TypeOK, KVInv, TypeOK', KVInv', NEW p \in calls, Submit(p)
    PROVE  Store!Pass \/ Store!TakeEffect(p.cmd.clerk) \/ UNCHANGED Store!storeVars
<1> DEFINE c == p.cmd.clerk
           last == replay[Len(replay)]
<1>1. UNCHANGED clerkVars
  BY DEF Submit
<1>2. CASE UNCHANGED logVars
  BY <1>1, <1>2, RefineStutter
<1>3. CASE log' = Append(log, p.cmd) /\ replay' = Append(replay, once(last, p.cmd))
  <2>0. /\ p.cmd \in CommandType /\ c \in Clerk /\ p.cmd.id \in Nat
    BY DEF TypeOK, ClerkTypes, CommandType
  <2>1. /\ Len(replay) \in Nat /\ Len(replay) >= 1 /\ DOMAIN replay = 1..Len(replay)
        /\ last \in StateType /\ \A d \in Clerk : last.last[d] \in Int
    BY ReplayFacts DEF KVInv
  <2>2. once(last, p.cmd) \in StateType
    BY <2>0, <2>1, OnceTyped
  <2>3. replay \in Seq(StateType)
    BY DEF TypeOK, ServerTypes, StateType
  <2> HIDE DEF last
  <2>4. /\ Len(replay') = Len(replay) + 1
        /\ \A n \in 1..Len(replay) : replay'[n] = replay[n]
        /\ replay'[Len(replay) + 1] = once(last, p.cmd)
    BY <1>3, <2>1, <2>2, <2>3
  <2>5. storeHistory' = Append(storeHistory, once(last, p.cmd).map)
    <3> DEFINE h == Append(storeHistory, once(last, p.cmd).map)
               L == Len(replay)
    <3>1. /\ storeHistory \in Seq(MapType) /\ Len(storeHistory) = L
          /\ \A n \in 1..L : storeHistory[n] = replay[n].map
      BY HistoryFacts
    <3>2. /\ storeHistory' \in Seq(MapType) /\ Len(storeHistory') = L + 1
          /\ \A n \in 1..(L + 1) : storeHistory'[n] = replay'[n].map
      <4>1. DOMAIN replay' = 1..(L + 1) /\ L + 1 \in Nat
        BY <1>3, <2>1, <2>2, <2>3
      <4>2. replay' \in Seq(StateType)
        BY DEF TypeOK, ServerTypes, StateType
      <4>3. storeHistory' = [n \in 1..(L + 1) |-> replay'[n].map]
        BY <4>1 DEF storeHistory
      <4>a. \A n \in 1..(L + 1) : replay'[n] \in StateType
        BY <4>1, <4>2
      <4>4. \A n \in 1..(L + 1) : replay'[n].map \in MapType
        BY <4>a DEF StateType
      <4>5. storeHistory' \in [1..(L + 1) -> MapType]
        BY <4>3, <4>4
      <4> QED
        BY <4>1, <4>3, <4>5
    <3>3. once(last, p.cmd).map \in MapType
      BY <2>2 DEF StateType
    <3>4. /\ h \in Seq(MapType) /\ Len(h) = L + 1
          /\ \A n \in 1..L : h[n] = storeHistory[n]
          /\ h[L + 1] = once(last, p.cmd).map
      BY <2>1, <3>1, <3>3
    <3> HIDE DEF h
    <3>5. \A n \in 1..(L + 1) : h[n] = storeHistory'[n]
      BY <2>1, <2>4, <3>1, <3>2, <3>4
    <3>6. h = storeHistory'
      BY <2>1, <3>2, <3>4, <3>5, SeqEqual
    <3> QED
      BY <3>6 DEF h
  <2>6. storeHistory[Len(storeHistory)] = last.map
    BY <2>1, HistoryFacts DEF last
  <2>7. result' = result /\ current' = current /\ since' = since
    BY <1>1 DEF clerkVars
  <2>8. CASE last.last[c] >= p.cmd.id
    <3>1. once(last, p.cmd) = last
      BY <2>8 DEF once
    <3>2. storePending' = storePending
      BY <2>1, <2>4, <2>7, <3>1 DEF storePending, last
    <3> QED
      BY <2>5, <2>6, <2>7, <3>1, <3>2 DEF Store!Pass
  <2>9. CASE ~(last.last[c] >= p.cmd.id)
    <3>1. /\ once(last, p.cmd).map = execute(last.map, p.cmd.op)
          /\ once(last, p.cmd).last = [last.last EXCEPT ![c] = p.cmd.id]
      BY <2>9 DEF once
    <3>2. open(p)
      BY <2>9 DEF KVInv, LeftOversHarmless, TookEffect, last
    <3>3. current[c] = p.cmd /\ current[c] # Nil
      BY <2>0, <3>2, NoCommandAssumption DEF open, CommandType
    <3>4. /\ storePending[c] = PendingOf(p.cmd, since[c], FALSE)
          /\ storePending[c] # Nil
      <4>1. TookEffect(p.cmd) = FALSE
        BY <2>9 DEF TookEffect, last
      <4> QED
        BY <2>0, <3>3, <4>1, PendingFacts
    <3>5. storePending[c].op = p.cmd.op /\ ~storePending[c].done
      BY <3>4 DEF PendingOf
    <3>6. storePending' = [storePending EXCEPT ![c].done = TRUE]
      <4>0. last.last \in [Clerk -> Int]
        BY <2>1 DEF StateType, TableType
      <4>1. /\ replay'[Len(replay')].last[c] = p.cmd.id
            /\ \A d \in Clerk \ {c} : replay'[Len(replay')].last[d] = last.last[d]
        BY <2>0, <2>4, <3>1, <4>0
      <4>a. (replay'[Len(replay')].last[c] >= p.cmd.id) = TRUE
        BY <2>0, <4>1
      <4>2. storePending'[c] = PendingOf(p.cmd, since[c], TRUE)
        BY <2>0, <2>7, <3>3, <4>a DEF storePending, PendingOf
      <4>3. \A d \in Clerk \ {c} : storePending'[d] = storePending[d]
        BY <2>7, <4>1 DEF storePending, last
      <4>4. /\ storePending = [d \in Clerk |-> storePending[d]]
            /\ storePending' = [d \in Clerk |-> storePending'[d]]
        BY DEF storePending
      <4>5. [storePending[c] EXCEPT !.done = TRUE] = PendingOf(p.cmd, since[c], TRUE)
        <5>1. PICK o, n, b, d : o = p.cmd.op /\ n = since[c] + 1 /\ b = FALSE /\ d = TRUE
          OBVIOUS
        <5>2. storePending[c] = [op |-> o, since |-> n, done |-> b]
          BY <3>4, <5>1, Zenon DEF PendingOf
        <5>3. [storePending[c] EXCEPT !.done = d] = [op |-> o, since |-> n, done |-> d]
          BY <5>2
        <5> QED
          BY <5>1, <5>3, Zenon DEF PendingOf
      <4> QED
        BY <2>0, <4>2, <4>3, <4>4, <4>5
    <3>7. storeHistory' = Append(storeHistory,
              Store!step(storeHistory[Len(storeHistory)], storePending[c].op))
      BY <2>5, <2>6, <3>1, <3>5 DEF execute, Store!step
    <3> QED
      BY <2>7, <3>4, <3>5, <3>6, <3>7 DEF Store!TakeEffect
  <2> QED
    BY <2>8, <2>9
<1> QED
  BY <1>2, <1>3 DEF Submit, Start

\* Every step is a step of the store or changes nothing in it.
LEMMA RefineNext ==
    ASSUME TypeOK, KVInv, TypeOK', KVInv', [Next]_vars
    PROVE  [Store!StoreNext]_(Store!storeVars)
<1>0. \A p \in calls : p.cmd.clerk \in Clerk
  BY DEF TypeOK, ClerkTypes, CommandType
<1>1. CASE \E c \in Clerk, op \in Op : Begin(c, op)
  BY <1>1, RefineBegin DEF Store!StoreNext
<1>2. CASE \E p \in calls : Done(p)
  BY <1>0, <1>2, RefineDone DEF Store!StoreNext
<1>3. CASE \E p \in calls : Submit(p)
  BY <1>0, <1>3, RefineSubmit DEF Store!StoreNext
<1>4. CASE \E p \in calls : CallFails(p) \/ WrongLeader(p) \/ Poll(p) \/ TimeOut(p)
  <2>1. UNCHANGED <<clerkVars, logVars>>
    BY <1>4 DEF CallFails, WrongLeader, Poll, TimeOut
  <2> QED
    BY <2>1, RefineStutter
<1>5. CASE ServerStep
  <2>1. UNCHANGED <<clerkVars, logVars>>
    BY <1>5 DEF ServerStep, checkApplyCommand, SaveSnapshot, Restart, InstallSnapshot
  <2> QED
    BY <2>1, RefineStutter
<1>6. CASE UNCHANGED vars
  BY <1>6, RefineStutter DEF vars
<1> QED
  BY <1>1, <1>2, <1>3, <1>4, <1>5, <1>6 DEF Next, ClerkStep, HandlerStep

\* Linearizability: whatever is lost, repeated, reordered, restarted or restored
\* from a snapshot, the clerks see one map on which every command takes effect
\* once, between its call and its return.
THEOREM ImplementsStore == Spec => Linearizable
<1>1. Init => Store!StoreInit
  BY RefineInit
<1>2. (TypeOK /\ KVInv) /\ (TypeOK /\ KVInv)' /\ [Next]_vars => [Store!StoreNext]_(Store!storeVars)
  BY RefineNext
<1> QED
  BY <1>1, <1>2, KVInvariant, PTL DEF Spec, Linearizable, Store!StoreSpec

=============================================================================
