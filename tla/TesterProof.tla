---------------------------- MODULE TesterProof ----------------------------
(***************************************************************************)
(* For every number of servers, clerks, restarts and RPCs: a positive      *)
(* reply is in the Persister the next instance starts from, and an         *)
(* instance that was shut down reaches nobody.                             *)
(***************************************************************************)
EXTENDS TesterInv, TLAPS

USE NetworkAssumption

\* What the invariant says of the ends and instances an RPC refers to.
LEMMA CallFacts ==
    ASSUME TesterInv, NEW c \in Call
    PROVE  /\ call[c] \in CallType
           /\ call[c].phase # "unsent" =>
                 /\ call[c].end \in ends /\ call[c].end \in End
                 /\ call[c].end.dst \in Server /\ call[c].end.gen \in Nat
                 /\ connections[call[c].end] = call[c].end.dst
           /\ call[c].server # Nil =>
                 /\ call[c].phase # "unsent"
                 /\ call[c].server \in Instance
                 /\ call[c].server.gen \in Nat
                 /\ call[c].server.server = call[c].end.dst
<1>1. call[c] \in CallType
  BY DEF TesterInv, TypeOK, NetworkTypeOK
<1>2. call[c].phase # "unsent" => call[c].end \in ends
  BY DEF TesterInv, HoldsInv
<1>3. ends \subseteq End
  BY DEF TesterInv, TypeOK, NetworkTypeOK
<1>4. \A e \in End : e.dst \in Server /\ e.gen \in Nat
  BY DEF End
<1>5. \A e \in ends : connections[e] = e.dst
  BY DEF TesterInv, EndsInv
<1>6. call[c].server # Nil => /\ call[c].server \in Instance
                              /\ call[c].server.gen \in Nat
  BY <1>1 DEF CallType, Instance
<1>7. call[c].server # Nil => /\ call[c].phase # "unsent"
                              /\ call[c].server.server = call[c].end.dst
  BY DEF TesterInv, HoldsInv
<1> QED
  BY <1>1, <1>2, <1>3, <1>4, <1>5, <1>6, <1>7

\* How often a server was started is a number.
LEMMA GenFacts ==
    ASSUME TesterInv, NEW i \in Server
    PROVE  gen[i] \in Nat /\ gen[i] <= MaxGen
BY DEF TesterInv, TypeOK

\* The tester's first state.
LEMMA InitInv == Init => TesterInv
<1> SUFFICES ASSUME Init PROVE TesterInv
  OBVIOUS
<1> USE DEF Init, MakeNetwork
<1>1. TypeOK
  <2>1. Unsent \in CallType
    BY DEF Unsent, CallType, Phase
  <2>2. NetworkTypeOK
    BY <2>1 DEF NetworkTypeOK
  <2>3. gen \in [Server -> 0 .. MaxGen]
    OBVIOUS
  <2>4. tester \in [op : Op, server : Server \cup {Nil}]
    BY DEF Op
  <2> QED
    BY <2>2, <2>3, <2>4 DEF TypeOK
<1>2. ServersInv
  BY DEF ServersInv
<1>3. EndsInv
  BY DEF EndsInv
<1>4. ASSUME NEW c \in Call PROVE HoldsInv(c) /\ SavedInv(c) /\ LateInv(c)
  BY DEF HoldsInv, SavedInv, LateInv, Unsent
<1> QED
  BY <1>1, <1>2, <1>3, <1>4 DEF TesterInv

-----------------------------------------------------------------------------
(* The tester's operations: the calls do not change.                       *)

\* ShutdownServer's disconnectUnlocked: no end of i stays enabled.
LEMMA IsolateStep ==
    ASSUME TesterInv, NEW i \in Server, Isolate(i)
    PROVE  TesterInv'
<1> USE DEF TesterInv, Isolate
<1>1. TypeOK'
  BY DEF TypeOK, NetworkTypeOK, Enable, Op
<1>2. ServersInv'
  BY DEF ServersInv, Current
<1>3. EndsInv'
  <2>1. ASSUME NEW e \in End, enabled'[e], e.src \in Server
        PROVE  e.src # i /\ enabled[e]
    <3>1. enabled[e] /\ e \notin Between({i}, Server)
      BY <2>1 DEF Enable, TypeOK, NetworkTypeOK
    <3>2. e.gen = gen[e.src] /\ e.dst \in Server
      BY <2>1, <3>1 DEF EndsInv, End
    <3>3. e = [src |-> e.src, gen |-> gen[e.src], dst |-> e.dst]
      BY <3>2 DEF End
    <3> QED
      BY <3>1, <3>2, <3>3 DEF Between, endname
  <2> QED
    BY <2>1 DEF EndsInv
<1>4. ASSUME NEW c \in Call PROVE HoldsInv(c)' /\ SavedInv(c)' /\ LateInv(c)'
  <2>1. HoldsInv(c)'
    BY DEF HoldsInv
  <2>2. SavedInv(c)'
    BY DEF SavedInv
  <2>3. LateInv(c)'
    BY DEF LateInv, Isolated
  <2> QED
    BY <2>1, <2>2, <2>3
<1> QED
  BY <1>1, <1>2, <1>3, <1>4

\* ShutdownServer's DeleteServer: fewer instances are registered.
LEMMA DeleteStep ==
    ASSUME TesterInv, NEW i \in Server, Delete(i)
    PROVE  TesterInv'
<1> USE DEF TesterInv, Delete, DeleteServer
<1>1. TypeOK'
  BY DEF TypeOK, NetworkTypeOK, Op
<1>2. ServersInv'
  BY DEF ServersInv, Current, TypeOK, NetworkTypeOK
<1>3. EndsInv'
  BY DEF EndsInv
<1>4. ASSUME NEW c \in Call PROVE HoldsInv(c)' /\ SavedInv(c)' /\ LateInv(c)'
  <2>1. HoldsInv(c)'
    BY DEF HoldsInv
  <2>2. SavedInv(c)'
    <3>1. call[c].handler # "none" => call[c].server # Nil
      BY DEF HoldsInv
    <3>2. servers' = [servers EXCEPT ![i] = Nil] /\ servers \in [Server -> Instance \cup {Nil}]
      BY DEF TypeOK, NetworkTypeOK
    <3>3. call[c].handler = "finished" /\ servers'[call[c].end.dst] = call[c].server
              => servers[call[c].end.dst] = call[c].server
      BY <3>1, <3>2, CallFacts
    <3> QED
      BY <3>3 DEF SavedInv
  <2>3. LateInv(c)'
    BY DEF LateInv, Isolated
  <2> QED
    BY <2>1, <2>2, <2>3
<1> QED
  BY <1>1, <1>2, <1>3, <1>4

\* ShutdownServer's copy of the Persister: its instance is not registered.
LEMMA SupersedeStep ==
    ASSUME TesterInv, NEW i \in Server, Supersede(i)
    PROVE  TesterInv'
<1> USE DEF TesterInv, Supersede, netVars, netState
<1>1. TypeOK'
  BY DEF TypeOK, NetworkTypeOK, Op
<1>2. ServersInv'
  BY DEF ServersInv, Current, TypeOK
<1>3. EndsInv'
  BY DEF EndsInv
<1>4. ASSUME NEW c \in Call PROVE HoldsInv(c)' /\ SavedInv(c)' /\ LateInv(c)'
  <2>1. HoldsInv(c)'
    BY DEF HoldsInv
  <2>2. SavedInv(c)'
    BY DEF SavedInv
  <2>3. LateInv(c)'
    BY DEF LateInv, Isolated
  <2> QED
    BY <2>1, <2>2, <2>3
<1> QED
  BY <1>1, <1>2, <1>3, <1>4

\* StartServer makes fresh, disabled ends and an instance newer than any held.
LEMMA StartServerStep ==
    ASSUME TesterInv, NEW i \in Server, StartServer(i)
    PROVE  TesterInv'
<1> DEFINE E == {[src |-> i, gen |-> gen[i] + 1, dst |-> j] : j \in Server}
<1> USE DEF TesterInv
<1>1. /\ tester.op = "idle" /\ i \notin up /\ gen[i] \in Nat /\ gen[i] < MaxGen
      /\ gen' = [gen EXCEPT ![i] = gen[i] + 1]
      /\ attached' = [attached EXCEPT ![i] = [server |-> i, gen |-> gen[i] + 1]]
      /\ tester' = [op |-> "starting", server |-> i]
      /\ UNCHANGED <<servers, reliable, done, listening, call>>
      /\ UNCHANGED <<configured, up, clerks, saved, late>>
      /\ ends' = ends \cup E
      /\ connections' = [e \in End |-> IF e \in E THEN e.dst ELSE connections[e]]
      /\ enabled' = [e \in End |-> enabled[e] /\ e \notin E]
  <2>1. enabled' = [e \in End |-> enabled[e] /\ e \notin E]
    <3>1. enabled' = [e \in End |-> e \in {} \/ (enabled[e] /\ e \notin E)]
      BY DEF StartServer, Enable
    <3> QED
      BY <3>1
  <2>2. gen[i] \in Nat
    BY GenFacts
  <2> QED
    BY <2>1, <2>2 DEF StartServer, MakeEnds, Connect
<1>2. E \subseteq End
  BY <1>1 DEF End
<1>3. TypeOK'
  <2>1. gen' \in [Server -> 0 .. MaxGen]
    BY <1>1 DEF TypeOK
  <2>2. attached' \in [Server -> Instance \cup {Nil}]
    BY <1>1 DEF TypeOK, Instance
  <2>3. NetworkTypeOK'
    BY <1>1, <1>2 DEF TypeOK, NetworkTypeOK, End
  <2> QED
    BY <1>1, <2>1, <2>2, <2>3 DEF TypeOK, Op
<1>4. ServersInv'
  <2>1. servers[i] = Nil
    BY <1>1 DEF ServersInv
  <2>2. gen'[i] = gen[i] + 1 /\ attached'[i] = [server |-> i, gen |-> gen[i] + 1]
    BY <1>1 DEF TypeOK
  <2>3. \A k \in Server \ {i} : gen'[k] = gen[k] /\ attached'[k] = attached[k]
    BY <1>1 DEF TypeOK
  <2> QED
    BY <1>1, <2>1, <2>2, <2>3 DEF ServersInv, Current
<1>5. EndsInv'
  <2>1. \A k \in Server : gen'[k] \in Nat /\ gen[k] \in Nat /\ gen[k] <= gen'[k]
    BY <1>1, GenFacts DEF TypeOK
  <2>2. ASSUME NEW e \in ends' PROVE connections'[e] = e.dst
    BY <1>1, <1>2 DEF EndsInv, TypeOK, NetworkTypeOK
  <2>3. ASSUME NEW e \in ends', e.src \in Server PROVE e.gen <= gen'[e.src]
    <3>1. CASE e \in E
      BY <1>1, <3>1 DEF TypeOK
    <3>2. CASE e \in ends
      <4>1. e.gen \in Nat /\ e.gen <= gen[e.src]
        BY <3>2, <2>3 DEF EndsInv, TypeOK, NetworkTypeOK, End
      <4> QED
        BY <4>1, <2>1, <2>3
    <3> QED
      BY <1>1, <3>1, <3>2
  <2>4. ASSUME NEW e \in End, enabled'[e], e.src \in Server
        PROVE  e.gen = gen'[e.src] /\ e.src \in up' /\ e.src # i
    <3>1. enabled[e]
      BY <1>1, <2>4
    <3>2. e.gen = gen[e.src] /\ e.src \in up
      BY <3>1, <2>4 DEF EndsInv
    <3> QED
      BY <1>1, <3>2 DEF TypeOK
  <2> QED
    BY <1>1, <2>2, <2>3, <2>4 DEF EndsInv
<1>6. ASSUME NEW c \in Call PROVE HoldsInv(c)' /\ SavedInv(c)' /\ LateInv(c)'
  <2>1. HoldsInv(c)'
    BY <1>1 DEF HoldsInv, TypeOK, NetworkTypeOK, CallType, Instance, End
  <2>2. SavedInv(c)'
    BY <1>1 DEF SavedInv
  <2>3. LateInv(c)'
    BY <1>1 DEF LateInv, HoldsInv, EndsInv, Isolated, TypeOK, NetworkTypeOK, CallType, End
  <2> QED
    BY <2>1, <2>2, <2>3
<1> QED
  BY <1>3, <1>4, <1>5, <1>6

\* AddServer: no call in flight holds the new instance yet.
LEMMA RegisterStep ==
    ASSUME TesterInv, NEW i \in Server, Register(i)
    PROVE  TesterInv'
<1> USE DEF TesterInv
<1>1. /\ tester = [op |-> "starting", server |-> i]
      /\ servers' = [servers EXCEPT ![i] = Current(i)]
      /\ up' = up \cup {i}
      /\ tester' = [op |-> "idle", server |-> Nil]
      /\ UNCHANGED <<ends, enabled, connections, reliable, done, listening, call>>
      /\ UNCHANGED <<configured, gen, clerks, saved, attached, late>>
  BY DEF Register, AddServer
<1>2. attached[i] = Current(i) /\ gen[i] > 0 /\ gen[i] \in Nat /\ gen[i] <= MaxGen
  BY <1>1, GenFacts DEF ServersInv
<1>3. Current(i) \in Instance /\ Current(i) # Nil
  BY <1>2 DEF Current, Instance
<1>4. servers \in [Server -> Instance \cup {Nil}]
  BY DEF TypeOK, NetworkTypeOK
<1>5. TypeOK'
  BY <1>1, <1>3 DEF TypeOK, NetworkTypeOK, Op
<1>6. ServersInv'
  BY <1>1, <1>2, <1>4 DEF ServersInv, Current
<1>7. EndsInv'
  BY <1>1 DEF EndsInv
<1>8. ASSUME NEW c \in Call PROVE HoldsInv(c)' /\ SavedInv(c)' /\ LateInv(c)'
  <2>1. HoldsInv(c)'
    BY <1>1 DEF HoldsInv
  <2>2. SavedInv(c)'
    <3>1. call[c].handler # "none" => call[c].server # Nil
      BY DEF HoldsInv
    <3>2. call[c].server # Nil /\ call[c].end.dst = i => call[c].server # Current(i)
      <4>1. call[c].server # Nil /\ call[c].end.dst = i => call[c].server.gen < gen[i]
        BY <1>1 DEF HoldsInv
      <4> QED
        BY <4>1, <1>2 DEF Current
    <3>3. call[c].handler = "finished" /\ servers'[call[c].end.dst] = call[c].server
              => servers[call[c].end.dst] = call[c].server
      BY <1>1, <1>4, <3>1, <3>2, CallFacts
    <3> QED
      BY <1>1, <3>3 DEF SavedInv
  <2>3. LateInv(c)'
    BY <1>1 DEF LateInv, Isolated
  <2> QED
    BY <2>1, <2>2, <2>3
<1> QED
  BY <1>5, <1>6, <1>7, <1>8

\* Ends that are enabled while every server is up are those of running
\* instances: connecting and partitioning keep the invariant.
LEMMA ConnectStep ==
    ASSUME TesterInv, tester.op = "idle", up = Server,
           NEW A \in SUBSET Server, NEW B \in SUBSET Server, NEW off,
           Enable(Between(A, A) \cup Between(B, B), off),
           reliable' \in BOOLEAN, configured' \in BOOLEAN,
           UNCHANGED <<ends, connections, servers, done, listening, call>>,
           UNCHANGED <<gen, up, clerks, saved, attached, tester, late>>
    PROVE  TesterInv'
<1> USE DEF TesterInv
<1>1. TypeOK'
  BY DEF TypeOK, NetworkTypeOK, Enable
<1>2. ServersInv'
  BY DEF ServersInv, Current
<1>3. EndsInv'
  <2>1. ASSUME NEW e \in End, enabled'[e], e.src \in Server, ~enabled[e]
        PROVE  e.gen = gen[e.src]
    <3>1. e \in Between(A, A) \cup Between(B, B)
      BY <2>1 DEF Enable
    <3> QED
      BY <3>1 DEF Between, endname
  <2>2. \A s \in Server : /\ tester # [op |-> "disconnected", server |-> s]
                         /\ tester # [op |-> "deleted", server |-> s]
    OBVIOUS
  <2> QED
    BY <2>1, <2>2 DEF EndsInv
<1>4. ASSUME NEW c \in Call PROVE HoldsInv(c)' /\ SavedInv(c)' /\ LateInv(c)'
  BY DEF HoldsInv, SavedInv, LateInv, Isolated
<1> QED
  BY <1>1, <1>2, <1>3, <1>4

\* ConnectAll is ConnectStep for one group.
LEMMA ConnectAllStep ==
    ASSUME TesterInv, NEW unreliable \in BOOLEAN, ConnectAll(unreliable)
    PROVE  TesterInv'
<1>1. reliable' \in BOOLEAN
  BY DEF ConnectAll, Reliable, TesterInv, TypeOK, NetworkTypeOK
<1>2. Enable(Between(Server, Server) \cup Between({}, {}), {})
  <2>1. Between(Server, Server) \cup Between({}, {}) = Between(Server, Server)
    BY DEF Between
  <2> QED
    BY <2>1 DEF ConnectAll
<1> QED
  BY <1>1, <1>2, ConnectStep DEF ConnectAll

\* partition is ConnectStep for two groups.
LEMMA PartitionStep ==
    ASSUME TesterInv, NEW p1 \in SUBSET Server, partition(p1, Server \ p1)
    PROVE  TesterInv'
<1>1. Server \ p1 \in SUBSET Server
  OBVIOUS
<1>2. reliable' \in BOOLEAN /\ configured' \in BOOLEAN
  BY DEF partition, TesterInv, TypeOK, NetworkTypeOK
<1> QED
  BY <1>1, <1>2, ConnectStep DEF partition

\* The ends of clerks are no server's.
LEMMA ClientEndsStep ==
    ASSUME TesterInv, NEW ck \in Client, NEW on, NEW E, E \subseteq End,
           \A e \in on \cup E : e.src = ck,
           NEW off, Enable(on, off),
           ends' = ends \cup E,
           connections' = [e \in End |-> IF e \in E THEN e.dst ELSE connections[e]],
           clerks' \subseteq Client,
           UNCHANGED <<servers, reliable, done, listening, call>>,
           UNCHANGED <<configured, gen, up, saved, attached, tester, late>>
    PROVE  TesterInv'
<1> USE DEF TesterInv
<1>0. ck \notin Server
  OBVIOUS
<1>1. TypeOK'
  BY DEF TypeOK, NetworkTypeOK, Enable, End
<1>2. ServersInv'
  BY DEF ServersInv, Current
<1>3. EndsInv'
  <2>1. ASSUME NEW e \in End, enabled'[e], e.src \in Server
        PROVE  enabled[e]
    BY <1>0, <2>1 DEF Enable
  <2>2. ASSUME NEW e \in ends'
        PROVE  connections'[e] = e.dst /\ (e.src \in Server => e \in ends)
    BY <1>0 DEF EndsInv, TypeOK, NetworkTypeOK
  <2> QED
    BY <2>1, <2>2 DEF EndsInv
<1>4. ASSUME NEW c \in Call PROVE HoldsInv(c)' /\ SavedInv(c)' /\ LateInv(c)'
  BY DEF HoldsInv, SavedInv, LateInv, Isolated
<1> QED
  BY <1>1, <1>2, <1>3, <1>4

\* makeClient, ConnectClient and DisconnectClient work on a clerk's ends.
LEMMA ClientStep ==
    ASSUME TesterInv, NEW ck \in Client, NEW S \in SUBSET Server,
           makeClient(ck, S) \/ ConnectClient(ck, S) \/ DisconnectClient(ck, S)
    PROVE  TesterInv'
<1>1. \A T \in SUBSET Server : \A e \in {clerkEnd(ck, j) : j \in T} : e.src = ck
  BY DEF clerkEnd
<1>2. {clerkEnd(ck, j) : j \in Server} \subseteq End
  BY DEF clerkEnd, End
<1>3. clerks \subseteq Client
  BY DEF TesterInv, TypeOK
<1>4. CASE makeClient(ck, S)
  <2> DEFINE E == {clerkEnd(ck, j) : j \in Server}
             on == {clerkEnd(ck, j) : j \in S}
  <2>1. \A e \in on \cup E : e.src = ck
    BY <1>1
  <2>2. /\ Enable(on, E)
        /\ ends' = ends \cup E
        /\ connections' = [e \in End |-> IF e \in E THEN e.dst ELSE connections[e]]
        /\ clerks' \subseteq Client
        /\ UNCHANGED <<servers, reliable, done, listening, call>>
        /\ UNCHANGED <<configured, gen, up, saved, attached, tester, late>>
    BY <1>3, <1>4 DEF makeClient, MakeEnds, Connect
  <2>3. E \subseteq End
    BY <1>2
  <2> HIDE DEF E, on
  <2> QED
    BY <2>1, <2>2, <2>3, ClientEndsStep
<1>5. ASSUME NEW on, NEW off, Enable(on, off), \A e \in on : e.src = ck,
             UNCHANGED <<ends, connections, servers, reliable, done, listening, call>>,
             UNCHANGED cfgVars
      PROVE  TesterInv'
  <2>1. connections' = [e \in End |-> IF e \in {} THEN e.dst ELSE connections[e]]
    BY <1>5 DEF TesterInv, TypeOK, NetworkTypeOK
  <2>2. ends' = ends \cup {} /\ \A e \in on \cup {} : e.src = ck
    BY <1>5
  <2> QED
    BY <1>3, <1>5, <2>1, <2>2, ClientEndsStep DEF cfgVars
<1>6. CASE ConnectClient(ck, S)
  <2>1. \A e \in {clerkEnd(ck, j) : j \in S} : e.src = ck
    BY <1>1
  <2> QED
    BY <2>1, <1>5, <1>6 DEF ConnectClient
<1>7. CASE DisconnectClient(ck, S)
  BY <1>5, <1>7 DEF DisconnectClient
<1> QED
  BY <1>4, <1>6, <1>7

\* cleanup and the end of the network's goroutine.
LEMMA CleanupStep ==
    ASSUME TesterInv, cleanup \/ (StopListening /\ UNCHANGED cfgVars)
    PROVE  TesterInv'
<1>1. /\ UNCHANGED <<ends, enabled, connections, servers, reliable, call>>
      /\ UNCHANGED <<configured, gen, up, clerks, saved, attached, late>>
      /\ done' \in BOOLEAN /\ listening' \in BOOLEAN
      /\ \/ tester' = tester
         \/ tester.op = "idle" /\ tester' = [op |-> "cleaned", server |-> Nil]
  BY DEF cleanup, Cleanup, StopListening, netState, cfgVars, TesterInv, TypeOK, NetworkTypeOK
<1> USE DEF TesterInv
<1>2. TypeOK'
  BY <1>1 DEF TypeOK, NetworkTypeOK, Op
<1>3. ServersInv'
  BY <1>1 DEF ServersInv, Current
<1>4. EndsInv'
  BY <1>1 DEF EndsInv
<1>5. ASSUME NEW c \in Call PROVE HoldsInv(c)' /\ SavedInv(c)' /\ LateInv(c)'
  BY <1>1 DEF HoldsInv, SavedInv, LateInv, Isolated
<1> QED
  BY <1>2, <1>3, <1>4, <1>5

-----------------------------------------------------------------------------
(* The steps of an RPC: one call changes, the network does not.            *)

\* A step of one call needs to be checked for that call only.
LEMMA CallStep ==
    ASSUME TesterInv, NEW c \in Call, NEW r \in CallType,
           call' = [call EXCEPT ![c] = r],
           UNCHANGED <<netState, listening>>,
           UNCHANGED <<configured, gen, up, clerks, attached, tester>>,
           saved' \in [Server -> SUBSET Call], \A i \in Server : saved[i] \subseteq saved'[i],
           late' \subseteq Call, late' \subseteq late \cup {c},
           HoldsInv(c)', SavedInv(c)', LateInv(c)'
    PROVE  TesterInv'
<1>1. call \in [Call -> CallType]
  BY DEF TesterInv, TypeOK, NetworkTypeOK
<1>2. TypeOK'
  BY <1>1 DEF TesterInv, TypeOK, NetworkTypeOK, netState
<1>3. ServersInv'
  BY DEF TesterInv, ServersInv, Current, netState
<1>4. EndsInv'
  BY DEF TesterInv, EndsInv, netState
<1>5. ASSUME NEW d \in Call, d # c PROVE HoldsInv(d)' /\ SavedInv(d)' /\ LateInv(d)'
  <2>1. call'[d] = call[d] /\ (d \in late' => d \in late)
    BY <1>1, <1>5
  <2>2. HoldsInv(d) /\ SavedInv(d) /\ LateInv(d)
    BY DEF TesterInv
  <2>3. HoldsInv(d)'
    BY <2>1, <2>2 DEF HoldsInv, netState
  <2>4. SavedInv(d)'
    <3>1. call[d].phase # "unsent" => call[d].end.dst \in Server
      BY CallFacts
    <3>2. call[d].handler = "finished" => call[d].phase # "unsent"
      BY <2>2 DEF HoldsInv
    <3> QED
      BY <2>1, <2>2, <3>1, <3>2 DEF SavedInv, netState
  <2>5. LateInv(d)'
    BY <2>1, <2>2 DEF LateInv, Isolated
  <2> QED
    BY <2>3, <2>4, <2>5
<1> QED
  BY <1>2, <1>3, <1>4, <1>5 DEF TesterInv

\* When an RPC may go from phase from to phase to, with its handler at h.
MayAdvance(c, from, to, h) ==
    /\ from # "unsent" /\ to \notin {"unsent", "accepted", "sending"}
    /\ h = call[c].handler \/ (h = "running" /\ to = "waiting")
    /\ from \in {"sending", "received", "refused"} =>
          to \in {"received", "refused", "returned"} /\ h = call[c].handler
    /\ to \in {"received", "refused"} => from \in {"sending", "received", "refused"}
    /\ to \in {"waiting", "replied", "dead", "answering"} =>
          from \in {"accepted", "waiting", "replied", "answering"}
    /\ to = "replied" => call[c].handler = "finished"

\* The steps that only advance an RPC or let it return.
LEMMA PhaseStep ==
    ASSUME TesterInv, NEW c \in Call, NEW p \in Phase, NEW ok \in BOOLEAN,
           NEW h \in {"none", "running", "finished"},
           call' = [call EXCEPT ![c].phase = p, ![c].handler = h, ![c].ok = ok],
           UNCHANGED <<netState, listening>>, UNCHANGED cfgVars,
           MayAdvance(c, call[c].phase, p, h),
           p = "answering" \/ (p = "returned" /\ ok) => c \in saved[call[c].end.dst]
    PROVE  TesterInv'
<1> USE DEF MayAdvance
<1> DEFINE r == [call[c] EXCEPT !.phase = p, !.handler = h, !.ok = ok]
<1>1. call[c] \in CallType /\ call \in [Call -> CallType]
  BY DEF TesterInv, TypeOK, NetworkTypeOK
<1>2. r \in CallType
  BY <1>1 DEF CallType
<1>3. call' = [call EXCEPT ![c] = r]
  BY <1>1 DEF CallType
<1>4. call'[c] = r
  BY <1>1, <1>3
<1>5. /\ r.phase = p /\ r.handler = h /\ r.ok = ok
      /\ r.end = call[c].end /\ r.server = call[c].server
  BY <1>1 DEF CallType
<1>6. HoldsInv(c) /\ SavedInv(c) /\ LateInv(c)
  BY DEF TesterInv
<1> HIDE DEF r
<1>7. HoldsInv(c)'
  BY <1>4, <1>5, <1>6 DEF HoldsInv, netState, cfgVars
<1>8. SavedInv(c)'
  BY <1>4, <1>5, <1>6 DEF SavedInv, netState, cfgVars
<1>9. LateInv(c)'
  <2>1. UNCHANGED <<late, gen, up, tester>>
    BY DEF cfgVars
  <2>2. c \in late => /\ p \in {"received", "refused", "returned"}
                      /\ h = "none"
    BY <1>1, <1>6 DEF LateInv, Phase
  <2> QED
    BY <1>4, <1>5, <1>6, <2>1, <2>2 DEF LateInv, Isolated
<1>10. /\ saved' \in [Server -> SUBSET Call] /\ late' \subseteq Call
       /\ saved' = saved /\ late' = late
  BY DEF TesterInv, TypeOK, cfgVars
<1> QED
  BY <1>2, <1>3, <1>7, <1>8, <1>9, <1>10, CallStep DEF cfgVars

\* An RPC returns: nothing more is known of it unless it returns true.
LEMMA ReturnStep ==
    ASSUME TesterInv, NEW c \in Call, NEW ok \in BOOLEAN, Return(c, ok),
           UNCHANGED <<netState, listening>>, UNCHANGED cfgVars,
           call[c].phase # "unsent",
           ok => c \in saved[call[c].end.dst]
    PROVE  TesterInv'
<1>1. call \in [Call -> CallType]
  BY DEF TesterInv, TypeOK, NetworkTypeOK
<1>2. PICK h \in {"none", "running", "finished"} : h = call[c].handler
  BY <1>1 DEF CallType
<1>3. call' = [call EXCEPT ![c].phase = "returned", ![c].handler = h, ![c].ok = ok]
  BY <1>1, <1>2 DEF Return, CallType
<1>4. PICK p \in Phase : p = "returned"
  BY DEF Phase
<1>5. MayAdvance(c, call[c].phase, p, h)
  BY <1>2, <1>4 DEF MayAdvance
<1>6. call' = [call EXCEPT ![c].phase = p, ![c].handler = h, ![c].ok = ok]
  BY <1>3, <1>4
<1> QED
  BY <1>4, <1>5, <1>6, PhaseStep

\* An RPC goes on to its next phase.
LEMMA AdvanceStep ==
    ASSUME TesterInv, NEW c \in Call, NEW p \in Phase, Advance(c, p),
           UNCHANGED <<netState, listening>>, UNCHANGED cfgVars,
           <<call[c].phase, p>> \in {<<"sending", "received">>, <<"received", "refused">>,
               <<"waiting", "replied">>, <<"waiting", "dead">>, <<"replied", "answering">>},
           p = "replied" => call[c].handler = "finished",
           p = "answering" => c \in saved[call[c].end.dst]
    PROVE  TesterInv'
<1>1. call \in [Call -> CallType]
  BY DEF TesterInv, TypeOK, NetworkTypeOK
<1>2. PICK h \in {"none", "running", "finished"} : h = call[c].handler
  BY <1>1 DEF CallType
<1>3. PICK ok \in BOOLEAN : ok = call[c].ok
  BY <1>1 DEF CallType
<1>4. call' = [call EXCEPT ![c].phase = p, ![c].handler = h, ![c].ok = ok]
  BY <1>1, <1>2, <1>3 DEF Advance, CallType
<1>5. MayAdvance(c, call[c].phase, p, h) /\ p # "returned"
  BY <1>2 DEF MayAdvance
<1> QED
  BY <1>2, <1>3, <1>4, <1>5, PhaseStep

\* What isServerDead compares: ends, the registered and the remembered instance.
LEMMA AliveSaved ==
    ASSUME TesterInv, NEW c \in Call, call[c].phase = "replied", ~isServerDead(c)
    PROVE  c \in saved[call[c].end.dst]
<1>1. servers[call[c].end.dst] = call[c].server
  BY CallFacts DEF isServerDead
<1> QED
  BY <1>1 DEF TesterInv, SavedInv

\* An accepted request: the instance that was found is registered, is the
\* last one started, and the caller was not isolated.
LEMMA ReadStep ==
    ASSUME TesterInv, NEW c \in Call, readEndnameInfo(c), UNCHANGED cfgVars,
           enabled[call[c].end], servers[call[c].end.dst] # Nil
    PROVE  TesterInv'
<1> DEFINE e == call[c].end
           inst == servers[e.dst]
           r == [call[c] EXCEPT !.phase = "accepted", !.server = inst, !.reliable = reliable]
<1>1. call[c] \in CallType /\ call \in [Call -> CallType]
  BY DEF TesterInv, TypeOK, NetworkTypeOK
<1>2. call[c].phase = "received" /\ UNCHANGED <<netState, listening>>
  BY DEF readEndnameInfo
<1>3. e \in ends /\ e \in End /\ e.dst \in Server /\ connections[e] = e.dst
  BY <1>2, CallFacts
<1>4. call' = [call EXCEPT ![c].phase = "accepted", ![c].server = inst,
                           ![c].reliable = reliable]
  <2>1. e.dst # Nil
    BY <1>3
  <2> QED
    BY <1>3, <2>1 DEF readEndnameInfo
<1>5. inst \in Instance /\ reliable \in BOOLEAN
  BY <1>3 DEF TesterInv, TypeOK, NetworkTypeOK
<1>6. r \in CallType
  BY <1>1, <1>5 DEF CallType, Phase
<1>7. call' = [call EXCEPT ![c] = r]
  BY <1>1, <1>4 DEF CallType
<1>8. call'[c] = r
  BY <1>1, <1>7
<1>9. /\ r.phase = "accepted" /\ r.handler = call[c].handler
      /\ r.end = e /\ r.server = inst
  BY <1>1 DEF CallType
<1>10. HoldsInv(c) /\ SavedInv(c) /\ LateInv(c)
  BY DEF TesterInv
<1>11. call[c].handler = "none"
  BY <1>2, <1>10 DEF HoldsInv
<1>12. inst = Current(e.dst) /\ e.dst \in up
  BY <1>3 DEF TesterInv, ServersInv
<1>13. /\ inst.server = e.dst /\ inst.gen = gen[e.dst] /\ gen[e.dst] \in Nat
       /\ tester # [op |-> "starting", server |-> e.dst]
  <2>1. inst.server = e.dst /\ inst.gen = gen[e.dst]
    BY <1>12 DEF Current
  <2>2. tester # [op |-> "starting", server |-> e.dst]
    BY <1>3, <1>12 DEF TesterInv, ServersInv
  <2> QED
    BY <1>3, <2>1, <2>2, GenFacts
<1>14. c \notin late
  <2>1. SUFFICES ASSUME c \in late PROVE FALSE
    OBVIOUS
  <2>2. e.src \in Server /\ Isolated([server |-> e.src, gen |-> e.gen])
    BY <2>1, <1>10 DEF LateInv
  <2>3. /\ e.gen = gen[e.src] /\ gen[e.src] \in Nat /\ e.src \in up
        /\ tester # [op |-> "disconnected", server |-> e.src]
        /\ tester # [op |-> "deleted", server |-> e.src]
    BY <1>3, <2>2, GenFacts DEF TesterInv, EndsInv
  <2>4. tester \notin [op : {"disconnected", "deleted"}, server : {e.src}]
    BY <2>3
  <2> QED
    BY <2>2, <2>3, <2>4 DEF Isolated
<1> HIDE DEF r, e, inst
<1>15. HoldsInv(c)'
  <2>1. ends' = ends /\ gen' = gen /\ tester' = tester
    BY <1>2 DEF netState, cfgVars
  <2>2. inst # Nil /\ gen[e.dst] <= gen[e.dst]
    BY <1>5, <1>13
  <2> QED
    BY <1>3, <1>8, <1>9, <1>11, <1>13, <2>1, <2>2 DEF HoldsInv
<1>16. SavedInv(c)'
  BY <1>8, <1>9, <1>11 DEF SavedInv
<1>17. LateInv(c)'
  BY <1>14 DEF LateInv, cfgVars
<1>18. saved' \in [Server -> SUBSET Call] /\ late' \subseteq Call /\ saved' = saved /\ late' = late
  BY DEF TesterInv, TypeOK, cfgVars
<1> QED
  BY <1>2, <1>6, <1>7, <1>15, <1>16, <1>17, <1>18, CallStep DEF cfgVars

\* Every step of processReq keeps the invariant.
LEMMA ProcessStep ==
    ASSUME TesterInv, NEW c \in Call, Step(c)
    PROVE  TesterInv'
<1>0. UNCHANGED cfgVars /\ ProcessReq(c)
  BY DEF Step
<1>1. UNCHANGED <<netState, listening>>
  BY <1>0 DEF ProcessReq, CallDone, Receive, readEndnameInfo, Refuse, DropRequest,
       StartHandler, TakeReply, NoticeDead, CheckDead, DropReply, Reply
<1>2. HoldsInv(c) /\ SavedInv(c)
  BY DEF TesterInv
<1>3. ASSUME Return(c, FALSE), call[c].phase # "unsent" PROVE TesterInv'
  BY <1>0, <1>1, <1>3, ReturnStep
<1>4. CASE CallDone(c) \/ Refuse(c) \/ DropRequest(c) \/ DropReply(c)
  BY <1>3, <1>4 DEF CallDone, Refuse, DropRequest, DropReply
<1>5. CASE Receive(c)
  <2>1. call[c].phase = "sending" /\ Advance(c, "received") /\ "received" \in Phase
    BY <1>5 DEF Receive, Phase
  <2> QED
    BY <1>0, <1>1, <2>1, AdvanceStep
<1>6. CASE readEndnameInfo(c)
  <2>1. CASE enabled[call[c].end] /\ servers[call[c].end.dst] # Nil
    BY <1>0, <1>6, <2>1, ReadStep
  <2>2. CASE ~(enabled[call[c].end] /\ servers[call[c].end.dst] # Nil)
    <3>1. call[c].phase = "received" /\ "refused" \in Phase
      BY <1>6 DEF readEndnameInfo, Phase
    <3>2. connections[call[c].end] = call[c].end.dst /\ call[c].end.dst # Nil
      BY <3>1, CallFacts
    <3>3. Advance(c, "refused")
      BY <1>6, <2>2, <3>2 DEF readEndnameInfo
    <3> QED
      BY <1>0, <1>1, <3>1, <3>3, AdvanceStep
  <2> QED
    BY <2>1, <2>2
<1>7. CASE StartHandler(c)
  <2>1. /\ call[c].phase = "accepted" /\ "waiting" \in Phase
        /\ call' = [call EXCEPT ![c].phase = "waiting", ![c].handler = "running"]
    BY <1>7 DEF StartHandler, Phase
  <2>2. PICK ok \in BOOLEAN : ok = call[c].ok
    BY DEF TesterInv, TypeOK, NetworkTypeOK, CallType
  <2>3. call' = [call EXCEPT ![c].phase = "waiting", ![c].handler = "running", ![c].ok = ok]
    <3>1. call \in [Call -> CallType]
      BY DEF TesterInv, TypeOK, NetworkTypeOK
    <3> QED
      BY <2>1, <2>2, <3>1 DEF CallType
  <2>4. call[c].handler = "none" /\ MayAdvance(c, call[c].phase, "waiting", "running")
    BY <1>2, <2>1 DEF HoldsInv, MayAdvance
  <2> QED
    BY <1>0, <1>1, <2>1, <2>3, <2>4, PhaseStep
<1>8. CASE TakeReply(c)
  <2>1. /\ call[c].phase = "waiting" /\ call[c].handler = "finished"
        /\ Advance(c, "replied") /\ "replied" \in Phase
    BY <1>8 DEF TakeReply, Phase
  <2> QED
    BY <1>0, <1>1, <2>1, AdvanceStep
<1>9. CASE NoticeDead(c)
  <2>1. call[c].phase = "waiting" /\ Advance(c, "dead") /\ "dead" \in Phase
    BY <1>9 DEF NoticeDead, Phase
  <2> QED
    BY <1>0, <1>1, <2>1, AdvanceStep
<1>10. CASE CheckDead(c)
  <2>1. CASE call[c].phase = "dead" \/ isServerDead(c)
    BY <1>3, <1>10, <2>1 DEF CheckDead
  <2>2. CASE ~(call[c].phase = "dead" \/ isServerDead(c))
    <3>1. call[c].phase = "replied" /\ Advance(c, "answering") /\ "answering" \in Phase
      BY <1>10, <2>2 DEF CheckDead, Phase
    <3>2. c \in saved[call[c].end.dst]
      BY <2>2, <3>1, AliveSaved
    <3> QED
      BY <1>0, <1>1, <3>1, <3>2, AdvanceStep
  <2> QED
    BY <2>1, <2>2
<1>11. CASE Reply(c)
  <2>1. call[c].phase = "answering" /\ Return(c, TRUE)
    BY <1>11 DEF Reply
  <2>2. c \in saved[call[c].end.dst]
    BY <1>2, <2>1 DEF SavedInv
  <2> QED
    BY <1>0, <1>1, <2>1, <2>2, ReturnStep
<1> QED
  BY <1>0, <1>4, <1>5, <1>6, <1>7, <1>8, <1>9, <1>10, <1>11 DEF ProcessReq

\* A handler finishes: if its instance is registered, it saves where the
\* tester will look.
LEMMA HandleStep ==
    ASSUME TesterInv, NEW c \in Call, Handle(c)
    PROVE  TesterInv'
<1> DEFINE inst == call[c].server
           r == [call[c] EXCEPT !.handler = "finished"]
<1>1. call[c] \in CallType /\ call \in [Call -> CallType]
  BY DEF TesterInv, TypeOK, NetworkTypeOK
<1>2. /\ call[c].handler = "running"
      /\ call' = [call EXCEPT ![c].handler = "finished"]
      /\ UNCHANGED <<netState, listening>>
      /\ saved' = [saved EXCEPT ![inst.server] =
                     IF attached[inst.server] = inst THEN saved[inst.server] \cup {c}
                     ELSE saved[inst.server]]
      /\ UNCHANGED <<configured, gen, up, clerks, attached, tester, late>>
  BY DEF Handle, dispatch
<1>3. r \in CallType
  BY <1>1 DEF CallType
<1>4. call' = [call EXCEPT ![c] = r]
  BY <1>1, <1>2 DEF CallType
<1>5. call'[c] = r
  BY <1>1, <1>4
<1>6. /\ r.phase = call[c].phase /\ r.handler = "finished" /\ r.ok = call[c].ok
      /\ r.end = call[c].end /\ r.server = inst
  BY <1>1 DEF CallType
<1>7. HoldsInv(c) /\ SavedInv(c) /\ LateInv(c)
  BY DEF TesterInv
<1>8. inst # Nil /\ inst.server = call[c].end.dst /\ call[c].end.dst \in Server
  BY <1>2, <1>7, CallFacts DEF HoldsInv
<1>9. saved \in [Server -> SUBSET Call] /\ late \subseteq Call
  BY DEF TesterInv, TypeOK
<1>10. servers[call[c].end.dst] = inst => attached[call[c].end.dst] = inst
  BY <1>8 DEF TesterInv, ServersInv
<1> HIDE DEF r, inst
<1>11. /\ saved' \in [Server -> SUBSET Call]
       /\ \A i \in Server : saved[i] \subseteq saved'[i]
       /\ servers[call[c].end.dst] = inst => c \in saved'[call[c].end.dst]
  BY <1>2, <1>8, <1>9, <1>10
<1>12. HoldsInv(c)'
  BY <1>2, <1>5, <1>6, <1>7, <1>8 DEF HoldsInv, netState, inst
<1>13. SavedInv(c)'
  BY <1>2, <1>5, <1>6, <1>7, <1>8, <1>11 DEF SavedInv, netState
<1>14. LateInv(c)'
  <2>1. c \notin late
    BY <1>2, <1>7 DEF LateInv
  <2> QED
    BY <1>2, <2>1 DEF LateInv
<1> QED
  BY <1>2, <1>3, <1>4, <1>9, <1>11, <1>12, <1>13, <1>14, CallStep

\* A new call of a clerk, or of an instance that may be shut down already.
LEMMA SendStep ==
    ASSUME TesterInv, NEW c \in Call, NEW e \in End, Send(c, e),
           UNCHANGED <<configured, gen, up, clerks, saved, attached, tester>>,
           late' = late \/ (/\ late' = late \cup {c} /\ e.src \in Server
                           /\ Isolated([server |-> e.src, gen |-> e.gen]))
    PROVE  TesterInv'
<1> DEFINE r == [call[c] EXCEPT !.phase = "sending", !.end = e]
<1>1. call[c] \in CallType /\ call \in [Call -> CallType]
  BY DEF TesterInv, TypeOK, NetworkTypeOK
<1>2. /\ call[c].phase = "unsent" /\ e \in ends
      /\ call' = [call EXCEPT ![c].phase = "sending", ![c].end = e]
      /\ UNCHANGED <<netState, listening>>
  BY DEF Send
<1>3. r \in CallType
  BY <1>1 DEF CallType, Phase
<1>4. call' = [call EXCEPT ![c] = r]
  BY <1>1, <1>2 DEF CallType
<1>5. call'[c] = r
  BY <1>1, <1>4
<1>6. /\ r.phase = "sending" /\ r.handler = call[c].handler
      /\ r.end = e /\ r.server = call[c].server
  BY <1>1 DEF CallType
<1>7. call[c].server = Nil /\ call[c].handler = "none" /\ c \notin late
  BY <1>2 DEF TesterInv, HoldsInv, LateInv
<1>8. saved' = saved /\ saved \in [Server -> SUBSET Call] /\ late' \subseteq Call
  BY DEF TesterInv, TypeOK
<1> HIDE DEF r
<1>9. HoldsInv(c)'
  BY <1>2, <1>5, <1>6, <1>7 DEF HoldsInv, netState
<1>10. SavedInv(c)'
  BY <1>5, <1>6, <1>7 DEF SavedInv
<1>11. LateInv(c)'
  <2>1. c \in late' => e.src \in Server /\ Isolated([server |-> e.src, gen |-> e.gen])
    BY <1>7
  <2> QED
    BY <1>5, <1>6, <1>7, <2>1 DEF LateInv, Isolated
<1> QED
  BY <1>2, <1>3, <1>4, <1>8, <1>9, <1>10, <1>11, CallStep

\* A clerk's call.
LEMMA ClerkSendsStep ==
    ASSUME TesterInv, NEW c \in Call, NEW ck \in Client, NEW j \in Server, ClerkSends(c, ck, j)
    PROVE  TesterInv'
<1>1. clerkEnd(ck, j) \in End
  BY DEF clerkEnd, End
<1> QED
  BY <1>1, SendStep DEF ClerkSends, cfgVars

\* An instance's call.
LEMMA InstanceSendsStep ==
    ASSUME TesterInv, NEW c \in Call, NEW inst \in Instance, NEW j \in Server,
           InstanceSends(c, inst, j)
    PROVE  TesterInv'
<1>1. PICK e \in End : e = [src |-> inst.server, gen |-> inst.gen, dst |-> j]
  <2>1. inst.server \in Server /\ inst.gen \in 0 .. MaxGen
    BY DEF Instance
  <2> QED
    BY <2>1 DEF End
<1>2. inst = [server |-> e.src, gen |-> e.gen] /\ e.src \in Server
  BY <1>1 DEF Instance
<1>3. late' = late \/ (/\ late' = late \cup {c} /\ e.src \in Server
                      /\ Isolated([server |-> e.src, gen |-> e.gen]))
  BY <1>2 DEF InstanceSends
<1>4. Send(c, e)
  BY <1>1 DEF InstanceSends
<1> QED
  BY <1>3, <1>4, SendStep DEF InstanceSends

-----------------------------------------------------------------------------
\* Every step of tester, network and handlers keeps the invariant.
LEMMA NextInv == TesterInv /\ [Next]_vars => TesterInv'
<1> SUFFICES ASSUME TesterInv, [Next]_vars PROVE TesterInv'
  OBVIOUS
<1>1. ASSUME NEW i \in Server,
             Isolate(i) \/ Delete(i) \/ Supersede(i) \/ StartServer(i) \/ Register(i)
      PROVE  TesterInv'
  BY <1>1, IsolateStep, DeleteStep, SupersedeStep, StartServerStep, RegisterStep
<1>2. ASSUME NEW unreliable \in BOOLEAN, ConnectAll(unreliable) PROVE TesterInv'
  BY <1>2, ConnectAllStep
<1>3. ASSUME NEW p1 \in SUBSET Server, partition(p1, Server \ p1) PROVE TesterInv'
  BY <1>3, PartitionStep
<1>4. ASSUME NEW ck \in Client, NEW S \in SUBSET Server,
             makeClient(ck, S) \/ ConnectClient(ck, S) \/ DisconnectClient(ck, S)
      PROVE  TesterInv'
  BY <1>4, ClientStep
<1>5. CASE cleanup \/ (StopListening /\ UNCHANGED cfgVars)
  BY <1>5, CleanupStep
<1>6. ASSUME NEW c \in Call, Step(c) \/ Handle(c) PROVE TesterInv'
  BY <1>6, ProcessStep, HandleStep
<1>7. ASSUME NEW c \in Call, NEW ck \in Client, NEW j \in Server, ClerkSends(c, ck, j)
      PROVE  TesterInv'
  BY <1>7, ClerkSendsStep
<1>8. ASSUME NEW c \in Call, NEW inst \in Instance, NEW j \in Server, InstanceSends(c, inst, j)
      PROVE  TesterInv'
  BY <1>8, InstanceSendsStep
<1>9. CASE UNCHANGED vars
  <2> USE <1>9 DEF TesterInv, vars, netVars, netState, cfgVars
  <2>1. TypeOK'
    BY DEF TypeOK, NetworkTypeOK
  <2>2. ServersInv' /\ EndsInv'
    BY DEF ServersInv, EndsInv, Current
  <2>3. ASSUME NEW c \in Call PROVE HoldsInv(c)' /\ SavedInv(c)' /\ LateInv(c)'
    BY DEF HoldsInv, SavedInv, LateInv, Isolated
  <2> QED
    BY <2>1, <2>2, <2>3
<1> QED
  BY <1>1, <1>2, <1>3, <1>4, <1>5, <1>6, <1>7, <1>8, <1>9 DEF Next

\* The harness and the network keep TesterInv: registered instances are the
\* last ones started and save where the tester looks, only ends of running
\* instances are enabled, and processReq answers only for what was saved.
THEOREM TesterInvariant == Spec => []TesterInv
<1> QED
  BY InitInv, NextInv, PTL DEF Spec

\* What ShutdownServer's comment asks for: a call that returned true has its
\* outcome in the Persister of the server's next instance.
THEOREM RepliesDurable == Spec => []PositiveReplyDurable
<1>1. TesterInv => PositiveReplyDurable
  BY DEF TesterInv, SavedInv, PositiveReplyDurable
<1> QED
  BY <1>1, TesterInvariant, PTL

\* No handler ever runs for a call that an instance sent after its shutdown
\* had isolated it.
THEOREM OldInstancesSilent == Spec => []OldInstanceSilent
<1>1. TesterInv => OldInstanceSilent
  BY DEF TesterInv, TypeOK, LateInv, OldInstanceSilent
<1> QED
  BY <1>1, TesterInvariant, PTL
=============================================================================
