------------------------------ MODULE Tester ------------------------------
(***************************************************************************)
(* The test harness of kvraft/config.go (shardmaster/config.go has the     *)
(* same text) driving the network of labrpc: it starts servers, shuts them *)
(* down and restarts them, partitions the network and makes clerks, while  *)
(* RPCs of clerks and of servers are in flight.  An instance cannot really *)
(* be stopped: after ShutdownServer its goroutines may go on sending and   *)
(* handling RPCs, and what it then saves must reach nobody.                *)
(*                                                                         *)
(* What a handler does is abstracted to the fact that it saved the outcome *)
(* of its RPC in the Persister of its instance.  attached[i] is the        *)
(* instance that holds the Persister cfg.saved[i] points to, and saved[i]  *)
(* the RPCs whose outcome that Persister contains; what an instance saves  *)
(* in a Persister that was superseded is lost.                             *)
(***************************************************************************)
EXTENDS Network

VARIABLES configured, \* make_config has returned
          gen,      \* gen[i]: how often server i was started (names endnames[i])
          up,       \* servers i with cfg.kvservers[i] # nil
          clerks,   \* clerks made
          saved,    \* the RPCs whose outcome is in cfg.saved[i]
          attached, \* the instance that saves into cfg.saved[i]
          tester,   \* the operation of the tester in progress
          late      \* RPCs sent by an instance after its shutdown disconnected it

cfgVars == <<configured, gen, up, clerks, saved, attached, tester, late>>
vars == <<netVars, cfgVars>>

Op == {"idle", "disconnected", "deleted", "starting", "cleaned"}

(* The instance that StartServer made last for server i, and its ends.     *)
Current(i) == [server |-> i, gen |-> gen[i]]

endname(i, j) == [src |-> i, gen |-> gen[i], dst |-> j]

clerkEnd(ck, j) == [src |-> ck, gen |-> 0, dst |-> j]

Between(A, B) == {endname(i, j) : i \in A, j \in B} \cup {endname(j, i) : i \in A, j \in B}

(* make_config before its first StartServer: nothing is saved.             *)
Init ==
    /\ MakeNetwork
    /\ configured = FALSE
    /\ gen = [i \in Server |-> 0]
    /\ up = {}
    /\ clerks = {}
    /\ saved = [i \in Server |-> {}]
    /\ attached = [i \in Server |-> Nil]
    /\ tester = [op |-> "idle", server |-> Nil]
    /\ late = {}

-----------------------------------------------------------------------------
(* disconnectUnlocked without its first loop: what i sends gets through.   *)
IsolateIncoming(i) ==
    /\ tester.op = "idle"
    /\ configured
    /\ i \in up
    /\ Enable({}, {endname(j, i) : j \in Server \ {i}})
    /\ tester' = [op |-> "disconnected", server |-> i]
    /\ UNCHANGED <<ends, connections, servers, reliable, done, listening, call>>
    /\ UNCHANGED <<configured, gen, up, clerks, saved, attached, late>>

(* ShutdownServer, step by step: between its calls of the network, RPCs    *)
(* proceed. First disconnectUnlocked(i, All) ...                           *)
Isolate(i) ==
    /\ tester.op = "idle"
    /\ configured
    /\ i \in up
    /\ Enable({}, Between({i}, Server))
    /\ tester' = [op |-> "disconnected", server |-> i]
    /\ UNCHANGED <<ends, connections, servers, reliable, done, listening, call>>
    /\ UNCHANGED <<configured, gen, up, clerks, saved, attached, late>>

(* ... then DeleteServer, which cuts off the clerks, whose ends stay as    *)
(* they are ...                                                            *)
Delete(i) ==
    /\ tester = [op |-> "disconnected", server |-> i]
    /\ DeleteServer(i)
    /\ tester' = [op |-> "deleted", server |-> i]
    /\ UNCHANGED <<ends, enabled, connections, reliable, done, listening, call>>
    /\ UNCHANGED <<configured, gen, up, clerks, saved, attached, late>>

(* ... and only then a copy of the Persister, and Kill.                    *)
Supersede(i) ==
    /\ tester = [op |-> "deleted", server |-> i]
    /\ attached' = [attached EXCEPT ![i] = Nil]
    /\ up' = up \ {i}
    /\ tester' = [op |-> "idle", server |-> Nil]
    /\ UNCHANGED <<netVars, configured, gen, clerks, saved, late>>

(* A restart that keeps the names of the ends, and so the ends themselves. *)
StartServerSameEnds(i) ==
    /\ tester.op = "idle"
    /\ i \notin up
    /\ gen[i] < MaxGen
    /\ gen' = [gen EXCEPT ![i] = 1]
    /\ LET E == {[src |-> i, gen |-> 1, dst |-> j] : j \in Server}
       IN  /\ ends' = ends \cup E
           /\ connections' = [e \in End |-> IF e \in E THEN e.dst ELSE connections[e]]
    /\ attached' = [attached EXCEPT ![i] = [server |-> i, gen |-> 1]]
    /\ tester' = [op |-> "starting", server |-> i]
    /\ UNCHANGED <<enabled, servers, reliable, done, listening, call>>
    /\ UNCHANGED <<configured, up, clerks, saved, late>>

(* StartServer: fresh ends, a copy of the Persister for the new instance,  *)
(* which runs from here on ...                                             *)
StartServer(i) ==
    /\ tester.op = "idle"
    /\ i \notin up
    /\ gen[i] < MaxGen
    /\ gen' = [gen EXCEPT ![i] = @ + 1]
    /\ LET E == {[src |-> i, gen |-> gen[i] + 1, dst |-> j] : j \in Server}
       IN  MakeEnds(E) /\ Enable({}, E)
    /\ attached' = [attached EXCEPT ![i] = [server |-> i, gen |-> gen[i] + 1]]
    /\ tester' = [op |-> "starting", server |-> i]
    /\ UNCHANGED <<servers, reliable, done, listening, call>>
    /\ UNCHANGED <<configured, up, clerks, saved, late>>

(* ... and AddServer, which lets RPCs in.                                  *)
Register(i) ==
    /\ tester = [op |-> "starting", server |-> i]
    /\ AddServer(i, Current(i))
    /\ up' = up \cup {i}
    /\ tester' = [op |-> "idle", server |-> Nil]
    /\ UNCHANGED <<ends, enabled, connections, reliable, done, listening, call>>
    /\ UNCHANGED <<configured, gen, clerks, saved, attached, late>>

(* The tests reconnect and partition only while every server is up: the    *)
(* names in cfg.endnames are then those of the running instances. The      *)
(* first ConnectAll ends make_config and sets the network's reliability.   *)
ConnectAll(unreliable) ==
    /\ tester.op = "idle"
    /\ up = Server
    /\ Enable(Between(Server, Server), {})
    /\ IF configured THEN UNCHANGED reliable ELSE Reliable(~unreliable)
    /\ configured' = TRUE
    /\ UNCHANGED <<ends, connections, servers, done, listening, call>>
    /\ UNCHANGED <<gen, up, clerks, saved, attached, tester, late>>

partition(p1, p2) ==
    /\ tester.op = "idle"
    /\ configured
    /\ up = Server
    /\ Enable(Between(p1, p1) \cup Between(p2, p2), Between(p1, p2))
    /\ UNCHANGED <<ends, connections, servers, reliable, done, listening, call>>
    /\ UNCHANGED <<configured, gen, up, clerks, saved, attached, tester, late>>

(* makeClient makes its ends and enables those to servers in to.           *)
makeClient(ck, to) ==
    /\ tester.op \in {"idle", "starting"}
    /\ configured
    /\ ck \notin clerks
    /\ clerks' = clerks \cup {ck}
    /\ LET E == {clerkEnd(ck, j) : j \in Server}
       IN  MakeEnds(E) /\ Enable({clerkEnd(ck, j) : j \in to}, E)
    /\ UNCHANGED <<servers, reliable, done, listening, call>>
    /\ UNCHANGED <<configured, gen, up, saved, attached, tester, late>>

ConnectClient(ck, to) ==
    /\ tester.op \in {"idle", "starting"}
    /\ ck \in clerks
    /\ Enable({clerkEnd(ck, j) : j \in to}, {})
    /\ UNCHANGED <<ends, connections, servers, reliable, done, listening, call>>
    /\ UNCHANGED cfgVars

DisconnectClient(ck, from) ==
    /\ tester.op \in {"idle", "starting"}
    /\ ck \in clerks
    /\ Enable({}, {clerkEnd(ck, j) : j \in from})
    /\ UNCHANGED <<ends, connections, servers, reliable, done, listening, call>>
    /\ UNCHANGED cfgVars

(* cleanup, at the end of a test.                                          *)
cleanup ==
    /\ tester.op = "idle"
    /\ configured
    /\ Cleanup
    /\ tester' = [op |-> "cleaned", server |-> Nil]
    /\ UNCHANGED <<ends, enabled, connections, servers, reliable, listening, call>>
    /\ UNCHANGED <<configured, gen, up, clerks, saved, attached, late>>

-----------------------------------------------------------------------------
(* RPCs of clerks and of instances, old ones included.                     *)

ClerkSends(c, ck, j) ==
    /\ ck \in clerks
    /\ Send(c, clerkEnd(ck, j))
    /\ UNCHANGED cfgVars

(* Shut down: the instance is an old one, or its shutdown has cut its ends. *)
Isolated(inst) ==
    \/ inst.gen < gen[inst.server]
    \/ inst.server \notin up /\ tester # [op |-> "starting", server |-> inst.server]
    \/ tester \in [op : {"disconnected", "deleted"}, server : {inst.server}]

InstanceSends(c, inst, j) ==
    /\ Send(c, [src |-> inst.server, gen |-> inst.gen, dst |-> j])
    /\ late' = IF Isolated(inst) THEN late \cup {c} ELSE late
    /\ UNCHANGED <<configured, gen, up, clerks, saved, attached, tester>>

(* A handler saves the outcome in its instance's Persister, then returns.  *)
Handle(c) ==
    LET inst == call[c].server
        i == inst.server
    IN  /\ dispatch(c)
        /\ saved' = [saved EXCEPT ![i] = IF attached[i] = inst THEN @ \cup {c} ELSE @]
        /\ UNCHANGED <<configured, gen, up, clerks, attached, tester, late>>

Step(c) == ProcessReq(c) /\ UNCHANGED cfgVars

Next ==
    \/ \E i \in Server :
          Isolate(i) \/ Delete(i) \/ Supersede(i) \/ StartServer(i) \/ Register(i)
    \/ \E unreliable \in BOOLEAN : ConnectAll(unreliable)
    \/ \E p1 \in SUBSET Server : partition(p1, Server \ p1)
    \/ \E ck \in Client, S \in SUBSET Server :
          makeClient(ck, S) \/ ConnectClient(ck, S) \/ DisconnectClient(ck, S)
    \/ cleanup
    \/ StopListening /\ UNCHANGED cfgVars
    \/ \E c \in Call : Step(c) \/ Handle(c)
    \/ \E c \in Call, ck \in Client, j \in Server : ClerkSends(c, ck, j)
    \/ \E c \in Call, inst \in Instance, j \in Server : InstanceSends(c, inst, j)

(* The network's goroutines run on. A handler is only assumed to return    *)
(* while its instance is registered: one that was shut down may never      *)
(* answer, which is what processReq guards against.                        *)
HandleRegistered(c) ==
    /\ Handle(c)
    /\ servers[call[c].server.server] = call[c].server

Fairness == \A c \in Call : WF_vars(Step(c)) /\ WF_vars(HandleRegistered(c))

Spec == Init /\ [][Next]_vars /\ Fairness

-----------------------------------------------------------------------------
TypeOK ==
    /\ NetworkTypeOK
    /\ configured \in BOOLEAN
    /\ gen \in [Server -> 0 .. MaxGen]
    /\ up \subseteq Server
    /\ clerks \subseteq Client
    /\ saved \in [Server -> SUBSET Call]
    /\ attached \in [Server -> Instance \cup {Nil}]
    /\ tester \in [op : Op, server : Server \cup {Nil}]
    /\ late \subseteq Call

(* An RPC that returned true to its caller has its outcome in the          *)
(* Persister from which the server's next instance will start, however the *)
(* RPC interleaves with ShutdownServer and StartServer: this is what the   *)
(* last check of processReq and the order of ShutdownServer are for.       *)
PositiveReplyDurable ==
    \A c \in Call : call[c].phase = "returned" /\ call[c].ok
                        => c \in saved[call[c].end.dst]

(* What an instance sends after its shutdown has isolated it is never      *)
(* handled by anyone, even after its successor is connected: StartServer   *)
(* gives the successor new ends.                                           *)
OldInstanceSilent == \A c \in late : call[c].handler = "none"

(* Every Call returns: when its server is deleted, replaced or cut off     *)
(* while the handler hangs, and when the network is cleaned up while the   *)
(* request is being offered.                                               *)
CallReturns == \A c \in Call : call[c].phase = "sending" ~> call[c].phase = "returned"
=============================================================================
