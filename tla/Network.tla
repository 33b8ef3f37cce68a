------------------------------ MODULE Network ------------------------------
(***************************************************************************)
(* The simulated network of labrpc/labrpc.go.  Every RPC is one Call: the  *)
(* caller blocks in ClientEnd.Call while one goroutine of the network runs *)
(* processReq and another runs the handler.  The two are kept apart (phase *)
(* and handler) because processReq gives up on a server that was deleted   *)
(* while the handler goes on running.                                      *)
(*                                                                         *)
(* Delays (the short delay of an unreliable network, the timer of a        *)
(* refused request, long reordering) only move the step that follows, so   *)
(* they are the freedom to take that step later.  The statistics (count,   *)
(* bytes) and the contents of arguments and replies are left out.          *)
(***************************************************************************)
EXTENDS Naturals

CONSTANTS Server,   \* names of servers: 0 .. cfg.n - 1
          Client,   \* the clerks
          Call,     \* the RPCs of a behaviour
          MaxGen,   \* how often a server is started, at most
          Nil

(* The tester names the ends of a server anew each time it starts it, so   *)
(* the name of a ClientEnd is its owner, the start that made it and the    *)
(* server it is to be connected to.                                        *)
End == [src : Server \cup Client, gen : 0 .. MaxGen, dst : Server]

(* The labrpc.Server made when a server is started for the gen-th time.    *)
Instance == [server : Server, gen : 1 .. MaxGen]

ASSUME NetworkAssumption ==
    /\ MaxGen \in Nat \ {0}
    /\ Server \cap Client = {}
    /\ Nil \notin Server \cup End \cup Instance

VARIABLES ends,        \* names for which MakeEnd was called
          enabled,     \* Network.enabled, by end name
          connections, \* Network.connections: end name -> server name
          servers,     \* Network.servers: server name -> instance
          reliable,    \* Network.reliable
          done,        \* Network.done is closed
          listening,   \* the goroutine that MakeNetwork starts still runs
          call         \* the state of every RPC

netState == <<ends, enabled, connections, servers, reliable, done>>
netVars == <<netState, listening, call>>

Phase == {"unsent", "sending", "received", "refused", "accepted", "waiting",
          "replied", "dead", "answering", "returned"}

(* What processReq and the handler goroutine know of an RPC. server and    *)
(* reliable are what readEndnameInfo read; ok is what Call returned.       *)
CallType == [phase    : Phase,
             end      : End \cup {Nil},
             server   : Instance \cup {Nil},
             reliable : BOOLEAN,
             handler  : {"none", "running", "finished"},
             ok       : BOOLEAN]

Unsent == [phase |-> "unsent", end |-> Nil, server |-> Nil, reliable |-> TRUE,
           handler |-> "none", ok |-> FALSE]

MakeNetwork ==
    /\ ends = {}
    /\ enabled = [e \in End |-> FALSE]
    /\ connections = [e \in End |-> Nil]
    /\ servers = [s \in Server |-> Nil]
    /\ reliable = TRUE
    /\ done = FALSE
    /\ listening = TRUE
    /\ call = [c \in Call |-> Unsent]

-----------------------------------------------------------------------------
(* What the tester does to the network. Each is one critical section of    *)
(* rn.mu; the sets stand for loops over such sections, which the tester    *)
(* runs while holding cfg.mu.                                              *)

Connect(E) == connections' = [e \in End |-> IF e \in E THEN e.dst ELSE connections[e]]

(* MakeEnd for fresh names, each followed by its Connect.                  *)
MakeEnds(E) ==
    /\ E \cap ends = {}
    /\ ends' = ends \cup E
    /\ Connect(E)

(* Enable: the ends in on are enabled, those in off disabled; a new end is *)
(* disabled until it is enabled.                                           *)
Enable(on, off) ==
    enabled' = [e \in End |-> \/ e \in on
                              \/ enabled[e] /\ e \notin off]

AddServer(s, inst) == servers' = [servers EXCEPT ![s] = inst]

DeleteServer(s) == servers' = [servers EXCEPT ![s] = Nil]

Reliable(yes) == reliable' = yes

Cleanup == done' = TRUE

-----------------------------------------------------------------------------
(* One RPC.                                                                *)

isServerDead(c) ==
    LET e == call[c].end
    IN  ~enabled[e] \/ servers[connections[e]] # call[c].server

Return(c, ok) ==
    call' = [call EXCEPT ![c].phase = "returned", ![c].ok = ok]

Advance(c, phase) == call' = [call EXCEPT ![c].phase = phase]

(* Call: the request is offered to the network's goroutine ...             *)
Send(c, e) ==
    /\ call[c].phase = "unsent"
    /\ e \in ends
    /\ call' = [call EXCEPT ![c].phase = "sending", ![c].end = e]
    /\ UNCHANGED <<netState, listening>>

(* A Call that only waits for the network's goroutine.                     *)
CallDoneNever(c) == FALSE /\ UNCHANGED netVars

(* ... or the select of Call finds that the network was cleaned up.        *)
CallDone(c) ==
    /\ call[c].phase = "sending"
    /\ done
    /\ Return(c, FALSE)
    /\ UNCHANGED <<netState, listening>>

(* The goroutine of MakeNetwork takes a request and starts processReq; its *)
(* select may still take one after done is closed.                         *)
Receive(c) ==
    /\ listening
    /\ call[c].phase = "sending"
    /\ Advance(c, "received")
    /\ UNCHANGED <<netState, listening>>

StopListening ==
    /\ listening
    /\ done
    /\ listening' = FALSE
    /\ UNCHANGED <<netState, call>>

(* processReq reads the end's state once, under rn.mu, and decides from it *)
(* whether to run the handler.                                             *)
readEndnameInfo(c) ==
    LET e == call[c].end
        server == IF connections[e] = Nil THEN Nil ELSE servers[connections[e]]
    IN  /\ call[c].phase = "received"
        /\ IF enabled[e] /\ server # Nil
           THEN call' = [call EXCEPT ![c].phase = "accepted",
                                     ![c].server = server,
                                     ![c].reliable = reliable]
           ELSE Advance(c, "refused")
        /\ UNCHANGED <<netState, listening>>

(* The else branch: no reply, and false after a delay.                     *)
Refuse(c) ==
    /\ call[c].phase = "refused"
    /\ Return(c, FALSE)
    /\ UNCHANGED <<netState, listening>>

DropRequest(c) ==
    /\ call[c].phase = "accepted"
    /\ ~call[c].reliable
    /\ Return(c, FALSE)
    /\ UNCHANGED <<netState, listening>>

StartHandler(c) ==
    /\ call[c].phase = "accepted"
    /\ call' = [call EXCEPT ![c].phase = "waiting", ![c].handler = "running"]
    /\ UNCHANGED <<netState, listening>>

(* Server.dispatch and Service.dispatch: the handler of the instance that  *)
(* readEndnameInfo found runs to its end, registered or not.               *)
dispatch(c) ==
    /\ call[c].handler = "running"
    /\ call' = [call EXCEPT ![c].handler = "finished"]
    /\ UNCHANGED <<netState, listening>>

(* The loop of processReq: the handler's reply, or a dead server.          *)
TakeReply(c) ==
    /\ call[c].phase = "waiting"
    /\ call[c].handler = "finished"
    /\ Advance(c, "replied")
    /\ UNCHANGED <<netState, listening>>

NoticeDead(c) ==
    /\ call[c].phase = "waiting"
    /\ isServerDead(c)
    /\ Advance(c, "dead")
    /\ UNCHANGED <<netState, listening>>

(* processReq without the check after its loop.                            *)
CheckDeadSkipped(c) ==
    /\ call[c].phase \in {"replied", "dead"}
    /\ IF call[c].phase = "dead"
       THEN Return(c, FALSE)
       ELSE Advance(c, "answering")
    /\ UNCHANGED <<netState, listening>>

(* The check after the loop.                                               *)
CheckDead(c) ==
    /\ call[c].phase \in {"replied", "dead"}
    /\ IF call[c].phase = "dead" \/ isServerDead(c)
       THEN Return(c, FALSE)
       ELSE Advance(c, "answering")
    /\ UNCHANGED <<netState, listening>>

DropReply(c) ==
    /\ call[c].phase = "answering"
    /\ ~call[c].reliable
    /\ Return(c, FALSE)
    /\ UNCHANGED <<netState, listening>>

Reply(c) ==
    /\ call[c].phase = "answering"
    /\ Return(c, TRUE)
    /\ UNCHANGED <<netState, listening>>

(* Everything processReq does for an RPC, apart from running its handler.  *)
ProcessReq(c) ==
    \/ CallDone(c)
    \/ Receive(c)
    \/ readEndnameInfo(c)
    \/ Refuse(c)
    \/ DropRequest(c)
    \/ StartHandler(c)
    \/ TakeReply(c)
    \/ NoticeDead(c)
    \/ CheckDead(c)
    \/ DropReply(c)
    \/ Reply(c)

NetworkTypeOK ==
    /\ ends \subseteq End
    /\ enabled \in [End -> BOOLEAN]
    /\ connections \in [End -> Server \cup {Nil}]
    /\ servers \in [Server -> Instance \cup {Nil}]
    /\ reliable \in BOOLEAN
    /\ done \in BOOLEAN
    /\ listening \in BOOLEAN
    /\ call \in [Call -> CallType]
=============================================================================
