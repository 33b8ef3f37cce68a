----------------------------- MODULE TesterInv -----------------------------
(***************************************************************************)
(* The inductive invariant behind PositiveReplyDurable and                 *)
(* OldInstanceSilent of Tester.                                            *)
(***************************************************************************)
EXTENDS Tester

(* A registered instance is the last one started, and it saves into        *)
(* cfg.saved; ShutdownServer and StartServer work on instances that are    *)
(* and are not registered.                                                 *)
ServersInv ==
    /\ \A i \in Server : servers[i] # Nil =>
          servers[i] = Current(i) /\ attached[i] = Current(i) /\ i \in up
    /\ \A i \in up : gen[i] > 0
    /\ \A i \in Server :
          /\ tester = [op |-> "disconnected", server |-> i] => i \in up
          /\ tester = [op |-> "deleted", server |-> i] => i \in up /\ servers[i] = Nil
          /\ tester = [op |-> "starting", server |-> i] =>
                i \notin up /\ attached[i] = Current(i) /\ gen[i] > 0

(* Only the ends of a running, connected instance are enabled.             *)
EndsInv ==
    /\ \A e \in ends :
          /\ connections[e] = e.dst
          /\ e.src \in Server => e.gen <= gen[e.src]
    /\ \A e \in End : enabled[e] /\ e.src \in Server =>
          /\ e.gen = gen[e.src]
          /\ e.src \in up
          /\ tester # [op |-> "disconnected", server |-> e.src]
          /\ tester # [op |-> "deleted", server |-> e.src]

(* What processReq holds of an instance: it was registered once, so it is  *)
(* never the one that is being started.                                    *)
HoldsInv(c) ==
    LET r == call[c]
    IN  /\ r.phase # "unsent" => r.end \in ends
        /\ r.phase \in {"accepted", "waiting", "replied", "dead", "answering"} => r.server # Nil
        /\ r.phase \in {"unsent", "sending", "received", "refused"} => r.server = Nil
        /\ r.phase = "accepted" => r.handler = "none"
        /\ r.handler # "none" => r.server # Nil
        /\ r.server # Nil =>
              /\ r.server.server = r.end.dst
              /\ r.server.gen <= gen[r.end.dst]
              /\ tester = [op |-> "starting", server |-> r.end.dst] =>
                    r.server.gen < gen[r.end.dst]

(* A handler that has finished has saved where the tester will look, as    *)
(* long as its instance is registered; a positive answer is given only     *)
(* after it was seen to be.                                                *)
SavedInv(c) ==
    LET r == call[c]
    IN  /\ r.phase = "replied" => r.handler = "finished"
        /\ r.handler = "finished" /\ servers[r.end.dst] = r.server => c \in saved[r.end.dst]
        /\ r.phase = "answering" \/ (r.phase = "returned" /\ r.ok) => c \in saved[r.end.dst]

(* An RPC of an isolated instance does not get past readEndnameInfo.       *)
LateInv(c) ==
    LET r == call[c]
    IN  c \in late =>
            /\ r.phase \in {"sending", "received", "refused", "returned"}
            /\ r.handler = "none"
            /\ r.end.src \in Server
            /\ Isolated([server |-> r.end.src, gen |-> r.end.gen])

TesterInv ==
    /\ TypeOK
    /\ ServersInv
    /\ EndsInv
    /\ \A c \in Call : HoldsInv(c) /\ SavedInv(c) /\ LateInv(c)
=============================================================================
