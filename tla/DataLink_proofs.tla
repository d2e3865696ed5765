--------------------------- MODULE DataLink_proofs ---------------------------
(* Proofs about DataLink, for every fleet, packet set, bound and fault set. *)
EXTENDS DataLink, TLAPS

(* The last entry of a routing path is a ship.                             *)
LEMMA TxType == ASSUME NEW f \in Frames PROVE Tx(f) \in Nodes
BY DEF Frames, Paths, Tx

LEMMA RcvType == ASSUME NEW f \in Frames PROVE Rcv(f) \in Packets \X Targets
BY DEF Frames, Rcv

(* A job the gateway enqueues is well typed.                               *)
LEMMA JobType ==
  ASSUME NEW f \in Frames, NEW pc \in {"tx", "ack"}
  PROVE  Job(pc, f, NoNode, 0) \in Jobs
BY DEF Job, Jobs

(* A worker's job stays well typed from step to step.                      *)
LEMMA JobSteps ==
  ASSUME NEW j \in Jobs
  PROVE  /\ \A pc \in {"heard", "bound", "back", "dup"} :
              LET i == [j EXCEPT !.pc = pc] IN
              i \in Jobs /\ i.pc = pc /\ i.frame = j.frame
         /\ \A win \in Nat :
              LET i == [j EXCEPT !.pc = "first", !.win = win] IN
              i \in Jobs /\ i.pc = "first" /\ i.frame = j.frame
         /\ \A to \in Nodes :
              LET i == [j EXCEPT !.pc = "relay", !.to = to] IN
              i \in Jobs /\ i.pc = "relay" /\ i.frame = j.frame
<1>1. ASSUME NEW pc \in {"heard", "bound", "back", "dup"}
      PROVE  LET i == [j EXCEPT !.pc = pc] IN i \in Jobs /\ i.pc = pc /\ i.frame = j.frame
  BY DEF Jobs
<1>2. ASSUME NEW win \in Nat
      PROVE  LET i == [j EXCEPT !.pc = "first", !.win = win] IN
             i \in Jobs /\ i.pc = "first" /\ i.frame = j.frame
  BY DEF Jobs
<1>3. ASSUME NEW to \in Nodes
      PROVE  LET i == [j EXCEPT !.pc = "relay", !.to = to] IN
             i \in Jobs /\ i.pc = "relay" /\ i.frame = j.frame
  BY DEF Jobs
<1> QED BY <1>1, <1>2, <1>3

LEMMA MsgType ==
  ASSUME NEW f \in Frames, NEW n \in Nodes, NEW kind \in {"rf", "ack", "dupack"}
  PROVE  Msg(kind, n, f) \in Msgs
BY DEF Msg, Msgs

(* The initial state is well typed and well formed.                        *)
LEMMA InitType == Init => TypeOK /\ WellFormed
<1>1. Init => TypeOK
  <2>1. Init => scenario \in ScenarioType /\ parent \in [Nodes -> Targets \cup {NoNode}]
    BY DataLinkAssumption DEF Init, ScenarioType
  <2> QED BY <2>1 DEF Init, TypeOK, Senders, Roles, NoRole, Targets
<1>2. Init => WellFormed
  BY DEF Init, WellFormed
<1> QED BY <1>1, <1>2

(* What one attempt does to the ship's variables and to the job queue.     *)
LEMMA TransmitType ==
  ASSUME TypeOK, WellFormed,
         NEW n \in Nodes, NEW f \in Frames, NEW role \in Roles,
         Tx(f) = n, Transmit(n, f, role)
  PROVE  /\ waiter' \in [Nodes \X Packets -> Roles \cup {NoRole}]
         /\ out' \in [Senders -> Frames \cup {NoFrame}]
         /\ st' \in [Senders -> {"idle", "wait", "signalled", "expired",
                                 "acked", "dead", "halted"}]
         /\ jobs' \subseteq Jobs
         /\ \A k \in Senders : st'[k] # "idle" =>
              out'[k] \in Frames /\ out'[k].pkt = k[2] /\ Tx(out'[k]) = k[1]
         /\ \A j \in jobs' :
              /\ j.pc \in {"bound", "ack", "relay"} => j.frame.target \in Nodes
              /\ j.pc = "relay" => j.to \in Nodes
<1> DEFINE k0 == <<n, f.pkt, role>>
           j0 == Job("tx", f, NoNode, 0)
<1>1. f.pkt \in Packets
  BY DEF Frames
<1>2. k0 \in Senders /\ <<n, f.pkt>> \in Nodes \X Packets
  BY <1>1 DEF Senders
<1>3. k0[1] = n /\ k0[2] = f.pkt
  OBVIOUS
<1>4. waiter' = [waiter EXCEPT ![<<n, f.pkt>>] = role] /\ out' = [out EXCEPT ![k0] = f]
  BY DEF Transmit
<1>5. \/ st' = [st EXCEPT ![k0] = "wait"]
      \/ st' = [st EXCEPT ![k0] = "halted"]
  BY DEF Transmit
<1>6. jobs' \subseteq jobs \cup {j0}
  BY DEF Transmit, Uplink
<1>7. j0 \in Jobs /\ j0.pc = "tx"
  BY JobType DEF Job
<1> HIDE DEF k0, j0
<1>8. waiter' \in [Nodes \X Packets -> Roles \cup {NoRole}]
  BY <1>2, <1>4 DEF TypeOK
<1>9. out' \in [Senders -> Frames \cup {NoFrame}]
  BY <1>2, <1>4 DEF TypeOK
<1>10. st' \in [Senders -> {"idle", "wait", "signalled", "expired",
                            "acked", "dead", "halted"}]
  BY <1>2, <1>5 DEF TypeOK
<1>11. jobs' \subseteq Jobs
  BY <1>6, <1>7 DEF TypeOK
<1>12. ASSUME NEW k \in Senders, st'[k] # "idle"
       PROVE  out'[k] \in Frames /\ out'[k].pkt = k[2] /\ Tx(out'[k]) = k[1]
  <2>1. CASE k = k0
    <3>1. out'[k] = f
      BY <2>1, <1>2, <1>4 DEF TypeOK
    <3> QED BY <3>1, <2>1, <1>3
  <2>2. CASE k # k0
    <3>1. out'[k] = out[k] /\ st'[k] = st[k]
      BY <2>2, <1>2, <1>4, <1>5 DEF TypeOK
    <3> QED BY <3>1, <1>12 DEF WellFormed
  <2> QED BY <2>1, <2>2
<1>13. ASSUME NEW j \in jobs'
       PROVE  /\ j.pc \in {"bound", "ack", "relay"} => j.frame.target \in Nodes
              /\ j.pc = "relay" => j.to \in Nodes
  BY <1>6, <1>7 DEF WellFormed
<1> QED BY <1>8, <1>9, <1>10, <1>11, <1>12, <1>13

(* The frames a ship writes: its own report, the same frame again with the *)
(* next attempt, and a frame it relays with its own name on the path.      *)
LEMMA OriginateFrame ==
  ASSUME TypeOK, NEW p \in Packets, Originate(p)
  PROVE  /\ Origin[p] \in Nodes
         /\ \E f \in Frames :
              /\ f.pkt = p /\ f.path = <<Origin[p]>> /\ f.hop = 1 /\ Tx(f) = Origin[p]
              /\ Transmit(Origin[p], f, "origin")
<1> DEFINE n == Origin[p]
           f == [pkt |-> p, target |-> parent[n], hop |-> 1,
                 path |-> <<n>>, attempt |-> 0]
<1>1. n \in Nodes
  BY DataLinkAssumption
<1>2. parent[n] \in Targets
  BY <1>1 DEF Originate, TypeOK
<1>3. f \in Frames /\ f.pkt = p /\ f.path = <<n>> /\ f.hop = 1 /\ Tx(f) = n
  BY <1>1, <1>2, DataLinkAssumption DEF Frames, Paths, Tx
<1>4. Transmit(n, f, "origin")
  BY DEF Originate
<1> HIDE DEF f
<1> QED BY <1>1, <1>3, <1>4

LEMMA RetryFrame ==
  ASSUME TypeOK, WellFormed, NEW k \in Senders, Retry(k)
  PROVE  /\ k[1] \in Nodes /\ k[3] \in Roles /\ st[k] = "expired" /\ out[k] \in Frames
         /\ \E f \in Frames :
              /\ f.pkt = k[2] /\ f.target = out[k].target /\ f.path = out[k].path
              /\ f.hop = out[k].hop /\ f.attempt - out[k].attempt = 1
              /\ Tx(f) = k[1] /\ Transmit(k[1], f, k[3])
<1> DEFINE f == [out[k] EXCEPT !.attempt = @ + 1]
<1>1. k[1] \in Nodes /\ k[3] \in Roles
  BY DEF Senders
<1>2. /\ out[k] \in Frames /\ Tx(out[k]) = k[1] /\ out[k].pkt = k[2]
      /\ out[k].attempt < MaxRetries /\ st[k] = "expired"
  BY DataLinkAssumption DEF Retry, WellFormed, TypeOK, ScenarioType, Frames
<1>3. /\ f \in Frames /\ f.pkt = out[k].pkt /\ f.target = out[k].target
      /\ f.path = out[k].path /\ f.hop = out[k].hop /\ f.attempt - out[k].attempt = 1
  BY <1>2, DataLinkAssumption DEF Frames
<1>4. Tx(f) = k[1]
  BY <1>2, <1>3 DEF Tx
<1>5. Transmit(k[1], f, k[3])
  BY DEF Retry
<1> HIDE DEF f
<1> QED BY <1>1, <1>2, <1>3, <1>4, <1>5

LEMMA AcceptFrame ==
  ASSUME TypeOK, WellFormed, NEW f \in rx, Accept(f),
         f.pkt \notin seen[f.target], parent[f.target] # NoNode
  PROVE  \E g \in Frames :
           /\ g.pkt = f.pkt /\ g.path = Append(f.path, f.target) /\ g.hop = f.hop + 1
           /\ Tx(g) = f.target /\ Transmit(f.target, g, "relay")
<1> DEFINE n == f.target
           g == Relayed(f, n)
<1>1. n \in Nodes /\ f \in Frames
  BY DEF TypeOK, WellFormed
<1>2. parent[n] \in Targets
  BY <1>1 DEF TypeOK
<1>3. Append(f.path, n) \in Paths /\ Len(Append(f.path, n)) = Len(f.path) + 1
  BY <1>1 DEF Frames, Paths
<1>4. g \in Frames /\ g.pkt = f.pkt /\ g.path = Append(f.path, n) /\ g.hop = f.hop + 1
  BY <1>1, <1>2, <1>3, DataLinkAssumption DEF Relayed, Frames
<1>5. Tx(g) = n
  BY <1>1, <1>3, <1>4 DEF Tx, Frames, Paths
<1>6. Transmit(n, g, "relay")
  BY DEF Accept
<1> HIDE DEF g
<1> QED BY <1>4, <1>5, <1>6

(* A ship's steps keep the state well typed and well formed.               *)
LEMMA ShipType == TypeOK /\ WellFormed /\ Ship => TypeOK' /\ WellFormed'
<1> SUFFICES ASSUME TypeOK, WellFormed, Ship PROVE TypeOK' /\ WellFormed'
  OBVIOUS
<1> USE DEF engineVars
<1>1. ASSUME NEW p \in Packets, Originate(p) PROVE TypeOK' /\ WellFormed'
  <2> PICK f \in Frames : Tx(f) = Origin[p] /\ Transmit(Origin[p], f, "origin")
    BY <1>1, OriginateFrame
  <2>1. Origin[p] \in Nodes /\ "origin" \in Roles
    BY <1>1, OriginateFrame DEF Roles
  <2> QED BY <1>1, <2>1, TransmitType DEF Originate, TypeOK, WellFormed
<1>2. ASSUME NEW k \in Senders, Timeout(k) PROVE TypeOK' /\ WellFormed'
  BY <1>2 DEF Timeout, TypeOK, WellFormed
<1>3. ASSUME NEW k \in Senders, Acked(k) PROVE TypeOK' /\ WellFormed'
  BY <1>3 DEF Acked, TypeOK, WellFormed
<1>4. ASSUME NEW k \in Senders, Retry(k) PROVE TypeOK' /\ WellFormed'
  <2> PICK f \in Frames : Tx(f) = k[1] /\ Transmit(k[1], f, k[3])
    BY <1>4, RetryFrame
  <2>1. k[1] \in Nodes /\ k[3] \in Roles
    BY DEF Senders
  <2> QED BY <1>4, <2>1, TransmitType DEF Retry, TypeOK, WellFormed
<1>5. ASSUME NEW k \in Senders, GiveUp(k) PROVE TypeOK' /\ WellFormed'
  BY <1>5 DEF GiveUp, TypeOK, WellFormed, Senders
<1>6. ASSUME NEW m \in down, HearAck(m) PROVE TypeOK' /\ WellFormed'
  BY <1>6 DEF HearAck, TypeOK, WellFormed, Msgs, Senders
<1>7. ASSUME NEW m \in down, HearFrame(m) PROVE TypeOK' /\ WellFormed'
  <2> DEFINE j0 == Job("ack", m.frame, NoNode, 0)
  <2>1. m.frame \in Frames /\ m.to \in Nodes /\ m.frame.target = m.to
    BY <1>7 DEF TypeOK, WellFormed, Msgs, HearFrame
  <2>2. j0 \in Jobs /\ j0.pc = "ack" /\ j0.frame = m.frame
    BY <2>1, JobType DEF Job
  <2>3. jobs' \subseteq jobs \cup {j0}
    BY <1>7 DEF HearFrame, Uplink
  <2> HIDE DEF j0
  <2>4. TypeOK'
    BY <1>7, <2>1, <2>2, <2>3 DEF HearFrame, TypeOK
  <2>5. WellFormed'
    BY <1>7, <2>1, <2>2, <2>3 DEF HearFrame, WellFormed
  <2> QED BY <2>4, <2>5
<1>8. ASSUME NEW f \in rx, Accept(f) PROVE TypeOK' /\ WellFormed'
  <2> DEFINE n == f.target
  <2>1. n \in Nodes /\ f \in Frames /\ "relay" \in Roles
    BY DEF TypeOK, WellFormed, Roles
  <2>2. seen' \in [Nodes -> SUBSET Packets]
    BY <1>8, <2>1 DEF Accept, TypeOK, Frames
  <2>3. CASE f.pkt \in seen[n] \/ parent[n] = NoNode
    BY <1>8, <2>2, <2>3 DEF Accept, TypeOK, WellFormed
  <2>4. CASE ~ (f.pkt \in seen[n] \/ parent[n] = NoNode)
    <3> PICK g \in Frames : Tx(g) = n /\ Transmit(n, g, "relay")
      BY <1>8, <2>4, AcceptFrame
    <3>1. rx' \subseteq rx /\ UNCHANGED <<parent, conn, down, engineVars, scenario>>
      BY <1>8 DEF Accept
    <3> HIDE DEF n
    <3>2. TypeOK'
      BY <2>1, <2>2, <3>1, TransmitType DEF TypeOK
    <3>3. WellFormed'
      BY <2>1, <3>1, TransmitType DEF WellFormed
    <3> QED BY <3>2, <3>3
  <2> QED BY <2>3, <2>4
<1> QED BY <1>1, <1>2, <1>3, <1>4, <1>5, <1>6, <1>7, <1>8 DEF Ship

(* A worker's steps keep the state well typed and well formed.             *)
LEMMA EngineType ==
  ASSUME TypeOK, WellFormed, NEW j \in jobs,
         \/ Drop(j) \/ Heard(j) \/ MarkPacketSeen(j) \/ MarkFails(j)
         \/ RememberAckSender(j) \/ ForwardToNode(j) \/ DeliverToEdge(j)
         \/ AckBack(j) \/ TakeAckSender(j) \/ TakeFails(j) \/ RelayAck(j)
  PROVE  TypeOK' /\ WellFormed'
<1> USE DEF shipVars, engineVars
<1>1. j \in Jobs /\ j.frame \in Frames /\ j.win \in Nat
  BY DEF TypeOK, Jobs
<1>2. Rcv(j.frame) \in Packets \X Targets /\ Tx(j.frame) \in Nodes
  BY <1>1, RcvType, TxType
<1>3. CASE Drop(j) \/ MarkFails(j) \/ TakeFails(j)
  BY <1>3, <1>2 DEF Drop, MarkFails, TakeFails, TypeOK, WellFormed
<1>4. CASE Heard(j)
  <2> DEFINE i == [j EXCEPT !.pc = "heard"]
  <2>1. i \in Jobs /\ i.pc = "heard"
    BY <1>1, JobSteps
  <2> QED BY <1>4, <2>1 DEF Heard, TypeOK, WellFormed
<1>5. CASE MarkPacketSeen(j)
  <2> DEFINE x == Rcv(j.frame)
             i == IF dedup[x] THEN [j EXCEPT !.pc = "dup"]
                              ELSE [j EXCEPT !.pc = "first", !.win = expired[x]]
  <2>1. i \in Jobs /\ i.pc \in {"dup", "first"}
    <3>1. expired[x] \in Nat
      BY <1>2 DEF TypeOK
    <3>2. CASE dedup[x]
      BY <1>1, <3>2, JobSteps
    <3>3. CASE ~ dedup[x]
      <4>1. PICK win \in Nat : win = expired[x]
        BY <3>1
      <4>2. i = [j EXCEPT !.pc = "first", !.win = win]
        BY <3>3, <4>1
      <4> HIDE DEF i
      <4> QED BY <1>1, <4>2, JobSteps
    <3> QED BY <3>2, <3>3
  <2>2. jobs' = (jobs \ {j}) \cup {i}
    BY <1>5 DEF MarkPacketSeen
  <2> HIDE DEF i
  <2> QED BY <1>5, <1>2, <2>1, <2>2 DEF MarkPacketSeen, TypeOK, WellFormed
<1>6. CASE RememberAckSender(j)
  <2> DEFINE i == [j EXCEPT !.pc = "bound"]
  <2>1. i \in Jobs /\ i.pc = "bound" /\ i.frame = j.frame
    BY <1>1, JobSteps
  <2> QED BY <1>6, <1>2, <2>1 DEF RememberAckSender, TypeOK, WellFormed
<1>7. CASE ForwardToNode(j)
  <2> DEFINE m == Msg("rf", j.frame.target, j.frame)
  <2>1. j.frame.target \in Nodes
    BY <1>7 DEF ForwardToNode, WellFormed
  <2>2. m \in Msgs /\ m.frame.target = m.to
    BY <1>1, <2>1, MsgType DEF Msg
  <2>3. down' \subseteq down \cup {m}
    BY <1>7 DEF ForwardToNode, Downlink
  <2>4. [frame |-> j.frame, win |-> j.win] \in [frame: Frames, win: Nat]
    BY <1>1
  <2>5. handed' \subseteq [frame: Frames, win: Nat]
    BY <1>7, <2>4 DEF ForwardToNode, TypeOK
  <2> HIDE DEF m
  <2> QED BY <1>7, <2>2, <2>3, <2>5 DEF ForwardToNode, TypeOK, WellFormed
<1>8. CASE DeliverToEdge(j)
  <2> DEFINE i == [j EXCEPT !.pc = "back"]
  <2>1. i \in Jobs /\ i.pc = "back"
    BY <1>1, JobSteps
  <2>2. [frame |-> j.frame, win |-> j.win] \in [frame: Frames, win: Nat]
    BY <1>1
  <2>3. rows' \subseteq Frames
    BY <1>8, <1>1 DEF DeliverToEdge, TypeOK
  <2> QED BY <1>8, <2>1, <2>2, <2>3 DEF DeliverToEdge, TypeOK, WellFormed
<1>9. CASE AckBack(j)
  <2> DEFINE m == Msg(IF j.pc = "dup" THEN "dupack" ELSE "ack",
                      Tx(j.frame), j.frame)
  <2>1. m \in Msgs /\ m.kind # "rf"
    BY <1>1, <1>2, MsgType DEF Msg
  <2>2. down' \subseteq down \cup {m}
    BY <1>9 DEF AckBack, Downlink
  <2> HIDE DEF m
  <2> QED BY <1>9, <2>1, <2>2 DEF AckBack, TypeOK, WellFormed
<1>10. CASE TakeAckSender(j)
  <2> DEFINE x == Rcv(j.frame)
             i == [j EXCEPT !.pc = "relay", !.to = ackSender[x]]
  <2>1. ackSender' = [ackSender EXCEPT ![x] = NoNode] /\ j.frame.target \in Nodes
    BY <1>10 DEF TakeAckSender, WellFormed
  <2>2. ackSender' \in [Packets \X Targets -> Nodes \cup {NoNode}]
    BY <1>2, <2>1 DEF TypeOK
  <2>3. CASE ackSender[x] = NoNode
    <3>1. jobs' \subseteq jobs
      BY <1>10, <2>3 DEF TakeAckSender
    <3> QED BY <1>10, <3>1, <2>2 DEF TakeAckSender, TypeOK, WellFormed
  <2>4. CASE ackSender[x] # NoNode
    <3>1. ackSender[x] \in Nodes
      BY <1>2, <2>4 DEF TypeOK
    <3>2. i \in Jobs /\ i.pc = "relay" /\ i.to \in Nodes /\ i.frame = j.frame
      BY <1>1, <3>1, JobSteps DEF Jobs
    <3>3. jobs' \subseteq jobs \cup {i}
      BY <1>10 DEF TakeAckSender
    <3> HIDE DEF i
    <3> QED BY <1>10, <2>1, <2>2, <3>2, <3>3 DEF TakeAckSender, TypeOK, WellFormed
  <2> QED BY <2>3, <2>4
<1>11. CASE RelayAck(j)
  <2> DEFINE m == Msg("ack", j.to, j.frame)
  <2>1. j.to \in Nodes
    BY <1>11 DEF RelayAck, WellFormed
  <2>2. m \in Msgs /\ m.kind # "rf"
    BY <1>1, <2>1, MsgType DEF Msg
  <2>3. down' \subseteq down \cup {m}
    BY <1>11 DEF RelayAck, Downlink
  <2> HIDE DEF m
  <2> QED BY <1>11, <2>2, <2>3 DEF RelayAck, TypeOK, WellFormed
<1> QED BY <1>3, <1>4, <1>5, <1>6, <1>7, <1>8, <1>9, <1>10, <1>11

(* Routing updates, departures and TTLs keep it so too.                    *)
LEMMA SurroundingsType ==
  TypeOK /\ WellFormed /\ Surroundings => TypeOK' /\ WellFormed'
<1> SUFFICES ASSUME TypeOK, WellFormed, Surroundings PROVE TypeOK' /\ WellFormed'
  OBVIOUS
<1> USE DEF shipVars, engineVars
<1>1. ASSUME NEW n \in Nodes, NEW t \in Targets \cup {NoNode}, Reroute(n, t)
      PROVE  TypeOK' /\ WellFormed'
  <2>1. scenario' \in ScenarioType
    <3>1. scenario \in ScenarioType /\ scenario.changes > 0
      BY <1>1 DEF Reroute, TypeOK
    <3>2. scenario' = [scenario EXCEPT !.changes = @ - 1]
      BY <1>1 DEF Reroute
    <3>3. scenario.changes - 1 \in Nat
      BY <3>1 DEF ScenarioType
    <3> QED BY <3>1, <3>2, <3>3 DEF ScenarioType
  <2>2. parent' \in [Nodes -> Targets \cup {NoNode}]
    BY <1>1 DEF Reroute, TypeOK
  <2> QED BY <1>1, <2>1, <2>2 DEF Reroute, TypeOK, WellFormed
<1>2. ASSUME NEW n \in Nodes, Leave(n) \/ NodeDisconnected(n)
      PROVE  TypeOK' /\ WellFormed'
  BY <1>2 DEF Leave, NodeDisconnected, TypeOK, WellFormed
<1>3. ASSUME NEW x \in Packets \X Targets, ExpireDedup(x) \/ ExpireAckSender(x)
      PROVE  TypeOK' /\ WellFormed'
  <2>1. dedup' \in [Packets \X Targets -> BOOLEAN]
    BY <1>3 DEF ExpireDedup, ExpireAckSender, TypeOK
  <2>2. ackSender' \in [Packets \X Targets -> Nodes \cup {NoNode}]
    BY <1>3 DEF ExpireDedup, ExpireAckSender, TypeOK
  <2>3. expired' \in [Packets \X Targets -> Nat]
    BY <1>3 DEF ExpireDedup, ExpireAckSender, TypeOK
  <2>4. UNCHANGED <<shipVars, conn, down, jobs, rows, handed, scenario>>
    BY <1>3 DEF ExpireDedup, ExpireAckSender
  <2> QED BY <2>1, <2>2, <2>3, <2>4 DEF TypeOK, WellFormed
<1>4. CASE \E n \in Nodes, t \in Targets \cup {NoNode} : Reroute(n, t)
  BY <1>1, <1>4
<1>5. CASE \E n \in Nodes : Leave(n) \/ NodeDisconnected(n)
  BY <1>2, <1>5
<1>6. CASE \E x \in Packets \X Targets : ExpireDedup(x) \/ ExpireAckSender(x)
  BY <1>3, <1>6
<1> QED BY <1>4, <1>5, <1>6 DEF Surroundings

LEMMA NextType == TypeOK /\ WellFormed /\ [Next]_vars => TypeOK' /\ WellFormed'
<1> SUFFICES ASSUME TypeOK, WellFormed, [Next]_vars PROVE TypeOK' /\ WellFormed'
  OBVIOUS
<1>1. CASE Ship
  BY <1>1, ShipType
<1>2. CASE Engine
  BY <1>2, EngineType DEF Engine
<1>3. CASE Surroundings
  BY <1>3, SurroundingsType
<1>4. CASE UNCHANGED vars
  BY <1>4 DEF vars, shipVars, engineVars, TypeOK, WellFormed
<1> QED BY <1>1, <1>2, <1>3, <1>4 DEF Next

(* Every reachable state is well typed, and every running goroutine and    *)
(* every message to a radio names the ships it should.                     *)
THEOREM TypeCorrect == Spec => [](TypeOK /\ WellFormed)
<1>1. Init => TypeOK /\ WellFormed
  BY InitType
<1>2. TypeOK /\ WellFormed /\ [Next]_vars => (TypeOK /\ WellFormed)'
  BY NextType
<1> QED BY <1>1, <1>2, PTL DEF Spec

-----------------------------------------------------------------------------
(* The deduplication windows.                                              *)

(* A step that marks nothing, hands nothing over and expires nothing keeps *)
(* the windows, whatever pending work it takes away.                       *)
LEMMA WindowsKept ==
  ASSUME Windows, OncePerWindow, Pending' \subseteq Pending,
         UNCHANGED <<handed, dedup, expired>>
  PROVE  Windows' /\ OncePerWindow'
BY DEF Windows, OncePerWindow, WindowOpen, Rcv

(* What a ship enqueues is not pending: no worker has marked it.           *)
LEMMA ShipWindows ==
  ASSUME Windows, OncePerWindow, Ship
  PROVE  Windows' /\ OncePerWindow'
<1>1. ASSUME NEW n, NEW f, NEW pc \in {"tx", "ack"}, Uplink(n, Job(pc, f, NoNode, 0))
      PROVE  Pending' \subseteq Pending
  BY <1>1 DEF Uplink, Pending, Job
<1>2. ASSUME NEW n, NEW f, NEW role, Transmit(n, f, role)
      PROVE  Pending' \subseteq Pending
  BY <1>1, <1>2 DEF Transmit, Pending
<1>3. UNCHANGED jobs => Pending' \subseteq Pending
  BY DEF Pending
<1>4. ASSUME NEW p \in Packets, Originate(p)
      PROVE  Pending' \subseteq Pending /\ UNCHANGED engineVars
  BY <1>2, <1>4 DEF Originate
<1>5. ASSUME NEW k \in Senders, Timeout(k) \/ Acked(k) \/ Retry(k) \/ GiveUp(k)
      PROVE  Pending' \subseteq Pending /\ UNCHANGED engineVars
  BY <1>2, <1>3, <1>5 DEF Timeout, Acked, Retry, GiveUp
<1>6. ASSUME NEW m \in down, HearAck(m) \/ HearFrame(m)
      PROVE  Pending' \subseteq Pending /\ UNCHANGED engineVars
  BY <1>1, <1>3, <1>6 DEF HearAck, HearFrame
<1>7. ASSUME NEW f \in rx, Accept(f)
      PROVE  Pending' \subseteq Pending /\ UNCHANGED engineVars
  BY <1>2, <1>3, <1>7 DEF Accept
<1>8. Pending' \subseteq Pending /\ UNCHANGED engineVars
  BY <1>4, <1>5, <1>6, <1>7 DEF Ship
<1> QED BY <1>8, WindowsKept DEF engineVars

(* A worker marks a frame only where the key is not set, and hands over    *)
(* only what it marked.                                                    *)
LEMMA EngineWindows ==
  ASSUME TypeOK, Windows, OncePerWindow, NEW j \in jobs,
         \/ Drop(j) \/ Heard(j) \/ MarkPacketSeen(j) \/ MarkFails(j)
         \/ RememberAckSender(j) \/ ForwardToNode(j) \/ DeliverToEdge(j)
         \/ AckBack(j) \/ TakeAckSender(j) \/ TakeFails(j) \/ RelayAck(j)
  PROVE  Windows' /\ OncePerWindow'
<1> USE DEF engineVars
<1>1. j \in Jobs /\ j.frame \in Frames /\ j.win \in Nat
  BY DEF TypeOK, Jobs
<1>2. Rcv(j.frame) \in Packets \X Targets
  BY <1>1, RcvType
<1>3. CASE Drop(j) \/ Heard(j) \/ AckBack(j) \/ TakeAckSender(j) \/ TakeFails(j) \/ RelayAck(j)
  <2>1. [j EXCEPT !.pc = "heard"].pc = "heard"
    BY <1>1 DEF Jobs
  <2>2. \A to : [j EXCEPT !.pc = "relay", !.to = to].pc = "relay"
    BY <1>1 DEF Jobs
  <2>3. Pending' \subseteq Pending
    BY <1>3, <2>1, <2>2
    DEF Pending, Drop, Heard, AckBack, TakeAckSender, TakeFails, RelayAck
  <2>4. UNCHANGED <<handed, dedup, expired>>
    BY <1>3 DEF Drop, Heard, AckBack, TakeAckSender, TakeFails, RelayAck
  <2> QED BY <2>3, <2>4, WindowsKept
<1>4. CASE MarkPacketSeen(j)
  <2> DEFINE x == Rcv(j.frame)
  <2>1. dedup' = [dedup EXCEPT ![x] = TRUE] /\ UNCHANGED <<handed, expired>>
    BY <1>4 DEF MarkPacketSeen
  <2>2. \A y \in Packets \X Targets : dedup[y] => dedup'[y]
    BY <2>1 DEF TypeOK
  <2>3. dedup'[x]
    BY <2>1, <1>2 DEF TypeOK
  <2>4. ASSUME NEW f \in Frames, NEW w \in Nat, WindowOpen(f, w) PROVE WindowOpen(f, w)'
    BY <2>1, <2>2, <2>4, RcvType DEF WindowOpen, Rcv
  <2>5. \A h \in handed : h.frame \in Frames /\ h.win \in Nat
    BY DEF TypeOK
  <2>6. \A l \in Pending : l.frame \in Frames /\ l.win \in Nat
    BY DEF TypeOK, Pending, Jobs
  <2>7. CASE dedup[x]
    <3>1. [j EXCEPT !.pc = "dup"].pc = "dup"
      BY <1>1 DEF Jobs
    <3>2. Pending' \subseteq Pending
      BY <1>4, <2>7, <3>1 DEF MarkPacketSeen, Pending
    <3> QED BY <2>1, <2>4, <2>5, <2>6, <3>2 DEF Windows, OncePerWindow, Rcv
  <2>8. CASE ~ dedup[x]
    <3>3. expired[x] \in Nat
      BY <1>2 DEF TypeOK
    <3> PICK w \in Nat : w = expired[x]
      BY <3>3
    <3> DEFINE i == [j EXCEPT !.pc = "first", !.win = w]
    <3>1. i.frame = j.frame /\ i.win = w /\ i.win = expired[x]
      BY <1>1 DEF Jobs
    <3>2. Pending' \subseteq Pending \cup {i}
      BY <1>4, <2>8 DEF MarkPacketSeen, Pending
    <3>4. WindowOpen(i.frame, i.win)'
      BY <2>1, <2>3, <3>1, <3>3 DEF WindowOpen, Rcv
    <3>5. ASSUME NEW h \in handed PROVE ~ (Rcv(h.frame) = x /\ h.win = expired[x])
      BY <2>8 DEF Windows, WindowOpen
    <3>6. ASSUME NEW l \in Pending PROVE ~ (Rcv(l.frame) = x /\ l.win = expired[x])
      BY <2>8 DEF Windows, WindowOpen
    <3> HIDE DEF i
    <3>7. \A h \in handed' : WindowOpen(h.frame, h.win)'
      BY <2>1, <2>4, <2>5 DEF Windows
    <3>8. \A l \in Pending' : WindowOpen(l.frame, l.win)'
      BY <2>4, <2>6, <3>2, <3>4 DEF Windows
    <3>9. \A h \in handed', l \in Pending' :
             ~ (Rcv(h.frame) = Rcv(l.frame) /\ h.win = l.win)
      BY <2>1, <3>1, <3>2, <3>5 DEF Windows
    <3>10. \A k, l \in Pending' : Rcv(k.frame) = Rcv(l.frame) /\ k.win = l.win => k = l
      BY <3>1, <3>2, <3>6 DEF Windows
    <3> QED BY <2>1, <3>7, <3>8, <3>9, <3>10 DEF Windows, OncePerWindow, Rcv
  <2> QED BY <2>7, <2>8
<1>5. CASE MarkFails(j)
  <2>1. Pending' \subseteq Pending /\ UNCHANGED <<handed, expired>>
    BY <1>5 DEF MarkFails, Pending
  <2>2. \A y \in Packets \X Targets : dedup[y] => dedup'[y]
    BY <1>5 DEF MarkFails, TypeOK
  <2>3. ASSUME NEW f \in Frames, NEW w \in Nat, WindowOpen(f, w) PROVE WindowOpen(f, w)'
    BY <2>1, <2>2, <2>3, RcvType DEF WindowOpen, Rcv
  <2>4. \A h \in handed : h.frame \in Frames /\ h.win \in Nat
    BY DEF TypeOK
  <2>5. \A l \in Pending : l.frame \in Frames /\ l.win \in Nat
    BY DEF TypeOK, Pending, Jobs
  <2> QED BY <2>1, <2>3, <2>4, <2>5 DEF Windows, OncePerWindow, Rcv
<1>6. CASE RememberAckSender(j)
  <2> DEFINE i == [j EXCEPT !.pc = "bound"]
  <2>1. i.frame = j.frame /\ i.win = j.win
    BY <1>1 DEF Jobs
  <2>2. j \in Pending /\ Pending' \subseteq (Pending \ {j}) \cup {i}
    BY <1>6 DEF RememberAckSender, Pending
  <2>3. UNCHANGED <<handed, dedup, expired>>
    BY <1>6 DEF RememberAckSender
  <2> HIDE DEF i
  <2> QED BY <2>1, <2>2, <2>3 DEF Windows, OncePerWindow, WindowOpen, Rcv
<1>7. CASE ForwardToNode(j) \/ DeliverToEdge(j)
  <2> DEFINE h0 == [frame |-> j.frame, win |-> j.win]
  <2>1. [j EXCEPT !.pc = "back"].pc = "back"
    BY <1>1 DEF Jobs
  <2>2. j \in Pending /\ Pending' \subseteq Pending \ {j}
    BY <1>7, <2>1 DEF ForwardToNode, DeliverToEdge, Pending
  <2>3. handed' \subseteq handed \cup {h0} /\ UNCHANGED <<dedup, expired>>
    BY <1>7 DEF ForwardToNode, DeliverToEdge
  <2>4. h0.frame = j.frame /\ h0.win = j.win
    OBVIOUS
  <2> HIDE DEF h0
  <2> QED BY <2>2, <2>3, <2>4 DEF Windows, OncePerWindow, WindowOpen, Rcv
<1> QED BY <1>3, <1>4, <1>5, <1>6, <1>7

(* An expiry closes the window that was open.                              *)
LEMMA SurroundingsWindows ==
  ASSUME TypeOK, Windows, OncePerWindow, Surroundings
  PROVE  Windows' /\ OncePerWindow'
<1> USE DEF engineVars
<1>1. UNCHANGED jobs => Pending' = Pending
  BY DEF Pending
<1>2. CASE \E n \in Nodes, t \in Targets \cup {NoNode} : Reroute(n, t)
  BY <1>1, <1>2, WindowsKept DEF Reroute
<1>3. CASE \E n \in Nodes : Leave(n) \/ NodeDisconnected(n)
  BY <1>1, <1>3, WindowsKept DEF Leave, NodeDisconnected
<1>4. ASSUME NEW x \in Packets \X Targets, ExpireAckSender(x)
      PROVE  Windows' /\ OncePerWindow'
  BY <1>1, <1>4, WindowsKept DEF ExpireAckSender
<1>5. ASSUME NEW x \in Packets \X Targets, ExpireDedup(x)
      PROVE  Windows' /\ OncePerWindow'
  <2>1. Pending' = Pending /\ handed' = handed
    BY <1>1, <1>5 DEF ExpireDedup
  <2>2. /\ expired' = [expired EXCEPT ![x] = expired[x] + 1]
        /\ dedup' = [dedup EXCEPT ![x] = FALSE]
    BY <1>5 DEF ExpireDedup
  <2>3. \A y \in Packets \X Targets : y # x => expired'[y] = expired[y] /\ dedup'[y] = dedup[y]
    BY <2>2 DEF TypeOK
  <2>4. expired'[x] = expired[x] + 1 /\ expired[x] \in Nat
    BY <2>2 DEF TypeOK
  <2>5. ASSUME NEW f \in Frames, NEW w \in Nat, WindowOpen(f, w) PROVE WindowOpen(f, w)'
    <3>1. Rcv(f) \in Packets \X Targets /\ Rcv(f)' = Rcv(f)
      BY RcvType DEF Rcv
    <3>2. w \in Nat /\ w <= expired[Rcv(f)] /\ (w = expired[Rcv(f)] => dedup[Rcv(f)])
      BY <2>5 DEF WindowOpen
    <3>3. CASE Rcv(f) = x
      <4>1. w <= expired'[x] /\ w # expired'[x]
        BY <2>4, <3>2, <3>3
      <4> QED BY <4>1, <3>1, <3>3 DEF WindowOpen
    <3>4. CASE Rcv(f) # x
      <4>1. expired'[Rcv(f)] = expired[Rcv(f)] /\ dedup'[Rcv(f)] = dedup[Rcv(f)]
        BY <2>3, <3>1, <3>4
      <4> QED BY <4>1, <3>1, <3>2 DEF WindowOpen
    <3> QED BY <3>3, <3>4
  <2>6. \A h \in handed : h.frame \in Frames /\ h.win \in Nat
    BY DEF TypeOK
  <2>7. \A l \in Pending : l.frame \in Frames /\ l.win \in Nat
    BY DEF TypeOK, Pending, Jobs
  <2> QED BY <2>1, <2>5, <2>6, <2>7 DEF Windows, OncePerWindow, Rcv
<1>6. CASE \E x \in Packets \X Targets : ExpireDedup(x) \/ ExpireAckSender(x)
  BY <1>4, <1>5, <1>6
<1> QED BY <1>2, <1>3, <1>6 DEF Surroundings

LEMMA WindowsStep ==
  TypeOK /\ Windows /\ OncePerWindow /\ [Next]_vars => (Windows /\ OncePerWindow)'
<1> SUFFICES ASSUME TypeOK, Windows, OncePerWindow, [Next]_vars
             PROVE  (Windows /\ OncePerWindow)'
  OBVIOUS
<1>1. CASE Ship
  BY <1>1, ShipWindows
<1>2. CASE Engine
  BY <1>2, EngineWindows DEF Engine
<1>3. CASE Surroundings
  BY <1>3, SurroundingsWindows
<1>4. CASE UNCHANGED vars
  BY <1>4, WindowsKept DEF vars, engineVars, Pending
<1> QED BY <1>1, <1>2, <1>3, <1>4 DEF Next

LEMMA WindowsHold == Spec => [](Windows /\ OncePerWindow)
<1>1. Init => Windows /\ OncePerWindow
  BY DEF Init, Windows, OncePerWindow, Pending
<1> QED BY <1>1, WindowsStep, TypeCorrect, PTL DEF Spec

(* Between two expiries of its dedup key a receiver is handed a packet at  *)
(* most once: no interleaving of workers, retries and relays delivers      *)
(* twice what MarkPacketSeen marked once.                                  *)
THEOREM DeliveredOncePerWindow == Spec => []OncePerWindow
BY WindowsHold, PTL
=============================================================================
