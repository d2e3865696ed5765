------------------------- MODULE DataLinkHop_proofs -------------------------
(* Proofs about what a ship is told on one hop of DataLink: verdicts are   *)
(* final, acknowledgements are sound, and the hop implements Delivery.     *)
EXTENDS DataLink_proofs

-----------------------------------------------------------------------------
(* The senders.                                                            *)

(* handleReceive marks a packet seen in the same critical section that     *)
(* starts its relay.                                                       *)
RelaySeen ==
  \A k \in Senders : k[3] = "relay" /\ st[k] # "idle" => k[2] \in seen[k[1]]

(* What a step leaves of a sender: its verdict, once it has one, and the   *)
(* receiver it transmits to, once it has started.                          *)
SenderKept(k) ==
  /\ st[k] \in {"acked", "dead", "halted"} => st'[k] = st[k] /\ out'[k] = out[k]
  /\ st[k] # "idle" => /\ st'[k] # "idle"
                       /\ out'[k].target = out[k].target
                       /\ out'[k].attempt - out[k].attempt \in {0, 1}

LEMMA TransmitSenders ==
  ASSUME TypeOK, NEW n \in Nodes, NEW f \in Frames, NEW role \in Roles,
         Transmit(n, f, role)
  PROVE  LET k0 == <<n, f.pkt, role>> IN
         /\ k0 \in Senders
         /\ out'[k0] = f /\ st'[k0] \in {"wait", "halted"}
         /\ \A k \in Senders \ {k0} : out'[k] = out[k] /\ st'[k] = st[k]
<1> DEFINE k0 == <<n, f.pkt, role>>
<1>1. k0 \in Senders
  BY DEF Senders, Frames
<1>2. out' = [out EXCEPT ![k0] = f]
  BY DEF Transmit
<1>3. st' = [st EXCEPT ![k0] = "wait"] \/ st' = [st EXCEPT ![k0] = "halted"]
  BY DEF Transmit
<1> HIDE DEF k0
<1>4. out'[k0] = f /\ st'[k0] \in {"wait", "halted"}
  BY <1>1, <1>2, <1>3 DEF TypeOK
<1>5. \A k \in Senders \ {k0} : out'[k] = out[k] /\ st'[k] = st[k]
  BY <1>2, <1>3 DEF TypeOK
<1> QED BY <1>1, <1>4, <1>5 DEF k0

(* A sender the step does not touch is kept.                               *)
LEMMA KeptUntouched ==
  ASSUME TypeOK, WellFormed, NEW k \in Senders, out'[k] = out[k],
         st'[k] = st[k] \/ (st[k] \in {"wait", "signalled", "expired"} /\ st'[k] # "idle")
  PROVE  SenderKept(k)
<1>1. st[k] # "idle" => out[k].attempt - out[k].attempt = 0
  BY DataLinkAssumption DEF WellFormed, Frames
<1> QED BY <1>1 DEF SenderKept

LEMMA OriginateSenders ==
  ASSUME TypeOK, WellFormed, RelaySeen, NEW p \in Packets, Originate(p)
  PROVE  RelaySeen' /\ \A k \in Senders : SenderKept(k)
<1> DEFINE k0 == <<Origin[p], p, "origin">>
<1>1. PICK f \in Frames : f.pkt = p /\ Transmit(Origin[p], f, "origin")
  BY OriginateFrame
<1>2. Origin[p] \in Nodes /\ "origin" \in Roles /\ st[k0] = "idle" /\ seen' = seen
  BY OriginateFrame DEF Originate, Roles
<1>3. k0 \in Senders /\ \A k \in Senders \ {k0} : out'[k] = out[k] /\ st'[k] = st[k]
  BY <1>1, <1>2, TransmitSenders
<1>4. k0[3] # "relay" /\ SenderKept(k0)
  BY <1>2 DEF SenderKept
<1> HIDE DEF k0
<1>5. \A k \in Senders : SenderKept(k)
  BY <1>3, <1>4, KeptUntouched
<1> QED BY <1>2, <1>3, <1>4, <1>5 DEF RelaySeen

LEMMA RetrySenders ==
  ASSUME TypeOK, WellFormed, RelaySeen, NEW k0 \in Senders, Retry(k0)
  PROVE  RelaySeen' /\ \A k \in Senders : SenderKept(k)
<1>1. PICK f \in Frames :
        /\ f.pkt = k0[2] /\ f.target = out[k0].target /\ f.attempt - out[k0].attempt = 1
        /\ Transmit(k0[1], f, k0[3])
  BY RetryFrame
<1>2. /\ k0[1] \in Nodes /\ k0[3] \in Roles /\ k0 = <<k0[1], k0[2], k0[3]>>
      /\ st[k0] = "expired" /\ seen' = seen
  BY RetryFrame DEF Senders, Retry
<1>3. /\ out'[k0] = f /\ st'[k0] \in {"wait", "halted"}
      /\ \A k \in Senders \ {k0} : out'[k] = out[k] /\ st'[k] = st[k]
  BY <1>1, <1>2, TransmitSenders
<1>4. SenderKept(k0)
  BY <1>1, <1>2, <1>3 DEF SenderKept
<1>5. \A k \in Senders : SenderKept(k)
  BY <1>3, <1>4, KeptUntouched
<1> QED BY <1>2, <1>3, <1>5 DEF RelaySeen

LEMMA AcceptSenders ==
  ASSUME TypeOK, WellFormed, RelaySeen, NEW f \in rx, Accept(f)
  PROVE  RelaySeen' /\ \A k \in Senders : SenderKept(k)
<1> DEFINE n == f.target
           k0 == <<n, f.pkt, "relay">>
<1>1. n \in Nodes /\ f \in Frames /\ f.pkt \in Packets /\ "relay" \in Roles
  BY DEF TypeOK, WellFormed, Frames, Roles
<1>2. /\ seen'[n] = seen[n] \cup {f.pkt}
      /\ \A i \in Nodes : seen[i] \subseteq seen'[i]
  BY <1>1 DEF Accept, TypeOK
<1>3. CASE f.pkt \in seen[n] \/ parent[n] = NoNode
  <2>1. UNCHANGED <<st, out>>
    BY <1>3 DEF Accept
  <2>2. \A k \in Senders : k[1] \in Nodes
    BY DEF Senders
  <2> QED BY <2>1, <2>2, <1>2, KeptUntouched DEF RelaySeen
<1>4. CASE ~ (f.pkt \in seen[n] \/ parent[n] = NoNode)
  <2>1. PICK g \in Frames : g.pkt = f.pkt /\ Transmit(n, g, "relay")
    BY <1>4, AcceptFrame
  <2>2. /\ k0 \in Senders
        /\ \A k \in Senders \ {k0} : out'[k] = out[k] /\ st'[k] = st[k]
    BY <1>1, <2>1, TransmitSenders
  <2>3. k0[1] = n /\ k0[2] = f.pkt /\ k0[3] = "relay"
    OBVIOUS
  <2>4. st[k0] = "idle"
    BY <1>4, <2>2, <2>3 DEF RelaySeen
  <2> HIDE DEF n, k0
  <2>5. SenderKept(k0)
    BY <2>4 DEF SenderKept
  <2>6. \A k \in Senders : SenderKept(k)
    BY <2>2, <2>5, KeptUntouched
  <2>7. \A k \in Senders : k[1] \in Nodes
    BY DEF Senders
  <2>8. RelaySeen'
    BY <1>2, <2>2, <2>3, <2>7 DEF RelaySeen
  <2> QED BY <2>6, <2>8
<1> QED BY <1>3, <1>4

(* No step takes back a verdict, and none changes what a running sender    *)
(* transmits but for the number of its attempt.                            *)
LEMMA SenderSteps ==
  ASSUME TypeOK, WellFormed, RelaySeen, [Next]_vars
  PROVE  RelaySeen' /\ \A k \in Senders : SenderKept(k)
<1> USE DEF shipVars, engineVars
<1>1. ASSUME UNCHANGED <<seen, st, out>>
      PROVE  RelaySeen' /\ \A k \in Senders : SenderKept(k)
  BY <1>1, KeptUntouched DEF RelaySeen
<1>2. ASSUME NEW k0 \in Senders, UNCHANGED <<seen, out>>,
             st[k0] \in {"wait", "signalled", "expired"},
             NEW s \in {"signalled", "expired", "acked", "dead"},
             st' = [st EXCEPT ![k0] = s]
      PROVE  RelaySeen' /\ \A k \in Senders : SenderKept(k)
  <2>1. st'[k0] # "idle" /\ \A k \in Senders \ {k0} : st'[k] = st[k]
    BY <1>2 DEF TypeOK
  <2>2. \A k \in Senders : SenderKept(k)
    BY <1>2, <2>1, KeptUntouched
  <2>3. RelaySeen'
    BY <1>2, <2>1 DEF RelaySeen
  <2> QED BY <2>2, <2>3
<1>3. CASE Ship
  <2>1. ASSUME NEW k \in Senders, Timeout(k) \/ Acked(k) \/ Retry(k) \/ GiveUp(k)
        PROVE  RelaySeen' /\ \A i \in Senders : SenderKept(i)
    <3>1. CASE Timeout(k)
      BY <3>1, <1>2 DEF Timeout
    <3>2. CASE Acked(k)
      BY <3>2, <1>2 DEF Acked
    <3>3. CASE GiveUp(k)
      BY <3>3, <1>2 DEF GiveUp
    <3> QED BY <2>1, <3>1, <3>2, <3>3, RetrySenders
  <2>2. ASSUME NEW m \in down, HearAck(m)
        PROVE  RelaySeen' /\ \A i \in Senders : SenderKept(i)
    <3> DEFINE x == <<m.to, m.frame.pkt>>
               k == <<m.to, m.frame.pkt, waiter[x]>>
    <3>1. CASE waiter[x] # NoRole /\ st[k] = "wait"
      <4>1. x \in Nodes \X Packets
        BY DEF TypeOK, Msgs, Frames
      <4>2. k \in Senders
        BY <3>1, <4>1 DEF TypeOK, Senders
      <4>3. st' = [st EXCEPT ![k] = "signalled"] /\ UNCHANGED <<seen, out>>
        BY <2>2, <3>1 DEF HearAck
      <4> HIDE DEF k
      <4> QED BY <1>2, <3>1, <4>2, <4>3
    <3>2. CASE ~ (waiter[x] # NoRole /\ st[k] = "wait")
      BY <2>2, <3>2, <1>1 DEF HearAck
    <3> QED BY <3>1, <3>2
  <2>3. ASSUME NEW m \in down, HearFrame(m)
        PROVE  RelaySeen' /\ \A i \in Senders : SenderKept(i)
    BY <2>3, <1>1 DEF HearFrame
  <2> QED BY <1>3, <2>1, <2>2, <2>3, OriginateSenders, AcceptSenders DEF Ship
<1>4. CASE Engine
  BY <1>1, <1>4
  DEF Engine, Drop, Heard, MarkPacketSeen, MarkFails, RememberAckSender, ForwardToNode,
      DeliverToEdge, AckBack, TakeAckSender, TakeFails, RelayAck
<1>5. CASE Surroundings
  BY <1>1, <1>5
  DEF Surroundings, Reroute, Leave, NodeDisconnected, ExpireDedup, ExpireAckSender
<1>6. CASE UNCHANGED vars
  BY <1>1, <1>6 DEF vars
<1> QED BY <1>3, <1>4, <1>5, <1>6 DEF Next

LEMMA RelaysSeen == Spec => []RelaySeen
<1>1. Init => RelaySeen
  BY DEF Init, RelaySeen
<1>2. TypeOK /\ WellFormed /\ RelaySeen /\ [Next]_vars => RelaySeen'
  BY SenderSteps
<1> QED BY <1>1, <1>2, TypeCorrect, PTL DEF Spec

(* transmitWithRetry's answer is final: no step revives a sender that was  *)
(* acknowledged, gave up or was halted, none redirects a running one, and  *)
(* attempts advance one by one.                                            *)
THEOREM VerdictsAreFinal == Spec => VerdictFinal
<1>1. TypeOK /\ WellFormed /\ RelaySeen /\ [Next]_vars =>
        \A k \in Senders :
          /\ st[k] \in {"acked", "dead", "halted"} => st'[k] = st[k] /\ out'[k] = out[k]
          /\ st[k] # "idle" => /\ out'[k].target = out[k].target
                               /\ out'[k].attempt - out[k].attempt \in {0, 1}
  BY SenderSteps DEF SenderKept
<1> QED BY <1>1, TypeCorrect, RelaysSeen, PTL DEF Spec, VerdictFinal

-----------------------------------------------------------------------------
(* The acknowledgements.                                                   *)

(* Where an acknowledgement comes from: what a worker holds and what a     *)
(* send buffer holds is there because a ship sent it, and what the engine  *)
(* answers, relays or hands over has claimed the receiver's dedup key; the *)
(* ship remembered for a receiver is one that sent to it.                  *)
JobTrail(j) ==
  /\ j.pc \notin {"ack", "relay"} => Addressed(Tx(j.frame), j.frame.pkt, j.frame.target)
  /\ j.pc \notin {"tx", "heard"} => Reached(Rcv(j.frame))
  /\ j.pc = "relay" => Addressed(j.to, j.frame.pkt, j.frame.target)

MsgTrail(m) ==
  /\ Reached(Rcv(m.frame))
  /\ m.kind # "rf" => Addressed(m.to, m.frame.pkt, m.frame.target)

SenderTrail(x) == ackSender[x] # NoNode => Addressed(ackSender[x], x[1], x[2])

AckTrail ==
  /\ \A j \in jobs : JobTrail(j)
  /\ \A m \in down : MsgTrail(m)
  /\ \A x \in Packets \X Targets : SenderTrail(x)

(* A receiver once reached stays reached: the key is set again, or it has  *)
(* expired.                                                                *)
LEMMA ReachedStays ==
  ASSUME TypeOK, [Next]_vars, NEW x \in Packets \X Targets, Reached(x)
  PROVE  Reached(x)'
<1> USE DEF shipVars, engineVars
<1>1. (dedup[x] => dedup'[x]) /\ expired'[x] = expired[x] => Reached(x)'
  BY DEF Reached
<1>2. CASE UNCHANGED <<dedup, expired>>
  BY <1>1, <1>2
<1>3. ASSUME NEW j \in jobs, MarkPacketSeen(j) \/ MarkFails(j) PROVE Reached(x)'
  <2>1. expired' = expired /\ (dedup[x] => dedup'[x])
    BY <1>3 DEF MarkPacketSeen, MarkFails, TypeOK
  <2> QED BY <1>1, <2>1
<1>4. ASSUME NEW y \in Packets \X Targets, ExpireDedup(y) PROVE Reached(x)'
  <2>1. expired'[y] = expired[y] + 1 /\ expired[y] \in Nat
    BY <1>4 DEF ExpireDedup, TypeOK
  <2>2. x # y => expired'[x] = expired[x] /\ dedup'[x] = dedup[x]
    BY <1>4 DEF ExpireDedup, TypeOK
  <2> QED BY <1>1, <2>1, <2>2 DEF Reached
<1>5. CASE Ship
  BY <1>2, <1>5 DEF Ship, Originate, Timeout, Acked, Retry, GiveUp, HearAck, HearFrame, Accept
<1>6. CASE Engine
  <2>1. PICK j \in jobs :
          \/ Drop(j) \/ Heard(j) \/ MarkPacketSeen(j) \/ MarkFails(j)
          \/ RememberAckSender(j) \/ ForwardToNode(j) \/ DeliverToEdge(j) \/ AckBack(j)
          \/ TakeAckSender(j) \/ TakeFails(j) \/ RelayAck(j)
    BY <1>6 DEF Engine
  <2> QED BY <2>1, <1>2, <1>3 DEF Drop, Heard, RememberAckSender, ForwardToNode,
                                  DeliverToEdge, AckBack, TakeAckSender, TakeFails, RelayAck
<1>7. CASE Surroundings
  BY <1>2, <1>4, <1>7 DEF Surroundings, Reroute, Leave, NodeDisconnected, ExpireAckSender
<1>8. CASE UNCHANGED vars
  BY <1>2, <1>8 DEF vars
<1> QED BY <1>5, <1>6, <1>7, <1>8 DEF Next

(* A ship that sent a packet to a receiver has always done so.             *)
LEMMA AddressedStays ==
  ASSUME TypeOK, WellFormed, RelaySeen, [Next]_vars,
         NEW n \in Nodes, NEW p \in Packets, NEW r, Addressed(n, p, r)
  PROVE  Addressed(n, p, r)'
<1>1. PICK role \in Roles : st[<<n, p, role>>] # "idle" /\ out[<<n, p, role>>].target = r
  BY DEF Addressed
<1>2. <<n, p, role>> \in Senders
  BY DEF Senders
<1>3. SenderKept(<<n, p, role>>)
  BY <1>2, SenderSteps
<1> QED BY <1>1, <1>3 DEF SenderKept, Addressed

(* So the trail is kept by a step that adds to it only what follows it.    *)
LEMMA TrailKept ==
  ASSUME TypeOK, WellFormed, RelaySeen, [Next]_vars, AckTrail,
         \A j \in jobs' \ jobs : JobTrail(j)',
         \A m \in down' \ down : MsgTrail(m)',
         \A x \in Packets \X Targets : ackSender'[x] # ackSender[x] => SenderTrail(x)'
  PROVE  AckTrail'
<1>1. \A x \in Packets \X Targets : Reached(x) => Reached(x)'
  BY ReachedStays
<1>2. \A n \in Nodes, p \in Packets : \A r : Addressed(n, p, r) => Addressed(n, p, r)'
  BY AddressedStays
<1>3. ASSUME NEW f \in Frames PROVE Rcv(f) \in Packets \X Targets /\ Tx(f) \in Nodes
                                    /\ f.pkt \in Packets
  BY RcvType, TxType DEF Frames
<1>4. ASSUME NEW j \in jobs PROVE JobTrail(j)'
  <2>1. j.frame \in Frames /\ (j.pc = "relay" => j.to \in Nodes)
    BY DEF TypeOK, WellFormed, Jobs
  <2>2. JobTrail(j)
    BY DEF AckTrail
  <2>3. Rcv(j.frame)' = Rcv(j.frame) /\ Tx(j.frame)' = Tx(j.frame)
    BY DEF Rcv, Tx
  <2> QED BY <1>1, <1>2, <1>3, <2>1, <2>2, <2>3 DEF JobTrail
<1>5. ASSUME NEW m \in down PROVE MsgTrail(m)'
  <2>1. m.frame \in Frames /\ m.to \in Nodes
    BY DEF TypeOK, Msgs
  <2>2. MsgTrail(m)
    BY DEF AckTrail
  <2>3. Rcv(m.frame)' = Rcv(m.frame)
    BY DEF Rcv
  <2> QED BY <1>1, <1>2, <1>3, <2>1, <2>2, <2>3 DEF MsgTrail
<1>6. ASSUME NEW x \in Packets \X Targets PROVE SenderTrail(x)'
  <2>1. CASE ackSender'[x] = ackSender[x]
    <3>1. ackSender[x] \in Nodes \cup {NoNode} /\ x[1] \in Packets
      BY DEF TypeOK
    <3> QED BY <1>2, <2>1, <3>1 DEF AckTrail, SenderTrail
  <2> QED BY <2>1
<1> QED BY <1>4, <1>5, <1>6 DEF AckTrail

(* A frame a ship has just written is addressed by that ship.              *)
LEMMA TransmitAddressed ==
  ASSUME TypeOK, NEW n \in Nodes, NEW f \in Frames, NEW role \in Roles,
         Transmit(n, f, role), Tx(f) = n
  PROVE  \A j \in jobs' \ jobs : JobTrail(j)'
<1>1. <<n, f.pkt, role>> \in Senders
      /\ out'[<<n, f.pkt, role>>] = f /\ st'[<<n, f.pkt, role>>] \in {"wait", "halted"}
  BY TransmitSenders
<1>2. Addressed(n, f.pkt, f.target)'
  BY <1>1 DEF Addressed
<1>3. jobs' \subseteq jobs \cup {Job("tx", f, NoNode, 0)}
  BY DEF Transmit, Uplink
<1> QED BY <1>2, <1>3 DEF JobTrail, Job, Tx

LEMMA ShipTrail ==
  ASSUME TypeOK, WellFormed, RelaySeen, Ship, AckTrail
  PROVE  AckTrail'
<1> USE DEF engineVars
<1>0. [Next]_vars
  BY DEF Next
<1>1. ASSUME \A j \in jobs' \ jobs : JobTrail(j)', down' \subseteq down,
             UNCHANGED ackSender
      PROVE  AckTrail'
  BY <1>0, <1>1, TrailKept
<1>2. ASSUME NEW p \in Packets, Originate(p) PROVE AckTrail'
  <2>1. \E f \in Frames : Tx(f) = Origin[p] /\ Transmit(Origin[p], f, "origin")
    BY <1>2, OriginateFrame
  <2>2. Origin[p] \in Nodes /\ "origin" \in Roles
    BY <1>2, OriginateFrame DEF Roles
  <2>3. \A j \in jobs' \ jobs : JobTrail(j)'
    BY <2>1, <2>2, TransmitAddressed
  <2> QED BY <1>1, <1>2, <2>3 DEF Originate
<1>3. ASSUME NEW k \in Senders, Timeout(k) \/ Acked(k) \/ GiveUp(k) PROVE AckTrail'
  BY <1>1, <1>3 DEF Timeout, Acked, GiveUp
<1>4. ASSUME NEW k \in Senders, Retry(k) PROVE AckTrail'
  <2>1. \E f \in Frames : Tx(f) = k[1] /\ Transmit(k[1], f, k[3])
    BY <1>4, RetryFrame
  <2>2. k[1] \in Nodes /\ k[3] \in Roles
    BY DEF Senders
  <2>3. \A j \in jobs' \ jobs : JobTrail(j)'
    BY <2>1, <2>2, TransmitAddressed
  <2> QED BY <1>1, <1>4, <2>3 DEF Retry
<1>5. ASSUME NEW m \in down, HearAck(m) PROVE AckTrail'
  BY <1>1, <1>5 DEF HearAck
<1>6. ASSUME NEW m \in down, HearFrame(m) PROVE AckTrail'
  <2>1. Rcv(m.frame) \in Packets \X Targets
    BY RcvType DEF TypeOK, Msgs
  <2>2. Reached(Rcv(m.frame))'
    <3>1. Reached(Rcv(m.frame))
      BY DEF AckTrail, MsgTrail
    <3>2. UNCHANGED <<dedup, expired>>
      BY <1>6 DEF HearFrame
    <3> QED BY <3>1, <3>2 DEF Reached, Rcv
  <2>3. jobs' \subseteq jobs \cup {Job("ack", m.frame, NoNode, 0)}
    BY <1>6 DEF HearFrame, Uplink
  <2>4. \A j \in jobs' \ jobs : JobTrail(j)'
    BY <2>2, <2>3 DEF JobTrail, Job
  <2> QED BY <1>1, <1>6, <2>4 DEF HearFrame
<1>7. ASSUME NEW f \in rx, Accept(f) PROVE AckTrail'
  <2>1. CASE f.pkt \in seen[f.target] \/ parent[f.target] = NoNode
    BY <1>1, <1>7, <2>1 DEF Accept
  <2>2. CASE ~ (f.pkt \in seen[f.target] \/ parent[f.target] = NoNode)
    <3>1. \E g \in Frames : Tx(g) = f.target /\ Transmit(f.target, g, "relay")
      BY <1>7, <2>2, AcceptFrame
    <3>2. f.target \in Nodes /\ "relay" \in Roles
      BY DEF WellFormed, Roles
    <3>3. \A j \in jobs' \ jobs : JobTrail(j)'
      BY <3>1, <3>2, TransmitAddressed
    <3> QED BY <1>1, <1>7, <3>3 DEF Accept
  <2> QED BY <2>1, <2>2
<1> QED BY <1>2, <1>3, <1>4, <1>5, <1>6, <1>7 DEF Ship

(* The engine answers only a frame that claimed or found the key set, and  *)
(* relays an acknowledgement only to the ship it remembers for it.         *)
LEMMA EngineTrail ==
  ASSUME TypeOK, WellFormed, RelaySeen, [Next]_vars, AckTrail, NEW j \in jobs,
         \/ Drop(j) \/ Heard(j) \/ MarkPacketSeen(j) \/ MarkFails(j)
         \/ RememberAckSender(j) \/ ForwardToNode(j) \/ DeliverToEdge(j)
         \/ AckBack(j) \/ TakeAckSender(j) \/ TakeFails(j) \/ RelayAck(j)
  PROVE  AckTrail'
<1> USE DEF engineVars, shipVars
<1>1. /\ j \in Jobs /\ j.frame \in Frames /\ j.frame.pkt \in Packets
      /\ Rcv(j.frame) \in Packets \X Targets /\ Tx(j.frame) \in Nodes
      /\ Rcv(j.frame) = <<j.frame.pkt, j.frame.target>>
  BY RcvType, TxType DEF TypeOK, Jobs, Frames, Rcv
<1>2. JobTrail(j)
  BY DEF AckTrail
<1>3. UNCHANGED <<st, out>>
  BY DEF Drop, Heard, MarkPacketSeen, MarkFails, RememberAckSender, ForwardToNode,
         DeliverToEdge, AckBack, TakeAckSender, TakeFails, RelayAck
<1>4. \A n, p, r : Addressed(n, p, r) => Addressed(n, p, r)'
  BY <1>3 DEF Addressed
<1>5. Reached(Rcv(j.frame)) => Reached(Rcv(j.frame))'
  <2>1. Rcv(j.frame)' = Rcv(j.frame)
    BY DEF Rcv
  <2> QED BY <1>1, <2>1, ReachedStays
<1>6. ASSUME NEW i, i.frame = j.frame, i.pc \in {"heard", "first", "bound", "back", "dup"},
             i.pc # "heard" => Reached(Rcv(j.frame))',
             Addressed(Tx(j.frame), j.frame.pkt, j.frame.target)'
      PROVE  JobTrail(i)'
  BY <1>6 DEF JobTrail, Rcv, Tx
<1>7. CASE Drop(j) \/ MarkFails(j) \/ TakeFails(j)
  BY <1>7, TrailKept DEF Drop, MarkFails, TakeFails
<1>8. CASE Heard(j)
  <2>1. PICK i : i = [j EXCEPT !.pc = "heard"]
    OBVIOUS
  <2>2. i.frame = j.frame /\ i.pc = "heard"
    BY <1>1, <2>1 DEF Jobs
  <2>3. JobTrail(i)'
    BY <1>2, <1>4, <1>6, <1>8, <2>2 DEF JobTrail, Heard
  <2>4. jobs' \subseteq jobs \cup {i}
    BY <1>8, <2>1 DEF Heard
  <2> QED BY <1>8, <2>3, <2>4, TrailKept DEF Heard
<1>9. CASE MarkPacketSeen(j)
  <2>1. PICK i : i = IF dedup[Rcv(j.frame)]
                       THEN [j EXCEPT !.pc = "dup"]
                       ELSE [j EXCEPT !.pc = "first", !.win = expired[Rcv(j.frame)]]
    OBVIOUS
  <2>2. i.frame = j.frame /\ i.pc \in {"dup", "first"}
    BY <1>1, <2>1 DEF Jobs
  <2>3. dedup'[Rcv(j.frame)]
    BY <1>1, <1>9 DEF MarkPacketSeen, TypeOK
  <2>4. Reached(Rcv(j.frame))'
    BY <2>3 DEF Reached, Rcv
  <2>5. JobTrail(i)'
    BY <1>2, <1>4, <1>6, <1>9, <2>2, <2>4 DEF JobTrail, MarkPacketSeen
  <2>6. jobs' \subseteq jobs \cup {i}
    BY <1>9, <2>1 DEF MarkPacketSeen
  <2> QED BY <1>9, <2>5, <2>6, TrailKept DEF MarkPacketSeen
<1>10. CASE RememberAckSender(j)
  <2> DEFINE x == Rcv(j.frame)
  <2>1. PICK i : i = [j EXCEPT !.pc = "bound"]
    OBVIOUS
  <2>2. JobTrail(i)'
    <3>1. i.frame = j.frame /\ i.pc = "bound"
      BY <1>1, <2>1 DEF Jobs
    <3> QED BY <1>2, <1>4, <1>5, <1>6, <1>10, <3>1 DEF JobTrail, RememberAckSender
  <2>3. ackSender' = [ackSender EXCEPT ![x] = Tx(j.frame)] \/ ackSender' = ackSender
    BY <1>10 DEF RememberAckSender
  <2>4. \A y \in Packets \X Targets :
          ackSender'[y] # ackSender[y] => y = x /\ ackSender'[y] = Tx(j.frame)
    BY <1>1, <2>3 DEF TypeOK
  <2>5. Addressed(Tx(j.frame), x[1], x[2])'
    BY <1>1, <1>2, <1>4, <1>10 DEF JobTrail, RememberAckSender
  <2>6. \A y \in Packets \X Targets : ackSender'[y] # ackSender[y] => SenderTrail(y)'
    BY <2>4, <2>5 DEF SenderTrail
  <2>7. jobs' \subseteq jobs \cup {i}
    BY <1>10, <2>1 DEF RememberAckSender
  <2> QED BY <1>10, <2>2, <2>6, <2>7, TrailKept DEF RememberAckSender
<1>11. CASE ForwardToNode(j)
  <2> DEFINE m == Msg("rf", j.frame.target, j.frame)
  <2>1. down' \subseteq down \cup {m}
    BY <1>11 DEF ForwardToNode, Downlink
  <2>2. m.kind = "rf" /\ m.frame = j.frame
    BY DEF Msg
  <2>3. MsgTrail(m)'
    BY <1>2, <1>5, <1>11, <2>2 DEF MsgTrail, JobTrail, ForwardToNode, Rcv
  <2> HIDE DEF m
  <2> QED BY <1>11, <2>1, <2>3, TrailKept DEF ForwardToNode
<1>12. CASE DeliverToEdge(j)
  <2>1. PICK i : i = [j EXCEPT !.pc = "back"]
    OBVIOUS
  <2>2. i.frame = j.frame /\ i.pc = "back"
    BY <1>1, <2>1 DEF Jobs
  <2>3. JobTrail(i)'
    BY <1>2, <1>4, <1>5, <1>6, <1>12, <2>2 DEF JobTrail, DeliverToEdge
  <2>4. jobs' \subseteq jobs \cup {i}
    BY <1>12, <2>1 DEF DeliverToEdge
  <2> QED BY <1>12, <2>3, <2>4, TrailKept DEF DeliverToEdge
<1>13. CASE AckBack(j)
  <2> DEFINE m == Msg(IF j.pc = "dup" THEN "dupack" ELSE "ack", Tx(j.frame), j.frame)
  <2>1. down' \subseteq down \cup {m}
    BY <1>13 DEF AckBack, Downlink
  <2>2. m.to = Tx(j.frame) /\ m.frame = j.frame
    BY DEF Msg
  <2>3. MsgTrail(m)'
    BY <1>2, <1>4, <1>5, <1>13, <2>2 DEF MsgTrail, JobTrail, AckBack, Rcv, Tx
  <2> HIDE DEF m
  <2> QED BY <1>13, <2>1, <2>3, TrailKept DEF AckBack
<1>14. CASE TakeAckSender(j)
  <2> DEFINE x == Rcv(j.frame)
  <2>1. PICK n : n = ackSender[x]
    OBVIOUS
  <2>2. PICK i : i = [j EXCEPT !.pc = "relay", !.to = n]
    OBVIOUS
  <2>3. i.frame = j.frame /\ i.pc = "relay" /\ i.to = n
    BY <1>1, <2>2 DEF Jobs
  <2>4. ASSUME n # NoNode PROVE JobTrail(i)'
    <3>1. Reached(x)'
      BY <1>2, <1>5, <1>14 DEF JobTrail, TakeAckSender
    <3>2. Addressed(n, j.frame.pkt, j.frame.target)
      BY <1>1, <2>1, <2>4 DEF AckTrail, SenderTrail
    <3>3. Addressed(n, j.frame.pkt, j.frame.target)'
      BY <1>4, <3>2
    <3> QED BY <2>3, <3>1, <3>3 DEF JobTrail, Rcv
  <2>5. jobs' \subseteq jobs \cup (IF n = NoNode THEN {} ELSE {i})
    BY <1>14, <2>1, <2>2 DEF TakeAckSender
  <2>6. ackSender' = [ackSender EXCEPT ![x] = NoNode]
    BY <1>14 DEF TakeAckSender
  <2>7. \A y \in Packets \X Targets : ackSender'[y] # ackSender[y] => SenderTrail(y)'
    BY <1>1, <2>6 DEF SenderTrail, TypeOK
  <2> QED BY <1>14, <2>4, <2>5, <2>7, TrailKept DEF TakeAckSender
<1>15. CASE RelayAck(j)
  <2> DEFINE m == Msg("ack", j.to, j.frame)
  <2>1. down' \subseteq down \cup {m}
    BY <1>15 DEF RelayAck, Downlink
  <2>2. m.to = j.to /\ m.frame = j.frame
    BY DEF Msg
  <2>3. MsgTrail(m)'
    BY <1>2, <1>4, <1>5, <1>15, <2>2 DEF MsgTrail, JobTrail, RelayAck, Rcv
  <2> HIDE DEF m
  <2> QED BY <1>15, <2>1, <2>3, TrailKept DEF RelayAck
<1> QED BY <1>7, <1>8, <1>9, <1>10, <1>11, <1>12, <1>13, <1>14, <1>15

LEMMA SurroundingsTrail ==
  ASSUME TypeOK, WellFormed, RelaySeen, [Next]_vars, AckTrail, Surroundings
  PROVE  AckTrail'
<1> USE DEF engineVars, shipVars
<1>1. CASE \E n \in Nodes, t \in Targets \cup {NoNode} : Reroute(n, t)
  BY <1>1, TrailKept DEF Reroute
<1>2. CASE \E n \in Nodes : Leave(n) \/ NodeDisconnected(n)
  BY <1>2, TrailKept DEF Leave, NodeDisconnected
<1>3. CASE \E x \in Packets \X Targets : ExpireDedup(x)
  BY <1>3, TrailKept DEF ExpireDedup
<1>4. ASSUME NEW x \in Packets \X Targets, ExpireAckSender(x) PROVE AckTrail'
  <2>1. \A y \in Packets \X Targets : ackSender'[y] # ackSender[y] => SenderTrail(y)'
    BY <1>4 DEF ExpireAckSender, SenderTrail, TypeOK
  <2> QED BY <1>4, <2>1, TrailKept DEF ExpireAckSender
<1> QED BY <1>1, <1>2, <1>3, <1>4 DEF Surroundings

LEMMA TrailStep ==
  ASSUME TypeOK, WellFormed, RelaySeen, [Next]_vars, AckTrail
  PROVE  AckTrail'
<1>1. CASE Ship
  BY <1>1, ShipTrail
<1>2. CASE Engine
  BY <1>2, EngineTrail DEF Engine
<1>3. CASE Surroundings
  BY <1>3, SurroundingsTrail
<1>4. CASE UNCHANGED vars
  BY <1>4, TrailKept DEF vars, shipVars, engineVars
<1> QED BY <1>1, <1>2, <1>3, <1>4 DEF Next

LEMMA Trail == Spec => []AckTrail
<1>1. Init => AckTrail
  BY DEF Init, AckTrail, SenderTrail
<1>2. TypeOK /\ WellFormed /\ RelaySeen /\ AckTrail /\ [Next]_vars => AckTrail'
  BY TrailStep
<1> QED BY <1>1, <1>2, TypeCorrect, RelaysSeen, PTL DEF Spec

(* A sender learns of an acknowledgement from a message to its ship, about *)
(* its packet.                                                             *)
LEMMA SignalStep ==
  ASSUME TypeOK, WellFormed, [Next]_vars, NEW k \in Senders,
         st'[k] \in {"signalled", "acked"}, st[k] \notin {"signalled", "acked"}
  PROVE  \E m \in down : m.kind # "rf" /\ m.to = k[1] /\ m.frame.pkt = k[2]
<1> USE DEF shipVars, engineVars
<1>1. ~ UNCHANGED st
  OBVIOUS
<1>2. ASSUME NEW n \in Nodes, NEW f \in Frames, NEW role \in Roles, Transmit(n, f, role)
      PROVE  FALSE
  <2>1. \A i \in Senders : st'[i] \in {"wait", "halted"} \/ st'[i] = st[i]
    BY <1>2, TransmitSenders
  <2> QED BY <2>1
<1>3. ASSUME NEW k0 \in Senders, NEW s, st' = [st EXCEPT ![k0] = s]
      PROVE  k = k0 /\ s \in {"signalled", "acked"}
  BY <1>3 DEF TypeOK
<1>4. CASE Ship
  <2>1. ASSUME NEW p \in Packets, Originate(p) PROVE FALSE
    BY <2>1, <1>2, OriginateFrame DEF Roles
  <2>2. ASSUME NEW i \in Senders, Timeout(i) \/ Acked(i) \/ GiveUp(i) PROVE FALSE
    BY <2>2, <1>3 DEF Timeout, Acked, GiveUp
  <2>3. ASSUME NEW i \in Senders, Retry(i) PROVE FALSE
    BY <2>3, <1>2, RetryFrame
  <2>4. ASSUME NEW m \in down, HearAck(m)
        PROVE  m.kind # "rf" /\ m.to = k[1] /\ m.frame.pkt = k[2]
    <3> DEFINE x == <<m.to, m.frame.pkt>>
               k0 == <<m.to, m.frame.pkt, waiter[x]>>
    <3>1. waiter[x] # NoRole /\ st' = [st EXCEPT ![k0] = "signalled"]
      BY <1>1, <2>4 DEF HearAck
    <3>2. x \in Nodes \X Packets
      BY DEF TypeOK, Msgs, Frames
    <3>3. k0 \in Senders /\ k0[1] = m.to /\ k0[2] = m.frame.pkt
      BY <3>1, <3>2 DEF TypeOK, Senders
    <3> HIDE DEF k0
    <3>4. k = k0
      BY <1>3, <3>1, <3>3
    <3> QED BY <2>4, <3>3, <3>4 DEF HearAck
  <2>5. ASSUME NEW m \in down, HearFrame(m) PROVE FALSE
    BY <2>5, <1>1 DEF HearFrame
  <2>6. ASSUME NEW f \in rx, Accept(f) PROVE FALSE
    <3>1. ~ (f.pkt \in seen[f.target] \/ parent[f.target] = NoNode)
      BY <1>1, <2>6 DEF Accept
    <3>2. f.target \in Nodes /\ "relay" \in Roles
      BY DEF WellFormed, Roles
    <3> QED BY <2>6, <3>1, <3>2, <1>2, AcceptFrame
  <2> QED BY <1>4, <2>1, <2>2, <2>3, <2>4, <2>5, <2>6 DEF Ship
<1>5. CASE Engine
  BY <1>1, <1>5
  DEF Engine, Drop, Heard, MarkPacketSeen, MarkFails, RememberAckSender, ForwardToNode,
      DeliverToEdge, AckBack, TakeAckSender, TakeFails, RelayAck
<1>6. CASE Surroundings
  BY <1>1, <1>6
  DEF Surroundings, Reroute, Leave, NodeDisconnected, ExpireDedup, ExpireAckSender
<1> QED BY <1>1, <1>4, <1>5, <1>6 DEF Next, vars

LEMMA SoundStep ==
  ASSUME TypeOK, WellFormed, RelaySeen, AckTrail, AckSound, [Next]_vars
  PROVE  AckSound'
<1> SUFFICES ASSUME NEW k \in Senders, st'[k] \in {"signalled", "acked"}
             PROVE  \E r \in Targets : Addressed(k[1], k[2], r)' /\ Reached(<<k[2], r>>)'
  BY DEF AckSound
<1>1. k[1] \in Nodes /\ k[2] \in Packets
  BY DEF Senders
<1>2. \E r \in Targets : Addressed(k[1], k[2], r) /\ Reached(<<k[2], r>>)
  <2>1. CASE st[k] \in {"signalled", "acked"}
    BY <2>1 DEF AckSound
  <2>2. CASE st[k] \notin {"signalled", "acked"}
    <3>1. PICK m \in down : m.kind # "rf" /\ m.to = k[1] /\ m.frame.pkt = k[2]
      BY <2>2, SignalStep
    <3>2. Addressed(k[1], k[2], m.frame.target) /\ Reached(<<k[2], m.frame.target>>)
      BY <3>1 DEF AckTrail, MsgTrail, Rcv
    <3>3. m.frame.target \in Targets
      BY DEF TypeOK, Msgs, Frames
    <3> QED BY <3>2, <3>3
  <2> QED BY <2>1, <2>2
<1>3. PICK r \in Targets : Addressed(k[1], k[2], r) /\ Reached(<<k[2], r>>)
  BY <1>2
<1>4. Addressed(k[1], k[2], r)'
  BY <1>1, <1>3, AddressedStays
<1>5. Reached(<<k[2], r>>)'
  BY <1>1, <1>3, ReachedStays
<1> QED BY <1>4, <1>5

(* A ship that counts a packet as acknowledged had sent it to a receiver   *)
(* the engine marked it for: neither the waiter two senders share, nor an  *)
(* acknowledgement replayed, relayed late or remembered for another frame, *)
(* tells a ship of a packet it sent nowhere.                               *)
THEOREM AcksAreSound == Spec => []AckSound
<1>1. Init => AckSound
  BY DEF Init, AckSound
<1>2. TypeOK /\ WellFormed /\ RelaySeen /\ AckTrail /\ AckSound /\ [Next]_vars => AckSound'
  BY SoundStep
<1> QED BY <1>1, <1>2, TypeCorrect, RelaysSeen, Trail, PTL DEF Spec

-----------------------------------------------------------------------------
(* The refinement: DataLink implements Delivery.                           *)

HopVerdict == [k \in Senders |-> Verdict[st[k]]]
HopTarget == [k \in Senders |-> IF st[k] = "idle" THEN NoNode ELSE out[k].target]

(* A step that changes no key, hands nothing over, starts no sender and    *)
(* gives no verdict shows nothing in Delivery.                             *)
LEMMA HopStutter ==
  ASSUME UNCHANGED <<expired, dedup, handed>>,
         \A k \in Senders :
           /\ Verdict[st'[k]] = Verdict[st[k]]
           /\ st'[k] = "idle" <=> st[k] = "idle"
           /\ st[k] # "idle" => out'[k].target = out[k].target
  PROVE  UNCHANGED Hop!vars
<1>1. HopVerdict' = HopVerdict
  BY DEF HopVerdict
<1>2. HopTarget' = HopTarget
  BY DEF HopTarget
<1> QED BY <1>1, <1>2 DEF Hop!vars, HopVerdict, HopTarget

(* One sender moves: a new report or relay is a Start, a retry that finds  *)
(* the socket closed and the last timeout are an Abandon.                  *)
LEMMA HopSender ==
  ASSUME TypeOK, NEW k0 \in Senders, UNCHANGED <<expired, dedup, handed>>,
         \A k \in Senders \ {k0} : st'[k] = st[k] /\ out'[k] = out[k],
         \/ /\ st[k0] = "idle" /\ st'[k0] \in {"wait", "halted"}
            /\ out'[k0].target \in Targets
         \/ /\ st[k0] \in {"wait", "signalled", "expired"}
            /\ st'[k0] \in {"wait", "signalled", "expired", "dead", "halted"}
            /\ out'[k0].target = out[k0].target
  PROVE  [Hop!Next]_(Hop!vars)
<1>1. HopVerdict' = [HopVerdict EXCEPT ![k0] = Verdict[st'[k0]]]
  BY DEF HopVerdict
<1>2. HopVerdict[k0] = Verdict[st[k0]]
  BY DEF HopVerdict
<1>3. CASE st[k0] = "idle"
  <2>1. HopVerdict[k0] = "none" /\ Verdict[st'[k0]] \in {"pending", "dead"}
    BY <1>2, <1>3 DEF Verdict
  <2>2. HopTarget' = [HopTarget EXCEPT ![k0] = out'[k0].target] /\ out'[k0].target \in Targets
    BY <1>3 DEF HopTarget
  <2>3. HopVerdict' # HopVerdict
    BY <1>1, <2>1 DEF HopVerdict
  <2>4. Hop!Start(k0)
    BY <1>1, <2>1, <2>2 DEF Hop!Start, HopVerdict, HopTarget
  <2> QED BY <2>3, <2>4 DEF Hop!Next, Hop!Senders, Senders, HopVerdict
<1>4. CASE st[k0] # "idle"
  <2>1. HopVerdict[k0] = "pending" /\ Verdict[st'[k0]] \in {"pending", "dead"}
    BY <1>2, <1>4 DEF Verdict
  <2>2. HopTarget' = HopTarget
    BY <1>4 DEF HopTarget
  <2>3. CASE Verdict[st'[k0]] = "pending"
    <3>1. HopVerdict' = HopVerdict
      BY <1>1, <2>1, <2>3 DEF HopVerdict
    <3> QED BY <2>2, <3>1 DEF Hop!vars, HopVerdict, HopTarget
  <2>4. CASE Verdict[st'[k0]] = "dead"
    <3>1. HopVerdict' # HopVerdict
      BY <1>1, <2>1, <2>4 DEF HopVerdict
    <3>2. Hop!Abandon(k0)
      BY <1>1, <2>1, <2>2, <2>4 DEF Hop!Abandon, HopVerdict, HopTarget
    <3> QED BY <3>1, <3>2 DEF Hop!Next, Hop!Senders, Senders, HopVerdict
  <2> QED BY <2>1, <2>3, <2>4
<1> QED BY <1>3, <1>4

(* The closed channel wins the select: what AckSound says of the sender is *)
(* what Delivery asks of an Acknowledge.                                   *)
LEMMA HopAcked ==
  ASSUME TypeOK, AckSound, NEW k \in Senders, Acked(k)
  PROVE  [Hop!Next]_(Hop!vars)
<1>1. st[k] = "signalled" /\ st' = [st EXCEPT ![k] = "acked"]
      /\ UNCHANGED <<out, expired, dedup, handed>>
  BY DEF Acked, engineVars
<1>2. PICK r \in Targets : Addressed(k[1], k[2], r) /\ Reached(<<k[2], r>>)
  BY <1>1 DEF AckSound
<1>3. PICK role \in Roles :
        st[<<k[1], k[2], role>>] # "idle" /\ out[<<k[1], k[2], role>>].target = r
  BY <1>2 DEF Addressed
<1> DEFINE s == <<k[1], k[2], role>>
<1>4. s \in Senders
  BY DEF Senders
<1>5. HopVerdict[s] # "none" /\ HopTarget[s] = r
  BY <1>3, <1>4 DEF HopVerdict, HopTarget, Verdict, TypeOK
<1>6. Hop!Heard(<<k[2], HopTarget[s]>>)
  BY <1>2, <1>5 DEF Hop!Heard, Reached
<1>7. HopVerdict[k] = "pending"
  BY <1>1 DEF HopVerdict, Verdict
<1>8. HopVerdict' = [HopVerdict EXCEPT ![k] = "acked"]
  BY <1>1 DEF HopVerdict, Verdict, TypeOK
<1>9. HopTarget' = HopTarget
  BY <1>1 DEF HopTarget, TypeOK
<1>10. HopVerdict' # HopVerdict
  BY <1>7, <1>8 DEF HopVerdict
<1>11. Hop!Acknowledge(k)
  BY <1>1, <1>5, <1>6, <1>7, <1>8, <1>9 DEF Hop!Acknowledge, HopVerdict, HopTarget
<1> QED BY <1>10, <1>11 DEF Hop!Next, Hop!Senders, Senders, HopVerdict

LEMMA HopShip ==
  ASSUME TypeOK, WellFormed, RelaySeen, AckSound, Ship
  PROVE  [Hop!Next]_(Hop!vars)
<1> USE DEF engineVars
<1>1. ASSUME NEW n \in Nodes, NEW f \in Frames, NEW role \in Roles, Transmit(n, f, role),
             UNCHANGED <<expired, dedup, handed>>,
             \/ st[<<n, f.pkt, role>>] = "idle"
             \/ /\ st[<<n, f.pkt, role>>] = "expired"
                /\ f.target = out[<<n, f.pkt, role>>].target
      PROVE  [Hop!Next]_(Hop!vars)
  <2> DEFINE k0 == <<n, f.pkt, role>>
  <2>1. /\ k0 \in Senders
        /\ out'[k0] = f /\ st'[k0] \in {"wait", "halted"}
        /\ \A k \in Senders \ {k0} : out'[k] = out[k] /\ st'[k] = st[k]
    BY <1>1, TransmitSenders
  <2>2. f.target \in Targets
    BY DEF Frames
  <2>3. st[k0] = "idle" \/ (st[k0] = "expired" /\ f.target = out[k0].target)
    BY <1>1
  <2> HIDE DEF k0
  <2> QED BY <1>1, <2>1, <2>2, <2>3, HopSender
<1>2. ASSUME NEW p \in Packets, Originate(p) PROVE [Hop!Next]_(Hop!vars)
  <2>1. PICK f \in Frames : f.pkt = p /\ Transmit(Origin[p], f, "origin")
    BY <1>2, OriginateFrame
  <2>2. Origin[p] \in Nodes /\ "origin" \in Roles
    BY <1>2, OriginateFrame DEF Roles
  <2> QED BY <1>1, <1>2, <2>1, <2>2 DEF Originate
<1>3. ASSUME NEW k \in Senders, Timeout(k) \/ GiveUp(k) PROVE [Hop!Next]_(Hop!vars)
  <2>1. /\ st[k] \in {"wait", "signalled", "expired"} /\ st'[k] \in {"expired", "dead"}
        /\ \A i \in Senders \ {k} : st'[i] = st[i]
        /\ UNCHANGED <<out, expired, dedup, handed>>
    BY <1>3 DEF Timeout, GiveUp, TypeOK
  <2> QED BY <2>1, HopSender
<1>4. ASSUME NEW k \in Senders, Retry(k) PROVE [Hop!Next]_(Hop!vars)
  <2>1. PICK f \in Frames :
          f.pkt = k[2] /\ f.target = out[k].target /\ Transmit(k[1], f, k[3])
    BY <1>4, RetryFrame
  <2>2. k = <<k[1], k[2], k[3]>> /\ k[1] \in Nodes /\ k[3] \in Roles
    BY DEF Senders
  <2> QED BY <1>1, <1>4, <2>1, <2>2 DEF Retry
<1>5. ASSUME NEW m \in down, HearAck(m) PROVE [Hop!Next]_(Hop!vars)
  <2> DEFINE k == <<m.to, m.frame.pkt, waiter[<<m.to, m.frame.pkt>>]>>
  <2>1. UNCHANGED <<out, expired, dedup, handed>>
    BY <1>5 DEF HearAck
  <2>2. st' = st \/ (st[k] = "wait" /\ st' = [st EXCEPT ![k] = "signalled"])
    BY <1>5 DEF HearAck
  <2> HIDE DEF k
  <2>3. ASSUME NEW i \in Senders
        PROVE  st'[i] = st[i] \/ (st[i] = "wait" /\ st'[i] = "signalled")
    BY <2>2 DEF TypeOK
  <2> QED BY <2>1, <2>3, HopStutter DEF Verdict
<1>6. ASSUME NEW m \in down, HearFrame(m) PROVE [Hop!Next]_(Hop!vars)
  BY <1>6, HopStutter DEF HearFrame
<1>7. ASSUME NEW f \in rx, Accept(f) PROVE [Hop!Next]_(Hop!vars)
  <2>1. CASE f.pkt \in seen[f.target] \/ parent[f.target] = NoNode
    BY <1>7, <2>1, HopStutter DEF Accept
  <2>2. CASE ~ (f.pkt \in seen[f.target] \/ parent[f.target] = NoNode)
    <3>1. PICK g \in Frames : g.pkt = f.pkt /\ Transmit(f.target, g, "relay")
      BY <1>7, <2>2, AcceptFrame
    <3>2. f.target \in Nodes /\ "relay" \in Roles
      BY DEF WellFormed, Roles
    <3> DEFINE k == <<f.target, f.pkt, "relay">>
    <3>3. k \in Senders
      BY <3>1, <3>2 DEF Senders, Frames
    <3>4. k[3] = "relay" /\ k[2] = f.pkt /\ k[1] = f.target
      OBVIOUS
    <3> HIDE DEF k
    <3>5. st[k] = "idle"
      BY <2>2, <3>3, <3>4 DEF RelaySeen
    <3> QED BY <1>1, <1>7, <3>1, <3>2, <3>5 DEF Accept, k
  <2> QED BY <2>1, <2>2
<1> QED BY <1>2, <1>3, HopAcked, <1>4, <1>5, <1>6, <1>7 DEF Ship

(* SETNX claims the window of the hop, or finds it claimed.                *)
LEMMA HopMark ==
  ASSUME TypeOK, NEW x \in Packets \X Targets,
         dedup' = [dedup EXCEPT ![x] = TRUE] \/ dedup' = dedup,
         UNCHANGED <<expired, handed, st, out>>
  PROVE  [Hop!Next]_(Hop!vars)
<1>1. CASE dedup' = dedup
  BY <1>1, HopStutter
<1>2. CASE dedup' # dedup
  <2>1. dedup[x] \in BOOLEAN /\ (dedup[x] = TRUE => [dedup EXCEPT ![x] = TRUE] = dedup)
    BY DEF TypeOK
  <2>2. dedup' = [dedup EXCEPT ![x] = TRUE] /\ ~ dedup[x]
    BY <1>2, <2>1
  <2>3. HopVerdict' = HopVerdict /\ HopTarget' = HopTarget
    BY DEF HopVerdict, HopTarget
  <2>4. Hop!Claim(x)
    BY <2>2, <2>3 DEF Hop!Claim, HopVerdict, HopTarget
  <2> QED BY <1>2, <2>4 DEF Hop!Next, Hop!Hops
<1> QED BY <1>1, <1>2

(* A worker hands over at most the frame it claimed a window for, which no *)
(* frame handed over so far has.                                           *)
LEMMA HopHand ==
  ASSUME TypeOK, Windows, NEW j \in Pending,
         handed' \subseteq handed \cup {[frame |-> j.frame, win |-> j.win]},
         handed \subseteq handed', UNCHANGED <<expired, dedup, st, out>>
  PROVE  [Hop!Next]_(Hop!vars)
<1> DEFINE h == [frame |-> j.frame, win |-> j.win]
<1>1. CASE handed' = handed
  BY <1>1, HopStutter
<1>2. CASE handed' # handed
  <2>1. h \in handed' \ handed /\ handed' = handed \cup {h}
    BY <1>2
  <2>2. h.frame = j.frame /\ h.win = j.win /\ j.frame \in Frames /\ j.win \in Nat
    BY DEF TypeOK, Pending, Jobs
  <2>3. expired[Rcv(j.frame)] \in Nat
    BY <2>2, RcvType DEF TypeOK
  <2>4. /\ WindowOpen(j.frame, j.win)
        /\ \A g \in handed : ~ (Rcv(g.frame) = Rcv(j.frame) /\ g.win = j.win)
    BY DEF Windows
  <2>5. HopVerdict' = HopVerdict /\ HopTarget' = HopTarget
    BY DEF HopVerdict, HopTarget
  <2> HIDE DEF h
  <2>6. Hop!Hand
    BY <2>1, <2>2, <2>3, <2>4, <2>5 DEF Hop!Hand, WindowOpen, HopVerdict, HopTarget
  <2> QED BY <2>6 DEF Hop!Next
<1> QED BY <1>1, <1>2

LEMMA HopEngine ==
  ASSUME TypeOK, WellFormed, Windows, NEW j \in jobs,
         \/ Drop(j) \/ Heard(j) \/ MarkPacketSeen(j) \/ MarkFails(j)
         \/ RememberAckSender(j) \/ ForwardToNode(j) \/ DeliverToEdge(j)
         \/ AckBack(j) \/ TakeAckSender(j) \/ TakeFails(j) \/ RelayAck(j)
  PROVE  [Hop!Next]_(Hop!vars)
<1> USE DEF engineVars, shipVars
<1>1. Rcv(j.frame) \in Packets \X Targets
  BY RcvType DEF TypeOK, Jobs
<1>2. UNCHANGED <<expired, dedup, handed, st, out>> => UNCHANGED Hop!vars
  BY HopStutter
<1>3. CASE MarkPacketSeen(j) \/ MarkFails(j)
  BY <1>1, <1>3, HopMark DEF MarkPacketSeen, MarkFails
<1>4. CASE ForwardToNode(j)
  BY <1>4, HopHand DEF ForwardToNode, Pending
<1>5. CASE DeliverToEdge(j)
  BY <1>5, HopHand DEF DeliverToEdge, Pending
<1> QED BY <1>2, <1>3, <1>4, <1>5
        DEF Drop, Heard, RememberAckSender, AckBack, TakeAckSender, TakeFails, RelayAck

(* A TTL that is reached is a Forget; the rest of the surroundings is not  *)
(* seen by Delivery.                                                       *)
LEMMA HopSurroundings ==
  ASSUME TypeOK, Surroundings
  PROVE  [Hop!Next]_(Hop!vars)
<1> USE DEF engineVars, shipVars
<1>1. UNCHANGED <<expired, dedup, handed, st, out>> => UNCHANGED Hop!vars
  BY HopStutter
<1>2. ASSUME NEW x \in Packets \X Targets, ExpireDedup(x) PROVE [Hop!Next]_(Hop!vars)
  <2>1. HopVerdict' = HopVerdict /\ HopTarget' = HopTarget
    BY <1>2 DEF ExpireDedup, HopVerdict, HopTarget
  <2>2. Hop!Forget(x)
    BY <1>2, <2>1 DEF ExpireDedup, Hop!Forget, HopVerdict, HopTarget
  <2>3. dedup' # dedup
    BY <1>2 DEF ExpireDedup, TypeOK
  <2> QED BY <2>2, <2>3 DEF Hop!Next, Hop!Hops
<1> QED BY <1>1, <1>2 DEF Surroundings, Reroute, Leave, NodeDisconnected, ExpireAckSender

(* Every hop of the data link delivers what Delivery promises, whatever is *)
(* retried, lost, shed, answered twice or forgotten: initial states map to *)
(* initial states, and every step to a step of Delivery or to a stutter.   *)
THEOREM HopImplementsDelivery == Spec => HopDelivery
<1>1. Init => Hop!Init
  BY DEF Init, Hop!Init, Hop!Hops, Hop!Senders, Senders, Verdict
<1>2. TypeOK /\ WellFormed /\ RelaySeen /\ Windows /\ AckSound /\ [Next]_vars
        => [Hop!Next]_(Hop!vars)
  <2> SUFFICES ASSUME TypeOK, WellFormed, RelaySeen, Windows, AckSound, [Next]_vars
               PROVE  [Hop!Next]_(Hop!vars)
    OBVIOUS
  <2>1. CASE Ship
    BY <2>1, HopShip
  <2>2. CASE Engine
    BY <2>2, HopEngine DEF Engine
  <2>3. CASE Surroundings
    BY <2>3, HopSurroundings
  <2>4. CASE UNCHANGED vars
    BY <2>4, HopStutter DEF vars, shipVars, engineVars
  <2> QED BY <2>1, <2>2, <2>3, <2>4 DEF Next
<1> QED BY <1>1, <1>2, TypeCorrect, RelaysSeen, WindowsHold, AcksAreSound, PTL
        DEF Spec, HopDelivery, Hop!Spec
=============================================================================
