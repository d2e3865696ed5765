------------------------- MODULE DataLinkRows_proofs ------------------------
(* Proofs about what reaches a Virtual Edge in DataLink: the telemetry     *)
(* rows, their routing paths, and the acknowledgements that speak of them. *)
EXTENDS DataLinkHop_proofs

-----------------------------------------------------------------------------
(* The routing paths.                                                      *)

(* Every frame there is, whoever holds it, carries the path it took; past  *)
(* HandleTransmit's checks it is within MaxHops.                           *)
PathsHonest ==
  /\ \A k \in Senders : st[k] # "idle" => PathTaken(out[k])
  /\ \A m \in down : PathTaken(m.frame)
  /\ \A f \in rx : PathTaken(f)
  /\ \A j \in jobs : PathTaken(j.frame)

WithinHops == \A j \in jobs : j.pc \in {"heard", "first"} => j.frame.hop <= MaxHops

(* A ship does not forget what it has seen, so a path taken stays taken.   *)
LEMMA PathStays ==
  ASSUME NEW f \in Frames, PathTaken(f),
         \A n \in Nodes : seen[n] \subseteq seen'[n]
  PROVE  PathTaken(f)'
<1>1. \A i \in 1 .. Len(f.path) : f.path[i] \in Nodes
  BY DEF Frames, Paths
<1>2. \A i \in 2 .. Len(f.path) : i \in 1 .. Len(f.path)
  BY DEF Frames, Paths
<1> QED BY <1>1, <1>2 DEF PathTaken

LEMMA SeenGrows ==
  ASSUME TypeOK, WellFormed, [Next]_vars, NEW n \in Nodes
  PROVE  seen[n] \subseteq seen'[n]
<1> USE DEF shipVars, engineVars
<1>1. CASE seen' = seen
  BY <1>1
<1>2. ASSUME NEW f \in rx, Accept(f) PROVE seen[n] \subseteq seen'[n]
  BY <1>2 DEF Accept, TypeOK
<1>3. CASE Ship
  BY <1>1, <1>2, <1>3
  DEF Ship, Originate, Timeout, Acked, Retry, GiveUp, HearAck, HearFrame
<1>4. CASE Engine
  BY <1>1, <1>4
  DEF Engine, Drop, Heard, MarkPacketSeen, MarkFails, RememberAckSender, ForwardToNode,
      DeliverToEdge, AckBack, TakeAckSender, TakeFails, RelayAck
<1>5. CASE Surroundings
  BY <1>1, <1>5
  DEF Surroundings, Reroute, Leave, NodeDisconnected, ExpireDedup, ExpireAckSender
<1> QED BY <1>1, <1>3, <1>4, <1>5 DEF Next, vars

(* So paths are kept by a step that adds only frames whose path was taken. *)
LEMMA PathsKept ==
  ASSUME TypeOK, WellFormed, [Next]_vars, PathsHonest, RowsHonest,
         \A k \in Senders : st'[k] # "idle" =>
           \/ out'[k] = out[k] /\ st[k] # "idle"
           \/ PathTaken(out[k])',
         \A m \in down' \ down : PathTaken(m.frame)',
         \A f \in rx' \ rx : PathTaken(f)',
         \A j \in jobs' \ jobs : PathTaken(j.frame)',
         \A f \in rows' \ rows : PathTaken(f)' /\ f.hop <= MaxHops
  PROVE  PathsHonest' /\ RowsHonest'
<1>1. \A n \in Nodes : seen[n] \subseteq seen'[n]
  BY SeenGrows
<1>2. \A f \in Frames : PathTaken(f) => PathTaken(f)'
  BY <1>1, PathStays
<1>3. \A k \in Senders : st'[k] # "idle" => PathTaken(out[k])'
  BY <1>2 DEF PathsHonest, WellFormed
<1>4. \A m \in down' : PathTaken(m.frame)'
  BY <1>2 DEF PathsHonest, TypeOK, Msgs
<1>5. \A f \in rx' : PathTaken(f)'
  BY <1>2 DEF PathsHonest, TypeOK
<1>6. \A j \in jobs' : PathTaken(j.frame)'
  BY <1>2 DEF PathsHonest, TypeOK, Jobs
<1>7. \A f \in rows' : PathTaken(f)' /\ f.hop <= MaxHops
  BY <1>2 DEF RowsHonest, TypeOK
<1>8. PathsHonest'
  BY <1>3, <1>4, <1>5, <1>6 DEF PathsHonest
<1> QED BY <1>7, <1>8 DEF RowsHonest

(* A ship that writes a frame whose path was taken adds nothing else.      *)
LEMMA TransmitPaths ==
  ASSUME TypeOK, WellFormed, [Next]_vars, PathsHonest, RowsHonest,
         NEW n \in Nodes, NEW f \in Frames, NEW role \in Roles,
         Transmit(n, f, role), PathTaken(f)', down' = down, rx' \subseteq rx, rows' = rows
  PROVE  PathsHonest' /\ RowsHonest'
<1> DEFINE k0 == <<n, f.pkt, role>>
<1>1. /\ out'[k0] = f
      /\ \A k \in Senders \ {k0} : out'[k] = out[k] /\ st'[k] = st[k]
  BY TransmitSenders
<1> HIDE DEF k0
<1>2. \A k \in Senders : st'[k] # "idle" =>
        \/ out'[k] = out[k] /\ st[k] # "idle"
        \/ PathTaken(out[k])'
  BY <1>1
<1>3. jobs' \subseteq jobs \cup {Job("tx", f, NoNode, 0)}
  BY DEF Transmit, Uplink
<1>4. \A j \in jobs' \ jobs : PathTaken(j.frame)'
  BY <1>3 DEF Job
<1> QED BY <1>2, <1>4, PathsKept

(* A report starts its path at its origin; a relay appends its own name,   *)
(* which the path cannot hold yet: whoever is on it has seen the packet.   *)
LEMMA ShipPaths ==
  ASSUME TypeOK, WellFormed, PathsHonest, RowsHonest, Ship
  PROVE  PathsHonest' /\ RowsHonest'
<1> USE DEF engineVars
<1>1. [Next]_vars
  BY DEF Next
<1>2. ASSUME UNCHANGED <<st, out, rows>>, rx' \ rx \subseteq {m.frame : m \in down},
             down' \subseteq down, \A j \in jobs' \ jobs : \E m \in down : j.frame = m.frame
      PROVE  PathsHonest' /\ RowsHonest'
  <2>1. \A m \in down : PathTaken(m.frame)'
    BY <1>1, SeenGrows, PathStays DEF PathsHonest, TypeOK, Msgs
  <2>2. \A j \in jobs' \ jobs : PathTaken(j.frame)'
    BY <1>2, <2>1
  <2>3. \A f \in rx' \ rx : PathTaken(f)'
    BY <1>2, <2>1
  <2> QED BY <1>1, <1>2, <2>2, <2>3, PathsKept
<1>3. ASSUME UNCHANGED <<out, rows, rx>>, down' \subseteq down, jobs' = jobs,
             \A k \in Senders : st'[k] # "idle" => st[k] # "idle"
      PROVE  PathsHonest' /\ RowsHonest'
  BY <1>1, <1>3, PathsKept
<1>4. ASSUME NEW p \in Packets, Originate(p) PROVE PathsHonest' /\ RowsHonest'
  <2>1. PICK f \in Frames :
          /\ f.pkt = p /\ f.path = <<Origin[p]>> /\ f.hop = 1
          /\ Transmit(Origin[p], f, "origin")
    BY <1>4, OriginateFrame
  <2>2. Origin[p] \in Nodes /\ "origin" \in Roles
    BY <1>4, OriginateFrame DEF Roles
  <2>3. Len(f.path) = 1 /\ f.path[1] = Origin[p]
    BY <2>1
  <2>4. PathTaken(f)'
    BY <2>1, <2>3 DEF PathTaken
  <2> QED BY <1>1, <1>4, <2>1, <2>2, <2>4, TransmitPaths DEF Originate
<1>5. ASSUME NEW k \in Senders, Timeout(k) \/ Acked(k) \/ GiveUp(k)
      PROVE  PathsHonest' /\ RowsHonest'
  <2>1. \A i \in Senders : st'[i] # "idle" => st[i] # "idle"
    BY <1>5 DEF Timeout, Acked, GiveUp, TypeOK
  <2> QED BY <1>3, <1>5, <2>1 DEF Timeout, Acked, GiveUp
<1>6. ASSUME NEW k \in Senders, Retry(k) PROVE PathsHonest' /\ RowsHonest'
  <2>1. PICK f \in Frames :
          /\ f.pkt = k[2] /\ f.path = out[k].path /\ f.hop = out[k].hop
          /\ Transmit(k[1], f, k[3])
    BY <1>6, RetryFrame
  <2>2. k[1] \in Nodes /\ k[3] \in Roles /\ st[k] # "idle"
    BY <1>6, RetryFrame DEF Senders
  <2>3. PathTaken(out[k]) /\ out[k].pkt = k[2]
    BY <2>2 DEF PathsHonest, WellFormed
  <2>4. PathTaken(f)
    BY <2>1, <2>3 DEF PathTaken
  <2>5. PathTaken(f)'
    BY <1>1, <2>4, SeenGrows, PathStays
  <2> QED BY <1>1, <1>6, <2>1, <2>2, <2>5, TransmitPaths DEF Retry
<1>7. ASSUME NEW m \in down, HearAck(m) PROVE PathsHonest' /\ RowsHonest'
  <2>1. \A i \in Senders : st'[i] # "idle" => st[i] # "idle"
    BY <1>7 DEF HearAck, TypeOK
  <2> QED BY <1>3, <1>7, <2>1 DEF HearAck
<1>8. ASSUME NEW m \in down, HearFrame(m) PROVE PathsHonest' /\ RowsHonest'
  <2>1. jobs' \subseteq jobs \cup {Job("ack", m.frame, NoNode, 0)}
    BY <1>8 DEF HearFrame, Uplink
  <2>2. \A j \in jobs' \ jobs : j.frame = m.frame
    BY <2>1 DEF Job
  <2> QED BY <1>2, <1>8, <2>2 DEF HearFrame
<1>9. ASSUME NEW f \in rx, Accept(f) PROVE PathsHonest' /\ RowsHonest'
  <2> DEFINE n == f.target
  <2>1. f \in Frames /\ n \in Nodes /\ "relay" \in Roles /\ PathTaken(f)
    BY DEF TypeOK, WellFormed, Roles, PathsHonest
  <2>2. CASE f.pkt \in seen[n] \/ parent[n] = NoNode
    BY <1>2, <1>9, <2>2 DEF Accept
  <2>3. CASE ~ (f.pkt \in seen[n] \/ parent[n] = NoNode)
    <3>1. PICK g \in Frames :
            /\ g.pkt = f.pkt /\ g.path = Append(f.path, n) /\ g.hop = f.hop + 1
            /\ Transmit(n, g, "relay")
      BY <1>9, <2>3, AcceptFrame
    <3>2. f.path \in Seq(Nodes) /\ Len(f.path) \in Nat /\ Len(f.path) > 0
      BY <2>1 DEF Frames, Paths
    <3>3. /\ Len(g.path) = Len(f.path) + 1 /\ g.path[Len(f.path) + 1] = n
          /\ \A i \in 1 .. Len(f.path) : g.path[i] = f.path[i]
      BY <2>1, <3>1, <3>2
    <3>4. PathTaken(f)'
      BY <1>1, <2>1, SeenGrows, PathStays
    <3>5. f.pkt \in seen'[n]
      BY <1>9, <2>1 DEF Accept, TypeOK
    <3>6. \A i \in 2 .. Len(f.path) : f.path[i] # n
      BY <2>1, <2>3 DEF PathTaken
    <3> HIDE DEF n
    <3>7. g.hop = Len(g.path) /\ g.hop > 0 /\ g.path[1] = Origin[g.pkt]
      BY <2>1, <3>1, <3>2, <3>3 DEF PathTaken
    <3>8. \A i \in 2 .. Len(g.path) :
            \/ i \in 2 .. Len(f.path) /\ g.path[i] = f.path[i]
            \/ i = Len(f.path) + 1 /\ g.path[i] = n
      BY <3>2, <3>3
    <3>9. \A i \in 2 .. Len(g.path) : g.pkt \in seen'[g.path[i]]
      BY <3>1, <3>4, <3>5, <3>8 DEF PathTaken
    <3>10. \A i, j \in 2 .. Len(g.path) : i # j => g.path[i] # g.path[j]
      BY <2>1, <3>6, <3>8 DEF PathTaken
    <3>11. PathTaken(g)'
      BY <3>7, <3>9, <3>10 DEF PathTaken
    <3> QED BY <1>1, <1>9, <2>1, <3>1, <3>11, TransmitPaths DEF Accept
  <2> QED BY <2>2, <2>3
<1> QED BY <1>4, <1>5, <1>6, <1>7, <1>8, <1>9 DEF Ship

(* What a worker adds: the job's own frame, one stage on.                  *)
Adds(j) ==
  /\ \A i \in jobs' \ jobs :
       /\ i.frame = j.frame
       /\ i.pc = "heard" => j.pc = "tx" /\ Admissible(j.frame)
       /\ i.pc = "first" => j.pc = "heard"
  /\ \A m \in down' \ down : m.frame = j.frame
  /\ \A f \in rows' \ rows : f = j.frame /\ j.pc = "first"
  /\ UNCHANGED shipVars

LEMMA EngineAdds ==
  ASSUME TypeOK, NEW j \in jobs,
         \/ Drop(j) \/ Heard(j) \/ MarkPacketSeen(j) \/ MarkFails(j)
         \/ RememberAckSender(j) \/ ForwardToNode(j) \/ DeliverToEdge(j)
         \/ AckBack(j) \/ TakeAckSender(j) \/ TakeFails(j) \/ RelayAck(j)
  PROVE  Adds(j)
<1> USE DEF engineVars, shipVars
<1>1. j \in Jobs
  BY DEF TypeOK
<1>2. ASSUME NEW i, jobs' \subseteq jobs \cup {i}, UNCHANGED <<shipVars, down>>,
             i.frame = j.frame,
             i.pc = "heard" => j.pc = "tx" /\ Admissible(j.frame),
             i.pc = "first" => j.pc = "heard",
             \A f \in rows' \ rows : f = j.frame /\ j.pc = "first"
      PROVE  Adds(j)
  BY <1>2 DEF Adds
<1>3. CASE Drop(j) \/ MarkFails(j) \/ TakeFails(j)
  BY <1>3 DEF Drop, MarkFails, TakeFails, Adds
<1>4. CASE Heard(j)
  <2>1. PICK i : i = [j EXCEPT !.pc = "heard"]
    OBVIOUS
  <2>2. i.frame = j.frame
    BY <1>1, <2>1 DEF Jobs
  <2>3. i.pc = "heard"
    BY <1>1, <2>1 DEF Jobs
  <2> QED BY <1>2, <1>4, <2>1, <2>2, <2>3 DEF Heard
<1>5. CASE MarkPacketSeen(j)
  <2>1. PICK i : i = IF dedup[Rcv(j.frame)]
                       THEN [j EXCEPT !.pc = "dup"]
                       ELSE [j EXCEPT !.pc = "first", !.win = expired[Rcv(j.frame)]]
    OBVIOUS
  <2>2. i.frame = j.frame /\ i.pc \in {"dup", "first"}
    BY <1>1, <2>1 DEF Jobs
  <2> QED BY <1>2, <1>5, <2>1, <2>2 DEF MarkPacketSeen
<1>6. CASE RememberAckSender(j)
  <2>1. PICK i : i = [j EXCEPT !.pc = "bound"]
    OBVIOUS
  <2>2. i.frame = j.frame /\ i.pc = "bound"
    BY <1>1, <2>1 DEF Jobs
  <2> QED BY <1>2, <1>6, <2>1, <2>2 DEF RememberAckSender
<1>7. CASE ForwardToNode(j)
  BY <1>7 DEF ForwardToNode, Downlink, Msg, Adds
<1>8. CASE DeliverToEdge(j)
  <2>1. PICK i : i = [j EXCEPT !.pc = "back"]
    OBVIOUS
  <2>2. i.frame = j.frame /\ i.pc = "back"
    BY <1>1, <2>1 DEF Jobs
  <2> QED BY <1>2, <1>8, <2>1, <2>2 DEF DeliverToEdge
<1>9. CASE AckBack(j)
  BY <1>9 DEF AckBack, Downlink, Msg, Adds
<1>10. CASE TakeAckSender(j)
  <2>1. PICK i : i = [j EXCEPT !.pc = "relay", !.to = ackSender[Rcv(j.frame)]]
    OBVIOUS
  <2>2. i.frame = j.frame /\ i.pc = "relay"
    BY <1>1, <2>1 DEF Jobs
  <2>3. jobs' \subseteq jobs \cup {i}
    BY <1>10, <2>1 DEF TakeAckSender
  <2> QED BY <1>2, <1>10, <2>2, <2>3 DEF TakeAckSender
<1>11. CASE RelayAck(j)
  BY <1>11 DEF RelayAck, Downlink, Msg, Adds
<1> QED BY <1>3, <1>4, <1>5, <1>6, <1>7, <1>8, <1>9, <1>10, <1>11

LEMMA EnginePaths ==
  ASSUME TypeOK, WellFormed, PathsHonest, WithinHops, RowsHonest, [Next]_vars, Engine
  PROVE  PathsHonest' /\ RowsHonest'
<1>1. PICK j \in jobs :
        \/ Drop(j) \/ Heard(j) \/ MarkPacketSeen(j) \/ MarkFails(j)
        \/ RememberAckSender(j) \/ ForwardToNode(j) \/ DeliverToEdge(j)
        \/ AckBack(j) \/ TakeAckSender(j) \/ TakeFails(j) \/ RelayAck(j)
  BY DEF Engine
<1>2. PathTaken(j.frame)'
  BY SeenGrows, PathStays DEF PathsHonest, TypeOK, Jobs
<1>3. /\ UNCHANGED shipVars
      /\ \A i \in jobs' \ jobs : i.frame = j.frame
      /\ \A m \in down' \ down : m.frame = j.frame
      /\ \A f \in rows' \ rows : f = j.frame /\ j.pc = "first"
  BY <1>1, EngineAdds DEF Adds
<1>4. \A i \in jobs' \ jobs : PathTaken(i.frame)'
  BY <1>2, <1>3
<1>5. \A m \in down' \ down : PathTaken(m.frame)'
  BY <1>2, <1>3
<1>6. \A f \in rows' \ rows : PathTaken(f)' /\ f.hop <= MaxHops
  BY <1>2, <1>3 DEF WithinHops
<1>7. UNCHANGED <<st, out, rx>>
  BY <1>3 DEF shipVars
<1> QED BY <1>4, <1>5, <1>6, <1>7, PathsKept

LEMMA PathsStep ==
  ASSUME TypeOK, WellFormed, PathsHonest, WithinHops, RowsHonest, [Next]_vars
  PROVE  PathsHonest' /\ RowsHonest'
<1> USE DEF shipVars, engineVars
<1>1. CASE Surroundings
  BY <1>1, PathsKept
  DEF Surroundings, Reroute, Leave, NodeDisconnected, ExpireDedup, ExpireAckSender
<1>2. CASE UNCHANGED vars
  BY <1>2, PathsKept DEF vars
<1> QED BY <1>1, <1>2, ShipPaths, EnginePaths DEF Next

(* Only Heard lets a frame past the checks, and it compares the hop.       *)
LEMMA HopsStep ==
  ASSUME TypeOK, WellFormed, WithinHops, [Next]_vars
  PROVE  WithinHops'
<1> USE DEF shipVars, engineVars
<1>1. ASSUME \A j \in jobs' \ jobs : j.pc \notin {"heard", "first"} PROVE WithinHops'
  BY <1>1 DEF WithinHops
<1>2. CASE Ship
  <2>1. \A n, f, pc : Uplink(n, Job(pc, f, NoNode, 0)) => \A j \in jobs' \ jobs : j.pc = pc
    BY DEF Uplink, Job
  <2>2. \A n, f, role : Transmit(n, f, role) => \A j \in jobs' \ jobs : j.pc = "tx"
    BY <2>1 DEF Transmit
  <2>3. ASSUME NEW k \in Senders, Retry(k) PROVE WithinHops'
    BY <1>1, <2>2, <2>3, RetryFrame
  <2>4. ASSUME NEW f \in rx, Accept(f) PROVE WithinHops'
    BY <1>1, <2>2, <2>4 DEF Accept
  <2>5. ASSUME NEW p \in Packets, Originate(p) PROVE WithinHops'
    BY <1>1, <2>2, <2>5 DEF Originate
  <2>6. ASSUME NEW m \in down, HearAck(m) \/ HearFrame(m) PROVE WithinHops'
    BY <1>1, <2>1, <2>6 DEF HearAck, HearFrame
  <2> QED BY <1>1, <1>2, <2>3, <2>4, <2>5, <2>6 DEF Ship, Timeout, Acked, GiveUp
<1>3. CASE Engine
  <2>1. PICK j \in jobs :
          \/ Drop(j) \/ Heard(j) \/ MarkPacketSeen(j) \/ MarkFails(j)
          \/ RememberAckSender(j) \/ ForwardToNode(j) \/ DeliverToEdge(j)
          \/ AckBack(j) \/ TakeAckSender(j) \/ TakeFails(j) \/ RelayAck(j)
    BY <1>3 DEF Engine
  <2>2. Adds(j)
    BY <2>1, EngineAdds
  <2>3. \A i \in jobs' \ jobs : i.pc \in {"heard", "first"} => i.frame.hop <= MaxHops
    BY <2>2 DEF Adds, WithinHops, Admissible
  <2> QED BY <2>3 DEF WithinHops
<1>4. CASE Surroundings
  BY <1>1, <1>4
  DEF Surroundings, Reroute, Leave, NodeDisconnected, ExpireDedup, ExpireAckSender
<1>5. CASE UNCHANGED vars
  BY <1>1, <1>5 DEF vars
<1> QED BY <1>2, <1>3, <1>4, <1>5 DEF Next

(* Every telemetry row's routing_path is the route its report took, from   *)
(* its origin, through ships that received it, none of them relaying it    *)
(* twice, and within MaxHops: whatever loops the routes form meanwhile.    *)
THEOREM RowsAreHonest == Spec => []RowsHonest
<1>1. Init => PathsHonest /\ WithinHops /\ RowsHonest
  BY DEF Init, PathsHonest, WithinHops, RowsHonest
<1>2. TypeOK /\ WellFormed /\ PathsHonest /\ WithinHops /\ RowsHonest /\ [Next]_vars
        => PathsHonest' /\ WithinHops' /\ RowsHonest'
  BY PathsStep, HopsStep
<1> QED BY <1>1, <1>2, TypeCorrect, PTL DEF Spec

-----------------------------------------------------------------------------
(* The acknowledgement of a Virtual Edge.                                  *)

(* While Redis and PostgreSQL answer, an edge the engine marked a packet   *)
(* for has its row, or a worker is about to write it.                      *)
GotThrough(x) ==
  \/ \E f \in rows : Rcv(f) = x
  \/ \E j \in jobs : j.pc = "first" /\ Rcv(j.frame) = x

EdgeTrail ==
  "infra" \notin scenario.faults =>
    \A x \in Packets \X Edges : Reached(x) => GotThrough(x)

LEMMA FaultsFixed == TypeOK /\ [Next]_vars => scenario'.faults = scenario.faults
<1> USE DEF shipVars, engineVars
<1> SUFFICES ASSUME TypeOK, [Next]_vars PROVE scenario'.faults = scenario.faults
  OBVIOUS
<1>1. ASSUME NEW n \in Nodes, NEW t, Reroute(n, t) PROVE scenario'.faults = scenario.faults
  BY <1>1 DEF Reroute, TypeOK, ScenarioType
<1>2. CASE Ship
  BY <1>2 DEF Ship, Originate, Timeout, Acked, Retry, GiveUp, HearAck, HearFrame, Accept
<1>3. CASE Engine
  BY <1>3
  DEF Engine, Drop, Heard, MarkPacketSeen, MarkFails, RememberAckSender, ForwardToNode,
      DeliverToEdge, AckBack, TakeAckSender, TakeFails, RelayAck
<1>4. CASE Surroundings
  BY <1>1, <1>4
  DEF Surroundings, Leave, NodeDisconnected, ExpireDedup, ExpireAckSender
<1> QED BY <1>2, <1>3, <1>4 DEF Next, vars

(* A step that marks nothing, and takes away no job for the edge that has  *)
(* yet to write its row, keeps the trail.                                  *)
LEMMA EdgeKept ==
  ASSUME "infra" \notin scenario.faults, EdgeTrail, scenario'.faults = scenario.faults,
         rows \subseteq rows',
         \A x \in Packets \X Edges : Reached(x)' => Reached(x) \/ GotThrough(x)',
         \A j \in jobs \ jobs' : j.pc = "first" /\ j.frame.target \in Edges => j.frame \in rows'
  PROVE  EdgeTrail'
<1> SUFFICES ASSUME NEW x \in Packets \X Edges, Reached(x) PROVE GotThrough(x)'
  BY DEF EdgeTrail
<1>1. CASE \E f \in rows : Rcv(f) = x
  BY <1>1 DEF GotThrough, Rcv
<1>2. CASE \E j \in jobs : j.pc = "first" /\ Rcv(j.frame) = x
  <2>1. PICK j \in jobs : j.pc = "first" /\ Rcv(j.frame) = x
    BY <1>2
  <2>2. j.frame.target \in Edges
    BY <2>1 DEF Rcv
  <2> QED BY <2>1, <2>2 DEF GotThrough, Rcv
<1> QED BY <1>1, <1>2 DEF EdgeTrail, GotThrough

LEMMA EdgeStep ==
  ASSUME TypeOK, WellFormed, EdgeTrail, [Next]_vars
  PROVE  EdgeTrail'
<1> USE DEF shipVars, engineVars
<1>1. scenario'.faults = scenario.faults
  BY FaultsFixed
<1>2. CASE "infra" \in scenario.faults
  BY <1>1, <1>2 DEF EdgeTrail
<1>3. CASE "infra" \notin scenario.faults
  <2>1. ASSUME jobs \subseteq jobs', UNCHANGED <<dedup, expired, rows>> PROVE EdgeTrail'
    BY <1>1, <1>3, <2>1, EdgeKept DEF Reached
  <2>2. CASE Ship
    <3>1. \A n, j : Uplink(n, j) => jobs \subseteq jobs'
      BY DEF Uplink
    <3>2. \A n, f, role : Transmit(n, f, role) => jobs \subseteq jobs'
      BY <3>1 DEF Transmit
    <3> QED BY <2>1, <2>2, <3>1, <3>2
            DEF Ship, Originate, Timeout, Acked, Retry, GiveUp, HearAck, HearFrame, Accept
  <2>3. ASSUME NEW j \in jobs, j.pc # "first", jobs \ {j} \subseteq jobs',
               UNCHANGED <<dedup, expired, rows>>
        PROVE  EdgeTrail'
    BY <1>1, <1>3, <2>3, EdgeKept DEF Reached
  <2>4. ASSUME NEW j \in jobs,
               \/ Drop(j) \/ Heard(j) \/ ForwardToNode(j) \/ AckBack(j)
               \/ TakeAckSender(j) \/ TakeFails(j) \/ RelayAck(j)
        PROVE  EdgeTrail'
    BY <2>3, <2>4
    DEF Drop, Heard, ForwardToNode, AckBack, TakeAckSender, TakeFails, RelayAck
  <2>5. ASSUME NEW j \in jobs, MarkPacketSeen(j) PROVE EdgeTrail'
    <3> DEFINE x == Rcv(j.frame)
    <3>1. x \in Packets \X Targets /\ j \in Jobs
      BY RcvType DEF TypeOK, Jobs
    <3>2. \A y \in Packets \X Edges : y # x => (Reached(y)' => Reached(y))
      BY <2>5, <3>1 DEF MarkPacketSeen, Reached, TypeOK, Targets
    <3>3. ASSUME ~ dedup[x] PROVE GotThrough(x)'
      <4>1. PICK i : i = [j EXCEPT !.pc = "first", !.win = expired[x]]
        OBVIOUS
      <4>2. i \in jobs'
        BY <2>5, <3>3, <4>1 DEF MarkPacketSeen
      <4>3. i.pc = "first" /\ i.frame = j.frame
        BY <3>1, <4>1 DEF Jobs
      <4> QED BY <4>2, <4>3 DEF GotThrough, Rcv
    <3>4. \A y \in Packets \X Edges : Reached(y)' => Reached(y) \/ GotThrough(y)'
      BY <3>2, <3>3 DEF Reached
    <3> QED BY <1>1, <1>3, <2>5, <3>4, EdgeKept DEF MarkPacketSeen
  <2>6. ASSUME NEW j \in jobs, RememberAckSender(j) PROVE EdgeTrail'
    <3>1. j.frame.target \notin Edges
      BY <2>6, DataLinkAssumption DEF RememberAckSender
    <3>2. UNCHANGED <<dedup, expired, rows>> /\ jobs \ {j} \subseteq jobs'
      BY <2>6 DEF RememberAckSender
    <3> QED BY <1>1, <1>3, <3>1, <3>2, EdgeKept DEF Reached
  <2>7. ASSUME NEW j \in jobs, DeliverToEdge(j) PROVE EdgeTrail'
    <3>1. UNCHANGED <<dedup, expired>> /\ jobs \ {j} \subseteq jobs'
          /\ rows' = rows \cup {j.frame}
      BY <1>3, <2>7 DEF DeliverToEdge
    <3> QED BY <1>1, <1>3, <3>1, EdgeKept DEF Reached
  <2>8. CASE Engine
    BY <1>3, <2>4, <2>5, <2>6, <2>7, <2>8 DEF Engine, MarkFails
  <2>9. ASSUME NEW y \in Packets \X Targets, ExpireDedup(y) PROVE EdgeTrail'
    <3>1. \A x \in Packets \X Edges : Reached(x)' => Reached(x)
      BY <2>9 DEF ExpireDedup, Reached, TypeOK, Targets
    <3> QED BY <1>1, <1>3, <2>9, <3>1, EdgeKept DEF ExpireDedup
  <2>10. CASE Surroundings
    BY <2>1, <2>9, <2>10
    DEF Surroundings, Reroute, Leave, NodeDisconnected, ExpireAckSender
  <2> QED BY <2>1, <2>2, <2>8, <2>10 DEF Next, vars
<1> QED BY <1>2, <1>3

(* An acknowledgement of a Virtual Edge in any send buffer, first or       *)
(* replayed, means the edge has the report's row or a worker that is about *)
(* to write it, provided Redis and PostgreSQL answer: it speaks of a key   *)
(* the engine marked (the trail of every acknowledgement), and for an edge *)
(* nothing lies between the key and the row.                               *)
THEOREM EdgeAcksMeanDelivered == Spec => []EdgeAckMeansDelivered
<1>1. Init => EdgeTrail
  BY DEF Init, EdgeTrail, Reached, Targets
<1>2. TypeOK /\ WellFormed /\ EdgeTrail /\ [Next]_vars => EdgeTrail'
  BY EdgeStep
<1>3. TypeOK /\ AckTrail /\ EdgeTrail => EdgeAckMeansDelivered
  <2> SUFFICES ASSUME TypeOK, AckTrail, EdgeTrail, "infra" \notin scenario.faults,
                      NEW m \in down, m.frame.target \in Edges
               PROVE  GotThrough(Rcv(m.frame))
    BY DEF EdgeAckMeansDelivered, GotThrough
  <2>1. Rcv(m.frame) \in Packets \X Edges
    BY DEF TypeOK, Msgs, Frames, Rcv
  <2>2. Reached(Rcv(m.frame))
    BY DEF AckTrail, MsgTrail
  <2> QED BY <2>1, <2>2 DEF EdgeTrail
<1> QED BY <1>1, <1>2, <1>3, TypeCorrect, Trail, PTL DEF Spec
=============================================================================
