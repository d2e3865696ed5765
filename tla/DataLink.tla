------------------------------ MODULE DataLink ------------------------------
(***************************************************************************)
(* The store-and-forward data link: the ships (cmd/nodesim) that originate *)
(* telemetry, relay it towards a Virtual Edge and retry until mesh:ack,    *)
(* and the simulation engine (internal/service/simulation_engine.go), the  *)
(* "virtual ether" every frame and every acknowledgement crosses.          *)
(*                                                                         *)
(* The engine runs on a pool of workers: a queued event is a job, and a    *)
(* job is cut into one step per access to state that another worker, a     *)
(* socket or Redis' TTL can change (hub registry, dedup key, ack-sender    *)
(* key, telemetry table).  A ship runs one goroutine per frame it          *)
(* transmits and one per frame it receives, cut at its mutex.              *)
(*                                                                         *)
(* Scenarios bounds a behaviour, and names the adverse events it may see:  *)
(*   "air"    the dice drop a frame or an acknowledgement                  *)
(*   "shed"   the job queue or a socket's send buffer is full              *)
(*   "infra"  Redis or PostgreSQL answers with an error                    *)
(*   "expiry" a dedup or ack-sender key reaches its TTL                    *)
(*   "leave"  a ship's socket closes                                       *)
(***************************************************************************)
EXTENDS Integers, Sequences, FiniteSets

CONSTANTS
  Nodes,            \* ships
  Edges,            \* Virtual Edges
  Packets,          \* packet ids; pktSeq makes each transmitTelemetry's unique
  Origin,           \* Origin[p]: the ship whose report p is
  NoNode,           \* "no parent" / "no ack sender"
  NoFrame,          \* a sender goroutine that has not started
  MaxRetries,       \* bound on retries; nodesim's maxRetries is 3
  MaxHops,          \* domain.MaxHops
  Scenarios,        \* what a behaviour may see, see scenario
  MaxExpiries       \* bound on dedup expirations of one key

Targets == Nodes \cup Edges
Roles == {"origin", "relay"}
NoRole == "none"
FaultKinds == {"air", "shed", "infra", "expiry", "leave"}

(* The routes at the start, how often a frame is retried, how many routing *)
(* updates are left, and the adverse events there may be.                  *)
ScenarioType == [routes: [Nodes -> Targets \cup {NoNode}], retries: 0 .. MaxRetries,
                 changes: Nat, faults: SUBSET FaultKinds]

(* A ship has at most two sender goroutines for one packet: its own report *)
(* and, should the frame come back to it, one relay (seen allows no more). *)
Senders == Nodes \X Packets \X Roles

(* attempt is not on the wire: it tells the copies of one frame apart.     *)
Paths == Seq(Nodes) \ {<<>>}
Frames == [pkt: Packets, target: Targets, hop: Nat, path: Paths,
           attempt: 0 .. MaxRetries]

ASSUME DataLinkAssumption ==
  /\ Nodes \cap Edges = {}
  /\ NoNode \notin Targets
  /\ NoFrame \notin Frames
  /\ Origin \in [Packets -> Nodes]
  /\ MaxRetries \in Nat
  /\ MaxHops \in Nat
  /\ MaxExpiries \in Nat
  /\ Scenarios \subseteq ScenarioType

VARIABLES
  \* --- the ships (cmd/nodesim) -------------------------------------------
  parent,        \* parent[n]: node.parent, NoNode when not routed
  seen,          \* seen[n]: node.seen
  st,            \* st[k]: where sender goroutine k is in transmitWithRetry
  out,           \* out[k]: the frame k transmits
  waiter,        \* waiter[n, p]: node.waiters, the role whose channel waits
  rx,            \* frames in handleReceive, acknowledged, not yet accepted
  \* --- the sockets (internal/ws) -------------------------------------------
  conn,          \* conn[n]: "up", "closing" (off the hub), "gone" (off geo)
  down,          \* messages in the send buffers
  \* --- the engine and its stores -------------------------------------------
  jobs,          \* events queued for, or held by, a worker
  dedup,         \* dedup[p, r]: the SETNX key of packet p at receiver r
  ackSender,     \* ackSender[p, r]: who awaits r's acknowledgement of p
  rows,          \* telemetry_logs, each row named by the frame delivered
  \* --- history and bounds ----------------------------------------------------
  expired,       \* expired[p, r]: how often dedup[p, r] reached its TTL
  handed,        \* frames handed to their receiver, with the dedup window
  scenario       \* the member of Scenarios this behaviour lives in

shipVars == <<parent, seen, st, out, waiter, rx>>
engineVars == <<dedup, ackSender, rows, expired, handed>>
vars == <<shipVars, conn, down, jobs, engineVars, scenario>>

Tx(f) == f.path[Len(f.path)]
Rcv(f) == <<f.pkt, f.target>>
Job(pc, f, to, win) == [pc |-> pc, frame |-> f, to |-> to, win |-> win]
Msg(kind, to, f) == [kind |-> kind, to |-> to, frame |-> f]

-----------------------------------------------------------------------------
(* Channels.                                                               *)

(* writeJSON, the socket and the gateway's non-blocking enqueue: a frame   *)
(* becomes a job, unless the queue is full or the socket is down.          *)
Uplink(n, j) ==
  \/ /\ conn[n] = "up"
     /\ jobs' = jobs \cup {j}
  \/ /\ conn[n] # "up" \/ "shed" \in scenario.faults
     /\ UNCHANGED jobs

(* hub.SendToNode: the message enters the send buffer of a registered      *)
(* socket, unless the buffer is full; the callers ignore the result.       *)
Downlink(n, m) ==
  \/ /\ conn[n] = "up"
     /\ down' = down \cup {m}
  \/ /\ conn[n] # "up" \/ "shed" \in scenario.faults
     /\ UNCHANGED down

-----------------------------------------------------------------------------
Init ==
  /\ scenario \in Scenarios
  /\ parent = scenario.routes
  /\ seen = [n \in Nodes |-> {}]
  /\ st = [k \in Senders |-> "idle"]
  /\ out = [k \in Senders |-> NoFrame]
  /\ waiter = [x \in Nodes \X Packets |-> NoRole]
  /\ rx = {}
  /\ conn = [n \in Nodes |-> "up"]
  /\ down = {}
  /\ jobs = {}
  /\ dedup = [x \in Packets \X Targets |-> FALSE]
  /\ ackSender = [x \in Packets \X Targets |-> NoNode]
  /\ rows = {}
  /\ expired = [x \in Packets \X Targets |-> 0]
  /\ handed = {}

-----------------------------------------------------------------------------
(* The ship: transmitWithRetry.                                            *)

(* One attempt: register a fresh channel under the packet id, then write.  *)
Transmit(n, f, role) ==
  /\ waiter' = [waiter EXCEPT ![<<n, f.pkt>>] = role]
  /\ out' = [out EXCEPT ![<<n, f.pkt, role>>] = f]
  /\ \/ /\ Uplink(n, Job("tx", f, NoNode, 0))
        /\ st' = [st EXCEPT ![<<n, f.pkt, role>>] = "wait"]
     \/ /\ conn[n] # "up"
        /\ st' = [st EXCEPT ![<<n, f.pkt, role>>] = "halted"]
        /\ UNCHANGED jobs

(* transmitTelemetry: a routed ship reports once per packet id.            *)
Originate(p) ==
  LET n == Origin[p] IN
  /\ st[<<n, p, "origin">>] = "idle"
  /\ parent[n] # NoNode
  /\ Transmit(n, [pkt |-> p, target |-> parent[n], hop |-> 1,
                  path |-> <<n>>, attempt |-> 0], "origin")
  /\ UNCHANGED <<parent, seen, rx, conn, down, engineVars, scenario>>

(* Mutant of Timeout: a callback of the timer, not a branch of the select. *)
TimeoutLate(k) ==
  /\ st[k] \in {"wait", "signalled", "acked"}
  /\ st' = [st EXCEPT ![k] = "expired"]
  /\ UNCHANGED <<parent, seen, out, waiter, rx, conn, down, jobs, engineVars,
                 scenario>>

(* The timer wins the select, also when the channel is closed already.     *)
Timeout(k) ==
  /\ st[k] \in {"wait", "signalled"}
  /\ st' = [st EXCEPT ![k] = "expired"]
  /\ UNCHANGED <<parent, seen, out, waiter, rx, conn, down, jobs, engineVars,
                 scenario>>

(* The closed channel wins the select.                                     *)
Acked(k) ==
  /\ st[k] = "signalled"
  /\ st' = [st EXCEPT ![k] = "acked"]
  /\ UNCHANGED <<parent, seen, out, waiter, rx, conn, down, jobs, engineVars,
                 scenario>>

(* Mutants of Retry: the attempt is not compared with maxRetries; it is    *)
(* not advanced either.                                                    *)
RetryUnbounded(k) ==
  /\ st[k] = "expired"
  /\ Transmit(k[1], [out[k] EXCEPT !.attempt = @ + 1], k[3])
  /\ UNCHANGED <<parent, seen, rx, conn, down, engineVars, scenario>>

RetrySameAttempt(k) ==
  /\ st[k] = "expired"
  /\ Transmit(k[1], out[k], k[3])
  /\ UNCHANGED <<parent, seen, rx, conn, down, engineVars, scenario>>

(* After a timeout: delete the waiter of the packet id, then the next      *)
(* attempt with the same packet id.                                        *)
Retry(k) ==
  /\ st[k] = "expired"
  /\ out[k].attempt < scenario.retries
  /\ Transmit(k[1], [out[k] EXCEPT !.attempt = @ + 1], k[3])
  /\ UNCHANGED <<parent, seen, rx, conn, down, engineVars, scenario>>

(* After the timeout of the last attempt: the link is dead.                *)
GiveUp(k) ==
  /\ st[k] = "expired"
  /\ out[k].attempt = scenario.retries
  /\ waiter' = [waiter EXCEPT ![<<k[1], k[2]>>] = NoRole]
  /\ st' = [st EXCEPT ![k] = "dead"]
  /\ UNCHANGED <<parent, seen, out, rx, conn, down, jobs, engineVars,
                 scenario>>

-----------------------------------------------------------------------------
(* The ship: reader and handleReceive.                                     *)

(* mesh:ack closes the channel registered for the packet id, whichever     *)
(* goroutine it belongs to; one past its select does not notice.           *)
HearAck(m) ==
  LET x == <<m.to, m.frame.pkt>>
      k == <<m.to, m.frame.pkt, waiter[x]>>
  IN
  /\ m.kind \in {"ack", "dupack"}
  /\ down' = down \ {m}
  /\ waiter' = [waiter EXCEPT ![x] = NoRole]
  /\ st' = IF waiter[x] # NoRole /\ st[k] = "wait"
             THEN [st EXCEPT ![k] = "signalled"] ELSE st
  /\ UNCHANGED <<parent, seen, out, rx, conn, jobs, engineVars, scenario>>

(* mesh:receive_rf: always acknowledge, duplicates too.                    *)
HearFrame(m) ==
  /\ m.kind = "rf"
  /\ down' = down \ {m}
  /\ rx' = rx \cup {m.frame}
  /\ Uplink(m.to, Job("ack", m.frame, NoNode, 0))
  /\ UNCHANGED <<parent, seen, st, out, waiter, conn, engineVars, scenario>>

Relayed(f, n) == [pkt |-> f.pkt, target |-> parent[n], hop |-> f.hop + 1,
                  path |-> Append(f.path, n), attempt |-> 0]

(* Then, under the mutex: drop a packet already seen, stall when isolated, *)
(* relay towards this ship's own parent otherwise.                         *)
Accept(f) ==
  LET n == f.target IN
  /\ rx' = rx \ {f}
  /\ seen' = [seen EXCEPT ![n] = @ \cup {f.pkt}]
  /\ IF f.pkt \in seen[n] \/ parent[n] = NoNode
       THEN UNCHANGED <<st, out, waiter, jobs>>
       ELSE Transmit(n, Relayed(f, n), "relay")
  /\ UNCHANGED <<parent, conn, down, engineVars, scenario>>

-----------------------------------------------------------------------------
(* The engine: HandleTransmit.                                             *)

(* Mutant of Admissible: no TTL.                                           *)
AdmissibleAnyHop(f) ==
  /\ conn[Tx(f)] # "gone"
  /\ f.target \in Nodes => conn[f.target] = "up"

(* MaxHops, both positions on the geo index, the target online.            *)
Admissible(f) ==
  /\ f.hop <= MaxHops
  /\ conn[Tx(f)] # "gone"
  /\ f.target \in Nodes => conn[f.target] = "up"

(* Mutant of Drop: the sender is acknowledged.                             *)
DropAcknowledged(j) ==
  /\ j.pc = "tx"
  /\ ~ Admissible(j.frame) \/ scenario.faults \cap {"air", "infra"} # {}
  /\ jobs' = jobs \ {j}
  /\ Downlink(Tx(j.frame), Msg("ack", Tx(j.frame), j.frame))
  /\ UNCHANGED <<shipVars, conn, engineVars, scenario>>

(* Dropped in silence: the rules above, the dice, or a failed read.        *)
Drop(j) ==
  /\ j.pc = "tx"
  /\ ~ Admissible(j.frame) \/ scenario.faults \cap {"air", "infra"} # {}
  /\ jobs' = jobs \ {j}
  /\ UNCHANGED <<shipVars, conn, down, engineVars, scenario>>

Heard(j) ==
  /\ j.pc = "tx"
  /\ Admissible(j.frame)
  /\ jobs' = (jobs \ {j}) \cup {[j EXCEPT !.pc = "heard"]}
  /\ UNCHANGED <<shipVars, conn, down, engineVars, scenario>>

(* Mutants of MarkPacketSeen: SET instead of SETNX; one key per packet     *)
(* instead of one per packet and receiver.                                 *)
MarkAlwaysNew(j) ==
  LET x == Rcv(j.frame) IN
  /\ j.pc = "heard"
  /\ jobs' = (jobs \ {j}) \cup {[j EXCEPT !.pc = "first", !.win = expired[x]]}
  /\ dedup' = [dedup EXCEPT ![x] = TRUE]
  /\ UNCHANGED <<shipVars, conn, down, ackSender, rows, expired, handed,
                 scenario>>

MarkPerPacket(j) ==
  LET x == Rcv(j.frame) IN
  /\ j.pc = "heard"
  /\ IF \E r \in Targets : dedup[<<j.frame.pkt, r>>]
       THEN /\ jobs' = (jobs \ {j}) \cup {[j EXCEPT !.pc = "dup"]}
            /\ UNCHANGED dedup
       ELSE /\ jobs' = (jobs \ {j}) \cup
                         {[j EXCEPT !.pc = "first", !.win = expired[x]]}
            /\ dedup' = [dedup EXCEPT ![x] = TRUE]
  /\ UNCHANGED <<shipVars, conn, down, ackSender, rows, expired, handed,
                 scenario>>

(* MarkPacketSeen: SETNX on (packet, receiver).                            *)
MarkPacketSeen(j) ==
  LET x == Rcv(j.frame) IN
  /\ j.pc = "heard"
  /\ jobs' = (jobs \ {j}) \cup
               {IF dedup[x] THEN [j EXCEPT !.pc = "dup"]
                            ELSE [j EXCEPT !.pc = "first", !.win = expired[x]]}
  /\ dedup' = [dedup EXCEPT ![x] = TRUE]
  /\ UNCHANGED <<shipVars, conn, down, ackSender, rows, expired, handed,
                 scenario>>

(* A Redis error ends the job and the frame; the key may be set or not.    *)
MarkFails(j) ==
  /\ j.pc = "heard"
  /\ "infra" \in scenario.faults
  /\ jobs' = jobs \ {j}
  /\ \/ dedup' = [dedup EXCEPT ![Rcv(j.frame)] = TRUE]
     \/ UNCHANGED dedup
  /\ UNCHANGED <<shipVars, conn, down, ackSender, rows, expired, handed,
                 scenario>>

(* forwardToNode: RememberAckSender (an error is logged and ignored) ...   *)
RememberAckSender(j) ==
  /\ j.pc = "first"
  /\ j.frame.target \in Nodes
  /\ jobs' = (jobs \ {j}) \cup {[j EXCEPT !.pc = "bound"]}
  /\ \/ ackSender' = [ackSender EXCEPT ![Rcv(j.frame)] = Tx(j.frame)]
     \/ "infra" \in scenario.faults /\ UNCHANGED ackSender
  /\ UNCHANGED <<shipVars, conn, down, dedup, rows, expired, handed, scenario>>

(* ... then SendToNode, whose result is ignored.                           *)
ForwardToNode(j) ==
  LET m == Msg("rf", j.frame.target, j.frame) IN
  /\ j.pc = "bound"
  /\ jobs' = jobs \ {j}
  /\ Downlink(j.frame.target, m)
  /\ handed' = handed \cup
                 {h \in {[frame |-> j.frame, win |-> j.win]} : m \in down'}
  /\ UNCHANGED <<shipVars, conn, dedup, ackSender, rows, expired, scenario>>

(* deliverToEdge: the telemetry row; an error is logged and the frame      *)
(* acknowledged all the same.                                              *)
DeliverToEdge(j) ==
  /\ j.pc = "first"
  /\ j.frame.target \in Edges
  /\ jobs' = (jobs \ {j}) \cup {[j EXCEPT !.pc = "back"]}
  /\ \/ rows' = rows \cup {j.frame}
     \/ "infra" \in scenario.faults /\ UNCHANGED rows
  /\ handed' = handed \cup {[frame |-> j.frame, win |-> j.win]}
  /\ UNCHANGED <<shipVars, conn, down, dedup, ackSender, expired, scenario>>

(* The edge's acknowledgement, and the replayed one of handleDuplicate,    *)
(* ride the air back to the transmitter.                                   *)
AckBack(j) ==
  /\ j.pc \in {"back", "dup"}
  /\ jobs' = jobs \ {j}
  /\ \/ Downlink(Tx(j.frame), Msg(IF j.pc = "dup" THEN "dupack" ELSE "ack",
                                  Tx(j.frame), j.frame))
     \/ "air" \in scenario.faults /\ UNCHANGED down
  /\ UNCHANGED <<shipVars, conn, engineVars, scenario>>

-----------------------------------------------------------------------------
(* The engine: HandleAck.                                                  *)

(* TakeAckSender: GETDEL; nothing remembered is a stale acknowledgement.   *)
TakeAckSender(j) ==
  LET x == Rcv(j.frame) IN
  /\ j.pc = "ack"
  /\ jobs' = (jobs \ {j}) \cup
               (IF ackSender[x] = NoNode THEN {}
                  ELSE {[j EXCEPT !.pc = "relay", !.to = ackSender[x]]})
  /\ ackSender' = [ackSender EXCEPT ![x] = NoNode]
  /\ UNCHANGED <<shipVars, conn, down, dedup, rows, expired, handed, scenario>>

(* A Redis error ends the job; the sender stays remembered.                *)
TakeFails(j) ==
  /\ j.pc = "ack"
  /\ "infra" \in scenario.faults
  /\ jobs' = jobs \ {j}
  /\ UNCHANGED <<shipVars, conn, down, engineVars, scenario>>

(* Both positions known, the dice, then SendToNode.                        *)
RelayAck(j) ==
  /\ j.pc = "relay"
  /\ jobs' = jobs \ {j}
  /\ \/ /\ conn[j.to] # "gone" /\ conn[j.frame.target] # "gone"
        /\ Downlink(j.to, Msg("ack", j.to, j.frame))
     \/ /\ \/ conn[j.to] = "gone" \/ conn[j.frame.target] = "gone"
           \/ scenario.faults \cap {"air", "infra"} # {}
        /\ UNCHANGED down
  /\ UNCHANGED <<shipVars, conn, engineVars, scenario>>

-----------------------------------------------------------------------------
(* The surroundings.                                                       *)

(* mesh:routing_update reaches a ship; the topology chooses the parent.    *)
Reroute(n, t) ==
  /\ conn[n] = "up"
  /\ scenario.changes > 0
  /\ t # n /\ t # parent[n]
  /\ parent' = [parent EXCEPT ![n] = t]
  /\ scenario' = [scenario EXCEPT !.changes = @ - 1]
  /\ UNCHANGED <<seen, st, out, waiter, rx, conn, down, jobs, engineVars>>

(* A ship's socket closes: unregisterNode, its buffered messages are lost; *)
(* then NodeDisconnected takes it off the geo index.  nodesim does not     *)
(* reconnect.                                                              *)
Leave(n) ==
  /\ "leave" \in scenario.faults
  /\ conn[n] = "up"
  /\ conn' = [conn EXCEPT ![n] = "closing"]
  /\ down' = {m \in down : m.to # n}
  /\ UNCHANGED <<shipVars, jobs, engineVars, scenario>>

NodeDisconnected(n) ==
  /\ conn[n] = "closing"
  /\ conn' = [conn EXCEPT ![n] = "gone"]
  /\ UNCHANGED <<shipVars, down, jobs, engineVars, scenario>>

(* The dedup key and the ack-sender key reach their TTL.                   *)
ExpireDedup(x) ==
  /\ "expiry" \in scenario.faults
  /\ dedup[x]
  /\ expired[x] < MaxExpiries
  /\ dedup' = [dedup EXCEPT ![x] = FALSE]
  /\ expired' = [expired EXCEPT ![x] = @ + 1]
  /\ UNCHANGED <<shipVars, conn, down, jobs, ackSender, rows, handed,
                 scenario>>

ExpireAckSender(x) ==
  /\ "expiry" \in scenario.faults
  /\ ackSender[x] # NoNode
  /\ ackSender' = [ackSender EXCEPT ![x] = NoNode]
  /\ UNCHANGED <<shipVars, conn, down, jobs, dedup, rows, expired, handed,
                 scenario>>

-----------------------------------------------------------------------------
Ship ==
  \/ \E p \in Packets : Originate(p)
  \/ \E k \in Senders : Timeout(k) \/ Acked(k) \/ Retry(k) \/ GiveUp(k)
  \/ \E m \in down : HearAck(m) \/ HearFrame(m)
  \/ \E f \in rx : Accept(f)

Engine ==
  \E j \in jobs :
    \/ Drop(j) \/ Heard(j) \/ MarkPacketSeen(j) \/ MarkFails(j)
    \/ RememberAckSender(j) \/ ForwardToNode(j) \/ DeliverToEdge(j) \/ AckBack(j)
    \/ TakeAckSender(j) \/ TakeFails(j) \/ RelayAck(j)

Surroundings ==
  \/ \E n \in Nodes, t \in Targets \cup {NoNode} : Reroute(n, t)
  \/ \E n \in Nodes : Leave(n) \/ NodeDisconnected(n)
  \/ \E x \in Packets \X Targets : ExpireDedup(x) \/ ExpireAckSender(x)

Next == Ship \/ Engine \/ Surroundings

(* The ships' goroutines and timers run, and the workers drain the queue:  *)
(* every loop is bounded, so fairness of the two pools as a whole is all   *)
(* the liveness properties need.                                           *)
Spec == Init /\ [][Next]_vars /\ WF_vars(Ship) /\ WF_vars(Engine)

-----------------------------------------------------------------------------
(* Properties.                                                             *)

Jobs == [pc: {"tx", "heard", "first", "bound", "back", "dup", "ack", "relay"},
         frame: Frames, to: Nodes \cup {NoNode}, win: Nat]
Msgs == [kind: {"rf", "ack", "dupack"}, to: Nodes, frame: Frames]

(* Every variable has its type.                                            *)
TypeOK ==
  /\ parent \in [Nodes -> Targets \cup {NoNode}]
  /\ seen \in [Nodes -> SUBSET Packets]
  /\ st \in [Senders -> {"idle", "wait", "signalled", "expired",
                        "acked", "dead", "halted"}]
  /\ out \in [Senders -> Frames \cup {NoFrame}]
  /\ waiter \in [Nodes \X Packets -> Roles \cup {NoRole}]
  /\ rx \subseteq Frames
  /\ conn \in [Nodes -> {"up", "closing", "gone"}]
  /\ down \subseteq Msgs
  /\ jobs \subseteq Jobs
  /\ dedup \in [Packets \X Targets -> BOOLEAN]
  /\ ackSender \in [Packets \X Targets -> Nodes \cup {NoNode}]
  /\ rows \subseteq Frames
  /\ expired \in [Packets \X Targets -> Nat]
  /\ handed \subseteq [frame: Frames, win: Nat]
  /\ scenario \in ScenarioType

(* What the types leave out: a running goroutine holds a frame of its own  *)
(* packet and ship, and what is addressed to a ship's radio names a ship.  *)
WellFormed ==
  /\ \A k \in Senders : st[k] # "idle" =>
       out[k] \in Frames /\ out[k].pkt = k[2] /\ Tx(out[k]) = k[1]
  /\ \A f \in rx : f.target \in Nodes
  /\ \A m \in down : m.kind = "rf" => m.frame.target = m.to
  /\ \A j \in jobs : /\ j.pc \in {"bound", "ack", "relay"} => j.frame.target \in Nodes
                     /\ j.pc = "relay" => j.to \in Nodes

(* "filters a retry whose original already arrived": between two expiries  *)
(* of its dedup key, a receiver is handed a packet at most once, whatever  *)
(* is retried, relayed by several ships, or processed by several workers.  *)
OncePerWindow ==
  \A x, y \in handed :
    Rcv(x.frame) = Rcv(y.frame) /\ x.win = y.win => x = y

(* A frame marked as new, by a worker that still holds it or handed over,  *)
(* carries a window no other one has for that receiver; the window of a    *)
(* dedup key that expired is closed.                                       *)
Pending == {j \in jobs : j.pc \in {"first", "bound"}}
WindowOpen(f, win) ==
  win <= expired[Rcv(f)] /\ (win = expired[Rcv(f)] => dedup[Rcv(f)])
Windows ==
  /\ \A h \in handed : WindowOpen(h.frame, h.win)
  /\ \A j \in Pending : WindowOpen(j.frame, j.win)
  /\ \A h \in handed, j \in Pending : ~ (Rcv(h.frame) = Rcv(j.frame) /\ h.win = j.win)
  /\ \A i, j \in Pending : Rcv(i.frame) = Rcv(j.frame) /\ i.win = j.win => i = j

Reached(x) == dedup[x] \/ expired[x] > 0
Addressed(n, p, r) ==
  \E role \in Roles : st[<<n, p, role>>] # "idle" /\ out[<<n, p, role>>].target = r

(* A ship that counts a packet as acknowledged had sent it to a receiver   *)
(* whose radio it reached: no acknowledgement crosses to another packet,   *)
(* or to a ship that sent nothing.                                         *)
AckSound ==
  \A k \in Senders : st[k] \in {"signalled", "acked"} =>
    \E r \in Targets : Addressed(k[1], k[2], r) /\ Reached(<<k[2], r>>)

(* routing_path is the route taken: it starts at the origin, every later   *)
(* ship received the packet, none relayed it twice, and hop_count is its   *)
(* length.                                                                 *)
PathTaken(f) ==
  /\ f.hop = Len(f.path) /\ f.hop > 0
  /\ f.path[1] = Origin[f.pkt]
  /\ \A i \in 2 .. Len(f.path) : f.pkt \in seen[f.path[i]]
  /\ \A i, j \in 2 .. Len(f.path) : i # j => f.path[i] # f.path[j]

(* A telemetry row's path was really taken, and within domain.MaxHops,     *)
(* through routing loops and stale parents too.                            *)
RowsHonest == \A f \in rows : PathTaken(f) /\ f.hop <= MaxHops

(* The ACK of a Virtual Edge means the report reached it.  Needs Redis to  *)
(* answer: MarkFails can leave the key set for a frame it lost.            *)
EdgeAckMeansDelivered ==
  "infra" \notin scenario.faults =>
    \A m \in down : m.kind \in {"ack", "dupack"} /\ m.frame.target \in Edges =>
      \/ \E f \in rows : Rcv(f) = Rcv(m.frame)
      \/ \E j \in jobs : j.pc = "first" /\ Rcv(j.frame) = Rcv(m.frame)

(* A verdict is final: no goroutine that was acknowledged or declared its  *)
(* link dead sends again, and none changes its target on a retry.          *)
VerdictFinal ==
  [][\A k \in Senders :
       /\ st[k] \in {"acked", "dead", "halted"} => st'[k] = st[k] /\ out'[k] = out[k]
       /\ st[k] # "idle" => /\ out'[k].target = out[k].target
                            /\ out'[k].attempt - out[k].attempt \in {0, 1}]_vars

(* Retries are bounded and no frame circulates for ever, in a routing loop *)
(* either: the fleet falls silent once nothing new is reported.            *)
Quiesces ==
  <>[](/\ jobs = {} /\ down = {} /\ rx = {}
       /\ \A k \in Senders : st[k] \in {"idle", "acked", "dead", "halted"})

(* A report becomes a telemetry row, if no frame is lost, the routes lead  *)
(* its origin to an edge within MaxHops, and routes and sockets stay.      *)
LeadsToEdge[i \in Nat] ==
  IF i = 0 THEN {} ELSE {n \in Nodes : parent[n] \in Edges \cup LeadsToEdge[i - 1]}
EndToEnd ==
  \A p \in Packets :
      [](/\ scenario.faults \subseteq {"leave"} /\ parent = scenario.routes
         /\ Origin[p] \in LeadsToEdge[MaxHops]
         /\ \A n \in Nodes : conn[n] = "up") =>
        (st[<<Origin[p], p, "origin">>] # "idle" ~> \E f \in rows : f.pkt = p)

(* Each hop delivers what Delivery promises: whatever is retried, lost,    *)
(* shed, answered twice or forgotten, and for both senders a ship may have *)
(* for a packet, who share one waiter.                                     *)
Verdict ==
  [idle |-> "none", wait |-> "pending", signalled |-> "pending", expired |-> "pending",
   acked |-> "acked", dead |-> "dead", halted |-> "dead"]

Hop == INSTANCE Delivery WITH
  window  <- expired,
  taken   <- dedup,
  verdict <- [k \in Senders |-> Verdict[st[k]]],
  target  <- [k \in Senders |-> IF st[k] = "idle" THEN NoNode ELSE out[k].target]

HopDelivery == Hop!Spec

(* handleDuplicate's comment: the ACK is replayed "for a packet that       *)
(* actually got through": the receiver has it, or it is on its way there.  *)
DuplicateGotThrough ==
  \A m \in down : m.kind = "dupack" /\ m.frame.target \in Nodes =>
    LET x == Rcv(m.frame) IN
    \/ m.frame.pkt \in seen[m.frame.target]
    \/ \E f \in rx : Rcv(f) = x
    \/ \E d \in down : d.kind = "rf" /\ Rcv(d.frame) = x
    \/ \E j \in jobs : j.pc \in {"first", "bound"} /\ Rcv(j.frame) = x
=============================================================================
