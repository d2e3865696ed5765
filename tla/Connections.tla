----------------------------- MODULE Connections -----------------------------
(***************************************************************************)
(* The server side of the sockets of one session: the hub                  *)
(* (internal/ws/hub.go), a socket's two pumps (client.go), the gateway     *)
(* that admits and tears them down (gateway.go) and the handlers of the    *)
(* engine and of the scheduler that tell a dashboard what happens.         *)
(*                                                                         *)
(* A ship may connect again while its former socket is still being torn    *)
(* down, so a ship has several Sockets, each used once.  Every goroutine   *)
(* is cut at its accesses to the registry, to a store and to a send        *)
(* buffer.  Dashboards share nothing with one another: one is modelled,    *)
(* its send buffer and the wire being one bounded queue, feed.  Positions  *)
(* and routes are kept as far as a dashboard tells them apart: a ship is   *)
(* on the geo index or not, and on the routing table or not.               *)
(*                                                                         *)
(* Sessions.tla has Stop with all its requests and errors; here it is what *)
(* sockets and dashboards see of it.                                       *)
(***************************************************************************)
EXTENDS Naturals, Sequences, FiniteSets

CONSTANTS
  Ships,
  Sockets,      \* sockets of ships, each used once
  ShipOf,       \* ShipOf[s]: the ship, the node_id of the query
  NoSocket,     \* no socket registered
  NoTable,      \* recompute and MonitorConnected hold no table
  Due,          \* MonitorConnected has yet to read it
  Early,        \* sockets that are connected, one a ship at most, at the start
  Frail,        \* bound: the sockets of ships that may fail
  FeedSize,     \* sendBuffer
  MaxFrames,    \* bound on frames transmitted
  Scenarios     \* what may happen, see below

(* What a behaviour may see: its sockets of ships, and                     *)
(*   "pings"   ships ping                "frames"  ships transmit          *)
(*   "ticks"   the scheduler runs        "page"    it fetches by itself    *)
(*   "stop"    the session is stopped    "delete"  its history is deleted  *)
(*   "leave"   ships' sockets fail       "drop"    the dashboard's does    *)
(*   "rest"    GETs fail                                                   *)
Stimuli ==
  {"page", "pings", "frames", "ticks", "stop", "delete", "leave", "drop", "rest"}
    \cup Sockets

Counters == {"transmit_total", "outcome"}

(* What NodeConnected sends a ship that joins, in this order.              *)
Items == {"params", "schema", "route"}

ASSUME ConnectionsAssumption ==
  /\ ShipOf \in [Sockets -> Ships]
  /\ NoSocket \notin Sockets
  /\ Early \subseteq Sockets /\ \A s, t \in Early : ShipOf[s] = ShipOf[t] => s = t
  /\ \A t \in SUBSET Ships : t \notin {NoTable, Due}
  /\ NoTable # Due
  /\ Frail \subseteq Sockets
  /\ FeedSize \in Nat \ {0}
  /\ MaxFrames \in Nat
  /\ Scenarios \subseteq SUBSET Stimuli

VARIABLES
  allowed,    \* the scenario of this behaviour
  \* --- the session and its stores --------------------------------------------
  row,        \* "active", "stopped" or "deleted"
  stop,       \* how far Stop is
  cached,     \* whether its parameters are: SessionActive
  geo,        \* ships on the geo index
  table,      \* ships on the stored routing table
  stat,       \* the counters of sim:{id}:stats
  \* --- the sockets of ships -----------------------------------------------------
  sock,       \* sock[s]: "unused", "admitted", "live", "dead" (done closed),
              \* "leaving", "parting" (in NodeDisconnected), "ended"
  registry,   \* registry[n]: Hub.nodes
  welcome,    \* welcome[s]: NodeConnected: "no", "due", the item it sends next, "done"
  \* --- jobs and the scheduler -----------------------------------------------------
  ping,       \* ping[n]: a node:ping: "none", "queued", "stored"
  frame,      \* a node:transmit: "none", "heard", "counted"
  tick,       \* recompute: the table it is about to save, or NoTable
  \* --- the socket of the dashboard ---------------------------------------------------
  link,       \* "none", "dialing", "upgraded", "joined", "closing"
  feed,       \* events on their way to the browser
  prime,      \* MonitorConnected: NoTable, Due or the table it has read
  \* --- history ---------------------------------------------------------------
  newest,     \* newest[n]: the socket of n registered last
  told        \* <<s, i>>: what there is of item i was sent on socket s

stores == <<allowed, row, stop, cached, geo, table, stat>>
shipSockets == <<sock, registry, welcome, newest, told>>
jobs == <<ping, frame, tick>>
monitor == <<link, feed, prime>>
serverVars == <<stores, shipSockets, jobs, monitor>>

Joined(n) == [kind |-> "status", ship |-> n, online |-> TRUE]
Left(n) == [kind |-> "status", ship |-> n, online |-> FALSE]
Pinged(n) == [kind |-> "ping", ship |-> n]
Routes(t) == [kind |-> "table", routes |-> t]
Outcome == [kind |-> "packet"]
Ended == [kind |-> "ended"]

(* Mutant of Send: what a dashboard is behind with is kept, all of it.     *)
SendUnbounded(e) == feed' = IF link = "joined" THEN Append(feed, e) ELSE feed

(* trySend to the dashboard: never blocks, a full buffer sheds the event.  *)
Send(e) ==
  feed' = IF link = "joined" /\ Len(feed) < FeedSize THEN Append(feed, e) ELSE feed

-----------------------------------------------------------------------------
(* The session is running, some ships have connected, a dashboard dials.   *)
ServerInit ==
  /\ allowed \in Scenarios
  /\ row = "active" /\ stop = "no" /\ cached = TRUE
  /\ told = (Early \cap allowed) \X Items
  /\ geo = {ShipOf[s] : s \in Early \cap allowed} /\ table = {} /\ stat = [k \in Counters |-> 0]
  /\ sock = [s \in Sockets |-> IF s \in Early \cap allowed THEN "live" ELSE "unused"]
  /\ registry = [n \in Ships |->
                   IF n \in geo THEN CHOOSE s \in Early \cap allowed : ShipOf[s] = n
                   ELSE NoSocket]
  /\ welcome = [s \in Sockets |-> IF s \in Early \cap allowed THEN "done" ELSE "no"]
  /\ newest = registry
  /\ ping = [n \in Ships |-> "none"] /\ frame = "none" /\ tick = NoTable
  /\ link = "dialing"
  /\ feed = <<>> /\ prime = NoTable

-----------------------------------------------------------------------------
(* HandleNodeWS and the two pumps.                                         *)

(* SessionActive, then the upgrade.                                        *)
Admit(s) ==
  /\ s \in allowed
  /\ sock[s] = "unused" /\ cached
  /\ sock' = [sock EXCEPT ![s] = "admitted"]
  /\ UNCHANGED <<stores, registry, welcome, newest, told, jobs, monitor>>

(* Mutant of RegisterNode: only a ship that was away is welcomed.          *)
RegisterWelcomeNew(s) ==
  LET n == ShipOf[s] IN
  /\ sock[s] = "admitted"
  /\ sock' = [sock EXCEPT ![s] = "live"]
  /\ registry' = [registry EXCEPT ![n] = s]
  /\ newest' = [newest EXCEPT ![n] = s]
  /\ welcome' = [welcome EXCEPT ![s] = IF registry[n] = NoSocket THEN "due" ELSE @]
  /\ UNCHANGED <<stores, told, jobs, monitor>>

(* registerNode takes the place of the ship's former socket.               *)
RegisterNode(s) ==
  LET n == ShipOf[s] IN
  /\ sock[s] = "admitted"
  /\ sock' = [sock EXCEPT ![s] = "live"]
  /\ registry' = [registry EXCEPT ![n] = s]
  /\ newest' = [newest EXCEPT ![n] = s]
  /\ welcome' = [welcome EXCEPT ![s] = "due"]
  /\ UNCHANGED <<stores, told, jobs, monitor>>

(* ... and closes that one, no longer holding the lock.                    *)
CloseReplaced(s) ==
  /\ sock[s] = "live" /\ registry[ShipOf[s]] # s
  /\ sock' = [sock EXCEPT ![s] = "dead"]
  /\ UNCHANGED <<stores, registry, welcome, newest, told, jobs, monitor>>

(* A pump ends: the peer is gone or silent, a write failed.                *)
Disconnect(s) ==
  /\ "leave" \in allowed /\ s \in Frail
  /\ sock[s] = "live"
  /\ sock' = [sock EXCEPT ![s] = "dead"]
  /\ UNCHANGED <<stores, registry, welcome, newest, told, jobs, monitor>>

(* Mutant of UnregisterNode: whatever socket is registered is removed.     *)
UnregisterAny(s) ==
  LET n == ShipOf[s] IN
  /\ sock[s] = "dead"
  /\ registry' = [registry EXCEPT ![n] = NoSocket]
  /\ sock' = [sock EXCEPT ![s] = "leaving"]
  /\ UNCHANGED <<stores, welcome, newest, told, jobs, monitor>>

(* onClose: unregisterNode, if the registry still holds this very socket.  *)
UnregisterNode(s) ==
  LET n == ShipOf[s] IN
  /\ sock[s] = "dead"
  /\ IF registry[n] = s
       THEN /\ registry' = [registry EXCEPT ![n] = NoSocket]
            /\ sock' = [sock EXCEPT ![s] = "leaving"]
       ELSE /\ sock' = [sock EXCEPT ![s] = "ended"]
            /\ UNCHANGED registry
  /\ UNCHANGED <<stores, welcome, newest, told, jobs, monitor>>

(* NodeDisconnected: off the geo index ...                                 *)
RemoveNode(s) ==
  /\ sock[s] = "leaving"
  /\ geo' = geo \ {ShipOf[s]}
  /\ sock' = [sock EXCEPT ![s] = "parting"]
  /\ UNCHANGED <<allowed, row, stop, cached, table, stat, registry, welcome, newest, told, jobs,
                 monitor>>

(* ... then node:status offline.                                           *)
AnnounceLeft(s) ==
  /\ sock[s] = "parting"
  /\ sock' = [sock EXCEPT ![s] = "ended"]
  /\ Send(Left(ShipOf[s]))
  /\ UNCHANGED <<stores, registry, welcome, newest, told, jobs, link, prime>>

(* NodeConnected runs once the pumps do: node:status online ...            *)
AnnounceJoined(s) ==
  /\ welcome[s] = "due"
  /\ welcome' = [welcome EXCEPT ![s] = "params"]
  /\ Send(Joined(ShipOf[s]))
  /\ UNCHANGED <<stores, sock, registry, newest, told, jobs, link, prime>>

(* ... then, each read and sent on its own to whatever socket the ship has *)
(* by then, env:sync_params, schema:sync and the route.  Reads that fail,  *)
(* full buffers of ships and updates overtaken by an older read are in     *)
(* Sessions, Ingest and Topology; here they all succeed.                   *)
Prime(s) ==
  LET item == welcome[s]
      target == {registry[ShipOf[s]]} \cap Sockets IN
  /\ item \in Items
  /\ welcome' = [welcome EXCEPT ![s] = CASE item = "params" -> "schema"
                                        [] item = "schema" -> "route"
                                        [] item = "route"  -> "done"]
  /\ told' = IF item = "params" /\ ~ cached THEN told ELSE told \cup (target \X {item})
  /\ UNCHANGED <<stores, sock, registry, newest, jobs, monitor>>

-----------------------------------------------------------------------------
(* Jobs of the worker pool.                                                *)

Sends(n) == \E s \in Sockets : sock[s] = "live" /\ ShipOf[s] = n

(* A node:ping enters the job queue.  AllowPing leaves an interval between *)
(* the pings of a ship: one is under way at a time.                        *)
Ping(n) ==
  /\ "pings" \in allowed
  /\ Sends(n) /\ ping[n] = "none"
  /\ ping' = [ping EXCEPT ![n] = "queued"]
  /\ UNCHANGED <<stores, shipSockets, frame, tick, monitor>>

(* HandlePing: UpsertPosition, whether the ship is still there or not ...  *)
StorePing(n) ==
  /\ ping[n] = "queued"
  /\ ping' = [ping EXCEPT ![n] = "stored"]
  /\ geo' = geo \cup {n}
  /\ UNCHANGED <<allowed, row, stop, cached, table, stat, shipSockets, frame, tick, monitor>>

(* Mutant of SendPing: the dashboard is not told.                          *)
SendPingNever(n) ==
  /\ ping[n] = "stored"
  /\ ping' = [ping EXCEPT ![n] = "none"]
  /\ UNCHANGED <<stores, shipSockets, frame, tick, monitor>>

(* ... then the dashboard's node:ping.                                     *)
SendPing(n) ==
  /\ ping[n] = "stored"
  /\ ping' = [ping EXCEPT ![n] = "none"]
  /\ Send(Pinged(n))
  /\ UNCHANGED <<stores, shipSockets, frame, tick, link, prime>>

(* HandleTransmit counts the frame, no event tells of it ...               *)
Transmit(n) ==
  /\ "frames" \in allowed
  /\ Sends(n) /\ frame = "none"
  /\ stat["transmit_total"] < MaxFrames
  /\ frame' = "heard"
  /\ stat' = [stat EXCEPT !["transmit_total"] = @ + 1]
  /\ UNCHANGED <<allowed, row, stop, cached, geo, table, shipSockets, ping, tick, monitor>>

(* ... and its outcome ...                                                 *)
CountOutcome ==
  /\ frame = "heard"
  /\ frame' = "counted"
  /\ stat' = [stat EXCEPT !["outcome"] = @ + 1]
  /\ UNCHANGED <<allowed, row, stop, cached, geo, table, shipSockets, ping, tick, monitor>>

(* ... followed by the packet:event of the outcome.                        *)
EmitOutcome ==
  /\ frame = "counted"
  /\ frame' = "none"
  /\ Send(Outcome)
  /\ UNCHANGED <<stores, shipSockets, ping, tick, link, prime>>

-----------------------------------------------------------------------------
(* The topology scheduler: recompute.                                      *)

Scheduled == stop \in {"no", "stopped", "noticed", "kicked"}

(* Positions of the ships that hold a socket.                              *)
RecomputeRead ==
  /\ "ticks" \in allowed
  /\ Scheduled /\ cached /\ tick = NoTable
  /\ tick' = {n \in geo : registry[n] # NoSocket}
  /\ UNCHANGED <<stores, shipSockets, ping, frame, monitor>>

(* The full table goes out when it differs from the stored one.            *)
RecomputeSave ==
  /\ tick # NoTable
  /\ tick' = NoTable
  /\ table' = tick
  /\ IF tick = table THEN UNCHANGED feed ELSE Send(Routes(tick))
  /\ UNCHANGED <<allowed, row, stop, cached, geo, stat, shipSockets, ping, frame, link, prime>>

-----------------------------------------------------------------------------
(* SessionService.Stop, in its order, and Delete.                          *)

Step(from, to) == stop = from /\ stop' = to

StopRow ==
  /\ "stop" \in allowed /\ Step("no", "stopped")
  /\ row' = "stopped"
  /\ UNCHANGED <<allowed, cached, geo, table, stat, shipSockets, jobs, monitor>>

(* session:ended.                                                          *)
Notify ==
  /\ Step("stopped", "noticed")
  /\ Send(Ended)
  /\ UNCHANGED <<allowed, row, cached, geo, table, stat, shipSockets, jobs, link, prime>>

(* KickSession: the sockets registered at this moment.                     *)
KickSession ==
  /\ Step("noticed", "kicked")
  /\ sock' = [s \in Sockets |->
                IF sock[s] = "live" /\ registry[ShipOf[s]] = s THEN "dead" ELSE sock[s]]
  /\ link' = IF link = "joined" THEN "closing" ELSE link
  /\ UNCHANGED <<allowed, row, cached, geo, table, stat, registry, welcome, newest, told, jobs,
                 feed, prime>>

(* RemoveSession, then the geo index and the routing table.                *)
ClearMaps ==
  /\ Step("kicked", "cleared")
  /\ geo' = {} /\ table' = {}
  /\ UNCHANGED <<allowed, row, cached, stat, shipSockets, jobs, monitor>>

(* ClearSession: the parameters and the counters.                          *)
ClearSession ==
  /\ Step("cleared", "done")
  /\ cached' = FALSE
  /\ stat' = [k \in Counters |-> 0]
  /\ UNCHANGED <<allowed, row, geo, table, shipSockets, jobs, monitor>>

(* Delete: the history of a session no longer active.                      *)
Delete ==
  /\ "delete" \in allowed /\ row = "stopped"
  /\ row' = "deleted"
  /\ UNCHANGED <<allowed, stop, cached, geo, table, stat, shipSockets, jobs, monitor>>

-----------------------------------------------------------------------------
(* HandleMonitorWS.                                                        *)

(* SessionActive, then the upgrade.                                        *)
Upgrade ==
  /\ link = "dialing" /\ cached
  /\ link' = "upgraded"
  /\ UNCHANGED <<stores, shipSockets, jobs, feed, prime>>

RegisterMonitor ==
  /\ link = "upgraded"
  /\ link' = "joined"
  /\ prime' = IF "ticks" \in allowed THEN Due ELSE table
  /\ UNCHANGED <<stores, shipSockets, jobs, feed>>

(* MonitorConnected reads the routing table ...                            *)
MonitorRead ==
  /\ prime = Due
  /\ prime' = table
  /\ UNCHANGED <<stores, shipSockets, jobs, link, feed>>

(* ... and sends it, after events that overtook it meanwhile.              *)
MonitorSend ==
  /\ prime \notin {NoTable, Due}
  /\ prime' = NoTable
  /\ Send(Routes(prime))
  /\ UNCHANGED <<stores, shipSockets, jobs, link>>

-----------------------------------------------------------------------------
(* What the server does by itself, every step taken by a goroutine that is *)
(* running or a worker that takes the next job.                            *)
ShipGoroutines(s) ==
  \/ RegisterNode(s) \/ CloseReplaced(s) \/ UnregisterNode(s) \/ RemoveNode(s)
  \/ AnnounceLeft(s) \/ AnnounceJoined(s) \/ Prime(s)

PingWorker(n) == StorePing(n) \/ SendPing(n)
FrameWorker == CountOutcome \/ EmitOutcome
Stopping == Notify \/ KickSession \/ ClearMaps \/ ClearSession
MonitorGoroutine == Upgrade \/ RegisterMonitor \/ MonitorRead \/ MonitorSend

ServerNext ==
  \/ \E s \in Sockets : Admit(s) \/ Disconnect(s) \/ ShipGoroutines(s)
  \/ \E n \in Ships : Ping(n) \/ PingWorker(n) \/ Transmit(n)
  \/ FrameWorker \/ RecomputeRead \/ RecomputeSave
  \/ StopRow \/ Stopping \/ Delete
  \/ MonitorGoroutine

-----------------------------------------------------------------------------
(* Properties.                                                             *)

Events ==
  {Joined(n) : n \in Ships} \cup {Left(n) : n \in Ships} \cup {Pinged(n) : n \in Ships}
    \cup {Routes(t) : t \in SUBSET Ships} \cup {Outcome, Ended}

(* Every variable of the server has its type.                              *)
ServerTypeOK ==
  /\ allowed \in Scenarios
  /\ row \in {"active", "stopped", "deleted"}
  /\ stop \in {"no", "stopped", "noticed", "kicked", "cleared", "done"}
  /\ cached \in BOOLEAN
  /\ geo \subseteq Ships /\ table \subseteq Ships
  /\ stat \in [Counters -> Nat]
  /\ sock \in [Sockets -> {"unused", "admitted", "live", "dead", "leaving", "parting",
                           "ended"}]
  /\ registry \in [Ships -> Sockets \cup {NoSocket}]
  /\ welcome \in [Sockets -> {"no", "due", "done"} \cup Items]
  /\ ping \in [Ships -> {"none", "queued", "stored"}]
  /\ frame \in {"none", "heard", "counted"}
  /\ tick \in {NoTable} \cup SUBSET Ships
  /\ link \in {"none", "dialing", "upgraded", "joined", "closing"}
  /\ feed \in Seq(Events) /\ Len(feed) <= FeedSize
  /\ prime \in {NoTable, Due} \cup SUBSET Ships
  /\ newest \in [Ships -> Sockets \cup {NoSocket}]
  /\ told \subseteq Sockets \X Items

(* "only if the registry still points at this exact client (a reconnect    *)
(* may already have replaced it)": the teardown of a former socket never   *)
(* takes away the ship's newest one, whatever the order of their steps,    *)
(* and no ship is without a socket in the hub while its newest one lives.  *)
NewestRegistered ==
  \A n \in Ships :
    /\ registry[n] \in {newest[n], NoSocket}
    /\ newest[n] # NoSocket /\ sock[newest[n]] \in {"live", "dead"} => registry[n] = newest[n]

(* "late joiners are immediately operational": a socket the hub serves is  *)
(* sent what there is of the environment, the schema and its route, however*)
(* its ship's former sockets are torn down meanwhile, unless it is replaced*)
(* or closed, or the session ends, before.  Of what a failing store or a   *)
(* full buffer keeps from it, or an update overtakes, the modules named at *)
(* Prime say more.                                                         *)
Operational ==
  \A s \in Sockets :
    registry[ShipOf[s]] = s
      ~> {s} \X Items \subseteq told \/ sock[s] # "live" \/ ~ cached
=============================================================================
