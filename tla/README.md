# Maritime LoRa mesh simulation: a TLA+ verification project

The repository simulates ships that report telemetry over a LoRa mesh to
shore stations ("Virtual Edges"). A Go backend is the "virtual ether": every
frame and every acknowledgement crosses it over a WebSocket, it throws the dice
for packet loss, keeps the routing table, and shows everything to dashboards.
This directory models the parts whose correctness depends on the order of
events, checks them with TLC and proves the central results with TLAPS.

    tlc -config DataLinkFaults.cfg MCDataLink.tla      # any run of the table below
    tlapm DataLink_proofs.tla                          # proofs, likewise every *_proofs module

## 1. Inventory

| Part | Source (`src/backend` unless noted) | State | Operations | What is hard |
| --- | --- | --- | --- | --- |
| Ship simulator | `cmd/nodesim/main.go` | parent, seen set, waiters per packet id, one goroutine per transmission and per received frame | originate, relay, retry, give up, hear ACK, hear route | ACK against timer, one waiter per packet id, retries under the same id |
| Simulation engine | `internal/service/simulation_engine.go` | none of its own but an edge cache; everything in Redis and PostgreSQL | HandleTransmit, HandleAck, HandlePing, NodeConnected, NodeDisconnected | handlers of one packet run on several workers, each is a chain of separate store accesses |
| Packet and LoRa rules | `internal/domain/{packet,lora,packetloss,geo}.go` | none | ceilings, timeouts, loss, distance | boundaries |
| Redis keys | `internal/repository/state_repo.go`, `keys.go` | dedup and ack-sender keys with TTLs, parameters, statistics | SETNX, GETDEL, SET | TTLs against the retry schedule |
| Telemetry store | `telemetry_repo.go` | rows | insert, report queries | a failed insert is acknowledged |
| Worker pool | `internal/ws/gateway.go` | job queue of 8192 | enqueue or shed, process | jobs of one ship are reordered |
| Hub and clients | `internal/ws/{hub,client}.go` | registry of sockets, send buffers | register, replace, unregister, send or shed, kick | a new socket against the teardown of the old one; a close that overtakes what is buffered |
| Topology scheduler | `internal/service/mesh_topology.go`, `internal/domain/mesh.go` | one goroutine over the set of active sessions | recompute each every 5 s: read, lay out, save, push | reads at different moments, pushes only differences |
| Geo and route stores | `geo_repo.go`, `route_repo.go` | positions, routing table | upsert, remove, save, read | late pings |
| Edge registry | `edge_repo.go`, the engine's `edgeCache` | edges, a copy of them 30 s old at most | create, update, delete, list | several workers refresh the copy at once; a foreign key to edges that go |
| Session lifecycle | `session_service.go`, `session_repo.go`, `cmd/server/main.go` | session rows, cached parameters | create, update, stop, delete, resume | PostgreSQL and Redis are updated apart; crashes |
| Dynamic schemas | `domain/schema.go`, `schema_service.go`, `schema_repo.go` | the schemas of a session, the newest one active; each ship's copy | inject, broadcast, estimate a size, pack, decode leniently | a report packed for one schema and decoded with the next |
| HTTP API | `internal/api` | none | requests to services | a GET's answer is old when it arrives |
| Dashboard | `src/frontend/src` (`app/dashboard/page.tsx`, `hooks/useMonitorSocket.ts`, `lib/events.ts`, `stores`) | stores of ships, routes, counters and the session's status | connect, fetch and hydrate over three GETs, apply events, poll, reconnect | answers of GETs against events and against each other; page and hook write the same stores; the end of a session that was not seen |
| Infrastructure | `internal/infra`, `internal/config`, `migrations` | the tables and their constraints | start-up, migrations | rows written before a migration |

How they interact. A ship writes `node:transmit`; the gateway queues it; a
worker runs HandleTransmit, which reads parameters, positions, edges and the
hub, throws the dice, marks the packet seen for its receiver (SETNX), and then
either stores a telemetry row and acknowledges (edge) or remembers who waits
and sends `mesh:receive_rf` (ship). The receiving ship answers `node:ack`,
which a worker turns into `mesh:ack` for the remembered sender, and relays the
frame towards its own parent. Every 5 s the scheduler reads positions, sockets
and edges, saves a routing table and pushes what changed. NodeConnected pushes
a joiner what is stored; NodeDisconnected removes its position. Dashboards hold a
socket like ships do: the hub sends them what happens and sheds what they are
too slow for, and their page fetches over REST what it has missed. Schemas and
edges are edited over REST too: a schema is pushed to the ships, an edge is
noticed when the engine's copy has run out.

What makes each part correct: a receiver gets a packet once (dedup); an
acknowledgement means the receiver's radio was reached, an edge's that the
report was stored; a verdict is final; a stored path was really taken, within
the hop limit; the fleet falls silent; without faults a report arrives (data
link). A session's row is the truth, its cache and its ships follow, and a stop
leaves nothing behind (sessions). The table is the shortest-path table of the
fleet it was read from; what is pushed is enough for ships and monitors to know
it; it settles (topology). The hub serves a ship's newest socket; a dashboard
comes to show connected ships, the server's counters and the session's end
(dashboard). A report becomes a row with all it said and the edge it was sent
to; targets are not older than the cache allows (ingest).
Keys outlive the schedules they are meant for (TTLs). `PROJECT.json` lists the
hazards at their lines with the properties that cover them.

## 2. Modules

| Module | Models | Composes |
| --- | --- | --- |
| `Delivery` | abstract: what one hop promises to its sender and its receiver | - |
| `DataLink` | ships, sockets, workers, dedup and ack-sender keys, telemetry rows | implements `Delivery` (`HopDelivery`) |
| `RetryWindow` | one hop against the clock: timeouts and TTLs | - |
| `Topology` | recompute, BuildTopology, NodeConnected, pings, what ships and monitors know | - |
| `Sessions` | requests on one session, its row, cache, scheduler and sockets, crash and resume | - |
| `Connections` | the hub, a ship's successive sockets, a dashboard's socket, the handlers that tell it things | - |
| `Dashboard` | the page's fetch, the socket hook, the event router and the stores of one browser | `Connections` and the browser |
| `Payload` | operators: validation, size estimate, packing and decoding of a report | - |
| `Ingest` | edges, their cache, schemas on their way to a ship, workers that deliver reports, rows | uses `Payload` |
| `MCDataLink`, `MCTopology`, `MCSessions`, `MCDashboard`, `MCIngest` | small instances | extend the above |
| `DataLink_proofs` | theorems: types, single delivery | extends `DataLink` |
| `DataLinkHop_proofs` | theorems: verdicts, acknowledgements, the refinement of `Delivery` | extends `DataLink_proofs` |
| `DataLinkRows_proofs` | theorems: what reaches an edge | extends `DataLinkHop_proofs` |
| `RetryWindow_proofs`, `Topology_proofs`, `Sessions_proofs`, `Dashboard_proofs`, `Ingest_proofs` | theorems | extend the module they are named after |

### DataLink

State and code. `parent`, `seen`, `waiter` are the fields of `node` in nodesim;
`st[k]` is the program counter of `transmitWithRetry` for the sender goroutine
`k = <<ship, packet, role>>`, and `out[k]` the frame it sends. A ship has at
most one goroutine that originates a packet and one that relays it (`seen`
admits no second relay). `down` is the set of messages in the sockets' send
buffers, `jobs` the events queued for or held by a worker; both are sets, so
any order of delivery is explored, which is what a pool of workers gives for
the jobs and an over-approximation for one socket. A frame carries its attempt
number, which is not on the wire, to tell the copies of a retried frame apart.

A worker's job is cut at every access to state that another actor changes:

    HandleTransmit:  tx --Heard--> heard --MarkPacketSeen--> first | dup
      edge:          first --DeliverToEdge--> back --AckBack--> (done)
      ship:          first --RememberAckSender--> bound --ForwardToNode--> (done)
      duplicate:     dup --AckBack--> (done)
    HandleAck:       ack --TakeAckSender--> relay --RelayAck--> (done)

`Drop` stands for every silent return before the dedup mark: hop limit, no
position, target offline, payload ceiling, loss, failed reads. `HearFrame` is
the unconditional acknowledgement of a received frame, `Accept` the part of
handleReceive under the mutex. Timer and closed channel compete in `Timeout`
and `Acked`, as in the select.

Abstractions. Payload, positions, distances and loss percentages become a
choice (`"air"`). A ship whose socket is up has a position, because nodesim
pings as soon as it connects. Routes change at will (`Reroute`): whatever
`Topology` pushes is covered. A ship that left does not come back under its id
within a run, as nodesim does not reconnect. A behaviour has a `scenario`, one
of `Scenarios`: the routes it starts with, how often frames are retried, how
often routes change, and the adverse events it admits: `air`, `shed` (full
queue or buffer), `infra` (Redis or PostgreSQL error), `expiry` (a key's TTL),
`leave`. One run so explores several kinds of trouble to the end, and not their
product.

### Delivery, and how DataLink implements it

`Delivery` knows no sockets, jobs, retries or keys. A hop (packet, receiver) has
windows; the first frame of a window claims it (`Claim`), the receiver forgets
it (`Forget`), and a window that was claimed hands over one frame (`Hand`),
perhaps after it closed. A sender starts, and is told "acknowledged" only when
a receiver its ship sent the packet to has heard it (`Acknowledge`), or gives
up at any time (`Abandon`).

`HopDelivery == Hop!Spec` is the refinement: `taken` is the dedup key,
`window` the count of its expiries, `handed` the history of frames given to a
ship's socket or to deliverToEdge, `verdict` what `transmitWithRetry` will
return, read off the sender's program counter, `target` that of its frame. Most
steps of `DataLink` are stutters of `Delivery`; `MarkPacketSeen` is a `Claim`,
`ExpireDedup` a `Forget`, `ForwardToNode` and `DeliverToEdge` a `Hand`, `Acked`
an `Acknowledge`.

### RetryWindow

The same hop with time in ticks of 500 ms, the unit in which every timeout of
`domain/lora.go`, the extra 500 ms of nodesim and both TTLs are whole. The
spreading factor may change between attempts. `Latency` bounds the time from
the ship's write to the dedup check and `Slack` the lateness of a timer: the
code sets neither, they are the assumptions under which the claim is made.

### Topology

`recompute` is cut at each store access: `ReadPositions`, `ReadSockets`,
`ReadEdges`, one `Layer` per level of BuildTopology, `Save` (with the
comparison to the previous table), one `Push` per changed ship, `Announce` to
the monitors. `SaveFails` and `ReadFails` are its error returns. Meanwhile
ships ping (also from a queued job after their socket is gone), connect,
disconnect (`Disconnect` then `RemovePosition`, as unregisterNode and
NodeDisconnected are two steps), edges are edited, and `CurrentRoute` /
`PushCurrent` are the two halves of NodeConnected. Distances are a table
`Apart`. Only one goroutine saves a session's table, so the comparison with the
old table and the save are one step. Monitors are connected from the start.
`CurrentRouteFails` is the read of NodeConnected that meets an error, which the
code takes for no route: nothing is sent. `missed` and `blind` are history: a
ship or the monitors lost an update to a full buffer or a failed save, a ship
was pushed a route that is not the saved one any more, or a failed read left it
without any; a later push heals it. Bound: a ship's previous NodeConnected has ended before it
connects again.

### Sessions

`row` is the line of `simulation_sessions`, `cache` the hash `sim:{id}:params`
that SessionActive, GetParams and recompute read, `geo`, `routes`, `stats` the
other keys of the session (a position per ship; of the table and the counters
only whether they exist), `scheduled` the session's entry in
`MeshTopologyService.active`. `pc[c]` and `held[c]` are a request and the
parameters it carries, cut at every store access:

    Create:        Create --CacheNew--> AddSession
    UpdateWeather: UpdateWeather --Refresh--> CacheParams --> BroadcastToNodes
    UpdateRadio:   ReadRadio --WriteRadio--> Refresh --> CacheParams --> BroadcastToNodes
    Stop:          Stop --StopRow--> KickSession --> RemoveSession
                     --> ClearGeo --> ClearRoutes --> ClearSession
    Delete:        ReadDelete --DeleteRow--> (done)

Ships go through HandleNodeWS meanwhile (`Admit` on the cached parameters,
`Register`, `ReadParams`, `SendParams`), ping through the job queue
(`UpsertPosition`, `IncrStat`, neither of which asks for the session) and
leave; `Recompute` and `SaveTable` are the scheduler. `Crash` forgets all that
is in memory, `ResumeActive` is the start-up code. `RequestFails` ends a
request between two accesses: a store's error, before it did what was asked or,
for the writes of a row, after; or a client that cancelled. `CacheFails` is the
write of the cache that takes effect and answers with an error.
`ReadParamsFails` is the read of NodeConnected that meets an error: nothing is
sent.

History: `raced` (the cache was last written with parameters the row no longer
has, or not written), `missed` (ships whose last update was shed, outdated or
never sent, or that a failed read left without any), `late` (a handler in flight left a key after the stop, or a
deletion failed), `unborn` (Create failed after its insert). They name exactly
what the code does not promise: there is no transaction over PostgreSQL and
Redis and no lock per session. The properties say that nothing else goes wrong.

Abstractions: one session (sessions share no key); the statistics snapshot of
Stop is a read whose value is not kept; the broadcast to the sockets is one
step. `Init` also admits a session created earlier, so that three requests
reach what would otherwise need four.

### Connections

`sock[s]` is the life of a ship's socket: admitted by HandleNodeWS, live in the
registry, dead (its `done` is closed), through NodeDisconnected, ended. A ship
may connect again while its former socket is anywhere in that life, so it has
several sockets, each used once. `registry` is `Hub.nodes`; `RegisterNode` and
`CloseReplaced` are the two halves of registerNode (it closes the former socket
after it let go of the lock), `UnregisterNode`, `RemoveNode` and `AnnounceLeft`
those of the teardown, `AnnounceJoined` and the three `Prime` (parameters,
schema, route, each read and sent on its own) those of NodeConnected,
`StorePing` and `SendPing` those of HandlePing, `Transmit`, `CountOutcome` and
`EmitOutcome` the counters and the event of a frame, `RecomputeRead` and
`RecomputeSave` the scheduler as a dashboard sees it, `MonitorRead` and
`MonitorSend` MonitorConnected. `StopRow`, `Notify`, `KickSession`, `ClearMaps`
and `ClearSession` are Stop in its order.

A dashboard's send buffer and the wire are one queue, `feed`, bounded by
`FeedSize`: trySend sheds what does not fit. Dashboards share nothing, one is
enough. Positions and routes are kept as far as the page tells them apart: a
ship is on the index and on the table, or not.

What NodeConnected's reads and sends lose to errors, full buffers and overtaking
updates is in `Sessions`, `Ingest` and `Topology`; here they all succeed, so that
`Operational` is about the sockets of a ship alone.

### Dashboard

Two `Callers` fetch session, counters and topology and write the same stores:
the `"page"` once when it is mounted, the `"hook"` after each onopen. The page
marks a session that is over as ended, the hook is not told. `opened` is whether
the present socket's onopen has run, `timer` the hook's pending reconnection and
the answer its look-up got.

The browser runs one callback at a time, but its GETs are answered when they
are: each is cut where the server reads (`GetSimulation`, `GetStats`, and
`GetTopology` then `GetOnline`, as Snapshot reads the stores before the hub)
and applied later (`Hydrate`, `PollApply`). `OnOpen`, `OnMessage`, `OnClose`
are the socket's callbacks, `LookUp` is the timer that asks for the session first,
`Reconnect` what it does with the answer, `ReconnectBlind` what it does when that
GET fails; both dial (`Dial`) whatever the page has found out meanwhile. `Lost` is what closes
the socket: the network, a refused upgrade, or a write pump that saw `done`
before what was still buffered.

A `scenario` (`allowed`) names what a behaviour may see: which sockets ships
open, whether they ping, transmit and leave, whether the scheduler runs, the
session is stopped and deleted, the dashboard is disconnected, GETs fail, and
whether the page's own fetch is still under way at the start or has failed, which
applies nothing. An answer no step of the scenario can change is there at once
(`AskSimulation`, `AskStats`, `AskTopology`); the poll runs only where counters
change. Abstraction: the hook's hydration is over before the next reconnection,
which waits a second or more.

### Payload

A value is its kind (a float, a float that is whole, an integer, a boolean, a
string with its length, null), a payload a function from names to values, a
schema one from names to types with their sizes. `BuildPayload` is what a ship
packs for a schema: every integer as uint16, whatever width the schema says,
every float as float32, strings cut to size. `PackedBytes` adds up what
msgpack writes for these types, `EstimatePackedBytes` what the server expects.
`DecodePayload` keeps every field of the schema and every value it does not
know, `Problems` are the fields missing or not coercible (`Coerces`). A payload is
a map: nodesim packs nothing else.

### Ingest

`table` is `virtual_edges` by code, each row with its id; deleting sets
`edge_id` to null (0) in the rows that name it, registering again gives a new
id. `cache` and `age` are `edgeCache`: a worker finds it fresh (`Lookup`) or
queries (`ListEdges`) and stores (`StoreEdges`), any number of workers at once,
the last store wins; when the query fails (`ListFails`) the map held before is
used, read without the lock. `Decode` and `Insert` are deliverToEdge.
`InsertSchema` and `BroadcastSchema` are the two halves of SetSchema, `InsertFails`
an insert that took effect and answered with an error, `Join`, `ReadSchema` (or
`ReadSchemaFails`) and `SendSchema` the steps of NodeConnected, `HearSchema` the ship's
reader, `Report` its `transmitTelemetry`.

Time is in ticks for the TTL of the cache alone: `TTL` ticks, and no query takes
more than `Latency` of them, an assumption of the model. `past` is history: the
tables there were, by age. `budget` is one of `Budgets`: how many changes of the
registry and injections, which reports and which faults a behaviour has. The
row `Legacy` is from before migration 0002. `behind` is history: the last send of
a schema to the ship was shed or carried an older one, or a failing query kept
the newest from it; `failed`: a query of a worker failed.

## 3. Runs

| Run | Instance | Properties | Shows |
| --- | --- | --- | --- |
| `datalink_faults` | chain a-b-edge, 1 retry; every fault but leave, and expiry alone | `TypeOK`, `AckSound`, `OncePerWindow`, `EdgeAckMeansDelivered`, `HopDelivery` | every hop implements `Delivery`; a ship counts as acknowledged only what reached a radio it was sent to, an edge acknowledges what it was handed |
| `datalink_loop` | chain or loop, 2 route changes, leave, no retry; chain, 1 retry, nothing lost | `RowsHonest`, `VerdictFinal`, `Quiesces`, `EndToEnd` | stored paths were taken within the hop limit; verdicts are final; retries and loops end; a report arrives although acknowledgements, retries and duplicates overlap |
| `datalink_shed` | chain, full buffers | `DuplicateGotThrough` | **violated**, see 5 |
| `retry_window` | SF 7 to 11, 3 retries | `TypeOK`, `HandedOnce`, `RouteOutlivesWait` | both TTLs are long enough |
| `retry_sf12` | SF 12 | `HandedOnce` | **violated**, see 5 |
| `topology_layout` | 4 ships anywhere on a line, 3 hops | `TypeOK`, `RoutesShortest` | the layered layout equals the shortest-path definition |
| `topology_moves` | 2 ships, 2 edges, 2 changes, shed and errors | `ViewCurrent`, `RoutesKnown`, `Converges` | pushing differences is enough; the table settles |
| `topology_join` | the pair, no faults | `JoinerUpToDate` | **violated**, see 5 |
| `sessions_life` | 2 clients, 1 ship, 3 requests, 2 visits, 1 crash, every fault | `TypeOK`, `CacheCurrent`, `ToldCurrent`, `Serving`, `StopCleans`, `RowLife` | row, cache, ships and scheduler agree at rest and after a resume; a stop cleans up; a stopped row is frozen |
| `sessions_stop` | the same, no faults | `StopDisconnects` | **violated**, see 5 |
| `dashboard` | 1 ship, 2 sockets, 1 dashboard, 9 scenarios | `TypeOK`, `NewestRegistered`, `Operational`, `EndedQuiet`, `EndNoticed`, `PingsHeal`, `CountersSettle` | the teardown of a former socket never takes away the next one; a joiner is told what it needs; a dashboard ends up with connected ships, the server's counters and the session's end, and an ended one comes to rest |
| `edge_ingest` | 1 edge, 2 reports, 3 schemas, 4 budgets | `TypeOK`, `LostOnlyToDeletion`, `NothingVanishes`, `FlaggedOnlyWhenChanged`, `OversizedOnlyWarned`, `SchemaCurrent`, `StaleBound`, `EdgeColumnKept` | a report keeps its row, its values and its edge; a target is no older than the TTL and one query; ships follow the newest schema |

Why the bounds are enough. Packets share no state in the data link but the
buffers (each key, waiter, goroutine and job carries its packet id), so one
packet shows what several would; two ships give a relay, a loop back to the
origin and two senders of one packet on one ship; one retry gives two live
copies of a frame, which is what dedup, waiters and stale acknowledgements are
about; the loop scenarios need no retry since the loop itself makes a packet
come back. One expiry lets a window close and a second open. The clock module
runs all four attempts. Four ships with three hops reach every case of the
layout: ties, a cut by the hop limit, chains from both ends, isolated ships; the
marks of `topology_layout` lie on a line and the radio reaches two apart, so
every pattern of gaps within and beyond range occurs. Two changes give every
pair of disturbances, at every moment of a recompute. Two clients with three
requests give every overlap of two updates, an update overtaken by a stop, a
stop by a stop, a stop and the delete that follows. Two visits give a ship that
is admitted and pings, or is admitted while the scheduler saves. Clients and
parameters are only compared, never ordered, so TLC may treat them as
symmetric.

The sockets of different ships meet in nothing but a dashboard's buffer, so one
ship that connects twice gives every overlap of a teardown with the next
connection. `FeedSize` 2 is full after two events, so each kind of event is shed
in some behaviour; one frame gives a counter that an event, an answer and a
later answer disagree about; one lost connection gives events missed between
two. The nine scenarios pair what can meet: two sockets of one ship, lost
events, two snapshots, the table, the counters, two answers of counters, the end
with two callers, a lost connection and failing GETs, the end with a ship, the
end and the deletion of the history.

One code is enough for the edge cache, since codes share only the list, which is
replaced as a whole; three changes of it are a deletion, a new registration and
a move or another deletion; two reports are two workers that refresh at once,
the older list stored last. A TTL of two ticks and a query of one leave room for
a list that ages between query and store, and for a refresh that overlaps the
next. The three schemas are one whose estimate is the limit of 51 bytes, one a
byte above, and one that turns a field of the first into a string that is too
short for some reports, drops fields and adds one; two injections with a ship
that joins give every order of two broadcasts and a joiner's copy.

Fairness. `DataLink`: weak fairness of the ships as a whole and of the workers
as a whole. Goroutines and timers run and the pool drains the queue; since
every loop is bounded (retries, hops, seen sets), no finer fairness is needed.
`Topology`: weak fairness of the scheduler (the ticker of `Run` fires as long
as the session lives) and of each ship's gateway handlers and send buffer. No
fairness is assumed of the surroundings: leaving, pinging, expiry. `Dashboard`:
weak fairness of each goroutine of the server, of the workers, of each kind of
callback of the browser, and of the pings of a ship whose socket is live,
which nodesim sends from a ticker. Strong fairness of `LookUp` alone: the
GET before a reconnection, which may fail now and then ("rest"), does not fail
for ever; an attempt that is overtaken by the deletion of the session is left
out by `EndNoticed`. Stop runs to its end once it has written the row. The
network may cut a connection `MaxDrops` times, leaving and transmitting need
not happen. `Sessions`, `Ingest` and `Delivery` state safety only.

Deadlock is not checked where the system may rest: the data link and the clock,
which end when every verdict is in and every frame delivered, the sessions,
which end with the requests, the dashboard, which ends with the session. It is
checked in `Topology`, whose scheduler never stops, and in `Ingest`, where it
shows that no refresh of the cache holds up time for ever.

## 4. Proofs

Every invariant and action property that a passing run checks, and the
refinement, is also proved with TLAPS: for every set of ships, edges, sockets,
packets, reports and clients, every bound, schema, fault set and scenario the
modules' assumptions admit. The inductive invariant a theorem needs is defined
beside it, in the module of its proof.

### The data link

- `TypeCorrect`: `[](TypeOK /\ WellFormed)`. `WellFormed` makes `TypeOK`
  inductive: a running goroutine holds a frame of its own ship and packet, a
  frame on its way to a ship's radio names that ship.
- `DeliveredOncePerWindow`: `[]OncePerWindow`. The property is about frames
  handed over; it is not inductive because two workers might hold two attempts
  of the packet past the dedup check. The invariant `Windows` adds them: every
  frame that a worker holds after the check, or that was handed over, carries a
  window number no other such frame of that receiver has, and none of a window
  still to come; a window that is the current one has its key set.
- `VerdictsAreFinal`: `VerdictFinal`. `Accept` starts a relay only for a packet
  the ship has not seen; that it never restarts one that has its verdict needs
  `RelaySeen`: a relay that has started has its packet in `seen`, which only grows.
- `AcksAreSound`: `[]AckSound`. An acknowledgement passes through a worker, the
  ack-sender key, another worker and a send buffer before it closes a channel
  that two senders may share. `AckTrail` follows it: whatever is in any of these
  places is about a packet that the ship sent to that receiver and whose dedup
  key was once set. `Addressed` and `Reached` never become false again
  (`RelaySeen` and the final verdicts keep them), so the trail holds however late
  an acknowledgement comes.
- `HopImplementsDelivery`: `HopDelivery`. Initial states map to initial states of
  `Delivery`; one lemma per kind of step says which action of `Delivery` it is or
  that it is a stutter. A `Claim`, `Hand` or `Acknowledge` is enabled there because
  of `Windows`, `OncePerWindow` and `AckSound` here.
- `RowsAreHonest`: `[]RowsHonest`. `PathsHonest` says of every frame there is,
  in goroutines, buffers, radios and workers, that it carries the path it took;
  `WithinHops` that a worker past HandleTransmit's checks holds one within the
  limit. A relay appends a ship that cannot be on the path yet, since everyone
  on it has seen the packet.
- `EdgeAcksMeanDelivered`: `[]EdgeAckMeansDelivered`. By `AckTrail` the
  acknowledgement of an edge is about a packet marked for it; `EdgeTrail` says
  that, without store errors, such a packet has its row or a worker about to
  write it.

They rest on `DataLinkAssumption` (disjoint ids, natural bounds).

### The clock

- `DedupOutlastsRetries`: `[]HandedOnce`, if
  `MaxRetries * (w + Slack) + Latency` is below the dedup TTL, where `w` is the
  longest timeout of an attempt. The invariant `KeyLasts` is a potential: once
  the packet was handed over, the lateness still to come of all attempts still
  to come (`Left`) fits into what is left of the key.
- `RouteOutlastsWait`: `[]RouteOutlivesWait`, if
  `(MaxRetries + 1) * (w + Slack)` is below the ack-sender TTL, likewise by
  `RouteLasts`.
- `HandedOnceBelowSF12` and `RouteLastsAtEverySF` instantiate them with the
  code's constants: three retries, below SF12 respectively at every spreading
  factor, as long as lateness stays below 9 s in all respectively 19.5 s a timer.
  The hypotheses are no technicality: at SF12 the first does not hold, and
  `retry_sf12` shows the second delivery.
- `TypeCorrect`: `[]TypeOK`.

### The topology scheduler

- `TablesAreShortest`: `[]RoutesShortest`. BuildTopology attaches ships level by
  level; the definition it is compared with speaks of paths. `HopsAre`, `OneHop`,
  `NextHop` and `NoneBeyond` relate the two: a ship is k + 1 hops away if it is
  not nearer and some ship k hops away is in range, and a level nobody is at is
  the last. `Layered` is the invariant of the loop: the levels laid out so far
  are those ships, each attached to its nearest host (`Right`), of equally near
  ones to the first.
- `MonitorsAreCurrent`: `[]ViewCurrent`. `Shown`: monitors that missed nothing
  show the saved table, but between a save that is news and its announcement. The
  step that matters is a save that is no news: equal sizes and no changed entry
  among the new ones mean that no ship vanished either.
- `RoutesAreKnown`: `[]RoutesKnown`. `Told` is about the last word to each ship
  (the newest message in its buffer, or what it obeys): it is the saved route
  unless the push of a changed route is under way or no word has come yet. A
  NodeConnected that ends without sending, for want of a route or because its
  read failed, leaves the word there was (`HeardKept`), or the ship in `missed`.
- `TypeCorrect`: `[]TypeOK`, with `Pushing`, `Layout` and `Carries` about what
  recompute and NodeConnected hold between their steps.

They rest on `TopologyAssumption` and `NoRouteAssumption`: finitely many ships
and edges, a total order of them, natural distances.

### Sessions

- `StoppedIsFrozen`: `RowLife`. That a write finds an active row is in its WHERE
  clause; that a delete never removes an active row is not, since Delete reads
  first. `RowInv` carries what it read: a request about to delete knows that the
  id was used and that its row is not active, and no step makes a used id active
  again.
- `CacheIsCurrent`, `ResumeServes` and `ShipsAreTold`: `[]CacheCurrent`,
  `[]Serving`, `[]ToldCurrent`. Each property is nearly inductive: what changes
  the row leaves a request at a place the property excludes, and that request
  ends by putting things right or by leaving its mark in the history variables.
  What it takes besides is `Life`: the clean-up of Stop runs on sessions whose
  row says stopped, Create caches before it schedules, before the insert there is
  nothing, and a ship that was let in found parameters that only a stop clears.
- `StopLeavesNothing`: `[]StopCleans`. Nothing promises that clean-ups do not
  overlap, so `Clean` says of each thing left in a stopped session that some
  request has yet to come to the step that removes it.
- `TypeCorrect`: `[]TypeOK`.

`ToldCurrent` needs no exception for a cache written in the wrong order
(`raced`): ships are told the parameters a request carries, and a ship that was
told older ones last is in `missed`. `Told` says the same of a ship whose
NodeConnected is under way and that a broadcast reached before: a failing read
of the parameters then costs it nothing. They rest on `SessionsAssumption`.

### The dashboard and its server

- `NewestStays`: `[]NewestRegistered`. The property is inductive once it is known
  that a socket is registered under its own ship (`OwnSocket`): then each step of
  a socket concerns one entry of the registry. `UnregisterNode` clears the entry
  only where it still holds that very socket; `KickSession` and `CloseReplaced`
  close sockets and leave the registry to their teardown.
- `QuietStays`: `EndedQuiet`. Each step leaves `Quiet` alone for its own reason: a
  socket that is open has had its onopen, a close finds the session ended, no
  answer of a GET dials. That a page may be ended and not quiet is section 5.
- `TypeCorrect`: `[]TypeOK`; it includes that the buffer of a dashboard never
  holds more than `FeedSize` events. `StopOnly` is needed because a hydration takes
  for granted what no step of the scenario can change.

They rest on `ConnectionsAssumption`.

### The last hop

- `NoReportLost`: `[]LostOnlyToDeletion`. When the insert is refused the edge is
  not registered; that it will not be registered later, under the same id, needs
  `IdsOnce`: whatever holds an edge (the table, the cache, a list on its way to
  it, a worker) holds an id below the next one to be given out. `Held` says what a
  worker holds at each step.
- `NoValueLost` and `FlagsMeanChange`: `[]NothingVanishes` and
  `[]FlaggedOnlyWhenChanged`. `Schemata` says that every id on its way to a ship
  is that of a validated schema, `Packed` that a report was packed for the schema
  it says; schemas are only appended, so what was packed for an id stays packed
  for it. `PackedCoerces` and `DecodeKeeps` are the facts about the codec.
- `WarnedOrFits`: `[]OversizedOnlyWarned`. `FitsEstimate` compares two sums over
  the fields of any validated schema: field by field, what a ship packs is within
  the estimate, but for an 8-bit integer, which takes a byte more (`FieldFits`).
  `SumExists` and `SumBelow` are the induction over finite sets behind it.
  `DefaultFits`: a report without a schema fits every window.
- `StaleNoLonger`: `StaleBound`. `AgeInv` dates what the cache and each list on
  its way to it hold: a list is one of the tables of the last `wait` ticks, the
  cache one of the last `age + Latency`.
- `EdgeNameSurvives`: `EdgeColumnKept`. After the backfill of migration 0002 every
  row has its code (`Coded`), so the join with the live edge never decides.
- `NewestSchemaArrives`: `[]SchemaCurrent`. `News` follows the last schema on its
  way to the ship: once the newest was broadcast, a ship that is not `behind` has
  it in its buffer or holds it, whatever older sends came in between; a
  NodeConnected that has read an older one makes it `behind` when it sends that.
- `TypeCorrect`: `[]TypeOK`.

They rest on `PayloadAssumption` and `IngestAssumption`: finitely many names, the
lengths of the three default fields, and `Limit >= 51`, the payload ceiling of
spreading factors 10 to 12, the smallest in `lora.go:35`.

### What is only model-checked

Everything of liveness (`Quiesces`, `EndToEnd`, `Converges`, `Operational`,
`EndNoticed`, `PingsHeal`, `CountersSettle`): TLAPS cannot prove it from fairness.
The library's induction theorems take an operator as a parameter, which the
provers cannot instantiate; where an induction over numbers or finite sets was
needed it was done over sets of numbers and by least counterexamples (`Least`,
`Counting`). The theorems are about the models: that these follow the code is
for the reader of section 2, and their abstractions are those of section 6.

## 5. Disagreements found

With a run that shows them:

- `DuplicateGotThrough`: HandleTransmit marks the packet seen before it calls
  SendToNode and ignores the result. If the buffer is full, the frame is lost
  and its retries are acknowledged as duplicates, though the comment of
  handleDuplicate says the packet "actually got through".
- `HandedOnce` at SF12: `dedupTTL` is 30 s, the third retry leaves at 31.5 s.
- `JoinerUpToDate`: NodeConnected reads the stored route, the scheduler saves
  and pushes a newer one, NodeConnected sends the old one; no later tick
  corrects it.
- `StopDisconnects`: Stop closes the sockets that are registered at that
  moment and deletes the parameters that admit ships afterwards. A ship that
  registers in between stays connected to the stopped session, and its pings
  recreate the keys.

Noted while modelling, without a run; the properties are stated around them:

- The hook's comment says that its attempts stop for good with the session
  (`useMonitorSocket.ts:10-13`), but the page finds the end out by itself
  (`page.tsx:70-71`) and does not tell the hook. An onopen that comes after it
  (`useMonitorSocket.ts:168`) shows the page as open again, and a timer whose answer
  was on its way, or failed, dials again (line 153). The model does all this.
  `EndedQuiet` is what holds: once the hook is at rest too, nothing revives the
  page; and by `EndNoticed` the hook finds the end out once more.
- A ship that left while a dashboard was disconnected is missing from the
  snapshot, and applySnapshot merges only the ships it has
  (`topologyStore.ts:84`): the ship stays online on that page, although
  `useMonitorSocket.ts:14-15` says hydration restores what was missed.
  `PingsHeal` is about ships that are there.
- nodesim packs 8-bit integers as uint16, three bytes where
  EstimatePackedBytes, a "worst-case" estimate (`schema.go:88-91`), counts two:
  with more than two such fields a schema may pass without a warning and have
  its reports dropped. (Two find room in the map header, estimated at three
  bytes, which is one byte for up to 15 fields; beyond that, one such field is
  too many.) `OversizedOnlyWarned` says that nothing else does. The schemas of
  the run have five fields at most, the larger ones are covered by the proof.
- A session deleted right after its stop answers the look-up of a dashboard with
  an error, which the hook takes for a server that is down: it reconnects for
  ever. `EndNoticed` leaves this case out.
- Of two injections that overlap, the older schema may be broadcast last and the
  ships keep it (`schema_service.go:67`); likewise when NodeConnected overlaps an
  injection. `SchemaCurrent` excepts a ship whose last send was outdated, was shed,
  or was kept from it by a failing query, and no other.
- NodeConnected takes an error of its three reads for nothing to send
  (`simulation_engine.go:432`, `435`, `442`): a ship may stay registered without
  parameters, schema or route. `ToldCurrent`, `SchemaCurrent` and `RoutesKnown`
  except it until a broadcast or a push reaches it.
- Two overlapping updates may cache, and broadcast, the older parameters last
  (`session_service.go:257`); `CacheCurrent` and `ToldCurrent` except exactly that.

## 6. Not modelled

- The numbers of radio physics: loss percentages, Haversine distances, the
  movement of ships. The models replace them by a choice or by a table; nothing
  in the order of events depends on their values.
- The bytes of msgpack and base64: `Payload` has kinds and sizes.
- The check of a frame's length against a spreading factor that was changed
  while it was under way (`simulation_engine.go`, oversized at the server): in
  `Ingest` the limit is that of the session throughout.
- Delivery that overlaps Stop: `Sessions` and `Connections` have the keys and
  sockets of a stopping session, `DataLink` and `Ingest` run in a live one.
- HTTP parsing, validation messages, middleware, logging, configuration and
  connection retries at start-up; report queries, which only read.
- The pages of the frontend but for the fetch of the dashboard page (its error
  banner and getSchema are left out), and of the stores what a snapshot merely
  replaces: the edge list, the environment, the packet animation and the log.
- Payloads packed as an array, which DecodePayload reads by position
  (`schema.go:117-129`), and bytes that are neither map nor array: nodesim sends
  maps only.
- What the exceptions of the properties name (`missed`, `blind`, `raced`, `late`,
  `behind`, `failed`) is modelled and does happen; no property says that it does
  not. `PROJECT.json` notes at each such hazard what is left uncovered.

## 7. Plan

Done: `DataLink` with its abstract `Delivery`, `RetryWindow`, `Topology`,
`Sessions`, `Connections` with `Dashboard`, `Payload` with `Ingest`; proofs of
every invariant and action property that a passing run checks, and of the
refinement. Next:

1. Safety behind the liveness properties: what `Quiesces` and `Converges` rest on
   (a measure of the retries, hops and jobs still to come that no step of the
   ships or workers raises; a recompute of an unchanged fleet saves the same
   table) as theorems about steps.
2. More of the operators: `DecodePayload` of a decoded payload, and the estimate
   as a bound on every field type on its own.
3. The violated properties under the hypothesis that would restore them: no
   shed frame for `DuplicateGotThrough`, no socket between `KickSession` and the
   deletion of the parameters for `StopDisconnects`.
