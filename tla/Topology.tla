------------------------------ MODULE Topology ------------------------------
(***************************************************************************)
(* The mesh topology scheduler (internal/service/mesh_topology.go with     *)
(* domain.BuildTopology) and the route every ship and monitor believes in. *)
(*                                                                         *)
(* recompute reads positions, sockets and edges one after the other, lays  *)
(* the routing DAG out level by level from the edges outward, saves the    *)
(* table, then pushes what changed; all the while ships ping, join, leave  *)
(* and edges are edited, and NodeConnected pushes a joiner the route it    *)
(* read from the table.  One session, whose only scheduler goroutine this  *)
(* is; a position is one of Places, Apart their Haversine distance.        *)
(*                                                                         *)
(* Faults: "shed" is a full send buffer, "infra" an error of Redis or      *)
(* PostgreSQL.                                                             *)
(***************************************************************************)
EXTENDS Integers, Sequences, FiniteSets

CONSTANTS
  Ships, Edges,
  Rank,        \* the order of ids, which breaks ties between parents
  Places,      \* where a ship or an edge may be
  Apart,       \* Apart[p, q]: the distance of two places
  EdgeAt,      \* EdgeAt[e]: where edge e stands
  MaxRangeKm,  \* the range at the session's TX power
  Jitter,      \* distanceJitterKm
  MaxHops,     \* domain.MaxHops
  Nowhere,     \* not on the geo index
  NoParent,    \* the empty parent of an isolated ship
  NoRoute,     \* no routing update yet
  Faults,      \* subset of {"shed", "infra"}
  Fleets,      \* the positions and sockets a run may start from
  MaxChanges   \* bound on pings, joins, leaves and edge edits

Targets == Ships \cup Edges

ASSUME TopologyAssumption ==
  /\ IsFiniteSet(Ships) /\ IsFiniteSet(Edges) /\ Ships \cap Edges = {}
  /\ Rank \in [Targets -> Nat]
  /\ \A x, y \in Targets : Rank[x] = Rank[y] => x = y
  /\ Apart \in [Places \X Places -> Nat]
  /\ EdgeAt \in [Edges -> Places]
  /\ MaxRangeKm \in Nat /\ Jitter \in Nat
  /\ MaxHops \in Nat \ {0}
  /\ Nowhere \notin Places /\ NoParent \notin Targets
  /\ Faults \subseteq {"shed", "infra"}
  /\ Fleets \subseteq [geo: [Ships -> Places \cup {Nowhere}], online: SUBSET Ships]
  /\ MaxChanges \in Nat

(* domain.RouteEntry.                                                      *)
Entries == [parent: Targets \cup {NoParent}, level: 0 .. MaxHops, dist: Nat]
Isolated == [parent |-> NoParent, level |-> 0, dist |-> 0]

ASSUME NoRouteAssumption == NoRoute \notin Entries

VARIABLES
  \* --- stores and sockets ----------------------------------------------------
  geo,       \* geo[n]: n's position on the Redis index
  online,    \* ships with a registered socket
  leaving,   \* ships whose NodeDisconnected has yet to run
  edges,     \* the virtual_edges table
  table,     \* sim:{id}:routes_full
  \* --- recompute ---------------------------------------------------------------
  pc,        \* "idle", "sockets", "edges", "layer", "save", "push"
  pos,       \* positions read, then those of live ships
  seas,      \* edges read
  level,     \* the level BuildTopology lays out next
  last,      \* prevLevel
  fresh,     \* newTable, so far
  todo,      \* changed routes still to push
  news,      \* whether monitors get the table
  \* --- what is pushed ------------------------------------------------------------
  join,      \* join[n]: where NodeConnected is: "no", "read", "send"
  carried,   \* carried[n]: the route it read
  box,       \* box[n]: routing updates in n's send buffer
  known,     \* known[n]: the route ship n obeys
  view,      \* the table monitors show
  \* --- history and bounds ----------------------------------------------------------
  basis,     \* positions and edges the saved table was laid out from
  missed,    \* ships last shed an update, pushed an outdated route or none
  blind,     \* whether monitors missed a table
  changes

fleet == <<geo, online, leaving, edges>>
layout == <<pos, seas, level, last, fresh>>
radio == <<join, carried, box, known, missed>>
vars == <<fleet, table, pc, layout, todo, news, radio, view, blind, basis, changes>>

Empty == [n \in {} |-> Isolated]

(* Every disturbance counts.                                               *)
Change == changes < MaxChanges /\ changes' = changes + 1

-----------------------------------------------------------------------------
(* domain.BuildTopology.                                                   *)

Spot(x) == IF x \in Edges THEN EdgeAt[x] ELSE pos[x]
Distance(n, x) == Apart[<<pos[n], Spot(x)>>]
InRange(n, x) == Distance(n, x) <= MaxRangeKm

(* Nearest first, ties to the smaller id.  Mutant: the smallest id.        *)
SmallestInRange(n, S) ==
  CHOOSE x \in S : InRange(n, x) /\ \A y \in S : InRange(n, y) => Rank[x] <= Rank[y]
Nearest(n, S) ==
  CHOOSE x \in S :
    /\ InRange(n, x)
    /\ \A y \in S : InRange(n, y) =>
         \/ Distance(n, x) < Distance(n, y)
         \/ Distance(n, x) = Distance(n, y) /\ Rank[x] <= Rank[y]

(* What a level attaches to: the edges, then the level before.             *)
Hosts == IF level = 1 THEN seas ELSE last

Attach(n) == LET x == Nearest(n, Hosts) IN
  [parent |-> x, level |-> level, dist |-> Distance(n, x)]
Reached == {n \in DOMAIN pos \ DOMAIN fresh : \E x \in Hosts : InRange(n, x)}

-----------------------------------------------------------------------------
Init ==
  /\ \E f \in Fleets : geo = f.geo /\ online = f.online
  /\ leaving = {}
  /\ edges = Edges
  /\ table = Empty
  /\ pc = "idle" /\ pos = Empty /\ seas = {} /\ level = 1 /\ last = {}
  /\ fresh = Empty /\ todo = {} /\ news = FALSE
  /\ join = [n \in Ships |-> "no"]
  /\ carried = [n \in Ships |-> NoRoute]
  /\ box = [n \in Ships |-> <<>>]
  /\ known = [n \in Ships |-> NoRoute]
  /\ view = Empty
  /\ basis = [pos |-> Empty, edges |-> {}]
  /\ missed = {} /\ blind = FALSE
  /\ changes = 0

-----------------------------------------------------------------------------
(* recompute.                                                              *)

(* The ticker: AllPositions ...                                            *)
ReadPositions ==
  /\ pc = "idle"
  /\ pc' = "sockets"
  /\ pos' = [n \in {m \in Ships : geo[m] # Nowhere} |-> geo[n]]
  /\ UNCHANGED <<fleet, table, seas, level, last, fresh, todo, news, radio, view,
                 blind, basis, changes>>

(* Mutant: ships without a socket stay in, as phantom relays.              *)
ReadSocketsAll ==
  /\ pc = "sockets"
  /\ pc' = "edges"
  /\ UNCHANGED <<fleet, table, layout, todo, news, radio, view, blind, basis, changes>>

(* ... OnlineNodes ...                                                     *)
ReadSockets ==
  /\ pc = "sockets"
  /\ pc' = "edges"
  /\ pos' = [n \in DOMAIN pos \cap online |-> pos[n]]
  /\ UNCHANGED <<fleet, table, seas, level, last, fresh, todo, news, radio, view,
                 blind, basis, changes>>

(* ... edges.List, and the layout starts.                                  *)
ReadEdges ==
  /\ pc = "edges"
  /\ pc' = "layer"
  /\ seas' = edges
  /\ level' = 1 /\ last' = {} /\ fresh' = Empty
  /\ UNCHANGED <<fleet, table, pos, todo, news, radio, view, blind, basis, changes>>

(* Mutant of Layer: no hop limit.                                          *)
LayerUncapped ==
  /\ pc = "layer"
  /\ fresh' = [n \in DOMAIN fresh \cup Reached |->
                 IF n \in Reached THEN Attach(n) ELSE fresh[n]]
  /\ last' = Reached
  /\ level' = level + 1
  /\ pc' = IF DOMAIN pos # DOMAIN fresh' /\ Reached # {} THEN "layer" ELSE "save"
  /\ UNCHANGED <<fleet, table, pos, seas, todo, news, radio, view, blind, basis,
                 changes>>

(* One level, up to MaxHops, as long as there are ships to attach and      *)
(* ships to attach them to.                                                *)
Layer ==
  /\ pc = "layer"
  /\ fresh' = [n \in DOMAIN fresh \cup Reached |->
                 IF n \in Reached THEN Attach(n) ELSE fresh[n]]
  /\ last' = Reached
  /\ level' = level + 1
  /\ pc' = IF level < MaxHops /\ DOMAIN pos # DOMAIN fresh' /\ Reached # {}
             THEN "layer" ELSE "save"
  /\ UNCHANGED <<fleet, table, pos, seas, todo, news, radio, view, blind, basis, changes>>

(* The rest is isolated.                                                   *)
NewTable == [n \in DOMAIN pos |-> IF n \in DOMAIN fresh THEN fresh[n] ELSE Isolated]

(* routeUnchanged.  Mutant: the parent is not compared.                    *)
RouteUnchangedNear(old, n, entry) ==
  /\ n \in DOMAIN old
  /\ old[n].level = entry.level
  /\ old[n].dist - entry.dist \in - Jitter .. Jitter
RouteUnchanged(old, n, entry) ==
  /\ n \in DOMAIN old
  /\ old[n].parent = entry.parent /\ old[n].level = entry.level
  /\ old[n].dist - entry.dist \in - Jitter .. Jitter
Changed == {n \in DOMAIN pos : ~ RouteUnchanged(table, n, NewTable[n])}

(* Mutant of News: a ship that vanished is no news.                        *)
NewsIfChanged == Changed # {}
News == Changed # {} \/ Cardinality(DOMAIN pos) # Cardinality(DOMAIN table)

(* GetTable and SaveTable; this goroutine alone saves.                     *)
Save ==
  /\ pc = "save"
  /\ table' = NewTable
  /\ fresh' = NewTable
  /\ basis' = [pos |-> pos, edges |-> seas]
  /\ todo' = Changed /\ news' = News
  /\ pc' = "push"
  /\ UNCHANGED <<fleet, pos, seas, level, last, radio, view, blind, changes>>

(* SaveTable fails: the pipeline took effect or not, the pushes are lost.  *)
SaveFails ==
  /\ "infra" \in Faults /\ Change
  /\ pc = "save"
  /\ pc' = "idle"
  /\ \/ /\ table' = NewTable
        /\ basis' = [pos |-> pos, edges |-> seas]
        /\ missed' = missed \cup Changed
        /\ blind' = (blind \/ News)
     \/ UNCHANGED <<table, basis, missed, blind>>
  /\ UNCHANGED <<fleet, layout, todo, news, join, carried, box, known, view>>

(* A read fails: the tick is abandoned.                                    *)
ReadFails ==
  /\ "infra" \in Faults /\ Change
  /\ pc \in {"sockets", "edges", "save"}
  /\ pc' = "idle"
  /\ UNCHANGED <<fleet, table, layout, todo, news, radio, view, blind, basis>>

SameRoute(r, q) == r.parent = q.parent /\ r.level = q.level

(* hub.SendToNode: into the send buffer of a registered socket; missed     *)
(* notes a full buffer and an entry that is not the saved one any more.    *)
SendToNode(n, entry) ==
  \/ /\ n \in online
     /\ box' = [box EXCEPT ![n] = Append(@, entry)]
     /\ missed' = IF n \in DOMAIN table /\ ~ SameRoute(table[n], entry)
                    THEN missed \cup {n} ELSE missed \ {n}
  \/ /\ n \notin online
     /\ UNCHANGED <<box, missed>>
  \/ /\ n \in online /\ "shed" \in Faults
     /\ missed' = missed \cup {n}
     /\ UNCHANGED box

Push(n) ==
  /\ pc = "push"
  /\ n \in todo
  /\ todo' = todo \ {n}
  /\ SendToNode(n, fresh[n])
  /\ UNCHANGED <<fleet, table, pc, layout, news, join, carried, known, view, blind, basis,
                 changes>>

(* BroadcastToMonitors, and the tick ends.                                 *)
Announce ==
  /\ pc = "push"
  /\ todo = {}
  /\ pc' = "idle"
  /\ \/ /\ view' = IF news THEN fresh ELSE view
        /\ blind' = (blind /\ ~ news)
     \/ /\ news /\ "shed" \in Faults
        /\ blind' = TRUE
        /\ UNCHANGED view
  /\ UNCHANGED <<fleet, table, layout, todo, news, radio, basis, changes>>

-----------------------------------------------------------------------------
(* Ships and operators.                                                    *)

(* HandlePing, by a worker: it may come after the socket is gone.          *)
HandlePing(n, p) ==
  /\ Change
  /\ geo[n] # p
  /\ geo' = [geo EXCEPT ![n] = p]
  /\ UNCHANGED <<online, leaving, edges, table, pc, layout, todo, news, radio, view,
                 blind, basis>>

(* A ship connects afresh (bound: its previous NodeConnected has ended).   *)
Connect(n) ==
  /\ Change
  /\ n \notin online
  /\ join[n] = "no"
  /\ online' = online \cup {n}
  /\ join' = [join EXCEPT ![n] = "read"]
  /\ box' = [box EXCEPT ![n] = <<>>]
  /\ known' = [known EXCEPT ![n] = NoRoute]
  /\ missed' = missed \ {n}
  /\ UNCHANGED <<geo, leaving, edges, table, pc, layout, todo, news, carried, view,
                 blind, basis>>

(* NodeConnected: CurrentRoute ...                                         *)
CurrentRoute(n) ==
  /\ join[n] = "read"
  /\ IF n \in DOMAIN table
       THEN /\ join' = [join EXCEPT ![n] = "send"]
            /\ carried' = [carried EXCEPT ![n] = table[n]]
       ELSE /\ join' = [join EXCEPT ![n] = "no"]
            /\ UNCHANGED carried
  /\ UNCHANGED <<fleet, table, pc, layout, todo, news, box, known, missed, view,
                 blind, basis, changes>>

(* An error of Redis: nothing is pushed, nor tried again.  A ship that got *)
(* no changed route since it connected is left with none.                  *)
CurrentRouteFails(n) ==
  /\ "infra" \in Faults
  /\ join[n] = "read"
  /\ join' = [join EXCEPT ![n] = "no"]
  /\ missed' = IF box[n] = <<>> /\ known[n] = NoRoute THEN missed \cup {n} ELSE missed
  /\ UNCHANGED <<fleet, table, pc, layout, todo, news, carried, box, known, view, blind, basis,
                 changes>>

(* ... then SendToNode.                                                    *)
PushCurrent(n) ==
  /\ join[n] = "send"
  /\ join' = [join EXCEPT ![n] = "no"]
  /\ carried' = [carried EXCEPT ![n] = NoRoute]
  /\ SendToNode(n, carried[n])
  /\ UNCHANGED <<fleet, table, pc, layout, todo, news, known, view, blind, basis, changes>>

(* The socket closes: unregisterNode ...                                   *)
Disconnect(n) ==
  /\ Change
  /\ n \in online
  /\ online' = online \ {n}
  /\ leaving' = leaving \cup {n}
  /\ box' = [box EXCEPT ![n] = <<>>]
  /\ UNCHANGED <<geo, edges, table, pc, layout, todo, news, join, carried, known,
                 missed, view, blind, basis>>

(* ... then NodeDisconnected, also when the ship is back already.          *)
RemovePosition(n) ==
  /\ n \in leaving
  /\ leaving' = leaving \ {n}
  /\ geo' = [geo EXCEPT ![n] = Nowhere]
  /\ UNCHANGED <<online, edges, table, pc, layout, todo, news, radio, view, blind, basis,
                 changes>>

(* mesh:routing_update reaches the ship.                                   *)
Obey(n) ==
  /\ box[n] # <<>>
  /\ known' = [known EXCEPT ![n] = Head(box[n])]
  /\ box' = [box EXCEPT ![n] = Tail(@)]
  /\ UNCHANGED <<fleet, table, pc, layout, todo, news, join, carried, missed, view,
                 blind, basis, changes>>

(* An edge is registered or deleted.                                       *)
EditEdges(e) ==
  /\ Change
  /\ edges' = IF e \in edges THEN edges \ {e} ELSE edges \cup {e}
  /\ UNCHANGED <<geo, online, leaving, table, pc, layout, todo, news, radio, view,
                 blind, basis>>

-----------------------------------------------------------------------------
Recompute ==
  \/ ReadPositions \/ ReadSockets \/ ReadEdges \/ Layer \/ Save \/ SaveFails
  \/ ReadFails \/ (\E n \in Ships : Push(n)) \/ Announce

Gateway(n) ==
  \/ CurrentRoute(n) \/ CurrentRouteFails(n) \/ PushCurrent(n) \/ RemovePosition(n) \/ Obey(n)

Surroundings ==
  \/ \E n \in Ships : Connect(n) \/ Disconnect(n) \/ \E p \in Places : HandlePing(n, p)
  \/ \E e \in Edges : EditEdges(e)

Next == Recompute \/ (\E n \in Ships : Gateway(n)) \/ Surroundings

(* The ticker fires for ever, and no handler or writePump is stuck.        *)
Spec == /\ Init /\ [][Next]_vars
        /\ WF_vars(Recompute) /\ \A n \in Ships : WF_vars(Gateway(n))

-----------------------------------------------------------------------------
(* Properties.                                                             *)

Positions == UNION {[S -> Places] : S \in SUBSET Ships}
IsTable(t) == DOMAIN t \subseteq Ships /\ \A n \in DOMAIN t : t[n] \in Entries

(* Every variable has its type.                                            *)
TypeOK ==
  /\ geo \in [Ships -> Places \cup {Nowhere}]
  /\ online \subseteq Ships /\ leaving \subseteq Ships /\ edges \subseteq Edges
  /\ IsTable(table) /\ IsTable(fresh) /\ IsTable(view)
  /\ pc \in {"idle", "sockets", "edges", "layer", "save", "push"}
  /\ pos \in Positions
  /\ seas \subseteq Edges
  /\ level \in 1 .. MaxHops + 1
  /\ last \subseteq Ships /\ todo \subseteq Ships
  /\ news \in BOOLEAN /\ blind \in BOOLEAN
  /\ join \in [Ships -> {"no", "read", "send"}]
  /\ carried \in [Ships -> Entries \cup {NoRoute}]
  /\ box \in [Ships -> Seq(Entries)]
  /\ known \in [Ships -> Entries \cup {NoRoute}]
  /\ basis.pos \in Positions /\ basis.edges \subseteq Edges
  /\ missed \subseteq Ships
  /\ changes \in 0 .. MaxChanges

(* What the routing table should say of ships at p and edges es, without   *)
(* layers: a path of k ships leads n to an edge, and Hops is the shortest. *)
Path(p, es, n, k) ==
  \E path \in [1 .. k -> DOMAIN p] :
    /\ path[1] = n
    /\ \A i \in 1 .. k - 1 : Apart[<<p[path[i]], p[path[i + 1]]>>] <= MaxRangeKm
    /\ \E e \in es : Apart[<<p[path[k]], EdgeAt[e]>>] <= MaxRangeKm
Hops(p, es, n) ==
  IF \E k \in 1 .. MaxHops : Path(p, es, n, k)
    THEN CHOOSE k \in 1 .. MaxHops :
           Path(p, es, n, k) /\ \A j \in 1 .. k - 1 : ~ Path(p, es, n, j)
    ELSE 0

Correct(t, p, es) ==
  /\ DOMAIN t = DOMAIN p
  /\ \A n \in DOMAIN p :
       LET k == Hops(p, es, n)
           Gap(x) == Apart[<<p[n], IF x \in Edges THEN EdgeAt[x] ELSE p[x]>>]
           hosts == IF k = 1 THEN es ELSE {m \in DOMAIN p : Hops(p, es, m) = k - 1}
           x == t[n].parent
       IN
       /\ t[n].level = k
       /\ IF k = 0 THEN x = NoParent
          ELSE /\ x \in hosts /\ t[n].dist = Gap(x)
               /\ \A y \in hosts \ {x} : \/ Gap(x) < Gap(y)
                                         \/ Gap(x) = Gap(y) /\ Rank[x] < Rank[y]

(* BuildTopology's comment: every saved table routes every ship of the     *)
(* fleet it was laid out from along a shortest path of at most MaxHops     *)
(* hops, through the nearest parent of the level before, and isolates      *)
(* exactly the ships that have none.                                       *)
RoutesShortest == Correct(table, basis.pos, basis.edges)

(* "Monitors receive the full table whenever anything changed (including   *)
(* nodes that vanished)": comparing changed routes and sizes misses none.  *)
ViewCurrent ==
  pc = "idle" /\ ~ blind =>
    DOMAIN view = DOMAIN table /\ \A n \in DOMAIN table : SameRoute(view[n], table[n])

(* Nothing is under way for n, and the scheduler rests.                    *)
Settled(n) == pc = "idle" /\ join[n] = "no" /\ box[n] = <<>>
Obeys(n) == known[n] # NoRoute /\ SameRoute(known[n], table[n])

(* "Only to nodes whose route changed" is enough: an online ship obeys the *)
(* saved table, unless a full buffer, a failed save, or a NodeConnected    *)
(* that lost its race with the scheduler or could not read the route, kept *)
(* the last word from it: until the next change of its route reaches it,   *)
(* such a ship is in missed, and no other.                                 *)
RoutesKnown ==
  \A n \in online \cap DOMAIN table : Settled(n) /\ n \notin missed => Obeys(n)

(* NodeConnected's comment, it "pushes the current [...] route to a ship   *)
(* that just joined": without faults every online ship obeys the table.    *)
JoinerUpToDate ==
  Faults = {} => \A n \in online \cap DOMAIN table : Settled(n) => Obeys(n)

(* "So the next topology tick re-routes": when the disturbances stop, the  *)
(* saved table is the one of the fleet as it is, ships without a socket    *)
(* left out.                                                               *)
LiveFleet == [n \in {m \in online : geo[m] # Nowhere} |-> geo[n]]
Converges == <>[]Correct(table, LiveFleet, edges)
=============================================================================
