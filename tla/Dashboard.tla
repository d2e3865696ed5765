------------------------------ MODULE Dashboard ------------------------------
(***************************************************************************)
(* One browser on the dashboard page of a session, composed with the       *)
(* server of Connections: the page's own first fetch                       *)
(* (app/dashboard/page.tsx), the socket hook (hooks/useMonitorSocket.ts)   *)
(* that connects, reconnects, hydrates over REST and polls the counters,   *)
(* the router of events (lib/events.ts), and what the stores show          *)
(* (topologyStore.ts, metricStore.ts, simulationStore.ts).                 *)
(*                                                                         *)
(* The browser runs one callback at a time, but the GETs of the page, of   *)
(* the hook's hydration, of its timer and its poll, and the events of the  *)
(* socket are answered independently: a GET is cut where the server reads, *)
(* its answer applied later.  The hook's hydration is answered before the  *)
(* next reconnection (which waits a second or more).                       *)
(***************************************************************************)
EXTENDS Connections

CONSTANTS
  Unseen,      \* a ship the dashboard does not know
  NoAnswer,    \* a GET not answered yet
  MaxDrops     \* bound on connections lost by the network

(* Who fetches session, counters and topology.                             *)
Callers == {"page", "hook"}

VARIABLES
  status,      \* wsStatus: "connecting", "open", "reconnecting", "ended"
  known,       \* session.is_active, as the store has it
  shown,       \* shown[n]: topologyStore.nodes
  counters,    \* metricStore.counters
  opened,      \* whether the socket's onopen has run
  timer,       \* the hook's: "off", "due", or the row its getSimulation read
  hydrating,   \* callers with their three GETs under way
  detail,      \* detail[c]: getSimulation of caller c
  stats,       \* its getStats
  topo,        \* its getTopology: positions and routes, then who is online
  poll,        \* the getStats of the interval timer
  drops        \* history: connections lost by the network

views == <<status, known, shown, counters>>
gets == <<hydrating, detail, stats, topo>>
browserVars == <<views, opened, timer, gets, poll>>
vars == <<serverVars, browserVars, drops>>

Blank == [online |-> TRUE, placed |-> FALSE, routed |-> FALSE]
Node(n) == IF shown[n] = Unseen THEN Blank ELSE shown[n]

(* A GET under way; an answer no step of the scenario can change is there  *)
(* at once.                                                                *)
AskSimulation == IF "stop" \in allowed THEN NoAnswer ELSE row
AskStats == IF "frames" \in allowed THEN NoAnswer ELSE stat
AskTopology == IF allowed \cap Sockets # {} THEN NoAnswer
               ELSE [placed |-> geo, routes |-> table, online |-> {}]

(* The page is mounted and the hook dials.  The page's own GETs are under  *)
(* way, or one of them has failed, which applies nothing.                  *)
Init ==
  /\ ServerInit
  /\ status = "connecting" /\ known = TRUE
  /\ shown = [n \in Ships |-> Unseen]
  /\ counters = [k \in Counters |-> 0]
  /\ opened = FALSE /\ timer = "off"
  /\ hydrating = {"page"} \cap allowed
  /\ detail = [c \in Callers |-> IF c \in hydrating THEN AskSimulation ELSE NoAnswer]
  /\ stats = [c \in Callers |-> IF c \in hydrating THEN AskStats ELSE NoAnswer]
  /\ topo = [c \in Callers |-> IF c \in hydrating THEN AskTopology ELSE NoAnswer]
  /\ poll = NoAnswer
  /\ drops = 0

-----------------------------------------------------------------------------
(* The stores.                                                             *)

(* applyPing, setOnline, applyRoutingTable: only the ships an event names  *)
(* change, a ship not seen before appears, online.                         *)
ApplyPing(n) == [shown EXCEPT ![n] = [Node(n) EXCEPT !.online = TRUE, !.placed = TRUE]]

SetOnline(n, on) ==
  [shown EXCEPT ![n] = [Node(n) EXCEPT !.online = on, !.routed = on /\ @]]

ApplyRoutes(view, t) ==
  [n \in Ships |-> IF n \notin t THEN view[n]
                   ELSE [(IF view[n] = Unseen THEN Blank ELSE view[n]) EXCEPT !.routed = TRUE]]

(* applySnapshot: the ships of the snapshot, merged into the ones shown.   *)
ApplySnapshot(snap) ==
  ApplyRoutes([n \in Ships |->
                 IF n \notin snap.placed THEN shown[n]
                 ELSE [Node(n) EXCEPT !.placed = TRUE, !.online = n \in snap.online]],
              snap.routes)

-----------------------------------------------------------------------------
(* The socket's callbacks.                                                 *)

(* onopen, whatever the page has found meanwhile; the state missed is      *)
(* fetched anew.                                                           *)
OnOpen ==
  /\ link \in {"upgraded", "joined", "closing"} /\ ~ opened
  /\ "hook" \notin hydrating
  /\ opened' = TRUE
  /\ status' = "open"
  /\ hydrating' = hydrating \cup {"hook"}
  /\ detail' = [detail EXCEPT !["hook"] = AskSimulation]
  /\ stats' = [stats EXCEPT !["hook"] = AskStats]
  /\ topo' = [topo EXCEPT !["hook"] = AskTopology]
  /\ UNCHANGED <<serverVars, known, shown, counters, timer, poll, drops>>

(* onmessage: routeMonitorEvent.  A socket that is closing still delivers. *)
OnMessage ==
  LET e == Head(feed) IN
  /\ feed # <<>> /\ opened
  /\ feed' = Tail(feed)
  /\ shown' = CASE e.kind = "status" -> SetOnline(e.ship, e.online)
                [] e.kind = "ping"   -> ApplyPing(e.ship)
                [] e.kind = "table"  -> ApplyRoutes(shown, e.routes)
                [] OTHER             -> shown
  /\ counters' = IF e.kind = "packet" THEN [counters EXCEPT !["outcome"] = @ + 1]
                                      ELSE counters
  /\ status' = IF e.kind = "ended" THEN "ended" ELSE status
  /\ known' = (known /\ e.kind # "ended")
  /\ UNCHANGED <<stores, shipSockets, jobs, link, prime, opened, timer, gets, poll, drops>>

(* The connection fails, the upgrade is refused, or the write pump sees    *)
(* done: select may take it before what is still buffered, which is lost.  *)
Lost ==
  \/ /\ link = "closing" \/ (link = "dialing" /\ ~ cached)
     /\ UNCHANGED drops
  \/ /\ "drop" \in allowed /\ link # "none" /\ drops < MaxDrops
     /\ drops' = drops + 1

(* Mutant of OnClose: a session that has ended is not looked at.           *)
OnCloseAlways ==
  /\ Lost
  /\ link' = "none" /\ feed' = <<>> /\ prime' = NoTable /\ opened' = FALSE
  /\ status' = "reconnecting" /\ timer' = "due"
  /\ UNCHANGED <<stores, shipSockets, jobs, known, shown, counters, gets, poll>>

(* onclose: reconnect, after a delay, unless the session has ended.        *)
OnClose ==
  /\ Lost
  /\ link' = "none" /\ feed' = <<>> /\ prime' = NoTable /\ opened' = FALSE
  /\ IF status = "ended" THEN UNCHANGED <<status, timer>>
                         ELSE status' = "reconnecting" /\ timer' = "due"
  /\ UNCHANGED <<stores, shipSockets, jobs, known, shown, counters, gets, poll>>

(* Mutant of LookUp: the answer is not looked at.                          *)
LookUpUnheeded ==
  /\ timer = "due" /\ row # "deleted"
  /\ timer' = "active"
  /\ UNCHANGED <<serverVars, views, opened, gets, poll, drops>>

(* The timer asks getSimulation first ...                                  *)
LookUp ==
  /\ timer = "due" /\ row # "deleted"
  /\ timer' = row
  /\ UNCHANGED <<serverVars, views, opened, gets, poll, drops>>

(* connect, which does not ask whether the page has ended meanwhile.       *)
Dial == link' = "dialing" /\ status' = "reconnecting"

(* ... and the attempts end with the session.                              *)
Reconnect ==
  /\ timer \in {"active", "stopped"}
  /\ timer' = "off"
  /\ IF timer = "active" THEN Dial /\ UNCHANGED known
                         ELSE status' = "ended" /\ known' = FALSE /\ UNCHANGED link
  /\ UNCHANGED <<stores, shipSockets, jobs, feed, prime, shown, counters, opened, gets, poll,
                 drops>>

(* An error, which a deleted session answers with too, does not end them.  *)
ReconnectBlind ==
  /\ timer = "due"
  /\ row = "deleted" \/ "rest" \in allowed
  /\ timer' = "off"
  /\ Dial
  /\ UNCHANGED <<stores, shipSockets, jobs, feed, prime, known, shown, counters, opened, gets,
                 poll, drops>>

-----------------------------------------------------------------------------
(* The page's fetch and the hook's hydration: three GETs at once.          *)

GetSimulation(c) ==
  /\ c \in hydrating /\ detail[c] = NoAnswer /\ row # "deleted"
  /\ detail' = [detail EXCEPT ![c] = row]
  /\ UNCHANGED <<serverVars, views, opened, timer, hydrating, stats, topo, poll, drops>>

GetStats(c) ==
  /\ c \in hydrating /\ stats[c] = NoAnswer /\ row # "deleted"
  /\ stats' = [stats EXCEPT ![c] = stat]
  /\ UNCHANGED <<serverVars, views, opened, timer, hydrating, detail, topo, poll, drops>>

(* Snapshot: the geo index and the table ...                               *)
GetTopology(c) ==
  /\ c \in hydrating /\ topo[c] = NoAnswer
  /\ topo' = [topo EXCEPT ![c] = [placed |-> geo, routes |-> table, online |-> NoAnswer]]
  /\ UNCHANGED <<serverVars, views, opened, timer, hydrating, detail, stats, poll, drops>>

(* ... then OnlineNodes.                                                   *)
GetOnline(c) ==
  /\ topo[c] # NoAnswer /\ topo[c].online = NoAnswer
  /\ topo' = [topo EXCEPT ![c].online = {n \in Ships : registry[n] # NoSocket}]
  /\ UNCHANGED <<serverVars, views, opened, timer, hydrating, detail, stats, poll, drops>>

Answered(c) == /\ detail[c] # NoAnswer /\ stats[c] # NoAnswer
               /\ topo[c] # NoAnswer /\ topo[c].online # NoAnswer

Settled(c) ==
  /\ hydrating' = hydrating \ {c}
  /\ detail' = [detail EXCEPT ![c] = NoAnswer]
  /\ stats' = [stats EXCEPT ![c] = NoAnswer]
  /\ topo' = [topo EXCEPT ![c] = NoAnswer]

(* All three answered: setSession, hydrate, applySnapshot.  The page marks *)
(* a session that is over as ended; no one tells the hook.                 *)
Hydrate(c) ==
  /\ c \in hydrating /\ Answered(c)
  /\ Settled(c)
  /\ known' = (detail[c] = "active")
  /\ counters' = stats[c]
  /\ shown' = ApplySnapshot(topo[c])
  /\ status' = IF c = "page" /\ detail[c] # "active" THEN "ended" ELSE status
  /\ UNCHANGED <<serverVars, opened, timer, poll, drops>>

(* One of them fails: nothing is applied.                                  *)
HydrateFails(c) ==
  /\ c \in hydrating /\ ("rest" \in allowed \/ row = "deleted")
  /\ Settled(c)
  /\ UNCHANGED <<serverVars, views, opened, timer, poll, drops>>

(* Mutant of PollApply: the counters shown are only ever raised.           *)
PollRaise ==
  /\ poll # NoAnswer
  /\ counters' = [k \in Counters |-> IF poll[k] > counters[k] THEN poll[k] ELSE counters[k]]
  /\ poll' = NoAnswer
  /\ UNCHANGED <<serverVars, status, known, shown, opened, timer, gets, drops>>

(* Every STATS_POLL_MS, socket or not, until the session has ended.        *)
PollRead ==
  /\ "frames" \in allowed  \* else nothing changes the answer
  /\ status # "ended" /\ poll = NoAnswer /\ row # "deleted"
  /\ poll' = stat
  /\ UNCHANGED <<serverVars, views, opened, timer, gets, drops>>

(* The answer replaces the counters.                                       *)
PollApply ==
  /\ poll # NoAnswer
  /\ counters' = poll
  /\ poll' = NoAnswer
  /\ UNCHANGED <<serverVars, status, known, shown, opened, timer, gets, drops>>

-----------------------------------------------------------------------------
(* The server's own steps.                                                 *)
Server(A) == A /\ UNCHANGED <<browserVars, drops>>

Hydration(c) ==
  \/ GetSimulation(c) \/ GetStats(c) \/ GetTopology(c) \/ GetOnline(c)
  \/ Hydrate(c) \/ HydrateFails(c)

Browser ==
  \/ OnOpen \/ OnMessage \/ OnClose
  \/ LookUp \/ Reconnect \/ ReconnectBlind
  \/ \E c \in Callers : Hydration(c)
  \/ PollRead \/ PollApply

Next == Server(ServerNext) \/ Browser

(* The server's goroutines, the workers and the browser's callbacks all    *)
(* run on; a ship with a socket goes on pinging; getSimulation, asked      *)
(* again and again, does not fail for ever, nor does the network: Lost is  *)
(* bounded.                                                                *)
Fairness ==
  /\ \A s \in Sockets : WF_vars(Server(ShipGoroutines(s)))
  /\ \A n \in Ships : WF_vars(Server(Ping(n))) /\ WF_vars(Server(PingWorker(n)))
  /\ WF_vars(Server(FrameWorker))
  /\ WF_vars(Server(Stopping))
  /\ WF_vars(Server(MonitorGoroutine))
  /\ WF_vars(OnOpen) /\ WF_vars(OnMessage)
  /\ WF_vars((link = "closing" \/ (link = "dialing" /\ ~ cached)) /\ OnClose)
  /\ SF_vars(LookUp) /\ WF_vars(Reconnect) /\ WF_vars(ReconnectBlind)
  /\ \A c \in Callers : WF_vars(Hydration(c))
  /\ WF_vars(PollRead) /\ WF_vars(PollApply)

Spec == Init /\ [][Next]_vars /\ Fairness

-----------------------------------------------------------------------------
(* Properties.                                                             *)

Views == [online: BOOLEAN, placed: BOOLEAN, routed: BOOLEAN]
Snapshots == [placed: SUBSET Ships, routes: SUBSET Ships,
              online: {NoAnswer} \cup SUBSET Ships]

(* Every variable has its type.                                            *)
TypeOK ==
  /\ ServerTypeOK
  /\ status \in {"connecting", "open", "reconnecting", "ended"}
  /\ known \in BOOLEAN
  /\ shown \in [Ships -> {Unseen} \cup Views]
  /\ counters \in [Counters -> Nat]
  /\ opened \in BOOLEAN
  /\ timer \in {"off", "due", "active", "stopped"}
  /\ hydrating \subseteq Callers
  /\ detail \in [Callers -> {"active", "stopped", NoAnswer}]
  /\ stats \in [Callers -> {NoAnswer} \cup [Counters -> Nat]]
  /\ topo \in [Callers -> {NoAnswer} \cup Snapshots]
  /\ poll \in {NoAnswer} \cup [Counters -> Nat]
  /\ drops \in Nat

(* The hook's attempts stop for good with the session ("berhenti permanen  *)
(* bila sesi memang sudah tidak aktif"): a page that shows the end, and    *)
(* whose hook is neither dialing nor waiting for its timer, never dials,   *)
(* waits or shows anything else again, whichever close, event or answer is *)
(* still to come.  A page that its own fetch has told of the end while the *)
(* hook dials or waits is not quiet: OnOpen or the timer revives it.       *)
Quiet == status = "ended" /\ (link = "none" \/ opened) /\ timer = "off"
EndedQuiet == [][Quiet => Quiet']_vars

(* A dashboard learns that its session was stopped, and from some time on  *)
(* shows it, also when the notice is shed, is still buffered as the socket *)
(* closes, or when it was not connected.  Left out: a session deleted      *)
(* already, of which the page only sees errors, and a socket registered    *)
(* after KickSession, which stays.                                         *)
EndNoticed ==
  <>(stop = "done") => <>[](\/ status = "ended" \/ ~ known
                            \/ row = "deleted" \/ link \in {"upgraded", "joined"})

(* Whatever came late, twice or not at all (a snapshot older than the      *)
(* events, the offline status of a former socket after the online one of   *)
(* the next, events lost between two connections), the pings of a ship     *)
(* that stays connected put it back on an open dashboard for good.         *)
PingsHeal ==
  \A n \in Ships :
    <>[](/\ "pings" \in allowed /\ row = "active" /\ status = "open"
         /\ Sends(n) /\ registry[n] # NoSocket)
      => <>[](shown[n] # Unseen /\ shown[n].online /\ shown[n].placed)

(* Counters taken from events, counted twice by an answer that already has *)
(* them or lost with a connection, come to rest at the server's.           *)
CountersSettle ==
  [](row = "active") => <>[](counters = stat)
=============================================================================
