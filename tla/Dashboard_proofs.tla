--------------------------- MODULE Dashboard_proofs ---------------------------
(***************************************************************************)
(* For any ships, sockets, buffers and scenarios: the hub never forgets a  *)
(* ship's newest socket (NewestRegistered), a page that shows the end of   *)
(* its session and whose hook has come to rest does so for good            *)
(* (EndedQuiet), and every variable of server and browser has its type, so *)
(* that the buffer of a dashboard never holds more than FeedSize events    *)
(* (TypeOK).                                                               *)
(***************************************************************************)
EXTENDS Dashboard, TLAPS

(* What the registry, the sockets and their history are.                   *)
HubType ==
  /\ sock \in [Sockets -> {"unused", "admitted", "live", "dead", "leaving", "parting",
                           "ended"}]
  /\ registry \in [Ships -> Sockets \cup {NoSocket}]
  /\ newest \in [Ships -> Sockets \cup {NoSocket}]

(* A socket is registered under the ship of its query only, so that what   *)
(* happens to it concerns one entry.                                       *)
OwnSocket == \A n \in Ships : newest[n] # NoSocket => ShipOf[newest[n]] = n

HubInv == HubType /\ OwnSocket /\ NewestRegistered

(* Ships that have connected at the start hold the socket they came by.    *)
LEMMA HubInit == Init => HubInv
<1> SUFFICES ASSUME Init PROVE HubInv
  OBVIOUS
<1> USE ConnectionsAssumption DEF Init, ServerInit
<1>1. ASSUME NEW n \in Ships
      PROVE  /\ registry[n] \in Sockets \cup {NoSocket}
             /\ registry[n] # NoSocket => ShipOf[registry[n]] = n
  <2>1. CASE n \in geo
    <3>1. \E s \in Early \cap allowed : ShipOf[s] = n
      BY <2>1
    <3>2. registry[n] = CHOOSE s \in Early \cap allowed : ShipOf[s] = n
      BY <2>1
    <3>3. registry[n] \in Early \cap allowed /\ ShipOf[registry[n]] = n
      BY <3>1, <3>2
    <3> QED BY <3>3
  <2>2. CASE n \notin geo
    BY <2>2
  <2> QED BY <2>1, <2>2
<1>2. registry \in [Ships -> Sockets \cup {NoSocket}]
  BY <1>1
<1>3. HubType
  BY <1>2 DEF HubType
<1>4. OwnSocket
  BY <1>1 DEF OwnSocket
<1>5. NewestRegistered
  BY <1>1 DEF NewestRegistered
<1> QED BY <1>3, <1>4, <1>5 DEF HubInv

(* A step that neither registers nor closes a socket.                      *)
LEMMA HubUnchanged ==
  ASSUME HubInv, UNCHANGED <<sock, registry, newest>>
  PROVE  HubInv'
BY DEF HubInv, HubType, OwnSocket, NewestRegistered

(* The goroutines of one socket, in any order with those of the ship's     *)
(* next one: registering makes it the newest, its teardown clears the      *)
(* entry only if it is still there.                                        *)
LEMMA HubSocket ==
  ASSUME HubInv, NEW s \in Sockets,
         Admit(s) \/ Disconnect(s) \/ ShipGoroutines(s)
  PROVE  HubInv'
<1> USE ConnectionsAssumption DEF HubInv, HubType, OwnSocket, NewestRegistered
<1>1. CASE Admit(s)
  BY <1>1 DEF Admit
<1>2. CASE Disconnect(s)
  BY <1>2 DEF Disconnect
<1>3. CASE RegisterNode(s)
  BY <1>3 DEF RegisterNode
<1>4. CASE CloseReplaced(s)
  BY <1>4 DEF CloseReplaced
<1>5. CASE UnregisterNode(s)
  <2>1. CASE registry[ShipOf[s]] = s
    BY <1>5, <2>1 DEF UnregisterNode
  <2>2. CASE registry[ShipOf[s]] # s
    BY <1>5, <2>2 DEF UnregisterNode
  <2> QED BY <2>1, <2>2
<1>6. CASE RemoveNode(s)
  BY <1>6 DEF RemoveNode
<1>7. CASE AnnounceLeft(s)
  BY <1>7 DEF AnnounceLeft
<1>8. CASE AnnounceJoined(s) \/ Prime(s)
  BY <1>8 DEF AnnounceJoined, Prime
<1> QED BY <1>1, <1>2, <1>3, <1>4, <1>5, <1>6, <1>7, <1>8 DEF ShipGoroutines

(* KickSession closes sockets, and leaves it to their teardown to clear    *)
(* the registry.                                                           *)
LEMMA HubKick == HubInv /\ KickSession => HubInv'
BY DEF HubInv, HubType, OwnSocket, NewestRegistered, KickSession

(* Every other step of the server is about stores, jobs or the dashboard.  *)
LEMMA HubServer == HubInv /\ ServerNext => HubInv'
<1> SUFFICES ASSUME HubInv, ServerNext PROVE HubInv'
  OBVIOUS
<1> USE DEF shipSockets
<1>1. CASE \E s \in Sockets : Admit(s) \/ Disconnect(s) \/ ShipGoroutines(s)
  BY <1>1, HubSocket
<1>2. CASE \E n \in Ships : Ping(n) \/ PingWorker(n) \/ Transmit(n)
  BY <1>2, HubUnchanged DEF Ping, PingWorker, StorePing, SendPing, Transmit
<1>3. CASE FrameWorker \/ RecomputeRead \/ RecomputeSave
  BY <1>3, HubUnchanged DEF FrameWorker, CountOutcome, EmitOutcome, RecomputeRead,
     RecomputeSave
<1>4. CASE StopRow \/ Notify \/ ClearMaps \/ ClearSession \/ Delete
  BY <1>4, HubUnchanged DEF StopRow, Notify, ClearMaps, ClearSession, Delete
<1>5. CASE KickSession
  BY <1>5, HubKick
<1>6. CASE MonitorGoroutine
  BY <1>6, HubUnchanged DEF MonitorGoroutine, Upgrade, RegisterMonitor, MonitorRead,
     MonitorSend
<1> QED BY <1>1, <1>2, <1>3, <1>4, <1>5, <1>6 DEF ServerNext, Stopping

(* The browser touches no socket of a ship.                                *)
LEMMA HubBrowser == HubInv /\ Browser => HubInv'
<1> SUFFICES ASSUME HubInv, Browser PROVE UNCHANGED shipSockets
  BY HubUnchanged DEF shipSockets
<1> USE DEF serverVars
<1>1. CASE OnOpen \/ OnMessage \/ OnClose \/ LookUp \/ Reconnect \/ ReconnectBlind
  BY <1>1 DEF OnOpen, OnMessage, OnClose, LookUp, Reconnect, ReconnectBlind
<1>2. CASE \E c \in Callers : Hydration(c)
  BY <1>2 DEF Hydration, GetSimulation, GetStats, GetTopology, GetOnline, Hydrate,
     HydrateFails
<1>3. CASE PollRead \/ PollApply
  BY <1>3 DEF PollRead, PollApply
<1> QED BY <1>1, <1>2, <1>3 DEF Browser

(* "only if the registry still points at this exact client": whatever the  *)
(* order in which sockets are registered, closed and torn down, the hub    *)
(* holds a ship's newest socket as long as that lives, or none.            *)
THEOREM NewestStays == Spec => []NewestRegistered
<1>1. HubInv /\ [Next]_vars => HubInv'
  <2> SUFFICES ASSUME HubInv, [Next]_vars PROVE HubInv'
    OBVIOUS
  <2>1. CASE Server(ServerNext)
    BY <2>1, HubServer DEF Server
  <2>2. CASE Browser
    BY <2>2, HubBrowser
  <2>3. CASE UNCHANGED vars
    BY <2>3, HubUnchanged DEF vars, serverVars, shipSockets
  <2> QED BY <2>1, <2>2, <2>3 DEF Next
<1>2. HubInv => NewestRegistered
  BY DEF HubInv
<1> QED BY HubInit, <1>1, <1>2, PTL DEF Spec
-----------------------------------------------------------------------------
(* Types.                                                                  *)

(* A session that nobody stops is active: what a hydration may take for    *)
(* granted at once.                                                        *)
StopOnly == "stop" \notin allowed => row = "active" /\ stop = "no"

Types == ServerTypeOK /\ StopOnly

LEMMA ServerTypesInit == ServerInit => Types
<1> SUFFICES ASSUME ServerInit PROVE Types
  OBVIOUS
<1> USE ConnectionsAssumption DEF ServerInit
<1>1. told \subseteq Sockets \X Items /\ geo \subseteq Ships
  OBVIOUS
<1>2. registry \in [Ships -> Sockets \cup {NoSocket}]
  <2>1. ASSUME NEW n \in geo PROVE (CHOOSE s \in Early \cap allowed : ShipOf[s] = n) \in Sockets
    <3>1. \E s \in Early \cap allowed : ShipOf[s] = n
      OBVIOUS
    <3> QED BY <1>1, <3>1
  <2> QED BY <2>1
<1>3. feed \in Seq(Events) /\ Len(feed) <= FeedSize
  OBVIOUS
<1>4. /\ stat \in [Counters -> Nat] /\ ping \in [Ships -> {"none", "queued", "stored"}]
      /\ welcome \in [Sockets -> {"no", "due", "done"} \cup Items]
      /\ sock \in [Sockets -> {"unused", "admitted", "live", "dead", "leaving", "parting",
                               "ended"}]
  OBVIOUS
<1>5. ServerTypeOK
  BY <1>1, <1>2, <1>3, <1>4 DEF ServerTypeOK
<1> QED BY <1>5 DEF Types, StopOnly

(* An event sent is buffered while there is room.                          *)
LEMMA SendTypes ==
  ASSUME ServerTypeOK, NEW e \in Events, Send(e)
  PROVE  feed' \in Seq(Events) /\ Len(feed') <= FeedSize
<1>1. feed \in Seq(Events) /\ Len(feed) <= FeedSize /\ Len(feed) \in Nat
  BY DEF ServerTypeOK
<1>2. CASE feed' = feed
  BY <1>1, <1>2
<1>3. CASE feed' = Append(feed, e) /\ Len(feed) < FeedSize
  <2>1. Len(feed') = Len(feed) + 1 /\ feed' \in Seq(Events)
    BY <1>1, <1>3
  <2> QED BY <1>1, <1>3, <2>1, ConnectionsAssumption
<1> QED BY <1>2, <1>3 DEF Send

(* The goroutines of a ship's socket.                                      *)
LEMMA SocketTypes ==
  ASSUME Types, NEW s \in Sockets, Admit(s) \/ Disconnect(s) \/ ShipGoroutines(s)
  PROVE  Types'
<1> USE ConnectionsAssumption DEF stores, jobs, monitor, Types, StopOnly
<1>1. ServerTypeOK /\ ShipOf[s] \in Ships
  OBVIOUS
<1>2. CASE Admit(s) \/ Disconnect(s) \/ CloseReplaced(s)
  BY <1>1, <1>2 DEF Admit, Disconnect, CloseReplaced, ServerTypeOK
<1>3. CASE RegisterNode(s)
  BY <1>1, <1>3 DEF RegisterNode, ServerTypeOK
<1>4. CASE UnregisterNode(s)
  <2>1. /\ sock' \in [Sockets -> {"unused", "admitted", "live", "dead", "leaving", "parting",
                                   "ended"}]
        /\ registry' \in [Ships -> Sockets \cup {NoSocket}]
    BY <1>1, <1>4 DEF UnregisterNode, ServerTypeOK
  <2> QED BY <1>1, <1>4, <2>1 DEF UnregisterNode, ServerTypeOK
<1>5. CASE RemoveNode(s)
  BY <1>1, <1>5 DEF RemoveNode, ServerTypeOK
<1>6. CASE AnnounceLeft(s)
  <2>1. feed' \in Seq(Events) /\ Len(feed') <= FeedSize
    BY <1>1, <1>6, SendTypes DEF AnnounceLeft, Events
  <2> QED BY <1>1, <1>6, <2>1 DEF AnnounceLeft, ServerTypeOK
<1>7. CASE AnnounceJoined(s)
  <2>1. feed' \in Seq(Events) /\ Len(feed') <= FeedSize
    BY <1>1, <1>7, SendTypes DEF AnnounceJoined, Events
  <2>2. welcome' \in [Sockets -> {"no", "due", "done"} \cup Items]
    BY <1>1, <1>7 DEF AnnounceJoined, ServerTypeOK, Items
  <2> QED BY <1>1, <1>7, <2>1, <2>2 DEF AnnounceJoined, ServerTypeOK
<1>8. CASE Prime(s)
  <2>1. told' \subseteq Sockets \X Items
    BY <1>1, <1>8 DEF Prime, ServerTypeOK
  <2>2. welcome' \in [Sockets -> {"no", "due", "done"} \cup Items]
    BY <1>1, <1>8 DEF Prime, ServerTypeOK, Items
  <2>3. UNCHANGED <<stores, sock, registry, newest, jobs, monitor>>
    BY <1>8 DEF Prime
  <2> QED BY <1>1, <2>1, <2>2, <2>3 DEF ServerTypeOK
<1> QED BY <1>2, <1>3, <1>4, <1>5, <1>6, <1>7, <1>8 DEF ShipGoroutines

(* The workers.                                                            *)
LEMMA JobTypes ==
  ASSUME Types, \/ \E n \in Ships : Ping(n) \/ PingWorker(n) \/ Transmit(n)
                \/ FrameWorker
  PROVE  Types'
<1> USE DEF stores, shipSockets, monitor, Types, StopOnly
<1>1. ServerTypeOK
  OBVIOUS
<1>2. ASSUME NEW n \in Ships, Ping(n) PROVE Types'
  BY <1>1, <1>2 DEF Ping, ServerTypeOK
<1>3. ASSUME NEW n \in Ships, StorePing(n) PROVE Types'
  BY <1>1, <1>3 DEF StorePing, ServerTypeOK
<1>4. ASSUME NEW n \in Ships, SendPing(n) PROVE Types'
  <2>1. feed' \in Seq(Events) /\ Len(feed') <= FeedSize
    BY <1>1, <1>4, SendTypes DEF SendPing, Events
  <2> QED BY <1>1, <1>4, <2>1 DEF SendPing, ServerTypeOK
<1>5. ASSUME NEW n \in Ships, Transmit(n) PROVE Types'
  <2>1. stat' \in [Counters -> Nat]
    BY <1>1, <1>5 DEF Transmit, ServerTypeOK, Counters
  <2> QED BY <1>1, <1>5, <2>1 DEF Transmit, ServerTypeOK
<1>6. CASE CountOutcome
  <2>1. stat' \in [Counters -> Nat]
    BY <1>1, <1>6 DEF CountOutcome, ServerTypeOK, Counters
  <2> QED BY <1>1, <1>6, <2>1 DEF CountOutcome, ServerTypeOK
<1>7. CASE EmitOutcome
  <2>1. feed' \in Seq(Events) /\ Len(feed') <= FeedSize
    BY <1>1, <1>7, SendTypes DEF EmitOutcome, Events
  <2> QED BY <1>1, <1>7, <2>1 DEF EmitOutcome, ServerTypeOK
<1> QED BY <1>2, <1>3, <1>4, <1>5, <1>6, <1>7 DEF PingWorker, FrameWorker

(* The scheduler, and the socket of the dashboard.                         *)
LEMMA MonitorTypes ==
  ASSUME Types, RecomputeRead \/ RecomputeSave \/ MonitorGoroutine
  PROVE  Types'
<1> USE DEF stores, shipSockets, jobs, Types, StopOnly
<1>1. ServerTypeOK
  OBVIOUS
<1>2. CASE RecomputeRead
  BY <1>1, <1>2 DEF RecomputeRead, monitor, ServerTypeOK
<1>3. CASE RecomputeSave
  <2>1. tick \in SUBSET Ships
    BY <1>1, <1>3 DEF RecomputeSave, ServerTypeOK
  <2>2. feed' \in Seq(Events) /\ Len(feed') <= FeedSize
    <3>1. CASE UNCHANGED feed
      BY <1>1, <3>1 DEF ServerTypeOK
    <3>2. CASE Send(Routes(tick))
      BY <1>1, <2>1, <3>2, SendTypes DEF Events
    <3> QED BY <1>3, <3>1, <3>2 DEF RecomputeSave
  <2> QED BY <1>1, <1>3, <2>1, <2>2 DEF RecomputeSave, ServerTypeOK
<1>4. CASE Upgrade \/ MonitorRead
  BY <1>1, <1>4 DEF Upgrade, MonitorRead, ServerTypeOK
<1>5. CASE RegisterMonitor
  BY <1>1, <1>5 DEF RegisterMonitor, ServerTypeOK
<1>6. CASE MonitorSend
  <2>1. prime \in SUBSET Ships
    BY <1>1, <1>6 DEF MonitorSend, ServerTypeOK
  <2>2. feed' \in Seq(Events) /\ Len(feed') <= FeedSize
    BY <1>1, <1>6, <2>1, SendTypes DEF MonitorSend, Events
  <2> QED BY <1>1, <1>6, <2>2 DEF MonitorSend, ServerTypeOK
<1> QED BY <1>2, <1>3, <1>4, <1>5, <1>6 DEF MonitorGoroutine

(* Stop, and Delete.                                                       *)
LEMMA StopTypes ==
  ASSUME Types, StopRow \/ Stopping \/ Delete
  PROVE  Types'
<1> USE DEF shipSockets, jobs, Types, StopOnly, Step
<1>1. ServerTypeOK
  OBVIOUS
<1>2. CASE StopRow \/ Delete
  BY <1>1, <1>2 DEF StopRow, Delete, monitor, ServerTypeOK
<1>3. CASE Notify
  <2>1. feed' \in Seq(Events) /\ Len(feed') <= FeedSize
    BY <1>1, <1>3, SendTypes DEF Notify, Events
  <2> QED BY <1>1, <1>3, <2>1 DEF Notify, ServerTypeOK
<1>4. CASE KickSession
  <2>1. sock' \in [Sockets -> {"unused", "admitted", "live", "dead", "leaving", "parting",
                               "ended"}]
    BY <1>1, <1>4 DEF KickSession, ServerTypeOK
  <2> QED BY <1>1, <1>4, <2>1 DEF KickSession, ServerTypeOK
<1>5. CASE ClearMaps
  BY <1>1, <1>5 DEF ClearMaps, monitor, ServerTypeOK
<1>6. CASE ClearSession
  <2>1. stat' \in [Counters -> Nat]
    BY <1>6 DEF ClearSession
  <2> QED BY <1>1, <1>6, <2>1 DEF ClearSession, monitor, ServerTypeOK
<1> QED BY <1>2, <1>3, <1>4, <1>5, <1>6 DEF Stopping

LEMMA ServerTypes == Types /\ ServerNext => Types'
BY SocketTypes, JobTypes, MonitorTypes, StopTypes DEF ServerNext

(* What the browser shows and waits for.                                   *)
BrowserTypeOK ==
  /\ status \in {"connecting", "open", "reconnecting", "ended"}
  /\ known \in BOOLEAN
  /\ shown \in [Ships -> {Unseen} \cup Views]
  /\ counters \in [Counters -> Nat]
  /\ opened \in BOOLEAN
  /\ timer \in {"off", "due", "active", "stopped"}
  /\ hydrating \subseteq Callers
  /\ detail \in [Callers -> {"active", "stopped", NoAnswer}]
  /\ stats \in [Callers -> {NoAnswer} \cup [Counters -> Nat]]
  /\ topo \in [Callers -> {NoAnswer} \cup Snapshots]
  /\ poll \in {NoAnswer} \cup [Counters -> Nat]
  /\ drops \in Nat

AllTypes == Types /\ BrowserTypeOK

(* What the stores make of an event or a snapshot is a view of each ship.  *)
LEMMA ViewTypes ==
  ASSUME shown \in [Ships -> {Unseen} \cup Views]
  PROVE  /\ \A n \in Ships : ApplyPing(n) \in [Ships -> {Unseen} \cup Views]
         /\ \A n \in Ships, on \in BOOLEAN : SetOnline(n, on) \in [Ships -> {Unseen} \cup Views]
         /\ \A view \in [Ships -> {Unseen} \cup Views] : \A t :
              ApplyRoutes(view, t) \in [Ships -> {Unseen} \cup Views]
         /\ \A snap \in Snapshots : ApplySnapshot(snap) \in [Ships -> {Unseen} \cup Views]
<1>1. Blank \in Views
  BY DEF Blank, Views
<1>2. \A n \in Ships : Node(n) \in Views
  BY <1>1 DEF Node
<1>3. ASSUME NEW v \in Views, NEW on \in BOOLEAN
      PROVE  /\ [v EXCEPT !.online = TRUE, !.placed = TRUE] \in Views
             /\ [v EXCEPT !.online = on, !.routed = on /\ @] \in Views
             /\ [v EXCEPT !.placed = TRUE, !.online = on] \in Views
             /\ [v EXCEPT !.routed = TRUE] \in Views
  BY DEF Views
<1>4. ASSUME NEW n \in Ships PROVE ApplyPing(n) \in [Ships -> {Unseen} \cup Views]
  <2>1. [Node(n) EXCEPT !.online = TRUE, !.placed = TRUE] \in Views
    BY <1>2, <1>3
  <2> QED BY <2>1 DEF ApplyPing
<1>5. ASSUME NEW n \in Ships, NEW on \in BOOLEAN
      PROVE  SetOnline(n, on) \in [Ships -> {Unseen} \cup Views]
  <2>1. [Node(n) EXCEPT !.online = on, !.routed = on /\ @] \in Views
    BY <1>2, <1>3
  <2> QED BY <2>1 DEF SetOnline
<1>6. ASSUME NEW view \in [Ships -> {Unseen} \cup Views], NEW t
      PROVE  ApplyRoutes(view, t) \in [Ships -> {Unseen} \cup Views]
  <2>1. ASSUME NEW n \in Ships
        PROVE  [(IF view[n] = Unseen THEN Blank ELSE view[n]) EXCEPT !.routed = TRUE] \in Views
    <3>1. (IF view[n] = Unseen THEN Blank ELSE view[n]) \in Views
      BY <1>1
    <3> QED BY <1>3, <3>1
  <2> QED BY <2>1 DEF ApplyRoutes
<1>7. ASSUME NEW snap \in Snapshots
      PROVE  ApplySnapshot(snap) \in [Ships -> {Unseen} \cup Views]
  <2> DEFINE view == [n \in Ships |->
                        IF n \notin snap.placed THEN shown[n]
                        ELSE [Node(n) EXCEPT !.placed = TRUE, !.online = n \in snap.online]]
  <2>1. ASSUME NEW n \in Ships
        PROVE  [Node(n) EXCEPT !.placed = TRUE, !.online = n \in snap.online] \in Views
    <3>1. (n \in snap.online) \in BOOLEAN
      OBVIOUS
    <3> QED BY <1>2, <1>3, <3>1
  <2>2. view \in [Ships -> {Unseen} \cup Views]
    BY <2>1
  <2>3. ApplySnapshot(snap) = ApplyRoutes(view, snap.routes)
    BY DEF ApplySnapshot
  <2> HIDE DEF view
  <2> QED BY <1>6, <2>2, <2>3
<1> QED BY <1>4, <1>5, <1>6, <1>7

(* What is asked, or there at once, is an answer or none.                  *)
LEMMA AskTypes ==
  ASSUME Types
  PROVE  /\ AskSimulation \in {"active", "stopped", NoAnswer}
         /\ AskStats \in {NoAnswer} \cup [Counters -> Nat]
         /\ AskTopology \in {NoAnswer} \cup Snapshots
<1> USE DEF Types, StopOnly, ServerTypeOK
<1>1. AskSimulation \in {"active", "stopped", NoAnswer}
  BY DEF AskSimulation
<1>2. AskStats \in {NoAnswer} \cup [Counters -> Nat]
  BY DEF AskStats
<1>3. AskTopology \in {NoAnswer} \cup Snapshots
  BY DEF AskTopology, Snapshots
<1> QED BY <1>1, <1>2, <1>3

LEMMA TypesInit == Init => AllTypes
<1> SUFFICES ASSUME Init PROVE AllTypes
  OBVIOUS
<1>1. Types
  BY ServerTypesInit DEF Init
<1>2. shown \in [Ships -> {Unseen} \cup Views] /\ counters \in [Counters -> Nat]
  BY DEF Init
<1>3. /\ hydrating \subseteq Callers
      /\ detail \in [Callers -> {"active", "stopped", NoAnswer}]
      /\ stats \in [Callers -> {NoAnswer} \cup [Counters -> Nat]]
      /\ topo \in [Callers -> {NoAnswer} \cup Snapshots]
  BY <1>1, AskTypes DEF Init, Callers
<1>4. BrowserTypeOK
  BY <1>2, <1>3 DEF Init, BrowserTypeOK
<1> QED BY <1>1, <1>4 DEF AllTypes

(* The socket's callbacks, and the timer's.                                *)
LEMMA SocketCallbackTypes ==
  ASSUME AllTypes,
         OnOpen \/ OnMessage \/ OnClose \/ LookUp \/ Reconnect \/ ReconnectBlind
  PROVE  AllTypes'
<1> USE DEF AllTypes, Types, StopOnly, serverVars, stores, shipSockets, jobs, monitor
<1>1. ServerTypeOK /\ BrowserTypeOK /\ StopOnly
  OBVIOUS
<1>2. CASE OnOpen
  <2>1. UNCHANGED serverVars
    BY <1>2 DEF OnOpen
  <2>2. /\ detail' \in [Callers -> {"active", "stopped", NoAnswer}]
        /\ stats' \in [Callers -> {NoAnswer} \cup [Counters -> Nat]]
        /\ topo' \in [Callers -> {NoAnswer} \cup Snapshots]
    BY <1>1, <1>2, AskTypes DEF OnOpen, BrowserTypeOK
  <2>3. hydrating' \subseteq Callers
    BY <1>1, <1>2 DEF OnOpen, BrowserTypeOK, Callers
  <2>4. BrowserTypeOK'
    BY <1>1, <1>2, <2>2, <2>3 DEF OnOpen, BrowserTypeOK
  <2> QED BY <1>1, <2>1, <2>4 DEF ServerTypeOK
<1>3. CASE OnMessage
  <2> DEFINE e == Head(feed)
  <2>1. e \in Events /\ Tail(feed) \in Seq(Events) /\ Len(Tail(feed)) <= FeedSize
    <3>1. feed \in Seq(Events) /\ feed # <<>> /\ Len(feed) <= FeedSize
      BY <1>1, <1>3 DEF OnMessage, ServerTypeOK
    <3>2. Len(Tail(feed)) = Len(feed) - 1 /\ Len(feed) \in Nat
      BY <3>1
    <3> QED BY <3>1, <3>2, ConnectionsAssumption
  <2>2. /\ e.kind = "status" => e.ship \in Ships /\ e.online \in BOOLEAN
        /\ e.kind = "ping" => e.ship \in Ships
    <3> HIDE DEF e
    <3>1. CASE \E n \in Ships : e = Joined(n) \/ e = Left(n)
      <4>1. PICK n \in Ships, on \in BOOLEAN : e = [kind |-> "status", ship |-> n, online |-> on]
        BY <3>1 DEF Joined, Left
      <4>2. e.kind = "status" /\ e.ship = n /\ e.online = on
        BY <4>1
      <4> QED BY <4>2
    <3>2. CASE \E n \in Ships : e = Pinged(n)
      BY <3>2 DEF Pinged
    <3>3. CASE (\E t \in SUBSET Ships : e = Routes(t)) \/ e \in {Outcome, Ended}
      <4>1. e.kind \in {"table", "packet", "ended"}
        BY <3>3 DEF Routes, Outcome, Ended
      <4> QED BY <4>1
    <3> QED BY <2>1, <3>1, <3>2, <3>3 DEF Events
  <2>3. shown' \in [Ships -> {Unseen} \cup Views]
    <3>1. shown \in [Ships -> {Unseen} \cup Views]
      BY <1>1 DEF BrowserTypeOK
    <3>2. shown' = CASE e.kind = "status" -> SetOnline(e.ship, e.online)
                     [] e.kind = "ping"   -> ApplyPing(e.ship)
                     [] e.kind = "table"  -> ApplyRoutes(shown, e.routes)
                     [] OTHER             -> shown
      BY <1>3 DEF OnMessage
    <3> HIDE DEF e
    <3>3. CASE e.kind = "status"
      BY <2>2, <3>1, <3>2, <3>3, ViewTypes
    <3>4. CASE e.kind = "ping"
      BY <2>2, <3>1, <3>2, <3>4, ViewTypes
    <3>5. CASE e.kind = "table"
      BY <3>1, <3>2, <3>5, ViewTypes
    <3>6. CASE e.kind \notin {"status", "ping", "table"}
      BY <3>1, <3>2, <3>6
    <3> QED BY <3>3, <3>4, <3>5, <3>6
  <2>4. counters' \in [Counters -> Nat]
    BY <1>1, <1>3 DEF OnMessage, BrowserTypeOK, Counters
  <2>5. status' \in {status, "ended"} /\ known' \in BOOLEAN
    BY <1>3 DEF OnMessage
  <2>6. BrowserTypeOK'
    BY <1>1, <1>3, <2>3, <2>4, <2>5 DEF OnMessage, BrowserTypeOK, gets
  <2>7. feed' = Tail(feed) /\ UNCHANGED <<stores, shipSockets, jobs, link, prime>>
    BY <1>3 DEF OnMessage
  <2>8. ServerTypeOK'
    BY <1>1, <2>1, <2>7 DEF ServerTypeOK
  <2> QED BY <1>1, <2>6, <2>7, <2>8
<1>4. CASE OnClose
  <2>1. drops' \in Nat
    BY <1>1, <1>4 DEF OnClose, Lost, BrowserTypeOK
  <2>2. BrowserTypeOK'
    BY <1>1, <1>4, <2>1 DEF OnClose, BrowserTypeOK, gets
  <2>3. <<>> \in Seq(Events) /\ Len(<<>>) <= FeedSize
    BY ConnectionsAssumption
  <2>4. ServerTypeOK' /\ StopOnly'
    BY <1>1, <1>4, <2>3 DEF OnClose, ServerTypeOK
  <2> QED BY <2>2, <2>4
<1>5. CASE LookUp
  <2>1. UNCHANGED serverVars /\ timer' \in {"active", "stopped"}
    BY <1>1, <1>5 DEF LookUp, ServerTypeOK
  <2>2. BrowserTypeOK'
    BY <1>1, <1>5, <2>1 DEF LookUp, BrowserTypeOK, views, gets
  <2> QED BY <1>1, <2>1, <2>2 DEF ServerTypeOK
<1>6. CASE Reconnect \/ ReconnectBlind
  <2>1. /\ link' \in {link, "dialing"} /\ status' \in {"reconnecting", "ended"}
        /\ known' \in {known, FALSE} /\ timer' = "off"
        /\ UNCHANGED <<stores, shipSockets, jobs, feed, prime, shown, counters, opened,
                       gets, poll, drops>>
    BY <1>6 DEF Reconnect, ReconnectBlind, Dial
  <2>2. ServerTypeOK' /\ StopOnly'
    BY <1>1, <2>1 DEF ServerTypeOK
  <2>3. BrowserTypeOK'
    BY <1>1, <2>1 DEF BrowserTypeOK, gets
  <2> QED BY <2>2, <2>3
<1> QED BY <1>2, <1>3, <1>4, <1>5, <1>6

(* The GETs.                                                               *)
LEMMA GetTypes ==
  ASSUME AllTypes, (\E c \in Callers : Hydration(c)) \/ PollRead \/ PollApply
  PROVE  AllTypes'
<1> USE DEF AllTypes
<1>1. ServerTypeOK /\ BrowserTypeOK
  BY DEF Types
<1>2. UNCHANGED serverVars
  BY DEF Hydration, GetSimulation, GetStats, GetTopology, GetOnline, Hydrate, HydrateFails,
         PollRead, PollApply
<1>3. Types'
  BY <1>2 DEF Types, ServerTypeOK, StopOnly, serverVars, stores, shipSockets, jobs, monitor
<1>4. ASSUME NEW c \in Callers, Hydration(c) PROVE BrowserTypeOK'
  <2>1. CASE GetSimulation(c)
    BY <1>1, <2>1 DEF GetSimulation, ServerTypeOK, BrowserTypeOK, views
  <2>2. CASE GetStats(c)
    BY <1>1, <2>2 DEF GetStats, ServerTypeOK, BrowserTypeOK, views
  <2>3. CASE GetTopology(c)
    <3>1. [placed |-> geo, routes |-> table, online |-> NoAnswer] \in Snapshots
      BY <1>1 DEF ServerTypeOK, Snapshots
    <3>2. topo' \in [Callers -> {NoAnswer} \cup Snapshots]
      BY <1>1, <2>3, <3>1 DEF GetTopology, BrowserTypeOK
    <3> QED BY <1>1, <2>3, <3>2 DEF GetTopology, BrowserTypeOK, views
  <2>4. CASE GetOnline(c)
    <3>1. topo[c] \in Snapshots
      BY <1>1, <2>4 DEF GetOnline, BrowserTypeOK
    <3>2. [topo[c] EXCEPT !.online = {n \in Ships : registry[n] # NoSocket}] \in Snapshots
      BY <3>1 DEF Snapshots
    <3>3. topo' = [topo EXCEPT ![c] = [topo[c] EXCEPT !.online =
                                         {n \in Ships : registry[n] # NoSocket}]]
      BY <2>4 DEF GetOnline
    <3>4. topo' \in [Callers -> {NoAnswer} \cup Snapshots]
      BY <1>1, <3>2, <3>3 DEF BrowserTypeOK
    <3> QED BY <1>1, <2>4, <3>4 DEF GetOnline, BrowserTypeOK, views
  <2>5. CASE Hydrate(c)
    <3>1. topo[c] \in Snapshots /\ stats[c] \in [Counters -> Nat]
      BY <1>1, <2>5 DEF Hydrate, Answered, BrowserTypeOK
    <3>2. shown' \in [Ships -> {Unseen} \cup Views]
      BY <1>1, <2>5, <3>1, ViewTypes DEF Hydrate, BrowserTypeOK
    <3>3. status' \in {status, "ended"} /\ known' \in BOOLEAN
      BY <2>5 DEF Hydrate
    <3> QED BY <1>1, <2>5, <3>1, <3>2, <3>3 DEF Hydrate, Settled, BrowserTypeOK
  <2>6. CASE HydrateFails(c)
    BY <1>1, <2>6 DEF HydrateFails, Settled, BrowserTypeOK, views
  <2> QED BY <1>4, <2>1, <2>2, <2>3, <2>4, <2>5, <2>6 DEF Hydration
<1>5. CASE PollRead
  BY <1>1, <1>3, <1>5 DEF PollRead, ServerTypeOK, BrowserTypeOK, views, gets
<1>6. CASE PollApply
  BY <1>1, <1>3, <1>6 DEF PollApply, BrowserTypeOK, gets
<1> QED BY <1>3, <1>4, <1>5, <1>6

(* Every variable has its type; in particular a dashboard that falls       *)
(* behind never makes the server hold more than its buffer.                *)
THEOREM TypeCorrect == Spec => []TypeOK
<1>1. AllTypes /\ [Next]_vars => AllTypes'
  <2> SUFFICES ASSUME AllTypes, [Next]_vars PROVE AllTypes'
    OBVIOUS
  <2>1. CASE Server(ServerNext)
    BY <2>1, ServerTypes DEF Server, AllTypes, BrowserTypeOK, browserVars, views,
       gets
  <2>2. CASE Browser
    BY <2>2, SocketCallbackTypes, GetTypes DEF Browser
  <2>3. CASE UNCHANGED vars
    BY <2>3 DEF AllTypes, Types, ServerTypeOK, StopOnly, BrowserTypeOK, vars, serverVars,
       browserVars, views, gets, stores, shipSockets, jobs, monitor
  <2> QED BY <2>1, <2>2, <2>3 DEF Next
<1>2. AllTypes => TypeOK
  BY DEF AllTypes, Types, BrowserTypeOK, TypeOK
<1> QED BY <1>1, <1>2, TypesInit, PTL DEF Spec

(* "loop berhenti permanen": once a page shows the end of its session and  *)
(* its hook neither dials nor waits, no event, answer or close, of whatever*)
(* is still under way, brings back an attempt or another status.           *)
THEOREM QuietStays == Spec => EndedQuiet
<1>1. [Next]_vars => [Quiet => Quiet']_vars
  <2> SUFFICES ASSUME [Next]_vars, Quiet PROVE Quiet'
    OBVIOUS
  <2> USE DEF Quiet
  <2>1. CASE Server(ServerNext)
    <3>1. UNCHANGED <<status, opened, timer>>
      BY <2>1 DEF Server, browserVars, views
    <3>2. link = "none" => link' = "none"
      <4>1. CASE \E s \in Sockets : Admit(s) \/ Disconnect(s) \/ ShipGoroutines(s)
        BY <4>1 DEF Admit, Disconnect, ShipGoroutines, RegisterNode, CloseReplaced,
           UnregisterNode, RemoveNode, AnnounceLeft, AnnounceJoined, Prime, monitor
      <4>2. CASE \E n \in Ships : Ping(n) \/ PingWorker(n) \/ Transmit(n)
        BY <4>2 DEF Ping, PingWorker, StorePing, SendPing, Transmit, monitor
      <4>3. CASE FrameWorker \/ RecomputeRead \/ RecomputeSave
        BY <4>3 DEF FrameWorker, CountOutcome, EmitOutcome, RecomputeRead, RecomputeSave,
           monitor
      <4>4. CASE StopRow \/ Stopping \/ Delete
        BY <4>4 DEF StopRow, Stopping, Notify, KickSession, ClearMaps, ClearSession, Delete,
           monitor
      <4>5. CASE MonitorGoroutine
        BY <4>5 DEF MonitorGoroutine, Upgrade, RegisterMonitor, MonitorRead, MonitorSend
      <4> QED BY <2>1, <4>1, <4>2, <4>3, <4>4, <4>5 DEF Server, ServerNext
    <3> QED BY <3>1, <3>2
  <2>2. CASE OnOpen \/ OnMessage \/ OnClose
    BY <2>2 DEF OnOpen, OnMessage, OnClose, Lost
  <2>3. CASE LookUp \/ Reconnect \/ ReconnectBlind
    BY <2>3 DEF LookUp, Reconnect, ReconnectBlind
  <2>4. CASE \E c \in Callers : Hydration(c)
    BY <2>4 DEF Hydration, GetSimulation, GetStats, GetTopology, GetOnline, Hydrate,
       HydrateFails, views, serverVars, monitor
  <2>5. CASE PollRead \/ PollApply
    BY <2>5 DEF PollRead, PollApply, views, serverVars, monitor
  <2>6. CASE UNCHANGED vars
    BY <2>6 DEF vars, browserVars, views, serverVars, monitor
  <2> QED BY <2>1, <2>2, <2>3, <2>4, <2>5, <2>6 DEF Next, Browser
<1> QED BY <1>1, PTL DEF Spec, EndedQuiet
=============================================================================
