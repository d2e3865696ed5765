------------------------------ MODULE Sessions ------------------------------
(***************************************************************************)
(* The life of one simulation session                                      *)
(* (internal/service/session_service.go): its row in PostgreSQL, the       *)
(* parameters cached in Redis that every handler obeys, the topology       *)
(* scheduler, and the ships' sockets.  Requests of several HTTP clients    *)
(* run concurrently and are cut at each access to a store; admission, late *)
(* pings and recomputes of the topology go on meanwhile; the server may    *)
(* crash and resume.                                                       *)
(*                                                                         *)
(* Faults: "infra" is an error of PostgreSQL or Redis, a request cancelled *)
(* by its client included, "shed" a full send buffer, "crash" the end of   *)
(* the server process.                                                     *)
(***************************************************************************)
EXTENDS Naturals, FiniteSets

CONSTANTS
  Clients,      \* HTTP clients, one request at a time each
  Ships,
  SpreadingFactors, Powers, Weathers,  \* the parameters a session may have
  NoRow,        \* the session does not exist
  NoParams,     \* nothing cached, nothing told
  Faults,
  MaxRequests,  \* bound on requests
  MaxVisits,    \* bound on admissions, pings and recomputes
  MaxCrashes    \* bound on crashes

Params == [sf: SpreadingFactors, tx: Powers, weather: Weathers]
Rows == [params: Params, active: BOOLEAN]

ASSUME SessionsAssumption ==
  /\ NoRow \notin Rows /\ NoParams \notin Params
  /\ Faults \subseteq {"infra", "shed", "crash"}
  /\ MaxRequests \in Nat /\ MaxVisits \in Nat /\ MaxCrashes \in Nat

VARIABLES
  \* --- stores --------------------------------------------------------------
  row,        \* the row of simulation_sessions
  born,       \* whether it was ever inserted: ids are not used twice
  cache,      \* sim:{id}:params
  geo,        \* ships on the geo index
  routes,     \* whether a routing table is stored
  stats,      \* whether counters are stored
  \* --- the server process ------------------------------------------------------
  up,         \* whether it runs
  scheduled,  \* MeshTopologyService.active
  tick,       \* recompute: "idle" or "save"
  pc,         \* pc[c]: where c's request is
  held,       \* held[c]: the parameters it carries
  sock,       \* sock[n]: "out", "admitted", "on", "kicked"
  leaving,    \* ships whose NodeDisconnected has yet to run
  join,       \* join[n]: NodeConnected: "no", "read", "send"
  carried,    \* carried[n]: the parameters it read
  job,        \* job[n]: a ping of n: "no", "ping", "count"
  told,       \* told[n]: the last env:sync_params sent to n's socket
  \* --- history and bounds ------------------------------------------------------
  raced,      \* the cache was last written late, or a write failed
  missed,     \* ships last told something outdated, or not told
  late,       \* a handler, or a failed clear, left its mark after the stop
  unborn,     \* Create failed after its insert
  requests, visits, crashes

requestVars == <<pc, held>>
shipVars == <<sock, leaving, join, carried, job, told>>
keys == <<geo, routes, stats>>
rest == <<unborn, requests, visits, crashes>>
vars == <<row, born, cache, keys, up, scheduled, tick, requestVars, shipVars,
          raced, missed, late, rest>>

Active == row # NoRow /\ row.active
Stopped == row # NoRow /\ ~ row.active
NoneAt(L) == \A c \in Clients : pc[c] \notin L
Stopping == {"kick", "remove", "clearGeo", "clearRoutes", "clearState"}
Goto(c, l) == pc' = [pc EXCEPT ![c] = l]
Holding(c, l, p) == Goto(c, l) /\ held' = [held EXCEPT ![c] = p]

-----------------------------------------------------------------------------
(* The session does not exist yet, or was created some time ago.           *)
Init ==
  /\ \/ row = NoRow /\ born = FALSE /\ cache = NoParams /\ scheduled = FALSE
     \/ /\ \E p \in Params : row = [params |-> p, active |-> TRUE] /\ cache = p
        /\ born = TRUE /\ scheduled = TRUE
  /\ geo = {} /\ routes = FALSE /\ stats = FALSE
  /\ up = TRUE /\ tick = "idle"
  /\ pc = [c \in Clients |-> "idle"]
  /\ held = [c \in Clients |-> NoParams]
  /\ sock = [n \in Ships |-> "out"]
  /\ leaving = {}
  /\ join = [n \in Ships |-> "no"]
  /\ carried = [n \in Ships |-> NoParams]
  /\ job = [n \in Ships |-> "no"]
  /\ told = [n \in Ships |-> NoParams]
  /\ raced = FALSE /\ missed = {} /\ late = FALSE /\ unborn = FALSE
  /\ requests = 0 /\ visits = 0 /\ crashes = 0

-----------------------------------------------------------------------------
(* Requests.                                                               *)

Begin(c) ==
  /\ up /\ pc[c] = "idle"
  /\ requests < MaxRequests
  /\ requests' = requests + 1
  /\ UNCHANGED <<born, cache, keys, up, scheduled, tick, shipVars, raced, missed, late,
                 unborn, visits, crashes>>

(* Create: the insert ...                                                  *)
Create(c, p) ==
  /\ ~ born
  /\ up /\ pc[c] = "idle"
  /\ requests < MaxRequests
  /\ requests' = requests + 1
  /\ born' = TRUE
  /\ row' = [params |-> p, active |-> TRUE]
  /\ Holding(c, "cacheNew", p)
  /\ UNCHANGED <<cache, keys, up, scheduled, tick, shipVars, raced, missed, late, unborn,
                 visits, crashes>>

(* HSET of what a request holds; raced notes that the row has moved on.    *)
SaveParams(c) ==
  /\ cache' = held[c]
  /\ raced' = ~ (Active /\ row.params = held[c])
  /\ late' = (late \/ ~ Active)

(* ... the cache, from what was inserted ...                               *)
CacheNew(c) ==
  /\ pc[c] = "cacheNew"
  /\ SaveParams(c)
  /\ Goto(c, "schedule")
  /\ UNCHANGED <<row, born, keys, up, scheduled, tick, held, shipVars, missed, rest>>

(* ... and AddSession.                                                     *)
AddSession(c) ==
  /\ pc[c] = "schedule"
  /\ scheduled' = TRUE
  /\ late' = (late \/ ~ Active)
  /\ Holding(c, "idle", NoParams)
  /\ UNCHANGED <<row, born, cache, keys, up, tick, shipVars, raced, missed, rest>>

(* UpdateWeather: refused unless the session is active.                    *)
UpdateWeather(c, w) ==
  /\ Begin(c)
  /\ Active
  /\ row' = [row EXCEPT !.params.weather = w]
  /\ Goto(c, "refresh")
  /\ UNCHANGED held

(* UpdateRadioParams: what the request omits is taken from the row read    *)
(* now ...                                                                 *)
ReadRadio(c, sfs, txs) ==
  /\ Begin(c)
  /\ Active
  /\ \E sf \in IF sfs = {} THEN {row.params.sf} ELSE sfs,
        tx \in IF txs = {} THEN {row.params.tx} ELSE txs :
       Holding(c, "radio", [row.params EXCEPT !.sf = sf, !.tx = tx])
  /\ UNCHANGED row

(* ... and written later, both parameters at once.  Mutant: the write does *)
(* not ask whether the session is still active.                            *)
WriteRadioAlways(c) ==
  /\ pc[c] = "radio"
  /\ IF row # NoRow
       THEN /\ row' = [row EXCEPT !.params.sf = held[c].sf, !.params.tx = held[c].tx]
            /\ Holding(c, "refresh", NoParams)
       ELSE /\ Holding(c, "idle", NoParams)
            /\ UNCHANGED row
  /\ UNCHANGED <<born, cache, keys, up, scheduled, tick, shipVars, raced, missed, late,
                 rest>>

WriteRadio(c) ==
  /\ pc[c] = "radio"
  /\ IF Active
       THEN /\ row' = [row EXCEPT !.params.sf = held[c].sf, !.params.tx = held[c].tx]
            /\ Holding(c, "refresh", NoParams)
       ELSE /\ Holding(c, "idle", NoParams)
            /\ UNCHANGED row
  /\ UNCHANGED <<born, cache, keys, up, scheduled, tick, shipVars, raced, missed, late,
                 rest>>

(* refreshAndBroadcast: GetByID, the cache, then every socket.             *)
Refresh(c) ==
  /\ pc[c] = "refresh"
  /\ IF row = NoRow THEN Holding(c, "idle", NoParams)
                    ELSE Holding(c, "cache", row.params)
  /\ UNCHANGED <<row, born, cache, keys, up, scheduled, tick, shipVars, raced, missed,
                 late, rest>>

CacheParams(c) ==
  /\ pc[c] = "cache"
  /\ SaveParams(c)
  /\ Goto(c, "tell")
  /\ UNCHANGED <<row, born, keys, up, scheduled, tick, held, shipVars, missed, rest>>

(* Sends of env:sync_params to the ships of N, some shed; missed notes a   *)
(* ship that did not get what the row says.                                *)
Tell(N, p) ==
  \E S \in SUBSET (N \cap {n \in Ships : sock[n] = "on"}) :
    /\ "shed" \notin Faults => S = N \cap {n \in Ships : sock[n] = "on"}
    /\ told' = [n \in Ships |-> IF n \in S THEN p ELSE told[n]]
    /\ missed' = IF Active /\ p = row.params THEN (missed \ S) \cup (N \ S)
                                             ELSE missed \cup N

BroadcastToNodes(c) ==
  /\ pc[c] = "tell"
  /\ Tell({n \in Ships : sock[n] = "on"}, held[c])
  /\ Holding(c, "idle", NoParams)
  /\ UNCHANGED <<row, born, cache, keys, up, scheduled, tick, sock, leaving, join,
                 carried, job, raced, late, rest>>

(* Stop: GetStats, then the row, if the session is active ...              *)
Stop(c) ==
  /\ Begin(c)
  /\ row # NoRow
  /\ Goto(c, "stop")
  /\ UNCHANGED <<row, held>>

StopRow(c) ==
  /\ pc[c] = "stop"
  /\ IF Active THEN row' = [row EXCEPT !.active = FALSE] /\ Goto(c, "kick")
               ELSE Goto(c, "idle") /\ UNCHANGED row
  /\ UNCHANGED <<born, cache, keys, up, scheduled, tick, held, shipVars, raced, missed,
                 late, rest>>

(* ... session:ended and KickSession, for the sockets registered now ...   *)
KickSession(c) ==
  /\ pc[c] = "kick"
  /\ sock' = [n \in Ships |-> IF sock[n] = "on" THEN "kicked" ELSE sock[n]]
  /\ Goto(c, "remove")
  /\ UNCHANGED <<row, born, cache, keys, up, scheduled, tick, held, leaving, join,
                 carried, job, told, raced, missed, late, rest>>

(* ... RemoveSession ...                                                   *)
RemoveSession(c) ==
  /\ pc[c] = "remove"
  /\ scheduled' = FALSE
  /\ Goto(c, "clearGeo")
  /\ UNCHANGED <<row, born, cache, keys, up, tick, held, shipVars, raced, missed, late,
                 rest>>

(* ... and three deletions, whose errors are logged.                       *)
ClearGeo(c) ==
  /\ pc[c] = "clearGeo"
  /\ \/ geo' = {} /\ UNCHANGED late
     \/ "infra" \in Faults /\ late' = TRUE /\ UNCHANGED geo
  /\ Goto(c, "clearRoutes")
  /\ UNCHANGED <<row, born, cache, routes, stats, up, scheduled, tick, held, shipVars,
                 raced, missed, rest>>

ClearRoutes(c) ==
  /\ pc[c] = "clearRoutes"
  /\ \/ routes' = FALSE /\ UNCHANGED late
     \/ "infra" \in Faults /\ late' = TRUE /\ UNCHANGED routes
  /\ Goto(c, "clearState")
  /\ UNCHANGED <<row, born, cache, geo, stats, up, scheduled, tick, held, shipVars,
                 raced, missed, rest>>

(* Mutant of ClearSession: the counters stay.                              *)
ClearParamsOnly(c) ==
  /\ pc[c] = "clearState"
  /\ cache' = NoParams
  /\ Goto(c, "idle")
  /\ UNCHANGED <<row, born, keys, up, scheduled, tick, held, shipVars, raced, missed,
                 late, rest>>

ClearSession(c) ==
  /\ pc[c] = "clearState"
  /\ \/ cache' = NoParams /\ stats' = FALSE /\ UNCHANGED late
     \/ "infra" \in Faults /\ late' = TRUE /\ UNCHANGED <<cache, stats>>
  /\ Goto(c, "idle")
  /\ UNCHANGED <<row, born, geo, routes, up, scheduled, tick, held, shipVars, raced,
                 missed, rest>>

(* Delete: refused while the session is active ...                         *)
ReadDelete(c) ==
  /\ Begin(c)
  /\ Stopped
  /\ Goto(c, "delete")
  /\ UNCHANGED <<row, held>>

DeleteRow(c) ==
  /\ pc[c] = "delete"
  /\ row' = NoRow
  /\ Goto(c, "idle")
  /\ UNCHANGED <<born, cache, keys, up, scheduled, tick, held, shipVars, raced, missed,
                 late, rest>>

(* A store answers with an error: the request ends where it is, and what   *)
(* was asked of the store was not done; after a write, which was done and  *)
(* answered with an error.  Stop's deletions have errors of their own.     *)
RequestFails(c) ==
  /\ "infra" \in Faults
  /\ pc[c] \in {"cacheNew", "radio", "refresh", "cache", "stop", "kick", "delete"}
  /\ Holding(c, "idle", NoParams)
  /\ raced' = (raced \/ pc[c] \in {"cacheNew", "refresh", "cache"})
  /\ late' = (late \/ pc[c] = "kick")
  /\ missed' = IF pc[c] \in {"refresh", "cache"} THEN Ships ELSE missed
  /\ unborn' = (unborn \/ pc[c] = "cacheNew")
  /\ UNCHANGED <<row, born, cache, keys, up, scheduled, tick, shipVars, requests,
                 visits, crashes>>

(* The HSET of cacheParams likewise: done, but answered with an error.     *)
CacheFails(c) ==
  /\ "infra" \in Faults
  /\ pc[c] \in {"cacheNew", "cache"}
  /\ SaveParams(c)
  /\ Holding(c, "idle", NoParams)
  /\ missed' = IF pc[c] = "cache" THEN Ships ELSE missed
  /\ unborn' = (unborn \/ pc[c] = "cacheNew")
  /\ UNCHANGED <<row, born, keys, up, scheduled, tick, shipVars, requests, visits, crashes>>

-----------------------------------------------------------------------------
(* Ships, workers and the scheduler.                                       *)

Visit == up /\ visits < MaxVisits /\ visits' = visits + 1

(* HandleNodeWS: SessionActive ...                                         *)
Admit(n) ==
  /\ Visit
  /\ sock[n] = "out" /\ join[n] = "no"
  /\ cache # NoParams
  /\ sock' = [sock EXCEPT ![n] = "admitted"]
  /\ UNCHANGED <<row, born, cache, keys, up, scheduled, tick, requestVars, leaving, join,
                 carried, job, told, raced, missed, late, unborn, requests, crashes>>

(* ... registerNode ...  Mutant: nobody primes the fresh socket.           *)
RegisterSilently(n) ==
  /\ sock[n] = "admitted"
  /\ sock' = [sock EXCEPT ![n] = "on"]
  /\ told' = [told EXCEPT ![n] = NoParams]
  /\ missed' = missed \ {n}
  /\ UNCHANGED <<row, born, cache, keys, up, scheduled, tick, requestVars, leaving, join,
                 carried, job, raced, late, rest>>

Register(n) ==
  /\ sock[n] = "admitted"
  /\ sock' = [sock EXCEPT ![n] = "on"]
  /\ join' = [join EXCEPT ![n] = "read"]
  /\ told' = [told EXCEPT ![n] = NoParams]
  /\ missed' = missed \ {n}
  /\ UNCHANGED <<row, born, cache, keys, up, scheduled, tick, requestVars, leaving,
                 carried, job, raced, late, rest>>

(* ... and NodeConnected: GetParams, then SendToNode.  Mutant: that there  *)
(* are none is not noticed.                                                *)
ReadParamsUnchecked(n) ==
  /\ join[n] = "read"
  /\ carried' = [carried EXCEPT ![n] = cache]
  /\ join' = [join EXCEPT ![n] = "send"]
  /\ UNCHANGED <<row, born, cache, keys, up, scheduled, tick, requestVars, sock, leaving,
                 job, told, raced, missed, late, rest>>

ReadParams(n) ==
  /\ join[n] = "read"
  /\ carried' = [carried EXCEPT ![n] = cache]
  /\ join' = [join EXCEPT ![n] = IF cache = NoParams THEN "no" ELSE "send"]
  /\ UNCHANGED <<row, born, cache, keys, up, scheduled, tick, requestVars, sock, leaving,
                 job, told, raced, missed, late, rest>>

(* An error of Redis is not distinguished from no parameters: nothing is   *)
(* sent, nor tried again.  A ship no broadcast reached since it registered *)
(* is left without any.                                                    *)
ReadParamsFails(n) ==
  /\ "infra" \in Faults
  /\ join[n] = "read"
  /\ join' = [join EXCEPT ![n] = "no"]
  /\ missed' = IF told[n] = NoParams THEN missed \cup {n} ELSE missed
  /\ UNCHANGED <<row, born, cache, keys, up, scheduled, tick, requestVars, sock, leaving,
                 carried, job, told, raced, late, rest>>

SendParams(n) ==
  /\ join[n] = "send"
  /\ join' = [join EXCEPT ![n] = "no"]
  /\ carried' = [carried EXCEPT ![n] = NoParams]
  /\ Tell({n}, carried[n])
  /\ UNCHANGED <<row, born, cache, keys, up, scheduled, tick, requestVars, sock, leaving,
                 job, raced, late, rest>>

(* The socket ends, kicked or not: unregisterNode, then NodeDisconnected.  *)
Unregister(n) ==
  /\ sock[n] \in {"on", "kicked"}
  /\ sock' = [sock EXCEPT ![n] = "out"]
  /\ leaving' = leaving \cup {n}
  /\ UNCHANGED <<row, born, cache, keys, up, scheduled, tick, requestVars, join, carried,
                 job, told, raced, missed, late, rest>>

NodeDisconnected(n) ==
  /\ n \in leaving
  /\ leaving' = leaving \ {n}
  /\ geo' = geo \ {n}
  /\ UNCHANGED <<row, born, cache, routes, stats, up, scheduled, tick, requestVars, sock,
                 join, carried, job, told, raced, missed, late, rest>>

(* A ping enters the job queue; a worker, later, writes the position and   *)
(* then counts.  Neither asks whether the session lives.                   *)
Ping(n) ==
  /\ Visit
  /\ sock[n] = "on" /\ job[n] = "no"
  /\ job' = [job EXCEPT ![n] = "ping"]
  /\ UNCHANGED <<row, born, cache, keys, up, scheduled, tick, requestVars, sock, leaving,
                 join, carried, told, raced, missed, late, unborn, requests, crashes>>

UpsertPosition(n) ==
  /\ job[n] = "ping"
  /\ geo' = geo \cup {n}
  /\ job' = [job EXCEPT ![n] = "count"]
  /\ late' = (late \/ ~ Active)
  /\ UNCHANGED <<row, born, cache, routes, stats, up, scheduled, tick, requestVars, sock,
                 leaving, join, carried, told, raced, missed, rest>>

IncrStat(n) ==
  /\ job[n] = "count"
  /\ stats' = TRUE
  /\ job' = [job EXCEPT ![n] = "no"]
  /\ late' = (late \/ ~ Active)
  /\ UNCHANGED <<row, born, cache, geo, routes, up, scheduled, tick, requestVars, sock,
                 leaving, join, carried, told, raced, missed, rest>>

(* recompute: the parameters of a scheduled session, then SaveTable.       *)
Recompute ==
  /\ Visit
  /\ tick = "idle" /\ scheduled /\ cache # NoParams
  /\ tick' = "save"
  /\ UNCHANGED <<row, born, cache, keys, up, scheduled, requestVars, shipVars, raced,
                 missed, late, unborn, requests, crashes>>

SaveTable ==
  /\ tick = "save"
  /\ tick' = "idle"
  /\ routes' = TRUE
  /\ late' = (late \/ ~ Active)
  /\ UNCHANGED <<row, born, cache, geo, stats, up, scheduled, requestVars, shipVars, raced,
                 missed, rest>>

-----------------------------------------------------------------------------
(* The server process ends; what it held in memory is gone.                *)
Crash ==
  /\ "crash" \in Faults
  /\ up /\ crashes < MaxCrashes
  /\ crashes' = crashes + 1
  /\ up' = FALSE
  /\ scheduled' = FALSE /\ tick' = "idle"
  /\ pc' = [c \in Clients |-> "idle"]
  /\ held' = [c \in Clients |-> NoParams]
  /\ sock' = [n \in Ships |-> "out"]
  /\ leaving' = {}
  /\ join' = [n \in Ships |-> "no"]
  /\ carried' = [n \in Ships |-> NoParams]
  /\ job' = [n \in Ships |-> "no"]
  /\ told' = [n \in Ships |-> NoParams]
  /\ late' = (late \/ ~ NoneAt(Stopping))
  /\ UNCHANGED <<row, born, cache, keys, raced, missed, unborn, requests, visits>>

(* Mutants of ResumeActive: the cache of Redis is taken to be good; the    *)
(* scheduler is forgotten.                                                 *)
ResumeScheduler ==
  /\ ~ up
  /\ up' = TRUE
  /\ scheduled' = Active
  /\ raced' = FALSE
  /\ UNCHANGED <<row, born, cache, keys, tick, requestVars, shipVars, missed, late, rest>>

ResumeCache ==
  /\ ~ up
  /\ up' = TRUE
  /\ IF Active THEN cache' = row.params /\ raced' = FALSE /\ unborn' = FALSE
               ELSE UNCHANGED <<cache, raced, unborn>>
  /\ UNCHANGED <<row, born, keys, scheduled, tick, requestVars, shipVars, missed, late,
                 requests, visits, crashes>>

(* ResumeActive runs before the server listens.                            *)
ResumeActive ==
  /\ ~ up
  /\ up' = TRUE
  /\ scheduled' = Active
  /\ IF Active THEN cache' = row.params /\ raced' = FALSE /\ unborn' = FALSE
               ELSE UNCHANGED <<cache, raced, unborn>>
  /\ UNCHANGED <<row, born, keys, tick, requestVars, shipVars, missed, late, requests, visits,
                 crashes>>

-----------------------------------------------------------------------------
Request(c) ==
  \/ \E p \in Params : Create(c, p)
  \/ CacheNew(c) \/ AddSession(c)
  \/ \E w \in Weathers : UpdateWeather(c, w)
  \/ \E sf \in SpreadingFactors : ReadRadio(c, {sf}, {})
  \/ \E tx \in Powers : ReadRadio(c, {}, {tx})
  \/ WriteRadio(c) \/ Refresh(c) \/ CacheParams(c) \/ BroadcastToNodes(c)
  \/ Stop(c) \/ StopRow(c) \/ KickSession(c) \/ RemoveSession(c)
  \/ ClearGeo(c) \/ ClearRoutes(c) \/ ClearSession(c)
  \/ ReadDelete(c) \/ DeleteRow(c) \/ RequestFails(c) \/ CacheFails(c)

Ship(n) ==
  \/ Admit(n) \/ Register(n) \/ ReadParams(n) \/ ReadParamsFails(n) \/ SendParams(n)
  \/ Unregister(n) \/ NodeDisconnected(n)
  \/ Ping(n) \/ UpsertPosition(n) \/ IncrStat(n)

Next ==
  \/ \E c \in Clients : Request(c)
  \/ \E n \in Ships : Ship(n)
  \/ Recompute \/ SaveTable \/ Crash \/ ResumeActive

Spec == Init /\ [][Next]_vars

-----------------------------------------------------------------------------
(* Properties.                                                             *)

(* Every variable has its type.                                            *)
TypeOK ==
  /\ row \in Rows \cup {NoRow}
  /\ cache \in Params \cup {NoParams}
  /\ geo \subseteq Ships /\ leaving \subseteq Ships /\ missed \subseteq Ships
  /\ {born, routes, stats, up, scheduled, raced, late, unborn} \subseteq BOOLEAN
  /\ tick \in {"idle", "save"}
  /\ pc \in [Clients -> {"idle", "cacheNew", "schedule", "radio", "refresh", "cache", "tell",
                         "stop", "kick", "remove", "clearGeo", "clearRoutes",
                         "clearState", "delete"}]
  /\ held \in [Clients -> Params \cup {NoParams}]
  /\ \A c \in Clients : pc[c] \in {"cacheNew", "cache", "tell"} => held[c] \in Params
  /\ sock \in [Ships -> {"out", "admitted", "on", "kicked"}]
  /\ join \in [Ships -> {"no", "read", "send"}]
  /\ carried \in [Ships -> Params \cup {NoParams}]
  /\ \A n \in Ships : join[n] = "send" => carried[n] \in Params
  /\ job \in [Ships -> {"no", "ping", "count"}]
  /\ told \in [Ships -> Params \cup {NoParams}]
  /\ requests \in 0 .. MaxRequests /\ visits \in 0 .. MaxVisits
  /\ crashes \in 0 .. MaxCrashes

(* "The engine reads the Redis cache": an active session's cache holds the *)
(* row's parameters once no request is between the two, after crashes and  *)
(* resumes too, unless the last write of the cache was an outdated one or  *)
(* failed.                                                                 *)
CacheCurrent ==
  up /\ Active /\ ~ raced /\ NoneAt({"cacheNew", "refresh", "cache"}) =>
    cache = row.params

(* "Syncs every connected client immediately", and a late joiner gets what *)
(* is cached: an online ship obeys the row's parameters when nothing is    *)
(* under way, unless its last update was shed, overtaken or never sent: a  *)
(* request failed after it changed the row, or NodeConnected could not     *)
(* read the cache and no broadcast came instead.                           *)
ToldCurrent ==
  Active /\ NoneAt({"refresh", "cache", "tell"}) =>
    \A n \in Ships \ missed :
      sock[n] = "on" /\ join[n] = "no" => told[n] = row.params

(* "Survive VPS reboots": a running server caches and schedules every      *)
(* active session, unless Create itself failed half-way.                   *)
Serving ==
  up /\ Active /\ ~ unborn /\ NoneAt({"cacheNew", "schedule"}) =>
    scheduled /\ cache # NoParams

(* "Clears the volatile Redis state": when the requests are done, a        *)
(* stopped session has no key and no scheduler, but for what a handler     *)
(* still in flight at the stop, or a failed deletion, left.                *)
StopCleans ==
  up /\ born /\ ~ Active /\ ~ late /\ NoneAt(Stopping) =>
    cache = NoParams /\ geo = {} /\ ~ routes /\ ~ stats /\ ~ scheduled

(* A stopped session is frozen: no late update, retried stop or resume     *)
(* changes its row; and an active one is never deleted.                    *)
RowLife ==
  [][/\ Stopped => row' \in {row, NoRow}
     /\ Active => row' # NoRow]_vars

(* Stop "notifies and disconnects every socket, and clears the volatile    *)
(* Redis state": once it is done, no ship is connected to the session.     *)
StopDisconnects ==
  Faults = {} /\ Stopped /\ NoneAt(Stopping) => \A n \in Ships : sock[n] # "on"
=============================================================================
