--------------------------- MODULE Sessions_proofs ---------------------------
(***************************************************************************)
(* The life of a session, for any number of clients and ships, any         *)
(* parameters, bounds and faults: what its row goes through, that cache,   *)
(* scheduler and ships follow it, and that a stop leaves nothing behind.   *)
(***************************************************************************)
EXTENDS Sessions, TLAPS

Places == {"idle", "cacheNew", "schedule", "radio", "refresh", "cache", "tell", "stop", "kick",
           "remove", "clearGeo", "clearRoutes", "clearState", "delete"}

(* The part of the types that the row depends on: a radio update carries   *)
(* whole parameters from its read of the row to its write.                 *)
RowType ==
  /\ row \in Rows \cup {NoRow}
  /\ pc \in [Clients -> Places]
  /\ held \in [Clients -> Params \cup {NoParams}]
  /\ \A c \in Clients : pc[c] = "radio" => held[c] \in Params

(* Ids are not used twice, and a request about to delete has read a        *)
(* stopped row, which no request makes active again.                       *)
RowInv ==
  /\ RowType
  /\ row # NoRow => born
  /\ \A c \in Clients : pc[c] = "delete" => born /\ ~ Active

(* What a row may go through in one step.                                  *)
RowStep ==
  /\ Stopped => row' \in {row, NoRow}
  /\ Active => row' # NoRow

(* Rows and parameters are records.                                        *)
LEMMA RowFields ==
  ASSUME NEW r \in Rows
  PROVE  r # NoRow /\ r.active \in BOOLEAN /\ r.params \in Params
BY SessionsAssumption DEF Rows

LEMMA ParamFields ==
  ASSUME NEW p \in Params
  PROVE  p.sf \in SpreadingFactors /\ p.tx \in Powers /\ p.weather \in Weathers
BY DEF Params

(* What the four statements on the row make of it.                         *)
LEMMA Inserted ==
  ASSUME NEW p \in Params
  PROVE  [params |-> p, active |-> TRUE] \in Rows
BY DEF Rows

LEMMA Deactivated ==
  ASSUME NEW r \in Rows
  PROVE  /\ [r EXCEPT !.active = FALSE] \in Rows
         /\ ~ [r EXCEPT !.active = FALSE].active
BY DEF Rows

LEMMA WeatherChanged ==
  ASSUME NEW r \in Rows, NEW w \in Weathers
  PROVE  /\ [r EXCEPT !.params.weather = w] \in Rows
         /\ [r EXCEPT !.params.weather = w].active = r.active
BY DEF Rows, Params

LEMMA RadioMerged ==
  ASSUME NEW p \in Params, NEW sf \in SpreadingFactors, NEW tx \in Powers
  PROVE  [p EXCEPT !.sf = sf, !.tx = tx] \in Params
BY DEF Params

LEMMA RadioChanged ==
  ASSUME NEW r \in Rows, NEW sf \in SpreadingFactors, NEW tx \in Powers
  PROVE  /\ [r EXCEPT !.params.sf = sf, !.params.tx = tx] \in Rows
         /\ [r EXCEPT !.params.sf = sf, !.params.tx = tx].active = r.active
BY DEF Rows, Params

(* A step that leaves row and born alone and moves one request anywhere    *)
(* but to the delete keeps the invariant.                                  *)
LEMMA Moved ==
  ASSUME RowInv, NEW c \in Clients, NEW l \in Places \ {"radio", "delete"},
         NEW p \in Params \cup {NoParams},
         row' = row, born' = born,
         pc' = [pc EXCEPT ![c] = l],
         held' = held \/ held' = [held EXCEPT ![c] = p]
  PROVE  RowInv' /\ RowStep
<1>1. row # NoRow => row' # NoRow
  OBVIOUS
<1>2. RowType'
  BY DEF RowInv, RowType
<1>3. (row # NoRow => born)' /\ (Active' <=> Active)
  BY DEF RowInv, Active
<1>4. \A d \in Clients : (pc[d] = "delete")' => pc[d] = "delete"
  BY DEF RowInv, RowType
<1> QED BY <1>1, <1>2, <1>3, <1>4 DEF RowInv, RowStep, Active

(* A step that touches neither the row nor a request.                      *)
LEMMA Elsewhere ==
  ASSUME RowInv, UNCHANGED <<row, born, pc, held>>
  PROVE  RowInv' /\ RowStep
BY DEF RowInv, RowType, RowStep, Active

(* The steps of requests that write the row or lead to a write.            *)
LEMMA CreateStep ==
  ASSUME RowInv, NEW c \in Clients, NEW p \in Params, Create(c, p)
  PROVE  RowInv' /\ RowStep
<1>1. row = NoRow /\ row' = [params |-> p, active |-> TRUE] /\ born' = TRUE
  BY DEF Create, RowInv
<1>2. pc' = [pc EXCEPT ![c] = "cacheNew"] /\ held' = [held EXCEPT ![c] = p]
  BY DEF Create, Holding, Goto
<1>3. row' \in Rows /\ row' # NoRow
  BY <1>1, Inserted, RowFields
<1>4. RowType'
  BY <1>2, <1>3 DEF RowInv, RowType, Places
<1>5. \A d \in Clients : pc'[d] # "delete"
  BY <1>1, <1>2 DEF Create, RowInv, RowType
<1> QED BY <1>1, <1>3, <1>4, <1>5 DEF RowInv, RowStep, Stopped, Active

(* A change to an active row that leaves it active.                        *)
LEMMA Changed ==
  ASSUME RowInv, Active, row' \in Rows, row'.active = row.active, born' = born,
         NEW c \in Clients, NEW p \in Params \cup {NoParams},
         pc' = [pc EXCEPT ![c] = "refresh"],
         held' = held \/ held' = [held EXCEPT ![c] = p]
  PROVE  RowInv' /\ RowStep
<1>1. row' # NoRow
  BY RowFields
<1>2. RowType'
  BY DEF RowInv, RowType, Places
<1>3. born' /\ \A d \in Clients : pc'[d] # "delete"
  BY DEF RowInv, RowType, Active
<1> QED BY <1>1, <1>2, <1>3 DEF RowInv, RowStep, Stopped, Active

LEMMA UpdateWeatherStep ==
  ASSUME RowInv, NEW c \in Clients, NEW w \in Weathers, UpdateWeather(c, w)
  PROVE  RowInv' /\ RowStep
<1>1. Active /\ row' = [row EXCEPT !.params.weather = w] /\ born' = born
      /\ pc' = [pc EXCEPT ![c] = "refresh"] /\ held' = held
  BY DEF UpdateWeather, Begin, Goto
<1>2. row \in Rows
  BY <1>1 DEF Active, RowInv, RowType
<1>3. row' \in Rows /\ row'.active = row.active
  BY <1>1, <1>2, WeatherChanged
<1> QED BY <1>1, <1>3, Changed

LEMMA ReadRadioStep ==
  ASSUME RowInv, NEW c \in Clients,
         NEW sfs \in SUBSET SpreadingFactors, NEW txs \in SUBSET Powers, ReadRadio(c, sfs, txs)
  PROVE  RowInv' /\ RowStep
<1>1. Active /\ row' = row /\ born' = born /\ pc[c] = "idle"
  BY DEF ReadRadio, Begin
<1>2. row \in Rows /\ row.params \in Params
  BY <1>1, RowFields DEF Active, RowInv, RowType
<1>3. PICK sf \in IF sfs = {} THEN {row.params.sf} ELSE sfs,
           tx \in IF txs = {} THEN {row.params.tx} ELSE txs :
        Holding(c, "radio", [row.params EXCEPT !.sf = sf, !.tx = tx])
  BY DEF ReadRadio
<1>4. sf \in SpreadingFactors /\ tx \in Powers
  BY <1>2, ParamFields
<1>5. [row.params EXCEPT !.sf = sf, !.tx = tx] \in Params
  BY <1>2, <1>4, RadioMerged
<1> DEFINE p == [row.params EXCEPT !.sf = sf, !.tx = tx]
<1>6. pc' = [pc EXCEPT ![c] = "radio"] /\ held' = [held EXCEPT ![c] = p] /\ p \in Params
  BY <1>3, <1>5 DEF Holding, Goto
<1> HIDE DEF p
<1>7. RowType'
  BY <1>1, <1>6 DEF RowInv, RowType, Places
<1>8. \A d \in Clients : pc'[d] = "delete" => pc[d] = "delete"
  BY <1>6 DEF RowInv, RowType
<1> QED BY <1>1, <1>7, <1>8 DEF RowInv, RowStep, Stopped, Active

LEMMA RadioWritten ==
  ASSUME RowInv, NEW c \in Clients, WriteRadio(c), Active
  PROVE  /\ row' \in Rows /\ row'.active = row.active
         /\ pc' = [pc EXCEPT ![c] = "refresh"] /\ held' = [held EXCEPT ![c] = NoParams]
<1>1. row' = [row EXCEPT !.params.sf = held[c].sf, !.params.tx = held[c].tx]
      /\ pc' = [pc EXCEPT ![c] = "refresh"] /\ held' = [held EXCEPT ![c] = NoParams]
  BY DEF WriteRadio, Holding, Goto
<1>2. row \in Rows /\ held[c].sf \in SpreadingFactors /\ held[c].tx \in Powers
  BY ParamFields DEF WriteRadio, Active, RowInv, RowType
<1> QED BY <1>1, <1>2, RadioChanged

LEMMA WriteRadioStep ==
  ASSUME RowInv, NEW c \in Clients, WriteRadio(c)
  PROVE  RowInv' /\ RowStep
<1>1. NoParams \in Params \cup {NoParams} /\ born' = born
  BY DEF WriteRadio
<1>2. CASE Active
  BY <1>1, <1>2, RadioWritten, Changed
<1>3. CASE ~ Active
  <2>1. row' = row /\ pc' = [pc EXCEPT ![c] = "idle"]
        /\ held' = [held EXCEPT ![c] = NoParams]
    BY <1>3 DEF WriteRadio, Holding, Goto
  <2> QED BY <1>1, <2>1, Moved DEF Places
<1> QED BY <1>2, <1>3

LEMMA StopRowStep ==
  ASSUME RowInv, NEW c \in Clients, StopRow(c)
  PROVE  RowInv' /\ RowStep
<1>1. born' = born /\ held' = held
  BY DEF StopRow
<1>2. CASE Active
  <2>1. row' = [row EXCEPT !.active = FALSE] /\ pc' = [pc EXCEPT ![c] = "kick"]
    BY <1>2 DEF StopRow, Goto
  <2>2. row \in Rows /\ born
    BY <1>2 DEF Active, RowInv, RowType
  <2>3. row' \in Rows /\ ~ row'.active /\ row' # NoRow
    BY <2>1, <2>2, Deactivated, RowFields
  <2>4. RowType'
    BY <1>1, <2>1, <2>3 DEF RowInv, RowType, Places
  <2>5. born' /\ ~ Active'
    BY <1>1, <2>2, <2>3 DEF Active
  <2> QED BY <1>2, <2>3, <2>4, <2>5 DEF RowInv, RowStep, Stopped, Active
<1>3. CASE ~ Active
  <2>1. row' = row /\ pc' = [pc EXCEPT ![c] = "idle"]
    BY <1>3 DEF StopRow, Goto
  <2> QED BY <1>1, <2>1, Moved DEF Places
<1> QED BY <1>2, <1>3

LEMMA ReadDeleteStep ==
  ASSUME RowInv, NEW c \in Clients, ReadDelete(c)
  PROVE  RowInv' /\ RowStep
<1>1. Stopped /\ row' = row /\ born' = born /\ pc' = [pc EXCEPT ![c] = "delete"]
      /\ held' = held
  BY DEF ReadDelete, Begin, Goto
<1>2. born /\ ~ Active
  BY <1>1 DEF RowInv, Stopped, Active
<1>3. RowType'
  BY <1>1 DEF RowInv, RowType, Places
<1> QED BY <1>1, <1>2, <1>3 DEF RowInv, RowStep, Stopped, Active

LEMMA DeleteRowStep ==
  ASSUME RowInv, NEW c \in Clients, DeleteRow(c)
  PROVE  RowInv' /\ RowStep
<1>1. row' = NoRow /\ born' = born /\ pc' = [pc EXCEPT ![c] = "idle"] /\ held' = held
      /\ pc[c] = "delete"
  BY DEF DeleteRow, Goto
<1>2. ~ Active /\ ~ Active' /\ born
  BY <1>1 DEF RowInv, Active
<1>3. RowType'
  BY <1>1 DEF RowInv, RowType, Places
<1> QED BY <1>1, <1>2, <1>3 DEF RowInv, RowStep, Stopped

(* Every other step of a request.                                          *)
LEMMA RequestElse ==
  ASSUME RowInv, NEW c \in Clients,
         \/ CacheNew(c) \/ AddSession(c) \/ Refresh(c) \/ CacheParams(c)
         \/ BroadcastToNodes(c) \/ Stop(c) \/ KickSession(c) \/ RemoveSession(c)
         \/ ClearGeo(c) \/ ClearRoutes(c) \/ ClearSession(c) \/ RequestFails(c)
         \/ CacheFails(c)
  PROVE  RowInv' /\ RowStep
<1>1. row' = row /\ born' = born
  BY DEF CacheNew, AddSession, Refresh, CacheParams, BroadcastToNodes, Stop, Begin,
         KickSession, RemoveSession, ClearGeo, ClearRoutes, ClearSession, RequestFails,
         CacheFails
<1>2. row # NoRow => row.params \in Params
  BY RowFields DEF RowInv, RowType
<1>3. \E l \in Places \ {"radio", "delete"}, p \in Params \cup {NoParams} :
        /\ pc' = [pc EXCEPT ![c] = l]
        /\ held' = held \/ held' = [held EXCEPT ![c] = p]
  <2>1. CASE CacheNew(c) \/ CacheParams(c) \/ Stop(c) \/ KickSession(c)
             \/ RemoveSession(c) \/ ClearGeo(c) \/ ClearRoutes(c) \/ ClearSession(c)
    BY <2>1 DEF CacheNew, CacheParams, Stop, KickSession, RemoveSession, ClearGeo,
                ClearRoutes, ClearSession, Goto, Places
  <2>2. CASE AddSession(c) \/ BroadcastToNodes(c) \/ RequestFails(c) \/ CacheFails(c)
    BY <2>2 DEF AddSession, BroadcastToNodes, RequestFails, CacheFails, Holding, Goto, Places
  <2>3. CASE Refresh(c)
    BY <1>2, <2>3 DEF Refresh, Holding, Goto, Places
  <2> QED BY <2>1, <2>2, <2>3
<1> QED BY <1>1, <1>3, Moved

(* The ships, the scheduler and the server touch no row.                   *)
LEMMA CrashStep ==
  ASSUME RowInv, Crash
  PROVE  RowInv' /\ RowStep
<1>1. row' = row /\ born' = born /\ \A c \in Clients : pc'[c] = "idle"
  BY DEF Crash
<1>2. RowType'
  BY <1>1 DEF Crash, RowInv, RowType, Places
<1> QED BY <1>1, <1>2 DEF RowInv, RowStep, Stopped, Active

LEMMA ElseStep ==
  ASSUME RowInv, (\E n \in Ships : Ship(n)) \/ Recompute \/ SaveTable \/ ResumeActive
                   \/ UNCHANGED vars
  PROVE  RowInv' /\ RowStep
<1>1. UNCHANGED <<row, born, pc, held>>
  BY DEF Ship, Admit, Register, ReadParams, ReadParamsFails, SendParams, Unregister,
         NodeDisconnected, Ping,
         UpsertPosition, IncrStat, Recompute, SaveTable, ResumeActive, Visit, requestVars,
         vars
<1> QED BY <1>1, Elsewhere

LEMMA NextStep == RowInv /\ [Next]_vars => RowInv' /\ RowStep
<1> SUFFICES ASSUME RowInv, [Next]_vars PROVE RowInv' /\ RowStep
  OBVIOUS
<1>1. ASSUME NEW c \in Clients, Request(c) PROVE RowInv' /\ RowStep
  <2>1. CASE \E sf \in SpreadingFactors : ReadRadio(c, {sf}, {})
    BY <2>1, ReadRadioStep
  <2>2. CASE \E tx \in Powers : ReadRadio(c, {}, {tx})
    BY <2>2, ReadRadioStep
  <2> QED BY <1>1, <2>1, <2>2, CreateStep, UpdateWeatherStep, WriteRadioStep, StopRowStep,
             ReadDeleteStep, DeleteRowStep, RequestElse DEF Request
<1> QED BY <1>1, CrashStep, ElseStep DEF Next

LEMMA InitRow == Init => RowInv
<1> SUFFICES ASSUME Init PROVE RowInv
  OBVIOUS
<1>1. \/ row = NoRow
      \/ born /\ (\E p \in Params : row = [params |-> p, active |-> TRUE])
  BY DEF Init
<1>2. row \in Rows \cup {NoRow} /\ (row # NoRow => born)
  BY <1>1, Inserted
<1>3. pc = [c \in Clients |-> "idle"] /\ held = [c \in Clients |-> NoParams]
  BY DEF Init
<1> QED BY <1>2, <1>3 DEF RowInv, RowType, Places

(* A stopped session is frozen and an active one is never deleted,         *)
(* whatever Create, UpdateWeather, UpdateRadioParams, Stop, Delete and     *)
(* ResumeActive do at the same time and wherever they fail.                *)
THEOREM StoppedIsFrozen == Spec => RowLife
<1>1. RowInv /\ [Next]_vars => RowInv'
  BY NextStep
<1>2. RowInv /\ [Next]_vars => [/\ Stopped => row' \in {row, NoRow}
                                /\ Active => row' # NoRow]_vars
  BY NextStep DEF RowStep
<1> QED BY InitRow, <1>1, <1>2, PTL DEF Spec, RowLife

-----------------------------------------------------------------------------
(* Every variable has its type.                                            *)

(* The stores, the server and the bounds; a request between its read of    *)
(* the row and its broadcast carries parameters.                           *)
StoresOK ==
  /\ cache \in Params \cup {NoParams}
  /\ geo \subseteq Ships /\ leaving \subseteq Ships /\ missed \subseteq Ships
  /\ born \in BOOLEAN /\ routes \in BOOLEAN /\ stats \in BOOLEAN
  /\ up \in BOOLEAN /\ scheduled \in BOOLEAN
  /\ raced \in BOOLEAN /\ late \in BOOLEAN /\ unborn \in BOOLEAN
  /\ tick \in {"idle", "save"}
  /\ \A c \in Clients : pc[c] \in {"cacheNew", "cache", "tell"} => held[c] \in Params
  /\ requests \in 0 .. MaxRequests /\ visits \in 0 .. MaxVisits
  /\ crashes \in 0 .. MaxCrashes

(* The ships; a NodeConnected that found parameters carries them.          *)
ShipsOK ==
  /\ sock \in [Ships -> {"out", "admitted", "on", "kicked"}]
  /\ join \in [Ships -> {"no", "read", "send"}]
  /\ carried \in [Ships -> Params \cup {NoParams}]
  /\ \A n \in Ships : join[n] = "send" => carried[n] \in Params
  /\ job \in [Ships -> {"no", "ping", "count"}]
  /\ told \in [Ships -> Params \cup {NoParams}]

(* A step keeps the types.                                                 *)
LEMMA ShipsStep == RowInv /\ StoresOK /\ ShipsOK /\ [Next]_vars => ShipsOK'
<1> SUFFICES ASSUME RowInv, StoresOK, ShipsOK, [Next]_vars PROVE ShipsOK'
  OBVIOUS
<1>1. CASE UNCHANGED shipVars
  BY <1>1 DEF shipVars, ShipsOK
<1>2. ASSUME NEW c \in Clients, Request(c) PROVE ShipsOK'
  <2>1. CASE BroadcastToNodes(c)
    BY <2>1 DEF BroadcastToNodes, Tell, StoresOK, ShipsOK
  <2>2. CASE KickSession(c)
    BY <2>2 DEF KickSession, ShipsOK
  <2> QED BY <1>1, <1>2, <2>1, <2>2
      DEF Request, Create, CacheNew, AddSession, UpdateWeather, ReadRadio, WriteRadio, Refresh,
       CacheParams, Stop, StopRow, RemoveSession, ClearGeo, ClearRoutes, ClearSession, ReadDelete,
       DeleteRow, RequestFails, CacheFails, Begin
<1>3. ASSUME NEW n \in Ships, Ship(n) PROVE ShipsOK'
  <2>1. CASE Admit(n) \/ Register(n)
    BY <2>1 DEF Admit, Register, ShipsOK
  <2>2. CASE ReadParams(n) \/ ReadParamsFails(n)
    BY <2>2 DEF ReadParams, ReadParamsFails, StoresOK, ShipsOK
  <2>3. CASE SendParams(n)
    BY <2>3 DEF SendParams, Tell, ShipsOK
  <2>4. CASE Unregister(n) \/ NodeDisconnected(n)
    BY <2>4 DEF Unregister, NodeDisconnected, ShipsOK
  <2>5. CASE Ping(n) \/ UpsertPosition(n) \/ IncrStat(n)
    BY <2>5 DEF Ping, UpsertPosition, IncrStat, ShipsOK
  <2> QED BY <1>3, <2>1, <2>2, <2>3, <2>4, <2>5 DEF Ship
<1>4. CASE Crash
  BY <1>4 DEF Crash, ShipsOK
<1>5. CASE Recompute \/ SaveTable \/ ResumeActive \/ UNCHANGED vars
  BY <1>1, <1>5 DEF Recompute, SaveTable, ResumeActive, vars
<1> QED BY <1>2, <1>3, <1>4, <1>5 DEF Next

LEMMA StoresStep == RowInv /\ StoresOK /\ ShipsOK /\ [Next]_vars => StoresOK'
<1> SUFFICES ASSUME RowInv, StoresOK, ShipsOK, [Next]_vars PROVE StoresOK'
  OBVIOUS
<1> USE SessionsAssumption
<1>1. row # NoRow => row.params \in Params
  BY RowFields DEF RowInv, RowType
<1>2. ASSUME NEW c \in Clients, Request(c) PROVE StoresOK'
  <2>1. pc \in [Clients -> Places] /\ held \in [Clients -> Params \cup {NoParams}]
    BY DEF RowInv, RowType
  <2>2. ASSUME NEW p \in Params, Create(c, p) PROVE StoresOK'
    BY <2>1, <2>2 DEF Create, Holding, Goto, StoresOK, keys, shipVars
  <2>3. CASE CacheNew(c) \/ CacheParams(c)
    BY <2>1, <2>3 DEF CacheNew, CacheParams, SaveParams, Holding, Goto, StoresOK, rest,
       keys, shipVars
  <2>4. CASE AddSession(c) \/ RemoveSession(c) \/ KickSession(c)
    <3>1. CASE AddSession(c)
      BY <2>1, <3>1 DEF AddSession, Holding, Goto, StoresOK, rest, keys, shipVars
    <3>2. CASE RemoveSession(c)
      BY <2>1, <3>2 DEF RemoveSession, Holding, Goto, StoresOK, rest, keys, shipVars
    <3>3. CASE KickSession(c)
      BY <2>1, <3>3 DEF KickSession, Holding, Goto, StoresOK, rest, keys, shipVars
    <3> QED BY <2>4, <3>1, <3>2, <3>3
  <2>5. ASSUME NEW w \in Weathers, UpdateWeather(c, w) PROVE StoresOK'
    BY <2>1, <2>5 DEF UpdateWeather, Begin, Goto, StoresOK, rest, keys, shipVars
  <2>6. ASSUME NEW sfs, NEW txs, ReadRadio(c, sfs, txs) PROVE StoresOK'
    BY <2>1, <2>6 DEF ReadRadio, Begin, Holding, Goto, StoresOK, rest, keys, shipVars
  <2>7. CASE WriteRadio(c)
    BY <2>1, <2>7 DEF WriteRadio, Begin, Holding, Goto, StoresOK, rest, keys, shipVars
  <2>8. CASE Refresh(c)
    BY <1>1, <2>1, <2>8 DEF Refresh, Begin, Holding, Goto, StoresOK, rest, keys, shipVars
  <2>9. CASE BroadcastToNodes(c)
    BY <2>1, <2>9 DEF BroadcastToNodes, Tell, Holding, Goto, StoresOK, rest, keys, shipVars
  <2>10. CASE Stop(c) \/ ReadDelete(c)
    BY <2>1, <2>10 DEF Stop, ReadDelete, Begin, Goto, StoresOK, rest, keys, shipVars
  <2>11. CASE StopRow(c) \/ DeleteRow(c)
    BY <2>1, <2>11 DEF StopRow, DeleteRow, Begin, Goto, StoresOK, rest, keys, shipVars
  <2>12. CASE ClearGeo(c) \/ ClearRoutes(c) \/ ClearSession(c)
    <3>1. CASE ClearGeo(c)
      BY <2>1, <3>1 DEF ClearGeo, Goto, StoresOK, rest, keys, shipVars
    <3>2. CASE ClearRoutes(c)
      BY <2>1, <3>2 DEF ClearRoutes, Goto, StoresOK, rest, keys, shipVars
    <3>3. CASE ClearSession(c)
      BY <2>1, <3>3 DEF ClearSession, Goto, StoresOK, rest, keys, shipVars
    <3> QED BY <2>12, <3>1, <3>2, <3>3
  <2>13. CASE RequestFails(c)
    BY <2>1, <2>13 DEF RequestFails, Holding, Goto, StoresOK, rest, keys, shipVars
  <2>14. CASE CacheFails(c)
    BY <2>1, <2>14 DEF CacheFails, SaveParams, Holding, Goto, StoresOK, rest, keys, shipVars
  <2> QED BY <1>2, <2>2, <2>3, <2>4, <2>5, <2>6, <2>7, <2>8, <2>9, <2>10, <2>11, <2>12,
             <2>13, <2>14
          DEF Request
<1>3. ASSUME NEW n \in Ships, Ship(n) PROVE StoresOK'
  <2>1. CASE Admit(n) \/ Register(n) \/ ReadParams(n) \/ Unregister(n) \/ NodeDisconnected(n)
    BY <2>1 DEF Admit, Visit, Register, ReadParams, Unregister, NodeDisconnected, StoresOK,
       rest, keys, requestVars
  <2>2. CASE SendParams(n)
    BY <2>2 DEF SendParams, Tell, StoresOK, rest, keys, requestVars
  <2>3. CASE Ping(n) \/ UpsertPosition(n) \/ IncrStat(n)
    <3>1. CASE Ping(n)
      BY <3>1 DEF Ping, Visit, StoresOK, rest, keys, requestVars
    <3>2. CASE UpsertPosition(n)
      BY <3>2 DEF UpsertPosition, StoresOK, rest, keys, requestVars
    <3>3. CASE IncrStat(n)
      BY <3>3 DEF IncrStat, StoresOK, rest, keys, requestVars
    <3> QED BY <2>3, <3>1, <3>2, <3>3
  <2>4. CASE ReadParamsFails(n)
    BY <2>4 DEF ReadParamsFails, StoresOK, rest, keys, requestVars
  <2> QED BY <1>3, <2>1, <2>2, <2>3, <2>4 DEF Ship
<1>4. CASE Crash
  <2>1. late' = (late \/ ~ NoneAt(Stopping)) /\ \A c \in Clients : pc'[c] = "idle"
    BY <1>4 DEF Crash
  <2>2. late' \in BOOLEAN
    BY <2>1 DEF StoresOK
  <2>3. crashes' \in 0 .. MaxCrashes
    BY <1>4 DEF Crash, StoresOK
  <2>4. UNCHANGED <<cache, geo, routes, stats, born, raced, missed, unborn, requests, visits>>
        /\ up' = FALSE /\ scheduled' = FALSE /\ tick' = "idle" /\ leaving' = {}
    BY <1>4 DEF Crash, keys
  <2> QED BY <2>1, <2>2, <2>3, <2>4 DEF StoresOK
<1>5. CASE Recompute \/ SaveTable
  <2>1. CASE Recompute
    BY <2>1 DEF Recompute, Visit, StoresOK, rest, keys, requestVars, shipVars
  <2>2. CASE SaveTable
    BY <2>2 DEF SaveTable, StoresOK, rest, keys, requestVars, shipVars
  <2> QED BY <1>5, <2>1, <2>2
<1>6. CASE ResumeActive
  BY <1>1, <1>6 DEF ResumeActive, Active, StoresOK, keys, requestVars, shipVars
<1>7. CASE UNCHANGED vars
  BY <1>7 DEF vars, StoresOK, rest, keys, requestVars, shipVars
<1> QED BY <1>2, <1>3, <1>4, <1>5, <1>6, <1>7 DEF Next

-----------------------------------------------------------------------------
(* The types and the row, which every other invariant rests on.            *)
Shape == RowInv /\ StoresOK /\ ShipsOK

LEMMA ShapeStep == Shape /\ [Next]_vars => Shape'
BY NextStep, StoresStep, ShipsStep DEF Shape

(* What a step may rely on.                                                *)
LEMMA ShapeFacts ==
  ASSUME Shape
  PROVE  /\ pc \in [Clients -> Places] /\ held \in [Clients -> Params \cup {NoParams}]
         /\ \A c \in Clients : pc[c] \in {"cacheNew", "cache", "tell"} => held[c] \in Params
         /\ sock \in [Ships -> {"out", "admitted", "on", "kicked"}]
         /\ join \in [Ships -> {"no", "read", "send"}]
         /\ \A n \in Ships : join[n] = "send" => carried[n] \in Params
         /\ row # NoRow => born /\ row \in Rows /\ row.params \in Params
         /\ Active => born
         /\ \A c \in Clients : pc[c] = "delete" => ~ Active
BY RowFields DEF Shape, RowInv, RowType, StoresOK, ShipsOK, Active

(* The clean-up of Stop runs on a session whose row says it is stopped.    *)
StopIsLate == \A c \in Clients : pc[c] \in Stopping => born /\ ~ Active

(* Create caches the parameters before it schedules the session.           *)
ScheduledFromCache == \A c \in Clients : pc[c] = "schedule" /\ Active => cache # NoParams

(* Before the insert there is nothing: no key, no socket, no request.      *)
Untouched ==
  ~ born => /\ cache = NoParams
            /\ \A n \in Ships : sock[n] = "out" /\ join[n] = "no"
            /\ \A c \in Clients : pc[c] = "idle"

(* A ship is let in by the cached parameters, and only a stop clears them. *)
AdmittedFromCache ==
  Active => \A n \in Ships : sock[n] # "out" \/ join[n] # "no" => cache # NoParams

Life == StopIsLate /\ ScheduledFromCache /\ Untouched /\ AdmittedFromCache

(* A step keeps the life of the session in order.                          *)
LEMMA LifeStep == Shape /\ Life /\ [Next]_vars => Life'
<1> SUFFICES ASSUME Shape, Life, [Next]_vars PROVE Life'
  OBVIOUS
<1> USE SessionsAssumption DEF Life, StopIsLate, ScheduledFromCache, Untouched, AdmittedFromCache
<1>1. /\ pc \in [Clients -> Places] /\ held \in [Clients -> Params \cup {NoParams}]
      /\ \A c \in Clients : pc[c] \in {"cacheNew", "cache", "tell"} => held[c] \in Params
      /\ sock \in [Ships -> {"out", "admitted", "on", "kicked"}]
      /\ join \in [Ships -> {"no", "read", "send"}]
      /\ row # NoRow => born
      /\ row # NoRow => row.params \in Params
      /\ Active => born
  BY ShapeFacts
<1>2. ASSUME NEW c \in Clients, Request(c) PROVE Life'
  <2>1. ASSUME NEW p \in Params, Create(c, p) PROVE Life'
    <3>1. /\ cache = NoParams /\ (\A n \in Ships : sock[n] = "out" /\ join[n] = "no")
          /\ \A d \in Clients : pc[d] = "idle"
      BY <2>1 DEF Create
    <3>2. pc' = [pc EXCEPT ![c] = "cacheNew"] /\ born' /\ UNCHANGED <<cache, sock, join>>
      BY <2>1 DEF Create, Holding, Goto, shipVars
    <3> QED BY <1>1, <3>1, <3>2 DEF Stopping
  <2>2. CASE CacheNew(c) \/ CacheParams(c)
    <3>1. /\ born /\ cache' \in Params
          /\ pc' = [pc EXCEPT ![c] = "schedule"] \/ pc' = [pc EXCEPT ![c] = "tell"]
          /\ UNCHANGED <<row, born, sock, join>>
      BY <1>1, <2>2 DEF CacheNew, CacheParams, SaveParams, Goto, shipVars
    <3> QED BY <1>1, <3>1 DEF Stopping, Active
  <2>3. CASE AddSession(c) \/ RemoveSession(c)
    BY <1>1, <2>3 DEF AddSession, RemoveSession, Holding, Goto, shipVars, Stopping, Active
  <2>4. CASE KickSession(c)
    BY <1>1, <2>4 DEF KickSession, Holding, Goto, shipVars, Stopping, Active
  <2>5. ASSUME NEW w \in Weathers, UpdateWeather(c, w) PROVE Life'
    BY <1>1, <2>5 DEF UpdateWeather, Begin, Goto, shipVars, Stopping
  <2>6. ASSUME NEW sfs, NEW txs, ReadRadio(c, sfs, txs) PROVE Life'
    BY <1>1, <2>6 DEF ReadRadio, Begin, Holding, Goto, shipVars, Stopping, Active
  <2>7. CASE WriteRadio(c)
    <3>1. CASE Active
      BY <1>1, <2>7, <3>1 DEF WriteRadio, Begin, Holding, Goto, shipVars, Stopping
    <3>2. CASE ~Active
      BY <1>1, <2>7, <3>2 DEF WriteRadio, Begin, Holding, Goto, shipVars, Stopping, Active
    <3> QED BY <3>1, <3>2
  <2>8. CASE Refresh(c)
    BY <1>1, <2>8 DEF Refresh, Holding, Goto, shipVars, Stopping, Active
  <2>9. CASE BroadcastToNodes(c)
    BY <1>1, <2>9 DEF BroadcastToNodes, Holding, Goto, Stopping, Active
  <2>10. CASE Stop(c)
    BY <1>1, <2>10 DEF Stop, Begin, Goto, shipVars, Stopping, Active
  <2>11. CASE ReadDelete(c)
    BY <1>1, <2>11 DEF ReadDelete, Begin, Goto, shipVars, Stopping, Active, Stopped
  <2>12. CASE StopRow(c)
    <3>1. CASE Active
      <4>1. row' = [row EXCEPT !.active = FALSE] /\ row \in Rows /\ born
        BY <1>1, <2>12, <3>1 DEF StopRow, Active, Shape, RowInv, RowType
      <4>2. ~ Active'
        BY <4>1, Deactivated DEF Active
      <4> QED BY <2>12, <3>1, <4>1, <4>2 DEF StopRow, Goto, shipVars
    <3>2. CASE ~ Active
      BY <1>1, <2>12, <3>2 DEF StopRow, Goto, shipVars, Stopping, Active
    <3> QED BY <3>1, <3>2
  <2>13. CASE DeleteRow(c)
    BY <1>1, <2>13 DEF DeleteRow, Begin, Goto, shipVars, Stopping, Active
  <2>14. CASE ClearGeo(c) \/ ClearRoutes(c) \/ ClearSession(c)
    BY <1>1, <2>14 DEF ClearGeo, ClearRoutes, ClearSession, Begin, Goto, shipVars, Stopping,
       Active
  <2>15. CASE RequestFails(c)
    BY <1>1, <2>15 DEF RequestFails, Holding, Goto, shipVars, Stopping, Active
  <2>16. CASE CacheFails(c)
    <3>1. /\ born /\ cache' \in Params /\ pc' = [pc EXCEPT ![c] = "idle"]
          /\ UNCHANGED <<row, born, sock, join>>
      BY <1>1, <2>16 DEF CacheFails, SaveParams, Holding, Goto, shipVars
    <3> QED BY <1>1, <3>1 DEF Stopping, Active
  <2> QED BY <1>2, <2>1, <2>2, <2>3, <2>4, <2>5, <2>6, <2>7, <2>8, <2>9, <2>10, <2>11,
             <2>12, <2>13, <2>14, <2>15, <2>16 DEF Request
<1>3. ASSUME NEW n \in Ships, Ship(n) PROVE Life'
  <2>1. CASE Admit(n) \/ Register(n) \/ ReadParams(n) \/ Unregister(n) \/ NodeDisconnected(n)
    BY <1>1, <2>1 DEF Admit, Visit, Register, ReadParams, Unregister, NodeDisconnected,
       requestVars, Active
  <2>2. CASE SendParams(n)
    BY <1>1, <2>2 DEF SendParams, requestVars, Active
  <2>3. CASE Ping(n) \/ UpsertPosition(n) \/ IncrStat(n)
    BY <1>1, <2>3 DEF Ping, Visit, UpsertPosition, IncrStat, requestVars, Active
  <2>4. CASE ReadParamsFails(n)
    BY <1>1, <2>4 DEF ReadParamsFails, requestVars, Active
  <2> QED BY <1>3, <2>1, <2>2, <2>3, <2>4 DEF Ship
<1>4. CASE Crash
  BY <1>4 DEF Crash, Stopping, Active
<1>5. CASE Recompute \/ SaveTable
  BY <1>5 DEF Recompute, SaveTable, requestVars, shipVars, Active
<1>6. CASE ResumeActive
  BY <1>1, <1>6 DEF ResumeActive, Active, keys, requestVars, shipVars
<1>7. CASE UNCHANGED vars
  BY <1>7 DEF vars, requestVars, shipVars, Active
<1> QED BY <1>2, <1>3, <1>4, <1>5, <1>6, <1>7 DEF Next

(* The row and the cache: what moves the row on (Create, UpdateWeather,    *)
(* UpdateRadioParams) leads the request to a write of the cache, and a     *)
(* write of something else sets raced.                                     *)
LEMMA CacheStep == Shape /\ Life /\ CacheCurrent /\ [Next]_vars => CacheCurrent'
<1> SUFFICES ASSUME Shape, Life, CacheCurrent, [Next]_vars PROVE CacheCurrent'
  OBVIOUS
<1> USE ShapeFacts DEF CacheCurrent, NoneAt
<1>1. ASSUME NEW c \in Clients, Request(c) PROVE CacheCurrent'
  <2>1. ASSUME NEW p \in Params, Create(c, p) PROVE CacheCurrent'
    BY <2>1 DEF Create, Holding, Goto
  <2>2. CASE CacheNew(c) \/ CacheParams(c)
    BY <2>2 DEF CacheNew, CacheParams, SaveParams, Goto, Active
  <2>3. CASE AddSession(c) \/ KickSession(c) \/ RemoveSession(c) \/ BroadcastToNodes(c)
    BY <2>3 DEF AddSession, RemoveSession, KickSession, BroadcastToNodes, Holding, Goto,
       Active
  <2>4. ASSUME NEW w \in Weathers, UpdateWeather(c, w) PROVE CacheCurrent'
    BY <2>4 DEF UpdateWeather, Begin, Goto
  <2>5. ASSUME NEW sfs, NEW txs, ReadRadio(c, sfs, txs) PROVE CacheCurrent'
    BY <2>5 DEF ReadRadio, Begin, Holding, Goto, Active
  <2>6. CASE WriteRadio(c)
    <3>1. CASE Active
      BY <2>6, <3>1 DEF WriteRadio, Holding, Goto
    <3>2. CASE ~ Active
      BY <2>6, <3>2 DEF WriteRadio, Active
    <3> QED BY <3>1, <3>2
  <2>7. CASE Refresh(c)
    BY <2>7 DEF Refresh, Holding, Goto, Active
  <2>8. CASE Stop(c) \/ ReadDelete(c)
    BY <2>8 DEF Stop, ReadDelete, Begin, Goto, Active
  <2>9. CASE StopRow(c)
    <3>1. ~ Active'
      BY <2>9, Deactivated DEF StopRow, Active
    <3> QED BY <3>1
  <2>10. CASE DeleteRow(c)
    BY <2>10 DEF DeleteRow, Active
  <2>11. CASE ClearGeo(c) \/ ClearRoutes(c)
    BY <2>11 DEF ClearGeo, ClearRoutes, Goto, Active
  <2>12. CASE ClearSession(c)
    BY <2>12 DEF ClearSession, Stopping, Life, StopIsLate, Active
  <2>13. CASE RequestFails(c)
    BY <2>13 DEF RequestFails, Holding, Goto, Active
  <2>14. CASE CacheFails(c)
    BY <2>14 DEF CacheFails, SaveParams, Holding, Goto, Active
  <2> QED BY <1>1, <2>1, <2>2, <2>3, <2>4, <2>5, <2>6, <2>7, <2>8, <2>9, <2>10, <2>11,
             <2>12, <2>13, <2>14 DEF Request
<1>2. ASSUME NEW n \in Ships, Ship(n) PROVE CacheCurrent'
  BY <1>2 DEF Ship, Admit, Register, ReadParams, ReadParamsFails, SendParams, Unregister,
         NodeDisconnected, Ping,
         UpsertPosition, IncrStat, Visit, requestVars, Active
<1>3. CASE Crash
  BY <1>3 DEF Crash
<1>4. CASE Recompute \/ SaveTable \/ UNCHANGED vars
  BY <1>4 DEF Recompute, SaveTable, Visit, requestVars, Active, vars
<1>5. CASE ResumeActive
  BY <1>5 DEF ResumeActive, Active
<1> QED BY <1>1, <1>2, <1>3, <1>4, <1>5 DEF Next

(* The cache and the scheduler of an active session: Stop's clean-up finds *)
(* a stopped one (StopIsLate) and AddSession a cached one                  *)
(* (ScheduledFromCache).                                                   *)
LEMMA ServingStep == Shape /\ Life /\ Serving /\ [Next]_vars => Serving'
<1> SUFFICES ASSUME Shape, Life, Serving, [Next]_vars PROVE Serving'
  OBVIOUS
<1> USE ShapeFacts, SessionsAssumption DEF Serving, NoneAt
<1>1. ASSUME NEW c \in Clients, Request(c) PROVE Serving'
  <2>1. ASSUME NEW p \in Params, Create(c, p) PROVE Serving'
    BY <2>1 DEF Create, Holding, Goto
  <2>2. CASE CacheNew(c)
    BY <2>2 DEF CacheNew, SaveParams, Goto
  <2>3. CASE CacheParams(c)
    BY <2>3 DEF CacheParams, SaveParams, Goto, Active, rest
  <2>4. CASE AddSession(c)
    BY <2>4 DEF AddSession, Holding, Goto, Active, Life, ScheduledFromCache
  <2>5. CASE RemoveSession(c) \/ ClearSession(c)
    BY <2>5 DEF RemoveSession, ClearSession, Active, Stopping, Life, StopIsLate
  <2>6. CASE KickSession(c) \/ BroadcastToNodes(c) \/ ClearGeo(c) \/ ClearRoutes(c)
    BY <2>6 DEF KickSession, BroadcastToNodes, ClearGeo, ClearRoutes, Holding, Goto, Active,
       rest
  <2>7. ASSUME NEW w \in Weathers, UpdateWeather(c, w) PROVE Serving'
    BY <2>7 DEF UpdateWeather, Begin, Goto
  <2>8. ASSUME NEW sfs, NEW txs, ReadRadio(c, sfs, txs) PROVE Serving'
    BY <2>8 DEF ReadRadio, Begin, Holding, Goto, Active
  <2>9. CASE WriteRadio(c)
    <3>1. CASE Active
      BY <2>9, <3>1 DEF WriteRadio, Holding, Goto, rest
    <3>2. CASE ~ Active
      BY <2>9, <3>2 DEF WriteRadio, Active
    <3> QED BY <3>1, <3>2
  <2>10. CASE Refresh(c)
    BY <2>10 DEF Refresh, Holding, Goto, Active, rest
  <2>11. CASE Stop(c) \/ ReadDelete(c)
    BY <2>11 DEF Stop, ReadDelete, Begin, Goto, Active
  <2>12. CASE StopRow(c)
    <3>1. ~ Active'
      BY <2>12, Deactivated DEF StopRow, Active
    <3> QED BY <3>1
  <2>13. CASE DeleteRow(c)
    BY <2>13 DEF DeleteRow, Active
  <2>14. CASE RequestFails(c)
    BY <2>14 DEF RequestFails, Holding, Goto, Active
  <2>15. CASE CacheFails(c)
    BY <2>15 DEF CacheFails, SaveParams, Holding, Goto, Active
  <2> QED BY <1>1, <2>1, <2>2, <2>3, <2>4, <2>5, <2>6, <2>7, <2>8, <2>9, <2>10, <2>11,
             <2>12, <2>13, <2>14, <2>15 DEF Request
<1>2. ASSUME NEW n \in Ships, Ship(n) PROVE Serving'
  BY <1>2 DEF Ship, Admit, Register, ReadParams, ReadParamsFails, SendParams, Unregister,
         NodeDisconnected, Ping,
         UpsertPosition, IncrStat, Visit, requestVars, rest, Active
<1>3. CASE Crash
  BY <1>3 DEF Crash
<1>4. CASE Recompute \/ SaveTable \/ UNCHANGED vars
  BY <1>4 DEF Recompute, SaveTable, Visit, requestVars, rest, Active, vars
<1>5. CASE ResumeActive
  BY <1>5 DEF ResumeActive, Active
<1> QED BY <1>1, <1>2, <1>3, <1>4, <1>5 DEF Next

(* What StopCleans says while the clean-up is under way: each thing that   *)
(* outlives the row's active flag has a request still to remove it.        *)
Clean ==
  born /\ ~ Active /\ ~ late =>
    /\ scheduled => ~ NoneAt({"kick", "remove"})
    /\ geo # {} => ~ NoneAt({"kick", "remove", "clearGeo"})
    /\ routes => ~ NoneAt({"kick", "remove", "clearGeo", "clearRoutes"})
    /\ stats \/ cache # NoParams => ~ NoneAt(Stopping)

LEMMA CleanStep == Shape /\ Life /\ Clean /\ [Next]_vars => Clean'
<1> SUFFICES ASSUME Shape, Life, Clean, [Next]_vars PROVE Clean'
  OBVIOUS
<1> USE ShapeFacts, SessionsAssumption DEF Clean, NoneAt, Stopping
<1>1. ASSUME NEW c \in Clients, Request(c) PROVE Clean'
  <2>1. ASSUME NEW p \in Params, Create(c, p) PROVE Clean'
    <3>1. row' \in Rows /\ row'.active
      BY <2>1, Inserted DEF Create
    <3> QED BY <3>1 DEF Active
  <2>2. CASE CacheNew(c) \/ CacheParams(c)
    BY <2>2 DEF CacheNew, CacheParams, SaveParams, Goto, Active
  <2>3. CASE AddSession(c)
    BY <2>3 DEF AddSession, Active
  <2>4. CASE KickSession(c)
    BY <2>4 DEF KickSession, Goto, keys, Active
  <2>5. CASE RemoveSession(c)
    BY <2>5 DEF RemoveSession, Goto, keys, Active
  <2>6. CASE ClearGeo(c)
    BY <2>6 DEF ClearGeo, Goto, keys, Active
  <2>7. CASE ClearRoutes(c)
    BY <2>7 DEF ClearRoutes, Goto, keys, Active
  <2>8. CASE ClearSession(c)
    BY <2>8 DEF ClearSession, Goto, keys, Active
  <2>9. CASE BroadcastToNodes(c)
    BY <2>9 DEF BroadcastToNodes, Holding, Goto, Active, keys
  <2>10. ASSUME NEW w \in Weathers, UpdateWeather(c, w) PROVE Clean'
    <3>1. Active /\ row' \in Rows /\ row'.active = row.active
      BY <2>10, WeatherChanged DEF UpdateWeather, Active
    <3> QED BY <3>1 DEF Active
  <2>11. ASSUME NEW sfs, NEW txs, ReadRadio(c, sfs, txs) PROVE Clean'
    BY <2>11 DEF ReadRadio, Begin, Active
  <2>12. CASE WriteRadio(c)
    <3>1. CASE Active
      <4>1. row' \in Rows /\ row'.active = row.active
        BY <2>12, <3>1, RadioWritten DEF Shape
      <4> QED BY <3>1, <4>1 DEF Active
    <3>2. CASE ~ Active
      BY <2>12, <3>2 DEF WriteRadio, Holding, Goto, Active, keys
    <3> QED BY <3>1, <3>2
  <2>13. CASE Refresh(c)
    BY <2>13 DEF Refresh, Holding, Goto, Active, keys
  <2>14. CASE Stop(c)
    BY <2>14 DEF Stop, Begin, Goto, Active, keys
  <2>15. CASE ReadDelete(c)
    BY <2>15 DEF ReadDelete, Begin, Goto, Active, keys
  <2>16. CASE StopRow(c)
    <3>1. CASE Active
      BY <2>16, <3>1 DEF StopRow, Goto
    <3>2. CASE ~ Active
      BY <2>16, <3>2 DEF StopRow, Goto, keys, Active
    <3> QED BY <3>1, <3>2
  <2>17. CASE DeleteRow(c)
    BY <2>17 DEF DeleteRow, Active, Goto, keys
  <2>18. CASE RequestFails(c)
    BY <2>18 DEF RequestFails, Holding, Goto, Active, keys
  <2>19. CASE CacheFails(c)
    BY <2>19 DEF CacheFails, SaveParams, Holding, Goto, Active, keys
  <2> QED BY <1>1, <2>1, <2>2, <2>3, <2>4, <2>5, <2>6, <2>7, <2>8, <2>9, <2>10, <2>11,
             <2>12, <2>13, <2>14, <2>15, <2>16, <2>17, <2>18, <2>19 DEF Request
<1>2. ASSUME NEW n \in Ships, Ship(n) PROVE Clean'
  BY <1>2 DEF Ship, Admit, Register, ReadParams, ReadParamsFails, SendParams, Unregister,
         NodeDisconnected, Ping,
         UpsertPosition, IncrStat, Visit, requestVars, rest, Active, keys
<1>3. CASE Crash
  <2>1. /\ row' = row /\ born' = born /\ cache' = cache /\ geo' = geo /\ routes' = routes
        /\ stats' = stats
        /\ scheduled' = FALSE /\ late' = (late \/ ~ NoneAt(Stopping))
    BY <1>3 DEF Crash, keys
  <2> QED BY <2>1 DEF Active
<1>4. CASE Recompute \/ SaveTable \/ UNCHANGED vars
  BY <1>4 DEF Recompute, SaveTable, Visit, requestVars, rest, Active, vars, keys
<1>5. CASE ResumeActive
  BY <1>5 DEF ResumeActive, Active, keys, requestVars
<1> QED BY <1>1, <1>2, <1>3, <1>4, <1>5 DEF Next

(* What ToldCurrent says while NodeConnected is under way: whatever the    *)
(* ship was told already, by a broadcast, is the row's too.                *)
Heard(n) == join[n] = "no" \/ told[n] # NoParams
Told ==
  Active /\ NoneAt({"refresh", "cache", "tell"}) =>
    \A n \in Ships \ missed : sock[n] = "on" /\ Heard(n) => told[n] = row.params

(* The row and what the ships were told: a change of the row leads to a    *)
(* broadcast, and a joining ship is primed from a cache that is there      *)
(* (AdmittedFromCache), by a send that notes whether it was outdated; a    *)
(* read that failed leaves a ship to the broadcasts.                       *)
LEMMA ToldStep == Shape /\ Life /\ Told /\ [Next]_vars => Told'
<1> SUFFICES ASSUME Shape, Life, Told, [Next]_vars PROVE Told'
  OBVIOUS
<1> USE ShapeFacts DEF Told, Heard, NoneAt
<1>1. ASSUME NEW c \in Clients, Request(c) PROVE Told'
  <2>1. ASSUME NEW p \in Params, Create(c, p) PROVE Told'
    BY <2>1 DEF Create, shipVars, Life, Untouched
  <2>2. CASE CacheNew(c) \/ CacheParams(c)
    BY <2>2 DEF CacheNew, CacheParams, Goto, Active, shipVars
  <2>3. CASE AddSession(c) \/ RemoveSession(c)
    BY <2>3 DEF AddSession, RemoveSession, Holding, Goto, Active, shipVars
  <2>4. CASE KickSession(c)
    BY <2>4 DEF KickSession, Goto, Active
  <2>5. ASSUME NEW w \in Weathers, UpdateWeather(c, w) PROVE Told'
    BY <2>5 DEF UpdateWeather, Begin, Goto
  <2>6. ASSUME NEW sfs, NEW txs, ReadRadio(c, sfs, txs) PROVE Told'
    BY <2>6 DEF ReadRadio, Begin, Holding, Goto, Active, shipVars
  <2>7. CASE WriteRadio(c)
    <3>1. CASE Active
      BY <2>7, <3>1, RadioWritten DEF Shape
    <3>2. CASE ~ Active
      BY <2>7, <3>2 DEF WriteRadio, Active
    <3> QED BY <3>1, <3>2
  <2>8. CASE Refresh(c)
    BY <2>8 DEF Refresh, Holding, Goto, Active
  <2>9. CASE BroadcastToNodes(c)
    <3>1. PICK S \in SUBSET {n \in Ships : sock[n] = "on"} :
            /\ told' = [n \in Ships |-> IF n \in S THEN held[c] ELSE told[n]]
            /\ missed' = IF Active /\ held[c] = row.params
                           THEN (missed \ S) \cup ({n \in Ships : sock[n] = "on"} \ S)
                           ELSE missed \cup {n \in Ships : sock[n] = "on"}
      BY <2>9 DEF BroadcastToNodes, Tell
    <3>2. row' = row /\ sock' = sock /\ join' = join
      BY <2>9 DEF BroadcastToNodes
    <3>3. \A n \in Ships \ missed' : sock'[n] = "on" /\ Active => told'[n] = row.params
      BY <3>1, <3>2
    <3> QED BY <3>2, <3>3 DEF Active
  <2>10. CASE Stop(c) \/ ReadDelete(c)
    BY <2>10 DEF Stop, ReadDelete, Begin, Goto, Active, shipVars
  <2>11. CASE StopRow(c)
    <3>1. ~ Active'
      BY <2>11, Deactivated DEF StopRow, Active
    <3> QED BY <3>1
  <2>12. CASE DeleteRow(c)
    BY <2>12 DEF DeleteRow, Active
  <2>13. CASE ClearGeo(c) \/ ClearRoutes(c) \/ ClearSession(c)
    BY <2>13 DEF ClearGeo, ClearRoutes, ClearSession, Goto, Active, shipVars
  <2>14. CASE RequestFails(c)
    BY <2>14 DEF RequestFails, Holding, Goto, Active, shipVars
  <2>15. CASE CacheFails(c)
    BY <2>15 DEF CacheFails, SaveParams, Holding, Goto, Active, shipVars
  <2> QED BY <1>1, <2>1, <2>2, <2>3, <2>4, <2>5, <2>6, <2>7, <2>8, <2>9, <2>10, <2>11,
             <2>12, <2>13, <2>14, <2>15 DEF Request
<1>2. ASSUME NEW n \in Ships, Ship(n) PROVE Told'
  <2>1. CASE Admit(n) \/ Unregister(n)
    BY <2>1 DEF Admit, Unregister, requestVars, Active
  <2>2. CASE Register(n)
    <3>1. /\ row' = row /\ pc' = pc /\ missed' = missed \ {n}
          /\ join' = [join EXCEPT ![n] = "read"] /\ told' = [told EXCEPT ![n] = NoParams]
          /\ sock' = [sock EXCEPT ![n] = "on"]
      BY <2>2 DEF Register, requestVars
    <3>2. ~ Heard(n)' /\ \A m \in Ships \ {n} : /\ Heard(m)' = Heard(m)
                                                 /\ sock'[m] = sock[m] /\ told'[m] = told[m]
      BY <3>1 DEF Shape, ShipsOK
    <3> QED BY <3>1, <3>2 DEF Active
  <2>3. CASE ReadParams(n)
    BY <2>3 DEF ReadParams, requestVars, Active, Life, AdmittedFromCache
  <2>4. CASE SendParams(n)
    <3>1. PICK S \in SUBSET ({n} \cap {m \in Ships : sock[m] = "on"}) :
            /\ told' = [m \in Ships |-> IF m \in S THEN carried[n] ELSE told[m]]
            /\ missed' = IF Active /\ carried[n] = row.params
                           THEN (missed \ S) \cup ({n} \ S)
                           ELSE missed \cup {n}
      BY <2>4 DEF SendParams, Tell
    <3>2. row' = row /\ sock' = sock /\ join' = [join EXCEPT ![n] = "no"] /\ pc' = pc
      BY <2>4 DEF SendParams, requestVars
    <3>3. ASSUME NEW m \in Ships \ missed', Active, NoneAt({"refresh", "cache", "tell"}),
                 sock[m] = "on", Heard(m)'
          PROVE  told'[m] = row.params
      <4>1. CASE m = n
        BY <3>1, <3>3, <4>1
      <4>2. CASE m # n
        BY <3>1, <3>2, <3>3, <4>2
      <4> QED BY <4>1, <4>2
    <3> QED BY <3>2, <3>3 DEF Active
  <2>5. CASE NodeDisconnected(n) \/ Ping(n) \/ UpsertPosition(n) \/ IncrStat(n)
    BY <2>5 DEF NodeDisconnected, Ping, UpsertPosition, IncrStat, requestVars, Active
  <2>6. CASE ReadParamsFails(n)
    BY <2>6 DEF ReadParamsFails, requestVars, Active
  <2> QED BY <1>2, <2>1, <2>2, <2>3, <2>4, <2>5, <2>6 DEF Ship
<1>3. CASE Crash
  BY <1>3 DEF Crash
<1>4. CASE Recompute \/ SaveTable \/ ResumeActive \/ UNCHANGED vars
  BY <1>4 DEF Recompute, SaveTable, ResumeActive, requestVars, shipVars, Active, vars
<1> QED BY <1>1, <1>2, <1>3, <1>4 DEF Next

(* Initially, and always.                                                  *)
LEMMA InitLife ==
  Init => Shape /\ Life /\ CacheCurrent /\ Serving /\ Clean /\ Told
<1> SUFFICES ASSUME Init
             PROVE  Shape /\ Life /\ CacheCurrent /\ Serving /\ Clean /\ Told
  OBVIOUS
<1> USE SessionsAssumption
<1>1. /\ pc = [c \in Clients |-> "idle"] /\ held = [c \in Clients |-> NoParams]
      /\ geo = {} /\ routes = FALSE /\ stats = FALSE
  BY DEF Init
<1>2. \/ row = NoRow /\ born = FALSE /\ cache = NoParams /\ scheduled = FALSE
      \/ /\ Active /\ born = TRUE /\ scheduled = TRUE /\ cache = row.params /\ cache \in Params
         /\ row \in Rows
  BY Inserted, RowFields DEF Init, Active
<1>3. RowInv
  BY InitRow
<1>4. StoresOK
  <2>1. /\ leaving = {} /\ missed = {} /\ up = TRUE /\ tick = "idle"
        /\ raced = FALSE /\ late = FALSE /\ unborn = FALSE
        /\ requests = 0 /\ visits = 0 /\ crashes = 0
    BY DEF Init
  <2>2. 0 \in 0 .. MaxRequests /\ 0 \in 0 .. MaxVisits /\ 0 \in 0 .. MaxCrashes
    OBVIOUS
  <2> QED BY <1>1, <1>2, <2>1, <2>2 DEF StoresOK
<1>5. ShipsOK
  BY DEF Init, ShipsOK
<1>6. Life
  BY <1>1, <1>2 DEF Init, Life, StopIsLate, ScheduledFromCache, Untouched,
     AdmittedFromCache, Stopping, Active
<1>7. CacheCurrent /\ Serving /\ Clean
  BY <1>1, <1>2 DEF CacheCurrent, Serving, Clean, Active
<1>8. Told
  BY DEF Init, Told
<1> QED BY <1>3, <1>4, <1>5, <1>6, <1>7, <1>8 DEF Shape

LEMMA Alive == Spec => [](Shape /\ Life)
BY InitLife, ShapeStep, LifeStep, PTL DEF Spec

(* Every variable of the session keeps its type.                           *)
THEOREM TypeCorrect == Spec => []TypeOK
<1>1. Shape => TypeOK
  <2> SUFFICES ASSUME Shape PROVE TypeOK
    OBVIOUS
  <2>1. {born, routes, stats, up, scheduled, raced, late, unborn} \subseteq BOOLEAN
    BY DEF Shape, StoresOK
  <2> QED BY <2>1 DEF Shape, RowInv, RowType, StoresOK, ShipsOK, TypeOK, Places
<1> QED BY <1>1, Alive, PTL

(* "The engine reads the Redis cache": it is what the row says, once       *)
(* refreshAndBroadcast has run and after any crash and resume.             *)
THEOREM CacheIsCurrent == Spec => []CacheCurrent
BY InitLife, Alive, CacheStep, PTL DEF Spec

(* Every connected ship was last told what the row says, once the          *)
(* broadcasts are out, but for the losses in missed: UpdateWeather,        *)
(* UpdateRadioParams and NodeConnected.                                    *)
THEOREM ShipsAreTold == Spec => []ToldCurrent
<1>1. Told => ToldCurrent
  BY DEF Told, Heard, ToldCurrent
<1> QED BY <1>1, InitLife, Alive, ToldStep, PTL DEF Spec

(* A running server caches and schedules every active session: Create and  *)
(* ResumeActive.                                                           *)
THEOREM ResumeServes == Spec => []Serving
BY InitLife, Alive, ServingStep, PTL DEF Spec

(* Stop's clean-up is complete: no key and no scheduler is left, whoever   *)
(* else stops, deletes or fails at the same time.                          *)
THEOREM StopLeavesNothing == Spec => []StopCleans
<1>1. Clean => StopCleans
  BY DEF Clean, StopCleans, NoneAt, Stopping
<1> QED BY <1>1, InitLife, Alive, CleanStep, PTL DEF Spec
=============================================================================
