------------------------------- MODULE Ingest -------------------------------
(***************************************************************************)
(* The last hop: Virtual Edges, the cache the engine resolves targets with *)
(* (edgeCache), the payload schema of a session on its way to a ship, and  *)
(* the telemetry rows that reports become and the dashboard lists.         *)
(*                                                                         *)
(* A report is a frame of DataLink that an edge may hear, from one ship,   *)
(* handled by a worker of its own; a worker is cut at every query and at   *)
(* every access to the cache.  The dice, the hop limit and deduplication   *)
(* are DataLink's.  Time is counted in ticks, for the cache's TTL.         *)
(***************************************************************************)
EXTENDS Payload, Sequences

CONSTANTS
  Codes,       \* edge codes
  Seeded,      \* the edge migration 0001 registers
  Frames,      \* reports
  Target,      \* Target[f]: the edge code f is sent to
  Legacy,      \* a report stored before migration 0002
  NoCode, NoEdge, NoCache,  \* NULL, an edge not registered, byCode = nil
  TTL,         \* of the cache
  Latency,     \* bound on the ticks between the query and the store of a refresh
  Limit,       \* MaxPayloadBytes of the session's spreading factor
  Schemas,     \* schemas a dashboard may inject
  Budgets      \* what a behaviour may see: [changes, schemas, frames, faults]

Places == {"here", "there"}
NoFields == [n \in {} |-> Nil]

ASSUME IngestAssumption ==
  /\ Seeded \in Codes /\ NoCode \notin Codes
  /\ Target \in [Frames -> Codes] /\ Legacy \notin Frames
  /\ NoEdge \notin [id: Nat, at: Places]
  /\ NoCache \notin [Codes -> {NoEdge} \cup [id: Nat, at: Places]]
  /\ TTL \in Nat \ {0} /\ Latency \in Nat
  /\ Limit \in Nat /\ Limit >= 51  \* that of spreading factors 10 to 12
  /\ Budgets \subseteq [changes: Nat, schemas: Nat, frames: SUBSET Frames,
                        faults: SUBSET {"infra", "shed"}]

VARIABLES
  budget,      \* what is left of one of Budgets
  \* --- virtual_edges, edgeCache ---------------------------------------------
  table,       \* table[c]: NoEdge or the row of code c
  serial,      \* the next id
  past,        \* history: past[i]: the tables of i - 1 ticks ago
  cache,       \* byCode
  age,         \* ticks since loadedAt, at most TTL
  \* --- dynamic_schemas and the ship -------------------------------------------
  injected,    \* the schemas, by id
  unsent,      \* ids whose SetSchema has yet to broadcast
  join,        \* NodeConnected of the ship: "away", "due", "carrying", "done"
  carried,     \* the id it carries, 0 for none
  box,         \* ids of schema:sync on their way to the ship
  fields,      \* node.fields, by id, 0 for none
  behind,      \* history: the ship was last sent an outdated schema, or none it should
  \* --- the workers --------------------------------------------------------------
  pc,          \* pc[f]: how far report f is
  packed,      \* packed[f]: its payload, and the id of the schema it follows
  got,         \* got[f]: the edge it is resolved to
  list,        \* list[f]: what its refresh of the cache has read ...
  wait,        \* wait[f]: ... and how many ticks ago
  decoded,     \* decoded[f]: decoded_payload, and the id of the schema used
  \* --- telemetry_logs --------------------------------------------------------------
  rows,
  failed       \* history: a query failed

registry == <<table, serial, past>>
cached == <<cache, age>>
ship == <<injected, unsent, join, carried, box, fields, behind>>
workers == <<pc, packed, got, list, wait, decoded>>
vars == <<budget, registry, cached, ship, workers, rows, failed>>

Active == Len(injected)
Fields(id) == IF id = 0 THEN NoFields ELSE injected[id]
Registered(id) == \E c \in Codes : table[c] # NoEdge /\ table[c].id = id
Row(f, id, code) == [frame |-> f, edge |-> id, code |-> code]

(* Mutant of Backfill: rows written before are left as they are.           *)
BackfillNothing(old) == old

(* Migration 0002: rows whose edge is still there get its code.            *)
Backfill(old) == {[r EXCEPT !.code = Seeded] : r \in old}

Init ==
  /\ budget \in Budgets
  /\ table = [c \in Codes |-> IF c = Seeded THEN [id |-> 1, at |-> "here"] ELSE NoEdge]
  /\ serial = 2
  /\ past = [i \in 1 .. TTL + Latency |-> {table}]
  /\ cache = NoCache /\ age = TTL
  /\ injected = <<>> /\ unsent = {} /\ join = "away" /\ carried = 0
  /\ box = <<>> /\ fields = 0 /\ behind = FALSE
  /\ pc = [f \in Frames |-> "idle"]
  /\ packed = [f \in Frames |-> [payload |-> NoFields, id |-> 0]]
  /\ got = [f \in Frames |-> NoEdge] /\ list = [f \in Frames |-> NoCache]
  /\ wait = [f \in Frames |-> 0]
  /\ decoded = [f \in Frames |-> [values |-> NoFields, problems |-> {}, id |-> 0]]
  /\ rows = Backfill({Row(Legacy, 1, NoCode)})
  /\ failed = FALSE

-----------------------------------------------------------------------------
(* EdgeRepository: the handlers of /api/v1/edges.                          *)

Change(t) ==
  /\ budget.changes > 0
  /\ budget' = [budget EXCEPT !.changes = @ - 1]
  /\ table' = t
  /\ past' = [past EXCEPT ![1] = @ \cup {t}]
  /\ UNCHANGED <<cached, ship, workers, failed>>

(* edge_code is unique; a code registered anew gets a new id.              *)
CreateEdge(c, at) ==
  /\ table[c] = NoEdge
  /\ Change([table EXCEPT ![c] = [id |-> serial, at |-> at]])
  /\ serial' = serial + 1
  /\ UNCHANGED rows

UpdateEdge(c, at) ==
  /\ table[c] # NoEdge /\ table[c].at # at
  /\ Change([table EXCEPT ![c].at = at])
  /\ UNCHANGED <<serial, rows>>

(* ON DELETE SET NULL: the rows that name the edge lose its id, 0.         *)
DeleteEdge(c) ==
  /\ table[c] # NoEdge
  /\ Change([table EXCEPT ![c] = NoEdge])
  /\ rows' = {IF r.edge = table[c].id THEN [r EXCEPT !.edge = 0] ELSE r : r \in rows}
  /\ UNCHANGED serial

(* A tick; no refresh takes more than Latency of them.                     *)
Tick ==
  /\ \A f \in Frames : pc[f] = "listed" => wait[f] < Latency
  /\ wait' = [f \in Frames |-> IF pc[f] = "listed" THEN wait[f] + 1 ELSE 0]
  /\ age' = IF age < TTL THEN age + 1 ELSE TTL
  /\ past' = [i \in DOMAIN past |-> IF i = 1 THEN {table} ELSE past[i - 1]]
  /\ UNCHANGED <<budget, table, serial, cache, ship, pc, packed, got, list, decoded, rows,
                 failed>>

-----------------------------------------------------------------------------
(* DynamicSchemaService.SetSchema: validate, insert ...                    *)
InsertSchema(s) ==
  /\ budget.schemas > 0
  /\ budget' = [budget EXCEPT !.schemas = @ - 1]
  /\ ValidateSchemaFields(s)
  /\ injected' = Append(injected, s)
  /\ unsent' = unsent \cup {Len(injected) + 1}
  /\ UNCHANGED <<registry, cached, join, carried, box, fields, behind, workers, rows, failed>>

(* An error of PostgreSQL for a row that is there all the same: the call   *)
(* ends, nobody is told, and NodeConnected may have read already.          *)
InsertFails(s) ==
  /\ "infra" \in budget.faults
  /\ budget.schemas > 0
  /\ budget' = [budget EXCEPT !.schemas = @ - 1]
  /\ ValidateSchemaFields(s)
  /\ injected' = Append(injected, s)
  /\ behind' = (behind \/ join # "away")
  /\ UNCHANGED <<registry, cached, unsent, join, carried, box, fields, workers, rows, failed>>

(* BroadcastToNodes and SendToNode: the ship's send buffer may be full.    *)
Send(id) ==
  \/ /\ box' = Append(box, id)
     /\ behind' = (id # Active)
  \/ /\ "shed" \in budget.faults
     /\ behind' = TRUE
     /\ UNCHANGED box

(* ... and push it to the ships that hold a socket.                        *)
BroadcastSchema(id) ==
  /\ unsent' = unsent \ {id}
  /\ IF join = "away" THEN UNCHANGED <<box, behind>> ELSE Send(id)
  /\ UNCHANGED <<budget, registry, cached, injected, join, carried, fields, workers, rows,
                 failed>>

(* The ship connects: registerNode ...                                     *)
Join ==
  /\ join = "away"
  /\ join' = "due"
  /\ UNCHANGED <<budget, registry, cached, injected, unsent, carried, box, fields, behind,
                 workers, rows, failed>>

(* Mutant of ReadSchema: a ship that joins waits for the next broadcast.   *)
ReadNoSchema ==
  /\ join = "due"
  /\ join' = "carrying" /\ carried' = 0
  /\ UNCHANGED <<budget, registry, cached, injected, unsent, box, fields, behind, workers,
                 rows, failed>>

(* ... then NodeConnected: GetActive ...                                   *)
ReadSchema ==
  /\ join = "due"
  /\ join' = "carrying" /\ carried' = Active
  /\ UNCHANGED <<budget, registry, cached, injected, unsent, box, fields, behind, workers,
                 rows, failed>>

(* ... which may fail: nothing is sent, nor tried again.  A ship that no   *)
(* broadcast reached since it joined is left without a schema.             *)
ReadSchemaFails ==
  /\ join = "due" /\ "infra" \in budget.faults
  /\ join' = "done"
  /\ behind' = (behind \/ (box = <<>> /\ fields = 0))
  /\ UNCHANGED <<budget, registry, cached, injected, unsent, carried, box, fields, workers,
                 rows, failed>>

(* ... and SendToNode, if there was a schema.                              *)
SendSchema ==
  /\ join = "carrying"
  /\ join' = "done" /\ carried' = 0
  /\ IF carried = 0 THEN UNCHANGED <<box, behind>> ELSE Send(carried)
  /\ UNCHANGED <<budget, registry, cached, injected, unsent, fields, workers, rows, failed>>

(* The ship's reader.                                                      *)
HearSchema ==
  /\ box # <<>>
  /\ fields' = Head(box) /\ box' = Tail(box)
  /\ UNCHANGED <<budget, registry, cached, injected, unsent, join, carried, behind, workers,
                 rows, failed>>

(* transmitTelemetry: a payload too long for the window does not leave.    *)
Report(f) ==
  /\ f \in budget.frames /\ pc[f] = "idle" /\ join # "away"
  /\ \E p \in BuildPayload(Fields(fields)) :
       /\ packed' = [packed EXCEPT ![f] = [payload |-> p, id |-> fields]]
       /\ pc' = [pc EXCEPT ![f] = IF PackedBytes(p) > Limit THEN "oversized" ELSE "heard"]
  /\ UNCHANGED <<budget, registry, cached, ship, got, list, wait, decoded, rows, failed>>

-----------------------------------------------------------------------------
(* HandleTransmit: edgeCache.get.                                          *)

(* Mutant of Resolve: whether the cache has the target is not looked at.   *)
ResolveUnchecked(f, e) ==
  /\ got' = [got EXCEPT ![f] = e]
  /\ pc' = [pc EXCEPT ![f] = "deliver"]

(* A target that is no edge is taken for a ship, and no ship holds a       *)
(* socket under the code of an edge.                                       *)
Resolve(f, e) ==
  /\ got' = [got EXCEPT ![f] = e]
  /\ pc' = [pc EXCEPT ![f] = IF e = NoEdge THEN "target_offline" ELSE "deliver"]

InCache(f) == IF cache = NoCache THEN NoEdge ELSE cache[Target[f]]

(* Mutant of Fresh: what was loaded once is good for ever.                 *)
FreshForever == cache # NoCache
Fresh == cache # NoCache /\ age < TTL

(* The cache answers while it is fresh ...                                 *)
Lookup(f) ==
  /\ pc[f] = "heard"
  /\ IF Fresh THEN Resolve(f, InCache(f))
              ELSE /\ got' = [got EXCEPT ![f] = InCache(f)]
                   /\ pc' = [pc EXCEPT ![f] = "refresh"]
  /\ UNCHANGED <<budget, registry, cached, ship, packed, list, wait, decoded, rows, failed>>

(* ... and any number of workers refresh it when it is not: the query ...  *)
ListEdges(f) ==
  /\ pc[f] = "refresh"
  /\ pc' = [pc EXCEPT ![f] = "listed"]
  /\ list' = [list EXCEPT ![f] = table]
  /\ UNCHANGED <<budget, registry, cached, ship, packed, got, wait, decoded, rows, failed>>

(* ... which may fail: then what the cache held before will do, if by now  *)
(* it holds anything; that is looked up without the lock, and a map stored *)
(* since the worker found none may go unseen.                              *)
ListFails(f) ==
  /\ pc[f] = "refresh" /\ "infra" \in budget.faults
  /\ failed' = TRUE
  /\ \/ cache # NoCache /\ Resolve(f, got[f])
     \/ /\ got[f] = NoEdge
        /\ pc' = [pc EXCEPT ![f] = "lost"]
        /\ UNCHANGED got
  /\ UNCHANGED <<budget, registry, cached, ship, packed, list, wait, decoded, rows>>

(* ... and, under the lock, the store; the last one stays.                 *)
StoreEdges(f) ==
  /\ pc[f] = "listed"
  /\ cache' = list[f] /\ age' = 0
  /\ Resolve(f, list[f][Target[f]])
  /\ list' = [list EXCEPT ![f] = NoCache] /\ wait' = [wait EXCEPT ![f] = 0]
  /\ UNCHANGED <<budget, registry, ship, packed, decoded, rows, failed>>

-----------------------------------------------------------------------------
(* deliverToEdge.                                                          *)

(* GetActive and DecodePayload.  Without a schema, and when the query      *)
(* fails, the raw bytes are kept.                                          *)
Decode(f) ==
  LET raw == [values |-> packed[f].payload, problems |-> {}, id |-> 0] IN
  /\ pc[f] = "deliver"
  /\ pc' = [pc EXCEPT ![f] = "insert"]
  /\ \/ /\ decoded' = [decoded EXCEPT ![f] =
             IF Active = 0 THEN raw
             ELSE LET d == DecodePayload(packed[f].payload, Fields(Active)) IN
                  [values |-> d.values, problems |-> d.problems, id |-> Active]]
        /\ UNCHANGED failed
     \/ /\ "infra" \in budget.faults
        /\ decoded' = [decoded EXCEPT ![f] = raw]
        /\ failed' = TRUE
  /\ UNCHANGED <<budget, registry, cached, ship, packed, got, list, wait, rows>>

(* Mutants of Insert: no snapshot of the code; a report that has problems  *)
(* is not worth a row.                                                     *)
InsertIdOnly(f) ==
  /\ pc[f] = "insert"
  /\ pc' = [pc EXCEPT ![f] = "acked"]
  /\ rows' = IF Registered(got[f].id) THEN rows \cup {Row(f, got[f].id, NoCode)} ELSE rows
  /\ UNCHANGED <<budget, registry, cached, ship, packed, got, list, wait, decoded, failed>>

InsertStrict(f) ==
  /\ pc[f] = "insert"
  /\ pc' = [pc EXCEPT ![f] = "acked"]
  /\ rows' = IF Registered(got[f].id) /\ decoded[f].problems = {}
               THEN rows \cup {Row(f, got[f].id, Target[f])} ELSE rows
  /\ UNCHANGED <<budget, registry, cached, ship, packed, got, list, wait, decoded, failed>>

(* Insert: edge_id refers to an edge that is still there, or the query     *)
(* fails; the report is acknowledged and counted all the same.             *)
Insert(f) ==
  /\ pc[f] = "insert"
  /\ pc' = [pc EXCEPT ![f] = "acked"]
  /\ \/ /\ rows' = IF Registered(got[f].id)
                     THEN rows \cup {Row(f, got[f].id, Target[f])} ELSE rows
        /\ UNCHANGED failed
     \/ "infra" \in budget.faults /\ failed' = TRUE /\ UNCHANGED rows
  /\ UNCHANGED <<budget, registry, cached, ship, packed, got, list, wait, decoded>>

-----------------------------------------------------------------------------
Edges ==
  \E c \in Codes :
    \/ \E at \in Places : CreateEdge(c, at) \/ UpdateEdge(c, at)
    \/ DeleteEdge(c)

Ship ==
  \/ \E s \in Schemas : InsertSchema(s) \/ InsertFails(s)
  \/ \E id \in unsent : BroadcastSchema(id)
  \/ Join \/ ReadSchema \/ ReadSchemaFails \/ SendSchema \/ HearSchema

Workers ==
  \E f \in Frames :
    \/ Report(f) \/ Lookup(f) \/ ListEdges(f) \/ ListFails(f) \/ StoreEdges(f)
    \/ Decode(f) \/ Insert(f)

Next == Edges \/ Tick \/ Ship \/ Workers

Spec == Init /\ [][Next]_vars

-----------------------------------------------------------------------------
(* Properties.                                                             *)

Rows == [id: Nat, at: Places]
Payloads == UNION {[N -> Values] : N \in SUBSET Names}

(* Every variable has its type.                                            *)
TypeOK ==
  /\ budget.changes \in Nat /\ budget.schemas \in Nat
  /\ table \in [Codes -> {NoEdge} \cup Rows] /\ serial \in Nat
  /\ cache = NoCache \/ cache \in [Codes -> {NoEdge} \cup Rows]
  /\ age \in 0 .. TTL
  /\ injected \in Seq(Schemas) /\ unsent \subseteq 1 .. Active
  /\ join \in {"away", "due", "carrying", "done"}
  /\ carried \in 0 .. Active /\ fields \in 0 .. Active
  /\ box \in Seq(1 .. Active)
  /\ pc \in [Frames -> {"idle", "oversized", "heard", "refresh", "listed", "lost",
                        "target_offline", "deliver", "insert", "acked"}]
  /\ \A f \in Frames :
       /\ DOMAIN packed[f].payload \subseteq Names /\ packed[f].id \in 0 .. Active
       /\ got[f] \in {NoEdge} \cup Rows
       /\ pc[f] \in {"deliver", "insert", "acked"} => got[f] # NoEdge
       /\ list[f] # NoCache <=> pc[f] = "listed"
       /\ wait[f] \in 0 .. Latency
       /\ decoded[f].problems \subseteq DOMAIN decoded[f].values
  /\ rows \subseteq [frame: Frames \cup {Legacy}, edge: Nat, code: Codes \cup {NoCode}]
  /\ behind \in BOOLEAN /\ failed \in BOOLEAN

(* However many workers refresh the cache at once, and whichever stores    *)
(* last, a report is resolved to what its code stood for no longer ago     *)
(* than the TTL and one query: a new edge is not taken for an absent ship, *)
(* nor a deleted or moved one for what it was, any longer than that.  Said *)
(* as long as no query has failed: while queries fail, the engine goes on  *)
(* with the list it has, however old.                                      *)
StaleBound ==
  [][~ failed' =>
       \A f \in Frames :
         pc[f] \in {"heard", "listed"} /\ pc'[f] \in {"target_offline", "deliver"} =>
           \E t \in UNION {past[i] : i \in DOMAIN past} : got'[f] = t[Target[f]]]_vars

(* "a packet that survived up to five radio hops must not vanish": an      *)
(* acknowledged report has its row, unless the very edge it was resolved   *)
(* to was deleted, or PostgreSQL failed.                                   *)
LostOnlyToDeletion ==
  \A f \in Frames : pc[f] = "acked" =>
    (\E r \in rows : r.frame = f) \/ ~ Registered(got[f].id) \/ failed

(* ListBySession: the snapshot, for old rows the code of the live edge.    *)
EdgeColumn(r) ==
  IF r.code # NoCode THEN r.code
  ELSE IF \E c \in Codes : table[c] # NoEdge /\ table[c].id = r.edge
         THEN CHOOSE c \in Codes : table[c] # NoEdge /\ table[c].id = r.edge
         ELSE NoCode

(* "so the name survives even if that edge is later deleted": the edge a   *)
(* row is listed with never changes, whatever is deleted, registered anew  *)
(* or moved.                                                               *)
EdgeColumnKept ==
  [][\A r \in rows : \E q \in rows' : q.frame = r.frame /\ EdgeColumn(r) = EdgeColumn(q)']_vars

(* Whatever the schema has become on the way, a row holds every value the  *)
(* ship packed, by its name; a whole number may have changed from integer  *)
(* to float or back.                                                       *)
NothingVanishes ==
  \A f \in Frames : pc[f] \in {"insert", "acked"} =>
    \A n \in DOMAIN packed[f].payload :
      LET v == packed[f].payload[n]
          w == decoded[f].values[n]
      IN  n \in DOMAIN decoded[f].values /\
            (w = v \/ {v.kind, w.kind} = {"int", "whole"})

(* A report packed for the schema it is decoded with has no problems: all  *)
(* that is flagged comes from a schema that changed under way.             *)
FlaggedOnlyWhenChanged ==
  \A f \in Frames : decoded[f].problems # {} => decoded[f].id # packed[f].id

(* "warns when a schema cannot fit": a report is too long for the window   *)
(* only under a schema whose injection warned, if its insert did not fail. *)
(* The ship packs 8-bit integers as uint16, a byte more than estimated:    *)
(* two of them find room in the map header, which a map of up to 15 fields *)
(* has shorter.  One spreading factor: a change of it warns nobody.        *)
Narrow(s) == {n \in DOMAIN s : s[n] = Type("int", 1)}
Slack(s) == IF Cardinality(DOMAIN s) > 15 THEN 0 ELSE 2
OversizedOnlyWarned ==
  \A f \in Frames : pc[f] = "oversized" =>
    LET s == Fields(packed[f].id) IN
    EstimatePackedBytes(s) > Limit \/ Cardinality(Narrow(s)) > Slack(s)

(* SetSchema pushes every schema and NodeConnected the one in force:       *)
(* however injections, their broadcasts and the joining overlap, the ship  *)
(* ends up with the newest schema, unless the last send to it was shed or  *)
(* carried an older one, or a failing query left it without a send: the    *)
(* insert of the newest, or the read when no broadcast came instead.       *)
SchemaCurrent ==
  ~ behind /\ unsent = {} /\ join = "done" /\ box = <<>> => fields = Active
=============================================================================
