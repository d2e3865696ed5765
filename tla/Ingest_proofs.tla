---------------------------- MODULE Ingest_proofs ----------------------------
(***************************************************************************)
(* What becomes of a report at its Virtual Edge, for any edges, reports,   *)
(* schemas, faults and TTL: what it is resolved to is recent (StaleBound); *)
(* its row is there unless the edge it was resolved to is not              *)
(* (LostOnlyToDeletion), is listed with that edge for good                 *)
(* (EdgeColumnKept), holds every value that was packed (NothingVanishes),  *)
(* and is flagged only when the schema changed under way                   *)
(* (FlaggedOnlyWhenChanged); one that is too long for the window is of a   *)
(* schema whose injection warned (OversizedOnlyWarned); the newest schema  *)
(* arrives (SchemaCurrent).                                                *)
(***************************************************************************)
EXTENDS Ingest, FiniteSetTheorems, SequenceTheorems, TLAPS

Known == {r \in Rows : r.id < serial}
Table == [Codes -> {NoEdge} \cup Known]
Log == [frame: Frames \cup {Legacy}, edge: Nat, code: Codes \cup {NoCode}]

(* An id is given out once: whatever holds an edge (the table, the cache,  *)
(* a list on its way to it, a worker) holds one below the next id, so that *)
(* an id that is not registered any more never will be.                    *)
IdsOnce ==
  /\ serial \in Nat
  /\ table \in Table
  /\ cache \in {NoCache} \cup Table
  /\ list \in [Frames -> {NoCache} \cup Table]
  /\ got \in [Frames -> {NoEdge} \cup Known]

(* How far a worker is tells what it holds.                                *)
Held ==
  /\ pc = [f \in Frames |-> pc[f]]
  /\ rows \subseteq Log
  /\ \A f \in Frames :
       /\ pc[f] = "listed" => list[f] # NoCache
       /\ pc[f] \in {"deliver", "insert", "acked"} => got[f] # NoEdge

EdgeInv == IdsOnce /\ Held /\ LostOnlyToDeletion

(* Nothing is handed out, heard or acknowledged at first; a row of before  *)
(* the edge columns existed is no report's.                                *)
LEMMA EdgeInit == Init => EdgeInv
<1> SUFFICES ASSUME Init PROVE EdgeInv
  OBVIOUS
<1> USE IngestAssumption DEF Init
<1>1. IdsOnce
  BY DEF IdsOnce, Table, Known, Rows, Places
<1>2. Held
  BY DEF Held, Log, Row, Backfill
<1>3. LostOnlyToDeletion
  BY DEF LostOnlyToDeletion
<1> QED BY <1>1, <1>2, <1>3 DEF EdgeInv

(* Nothing this argument is about changes.                                 *)
LEMMA EdgeUnchanged ==
  ASSUME EdgeInv, UNCHANGED <<table, serial, cache, list, got, pc, rows>>,
         failed => failed'
  PROVE  EdgeInv'
BY DEF EdgeInv, IdsOnce, Table, Known, Held, LostOnlyToDeletion, Registered

(* A code registered anew gets an id nobody holds.                         *)
LEMMA EdgeCreated ==
  ASSUME EdgeInv, NEW c \in Codes, NEW at \in Places, CreateEdge(c, at)
  PROVE  EdgeInv'
<1> USE IngestAssumption DEF EdgeInv
<1> DEFINE row == [id |-> serial, at |-> at]
<1>1. /\ table' = [table EXCEPT ![c] = row] /\ serial' = serial + 1
      /\ UNCHANGED <<cache, list, got, pc, rows, failed>>
  BY DEF CreateEdge, Change, cached, workers
<1>2. serial' \in Nat /\ Known \subseteq Known' /\ row \in Known'
  BY <1>1 DEF IdsOnce, Known, Rows
<1>3. Table \subseteq Table'
  BY <1>2 DEF Table
<1>4. IdsOnce'
  <2>1. table' \in Table'
    BY <1>1, <1>2, <1>3 DEF IdsOnce, Table
  <2> QED BY <1>1, <1>2, <1>3, <2>1 DEF IdsOnce
<1>5. Held'
  BY <1>1 DEF Held, Log
<1>6. ASSUME NEW d \in Codes, table'[d] # NoEdge, table'[d].id < serial
      PROVE  table[d] # NoEdge /\ table[d].id = table'[d].id
  <2>1. d # c
    BY <1>1, <1>6 DEF IdsOnce, Table
  <2> QED BY <2>1, <1>1, <1>6 DEF IdsOnce, Table
<1>7. LostOnlyToDeletion'
  <2> SUFFICES ASSUME NEW f \in Frames, pc'[f] = "acked",
                      NEW d \in Codes, table'[d] # NoEdge, table'[d].id = got'[f].id
               PROVE  (\E r \in rows' : r.frame = f) \/ failed'
    BY DEF LostOnlyToDeletion, Registered
  <2>1. got[f] \in Known /\ got'[f] = got[f]
    BY <1>1 DEF IdsOnce, Held
  <2>2. table'[d].id < serial
    BY <2>1 DEF Known, Rows
  <2> QED BY <1>1, <1>6, <2>1, <2>2 DEF LostOnlyToDeletion, Registered
<1> QED BY <1>4, <1>5, <1>7

(* A move keeps the id, a deletion ends it; a report keeps its row.        *)
LEMMA EdgeChanged ==
  ASSUME EdgeInv, NEW c \in Codes,
         (\E at \in Places : UpdateEdge(c, at)) \/ DeleteEdge(c)
  PROVE  EdgeInv'
<1> USE IngestAssumption DEF EdgeInv
<1>1. UNCHANGED <<serial, cache, list, got, pc, failed>>
  BY DEF UpdateEdge, DeleteEdge, Change, cached, workers
<1>2. table[c] \in Known
  BY DEF IdsOnce, Table, UpdateEdge, DeleteEdge
<1>3. /\ table' \in Table
      /\ \A d \in Codes : table'[d] # NoEdge =>
           table[d] # NoEdge /\ table'[d].id = table[d].id
  BY <1>2 DEF IdsOnce, Table, Known, Rows, UpdateEdge, DeleteEdge, Change
<1>4. rows' \subseteq Log /\ \A r \in rows : \E q \in rows' : q.frame = r.frame
  <2>1. CASE \E at \in Places : UpdateEdge(c, at)
    BY <2>1 DEF UpdateEdge, Held
  <2>2. CASE DeleteEdge(c)
    <3> DEFINE cut(r) == IF r.edge = table[c].id THEN [r EXCEPT !.edge = 0] ELSE r
    <3>1. rows' = {cut(r) : r \in rows}
      BY <2>2 DEF DeleteEdge
    <3>2. \A r \in rows : cut(r) \in Log /\ cut(r).frame = r.frame
      BY DEF Held, Log
    <3> QED BY <3>1, <3>2
  <2> QED BY <2>1, <2>2
<1>5. IdsOnce'
  BY <1>1, <1>3 DEF IdsOnce, Table, Known
<1>6. Held'
  BY <1>1, <1>4 DEF Held, Log
<1>7. \A i : Registered(i)' => Registered(i)
  BY <1>3 DEF Registered
<1>8. LostOnlyToDeletion'
  BY <1>1, <1>4, <1>7 DEF LostOnlyToDeletion
<1> QED BY <1>5, <1>6, <1>8

(* A worker resolves its target to what some list held, or to nothing.     *)
LEMMA EdgeWorker ==
  ASSUME EdgeInv, NEW f \in Frames,
         \/ Report(f) \/ Lookup(f) \/ ListEdges(f) \/ ListFails(f) \/ StoreEdges(f)
         \/ Decode(f)
  PROVE  EdgeInv'
<1> USE IngestAssumption DEF EdgeInv, registry, cached
<1>1. UNCHANGED <<table, serial, rows>> /\ (failed => failed')
  BY DEF Report, Lookup, ListEdges, ListFails, StoreEdges, Decode
<1>2. /\ pc' = [pc EXCEPT ![f] = pc'[f]]
      /\ got' = [got EXCEPT ![f] = got'[f]]
      /\ list' = [list EXCEPT ![f] = list'[f]]
  BY DEF Report, Lookup, ListEdges, ListFails, StoreEdges, Decode, Resolve, IdsOnce, Held
<1>3. cache' \in {NoCache} \cup Table
  BY DEF Report, Lookup, ListEdges, ListFails, StoreEdges, Decode, IdsOnce, Held
<1>4. list'[f] \in {NoCache} \cup Table /\ (pc'[f] = "listed" => list'[f] # NoCache)
  <2>1. CASE Report(f) \/ Lookup(f) \/ Decode(f)
    BY <2>1 DEF Report, Lookup, Decode, Resolve, IdsOnce, Held
  <2>2. CASE ListEdges(f)
    <3>1. NoCache \notin Table
      BY DEF Table, Known, Rows
    <3> QED BY <2>2, <3>1 DEF ListEdges, IdsOnce, Held
  <2>3. CASE ListFails(f)
    BY <2>3 DEF ListFails, Resolve, IdsOnce, Held
  <2>4. CASE StoreEdges(f)
    BY <2>4 DEF StoreEdges, Resolve, IdsOnce, Held
  <2> QED BY <2>1, <2>2, <2>3, <2>4
<1>5. /\ got'[f] \in {NoEdge} \cup Known
      /\ pc'[f] \in {"deliver", "insert"} => got'[f] # NoEdge
      /\ pc'[f] # "acked"
  BY DEF Report, Lookup, ListEdges, ListFails, StoreEdges, Decode, Resolve, InCache,
         IdsOnce, Held, Table
<1>6. IdsOnce'
  BY <1>1, <1>2, <1>3, <1>4, <1>5 DEF IdsOnce, Table, Known
<1>7. /\ pc' = [g \in Frames |-> pc'[g]]
      /\ \A g \in Frames \ {f} : pc'[g] = pc[g] /\ got'[g] = got[g] /\ list'[g] = list[g]
  BY <1>2 DEF IdsOnce, Held
<1>8. Held'
  BY <1>1, <1>4, <1>5, <1>7 DEF Held, Log
<1>9. LostOnlyToDeletion'
  BY <1>1, <1>5, <1>7 DEF LostOnlyToDeletion, Registered
<1> QED BY <1>6, <1>8, <1>9

(* The row is refused only for an edge that is gone.                       *)
LEMMA EdgeInserted ==
  ASSUME EdgeInv, NEW f \in Frames, Insert(f)
  PROVE  EdgeInv'
<1> USE IngestAssumption DEF EdgeInv, registry, cached
<1>1. UNCHANGED <<table, serial, cache, list, got>> /\ (failed => failed')
  BY DEF Insert
<1>2. pc[f] = "insert" /\ pc' = [pc EXCEPT ![f] = "acked"]
  BY DEF Insert
<1>3. got[f] \in Known
  BY <1>2 DEF IdsOnce, Held
<1>4. /\ rows \subseteq rows' /\ rows' \subseteq Log
      /\ (\E r \in rows' : r.frame = f) \/ ~ Registered(got[f].id) \/ failed'
  <2> DEFINE row == Row(f, got[f].id, Target[f])
  <2>1. row \in Log /\ row.frame = f
    BY <1>3 DEF Row, Log, Known, Rows
  <2>2. \/ rows' = rows \cup {row}
        \/ rows' = rows /\ (~ Registered(got[f].id) \/ failed')
    BY DEF Insert
  <2> QED BY <2>1, <2>2 DEF Held
<1>5. IdsOnce'
  BY <1>1 DEF IdsOnce, Table, Known
<1>6. Held'
  BY <1>1, <1>2, <1>3, <1>4 DEF Held, Log
<1>7. LostOnlyToDeletion'
  BY <1>1, <1>2, <1>4 DEF LostOnlyToDeletion, Registered, Held
<1> QED BY <1>5, <1>6, <1>7

(* Every step keeps ids unique and rows where they are.                    *)
LEMMA EdgeNext == EdgeInv /\ [Next]_vars => EdgeInv'
<1> SUFFICES ASSUME EdgeInv, [Next]_vars PROVE EdgeInv'
  OBVIOUS
<1>1. CASE Edges
  BY <1>1, EdgeCreated, EdgeChanged DEF Edges
<1>2. CASE Tick
  BY <1>2, EdgeUnchanged DEF Tick
<1>3. CASE Ship
  BY <1>3, EdgeUnchanged DEF Ship, InsertSchema, InsertFails, BroadcastSchema, Join, ReadSchema,
     ReadSchemaFails, SendSchema, HearSchema, registry, cached, workers
<1>4. CASE Workers
  BY <1>4, EdgeWorker, EdgeInserted DEF Workers
<1>5. CASE UNCHANGED vars
  BY <1>5, EdgeUnchanged DEF vars, registry, cached, workers
<1> QED BY <1>1, <1>2, <1>3, <1>4, <1>5 DEF Next

(* "a packet that survived up to five radio hops must not vanish": an      *)
(* acknowledged report has its row, unless the very edge it was resolved   *)
(* to is not registered any more, or a query failed.                       *)
THEOREM NoReportLost == Spec => []LostOnlyToDeletion
<1>1. EdgeInv => LostOnlyToDeletion
  BY DEF EdgeInv
<1> QED BY EdgeInit, EdgeNext, <1>1, PTL DEF Spec

-----------------------------------------------------------------------------
(* What a ship packs for a schema is what the schema wants.                *)
LEMMA PackedCoerces ==
  ASSUME NEW s, ValidateSchemaFields(s), DOMAIN s # {}, NEW p \in BuildPayload(s)
  PROVE  Problems(p, s) = {}
<1>1. PICK float \in {"float", "whole"}, fish \in {4, 8} :
        p = [n \in DOMAIN s |-> Sample(s[n], float, fish)]
  BY DEF BuildPayload
<1>2. ASSUME NEW t \in FieldTypes PROVE Coerces(Sample(t, float, fish), t)
  <2>1. /\ t.kind \in {"float", "int", "bool", "string"}
        /\ t.kind = "string" => t.size \in 1 .. 242
    BY <1>2 DEF FieldTypes, Type
  <2>2. CASE t.kind = "float"
    BY <2>2 DEF Sample, Value, Coerces
  <2>3. CASE t.kind = "int"
    BY <2>3 DEF Sample, Value, Coerces
  <2>4. CASE t.kind = "bool"
    BY <2>4 DEF Sample, Value, Coerces
  <2>5. CASE t.kind = "string"
    <3> DEFINE len == IF fish < t.size THEN fish ELSE t.size
    <3>1. Sample(t, float, fish) = Value("string", len)
      BY <2>5 DEF Sample
    <3>2. len <= t.size
      BY <2>1, <2>5
    <3> QED BY <2>5, <3>1, <3>2 DEF Coerces, Value
  <2> QED BY <2>1, <2>2, <2>3, <2>4, <2>5
<1> QED BY <1>1, <1>2 DEF Problems, ValidateSchemaFields

(* Decoding keeps every value, up to the type of a whole number.           *)
LEMMA DecodeKeeps ==
  ASSUME NEW p, NEW s, NEW n \in DOMAIN p
  PROVE  /\ n \in DOMAIN DecodePayload(p, s).values
         /\ \/ DecodePayload(p, s).values[n] = p[n]
            \/ {p[n].kind, DecodePayload(p, s).values[n].kind} = {"int", "whole"}
<1>1. DecodePayload(p, s).values = [m \in DOMAIN p \cup DOMAIN s |-> Decoded(p, s, m)]
  BY DEF DecodePayload
<1>2. Decoded(p, s, n) = p[n] \/ {p[n].kind, Decoded(p, s, n).kind} = {"int", "whole"}
  BY DEF Decoded, Coerced, Value
<1> QED BY <1>1, <1>2

(* Every id on its way to a ship is that of a schema that was validated.   *)
Schemata ==
  /\ injected \in Seq(Schemas)
  /\ \A i \in 1 .. Active : ValidateSchemaFields(injected[i])
  /\ unsent \subseteq 1 .. Active
  /\ carried \in 0 .. Active /\ fields \in 0 .. Active
  /\ box \in Seq(Nat) /\ \A i \in 1 .. Len(box) : box[i] \in 1 .. Active

(* A report on its way was packed for the schema it says.                  *)
Packed ==
  /\ pc = [f \in Frames |-> pc[f]]
  /\ packed = [f \in Frames |-> packed[f]] /\ decoded = [f \in Frames |-> decoded[f]]
  /\ \A f \in Frames :
       /\ pc[f] # "idle" => /\ packed[f].id \in 0 .. Active
                            /\ packed[f].payload \in BuildPayload(Fields(packed[f].id))
       /\ pc[f] \notin {"insert", "acked"} => decoded[f].problems = {}

PayloadInv == Schemata /\ Packed /\ NothingVanishes /\ FlaggedOnlyWhenChanged

(* No schema, no report at first.                                          *)
LEMMA PayloadInit == Init => PayloadInv
<1> SUFFICES ASSUME Init PROVE PayloadInv
  OBVIOUS
<1>1. Schemata
  BY DEF Init, Schemata, Active
<1>2. Packed
  BY DEF Init, Packed
<1>3. NothingVanishes /\ FlaggedOnlyWhenChanged
  BY DEF Init, NothingVanishes, FlaggedOnlyWhenChanged
<1> QED BY <1>1, <1>2, <1>3 DEF PayloadInv

(* Nothing of schemas in use or reports changes.                           *)
LEMMA PayloadUnchanged ==
  ASSUME PayloadInv, UNCHANGED <<injected, pc, packed, decoded>>, Schemata'
  PROVE  PayloadInv'
BY DEF PayloadInv, Packed, NothingVanishes, FlaggedOnlyWhenChanged, Active, Fields

(* A new schema leaves the ones that reports were packed for as they are.  *)
LEMMA SchemaInserted ==
  ASSUME PayloadInv, NEW s \in Schemas, InsertSchema(s) \/ InsertFails(s)
  PROVE  PayloadInv'
<1> USE DEF PayloadInv
<1>1. /\ injected' = Append(injected, s) /\ ValidateSchemaFields(s)
      /\ unsent' \in {unsent, unsent \cup {Len(injected) + 1}}
      /\ UNCHANGED <<carried, fields, box, pc, packed, decoded>>
  BY DEF InsertSchema, InsertFails, workers
<1>2. /\ injected' \in Seq(Schemas) /\ Len(injected') = Len(injected) + 1
      /\ injected'[Len(injected) + 1] = s
      /\ \A i \in 1 .. Len(injected) : injected'[i] = injected[i]
  BY <1>1 DEF Schemata
<1>3. Schemata'
  <2>1. \A i \in 1 .. Active' : ValidateSchemaFields(injected'[i])
    BY <1>1, <1>2 DEF Schemata, Active
  <2>2. /\ unsent' \subseteq 1 .. Active' /\ carried' \in 0 .. Active'
        /\ fields' \in 0 .. Active'
    <3>1. Len(injected) \in Nat
      BY DEF Schemata
    <3>2. 0 .. Active \subseteq 0 .. Active' /\ 1 .. Active \subseteq 1 .. Active'
      BY <1>2, <3>1 DEF Active
    <3>3. Len(injected) + 1 \in 1 .. Active'
      BY <1>2, <3>1 DEF Active
    <3> QED BY <1>1, <3>2, <3>3 DEF Schemata
  <2>3. box' \in Seq(Nat) /\ \A i \in 1 .. Len(box') : box'[i] \in 1 .. Active'
    BY <1>1, <1>2 DEF Schemata, Active
  <2> QED BY <1>2, <2>1, <2>2, <2>3 DEF Schemata, Active
<1>4. \A i \in 0 .. Active : Fields(i)' = Fields(i)
  BY <1>2 DEF Fields, Active
<1>5. Packed'
  BY <1>1, <1>2, <1>4 DEF Packed, Active, Schemata
<1>6. NothingVanishes' /\ FlaggedOnlyWhenChanged'
  BY <1>1 DEF NothingVanishes, FlaggedOnlyWhenChanged
<1> QED BY <1>3, <1>5, <1>6

(* Sending a schema out changes only which ids are on their way.           *)
LEMMA SchemaSteps ==
  ASSUME PayloadInv,
         \/ \E id \in unsent : BroadcastSchema(id)
         \/ Join \/ ReadSchema \/ ReadSchemaFails \/ SendSchema \/ HearSchema
  PROVE  PayloadInv'
<1> USE DEF PayloadInv, Active, workers
<1>1. UNCHANGED <<injected, pc, packed, decoded>>
  BY DEF BroadcastSchema, Join, ReadSchema, ReadSchemaFails, SendSchema, HearSchema
<1>2. /\ unsent' \subseteq 1 .. Active /\ carried' \in 0 .. Active /\ fields' \in 0 .. Active
  <2>1. CASE \E id \in unsent : BroadcastSchema(id)
    BY <2>1 DEF BroadcastSchema, Schemata
  <2>2. CASE Join \/ ReadSchema \/ ReadSchemaFails \/ SendSchema
    <3>1. Len(injected) \in Nat
      BY DEF Schemata
    <3>2. carried' \in {carried, Active, 0}
      BY <2>2 DEF Join, ReadSchema, ReadSchemaFails, SendSchema
    <3>3. UNCHANGED <<unsent, fields>>
      BY <2>2 DEF Join, ReadSchema, ReadSchemaFails, SendSchema
    <3> QED BY <3>1, <3>2, <3>3 DEF Schemata
  <2>3. CASE HearSchema
    <3>1. Len(box) > 0 /\ Head(box) = box[1]
      BY <2>3 DEF HearSchema, Schemata
    <3> QED BY <2>3, <3>1 DEF HearSchema, Schemata
  <2> QED BY <2>1, <2>2, <2>3
<1>3. \/ \E id \in 1 .. Active : box' = Append(box, id)
      \/ box # <<>> /\ box' = Tail(box)
      \/ box' = box
  <2>1. CASE \E id \in unsent : BroadcastSchema(id)
    BY <2>1 DEF BroadcastSchema, Send, Schemata
  <2>2. CASE SendSchema
    <3>1. carried # 0 => carried \in 1 .. Active
      BY DEF Schemata
    <3> QED BY <2>2, <3>1 DEF SendSchema, Send
  <2>3. CASE Join \/ ReadSchema \/ ReadSchemaFails \/ HearSchema
    BY <2>3 DEF Join, ReadSchema, ReadSchemaFails, HearSchema
  <2> QED BY <2>1, <2>2, <2>3
<1>4. box' \in Seq(Nat) /\ \A i \in 1 .. Len(box') : box'[i] \in 1 .. Active
  <2>1. ASSUME NEW id \in 1 .. Active, box' = Append(box, id)
        PROVE  box' \in Seq(Nat) /\ \A i \in 1 .. Len(box') : box'[i] \in 1 .. Active
    BY <2>1 DEF Schemata
  <2>2. CASE box # <<>> /\ box' = Tail(box)
    BY <2>2 DEF Schemata
  <2> QED BY <1>3, <2>1, <2>2 DEF Schemata
<1>5. Schemata'
  BY <1>1, <1>2, <1>4 DEF Schemata
<1> QED BY <1>1, <1>5, PayloadUnchanged

(* Only Report packs, only Decode decodes.                                 *)
LEMMA PayloadWorker ==
  ASSUME PayloadInv, NEW f \in Frames,
         \/ Report(f) \/ Lookup(f) \/ ListEdges(f) \/ ListFails(f) \/ StoreEdges(f)
         \/ Decode(f) \/ Insert(f)
  PROVE  PayloadInv'
<1> USE DEF PayloadInv
<1>1. Schemata' /\ UNCHANGED injected
  BY DEF Report, Lookup, ListEdges, ListFails, StoreEdges, Decode, Insert, ship, Schemata,
         Active
<1>2. CASE Report(f)
  <2>1. /\ packed' = [packed EXCEPT ![f] = packed'[f]] /\ UNCHANGED decoded
        /\ pc' = [pc EXCEPT ![f] = pc'[f]] /\ pc'[f] \in {"oversized", "heard"}
        /\ pc[f] = "idle"
        /\ packed'[f].id = fields /\ packed'[f].payload \in BuildPayload(Fields(fields))
    BY <1>2 DEF Report, Packed
  <2>2. Packed'
    BY <1>1, <2>1 DEF Packed, Schemata, Fields, Active
  <2>3. NothingVanishes'
    BY <2>1 DEF Packed, NothingVanishes
  <2>4. FlaggedOnlyWhenChanged'
    BY <2>1 DEF Packed, FlaggedOnlyWhenChanged
  <2> QED BY <1>1, <2>2, <2>3, <2>4
<1>3. CASE Lookup(f) \/ ListEdges(f) \/ ListFails(f) \/ StoreEdges(f) \/ Insert(f)
  <2>1. /\ UNCHANGED <<packed, decoded>> /\ pc' = [pc EXCEPT ![f] = pc'[f]]
        /\ pc[f] # "idle"
        /\ pc'[f] \in {"insert", "acked"} => pc[f] \in {"insert", "acked"}
        /\ pc[f] \in {"insert", "acked"} => pc'[f] \in {"insert", "acked"}
    BY <1>3 DEF Lookup, ListEdges, ListFails, StoreEdges, Insert, Resolve, Packed
  <2>2. Packed'
    BY <1>1, <2>1 DEF Packed, Fields, Active
  <2>3. NothingVanishes' /\ FlaggedOnlyWhenChanged'
    BY <2>1 DEF Packed, NothingVanishes, FlaggedOnlyWhenChanged
  <2> QED BY <1>1, <2>2, <2>3
<1>4. CASE Decode(f)
  <2> DEFINE p == packed[f].payload
             s == Fields(Active)
             d == DecodePayload(p, s)
  <2>1. /\ UNCHANGED packed /\ pc[f] = "deliver" /\ pc' = [pc EXCEPT ![f] = "insert"]
        /\ decoded' = [decoded EXCEPT ![f] = decoded'[f]]
        /\ \/ decoded'[f] = [values |-> p, problems |-> {}, id |-> 0]
           \/ /\ Active # 0
              /\ decoded'[f] = [values |-> d.values, problems |-> d.problems, id |-> Active]
    BY <1>4 DEF Decode, Packed
  <2>2. Packed'
    BY <1>1, <2>1 DEF Packed, Fields, Active
  <2>3. ASSUME NEW n \in DOMAIN p
        PROVE  /\ n \in DOMAIN decoded'[f].values
               /\ \/ decoded'[f].values[n] = p[n]
                  \/ {p[n].kind, decoded'[f].values[n].kind} = {"int", "whole"}
    <3>1. CASE decoded'[f] = [values |-> p, problems |-> {}, id |-> 0]
      BY <3>1
    <3>2. CASE decoded'[f].values = d.values
      <4>1. /\ n \in DOMAIN d.values
            /\ d.values[n] = p[n] \/ {p[n].kind, d.values[n].kind} = {"int", "whole"}
        BY DecodeKeeps
      <4> HIDE DEF d
      <4> QED BY <3>2, <4>1
    <3> QED BY <2>1, <3>1, <3>2
  <2>4. NothingVanishes'
    <3> SUFFICES ASSUME NEW g \in Frames, pc'[g] \in {"insert", "acked"},
                        NEW n \in DOMAIN packed[g].payload
                 PROVE  /\ n \in DOMAIN decoded'[g].values
                        /\ \/ decoded'[g].values[n] = packed[g].payload[n]
                           \/ {packed[g].payload[n].kind, decoded'[g].values[n].kind}
                                = {"int", "whole"}
      BY <2>1 DEF NothingVanishes
    <3>1. CASE g = f
      BY <2>3, <3>1
    <3>2. CASE g # f
      <4>1. pc[g] \in {"insert", "acked"} /\ decoded'[g] = decoded[g]
        BY <2>1, <3>2 DEF Packed
      <4> QED BY <4>1 DEF NothingVanishes
    <3> QED BY <3>1, <3>2
  <2>5. ASSUME Active # 0, packed[f].id = Active PROVE d.problems = {}
    <3>1. ValidateSchemaFields(s)
      BY <2>5 DEF Schemata, Fields, Active
    <3>2. p \in BuildPayload(s)
      BY <2>1, <2>5 DEF Packed
    <3>3. DOMAIN s # {}
      <4>1. Cardinality({}) = 0
        BY FS_EmptySet
      <4> QED BY <3>1, <4>1 DEF ValidateSchemaFields
    <3> QED BY <3>1, <3>2, <3>3, PackedCoerces DEF DecodePayload
  <2>6. FlaggedOnlyWhenChanged'
    BY <2>1, <2>5 DEF Packed, FlaggedOnlyWhenChanged
  <2> QED BY <1>1, <2>2, <2>4, <2>6
<1> QED BY <1>2, <1>3, <1>4

(* Every step keeps reports packed for a validated schema and decoded      *)
(* whole.                                                                  *)
LEMMA PayloadNext == PayloadInv /\ [Next]_vars => PayloadInv'
<1> SUFFICES ASSUME PayloadInv, [Next]_vars PROVE PayloadInv'
  OBVIOUS
<1>1. CASE Edges \/ Tick \/ UNCHANGED vars
  <2>1. UNCHANGED <<injected, unsent, carried, fields, box, pc, packed, decoded>>
    BY <1>1 DEF Edges, CreateEdge, UpdateEdge, DeleteEdge, Change, Tick, vars, ship, workers
  <2> QED BY <2>1, PayloadUnchanged DEF PayloadInv, Schemata, Active
<1>2. CASE Ship
  BY <1>2, SchemaInserted, SchemaSteps DEF Ship
<1>3. CASE Workers
  BY <1>3, PayloadWorker DEF Workers
<1> QED BY <1>1, <1>2, <1>3 DEF Next

(* Whatever schema is injected while a report is on its way, its row holds *)
(* every value the ship packed ("must not vanish at the Edge").            *)
THEOREM NoValueLost == Spec => []NothingVanishes
<1>1. PayloadInv => NothingVanishes
  BY DEF PayloadInv
<1> QED BY PayloadInit, PayloadNext, <1>1, PTL DEF Spec

(* The problems of a row come from a schema that changed under way, never  *)
(* from how ships pack and the server decodes one and the same schema.     *)
THEOREM FlagsMeanChange == Spec => []FlaggedOnlyWhenChanged
<1>1. PayloadInv => FlaggedOnlyWhenChanged
  BY DEF PayloadInv
<1> QED BY PayloadInit, PayloadNext, <1>1, PTL DEF Spec

-----------------------------------------------------------------------------
(* How old what a report is resolved to may be: a list is as old as its    *)
(* worker has waited, the cache, while it is fresh, at most Latency older  *)
(* than its age.                                                           *)
Clock ==
  /\ past = [i \in 1 .. TTL + Latency |-> past[i]]
  /\ age \in 0 .. TTL
  /\ wait \in [Frames -> 0 .. Latency]
  /\ \A f \in Frames : pc[f] # "listed" => wait[f] = 0


(* A table of at most n ticks ago.                                         *)
Seen(t, n) == \E i \in 1 .. n + 1 : t \in past[i]

Recent ==
  /\ Seen(table, 0)
  /\ \A f \in Frames : pc[f] = "listed" => Seen(list[f], wait[f])
  /\ cache # NoCache /\ age < TTL => Seen(cache, age + Latency)

AgeInv == Clock /\ Recent

(* What StaleBound says of a step.                                         *)
Resolved ==
  \A f \in Frames :
    pc[f] \in {"heard", "listed"} /\ pc'[f] \in {"target_offline", "deliver"} =>
      \E t \in UNION {past[i] : i \in DOMAIN past} : got'[f] = t[Target[f]]

(* The table at first is on record for as long as anyone may ask.          *)
LEMMA AgeInit == Init => AgeInv
<1> SUFFICES ASSUME Init PROVE AgeInv
  OBVIOUS
<1> USE IngestAssumption
<1>1. Clock
  BY DEF Init, Clock
<1>2. Recent
  BY DEF Init, Recent, Seen
<1> QED BY <1>1, <1>2 DEF AgeInv

(* A change of the registry is on record at once.                          *)
LEMMA AgeChanged ==
  ASSUME AgeInv, NEW t, Change(t)
  PROVE  AgeInv'
<1> USE IngestAssumption DEF AgeInv
<1>1. /\ table' = t /\ past' = [past EXCEPT ![1] = @ \cup {t}]
      /\ UNCHANGED <<cache, age, wait, list, pc>>
  BY DEF Change, cached, workers
<1>2. past' = [i \in 1 .. TTL + Latency |-> past'[i]]
  BY <1>1 DEF Clock
<1>3. \A i \in 1 .. TTL + Latency : past[i] \subseteq past'[i]
  BY <1>1 DEF Clock
<1>4. t \in past'[1]
  BY <1>1 DEF Clock
<1>5. Clock'
  BY <1>1, <1>2 DEF Clock
<1>6. ASSUME NEW u, NEW n \in 0 .. TTL + Latency - 1, Seen(u, n)
      PROVE  \E i \in 1 .. n + 1 : u \in past'[i]
  BY <1>3, <1>6 DEF Seen
<1>7. Recent'
  <2>1. Seen(table, 0)'
    BY <1>1, <1>4 DEF Seen
  <2>2. ASSUME NEW f \in Frames, pc[f] = "listed" PROVE Seen(list[f], wait[f])'
    <3>1. wait[f] \in 0 .. TTL + Latency - 1
      BY DEF Clock
    <3> QED BY <1>1, <1>6, <2>2, <3>1 DEF Recent, Seen
  <2>3. ASSUME cache # NoCache, age < TTL PROVE Seen(cache, age + Latency)'
    <3>1. age + Latency \in 0 .. TTL + Latency - 1
      BY <2>3 DEF Clock
    <3> QED BY <1>1, <1>6, <2>3, <3>1 DEF Recent, Seen
  <2> QED BY <1>1, <2>1, <2>2, <2>3 DEF Recent
<1> QED BY <1>5, <1>7

(* A tick makes everything one tick older, and the cache stale in time.    *)
LEMMA AgeTick ==
  ASSUME AgeInv, EdgeInv, Tick
  PROVE  AgeInv'
<1> USE IngestAssumption DEF AgeInv
<1>1. /\ \A f \in Frames : pc[f] = "listed" => wait[f] < Latency
      /\ wait' = [f \in Frames |-> IF pc[f] = "listed" THEN wait[f] + 1 ELSE 0]
      /\ age' = IF age < TTL THEN age + 1 ELSE TTL
      /\ UNCHANGED <<table, cache, list, pc>>
  BY DEF Tick
<1>2. past' = [i \in 1 .. TTL + Latency |-> IF i = 1 THEN {table} ELSE past[i - 1]]
  BY DEF Tick, Clock
<1>3. Clock'
  BY <1>1, <1>2 DEF Clock
<1>4. ASSUME NEW u, NEW n \in 0 .. TTL + Latency - 2, Seen(u, n)
      PROVE  \E i \in 1 .. n + 2 : u \in past'[i]
  <2>1. PICK i \in 1 .. n + 1 : u \in past[i]
    BY <1>4 DEF Seen
  <2>2. i + 1 \in 1 .. TTL + Latency /\ i + 1 # 1 /\ (i + 1) - 1 = i
    BY <2>1
  <2>3. past'[i + 1] = past[i]
    BY <1>2, <2>2
  <2> QED BY <2>1, <2>2, <2>3
<1>5. Recent'
  <2>1. Seen(table, 0)'
    BY <1>1, <1>2 DEF Seen
  <2>2. ASSUME NEW f \in Frames, pc[f] = "listed" PROVE Seen(list[f], wait[f])'
    <3>1. wait[f] \in 0 .. TTL + Latency - 2 /\ wait'[f] = wait[f] + 1
      BY <1>1, <2>2 DEF Clock
    <3>2. \E i \in 1 .. wait[f] + 2 : list[f] \in past'[i]
      BY <1>4, <2>2, <3>1 DEF Recent
    <3> QED BY <1>1, <3>1, <3>2 DEF Seen
  <2>3. ASSUME cache # NoCache, age' < TTL PROVE Seen(cache, age + Latency)'
    <3>1. age + Latency \in 0 .. TTL + Latency - 2 /\ age' = age + 1 /\ age < TTL
          /\ age \in 0 .. TTL
      BY <1>1, <2>3 DEF Clock
    <3>2. \E i \in 1 .. (age + Latency) + 2 : cache \in past'[i]
      BY <1>4, <2>3, <3>1 DEF Recent
    <3>3. (age + Latency) + 2 = age' + Latency + 1
      BY <3>1
    <3> QED BY <1>1, <3>2, <3>3 DEF Seen
  <2> QED BY <1>1, <2>1, <2>2, <2>3 DEF Recent
<1> QED BY <1>3, <1>5

(* A worker lists the table as it is now, and stores what it listed; what  *)
(* it resolves its target to is on record.                                 *)
LEMMA AgeWorker ==
  ASSUME AgeInv, EdgeInv, NEW f \in Frames,
         \/ Report(f) \/ Lookup(f) \/ ListEdges(f) \/ ListFails(f) \/ StoreEdges(f)
         \/ Decode(f) \/ Insert(f)
  PROVE  AgeInv' /\ Resolved
<1> USE IngestAssumption DEF AgeInv, registry, cached
<1>1. UNCHANGED <<table, past>>
  BY DEF Report, Lookup, ListEdges, ListFails, StoreEdges, Decode, Insert
<1>2. /\ pc' = [pc EXCEPT ![f] = pc'[f]]
      /\ list' = [list EXCEPT ![f] = list'[f]]
      /\ wait' = [wait EXCEPT ![f] = wait'[f]]
  BY DEF Report, Lookup, ListEdges, ListFails, StoreEdges, Decode, Insert, Resolve, EdgeInv,
         IdsOnce, Held, Clock
<1>3. \A g \in Frames \ {f} : pc'[g] = pc[g] /\ list'[g] = list[g] /\ wait'[g] = wait[g]
  BY <1>2 DEF EdgeInv, IdsOnce, Held, Clock
<1>4. /\ wait'[f] \in 0 .. Latency /\ (pc'[f] # "listed" => wait'[f] = 0)
      /\ age' \in 0 .. TTL
  BY DEF Report, Lookup, ListEdges, ListFails, StoreEdges, Decode, Insert, Resolve, EdgeInv,
         Held, Clock
<1>5. Clock'
  BY <1>1, <1>2, <1>3, <1>4 DEF Clock
<1>6. /\ pc'[f] = "listed" => Seen(list'[f], wait'[f])
      /\ \/ UNCHANGED cached
         \/ pc[f] = "listed" /\ cache' = list[f] /\ age' = 0
  <2>1. CASE ListEdges(f)
    <3>1. list'[f] = table /\ wait'[f] = 0 /\ UNCHANGED cached
      BY <2>1 DEF ListEdges, EdgeInv, IdsOnce, Clock
    <3> QED BY <3>1 DEF Recent
  <2>2. CASE Report(f) \/ Lookup(f) \/ ListFails(f) \/ StoreEdges(f) \/ Decode(f) \/ Insert(f)
    BY <2>2 DEF Report, Lookup, ListFails, StoreEdges, Decode, Insert, Resolve, EdgeInv,
       Held
  <2> QED BY <2>1, <2>2
<1>7. cache' # NoCache /\ age' < TTL => Seen(cache', age' + Latency)
  <2>1. CASE UNCHANGED cached
    BY <2>1 DEF Recent
  <2>2. CASE pc[f] = "listed" /\ cache' = list[f] /\ age' = 0
    <3>1. PICK i \in 1 .. wait[f] + 1 : list[f] \in past[i]
      BY <2>2 DEF Recent, Seen
    <3>2. wait[f] \in 0 .. Latency
      BY DEF Clock
    <3>3. i \in 1 .. age' + Latency + 1
      BY <2>2, <3>1, <3>2
    <3> QED BY <2>2, <3>1, <3>3 DEF Seen
  <2> QED BY <1>6, <2>1, <2>2
<1>8. Recent'
  <2>1. ASSUME NEW g \in Frames, pc'[g] = "listed" PROVE Seen(list'[g], wait'[g])
    BY <1>3, <1>6, <2>1 DEF Recent
  <2> QED BY <1>1, <1>7, <2>1 DEF Recent, Seen
<1>9. Resolved
  <2> SUFFICES ASSUME pc[f] \in {"heard", "listed"}, pc'[f] \in {"target_offline", "deliver"}
               PROVE  \E t \in UNION {past[i] : i \in DOMAIN past} : got'[f] = t[Target[f]]
    BY <1>3 DEF Resolved
  <2>1. DOMAIN past = 1 .. TTL + Latency
    BY DEF Clock
  <2>2. CASE pc[f] = "heard"
    <3>1. Fresh /\ got'[f] = cache[Target[f]]
      BY <2>2 DEF Report, Lookup, ListEdges, ListFails, StoreEdges, Decode, Insert, Resolve,
                  InCache, Fresh, EdgeInv, IdsOnce, Held
    <3>2. PICK i \in 1 .. age + Latency + 1 : cache \in past[i]
      BY <3>1 DEF Fresh, Recent, Seen
    <3>3. i \in DOMAIN past
      BY <2>1, <3>1, <3>2 DEF Fresh, Clock
    <3> QED BY <3>1, <3>2, <3>3
  <2>3. CASE pc[f] = "listed"
    <3>1. got'[f] = list[f][Target[f]]
      BY <2>3 DEF Report, Lookup, ListEdges, ListFails, StoreEdges, Decode, Insert, Resolve,
                  EdgeInv, IdsOnce, Held
    <3>2. PICK i \in 1 .. wait[f] + 1 : list[f] \in past[i]
      BY <2>3 DEF Recent, Seen
    <3>3. i \in DOMAIN past
      BY <2>1, <3>2 DEF Clock
    <3> QED BY <3>1, <3>2, <3>3
  <2> QED BY <2>2, <2>3
<1> QED BY <1>5, <1>8, <1>9

(* Every step keeps track of ages, and resolves to what is on record.      *)
LEMMA AgeNext == AgeInv /\ EdgeInv /\ [Next]_vars => AgeInv' /\ Resolved
<1> SUFFICES ASSUME AgeInv, EdgeInv, [Next]_vars PROVE AgeInv' /\ Resolved
  OBVIOUS
<1>1. CASE Edges
  <2>1. PICK t : Change(t)
    BY <1>1 DEF Edges, CreateEdge, UpdateEdge, DeleteEdge
  <2>2. Resolved
    BY <2>1 DEF Change, workers, Resolved
  <2> QED BY <2>1, <2>2, AgeChanged
<1>2. CASE Tick
  BY <1>2, AgeTick DEF Tick, Resolved
<1>3. CASE Ship \/ UNCHANGED vars
  <2>1. UNCHANGED <<table, past, cache, age, pc, list, wait>>
    BY <1>3 DEF Ship, InsertSchema, InsertFails, BroadcastSchema, Join, ReadSchema,
     ReadSchemaFails, SendSchema,
       HearSchema,
                registry, cached, workers, vars
  <2> QED BY <2>1 DEF AgeInv, Clock, Recent, Seen, Resolved
<1>4. CASE Workers
  BY <1>4, AgeWorker DEF Workers
<1> QED BY <1>1, <1>2, <1>3, <1>4 DEF Next

(* However many workers refresh the cache at once and whichever stores     *)
(* last (edgeCache.get), a report is resolved to what its code stood for   *)
(* no longer ago than the TTL and one query.                               *)
THEOREM StaleNoLonger == Spec => StaleBound
<1>1. AgeInv /\ EdgeInv /\ [Next]_vars =>
        [~ failed' =>
           \A f \in Frames :
             pc[f] \in {"heard", "listed"} /\ pc'[f] \in {"target_offline", "deliver"} =>
               \E t \in UNION {past[i] : i \in DOMAIN past} : got'[f] = t[Target[f]]]_vars
  BY AgeNext DEF Resolved
<1> QED BY EdgeInit, EdgeNext, AgeInit, AgeNext, <1>1, PTL DEF Spec, StaleBound

-----------------------------------------------------------------------------
(* Every row has the code of its edge: Backfill gave it to the old ones.   *)
Coded == \A r \in rows : r.code \in Codes

(* A step keeps every row, its report and its code.                        *)
LEMMA RowsCoded == Coded /\ EdgeInv /\ [Next]_vars =>
  Coded' /\ \A r \in rows : \E q \in rows' : q.frame = r.frame /\ q.code = r.code
<1> SUFFICES ASSUME Coded, EdgeInv, [Next]_vars
             PROVE  /\ Coded'
                    /\ \A r \in rows : \E q \in rows' :
                         q.frame = r.frame /\ q.code = r.code
  OBVIOUS
<1> USE IngestAssumption DEF Coded
<1>1. CASE UNCHANGED rows
  BY <1>1
<1>2. ASSUME NEW c \in Codes, DeleteEdge(c)
      PROVE  Coded' /\ \A r \in rows : \E q \in rows' : q.frame = r.frame /\ q.code = r.code
  <2> DEFINE cut(r) == IF r.edge = table[c].id THEN [r EXCEPT !.edge = 0] ELSE r
  <2>1. rows' = {cut(r) : r \in rows}
    BY <1>2 DEF DeleteEdge
  <2>2. \A r \in rows : cut(r).frame = r.frame /\ cut(r).code = r.code
    BY DEF EdgeInv, Held, Log
  <2> QED BY <2>1, <2>2
<1>3. ASSUME NEW f \in Frames, Insert(f)
      PROVE  Coded' /\ \A r \in rows : \E q \in rows' : q.frame = r.frame /\ q.code = r.code
  <2>1. rows' \in {rows, rows \cup {Row(f, got[f].id, Target[f])}}
    BY <1>3 DEF Insert
  <2> QED BY <2>1 DEF Row
<1>4. CASE Edges
  BY <1>1, <1>2, <1>4 DEF Edges, CreateEdge, UpdateEdge
<1>5. CASE Workers
  BY <1>1, <1>3, <1>5 DEF Workers, Report, Lookup, ListEdges, ListFails, StoreEdges, Decode
<1>6. CASE Tick \/ Ship \/ UNCHANGED vars
  BY <1>1, <1>6 DEF Tick, Ship, InsertSchema, InsertFails, BroadcastSchema, Join, ReadSchema,
     ReadSchemaFails, SendSchema,
                    HearSchema, vars
<1> QED BY <1>4, <1>5, <1>6 DEF Next

(* "so the name survives even if that edge is later deleted": the snapshot *)
(* of deliverToEdge, or of migration 0002, is what ListBySession lists.    *)
THEOREM EdgeNameSurvives == Spec => EdgeColumnKept
<1>1. Init => Coded
  BY IngestAssumption DEF Init, Coded, Backfill, Row
<1>2. Coded /\ EdgeInv /\ [Next]_vars =>
        [\A r \in rows : \E q \in rows' :
           q.frame = r.frame /\ EdgeColumn(r) = EdgeColumn(q)']_vars
  BY RowsCoded, IngestAssumption DEF Coded, EdgeColumn
<1> QED BY <1>1, <1>2, EdgeInit, EdgeNext, RowsCoded, PTL DEF Spec, EdgeColumnKept

-----------------------------------------------------------------------------
(* What the ship will hold when it has heard everything under way.         *)
Latest == IF box = <<>> THEN fields ELSE box[Len(box)]

(* A ship that should have a schema: NodeConnected is done with it, or a   *)
(* broadcast reached it.  The last one sent is the newest but while that   *)
(* is yet to be broadcast; and a NodeConnected that found none for a ship  *)
(* nothing was sent to finds none to be in force still.                    *)
News ==
  /\ join = "away" => Latest = 0
  /\ ~ behind /\ Active \notin unsent =>
       /\ join = "done" \/ Latest # 0 => Latest = Active
       /\ join = "carrying" /\ carried = 0 /\ Latest = 0 => Active = 0

(* What is sent is the latest.                                             *)
LEMMA Sent ==
  ASSUME Schemata, NEW id \in Nat, Send(id)
  PROVE  \/ behind'
         \/ box' # <<>> /\ Latest' = id /\ (id = Active \/ behind')
<1>1. box \in Seq(Nat)
  BY DEF Schemata
<1>2. CASE box' = Append(box, id) /\ behind' = (id # Active)
  <2>1. box' # <<>> /\ box'[Len(box')] = id
    BY <1>1, <1>2
  <2> QED BY <1>2, <2>1 DEF Latest
<1> QED BY <1>2 DEF Send

(* Every step keeps the ship up to date.                                   *)
LEMMA NewsNext == News /\ Schemata /\ [Next]_vars => News'
<1> SUFFICES ASSUME News, Schemata, [Next]_vars PROVE News'
  OBVIOUS
<1> USE DEF News, Active
<1>1. /\ Len(injected) \in Nat /\ box \in Seq(Nat) /\ unsent \subseteq Nat /\ carried \in Nat
      /\ \A i \in 1 .. Len(box) : box[i] # 0
  BY DEF Schemata
<1>2. ASSUME NEW s, InsertSchema(s) \/ InsertFails(s) PROVE News'
  <2>1. /\ Len(injected') = Len(injected) + 1
        /\ \/ Len(injected) + 1 \in unsent'
           \/ behind' = (behind \/ join # "away")
        /\ UNCHANGED <<box, fields, join, carried>>
    BY <1>2, <1>1 DEF InsertSchema, InsertFails
  <2>2. Latest' = Latest
    BY <2>1 DEF Latest
  <2> QED BY <2>1, <2>2
<1>3. ASSUME NEW id \in unsent, BroadcastSchema(id) PROVE News'
  <2>1. unsent' = unsent \ {id} /\ UNCHANGED <<injected, join, carried, fields>>
    BY <1>3 DEF BroadcastSchema
  <2>2. CASE join = "away"
    <3>1. UNCHANGED <<box, behind>>
      BY <1>3, <2>2 DEF BroadcastSchema
    <3>2. Latest' = Latest
      BY <2>1, <3>1 DEF Latest
    <3> QED BY <2>1, <2>2, <3>1, <3>2
  <2>3. CASE join # "away"
    <3>1. Send(id) /\ id \in Nat /\ id # 0
      BY <1>3, <2>3 DEF BroadcastSchema, Schemata
    <3>2. behind' \/ (Latest' = id /\ id = Len(injected))
      BY <3>1, Sent
    <3> QED BY <2>1, <2>3, <3>1, <3>2
  <2> QED BY <2>2, <2>3
<1>4. CASE Join \/ ReadSchema
  <2>1. /\ UNCHANGED <<injected, unsent, box, fields, behind>>
        /\ \/ join = "away" /\ join' = "due"
           \/ join' = "carrying" /\ carried' = Len(injected)
    BY <1>4 DEF Join, ReadSchema
  <2>2. Latest' = Latest
    BY <2>1 DEF Latest
  <2> QED BY <2>1, <2>2
<1>5. CASE SendSchema
  <2>1. /\ join = "carrying" /\ UNCHANGED <<injected, unsent, fields>> /\ join' = "done"
        /\ IF carried = 0 THEN UNCHANGED <<box, behind>> ELSE Send(carried)
    BY <1>5 DEF SendSchema
  <2>2. CASE carried # 0
    <3>1. behind' \/ (Latest' = carried /\ carried = Len(injected))
      BY <1>1, <2>1, <2>2, Sent
    <3> QED BY <2>1, <3>1
  <2>3. CASE carried = 0
    <3>1. Latest' = Latest
      BY <2>1, <2>3 DEF Latest
    <3> QED BY <2>1, <2>3, <3>1
  <2> QED BY <2>2, <2>3
<1>6. CASE ReadSchemaFails
  <2>1. /\ UNCHANGED <<injected, unsent, box, fields>> /\ join' = "done"
        /\ behind' = (behind \/ (box = <<>> /\ fields = 0))
    BY <1>6 DEF ReadSchemaFails
  <2>2. Latest' = Latest
    BY <2>1 DEF Latest
  <2>3. behind' \/ Latest # 0
    <3>1. CASE box = <<>>
      BY <2>1, <3>1 DEF Latest
    <3>2. CASE box # <<>>
      <4>1. Len(box) \in 1 .. Len(box)
        BY <1>1, <3>2, EmptySeq
      <4> QED BY <1>1, <3>2, <4>1 DEF Latest
    <3> QED BY <3>1, <3>2
  <2> QED BY <2>1, <2>2, <2>3
<1>7. CASE HearSchema
  <2>1. /\ box # <<>> /\ fields' = Head(box) /\ box' = Tail(box)
        /\ UNCHANGED <<injected, unsent, join, carried, behind>>
    BY <1>7 DEF HearSchema
  <2>2. Latest' = Latest
    <3>1. Head(box) = box[1] /\ Len(Tail(box)) = Len(box) - 1 /\ Len(box) \in Nat \ {0}
      BY <1>1, <2>1
    <3>2. CASE Len(box) = 1
      BY <1>1, <2>1, <3>1, <3>2 DEF Latest
    <3>3. CASE Len(box) # 1
      <4>1. Tail(box) # <<>> /\ Tail(box)[Len(box) - 1] = box[Len(box)]
        <5>1. \A i \in 1 .. Len(box) - 1 : Tail(box)[i] = box[i + 1]
          BY <1>1, <2>1, <3>1
        <5>2. Len(box) - 1 \in 1 .. Len(box) - 1 /\ (Len(box) - 1) + 1 = Len(box)
          BY <3>1, <3>3
        <5>3. Tail(box) # <<>>
          BY <3>1, <3>3
        <5> QED BY <5>1, <5>2, <5>3
      <4> QED BY <2>1, <3>1, <4>1 DEF Latest
    <3> QED BY <3>2, <3>3
  <2> QED BY <2>1, <2>2
<1>8. CASE Edges \/ Tick \/ Workers \/ UNCHANGED vars
  <2>1. UNCHANGED ship
    BY <1>8 DEF Edges, CreateEdge, UpdateEdge, DeleteEdge, Change, Tick, Workers, Report,
       Lookup,
      ListEdges, ListFails, StoreEdges, Decode, Insert, vars
  <2> QED BY <2>1 DEF ship, Latest
<1> QED BY <1>2, <1>3, <1>4, <1>5, <1>7, <1>8, <1>6 DEF Next, Ship

(* SetSchema and NodeConnected leave a ship with the newest schema, but    *)
(* for the losses that behind notes.                                       *)
THEOREM NewestSchemaArrives == Spec => []SchemaCurrent
<1>1. Init => News
  BY DEF Init, News, Active, Latest
<1>2. News => SchemaCurrent
  BY DEF News, SchemaCurrent, Latest
<1>3. PayloadInv => Schemata
  BY DEF PayloadInv
<1> QED BY <1>1, <1>2, <1>3, PayloadInit, PayloadNext, NewsNext, PTL DEF Spec

-----------------------------------------------------------------------------
(* The rest of the types.                                                  *)
Bounds ==
  /\ budget \in [changes: Nat, schemas: Nat, frames: SUBSET Frames,
                 faults: SUBSET {"infra", "shed"}]
  /\ join \in {"away", "due", "carrying", "done"}
  /\ behind \in BOOLEAN /\ failed \in BOOLEAN

Reports ==
  /\ pc \in [Frames -> {"idle", "oversized", "heard", "refresh", "listed", "lost",
                        "target_offline", "deliver", "insert", "acked"}]
  /\ \A f \in Frames :
       /\ DOMAIN packed[f].payload \subseteq Names /\ packed[f].id \in 0 .. Active
       /\ list[f] # NoCache <=> pc[f] = "listed"
       /\ decoded[f].problems \subseteq DOMAIN decoded[f].values

(* Steps keep these.                                                       *)
LEMMA BoundsNext == Bounds /\ [Next]_vars => Bounds'
<1> SUFFICES ASSUME Bounds, [Next]_vars PROVE Bounds'
  OBVIOUS
<1> USE DEF Bounds
<1>1. CASE Edges
  BY <1>1 DEF Edges, CreateEdge, UpdateEdge, DeleteEdge, Change, ship
<1>2. CASE Ship
  <2>1. ASSUME NEW s \in Schemas, InsertSchema(s) \/ InsertFails(s) PROVE Bounds'
    <3>1. budget' = [budget EXCEPT !.schemas = @ - 1] /\ budget.schemas > 0
      BY <2>1 DEF InsertSchema, InsertFails
    <3>2. behind' \in BOOLEAN /\ UNCHANGED <<join, failed>>
      BY <2>1 DEF InsertSchema, InsertFails
    <3> QED BY <3>1, <3>2
  <2>2. CASE \E id \in unsent : BroadcastSchema(id)
    BY <2>2 DEF BroadcastSchema, Send
  <2>3. CASE Join \/ ReadSchema \/ ReadSchemaFails \/ SendSchema \/ HearSchema
    BY <2>3 DEF Join, ReadSchema, ReadSchemaFails, SendSchema, Send, HearSchema
  <2> QED BY <1>2, <2>1, <2>2, <2>3 DEF Ship
<1>3. CASE Workers
  BY <1>3 DEF Workers, Report, Lookup, ListEdges, ListFails, StoreEdges, Decode, Insert,
     ship
<1>4. CASE Tick \/ UNCHANGED vars
  BY <1>4 DEF Tick, vars, ship
<1> QED BY <1>1, <1>2, <1>3, <1>4 DEF Next

(* A payload has the fields of a schema, or the three a ship reports       *)
(* without one.                                                            *)
LEMMA PayloadNames ==
  ASSUME PayloadInv, NEW id \in 0 .. Active, NEW p \in BuildPayload(Fields(id))
  PROVE  DOMAIN p \subseteq Names
<1> DEFINE s == Fields(id)
<1>1. DOMAIN s \subseteq Names
  <2>1. CASE id = 0
    BY <2>1 DEF Fields, NoFields
  <2>2. CASE id # 0
    <3>1. ValidateSchemaFields(injected[id])
      BY <2>2 DEF PayloadInv, Schemata, Active
    <3> QED BY <2>2, <3>1 DEF Fields, ValidateSchemaFields
  <2> QED BY <2>1, <2>2
<1>2. DOMAIN p = DOMAIN (IF DOMAIN s = {} THEN DefaultFields ELSE s)
  BY DEF BuildPayload
<1> QED BY <1>1, <1>2, PayloadAssumption DEF DefaultFields

(* What a worker packs, lists and decodes has its type.                    *)
LEMMA ReportsNext == Reports /\ EdgeInv /\ PayloadInv /\ [Next]_vars => Reports'
<1> SUFFICES ASSUME Reports, EdgeInv, PayloadInv, [Next]_vars PROVE Reports'
  OBVIOUS
<1> USE IngestAssumption
<1>1. CASE UNCHANGED <<pc, packed, list, decoded>> /\ 0 .. Active \subseteq (0 .. Active)'
  BY <1>1 DEF Reports
<1>2. CASE Edges \/ Tick \/ UNCHANGED vars
  BY <1>1, <1>2 DEF Edges, CreateEdge, UpdateEdge, DeleteEdge, Change, Tick, ship, workers,
     vars,
    Active
<1>3. CASE Ship
  <2>1. UNCHANGED <<pc, packed, list, decoded>>
    BY <1>3 DEF Ship, InsertSchema, InsertFails, BroadcastSchema, Join, ReadSchema,
     ReadSchemaFails, SendSchema,
       HearSchema,
      workers
  <2>2. injected' = injected \/ \E s \in Schemas : injected' = Append(injected, s)
    BY <1>3 DEF Ship, InsertSchema, InsertFails, BroadcastSchema, Join, ReadSchema,
     ReadSchemaFails, SendSchema,
       HearSchema
  <2>3. injected \in Seq(Schemas)
    BY DEF PayloadInv, Schemata
  <2>4. 0 .. Active \subseteq (0 .. Active)'
    BY <2>2, <2>3 DEF Active
  <2> QED BY <1>1, <2>1, <2>4
<1>4. ASSUME NEW f \in Frames,
             \/ Report(f) \/ Lookup(f) \/ ListEdges(f) \/ ListFails(f) \/ StoreEdges(f)
             \/ Decode(f) \/ Insert(f)
      PROVE  Reports'
  <2>1. /\ pc' = [pc EXCEPT ![f] = pc'[f]] /\ list' = [list EXCEPT ![f] = list'[f]]
        /\ packed' = [packed EXCEPT ![f] = packed'[f]]
        /\ decoded' = [decoded EXCEPT ![f] = decoded'[f]]
        /\ UNCHANGED injected
    BY <1>4 DEF Report, Lookup, ListEdges, ListFails, StoreEdges, Decode, Insert, Resolve,
       ship,
      EdgeInv, Held, IdsOnce, PayloadInv, Packed
  <2>2. \A g \in Frames \ {f} : /\ pc'[g] = pc[g] /\ list'[g] = list[g]
                                /\ packed'[g] = packed[g] /\ decoded'[g] = decoded[g]
    BY <2>1 DEF EdgeInv, Held, IdsOnce, PayloadInv, Packed
  <2>3. pc'[f] \in {"oversized", "heard", "refresh", "listed", "lost", "target_offline",
                    "deliver", "insert", "acked"}
    BY <1>4 DEF Report, Lookup, ListEdges, ListFails, StoreEdges, Decode, Insert, Resolve,
       Reports
  <2>4. list'[f] # NoCache <=> pc'[f] = "listed"
    <3>1. CASE ListEdges(f)
      <4>1. NoCache # table
        BY DEF EdgeInv, IdsOnce, Table, Known, Rows
      <4> QED BY <3>1, <4>1 DEF ListEdges, EdgeInv, IdsOnce, Reports
    <3>2. CASE StoreEdges(f)
      BY <3>2 DEF StoreEdges, Resolve, EdgeInv, IdsOnce, Reports
    <3>3. CASE Report(f) \/ Lookup(f) \/ ListFails(f) \/ Decode(f) \/ Insert(f)
      BY <3>3 DEF Report, Lookup, ListFails, Decode, Insert, Resolve, Reports
    <3> QED BY <1>4, <3>1, <3>2, <3>3
  <2>5. DOMAIN packed'[f].payload \subseteq Names /\ packed'[f].id \in 0 .. Active
    <3>1. CASE Report(f)
      <4>1. packed'[f].payload \in BuildPayload(Fields(fields)) /\ packed'[f].id = fields
        BY <3>1 DEF Report, PayloadInv, Packed
      <4>2. fields \in 0 .. Active
        BY DEF PayloadInv, Schemata
      <4> QED BY <4>1, <4>2, PayloadNames
    <3>2. CASE ~ Report(f)
      BY <1>4, <3>2 DEF Lookup, ListEdges, ListFails, StoreEdges, Decode, Insert, Reports
    <3> QED BY <3>1, <3>2
  <2>6. decoded'[f].problems \subseteq DOMAIN decoded'[f].values
    <3>1. CASE Decode(f)
      <4> DEFINE d == DecodePayload(packed[f].payload, Fields(Active))
      <4>1. \/ decoded'[f].problems = {}
            \/ decoded'[f].problems = d.problems /\ decoded'[f].values = d.values
        BY <3>1 DEF Decode, PayloadInv, Packed
      <4>2. d.problems \subseteq DOMAIN d.values
        BY DEF DecodePayload, Problems
      <4> HIDE DEF d
      <4> QED BY <4>1, <4>2
    <3>2. CASE ~ Decode(f)
      BY <1>4, <3>2 DEF Report, Lookup, ListEdges, ListFails, StoreEdges, Insert, Reports
    <3> QED BY <3>1, <3>2
  <2>7. Active' = Active
    BY <2>1 DEF Active
  <2>8. pc' \in [Frames -> {"idle", "oversized", "heard", "refresh", "listed", "lost",
                            "target_offline", "deliver", "insert", "acked"}]
    BY <2>1, <2>3 DEF Reports
  <2> QED BY <2>2, <2>4, <2>5, <2>6, <2>7, <2>8 DEF Reports
<1> QED BY <1>2, <1>3, <1>4 DEF Next, Workers

(* Every variable has its type; the invariants above know most of it.      *)
THEOREM TypeCorrect == Spec => []TypeOK
<1>1. Init => Bounds
  BY IngestAssumption DEF Init, Bounds
<1>2. Init => Reports
  BY DEF Init, Reports, NoFields, Active
<1>3. ASSUME Bounds, Reports, EdgeInv, PayloadInv, AgeInv PROVE TypeOK
  <2>1. Known \subseteq Rows /\ table \in Table /\ cache \in {NoCache} \cup Table
        /\ \A f \in Frames : got[f] \in {NoEdge} \cup Rows
    BY <1>3 DEF EdgeInv, IdsOnce, Known
  <2>2. Table \subseteq [Codes -> {NoEdge} \cup Rows]
    BY <2>1 DEF Table
  <2>3. box \in Seq(1 .. Active)
    <3>1. box \in [1 .. Len(box) -> 1 .. Active] /\ Len(box) \in Nat
      BY <1>3 DEF PayloadInv, Schemata
    <3> QED BY <3>1, SeqDef
  <2>4. \A f \in Frames : wait[f] \in 0 .. Latency
    BY <1>3 DEF AgeInv, Clock
  <2>5. \A f \in Frames : pc[f] \in {"deliver", "insert", "acked"} => got[f] # NoEdge
    BY <1>3 DEF EdgeInv, Held
  <2>6. rows \subseteq [frame: Frames \cup {Legacy}, edge: Nat, code: Codes \cup {NoCode}]
    BY <1>3 DEF EdgeInv, Held, Log
  <2>7. age \in 0 .. TTL /\ serial \in Nat
    BY <1>3 DEF AgeInv, Clock, EdgeInv, IdsOnce
  <2>8. injected \in Seq(Schemas) /\ unsent \subseteq 1 .. Active
        /\ carried \in 0 .. Active /\ fields \in 0 .. Active
    BY <1>3 DEF PayloadInv, Schemata
  <2> QED BY <1>3, <2>1, <2>2, <2>3, <2>4, <2>5, <2>6, <2>7, <2>8 DEF TypeOK, Bounds,
             Reports
<1> QED BY <1>1, <1>2, <1>3, EdgeInit, EdgeNext, PayloadInit, PayloadNext, AgeInit, AgeNext,
           BoundsNext, ReportsNext, PTL DEF Spec

-----------------------------------------------------------------------------
(* Sums over finite sets, by induction on their size.                      *)

(* What holds of 0 and is kept by counting holds of every number.          *)
LEMMA Counting ==
  ASSUME NEW G, 0 \in G, \A k \in Nat : k \in G => k + 1 \in G
  PROVE  Nat \subseteq G
<1> DEFINE T == Nat \ G
           R == {ss \in Nat \X Nat : ss[1] < ss[2]}
<1> SUFFICES ASSUME T # {} PROVE FALSE
  OBVIOUS
<1>1. IsWellFoundedOn(R, Nat)
  BY NatLessThanWellFounded DEF OpToRel
<1>2. \E x \in T : \A y \in T : ~ (<<y, x>> \in R)
  <2>1. T \subseteq Nat
    OBVIOUS
  <2> HIDE DEF R, T
  <2> QED BY <1>1, <2>1, WFMin
<1>3. PICK x \in T : \A y \in T : ~ (<<y, x>> \in R)
  BY <1>2
<1>4. x - 1 \in Nat /\ x - 1 + 1 = x
  OBVIOUS
<1>5. x - 1 \in T
  BY <1>4
<1>6. ~ (<<x - 1, x>> \in R)
  BY <1>3, <1>5
<1> QED BY <1>4, <1>6

Any(s) == CHOOSE x \in s : TRUE
Rest(s) == s \ {Any(s)}

(* The sum of w over s, one element after the other.                       *)
SumAt(w, g, s) == g[s] = IF s = {} THEN 0 ELSE w[Any(s)] + g[Rest(s)]

LEMMA RestIs ==
  ASSUME NEW S, IsFiniteSet(S), NEW s \in SUBSET S
  PROVE  /\ Cardinality(s) \in Nat /\ Cardinality(s) <= Cardinality(S)
         /\ Cardinality(s) = 0 <=> s = {}
         /\ s # {} => /\ Any(s) \in s /\ Rest(s) \in SUBSET S
                      /\ Cardinality(Rest(s)) = Cardinality(s) - 1
<1>1. IsFiniteSet(s) /\ Cardinality(s) <= Cardinality(S)
  BY FS_Subset
<1>2. Cardinality(s) \in Nat /\ (Cardinality(s) = 0 <=> s = {})
  BY <1>1, FS_CardinalityType, FS_EmptySet
<1>3. ASSUME s # {} PROVE Any(s) \in s
  BY <1>3 DEF Any
<1>4. ASSUME s # {} PROVE Cardinality(Rest(s)) = Cardinality(s) - 1
  BY <1>1, <1>3, <1>4, FS_RemoveElement DEF Rest
<1> QED BY <1>1, <1>2, <1>3, <1>4 DEF Rest

(* There is such a sum.                                                    *)
LEMMA SumExists ==
  ASSUME NEW S, IsFiniteSet(S), NEW w \in [S -> Nat]
  PROVE  \E g \in [SUBSET S -> Nat] : \A s \in SUBSET S : SumAt(w, g, s)
<1> DEFINE Upto(g, k) == \A s \in SUBSET S : Cardinality(s) <= k => SumAt(w, g, s)
           G == {k \in Nat : \E g \in [SUBSET S -> Nat] : Upto(g, k)}
<1>1. 0 \in G
  <2> DEFINE g == [s \in SUBSET S |-> 0]
  <2>1. g \in [SUBSET S -> Nat]
    OBVIOUS
  <2>2. Upto(g, 0)
    <3>1. ASSUME NEW s \in SUBSET S, Cardinality(s) <= 0 PROVE SumAt(w, g, s)
      <4>1. s = {}
        BY <3>1, RestIs
      <4> QED BY <4>1 DEF SumAt
    <3> QED BY <3>1
  <2> HIDE DEF g, Upto
  <2> QED BY <2>1, <2>2
<1>2. ASSUME NEW k \in Nat, k \in G PROVE k + 1 \in G
  <2>1. PICK g \in [SUBSET S -> Nat] : Upto(g, k)
    BY <1>2
  <2> DEFINE h == [s \in SUBSET S |-> IF Cardinality(s) <= k \/ s = {} THEN g[s]
                                      ELSE w[Any(s)] + g[Rest(s)]]
  <2>2. ASSUME NEW s \in SUBSET S, s # {} PROVE w[Any(s)] + g[Rest(s)] \in Nat
    BY <2>2, RestIs
  <2>3. h \in [SUBSET S -> Nat]
    BY <2>2
  <2>4. ASSUME NEW s \in SUBSET S, Cardinality(s) <= k + 1 PROVE SumAt(w, h, s)
    <3>1. CASE s = {}
      <4>1. Cardinality(s) <= k
        BY <3>1, FS_EmptySet
      <4> QED BY <2>1, <3>1, <4>1 DEF SumAt
    <3>2. CASE s # {}
      <4>1. /\ Rest(s) \in SUBSET S /\ Cardinality(Rest(s)) <= k
            /\ Cardinality(s) \in Nat /\ Cardinality(Rest(s)) \in Nat
        BY <2>4, <3>2, RestIs
      <4>2. h[Rest(s)] = g[Rest(s)]
        BY <4>1
      <4>3. h[s] = w[Any(s)] + g[Rest(s)]
        <5>1. CASE Cardinality(s) <= k
          BY <2>1, <3>2, <5>1 DEF SumAt
        <5>2. CASE ~ (Cardinality(s) <= k)
          BY <3>2, <5>2
        <5> QED BY <5>1, <5>2
      <4> HIDE DEF h
      <4> QED BY <3>2, <4>2, <4>3 DEF SumAt
    <3> QED BY <3>1, <3>2
  <2> HIDE DEF h
  <2>5. Upto(h, k + 1)
    BY <2>4
  <2> HIDE DEF Upto
  <2> QED BY <2>3, <2>5
<1>3. Cardinality(S) \in Nat
  BY FS_CardinalityType
<1>4. Cardinality(S) \in G
  <2> HIDE DEF G
  <2> QED BY <1>1, <1>2, <1>3, Counting
<1>5. PICK g \in [SUBSET S -> Nat] : Upto(g, Cardinality(S))
  BY <1>4
<1> QED BY <1>5, RestIs

(* A sum is a number, and stays below whatever outgrows its summands.      *)
LEMMA SumBelow ==
  ASSUME NEW S, IsFiniteSet(S), NEW w \in [S -> Nat], NEW g, NEW v,
         \A s \in SUBSET S : SumAt(w, g, s),
         v \in [SUBSET S -> Nat],
         \A s \in SUBSET S : s # {} => w[Any(s)] + v[Rest(s)] <= v[s]
  PROVE  \A s \in SUBSET S : g[s] \in Nat /\ g[s] <= v[s]
<1> DEFINE Ok(s) == g[s] \in Nat /\ g[s] <= v[s]
           G == {k \in Nat : \A s \in SUBSET S : Cardinality(s) <= k => Ok(s)}
<1>1. 0 \in G
  <2>1. ASSUME NEW s \in SUBSET S, Cardinality(s) <= 0 PROVE Ok(s)
    <3>1. s = {}
      BY <2>1, RestIs
    <3>2. g[s] = 0 /\ v[s] \in Nat
      BY <3>1 DEF SumAt
    <3> QED BY <3>2
  <2> HIDE DEF Ok
  <2> QED BY <2>1
<1>2. ASSUME NEW k \in Nat, k \in G PROVE k + 1 \in G
  <2>1. ASSUME NEW s \in SUBSET S, Cardinality(s) <= k + 1 PROVE Ok(s)
    <3>1. CASE s = {}
      <4>1. g[s] = 0 /\ v[s] \in Nat
        BY <3>1 DEF SumAt
      <4> QED BY <4>1
    <3>2. CASE s # {}
      <4>1. Rest(s) \in SUBSET S /\ Cardinality(Rest(s)) <= k /\ Any(s) \in S
        BY <2>1, <3>2, RestIs
      <4>2. Ok(Rest(s))
        BY <1>2, <4>1
      <4>3. g[s] = w[Any(s)] + g[Rest(s)]
        BY <3>2 DEF SumAt
      <4>4. w[Any(s)] \in Nat /\ v[Rest(s)] \in Nat /\ v[s] \in Nat
        BY <4>1
      <4>5. w[Any(s)] + v[Rest(s)] <= v[s]
        BY <3>2
      <4> QED BY <4>2, <4>3, <4>4, <4>5
    <3> QED BY <3>1, <3>2
  <2> HIDE DEF Ok
  <2> QED BY <2>1
<1>3. Cardinality(S) \in Nat
  BY FS_CardinalityType
<1>4. Cardinality(S) \in G
  <2> HIDE DEF G
  <2> QED BY <1>1, <1>2, <1>3, Counting
<1> HIDE DEF Ok
<1>5. \A s \in SUBSET S : Ok(s)
  BY <1>4, RestIs
<1> QED BY <1>5 DEF Ok

LEMMA SumIsNat ==
  ASSUME NEW S, IsFiniteSet(S), NEW w \in [S -> Nat], NEW g,
         \A s \in SUBSET S : SumAt(w, g, s)
  PROVE  \A s \in SUBSET S : g[s] \in Nat
<1>1. PICK v \in [SUBSET S -> Nat] : \A s \in SUBSET S : SumAt(w, v, s)
  BY SumExists
<1>2. ASSUME NEW s \in SUBSET S, s # {} PROVE w[Any(s)] + v[Rest(s)] <= v[s]
  <2>1. v[s] = w[Any(s)] + v[Rest(s)]
    BY <1>1, <1>2 DEF SumAt
  <2> QED BY <2>1
<1> QED BY <1>1, <1>2, SumBelow

(* Bytes of a field as packed and as estimated.                            *)
Room(p, x) == 1 + NameLen[x] + MarshalledBytes(p[x])
Estimate(F, x) == 2 + NameLen[x] + F[x].size + (IF F[x].kind = "string" THEN 1 ELSE 0)
MapHeader(S) == IF Cardinality(S) > 15 THEN 3 ELSE 1

LEMMA PackedIs ==
  ASSUME NEW p, IsFiniteSet(DOMAIN p), \A x \in DOMAIN p : Room(p, x) \in Nat
  PROVE  \E g : /\ PackedBytes(p) = MapHeader(DOMAIN p) + g[DOMAIN p]
               /\ \A s \in SUBSET DOMAIN p : SumAt([x \in DOMAIN p |-> Room(p, x)], g, s)
<1> DEFINE w == [x \in DOMAIN p |-> Room(p, x)]
           Is(g) == g = [s \in SUBSET DOMAIN p |->
                           IF s = {} THEN 0 ELSE Room(p, Any(s)) + g[s \ {Any(s)}]]
<1>1. PackedBytes(p) = MapHeader(DOMAIN p) + (CHOOSE g : Is(g))[DOMAIN p]
  BY DEF PackedBytes, MapHeader, MapThenSumSet, MapThenFoldSet, Room, Any
<1>2. \A s \in SUBSET DOMAIN p : s # {} => w[Any(s)] = Room(p, Any(s))
  BY DEF Any
<1>3. PICK g \in [SUBSET DOMAIN p -> Nat] : \A s \in SUBSET DOMAIN p : SumAt(w, g, s)
  <2>1. w \in [DOMAIN p -> Nat]
    OBVIOUS
  <2> HIDE DEF w
  <2> QED BY <2>1, SumExists
<1>4. Is(g)
  <2> HIDE DEF w
  <2>1. \A s \in SUBSET DOMAIN p :
          g[s] = IF s = {} THEN 0 ELSE Room(p, Any(s)) + g[s \ {Any(s)}]
    BY <1>2, <1>3 DEF SumAt, Rest
  <2> QED BY <1>3, <2>1
<1>5. Is(CHOOSE h : Is(h))
  <2> HIDE DEF Is
  <2> QED BY <1>4
<1> DEFINE h == CHOOSE i : Is(i)
<1>6. \A s \in SUBSET DOMAIN p :
        h[s] = IF s = {} THEN 0 ELSE Room(p, Any(s)) + h[s \ {Any(s)}]
  <2> HIDE DEF h
  <2> QED BY <1>5 DEF h
<1>7. \A s \in SUBSET DOMAIN p : SumAt(w, h, s)
  <2> HIDE DEF w, h
  <2> QED BY <1>2, <1>6 DEF SumAt, Rest
<1> QED BY <1>1, <1>7

LEMMA EstimateIs ==
  ASSUME NEW F, IsFiniteSet(DOMAIN F), \A x \in DOMAIN F : Estimate(F, x) \in Nat
  PROVE  \E g : /\ EstimatePackedBytes(F) = 3 + g[DOMAIN F]
               /\ \A s \in SUBSET DOMAIN F :
                    SumAt([x \in DOMAIN F |-> Estimate(F, x)], g, s)
<1> DEFINE w == [x \in DOMAIN F |-> Estimate(F, x)]
           Is(g) == g = [s \in SUBSET DOMAIN F |->
                           IF s = {} THEN 0 ELSE Estimate(F, Any(s)) + g[s \ {Any(s)}]]
<1>1. EstimatePackedBytes(F) = 3 + (CHOOSE g : Is(g))[DOMAIN F]
  BY DEF EstimatePackedBytes, MapThenSumSet, MapThenFoldSet, Estimate, Any
<1>2. \A s \in SUBSET DOMAIN F : s # {} => w[Any(s)] = Estimate(F, Any(s))
  BY DEF Any
<1>3. PICK g \in [SUBSET DOMAIN F -> Nat] : \A s \in SUBSET DOMAIN F : SumAt(w, g, s)
  <2>1. w \in [DOMAIN F -> Nat]
    OBVIOUS
  <2> HIDE DEF w
  <2> QED BY <2>1, SumExists
<1>4. Is(g)
  <2> HIDE DEF w
  <2>1. \A s \in SUBSET DOMAIN F :
          g[s] = IF s = {} THEN 0 ELSE Estimate(F, Any(s)) + g[s \ {Any(s)}]
    BY <1>2, <1>3 DEF SumAt, Rest
  <2> QED BY <1>3, <2>1
<1>5. Is(CHOOSE h : Is(h))
  <2> HIDE DEF Is
  <2> QED BY <1>4
<1> DEFINE h == CHOOSE i : Is(i)
<1>6. \A s \in SUBSET DOMAIN F :
        h[s] = IF s = {} THEN 0 ELSE Estimate(F, Any(s)) + h[s \ {Any(s)}]
  <2> HIDE DEF h
  <2> QED BY <1>5 DEF h
<1>7. \A s \in SUBSET DOMAIN F : SumAt(w, h, s)
  <2> HIDE DEF w, h
  <2> QED BY <1>2, <1>6 DEF SumAt, Rest
<1> QED BY <1>1, <1>7

(* A field is packed within its estimate, but for an 8-bit integer, which  *)
(* takes a byte more.                                                      *)
LEMMA FieldFits ==
  ASSUME NEW F, NEW x \in DOMAIN F, x \in Names, F[x] \in FieldTypes,
         NEW float \in {"float", "whole"}, NEW fish \in {4, 8},
         NEW p, p[x] = Sample(F[x], float, fish)
  PROVE  /\ Room(p, x) \in Nat /\ Estimate(F, x) \in Nat
         /\ Room(p, x) <= Estimate(F, x) + (IF F[x] = Type("int", 1) THEN 1 ELSE 0)
<1>1. NameLen[x] \in Nat
  BY PayloadAssumption
<1>2. ASSUME NEW n \in {4, 8}, F[x] = Type("float", n)
      PROVE  Room(p, x) = NameLen[x] + 6 /\ Estimate(F, x) = NameLen[x] + 2 + n
  BY <1>1, <1>2 DEF Room, Estimate, Sample, Type, Value, MarshalledBytes
<1>3. ASSUME NEW n \in {1, 2, 4, 8}, F[x] = Type("int", n)
      PROVE  /\ Room(p, x) = NameLen[x] + 4 /\ Estimate(F, x) = NameLen[x] + 2 + n
             /\ n = 1 => F[x] = Type("int", 1)
  BY <1>1, <1>3 DEF Room, Estimate, Sample, Type, Value, MarshalledBytes
<1>4. ASSUME F[x] = Type("bool", 1)
      PROVE  Room(p, x) = NameLen[x] + 2 /\ Estimate(F, x) = NameLen[x] + 3
  BY <1>1, <1>4 DEF Room, Estimate, Sample, Type, Value, MarshalledBytes
<1>5. ASSUME NEW n \in 1 .. 242, F[x] = Type("string", n)
      PROVE  /\ Room(p, x) \in Nat /\ Room(p, x) <= NameLen[x] + 2 + n
             /\ Estimate(F, x) = NameLen[x] + 3 + n
  BY <1>1, <1>5 DEF Room, Estimate, Sample, Type, Value, MarshalledBytes
<1> QED BY <1>1, <1>2, <1>3, <1>4, <1>5 DEF FieldTypes

(* A report under a valid schema is as short as estimated, unless more     *)
(* 8-bit fields than the map header leaves room for take a byte more.      *)
LEMMA FitsEstimate ==
  ASSUME NEW F, ValidateSchemaFields(F), NEW p \in BuildPayload(F)
  PROVE  /\ PackedBytes(p) \in Nat /\ EstimatePackedBytes(F) \in Nat
         /\ PackedBytes(p) <= EstimatePackedBytes(F) \/ Cardinality(Narrow(F)) > Slack(F)
<1> DEFINE D == DOMAIN F
<1>1. IsFiniteSet(D) /\ D \subseteq Names /\ D # {} /\ \A x \in D : F[x] \in FieldTypes
  BY FS_Subset, FS_EmptySet, PayloadAssumption DEF ValidateSchemaFields
<1>2. PICK float \in {"float", "whole"}, fish \in {4, 8} :
        p = [x \in D |-> Sample(F[x], float, fish)]
  BY <1>1 DEF BuildPayload
<1>3. DOMAIN p = D /\ \A x \in D : p[x] = Sample(F[x], float, fish)
  BY <1>2
<1>4. \A x \in D : /\ Room(p, x) \in Nat /\ Estimate(F, x) \in Nat
                   /\ Room(p, x) <= Estimate(F, x) + (IF x \in Narrow(F) THEN 1 ELSE 0)
  BY <1>1, <1>3, FieldFits DEF Narrow
<1> DEFINE w == [x \in D |-> Room(p, x)]
           e == [x \in D |-> Estimate(F, x)]
           N == Narrow(F)
<1>5. PICK g : PackedBytes(p) = MapHeader(D) + g[D] /\ \A s \in SUBSET D : SumAt(w, g, s)
  BY <1>1, <1>3, <1>4, PackedIs
<1>6. PICK h : EstimatePackedBytes(F) = 3 + h[D] /\ \A s \in SUBSET D : SumAt(e, h, s)
  BY <1>1, <1>4, EstimateIs
<1>7. /\ w \in [D -> Nat] /\ e \in [D -> Nat]
      /\ \A x \in D : w[x] <= e[x] + (IF x \in N THEN 1 ELSE 0)
  BY <1>4
<1>8. N \subseteq D
  BY DEF Narrow
<1> HIDE DEF w, e, N, D
<1>9. \A s \in SUBSET D : h[s] \in Nat
  BY <1>1, <1>6, <1>7, SumIsNat
<1> DEFINE v == [s \in SUBSET D |-> h[s] + Cardinality(s \cap N)]
<1>10. ASSUME NEW s \in SUBSET D PROVE Cardinality(s \cap N) \in Nat
  BY <1>1, FS_Subset, FS_CardinalityType
<1>11. v \in [SUBSET D -> Nat]
  BY <1>9, <1>10
<1>12. ASSUME NEW s \in SUBSET D, s # {} PROVE w[Any(s)] + v[Rest(s)] <= v[s]
  <2>1. Any(s) \in s /\ Any(s) \in D /\ Rest(s) \in SUBSET D
    BY <1>1, <1>12, RestIs
  <2>2. h[s] = e[Any(s)] + h[Rest(s)]
    BY <1>6, <1>12 DEF SumAt
  <2>3. Cardinality(s \cap N) = Cardinality(Rest(s) \cap N) + (IF Any(s) \in N THEN 1 ELSE 0)
    <3>1. CASE Any(s) \in N
      <4>1. IsFiniteSet(s \cap N) /\ Any(s) \in s \cap N
        BY <1>1, <2>1, <3>1, FS_Subset
      <4>2. Rest(s) \cap N = (s \cap N) \ {Any(s)}
        BY DEF Rest
      <4>3. Cardinality(Rest(s) \cap N) = Cardinality(s \cap N) - 1
        BY <4>1, <4>2, FS_RemoveElement
      <4>4. Cardinality(s \cap N) \in Nat
        BY <1>10
      <4>5. (IF Any(s) \in N THEN 1 ELSE 0) = 1
        BY <3>1
      <4> QED BY <4>3, <4>4, <4>5
    <3>2. CASE Any(s) \notin N
      <4>1. Rest(s) \cap N = s \cap N
        BY <3>2 DEF Rest
      <4> QED BY <1>10, <3>2, <4>1
    <3> QED BY <3>1, <3>2
  <2>4. w[Any(s)] \in Nat /\ e[Any(s)] \in Nat /\ h[Rest(s)] \in Nat
    BY <1>7, <1>9, <2>1
  <2>5. /\ Cardinality(s \cap N) \in Nat /\ Cardinality(Rest(s) \cap N) \in Nat
    BY <1>10, <2>1
  <2>6. /\ v[s] = h[s] + Cardinality(s \cap N)
        /\ v[Rest(s)] = h[Rest(s)] + Cardinality(Rest(s) \cap N)
    BY <2>1
  <2> HIDE DEF v
  <2> QED BY <1>7, <2>1, <2>2, <2>3, <2>4, <2>5, <2>6
<1>13. g[D] \in Nat /\ g[D] <= v[D]
  <2> HIDE DEF v
  <2>1. \A s \in SUBSET D : g[s] \in Nat /\ g[s] <= v[s]
    BY <1>1, <1>5, <1>7, <1>11, <1>12, SumBelow
  <2> QED BY <2>1
<1>14. v[D] = h[D] + Cardinality(N)
  <2>1. D \cap N = N
    BY <1>8
  <2> QED BY <2>1
<1>15. Cardinality(N) \in Nat /\ h[D] \in Nat
  BY <1>1, <1>8, <1>9, FS_Subset, FS_CardinalityType
<1>16. MapHeader(D) \in 1 .. 3 /\ (MapHeader(D) > 1 => Slack(F) = 0)
       /\ (MapHeader(D) = 1 => Slack(F) = 2)
  BY DEF MapHeader, Slack, D
<1> HIDE DEF v
<1> QED BY <1>5, <1>6, <1>13, <1>14, <1>15, <1>16 DEF N

(* A ship without a schema reports in 31 bytes: no window is too short.    *)
LEMMA DefaultFits ==
  ASSUME NEW p \in BuildPayload(NoFields)
  PROVE  PackedBytes(p) \in Nat /\ PackedBytes(p) <= Limit
<1> DEFINE D == {"lat", "lng", "berat_kg"}
<1>1. IsFiniteSet(D)
  BY FS_EmptySet, FS_AddElement, FS_Subset, PayloadAssumption
<1>2. PICK float \in {"float", "whole"}, fish \in {4, 8} :
        p = [x \in D |-> Sample(DefaultFields[x], float, fish)]
  BY DEF BuildPayload, NoFields, DefaultFields
<1>3. DOMAIN p = D /\ \A x \in D : p[x] = Sample(DefaultFields[x], float, fish)
  BY <1>2
<1>4. \A x \in D : Room(p, x) = IF x = "berat_kg" THEN 12 ELSE 9
  BY <1>3, PayloadAssumption
     DEF DefaultFields, Room, Sample, Type, Value, MarshalledBytes
<1> DEFINE w == [x \in D |-> Room(p, x)]
           of(s, x, n) == IF x \in s THEN n ELSE 0
           v == [s \in SUBSET D |-> of(s, "lat", 9) + of(s, "lng", 9) + of(s, "berat_kg", 12)]
<1>5. PICK g : PackedBytes(p) = MapHeader(D) + g[D] /\ \A s \in SUBSET D : SumAt(w, g, s)
  <2>1. DOMAIN p = D /\ \A x \in D : Room(p, x) \in Nat
    BY <1>3, <1>4
  <2> HIDE DEF D
  <2> QED BY <1>1, <2>1, PackedIs
<1>6. w \in [D -> Nat] /\ v \in [SUBSET D -> Nat]
  BY <1>4
<1>7. ASSUME NEW s \in SUBSET D, s # {} PROVE w[Any(s)] + v[Rest(s)] <= v[s]
  <2>1. Any(s) \in s /\ Rest(s) = s \ {Any(s)}
    BY <1>7 DEF Any, Rest
  <2>2. w[Any(s)] = IF Any(s) = "berat_kg" THEN 12 ELSE 9
    BY <1>4, <2>1
  <2>3. \/ Any(s) = "lat" /\ v[s] = 9 + v[Rest(s)]
        \/ Any(s) = "lng" /\ v[s] = 9 + v[Rest(s)]
        \/ Any(s) = "berat_kg" /\ v[s] = 12 + v[Rest(s)]
    <3>1. /\ v[s] = of(s, "lat", 9) + of(s, "lng", 9) + of(s, "berat_kg", 12)
          /\ v[Rest(s)] = of(Rest(s), "lat", 9) + of(Rest(s), "lng", 9)
                           + of(Rest(s), "berat_kg", 12)
      BY <2>1
    <3>2. Any(s) \in D
      BY <2>1
    <3>3. \A x \in D, n \in Nat : of(Rest(s), x, n) = IF x = Any(s) THEN 0 ELSE of(s, x, n)
      BY <2>1
    <3>4. \A x \in D, n \in Nat : of(s, x, n) \in Nat /\ (x = Any(s) => of(s, x, n) = n)
      BY <2>1
    <3> HIDE DEF v, w, of
    <3>5. CASE Any(s) = "lat"
      BY <3>1, <3>3, <3>4, <3>5
    <3>6. CASE Any(s) = "lng"
      BY <3>1, <3>3, <3>4, <3>6
    <3>7. CASE Any(s) = "berat_kg"
      BY <3>1, <3>3, <3>4, <3>7
    <3> QED BY <3>2, <3>5, <3>6, <3>7
  <2>4. v[Rest(s)] \in Nat
    BY <1>6, <2>1
  <2> HIDE DEF v, w
  <2> QED BY <2>2, <2>3, <2>4
<1>8. g[D] \in Nat /\ g[D] <= v[D]
  <2> HIDE DEF v, w, D
  <2> QED BY <1>1, <1>5, <1>6, <1>7, SumBelow
<1>9. v[D] = 30 /\ MapHeader(D) \in 1 .. 3
  BY DEF MapHeader
<1> HIDE DEF v
<1> QED BY <1>5, <1>8, <1>9, IngestAssumption

(* A report that did not leave was too long for its window.                *)
Overlong ==
  \A f \in Frames : pc[f] = "oversized" => PackedBytes(packed[f].payload) > Limit

(* Only Report keeps one back, and nothing happens to it any more.         *)
LEMMA OverlongNext == Overlong /\ PayloadInv /\ [Next]_vars => Overlong'
<1> SUFFICES ASSUME Overlong, PayloadInv, [Next]_vars,
                    NEW f \in Frames, pc'[f] = "oversized"
             PROVE  PackedBytes(packed'[f].payload) > Limit
  BY DEF Overlong
<1>1. CASE pc[f] = "oversized" /\ packed'[f] = packed[f]
  BY <1>1 DEF Overlong
<1>2. CASE UNCHANGED <<pc, packed>>
  BY <1>1, <1>2
<1>3. CASE Edges \/ Tick \/ UNCHANGED vars
  BY <1>2, <1>3 DEF Edges, CreateEdge, UpdateEdge, DeleteEdge, Change, Tick, vars, workers
<1>4. CASE Ship
  BY <1>2, <1>4
     DEF Ship, InsertSchema, InsertFails, BroadcastSchema, Join, ReadSchema,
     ReadSchemaFails, SendSchema, HearSchema,
         workers
<1>5. ASSUME NEW g \in Frames, Report(g)
      PROVE  \/ pc[f] = "oversized" /\ packed'[f] = packed[f]
             \/ PackedBytes(packed'[f].payload) > Limit
  <2>1. PICK p \in BuildPayload(Fields(fields)) :
          /\ packed' = [packed EXCEPT ![g] = [payload |-> p, id |-> fields]]
          /\ pc' = [pc EXCEPT ![g] = IF PackedBytes(p) > Limit THEN "oversized" ELSE "heard"]
    BY <1>5 DEF Report
  <2>2. CASE f = g
    <3>1. packed'[f].payload = p /\ PackedBytes(p) > Limit
      BY <2>1, <2>2 DEF PayloadInv, Packed
    <3> QED BY <3>1
  <2>3. CASE f # g
    BY <2>1, <2>3 DEF PayloadInv, Packed
  <2> QED BY <2>2, <2>3
<1>6. ASSUME NEW g \in Frames,
             \/ Lookup(g) \/ ListEdges(g) \/ ListFails(g) \/ StoreEdges(g)
             \/ Decode(g) \/ Insert(g)
      PROVE  pc[f] = "oversized" /\ packed'[f] = packed[f]
  BY <1>6 DEF Lookup, ListEdges, ListFails, StoreEdges, Decode, Insert, Resolve, PayloadInv,
              Packed
<1> QED BY <1>1, <1>3, <1>4, <1>5, <1>6 DEF Next, Workers

(* No report is too long for the window under a schema that was injected   *)
(* without a warning, but for those the finding is about: more 8-bit       *)
(* fields than the map header leaves room for.                             *)
THEOREM WarnedOrFits == Spec => []OversizedOnlyWarned
<1>1. Init => Overlong
  BY DEF Init, Overlong
<1>2. Overlong /\ PayloadInv => OversizedOnlyWarned
  <2> SUFFICES ASSUME Overlong, PayloadInv, NEW f \in Frames, pc[f] = "oversized"
               PROVE  LET s == Fields(packed[f].id) IN
                      EstimatePackedBytes(s) > Limit \/ Cardinality(Narrow(s)) > Slack(s)
    BY DEF OversizedOnlyWarned
  <2> DEFINE i == packed[f].id
             p == packed[f].payload
  <2>1. i \in 0 .. Active /\ p \in BuildPayload(Fields(i)) /\ PackedBytes(p) > Limit
    BY DEF PayloadInv, Packed, Overlong
  <2>2. Limit \in Nat
    BY IngestAssumption
  <2>3. CASE i = 0
    <3>1. Fields(i) = NoFields
      BY <2>3 DEF Fields
    <3>2. PackedBytes(p) \in Nat /\ PackedBytes(p) <= Limit
      BY <2>1, <3>1, DefaultFits
    <3> QED BY <2>1, <2>2, <3>2
  <2>4. CASE i # 0
    <3>1. ValidateSchemaFields(Fields(i))
      BY <2>1, <2>4 DEF PayloadInv, Schemata, Fields, Active
    <3>2. /\ PackedBytes(p) \in Nat /\ EstimatePackedBytes(Fields(i)) \in Nat
          /\ \/ PackedBytes(p) <= EstimatePackedBytes(Fields(i))
             \/ Cardinality(Narrow(Fields(i))) > Slack(Fields(i))
      BY <2>1, <3>1, FitsEstimate
    <3> QED BY <2>1, <2>2, <3>2
  <2> QED BY <2>3, <2>4
<1> QED BY PayloadInit, PayloadNext, <1>1, OverlongNext, <1>2, PTL DEF Spec
=============================================================================
