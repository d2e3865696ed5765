------------------------------- MODULE Payload -------------------------------
(***************************************************************************)
(* The payload of a report: what a ship packs for the schema it holds      *)
(* (cmd/nodesim), what the server promises of its size and makes of it     *)
(* with the schema that is active on arrival (internal/domain/schema.go).  *)
(*                                                                         *)
(* A schema maps field names to types, a payload maps names to values, of  *)
(* which only the kind matters, and the length of a string.                *)
(***************************************************************************)
EXTENDS Integers, FiniteSetsExt

CONSTANTS
  Names,     \* field names
  NameLen    \* NameLen[n]: the bytes of name n

ASSUME PayloadAssumption ==
  /\ {"lat", "lng", "berat_kg"} \subseteq Names /\ IsFiniteSet(Names)
  /\ NameLen \in [Names -> 1 .. 30]
  /\ NameLen["lat"] = 3 /\ NameLen["lng"] = 3 /\ NameLen["berat_kg"] = 8

(* fixedTypeSizes, by kind and size; string_n.                             *)
Type(kind, size) == [kind |-> kind, size |-> size]
FieldTypes ==
  {Type("float", n) : n \in {4, 8}} \cup {Type("int", n) : n \in {1, 2, 4, 8}}
    \cup {Type("bool", 1)} \cup {Type("string", n) : n \in 1 .. 242}

(* A whole float is one without a fractional part.                         *)
Value(kind, len) == [kind |-> kind, len |-> len]
Values == {Value(k, 0) : k \in {"float", "whole", "int", "bool", "nil"}}
            \cup {Value("string", n) : n \in 1 .. 8}
Nil == Value("nil", 0)

(* ValidateSchemaFields.                                                   *)
ValidateSchemaFields(fields) ==
  /\ Cardinality(DOMAIN fields) \in 1 .. 32
  /\ DOMAIN fields \subseteq Names
  /\ \A n \in DOMAIN fields : fields[n] \in FieldTypes

-----------------------------------------------------------------------------
(* buildPayload: float32 for every float, uint16 for every integer, a name *)
(* of fish of 4 to 8 letters cut to the size of the field.  A ship without *)
(* a schema reports its position and a weight.                             *)
DefaultFields ==
  [n \in {"lat", "lng", "berat_kg"} |->
     IF n = "berat_kg" THEN Type("int", 2) ELSE Type("float", 4)]

Sample(t, float, fish) ==
  CASE t.kind = "float"  -> Value(float, 0)
    [] t.kind = "string" -> Value("string", IF fish < t.size THEN fish ELSE t.size)
    [] OTHER             -> Value(t.kind, 0)

BuildPayload(fields) ==
  LET F == IF DOMAIN fields = {} THEN DefaultFields ELSE fields IN
  {[n \in DOMAIN F |-> Sample(F[n], float, fish)] :
     float \in {"float", "whole"}, fish \in {4, 8}}

(* msgpack.Marshal of these Go types: float32, uint16, bool, short string. *)
MarshalledBytes(v) ==
  CASE v.kind \in {"float", "whole"} -> 5
    [] v.kind = "int"                -> 3
    [] v.kind = "bool"               -> 1
    [] v.kind = "string"             -> 1 + v.len

PackedBytes(payload) ==
  (IF Cardinality(DOMAIN payload) > 15 THEN 3 ELSE 1)
    + MapThenSumSet(LAMBDA n : 1 + NameLen[n] + MarshalledBytes(payload[n]), DOMAIN payload)

(* Mutant of EstimatePackedBytes: no map header.                           *)
EstimateFieldsOnly(fields) ==
  MapThenSumSet(LAMBDA n : 2 + NameLen[n] + fields[n].size
                             + (IF fields[n].kind = "string" THEN 1 ELSE 0), DOMAIN fields)

(* EstimatePackedBytes: headers of the map, of each name, of each value.   *)
EstimatePackedBytes(fields) ==
  3 + MapThenSumSet(LAMBDA n : 2 + NameLen[n] + fields[n].size
                                 + (IF fields[n].kind = "string" THEN 1 ELSE 0), DOMAIN fields)

-----------------------------------------------------------------------------
(* Mutant of Coerces: a number is what the schema says, or a problem.      *)
CoercesExactly(v, t) ==
  /\ v.kind = t.kind
  /\ t.kind = "string" => v.len <= t.size

(* coerceValue: an integer will do for a float, a whole float for an       *)
(* integer; a string must not be longer than declared.                     *)
Coerces(v, t) ==
  CASE t.kind = "float"  -> v.kind \in {"float", "whole", "int"}
    [] t.kind = "int"    -> v.kind \in {"int", "whole"}
    [] t.kind = "bool"   -> v.kind = "bool"
    [] t.kind = "string" -> v.kind = "string" /\ v.len <= t.size

(* What coerceValue returns of a number; everything else is as it came.    *)
Coerced(v, t) ==
  CASE t.kind = "float" /\ v.kind = "int" -> Value("whole", 0)
    [] t.kind = "int" /\ v.kind = "whole" -> Value("int", 0)
    [] OTHER                              -> v

Decoded(payload, fields, n) ==
  CASE n \notin DOMAIN payload -> Nil
    [] n \notin DOMAIN fields  -> payload[n]
    [] OTHER                   -> Coerced(payload[n], fields[n])

Problems(payload, fields) ==
  {n \in DOMAIN fields : n \notin DOMAIN payload \/ ~ Coerces(payload[n], fields[n])}

(* Mutant of DecodePayload: a name the schema does not have is left out.   *)
DecodeKnown(payload, fields) ==
  [values   |-> [n \in DOMAIN fields |-> Decoded(payload, fields, n)],
   problems |-> Problems(payload, fields)]

(* DecodePayload: every field of the schema, null when missing, as it came *)
(* when it cannot be coerced; what the schema does not know is kept.  The  *)
(* payload is a map, which is all that nodesim packs: the fallback for an  *)
(* array packed by position, and bytes that are neither, are left out.     *)
DecodePayload(payload, fields) ==
  [values   |-> [n \in DOMAIN payload \cup DOMAIN fields |-> Decoded(payload, fields, n)],
   problems |-> Problems(payload, fields)]
=============================================================================
