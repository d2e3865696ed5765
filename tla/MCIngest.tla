------------------------------ MODULE MCIngest ------------------------------
(* One Virtual Edge, two reports of one ship, schemas at the limit of 51   *)
(* bytes of spreading factors 10 to 12.                                    *)
EXTENDS Ingest

CONSTANTS e, f, g

MCCodes == {e}
MCFrames == {f, g}
MCTarget == [x \in MCFrames |-> e]

MCNameLen == [lat |-> 3, lng |-> 3, berat_kg |-> 8, crew |-> 4, hold |-> 4,
              salinities |-> 10, temperature |-> 11]
MCNames == DOMAIN MCNameLen

(* Three schemas: one whose estimate is the limit, with two 8-bit fields;  *)
(* one that declares a field of the first as a string, drops others and    *)
(* adds a new one; one a byte above the limit, packed as estimated.        *)
Float == Type("float", 4)
Tight == [lat |-> Float, lng |-> Float, crew |-> Type("int", 1), hold |-> Type("int", 1),
          salinities |-> Float]
Other == [lat |-> Type("float", 8), hold |-> Type("string", 5), crew |-> Float,
          berat_kg |-> Type("bool", 1)]
Large == [lat |-> Float, lng |-> Float, crew |-> Type("int", 1), hold |-> Type("int", 1),
          temperature |-> Float]
MCSchemas == {Tight, Other, Large}

(* The registry changes while reports are delivered, queries fail, the     *)
(* schema changes.                                                         *)
Budget(changes, schemas, frames, faults) ==
  [changes |-> changes, schemas |-> schemas, frames |-> frames, faults |-> faults]
MCBudgets == {
  Budget(3, 0, MCFrames, {}),
  Budget(1, 0, MCFrames, {"infra"}),
  Budget(1, 1, {f}, {"infra"}),
  Budget(0, 2, {f}, {"infra", "shed"})}
=============================================================================
