----------------------------- MODULE MCDataLink -----------------------------
(* Small fleets for DataLink: two ships, one of them the origin of the     *)
(* only packet (packets share no state), and one Virtual Edge.             *)
EXTENDS DataLink

CONSTANTS a, b, e, p

MCNodes == {a, b}
MCEdges == {e}
MCPackets == {p}
MCOrigin == [x \in MCPackets |-> a]

(* A relay chain, a loop left by two stale routes.                         *)
Chain == [n \in MCNodes |-> IF n = a THEN b ELSE e]
Loop == [n \in MCNodes |-> IF n = a THEN b ELSE a]

Scenario(routes, retries, changes, faults) ==
  [routes |-> routes, retries |-> retries, changes |-> changes, faults |-> faults]

(* Everything that can go wrong on the chain but a ship that leaves; keys  *)
(* that expire, and no error of Redis or PostgreSQL.                       *)
FaultScenarios ==
  { Scenario(Chain, 1, 0, {"air", "infra", "shed", "expiry"}),
    Scenario(Chain, 1, 0, {"expiry"}) }

(* Routes that change twice, from the chain or the loop, while ships leave;*)
(* and the chain with a retry, nothing lost.                               *)
LoopScenarios ==
  { Scenario(Chain, 0, 2, {"leave"}), Scenario(Loop, 0, 2, {"leave"}),
    Scenario(Chain, 1, 0, {}) }

ShedScenarios == { Scenario(Chain, 1, 0, {"shed"}) }
=============================================================================
