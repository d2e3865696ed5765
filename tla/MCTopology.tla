----------------------------- MODULE MCTopology -----------------------------
(* A small fleet on a coast line, an edge at either end.                   *)
EXTENDS Topology

CONSTANTS a, b, c, d, e, f

(* Four ships for the layout of any fleet, two for a fleet in motion.      *)
MCShips == {a, b, c, d}
MCPair == {a, b}
MCEdges == {e, f}
MCRank == [x \in Targets |->
  CASE x = a -> 1 [] x = b -> 2 [] x = c -> 3 [] x = d -> 4 [] x = e -> 5 [] x = f -> 6]

(* Places are marks on the line.  For the layout the edges stand at both   *)
(* ends and ships see two marks far: a chain 1, 3, 5, 6 is one hop too     *)
(* long, and 3 has 1 and 2 to choose from.  For the pair, f is at 2:       *)
(* deleting it turns a ship there into a relayed one.  Ships at one place  *)
(* are a tie.                                                              *)
MCLine == 0 .. 9
MCCoast == 0 .. 3
MCApart == [x \in Places \X Places |->
  IF x[1] > x[2] THEN x[1] - x[2] ELSE x[2] - x[1]]
MCEnds == [x \in Edges |-> IF x = e THEN 0 ELSE 9]
MCNear == [x \in Edges |-> IF x = e THEN 0 ELSE 2]

(* Any fleet, all of it online; two ships under way, online or not yet.    *)
MCAnyFleet == [geo: [Ships -> {1, 2, 3, 5, 6, 8} \cup {Nowhere}], online: {Ships}]
MCUnderWay == [geo: {[n \in Ships |-> IF n = a THEN 1 ELSE 2]}, online: SUBSET Ships]
=============================================================================
