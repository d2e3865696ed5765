----------------------------- MODULE MCSessions -----------------------------
(* Two HTTP clients and one ship on one session.                           *)
EXTENDS Sessions, TLC

CONSTANTS c1, c2, a, low, high, tx, calm, storm

MCClients == {c1, c2}
MCShips == {a}
MCSpreadingFactors == {low, high}
MCPowers == {tx}
MCWeathers == {calm, storm}

(* Clients and parameters are only compared.                               *)
MCSymmetry == Permutations(MCClients) \cup Permutations(MCSpreadingFactors)
                \cup Permutations(MCWeathers)
=============================================================================
