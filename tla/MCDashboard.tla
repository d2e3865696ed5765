----------------------------- MODULE MCDashboard -----------------------------
(* One ship that connects twice, watched by one dashboard, in scenarios    *)
(* small enough to be explored to the end.                                 *)
EXTENDS Dashboard

CONSTANTS a, s1, s2

MCShips == {a}
MCSockets == {s1, s2}
MCShipOf == [s \in MCSockets |-> a]

MCEarly == {s1}
MCFrail == {s1}

MCScenarios == {
  {s1, s2, "leave", "pings"},          \* a ship connects again
  {s1, "leave", "drop", "pings"},      \* events missed
  {s1, "page", "leave", "pings"},      \* two snapshots
  {s1, "leave", "ticks"},              \* routes
  {s1, "frames", "drop"},              \* counters
  {s1, "page", "frames"},              \* two answers of counters
  {"page", "stop", "drop", "rest"},    \* the end of a session
  {s1, "leave", "stop"},               \* ... with a ship
  {"page", "stop", "delete"}}          \* ... and of its history
=============================================================================
