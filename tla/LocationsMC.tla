----------------------------- MODULE LocationsMC -----------------------------
(* An instance of Locations for TLC: two points, and room for one. *)
EXTENDS Locations

CONSTANTS r1, r2

QueryOfMC == [r \in {r1, r2} |-> Point]
=============================================================================
