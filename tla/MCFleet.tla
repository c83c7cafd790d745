------------------------------- MODULE MCFleet -------------------------------
(* Fleet with two ships and one demo ship.                                 *)
EXTENDS Fleet

CONSTANTS m1

OneDemoShip == <<m1>>
=============================================================================
