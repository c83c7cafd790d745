------------------------------ MODULE MCBattleSim ------------------------------
(* BattleSim on a small instance: one blue unit against two red ones.      *)
EXTENDS BattleSim

CONSTANTS b1, r1, r2

MCBlue == <<b1>>
MCRed == <<r1, r2>>
=============================================================================
