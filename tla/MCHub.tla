-------------------------------- MODULE MCHub --------------------------------
(* Hub with two connections.  The run checks liveness too, so it uses no   *)
(* symmetry.                                                               *)
EXTENDS Hub

CONSTANTS c1, c2

TwoClients == {c1, c2}
=============================================================================
