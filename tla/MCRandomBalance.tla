--------------------------- MODULE MCRandomBalance ---------------------------
(* Three addresses of different weights, for TLC.                          *)
EXTENDS RandomBalance, TLC

CONSTANTS a1, a2, a3

MCAddress == {a1, a2, a3}
MCWeight == (a1 :> 1) @@ (a2 :> 2) @@ (a3 :> 1)
MCCapacity == 3
=============================================================================
