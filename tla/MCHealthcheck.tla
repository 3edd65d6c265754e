---------------------------- MODULE MCHealthcheck ----------------------------
(* Two failures in a row mark down, three passes in a row recover.         *)
EXTENDS Healthcheck
=============================================================================
