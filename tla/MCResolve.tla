------------------------------ MODULE MCResolve ------------------------------
(* Two hostnames that are resolved and an address between them; the DNS    *)
(* knows up to two addresses of the first, and one or none of the second.  *)
EXTENDS Resolve

CONSTANTS none

MCHost == {1, 3}
MCStatic == {2}
MCFixed == [n \in MCStatic |-> 1]
MCResults == [h \in MCHost |-> IF h = 1 THEN {{1}, {2}, {1, 2}} ELSE {{}, {1}, {2}}]

MCHash == 0 .. 9

(* Two vnodes for each address of the first hostname, and with less weight *)
(* one of these for the third, which may have the same addresses; the      *)
(* weight of the second gives it none.                                     *)
MCVnodes == [n \in 1 .. 3 |->
                [a \in {1, 2} |-> CASE n = 1 -> {a, 4 + a} [] n = 2 -> {} [] n = 3 -> {a}]]

(* Of equal vnodes, those of the first or of the third hostname come first. *)
MCRanks == {[n \in 1 .. 3 |-> [a \in {1, 2} |->
                [h \in MCHash |-> IF n = first THEN 2 * h ELSE 2 * h + 1]]] : first \in {1, 3}}
===============================================================================
