------------------------------ MODULE MCLimitReq ------------------------------
(* Six keys and memory for three nodes.  The first four are in one bucket, *)
(* where 2 and 3 are alike; 1 and 5 have one text, but not one bucket; the *)
(* bucket of the last lies inside the nodes.                               *)
EXTENDS LimitReq

MCKey == 1 .. 6
MCBucket == [k \in MCKey |-> IF k <= 4 THEN 1 ELSE k]
MCText == [k \in MCKey |-> CASE k \in {2, 3} -> 2 [] k \in {1, 5} -> 1 [] OTHER -> k]
===============================================================================
