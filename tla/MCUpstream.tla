------------------------------ MODULE MCUpstream ------------------------------
(* Two addresses, two requests at a time, and a pool that is soon full.    *)
EXTENDS Upstream, TLC

CONSTANTS a1, a2, r1, r2, c1, c2, c3

MCAddress == {a1, a2}
OneAddress == {a1}
NoAddresses == {}
MCRequest == {r1, r2}
OneRequest == {r1}
MCConnection == {c1, c2, c3}
TwoConnections == {c1, c2}

(* For safety only: addresses, requests and connections are each alike.    *)
Symmetry == Permutations(MCAddress) \cup Permutations(MCRequest) \cup Permutations(MCConnection)
=============================================================================
