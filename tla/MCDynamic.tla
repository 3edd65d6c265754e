------------------------------ MODULE MCDynamic ------------------------------
(* Two names, of which sub_max allows one, and three requests.             *)
EXTENDS Dynamic

CONSTANTS n1, n2, r1, r2, r3, s1, s2, s3

MCName == {n1, n2}
OneName == {n1}
MCRequest == {r1, r2, r3}
OneRequest == {r1}
MCSub == {s1, s2, s3}
TwoSubs == {s1, s2}
=============================================================================
