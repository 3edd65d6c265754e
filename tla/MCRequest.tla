------------------------------ MODULE MCRequest ------------------------------
(* A request with two subrequests, side by side or one below the other.    *)
EXTENDS Request, TLC

CONSTANTS s1, s2

MCSub == {s1, s2}

(* For safety only: subrequests are alike.                                 *)
Symmetry == Permutations(MCSub)
=============================================================================
