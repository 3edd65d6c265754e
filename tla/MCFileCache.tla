----------------------------- MODULE MCFileCache -----------------------------
(* Two workers, the first with two requests, the second with one.          *)
EXTENDS FileCache, TLC

CONSTANTS w1, w2, r1, r2, r3

MCHome == r1 :> w1 @@ r2 :> w1 @@ r3 :> w2

(* openat() fails for files that are there, and write() writes a part of   *)
(* the headers or not the mark, only in the second worker.                 *)
FailuresInOne ==
    \A r \in {r1, r2} :
        /\ at[r] = "new" /\ at'[r] \in {"last", "miss"} => entry[cur[w1]] = None
        /\ at[r] = "last" /\ at'[r] = "miss" => entry[last[w1]] = None
        /\ at[r] = "miss" /\ at'[r] = "store" => ~file'[r].failed
        /\ file'[r].mark # "unmarked"

(* The two requests of the first worker                                    *)
Symmetry == Permutations({r1, r2})
===============================================================================
