--------------------------------- MODULE Sort ---------------------------------
(* qsort() of what is compared by numbers, all different.                  *)
EXTENDS Integers, Sequences, FiniteSets

Ascending(s) == \A i, j \in DOMAIN s : i < j => s[i] < s[j]

Sorted[numbers \in SUBSET Nat] ==
    LET place(x) == Cardinality({y \in numbers : y <= x})
    IN  [i \in 1 .. Cardinality(numbers) |-> CHOOSE x \in numbers : place(x) = i]
===============================================================================
