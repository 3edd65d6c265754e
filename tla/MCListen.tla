------------------------------- MODULE MCListen -------------------------------
(* Files that add and drop addresses, have them in one Listen or in two,   *)
(* and none; in the last two an address is named twice.                    *)
EXTENDS Listen

CONSTANTS a, b, c

Addresses == {a, b, c}
GoodFiles ==
    {<<>>, <<<<a>>>>, <<<<a, b>>>>, <<<<b>>, <<a>>>>, <<<<c>>>>, <<<<a>>, <<b, c>>>>}
AllFiles == GoodFiles \cup {<<<<a>>, <<a>>>>, <<<<b, a, b>>>>}
Descriptors == 0 .. 4
===============================================================================
