------------------------- MODULE MCDisplaySettings -------------------------
(* A small instance of DisplaySettings for TLC.                            *)
EXTENDS DisplaySettings, TLC

CONSTANTS t1, t2

TwoCallers == {t1, t2}
Symmetric == Permutations(TwoCallers)

TwoPairs == {<<8, "rgb">>, <<10, "other">>}
TwoPolicies == {"force", "other"}

Modes == [area : {1, 2}, vrefresh : {50, 60}]
ShortLists == UNION {[1 .. n -> Modes] : n \in 0 .. 3}
Areas == {0, 1}
=============================================================================
