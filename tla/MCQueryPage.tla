---------------------------- MODULE MCQueryPage ----------------------------
(* Instances of QueryPage for TLC.                                          *)
EXTENDS QueryPage

CONSTANTS near, far, wide

\* Two tiles of one zoom level, between which the map may move by itself, and
\* one of another level, which only the user can ask for.
ThreeTiles == {near, far, wide}
TwoLevels == [v \in Views |-> IF v = wide THEN 1 ELSE 2]
\* The incident with the largest delay is not the first of the answer.
Delays == [i \in 1..N |-> CASE i = 1 -> 4 [] i = 2 -> 9 [] OTHER -> 10 - i]
=============================================================================
