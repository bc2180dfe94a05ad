--------------------------- MODULE MCSolveExchange ---------------------------
(***************************************************************************)
(* Instances of SolveExchange for TLC: one to three clients, with the same *)
(* or different jobs and directories, for which GAMS reports OPTIMAL       *)
(* for every second program or for those of the web application.           *)
(***************************************************************************)
EXTENDS SolveExchange

CONSTANTS c1, c2, c3, j1, j2, d1, d2

All == {c1, c2, c3}
Both == {c1, c2}
OnlyC1 == {c1}
BothJobs == {j1, j2}
BothPlaces == {d1, d2}
OwnJob == [c \in Clients |-> IF c = c1 THEN j1 ELSE j2]
SharedJob == [c \in Clients |-> IF c = c3 THEN j2 ELSE j1]
OwnPlace == [c \in Clients |-> IF c = c1 THEN d1 ELSE d2]
OddOptimal == {p \in Clients \X (0..MaxRounds) : p[2] % 2 = 1}
OnlyWebOptimal == {p \in Clients \X (0..MaxRounds) : p[1] = c1}
=============================================================================
