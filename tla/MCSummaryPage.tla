--------------------------- MODULE MCSummaryPage ---------------------------
(* Instances of SummaryPage for TLC.                                        *)
EXTENDS SummaryPage

CONSTANTS year, month

BothQueries == {year, month}

\* Answers with two groups and three stack values, in the order of the server
\* (by group, then by stack value): whole, empty, and with combinations missing
\* so that the stack values come up in another order than they are sorted in.
Places == <<<<"a", "x">>, <<"a", "y">>, <<"a", "z">>, <<"b", "x">>, <<"b", "y">>, <<"b", "z">>>>
Counts == {<<1, 2, 3, 2, 1, 1>>, <<0, 3, 0, 2, 0, 1>>, <<0, 0, 2, 1, 3, 1>>,
           <<2, 0, 1, 0, 0, 0>>, <<0, 1, 0, 1, 1, 0>>, <<0, 0, 0, 0, 0, 0>>}
TableOf(c) ==
  LET all == [i \in DOMAIN c |-> [group |-> Places[i][1], stack |-> Places[i][2], cnt |-> c[i]]]
  IN  SelectSeq(all, LAMBDA r : r.cnt > 0)
SmallTables == {TableOf(c) : c \in Counts}
=============================================================================
