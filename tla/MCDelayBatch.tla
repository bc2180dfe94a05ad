---------------------------- MODULE MCDelayBatch ----------------------------
(***************************************************************************)
(* Instances of DelayBatch for TLC.  Two incidents, one of which may have  *)
(* a short log: its worst-case shock wave reaches no farther than the      *)
(* option vds_upstream_fallback, so widening the window is cut.            *)
(***************************************************************************)
EXTENDS DelayBatch

CONSTANTS i1, i2

BothIncidents == {i1, i2}
ShortLogs == [i \in Incidents |-> IF i = i1 THEN 2 ELSE 9]
=============================================================================
