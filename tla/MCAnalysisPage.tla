--------------------------- MODULE MCAnalysisPage ---------------------------
(* Instances of AnalysisPage for TLC.                                       *)
EXTENDS AnalysisPage

Good(n, k) == [sections |-> n, sec |-> k, bad |-> FALSE, times |-> "known"]

\* No cells, one section, two with the incident in the last; and analyses
\* without a solution, a clearance or time steps. One without a start shows
\* what one without a solution shows and is left to the proofs.
SmallAnalyses ==
  {Good(0, 0), Good(1, 0), Good(2, 1), [Good(2, 0) EXCEPT !.bad = TRUE],
   [Good(2, 0) EXCEPT !.times = "unclear"], [Good(1, 0) EXCEPT !.times = "missing"]}

OneStep == {0}
TwoShares == {20, 60}
TwoDelays == {15, 30}
TwoRates == {13, 20}
TwoViews == {"start", "segments"}
=============================================================================
