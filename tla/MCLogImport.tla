---------------------------- MODULE MCLogImport ----------------------------
(* Instances of LogImport for TLC: two processes over short logs of two     *)
(* incidents and an ICAD record that goes past midnight; one process over   *)
(* every log of three entries of one incident, all three in each run.       *)
EXTENDS LogImport, TLC

CONSTANTS p1, p2, c1, c2

Two == {p1, p2}
One == {p1}

Entry(s, ds, m) == [subject |-> s, details |-> ds, memo |-> m]

Kinds ==
  { Entry("open", <<>>, ""), Entry("info", <<>>, ""), Entry("other", <<"verification">>, ""),
    Entry("other", <<"first call", "lanes clear">>, ""), Entry("other", <<>>, "visual"),
    Entry("other", <<>>, "clear"), Entry("sigalert begin", <<>>, ""), Entry("sigalert end", <<>>, ""),
    Entry("close", <<"all lanes blocked", "lanes blocked">>, "") }

ThreeEntries == 1..3
AnyRange == SUBSET ThreeEntries
WholeLog == {ThreeEntries}
TwoCads == 1 :> c1 @@ 2 :> c2 @@ 3 :> c1
OneCad == [e \in ThreeEntries |-> c1]
OnlyC1 == {c1}
AllLogs == [ThreeEntries -> Kinds]

\* Logs in which the entry of the other incident says little: the same said
\* twice, or the lanes cleared by a memo or seen, and then by a measure.
Quiet == Entry("open", <<>>, "")
Clear == Entry("other", <<"first call", "lanes clear">>, "")
Pairs ==
  {l \in AllLogs : l[2] = Quiet /\ (l[1] = l[3] \/ (l[1].memo # "" /\ l[3] = Clear))}

Symmetric == Permutations(Importers)

OneRecord == {1}
NoRecords == {}
Opening == [r \in OneRecord |-> 20]
Clocks == [r \in OneRecord |-> <<22, 3, 20>>]
NoOpening == [r \in NoRecords |-> 0]
NoClocks == [r \in NoRecords |-> <<>>]
=============================================================================
