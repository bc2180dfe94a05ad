--------------------------- MODULE MCImpactExtent ---------------------------
EXTENDS ImpactExtent

\* Sections of one length, and of alternating lengths.
EqualLen == [k \in Sections |-> 8]
MixedLen == [k \in Sections |-> IF k % 2 = 0 THEN 8 ELSE 16]

\* The fields slow in some sections during some steps and unknown elsewhere.
SlowFields ==
  {[c \in Cells |-> IF c[1] \in slow /\ c[2] \in when THEN 1 ELSE 0] :
     slow \in SUBSET Sections, when \in SUBSET Steps}

\* Of these, the fields slow during all steps or the second half of them.
LastingFields ==
  {[c \in Cells |-> IF c[1] \in slow /\ c[2] >= since THEN 1 ELSE 0] :
     slow \in SUBSET Sections, since \in {0, M \div 2}}
=============================================================================
