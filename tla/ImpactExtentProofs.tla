------------------------- MODULE ImpactExtentProofs -------------------------
(***************************************************************************)
(* Theorems about ImpactExtent, for every size of the grid.                *)
(*                                                                         *)
(* Each equation of the program is a "big M" inequality.  The first group  *)
(* of lemmas shows what it says once its cell is on the boundary it speaks *)
(* of: that some other cells are not congested.  The second group walks    *)
(* along the region to a boundary cell, and the theorems combine the two.  *)
(***************************************************************************)
EXTENDS ImpactExtent, NaturalsLemmas

-----------------------------------------------------------------------------
(* What the equations say. *)

(* The grid is finite, its cardinalities positive. *)
LEMMA Grid ==
  /\ IsFiniteSet(Sections) /\ IsFiniteSet(Steps) /\ IsFiniteSet(Cells)
  /\ CardJ \in Nat /\ CardM \in Nat /\ CardM * CardJ \in Nat
<1>1. IsFiniteSet(0..J) /\ IsFiniteSet(0..(M - 1))
  BY PlumeAssumption, FS_Interval
<1>2. IsFiniteSet(Sections \X Steps)
  BY <1>1, FS_Product DEF Sections, Steps
<1>3. CardJ \in Nat /\ CardM \in Nat
  BY PlumeAssumption DEF CardJ, CardM
<1>4. CardM * CardJ \in Nat
  BY <1>3
<1> QED BY <1>1, <1>2, <1>3, <1>4 DEF Sections, Steps, Cells

(* A sum that is not positive has no summand. *)
LEMMA ZeroSum ==
  ASSUME NEW S, IsFiniteSet(S), Cardinality(S) <= 0
  PROVE  S = {}
<1>1. Cardinality(S) \in Nat
  BY FS_CardinalityType
<1> QED BY <1>1, FS_EmptySet

LEMMA ZeroSumK ==
  ASSUME NEW d \in SUBSET Cells, NEW K \in SUBSET Sections, NEW t, SumK(d, K, t) <= 0
  PROVE  \A k \in K : <<k, t>> \notin d
<1> DEFINE S == {k \in K : <<k, t>> \in d}
<1>1. IsFiniteSet(S)
  BY Grid, FS_Subset
<1>2. S = {}
  BY <1>1, ZeroSum DEF SumK
<1> QED BY <1>2

LEMMA ZeroSumR ==
  ASSUME NEW d \in SUBSET Cells, NEW a, NEW R \in SUBSET Steps, SumR(d, a, R) <= 0
  PROVE  \A r \in R : <<a, r>> \notin d
<1> DEFINE S == {r \in R : <<a, r>> \in d}
<1>1. IsFiniteSet(S)
  BY Grid, FS_Subset
<1>2. S = {}
  BY <1>1, ZeroSum DEF SumR
<1> QED BY <1>2

LEMMA ZeroSumKR ==
  ASSUME NEW d \in SUBSET Cells, NEW K \in SUBSET Sections, NEW R \in SUBSET Steps,
         SumKR(d, K, R) <= 0
  PROVE  \A k \in K, r \in R : <<k, r>> \notin d
<1> DEFINE S == {c \in K \X R : c \in d}
<1>1. IsFiniteSet(S)
  <2>1. S \in SUBSET Cells
    OBVIOUS
  <2> QED BY <2>1, Grid, FS_Subset
<1>2. S = {}
  BY <1>1, ZeroSum DEF SumKR
<1> QED BY <1>2

(* EQ1: nothing is congested upstream of a boundary in space (-). *)
LEMMA MeaningEQ1 ==
  ASSUME NEW d \in SUBSET Cells, NEW a, NEW t, EQ1(d, a, t),
         <<a, t>> \in d, <<a - 1, t>> \notin d
  PROVE  \A k \in Upstream(a) : <<k, t>> \notin d
<1>1. SumK(d, Upstream(a), t) <= 0
  BY Grid DEF EQ1, Val
<1> QED BY <1>1, ZeroSumK DEF Upstream

(* EQ2: nothing is congested later than a boundary in time (+). *)
LEMMA MeaningEQ2 ==
  ASSUME NEW d \in SUBSET Cells, NEW a, NEW t, EQ2(d, a, t),
         <<a, t>> \in d, <<a, t + 1>> \notin d
  PROVE  \A r \in Later(t) : <<a, r>> \notin d
<1>1. SumR(d, a, Later(t)) <= 0
  BY Grid DEF EQ2, Val
<1> QED BY <1>1, ZeroSumR DEF Later

(* EQ3: the section downstream of a boundary in space (+) stays uncongested. *)
LEMMA MeaningEQ3 ==
  ASSUME NEW d \in SUBSET Cells, NEW a, NEW t, EQ3(d, a, t),
         <<a, t>> \in d, <<a + 1, t>> \notin d
  PROVE  \A r \in Later(t) : <<a + 1, r>> \notin d
<1>1. SumR(d, a + 1, Later(t)) <= 0
  BY Grid DEF EQ3, Val
<1> QED BY <1>1, ZeroSumR DEF Later

(* EQ5: nothing downstream and later than a boundary in space (+) and time (+). *)
LEMMA MeaningEQ5 ==
  ASSUME NEW d \in SUBSET Cells, NEW a, NEW t, EQ5(d, a, t),
         <<a, t>> \in d, <<a + 1, t>> \notin d, <<a, t + 1>> \notin d
  PROVE  \A k \in Downstream(a), r \in Later(t) : <<k, r>> \notin d
<1>1. SumKR(d, Downstream(a), Later(t)) <= 0
  BY Grid DEF EQ5, Val
<1> QED BY <1>1, ZeroSumKR DEF Downstream, Later

(* EQ6: nothing downstream and earlier than a boundary in space (+) and time (-). *)
LEMMA MeaningEQ6 ==
  ASSUME NEW d \in SUBSET Cells, NEW a, NEW t, EQ6(d, a, t),
         <<a, t>> \in d, <<a + 1, t>> \notin d, <<a, t - 1>> \notin d
  PROVE  \A k \in Downstream(a), r \in Earlier(t) : <<k, r>> \notin d
<1>1. SumKR(d, Downstream(a), Earlier(t)) <= 0
  BY Grid DEF EQ6, Val
<1> QED BY <1>1, ZeroSumKR DEF Downstream, Earlier

(* START_BOUNDARY: nothing in the step before the start cell nor in the section *)
(* downstream of it.                                                            *)
LEMMA MeaningSTART_BOUNDARY ==
  ASSUME NEW d \in SUBSET Cells, NEW s, NEW a, NEW t, START_BOUNDARY(d, s, a, t),
         <<a, t>> \in s
  PROVE  /\ \A k \in Sections : <<k, t - 1>> \notin d
         /\ \A r \in Steps : <<a + 1, r>> \notin d
<1>1. SumK(d, Sections, t - 1) \in Nat /\ SumR(d, a + 1, Steps) \in Nat
  <2>1. IsFiniteSet({k \in Sections : <<k, t - 1>> \in d})
    BY Grid, FS_Subset
  <2>2. IsFiniteSet({r \in Steps : <<a + 1, r>> \in d})
    BY Grid, FS_Subset
  <2> QED BY <2>1, <2>2, FS_CardinalityType DEF SumK, SumR
<1>2. SumK(d, Sections, t - 1) + SumR(d, a + 1, Steps) <= 0
  BY Grid DEF START_BOUNDARY, Val
<1>3. SumK(d, Sections, t - 1) <= 0 /\ SumR(d, a + 1, Steps) <= 0
  BY <1>1, <1>2
<1> QED BY <1>3, ZeroSumK, ZeroSumR

-----------------------------------------------------------------------------
(* Walks along the region. *)

(* From a cell the congestion lasts without interruption up to a last step. *)
LEMMA LastStep ==
  ASSUME NEW d \in SUBSET Cells, NEW a \in Sections, NEW t \in Steps, <<a, t>> \in d
  PROVE  \E u \in Steps :
           /\ t <= u /\ <<a, u + 1>> \notin d
           /\ \A v \in t..u : <<a, v>> \in d
<1> DEFINE T == {u \in Nat : t <= u /\ <<a, u + 1>> \notin d}
<1>1. M \in Nat /\ t \in Nat /\ t <= M - 1
  BY PlumeAssumption DEF Steps
<1>2. <<a, M>> \notin d
  BY <1>1 DEF Cells, Steps
<1>3. M - 1 \in T
  BY <1>1, <1>2
<1>4. PICK u \in T : \A y \in T : u <= y
  <2> HIDE DEF T
  <2>1. T \in SUBSET Nat
    BY DEF T
  <2> QED BY <1>3, <2>1, SmallestNat
<1>5. u \in Steps
  BY <1>1, <1>3, <1>4 DEF Steps
<1>6. ASSUME NEW v \in t..u PROVE <<a, v>> \in d
  <2>1. CASE v = t
    BY <2>1
  <2>2. CASE v # t
    <3>1. v - 1 \in Nat /\ t <= v - 1 /\ v - 1 < u
      BY <1>1, <1>4, <2>2
    <3>2. v - 1 \notin T
      BY <1>4, <3>1
    <3>3. (v - 1) + 1 = v
      BY <1>1
    <3> QED BY <3>1, <3>2, <3>3
  <2> QED BY <2>1, <2>2
<1> QED BY <1>4, <1>5, <1>6

(* From a cell the congestion reaches without interruption down to a last section. *)
LEMMA LastSection ==
  ASSUME NEW d \in SUBSET Cells, NEW a \in Sections, NEW t \in Steps, <<a, t>> \in d
  PROVE  \E b \in Sections :
           /\ a <= b /\ <<b + 1, t>> \notin d
           /\ \A k \in a..b : <<k, t>> \in d
<1> DEFINE T == {b \in Nat : a <= b /\ <<b + 1, t>> \notin d}
<1>1. J \in Nat /\ a \in Nat /\ a <= J
  BY PlumeAssumption DEF Sections
<1>2. <<J + 1, t>> \notin d
  BY <1>1 DEF Cells, Sections
<1>3. J \in T
  BY <1>1, <1>2
<1>4. PICK b \in T : \A y \in T : b <= y
  <2> HIDE DEF T
  <2>1. T \in SUBSET Nat
    BY DEF T
  <2> QED BY <1>3, <2>1, SmallestNat
<1>5. b \in Sections
  BY <1>1, <1>3, <1>4 DEF Sections
<1>6. ASSUME NEW k \in a..b PROVE <<k, t>> \in d
  <2>1. CASE k = a
    BY <2>1
  <2>2. CASE k # a
    <3>1. k - 1 \in Nat /\ a <= k - 1 /\ k - 1 < b
      BY <1>1, <1>4, <2>2
    <3>2. k - 1 \notin T
      BY <1>4, <3>1
    <3>3. (k - 1) + 1 = k
      BY <1>1
    <3> QED BY <3>1, <3>2, <3>3
  <2> QED BY <2>1, <2>2
<1> QED BY <1>4, <1>5, <1>6

(* With EQ1 the congested sections of a step form one block. *)
LEMMA NoGapInSpace ==
  ASSUME NEW d \in SUBSET Cells, NEW t \in Steps, \A x \in Sections : EQ1(d, x, t),
         NEW a \in Sections, NEW k \in Sections, NEW b \in Sections, a < k, k < b,
         <<a, t>> \in d, <<b, t>> \in d
  PROVE  <<k, t>> \in d
<1> SUFFICES ASSUME <<k, t>> \notin d PROVE FALSE
  OBVIOUS
<1> DEFINE T == {x \in Nat : k < x /\ <<x, t>> \in d}
<1>1. J \in Nat /\ a \in Nat /\ k \in Nat /\ b \in Nat
  BY PlumeAssumption DEF Sections
<1>2. b \in T
  BY <1>1
<1>3. PICK x \in T : \A y \in T : x <= y
  <2> HIDE DEF T
  <2>1. T \in SUBSET Nat
    BY DEF T
  <2> QED BY <1>2, <2>1, SmallestNat
<1>4. <<x - 1, t>> \notin d
  <2>1. CASE x - 1 = k
    BY <2>1
  <2>2. CASE x - 1 # k
    <3>1. x - 1 \in Nat /\ k < x - 1 /\ ~(x <= x - 1)
      BY <1>1, <1>3, <2>2
    <3> QED BY <1>3, <3>1
  <2> QED BY <2>1, <2>2
<1>5. x \in Sections
  BY <1>3 DEF Cells
<1>6. a \in Upstream(x)
  BY <1>1, <1>3 DEF Upstream
<1> QED BY <1>3, <1>4, <1>5, <1>6, MeaningEQ1

(* With EQ2 the congested steps of a section form one block. *)
LEMMA NoGapInTime ==
  ASSUME NEW d \in SUBSET Cells, NEW a \in Sections, \A u \in Steps : EQ2(d, a, u),
         NEW t \in Steps, NEW k \in Steps, NEW e \in Steps, t < k, k < e,
         <<a, t>> \in d, <<a, e>> \in d
  PROVE  <<a, k>> \in d
<1> SUFFICES ASSUME <<a, k>> \notin d PROVE FALSE
  OBVIOUS
<1>1. t \in Nat /\ k \in Nat /\ e \in Nat
  BY PlumeAssumption DEF Steps
<1>2. PICK u \in Steps : /\ t <= u /\ <<a, u + 1>> \notin d
                         /\ \A v \in t..u : <<a, v>> \in d
  BY LastStep
<1>3. u \in Nat /\ u < k
  <2>1. u \in Nat
    BY PlumeAssumption, <1>2 DEF Steps
  <2>2. k \notin t..u
    BY <1>2
  <2> QED BY <1>1, <2>1, <2>2
<1>4. e \in Later(u) /\ <<a, u>> \in d
  BY <1>1, <1>2, <1>3 DEF Later
<1> QED BY <1>2, <1>4, MeaningEQ2

-----------------------------------------------------------------------------
(* The region is fixed by Solve: it is a solution of the program. *)

IInv ==
  /\ region \in SUBSET Cells
  /\ startCell # {} => StartComputed
  /\ startCell \subseteq region
  /\ region = {} \/ Feasible(region, startCell)

(* IInv holds in every reachable state. *)
THEOREM Invariance == Spec => []IInv
<1>1. Init => IInv
  BY DEF Init, IInv
<1>2. IInv /\ [Next]_vars => IInv'
  <2> SUFFICES ASSUME IInv, [Next]_vars PROVE IInv'
    OBVIOUS
  <2>1. CASE Solve
    <3>1. PICK d \in SUBSET Cells :
            \E s \in {{}} \cup (IF StartComputed THEN {{c} : c \in d} ELSE {}) :
              Feasible(d, s) /\ region' = d /\ startCell' = s
      BY <2>1 DEF Solve
    <3>2. PICK s \in {{}} \cup (IF StartComputed THEN {{c} : c \in d} ELSE {}) :
            Feasible(d, s) /\ region' = d /\ startCell' = s
      BY <3>1
    <3>3. s \subseteq d /\ (s # {} => StartComputed)
      BY <3>2
    <3>4. Feasible(region', startCell')
      BY <3>2
    <3>5. region' \in SUBSET Cells /\ startCell' \subseteq region'
          /\ (startCell' # {} => StartComputed)
      BY <3>1, <3>2, <3>3
    <3> QED BY <3>4, <3>5 DEF IInv
  <2>2. CASE UNCHANGED <<region, startCell>>
    <3>1. region' = region /\ startCell' = startCell
      BY <2>2
    <3> QED BY <3>1 DEF IInv
  <2> QED BY <2>1, <2>2
       DEF Next, ComputeStart, FindExtent, EndStep, EndSection, Finish, found, vars
<1> QED BY <1>1, <1>2, PTL DEF Spec

(* Whatever the size of the window, the congested sections of each step and the *)
(* congested steps of each section form one block: no solver's answer splits a  *)
(* queue in two.                                                                *)
THEOREM RegionHasNoGaps == Spec => []NoGaps
<1>1. IInv => NoGaps
  <2> SUFFICES ASSUME IInv, NEW c \in region, NEW e \in region
               PROVE  /\ c[2] = e[2] => \A k \in Sections :
                            c[1] < k /\ k < e[1] => <<k, c[2]>> \in region
                      /\ c[1] = e[1] => \A t \in Steps :
                            c[2] < t /\ t < e[2] => <<c[1], t>> \in region
    BY DEF NoGaps
  <2>1. /\ region \in SUBSET Cells
        /\ \A x \in Sections, u \in Steps : EQ1(region, x, u) /\ EQ2(region, x, u)
    BY DEF IInv, Feasible
  <2>2. /\ c = <<c[1], c[2]>> /\ c[1] \in Sections /\ c[2] \in Steps
        /\ e = <<e[1], e[2]>> /\ e[1] \in Sections /\ e[2] \in Steps
    BY <2>1 DEF Cells
  <2>3. ASSUME c[2] = e[2], NEW k \in Sections, c[1] < k, k < e[1]
        PROVE  <<k, c[2]>> \in region
    BY <2>1, <2>2, <2>3, NoGapInSpace
  <2>4. ASSUME c[1] = e[1], NEW t \in Steps, c[2] < t, t < e[2]
        PROVE  <<c[1], t>> \in region
    BY <2>1, <2>2, <2>4, NoGapInTime
  <2> QED BY <2>3, <2>4
<1> QED BY <1>1, Invariance, PTL

(* The equations together make the start cell the head of the region.           *)
LEMMA HeadOfRegion ==
  ASSUME UseEq3, UseEq4567
  PROVE  IInv => StartIsHead
<1> SUFFICES ASSUME IInv, NEW h \in startCell, NEW c \in region
             PROVE  c[1] <= h[1] /\ c[2] >= h[2]
  BY DEF StartIsHead
<1> DEFINE a == h[1]
           t == h[2]
           b == c[1]
           u == c[2]
<1>1. /\ region \in SUBSET Cells
      /\ h = <<a, t>> /\ a \in Sections /\ t \in Steps /\ <<a, t>> \in region
      /\ c = <<b, u>> /\ b \in Sections /\ u \in Steps /\ <<b, u>> \in region
  BY DEF IInv, Cells
<1>2. Feasible(region, startCell) /\ StartComputed
  BY <1>1 DEF IInv
<1>3. \A x \in Sections, v \in Steps :
        /\ EQ1(region, x, v) /\ EQ2(region, x, v) /\ EQ3(region, x, v)
        /\ EQ5(region, x, v) /\ EQ6(region, x, v)
        /\ START_BOUNDARY(region, startCell, x, v)
  BY <1>2 DEF Feasible, StartRules
<1>4. /\ \A k \in Sections : <<k, t - 1>> \notin region
      /\ \A r \in Steps : <<a + 1, r>> \notin region
  BY <1>1, <1>3, MeaningSTART_BOUNDARY
<1>5. /\ a \in Nat /\ b \in Nat /\ a <= J /\ b <= J /\ J \in Nat
      /\ t \in Nat /\ u \in Nat /\ t <= M - 1 /\ u <= M - 1 /\ M \in Nat
  BY <1>1, PlumeAssumption DEF Sections, Steps
<1> HIDE DEF a, b, t, u
<1>6. b <= a
  <2> SUFFICES ASSUME b > a PROVE FALSE
    BY <1>5
  <2>1. PICK v \in Steps : /\ t <= v /\ <<a, v + 1>> \notin region
                           /\ \A w \in t..v : <<a, w>> \in region
    BY <1>1, LastStep
  <2>2. v \in Nat
    BY PlumeAssumption DEF Steps
  <2>3. <<a + 1, v>> \notin region /\ <<a + 1, t>> \notin region
    BY <1>1, <1>4
  <2>4. b \in Downstream(a)
    BY <1>1 DEF Downstream
  <2>5. CASE u < t
    <3>1. u \in Earlier(t)
      BY <1>1, <2>5 DEF Earlier
    <3>2. <<a, t - 1>> \notin region
      BY <1>1, <1>4
    <3> QED BY <1>1, <1>3, <2>3, <2>4, <3>1, <3>2, MeaningEQ6
  <2>6. CASE u > v
    <3>1. u \in Later(v)
      BY <1>1, <2>6 DEF Later
    <3>2. <<a, v>> \in region
      BY <1>5, <2>1, <2>2
    <3> QED BY <1>1, <1>3, <2>1, <2>3, <2>4, <3>1, <3>2, MeaningEQ5
  <2>7. CASE t <= u /\ u <= v
    <3>1. <<a, u>> \in region
      BY <1>5, <2>1, <2>2, <2>7
    <3>2. <<a + 1, u>> \notin region
      BY <1>1, <1>4
    <3>3. a + 1 # b /\ a + 1 \in Sections /\ a < a + 1 /\ a + 1 < b
      BY <1>1, <1>5, <3>2 DEF Sections
    <3> QED BY <1>1, <1>3, <3>1, <3>2, <3>3, NoGapInSpace
  <2> QED BY <1>5, <2>2, <2>5, <2>6, <2>7
<1>7. u >= t
  <2> SUFFICES ASSUME u < t PROVE FALSE
    BY <1>5
  <2>1. u # t - 1 /\ t - 1 \in Steps /\ u < t - 1
    BY <1>1, <1>4, <1>5 DEF Steps
  <2>2. \A x \in Sections : <<x, u>> \in region => <<x, t>> \notin region
    <3> SUFFICES ASSUME NEW x \in Sections, <<x, u>> \in region, <<x, t>> \in region
                 PROVE  FALSE
      OBVIOUS
    <3>1. <<x, t - 1>> \in region
      <4>1. t - 1 < t
        BY <1>5
      <4>2. \A w \in Steps : EQ2(region, x, w)
        BY <1>3
      <4> QED BY <1>1, <2>1, <4>1, <4>2, NoGapInTime
    <3> QED BY <1>4, <3>1
  <2>3. PICK x \in Sections : /\ b <= x /\ <<x + 1, u>> \notin region
                              /\ \A k \in b..x : <<k, u>> \in region
    BY <1>1, LastSection
  <2>4. x \in Nat /\ x < a /\ <<x, u>> \in region
    <3>1. x \in Nat
      BY PlumeAssumption DEF Sections
    <3>2. a \notin b..x
      BY <1>1, <2>2, <2>3
    <3> QED BY <1>5, <1>6, <2>3, <3>1, <3>2
  <2>5. PICK v \in Steps : /\ u <= v /\ <<x, v + 1>> \notin region
                           /\ \A w \in u..v : <<x, w>> \in region
    BY <1>1, <2>4, LastStep
  <2>6. v \in Nat /\ v < t - 1 /\ <<x, v>> \in region
    <3>1. v \in Nat
      BY PlumeAssumption DEF Steps
    <3>2. t - 1 \notin u..v
      BY <1>4, <2>5
    <3> QED BY <1>5, <2>1, <2>5, <3>1, <3>2
  <2>7. <<x + 1, v>> \notin region
    <3>1. CASE v = u
      BY <2>3, <3>1
    <3>2. CASE v # u
      <4>1. v \in Later(u)
        BY <1>5, <2>5, <2>6, <3>2 DEF Later
      <4> QED BY <1>1, <1>3, <2>3, <2>4, <4>1, MeaningEQ3
    <3> QED BY <3>1, <3>2
  <2>8. a \in Downstream(x) /\ t \in Later(v)
    BY <1>1, <1>5, <2>4, <2>6 DEF Downstream, Later
  <2> QED BY <1>1, <1>3, <2>5, <2>6, <2>7, <2>8, MeaningEQ5
<1> QED BY <1>6, <1>7 DEF a, b, t, u

(* With the equations the options select by default, and the start rules that EQ8 *)
(* brings, no cell is congested before the start cell or downstream of it.        *)
THEOREM StartCellIsHead ==
  ASSUME UseEq3, UseEq4567
  PROVE  Spec => []StartIsHead
<1>1. IInv => StartIsHead
  BY HeadOfRegion
<1> QED BY <1>1, Invariance, PTL

(* compute_incident_start finds the cell that the program marked as the start of   *)
(* the disturbance, whenever that cell is in a section its loops look at: being    *)
(* the head of the region, the marked cell is also the earliest congested step of  *)
(* the most downstream section, which is what the loops pick.                      *)
THEOREM StartIsFound ==
  ASSUME UseEq3, UseEq4567
  PROVE  Spec => []StartIsProgramsStart
<1>1. Init => StartIsProgramsStart
  BY DEF Init, StartIsProgramsStart
<1>2. IInv /\ StartIsProgramsStart /\ [Next]_vars => StartIsProgramsStart'
  <2> SUFFICES ASSUME IInv, StartIsProgramsStart, [Next]_vars PROVE StartIsProgramsStart'
    OBVIOUS
  <2>1. CASE Solve
    BY <2>1 DEF Solve, StartIsProgramsStart
  <2>2. CASE ComputeStart
    <3> SUFFICES ASSUME NEW h \in startCell, h[1] < J PROVE h = <<jstart', mstart'>>
      BY <2>2 DEF ComputeStart, StartIsProgramsStart
    <3>1. h \in Scanned /\ region \in SUBSET Cells
      BY DEF IInv, Scanned
    <3>2. PICK c \in Scanned :
            /\ \A e \in Scanned : e[1] < c[1] \/ (e[1] = c[1] /\ e[2] >= c[2])
            /\ jstart' = c[1] /\ mstart' = c[2]
      BY <2>2, <3>1 DEF ComputeStart
    <3>3. c \in region /\ h \in region
      BY <3>1, <3>2 DEF Scanned
    <3>4. c[1] <= h[1] /\ c[2] >= h[2]
      BY <3>3, HeadOfRegion DEF StartIsHead
    <3>5. h[1] < c[1] \/ (h[1] = c[1] /\ h[2] >= c[2])
      BY <3>1, <3>2
    <3>6. /\ c[1] \in Nat /\ c[2] \in Nat /\ h[1] \in Nat /\ h[2] \in Nat
          /\ h = <<h[1], h[2]>>
      BY <3>1, <3>3, PlumeAssumption DEF Cells, Sections, Steps
    <3>7. h[1] = c[1] /\ h[2] = c[2]
      BY <3>4, <3>5, <3>6
    <3> QED BY <3>2, <3>6, <3>7
  <2>3. CASE phase \in {"extent", "drive"} /\ UNCHANGED <<region, startCell, jstart, mstart>>
    BY <2>3 DEF StartIsProgramsStart
  <2>4. CASE UNCHANGED vars
    BY <2>4 DEF vars, StartIsProgramsStart
  <2> QED BY <2>1, <2>2, <2>3, <2>4
       DEF Next, FindExtent, EndStep, EndSection, Driving, Finish, found
<1> QED BY <1>1, <1>2, Invariance, PTL DEF Spec

(* The equations keep the head of the region from moving downstream.               *)
LEMMA HeadRetreats ==
  ASSUME UseEq3, UseEq4567
  PROVE  IInv => HeadNeverMovesDownstream
<1> SUFFICES ASSUME IInv, NEW c \in region, NEW e \in region, c[2] < e[2]
             PROVE  \E h \in region : h[2] = c[2] /\ h[1] >= e[1]
  BY DEF HeadNeverMovesDownstream
<1> DEFINE a == c[1]
           t == c[2]
           b == e[1]
           u == e[2]
<1>1. /\ region \in SUBSET Cells
      /\ c = <<a, t>> /\ a \in Sections /\ t \in Steps /\ <<a, t>> \in region
      /\ e = <<b, u>> /\ b \in Sections /\ u \in Steps /\ <<b, u>> \in region
  BY DEF IInv, Cells
<1>2. \A x \in Sections, v \in Steps :
        EQ1(region, x, v) /\ EQ3(region, x, v) /\ EQ5(region, x, v)
  BY <1>1 DEF IInv, Feasible
<1>3. /\ a \in Nat /\ b \in Nat /\ b <= J /\ J \in Nat
      /\ t \in Nat /\ u \in Nat /\ M \in Nat
  BY <1>1, PlumeAssumption DEF Sections, Steps
<1> HIDE DEF a, b, t, u
<1>4. PICK x \in Sections : /\ a <= x /\ <<x + 1, t>> \notin region
                            /\ \A k \in a..x : <<k, t>> \in region
  BY <1>1, LastSection
<1>5. x \in Nat /\ <<x, t>> \in region
  <2>1. x \in Nat
    BY PlumeAssumption DEF Sections
  <2> QED BY <1>3, <1>4, <2>1
<1>6. x >= b
  <2> SUFFICES ASSUME x < b PROVE FALSE
    BY <1>3, <1>5
  <2>1. \A r \in Later(t) : <<x + 1, r>> \notin region
    BY <1>1, <1>2, <1>4, <1>5, MeaningEQ3
  <2>2. PICK v \in Steps : /\ t <= v /\ <<x, v + 1>> \notin region
                           /\ \A w \in t..v : <<x, w>> \in region
    BY <1>1, <1>5, LastStep
  <2>3. v \in Nat /\ <<x, v>> \in region
    <3>1. v \in Nat
      BY PlumeAssumption DEF Steps
    <3> QED BY <1>3, <2>2, <3>1
  <2>4. CASE v < u
    <3>1. <<x + 1, v>> \notin region
      <4>1. CASE v = t
        BY <1>4, <4>1
      <4>2. CASE v # t
        BY <1>3, <2>1, <2>2, <2>3, <4>2 DEF Later
      <4> QED BY <4>1, <4>2
    <3>2. b \in Downstream(x) /\ u \in Later(v)
      BY <1>1, <2>4 DEF Downstream, Later
    <3> QED BY <1>1, <1>2, <2>2, <2>3, <3>1, <3>2, MeaningEQ5
  <2>5. CASE v >= u
    <3>1. t < u
      BY DEF t, u
    <3>2. <<x, u>> \in region /\ <<x + 1, u>> \notin region
      BY <1>1, <1>3, <2>1, <2>2, <2>3, <2>5, <3>1 DEF Later
    <3>3. x + 1 \in Sections /\ x < x + 1 /\ x + 1 < b
      <4>1. x + 1 # b
        BY <1>1, <3>2
      <4> QED BY <1>3, <1>5, <4>1 DEF Sections
    <3> QED BY <1>1, <1>2, <3>2, <3>3, NoGapInSpace
  <2> QED BY <1>3, <2>3, <2>4, <2>5
<1>7. <<x, t>>[2] = c[2] /\ <<x, t>>[1] >= e[1]
  BY <1>6 DEF b, t
<1> QED BY <1>5, <1>7

(* With the equations the options select by default the head of the queue stays or *)
(* moves upstream: what is congested later was matched, at every earlier congested *)
(* step, by congestion at least as far downstream.                                 *)
THEOREM HeadOnlyRetreats ==
  ASSUME UseEq3, UseEq4567
  PROVE  Spec => []HeadNeverMovesDownstream
<1>1. IInv => HeadNeverMovesDownstream
  BY HeadRetreats
<1> QED BY <1>1, Invariance, PTL

(* Two parts of the region that touch nowhere share no step ...                    *)
LEMMA StepIsOnePart ==
  ASSUME IInv, NEW X, NEW Y, X \cup Y = region,
         \A c \in X, e \in Y : ~Adjacent(c, e) /\ ~Adjacent(e, c),
         NEW t \in Steps, NEW a \in Sections, NEW b \in Sections,
         <<a, t>> \in X, <<b, t>> \in Y, a < b
  PROVE  FALSE
<1>1. J \in Nat /\ a \in Nat /\ b \in Nat /\ a <= J /\ b <= J
  BY PlumeAssumption DEF Sections
<1>2. PICK k \in {x \in Nat : a < x /\ <<x, t>> \in Y} :
        \A y \in {x \in Nat : a < x /\ <<x, t>> \in Y} : k <= y
  <2>1. b \in {x \in Nat : a < x /\ <<x, t>> \in Y}
    BY <1>1
  <2>2. {x \in Nat : a < x /\ <<x, t>> \in Y} \in SUBSET Nat
    OBVIOUS
  <2> QED BY <2>1, <2>2, SmallestNat
<1>3. k \in Nat /\ a < k /\ <<k, t>> \in Y /\ k \in Sections /\ k - 1 \in Nat /\ a <= k - 1
  BY <1>1, <1>2 DEF IInv, Cells
<1>4. <<k - 1, t>> \in X
  <2>1. CASE k - 1 = a
    BY <2>1
  <2>2. CASE k - 1 # a
    <3>1. k - 1 \in Sections /\ a < k - 1 /\ k - 1 < k /\ ~(k <= k - 1)
      BY <1>1, <1>3, <2>2 DEF Sections
    <3>2. <<k - 1, t>> \in region
      <4>1. region \in SUBSET Cells /\ \A x \in Sections : EQ1(region, x, t)
        BY DEF IInv, Feasible
      <4>2. <<a, t>> \in region /\ <<k, t>> \in region
        BY <1>3
      <4> QED BY <1>3, <3>1, <4>1, <4>2, NoGapInSpace
    <3>3. <<k - 1, t>> \notin Y
      BY <1>2, <1>3, <3>1
    <3> QED BY <3>2, <3>3
  <2> QED BY <2>1, <2>2
<1>5. Adjacent(<<k - 1, t>>, <<k, t>>)
  BY <1>3 DEF Adjacent
<1> QED BY <1>3, <1>4, <1>5

(* ... and neither has a cell later than one of the other: at the first step that  *)
(* has one, the head would be cut off from what came before.                       *)
LEMMA LaterIsSamePart ==
  ASSUME UseEq3, UseEq4567, IInv, NEW X, NEW Y, X \cup Y = region,
         \A c \in X, e \in Y : ~Adjacent(c, e) /\ ~Adjacent(e, c),
         NEW c \in X, NEW e \in Y, c[2] < e[2]
  PROVE  FALSE
<1>1. J \in Nat /\ M \in Nat /\ region \in SUBSET Cells
  BY PlumeAssumption DEF IInv
<1>2. /\ c = <<c[1], c[2]>> /\ c[1] \in Sections /\ c[2] \in Steps /\ c[2] \in Nat
      /\ e = <<e[1], e[2]>> /\ e[1] \in Sections /\ e[2] \in Steps /\ e[2] \in Nat
  BY <1>1 DEF Cells, Steps
<1>3. PICK u \in {x \in Nat : c[2] < x /\ \E k \in Sections : <<k, x>> \in Y} :
        \A y \in {x \in Nat : c[2] < x /\ \E k \in Sections : <<k, x>> \in Y} : u <= y
  <2>1. e[2] \in {x \in Nat : c[2] < x /\ \E k \in Sections : <<k, x>> \in Y}
    BY <1>2
  <2>2. {x \in Nat : c[2] < x /\ \E k \in Sections : <<k, x>> \in Y} \in SUBSET Nat
    OBVIOUS
  <2> QED BY <2>1, <2>2, SmallestNat
<1>4. PICK k \in Sections : <<k, u>> \in Y
  BY <1>3
<1>5. u \in Nat /\ c[2] < u /\ u \in Steps
  BY <1>1, <1>3, <1>4 DEF Cells
<1>6. PICK z \in {x \in Nat : x <= J /\ <<J - x, u>> \in Y} :
        \A y \in {x \in Nat : x <= J /\ <<J - x, u>> \in Y} : z <= y
  <2>1. J - k \in Nat /\ J - k <= J /\ J - (J - k) = k
    BY <1>1 DEF Sections
  <2>2. J - k \in {x \in Nat : x <= J /\ <<J - x, u>> \in Y}
    BY <1>4, <2>1
  <2>3. {x \in Nat : x <= J /\ <<J - x, u>> \in Y} \in SUBSET Nat
    OBVIOUS
  <2> QED BY <2>2, <2>3, SmallestNat
<1>7. PICK b : b = J - z
  OBVIOUS
<1>8. b \in Sections /\ b \in Nat /\ <<b, u>> \in Y /\ <<b, u>> \in region
  BY <1>1, <1>6, <1>7 DEF Sections
<1>9. <<b + 1, u>> \notin region
  <2> SUFFICES ASSUME <<b + 1, u>> \in region PROVE FALSE
    OBVIOUS
  <2>1. <<b + 1, u>> \in Y
    <3>1. Adjacent(<<b + 1, u>>, <<b, u>>)
      BY <1>8 DEF Adjacent
    <3> QED BY <1>8, <3>1
  <2>2. b + 1 \in Sections
    BY <1>1 DEF Cells
  <2>3. J - (b + 1) = z - 1 /\ z - 1 \in Nat /\ z - 1 <= J /\ J - (z - 1) = b + 1 /\ ~(z <= z - 1)
    BY <1>1, <1>6, <1>7, <1>8, <2>2 DEF Sections
  <2> QED BY <1>6, <2>1, <2>3
<1>10. <<b, u - 1>> \notin region
  <2> SUFFICES ASSUME <<b, u - 1>> \in region PROVE FALSE
    OBVIOUS
  <2>1. Adjacent(<<b, u - 1>>, <<b, u>>)
    BY <1>5 DEF Adjacent
  <2>2. <<b, u - 1>> \in Y
    BY <1>8, <2>1
  <2>3. u - 1 \in Nat /\ ~(u <= u - 1) /\ c[2] <= u - 1
    BY <1>2, <1>5
  <2>4. c[2] = u - 1
    BY <1>2, <1>3, <1>8, <2>2, <2>3
  <2>5. c[1] \in Nat /\ c[1] # b
    <3>1. c[1] \in Nat
      BY <1>1, <1>2 DEF Sections
    <3>2. c[1] # b
      BY <1>2, <1>8, <2>1, <2>4
    <3> QED BY <3>1, <3>2
  <2>6. CASE c[1] < b
    BY <1>2, <1>8, <2>2, <2>4, <2>6, StepIsOnePart
  <2>7. CASE b < c[1]
    <3>1. Y \cup X = region /\ \A x \in Y, y \in X : ~Adjacent(x, y) /\ ~Adjacent(y, x)
      OBVIOUS
    <3> QED BY <1>2, <1>8, <2>2, <2>4, <2>7, <3>1, StepIsOnePart
  <2> QED BY <1>8, <2>5, <2>6, <2>7
<1>11. PICK h \in region : h[2] = c[2] /\ h[1] >= b
  <2>1. <<b, u>>[2] = u /\ <<b, u>>[1] = b /\ c \in region
    OBVIOUS
  <2> QED BY <1>5, <1>8, <2>1, HeadRetreats DEF HeadNeverMovesDownstream
<1>12. h = <<h[1], c[2]>> /\ h[1] \in Sections /\ h[1] \in Nat /\ h[1] = b
  <2>1. h = <<h[1], c[2]>> /\ h[1] \in Sections /\ h[1] \in Nat
    BY <1>1, <1>11 DEF Cells, Sections
  <2>2. EQ6(region, b, u)
    BY <1>5, <1>8 DEF IInv, Feasible
  <2>3. \A x \in Downstream(b), r \in Earlier(u) : <<x, r>> \notin region
    BY <1>1, <1>8, <1>9, <1>10, <2>2, MeaningEQ6
  <2>4. c[2] \in Earlier(u)
    BY <1>2, <1>5 DEF Earlier
  <2>5. h[1] \notin Downstream(b)
    BY <1>11, <2>1, <2>3, <2>4
  <2>6. ~(h[1] > b)
    BY <2>1, <2>5 DEF Downstream
  <2> QED BY <1>8, <1>11, <2>1, <2>6
<1>13. u - 1 \in Steps /\ c[2] < u - 1 /\ u - 1 < u
  <2>1. c[2] # u - 1
    BY <1>10, <1>12
  <2> QED BY <1>1, <1>2, <1>5, <2>1 DEF Steps
<1>14. \A r \in Steps : EQ2(region, b, r)
  BY <1>8 DEF IInv, Feasible
<1>15. <<b, c[2]>> \in region
  BY <1>12
<1> QED BY <1>1, <1>2, <1>5, <1>8, <1>10, <1>13, <1>14, <1>15, NoGapInTime

(* With the equations the options select by default the solver's region is one     *)
(* plume: however it is cut in two, two cells of the parts are neighbours.  EQ1    *)
(* and EQ2 alone leave separate plumes possible; EQ6 ties the head of each step    *)
(* to the steps before.                                                            *)
THEOREM RegionIsOnePlume ==
  ASSUME UseEq3, UseEq4567
  PROVE  Spec => []OnePlume
<1>1. IInv => OnePlume
  <2> SUFFICES ASSUME IInv, NEW part \in SUBSET region, part # {}, part # region,
                      \A c \in part, e \in region \ part : ~Adjacent(c, e)
               PROVE  FALSE
    BY DEF OnePlume
  <2> DEFINE rest == region \ part
  <2>1. PICK c \in part, e \in rest : TRUE
    OBVIOUS
  <2>2. /\ c = <<c[1], c[2]>> /\ c[1] \in Sections /\ c[2] \in Steps
        /\ e = <<e[1], e[2]>> /\ e[1] \in Sections /\ e[2] \in Steps
    BY <2>1 DEF IInv, Cells
  <2>3. c[1] \in Nat /\ c[2] \in Nat /\ e[1] \in Nat /\ e[2] \in Nat
    BY <2>2, PlumeAssumption DEF Sections, Steps
  <2>4. \A x \in region, y \in region : Adjacent(x, y) => Adjacent(y, x)
    <3> SUFFICES ASSUME NEW x \in region, NEW y \in region, Adjacent(x, y) PROVE Adjacent(y, x)
      OBVIOUS
    <3>1. x[1] \in Nat /\ x[2] \in Nat /\ y[1] \in Nat /\ y[2] \in Nat
      BY PlumeAssumption DEF IInv, Cells, Sections, Steps
    <3> QED BY <3>1 DEF Adjacent
  <2>5. /\ part \cup rest = region /\ rest \cup part = region
        /\ \A x \in part, y \in rest : ~Adjacent(x, y) /\ ~Adjacent(y, x)
        /\ \A x \in rest, y \in part : ~Adjacent(x, y) /\ ~Adjacent(y, x)
    BY <2>4
  <2> HIDE DEF rest
  <2>6. CASE c[2] < e[2]
    BY <2>1, <2>5, <2>6, LaterIsSamePart
  <2>7. CASE e[2] < c[2]
    BY <2>1, <2>5, <2>7, LaterIsSamePart
  <2>8. CASE c[2] = e[2]
    <3>1. c[1] # e[1]
      BY <2>1, <2>2, <2>8 DEF rest
    <3>2. CASE c[1] < e[1]
      BY <2>1, <2>2, <2>5, <2>8, <3>2, StepIsOnePart
    <3>3. CASE e[1] < c[1]
      BY <2>1, <2>2, <2>5, <2>8, <3>3, StepIsOnePart
    <3> QED BY <2>3, <3>1, <3>2, <3>3
  <2> QED BY <2>3, <2>6, <2>7, <2>8
<1> QED BY <1>1, Invariance, PTL

-----------------------------------------------------------------------------
(* Types: the vehicle stays on the grid and the reported step in the window. *)

\* Facts of arithmetic about what is driven in a time and the time a way takes.
LEMMA TimesMonotone ==
  ASSUME NEW a \in Nat, NEW b \in Nat, NEW v \in Nat, a >= b
  PROVE  a * v \in Nat /\ b * v \in Nat /\ a * v >= b * v
<1>1. PICK d \in Nat : a = b + d
  <2>1. a - b \in Nat /\ a = b + (a - b)
    OBVIOUS
  <2> QED BY <2>1
<1>2. (b + d) * v = b * v + d * v
  OBVIOUS
<1>3. d * v \in Nat /\ b * v \in Nat
  OBVIOUS
<1> QED BY <1>1, <1>2, <1>3

LEMMA Quotient ==
  ASSUME NEW a \in Nat, NEW v \in Nat \ {0}
  PROVE  a \div v \in Nat /\ (a \div v) * v <= a /\ a < (a \div v) * v + v
OBVIOUS

LEMMA QuotientBelow ==
  ASSUME NEW a \in Nat, NEW t \in Nat, NEW v \in Nat \ {0}, a <= t * v
  PROVE  a \div v \in Nat /\ a \div v <= t
<1>1. PICK q \in Nat : q = a \div v /\ q * v <= a
  BY Quotient
<1>2. SUFFICES ASSUME q >= t + 1 PROVE FALSE
  BY <1>1
<1>3. q * v >= (t + 1) * v
  BY <1>2, TimesMonotone
<1>4. (t + 1) * v = t * v + v /\ t * v \in Nat
  OBVIOUS
<1> QED BY <1>1, <1>3, <1>4

LEMMA QuotientMonotone ==
  ASSUME NEW a \in Nat, NEW b \in Nat, NEW v \in Nat \ {0}, a <= b
  PROVE  a \div v \in Nat /\ b \div v \in Nat /\ a \div v <= b \div v
<1>1. PICK q \in Nat : q = a \div v /\ q * v <= a
  BY Quotient
<1>2. PICK r \in Nat : r = b \div v /\ b < r * v + v
  BY Quotient
<1>3. SUFFICES ASSUME q >= r + 1 PROVE FALSE
  BY <1>1, <1>2
<1>4. q * v >= (r + 1) * v
  BY <1>3, TimesMonotone
<1>5. (r + 1) * v = r * v + v /\ r * v \in Nat /\ q * v \in Nat
  OBVIOUS
<1> QED BY <1>1, <1>2, <1>4, <1>5
LEMMA SpeedIsPositive ==
  ASSUME TypeOK, Driving
  PROVE  Spd(j, m) \in Nat \ {0}
<1>1. m \in Steps /\ j \in Sections
  BY PlumeAssumption DEF TypeOK, Driving, Steps
<1>2. speed[<<j, m>>] \in Nat
  BY <1>1 DEF TypeOK, Cells
<1> QED BY <1>2, ExtentAssumption DEF Spd

LEMMA StationLenType ==
  ASSUME NEW k \in Sections
  PROVE  StationLen(k) \in Nat
<1>1. J - k \in Sections
  BY PlumeAssumption DEF Sections
<1> QED BY <1>1, ExtentAssumption DEF StationLen

(* The variables keep their types; in particular what is left of a section and of *)
(* a time step is never negative, so compute_incident_clear never dies with       *)
(* "BAD DISTANCE".                                                                *)
THEOREM TypeCorrect == Spec => []TypeOK
<1>0. 0 \in Sections /\ 0 \in Steps /\ 0 \in 0..M /\ 0 \in 0..TICKS
  BY PlumeAssumption, ExtentAssumption DEF Sections, Steps
<1>1. Init => TypeOK
  <2> SUFFICES ASSUME Init PROVE TypeOK
    OBVIOUS
  <2>1. speed \in [Cells -> Nat]
    BY DEF Init
  <2>2. /\ jstart \in Sections /\ mstart \in Steps /\ j \in Sections /\ m \in 0..M
        /\ spaceres \in Nat /\ timeres \in 0..TICKS /\ clear \in Steps
    BY <1>0, Zenon DEF Init
  <2> QED BY <2>1, <2>2 DEF Init, TypeOK
<1>2. TypeOK /\ [Next]_vars => TypeOK'
  <2> SUFFICES ASSUME TypeOK, [Next]_vars PROVE TypeOK'
    OBVIOUS
  <2> USE DEF TypeOK
  <2>1. CASE Solve
    <3>1. region' \subseteq Cells /\ startCell' \subseteq Cells
      BY <2>1 DEF Solve
    <3>2. speed' \in [Cells -> Nat]
      BY <2>1, ExtentAssumption DEF Solve
    <3> QED BY <2>1, <3>1, <3>2 DEF Solve
  <2>2. CASE ComputeStart
    <3>1. jstart' \in Sections /\ mstart' \in Steps
      BY <1>0, <2>2 DEF ComputeStart, Scanned, Cells
    <3> QED BY <2>2, <3>1 DEF ComputeStart
  <2>3. CASE FindExtent
    <3>1. j' \in Sections /\ m' \in 0..M
      <4>1. CASE j' = 0 /\ m' = 1
        BY <1>0, <4>1, PlumeAssumption
      <4>2. CASE \E c \in Scanned : j' = c[1] /\ m' = c[2] + 1
        BY <4>2, PlumeAssumption DEF Scanned, Cells, Steps
      <4> QED BY <2>3, <4>1, <4>2 DEF FindExtent
    <3>2. spaceres' \in Nat /\ timeres' \in 0..TICKS
      BY <2>3, <3>1, StationLenType, ExtentAssumption DEF FindExtent
    <3> QED BY <2>3, <3>1, <3>2 DEF FindExtent, found
  <2>4. CASE EndStep
    <3>1. Spd(j, m) \in Nat \ {0}
      BY <2>4, SpeedIsPositive DEF EndStep
    <3>2. spaceres' \in Nat
      <4> DEFINE v == Spd(j, m)
      <4>1. v \in Nat /\ timeres \in Nat /\ v * timeres \in Nat /\ timeres * v = v * timeres
        BY <3>1, ExtentAssumption
      <4>2. spaceres > timeres * v /\ spaceres' = spaceres - v * timeres
        BY <2>4 DEF EndStep
      <4> HIDE DEF v
      <4> QED BY <4>1, <4>2
    <3>3. m' \in 0..M
      BY <2>4, PlumeAssumption DEF EndStep, Driving
    <3> QED BY <2>4, <3>2, <3>3 DEF EndStep, found
  <2>5. CASE EndSection
    <3>1. Spd(j, m) \in Nat \ {0}
      BY <2>5, SpeedIsPositive DEF EndSection
    <3>2. timeres' \in 0..TICKS
      <4>1. spaceres <= timeres * Spd(j, m) /\ timeres' = timeres - spaceres \div Spd(j, m)
        BY <2>5 DEF EndSection
      <4>2. spaceres \in Nat /\ timeres \in Nat /\ timeres <= TICKS /\ TICKS \in Nat
        BY ExtentAssumption
      <4>3. spaceres \div Spd(j, m) \in Nat /\ spaceres \div Spd(j, m) <= timeres
        BY <3>1, <4>1, <4>2, QuotientBelow
      <4> QED BY <4>1, <4>2, <4>3
    <3>3. j' \in Sections
      BY <2>5, PlumeAssumption DEF EndSection, Driving, Sections
    <3>4. spaceres' \in Nat
      BY <2>5, <3>3, StationLenType DEF EndSection
    <3> QED BY <2>5, <3>2, <3>3, <3>4 DEF EndSection, found
  <2>6. CASE Finish
    <3>1. clear' \in Steps
      BY <2>6, PlumeAssumption DEF Finish, Steps
    <3> QED BY <2>6, <3>1 DEF Finish, found
  <2>7. CASE UNCHANGED vars
    BY <2>7 DEF vars
  <2> QED BY <2>1, <2>2, <2>3, <2>4, <2>5, <2>6, <2>7 DEF Next
<1> QED BY <1>1, <1>2, PTL DEF Spec

-----------------------------------------------------------------------------
(* The arrival of the vehicle: Arrive is what its definition says, and who is *)
(* ahead is never later.                                                      *)

Arrived(p) == p.section >= jstart \/ p.step >= M

Left(p) == (M - p.step) + (J - p.section)

(* Until it arrives the vehicle moves on, a section or a step at a time.      *)
LEMMA PositionOnward ==
  ASSUME TypeOK, NEW p \in Positions, ~Arrived(p)
  PROVE  /\ Spd(p.section, p.step) \in Nat \ {0}
         /\ Onward(p) \in Positions
         /\ Left(p) \in Nat /\ Left(Onward(p)) \in Nat /\ Left(Onward(p)) = Left(p) - 1
         /\ p.space > p.time * Spd(p.section, p.step) =>
              Onward(p) = [section |-> p.section, step |-> p.step + 1, time |-> TICKS,
                           space |-> p.space - p.time * Spd(p.section, p.step)]
         /\ ~(p.space > p.time * Spd(p.section, p.step)) =>
              Onward(p) = [section |-> p.section + 1, step |-> p.step,
                           time |-> p.time - p.space \div Spd(p.section, p.step),
                           space |-> SegLen[p.section + 1]]
<1>1. /\ p.section \in Nat /\ p.step \in Nat /\ p.time \in Nat /\ p.space \in Nat
      /\ p.time <= TICKS /\ TICKS \in Nat /\ J \in Nat /\ M \in Nat /\ p.section < J /\ p.step < M
      /\ p.section \in Sections /\ p.section + 1 \in Sections /\ p.step \in Steps
  BY PlumeAssumption, ExtentAssumption DEF TypeOK, Positions, Arrived, Sections, Steps
<1>2. Spd(p.section, p.step) \in Nat \ {0}
  <2>1. speed[<<p.section, p.step>>] \in Nat
    BY <1>1 DEF TypeOK, Cells
  <2> QED BY <2>1, ExtentAssumption DEF Spd
<1> DEFINE v == Spd(p.section, p.step)
<1>3. v \in Nat \ {0}
  BY <1>2
<1> HIDE DEF v
<1>4. CASE p.space > p.time * v
  <2>1. Onward(p) = [section |-> p.section, step |-> p.step + 1,
                     time |-> TICKS, space |-> p.space - p.time * v]
    BY <1>4, Zenon DEF Onward, v
  <2>2. p.space - p.time * v \in Nat
    <3>1. p.time * v \in Nat
      BY <1>1, <1>3
    <3> QED BY <1>1, <1>4, <3>1
  <2>3. Onward(p) \in Positions
    <3>1. p.step + 1 \in 0..M /\ TICKS \in 0..TICKS
      BY <1>1
    <3> QED BY <1>1, <2>1, <2>2, <3>1 DEF Positions
  <2>4. Left(p) \in Nat /\ Left(Onward(p)) \in Nat /\ Left(Onward(p)) = Left(p) - 1
    <3>1. Onward(p).step = p.step + 1 /\ Onward(p).section = p.section
      BY <2>1
    <3> QED BY <1>1, <3>1 DEF Left
  <2> QED BY <1>2, <1>4, <2>1, <2>3, <2>4 DEF v
<1>5. CASE ~(p.space > p.time * v)
  <2>1. Onward(p) = [section |-> p.section + 1, step |-> p.step,
                     time |-> p.time - p.space \div v, space |-> SegLen[p.section + 1]]
    BY <1>5, Zenon DEF Onward, v
  <2>2. p.time - p.space \div v \in 0..TICKS
    <3>1. p.time * v \in Nat
      BY <1>1, <1>3
    <3>2. p.space <= p.time * v
      BY <1>1, <1>5, <3>1
    <3>3. p.space \div v \in Nat /\ p.space \div v <= p.time
      BY <1>1, <1>3, <3>2, QuotientBelow
    <3> QED BY <1>1, <3>3
  <2>3. Onward(p) \in Positions
    <3>1. SegLen[p.section + 1] \in Nat /\ p.step \in 0..M
      BY <1>1, ExtentAssumption
    <3> QED BY <1>1, <2>1, <2>2, <3>1 DEF Positions
  <2>4. Left(p) \in Nat /\ Left(Onward(p)) \in Nat /\ Left(Onward(p)) = Left(p) - 1
    <3>1. Onward(p).step = p.step /\ Onward(p).section = p.section + 1
      BY <2>1
    <3> QED BY <1>1, <3>1 DEF Left
  <2> QED BY <1>2, <1>5, <2>1, <2>3, <2>4 DEF v
<1> QED BY <1>4, <1>5

(* What Arrive is defined by, for a function f in its place.                  *)
Following(f) ==
  [p \in Positions |-> IF p.section >= jstart \/ p.step >= M THEN p.step ELSE f[Onward(p)]]

LEMMA ArriveExists ==
  ASSUME TypeOK
  PROVE  \E f : f \in [Positions -> 0..M] /\ f = Following(f)
<1> DEFINE N == (M + J) + 1
           V == [Positions -> 0..M]
           first == [p \in Positions |-> p.step]
           step == [x \in (1..N) \X V |-> Following(x[2])]
<1>1. J \in Nat /\ M \in Nat /\ N \in Nat
  BY PlumeAssumption
<1>2. first \in V
  BY DEF Positions
<1>3. ASSUME NEW f \in V PROVE Following(f) \in V
  <2>1. ASSUME NEW p \in Positions
        PROVE  (IF p.section >= jstart \/ p.step >= M THEN p.step ELSE f[Onward(p)]) \in 0..M
    <3>1. CASE Arrived(p)
      BY <3>1 DEF Arrived, Positions
    <3>2. CASE ~Arrived(p)
      <4>1. Onward(p) \in Positions
        BY <3>2, PositionOnward
      <4>2. f[Onward(p)] \in 0..M
        BY <4>1
      <4> QED BY <3>2, <4>2 DEF Arrived
    <3> QED BY <3>1, <3>2
  <2> QED BY <2>1 DEF Following
<1>4. IsStep(step, N, V)
  <2>1. \A x \in (1..N) \X V : Following(x[2]) \in V
    BY <1>3
  <2> QED BY <2>1, Zenon DEF IsStep
<1>5. \A i \in 1..N, f \in V : step[<<i, f>>] = Following(f)
  OBVIOUS
<1> HIDE DEF step, first, V
<1>6. PICK g : IsIterated(g, step, first, N, V)
  BY <1>1, <1>2, <1>4, Recursion
<1> HIDE DEF N
<1>7. /\ g \in [0..N -> V] /\ g[0] = first
      /\ \A i \in 1..N : g[i] = Following(g[i - 1])
  <2>1. /\ g \in [0..N -> V] /\ g[0] = first
        /\ \A i \in 1..N : g[i] = step[<<i, g[i - 1]>>]
    BY <1>6 DEF IsIterated
  <2>2. \A i \in 1..N : i - 1 \in 0..N
    BY <1>1
  <2> QED BY <1>5, <2>1, <2>2
<1>8. ASSUME NEW i \in 1..N, NEW p \in Positions
      PROVE  /\ Arrived(p) => g[i][p] = p.step
             /\ ~Arrived(p) => g[i][p] = g[i - 1][Onward(p)]
  <2>1. g[i][p] = IF p.section >= jstart \/ p.step >= M THEN p.step ELSE g[i - 1][Onward(p)]
    BY <1>7, Zenon DEF Following
  <2> QED BY <2>1, Zenon DEF Arrived
<1>9. ASSUME NEW p \in Positions PROVE Left(p) \in Nat /\ (Left(p) = 0 => Arrived(p)) /\ Left(p) <= M + J
  <2>1. /\ p.section \in Nat /\ p.step \in Nat /\ p.section <= J /\ p.step <= M
    BY <1>1 DEF Positions, Sections
  <2> QED BY <1>1, <2>1 DEF Left, Arrived
<1> DEFINE T == {n \in 0..(M + J) : \A p \in Positions : Left(p) <= n => g[n + 1][p] = g[n][p]}
<1>10. 0 \in T
  <2>1. 1 \in 1..N /\ 0 \in 0..(M + J) /\ 0 + 1 = 1
    BY <1>1 DEF N
  <2>2. ASSUME NEW p \in Positions, Left(p) <= 0 PROVE g[1][p] = g[0][p]
    <3>1. Arrived(p)
      BY <1>9, <2>2
    <3>2. g[1][p] = p.step
      BY <1>8, <2>1, <3>1
    <3>3. g[0][p] = p.step
      BY <1>7 DEF first
    <3> QED BY <3>2, <3>3
  <2> QED BY <2>1, <2>2
<1>11. ASSUME NEW n \in 0..((M + J) - 1), n \in T PROVE n + 1 \in T
  <2>1. n + 1 \in 0..(M + J) /\ n + 1 \in 1..N /\ (n + 1) + 1 \in 1..N /\ (n + 1) - 1 = n
        /\ ((n + 1) + 1) - 1 = n + 1
    BY <1>1 DEF N
  <2>2. ASSUME NEW p \in Positions, Left(p) <= n + 1 PROVE g[(n + 1) + 1][p] = g[n + 1][p]
    <3>1. CASE Arrived(p)
      <4>1. g[(n + 1) + 1][p] = p.step /\ g[n + 1][p] = p.step
        BY <1>8, <2>1, <3>1
      <4> QED BY <4>1
    <3>2. CASE ~Arrived(p)
      <4>1. g[(n + 1) + 1][p] = g[n + 1][Onward(p)] /\ g[n + 1][p] = g[n][Onward(p)]
        BY <1>8, <2>1, <3>2
      <4>2. Onward(p) \in Positions /\ Left(Onward(p)) = Left(p) - 1
        BY <3>2, PositionOnward
      <4>3. Left(Onward(p)) <= n
        BY <1>9, <2>2, <4>2
      <4>4. g[n + 1][Onward(p)] = g[n][Onward(p)]
        BY <1>11, <4>2, <4>3
      <4> QED BY <4>1, <4>4
    <3> QED BY <3>1, <3>2
  <2> QED BY <2>1, <2>2
<1>12. M + J \in T
  <2> HIDE DEF T
  <2>1. 0..(M + J) \subseteq T
    BY <1>1, <1>10, <1>11, UpTo
  <2> QED BY <1>1, <2>1
<1>13. PICK f : f = g[M + J]
  OBVIOUS
<1>14. f \in V /\ \A p \in Positions : g[N][p] = f[p]
  <2>1. M + J \in 0..N /\ (M + J) + 1 = N
    BY <1>1 DEF N
  <2>2. \A p \in Positions : g[(M + J) + 1][p] = g[M + J][p]
    BY <1>9, <1>12
  <2> QED BY <1>7, <1>13, <2>1, <2>2
<1>15. g[N] = Following(f) /\ g[N] \in V
  <2>1. N \in 1..N /\ N - 1 = M + J /\ N \in 0..N
    BY <1>1 DEF N
  <2> QED BY <1>7, <1>13, <2>1
<1>16. f = g[N]
  BY <1>14, <1>15 DEF V
<1> QED BY <1>14, <1>15, <1>16 DEF V

LEMMA ArriveIs ==
  ASSUME TypeOK, NEW p \in Positions
  PROVE  /\ Arrived(p) => Arrive[p] = p.step
         /\ ~Arrived(p) => Arrive[p] = Arrive[Onward(p)]
<1>1. PICK f : f = Following(f)
  BY ArriveExists
<1>2. Arrive = Following(Arrive)
  BY <1>1, Zenon DEF Arrive, Following
<1>3. Arrive[p] = IF p.section >= jstart \/ p.step >= M THEN p.step ELSE Arrive[Onward(p)]
  BY <1>2, Zenon DEF Following
<1> QED BY <1>3, Zenon DEF Arrived

(* The vehicle arrives in the step it is in or a later one.                   *)
LEMMA ArriveNotBefore ==
  ASSUME TypeOK, NEW p \in Positions
  PROVE  p.step \in 0..M /\ Arrive[p] \in p.step..M
<1> DEFINE Bad == {q \in Positions : Arrive[q] \notin q.step..M}
           T == {Left(q) : q \in Bad}
<1>1. ASSUME NEW q \in Positions PROVE q.step \in 0..M /\ q.section \in 0..J /\ Left(q) \in Nat
  <2>1. q.step \in 0..M /\ q.section \in 0..J
    BY DEF Positions, Sections
  <2> QED BY <2>1, PlumeAssumption DEF Left
<1>2. SUFFICES ASSUME T # {} PROVE FALSE
  BY <1>1
<1>3. PICK l \in T : \A k \in T : l <= k
  <2>1. T \in SUBSET Nat
    BY <1>1
  <2> QED BY <1>2, <2>1, SmallestNat
<1>4. PICK q \in Bad : Left(q) = l
  BY <1>3
<1>5. ~Arrived(q)
  <2> SUFFICES ASSUME Arrived(q) PROVE FALSE
    OBVIOUS
  <2>1. Arrive[q] = q.step
    BY <1>4, ArriveIs
  <2> QED BY <1>1, <1>4, <2>1, PlumeAssumption
<1>6. Onward(q) \in Positions /\ Left(Onward(q)) \in Nat /\ ~(Left(q) <= Left(Onward(q)))
  BY <1>1, <1>4, <1>5, PositionOnward
<1>7. Onward(q) \notin Bad
  BY <1>3, <1>4, <1>6
<1>8. Onward(q).step >= q.step
  <2>1. Onward(q).step = q.step + 1 \/ Onward(q).step = q.step
    BY <1>4, <1>5, PositionOnward
  <2> QED BY <1>1, <1>4, <2>1
<1>9. Arrive[q] \in Onward(q).step..M
  BY <1>4, <1>5, <1>6, <1>7, ArriveIs
<1>10. Arrive[q] \in q.step..M
  BY <1>1, <1>4, <1>6, <1>8, <1>9
<1> QED BY <1>4, <1>10

(* Who is ahead: in the same section in the same step with more time and less *)
(* way left, or in a section further on, in an earlier step or with more time. *)
Ahead(p, q) ==
  \/ /\ p.section = q.section /\ p.step = q.step
     /\ p.time >= q.time /\ p.space <= q.space
  \/ /\ p.section > q.section /\ p.space <= SegLen[p.section]
     /\ p.step < q.step \/ (p.step = q.step /\ p.time >= q.time)

(* One of the two moves on and the order stays.                               *)
LEMMA AheadOnward ==
  ASSUME TypeOK, NEW p \in Positions, NEW q \in Positions, Ahead(p, q),
         ~Arrived(p), ~Arrived(q)
  PROVE  Ahead(Onward(p), Onward(q)) \/ Ahead(Onward(p), q) \/ Ahead(p, Onward(q))
<1>1. /\ p.section \in Nat /\ p.step \in Nat /\ p.time \in Nat /\ p.space \in Nat
      /\ q.section \in Nat /\ q.step \in Nat /\ q.time \in Nat /\ q.space \in Nat
      /\ p.time <= TICKS /\ q.time <= TICKS /\ TICKS \in Nat
      /\ p.section < J /\ q.section < J /\ J \in Nat
  BY PlumeAssumption, ExtentAssumption DEF TypeOK, Positions, Arrived, Sections, Steps
<1>2. \A k \in Nat : k <= J => SegLen[k] \in Nat
  BY <1>1, ExtentAssumption DEF Sections
<1> DEFINE v == Spd(p.section, p.step)
           w == Spd(q.section, q.step)
<1>3. /\ v \in Nat \ {0} /\ w \in Nat \ {0}
      /\ p.space > p.time * v =>
           Onward(p) = [section |-> p.section, step |-> p.step + 1, time |-> TICKS,
                        space |-> p.space - p.time * v]
      /\ ~(p.space > p.time * v) =>
           Onward(p) = [section |-> p.section + 1, step |-> p.step,
                        time |-> p.time - p.space \div v, space |-> SegLen[p.section + 1]]
      /\ q.space > q.time * w =>
           Onward(q) = [section |-> q.section, step |-> q.step + 1, time |-> TICKS,
                        space |-> q.space - q.time * w]
      /\ ~(q.space > q.time * w) =>
           Onward(q) = [section |-> q.section + 1, step |-> q.step,
                        time |-> q.time - q.space \div w, space |-> SegLen[q.section + 1]]
  BY PositionOnward
<1>4. CASE p.section = q.section /\ p.step = q.step /\ p.time >= q.time /\ p.space <= q.space
  <2>1. v = w
    BY <1>4
  <2> HIDE DEF v, w
  <2>2. p.time * v >= q.time * v
    BY <1>1, <1>3, <1>4, TimesMonotone
  <2>. p.time * v \in Nat /\ q.time * v \in Nat
    BY <1>1, <1>3
  <2>3. CASE p.space > p.time * v
    <3>1. q.space > q.time * v
      BY <1>1, <1>4, <2>2, <2>3
    <3>2. p.space - p.time * v <= q.space - q.time * v
      BY <1>1, <1>4, <2>2
    <3>3. Onward(p).section = Onward(q).section /\ Onward(p).step = Onward(q).step
      BY <1>3, <1>4, <2>1, <2>3, <3>1
    <3>4. Onward(p).time = TICKS /\ Onward(q).time = TICKS
      BY <1>3, <2>1, <2>3, <3>1
    <3>5. Onward(p).space <= Onward(q).space
      BY <1>3, <2>1, <2>3, <3>1, <3>2
    <3> QED BY <1>1, <3>3, <3>4, <3>5 DEF Ahead
  <2>4. CASE ~(p.space > p.time * v)
    <3>1. /\ Onward(p).section = p.section + 1 /\ Onward(p).step = p.step
          /\ Onward(p).time = p.time - p.space \div v /\ Onward(p).space = SegLen[p.section + 1]
      BY <1>3, <2>4
    <3>2. SegLen[p.section + 1] \in Nat
      BY <1>1, <1>2
    <3>3. CASE q.space > q.time * w
      <4>1. Onward(q).section = q.section /\ Onward(q).step = q.step + 1
        BY <1>3, <3>3
      <4>2. Onward(p).section > Onward(q).section /\ Onward(p).step < Onward(q).step
        BY <1>1, <1>4, <3>1, <4>1
      <4>3. Onward(p).space <= SegLen[Onward(p).section]
        BY <3>1, <3>2
      <4> QED BY <4>2, <4>3 DEF Ahead
    <3>4. CASE ~(q.space > q.time * w)
      <4>1. /\ Onward(q).section = q.section + 1 /\ Onward(q).step = q.step
            /\ Onward(q).time = q.time - q.space \div w /\ Onward(q).space = SegLen[q.section + 1]
        BY <1>3, <3>4
      <4>2. p.time - p.space \div v >= q.time - q.space \div v
        <5>1. /\ p.space \div v \in Nat /\ q.space \div v \in Nat
              /\ p.space \div v <= q.space \div v
          BY <1>1, <1>3, <1>4, QuotientMonotone
        <5> QED BY <1>1, <1>4, <5>1
      <4>3. Onward(p).section = Onward(q).section /\ Onward(p).step = Onward(q).step
        BY <1>4, <3>1, <4>1
      <4>4. Onward(p).time >= Onward(q).time
        BY <2>1, <3>1, <4>1, <4>2
      <4>5. Onward(p).space <= Onward(q).space
        BY <1>4, <3>1, <3>2, <4>1
      <4> QED BY <4>3, <4>4, <4>5 DEF Ahead
    <3> QED BY <3>3, <3>4
  <2> QED BY <2>3, <2>4
<1>5. CASE p.section > q.section /\ p.space <= SegLen[p.section] /\ p.step < q.step
  <2> HIDE DEF v, w
  <2>1. CASE p.space > p.time * v
    <3>1. /\ Onward(p).section = p.section /\ Onward(p).step = p.step + 1
          /\ Onward(p).time = TICKS /\ Onward(p).space = p.space - p.time * v
      BY <1>3, <2>1
    <3>2. p.space - p.time * v <= SegLen[p.section]
      <4>1. SegLen[p.section] \in Nat
        BY <1>1, <1>2
      <4>2. p.time * v \in Nat
        BY <1>1, <1>3
      <4> QED BY <1>1, <1>5, <4>1, <4>2
    <3>3. Onward(p).step < q.step \/ (Onward(p).step = q.step /\ Onward(p).time >= q.time)
      BY <1>1, <1>5, <3>1
    <3>4. Onward(p).section > q.section /\ Onward(p).space <= SegLen[Onward(p).section]
      BY <1>5, <3>1, <3>2
    <3> QED BY <3>3, <3>4 DEF Ahead
  <2>2. CASE ~(p.space > p.time * v)
    <3>1. /\ Onward(p).section = p.section + 1 /\ Onward(p).step = p.step
          /\ Onward(p).space = SegLen[p.section + 1] /\ SegLen[p.section + 1] \in Nat
      BY <1>1, <1>2, <1>3, <2>2
    <3>2. Onward(p).section > q.section /\ Onward(p).step < q.step
      BY <1>1, <1>5, <3>1
    <3>3. Onward(p).space <= SegLen[Onward(p).section]
      BY <3>1
    <3> QED BY <3>2, <3>3 DEF Ahead
  <2> QED BY <2>1, <2>2
<1>6. CASE /\ p.section > q.section /\ p.space <= SegLen[p.section]
           /\ p.step = q.step /\ p.time >= q.time
  <2> HIDE DEF v, w
  <2>1. CASE q.space > q.time * w
    <3>1. Onward(q).section = q.section /\ Onward(q).step = q.step + 1
      BY <1>3, <2>1
    <3>2. p.section > Onward(q).section /\ p.step < Onward(q).step
      BY <1>1, <1>6, <3>1
    <3> QED BY <1>6, <3>2 DEF Ahead
  <2>2. CASE ~(q.space > q.time * w)
    <3>1. /\ Onward(q).section = q.section + 1 /\ Onward(q).step = q.step
          /\ Onward(q).time = q.time - q.space \div w /\ Onward(q).space = SegLen[q.section + 1]
      BY <1>3, <2>2
    <3>2. p.time >= Onward(q).time
      <4>1. q.space \div w \in Nat
        BY <1>1, <1>3, Quotient
      <4> QED BY <1>1, <1>6, <3>1, <4>1
    <3>3. CASE p.section = q.section + 1
      <4>1. p.section = Onward(q).section /\ p.space <= Onward(q).space /\ p.step = Onward(q).step
        BY <1>6, <3>1, <3>3
      <4> QED BY <3>2, <4>1 DEF Ahead
    <3>4. CASE p.section # q.section + 1
      <4>1. p.section > Onward(q).section /\ p.step = Onward(q).step
        BY <1>1, <1>6, <3>1, <3>4
      <4> QED BY <1>6, <3>2, <4>1 DEF Ahead
    <3> QED BY <3>3, <3>4
  <2> QED BY <2>1, <2>2
<1> QED BY <1>4, <1>5, <1>6 DEF Ahead

(* Who is ahead arrives no later: of all pairs that would show the contrary one *)
(* has the least way to go in all, and moving on leaves less.                    *)
LEMMA AheadArrivesFirst ==
  ASSUME TypeOK, NEW p \in Positions, NEW q \in Positions, Ahead(p, q)
  PROVE  Arrive[p] <= Arrive[q]
<1> DEFINE Bad == {x \in Positions \X Positions :
                     Ahead(x[1], x[2]) /\ ~(Arrive[x[1]] <= Arrive[x[2]])}
           T == {Left(x[1]) + Left(x[2]) : x \in Bad}
<1>1. ASSUME NEW x \in Positions
      PROVE  /\ x.step \in Nat /\ x.step <= M /\ x.section \in Nat /\ Left(x) \in Nat
             /\ Arrive[x] \in Nat /\ x.step <= Arrive[x] /\ Arrive[x] <= M
  <2>1. x.step \in 0..M /\ x.section \in 0..J
    BY DEF Positions, Sections
  <2>2. Arrive[x] \in x.step..M
    BY ArriveNotBefore
  <2> QED BY <2>1, <2>2, PlumeAssumption DEF Left
<1>2. SUFFICES ASSUME T # {} PROVE FALSE
  <2>1. <<p, q>> \in Positions \X Positions /\ <<p, q>>[1] = p /\ <<p, q>>[2] = q
    OBVIOUS
  <2>2. <<p, q>> \notin Bad
    OBVIOUS
  <2> QED BY <2>1, <2>2
<1>3. PICK l \in T : \A k \in T : l <= k
  <2>1. T \in SUBSET Nat
    BY <1>1
  <2> HIDE DEF T
  <2> QED BY <1>2, <2>1, SmallestNat
<1>4. PICK x \in Bad : l = Left(x[1]) + Left(x[2])
  BY <1>3
<1>5. PICK a \in Positions, b \in Positions : x = <<a, b>>
  BY <1>4
<1>6. Ahead(a, b) /\ ~(Arrive[a] <= Arrive[b]) /\ l = Left(a) + Left(b)
  BY <1>4, <1>5
<1>7. \A y \in Positions, z \in Positions :
        Left(y) + Left(z) < l /\ Ahead(y, z) => Arrive[y] <= Arrive[z]
  <2> SUFFICES ASSUME NEW y \in Positions, NEW z \in Positions,
                      Left(y) + Left(z) < l, Ahead(y, z), ~(Arrive[y] <= Arrive[z])
               PROVE  FALSE
    OBVIOUS
  <2>1. <<y, z>> \in Bad
    OBVIOUS
  <2>2. Left(y) + Left(z) \in T
    BY <2>1
  <2>3. Left(y) + Left(z) \in Nat /\ l \in Nat
    BY <1>1, <1>6
  <2> QED BY <1>3, <2>2, <2>3
<1> HIDE DEF Bad, T
<1>8. jstart \in Nat
  BY PlumeAssumption DEF TypeOK, Sections
<1>9. a.section >= b.section /\ a.step <= b.step
  BY <1>1, <1>6 DEF Ahead
<1>10. CASE Arrived(a)
  <2>1. Arrive[a] = a.step
    BY <1>10, ArriveIs
  <2> QED BY <1>1, <1>6, <1>9, <2>1
<1>11. CASE Arrived(b) /\ ~Arrived(a)
  <2>1. b.step >= M
    BY <1>1, <1>8, <1>9, <1>11 DEF Arrived
  <2>2. Arrive[b] >= b.step
    BY <1>1
  <2> QED BY <1>1, <1>6, <2>1, <2>2, PlumeAssumption
<1>12. CASE ~Arrived(a) /\ ~Arrived(b)
  <2>1. /\ Arrive[a] = Arrive[Onward(a)] /\ Arrive[b] = Arrive[Onward(b)]
        /\ Onward(a) \in Positions /\ Left(Onward(a)) = Left(a) - 1
        /\ Onward(b) \in Positions /\ Left(Onward(b)) = Left(b) - 1
    BY <1>12, ArriveIs, PositionOnward
  <2>2. CASE Ahead(Onward(a), Onward(b))
    <3>1. Left(Onward(a)) + Left(Onward(b)) < l
      BY <1>1, <1>6, <2>1
    <3> QED BY <1>6, <1>7, <2>1, <2>2, <3>1
  <2>3. CASE Ahead(Onward(a), b)
    <3>1. Left(Onward(a)) + Left(b) < l
      BY <1>1, <1>6, <2>1
    <3> QED BY <1>6, <1>7, <2>1, <2>3, <3>1
  <2>4. CASE Ahead(a, Onward(b))
    <3>1. Left(a) + Left(Onward(b)) < l
      BY <1>1, <1>6, <2>1
    <3> QED BY <1>6, <1>7, <2>1, <2>4, <3>1
  <2> QED BY <1>6, <1>12, <2>2, <2>3, <2>4, AheadOnward
<1> QED BY <1>10, <1>11, <1>12

(* The latest of the cells furthest upstream is unique, so FindExtent puts the  *)
(* vehicle where TrueArrival sends it off.                                       *)
LEMMA SentOffFrom ==
  ASSUME TypeOK, NEW c \in Scanned,
         \A e \in Scanned : e[2] < c[2] \/ (e[2] = c[2] /\ e[1] >= c[1])
  PROVE  TrueArrival = Arrive[[section |-> c[1], step |-> c[2] + 1,
                               time |-> TICKS, space |-> SegLen[c[1]]]]
<1>1. Scanned # {} /\ \A e \in Scanned : e \in Cells
  BY DEF Scanned, TypeOK
<1>2. \A e \in Scanned : e[1] \in Nat /\ e[2] \in Nat /\ e = <<e[1], e[2]>>
  BY <1>1, PlumeAssumption DEF Cells, Sections, Steps
<1>3. PICK last : last = CHOOSE x \in Scanned :
                           \A e \in Scanned : e[2] < x[2] \/ (e[2] = x[2] /\ e[1] >= x[1])
  OBVIOUS
<1>4. last \in Scanned /\ \A e \in Scanned : e[2] < last[2] \/ (e[2] = last[2] /\ e[1] >= last[1])
  BY <1>3, Zenon
<1>5. last = c
  <2>1. last[2] < c[2] \/ (last[2] = c[2] /\ last[1] >= c[1])
    BY <1>4
  <2>2. c[2] < last[2] \/ (c[2] = last[2] /\ c[1] >= last[1])
    BY <1>4
  <2>3. last[1] = c[1] /\ last[2] = c[2]
    BY <1>2, <1>4, <2>1, <2>2
  <2> QED BY <1>2, <1>4, <2>3
<1> QED BY <1>1, <1>3, <1>5, Zenon DEF TrueArrival

(* Where the vehicle of compute_incident_clear is.                               *)
Here == [section |-> j, step |-> m, time |-> timeres, space |-> spaceres]

(* The vehicle of the loop never gets ahead of the one every step of which has   *)
(* its whole length: from where it is, that one would arrive as late as the true *)
(* one or later.                                                                 *)
ArrivalInv ==
  /\ phase = "drive" => TrueArrival \in Nat /\ TrueArrival <= Arrive[Here]
  /\ NeverClearTooEarly

LEMMA HereType ==
  ASSUME TypeOK
  PROVE  Here \in Positions
BY DEF TypeOK, Here, Positions

(* What the vehicle drives through does not change any more.                     *)
LEMMA SameWay ==
  ASSUME UNCHANGED <<found, jstart>>
  PROVE  Arrive' = Arrive /\ TrueArrival' = TrueArrival
<1>1. region' = region /\ speed' = speed /\ jstart' = jstart
  BY DEF found
<1>2. Arrive' = Arrive
  BY <1>1, SMT DEF Arrive, Onward, Spd
<1>3. Scanned' = Scanned
  BY <1>1 DEF Scanned
<1> QED BY <1>2, <1>3, SMT DEF TrueArrival

(* When the direction is S or W, so that the lengths the loop reads are those of *)
(* the sections the vehicle is in, the incident is never written as clear before *)
(* a vehicle from the far end of the queue can have reached its start, whatever  *)
(* the speeds and lengths: not giving a new step its whole length only makes the *)
(* computed vehicle late, and a later vehicle never overtakes.  A vehicle that   *)
(* does not arrive inside the window is written for the last step, as the code   *)
(* admits.                                                                       *)
THEOREM ClearIsNeverEarly ==
  ASSUME ~North
  PROVE  Spec => []NeverClearTooEarly
<1>1. Init => ArrivalInv
  BY DEF Init, ArrivalInv, NeverClearTooEarly
<1>2. TypeOK /\ TypeOK' /\ ArrivalInv /\ [Next]_vars => ArrivalInv'
  <2> SUFFICES ASSUME TypeOK, TypeOK', ArrivalInv, [Next]_vars PROVE ArrivalInv'
    OBVIOUS
  <2>0. \A k : StationLen(k) = SegLen[k]
    BY DEF StationLen
  <2>1. CASE Solve
    BY <2>1 DEF Solve, ArrivalInv, NeverClearTooEarly
  <2>2. CASE ComputeStart
    BY <2>2 DEF ComputeStart, ArrivalInv, NeverClearTooEarly
  <2>3. CASE FindExtent
    <3>1. Arrive' = Arrive /\ TrueArrival' = TrueArrival /\ phase' = "drive"
      BY <2>3, SameWay DEF FindExtent
    <3>2. TrueArrival = Arrive[Here']
      <4>1. CASE Scanned = {} /\ j' = 0 /\ m' = 1
        <5>1. Here' = [section |-> 0, step |-> 1, time |-> TICKS, space |-> SegLen[0]]
          BY <2>0, <2>3, <4>1 DEF FindExtent, Here
        <5>2. TrueArrival = Arrive[[section |-> <<0, 0>>[1], step |-> <<0, 0>>[2] + 1,
                                    time |-> TICKS, space |-> SegLen[<<0, 0>>[1]]]]
          BY <4>1, Zenon DEF TrueArrival
        <5>3. <<0, 0>>[1] = 0 /\ <<0, 0>>[2] + 1 = 1
          OBVIOUS
        <5> QED BY <5>1, <5>2, <5>3, Zenon
      <4>2. ASSUME NEW c \in Scanned,
                   \A e \in Scanned : e[2] < c[2] \/ (e[2] = c[2] /\ e[1] >= c[1]),
                   j' = c[1], m' = c[2] + 1
            PROVE  TrueArrival = Arrive[Here']
        <5>1. Here' = [section |-> c[1], step |-> c[2] + 1, time |-> TICKS, space |-> SegLen[c[1]]]
          BY <2>0, <2>3, <4>2 DEF FindExtent, Here
        <5> QED BY <4>2, <5>1, SentOffFrom
      <4> QED BY <2>3, <4>1, <4>2 DEF FindExtent
    <3>3. Here' \in Positions
      BY DEF TypeOK, Here, Positions
    <3>4. Arrive[Here'] \in Nat
      <4>1. Here'.step \in 0..M /\ Arrive[Here'] \in Here'.step..M
        BY <3>3, ArriveNotBefore
      <4> QED BY <4>1, PlumeAssumption
    <3>5. TrueArrival' \in Nat /\ TrueArrival' <= Arrive'[Here']
      BY <3>1, <3>2, <3>4
    <3>6. NeverClearTooEarly'
      BY <3>1 DEF NeverClearTooEarly
    <3> QED BY <3>5, <3>6 DEF ArrivalInv
  <2>4. CASE EndStep
    <3>1. Arrive' = Arrive /\ TrueArrival' = TrueArrival /\ phase' = "drive"
      BY <2>4, SameWay DEF EndStep, Driving, found
    <3>2. /\ Here \in Positions /\ Here' \in Positions
          /\ Here.section = j /\ Here.step = m /\ Here.time = timeres /\ Here.space = spaceres
      BY DEF TypeOK, Here, Positions
    <3>3. ~Arrived(Here) /\ Here.space > Here.time * Spd(Here.section, Here.step)
      BY <2>4, <3>2, PlumeAssumption DEF EndStep, Driving, Arrived, TypeOK, Sections
    <3>4. /\ Onward(Here) \in Positions /\ Arrive[Here] = Arrive[Onward(Here)]
          /\ Onward(Here) = [section |-> j, step |-> m + 1, time |-> TICKS,
                             space |-> spaceres - timeres * Spd(j, m)]
      BY <3>2, <3>3, PositionOnward, ArriveIs
    <3>5. Here' = [section |-> j, step |-> m + 1, time |-> timeres,
                   space |-> spaceres - Spd(j, m) * timeres]
      BY <2>4 DEF EndStep, Here, found
    <3>6. Ahead(Onward(Here), Here')
      <4>1. Spd(j, m) * timeres = timeres * Spd(j, m)
        <5>1. Spd(j, m) \in Nat \ {0} /\ timeres \in Nat
          BY <2>4, SpeedIsPositive, ExtentAssumption DEF EndStep, TypeOK
        <5> QED BY <5>1
      <4>2. /\ Onward(Here).section = Here'.section /\ Onward(Here).step = Here'.step
            /\ Onward(Here).time = TICKS /\ Here'.time = timeres
            /\ Onward(Here).space = Here'.space
        BY <3>4, <3>5, <4>1
      <4>3. TICKS >= timeres /\ Here'.space \in Nat
        BY <3>2, ExtentAssumption DEF TypeOK, Positions
      <4>4. Onward(Here).time >= Here'.time /\ Onward(Here).space <= Here'.space
        BY <4>2, <4>3
      <4> QED BY <4>2, <4>4 DEF Ahead
    <3>7. Arrive[Here] <= Arrive[Here']
      BY <3>2, <3>4, <3>6, AheadArrivesFirst
    <3>8. TrueArrival \in Nat /\ TrueArrival <= Arrive[Here]
      BY <2>4 DEF EndStep, Driving, ArrivalInv
    <3>9. TrueArrival <= Arrive[Here']
      <4>1. Here.step \in 0..M /\ Here'.step \in 0..M
            /\ Arrive[Here] \in Here.step..M /\ Arrive[Here'] \in Here'.step..M
        BY <3>2, ArriveNotBefore
      <4>2. Arrive[Here] \in Nat /\ Arrive[Here'] \in Nat
        BY <4>1, PlumeAssumption
      <4> QED BY <3>7, <3>8, <4>2
    <3>10. TrueArrival' \in Nat /\ TrueArrival' <= Arrive'[Here']
      BY <3>1, <3>8, <3>9
    <3>11. NeverClearTooEarly'
      BY <3>1 DEF NeverClearTooEarly
    <3> QED BY <3>10, <3>11 DEF ArrivalInv
  <2>5. CASE EndSection
    <3>1. Arrive' = Arrive /\ TrueArrival' = TrueArrival /\ phase' = "drive"
      BY <2>5, SameWay DEF EndSection, Driving, found
    <3>2. /\ Here \in Positions
          /\ Here.section = j /\ Here.step = m /\ Here.time = timeres /\ Here.space = spaceres
      BY DEF TypeOK, Here, Positions
    <3>3. ~Arrived(Here)
      BY <2>5, <3>2, PlumeAssumption DEF EndSection, Driving, Arrived, TypeOK, Sections
    <3>4. ~(Here.space > Here.time * Spd(Here.section, Here.step))
      <4>1. Spd(j, m) \in Nat \ {0} /\ timeres \in Nat /\ spaceres \in Nat
        BY <2>5, SpeedIsPositive, ExtentAssumption DEF EndSection, TypeOK
      <4>2. timeres * Spd(j, m) \in Nat /\ spaceres <= timeres * Spd(j, m)
        BY <2>5, <4>1 DEF EndSection
      <4> QED BY <3>2, <4>1, <4>2
    <3>5. /\ Arrive[Here] = Arrive[Onward(Here)]
          /\ Onward(Here) = [section |-> j + 1, step |-> m,
                             time |-> timeres - spaceres \div Spd(j, m), space |-> SegLen[j + 1]]
      BY <3>2, <3>3, <3>4, PositionOnward, ArriveIs
    <3>6. Here' = Onward(Here)
      BY <2>0, <2>5, <3>5 DEF EndSection, Here, found
    <3>7. TrueArrival' \in Nat /\ TrueArrival' <= Arrive'[Here']
      BY <2>5, <3>1, <3>5, <3>6 DEF EndSection, Driving, ArrivalInv
    <3>8. NeverClearTooEarly'
      BY <3>1 DEF NeverClearTooEarly
    <3> QED BY <3>7, <3>8 DEF ArrivalInv
  <2>6. CASE Finish
    <3>1. TrueArrival' = TrueArrival /\ phase' = "done" /\ phase = "drive"
      BY <2>6, SameWay DEF Finish
    <3>2. Here \in Positions /\ Here.section = j /\ Here.step = m /\ m \in 0..M
      BY DEF TypeOK, Here, Positions
    <3>3. Arrived(Here)
      <4>1. CASE m < M
        <5>1. j >= jstart
          BY <2>6, <4>1, PlumeAssumption DEF Finish, Driving, TypeOK, Sections
        <5> QED BY <3>2, <5>1 DEF Arrived
      <4>2. CASE m = M
        BY <3>2, <4>2, PlumeAssumption DEF Arrived
      <4> QED BY <3>2, <4>1, <4>2, PlumeAssumption
    <3>4. Arrive[Here] = m
      BY <3>2, <3>3, ArriveIs
    <3>5. TrueArrival \in Nat /\ TrueArrival <= m
      BY <3>1, <3>4 DEF ArrivalInv
    <3>6. bounded' = (m = M) /\ clear' = IF m = M THEN M - 1 ELSE m
      BY <2>6 DEF Finish
    <3>7. CASE m # M
      <4>1. clear' >= TrueArrival
        BY <3>2, <3>5, <3>6, <3>7, PlumeAssumption
      <4> QED BY <3>1, <4>1 DEF ArrivalInv, NeverClearTooEarly
    <3>8. CASE m = M
      <4>1. bounded' /\ clear' = M - 1
        BY <3>6, <3>8
      <4>2. clear' >= TrueArrival \/ TrueArrival = M
        BY <3>5, <3>8, <4>1, PlumeAssumption
      <4> QED BY <3>1, <4>1, <4>2 DEF ArrivalInv, NeverClearTooEarly
    <3> QED BY <3>7, <3>8
  <2>7. CASE UNCHANGED vars
    <3>1. UNCHANGED <<found, jstart>> /\ UNCHANGED <<phase, j, m, timeres, spaceres, clear, bounded>>
      BY <2>7 DEF vars, found
    <3>2. Arrive' = Arrive /\ TrueArrival' = TrueArrival
      BY <3>1, SameWay
    <3>3. Here' = Here
      BY <3>1 DEF Here
    <3>4. phase' = phase /\ clear' = clear /\ bounded' = bounded
      BY <3>1
    <3> QED BY <3>2, <3>3, <3>4 DEF ArrivalInv, NeverClearTooEarly
  <2> QED BY <2>1, <2>2, <2>3, <2>4, <2>5, <2>6, <2>7 DEF Next
<1>3. ArrivalInv => NeverClearTooEarly
  BY DEF ArrivalInv
<1> QED BY <1>1, <1>2, <1>3, TypeCorrect, PTL DEF Spec
=============================================================================
