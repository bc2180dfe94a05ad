-------------------------- MODULE DelayBatchProofs --------------------------
(***************************************************************************)
(* What holds of the delay computation phase for every number of           *)
(* incidents, sections, loop rounds and restarts, proved with TLAPS.       *)
(***************************************************************************)
EXTENDS DelayBatch, TLAPS

\* The stages in which the program works on the incident cur.
Active == {"compute"} \cup Writing

\* What the row of cur looks like between the statements of write_to_db.
RowInStage(a) ==
  /\ pc = "facility" =>
       /\ a.fac = NoRow
       /\ a.secs = 0 /\ a.data = 0 /\ a.post = 0
  /\ pc = "sections" =>
       /\ a.fac # NoRow /\ a.fac.sol = solution
       /\ a.data <= a.secs /\ a.secs <= NumSections
       /\ a.post = 0
  /\ pc = "postcompute" =>
       /\ a.fac # NoRow /\ ~a.fac.sol.bad
       /\ a.secs = NumSections /\ a.data = NumSections /\ a.d12
       /\ a.post < NumPostSteps

\* Where the program is, and for whom.
CursorInv ==
  /\ pc \in Active => cur \in Incidents /\ cur \notin todo
  /\ pc = "done" => todo = {}

\* solves counts the rounds of the loop exactly as cnt does.
BudgetInv ==
  /\ SolveBudget
  /\ pc = "compute" => solves = cnt /\ cnt <= MaxRecomputeLoops

\* The rows of this run belong to incidents the cursor has passed; those of cur are
\* shaped by the stage, all others are complete.
RowsInv ==
  \A i \in Incidents : \A a \in store[i] :
    /\ a.run <= runs
    /\ a.run = runs =>
         /\ i \notin todo
         /\ pc \notin {"dead"} /\ ~(i = cur /\ pc \in Active) => Complete(a)
         /\ i = cur => pc \notin {"compute", "delete"}
         /\ i = cur => RowInStage(a)

StageInv ==
  pc \in {"facility", "sections", "postcompute"} => \A a \in store[cur] : a.run = runs

ListingInv ==
  /\ VerdictIsOfListing
  /\ pc \in Writing => solution = Parsed(lst[cur])

\* Without replace_existing nothing is deleted: only incidents without rows are begun.
KeepInv ==
  ~ReplaceExisting /\ pc \in Active => \A a \in store[cur] : a.run = runs

IInv ==
  /\ TypeOK
  /\ CursorInv
  /\ BudgetInv
  /\ OneAnalysis
  /\ RowsInv
  /\ StageInv
  /\ PostComputedIsSound
  /\ ListingInv
  /\ KeepInv

-----------------------------------------------------------------------------
USE BatchAssumption, AbsentAssumption

LEMMA InitInv == Init => IInv
<1> SUFFICES ASSUME Init PROVE IInv
  OBVIOUS
<1>1. TypeOK
  <2>1. OldAnalyses \subseteq Analysis
    BY DEF OldAnalyses, Analysis, Facility, Undefined, Solution, NumPostSteps
  <2>2. \A i \in Incidents : OldListings(i) \subseteq Listing \cup {NoFile}
    <3> SUFFICES ASSUME NEW i \in Incidents
                 PROVE  OldListings(i) \subseteq Listing \cup {NoFile}
      OBVIOUS
    <3>1. MaxDist(i, UpstreamFallback) \in Nat
      BY DEF MaxDist
    <3> QED
      BY <3>1 DEF OldListings, Listing
  <2>3. lst \in [Incidents -> Listing \cup {NoFile}]
    BY <2>2 DEF Init
  <2>4. store \in [Incidents -> SUBSET Analysis]
    BY <2>1 DEF Init
  <2> QED
    BY <2>3, <2>4 DEF Init, TypeOK, Stages, Undefined, Solution
<1>2. CursorInv /\ BudgetInv /\ StageInv /\ KeepInv
  BY DEF Init, CursorInv, BudgetInv, StageInv, KeepInv, SolveBudget, Active, Writing
<1>3. OneAnalysis
  BY DEF Init, OneAnalysis
<1>4. RowsInv /\ PostComputedIsSound /\ ListingInv
  BY DEF Init, RowsInv, PostComputedIsSound, ListingInv, VerdictIsOfListing, OldAnalyses,
     Writing
<1> QED
  BY <1>1, <1>2, <1>3, <1>4 DEF IInv

LEMMA CursorSteps ==
  ASSUME IInv, (\E i \in Incidents : SkipIncident(i) \/ StartIncident(i)) \/ FinishRun
  PROVE IInv'
<1>1. ASSUME NEW i \in Incidents, SkipIncident(i) PROVE IInv'
  BY <1>1 DEF IInv, SkipIncident, TypeOK, CursorInv, BudgetInv, SolveBudget, OneAnalysis,
     RowsInv, RowInStage, StageInv, PostComputedIsSound, ListingInv, VerdictIsOfListing,
     KeepInv, Active, Writing, Stages, dcVars, Complete
<1>2. ASSUME NEW i \in Incidents, StartIncident(i) PROVE IInv'
  BY <1>2 DEF IInv, StartIncident, TypeOK, CursorInv, BudgetInv, SolveBudget, OneAnalysis,
     RowsInv, RowInStage, StageInv, PostComputedIsSound, ListingInv, VerdictIsOfListing,
     KeepInv, Active, Writing, Stages, dcVars, Complete, Skipped, Undefined, Solution
<1>3. CASE FinishRun
  BY <1>3 DEF IInv, FinishRun, TypeOK, CursorInv, BudgetInv, SolveBudget, OneAnalysis,
     RowsInv, RowInStage, StageInv, PostComputedIsSound, ListingInv, VerdictIsOfListing,
     KeepInv, Active, Writing, Stages, dcVars, Complete
<1> QED
  BY <1>1, <1>2, <1>3

LEMMA ComputeStep ==
  ASSUME IInv, ComputeDelay
  PROVE  IInv'
<1> USE DEF IInv
<1>1. PICK file \in ListingsAfter(lst[cur], postwindow', MaxDist(cur, upstream')) :
        lst' = [lst EXCEPT ![cur] = file] /\ solution' = Parsed(file)
  BY DEF ComputeDelay
<1>2. cur \in Incidents /\ cur \notin todo
  BY DEF ComputeDelay, CursorInv, Active
<1>3. postwindow' \in Nat /\ upstream' \in Nat
  BY DEF ComputeDelay, Extended, TypeOK
<1>4. file \in Listing \cup {NoFile}
  <2>1. MaxDist(cur, upstream') \in Nat
    BY <1>2, <1>3 DEF MaxDist
  <2> QED
    BY <1>1, <1>2, <1>3, <2>1 DEF ListingsAfter, Listing, TypeOK
<1>5. solution' \in Solution
  BY <1>1, <1>4 DEF Parsed, Listing, Solution
<1>6. TypeOK'
  <2>1. lst' \in [Incidents -> Listing \cup {NoFile}]
    BY <1>1, <1>4 DEF TypeOK
  <2>2. cnt' \in Nat /\ solves' \in Nat /\ pc' \in Stages
    BY DEF TypeOK, ComputeDelay, Stages
  <2> QED
    BY <1>3, <1>5, <2>1, <2>2 DEF TypeOK, ComputeDelay
<1>7. CursorInv' /\ OneAnalysis' /\ KeepInv' /\ StageInv'
  BY <1>2 DEF ComputeDelay, CursorInv, OneAnalysis, KeepInv, StageInv, Active, Writing
<1>8. BudgetInv'
  BY DEF ComputeDelay, BudgetInv, SolveBudget, BudgetLeft, Writing, TypeOK
<1>9. RowsInv'
  BY <1>2 DEF ComputeDelay, RowsInv, RowInStage, TypeOK, Active, Writing, Complete
<1>10. PostComputedIsSound'
  BY DEF ComputeDelay, PostComputedIsSound
<1>11. ListingInv'
  BY <1>1, <1>2 DEF ComputeDelay, ListingInv, VerdictIsOfListing, RowsInv, TypeOK, Writing
<1> QED
  BY <1>6, <1>7, <1>8, <1>9, <1>10, <1>11

LEMMA DeleteStep ==
  ASSUME IInv, DeleteExisting
  PROVE  IInv'
<1> USE DEF IInv
<1>1. PICK a \in store[cur] :
        DeleteSectionData(a) \/ DeleteSections(a) \/ DeleteFacility(a) \/ DeleteAnalysis(a)
  BY DEF DeleteExisting
<1>2. /\ cur \in Incidents /\ cur \notin todo
      /\ a \in Analysis /\ a.run < runs
      /\ store[cur] = {a}
  BY <1>1 DEF DeleteExisting, CursorInv, RowsInv, OneAnalysis, TypeOK, Active, Writing, Analysis
<1>3. \E b \in Analysis : b.run = a.run /\ store' \in {[store EXCEPT ![cur] = {b}],
                                                  [store EXCEPT ![cur] = {}]}
  <2>1. CASE DeleteSectionData(a)
    <3>1. [a EXCEPT !.data = a.data - 1] \in Analysis
      BY <1>2, <2>1 DEF DeleteSectionData, Analysis
    <3> QED
      BY <3>1, <1>2, <2>1 DEF DeleteSectionData, PutRow, Analysis
  <2>2. CASE DeleteSections(a)
    <3>1. [a EXCEPT !.secs = 0] \in Analysis /\ [a EXCEPT !.secs = 0].run = a.run
      BY <1>2 DEF Analysis
    <3> QED
      BY <3>1, <1>2, <2>2 DEF DeleteSections, PutRow
  <2>3. CASE DeleteFacility(a)
    <3>1. [a EXCEPT !.fac = NoRow] \in Analysis /\ [a EXCEPT !.fac = NoRow].run = a.run
      BY <1>2 DEF Analysis
    <3> QED
      BY <3>1, <1>2, <2>3 DEF DeleteFacility, PutRow
  <2>4. CASE DeleteAnalysis(a)
    BY <1>2, <2>4 DEF DeleteAnalysis
  <2> QED
    BY <1>1, <2>1, <2>2, <2>3, <2>4
<1>4. TypeOK'
  BY <1>2, <1>3 DEF TypeOK, DeleteExisting, dcVars
<1>5. CursorInv' /\ BudgetInv'
  BY DEF DeleteExisting, CursorInv, BudgetInv, SolveBudget, dcVars
<1>6. OneAnalysis' /\ StageInv'
  BY <1>2, <1>3 DEF TypeOK, DeleteExisting, OneAnalysis, StageInv, dcVars
<1>7. RowsInv'
  BY <1>2, <1>3 DEF TypeOK, DeleteExisting, RowsInv, RowInStage, dcVars, Complete, Analysis
<1>8. PostComputedIsSound' /\ ListingInv' /\ KeepInv'
  BY <1>2, <1>3 DEF TypeOK, DeleteExisting, PostComputedIsSound, ListingInv,
     VerdictIsOfListing, KeepInv, dcVars, Analysis, Active
<1> QED
  BY <1>4, <1>5, <1>6, <1>7, <1>8

LEMMA CreateAnalysisStep ==
  ASSUME IInv, CreateAnalysis
  PROVE  IInv'
<1> USE DEF IInv
<1>1. cur \in Incidents /\ cur \notin todo /\ store[cur] = {}
  BY DEF CreateAnalysis, CursorInv, Active, Writing
<1>2. NewAnalysis \in Analysis /\ NewAnalysis.run = runs
  BY DEF NewAnalysis, Analysis, TypeOK
<1>3. store' \in [Incidents -> SUBSET Analysis] /\ store'[cur] = {NewAnalysis}
  BY <1>1, <1>2 DEF CreateAnalysis, TypeOK
<1>4. \A i \in Incidents \ {cur} : store'[i] = store[i]
  BY <1>1 DEF CreateAnalysis, TypeOK
<1>5. TypeOK' /\ CursorInv' /\ BudgetInv'
  BY <1>1, <1>3 DEF CreateAnalysis, TypeOK, CursorInv, BudgetInv, SolveBudget, dcVars,
     Stages, Active, Writing
<1>6. OneAnalysis' /\ StageInv' /\ KeepInv'
  BY <1>2, <1>3, <1>4 DEF CreateAnalysis, OneAnalysis, StageInv, KeepInv, dcVars
<1>7. RowsInv'
  BY <1>1, <1>2, <1>3, <1>4 DEF CreateAnalysis, RowsInv, RowInStage, TypeOK, Complete,
     dcVars, Active, Writing, NewAnalysis
<1>8. PostComputedIsSound' /\ ListingInv'
  BY <1>1, <1>2, <1>3, <1>4 DEF CreateAnalysis, PostComputedIsSound, ListingInv,
     VerdictIsOfListing, dcVars, NewAnalysis, Writing
<1> QED
  BY <1>5, <1>6, <1>7, <1>8

\* The steps that replace the row of cur by a fuller one.
RowChanges(a, b) ==
  /\ a \in store[cur]
  /\ b \in Analysis
  /\ b.run = runs
  /\ PutRow(a, b)

LEMMA RowStep ==
  ASSUME IInv, pc \in {"facility", "sections", "postcompute"},
         UNCHANGED <<todo, cur, dcVars, lst, runs>>,
         pc' \in {"next", "facility", "sections", "postcompute"},
         NEW a, NEW b, RowChanges(a, b),
         RowInStage(b)',
         pc' = "next" => Complete(b),
         b.post > 0 => /\ b.fac # NoRow
                       /\ ~b.fac.sol.bad
                       /\ b.d12
                       /\ b.secs = NumSections
                       /\ b.data = NumSections,
         b.fac # NoRow => b.fac.sol = Parsed(lst[cur])
  PROVE  IInv'
<1> USE DEF IInv
<1>1. cur \in Incidents /\ cur \notin todo
  BY DEF CursorInv, Active, Writing
<1>2. store' \in [Incidents -> SUBSET Analysis] /\ store'[cur] = {b}
  BY <1>1 DEF RowChanges, PutRow, TypeOK, OneAnalysis
<1>3. \A i \in Incidents \ {cur} : store'[i] = store[i]
  BY <1>1 DEF RowChanges, PutRow, TypeOK
<1>4. TypeOK' /\ CursorInv' /\ BudgetInv'
  BY <1>1, <1>2 DEF TypeOK, CursorInv, BudgetInv, SolveBudget, dcVars, Stages, Active, Writing
<1>5. OneAnalysis' /\ StageInv' /\ KeepInv'
  BY <1>2, <1>3 DEF OneAnalysis, StageInv, KeepInv, dcVars, RowChanges
<1>6. RowsInv'
  BY <1>1, <1>2, <1>3 DEF RowsInv, RowInStage, TypeOK, Complete, dcVars, Active, Writing,
     RowChanges
<1>7. PostComputedIsSound' /\ ListingInv'
  BY <1>1, <1>2, <1>3 DEF PostComputedIsSound, ListingInv, VerdictIsOfListing, dcVars,
     Writing, RowChanges
<1> QED
  BY <1>4, <1>5, <1>6, <1>7

LEMMA WritingSteps ==
  ASSUME IInv, CreateFacility \/ CreateSection \/ CreateSectionData \/ WriteD12Delay
  PROVE  IInv'
<1> USE DEF IInv
<1>1. pc \in {"facility", "sections"}
  BY DEF CreateFacility, CreateSection, CreateSectionData, WriteD12Delay
<1>2. cur \in Incidents
  BY <1>1 DEF CursorInv, Active, Writing
<1>3. \A a \in store[cur] :
        /\ a \in Analysis /\ a.run = runs
        /\ RowInStage(a)
        /\ a.fac # NoRow => a.fac.sol = Parsed(lst[cur])
  BY <1>1, <1>2 DEF TypeOK, RowsInv, StageInv, ListingInv, VerdictIsOfListing
<1>4. solution = Parsed(lst[cur])
  BY <1>1 DEF ListingInv, Writing
<1>5. CASE CreateFacility
  <2>1. PICK f : f \in Facility /\ f # NoRow /\ f.sol = solution
                 /\ f = [post |-> postwindow, up |-> upstream, sol |-> solution]
    <3> DEFINE g == [post |-> postwindow, up |-> upstream, sol |-> solution]
    <3>1. g \in Facility /\ g # NoRow /\ g.sol = solution
      BY DEF Facility, TypeOK
    <3> QED
      BY <3>1
  <2>2. PICK a \in store[cur] : PutRow(a, [a EXCEPT !.fac = f])
    BY <1>5, <2>1 DEF CreateFacility
  <2> DEFINE b == [a EXCEPT !.fac = f]
  <2>3. a \in Analysis /\ a.run = runs /\ RowInStage(a)
    BY <1>3
  <2>4. /\ b \in Analysis /\ b.run = runs /\ b.fac = f
        /\ b.secs = a.secs /\ b.data = a.data /\ b.post = a.post
    BY <2>1, <2>3 DEF Analysis
  <2>5. b.post = 0
    BY <1>5, <2>3, <2>4 DEF CreateFacility, RowInStage
  <2>6. RowInStage(b)'
    BY <1>5, <2>1, <2>3, <2>4 DEF CreateFacility, RowInStage, dcVars
  <2>7. RowChanges(a, b)
    BY <2>2, <2>4 DEF RowChanges
  <2> HIDE DEF b
  <2> QED
    BY <1>4, <1>5, <2>1, <2>4, <2>5, <2>6, <2>7, RowStep DEF CreateFacility
<1>6. CASE CreateSection
  <2>1. PICK a \in store[cur] :
          a.secs < NumSections /\ a.data = a.secs /\ PutRow(a, [a EXCEPT !.secs = a.secs + 1])
    BY <1>6 DEF CreateSection
  <2> DEFINE b == [a EXCEPT !.secs = a.secs + 1]
  <2>2. a \in Analysis /\ a.run = runs /\ RowInStage(a)
    BY <1>3
  <2>3. /\ b \in Analysis /\ b.run = runs /\ b.fac = a.fac
        /\ b.secs = a.secs + 1 /\ b.data = a.data /\ b.post = a.post
        /\ a.secs \in Nat /\ a.data \in Nat
    BY <2>2 DEF Analysis
  <2>4. RowInStage(b)'
    BY <1>6, <2>1, <2>2, <2>3 DEF CreateSection, RowInStage, dcVars
  <2>5. RowChanges(a, b)
    BY <2>1, <2>3 DEF RowChanges
  <2> HIDE DEF b
  <2> QED
    BY <1>3, <1>6, <2>2, <2>3, <2>4, <2>5, RowStep DEF CreateSection, RowInStage
<1>7. CASE CreateSectionData
  <2>1. PICK a \in store[cur] :
          a.data < a.secs /\ PutRow(a, [a EXCEPT !.data = a.data + 1])
    BY <1>7 DEF CreateSectionData
  <2> DEFINE b == [a EXCEPT !.data = a.data + 1]
  <2>2. a \in Analysis /\ a.run = runs /\ RowInStage(a)
    BY <1>3
  <2>3. /\ b \in Analysis /\ b.run = runs /\ b.fac = a.fac
        /\ b.secs = a.secs /\ b.data = a.data + 1 /\ b.post = a.post
        /\ a.secs \in Nat /\ a.data \in Nat
    BY <2>2 DEF Analysis
  <2>4. RowInStage(b)'
    BY <1>7, <2>1, <2>2, <2>3 DEF CreateSectionData, RowInStage, dcVars
  <2>5. RowChanges(a, b)
    BY <2>1, <2>3 DEF RowChanges
  <2> HIDE DEF b
  <2> QED
    BY <1>3, <1>7, <2>2, <2>3, <2>4, <2>5, RowStep DEF CreateSectionData, RowInStage
<1>8. CASE WriteD12Delay
  <2>1. PICK a \in store[cur] :
          a.data = NumSections /\ PutRow(a, [a EXCEPT !.d12 = TRUE])
    BY <1>8 DEF WriteD12Delay
  <2> DEFINE b == [a EXCEPT !.d12 = TRUE]
  <2>2. a \in Analysis /\ a.run = runs /\ RowInStage(a)
    BY <1>3
  <2>3. /\ b \in Analysis /\ b.run = runs /\ b.fac = a.fac /\ b.d12
        /\ b.secs = a.secs /\ b.data = a.data /\ b.post = a.post
        /\ a.secs \in Nat /\ a.data \in Nat
    BY <2>2 DEF Analysis
  <2>4. /\ b.fac # NoRow /\ b.fac.sol = solution
        /\ b.secs = NumSections /\ b.data = NumSections /\ b.post = 0
    BY <1>8, <2>1, <2>2, <2>3 DEF WriteD12Delay, RowInStage
  <2>5. RowInStage(b)'
    BY <1>8, <2>3, <2>4 DEF WriteD12Delay, AfterWriting, RowInStage, dcVars, NumPostSteps
  <2>6. pc' = "next" => Complete(b)
    BY <1>8, <2>3, <2>4 DEF WriteD12Delay, AfterWriting, Complete
  <2>7. RowChanges(a, b)
    BY <2>1, <2>3 DEF RowChanges
  <2> HIDE DEF b
  <2> QED
    BY <1>3, <1>8, <2>2, <2>3, <2>4, <2>5, <2>6, <2>7, RowStep DEF WriteD12Delay, AfterWriting
<1> QED
  BY <1>5, <1>6, <1>7, <1>8

LEMMA PostComputeStep ==
  ASSUME IInv, PostCompute
  PROVE  IInv'
<1> USE DEF IInv
<1>1. cur \in Incidents
  BY DEF PostCompute, CursorInv, Active, Writing
<1>2. PICK a \in store[cur] :
        /\ PutRow(a, [a EXCEPT !.post = a.post + 1])
        /\ pc' = IF LastPostStep(a.post + 1) THEN "next" ELSE "postcompute"
  BY DEF PostCompute
<1> DEFINE b == [a EXCEPT !.post = a.post + 1]
<1>3. /\ a \in Analysis /\ a.run = runs
      /\ RowInStage(a)
      /\ a.fac # NoRow => a.fac.sol = Parsed(lst[cur])
  BY <1>1 DEF PostCompute, TypeOK, RowsInv, StageInv, ListingInv, VerdictIsOfListing
<1>4. /\ b \in Analysis /\ b.run = runs /\ b.fac = a.fac /\ b.d12 = a.d12
      /\ b.secs = a.secs /\ b.data = a.data /\ b.post = a.post + 1
      /\ a.post \in Nat
  BY <1>3 DEF Analysis
<1>5. /\ b.fac # NoRow /\ ~b.fac.sol.bad /\ b.d12
      /\ b.secs = NumSections /\ b.data = NumSections /\ a.post < NumPostSteps
  BY <1>3, <1>4 DEF PostCompute, RowInStage
<1>6. RowInStage(b)'
  BY <1>2, <1>4, <1>5 DEF PostCompute, RowInStage, LastPostStep, NumPostSteps, dcVars
<1>7. pc' = "next" => Complete(b)
  BY <1>2, <1>4, <1>5 DEF LastPostStep, Complete
<1>8. RowChanges(a, b)
  BY <1>2, <1>4 DEF RowChanges
<1> HIDE DEF b
<1> QED
  BY <1>2, <1>3, <1>4, <1>5, <1>6, <1>7, <1>8, RowStep DEF PostCompute

LEMMA RunSteps ==
  ASSUME IInv, Die \/ Restart \/ UNCHANGED vars
  PROVE  IInv'
<1> USE DEF IInv
<1>1. CASE Die
  <2>1. TypeOK'
    BY <1>1 DEF Die, TypeOK, Stages, dcVars
  <2>2. CursorInv' /\ BudgetInv' /\ OneAnalysis' /\ StageInv' /\ KeepInv'
    BY <1>1 DEF Die, CursorInv, BudgetInv, SolveBudget, OneAnalysis, StageInv, KeepInv,
       Active, Writing, dcVars
  <2>3. RowsInv'
    BY <1>1 DEF Die, RowsInv, RowInStage, dcVars
  <2>4. PostComputedIsSound' /\ ListingInv'
    BY <1>1 DEF Die, PostComputedIsSound, ListingInv, VerdictIsOfListing, Writing, dcVars
  <2> QED
    BY <2>1, <2>2, <2>3, <2>4
<1>2. CASE Restart
  <2>1. \A i \in Incidents : \A a \in store'[i] : a.run < runs'
    BY <1>2 DEF Restart, RowsInv, TypeOK, Analysis
  <2>2. TypeOK'
    BY <1>2 DEF Restart, TypeOK, Stages, Undefined, Solution
  <2>3. CursorInv' /\ BudgetInv' /\ OneAnalysis' /\ StageInv' /\ KeepInv'
    BY <1>2 DEF Restart, CursorInv, BudgetInv, SolveBudget, OneAnalysis, StageInv, KeepInv,
       Active, Writing
  <2>4. RowsInv' /\ PostComputedIsSound' /\ ListingInv'
    BY <1>2, <2>1, <2>2 DEF Restart, RowsInv, PostComputedIsSound, ListingInv,
       VerdictIsOfListing, Writing, TypeOK, Analysis
  <2> QED
    BY <2>2, <2>3, <2>4
<1>3. CASE UNCHANGED vars
  BY <1>3 DEF vars, TypeOK, CursorInv, BudgetInv, SolveBudget, OneAnalysis,
     RowsInv, RowInStage, StageInv, PostComputedIsSound, ListingInv, VerdictIsOfListing,
     KeepInv, Complete
<1> QED
  BY <1>1, <1>2, <1>3

LEMMA NextInv == IInv /\ [Next]_vars => IInv'
<1> SUFFICES ASSUME IInv, [Next]_vars PROVE IInv'
  OBVIOUS
<1>1. CASE Program
  BY <1>1, CursorSteps, ComputeStep, DeleteStep, CreateAnalysisStep, WritingSteps,
     PostComputeStep DEF Program
<1>2. CASE Die \/ Restart \/ UNCHANGED vars
  BY <1>2, RunSteps
<1> QED
  BY <1>1, <1>2 DEF Next

-----------------------------------------------------------------------------
(* The theorems. *)

\* Every reachable state satisfies the inductive invariant.
THEOREM Invariance == Spec => []IInv
  BY InitInv, NextInv, PTL DEF Spec

\* Every variable keeps its type: no counter of rows falls below zero when the existing
\* analyses are deleted, and every analysis row refers to a facility row of its shape.
THEOREM TypeCorrect == Spec => []TypeOK
<1>1. IInv => TypeOK
  BY DEF IInv
<1> QED
  BY <1>1, Invariance, PTL

\* The do ... while loop solves at most max_recompute_loops + 1 times for an incident and
\* gives up a solution on the border of its window only when that budget is spent.
THEOREM BudgetRespected == Spec => []SolveBudget
<1>1. IInv => SolveBudget
  BY DEF IInv, BudgetInv
<1> QED
  BY <1>1, Invariance, PTL

\* However often the program is interrupted and started again, write_to_db never leaves
\* an incident with two analyses.
THEOREM AtMostOneAnalysis == Spec => []OneAnalysis
<1>1. IInv => OneAnalysis
  BY DEF IInv
<1> QED
  BY <1>1, Invariance, PTL

\* Derived quantities are only stored with a good and completely written analysis.
THEOREM PostComputedSound == Spec => []PostComputedIsSound
<1>1. IInv => PostComputedIsSound
  BY DEF IInv
<1> QED
  BY <1>1, Invariance, PTL

\* Only an interrupted run leaves partial rows of its own behind.
THEOREM PartialRowsAreOfInterruptedRuns == Spec => []PartialOnlyIfInterrupted
<1>1. IInv => PartialOnlyIfInterrupted
  BY DEF IInv, RowsInv, PartialOnlyIfInterrupted, Active, Writing
<1> QED
  BY <1>1, Invariance, PTL

\* The stored verdict is that of the listing on disk.
THEOREM VerdictFollowsListing == Spec => []VerdictIsOfListing
<1>1. IInv => VerdictIsOfListing
  BY DEF IInv, ListingInv
<1> QED
  BY <1>1, Invariance, PTL

\* With dont-replace-existing no step changes or deletes a row of an earlier run.
THEOREM KeepsEarlierRuns ==
  ASSUME ReplaceExisting = FALSE
  PROVE  Spec => EarlierRunsUntouched
<1> DEFINE Kept == \A i \in Incidents : \A a \in store[i] : a.run < runs => a \in store'[i]
<1>1. ASSUME IInv, [Next]_vars
      PROVE  Kept
  <2>1. pc \in Active => \A a \in store[cur] : a.run = runs
    BY <1>1 DEF IInv, KeepInv
  <2>2. runs \in Nat /\ \A i \in Incidents : store[i] \subseteq Analysis
    BY <1>1 DEF IInv, TypeOK
  <2>3. UNCHANGED store \/ (pc \in Active /\ \A i \in Incidents \ {cur} : store'[i] = store[i])
    <3>1. CASE UNCHANGED store
      BY <3>1
    <3>2. CASE \E a, b : PutRow(a, b) /\ pc \in Active
      BY <1>1, <3>2 DEF PutRow, IInv, TypeOK
    <3>3. CASE DeleteExisting \/ CreateAnalysis
      <4>1. pc \in Active
        BY <3>3 DEF DeleteExisting, CreateAnalysis, Active, Writing
      <4>2. \E s : store' = [store EXCEPT ![cur] = s]
        BY <3>3 DEF DeleteExisting, CreateAnalysis, DeleteSectionData, DeleteSections,
           DeleteFacility, DeleteAnalysis, PutRow
      <4> QED
        BY <1>1, <4>1, <4>2 DEF IInv, TypeOK
    <3> QED
      BY <1>1, <3>1, <3>2, <3>3 DEF Next, Program, SkipIncident, StartIncident, FinishRun,
         ComputeDelay, CreateFacility, CreateSection, CreateSectionData, WriteD12Delay,
         PostCompute, Die, Restart, vars, Active, Writing
  <2> QED
    BY <2>1, <2>2, <2>3 DEF Analysis
<1>2. ASSUME IInv, [Next]_vars
      PROVE  [Kept]_vars
  BY <1>1, <1>2
<1> QED
  BY <1>2, Invariance, PTL DEF Spec, EarlierRunsUntouched

-----------------------------------------------------------------------------
(* With replace_existing every analysable incident the cursor has passed   *)
(* has rows of this run.                                                   *)

RepairInv ==
  /\ pc \in {"facility", "sections", "postcompute"} => store[cur] # {}
  /\ pc # "dead" =>
       \A i \in Analyzable \ todo :
         ~(i = cur /\ pc \in Active) => \E a \in store[i] : a.run = runs

LEMMA RepairStep ==
  ASSUME ReplaceExisting = TRUE, IgnoreUnprocessed = FALSE,
         IInv, IInv', RepairInv, [Next]_vars
  PROVE  RepairInv'
<1>1. ASSUME NEW i \in Incidents, SkipIncident(i) PROVE RepairInv'
  BY <1>1 DEF SkipIncident, Skipped, RepairInv, dcVars, Active, Writing
<1>2. ASSUME NEW i \in Incidents, StartIncident(i) PROVE RepairInv'
  BY <1>2 DEF StartIncident, RepairInv, Active, Writing
<1>3. CASE FinishRun
  BY <1>3 DEF FinishRun, RepairInv, dcVars, Active, Writing
<1>4. CASE ComputeDelay
  BY <1>4 DEF ComputeDelay, RepairInv, Active, Writing
<1>5. CASE DeleteExisting
  <2>1. pc = "delete" /\ pc' = pc /\ UNCHANGED <<todo, cur, runs>>
    BY <1>5 DEF DeleteExisting
  <2>2. \A i \in Incidents \ {cur} : store'[i] = store[i]
    BY <1>5 DEF DeleteExisting, DeleteSectionData, DeleteSections, DeleteFacility,
       DeleteAnalysis, PutRow, IInv, TypeOK
  <2> QED
    BY <2>1, <2>2 DEF RepairInv, Active, Writing
<1>6. CASE CreateAnalysis
  BY <1>6 DEF CreateAnalysis, RepairInv, dcVars, Active, Writing, IInv, TypeOK, CursorInv
<1>7. CASE CreateFacility \/ CreateSection \/ CreateSectionData \/ WriteD12Delay \/ PostCompute
  <2>1. /\ pc \in {"facility", "sections", "postcompute"}
        /\ pc' \in {"next", "facility", "sections", "postcompute"}
        /\ UNCHANGED <<todo, cur, runs>>
    BY <1>7 DEF CreateFacility, CreateSection, CreateSectionData, WriteD12Delay, PostCompute,
       AfterWriting
  <2>2. \E a, b : PutRow(a, b)
    BY <1>7 DEF CreateFacility, CreateSection, CreateSectionData, WriteD12Delay, PostCompute
  <2>3. cur \in Incidents
    BY <2>1 DEF IInv, CursorInv, Active, Writing
  <2>4. store'[cur] # {} /\ \A i \in Incidents \ {cur} : store'[i] = store[i]
    BY <2>2, <2>3 DEF PutRow, IInv, TypeOK
  <2>5. \A a \in store'[cur] : a.run = runs
    <3>1. \A a \in store[cur] : a.run = runs /\ a \in Analysis
      BY <2>1, <2>3 DEF IInv, StageInv, TypeOK
    <3> QED
      <4>1. CASE CreateFacility
        BY <3>1, <2>3, <4>1 DEF CreateFacility, PutRow, IInv, TypeOK, Analysis
      <4>2. CASE CreateSection
        BY <3>1, <2>3, <4>2 DEF CreateSection, PutRow, IInv, TypeOK, Analysis
      <4>3. CASE CreateSectionData
        BY <3>1, <2>3, <4>3 DEF CreateSectionData, PutRow, IInv, TypeOK, Analysis
      <4>4. CASE WriteD12Delay
        BY <3>1, <2>3, <4>4 DEF WriteD12Delay, PutRow, IInv, TypeOK, Analysis
      <4>5. CASE PostCompute
        BY <3>1, <2>3, <4>5 DEF PostCompute, PutRow, IInv, TypeOK, Analysis
      <4> QED
        BY <1>7, <4>1, <4>2, <4>3, <4>4, <4>5
  <2> QED
    BY <2>1, <2>3, <2>4, <2>5 DEF RepairInv, Active, Writing
<1>8. CASE Die \/ UNCHANGED vars
  BY <1>8 DEF Die, RepairInv, vars, dcVars
<1>9. CASE Restart
  BY <1>9 DEF Restart, RepairInv
<1> QED
  BY <1>1, <1>2, <1>3, <1>4, <1>5, <1>6, <1>7, <1>8, <1>9 DEF Next, Program

\* A run with replace_existing that ends normally has given every analysable incident a
\* complete analysis, whatever earlier runs left behind.
THEOREM RerunRepairsAll ==
  ASSUME ReplaceExisting = TRUE, IgnoreUnprocessed = FALSE
  PROVE  Spec => []RerunRepairs
<1>1. Init => RepairInv
  BY DEF Init, RepairInv, Active
<1>2. IInv /\ IInv' /\ RepairInv /\ [Next]_vars => RepairInv'
  BY RepairStep
<1>3. IInv /\ RepairInv => RerunRepairs
  BY DEF IInv, CursorInv, RowsInv, RepairInv, RerunRepairs, Active, Writing
<1> QED
  BY <1>1, <1>2, <1>3, Invariance, PTL DEF Spec

-----------------------------------------------------------------------------
(* If the solver always answers, the stored window is the solved one.      *)

WindowInv ==
  /\ WindowIsOfListing
  /\ pc \in Writing => /\ lst[cur] # NoFile
                      /\ lst[cur].post = postwindow
                      /\ lst[cur].miles = MaxDist(cur, upstream)

LEMMA WindowStep ==
  ASSUME ReprocessExisting = FALSE, SolverMayFail = FALSE,
         IInv, IInv', WindowInv, [Next]_vars
  PROVE  WindowInv'
<1>1. CASE UNCHANGED <<store, lst, runs>> /\ pc' \notin Writing
  BY <1>1 DEF WindowInv, WindowIsOfListing
<1>2. CASE ComputeDelay
  <2>1. cur \in Incidents /\ \A a \in store[cur] : a.run # runs
    BY <1>2 DEF ComputeDelay, IInv, CursorInv, RowsInv, Active, TypeOK, Analysis
  <2>2. PICK s \in Solution : lst' = [lst EXCEPT ![cur] =
                [post |-> postwindow', miles |-> MaxDist(cur, upstream'), sol |-> s]]
    <3>1. PICK file \in ListingsAfter(lst[cur], postwindow', MaxDist(cur, upstream')) :
            lst' = [lst EXCEPT ![cur] = file]
      BY <1>2 DEF ComputeDelay
    <3>2. PICK s \in Solution :
            file = [post |-> postwindow', miles |-> MaxDist(cur, upstream'), sol |-> s]
      BY <3>1 DEF ListingsAfter
    <3> QED
      BY <3>1, <3>2
  <2>3. /\ lst'[cur].post = postwindow' /\ lst'[cur].miles = MaxDist(cur, upstream')
        /\ \A i \in Incidents \ {cur} : lst'[i] = lst[i]
    BY <2>1, <2>2 DEF IInv, TypeOK
  <2>4. lst'[cur] # NoFile
    <3>1. postwindow' \in Nat /\ MaxDist(cur, upstream') \in Nat
      BY <1>2, <2>1
      DEF ComputeDelay, Extended, MaxDist, IInv, TypeOK
    <3> QED
      BY <2>1, <2>2, <3>1 DEF IInv, TypeOK, Listing
  <2> QED
    BY <1>2, <2>1, <2>3, <2>4 DEF ComputeDelay, WindowInv, WindowIsOfListing, MaxDist
<1>3. CASE DeleteExisting \/ CreateAnalysis
  <2>1. pc \in Writing /\ UNCHANGED <<cur, postwindow, upstream, lst, runs>>
    BY <1>3 DEF DeleteExisting, CreateAnalysis, dcVars, Writing
  <2>2. \A i \in Incidents \ {cur} : store'[i] = store[i]
    BY <1>3 DEF DeleteExisting, DeleteSectionData, DeleteSections, DeleteFacility,
       DeleteAnalysis, CreateAnalysis, PutRow, IInv, TypeOK
  <2>3. \A a \in store'[cur] : a.run = runs' => a.fac = NoRow
    <3>1. CASE DeleteExisting
      BY <3>1 DEF DeleteExisting, IInv, RowsInv, CursorInv, Active, Writing
    <3>2. CASE CreateAnalysis
      <4>1. cur \in Incidents
        BY <3>2 DEF CreateAnalysis, IInv, CursorInv, Active, Writing
      <4> QED
        BY <4>1, <3>2 DEF CreateAnalysis, NewAnalysis, IInv, TypeOK
    <3> QED
      BY <1>3, <3>1, <3>2
  <2> QED
    BY <2>1, <2>2, <2>3 DEF WindowInv, WindowIsOfListing, MaxDist
<1>4. CASE CreateFacility
  <2>1. pc \in Writing /\ UNCHANGED <<cur, postwindow, upstream, lst, runs>> /\ cur \in Incidents
    BY <1>4 DEF CreateFacility, dcVars, IInv, CursorInv, Active, Writing
  <2>2. PICK a \in store[cur] :
          PutRow(a, [a EXCEPT !.fac = [post |-> postwindow, up |-> upstream,
                                       sol |-> solution]])
    BY <1>4 DEF CreateFacility
  <2>3. /\ \A i \in Incidents \ {cur} : store'[i] = store[i]
        /\ store'[cur] = {[a EXCEPT !.fac = [post |-> postwindow, up |-> upstream,
                                             sol |-> solution]]}
    BY <2>1, <2>2 DEF PutRow, IInv, TypeOK, OneAnalysis
  <2>4. \A b \in store'[cur] : b.fac.post = postwindow /\ b.fac.up = upstream
    BY <2>1, <2>2, <2>3 DEF IInv, TypeOK, Analysis
  <2>5. /\ lst[cur] # NoFile
        /\ lst[cur].post = postwindow
        /\ lst[cur].miles = MaxDist(cur, upstream)
    BY <2>1 DEF WindowInv
  <2>6. \/ upstream = lst[cur].miles
        \/ ComputeUpstream /\ lst[cur].miles = Reach[cur] /\ Reach[cur] < upstream
    BY <2>5 DEF MaxDist
  <2>7. WindowIsOfListing'
    BY <2>1, <2>3, <2>4, <2>5, <2>6 DEF WindowInv, WindowIsOfListing
  <2> QED
    BY <2>1, <2>5, <2>7 DEF WindowInv, MaxDist
<1>5. CASE CreateSection \/ CreateSectionData \/ WriteD12Delay \/ PostCompute
  <2>1. pc \in Writing /\ UNCHANGED <<cur, postwindow, upstream, lst, runs>> /\ cur \in Incidents
    BY <1>5 DEF CreateSection, CreateSectionData, WriteD12Delay, PostCompute, dcVars, IInv,
       CursorInv, Active, Writing
  <2>2. \A i \in Incidents : \A b \in store'[i] :
          b \in store[i] \/ \E a \in store[i] : b.run = a.run /\ b.fac = a.fac
    <3>1. \A i \in Incidents : store[i] \subseteq Analysis
      BY DEF IInv, TypeOK
    <3>2. CASE CreateSection
      BY <2>1, <3>1, <3>2 DEF CreateSection, PutRow, IInv, TypeOK, Analysis
    <3>3. CASE CreateSectionData
      BY <2>1, <3>1, <3>3 DEF CreateSectionData, PutRow, IInv, TypeOK, Analysis
    <3>4. CASE WriteD12Delay
      BY <2>1, <3>1, <3>4 DEF WriteD12Delay, PutRow, IInv, TypeOK, Analysis
    <3>5. CASE PostCompute
      BY <2>1, <3>1, <3>5 DEF PostCompute, PutRow, IInv, TypeOK, Analysis
    <3> QED
      BY <1>5, <3>2, <3>3, <3>4, <3>5
  <2> QED
    BY <2>1, <2>2 DEF WindowInv, WindowIsOfListing, MaxDist
<1>6. CASE UNCHANGED vars
  BY <1>6 DEF vars, WindowInv, WindowIsOfListing, MaxDist
<1>7. CASE Restart
  BY <1>7 DEF Restart, WindowInv, WindowIsOfListing, IInv, RowsInv, TypeOK, Analysis, Writing
<1>8. ASSUME NEW i \in Incidents, SkipIncident(i) \/ StartIncident(i)
      PROVE  WindowInv'
  BY <1>1, <1>8 DEF SkipIncident, StartIncident, Writing
<1>9. CASE FinishRun \/ Die
  BY <1>1, <1>9 DEF FinishRun, Die, Writing
<1> QED
  BY <1>2, <1>3, <1>4, <1>5, <1>6, <1>7, <1>8, <1>9 DEF Next, Program

\* Unless an old listing is parsed or the solver fails, the windows stored with an analysis
\* are those of the program that was solved, the upstream one up to the cut of a short log.
THEOREM WindowFollowsListing ==
  ASSUME ReprocessExisting = FALSE, SolverMayFail = FALSE
  PROVE  Spec => []WindowIsOfListing
<1>1. Init => WindowInv
  BY DEF Init, WindowInv, WindowIsOfListing, OldAnalyses, Writing
<1>2. IInv /\ IInv' /\ WindowInv /\ [Next]_vars => WindowInv'
  BY WindowStep
<1>3. WindowInv => WindowIsOfListing
  BY DEF WindowInv
<1> QED
  BY <1>1, <1>2, <1>3, Invariance, PTL DEF Spec

-----------------------------------------------------------------------------
(* If the solver always answers, a round of the loop is in vain only where *)
(* the log is too short.                                                   *)

\* Between two rounds the listing is that of the last window, which was touched.
RoundInv ==
  pc = "compute" /\ cnt > 0 =>
    /\ Bounded(solution)
    /\ lst[cur].post = postwindow
    /\ lst[cur].miles = MaxDist(cur, upstream)

\* The round that is solved: its window and its listing.
LEMMA Round ==
  ASSUME ReprocessExisting = FALSE, SolverMayFail = FALSE, IInv, ComputeDelay
  PROVE  /\ cur \in Incidents /\ cur' = cur
         /\ lst'[cur].post = postwindow' /\ lst'[cur].miles = MaxDist(cur, upstream')
         /\ postwindow' = Extended(postwindow, solution.timeBounded, TimeIncrement)
         /\ upstream' = Extended(upstream, solution.spaceBounded, SpaceIncrement)
<1>1. cur \in Incidents /\ cur' = cur
  BY DEF ComputeDelay, IInv, CursorInv, Active
<1>2. PICK file \in ListingsAfter(lst[cur], postwindow', MaxDist(cur, upstream')) :
        lst' = [lst EXCEPT ![cur] = file]
  BY DEF ComputeDelay
<1>3. file.post = postwindow' /\ file.miles = MaxDist(cur, upstream')
  BY <1>2 DEF ListingsAfter
<1>4. lst'[cur] = file
  BY <1>1, <1>2 DEF IInv, TypeOK
<1>5. /\ postwindow' = Extended(postwindow, solution.timeBounded, TimeIncrement)
      /\ upstream' = Extended(upstream, solution.spaceBounded, SpaceIncrement)
  BY DEF ComputeDelay
<1> QED BY <1>1, <1>3, <1>4, <1>5

LEMMA RoundStep ==
  ASSUME ReprocessExisting = FALSE, SolverMayFail = FALSE,
         IInv, IInv', RoundInv, [Next]_vars
  PROVE  RoundInv'
<1>1. CASE pc' # "compute" \/ UNCHANGED vars
  BY <1>1 DEF RoundInv, vars, Bounded, MaxDist
<1>2. ASSUME NEW i \in Incidents, StartIncident(i) PROVE RoundInv'
  BY <1>2 DEF StartIncident, RoundInv
<1>3. ASSUME ComputeDelay, pc' = "compute" PROVE RoundInv'
  <2>1. Bounded(solution')
    BY <1>3 DEF ComputeDelay, WantsMore
  <2>2. lst'[cur'].post = postwindow' /\ lst'[cur'].miles = MaxDist(cur', upstream')
    BY <1>3, Round
  <2> QED BY <2>1, <2>2 DEF RoundInv, Bounded, MaxDist
<1>4. ASSUME NEW i \in Incidents, SkipIncident(i) PROVE pc' # "compute"
  BY <1>4 DEF SkipIncident
<1>5. CASE FinishRun \/ DeleteExisting \/ CreateAnalysis \/ CreateFacility \/ CreateSection
             \/ CreateSectionData \/ WriteD12Delay \/ PostCompute \/ Die \/ Restart
  BY <1>1, <1>5 DEF FinishRun, DeleteExisting, CreateAnalysis, CreateFacility, CreateSection,
     CreateSectionData, WriteD12Delay, AfterWriting, PostCompute, Die, Restart
<1> QED
  BY <1>1, <1>2, <1>3, <1>4, <1>5 DEF Next, Program

\* Unless an old listing is parsed or the solver fails, every round after the first solves
\* a larger window, for logs of any length: a round is in vain only where the distance
\* upstream was cut to the reach of the log and nothing else was touched.
THEOREM NoRoundInVain ==
  ASSUME ReprocessExisting = FALSE, SolverMayFail = FALSE
  PROVE  Spec => EveryRoundWidens
<1> DEFINE Widens == pc = "compute" /\ cnt > 0 /\ solves' = solves + 1 =>
                       \/ lst'[cur].post > lst[cur].post
                       \/ lst'[cur].miles > lst[cur].miles
                       \/ /\ ~solution.timeBounded
                          /\ ComputeUpstream /\ lst[cur].miles = Reach[cur]
                          /\ lst'[cur].post = lst[cur].post
                          /\ lst'[cur].miles = lst[cur].miles
<1>1. Init => RoundInv
  BY DEF Init, RoundInv
<1>2. IInv /\ IInv' /\ RoundInv /\ [Next]_vars => RoundInv'
  BY RoundStep
<1>3. ASSUME IInv, RoundInv, [Next]_vars, pc = "compute", cnt > 0, solves' = solves + 1
      PROVE  Widens
  <2>1. ComputeDelay
    <3>1. solves' # solves
      BY <1>3 DEF IInv, TypeOK
    <3> QED
      BY <1>3, <3>1 DEF Next, Program, SkipIncident, StartIncident, FinishRun, DeleteExisting,
         CreateAnalysis, CreateFacility, CreateSection, CreateSectionData, WriteD12Delay,
         PostCompute, Die, Restart, vars, dcVars
  <2>2. /\ solution.timeBounded \/ solution.spaceBounded
        /\ lst[cur].post = postwindow /\ lst[cur].miles = MaxDist(cur, upstream)
    BY <1>3 DEF RoundInv, Bounded
  <2>3. postwindow \in Nat /\ upstream \in Nat /\ solution \in Solution
    BY <1>3 DEF IInv, TypeOK
  <2>4. /\ cur \in Incidents
        /\ lst'[cur].post = postwindow' /\ lst'[cur].miles = MaxDist(cur, upstream')
        /\ postwindow' = Extended(postwindow, solution.timeBounded, TimeIncrement)
        /\ upstream' = Extended(upstream, solution.spaceBounded, SpaceIncrement)
    BY <1>3, <2>1, Round
  <2>5. CASE solution.timeBounded
    BY <2>2, <2>3, <2>4, <2>5 DEF Extended
  <2>6. CASE ~solution.timeBounded
    <3>1. postwindow' = postwindow /\ upstream' = upstream + SpaceIncrement
      BY <2>2, <2>4, <2>6 DEF Extended
    <3>2. Reach[cur] \in Nat
      BY <2>4
    <3>3. CASE ComputeUpstream /\ Reach[cur] <= upstream
      <4>1. MaxDist(cur, upstream') = Reach[cur] /\ MaxDist(cur, upstream) = Reach[cur]
        BY <2>3, <3>1, <3>2, <3>3 DEF MaxDist
      <4> QED BY <2>2, <2>4, <2>6, <3>1, <3>3, <4>1
    <3>4. CASE ~(ComputeUpstream /\ Reach[cur] <= upstream)
      <4>1. MaxDist(cur, upstream) = upstream /\ MaxDist(cur, upstream') > upstream
        BY <2>3, <3>1, <3>2, <3>4 DEF MaxDist
      <4> QED BY <2>2, <2>3, <2>4, <4>1
    <3> QED BY <3>3, <3>4
  <2> QED BY <2>5, <2>6
<1>4. ASSUME IInv, RoundInv, [Next]_vars PROVE [Widens]_vars
  BY <1>3, <1>4
<1> QED
  BY <1>1, <1>2, <1>4, Invariance, PTL DEF Spec, EveryRoundWidens
=============================================================================
