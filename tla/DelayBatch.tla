----------------------------- MODULE DelayBatch -----------------------------
(***************************************************************************)
(* The delay computation phase of the batch importer: the INCDEL loop of   *)
(* data/actlog/import-al.pl together with the methods of                   *)
(* TMCPE::DelayComputation it calls.  For every selected incident the loop *)
(* solves the delay program, widens the analysed time-space window and     *)
(* solves again while the congestion touches the border of the window,     *)
(* then replaces the stored analysis of the incident and computes the      *)
(* derived quantities.                                                     *)
(*                                                                         *)
(* No statement runs inside a transaction (AutoCommit => 1), so the rows   *)
(* of an analysis are deleted and written one after the other, and the     *)
(* process may end between any two of them.  The operator may then start   *)
(* the program again: the database and the .lst files survive.             *)
(*                                                                         *)
(* Abstracted data: a number of "cells on the border" is only ever         *)
(* compared with 1, hence the Booleans timeBounded and spaceBounded; the   *)
(* observations of one section are written as one block; the solver's      *)
(* answer is any answer.  How the program travels to the solver and the    *)
(* listing back is the module SolveExchange; here a solver that fails      *)
(* without a listing leaves the one of an earlier call.                    *)
(***************************************************************************)
EXTENDS Naturals, FiniteSets

CONSTANTS
  Incidents,          \* the incidents the command line selects
  Analyzable,         \* those with a CAD id and a location on a known VDS
  Reach,              \* Reach[i]: miles a worst-case shock wave travels during the log of i
  NumSections,        \* sections (stations) written with each analysis
  PostWindow,         \* option postwindow: minutes analysed after the log ends
  UpstreamFallback,   \* option vds_upstream_fallback: miles analysed upstream
  ComputeUpstream,    \* option compute_vds_upstream_fallback
  ReplaceExisting,    \* option replace_existing
  IgnoreUnprocessed,  \* option ignore_unprocessed
  ReprocessExisting,  \* option dc-reprocess-existing: parse the .lst of an earlier run
  SolverMayFail,      \* may rsync, ssh or the solver fail (solve_program does not look)?
  MaxRecomputeLoops,  \* option max_recompute_loops
  TimeIncrement,      \* option extend_time_increment
  SpaceIncrement,     \* option extend_space_increment
  MaxRuns,            \* bound of the model: how often the program is started
  Nobody, NoFile, NoRow  \* absent values

ASSUME BatchAssumption ==
  /\ Analyzable \subseteq Incidents
  /\ Reach \in [Incidents -> Nat]
  /\ NumSections \in Nat
  /\ PostWindow \in Nat
  /\ UpstreamFallback \in Nat
  /\ ComputeUpstream \in BOOLEAN
  /\ ReplaceExisting \in BOOLEAN
  /\ IgnoreUnprocessed \in BOOLEAN
  /\ ReprocessExisting \in BOOLEAN
  /\ SolverMayFail \in BOOLEAN
  /\ MaxRecomputeLoops \in Nat
  /\ TimeIncrement \in Nat \ {0}
  /\ SpaceIncrement \in Nat \ {0}
  /\ MaxRuns \in Nat \ {0}

VARIABLES
  pc,           \* where the program is
  todo,         \* incidents the cursor has not returned yet
  cur,          \* the incident being analysed
  postwindow,   \* dc->postwindow
  upstream,     \* dc->vds_upstream_fallback
  cnt,          \* the loop counter
  solution,     \* what the last parse left in dc
  solves,       \* observation: calls of compute_delay for cur
  lst,          \* lst[i]: the .gms/.lst pair of incident i on disk
  store,        \* store[i]: the rows of the analyses of incident i
  runs          \* how often the program was started

dcVars == <<postwindow, upstream, cnt, solution, solves>>
vars == <<pc, todo, cur, postwindow, upstream, cnt, solution, solves, lst, store, runs>>

-----------------------------------------------------------------------------
(* Values. *)

\* The computations that follow a good solution, in their order: fraction observed,
\* incident start, incident clear, diversion, delay2.
NumPostSteps == 5

Solution == [timeBounded : BOOLEAN, spaceBounded : BOOLEAN, bad : BOOLEAN]
Undefined == [timeBounded |-> FALSE, spaceBounded |-> FALSE, bad |-> FALSE]

\* A solved program: the window it was written for and the solver's answer.
Listing == [post : Nat, miles : Nat, sol : Solution]

\* One row of incident_facility_impact_analyses: post_window, upstream_window, verdict.
Facility == [post : Nat, up : Nat, sol : Solution]

\* One row of incident_impact_analyses with the rows that depend on it.
Analysis == [run  : Nat,                    \* observation: the run that created it
             fac  : Facility \cup {NoRow},
             secs : Nat,                    \* analyzed_sections rows
             data : Nat,                    \* of them, with their incident_section_datas
             d12  : BOOLEAN,                \* final d12delay written
             post : Nat]                    \* post computations written

ASSUME AbsentAssumption ==
  /\ Nobody \notin Incidents
  /\ NoFile \notin Listing
  /\ NoRow \notin Facility

Stages == {"next", "compute", "delete", "facility", "sections", "postcompute",
           "done", "dead"}
Writing == {"delete", "facility", "sections", "postcompute"}
Running == Stages \ {"done", "dead"}

Bounded(sol) == sol.timeBounded \/ sol.spaceBounded

Complete(a) ==
  /\ a.fac # NoRow
  /\ a.secs = NumSections
  /\ a.data = NumSections
  /\ a.d12
  /\ a.fac.sol.bad \/ a.post = NumPostSteps

TypeOK ==
  /\ pc \in Stages
  /\ todo \subseteq Incidents
  /\ cur \in Incidents \cup {Nobody}
  /\ postwindow \in Nat
  /\ upstream \in Nat
  /\ cnt \in Nat
  /\ solution \in Solution
  /\ solves \in Nat
  /\ lst \in [Incidents -> Listing \cup {NoFile}]
  /\ store \in [Incidents -> SUBSET Analysis]
  /\ runs \in Nat

\* The miles upstream of the incident that get_affected_vds queries.
MaxDist(i, up) == IF ComputeUpstream /\ Reach[i] < up THEN Reach[i] ELSE up

\* What earlier runs may have left: nothing, a finished analysis, or the first row
\* of one that was interrupted; and, to be parsed again, a listing.
OldAnalyses ==
  {[run |-> 0, fac |-> [post |-> PostWindow, up |-> UpstreamFallback, sol |-> Undefined],
    secs |-> NumSections, data |-> NumSections, d12 |-> TRUE, post |-> NumPostSteps],
   [run |-> 0, fac |-> NoRow, secs |-> 0, data |-> 0, d12 |-> FALSE, post |-> 0]}

OldListings(i) ==
  {NoFile} \cup
  IF ReprocessExisting
  THEN {[post |-> PostWindow, miles |-> MaxDist(i, UpstreamFallback), sol |-> s] :
          s \in Solution}
  ELSE {}

Init ==
  /\ pc = "next"
  /\ todo = Incidents
  /\ cur = Nobody
  /\ postwindow = PostWindow
  /\ upstream = UpstreamFallback
  /\ cnt = 0
  /\ solution = Undefined
  /\ solves = 0
  /\ lst \in [Incidents -> UNION {OldListings(i) : i \in Incidents}]
  /\ \A i \in Incidents : lst[i] \in OldListings(i)
  /\ store \in [Incidents -> {{}} \cup {{a} : a \in OldAnalyses}]
  /\ runs = 1

-----------------------------------------------------------------------------
(* Choosing the next incident. *)

\* Mutants: an analysis is never replaced; an analysis is always replaced.
SkippedNeverReplace(i) == store[i] # {} \/ i \notin Analyzable
SkippedAlwaysReplace(i) == (IgnoreUnprocessed /\ store[i] = {}) \/ i \notin Analyzable

Skipped(i) ==
  \/ (~ReplaceExisting /\ store[i] # {})
  \/ (IgnoreUnprocessed /\ store[i] = {})
  \/ i \notin Analyzable

\* Mutant: "redo" instead of "next".
SkipIncidentRedo(i) ==
  /\ pc = "next"
  /\ i \in todo
  /\ Skipped(i)
  /\ UNCHANGED vars

SkipIncident(i) ==
  /\ pc = "next"
  /\ i \in todo
  /\ Skipped(i)
  /\ todo' = todo \ {i}
  /\ UNCHANGED <<pc, cur, dcVars, lst, store, runs>>

\* A new DelayComputation object, with the options of the command line.
StartIncident(i) ==
  /\ pc = "next"
  /\ i \in todo
  /\ ~Skipped(i)
  /\ todo' = todo \ {i}
  /\ cur' = i
  /\ postwindow' = PostWindow
  /\ upstream' = UpstreamFallback
  /\ cnt' = 0
  /\ solution' = Undefined
  /\ solves' = 0
  /\ pc' = "compute"
  /\ UNCHANGED <<lst, store, runs>>

FinishRun ==
  /\ pc = "next"
  /\ todo = {}
  /\ pc' = "done"
  /\ UNCHANGED <<todo, cur, dcVars, lst, store, runs>>

-----------------------------------------------------------------------------
(* The do ... while loop: widen the window, solve, decide.                 *)

\* Mutant: the two branches are swapped.
ExtendedSwapped(value, bounded, increment) ==
  IF bounded THEN value ELSE value + increment

Extended(value, bounded, increment) == IF bounded THEN value + increment ELSE value

\* The listings that may be on disk when the program for a window has been handed to
\* the solver: its answer or, after a failure nobody looks at, the file of before.
ListingsAfter(file, post, miles) ==
  IF ReprocessExisting THEN {file}
  ELSE {[post |-> post, miles |-> miles, sol |-> s] : s \in Solution}
         \cup (IF SolverMayFail THEN {file} ELSE {})

\* What parse_results leaves in dc: without a file a bad solution with no bounds.
Parsed(file) ==
  IF file = NoFile
  THEN [timeBounded |-> FALSE, spaceBounded |-> FALSE, bad |-> TRUE]
  ELSE file.sol

\* The loop goes on while a usable solution touches the border of the window; the
\* counter is incremented by the test itself, and only when the test gets that far.
WantsMore(sol) == ~sol.bad /\ Bounded(sol)

\* Mutant: the counter is compared with <=.
BudgetLeftLe(n) == n <= MaxRecomputeLoops

BudgetLeft(n) == n < MaxRecomputeLoops

\* Mutant: the conditions of the round before are not reset.
ComputeDelaySticky ==
  /\ pc = "compute"
  /\ postwindow' = Extended(postwindow, solution.timeBounded, TimeIncrement)
  /\ upstream' = Extended(upstream, solution.spaceBounded, SpaceIncrement)
  /\ \E file \in ListingsAfter(lst[cur], postwindow', MaxDist(cur, upstream')) :
       /\ lst' = [lst EXCEPT ![cur] = file]
       /\ solution' = [timeBounded  |-> Parsed(file).timeBounded \/ solution.timeBounded,
                       spaceBounded |-> Parsed(file).spaceBounded \/ solution.spaceBounded,
                       bad          |-> Parsed(file).bad \/ solution.bad]
  /\ solves' = solves + 1
  /\ cnt' = IF WantsMore(solution') THEN cnt + 1 ELSE cnt
  /\ pc' = IF WantsMore(solution') /\ BudgetLeft(cnt) THEN "compute" ELSE "delete"
  /\ UNCHANGED <<todo, cur, store, runs>>

ComputeDelay ==
  /\ pc = "compute"
  /\ postwindow' = Extended(postwindow, solution.timeBounded, TimeIncrement)
  /\ upstream' = Extended(upstream, solution.spaceBounded, SpaceIncrement)
  /\ \E file \in ListingsAfter(lst[cur], postwindow', MaxDist(cur, upstream')) :
       /\ lst' = [lst EXCEPT ![cur] = file]
       /\ solution' = Parsed(file)
  /\ solves' = solves + 1
  /\ cnt' = IF WantsMore(solution') THEN cnt + 1 ELSE cnt
  /\ pc' = IF WantsMore(solution') /\ BudgetLeft(cnt) THEN "compute" ELSE "delete"
  /\ UNCHANGED <<todo, cur, store, runs>>

-----------------------------------------------------------------------------
(* write_to_db: first the rows of every existing analysis, children first, *)
(* then the new ones, parents first.                                       *)

PutRow(a, b) == store' = [store EXCEPT ![cur] = (@ \ {a}) \cup {b}]

\* Mutant: one row too many is counted as deleted.
DeleteSectionDataUnchecked(a) == PutRow(a, [a EXCEPT !.data = a.data - 1])

DeleteSectionData(a) ==
  /\ a.data > 0
  /\ PutRow(a, [a EXCEPT !.data = a.data - 1])

DeleteSections(a) ==
  /\ a.data = 0
  /\ a.secs > 0
  /\ PutRow(a, [a EXCEPT !.secs = 0])

DeleteFacility(a) ==
  /\ a.data = 0
  /\ a.secs = 0
  /\ a.fac # NoRow
  /\ PutRow(a, [a EXCEPT !.fac = NoRow])

DeleteAnalysis(a) ==
  /\ a.fac = NoRow
  /\ store' = [store EXCEPT ![cur] = @ \ {a}]

DeleteExisting ==
  /\ pc = "delete"
  /\ \E a \in store[cur] :
       \/ DeleteSectionData(a)
       \/ DeleteSections(a)
       \/ DeleteFacility(a)
       \/ DeleteAnalysis(a)
  /\ UNCHANGED <<pc, todo, cur, dcVars, lst, runs>>

NewAnalysis == [run |-> runs, fac |-> NoRow, secs |-> 0, data |-> 0, d12 |-> FALSE,
                post |-> 0]

\* Mutant: the new analysis is created before the existing ones are deleted.
CreateAnalysisFirst ==
  /\ pc = "delete"
  /\ store' = [store EXCEPT ![cur] = @ \cup {NewAnalysis}]
  /\ pc' = "facility"
  /\ UNCHANGED <<todo, cur, dcVars, lst, runs>>

CreateAnalysis ==
  /\ pc = "delete"
  /\ store[cur] = {}
  /\ store' = [store EXCEPT ![cur] = {NewAnalysis}]
  /\ pc' = "facility"
  /\ UNCHANGED <<todo, cur, dcVars, lst, runs>>

\* Mutant: the upstream window of the command line is stored, not the one of dc.
CreateFacilityOfOptions ==
  /\ pc = "facility"
  /\ \E a \in store[cur] :
       PutRow(a, [a EXCEPT !.fac = [post |-> postwindow, up |-> UpstreamFallback,
                                    sol |-> solution]])
  /\ pc' = "sections"
  /\ UNCHANGED <<todo, cur, dcVars, lst, runs>>

CreateFacility ==
  /\ pc = "facility"
  /\ \E a \in store[cur] :
       PutRow(a, [a EXCEPT !.fac = [post |-> postwindow, up |-> upstream, sol |-> solution]])
  /\ pc' = "sections"
  /\ UNCHANGED <<todo, cur, dcVars, lst, runs>>

CreateSection ==
  /\ pc = "sections"
  /\ \E a \in store[cur] :
       /\ a.secs < NumSections
       /\ a.data = a.secs
       /\ PutRow(a, [a EXCEPT !.secs = a.secs + 1])
  /\ UNCHANGED <<pc, todo, cur, dcVars, lst, runs>>

CreateSectionData ==
  /\ pc = "sections"
  /\ \E a \in store[cur] :
       /\ a.data < a.secs
       /\ PutRow(a, [a EXCEPT !.data = a.data + 1])
  /\ UNCHANGED <<pc, todo, cur, dcVars, lst, runs>>

\* Mutant: the test for a bad solution is missing.
AfterWritingAlways == "postcompute"

AfterWriting == IF solution.bad THEN "next" ELSE "postcompute"

\* The last statement of write_to_db, and the test that follows the call.
WriteD12Delay ==
  /\ pc = "sections"
  /\ \E a \in store[cur] :
       /\ a.data = NumSections
       /\ PutRow(a, [a EXCEPT !.d12 = TRUE])
  /\ pc' = AfterWriting
  /\ UNCHANGED <<todo, cur, dcVars, lst, runs>>

\* Mutant: the last computation is forgotten.
LastPostStepEarly(n) == n + 1 = NumPostSteps

LastPostStep(n) == n = NumPostSteps

\* The next of the computations: each ends with an update of the facility row.
PostCompute ==
  /\ pc = "postcompute"
  /\ \E a \in store[cur] :
       /\ PutRow(a, [a EXCEPT !.post = a.post + 1])
       /\ pc' = IF LastPostStep(a.post + 1) THEN "next" ELSE "postcompute"
  /\ UNCHANGED <<todo, cur, dcVars, lst, runs>>

-----------------------------------------------------------------------------
(* The end of the process.  A database exception is rethrown by the        *)
(* handler of the loop; any other exception is a string, on which the      *)
(* handler's $@->{msg} is itself fatal under "use strict"; and the         *)
(* process may be killed.  All three leave what is already written.        *)

Die ==
  /\ pc \in Running
  /\ pc' = "dead"
  /\ UNCHANGED <<todo, cur, dcVars, lst, store, runs>>

\* The operator starts the same command again.
Restart ==
  /\ pc \in {"done", "dead"}
  /\ runs < MaxRuns
  /\ pc' = "next"
  /\ todo' = Incidents
  /\ cur' = Nobody
  /\ postwindow' = PostWindow
  /\ upstream' = UpstreamFallback
  /\ cnt' = 0
  /\ solution' = Undefined
  /\ solves' = 0
  /\ runs' = runs + 1
  /\ UNCHANGED <<lst, store>>

Program ==
  \/ \E i \in Incidents : SkipIncident(i) \/ StartIncident(i)
  \/ FinishRun
  \/ ComputeDelay
  \/ DeleteExisting
  \/ CreateAnalysis
  \/ CreateFacility
  \/ CreateSection
  \/ CreateSectionData
  \/ WriteD12Delay
  \/ PostCompute

Next == Program \/ Die \/ Restart

Spec == Init /\ [][Next]_vars

\* The program is a single sequential process: it does not pause for ever.
FairSpec == Spec /\ WF_vars(Program)

-----------------------------------------------------------------------------
(* Properties. *)

\* The loop of import-al.pl solves at most max_recompute_loops + 1 times for one
\* incident, and it leaves a solution that touches the border of its window alone
\* only when that budget is used up.
SolveBudget ==
  /\ solves <= MaxRecomputeLoops + 1
  /\ pc \in Writing /\ WantsMore(solution) => solves = MaxRecomputeLoops + 1

\* There is never more than one stored analysis per incident, whatever run was
\* interrupted where: write_to_db deletes every row before it creates one.
OneAnalysis == \A i \in Incidents : \A a, b \in store[i] : a = b

\* compute_fraction_observed ... compute_delay2 update only an analysis that is
\* written to the last row and whose solution is good.
PostComputedIsSound ==
  \A i \in Incidents : \A a \in store[i] :
    a.post > 0 /\ a.run = runs =>
      /\ a.fac # NoRow
      /\ ~a.fac.sol.bad
      /\ a.d12
      /\ a.secs = NumSections
      /\ a.data = NumSections

\* The program turns to another incident, or ends normally, only when what it wrote
\* for the last one is complete: partial rows are left by interrupted runs alone.
PartialOnlyIfInterrupted ==
  pc \in {"next", "done"} =>
    \A i \in Incidents : \A a \in store[i] : a.run = runs => Complete(a)

\* When a run with replace_existing ends normally, every incident that can be
\* analysed has an analysis of that run, also the ones an earlier run left partial.
RerunRepairs ==
  pc = "done" =>
    \A i \in Analyzable : \E a \in store[i] : a.run = runs /\ Complete(a)

\* The verdict stored with an analysis is the one of the listing on disk, also when the
\* loop went round several times, the solver failed or the listing is an old one.
VerdictIsOfListing ==
  \A i \in Incidents : \A a \in store[i] :
    a.run = runs /\ a.fac # NoRow => a.fac.sol = Parsed(lst[i])

\* If the solver answers each time, the windows stored with an analysis are those its
\* program was written for, not those of an earlier or a later round of the loop: the same
\* minutes after the log, and upstream the miles the program was written for or, where the
\* log is too short for them, a bound that get_affected_vds cuts to them.
WindowIsOfListing ==
  \A i \in Incidents : \A a \in store[i] :
    a.run = runs /\ a.fac # NoRow =>
      /\ lst[i] # NoFile
      /\ a.fac.post = lst[i].post
      /\ \/ a.fac.up = lst[i].miles
         \/ ComputeUpstream /\ lst[i].miles = Reach[i] /\ Reach[i] < a.fac.up

\* With dont-replace-existing no row of an earlier run is changed or deleted, not even
\* a partial analysis.
EarlierRunsUntouched ==
  [][\A i \in Incidents : \A a \in store[i] : a.run < runs => a \in store'[i]]_vars

\* Every round of the loop after the first solves a strictly larger window than the
\* round before it.  The one exception: only the upstream border was touched, and the log
\* is so short that get_affected_vds had cut the distance already; then the round is in
\* vain and solves the same window again.
EveryRoundWidens ==
  [][pc = "compute" /\ cnt > 0 /\ solves' = solves + 1 =>
       \/ lst'[cur].post > lst[cur].post
       \/ lst'[cur].miles > lst[cur].miles
       \/ /\ ~solution.timeBounded
          /\ ComputeUpstream /\ lst[cur].miles = Reach[cur]
          /\ lst'[cur].post = lst[cur].post /\ lst'[cur].miles = lst[cur].miles]_vars

\* Every started run comes to an end, however the solver answers.
RunEnds == pc \in Running ~> pc \in {"done", "dead"}
=============================================================================
