# TMCPE: models, checks and proofs

TMCPE (Traffic Management Center Performance Evaluation) estimates how much delay a
freeway incident caused and how much of it the traffic management centre saved.  Its core
is a batch importer in Perl that reads activity logs, builds incidents, and for each of them
solves an integer program that says which cells of a time-space grid were "in incident
conditions"; a Grails application shows the result and can run the same analysis on demand.

This directory holds TLA+ models of the import of logs, of the part that computes delay and of the
three pages that show it, TLC runs on small instances, and TLAPS proofs for all instances.  Paths below are
relative to `src/`;

    P  data/actlog/lib/TMCPE/DelayComputation.pm
    I  data/actlog/import-al.pl
    G  grails-app/services/edu/uci/its/tmcpe/GamsDelayComputationService.groovy
    C  web-app/js/tmcpe/common.js             Q  web-app/js/tmcpe/map-show.js
    S  web-app/js/tmcpe/incident-summary.js   T  web-app/js/tmcpe/incident-tsd.js
    K  web-app/js/polymaps_cluster.js

## 1. Inventory

| Part | Source | State it keeps | Operations | What is hard | What makes it correct | Status |
|---|---|---|---|---|---|---|
| Delay computation loop | I:995-1141, P:213-261, P:1543-1756 | one `dc` object (window, verdict), rows `incident_impact_analyses` > `incident_facility_impact_analyses` > `analyzed_sections` > `incident_section_datas`, `.gms`/`.lst` files | select incident, solve, widen, delete and write rows, five post computations | no transaction, death between statements, rerun, state carried from round to round | one whole analysis per incident, stored verdict is that of the listing, bounded effort, reruns repair | `DelayBatch` (partly: see section 6) |
| Exchange with the GAMS host | P:1372-1541, G:140-195, G:761-855 | local files, remote `tmcpe/work`, GAMS processes | rsync, ssh, rsync, parse, retry | failing calls, files shared by name, solver that outlives its connection, unbounded retry | an accepted answer is the whole listing of the program asked for; every ask ends | `SolveService`, `SolveExchange` |
| Delay program | P:854-1370 | none (text of an integer program) | EQ1-EQ8b, start cell, bound of the incident time | seven big-M equations that must exclude shapes no single incident causes | region is one plume without gaps, start cell is its head | `PlumeProgram` (partly) |
| Impact extent | P:1797-1919, P:1927-2035 | `computed_start_*`, `computed_incident_clear_time`, loop indexes | find start, find extent, drive a vehicle to the start, diversion, second delay estimate | index ranges, two arrays in opposite directions, remainders | start is the program's start, clearance neither early nor falsely "bounded" | `ImpactExtent` (partly) |
| Evidence classification | P:532-852, G:33-138 | speeds, averages, `p_j_m` | classify one cell | two implementations that differ | both agree; forced cells only where evidence exists | planned |
| PEMS average cache | P:570-655 | table `Pems5minAnnualAvg` | look up, fill | concurrent importers fill one cache | one average per station and slot | planned |
| ICAD and activity log import | I:380-668 | `icad`, `icad_detail`, `d12_activity_log` | insert or skip | a record and its details are separate statements, duplicates are skipped, details have no date | details once each and in order; a record lacks some only where a run ended | `LogImport` (partly: see section 6) |
| Incidents and performance measures | I:236-374, I:680-957 | `incidents`, `performance_measures`, the row in memory with the columns that changed | select incidents, find or create the row, go through the log, delete and create measures, update | a log that grows between runs, what an earlier run left, two runs on one incident, one exception ends the loop | a scan leaves the critical events and measures of the log it read | `LogImport` (partly: see section 6) |
| Location parser | `data/actlog/lib/TMCPE/ActivityLog/LocationParser.pm` | none | regular expressions over free text | the text | the patterns | not modelled: all of its behaviour is data |
| Listing parser of the web service | G:288-643 | cursor in the `.lst`/`.gms` text | match and continue | a missing section moves the cursor past others | each value is from its own section | planned |
| Stored analyses and their readers | controllers `IncidentFacilityImpactAnalysis`, `Incident` | the rows above | show, list, update, delete | reads while the importer replaces rows | a reader sees no partial analysis as whole | planned (composition with `DelayBatch`) |
| Simple incident model | `SimpleIncidentModelService.groovy` | none | cumulative count projections | boundaries of the sums | projections monotone, delay not negative | planned |
| Domain classes | `grails-app/domain` | rows | `compareTo` of sorted sets | orderings that are not total | strict weak orders | planned |
| Loading overlay | C:5-68 | count of loads, list of what they load, modal dialog | request, count off, close | the count goes down at the end of the callback only; each page also hides the dialog by itself | nobody is locked out by a load that ended well | `LoadOverlay` |
| Query page | Q, K | rows of the table, tiles and clusters of the map, selected cluster in two views, entries of the panel, highlighted row/circle/entry, buttons | query; click row, circle, entry, Previous, Next; move the map | window events triggered inside handlers of others, exceptions that end them, lists of clusters kept as properties of their first incident | the three views point at one incident, the panel shows one cluster, buttons lead somewhere | `QueryPage` (partly: see section 6) |
| Summary page | S | form, last query, requests under way, chart, overlay | change a select, type a query, answers, failures | answers out of order, overlay hidden by the page and by the counter | the chart is that of the last query, the bars of a group tile | `SummaryPage` |
| Analysis page | T | analysis, section, time step, parameters of the form and of the chart, delays, segments of the map with their colours, panels | three loads; click or hover a cell, move the map, sliders, unit, value of time, theme, five buttons, resize | loads that cross, exceptions in the middle of a chain of handlers, views with copies of one value | the views agree on section, step, case and unit | `AnalysisPage` (partly: see section 6) |
| Older map and list, login, schemas and row classes | `web-app/js/tmcpe/{map,IncidentList,TimeSpaceDiagram,IncidentView,fwyplot,tmcpe-backbone,tmcpe-prezi,po,...}.js`, CAS glue, `data/sql`, generated Perl | - | rendering, glue, declarations | - | - | not modelled |
| Libraries | `web-app/js/{jquery*,d3*,polymaps,...}.js`, `src/js/openlayers` | - | - | - | - | not modelled: copies of third-party code |

How they interact.  The importer runs phase after phase (ICAD, activity log, incidents,
delay) and communicates between phases only through the database.  The delay loop calls the
solver through files: it writes `<cad>-<facility>=<direction>.gms`, copies it to a directory
on another host, runs GAMS there, and copies `.lst` back.  The web application does the same
with the same names.  The loop reads back the sums of the solution that say whether the plume
touches the border of the window, and widens the window if it does; finally it writes the
analysis, from which the extent is computed and which the web pages show.

The pages talk to the server by `tmcpe.loadData` (C:11), and inside a page the views talk by
events of the window.  jQuery runs the handlers of an event at once and in the order they
were bound, an event triggered by a handler before the rest of that handler, and an exception
anywhere ends everything up to the callback of the browser, `loadData`'s own
bookkeeping included.

`PROJECT.json` lists, under "hazards", each place where this goes wrong in ways tests hardly
reach, with the property that watches it.

## 2. Modules

| Module | Models | State and actions against the code |
|---|---|---|
| `DelayBatch` | INCDEL loop with `write_to_db` and the post computations | `postwindow`, `upstream`, `solution` are fields of `dc`; the row of a facility stores all three (P:1609, P:1611), `upstream` without the cut that `MaxDist` (P:213-222) makes of it; `cnt` the loop counter; `store[i]` the rows of incident `i`; `lst[i]` the listing on disk. `SkipIncident`/`StartIncident` are I:995-1050, `ComputeDelay` one round of the do/while with `compute_delay` (I:1101-1119), `DeleteExisting` ... `WriteD12Delay` one database statement each (P:1578-1710), `PostCompute` one of the five calls I:1125-1129. `Die` is the end of the process at any statement, `Restart` the operator's rerun. |
| `SolveService` | what a caller may expect of the solver (abstract) | `AskFor`, `Deliver`, `GiveUp`; and that nobody who asks for a program that can be solved is left waiting (`ServiceEnds`) |
| `SolveExchange` | the three external calls and the parse, for importers and web clients | one action per call and one per way it ends: `SyncProgram(Fails)`, `StartSolver(Fails)`, `WriteCells`, `FinishSolver`, `BreakSolver`, `FetchListing(Fails)`, `ParseImporter`, `ParseWeb`; `Disconnect`/`LateListing` a GAMS that goes on after its ssh died; `Killed` a client that dies. A listing has a `part`: not to the end of the cells `VAR D`, to there, or whole; the web parser throws only for the first (G:566-592, the sections after it are only logged, G:599-607), the importer for none. |
| `PlumeProgram` | the constraints of the integer program | one operator per equation, with its big M and its treatment of references beyond an index set; `Feasible` puts them together by option as the Perl does |
| `ImpactExtent` | extends `PlumeProgram`: `compute_incident_start`, `compute_incident_clear` | `Solve` is any feasible solution, then the two scans, and one action per way through the body of the vehicle loop |
| `LoadOverlay` | operators for the shared overlay, used by the three pages | `Requested` is the head of `loadData`, `Finished` the end of its callback, `Dismissed` what a page or the user does to the dialog |
| `QueryPage` | table, clustered map and detail panel | `page` has one field per thing a view shows or remembers. `MapCluster`, `DetailCluster`, `MapIncident`, `DetailIncident`, `HighlightIncidentRow` are the handlers; `ClusterSelected` and `IncidentSelected` run them in the order of Q:794-805. `Moved` is a change of the map with `Cluster_load` (K:258) for a tile not seen before. One action per gesture. |
| `SummaryPage` | form, requests, chart | `ChangeForm`, `TypeQuery` ask (S:23-70), `Answer` is `aggregatesLoaded` and the end of `loadData`, `AnswerFails` an answer that throws first. `Bars` is the whole of `aggchart.update` up to drawing. `overtaken` and `usable` are history. |
| `AnalysisPage` | the views of one analysis | operators on the record `page`, one per handler, composed by `Then`, which stops at an exception; `colours` has, for each view of the map, the step its segments are coloured for (`Default`: none, `color(60)`), `text` what is written on the map; `RedrawSegments` colours the new layer where the map is and then moves the map, as `addSegmentLayer` and `zoomExtents` do, `MoveMap` is the user's own pan and zoom, and `moved` is history; `AnalysisLoaded` is the chain of seven handlers of that event; one action per callback and per gesture. |
| `LogImport` | what a run does before the delay loop | `Load` copies log entries (I:380-453), `FindRecord` ... `EndRecord` an ICAD record (I:602-657), `QueryIncidents` the select (I:680-696), `FindIncident`/`CreateIncident` I:706-724, `TakeEntry`, `TakeMeasure`, `TakeMemo` what the loop does with one entry, `UpdateIncident` the end of the scan, `Breaks` a process that is killed or a statement that fails. `Ranges` are the ranges of dates a run may be given. `run[p]` are the variables of process `p`, its `o` the row object with the columns that changed. `broken` and `scan` are history. |
| `MC...` | instances: sets, speed fields, option tables | |
| `...Proofs` | theorems, in a module of their own for each model | |
| `NaturalsLemmas` | lemmas the proofs share | least elements, induction up to a number, and the existence of recursive functions, for sets and functions instead of operators |

`DelayBatch` abstracts the exchange (a solver that fails leaves the listing of before) and
`SolveExchange` abstracts the loop (a client asks for one window after another), and
`ImpactExtent` abstracts both (some feasible region).  That the abstraction of the exchange
inside `DelayBatch` is what `SolveExchange` really offers is a composition still to be made.
The pages compose `LoadOverlay` with their own state: the operators are applied to one field or
variable of each page.

Data.  A verdict is three Booleans (touches the last time step, touches the first section,
bad solution) because the loop only tests `> 1`.  The observations of one section are one
block of rows.  Programs are numbered windows.  Regions are sets of cells.  Speeds and lengths are
natural numbers and 0 is a speed nobody measured, for which `FreeFlow` is taken (60 in the code); the time a vehicle
needs for a section is rounded down to ticks, and a tick can be as short as one likes.  In the runs speeds are 0, 1 and 2
and lengths 8 or 16, so that no quotient of the vehicle loop is rounded; post miles are one section per unit of distance.  Big numbers
never matter: the code uses Perl floats and its counters stay small.

Three choices of `ImpactExtent` need a word.  `Solve` takes the start set from the empty set and the
singletons inside the region only: ONESTART and IFSTART_THEN_D allow nothing else, and enumerating
less is faster; `Feasible` is still evaluated whole.  `Solve` also picks the measured
speeds, because `write_to_db` is what puts the solution beside them.  `BoundStart`
(BOUND_INCIDENT_TIME) is modelled but FALSE in the runs, where it would only
remove regions.  References beyond an index set have the value 0, as in GAMS.

Data of the pages.  An answer of `QueryPage` is which incidents the filter of the table (Q:184-190) leaves
and, for each tile, the first incident of each square of the clustering grid; no
coordinates.  A tile stands for a zoom level and a region; when the map centres on something by itself
it stays on its zoom level.  In `AnalysisPage` the lines of the chart are named by the section and
the case they are computed from, a delay by how often it was multiplied by which rate, the
colours of the segments in a view of the map by the time step they are of.  `times` of an analysis says whether its time steps are
known, without a clearance or missing from the answer (T:2414: the page stays as it is).  `times = Compound` says that a number was
multiplied more than once.  A gesture needs an overlay that is down, because the dialog covers the page;
resizing does not.

Data of the import.  Entries are numbered by their time stamp, and an entry says at most one thing in each
of the three texts that are read for something (subject, details, memo).  `Load` merges the statements that copy
entries, because each is skipped or stored by itself and nothing reads them in between; the lookup of an
incident and the read of its log are one step.  The range of dates of a run is any set of entries in `Ranges`, and the options
that choose incidents are any subset of them.  Perl's `sort` is what `SortAssumption` says of
`Ordered`: a permutation, in order, equal dates by their position.  A time of day is a number below `Day`.

Operators and actions marked `Mutant:` are plausible mistakes (a dropped guard, an off-by-one,
a swapped branch).  No specification uses them; each stands in front of the definition it
would replace, and replacing it makes the property named in `PROJECT.json` fail.

## 3. Runs

| Run | Instance | Question and answer |
|---|---|---|
| `batch_replace` | 2 incidents, one with a log so short that the upstream distance is cut, 2 runs, replace_existing, 1 extra round | Death between any two statements, rerun: one analysis per incident, derived values only for whole good analyses, partial rows only from interrupted runs, a finished run has repaired everything, both stored windows are those of the listing, or the upstream one was cut to the reach of a shock wave; every round solves a larger window, or only the upstream border was touched and that cut had been made. Holds. |
| `batch_keep` | 2 incidents, 2 runs, without replace_existing, failing solver, one log so short that the upstream bound is cut | No row of an earlier run is touched - so a partial analysis also stays for good; at most max_recompute_loops + 1 solutions, a window left touching its border only when that budget is spent; stored verdict is that of the listing on disk; every run ends. Holds. |
| `exchange_web` | 2 web clients, own files, failing calls, kills, 2 windows each | Every accepted answer is fresh and whole; the exchange implements `SolveService`, its liveness included: a request for a program that has an optimal solution is answered or refused. Holds. |
| `exchange_shared` | web client and 2 importers, two share a job, failing calls, GAMS outlives ssh | Even so nobody gets another incident's listing, and every ask ends if the web client's programs have optimal solutions. Holds. |
| `exchange_retry` | 1 web client, second program not optimal | **Violated**: the retry loop has its termination test commented out (G:168). |
| `plume_shape` | 4 sections x 4 steps, EQ1-EQ7, start rules, two lengths, speed fields slow in any sections for all or the later half of the steps | Every feasible region has no gaps, is one plume, its head never moves downstream, the start cell is its corner and is what `compute_incident_start` finds, unless in the last section; the reported clearance is never before a vehicle with whole time steps arrives, unless that is in the last step, which the code reports as bounded one step earlier (P:1905-1909). Holds. |
| `plume_bounded` | 4 x 3, slow fields | **Violated**: `timeres` is never set to a whole step again (P:1886-1897), so the vehicle stops and the window looks too short. |
| `query_page` | 3 incidents, 3 tiles on 2 zoom levels, every clustering and filter | The table and the panel never point at two incidents; enabled buttons lead somewhere unless a handler threw; the panel is one cluster of a tile that was shown; on one tile all views agree. Holds. |
| `summary_page` | 3 requests, 2 queries, 6 answers | The chart at rest is stale only if answers crossed or the last one failed; the overlay stays only after a failure; the bars of a group lie side by side from zero; every request ends. Holds. |
| `analysis_page` | 6 analyses, 2 shares, 2 delays, 2 rates, 1 time step to hover, 2 views of the map, 1 resize, every order and failure of the loads | Lines are those of the form, savings have the unit of the label, diagram and chart agree on the section, diagram and text of the map on the time step, and the colours of the map too as long as it was not moved or drawn again. Holds. |
| `import_log` | 2 importers, 3 runs, 3 entries of 2 incidents in 11 logs, 1 ICAD record across midnight, death at any statement | Details are stored once and in order, a record is incomplete only where its importer ended; after a scan that went alone to its end, the row has the critical events of the log and each entry its measures, once. Holds. |
| `import_again` | 1 importer, 2 runs, every log of 3 entries, all of them in each run | **Violated**: a second run over the same log moves the verification to the last begin of a sigalert, because only two of the critical events are cleared (I:718-720). |

Properties and actions were chosen to need several steps: type invariants are checked once
per component (`batch_replace`, `exchange_shared`, `plume_shape`, `query_page`, `summary_page`,
`analysis_page`, `import_log`).

Bounds, and why they are enough.  Two incidents: the loop shares nothing between incidents
but the database and the cursor, so a third adds no new interaction.  Two runs: a run only
distinguishes rows of its own from older ones, and earlier history (a finished analysis, a
first row only, an old listing) is in `Init`; that old listings parsed again
(dc-reprocess-existing, ignore_unprocessed) change nothing in this is proved for every option.  One section: the shape of the row tree is
reached with one; the proofs are for any number.  `max_recompute_loops` 1 and 2 cover
none, some and all of the budget.  Exchange: two windows per client are
enough for "an earlier listing", three clients for a shared job beside another job.
`MaxRuns` and `MaxRounds` are bounds of the models, the rest are options or sizes of the
program.  Grids of 4 x 4 contain every pattern of the equations: each one relates a cell, its
neighbours and the quadrants around it; EQ8 and EQ8b are off because they can only remove regions.
Pages: three incidents allow a cluster of two beside one of one and lists that overlap across tiles;
two tiles of one zoom level and one of another are what the two ways of changing the map need.  Three
requests allow the last answer to be overtaken with one more under way.  The analyses are those the
code tells apart: no cells, one section (the incident in the first and last at once), two sections with the incident in the last, and no
solution, no clearance and no time steps (an analysis without a start shows what one without a solution shows, and one with the incident in the first of two
sections differs in a number only: both are left to the proofs).  Two views of the map are the one it starts with and the one it is moved to.  One resize puts a second request for segments beside the
first; `MaxAsks` and `MaxResizes` are bounds of the models.  In `MCSummaryPage` rows come
ordered by group, with combinations missing, as `listGroups` sends them.
Import: two processes are enough for one statement of another run between any two, three runs for a scan
after both were killed or crossed.  Three entries of which one belongs to another incident are the shortest logs
with a first and a last entry for one incident and a start of another in between; `import_log` takes the logs in
which the two entries repeat each other or correct each other, `import_again` all of them.
`MaxStarts` is a bound of the model.  The two importers are interchangeable, and the run checks invariants only, so
symmetry is sound.
A log may be short in the batch runs because only then the cut of the upstream distance can be seen.
Deadlock is not checked because the program, the clients and the bounded requests of a page do stop
(and a page whose one answer failed stops for good).

Fairness.  `DelayBatch!FairSpec` has weak fairness of `Program`: the importer is one
sequential process that is never blocked for ever inside a statement (the solver call
answers or fails).  `Die` and `Restart` have none.  `SolveExchange!FairSpec` has weak fairness of each
client's own `Work`: each is a process (or servlet thread) that waits for the call it made,
and ssh and rsync return or fail (the web application reads their output only after they
exit, so this also assumes that the output fits into a pipe).  There is no fairness for asking, for failures, for kills or for
late listings.  `exchange_retry` fails under that fairness: it is not a matter of scheduling.
`SummaryPage!FairSpec` has weak fairness of `Answered`: the browser reports the end of every request,
well or not; which of the requests under way ends is its choice, and the user is owed nothing and has no
fairness.

What is not under `src/` is modelled from its use and taken on these terms: a call that exits with zero
has done its work; GAMS writes its listing in the directory it runs in, and a listing that breaks off
before the end of the cells is recognisable by the web parser, a later break by neither parser; the database executes single
statements atomically.  RemoteExecutor builds the remote command as
`cd tmcpe/work \&\& gams ...` (G:819-820); the model takes it to mean what it is meant to.

## 4. Proofs

All of these hold for every value of the constants that satisfies the named assumptions
(`BatchAssumption`, `AbsentAssumption`, `ExchangeAssumption`, `PlumeAssumption`,
`ExtentAssumption`, `SummaryAssumption`, `QueryAssumption`, `AnalysisAssumption`, `ImportAssumption`,
`RowAssumption`, `SortAssumption`).  They say no more
than that options are numbers or Booleans, that times of day are below the length of a day, that "no file" is not a
file and "no row" not a row, what `sort` returns, and that an answer to the summary page has one row for each pair of
values: `listGroups` groups by what it selects (IncidentController.groovy:627-650).  A theorem that needs more says so
after ASSUME, and the list below repeats it.

`NaturalsLemmas`.  The theorems of the library on induction and recursion take an operator as a parameter,
which no prover here can instantiate.  `SmallestNat` (a set of naturals has a least element, from the
well-foundedness of the subset ordering on finite sets), `UpTo` (a set with 0 and closed under the successor has all
numbers) and `Recursion` (a step function has its iteration) take a set or a function, so that what a recursive
function of a model computes can be proved: it exists by `Recursion`, and `UpTo` is applied to the set of places where the claim
holds.  The models state recursion as functions for that reason: `Kept`, `SumTo`, `Within`, `Arrive`.

`DelayBatchProofs`.  Inductive invariant `IInv`: types, and
`CursorInv` (the incident in work is not to be visited again), `BudgetInv` (inside the loop
the number of solutions equals the counter), `RowsInv` (what the rows of this run look like in
each stage: children only below parents, complete unless it is the current one), `StageInv`
(after deletion only rows of this run are left), `ListingInv` (the verdict in memory is that
of the file once the loop is over), `KeepInv` (without replace_existing only incidents without
rows are worked on).  None of the published properties is inductive alone: `OneAnalysis`
needs to know what `pc` says of the rows, the others what is still in memory.

 - `TypeCorrect`, `BudgetRespected`, `AtMostOneAnalysis`, `PostComputedSound`,
   `PartialRowsAreOfInterruptedRuns`, `VerdictFollowsListing`: no further assumption.
 - `KeepsEarlierRuns`: without replace_existing (action property, from `IInv`).
 - `RerunRepairsAll`: with replace_existing and without ignore_unprocessed; adds `RepairInv`
   (what is not to do any more is complete).
 - `WindowFollowsListing`: when the solver does not fail and old listings are not reprocessed;
   adds `WindowInv`.  It is about both stored windows, and names the cut by the reach of a shock wave.
 - `NoRoundInVain`, the action property `EveryRoundWidens`: under the same two conditions, for logs of any length.  `RoundInv`
   carries between two rounds that the listing in memory is that of the last window and that it touched the border.  The case in
   which a round is in vain is an exception of the property: see section 5.

`SolveExchangeProofs`.

 - `TypeCorrect`.
 - `AnswersKeepTheirJob`: no assumption at all about failures.  Every file, on either host,
   and every running or late GAMS holds a program of the job it is named for.
 - `AnswersAreFresh`: if no two clients share a job, failed calls are noticed (or none fails) and GAMS dies with its connection, each
   client's answer is whole and its own; needs that between the call that copied a file
   and the one that uses it the file cannot change, because only its owner writes it.
 - `ExchangeImplementsService`: under the same assumptions, initial states map to initial states and every
   step to a step of `SolveService` or a stutter: the safety part (`ImplementsSafety`) of the property `Implements`.

`ImpactExtentProofs`.

 - `MeaningEQ1` ... lemmas: each big-M inequality is equivalent to, or implies, the
   implication it is meant to be (cardinalities of bounded sets never exceed the big M).
 - `RegionHasNoGaps` from EQ1 and EQ2 by taking the nearest missing cell (`SmallestNat`,
   least elements of sets of numbers, replaces an induction).
 - `StartCellIsHead`, `HeadOnlyRetreats` from EQ3-EQ7 and the start rules, through `LastStep`
   and `LastSection`.  EQ8's own limits are not needed.
 - `StartIsFound`, the property `StartIsProgramsStart`, with EQ3 and EQ4-EQ7: the head of the region is also the first
   congested step of the most downstream section, and that is what the loops of `compute_incident_start`
   pick in whatever section they look at.
 - `RegionIsOnePlume`, the property `OnePlume`, with the same equations: however the region is cut in two, two cells of the parts are
   neighbours.  Parts that touch nowhere share no step, by EQ1 (`StepIsOnePart`), and neither has a cell later than one of the other:
   at the first step that has one, EQ6 would not allow the head to be cut off from what came before (`LaterIsSamePart`).  Nearest
   and earliest cells replace an induction over paths.
 - `TypeCorrect`: the vehicle stays on the grid and the remainders stay natural numbers (so
   the diagnostic "BAD DISTANCE" is dead code).
 - `ClearIsNeverEarly`, the property `NeverClearTooEarly`, for directions S and W (`~North`; for the others the loop reads the lengths of
   other sections, section 5).  The reference vehicle is the recursive function `Arrive` over positions (section, step and what is left of
   each); it exists because what is left of the grid shrinks with every `Onward`.  `Ahead` orders two positions,
   `AheadOnward` and `AheadArrivesFirst` show that a vehicle that is not ahead does not overtake, and `ArrivalInv` says that the
   loop's vehicle never gets ahead of the reference: not giving a new step its whole length only makes it late.  Speeds are any natural numbers.  The property
   has one exception, the one the code admits ("just assume $M-1 for now", P:1906): a vehicle that does not arrive in the window.

`SummaryPageProofs`.

 - `TypeCorrect`.  The count of loads is a natural number only because there are at least as many
   entries in its list as requests under way, all of one name; `TypeInv` says that the count is the
   length of the list and not less than the number of requests, which are finitely many.
 - `StuckOnlyAfterAFailure` through `OverlayInv`: what comes after an answer that was of use is an overlay that
   is down or a request under way.
 - `StaleOnlyIfAnswersCross` through `ChartInv`: the last request is under way, or it was the
   last one answered, or something has overtaken something; requests keep their query.
 - `BarsLieSideBySide`, the property `BarsTile`.  The invariant (`Shows`) is only that the chart has the bars of its rows; the
   work is in `AnswersTile`, about any answer with any missing combinations.  `Numbered`: the numbers
   `update` gives to values as they come up are distinct and below the number of values.  `RowIsOne`: so a layer has one row of a group at most.
   `LowerIs`: by induction over the layers, the sum of the layers below is the count of the rows below.

`QueryPageProofs`.

 - `RowAndItemAgree` and `ButtonsLeadSomewhere`.  The invariant `GoodPage` is the two properties together with:
   the page is a record with its fields, and no entry is selected before a cluster is.  One
   lemma per handler says that it keeps or restores `Good`; the events are compositions of
   handlers, so the step theorem has one line per gesture.  Neither needs to know
   what clusters contain, so both hold for any clustering and any join of lists.
 - `TypeCorrect`, `PanelKeepsOneCluster` (`PanelIsOneCluster`) and `ViewsAgreeOnOneTile` (`OneTileAgrees`) do need it.  `CanBeSorted` and
   `ByDelayIs` show that a cluster has a sorted list and that the list has all of it and nothing else; `WithinIs` what the join keeps of a list (and that
   it keeps all of one that lies inside).
   `QueryInv` then has two parts.  `Base`: types; a circle carries the list of its square on some tile that was shown (`Carries`);
   the panel lists such a square (`Selects`); and while there is one tile, the selected circle is highlighted and the panel has the list the
   circle carries (`OneTile`).  `Agrees`: while there is one tile, table, panel, count and map point at one incident.
   `Agrees` is not inductive by itself: a gesture that selects another entry of a cluster already selected does not touch
   the circle, and relies on `Base` for it being the right one.

`AnalysisPageProofs`: `TypeCorrect`, `ChartFollowsForm` (`ChartIsOfForm`), `SavingsKeepUnit` (`SavingsInLabelUnit`)
and `ViewsStayTogether` (`ViewsAgree`), all from `PageInv`.

 - Since an exception ends a row of handlers anywhere, properties that hold between rows do not hold after each handler.
   `Loose` is what every handler keeps, even one cut off; `Sound` adds what a whole row establishes again: lines are those of the section and the form,
   savings have the unit of the label, no diagram without data for the chart, and a chart with data has taken over the form.
   `PageInv` is `Sound` between events, plus `Fresh`: the analysis is asked for once, and until it comes no view has data.
 - The lemmas follow the code: one for each function of the page (what it keeps of `Loose` and establishes of `Sound`), one for each callback
   and gesture.  `TextWell` says that a map with segments has the text of the step, and
   its colours unless it was moved; `MapStepSound` and `MapMovedSound` keep it.  That redrawing the diagram and the chart in this order leaves nothing stale, although either may
   throw, is `ChartRedrawSound` and `AnalysisLoadedSound`.

`LogImportProofs`.

 - `TypeCorrect`.  `TypeInv` is the types of the tables and, for each process, what it has in each of its
   steps (`LocalOf`); it is inductive only together with `RowInv`: the row of the incident at hand
   exists, which holds because rows are never deleted.  Incidents and records are chosen as least elements
   (`MinOfNat`, by the well-foundedness of the subset ordering on finite sets), and the choice does not change while a process is at one.
 - `RecordsStayWhole`, the property `RecordsWhole`, through `RecordInv`: what is stored of a record are the first details
   of its order, a process at a record knows how many, and no other is at the same record because only one could
   create it.  That the order is the order of events across midnight is `StampElapsed`, a lemma about remainders.
 - `ScansFollowTheLog`, the property `ScanFollowsLog`: what one scan that nothing crossed leaves in the row and the
   measures is what the log it read says.  `FromInv`: the columns no scan clears come from the log, whatever was killed
   or crossed.  `ScanInv`: as long as no other run has crossed the last scan of an incident, one process is in it, and the
   row object in memory, with the columns not yet saved, is what the entries read so far say (`Progress`); at its end the
   table has it (`Done`).  The gathering lemmas (`SubjectGathered`, `MeasureGathered`, `MemoGathered`) add one entry, measure or memo; the measures
   stored of an entry are the recursive function `Kept`.

Only model-checked: liveness (`RunEnds`, `EveryAskEnds`, `Settles`, the part `ServiceEnds` of `Implements`: fairness and ENABLED are out of reach of the provers here).
Every other property that a passing run checks is a theorem, though some for fewer instances than the model has: the
conditions named above (a solver that answers, the equations switched on, `~North`, own jobs) are those without which the property fails, or those of the
default options.  Operators declared RECURSIVE do not occur in the models, and lemmas with an operator as a
parameter were not needed.  What is found violated is of course not proved.

One thing learnt: EQ3 alone can be removed without changing any property on 4 x 4 grids when
EQ3b and EQ4-EQ7 are there; removing EQ3 and EQ3b together cannot.

## 5. Divergences

The three violation runs are described in "findings" of `PROJECT.json` with the comment each
contradicts.  Further observations that the models allow to reproduce, each by a small change of an
instance:

 - Incrementing the upstream bound (I:1109) has no effect when the log of the incident is short: get_affected_vds
   (P:217-222) takes the smaller of the bound and the reach of a shock wave, and the loop
   solves the same program until its budget is used up.  That is the exception in `EveryRoundWidens`; without it `batch_replace`,
   whose first log is short, fails.  The `upstream_window` that is stored (P:1609) is the bound, not the distance
   that was queried: the second disjunct in `WindowIsOfListing`.
 - A vehicle that does not get to the start inside the window is reported clear in its last step, `M-1`, though it arrives at `M` or later
   (P:1905-1909, with a comment that says so): the exception in `NeverClearTooEarly`.
 - The web parser throws only up to the cells; that the sums or the flags STB and SSB are missing from a listing broken off later is
   only logged (G:599-607).  `AnswerIsFresh` holds because a GAMS that breaks off also makes its call fail.
 - `compute_incident_start` scans 0..J-1 although J is the last index (P:1811, P:827); a region
   in the section furthest downstream only has another start stored.  `StartIsProgramsStart` excludes that
   section; without the exclusion it fails.  The scan for the extent (P:1836 on) leaves out the same section.
 - For N and E `stationdata` and `rawdata` run in opposite directions, and the vehicle loop reads the
   length of another section (P:1875).  With `North = TRUE` in `plume_shape`, `NeverClearTooEarly` fails.
 - The importer, unlike the web application, ignores the exit codes of its calls (P:1383-1394), so
   `AnswerIsFresh` does not hold for it (set `Web` to the empty set in `exchange_web`), and neither
   when importer and web application work on the same incident, because the "unique" file
   name (P:185) is unique per incident only.  That is why `exchange_web` and `AnswersAreFresh` assume
   web clients and own jobs.
 - By default neither program has EQ8 or `limit_to_start_region`, so that its solutions have no start cell.
 - The summary page draws whichever answer comes last (S:669): `StaleOnlyIfOvertaken` without
   `~overtaken` fails.  A failed request is never counted off (C:36-43), so `loadData` itself never
   hides the dialog again; the pages' own `hide` does, but on the analysis page there is none.
 - With more than one tile shown the query page does not agree: a tile loaded later overwrites the
   list of a cluster that is selected (K:140), so the panel's count may say "Incident 3 of 2" (Q:747-749 stops
   one past the end and tests for two past it).  `OneTileAgrees` without its first condition fails.
 - An analysis with a single section never draws its chart (T:2433 and T:887: the index is -1), and one with
   the incident in the last section uses the section before it; a `null` t2 makes `redraw` fail at T:1104
   after the old chart is gone.
 - The call under "force color redraw" (T:2039-2040) colours the new segments before `zoomExtents` moves the map (T:1701-1710); the
   tiles loaded for the new extent are painted with `color(60)` by the load handler (T:1990-2035), and the step is shown again only when
   the next cell is touched.  Panning does the same, and tiles that come back from polymaps' cache have the colours of an older step.
   `TimesAgree` without `~page.moved` fails.
 - An answer without time steps opens `#server_error` (T:2414-2418), which no page has, so that nothing is shown.
 - A redraw of the diagram loses the line at the section and the bar at the time step (T:390); each resize adds
   the message of a failed analysis once more (T:2260); a slider for a delay redraws the
   lines, but the events `maxSpeedChanged` and `scaleChanged` (T:95, T:102) have no listener.

 - Next on an incident that the table leaves out throws (Q:275; the title of the row is read at Q:637), and
   the page stays where it is: the buttons know only the clusters.
 - After a resize the delays of the analysis are in vehicle hours under a label that may say dollars (T:2640
   against T:973); "show all" throws while the segments have not come (T:2502); segments are coloured with the index of
   the time step not shifted to the start of the analysis (T:2059).
 - Import: the branch for lanes blocked (I:863) is never taken, because the measure has the type STATUS (I:266-267),
   and "ALL LANES BLOCKED" gets no type at all (I:264 is a comma where an assignment was meant); the
   start time of an incident follows the option `date-from` (I:693, I:724) and moves when a later
   range is imported; one exception ends the loop for all incidents that are left (I:702-957), also the one that
   a second importer causes by creating the same incident first; two runs in one incident at a time
   may leave measures twice (`ScanFollowsLog` without its condition on crossing fails); an ICAD record whose
   import was interrupted stays incomplete, because a later run skips it (I:602).

## 6. Not modelled, and the plan

Left out of the modelled parts: the options `use_eq1` and `use_eq2` (taken as TRUE, their
default), the objective and the evidence of the program,
`boundary_intersects_within` and forced cells; the text of listings (a greedy pattern
at P:1512 keeps only the last digit of a count, and is in the hazards); `compute_diversion`,
`compute_fraction_observed` and `compute_delay2` beyond the row each updates; wording, logging,
option parsing, map geometry.  Of the import: the radio log (copied like the activity log and read by none of this), locations and event
types, the wording by which a measure is recognised.  Of the query page: a second query typed into `#new-incident` (Q:897-915), which loads and shows an
answer again; the handler of `#year` (Q:917-929) calls `g.createFormattedLink`, which does not exist, and makes none.  Of the pages: drawing, tooltips, the
colours of the diagram, the layer that marks the ends of the segments, the detail of a cell, and the
arithmetic of the what-if flow (T:1015-1150, sums and quotients of measured flows, with a zero
divisor when two of its time steps coincide).

The map of definitions covers a small share of the JavaScript of the repository, and cannot cover much
more: nearly all of its lines are copies of libraries (jQuery and plugins, d3, OpenLayers with all its
modules, polymaps), and most of the core of the program is Perl and Groovy.  Of the project's own scripts those that a page
loads are modelled; the others (`map.js`, `IncidentList.js`, `fwyplot.js`, `tmcpe-backbone.js`,
`tmcpe-prezi.js`, `po.js`, `TestbedMap.js`, ...) belong to interfaces that no page starts any more.

In this order:

 1. `AnalysisStore`: two importers and the web readers on the same rows, composing
    `DelayBatch`'s writer with readers; abstract specification "a reader sees no analysis
    or a whole one" and where it fails.
 2. `DelayBatch` with `SolveExchange` as its solver: the instance shown to implement what
    `DelayBatch` assumes about listings.
 3. `Evidence`: both classifications of a cell as operators, compared over all inputs; EQ8
    with more sections than time steps (the big M is CARD(M1) but bounds a sum of sections).
 4. `PemsCache`: concurrent fills.
 5. `ListingCursor`: the cursor of the web parser over a sequence of sections, some missing.
 6. `SimpleIncidentModel`, the what-if flow of the analysis page and the orderings as functions against definitions.
 7. Proofs: the refinement of 2, the invariants of 1 and 4, the two classifications of 3 for all speeds.

The later modules get runs of their own by merging runs here whose questions one
instance can answer.  Runs will stay at two or three actors, two or three data items, and one crash each.

## 7. Running

    tlc -workers 2 -config batch_replace.cfg MCDelayBatch.tla
    tlapm DelayBatchProofs.tla

`PROJECT.json` names the module and configuration of every run.  The longest run
(`analysis_page`) takes about two minutes, most take under a minute; the proofs take a few minutes.
