---------------------------- MODULE AnalysisPage ----------------------------
(* The page of one analysis: a time-space diagram, the cumulative flow at a *)
(* section, a map of the sections, a row of delays and the form with the    *)
(* parameters of the what-if case. The views talk through window events; a  *)
(* trigger runs the handlers at once in the order they were bound, and an   *)
(* exception ends the rest, with whatever was done so far left as it is.    *)
EXTENDS LoadOverlay, Integers, FiniteSets

CONSTANTS Analyses,     \* the analyses the server may have
          Steps,        \* time steps the pointer may be over
          T2Step,       \* the step before t2, the end of the lane closure
          Percents,     \* positions of the slider for the diverted share
          Minutes,      \* positions of the sliders for the two delays
          Values,       \* amounts that can be typed in for the value of time
          Views,        \* what the map may be moved to, a tile for each
          StartView,    \* what a map shows when it is made
          SegmentsView, \* the segments, as close as they fit
          MaxResizes,   \* bound: times the window is resized
          None          \* not set

(* sections: how many (0: the answer has no cells); sec: the section of the *)
(* incident; bad: badSolution is set; times: "known", "missing" when there  *)
(* are no time steps, "nostart" when t0 is before the first of them,        *)
(* "unclear" when t2 is null.                                               *)
AnalysisType ==
  [sections : Nat, sec : Nat, bad : BOOLEAN,
   times : {"known", "missing", "nostart", "unclear"}]

(* What the lines of the chart are computed from: a section and a case.     *)
DataType == [section : Nat, case : [pct : Nat, ver : Nat, resp : Nat]]

DefaultMinutes == 15

ASSUME AnalysisAssumption ==
  /\ Analyses \subseteq {a \in AnalysisType : a.sections > 0 => a.sec < a.sections}
  /\ Steps \subseteq Nat /\ T2Step \in Nat
  /\ Percents \subseteq Nat /\ Percents # {}
  /\ Minutes \subseteq Nat /\ DefaultMinutes \in Minutes
  /\ Values \subseteq Nat \ {0} /\ Values # {}
  /\ StartView \in Views /\ SegmentsView \in Views
  /\ MaxResizes \in Nat
  /\ None \notin Int /\ None \notin DataType

VARIABLES analysis,   \* what the server has
          page,       \* the views, the form and the requests under way
          resizes     \* counts towards MaxResizes

vars == <<analysis, page, resizes>>

Panels == {"table", "tsd", "map", "chart"}
Loads == {"analysis", "log", "segments"}

-----------------------------------------------------------------------------
(* Running handlers one after the other.                                    *)

Thrown(p) == [p EXCEPT !.thrown = TRUE]

\* The next handler or statement, unless one before it threw.
Then(p, Op(_)) == IF p.thrown THEN p ELSE Op(p)

\* tmcpe.loadData for k.
Request(p, k) ==
  [p EXCEPT !.load = Requested(@, k), !.underway[k] = @ + 1]

-----------------------------------------------------------------------------
(* The map of the sections: segmap. A tile is painted in the default colour *)
(* when it is first in view, and keeps what it has when it comes back.      *)

Default == [v \in Views |-> None]

\* setActiveTimestep: remember the step; with data, colour the segments in
\* view, if they are there, and name the time in the map's text.
MapStep(p, j) ==
  IF "map" \notin p.known THEN [p EXCEPT !.step = j]
  ELSE [p EXCEPT !.step = j, !.text = j,
                 !.colours[p.view] = IF p.map = "segments" THEN j ELSE @,
                 !.moved = p.map # "segments" /\ @]

\* segmap.redraw: an empty map, without text, legend and segments.
MapRedraw(p) ==
  [p EXCEPT !.map = "empty", !.view = StartView, !.colours = Default, !.text = None,
            !.moved = TRUE, !.legend = FALSE]

\* Mutant: the active step is not applied to a new layer.
RedrawSegmentsPlain(p) ==
  IF ~p.segments THEN Thrown(p)
  ELSE [p EXCEPT !.map = "segments", !.view = SegmentsView, !.moved = TRUE, !.colours = Default]

\* redrawSegments: needs the segments. A new layer is coloured for the
\* remembered step where the map is, and then the map is moved.
RedrawSegments(p) ==
  IF ~p.segments THEN Thrown(p)
  ELSE [p EXCEPT !.map = "segments", !.view = SegmentsView, !.moved = TRUE,
                 !.colours = [Default EXCEPT ![p.view] = p.step],
                 !.text = IF p.step = None THEN @ ELSE p.step]

\* segmap.data, and the second redraw its callers chain to it.
MapData(p) ==
  MapRedraw(Request(MapRedraw([p EXCEPT !.known = @ \cup {"map"}]), "segments"))

-----------------------------------------------------------------------------
(* The time-space diagram: tsd.                                             *)

\* tsd.redraw: everything in the container goes, the line at the selected
\* section and the bar at the active step with it.
TsdRedraw(p) ==
  LET q == [p EXCEPT !.drawn = FALSE, !.cross = None, !.bar = None]
  IN  IF "tsd" \notin p.known THEN Thrown(p)
      ELSE IF analysis.sections = 0 THEN Thrown(q) ELSE [q EXCEPT !.drawn = TRUE]

\* The event activeTimestep: the diagram's bar, then the map.
ActiveTimestep(p, j) == MapStep([p EXCEPT !.bar = j], j)

\* tsd.data: draw, and make the step before t2 the active one.
TsdData(p) ==
  Then(TsdRedraw([p EXCEPT !.known = @ \cup {"tsd"}]),
       LAMBDA q : IF analysis.times = "unclear" THEN q ELSE ActiveTimestep(q, T2Step))

\* tsd.selectedTime: remember the section, then draw the line.
TsdSelected(p, k) ==
  IF k < 0 THEN Thrown([p EXCEPT !.selected = k])
  ELSE [p EXCEPT !.selected = k, !.cross = k]

-----------------------------------------------------------------------------
(* The row of delays. A cell shows nothing, NaN, or a number of vehicle     *)
(* hours that has been multiplied by "times", Compound for more than once.  *)

Compound == 0
Blank == [shows |-> "nothing", times |-> Compound]
Hours == [shows |-> "number", times |-> 1]

Factor(params) == IF params.unit = "usd" THEN params.vot ELSE 1

\* parseFloat of the text of a cell times f, written back.
Refactored(cell, f) ==
  IF cell.shows # "number" THEN [shows |-> "NaN", times |-> Compound]
  ELSE [cell EXCEPT !.times = IF f = 1 THEN @ ELSE IF @ = 1 THEN f ELSE Compound]

\* cumflow.updateStatsUnit.
UpdateStatsUnit(p) ==
  [p EXCEPT !.label = IF p.params.unit = "usd" THEN "$" ELSE "veh-h",
            !.net = Refactored(@, Factor(p.params)),
            !.savings = Refactored(@, Factor(p.params))]

\* Mutant: the delays the model computes are not written again.
UpdateStatsTwice(p) ==
  IF p.data = None THEN p
  ELSE UpdateStatsUnit([p EXCEPT !.net = Hours, !.savings = IF @ = Blank THEN Hours ELSE @])

\* cumflow.updateStats: the delays of the analysis and those computed from
\* the lines, in vehicle hours, and then in the unit of the form.
UpdateStats(p) ==
  IF p.data = None THEN p
  ELSE UpdateStatsUnit([p EXCEPT !.net = Hours, !.savings = Hours])

\* The page's own updateStats: only what the analysis has, and no unit.
PageStats(p) == IF analysis.bad THEN p ELSE [p EXCEPT !.net = Hours]

-----------------------------------------------------------------------------
(* The cumulative flow: cumflow.                                            *)

\* getSectionIndex: one past the section, the last one for the last.
SectionIndex(k) == IF k = analysis.sections - 1 THEN k ELSE k + 1
IncidentSection == SectionIndex(analysis.sec) - 1

\* What the lines are computed from.
Case(params) == [pct |-> params.pct, ver |-> params.ver, resp |-> params.resp]

\* Mutant: a redraw keeps the lines it has.
ChartRedrawOnce(p) ==
  IF "chart" \notin p.known THEN Thrown(p)
  ELSE IF p.section = None \/ p.chart = "lines" THEN p
  ELSE IF analysis.bad THEN [p EXCEPT !.chart = "message"]
  ELSE IF p.section < 0 THEN Thrown([p EXCEPT !.chart = "empty"])
  ELSE IF analysis.times = "nostart" THEN [p EXCEPT !.chart = "message"]
  ELSE IF IncidentSection < 0 \/ analysis.times = "unclear"
       THEN Thrown([p EXCEPT !.chart = "empty"])
  ELSE UpdateStats([p EXCEPT !.chart = "lines",
                             !.data = [section |-> p.section, case |-> Case(p.params)]])

\* cumflow.redraw: nothing before a section is selected; a message instead of
\* lines when there is no solution or no start; an exception, the chart being
\* empty by then, when the section of the incident or t2 is of no use.
ChartRedraw(p) ==
  IF "chart" \notin p.known THEN Thrown(p)
  ELSE IF p.section = None THEN p
  ELSE IF analysis.bad THEN [p EXCEPT !.chart = "message"]
  ELSE IF p.section < 0 THEN Thrown([p EXCEPT !.chart = "empty"])
  ELSE IF analysis.times = "nostart" THEN [p EXCEPT !.chart = "message"]
  ELSE IF IncidentSection < 0 \/ analysis.times = "unclear"
       THEN Thrown([p EXCEPT !.chart = "empty"])
  ELSE UpdateStats([p EXCEPT !.chart = "lines",
                             !.data = [section |-> p.section, case |-> Case(p.params)]])

\* cumflow.data.
ChartData(p) == UpdateStats([p EXCEPT !.known = @ \cup {"chart"}])

\* cumflow.params: all parameters at once, then redraw and stats.
ChartParams(p) == Then(ChartRedraw([p EXCEPT !.params = p.form]), UpdateStats)

-----------------------------------------------------------------------------
(* The window events and the handlers of the page.                          *)

\* The event selectedSection: the diagram, then the chart.
SelectedSection(p, k) ==
  Then(TsdSelected(p, k), LAMBDA q : ChartRedraw([q EXCEPT !.section = k]))

\* The event paramsChanged: the diagram's colours, the chart, the map's legend.
ParamsChanged(p) == Then(ChartParams(p), LAMBDA q : [q EXCEPT !.legend = q.map # "none"])

\* updateViews: select a section, write the delays, listen to resizing.
UpdateViews(p) ==
  Then(SelectedSection(p, IF p.section = None THEN IncidentSection ELSE p.section),
       LAMBDA q : [PageStats(q) EXCEPT !.resizable = TRUE])

\* The form after a load: both delays at their default.
WithDefaultDelays(p) == [p EXCEPT !.form.ver = DefaultMinutes, !.form.resp = DefaultMinutes]

\* The event analysisLoaded: diagram, chart, map, twice the form, the page.
AnalysisLoaded(p) ==
  LET q == Then(Then(TsdData(p), ChartData), MapData)
      r == Then(Then(q, ParamsChanged), LAMBDA s : ParamsChanged(WithDefaultDelays(s)))
  IN  Then(r, UpdateViews)

-----------------------------------------------------------------------------
(* The page and its user.                                                   *)

FirstForm == [pct |-> CHOOSE v \in Percents : TRUE, ver |-> DefaultMinutes,
              resp |-> DefaultMinutes, vot |-> CHOOSE v \in Values : TRUE, unit |-> "vehhr"]

\* The views are made; the analysis and its log are asked for.
FirstPage ==
  [known |-> {}, thrown |-> FALSE, shown |-> Panels, resizable |-> FALSE, log |-> FALSE,
   drawn |-> FALSE, cross |-> None, bar |-> None, selected |-> None,
   section |-> None, chart |-> "empty", data |-> None, form |-> FirstForm,
   params |-> [pct |-> 20, ver |-> 5, resp |-> 5, vot |-> 13, unit |-> "vehhr"],
   net |-> Blank, savings |-> Blank, label |-> "",
   step |-> None, map |-> "none", view |-> StartView, colours |-> Default, text |-> None,
   moved |-> TRUE, legend |-> FALSE, segments |-> FALSE,
   underway |-> [k \in Loads |-> 0], load |-> NothingLoading]

Init ==
  /\ analysis \in Analyses
  /\ page = Request(Request(FirstPage, "analysis"), "log")
  /\ resizes = 0

\* The callback for k on page p ended with page q: the load is counted off,
\* unless something threw.
Callback(k, q) ==
  /\ page.underway[k] > 0
  /\ page' = [q EXCEPT !.underway[k] = @ - 1,
                       !.load = IF q.thrown THEN @ ELSE Finished(@, k),
                       !.thrown = FALSE]
  /\ UNCHANGED <<analysis, resizes>>

\* Without time steps there is nothing to show and the answer is left at that.
AnalysisArrives ==
  Callback("analysis", IF analysis.times = "missing" THEN page ELSE AnalysisLoaded(page))

LogArrives == Callback("log", [page EXCEPT !.log = TRUE])

SegmentsArrive == Callback("segments", RedrawSegments([page EXCEPT !.segments = TRUE]))

\* The server fails, or sends nothing: loadData throws.
LoadFails(k) == Callback(k, Thrown(page))

\* What the user does while the overlay does not cover the page.
Gesture(q) ==
  /\ ~page.load.up
  /\ page' = [q EXCEPT !.thrown = FALSE]
  /\ UNCHANGED <<analysis, resizes>>

ClickCell ==
  /\ page.drawn /\ "tsd" \in page.shown
  /\ \E k \in 0..(analysis.sections - 1) : Gesture(SelectedSection(page, k))

HoverCell ==
  /\ page.drawn /\ "tsd" \in page.shown
  /\ \E j \in Steps : Gesture(ActiveTimestep(page, j))

\* The map is dragged, zoomed or turned: another tile, or one it had before.
MoveMap ==
  /\ page.map # "none" /\ "map" \in page.shown
  /\ \E v \in Views : Gesture([page EXCEPT !.view = v, !.moved = TRUE])

\* tmcPctChanged, verificationDelayChanged and responseDelayChanged pass on
\* the slider that was moved and no other.
SlidePercent ==
  \E v \in Percents :
    Gesture(Then(ChartRedraw([page EXCEPT !.form.pct = v, !.params.pct = v]), UpdateStats))

SlideVerification ==
  \E v \in Minutes : Gesture(ChartRedraw([page EXCEPT !.form.ver = v, !.params.ver = v]))

SlideResponse ==
  \E v \in Minutes : Gesture(ChartRedraw([page EXCEPT !.form.resp = v, !.params.resp = v]))

\* delayUnitChanged, then paramsChanged.
ChangeUnit ==
  \E u \in {"vehhr", "usd"} :
    Gesture(ParamsChanged(UpdateStatsUnit([page EXCEPT !.form.unit = u, !.params.unit = u])))

\* valueOfTimeChanged, then paramsChanged; the input is disabled without usd.
ChangeValue ==
  /\ page.form.unit = "usd"
  /\ \E v \in Values :
       Gesture(ParamsChanged(UpdateStatsUnit([page EXCEPT !.form.vot = v, !.params.vot = v])))

\* The colours or the alignment of the map: paramsChanged alone.
ChangeTheme == Gesture(ParamsChanged(page))

\* Show all: table and diagram, map, chart, each drawn before the next shows.
ShowAll ==
  Gesture(Then(Then(Then([page EXCEPT !.shown = @ \cup {"table", "tsd"}], TsdRedraw),
                    LAMBDA q : RedrawSegments(MapRedraw([q EXCEPT !.shown = @ \cup {"map"}]))),
               LAMBDA q : ChartRedraw([q EXCEPT !.shown = @ \cup {"chart"}])))

OnlyTable == Gesture([page EXCEPT !.shown = {"table"}])
OnlyChart == Gesture(ChartRedraw([page EXCEPT !.shown = {"chart"}]))
OnlyMap == Gesture(RedrawSegments(MapRedraw([page EXCEPT !.shown = {"map"}])))
OnlyTsd == Gesture(TsdRedraw([page EXCEPT !.shown = {"tsd"}]))

\* The window changes its size, overlay or not.
Resize ==
  /\ page.resizable /\ resizes < MaxResizes
  /\ resizes' = resizes + 1
  /\ page' = [Then(Then(Then(TsdRedraw(page), ChartRedraw), PageStats), MapData)
                EXCEPT !.thrown = FALSE]
  /\ UNCHANGED analysis

Dismiss ==
  /\ page.load.up
  /\ page' = [page EXCEPT !.load = Dismissed(@)]
  /\ UNCHANGED <<analysis, resizes>>

Arrives == AnalysisArrives \/ LogArrives \/ SegmentsArrive \/ \E k \in Loads : LoadFails(k)

Next ==
  \/ Arrives
  \/ ClickCell \/ HoverCell \/ MoveMap
  \/ SlidePercent \/ SlideVerification \/ SlideResponse
  \/ ChangeUnit \/ ChangeValue \/ ChangeTheme
  \/ ShowAll \/ OnlyTable \/ OnlyChart \/ OnlyMap \/ OnlyTsd
  \/ Resize \/ Dismiss

Spec == Init /\ [][Next]_vars

-----------------------------------------------------------------------------
(* Properties.                                                              *)

Form == [pct : Percents \cup {20}, ver : Minutes \cup {5}, resp : Minutes \cup {5},
         vot : Values \cup {13}, unit : {"vehhr", "usd"}]
Cell == [shows : {"nothing", "NaN", "number"}, times : Nat]
SectionOrNone == Int \cup {None}

\* Every variable has its type.
TypeOK ==
  /\ analysis \in Analyses /\ resizes \in 0..MaxResizes
  /\ page \in [known : SUBSET {"tsd", "chart", "map"}, thrown : {FALSE}, shown : SUBSET Panels,
               resizable : BOOLEAN, log : BOOLEAN, drawn : BOOLEAN,
               cross : Nat \cup {None}, bar : Nat \cup {None}, selected : SectionOrNone,
               section : SectionOrNone, chart : {"empty", "message", "lines"},
               data : DataType \cup {None},
               form : Form, params : Form, net : Cell, savings : Cell,
               label : {"", "veh-h", "$"}, step : Nat \cup {None},
               map : {"none", "empty", "segments"}, view : Views,
               colours : [Views -> Nat \cup {None}], text : Nat \cup {None}, moved : BOOLEAN,
               legend : BOOLEAN, segments : BOOLEAN, underway : [Loads -> Nat],
               load : Overlay(Loads)]

\* The lines on the chart are always those of the selected section and of the
\* form's parameters, although the form has two ways to pass them on, the
\* defaults of the chart are others, and the analysis may come at any time.
ChartIsOfForm ==
  page.chart = "lines" => page.data = [section |-> page.section, case |-> Case(page.form)]

\* The diagram and the chart never show two sections: the line is at the
\* section of the chart or, after a redraw, not there.
SectionsAgree ==
  /\ page.section # None => page.selected = page.section
  /\ page.cross # None /\ page.chart = "lines" => page.cross = page.data.section

\* The delay without the TMC and the savings are shown in the unit the label
\* names, multiplied exactly once, whatever is changed in whatever order.
SavingsInLabelUnit ==
  page.savings.shows = "number" =>
    page.savings.times = IF page.label = "$" THEN page.form.vot ELSE 1

\* The map's text names the step the pointer was over last, which is where the
\* diagram's bar is (if it was not drawn again since), although the segments
\* arrive late and are drawn at any time. The segments in view have its colours
\* only until the map is moved or drawn again: then they are in the default
\* colour, or in that of a step from before.
TimesAgree ==
  /\ page.bar # None => page.step = page.bar
  /\ page.map = "segments" => page.text = page.step
  /\ page.map = "segments" /\ ~page.moved => page.colours[page.view] = page.step

\* Both: the views agree on what the user pointed at.
ViewsAgree == SectionsAgree /\ TimesAgree
=============================================================================
