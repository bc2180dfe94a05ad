------------------------- MODULE AnalysisPageProofs -------------------------
(****************************************************************************)
(* Theorems about AnalysisPage, for all analyses and values of the form.    *)
(*                                                                          *)
(* A handler may be cut off by an exception and the handlers after it run   *)
(* on what it left, so the invariant is stated for pages p in between:      *)
(* Loose is what every statement of every handler keeps, Sound what every   *)
(* row of handlers has established again when it ends.  There is one lemma  *)
(* for each function of the page, one for each gesture of the user and one  *)
(* for each answer of the server.                                           *)
(****************************************************************************)
EXTENDS AnalysisPage, TLAPS

USE AnalysisAssumption

(* A record with the fields of the page, whatever they hold.                *)
Fields == {"known", "thrown", "shown", "resizable", "log", "drawn", "cross", "bar", "selected",
           "section", "chart", "data", "form", "params", "net", "savings", "label", "step",
           "map", "view", "colours", "text", "moved", "legend", "segments", "underway", "load"}
IsPage(p) == p = [k \in Fields |-> p[k]]

(* The page has its types, but for a thrown exception.                      *)
Typed(p) ==
  /\ IsPage(p)
  /\ p.known \subseteq {"tsd", "chart", "map"} /\ p.thrown \in BOOLEAN /\ p.shown \subseteq Panels
  /\ p.resizable \in BOOLEAN /\ p.log \in BOOLEAN /\ p.drawn \in BOOLEAN
  /\ p.cross \in Nat \cup {None} /\ p.bar \in Nat \cup {None}
  /\ p.selected \in SectionOrNone /\ p.section \in SectionOrNone
  /\ p.chart \in {"empty", "message", "lines"} /\ p.data \in DataType \cup {None}
  /\ p.form \in Form /\ p.params \in Form /\ p.net \in Cell /\ p.savings \in Cell
  /\ p.label \in {"", "veh-h", "$"} /\ p.step \in Nat \cup {None}
  /\ p.map \in {"none", "empty", "segments"} /\ p.view \in Views
  /\ p.colours \in [Views -> Nat \cup {None}] /\ p.text \in Nat \cup {None}
  /\ p.moved \in BOOLEAN
  /\ p.legend \in BOOLEAN /\ p.segments \in BOOLEAN
  /\ p.underway \in [Loads -> Nat] /\ p.load \in Overlay(Loads)

(* What the lines and the savings depend on.                                *)
Shows(p) == <<p.section, p.selected, p.chart, p.data, p.form, p.params, p.savings, p.label>>

(* The overlay counts what it lists, and at least the requests under way.   *)
Counted(p) ==
  /\ p.load.count = Len(p.load.whats)
  /\ p.underway["analysis"] + p.underway["log"] + p.underway["segments"] <= p.load.count

(* The text of a map with segments names the remembered step, those in view *)
(* have its colours where the map was not moved, and segments are only      *)
(* asked for by a map with data.                                            *)
TextWell(p) ==
  /\ p.map = "segments" => p.text = p.step /\ p.segments
  /\ p.map = "segments" /\ ~p.moved => p.colours[p.view] = p.step
  /\ p.text # None => p.text = p.step /\ "map" \in p.known
  /\ p.segments \/ p.underway["segments"] > 0 => "map" \in p.known

(* The bar of the diagram is at the same step.                              *)
MapWell(p) == TextWell(p) /\ (p.bar # None => p.step = p.bar)

(* What the map shows beside the segments.                                  *)
OnMap(p) == <<p.view, p.colours, p.text, p.moved>>

(* The analysis is one for which lines can be drawn.                        *)
Draws == ~analysis.bad /\ analysis.times \notin {"nostart", "unclear"} /\ IncidentSection >= 0

(* Chart and diagram have the same section; lines have their data; savings  *)
(* are only written once there were lines, and the chart has data only      *)
(* behind the diagram.                                                      *)
ChartWell(p) ==
  /\ p.section # None => "chart" \in p.known /\ p.section >= 0 /\ p.selected = p.section
  /\ p.cross # None => p.cross = p.section
  /\ p.chart = "lines" => p.data # None
  /\ p.data # None => p.section # None /\ Draws
  /\ p.data = None => p.savings.shows # "number"
  /\ "chart" \in p.known => "tsd" \in p.known /\ analysis.sections > 0

(* No diagram is drawn without the chart having its data.                   *)
Loaded(p) ==
  /\ p.drawn => "chart" \in p.known
  /\ "tsd" \in p.known /\ analysis.sections > 0 => "chart" \in p.known

(* The chart has taken over the form, all of it, before anything can be     *)
(* selected; from there on each slider tells it of its own change.          *)
Synced(p) == "chart" \in p.known => p.params = p.form

(* The lines are those of the section and the form.                         *)
Lines(p) == p.chart = "lines" => p.data = [section |-> p.section, case |-> Case(p.form)]

(* The savings are multiplied by what the label says.                       *)
Savings(p) == p.savings.shows = "number" =>
    p.savings.times = IF p.label = "$" THEN p.form.vot ELSE 1

(* Kept by every statement, between handlers, and at the end of a row.      *)
Basic(p) == Typed(p) /\ Counted(p) /\ MapWell(p)
Loose(p) == Basic(p) /\ ChartWell(p)
Sound(p) == Loose(p) /\ Loaded(p) /\ Synced(p) /\ Lines(p) /\ Savings(p)

(* The types of the invariant are those of TypeOK.                          *)
LEMMA TypedIsType ==
  ASSUME analysis \in Analyses, resizes \in 0..MaxResizes, Typed(page), page.thrown = FALSE
  PROVE  TypeOK
BY DEF Typed, IsPage, Fields, TypeOK, DataType

(* What a handler leaves alone that the requests depend on.                 *)
Kept(p, q) ==
  q.known = p.known /\ q.underway = p.underway /\ q.load = p.load /\ q.drawn = p.drawn

-----------------------------------------------------------------------------
(* The map.                                                                 *)

(* The map remembers the step, and names and colours it where it can.       *)
LEMMA MapStepSound ==
  ASSUME NEW p, Typed(p), Counted(p), ChartWell(p), TextWell(p), NEW j \in Nat, p.bar = j
  PROVE  LET q == MapStep(p, j)
         IN  Loose(q) /\ Kept(p, q) /\ Shows(q) = Shows(p) /\ q.thrown = p.thrown
<1>1. CASE "map" \notin p.known
  <2>1. PICK q : q = [p EXCEPT !.step = j]
    OBVIOUS
  <2>2. Typed(q) /\ Kept(p, q) /\ Shows(q) = Shows(p) /\ q.thrown = p.thrown
    BY <2>1 DEF Typed, IsPage, Fields, Kept, Shows
  <2>3. MapWell(q) /\ Counted(q) /\ ChartWell(q)
    BY <1>1, <2>1 DEF Typed, IsPage, Fields, MapWell, TextWell, Counted, ChartWell
  <2> QED BY <1>1, <2>1, <2>2, <2>3 DEF Loose, Basic, MapStep
<1>2. CASE "map" \in p.known
  <2>1. PICK c, m : /\ c = [p.colours EXCEPT ![p.view] = IF p.map = "segments" THEN j ELSE @]
                    /\ m = (p.map # "segments" /\ p.moved)
    OBVIOUS
  <2>2. PICK q : q = [p EXCEPT !.step = j, !.text = j, !.colours = c, !.moved = m]
    OBVIOUS
  <2>3. MapStep(p, j) = q
    BY <1>2, <2>1, <2>2 DEF MapStep, Typed, IsPage, Fields
  <2>4. /\ c \in [Views -> Nat \cup {None}] /\ m \in BOOLEAN
        /\ p.map = "segments" => c[p.view] = j /\ ~m
    BY <2>1 DEF Typed
  <2>5. Typed(q) /\ Kept(p, q) /\ Shows(q) = Shows(p) /\ q.thrown = p.thrown
    BY <2>2, <2>4 DEF Typed, IsPage, Fields, Kept, Shows
  <2>6. MapWell(q) /\ Counted(q) /\ ChartWell(q)
    BY <1>2, <2>2, <2>4 DEF Typed, IsPage, Fields, MapWell, TextWell, Counted, ChartWell
  <2> QED BY <2>3, <2>5, <2>6 DEF Loose, Basic
<1> QED BY <1>1, <1>2

(* Bar, remembered step and text move together.                             *)
LEMMA ActiveTimestepSound ==
  ASSUME NEW p, Loose(p), NEW j \in Nat
  PROVE  LET q == ActiveTimestep(p, j)
         IN  Loose(q) /\ Kept(p, q) /\ Shows(q) = Shows(p) /\ q.thrown = p.thrown
<1>1. PICK r : r = [p EXCEPT !.bar = j]
  OBVIOUS
<1>2. Typed(r) /\ r.bar = j /\ Kept(p, r) /\ Shows(r) = Shows(p) /\ r.thrown = p.thrown
  BY <1>1 DEF Loose, Basic, Typed, IsPage, Fields, Kept, Shows
<1>3. TextWell(r) /\ Counted(r) /\ ChartWell(r)
  BY <1>1 DEF Loose, Basic, Typed, IsPage, Fields, MapWell, TextWell, Counted, ChartWell
<1>4. PICK q : q = MapStep(r, j)
  OBVIOUS
<1>5. Loose(q) /\ Kept(r, q) /\ Shows(q) = Shows(r) /\ q.thrown = r.thrown
  BY <1>2, <1>3, <1>4, MapStepSound
<1>6. ActiveTimestep(p, j) = q
  BY <1>1, <1>4 DEF ActiveTimestep
<1> QED BY <1>2, <1>5, <1>6 DEF Kept

(* The map may be emptied at any time.                                      *)
LEMMA MapRedrawSound ==
  ASSUME NEW p, Loose(p)
  PROVE  LET q == MapRedraw(p)
         IN  Loose(q) /\ Kept(p, q) /\ Shows(q) = Shows(p) /\ q.thrown = p.thrown
<1>1. PICK q : q = [p EXCEPT !.map = "empty", !.view = StartView, !.colours = Default,
                             !.text = None, !.moved = TRUE, !.legend = FALSE]
  OBVIOUS
<1>2. Default \in [Views -> Nat \cup {None}]
  BY DEF Default
<1>3. Typed(q) /\ Kept(p, q) /\ Shows(q) = Shows(p) /\ q.thrown = p.thrown
  BY <1>1, <1>2 DEF Loose, Basic, Typed, IsPage, Fields, Kept, Shows
<1>4. MapWell(q) /\ Counted(q) /\ ChartWell(q)
  BY <1>1 DEF Loose, Basic, Typed, IsPage, Fields, MapWell, TextWell, Counted, ChartWell
<1> QED BY <1>1, <1>3, <1>4 DEF Loose, Basic, MapRedraw

(* The user may move the map at any time.                                   *)
LEMMA MapMovedSound ==
  ASSUME NEW p, Loose(p), NEW v \in Views
  PROVE  LET q == [p EXCEPT !.view = v, !.moved = TRUE]
         IN  Loose(q) /\ Kept(p, q) /\ Shows(q) = Shows(p) /\ q.thrown = p.thrown
<1>1. PICK q : q = [p EXCEPT !.view = v, !.moved = TRUE]
  OBVIOUS
<1>2. Typed(q) /\ Kept(p, q) /\ Shows(q) = Shows(p) /\ q.thrown = p.thrown
  BY <1>1 DEF Loose, Basic, Typed, IsPage, Fields, Kept, Shows
<1>3. MapWell(q) /\ Counted(q) /\ ChartWell(q)
  BY <1>1 DEF Loose, Basic, Typed, IsPage, Fields, MapWell, TextWell, Counted, ChartWell
<1> QED BY <1>1, <1>2, <1>3 DEF Loose, Basic

(* An exception changes nothing but the flag.                               *)
LEMMA ThrownSound ==
  ASSUME NEW p, Loose(p)
  PROVE  Loose(Thrown(p)) /\ Kept(p, Thrown(p)) /\ Shows(Thrown(p)) = Shows(p)
<1>1. PICK q : q = [p EXCEPT !.thrown = TRUE]
  OBVIOUS
<1>2. Typed(q) /\ Kept(p, q) /\ Shows(q) = Shows(p)
  BY <1>1 DEF Loose, Basic, Typed, IsPage, Fields, Kept, Shows
<1>3. MapWell(q) /\ Counted(q) /\ ChartWell(q)
  BY <1>1 DEF Loose, Basic, Typed, IsPage, Fields, MapWell, TextWell, Counted, ChartWell
<1> QED BY <1>1, <1>2, <1>3 DEF Loose, Basic, Thrown

(* A new layer of segments leaves the text at the remembered step.          *)
LEMMA RedrawSegmentsSound ==
  ASSUME NEW p, Loose(p)
  PROVE  LET q == RedrawSegments(p)
         IN  Loose(q) /\ Kept(p, q) /\ Shows(q) = Shows(p)
<1>1. CASE ~p.segments
  BY <1>1, ThrownSound DEF RedrawSegments
<1>2. CASE p.segments
  <2>1. PICK c, t : /\ c = [Default EXCEPT ![p.view] = p.step]
                    /\ t = IF p.step = None THEN p.text ELSE p.step
    OBVIOUS
  <2>2. PICK q : q = [p EXCEPT !.map = "segments", !.view = SegmentsView, !.moved = TRUE,
                               !.colours = c, !.text = t]
    OBVIOUS
  <2>3. RedrawSegments(p) = q
    BY <1>2, <2>1, <2>2 DEF RedrawSegments, Loose, Basic, Typed, IsPage, Fields
  <2>4. c \in [Views -> Nat \cup {None}] /\ t = p.step
    BY <2>1 DEF Default, Loose, Basic, Typed, MapWell, TextWell
  <2>5. Typed(q) /\ Kept(p, q) /\ Shows(q) = Shows(p)
    BY <2>2, <2>4 DEF Loose, Basic, Typed, IsPage, Fields, Kept, Shows
  <2>6. MapWell(q) /\ Counted(q) /\ ChartWell(q)
    BY <1>2, <2>2, <2>4 DEF Loose, Basic, Typed, IsPage, Fields, MapWell, TextWell, Counted, ChartWell
  <2> QED BY <2>3, <2>5, <2>6 DEF Loose, Basic
<1> QED BY <1>1, <1>2

(* One more entry on the list, one more in the counter.                     *)
LEMMA RequestedCounts ==
  ASSUME NEW o \in Overlay(Loads), o.count = Len(o.whats), NEW k \in Loads
  PROVE  LET r == Requested(o, k)
         IN  r \in Overlay(Loads) /\ r.count = o.count + 1 /\ r.count = Len(r.whats)
<1>1. o.whats \in Seq(Loads) /\ o.count \in Nat
  BY DEF Overlay
<1>2. Append(o.whats, k) \in Seq(Loads) /\ Len(Append(o.whats, k)) = Len(o.whats) + 1
  BY <1>1
<1> QED BY <1>1, <1>2 DEF Requested, Overlay

(* A request that leaves the page well when the segments have somewhere to go. *)
LEMMA RequestSound ==
  ASSUME NEW p, Loose(p), NEW k \in Loads, k = "segments" => "map" \in p.known
  PROVE  LET q == Request(p, k)
         IN  /\ Loose(q) /\ q.known = p.known /\ Shows(q) = Shows(p) /\ q.thrown = p.thrown
             /\ q.drawn = p.drawn
             /\ q.underway = [p.underway EXCEPT ![k] = @ + 1]
             /\ q.load = Requested(p.load, k)
<1>1. PICK o, u : o = Requested(p.load, k) /\ u = [p.underway EXCEPT ![k] = @ + 1]
  OBVIOUS
<1>2. PICK q : q = [p EXCEPT !.load = o, !.underway = u]
  OBVIOUS
<1>3. Request(p, k) = q
  <2>1. IsPage(p)
    BY DEF Loose, Basic, Typed
  <2> QED BY <1>1, <1>2, <2>1 DEF Request, IsPage, Fields
<1>4. /\ p.underway \in [Loads -> Nat] /\ p.load \in Overlay(Loads)
      /\ p.load.count = Len(p.load.whats)
      /\ p.load.count \in Nat
  BY DEF Loose, Basic, Typed, Counted, Overlay
<1>5. o \in Overlay(Loads) /\ o.count = p.load.count + 1 /\ o.count = Len(o.whats)
  BY <1>1, <1>4, RequestedCounts
<1>6. u \in [Loads -> Nat]
  BY <1>1, <1>4
<1>7. /\ \A l \in Loads : p.underway[l] \in Nat /\ u[l] = IF l = k THEN p.underway[l] + 1 ELSE p.underway[l]
      /\ "analysis" \in Loads /\ "log" \in Loads /\ "segments" \in Loads
      /\ k = "analysis" \/ k = "log" \/ k = "segments"
  BY <1>1, <1>4 DEF Loads
<1>8. u["analysis"] + u["log"] + u["segments"]
        = p.underway["analysis"] + p.underway["log"] + p.underway["segments"] + 1
  <2>1. CASE k = "analysis"
    BY <1>7, <2>1
  <2>2. CASE k = "log"
    BY <1>7, <2>2
  <2>3. CASE k = "segments"
    BY <1>7, <2>3
  <2> QED BY <1>7, <2>1, <2>2, <2>3
<1>9. u["segments"] > 0 => p.underway["segments"] > 0 \/ k = "segments"
  BY <1>7
<1>10. /\ IsPage(q) /\ q.load = o /\ q.underway = u /\ q.known = p.known /\ Shows(q) = Shows(p)
       /\ q.thrown = p.thrown /\ q.map = p.map /\ OnMap(q) = OnMap(p) /\ q.step = p.step
       /\ q.segments = p.segments /\ q.bar = p.bar /\ q.drawn = p.drawn
  BY <1>2 DEF Loose, Basic, Typed, IsPage, Fields, Shows, OnMap
<1>11. Typed(q)
  BY <1>2, <1>5, <1>6 DEF Loose, Basic, Typed, IsPage, Fields
<1>12. ChartWell(q)
  BY <1>2 DEF Loose, Basic, Typed, IsPage, Fields, ChartWell
<1>13. Counted(q)
  <2>1. p.underway["analysis"] + p.underway["log"] + p.underway["segments"] <= p.load.count
    BY DEF Loose, Basic, Counted
  <2> QED BY <1>4, <1>5, <1>7, <1>8, <1>10, <2>1 DEF Counted
<1>14. MapWell(q)
  BY <1>9, <1>10 DEF Loose, Basic, MapWell, TextWell, OnMap
<1> QED BY <1>1, <1>3, <1>10, <1>11, <1>12, <1>13, <1>14 DEF Loose, Basic

(* The map takes its data and asks for the segments.                        *)
LEMMA MapDataSound ==
  ASSUME NEW p, Loose(p)
  PROVE  LET q == MapData(p)
         IN  /\ Loose(q) /\ q.known = p.known \cup {"map"} /\ Shows(q) = Shows(p)
             /\ q.thrown = p.thrown /\ q.drawn = p.drawn
             /\ q.underway = [p.underway EXCEPT !["segments"] = @ + 1]
<1>1. PICK a : a = [p EXCEPT !.known = @ \cup {"map"}]
  OBVIOUS
<1>2. /\ IsPage(a) /\ a.known = p.known \cup {"map"} /\ Shows(a) = Shows(p) /\ a.thrown = p.thrown
      /\ a.underway = p.underway /\ a.load = p.load /\ a.drawn = p.drawn /\ Typed(a)
  BY <1>1 DEF Loose, Basic, Typed, IsPage, Fields, Shows
<1>3. MapWell(a) /\ Counted(a) /\ ChartWell(a)
  BY <1>1 DEF Loose, Basic, Typed, IsPage, Fields, MapWell, TextWell, Counted, ChartWell
<1>4. Loose(a)
  BY <1>2, <1>3 DEF Loose, Basic
<1>5. PICK b : b = MapRedraw(a)
  OBVIOUS
<1>6. Loose(b) /\ Kept(a, b) /\ Shows(b) = Shows(a) /\ b.thrown = a.thrown
  BY <1>4, <1>5, MapRedrawSound
<1>7. PICK c : c = Request(b, "segments")
  OBVIOUS
<1>8. /\ Loose(c) /\ c.known = b.known /\ Shows(c) = Shows(b) /\ c.thrown = b.thrown
      /\ c.drawn = b.drawn
      /\ c.underway = [b.underway EXCEPT !["segments"] = @ + 1]
  <2>1. "map" \in b.known /\ "segments" \in Loads
    BY <1>2, <1>6 DEF Kept, Loads
  <2> QED BY <1>6, <1>7, <2>1, RequestSound
<1>9. PICK d : d = MapRedraw(c)
  OBVIOUS
<1>10. Loose(d) /\ Kept(c, d) /\ Shows(d) = Shows(c) /\ d.thrown = c.thrown
  BY <1>8, <1>9, MapRedrawSound
<1>11. MapData(p) = d
  BY <1>1, <1>5, <1>7, <1>9 DEF MapData
<1> QED BY <1>2, <1>6, <1>8, <1>10, <1>11 DEF Kept

(* What the map and the diagram leave alone keeps the chart as it should be. *)
LEMMA SameShown ==
  ASSUME NEW p, NEW q, Sound(p), Loose(q), Shows(q) = Shows(p),
         "chart" \in q.known => "chart" \in p.known
  PROVE  Synced(q) /\ Lines(q) /\ Savings(q)
<1>1. /\ q.section = p.section /\ q.chart = p.chart /\ q.data = p.data /\ q.form = p.form
      /\ q.params = p.params /\ q.savings = p.savings /\ q.label = p.label
  BY DEF Shows
<1> QED BY <1>1 DEF Sound, Synced, Lines, Savings

(* A loose page that shows what a sound one shows is sound.                 *)
LEMMA KeptSound ==
  ASSUME NEW p, NEW q, Sound(p), Loose(q), Shows(q) = Shows(p), Kept(p, q)
  PROVE  Sound(q)
<1>1. q.known = p.known /\ q.drawn = p.drawn
  BY DEF Kept
<1>2. Loaded(q)
  BY <1>1 DEF Sound, Loaded
<1>3. Synced(q) /\ Lines(q) /\ Savings(q)
  BY <1>1, SameShown
<1> QED BY <1>2, <1>3 DEF Sound

-----------------------------------------------------------------------------
(* The diagram.                                                             *)

(* The diagram is drawn again, or not, and loses its line and its bar.      *)
LEMMA TsdRedrawSound ==
  ASSUME analysis \in Analyses, NEW p, Loose(p)
  PROVE  LET q == TsdRedraw(p)
         IN  /\ Loose(q) /\ q.known = p.known /\ q.underway = p.underway /\ q.load = p.load
             /\ Shows(q) = Shows(p)
             /\ q.drawn => p.drawn \/ ("tsd" \in p.known /\ analysis.sections > 0)
             /\ "tsd" \in p.known /\ analysis.sections > 0 => q.thrown = p.thrown
             /\ ~q.thrown => "tsd" \in p.known /\ analysis.sections > 0
             /\ "tsd" \in p.known => q.cross = None /\ q.bar = None
<1>1. CASE "tsd" \notin p.known
  <2>1. TsdRedraw(p) = Thrown(p)
    BY <1>1 DEF TsdRedraw
  <2>2. Thrown(p).thrown = TRUE
    BY DEF Thrown, Loose, Basic, Typed, IsPage, Fields
  <2> QED BY <1>1, <2>1, <2>2, ThrownSound DEF Kept
<1>2. CASE "tsd" \in p.known /\ analysis.sections = 0
  <2>1. PICK q : q = [p EXCEPT !.drawn = FALSE, !.cross = None, !.bar = None]
    OBVIOUS
  <2>2. /\ Typed(q) /\ q.known = p.known /\ q.underway = p.underway /\ q.load = p.load
        /\ Shows(q) = Shows(p) /\ q.drawn = FALSE /\ q.cross = None /\ q.bar = None
    BY <2>1 DEF Loose, Basic, Typed, IsPage, Fields, Shows
  <2>3. MapWell(q) /\ Counted(q) /\ ChartWell(q)
    BY <2>1 DEF Loose, Basic, Typed, IsPage, Fields, MapWell, TextWell, Counted, ChartWell
  <2>4. Loose(q)
    BY <2>2, <2>3 DEF Loose, Basic
  <2>5. TsdRedraw(p) = Thrown(q)
    BY <1>2, <2>1 DEF TsdRedraw
  <2>6. Thrown(q).cross = q.cross /\ Thrown(q).bar = q.bar /\ Thrown(q).thrown = TRUE
    BY <2>2 DEF Thrown, Typed, IsPage, Fields
  <2> QED BY <1>2, <2>2, <2>4, <2>5, <2>6, ThrownSound DEF Kept
<1>3. CASE "tsd" \in p.known /\ analysis.sections # 0
  <2>1. analysis.sections > 0
    BY <1>3 DEF AnalysisType
  <2>2. PICK q : q = [p EXCEPT !.drawn = TRUE, !.cross = None, !.bar = None]
    OBVIOUS
  <2>3. /\ Typed(q) /\ q.known = p.known /\ q.underway = p.underway /\ q.load = p.load
        /\ Shows(q) = Shows(p) /\ q.cross = None /\ q.bar = None /\ q.thrown = p.thrown
    BY <2>2 DEF Loose, Basic, Typed, IsPage, Fields, Shows
  <2>4. MapWell(q) /\ Counted(q) /\ ChartWell(q)
    BY <2>2 DEF Loose, Basic, Typed, IsPage, Fields, MapWell, TextWell, Counted, ChartWell
  <2>5. TsdRedraw(p) = q
    <3>1. PICK r : r = [p EXCEPT !.drawn = FALSE, !.cross = None, !.bar = None]
      OBVIOUS
    <3>2. TsdRedraw(p) = [r EXCEPT !.drawn = TRUE]
      BY <1>3, <3>1, Zenon DEF TsdRedraw
    <3>3. [r EXCEPT !.drawn = TRUE] = q
      BY <2>2, <3>1 DEF Loose, Basic, Typed, IsPage, Fields
    <3> QED BY <3>2, <3>3
  <2> QED BY <1>3, <2>1, <2>3, <2>4, <2>5 DEF Loose, Basic
<1> QED BY <1>1, <1>2, <1>3

(* A page that was loaded stays sound when the diagram is drawn again.      *)
LEMMA TsdRedrawLoaded ==
  ASSUME analysis \in Analyses, NEW p, Sound(p)
  PROVE  LET q == TsdRedraw(p)
         IN  /\ Sound(q) /\ q.known = p.known /\ q.underway = p.underway /\ q.load = p.load
             /\ ~q.thrown => "tsd" \in p.known
<1>1. PICK q : q = TsdRedraw(p)
  OBVIOUS
<1>2. /\ Loose(q) /\ q.known = p.known /\ q.underway = p.underway /\ q.load = p.load
      /\ Shows(q) = Shows(p) /\ (~q.thrown => "tsd" \in p.known)
      /\ (q.drawn => p.drawn \/ ("tsd" \in p.known /\ analysis.sections > 0))
  BY <1>1, TsdRedrawSound DEF Sound
<1>3. Loaded(q)
  BY <1>2 DEF Sound, Loaded
<1>4. Synced(q) /\ Lines(q) /\ Savings(q)
  BY <1>2, SameShown
<1> QED BY <1>1, <1>2, <1>3, <1>4 DEF Sound

-----------------------------------------------------------------------------
(* The row of delays.                                                       *)

(* Only a number stays a number when it is multiplied.                      *)
LEMMA RefactoredType ==
  ASSUME NEW c \in Cell, NEW f \in Nat
  PROVE  /\ Refactored(c, f) \in Cell
         /\ c.shows # "number" => Refactored(c, f).shows # "number"
<1>1. CASE c.shows # "number"
  <2>1. Refactored(c, f) = [shows |-> "NaN", times |-> Compound]
    BY <1>1 DEF Refactored
  <2> QED BY <2>1 DEF Cell, Compound
<1>2. CASE c.shows = "number"
  <2>1. PICK t : t = IF f = 1 THEN c.times ELSE IF c.times = 1 THEN f ELSE Compound
    OBVIOUS
  <2>2. Refactored(c, f) = [c EXCEPT !.times = t]
    BY <1>2, <2>1 DEF Refactored, Cell
  <2>3. t \in Nat
    BY <2>1 DEF Cell, Compound
  <2> QED BY <1>2, <2>2, <2>3 DEF Cell
<1> QED BY <1>1, <1>2

(* The factor is the value of time or one, and never zero.                  *)
LEMMA FactorType ==
  ASSUME NEW p, Typed(p)
  PROVE  /\ Factor(p.params) \in Nat \ {0}
         /\ Factor(p.params) = IF p.params.unit = "usd" THEN p.params.vot ELSE 1
         /\ p.params.unit \in {"vehhr", "usd"}
<1>1. p.params.vot \in Nat \ {0} /\ p.params.unit \in {"vehhr", "usd"}
  <2>1. p.params \in Form
    BY DEF Typed
  <2>2. p.params.vot \in Values \cup {13} /\ p.params.unit \in {"vehhr", "usd"}
    BY <2>1 DEF Form
  <2>3. Values \cup {13} \subseteq Nat \ {0}
    OBVIOUS
  <2> QED BY <2>2, <2>3
<1> QED BY <1>1 DEF Factor

(* Hours in the unit of the form.                                           *)
LEMMA RefactoredHours ==
  ASSUME NEW f \in Nat \ {0}
  PROVE  Refactored(Hours, f) = [shows |-> "number", times |-> f] /\ Hours \in Cell
<1>1. Hours.shows = "number" /\ Hours.times = 1 /\ Hours \in Cell
  BY DEF Hours, Cell
<1>2. Refactored(Hours, f) = [Hours EXCEPT !.times = f]
  BY <1>1 DEF Refactored
<1> QED BY <1>1, <1>2 DEF Hours

(* The unit is changed, the lines are not.                                  *)
LEMMA UpdateStatsUnitSound ==
  ASSUME NEW p, Loose(p)
  PROVE  LET q == UpdateStatsUnit(p)
         IN  /\ Loose(q) /\ Kept(p, q) /\ q.thrown = p.thrown
             /\ q.section = p.section /\ q.chart = p.chart /\ q.data = p.data
             /\ q.form = p.form /\ q.params = p.params
<1>1. PICK l, n, s : /\ l = IF p.params.unit = "usd" THEN "$" ELSE "veh-h"
                     /\ n = Refactored(p.net, Factor(p.params))
                     /\ s = Refactored(p.savings, Factor(p.params))
  OBVIOUS
<1>2. PICK q : q = [p EXCEPT !.label = l, !.net = n, !.savings = s]
  OBVIOUS
<1>3. UpdateStatsUnit(p) = q
  <2>1. IsPage(p)
    BY DEF Loose, Basic, Typed
  <2> QED BY <1>1, <1>2, <2>1 DEF UpdateStatsUnit, IsPage, Fields
<1>4. l \in {"veh-h", "$"} /\ n \in Cell /\ s \in Cell
        /\ (p.savings.shows # "number" => s.shows # "number")
  <2>1. p.net \in Cell /\ p.savings \in Cell /\ Factor(p.params) \in Nat
    BY FactorType DEF Loose, Basic, Typed
  <2> QED BY <1>1, <2>1, RefactoredType
<1>5. /\ Typed(q) /\ Kept(p, q) /\ q.thrown = p.thrown
      /\ q.section = p.section /\ q.chart = p.chart /\ q.data = p.data
      /\ q.form = p.form /\ q.params = p.params
  BY <1>2, <1>4 DEF Loose, Basic, Typed, IsPage, Fields, Kept
<1>6. MapWell(q) /\ Counted(q)
  BY <1>2 DEF Loose, Basic, Typed, IsPage, Fields, MapWell, TextWell, Counted
<1>7. ChartWell(q)
  <2>1. /\ q.savings = s /\ q.known = p.known /\ q.selected = p.selected /\ q.cross = p.cross
    BY <1>2 DEF Loose, Basic, Typed, IsPage, Fields
  <2> QED BY <1>4, <1>5, <2>1 DEF Loose, ChartWell
<1> QED BY <1>3, <1>5, <1>6, <1>7 DEF Loose, Basic

(* With lines there, the delays are written anew and in the unit of the form. *)
LEMMA UpdateStatsSound ==
  ASSUME NEW p, Loose(p), Loaded(p), Synced(p), Lines(p)
  PROVE  LET q == UpdateStats(p)
         IN  /\ Sound(q) /\ Kept(p, q) /\ q.thrown = p.thrown
             /\ q.data = p.data /\ q.section = p.section
<1>1. CASE p.data = None
  <2>1. UpdateStats(p) = p
    BY <1>1 DEF UpdateStats
  <2>2. Savings(p)
    BY <1>1 DEF Loose, ChartWell, Savings
  <2> QED BY <2>1, <2>2 DEF Sound, Kept
<1>2. CASE p.data # None
  <2>1. PICK a : a = [p EXCEPT !.net = Hours, !.savings = Hours]
    OBVIOUS
  <2>2. /\ Typed(a) /\ Kept(p, a) /\ a.thrown = p.thrown /\ a.savings = Hours
        /\ a.section = p.section /\ a.chart = p.chart /\ a.data = p.data
        /\ a.form = p.form /\ a.params = p.params
    <3>1. Hours \in Cell
      BY DEF Hours, Cell
    <3> QED BY <2>1, <3>1 DEF Loose, Basic, Typed, IsPage, Fields, Kept
  <2>3. MapWell(a) /\ Counted(a) /\ ChartWell(a)
    BY <1>2, <2>1 DEF Loose, Basic, Typed, IsPage, Fields, MapWell, TextWell, Counted, ChartWell
  <2>4. Loose(a)
    BY <2>2, <2>3 DEF Loose, Basic
  <2>5. PICK q : q = UpdateStatsUnit(a)
    OBVIOUS
  <2>6. /\ Loose(q) /\ Kept(a, q) /\ q.thrown = a.thrown
        /\ q.section = a.section /\ q.chart = a.chart /\ q.data = a.data
        /\ q.form = a.form /\ q.params = a.params
    BY <2>4, <2>5, UpdateStatsUnitSound
  <2>7. /\ q.label = IF a.params.unit = "usd" THEN "$" ELSE "veh-h"
        /\ q.savings = Refactored(Hours, Factor(a.params))
    <3>1. IsPage(a)
      BY <2>2 DEF Typed
    <3> QED BY <2>2, <2>5, <3>1 DEF UpdateStatsUnit, IsPage, Fields
  <2>8. q.savings.times = (IF a.params.unit = "usd" THEN a.params.vot ELSE 1)
    <3>1. Factor(a.params) \in Nat \ {0}
          /\ Factor(a.params) = IF a.params.unit = "usd" THEN a.params.vot ELSE 1
      BY <2>2, FactorType
    <3>2. q.savings = [shows |-> "number", times |-> Factor(a.params)]
      BY <2>7, <3>1, RefactoredHours
    <3> QED BY <3>1, <3>2
  <2>9. q.params = q.form
    <3>1. "chart" \in p.known
      BY <1>2 DEF Loose, ChartWell
    <3> QED BY <2>2, <2>6, <3>1 DEF Synced
  <2>10. Savings(q)
    <3>1. q.label = IF q.params.unit = "usd" THEN "$" ELSE "veh-h"
      BY <2>6, <2>7
    <3>2. q.savings.times = IF q.params.unit = "usd" THEN q.params.vot ELSE 1
      BY <2>6, <2>8
    <3>3. (q.label = "$") <=> (q.params.unit = "usd")
      BY <3>1
    <3>4. q.form.vot = q.params.vot
      BY <2>9
    <3> QED BY <3>2, <3>3, <3>4 DEF Savings
  <2>11. Kept(p, q) /\ q.thrown = p.thrown /\ q.data = p.data /\ q.section = p.section
    BY <2>2, <2>6 DEF Kept
  <2>12. Loaded(q) /\ Synced(q) /\ Lines(q)
    <3>1. q.known = p.known /\ q.drawn = p.drawn /\ q.form = p.form /\ q.params = p.params
          /\ q.chart = p.chart
      BY <2>2, <2>6, <2>11 DEF Kept
    <3> QED BY <2>11, <3>1 DEF Loaded, Synced, Lines
  <2>13. UpdateStats(p) = q
    BY <1>2, <2>1, <2>5 DEF UpdateStats
  <2> QED BY <2>6, <2>10, <2>11, <2>12, <2>13 DEF Sound
<1> QED BY <1>1, <1>2

(* The page's own stats leave the savings alone.                            *)
LEMMA PageStatsSound ==
  ASSUME NEW p, Sound(p)
  PROVE  LET q == PageStats(p) IN Sound(q) /\ Kept(p, q) /\ q.thrown = p.thrown
<1>1. CASE analysis.bad
  BY <1>1 DEF PageStats, Kept
<1>2. CASE ~analysis.bad
  <2>1. PICK q : q = [p EXCEPT !.net = Hours]
    OBVIOUS
  <2>2. Typed(q) /\ Kept(p, q) /\ Shows(q) = Shows(p) /\ q.thrown = p.thrown
    <3>1. Hours \in Cell
      BY DEF Hours, Cell
    <3> QED BY <2>1, <3>1 DEF Sound, Loose, Basic, Typed, IsPage, Fields, Kept, Shows
  <2>3. MapWell(q) /\ Counted(q) /\ ChartWell(q)
    BY <2>1 DEF Sound, Loose, Basic, Typed, IsPage, Fields, MapWell, TextWell, Counted, ChartWell
  <2>4. Sound(q)
    BY <2>2, <2>3, KeptSound DEF Loose, Basic
  <2> QED BY <1>2, <2>1, <2>2, <2>4 DEF PageStats
<1> QED BY <1>1, <1>2

-----------------------------------------------------------------------------
(* The chart.                                                               *)

(* What is known of the analysis.                                           *)
LEMMA AnalysisTyped ==
  ASSUME analysis \in Analyses
  PROVE  /\ analysis.sections \in Nat /\ analysis.sec \in Nat /\ analysis.bad \in BOOLEAN
         /\ analysis.times \in {"known", "missing", "nostart", "unclear"}
         /\ IncidentSection \in Int
<1>1. analysis \in AnalysisType
  OBVIOUS
<1>2. /\ analysis.sections \in Nat /\ analysis.sec \in Nat /\ analysis.bad \in BOOLEAN
      /\ analysis.times \in {"known", "missing", "nostart", "unclear"}
  BY <1>1 DEF AnalysisType
<1> QED BY <1>2 DEF IncidentSection, SectionIndex

(* Without the chart nothing is selected and no lines are there.            *)
LEMMA BareSound ==
  ASSUME NEW p, Loose(p), Loaded(p), Synced(p), p.data = None
  PROVE  Sound(p)
BY DEF Sound, Loose, ChartWell, Lines, Savings

(* A chart without lines, for an analysis that cannot be drawn.             *)
LEMMA NoLinesSound ==
  ASSUME NEW p, Loose(p), Loaded(p), Synced(p), ~Draws, NEW c \in {"empty", "message"}
  PROVE  LET q == [p EXCEPT !.chart = c]
         IN  Sound(q) /\ Kept(p, q) /\ q.section = p.section /\ q.thrown = p.thrown
<1>1. PICK q : q = [p EXCEPT !.chart = c]
  OBVIOUS
<1>2. p.data = None
  BY DEF Loose, ChartWell
<1>3. /\ Typed(q) /\ Kept(p, q) /\ q.section = p.section /\ q.thrown = p.thrown /\ q.data = p.data
      /\ q.form = p.form /\ q.params = p.params
  BY <1>1 DEF Loose, Basic, Typed, IsPage, Fields, Kept
<1>4. MapWell(q) /\ Counted(q) /\ ChartWell(q)
  BY <1>1 DEF Loose, Basic, Typed, IsPage, Fields, MapWell, TextWell, Counted, ChartWell
<1>5. Loaded(q) /\ Synced(q)
  BY <1>3 DEF Kept, Loaded, Synced
<1> QED BY <1>1, <1>2, <1>3, <1>4, <1>5, BareSound DEF Loose, Basic

(* Whatever was changed before, a redraw leaves lines that are those of the *)
(* selected section and of the form, or none.                               *)
LEMMA ChartRedrawSound ==
  ASSUME analysis \in Analyses, NEW p, Loose(p), Loaded(p), Synced(p)
  PROVE  LET q == ChartRedraw(p)
         IN  Sound(q) /\ Kept(p, q) /\ q.section = p.section
<1>1. CASE "chart" \notin p.known
  <2>1. p.data = None
    BY <1>1 DEF Loose, ChartWell
  <2>2. Sound(p)
    BY <2>1, BareSound
  <2>3. ChartRedraw(p) = Thrown(p)
    BY <1>1 DEF ChartRedraw
  <2>4. Loose(Thrown(p)) /\ Kept(p, Thrown(p)) /\ Shows(Thrown(p)) = Shows(p)
    BY ThrownSound
  <2>5. Thrown(p).section = p.section
    BY <2>4 DEF Shows
  <2> QED BY <2>2, <2>3, <2>4, <2>5, KeptSound
<1>2. CASE "chart" \in p.known /\ p.section = None
  <2>1. p.data = None
    BY <1>2 DEF Loose, ChartWell
  <2> QED BY <1>2, <2>1, BareSound DEF ChartRedraw, Kept
<1>3. CASE "chart" \in p.known /\ p.section # None
  <2>1. p.section \in Nat /\ ~(p.section < 0)
    <3>1. p.section \in Int /\ p.section >= 0
      BY <1>3 DEF Loose, Basic, Typed, ChartWell, SectionOrNone
    <3> QED BY <3>1
  <2>2. CASE analysis.bad
    <3>1. ChartRedraw(p) = [p EXCEPT !.chart = "message"]
      BY <1>3, <2>2 DEF ChartRedraw
    <3>2. ~Draws
      BY <2>2 DEF Draws
    <3> QED BY <3>1, <3>2, NoLinesSound
  <2>3. CASE ~analysis.bad /\ analysis.times = "nostart"
    <3>1. ChartRedraw(p) = [p EXCEPT !.chart = "message"]
      BY <1>3, <2>1, <2>3 DEF ChartRedraw
    <3>2. ~Draws
      BY <2>3 DEF Draws
    <3> QED BY <3>1, <3>2, NoLinesSound
  <2>4. CASE ~analysis.bad /\ analysis.times # "nostart"
             /\ (IncidentSection < 0 \/ analysis.times = "unclear")
    <3>1. PICK q : q = [p EXCEPT !.chart = "empty"]
      OBVIOUS
    <3>2. ChartRedraw(p) = Thrown(q)
      BY <1>3, <2>1, <2>4, <3>1 DEF ChartRedraw
    <3>3. ~Draws
      BY <2>4, AnalysisTyped DEF Draws
    <3>4. Sound(q) /\ Kept(p, q) /\ q.section = p.section
      BY <3>1, <3>3, NoLinesSound
    <3>5. Loose(Thrown(q)) /\ Kept(q, Thrown(q)) /\ Shows(Thrown(q)) = Shows(q)
      BY <3>4, ThrownSound DEF Sound
    <3>6. Sound(Thrown(q)) /\ Thrown(q).section = q.section
      BY <3>4, <3>5, KeptSound DEF Shows
    <3> QED BY <3>2, <3>4, <3>5, <3>6 DEF Kept
  <2>5. CASE /\ ~analysis.bad /\ analysis.times # "nostart"
             /\ ~(IncidentSection < 0 \/ analysis.times = "unclear")
    <3>1. Draws
      BY <2>5, AnalysisTyped DEF Draws
    <3>2. PICK d : d = [section |-> p.section, case |-> Case(p.params)]
      OBVIOUS
    <3>3. d \in DataType /\ d # None
      <4>1. p.params.pct \in Nat /\ p.params.ver \in Nat /\ p.params.resp \in Nat
        <5>1. p.params \in Form
          BY DEF Loose, Basic, Typed
        <5>2. /\ p.params.pct \in Percents \cup {20} /\ p.params.ver \in Minutes \cup {5}
              /\ p.params.resp \in Minutes \cup {5}
          BY <5>1 DEF Form
        <5>3. Percents \cup {20} \subseteq Nat /\ Minutes \cup {5} \subseteq Nat
          OBVIOUS
        <5> QED BY <5>2, <5>3
      <4>2. d \in DataType
        BY <2>1, <3>2, <4>1 DEF DataType, Case
      <4> QED BY <4>2
    <3>4. PICK a : a = [p EXCEPT !.chart = "lines", !.data = d]
      OBVIOUS
    <3>5. /\ Typed(a) /\ Kept(p, a) /\ a.section = p.section /\ a.chart = "lines" /\ a.data = d
          /\ a.form = p.form /\ a.params = p.params
      BY <3>3, <3>4 DEF Loose, Basic, Typed, IsPage, Fields, Kept
    <3>6. MapWell(a) /\ Counted(a)
      BY <3>4 DEF Loose, Basic, Typed, IsPage, Fields, MapWell, TextWell, Counted
    <3>7. ChartWell(a)
      BY <1>3, <3>1, <3>3, <3>4 DEF Loose, Basic, Typed, IsPage, Fields, ChartWell
    <3>8. Loaded(a) /\ Synced(a)
      BY <3>5 DEF Kept, Loaded, Synced
    <3>9. Lines(a)
      <4>1. a.params = a.form
        BY <1>3, <3>5, <3>8 DEF Kept, Synced
      <4> QED BY <3>2, <3>5, <4>1 DEF Lines
    <3>10. ChartRedraw(p) = UpdateStats(a)
      BY <1>3, <2>1, <2>5, <3>2, <3>4 DEF ChartRedraw
    <3>11. PICK q : q = UpdateStats(a)
      OBVIOUS
    <3>12. Sound(q) /\ Kept(a, q) /\ q.section = a.section
      BY <3>5, <3>6, <3>7, <3>8, <3>9, <3>11, UpdateStatsSound DEF Loose, Basic
    <3> QED BY <3>5, <3>10, <3>11, <3>12 DEF Kept
  <2> QED BY <2>2, <2>3, <2>4, <2>5, AnalysisTyped
<1> QED BY <1>1, <1>2, <1>3

-----------------------------------------------------------------------------
(* The window events.                                                       *)

(* Selecting a section: the diagram takes part in it before the chart does. *)
LEMMA SelectedSectionSound ==
  ASSUME analysis \in Analyses, NEW p, Sound(p), "chart" \in p.known, p.thrown = FALSE,
         NEW k \in Int, k < 0 => p.section = None
  PROVE  LET q == SelectedSection(p, k) IN Sound(q) /\ Kept(p, q)
<1>1. CASE k < 0
  <2>1. PICK a : a = [p EXCEPT !.selected = k]
    OBVIOUS
  <2>2. /\ Typed(a) /\ Kept(p, a) /\ a.section = p.section /\ a.chart = p.chart /\ a.data = p.data
        /\ a.form = p.form /\ a.params = p.params /\ a.savings = p.savings /\ a.label = p.label
    BY <2>1 DEF Sound, Loose, Basic, Typed, IsPage, Fields, Kept, SectionOrNone
  <2>3. MapWell(a) /\ Counted(a)
    BY <2>1 DEF Sound, Loose, Basic, Typed, IsPage, Fields, MapWell, TextWell, Counted
  <2>4. ChartWell(a)
    BY <1>1, <2>1 DEF Sound, Loose, Basic, Typed, IsPage, Fields, ChartWell
  <2>5. Loaded(a) /\ Synced(a) /\ Lines(a) /\ Savings(a)
    BY <2>2 DEF Sound, Kept, Loaded, Synced, Lines, Savings
  <2>6. Sound(a)
    BY <2>2, <2>3, <2>4, <2>5 DEF Sound, Loose, Basic
  <2>7. TsdSelected(p, k) = Thrown(a)
    BY <1>1, <2>1 DEF TsdSelected
  <2>8. PICK t : t = Thrown(a)
    OBVIOUS
  <2>9. Loose(t) /\ Kept(a, t) /\ Shows(t) = Shows(a)
    BY <2>6, <2>8, ThrownSound DEF Sound
  <2>10. t.thrown = TRUE
    BY <2>2, <2>8 DEF Thrown, Typed, IsPage, Fields
  <2>11. SelectedSection(p, k) = t
    BY <2>7, <2>8, <2>10, Zenon DEF SelectedSection, Then
  <2> QED BY <2>2, <2>6, <2>9, <2>11, KeptSound DEF Kept
<1>2. CASE ~(k < 0)
  <2>1. k \in Nat
    BY <1>2
  <2>2. PICK t : t = [p EXCEPT !.selected = k, !.cross = k]
    OBVIOUS
  <2>3. PICK a : a = [p EXCEPT !.selected = k, !.cross = k, !.section = k]
    OBVIOUS
  <2>4. t.thrown = FALSE /\ a = [t EXCEPT !.section = k]
    BY <2>2, <2>3 DEF Sound, Loose, Basic, Typed, IsPage, Fields
  <2>5. TsdSelected(p, k) = t
    BY <1>2, <2>2, Zenon DEF TsdSelected
  <2>6. SelectedSection(p, k) = ChartRedraw(a)
    BY <2>4, <2>5, Zenon DEF SelectedSection, Then
  <2>7. /\ Typed(a) /\ Kept(p, a) /\ a.form = p.form /\ a.params = p.params
    BY <2>1, <2>3 DEF Sound, Loose, Basic, Typed, IsPage, Fields, Kept, SectionOrNone
  <2>8. MapWell(a) /\ Counted(a)
    BY <2>3 DEF Sound, Loose, Basic, Typed, IsPage, Fields, MapWell, TextWell, Counted
  <2>9. ChartWell(a)
    <3>1. /\ a.section = k /\ a.selected = k /\ a.cross = k /\ a.known = p.known
          /\ a.data = p.data /\ a.chart = p.chart /\ a.savings = p.savings
      BY <2>3 DEF Sound, Loose, Basic, Typed, IsPage, Fields
    <3>2. k # None /\ k >= 0
      BY <2>1
    <3> QED BY <3>1, <3>2 DEF Sound, Loose, ChartWell
  <2>10. Loaded(a) /\ Synced(a)
    BY <2>7 DEF Sound, Kept, Loaded, Synced
  <2> QED BY <2>6, <2>7, <2>8, <2>9, <2>10, ChartRedrawSound DEF Loose, Basic, Kept
<1> QED BY <1>1, <1>2

(* The legend and the panels touch nothing else.                            *)
Aside(p, q, t) == Sound(q) /\ Kept(p, q) /\ q.thrown = t

(* A field no part of the invariant but the types is about.                 *)
LEMMA AsideSound ==
  ASSUME NEW p, Sound(p), NEW q, Typed(q), Kept(p, q), Shows(q) = Shows(p),
         q.map = p.map, OnMap(q) = OnMap(p), q.step = p.step, q.segments = p.segments,
         q.bar = p.bar, q.cross = p.cross
  PROVE  Aside(p, q, q.thrown)
<1>1. MapWell(q) /\ Counted(q)
  BY DEF Sound, Loose, Basic, Kept, MapWell, TextWell, OnMap, Counted
<1>2. ChartWell(q)
  BY DEF Sound, Loose, Kept, Shows, ChartWell
<1> QED BY <1>1, <1>2, KeptSound DEF Loose, Basic, Aside

(* The legend, the panels, the resizing, the log and the exception.         *)
LEMMA FieldSound ==
  ASSUME NEW p, Sound(p)
  PROVE  /\ \A l \in BOOLEAN : Aside(p, [p EXCEPT !.legend = l], p.thrown)
         /\ \A s \in SUBSET Panels : Aside(p, [p EXCEPT !.shown = s], p.thrown)
         /\ \A r \in BOOLEAN : Aside(p, [p EXCEPT !.resizable = r], p.thrown)
         /\ \A g \in BOOLEAN : Aside(p, [p EXCEPT !.log = g], p.thrown)
         /\ \A t \in BOOLEAN : Aside(p, [p EXCEPT !.thrown = t], t)
<1>1. ASSUME NEW l \in BOOLEAN PROVE Aside(p, [p EXCEPT !.legend = l], p.thrown)
  <2>1. PICK q : q = [p EXCEPT !.legend = l]
    OBVIOUS
  <2>2. /\ Typed(q) /\ Kept(p, q) /\ Shows(q) = Shows(p) /\ q.thrown = p.thrown
        /\ q.map = p.map /\ OnMap(q) = OnMap(p) /\ q.step = p.step /\ q.segments = p.segments
        /\ q.bar = p.bar /\ q.cross = p.cross
    BY <2>1 DEF Sound, Loose, Basic, Typed, IsPage, Fields, Kept, Shows, OnMap
  <2> QED BY <2>1, <2>2, AsideSound
<1>2. ASSUME NEW s \in SUBSET Panels PROVE Aside(p, [p EXCEPT !.shown = s], p.thrown)
  <2>1. PICK q : q = [p EXCEPT !.shown = s]
    OBVIOUS
  <2>2. /\ Typed(q) /\ Kept(p, q) /\ Shows(q) = Shows(p) /\ q.thrown = p.thrown
        /\ q.map = p.map /\ OnMap(q) = OnMap(p) /\ q.step = p.step /\ q.segments = p.segments
        /\ q.bar = p.bar /\ q.cross = p.cross
    BY <2>1 DEF Sound, Loose, Basic, Typed, IsPage, Fields, Kept, Shows, OnMap
  <2> QED BY <2>1, <2>2, AsideSound
<1>3. ASSUME NEW r \in BOOLEAN PROVE Aside(p, [p EXCEPT !.resizable = r], p.thrown)
  <2>1. PICK q : q = [p EXCEPT !.resizable = r]
    OBVIOUS
  <2>2. /\ Typed(q) /\ Kept(p, q) /\ Shows(q) = Shows(p) /\ q.thrown = p.thrown
        /\ q.map = p.map /\ OnMap(q) = OnMap(p) /\ q.step = p.step /\ q.segments = p.segments
        /\ q.bar = p.bar /\ q.cross = p.cross
    BY <2>1 DEF Sound, Loose, Basic, Typed, IsPage, Fields, Kept, Shows, OnMap
  <2> QED BY <2>1, <2>2, AsideSound
<1>4. ASSUME NEW g \in BOOLEAN PROVE Aside(p, [p EXCEPT !.log = g], p.thrown)
  <2>1. PICK q : q = [p EXCEPT !.log = g]
    OBVIOUS
  <2>2. /\ Typed(q) /\ Kept(p, q) /\ Shows(q) = Shows(p) /\ q.thrown = p.thrown
        /\ q.map = p.map /\ OnMap(q) = OnMap(p) /\ q.step = p.step /\ q.segments = p.segments
        /\ q.bar = p.bar /\ q.cross = p.cross
    BY <2>1 DEF Sound, Loose, Basic, Typed, IsPage, Fields, Kept, Shows, OnMap
  <2> QED BY <2>1, <2>2, AsideSound
<1>5. ASSUME NEW t \in BOOLEAN PROVE Aside(p, [p EXCEPT !.thrown = t], t)
  <2>1. PICK q : q = [p EXCEPT !.thrown = t]
    OBVIOUS
  <2>2. /\ Typed(q) /\ Kept(p, q) /\ Shows(q) = Shows(p) /\ q.thrown = t
        /\ q.map = p.map /\ OnMap(q) = OnMap(p) /\ q.step = p.step /\ q.segments = p.segments
        /\ q.bar = p.bar /\ q.cross = p.cross
    BY <2>1 DEF Sound, Loose, Basic, Typed, IsPage, Fields, Kept, Shows, OnMap
  <2> QED BY <2>1, <2>2, AsideSound
<1> QED BY <1>1, <1>2, <1>3, <1>4, <1>5

(* The event paramsChanged makes a page sound whose form is ahead of it.    *)
LEMMA ParamsChangedSound ==
  ASSUME analysis \in Analyses, NEW p, Loose(p), Loaded(p)
  PROVE  LET q == ParamsChanged(p) IN Sound(q) /\ Kept(p, q)
<1>1. PICK a : a = [p EXCEPT !.params = p.form]
  OBVIOUS
<1>2. Typed(a) /\ Kept(p, a) /\ a.params = a.form
  BY <1>1 DEF Loose, Basic, Typed, IsPage, Fields, Kept
<1>3. MapWell(a) /\ Counted(a) /\ ChartWell(a)
  BY <1>1 DEF Loose, Basic, Typed, IsPage, Fields, MapWell, TextWell, Counted, ChartWell
<1>4. Loaded(a) /\ Synced(a)
  BY <1>2 DEF Kept, Loaded, Synced
<1>5. PICK b : b = ChartRedraw(a)
  OBVIOUS
<1>6. Sound(b) /\ Kept(a, b)
  BY <1>2, <1>3, <1>4, <1>5, ChartRedrawSound DEF Loose, Basic
<1>7. PICK c : c = ChartParams(p)
  OBVIOUS
<1>8. Sound(c) /\ Kept(b, c)
  <2>1. c = IF b.thrown THEN b ELSE UpdateStats(b)
    BY <1>1, <1>5, <1>7, Zenon DEF ChartParams, Then
  <2>2. Kept(b, b)
    BY DEF Kept
  <2>3. Sound(UpdateStats(b)) /\ Kept(b, UpdateStats(b))
    BY <1>6, UpdateStatsSound DEF Sound
  <2> QED BY <1>6, <2>1, <2>2, <2>3
<1>9. PICK q : q = ParamsChanged(p)
  OBVIOUS
<1>10. Sound(q) /\ Kept(c, q)
  <2>1. q = IF c.thrown THEN c ELSE [c EXCEPT !.legend = c.map # "none"]
    BY <1>7, <1>9, Zenon DEF ParamsChanged, Then
  <2>2. PICK l : l = (c.map # "none")
    OBVIOUS
  <2>3. l \in BOOLEAN
    BY <2>2
  <2>4. Sound([c EXCEPT !.legend = l]) /\ Kept(c, [c EXCEPT !.legend = l])
    BY <1>8, <2>3, FieldSound DEF Aside
  <2>5. Kept(c, c)
    BY DEF Kept
  <2> QED BY <1>8, <2>1, <2>2, <2>4, <2>5, Zenon
<1> QED BY <1>2, <1>6, <1>8, <1>9, <1>10 DEF Kept

(* The page selects the section of the incident, once.                      *)
LEMMA UpdateViewsSound ==
  ASSUME analysis \in Analyses, NEW p, Sound(p), "chart" \in p.known, p.thrown = FALSE
  PROVE  LET q == UpdateViews(p) IN Sound(q) /\ Kept(p, q)
<1>1. PICK k : k = IF p.section = None THEN IncidentSection ELSE p.section
  OBVIOUS
<1>2. k \in Int /\ (k < 0 => p.section = None)
  <2>1. p.section # None => p.section \in Int /\ p.section >= 0
    BY DEF Sound, Loose, Basic, Typed, ChartWell, SectionOrNone
  <2>2. IncidentSection \in Int
    BY AnalysisTyped
  <2> QED BY <1>1, <2>1, <2>2
<1>3. PICK a : a = SelectedSection(p, k)
  OBVIOUS
<1>4. Sound(a) /\ Kept(p, a)
  BY <1>2, <1>3, SelectedSectionSound
<1>5. PICK b : b = PageStats(a)
  OBVIOUS
<1>6. Sound(b) /\ Kept(a, b)
  BY <1>4, <1>5, PageStatsSound
<1>7. PICK c : c = [b EXCEPT !.resizable = TRUE]
  OBVIOUS
<1>8. Sound(c) /\ Kept(b, c)
  BY <1>6, <1>7, FieldSound DEF Aside
<1>9. UpdateViews(p) = IF a.thrown THEN a ELSE c
  BY <1>1, <1>3, <1>5, <1>7, Zenon DEF UpdateViews, Then
<1>10. Kept(p, c)
  BY <1>4, <1>6, <1>8 DEF Kept
<1> QED BY <1>4, <1>8, <1>9, <1>10

(* The event analysisLoaded on a page that has nothing yet: the form is passed *)
(* on before a section is selected, whatever the user moved in the meantime. *)
LEMMA AnalysisLoadedSound ==
  ASSUME analysis \in Analyses, NEW p, Sound(p), p.known = {}, p.thrown = FALSE
  PROVE  LET q == AnalysisLoaded(p)
         IN  Sound(q) /\ q.underway["analysis"] = p.underway["analysis"]
<1>0. /\ p.underway \in [Loads -> Nat] /\ p.data = None /\ p.drawn = FALSE /\ p.section = None
      /\ "analysis" \in Loads
  BY DEF Sound, Loose, Basic, Typed, ChartWell, Loaded, Loads
<1>1. PICK a : a = [p EXCEPT !.known = @ \cup {"tsd"}]
  OBVIOUS
<1>2. /\ Typed(a) /\ Shows(a) = Shows(p) /\ a.known = {"tsd"} /\ a.thrown = FALSE /\ a.drawn = FALSE
      /\ a.underway = p.underway
  BY <1>0, <1>1 DEF Sound, Loose, Basic, Typed, IsPage, Fields, Shows
<1>3. MapWell(a) /\ Counted(a) /\ ChartWell(a)
  BY <1>1 DEF Sound, Loose, Basic, Typed, IsPage, Fields, MapWell, TextWell, Counted, ChartWell
<1>4. PICK b : b = TsdRedraw(a)
  OBVIOUS
<1>5. /\ Loose(b) /\ b.known = {"tsd"} /\ b.underway = p.underway /\ Shows(b) = Shows(a)
      /\ (b.drawn => analysis.sections > 0) /\ (analysis.sections > 0 => b.thrown = FALSE)
      /\ (b.thrown = FALSE => analysis.sections > 0)
  BY <1>2, <1>3, <1>4, TsdRedrawSound DEF Loose, Basic
<1>6. b.data = None
  BY <1>0, <1>2, <1>5 DEF Shows
<1>7. b.thrown \in BOOLEAN
  BY <1>5 DEF Loose, Basic, Typed
<1>8. CASE b.thrown
  <2>1. AnalysisLoaded(p) = b
    BY <1>1, <1>4, <1>8, Zenon DEF AnalysisLoaded, TsdData, Then
  <2>2. ~(analysis.sections > 0)
    BY <1>5, <1>8
  <2>3. Loaded(b) /\ Synced(b)
    BY <1>5, <2>2 DEF Loaded, Synced
  <2> QED BY <1>5, <1>6, <2>1, <2>3, BareSound
<1>9. CASE ~b.thrown
  <2>1. analysis.sections > 0
    BY <1>5, <1>7, <1>9
  <2>2. PICK c : c = IF analysis.times = "unclear" THEN b ELSE ActiveTimestep(b, T2Step)
    OBVIOUS
  <2>3. Loose(c) /\ c.known = {"tsd"} /\ c.underway = p.underway /\ c.data = None /\ c.thrown = FALSE
    <3>1. CASE analysis.times = "unclear"
      BY <1>5, <1>6, <1>7, <1>9, <2>2, <3>1
    <3>2. CASE analysis.times # "unclear"
      <4>1. c = ActiveTimestep(b, T2Step)
        BY <2>2, <3>2
      <4>2. Loose(c) /\ Kept(b, c) /\ Shows(c) = Shows(b) /\ c.thrown = b.thrown
        BY <1>5, <4>1, ActiveTimestepSound
      <4> QED BY <1>5, <1>6, <1>7, <1>9, <4>2 DEF Kept, Shows
    <3> QED BY <3>1, <3>2
  <2>4. PICK d : d = [c EXCEPT !.known = @ \cup {"chart"}]
    OBVIOUS
  <2>5. Typed(d) /\ d.known = {"tsd", "chart"} /\ d.underway = p.underway /\ d.data = None
          /\ d.thrown = FALSE
    BY <2>3, <2>4 DEF Loose, Basic, Typed, IsPage, Fields
  <2>6. MapWell(d) /\ Counted(d) /\ ChartWell(d)
    BY <2>1, <2>3, <2>4 DEF Loose, Basic, Typed, IsPage, Fields, MapWell, TextWell, Counted, ChartWell
  <2>7. ChartData(c) = d
    BY <2>4, <2>5, Zenon DEF ChartData, UpdateStats
  <2>8. PICK e : e = MapData(d)
    OBVIOUS
  <2>9. /\ Loose(e) /\ e.known = {"tsd", "chart", "map"} /\ e.thrown = FALSE
        /\ e.underway["analysis"] = p.underway["analysis"]
    <3>1. /\ Loose(e) /\ e.known = d.known \cup {"map"} /\ e.thrown = d.thrown
          /\ e.underway = [d.underway EXCEPT !["segments"] = @ + 1]
      BY <2>5, <2>6, <2>8, MapDataSound DEF Loose, Basic
    <3>2. e.underway["analysis"] = p.underway["analysis"]
      BY <1>0, <2>5, <3>1
    <3> QED BY <2>5, <3>1, <3>2
  <2>10. PICK f : f = ParamsChanged(e)
    OBVIOUS
  <2>11. Sound(f) /\ Kept(e, f)
    <3>1. Loaded(e)
      BY <2>9 DEF Loaded
    <3> QED BY <2>9, <2>10, <3>1, ParamsChangedSound
  <2>12. PICK g : g = WithDefaultDelays(f)
    OBVIOUS
  <2>13. Loose(g) /\ Loaded(g) /\ Kept(f, g)
    <3>1. PICK w : w = [f.form EXCEPT !.ver = DefaultMinutes, !.resp = DefaultMinutes]
      OBVIOUS
    <3>2. w \in Form
      <4>1. f.form \in Form
        BY <2>11 DEF Sound, Loose, Basic, Typed
      <4>2. DefaultMinutes \in Minutes \cup {5}
        OBVIOUS
      <4> HIDE DEF DefaultMinutes
      <4> QED BY <3>1, <4>1, <4>2 DEF Form
    <3>3. g = [f EXCEPT !.form = w]
      <4>1. IsPage(f) /\ f.form \in Form
        BY <2>11 DEF Sound, Loose, Basic, Typed
      <4> QED BY <2>12, <3>1, <4>1 DEF WithDefaultDelays, IsPage, Fields, Form
    <3>4. Typed(g) /\ Kept(f, g)
      BY <2>11, <3>2, <3>3 DEF Sound, Loose, Basic, Typed, IsPage, Fields, Kept
    <3>5. MapWell(g) /\ Counted(g) /\ ChartWell(g)
      BY <2>11, <3>3 DEF Sound, Loose, Basic, Typed, IsPage, Fields, MapWell, TextWell, Counted, ChartWell
    <3>6. Loaded(g)
      BY <2>11, <3>4 DEF Sound, Kept, Loaded
    <3> QED BY <3>4, <3>5, <3>6 DEF Loose, Basic
  <2>14. PICK r : r = IF f.thrown THEN f ELSE ParamsChanged(g)
    OBVIOUS
  <2>15. Sound(r) /\ Kept(e, r)
    <3>1. Sound(ParamsChanged(g)) /\ Kept(g, ParamsChanged(g))
      BY <2>13, ParamsChangedSound
    <3>2. Kept(e, ParamsChanged(g))
      BY <2>11, <2>13, <3>1 DEF Kept
    <3> QED BY <2>11, <2>14, <3>1, <3>2
  <2>16. PICK s : s = IF r.thrown THEN r ELSE UpdateViews(r)
    OBVIOUS
  <2>17. Sound(s) /\ Kept(e, s)
    <3>1. CASE r.thrown
      BY <2>15, <2>16, <3>1
    <3>2. CASE ~r.thrown
      <4>1. r.thrown = FALSE /\ "chart" \in r.known
        BY <2>9, <2>15, <3>2 DEF Sound, Loose, Basic, Typed, Kept
      <4>2. Sound(UpdateViews(r)) /\ Kept(r, UpdateViews(r))
        BY <2>15, <4>1, UpdateViewsSound
      <4> QED BY <2>15, <2>16, <3>2, <4>2 DEF Kept
    <3> QED BY <3>1, <3>2
  <2>18. AnalysisLoaded(p) = s
    <3>1. TsdData(p) = c
      BY <1>1, <1>4, <1>9, <2>2, Zenon DEF TsdData, Then
    <3>2. Then(Then(TsdData(p), ChartData), MapData) = e
      BY <2>3, <2>5, <2>7, <2>8, <3>1, Zenon DEF Then
    <3>3. Then(Then(e, ParamsChanged), LAMBDA x : ParamsChanged(WithDefaultDelays(x))) = r
      BY <2>9, <2>10, <2>12, <2>14, Zenon DEF Then
    <3>4. Then(r, UpdateViews) = s
      BY <2>16, Zenon DEF Then
    <3> QED BY <3>2, <3>3, <3>4, Zenon DEF AnalysisLoaded
  <2>19. s.underway["analysis"] = p.underway["analysis"]
    BY <2>9, <2>17 DEF Kept
  <2> QED BY <2>17, <2>18, <2>19
<1> QED BY <1>8, <1>9

-----------------------------------------------------------------------------
(* Callbacks.                                                               *)

(* One entry less on the list, one less in the counter.                     *)
LEMMA FinishedCounts ==
  ASSUME NEW o \in Overlay(Loads), o.count = Len(o.whats), o.count > 0, NEW k
  PROVE  LET r == Finished(o, k)
         IN  r \in Overlay(Loads) /\ r.count = o.count - 1 /\ r.count = Len(r.whats)
<1>1. PICK s : s = o.whats
  OBVIOUS
<1>2. s \in Seq(Loads) /\ Len(s) \in Nat /\ Len(s) > 0 /\ o.up \in BOOLEAN
  BY <1>1 DEF Overlay
<1>3. PICK i : i = CHOOSE x \in DOMAIN s : s[x] = k /\ \A y \in 1..(x - 1) : s[y] # k
  OBVIOUS
<1>4. Without(s, k) = [x \in 1..(Len(s) - 1) |-> IF x < i THEN s[x] ELSE s[x + 1]]
  BY <1>3 DEF Without
<1>5. ASSUME NEW x \in 1..(Len(s) - 1) PROVE (IF x < i THEN s[x] ELSE s[x + 1]) \in Loads
  <2>1. x \in 1..Len(s) /\ x + 1 \in 1..Len(s)
    BY <1>2
  <2>2. s[x] \in Loads /\ s[x + 1] \in Loads
    BY <1>2, <2>1
  <2> QED BY <2>2
<1>6. Without(s, k) \in Seq(Loads) /\ Len(Without(s, k)) = Len(s) - 1
  <2>1. Len(s) - 1 \in Nat
    BY <1>2
  <2>2. Without(s, k) \in [1..(Len(s) - 1) -> Loads]
    BY <1>4, <1>5
  <2> QED BY <2>1, <2>2
<1> QED BY <1>1, <1>2, <1>6 DEF Finished, Overlay

(* A callback that came to its end or threw: one request less, and the load *)
(* is counted off or stays.                                                 *)
LEMMA CallbackSound ==
  ASSUME NEW q, Sound(q), NEW k \in Loads, q.underway[k] > 0, Callback(k, q)
  PROVE  /\ Sound(page') /\ page'.thrown = FALSE /\ page'.known = q.known
         /\ page'.underway = [q.underway EXCEPT ![k] = @ - 1]
<1>1. PICK u, o : u = [q.underway EXCEPT ![k] = @ - 1]
                  /\ o = IF q.thrown THEN q.load ELSE Finished(q.load, k)
  OBVIOUS
<1>2. page' = [q EXCEPT !.underway = u, !.load = o, !.thrown = FALSE]
  <2>1. IsPage(q)
    BY DEF Sound, Loose, Basic, Typed
  <2> QED BY <1>1, <2>1 DEF Callback, IsPage, Fields
<1>3. PICK r : r = page'
  OBVIOUS
<1>4. /\ q.underway \in [Loads -> Nat] /\ q.load \in Overlay(Loads)
      /\ q.load.count = Len(q.load.whats)
      /\ q.load.count \in Nat
  BY DEF Sound, Loose, Basic, Typed, Counted, Overlay
<1>5. /\ \A l \in Loads : q.underway[l] \in Nat /\ u[l] = IF l = k THEN q.underway[l] - 1 ELSE q.underway[l]
      /\ "analysis" \in Loads /\ "log" \in Loads /\ "segments" \in Loads
      /\ k = "analysis" \/ k = "log" \/ k = "segments"
  BY <1>1, <1>4 DEF Loads
<1>6. u \in [Loads -> Nat] /\ u["segments"] <= q.underway["segments"]
  <2>1. \A l \in Loads : u[l] \in Nat
    BY <1>5
  <2>2. u \in [Loads -> Nat]
    BY <1>1, <1>4, <2>1
  <2> QED BY <1>5, <2>2
<1>7. /\ u["analysis"] + u["log"] + u["segments"]
           = (q.underway["analysis"] + q.underway["log"] + q.underway["segments"]) - 1
      /\ q.underway["analysis"] + q.underway["log"] + q.underway["segments"] > 0
      /\ q.underway["analysis"] + q.underway["log"] + q.underway["segments"] \in Nat
  <2>1. CASE k = "analysis"
    BY <1>5, <2>1
  <2>2. CASE k = "log"
    BY <1>5, <2>2
  <2>3. CASE k = "segments"
    BY <1>5, <2>3
  <2> QED BY <1>5, <2>1, <2>2, <2>3
<1>8. q.underway["analysis"] + q.underway["log"] + q.underway["segments"] <= q.load.count
  BY DEF Sound, Loose, Basic, Counted
<1>9. /\ o \in Overlay(Loads) /\ o.count = Len(o.whats)
      /\ u["analysis"] + u["log"] + u["segments"] <= o.count
  <2>1. q.load.count > 0
    BY <1>4, <1>7, <1>8
  <2>2. CASE q.thrown
    BY <1>1, <1>4, <1>7, <1>8, <2>2
  <2>3. CASE ~q.thrown
    <3>1. o = Finished(q.load, k)
      BY <1>1, <2>3
    <3>2. o \in Overlay(Loads) /\ o.count = q.load.count - 1 /\ o.count = Len(o.whats)
      BY <1>4, <2>1, <3>1, FinishedCounts
    <3> QED BY <1>4, <1>7, <1>8, <3>2
  <2> QED BY <2>2, <2>3
<1>10. Typed(r)
  BY <1>2, <1>3, <1>6, <1>9 DEF Sound, Loose, Basic, Typed, IsPage, Fields
<1>11. /\ r.underway = u /\ r.load = o /\ r.thrown = FALSE /\ r.known = q.known /\ r.drawn = q.drawn
       /\ Shows(r) = Shows(q) /\ r.map = q.map /\ OnMap(r) = OnMap(q) /\ r.step = q.step
       /\ r.segments = q.segments /\ r.bar = q.bar /\ r.cross = q.cross
  BY <1>2, <1>3 DEF Sound, Loose, Basic, Typed, IsPage, Fields, Shows, OnMap
<1>12. Counted(r)
  BY <1>9, <1>11 DEF Counted
<1>13. MapWell(r)
  <2>1. u["segments"] > 0 => q.underway["segments"] > 0
    BY <1>5, <1>6
  <2> QED BY <1>11, <2>1 DEF Sound, Loose, Basic, MapWell, TextWell, OnMap
<1>14. ChartWell(r)
  BY <1>11 DEF Sound, Loose, ChartWell, Shows
<1>15. Loaded(r)
  BY <1>11 DEF Sound, Loaded
<1>16. Synced(r) /\ Lines(r) /\ Savings(r)
  BY <1>10, <1>11, <1>12, <1>13, <1>14, SameShown DEF Loose, Basic
<1> QED BY <1>1, <1>3, <1>10, <1>11, <1>12, <1>13, <1>14, <1>15, <1>16 DEF Sound, Loose, Basic

-----------------------------------------------------------------------------
(* Every step of the page.                                                  *)

(* The analysis is asked for once, and until it comes no view has data.     *)
Fresh(p) ==
  p.underway["analysis"] = 0 \/ (p.underway["analysis"] = 1 /\ p.known = {})

PageInv ==
  /\ analysis \in Analyses /\ resizes \in 0..MaxResizes
  /\ Sound(page) /\ page.thrown = FALSE /\ Fresh(page)

(* The page as it is made, with its two first requests.                     *)
LEMMA PageInit == Init => PageInv
<1> SUFFICES ASSUME Init PROVE PageInv
  OBVIOUS
<1>1. analysis \in Analyses /\ resizes \in 0..MaxResizes
  BY DEF Init
<1>2. PICK p : p = FirstPage
  OBVIOUS
<1>3. FirstForm \in Form
  <2>1. (CHOOSE v \in Percents : TRUE) \in Percents
    <3>1. \E v \in Percents : TRUE
      OBVIOUS
    <3> QED BY <3>1
  <2>2. (CHOOSE v \in Values : TRUE) \in Values
    <3>1. \E v \in Values : TRUE
      OBVIOUS
    <3> QED BY <3>1
  <2> HIDE DEF DefaultMinutes
  <2> QED BY <2>1, <2>2 DEF FirstForm, Form
<1>4. [pct |-> 20, ver |-> 5, resp |-> 5, vot |-> 13, unit |-> "vehhr"] \in Form
  BY DEF Form
<1>5. NothingLoading \in Overlay(Loads) /\ NothingLoading.count = 0 /\ Len(NothingLoading.whats) = 0
  BY DEF NothingLoading, Overlay
<1>6. Blank \in Cell /\ Blank.shows = "nothing"
  BY DEF Blank, Cell, Compound
<1>7. /\ IsPage(p) /\ p.known = {} /\ p.thrown = FALSE /\ p.section = None /\ p.cross = None
      /\ p.chart = "empty" /\ p.data = None /\ p.savings = Blank /\ p.drawn = FALSE
      /\ p.map = "none" /\ p.bar = None /\ p.segments = FALSE /\ p.text = None
      /\ p.underway = [k \in Loads |-> 0] /\ p.load = NothingLoading
  BY <1>2 DEF FirstPage, IsPage, Fields
<1>8. Typed(p)
  <2> HIDE DEF Blank
  <2>1. /\ p.shown = Panels /\ p.resizable = FALSE /\ p.log = FALSE /\ p.selected = None
        /\ p.form = FirstForm /\ p.net = Blank /\ p.label = "" /\ p.step = None
        /\ p.view = StartView /\ p.colours = Default /\ p.text = None
        /\ p.moved = TRUE /\ p.legend = FALSE
        /\ p.params = [pct |-> 20, ver |-> 5, resp |-> 5, vot |-> 13, unit |-> "vehhr"]
    BY <1>2 DEF FirstPage
  <2>2. [k \in Loads |-> 0] \in [Loads -> Nat] /\ Default \in [Views -> Nat \cup {None}]
    BY DEF Default
  <2> QED BY <1>3, <1>4, <1>5, <1>6, <1>7, <2>1, <2>2 DEF Typed, SectionOrNone
<1>9. "analysis" \in Loads /\ "log" \in Loads /\ "segments" \in Loads
  BY DEF Loads
<1>10. MapWell(p) /\ Counted(p) /\ ChartWell(p)
  BY <1>5, <1>6, <1>7, <1>9 DEF MapWell, TextWell, Counted, ChartWell
<1>11. Loose(p) /\ Loaded(p) /\ Synced(p)
  BY <1>7, <1>8, <1>10 DEF Loose, Basic, Loaded, Synced
<1>12. PICK a : a = Request(p, "analysis")
  OBVIOUS
<1>13. /\ Loose(a) /\ a.known = {} /\ a.thrown = FALSE /\ a.drawn = FALSE /\ Shows(a) = Shows(p)
       /\ a.underway = [p.underway EXCEPT !["analysis"] = @ + 1]
  <2>1. "analysis" # "segments"
    OBVIOUS
  <2> QED BY <1>7, <1>9, <1>11, <1>12, <2>1, RequestSound
<1>14. PICK b : b = Request(a, "log")
  OBVIOUS
<1>15. /\ Loose(b) /\ b.known = {} /\ b.thrown = FALSE /\ b.drawn = FALSE /\ Shows(b) = Shows(a)
       /\ b.underway = [a.underway EXCEPT !["log"] = @ + 1]
  <2>1. "log" # "segments"
    OBVIOUS
  <2> QED BY <1>9, <1>13, <1>14, <2>1, RequestSound
<1>16. page = b
  BY <1>2, <1>12, <1>14 DEF Init
<1>17. b.underway["analysis"] = 1
  <2>1. p.underway["analysis"] = 0
    BY <1>7, <1>9
  <2>2. a.underway["analysis"] = 1
    BY <1>7, <1>9, <1>13, <2>1
  <2> QED BY <1>7, <1>9, <1>13, <1>15, <2>2
<1>18. Sound(b)
  <2>1. b.data = None
    BY <1>7, <1>13, <1>15 DEF Shows
  <2>2. Loaded(b) /\ Synced(b)
    BY <1>15 DEF Loaded, Synced
  <2> QED BY <1>15, <2>1, <2>2, BareSound
<1> QED BY <1>1, <1>15, <1>16, <1>17, <1>18 DEF PageInv, Fresh

(* What the user does keeps the page sound if the handlers do.              *)
LEMMA GestureSound ==
  ASSUME PageInv, NEW q, Sound(q), Kept(page, q), Gesture(q)
  PROVE  PageInv'
<1>1. page' = [q EXCEPT !.thrown = FALSE] /\ analysis' = analysis /\ resizes' = resizes
  BY DEF Gesture
<1>2. Sound(page') /\ Kept(q, page') /\ page'.thrown = FALSE
  BY <1>1, FieldSound DEF Aside
<1>3. Fresh(page')
  BY <1>2 DEF PageInv, Fresh, Kept
<1>4. Sound(page)' /\ Fresh(page)'
  BY <1>1, <1>2, <1>3 DEF Sound, Fresh, Loose, Basic, Typed, Counted, MapWell, TextWell, ChartWell, Draws,
     IncidentSection, SectionIndex, Loaded, Synced, Lines, Savings, IsPage
<1> QED BY <1>1, <1>2, <1>4 DEF PageInv

(* The server has the same analysis all along.                              *)
LEMMA InvNext ==
  ASSUME analysis \in Analyses, analysis' = analysis, resizes' \in 0..MaxResizes,
         Sound(page'), Fresh(page'), page'.thrown = FALSE
  PROVE  PageInv'
<1>1. Sound(page)' /\ Fresh(page)'
  BY DEF Sound, Fresh, Loose, Basic, Typed, Counted, MapWell, TextWell, ChartWell, Draws,
     IncidentSection, SectionIndex, Loaded, Synced, Lines, Savings, IsPage
<1> QED BY <1>1 DEF PageInv

(* An answer whose handlers leave the page sound.                           *)
LEMMA CallbackInv ==
  ASSUME PageInv, NEW q, Sound(q), NEW k \in Loads, page.underway[k] > 0, Callback(k, q),
         \/ k = "analysis" /\ q.underway["analysis"] = page.underway["analysis"]
         \/ q.underway = page.underway /\ q.known = page.known
  PROVE  PageInv'
<1>1. q.underway[k] > 0
  OBVIOUS
<1>2. /\ Sound(page') /\ page'.thrown = FALSE /\ page'.known = q.known
      /\ page'.underway = [q.underway EXCEPT ![k] = @ - 1]
  BY <1>1, CallbackSound
<1>3. /\ q.underway \in [Loads -> Nat] /\ "analysis" \in Loads
  BY DEF Sound, Loose, Basic, Typed, Loads
<1>4. Fresh(page')
  <2>1. CASE k = "analysis"
    <3>1. q.underway["analysis"] = page.underway["analysis"]
      BY <2>1
    <3>2. page.underway["analysis"] = 1
      BY <2>1 DEF PageInv, Fresh
    <3>3. page'.underway["analysis"] = 0
      BY <1>2, <1>3, <2>1, <3>1, <3>2
    <3> QED BY <3>3 DEF Fresh
  <2>2. CASE k # "analysis"
    <3>1. q.underway = page.underway /\ q.known = page.known
      BY <2>2
    <3>2. page'.underway["analysis"] = page.underway["analysis"] /\ page'.known = page.known
      BY <1>2, <1>3, <2>2, <3>1
    <3> QED BY <3>2 DEF PageInv, Fresh
  <2> QED BY <2>1, <2>2
<1> QED BY <1>2, <1>4, InvNext DEF PageInv, Callback

(* The answers of the server, and the failures.                             *)
LEMMA ArrivesStep ==
  ASSUME PageInv, Arrives
  PROVE  PageInv'
<1>0. Sound(page) /\ page.thrown = FALSE /\ analysis \in Analyses
        /\ "analysis" \in Loads /\ "log" \in Loads /\ "segments" \in Loads
  BY DEF PageInv, Loads
<1>1. CASE AnalysisArrives
  <2>1. PICK q : q = IF analysis.times = "missing" THEN page ELSE AnalysisLoaded(page)
    OBVIOUS
  <2>2. Callback("analysis", q) /\ page.underway["analysis"] > 0
    BY <1>1, <2>1 DEF AnalysisArrives, Callback
  <2>3. page.known = {}
    BY <2>2 DEF PageInv, Fresh
  <2>4. Sound(q) /\ q.underway["analysis"] = page.underway["analysis"]
    BY <1>0, <2>1, <2>3, AnalysisLoadedSound
  <2> QED BY <1>0, <2>2, <2>4, CallbackInv
<1>2. CASE LogArrives
  <2>1. PICK q : q = [page EXCEPT !.log = TRUE]
    OBVIOUS
  <2>2. Callback("log", q) /\ page.underway["log"] > 0
    BY <1>2, <2>1 DEF LogArrives, Callback
  <2>3. Sound(q) /\ q.underway = page.underway /\ q.known = page.known
    BY <1>0, <2>1, FieldSound DEF Aside, Kept
  <2> QED BY <1>0, <2>2, <2>3, CallbackInv
<1>3. CASE SegmentsArrive
  <2>1. PICK a : a = [page EXCEPT !.segments = TRUE]
    OBVIOUS
  <2>2. PICK q : q = RedrawSegments(a)
    OBVIOUS
  <2>3. Callback("segments", q) /\ page.underway["segments"] > 0
    BY <1>3, <2>1, <2>2 DEF SegmentsArrive, Callback
  <2>4. Typed(a) /\ Kept(page, a) /\ Shows(a) = Shows(page)
    BY <1>0, <2>1 DEF Sound, Loose, Basic, Typed, IsPage, Fields, Kept, Shows
  <2>5. MapWell(a) /\ Counted(a) /\ ChartWell(a)
    BY <1>0, <2>1, <2>3 DEF Sound, Loose, Basic, Typed, IsPage, Fields, MapWell, TextWell, Counted, ChartWell
  <2>6. Sound(a)
    BY <1>0, <2>4, <2>5, KeptSound DEF Loose, Basic
  <2>7. Loose(q) /\ Kept(a, q) /\ Shows(q) = Shows(a)
    BY <2>2, <2>6, RedrawSegmentsSound DEF Sound
  <2>8. Sound(q)
    BY <2>6, <2>7, KeptSound
  <2>9. q.underway = page.underway /\ q.known = page.known
    BY <2>4, <2>7 DEF Kept
  <2> QED BY <1>0, <2>3, <2>8, <2>9, CallbackInv
<1>4. ASSUME NEW k \in Loads, LoadFails(k) PROVE PageInv'
  <2>1. PICK q : q = Thrown(page)
    OBVIOUS
  <2>2. Callback(k, q) /\ page.underway[k] > 0
    BY <1>4, <2>1 DEF LoadFails, Callback
  <2>3. Sound(q) /\ q.underway = page.underway /\ q.known = page.known
    BY <1>0, <2>1, ThrownSound, KeptSound DEF Sound, Kept
  <2> QED BY <2>2, <2>3, CallbackInv
<1> QED BY <1>1, <1>2, <1>3, <1>4 DEF Arrives

(* The pointer over the diagram and the map.                                *)
LEMMA CellStep ==
  ASSUME PageInv, ClickCell \/ HoverCell \/ MoveMap
  PROVE  PageInv'
<1>0. Sound(page) /\ page.thrown = FALSE /\ analysis \in Analyses
  BY DEF PageInv
<1>1. ASSUME page.drawn, NEW k \in 0..(analysis.sections - 1), Gesture(SelectedSection(page, k))
      PROVE  PageInv'
  <2>1. k \in Int /\ ~(k < 0)
    BY <1>0, AnalysisTyped
  <2>2. "chart" \in page.known
    BY <1>0, <1>1 DEF Sound, Loaded
  <2>3. PICK q : q = SelectedSection(page, k)
    OBVIOUS
  <2>4. Sound(q) /\ Kept(page, q)
    BY <1>0, <2>1, <2>2, <2>3, SelectedSectionSound
  <2>5. Gesture(q)
    BY <1>1, <2>3
  <2> QED BY <2>4, <2>5, GestureSound
<1>2. ASSUME NEW j \in Steps, Gesture(ActiveTimestep(page, j))
      PROVE  PageInv'
  <2>1. PICK q : q = ActiveTimestep(page, j)
    OBVIOUS
  <2>2. Loose(q) /\ Kept(page, q) /\ Shows(q) = Shows(page)
    <3>1. j \in Nat
      OBVIOUS
    <3> QED BY <1>0, <2>1, <3>1, ActiveTimestepSound DEF Sound
  <2>3. Sound(q)
    BY <1>0, <2>2, KeptSound
  <2>4. Gesture(q)
    BY <1>2, <2>1
  <2> QED BY <2>2, <2>3, <2>4, GestureSound
<1>3. ASSUME NEW v \in Views, Gesture([page EXCEPT !.view = v, !.moved = TRUE])
      PROVE  PageInv'
  <2>1. PICK q : q = [page EXCEPT !.view = v, !.moved = TRUE]
    OBVIOUS
  <2>2. Loose(q) /\ Kept(page, q) /\ Shows(q) = Shows(page)
    BY <1>0, <2>1, MapMovedSound DEF Sound
  <2>3. Sound(q)
    BY <1>0, <2>2, KeptSound
  <2>4. Gesture(q)
    BY <1>3, <2>1
  <2> QED BY <2>2, <2>3, <2>4, GestureSound
<1> QED BY <1>1, <1>2, <1>3 DEF ClickCell, HoverCell, MoveMap

(* The form and the parameters of the chart change together.                *)
LEMMA BothChanged ==
  ASSUME NEW p, Sound(p), NEW f \in Form, NEW g \in Form
  PROVE  LET q == [p EXCEPT !.form = f, !.params = g]
         IN  /\ Loose(q) /\ Loaded(q) /\ Kept(p, q)
             /\ (p.params = p.form => f = g) => Synced(q)
<1>1. PICK q : q = [p EXCEPT !.form = f, !.params = g]
  OBVIOUS
<1>2. /\ Typed(q) /\ Kept(p, q) /\ q.form = f /\ q.params = g
  BY <1>1 DEF Sound, Loose, Basic, Typed, IsPage, Fields, Kept
<1>3. MapWell(q) /\ Counted(q) /\ ChartWell(q)
  BY <1>1 DEF Sound, Loose, Basic, Typed, IsPage, Fields, MapWell, TextWell, Counted, ChartWell
<1>4. Loaded(q)
  BY <1>2 DEF Sound, Kept, Loaded
<1>5. (p.params = p.form => f = g) => Synced(q)
  BY <1>2 DEF Kept, Synced, Sound
<1>6. Loose(q)
  BY <1>2, <1>3 DEF Loose, Basic
<1> QED BY <1>1, <1>2, <1>4, <1>5, <1>6

(* The sliders: each tells the chart of its own value only.                 *)
LEMMA SlideStep ==
  ASSUME PageInv, SlidePercent \/ SlideVerification \/ SlideResponse
  PROVE  PageInv'
<1>0. /\ Sound(page) /\ page.thrown = FALSE /\ analysis \in Analyses
      /\ IsPage(page) /\ page.form \in Form /\ page.params \in Form
      /\ "chart" \in page.known => page.params = page.form
  BY DEF PageInv, Sound, Loose, Basic, Typed, Synced
<1>1. ASSUME NEW v \in Percents,
             Gesture(Then(ChartRedraw([page EXCEPT !.form.pct = v, !.params.pct = v]), UpdateStats))
      PROVE  PageInv'
  <2>1. PICK f, g : f = [page.form EXCEPT !.pct = v] /\ g = [page.params EXCEPT !.pct = v]
    OBVIOUS
  <2>2. PICK a : a = [page EXCEPT !.form = f, !.params = g]
    OBVIOUS
  <2>3. a = [page EXCEPT !.form.pct = v, !.params.pct = v]
    BY <1>0, <2>1, <2>2 DEF IsPage, Fields
  <2>4. f \in Form /\ g \in Form
    BY <1>0, <2>1 DEF Form
  <2>5. Loose(a) /\ Loaded(a) /\ Kept(page, a) /\ Synced(a)
    BY <1>0, <2>1, <2>2, <2>4, BothChanged
  <2>6. PICK b : b = ChartRedraw(a)
    OBVIOUS
  <2>7. Sound(b) /\ Kept(a, b)
    BY <1>0, <2>5, <2>6, ChartRedrawSound
  <2>8. PICK q : q = IF b.thrown THEN b ELSE UpdateStats(b)
    OBVIOUS
  <2>9. Sound(q) /\ Kept(b, q)
    <3>1. Kept(b, b)
      BY DEF Kept
    <3>2. Sound(UpdateStats(b)) /\ Kept(b, UpdateStats(b))
      BY <2>7, UpdateStatsSound DEF Sound
    <3> QED BY <2>7, <2>8, <3>1, <3>2
  <2>10. Gesture(q)
    BY <1>1, <2>3, <2>6, <2>8, Zenon DEF Then
  <2>11. Kept(page, q)
    BY <2>5, <2>7, <2>9 DEF Kept
  <2> QED BY <2>9, <2>10, <2>11, GestureSound
<1>2. ASSUME NEW f \in Form, NEW g \in Form, page.params = page.form => f = g,
             NEW a, a = [page EXCEPT !.form = f, !.params = g], Gesture(ChartRedraw(a))
      PROVE  PageInv'
  <2>1. Loose(a) /\ Loaded(a) /\ Kept(page, a) /\ Synced(a)
    BY <1>0, <1>2, BothChanged
  <2>2. PICK q : q = ChartRedraw(a)
    OBVIOUS
  <2>3. Sound(q) /\ Kept(a, q)
    BY <1>0, <2>1, <2>2, ChartRedrawSound
  <2>4. Gesture(q) /\ Kept(page, q)
    BY <1>2, <2>1, <2>2, <2>3 DEF Kept
  <2> QED BY <2>3, <2>4, GestureSound
<1>3. ASSUME NEW v \in Minutes,
             Gesture(ChartRedraw([page EXCEPT !.form.ver = v, !.params.ver = v]))
      PROVE  PageInv'
  <2>1. PICK f, g : f = [page.form EXCEPT !.ver = v] /\ g = [page.params EXCEPT !.ver = v]
    OBVIOUS
  <2>2. PICK a : a = [page EXCEPT !.form = f, !.params = g]
    OBVIOUS
  <2>3. a = [page EXCEPT !.form.ver = v, !.params.ver = v]
    BY <1>0, <2>1, <2>2 DEF IsPage, Fields
  <2>4. f \in Form /\ g \in Form /\ (page.params = page.form => f = g)
    BY <1>0, <2>1 DEF Form
  <2> QED BY <1>2, <1>3, <2>2, <2>3, <2>4
<1>4. ASSUME NEW v \in Minutes,
             Gesture(ChartRedraw([page EXCEPT !.form.resp = v, !.params.resp = v]))
      PROVE  PageInv'
  <2>1. PICK f, g : f = [page.form EXCEPT !.resp = v] /\ g = [page.params EXCEPT !.resp = v]
    OBVIOUS
  <2>2. PICK a : a = [page EXCEPT !.form = f, !.params = g]
    OBVIOUS
  <2>3. a = [page EXCEPT !.form.resp = v, !.params.resp = v]
    BY <1>0, <2>1, <2>2 DEF IsPage, Fields
  <2>4. f \in Form /\ g \in Form /\ (page.params = page.form => f = g)
    BY <1>0, <2>1 DEF Form
  <2> QED BY <1>2, <1>4, <2>2, <2>3, <2>4
<1> QED BY <1>1, <1>3, <1>4 DEF SlidePercent, SlideVerification, SlideResponse

(* The form as a whole.                                                     *)
LEMMA UnitStep ==
  ASSUME PageInv, ChangeUnit \/ ChangeValue \/ ChangeTheme
  PROVE  PageInv'
<1>0. /\ Sound(page) /\ page.thrown = FALSE /\ analysis \in Analyses
      /\ IsPage(page) /\ page.form \in Form /\ page.params \in Form
  BY DEF PageInv, Sound, Loose, Basic, Typed
<1>1. ASSUME NEW p, Loose(p), Loaded(p), Kept(page, p), Gesture(ParamsChanged(p)) PROVE PageInv'
  <2>1. PICK q : q = ParamsChanged(p)
    OBVIOUS
  <2>2. Sound(q) /\ Kept(p, q)
    BY <1>0, <1>1, <2>1, ParamsChangedSound
  <2>3. Gesture(q) /\ Kept(page, q)
    BY <1>1, <2>1, <2>2 DEF Kept
  <2> QED BY <2>2, <2>3, GestureSound
<1>2. ASSUME NEW f \in Form, NEW g \in Form, NEW a, a = [page EXCEPT !.form = f, !.params = g],
             Gesture(ParamsChanged(UpdateStatsUnit(a)))
      PROVE  PageInv'
  <2>1. Loose(a) /\ Loaded(a) /\ Kept(page, a)
    BY <1>0, <1>2, BothChanged
  <2>2. PICK b : b = UpdateStatsUnit(a)
    OBVIOUS
  <2>3. Loose(b) /\ Kept(a, b)
    BY <2>1, <2>2, UpdateStatsUnitSound
  <2>4. Loaded(b) /\ Kept(page, b)
    BY <2>1, <2>3 DEF Kept, Loaded
  <2> QED BY <1>1, <1>2, <2>2, <2>3, <2>4
<1>3. ASSUME NEW u \in {"vehhr", "usd"},
             Gesture(ParamsChanged(UpdateStatsUnit([page EXCEPT !.form.unit = u, !.params.unit = u])))
      PROVE  PageInv'
  <2>1. PICK f, g : f = [page.form EXCEPT !.unit = u] /\ g = [page.params EXCEPT !.unit = u]
    OBVIOUS
  <2>2. PICK a : a = [page EXCEPT !.form = f, !.params = g]
    OBVIOUS
  <2>3. a = [page EXCEPT !.form.unit = u, !.params.unit = u]
    BY <1>0, <2>1, <2>2 DEF IsPage, Fields
  <2>4. f \in Form /\ g \in Form
    BY <1>0, <2>1 DEF Form
  <2> QED BY <1>2, <1>3, <2>2, <2>3, <2>4
<1>4. ASSUME NEW v \in Values,
             Gesture(ParamsChanged(UpdateStatsUnit([page EXCEPT !.form.vot = v, !.params.vot = v])))
      PROVE  PageInv'
  <2>1. PICK f, g : f = [page.form EXCEPT !.vot = v] /\ g = [page.params EXCEPT !.vot = v]
    OBVIOUS
  <2>2. PICK a : a = [page EXCEPT !.form = f, !.params = g]
    OBVIOUS
  <2>3. a = [page EXCEPT !.form.vot = v, !.params.vot = v]
    BY <1>0, <2>1, <2>2 DEF IsPage, Fields
  <2>4. f \in Form /\ g \in Form
    BY <1>0, <2>1 DEF Form
  <2> QED BY <1>2, <1>4, <2>2, <2>3, <2>4
<1>5. CASE ChangeTheme
  <2>1. Kept(page, page)
    BY DEF Kept
  <2> QED BY <1>0, <1>1, <1>5, <2>1 DEF ChangeTheme, Sound
<1> QED BY <1>3, <1>4, <1>5 DEF ChangeUnit, ChangeValue

(* The panels that are shown.                                               *)
LEMMA PanelStep ==
  ASSUME PageInv, ShowAll \/ OnlyTable \/ OnlyChart \/ OnlyMap \/ OnlyTsd
  PROVE  PageInv'
<1>0. /\ Sound(page) /\ page.thrown = FALSE /\ analysis \in Analyses
  BY DEF PageInv
<1>1. ASSUME NEW p, Sound(p), NEW s \in SUBSET Panels
      PROVE  Sound([p EXCEPT !.shown = s]) /\ Kept(p, [p EXCEPT !.shown = s])
  BY <1>1, FieldSound DEF Aside
<1>2. ASSUME NEW p, Sound(p) PROVE Sound(ChartRedraw(p)) /\ Kept(p, ChartRedraw(p))
  BY <1>0, <1>2, ChartRedrawSound DEF Sound
<1>3. ASSUME NEW p, Sound(p)
      PROVE  Sound(RedrawSegments(MapRedraw(p))) /\ Kept(p, RedrawSegments(MapRedraw(p)))
  <2>1. PICK a : a = MapRedraw(p)
    OBVIOUS
  <2>2. Loose(a) /\ Kept(p, a) /\ Shows(a) = Shows(p)
    BY <1>3, <2>1, MapRedrawSound DEF Sound
  <2>3. PICK b : b = RedrawSegments(a)
    OBVIOUS
  <2>4. Loose(b) /\ Kept(a, b) /\ Shows(b) = Shows(a)
    BY <2>2, <2>3, RedrawSegmentsSound
  <2>5. Kept(p, b) /\ Shows(b) = Shows(p)
    BY <2>2, <2>4 DEF Kept
  <2> QED BY <1>3, <2>1, <2>3, <2>4, <2>5, KeptSound
<1>4. ASSUME NEW p, Sound(p), p.known = page.known, p.underway = page.underway, Gesture(p)
      PROVE  PageInv'
  <2>1. page' = [p EXCEPT !.thrown = FALSE] /\ analysis' = analysis /\ resizes' = resizes
    BY <1>4 DEF Gesture
  <2>2. Sound(page') /\ Kept(p, page') /\ page'.thrown = FALSE
    BY <1>4, <2>1, FieldSound DEF Aside
  <2>3. Fresh(page')
    BY <1>4, <2>2 DEF PageInv, Fresh, Kept
  <2> QED BY <2>1, <2>2, <2>3, InvNext DEF PageInv
<1>5. ASSUME NEW p, Sound(p)
      PROVE  Sound(TsdRedraw(p)) /\ TsdRedraw(p).known = p.known /\ TsdRedraw(p).underway = p.underway
  BY <1>0, <1>5, TsdRedrawLoaded
<1>6. CASE OnlyTable
  <2>1. {"table"} \in SUBSET Panels
    BY DEF Panels
  <2> QED BY <1>0, <1>1, <1>4, <1>6, <2>1 DEF OnlyTable, Kept
<1>7. CASE OnlyChart
  <2>1. {"chart"} \in SUBSET Panels
    BY DEF Panels
  <2>2. PICK a : a = [page EXCEPT !.shown = {"chart"}]
    OBVIOUS
  <2>3. Sound(a) /\ Kept(page, a)
    BY <1>0, <1>1, <2>1, <2>2
  <2>4. Sound(ChartRedraw(a)) /\ Kept(a, ChartRedraw(a))
    BY <1>2, <2>3
  <2> QED BY <1>4, <1>7, <2>2, <2>3, <2>4 DEF OnlyChart, Kept
<1>8. CASE OnlyMap
  <2>1. {"map"} \in SUBSET Panels
    BY DEF Panels
  <2>2. PICK a : a = [page EXCEPT !.shown = {"map"}]
    OBVIOUS
  <2>3. Sound(a) /\ Kept(page, a)
    BY <1>0, <1>1, <2>1, <2>2
  <2>4. PICK b : b = RedrawSegments(MapRedraw(a))
    OBVIOUS
  <2>5. Sound(b) /\ Kept(a, b)
    BY <1>3, <2>3, <2>4
  <2> QED BY <1>4, <1>8, <2>2, <2>3, <2>4, <2>5 DEF OnlyMap, Kept
<1>9. CASE OnlyTsd
  <2>1. {"tsd"} \in SUBSET Panels
    BY DEF Panels
  <2>2. PICK a : a = [page EXCEPT !.shown = {"tsd"}]
    OBVIOUS
  <2>3. Sound(a) /\ Kept(page, a)
    BY <1>0, <1>1, <2>1, <2>2
  <2>4. PICK b : b = TsdRedraw(a)
    OBVIOUS
  <2>5. Sound(b) /\ b.known = a.known /\ b.underway = a.underway
    BY <1>5, <2>3, <2>4
  <2> QED BY <1>4, <1>9, <2>2, <2>3, <2>4, <2>5 DEF OnlyTsd, Kept
<1>10. CASE ShowAll
  <2>1. PICK a : a = [page EXCEPT !.shown = @ \cup {"table", "tsd"}]
    OBVIOUS
  <2>2. Sound(a) /\ Kept(page, a)
    <3>1. page.shown \cup {"table", "tsd"} \in SUBSET Panels
      BY <1>0 DEF Sound, Loose, Basic, Typed, Panels
    <3>2. a = [page EXCEPT !.shown = page.shown \cup {"table", "tsd"}]
      BY <2>1
    <3> QED BY <1>0, <1>1, <3>1, <3>2
  <2>3. PICK b : b = IF a.thrown THEN a ELSE TsdRedraw(a)
    OBVIOUS
  <2>4. Sound(b) /\ b.known = page.known /\ b.underway = page.underway
    BY <1>5, <2>2, <2>3 DEF Kept
  <2>5. PICK c : c = [b EXCEPT !.shown = @ \cup {"map"}]
    OBVIOUS
  <2>6. Sound(c) /\ Kept(b, c)
    <3>1. b.shown \cup {"map"} \in SUBSET Panels
      BY <2>4 DEF Sound, Loose, Basic, Typed, Panels
    <3>2. c = [b EXCEPT !.shown = b.shown \cup {"map"}]
      BY <2>5
    <3> QED BY <1>1, <2>4, <3>1, <3>2
  <2>7. PICK d : d = IF b.thrown THEN b ELSE RedrawSegments(MapRedraw(c))
    OBVIOUS
  <2>8. Sound(d) /\ d.known = page.known /\ d.underway = page.underway
    BY <1>3, <2>4, <2>6, <2>7 DEF Kept
  <2>9. PICK e : e = [d EXCEPT !.shown = @ \cup {"chart"}]
    OBVIOUS
  <2>10. Sound(e) /\ Kept(d, e)
    <3>1. d.shown \cup {"chart"} \in SUBSET Panels
      BY <2>8 DEF Sound, Loose, Basic, Typed, Panels
    <3>2. e = [d EXCEPT !.shown = d.shown \cup {"chart"}]
      BY <2>9
    <3> QED BY <1>1, <2>8, <3>1, <3>2
  <2>11. PICK q : q = IF d.thrown THEN d ELSE ChartRedraw(e)
    OBVIOUS
  <2>12. Sound(q) /\ q.known = page.known /\ q.underway = page.underway
    BY <1>2, <2>8, <2>10, <2>11 DEF Kept
  <2>13. Gesture(q)
    BY <1>10, <2>1, <2>3, <2>5, <2>7, <2>9, <2>11, Zenon DEF ShowAll, Then
  <2> QED BY <1>4, <2>12, <2>13
<1> QED BY <1>6, <1>7, <1>8, <1>9, <1>10

(* Everything is drawn again and the segments are asked for again.          *)
LEMMA ResizeStep ==
  ASSUME PageInv, Resize
  PROVE  PageInv'
<1>0. /\ Sound(page) /\ page.thrown = FALSE /\ analysis \in Analyses
      /\ page.underway \in [Loads -> Nat] /\ "analysis" \in Loads
  BY DEF PageInv, Sound, Loose, Basic, Typed, Loads
<1>1. PICK a : a = TsdRedraw(page)
  OBVIOUS
<1>2. /\ Sound(a) /\ a.known = page.known /\ a.underway = page.underway
      /\ ~a.thrown => "tsd" \in page.known
  BY <1>0, <1>1, TsdRedrawLoaded
<1>3. PICK b : b = IF a.thrown THEN a ELSE ChartRedraw(a)
  OBVIOUS
<1>4. Sound(b) /\ Kept(a, b)
  <2>1. Kept(a, a)
    BY DEF Kept
  <2>2. Sound(ChartRedraw(a)) /\ Kept(a, ChartRedraw(a))
    BY <1>0, <1>2, ChartRedrawSound DEF Sound
  <2> QED BY <1>2, <1>3, <2>1, <2>2
<1>5. PICK c : c = IF b.thrown THEN b ELSE PageStats(b)
  OBVIOUS
<1>6. Sound(c) /\ Kept(b, c)
  <2>1. Kept(b, b)
    BY DEF Kept
  <2>2. Sound(PageStats(b)) /\ Kept(b, PageStats(b))
    BY <1>4, PageStatsSound
  <2> QED BY <1>4, <1>5, <2>1, <2>2
<1>7. PICK d : d = IF c.thrown THEN c ELSE MapData(c)
  OBVIOUS
<1>8. c.known = page.known /\ c.underway = page.underway
  BY <1>2, <1>4, <1>6 DEF Kept
<1>9. Sound(d) /\ d.underway["analysis"] = page.underway["analysis"]
        /\ (page.known = {} => d.known = {})
  <2>1. CASE c.thrown
    BY <1>6, <1>7, <1>8, <2>1
  <2>2. CASE ~c.thrown
    <3>1. PICK e : e = MapData(c)
      OBVIOUS
    <3>2. /\ Loose(e) /\ e.known = c.known \cup {"map"} /\ Shows(e) = Shows(c) /\ e.drawn = c.drawn
          /\ e.underway = [c.underway EXCEPT !["segments"] = @ + 1]
      BY <1>6, <3>1, MapDataSound DEF Sound
    <3>3. Loaded(e)
      BY <1>6, <3>2 DEF Sound, Loaded
    <3>4. "chart" \in e.known => "chart" \in c.known
      BY <3>2
    <3>5. Synced(e) /\ Lines(e) /\ Savings(e)
      BY <1>6, <3>2, <3>4, SameShown
    <3>6. e.underway["analysis"] = page.underway["analysis"]
      BY <1>0, <1>8, <3>2
    <3>7. page.known # {}
      <4>1. ~b.thrown
        BY <1>5, <2>2
      <4>2. ~a.thrown
        BY <1>3, <4>1
      <4> QED BY <1>2, <4>2
    <3> QED BY <1>7, <2>2, <3>1, <3>2, <3>3, <3>5, <3>6, <3>7 DEF Sound
  <2> QED BY <2>1, <2>2
<1>10. page' = [d EXCEPT !.thrown = FALSE] /\ analysis' = analysis /\ resizes' \in 0..MaxResizes
  <2>1. page' = [d EXCEPT !.thrown = FALSE]
    BY <1>1, <1>3, <1>5, <1>7, Zenon DEF Resize, Then
  <2>2. resizes < MaxResizes /\ resizes' = resizes + 1 /\ analysis' = analysis
    BY DEF Resize
  <2> QED BY <2>1, <2>2 DEF PageInv
<1>11. Sound(page') /\ Kept(d, page') /\ page'.thrown = FALSE
  BY <1>9, <1>10, FieldSound DEF Aside
<1>12. Fresh(page')
  BY <1>9, <1>11 DEF PageInv, Fresh, Kept
<1> QED BY <1>0, <1>10, <1>11, <1>12, InvNext

(* The overlay is dismissed: its counter and its list stay.                 *)
LEMMA DismissStep ==
  ASSUME PageInv, Dismiss
  PROVE  PageInv'
<1>0. Sound(page) /\ page.thrown = FALSE /\ analysis \in Analyses
  BY DEF PageInv
<1>1. PICK o : o = Dismissed(page.load)
  OBVIOUS
<1>2. PICK q : q = [page EXCEPT !.load = o]
  OBVIOUS
<1>3. page' = q /\ analysis' = analysis /\ resizes' = resizes
  BY <1>1, <1>2 DEF Dismiss
<1>4. o \in Overlay(Loads) /\ o.count = page.load.count /\ o.whats = page.load.whats
  <2>1. page.load \in Overlay(Loads)
    BY <1>0 DEF Sound, Loose, Basic, Typed
  <2> QED BY <1>1, <2>1 DEF Dismissed, Overlay
<1>5. /\ Typed(q) /\ Shows(q) = Shows(page) /\ q.known = page.known /\ q.underway = page.underway
      /\ q.load = o /\ q.drawn = page.drawn /\ q.thrown = FALSE
  BY <1>0, <1>2, <1>4 DEF Sound, Loose, Basic, Typed, IsPage, Fields, Shows
<1>6. MapWell(q) /\ ChartWell(q)
  BY <1>0, <1>2 DEF Sound, Loose, Basic, Typed, IsPage, Fields, MapWell, TextWell, ChartWell
<1>7. Counted(q)
  BY <1>0, <1>4, <1>5 DEF Sound, Loose, Basic, Counted
<1>8. Loaded(q)
  BY <1>0, <1>5 DEF Sound, Loaded
<1>9. Synced(q) /\ Lines(q) /\ Savings(q)
  BY <1>0, <1>5, <1>6, <1>7, SameShown DEF Loose, Basic
<1>10. Sound(q) /\ Fresh(q)
  BY <1>5, <1>6, <1>7, <1>8, <1>9 DEF Sound, Loose, Basic, PageInv, Fresh
<1> QED BY <1>0, <1>3, <1>5, <1>10, InvNext DEF PageInv

(* Every step keeps the invariant.                                          *)
LEMMA PageStep == PageInv /\ [Next]_vars => PageInv'
<1> SUFFICES ASSUME PageInv, [Next]_vars PROVE PageInv'
  OBVIOUS
<1>1. CASE UNCHANGED vars
  <2>1. page' = page /\ analysis' = analysis /\ resizes' = resizes
    BY <1>1 DEF vars
  <2> QED BY <2>1, InvNext DEF PageInv
<1> QED
  BY <1>1, ArrivesStep, CellStep, SlideStep, UnitStep, PanelStep, ResizeStep, DismissStep DEF Next

-----------------------------------------------------------------------------
(* The theorems.                                                            *)

(* The fields of the page keep their types, and no exception of a handler   *)
(* is left over when a row of handlers has ended: whatever arrives or fails *)
(* in whatever order, for all analyses and values of the form.              *)
THEOREM TypeCorrect == Spec => []TypeOK
<1>1. PageInv => TypeOK
  BY TypedIsType DEF PageInv, Sound, Loose, Basic
<1> QED BY PageInit, PageStep, <1>1, PTL DEF Spec

(* The lines of the cumulative flow are those of the selected section and of *)
(* the form's parameters: cumflow has defaults of its own and is told single *)
(* sliders, but nothing can be selected before the whole form was passed on. *)
THEOREM ChartFollowsForm == Spec => []ChartIsOfForm
<1>1. PageInv => ChartIsOfForm
  BY DEF PageInv, Sound, Lines, ChartIsOfForm
<1> QED BY PageInit, PageStep, <1>1, PTL DEF Spec

(* The savings are in the unit their label names, multiplied once: every    *)
(* updateStatsUnit on numbers is followed by an updateStats that begins with *)
(* vehicle hours again.                                                     *)
THEOREM SavingsKeepUnit == Spec => []SavingsInLabelUnit
<1>1. PageInv => SavingsInLabelUnit
  BY DEF PageInv, Sound, Savings, SavingsInLabelUnit
<1> QED BY PageInit, PageStep, <1>1, PTL DEF Spec

(* The diagram and the chart agree on the selected section, and the bar of  *)
(* the diagram and the text of the map on the active step, although each is *)
(* drawn again at other times and the segments of the map may come at any   *)
(* time. The colours of the segments agree until the map is moved.          *)
THEOREM ViewsStayTogether == Spec => []ViewsAgree
<1>1. PageInv => ViewsAgree
  <2> SUFFICES ASSUME PageInv PROVE ViewsAgree
    OBVIOUS
  <2>1. Loose(page) /\ Lines(page)
    BY DEF PageInv, Sound
  <2>2. SectionsAgree
    <3>1. page.chart = "lines" => page.data.section = page.section
      BY <2>1 DEF Lines
    <3> QED BY <2>1, <3>1 DEF SectionsAgree, Loose, ChartWell
  <2>3. TimesAgree
    BY <2>1 DEF Loose, Basic, MapWell, TextWell, TimesAgree
  <2> QED BY <2>2, <2>3 DEF ViewsAgree
<1> QED BY PageInit, PageStep, <1>1, PTL DEF Spec
=============================================================================
