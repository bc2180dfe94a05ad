----------------------------- MODULE QueryPage -----------------------------
(* The page that lists incidents: a table, a map of clustered circles and a *)
(* detail panel that react to the window events incidentsLoaded,            *)
(* incidentSelected and clusterSelected. A trigger runs the handlers of an  *)
(* event at once, in the order they were bound, and an exception in one of  *)
(* them ends the rest, the handlers of the events around it included. The   *)
(* page asks once; a second query, typed into its input field, is left out. *)
EXTENDS LoadOverlay, FiniteSets, Functions

CONSTANTS N,        \* number of incidents in the answer of the server
          Views,    \* tiles of the incident layer: one per zoom level and region
          Zoom,     \* Zoom[v]: the zoom level of tile v
          Home,     \* the tile the map starts with
          Delay,    \* Delay[i]: tmcpe_delay of incident i (0 when there is none)
          None      \* no incident, no cluster

Incidents == 1..N       \* in the order of the answer

ASSUME QueryAssumption ==
  /\ N \in Nat
  /\ Zoom \in [Views -> Nat]
  /\ Home \in Views
  /\ Delay \in [Incidents -> Nat]
  /\ None \notin Incidents

(* An answer: which incidents pass the filter of the table, and for every   *)
(* tile the first incident in the grid square of incident i (None when the  *)
(* incident has no geometry). That first incident stands for the cluster:   *)
(* the list of the cluster is a property of it.                             *)
Answers ==
  {a \in [tabled : SUBSET Incidents, rep : [Views -> [Incidents -> Incidents \cup {None}]]] :
     \A v \in Views, i \in Incidents :
        /\ a.rep[v][i] = None => \A w \in Views : a.rep[w][i] = None
        /\ a.rep[v][i] # None => /\ a.rep[v][i] <= i
                                 /\ a.rep[v][a.rep[v][i]] = a.rep[v][i]}

VARIABLES answer,   \* what the server has
          load,     \* the loading overlay
          phase,    \* "asked", "shown" or "failed"
          page      \* what the three views show and remember

vars == <<answer, load, phase, page>>

(* view: the tile on screen; loaded: the tiles polymaps keeps; elements:    *)
(* the list held by each cluster's first incident; lit: the highlighted     *)
(* circle of each tile; row: the highlighted row; onMap and inDetail: the   *)
(* selectedCluster of either view; items and item: the entries of the panel *)
(* and the selected one; nav: "Incident at of of"; able: the buttons that   *)
(* are not disabled; aborted: a handler threw before the panel was updated. *)
Page == [view : Views, loaded : SUBSET Views,
         elements : [Incidents -> Seq(Incidents)],
         lit : [Views -> Incidents \cup {None}],
         row : Incidents \cup {None},
         onMap : Incidents \cup {None}, inDetail : Incidents \cup {None},
         items : Seq(Incidents), item : Incidents \cup {None},
         nav : [at : Nat, of : Nat], able : SUBSET {"previous", "next"},
         aborted : BOOLEAN]

Located(i) == \A v \in Views : answer.rep[v][i] # None
Tabled(i) == i \in answer.tabled

\* The incidents in the cluster that stands at r on tile v.
Square(v, r) == {i \in Incidents : answer.rep[v][i] = r}
\* The circles of tile v, each named after its cluster's first incident.
Circles(v) == {r \in Incidents : answer.rep[v][r] = r}

\* A cluster as a list, the largest delay first.
ByDelay(S) ==
  CHOOSE s \in [1..Cardinality(S) -> S] :
    \A a, b \in DOMAIN s : a < b => s[a] # s[b] /\ Delay[s[a]] >= Delay[s[b]]

\* Where i stands in the list s; one past the end when it is not there.
Position(s, i) ==
  IF \E k \in DOMAIN s : s[k] = i THEN CHOOSE k \in DOMAIN s : s[k] = i ELSE Len(s) + 1

-----------------------------------------------------------------------------
(* The map.                                                                 *)

\* The map moves to tile v. A tile seen for the first time clusters its
\* features, which overwrites the lists of the first incidents of its squares;
\* a tile that is kept is shown as it is.
Moved(p, v) ==
  [p EXCEPT !.view = v, !.loaded = @ \cup {v},
            !.elements = IF v \in p.loaded THEN @
                         ELSE [i \in Incidents |-> IF i \in Circles(v) THEN ByDelay(Square(v, i))
                                                   ELSE @[i]]]

\* mapView.clusterSelected for cluster e: the map centres on its first
\* element when that is out of sight (to is where the map is afterwards), and
\* highlights the circle that holds it.
MapCluster(p, e, to) ==
  IF e = p.onMap THEN p
  ELSE LET first == p.elements[e][1]
           q     == Moved(p, to)
       IN  [q EXCEPT !.lit[to] = answer.rep[to][first], !.onMap = e]

-----------------------------------------------------------------------------
(* The detail panel.                                                        *)

\* The entries of s that are in S, in their order.
Within(s, S) ==
  LET kept[n \in 0..Len(s)] ==
        IF n = 0 THEN <<>> ELSE IF s[n] \in S THEN Append(kept[n - 1], s[n]) ELSE kept[n - 1]
  IN  kept[Len(s)]

\* Mutant: entries of the former cluster are not removed.
JoinedWithoutExit(old, new) == old \o Within(new, Incidents \ Range(old))

\* d3's keyed join: entries that stay keep their place, new ones follow.
Joined(old, new) == Within(old, Range(new)) \o Within(new, Incidents \ Range(old))

\* The buttons that lead to a neighbour of entry i of the list s.
Able(s, i) ==
  LET k == Position(s, i)
  IN  {b \in {"previous", "next"} : i # None /\ (b = "previous" => k > 1) /\ (b = "next" => k < Len(s))}

\* checkDetailButtons.
CheckDetailButtons(p) == [p EXCEPT !.able = Able(p.items, p.item)]

\* detailView.clusterSelected for cluster e.
DetailCluster(p, e) ==
  IF e = p.inDetail THEN p
  ELSE LET s == Joined(p.items, p.elements[e])
       IN  [p EXCEPT !.inDetail = e, !.items = s,
                     !.item = IF @ \in Range(s) THEN @ ELSE None]

\* Mutant: the buttons are set before the entry is selected.
DetailIncidentEarly(p, i) ==
  IF p.inDetail = None THEN CheckDetailButtons([p EXCEPT !.aborted = FALSE])
  ELSE LET s == p.elements[p.inDetail]
           q == CheckDetailButtons(p)
       IN  [q EXCEPT !.nav = [at |-> Position(s, i), of |-> Len(s)],
                     !.item = IF i \in Range(p.items) THEN i ELSE None,
                     !.aborted = FALSE]

\* Mutant: an entry stays selected when the new incident has none.
DetailIncidentKeeps(p, i) ==
  IF p.inDetail = None THEN CheckDetailButtons([p EXCEPT !.aborted = FALSE])
  ELSE LET s == p.elements[p.inDetail]
       IN  CheckDetailButtons(
             [p EXCEPT !.nav = [at |-> Position(s, i), of |-> Len(s)],
                       !.item = IF i \in Range(p.items) THEN i ELSE @,
                       !.aborted = FALSE])

\* detailView.incidentSelected for incident i: its number in the cluster's
\* list as that is now, and the panel's entry, if it has one.
DetailIncident(p, i) ==
  IF p.inDetail = None THEN CheckDetailButtons([p EXCEPT !.aborted = FALSE])
  ELSE LET s == p.elements[p.inDetail]
       IN  CheckDetailButtons(
             [p EXCEPT !.nav = [at |-> Position(s, i), of |-> Len(s)],
                       !.item = IF i \in Range(p.items) THEN i ELSE None,
                       !.aborted = FALSE])

-----------------------------------------------------------------------------
(* The events of the window and their handlers.                             *)

\* The event clusterSelected: the map, then the panel.
ClusterSelected(p, e, to) == DetailCluster(MapCluster(p, e, to), e)

\* mapView.incidentSelected: selects the cluster whose circle carries
\* incident i; without such a circle the user is told so and that is all.
MapIncident(p, i, to) ==
  LET r == answer.rep[p.view][i]
  IN  IF r = None THEN p ELSE ClusterSelected(p, r, to)

\* highlightIncidentRow: the old row loses its highlight first; when the
\* table has no row for incident i its position is null and reading it throws.
HighlightIncidentRow(p, i) ==
  [p EXCEPT !.row = IF Tabled(i) THEN i ELSE None, !.aborted = @ \/ ~Tabled(i)]

\* Mutant: the panel is told before the map has selected the cluster.
IncidentSelectedPanelFirst(p, i, to) ==
  LET q == HighlightIncidentRow(p, i)
  IN  IF ~Tabled(i) THEN q ELSE MapIncident(DetailIncident(q, i), i, to)

\* The event incidentSelected: the table, the map, the panel.
IncidentSelected(p, i, to) ==
  LET q == HighlightIncidentRow(p, i)
  IN  IF ~Tabled(i) THEN q ELSE DetailIncident(MapIncident(q, i, to), i)

-----------------------------------------------------------------------------
(* The page.                                                                *)

\* An empty page whose map shows its first tile.
NothingShown ==
  [view |-> Home, loaded |-> {}, elements |-> [i \in Incidents |-> <<>>],
   lit |-> [w \in Views |-> None], row |-> None, onMap |-> None, inDetail |-> None,
   items |-> <<>>, item |-> None, nav |-> [at |-> 0, of |-> 0], able |-> {},
   aborted |-> FALSE]

\* The views are made and the query asks for the incidents.
Init ==
  /\ answer \in Answers
  /\ load = Requested(NothingLoading, "incidents")
  /\ phase = "asked"
  /\ page = NothingShown

\* The answer: the page takes the overlay down, rows are filled, the map layer
\* loads its first tile, and tmcpe.loadData counts the request off.
IncidentsLoaded ==
  /\ phase = "asked"
  /\ page' = Moved(page, page.view)
  /\ phase' = "shown"
  /\ load' = Finished(Dismissed(load), "incidents")
  /\ UNCHANGED answer

\* No usable answer: the callback throws and the page stays empty.
LoadFails ==
  /\ phase = "asked"
  /\ phase' = "failed"
  /\ UNCHANGED <<answer, load, page>>

\* The user closes the overlay.
Dismiss == load.up /\ load' = Dismissed(load) /\ UNCHANGED <<answer, phase, page>>

\* The tiles the map may show after centring on something out of sight.
Near(v) == {w \in Views : Zoom[w] = Zoom[v]}

\* A gesture of the user on a page that shows incidents.
Gesture(p) == phase = "shown" /\ page' = p /\ UNCHANGED <<answer, load, phase>>

ClickRow ==
  \E i \in answer.tabled, to \in Near(page.view) : Gesture(IncidentSelected(page, i, to))

\* clusterClicked: nothing happens for the cluster the map has selected;
\* any other one is selected, and then the first element of its list.
ClickCircle ==
  \E e \in Circles(page.view) \ {page.onMap}, to \in Near(page.view) :
    LET p == ClusterSelected(page, e, to)
    IN  Gesture(IncidentSelected(p, p.elements[e][1], to))

ClickItem ==
  \E i \in Range(page.items), to \in Near(page.view) : Gesture(IncidentSelected(page, i, to))

\* The neighbour of the selected entry, d places further on.
Neighbour(d) == page.items[Position(page.items, page.item) + d]

Previous ==
  /\ page.item # None /\ Position(page.items, page.item) > 1
  /\ \E to \in Near(page.view) : Gesture(IncidentSelected(page, Neighbour(-1), to))

NextIncident ==
  /\ page.item # None /\ Position(page.items, page.item) < Len(page.items)
  /\ \E to \in Near(page.view) : Gesture(IncidentSelected(page, Neighbour(1), to))

\* Zooming or dragging the map to another tile.
ChangeView == \E v \in Views \ {page.view} : Gesture(Moved(page, v))

Next == \/ IncidentsLoaded \/ LoadFails \/ Dismiss
        \/ ClickRow \/ ClickCircle \/ ClickItem \/ Previous \/ NextIncident \/ ChangeView

Spec == Init /\ [][Next]_vars

-----------------------------------------------------------------------------
(* Properties.                                                              *)

\* Every variable has its type.
TypeOK ==
  /\ answer \in Answers
  /\ load \in Overlay({"incidents"})
  /\ phase \in {"asked", "shown", "failed"}
  /\ page \in Page

\* The table and the panel never point at two different incidents, whatever
\* order of clicks led there and even when a handler threw on the way
\* (highlightIncidentRow takes the old highlight away before it can throw).
RowIsItem == page.row # None /\ page.item # None => page.row = page.item

\* Unless the last selection was cut short, the enabled buttons are exactly
\* those that lead somewhere (checkDetailButtons after every selection).
ButtonsMatch == ~page.aborted => page.able = Able(page.items, page.item)

\* The panel lists one whole cluster of a tile that was shown, never entries
\* of two places: lists that overlap are joined entry by entry, and lists of
\* clusters are overwritten while they are selected.
PanelIsOneCluster ==
  IF page.inDetail = None THEN page.items = <<>>
  ELSE \E v \in page.loaded : Range(page.items) = Square(v, page.inDetail)

\* As long as the map has shown one tile, a highlighted row that has a place
\* on the map is the selected entry of the panel, is counted at its own place
\* in the list, and the highlighted circle is the one that holds it.
OneTileAgrees ==
  page.loaded = {page.view} /\ page.row # None /\ Located(page.row) =>
    /\ page.item = page.row
    /\ page.nav = [at |-> Position(page.items, page.item), of |-> Len(page.items)]
    /\ page.lit[page.view] = answer.rep[page.view][page.row]
=============================================================================
