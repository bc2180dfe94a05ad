---------------------------- MODULE SummaryPage ----------------------------
(* The page that counts incidents by two groupings. Every change of its form*)
(* asks the server at once; nothing keeps two requests from being under way *)
(* together, and whatever answer comes last is drawn. The page takes the    *)
(* shared loading overlay down itself, next to what tmcpe.loadData does.    *)
EXTENDS LoadOverlay, FiniteSets

CONSTANTS Queries,    \* the settings of the form (and what can be typed in)
          Default,    \* the one the page starts with
          Tables,     \* the answers of the server
          MaxAsks,    \* bound: requests per visit
          None        \* nothing drawn yet

(* An answer: rows [group, stack, cnt], one for each pair of values found,  *)
(* which are the fields the server groups by.                               *)
IsTable(rows) ==
  /\ Len(rows) \in Nat /\ DOMAIN rows = 1..Len(rows)
  /\ \A i \in DOMAIN rows : rows[i].cnt \in Nat
  /\ \A i, j \in DOMAIN rows :
       rows[i].group = rows[j].group /\ rows[i].stack = rows[j].stack => i = j

ASSUME SummaryAssumption ==
  /\ Default \in Queries
  /\ \A rows \in Tables : IsTable(rows)
  /\ MaxAsks \in Nat \ {0}
  /\ None \notin 1..MaxAsks

VARIABLES form,       \* the query the form shows
          asks,       \* number of requests so far; the last one is of "last"
          last,       \* query.url: the query asked last
          underway,   \* requests without an answer: records [n, query]
          chart,      \* the chart: number and query of its request, rows and bars
          load,       \* the loading overlay
          overtaken,  \* history: an answer has come before that to an earlier request
          usable      \* history: the latest answer was one the page could use

vars == <<form, asks, last, underway, chart, load, overtaken, usable>>

Requests == [n : 1..MaxAsks, query : Queries]

What == "Loading aggregate data"

-----------------------------------------------------------------------------
(* The stacked bars: aggchart.update.                                       *)

\* The sum of f[1] to f[n].
SumTo(f, n) ==
  LET sum[k \in 0..n] == IF k = 0 THEN 0 ELSE f[k] + sum[k - 1]
  IN  sum[n]

\* The place of value v of field key among the values of that field, in the
\* order in which the rows bring them up (0 for the first).
Index(rows, key, v) ==
  LET first == CHOOSE i \in DOMAIN rows : rows[i][key] = v /\ \A j \in 1..(i - 1) : rows[j][key] # v
  IN  Cardinality({rows[j][key] : j \in 1..(first - 1)})

\* The values of a field.
Values(rows, key) == {rows[i][key] : i \in DOMAIN rows}

\* The count of a layer (a stack value) for a group, 0 when there is no row.
CountAt(rows, layer, g) ==
  LET hit == {i \in DOMAIN rows : /\ Index(rows, "stack", rows[i].stack) = layer
                                  /\ Index(rows, "group", rows[i].group) = g}
  IN  IF hit = {} THEN 0 ELSE rows[CHOOSE i \in hit : TRUE].cnt

\* Mutant: only the layer just below is counted.
LowerLayersOne(rows, layer, g) == IF layer = 0 THEN 0 ELSE CountAt(rows, layer - 1, g)

\* last_subgroup_data: the sum of the layers below.
LowerLayers(rows, layer, g) ==
  SumTo([k \in 1..layer |-> CountAt(rows, k - 1, g)], layer)

\* The bars, one for every layer and group; no row, no bars.
Bars(rows) ==
  [p \in (0..(Cardinality(Values(rows, "stack")) - 1)) \X (0..(Cardinality(Values(rows, "group")) - 1)) |->
     [x0 |-> LowerLayers(rows, p[1], p[2]), cnt |-> CountAt(rows, p[1], p[2])]]

-----------------------------------------------------------------------------
(* Requests and answers.                                                    *)

NoChart == [of |-> 0, query |-> None, rows |-> <<>>, bars |-> <<>>]

\* aggquery.url and executeQuery: ask for q; the overlay goes up.
Ask(q) ==
  /\ asks < MaxAsks
  /\ asks' = asks + 1
  /\ last' = q
  /\ underway' = underway \cup {[n |-> asks + 1, query |-> q]}
  /\ load' = Requested(load, What)

\* queryView.query with the default: the form is set to it and asks for it.
Init ==
  /\ form = Default
  /\ asks = 1
  /\ last = Default
  /\ underway = {[n |-> 1, query |-> Default]}
  /\ chart = NoChart
  /\ load = Requested(NothingLoading, What)
  /\ overtaken = FALSE
  /\ usable = TRUE

\* The user, not kept off by the overlay, changes one of the selects.
ChangeForm(q) ==
  /\ ~load.up /\ q # form
  /\ form' = q
  /\ Ask(q)
  /\ UNCHANGED <<chart, overtaken, usable>>

\* The user presses Enter in the advanced query: the form does not follow.
TypeQuery(q) ==
  /\ ~load.up
  /\ Ask(q)
  /\ UNCHANGED <<form, chart, overtaken, usable>>

\* The request r is over: it overtakes those that were made before it.
Leaves(r) ==
  /\ underway' = underway \ {r}
  /\ overtaken' = (overtaken \/ \E s \in underway : s.n < r.n)

\* Mutant: the page leaves the overlay to tmcpe.loadData.
ShownUnder(o) == Finished(o, What)

\* aggregatesLoaded hides the overlay, whatever else is being loaded; then
\* tmcpe.loadData counts the request off.
Shown(o) == Finished(Dismissed(o), What)

\* Mutant: the answer is drawn over the chart of an earlier one.
DrawnFirst(r, rows) ==
  IF chart.of # 0 THEN chart
  ELSE [of |-> r.n, query |-> r.query, rows |-> rows, bars |-> Bars(rows)]

\* aggchart.data: the old chart is removed, the new one is drawn.
Drawn(r, rows) == [of |-> r.n, query |-> r.query, rows |-> rows, bars |-> Bars(rows)]

\* A usable answer.
Answer(r, rows) ==
  /\ Leaves(r)
  /\ chart' = Drawn(r, rows)
  /\ load' = Shown(load)
  /\ usable' = TRUE
  /\ UNCHANGED <<form, asks, last>>

\* The server fails or sends nothing: the callback throws before anything is
\* drawn, counted off or hidden.
AnswerFails(r) ==
  /\ Leaves(r)
  /\ usable' = FALSE
  /\ UNCHANGED <<form, asks, last, chart, load>>

\* The user closes the overlay.
Dismiss ==
  /\ load.up
  /\ load' = Dismissed(load)
  /\ UNCHANGED <<form, asks, last, underway, chart, overtaken, usable>>

Answered == \E r \in underway : (\E rows \in Tables : Answer(r, rows)) \/ AnswerFails(r)

Next ==
  \/ \E q \in Queries : ChangeForm(q) \/ TypeQuery(q)
  \/ Answered
  \/ Dismiss

Spec == Init /\ [][Next]_vars

\* The browser reports the end of every request, well or not.
FairSpec == Spec /\ WF_vars(Answered)

-----------------------------------------------------------------------------
(* Properties.                                                              *)

Charts ==
  [of : 0..MaxAsks, query : Queries \cup {None}, rows : Tables \cup {<<>>},
   bars : {Bars(t) : t \in Tables} \cup {<<>>}]

\* Every variable has its type.
TypeOK ==
  /\ form \in Queries /\ last \in Queries
  /\ asks \in 1..MaxAsks
  /\ underway \subseteq Requests
  /\ chart \in Charts
  /\ load \in Overlay({What})
  /\ overtaken \in BOOLEAN /\ usable \in BOOLEAN

\* At rest the chart is that of the query asked last, unless an answer came
\* before that to an earlier request or the last one to come was no use:
\* nothing else, no order of changes, closings and failures, makes it stale.
StaleOnlyIfOvertaken ==
  underway = {} /\ usable /\ ~overtaken => chart.of = asks /\ chart.query = last

\* With nothing under way the overlay is in the way only when the last answer
\* was no use, although a failed request is never counted off: the page's own
\* hide makes up for a count that will not reach zero again.
StuckOnlyAfterFailure == underway = {} /\ load.up => ~usable

\* The count of the rows in S.
Total(rows, S) == SumTo([i \in DOMAIN rows |-> IF i \in S THEN rows[i].cnt ELSE 0], Len(rows))

\* The bars of group g lie side by side between zero and the number of its
\* incidents, one as long as the count of each of its rows.
Tile(rows, bars, g) ==
  LET mine == {i \in DOMAIN rows : rows[i].group = g}
      at   == Index(rows, "group", g)
      bar(i) == bars[<<Index(rows, "stack", rows[i].stack), at>>]
  IN  /\ \A i \in mine : bar(i).cnt = rows[i].cnt
      /\ \A i, j \in mine : i # j => \/ bar(i).x0 + bar(i).cnt <= bar(j).x0
                                     \/ bar(j).x0 + bar(j).cnt <= bar(i).x0
      /\ \A i \in mine : bar(i).x0 + bar(i).cnt <= Total(rows, mine)

\* The bars of a group lie side by side from zero to the number of incidents
\* in the group, one as long as the count of each of its rows.
BarsTile == \A g \in Values(chart.rows, "group") : Tile(chart.rows, chart.bars, g)

\* Every request is answered in the end, and the user is not locked out for
\* good by an overlay that goes with an answer the page could use.
Settles == <>[](underway = {} /\ (load.up => ~usable))
=============================================================================
