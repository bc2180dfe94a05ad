-------------------------- MODULE QueryPageProofs --------------------------
(* What holds of the query page for all numbers of incidents, answers, maps *)
(* and delays, proved with TLAPS. Row, entry and buttons come first: for    *)
(* them positions, clusters and lists are left unexpanded, the results      *)
(* follow from the order of the handlers alone. Then come the lists, what   *)
(* they have to do with the circles of the map, and what follows from that. *)
EXTENDS QueryPage, NaturalsLemmas

USE QueryAssumption

(* A record with the fields of the page, whatever they hold.                *)
Fields == {"view", "loaded", "elements", "lit", "row", "onMap", "inDetail", "items", "item",
           "nav", "able", "aborted"}
IsPage(p) == p = [k \in Fields |-> p[k]]

(* Nothing is in the panel before a cluster is.                             *)
EmptyUntilCluster(p) == p.inDetail = None => p.item = None

(* What handlers may assume of one another.                                 *)
Basic(p) == IsPage(p) /\ EmptyUntilCluster(p)

(* The two properties of one page.                                          *)
RowIsItemOf(p) == p.row # None /\ p.item # None => p.row = p.item
ButtonsMatchOf(p) == ~p.aborted => p.able = Able(p.items, p.item)

Good(p) == Basic(p) /\ RowIsItemOf(p) /\ ButtonsMatchOf(p)

-----------------------------------------------------------------------------
(* The map leaves the panel and the table alone.                            *)

(* Another tile, or the first.                                              *)
LEMMA MovedKeeps ==
  ASSUME NEW p, IsPage(p), NEW v
  PROVE  LET q == Moved(p, v)
         IN  /\ IsPage(q) /\ q.row = p.row /\ q.inDetail = p.inDetail /\ q.items = p.items
             /\ q.item = p.item /\ q.able = p.able /\ q.aborted = p.aborted
<1> DEFINE els == IF v \in p.loaded THEN p.elements
                  ELSE [i \in Incidents |-> IF i \in Circles(v) THEN ByDelay(Square(v, i))
                                            ELSE p.elements[i]]
           q == Moved(p, v)
<1>1. q = [p EXCEPT !.view = v, !.loaded = p.loaded \cup {v}, !.elements = els]
  BY DEF Moved
<1> HIDE DEF els
<1> QED
  BY <1>1 DEF IsPage, Fields

(* The map may move to show the circle it is to highlight.                  *)
LEMMA MapClusterKeeps ==
  ASSUME NEW p, IsPage(p), NEW e, NEW to
  PROVE  LET q == MapCluster(p, e, to)
         IN  /\ IsPage(q) /\ q.row = p.row /\ q.inDetail = p.inDetail /\ q.items = p.items
             /\ q.item = p.item /\ q.able = p.able /\ q.aborted = p.aborted
<1>1. CASE e = p.onMap
  BY <1>1 DEF MapCluster
<1>2. CASE e # p.onMap
  <2> DEFINE m == Moved(p, to)
             c == answer.rep[to][p.elements[e][1]]
  <2>1. MapCluster(p, e, to) = [m EXCEPT !.lit = [m.lit EXCEPT ![to] = c], !.onMap = e]
    BY <1>2, MovedKeeps DEF MapCluster, IsPage, Fields
  <2>2. IsPage(m) /\ m.row = p.row /\ m.inDetail = p.inDetail /\ m.items = p.items
          /\ m.item = p.item /\ m.able = p.able /\ m.aborted = p.aborted
    BY MovedKeeps
  <2> HIDE DEF m, c
  <2> QED
    BY <2>1, <2>2 DEF IsPage, Fields
<1> QED
  BY <1>1, <1>2

(* Selecting a cluster keeps the row and the selected entry, or drops the entry. *)
LEMMA ClusterSelectedKeeps ==
  ASSUME NEW p, Basic(p), NEW e, e # None, NEW to
  PROVE  LET q == ClusterSelected(p, e, to)
         IN  Basic(q) /\ q.row = p.row /\ q.item \in {p.item, None}
<1> DEFINE m == MapCluster(p, e, to)
           s == Joined(m.items, m.elements[e])
           q == ClusterSelected(p, e, to)
<1>1. IsPage(m) /\ m.row = p.row /\ m.inDetail = p.inDetail /\ m.item = p.item
  BY MapClusterKeeps DEF Basic
<1>2. q = DetailCluster(m, e)
  BY DEF ClusterSelected
<1>3. CASE e = m.inDetail
  BY <1>1, <1>2, <1>3 DEF DetailCluster, Basic, EmptyUntilCluster
<1>4. CASE e # m.inDetail
  <2>1. q = [m EXCEPT !.inDetail = e, !.items = s,
                      !.item = IF m.item \in Range(s) THEN m.item ELSE None]
    BY <1>2, <1>4 DEF DetailCluster
  <2> HIDE DEF m, s
  <2> QED
    BY <1>1, <2>1 DEF Basic, IsPage, Fields, EmptyUntilCluster
<1> QED
  BY <1>3, <1>4

-----------------------------------------------------------------------------
(* The panel's handler, last of the three, puts things right.               *)

(* The buttons are those the entry and its list ask for.                    *)
LEMMA CheckDetailButtonsMatch ==
  ASSUME NEW p, IsPage(p)
  PROVE  LET q == CheckDetailButtons(p)
         IN  /\ IsPage(q) /\ q.row = p.row /\ q.item = p.item /\ q.inDetail = p.inDetail
             /\ q.able = Able(q.items, q.item)
<1> DEFINE a == Able(p.items, p.item)
<1>1. CheckDetailButtons(p) = [p EXCEPT !.able = a]
  BY DEF CheckDetailButtons
<1>2. LET q == [p EXCEPT !.able = a]
      IN  /\ IsPage(q) /\ q.row = p.row /\ q.item = p.item /\ q.inDetail = p.inDetail
          /\ q.items = p.items /\ q.able = a
  <2> HIDE DEF a
  <2> QED BY DEF IsPage, Fields
<1> HIDE DEF a
<1>3. a = Able(p.items, p.item)
  BY DEF a
<1> QED
  BY <1>1, <1>2, <1>3

(* The entry is that of the row, or there is none.                          *)
LEMMA DetailIncidentGood ==
  ASSUME NEW p, Basic(p), NEW i, p.row = i
  PROVE  Good(DetailIncident(p, i))
<1>1. CASE p.inDetail = None
  <2> DEFINE q == [p EXCEPT !.aborted = FALSE]
  <2>1. IsPage(q) /\ q.row = p.row /\ q.item = p.item /\ q.inDetail = p.inDetail
    BY DEF Basic, IsPage, Fields
  <2>2. DetailIncident(p, i) = CheckDetailButtons(q)
    BY <1>1 DEF DetailIncident
  <2> HIDE DEF q
  <2> QED
    BY <1>1, <2>1, <2>2, CheckDetailButtonsMatch
       DEF Good, Basic, EmptyUntilCluster, RowIsItemOf, ButtonsMatchOf
<1>2. CASE p.inDetail # None
  <2> DEFINE s == p.elements[p.inDetail]
             n == [at |-> Position(s, i), of |-> Len(s)]
             t == IF i \in Range(p.items) THEN i ELSE None
             q == [p EXCEPT !.nav = n, !.item = t, !.aborted = FALSE]
  <2>1. DetailIncident(p, i) = CheckDetailButtons(q)
    BY <1>2 DEF DetailIncident
  <2>2. t \in {i, None}
    OBVIOUS
  <2>3. IsPage(q) /\ q.row = p.row /\ q.item = t /\ q.inDetail = p.inDetail
    <3> HIDE DEF n, t, s
    <3> QED BY DEF Basic, IsPage, Fields
  <2> HIDE DEF q, t
  <2> QED
    BY <1>2, <2>1, <2>2, <2>3, CheckDetailButtonsMatch
       DEF Good, Basic, EmptyUntilCluster, RowIsItemOf, ButtonsMatchOf
<1> QED
  BY <1>1, <1>2

(* The event incidentSelected ends well from any page, one whose row and    *)
(* entry differ included: either the panel follows or the row is dropped.   *)
LEMMA IncidentSelectedGood ==
  ASSUME NEW p, Basic(p), NEW i, NEW to
  PROVE  Good(IncidentSelected(p, i, to))
<1> DEFINE h == HighlightIncidentRow(p, i)
           m == MapIncident(h, i, to)
<1>1. h = [p EXCEPT !.row = IF Tabled(i) THEN i ELSE None, !.aborted = p.aborted \/ ~Tabled(i)]
  BY DEF HighlightIncidentRow
<1>2. Basic(h) /\ h.row = (IF Tabled(i) THEN i ELSE None) /\ h.aborted = (p.aborted \/ ~Tabled(i))
  <2> HIDE DEF h
  <2> QED BY <1>1 DEF Basic, IsPage, Fields, EmptyUntilCluster
<1>3. CASE ~Tabled(i)
  <2>1. IncidentSelected(p, i, to) = h
    BY <1>3 DEF IncidentSelected
  <2> HIDE DEF h
  <2> QED BY <1>2, <1>3, <2>1 DEF Good, RowIsItemOf, ButtonsMatchOf
<1>4. CASE Tabled(i)
  <2>1. IncidentSelected(p, i, to) = DetailIncident(m, i)
    BY <1>4 DEF IncidentSelected
  <2>2. Basic(m) /\ m.row = i
    <3> HIDE DEF h
    <3>1. CASE answer.rep[h.view][i] = None
      BY <1>2, <1>4, <3>1 DEF MapIncident
    <3>2. CASE answer.rep[h.view][i] # None
      BY <1>2, <1>4, <3>2, ClusterSelectedKeeps DEF MapIncident
    <3> QED BY <3>1, <3>2
  <2> HIDE DEF m
  <2> QED BY <2>1, <2>2, DetailIncidentGood
<1> QED
  BY <1>3, <1>4

-----------------------------------------------------------------------------
(* Every step of the page.                                                  *)

GoodPage == Good(page)

(* A gesture ends in a selected incident or only moves the map.             *)
LEMMA GoodStep == GoodPage /\ [Next]_vars => GoodPage'
<1> SUFFICES ASSUME Good(page), [Next]_vars PROVE Good(page')
  BY DEF GoodPage
<1>1. Basic(page)
  BY DEF Good
<1>2. CASE UNCHANGED vars
  BY <1>2 DEF vars
<1>3. CASE LoadFails \/ Dismiss
  BY <1>3 DEF LoadFails, Dismiss
<1>4. ASSUME NEW v, page' = Moved(page, v) PROVE Good(page')
  BY <1>1, <1>4, MovedKeeps
     DEF Good, Basic, EmptyUntilCluster, RowIsItemOf, ButtonsMatchOf
<1>5. CASE IncidentsLoaded \/ ChangeView
  BY <1>4, <1>5 DEF IncidentsLoaded, ChangeView, Gesture
<1>6. ASSUME NEW i, NEW to, page' = IncidentSelected(page, i, to) PROVE Good(page')
  BY <1>1, <1>6, IncidentSelectedGood
<1>7. CASE ClickRow \/ ClickItem \/ Previous \/ NextIncident
  BY <1>6, <1>7 DEF ClickRow, ClickItem, Previous, NextIncident, Gesture
<1>8. CASE ClickCircle
  <2>1. PICK e \in Circles(page.view), to \in Near(page.view) :
          LET p == ClusterSelected(page, e, to)
          IN  page' = IncidentSelected(p, p.elements[e][1], to)
    BY <1>8 DEF ClickCircle, Gesture
  <2>2. e # None
    BY DEF Circles
  <2> QED
    BY <1>1, <2>1, <2>2, ClusterSelectedKeeps, IncidentSelectedGood
<1> QED
  BY <1>2, <1>3, <1>5, <1>7, <1>8 DEF Next

(* An empty page.                                                           *)
LEMMA GoodInit == Init => GoodPage
<1> SUFFICES ASSUME Init PROVE Good(page)
  BY DEF GoodPage
<1>1. page = NothingShown
  BY DEF Init
<1>2. IsPage(page)
  BY <1>1 DEF IsPage, Fields, NothingShown
<1>3. page.row = None /\ page.item = None /\ page.items = <<>> /\ page.able = {}
  BY <1>1 DEF NothingShown
<1>4. Able(<<>>, None) = {}
  BY DEF Able
<1> QED
  BY <1>2, <1>3, <1>4 DEF Good, Basic, EmptyUntilCluster, RowIsItemOf, ButtonsMatchOf

(* For every answer and every way to click: table and panel never point at  *)
(* two incidents.                                                           *)
THEOREM RowAndItemAgree == Spec => []RowIsItem
<1>1. GoodPage => RowIsItem
  BY DEF GoodPage, Good, RowIsItemOf, RowIsItem
<1> QED
  BY GoodInit, GoodStep, <1>1, PTL DEF Spec

(* For every answer and every way to click: the enabled buttons lead        *)
(* somewhere, unless the last selection was cut short.                      *)
THEOREM ButtonsLeadSomewhere == Spec => []ButtonsMatch
<1>1. GoodPage => ButtonsMatch
  BY DEF GoodPage, Good, ButtonsMatchOf, ButtonsMatch
<1> QED
  BY GoodInit, GoodStep, <1>1, PTL DEF Spec

-----------------------------------------------------------------------------
(* Lists of incidents.                                                      *)

(* The lists Within goes through, one for each entry it has looked at.      *)
IsGathered(f, s, S) ==
  /\ f \in [0..Len(s) -> Seq(Incidents)] /\ f[0] = <<>>
  /\ \A n \in 1..Len(s) : f[n] = IF s[n] \in S THEN Append(f[n - 1], s[n]) ELSE f[n - 1]

(* The function Within names exists.                                        *)
LEMMA WithinSteps ==
  ASSUME NEW s \in Seq(Incidents), NEW S
  PROVE  \E f : IsGathered(f, s, S) /\ Within(s, S) = f[Len(s)]
<1> DEFINE V == Seq(Incidents)
           step == [x \in (1..Len(s)) \X V |->
                      IF s[x[1]] \in S THEN Append(x[2], s[x[1]]) ELSE x[2]]
<1>1. Len(s) \in Nat /\ <<>> \in V
  OBVIOUS
<1>2. IsStep(step, Len(s), V)
  <2>1. ASSUME NEW x \in (1..Len(s)) \X V
        PROVE  (IF s[x[1]] \in S THEN Append(x[2], s[x[1]]) ELSE x[2]) \in V
    <3>1. x[1] \in 1..Len(s) /\ x[2] \in V
      OBVIOUS
    <3>2. s[x[1]] \in Incidents
      BY <3>1
    <3>3. Append(x[2], s[x[1]]) \in V
      BY <3>1, <3>2
    <3> QED BY <3>1, <3>3, Zenon
  <2> QED BY <2>1, Zenon DEF IsStep
<1>3. PICK f : IsIterated(f, step, <<>>, Len(s), V)
  <2> HIDE DEF V, step
  <2> QED BY <1>1, <1>2, Recursion
<1>4. f \in [0..Len(s) -> V] /\ f[0] = <<>> /\ \A n \in 1..Len(s) : f[n] = step[<<n, f[n - 1]>>]
  <2> HIDE DEF V, step
  <2> QED BY <1>3 DEF IsIterated
<1>5. ASSUME NEW n \in 1..Len(s)
      PROVE  f[n] = IF s[n] \in S THEN Append(f[n - 1], s[n]) ELSE f[n - 1]
  <2>1. n - 1 \in 0..Len(s)
    OBVIOUS
  <2>2. f[n - 1] \in V
    <3> HIDE DEF V
    <3> QED BY <1>4, <2>1
  <2>3. <<n, f[n - 1]>> \in (1..Len(s)) \X V
    BY <2>2
  <2> QED BY <1>4, <2>3
<1>6. f = [n \in 0..Len(s) |->
             IF n = 0 THEN <<>> ELSE IF s[n] \in S THEN Append(f[n - 1], s[n]) ELSE f[n - 1]]
  <2>1. ASSUME NEW n \in 0..Len(s)
        PROVE  f[n] = IF n = 0 THEN <<>>
                      ELSE IF s[n] \in S THEN Append(f[n - 1], s[n]) ELSE f[n - 1]
    <3>1. CASE n = 0
      BY <1>4, <3>1
    <3>2. CASE n # 0
      <4>1. n \in 1..Len(s)
        BY <3>2
      <4> QED BY <1>5, <3>2, <4>1
    <3> QED BY <3>1, <3>2
  <2> HIDE DEF V, step
  <2> QED BY <1>4, <2>1, Zenon
<1> DEFINE Is(g) == g = [n \in 0..Len(s) |->
             IF n = 0 THEN <<>> ELSE IF s[n] \in S THEN Append(g[n - 1], s[n]) ELSE g[n - 1]]
           h == CHOOSE g : Is(g)
<1>7. Within(s, S) = h[Len(s)]
  BY Zenon DEF Within
<1>8. Is(h)
  BY <1>6, Zenon
<1>9. h \in [0..Len(s) -> V] /\ h[0] = <<>>
        /\ \A n \in 1..Len(s) : h[n] = IF s[n] \in S THEN Append(h[n - 1], s[n]) ELSE h[n - 1]
  <2>1. h[0] = <<>>
    <3>1. 0 \in 0..Len(s)
      OBVIOUS
    <3> HIDE DEF h
    <3> QED BY <1>8, <3>1
  <2>2. ASSUME NEW n \in 1..Len(s)
        PROVE  h[n] = IF s[n] \in S THEN Append(h[n - 1], s[n]) ELSE h[n - 1]
    <3>1. n \in 0..Len(s) /\ n # 0
      OBVIOUS
    <3> HIDE DEF h
    <3> QED BY <1>8, <3>1
  <2> DEFINE T == {n \in 0..Len(s) : h[n] \in V}
  <2>3. 0 \in T
    <3>1. 0 \in 0..Len(s)
      OBVIOUS
    <3>2. <<>> \in V
      OBVIOUS
    <3> HIDE DEF h, V
    <3> QED BY <2>1, <3>1, <3>2
  <2>4. ASSUME NEW n \in 0..(Len(s) - 1), n \in T PROVE n + 1 \in T
    <3>1. n + 1 \in 1..Len(s) /\ n + 1 \in 0..Len(s) /\ (n + 1) - 1 = n /\ h[n] \in V
      BY <2>4
    <3>2. s[n + 1] \in Incidents
      BY <3>1
    <3>3. Append(h[n], s[n + 1]) \in V
      <4> HIDE DEF h
      <4> QED BY <3>1, <3>2
    <3>4. h[n + 1] = IF s[n + 1] \in S THEN Append(h[n], s[n + 1]) ELSE h[n]
      <4> HIDE DEF h
      <4> QED BY <2>2, <3>1
    <3>5. h[n + 1] \in V
      <4> HIDE DEF h, V
      <4> QED BY <3>1, <3>3, <3>4
    <3> HIDE DEF h
    <3> QED BY <3>1, <3>5
  <2>5. 0..Len(s) \subseteq T
    <3> HIDE DEF T
    <3> QED BY <1>1, <2>3, <2>4, UpTo
  <2>6. \A n \in 0..Len(s) : h[n] \in V
    BY <2>5
  <2>7. h \in [0..Len(s) -> V]
    <3> HIDE DEF h, V
    <3>1. DOMAIN h = 0..Len(s) /\ h = [n \in 0..Len(s) |-> h[n]]
      BY <1>8
    <3> QED BY <3>1, <2>6
  <2> HIDE DEF h
  <2> QED BY <2>1, <2>2, <2>7
<1> HIDE DEF h
<1> QED BY <1>7, <1>9 DEF IsGathered

(* Nothing is lost and nothing moves.                                       *)
LEMMA WithinIs ==
  ASSUME NEW s \in Seq(Incidents), NEW S
  PROVE  /\ Within(s, S) \in Seq(Incidents) /\ Range(Within(s, S)) = Range(s) \cap S
         /\ Range(s) \subseteq S => Within(s, S) = s
<1>0. PICK f : IsGathered(f, s, S) /\ Within(s, S) = f[Len(s)]
  BY WithinSteps
<1>1. /\ f \in [0..Len(s) -> Seq(Incidents)] /\ f[0] = <<>> /\ Within(s, S) = f[Len(s)]
      /\ \A n \in 1..Len(s) : f[n] = IF s[n] \in S THEN Append(f[n - 1], s[n]) ELSE f[n - 1]
  BY <1>0, Zenon DEF IsGathered
<1> DEFINE Fits(n) == /\ Range(f[n]) = {s[i] : i \in 1..n} \cap S
                      /\ Range(s) \subseteq S => Len(f[n]) = n /\ \A i \in 1..n : f[n][i] = s[i]
           T == {n \in 0..Len(s) : Fits(n)}
<1>2. 0 \in T
  <2>1. /\ 0 \in 0..Len(s) /\ {s[i] : i \in 1..0} = {} /\ 1..0 = {}
        /\ Range(<<>>) = {} /\ Len(<<>>) = 0
    BY DEF Range
  <2>2. Fits(0)
    BY <1>1, <2>1
  <2> QED BY <2>1, <2>2
<1>3. ASSUME NEW n \in 0..(Len(s) - 1), n \in T PROVE n + 1 \in T
  <2>0. /\ n \in Nat /\ n + 1 \in 1..Len(s) /\ n + 1 \in 0..Len(s) /\ (n + 1) - 1 = n
        /\ n \in 0..Len(s) /\ s[n + 1] \in Incidents
    OBVIOUS
  <2>1. /\ n \in Nat /\ n + 1 \in 1..Len(s) /\ n + 1 \in 0..Len(s) /\ (n + 1) - 1 = n
        /\ n \in 0..Len(s) /\ Fits(n) /\ f[n] \in Seq(Incidents) /\ s[n + 1] \in Incidents
    <3>1. f[n] \in Seq(Incidents)
      BY <1>1, <2>0
    <3>2. Fits(n)
      <4> HIDE DEF Fits
      <4> QED BY <1>3
    <3> QED BY <2>0, <3>1, <3>2
  <2>2. f[n + 1] = IF s[n + 1] \in S THEN Append(f[n], s[n + 1]) ELSE f[n]
    BY <1>1, <2>1
  <2>3. {s[i] : i \in 1..(n + 1)} = {s[i] : i \in 1..n} \cup {s[n + 1]}
    <3>1. 1..(n + 1) = (1..n) \cup {n + 1}
      BY <2>1
    <3> QED BY <3>1
  <2>4. CASE s[n + 1] \in S
    <3>1. PICK a : a = f[n]
      OBVIOUS
    <3>2. PICK x : x = s[n + 1]
      OBVIOUS
    <3>3. f[n + 1] = Append(a, x) /\ a \in Seq(Incidents) /\ x \in Incidents
      BY <2>1, <2>2, <2>4, <3>1, <3>2
    <3>4. /\ Len(Append(a, x)) = Len(a) + 1 /\ Append(a, x)[Len(a) + 1] = x
          /\ \A i \in 1..Len(a) : Append(a, x)[i] = a[i]
          /\ DOMAIN Append(a, x) = 1..(Len(a) + 1) /\ DOMAIN a = 1..Len(a) /\ Len(a) \in Nat
      BY <3>3
    <3>5. Range(Append(a, x)) = Range(a) \cup {x}
      <4>1. 1..(Len(a) + 1) = (1..Len(a)) \cup {Len(a) + 1}
        BY <3>4
      <4> QED BY <3>4, <4>1 DEF Range
    <3>6. Range(f[n + 1]) = {s[i] : i \in 1..(n + 1)} \cap S
      BY <2>1, <2>3, <2>4, <3>1, <3>2, <3>3, <3>5
    <3>7. ASSUME Range(s) \subseteq S
          PROVE  Len(f[n + 1]) = n + 1 /\ \A i \in 1..(n + 1) : f[n + 1][i] = s[i]
      <4>1. Len(a) = n /\ \A i \in 1..n : a[i] = s[i]
        BY <2>1, <3>1, <3>7
      <4>2. 1..(n + 1) = (1..n) \cup {n + 1}
        BY <2>1
      <4> QED BY <3>2, <3>3, <3>4, <4>1, <4>2
    <3> QED BY <2>1, <3>6, <3>7
  <2>5. CASE s[n + 1] \notin S
    <3>1. f[n + 1] = f[n]
      BY <2>2, <2>5
    <3>2. Range(f[n + 1]) = {s[i] : i \in 1..(n + 1)} \cap S
      BY <2>1, <2>3, <2>5, <3>1
    <3>3. s[n + 1] \in Range(s)
      <4>1. DOMAIN s = 1..Len(s)
        OBVIOUS
      <4> QED BY <2>1, <4>1 DEF Range
    <3>4. ~(Range(s) \subseteq S)
      BY <2>5, <3>3
    <3> QED BY <2>1, <3>2, <3>4
  <2> QED BY <2>4, <2>5
<1>4. Fits(Len(s))
  <2>1. Len(s) \in Nat /\ Len(s) \in 0..Len(s)
    OBVIOUS
  <2>2. 0..Len(s) \subseteq T
    <3> HIDE DEF T
    <3> QED BY <1>2, <1>3, <2>1, UpTo
  <2> QED BY <2>1, <2>2
<1>5. Len(s) \in 0..Len(s) /\ DOMAIN s = 1..Len(s) /\ Range(s) = {s[i] : i \in 1..Len(s)}
  BY DEF Range
<1>6. PICK w : w = Within(s, S)
  OBVIOUS
<1>7. w \in Seq(Incidents) /\ Range(w) = Range(s) \cap S
  <2>1. w = f[Len(s)]
    BY <1>1, <1>6
  <2>2. w \in Seq(Incidents)
    <3> HIDE DEF T
    <3> QED BY <1>1, <1>5, <2>1
  <2> QED BY <1>4, <1>5, <2>1, <2>2
<1>8. ASSUME Range(s) \subseteq S PROVE w = s
  <2>1. Len(w) = Len(s) /\ \A i \in 1..Len(s) : w[i] = s[i]
    BY <1>1, <1>4, <1>6, <1>8
  <2>2. w = [i \in 1..Len(w) |-> w[i]] /\ s = [i \in 1..Len(s) |-> s[i]]
    BY <1>7
  <2>3. [i \in 1..Len(w) |-> w[i]] = [i \in 1..Len(s) |-> s[i]]
    BY <2>1
  <2> QED BY <2>2, <2>3, Zenon
<1> QED BY <1>6, <1>7, <1>8

(* What ByDelay chooses from.                                               *)
Sorted(S, s) ==
  /\ s \in [1..Cardinality(S) -> S]
  /\ \A a, b \in DOMAIN s : a < b => s[a] # s[b] /\ Delay[s[a]] >= Delay[s[b]]

(* Every set of incidents is finite.                                        *)
LEMMA FiniteIncidents ==
  ASSUME NEW S \in SUBSET Incidents
  PROVE  IsFiniteSet(S) /\ Cardinality(S) \in Nat
<1>1. IsFiniteSet(Incidents)
  BY FS_Interval DEF Incidents
<1> QED BY <1>1, FS_Subset, FS_CardinalityType

(* Every set of incidents can be sorted: the one with the smallest delay    *)
(* goes to the end.                                                         *)
LEMMA CanBeSorted ==
  ASSUME NEW S \in SUBSET Incidents
  PROVE  \E s : Sorted(S, s)
<1> DEFINE T == {n \in 0..Cardinality(S) :
                   \A R \in SUBSET S : Cardinality(R) = n => \E s : Sorted(R, s)}
<1>0. Cardinality(S) \in Nat /\ \A R \in SUBSET S : IsFiniteSet(R) /\ R \subseteq Incidents
  BY FiniteIncidents
<1>1. 0 \in T
  <2>1. ASSUME NEW R \in SUBSET S, Cardinality(R) = 0 PROVE \E s : Sorted(R, s)
    <3>1. R = {} /\ 1..0 = {}
      BY <1>0, <2>1, FS_EmptySet
    <3>2. [i \in 1..0 |-> N] \in [1..0 -> R] /\ DOMAIN [i \in 1..0 |-> N] = {}
      BY <3>1
    <3>3. Sorted(R, [i \in 1..0 |-> N])
      BY <2>1, <3>2 DEF Sorted
    <3> QED BY <3>3
  <2>2. 0 \in 0..Cardinality(S)
    BY <1>0
  <2> QED BY <2>1, <2>2
<1>2. ASSUME NEW n \in 0..(Cardinality(S) - 1), n \in T PROVE n + 1 \in T
  <2>0. n \in Nat /\ n + 1 \in 0..Cardinality(S) /\ n + 1 \in Nat \ {0}
    BY <1>0
  <2>1. ASSUME NEW R \in SUBSET S, Cardinality(R) = n + 1 PROVE \E s : Sorted(R, s)
    <3>1. IsFiniteSet(R) /\ R \subseteq Incidents /\ R # {}
      BY <1>0, <2>0, <2>1, FS_EmptySet
    <3>2. PICK i \in R : \A j \in R : Delay[i] <= Delay[j]
      <4> DEFINE D == {Delay[j] : j \in R}
      <4>1. D \in SUBSET Nat /\ D # {}
        BY <3>1
      <4>2. PICK d \in D : \A e \in D : d <= e
        <5> HIDE DEF D
        <5> QED BY <4>1, SmallestNat
      <4> QED BY <4>2
    <3>3. Cardinality(R \ {i}) = n
      <4>1. Cardinality(R \ {i}) = Cardinality(R) - 1
        BY <3>1, FS_RemoveElement
      <4> QED BY <2>0, <2>1, <4>1
    <3>4. PICK s : Sorted(R \ {i}, s)
      <4>1. R \ {i} \in SUBSET S
        OBVIOUS
      <4> QED BY <1>2, <3>3, <4>1
    <3>5. s \in [1..n -> R \ {i}] /\ DOMAIN s = 1..n
            /\ \A a, b \in 1..n : a < b => s[a] # s[b] /\ Delay[s[a]] >= Delay[s[b]]
      BY <3>3, <3>4 DEF Sorted
    <3> DEFINE t == [k \in 1..(n + 1) |-> IF k = n + 1 THEN i ELSE s[k]]
    <3>6. \A k \in 1..(n + 1) : k # n + 1 => k \in 1..n /\ t[k] = s[k] /\ s[k] \in R /\ s[k] # i
      BY <2>0, <3>5
    <3>7. n + 1 \in 1..(n + 1) /\ t[n + 1] = i
      BY <2>0
    <3>8. t \in [1..(n + 1) -> R]
      BY <3>6
    <3>9. ASSUME NEW a \in 1..(n + 1), NEW b \in 1..(n + 1), a < b
          PROVE  t[a] # t[b] /\ Delay[t[a]] >= Delay[t[b]]
      <4>1. a # n + 1
        BY <3>9
      <4>2. a \in 1..n /\ t[a] = s[a] /\ s[a] \in R /\ s[a] # i
        <5> HIDE DEF t
        <5> QED BY <3>6, <4>1
      <4>3. CASE b = n + 1
        <5>1. t[b] = i
          BY <4>3
        <5>2. Delay[i] <= Delay[s[a]] /\ Delay[i] \in Nat /\ Delay[s[a]] \in Nat
          BY <3>1, <3>2, <4>2
        <5>3. Delay[s[a]] >= Delay[i]
          BY <5>2
        <5> HIDE DEF t
        <5> QED BY <4>2, <5>1, <5>3
      <4>4. CASE b # n + 1
        <5>1. b \in 1..n /\ t[b] = s[b]
          <6> HIDE DEF t
          <6> QED BY <3>6, <4>4
        <5> HIDE DEF t
        <5> QED BY <3>5, <3>9, <4>2, <5>1
      <4> QED BY <4>3, <4>4
    <3>10. DOMAIN t = 1..(n + 1)
      OBVIOUS
    <3> HIDE DEF t
    <3>11. Sorted(R, t)
      BY <2>1, <3>8, <3>9, <3>10 DEF Sorted
    <3> QED BY <3>11
  <2> QED BY <2>0, <2>1
<1>3. Cardinality(S) \in T
  <2>1. Cardinality(S) \in 0..Cardinality(S)
    BY <1>0
  <2> HIDE DEF T
  <2> QED BY <1>0, <1>1, <1>2, <2>1, UpTo
<1> QED BY <1>3

(* A cluster as a list has all of it.                                       *)
LEMMA ByDelayIs ==
  ASSUME NEW S \in SUBSET Incidents
  PROVE  ByDelay(S) \in Seq(Incidents) /\ Range(ByDelay(S)) = S /\ (S # {} => ByDelay(S)[1] \in S)
<1> DEFINE C == Cardinality(S)
<1>1. PICK s : s = ByDelay(S)
  OBVIOUS
<1>2. Sorted(S, s)
  <2>1. \E t : Sorted(S, t)
    BY CanBeSorted
  <2>2. \E t \in [1..Cardinality(S) -> S] :
          \A a, b \in DOMAIN t : a < b => t[a] # t[b] /\ Delay[t[a]] >= Delay[t[b]]
    BY <2>1, Zenon DEF Sorted
  <2> QED BY <1>1, <2>2 DEF ByDelay, Sorted
<1>3. C \in Nat /\ IsFiniteSet(S)
  BY FiniteIncidents
<1>4. s \in [1..C -> S] /\ DOMAIN s = 1..C
  BY <1>2 DEF Sorted
<1>5. \A a, b \in 1..C : a # b => s[a] # s[b]
  <2>1. \A a, b \in 1..C : a < b => s[a] # s[b]
    BY <1>2, <1>4 DEF Sorted
  <2>2. \A a, b \in 1..C : a # b => a < b \/ b < a
    BY <1>3
  <2> HIDE DEF C
  <2> QED BY <2>1, <2>2
<1>6. s \in Injection(1..C, S)
  <2> HIDE DEF C
  <2> QED BY <1>4, <1>5, Zenon DEF Injection, IsInjective
<1>7. Cardinality(1..C) = C
  BY <1>3, FS_Interval
<1>8. s \in Surjection(1..C, S)
  BY <1>3, <1>6, <1>7, FS_Injection
<1>9. Range(s) = S
  <2>1. \A x \in S : \E a \in 1..C : s[a] = x
    BY <1>8 DEF Surjection
  <2> HIDE DEF C
  <2> QED BY <1>4, <2>1 DEF Range
<1>10. s \in Seq(Incidents)
  <2> HIDE DEF C
  <2> QED BY <1>3, <1>4
<1>11. S # {} => s[1] \in S
  <2>1. ASSUME S # {} PROVE 1 \in 1..C
    <3>1. C # 0
      BY <1>3, <2>1, FS_EmptySet
    <3> QED BY <1>3, <3>1
  <2> HIDE DEF C
  <2> QED BY <1>4, <2>1
<1> QED BY <1>1, <1>9, <1>10, <1>11

(* The entries of two lists in a row.                                       *)
LEMMA RangeOfConcat ==
  ASSUME NEW s \in Seq(Incidents), NEW t \in Seq(Incidents)
  PROVE  s \o t \in Seq(Incidents) /\ Range(s \o t) = Range(s) \cup Range(t)
<1>1. /\ s \o t \in Seq(Incidents) /\ Len(s \o t) = Len(s) + Len(t)
      /\ Len(s) \in Nat /\ Len(t) \in Nat
      /\ DOMAIN s = 1..Len(s) /\ DOMAIN t = 1..Len(t) /\ DOMAIN (s \o t) = 1..(Len(s) + Len(t))
      /\ \A i \in 1..(Len(s) + Len(t)) : (s \o t)[i] = IF i <= Len(s) THEN s[i] ELSE t[i - Len(s)]
  OBVIOUS
<1>2. PICK u : u = s \o t
  OBVIOUS
<1>3. \A i \in 1..Len(s) : i \in DOMAIN u /\ u[i] = s[i]
  BY <1>1, <1>2
<1>4. \A i \in 1..Len(t) : Len(s) + i \in DOMAIN u /\ u[Len(s) + i] = t[i]
  BY <1>1, <1>2
<1>5. ASSUME NEW i \in DOMAIN u PROVE u[i] \in Range(s) \cup Range(t)
  <2>1. CASE i <= Len(s)
    BY <1>1, <1>2, <2>1 DEF Range
  <2>2. CASE ~(i <= Len(s))
    <3>1. i - Len(s) \in 1..Len(t) /\ u[i] = t[i - Len(s)]
      BY <1>1, <1>2, <2>2
    <3> QED BY <1>1, <3>1 DEF Range
  <2> QED BY <2>1, <2>2
<1>6. Range(u) = Range(s) \cup Range(t)
  <2>1. Range(u) \subseteq Range(s) \cup Range(t)
    BY <1>5 DEF Range
  <2>2. Range(s) \subseteq Range(u)
    BY <1>1, <1>3 DEF Range
  <2>3. Range(t) \subseteq Range(u)
    BY <1>1, <1>4 DEF Range
  <2> QED BY <2>1, <2>2, <2>3
<1> QED BY <1>1, <1>2, <1>6

(* A list without entries.                                                  *)
LEMMA EmptyRange ==
  ASSUME NEW s \in Seq(Incidents), Range(s) = {}
  PROVE  s = <<>>
<1>1. DOMAIN s = 1..Len(s) /\ Len(s) \in Nat
  OBVIOUS
<1>2. Len(s) = 0
  <2> SUFFICES ASSUME Len(s) # 0 PROVE FALSE
    OBVIOUS
  <2>1. 1 \in DOMAIN s
    BY <1>1
  <2> QED BY <2>1 DEF Range
<1> QED BY <1>2

-----------------------------------------------------------------------------
(* What the lists and the circles have to do with each other.               *)

(* The page has its types.                                                  *)
Typed(p) ==
  /\ IsPage(p)
  /\ p.view \in Views /\ p.loaded \subseteq Views /\ p.elements \in [Incidents -> Seq(Incidents)]
  /\ p.lit \in [Views -> Incidents \cup {None}] /\ p.row \in Incidents \cup {None}
  /\ p.onMap \in Incidents \cup {None} /\ p.inDetail \in Incidents \cup {None}
  /\ p.items \in Seq(Incidents) /\ p.item \in Incidents \cup {None}
  /\ p.nav \in [at : Nat, of : Nat] /\ p.able \subseteq {"previous", "next"}
  /\ p.aborted \in BOOLEAN

(* e is the circle of a tile that was shown.                                *)
Known(p, e) == \E v \in p.loaded : e \in Circles(v)

(* A circle carries the list of its square on a tile that was shown, which  *)
(* need not be the tile the circle is looked at on.                         *)
Carries(p) ==
  \A e \in Incidents : Known(p, e) =>
    \E v \in p.loaded : e \in Circles(v) /\ p.elements[e] = ByDelay(Square(v, e))

(* What is selected is such a circle, and the panel lists such a square.    *)
Selects(p) ==
  /\ p.onMap # None => Known(p, p.onMap)
  /\ IF p.inDetail = None THEN p.items = <<>>
     ELSE \E v \in p.loaded : p.inDetail \in Circles(v) /\ Range(p.items) = Square(v, p.inDetail)

(* As long as there is one tile, the selected circle is highlighted and the *)
(* panel has its list, in its order.                                        *)
OneTile(p) ==
  p.loaded = {p.view} =>
    /\ p.onMap # None => p.lit[p.view] = p.onMap
    /\ p.inDetail # None => p.items = p.elements[p.inDetail]

Base(p) ==
  /\ Typed(p) /\ Carries(p) /\ Selects(p) /\ OneTile(p)
  /\ p.loaded # {} => p.view \in p.loaded

(* OneTileAgrees, of any page.                                              *)
Agrees(p) ==
  p.loaded = {p.view} /\ p.row # None /\ Located(p.row) =>
    /\ p.item = p.row
    /\ p.nav = [at |-> Position(p.items, p.item), of |-> Len(p.items)]
    /\ p.lit[p.view] = answer.rep[p.view][p.row]

QueryInv ==
  /\ answer \in Answers /\ phase \in {"asked", "shown", "failed"}
  /\ load \in Overlay({"incidents"})
  /\ phase = "asked" => load.count = 1 /\ load.whats = <<"incidents">>
  /\ Base(page) /\ Agrees(page)
  /\ IF phase = "shown" THEN page.loaded # {} ELSE page = NothingShown

-----------------------------------------------------------------------------
(* One lemma for each handler.                                              *)

(* The first incident of a square is in it, and no incident is in two.      *)
LEMMA Squares ==
  ASSUME answer \in Answers, NEW v \in Views
  PROVE  /\ \A i \in Incidents : answer.rep[v][i] # None =>
              answer.rep[v][i] \in Circles(v) /\ i \in Square(v, answer.rep[v][i])
         /\ \A i \in Incidents : answer.rep[v][i] \in Incidents \cup {None}
         /\ \A e \in Circles(v) : e \in Incidents /\ e # None /\ e \in Square(v, e)
         /\ \A e : Square(v, e) \subseteq Incidents /\ \A i \in Square(v, e) : answer.rep[v][i] = e
<1>1. answer.rep \in [Views -> [Incidents -> Incidents \cup {None}]]
  BY DEF Answers
<1>2. answer.rep[v] \in [Incidents -> Incidents \cup {None}]
  BY <1>1
<1>3. \A i \in Incidents : answer.rep[v][i] # None =>
        answer.rep[v][answer.rep[v][i]] = answer.rep[v][i]
  BY DEF Answers
<1> QED BY <1>2, <1>3 DEF Circles, Square

(* The list of a circle that was shown.                                     *)
LEMMA CircleList ==
  ASSUME answer \in Answers, NEW p, Base(p), NEW e, Known(p, e)
  PROVE  /\ e \in Incidents /\ e # None
         /\ p.elements[e] \in Seq(Incidents)
         /\ p.elements[e][1] \in Incidents
         /\ \E v \in p.loaded :
              /\ e \in Circles(v) /\ Range(p.elements[e]) = Square(v, e)
              /\ p.elements[e][1] \in Square(v, e)
<1>1. p.loaded \subseteq Views
  BY DEF Base, Typed
<1>2. e \in Incidents /\ e # None
  BY <1>1, Squares DEF Known
<1>3. PICK v \in p.loaded : e \in Circles(v) /\ p.elements[e] = ByDelay(Square(v, e))
  BY <1>2 DEF Base, Carries
<1>4. Square(v, e) \in SUBSET Incidents /\ Square(v, e) # {}
  BY <1>1, <1>3, Squares
<1>5. /\ p.elements[e] \in Seq(Incidents) /\ Range(p.elements[e]) = Square(v, e)
      /\ p.elements[e][1] \in Square(v, e)
  BY <1>3, <1>4, ByDelayIs
<1> QED BY <1>2, <1>3, <1>4, <1>5

(* Moving the map to a tile seen for the first time writes the lists of its *)
(* circles; where there is one tile afterwards there was none before, or    *)
(* nothing happened.                                                        *)
LEMMA MovedBase ==
  ASSUME answer \in Answers, NEW p, Base(p), NEW v \in Views
  PROVE  LET q == Moved(p, v)
         IN  /\ Base(q) /\ q.loaded = p.loaded \cup {v} /\ q.view = v
             /\ q.row = p.row /\ q.item = p.item /\ q.nav = p.nav /\ q.items = p.items
             /\ q.inDetail = p.inDetail /\ q.onMap = p.onMap /\ q.lit = p.lit
             /\ q.loaded = {v} => p.loaded = {} \/ q = p
<1>1. PICK el : el = IF v \in p.loaded THEN p.elements
                     ELSE [i \in Incidents |-> IF i \in Circles(v) THEN ByDelay(Square(v, i))
                                               ELSE p.elements[i]]
  OBVIOUS
<1>2. PICK q : q = [p EXCEPT !.view = v, !.loaded = p.loaded \cup {v}, !.elements = el]
  OBVIOUS
<1>3. Moved(p, v) = q
  BY <1>1, <1>2 DEF Moved
<1>4. /\ Typed(p) /\ IsPage(p)
      /\ p.elements \in [Incidents -> Seq(Incidents)] /\ p.loaded \subseteq Views
  BY DEF Base, Typed
<1>5. el \in [Incidents -> Seq(Incidents)]
  <2>1. ASSUME NEW i \in Incidents PROVE ByDelay(Square(v, i)) \in Seq(Incidents)
    BY Squares, ByDelayIs
  <2>2. \A i \in Incidents : p.elements[i] \in Seq(Incidents)
    BY <1>4
  <2> QED BY <1>1, <1>4, <2>1, <2>2
<1>6. Typed(q)
  BY <1>2, <1>4, <1>5 DEF Typed, IsPage, Fields
<1>7. /\ q.loaded = p.loaded \cup {v} /\ q.view = v /\ q.elements = el
      /\ q.row = p.row /\ q.item = p.item /\ q.nav = p.nav /\ q.items = p.items
      /\ q.inDetail = p.inDetail /\ q.onMap = p.onMap /\ q.lit = p.lit
  BY <1>2, <1>4 DEF IsPage, Fields
<1>8. Carries(q)
  <2> SUFFICES ASSUME NEW e \in Incidents, Known(q, e)
               PROVE  \E w \in q.loaded : e \in Circles(w) /\ q.elements[e] = ByDelay(Square(w, e))
    BY DEF Carries
  <2>1. CASE v \notin p.loaded /\ e \in Circles(v)
    BY <1>1, <1>7, <2>1
  <2>2. CASE v \in p.loaded \/ e \notin Circles(v)
    <3>1. q.elements[e] = p.elements[e] /\ Known(p, e)
      BY <1>1, <1>4, <1>7, <2>2 DEF Known
    <3> QED BY <1>7, <3>1 DEF Base, Carries
  <2> QED BY <2>1, <2>2
<1>9. Selects(q)
  BY <1>7 DEF Base, Selects, Known
<1>10. q.loaded = {v} => p.loaded = {} \/ q = p
  <2> SUFFICES ASSUME q.loaded = {v}, p.loaded # {} PROVE q = p
    OBVIOUS
  <2>1. p.loaded = {v} /\ p.view = v
    BY <1>7 DEF Base
  <2>2. el = p.elements /\ p.loaded \cup {v} = p.loaded
    BY <1>1, <2>1
  <2> QED BY <1>2, <1>4, <2>1, <2>2 DEF IsPage, Fields
<1>11. OneTile(q)
  <2>1. CASE q = p
    BY <2>1 DEF Base
  <2>2. CASE p.loaded = {}
    <3>1. q.onMap = None /\ q.inDetail = None
      BY <1>7, <2>2 DEF Base, Selects, Known
    <3> QED BY <3>1 DEF OneTile
  <2>3. CASE q.loaded # {v}
    BY <1>7, <2>3 DEF OneTile
  <2> QED BY <1>10, <2>1, <2>2, <2>3
<1>12. Base(q)
  BY <1>6, <1>7, <1>8, <1>9, <1>11 DEF Base
<1> QED BY <1>3, <1>7, <1>10, <1>12

(* The map selects a circle of a tile that was shown.                       *)
LEMMA MapClusterBase ==
  ASSUME answer \in Answers, NEW p, Base(p), NEW e, Known(p, e), NEW to \in Views
  PROVE  LET q == MapCluster(p, e, to)
         IN  /\ Base(q) /\ q.onMap = e /\ p.loaded \subseteq q.loaded
             /\ q.row = p.row
             /\ q.loaded = {q.view} => q.view = p.view
<1>0. e \in Incidents /\ e # None /\ p.loaded # {}
  BY CircleList DEF Known
<1>1. CASE e = p.onMap
  BY <1>1 DEF MapCluster
<1>2. CASE e # p.onMap
  <2>1. PICK m : m = Moved(p, to)
    OBVIOUS
  <2>2. /\ Base(m) /\ m.loaded = p.loaded \cup {to} /\ m.view = to /\ m.row = p.row
        /\ m.items = p.items /\ m.inDetail = p.inDetail /\ m.lit = p.lit
        /\ m.loaded = {to} => m = p
    BY <1>0, <2>1, MovedBase
  <2>3. PICK c : c = answer.rep[to][p.elements[e][1]]
    OBVIOUS
  <2>4. c \in Incidents \cup {None}
    BY <2>3, CircleList, Squares
  <2>5. PICK l : l = [m.lit EXCEPT ![to] = c]
    OBVIOUS
  <2>6. PICK q : q = [m EXCEPT !.lit = l, !.onMap = e]
    OBVIOUS
  <2>7. MapCluster(p, e, to) = q
    <3>1. IsPage(m)
      BY <2>2 DEF Base, Typed
    <3>2. [m EXCEPT !.lit[to] = c, !.onMap = e] = q
      BY <2>5, <2>6, <3>1 DEF IsPage, Fields
    <3> QED BY <1>2, <2>1, <2>3, <3>2 DEF MapCluster
  <2>8. Typed(q)
    <3>1. m.lit \in [Views -> Incidents \cup {None}]
      BY <2>2 DEF Base, Typed
    <3>2. l \in [Views -> Incidents \cup {None}]
      BY <2>4, <2>5, <3>1
    <3> QED BY <1>0, <2>2, <2>6, <3>2 DEF Base, Typed, IsPage, Fields
  <2>9. /\ q.loaded = m.loaded /\ q.view = to /\ q.row = m.row /\ q.items = m.items
        /\ q.inDetail = m.inDetail /\ q.onMap = e /\ q.lit = l /\ q.elements = m.elements
    BY <2>2, <2>6 DEF Base, Typed, IsPage, Fields
  <2>10. Carries(q)
    BY <2>2, <2>9 DEF Base, Carries, Known
  <2>11. Selects(q)
    <3>1. Known(q, e)
      BY <2>2, <2>9 DEF Known
    <3> QED BY <2>2, <2>9, <3>1 DEF Base, Selects, Known
  <2>12. OneTile(q)
    <3> SUFFICES ASSUME q.loaded = {to}
                 PROVE  /\ q.lit[to] = e
                        /\ q.inDetail # None => q.items = q.elements[q.inDetail]
      BY <2>9 DEF OneTile
    <3>1. m = p /\ p.loaded = {to}
      BY <2>2, <2>9
    <3>2. p.elements[e][1] \in Square(to, e)
      BY <3>1, CircleList
    <3>3. c = e
      BY <2>3, <3>2, Squares
    <3>4. l[to] = e
      <4>1. m.lit \in [Views -> Incidents \cup {None}]
        BY <2>2 DEF Base, Typed
      <4> QED BY <2>5, <3>3, <4>1
    <3> QED BY <2>2, <2>9, <3>1, <3>4 DEF Base, OneTile
  <2>13. Base(q)
    BY <2>2, <2>8, <2>9, <2>10, <2>11, <2>12 DEF Base
  <2>14. q.loaded = {q.view} => q.view = p.view
    BY <2>2, <2>9
  <2> QED BY <2>2, <2>7, <2>9, <2>13, <2>14
<1> QED BY <1>1, <1>2

(* The panel takes the list of a circle, entry by entry.                    *)
LEMMA DetailClusterBase ==
  ASSUME answer \in Answers, NEW p, Base(p), NEW e, Known(p, e)
  PROVE  LET q == DetailCluster(p, e)
         IN  /\ Base(q) /\ q.inDetail = e /\ q.loaded = p.loaded /\ q.view = p.view
             /\ q.onMap = p.onMap /\ q.row = p.row
<1>0. e \in Incidents /\ e # None /\ p.elements[e] \in Seq(Incidents)
  BY CircleList
<1>1. CASE e = p.inDetail
  BY <1>1 DEF DetailCluster
<1>2. CASE e # p.inDetail
  <2>1. PICK old, new : old = p.items /\ new = p.elements[e]
    OBVIOUS
  <2>2. old \in Seq(Incidents) /\ new \in Seq(Incidents)
    BY <1>0, <2>1 DEF Base, Typed
  <2>3. PICK s, kept, more : /\ s = Joined(old, new) /\ kept = Within(old, Range(new))
                             /\ more = Within(new, Incidents \ Range(old))
    OBVIOUS
  <2>4. s = kept \o more
    BY <2>3 DEF Joined
  <2>5. /\ kept \in Seq(Incidents) /\ Range(kept) = Range(old) \cap Range(new)
        /\ more \in Seq(Incidents) /\ Range(more) = Range(new) \cap (Incidents \ Range(old))
        /\ Range(new) \subseteq Incidents \ Range(old) => more = new
    BY <2>2, <2>3, WithinIs
  <2>6. Range(new) \subseteq Incidents
    BY <2>2 DEF Range
  <2>7. s \in Seq(Incidents) /\ Range(s) = Range(kept) \cup Range(more)
    BY <2>4, <2>5, RangeOfConcat
  <2>8. Range(s) = Range(new)
    BY <2>5, <2>6, <2>7
  <2>9. Range(old) \cap Range(new) = {} => s = new
    <3> SUFFICES ASSUME Range(old) \cap Range(new) = {} PROVE s = new
      OBVIOUS
    <3>1. more = new
      BY <2>5, <2>6
    <3>2. kept = <<>>
      BY <2>5, EmptyRange
    <3> QED BY <2>2, <2>4, <3>1, <3>2
  <2>10. PICK t : t = IF p.item \in Range(s) THEN p.item ELSE None
    OBVIOUS
  <2>11. PICK q : q = [p EXCEPT !.inDetail = e, !.items = s, !.item = t]
    OBVIOUS
  <2>12. DetailCluster(p, e) = q
    BY <1>2, <2>1, <2>3, <2>10, <2>11 DEF DetailCluster
  <2>13. Typed(q)
    BY <1>0, <2>7, <2>10, <2>11 DEF Base, Typed, IsPage, Fields
  <2>14. /\ q.loaded = p.loaded /\ q.view = p.view /\ q.row = p.row /\ q.items = s
         /\ q.inDetail = e /\ q.onMap = p.onMap /\ q.lit = p.lit /\ q.elements = p.elements
    BY <2>11 DEF Base, Typed, IsPage, Fields
  <2>15. Carries(q)
    BY <2>14 DEF Base, Carries, Known
  <2>16. Selects(q)
    <3>1. \E v \in p.loaded : e \in Circles(v) /\ Range(new) = Square(v, e)
      BY <2>1, CircleList
    <3>2. q.onMap # None => Known(q, q.onMap)
      BY <2>14 DEF Base, Selects, Known
    <3> QED BY <1>0, <2>8, <2>14, <3>1, <3>2 DEF Selects
  <2>17. OneTile(q)
    <3> SUFFICES ASSUME p.loaded = {p.view}
                 PROVE  (q.onMap # None => q.lit[q.view] = q.onMap) /\ s = new
      BY <2>1, <2>14 DEF OneTile
    <3>1. Range(new) = Square(p.view, e) /\ p.view \in Views
      BY <2>1, CircleList DEF Base, Typed
    <3>2. Range(old) \cap Range(new) = {}
      <4>1. CASE p.inDetail = None
        <5>1. old = <<>>
          BY <2>1, <4>1 DEF Base, Selects
        <5> QED BY <5>1 DEF Range
      <4>2. CASE p.inDetail # None
        <5>1. Range(old) = Square(p.view, p.inDetail)
          BY <2>1, <4>2 DEF Base, Selects
        <5> QED BY <1>2, <3>1, <5>1, Squares
      <4> QED BY <4>1, <4>2
    <3> QED BY <2>9, <2>14, <3>2 DEF Base, OneTile
  <2>18. Base(q)
    BY <2>13, <2>14, <2>15, <2>16, <2>17 DEF Base
  <2> QED BY <2>12, <2>14, <2>18
<1> QED BY <1>1, <1>2

(* The event clusterSelected.                                               *)
LEMMA ClusterSelectedBase ==
  ASSUME answer \in Answers, NEW p, Base(p), NEW e, Known(p, e), NEW to \in Views
  PROVE  LET q == ClusterSelected(p, e, to)
         IN  /\ Base(q) /\ q.onMap = e /\ q.inDetail = e /\ p.loaded \subseteq q.loaded
             /\ q.row = p.row
             /\ q.loaded = {q.view} => q.view = p.view
<1>1. PICK m : m = MapCluster(p, e, to)
  OBVIOUS
<1>2. /\ Base(m) /\ m.onMap = e /\ p.loaded \subseteq m.loaded /\ m.row = p.row
      /\ m.loaded = {m.view} => m.view = p.view
  BY <1>1, MapClusterBase
<1>3. Known(m, e)
  BY <1>2 DEF Known
<1>4. PICK q : q = DetailCluster(m, e)
  OBVIOUS
<1>5. /\ Base(q) /\ q.inDetail = e /\ q.loaded = m.loaded /\ q.view = m.view
      /\ q.onMap = m.onMap /\ q.row = m.row
  BY <1>2, <1>3, <1>4, DetailClusterBase
<1> QED BY <1>1, <1>2, <1>4, <1>5 DEF ClusterSelected

(* A place in a list is a number.                                           *)
LEMMA PositionIs ==
  ASSUME NEW s \in Seq(Incidents), NEW i
  PROVE  Position(s, i) \in 1..(Len(s) + 1) /\ Len(s) \in Nat
<1>1. DOMAIN s = 1..Len(s) /\ Len(s) \in Nat
  OBVIOUS
<1>2. CASE \E k \in DOMAIN s : s[k] = i
  <2>1. (CHOOSE k \in DOMAIN s : s[k] = i) \in DOMAIN s
    BY <1>2
  <2> QED BY <1>1, <1>2, <2>1 DEF Position
<1>3. CASE ~\E k \in DOMAIN s : s[k] = i
  BY <1>1, <1>3 DEF Position
<1> QED BY <1>2, <1>3

(* The table's handler touches the row only.                                *)
LEMMA HighlightBase ==
  ASSUME NEW p, Base(p), NEW i \in Incidents
  PROVE  LET q == HighlightIncidentRow(p, i)
         IN  /\ Base(q) /\ q.row = (IF Tabled(i) THEN i ELSE None)
             /\ q.view = p.view /\ q.loaded = p.loaded
<1>1. PICK r, t : r = (IF Tabled(i) THEN i ELSE None) /\ t = (p.aborted \/ ~Tabled(i))
  OBVIOUS
<1>2. PICK q : q = [p EXCEPT !.row = r, !.aborted = t]
  OBVIOUS
<1>3. r \in Incidents \cup {None} /\ t \in BOOLEAN
  BY <1>1 DEF Base, Typed
<1>4. Typed(q)
  BY <1>2, <1>3 DEF Base, Typed, IsPage, Fields
<1>5. /\ q.view = p.view /\ q.loaded = p.loaded /\ q.elements = p.elements /\ q.lit = p.lit
      /\ q.onMap = p.onMap /\ q.inDetail = p.inDetail /\ q.items = p.items /\ q.row = r
  BY <1>2 DEF Base, Typed, IsPage, Fields
<1>6. Base(q)
  BY <1>4, <1>5 DEF Base, Carries, Selects, OneTile, Known
<1> QED BY <1>1, <1>2, <1>5, <1>6 DEF HighlightIncidentRow

(* The panel's handler: when there is one tile, and map and panel are at    *)
(* the circle of the incident in the row, all three agree.                  *)
LEMMA DetailIncidentBase ==
  ASSUME answer \in Answers, NEW p, Base(p), NEW i \in Incidents, p.row = i,
         Located(i) => /\ p.inDetail = p.onMap /\ p.onMap # None
                       /\ p.loaded = {p.view} => p.onMap = answer.rep[p.view][i]
  PROVE  LET q == DetailIncident(p, i)
         IN  Base(q) /\ Agrees(q) /\ q.loaded = p.loaded
<1>1. CASE p.inDetail = None
  <2>1. PICK m, a : m = [p EXCEPT !.aborted = FALSE] /\ a = Able(m.items, m.item)
    OBVIOUS
  <2>2. PICK q : q = [p EXCEPT !.aborted = FALSE, !.able = a]
    OBVIOUS
  <2>3. DetailIncident(p, i) = q
    <3>1. [m EXCEPT !.able = a] = q
      BY <2>1, <2>2 DEF Base, Typed, IsPage, Fields
    <3>2. CheckDetailButtons(m) = [m EXCEPT !.able = a]
      BY <2>1 DEF CheckDetailButtons
    <3> QED BY <1>1, <2>1, <3>1, <3>2 DEF DetailIncident
  <2>4. a \subseteq {"previous", "next"}
    BY <2>1 DEF Able
  <2>5. Typed(q)
    BY <2>2, <2>4 DEF Base, Typed, IsPage, Fields
  <2>6. /\ q.view = p.view /\ q.loaded = p.loaded /\ q.elements = p.elements /\ q.lit = p.lit
        /\ q.onMap = p.onMap /\ q.inDetail = p.inDetail /\ q.items = p.items /\ q.row = i
    BY <2>2 DEF Base, Typed, IsPage, Fields
  <2>7. Base(q)
    BY <2>5, <2>6 DEF Base, Carries, Selects, OneTile, Known
  <2>8. Agrees(q)
    <3>1. ~Located(i)
      BY <1>1
    <3> QED BY <2>6, <3>1 DEF Agrees
  <2> QED BY <2>3, <2>6, <2>7, <2>8
<1>2. CASE p.inDetail # None
  <2>1. PICK s, n, t : /\ s = p.elements[p.inDetail] /\ n = [at |-> Position(s, i), of |-> Len(s)]
                       /\ t = IF i \in Range(p.items) THEN i ELSE None
    OBVIOUS
  <2>2. PICK m, a : /\ m = [p EXCEPT !.nav = n, !.item = t, !.aborted = FALSE]
                    /\ a = Able(m.items, m.item)
    OBVIOUS
  <2>3. PICK q : q = [p EXCEPT !.nav = n, !.item = t, !.aborted = FALSE, !.able = a]
    OBVIOUS
  <2>4. DetailIncident(p, i) = q
    <3>1. [m EXCEPT !.able = a] = q
      BY <2>2, <2>3 DEF Base, Typed, IsPage, Fields
    <3>2. CheckDetailButtons(m) = [m EXCEPT !.able = a]
      BY <2>2 DEF CheckDetailButtons
    <3> QED BY <1>2, <2>1, <2>2, <3>1, <3>2 DEF DetailIncident
  <2>5. a \subseteq {"previous", "next"}
    BY <2>2 DEF Able
  <2>6. s \in Seq(Incidents)
    <3>1. p.inDetail \in Incidents /\ p.elements \in [Incidents -> Seq(Incidents)]
      BY <1>2 DEF Base, Typed
    <3> QED BY <2>1, <3>1
  <2>7. n \in [at : Nat, of : Nat] /\ t \in Incidents \cup {None}
    <3>1. Position(s, i) \in Nat /\ Len(s) \in Nat
      BY <2>6, PositionIs
    <3> QED BY <2>1, <3>1
  <2>8. Typed(q)
    BY <2>3, <2>5, <2>7 DEF Base, Typed, IsPage, Fields
  <2>9. /\ q.view = p.view /\ q.loaded = p.loaded /\ q.elements = p.elements /\ q.lit = p.lit
        /\ q.onMap = p.onMap /\ q.inDetail = p.inDetail /\ q.items = p.items /\ q.row = i
        /\ q.item = t /\ q.nav = n
    BY <2>3 DEF Base, Typed, IsPage, Fields
  <2>10. Base(q)
    BY <2>8, <2>9 DEF Base, Carries, Selects, OneTile, Known
  <2>11. Agrees(q)
    <3> SUFFICES ASSUME p.loaded = {p.view}, Located(i)
                 PROVE  /\ t = i /\ n = [at |-> Position(p.items, t), of |-> Len(p.items)]
                        /\ p.lit[p.view] = answer.rep[p.view][i]
      BY <2>9 DEF Agrees
    <3>1. p.inDetail = answer.rep[p.view][i] /\ p.onMap = p.inDetail /\ p.view \in Views
      BY DEF Base, Typed
    <3>2. p.items = s
      BY <1>2, <2>1 DEF Base, OneTile
    <3>3. Range(p.items) = Square(p.view, p.inDetail)
      BY <1>2 DEF Base, Selects
    <3>4. i \in Range(p.items)
      BY <1>2, <3>1, <3>3, Squares
    <3>5. p.lit[p.view] = p.onMap
      BY <1>2, <3>1 DEF Base, OneTile
    <3> QED BY <2>1, <3>1, <3>2, <3>4, <3>5
  <2> QED BY <2>4, <2>9, <2>10, <2>11
<1> QED BY <1>1, <1>2

(* The event incidentSelected, from any page that shows incidents.          *)
LEMMA IncidentSelectedBase ==
  ASSUME answer \in Answers, NEW p, Base(p), p.loaded # {}, NEW i \in Incidents, NEW to \in Views
  PROVE  LET q == IncidentSelected(p, i, to)
         IN  Base(q) /\ Agrees(q) /\ q.loaded # {}
<1>1. PICK h : h = HighlightIncidentRow(p, i)
  OBVIOUS
<1>2. /\ Base(h) /\ h.row = (IF Tabled(i) THEN i ELSE None)
      /\ h.view = p.view /\ h.loaded = p.loaded
  BY <1>1, HighlightBase
<1>3. h.view \in h.loaded /\ h.view \in Views
  BY <1>2 DEF Base, Typed
<1>4. CASE ~Tabled(i)
  BY <1>1, <1>2, <1>4 DEF IncidentSelected, Agrees
<1>5. CASE Tabled(i)
  <2>1. PICK r, m : r = answer.rep[h.view][i] /\ m = MapIncident(h, i, to)
    OBVIOUS
  <2>2. IncidentSelected(p, i, to) = DetailIncident(m, i)
    BY <1>1, <1>5, <2>1 DEF IncidentSelected
  <2>3. /\ Base(m) /\ m.row = i /\ h.loaded \subseteq m.loaded
        /\ Located(i) => /\ m.inDetail = m.onMap /\ m.onMap # None
                         /\ m.loaded = {m.view} => m.onMap = answer.rep[m.view][i]
    <3>1. CASE r = None
      <4>1. m = h
        BY <2>1, <3>1 DEF MapIncident
      <4>2. ~Located(i)
        BY <1>3, <2>1, <3>1 DEF Located
      <4> QED BY <1>2, <1>5, <4>1, <4>2
    <3>2. CASE r # None
      <4>1. m = ClusterSelected(h, r, to)
        BY <2>1, <3>2 DEF MapIncident
      <4>2. Known(h, r)
        BY <1>3, <2>1, <3>2, Squares DEF Known
      <4>3. /\ Base(m) /\ m.onMap = r /\ m.inDetail = r /\ h.loaded \subseteq m.loaded
            /\ m.row = h.row /\ (m.loaded = {m.view} => m.view = h.view)
        BY <1>2, <4>1, <4>2, ClusterSelectedBase
      <4> QED BY <1>2, <1>5, <2>1, <3>2, <4>3
    <3> QED BY <3>1, <3>2
  <2>4. PICK q : q = DetailIncident(m, i)
    OBVIOUS
  <2>5. Base(q) /\ Agrees(q) /\ q.loaded = m.loaded
    BY <2>3, <2>4, DetailIncidentBase
  <2> QED BY <1>3, <2>2, <2>3, <2>4, <2>5
<1> QED BY <1>4, <1>5

(* The map alone.                                                           *)
LEMMA MovedAgrees ==
  ASSUME answer \in Answers, NEW p, Base(p), Agrees(p), p.loaded # {} \/ p = NothingShown,
         NEW v \in Views
  PROVE  LET q == Moved(p, v)
         IN  Base(q) /\ Agrees(q) /\ q.loaded # {}
<1>1. PICK q : q = Moved(p, v)
  OBVIOUS
<1>2. /\ Base(q) /\ q.loaded = p.loaded \cup {v} /\ q.view = v /\ q.row = p.row
      /\ q.loaded = {v} => p.loaded = {} \/ q = p
  BY <1>1, MovedBase
<1>3. Agrees(q)
  <2>1. CASE p.loaded # {}
    BY <1>2, <2>1 DEF Agrees
  <2>2. CASE p = NothingShown
    <3>1. q.row = None
      BY <1>2, <2>2 DEF NothingShown
    <3> QED BY <3>1 DEF Agrees
  <2> QED BY <2>1, <2>2
<1> QED BY <1>1, <1>2, <1>3

-----------------------------------------------------------------------------
(* Every step, once more, with the lists.                                   *)

(* A page without incidents.                                                *)
LEMMA NothingBase == Base(NothingShown) /\ Agrees(NothingShown)
<1>1. PICK p : p = NothingShown
  OBVIOUS
<1>2. /\ p.view = Home /\ p.loaded = {} /\ p.elements = [i \in Incidents |-> <<>>]
      /\ p.lit = [w \in Views |-> None] /\ p.row = None /\ p.onMap = None /\ p.inDetail = None
      /\ p.items = <<>> /\ p.item = None /\ p.nav = [at |-> 0, of |-> 0] /\ p.able = {}
      /\ p.aborted = FALSE
  BY <1>1 DEF NothingShown
<1>3. IsPage(p)
  BY <1>1 DEF IsPage, Fields, NothingShown
<1>4. Typed(p)
  <2>1. <<>> \in Seq(Incidents)
    OBVIOUS
  <2>2. p.elements \in [Incidents -> Seq(Incidents)] /\ p.items \in Seq(Incidents)
    BY <1>2, <2>1
  <2>3. p.lit \in [Views -> Incidents \cup {None}]
    BY <1>2
  <2>4. p.nav \in [at : Nat, of : Nat]
    BY <1>2
  <2> QED BY <1>2, <1>3, <2>2, <2>3, <2>4 DEF Typed
<1>5. Carries(p) /\ Selects(p) /\ OneTile(p) /\ Agrees(p)
  BY <1>2 DEF Carries, Selects, OneTile, Agrees, Known
<1> QED BY <1>1, <1>2, <1>4, <1>5 DEF Base

(* The overlay at first, and after the one answer.                          *)
LEMMA OverlayOfOne ==
  /\ Requested(NothingLoading, "incidents") \in Overlay({"incidents"})
  /\ Requested(NothingLoading, "incidents").count = 1
  /\ Requested(NothingLoading, "incidents").whats = <<"incidents">>
  /\ \A o \in Overlay({"incidents"}) :
       /\ Dismissed(o) \in Overlay({"incidents"}) /\ Dismissed(o).count = o.count
       /\ Dismissed(o).whats = o.whats
       /\ o.count = 1 /\ o.whats = <<"incidents">> =>
            Finished(o, "incidents") \in Overlay({"incidents"})
<1>1. Append(<<>>, "incidents") = <<"incidents">> /\ <<"incidents">> \in Seq({"incidents"})
  OBVIOUS
<1>2. Requested(NothingLoading, "incidents") =
        [count |-> 1, whats |-> <<"incidents">>, up |-> TRUE]
  BY <1>1 DEF Requested, NothingLoading
<1>3. ASSUME NEW o \in Overlay({"incidents"})
      PROVE  /\ Dismissed(o) \in Overlay({"incidents"}) /\ Dismissed(o).count = o.count
             /\ Dismissed(o).whats = o.whats
  BY DEF Overlay, Dismissed
<1>4. ASSUME NEW o \in Overlay({"incidents"}), o.count = 1, o.whats = <<"incidents">>
      PROVE  Finished(o, "incidents") \in Overlay({"incidents"})
  <2>1. PICK w : w = Without(o.whats, "incidents")
    OBVIOUS
  <2>2. Len(o.whats) - 1 = 0 /\ 1..0 = {}
    BY <1>4
  <2>3. DOMAIN w = {} /\ w \in [1..0 -> {"incidents"}]
    BY <2>1, <2>2 DEF Without
  <2>4. w \in Seq({"incidents"})
    BY <2>3
  <2>5. (o.up /\ o.count > 1) \in BOOLEAN /\ o.count - 1 \in Nat
    BY <1>4
  <2> QED BY <2>1, <2>4, <2>5 DEF Finished, Overlay
<1>5. [count |-> 1, whats |-> <<"incidents">>, up |-> TRUE] \in Overlay({"incidents"})
  BY <1>1 DEF Overlay
<1>6. /\ Requested(NothingLoading, "incidents") \in Overlay({"incidents"})
      /\ Requested(NothingLoading, "incidents").count = 1
      /\ Requested(NothingLoading, "incidents").whats = <<"incidents">>
  <2>1. PICK o : o = [count |-> 1, whats |-> <<"incidents">>, up |-> TRUE]
    OBVIOUS
  <2>2. o.count = 1 /\ o.whats = <<"incidents">>
    BY <2>1
  <2>3. Requested(NothingLoading, "incidents") = o
    BY <1>2, <2>1, Zenon
  <2> QED BY <1>5, <2>1, <2>2, <2>3, Zenon
<1> QED BY <1>3, <1>4, <1>6

(* The page before the answer.                                              *)
LEMMA QueryInit == Init => QueryInv
BY NothingBase, OverlayOfOne DEF Init, QueryInv

(* Every handler and every gesture keeps the invariant.                     *)
LEMMA QueryStep == QueryInv /\ [Next]_vars => QueryInv'
<1> SUFFICES ASSUME QueryInv, [Next]_vars PROVE QueryInv'
  OBVIOUS
<1>0. answer \in Answers /\ Base(page) /\ Agrees(page) /\ page.view \in Views
  BY DEF QueryInv, Base, Typed
<1>1. ASSUME answer' = answer, Base(page'), Agrees(page')
      PROVE  Base(page)' /\ Agrees(page)'
  <2>1. Typed(page)'
    BY <1>1 DEF Base, Typed, IsPage
  <2>2. Carries(page)'
    BY <1>1 DEF Base, Carries, Known, Circles, Square
  <2>3. Selects(page)'
    BY <1>1 DEF Base, Selects, Known, Circles, Square
  <2>4. OneTile(page)'
    BY <1>1 DEF Base, OneTile
  <2>5. (page.loaded # {} => page.view \in page.loaded)'
    BY <1>1 DEF Base
  <2>6. Agrees(page)'
    BY <1>1 DEF Agrees, Located
  <2> QED BY <2>1, <2>2, <2>3, <2>4, <2>5, <2>6 DEF Base
<1>2. CASE UNCHANGED vars
  <2>1. answer' = answer /\ load' = load /\ phase' = phase /\ page' = page
    BY <1>2 DEF vars
  <2> QED BY <1>0, <1>1, <2>1 DEF QueryInv
<1>3. CASE IncidentsLoaded
  <2>1. /\ phase = "asked" /\ page' = Moved(page, page.view) /\ phase' = "shown"
        /\ load' = Finished(Dismissed(load), "incidents") /\ answer' = answer
    BY <1>3 DEF IncidentsLoaded
  <2>2. /\ page = NothingShown /\ load \in Overlay({"incidents"})
        /\ load.count = 1 /\ load.whats = <<"incidents">>
    BY <2>1 DEF QueryInv
  <2>3. PICK q : q = Moved(page, page.view)
    OBVIOUS
  <2>4. Base(q) /\ Agrees(q) /\ q.loaded # {}
    BY <1>0, <2>2, <2>3, MovedAgrees
  <2>5. PICK d : d = Dismissed(load)
    OBVIOUS
  <2>6. d \in Overlay({"incidents"}) /\ d.count = 1 /\ d.whats = <<"incidents">>
    BY <2>2, <2>5, OverlayOfOne
  <2>7. load' \in Overlay({"incidents"})
    BY <2>1, <2>5, <2>6, OverlayOfOne
  <2> QED BY <1>0, <1>1, <2>1, <2>3, <2>4, <2>7 DEF QueryInv
<1>4. CASE LoadFails
  <2>1. phase' = "failed" /\ answer' = answer /\ load' = load /\ page' = page /\ page = NothingShown
    BY <1>4 DEF LoadFails, QueryInv
  <2> QED BY <1>0, <1>1, <2>1 DEF QueryInv
<1>5. CASE Dismiss
  <2>1. load' = Dismissed(load) /\ answer' = answer /\ phase' = phase /\ page' = page
    BY <1>5 DEF Dismiss
  <2>2. load' \in Overlay({"incidents"}) /\ load'.count = load.count /\ load'.whats = load.whats
    BY <2>1, OverlayOfOne DEF QueryInv
  <2> QED BY <1>0, <1>1, <2>1, <2>2 DEF QueryInv
<1>6. ASSUME NEW q, Gesture(q), Base(q), Agrees(q), q.loaded # {} PROVE QueryInv'
  <2>1. phase = "shown" /\ page' = q /\ answer' = answer /\ load' = load /\ phase' = phase
    BY <1>6 DEF Gesture
  <2> QED BY <1>0, <1>1, <1>6, <2>1 DEF QueryInv
<1>7. ASSUME NEW q, Gesture(q) PROVE page.loaded # {}
  BY <1>7 DEF Gesture, QueryInv
<1>8. \A to \in Near(page.view) : to \in Views
  BY DEF Near
<1>9. ASSUME NEW i \in Incidents, NEW to \in Near(page.view), Gesture(IncidentSelected(page, i, to))
      PROVE  QueryInv'
  <2>1. PICK q : q = IncidentSelected(page, i, to)
    OBVIOUS
  <2>2. Gesture(q)
    BY <1>9, <2>1
  <2>3. Base(q) /\ Agrees(q) /\ q.loaded # {}
    BY <1>0, <1>7, <1>8, <2>1, <2>2, IncidentSelectedBase
  <2> QED BY <1>6, <2>2, <2>3
<1>10. CASE ClickRow
  <2>1. answer.tabled \subseteq Incidents
    BY <1>0 DEF Answers
  <2> QED BY <1>9, <1>10, <2>1 DEF ClickRow
<1>11. CASE ClickCircle
  <2>1. PICK e \in Circles(page.view) \ {page.onMap}, to \in Near(page.view) :
          LET p == ClusterSelected(page, e, to)
          IN  Gesture(IncidentSelected(p, p.elements[e][1], to))
    BY <1>11 DEF ClickCircle
  <2>2. PICK p : p = ClusterSelected(page, e, to)
    OBVIOUS
  <2>3. PICK i : i = p.elements[e][1]
    OBVIOUS
  <2>4. PICK q : q = IncidentSelected(p, i, to)
    OBVIOUS
  <2>5. Gesture(q)
    BY <2>1, <2>2, <2>3, <2>4
  <2>6. Known(page, e)
    <3>1. page.view \in page.loaded
      BY <1>0, <1>7, <2>5 DEF Base
    <3> QED BY <2>1, <3>1 DEF Known
  <2>7. Base(p) /\ page.loaded \subseteq p.loaded
    BY <1>0, <1>8, <2>2, <2>6, ClusterSelectedBase
  <2>8. Known(p, e) /\ p.loaded # {}
    BY <2>6, <2>7 DEF Known
  <2>9. i \in Incidents
    BY <1>0, <2>3, <2>7, <2>8, CircleList
  <2>10. Base(q) /\ Agrees(q) /\ q.loaded # {}
    BY <1>0, <1>8, <2>4, <2>7, <2>8, <2>9, IncidentSelectedBase
  <2> QED BY <1>6, <2>5, <2>10
<1>12. page.items \in Seq(Incidents) /\ Range(page.items) \subseteq Incidents
  <2>1. page.items \in Seq(Incidents)
    BY <1>0 DEF Base, Typed
  <2> QED BY <2>1 DEF Range
<1>13. CASE ClickItem
  BY <1>9, <1>12, <1>13 DEF ClickItem
<1>14. /\ Position(page.items, page.item) \in 1..(Len(page.items) + 1)
       /\ Len(page.items) \in Nat
  BY <1>12, PositionIs
<1>15. CASE Previous
  <2>1. PICK k : k = Position(page.items, page.item)
    OBVIOUS
  <2>2. k + (-1) \in 1..Len(page.items)
    BY <1>14, <1>15, <2>1 DEF Previous
  <2>3. Neighbour(-1) \in Incidents
    BY <1>12, <2>1, <2>2 DEF Neighbour
  <2> QED BY <1>9, <1>15, <2>3 DEF Previous
<1>16. CASE NextIncident
  <2>1. PICK k : k = Position(page.items, page.item)
    OBVIOUS
  <2>2. k + 1 \in 1..Len(page.items)
    BY <1>14, <1>16, <2>1 DEF NextIncident
  <2>3. Neighbour(1) \in Incidents
    BY <1>12, <2>1, <2>2 DEF Neighbour
  <2> QED BY <1>9, <1>16, <2>3 DEF NextIncident
<1>17. CASE ChangeView
  <2>1. PICK v \in Views : Gesture(Moved(page, v))
    BY <1>17 DEF ChangeView
  <2>2. PICK q : q = Moved(page, v)
    OBVIOUS
  <2>3. Gesture(q)
    BY <2>1, <2>2
  <2>4. Base(q) /\ Agrees(q) /\ q.loaded # {}
    BY <1>0, <1>7, <2>2, <2>3, MovedAgrees
  <2> QED BY <1>6, <2>3, <2>4
<1> QED
  BY <1>2, <1>3, <1>4, <1>5, <1>10, <1>11, <1>13, <1>15, <1>16, <1>17 DEF Next

(* The variables keep their types: in particular every number the panel     *)
(* shows is one, and the buttons never lead past either end of the list.    *)
THEOREM TypeCorrect == Spec => []TypeOK
<1>1. QueryInv => TypeOK
  <2>1. Typed(page) => page \in Page
    BY DEF Typed, IsPage, Fields, Page
  <2> QED BY <2>1 DEF QueryInv, Base, TypeOK
<1> QED
  BY QueryInit, QueryStep, <1>1, PTL DEF Spec

(* For any clustering of any number of tiles: the panel's list is one whole *)
(* cluster of a tile that was shown, although the lists of the circles are  *)
(* overwritten by every tile that is loaded.                                *)
THEOREM PanelKeepsOneCluster == Spec => []PanelIsOneCluster
<1>1. QueryInv => PanelIsOneCluster
  BY DEF QueryInv, Base, Selects, PanelIsOneCluster
<1> QED
  BY QueryInit, QueryStep, <1>1, PTL DEF Spec

(* As long as one tile is shown, table, map and panel agree on the incident *)
(* and on its place in the list.                                            *)
THEOREM ViewsAgreeOnOneTile == Spec => []OneTileAgrees
<1>1. QueryInv => OneTileAgrees
  BY DEF QueryInv, Agrees, OneTileAgrees
<1> QED
  BY QueryInit, QueryStep, <1>1, PTL DEF Spec
=============================================================================
