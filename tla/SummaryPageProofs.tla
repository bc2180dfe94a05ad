------------------------- MODULE SummaryPageProofs -------------------------
(* What holds of the summary page for all queries, tables and numbers of    *)
(* requests, proved with TLAPS.                                             *)
EXTENDS SummaryPage, NaturalsLemmas

USE SummaryAssumption

-----------------------------------------------------------------------------
(* The overlay when everything loaded has one name.                         *)

(* A request counted off an overlay that counts what it lists leaves such an *)
(* overlay.                                                                 *)
LEMMA FinishedCounts ==
  ASSUME NEW w, NEW o \in Overlay({w}), o.count = Len(o.whats), o.count > 0
  PROVE  /\ Finished(o, w) \in Overlay({w})
         /\ Finished(o, w).count = o.count - 1
         /\ Finished(o, w).count = Len(Finished(o, w).whats)
<1> DEFINE s == o.whats
           k == CHOOSE i \in DOMAIN s : s[i] = w /\ \A j \in 1..(i - 1) : s[j] # w
<1>1. s \in Seq({w}) /\ Len(s) \in Nat /\ Len(s) > 0 /\ o.up \in BOOLEAN
  BY DEF Overlay
<1>2. Without(s, w) = [i \in 1..(Len(s) - 1) |-> IF i < k THEN s[i] ELSE s[i + 1]]
  BY DEF Without
<1>3. ASSUME NEW i \in 1..(Len(s) - 1) PROVE s[i] = w /\ s[i + 1] = w
  BY <1>1
<1>4. Without(s, w) \in Seq({w}) /\ Len(Without(s, w)) = Len(s) - 1
  <2> HIDE DEF s, k
  <2>1. Len(s) - 1 \in Nat
    BY <1>1
  <2>2. Without(s, w) \in [1..(Len(s) - 1) -> {w}]
    BY <1>2, <1>3
  <2> QED BY <2>1, <2>2
<1> QED
  BY <1>1, <1>4 DEF Finished, Overlay

-----------------------------------------------------------------------------
(* Types.                                                                   *)

(* The overlay counts what it lists, and at least the requests under way.   *)
CountInv ==
  /\ IsFiniteSet(underway)
  /\ load.count = Len(load.whats)
  /\ Cardinality(underway) <= load.count

TypeInv == TypeOK /\ CountInv

LEMMA TypeInit == Init => TypeInv
<1> SUFFICES ASSUME Init PROVE TypeInv
  OBVIOUS
<1> USE DEF Init
<1>1. [n |-> 1, query |-> Default] \in Requests
  BY DEF Requests
<1>2. load.up /\ load.count = 1 /\ load.whats = <<What>>
  BY DEF Requested, NothingLoading
<1>3. load \in Overlay({What})
  BY DEF Requested, NothingLoading, Overlay
<1>4. IsFiniteSet(underway) /\ Cardinality(underway) = 1
  BY FS_Singleton
<1>5. chart \in Charts
  BY DEF NoChart, Charts
<1>6. TypeOK
  <2>1. asks \in 1..MaxAsks /\ underway \subseteq Requests
    BY <1>1
  <2> QED BY <1>3, <1>5, <2>1 DEF TypeOK
<1>7. CountInv
  BY <1>2, <1>4 DEF CountInv
<1> QED
  BY <1>6, <1>7 DEF TypeInv

(* A request more: the effect of Ask on set and overlay.                    *)
LEMMA AskTyped ==
  ASSUME TypeInv, NEW q \in Queries, Ask(q)
  PROVE  /\ asks' \in 1..MaxAsks /\ last' \in Queries /\ underway' \subseteq Requests
         /\ load' \in Overlay({What})
         /\ CountInv'
<1> USE DEF TypeInv, TypeOK, CountInv, Ask
<1>1. asks + 1 \in 1..MaxAsks
  OBVIOUS
<1>2. [n |-> asks + 1, query |-> q] \in Requests
  BY <1>1 DEF Requests
<1>3. IsFiniteSet(underway') /\ Cardinality(underway') <= Cardinality(underway) + 1
  <2> DEFINE new == [n |-> asks + 1, query |-> q]
  <2>1. underway' = underway \cup {new} /\ IsFiniteSet(underway)
    OBVIOUS
  <2> HIDE DEF new
  <2>2. IsFiniteSet(underway') /\ Cardinality(underway') =
          IF new \in underway THEN Cardinality(underway) ELSE Cardinality(underway) + 1
    <3> HIDE DEF TypeInv, TypeOK, CountInv, Ask
    <3> QED BY <2>1, FS_AddElement
  <2>3. Cardinality(underway) \in Nat
    BY <2>1, FS_CardinalityType
  <2> QED BY <2>2, <2>3
<1>4. load' \in Overlay({What}) /\ load'.count = load.count + 1
        /\ load'.whats = Append(load.whats, What)
  BY DEF Overlay, Requested
<1>5. load.whats \in Seq({What}) /\ load.count \in Nat
  BY DEF Overlay
<1>6. Len(load'.whats) = Len(load.whats) + 1
  BY <1>4, <1>5
<1>7. Cardinality(underway) \in Nat /\ Cardinality(underway') \in Nat
  BY <1>3, FS_CardinalityType
<1> QED
  BY <1>1, <1>2, <1>3, <1>4, <1>5, <1>6, <1>7

(* A request that has left, whatever came of it.                            *)
LEMMA LeavesTyped ==
  ASSUME TypeInv, NEW r \in underway, Leaves(r)
  PROVE  /\ underway' \subseteq Requests /\ overtaken' \in BOOLEAN
         /\ IsFiniteSet(underway')
         /\ load.count > 0
         /\ Cardinality(underway') <= load.count - 1
<1> USE DEF TypeInv, TypeOK, CountInv, Leaves
<1>1. IsFiniteSet(underway') /\ Cardinality(underway') = Cardinality(underway) - 1
  BY FS_RemoveElement
<1>2. Cardinality(underway') \in Nat /\ Cardinality(underway) \in Nat
  BY <1>1, FS_CardinalityType
<1>3. load.count \in Nat
  BY DEF Overlay
<1> QED
  BY <1>1, <1>2, <1>3

LEMMA TypeStep == TypeInv /\ [Next]_vars => TypeInv'
<1> SUFFICES ASSUME TypeInv, [Next]_vars PROVE TypeInv'
  OBVIOUS
<1>1. CASE UNCHANGED vars
  BY <1>1 DEF vars, TypeInv, TypeOK, CountInv
<1>2. ASSUME NEW q \in Queries, ChangeForm(q) \/ TypeQuery(q) PROVE TypeInv'
  <2>1. Ask(q) /\ form' \in Queries /\ UNCHANGED <<chart, overtaken, usable>>
    BY <1>2 DEF ChangeForm, TypeQuery, TypeInv, TypeOK
  <2> QED
    BY <2>1, AskTyped DEF TypeInv, TypeOK
<1>3. ASSUME NEW r \in underway, NEW rows \in Tables, Answer(r, rows) PROVE TypeInv'
  <2>1. Leaves(r) /\ load' = Shown(load) /\ chart' = Drawn(r, rows) /\ usable' = TRUE
          /\ UNCHANGED <<form, asks, last>>
    BY <1>3 DEF Answer
  <2>2. Dismissed(load) \in Overlay({What}) /\ Dismissed(load).count = load.count
          /\ Dismissed(load).whats = load.whats
    BY DEF TypeInv, TypeOK, Overlay, Dismissed
  <2>3. load' \in Overlay({What}) /\ load'.count = load.count - 1
          /\ load'.count = Len(load'.whats)
    BY <2>1, <2>2, FinishedCounts, LeavesTyped DEF Shown, TypeInv, CountInv
  <2>4. chart' \in Charts
    <3>1. r.n \in 0..MaxAsks /\ r.query \in Queries
      BY DEF TypeInv, TypeOK, Requests
    <3> QED BY <2>1, <3>1 DEF Drawn, Charts
  <2> QED
    BY <2>1, <2>3, <2>4, LeavesTyped DEF TypeInv, TypeOK, CountInv
<1>4. ASSUME NEW r \in underway, AnswerFails(r) PROVE TypeInv'
  <2>1. Leaves(r) /\ usable' = FALSE /\ UNCHANGED <<form, asks, last, chart, load>>
    BY <1>4 DEF AnswerFails
  <2>2. load.count \in Nat
    BY DEF TypeInv, TypeOK, Overlay
  <2>3. Cardinality(underway') \in Nat
    BY <2>1, LeavesTyped, FS_CardinalityType
  <2>4. CountInv'
    BY <2>1, <2>2, <2>3, LeavesTyped DEF TypeInv, CountInv
  <2>5. TypeOK'
    BY <2>1, LeavesTyped DEF TypeInv, TypeOK
  <2> QED BY <2>4, <2>5 DEF TypeInv
<1>5. ASSUME Dismiss PROVE TypeInv'
  <2>1. load' \in Overlay({What}) /\ load'.count = load.count /\ load'.whats = load.whats
    BY <1>5 DEF Dismiss, Dismissed, TypeInv, TypeOK, Overlay
  <2> QED
    BY <1>5, <2>1 DEF Dismiss, TypeInv, TypeOK, CountInv
<1> QED
  BY <1>1, <1>2, <1>3, <1>4, <1>5 DEF Next, Answered

(* The types of the page: in particular the count of the overlay is never   *)
(* below the number of requests under way, so it never turns negative.      *)
THEOREM TypeCorrect == Spec => []TypeOK
<1>1. TypeInv => TypeOK
  BY DEF TypeInv
<1> QED
  BY TypeInit, TypeStep, <1>1, PTL DEF Spec

-----------------------------------------------------------------------------
(* The overlay.                                                             *)

(* The overlay is down, or something is under way, or the last answer failed. *)
OverlayInv == load.up => underway # {} \/ ~usable

LEMMA OverlayStep == OverlayInv /\ [Next]_vars => OverlayInv'
<1> SUFFICES ASSUME OverlayInv, [Next]_vars PROVE OverlayInv'
  OBVIOUS
<1> USE DEF OverlayInv
<1>1. CASE UNCHANGED vars
  BY <1>1 DEF vars
<1>2. ASSUME NEW q \in Queries, ChangeForm(q) \/ TypeQuery(q) PROVE OverlayInv'
  BY <1>2 DEF ChangeForm, TypeQuery, Ask
<1>3. ASSUME NEW r \in underway, NEW rows \in Tables, Answer(r, rows) PROVE OverlayInv'
  <2>1. load' = Finished(Dismissed(load), What)
    BY <1>3 DEF Answer, Shown
  <2>2. load'.up = (Dismissed(load).up /\ Dismissed(load).count > 1)
    BY <2>1 DEF Finished
  <2>3. CASE load'.up
    <3>1. Dismissed(load).up
      BY <2>2, <2>3
    <3> QED BY <3>1, <2>3 DEF Dismissed
  <2> QED BY <2>3
<1>4. ASSUME NEW r \in underway, AnswerFails(r) PROVE OverlayInv'
  BY <1>4 DEF AnswerFails
<1>5. ASSUME Dismiss PROVE OverlayInv'
  <2>1. load' = Dismissed(load) /\ load.up /\ UNCHANGED <<underway, usable>>
    BY <1>5 DEF Dismiss
  <2> QED BY <2>1
<1> QED
  BY <1>1, <1>2, <1>3, <1>4, <1>5 DEF Next, Answered

(* For any number of requests: with nothing under way the page is covered   *)
(* only after a last answer of no use, although failed requests are counted *)
(* for ever.                                                                *)
THEOREM StuckOnlyAfterAFailure == Spec => []StuckOnlyAfterFailure
<1>1. Init => OverlayInv
  BY DEF Init, OverlayInv
<1>2. OverlayInv => StuckOnlyAfterFailure
  BY DEF OverlayInv, StuckOnlyAfterFailure
<1> QED
  BY <1>1, <1>2, OverlayStep, PTL DEF Spec

-----------------------------------------------------------------------------
(* What the chart shows.                                                    *)

(* Requests are numbered apart; the latest is under way, or nothing is, or  *)
(* something was overtaken; and at rest the chart is that of the latest.    *)
ChartInv ==
  /\ \A r \in underway : r.n <= asks
  /\ \A r, s \in underway : r.n = s.n => r = s
  /\ \A r \in underway : r.n = asks => r.query = last
  /\ ~overtaken => underway = {} \/ \E r \in underway : r.n = asks
  /\ StaleOnlyIfOvertaken

LEMMA ChartStep == TypeInv /\ ChartInv /\ [Next]_vars => ChartInv'
<1> SUFFICES ASSUME TypeInv, ChartInv, [Next]_vars PROVE ChartInv'
  OBVIOUS
<1>0. asks \in Nat /\ \A r \in underway : r.n \in Nat
  BY DEF TypeInv, TypeOK, Requests
<1>1. CASE UNCHANGED vars
  BY <1>1 DEF vars, ChartInv, StaleOnlyIfOvertaken
<1>2. ASSUME NEW q \in Queries, ChangeForm(q) \/ TypeQuery(q) PROVE ChartInv'
  <2>1. Ask(q) /\ UNCHANGED <<chart, overtaken, usable>>
    BY <1>2 DEF ChangeForm, TypeQuery
  <2> DEFINE new == [n |-> asks + 1, query |-> q]
  <2>2. underway' = underway \cup {new} /\ asks' = asks + 1 /\ last' = q
    BY <2>1 DEF Ask
  <2>3. new \in underway' /\ new.n = asks' /\ new.query = last'
    BY <2>2
  <2>4. \A r \in underway : r.n < asks'
    BY <1>0, <2>2 DEF ChartInv
  <2> HIDE DEF new
  <2>5. \A r \in underway' : r.n <= asks' /\ (r.n = asks' => r = new)
    BY <1>0, <2>2, <2>3, <2>4
  <2>6. \A r, s \in underway' : r.n = s.n => r = s
    BY <1>0, <2>2, <2>3, <2>4 DEF ChartInv
  <2> QED
    BY <2>3, <2>5, <2>6 DEF ChartInv, StaleOnlyIfOvertaken
<1>3. ASSUME NEW r \in underway, Leaves(r), UNCHANGED <<asks, last>>,
             usable' => chart'.of = r.n /\ chart'.query = r.query
      PROVE  ChartInv'
  <2>1. underway' = underway \ {r}
    BY <1>3 DEF Leaves
  <2>2. ~overtaken' => ~overtaken /\ \A s \in underway : ~(s.n < r.n)
    BY <1>3 DEF Leaves, TypeInv, TypeOK
  <2>3. ~overtaken' /\ r.n = asks => underway' = {}
    <3> SUFFICES ASSUME ~overtaken', r.n = asks, NEW s \in underway' PROVE FALSE
      OBVIOUS
    <3>1. s \in underway /\ s # r
      BY <2>1
    <3>2. s.n <= asks /\ s.n # r.n
      BY <3>1 DEF ChartInv
    <3> QED BY <1>0, <2>2, <3>1, <3>2
  <2>4. ~overtaken' => underway' = {} \/ \E s \in underway' : s.n = asks'
    BY <1>3, <2>1, <2>2, <2>3 DEF ChartInv
  <2>5. StaleOnlyIfOvertaken'
    <3> SUFFICES ASSUME underway' = {}, usable', ~overtaken'
                 PROVE  chart'.of = asks' /\ chart'.query = last'
      BY DEF StaleOnlyIfOvertaken
    <3>1. PICK s \in underway : s.n = asks
      BY <2>2 DEF ChartInv
    <3>2. s = r
      BY <2>1, <3>1
    <3> QED BY <1>3, <3>1, <3>2 DEF ChartInv
  <2> QED
    BY <1>3, <2>1, <2>4, <2>5 DEF ChartInv
<1>4. ASSUME NEW r \in underway, NEW rows \in Tables, Answer(r, rows) PROVE ChartInv'
  BY <1>3, <1>4 DEF Answer, Drawn
<1>5. ASSUME NEW r \in underway, AnswerFails(r) PROVE ChartInv'
  BY <1>3, <1>5 DEF AnswerFails
<1>6. ASSUME Dismiss PROVE ChartInv'
  <2>1. UNCHANGED <<asks, last, underway, chart, overtaken, usable>>
    BY <1>6 DEF Dismiss
  <2> QED BY <2>1 DEF ChartInv, StaleOnlyIfOvertaken
<1> QED
  BY <1>1, <1>2, <1>4, <1>5, <1>6 DEF Next, Answered

(* For any number of requests: once at rest, the chart is that of the query *)
(* asked last, except after a useless answer or one that overtook another.  *)
THEOREM StaleOnlyIfAnswersCross == Spec => []StaleOnlyIfOvertaken
<1>1. ASSUME Init PROVE ChartInv
  <2> DEFINE first == [n |-> 1, query |-> Default]
  <2>1. underway = {first} /\ first.n = 1 /\ first.query = Default /\ asks = 1 /\ last = Default
    BY <1>1 DEF Init
  <2> HIDE DEF first
  <2> QED BY <2>1 DEF ChartInv, StaleOnlyIfOvertaken
<1>2. ChartInv => StaleOnlyIfOvertaken
  BY DEF ChartInv
<1> QED
  BY <1>1, <1>2, TypeInit, TypeStep, ChartStep, PTL DEF Spec

-----------------------------------------------------------------------------
(* Sums.                                                                    *)

(* The sums SumTo goes through.                                             *)
IsSum(s, f, n) ==
  /\ s \in [0..n -> Nat] /\ s[0] = 0
  /\ \A k \in 1..n : s[k] = f[k] + s[k - 1]

(* The function SumTo names exists.                                         *)
LEMMA SumToIs ==
  ASSUME NEW n \in Nat, NEW f \in [1..n -> Nat]
  PROVE  \E s : IsSum(s, f, n) /\ SumTo(f, n) = s[n]
<1> DEFINE step == [x \in (1..n) \X Nat |-> f[x[1]] + x[2]]
<1>1. IsStep(step, n, Nat)
  <2>1. ASSUME NEW x \in (1..n) \X Nat PROVE f[x[1]] + x[2] \in Nat
    <3>1. x[1] \in 1..n /\ x[2] \in Nat
      OBVIOUS
    <3> QED BY <3>1
  <2> QED BY <2>1, Zenon DEF IsStep
<1>2. PICK s : IsIterated(s, step, 0, n, Nat)
  <2> HIDE DEF step
  <2> QED BY <1>1, Recursion
<1>3. s \in [0..n -> Nat] /\ s[0] = 0 /\ \A k \in 1..n : s[k] = step[<<k, s[k - 1]>>]
  <2> HIDE DEF step
  <2> QED BY <1>2 DEF IsIterated
<1>4. ASSUME NEW k \in 1..n PROVE s[k] = f[k] + s[k - 1]
  <2>1. k - 1 \in 0..n
    OBVIOUS
  <2>2. s[k - 1] \in Nat
    BY <1>3, <2>1
  <2>3. <<k, s[k - 1]>> \in (1..n) \X Nat
    BY <2>2
  <2> QED BY <1>3, <2>3
<1>5. s = [k \in 0..n |-> IF k = 0 THEN 0 ELSE f[k] + s[k - 1]]
  <2>1. ASSUME NEW k \in 0..n PROVE s[k] = IF k = 0 THEN 0 ELSE f[k] + s[k - 1]
    <3>1. k # 0 => k \in 1..n
      OBVIOUS
    <3> QED BY <1>3, <1>4, <3>1
  <2> QED BY <1>3, <2>1, Zenon
<1> DEFINE Is(g) == g = [k \in 0..n |-> IF k = 0 THEN 0 ELSE f[k] + g[k - 1]]
           h == CHOOSE g : Is(g)
<1>6. SumTo(f, n) = h[n]
  BY Zenon DEF SumTo
<1>7. Is(h)
  BY <1>5, Zenon
<1> HIDE DEF h
<1>8. h[0] = 0
  <2>1. 0 \in 0..n
    OBVIOUS
  <2> QED BY <1>7, <2>1
<1>9. \A k \in 1..n : h[k] = f[k] + h[k - 1]
  <2>1. \A k \in 1..n : k \in 0..n /\ k # 0
    OBVIOUS
  <2> QED BY <1>7, <2>1
<1>10. \A k \in 0..n : h[k] \in Nat
  <2> DEFINE T == {k \in 0..n : h[k] \in Nat}
  <2>1. 0 \in T
    BY <1>8
  <2>2. ASSUME NEW k \in 0..(n - 1), k \in T PROVE k + 1 \in T
    <3>1. k + 1 \in 1..n /\ k + 1 \in 0..n /\ (k + 1) - 1 = k
      OBVIOUS
    <3>2. h[k + 1] = f[k + 1] + h[k] /\ f[k + 1] \in Nat
      BY <1>9, <3>1
    <3> QED BY <2>2, <3>1, <3>2
  <2>3. 0..n \subseteq T
    <3> HIDE DEF T
    <3> QED BY <2>1, <2>2, UpTo
  <2> QED BY <2>3
<1>11. h \in [0..n -> Nat]
  BY <1>7, <1>10
<1> QED BY <1>6, <1>8, <1>9, <1>11 DEF IsSum

LEMMA SumNat ==
  ASSUME NEW n \in Nat, NEW f \in [1..n -> Nat]
  PROVE  SumTo(f, n) \in Nat
<1>1. PICK s : IsSum(s, f, n) /\ SumTo(f, n) = s[n]
  BY SumToIs
<1> QED BY <1>1 DEF IsSum

(* Larger summands, larger sum.                                             *)
LEMMA SumMonotone ==
  ASSUME NEW n \in Nat, NEW f \in [1..n -> Nat], NEW g \in [1..n -> Nat],
         \A k \in 1..n : f[k] <= g[k]
  PROVE  SumTo(f, n) <= SumTo(g, n)
<1>1. PICK s : IsSum(s, f, n) /\ SumTo(f, n) = s[n]
  BY SumToIs
<1>2. PICK t : IsSum(t, g, n) /\ SumTo(g, n) = t[n]
  BY SumToIs
<1> DEFINE T == {k \in 0..n : s[k] <= t[k]}
<1>3. 0 \in T
  BY <1>1, <1>2 DEF IsSum
<1>4. ASSUME NEW k \in 0..(n - 1), k \in T PROVE k + 1 \in T
  <2>1. k + 1 \in 1..n /\ k + 1 \in 0..n /\ (k + 1) - 1 = k /\ k \in 0..n
    OBVIOUS
  <2>2. s[k + 1] = f[k + 1] + s[k] /\ t[k + 1] = g[k + 1] + t[k]
    BY <1>1, <1>2, <2>1 DEF IsSum
  <2>3. /\ s[k] \in Nat /\ t[k] \in Nat /\ f[k + 1] \in Nat /\ g[k + 1] \in Nat
        /\ f[k + 1] <= g[k + 1]
    BY <1>1, <1>2, <2>1 DEF IsSum
  <2> QED BY <1>4, <2>1, <2>2, <2>3
<1>5. 0..n \subseteq T
  <2> HIDE DEF T
  <2> QED BY <1>3, <1>4, UpTo
<1> QED BY <1>1, <1>2, <1>5

(* One summand more.                                                        *)
LEMMA SumOneMore ==
  ASSUME NEW n \in Nat, NEW f \in [1..n -> Nat], NEW i \in 1..n, NEW c \in Nat, f[i] = 0
  PROVE  SumTo([f EXCEPT ![i] = c], n) = SumTo(f, n) + c
<1>0. PICK g : g = [f EXCEPT ![i] = c]
  OBVIOUS
<1>1. g \in [1..n -> Nat] /\ g[i] = c /\ \A k \in 1..n : k # i => g[k] = f[k]
  BY <1>0
<1>2. PICK s : IsSum(s, f, n) /\ SumTo(f, n) = s[n]
  BY SumToIs
<1>3. PICK t : IsSum(t, g, n) /\ SumTo(g, n) = t[n]
  BY <1>1, SumToIs
<1> DEFINE T == {k \in 0..n : t[k] = IF k < i THEN s[k] ELSE s[k] + c}
<1>4. 0 \in T
  BY <1>2, <1>3 DEF IsSum
<1>5. ASSUME NEW k \in 0..(n - 1), k \in T PROVE k + 1 \in T
  <2>1. k + 1 \in 1..n /\ k + 1 \in 0..n /\ (k + 1) - 1 = k /\ k \in 0..n
    OBVIOUS
  <2>2. s[k + 1] = f[k + 1] + s[k] /\ t[k + 1] = g[k + 1] + t[k]
    BY <1>2, <1>3, <2>1 DEF IsSum
  <2>3. s[k] \in Nat /\ t[k] \in Nat /\ f[k + 1] \in Nat /\ g[k + 1] \in Nat
    BY <1>1, <1>2, <1>3, <2>1 DEF IsSum
  <2>4. t[k] = IF k < i THEN s[k] ELSE s[k] + c
    BY <1>5
  <2>5. CASE k + 1 = i
    <3>1. f[k + 1] = 0 /\ g[k + 1] = c /\ k < i /\ ~(k + 1 < i)
      BY <1>1, <2>5
    <3> QED BY <2>1, <2>2, <2>3, <2>4, <3>1
  <2>6. CASE k + 1 # i
    <3>1. g[k + 1] = f[k + 1] /\ (k < i <=> k + 1 < i)
      BY <1>1, <2>1, <2>6
    <3> QED BY <2>1, <2>2, <2>3, <2>4, <3>1
  <2> QED BY <2>5, <2>6
<1>6. 0..n \subseteq T
  <2> HIDE DEF T
  <2> QED BY <1>4, <1>5, UpTo
<1>7. t[n] = s[n] + c
  <2>1. n \in 0..n /\ ~(n < i)
    OBVIOUS
  <2> QED BY <1>6, <2>1
<1> QED BY <1>0, <1>2, <1>3, <1>7

(* Nothing to add.                                                          *)
LEMMA SumOfNothing ==
  ASSUME NEW n \in Nat, NEW f \in [1..n -> Nat], \A k \in 1..n : f[k] = 0
  PROVE  SumTo(f, n) = 0
<1>1. PICK s : IsSum(s, f, n) /\ SumTo(f, n) = s[n]
  BY SumToIs
<1> DEFINE T == {k \in 0..n : s[k] = 0}
<1>2. 0 \in T
  BY <1>1 DEF IsSum
<1>3. ASSUME NEW k \in 0..(n - 1), k \in T PROVE k + 1 \in T
  <2>1. k + 1 \in 1..n /\ k + 1 \in 0..n /\ (k + 1) - 1 = k
    OBVIOUS
  <2>2. s[k + 1] = f[k + 1] + s[k] /\ f[k + 1] = 0 /\ s[k] = 0
    BY <1>1, <1>3, <2>1 DEF IsSum
  <2> QED BY <2>1, <2>2
<1>4. 0..n \subseteq T
  <2> HIDE DEF T
  <2> QED BY <1>2, <1>3, UpTo
<1> QED BY <1>1, <1>4

-----------------------------------------------------------------------------
(* The bars of one answer.                                                  *)

(* The count of some rows.                                                  *)
LEMMA TotalOf ==
  ASSUME NEW rows, IsTable(rows)
  PROVE  /\ Total(rows, {}) = 0
         /\ \A S : Total(rows, S) \in Nat
         /\ \A S, R : S \subseteq R => Total(rows, S) <= Total(rows, R)
         /\ \A S : \A i \in DOMAIN rows :
              i \notin S => Total(rows, S \cup {i}) = Total(rows, S) + rows[i].cnt
<1> DEFINE n == Len(rows)
           F(S) == [i \in 1..n |-> IF i \in S THEN rows[i].cnt ELSE 0]
<1>1. n \in Nat /\ DOMAIN rows = 1..n /\ \A i \in 1..n : rows[i].cnt \in Nat
  BY DEF IsTable
<1>2. \A S : Total(rows, S) = SumTo(F(S), n) /\ F(S) \in [1..n -> Nat]
  <2>1. ASSUME NEW S PROVE Total(rows, S) = SumTo(F(S), n)
    BY <1>1 DEF Total
  <2>2. ASSUME NEW S PROVE F(S) \in [1..n -> Nat]
    <3> HIDE DEF n
    <3> QED BY <1>1
  <2> HIDE DEF F, n
  <2> QED BY <2>1, <2>2
<1> HIDE DEF n
<1>3. Total(rows, {}) = 0
  <2>1. \A k \in 1..n : F({})[k] = 0
    OBVIOUS
  <2> HIDE DEF F
  <2> QED BY <1>1, <1>2, <2>1, SumOfNothing
<1>4. \A S : Total(rows, S) \in Nat
  <2> HIDE DEF F
  <2> QED BY <1>1, <1>2, SumNat
<1>5. ASSUME NEW S, NEW R, S \subseteq R PROVE Total(rows, S) <= Total(rows, R)
  <2>1. \A k \in 1..n : F(S)[k] <= F(R)[k]
    BY <1>1, <1>5
  <2> HIDE DEF F
  <2> QED BY <1>1, <1>2, <2>1, SumMonotone
<1>6. ASSUME NEW S, NEW i \in DOMAIN rows, i \notin S
      PROVE  Total(rows, S \cup {i}) = Total(rows, S) + rows[i].cnt
  <2>1. PICK c : c = rows[i].cnt
    OBVIOUS
  <2>2. F(S)[i] = 0 /\ i \in 1..n /\ c \in Nat
    BY <1>1, <1>6, <2>1
  <2>3. F(S \cup {i}) = [F(S) EXCEPT ![i] = c]
    BY <1>1, <2>1
  <2> HIDE DEF F
  <2>4. PICK f : f = F(S)
    OBVIOUS
  <2>5. f \in [1..n -> Nat] /\ f[i] = 0
    BY <1>2, <2>2, <2>4
  <2>6. SumTo([f EXCEPT ![i] = c], n) = SumTo(f, n) + c
    BY <1>1, <2>2, <2>5, SumOneMore
  <2> QED BY <1>2, <2>1, <2>3, <2>4, <2>6
<1> HIDE DEF F
<1> QED BY <1>3, <1>4, <1>5, <1>6

(* The values above row i, and the row that brings v up.                    *)
Before(rows, key, i) == {rows[j][key] : j \in 1..(i - 1)}

BringsUp(rows, key, v, i) ==
  /\ rows[i][key] = v /\ \A j \in 1..(i - 1) : rows[j][key] # v
  /\ Index(rows, key, v) = Cardinality(Before(rows, key, i))

(* A value of a field comes up somewhere first.                             *)
LEMMA ComesFirst ==
  ASSUME NEW rows, IsTable(rows), NEW key, NEW v \in Values(rows, key)
  PROVE  \E i \in DOMAIN rows : BringsUp(rows, key, v, i)
<1> DEFINE T == {i \in DOMAIN rows : rows[i][key] = v}
           First(i) == rows[i][key] = v /\ \A j \in 1..(i - 1) : rows[j][key] # v
<1>1. Len(rows) \in Nat /\ DOMAIN rows = 1..Len(rows)
  BY DEF IsTable
<1>2. T \in SUBSET Nat /\ T # {}
  BY <1>1 DEF Values
<1>3. PICK x \in T : \A y \in T : x <= y
  BY <1>2, SmallestNat
<1>4. x \in DOMAIN rows /\ First(x)
  <2>1. \A j \in 1..(x - 1) : j \in DOMAIN rows /\ ~(x <= j)
    BY <1>1, <1>3
  <2> QED BY <1>3, <2>1
<1> DEFINE c == CHOOSE i \in DOMAIN rows : First(i)
<1>5. c \in DOMAIN rows /\ First(c)
  <2> HIDE DEF First
  <2> QED BY <1>4, Zenon
<1>6. Index(rows, key, v) = Cardinality({rows[j][key] : j \in 1..(c - 1)})
  BY Zenon DEF Index
<1> HIDE DEF c
<1> QED BY <1>5, <1>6 DEF BringsUp, Before

(* A finite set without one of its elements is smaller.                     *)
LEMMA Smaller ==
  ASSUME NEW S, IsFiniteSet(S), NEW T \in SUBSET S, NEW v \in S, v \notin T
  PROVE  Cardinality(T) \in Nat /\ Cardinality(S) \in Nat /\ Cardinality(T) < Cardinality(S)
<1>1. IsFiniteSet(T) /\ Cardinality(T) <= Cardinality(S) /\ Cardinality(T) # Cardinality(S)
  BY FS_Subset
<1>2. Cardinality(T) \in Nat /\ Cardinality(S) \in Nat
  BY <1>1, FS_CardinalityType
<1> QED BY <1>1, <1>2

(* The values of a field are numbered from 0 on, each with a number of its  *)
(* own.                                                                     *)
LEMMA Numbered ==
  ASSUME NEW rows, IsTable(rows), NEW key
  PROVE  /\ IsFiniteSet(Values(rows, key)) /\ Cardinality(Values(rows, key)) \in Nat
         /\ \A v \in Values(rows, key) :
              /\ Index(rows, key, v) \in 0..(Cardinality(Values(rows, key)) - 1)
         /\ \A v, w \in Values(rows, key) :
              Index(rows, key, v) = Index(rows, key, w) => v = w
<1> DEFINE all == Values(rows, key)
<1>1. Len(rows) \in Nat /\ DOMAIN rows = 1..Len(rows)
  BY DEF IsTable
<1>2. IsFiniteSet(all) /\ Cardinality(all) \in Nat
  <2>1. IsFiniteSet(DOMAIN rows)
    BY <1>1, FS_Interval
  <2>2. IsFiniteSet({rows[i][key] : i \in DOMAIN rows})
    <3> DEFINE f == [i \in DOMAIN rows |-> rows[i][key]]
    <3>1. f \in Surjection(DOMAIN rows, {rows[i][key] : i \in DOMAIN rows})
      BY DEF Surjection
    <3> QED BY <2>1, <3>1, FS_Surjection
  <2> QED BY <2>2, FS_CardinalityType DEF Values
<1>3. ASSUME NEW i \in DOMAIN rows
      PROVE  /\ Before(rows, key, i) \subseteq all /\ IsFiniteSet(Before(rows, key, i))
             /\ Cardinality(Before(rows, key, i)) \in Nat
  <2>1. Before(rows, key, i) \subseteq all
    <3>1. \A j \in 1..(i - 1) : j \in DOMAIN rows
      BY <1>1
    <3> QED BY <3>1 DEF Values, Before
  <2> QED BY <1>2, <2>1, FS_Subset, FS_CardinalityType
<1>4. ASSUME NEW v \in all PROVE Index(rows, key, v) \in 0..(Cardinality(all) - 1)
  <2>1. PICK i \in DOMAIN rows : BringsUp(rows, key, v, i)
    BY ComesFirst
  <2>2. Before(rows, key, i) \subseteq all /\ v \notin Before(rows, key, i) /\ v \in all
    BY <1>3, <2>1 DEF BringsUp, Before
  <2> HIDE DEF all
  <2>3. Cardinality(Before(rows, key, i)) < Cardinality(all)
    BY <1>2, <2>2, Smaller
  <2>4. Cardinality(Before(rows, key, i)) \in Nat
    BY <1>3
  <2> QED BY <1>2, <2>1, <2>3, <2>4 DEF BringsUp
<1>5. ASSUME NEW v \in all, NEW w \in all, Index(rows, key, v) = Index(rows, key, w)
      PROVE  v = w
  <2>1. PICK i \in DOMAIN rows : BringsUp(rows, key, v, i)
    BY ComesFirst
  <2>2. PICK k \in DOMAIN rows : BringsUp(rows, key, w, k)
    BY ComesFirst
  <2>3. ASSUME i < k PROVE FALSE
    <3>1. i \in 1..(k - 1) /\ 1..(i - 1) \subseteq 1..(k - 1)
      BY <1>1, <2>3
    <3>2. v \in Before(rows, key, k) /\ v \notin Before(rows, key, i) /\ Before(rows, key, i) \subseteq Before(rows, key, k)
      BY <2>1, <3>1 DEF BringsUp, Before
    <3>3. /\ Cardinality(Before(rows, key, i)) < Cardinality(Before(rows, key, k))
          /\ Cardinality(Before(rows, key, i)) \in Nat /\ Cardinality(Before(rows, key, k)) \in Nat
      BY <1>3, <3>2, Smaller
    <3>4. Cardinality(Before(rows, key, i)) = Cardinality(Before(rows, key, k))
      BY <1>5, <2>1, <2>2 DEF BringsUp
    <3> QED BY <3>3, <3>4
  <2>4. ASSUME k < i PROVE FALSE
    <3>1. k \in 1..(i - 1) /\ 1..(k - 1) \subseteq 1..(i - 1)
      BY <1>1, <2>4
    <3>2. w \in Before(rows, key, i) /\ w \notin Before(rows, key, k) /\ Before(rows, key, k) \subseteq Before(rows, key, i)
      BY <2>2, <3>1 DEF BringsUp, Before
    <3>3. /\ Cardinality(Before(rows, key, k)) < Cardinality(Before(rows, key, i))
          /\ Cardinality(Before(rows, key, i)) \in Nat /\ Cardinality(Before(rows, key, k)) \in Nat
      BY <1>3, <3>2, Smaller
    <3>4. Cardinality(Before(rows, key, i)) = Cardinality(Before(rows, key, k))
      BY <1>5, <2>1, <2>2 DEF BringsUp
    <3> QED BY <3>3, <3>4
  <2>5. i = k
    BY <1>1, <2>3, <2>4
  <2> QED BY <2>1, <2>2, <2>5 DEF BringsUp
<1> HIDE DEF all
<1> QED BY <1>2, <1>4, <1>5 DEF all

(* The row of group g that is drawn in layer l.                             *)
Row(rows, g, l, i) ==
  /\ i \in DOMAIN rows /\ rows[i].group = g
  /\ Index(rows, "stack", rows[i].stack) = l

(* There is one at most, and the layer counts what it says.                 *)
LEMMA RowIsOne ==
  ASSUME NEW rows, IsTable(rows), NEW g, NEW l, NEW i, NEW j,
         Row(rows, g, l, i), Row(rows, g, l, j)
  PROVE  i = j
<1>1. rows[i].stack \in Values(rows, "stack") /\ rows[j].stack \in Values(rows, "stack")
  BY DEF Row, Values
<1>2. rows[i].stack = rows[j].stack
  BY <1>1, Numbered DEF Row
<1> QED BY <1>2 DEF Row, IsTable

LEMMA CountIs ==
  ASSUME NEW rows, IsTable(rows), NEW g \in Values(rows, "group"), NEW l
  PROVE  /\ \A i : Row(rows, g, l, i) => CountAt(rows, l, Index(rows, "group", g)) = rows[i].cnt
         /\ (\A i : ~Row(rows, g, l, i)) => CountAt(rows, l, Index(rows, "group", g)) = 0
         /\ CountAt(rows, l, Index(rows, "group", g)) \in Nat
<1> DEFINE at == Index(rows, "group", g)
           hit == {i \in DOMAIN rows : /\ Index(rows, "stack", rows[i].stack) = l
                                       /\ Index(rows, "group", rows[i].group) = at}
<1>1. \A i : i \in hit <=> Row(rows, g, l, i)
  <2>1. ASSUME NEW i \in DOMAIN rows, Index(rows, "group", rows[i].group) = at
        PROVE  rows[i].group = g
    <3>1. rows[i].group \in Values(rows, "group")
      BY DEF Values
    <3> QED BY <2>1, <3>1, Numbered
  <2> QED BY <2>1 DEF Row
<1>2. CountAt(rows, l, at) = IF hit = {} THEN 0 ELSE rows[CHOOSE i \in hit : TRUE].cnt
  BY Zenon DEF CountAt
<1>3. hit \subseteq DOMAIN rows
  OBVIOUS
<1> HIDE DEF hit, at
<1>4. ASSUME NEW i, Row(rows, g, l, i)
      PROVE  CountAt(rows, l, at) = rows[i].cnt /\ rows[i].cnt \in Nat
  <2> DEFINE c == CHOOSE k \in hit : TRUE
  <2>1. i \in hit
    BY <1>1, <1>4
  <2>2. c \in hit
    BY <2>1, Zenon
  <2>3. CountAt(rows, l, at) = rows[c].cnt
    BY <1>2, <2>1, Zenon
  <2> HIDE DEF c
  <2>4. c = i
    BY <1>1, <1>4, <2>2, RowIsOne
  <2> QED BY <1>4, <2>3, <2>4 DEF Row, IsTable
<1>5. ASSUME \A i : ~Row(rows, g, l, i) PROVE CountAt(rows, l, at) = 0
  BY <1>1, <1>2, <1>5
<1>6. CountAt(rows, l, at) \in Nat
  BY <1>4, <1>5
<1> QED BY <1>4, <1>5, <1>6 DEF at

(* The rows of group g drawn below layer l.                                 *)
Below(rows, g, l) ==
  {i \in DOMAIN rows : rows[i].group = g /\ Index(rows, "stack", rows[i].stack) < l}

(* A layer starts at the count of the rows below it.                        *)
LEMMA LowerIs ==
  ASSUME NEW rows, IsTable(rows), NEW g \in Values(rows, "group"), NEW l \in Nat
  PROVE  LowerLayers(rows, l, Index(rows, "group", g)) = Total(rows, Below(rows, g, l))
<1> DEFINE at == Index(rows, "group", g)
           f == [k \in 1..l |-> CountAt(rows, k - 1, at)]
<1>1. \A i \in DOMAIN rows : Index(rows, "stack", rows[i].stack) \in Nat
  <2>1. ASSUME NEW i \in DOMAIN rows PROVE Index(rows, "stack", rows[i].stack) \in Nat
    <3>1. rows[i].stack \in Values(rows, "stack")
      BY DEF Values
    <3> QED BY <3>1, Numbered
  <2> QED BY <2>1
<1>2. f \in [1..l -> Nat]
  <2>1. \A k : CountAt(rows, k, at) \in Nat
    BY CountIs
  <2> HIDE DEF at
  <2> QED BY <2>1
<1>3. LowerLayers(rows, l, at) = SumTo(f, l)
  BY DEF LowerLayers
<1>4. \A k \in 1..l : f[k] = CountAt(rows, k - 1, at)
  OBVIOUS
<1> HIDE DEF f
<1>5. PICK s : IsSum(s, f, l) /\ SumTo(f, l) = s[l]
  BY <1>2, SumToIs
<1> DEFINE T == {k \in 0..l : s[k] = Total(rows, Below(rows, g, k))}
<1>6. 0 \in T
  <2>1. Below(rows, g, 0) = {}
    BY <1>1 DEF Below
  <2>2. s[0] = 0 /\ Total(rows, {}) = 0
    BY <1>5, TotalOf DEF IsSum
  <2> QED BY <2>1, <2>2
<1>7. ASSUME NEW k \in 0..(l - 1), k \in T PROVE k + 1 \in T
  <2>1. k + 1 \in 1..l /\ k + 1 \in 0..l /\ (k + 1) - 1 = k
    OBVIOUS
  <2>2. s[k + 1] = CountAt(rows, k, at) + Total(rows, Below(rows, g, k))
    BY <1>4, <1>5, <1>7, <2>1 DEF IsSum
  <2>3. CASE \E i : Row(rows, g, k, i)
    <3>1. PICK i : Row(rows, g, k, i)
      BY <2>3
    <3>2. Below(rows, g, k + 1) = Below(rows, g, k) \cup {i}
      <4>1. \A j : Row(rows, g, k, j) => j = i
        BY <3>1, RowIsOne
      <4>2. \A j \in DOMAIN rows :
              Index(rows, "stack", rows[j].stack) < k + 1
                <=> Index(rows, "stack", rows[j].stack) < k \/ Index(rows, "stack", rows[j].stack) = k
        BY <1>1
      <4> QED BY <3>1, <4>1, <4>2 DEF Below, Row
    <3>3. i \notin Below(rows, g, k) /\ i \in DOMAIN rows
      BY <3>1 DEF Below, Row
    <3>4. Total(rows, Below(rows, g, k + 1)) = Total(rows, Below(rows, g, k)) + rows[i].cnt
      BY <3>2, <3>3, TotalOf
    <3>5. CountAt(rows, k, at) = rows[i].cnt
      BY <3>1, CountIs
    <3>6. rows[i].cnt \in Nat /\ Total(rows, Below(rows, g, k)) \in Nat
      BY <3>3, TotalOf DEF IsTable
    <3> QED BY <2>1, <2>2, <3>4, <3>5, <3>6
  <2>4. CASE ~\E i : Row(rows, g, k, i)
    <3>1. Below(rows, g, k + 1) = Below(rows, g, k)
      <4>1. \A j \in DOMAIN rows :
              Index(rows, "stack", rows[j].stack) < k + 1
                <=> Index(rows, "stack", rows[j].stack) < k \/ Index(rows, "stack", rows[j].stack) = k
        BY <1>1
      <4> QED BY <2>4, <4>1 DEF Below, Row
    <3>2. CountAt(rows, k, at) = 0
      BY <2>4, CountIs
    <3>3. Total(rows, Below(rows, g, k)) \in Nat
      BY TotalOf
    <3> QED BY <2>1, <2>2, <3>1, <3>2, <3>3
  <2> QED BY <2>3, <2>4
<1>8. l \in T
  <2> HIDE DEF T
  <2>1. 0..l \subseteq T
    BY <1>6, <1>7, UpTo
  <2> QED BY <2>1
<1> QED BY <1>3, <1>5, <1>8

(* The bars of an answer tile.                                              *)
LEMMA AnswersTile ==
  ASSUME NEW rows, IsTable(rows), NEW g \in Values(rows, "group")
  PROVE  Tile(rows, Bars(rows), g)
<1> DEFINE mine == {i \in DOMAIN rows : rows[i].group = g}
           at == Index(rows, "group", g)
           layer(i) == Index(rows, "stack", rows[i].stack)
           bars == Bars(rows)
           bar(i) == bars[<<layer(i), at>>]
<1>1. \A i \in mine :
        /\ layer(i) \in 0..(Cardinality(Values(rows, "stack")) - 1)
        /\ Row(rows, g, layer(i), i)
  <2>1. ASSUME NEW i \in mine
        PROVE  layer(i) \in 0..(Cardinality(Values(rows, "stack")) - 1)
    <3>1. rows[i].stack \in Values(rows, "stack")
      BY DEF Values
    <3> QED BY <3>1, Numbered
  <2> QED BY <2>1 DEF Row
<1>2. at \in 0..(Cardinality(Values(rows, "group")) - 1)
  BY Numbered
<1>3. \A k \in 0..(Cardinality(Values(rows, "stack")) - 1) :
        bars[<<k, at>>] = [x0 |-> LowerLayers(rows, k, at), cnt |-> CountAt(rows, k, at)]
  BY <1>2 DEF Bars
<1>4. \A i \in mine :
        /\ bar(i).x0 = Total(rows, Below(rows, g, layer(i)))
        /\ bar(i).cnt = rows[i].cnt
  <2>1. ASSUME NEW i \in mine
        PROVE  /\ bar(i).x0 = Total(rows, Below(rows, g, layer(i)))
               /\ bar(i).cnt = rows[i].cnt
    <3>1. PICK k : k = layer(i)
      OBVIOUS
    <3>2. k \in 0..(Cardinality(Values(rows, "stack")) - 1) /\ Row(rows, g, k, i)
      BY <1>1, <3>1
    <3>3. k \in Nat
      BY <3>2, Numbered
    <3>4. LowerLayers(rows, k, at) = Total(rows, Below(rows, g, k))
      BY <3>3, LowerIs
    <3>5. CountAt(rows, k, at) = rows[i].cnt
      BY <3>2, CountIs
    <3>6. PICK b : b = bars[<<k, at>>]
      OBVIOUS
    <3>7. b = [x0 |-> LowerLayers(rows, k, at), cnt |-> CountAt(rows, k, at)]
      BY <1>3, <3>2, <3>6, Zenon
    <3>8. b.x0 = Total(rows, Below(rows, g, k)) /\ b.cnt = rows[i].cnt
      BY <3>4, <3>5, <3>7
    <3> QED BY <3>1, <3>6, <3>8, Zenon
  <2> QED BY <2>1
<1> DEFINE lower(i) == Below(rows, g, layer(i))
<1>5. ASSUME NEW i \in mine
      PROVE  /\ bar(i).x0 + bar(i).cnt = Total(rows, lower(i) \cup {i})
             /\ lower(i) \cup {i} \subseteq mine
  <2>1. i \in DOMAIN rows /\ i \notin lower(i)
    BY <1>1, Numbered DEF Below
  <2>2. PICK S : S = lower(i)
    OBVIOUS
  <2>3. Total(rows, S \cup {i}) = Total(rows, S) + rows[i].cnt
    BY <2>1, <2>2, TotalOf
  <2>4. lower(i) \cup {i} \subseteq mine
    BY DEF Below
  <2> QED BY <1>4, <2>2, <2>3, <2>4
<1>6. ASSUME NEW i \in mine, NEW j \in mine, layer(i) < layer(j)
      PROVE  bar(i).x0 + bar(i).cnt <= bar(j).x0
  <2>1. \A k \in mine : layer(k) \in Int
    BY <1>1
  <2>2. lower(i) \cup {i} \subseteq lower(j)
    BY <1>6, <2>1 DEF Below
  <2>3. PICK S : S = lower(i) \cup {i}
    OBVIOUS
  <2>4. PICK R : R = lower(j)
    OBVIOUS
  <2>5. Total(rows, S) <= Total(rows, R)
    BY <2>2, <2>3, <2>4, TotalOf
  <2> QED BY <1>4, <1>5, <2>3, <2>4, <2>5
<1>7. ASSUME NEW i \in mine, NEW j \in mine, i # j
      PROVE  \/ bar(i).x0 + bar(i).cnt <= bar(j).x0
             \/ bar(j).x0 + bar(j).cnt <= bar(i).x0
  <2>1. layer(i) # layer(j)
    BY <1>1, <1>7, RowIsOne
  <2>2. layer(i) < layer(j) \/ layer(j) < layer(i)
    BY <1>1, <2>1
  <2> QED BY <1>6, <2>2
<1>8. ASSUME NEW i \in mine PROVE bar(i).x0 + bar(i).cnt <= Total(rows, mine)
  <2>1. PICK S : S = lower(i) \cup {i}
    OBVIOUS
  <2>2. PICK R : R = mine
    OBVIOUS
  <2>3. S \subseteq R
    BY <1>5, <2>1, <2>2
  <2>4. Total(rows, S) <= Total(rows, R)
    BY <2>3, TotalOf
  <2> QED BY <1>5, <2>1, <2>2, <2>4
<1> QED BY <1>4, <1>7, <1>8, Zenon DEF Tile

(* The chart shows the bars of the rows it shows, when it shows any.        *)
Shows == chart.rows = <<>> \/ (chart.rows \in Tables /\ chart.bars = Bars(chart.rows))

LEMMA ShowsHolds == Spec => []Shows
<1>1. Init => Shows
  BY DEF Init, NoChart, Shows
<1>2. Shows /\ [Next]_vars => Shows'
  <2> SUFFICES ASSUME Shows, [Next]_vars PROVE Shows'
    OBVIOUS
  <2>1. ASSUME NEW q \in Queries, ChangeForm(q) \/ TypeQuery(q) PROVE Shows'
    BY <2>1 DEF ChangeForm, TypeQuery, Ask, Shows
  <2>2. ASSUME NEW r \in underway, NEW rows \in Tables, Answer(r, rows) PROVE Shows'
    BY <2>2 DEF Answer, Drawn, Shows
  <2>3. ASSUME NEW r \in underway, AnswerFails(r) PROVE Shows'
    BY <2>3 DEF AnswerFails, Shows
  <2>4. CASE Dismiss
    BY <2>4 DEF Dismiss, Shows
  <2>5. CASE UNCHANGED vars
    BY <2>5 DEF vars, Shows
  <2> QED BY <2>1, <2>2, <2>3, <2>4, <2>5 DEF Next, Answered
<1> QED BY <1>1, <1>2, PTL DEF Spec

(* Whatever has been answered, in whatever order, the bars of every group   *)
(* lie side by side between zero and the number of its incidents.           *)
THEOREM BarsLieSideBySide == Spec => []BarsTile
<1>1. Shows => BarsTile
  <2> SUFFICES ASSUME Shows, NEW g \in Values(chart.rows, "group")
               PROVE  Tile(chart.rows, chart.bars, g)
    BY DEF BarsTile
  <2>1. chart.rows # <<>>
    BY DEF Values
  <2>2. chart.rows \in Tables /\ chart.bars = Bars(chart.rows)
    BY <2>1 DEF Shows
  <2>3. Tile(chart.rows, Bars(chart.rows), g)
    BY <2>2, AnswersTile
  <2> QED BY <2>2, <2>3
<1>2. Spec => []Shows
  BY ShowsHolds
<1> QED BY <1>1, <1>2, PTL
=============================================================================
