--------------------------- MODULE LogImportProofs ---------------------------
(* What holds of the import for all logs, records and numbers of processes  *)
(* and runs, proved with TLAPS.                                             *)
EXTENDS LogImport, NaturalsLemmas

-----------------------------------------------------------------------------
(* Remainders.                                                              *)

(* A number below the divisor is its own remainder. *)
LEMMA ModBelow == ASSUME NEW D \in Nat, NEW x \in Nat, x < D PROVE x % D = x
OBVIOUS

(* One divisor more changes nothing. *)
LEMMA ModAbove == ASSUME NEW D \in Nat, NEW x \in Nat, x < D PROVE (x + D) % D = x
OBVIOUS

USE ImportAssumption

-----------------------------------------------------------------------------
(* Least elements.                                                          *)

(* Min picks the least element of a non-empty set of natural numbers.       *)
LEMMA MinOfNat ==
  ASSUME NEW T \in SUBSET Nat, T # {}
  PROVE  Min(T) \in T /\ \A y \in T : Min(T) <= y
<1>1. \E x \in T : \A y \in T : x <= y
  BY SmallestNat
<1> QED BY <1>1 DEF Min

-----------------------------------------------------------------------------
(* Types.                                                                   *)

Steps == {"off", "icad", "record", "details", "incidents", "incident", "entry", "measures"}

Locals == [step : Steps, todo : SUBSET (Records \cup Cads), n : Nat, seen : SUBSET Entries,
           lines : SUBSET Entries, o : Objects \cup {None}]

(* The types of the variables one by one, as functions. *)
TableTypes ==
  /\ log \in Logs /\ al \in SUBSET Entries
  /\ icad \in [Records -> Seq(Nat) \cup {None}]
  /\ inc \in [Cads -> Rows \cup {None}]
  /\ measures \in [Entries -> Seq(STRING)]
  /\ starts \in 0..MaxStarts /\ broken \in SUBSET Records
  /\ scan \in [Cads -> [of : SUBSET al, ended : BOOLEAN, crossed : BOOLEAN]]

(* What a process has in each of its steps. *)
LocalOf(r, known, made) ==
  /\ r \in Locals
  /\ r.seen \subseteq known /\ r.lines \subseteq known
  /\ r.step \in {"icad", "record", "details"} => r.todo \subseteq Records
  /\ r.step \in {"incidents", "incident", "entry", "measures"} =>
       r.todo \subseteq {Cad[e] : e \in r.seen}
  /\ r.step \notin {"off", "icad", "incidents"} => r.todo # {}
  /\ r.step \in {"details", "measures"} => r.n > 0
  /\ r.step \in {"entry", "measures"} => r.o \in Objects
  /\ r.step = "measures" => r.lines # {}
  /\ r.step = "details" => Min(r.todo) \in made

Made == {r \in Records : icad[r] # None}

TypeInv ==
  /\ TableTypes
  /\ run \in [Importers -> Locals]
  /\ \A p \in Importers : LocalOf(run[p], al, Made)
  /\ \A r \in Records : icad[r] # None => icad[r] \in Seq(DOMAIN Clock[r])

(* The incident at hand, as a function of what is to do and was seen; its   *)
(* row exists while its log is read.                                        *)
IncidentIn(todo, seen) ==
  CHOOSE c \in todo : \A d \in todo :
    Min({e \in seen : Cad[e] = c}) <= Min({e \in seen : Cad[e] = d})

RowInv ==
  \A p \in Importers : run[p].step \in {"entry", "measures"} =>
    LET c == IncidentIn(run[p].todo, run[p].seen)
    IN  c \in Cads /\ inc[c] # None

(* A process that goes to a state of its own leaves the others as they were. *)
LEMMA GoesTyped ==
  ASSUME TypeInv, NEW p \in Importers, NEW r, Goes(p, r), LocalOf(r, al', Made'),
         al \subseteq al', Made \subseteq Made'
  PROVE  run' \in [Importers -> Locals] /\ \A q \in Importers : LocalOf(run'[q], al', Made')
BY DEF TypeInv, Goes, LocalOf

(* The incident in memory. *)
LEMMA SetTyped ==
  ASSUME NEW o \in Objects, NEW col \in Columns, NEW e \in Entries \cup {None}
  PROVE  Set(o, col, e) \in Objects
BY DEF Set, Objects, Rows

(* Removing what is found again (I:718) leaves an incident. *)
LEMMA ClearedTyped ==
  ASSUME NEW row \in Rows
  PROVE  Cleared(row) \in Objects
<1>1. [row |-> row, dirty |-> {}, open |-> None, proxy |-> None] \in Objects
  BY DEF Objects
<1>2. "verification" \in Columns /\ "lanes_clear" \in Columns /\ None \in Entries \cup {None}
  BY DEF Columns
<1> QED BY <1>1, <1>2, SetTyped DEF Cleared, ClearedVerification

(* So does what the subject of an entry sets. *)
LEMMA SubjectTyped ==
  ASSUME NEW o \in Objects, NEW e \in Entries
  PROVE  WithSubject(o, e) \in Objects
<1> DEFINE s == log[e].subject
           begun == SetIf(s = "sigalert begin", o, "sigalert_begin", e)
           ended == SetIf(s = "sigalert end", begun, "sigalert_end", e)
<1>1. begun \in Objects
  BY SetTyped DEF SetIf, Columns
<1>2. ended \in Objects
  <2> HIDE DEF begun
  <2> QED BY <1>1, SetTyped DEF SetIf, Columns
<1>3. WithSubject(o, e) =
        [ended EXCEPT !.open = IF s = "open" THEN e ELSE @,
                      !.proxy = IF s \in {"info", "sigalert begin"} /\ @ = None THEN e ELSE @]
  BY DEF WithSubject
<1> HIDE DEF ended, s
<1> QED BY <1>2, <1>3 DEF Objects

(* So does a performance measure. *)
LEMMA MeasureTyped ==
  ASSUME NEW o \in Objects, NEW e \in Entries, NEW m
  PROVE  WithMeasure(o, e, m) \in Objects
<1> DEFINE called == SetIf(m = "first call", o, "first_call", e)
           verified == SetIf(m = "verification" /\ ~Has(o, "verification"), called, "verification", e)
<1>1. called \in Objects
  BY SetTyped DEF SetIf, Columns
<1>2. verified \in Objects
  <2> HIDE DEF called
  <2> QED BY <1>1, SetTyped DEF SetIf, Columns
<1>3. WithMeasure(o, e, m) = SetIf(m = "lanes clear", verified, "lanes_clear", e)
  BY DEF WithMeasure
<1> HIDE DEF verified
<1> QED BY <1>2, <1>3, SetTyped DEF SetIf, Columns

(* So does the memo of an entry. *)
LEMMA MemoTyped ==
  ASSUME NEW o \in Objects, NEW e \in Entries
  PROVE  WithMemo(o, e) \in Objects
<1> DEFINE seen == SetIf(~Has(o, "verification") /\ log[e].memo = "visual", o, "verification", e)
           alert == SetIf(~Has(seen, "verification") /\ Has(o, "sigalert_begin"), seen,
                          "verification", o.row["sigalert_begin"])
<1>1. seen \in Objects
  BY SetTyped DEF SetIf, Columns
<1>2. o.row["sigalert_begin"] \in Entries \cup {None}
  BY DEF Objects, Rows, Columns
<1>3. alert \in Objects
  <2> HIDE DEF seen
  <2> QED BY <1>1, <1>2, SetTyped DEF SetIf, Columns
<1>4. WithMemo(o, e) =
        SetIf(~Has(o, "lanes_clear") /\ (log[e].memo = "clear" \/ log[e].subject = "close"), alert,
              "lanes_clear", e)
  BY DEF WithMemo
<1> HIDE DEF alert
<1> QED BY <1>3, <1>4, SetTyped DEF SetIf, Columns

(* So do the entries kept aside for the end. *)
LEMMA FallbacksTyped ==
  ASSUME NEW o \in Objects
  PROVE  WithFallbacks(o) \in Objects
<1> DEFINE called == SetIf(~Has(o, "first_call") /\ o.open # None, o, "first_call", o.open)
<1>1. o.open \in Entries \cup {None} /\ o.proxy \in Entries \cup {None}
  BY DEF Objects
<1>2. called \in Objects
  BY <1>1, SetTyped DEF SetIf, Columns
<1>3. WithFallbacks(o) =
        SetIf(~Has(o, "verification") /\ o.proxy # None, called, "verification", o.proxy)
  BY DEF WithFallbacks
<1> HIDE DEF called
<1> QED BY <1>1, <1>2, <1>3, SetTyped DEF SetIf, Columns

(* What update writes is a row. *)
LEMMA StoredTyped ==
  ASSUME NEW old \in Rows, NEW o \in Objects
  PROVE  StoredRow(old, o) \in Rows
BY DEF StoredRow, Rows, Objects

(* Choices from what is there. *)
LEMMA RecordIsThere ==
  ASSUME TypeInv, NEW p \in Importers, run[p].step \in {"icad", "record", "details"}, run[p].todo # {}
  PROVE  Record(p) \in run[p].todo /\ Record(p) \in Records
BY MinOfNat DEF TypeInv, LocalOf, Record

(* The next entry of a log. *)
LEMMA LineIsThere ==
  ASSUME TypeInv, NEW p \in Importers, run[p].lines # {}
  PROVE  Min(run[p].lines) \in run[p].lines /\ Min(run[p].lines) \in Entries
BY MinOfNat DEF TypeInv, Locals

(* The next incident: the one whose first counted entry is least. *)
LEMMA IncidentIsThere ==
  ASSUME TypeInv, NEW p \in Importers,
         run[p].step \in {"incidents", "incident", "entry", "measures"}, run[p].todo # {}
  PROVE  /\ Incident(p) \in run[p].todo /\ Incident(p) \in Cads
         /\ FirstEntry(p, Incident(p)) \in run[p].seen
<1> DEFINE F == {FirstEntry(p, c) : c \in run[p].todo}
<1>1. run[p].todo \subseteq {Cad[e] : e \in run[p].seen} /\ run[p].seen \subseteq Entries
  <2>1. LocalOf(run[p], al, Made)
    BY DEF TypeInv
  <2>2. run[p].todo \subseteq {Cad[e] : e \in run[p].seen}
    BY <2>1, Zenon DEF LocalOf
  <2>3. run[p] \in Locals
    BY <2>1 DEF LocalOf
  <2> QED BY <2>2, <2>3 DEF Locals
<1>2. ASSUME NEW c \in run[p].todo PROVE FirstEntry(p, c) \in run[p].seen
  <2>1. {e \in run[p].seen : Cad[e] = c} # {} /\ {e \in run[p].seen : Cad[e] = c} \in SUBSET Nat
    BY <1>1
  <2> QED BY <2>1, MinOfNat DEF FirstEntry
<1>3. F \in SUBSET Nat /\ F # {}
  <2>1. run[p].seen \subseteq Nat
    BY <1>1
  <2>2. ASSUME NEW y \in F PROVE y \in Nat
    BY <1>2, <2>1
  <2> QED BY <2>2
<1>4. \E c \in run[p].todo : \A d \in run[p].todo : FirstEntry(p, c) <= FirstEntry(p, d)
  <2>1. Min(F) \in F /\ \A y \in F : Min(F) <= y
    <3> HIDE DEF F
    <3> QED BY <1>3, MinOfNat
  <2> QED BY <2>1
<1>5. Incident(p) \in run[p].todo
  BY <1>4 DEF Incident
<1> QED BY <1>1, <1>2, <1>5 DEF Cads

(* The incident at hand is taken in: the state it is left in has its type. *)
LEMMA OpensTyped ==
  ASSUME TypeInv, NEW p \in Importers, run[p].step \in {"incidents", "incident"}, run[p].todo # {},
         NEW row \in Objects, Opens(p, row), al' = al, Made' = Made
  PROVE  /\ run' \in [Importers -> Locals] /\ \A q \in Importers : LocalOf(run'[q], al', Made')
         /\ scan' \in [Cads -> [of : SUBSET al', ended : BOOLEAN, crossed : BOOLEAN]]
<1> DEFINE c == Incident(p)
           lines == {e \in al : Cad[e] = c}
           inside == {q \in Importers \ {p} : run[q].step \in {"entry", "measures"} /\ Incident(q) = c}
           first == FirstEntry(p, c)
           opened == [run[p] EXCEPT !.step = "entry", !.lines = lines, !.o = Set(row, "start_time", first)]
           passed == [run[p] EXCEPT !.step = "incidents", !.todo = @ \ {c}]
<1>1. c \in Cads /\ first \in Entries /\ LocalOf(run[p], al, Made)
  BY IncidentIsThere DEF TypeInv, LocalOf, Locals
<1>2. Set(row, "start_time", first) \in Objects
  BY <1>1, SetTyped DEF Columns
<1>3. scan \in [Cads -> [of : SUBSET al, ended : BOOLEAN, crossed : BOOLEAN]] /\ lines \in SUBSET al
  BY DEF TypeInv, TableTypes
<1>4. CASE c \in Wanted
  <2>1. /\ Goes(p, opened)
        /\ scan' = [scan EXCEPT ![c] = [of |-> lines, ended |-> FALSE, crossed |-> inside # {}]]
    BY <1>4 DEF Opens
  <2>2. LocalOf(opened, al', Made')
    <3> HIDE DEF first, c, lines
    <3>1. lines \subseteq Entries
      BY <1>3 DEF TypeInv, TableTypes
    <3> QED BY <1>1, <1>2, <1>3, <3>1 DEF LocalOf, Locals, Steps
  <2>3. run' \in [Importers -> Locals] /\ \A q \in Importers : LocalOf(run'[q], al', Made')
    BY <2>1, <2>2, GoesTyped
  <2>4. scan' \in [Cads -> [of : SUBSET al', ended : BOOLEAN, crossed : BOOLEAN]]
    <3> HIDE DEF c, lines, inside
    <3>1. (inside # {}) \in BOOLEAN
      OBVIOUS
    <3> QED BY <1>1, <1>3, <2>1, <3>1
  <2> QED BY <2>3, <2>4
<1>5. CASE c \notin Wanted
  <2>1. Goes(p, passed) /\ scan' = scan
    BY <1>5 DEF Opens
  <2>2. LocalOf(passed, al', Made')
    <3> HIDE DEF c
    <3> QED BY <1>1 DEF LocalOf, Locals, Steps
  <2> QED BY <1>3, <2>1, <2>2, GoesTyped
<1> QED BY <1>4, <1>5

(* One step of the program keeps the types. *)
LEMMA OffTyped == \A known, made : LocalOf(Off, known, made)
BY DEF LocalOf, Locals, Off, Steps

(* A step that only changes the process itself keeps the types if what the  *)
(* process goes to is well typed.                                           *)
LEMMA LocalStep ==
  ASSUME TypeInv, NEW p \in Importers, NEW r, Goes(p, r), LocalOf(r, al, Made),
         UNCHANGED <<log, al, icad, inc, measures, starts, scan>>, broken' \in SUBSET Records
  PROVE  TypeInv'
<1>1. run' \in [Importers -> Locals] /\ \A q \in Importers : LocalOf(run'[q], al', Made')
  <2>1. Made' = Made /\ al' = al
    BY DEF Made
  <2> QED BY <2>1, GoesTyped
<1> QED BY <1>1 DEF TypeInv, TableTypes

(* Nobody has started yet: the tables are empty. *)
LEMMA TypeInit == Init => TypeInv
<1> SUFFICES ASSUME Init PROVE TypeInv
  OBVIOUS
<1>1. TableTypes
  <2>1. [of |-> {}, ended |-> FALSE, crossed |-> FALSE] \in [of : SUBSET al, ended : BOOLEAN, crossed : BOOLEAN]
    OBVIOUS
  <2> QED BY <2>1 DEF Init, TableTypes
<1>2. run \in [Importers -> Locals] /\ \A p \in Importers : LocalOf(run[p], al, Made)
  BY OffTyped DEF Init, LocalOf
<1> QED BY <1>1, <1>2 DEF Init, TypeInv

(* Starting and copying records. *)
LEMMA LoadTyped ==
  ASSUME TypeInv, NEW p \in Importers, NEW es \in SUBSET Entries, NEW rs \in SUBSET Records,
         Load(p, es, rs)
  PROVE  TypeInv'
<1>1. LocalOf([Off EXCEPT !.step = "icad", !.todo = rs], al', Made')
  BY DEF Off, LocalOf, Locals, Steps
<1>2. run' \in [Importers -> Locals] /\ \A q \in Importers : LocalOf(run'[q], al', Made')
  BY <1>1, GoesTyped DEF Load, Made
<1>3. starts' \in 0..MaxStarts /\ al' \in SUBSET Entries /\ al \subseteq al'
  BY DEF Load, TypeInv, TableTypes
<1>4. scan' \in [Cads -> [of : SUBSET al', ended : BOOLEAN, crossed : BOOLEAN]]
  <2>1. scan \in [Cads -> [of : SUBSET al, ended : BOOLEAN, crossed : BOOLEAN]] /\ scan' = scan
    BY DEF Load, TypeInv, TableTypes
  <2>2. [of : SUBSET al, ended : BOOLEAN, crossed : BOOLEAN]
          \subseteq [of : SUBSET al', ended : BOOLEAN, crossed : BOOLEAN]
    BY <1>3
  <2> QED BY <2>1, <2>2
<1> QED BY <1>2, <1>3, <1>4 DEF Load, TypeInv, TableTypes

(* A record is looked up. *)
LEMMA FindRecordTyped ==
  ASSUME TypeInv, NEW p \in Importers, FindRecord(p)
  PROVE  TypeInv'
<1> DEFINE skip == [run[p] EXCEPT !.todo = @ \ {Record(p)}]
           miss == [run[p] EXCEPT !.step = "record"]
<1>1. LocalOf(run[p], al, Made) /\ run[p].step = "icad" /\ run[p].todo # {}
  BY DEF TypeInv, FindRecord, At
<1>2. LocalOf(skip, al, Made) /\ LocalOf(miss, al, Made)
  BY <1>1 DEF LocalOf, Locals, Steps
<1>3. broken \in SUBSET Records
  BY DEF TypeInv, TableTypes
<1>4. Goes(p, IF KnownRecord(Record(p)) THEN skip ELSE miss)
  BY DEF FindRecord
<1> QED BY <1>2, <1>3, <1>4, LocalStep DEF FindRecord

(* A record is created, or the program croaks. *)
LEMMA CreateRecordTyped ==
  ASSUME TypeInv, NEW p \in Importers, CreateRecord(p)
  PROVE  TypeInv'
<1> DEFINE r == Record(p)
           done == [run[p] EXCEPT !.step = "details", !.n = 1]
<1>1. LocalOf(run[p], al, Made) /\ run[p].step = "record" /\ broken \in SUBSET Records
  BY DEF TypeInv, CreateRecord, At, TableTypes
<1>2. CASE icad[r] = None
  <2>1. icad' = [icad EXCEPT ![r] = <<>>] /\ Goes(p, done)
    BY <1>2 DEF CreateRecord
  <2>6. icad \in [Records -> Seq(Nat) \cup {None}] /\ <<>> # None
    <3>1. <<>> \in Seq(Nat)
      OBVIOUS
    <3> QED BY <3>1 DEF TypeInv, TableTypes
  <2>7. Made \subseteq Made'
    <3> HIDE DEF r
    <3> QED BY <2>1, <2>6 DEF Made
  <2>2. LocalOf(done, al', Made')
    <3>1. al' = al
      BY DEF CreateRecord
    <3>2. run[p].todo \subseteq Records /\ run[p].todo # {} /\ r \in Records
      BY <1>1, RecordIsThere DEF LocalOf
    <3>3. Min(run[p].todo) \in Made'
      BY <2>1, <3>2, <2>6 DEF Made, Record
    <3>4. /\ done \in Locals /\ done.step = "details" /\ done.n = 1 /\ done.todo = run[p].todo
          /\ done.seen = run[p].seen /\ done.lines = run[p].lines
      BY <1>1 DEF LocalOf, Locals, Steps
    <3> HIDE DEF r, done
    <3> QED BY <1>1, <3>1, <3>2, <3>3, <3>4 DEF LocalOf
  <2>3. run' \in [Importers -> Locals] /\ \A q \in Importers : LocalOf(run'[q], al', Made')
    BY <2>1, <2>2, <2>7, GoesTyped DEF CreateRecord
  <2>4. /\ icad' \in [Records -> Seq(Nat) \cup {None}]
        /\ \A t \in Records : icad'[t] # None => icad'[t] \in Seq(DOMAIN Clock[t])
    <3> HIDE DEF r
    <3>1. icad \in [Records -> Seq(Nat) \cup {None}] /\ <<>> \in Seq(Nat)
      BY DEF TypeInv, TableTypes
    <3>2. icad' \in [Records -> Seq(Nat) \cup {None}]
      BY <2>1, <3>1
    <3>3. ASSUME NEW t \in Records, icad'[t] # None PROVE icad'[t] \in Seq(DOMAIN Clock[t])
      <4>1. <<>> \in Seq(DOMAIN Clock[t])
        OBVIOUS
      <4>2. icad'[t] = IF t = r THEN <<>> ELSE icad[t]
        BY <2>1, <3>1
      <4> QED BY <3>3, <4>1, <4>2 DEF TypeInv
    <3> QED BY <3>2, <3>3
  <2>5. TableTypes'
    BY <2>4 DEF CreateRecord, TypeInv, TableTypes
  <2> QED BY <2>3, <2>4, <2>5 DEF TypeInv
<1>3. CASE icad[r] # None
  BY <1>1, <1>3, OffTyped, LocalStep DEF CreateRecord
<1> QED BY <1>2, <1>3

(* The next detail or measure. *)
LEMMA NextTyped ==
  ASSUME NEW r \in Locals
  PROVE  LET next == [r EXCEPT !.n = @ + 1]
         IN  /\ next \in Locals /\ next.n = r.n + 1 /\ next.step = r.step /\ next.todo = r.todo
             /\ next.seen = r.seen /\ next.lines = r.lines /\ next.o = r.o
<1>1. ASSUME NEW m \in Nat PROVE [r EXCEPT !.n = m] \in Locals
  BY DEF Locals
<1>2. r.n + 1 \in Nat
  BY DEF Locals
<1>3. [r EXCEPT !.n = @ + 1] \in Locals
  BY <1>1, <1>2
<1> QED BY <1>3 DEF Locals

(* A detail is stored: the order of a record consists of its details. *)
LEMMA AddDetailTyped ==
  ASSUME TypeInv, NEW p \in Importers, AddDetail(p)
  PROVE  TypeInv'
<1> DEFINE r == Record(p)
           d == Ordered(r)[run[p].n]
           next == [run[p] EXCEPT !.n = @ + 1]
<1>1. LocalOf(run[p], al, Made) /\ run[p].step = "details"
  BY DEF TypeInv, AddDetail, At
<1>2. run[p].n \in Nat /\ run[p].n > 0 /\ run[p].todo # {}
  BY <1>1 DEF LocalOf, Locals
<1>3. r \in Records
  BY <1>1, <1>2, RecordIsThere
<1>4. run[p].n \in DOMAIN Clock[r]
  BY <1>2, <1>3 DEF AddDetail
<1>5. d \in DOMAIN Clock[r] /\ DOMAIN Clock[r] \subseteq Nat
  <2>1. d \in DOMAIN Clock[r]
    BY <1>3, <1>4, SortAssumption
  <2>2. Clock[r] \in Seq(0..(Day - 1))
    BY <1>3
  <2> QED BY <2>1, <2>2
<1>6. icad' = [icad EXCEPT ![r] = Append(@, d)] /\ Goes(p, next)
  BY DEF AddDetail
<1>9. icad \in [Records -> Seq(Nat) \cup {None}] /\ icad[r] # None /\ icad[r] \in Seq(DOMAIN Clock[r])
  <2>1. r \in Made
    BY <1>1 DEF LocalOf, Record
  <2> QED BY <1>3, <2>1 DEF TypeInv, TableTypes, Made
<1>10. Append(icad[r], d) \in Seq(DOMAIN Clock[r]) /\ Append(icad[r], d) \in Seq(Nat)
  <2> HIDE DEF d, r
  <2>1. \A D, s, x : D \subseteq Nat /\ s \in Seq(D) /\ x \in D => Append(s, x) \in Seq(D) /\ Append(s, x) \in Seq(Nat)
    <3> TAKE D, s, x
    <3> HAVE D \subseteq Nat /\ s \in Seq(D) /\ x \in D
    <3>1. s \in Seq(Nat)
      <4>1. Len(s) \in Nat /\ s \in [1..Len(s) -> D]
        OBVIOUS
      <4>2. s \in [1..Len(s) -> Nat]
        BY <4>1
      <4> QED BY <4>1, <4>2
    <3> QED BY <3>1
  <2> QED BY <1>5, <1>9, <2>1
<1>11. /\ icad' \in [Records -> Seq(Nat) \cup {None}]
       /\ \A t \in Records : icad'[t] # None => icad'[t] \in Seq(DOMAIN Clock[t])
  <2> HIDE DEF d, r
  <2>1. icad' \in [Records -> Seq(Nat) \cup {None}]
    BY <1>6, <1>9, <1>10
  <2>2. ASSUME NEW t \in Records, icad'[t] # None PROVE icad'[t] \in Seq(DOMAIN Clock[t])
    <3>1. icad'[t] = IF t = r THEN Append(icad[r], d) ELSE icad[t]
      BY <1>6, <1>9
    <3> QED BY <2>2, <3>1, <1>10 DEF TypeInv
  <2> QED BY <2>1, <2>2
<1>12. Made \subseteq Made' /\ al' = al
  <2>1. Append(icad[r], d) # None
    <3> HIDE DEF d, r
    <3> QED BY <1>10
  <2> HIDE DEF d, r
  <2> QED BY <1>6, <1>9, <2>1 DEF Made, AddDetail
<1>13. LocalOf(next, al', Made')
  <2>1. /\ next \in Locals /\ next.step = "details" /\ next.n > 0 /\ next.todo = run[p].todo
        /\ next.seen = run[p].seen /\ next.lines = run[p].lines
    <3>1. run[p] \in Locals
      BY <1>1 DEF LocalOf
    <3> QED BY <1>1, <1>2, <3>1, NextTyped
  <2> HIDE DEF next
  <2> QED BY <1>1, <1>12, <2>1 DEF LocalOf
<1>14. run' \in [Importers -> Locals] /\ \A q \in Importers : LocalOf(run'[q], al', Made')
  <2> HIDE DEF next
  <2> QED BY <1>6, <1>12, <1>13, GoesTyped
<1>15. TableTypes'
  BY <1>11 DEF AddDetail, TypeInv, TableTypes
<1> QED BY <1>11, <1>14, <1>15 DEF TypeInv, AddDetail

(* A record is done. *)
LEMMA EndRecordTyped ==
  ASSUME TypeInv, NEW p \in Importers, EndRecord(p)
  PROVE  TypeInv'
<1> DEFINE next == [run[p] EXCEPT !.step = "icad", !.todo = @ \ {Record(p)}]
<1>1. LocalOf(run[p], al, Made) /\ run[p].step = "details" /\ broken \in SUBSET Records
  BY DEF TypeInv, EndRecord, At, TableTypes
<1>2. LocalOf(next, al, Made)
  BY <1>1 DEF LocalOf, Locals, Steps
<1>3. Goes(p, next)
  BY DEF EndRecord
<1> QED BY <1>1, <1>2, <1>3, LocalStep DEF EndRecord

(* Incidents. *)
LEMMA QueryIncidentsTyped ==
  ASSUME TypeInv, NEW p \in Importers, NEW from \in Entries, NEW cs \in SUBSET Cads,
         QueryIncidents(p, from, cs)
  PROVE  TypeInv'
<1> DEFINE es == {e \in al : e >= from /\ Cad[e] \in cs}
           next == [Off EXCEPT !.step = "incidents", !.todo = {Cad[e] : e \in es}, !.seen = es]
<1>1. broken \in SUBSET Records /\ al \in SUBSET Entries
  BY DEF TypeInv, TableTypes
<1>2. es \subseteq al /\ {Cad[e] : e \in es} \in SUBSET Cads
  BY <1>1 DEF Cads
<1>3. Goes(p, next)
  BY DEF QueryIncidents
<1>4. LocalOf(next, al, Made)
  <2> HIDE DEF es
  <2> QED BY <1>1, <1>2 DEF LocalOf, Locals, Steps, Off
<1> QED BY <1>1, <1>3, <1>4, LocalStep DEF QueryIncidents

(* An incident is looked up. *)
LEMMA FindIncidentTyped ==
  ASSUME TypeInv, NEW p \in Importers, FindIncident(p)
  PROVE  TypeInv'
<1> DEFINE c == Incident(p)
           miss == [run[p] EXCEPT !.step = "incident"]
<1>1. LocalOf(run[p], al, Made) /\ run[p].step = "incidents" /\ run[p].todo # {} /\ broken \in SUBSET Records
  BY DEF TypeInv, FindIncident, At, TableTypes
<1>2. CASE inc[c] = None
  <2>1. LocalOf(miss, al, Made)
    BY <1>1 DEF LocalOf, Locals, Steps
  <2>2. Goes(p, miss) /\ scan' = scan
    BY <1>2 DEF FindIncident
  <2> QED BY <1>1, <2>1, <2>2, LocalStep DEF FindIncident
<1>3. CASE inc[c] # None
  <2>1. Opens(p, Cleared(inc[c])) /\ al' = al
    BY <1>3 DEF FindIncident
  <2>2. c \in Cads
    BY <1>1, IncidentIsThere
  <2>3. Cleared(inc[c]) \in Objects
    BY <1>3, <2>2, ClearedTyped DEF TypeInv, TableTypes
  <2>4. Made' = Made
    BY DEF Made, FindIncident
  <2>5. /\ run' \in [Importers -> Locals] /\ \A q \in Importers : LocalOf(run'[q], al', Made')
        /\ scan' \in [Cads -> [of : SUBSET al', ended : BOOLEAN, crossed : BOOLEAN]]
    BY <1>1, <2>1, <2>3, <2>4, OpensTyped
  <2> QED BY <2>5 DEF FindIncident, TypeInv, TableTypes
<1> QED BY <1>2, <1>3

(* An incident is created, or the loop ends. *)
LEMMA CreateIncidentTyped ==
  ASSUME TypeInv, NEW p \in Importers, CreateIncident(p)
  PROVE  TypeInv'
<1> DEFINE c == Incident(p)
<1>1. LocalOf(run[p], al, Made) /\ run[p].step = "incident" /\ broken \in SUBSET Records
  BY DEF TypeInv, CreateIncident, At, TableTypes
<1>2. run[p].todo # {}
  BY <1>1 DEF LocalOf
<1>3. CASE inc[c] = None
  <2>1. NewRow \in Rows
    BY DEF NewRow, Rows
  <2>2. inc' = [inc EXCEPT ![c] = NewRow] /\ Opens(p, Cleared(NewRow)) /\ al' = al
    BY <1>3 DEF CreateIncident
  <2>3. Made' = Made
    BY DEF Made, CreateIncident
  <2>4. /\ run' \in [Importers -> Locals] /\ \A q \in Importers : LocalOf(run'[q], al', Made')
        /\ scan' \in [Cads -> [of : SUBSET al', ended : BOOLEAN, crossed : BOOLEAN]]
    BY <1>1, <1>2, <2>1, <2>2, <2>3, ClearedTyped, OpensTyped
  <2>5. inc' \in [Cads -> Rows \cup {None}]
    <3> HIDE DEF c
    <3> QED BY <2>1, <2>2 DEF TypeInv, TableTypes
  <2> QED BY <2>4, <2>5 DEF CreateIncident, TypeInv, TableTypes
<1>4. CASE inc[c] # None
  <2>1. Goes(p, Off) /\ UNCHANGED <<inc, scan>>
    BY <1>4 DEF CreateIncident
  <2> QED BY <1>1, <2>1, OffTyped, LocalStep DEF CreateIncident
<1> QED BY <1>3, <1>4

(* A step on the entry at hand keeps the types if what the process goes to  *)
(* and the measures of the entry are well typed.                            *)
LEMMA EntryStep ==
  ASSUME TypeInv, NEW p \in Importers, NEW r, Goes(p, r), LocalOf(r, al, Made),
         NEW e \in Entries, NEW ms \in Seq(STRING), measures' = [measures EXCEPT ![e] = ms],
         UNCHANGED <<log, al, icad, inc, starts, broken, scan>>
  PROVE  TypeInv'
<1>1. Made' = Made
  BY DEF Made
<1>2. run' \in [Importers -> Locals] /\ \A q \in Importers : LocalOf(run'[q], al', Made')
  BY <1>1, GoesTyped
<1>3. measures' \in [Entries -> Seq(STRING)]
  BY DEF TypeInv, TableTypes
<1> QED BY <1>2, <1>3 DEF TypeInv, TableTypes

(* What a process has after the subject of an entry. *)
LEMMA EntryTaken ==
  ASSUME NEW r, LocalOf(r, al, Made), r.step = "entry", r.lines # {}, NEW x \in Objects
  PROVE  LocalOf([r EXCEPT !.step = "measures", !.n = 1, !.o = x], al, Made)
<1> DEFINE taken == [r EXCEPT !.step = "measures", !.n = 1, !.o = x]
<1>1. r \in Locals
  BY DEF LocalOf
<1>2. /\ taken \in Locals /\ taken.step = "measures" /\ taken.n = 1 /\ taken.o = x
      /\ taken.todo = r.todo /\ taken.seen = r.seen /\ taken.lines = r.lines
  <2>1. taken \in Locals
    BY <1>1 DEF Locals, Steps
  <2> QED BY <1>1, <2>1 DEF Locals
<1> HIDE DEF taken
<1>3. taken.todo \subseteq {Cad[e] : e \in taken.seen}
  <2>1. r.todo \subseteq {Cad[e] : e \in r.seen}
    BY DEF LocalOf
  <2> QED BY <1>2, <2>1, Zenon
<1>4. LocalOf(taken, al, Made)
  BY <1>2, <1>3 DEF LocalOf
<1> QED BY <1>4 DEF taken

(* What a process has after a measure of an entry. *)
LEMMA MeasureTaken ==
  ASSUME NEW r, LocalOf(r, al, Made), r.step = "measures", NEW i \in Nat, i > 0, NEW x \in Objects
  PROVE  LocalOf([r EXCEPT !.n = i, !.o = x], al, Made)
<1> DEFINE taken == [r EXCEPT !.n = i, !.o = x]
<1>1. r \in Locals
  BY DEF LocalOf
<1>2. /\ taken \in Locals /\ taken.step = "measures" /\ taken.n = i /\ taken.o = x
      /\ taken.todo = r.todo /\ taken.seen = r.seen /\ taken.lines = r.lines
  <2>1. taken \in Locals
    BY <1>1 DEF Locals, Steps
  <2> QED BY <1>1, <2>1 DEF Locals
<1> HIDE DEF taken
<1>3. taken.todo \subseteq {Cad[e] : e \in taken.seen}
  <2>1. r.todo \subseteq {Cad[e] : e \in r.seen}
    BY DEF LocalOf
  <2> QED BY <1>2, <2>1, Zenon
<1>4. LocalOf(taken, al, Made)
  BY <1>2, <1>3 DEF LocalOf
<1> QED BY <1>4 DEF taken

(* The next entry. *)
LEMMA TakeEntryTyped ==
  ASSUME TypeInv, NEW p \in Importers, TakeEntry(p)
  PROVE  TypeInv'
<1> DEFINE e == Min(run[p].lines)
           next == [run[p] EXCEPT !.step = "measures", !.n = 1, !.o = WithSubject(@, e)]
<1>1. LocalOf(run[p], al, Made) /\ run[p].step = "entry" /\ run[p].lines # {}
  BY DEF TypeInv, TakeEntry, At
<1>2. e \in Entries /\ run[p].o \in Objects
  BY <1>1, LineIsThere DEF LocalOf
<1>3. WithSubject(run[p].o, e) \in Objects
  BY <1>2, SubjectTyped
<1>4. LocalOf(next, al, Made)
  <2> HIDE DEF e
  <2> QED BY <1>1, <1>3, EntryTaken
<1>5. Goes(p, next) /\ measures' = [measures EXCEPT ![e] = <<>>]
  BY DEF TakeEntry
<1>6. <<>> \in Seq(STRING)
  OBVIOUS
<1> HIDE DEF e, next
<1> QED BY <1>2, <1>4, <1>5, <1>6, EntryStep DEF TakeEntry

(* The next measure of the entry. *)
LEMMA TakeMeasureTyped ==
  ASSUME TypeInv, NEW p \in Importers, TakeMeasure(p)
  PROVE  TypeInv'
<1> DEFINE e == Min(run[p].lines)
           m == log[e].details[run[p].n]
           next == [run[p] EXCEPT !.n = @ + 1, !.o = WithMeasure(@, e, m)]
           ms == IF IsStored(m) THEN Append(measures[e], m) ELSE measures[e]
<1>1. LocalOf(run[p], al, Made) /\ run[p].step = "measures" /\ run[p].n <= Len(log[e].details)
  BY DEF TypeInv, TakeMeasure, At
<1>2. e \in Entries /\ run[p].o \in Objects /\ run[p].n \in Nat /\ run[p].n > 0 /\ run[p] \in Locals
  BY <1>1, LineIsThere DEF LocalOf, Locals
<1>3. m \in STRING
  <2>1. log[e].details \in Seq(STRING)
    BY <1>2 DEF TypeInv, TableTypes
  <2> QED BY <1>1, <1>2, <2>1
<1>4. ms \in Seq(STRING)
  <2>1. measures[e] \in Seq(STRING)
    BY <1>2 DEF TypeInv, TableTypes
  <2>2. \A S, t, x : t \in Seq(S) /\ x \in S => Append(t, x) \in Seq(S)
    OBVIOUS
  <2>3. Append(measures[e], m) \in Seq(STRING)
    BY <1>3, <2>1, <2>2, Zenon
  <2> QED BY <2>1, <2>3, Zenon
<1>5. LocalOf(next, al, Made)
  <2>1. WithMeasure(run[p].o, e, m) \in Objects
    BY <1>2, MeasureTyped
  <2>3. run[p].n + 1 \in Nat /\ run[p].n + 1 > 0
    BY <1>2
  <2> HIDE DEF e, m
  <2> QED BY <1>1, <2>1, <2>3, MeasureTaken
<1>6. Goes(p, next) /\ measures' = [measures EXCEPT ![e] = ms]
  BY DEF TakeMeasure
<1> HIDE DEF e, next, ms
<1> QED BY <1>2, <1>4, <1>5, <1>6, EntryStep DEF TakeMeasure

(* The memo of the entry. *)
LEMMA TakeMemoTyped ==
  ASSUME TypeInv, NEW p \in Importers, TakeMemo(p)
  PROVE  TypeInv'
<1> DEFINE e == Min(run[p].lines)
           next == [run[p] EXCEPT !.step = "entry", !.lines = @ \ {e}, !.o = WithMemo(@, e)]
<1>1. LocalOf(run[p], al, Made) /\ run[p].step = "measures" /\ broken \in SUBSET Records
  BY DEF TypeInv, TakeMemo, At, TableTypes
<1>2. e \in Entries /\ run[p].o \in Objects
  BY <1>1, LineIsThere DEF LocalOf
<1>3. WithMemo(run[p].o, e) \in Objects
  BY <1>2, MemoTyped
<1>4. LocalOf(next, al, Made)
  <2> HIDE DEF e
  <2> QED BY <1>1, <1>3 DEF LocalOf, Locals, Steps
<1>5. Goes(p, next)
  BY DEF TakeMemo
<1> HIDE DEF e, next
<1> QED BY <1>1, <1>4, <1>5, LocalStep DEF TakeMemo

(* The row is updated; it exists. *)
LEMMA UpdateIncidentTyped ==
  ASSUME TypeInv, RowInv, NEW p \in Importers, UpdateIncident(p)
  PROVE  TypeInv'
<1> DEFINE c == Incident(p)
           next == [run[p] EXCEPT !.step = "incidents", !.todo = @ \ {c}, !.o = None]
           row == StoredRow(inc[c], WithFallbacks(run[p].o))
<1>1. LocalOf(run[p], al, Made) /\ run[p].step = "entry" /\ broken \in SUBSET Records
  BY DEF TypeInv, UpdateIncident, At, TableTypes
<1>2. run[p].todo # {} /\ run[p].o \in Objects
  BY <1>1 DEF LocalOf
<1>3. c \in Cads
  BY <1>1, <1>2, IncidentIsThere
<1>4. LocalOf(next, al, Made)
  <2> HIDE DEF c
  <2> QED BY <1>1 DEF LocalOf, Locals, Steps
<1>5. /\ Goes(p, next) /\ inc' = [inc EXCEPT ![c] = row] /\ al' = al
      /\ scan' = [scan EXCEPT ![c].ended = TRUE]
  BY DEF UpdateIncident
<1>6. run' \in [Importers -> Locals] /\ \A q \in Importers : LocalOf(run'[q], al', Made')
  <2>1. Made' = Made
    BY DEF Made, UpdateIncident
  <2> HIDE DEF next
  <2> QED BY <1>4, <1>5, <2>1, GoesTyped
<1>7. row \in Rows
  <2>1. WithFallbacks(run[p].o) \in Objects
    BY <1>2, FallbacksTyped
  <2>2. c = IncidentIn(run[p].todo, run[p].seen)
    BY DEF Incident, FirstEntry, IncidentIn
  <2>3. inc[c] \in Rows
    <3> HIDE DEF c
    <3> QED BY <1>1, <1>3, <2>2 DEF RowInv, TypeInv, TableTypes
  <2> HIDE DEF c
  <2> QED BY <2>1, <2>3, StoredTyped
<1>8. inc' \in [Cads -> Rows \cup {None}]
  <2> HIDE DEF c, row
  <2> QED BY <1>3, <1>5, <1>7 DEF TypeInv, TableTypes
<1>9. scan' \in [Cads -> [of : SUBSET al', ended : BOOLEAN, crossed : BOOLEAN]]
  <2> HIDE DEF c
  <2> QED BY <1>3, <1>5 DEF TypeInv, TableTypes
<1> QED BY <1>6, <1>8, <1>9 DEF UpdateIncident, TypeInv, TableTypes

(* A run ends, well or not. *)
LEMMA EndsTyped ==
  ASSUME TypeInv, NEW p \in Importers, EndRun(p) \/ Breaks(p)
  PROVE  TypeInv'
<1>1. broken \in SUBSET Records /\ LocalOf(run[p], al, Made)
  BY DEF TypeInv, TableTypes
<1>2. CASE EndRun(p)
  BY <1>1, <1>2, OffTyped, LocalStep DEF EndRun
<1>3. CASE Breaks(p)
  <2>1. At(p, "details") => Record(p) \in Records
    BY <1>1, RecordIsThere DEF At, LocalOf
  <2>2. broken' \in SUBSET Records
    BY <1>1, <1>3, <2>1 DEF Breaks
  <2> QED BY <1>3, <2>2, OffTyped, LocalStep DEF Breaks
<1> QED BY <1>2, <1>3

(* Rows are never deleted, so the row of the incident at hand stays.        *)
LEMMA RowStepOf ==
  ASSUME TypeInv, RowInv, NEW p \in Importers, NEW r, Goes(p, r),
         \A c \in Cads : inc[c] # None => inc'[c] # None,
         r.step \in {"entry", "measures"} =>
           LET c == IncidentIn(r.todo, r.seen) IN c \in Cads /\ inc'[c] # None
  PROVE  RowInv'
<1>1. ASSUME NEW q \in Importers, run'[q].step \in {"entry", "measures"}
      PROVE  LET c == IncidentIn(run'[q].todo, run'[q].seen) IN c \in Cads /\ inc'[c] # None
  <2>1. run'[q] = IF q = p THEN r ELSE run[q]
    BY DEF Goes, TypeInv
  <2> QED BY <1>1, <2>1 DEF RowInv
<1> QED BY <1>1 DEF RowInv, IncidentIn

(* The incident at hand is taken in: the row is there by then.              *)
LEMMA OpensRow ==
  ASSUME TypeInv, RowInv, NEW p \in Importers, run[p].step \in {"incidents", "incident"}, run[p].todo # {},
         NEW row, Opens(p, row), inc'[Incident(p)] # None,
         \A c \in Cads : inc[c] # None => inc'[c] # None
  PROVE  RowInv'
<1> DEFINE c == Incident(p)
           lines == {e \in al : Cad[e] = c}
           opened == [run[p] EXCEPT !.step = "entry", !.lines = lines,
                                    !.o = Set(row, "start_time", FirstEntry(p, c))]
           passed == [run[p] EXCEPT !.step = "incidents", !.todo = @ \ {c}]
<1>1. c \in Cads /\ c = IncidentIn(run[p].todo, run[p].seen)
  BY IncidentIsThere DEF Incident, FirstEntry, IncidentIn
<1>2. run[p] \in Locals
  BY DEF TypeInv
<1>3. Goes(p, opened) \/ Goes(p, passed)
  BY DEF Opens
<1>4. opened.todo = run[p].todo /\ opened.seen = run[p].seen /\ passed.step = "incidents"
  BY <1>2 DEF Locals
<1> HIDE DEF c, opened, passed
<1>5. CASE Goes(p, opened)
  <2>1. inc'[c] # None
    BY DEF c
  <2> QED BY <1>1, <1>4, <1>5, <2>1, RowStepOf
<1>6. CASE Goes(p, passed)
  BY <1>4, <1>6, RowStepOf
<1> QED BY <1>3, <1>5, <1>6

(* A new row is a row, and no row is not one. *)
LEMMA NewRowIsThere == NewRow \in Rows /\ None \notin Rows
BY RowAssumption DEF NewRow, Rows

(* An incident that is found has a row. *)
LEMMA FindIncidentRow ==
  ASSUME TypeInv, RowInv, NEW p \in Importers, FindIncident(p)
  PROVE  RowInv'
<1>1. run[p].step = "incidents" /\ run[p].todo # {} /\ inc' = inc
  BY DEF FindIncident, At
<1>2. CASE inc[Incident(p)] = None
  <2>1. [run[p] EXCEPT !.step = "incident"].step = "incident"
    BY DEF TypeInv, Locals
  <2> QED BY <1>1, <1>2, <2>1, RowStepOf DEF FindIncident
<1>3. CASE inc[Incident(p)] # None
  BY <1>1, <1>3, OpensRow DEF FindIncident
<1> QED BY <1>2, <1>3

(* An incident that is created has a row. *)
LEMMA CreateIncidentRow ==
  ASSUME TypeInv, RowInv, NEW p \in Importers, CreateIncident(p)
  PROVE  RowInv'
<1>1. run[p].step = "incident" /\ run[p].todo # {}
  BY DEF CreateIncident, At, TypeInv, LocalOf
<1>2. CASE inc[Incident(p)] = None
  <2>1. Incident(p) \in Cads
    BY <1>1, IncidentIsThere
  <2>2. inc' = [inc EXCEPT ![Incident(p)] = NewRow] /\ Opens(p, Cleared(NewRow))
    BY <1>2 DEF CreateIncident
  <2>3. inc'[Incident(p)] # None /\ \A c \in Cads : inc[c] # None => inc'[c] # None
    BY <2>1, <2>2, NewRowIsThere DEF TypeInv, TableTypes
  <2> QED BY <1>1, <2>2, <2>3, OpensRow
<1>3. CASE inc[Incident(p)] # None
  <2>1. Off.step = "off"
    BY DEF Off
  <2> QED BY <1>3, <2>1, RowStepOf DEF CreateIncident
<1> QED BY <1>2, <1>3

(* A step of a process that stays with its incident and only reads rows.    *)
LEMMA StaysWithRow ==
  ASSUME TypeInv, RowInv, NEW p \in Importers, NEW r, Goes(p, r), inc' = inc,
         \/ r.step \notin {"entry", "measures"}
         \/ run[p].step \in {"entry", "measures"} /\ r.todo = run[p].todo /\ r.seen = run[p].seen
  PROVE  RowInv'
BY RowStepOf DEF RowInv

(* An update puts a row in place of a row. *)
LEMMA UpdateIncidentRow ==
  ASSUME TypeInv, RowInv, NEW p \in Importers, UpdateIncident(p), TypeInv'
  PROVE  RowInv'
<1> DEFINE next == [run[p] EXCEPT !.step = "incidents", !.todo = @ \ {Incident(p)}, !.o = None]
<1>1. next.step = "incidents" /\ Goes(p, next)
  BY DEF TypeInv, Locals, UpdateIncident
<1>2. run[p].step = "entry" /\ LocalOf(run[p], al, Made)
  BY DEF UpdateIncident, At, TypeInv
<1>3. run[p].todo # {} /\ run[p].o \in Objects
  BY <1>2 DEF LocalOf
<1>4. Incident(p) \in Cads /\ Incident(p) = IncidentIn(run[p].todo, run[p].seen)
  BY <1>2, <1>3, IncidentIsThere DEF Incident, FirstEntry, IncidentIn
<1>5. inc[Incident(p)] \in Rows
  BY <1>2, <1>4 DEF RowInv, TypeInv, TableTypes
<1>6. StoredRow(inc[Incident(p)], WithFallbacks(run[p].o)) \in Rows
  BY <1>3, <1>5, FallbacksTyped, StoredTyped
<1>7. \A c \in Cads : inc[c] # None => inc'[c] # None
  BY <1>4, <1>6, NewRowIsThere DEF UpdateIncident, TypeInv, TableTypes
<1> HIDE DEF next
<1> QED BY <1>1, <1>7, RowStepOf

(* Every step of a run keeps the types. *)
LEMMA TypeStep == TypeInv /\ RowInv /\ [Next]_vars => TypeInv'
<1> SUFFICES ASSUME TypeInv, RowInv, [Next]_vars PROVE TypeInv'
  OBVIOUS
<1>1. ASSUME NEW p \in Importers, NEW es \in SUBSET Entries, NEW rs \in SUBSET Records, Load(p, es, rs)
      PROVE TypeInv'
  BY <1>1, LoadTyped
<1>2. ASSUME NEW p \in Importers, FindRecord(p) PROVE TypeInv'
  BY <1>2, FindRecordTyped
<1>3. ASSUME NEW p \in Importers, CreateRecord(p) PROVE TypeInv'
  BY <1>3, CreateRecordTyped
<1>4. ASSUME NEW p \in Importers, AddDetail(p) PROVE TypeInv'
  BY <1>4, AddDetailTyped
<1>5. ASSUME NEW p \in Importers, EndRecord(p) PROVE TypeInv'
  BY <1>5, EndRecordTyped
<1>6. ASSUME NEW p \in Importers, NEW from \in Entries, NEW cs \in SUBSET Cads, QueryIncidents(p, from, cs)
      PROVE TypeInv'
  BY <1>6, QueryIncidentsTyped
<1>7. ASSUME NEW p \in Importers, FindIncident(p) PROVE TypeInv'
  BY <1>7, FindIncidentTyped
<1>8. ASSUME NEW p \in Importers, CreateIncident(p) PROVE TypeInv'
  BY <1>8, CreateIncidentTyped
<1>9. ASSUME NEW p \in Importers, TakeEntry(p) PROVE TypeInv'
  BY <1>9, TakeEntryTyped
<1>10. ASSUME NEW p \in Importers, TakeMeasure(p) PROVE TypeInv'
  BY <1>10, TakeMeasureTyped
<1>11. ASSUME NEW p \in Importers, TakeMemo(p) PROVE TypeInv'
  BY <1>11, TakeMemoTyped
<1>12. ASSUME NEW p \in Importers, UpdateIncident(p) PROVE TypeInv'
  BY <1>12, UpdateIncidentTyped
<1>13. ASSUME NEW p \in Importers, EndRun(p) \/ Breaks(p) PROVE TypeInv'
  BY <1>13, EndsTyped
<1>14. CASE UNCHANGED vars
  BY <1>14 DEF vars, TypeInv, TableTypes, LocalOf, Made
<1> QED BY <1>1, <1>2, <1>3, <1>4, <1>5, <1>6, <1>7, <1>8, <1>9, <1>10, <1>11, <1>12, <1>13, <1>14,
        RangesAssumption DEF Next, Work

(* Every step keeps the row of the incident whose log is read. *)
LEMMA RowStep == TypeInv /\ RowInv /\ [Next]_vars => RowInv'
<1> SUFFICES ASSUME TypeInv, RowInv, [Next]_vars PROVE RowInv'
  OBVIOUS
<1>0. \A p \in Importers : run[p] \in Locals
  BY DEF TypeInv
<1>1. ASSUME NEW p \in Importers, NEW es \in SUBSET Entries, NEW rs \in SUBSET Records, Load(p, es, rs)
      PROVE RowInv'
  <2>1. [Off EXCEPT !.step = "icad", !.todo = rs].step = "icad"
    BY DEF Off
  <2> QED BY <1>1, <2>1, StaysWithRow DEF Load
<1>2. ASSUME NEW p \in Importers, FindRecord(p) \/ CreateRecord(p) \/ AddDetail(p) \/ EndRecord(p)
      PROVE RowInv'
  <2>1. /\ [run[p] EXCEPT !.todo = @ \ {Record(p)}].step = run[p].step
        /\ [run[p] EXCEPT !.step = "record"].step = "record"
        /\ [run[p] EXCEPT !.step = "details", !.n = 1].step = "details"
        /\ [run[p] EXCEPT !.step = "icad", !.todo = @ \ {Record(p)}].step = "icad"
        /\ Off.step = "off"
    BY <1>0 DEF Locals, Off
  <2>2. [run[p] EXCEPT !.n = @ + 1].step = run[p].step
    BY <1>0, NextTyped
  <2>3. CASE FindRecord(p)
    BY <2>1, <2>3, StaysWithRow DEF FindRecord, At
  <2>4. CASE CreateRecord(p)
    BY <2>1, <2>4, StaysWithRow DEF CreateRecord
  <2>5. CASE AddDetail(p)
    BY <2>2, <2>5, StaysWithRow DEF AddDetail, At
  <2>6. CASE EndRecord(p)
    BY <2>1, <2>6, StaysWithRow DEF EndRecord
  <2> QED BY <1>2, <2>3, <2>4, <2>5, <2>6
<1>3. ASSUME NEW p \in Importers, NEW from \in Entries, NEW cs \in SUBSET Cads, QueryIncidents(p, from, cs)
      PROVE RowInv'
  <2>1. \A todo, seen : [Off EXCEPT !.step = "incidents", !.todo = todo, !.seen = seen].step = "incidents"
    BY DEF Off
  <2> QED BY <1>3, <2>1, StaysWithRow DEF QueryIncidents
<1>4. ASSUME NEW p \in Importers, FindIncident(p) \/ CreateIncident(p) PROVE RowInv'
  BY <1>4, FindIncidentRow, CreateIncidentRow
<1>5. ASSUME NEW p \in Importers, TakeEntry(p) \/ TakeMeasure(p) \/ TakeMemo(p) PROVE RowInv'
  <2>1. \A o : /\ [run[p] EXCEPT !.step = "measures", !.n = 1, !.o = o].todo = run[p].todo
               /\ [run[p] EXCEPT !.step = "measures", !.n = 1, !.o = o].seen = run[p].seen
    BY <1>0 DEF Locals
  <2>2. \A i, o : /\ [run[p] EXCEPT !.n = i, !.o = o].todo = run[p].todo
                  /\ [run[p] EXCEPT !.n = i, !.o = o].seen = run[p].seen
    BY <1>0 DEF Locals
  <2>3. \A es, o : /\ [run[p] EXCEPT !.step = "entry", !.lines = es, !.o = o].todo = run[p].todo
                   /\ [run[p] EXCEPT !.step = "entry", !.lines = es, !.o = o].seen = run[p].seen
    BY <1>0 DEF Locals
  <2>4. CASE TakeEntry(p)
    BY <2>1, <2>4, StaysWithRow DEF TakeEntry, At
  <2>5. CASE TakeMeasure(p)
    BY <2>2, <2>5, StaysWithRow DEF TakeMeasure, At
  <2>6. CASE TakeMemo(p)
    BY <2>3, <2>6, StaysWithRow DEF TakeMemo, At
  <2> QED BY <1>5, <2>4, <2>5, <2>6
<1>6. ASSUME NEW p \in Importers, UpdateIncident(p) PROVE RowInv'
  BY <1>6, TypeStep, UpdateIncidentRow
<1>7. ASSUME NEW p \in Importers, EndRun(p) \/ Breaks(p) PROVE RowInv'
  BY <1>7, StaysWithRow DEF EndRun, Breaks, Off
<1>8. CASE UNCHANGED vars
  BY <1>8 DEF vars, RowInv, IncidentIn
<1> QED BY <1>1, <1>2, <1>3, <1>4, <1>5, <1>6, <1>7, <1>8, RangesAssumption
        DEF Next, Work

(* What the types of the variables say of them. *)
LEMMA TypesSuffice == TypeInv => TypeOK
<1> SUFFICES ASSUME TypeInv PROVE TypeOK
  OBVIOUS
<1>1. ASSUME NEW p \in Importers
      PROVE  /\ run[p].step \in Steps
             /\ run[p].n \in Nat /\ run[p].seen \subseteq al /\ run[p].lines \subseteq al
             /\ run[p].step \in {"icad", "record", "details"} => run[p].todo \subseteq Records
             /\ run[p].step \notin {"off", "icad", "incidents"} => run[p].todo # {}
             /\ run[p].step \in {"entry", "measures"} => run[p].o \in Objects
             /\ run[p].step = "measures" => run[p].lines # {}
  BY DEF TypeInv, LocalOf, Locals
<1>2. ASSUME NEW p \in Importers, run[p].step \in {"incidents", "incident", "entry", "measures"}
      PROVE  run[p].todo = {Cad[e] : e \in {f \in run[p].seen : Cad[f] \in run[p].todo}}
  <2>1. run[p].todo \subseteq {Cad[e] : e \in run[p].seen}
    BY <1>2 DEF TypeInv, LocalOf
  <2> QED BY <2>1
<1>3. TableTypes
  BY DEF TypeInv
<1> QED BY <1>1, <1>2, <1>3 DEF TypeOK, TableTypes, TypeInv, Steps

(* The types of the tables and of the processes are kept by every run,      *)
(* however many there are and wherever they are killed (TypeOK).            *)
THEOREM TypeCorrect == Spec => []TypeOK
<1>1. Init => RowInv
  BY DEF Init, RowInv, Off
<1>2. Spec => [](TypeInv /\ RowInv)
  BY <1>1, TypeInit, TypeStep, RowStep, PTL DEF Spec
<1> QED BY <1>2, TypesSuffice, PTL

-----------------------------------------------------------------------------
(* ICAD records.                                                            *)

(* The details stored of a record are the first ones of its order.          *)
Follows(r, ds) == Len(ds) <= Len(Clock[r]) /\ \A k \in 1..Len(ds) : ds[k] = Ordered(r)[k]

WorksOn(p, r) == run[p].step = "details" /\ Min(run[p].todo) = r

(* A process at a record knows how many details it has stored, and it is    *)
(* alone at that record, because only one could create it.                  *)
RecordInv ==
  /\ \A r \in Records : icad[r] # None =>
       /\ Follows(r, icad[r])
       /\ Len(icad[r]) < Len(Clock[r]) => r \in broken \/ \E p \in Importers : WorksOn(p, r)
  /\ \A p \in Importers, r \in Records : WorksOn(p, r) => icad[r] # None /\ Len(icad[r]) = run[p].n - 1
  /\ \A p, q \in Importers, r \in Records : WorksOn(p, r) /\ WorksOn(q, r) => p = q

(* A process that is not at a record any more has stored all of it or has   *)
(* been interrupted there.                                                  *)
LEMMA LeavesRecord ==
  ASSUME TypeInv, RecordInv, NEW p \in Importers, NEW s, Goes(p, s), s.step # "details",
         icad' = icad, broken \subseteq broken',
         \A r \in Records : WorksOn(p, r) => r \in broken' \/ Len(icad[r]) >= Len(Clock[r])
  PROVE  RecordInv'
<1>1. \A q \in Importers : run'[q] = IF q = p THEN s ELSE run[q]
  BY DEF Goes, TypeInv
<1>2. \A q \in Importers, r \in Records :
        /\ WorksOn(q, r)' => q # p /\ WorksOn(q, r) /\ run'[q] = run[q]
        /\ WorksOn(q, r) /\ q # p => WorksOn(q, r)'
  BY <1>1 DEF WorksOn
<1>3. ASSUME NEW r \in Records, icad[r] # None
      PROVE  /\ Follows(r, icad[r])
             /\ Len(icad[r]) < Len(Clock[r]) => r \in broken' \/ \E q \in Importers : WorksOn(q, r)'
  <2>1. /\ Follows(r, icad[r])
        /\ Len(icad[r]) < Len(Clock[r]) => r \in broken \/ \E q \in Importers : WorksOn(q, r)
    BY <1>3 DEF RecordInv
  <2>2. Len(icad[r]) \in Nat /\ Len(Clock[r]) \in Nat
    <3>1. Clock[r] \in Seq(0..(Day - 1)) /\ icad[r] \in Seq(Nat)
      BY <1>3 DEF TypeInv, TableTypes
    <3> QED BY <3>1
  <2> QED BY <1>2, <2>1, <2>2
<1>4. \A q \in Importers, r \in Records : WorksOn(q, r)' => icad[r] # None /\ Len(icad[r]) = run'[q].n - 1
  BY <1>2 DEF RecordInv
<1>5. \A q, t \in Importers, r \in Records : WorksOn(q, r)' /\ WorksOn(t, r)' => q = t
  BY <1>2 DEF RecordInv
<1> QED BY <1>3, <1>4, <1>5 DEF RecordInv, Follows

(* A new record has none of its details, and only the process that created it is at it. *)
LEMMA CreateRecordWhole ==
  ASSUME TypeInv, RecordInv, NEW p \in Importers, CreateRecord(p)
  PROVE  RecordInv'
<1> DEFINE r == Record(p)
           s == [run[p] EXCEPT !.step = "details", !.n = 1]
<1>1. run[p].step = "record" /\ run[p] \in Locals /\ LocalOf(run[p], al, Made)
  BY DEF CreateRecord, At, TypeInv
<1>2. r \in Records /\ r = Min(run[p].todo)
  BY <1>1, RecordIsThere DEF LocalOf, Record
<1>3. CASE icad[r] # None
  BY <1>1, <1>3, LeavesRecord DEF CreateRecord, Off, WorksOn
<1>4. CASE icad[r] = None
  <2>1. icad' = [icad EXCEPT ![r] = <<>>] /\ Goes(p, s) /\ broken' = broken
    BY <1>4 DEF CreateRecord
  <2>2. s.step = "details" /\ s.n = 1 /\ s.todo = run[p].todo
    BY <1>1 DEF Locals
  <2> HIDE DEF r, s
  <2>3. \A q \in Importers : run'[q] = IF q = p THEN s ELSE run[q]
    BY <2>1 DEF Goes, TypeInv
  <2>4. \A t \in Records : icad'[t] = IF t = r THEN <<>> ELSE icad[t]
    BY <2>1 DEF TypeInv, TableTypes
  <2>5. ASSUME NEW q \in Importers, WorksOn(q, r) PROVE FALSE
    <3>1. icad[r] # None
      BY <1>2, <2>5 DEF RecordInv
    <3> QED BY <1>4, <3>1
  <2>6. /\ \A t \in Records : WorksOn(p, t)' <=> t = r
        /\ \A t \in Records : ~WorksOn(p, t)
        /\ \A q \in Importers, t \in Records : q # p => (WorksOn(q, t)' <=> WorksOn(q, t))
    BY <1>1, <1>2, <2>2, <2>3 DEF WorksOn
  <2>7. ASSUME NEW t \in Records, icad'[t] # None
        PROVE  /\ Follows(t, icad'[t])
               /\ Len(icad'[t]) < Len(Clock[t]) => t \in broken' \/ \E q \in Importers : WorksOn(q, t)'
    <3>1. CASE t = r
      <4>1. Len(Clock[t]) \in Nat
        <5>1. Clock[t] \in Seq(0..(Day - 1))
          OBVIOUS
        <5> QED BY <5>1
      <4>2. icad'[t] = <<>> /\ WorksOn(p, t)'
        BY <2>4, <2>6, <3>1
      <4> QED BY <4>1, <4>2 DEF Follows
    <3>2. CASE t # r
      <4>1. /\ Follows(t, icad[t])
            /\ Len(icad[t]) < Len(Clock[t]) => t \in broken \/ \E q \in Importers : WorksOn(q, t)
        BY <2>4, <2>7, <3>2 DEF RecordInv
      <4> QED BY <2>1, <2>4, <2>6, <3>2, <4>1
    <3> QED BY <3>1, <3>2
  <2>8. ASSUME NEW q \in Importers, NEW t \in Records, WorksOn(q, t)'
        PROVE  icad'[t] # None /\ Len(icad'[t]) = run'[q].n - 1
    <3>1. CASE q = p
      <4>1. icad'[t] = <<>> /\ run'[q].n = 1
        BY <2>2, <2>3, <2>4, <2>6, <2>8, <3>1
      <4>2. <<>> # None
        <5>1. <<>> \in Seq(Nat)
          OBVIOUS
        <5> QED BY <5>1
      <4>3. Len(<<>>) = 1 - 1
        OBVIOUS
      <4> HIDE ImportAssumption
      <4> QED BY <4>1, <4>2, <4>3, Zenon
    <3>2. CASE q # p
      <4>1. WorksOn(q, t) /\ t # r
        BY <2>5, <2>6, <2>8, <3>2
      <4> QED BY <2>3, <2>4, <3>2, <4>1 DEF RecordInv
    <3> QED BY <3>1, <3>2
  <2>9. \A q, u \in Importers, t \in Records : WorksOn(q, t)' /\ WorksOn(u, t)' => q = u
    BY <2>5, <2>6 DEF RecordInv
  <2> QED BY <2>7, <2>8, <2>9 DEF RecordInv, Follows
<1> QED BY <1>3, <1>4

(* The next detail of the order follows those that are stored. *)
LEMMA AddDetailWhole ==
  ASSUME TypeInv, RecordInv, NEW p \in Importers, AddDetail(p)
  PROVE  RecordInv'
<1> DEFINE r == Record(p)
           d == Ordered(r)[run[p].n]
           s == [run[p] EXCEPT !.n = @ + 1]
<1>1. run[p].step = "details" /\ run[p] \in Locals /\ LocalOf(run[p], al, Made)
  BY DEF AddDetail, At, TypeInv
<1>2. r \in Records /\ r = Min(run[p].todo) /\ WorksOn(p, r)
  BY <1>1, RecordIsThere DEF LocalOf, Record, WorksOn
<1>3. icad' = [icad EXCEPT ![r] = Append(@, d)] /\ Goes(p, s) /\ broken' = broken
      /\ run[p].n <= Len(Clock[r])
  BY DEF AddDetail
<1>4. s.step = "details" /\ s.n = run[p].n + 1 /\ s.todo = run[p].todo /\ run[p].n \in Nat
  BY <1>1, NextTyped DEF Locals
<1>5. d = Ordered(r)[run[p].n]
  OBVIOUS
<1> HIDE DEF r, s, d
<1>6. \A q \in Importers : run'[q] = IF q = p THEN s ELSE run[q]
  BY <1>3 DEF Goes, TypeInv
<1>7. \A t \in Records : icad'[t] = IF t = r THEN Append(icad[r], d) ELSE icad[t]
  BY <1>3 DEF TypeInv, TableTypes
<1>8. \A q \in Importers, t \in Records : WorksOn(q, t)' <=> WorksOn(q, t)
  BY <1>1, <1>4, <1>6 DEF WorksOn
<1>9. icad[r] # None /\ Len(icad[r]) = run[p].n - 1 /\ Follows(r, icad[r])
  BY <1>2 DEF RecordInv
<1>10. icad[r] \in Seq(DOMAIN Clock[r]) /\ Len(icad[r]) \in Nat
  BY <1>2, <1>9 DEF TypeInv
<1>11. /\ Len(Append(icad[r], d)) = Len(icad[r]) + 1
       /\ \A k \in 1..Len(icad[r]) + 1 :
            Append(icad[r], d)[k] = IF k = Len(icad[r]) + 1 THEN d ELSE icad[r][k]
  BY <1>10
<1>12. Follows(r, icad'[r])
  <2> DEFINE ds == Append(icad[r], d)
  <2>1. Len(ds) = run[p].n
    BY <1>4, <1>9, <1>10, <1>11
  <2>2. ASSUME NEW k \in 1..run[p].n PROVE ds[k] = Ordered(r)[k]
    <3>1. CASE k = run[p].n
      BY <1>4, <1>5, <1>9, <1>10, <1>11, <3>1
    <3>2. CASE k # run[p].n
      <4>1. k \in 1..Len(icad[r]) /\ k \in 1..Len(icad[r]) + 1 /\ k # Len(icad[r]) + 1
        BY <1>4, <1>9, <1>10, <3>2
      <4> QED BY <1>9, <1>11, <4>1 DEF Follows
    <3> QED BY <3>1, <3>2
  <2>3. icad'[r] = ds
    BY <1>2, <1>7
  <2> HIDE DEF ds
  <2> QED BY <1>3, <2>1, <2>2, <2>3 DEF Follows
<1>13. ASSUME NEW t \in Records, icad'[t] # None
       PROVE  /\ Follows(t, icad'[t])
              /\ Len(icad'[t]) < Len(Clock[t]) => t \in broken' \/ \E q \in Importers : WorksOn(q, t)'
  <2>1. CASE t = r
    BY <1>2, <1>8, <1>12, <2>1
  <2>2. CASE t # r
    BY <1>3, <1>7, <1>8, <1>13, <2>2 DEF RecordInv
  <2> QED BY <2>1, <2>2
<1>14. ASSUME NEW q \in Importers, NEW t \in Records, WorksOn(q, t)'
       PROVE  icad'[t] # None /\ Len(icad'[t]) = run'[q].n - 1
  <2>1. CASE q = p
    <3>1. t = r
      BY <1>2, <1>8, <1>14, <2>1 DEF WorksOn
    <3>2. run'[q].n = run[p].n + 1
      BY <1>4, <1>6, <2>1
    <3>3. icad'[t] = Append(icad[r], d) /\ Len(icad'[t]) = run'[q].n - 1
      <4>1. icad'[t] = Append(icad[r], d)
        BY <1>2, <1>7, <3>1
      <4>2. Len(Append(icad[r], d)) = run[p].n + 1 - 1
        BY <1>4, <1>9, <1>10, <1>11
      <4>3. Len(icad'[t]) = Len(Append(icad[r], d))
        BY <4>1
      <4>4. run'[q].n - 1 = run[p].n + 1 - 1
        BY <1>4, <3>2
      <4>5. Len(icad'[t]) = run'[q].n - 1
        BY <4>2, <4>3, <4>4, Zenon
      <4> QED BY <4>1, <4>5, Zenon
    <3>4. Append(icad[r], d) # None
      <4>1. TypeInv'
        BY AddDetailTyped
      <4>2. r \in Made'
        <5>1. run'[p] = s /\ LocalOf(run'[p], al', Made')
          BY <1>6, <4>1 DEF TypeInv
        <5>2. Min(s.todo) \in Made'
          BY <1>4, <5>1 DEF LocalOf
        <5> QED BY <1>2, <1>4, <5>2
      <4> QED BY <1>2, <1>7, <4>2 DEF Made
    <3> QED BY <3>3, <3>4
  <2>2. CASE q # p
    <3>1. WorksOn(q, t) /\ t # r
      BY <1>2, <1>8, <1>14, <2>2 DEF RecordInv
    <3>2. icad[t] # None /\ Len(icad[t]) = run[q].n - 1
      BY <3>1 DEF RecordInv
    <3> QED BY <1>6, <1>7, <2>2, <3>1, <3>2
  <2> QED BY <2>1, <2>2
<1>15. \A q, u \in Importers, t \in Records : WorksOn(q, t)' /\ WorksOn(u, t)' => q = u
  BY <1>8 DEF RecordInv
<1> QED BY <1>13, <1>14, <1>15 DEF RecordInv, Follows

(* Every step keeps what is stored of the records. *)
LEMMA RecordStep == TypeInv /\ RecordInv /\ [Next]_vars => RecordInv'
<1> SUFFICES ASSUME TypeInv, RecordInv, [Next]_vars PROVE RecordInv'
  OBVIOUS
<1>0. \A p \in Importers : run[p] \in Locals
  BY DEF TypeInv
<1>1. ASSUME NEW p \in Importers, NEW es \in SUBSET Entries, NEW rs \in SUBSET Records, Load(p, es, rs)
      PROVE RecordInv'
  <2>1. [Off EXCEPT !.step = "icad", !.todo = rs].step = "icad"
    BY DEF Off
  <2> QED BY <1>1, <2>1, LeavesRecord DEF Load, At, WorksOn
<1>2. ASSUME NEW p \in Importers, FindRecord(p) PROVE RecordInv'
  <2>1. /\ [run[p] EXCEPT !.todo = @ \ {Record(p)}].step = run[p].step
        /\ [run[p] EXCEPT !.step = "record"].step = "record"
    BY <1>0 DEF Locals
  <2> QED BY <1>2, <2>1, LeavesRecord DEF FindRecord, At, WorksOn
<1>3. ASSUME NEW p \in Importers, CreateRecord(p) PROVE RecordInv'
  BY <1>3, CreateRecordWhole
<1>4. ASSUME NEW p \in Importers, AddDetail(p) PROVE RecordInv'
  BY <1>4, AddDetailWhole
<1>5. ASSUME NEW p \in Importers, EndRecord(p) PROVE RecordInv'
  <2>1. [run[p] EXCEPT !.step = "icad", !.todo = @ \ {Record(p)}].step = "icad"
    BY <1>0 DEF Locals
  <2>2. ASSUME NEW r \in Records, WorksOn(p, r) PROVE Len(icad[r]) >= Len(Clock[r])
    <3>1. r = Record(p) /\ run[p].n > Len(Clock[r]) /\ Len(icad[r]) = run[p].n - 1
      BY <1>5, <2>2 DEF EndRecord, WorksOn, Record, RecordInv
    <3>2. Len(Clock[r]) \in Nat /\ run[p].n \in Nat
      <4>1. Clock[r] \in Seq(0..(Day - 1))
        OBVIOUS
      <4> QED BY <1>0, <4>1 DEF Locals
    <3> QED BY <3>1, <3>2
  <2> QED BY <1>5, <2>1, <2>2, LeavesRecord DEF EndRecord
<1>6. ASSUME NEW p \in Importers, NEW from \in Entries, NEW cs \in SUBSET Cads, QueryIncidents(p, from, cs)
      PROVE RecordInv'
  <2>1. \A todo, seen : [Off EXCEPT !.step = "incidents", !.todo = todo, !.seen = seen].step = "incidents"
    BY DEF Off
  <2> QED BY <1>6, <2>1, LeavesRecord DEF QueryIncidents, At, WorksOn
<1>7. ASSUME NEW p \in Importers, NEW row, Opens(p, row), ~At(p, "details"), icad' = icad, broken' = broken
      PROVE RecordInv'
  <2>1. \A es, o : [run[p] EXCEPT !.step = "entry", !.lines = es, !.o = o].step = "entry"
    BY <1>0 DEF Locals
  <2>2. \A cs : [run[p] EXCEPT !.step = "incidents", !.todo = cs].step = "incidents"
    BY <1>0 DEF Locals
  <2> QED BY <1>7, <2>1, <2>2, LeavesRecord DEF Opens, At, WorksOn
<1>8. ASSUME NEW p \in Importers, FindIncident(p) PROVE RecordInv'
  <2>1. [run[p] EXCEPT !.step = "incident"].step = "incident"
    BY <1>0 DEF Locals
  <2> QED BY <1>7, <1>8, <2>1, LeavesRecord DEF FindIncident, At, WorksOn
<1>9. ASSUME NEW p \in Importers, CreateIncident(p) PROVE RecordInv'
  <2>1. Off.step = "off"
    BY DEF Off
  <2> QED BY <1>7, <1>9, <2>1, LeavesRecord DEF CreateIncident, At, WorksOn
<1>10. ASSUME NEW p \in Importers, TakeEntry(p) \/ TakeMeasure(p) \/ TakeMemo(p) PROVE RecordInv'
  <2>1. /\ \A o : [run[p] EXCEPT !.step = "measures", !.n = 1, !.o = o].step = "measures"
        /\ \A es, o : [run[p] EXCEPT !.step = "entry", !.lines = es, !.o = o].step = "entry"
    BY <1>0 DEF Locals
  <2>2. CASE TakeEntry(p)
    BY <2>1, <2>2, LeavesRecord DEF TakeEntry, At, WorksOn
  <2>3. CASE TakeMeasure(p)
    <3>1. PICK o : Goes(p, [run[p] EXCEPT !.n = @ + 1, !.o = o])
      BY <2>3 DEF TakeMeasure
    <3> DEFINE s == [run[p] EXCEPT !.n = @ + 1, !.o = o]
    <3>2. run[p].step = "measures" /\ s.step = run[p].step
      BY <1>0, <2>3 DEF Locals, TakeMeasure, At
    <3>3. Goes(p, s)
      BY <3>1
    <3> HIDE DEF s
    <3> QED BY <2>3, <3>2, <3>3, LeavesRecord DEF TakeMeasure, WorksOn
  <2>4. CASE TakeMemo(p)
    BY <2>1, <2>4, LeavesRecord DEF TakeMemo, At, WorksOn
  <2> QED BY <1>10, <2>2, <2>3, <2>4
<1>11. ASSUME NEW p \in Importers, UpdateIncident(p) PROVE RecordInv'
  <2>1. \A cs, o : [run[p] EXCEPT !.step = "incidents", !.todo = cs, !.o = o].step = "incidents"
    BY <1>0 DEF Locals
  <2> QED BY <1>11, <2>1, LeavesRecord DEF UpdateIncident, At, WorksOn
<1>12. ASSUME NEW p \in Importers, EndRun(p) PROVE RecordInv'
  BY <1>12, LeavesRecord DEF EndRun, At, WorksOn, Off
<1>13. ASSUME NEW p \in Importers, Breaks(p) PROVE RecordInv'
  <2>1. ASSUME NEW r \in Records, WorksOn(p, r) PROVE r \in broken' \/ Len(icad[r]) >= Len(Clock[r])
    <3>1. r = Record(p) /\ run[p].step = "details" /\ Len(icad[r]) = run[p].n - 1
      BY <2>1 DEF WorksOn, Record, RecordInv
    <3>2. Len(Clock[r]) \in Nat /\ run[p].n \in Nat
      <4>1. Clock[r] \in Seq(0..(Day - 1))
        OBVIOUS
      <4> QED BY <1>0, <4>1 DEF Locals
    <3>3. CASE run[p].n <= Len(Clock[r])
      BY <1>13, <3>1, <3>3 DEF Breaks, At
    <3>4. CASE run[p].n > Len(Clock[r])
      BY <3>1, <3>2, <3>4
    <3> QED BY <3>2, <3>3, <3>4
  <2>2. Off.step = "off" /\ broken \subseteq broken'
    BY <1>13 DEF Off, Breaks
  <2> QED BY <1>13, <2>1, <2>2, LeavesRecord DEF Breaks
<1>14. CASE UNCHANGED vars
  BY <1>14 DEF vars, RecordInv, Follows, WorksOn
<1> QED BY <1>1, <1>2, <1>3, <1>4, <1>5, <1>6, <1>8, <1>9, <1>10, <1>11, <1>12, <1>13, <1>14,
        RangesAssumption DEF Next, Work

(* The date of a detail is as far from that of its record as its time of    *)
(* day is from the record's, counted round the clock.                       *)
LEMMA StampElapsed ==
  ASSUME NEW r \in Records, NEW i \in DOMAIN Clock[r]
  PROVE  Elapsed(r, i) = Stamp(r, i) - Opened[r] /\ Stamp(r, i) \in Nat /\ Opened[r] \in Nat
<1>1. Clock[r][i] \in 0..(Day - 1) /\ Opened[r] \in 0..(Day - 1)
  <2>1. Clock[r] \in Seq(0..(Day - 1))
    OBVIOUS
  <2> QED BY <2>1
<1>3. CASE Clock[r][i] < Opened[r]
  <2>1. Clock[r][i] + Day - Opened[r] \in Nat /\ Clock[r][i] + Day - Opened[r] < Day
    BY <1>1, <1>3
  <2>2. (Clock[r][i] + Day - Opened[r]) % Day = Clock[r][i] + Day - Opened[r]
    BY <2>1, ModBelow
  <2>3. Elapsed(r, i) = (Clock[r][i] + Day - Opened[r]) % Day
    BY Zenon DEF Elapsed
  <2>4. Stamp(r, i) = Clock[r][i] + Day
    BY <1>3 DEF Stamp
  <2>5. Elapsed(r, i) = Clock[r][i] + Day - Opened[r]
    BY <2>2, <2>3, Zenon
  <2> QED BY <1>1, <2>4, <2>5
<1>4. CASE Clock[r][i] >= Opened[r]
  <2>1. Clock[r][i] - Opened[r] \in Nat /\ Clock[r][i] - Opened[r] < Day
    BY <1>1, <1>4
  <2>2. ((Clock[r][i] - Opened[r]) + Day) % Day = Clock[r][i] - Opened[r]
    BY <2>1, ModAbove
  <2>3. (Clock[r][i] - Opened[r]) + Day = Clock[r][i] + Day - Opened[r]
    BY <1>1
  <2>4. Elapsed(r, i) = (Clock[r][i] + Day - Opened[r]) % Day
    BY Zenon DEF Elapsed
  <2>5. Stamp(r, i) = Clock[r][i]
    BY <1>1, <1>4 DEF Stamp
  <2>6. Elapsed(r, i) = Clock[r][i] - Opened[r]
    BY <2>2, <2>3, <2>4, Zenon
  <2> QED BY <1>1, <2>5, <2>6
<1> QED BY <1>1, <1>3, <1>4

LEMMA RecordsSuffice == TypeInv /\ RecordInv => RecordsWhole
<1> SUFFICES ASSUME TypeInv, RecordInv, NEW r \in Records, icad[r] # None
             PROVE  LET stored == {icad[r][k] : k \in DOMAIN icad[r]}
                        missing == DOMAIN Clock[r] \ stored
                    IN  /\ \A j, k \in DOMAIN icad[r] : j < k =>
                             icad[r][j] # icad[r][k] /\ Elapsed(r, icad[r][j]) <= Elapsed(r, icad[r][k])
                        /\ \A i \in stored, k \in missing : Elapsed(r, i) <= Elapsed(r, k)
                        /\ missing # {} =>
                             r \in broken \/ \E p \in Importers : At(p, "details") /\ Record(p) = r
  BY DEF RecordsWhole
<1> DEFINE C == Clock[r]
           ds == icad[r]
           stored == {ds[k] : k \in DOMAIN ds}
           missing == DOMAIN C \ stored
<1>1. C \in Seq(0..(Day - 1)) /\ ds \in Seq(DOMAIN C)
  BY DEF TypeInv
<1>2. /\ Len(ds) \in Nat /\ Len(C) \in Nat /\ Len(ds) <= Len(C)
      /\ DOMAIN ds = 1..Len(ds) /\ DOMAIN C = 1..Len(C)
      /\ \A k \in 1..Len(ds) : ds[k] = Ordered(r)[k]
  <2>1. Len(ds) <= Len(C) /\ \A k \in 1..Len(ds) : ds[k] = Ordered(r)[k]
    BY DEF RecordInv, Follows
  <2>2. \A D, t : t \in Seq(D) => Len(t) \in Nat /\ DOMAIN t = 1..Len(t)
    OBVIOUS
  <2> HIDE DEF C, ds
  <2> QED BY <1>1, <2>1, <2>2
<1>3. ASSUME NEW a \in DOMAIN C, NEW b \in DOMAIN C, a < b
      PROVE  /\ Ordered(r)[a] # Ordered(r)[b]
             /\ Elapsed(r, Ordered(r)[a]) <= Elapsed(r, Ordered(r)[b])
  <2> DEFINE x == Ordered(r)[a]
             y == Ordered(r)[b]
  <2>1. x \in DOMAIN C /\ y \in DOMAIN C /\ Before(r, x, y)
    BY <1>3, SortAssumption
  <2> HIDE DEF x, y
  <2>2. /\ Elapsed(r, x) = Stamp(r, x) - Opened[r] /\ Elapsed(r, y) = Stamp(r, y) - Opened[r]
        /\ Stamp(r, x) \in Nat /\ Stamp(r, y) \in Nat /\ Opened[r] \in Nat
    BY <2>1, StampElapsed
  <2>3. x \in Nat /\ y \in Nat
    BY <1>2, <2>1
  <2>4. x # y /\ Elapsed(r, x) <= Elapsed(r, y)
    BY <2>1, <2>2, <2>3 DEF Before
  <2> QED BY <2>4 DEF x, y
<1>4. ASSUME NEW j \in DOMAIN ds, NEW k \in DOMAIN ds, j < k
      PROVE  ds[j] # ds[k] /\ Elapsed(r, ds[j]) <= Elapsed(r, ds[k])
  <2>1. j \in DOMAIN C /\ k \in DOMAIN C /\ ds[j] = Ordered(r)[j] /\ ds[k] = Ordered(r)[k]
    BY <1>2
  <2> QED BY <1>3, <1>4, <2>1
<1>5. ASSUME NEW i \in stored, NEW k \in missing PROVE Elapsed(r, i) <= Elapsed(r, k)
  <2>1. PICK a \in DOMAIN ds : i = ds[a]
    OBVIOUS
  <2>2. PICK b \in DOMAIN C : k = Ordered(r)[b]
    BY SortAssumption
  <2>3. b \notin DOMAIN ds
    BY <1>2, <2>2
  <2>4. a \in DOMAIN C /\ a < b /\ i = Ordered(r)[a]
    BY <1>2, <2>1, <2>3
  <2> QED BY <1>3, <2>2, <2>4
<1>6. ASSUME missing # {}
      PROVE  r \in broken \/ \E p \in Importers : At(p, "details") /\ Record(p) = r
  <2>1. PICK k \in DOMAIN C : k \notin stored
    BY <1>6
  <2>2. PICK b \in DOMAIN C : k = Ordered(r)[b]
    BY SortAssumption
  <2>3. Len(ds) < Len(C)
    BY <1>2, <2>1, <2>2
  <2> QED BY <2>3 DEF RecordInv, WorksOn, At, Record
<1> QED BY <1>4, <1>5, <1>6

(* Details are stored once each and in order, however many runs import the  *)
(* same records, and a record stays incomplete only where a process ended   *)
(* (RecordsWhole).                                                          *)
THEOREM RecordsStayWhole == Spec => []RecordsWhole
<1>1. Init => RowInv /\ RecordInv
  BY DEF Init, RowInv, RecordInv, WorksOn, Off
<1>2. Spec => [](TypeInv /\ RowInv /\ RecordInv)
  BY <1>1, TypeInit, TypeStep, RowStep, RecordStep, PTL DEF Spec
<1> QED BY <1>2, RecordsSuffice, PTL

HIDE ImportAssumption

-----------------------------------------------------------------------------
(* What a scan has gathered when it has read a part of the log. "l" is what *)
(* the entries say, W the log the scan goes through.                        *)

(* A process r goes through the log of incident c. *)
Reads(r, c) == r.step \in {"entry", "measures"} /\ IncidentIn(r.todo, r.seen) = c

In(p, c) == Reads(run[p], c)

LogOf(c) == {e \in al : Cad[e] = c}

Subjects(l, es, s) == {e \in es : l[e].subject = s}
Said(l, es, m) == {e \in es : \E i \in DOMAIN l[e].details : l[e].details[i] = m}
Memos(l, es, m) == {e \in es : l[e].memo = m}

IsLast(x, T) == x \in T /\ \A y \in T : y <= x
IsFirst(x, T) == x \in T /\ \A y \in T : x <= y

(* The last of what was read; before anything was, what an earlier scan may *)
(* have left, which is of the log U as well.                                *)
Latest(x, T, U) == IF T = {} THEN x \in U \cup {None} ELSE IsLast(x, T)
Earliest(x, T) == IF T = {} THEN x = None ELSE IsFirst(x, T)

(* Columns no scan clears hold entries of the log. *)
RowFrom(l, row, W) ==
  /\ row["sigalert_begin"] \in Subjects(l, W, "sigalert begin") \cup {None}
  /\ row["sigalert_end"] \in Subjects(l, W, "sigalert end") \cup {None}
  /\ row["first_call"] \in Said(l, W, "first call") \cup Subjects(l, W, "open") \cup {None}

(* The subjects of the entries S. *)
Alerts(l, row, W, S) ==
  /\ Latest(row["sigalert_begin"], Subjects(l, S, "sigalert begin"), Subjects(l, W, "sigalert begin"))
  /\ Latest(row["sigalert_end"], Subjects(l, S, "sigalert end"), Subjects(l, W, "sigalert end"))

Aside(l, o, S) ==
  /\ IF Subjects(l, S, "open") = {} THEN o.open = None ELSE o.open \in Subjects(l, S, "open")
  /\ Earliest(o.proxy, Subjects(l, S, "info") \cup Subjects(l, S, "sigalert begin"))

(* The measures: F, V and L are the entries with a first call, a            *)
(* verification and a clearance; memos of the entries D.                    *)
Calls(l, row, W, F) ==
  Latest(row["first_call"], F, Said(l, W, "first call") \cup Subjects(l, W, "open"))

Verifies(l, row, W, V, D) ==
  Subjects(l, W, "sigalert begin") = {} =>
    Earliest(row["verification"], V \cup Memos(l, D, "visual"))

Clears(l, row, L, D) ==
  IF L # {} THEN IsLast(row["lanes_clear"], L)
  ELSE Earliest(row["lanes_clear"], Memos(l, D, "clear") \cup Subjects(l, D, "close"))

Gathered(l, o, W, S, F, V, L, D) ==
  /\ Alerts(l, o.row, W, S) /\ Aside(l, o, S)
  /\ Calls(l, o.row, W, F) /\ Verifies(l, o.row, W, V, D) /\ Clears(l, o.row, L, D)

(* Columns that update will not write are those of the table. *)
Unsaved(o, row) == \A col \in Columns \ o.dirty : o.row[col] = row[col]

(* A process r in the middle of an entry has read its subject and the       *)
(* measures before the next one.                                            *)
SubjectsRead(r, W) == (W \ r.lines) \cup (IF r.step = "measures" THEN {Min(r.lines)} ELSE {})

MeasuresRead(l, r, W, m) ==
  Said(l, W \ r.lines, m)
    \cup (IF r.step = "measures" /\ \E i \in 1..(r.n - 1) : l[Min(r.lines)].details[i] = m
          THEN {Min(r.lines)} ELSE {})

Progress(l, r, row, W, ms) ==
  /\ r.lines \subseteq W /\ \A x \in W \ r.lines, y \in r.lines : x < y
  /\ Unsaved(r.o, row)
  /\ Gathered(l, r.o, W, SubjectsRead(r, W), MeasuresRead(l, r, W, "first call"),
              MeasuresRead(l, r, W, "verification"), MeasuresRead(l, r, W, "lanes clear"), W \ r.lines)
  /\ \A e \in W \ r.lines : ms[e] = Kept(l[e].details)[Len(l[e].details)]
  /\ r.step = "measures" =>
       LET e == Min(r.lines)
       IN  r.n <= Len(l[e].details) + 1 /\ ms[e] = Kept(l[e].details)[r.n - 1]

Done(l, row, W, ms) ==
  /\ Alerts(l, row, W, W) /\ Clears(l, row, Said(l, W, "lanes clear"), W)
  /\ Subjects(l, W, "sigalert begin") = {} =>
       LET V == Said(l, W, "verification") \cup Memos(l, W, "visual")
       IN  Earliest(row["verification"], IF V # {} THEN V ELSE Subjects(l, W, "info"))
  /\ IF Said(l, W, "first call") # {} THEN IsLast(row["first_call"], Said(l, W, "first call"))
     ELSE row["first_call"] \in IF Subjects(l, W, "open") = {} THEN {None} ELSE Subjects(l, W, "open")
  /\ \A e \in W : ms[e] = Kept(l[e].details)[Len(l[e].details)]

(* What is in the columns no scan clears, in the table and in memory, is    *)
(* from the log, whatever was killed or crossed.                            *)
ObjectFrom(l, o, W) ==
  RowFrom(l, o.row, W) /\ o.open \in Subjects(l, W, "open") \cup {None}

FromInv ==
  /\ \A c \in Cads : inc[c] # None => RowFrom(log, inc[c], LogOf(c))
  /\ \A p \in Importers, c \in Cads : In(p, c) =>
       run[p].lines \subseteq LogOf(c) /\ ObjectFrom(log, run[p].o, LogOf(c))

(* As long as no other has crossed the last scan of an incident, it is one  *)
(* process at most that is in it, with what it has read so far, and its     *)
(* result stays.                                                            *)
ScanOf(c) ==
  /\ scan[c].of \subseteq LogOf(c)
  /\ ~scan[c].crossed =>
       /\ \A p, q \in Importers : In(p, c) /\ In(q, c) => p = q
       /\ \A p \in Importers : In(p, c) =>
            ~scan[c].ended /\ Progress(log, run[p], inc[c], scan[c].of, measures)
       /\ scan[c].ended => inc[c] # None /\ Done(log, inc[c], scan[c].of, measures)

ScanInv == \A c \in Cads : ScanOf(c)

-----------------------------------------------------------------------------
(* What is stored of the measures of an entry.                              *)

(* The function Kept names exists: nothing for no measures, and one more    *)
(* for each that is stored.                                                 *)
LEMMA KeptStep ==
  ASSUME NEW ms \in Seq(STRING)
  PROVE  /\ Kept(ms)[0] = <<>>
         /\ \A n \in 1..Len(ms) :
              Kept(ms)[n] = IF IsStored(ms[n]) THEN Append(Kept(ms)[n - 1], ms[n]) ELSE Kept(ms)[n - 1]
<1> DEFINE V == Seq(STRING)
           step == [x \in (1..Len(ms)) \X V |-> IF IsStored(ms[x[1]]) THEN Append(x[2], ms[x[1]]) ELSE x[2]]
<1>1. Len(ms) \in Nat /\ <<>> \in V
  OBVIOUS
<1>2. IsStep(step, Len(ms), V)
  <2>1. ASSUME NEW x \in (1..Len(ms)) \X V
        PROVE  (IF IsStored(ms[x[1]]) THEN Append(x[2], ms[x[1]]) ELSE x[2]) \in V
    <3>1. x[1] \in 1..Len(ms) /\ x[2] \in V
      OBVIOUS
    <3>2. ms[x[1]] \in STRING
      BY <3>1
    <3>3. Append(x[2], ms[x[1]]) \in V
      BY <3>1, <3>2
    <3> QED BY <3>1, <3>3, Zenon
  <2> QED BY <2>1, Zenon DEF IsStep
<1>3. PICK f : IsIterated(f, step, <<>>, Len(ms), V)
  <2> HIDE DEF V, step
  <2> QED BY <1>1, <1>2, Recursion
<1>4. ASSUME NEW i \in 1..Len(ms)
      PROVE  f[i] = IF IsStored(ms[i]) THEN Append(f[i - 1], ms[i]) ELSE f[i - 1]
  <2>1. i - 1 \in 0..Len(ms) /\ f[i - 1] \in V
    <3>1. i - 1 \in 0..Len(ms) /\ f \in [0..Len(ms) -> V]
      <4> HIDE DEF V, step
      <4> QED BY <1>3 DEF IsIterated
    <3> QED BY <3>1
  <2>2. f[i] = step[<<i, f[i - 1]>>]
    <3> HIDE DEF V, step
    <3> QED BY <1>3 DEF IsIterated
  <2>3. <<i, f[i - 1]>> \in (1..Len(ms)) \X V
    BY <2>1
  <2> QED BY <2>2, <2>3
<1>5. f \in [0..Len(ms) -> V] /\ f[0] = <<>>
  <2> HIDE DEF V, step
  <2> QED BY <1>3 DEF IsIterated
<1>6. f = [n \in 0..Len(ms) |->
             IF n = 0 THEN <<>> ELSE IF IsStored(ms[n]) THEN Append(f[n - 1], ms[n]) ELSE f[n - 1]]
  <2>1. ASSUME NEW n \in 0..Len(ms)
        PROVE  f[n] = IF n = 0 THEN <<>> ELSE IF IsStored(ms[n]) THEN Append(f[n - 1], ms[n]) ELSE f[n - 1]
    <3>1. CASE n = 0
      BY <1>5, <3>1
    <3>2. CASE n # 0
      <4>1. n \in 1..Len(ms)
        BY <3>2
      <4> QED BY <1>4, <3>2, <4>1
    <3> QED BY <3>1, <3>2
  <2> QED BY <1>5, <2>1, Zenon
<1>7. Kept(ms) = [n \in 0..Len(ms) |->
        IF n = 0 THEN <<>> ELSE IF IsStored(ms[n]) THEN Append(Kept(ms)[n - 1], ms[n]) ELSE Kept(ms)[n - 1]]
  BY <1>6, Zenon DEF Kept
<1> HIDE DEF step, V
<1>8. Kept(ms)[0] = <<>>
  <2>1. 0 \in 0..Len(ms)
    OBVIOUS
  <2> QED BY <1>7, <2>1
<1>9. ASSUME NEW n \in 1..Len(ms)
      PROVE  Kept(ms)[n] = IF IsStored(ms[n]) THEN Append(Kept(ms)[n - 1], ms[n]) ELSE Kept(ms)[n - 1]
  <2>1. n \in 0..Len(ms) /\ n # 0
    OBVIOUS
  <2> QED BY <1>7, <2>1
<1> QED BY <1>8, <1>9

-----------------------------------------------------------------------------
(* The incident in memory, column by column.                                *)

(* What one step of the scan does to the incident o in memory, which then   *)
(* is q: by subject, by measure, by memo (when there is no sigalert) and by *)
(* what was kept aside.                                                     *)
SubjectSet(o, q, e) ==
  LET s == log[e].subject
  IN  /\ q.row["sigalert_begin"] = IF s = "sigalert begin" THEN e ELSE o.row["sigalert_begin"]
      /\ q.row["sigalert_end"] = IF s = "sigalert end" THEN e ELSE o.row["sigalert_end"]
      /\ \A k \in {"first_call", "verification", "lanes_clear"} : q.row[k] = o.row[k]
      /\ q.open = IF s = "open" THEN e ELSE o.open
      /\ q.proxy = IF s \in {"info", "sigalert begin"} /\ o.proxy = None THEN e ELSE o.proxy

MeasureSet(o, q, e, m) ==
  /\ q.open = o.open /\ q.proxy = o.proxy
  /\ q.row["first_call"] = IF m = "first call" THEN e ELSE o.row["first_call"]
  /\ q.row["verification"] =
       IF m = "verification" /\ o.row["verification"] = None THEN e ELSE o.row["verification"]
  /\ q.row["lanes_clear"] = IF m = "lanes clear" THEN e ELSE o.row["lanes_clear"]
  /\ \A k \in {"sigalert_begin", "sigalert_end"} : q.row[k] = o.row[k]

MemoSet(o, q, e) ==
  LET says == log[e].memo
      clear == o.row["lanes_clear"] = None /\ (says = "clear" \/ log[e].subject = "close")
  IN  /\ q.open = o.open /\ q.proxy = o.proxy
      /\ o.row["sigalert_begin"] = None =>
           q.row["verification"] =
             IF o.row["verification"] = None /\ says = "visual" THEN e ELSE o.row["verification"]
      /\ q.row["lanes_clear"] = IF clear THEN e ELSE o.row["lanes_clear"]
      /\ \A k \in {"sigalert_begin", "sigalert_end", "first_call"} : q.row[k] = o.row[k]

FallbackSet(o, q) ==
  /\ q.row["first_call"] = IF o.row["first_call"] = None THEN o.open ELSE o.row["first_call"]
  /\ q.row["verification"] = IF o.row["verification"] = None THEN o.proxy ELSE o.row["verification"]
  /\ \A k \in {"sigalert_begin", "sigalert_end", "lanes_clear"} : q.row[k] = o.row[k]

(* One column is set; the others and what is kept aside are not touched,    *)
(* and a column that is not marked as changed was not changed.              *)
LEMMA SetFields ==
  ASSUME NEW o \in Objects, NEW col \in Columns, NEW e \in Entries \cup {None}
  PROVE  /\ Set(o, col, e) \in Objects
         /\ Set(o, col, e).open = o.open /\ Set(o, col, e).proxy = o.proxy
         /\ Set(o, col, e).row[col] = e
         /\ \A k \in Columns : k # col => Set(o, col, e).row[k] = o.row[k]
         /\ \A row : Unsaved(o, row) => Unsaved(Set(o, col, e), row)
<1> DEFINE q == Set(o, col, e)
<1>1. q = [o EXCEPT !.row[col] = e, !.dirty = IF o.row[col] = e THEN @ ELSE @ \cup {col}]
  BY DEF Set
<1>2. o = [row |-> o.row, dirty |-> o.dirty, open |-> o.open, proxy |-> o.proxy] /\ o.row \in Rows
  BY DEF Objects
<1>3. q \in Objects
  BY SetTyped
<1> HIDE DEF q
<1>4. /\ q.row = [o.row EXCEPT ![col] = e] /\ q.open = o.open /\ q.proxy = o.proxy
      /\ q.dirty = IF o.row[col] = e THEN o.dirty ELSE o.dirty \cup {col}
  BY <1>1, <1>2
<1>5. q.row[col] = e /\ \A k \in Columns : k # col => q.row[k] = o.row[k]
  BY <1>2, <1>4 DEF Rows
<1>6. ASSUME NEW row, Unsaved(o, row) PROVE Unsaved(q, row)
  BY <1>4, <1>5, <1>6 DEF Unsaved
<1> QED BY <1>3, <1>4, <1>5, <1>6 DEF q

(* Nothing clears sigalerts and first calls when a row is read.             *)
LEMMA ClearedFields ==
  ASSUME NEW row \in Rows, NEW q, q = Cleared(row)
  PROVE  /\ q \in Objects /\ q.open = None /\ q.proxy = None
         /\ q.row["verification"] = None /\ q.row["lanes_clear"] = None
         /\ \A k \in {"sigalert_begin", "sigalert_end", "first_call"} : q.row[k] = row[k]
         /\ Unsaved(q, row)
<1> DEFINE read == [row |-> row, dirty |-> {}, open |-> None, proxy |-> None]
           unverified == Set(read, "verification", None)
<1>1. read \in Objects /\ Unsaved(read, row) /\ read.open = None /\ read.proxy = None /\ read.row = row
  BY DEF Objects, Unsaved
<1>2. "verification" \in Columns /\ "lanes_clear" \in Columns /\ None \in Entries \cup {None}
  BY DEF Columns
<1>3. q = Set(unverified, "lanes_clear", None)
  BY DEF Cleared, ClearedVerification
<1> HIDE DEF read
<1>4. /\ unverified \in Objects /\ unverified.open = None /\ unverified.proxy = None
      /\ unverified.row["verification"] = None
      /\ \A k \in Columns : k # "verification" => unverified.row[k] = row[k]
      /\ Unsaved(unverified, row)
  BY <1>1, <1>2, SetFields
<1> HIDE DEF unverified
<1>5. /\ q \in Objects /\ q.open = None /\ q.proxy = None /\ q.row["lanes_clear"] = None
      /\ \A k \in Columns : k # "lanes_clear" => q.row[k] = unverified.row[k]
      /\ Unsaved(q, row)
  BY <1>2, <1>3, <1>4, SetFields
<1> QED BY <1>4, <1>5 DEF Columns

(* The columns of WithSubject.                                              *)
LEMMA SubjectFields ==
  ASSUME NEW o \in Objects, NEW e \in Entries, NEW q, q = WithSubject(o, e)
  PROVE  q \in Objects /\ SubjectSet(o, q, e) /\ \A row : Unsaved(o, row) => Unsaved(q, row)
<1> DEFINE s == log[e].subject
           begun == SetIf(s = "sigalert begin", o, "sigalert_begin", e)
           ended == SetIf(s = "sigalert end", begun, "sigalert_end", e)
<1>1. "sigalert_begin" \in Columns /\ "sigalert_end" \in Columns /\ e \in Entries \cup {None}
  BY DEF Columns
<1>8. begun = IF s = "sigalert begin" THEN Set(o, "sigalert_begin", e) ELSE o
  BY DEF SetIf
<1>9. ended = IF s = "sigalert end" THEN Set(begun, "sigalert_end", e) ELSE begun
  BY DEF SetIf
<1>2. /\ begun \in Objects /\ begun.open = o.open /\ begun.proxy = o.proxy
      /\ begun.row["sigalert_begin"] = IF s = "sigalert begin" THEN e ELSE o.row["sigalert_begin"]
      /\ \A k \in Columns : k # "sigalert_begin" => begun.row[k] = o.row[k]
      /\ \A row : Unsaved(o, row) => Unsaved(begun, row)
  <2> HIDE DEF s, begun
  <2> QED BY <1>1, <1>8, SetFields
<1>3. q = [ended EXCEPT !.open = IF s = "open" THEN e ELSE @,
                        !.proxy = IF s \in {"info", "sigalert begin"} /\ @ = None THEN e ELSE @]
  BY DEF WithSubject
<1> HIDE DEF begun, ended, s
<1>4. /\ ended \in Objects /\ ended.open = o.open /\ ended.proxy = o.proxy
      /\ ended.row["sigalert_end"] = IF s = "sigalert end" THEN e ELSE begun.row["sigalert_end"]
      /\ \A k \in Columns : k # "sigalert_end" => ended.row[k] = begun.row[k]
      /\ \A row : Unsaved(begun, row) => Unsaved(ended, row)
  BY <1>1, <1>2, <1>9, SetFields
<1>5. /\ q.row = ended.row /\ q.dirty = ended.dirty
      /\ q.open = IF s = "open" THEN e ELSE o.open
      /\ q.proxy = IF s \in {"info", "sigalert begin"} /\ o.proxy = None THEN e ELSE o.proxy
  <2>1. ended = [row |-> ended.row, dirty |-> ended.dirty, open |-> ended.open, proxy |-> ended.proxy]
    BY <1>4 DEF Objects
  <2> QED BY <1>3, <1>4, <2>1
<1>6. ASSUME NEW row, Unsaved(o, row) PROVE Unsaved(q, row)
  <2>1. Unsaved(ended, row)
    BY <1>2, <1>4, <1>6
  <2> QED BY <1>5, <2>1 DEF Unsaved
<1>7. q \in Objects
  BY SubjectTyped
<1> QED BY <1>2, <1>4, <1>5, <1>6, <1>7 DEF SubjectSet, Columns, s

(* The columns of WithMeasure.                                              *)
LEMMA MeasureFields ==
  ASSUME NEW o \in Objects, NEW e \in Entries, NEW m, NEW q, q = WithMeasure(o, e, m)
  PROVE  q \in Objects /\ MeasureSet(o, q, e, m) /\ \A row : Unsaved(o, row) => Unsaved(q, row)
<1> DEFINE called == SetIf(m = "first call", o, "first_call", e)
           verified == SetIf(m = "verification" /\ ~Has(o, "verification"), called, "verification", e)
<1>1. /\ "first_call" \in Columns /\ "verification" \in Columns /\ "lanes_clear" \in Columns
      /\ e \in Entries \cup {None}
  BY DEF Columns
<1> DEFINE clears == m = "lanes clear"
<1>3. q = IF clears THEN Set(verified, "lanes_clear", e) ELSE verified
  BY DEF WithMeasure, SetIf
<1>7. called = IF m = "first call" THEN Set(o, "first_call", e) ELSE o
  BY DEF SetIf
<1>8. verified = IF m = "verification" /\ o.row["verification"] = None
                 THEN Set(called, "verification", e) ELSE called
  BY DEF SetIf, Has
<1> HIDE DEF called, verified, clears
<1>2. /\ called \in Objects /\ called.open = o.open /\ called.proxy = o.proxy
      /\ called.row["first_call"] = IF m = "first call" THEN e ELSE o.row["first_call"]
      /\ \A k \in Columns : k # "first_call" => called.row[k] = o.row[k]
      /\ \A row : Unsaved(o, row) => Unsaved(called, row)
  BY <1>1, <1>7, SetFields
<1>4. /\ verified \in Objects /\ verified.open = o.open /\ verified.proxy = o.proxy
      /\ verified.row["verification"] =
           IF m = "verification" /\ o.row["verification"] = None THEN e ELSE called.row["verification"]
      /\ \A k \in Columns : k # "verification" => verified.row[k] = called.row[k]
      /\ \A row : Unsaved(called, row) => Unsaved(verified, row)
  BY <1>1, <1>2, <1>8, SetFields
<1>9. verified \in Objects
  BY <1>4
<1>5. /\ q \in Objects /\ q.open = verified.open /\ q.proxy = verified.proxy
      /\ q.row["lanes_clear"] = IF clears THEN e ELSE verified.row["lanes_clear"]
      /\ \A k \in Columns : k # "lanes_clear" => q.row[k] = verified.row[k]
  BY <1>1, <1>3, <1>9, SetFields
<1>10. \A row : Unsaved(verified, row) => Unsaved(q, row)
  BY <1>1, <1>3, <1>9, SetFields
<1>6. \A row : Unsaved(o, row) => Unsaved(q, row)
  BY <1>2, <1>4, <1>10
<1> QED BY <1>2, <1>4, <1>5, <1>6 DEF MeasureSet, Columns, clears

(* The columns of WithMemo.                                                 *)
LEMMA MemoFields ==
  ASSUME NEW o \in Objects, NEW e \in Entries, NEW q, q = WithMemo(o, e)
  PROVE  q \in Objects /\ MemoSet(o, q, e) /\ \A row : Unsaved(o, row) => Unsaved(q, row)
<1> DEFINE says == log[e].memo
           clear == o.row["lanes_clear"] = None /\ (says = "clear" \/ log[e].subject = "close")
           sees == o.row["verification"] = None /\ says = "visual"
           begin == o.row["sigalert_begin"]
           seen == SetIf(~Has(o, "verification") /\ says = "visual", o, "verification", e)
           alert == SetIf(~Has(seen, "verification") /\ Has(o, "sigalert_begin"), seen, "verification", begin)
<1>1. /\ "verification" \in Columns /\ "lanes_clear" \in Columns
      /\ e \in Entries \cup {None} /\ begin \in Entries \cup {None}
  BY DEF Columns, Objects, Rows
<1>2. q = IF clear THEN Set(alert, "lanes_clear", e) ELSE alert
  BY DEF WithMemo, SetIf, Has
<1>3. seen = IF sees THEN Set(o, "verification", e) ELSE o
  BY DEF SetIf, Has
<1>4. alert = seen \/ (alert = Set(seen, "verification", begin) /\ begin # None)
  BY DEF SetIf, Has
<1> HIDE DEF seen, alert, sees, clear, begin
<1>5. /\ seen \in Objects /\ seen.open = o.open /\ seen.proxy = o.proxy
      /\ seen.row["verification"] = IF sees THEN e ELSE o.row["verification"]
      /\ \A k \in Columns : k # "verification" => seen.row[k] = o.row[k]
      /\ \A row : Unsaved(o, row) => Unsaved(seen, row)
  BY <1>1, <1>3, SetFields
<1>11. seen \in Objects
  BY <1>5
<1>6. /\ alert \in Objects /\ alert.open = seen.open /\ alert.proxy = seen.proxy
      /\ begin = None => alert.row["verification"] = seen.row["verification"]
      /\ \A k \in Columns : k # "verification" => alert.row[k] = seen.row[k]
  <2>1. CASE alert = seen
    BY <1>11, <2>1
  <2>2. CASE alert = Set(seen, "verification", begin) /\ begin # None
    BY <1>1, <1>11, <2>2, SetFields
  <2> QED BY <1>4, <2>1, <2>2
<1>12. \A row : Unsaved(seen, row) => Unsaved(alert, row)
  BY <1>1, <1>4, <1>11, SetFields
<1>7. /\ q \in Objects /\ q.open = alert.open /\ q.proxy = alert.proxy
      /\ q.row["lanes_clear"] = IF clear THEN e ELSE alert.row["lanes_clear"]
      /\ \A k \in Columns : k # "lanes_clear" => q.row[k] = alert.row[k]
      /\ \A row : Unsaved(alert, row) => Unsaved(q, row)
  BY <1>1, <1>2, <1>6, SetFields
<1>8. \A row : Unsaved(o, row) => Unsaved(q, row)
  BY <1>5, <1>7, <1>12
<1>9. begin = None => q.row["verification"] = IF sees THEN e ELSE o.row["verification"]
  BY <1>1, <1>5, <1>6, <1>7
<1>10. /\ q.row["lanes_clear"] = IF clear THEN e ELSE o.row["lanes_clear"]
       /\ \A k \in {"sigalert_begin", "sigalert_end", "first_call"} : q.row[k] = o.row[k]
  BY <1>5, <1>6, <1>7 DEF Columns
<1> QED BY <1>5, <1>6, <1>7, <1>8, <1>9, <1>10 DEF MemoSet, clear, sees, begin, says

(* The columns of WithFallbacks.                                            *)
LEMMA FallbackFields ==
  ASSUME NEW o \in Objects, NEW q, q = WithFallbacks(o)
  PROVE  q \in Objects /\ FallbackSet(o, q) /\ \A row : Unsaved(o, row) => Unsaved(q, row)
<1> DEFINE calls == o.row["first_call"] = None /\ o.open # None
           verifies == o.row["verification"] = None /\ o.proxy # None
           called == SetIf(~Has(o, "first_call") /\ o.open # None, o, "first_call", o.open)
<1>1. /\ "first_call" \in Columns /\ "verification" \in Columns
      /\ o.open \in Entries \cup {None} /\ o.proxy \in Entries \cup {None}
  BY DEF Columns, Objects
<1>2. q = IF verifies THEN Set(called, "verification", o.proxy) ELSE called
  BY DEF WithFallbacks, SetIf, Has
<1>3. called = IF calls THEN Set(o, "first_call", o.open) ELSE o
  BY DEF SetIf, Has
<1> HIDE DEF calls, verifies, called
<1>4. /\ called \in Objects /\ called.proxy = o.proxy
      /\ called.row["first_call"] = IF calls THEN o.open ELSE o.row["first_call"]
      /\ \A k \in Columns : k # "first_call" => called.row[k] = o.row[k]
      /\ \A row : Unsaved(o, row) => Unsaved(called, row)
  BY <1>1, <1>3, SetFields
<1>6. called \in Objects
  BY <1>4
<1>5. /\ q \in Objects
      /\ q.row["verification"] = IF verifies THEN o.proxy ELSE called.row["verification"]
      /\ \A k \in Columns : k # "verification" => q.row[k] = called.row[k]
      /\ \A row : Unsaved(called, row) => Unsaved(q, row)
  BY <1>1, <1>2, <1>6, SetFields
<1> QED BY <1>4, <1>5 DEF FallbackSet, Columns, calls, verifies

-----------------------------------------------------------------------------
(* One more entry, or one more measure of an entry.                         *)

(* The last of a set and one that is not before it.                         *)
LEMMA LatestNext ==
  ASSUME NEW T \in SUBSET Nat, NEW U, NEW e \in Nat, \A y \in T : y <= e
  PROVE  Latest(e, T \cup {e}, U)
BY DEF Latest, IsLast

(* The first of a set stays the first.                                      *)
LEMMA EarliestNext ==
  ASSUME NEW T \in SUBSET Nat, NEW x, NEW e \in Nat, \A y \in T : y <= e, None \notin T,
         Earliest(x, T)
  PROVE  Earliest(IF x = None THEN e ELSE x, T \cup {e})
<1>1. CASE T = {}
  BY <1>1 DEF Earliest, IsFirst
<1>2. CASE T # {}
  BY <1>2 DEF Earliest, IsFirst
<1> QED BY <1>1, <1>2

(* Reading one more entry, by subject, by memo and by measure.              *)
LEMMA SubjectsMore ==
  ASSUME NEW D, NEW e, NEW s
  PROVE  Subjects(log, D \cup {e}, s) =
           IF log[e].subject = s THEN Subjects(log, D, s) \cup {e} ELSE Subjects(log, D, s)
BY DEF Subjects

LEMMA MemosMore ==
  ASSUME NEW D, NEW e, NEW m
  PROVE  Memos(log, D \cup {e}, m) =
           IF log[e].memo = m THEN Memos(log, D, m) \cup {e} ELSE Memos(log, D, m)
BY DEF Memos

(* The subject of the next entry.                                           *)
LEMMA SubjectGathered ==
  ASSUME NEW o \in Objects, NEW W \in SUBSET Entries, NEW D \in SUBSET W, NEW e \in W,
         \A x \in D : x < e, NEW F, NEW V, NEW L, Gathered(log, o, W, D, F, V, L, D)
  PROVE  Gathered(log, WithSubject(o, e), W, D \cup {e}, F, V, L, D)
<1> DEFINE q == WithSubject(o, e)
           s == log[e].subject
           begins == Subjects(log, D, "sigalert begin")
           ends == Subjects(log, D, "sigalert end")
           opens == Subjects(log, D, "open")
           infos == Subjects(log, D, "info")
           before == infos \cup begins
<1>1. /\ e \in Entries /\ e \in Nat /\ e # None
      /\ \A T : Subjects(log, D, T) \in SUBSET Nat /\ None \notin Subjects(log, D, T)
                /\ \A y \in Subjects(log, D, T) : y <= e
  <2>1. Entries \subseteq Nat /\ None \notin Entries
    BY ImportAssumption
  <2>2. e \in Nat /\ \A y \in D : y \in Nat /\ y # None /\ y <= e
    BY <2>1
  <2>3. \A T : Subjects(log, D, T) \subseteq D
    BY DEF Subjects
  <2> QED BY <2>1, <2>2, <2>3
<1>2. /\ q.row["sigalert_begin"] = IF s = "sigalert begin" THEN e ELSE o.row["sigalert_begin"]
      /\ q.row["sigalert_end"] = IF s = "sigalert end" THEN e ELSE o.row["sigalert_end"]
      /\ q.row["first_call"] = o.row["first_call"] /\ q.row["verification"] = o.row["verification"]
      /\ q.row["lanes_clear"] = o.row["lanes_clear"]
      /\ q.open = IF s = "open" THEN e ELSE o.open
      /\ q.proxy = IF s \in {"info", "sigalert begin"} /\ o.proxy = None THEN e ELSE o.proxy
  <2>1. q = WithSubject(o, e)
    OBVIOUS
  <2> HIDE DEF q
  <2>0. SubjectSet(o, q, e)
    BY <1>1, <2>1, SubjectFields
  <2>2. \A k \in {"first_call", "verification", "lanes_clear"} : q.row[k] = o.row[k]
    BY <2>0 DEF SubjectSet
  <2>3. q.row["sigalert_begin"] = IF s = "sigalert begin" THEN e ELSE o.row["sigalert_begin"]
    BY <2>0 DEF SubjectSet
  <2>4. q.row["sigalert_end"] = IF s = "sigalert end" THEN e ELSE o.row["sigalert_end"]
    BY <2>0 DEF SubjectSet
  <2>5. q.open = IF s = "open" THEN e ELSE o.open
    BY <2>0 DEF SubjectSet
  <2>6. q.proxy = IF s \in {"info", "sigalert begin"} /\ o.proxy = None THEN e ELSE o.proxy
    BY <2>0 DEF SubjectSet
  <2> HIDE DEF s
  <2> QED BY <2>2, <2>3, <2>4, <2>5, <2>6
<1>3. /\ Subjects(log, D \cup {e}, "sigalert begin") = IF s = "sigalert begin" THEN begins \cup {e} ELSE begins
      /\ Subjects(log, D \cup {e}, "sigalert end") = IF s = "sigalert end" THEN ends \cup {e} ELSE ends
      /\ Subjects(log, D \cup {e}, "open") = IF s = "open" THEN opens \cup {e} ELSE opens
      /\ Subjects(log, D \cup {e}, "info") = IF s = "info" THEN infos \cup {e} ELSE infos
  BY SubjectsMore, Zenon
<1>4. Alerts(log, o.row, W, D) /\ Aside(log, o, D) /\ Calls(log, o.row, W, F)
      /\ Verifies(log, o.row, W, V, D) /\ Clears(log, o.row, L, D)
  BY DEF Gathered
<1> HIDE DEF q, s, begins, ends, opens, infos
<1>5. Alerts(log, q.row, W, D \cup {e})
  <2>1. Latest(q.row["sigalert_begin"], Subjects(log, D \cup {e}, "sigalert begin"),
               Subjects(log, W, "sigalert begin"))
    <3>1. Latest(o.row["sigalert_begin"], begins, Subjects(log, W, "sigalert begin"))
      BY <1>4 DEF Alerts, begins
    <3>2. Latest(e, begins \cup {e}, Subjects(log, W, "sigalert begin"))
      BY <1>1, LatestNext DEF begins
    <3> QED BY <1>2, <1>3, <3>1, <3>2
  <2>2. Latest(q.row["sigalert_end"], Subjects(log, D \cup {e}, "sigalert end"),
               Subjects(log, W, "sigalert end"))
    <3>1. Latest(o.row["sigalert_end"], ends, Subjects(log, W, "sigalert end"))
      BY <1>4 DEF Alerts, ends
    <3>2. Latest(e, ends \cup {e}, Subjects(log, W, "sigalert end"))
      BY <1>1, LatestNext DEF ends
    <3> QED BY <1>2, <1>3, <3>1, <3>2
  <2> QED BY <2>1, <2>2 DEF Alerts
<1>6. Aside(log, q, D \cup {e})
  <2>1. /\ IF opens = {} THEN o.open = None ELSE o.open \in opens
        /\ Earliest(o.proxy, before)
    BY <1>4 DEF Aside, opens, infos, begins
  <2>2. IF Subjects(log, D \cup {e}, "open") = {} THEN q.open = None
        ELSE q.open \in Subjects(log, D \cup {e}, "open")
    <3>1. CASE s = "open"
      BY <1>2, <1>3, <3>1
    <3>2. CASE s # "open"
      <4>1. Subjects(log, D \cup {e}, "open") = opens /\ q.open = o.open
        BY <1>2, <1>3, <3>2
      <4> QED BY <2>1, <4>1, Zenon
    <3> QED BY <3>1, <3>2
  <2>3. Earliest(IF o.proxy = None THEN e ELSE o.proxy, before \cup {e})
    <3>1. before \in SUBSET Nat /\ None \notin before /\ \A y \in before : y <= e
      BY <1>1 DEF infos, begins
    <3> HIDE DEF before
    <3> QED BY <1>1, <2>1, <3>1, EarliestNext
  <2>4. Earliest(q.proxy, Subjects(log, D \cup {e}, "info") \cup Subjects(log, D \cup {e}, "sigalert begin"))
    <3>1. CASE s = "info" \/ s = "sigalert begin"
      <4>1. Subjects(log, D \cup {e}, "info") \cup Subjects(log, D \cup {e}, "sigalert begin")
              = before \cup {e}
        BY <1>3, <3>1
      <4>2. q.proxy = IF o.proxy = None THEN e ELSE o.proxy
        BY <1>2, <3>1
      <4> QED BY <2>3, <4>1, <4>2
    <3>2. CASE ~(s = "info" \/ s = "sigalert begin")
      <4>1. Subjects(log, D \cup {e}, "info") \cup Subjects(log, D \cup {e}, "sigalert begin") = before
        BY <1>3, <3>2
      <4>2. q.proxy = o.proxy
        BY <1>2, <3>2
      <4> QED BY <2>1, <4>1, <4>2
    <3> QED BY <3>1, <3>2
  <2> QED BY <2>2, <2>4 DEF Aside
<1>7. Calls(log, q.row, W, F) /\ Verifies(log, q.row, W, V, D) /\ Clears(log, q.row, L, D)
  BY <1>2, <1>4 DEF Calls, Verifies, Clears
<1> QED BY <1>5, <1>6, <1>7 DEF Gathered, q

(* The next measure of an entry: it is one more of those with that measure. *)
LEMMA MeasureGathered ==
  ASSUME NEW o \in Objects, NEW W \in SUBSET Entries, NEW S, NEW D \in SUBSET W,
         NEW e \in W, \A x \in D : x < e, NEW m,
         NEW F \in SUBSET W, NEW V \in SUBSET W, NEW L \in SUBSET W,
         \A x \in F \cup V \cup L : x <= e, Gathered(log, o, W, S, F, V, L, D)
  PROVE  Gathered(log, WithMeasure(o, e, m), W, S,
                  IF m = "first call" THEN F \cup {e} ELSE F,
                  IF m = "verification" THEN V \cup {e} ELSE V,
                  IF m = "lanes clear" THEN L \cup {e} ELSE L, D)
<1> DEFINE q == WithMeasure(o, e, m)
           U == Said(log, W, "first call") \cup Subjects(log, W, "open")
           verify == V \cup Memos(log, D, "visual")
<1>1. /\ e \in Entries /\ e \in Nat /\ e # None /\ W \in SUBSET Nat /\ None \notin W
      /\ F \in SUBSET Nat /\ L \in SUBSET Nat
  BY ImportAssumption
<1>8. ASSUME NEW y \in D PROVE y \in Nat /\ y <= e
  <2>1. y \in Nat /\ e \in Nat /\ y < e
    BY <1>1
  <2> QED BY <2>1
<1>2. /\ q.open = o.open /\ q.proxy = o.proxy
      /\ q.row["first_call"] = IF m = "first call" THEN e ELSE o.row["first_call"]
      /\ q.row["verification"] =
           IF m = "verification" /\ o.row["verification"] = None THEN e ELSE o.row["verification"]
      /\ q.row["lanes_clear"] = IF m = "lanes clear" THEN e ELSE o.row["lanes_clear"]
      /\ q.row["sigalert_begin"] = o.row["sigalert_begin"]
      /\ q.row["sigalert_end"] = o.row["sigalert_end"]
  <2>1. q = WithMeasure(o, e, m)
    OBVIOUS
  <2> HIDE DEF q
  <2>0. MeasureSet(o, q, e, m)
    BY <1>1, <2>1, MeasureFields
  <2>2. q.open = o.open /\ q.proxy = o.proxy
    BY <2>0 DEF MeasureSet
  <2>3. \A k \in {"sigalert_begin", "sigalert_end"} : q.row[k] = o.row[k]
    BY <2>0 DEF MeasureSet
  <2>4. q.row["first_call"] = IF m = "first call" THEN e ELSE o.row["first_call"]
    BY <2>0 DEF MeasureSet
  <2>5. q.row["verification"] =
          IF m = "verification" /\ o.row["verification"] = None THEN e ELSE o.row["verification"]
    BY <2>0 DEF MeasureSet
  <2>6. q.row["lanes_clear"] = IF m = "lanes clear" THEN e ELSE o.row["lanes_clear"]
    BY <2>0 DEF MeasureSet
  <2>7. q.row["sigalert_begin"] = o.row["sigalert_begin"] /\ q.row["sigalert_end"] = o.row["sigalert_end"]
    BY <2>3
  <2> QED BY <2>2, <2>4, <2>5, <2>6, <2>7, Zenon
<1>3. Alerts(log, o.row, W, S) /\ Aside(log, o, S) /\ Calls(log, o.row, W, F)
      /\ Verifies(log, o.row, W, V, D) /\ Clears(log, o.row, L, D)
  BY DEF Gathered
<1> HIDE DEF q
<1>4. Alerts(log, q.row, W, S) /\ Aside(log, q, S)
  BY <1>2, <1>3 DEF Alerts, Aside
<1>5. Calls(log, q.row, W, IF m = "first call" THEN F \cup {e} ELSE F)
  <2>1. Latest(o.row["first_call"], F, U)
    BY <1>3 DEF Calls
  <2>2. Latest(e, F \cup {e}, U)
    <3>1. \A y \in F : y <= e
      OBVIOUS
    <3> HIDE DEF U
    <3> QED BY <1>1, <3>1, LatestNext
  <2> QED BY <1>2, <2>1, <2>2 DEF Calls
<1>6. Verifies(log, q.row, W, IF m = "verification" THEN V \cup {e} ELSE V, D)
  <2> SUFFICES ASSUME Subjects(log, W, "sigalert begin") = {}
               PROVE  Earliest(q.row["verification"],
                               (IF m = "verification" THEN V \cup {e} ELSE V) \cup Memos(log, D, "visual"))
    BY DEF Verifies
  <2>1. Earliest(o.row["verification"], verify)
    BY <1>3 DEF Verifies
  <2>2. verify \in SUBSET Nat /\ None \notin verify /\ \A y \in verify : y <= e
    <3>1. Memos(log, D, "visual") \subseteq D
      BY DEF Memos
    <3>2. \A y \in D : y \in Nat /\ y <= e /\ y # None
      BY <1>1, <1>8
    <3>3. \A y \in V : y \in Nat /\ y <= e /\ y # None
      BY <1>1
    <3> QED BY <3>1, <3>2, <3>3
  <2>3. Earliest(IF o.row["verification"] = None THEN e ELSE o.row["verification"], verify \cup {e})
    <3> HIDE DEF verify
    <3> QED BY <1>1, <2>1, <2>2, EarliestNext
  <2>4. CASE m = "verification"
    <3>1. (V \cup {e}) \cup Memos(log, D, "visual") = verify \cup {e}
      OBVIOUS
    <3> QED BY <1>2, <2>3, <2>4, <3>1
  <2>5. CASE m # "verification"
    BY <1>2, <2>1, <2>5
  <2> QED BY <2>4, <2>5
<1>7. Clears(log, q.row, IF m = "lanes clear" THEN L \cup {e} ELSE L, D)
  <2>1. CASE m = "lanes clear"
    <3>1. IsLast(e, L \cup {e})
      BY <1>1 DEF IsLast
    <3> QED BY <1>2, <2>1, <3>1 DEF Clears
  <2>2. CASE m # "lanes clear"
    BY <1>2, <1>3, <2>2 DEF Clears
  <2> QED BY <2>1, <2>2
<1> QED BY <1>4, <1>5, <1>6, <1>7 DEF Gathered, q

(* The memo of an entry whose subject and measures have been read.          *)
LEMMA MemoGathered ==
  ASSUME NEW o \in Objects, NEW W \in SUBSET Entries, NEW S \in SUBSET W,
         NEW D \in SUBSET W, NEW e \in W, \A x \in D : x < e,
         NEW F \in SUBSET W, NEW V \in SUBSET W, NEW L \in SUBSET W,
         \A x \in V : x <= e, Gathered(log, o, W, S, F, V, L, D)
  PROVE  Gathered(log, WithMemo(o, e), W, S, F, V, L, D \cup {e})
<1> DEFINE q == WithMemo(o, e)
           says == log[e].memo
           over == log[e].memo = "clear" \/ log[e].subject = "close"
           verify == V \cup Memos(log, D, "visual")
           clear == Memos(log, D, "clear") \cup Subjects(log, D, "close")
<1>1. /\ e \in Entries /\ e \in Nat /\ e # None /\ W \in SUBSET Nat /\ None \notin W
      /\ \A y \in D : y \in Nat /\ y <= e
  <2>1. Entries \subseteq Nat /\ None \notin Entries /\ e \in Entries /\ D \subseteq Entries
    BY ImportAssumption
  <2>2. ASSUME NEW y \in D PROVE y \in Nat /\ y <= e
    <3>1. y \in Nat /\ e \in Nat /\ y < e
      BY <2>1
    <3> QED BY <3>1
  <2> QED BY <2>1, <2>2
<1>2. /\ q.open = o.open /\ q.proxy = o.proxy
      /\ o.row["sigalert_begin"] = None =>
           q.row["verification"] =
             IF o.row["verification"] = None /\ says = "visual" THEN e ELSE o.row["verification"]
      /\ q.row["lanes_clear"] = IF o.row["lanes_clear"] = None /\ over THEN e ELSE o.row["lanes_clear"]
      /\ q.row["sigalert_begin"] = o.row["sigalert_begin"]
      /\ q.row["sigalert_end"] = o.row["sigalert_end"] /\ q.row["first_call"] = o.row["first_call"]
  <2>1. q = WithMemo(o, e)
    OBVIOUS
  <2> HIDE DEF q
  <2>0. MemoSet(o, q, e)
    BY <1>1, <2>1, MemoFields
  <2>2. q.open = o.open /\ q.proxy = o.proxy
    BY <2>0 DEF MemoSet
  <2>3. \A k \in {"sigalert_begin", "sigalert_end", "first_call"} : q.row[k] = o.row[k]
    BY <2>0 DEF MemoSet
  <2>4. o.row["sigalert_begin"] = None =>
          q.row["verification"] =
            IF o.row["verification"] = None /\ says = "visual" THEN e ELSE o.row["verification"]
    BY <2>0 DEF MemoSet
  <2>5. q.row["lanes_clear"] = IF o.row["lanes_clear"] = None /\ over THEN e ELSE o.row["lanes_clear"]
    BY <2>0 DEF MemoSet
  <2>6. /\ q.row["sigalert_begin"] = o.row["sigalert_begin"]
        /\ q.row["sigalert_end"] = o.row["sigalert_end"] /\ q.row["first_call"] = o.row["first_call"]
    BY <2>3
  <2> QED BY <2>2, <2>4, <2>5, <2>6, Zenon
<1>3. Alerts(log, o.row, W, S) /\ Aside(log, o, S) /\ Calls(log, o.row, W, F)
      /\ Verifies(log, o.row, W, V, D) /\ Clears(log, o.row, L, D)
  BY DEF Gathered
<1> HIDE DEF q
<1>4. Alerts(log, q.row, W, S) /\ Aside(log, q, S) /\ Calls(log, q.row, W, F)
  BY <1>2, <1>3 DEF Alerts, Aside, Calls
<1>5. /\ Memos(log, D, "visual") \subseteq D /\ Memos(log, D, "clear") \subseteq D
      /\ Subjects(log, D, "close") \subseteq D
  BY DEF Memos, Subjects
<1>6. Verifies(log, q.row, W, V, D \cup {e})
  <2> SUFFICES ASSUME Subjects(log, W, "sigalert begin") = {}
               PROVE  Earliest(q.row["verification"], V \cup Memos(log, D \cup {e}, "visual"))
    BY DEF Verifies
  <2>1. Earliest(o.row["verification"], verify)
    BY <1>3 DEF Verifies
  <2>2. o.row["sigalert_begin"] = None
    <3>1. Subjects(log, S, "sigalert begin") = {}
      BY DEF Subjects
    <3> QED BY <1>3, <3>1 DEF Alerts, Latest
  <2>3. verify \in SUBSET Nat /\ None \notin verify /\ \A y \in verify : y <= e
    BY <1>1, <1>5
  <2>4. Memos(log, D \cup {e}, "visual") =
          IF says = "visual" THEN Memos(log, D, "visual") \cup {e} ELSE Memos(log, D, "visual")
    BY MemosMore, Zenon
  <2>5. CASE says = "visual"
    <3>1. V \cup Memos(log, D \cup {e}, "visual") = verify \cup {e}
      BY <2>4, <2>5
    <3>2. Earliest(IF o.row["verification"] = None THEN e ELSE o.row["verification"], verify \cup {e})
      <4> HIDE DEF verify
      <4> QED BY <1>1, <2>1, <2>3, EarliestNext
    <3>3. q.row["verification"] = IF o.row["verification"] = None THEN e ELSE o.row["verification"]
      BY <1>2, <2>2, <2>5
    <3> QED BY <3>1, <3>2, <3>3
  <2>6. CASE says # "visual"
    <3>1. V \cup Memos(log, D \cup {e}, "visual") = verify
      BY <2>4, <2>6
    <3>2. q.row["verification"] = o.row["verification"]
      BY <1>2, <2>2, <2>6
    <3> QED BY <2>1, <3>1, <3>2
  <2> QED BY <2>5, <2>6
<1>7. Clears(log, q.row, L, D \cup {e})
  <2>1. CASE L # {}
    <3>1. IsLast(o.row["lanes_clear"], L)
      BY <1>3, <2>1 DEF Clears
    <3>2. o.row["lanes_clear"] # None
      BY <1>1, <3>1 DEF IsLast
    <3> QED BY <1>2, <2>1, <3>1, <3>2 DEF Clears
  <2>2. CASE L = {}
    <3>1. Earliest(o.row["lanes_clear"], clear)
      BY <1>3, <2>2 DEF Clears
    <3>2. clear \in SUBSET Nat /\ None \notin clear /\ \A y \in clear : y <= e
      BY <1>1, <1>5
    <3>3. Earliest(IF o.row["lanes_clear"] = None THEN e ELSE o.row["lanes_clear"], clear \cup {e})
      <4> HIDE DEF clear
      <4> QED BY <1>1, <3>1, <3>2, EarliestNext
    <3>4. Memos(log, D \cup {e}, "clear") \cup Subjects(log, D \cup {e}, "close") =
            IF over THEN clear \cup {e} ELSE clear
      <4>1. /\ Memos(log, D \cup {e}, "clear") =
                 IF says = "clear" THEN Memos(log, D, "clear") \cup {e} ELSE Memos(log, D, "clear")
            /\ Subjects(log, D \cup {e}, "close") =
                 IF log[e].subject = "close" THEN Subjects(log, D, "close") \cup {e}
                 ELSE Subjects(log, D, "close")
        <5>1. Memos(log, D \cup {e}, "clear") =
                IF says = "clear" THEN Memos(log, D, "clear") \cup {e} ELSE Memos(log, D, "clear")
          BY MemosMore, Zenon
        <5>2. Subjects(log, D \cup {e}, "close") =
                IF log[e].subject = "close" THEN Subjects(log, D, "close") \cup {e}
                ELSE Subjects(log, D, "close")
          BY SubjectsMore, Zenon
        <5> QED BY <5>1, <5>2
      <4> QED BY <4>1
    <3>5. Earliest(q.row["lanes_clear"], IF over THEN clear \cup {e} ELSE clear)
      <4> HIDE DEF clear, over
      <4> QED BY <1>2, <3>1, <3>3
    <3> QED BY <2>2, <3>4, <3>5 DEF Clears
  <2> QED BY <2>1, <2>2
<1> QED BY <1>4, <1>6, <1>7 DEF Gathered, q

-----------------------------------------------------------------------------
(* The columns that no scan clears.                                         *)

(* A longer log has what a shorter one has.                                 *)
LEMMA FromMore ==
  ASSUME NEW W, NEW U, W \subseteq U
  PROVE  /\ \A row : RowFrom(log, row, W) => RowFrom(log, row, U)
         /\ \A o : ObjectFrom(log, o, W) => ObjectFrom(log, o, U)
<1>1. /\ \A s : Subjects(log, W, s) \subseteq Subjects(log, U, s)
      /\ \A m : Said(log, W, m) \subseteq Said(log, U, m)
  BY DEF Subjects, Said
<1>2. ASSUME NEW row, RowFrom(log, row, W) PROVE RowFrom(log, row, U)
  BY <1>1, <1>2 DEF RowFrom
<1>3. ASSUME NEW o, ObjectFrom(log, o, W) PROVE ObjectFrom(log, o, U)
  BY <1>1, <1>2, <1>3 DEF ObjectFrom
<1> QED BY <1>2, <1>3

(* A row is opened: nothing is read yet.                                    *)
LEMMA OpenedObject ==
  ASSUME NEW W \in SUBSET Entries, NEW row \in Rows, RowFrom(log, row, W), NEW e \in Entries,
         NEW q, q = Set(Cleared(row), "start_time", e)
  PROVE  /\ q \in Objects /\ Unsaved(q, row) /\ ObjectFrom(log, q, W)
         /\ Gathered(log, q, W, {}, {}, {}, {}, {})
<1> DEFINE o == Cleared(row)
<1>1. /\ o \in Objects /\ o.open = None /\ o.proxy = None
      /\ o.row["verification"] = None /\ o.row["lanes_clear"] = None
      /\ \A k \in {"sigalert_begin", "sigalert_end", "first_call"} : o.row[k] = row[k]
      /\ Unsaved(o, row)
  BY ClearedFields
<1>2. "start_time" \in Columns /\ e \in Entries \cup {None}
  BY DEF Columns
<1>3. q = Set(o, "start_time", e)
  OBVIOUS
<1> HIDE DEF o
<1>4. /\ q \in Objects /\ q.open = None /\ q.proxy = None
      /\ \A k \in Columns : k # "start_time" => q.row[k] = o.row[k]
      /\ Unsaved(q, row)
  BY <1>1, <1>2, <1>3, SetFields
<1>5. /\ q.row["verification"] = None /\ q.row["lanes_clear"] = None
      /\ q.row["sigalert_begin"] = row["sigalert_begin"] /\ q.row["sigalert_end"] = row["sigalert_end"]
      /\ q.row["first_call"] = row["first_call"]
  BY <1>1, <1>4 DEF Columns
<1>6. ObjectFrom(log, q, W)
  BY <1>4, <1>5 DEF ObjectFrom, RowFrom
<1>7. \A s : Subjects(log, {}, s) = {} /\ Memos(log, {}, s) = {}
  BY DEF Subjects, Memos
<1>8. Alerts(log, q.row, W, {}) /\ Calls(log, q.row, W, {})
  BY <1>5, <1>7 DEF Alerts, Calls, Latest, RowFrom
<1>9. Aside(log, q, {}) /\ Verifies(log, q.row, W, {}, {}) /\ Clears(log, q.row, {}, {})
  BY <1>4, <1>5, <1>7 DEF Aside, Verifies, Clears, Earliest
<1>10. Gathered(log, q, W, {}, {}, {}, {}, {})
  BY <1>8, <1>9 DEF Gathered
<1> QED BY <1>4, <1>6, <1>10

(* What one step of a scan puts in is of the log.                           *)
LEMMA SubjectFrom ==
  ASSUME NEW o \in Objects, NEW W, NEW e \in W, e \in Entries, ObjectFrom(log, o, W)
  PROVE  ObjectFrom(log, WithSubject(o, e), W)
<1> DEFINE q == WithSubject(o, e)
<1>1. SubjectSet(o, q, e)
  <2>1. q = WithSubject(o, e)
    OBVIOUS
  <2> HIDE DEF q
  <2> QED BY <2>1, SubjectFields
<1> HIDE DEF q
<1>2. \A s : log[e].subject = s => e \in Subjects(log, W, s)
  BY DEF Subjects
<1>3. q.row["sigalert_begin"] \in Subjects(log, W, "sigalert begin") \cup {None}
  BY <1>1, <1>2 DEF SubjectSet, ObjectFrom, RowFrom
<1>4. q.row["sigalert_end"] \in Subjects(log, W, "sigalert end") \cup {None}
  BY <1>1, <1>2 DEF SubjectSet, ObjectFrom, RowFrom
<1>5. q.row["first_call"] = o.row["first_call"]
  BY <1>1 DEF SubjectSet
<1>6. q.open \in Subjects(log, W, "open") \cup {None}
  BY <1>1, <1>2 DEF SubjectSet, ObjectFrom
<1>7. RowFrom(log, q.row, W)
  BY <1>3, <1>4, <1>5 DEF ObjectFrom, RowFrom
<1> QED BY <1>6, <1>7 DEF ObjectFrom, q

LEMMA MeasureFrom ==
  ASSUME NEW o \in Objects, NEW W, NEW e \in W, e \in Entries, ObjectFrom(log, o, W),
         NEW i \in DOMAIN log[e].details
  PROVE  ObjectFrom(log, WithMeasure(o, e, log[e].details[i]), W)
<1> DEFINE m == log[e].details[i]
           q == WithMeasure(o, e, m)
<1>1. MeasureSet(o, q, e, m)
  <2>1. q = WithMeasure(o, e, m)
    OBVIOUS
  <2> HIDE DEF q, m
  <2> QED BY <2>1, MeasureFields
<1>2. e \in Said(log, W, m)
  BY DEF Said
<1> HIDE DEF q, m
<1>3. q.row["first_call"] \in Said(log, W, "first call") \cup Subjects(log, W, "open") \cup {None}
  BY <1>1, <1>2 DEF MeasureSet, ObjectFrom, RowFrom
<1>4. /\ q.row["sigalert_begin"] = o.row["sigalert_begin"]
      /\ q.row["sigalert_end"] = o.row["sigalert_end"] /\ q.open = o.open
  BY <1>1 DEF MeasureSet
<1>5. RowFrom(log, q.row, W)
  BY <1>3, <1>4 DEF ObjectFrom, RowFrom
<1> QED BY <1>4, <1>5 DEF ObjectFrom, q, m

LEMMA MemoFrom ==
  ASSUME NEW o \in Objects, NEW W, NEW e \in Entries, ObjectFrom(log, o, W)
  PROVE  ObjectFrom(log, WithMemo(o, e), W)
<1> DEFINE q == WithMemo(o, e)
<1>1. MemoSet(o, q, e)
  <2>1. q = WithMemo(o, e)
    OBVIOUS
  <2> HIDE DEF q
  <2> QED BY <2>1, MemoFields
<1> HIDE DEF q
<1>2. /\ q.row["sigalert_begin"] = o.row["sigalert_begin"]
      /\ q.row["sigalert_end"] = o.row["sigalert_end"] /\ q.row["first_call"] = o.row["first_call"]
      /\ q.open = o.open
  BY <1>1 DEF MemoSet
<1> QED BY <1>2 DEF ObjectFrom, RowFrom, q

(* What update writes of it, to a row that was of the log, is so too.       *)
LEMMA StoredFrom ==
  ASSUME NEW o \in Objects, NEW old \in Rows, NEW W, ObjectFrom(log, o, W), RowFrom(log, old, W)
  PROVE  RowFrom(log, StoredRow(old, WithFallbacks(o)), W)
<1> DEFINE q == WithFallbacks(o)
           new == StoredRow(old, q)
<1>1. FallbackSet(o, q)
  <2>1. q = WithFallbacks(o)
    OBVIOUS
  <2> HIDE DEF q
  <2> QED BY <2>1, FallbackFields
<1>2. \A k \in Columns : new[k] = q.row[k] \/ new[k] = old[k]
  BY DEF StoredRow
<1>3. "sigalert_begin" \in Columns /\ "sigalert_end" \in Columns /\ "first_call" \in Columns
  BY DEF Columns
<1> HIDE DEF q, new
<1>4. RowFrom(log, q.row, W)
  <2>1. q.row["first_call"] = o.row["first_call"] \/ q.row["first_call"] = o.open
    BY <1>1 DEF FallbackSet
  <2>2. q.row["sigalert_begin"] = o.row["sigalert_begin"] /\ q.row["sigalert_end"] = o.row["sigalert_end"]
    BY <1>1 DEF FallbackSet
  <2> QED BY <2>1, <2>2 DEF ObjectFrom, RowFrom
<1>5. RowFrom(log, new, W)
  BY <1>2, <1>3, <1>4 DEF RowFrom
<1> QED BY <1>5 DEF new, q

(* An update that leaves out what was not changed writes all columns.       *)
LEMMA StoredAll ==
  ASSUME NEW o \in Objects, NEW old \in Rows, Unsaved(o, old)
  PROVE  StoredRow(old, o) = o.row
<1>1. \A k \in Columns : (IF k \in o.dirty THEN o.row[k] ELSE old[k]) = o.row[k]
  BY DEF Unsaved
<1>2. o.row \in Rows
  BY DEF Objects
<1>3. o.row = [k \in Columns |-> o.row[k]]
  BY <1>2 DEF Rows
<1> QED BY <1>1, <1>3 DEF StoredRow

(* What is found at the end of the log, with what was kept aside for it.    *)
LEMMA AllGathered ==
  ASSUME NEW o \in Objects, NEW W \in SUBSET Entries,
         Gathered(log, o, W, W, Said(log, W, "first call"), Said(log, W, "verification"),
                  Said(log, W, "lanes clear"), W),
         \A e \in W : measures[e] = Kept(log[e].details)[Len(log[e].details)]
  PROVE  Done(log, WithFallbacks(o).row, W, measures)
<1> DEFINE q == WithFallbacks(o)
           row == q.row
           F == Said(log, W, "first call")
           V == Said(log, W, "verification") \cup Memos(log, W, "visual")
           L == Said(log, W, "lanes clear")
           opens == Subjects(log, W, "open")
           infos == Subjects(log, W, "info")
<1>1. FallbackSet(o, q)
  <2>1. q = WithFallbacks(o)
    OBVIOUS
  <2> HIDE DEF q
  <2> QED BY <2>1, FallbackFields
<1>2. Alerts(log, o.row, W, W) /\ Aside(log, o, W) /\ Calls(log, o.row, W, F)
      /\ Verifies(log, o.row, W, Said(log, W, "verification"), W) /\ Clears(log, o.row, L, W)
  BY DEF Gathered
<1> HIDE DEF q
<1>3. None \notin W /\ F \subseteq W /\ V \subseteq W /\ opens \subseteq W
  <2>1. None \notin W
    BY ImportAssumption
  <2> QED BY <2>1 DEF Said, Subjects, Memos
<1>4. /\ row["sigalert_begin"] = o.row["sigalert_begin"] /\ row["sigalert_end"] = o.row["sigalert_end"]
      /\ row["lanes_clear"] = o.row["lanes_clear"]
  BY <1>1 DEF FallbackSet
<1>5. Alerts(log, row, W, W) /\ Clears(log, row, L, W)
  BY <1>2, <1>4 DEF Alerts, Clears
<1>6. ASSUME Subjects(log, W, "sigalert begin") = {}
      PROVE  Earliest(row["verification"], IF V # {} THEN V ELSE infos)
  <2>1. Earliest(o.row["verification"], V)
    BY <1>2, <1>6 DEF Verifies
  <2>2. row["verification"] = IF o.row["verification"] = None THEN o.proxy ELSE o.row["verification"]
    BY <1>1 DEF FallbackSet
  <2>3. Earliest(o.proxy, infos)
    BY <1>2, <1>6 DEF Aside
  <2> HIDE DEF V, infos
  <2>4. CASE V # {}
    BY <1>3, <2>1, <2>2, <2>4 DEF Earliest, IsFirst
  <2>5. CASE V = {}
    BY <2>1, <2>2, <2>3, <2>5 DEF Earliest
  <2> QED BY <2>4, <2>5
<1>7. IF F # {} THEN IsLast(row["first_call"], F)
      ELSE row["first_call"] \in IF opens = {} THEN {None} ELSE opens
  <2>1. Latest(o.row["first_call"], F, F \cup opens)
    BY <1>2 DEF Calls
  <2>2. row["first_call"] = IF o.row["first_call"] = None THEN o.open ELSE o.row["first_call"]
    BY <1>1 DEF FallbackSet
  <2>3. IF opens = {} THEN o.open = None ELSE o.open \in opens
    BY <1>2 DEF Aside
  <2> HIDE DEF F, opens
  <2>4. CASE F # {}
    BY <1>3, <2>1, <2>2, <2>4 DEF Latest, IsLast
  <2>5. CASE F = {}
    <3>1. o.row["first_call"] \in opens \cup {None}
      BY <2>1, <2>5 DEF Latest
    <3> QED BY <2>2, <2>3, <2>5, <3>1
  <2> QED BY <2>4, <2>5
<1> QED BY <1>5, <1>6, <1>7 DEF Done, q

-----------------------------------------------------------------------------
(* A scan goes on: what is read and gathered, entry by entry.               *)

(* The next entry is after all that were taken.                             *)
LEMMA NextLine ==
  ASSUME NEW r, NEW W \in SUBSET Entries, NEW row, NEW ms, Progress(log, r, row, W, ms), r.lines # {}
  PROVE  LET e == Min(r.lines)
         IN  /\ e \in r.lines /\ e \in W /\ e \in Entries
             /\ \A x \in W \ r.lines : x < e
             /\ \A y \in r.lines \ {e} : e < y
<1>1. r.lines \in SUBSET Nat /\ r.lines \subseteq W /\ r.lines \subseteq Entries
  <2>1. Entries \subseteq Nat
    BY ImportAssumption
  <2> QED BY <2>1 DEF Progress
<1>2. Min(r.lines) \in r.lines /\ \A y \in r.lines : Min(r.lines) <= y
  BY <1>1, MinOfNat
<1>3. \A x \in W \ r.lines, y \in r.lines : x < y
  BY DEF Progress
<1>4. \A y \in r.lines \ {Min(r.lines)} : Min(r.lines) < y
  <2>1. \A a, b \in Nat : a <= b /\ b # a => a < b
    OBVIOUS
  <2> QED BY <1>1, <1>2, <2>1
<1> QED BY <1>1, <1>2, <1>3, <1>4

LEMMA ProgressEntry ==
  ASSUME NEW r \in Locals, r.step = "entry", r.lines # {}, r.o \in Objects,
         NEW W \in SUBSET Entries, NEW row, NEW ms \in [Entries -> Seq(STRING)],
         Progress(log, r, row, W, ms), NEW e, e = Min(r.lines), log[e].details \in Seq(STRING),
         NEW s, s = [r EXCEPT !.step = "measures", !.n = 1, !.o = WithSubject(@, e)]
  PROVE  Progress(log, s, row, W, [ms EXCEPT ![e] = <<>>])
<1> DEFINE D == W \ r.lines
           F == Said(log, D, "first call")
           V == Said(log, D, "verification")
           L == Said(log, D, "lanes clear")
           o == WithSubject(r.o, e)
           ns == [ms EXCEPT ![e] = <<>>]
<1>1. e \in r.lines /\ e \in W /\ e \in Entries /\ \A x \in D : x < e
  BY NextLine
<1>2. s.step = "measures" /\ s.n = 1 /\ s.o = o /\ s.lines = r.lines
  BY DEF Locals
<1>3. /\ SubjectsRead(r, W) = D /\ \A m : MeasuresRead(log, r, W, m) = Said(log, D, m)
      /\ SubjectsRead(s, W) = D \cup {e} /\ \A m : MeasuresRead(log, s, W, m) = Said(log, D, m)
  <2> HIDE DEF o
  <2>1. SubjectsRead(r, W) = D
    BY DEF SubjectsRead
  <2>2. \A m : MeasuresRead(log, r, W, m) = Said(log, D, m)
    BY DEF MeasuresRead
  <2>3. SubjectsRead(s, W) = D \cup {e}
    BY <1>2 DEF SubjectsRead
  <2>4. ASSUME NEW m PROVE MeasuresRead(log, s, W, m) = Said(log, D, m)
    <3>1. ~\E i \in 1..(s.n - 1) : log[Min(s.lines)].details[i] = m
      BY <1>2
    <3>2. Said(log, W \ s.lines, m) = Said(log, D, m)
      BY <1>2
    <3> QED BY <3>1, <3>2 DEF MeasuresRead
  <2> QED BY <2>1, <2>2, <2>3, <2>4
<1>4. Gathered(log, r.o, W, D, F, V, L, D)
  BY <1>3, Zenon DEF Progress
<1>5. Gathered(log, o, W, D \cup {e}, F, V, L, D)
  <2>1. D \in SUBSET W
    OBVIOUS
  <2> HIDE DEF F, V, L, D
  <2> QED BY <1>1, <1>4, <2>1, SubjectGathered
<1>6. Gathered(log, s.o, W, SubjectsRead(s, W), MeasuresRead(log, s, W, "first call"),
               MeasuresRead(log, s, W, "verification"), MeasuresRead(log, s, W, "lanes clear"), W \ s.lines)
  <2> HIDE DEF o
  <2> QED BY <1>2, <1>3, <1>5, Zenon
<1>7. Unsaved(s.o, row)
  <2>1. Unsaved(r.o, row)
    BY DEF Progress
  <2> QED BY <1>1, <1>2, <2>1, SubjectFields
<1>8. /\ s.lines \subseteq W /\ \A x \in W \ s.lines, y \in s.lines : x < y
      /\ \A x \in W \ s.lines : ns[x] = Kept(log[x].details)[Len(log[x].details)]
  <2>1. /\ r.lines \subseteq W /\ \A x \in D, y \in r.lines : x < y
        /\ \A x \in D : ms[x] = Kept(log[x].details)[Len(log[x].details)]
    BY DEF Progress
  <2>2. \A x \in D : x # e /\ ns[x] = ms[x]
    BY <1>1
  <2> HIDE DEF ns, o
  <2> QED BY <1>2, <2>1, <2>2
<1>9. LET x == Min(s.lines)
      IN  s.n <= Len(log[x].details) + 1 /\ ns[x] = Kept(log[x].details)[s.n - 1]
  <2>1. Min(s.lines) = e /\ ns[e] = <<>> /\ Len(log[e].details) \in Nat
    BY <1>1, <1>2
  <2>2. Kept(log[e].details)[0] = <<>>
    BY KeptStep
  <2>3. s.n = 1 /\ 1 - 1 = 0 /\ 1 <= Len(log[e].details) + 1
    BY <1>2, <2>1
  <2> HIDE DEF ns, o
  <2> QED BY <2>1, <2>2, <2>3
<1> HIDE DEF ns, o
<1>10. Progress(log, s, row, W, ns)
  BY <1>6, <1>7, <1>8, <1>9 DEF Progress
<1> QED BY <1>10 DEF ns

LEMMA ProgressMeasure ==
  ASSUME NEW r \in Locals, r.step = "measures", r.lines # {}, r.o \in Objects, r.n > 0,
         NEW W \in SUBSET Entries, NEW row, NEW ms \in [Entries -> Seq(STRING)],
         Progress(log, r, row, W, ms), NEW e, e = Min(r.lines), log[e].details \in Seq(STRING),
         r.n <= Len(log[e].details), NEW m, m = log[e].details[r.n],
         NEW s, s = [r EXCEPT !.n = @ + 1, !.o = WithMeasure(@, e, m)]
  PROVE  Progress(log, s, row, W, [ms EXCEPT ![e] = IF IsStored(m) THEN Append(@, m) ELSE @])
<1> DEFINE D == W \ r.lines
           F == MeasuresRead(log, r, W, "first call")
           V == MeasuresRead(log, r, W, "verification")
           L == MeasuresRead(log, r, W, "lanes clear")
           o == WithMeasure(r.o, e, m)
           new == IF IsStored(m) THEN Append(ms[e], m) ELSE ms[e]
           ns == [ms EXCEPT ![e] = new]
<1>1. e \in r.lines /\ e \in W /\ e \in Entries /\ e \in Nat /\ \A x \in D : x < e
  <2>1. e \in r.lines /\ e \in W /\ e \in Entries /\ \A x \in D : x < e
    BY NextLine
  <2> QED BY <2>1, ImportAssumption
<1>2. s.step = "measures" /\ s.n = r.n + 1 /\ s.o = o /\ s.lines = r.lines /\ r.n \in Nat
  <2>1. r.n \in Nat
    BY DEF Locals
  <2>2. s = [r EXCEPT !.n = r.n + 1, !.o = o]
    OBVIOUS
  <2> HIDE DEF o
  <2> QED BY <2>1, <2>2 DEF Locals
<1> HIDE DEF o
<1>3. /\ SubjectsRead(r, W) = D \cup {e} /\ SubjectsRead(s, W) = D \cup {e}
      /\ \A t : /\ MeasuresRead(log, r, W, t) \subseteq D \cup {e}
                /\ MeasuresRead(log, s, W, t) =
                     IF m = t THEN MeasuresRead(log, r, W, t) \cup {e} ELSE MeasuresRead(log, r, W, t)
  <2>1. SubjectsRead(r, W) = D \cup {e} /\ SubjectsRead(s, W) = D \cup {e}
    BY <1>2 DEF SubjectsRead
  <2>2. ASSUME NEW t
        PROVE  /\ MeasuresRead(log, r, W, t) \subseteq D \cup {e}
               /\ MeasuresRead(log, s, W, t) =
                    IF m = t THEN MeasuresRead(log, r, W, t) \cup {e} ELSE MeasuresRead(log, r, W, t)
    <3> DEFINE old == \E i \in 1..(r.n - 1) : log[e].details[i] = t
    <3>1. MeasuresRead(log, r, W, t) = Said(log, D, t) \cup (IF old THEN {e} ELSE {})
      BY DEF MeasuresRead
    <3>2. (\E i \in 1..(s.n - 1) : log[e].details[i] = t) <=> (old \/ m = t)
      <4>1. s.n - 1 = r.n /\ 1..r.n = 1..(r.n - 1) \cup {r.n}
        BY <1>2
      <4> QED BY <4>1
    <3>3. MeasuresRead(log, s, W, t) = Said(log, D, t) \cup (IF old \/ m = t THEN {e} ELSE {})
      <4> DEFINE now == \E i \in 1..(s.n - 1) : log[e].details[i] = t
      <4>1. MeasuresRead(log, s, W, t) = Said(log, D, t) \cup (IF now THEN {e} ELSE {})
        BY <1>2 DEF MeasuresRead
      <4> HIDE DEF now, old
      <4>2. now <=> (old \/ m = t)
        BY <3>2 DEF now
      <4> QED BY <4>1, <4>2
    <3>4. Said(log, D, t) \subseteq D
      BY DEF Said
    <3> DEFINE same == m = t
    <3> HIDE DEF old, same, D
    <3>5. MeasuresRead(log, s, W, t) = Said(log, D, t) \cup (IF old \/ same THEN {e} ELSE {})
      BY <3>3 DEF same
    <3>6. MeasuresRead(log, s, W, t) =
            IF same THEN MeasuresRead(log, r, W, t) \cup {e} ELSE MeasuresRead(log, r, W, t)
      BY <3>1, <3>5
    <3> QED BY <3>1, <3>4, <3>6 DEF same
  <2> QED BY <2>1, <2>2
<1>4. Gathered(log, r.o, W, D \cup {e}, F, V, L, D)
  BY <1>3, Zenon DEF Progress
<1>5. Gathered(log, o, W, D \cup {e}, IF m = "first call" THEN F \cup {e} ELSE F,
               IF m = "verification" THEN V \cup {e} ELSE V, IF m = "lanes clear" THEN L \cup {e} ELSE L, D)
  <2>1. D \in SUBSET W /\ D \cup {e} \subseteq W
    BY <1>1
  <2>2. F \subseteq D \cup {e} /\ V \subseteq D \cup {e} /\ L \subseteq D \cup {e}
    BY <1>3, Zenon
  <2>3. \A x \in D \cup {e} : x <= e
    <3>1. ASSUME NEW x \in D PROVE x <= e
      <4>1. x \in Nat /\ x < e
        BY <1>1, ImportAssumption
      <4> QED BY <1>1, <4>1
    <3>2. e <= e
      BY <1>1
    <3> QED BY <3>1, <3>2
  <2> HIDE DEF F, V, L, D
  <2>4. F \in SUBSET W /\ V \in SUBSET W /\ L \in SUBSET W /\ \A x \in F \cup V \cup L : x <= e
    BY <2>1, <2>2, <2>3
  <2> QED BY <1>1, <1>4, <2>1, <2>4, MeasureGathered DEF o
<1>6. Gathered(log, s.o, W, SubjectsRead(s, W), MeasuresRead(log, s, W, "first call"),
               MeasuresRead(log, s, W, "verification"), MeasuresRead(log, s, W, "lanes clear"), W \ s.lines)
  BY <1>2, <1>3, <1>5, Zenon
<1>7. Unsaved(s.o, row)
  <2>1. Unsaved(r.o, row)
    BY DEF Progress
  <2> QED BY <1>1, <1>2, <2>1, MeasureFields DEF o
<1>8. /\ s.lines \subseteq W /\ \A x \in W \ s.lines, y \in s.lines : x < y
      /\ \A x \in W \ s.lines : ns[x] = Kept(log[x].details)[Len(log[x].details)]
  <2>1. /\ r.lines \subseteq W /\ \A x \in D, y \in r.lines : x < y
        /\ \A x \in D : ms[x] = Kept(log[x].details)[Len(log[x].details)]
    BY DEF Progress
  <2>2. \A x \in D : x # e /\ ns[x] = ms[x]
    BY <1>1
  <2> HIDE DEF ns
  <2> QED BY <1>2, <2>1, <2>2
<1>9. LET x == Min(s.lines)
      IN  s.n <= Len(log[x].details) + 1 /\ ns[x] = Kept(log[x].details)[s.n - 1]
  <2>1. Min(s.lines) = e /\ ns[e] = new
    BY <1>1, <1>2
  <2>2. ms[e] = Kept(log[e].details)[r.n - 1]
    BY DEF Progress
  <2>3. Kept(log[e].details)[r.n] = new
    <3>1. r.n \in 1..Len(log[e].details)
      BY <1>2
    <3>2. Kept(log[e].details)[r.n] =
            IF IsStored(log[e].details[r.n]) THEN Append(Kept(log[e].details)[r.n - 1], log[e].details[r.n])
            ELSE Kept(log[e].details)[r.n - 1]
      BY <3>1, KeptStep
    <3> QED BY <2>2, <3>2, Zenon
  <2>4. s.n <= Len(log[e].details) + 1 /\ s.n - 1 = r.n
    <3>1. Len(log[e].details) \in Nat
      OBVIOUS
    <3> QED BY <1>2, <3>1
  <2> HIDE DEF ns, new
  <2> QED BY <2>1, <2>3, <2>4
<1>10. ns = [ms EXCEPT ![e] = IF IsStored(m) THEN Append(@, m) ELSE @]
  OBVIOUS
<1> HIDE DEF ns
<1>11. Progress(log, s, row, W, ns)
  BY <1>2, <1>6, <1>7, <1>8, <1>9 DEF Progress
<1> QED BY <1>10, <1>11

LEMMA ProgressMemo ==
  ASSUME NEW r \in Locals, r.step = "measures", r.lines # {}, r.o \in Objects,
         NEW W \in SUBSET Entries, NEW row, NEW ms,
         Progress(log, r, row, W, ms), NEW e, e = Min(r.lines), log[e].details \in Seq(STRING),
         r.n > Len(log[e].details),
         NEW s, s = [r EXCEPT !.step = "entry", !.lines = @ \ {e}, !.o = WithMemo(@, e)]
  PROVE  Progress(log, s, row, W, ms)
<1> DEFINE D == W \ r.lines
           F == MeasuresRead(log, r, W, "first call")
           V == MeasuresRead(log, r, W, "verification")
           L == MeasuresRead(log, r, W, "lanes clear")
           o == WithMemo(r.o, e)
<1>1. /\ e \in r.lines /\ e \in W /\ e \in Entries /\ e \in Nat
      /\ \A x \in D : x < e
      /\ \A y \in r.lines \ {e} : e < y
  <2>1. e \in r.lines /\ e \in W /\ e \in Entries /\ \A x \in D : x < e
    BY NextLine
  <2>2. \A y \in r.lines \ {e} : e < y
    BY NextLine
  <2> QED BY <2>1, <2>2, ImportAssumption
<1>2. s.step = "entry" /\ s.o = o /\ s.lines = r.lines \ {e} /\ W \ s.lines = D \cup {e}
  <2>1. s = [r EXCEPT !.step = "entry", !.lines = r.lines \ {e}, !.o = o]
    OBVIOUS
  <2> HIDE DEF o
  <2>2. s.step = "entry" /\ s.o = o /\ s.lines = r.lines \ {e}
    BY <2>1 DEF Locals
  <2> QED BY <1>1, <2>2
<1> HIDE DEF o
<1>3. r.n = Len(log[e].details) + 1 /\ r.n - 1 = Len(log[e].details) /\ DOMAIN log[e].details = 1..(r.n - 1)
  <2>1. r.n <= Len(log[e].details) + 1
    BY DEF Progress
  <2>2. Len(log[e].details) \in Nat /\ DOMAIN log[e].details = 1..Len(log[e].details)
    OBVIOUS
  <2>3. r.n \in Nat
    BY DEF Locals
  <2> QED BY <2>1, <2>2, <2>3
<1>4. /\ SubjectsRead(r, W) = D \cup {e} /\ SubjectsRead(s, W) = D \cup {e}
      /\ \A t : /\ MeasuresRead(log, s, W, t) = MeasuresRead(log, r, W, t)
                /\ MeasuresRead(log, r, W, t) \subseteq D \cup {e}
  <2>1. SubjectsRead(r, W) = D \cup {e} /\ SubjectsRead(s, W) = D \cup {e}
    BY <1>2 DEF SubjectsRead
  <2>2. ASSUME NEW t
        PROVE  /\ MeasuresRead(log, s, W, t) = MeasuresRead(log, r, W, t)
               /\ MeasuresRead(log, r, W, t) \subseteq D \cup {e}
    <3> DEFINE says(x) == \E i \in DOMAIN log[x].details : log[x].details[i] = t
    <3>1. MeasuresRead(log, s, W, t) = Said(log, D \cup {e}, t)
      BY <1>2 DEF MeasuresRead
    <3>2. MeasuresRead(log, r, W, t) = Said(log, D, t) \cup (IF says(e) THEN {e} ELSE {})
      BY <1>3 DEF MeasuresRead
    <3>3. Said(log, D \cup {e}, t) = {x \in D \cup {e} : says(x)} /\ Said(log, D, t) = {x \in D : says(x)}
      BY DEF Said
    <3> HIDE DEF says, D
    <3> QED BY <3>1, <3>2, <3>3
  <2> QED BY <2>1, <2>2
<1>5. Gathered(log, r.o, W, D \cup {e}, F, V, L, D)
  BY <1>4, Zenon DEF Progress
<1>6. Gathered(log, o, W, D \cup {e}, F, V, L, D \cup {e})
  <2>1. D \in SUBSET W /\ D \cup {e} \in SUBSET W
    BY <1>1
  <2>2. F \subseteq D \cup {e} /\ V \subseteq D \cup {e} /\ L \subseteq D \cup {e}
    BY <1>4, Zenon
  <2>3. \A x \in D \cup {e} : x <= e
    <3>1. ASSUME NEW x \in D PROVE x <= e
      <4>1. x \in Nat /\ x < e
        BY <1>1, ImportAssumption
      <4> QED BY <1>1, <4>1
    <3>2. e <= e
      BY <1>1
    <3> QED BY <3>1, <3>2
  <2> HIDE DEF F, V, L, D
  <2>4. F \in SUBSET W /\ V \in SUBSET W /\ L \in SUBSET W /\ \A x \in V : x <= e
    BY <2>1, <2>2, <2>3
  <2> QED BY <1>1, <1>5, <2>1, <2>4, MemoGathered DEF o
<1>7. Gathered(log, s.o, W, SubjectsRead(s, W), MeasuresRead(log, s, W, "first call"),
               MeasuresRead(log, s, W, "verification"), MeasuresRead(log, s, W, "lanes clear"), W \ s.lines)
  BY <1>2, <1>4, <1>6, Zenon
<1>8. Unsaved(s.o, row)
  <2>1. Unsaved(r.o, row)
    BY DEF Progress
  <2> QED BY <1>1, <1>2, <2>1, MemoFields DEF o
<1>9. s.lines \subseteq W /\ \A x \in W \ s.lines, y \in s.lines : x < y
  <2>1. r.lines \subseteq W /\ \A x \in D, y \in r.lines : x < y
    BY DEF Progress
  <2> QED BY <1>1, <1>2, <2>1
<1>10. \A x \in W \ s.lines : ms[x] = Kept(log[x].details)[Len(log[x].details)]
  <2>1. \A x \in D : ms[x] = Kept(log[x].details)[Len(log[x].details)]
    BY DEF Progress
  <2>2. ms[e] = Kept(log[e].details)[r.n - 1]
    BY DEF Progress
  <2> QED BY <1>2, <1>3, <2>1, <2>2
<1> QED BY <1>2, <1>7, <1>8, <1>9, <1>10 DEF Progress

-----------------------------------------------------------------------------
(* The steps of the program.                                                *)

(* A log only grows.                                                        *)
LEMMA LogGrows ==
  ASSUME al \subseteq al', NEW c
  PROVE  LogOf(c) \subseteq LogOf(c)'
BY DEF LogOf

(* A process goes to r: rows and objects from the log stay so if those it   *)
(* changes are.                                                             *)
LEMMA FromStep ==
  ASSUME TypeInv, FromInv, log' = log, al \subseteq al', NEW p \in Importers, NEW r, Goes(p, r),
         \A c \in Cads : inc'[c] # None => RowFrom(log, inc'[c], LogOf(c)),
         \A c \in Cads : Reads(r, c) => r.lines \subseteq LogOf(c) /\ ObjectFrom(log, r.o, LogOf(c))
  PROVE  FromInv'
<1>1. ASSUME NEW c \in Cads, inc'[c] # None PROVE RowFrom(log', inc'[c], LogOf(c)')
  <2>1. RowFrom(log, inc'[c], LogOf(c)) /\ LogOf(c) \subseteq LogOf(c)'
    BY <1>1, LogGrows
  <2> QED BY <2>1, FromMore
<1>2. ASSUME NEW q \in Importers, NEW c \in Cads, Reads(run'[q], c)
      PROVE  run'[q].lines \subseteq LogOf(c)' /\ ObjectFrom(log', run'[q].o, LogOf(c)')
  <2>1. run'[q] = IF q = p THEN r ELSE run[q]
    BY DEF Goes, TypeInv
  <2>2. run'[q].lines \subseteq LogOf(c) /\ ObjectFrom(log, run'[q].o, LogOf(c))
    <3>1. CASE q = p
      BY <1>2, <2>1, <3>1
    <3>2. CASE q # p
      BY <1>2, <2>1, <3>2 DEF FromInv, In
    <3> QED BY <3>1, <3>2
  <2>3. LogOf(c) \subseteq LogOf(c)'
    BY LogGrows
  <2> QED BY <2>2, <2>3, FromMore
<1> QED BY <1>1, <1>2 DEF FromInv, In

(* A process goes to r, not in the incident c, and leaves what is stored of *)
(* c as it is.                                                              *)
LEMMA ScanElsewhere ==
  ASSUME TypeInv, FromInv, NEW c \in Cads, ScanOf(c), log' = log, al \subseteq al', NEW p \in Importers,
         NEW r, Goes(p, r), ~Reads(r, c), scan'[c] = scan[c], inc'[c] = inc[c],
         \A e \in LogOf(c) : measures'[e] = measures[e]
  PROVE  ScanOf(c)'
<1> DEFINE W == scan[c].of
<1>1. W \subseteq LogOf(c) /\ LogOf(c) \subseteq LogOf(c)'
  BY LogGrows DEF ScanOf
<1>2. ASSUME NEW q \in Importers, In(q, c)' PROVE run'[q] = run[q] /\ In(q, c) /\ q # p
  <2>1. run'[q] = IF q = p THEN r ELSE run[q]
    BY DEF Goes, TypeInv
  <2> QED BY <1>2, <2>1 DEF In
<1>3. ASSUME ~scan[c].crossed
      PROVE  /\ \A q, u \in Importers : In(q, c)' /\ In(u, c)' => q = u
             /\ \A q \in Importers : In(q, c)' =>
                  ~scan[c].ended /\ Progress(log, run'[q], inc[c], W, measures')
             /\ scan[c].ended => inc[c] # None /\ Done(log, inc[c], W, measures')
  <2>1. \A q, u \in Importers : In(q, c)' /\ In(u, c)' => q = u
    BY <1>2, <1>3 DEF ScanOf
  <2>2. ASSUME NEW q \in Importers, In(q, c)'
        PROVE  ~scan[c].ended /\ Progress(log, run'[q], inc[c], W, measures')
    <3>1. ~scan[c].ended /\ Progress(log, run[q], inc[c], W, measures) /\ run'[q] = run[q]
      BY <1>2, <1>3, <2>2 DEF ScanOf
    <3>2. run[q].step = "measures" => Min(run[q].lines) \in W
      <4>1. run[q].step = "measures" => run[q].lines # {}
        BY DEF TypeInv, LocalOf
      <4>2. run[q].lines \subseteq W
        BY <3>1 DEF Progress
      <4> QED BY <4>1, <4>2, LineIsThere
    <3>3. \A x \in W : measures'[x] = measures[x]
      BY <1>1
    <3> QED BY <3>1, <3>2, <3>3 DEF Progress
  <2>3. scan[c].ended => inc[c] # None /\ Done(log, inc[c], W, measures')
    <3>1. scan[c].ended => inc[c] # None /\ Done(log, inc[c], W, measures)
      BY <1>3 DEF ScanOf
    <3>2. \A x \in W : measures'[x] = measures[x]
      BY <1>1
    <3> QED BY <3>1, <3>2 DEF Done
  <2> QED BY <2>1, <2>2, <2>3
<1> QED BY <1>1, <1>3 DEF ScanOf

(* A step of a process that is not and goes not in an incident's log.       *)
LEMMA OutsideScan ==
  ASSUME TypeInv, FromInv, ScanInv, log' = log, al \subseteq al', NEW p \in Importers, NEW r, Goes(p, r),
         r.step \notin {"entry", "measures"}, inc' = inc, measures' = measures, scan' = scan
  PROVE  FromInv' /\ ScanInv'
<1>1. \A c : ~Reads(r, c)
  BY DEF Reads
<1>2. FromInv'
  <2>1. \A c \in Cads : inc'[c] # None => RowFrom(log, inc'[c], LogOf(c))
    BY DEF FromInv
  <2> QED BY <1>1, <2>1, FromStep
<1>3. ASSUME NEW c \in Cads PROVE ScanOf(c)'
  BY <1>1, ScanElsewhere DEF ScanInv
<1> QED BY <1>2, <1>3 DEF ScanInv

(* The incident at hand is in a row that is from its log: it is passed, or  *)
(* its scan starts anew and what was found before is taken away.            *)
LEMMA OpensScan ==
  ASSUME TypeInv, RowInv, FromInv, ScanInv, NEW p \in Importers,
         run[p].step \in {"incidents", "incident"}, run[p].todo # {},
         NEW c, c = Incident(p), NEW row \in Rows, RowFrom(log, row, LogOf(c)), Opens(p, Cleared(row)),
         inc[c] \in {None, row}, inc' = [inc EXCEPT ![c] = row],
         UNCHANGED <<log, al, measures>>
  PROVE  FromInv' /\ ScanInv'
<1> DEFINE lines == {e \in al : Cad[e] = c}
           inside == {q \in Importers \ {p} : run[q].step \in {"entry", "measures"} /\ Incident(q) = c}
           first == FirstEntry(p, c)
           o == Set(Cleared(row), "start_time", first)
           opened == [run[p] EXCEPT !.step = "entry", !.lines = lines, !.o = o]
           passed == [run[p] EXCEPT !.step = "incidents", !.todo = @ \ {c}]
<1>1. c \in Cads /\ c = IncidentIn(run[p].todo, run[p].seen) /\ first \in Entries
  <2>1. run[p].seen \subseteq Entries
    BY DEF TypeInv, Locals
  <2> QED BY <2>1, IncidentIsThere DEF Incident, FirstEntry, IncidentIn
<1>2. run[p] \in Locals /\ lines = LogOf(c) /\ lines \in SUBSET Entries
  BY DEF TypeInv, TableTypes, LogOf
<1>3. \A d \in Cads : inc'[d] = IF d = c THEN row ELSE inc[d]
  BY <1>1 DEF TypeInv, TableTypes
<1>4. row # None
  BY NewRowIsThere
<1>5. o \in Objects /\ Unsaved(o, row) /\ ObjectFrom(log, o, lines) /\ Gathered(log, o, lines, {}, {}, {}, {}, {})
  <2>1. RowFrom(log, row, lines)
    BY <1>2
  <2> HIDE DEF lines, first
  <2> QED BY <1>1, <1>2, <2>1, OpenedObject
<1>6. \A d \in Cads : inc'[d] # None => RowFrom(log, inc'[d], LogOf(d))
  BY <1>3 DEF FromInv
<1>7. CASE c \in Wanted
  <2>1. /\ Goes(p, opened)
        /\ scan' = [scan EXCEPT ![c] = [of |-> lines, ended |-> FALSE, crossed |-> inside # {}]]
    BY <1>7 DEF Opens
  <2>2. /\ opened.step = "entry" /\ opened.lines = lines /\ opened.o = o
        /\ opened.todo = run[p].todo /\ opened.seen = run[p].seen
    <3> HIDE DEF o, lines
    <3> QED BY <1>2 DEF Locals
  <2>3. \A d \in Cads : Reads(opened, d) => d = c
    <3> HIDE DEF opened
    <3> QED BY <1>1, <2>2 DEF Reads
  <2>4. \A d \in Cads : d # c => scan'[d] = scan[d]
    BY <2>1 DEF TypeInv, TableTypes
  <2>5. scan'[c].of = lines /\ scan'[c].ended = FALSE /\ (scan'[c].crossed <=> inside # {})
    <3> HIDE DEF lines, inside
    <3> QED BY <1>1, <2>1 DEF TypeInv, TableTypes
  <2>6. \A q \in Importers : q # p => run'[q] = run[q]
    BY <2>1 DEF Goes, TypeInv
  <2>12. run'[p] = opened
    BY <2>1 DEF Goes, TypeInv
  <2>7. inside = {} => \A q \in Importers : q # p => ~In(q, c)
    <3>1. \A q : Incident(q) = IncidentIn(run[q].todo, run[q].seen)
      BY DEF Incident, FirstEntry, IncidentIn
    <3> QED BY <3>1 DEF In, Reads
  <2> HIDE DEF lines, inside, o, opened
  <2>8. FromInv'
    <3>1. \A d \in Cads : Reads(opened, d) =>
            opened.lines \subseteq LogOf(d) /\ ObjectFrom(log, opened.o, LogOf(d))
      BY <1>2, <1>5, <2>2, <2>3
    <3> QED BY <1>6, <2>1, <3>1, FromStep
  <2>9. ASSUME NEW d \in Cads, d # c PROVE ScanOf(d)'
    <3>1. ~Reads(opened, d) /\ inc'[d] = inc[d] /\ ScanOf(d)
      BY <1>3, <2>3, <2>9 DEF ScanInv
    <3> QED BY <2>1, <2>4, <2>9, <3>1, ScanElsewhere
  <2>10. ScanOf(c)'
    <3>1. scan'[c].of \subseteq LogOf(c)'
      BY <1>2, <2>5 DEF LogOf
    <3>2. ASSUME ~scan'[c].crossed, NEW q \in Importers, In(q, c)' PROVE q = p
      <4>1. inside = {}
        BY <2>5, <3>2
      <4> QED BY <2>6, <2>7, <3>2, <4>1 DEF In
    <3>3. Progress(log, opened, row, lines, measures)
      <4>1. lines \ opened.lines = {}
        BY <2>2
      <4>2. SubjectsRead(opened, lines) = {} /\ \A m : MeasuresRead(log, opened, lines, m) = {}
        BY <2>2, <4>1 DEF SubjectsRead, MeasuresRead, Said
      <4>3. Gathered(log, opened.o, lines, SubjectsRead(opened, lines),
                     MeasuresRead(log, opened, lines, "first call"),
                     MeasuresRead(log, opened, lines, "verification"),
                     MeasuresRead(log, opened, lines, "lanes clear"), lines \ opened.lines)
        BY <1>5, <2>2, <4>1, <4>2, Zenon
      <4> QED BY <1>5, <2>2, <4>1, <4>3 DEF Progress
    <3>4. inc'[c] = row
      BY <1>1, <1>3
    <3> QED BY <2>5, <2>12, <3>1, <3>2, <3>3, <3>4 DEF ScanOf
  <2>11. \A d \in Cads : ScanOf(d)'
    BY <2>9, <2>10
  <2> QED BY <2>8, <2>11 DEF ScanInv
<1>8. CASE c \notin Wanted
  <2>1. Goes(p, passed) /\ scan' = scan
    BY <1>8 DEF Opens
  <2>2. passed.step = "incidents"
    <3> QED BY <1>2 DEF Locals
  <2> HIDE DEF passed
  <2>3. \A d : ~Reads(passed, d)
    BY <2>2 DEF Reads
  <2>4. FromInv'
    BY <1>6, <2>1, <2>3, FromStep
  <2>5. ASSUME NEW d \in Cads, inc'[d] = inc[d] PROVE ScanOf(d)'
    BY <2>1, <2>3, <2>5, ScanElsewhere DEF ScanInv
  <2>6. ASSUME inc[c] = None PROVE ScanOf(c)'
    <3>1. ScanOf(c)
      BY <1>1 DEF ScanInv
    <3>2. \A q \in Importers : ~In(q, c)
      BY <2>6 DEF RowInv, In, Reads
    <3>3. \A q \in Importers : ~In(q, c)'
      <4>1. \A q \in Importers : run'[q] = IF q = p THEN passed ELSE run[q]
        BY <2>1 DEF Goes, TypeInv
      <4> QED BY <2>3, <3>2, <4>1 DEF In
    <3>4. scan'[c].of \subseteq LogOf(c)'
      BY <2>1, <3>1 DEF ScanOf, LogOf
    <3>5. scan'[c].crossed \/ ~scan'[c].ended
      BY <2>1, <2>6, <3>1 DEF ScanOf
    <3> QED BY <3>3, <3>4, <3>5 DEF ScanOf
  <2>7. \A d \in Cads : ScanOf(d)'
    <3>1. inc[c] # None => inc'[c] = inc[c]
      BY <1>1, <1>3
    <3>2. \A d \in Cads : d # c => inc'[d] = inc[d]
      BY <1>3
    <3> QED BY <2>5, <2>6, <3>1, <3>2
  <2> QED BY <2>4, <2>7 DEF ScanInv
<1> QED BY <1>7, <1>8

(* An entry is gone on with: the process stays with its incident, and only  *)
(* the measures of that entry change.                                       *)
LEMMA StaysInScan ==
  ASSUME TypeInv, FromInv, ScanInv, UNCHANGED <<log, al, inc, scan>>, NEW p \in Importers,
         NEW c \in Cads, In(p, c), NEW r, Goes(p, r), Reads(r, c),
         r.lines \subseteq run[p].lines, ObjectFrom(log, r.o, LogOf(c)),
         \A d \in Cads : d # c => \A x \in LogOf(d) : measures'[x] = measures[x],
         Progress(log, run[p], inc[c], scan[c].of, measures) =>
           Progress(log, r, inc[c], scan[c].of, measures')
  PROVE  FromInv' /\ ScanInv'
<1>1. run'[p] = r /\ \A q \in Importers : q # p => run'[q] = run[q]
  BY DEF Goes, TypeInv
<1>2. \A d \in Cads : Reads(r, d) => d = c
  BY DEF Reads
<1>3. FromInv'
  <2>1. \A d \in Cads : inc'[d] # None => RowFrom(log, inc'[d], LogOf(d))
    BY DEF FromInv
  <2>2. run[p].lines \subseteq LogOf(c)
    BY DEF FromInv
  <2>3. \A d \in Cads : Reads(r, d) => r.lines \subseteq LogOf(d) /\ ObjectFrom(log, r.o, LogOf(d))
    BY <1>2, <2>2
  <2> QED BY <2>1, <2>3, FromStep
<1>4. ASSUME NEW d \in Cads, d # c PROVE ScanOf(d)'
  <2>1. ~Reads(r, d) /\ ScanOf(d)
    BY <1>2, <1>4 DEF ScanInv
  <2> QED BY <1>4, <2>1, ScanElsewhere
<1>5. ScanOf(c)'
  <2>1. ScanOf(c)
    BY DEF ScanInv
  <2>2. scan'[c].of \subseteq LogOf(c)'
    BY <2>1 DEF ScanOf, LogOf
  <2>3. ASSUME ~scan[c].crossed, NEW q \in Importers, In(q, c)' PROVE q = p
    BY <1>1, <2>1, <2>3 DEF ScanOf, In
  <2>4. ~scan[c].crossed => ~scan[c].ended /\ Progress(log, r, inc[c], scan[c].of, measures')
    BY <2>1 DEF ScanOf
  <2> QED BY <1>1, <2>2, <2>3, <2>4 DEF ScanOf
<1> QED BY <1>3, <1>4, <1>5 DEF ScanInv

(* Where a process is that goes through a log, and the entry at hand.       *)
LEMMA InScan ==
  ASSUME TypeInv, RowInv, FromInv, ScanInv, NEW p \in Importers, run[p].step \in {"entry", "measures"},
         NEW c, c = Incident(p)
  PROVE  /\ c \in Cads /\ In(p, c) /\ run[p] \in Locals /\ run[p].o \in Objects
         /\ run[p].lines \subseteq LogOf(c) /\ ObjectFrom(log, run[p].o, LogOf(c))
         /\ scan[c].of \in SUBSET Entries /\ inc[c] \in Rows
         /\ run[p].lines # {} =>
              LET e == Min(run[p].lines)
              IN  /\ e \in run[p].lines /\ e \in Entries /\ e \in LogOf(c)
                  /\ log[e].details \in Seq(STRING)
                  /\ \A d \in Cads : d # c => e \notin LogOf(d)
<1>1. LocalOf(run[p], al, Made) /\ run[p] \in Locals
  BY DEF TypeInv
<1>2. run[p].o \in Objects
  BY <1>1 DEF LocalOf
<1>3. c = IncidentIn(run[p].todo, run[p].seen)
  BY DEF Incident, FirstEntry, IncidentIn
<1>4. c \in Cads /\ inc[c] # None
  BY <1>3 DEF RowInv
<1>5. In(p, c)
  BY <1>3 DEF In, Reads
<1>6. run[p].lines \subseteq LogOf(c) /\ ObjectFrom(log, run[p].o, LogOf(c))
  BY <1>4, <1>5 DEF FromInv
<1>7. scan[c].of \in SUBSET Entries /\ inc[c] \in Rows
  BY <1>4 DEF TypeInv, TableTypes
<1>8. ASSUME run[p].lines # {}
      PROVE  LET e == Min(run[p].lines)
             IN  /\ e \in run[p].lines /\ e \in Entries /\ e \in LogOf(c)
                 /\ log[e].details \in Seq(STRING)
                 /\ \A d \in Cads : d # c => e \notin LogOf(d)
  <2>1. Min(run[p].lines) \in run[p].lines /\ Min(run[p].lines) \in Entries
    BY <1>8, LineIsThere
  <2>2. log[Min(run[p].lines)].details \in Seq(STRING)
    BY <2>1, ImportAssumption DEF TypeInv, TableTypes
  <2> QED BY <1>6, <2>1, <2>2 DEF LogOf
<1> QED BY <1>1, <1>2, <1>4, <1>5, <1>6, <1>7, <1>8

LEMMA TakeEntryScan ==
  ASSUME TypeInv, RowInv, FromInv, ScanInv, NEW p \in Importers, TakeEntry(p)
  PROVE  FromInv' /\ ScanInv'
<1>1. run[p].step = "entry" /\ run[p].lines # {}
  BY DEF TakeEntry, At
<1>2. PICK c : c = Incident(p)
  OBVIOUS
<1>3. PICK e : e = Min(run[p].lines)
  OBVIOUS
<1>4. PICK s : s = [run[p] EXCEPT !.step = "measures", !.n = 1, !.o = WithSubject(@, e)]
  OBVIOUS
<1>5. /\ c \in Cads /\ In(p, c) /\ run[p] \in Locals /\ run[p].o \in Objects
      /\ run[p].lines \subseteq LogOf(c) /\ ObjectFrom(log, run[p].o, LogOf(c))
      /\ scan[c].of \in SUBSET Entries
  BY <1>1, <1>2, InScan
<1>6. /\ e \in run[p].lines /\ e \in Entries /\ e \in LogOf(c) /\ log[e].details \in Seq(STRING)
      /\ \A d \in Cads : d # c => e \notin LogOf(d)
  BY <1>1, <1>2, <1>3, InScan
<1>7. measures' = [measures EXCEPT ![e] = <<>>] /\ Goes(p, s) /\ UNCHANGED <<log, al, inc, scan>>
  BY <1>3, <1>4 DEF TakeEntry
<1>8. /\ s.step = "measures" /\ s.todo = run[p].todo /\ s.seen = run[p].seen /\ s.lines = run[p].lines
      /\ s.o = WithSubject(run[p].o, e)
  BY <1>4, <1>5 DEF Locals
<1>9. Reads(s, c)
  BY <1>5, <1>8 DEF In, Reads
<1>10. measures \in [Entries -> Seq(STRING)]
  BY DEF TypeInv, TableTypes
<1>11. Progress(log, run[p], inc[c], scan[c].of, measures) => Progress(log, s, inc[c], scan[c].of, measures')
  BY <1>1, <1>3, <1>4, <1>5, <1>6, <1>7, <1>10, ProgressEntry
<1>12. ObjectFrom(log, s.o, LogOf(c))
  BY <1>5, <1>6, <1>8, SubjectFrom
<1>13. \A d \in Cads : d # c => \A x \in LogOf(d) : measures'[x] = measures[x]
  BY <1>6, <1>7, <1>10 DEF LogOf, TypeInv, TableTypes
<1> QED BY <1>5, <1>7, <1>8, <1>9, <1>11, <1>12, <1>13, StaysInScan

LEMMA TakeMeasureScan ==
  ASSUME TypeInv, RowInv, FromInv, ScanInv, NEW p \in Importers, TakeMeasure(p)
  PROVE  FromInv' /\ ScanInv'
<1>1. run[p].step = "measures" /\ run[p].lines # {} /\ run[p].n > 0
  BY DEF TakeMeasure, At, TypeInv, LocalOf
<1>2. PICK c : c = Incident(p)
  OBVIOUS
<1>3. PICK e : e = Min(run[p].lines)
  OBVIOUS
<1>14. PICK m : m = log[e].details[run[p].n]
  OBVIOUS
<1>4. PICK s : s = [run[p] EXCEPT !.n = @ + 1, !.o = WithMeasure(@, e, m)]
  OBVIOUS
<1>5. /\ c \in Cads /\ In(p, c) /\ run[p] \in Locals /\ run[p].o \in Objects
      /\ run[p].lines \subseteq LogOf(c) /\ ObjectFrom(log, run[p].o, LogOf(c))
      /\ scan[c].of \in SUBSET Entries
  BY <1>1, <1>2, InScan
<1>6. /\ e \in run[p].lines /\ e \in Entries /\ e \in LogOf(c) /\ log[e].details \in Seq(STRING)
      /\ \A d \in Cads : d # c => e \notin LogOf(d)
  BY <1>1, <1>2, <1>3, InScan
<1>7. /\ measures' = [measures EXCEPT ![e] = IF IsStored(m) THEN Append(@, m) ELSE @]
      /\ Goes(p, s) /\ UNCHANGED <<log, al, inc, scan>> /\ run[p].n <= Len(log[e].details)
  BY <1>3, <1>4, <1>14 DEF TakeMeasure
<1>8. /\ s.step = "measures" /\ s.todo = run[p].todo /\ s.seen = run[p].seen /\ s.lines = run[p].lines
      /\ s.o = WithMeasure(run[p].o, e, m)
  <2> DEFINE o == WithMeasure(run[p].o, e, m)
  <2>1. s = [run[p] EXCEPT !.n = run[p].n + 1, !.o = o]
    BY <1>4
  <2> HIDE DEF o
  <2>2. /\ s.step = run[p].step /\ s.todo = run[p].todo /\ s.seen = run[p].seen
        /\ s.lines = run[p].lines /\ s.o = o
    BY <1>5, <2>1 DEF Locals
  <2> QED BY <1>1, <2>2 DEF o
<1>9. Reads(s, c)
  BY <1>5, <1>8 DEF In, Reads
<1>10. measures \in [Entries -> Seq(STRING)]
  BY DEF TypeInv, TableTypes
<1>11. Progress(log, run[p], inc[c], scan[c].of, measures) => Progress(log, s, inc[c], scan[c].of, measures')
  BY <1>1, <1>3, <1>4, <1>5, <1>6, <1>7, <1>10, <1>14, ProgressMeasure
<1>12. ObjectFrom(log, s.o, LogOf(c))
  <2>1. run[p].n \in DOMAIN log[e].details
    BY <1>1, <1>5, <1>6, <1>7 DEF Locals
  <2> QED BY <1>5, <1>6, <1>8, <1>14, <2>1, MeasureFrom
<1>13. \A d \in Cads : d # c => \A x \in LogOf(d) : measures'[x] = measures[x]
  <2>1. \A x \in Entries : x # e => measures'[x] = measures[x]
    BY <1>7, <1>10
  <2> QED BY <1>6, <2>1 DEF LogOf, TypeInv, TableTypes
<1> QED BY <1>5, <1>7, <1>8, <1>9, <1>11, <1>12, <1>13, StaysInScan

LEMMA TakeMemoScan ==
  ASSUME TypeInv, RowInv, FromInv, ScanInv, NEW p \in Importers, TakeMemo(p)
  PROVE  FromInv' /\ ScanInv'
<1>1. run[p].step = "measures" /\ run[p].lines # {}
  BY DEF TakeMemo, At, TypeInv, LocalOf
<1>2. PICK c : c = Incident(p)
  OBVIOUS
<1>3. PICK e : e = Min(run[p].lines)
  OBVIOUS
<1>4. PICK s : s = [run[p] EXCEPT !.step = "entry", !.lines = @ \ {e}, !.o = WithMemo(@, e)]
  OBVIOUS
<1>5. /\ c \in Cads /\ In(p, c) /\ run[p] \in Locals /\ run[p].o \in Objects
      /\ run[p].lines \subseteq LogOf(c) /\ ObjectFrom(log, run[p].o, LogOf(c))
      /\ scan[c].of \in SUBSET Entries
  BY <1>1, <1>2, InScan
<1>6. e \in Entries /\ log[e].details \in Seq(STRING)
  BY <1>1, <1>2, <1>3, InScan
<1>7. Goes(p, s) /\ UNCHANGED <<log, al, inc, scan, measures>> /\ run[p].n > Len(log[e].details)
  BY <1>3, <1>4 DEF TakeMemo
<1>8. /\ s.step = "entry" /\ s.todo = run[p].todo /\ s.seen = run[p].seen /\ s.lines \subseteq run[p].lines
      /\ s.o = WithMemo(run[p].o, e)
  BY <1>4, <1>5 DEF Locals
<1>9. Reads(s, c)
  BY <1>5, <1>8 DEF In, Reads
<1>11. Progress(log, run[p], inc[c], scan[c].of, measures) => Progress(log, s, inc[c], scan[c].of, measures')
  BY <1>1, <1>3, <1>4, <1>5, <1>6, <1>7, ProgressMemo
<1>12. ObjectFrom(log, s.o, LogOf(c))
  BY <1>5, <1>6, <1>8, MemoFrom
<1> QED BY <1>5, <1>7, <1>8, <1>9, <1>11, <1>12, StaysInScan

(* The end of a log: the row is updated.                                    *)
LEMMA UpdateIncidentScan ==
  ASSUME TypeInv, RowInv, FromInv, ScanInv, NEW p \in Importers, UpdateIncident(p)
  PROVE  FromInv' /\ ScanInv'
<1>1. run[p].step = "entry" /\ run[p].lines = {}
  BY DEF UpdateIncident, At
<1>2. PICK c : c = Incident(p)
  OBVIOUS
<1>3. PICK q : q = WithFallbacks(run[p].o)
  OBVIOUS
<1>4. PICK s : s = [run[p] EXCEPT !.step = "incidents", !.todo = @ \ {c}, !.o = None]
  OBVIOUS
<1>5. /\ c \in Cads /\ In(p, c) /\ run[p] \in Locals /\ run[p].o \in Objects
      /\ ObjectFrom(log, run[p].o, LogOf(c)) /\ scan[c].of \in SUBSET Entries /\ inc[c] \in Rows
  BY <1>1, <1>2, InScan
<1>6. /\ inc' = [inc EXCEPT ![c] = StoredRow(@, q)] /\ Goes(p, s)
      /\ scan' = [scan EXCEPT ![c].ended = TRUE] /\ UNCHANGED <<log, al, measures>>
  BY <1>2, <1>3, <1>4 DEF UpdateIncident
<1>7. s.step = "incidents" /\ \A d : ~Reads(s, d)
  <2>1. s.step = "incidents"
    BY <1>4, <1>5 DEF Locals
  <2> QED BY <2>1 DEF Reads
<1>8. inc'[c] = StoredRow(inc[c], q) /\ \A d \in Cads : d # c => inc'[d] = inc[d] /\ scan'[d] = scan[d]
  BY <1>5, <1>6 DEF TypeInv, TableTypes
<1>9. scan'[c].of = scan[c].of /\ scan'[c].crossed = scan[c].crossed /\ scan'[c].ended = TRUE
  BY <1>5, <1>6 DEF TypeInv, TableTypes
<1>10. FromInv'
  <2>1. RowFrom(log, inc[c], LogOf(c))
    BY <1>5, NewRowIsThere DEF FromInv
  <2>2. RowFrom(log, inc'[c], LogOf(c))
    BY <1>3, <1>5, <1>8, <2>1, StoredFrom
  <2>3. \A d \in Cads : inc'[d] # None => RowFrom(log, inc'[d], LogOf(d))
    BY <1>8, <2>2 DEF FromInv
  <2> QED BY <1>6, <1>7, <2>3, FromStep
<1>11. ASSUME NEW d \in Cads, d # c PROVE ScanOf(d)'
  <2>1. ScanOf(d)
    BY DEF ScanInv
  <2> QED BY <1>6, <1>7, <1>8, <1>11, <2>1, ScanElsewhere
<1>12. ScanOf(c)'
  <2>1. ScanOf(c)
    BY <1>5 DEF ScanInv
  <2>2. scan'[c].of \subseteq LogOf(c)'
    BY <1>6, <1>9, <2>1 DEF ScanOf, LogOf
  <2>3. ASSUME ~scan[c].crossed
        PROVE  /\ \A u \in Importers : ~In(u, c)'
               /\ inc'[c] # None /\ Done(log, inc'[c], scan[c].of, measures)
    <3>1. \A u \in Importers : ~In(u, c)'
      <4>1. run'[p] = s /\ \A u \in Importers : u # p => run'[u] = run[u]
        BY <1>6 DEF Goes, TypeInv
      <4>2. \A u \in Importers : u # p => ~In(u, c)
        BY <1>5, <2>1, <2>3 DEF ScanOf
      <4> QED BY <1>7, <4>1, <4>2 DEF In
    <3>2. Progress(log, run[p], inc[c], scan[c].of, measures)
      BY <1>5, <2>1, <2>3 DEF ScanOf
    <3>3. Done(log, q.row, scan[c].of, measures)
      <4> DEFINE W == scan[c].of
      <4>1. SubjectsRead(run[p], W) = W /\ \A m : MeasuresRead(log, run[p], W, m) = Said(log, W, m)
        BY <1>1 DEF SubjectsRead, MeasuresRead
      <4>2. W \ run[p].lines = W
        BY <1>1
      <4>3. Gathered(log, run[p].o, W, W, Said(log, W, "first call"), Said(log, W, "verification"),
                     Said(log, W, "lanes clear"), W)
        <5>1. Gathered(log, run[p].o, W, SubjectsRead(run[p], W), MeasuresRead(log, run[p], W, "first call"),
                       MeasuresRead(log, run[p], W, "verification"),
                       MeasuresRead(log, run[p], W, "lanes clear"), W \ run[p].lines)
          BY <3>2 DEF Progress
        <5> HIDE DEF W
        <5>2. /\ MeasuresRead(log, run[p], W, "first call") = Said(log, W, "first call")
              /\ MeasuresRead(log, run[p], W, "verification") = Said(log, W, "verification")
              /\ MeasuresRead(log, run[p], W, "lanes clear") = Said(log, W, "lanes clear")
          BY <4>1, Zenon
        <5> QED BY <4>1, <4>2, <5>1, <5>2
      <4>4. \A e \in W : measures[e] = Kept(log[e].details)[Len(log[e].details)]
        BY <3>2, <4>2 DEF Progress
      <4> HIDE DEF W
      <4>5. W \in SUBSET Entries
        BY <1>5 DEF W
      <4>6. Done(log, q.row, W, measures)
        BY <1>3, <1>5, <4>3, <4>4, <4>5, AllGathered
      <4> QED BY <4>6 DEF W
    <3>4. inc'[c] = q.row /\ q.row \in Rows
      <4>1. Unsaved(run[p].o, inc[c])
        BY <3>2 DEF Progress
      <4>2. q \in Objects /\ Unsaved(q, inc[c])
        BY <1>3, <1>5, <4>1, FallbackFields
      <4>3. q.row \in Rows
        BY <4>2 DEF Objects
      <4> QED BY <1>5, <1>8, <4>2, <4>3, StoredAll
    <3> QED BY <3>1, <3>3, <3>4, NewRowIsThere
  <2> QED BY <1>6, <1>9, <2>2, <2>3 DEF ScanOf
<1> QED BY <1>10, <1>11, <1>12 DEF ScanInv

LEMMA FindIncidentScan ==
  ASSUME TypeInv, RowInv, FromInv, ScanInv, NEW p \in Importers, FindIncident(p)
  PROVE  FromInv' /\ ScanInv'
<1>1. /\ run[p].step = "incidents" /\ run[p].todo # {} /\ run[p] \in Locals
      /\ UNCHANGED <<log, al, inc, measures>>
  BY DEF FindIncident, At, TypeInv
<1>2. PICK c : c = Incident(p)
  OBVIOUS
<1>3. c \in Cads
  BY <1>1, <1>2, IncidentIsThere
<1>4. CASE inc[c] = None
  <2>1. PICK s : s = [run[p] EXCEPT !.step = "incident"]
    OBVIOUS
  <2>2. Goes(p, s) /\ scan' = scan
    BY <1>2, <1>4, <2>1 DEF FindIncident
  <2>3. s.step = "incident"
    BY <1>1, <2>1 DEF Locals
  <2> QED BY <1>1, <2>2, <2>3, OutsideScan
<1>5. CASE inc[c] # None
  <2>1. Opens(p, Cleared(inc[c]))
    BY <1>2, <1>5 DEF FindIncident
  <2>2. inc[c] \in Rows /\ RowFrom(log, inc[c], LogOf(c))
    BY <1>3, <1>5 DEF FromInv, TypeInv, TableTypes
  <2>3. inc' = [inc EXCEPT ![c] = inc[c]]
    BY <1>1 DEF TypeInv, TableTypes
  <2> QED BY <1>1, <1>2, <2>1, <2>2, <2>3, OpensScan
<1> QED BY <1>4, <1>5

LEMMA CreateIncidentScan ==
  ASSUME TypeInv, RowInv, FromInv, ScanInv, NEW p \in Importers, CreateIncident(p)
  PROVE  FromInv' /\ ScanInv'
<1>1. /\ run[p].step = "incident" /\ run[p].todo # {} /\ run[p] \in Locals
      /\ UNCHANGED <<log, al, measures>>
  BY DEF CreateIncident, At, TypeInv, LocalOf
<1>2. PICK c : c = Incident(p)
  OBVIOUS
<1>3. c \in Cads
  BY <1>1, <1>2, IncidentIsThere
<1>4. CASE inc[c] = None
  <2>1. Opens(p, Cleared(NewRow)) /\ inc' = [inc EXCEPT ![c] = NewRow]
    BY <1>2, <1>4 DEF CreateIncident
  <2>2. NewRow \in Rows
    BY NewRowIsThere
  <2>3. RowFrom(log, NewRow, LogOf(c))
    BY DEF NewRow, RowFrom, Columns
  <2> QED BY <1>1, <1>2, <1>4, <2>1, <2>2, <2>3, OpensScan
<1>5. CASE inc[c] # None
  <2>1. Goes(p, Off) /\ UNCHANGED <<inc, scan>>
    BY <1>2, <1>5 DEF CreateIncident
  <2>2. Off.step = "off"
    BY DEF Off
  <2> QED BY <1>1, <2>1, <2>2, OutsideScan
<1> QED BY <1>4, <1>5

(* Every step keeps what is known of the scans.                             *)
LEMMA ScanStep == TypeInv /\ RowInv /\ FromInv /\ ScanInv /\ [Next]_vars => FromInv' /\ ScanInv'
<1> SUFFICES ASSUME TypeInv, RowInv, FromInv, ScanInv, [Next]_vars PROVE FromInv' /\ ScanInv'
  OBVIOUS
<1>0. (\A p \in Importers : run[p] \in Locals) /\ Off.step = "off"
  BY DEF TypeInv, Off
<1>1. ASSUME NEW p \in Importers, NEW es \in SUBSET Entries, NEW rs \in SUBSET Records, Load(p, es, rs)
      PROVE FromInv' /\ ScanInv'
  <2>1. PICK s : s = [Off EXCEPT !.step = "icad", !.todo = rs]
    OBVIOUS
  <2>2. s.step = "icad"
    BY <2>1 DEF Off
  <2>3. Goes(p, s) /\ al \subseteq al' /\ UNCHANGED <<log, inc, measures, scan>>
    BY <1>1, <2>1 DEF Load
  <2> QED BY <2>2, <2>3, OutsideScan
<1>2. ASSUME NEW p \in Importers, FindRecord(p) PROVE FromInv' /\ ScanInv'
  <2>1. /\ [run[p] EXCEPT !.todo = @ \ {Record(p)}].step = run[p].step
        /\ [run[p] EXCEPT !.step = "record"].step = "record"
    BY <1>0 DEF Locals
  <2> QED BY <1>2, <2>1, OutsideScan DEF FindRecord, At
<1>3. ASSUME NEW p \in Importers, CreateRecord(p) PROVE FromInv' /\ ScanInv'
  <2>1. [run[p] EXCEPT !.step = "details", !.n = 1].step = "details"
    BY <1>0 DEF Locals
  <2> QED BY <1>0, <1>3, <2>1, OutsideScan DEF CreateRecord, At
<1>4. ASSUME NEW p \in Importers, AddDetail(p) PROVE FromInv' /\ ScanInv'
  <2>1. [run[p] EXCEPT !.n = @ + 1].step = run[p].step
    BY <1>0, NextTyped
  <2> QED BY <1>4, <2>1, OutsideScan DEF AddDetail, At
<1>5. ASSUME NEW p \in Importers, EndRecord(p) PROVE FromInv' /\ ScanInv'
  <2>1. [run[p] EXCEPT !.step = "icad", !.todo = @ \ {Record(p)}].step = "icad"
    BY <1>0 DEF Locals
  <2> QED BY <1>5, <2>1, OutsideScan DEF EndRecord
<1>6. ASSUME NEW p \in Importers, NEW from \in Entries, NEW cs \in SUBSET Cads, QueryIncidents(p, from, cs)
      PROVE FromInv' /\ ScanInv'
  <2>1. \A todo, seen : [Off EXCEPT !.step = "incidents", !.todo = todo, !.seen = seen].step = "incidents"
    BY DEF Off
  <2> QED BY <1>6, <2>1, OutsideScan DEF QueryIncidents
<1>7. ASSUME NEW p \in Importers, FindIncident(p) \/ CreateIncident(p) PROVE FromInv' /\ ScanInv'
  BY <1>7, FindIncidentScan, CreateIncidentScan
<1>8. ASSUME NEW p \in Importers, TakeEntry(p) \/ TakeMeasure(p) \/ TakeMemo(p) \/ UpdateIncident(p)
      PROVE FromInv' /\ ScanInv'
  BY <1>8, TakeEntryScan, TakeMeasureScan, TakeMemoScan, UpdateIncidentScan
<1>9. ASSUME NEW p \in Importers, EndRun(p) \/ Breaks(p) PROVE FromInv' /\ ScanInv'
  BY <1>0, <1>9, OutsideScan DEF EndRun, Breaks
<1>10. CASE UNCHANGED vars
  <2>1. FromInv'
    BY <1>10 DEF vars, FromInv, In, LogOf
  <2>2. ScanInv'
    BY <1>10 DEF vars, ScanInv, ScanOf, In, LogOf
  <2> QED BY <2>1, <2>2
<1> QED BY <1>1, <1>2, <1>3, <1>4, <1>5, <1>6, <1>7, <1>8, <1>9, <1>10,
        RangesAssumption DEF Next, Work

(* The last and the first of a set.                                         *)
LEMMA LastIsLastOf ==
  ASSUME NEW T \in SUBSET Nat, NEW x, T = {} => x = None, T # {} => IsLast(x, T)
  PROVE  x = LastOf(T)
<1>1. CASE T = {}
  BY <1>1 DEF LastOf
<1>2. CASE T # {}
  <2>1. x \in T /\ \A y \in T : y <= x
    BY <1>2 DEF IsLast
  <2>2. Max(T) \in T /\ \A y \in T : y <= Max(T)
    <3>1. \E z \in T : \A y \in T : y <= z
      BY <2>1
    <3>2. \E z \in T : \A y \in T : z >= y
      BY <3>1
    <3>3. Max(T) \in T /\ \A y \in T : Max(T) >= y
      BY <3>2, Zenon DEF Max
    <3> QED BY <3>3
  <2>3. x = Max(T)
    <3>1. \A a, b \in Nat : a <= b /\ b <= a => a = b
      OBVIOUS
    <3> QED BY <2>1, <2>2, <3>1, Zenon
  <2> QED BY <1>2, <2>3 DEF LastOf
<1> QED BY <1>1, <1>2

LEMMA FirstIsFirstOf ==
  ASSUME NEW T \in SUBSET Nat, NEW x, Earliest(x, T)
  PROVE  x = FirstOf(T)
<1>1. CASE T = {}
  BY <1>1 DEF FirstOf, Earliest
<1>2. CASE T # {}
  <2>1. x \in T /\ \A y \in T : x <= y
    BY <1>2 DEF Earliest, IsFirst
  <2>2. Min(T) \in T /\ \A y \in T : Min(T) <= y
    BY <1>2, MinOfNat
  <2>3. x = Min(T)
    <3>1. \A a, b \in Nat : a <= b /\ b <= a => a = b
      OBVIOUS
    <3> QED BY <2>1, <2>2, <3>1, Zenon
  <2> QED BY <1>2, <2>3 DEF FirstOf
<1> QED BY <1>1, <1>2

(* What a scan has found at the end of a log are the events of that log.    *)
LEMMA DoneSuffices ==
  ASSUME NEW W \in SUBSET Entries, NEW row, Done(log, row, W, measures)
  PROVE  EventsAreOf(row, W) /\ MeasuresAreOf(W)
<1>1. /\ \A s : OfSubject(W, s) = Subjects(log, W, s) /\ Subjects(log, W, s) \in SUBSET Nat
      /\ \A m : OfMeasure(W, m) = Said(log, W, m) /\ Said(log, W, m) \in SUBSET Nat
      /\ \A m : OfMemo(W, m) = Memos(log, W, m) /\ Memos(log, W, m) \in SUBSET Nat
  <2>1. W \in SUBSET Nat
    BY ImportAssumption
  <2> QED BY <2>1 DEF OfSubject, OfMeasure, OfMemo, Subjects, Said, Memos
<1>2. row["sigalert_begin"] = LastOf(OfSubject(W, "sigalert begin"))
  <2> DEFINE T == Subjects(log, W, "sigalert begin")
  <2>1. Latest(row["sigalert_begin"], T, T)
    BY DEF Done, Alerts
  <2>2. T \in SUBSET Nat /\ T = OfSubject(W, "sigalert begin")
    BY <1>1
  <2> HIDE DEF T
  <2> QED BY <2>1, <2>2, LastIsLastOf DEF Latest
<1>3. row["sigalert_end"] = LastOf(OfSubject(W, "sigalert end"))
  <2> DEFINE T == Subjects(log, W, "sigalert end")
  <2>1. Latest(row["sigalert_end"], T, T)
    BY DEF Done, Alerts
  <2>2. T \in SUBSET Nat /\ T = OfSubject(W, "sigalert end")
    BY <1>1
  <2> HIDE DEF T
  <2> QED BY <2>1, <2>2, LastIsLastOf DEF Latest
<1>4. row["lanes_clear"] =
        IF OfMeasure(W, "lanes clear") # {} THEN LastOf(OfMeasure(W, "lanes clear"))
        ELSE FirstOf(OfMemo(W, "clear") \cup OfSubject(W, "close"))
  <2> DEFINE L == Said(log, W, "lanes clear")
             C == Memos(log, W, "clear") \cup Subjects(log, W, "close")
  <2>1. IF L # {} THEN IsLast(row["lanes_clear"], L) ELSE Earliest(row["lanes_clear"], C)
    BY DEF Done, Clears
  <2>2. L \in SUBSET Nat /\ C \in SUBSET Nat
    BY <1>1
  <2>3. L = OfMeasure(W, "lanes clear") /\ C = OfMemo(W, "clear") \cup OfSubject(W, "close")
    BY <1>1
  <2> HIDE DEF L, C
  <2>4. CASE L # {}
    BY <2>1, <2>2, <2>3, <2>4, LastIsLastOf
  <2>5. CASE L = {}
    BY <2>1, <2>2, <2>3, <2>5, FirstIsFirstOf
  <2> QED BY <2>4, <2>5
<1>5. ASSUME OfSubject(W, "sigalert begin") = {}
      PROVE  row["verification"] = VerificationOf(W)
  <2> DEFINE V == Said(log, W, "verification") \cup Memos(log, W, "visual")
             I == Subjects(log, W, "info")
  <2>1. Earliest(row["verification"], IF V # {} THEN V ELSE I)
    BY <1>1, <1>5 DEF Done
  <2>2. V \in SUBSET Nat /\ I \in SUBSET Nat
    BY <1>1
  <2>3. VerificationOf(W) = IF V # {} THEN FirstOf(V) ELSE FirstOf(I)
    <3>3. V = OfMeasure(W, "verification") \cup OfMemo(W, "visual")
      BY <1>1, Zenon
    <3>1. V = OfMeasure(W, "verification") \cup OfMemo(W, "visual") \cup OfSubject(W, "sigalert begin")
      <4> HIDE DEF V
      <4> QED BY <1>5, <3>3
    <3>2. I = OfSubject(W, "info")
      BY <1>1
    <3> HIDE DEF V, I
    <3> QED BY <3>1, <3>2 DEF VerificationOf
  <2> HIDE DEF V, I
  <2>4. CASE V # {}
    BY <2>1, <2>2, <2>3, <2>4, FirstIsFirstOf
  <2>5. CASE V = {}
    BY <2>1, <2>2, <2>3, <2>5, FirstIsFirstOf
  <2> QED BY <2>4, <2>5
<1>6. IF OfMeasure(W, "first call") # {}
      THEN row["first_call"] = LastOf(OfMeasure(W, "first call"))
      ELSE row["first_call"] \in IF OfSubject(W, "open") = {} THEN {None} ELSE OfSubject(W, "open")
  <2> DEFINE F == Said(log, W, "first call")
             opens == Subjects(log, W, "open")
  <2>1. IF F # {} THEN IsLast(row["first_call"], F)
        ELSE row["first_call"] \in IF opens = {} THEN {None} ELSE opens
    BY DEF Done
  <2>2. F \in SUBSET Nat
    BY <1>1
  <2>3. F = OfMeasure(W, "first call") /\ opens = OfSubject(W, "open")
    BY <1>1
  <2> HIDE DEF F, opens
  <2>4. CASE F # {}
    BY <2>1, <2>2, <2>3, <2>4, LastIsLastOf
  <2>5. CASE F = {}
    BY <2>1, <2>3, <2>5
  <2> QED BY <2>4, <2>5
<1>7. MeasuresAreOf(W)
  BY DEF Done, MeasuresAreOf
<1> QED BY <1>2, <1>3, <1>4, <1>5, <1>6, <1>7 DEF EventsAreOf

LEMMA ScanSuffices == TypeInv /\ ScanInv => ScanFollowsLog
<1> SUFFICES ASSUME TypeInv, ScanInv, NEW c \in Cads, ScannedAlone(c)
             PROVE  EventsAreOf(inc[c], scan[c].of) /\ MeasuresAreOf(scan[c].of)
  BY DEF ScanFollowsLog
<1>1. scan[c].of \in SUBSET Entries
  BY DEF TypeInv, TableTypes
<1>2. Done(log, inc[c], scan[c].of, measures)
  BY DEF ScanInv, ScanOf, ScannedAlone
<1> QED BY <1>1, <1>2, DoneSuffices

(* Whatever earlier runs were killed in, left behind or crossed: when the   *)
(* log of an incident has been gone through alone and to its end, the row   *)
(* has the events of that log and each entry its measures, once             *)
(* (ScanFollowsLog).                                                        *)
THEOREM ScansFollowTheLog == Spec => []ScanFollowsLog
<1>1. Init => RowInv /\ FromInv /\ ScanInv
  <2> SUFFICES ASSUME Init PROVE RowInv /\ FromInv /\ ScanInv
    OBVIOUS
  <2>1. \A p \in Importers : run[p].step = "off"
    BY DEF Init, Off
  <2>2. \A p \in Importers : \A c : ~In(p, c)
    BY <2>1 DEF In, Reads
  <2>3. RowInv
    BY <2>1 DEF RowInv
  <2>4. FromInv
    BY <2>2 DEF FromInv, Init
  <2>5. ScanInv
    BY <2>2 DEF ScanInv, ScanOf, Init
  <2> QED BY <2>3, <2>4, <2>5
<1>2. Spec => [](TypeInv /\ RowInv /\ FromInv /\ ScanInv)
  BY <1>1, TypeInit, TypeStep, RowStep, ScanStep, PTL DEF Spec
<1> QED BY <1>2, ScanSuffices, PTL
=============================================================================
