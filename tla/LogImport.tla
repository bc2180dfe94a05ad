------------------------------ MODULE LogImport ------------------------------
(* What a run of import-al.pl does before it computes delay: it copies      *)
(* entries of the activity log, copies ICAD records with their details, and *)
(* then goes through the log of each incident to find its critical events   *)
(* and performance measures. Every statement is committed at once, runs are *)
(* repeated over a growing log, and nothing keeps two of them apart.        *)
EXTENDS Naturals, FiniteSets, FiniteSetsExt, Sequences

CONSTANTS Importers,   \* the processes that may run the program
          Records,     \* key fields of the ICAD records of the TMC
          Opened,      \* [Records -> Nat]: the time of day of a record
          Clock,       \* [Records -> Seq(Nat)]: the time of day of its details
          Day,         \* length of a day
          Entries,     \* the log entries of the TMC, numbered by their stamp
          Ranges,      \* the sets of them that the dates given to a run may enclose
          Cad,         \* [Entries -> the incidents they are about]
          Logs,        \* possible contents: [Entries -> kinds of entry]
          Wanted,      \* the incidents of a type that "only-type" lets through
          MaxStarts,   \* bound: runs altogether
          None

ASSUME ImportAssumption ==
  /\ Records \subseteq Nat /\ Entries \subseteq Nat /\ IsFiniteSet(Entries)
  /\ Day \in Nat
  /\ Opened \in [Records -> 0..(Day - 1)] /\ Clock \in [Records -> Seq(0..(Day - 1))]
  /\ None \notin Entries /\ None \notin Seq(Nat)
  /\ \A log \in Logs : \A e \in Entries : log[e].details \in Seq(STRING)
  /\ MaxStarts \in Nat

\* A run copies nothing but entries.
ASSUME RangesAssumption == Ranges \subseteq SUBSET Entries

Cads == {Cad[e] : e \in Entries}

\* The columns of an incident that the program fills from its log.
Columns == {"start_time", "first_call", "verification", "lanes_clear", "sigalert_begin", "sigalert_end"}

\* No row is not a row.
ASSUME RowAssumption == None \notin [Columns -> Entries \cup {None}]

VARIABLES log,        \* what the entries of the TMC say; never changes
          al,         \* table d12_activity_log: the entries copied so far
          icad,       \* tables icad and icad_detail: None, or the details stored, in order
          inc,        \* table incidents: None, or a value for each column
          measures,   \* table performance_measures: those of each entry
          run,        \* the state of each process
          starts,     \* number of runs so far
          broken,     \* history: records whose process ended before their last detail
          scan        \* history of each incident: log last read for it, whether
                      \* that scan was ended and whether another crossed it

vars == <<log, al, icad, inc, measures, run, starts, broken, scan>>

-----------------------------------------------------------------------------
(* Dates of details.                                                        *)

\* Mutant: a detail is always of the day of its record.
StampSameDay(r, i) == Clock[r][i]

\* A detail has a time of day only; one that is before its record is of the
\* next day.
Stamp(r, i) == IF Clock[r][i] < Opened[r] THEN Clock[r][i] + Day ELSE Clock[r][i]

Before(r, i, k) == Stamp(r, i) < Stamp(r, k) \/ (Stamp(r, i) = Stamp(r, k) /\ i < k)

\* The details of a record in the order in which they are stored.
Ordered(r) ==
  CHOOSE s \in [DOMAIN Clock[r] -> DOMAIN Clock[r]] :
    \A a, b \in DOMAIN Clock[r] : a < b => Before(r, s[a], s[b])

\* What sort returns: all of its arguments, in order.
ASSUME SortAssumption ==
  \A r \in Records :
    /\ Ordered(r) \in [DOMAIN Clock[r] -> DOMAIN Clock[r]]
    /\ \A i \in DOMAIN Clock[r] : \E a \in DOMAIN Clock[r] : Ordered(r)[a] = i
    /\ \A a, b \in DOMAIN Clock[r] : a < b => Before(r, Ordered(r)[a], Ordered(r)[b])

-----------------------------------------------------------------------------
(* The incident in memory: its columns, which of them were changed since it *)
(* was read, and the two entries kept aside for the end of the scan.        *)

Set(o, col, e) ==
  [o EXCEPT !.row[col] = e, !.dirty = IF o.row[col] = e THEN @ ELSE @ \cup {col}]

SetIf(cond, o, col, e) == IF cond THEN Set(o, col, e) ELSE o

Has(o, col) == o.row[col] # None

NewRow == [col \in Columns |-> None]

\* The row in memory, its verification removed.
ClearedVerification(row) ==
  Set([row |-> row, dirty |-> {}, open |-> None, proxy |-> None], "verification", None)

\* The row as it was read, its verification and clearance removed.
Cleared(row) == Set(ClearedVerification(row), "lanes_clear", None)

\* The subject of an entry: sigalerts, what opens the incident, and the
\* first entry that may stand for its verification.
WithSubject(o, e) ==
  LET s == log[e].subject
      begun == SetIf(s = "sigalert begin", o, "sigalert_begin", e)
      ended == SetIf(s = "sigalert end", begun, "sigalert_end", e)
  IN  [ended EXCEPT !.open = IF s = "open" THEN e ELSE @,
                    !.proxy = IF s \in {"info", "sigalert begin"} /\ @ = None THEN e ELSE @]

\* Mutant: every verification counts, not only the first.
WithMeasureLast(o, e, m) ==
  LET called == SetIf(m = "first call", o, "first_call", e)
      verified == SetIf(m = "verification", called, "verification", e)
  IN  SetIf(m = "lanes clear", verified, "lanes_clear", e)

\* A performance measure m of entry e. Blocked lanes are of type STATUS, so
\* the branch for a type LANES BLOCKED is never taken.
WithMeasure(o, e, m) ==
  LET called == SetIf(m = "first call", o, "first_call", e)
      verified == SetIf(m = "verification" /\ ~Has(o, "verification"), called, "verification", e)
  IN  SetIf(m = "lanes clear", verified, "lanes_clear", e)

\* All lanes blocked has no type and is not stored.
IsStored(m) == m # "all lanes blocked"

\* The memo of an entry, asked only for what is still missing.
WithMemo(o, e) ==
  LET seen == SetIf(~Has(o, "verification") /\ log[e].memo = "visual", o, "verification", e)
      alert == SetIf(~Has(seen, "verification") /\ Has(o, "sigalert_begin"), seen,
                     "verification", o.row["sigalert_begin"])
  IN  SetIf(~Has(o, "lanes_clear") /\ (log[e].memo = "clear" \/ log[e].subject = "close"), alert,
            "lanes_clear", e)

\* What is still missing at the end of the log.
WithFallbacks(o) ==
  LET called == SetIf(~Has(o, "first_call") /\ o.open # None, o, "first_call", o.open)
  IN  SetIf(~Has(o, "verification") /\ o.proxy # None, called, "verification", o.proxy)

-----------------------------------------------------------------------------
(* A process. "step" is where it is, "todo" the records or incidents it has *)
(* still to go through, "n" the next detail of the record or entry at hand, *)
(* "seen" the entries its query for incidents counted, "lines" what is left *)
(* of the log it goes through and "o" the incident in memory.               *)

Off == [step |-> "off", todo |-> {}, n |-> 0, seen |-> {}, lines |-> {}, o |-> None]

Init ==
  /\ log \in Logs
  /\ al = {}
  /\ icad = [r \in Records |-> None]
  /\ inc = [c \in Cads |-> None]
  /\ measures = [e \in Entries |-> <<>>]
  /\ run = [p \in Importers |-> Off]
  /\ starts = 0
  /\ broken = {}
  /\ scan = [c \in Cads |-> [of |-> {}, ended |-> FALSE, crossed |-> FALSE]]

Goes(p, r) == run' = [run EXCEPT ![p] = r]

At(p, step) == run[p].step = step

\* Mutant: the table is filled anew.
LoadAnew(p, es, rs) ==
  /\ At(p, "off") /\ starts < MaxStarts
  /\ al' = es
  /\ Goes(p, [Off EXCEPT !.step = "icad", !.todo = rs])
  /\ starts' = starts + 1
  /\ UNCHANGED <<log, icad, inc, measures, broken, scan>>

\* A run starts and copies the entries in its range of dates that are not
\* there yet; it will copy the records rs.
Load(p, es, rs) ==
  /\ At(p, "off") /\ starts < MaxStarts
  /\ al' = al \cup es
  /\ Goes(p, [Off EXCEPT !.step = "icad", !.todo = rs])
  /\ starts' = starts + 1
  /\ UNCHANGED <<log, icad, inc, measures, broken, scan>>

(* ICAD records, by key field. *)

\* A record that exists is a duplicate.
KnownRecord(r) == icad[r] # None

Record(p) == Min(run[p].todo)

FindRecord(p) ==
  /\ At(p, "icad") /\ run[p].todo # {}
  /\ Goes(p, IF KnownRecord(Record(p))
             THEN [run[p] EXCEPT !.todo = @ \ {Record(p)}]
             ELSE [run[p] EXCEPT !.step = "record"])
  /\ UNCHANGED <<log, al, icad, inc, measures, starts, broken, scan>>

\* The program croaks when somebody else has created the record by now.
CreateRecord(p) ==
  /\ At(p, "record")
  /\ IF icad[Record(p)] = None
     THEN /\ icad' = [icad EXCEPT ![Record(p)] = <<>>]
          /\ Goes(p, [run[p] EXCEPT !.step = "details", !.n = 1])
     ELSE Goes(p, Off) /\ UNCHANGED icad
  /\ UNCHANGED <<log, al, inc, measures, starts, broken, scan>>

AddDetail(p) ==
  LET r == Record(p)
  IN  /\ At(p, "details") /\ run[p].n <= Len(Clock[r])
      /\ icad' = [icad EXCEPT ![r] = Append(@, Ordered(r)[run[p].n])]
      /\ Goes(p, [run[p] EXCEPT !.n = @ + 1])
      /\ UNCHANGED <<log, al, inc, measures, starts, broken, scan>>

EndRecord(p) ==
  /\ At(p, "details") /\ run[p].n > Len(Clock[Record(p)])
  /\ Goes(p, [run[p] EXCEPT !.step = "icad", !.todo = @ \ {Record(p)}])
  /\ UNCHANGED <<log, al, icad, inc, measures, starts, broken, scan>>

(* Incidents, by their first entry. *)

\* The query: those of the incidents cs that have an entry not before "from".
\* That a range of dates ends somewhere only leaves incidents out.
QueryIncidents(p, from, cs) ==
  /\ At(p, "icad") /\ run[p].todo = {}
  /\ LET es == {e \in al : e >= from /\ Cad[e] \in cs}
     IN  Goes(p, [Off EXCEPT !.step = "incidents", !.todo = {Cad[e] : e \in es}, !.seen = es])
  /\ UNCHANGED <<log, al, icad, inc, measures, starts, broken, scan>>

FirstEntry(p, c) == Min({e \in run[p].seen : Cad[e] = c})

Incident(p) == CHOOSE c \in run[p].todo : \A d \in run[p].todo : FirstEntry(p, c) <= FirstEntry(p, d)

\* The next incident is in the row just read or created: it gets its start,
\* and if it is of a wanted type its log is read.
Opens(p, row) ==
  LET c == Incident(p)
      lines == {e \in al : Cad[e] = c}
      inside == {q \in Importers \ {p} : run[q].step \in {"entry", "measures"} /\ Incident(q) = c}
  IN  IF c \in Wanted
      THEN /\ Goes(p, [run[p] EXCEPT !.step = "entry", !.lines = lines,
                                     !.o = Set(row, "start_time", FirstEntry(p, c))])
           /\ scan' = [scan EXCEPT ![c] = [of |-> lines, ended |-> FALSE, crossed |-> inside # {}]]
      ELSE Goes(p, [run[p] EXCEPT !.step = "incidents", !.todo = @ \ {c}]) /\ UNCHANGED scan

FindIncident(p) ==
  /\ At(p, "incidents") /\ run[p].todo # {}
  /\ IF inc[Incident(p)] = None
     THEN Goes(p, [run[p] EXCEPT !.step = "incident"]) /\ UNCHANGED scan
     ELSE Opens(p, Cleared(inc[Incident(p)]))
  /\ UNCHANGED <<log, al, icad, inc, measures, starts, broken>>

\* When somebody else has created it by now, the loop over incidents ends.
CreateIncident(p) ==
  /\ At(p, "incident")
  /\ IF inc[Incident(p)] = None
     THEN inc' = [inc EXCEPT ![Incident(p)] = NewRow] /\ Opens(p, Cleared(NewRow))
     ELSE Goes(p, Off) /\ UNCHANGED <<inc, scan>>
  /\ UNCHANGED <<log, al, icad, measures, starts, broken>>

\* The next entry: its subject, and its measures of an earlier scan deleted.
TakeEntry(p) ==
  LET e == Min(run[p].lines)
  IN  /\ At(p, "entry") /\ run[p].lines # {}
      /\ measures' = [measures EXCEPT ![e] = <<>>]
      /\ Goes(p, [run[p] EXCEPT !.step = "measures", !.n = 1, !.o = WithSubject(@, e)])
      /\ UNCHANGED <<log, al, icad, inc, starts, broken, scan>>

TakeMeasure(p) ==
  LET e == Min(run[p].lines)
      m == log[e].details[run[p].n]
  IN  /\ At(p, "measures") /\ run[p].n <= Len(log[e].details)
      /\ measures' = [measures EXCEPT ![e] = IF IsStored(m) THEN Append(@, m) ELSE @]
      /\ Goes(p, [run[p] EXCEPT !.n = @ + 1, !.o = WithMeasure(@, e, m)])
      /\ UNCHANGED <<log, al, icad, inc, starts, broken, scan>>

TakeMemo(p) ==
  LET e == Min(run[p].lines)
  IN  /\ At(p, "measures") /\ run[p].n > Len(log[e].details)
      /\ Goes(p, [run[p] EXCEPT !.step = "entry", !.lines = @ \ {e}, !.o = WithMemo(@, e)])
      /\ UNCHANGED <<log, al, icad, inc, measures, starts, broken, scan>>

\* update: only the columns that were changed.
StoredRow(old, o) == [col \in Columns |-> IF col \in o.dirty THEN o.row[col] ELSE old[col]]

UpdateIncident(p) ==
  LET c == Incident(p)
  IN  /\ At(p, "entry") /\ run[p].lines = {}
      /\ inc' = [inc EXCEPT ![c] = StoredRow(@, WithFallbacks(run[p].o))]
      /\ Goes(p, [run[p] EXCEPT !.step = "incidents", !.todo = @ \ {c}, !.o = None])
      /\ scan' = [scan EXCEPT ![c].ended = TRUE]
      /\ UNCHANGED <<log, al, icad, measures, starts, broken>>

\* The run is over for what is modelled here: all incidents done or skipped.
EndRun(p) ==
  /\ At(p, "incidents") \/ At(p, "icad")
  /\ run[p].todo = {}
  /\ Goes(p, Off)
  /\ UNCHANGED <<log, al, icad, inc, measures, starts, broken, scan>>

\* The process is killed or croaks, or a statement fails and ends the loop
\* over incidents with all that are left.
Breaks(p) ==
  /\ ~At(p, "off")
  /\ broken' = IF At(p, "details") /\ run[p].n <= Len(Clock[Record(p)])
               THEN broken \cup {Record(p)} ELSE broken
  /\ Goes(p, Off)
  /\ UNCHANGED <<log, al, icad, inc, measures, starts, scan>>

Work(p) ==
  \/ FindRecord(p) \/ CreateRecord(p) \/ AddDetail(p) \/ EndRecord(p)
  \/ \E from \in Entries, cs \in SUBSET Cads : QueryIncidents(p, from, cs)
  \/ FindIncident(p) \/ CreateIncident(p)
  \/ TakeEntry(p) \/ TakeMeasure(p) \/ TakeMemo(p) \/ UpdateIncident(p)
  \/ EndRun(p)

Next ==
  \E p \in Importers :
    \/ \E es \in Ranges, rs \in SUBSET Records : Load(p, es, rs)
    \/ Work(p)
    \/ Breaks(p)

Spec == Init /\ [][Next]_vars

-----------------------------------------------------------------------------
(* Properties.                                                              *)

Rows == [Columns -> Entries \cup {None}]

Objects == [row : Rows, dirty : SUBSET Columns, open : Entries \cup {None}, proxy : Entries \cup {None}]

\* The types of the tables and of the processes' variables; a process in the
\* middle of a record, an incident or an entry has one.
TypeOK ==
  /\ log \in Logs /\ al \subseteq Entries
  /\ \A r \in Records : icad[r] = None \/ icad[r] \in Seq(DOMAIN Clock[r])
  /\ \A c \in Cads : inc[c] = None \/ inc[c] \in Rows
  /\ \A e \in Entries : measures[e] \in Seq(STRING)
  /\ starts \in 0..MaxStarts /\ broken \subseteq Records
  /\ scan \in [Cads -> [of : SUBSET al, ended : BOOLEAN, crossed : BOOLEAN]]
  /\ \A p \in Importers :
       /\ run[p].step \in {"off", "icad", "record", "details", "incidents", "incident", "entry", "measures"}
       /\ run[p].n \in Nat /\ run[p].seen \subseteq al /\ run[p].lines \subseteq al
       /\ run[p].step \in {"icad", "record", "details"} => run[p].todo \subseteq Records
       /\ run[p].step \in {"incidents", "incident", "entry", "measures"} =>
            run[p].todo = {Cad[e] : e \in {f \in run[p].seen : Cad[f] \in run[p].todo}}
       /\ run[p].step \notin {"off", "icad", "incidents"} => run[p].todo # {}
       /\ run[p].step \in {"entry", "measures"} => run[p].o \in Objects
       /\ run[p].step = "measures" => run[p].lines # {}

\* What time after its record a detail was written, if that was within a day.
Elapsed(r, i) == (Clock[r][i] + Day - Opened[r]) % Day

\* The details of an ICAD record are stored once each and as they happened,
\* also across midnight and when two runs import the same records; a record
\* lacks its last details only while the process that created it is at it
\* or if that process ended there (I:602-657: no later run adds them).
RecordsWhole ==
  \A r \in Records : icad[r] # None =>
    LET stored == {icad[r][k] : k \in DOMAIN icad[r]}
        missing == DOMAIN Clock[r] \ stored
    IN  /\ \A j, k \in DOMAIN icad[r] : j < k =>
             icad[r][j] # icad[r][k] /\ Elapsed(r, icad[r][j]) <= Elapsed(r, icad[r][k])
        /\ \A i \in stored, k \in missing : Elapsed(r, i) <= Elapsed(r, k)
        /\ missing # {} =>
             r \in broken \/ \E p \in Importers : At(p, "details") /\ Record(p) = r

LastOf(es) == IF es = {} THEN None ELSE Max(es)
FirstOf(es) == IF es = {} THEN None ELSE Min(es)

OfSubject(es, s) == {e \in es : log[e].subject = s}
OfMeasure(es, m) == {e \in es : \E i \in DOMAIN log[e].details : log[e].details[i] = m}
OfMemo(es, m) == {e \in es : log[e].memo = m}

\* What verifies an incident: the first entry that says so, or at which a
\* sigalert begins; without any, the first information.
VerificationOf(es) ==
  LET begin == OfSubject(es, "sigalert begin")
      verify == OfMeasure(es, "verification") \cup OfMemo(es, "visual") \cup begin
  IN  IF verify # {} THEN FirstOf(verify) ELSE FirstOf(OfSubject(es, "info"))

\* The critical events of a row are those of the log es.
EventsAreOf(row, es) ==
  /\ row["sigalert_begin"] = LastOf(OfSubject(es, "sigalert begin"))
  /\ row["sigalert_end"] = LastOf(OfSubject(es, "sigalert end"))
  /\ row["lanes_clear"] =
       IF OfMeasure(es, "lanes clear") # {} THEN LastOf(OfMeasure(es, "lanes clear"))
       ELSE FirstOf(OfMemo(es, "clear") \cup OfSubject(es, "close"))
  /\ OfSubject(es, "sigalert begin") = {} => row["verification"] = VerificationOf(es)
  /\ IF OfMeasure(es, "first call") # {}
     THEN row["first_call"] = LastOf(OfMeasure(es, "first call"))
     ELSE row["first_call"] \in IF OfSubject(es, "open") = {} THEN {None} ELSE OfSubject(es, "open")

\* What is stored of the first n of some measures.
Kept(ms) ==
  LET kept[n \in 0..Len(ms)] ==
        IF n = 0 THEN <<>> ELSE IF IsStored(ms[n]) THEN Append(kept[n - 1], ms[n]) ELSE kept[n - 1]
  IN  kept

MeasuresAreOf(es) == \A e \in es : measures[e] = Kept(log[e].details)[Len(log[e].details)]

\* The last scan of the incident came to its end, and no other was in it.
ScannedAlone(c) == scan[c].ended /\ ~scan[c].crossed

\* Whatever runs before were killed or crossed each other: once the log of
\* an incident has been gone through alone and to its end, the row has the
\* critical events of that log, and each entry its measures, once
\* (I:718-720 and I:814: what a run left is cleared or deleted first). Two
\* columns may still come from an earlier run: the verification where a
\* sigalert begins, and, without a measure for it, which of the entries that
\* open the incident is its first call.
ScanFollowsLog ==
  \A c \in Cads : ScannedAlone(c) => EventsAreOf(inc[c], scan[c].of) /\ MeasuresAreOf(scan[c].of)

\* "clear critical events for reprocessing" (I:718): the verification of an
\* incident depends on its log only, not on what an earlier run found.
VerificationIsOfLog ==
  \A c \in Cads : ScannedAlone(c) => inc[c]["verification"] = VerificationOf(scan[c].of)
=============================================================================
