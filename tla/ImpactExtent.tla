---------------------------- MODULE ImpactExtent ----------------------------
(***************************************************************************)
(* What DelayComputation.pm does with a solved program once it is written  *)
(* to the database: compute_incident_start picks the cell the disturbance  *)
(* started from, compute_incident_clear picks the latest cell furthest     *)
(* upstream and sends one vehicle from there down to the start section, at *)
(* the speeds measured during the incident.                                *)
(*                                                                         *)
(* Speeds and lengths are whole numbers: a time step has TICKS ticks, and  *)
(* a vehicle of speed v drives v units per tick.  The time a section takes *)
(* is rounded down to whole ticks, where the code has fractions; a tick    *)
(* may be as short as one likes, and in the instances checked TICKS and    *)
(* the lengths are such that nothing is rounded.                           *)
(***************************************************************************)
EXTENDS PlumeProgram

CONSTANTS
  TICKS,         \* ticks of a time step
  SegLen,        \* length of each section, numbered from upstream
  SpeedFields,   \* measured speeds of the cells, 0 where nothing is known
  FreeFlow,      \* the speed taken where none is known
  North          \* the direction is N or E

ASSUME ExtentAssumption ==
  /\ TICKS \in Nat \ {0}
  /\ SegLen \in [Sections -> Nat \ {0}]
  /\ SpeedFields \subseteq [Cells -> Nat]
  /\ FreeFlow \in Nat \ {0}
  /\ North \in BOOLEAN

VARIABLES
  phase,       \* solve, start, extent, drive or done
  region,      \* the cells with incident_flag
  startCell,   \* the cells where S is 1
  speed,       \* spd of each cell of rawdata
  jstart,      \* computed_start_location
  mstart,      \* computed_start_time
  j, m,        \* the loop of compute_incident_clear
  spaceres, timeres,
  clear,       \* computed_incident_clear_time
  bounded      \* the loop ran to the end of the window

found == <<region, startCell, speed>>
vars == <<phase, region, startCell, speed, jstart, mstart, j, m,
          spaceres, timeres, clear, bounded>>

\* The loops run over 0..($J-1), which leaves out section J.
Scanned == {c \in region : c[1] < J}

\* stationdata runs from the largest post mile to the smallest, rawdata from
\* upstream to downstream: the two agree for S and W only.
StationLen(k) == SegLen[IF North THEN J - k ELSE k]

Init ==
  /\ phase = "solve"
  /\ region = {} /\ startCell = {}
  /\ speed = [c \in Cells |-> 0]
  /\ jstart = 0 /\ mstart = 0 /\ j = 0 /\ m = 0
  /\ spaceres = 0 /\ timeres = 0
  /\ clear = 0 /\ bounded = FALSE

\* GAMS returns some feasible solution, S only if it is computed; write_to_db puts
\* it into rawdata beside the measured speeds.
Solve ==
  /\ phase = "solve"
  /\ \E d \in SUBSET Cells :
       \E s \in {{}} \cup (IF StartComputed THEN {{c} : c \in d} ELSE {}) :
         /\ Feasible(d, s)
         /\ region' = d
         /\ startCell' = s
         /\ speed' \in SpeedFields
  /\ phase' = "start"
  /\ UNCHANGED <<jstart, mstart, j, m, spaceres, timeres, clear, bounded>>

\* Mutant: the latest cell of the section instead of the earliest.
ComputeStartLast ==
  /\ phase = "start"
  /\ \/ /\ Scanned = {}
        /\ jstart' = 0 /\ mstart' = 0
     \/ \E c \in Scanned :
          /\ \A e \in Scanned : e[1] < c[1] \/ (e[1] = c[1] /\ e[2] <= c[2])
          /\ jstart' = c[1] /\ mstart' = c[2]
  /\ phase' = "extent"
  /\ UNCHANGED <<region, startCell, speed, j, m, spaceres, timeres, clear, bounded>>

\* compute_incident_start: sections from downstream to upstream, in each the
\* steps from the first to the last; cell (0,0) when nothing is found.
ComputeStart ==
  /\ phase = "start"
  /\ \/ /\ Scanned = {}
        /\ jstart' = 0 /\ mstart' = 0
     \/ \E c \in Scanned :
          /\ \A e \in Scanned : e[1] < c[1] \/ (e[1] = c[1] /\ e[2] >= c[2])
          /\ jstart' = c[1] /\ mstart' = c[2]
  /\ phase' = "extent"
  /\ UNCHANGED <<region, startCell, speed, j, m, spaceres, timeres, clear, bounded>>

\* compute_incident_clear up to its loop: the steps from the last to the first,
\* in each the sections from upstream; undefined indexes count as 0.  The
\* vehicle enters the section found at the beginning of the next step.
FindExtent ==
  /\ phase = "extent"
  /\ \/ /\ Scanned = {}
        /\ j' = 0 /\ m' = 1
     \/ \E c \in Scanned :
          /\ \A e \in Scanned : e[2] < c[2] \/ (e[2] = c[2] /\ e[1] >= c[1])
          /\ j' = c[1] /\ m' = c[2] + 1
  /\ timeres' = TICKS
  /\ spaceres' = StationLen(j')
  /\ phase' = "drive"
  /\ UNCHANGED <<found, jstart, mstart, clear, bounded>>

Driving == phase = "drive" /\ j < jstart /\ m < M

\* A speed of 0 is taken for free flow.
Spd(k, t) == IF speed[<<k, t>>] = 0 THEN FreeFlow ELSE speed[<<k, t>>]

\* The step ends inside the section: timeres is not set to a whole step again.
EndStep ==
  /\ Driving
  /\ spaceres > timeres * Spd(j, m)
  /\ spaceres' = spaceres - Spd(j, m) * timeres
  /\ m' = m + 1
  /\ UNCHANGED <<phase, found, jstart, mstart, j, timeres, clear, bounded>>

\* Mutant: the time the section took is not charged.
EndSectionFree ==
  /\ Driving
  /\ spaceres <= timeres * Spd(j, m)
  /\ j' = j + 1
  /\ spaceres' = StationLen(j + 1)
  /\ UNCHANGED <<phase, found, jstart, mstart, m, timeres, clear, bounded>>

EndSection ==
  /\ Driving
  /\ spaceres <= timeres * Spd(j, m)
  /\ timeres' = timeres - spaceres \div Spd(j, m)
  /\ j' = j + 1
  /\ spaceres' = StationLen(j + 1)
  /\ UNCHANGED <<phase, found, jstart, mstart, m, clear, bounded>>

\* Mutant: the index after the last step is reported.
FinishPastEnd ==
  /\ phase = "drive"
  /\ ~Driving
  /\ bounded' = (m = M)
  /\ clear' = m
  /\ phase' = "done"
  /\ UNCHANGED <<found, jstart, mstart, j, m, spaceres, timeres>>

\* The vehicle is at the start section, or the window is over.
Finish ==
  /\ phase = "drive"
  /\ ~Driving
  /\ bounded' = (m = M)
  /\ clear' = IF m = M THEN M - 1 ELSE m
  /\ phase' = "done"
  /\ UNCHANGED <<found, jstart, mstart, j, m, spaceres, timeres>>

Next == Solve \/ ComputeStart \/ FindExtent \/ EndStep \/ EndSection \/ Finish

Spec == Init /\ [][Next]_vars

-----------------------------------------------------------------------------
(* Properties *)

\* Variables keep their types; the vehicle stays on the grid and between its
\* section's ends, so "BAD DISTANCE" is never reported.
TypeOK ==
  /\ phase \in {"solve", "start", "extent", "drive", "done"}
  /\ region \subseteq Cells /\ startCell \subseteq Cells
  /\ speed \in [Cells -> Nat]
  /\ jstart \in Sections /\ mstart \in Steps
  /\ j \in Sections /\ m \in 0..M
  /\ spaceres \in Nat /\ timeres \in 0..TICKS
  /\ clear \in Steps /\ bounded \in BOOLEAN

\* The solved region has no gap: at any time the sections in incident conditions
\* form one block, and so do the steps of any section (EQ1 and EQ2).
NoGaps ==
  \A c, e \in region :
    /\ c[2] = e[2] => \A k \in Sections : c[1] < k /\ k < e[1] => <<k, c[2]>> \in region
    /\ c[1] = e[1] => \A t \in Steps : c[2] < t /\ t < e[2] => <<c[1], t>> \in region

Adjacent(c, e) ==
  \/ c[1] = e[1] /\ (c[2] - e[2]) \in {-1, 1}
  \/ c[2] = e[2] /\ (c[1] - e[1]) \in {-1, 1}

\* The solved region is one piece: no incident is spread over two plumes that
\* touch nowhere, which EQ1 and EQ2 alone would allow (EQ3 to EQ7).
OnePlume ==
  phase = "start" =>
    \A part \in SUBSET region :
      part # {} /\ part # region => \E c \in part, e \in region \ part : Adjacent(c, e)

\* Congestion only grows upstream from the head of the incident: wherever it is
\* found, some section at least as far downstream was congested at every earlier
\* step that had congestion at all (EQ3 with its neighbours).
HeadNeverMovesDownstream ==
  \A c, e \in region :
    c[2] < e[2] => \E h \in region : h[2] = c[2] /\ h[1] >= e[1]

\* The start cell is the head of the plume: nothing is congested earlier or further
\* downstream, so it is a corner of the region (EQ8 brings START_BOUNDARY with it).
StartIsHead ==
  \A h \in startCell : \A c \in region : c[1] <= h[1] /\ c[2] >= h[2]

\* The cell that compute_incident_start finds is the one the program marked as the
\* start of the disturbance, when that cell is in a section the loops look at.
StartIsProgramsStart ==
  phase \in {"extent", "drive", "done"} =>
    \A c \in startCell : c[1] < J => c = <<jstart, mstart>>

\* Where the vehicle can be: in a section during a step, with some of the step's
\* ticks and some of the section's length left.
Positions == [section : Sections, step : 0..M, time : 0..TICKS, space : Nat]

\* Where it is when the step, or else the section, ends: every step has its whole
\* length.
Onward(p) ==
  LET v == Spd(p.section, p.step) IN
  IF p.space > p.time * v
    THEN [section |-> p.section, step |-> p.step + 1,
          time |-> TICKS, space |-> p.space - p.time * v]
    ELSE [section |-> p.section + 1, step |-> p.step,
          time |-> p.time - p.space \div v, space |-> SegLen[p.section + 1]]

\* The step in which it gets to the start section from there, M if never.
Arrive[p \in Positions] ==
  IF p.section >= jstart \/ p.step >= M THEN p.step ELSE Arrive[Onward(p)]

\* The arrival of the vehicle from where FindExtent puts it.
TrueArrival ==
  LET last == CHOOSE c \in Scanned :
                \A e \in Scanned : e[2] < c[2] \/ (e[2] = c[2] /\ e[1] >= c[1])
      from == IF Scanned = {} THEN <<0, 0>> ELSE last
  IN  Arrive[[section |-> from[1], step |-> from[2] + 1,
              time |-> TICKS, space |-> SegLen[from[1]]]]

\* The incident is never reported clear before the vehicle can have arrived: what the loop
\* does with the rest of a step only makes it late.  The one exception is what the code
\* assumes of a plume the window cuts off ("just assume $M-1 for now"): a vehicle that does
\* not arrive inside the window is reported for its last step, and for no other.
NeverClearTooEarly ==
  phase = "done" => \/ clear >= TrueArrival
                    \/ bounded /\ TrueArrival = M /\ clear = M - 1

\* Comment at the end of compute_incident_clear: when the loop runs to M the plume
\* is bounded by the window.  Fails when the loop only lost the rest of its steps.
BoundedMeansBounded ==
  phase = "done" /\ bounded => TrueArrival = M
=============================================================================
