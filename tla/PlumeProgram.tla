---------------------------- MODULE PlumeProgram ----------------------------
(***************************************************************************)
(* The constraints of the integer program that write_gams_program hands to *)
(* GAMS.  D(J1, M1) = 1 says that section J1 is in incident conditions     *)
(* during time step M1, S(J1, M1) = 1 that the disturbance starts there.   *)
(* Sections are numbered from upstream (0) to downstream (J), time steps   *)
(* are 0 .. M-1.                                                           *)
(*                                                                         *)
(* A solution D is the set d of its cells with value 1, S a set s.  As in  *)
(* GAMS a reference beyond the ends of an index set has the value 0.  Post *)
(* miles are abstracted to one section per unit of distance; evidence and  *)
(* the objective only choose among feasible solutions and are left out.    *)
(***************************************************************************)
EXTENDS Integers, FiniteSets

CONSTANTS
  J,             \* index of the section furthest downstream
  M,             \* number of time steps
  UseEq3,        \* option use_eq3
  UseEq4567,     \* option use_eq4567
  UseEq8,        \* option use_eq8
  UseEq8b,       \* option use_eq8b
  LimitToStart,  \* option limit_to_start_region, which use_eq8 overrides
  LoadReach,     \* sections a loading shock wave passes in one time step
  ClearReach,    \* sections a clearing shock wave passes in one time step
  BoundStart,    \* option bound_incident_time
  IncStart       \* incstart_index: prewindow/5

ASSUME PlumeAssumption ==
  /\ J \in Nat
  /\ M \in Nat \ {0}
  /\ UseEq3 \in BOOLEAN /\ UseEq4567 \in BOOLEAN
  /\ UseEq8 \in BOOLEAN /\ UseEq8b \in BOOLEAN
  /\ LimitToStart \in BOOLEAN
  /\ LoadReach \in Nat /\ ClearReach \in Nat
  /\ BoundStart \in BOOLEAN /\ IncStart \in Nat

Sections == 0..J
Steps == 0..(M - 1)
Cells == Sections \X Steps

CardJ == J + 1
CardM == M

Val(d, j, m) == IF <<j, m>> \in d THEN 1 ELSE 0

\* Sums of D over a set of sections, of steps, and over both.
SumK(d, K, m) == Cardinality({k \in K : <<k, m>> \in d})
SumR(d, j, R) == Cardinality({r \in R : <<j, r>> \in d})
SumKR(d, K, R) == Cardinality({c \in K \X R : c \in d})

Upstream(j)   == {k \in Sections : k < j}
Downstream(j) == {k \in Sections : k > j}
Later(m)      == {r \in Steps : r > m}
Earlier(m)    == {r \in Steps : r < m}

-----------------------------------------------------------------------------
(* The equations, each for one J1 and M1. *)

\* Mutant: one congested section further upstream is let through.
EQ1Loose(d, j, m) ==
  SumK(d, Upstream(j), m) <= CardJ + 1 - CardJ * (Val(d, j, m) - Val(d, j - 1, m))

EQ1(d, j, m) ==
  SumK(d, Upstream(j), m) <= CardJ - CardJ * (Val(d, j, m) - Val(d, j - 1, m))

EQ2(d, j, m) ==
  SumR(d, j, Later(m)) <= CardM - CardM * (Val(d, j, m) - Val(d, j, m + 1))

EQ3(d, j, m) ==
  SumR(d, j + 1, Later(m)) <= CardM - CardM * (Val(d, j, m) - Val(d, j + 1, m))

EQ3b(d, j, m) ==
  SumK(d, Upstream(j), m - 1) <= CardJ - CardJ * (Val(d, j, m) - Val(d, j, m - 1))

EQ4(d, j, m) ==
  SumKR(d, Sections, Later(m)) <=
    (2 + CardM + CardJ) * CardM * CardJ
      - CardM * CardJ * (Val(d, j, m) - Val(d, j - 1, m) + Val(d, j, m) - Val(d, j, m + 1))
      - CardM * CardJ * ((CardM - SumR(d, j - 1, Steps)) + (CardJ - SumK(d, Sections, m + 1)))

EQ5(d, j, m) ==
  SumKR(d, Downstream(j), Later(m)) <=
    2 * CardM * CardJ
      - CardM * CardJ * (Val(d, j, m) - Val(d, j + 1, m) + Val(d, j, m) - Val(d, j, m + 1))

\* Mutant: only the steps before the one before are kept free.
EQ6Late(d, j, m) ==
  SumKR(d, Downstream(j), Earlier(m - 1)) <=
    2 * CardM * CardJ
      - CardM * CardJ * (Val(d, j, m) - Val(d, j + 1, m) + Val(d, j, m) - Val(d, j, m - 1))

EQ6(d, j, m) ==
  SumKR(d, Downstream(j), Earlier(m)) <=
    2 * CardM * CardJ
      - CardM * CardJ * (Val(d, j, m) - Val(d, j + 1, m) + Val(d, j, m) - Val(d, j, m - 1))

EQ7(d, j, m) ==
  SumKR(d, Upstream(j), Earlier(m)) <=
    (2 + CardM) * CardM * CardJ
      - CardM * CardJ * (Val(d, j, m) - Val(d, j - 1, m) + Val(d, j, m) - Val(d, j, m - 1))
      - CardM * CardJ * (CardM - SumR(d, j - 1, Steps))

\* The shock wave limits; their big M is CARD(M1) although they sum over sections.
EQ8(d, j, m) ==
  SumK(d, Upstream(j - LoadReach), m + 1) <=
    CardM - CardM * (Val(d, j, m) - Val(d, j - 1, m))

EQ8_START(d, s, j, m) ==
  SumK(d, Upstream(j - LoadReach), m) <= CardM - CardM * Val(s, j, m)

EQ8b(d, j, m) ==
  SumK(d, Downstream(j + ClearReach), m - 1) <=
    CardM - CardM * (Val(d, j, m) - Val(d, j + 1, m))

\* The start cell.
ONESTART(s) == SumKR(s, Sections, Steps) <= 1

NOSTART_NOREGION(d, s) ==
  SumKR(d, Sections, Steps) <= CardM * CardJ * SumKR(s, Sections, Steps)

IFSTART_THEN_D(d, s, j, m) == Val(d, j, m) >= Val(s, j, m)

\* Mutant: cells of the step before are not forbidden.
START_BOUNDARY_Space(d, s, j, m) ==
  SumR(d, j + 1, Steps) <= CardM * CardJ - CardM * CardJ * Val(s, j, m)

START_BOUNDARY(d, s, j, m) ==
  SumK(d, Sections, m - 1) + SumR(d, j + 1, Steps) <=
    CardM * CardJ - CardM * CardJ * Val(s, j, m)

\* ORD counts from 1: all steps before incstart_index.
BOUND_INCIDENT_TIME(d) == SumKR(d, Sections, {m \in Steps : m + 1 < IncStart + 1}) <= 0

-----------------------------------------------------------------------------
(* The program as the options put it together: EQ1 and EQ2 always, as is   *)
(* the default, and no boundary_intersects_within.                         *)

\* The start cell is part of the program; EQ8 needs it.
StartComputed == LimitToStart \/ UseEq8

StartRules(d, s) ==
  /\ ONESTART(s)
  /\ NOSTART_NOREGION(d, s)
  /\ \A j \in Sections, m \in Steps :
       IFSTART_THEN_D(d, s, j, m) /\ START_BOUNDARY(d, s, j, m)

\* Mutant: the start rules are taken to make EQ3 to EQ7 superfluous.
FeasibleStartOnly(d, s) ==
  /\ \A j \in Sections, m \in Steps :
       /\ EQ1(d, j, m) /\ EQ2(d, j, m)
       /\ UseEq3 /\ ~StartComputed => EQ3(d, j, m) /\ EQ3b(d, j, m)
       /\ UseEq4567 /\ ~StartComputed =>
            EQ4(d, j, m) /\ EQ5(d, j, m) /\ EQ6(d, j, m) /\ EQ7(d, j, m)
       /\ UseEq8 => EQ8(d, j, m) /\ EQ8_START(d, s, j, m)
       /\ UseEq8b => EQ8b(d, j, m)
  /\ StartComputed => StartRules(d, s)
  /\ BoundStart => BOUND_INCIDENT_TIME(d)

Feasible(d, s) ==
  /\ \A j \in Sections, m \in Steps :
       /\ EQ1(d, j, m) /\ EQ2(d, j, m)
       /\ UseEq3 => EQ3(d, j, m) /\ EQ3b(d, j, m)
       /\ UseEq4567 => EQ4(d, j, m) /\ EQ5(d, j, m) /\ EQ6(d, j, m) /\ EQ7(d, j, m)
       /\ UseEq8 => EQ8(d, j, m) /\ EQ8_START(d, s, j, m)
       /\ UseEq8b => EQ8b(d, j, m)
  /\ StartComputed => StartRules(d, s)
  /\ BoundStart => BOUND_INCIDENT_TIME(d)
=============================================================================
