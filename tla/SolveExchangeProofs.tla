------------------------- MODULE SolveExchangeProofs -------------------------
(***************************************************************************)
(* What holds of the exchange with the solver for every number of clients, *)
(* jobs and rounds, proved with TLAPS.                                     *)
(***************************************************************************)
EXTENDS SolveExchange, TLAPS

USE ExchangeAssumption

LEMMA ListingOfProgram ==
  ASSUME NEW p \in Programs, NEW part \in Parts
  PROVE  /\ ListingOf(p, part) \in Listing
         /\ ListingOf(p, part) # NoFile
         /\ ListingOf(p, part).of = p
  BY DEF ListingOf, Listing

LEMMA ThreeParts == "head" \in Parts /\ "cells" \in Parts /\ "whole" \in Parts
  BY DEF Parts

\* GAMS has read a program while a client waits for it.
TypeInv ==
  /\ TypeOK
  /\ \A c \in Clients : pc[c] = "solve" => solving[c] \in Programs

LEMMA TypeInit == Init => TypeInv
  BY DEF Init, TypeInv, TypeOK, Programs, Steps, Resting

LEMMA TypeStep == TypeInv /\ [Next]_vars => TypeInv'
<1> SUFFICES ASSUME TypeInv, [Next]_vars PROVE TypeInv'
  OBVIOUS
<1> USE DEF TypeInv, TypeOK, Goto, AfterError, Steps, Resting
<1>1. CASE UNCHANGED vars
  BY <1>1 DEF vars
<1>2. ASSUME NEW c \in Clients, Ask(c) PROVE TypeInv'
  <2>1. <<c, want[c][2] + 1>> \in Programs
    BY <1>2 DEF Ask, Programs
  <2> QED
    BY <1>2, <2>1 DEF Ask
<1>3. ASSUME NEW c \in Clients,
             WriteProgram(c) \/ SyncProgram(c) \/ SyncProgramFails(c)
      PROVE  TypeInv'
  BY <1>3 DEF WriteProgram, SyncProgram, SyncProgramFails
<1>4. ASSUME NEW c \in Clients, StartSolver(c) PROVE TypeInv'
  <2>1. ListingOf(work[Job[c]], "head") \in Listing
    BY <1>4, ListingOfProgram, ThreeParts DEF StartSolver
  <2> QED
    BY <1>4, <2>1 DEF StartSolver
<1>5. ASSUME NEW c \in Clients, WriteCells(c) \/ FinishSolver(c) PROVE TypeInv'
  <2>1. solving[c] \in Programs
    BY <1>5 DEF WriteCells, FinishSolver
  <2>2. \A part \in Parts : ListingOf(solving[c], part) \in Listing
    BY <2>1, ListingOfProgram
  <2> QED
    BY <1>5, <2>2, ThreeParts DEF WriteCells, FinishSolver
<1>6. ASSUME NEW c \in Clients,
             StartSolverFails(c) \/ BreakSolver(c) \/ FetchListing(c) \/ FetchListingFails(c)
               \/ Killed(c)
      PROVE  TypeInv'
  BY <1>6 DEF StartSolverFails, BreakSolver, FetchListing, FetchListingFails, Killed, Disconnect
<1>7. ASSUME NEW c \in Clients, ParseImporter(c) \/ ParseWeb(c) PROVE TypeInv'
  <2>1. UNCHANGED <<want, gms, lst, work, listing, solving, late>>
    BY <1>7 DEF ParseImporter, ParseWeb
  <2>2. \E s \in Steps \cup Resting : s # "solve" /\ pc' = [pc EXCEPT ![c] = s]
    BY <1>7 DEF ParseImporter, ParseWeb, Accept, Reject
  <2>3. result' \in [Clients -> Listing \cup {NoFile}]
    BY <1>7 DEF ParseImporter, ParseWeb, Accept, Reject, Local, HasCells
  <2> QED
    BY <2>1, <2>2, <2>3
<1>8. ASSUME NEW p \in late, LateListing(p) PROVE TypeInv'
  <2>1. ListingOf(p, "whole") \in Listing
    BY <1>8, ListingOfProgram, ThreeParts
  <2> QED
    BY <1>8, <2>1 DEF LateListing
<1> QED
  BY <1>1, <1>2, <1>3, <1>4, <1>5, <1>6, <1>7, <1>8 DEF Next, Work

\* Every variable keeps its type; in particular the solver only runs on a program.
THEOREM TypeCorrect == Spec => []TypeOK
<1>1. TypeInv => TypeOK
  BY DEF TypeInv
<1> QED
  BY <1>1, TypeInit, TypeStep, PTL DEF Spec

-----------------------------------------------------------------------------
(* Files never change their job.                                           *)

\* p is a program of job j that its client has come to.
OfJob(p, j) == Job[p[1]] = j /\ p[2] \in 1..want[p[1]][2]

JobInv ==
  /\ \A c \in Clients :
       /\ want[c][1] = c
       /\ pc[c] \in Steps => want[c][2] > 0
       /\ pc[c] = "solve" => OfJob(solving[c], Job[c])
       /\ result[c] # NoFile => OfJob(result[c].of, Job[c])
       /\ pc[c] = "answered" => result[c] # NoFile
  /\ \A d \in Places, j \in Jobs :
       /\ gms[<<d, j>>] # NoFile => OfJob(gms[<<d, j>>], j)
       /\ lst[<<d, j>>] # NoFile => OfJob(lst[<<d, j>>].of, j)
  /\ \A j \in Jobs :
       /\ work[j] # NoFile => OfJob(work[j], j)
       /\ listing[j] # NoFile => OfJob(listing[j].of, j)
  /\ \A p \in late : OfJob(p, Job[p[1]])

LEMMA JobStep == TypeInv /\ TypeInv' /\ JobInv /\ [Next]_vars => JobInv'
<1> SUFFICES ASSUME TypeInv, TypeInv', JobInv, [Next]_vars PROVE JobInv'
  OBVIOUS
<1> USE DEF TypeInv, TypeOK, JobInv, Goto, AfterError, Steps, Resting
<1>1. CASE UNCHANGED vars
  BY <1>1 DEF vars, OfJob
<1>2. ASSUME NEW c \in Clients, Ask(c) PROVE JobInv'
  <2>1. \A d \in Clients : want'[d][1] = want[d][1] /\ want'[d][2] \in Nat
                           /\ want[d][2] \in Nat /\ want'[d][2] >= want[d][2]
    BY <1>2 DEF Ask, Programs
  <2>2. \A p \in Programs, j \in Jobs : OfJob(p, j) => OfJob(p, j)'
    BY <2>1 DEF OfJob, Programs
  <2>3. want'[c][2] > 0
    BY <1>2 DEF Ask, Programs
  <2>4. \A l \in Listing : l.of \in Programs
    BY DEF Listing
  <2> QED
    BY <1>2, <2>1, <2>2, <2>3, <2>4 DEF Ask, Programs
<1>3. ASSUME NEW c \in Clients, WriteProgram(c) PROVE JobInv'
  <2>1. OfJob(want[c], Job[c])
    BY <1>3 DEF WriteProgram, OfJob, Programs
  <2> QED
    BY <1>3, <2>1 DEF WriteProgram, OfJob
<1>4. ASSUME NEW c \in Clients, SyncProgram(c) \/ SyncProgramFails(c) PROVE JobInv'
  BY <1>4 DEF SyncProgram, SyncProgramFails, OfJob
<1>5. ASSUME NEW c \in Clients, StartSolver(c) PROVE JobInv'
  <2> DEFINE l == ListingOf(work[Job[c]], "head")
  <2>1. OfJob(l.of, Job[c]) /\ listing' = [listing EXCEPT ![Job[c]] = l]
    BY <1>5, ListingOfProgram, ThreeParts DEF StartSolver
  <2> HIDE DEF l
  <2>2. \A j \in Jobs : listing'[j] # NoFile => OfJob(listing'[j].of, j)
    BY <2>1
  <2> QED
    BY <1>5, <2>1, <2>2 DEF StartSolver, OfJob
<1>6. ASSUME NEW c \in Clients, WriteCells(c) \/ FinishSolver(c) PROVE JobInv'
  <2>1. PICK l \in Listing : OfJob(l.of, Job[c]) /\ listing' = [listing EXCEPT ![Job[c]] = l]
    BY <1>6, ListingOfProgram, ThreeParts DEF WriteCells, FinishSolver
  <2>2. \A j \in Jobs : listing'[j] # NoFile => OfJob(listing'[j].of, j)
    BY <2>1
  <2> QED
    BY <1>6, <2>2 DEF WriteCells, FinishSolver, OfJob
<1>7. ASSUME NEW c \in Clients,
             StartSolverFails(c) \/ FetchListing(c) \/ FetchListingFails(c)
      PROVE  JobInv'
  <2>1. CASE FetchListing(c)
    <3>1. \A d \in Places, j \in Jobs :
            lst'[<<d, j>>] = lst[<<d, j>>] \/ (j = Job[c] /\ lst'[<<d, j>>] = listing[Job[c]])
      BY <2>1 DEF FetchListing
    <3> QED
      BY <2>1, <3>1 DEF FetchListing, OfJob
  <2>2. CASE StartSolverFails(c) \/ FetchListingFails(c)
    BY <2>2 DEF StartSolverFails, FetchListingFails, OfJob
  <2> QED
    BY <1>7, <2>1, <2>2
<1>8. ASSUME NEW c \in Clients, BreakSolver(c) \/ Killed(c) PROVE JobInv'
  <2>1. pc[c] = "solve" => OfJob(solving[c], Job[solving[c][1]])
    BY DEF OfJob
  <2>2. late' = late \/ (pc[c] = "solve" /\ late' = late \cup {solving[c]})
    BY <1>8 DEF BreakSolver, Killed, Disconnect
  <2>3. /\ UNCHANGED <<want, gms, lst, work, listing, solving, result>>
        /\ \E s \in {"failed", "fetch"} : pc' = [pc EXCEPT ![c] = s]
        /\ pc[c] \in Steps
    BY <1>8 DEF BreakSolver, Killed
  <2> QED
    BY <2>1, <2>2, <2>3 DEF OfJob
<1>9. ASSUME NEW c \in Clients, ParseImporter(c) \/ ParseWeb(c) PROVE JobInv'
  BY <1>9 DEF ParseImporter, ParseWeb, Accept, Reject, Local, HasCells, OfJob
<1>10. ASSUME NEW p \in late, LateListing(p) PROVE JobInv'
  BY <1>10, ListingOfProgram, ThreeParts DEF LateListing, OfJob
<1> QED
  BY <1>1, <1>2, <1>3, <1>4, <1>5, <1>6, <1>7, <1>8, <1>9, <1>10 DEF Next, Work

\* Whatever fails and whoever shares files, no client takes the listing of another
\* incident or facility: file names are the only thing that keeps them apart.
THEOREM AnswersKeepTheirJob == Spec => []AnswerIsOfJob
<1>1. Init => JobInv
  BY DEF Init, JobInv, Programs, Steps
<1>2. JobInv => AnswerIsOfJob
  BY DEF JobInv, AnswerIsOfJob, OfJob
<1> QED
  BY <1>1, <1>2, TypeInit, TypeStep, JobStep, PTL DEF Spec

-----------------------------------------------------------------------------
(* Freshness, when no two clients share a job, nobody overlooks a failed   *)
(* call, and no solver goes on unattended.                                 *)

OwnJobs == \A c, d \in Clients : Job[c] = Job[d] => c = d
FailuresNoticed == Web = Clients \/ ~CallsMayFail

\* How far the program of c has come, step by step.
FreshInv ==
  /\ late = {}
  /\ \A c \in Clients :
       /\ pc[c] = "sync" => gms[<<Place[c], Job[c]>>] = want[c]
       /\ pc[c] = "start" => work[Job[c]] = want[c]
       /\ pc[c] = "solve" => solving[c] = want[c]
       /\ pc[c] = "fetch" => listing[Job[c]] = ListingOf(want[c], "whole")
       /\ pc[c] = "parse" => Local(c) = ListingOf(want[c], "whole")
       /\ pc[c] = "answered" => result[c] = ListingOf(want[c], "whole")

LEMMA FreshStep ==
  ASSUME OwnJobs, FailuresNoticed, SolverOutlives = FALSE,
         TypeInv, TypeInv', FreshInv, [Next]_vars
  PROVE  FreshInv'
<1> USE DEF TypeInv, TypeOK, FreshInv, Goto, Steps, Resting, OwnJobs, Local
<1>1. CASE UNCHANGED vars
  BY <1>1 DEF vars
<1>2. ASSUME NEW c \in Clients, Ask(c) PROVE FreshInv'
  BY <1>2 DEF Ask
<1>3. ASSUME NEW c \in Clients, WriteProgram(c) PROVE FreshInv'
  BY <1>3 DEF WriteProgram
<1>4. ASSUME NEW c \in Clients, SyncProgram(c) PROVE FreshInv'
  BY <1>4 DEF SyncProgram
<1>5. ASSUME NEW c \in Clients, StartSolver(c) PROVE FreshInv'
  BY <1>5 DEF StartSolver
<1>6. ASSUME NEW c \in Clients, WriteCells(c) \/ FinishSolver(c) PROVE FreshInv'
  BY <1>6 DEF WriteCells, FinishSolver
<1>7. ASSUME NEW c \in Clients, FetchListing(c) PROVE FreshInv'
  BY <1>7 DEF FetchListing
<1>8. ASSUME NEW c \in Clients,
             SyncProgramFails(c) \/ StartSolverFails(c) \/ BreakSolver(c) \/ FetchListingFails(c)
      PROVE  FreshInv'
  <2>1. CallsMayFail
    <3>2. want[c] # NoFile
      OBVIOUS
    <3>3. ListingOf(want[c], "whole") # NoFile
      BY ListingOfProgram, ThreeParts
    <3> QED
      BY <1>8, <3>2, <3>3 DEF SyncProgramFails, StartSolverFails, BreakSolver, FetchListingFails
  <2>2. c \in Web
    BY <2>1 DEF FailuresNoticed
  <2>3. pc' = [pc EXCEPT ![c] = "failed"]
    BY <1>8, <2>2 DEF SyncProgramFails, StartSolverFails, BreakSolver, FetchListingFails,
       AfterError
  <2>4. UNCHANGED <<want, gms, lst, work, listing, solving, late, result>>
    BY <1>8 DEF SyncProgramFails, StartSolverFails, BreakSolver, FetchListingFails, Disconnect
  <2> QED
    BY <2>3, <2>4
<1>9. ASSUME NEW c \in Clients, ParseImporter(c) \/ ParseWeb(c) PROVE FreshInv'
  BY <1>9, ListingOfProgram, ThreeParts DEF ParseImporter, ParseWeb, Accept, Reject, HasCells
<1>10. ASSUME NEW c \in Clients, Killed(c) PROVE FreshInv'
  BY <1>10 DEF Killed, Disconnect
<1>11. ASSUME NEW p \in late, LateListing(p) PROVE FreshInv'
  BY <1>11
<1> QED
  BY <1>1, <1>2, <1>3, <1>4, <1>5, <1>6, <1>7, <1>8, <1>9, <1>10, <1>11 DEF Next, Work

\* If every client has a job of its own, sees the calls that fail, and no solver goes on
\* unattended, then whoever takes an answer takes the whole listing of its own program.
THEOREM AnswersAreFresh ==
  ASSUME OwnJobs, FailuresNoticed, SolverOutlives = FALSE
  PROVE  Spec => []AnswerIsFresh
<1>1. Init => FreshInv
  BY DEF Init, FreshInv
<1>2. TypeInv /\ TypeInv' /\ FreshInv /\ [Next]_vars => FreshInv'
  BY FreshStep
<1>3. FreshInv => AnswerIsFresh
  BY DEF FreshInv, AnswerIsFresh
<1> QED
  BY <1>1, <1>2, <1>3, TypeInit, TypeStep, PTL DEF Spec

-----------------------------------------------------------------------------
(* Under the same conditions the exchange implements SolveService.         *)

\* The state of the service that the files and processes stand for.
Phase == [c \in Clients |-> IF pc[c] \in Steps THEN "asking" ELSE pc[c]]
Answer == [c \in Clients |-> IF pc[c] = "answered" THEN result[c].of ELSE NoFile]

LEMMA ServiceStep ==
  ASSUME OwnJobs, FailuresNoticed, SolverOutlives = FALSE,
         TypeInv, FreshInv, FreshInv', [Next]_vars
  PROVE  [Service!ServiceNext]_(Service!serviceVars)
<1> USE DEF TypeInv, TypeOK, Goto, Steps, Resting, Phase, Answer
<1> SUFFICES \/ UNCHANGED <<Phase, want, Answer>>
             \/ \E c \in Clients :
                  \/ \E p \in Programs : Service!AskFor(c, p)
                  \/ Service!Deliver(c)
                  \/ Service!GiveUp(c)
  BY DEF Service!ServiceNext, Service!serviceVars
<1>1. ASSUME NEW c \in Clients, NEW p \in Programs, p = want'[c], Ask(c)
      PROVE  Service!AskFor(c, p)
  BY <1>1 DEF Ask, Service!AskFor
<1>2. ASSUME NEW c \in Clients, Ask(c)
      PROVE  want'[c] \in Programs
  BY <1>2 DEF Ask, Programs
<1>3. ASSUME NEW c \in Clients, pc[c] \in Steps, pc' = [pc EXCEPT ![c] = "failed"],
             UNCHANGED <<want, result>>
      PROVE  Service!GiveUp(c)
  BY <1>3 DEF Service!GiveUp
<1>4. ASSUME NEW c \in Clients, NEW s \in Steps, pc[c] \in Steps, pc' = [pc EXCEPT ![c] = s],
             UNCHANGED <<want, result>>
      PROVE  UNCHANGED <<Phase, want, Answer>>
  BY <1>4
<1>5. ASSUME NEW c \in Clients, pc[c] = "parse", Accept(c), UNCHANGED want
      PROVE  Service!Deliver(c)
  <2>1. Local(c) = ListingOf(want[c], "whole")
    BY <1>5 DEF FreshInv
  <2>2. result'[c].of = want[c]
    BY <1>5, <2>1, ListingOfProgram, ThreeParts DEF Accept
  <2> QED
    BY <1>5, <2>2 DEF Accept, Service!Deliver
<1>6. ASSUME NEW c \in Clients, Work(c) \/ WriteCells(c) \/ Killed(c)
      PROVE  \/ UNCHANGED <<Phase, want, Answer>>
             \/ Service!Deliver(c)
             \/ Service!GiveUp(c)
  <2>1. \/ pc[c] = "parse" /\ Accept(c) /\ UNCHANGED want
        \/ /\ pc[c] \in Steps
           /\ \/ UNCHANGED pc
              \/ \E s \in Steps \cup {"failed"} : pc' = [pc EXCEPT ![c] = s]
           /\ UNCHANGED <<want, result>>
    BY <1>6 DEF Work, WriteCells, WriteProgram, SyncProgram, SyncProgramFails, StartSolver,
       StartSolverFails, FinishSolver, BreakSolver, FetchListing, FetchListingFails,
       ParseImporter, ParseWeb, Killed, AfterError, Reject
  <2> QED
    BY <2>1, <1>3, <1>4, <1>5 DEF Phase, Answer
<1>7. ASSUME NEW p \in late, LateListing(p)
      PROVE  UNCHANGED <<Phase, want, Answer>>
  BY <1>7 DEF LateListing
<1>8. ASSUME UNCHANGED vars
      PROVE  UNCHANGED <<Phase, want, Answer>>
  BY <1>8 DEF vars
<1>9. CASE \E c \in Clients : Ask(c)
  <2>1. PICK c \in Clients : Ask(c)
    BY <1>9
  <2>2. \E p \in Programs : Service!AskFor(c, p)
    <3>1. PICK p \in Programs : p = want'[c]
      BY <1>2, <2>1
    <3>2. Service!AskFor(c, p)
      BY <1>1, <2>1, <3>1
    <3> QED
      BY <3>2
  <2> QED
    BY <2>2
<1>10. CASE \E c \in Clients : Work(c) \/ WriteCells(c) \/ Killed(c)
  BY <1>6, <1>10
<1> QED
  BY <1>7, <1>8, <1>9, <1>10 DEF Next

\* Under the conditions of AnswersAreFresh the files, rsync, ssh and GAMS together are a
\* service that answers each question at most once, with its own answer, and never after
\* it said that there is none.
THEOREM ExchangeImplementsService ==
  ASSUME OwnJobs, FailuresNoticed, SolverOutlives = FALSE
  PROVE  Spec => ImplementsSafety
<1>1. Init => Service!ServiceInit
  BY DEF Init, Service!ServiceInit, Programs, Steps
<1>2. TypeInv /\ FreshInv /\ FreshInv' /\ [Next]_vars
        => [Service!ServiceNext]_(Service!serviceVars)
  BY ServiceStep
<1>3. Init => FreshInv
  BY DEF Init, FreshInv
<1>4. TypeInv /\ TypeInv' /\ FreshInv /\ [Next]_vars => FreshInv'
  BY FreshStep
<1> QED
  BY <1>1, <1>2, <1>3, <1>4, TypeInit, TypeStep, PTL
  DEF Spec, ImplementsSafety, Service!ServiceSafety
=============================================================================
