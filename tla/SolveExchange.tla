---------------------------- MODULE SolveExchange ----------------------------
(***************************************************************************)
(* How a delay program gets to the solver and its listing back.  Two kinds *)
(* of client do it the same way: the batch importer (solve_program of      *)
(* TMCPE::DelayComputation) and the web application (RemoteExecutor and    *)
(* computeIncidentFacilityPerformance of GamsDelayComputationService).     *)
(* Each writes a .gms file, copies it with rsync to the one directory      *)
(* tmcpe/work of the solver host, runs gams.exe there over ssh, copies the *)
(* .lst file back and parses it.  All files are named after the CAD id,    *)
(* the facility and the direction and survive from one call to the next.   *)
(*                                                                         *)
(* The importer does not look at the exit codes of the three calls; the    *)
(* web application throws, and solves again while the model is not         *)
(* OPTIMAL.  A call that exits with zero has done its work.                *)
(***************************************************************************)
EXTENDS Naturals, FiniteSets

CONSTANTS
  Clients,       \* processes that solve
  Web,           \* the web application among them; the others run the importer
  Jobs,          \* file names without suffix: cad-facility=direction
  Places,        \* local directories for .gms and .lst files
  Job,           \* Job[c]: the job of client c
  Place,         \* Place[c]: the local directory of client c
  CallsMayFail,  \* may rsync or ssh exit with an error?
  SolverOutlives, \* may GAMS go on when the connection to it is lost?
  Optimal,       \* the programs GAMS reports MODEL STATUS "OPTIMAL" for
  MaxRounds,     \* bound of the model: programs per client
  NoFile         \* there is no such file

\* A client's programs differ from round to round by the analysed window.
Programs == Clients \X (0..MaxRounds)

\* How far a listing goes: not to the end of the cells VAR D, to the end of these but not
\* of the sums after them (the delays, STB and SSB), or to its end.
Parts == {"head", "cells", "whole"}

Listing == [of : Programs, part : Parts]

ListingOf(p, part) == [of |-> p, part |-> part]

ASSUME ExchangeAssumption ==
  /\ Web \subseteq Clients
  /\ Job \in [Clients -> Jobs]
  /\ Place \in [Clients -> Places]
  /\ CallsMayFail \in BOOLEAN
  /\ SolverOutlives \in BOOLEAN
  /\ MaxRounds \in Nat
  /\ NoFile \notin Programs
  /\ NoFile \notin Listing

VARIABLES
  pc,         \* pc[c]: what client c does next
  want,       \* want[c]: the program it has solved
  gms, lst,   \* gms[d, j], lst[d, j]: the local files of job j in directory d
  work,       \* work[j]: the .gms of job j in tmcpe/work on the solver host
  listing,    \* listing[j]: the .lst of job j there
  solving,    \* solving[c]: the program GAMS has read for c
  late,       \* programs GAMS is solving that nobody waits for any more
  result      \* result[c]: the listing c took for its answer

vars == <<pc, want, gms, lst, work, listing, solving, late, result>>

Steps == {"write", "sync", "start", "solve", "fetch", "parse"}
Resting == {"idle", "answered", "failed"}

TypeOK ==
  /\ pc \in [Clients -> Steps \cup Resting]
  /\ want \in [Clients -> Programs]
  /\ gms \in [Places \X Jobs -> Programs \cup {NoFile}]
  /\ lst \in [Places \X Jobs -> Listing \cup {NoFile}]
  /\ work \in [Jobs -> Programs \cup {NoFile}]
  /\ listing \in [Jobs -> Listing \cup {NoFile}]
  /\ solving \in [Clients -> Programs \cup {NoFile}]
  /\ late \subseteq Programs
  /\ result \in [Clients -> Listing \cup {NoFile}]

Init ==
  /\ pc = [c \in Clients |-> "idle"]
  /\ want = [c \in Clients |-> <<c, 0>>]
  /\ gms = [f \in Places \X Jobs |-> NoFile]
  /\ lst = [f \in Places \X Jobs |-> NoFile]
  /\ work = [j \in Jobs |-> NoFile]
  /\ listing = [j \in Jobs |-> NoFile]
  /\ solving = [c \in Clients |-> NoFile]
  /\ late = {}
  /\ result = [c \in Clients |-> NoFile]

Goto(c, step) == pc' = [pc EXCEPT ![c] = step]

\* Mutant: the web application does not look at exit codes either.
AfterErrorIgnored(c, step) == Goto(c, step)

\* What a client does after a call that exits with an error: the importer goes on.
AfterError(c, step) == IF c \in Web THEN Goto(c, "failed") ELSE Goto(c, step)

-----------------------------------------------------------------------------
\* The next window is to be solved.
Ask(c) ==
  /\ pc[c] \in Resting
  /\ want[c][2] < MaxRounds
  /\ want' = [want EXCEPT ![c] = <<c, want[c][2] + 1>>]
  /\ result' = [result EXCEPT ![c] = NoFile]
  /\ Goto(c, "write")
  /\ UNCHANGED <<gms, lst, work, listing, solving, late>>

\* write_gams_program, createGamsData: an existing file is overwritten.
WriteProgram(c) ==
  /\ pc[c] = "write"
  /\ gms' = [gms EXCEPT ![<<Place[c], Job[c]>>] = want[c]]
  /\ Goto(c, "sync")
  /\ UNCHANGED <<want, lst, work, listing, solving, late, result>>

SyncProgram(c) ==
  /\ pc[c] = "sync"
  /\ work' = [work EXCEPT ![Job[c]] = gms[<<Place[c], Job[c]>>]]
  /\ Goto(c, "start")
  /\ UNCHANGED <<want, gms, lst, listing, solving, late, result>>

SyncProgramFails(c) ==
  /\ pc[c] = "sync"
  /\ CallsMayFail
  /\ AfterError(c, "start")
  /\ UNCHANGED <<want, gms, lst, work, listing, solving, late, result>>

\* Mutant: a program that is not there is solved all the same.
StartSolverUnchecked(c) ==
  /\ pc[c] = "start"
  /\ solving' = [solving EXCEPT ![c] = work[Job[c]]]
  /\ listing' = [listing EXCEPT ![Job[c]] = ListingOf(work[Job[c]], "head")]
  /\ Goto(c, "solve")
  /\ UNCHANGED <<want, gms, lst, work, late, result>>

\* GAMS reads the program and begins a new listing.
StartSolver(c) ==
  /\ pc[c] = "start"
  /\ work[Job[c]] # NoFile
  /\ solving' = [solving EXCEPT ![c] = work[Job[c]]]
  /\ listing' = [listing EXCEPT ![Job[c]] = ListingOf(work[Job[c]], "head")]
  /\ Goto(c, "solve")
  /\ UNCHANGED <<want, gms, lst, work, late, result>>

StartSolverFails(c) ==
  /\ pc[c] = "start"
  /\ CallsMayFail \/ work[Job[c]] = NoFile
  /\ AfterError(c, "fetch")
  /\ UNCHANGED <<want, gms, lst, work, listing, solving, late, result>>

\* GAMS has written the cells of the solution.
WriteCells(c) ==
  /\ pc[c] = "solve"
  /\ listing' = [listing EXCEPT ![Job[c]] = ListingOf(solving[c], "cells")]
  /\ UNCHANGED <<pc, want, gms, lst, work, solving, late, result>>

\* GAMS ends its listing.
FinishSolver(c) ==
  /\ pc[c] = "solve"
  /\ listing' = [listing EXCEPT ![Job[c]] = ListingOf(solving[c], "whole")]
  /\ Goto(c, "fetch")
  /\ UNCHANGED <<want, gms, lst, work, solving, late, result>>

\* GAMS runs for c and the connection to it is lost: it ends with its listing unfinished,
\* or it goes on and writes the rest later.
Disconnect(c) ==
  \/ UNCHANGED late
  \/ SolverOutlives /\ late' = late \cup {solving[c]}

BreakSolver(c) ==
  /\ pc[c] = "solve"
  /\ CallsMayFail
  /\ Disconnect(c)
  /\ AfterError(c, "fetch")
  /\ UNCHANGED <<want, gms, lst, work, listing, solving, result>>

LateListing(p) ==
  /\ p \in late
  /\ listing' = [listing EXCEPT ![Job[p[1]]] = ListingOf(p, "whole")]
  /\ late' = late \ {p}
  /\ UNCHANGED <<pc, want, gms, lst, work, solving, result>>

\* Mutant: the listing last written on the solver host is fetched, whose ever it is.
FetchListingAny(c) ==
  /\ pc[c] = "fetch"
  /\ \E j \in Jobs :
       /\ listing[j] # NoFile
       /\ lst' = [lst EXCEPT ![<<Place[c], Job[c]>>] = listing[j]]
  /\ Goto(c, "parse")
  /\ UNCHANGED <<want, gms, work, listing, solving, late, result>>

FetchListing(c) ==
  /\ pc[c] = "fetch"
  /\ listing[Job[c]] # NoFile
  /\ lst' = [lst EXCEPT ![<<Place[c], Job[c]>>] = listing[Job[c]]]
  /\ Goto(c, "parse")
  /\ UNCHANGED <<want, gms, work, listing, solving, late, result>>

FetchListingFails(c) ==
  /\ pc[c] = "fetch"
  /\ CallsMayFail \/ listing[Job[c]] = NoFile
  /\ AfterError(c, "parse")
  /\ UNCHANGED <<want, gms, lst, work, listing, solving, late, result>>

-----------------------------------------------------------------------------
Local(c) == lst[<<Place[c], Job[c]>>]

Accept(c) ==
  /\ result' = [result EXCEPT ![c] = Local(c)]
  /\ Goto(c, "answered")

Reject(c) ==
  /\ Goto(c, "failed")
  /\ UNCHANGED result

\* Mutant: the importer insists on an optimal solution as the web application does.
ParseImporterRetry(c) ==
  /\ pc[c] = "parse"
  /\ c \notin Web
  /\ IF Local(c) = NoFile \/ Local(c).of \notin Optimal
     THEN Goto(c, "write") /\ UNCHANGED result
     ELSE Accept(c)
  /\ UNCHANGED <<want, gms, lst, work, listing, solving, late>>

\* parse_results: any file will do; one that breaks off sets no error.
ParseImporter(c) ==
  /\ pc[c] = "parse"
  /\ c \notin Web
  /\ IF Local(c) = NoFile THEN Reject(c) ELSE Accept(c)
  /\ UNCHANGED <<want, gms, lst, work, listing, solving, late>>

\* parseLstData throws when it does not find the cells; a section missing after them is
\* only logged.
HasCells(c) == Local(c) # NoFile /\ Local(c).part # "head"

\* Mutant: the test of the while loop is the wrong way round.
ParseWebInverted(c) ==
  /\ pc[c] = "parse"
  /\ c \in Web
  /\ \/ /\ ~HasCells(c)
        /\ Reject(c)
     \/ /\ HasCells(c)
        /\ IF Local(c).of \in Optimal
           THEN Goto(c, "write") /\ UNCHANGED result
           ELSE Accept(c)
  /\ UNCHANGED <<want, gms, lst, work, listing, solving, late>>

\* parseLstData and the test of the while loop: while the model is not optimal the same
\* program is solved again.
ParseWeb(c) ==
  /\ pc[c] = "parse"
  /\ c \in Web
  /\ \/ /\ ~HasCells(c)
        /\ Reject(c)
     \/ /\ HasCells(c)
        /\ IF Local(c).of \in Optimal
           THEN Accept(c)
           ELSE Goto(c, "write") /\ UNCHANGED result
  /\ UNCHANGED <<want, gms, lst, work, listing, solving, late>>

\* The client process is killed.
Killed(c) ==
  /\ pc[c] \in Steps
  /\ CallsMayFail
  /\ IF pc[c] = "solve" THEN Disconnect(c) ELSE UNCHANGED late
  /\ Goto(c, "failed")
  /\ UNCHANGED <<want, gms, lst, work, listing, solving, result>>

Work(c) ==
  \/ WriteProgram(c)
  \/ SyncProgram(c) \/ SyncProgramFails(c)
  \/ StartSolver(c) \/ StartSolverFails(c)
  \/ FinishSolver(c) \/ BreakSolver(c)
  \/ FetchListing(c) \/ FetchListingFails(c)
  \/ ParseImporter(c) \/ ParseWeb(c)

Next ==
  \/ \E c \in Clients : Ask(c) \/ Work(c) \/ WriteCells(c) \/ Killed(c)
  \/ \E p \in late : LateListing(p)

Spec == Init /\ [][Next]_vars

\* Each client is a process of its own that waits for the calls it makes.
FairSpec == Spec /\ \A c \in Clients : WF_vars(Work(c))

-----------------------------------------------------------------------------
\* A client that takes an answer takes the whole listing of the program it wrote for this
\* window: not one of an earlier window, not one that is still being written, not one of
\* another client whose files have the same names.
AnswerIsFresh ==
  \A c \in Clients : pc[c] = "answered" => result[c] = ListingOf(want[c], "whole")

\* Whatever fails unnoticed, and whoever shares the files of a job, a client never takes
\* the listing of another incident or facility, nor of a window not yet come to.
AnswerIsOfJob ==
  \A c \in Clients :
    pc[c] = "answered" =>
      LET p == result[c].of
      IN  Job[p[1]] = Job[c] /\ p[2] \in 1..want[p[1]][2]

\* The service the exchange stands for.
Service == INSTANCE SolveService WITH
  Solvable <- Optimal,
  NoAnswer <- NoFile,
  phase    <- [c \in Clients |-> IF pc[c] \in Steps THEN "asking" ELSE pc[c]],
  asked    <- want,
  answer   <- [c \in Clients |-> IF pc[c] = "answered" THEN result[c].of ELSE NoFile]

\* The safety of the service: a client is given at most one answer to each question, the
\* whole listing of its program, and none after it was told that there is none.
ImplementsSafety == Service!ServiceSafety

\* The exchange implements the service: that, and every client that asks for a program GAMS
\* can solve to optimality is answered or told that there is no answer, although the web
\* application solves any other program again for ever.
Implements == Service!ServiceSpec

\* Every computation that is begun ends, with or without an answer.
EveryAskEnds == \A c \in Clients : pc[c] = "write" ~> pc[c] \in Resting
=============================================================================
