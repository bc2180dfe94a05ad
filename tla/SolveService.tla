---------------------------- MODULE SolveService ----------------------------
(***************************************************************************)
(* What a caller may expect of the remote solver, whatever files and       *)
(* processes carry the question and the answer: a client asks for one      *)
(* program at a time, and if it is given a listing, it is the whole one of *)
(* that very program; and a client that asks for a program the solver can  *)
(* solve is given its listing or told that there is none.  Of other        *)
(* programs nothing is promised: the caller may wait for ever.             *)
(* SolveExchange is shown to implement this under the conditions there.    *)
(***************************************************************************)
CONSTANTS
  Clients,       \* the processes that have programs solved
  Programs,      \* what can be asked
  Solvable,      \* the programs that can be solved to optimality
  NoAnswer       \* there is no answer (yet)

VARIABLES
  phase,         \* phase[c]: "idle", "asking", "answered" or "failed"
  asked,         \* asked[c]: the program c asked for last
  answer         \* answer[c]: the program whose whole listing c was given

serviceVars == <<phase, asked, answer>>

ServiceInit ==
  /\ phase = [c \in Clients |-> "idle"]
  /\ asked \in [Clients -> Programs]
  /\ answer = [c \in Clients |-> NoAnswer]

AskFor(c, p) ==
  /\ phase[c] # "asking"
  /\ phase' = [phase EXCEPT ![c] = "asking"]
  /\ asked' = [asked EXCEPT ![c] = p]
  /\ answer' = [answer EXCEPT ![c] = NoAnswer]

Deliver(c) ==
  /\ phase[c] = "asking"
  /\ phase' = [phase EXCEPT ![c] = "answered"]
  /\ answer' = [answer EXCEPT ![c] = asked[c]]
  /\ UNCHANGED asked

GiveUp(c) ==
  /\ phase[c] = "asking"
  /\ phase' = [phase EXCEPT ![c] = "failed"]
  /\ UNCHANGED <<asked, answer>>

ServiceNext ==
  \E c \in Clients :
    \/ \E p \in Programs : AskFor(c, p)
    \/ Deliver(c)
    \/ GiveUp(c)

ServiceSafety == ServiceInit /\ [][ServiceNext]_serviceVars

\* No one who asks for a program that can be solved is left waiting.
ServiceEnds ==
  \A c \in Clients : \A p \in Solvable :
    phase[c] = "asking" /\ asked[c] = p ~> phase[c] # "asking"

ServiceSpec == ServiceSafety /\ ServiceEnds
=============================================================================
