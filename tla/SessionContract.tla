--------------------------- MODULE SessionContract ---------------------------
(***************************************************************************)
(* What the window and the session workers promise each other: the         *)
(* contract between start_execution (ui/app.py) and SessionWorker.run with *)
(* the OmegaOrchestrator.execute it calls.  Both sides implement it:       *)
(* MainWindow, which has of a session only when it is over, and Execution, *)
(* which has of the window only that it begins sessions.                   *)
(*                                                                         *)
(*   - Sessions are begun one at a time, each with at least one target.    *)
(*   - A session keeps its arguments until it announces its end, once,     *)
(*     as completed or as failed.                                          *)
(*   - One that failed is gone.  One that completed is still to return     *)
(*     from execute, and may do so while a later one is running.           *)
(***************************************************************************)
EXTENDS OmegaModels

CONSTANTS Targets,      \* what a session may be asked to sanitize
          MaxSessions   \* bound on the sessions of one behaviour

VARIABLES number,    \* sessions begun; the running one's number
          request,   \* the running session's arguments, or NoRequest
          returning  \* sessions that completed and have yet to return

vars == <<number, request, returning>>

Arguments == [mode : OperationMode, targets : (SUBSET Targets) \ {{}}, dry : BOOLEAN]

TypeOK ==
  /\ number \in 0..MaxSessions
  /\ request \in Arguments \cup {NoRequest}
  /\ returning \subseteq 1..number

Init == number = 0 /\ request = NoRequest /\ returning = {}

Begin ==
  /\ request = NoRequest /\ number < MaxSessions
  /\ number' = number + 1
  /\ request' \in Arguments
  /\ UNCHANGED returning

\* The last step of a session that the window learns of.
End == request # NoRequest /\ request' = NoRequest /\ UNCHANGED number

Complete == End /\ returning' = returning \cup {number}
Fail == End /\ UNCHANGED returning

Return ==
  /\ \E n \in returning : returning' = returning \ {n}
  /\ UNCHANGED <<number, request>>

Next == Begin \/ Complete \/ Fail \/ Return

Spec == Init /\ [][Next]_vars
=============================================================================
