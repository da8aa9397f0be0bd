--------------------------- MODULE SanitizeEngine ---------------------------
(***************************************************************************)
(* What a sanitize engine promises the code that calls it, whatever it     *)
(* sanitizes and however: the contract that DriveSanitizer.execute and     *)
(* FileSanitizer.execute implement.  An engine is called once with a plan, *)
(* works on the data of one target and answers once.                       *)
(*                                                                         *)
(*   - Data may change only while the engine works, and only when the plan *)
(*     is executable and not a dry run.                                    *)
(*   - What is erased stays erased: no later step brings data back.        *)
(*   - An answer that claims erasure is given only when no original data   *)
(*     is left; an answer that reports failure claims nothing.             *)
(*   - A dry run succeeds.                                                 *)
(***************************************************************************)
EXTENDS OmegaModels

VARIABLES status,  \* "working" until the engine answered, then "answered"
          allowed, \* the plan is executable and not a dry run
          dry,     \* the plan is a dry run
          data,    \* a DataState
          result   \* NoResult until the engine answered

vars == <<status, allowed, dry, data, result>>

TypeOK ==
  /\ status \in {"working", "answered"}
  /\ allowed \in BOOLEAN
  /\ dry \in BOOLEAN
  /\ data \in DataState
  /\ result \in ExecutionResult

Init ==
  /\ status = "working"
  /\ allowed \in BOOLEAN
  /\ dry \in BOOLEAN
  /\ dry => ~allowed
  /\ data = "intact"
  /\ result = NoResult

\* A destructive call went through, in part or completely.
Touch ==
  /\ status = "working"
  /\ allowed
  /\ data # "erased"
  /\ data' \in {"undefined", "erased"}
  /\ UNCHANGED <<status, allowed, dry, result>>

\* The answers the contract allows in the present state of the data.
Honest(r) ==
  /\ r \in ExecutionResult
  /\ r.success => dry \/ allowed
  /\ dry => r = DryRunResult
  /\ ~r.success => r.assurance_achieved = "UNSUPPORTED"
  /\ r.assurance_achieved \in ErasureClaims => data = "erased"

Answer ==
  /\ status = "working"
  /\ status' = "answered"
  /\ \E r \in ExecutionResult : Honest(r) /\ result' = r
  /\ UNCHANGED <<allowed, dry, data>>

Next == Touch \/ Answer

Spec == Init /\ [][Next]_vars
=============================================================================
