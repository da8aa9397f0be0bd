---------------------------- MODULE OmegaModels ----------------------------
(***************************************************************************)
(* The enumerations of omega_protocol/models.py that the other modules     *)
(* share.  An enumeration member is the string naming it in the source.    *)
(***************************************************************************)
EXTENDS Naturals

OperationMode == {"FILE_SANITIZE", "DRIVE_SANITIZE"}

AssuranceLevel == {"LOGICAL_DELETE", "BEST_EFFORT_FILE_SANITIZE", "DEVICE_CLEAR",
                   "DEVICE_PURGE", "DESTROY_REQUIRED", "UNSUPPORTED"}

\* The levels that promise something about the data that was on the target.
\* DESTROY_REQUIRED and UNSUPPORTED promise nothing; LOGICAL_DELETE promises
\* that the target is gone from the file system, not that it was overwritten.
ErasureClaims == {"BEST_EFFORT_FILE_SANITIZE", "DEVICE_CLEAR", "DEVICE_PURGE"}

AppPhase == {"IDLE", "PREFLIGHT", "RUNNING", "COMPLETE", "ERROR"}

\* What happened to the data of one target, seen from outside: untouched, in
\* an unknown mixture of old and new, or no original data left.
DataState == {"intact", "undefined", "erased"}

\* ExecutionResult, reduced to the two fields that make a claim.
ExecutionResult == [success : BOOLEAN, assurance_achieved : AssuranceLevel]

Failure == [success |-> FALSE, assurance_achieved |-> "UNSUPPORTED"]
DryRunResult == [success |-> TRUE, assurance_achieved |-> "LOGICAL_DELETE"]

\* The arguments of execute() while it does not run: it is never called without
\* targets.
NoRequest == [mode |-> "FILE_SANITIZE", targets |-> {}, dry |-> TRUE]

\* The value of a result variable before the engine returned.
NoResult == [success |-> FALSE, assurance_achieved |-> "DESTROY_REQUIRED"]
=============================================================================
