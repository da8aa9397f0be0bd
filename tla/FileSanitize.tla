---------------------------- MODULE FileSanitize ----------------------------
(***************************************************************************)
(* engines/file_sanitize.py: FileSanitizer.execute for one plan, with      *)
(* omega_file_sanitize of lower.cpp and the Python overwrite it falls back *)
(* to.  The content of the file is a sequence of chunks; a chunk keeps its *)
(* last value when the file is truncated or deleted, for that is what the  *)
(* freed clusters hold.                                                    *)
(*                                                                         *)
(* The environment may fail any call, and cut any raw write short: Python  *)
(* ignores how much an unbuffered write wrote, the C++ code checks it.     *)
(***************************************************************************)
EXTENDS Policy, Sequences

CONSTANTS MaxBlocks,       \* bound on the size of the file, in chunks
          StaleLastError   \* GetLastError may be 0 after a failure that does not set it

ASSUME BlocksAssumption == MaxBlocks \in Nat
ASSUME StaleAssumption == StaleLastError \in BOOLEAN

VARIABLES plan,      \* the ExecutionPlan
          native,    \* native_bridge.state.available
          pc,        \* where execute is
          content,   \* what the chunks of the file hold
          truncated, \* the file has been cut to zero bytes
          path,      \* the file's name: "target", "renamed" or "gone"
          size,      \* the size the current pass was started with
          remaining, \* chunks the current pass has still to write
          pos,       \* the file position
          code,      \* the code omega_file_sanitize is going to return
          verified,  \* a re-read of the whole file found only zeros
          result     \* ExecutionResult

file == <<content, truncated, path>>
loop == <<size, remaining, pos>>
vars == <<plan, native, pc, file, loop, code, verified, result>>

PCs == {"start", "native", "n_size", "n_zero", "n_random", "n_truncate", "n_cleanup", "n_delete",
        "n_return", "python", "p_zero", "p_verify", "p_random", "p_rename", "p_truncate",
        "p_delete", "p_check", "returned", "raised"}

Blocks == {"data", "zero", "random"}

TypeOK ==
  /\ plan \in FilePlans
  /\ native \in BOOLEAN
  /\ pc \in PCs
  /\ content \in Seq(Blocks) /\ Len(content) <= MaxBlocks
  /\ truncated \in BOOLEAN
  /\ path \in {"target", "renamed", "gone"}
  /\ size \in 0..Len(content)
  /\ remaining \in 0..size
  /\ pos \in 0..(size - remaining)
  /\ code \in {0, 1}
  /\ verified \in BOOLEAN
  /\ result \in ExecutionResult

Init ==
  /\ plan \in FilePlans
  /\ native \in BOOLEAN
  /\ pc = "start"
  /\ \E n \in 0..MaxBlocks : content = [k \in 1..n |-> "data"]
  /\ truncated = FALSE
  /\ path = "target"
  /\ size = 0 /\ remaining = 0 /\ pos = 0
  /\ code = 0
  /\ verified = FALSE
  /\ result = NoResult

Success == [success |-> TRUE, assurance_achieved |-> "BEST_EFFORT_FILE_SANITIZE"]

FileSize == IF truncated THEN 0 ELSE Len(content)

\* Mutant: no seek(0) before the pass.
MutantBeginPassNoSeek(n) == size' = n /\ remaining' = n /\ UNCHANGED pos

\* A pass over the first n chunks begins at the start of the file.
BeginPass(n) == size' = n /\ remaining' = n /\ pos' = 0

\* handle.write: the chunk at pos is replaced, or the write wrote nothing and
\* the position stays where it is.
Put(value) == content' = [content EXCEPT ![pos + 1] = value] /\ pos' = pos + 1

-----------------------------------------------------------------------------
(* The early returns.                                                      *)

DryRun ==
  /\ pc = "start"
  /\ plan.dry_run
  /\ pc' = "returned"
  /\ result' = DryRunResult
  /\ UNCHANGED <<plan, native, file, loop, code, verified>>

Refuse ==
  /\ pc = "start"
  /\ ~plan.dry_run
  /\ ~plan.executable
  /\ pc' = "returned"
  /\ result' = Failure
  /\ UNCHANGED <<plan, native, file, loop, code, verified>>

\* Mutant: the policy's verdict is not looked at.
MutantBeginAlways ==
  /\ pc = "start"
  /\ ~plan.dry_run
  /\ pc' = IF native THEN "native" ELSE "python"
  /\ UNCHANGED <<plan, native, file, loop, code, verified, result>>

\* NativeBridge.sanitize_file returns at once when there is no library.
Begin ==
  /\ pc = "start"
  /\ ~plan.dry_run
  /\ plan.executable
  /\ pc' = IF native THEN "native" ELSE "python"
  /\ UNCHANGED <<plan, native, file, loop, code, verified, result>>

-----------------------------------------------------------------------------
(* omega_file_sanitize.                                                    *)

\* What last_error_result returns after a failure that sets the last error, and
\* after one that does not: a short write, BCryptGenRandom, or a failure
\* followed by CloseHandle.
SetError == {1}
UnsetError == IF StaleLastError THEN {0, 1} ELSE {1}

NativeFail(to, codes) ==
  /\ code' \in codes
  /\ pc' = to
  /\ UNCHANGED <<plan, native, file, loop, verified, result>>

NativeOpen ==
  /\ pc = "native"
  /\ pc' = "n_size"
  /\ UNCHANGED <<plan, native, file, loop, code, verified, result>>

NativeOpenFails == pc = "native" /\ NativeFail("n_return", SetError)

NativeSize ==
  /\ pc = "n_size"
  /\ BeginPass(FileSize)
  /\ pc' = "n_zero"
  /\ UNCHANGED <<plan, native, file, code, verified, result>>

NativeSizeFails == pc = "n_size" /\ NativeFail("n_return", UnsetError)

NativeWrite ==
  /\ remaining > 0
  /\ \/ pc = "n_zero" /\ Put("zero")
     \/ pc = "n_random" /\ Put("random")
  /\ remaining' = remaining - 1
  /\ UNCHANGED <<plan, native, pc, truncated, path, size, code, verified, result>>

\* WriteFile fails, or it succeeds with fewer bytes, or there is no randomness.
NativeWriteFails ==
  /\ pc \in {"n_zero", "n_random"}
  /\ remaining > 0
  /\ NativeFail("n_cleanup", SetError \cup UnsetError)

NativeFlush ==
  /\ pc \in {"n_zero", "n_random"}
  /\ remaining = 0
  /\ IF pc = "n_zero" THEN BeginPass(size) /\ pc' = "n_random"
                      ELSE UNCHANGED loop /\ pc' = "n_truncate"
  /\ UNCHANGED <<plan, native, file, code, verified, result>>

NativeFlushFails ==
  /\ pc \in {"n_zero", "n_random"}
  /\ remaining = 0
  /\ NativeFail("n_cleanup", SetError)

NativeTruncate ==
  /\ pc = "n_truncate"
  /\ truncated' = TRUE
  /\ code' = 0
  /\ pc' = "n_cleanup"
  /\ UNCHANGED <<plan, native, content, path, loop, verified, result>>

NativeTruncateFails == pc = "n_truncate" /\ NativeFail("n_cleanup", SetError)

\* Mutant: the file is deleted whatever the passes returned.
MutantNativeCleanupAlwaysDeletes ==
  /\ pc = "n_cleanup"
  /\ pc' = "n_delete"
  /\ code' = 0
  /\ UNCHANGED <<plan, native, file, loop, verified, result>>

\* "cleanup:" closes the file; result != 0 returns before the deletion.
NativeCleanup ==
  /\ pc = "n_cleanup"
  /\ pc' = IF code = 0 THEN "n_delete" ELSE "n_return"
  /\ UNCHANGED <<plan, native, file, loop, code, verified, result>>

\* DeleteFileW; no look at the path afterwards.
NativeDelete ==
  /\ pc = "n_delete"
  /\ path' \in {path, "gone"}
  /\ pc' = "n_return"
  /\ UNCHANGED <<plan, native, content, truncated, loop, code, verified, result>>

NativeDeleteFails == pc = "n_delete" /\ NativeFail("n_return", SetError)

\* Mutant: a native failure is retried natively.
MutantNativeReturnRetries ==
  /\ pc = "n_return"
  /\ IF code = 0 THEN pc' = "returned" /\ result' = Success
                 ELSE pc' = "native" /\ UNCHANGED result
  /\ UNCHANGED <<plan, native, file, loop, code, verified>>

\* FileSanitizer.execute on native_ok: return, or run the fallback.
NativeReturn ==
  /\ pc = "n_return"
  /\ IF code = 0 THEN pc' = "returned" /\ result' = Success
                 ELSE pc' = "python" /\ UNCHANGED result
  /\ UNCHANGED <<plan, native, file, loop, code, verified>>

Native == NativeOpen \/ NativeOpenFails \/ NativeSize \/ NativeSizeFails \/ NativeWrite
            \/ NativeWriteFails \/ NativeFlush \/ NativeFlushFails \/ NativeTruncate
            \/ NativeTruncateFails \/ NativeCleanup \/ NativeDelete \/ NativeDeleteFails
            \/ NativeReturn

-----------------------------------------------------------------------------
(* _python_overwrite.                                                      *)

\* getsize and open.
PythonOpen ==
  /\ pc = "python"
  /\ BeginPass(FileSize)
  /\ pc' = "p_zero"
  /\ UNCHANGED <<plan, native, file, code, verified, result>>

\* The return value of write is dropped: a short write counts as a whole one.
PythonWrite ==
  /\ remaining > 0
  /\ \/ pc = "p_zero" /\ Put("zero")
     \/ pc = "p_random" /\ Put("random")
     \/ pc \in {"p_zero", "p_random"} /\ UNCHANGED <<content, pos>>
  /\ remaining' = remaining - 1
  /\ UNCHANGED <<plan, native, pc, truncated, path, size, code, verified, result>>

PythonFlushZero ==
  /\ pc = "p_zero"
  /\ remaining = 0
  /\ pc' = "p_verify"
  /\ UNCHANGED <<plan, native, file, loop, code, verified, result>>

\* The re-read from position 0 to the end of the file finds only zeros.
ReadsZero == \A k \in 1..FileSize : content[k] = "zero"

PythonVerify ==
  /\ pc = "p_verify"
  /\ ReadsZero
  /\ verified' = TRUE
  /\ BeginPass(size)
  /\ pc' = "p_random"
  /\ UNCHANGED <<plan, native, file, code, result>>

PythonVerifyFails ==
  /\ pc = "p_verify"
  /\ ~ReadsZero
  /\ pc' = "raised"
  /\ UNCHANGED <<plan, native, file, loop, code, verified, result>>

\* A stream is neither renamed nor truncated, for both would hit the base file.
PythonFlushRandom ==
  /\ pc = "p_random"
  /\ remaining = 0
  /\ pc' = IF plan.is_ads THEN "p_delete" ELSE "p_rename"
  /\ UNCHANGED <<plan, native, file, loop, code, verified, result>>

PythonRename ==
  /\ pc = "p_rename"
  /\ path' = "renamed"
  /\ pc' = "p_truncate"
  /\ UNCHANGED <<plan, native, content, truncated, loop, code, verified, result>>

PythonTruncate ==
  /\ pc = "p_truncate"
  /\ truncated' = TRUE
  /\ pc' = "p_delete"
  /\ UNCHANGED <<plan, native, content, path, loop, code, verified, result>>

\* DeleteFileW may return while another handle keeps the name alive.
PythonDelete ==
  /\ pc = "p_delete"
  /\ path' \in {path, "gone"}
  /\ pc' = "p_check"
  /\ UNCHANGED <<plan, native, content, truncated, loop, code, verified, result>>

\* Mutant: the path is not looked at again.
MutantPythonCheckTrusts ==
  /\ pc = "p_check"
  /\ pc' = "returned"
  /\ result' = Success
  /\ UNCHANGED <<plan, native, file, loop, code, verified>>

\* The exists check that follows, and the result.
PythonCheck ==
  /\ pc = "p_check"
  /\ path = "gone"
  /\ pc' = "returned"
  /\ result' = Success
  /\ UNCHANGED <<plan, native, file, loop, code, verified>>

PythonCheckFails ==
  /\ pc = "p_check"
  /\ path # "gone"
  /\ pc' = "raised"
  /\ UNCHANGED <<plan, native, file, loop, code, verified, result>>

\* Any call of the fallback may raise; nothing in the engine catches it.
PythonRaises ==
  /\ pc \in {"python", "p_zero", "p_verify", "p_random", "p_rename", "p_truncate", "p_delete"}
  /\ pc' = "raised"
  /\ UNCHANGED <<plan, native, file, loop, code, verified, result>>

Python == PythonOpen \/ PythonWrite \/ PythonFlushZero \/ PythonVerify \/ PythonVerifyFails
            \/ PythonFlushRandom \/ PythonRename \/ PythonTruncate \/ PythonDelete
            \/ PythonCheck \/ PythonCheckFails \/ PythonRaises

-----------------------------------------------------------------------------
Answered == pc \in {"returned", "raised"}

Done == Answered /\ UNCHANGED vars

Execute == DryRun \/ Refuse \/ Begin \/ Native \/ Python

Next == Execute \/ Done

Spec == Init /\ [][Next]_vars

\* One thread runs execute and every call of it returns.
FairSpec == Spec /\ WF_vars(Execute)

-----------------------------------------------------------------------------
(* Correctness.                                                            *)

Overwritten == \A k \in DOMAIN content : content[k] # "data"
Untouched == path = "target" /\ ~truncated /\ \A k \in DOMAIN content : content[k] = "data"

\* Clusters are given back to the file system, by truncation or by deletion,
\* and a file gets another name only when every chunk of it has been
\* overwritten: what a short write left behind stops the fallback, and an error
\* code the native one.  That the new name comes so late is the order of
\* file_sanitize.py:112-169; the documents have another (RenamedBeforeOverwrite).
ReleasedOnlyWhenOverwritten == (truncated \/ path # "target") => Overwritten

\* The fallback renames, truncates or deletes only what a re-read after the zero
\* pass has found overwritten (file_sanitize.py:134-169).
PythonRemovesOnlyVerified ==
  [][(pc \in {"p_rename", "p_truncate", "p_delete"} /\ file' # file) => verified]_vars

\* A success of the fallback leaves nothing behind, however the native
\* implementation failed before it: no chunk with original data, although short
\* writes go unnoticed in the random pass, and no name, although DeleteFileW may
\* succeed while another handle keeps the file (file_sanitize.py:166-168).
FallbackSuccessLeavesNothing ==
  (pc = "returned" /\ verified) => path = "gone" /\ Overwritten

\* What is hidden under the random name .omega-*.bin, and stays there when the
\* truncation or the deletion fails, holds nothing of the file
\* (file_sanitize.py:158-168): no report names the file left behind.
RenamedHoldsNoData == path = "renamed" => Overwritten

\* A bound on the steps that execute has still to take: two passes over the file
\* by the native implementation, and after its failure, wherever it stopped, two
\* by the fallback.
StepsLeft ==
  LET whole == Len(content) IN
  CASE pc \in {"returned", "raised"} -> 0
    [] pc = "p_check"    -> 1
    [] pc = "p_delete"   -> 2
    [] pc = "p_truncate" -> 3
    [] pc = "p_rename"   -> 4
    [] pc = "p_random"   -> 5 + remaining
    [] pc = "p_verify"   -> 6 + size
    [] pc = "p_zero"     -> 7 + size + remaining
    [] pc = "python"     -> 8 + 2 * whole
    [] pc = "n_return"   -> 9 + 2 * whole
    [] pc = "n_delete"   -> 10 + 2 * whole
    [] pc = "n_cleanup"  -> 11 + 2 * whole
    [] pc = "n_truncate" -> 12 + 2 * whole
    [] pc = "n_random"   -> 13 + 2 * whole + remaining
    [] pc = "n_zero"     -> 14 + 2 * whole + size + remaining
    [] pc = "n_size"     -> 15 + 4 * whole
    [] pc = "native"     -> 16 + 4 * whole
    [] pc = "start"      -> 17 + 4 * whole

\* Every call of execute uses up one of those steps, however many failed or
\* wrote less than they were asked to: neither implementation starts a pass
\* over, and none comes back after the other.
EveryStepCounts == [][StepsLeft' \in 0..StepsLeft - 1]_vars

\* Execute returns or raises: every loop is bounded, and a native failure is
\* followed by at most one fallback.
Termination == <>Answered

\* The engine seen through its contract; an exception is turned into a failure
\* result by its caller (_build_failure_result).
Contract == INSTANCE SanitizeEngine WITH
  status  <- IF Answered THEN "answered" ELSE "working",
  allowed <- plan.executable /\ ~plan.dry_run,
  dry     <- plan.dry_run,
  data    <- IF Untouched THEN "intact" ELSE IF Overwritten THEN "erased" ELSE "undefined",
  result  <- IF pc = "returned" THEN result ELSE IF pc = "raised" THEN Failure ELSE NoResult

\* Every behaviour of the file engine is one its contract allows.
ImplementsContract == Contract!Spec

-----------------------------------------------------------------------------
(* What the documentation says and the code does not do.                   *)

\* README.md:126, docs/METHOD_MATRIX.md:5 and the plan's method name
\* (policy.py:34) put the rename first: "Rename -> zero overwrite -> verify ->
\* random overwrite -> truncate -> unlink".  A file that is not a stream is
\* overwritten under its random name; the code renames after the last pass, and
\* the native implementation not at all.
RenamedBeforeOverwrite ==
  [][content' # content /\ ~plan.is_ads => path = "renamed"]_vars

\* docs/API_CONTRACT.md:41: the UI does not receive raw WinAPI failures "as if
\* they were successful results".  A result that claims erasure leaves nothing
\* of the file behind.
FailuresAreNotSuccess ==
  (pc = "returned" /\ result.assurance_achieved \in ErasureClaims) => Overwritten
=============================================================================
