---------------------------- MODULE DriveSanitize ----------------------------
(***************************************************************************)
(* engines/drive_sanitize.py: DriveSanitizer.execute for one plan, with    *)
(* the helpers it calls in low_level.py and native_bridge.py, one action   *)
(* per Win32 call that can fail or let another process in.                 *)
(*                                                                         *)
(* The environment is the rest of Windows: any volume that nobody holds    *)
(* locked may be mounted again, and each call may fail with a transient    *)
(* code (5, 32, 33) or with another one.                                   *)
(***************************************************************************)
EXTENDS Policy

CONSTANTS MaxAttempts,     \* RetryPolicy.max_attempts
          StaleLastError   \* GetLastError may be 0 after CloseHandle

ASSUME AttemptsAssumption == MaxAttempts \in Nat \ {0}
ASSUME StaleAssumption == StaleLastError \in BOOLEAN

VARIABLES plan,      \* the ExecutionPlan
          admin,     \* is_windows_admin()
          native,    \* native_bridge.state.available
          pc,        \* where execute is
          locked,    \* len(locked): the first letters of the plan, in order
          attempt,   \* attempt of _lock_with_retry
          error,     \* class of the exception in flight: "none" if there is none
          handle,    \* the volume handle: "closed", "open", or "locked" (it owns the lock)
          mounted,   \* mounted[k]: the file system of letter k is mounted
          media,     \* DataState of the disk
          unlocked,  \* letters of locked whose unlock_fn was called
          warnings,  \* unlock failures appended to warnings
          result     \* ExecutionResult

vars == <<plan, admin, native, pc, locked, attempt, error, handle, mounted, media,
          unlocked, warnings, result>>

ErrorClass == {"none", "transient", "permanent"}

PCs == {"start", "open", "fsctl_lock", "fsctl_dismount", "close", "close_failed",
        "backoff", "native", "winapi", "unlock", "returned"}

Letters == 1..plan.capability_snapshot.drive_letters

TypeOK ==
  /\ plan \in DrivePlans
  /\ admin \in BOOLEAN
  /\ native \in BOOLEAN
  /\ pc \in PCs
  /\ locked \in 0..MaxLetters
  /\ attempt \in 1..MaxAttempts
  /\ error \in ErrorClass
  /\ handle \in {"closed", "open", "locked"}
  /\ mounted \in [1..MaxLetters -> BOOLEAN]
  /\ media \in DataState
  /\ unlocked \in 0..MaxLetters
  /\ warnings \in 0..MaxLetters
  /\ result \in ExecutionResult

Init ==
  /\ plan \in DrivePlans
  /\ admin \in BOOLEAN
  /\ native \in BOOLEAN
  /\ pc = "start"
  /\ locked = 0
  /\ attempt = 1
  /\ error = "none"
  /\ handle = "closed"
  /\ mounted = [k \in 1..MaxLetters |-> TRUE]
  /\ media = "intact"
  /\ unlocked = 0
  /\ warnings = 0
  /\ result = NoResult

-----------------------------------------------------------------------------
(* The early returns, in the order of the code.                            *)

\* Where the lock loop stands after n letters: at the next one, or past it.
AfterLocks(n) == IF n < plan.capability_snapshot.drive_letters THEN "open" ELSE "native"

\* Mutant: forgets plan.executable.
MutantBlockedIgnoresPolicy == plan.requires_admin /\ ~admin

Blocked == ~plan.executable \/ (plan.requires_admin /\ ~admin) \/ plan.requires_offline

Unworked == <<plan, admin, native, locked, attempt, error, handle, mounted, media,
              unlocked, warnings>>

DryRun ==
  /\ pc = "start"
  /\ plan.dry_run
  /\ pc' = "returned"
  /\ result' = DryRunResult
  /\ UNCHANGED Unworked

Refuse ==
  /\ pc = "start"
  /\ ~plan.dry_run
  /\ Blocked
  /\ pc' = "returned"
  /\ result' = Failure
  /\ UNCHANGED Unworked

BeginLocking ==
  /\ pc = "start"
  /\ ~plan.dry_run
  /\ ~Blocked
  /\ pc' = AfterLocks(0)
  /\ UNCHANGED <<Unworked, result>>

-----------------------------------------------------------------------------
(* lock_and_dismount_volume, called by _lock_with_retry for letter         *)
(* locked + 1.                                                             *)

OpenVolume ==
  /\ pc = "open"
  /\ pc' = "fsctl_lock"
  /\ handle' = "open"
  /\ UNCHANGED <<plan, admin, native, locked, attempt, error, mounted, media, unlocked,
                 warnings, result>>

FsctlLock ==
  /\ pc = "fsctl_lock"
  /\ pc' = "fsctl_dismount"
  /\ handle' = "locked"
  /\ UNCHANGED <<plan, admin, native, locked, attempt, error, mounted, media, unlocked,
                 warnings, result>>

FsctlDismount ==
  /\ pc = "fsctl_dismount"
  /\ pc' = "close"
  /\ mounted' = [mounted EXCEPT ![locked + 1] = FALSE]
  /\ UNCHANGED <<plan, admin, native, locked, attempt, error, handle, media, unlocked,
                 warnings, result>>

\* The call at hand raises a WinError.
LockCallFails ==
  /\ pc \in {"open", "fsctl_lock", "fsctl_dismount"}
  /\ error' \in {"transient", "permanent"}
  /\ pc' = "close_failed"
  /\ UNCHANGED <<plan, admin, native, locked, attempt, handle, mounted, media, unlocked,
                 warnings, result>>

\* The finally clause closes the handle, and with it goes the lock; the letter
\* enters the list of locked volumes.
CloseVolume ==
  /\ pc = "close"
  /\ handle' = "closed"
  /\ locked' = locked + 1
  /\ attempt' = 1
  /\ pc' = AfterLocks(locked + 1)
  /\ UNCHANGED <<plan, admin, native, error, mounted, media, unlocked, warnings, result>>

\* The same clause on the way out of an exception, then the test of
\* _lock_with_retry: another attempt after a pause, or give up.
\* Mutants: retries whatever the error; retries a transient one forever.
MutantGivesUpOnCount == attempt = MaxAttempts
MutantGivesUpOnPermanent == error = "permanent"

GivesUp == error = "permanent" \/ attempt = MaxAttempts

CloseFailedVolume ==
  /\ pc = "close_failed"
  /\ handle' = "closed"
  /\ pc' = IF GivesUp THEN "unlock" ELSE "backoff"
  /\ result' = IF GivesUp THEN Failure ELSE result
  /\ UNCHANGED <<plan, admin, native, locked, attempt, error, mounted, media, unlocked,
                 warnings>>

\* Mutant: the attempt counter does not advance.
MutantBackoffForgetsAttempt ==
  /\ pc = "backoff"
  /\ error' = "none"
  /\ pc' = "open"
  /\ UNCHANGED <<plan, admin, native, locked, attempt, handle, mounted, media, unlocked,
                 warnings, result>>

Backoff ==
  /\ pc = "backoff"
  /\ attempt' = attempt + 1
  /\ error' = "none"
  /\ pc' = "open"
  /\ UNCHANGED <<plan, admin, native, locked, handle, mounted, media, unlocked, warnings,
                 result>>

-----------------------------------------------------------------------------
(* The sanitize request: the native library first, then the direct call.   *)

\* What IOCTL_STORAGE_REINITIALIZE_MEDIA leaves behind.  An accepted request
\* erases the media classes the policy trusts; on any other class acceptance
\* says nothing.  A refused or aborted one may have changed anything, except
\* that it cannot bring back what an earlier request erased.
Refused == IF media = "erased" THEN {"erased"} ELSE {media, "undefined", "erased"}
Accepted ==
  IF media = "erased" \/ TrustworthyPath(plan.capability_snapshot)
  THEN {"erased"} ELSE {"undefined", "erased"}

Claimed == [success |-> TRUE, assurance_achieved |-> plan.assurance_target]

\* What omega_reinitialize_media returns for a refused request: GetLastError is
\* asked only after CloseHandle, which may have left nothing of the error.
RefusalCodes == IF StaleLastError THEN {0, 1} ELSE {1}

\* DriveSanitizer.execute on native_ok, which is code = 0 whatever the disk did.
NativeReturns(code) ==
  /\ pc = "native"
  /\ IF code = 0 THEN pc' = "unlock" /\ result' = Claimed
                 ELSE pc' = "winapi" /\ UNCHANGED result
  /\ UNCHANGED <<plan, admin, native, locked, attempt, error, handle, mounted, unlocked,
                 warnings>>

NativeReinitialize == native /\ media' \in Accepted /\ NativeReturns(0)

NativeFails ==
  /\ native
  /\ media' \in Refused
  /\ \E code \in RefusalCodes : NativeReturns(code)

\* No library, or the library's CreateFileW failed and its code was read at once.
NativeUnreached == UNCHANGED media /\ NativeReturns(1)

WinApiReinitialize ==
  /\ pc = "winapi"
  /\ media' \in Accepted
  /\ result' = Claimed
  /\ pc' = "unlock"
  /\ UNCHANGED <<plan, admin, native, locked, attempt, error, handle, mounted, unlocked,
                 warnings>>

\* Mutant: success is recorded before the call instead of after it.
MutantWinApiFailsClaims ==
  /\ pc = "winapi"
  /\ media' \in Refused
  /\ error' = "permanent"
  /\ result' = Claimed
  /\ pc' = "unlock"
  /\ UNCHANGED <<plan, admin, native, locked, attempt, handle, mounted, unlocked, warnings>>

\* open_disk_handle or the ioctl raises; the except clause prepares a failure.
WinApiFails ==
  /\ pc = "winapi"
  /\ media' \in Refused
  /\ error' = "permanent"
  /\ result' = Failure
  /\ pc' = "unlock"
  /\ UNCHANGED <<plan, admin, native, locked, attempt, handle, mounted, unlocked, warnings>>

-----------------------------------------------------------------------------
(* The finally clause: unlock_fn for every letter of the list.             *)

Unlock ==
  /\ pc = "unlock"
  /\ unlocked < locked
  /\ unlocked' = unlocked + 1
  /\ warnings' \in {warnings, warnings + 1}
  /\ UNCHANGED <<plan, admin, native, pc, locked, attempt, error, handle, mounted, media,
                 result>>

\* Mutant: the unlock loop may be left early.
MutantReturnEarly ==
  /\ pc = "unlock"
  /\ pc' = "returned"
  /\ UNCHANGED <<plan, admin, native, locked, attempt, error, handle, mounted, media,
                 unlocked, warnings, result>>

Return ==
  /\ pc = "unlock"
  /\ unlocked = locked
  /\ pc' = "returned"
  /\ UNCHANGED <<plan, admin, native, locked, attempt, error, handle, mounted, media,
                 unlocked, warnings, result>>

-----------------------------------------------------------------------------
\* Any access to a dismounted volume mounts it again, unless somebody holds its
\* lock: while execute runs that can only be the letter being worked on.
HoldsLock(k) == handle = "locked" /\ k = locked + 1

Remount ==
  /\ pc # "returned"
  /\ \E k \in Letters :
        /\ ~mounted[k]
        /\ ~HoldsLock(k)
        /\ mounted' = [mounted EXCEPT ![k] = TRUE]
  /\ UNCHANGED <<plan, admin, native, pc, locked, attempt, error, handle, media, unlocked,
                 warnings, result>>

Lock == OpenVolume \/ FsctlLock \/ FsctlDismount \/ LockCallFails \/ CloseVolume
          \/ CloseFailedVolume \/ Backoff

Sanitize == NativeReinitialize \/ NativeFails \/ NativeUnreached \/ WinApiReinitialize
              \/ WinApiFails

Execute == DryRun \/ Refuse \/ BeginLocking \/ Lock \/ Sanitize \/ Unlock \/ Return

Done == pc = "returned" /\ UNCHANGED vars

Next == Execute \/ Remount \/ Done

Spec == Init /\ [][Next]_vars

\* One thread runs execute and every call of it returns.
FairSpec == Spec /\ WF_vars(Execute)
-----------------------------------------------------------------------------
(* Correctness.                                                            *)

MediaTouched == media # "intact"

\* Policy and engine together keep the hands off protected disks: whatever the
\* environment does, a disk whose data changed was a physical disk with a disk
\* number, neither system, boot, read-only nor removable, in an elevated
\* process and not in a dry run, and every letter of it had been locked
\* (policy.py:120-142, drive_sanitize.py:77-165).
MediaTouchedOnlyIfPermitted ==
  MediaTouched =>
    /\ admin
    /\ ~plan.dry_run
    /\ plan.target = "disk_number"
    /\ LET m == plan.capability_snapshot
       IN  /\ ~m.is_system /\ ~m.is_boot /\ ~m.is_read_only /\ ~Removable(m)
           /\ locked = m.drive_letters

\* "Execution engines must never overstate assurance" (ARCHITECTURE.md): a
\* result that claims Clear or Purge is given only when the disk is erased, all
\* letters of the plan had been locked and no exception was pending, however
\* the native and the direct request failed before.  With StaleLastError it does
\* not hold: a refused native request may look like an accepted one.
ClaimsAreEarned ==
  (pc \in {"unlock", "returned"} /\ result.assurance_achieved \in ErasureClaims) =>
    /\ media = "erased"
    /\ locked = plan.capability_snapshot.drive_letters
    /\ error = "none"

\* No request reaches the disk before every letter of the plan went through
\* lock and dismount, retries included (the loop at drive_sanitize.py:162-165
\* comes before either call).
SanitizeNeedsEveryLock ==
  [][media' # media => locked = plan.capability_snapshot.drive_letters]_vars

\* A transient lock error ends the plan only when all attempts are used up, and
\* a permanent one is never retried (drive_sanitize.py:234-243).
RetriesOnlyTransientErrors ==
  /\ pc = "backoff" => error = "transient"
  /\ (pc \in {"unlock", "returned"} /\ error = "transient") => attempt = MaxAttempts

\* Whichever way execute returns, no volume handle is left open, so no lock is
\* held, and every volume it had locked got its unlock call.
EveryLockReleased == pc = "returned" => handle = "closed" /\ unlocked = locked

\* A bound on the steps that execute has still to take, whatever fails on the
\* way: six for an attempt to lock a letter, MaxAttempts attempts for a letter.
AttemptSteps == [open |-> 6, fsctl_lock |-> 5, fsctl_dismount |-> 4,
                 close |-> 3, close_failed |-> 2, backoff |-> 1]
StepsLeft ==
  LET letters == plan.capability_snapshot.drive_letters IN
  CASE pc = "returned" -> 0
    [] pc = "unlock"   -> 1 + locked - unlocked
    [] pc = "winapi"   -> 2 + locked
    [] pc = "native"   -> 3 + locked
    [] pc = "start"    -> 4 + letters + 6 * (letters * MaxAttempts)
    [] OTHER           -> 3 + letters + 6 * ((letters - locked) * MaxAttempts - attempt)
                            + AttemptSteps[pc]

\* Every call that execute makes, one that fails and one that is a retry too,
\* uses up one of those steps, and other processes, however often they mount
\* a volume, do not make it take more.
EveryStepCounts ==
  [][IF Execute THEN StepsLeft' \in 0..StepsLeft - 1 ELSE StepsLeft' = StepsLeft]_vars

\* Execute returns: the retry loop is bounded and so is the unlock loop.
Termination == <>(pc = "returned")

\* The engine seen through its contract.
Contract == INSTANCE SanitizeEngine WITH
  status  <- IF pc = "returned" THEN "answered" ELSE "working",
  allowed <- plan.executable /\ ~plan.dry_run,
  dry     <- plan.dry_run,
  data    <- media,
  result  <- IF pc = "returned" THEN result ELSE NoResult

\* Every behaviour of the drive engine is one its contract allows, as long as a
\* refused native request leaves an error code.
ImplementsContract == Contract!Spec

-----------------------------------------------------------------------------
(* What the documentation says and the code does not do.                   *)

\* docs/API_CONTRACT.md:41: "The UI does not receive raw WinAPI failures as if
\* they were successful results".  No step that leaves the disk with original
\* data on it ends in a claim of its erasure; with StaleLastError a refused
\* native request does (lower.cpp:154-157).
RefusalsAreNotSuccess ==
  [][result' # result /\ result'.assurance_achieved \in ErasureClaims
       => media' = "erased"]_vars

\* policy.py:168, the plan's own lock step: "Lock and dismount related volumes
\* before device operations".  No volume of the disk is mounted while the
\* sanitize request is issued.
DismountedDuringSanitize == pc = "winapi" => \A k \in Letters : ~mounted[k]
=============================================================================
