------------------------ MODULE DriveSanitizeProofs ------------------------
(***************************************************************************)
(* The drive engine for every number of letters and attempts and every set *)
(* of bus and media types: its type invariant, the safety invariants that  *)
(* MCDriveSanitize checks on a small instance, and that every behaviour of *)
(* the engine is a behaviour of the contract SanitizeEngine.  That claims  *)
(* are earned, and with it the contract, needs a native library that       *)
(* returns an error code for a refused request: these results have the     *)
(* assumption ~StaleLastError, the rest holds without it.                  *)
(***************************************************************************)
EXTENDS DriveSanitize, TLAPS

\* The plan passed the early returns of execute.
Admitted == ~plan.dry_run /\ ~Blocked

Total == plan.capability_snapshot.drive_letters

Locking == {"open", "fsctl_lock", "fsctl_dismount", "close"}
Retrying == {"close_failed", "backoff"}
Sanitizing == {"native", "winapi"}

-----------------------------------------------------------------------------
(* The inductive invariant.                                                *)

\* How far the lock loop and the unlock loop are.
Counting ==
  /\ locked <= Total
  /\ pc = "start" => locked = 0
  /\ pc \in Locking \cup Retrying => locked < Total
  /\ pc \in Sanitizing => locked = Total
  /\ pc \notin {"unlock", "returned"} => unlocked = 0
  /\ warnings <= unlocked
  /\ unlocked <= locked
  /\ pc = "returned" => unlocked = locked

\* Which exception may be in flight where.
Errors ==
  /\ pc \in {"start"} \cup Locking \cup Sanitizing => error = "none"
  /\ pc = "close_failed" => error # "none"
  /\ pc = "backoff" => attempt < MaxAttempts
  /\ pc \notin {"fsctl_lock", "fsctl_dismount", "close", "close_failed"} => handle = "closed"
  /\ RetriesOnlyTransientErrors

\* Only an admitted plan gets to work, and the disk changes only after the
\* lock loop is complete.
Admission ==
  /\ pc \notin {"start", "returned"} => Admitted
  /\ MediaTouched => Admitted /\ locked = Total
  /\ MediaTouched => pc \in {"winapi", "unlock", "returned"}

\* What the result variable holds.
Results ==
  /\ pc \notin {"unlock", "returned"} => result = NoResult
  /\ pc = "unlock" => result \in {Claimed, Failure}
  /\ pc = "returned" =>
       IF plan.dry_run THEN result = DryRunResult
       ELSE result = Failure \/ (result = Claimed /\ Admitted)
  /\ ~StaleLastError => ClaimsAreEarned

IInv == TypeOK /\ Counting /\ Errors /\ Admission /\ Results

-----------------------------------------------------------------------------
(* Facts about the policy.                                                 *)

\* The fields of a drive plan are what the engine takes them for.
LEMMA PlanFields ==
  ASSUME NEW p \in DrivePlans
  PROVE  /\ p.dry_run \in BOOLEAN
         /\ p.executable \in BOOLEAN
         /\ p.requires_admin = TRUE
         /\ p.requires_offline \in BOOLEAN
         /\ p.assurance_target \in AssuranceLevel
         /\ p.capability_snapshot \in MediaCapabilities
         /\ p.capability_snapshot.drive_letters \in 0..MaxLetters
<1>1. PICK m \in MediaCapabilities, d \in BOOLEAN : p = CreateDrivePlan(m, d)
  BY DEF DrivePlans
<1>2. /\ m.drive_letters \in 0..MaxLetters
      /\ m.supports_direct_device_ops \in BOOLEAN
      /\ m.is_system \in BOOLEAN /\ m.is_boot \in BOOLEAN
      /\ m.is_read_only \in BOOLEAN /\ m.is_removable \in BOOLEAN
  <2>1. CASE m \in PhysicalDisk
    BY <2>1, LettersAssumption DEF PhysicalDisk
  <2>2. CASE m \in LogicalVolume
    <3>1. m \in [bus_type : {"LOGICAL VOLUME"}, media_type : {"REMOVABLE", "UNKNOWN"},
                 is_boot : {FALSE}, is_system : BOOLEAN,
                 is_read_only : {FALSE}, is_removable : BOOLEAN,
                 supports_direct_device_ops : {FALSE}, drive_letters : {1}]
      BY <2>2, Zenon DEF LogicalVolume
    <3>2. 1 \in 0..MaxLetters
      BY LettersAssumption
    <3> QED
      BY <3>1, <3>2
  <2> QED
    BY <2>1, <2>2 DEF MediaCapabilities
<1>3. DriveAssurance(m) \in AssuranceLevel
  BY DEF DriveAssurance, AssuranceLevel
<1>4. DriveExecutable(m) \in BOOLEAN /\ SystemDisk(m) \in BOOLEAN /\ AtaSsd(m) \in BOOLEAN
  BY <1>2 DEF DriveExecutable, SystemDisk, AtaSsd, Removable
<1> QED
  BY <1>1, <1>2, <1>3, <1>4 DEF CreateDrivePlan

\* A plan that may run outside a dry run is for a physical disk that is none
\* of the protected kinds, and it never asks for the offline runner: the
\* requires_offline branch of the engine is not reached with a policy plan.
THEOREM PolicyProtects ==
  ASSUME NEW p \in DrivePlans, p.executable, ~p.dry_run
  PROVE  LET m == p.capability_snapshot
         IN  /\ p.target = "disk_number"
             /\ ~m.is_system /\ ~m.is_boot /\ ~m.is_read_only /\ ~Removable(m)
             /\ ~p.requires_offline
<1>1. PICK m \in MediaCapabilities, d \in BOOLEAN : p = CreateDrivePlan(m, d)
  BY DEF DrivePlans
<1>2. DriveExecutable(m)
  BY <1>1 DEF CreateDrivePlan
<1> QED
  BY <1>1, <1>2 DEF CreateDrivePlan, DriveExecutable, DriveTarget, SystemDisk

\* A plan that claims erasure is for a media class with a trustworthy path.
LEMMA ClaimNeedsTrust ==
  ASSUME NEW p \in DrivePlans, p.assurance_target \in ErasureClaims
  PROVE  TrustworthyPath(p.capability_snapshot)
<1>1. PICK m \in MediaCapabilities, d \in BOOLEAN : p = CreateDrivePlan(m, d)
  BY DEF DrivePlans
<1>2. DriveAssurance(m) \in ErasureClaims
  BY <1>1 DEF CreateDrivePlan
<1>3. NvmeSsd(m) \/ AtaSsd(m) \/ Hdd(m)
  BY <1>2 DEF DriveAssurance, ErasureClaims
<1> QED
  BY <1>1, <1>3 DEF CreateDrivePlan, TrustworthyPath

-----------------------------------------------------------------------------
(* IInv is inductive.                                                      *)

LEMMA InitEstablishesIInv == Init => IInv
<1> SUFFICES ASSUME Init PROVE IInv
  OBVIOUS
<1> USE LettersAssumption, AttemptsAssumption
<1>1. Total \in 0..MaxLetters
  BY PlanFields DEF Init, Total
<1>2. TypeOK
  BY <1>1 DEF Init, TypeOK, PCs, ErrorClass, DataState, ExecutionResult, NoResult,
              AssuranceLevel
<1>3. Counting /\ Errors
  BY <1>1 DEF Init, Counting, Errors, RetriesOnlyTransientErrors, Locking, Retrying,
              Sanitizing
<1>4. Admission /\ Results
  BY DEF Init, Admission, Results, MediaTouched, ClaimsAreEarned
<1> QED
  BY <1>2, <1>3, <1>4 DEF IInv

LEMMA StepPreservesIInv == IInv /\ [Next]_vars => IInv'
<1> SUFFICES ASSUME IInv, [Next]_vars PROVE IInv'
  OBVIOUS
<1> USE LettersAssumption, AttemptsAssumption
<1>p. /\ Total \in 0..MaxLetters
      /\ plan.dry_run \in BOOLEAN
      /\ plan.assurance_target \in AssuranceLevel
  BY PlanFields DEF IInv, TypeOK, Total
<1>t. Claimed \in ExecutionResult /\ Failure \in ExecutionResult
      /\ DryRunResult \in ExecutionResult
  BY <1>p DEF Claimed, Failure, DryRunResult, ExecutionResult, AssuranceLevel
<1>c. Claimed.success /\ ~Failure.success
      /\ Failure.assurance_achieved \notin ErasureClaims
      /\ DryRunResult.assurance_achieved \notin ErasureClaims
      /\ NoResult.assurance_achieved \notin ErasureClaims
      /\ Claimed.assurance_achieved = plan.assurance_target
  BY DEF Claimed, Failure, DryRunResult, NoResult, ErasureClaims
<1>a. (media = "erased" \/ plan.assurance_target \in ErasureClaims)
        => Accepted = {"erased"}
  BY ClaimNeedsTrust DEF IInv, TypeOK, Accepted
<1>d. Accepted \subseteq DataState /\ Refused \subseteq DataState
  BY DEF IInv, TypeOK, Accepted, Refused, DataState
<1>u. UNCHANGED Unworked =>
        /\ UNCHANGED <<plan, admin, native, locked, attempt, error>>
        /\ UNCHANGED <<handle, mounted, media, unlocked, warnings>>
  BY DEF Unworked
<1>1. CASE DryRun
  BY <1>1, <1>p, <1>t, <1>c, <1>u
  DEF DryRun, IInv, TypeOK, Counting, Errors, Admission, Results, PCs, Locking,
      Retrying, Sanitizing, RetriesOnlyTransientErrors, ClaimsAreEarned, MediaTouched,
      Total, Blocked, Admitted
<1>2. CASE Refuse
  BY <1>2, <1>p, <1>t, <1>c, <1>u
  DEF Refuse, IInv, TypeOK, Counting, Errors, Admission, Results, PCs, Locking,
      Retrying, Sanitizing, RetriesOnlyTransientErrors, ClaimsAreEarned, MediaTouched,
      Total, Blocked, Admitted
<1>3. CASE BeginLocking
  BY <1>3, <1>p, <1>u
  DEF BeginLocking, AfterLocks, IInv, TypeOK, Counting, Errors, Admission, Results,
      PCs, Locking, Retrying, Sanitizing, RetriesOnlyTransientErrors, ClaimsAreEarned,
      MediaTouched, Total, Blocked, Admitted
<1>4. CASE OpenVolume \/ FsctlLock
  BY <1>4, <1>p
  DEF OpenVolume, FsctlLock, IInv, TypeOK, Counting, Errors, Admission, Results,
      PCs, Locking, Retrying, Sanitizing, RetriesOnlyTransientErrors, ClaimsAreEarned,
      MediaTouched, Total, Blocked, Admitted
<1>5. CASE FsctlDismount
  BY <1>5, <1>p
  DEF FsctlDismount, IInv, TypeOK, Counting, Errors, Admission, Results,
      PCs, Locking, Retrying, Sanitizing, RetriesOnlyTransientErrors, ClaimsAreEarned,
      MediaTouched, Total, Blocked, Admitted
<1>6. CASE LockCallFails
  BY <1>6, <1>p
  DEF LockCallFails, ErrorClass, IInv, TypeOK, Counting, Errors, Admission, Results,
      PCs, Locking, Retrying, Sanitizing, RetriesOnlyTransientErrors, ClaimsAreEarned,
      MediaTouched, Total, Blocked, Admitted
<1>7. CASE CloseVolume
  BY <1>7, <1>p
  DEF CloseVolume, AfterLocks, IInv, TypeOK, Counting, Errors, Admission, Results,
      PCs, Locking, Retrying, Sanitizing, RetriesOnlyTransientErrors, ClaimsAreEarned,
      MediaTouched, Total, Blocked, Admitted
<1>8. CASE CloseFailedVolume
  BY <1>8, <1>p, <1>t, <1>c
  DEF CloseFailedVolume, GivesUp, ErrorClass, IInv, TypeOK, Counting, Errors, Admission,
      Results, PCs, Locking, Retrying, Sanitizing, RetriesOnlyTransientErrors,
      ClaimsAreEarned, MediaTouched, Total, Blocked, Admitted, Claimed
<1>9. CASE Backoff
  BY <1>9, <1>p
  DEF Backoff, ErrorClass, IInv, TypeOK, Counting, Errors, Admission, Results,
      PCs, Locking, Retrying, Sanitizing, RetriesOnlyTransientErrors, ClaimsAreEarned,
      MediaTouched, Total, Blocked, Admitted
<1>10. CASE NativeReinitialize \/ WinApiReinitialize
  BY <1>10, <1>p, <1>t, <1>c, <1>a, <1>d
  DEF NativeReinitialize, NativeReturns, WinApiReinitialize, IInv, TypeOK, Counting, Errors, Admission,
      Results, PCs, Locking, Retrying, Sanitizing, RetriesOnlyTransientErrors,
      ClaimsAreEarned, MediaTouched, Total, Blocked, Admitted, Claimed
<1>11. CASE NativeFails \/ NativeUnreached
  <2>1. PICK code \in {0, 1} : NativeReturns(code) /\ (~StaleLastError => code = 1)
    BY <1>11 DEF NativeFails, NativeUnreached, RefusalCodes
  <2>2. media' \in Refused \cup {media}
    BY <1>11 DEF NativeFails, NativeUnreached
  <2>3. CASE code = 0
    <3>1. /\ pc = "native" /\ pc' = "unlock" /\ result' = Claimed /\ StaleLastError
          /\ UNCHANGED <<plan, admin, native, locked, attempt, error>>
          /\ UNCHANGED <<handle, mounted, unlocked, warnings>>
      BY <2>1, <2>3 DEF NativeReturns
    <3>2. media' \in DataState
      BY <2>2, <1>d DEF IInv, TypeOK
    <3>3. TypeOK' /\ Counting' /\ Errors'
      BY <3>1, <3>2, <1>p, <1>t
      DEF IInv, TypeOK, Counting, Errors, PCs, Locking, Retrying, Sanitizing,
          RetriesOnlyTransientErrors, Total
    <3>4. Admission'
      BY <3>1 DEF IInv, Counting, Admission, Sanitizing, Total, Blocked, Admitted, MediaTouched
    <3>5. Results'
      BY <3>1 DEF Results, Claimed
    <3> QED
      BY <3>3, <3>4, <3>5 DEF IInv
  <2>4. CASE code = 1
    BY <2>1, <2>2, <2>4, <1>p, <1>d
    DEF NativeReturns, IInv, TypeOK, Counting, Errors, Admission,
        Results, PCs, Locking, Retrying, Sanitizing, RetriesOnlyTransientErrors,
        ClaimsAreEarned, MediaTouched, Total, Blocked, Admitted
  <2> QED
    BY <2>1, <2>3, <2>4
<1>12. CASE WinApiFails
  BY <1>12, <1>p, <1>t, <1>c, <1>d
  DEF WinApiFails, ErrorClass, IInv, TypeOK, Counting, Errors, Admission,
      Results, PCs, Locking, Retrying, Sanitizing, RetriesOnlyTransientErrors,
      ClaimsAreEarned, MediaTouched, Total, Blocked, Admitted, Claimed
<1>13. CASE Unlock
  BY <1>13, <1>p
  DEF Unlock, IInv, TypeOK, Counting, Errors, Admission,
      Results, PCs, Locking, Retrying, Sanitizing, RetriesOnlyTransientErrors,
      ClaimsAreEarned, MediaTouched, Total, Blocked, Admitted, Claimed
<1>14. CASE Return
  BY <1>14, <1>p
  DEF Return, IInv, TypeOK, Counting, Errors, Admission,
      Results, PCs, Locking, Retrying, Sanitizing, RetriesOnlyTransientErrors,
      ClaimsAreEarned, MediaTouched, Total, Blocked, Admitted, Claimed
<1>15. CASE Remount
  BY <1>15, <1>p
  DEF Remount, Letters, IInv, TypeOK, Counting, Errors, Admission,
      Results, PCs, Locking, Retrying, Sanitizing, RetriesOnlyTransientErrors,
      ClaimsAreEarned, MediaTouched, Total, Blocked, Admitted, Claimed
<1>16. CASE UNCHANGED vars
  BY <1>16
  DEF vars, IInv, TypeOK, Counting, Errors, Admission,
      Results, PCs, Locking, Retrying, Sanitizing, RetriesOnlyTransientErrors,
      ClaimsAreEarned, MediaTouched, Total, Blocked, Admitted, Claimed
<1> QED
  BY <1>1, <1>2, <1>3, <1>4, <1>5, <1>6, <1>7, <1>8, <1>9, <1>10, <1>11, <1>12, <1>13,
     <1>14, <1>15, <1>16
  DEF Next, Execute, Lock, Sanitize, Done

\* The strengthened invariant holds in every reachable state.
LEMMA Invariance == Spec => []IInv
<1>1. Init => IInv
  BY InitEstablishesIInv
<1>2. IInv /\ [Next]_vars => IInv'
  BY StepPreservesIInv
<1> QED
  BY <1>1, <1>2, PTL DEF Spec

-----------------------------------------------------------------------------
(* What follows from it.                                                   *)

\* Every variable keeps its type.
THEOREM TypeCorrect == Spec => []TypeOK
<1>1. IInv => TypeOK
  BY DEF IInv
<1> QED
  BY <1>1, Invariance, PTL

\* Policy and engine together never let a protected disk be touched, nor one
\* that has a letter left to lock.
THEOREM ProtectedMediaStaysUntouched == Spec => []MediaTouchedOnlyIfPermitted
<1>1. IInv => MediaTouchedOnlyIfPermitted
  <2> SUFFICES ASSUME IInv, MediaTouched
               PROVE  /\ admin
                      /\ ~plan.dry_run
                      /\ plan.target = "disk_number"
                      /\ LET m == plan.capability_snapshot
                         IN  /\ ~m.is_system /\ ~m.is_boot /\ ~m.is_read_only /\ ~Removable(m)
                             /\ locked = m.drive_letters
    BY DEF MediaTouchedOnlyIfPermitted
  <2>1. plan \in DrivePlans /\ ~plan.dry_run /\ ~Blocked
        /\ locked = plan.capability_snapshot.drive_letters
    BY DEF IInv, TypeOK, Admission, Admitted, Total
  <2>2. plan.executable /\ admin
    BY <2>1, PlanFields DEF Blocked
  <2> QED
    BY <2>1, <2>2, PolicyProtects
<1> QED
  BY <1>1, Invariance, PTL

\* A claim of Clear or Purge is given only for an erased disk, as long as the
\* code of a refused native request is not lost to the CloseHandle before
\* GetLastError (lower.cpp:154-157).
THEOREM ClaimsAreAlwaysEarned ==
  ASSUME ~StaleLastError
  PROVE  Spec => []ClaimsAreEarned
<1>1. IInv => ClaimsAreEarned
  BY DEF IInv, Results
<1> QED
  BY <1>1, Invariance, PTL

\* Only transient lock errors are retried, and all attempts are used on them.
THEOREM RetriesAreForTransientErrors == Spec => []RetriesOnlyTransientErrors
<1>1. IInv => RetriesOnlyTransientErrors
  BY DEF IInv, Errors
<1> QED
  BY <1>1, Invariance, PTL

\* No return path of execute leaves a handle open or skips an unlock call.
THEOREM LocksAreReleased == Spec => []EveryLockReleased
<1>1. IInv => EveryLockReleased
  BY DEF IInv, Errors, Counting, EveryLockReleased
<1> QED
  BY <1>1, Invariance, PTL

\* No step changes the disk before the lock loop is complete.
THEOREM SanitizeComesAfterEveryLock == Spec => SanitizeNeedsEveryLock
<1>1. IInv /\ [Next]_vars
        => [media' # media => locked = plan.capability_snapshot.drive_letters]_vars
  BY DEF IInv, Counting, Total, Sanitizing, Next, Execute, DryRun, Refuse, BeginLocking,
         Unworked, Lock, OpenVolume, FsctlLock, FsctlDismount, LockCallFails, CloseVolume,
         CloseFailedVolume, Backoff, Sanitize, NativeReinitialize, NativeFails,
         NativeUnreached, NativeReturns, WinApiReinitialize, WinApiFails, Unlock, Return,
         Remount, Done, vars
<1> QED
  BY <1>1, Invariance, PTL DEF Spec, SanitizeNeedsEveryLock

-----------------------------------------------------------------------------
(* Every step of execute uses up one of a bounded number.                  *)

LEMMA MoreAttempts ==
  ASSUME NEW n \in Nat
  PROVE  /\ n * MaxAttempts \in Nat
         /\ (n + 1) * MaxAttempts = n * MaxAttempts + MaxAttempts
         /\ n >= 1 => n * MaxAttempts >= MaxAttempts
<1>1. n * MaxAttempts \in Nat
  BY AttemptsAssumption
<1>2. (n + 1) * MaxAttempts = n * MaxAttempts + MaxAttempts
  BY AttemptsAssumption
<1>3. ASSUME n >= 1 PROVE n * MaxAttempts >= MaxAttempts
  <2>1. n - 1 \in Nat /\ n = (n - 1) + 1
    BY <1>3
  <2>2. (n - 1) * MaxAttempts \in Nat /\ ((n - 1) + 1) * MaxAttempts = (n - 1) * MaxAttempts + MaxAttempts
    BY <2>1, AttemptsAssumption
  <2> QED
    BY <2>1, <2>2, AttemptsAssumption
<1> QED
  BY <1>1, <1>2, <1>3

\* The attempts that are left, this one not counted, while the lock loop runs.
AttemptsLeft == (Total - locked) * MaxAttempts - attempt

\* The bound, place by place.
StepsLeftHere ==
  /\ Total \in Nat /\ locked \in 0..Total /\ unlocked \in 0..locked /\ attempt \in 1..MaxAttempts
  /\ pc = "returned" => StepsLeft = 0
  /\ pc = "unlock" => StepsLeft = 1 + locked - unlocked
  /\ pc = "winapi" => StepsLeft = 2 + locked
  /\ pc = "native" => StepsLeft = 3 + locked
  /\ pc = "start" => StepsLeft = 4 + Total + 6 * (Total * MaxAttempts)
  /\ pc \in Locking \cup Retrying =>
       AttemptsLeft \in Nat /\ StepsLeft = 3 + Total + 6 * AttemptsLeft + AttemptSteps[pc]

LEMMA StepsLeftIs == IInv => StepsLeftHere
<1> SUFFICES ASSUME IInv PROVE StepsLeftHere
  OBVIOUS
<1>1. /\ Total \in Nat /\ locked \in 0..Total /\ attempt \in 1..MaxAttempts /\ MaxAttempts \in Nat
      /\ unlocked \in 0..locked
  <2>1. plan \in DrivePlans /\ locked \in Nat /\ unlocked \in Nat /\ attempt \in 1..MaxAttempts
    BY LettersAssumption DEF IInv, TypeOK
  <2>2. plan.capability_snapshot.drive_letters \in 0..MaxLetters
    BY <2>1, PlanFields
  <2>3. Total \in Nat
    BY <2>2, LettersAssumption DEF Total
  <2> QED
    BY <2>1, <2>3, AttemptsAssumption DEF IInv, Counting
<1>2. ASSUME pc \in Locking \cup Retrying PROVE AttemptsLeft \in Nat
  <2>1. Total - locked \in Nat /\ Total - locked >= 1
    BY <1>1, <1>2 DEF IInv, Counting
  <2>2. (Total - locked) * MaxAttempts \in Nat /\ (Total - locked) * MaxAttempts >= MaxAttempts
    BY <2>1, MoreAttempts
  <2> QED
    BY <1>1, <2>2 DEF AttemptsLeft
<1> QED
  BY <1>1, <1>2 DEF StepsLeftHere, StepsLeft, AttemptsLeft, Total, Locking, Retrying

LEMMA StepsLeftIsNext == IInv' => StepsLeftHere'
BY StepsLeftIs, PTL

\* The retry loop of drive_sanitize.py:234-243 and the loops around it are
\* bounded by what StepsLeft says, for any number of letters and attempts.
THEOREM ExecuteIsBounded == Spec => EveryStepCounts
<1> DEFINE Counts == StepsLeft' \in 0..StepsLeft - 1
<1> USE DEF Locking, Retrying
<1>1. ASSUME IInv, IInv', Execute PROVE Counts
  <2>1. StepsLeftHere /\ StepsLeftHere' /\ MaxAttempts \in Nat \ {0}
    BY <1>1, StepsLeftIs, StepsLeftIsNext, AttemptsAssumption
  <2>u. UNCHANGED plan /\ Total' = Total
    BY <1>1 DEF Execute, DryRun, Refuse, BeginLocking, Unworked, Lock, OpenVolume, FsctlLock, FsctlDismount,
         LockCallFails, CloseVolume, CloseFailedVolume, Backoff, Sanitize, NativeReinitialize,
         NativeFails, NativeUnreached, NativeReturns, WinApiReinitialize, WinApiFails, Unlock,
         Return, Total
  <2>2. CASE DryRun \/ Refuse
    <3>1. Total * MaxAttempts \in Nat
      BY <2>1, MoreAttempts DEF StepsLeftHere
    <3> QED
      BY <2>1, <2>2, <3>1 DEF DryRun, Refuse, StepsLeftHere
  <2>3. CASE BeginLocking
    <3>1. pc = "start" /\ pc' = AfterLocks(0) /\ UNCHANGED <<locked, attempt, unlocked>> /\ locked = 0
      BY <2>3, <1>1 DEF BeginLocking, Unworked, IInv, Counting
    <3>2. Total * MaxAttempts \in Nat
      BY <2>1, MoreAttempts DEF StepsLeftHere
    <3>3. Total' = Total /\ AttemptsLeft' = Total * MaxAttempts - attempt
      <4>1. Total - locked = Total
        BY <2>1, <3>1 DEF StepsLeftHere
      <4> QED
        BY <2>u, <3>1, <4>1 DEF AttemptsLeft
    <3>4. pc' = "open" \/ (pc' = "native" /\ locked = Total)
      BY <2>1, <3>1 DEF StepsLeftHere, AfterLocks, Total
    <3>5. AttemptSteps["open"] = 6
      BY DEF AttemptSteps
    <3> QED
      BY <2>1, <3>1, <3>2, <3>3, <3>4, <3>5 DEF StepsLeftHere
  <2>4. CASE OpenVolume \/ FsctlLock \/ FsctlDismount \/ LockCallFails
    <3>1. UNCHANGED <<locked, attempt>> /\ AttemptsLeft' = AttemptsLeft
      BY <2>4, <2>u DEF OpenVolume, FsctlLock, FsctlDismount, LockCallFails, AttemptsLeft
    <3>2. /\ pc \in Locking /\ pc' \in Locking \cup Retrying
          /\ AttemptSteps[pc'] \in Nat /\ AttemptSteps[pc'] < AttemptSteps[pc] /\ AttemptSteps[pc] \in Nat
      BY <2>4 DEF OpenVolume, FsctlLock, FsctlDismount, LockCallFails, AttemptSteps
    <3> QED
      BY <2>1, <2>u, <3>1, <3>2 DEF StepsLeftHere
  <2>5. CASE CloseVolume
    <3>1. pc = "close" /\ locked' = locked + 1 /\ attempt' = 1 /\ unlocked' = unlocked /\ pc' = AfterLocks(locked + 1)
      BY <2>5 DEF CloseVolume
    <3>2. locked < Total
      BY <1>1, <3>1 DEF IInv, Counting
    <3>3. Total - (locked + 1) \in Nat /\ Total - locked = (Total - (locked + 1)) + 1
      BY <2>1, <3>2 DEF StepsLeftHere
    <3>4. (Total - locked) * MaxAttempts = (Total - (locked + 1)) * MaxAttempts + MaxAttempts
      BY <3>3, MoreAttempts
    <3>5. (Total - (locked + 1)) * MaxAttempts \in Nat
      BY <3>3, MoreAttempts
    <3>6. AttemptsLeft' = (Total - (locked + 1)) * MaxAttempts - 1
      BY <2>u, <3>1 DEF AttemptsLeft
    <3>7. AttemptsLeft = (Total - (locked + 1)) * MaxAttempts + MaxAttempts - attempt
      BY <2>1, <3>4, <3>5 DEF AttemptsLeft, StepsLeftHere
    <3>8. AttemptSteps["close"] = 3 /\ AttemptSteps["open"] = 6
      BY DEF AttemptSteps
    <3>9. pc' = "open" \/ (pc' = "native" /\ locked + 1 = Total)
      BY <2>1, <3>1, <3>2 DEF StepsLeftHere, AfterLocks, Total
    <3> QED
      BY <2>1, <2>u, <3>1, <3>2, <3>5, <3>6, <3>7, <3>8, <3>9 DEF StepsLeftHere
  <2>6. CASE CloseFailedVolume
    <3>1. /\ pc = "close_failed" /\ pc' \in {"unlock", "backoff"} /\ UNCHANGED <<locked, attempt, unlocked>>
          /\ AttemptsLeft' = AttemptsLeft
      BY <2>6, <2>u DEF CloseFailedVolume, AttemptsLeft
    <3>2. AttemptSteps["close_failed"] = 2 /\ AttemptSteps["backoff"] = 1
      BY DEF AttemptSteps
    <3> QED
      BY <2>1, <2>u, <3>1, <3>2 DEF StepsLeftHere
  <2>7. CASE Backoff
    <3>1. pc = "backoff" /\ pc' = "open" /\ attempt' = attempt + 1 /\ UNCHANGED locked
      BY <2>7 DEF Backoff
    <3>2. AttemptsLeft' = (Total - locked) * MaxAttempts - (attempt + 1)
      BY <2>u, <3>1 DEF AttemptsLeft
    <3>3. AttemptSteps["open"] = 6 /\ AttemptSteps["backoff"] = 1
      BY DEF AttemptSteps
    <3>4. AttemptsLeft' = AttemptsLeft - 1
      <4>1. (Total - locked) * MaxAttempts = AttemptsLeft + attempt
        <5>1. Total - locked \in Nat
          BY <2>1 DEF StepsLeftHere
        <5>2. (Total - locked) * MaxAttempts \in Nat
          BY <5>1, MoreAttempts
        <5> QED
          BY <2>1, <5>2 DEF AttemptsLeft, StepsLeftHere
      <4> QED
        BY <2>1, <3>1, <3>2, <4>1 DEF StepsLeftHere
    <3> QED
      BY <2>1, <2>u, <3>1, <3>3, <3>4 DEF StepsLeftHere
  <2>8. CASE Sanitize \/ Unlock \/ Return
    BY <2>1, <2>u, <2>8, <1>1
    DEF StepsLeftHere, Sanitize, NativeReinitialize, NativeFails, NativeUnreached, NativeReturns,
        WinApiReinitialize, WinApiFails, Unlock, Return, IInv, Counting, Sanitizing
  <2> QED
    BY <1>1, <2>2, <2>3, <2>4, <2>5, <2>6, <2>7, <2>8 DEF Execute, Lock
<1>2. ASSUME UNCHANGED <<plan, pc, locked, attempt, unlocked>> PROVE StepsLeft' = StepsLeft
  BY <1>2 DEF StepsLeft
<1>3. ASSUME IInv, IInv', [Next]_vars PROVE IF Execute THEN Counts ELSE StepsLeft' = StepsLeft
  BY <1>1, <1>2, <1>3 DEF Next, Remount, Done, vars
<1>4. IInv /\ IInv' /\ [Next]_vars
        => [IF Execute THEN StepsLeft' \in 0..StepsLeft - 1 ELSE StepsLeft' = StepsLeft]_vars
  BY <1>3
<1> QED
  BY <1>4, Invariance, PTL DEF Spec, EveryStepCounts

-----------------------------------------------------------------------------
(* The engine implements its contract.                                     *)

LEMMA InitRefines == Init => Contract!Init
<1> SUFFICES ASSUME Init PROVE Contract!Init
  OBVIOUS
<1>1. plan.executable \in BOOLEAN /\ plan.dry_run \in BOOLEAN
  BY PlanFields DEF Init
<1> QED
  BY <1>1 DEF Init, Contract!Init, NoResult, Contract!NoResult

\* The answer of a plan that was refused, ran dry, or ran to its end is honest.
LEMMA AnswerIsHonest ==
  ASSUME ~StaleLastError
  PROVE  IInv /\ pc = "returned" => Contract!Honest(result)
<1> SUFFICES ASSUME IInv, pc = "returned" PROVE Contract!Honest(result)
  OBVIOUS
<1>1. plan.assurance_target \in AssuranceLevel /\ plan.dry_run \in BOOLEAN
  BY PlanFields DEF IInv, TypeOK
<1>2. result \in Contract!ExecutionResult
  BY DEF IInv, TypeOK, ExecutionResult, AssuranceLevel, Contract!ExecutionResult,
         Contract!AssuranceLevel
<1>3. CASE plan.dry_run
  <2>1. result = DryRunResult
    BY <1>3 DEF IInv, Results
  <2> QED
    BY <1>2, <1>3, <2>1 DEF Contract!Honest, DryRunResult, Contract!DryRunResult,
                              Contract!ErasureClaims
<1>4. CASE ~plan.dry_run /\ result = Failure
  BY <1>2, <1>4 DEF Contract!Honest, Failure, Contract!ErasureClaims
<1>5. CASE ~plan.dry_run /\ result = Claimed /\ Admitted
  <2>1. plan.executable
    BY <1>5 DEF Admitted, Blocked
  <2>2. result.success
    BY <1>5 DEF Claimed
  <2>3. result.assurance_achieved \in Contract!ErasureClaims => media = "erased"
    BY DEF IInv, Results, ClaimsAreEarned, ErasureClaims, Contract!ErasureClaims
  <2> QED
    BY <1>2, <1>5, <2>1, <2>2, <2>3 DEF Contract!Honest
<1> QED
  BY <1>3, <1>4, <1>5 DEF IInv, Results

LEMMA StepRefines ==
  ASSUME ~StaleLastError
  PROVE  IInv /\ IInv' /\ [Next]_vars => [Contract!Next]_(Contract!vars)
<1> SUFFICES ASSUME IInv, IInv', [Next]_vars
             PROVE  Contract!Next \/ UNCHANGED Contract!vars
  OBVIOUS
<1>h. (IInv /\ pc = "returned" => Contract!Honest(result))'
  BY AnswerIsHonest, PTL
<1>1. CASE pc # "returned" /\ pc' = "returned" /\ UNCHANGED <<plan, media>>
  <2>1. result' \in Contract!ExecutionResult
    BY <1>1, <1>h DEF Contract!Honest
  <2>2. Contract!Honest(result')
    BY <1>1, <1>h DEF Contract!Honest
  <2>3. Contract!Answer
    BY <1>1, <2>1, <2>2 DEF Contract!Answer
  <2> QED
    BY <2>3 DEF Contract!Next
<1>2. CASE pc # "returned" /\ pc' # "returned" /\ UNCHANGED plan
           /\ (media' = media \/ (Admitted /\ media # "erased"
                                     /\ media' \in {"undefined", "erased"}))
  <2>1. CASE media' = media
    BY <1>2, <2>1 DEF Contract!vars
  <2>2. CASE Admitted /\ media # "erased" /\ media' \in {"undefined", "erased"}
    <3>1. plan.executable /\ ~plan.dry_run
      BY <2>2 DEF Admitted, Blocked
    <3> QED
      BY <1>2, <2>2, <3>1 DEF Contract!Next, Contract!Touch
  <2> QED
    BY <1>2, <2>1, <2>2
<1>3. CASE UNCHANGED vars
  BY <1>3 DEF vars, Contract!vars
<1>4. CASE DryRun \/ Refuse \/ Return
  BY <1>1, <1>4 DEF DryRun, Refuse, Return, Unworked
<1>5. CASE BeginLocking
  BY <1>2, <1>5 DEF BeginLocking, Unworked, AfterLocks
<1>6. CASE Lock
  BY <1>2, <1>6 DEF Lock, OpenVolume, FsctlLock, FsctlDismount, LockCallFails, CloseVolume,
                    AfterLocks, CloseFailedVolume, Backoff
<1>7. CASE Sanitize
  <2>1. pc \in {"native", "winapi"} /\ pc' \in {"winapi", "unlock"} /\ UNCHANGED plan
    BY <1>7 DEF Sanitize, NativeReinitialize, NativeFails, NativeUnreached, NativeReturns,
                   WinApiReinitialize, WinApiFails
  <2>2. Admitted
    BY <2>1 DEF IInv, Admission
  <2>3. media' \in Accepted \cup Refused \cup {media}
    BY <1>7 DEF Sanitize, NativeReinitialize, NativeFails, NativeUnreached, NativeReturns,
                   WinApiReinitialize, WinApiFails
  <2>4. media' = media \/ (media # "erased" /\ media' \in {"undefined", "erased"})
    BY <2>3 DEF Accepted, Refused, IInv, TypeOK, DataState
  <2> QED
    BY <1>2, <2>1, <2>2, <2>4
<1>8. CASE Unlock \/ Remount
  BY <1>2, <1>8 DEF Unlock, Remount
<1> QED
  BY <1>3, <1>4, <1>5, <1>6, <1>7, <1>8 DEF Next, Execute, Done

\* Every behaviour of the drive engine is a behaviour of SanitizeEngine, if the
\* native library never returns 0 for a request that the disk refused.
THEOREM DriveEngineImplementsContract ==
  ASSUME ~StaleLastError
  PROVE  Spec => ImplementsContract
<1>1. Init => Contract!Init
  BY InitRefines
<1>2. IInv /\ IInv' /\ [Next]_vars => [Contract!Next]_(Contract!vars)
  BY StepRefines
<1> QED
  BY <1>1, <1>2, Invariance, PTL DEF Spec, ImplementsContract, Contract!Spec
=============================================================================
