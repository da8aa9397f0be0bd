# OMEGA Protocol: specification and verification

TLA+ models of OMEGA Protocol 2.0 (a Windows desktop program that sanitizes
files and drives and reports how much assurance was reached), model-checked with
TLC, their safety properties also proved with TLAPS. Line numbers refer to the repository beside
this directory (`src/`).

## 1. The system

The program is one Python process with an optional C++ library. A Qt window
collects targets, worker threads plan and execute, and everything that touches a
disk goes through the Win32 API.

```
 ui/app.py, ui/list_models.py   window: selection, mode, debounce, tokens
        | QThreadPool                       ^ posted events
 ui/workers.py                  PreflightWorker, SessionWorker
        |
 orchestrator.py                build_preflight, execute
    |                  |
 services/planning.py  services/execution.py --> audit.py (five artifacts)
    |        |                 |
 services/   policy.py  engines/drive_sanitize.py   engines/file_sanitize.py
 inventory.py              |             \             |          |
 PowerShell, system.py   low_level.py    native_bridge.py -> lower.cpp
```

| Component | State it keeps | Operations | What is hard about it | What makes it correct |
|---|---|---|---|---|
| `policy.py` | none | `create_drive_plan`, `create_file_plan` | order of the branches | no executable plan for a protected disk |
| `engines/drive_sanitize.py`, `low_level.py` | locked letters, attempt, handle, result | `execute`, `_lock_with_retry`, `lock_and_dismount_volume`, `reinitialize_media`, `unlock_volume` | every call may fail; locks end with their handle; other processes mount volumes | no request before all locks, no claim that is not earned, everything released |
| `engines/file_sanitize.py`, `lower.cpp`, `native_bridge.py` | position in the file, pass, error code | `execute`, `_python_overwrite`, `omega_file_sanitize` | short writes, two implementations one after the other on the same file, error codes | nothing is released before it was overwritten; failures are failures |
| `services/inventory.py` | snapshot and failure with expiry, lock | `get_snapshot`, `remember_failure`, `invalidate` | PowerShell runs outside the lock, calls overtake each other | bounded staleness, forced refresh, every call returns |
| `services/planning.py` | none | `build_preflight` | catches and remembers inventory errors | plans only for disks in the snapshot |
| `orchestrator.py` | its services | `execute` | the invalidation comes after the terminal event, and not after an exception | a later session does not plan on the disks of before |
| `services/execution.py` | list of results | `execute`, `_build_failure_result` | an exception in one plan of several | one result per plan, no over-claim |
| `audit.py` | files under `report_root` | `write_session` | failure between artifacts; directories named by the second | complete, honest reports |
| `ui/workers.py`, `events.py` | request token | `run` | exceptions become events | one terminal event per session |
| `ui/app.py`, `ui/list_models.py` | phase, mode, selection, token, pending refresh, timer, running flag | handlers | overlapping workers, modal dialogs with nested event loops, a delegate that writes into the model | Ready only over the present selection; no preflight and no refresh lost; one session |
| the whole | which disk has which number | hot plugging, review, session | bare disk numbers travel from an old snapshot to the request | a request reaches the disk that was seen, or that one is gone; never the system disk |
| `omega_offline.py` | none | `main` | same policy and engine as the window | (a session of one disk) |

Not state of the program, and not modelled: report layout
(`report_templates`), serialisation, splash screen, help, resource paths, build
files. `PROJECT.json` lists every component with its status, and under
`hazards` what is hard to test, each at its line, with the properties that
cover it.

## 2. Modules

| Module | Models | Instance of | Abstraction |
|---|---|---|---|
| `OmegaModels` | enumerations and `ExecutionResult` of `models.py` | | a result is its two fields that make a claim |
| `Policy` | `policy.py`, with the records `system.py` builds | extends `OmegaModels` | pure operators; letters are counted, texts left out |
| `SanitizeEngine` | the contract of an engine (abstract) | extends `OmegaModels` | one target, one answer |
| `SessionContract` | what the window and the session workers promise each other (abstract) | extends `OmegaModels` | one session after another: begun with arguments, one end, a late return |
| `DriveSanitize` | `DriveSanitizer.execute` | extends `Policy`; `Contract == INSTANCE SanitizeEngine` | one action per Win32 call; a disk is `intact`, `undefined` or `erased` |
| `FileSanitize` | `FileSanitizer.execute` and `omega_file_sanitize` | extends `Policy`; `Contract == INSTANCE SanitizeEngine` | a file is a sequence of chunks (`data`, `zero`, `random`) |
| `Inventory` | `InventoryService`, its caller in `planning.py` | | a snapshot is when and in which epoch it was collected |
| `Execution` | `OmegaOrchestrator.execute`, `ExecutionService`, `ReportWriter` | `Engine == INSTANCE SanitizeEngine`; `Contract == INSTANCE SessionContract` | engines appear through their contract, the inventory as one slot, which dates its snapshot |
| `MainWindow` | window, list models, workers, pool | `Contract == INSTANCE SessionContract` | a snapshot is a set of disks, a session its terminal event |
| `System` | the composition: inventory, window and drive sessions over the disks behind the numbers | extends `Policy` | the parts are cut down to what they do with disk numbers |
| `DriveSanitizeProofs`, `FileSanitizeProofs`, `InventoryProofs`, `ExecutionProofs`, `MainWindowProofs`, `SystemProofs` | theorems about the module in their name | extend it and `TLAPS` | |
| `MC*` | values of the constants for TLC | extend the module | |

How state and actions correspond to the code:

* **DriveSanitize.** `pc` is the position in `execute`; `locked`, `unlocked`
  and `warnings` are the lengths of the lists of that name; `attempt` is the
  counter of `_lock_with_retry`; `error` is the class of the exception in
  flight; `handle` is the volume handle of `lock_and_dismount_volume`.
  `OpenVolume`, `FsctlLock`, `FsctlDismount`, `CloseVolume` are its calls;
  `LockCallFails`, `CloseFailedVolume`, `Backoff` the way through the retry
  loop. `NativeReinitialize`, `NativeFails` and `NativeUnreached` stand for the
  library: the request accepted, refused, or never sent. What the engine does
  next depends on the code the library returns (`NativeReturns`), and the code of
  a refused request may be 0, since `lower.cpp:154` closes the disk before
  `GetLastError` is asked (`RefusalCodes`).
  `WinApiReinitialize`/`WinApiFails` stand for the direct request. `Remount` is the
  environment: Windows mounts a dismounted volume again at the next access
  unless somebody holds it locked, and a lock lasts as long as the handle that
  took it. A failing transient call may fail with Win32 codes 5, 32 or 33, a
  permanent one with any other.
* **FileSanitize.** `content` keeps what chunks held when the file was
  truncated or deleted, because that is what freed clusters hold. `pos` is the
  file position, so that a short write shifts what follows it. The native part
  follows `lower.cpp` through every error exit; the Python part follows
  `_python_overwrite`, where any call may raise. `UnsetError` is the value of
  `GetLastError` after a failure that does not set it.
* **Inventory.** Each locked block of `get_snapshot` is one action, the code
  outside the lock is several. `answer` is what the last step returned to its
  caller, with the call it answers, so that properties can speak of every
  answer. `epoch` counts invalidations.
* **Execution.** `pc` runs through preflight, engines, the artifacts by name and
  `written`, and back to `idle`, where the locals of `execute` are gone. Between
  two answers `EngineTouches` changes the data of the current target as far as
  the contract allows; `EngineRaises` may come at any moment of it.
  `reports[s][a]` is what artifact `a` in the directory of second `s` holds.
  `Complete` posts `SessionCompleted`, and the session is then `leaving`: its
  `Invalidate` follows at any later time, as the window may have started the next
  session on another thread by then. A snapshot in the slot carries how many
  sessions had ended when it was queried (`after`) and when it was stored
  (`stored`); `Review` is the preflight worker that fills the slot with a query
  begun at any earlier time.
* **SessionContract.** `Begin` is the end of `start_execution`, `Complete` and
  `Fail` are the worker's terminal event, `Return` is the end of
  `OmegaOrchestrator.execute`. `Execution` is the side of the workers: `Execute`
  begins, `Complete` and `Emit` end, `Invalidate` returns. `MainWindow` is the
  other side: the request is that of the one session worker that has not posted
  its event, and those that have are still to return (`SessionReturns`).
* **MainWindow.** Actions are handlers of the UI thread and steps of the pool's
  threads. `waiting` and `active` are the pool, `events` the queue of posted
  events, `dialog` the modal dialog: the user can then only answer it, while
  timers and events are handled all the same. `PreflightReady` and `Terminal`
  are the events; log and progress events are left out. A preflight's answer
  holds any snapshot or none. `DelegateSetsData` is the check box's own delegate,
  which changes the model without `schedule_preflight`; `aside` remembers that it
  did so after the last dispatch. A session worker lives on after its terminal
  event until `SessionReturns`.
* **System.** `attached[n]` is the disk behind number `n`. A snapshot records the
  disk of each number and, as a date, how often each disk had been unplugged; it
  travels from `ReviewCollects` to the cache and the list (`ReviewReturns`), a row
  of the list becomes a pick (`ToggleDrive`), a pick a request, and a request with
  another snapshot a plan (`BuildPreflight`). `Reached` is `open_disk_handle`:
  whatever has the number now, looked up anew by the direct request after the
  library's has failed; a refused request of the library whose code is 0
  (`RefusalCodes`) is answered like an accepted one. `picks`, `hits` and `unplugged` are history that the
  program does not have, and only properties read it.

## 3. What is checked

All runs use the constants below; "bound" names the constants that only keep
the state space finite. TLC's deadlock check is on except in the two window
runs, where the bounded user may have nothing left to do and the program then
rightly waits.

| Run | Bounds | Properties |
|---|---|---|
| `MCDriveSanitize` | every plan of 4 bus and 3 media types, 2 letters, 3 attempts; fair | `TypeOK`, `MediaTouchedOnlyIfPermitted`, `ClaimsAreEarned`, `RetriesOnlyTransientErrors`, `EveryLockReleased`, `ImplementsContract`, `Termination` |
| `MCFileSanitize` | every plan, files of 0 to 3 chunks; fair | `TypeOK`, `ReleasedOnlyWhenOverwritten`, `FallbackSuccessLeavesNothing`, `ImplementsContract`, `Termination` |
| `MCInventory` | 2 threads, TTL 2, timeout 1, clock to 4, 1 invalidation; fair | `TypeOK`, `BoundedStaleness`, `ForceIsFresh`, `StaleDataFades`, `CallsReturn` |
| `MCExecution` | 2 targets, 2 sessions of 1 and then 2 targets, 1 second; fair | `TypeOK`, `ResultsAnswerTheRequest`, `ReportsAreHonest`, `CompletedSessionsAreReported`, `OneTerminalEvent`, `FreshInventoryAfterCompletion`, `ImplementsContract`, `SessionsEnd` |
| `MCMainWindow` | 1 file, 1 disk, 2 pool threads, 2 tokens and 1 more per session, 2 sessions; fair | `TypeOK`, `PreflightIsUnderWay`, `ReadyMeansCurrent`, `OneSession`, `SelectionIsVisible`, `RefreshIsNotForgotten`, `ReadySessionsWereReviewed`, `ImplementsContract`, `PreflightSettles`, `SessionSettles` |
| `MCSystem` | 3 disks, 2 numbers, each disk unplugged once, 1 session | `TypeOK`, `SystemDisksSurvive`, `RequestsReachThePlannedDisk`, `RequestsReachTheChosenDisk`, `ClaimsHoldForSettledDisks` |

Why the bounds are enough for what the runs ask: two letters show a failure
after a lock was taken, and three attempts a success after retries; the four
bus and three media types reach every branch of the policy. Three chunks give a
first, a middle and a last one, so that a short write can shift the pass, and
an empty file is included. Two threads overlap, overtake and store out of order;
the clock reaches past timeout + TTL after an invalidation; without
administrator rights (`IsAdmin = FALSE`) a call can also take the privileged
path, so one run covers both. Two targets give a plan before or after the one
that raises; the two sessions fall into the same second and collide in one
directory, and the second one plans while the first is still to invalidate. In
the window one token is the initial preflight, one a change by the user, and
each session brings a further one, so that answers overlap on two threads with
each other, with a session's end and with the next session. Two numbers and
three disks are the smallest case in which a number changes hands between two
disks beside the system disk, a stick among them that no request may be planned
for; one unplugging per disk is enough to take a number and to give it back.
What the bounds cut off (more disks, targets, sessions, threads, chunks) is
where the theorems of section 4 hold for every value.

Each property of a passing run has a mutant in its module: a definition named
`Mutant...` that changes the code's behaviour as a plausible bug would (a
retried permanent error, a forgotten selection, a swapped order), under which
TLC finds the property violated. The mutants are listed in `PROJECT.json`.

### Fairness

* Engines: `WF(Execute)`. One thread runs `execute`; each Win32 call returns.
  The request itself has a timeout of 7200 s (`settings.py`). `Remount` is the
  environment and gets no fairness.
* Inventory: `WF(Work(t))` per thread. The lock is held for short blocks only,
  and PowerShell is killed after its timeout (`inventory.py:118`). Nobody has to
  call, to invalidate, or to let time pass.
* Execution: `WF(Work)`, and `WF(Invalidate(n))` for each session that is
  leaving: its thread has one call left. An engine's answer is part of `Work`
  because both engines terminate (`Termination` of their runs). `EngineTouches`,
  `Review` and `Execute` have no fairness.
* Window: `WF(Handlers)`, `WF(Threads)`. Qt delivers timers and posted events,
  also in the nested loop of a modal dialog, and the pool starts its workers in
  order; queries have timeouts and sessions end (`SessionsEnd`). The user never
  has to do anything, not even to answer a dialog.

### What the runs show

* Policy and engine together leave system, boot, read-only and removable disks
  alone.
* If a failing call of the native library leaves a code other than 0
  (`StaleLastError = FALSE` in the passing runs), a claim of Clear or Purge is made
  only over an erased disk, and only after all letters went through lock and
  dismount, and the file engine releases clusters only when they were overwritten,
  also after short writes and after a native attempt that failed half-way.
* The code does not guarantee that condition: `last_error_result` runs after
  calls that do not set the last error or may overwrite it. `MCFileSanitizeStaleError`
  drops it for files, `MCDriveSanitizeStaleError.cfg` for drives. Without it, a
  success of the fallback still leaves neither data nor a name, and a
  `.omega-*.bin` file that a failed deletion leaves behind holds nothing of the
  original; protected disks, locks and retries do not depend on it either.
* What the inventory hands out is at most timeout + TTL old, although
  collections overtake each other; a forced refresh is never answered with
  anything but its own collection; data from before an invalidation can come
  back, but only for timeout + TTL.
* In a session every plan has its result in its place, whatever raises, and the
  results answer the request: none is for another target, none for a target
  twice, and in file mode each requested target has one. In drive mode there may
  be none at all (see the inventory errors below). No artifact claims more than was done, and there is exactly one terminal event. A
  session after a completed one may plan on what was attached before in two cases
  only: while the first one's `invalidate()` is still to come, and when a review
  stored its answer late (`inventory.py:251`).
* The window never shows Ready over another selection's preflight unless the
  check box's delegate changed it (`list_models.py:124`), never waits in PREFLIGHT
  for an answer that is not coming, never drops the refresh a session's end asks
  for, and never runs two sessions. A session that is begun from Ready is what
  the preflight showed, although targets are read before the question and mode and
  dry run after it, with timers and answers in between (`app.py:479-514`).
  `ShownBeforeExecuted` fails because a session can also be begun from PREFLIGHT.
* Both sides keep `SessionContract`: the window begins sessions one at a time,
  with targets and with arguments that do not change afterwards, and the code
  that works ends each once, whatever raises, with nothing but its return
  left of a completed one.
* Whatever is plugged and unplugged between review, session and request, no
  request reaches a system or boot disk that stays attached; a request reaches
  another disk than the planned or the chosen one only if that one was unplugged,
  and, again if the library's codes are not lost, a claim is true of every disk
  that kept its number.

### Where code and documentation disagree

In each TLC finds a behaviour of the code that contradicts the quoted line.
The first six are the violation runs of `PROJECT.json`; the last three are
configurations of the same modules, with a short trace each.

| Run | Property | The documentation says | The code |
|---|---|---|---|
| `MCDriveSanitizeDismounted` | `DismountedDuringSanitize` | "Lock and dismount related volumes before device operations." (`policy.py:168`) | `low_level.py:137` closes the handle that owns the lock; the volume may be mounted again before the request |
| `MCFileSanitizeStaleError` | `FailuresAreNotSuccess` | the UI "does not receive raw WinAPI failures as if they were successful results" (`API_CONTRACT.md:41`) | `lower.cpp:23` returns `GetLastError()` after failures that do not set it and after `CloseHandle`; 0 is success to the caller, which leaves the file as it was (`lower.cpp:80-81`) or deletes it after a short write (`lower.cpp:40-50`, then 115) |
| `MCInventoryOldError` | `ErrorIsRecent` | "Cache a recent inventory failure" (`inventory.py:230`) | `planning.py:38` remembers the remembered error again each time it is served |
| `MCExecutionNoBundle` | `BundleIsAlwaysBuilt` | "always builds the report bundle" (`ARCHITECTURE.md:50`) | an artifact that raises (`audit.py:84`) loses the bundle and all results |
| `MCMainWindowUnreviewed` | `ShownBeforeExecuted` | preflight "Shows what the tool plans to do before anything destructive happens." (`user_guide.html:123`) | `app.py:479` starts a session whether or not its targets' preflight has been shown |
| `MCSystemSwapped` | `ReportedDiskIsErased` | "Execution engines must never overstate assurance." (`ARCHITECTURE.md:25`) | `drive_sanitize.py:157` passes a bare number on; after a swap another disk is erased, and the report claims it of the planned one |
| `MCDriveSanitizeStaleError.cfg` | `RefusalsAreNotSuccess` | the same line of `API_CONTRACT.md:41`, for drives | `lower.cpp:154` closes the disk before `GetLastError` is asked for the error of the refused request (157); with code 0 `drive_sanitize.py:175-187` claims the plan's assurance over a disk that was not erased |
| `MCExecutionNoInventory.cfg` | `InventoryFailuresSurface` | "For `drive_sanitize`, hard inventory failures are surfaced unless a safe fallback snapshot is available." (`API_CONTRACT.md:18`); `tests/test_planning_service.py:52-57` expects `build_preflight` to raise the error | `planning.py:35-39` catches `InventoryError` in both modes, and `execute` drops `preflight.errors`: a drive session completes without plans and without results |
| `MCFileSanitizeRenamedLast.cfg` | `RenamedBeforeOverwrite` | "Rename -> zero overwrite -> verify -> random overwrite -> truncate -> unlink" (`policy.py:34`; also `README.md:126`, `METHOD_MATRIX.md:5`) | `file_sanitize.py:155-156` renames after both passes, so that an attempt that stops half-way leaves the file under its own name; `omega_file_sanitize` never renames |

Seen while modelling and present in the models, but stated by no property:
`execute` drops `preflight.errors`, so that a drive missing from the snapshot
has no result (`orchestrator.py:113`; `ResultsAnswerTheRequest` promises one in
file mode only); sessions of the same second share a
directory, and the later one overwrites the report of the earlier (`audit.py:44`);
the inventory is not invalidated after a session
whose report failed (`orchestrator.py:117`); the native file implementation
does not re-read what it wrote (`README.md:184`); a disk with no trustworthy
path stays executable and an accepted request is a success with level
Unsupported (`policy.py:161`); the phase COMPLETE is never visible because the
same handler goes on to PREFLIGHT (`app.py:560-562`); a forced refresh can be
made stale by the next change (`app.py:477`); a click on a drive
during a session replaces RUNNING with PREFLIGHT (`app.py:519`); the window can be
closed by the restart with elevation while a session runs (`app.py:742`, not
in the models).

## 4. What is proved

Proved by TLAPS for every value of the constants that satisfies the named
assumptions (`LettersAssumption`, `AttemptsAssumption`, `BlocksAssumption`,
`StaleAssumption`, `TimesAssumption`, `AdminAssumption`, `SessionAssumption`,
`WindowAssumption`, `FactsAssumption`, `NumbersAssumption`, `NoneAssumption`,
`BoundsAssumption`); TLC evaluates those assumptions in every
run of the module.

**DriveSanitizeProofs.** For any bus and media types, any number of letters and
attempts:

* `PolicyProtects`: an executable plan that is no dry run is for an unprotected
  physical disk. Pure reasoning about `Policy`.
* `TypeCorrect`, `ProtectedMediaStaysUntouched`,
  `RetriesAreForTransientErrors`, `LocksAreReleased`,
  `SanitizeComesAfterEveryLock`: `Spec => []P`, or the action property, each.
* `ExecuteIsBounded`: `Spec => EveryStepCounts`. A letter has `MaxAttempts`
  attempts of at most six steps (`AttemptSteps` counts those that are left of the
  one under way), so the variant needs of the invariant that `attempt` and
  `locked` stay within their bounds.
* Assuming `~StaleLastError`, `ClaimsAreAlwaysEarned` and
  `DriveEngineImplementsContract` (`Spec => Contract!Spec`): a claim rests on the
  code of the native library, so these two hold only if a refused request never
  returns 0.

None of the invariants is inductive alone: that a claim is earned at the end
depends on what was true when the request was sent. The inductive invariant
`IInv` adds to `TypeOK` that `locked` counts letters of the plan and exceeds
none while locking (`Counting`), which error is in flight where (`Errors`),
that the engine is past its checks only with an admissible plan (`Admission`),
and what the result may be at each place (`Results`, where the claim is tied to
the erased disk under `~StaleLastError` only). `InitEstablishesIInv` and
`StepPreservesIInv` (one step per action) give `[]IInv`; each theorem follows
from it. The refinement needs `IInv` as well: an answer is honest
(`AnswerIsHonest`) because `Results` and `Admission` hold, and a change of the
disk is a `Touch` because the plan is executable then.

**InventoryProofs.** For any set of threads, TTL and timeout: `TypeCorrect`,
`StalenessIsBounded`, `ForcedRefreshIsFresh`, `StaleDataAlwaysFades`. The
inductive invariant says of the cache entry that it was collected no longer
than timeout + TTL before its expiry, of every thread under way that it began
no longer than the timeout ago (time passes only then), of both how old they
may be after an invalidation, and of the answer of the last step what the
properties say.

**FileSanitizeProofs.** For files of any number of chunks: `TypeCorrect`,
`RenamedIsOverwritten`, `FallbackSuccessIsComplete`, `RemovalFollowsVerification`,
`ExecuteIsBounded` (`Spec => EveryStepCounts`: two passes of two implementations
over at most `size` chunks each), and, assuming `~StaleLastError`,
`ReleaseFollowsOverwrite`, `FailuresKeepTheirCode` and `EngineImplementsContract` (`Spec => Contract!Spec`). The inductive invariant has
the loop invariant of the native passes (`NativePasses`: the chunks before `pos`
hold no data, and `pos = size - remaining`), that only an admitted plan gets past
the checks (`Admission`), and that the fallback removes only a file whose
re-read found zeros (`Verification`): short writes make the file position useless
there, so the re-read is all that its success rests on. What code 0 means
(`CodeIsTrue`) is a second invariant, and the only one that needs the assumption.
`FailuresKeepTheirCode` is the property that `MCFileSanitizeStaleError` refutes: with
the assumption it holds, so the code 0 is the only way in which it fails.
`MCFileSanitizeStaleError` and this theorem are about files;
`ClaimsAreAlwaysEarned` is the same statement for drives.

**ExecutionProofs.** For any targets, number of sessions and seconds:
`TypeCorrect`, `ResultsAreComplete`, `RequestIsAnswered`, `ReportsTellTheTruth`,
`ReportsAreComplete`, `SessionsAnnounceTheirEnd`, `LaterSessionsPlanAfresh`,
`SessionsAreBounded` (`Spec => EveryStepCounts`) and `SessionsKeepTheirContract`
(`Spec => Contract!Spec`). The invariant says that the plans are one for each
target at most and for requested ones only (`PlansOfTheRequest`; how many plans
there can be is also what bounds a session), how far
the session's own directory is written (`Written`), that all answers, those in
artifacts of earlier sessions included, are true of the data (`HonestAnswers`,
which rests on engines that keep `SanitizeEngine`, and so on the two refinement
theorems and their assumption `~StaleLastError`;
data that was erased stays so), and that a snapshot in the slot is fresh in the
sense of the property (`Fresh`) at any time. Under the refinement mapping the
request ends with the terminal event and not with `execute`: engines, artifacts
and reviews are stutters, the event is `Complete` or `Fail`, and an earlier
session's `Invalidate` is a `Return` while the present one runs.

**MainWindowProofs.** For any files, disks, pool size and number of changes and
sessions: `TypeCorrect`, `SelectedDisksAreShown`, `AnswerIsOnItsWay`,
`ReadinessIsCurrent`, `SessionsExclude`, `RefreshIsCarried`. The invariant counts
what is on its way through the pool's queue, its threads and the event queue:
none or exactly one answer to the present token, none while the timer runs
(`Preflights`), and none or exactly one open session or terminal event, as
`_session_running` says (`Sessions`). That a single answer is under way is more
than the properties ask for, but without it an answer could be handled and leave
a second one that the next state would have to explain.

Two more theorems are about what a session is begun with: `ReadyIsWhatIsBegun`
(`Spec => ReadySessionsWereReviewed`) and `WindowKeepsItsContract`
(`Spec => Contract!Spec`). They need a second invariant `JInv` on top of `IInv`.
`Asking` is about the question box: the targets it was opened with are still
those that are selected, unless the awaited answer came meanwhile. That answer
may take drives away, and then the phase is not Ready unless the delegate had
changed the selection; the other answers are not awaited. `Numbered` tells session
workers apart by their numbers, which is what makes "the session that is not over"
in the refinement mapping a function of the state, and what makes
`SessionReturns` take one session out of `returning` and no other. The mapping
looks at session workers only, so every other handler is a stutter
(`SessionsAreOne`, `TakingAnEvent`).

**SystemProofs.** For any disks with any facts, numbers, letters and number of
sessions: `TypeCorrect`, `SystemDisksAreSafe`, `PlannedDiskIsReached`,
`ChosenDiskIsReached`, `ClaimsAreTrue`. The invariant is about sightings (a
number, the disk it was, and how often that disk had been unplugged): every
sighting that a snapshot, a pick, a request or a plan holds is right as long as
the disk is not unplugged, and right for ever if the number is a system disk's
(`Memory`). A plan that is not blocked is therefore for a number that is no
system disk's, which is why no request reaches one.
`ClaimsAreTrue` assumes `~StaleLastError`, as a refused request that returns 0
is reported as an erasure. `ReportsAreTrueWithoutUnplugging` is the property that
`MCSystemSwapped` refutes, under the assumptions `~StaleLastError` and
`MaxUnplugs = 0`: as long as no disk is unplugged and no code is lost every
report is true, whatever is plugged in and however old the snapshots are.

**Proved, and not checked by a run of its own.** Some properties are weaker than, or
close to, one that a run checks; each was checked by TLC before it was proved, and
is left to the theorem: `SanitizeNeedsEveryLock` (`MediaTouchedOnlyIfPermitted`
says it of the state), `RenamedHoldsNoData` and `PythonRemovesOnlyVerified`
(`ReleasedOnlyWhenOverwritten` covers renamed files), `ResultsFollowThePlans` (part of
`ResultsAnswerTheRequest`), and `EveryStepCounts`: neither engine and no
session does anything over, as every step uses up one of a number of steps that
its arguments fix (`StepsLeft`), retries, short writes, the second implementation
and failures in the report included.

**Only model-checked.** `Termination`, `CallsReturn`, `SessionsEnd`,
`PreflightSettles`, `SessionSettles`: liveness under fairness is beyond the
prover. Of the first and the third the safety half is proved: every step of
`Execute`, or of a session's `Work`, lowers a natural number (`EveryStepCounts`) that no
other step raises. What TLC checks beyond that is that such a step is always
possible until the end (ENABLED) and that fairness takes it. The violation runs show behaviours, and there is nothing to prove.

## 5. Assumptions and abstractions

* An accepted `IOCTL_STORAGE_REINITIALIZE_MEDIA` erases the media classes that
  the policy calls trustworthy and promises nothing on others; a refused one may
  leave anything behind.
* `StaleLastError` (in `DriveSanitize`, `FileSanitize` and `System`) says whether
  `GetLastError` may be 0 when `last_error_result` asks for it after a call that
  does not set it (a short write, `BCryptGenRandom`) or after the `CloseHandle`
  between the failing call and the question (`lower.cpp:80-81` and `154-157`).
  Windows promises neither. With `FALSE` every failure of the native library has
  a code; the passing runs and the theorems named above assume it, and
  `Execution` does so through the contract of its engines.
* Time in `Inventory` stands still while a thread is between two steps other
  than waiting for PowerShell: these steps take no time next to seconds.
* In `Execution` a session's own call of `get_snapshot` is one step (module
  `Inventory` has the details), a review is the step that stores its answer, and
  a partly written artifact has no results in it.
* In `System` the system disk stays attached (Windows runs from it), the process
  has administrator rights (without them the engine refuses every plan), one review
  is in flight at a time, the time a snapshot may be kept is not bounded, and the
  volume locks of `DriveSanitize` appear as a failure before the request. Numbers
  of unplugged disks may be given to others at once. Without an unplugging a disk
  keeps its number.
* In `MainWindow` the file dialog is one step with the change it leads to
  (`AddFiles`): the user can do nothing else meanwhile, and what timers and events
  do under it happens before that step.
* One process. A second instance, started for elevation, shares only the
  report directory.
* The progress bar, logs and texts are left out. The offline runner is refused
  by the same `requires_offline` check (`Blocked`); no code provides the path
  `README.md:141` describes.
* A process that ends in the middle of a session leaves no report, since
  everything is written after the last plan; nothing is read back at start-up,
  so there is no recovery to model.

## 6. Not modelled

* `OMEGA_BETA.py`, the report template, `errors.py`, `runtime.py`, the build
  files: no state of the program, or only layout.
* Progress and log events (`execution.py:42-46`): they change only what is
  displayed, and the window clamps the ratio.
* Restart with elevation (`app.py:714`): it starts another process and closes the
  window. What becomes of a session that runs is decided by Qt and by the
  interpreter's shutdown. Nothing is read back at start-up, so there is no
  recovery either.
* Parsing of PowerShell's output and the Win32 queries of `system.py`: their
  results are the sets of records in `Policy`.
* Serialisation (`to_dict`) and the layout of HTML and PDF.

The models could be taken further with a bounded life of the cache in `System`
(how old a planned sighting may be), and with the locks of `DriveSanitize` on the
volumes of disks that change their numbers.
