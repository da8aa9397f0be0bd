----------------------------- MODULE MainWindow -----------------------------
(***************************************************************************)
(* omega_protocol/ui: OmegaMainWindow, its list models and its workers.    *)
(* The UI thread runs one handler at a time: a click, the debounce timer,  *)
(* or an event that a worker posted.  PreflightWorker and SessionWorker    *)
(* run on a QThreadPool that starts them in order, MaxThreads at a time.   *)
(* A modal dialog keeps the user from clicking elsewhere, but its nested   *)
(* event loop goes on handling the timer and the posted events.            *)
(*                                                                         *)
(* A worker's view of the drives is any snapshot (modules Inventory and    *)
(* System have what get_snapshot may return), the session is the terminal  *)
(* event it posts (module Execution has its steps).  Log and progress      *)
(* events, which change only what is displayed, are left out.              *)
(***************************************************************************)
EXTENDS OmegaModels, Sequences, FiniteSets, SequencesExt

CONSTANTS Files, Disks,
          MaxThreads,   \* QThreadPool.maxThreadCount()
          MaxToken,     \* bound on the user's changes and refreshes
          MaxSessions   \* bound on the sessions started

ASSUME WindowAssumption ==
  MaxThreads \in Nat \ {0} /\ MaxToken \in Nat \ {0} /\ MaxSessions \in Nat

VARIABLES
  phase,     \* state.phase
  mode,      \* state.mode
  files,     \* file_model.paths()
  drives,    \* drive_model._drives: the disks that accept device commands
  selected,  \* drive_model._selected
  dry,       \* dry_run_checkbox.isChecked()
  token,     \* _request_token
  pending,   \* _pending_force_refresh
  timer,     \* preflight_timer.isActive()
  running,   \* _session_running
  dialog,    \* the modal dialog that is open, if any
  shown,     \* the request whose preflight was rendered last
  waiting,   \* the thread pool's queue
  active,    \* the workers that have a thread
  events,    \* posted to the UI thread, not yet handled
  aside,     \* history: the delegate changed the selection after the last dispatch
  sessions   \* number of sessions started

view == <<mode, files, drives, selected, dry>>
pool == <<waiting, active>>
vars == <<phase, view, token, pending, timer, running, dialog, shown, pool,
          events, aside, sessions>>

\* What a preflight or a session is about.
Request == [mode : OperationMode, targets : SUBSET (Files \cup Disks), dry : BOOLEAN]
Targets == IF mode = "FILE_SANITIZE" THEN files ELSE selected
CurrentRequest == [mode |-> mode, targets |-> Targets, dry |-> dry]

\* The disks a snapshot lists; none is held when the inventory failed.
NoSnapshot == [held |-> FALSE, disks |-> {}]
Snapshots == {NoSnapshot} \cup [held : {TRUE}, disks : SUBSET Disks]

Preflight(n, request, force) ==
  [kind |-> "preflight", token |-> n, request |-> request, force |-> force, done |-> FALSE]
Session(n, request) ==
  [kind |-> "session", token |-> n, request |-> request, force |-> FALSE, done |-> FALSE]

\* build_preflight's errors: a missing drive or no inventory, in drive mode.
Errors(request, inventory) ==
  /\ request.mode = "DRIVE_SANITIZE"
  /\ ~inventory.held \/ ~(request.targets \subseteq inventory.disks)

\* What a PreflightResult for the request may hold: the inventory and whether
\* its list of errors is empty, or what is made of an exception.
PreflightResults(request) ==
  {[inventory |-> s, errors |-> Errors(request, s)] : s \in Snapshots}
    \cup {[inventory |-> NoSnapshot, errors |-> TRUE]}

\* The events.  What a result holds is chosen when it is read.
PreflightReady(worker) ==
  [kind |-> "preflight", token |-> worker.token, request |-> worker.request]
Terminal(kind) == [kind |-> kind]

-----------------------------------------------------------------------------
(* schedule_preflight and _dispatch_preflight.                             *)

\* The worker's arguments are those of the moment of dispatch.
DispatchPreflight(n, force) ==
  /\ waiting' = Append(waiting, Preflight(n, CurrentRequest, force))
  /\ pending' = FALSE
  /\ aside' = FALSE
  /\ UNCHANGED active

\* Mutant: the timer is not restarted while a worker is in the pool.
MutantStartTimer == timer' = (timer \/ (waiting = <<>> /\ active = {}))

StartTimer == timer' = TRUE

\* Mutant: the last change decides whether the refresh is forced.
MutantPending(force) == pending' = force

Pending(force) == pending' = (force \/ pending)

SchedulePreflight(force) ==
  /\ token' = token + 1
  /\ Pending(force)
  /\ phase' = "PREFLIGHT"
  /\ StartTimer
  /\ UNCHANGED <<pool, aside>>

SchedulePreflightNow ==
  /\ token' = token + 1
  /\ phase' = "PREFLIGHT"
  /\ timer' = FALSE
  /\ DispatchPreflight(token + 1, TRUE)

\* Mutant: the worker gets the token that the next change will take.
MutantDebounceExpires ==
  /\ timer
  /\ timer' = FALSE
  /\ DispatchPreflight(token + 1, pending)
  /\ UNCHANGED <<phase, view, token, running, dialog, shown, events, sessions>>

DebounceExpires ==
  /\ timer
  /\ timer' = FALSE
  /\ DispatchPreflight(token, pending)
  /\ UNCHANGED <<phase, view, token, running, dialog, shown, events, sessions>>

\* The window as __init__ leaves it: a forced refresh is already dispatched.
Init ==
  /\ phase = "PREFLIGHT" /\ mode = "FILE_SANITIZE"
  /\ files = {} /\ drives = {} /\ selected = {} /\ dry = FALSE
  /\ token = 1 /\ pending = FALSE /\ timer = FALSE
  /\ running = FALSE /\ dialog = [kind |-> "none", targets |-> {}]
  /\ shown = CurrentRequest
  /\ waiting = <<Preflight(1, CurrentRequest, TRUE)>>
  /\ active = {} /\ events = <<>>
  /\ aside = FALSE /\ sessions = 0

-----------------------------------------------------------------------------
(* The user.  _set_controls_enabled disables most controls while a session *)
(* runs; the drive list and the toolbar stay enabled, and the toolbar's    *)
(* file actions check _session_running.                                    *)

NoDialog == dialog.kind = "none"
UserMay == NoDialog /\ token < MaxToken + sessions
Unchanged == UNCHANGED <<running, dialog, shown, events, sessions>>

SetMode ==
  /\ UserMay /\ ~running
  /\ mode' \in OperationMode
  /\ SchedulePreflight(FALSE)
  /\ UNCHANGED <<files, drives, selected, dry>> /\ Unchanged

ToggleDryRun ==
  /\ UserMay /\ ~running
  /\ dry' = ~dry
  /\ SchedulePreflight(FALSE)
  /\ UNCHANGED <<mode, files, drives, selected>> /\ Unchanged

\* The list of files takes new paths only, and says whether it changed.
AddPaths(paths) == ~(paths \subseteq files) /\ files' = files \cup paths
RemoveRows(paths) == files \cap paths # {} /\ files' = files \ paths

AddFiles ==
  /\ UserMay /\ ~running
  /\ \E paths \in SUBSET Files : AddPaths(paths)
  /\ SchedulePreflight(FALSE)
  /\ UNCHANGED <<mode, drives, selected, dry>> /\ Unchanged

RemoveSelectedFiles ==
  /\ UserMay /\ ~running
  /\ \E paths \in SUBSET Files : RemoveRows(paths)
  /\ SchedulePreflight(FALSE)
  /\ UNCHANGED <<mode, drives, selected, dry>> /\ Unchanged

ClearSelection ==
  /\ UserMay /\ ~running
  /\ files' = {} /\ selected' = {}
  /\ SchedulePreflight(FALSE)
  /\ UNCHANGED <<mode, drives, dry>> /\ Unchanged

ToggleClickedDrive ==
  /\ UserMay
  /\ \E d \in drives : selected' = IF d \in selected THEN selected \ {d}
                                                     ELSE selected \cup {d}
  /\ SchedulePreflight(FALSE)
  /\ UNCHANGED <<mode, files, drives, dry>> /\ Unchanged

\* The view's delegate, on the space bar or a click into the check box, calls
\* setData itself: no preflight is scheduled.
DelegateSetsData ==
  /\ NoDialog
  /\ \E d \in drives : selected' \in {selected \cup {d}, selected \ {d}}
  /\ aside' = TRUE
  /\ UNCHANGED <<phase, mode, files, drives, dry, token, pending, timer, pool>> /\ Unchanged

RefreshDrives ==
  /\ UserMay
  /\ SchedulePreflightNow
  /\ UNCHANGED view /\ Unchanged

\* The part of start_execution after the question was answered with Yes, or
\* was not asked.  The targets were read before the question, the mode and
\* the dry-run box are read after it.
Begin(targets) ==
  /\ running' = TRUE
  /\ phase' = "RUNNING"
  /\ sessions' = sessions + 1
  /\ waiting' = Append(waiting, Session(sessions + 1, [CurrentRequest EXCEPT !.targets = targets]))
  /\ UNCHANGED <<view, token, pending, timer, shown, active, events, aside>>

\* Mutant: an empty selection is not refused.
MutantMayStart == ~running

MayStart == ~running /\ Targets # {}

StartExecution ==
  /\ NoDialog /\ MayStart /\ sessions < MaxSessions
  /\ IF dry THEN Begin(Targets) /\ UNCHANGED dialog
     ELSE /\ dialog' = [kind |-> "question", targets |-> Targets]
          /\ UNCHANGED <<phase, view, token, pending, timer, running, shown,
                         pool, events, aside, sessions>>

Answer ==
  /\ dialog.kind # "none"
  /\ dialog' = [kind |-> "none", targets |-> {}]
  /\ \/ dialog.kind = "question" /\ Begin(dialog.targets)
     \/ UNCHANGED <<phase, view, token, pending, timer, running, shown, pool,
                    events, aside, sessions>>

-----------------------------------------------------------------------------
(* The workers.                                                            *)

UiUnchanged == UNCHANGED <<phase, view, token, pending, timer, running, dialog,
                           shown, aside, sessions>>

StartWorker ==
  /\ waiting # <<>> /\ Cardinality(active) < MaxThreads
  /\ active' = active \cup {Head(waiting)}
  /\ waiting' = Tail(waiting)
  /\ UNCHANGED events /\ UiUnchanged

\* PreflightWorker.run posts the result, or one made of the exception.
PreflightEmits(w) ==
  /\ w.kind = "preflight"
  /\ events' = Append(events, PreflightReady(w))
  /\ active' = active \ {w}
  /\ UNCHANGED waiting /\ UiUnchanged

\* ExecutionService posts SessionCompleted before orchestrator.execute goes
\* on to invalidate the inventory: the worker outlives its event.
SessionCompletes(w) ==
  /\ w.kind = "session" /\ ~w.done
  /\ events' = Append(events, Terminal("completed"))
  /\ active' = (active \ {w}) \cup {[w EXCEPT !.done = TRUE]}
  /\ UNCHANGED waiting /\ UiUnchanged

SessionReturns(w) ==
  /\ w.done
  /\ active' = active \ {w}
  /\ UNCHANGED <<waiting, events>> /\ UiUnchanged

SessionFails(w) ==
  /\ w.kind = "session" /\ ~w.done
  /\ events' = Append(events, Terminal("failed"))
  /\ active' = active \ {w}
  /\ UNCHANGED waiting /\ UiUnchanged

-----------------------------------------------------------------------------
(* The handlers of the events.                                             *)

Event == Head(events)
Handles(kind) == events # <<>> /\ Event.kind = kind /\ events' = Tail(events)

\* Mutant: an answer to any request is taken.
MutantAwaited(ready) == TRUE

Awaited(ready) == ready.token = token

\* Mutant: set_drives keeps the whole selection.
MutantSetDrives(disks) == drives' = disks /\ UNCHANGED selected

SetDrives(disks) == drives' = disks /\ selected' = selected \cap disks

HandlePreflight ==
  /\ Handles("preflight")
  /\ IF Awaited(Event)
       THEN \E result \in PreflightResults(Event.request) :
              /\ IF result.inventory.held THEN SetDrives(result.inventory.disks)
                                          ELSE UNCHANGED <<drives, selected>>
              /\ shown' = Event.request
              /\ phase' = IF result.errors THEN "ERROR"
                          ELSE IF running THEN "RUNNING" ELSE "IDLE"
       ELSE UNCHANGED <<drives, selected, shown, phase>>
  /\ UNCHANGED <<mode, files, dry, token, pending, timer, running, dialog, pool,
                 aside, sessions>>

\* The phase becomes COMPLETE and, in the same handler, PREFLIGHT.
HandleCompleted ==
  /\ Handles("completed")
  /\ running' = FALSE
  /\ SchedulePreflight(TRUE)
  /\ UNCHANGED <<view, dialog, shown, sessions>>

\* Mutant: the window goes on believing that the session runs.
MutantHandleFailed ==
  /\ Handles("failed")
  /\ phase' = "ERROR"
  /\ dialog' = [kind |-> "message", targets |-> {}]
  /\ UNCHANGED <<view, token, pending, timer, running, shown, pool, aside,
                 sessions>>

HandleFailed ==
  /\ Handles("failed")
  /\ running' = FALSE
  /\ phase' = "ERROR"
  /\ dialog' = [kind |-> "message", targets |-> {}]
  /\ UNCHANGED <<view, token, pending, timer, shown, pool, aside, sessions>>

-----------------------------------------------------------------------------
User ==
  \/ SetMode \/ ToggleDryRun \/ AddFiles \/ RemoveSelectedFiles \/ ClearSelection
  \/ ToggleClickedDrive \/ DelegateSetsData \/ RefreshDrives \/ StartExecution \/ Answer

Threads ==
  \/ StartWorker
  \/ \E w \in active :
       \/ PreflightEmits(w) \/ SessionCompletes(w) \/ SessionReturns(w) \/ SessionFails(w)

Handlers == DebounceExpires \/ HandlePreflight \/ HandleCompleted \/ HandleFailed

Next == User \/ Threads \/ Handlers

Spec == Init /\ [][Next]_vars

\* Qt delivers timers and posted events, also under a modal dialog, and the
\* pool's threads run: every query has a timeout and every session ends.
FairSpec == Spec /\ WF_vars(Handlers) /\ WF_vars(Threads)

-----------------------------------------------------------------------------
(* Properties.                                                             *)

Workers == active \cup Range(waiting)

WorkersOfAnyKind ==
  [kind : {"preflight", "session"}, token : Nat, request : Request,
   force : BOOLEAN, done : BOOLEAN]

TypeOK ==
  /\ phase \in AppPhase /\ mode \in OperationMode /\ dry \in BOOLEAN
  /\ files \subseteq Files /\ drives \subseteq Disks /\ selected \subseteq Disks
  /\ token \in Nat \ {0}
  /\ {pending, timer, running, aside} \subseteq BOOLEAN
  /\ dialog \in [kind : {"none", "question", "message"}, targets : SUBSET (Files \cup Disks)]
  /\ shown \in Request
  /\ Workers \subseteq WorkersOfAnyKind
  /\ \A w \in Workers : w.kind = "preflight" => w.token <= token
  /\ Cardinality(active) <= MaxThreads
  /\ sessions \in 0..MaxSessions

\* While the window says PREFLIGHT, the answer it waits for is on its way:
\* the debounce timer runs, or a worker has the current token, or such an
\* answer is posted.  Otherwise the window would wait for ever.
PreflightIsUnderWay ==
  phase = "PREFLIGHT" =>
    \/ timer
    \/ \E w \in Workers \cup Range(events) : w.kind = "preflight" /\ w.token = token

\* "Preflight is ready" is never shown over a preflight of another selection,
\* mode or dry-run setting than the present one, in whatever order the
\* answers of overlapping workers arrive and the selection is pruned; only what
\* the delegate changed after the worker had its targets goes unnoticed.
ReadyMeansCurrent ==
  phase = "IDLE" =>
    /\ shown.mode = mode /\ shown.dry = dry
    /\ shown.targets = Targets \/ (aside /\ mode = "DRIVE_SANITIZE")

\* The refresh that the end of a session asks for survives the changes that
\* come before it is dispatched: until a worker that forces it is in the
\* pool's queue, the timer runs on and the wish is kept.
RefreshIsNotForgotten ==
  [][pending => \/ pending' /\ timer'
                \/ \E w \in Range(waiting') : w.force /\ w.token = token']_vars

\* _session_running stands for exactly one session worker that has not yet
\* posted its terminal event, or for that event; never two sessions.
Undecided == {w \in Workers : w.kind = "session" /\ ~w.done}
Posted == {i \in DOMAIN events : events[i].kind \in {"completed", "failed"}}
OneSession ==
  \/ ~running /\ Undecided = {} /\ Posted = {}
  \/ running /\ Posted = {} /\ \E w \in Workers : Undecided = {w}
  \/ running /\ Undecided = {} /\ \E i \in DOMAIN events : Posted = {i}

\* The session workers seen through their contract.
Contract == INSTANCE SessionContract WITH
  Targets   <- Files \cup Disks,
  number    <- sessions,
  request   <- IF Undecided = {} THEN NoRequest ELSE (CHOOSE w \in Undecided : TRUE).request,
  returning <- {w.token : w \in {v \in active : v.done}}

\* Whatever is clicked and answered in whichever nested event loop, the window
\* begins sessions as their contract wants it: one at a time, never with an empty
\* list of targets, never with arguments that change afterwards.
ImplementsContract == Contract!Spec

\* A session that is begun while the window says that the preflight is ready
\* does exactly what that preflight showed, although the question that comes
\* first reads the targets before it is answered and the mode after, and its
\* nested loop goes on replacing drives and selection (app.py:479-514).  Only
\* what the delegate changed is not in the preflight.
ReadySessionsWereReviewed ==
  [][~running /\ running' /\ phase = "IDLE" /\ ~(aside /\ mode = "DRIVE_SANITIZE")
       => Last(waiting').request = shown]_vars

\* No disk is a target that the drive list does not show: one that is gone
\* from the latest snapshot leaves the selection with it.
SelectionIsVisible == selected \subseteq drives

\* The window always leaves PREFLIGHT, unless the user starts over again and
\* again; with one thread it may have to wait for the session to end.
PreflightSettles == phase = "PREFLIGHT" ~> phase # "PREFLIGHT"

\* The controls that a session disables come back.
SessionSettles == running ~> ~running

-----------------------------------------------------------------------------
(* What the documents say and the code does not do.                        *)

\* user_guide.html: the preflight "shows what the tool plans to do before
\* anything destructive happens".  Run Session does not wait for it: within
\* the debounce interval, or while a worker is busy, the preflight on the
\* screen is of an earlier selection.
ShownBeforeExecuted ==
  [][~running /\ running' /\ ~Last(waiting').request.dry
       => shown = Last(waiting').request]_vars
=============================================================================
