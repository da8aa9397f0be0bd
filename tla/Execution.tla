----------------------------- MODULE Execution -----------------------------
(***************************************************************************)
(* A session: OmegaOrchestrator.execute, the ExecutionService it calls,    *)
(* and the ReportWriter at the end of it, run on one worker thread (or by  *)
(* omega_offline.py), session after session.                               *)
(*                                                                         *)
(* The two sanitize engines appear through their contract, SanitizeEngine, *)
(* which DriveSanitize and FileSanitize are shown to implement: while an   *)
(* engine works on plan p it may touch the data of p.target, and then it   *)
(* returns an honest answer or raises.  The inventory service appears as   *)
(* its snapshot slot (module Inventory has the details); the file system   *)
(* under report_root as the directories and artifacts that write_session   *)
(* creates.                                                                *)
(***************************************************************************)
EXTENDS OmegaModels, Sequences, FiniteSets

CONSTANTS Targets,      \* disk numbers, or positions in the list of files
          Levels,       \* the assurance levels that results may carry
          MaxSessions,  \* bound on the sessions of one behaviour
          MaxTargets,   \* bound on the targets of each of them
          MaxSecond     \* bound on the wall clock, in seconds

ASSUME SessionAssumption ==
  /\ Targets \subseteq Nat /\ IsFiniteSet(Targets)
  /\ Levels \subseteq AssuranceLevel
  /\ {"UNSUPPORTED", "LOGICAL_DELETE"} \subseteq Levels
  /\ MaxSessions \in Nat /\ MaxSecond \in Nat
  /\ MaxTargets \in [1..MaxSessions -> Nat]

VARIABLES
  pc,        \* where the worker thread is
  session,   \* number of sessions started; the running one's number
  cache,     \* the inventory service's snapshot slot
  request,   \* the arguments of execute()
  plans,     \* preflight.plans
  data,      \* what happened to the data of each target
  results,   \* ExecutionService.execute's list, in the order of the plans
  dir,       \* the second that names the last session_dir
  reports,   \* report_root: what each artifact of each directory holds
  terminal,  \* per session, the SessionCompleted / SessionFailed events
  leaving    \* sessions whose event is out and whose invalidate() is to come

vars == <<pc, session, cache, request, plans, data, results,
          dir, reports, terminal, leaving>>

\* write_session writes them in this order and returns only after the last.
Artifacts == <<"jsonl", "csv", "html", "pdf", "bundle">>
Artifact == {Artifacts[i] : i \in DOMAIN Artifacts}

Plan == [target : Targets, executable : BOOLEAN]
Requests == [mode : OperationMode, targets : SUBSET Targets, dry : BOOLEAN]
Result == [success : BOOLEAN, assurance_achieved : Levels]
Answers == [target : Targets, result : Result]

Content(n, answers, complete) ==
  [session |-> n, results |-> answers, complete |-> complete]
Absent == Content(0, <<>>, FALSE)
Contents == [session : 0..MaxSessions, results : Seq(Answers), complete : BOOLEAN]

\* History values: how many sessions had ended when the disks were queried and
\* when the answer was stored.
Slot == [held : BOOLEAN, after : 0..MaxSessions, stored : 0..MaxSessions]
EmptySlot == [held |-> FALSE, after |-> 0, stored |-> 0]
Ended == IF pc = "idle" THEN session ELSE session - 1

\* The answer to a query, stored now.
Query(begun) == [held |-> TRUE, after |-> begun, stored |-> Ended]

\* The plan the loop of ExecutionService.execute is at.
Busy == pc = "engines" /\ Len(results) < Len(plans)
Current == plans[Len(results) + 1]
MayTouch(p) == p.executable /\ ~request.dry

\* The contract of the engine that works on the current plan.
Engine == INSTANCE SanitizeEngine
            WITH status <- "working", allowed <- MayTouch(Current),
                 dry <- request.dry, data <- data[Current.target],
                 result <- NoResult

Init ==
  /\ pc = "idle" /\ session = 0
  /\ cache = EmptySlot
  /\ request = NoRequest /\ plans = <<>> /\ results = <<>>
  /\ data = [t \in Targets |-> "intact"]
  /\ dir = 0
  /\ reports = [s \in 0..MaxSecond |-> [a \in Artifact |-> Absent]]
  /\ terminal = [n \in 1..MaxSessions |-> <<>>]
  /\ leaving = {}

-----------------------------------------------------------------------------
(* The other threads that use the inventory service.                       *)

\* A preflight worker stores a snapshot in the slot, before a session or
\* while one runs: the toolbar's refresh stays enabled.  get_snapshot queries
\* outside the lock, so that the query may have begun at any time before.
Review ==
  /\ \E begun \in 0..Ended : cache' = Query(begun)
  /\ UNCHANGED <<pc, session, request, plans, data, results,
                 dir, reports, terminal, leaving>>

-----------------------------------------------------------------------------
(* orchestrator.execute                                                    *)

\* The locals of execute() are gone once it returned or raised.
Leave ==
  /\ pc' = "idle"
  /\ request' = NoRequest /\ plans' = <<>> /\ results' = <<>>

\* A terminal event reaches the caller's callback.
Emit(event) == terminal' = [terminal EXCEPT ![session] = Append(@, event)]

\* start_execution refuses an empty selection; the offline runner has one
\* disk.  Neither limits the disks to those of the snapshot.
Execute(mode, targets, dry) ==
  /\ pc = "idle" /\ session < MaxSessions
  /\ targets # {} /\ Cardinality(targets) <= MaxTargets[session + 1]
  /\ session' = session + 1
  /\ request' = [mode |-> mode, targets |-> targets, dry |-> dry]
  /\ plans' = <<>> /\ results' = <<>>
  /\ pc' = "preflight"
  /\ UNCHANGED <<cache, data, dir, reports, terminal, leaving>>

\* get_snapshot() without force: the slot if it holds one that has not expired,
\* else a query of what is attached, which may raise InventoryError.
Snapshot == (IF cache.held THEN {cache} ELSE {}) \cup {Query(Ended), EmptySlot}

\* Mutant: the plan service gives up on an InventoryError in either mode.
MutantPlanned(inventory) ==
  IF inventory.held /\ request.mode = "FILE_SANITIZE" THEN {request.targets}
  ELSE SUBSET (IF inventory.held THEN request.targets ELSE {})

\* In file mode there is a plan per target, whatever the inventory says; in
\* drive mode a plan per target found in the snapshot, which lists any disks
\* (module System), and none after an InventoryError.
Planned(inventory) ==
  IF request.mode = "FILE_SANITIZE" THEN {request.targets}
  ELSE SUBSET (IF inventory.held THEN request.targets ELSE {})

\* build_preflight.  The targets are planned in ascending order; policy.py
\* decides which plans are executable (module Policy), a dry run's all are.
\* The errors it reports go into preflight.errors, which execute() drops.
BuildPreflight ==
  /\ pc = "preflight"
  /\ \E inventory \in Snapshot : \E targets \in Planned(inventory) :
       /\ cache' = inventory
       /\ plans' \in [1..Cardinality(targets) -> Plan]
       /\ {plans'[i].target : i \in DOMAIN plans'} = targets
  /\ \A i, j \in DOMAIN plans' : i < j => plans'[i].target < plans'[j].target
  /\ request.dry => \A i \in DOMAIN plans' : plans'[i].executable
  /\ pc' = "engines"
  /\ UNCHANGED <<session, request, data, results, dir,
                 reports, terminal, leaving>>

\* Mutant: an exception while planning goes unnoticed.
MutantPreflightRaises ==
  /\ pc = "preflight"
  /\ cache' \in Snapshot
  /\ Leave
  /\ UNCHANGED <<session, data, dir, reports, terminal, leaving>>

\* Planning itself raises, as Path.exists() does for a path it may not look
\* at; the slot may have been filled before.
PreflightRaises ==
  /\ pc = "preflight"
  /\ cache' \in Snapshot
  /\ Emit("SessionFailed")
  /\ Leave
  /\ UNCHANGED <<session, data, dir, reports, leaving>>

\* Mutant: the orchestrator returns without invalidating.
MutantInvalidate(n) ==
  /\ leaving' = leaving \ {n}
  /\ UNCHANGED <<pc, session, cache, request, plans, data, results,
                 dir, reports, terminal>>

\* inventory_service.invalidate(), after ExecutionService.execute returned: the
\* window has the event by then and may start the next session first.
Invalidate(n) ==
  /\ cache' = EmptySlot
  /\ leaving' = leaving \ {n}
  /\ UNCHANGED <<pc, session, request, plans, data, results,
                 dir, reports, terminal>>

-----------------------------------------------------------------------------
(* ExecutionService.execute: the loop over the plans.                      *)

EngineTouches ==
  /\ Busy
  /\ MayTouch(Current)
  /\ data[Current.target] # "erased"
  /\ \E d \in {"undefined", "erased"} : data' = [data EXCEPT ![Current.target] = d]
  /\ UNCHANGED <<pc, session, cache, request, plans, results,
                 dir, reports, terminal, leaving>>

\* Mutant: the result does not say which target it is about.
MutantAnswered(r) == Append(results, r)

Answered(r) == Append(results, [target |-> Current.target, result |-> r])

EngineReturns ==
  /\ Busy
  /\ \E r \in Result : Engine!Honest(r) /\ results' = Answered(r)
  /\ UNCHANGED <<pc, session, cache, request, plans, data,
                 dir, reports, terminal, leaving>>

\* Mutant: the failure result copies the plan's assurance_target.
MutantBuildFailureResult == [success |-> FALSE, assurance_achieved |-> "DEVICE_PURGE"]

BuildFailureResult == Failure

\* except Exception: the loop goes on with the next plan.
EngineRaises ==
  /\ Busy
  /\ results' = Answered(BuildFailureResult)
  /\ UNCHANGED <<pc, session, cache, request, plans, data,
                 dir, reports, terminal, leaving>>

-----------------------------------------------------------------------------
(* ReportWriter.write_session and the terminal event.                      *)

\* Mutant: completion is announced before the report is written.
MutantOpenSessionDir ==
  /\ pc = "engines" /\ Len(results) = Len(plans)
  /\ dir' \in dir..MaxSecond
  /\ pc' = Artifacts[1]
  /\ Emit("SessionCompleted")
  /\ UNCHANGED <<session, cache, request, plans, data,
                 results, reports, leaving>>

\* session_id is the time with a resolution of one second; mkdir accepts a
\* directory that is already there.
OpenSessionDir ==
  /\ pc = "engines" /\ Len(results) = Len(plans)
  /\ dir' \in dir..MaxSecond
  /\ pc' = Artifacts[1]
  /\ UNCHANGED <<session, cache, request, plans, data,
                 results, reports, terminal, leaving>>

\* Mutant: the bundle is left out when the pdf is done.
MutantAfterArtifact(i) == IF i < Len(Artifacts) - 1 THEN Artifacts[i + 1] ELSE "written"

AfterArtifact(i) == IF i < Len(Artifacts) THEN Artifacts[i + 1] ELSE "written"

WriteArtifact(i) ==
  /\ pc = Artifacts[i]
  /\ reports' = [reports EXCEPT ![dir][Artifacts[i]] =
                   Content(session, results, TRUE)]
  /\ pc' = AfterArtifact(i)
  /\ UNCHANGED <<session, cache, request, plans, data,
                 results, dir, terminal, leaving>>

\* Mutant: a failed report is started over.
MutantReportRaises ==
  /\ pc \in Artifact
  /\ reports' = [reports EXCEPT ![dir][pc] = Content(session, <<>>, FALSE)]
  /\ pc' = Artifacts[1]
  /\ UNCHANGED <<session, cache, request, plans, data,
                 results, dir, terminal, leaving>>

\* Creating the directory or writing an artifact raises: nothing in
\* write_session, ExecutionService.execute or orchestrator.execute catches
\* it, and SessionWorker.run turns it into SessionFailed.  The artifact may
\* have been opened for writing already.
ReportRaises ==
  /\ \/ /\ pc = "engines" /\ Len(results) = Len(plans)
        /\ UNCHANGED reports
     \/ /\ pc \in Artifact
        /\ \/ UNCHANGED reports
           \/ reports' = [reports EXCEPT ![dir][pc] = Content(session, <<>>, FALSE)]
  /\ Emit("SessionFailed")
  /\ Leave
  /\ UNCHANGED <<session, cache, data, dir, leaving>>

Complete ==
  /\ pc = "written"
  /\ Emit("SessionCompleted")
  /\ leaving' = leaving \cup {session}
  /\ Leave
  /\ UNCHANGED <<session, cache, data, dir, reports>>

-----------------------------------------------------------------------------
Work ==
  \/ BuildPreflight \/ PreflightRaises \/ EngineReturns \/ EngineRaises \/ OpenSessionDir
  \/ \E i \in DOMAIN Artifacts : WriteArtifact(i)
  \/ ReportRaises \/ Complete

Next ==
  \/ Work \/ EngineTouches
  \/ \E n \in leaving : Invalidate(n)
  \/ Review
  \/ \E mode \in OperationMode, targets \in SUBSET Targets, dry \in BOOLEAN :
       Execute(mode, targets, dry)

Spec == Init /\ [][Next]_vars

\* The worker threads run; an engine answers (its own Termination property).
FairSpec == Spec /\ WF_vars(Work)
                 /\ \A n \in 1..MaxSessions : WF_vars(n \in leaving /\ Invalidate(n))
-----------------------------------------------------------------------------
(* Properties.                                                             *)

TypeOK ==
  /\ pc \in {"idle", "preflight", "engines", "written"} \cup Artifact
  /\ session \in 0..MaxSessions /\ dir \in 0..MaxSecond
  /\ cache \in Slot
  /\ request \in Requests
  /\ plans \in Seq(Plan) /\ results \in Seq(Answers)
  /\ data \in [Targets -> DataState]
  /\ reports \in [0..MaxSecond -> [Artifact -> Contents]]
  /\ terminal \in [1..MaxSessions -> Seq({"SessionCompleted", "SessionFailed"})]
  /\ leaving \subseteq 1..MaxSessions

\* The i-th result is the i-th plan's, at every moment; and when the report
\* is begun no plan is left without one, even if engines raised exceptions
\* (execution.py's try block is inside the loop).
ResultsFollowThePlans ==
  /\ Len(results) <= Len(plans)
  /\ \A i \in DOMAIN results : results[i].target = plans[i].target
  /\ pc \notin {"preflight", "engines", "idle"} => Len(results) = Len(plans)

\* The results follow the plans, and a session that completes has at most one for
\* a target, and none for a target it was not begun with.  In file mode it has
\* one for each, whatever became of the inventory and whichever engines raised.
\* In drive mode nothing more can be said of the code: a disk that the session's
\* own preflight did not find has no result (orchestrator.py:106-117), and after
\* an InventoryError the session completes without any, which the documents say
\* it does not (InventoryFailuresSurface).
ResultsAnswerTheRequest ==
  /\ ResultsFollowThePlans
  /\ pc = "written" =>
       LET answered == {results[i].target : i \in DOMAIN results} IN
         /\ \A i, j \in DOMAIN results : results[i].target = results[j].target => i = j
         /\ answered \subseteq request.targets
         /\ request.mode = "FILE_SANITIZE" => answered = request.targets

\* No artifact on disk, of this session or an earlier one, complete or left
\* behind by a failed report, claims the erasure of a target on which
\* original data may be left: neither the engines' answers nor
\* _build_failure_result may claim more than was done.
ReportsAreHonest ==
  \A s \in 0..MaxSecond, a \in Artifact :
    \A i \in DOMAIN reports[s][a].results :
      LET answer == reports[s][a].results[i] IN
        answer.result.assurance_achieved \in ErasureClaims
          => data[answer.target] = "erased"

\* When a session is about to announce SessionCompleted, every artifact of its
\* directory is complete, is its own and holds one result per plan, whatever
\* failed or second-sharing session wrote there before.
CompletedSessionsAreReported ==
  pc = "written" =>
    \A a \in Artifact : reports[dir][a] = Content(session, results, TRUE)

\* A session that is over has announced it exactly once, one that runs has
\* not yet: SessionCompleted from ExecutionService and SessionFailed from the
\* worker exclude each other, although either may come last.
OneTerminalEvent ==
  \A n \in 1..session :
    Len(terminal[n]) = IF n = session /\ pc # "idle" THEN 0 ELSE 1

\* A session that completed may have changed the disks.  The plans of a later
\* one rest on a snapshot from before that only in two windows: while the
\* completed session's invalidate() is still to come, and when a review that had
\* begun before stored its answer after the end.  Whatever was in the slot when
\* the session ended is gone.
FreshInventoryAfterCompletion ==
  [][pc = "preflight" /\ pc' = "engines" /\ cache'.held =>
       \A n \in 1..session - 1 :
         terminal[n] = <<"SessionCompleted">> /\ n \notin leaving
           => cache'.after >= n \/ cache'.stored >= n]_vars

\* The session seen through its contract: it runs until its event is out, and
\* Invalidate is all that is left of execute() then.
Contract == INSTANCE SessionContract WITH
  number    <- session,
  request   <- IF session = 0 \/ Len(terminal[session]) > 0 THEN NoRequest ELSE request,
  returning <- leaving

\* Session after session, the code that works does what the window relies on:
\* it holds on to the arguments it was begun with until its one event is out,
\* whatever raises, and of the completed ones each returns once.
ImplementsContract == Contract!Spec

\* A bound on the steps that the session's thread has still to take.
StepsLeft ==
  CASE pc = "idle"      -> 0
    [] pc = "preflight" -> Len(Artifacts) + 3 + Cardinality(request.targets)
    [] pc = "engines"   -> Len(Artifacts) + 2 + Len(plans) - Len(results)
    [] pc = "written"   -> 1
    [] OTHER            -> Len(Artifacts) + 2 - CHOOSE i \in DOMAIN Artifacts : Artifacts[i] = pc

\* Whatever raises, in an engine or in the report, the session's thread uses up
\* one of those steps: nothing is done over.  Engines that write, reviews and an
\* earlier session's invalidate() do not give it more to do.
EveryStepCounts ==
  [][pc # "idle" => IF Work THEN StepsLeft' \in 0..StepsLeft - 1
                            ELSE StepsLeft' = StepsLeft]_vars

\* Every session started comes to its end, whatever raises on the way, and a
\* completed one has the inventory invalidated.
SessionsEnd ==
  \A n \in 1..MaxSessions : session = n ~> Len(terminal[n]) = 1 /\ n \notin leaving

-----------------------------------------------------------------------------
(* What the documents say and the code does not do.                        *)

\* docs/API_CONTRACT.md:18: "For `drive_sanitize`, hard inventory failures are
\* surfaced unless a safe fallback snapshot is available", and
\* tests/test_planning_service.py:52-57 wants build_preflight to raise.  A drive
\* session goes on to its engines only with a snapshot; planning.py:35-39 drops
\* the error in either mode, and the session completes without plans.
InventoryFailuresSurface ==
  [][pc = "preflight" /\ pc' = "engines" /\ request.mode = "DRIVE_SANITIZE"
       => cache'.held]_vars

\* ARCHITECTURE.md: ExecutionService "always builds the report bundle".  A
\* session whose plans all have results would leave a bundle; it is written
\* last, and any artifact that raises before it prevents it.
BundleIsAlwaysBuilt ==
  [][terminal' # terminal /\ plans # <<>> /\ Len(results) = Len(plans)
       => reports[dir]["bundle"] = Content(session, results, TRUE)]_vars
=============================================================================
