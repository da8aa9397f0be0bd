------------------------------- MODULE System -------------------------------
(***************************************************************************)
(* Drive sessions seen from the disks.  Disks come and go while the        *)
(* program passes a bare disk number along: a collection reads which disk  *)
(* has which number, the snapshot goes into the inventory's cache and into *)
(* the window's list, the user checks a row, the selection is kept by      *)
(* number from snapshot to snapshot, a session turns the numbers into      *)
(* plans with the help of another snapshot, and the engine opens           *)
(* \\.\PhysicalDriveN only when the request is sent, plan after plan, each *)
(* of them up to two hours later.                                          *)
(*                                                                         *)
(* The modules of the parts have the details left out here: Inventory the  *)
(* threads and the expiry, MainWindow the tokens and the timer, Execution  *)
(* exceptions and reports, DriveSanitize the volume locks.  The process    *)
(* has administrator rights; without them the engine refuses every plan.   *)
(***************************************************************************)
EXTENDS Policy, FiniteSets

CONSTANTS Devices,      \* the disks there are
          Facts,        \* what Get-Disk reports of each of them
          Numbers,      \* the numbers Windows gives to attached disks
          None,         \* no disk
          StaleLastError, \* GetLastError may be 0 after CloseHandle
          MaxUnplugs,   \* bound on how often each disk is unplugged
          MaxSessions   \* bound on the sessions

ASSUME FactsAssumption == Facts \in [Devices -> PhysicalDisk]
ASSUME NumbersAssumption == Numbers \subseteq Nat
ASSUME NoneAssumption == None \notin Devices
ASSUME StaleAssumption == StaleLastError \in BOOLEAN
ASSUME BoundsAssumption == MaxUnplugs \in Nat /\ MaxSessions \in Nat

VARIABLES
  attached,  \* attached[n]: the disk that has number n now
  unplugged, \* history: how often each disk was unplugged
  data,      \* what happened to the data of each disk
  cache,     \* the inventory service's snapshot slot
  review,    \* what a preflight worker collected and has not handed over yet
  drives,    \* drive_model._drives
  selected,  \* drive_model._selected
  picks,     \* history: picks[n] is what the user saw when checking number n
  pc,        \* where the session's thread is
  dry,       \* the session is a dry run
  request,   \* the session's targets: the numbers and what they were picked as
  plans,     \* the plans that have no result yet
  hits,      \* the disks that the requests for the current plan reached
  results,   \* the results of the session that runs or ran last
  sessions   \* number of sessions started

disks == <<attached, unplugged>>
window == <<drives, selected, picks>>
session == <<pc, dry, request, plans, hits, results, sessions>>
vars == <<disks, data, cache, review, window, session>>

Slots == Devices \cup {None}

\* A snapshot is what was attached when it was collected; unplugged dates it.
Snapshots == [held : BOOLEAN, from_cache : BOOLEAN, disk : [Numbers -> Slots],
              unplugged : [Devices -> 0..MaxUnplugs]]
NoSnapshot == [held |-> FALSE, from_cache |-> FALSE, disk |-> [n \in Numbers |-> None],
               unplugged |-> [d \in Devices |-> 0]]
Collected == [held |-> TRUE, from_cache |-> FALSE, disk |-> attached, unplugged |-> unplugged]

\* The limited inventory: volumes only, none of which accepts device commands.
Volumes == [Collected EXCEPT !.disk = [n \in Numbers |-> None]]

ListedNumbers(s) == {n \in Numbers : s.disk[n] # None}

\* A disk as it was known by its number at some time.
Sightings == [number : Numbers, device : Devices, stint : 0..MaxUnplugs]
Sighting(s, n) == [number |-> n, device |-> s.disk[n], stint |-> s.unplugged[s.disk[n]]]

\* The disk of a sighting has kept its number since.
Settled(sight) == unplugged[sight.device] = sight.stint

Plans == [sight : Sightings, pick : Sightings]
Answers == [plan : Plans, hits : SUBSET Devices, result : ExecutionResult]

\* create_drive_plan for the disk the snapshot has under the number.
PlanOf(p) == CreateDrivePlan(Facts[p.sight.device], dry)

\* The online system disk stays attached: Windows runs from it.
SystemDisks == {d \in Devices : SystemDisk(Facts[d])}

TypeOK ==
  /\ attached \in [Numbers -> Slots]
  /\ unplugged \in [Devices -> 0..MaxUnplugs]
  /\ data \in [Devices -> DataState]
  /\ cache \in Snapshots /\ review \in Snapshots /\ drives \in Snapshots
  /\ selected \subseteq Numbers
  /\ picks \subseteq Sightings
  /\ pc \in {"idle", "preflight", "plans", "native", "winapi"}
  /\ dry \in BOOLEAN
  /\ request \subseteq Sightings
  /\ plans \subseteq Plans
  /\ hits \subseteq Devices
  /\ results \subseteq Answers
  /\ sessions \in 0..MaxSessions

\* Any assignment of numbers that has the system disks.
Init ==
  /\ attached \in [Numbers -> Slots]
  /\ \A m, n \in Numbers : attached[m] = attached[n] => m = n \/ attached[n] = None
  /\ \A d \in SystemDisks : \E n \in Numbers : attached[n] = d
  /\ unplugged = [d \in Devices |-> 0]
  /\ data = [d \in Devices |-> "intact"]
  /\ cache = NoSnapshot /\ review = NoSnapshot /\ drives = NoSnapshot
  /\ selected = {} /\ picks = {}
  /\ pc = "idle" /\ dry = FALSE /\ request = {} /\ plans = {} /\ hits = {} /\ results = {}
  /\ sessions = 0

-----------------------------------------------------------------------------
(* Hot plugging: at any moment, to any free number.                        *)

Unplug(n) ==
  LET d == attached[n] IN
  /\ d \in Devices \ SystemDisks
  /\ unplugged[d] < MaxUnplugs
  /\ attached' = [attached EXCEPT ![n] = None]
  /\ unplugged' = [unplugged EXCEPT ![d] = @ + 1]
  /\ UNCHANGED <<data, cache, review, window, session>>

Plug(d, n) ==
  /\ \A m \in Numbers : attached[m] # d
  /\ attached[n] = None
  /\ attached' = [attached EXCEPT ![n] = d]
  /\ UNCHANGED <<unplugged, data, cache, review, window, session>>

-----------------------------------------------------------------------------
(* The inventory and the window.                                           *)

\* A preflight worker's get_snapshot has begun: the slot, or a collection that
\* ends with the disks or, after an error, with the volumes.
ReviewCollects ==
  /\ ~review.held
  /\ \/ review' \in {Collected, Volumes}
     \/ cache.held /\ review' = [cache EXCEPT !.from_cache = TRUE]
  /\ UNCHANGED <<disks, data, cache, window, session>>

\* set_drives: the rows are replaced, what is checked stays checked by number.
SetDrives(s) ==
  /\ drives' = [s EXCEPT !.from_cache = FALSE]
  /\ selected' = selected \cap ListedNumbers(s)
  /\ picks' = {p \in picks : p.number \in selected'}

\* _store_snapshot, unless the slot answered, and _handle_preflight_event,
\* unless the token is no longer the current one.
ReviewReturns ==
  /\ review.held
  /\ cache' = IF review.from_cache THEN cache ELSE review
  /\ SetDrives(review) \/ UNCHANGED window
  /\ review' = NoSnapshot
  /\ UNCHANGED <<disks, data, session>>

CacheExpires ==
  /\ cache.held
  /\ cache' = NoSnapshot
  /\ UNCHANGED <<disks, data, review, window, session>>

\* _toggle_clicked_drive, also while a session runs.
ToggleDrive(n) ==
  /\ n \in ListedNumbers(drives)
  /\ picks' = {p \in picks : p.number # n} \cup
                (IF n \in selected THEN {} ELSE {Sighting(drives, n)})
  /\ selected' = IF n \in selected THEN selected \ {n} ELSE selected \cup {n}
  /\ UNCHANGED <<disks, data, cache, review, drives, session>>

StartExecution(dry_run) ==
  /\ pc = "idle" /\ sessions < MaxSessions
  /\ selected # {}
  /\ pc' = "preflight" /\ dry' = dry_run
  /\ request' = picks
  /\ results' = {} /\ sessions' = sessions + 1
  /\ UNCHANGED <<disks, data, cache, review, window, plans, hits>>

-----------------------------------------------------------------------------
(* The session.                                                            *)

\* Mutant: the plan is for the next number in the list.
MutantPlanFor(s, p) ==
  [sight |-> Sighting(s, CHOOSE n \in ListedNumbers(s) :
                           n > p.number \/ \A m \in ListedNumbers(s) : m <= p.number),
   pick |-> p]

PlanFor(s, p) == [sight |-> Sighting(s, p.number), pick |-> p]

\* The session's own preflight does not force a refresh: the slot, or a
\* collection.  A number that is not listed has no plan.
BuildPreflight ==
  /\ pc = "preflight"
  /\ \E s \in IF cache.held THEN {cache} ELSE {Collected, Volumes} :
       /\ cache' = s
       /\ plans' = {PlanFor(s, p) : p \in {q \in request : q.number \in ListedNumbers(s)}}
  /\ pc' = "plans"
  /\ UNCHANGED <<disks, data, review, window, dry, request, hits, results, sessions>>

\* The plans are executed in the order of their numbers.
Current(p) == p \in plans /\ \A q \in plans : p.sight.number <= q.sight.number

\* The current plan has its result.
Answer(p, reached, r) ==
  /\ results' = results \cup {[plan |-> p, hits |-> reached, result |-> r]}
  /\ plans' = plans \ {p}
  /\ hits' = {}
  /\ pc' = "plans"
  /\ UNCHANGED <<disks, cache, review, window, dry, request, sessions>>

\* Mutant: the result carries the sanitize method in the place of the assurance.
MutantClaimed(p) == [success |-> TRUE, assurance_achieved |-> "REINITIALIZE_MEDIA"]

Claimed(p) == [success |-> TRUE, assurance_achieved |-> PlanOf(p).assurance_target]

\* Mutant: a disk of the inventory is trusted to be none of the protected ones.
MutantBlocked(p) == Removable(Facts[p.sight.device])

Blocked(p) == ~PlanOf(p).executable \/ PlanOf(p).requires_offline

\* The dry run, the refusals, and a volume that cannot be locked.
AnswerWithoutRequest(p) ==
  /\ pc = "plans" /\ Current(p)
  /\ Answer(p, {}, IF dry THEN DryRunResult ELSE Failure)
  /\ UNCHANGED data

BeginRequest(p) ==
  /\ pc = "plans" /\ Current(p)
  /\ ~dry /\ ~Blocked(p)
  /\ pc' = "native"
  /\ UNCHANGED <<disks, data, cache, review, window, dry, request, plans, hits, results,
                 sessions>>

\* Mutant: the handle is opened for the number after the plan's.
MutantReached(p) == IF p.sight.number + 1 \in Numbers THEN attached[p.sight.number + 1] ELSE None

\* open_disk_handle: whatever disk has the number by now, if any.
Reached(p) == attached[p.sight.number]

Accepted(d) == IF data[d] = "erased" \/ TrustworthyPath(Facts[d]) THEN {"erased"}
                                                             ELSE {"undefined", "erased"}
Refused(d) == IF data[d] = "erased" THEN {"erased"} ELSE {data[d], "undefined", "erased"}

\* IOCTL_STORAGE_REINITIALIZE_MEDIA, sent by the library or directly.
RequestAccepted(p) ==
  /\ pc \in {"native", "winapi"} /\ Current(p)
  /\ Reached(p) # None
  /\ \E v \in Accepted(Reached(p)) : data' = [data EXCEPT ![Reached(p)] = v]
  /\ Answer(p, hits \cup {Reached(p)}, Claimed(p))

\* The library returned an error code, or there is none: the direct call opens
\* the disk anew.
TryDirectly(reached) ==
  /\ hits' = reached
  /\ pc' = "winapi"
  /\ UNCHANGED <<disks, cache, review, window, dry, request, plans, results, sessions>>

\* The code the library returns for a refused request; 0 is taken for success.
RefusalCodes == IF StaleLastError THEN {0, 1} ELSE {1}

NativeFails(p) ==
  /\ pc = "native" /\ Current(p)
  /\ Reached(p) # None
  /\ \E v \in Refused(Reached(p)) : data' = [data EXCEPT ![Reached(p)] = v]
  /\ LET reached == hits \cup {Reached(p)} IN
     \E code \in RefusalCodes :
       IF code = 0 THEN Answer(p, reached, Claimed(p)) ELSE TryDirectly(reached)

\* No library, or its CreateFileW failed.
NativeUnreached(p) ==
  /\ pc = "native" /\ Current(p)
  /\ UNCHANGED data
  /\ TryDirectly(hits)

\* Mutant: the result is prepared before the direct call.
MutantWinApiFails(p) ==
  /\ pc = "winapi" /\ Current(p)
  /\ UNCHANGED data
  /\ Answer(p, hits, Claimed(p))

WinApiFails(p) ==
  /\ pc = "winapi" /\ Current(p)
  /\ \/ /\ Reached(p) # None
        /\ \E v \in Refused(Reached(p)) : data' = [data EXCEPT ![Reached(p)] = v]
        /\ Answer(p, hits \cup {Reached(p)}, Failure)
     \/ UNCHANGED data /\ Answer(p, hits, Failure)

\* The report is written and the cache invalidated, or the report raised.
Finish ==
  /\ pc = "plans" /\ plans = {}
  /\ pc' = "idle"
  /\ cache' \in {NoSnapshot, cache}
  /\ UNCHANGED <<disks, data, review, window, dry, request, plans, hits, results, sessions>>

-----------------------------------------------------------------------------
HotPlug == \E n \in Numbers : Unplug(n) \/ \E d \in Devices : Plug(d, n)

User == (\E n \in Numbers : ToggleDrive(n)) \/ \E b \in BOOLEAN : StartExecution(b)

Review == ReviewCollects \/ ReviewReturns \/ CacheExpires

Engine(p) == AnswerWithoutRequest(p) \/ BeginRequest(p) \/ RequestAccepted(p)
               \/ NativeFails(p) \/ NativeUnreached(p) \/ WinApiFails(p)

Session == BuildPreflight \/ (\E p \in plans : Engine(p)) \/ Finish

Next == HotPlug \/ Review \/ User \/ Session

Spec == Init /\ [][Next]_vars

-----------------------------------------------------------------------------
(* Correctness.                                                            *)

\* THREAT_MODEL.md: "The online system disk path is blocked".  No order of hot
\* plugging, stale snapshots, a selection kept by number and late requests gets
\* a request to a system or boot disk, although the policy judges the disk of a
\* snapshot and the engine opens whatever has its number.
SystemDisksSurvive == \A d \in SystemDisks : data[d] = "intact"

\* A request reaches another disk than the one the plan was made for only if
\* that one has been unplugged since the snapshot: no overlap of reviews, cache
\* and session hands a plan the number of another disk.
RequestsReachThePlannedDisk ==
  \A a \in results : \A d \in a.hits :
    d = a.plan.sight.device \/ ~Settled(a.plan.sight)

\* A request reaches another disk than the one the user saw when checking the
\* row only if that one has been unplugged since: set_drives keeps the selection
\* by number (list_models.py:143), whatever is refreshed in between.
RequestsReachTheChosenDisk ==
  \A a \in results : \A d \in a.hits :
    d = a.plan.pick.device \/ ~Settled(a.plan.pick)

\* A result that claims erasure is true of the planned disk if that disk has
\* kept its number, also when the first request reached another one.  With
\* StaleLastError it is not: the claim may rest on a refused native request.
ClaimsHoldForSettledDisks ==
  \A a \in results :
    a.result.assurance_achieved \in ErasureClaims /\ Settled(a.plan.sight)
      => data[a.plan.sight.device] = "erased"

-----------------------------------------------------------------------------
(* What the documents say and the code does not do.                        *)

\* ARCHITECTURE.md:25: "Execution engines must never overstate assurance."  The
\* report names the disk of the plan; the disk that was erased is the one that
\* had its number when the request was sent.
ReportedDiskIsErased ==
  \A a \in results :
    a.result.assurance_achieved \in ErasureClaims
      => data[a.plan.sight.device] = "erased"
=============================================================================
