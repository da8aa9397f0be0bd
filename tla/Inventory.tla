----------------------------- MODULE Inventory -----------------------------
(***************************************************************************)
(* services/inventory.py: the snapshot cache shared by the worker threads, *)
(* with the one caller it has in the program, PlanService.build_preflight  *)
(* (services/planning.py:35-39), and invalidate, which a session's thread  *)
(* calls when it is over (orchestrator.py:117).                            *)
(*                                                                         *)
(* The lock is held only for the short blocks, each one action here; the   *)
(* PowerShell run is outside it, so that calls overtake each other.        *)
(*                                                                         *)
(* The clock counts seconds.  It stands still while a thread has something *)
(* to do other than wait for PowerShell, and PowerShell is killed after    *)
(* Timeout seconds.                                                        *)
(***************************************************************************)
EXTENDS Integers

CONSTANTS Threads,          \* the workers that may be in get_snapshot at once
          TTL,              \* cache_ttl_seconds
          Timeout,          \* timeout_seconds
          IsAdmin,          \* is_windows_admin(), fixed for the process
          MaxClock,         \* bound: the clock stops there
          MaxInvalidations  \* bound on the sessions that end

ASSUME TimesAssumption == TTL \in Nat \ {0} /\ Timeout \in Nat \ {0}
ASSUME AdminAssumption == IsAdmin \in BOOLEAN
ASSUME BoundsAssumption == MaxClock \in Nat /\ MaxInvalidations \in Nat

VARIABLES clock,    \* self.clock()
          epoch,    \* how often the cache was invalidated
          ended,    \* when it was last invalidated
          cache,    \* _CacheEntry or NoCache
          failure,  \* _FailureEntry or NoFailure
          pc,       \* pc[t]: where thread t is in get_snapshot
          call,     \* call[t]: how and when the call of t began
          err,      \* err[t]: when the PowerShell run failed whose error t holds
          answer    \* what the last step returned to its caller, if it did

shared == <<cache, failure>>
vars == <<clock, epoch, ended, cache, failure, pc, call, err, answer>>

Time == 0..MaxClock

\* A snapshot is known by when, and after how many invalidations, its data was
\* collected; "physical" disks or the limited list of "volumes".
Snapshots == [kind : {"physical", "volumes"}, read_at : Time, epoch : 0..MaxInvalidations]

\* The absent entries: their expires_at is never in the future.
NoCache == [snapshot |-> [kind |-> "volumes", read_at |-> 0, epoch |-> 0], expires_at |-> 0]
NoFailure == [failed_at |-> 0, expires_at |-> 0]

PCs == {"idle", "unprivileged", "runner", "remember", "fallback", "store_physical",
        "store_volumes", "raised"}

Calls == [force : BOOLEAN, began : Time, epoch : 0..MaxInvalidations]
NoCall == [force |-> FALSE, began |-> 0, epoch |-> 0]

\* An answer and the call it answers; read_at is when its data was collected or
\* its error raised.
Answers == [kind : {"none", "physical", "volumes", "error", "exception"},
            read_at : Time, epoch : 0..MaxInvalidations, call : Calls]
NoAnswer == [kind |-> "none", read_at |-> 0, epoch |-> 0, call |-> NoCall]

TypeOK ==
  /\ clock \in Time
  /\ epoch \in 0..MaxInvalidations
  /\ ended \in Time
  /\ cache \in [snapshot : Snapshots, expires_at : Nat]
  /\ failure \in [failed_at : Time, expires_at : Nat]
  /\ pc \in [Threads -> PCs]
  /\ call \in [Threads -> Calls]
  /\ err \in [Threads -> Time]
  /\ answer \in Answers

Init ==
  /\ clock = 0
  /\ epoch = 0
  /\ ended = 0
  /\ cache = NoCache
  /\ failure = NoFailure
  /\ pc = [t \in Threads |-> "idle"]
  /\ call = [t \in Threads |-> NoCall]
  /\ err = [t \in Threads |-> 0]
  /\ answer = NoAnswer

-----------------------------------------------------------------------------
\* A step inside the call of t, which returns nothing yet.
Goto(t, to) == pc' = [pc EXCEPT ![t] = to] /\ answer' = NoAnswer

\* The call c is answered.
Answer(kind, read_at, ep, c) ==
  answer' = [kind |-> kind, read_at |-> read_at, epoch |-> ep, call |-> c]

\* The call of t is over, and t forgets it.
Return(t, kind, read_at, ep) ==
  /\ Answer(kind, read_at, ep, call[t])
  /\ pc' = [pc EXCEPT ![t] = "idle"]
  /\ call' = [call EXCEPT ![t] = NoCall]
  /\ err' = [err EXCEPT ![t] = 0]

CacheValid == clock < cache.expires_at
FailureValid == clock < failure.expires_at

-----------------------------------------------------------------------------
(* The locked block at the top of get_snapshot.                            *)

NewCall(force) == [force |-> force, began |-> clock, epoch |-> epoch]

\* Mutant: the cache is looked at first, whatever the caller wants.
MutantServesCache(force) == CacheValid

ServesCache(force) == ~force /\ CacheValid
ServesFailure(force) == ~force /\ ~CacheValid /\ FailureValid

AskCached(t, force) ==
  /\ pc[t] = "idle"
  /\ ServesCache(force)
  /\ Answer(cache.snapshot.kind, cache.snapshot.read_at, cache.snapshot.epoch, NewCall(force))
  /\ UNCHANGED <<clock, epoch, ended, shared, pc, call, err>>

\* A remembered failure: the volumes if there are any, listed on the spot and not
\* stored; otherwise the remembered error is raised.
AskFailed(t, force) ==
  /\ pc[t] = "idle"
  /\ ServesFailure(force)
  /\ \/ /\ Answer("volumes", clock, epoch, NewCall(force))
        /\ UNCHANGED <<pc, call, err>>
     \/ /\ Goto(t, "raised")
        /\ call' = [call EXCEPT ![t] = NewCall(force)]
        /\ err' = [err EXCEPT ![t] = failure.failed_at]
  /\ UNCHANGED <<clock, epoch, ended, shared>>

AskCollect(t, force) ==
  /\ pc[t] = "idle"
  /\ ~ServesCache(force)
  /\ ~ServesFailure(force)
  /\ Goto(t, IF IsAdmin THEN "runner" ELSE "unprivileged")
  /\ call' = [call EXCEPT ![t] = NewCall(force)]
  /\ UNCHANGED <<clock, epoch, ended, shared, err>>

-----------------------------------------------------------------------------
(* Outside the lock.                                                       *)

\* Without privileges: the volumes if there are any, else PowerShell after all.
Unprivileged(t) ==
  /\ pc[t] = "unprivileged"
  /\ \E to \in {"store_volumes", "runner"} : Goto(t, to)
  /\ UNCHANGED <<clock, epoch, ended, shared, call, err>>

\* The PowerShell run ends with a list of disks, or with an InventoryError.
RunnerReturns(t) ==
  /\ pc[t] = "runner"
  /\ \/ Goto(t, "store_physical") /\ UNCHANGED err
     \/ Goto(t, "remember") /\ err' = [err EXCEPT ![t] = clock]
  /\ UNCHANGED <<clock, epoch, ended, shared, call>>

\* Any other exception, from the runner or from build_media_capabilities, leaves
\* get_snapshot and its caller unhandled.
RunnerBreaks(t) ==
  /\ pc[t] = "runner"
  /\ Return(t, "exception", clock, epoch)
  /\ UNCHANGED <<clock, epoch, ended, shared>>

\* Mutant: the two times are swapped.
MutantRememberFailure(t) ==
  failure' = [failed_at |-> clock + TTL, expires_at |-> err[t]]

RememberFailure(t) ==
  failure' = [failed_at |-> err[t], expires_at |-> clock + TTL]

Remember(t) ==
  /\ pc[t] = "remember"
  /\ RememberFailure(t)
  /\ Goto(t, "fallback")
  /\ UNCHANGED <<clock, epoch, ended, cache, call, err>>

\* Mutant: runs PowerShell again when there are no volumes to show.
MutantFallbackRetries(t) ==
  /\ pc[t] = "fallback"
  /\ \E to \in {"store_volumes", "runner"} : Goto(t, to)
  /\ UNCHANGED <<clock, epoch, ended, shared, call, err>>

Fallback(t) ==
  /\ pc[t] = "fallback"
  /\ \E to \in {"store_volumes", "raised"} : Goto(t, to)
  /\ UNCHANGED <<clock, epoch, ended, shared, call, err>>

\* Mutant: a cache entry that is still valid is extended.
MutantExpiry == (IF CacheValid THEN cache.expires_at ELSE clock) + TTL

Expiry == clock + TTL

\* _store_snapshot.  The data is dated from the beginning of the call.
Store(t) ==
  /\ pc[t] \in {"store_physical", "store_volumes"}
  /\ LET kind == IF pc[t] = "store_physical" THEN "physical" ELSE "volumes"
     IN  /\ cache' = [snapshot |-> [kind |-> kind, read_at |-> call[t].began,
                                    epoch |-> call[t].epoch],
                      expires_at |-> Expiry]
         /\ Return(t, kind, call[t].began, call[t].epoch)
  /\ failure' = NoFailure
  /\ UNCHANGED <<clock, epoch, ended>>

\* PlanService.build_preflight catches the error and remembers it once more.
Caught(t) ==
  /\ pc[t] = "raised"
  /\ RememberFailure(t)
  /\ Return(t, "error", err[t], epoch)
  /\ UNCHANGED <<clock, epoch, ended, cache>>

-----------------------------------------------------------------------------
\* A session is over.
Invalidate ==
  /\ epoch < MaxInvalidations
  /\ epoch' = epoch + 1
  /\ ended' = clock
  /\ cache' = NoCache
  /\ failure' = NoFailure
  /\ answer' = NoAnswer
  /\ UNCHANGED <<clock, pc, call, err>>

\* Mutant: PowerShell may run for ever.
MutantWaiting(t) == pc[t] \in {"idle", "runner"}

\* Time passes while every busy thread waits for PowerShell.
Waiting(t) == pc[t] = "idle" \/ (pc[t] = "runner" /\ clock < call[t].began + Timeout)

Tick ==
  /\ clock < MaxClock
  /\ \A t \in Threads : Waiting(t)
  /\ clock' = clock + 1
  /\ answer' = NoAnswer
  /\ UNCHANGED <<epoch, ended, shared, pc, call, err>>

Ask(t) == \E force \in BOOLEAN : AskCached(t, force) \/ AskFailed(t, force) \/ AskCollect(t, force)

Work(t) == Unprivileged(t) \/ RunnerReturns(t) \/ RunnerBreaks(t) \/ Remember(t)
             \/ Fallback(t) \/ Store(t) \/ Caught(t)

Next == Tick \/ Invalidate \/ \E t \in Threads : Ask(t) \/ Work(t)

Spec == Init /\ [][Next]_vars

\* A call once begun goes on: threads are scheduled, the lock is held for short
\* blocks only and subprocess.run has a timeout.  Nobody has to call.
FairSpec == Spec /\ \A t \in Threads : WF_vars(Work(t))

-----------------------------------------------------------------------------
(* Correctness.                                                            *)

HasData == answer.kind \in {"physical", "volumes"}
Age == clock - answer.read_at

\* A snapshot handed out is at most a TTL and a collection old, whatever calls
\* overtake each other and store in whatever order: the expiry is set when the
\* data is stored, up to Timeout after its collection began.
BoundedStaleness == HasData => Age <= Timeout + TTL

\* force_refresh, which the refresh button and the end of a session ask for:
\* the answer was collected by this very call, neither found in the cache nor
\* put there by another thread meanwhile.
ForceIsFresh == (HasData /\ answer.call.force) => answer.read_at = answer.call.began

\* What was collected before an invalidation can come back, from a collection that
\* was under way when it happened, but not for longer than a Timeout and a TTL
\* after it.
StaleDataFades == (HasData /\ answer.epoch < epoch) => clock <= ended + Timeout + TTL

\* Every call returns or raises.
CallsReturn == \A t \in Threads : pc[t] # "idle" ~> pc[t] = "idle"

-----------------------------------------------------------------------------
(* What the documentation says and the code does not do.                   *)

\* services/inventory.py:230: remember_failure caches "a recent inventory
\* failure".  An error is raised at most a TTL and a collection after the
\* PowerShell run that failed.
ErrorIsRecent == answer.kind = "error" => Age <= Timeout + TTL
=============================================================================
