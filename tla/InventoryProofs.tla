-------------------------- MODULE InventoryProofs --------------------------
(***************************************************************************)
(* The inventory cache for any set of threads and any TTL and timeout: the *)
(* age of what it hands out is bounded, a forced refresh is one, and data  *)
(* from before an invalidation fades.                                      *)
(***************************************************************************)
EXTENDS Inventory, TLAPS

-----------------------------------------------------------------------------
(* The inductive invariant.                                                *)

\* A busy thread began at most Timeout ago; if an invalidation has overtaken it,
\* it began before that.
CallsAreRecent ==
  \A t \in Threads : pc[t] # "idle" =>
    /\ call[t].began <= clock
    /\ clock <= call[t].began + Timeout
    /\ call[t].epoch <= epoch
    /\ call[t].epoch < epoch => call[t].began <= ended

\* The cache entry expires a TTL after it was stored, which is at most Timeout
\* after its data was collected.
CacheIsRecent ==
  /\ cache.snapshot.read_at <= clock
  /\ cache.expires_at <= cache.snapshot.read_at + Timeout + TTL
  /\ cache.snapshot.epoch <= epoch
  /\ cache.snapshot.epoch < epoch => cache.snapshot.read_at <= ended

AnswerIsRecent == BoundedStaleness /\ StaleDataFades /\ ForceIsFresh

IInv == TypeOK /\ ended <= clock /\ CallsAreRecent /\ CacheIsRecent /\ AnswerIsRecent

LEMMA InitEstablishesIInv == Init => IInv
<1> SUFFICES ASSUME Init PROVE IInv
  OBVIOUS
<1>0. 0 \in Time /\ 0 \in 0..MaxInvalidations
  BY BoundsAssumption DEF Time
<1>1. TypeOK
  BY <1>0 DEF Init, TypeOK, NoCache, NoFailure, NoCall, NoAnswer, Snapshots, Calls, Answers,
              PCs
<1>2. CallsAreRecent
  BY DEF Init, CallsAreRecent
<1>3. CacheIsRecent
  BY TimesAssumption DEF Init, CacheIsRecent, NoCache
<1>4. AnswerIsRecent
  BY DEF Init, AnswerIsRecent, BoundedStaleness, StaleDataFades, ForceIsFresh, HasData,
         NoAnswer
<1> QED
  BY <1>1, <1>2, <1>3, <1>4 DEF IInv, Init

\* A step that returns nothing to a caller leaves nothing to show of the answer.
LEMMA NoAnswerIsRecent ==
  ASSUME answer' = NoAnswer
  PROVE  AnswerIsRecent'
BY DEF AnswerIsRecent, BoundedStaleness, StaleDataFades, ForceIsFresh, HasData, NoAnswer

LEMMA StepPreservesIInv == IInv /\ [Next]_vars => IInv'
<1> SUFFICES ASSUME IInv, [Next]_vars PROVE IInv'
  OBVIOUS
<1> USE TimesAssumption, AdminAssumption, BoundsAssumption
<1>n. /\ clock \in Nat /\ epoch \in Nat /\ ended \in Nat
      /\ \A x \in Time : x \in Nat
      /\ \A x \in 0..MaxInvalidations : x \in Nat
  BY DEF IInv, TypeOK, Time
<1>z. /\ 0 \in Time /\ NoCall \in Calls /\ NoAnswer \in Answers
      /\ \A force \in BOOLEAN : NewCall(force) \in Calls
      /\ clock + TTL \in Nat
  BY <1>n DEF IInv, TypeOK, Time, NoCall, Calls, NoAnswer, Answers, NewCall
<1>1. CASE Tick
  <2>1. TypeOK'
    BY <1>1 DEF Tick, shared, IInv, TypeOK, Time, NoAnswer, NoCall, Answers, Calls
  <2>2. CallsAreRecent'
    BY <1>1, <1>n DEF Tick, Waiting, IInv, TypeOK, CallsAreRecent, Calls, Time
  <2>3. CacheIsRecent' /\ (ended <= clock)'
    BY <1>1, <1>n DEF Tick, shared, IInv, TypeOK, CacheIsRecent, Snapshots, Time
  <2>4. AnswerIsRecent'
    BY <1>1, NoAnswerIsRecent DEF Tick
  <2> QED
    BY <2>1, <2>2, <2>3, <2>4 DEF IInv
<1>2. CASE Invalidate
  <2>1. TypeOK'
    BY <1>2 DEF Invalidate, IInv, TypeOK, Time, NoAnswer, NoCall, Answers, Calls, NoCache,
                NoFailure, Snapshots
  <2>2. CallsAreRecent'
    BY <1>2, <1>n DEF Invalidate, IInv, TypeOK, CallsAreRecent, Calls, Time
  <2>3. CacheIsRecent' /\ (ended <= clock)'
    BY <1>2, <1>n DEF Invalidate, NoCache, CacheIsRecent
  <2>4. AnswerIsRecent'
    BY <1>2, NoAnswerIsRecent DEF Invalidate
  <2> QED
    BY <2>1, <2>2, <2>3, <2>4 DEF IInv
<1>3. ASSUME NEW t \in Threads, NEW force \in BOOLEAN, AskCached(t, force)
      PROVE  IInv'
  <2>0. ~force /\ clock < cache.expires_at
    BY <1>3 DEF AskCached, ServesCache, CacheValid
  <2>1. TypeOK'
    BY <1>3 DEF AskCached, Answer, NewCall, shared, IInv, TypeOK, Answers, Calls, Snapshots
  <2>2. CallsAreRecent' /\ CacheIsRecent' /\ (ended <= clock)'
    BY <1>3 DEF AskCached, shared, IInv, CallsAreRecent, CacheIsRecent
  <2>3. AnswerIsRecent'
    <3>1. /\ cache.snapshot.read_at \in Nat /\ cache.snapshot.epoch \in Nat
          /\ cache.expires_at \in Nat
      BY <1>n DEF IInv, TypeOK, Snapshots
    <3>2. /\ answer'.read_at = cache.snapshot.read_at
          /\ answer'.epoch = cache.snapshot.epoch
          /\ ~answer'.call.force
          /\ UNCHANGED <<clock, epoch, ended, cache>>
      BY <1>3, <2>0 DEF AskCached, Answer, NewCall, shared
    <3>3. CacheIsRecent
      BY DEF IInv
    <3> QED
      BY <1>n, <2>0, <3>1, <3>2, <3>3 DEF CacheIsRecent, AnswerIsRecent, BoundedStaleness,
         StaleDataFades, ForceIsFresh, Age
  <2> QED
    BY <2>1, <2>2, <2>3 DEF IInv
<1>4. ASSUME NEW t \in Threads, NEW force \in BOOLEAN, AskFailed(t, force)
      PROVE  IInv'
  <2>0. ~force
    BY <1>4 DEF AskFailed, ServesFailure
  <2>1. TypeOK'
    <3>1. answer' \in Answers
      BY <1>4, <1>z DEF AskFailed, Answer, Goto, IInv, TypeOK, Answers
    <3>2. pc' \in [Threads -> PCs] /\ call' \in [Threads -> Calls] /\ err' \in [Threads -> Time]
      BY <1>4, <1>z DEF AskFailed, Goto, IInv, TypeOK, PCs
    <3> QED
      BY <1>4, <3>1, <3>2 DEF AskFailed, shared, IInv, TypeOK
  <2>2. CallsAreRecent'
    BY <1>4, <1>n DEF AskFailed, Goto, NewCall, IInv, TypeOK, CallsAreRecent, Calls, PCs
  <2>3. CacheIsRecent' /\ (ended <= clock)'
    BY <1>4 DEF AskFailed, shared, IInv, CacheIsRecent
  <2>4. AnswerIsRecent'
    BY <1>4, <1>n, <2>0, NoAnswerIsRecent DEF AskFailed, Answer, Goto, NewCall, AnswerIsRecent,
       BoundedStaleness, StaleDataFades, ForceIsFresh, HasData, Age
  <2> QED
    BY <2>1, <2>2, <2>3, <2>4 DEF IInv
<1>5. ASSUME NEW t \in Threads, NEW force \in BOOLEAN, AskCollect(t, force)
      PROVE  IInv'
  <2>1. TypeOK'
    BY <1>5, <1>z DEF AskCollect, Goto, shared, IInv, TypeOK, PCs
  <2>2. CallsAreRecent'
    BY <1>5, <1>n DEF AskCollect, Goto, NewCall, IInv, TypeOK, CallsAreRecent, Calls, PCs
  <2>3. CacheIsRecent' /\ (ended <= clock)'
    BY <1>5 DEF AskCollect, shared, IInv, CacheIsRecent
  <2>4. AnswerIsRecent'
    BY <1>5, NoAnswerIsRecent DEF AskCollect, Goto
  <2> QED
    BY <2>1, <2>2, <2>3, <2>4 DEF IInv
<1>6. ASSUME NEW t \in Threads,
             Unprivileged(t) \/ RunnerReturns(t) \/ Remember(t) \/ Fallback(t)
      PROVE  IInv'
  <2>1. TypeOK'
    BY <1>6, <1>z DEF Unprivileged, RunnerReturns, Remember, RememberFailure, Fallback, Goto,
                      shared, IInv, TypeOK, PCs
  <2>2. CallsAreRecent'
    BY <1>6, <1>n DEF Unprivileged, RunnerReturns, Remember, Fallback, Goto, IInv, TypeOK,
                      CallsAreRecent, PCs
  <2>3. CacheIsRecent' /\ (ended <= clock)'
    BY <1>6 DEF Unprivileged, RunnerReturns, Remember, Fallback, shared, IInv, CacheIsRecent
  <2>4. AnswerIsRecent'
    BY <1>6, NoAnswerIsRecent DEF Unprivileged, RunnerReturns, Remember, Fallback, Goto
  <2> QED
    BY <2>1, <2>2, <2>3, <2>4 DEF IInv
<1>7. ASSUME NEW t \in Threads, RunnerBreaks(t) \/ Caught(t)
      PROVE  IInv'
  <2>1. TypeOK'
    <3>1. answer' \in Answers
      BY <1>7, <1>z DEF RunnerBreaks, Caught, Return, Answer, IInv, TypeOK, Answers
    <3>2. pc' \in [Threads -> PCs] /\ call' \in [Threads -> Calls] /\ err' \in [Threads -> Time]
      BY <1>7, <1>z DEF RunnerBreaks, Caught, Return, IInv, TypeOK, PCs
    <3>3. failure' \in [failed_at : Time, expires_at : Nat]
      BY <1>7, <1>z DEF RunnerBreaks, Caught, RememberFailure, shared, IInv, TypeOK
    <3> QED
      BY <1>7, <3>1, <3>2, <3>3 DEF RunnerBreaks, Caught, shared, IInv, TypeOK
  <2>2. CallsAreRecent'
    BY <1>7, <1>n DEF RunnerBreaks, Caught, Return, IInv, TypeOK, CallsAreRecent, PCs
  <2>3. CacheIsRecent' /\ (ended <= clock)'
    BY <1>7 DEF RunnerBreaks, Caught, shared, IInv, CacheIsRecent
  <2>4. AnswerIsRecent'
    BY <1>7 DEF RunnerBreaks, Caught, Return, Answer, AnswerIsRecent, BoundedStaleness,
                StaleDataFades, ForceIsFresh, HasData
  <2> QED
    BY <2>1, <2>2, <2>3, <2>4 DEF IInv
<1>8. ASSUME NEW t \in Threads, Store(t)
      PROVE  IInv'
  <2> DEFINE kind == IF pc[t] = "store_physical" THEN "physical" ELSE "volumes"
  <2>0. /\ pc[t] # "idle"
        /\ call[t] \in Calls
        /\ cache' = [snapshot |-> [kind |-> kind, read_at |-> call[t].began,
                                   epoch |-> call[t].epoch],
                     expires_at |-> clock + TTL]
        /\ answer' = [kind |-> kind, read_at |-> call[t].began, epoch |-> call[t].epoch,
                      call |-> call[t]]
        /\ pc' = [pc EXCEPT ![t] = "idle"]
        /\ call' = [call EXCEPT ![t] = NoCall]
        /\ err' = [err EXCEPT ![t] = 0]
        /\ failure' = NoFailure
        /\ UNCHANGED <<clock, epoch, ended>>
    BY <1>8 DEF Store, Return, Answer, Expiry, IInv, TypeOK
  <2>00. /\ call[t].began \in Nat /\ call[t].epoch \in Nat
         /\ call[t].began <= clock
         /\ clock <= call[t].began + Timeout
         /\ call[t].epoch <= epoch
         /\ call[t].epoch < epoch => call[t].began <= ended
    BY <2>0, <1>n DEF IInv, CallsAreRecent, Calls
  <2>1. TypeOK'
    BY <2>0, <1>n DEF NoCall, NoFailure, IInv, TypeOK, Answers, Calls, PCs, Snapshots, Time
  <2>2. CallsAreRecent'
    BY <2>0 DEF IInv, TypeOK, CallsAreRecent
  <2>3. CacheIsRecent' /\ (ended <= clock)'
    BY <2>0, <2>00, <1>n DEF IInv, CacheIsRecent
  <2>4. AnswerIsRecent'
    BY <2>0, <2>00, <1>n DEF AnswerIsRecent, BoundedStaleness, StaleDataFades, ForceIsFresh,
                             HasData, Age
  <2> QED
    BY <2>1, <2>2, <2>3, <2>4 DEF IInv
<1>9. CASE UNCHANGED vars
  BY <1>9 DEF vars, IInv, TypeOK, CallsAreRecent, CacheIsRecent, AnswerIsRecent,
              BoundedStaleness, StaleDataFades, ForceIsFresh, HasData, Age
<1> QED
  BY <1>1, <1>2, <1>3, <1>4, <1>5, <1>6, <1>7, <1>8, <1>9 DEF Next, Ask, Work

\* The strengthened invariant holds in every reachable state.
LEMMA Invariance == Spec => []IInv
<1>1. Init => IInv
  BY InitEstablishesIInv
<1>2. IInv /\ [Next]_vars => IInv'
  BY StepPreservesIInv
<1> QED
  BY <1>1, <1>2, PTL DEF Spec

-----------------------------------------------------------------------------
(* What follows from it.                                                   *)

\* Every variable keeps its type.
THEOREM TypeCorrect == Spec => []TypeOK
<1>1. IInv => TypeOK
  BY DEF IInv
<1> QED
  BY <1>1, Invariance, PTL

\* A snapshot is never older than a TTL and a collection when it is handed out.
THEOREM StalenessIsBounded == Spec => []BoundedStaleness
<1>1. IInv => BoundedStaleness
  BY DEF IInv, AnswerIsRecent
<1> QED
  BY <1>1, Invariance, PTL

\* A forced refresh answers with what it collected itself.
THEOREM ForcedRefreshIsFresh == Spec => []ForceIsFresh
<1>1. IInv => ForceIsFresh
  BY DEF IInv, AnswerIsRecent
<1> QED
  BY <1>1, Invariance, PTL

\* Data from before a session's end is gone a Timeout and a TTL after it.
THEOREM StaleDataAlwaysFades == Spec => []StaleDataFades
<1>1. IInv => StaleDataFades
  BY DEF IInv, AnswerIsRecent
<1> QED
  BY <1>1, Invariance, PTL
=============================================================================
