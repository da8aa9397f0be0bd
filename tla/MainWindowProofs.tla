-------------------------- MODULE MainWindowProofs --------------------------
(***************************************************************************)
(* The window for every set of files and disks, every size of the thread   *)
(* pool, and any number of requests and sessions: its type invariant, the  *)
(* safety properties that MCMainWindow checks, and the forced refresh.     *)
(***************************************************************************)
EXTENDS MainWindow, FiniteSetTheorems, SequenceTheorems, TLAPS

-----------------------------------------------------------------------------
(* What is on its way: a worker in the queue or on a thread, then the       *)
(* event it posts.  W are the workers of interest and E their events.       *)

\* No element of S, or exactly one, is in the sequence.
Lacks(s, S) == \A i \in DOMAIN s : s[i] \notin S
HoldsOne(s, S) == \E i \in DOMAIN s : s[i] \in S /\ \A j \in DOMAIN s : s[j] \in S => j = i

None(queue, threads, posted, W, E) ==
  Lacks(queue, W) /\ threads \cap W = {} /\ Lacks(posted, E)

One(queue, threads, posted, W, E) ==
  \/ HoldsOne(queue, W) /\ threads \cap W = {} /\ Lacks(posted, E)
  \/ Lacks(queue, W) /\ (\E w \in threads : threads \cap W = {w}) /\ Lacks(posted, E)
  \/ Lacks(queue, W) /\ threads \cap W = {} /\ HoldsOne(posted, E)

PreflightEvents == [kind : {"preflight"}, token : Nat, request : Request]
TerminalEvents == [kind : {"completed", "failed"}]
EventsOfAnyKind == PreflightEvents \cup TerminalEvents

\* The answers to request number n, and a session that is not over.
Asked(n) == {w \in WorkersOfAnyKind : w.kind = "preflight" /\ w.token = n}
Answers(n) == {e \in PreflightEvents : e.token = n}
OpenSessions == {w \in WorkersOfAnyKind : w.kind = "session" /\ ~w.done}

NoAnswer == None(waiting, active, events, Asked(token), Answers(token))
OneAnswer == One(waiting, active, events, Asked(token), Answers(token))
NoSession == None(waiting, active, events, OpenSessions, TerminalEvents)
OneOpenSession == One(waiting, active, events, OpenSessions, TerminalEvents)

-----------------------------------------------------------------------------
(* The inductive invariant.                                                *)

Settings ==
  /\ phase \in AppPhase /\ mode \in OperationMode /\ dry \in BOOLEAN
  /\ files \subseteq Files /\ drives \subseteq Disks /\ selected \subseteq drives
  /\ token \in Nat \ {0}
  /\ pending \in BOOLEAN /\ timer \in BOOLEAN /\ running \in BOOLEAN /\ aside \in BOOLEAN
  /\ dialog \in [kind : {"none", "question", "message"}, targets : SUBSET (Files \cup Disks)]
  /\ shown \in Request
  /\ sessions \in 0..MaxSessions
  /\ dialog.kind = "question" => ~running /\ sessions < MaxSessions

\* Events of the preflight kind know the request that was asked for; the
\* answer to the present request knows the present settings.
Fits(x) ==
  x.token = token => /\ x.request.mode = mode /\ x.request.dry = dry
                     /\ x.request.targets = Targets \/ (aside /\ mode = "DRIVE_SANITIZE")

Known(x) == x.kind = "preflight" => x.token <= token /\ Fits(x)

Pool ==
  /\ waiting \in Seq(WorkersOfAnyKind) /\ active \subseteq WorkersOfAnyKind
  /\ events \in Seq(EventsOfAnyKind)
  /\ IsFiniteSet(active) /\ Cardinality(active) <= MaxThreads
  /\ \A w \in Workers : w.done => w.kind = "session"
  /\ \A x \in Workers \cup Range(events) : Known(x)

\* While the timer runs nothing answers the present request; afterwards at
\* most one worker or event does, and as long as the window waits there is one.
Preflights ==
  /\ NoAnswer \/ OneAnswer
  /\ timer => NoAnswer /\ phase # "IDLE"
  /\ phase = "PREFLIGHT" => timer \/ OneAnswer
  /\ pending => timer

Sessions == IF running THEN OneOpenSession ELSE NoSession

IInv == Settings /\ Pool /\ Preflights /\ Sessions /\ ReadyMeansCurrent

-----------------------------------------------------------------------------
(* What is added to it for the sessions and what they are begun with.      *)

\* While the question is open, its targets are those that are selected, unless
\* an awaited answer has come meanwhile: one that found nothing missing has
\* changed no selection but the delegate's, and there is no other under way.
Asking ==
  dialog.kind = "question" =>
    /\ dialog.targets # {}
    /\ \/ dialog.targets = Targets
       \/ NoAnswer /\ ~timer /\ (phase = "IDLE" => aside /\ mode = "DRIVE_SANITIZE")

SessionWorkers == {w \in Workers : w.kind = "session"}

\* Session workers are told apart by their numbers, the last one is the one that
\* may be open, and one that has posted its event is on a thread.
Numbered ==
  /\ \A w \in SessionWorkers : w.token \in 1..sessions /\ w.request \in Contract!Arguments
  /\ \A w \in SessionWorkers : ~w.done => w.token = sessions
  /\ \A v, w \in SessionWorkers : v.token = w.token => v = w
  /\ \A w \in Range(waiting) : ~w.done

JInv == Asking /\ Numbered

-----------------------------------------------------------------------------
(* Sequences whose head is taken and to whose end something is added.      *)

LEMMA Appending ==
  ASSUME NEW T, NEW s \in Seq(T), NEW x \in T
  PROVE  /\ Append(s, x) \in Seq(T)
         /\ Range(Append(s, x)) = Range(s) \cup {x}
         /\ \A S : x \notin S /\ Lacks(s, S) => Lacks(Append(s, x), S)
         /\ \A S : x \notin S /\ HoldsOne(s, S) => HoldsOne(Append(s, x), S)
         /\ \A S : x \in S /\ Lacks(s, S) => HoldsOne(Append(s, x), S)
<1> DEFINE r == Append(s, x)
<1>1. /\ r \in Seq(T) /\ DOMAIN s = 1..Len(s) /\ DOMAIN r = 1..(Len(s) + 1) /\ Len(s) \in Nat
      /\ \A i \in DOMAIN s : r[i] = s[i]
      /\ r[Len(s) + 1] = x
  BY AppendProperties
<1> HIDE DEF r
<1>2. DOMAIN r = DOMAIN s \cup {Len(s) + 1} /\ Len(s) + 1 \notin DOMAIN s
  BY <1>1
<1>3. Range(r) = Range(s) \cup {x}
  BY <1>1, <1>2 DEF Range
<1>4. ASSUME NEW S PROVE x \notin S /\ Lacks(s, S) => Lacks(r, S)
  BY <1>1, <1>2 DEF Lacks
<1>5. ASSUME NEW S PROVE x \notin S /\ HoldsOne(s, S) => HoldsOne(r, S)
  BY <1>1, <1>2 DEF HoldsOne
<1>6. ASSUME NEW S PROVE x \in S /\ Lacks(s, S) => HoldsOne(r, S)
  BY <1>1, <1>2 DEF Lacks, HoldsOne
<1> QED
  BY <1>1, <1>3, <1>4, <1>5, <1>6 DEF r

LEMMA Taking ==
  ASSUME NEW T, NEW s \in Seq(T), s # <<>>
  PROVE  /\ Tail(s) \in Seq(T) /\ Head(s) \in T
         /\ Range(s) = Range(Tail(s)) \cup {Head(s)}
         /\ \A S : Lacks(s, S) => Head(s) \notin S /\ Lacks(Tail(s), S)
         /\ \A S : HoldsOne(s, S) /\ Head(s) \in S => Lacks(Tail(s), S)
         /\ \A S : HoldsOne(s, S) /\ Head(s) \notin S => HoldsOne(Tail(s), S)
<1> DEFINE r == Tail(s)
<1>1. /\ r \in Seq(T) /\ Head(s) \in T /\ Head(s) = s[1]
      /\ DOMAIN s = 1..Len(s) /\ Len(s) \in Nat \ {0} /\ DOMAIN r = 1..(Len(s) - 1)
      /\ \A i \in DOMAIN r : r[i] = s[i + 1]
  BY HeadTailProperties, EmptySeq
<1> HIDE DEF r
<1>2. /\ 1 \in DOMAIN s /\ \A i \in DOMAIN r : i + 1 \in DOMAIN s
      /\ \A i \in DOMAIN s : i = 1 \/ (i - 1 \in DOMAIN r /\ s[i] = r[i - 1])
  <2>1. 1 \in DOMAIN s /\ \A i \in DOMAIN r : i + 1 \in DOMAIN s
    BY <1>1
  <2>2. ASSUME NEW i \in DOMAIN s, i # 1 PROVE i - 1 \in DOMAIN r /\ s[i] = r[i - 1]
    BY <1>1, <2>2
  <2> QED
    BY <2>1, <2>2
<1>3. Range(s) = Range(r) \cup {Head(s)}
  <2>1. ASSUME NEW x \in Range(s) PROVE x \in Range(r) \cup {Head(s)}
    <3>1. PICK i \in DOMAIN s : x = s[i]
      BY DEF Range
    <3>2. i # 1 => i - 1 \in DOMAIN r /\ x = r[i - 1]
      BY <1>2, <3>1
    <3> QED
      BY <1>1, <3>1, <3>2 DEF Range
  <2>2. Head(s) \in Range(s)
    BY <1>1, <1>2 DEF Range
  <2>3. ASSUME NEW i \in DOMAIN r PROVE r[i] \in Range(s)
    BY <1>1, <1>2 DEF Range
  <2> QED
    BY <2>1, <2>2, <2>3 DEF Range
<1>4. ASSUME NEW S PROVE Lacks(s, S) => Head(s) \notin S /\ Lacks(r, S)
  BY <1>1, <1>2 DEF Lacks
<1>5. ASSUME NEW S PROVE HoldsOne(s, S) /\ Head(s) \in S => Lacks(r, S)
  <2> SUFFICES ASSUME HoldsOne(s, S), Head(s) \in S, NEW i \in DOMAIN r, r[i] \in S
               PROVE  FALSE
    BY DEF Lacks
  <2>1. i + 1 = 1
    BY <1>1, <1>2 DEF HoldsOne
  <2> QED
    BY <2>1, <1>1
<1>6. ASSUME NEW S, HoldsOne(s, S), Head(s) \notin S PROVE HoldsOne(r, S)
  <2>1. PICK i \in DOMAIN s : s[i] \in S /\ \A j \in DOMAIN s : s[j] \in S => j = i
    BY <1>6 DEF HoldsOne
  <2>2. i - 1 \in DOMAIN r /\ r[i - 1] \in S
    BY <1>1, <1>2, <1>6, <2>1
  <2>3. ASSUME NEW j \in DOMAIN r, r[j] \in S PROVE j = i - 1
    <3>1. j + 1 = i
      BY <1>1, <1>2, <2>1, <2>3
    <3> QED
      BY <3>1, <1>1
  <2> QED
    BY <2>2, <2>3 DEF HoldsOne
<1> QED
  BY <1>1, <1>3, <1>4, <1>5, <1>6 DEF r

-----------------------------------------------------------------------------
(* The moves of workers and events.                                        *)

LEMMA Enqueueing ==
  ASSUME NEW s \in Seq(WorkersOfAnyKind), NEW x \in WorkersOfAnyKind, NEW a, NEW e, NEW W, NEW E
  PROVE  /\ x \notin W /\ None(s, a, e, W, E) => None(Append(s, x), a, e, W, E)
         /\ x \notin W /\ One(s, a, e, W, E) => One(Append(s, x), a, e, W, E)
         /\ x \in W /\ None(s, a, e, W, E) => One(Append(s, x), a, e, W, E)
<1>1. /\ x \notin W /\ Lacks(s, W) => Lacks(Append(s, x), W)
      /\ x \notin W /\ HoldsOne(s, W) => HoldsOne(Append(s, x), W)
      /\ x \in W /\ Lacks(s, W) => HoldsOne(Append(s, x), W)
  BY Appending
<1> QED
  BY <1>1 DEF None, One

LEMMA Starting ==
  ASSUME NEW s \in Seq(WorkersOfAnyKind), s # <<>>, NEW a, NEW e, NEW W, NEW E
  PROVE  /\ None(s, a, e, W, E) => None(Tail(s), a \cup {Head(s)}, e, W, E)
         /\ One(s, a, e, W, E) => One(Tail(s), a \cup {Head(s)}, e, W, E)
<1>1. /\ Lacks(s, W) => Head(s) \notin W /\ Lacks(Tail(s), W)
      /\ HoldsOne(s, W) /\ Head(s) \in W => Lacks(Tail(s), W)
      /\ HoldsOne(s, W) /\ Head(s) \notin W => HoldsOne(Tail(s), W)
  BY Taking
<1>2. /\ Head(s) \notin W => (a \cup {Head(s)}) \cap W = a \cap W
      /\ Head(s) \in W /\ a \cap W = {} => (a \cup {Head(s)}) \cap W = {Head(s)}
  OBVIOUS
<1> QED
  BY <1>1, <1>2 DEF None, One

\* A worker of interest posts an event of interest and is done.
LEMMA Posting ==
  ASSUME NEW e \in Seq(EventsOfAnyKind), NEW x \in EventsOfAnyKind, NEW s,
         NEW a, NEW w \in a, NEW b, NEW W, NEW E,
         w \in W <=> x \in E, b \cap W = (a \cap W) \ {w}
  PROVE  /\ None(s, a, e, W, E) => None(s, b, Append(e, x), W, E)
         /\ One(s, a, e, W, E) => One(s, b, Append(e, x), W, E)
<1>1. /\ x \notin E /\ Lacks(e, E) => Lacks(Append(e, x), E)
      /\ x \notin E /\ HoldsOne(e, E) => HoldsOne(Append(e, x), E)
      /\ x \in E /\ Lacks(e, E) => HoldsOne(Append(e, x), E)
  BY Appending
<1>2. w \in W => w \in a \cap W
  OBVIOUS
<1>3. w \notin W => b \cap W = a \cap W
  OBVIOUS
<1>4. CASE w \in W
  BY <1>1, <1>2, <1>4 DEF None, One
<1>5. CASE w \notin W
  BY <1>1, <1>3, <1>5 DEF None, One
<1> QED
  BY <1>4, <1>5

LEMMA Handling ==
  ASSUME NEW e \in Seq(EventsOfAnyKind), e # <<>>, NEW s, NEW a, NEW W, NEW E
  PROVE  /\ None(s, a, e, W, E) => Head(e) \notin E /\ None(s, a, Tail(e), W, E)
         /\ One(s, a, e, W, E) /\ Head(e) \notin E => One(s, a, Tail(e), W, E)
         /\ One(s, a, e, W, E) /\ Head(e) \in E => None(s, a, Tail(e), W, E)
<1>1. /\ Lacks(e, E) => Head(e) \notin E /\ Lacks(Tail(e), E)
      /\ HoldsOne(e, E) /\ Head(e) \in E => Lacks(Tail(e), E)
      /\ HoldsOne(e, E) /\ Head(e) \notin E => HoldsOne(Tail(e), E)
  BY Taking
<1> QED
  BY <1>1 DEF None, One

\* The tokens and requests of what is on its way.
LEMMA PoolTypes ==
  ASSUME Pool
  PROVE  /\ Workers \subseteq WorkersOfAnyKind /\ Range(events) \subseteq EventsOfAnyKind
         /\ \A x \in Workers \cup Range(events) :
              x.kind = "preflight" => x.token \in Nat /\ x.request \in Request
<1>1. Workers \subseteq WorkersOfAnyKind /\ Range(events) \subseteq EventsOfAnyKind
  BY DEF Pool, Workers, Range
<1> QED
  BY <1>1 DEF WorkersOfAnyKind, EventsOfAnyKind, PreflightEvents, TerminalEvents

\* Nothing is on its way for a request that is yet to be made.
LEMMA NothingForLaterRequests ==
  ASSUME Settings, Pool, NEW n \in Nat, n > token
  PROVE  None(waiting, active, events, Asked(n), Answers(n))
<1>1. ASSUME NEW i \in DOMAIN waiting PROVE waiting[i] \notin Asked(n)
  BY DEF Settings, Pool, Known, Asked, Workers, Range
<1>2. active \cap Asked(n) = {}
  BY DEF Settings, Pool, Known, Asked, Workers
<1>3. ASSUME NEW i \in DOMAIN events PROVE events[i] \notin Answers(n)
  BY DEF Settings, Pool, Known, Answers, PreflightEvents, Range
<1> QED
  BY <1>1, <1>2, <1>3 DEF None, Lacks

-----------------------------------------------------------------------------
(* IInv is inductive.                                                      *)

LEMMA InitEstablishesIInv == Init => IInv
<1> SUFFICES ASSUME Init PROVE IInv
  OBVIOUS
<1> DEFINE first == Preflight(1, CurrentRequest, TRUE)
<1>1. /\ CurrentRequest \in Request /\ first \in WorkersOfAnyKind
      /\ first.kind = "preflight" /\ first.token = 1 /\ ~first.done
      /\ first.request = CurrentRequest
  BY DEF Init, CurrentRequest, Targets, Request, OperationMode, Preflight, WorkersOfAnyKind
<1>2. Settings
  <2>1. dialog \in [kind : {"none", "question", "message"}, targets : SUBSET (Files \cup Disks)]
         /\ dialog.kind = "none"
    BY DEF Init
  <2>2. shown \in Request
    BY <1>1 DEF Init
  <2>3. /\ pending = FALSE /\ timer = FALSE /\ running = FALSE /\ aside = FALSE /\ dry = FALSE
        /\ phase = "PREFLIGHT" /\ mode = "FILE_SANITIZE" /\ token = 1 /\ sessions = 0
        /\ files = {} /\ drives = {} /\ selected = {}
    BY DEF Init
  <2>4. /\ phase \in AppPhase /\ mode \in OperationMode
        /\ files \subseteq Files /\ drives \subseteq Disks /\ selected \subseteq drives
        /\ token \in Nat \ {0}
    BY <2>3 DEF AppPhase, OperationMode
  <2>5. sessions \in 0..MaxSessions
    BY <2>3, WindowAssumption
  <2>6. /\ pending \in BOOLEAN /\ timer \in BOOLEAN /\ running \in BOOLEAN /\ aside \in BOOLEAN
        /\ dry \in BOOLEAN
    BY <2>3
  <2> QED
    BY <2>1, <2>2, <2>4, <2>5, <2>6 DEF Settings
<1> HIDE DEF first
<1>f. waiting = <<first>> /\ events = <<>> /\ active = {}
  BY DEF Init, first
<1>3. waiting = Append(<<>>, first) /\ Range(waiting) = {first} /\ Range(events) = {}
  BY <1>f DEF Range
<1>4. Pool
  <2>1. IsFiniteSet(active) /\ Cardinality(active) <= MaxThreads
    BY FS_EmptySet, WindowAssumption DEF Init
  <2>2. Known(first)
    <3>1. /\ CurrentRequest.mode = mode /\ CurrentRequest.dry = dry
          /\ CurrentRequest.targets = Targets /\ token = 1
      BY DEF Init, CurrentRequest
    <3> QED
      BY <1>1, <3>1 DEF Known, Fits
  <2>3. /\ waiting \in Seq(WorkersOfAnyKind) /\ events \in Seq(EventsOfAnyKind)
        /\ Workers = {first} /\ Workers \cup Range(events) = {first}
    BY <1>1, <1>3, <1>f, EmptySeq, Appending DEF Workers
  <2> QED
    BY <1>1, <2>1, <2>2, <2>3 DEF Pool, Init
<1>5. OneAnswer /\ NoSession
  <2>1. first \in Asked(token) /\ first \notin OpenSessions
    BY <1>1 DEF Init, Asked, OpenSessions
  <2>2. /\ None(<<>>, active, events, Asked(token), Answers(token))
        /\ None(<<>>, active, events, OpenSessions, TerminalEvents)
    BY DEF Init, None, Lacks
  <2> HIDE DEF first
  <2> QED
    BY <1>1, <1>3, <2>1, <2>2, Enqueueing, EmptySeq DEF OneAnswer, NoSession
<1> QED
  BY <1>2, <1>4, <1>5 DEF IInv, Init, Preflights, Sessions, ReadyMeansCurrent

\* What the user changes with the debounce timer.
LEMMA SchedulingKeepsIInv ==
  ASSUME IInv, NEW force \in BOOLEAN, SchedulePreflight(force), Unchanged,
         mode' \in OperationMode, dry' \in BOOLEAN, files' \subseteq Files,
         drives' = drives, selected' \subseteq drives
  PROVE  IInv'
<1>1. Settings'
  BY DEF IInv, Settings, SchedulePreflight, Pending, StartTimer, Unchanged, AppPhase
<1>2. UNCHANGED <<waiting, active, events>> /\ token' = token + 1 /\ timer' /\ phase' = "PREFLIGHT"
  BY DEF SchedulePreflight, StartTimer, Unchanged, pool
<1>3. NoAnswer'
  BY <1>2, NothingForLaterRequests DEF IInv, Settings, NoAnswer
<1>4. Pool'
  <2>1. \A x \in Workers \cup Range(events) : Known(x)'
    BY <1>2, PoolTypes DEF IInv, Settings, Pool, Known, Fits
  <2> QED
    BY <1>2, <2>1 DEF IInv, Pool, Workers
<1>5. Sessions'
  BY <1>2 DEF IInv, Sessions, Unchanged, NoSession, OneOpenSession
<1> QED
  BY <1>1, <1>2, <1>3, <1>4, <1>5 DEF IInv, Preflights, ReadyMeansCurrent

\* The workers that are put into the queue.
LEMMA NewWorkers ==
  ASSUME Settings, NEW n \in Nat, NEW force \in BOOLEAN, NEW targets \in SUBSET (Files \cup Disks)
  PROVE  /\ CurrentRequest \in Request
         /\ Preflight(n, CurrentRequest, force) \in Asked(n)
         /\ Preflight(n, CurrentRequest, force).request = CurrentRequest
         /\ Preflight(n, CurrentRequest, force).force = force
         /\ ~Preflight(n, CurrentRequest, force).done
         /\ Session(n, [CurrentRequest EXCEPT !.targets = targets]) \in OpenSessions
<1>1. CurrentRequest \in Request /\ [CurrentRequest EXCEPT !.targets = targets] \in Request
  BY DEF Settings, CurrentRequest, Targets, Request
<1>2. /\ Preflight(n, CurrentRequest, force) \in Asked(n)
      /\ Preflight(n, CurrentRequest, force).request = CurrentRequest
      /\ Preflight(n, CurrentRequest, force).force = force
      /\ ~Preflight(n, CurrentRequest, force).done
  BY <1>1 DEF Preflight, Asked, WorkersOfAnyKind
<1>3. Session(n, [CurrentRequest EXCEPT !.targets = targets]) \in OpenSessions
  BY <1>1 DEF Session, OpenSessions, WorkersOfAnyKind
<1> QED
  BY <1>1, <1>2, <1>3

LEMMA Unasked ==
  ASSUME Pool, NEW n, None(waiting, active, events, Asked(n), Answers(n)),
         NEW x \in Workers \cup Range(events), x.kind = "preflight"
  PROVE  x.token # n
<1>1. CASE x \in Workers
  BY <1>1, PoolTypes DEF None, Lacks, Asked, Workers, Range
<1>2. CASE x \in Range(events)
  BY <1>2, PoolTypes DEF None, Lacks, Answers, EventsOfAnyKind, TerminalEvents, Range
<1> QED
  BY <1>1, <1>2

\* A worker is dispatched for request number n, for which there is none yet.
LEMMA DispatchKeepsIInv ==
  ASSUME Settings, Pool, Sessions, NEW n \in Nat, n >= token, NEW force \in BOOLEAN,
         None(waiting, active, events, Asked(n), Answers(n)),
         DispatchPreflight(n, force), token' = n, timer' = FALSE,
         phase' \in AppPhase \ {"IDLE"},
         UNCHANGED <<view, running, dialog, shown, events, sessions>>
  PROVE  IInv'
<1> DEFINE new == Preflight(n, CurrentRequest, force)
<1>1. /\ new \in Asked(n) /\ new.request = CurrentRequest /\ ~new.done /\ new \in WorkersOfAnyKind
      /\ new.token = n /\ new.kind = "preflight" /\ new \notin OpenSessions
  BY NewWorkers DEF Asked, OpenSessions
<1>2. waiting' = Append(waiting, new) /\ UNCHANGED <<active, events>> /\ pending' = FALSE /\ aside' = FALSE
  BY DEF DispatchPreflight
<1>f. /\ new.request.mode = mode /\ new.request.dry = dry /\ new.request.targets = Targets
      /\ Targets' = Targets /\ UNCHANGED <<mode, files, drives, selected, dry>>
  BY <1>1 DEF CurrentRequest, view, Targets
<1> HIDE DEF new
<1>3. Settings'
  <2>1. token' \in Nat \ {0}
    BY DEF Settings
  <2>2. pending' \in BOOLEAN /\ timer' \in BOOLEAN /\ aside' \in BOOLEAN
    BY <1>2
  <2> QED
    BY <2>1, <2>2, <1>f DEF Settings
<1>4. waiting' \in Seq(WorkersOfAnyKind) /\ Workers' = Workers \cup {new}
  BY <1>1, <1>2, Appending DEF Pool, Workers
<1>5. Pool'
  <2>1. ASSUME NEW x \in (Workers \cup Range(events))' PROVE Known(x)'
    <3>1. CASE x = new
      BY <1>1, <1>f, <3>1 DEF Known, Fits
    <3>2. CASE x \in Workers \cup Range(events)
      BY <3>2, Unasked, PoolTypes DEF Pool, Settings, Known, Fits
    <3> QED
      BY <1>2, <1>4, <3>1, <3>2
  <2> QED
    BY <1>1, <1>2, <1>4, <2>1 DEF Pool
<1>6. OneAnswer'
  BY <1>1, <1>2, Enqueueing DEF Pool, OneAnswer
<1>7. Sessions'
  BY <1>1, <1>2, Enqueueing DEF Pool, Sessions, NoSession, OneOpenSession
<1> QED
  BY <1>2, <1>3, <1>5, <1>6, <1>7 DEF IInv, Preflights, ReadyMeansCurrent

\* A session is put into the pool's queue.
LEMMA BeginKeepsIInv ==
  ASSUME IInv, ~running, sessions < MaxSessions, NEW targets \in SUBSET (Files \cup Disks),
         Begin(targets),
         dialog' \in [kind : {"none", "question", "message"}, targets : SUBSET (Files \cup Disks)],
         dialog'.kind # "question"
  PROVE  IInv'
<1> DEFINE new == Session(sessions + 1, [CurrentRequest EXCEPT !.targets = targets])
<1>1. /\ waiting' = Append(waiting, new) /\ UNCHANGED <<active, events, token, timer, pending, aside>>
      /\ UNCHANGED <<mode, files, drives, selected, dry, shown>> /\ sessions' = sessions + 1
      /\ running' = TRUE /\ phase' = "RUNNING"
  BY DEF Begin, view
<1>2. new \in OpenSessions /\ new \in WorkersOfAnyKind /\ new.kind = "session" /\ new \notin Asked(token)
  BY NewWorkers DEF IInv, Settings, OpenSessions, Asked
<1> HIDE DEF new
<1>3. Settings'
  BY <1>1, WindowAssumption DEF IInv, Settings, AppPhase
<1>4. waiting' \in Seq(WorkersOfAnyKind) /\ Workers' = Workers \cup {new}
  BY <1>1, <1>2, Appending DEF IInv, Pool, Workers
<1>5. Pool'
  <2>1. \A x \in (Workers \cup Range(events))' : Known(x)'
    BY <1>1, <1>2, <1>4 DEF IInv, Pool, Known, Fits, Targets
  <2> QED
    BY <1>1, <1>2, <1>4, <2>1 DEF IInv, Pool
<1>6. Preflights'
  <2>1. (NoAnswer => NoAnswer') /\ (OneAnswer => OneAnswer')
    BY <1>1, <1>2, Enqueueing DEF IInv, Pool, NoAnswer, OneAnswer
  <2> QED
    BY <1>1, <2>1 DEF IInv, Preflights
<1>7. Sessions'
  BY <1>1, <1>2, Enqueueing DEF IInv, Pool, Sessions, NoSession, OneOpenSession
<1> QED
  BY <1>1, <1>3, <1>5, <1>6, <1>7 DEF IInv, ReadyMeansCurrent

\* The number of threads in use.
LEMMA ThreadsInUse ==
  ASSUME NEW a, IsFiniteSet(a), Cardinality(a) <= MaxThreads, NEW x
  PROVE  /\ Cardinality(a) < MaxThreads
              => IsFiniteSet(a \cup {x}) /\ Cardinality(a \cup {x}) <= MaxThreads
         /\ \A w : IsFiniteSet(a \ {w}) /\ Cardinality(a \ {w}) <= MaxThreads
         /\ \A w \in a : /\ IsFiniteSet((a \ {w}) \cup {x})
                         /\ Cardinality((a \ {w}) \cup {x}) <= MaxThreads
<1>1. Cardinality(a) \in Nat /\ MaxThreads \in Nat
  BY FS_CardinalityType, WindowAssumption
<1>2. /\ IsFiniteSet(a \cup {x})
      /\ Cardinality(a \cup {x}) = IF x \in a THEN Cardinality(a) ELSE Cardinality(a) + 1
  BY FS_AddElement
<1>3. ASSUME NEW w
      PROVE  /\ IsFiniteSet(a \ {w}) /\ Cardinality(a \ {w}) <= MaxThreads
             /\ Cardinality(a \ {w}) \in Nat
             /\ w \in a => Cardinality(a \ {w}) + 1 <= MaxThreads
  <2>1. /\ IsFiniteSet(a \ {w})
        /\ Cardinality(a \ {w}) = IF w \in a THEN Cardinality(a) - 1 ELSE Cardinality(a)
    BY FS_RemoveElement
  <2>2. Cardinality(a \ {w}) \in Nat
    BY <2>1, FS_CardinalityType
  <2> QED
    BY <1>1, <2>1, <2>2
<1>4. ASSUME NEW w \in a
      PROVE  /\ IsFiniteSet((a \ {w}) \cup {x})
             /\ Cardinality((a \ {w}) \cup {x}) <= MaxThreads
  <2> DEFINE b == a \ {w}
  <2>1. IsFiniteSet(b) /\ Cardinality(b) <= MaxThreads /\ Cardinality(b) + 1 <= MaxThreads
    BY <1>3, <1>4
  <2> HIDE DEF b
  <2>2. /\ IsFiniteSet(b \cup {x})
        /\ Cardinality(b \cup {x}) = IF x \in b THEN Cardinality(b) ELSE Cardinality(b) + 1
    BY <2>1, FS_AddElement
  <2> QED
    BY <2>1, <2>2 DEF b
<1> QED
  BY <1>1, <1>2, <1>3, <1>4

\* What the UI thread does to the rest of the state is left alone by the pool.
LEMMA UiKept ==
  ASSUME IInv, UiUnchanged
  PROVE  /\ Settings' /\ (ReadyMeansCurrent)'
         /\ \A x : Known(x) => Known(x)'
         /\ UNCHANGED <<token, timer, phase, pending, running>>
<1>1. /\ UNCHANGED <<phase, token, pending, timer, running, dialog, shown, aside, sessions>>
      /\ UNCHANGED <<mode, files, drives, selected, dry>>
  BY DEF UiUnchanged, view
<1>2. Targets' = Targets
  BY <1>1 DEF Targets
<1> QED
  BY <1>1, <1>2 DEF IInv, Settings, ReadyMeansCurrent, Known, Fits

\* Workers on threads answer nothing that was not asked for.
LEMMA ThreadsKeepIInv ==
  ASSUME IInv, Threads
  PROVE  IInv' /\ (NoAnswer => NoAnswer')
<1>1. ASSUME StartWorker PROVE IInv' /\ (NoAnswer => NoAnswer')
  <2>1. /\ waiting # <<>> /\ waiting' = Tail(waiting) /\ active' = active \cup {Head(waiting)}
        /\ UNCHANGED events /\ UiUnchanged /\ Cardinality(active) < MaxThreads
    BY <1>1 DEF StartWorker
  <2>2. /\ waiting' \in Seq(WorkersOfAnyKind) /\ Head(waiting) \in WorkersOfAnyKind
        /\ Range(waiting) = Range(waiting') \cup {Head(waiting)}
    BY <2>1, Taking DEF IInv, Pool
  <2>3. IsFiniteSet(active') /\ Cardinality(active') <= MaxThreads
    BY <2>1, ThreadsInUse DEF IInv, Pool
  <2>4. Workers' = Workers
    BY <2>1, <2>2 DEF Workers
  <2>5. Pool'
    BY <2>1, <2>2, <2>3, <2>4, UiKept DEF IInv, Pool
  <2>6. /\ NoAnswer => NoAnswer'
        /\ OneAnswer => OneAnswer'
        /\ NoSession => NoSession'
        /\ OneOpenSession => OneOpenSession'
    BY <2>1, Starting, UiKept DEF IInv, Pool, NoAnswer, OneAnswer, NoSession, OneOpenSession
  <2> QED
    BY <2>1, <2>5, <2>6, UiKept DEF IInv, Preflights, Sessions
<1>2. ASSUME NEW w \in active, PreflightEmits(w) PROVE IInv' /\ (NoAnswer => NoAnswer')
  <2> DEFINE e == PreflightReady(w)
  <2>1. /\ w.kind = "preflight" /\ events' = Append(events, e) /\ active' = active \ {w}
        /\ UNCHANGED waiting /\ UiUnchanged
    BY <1>2 DEF PreflightEmits
  <2>2. /\ w \in Workers /\ w \in WorkersOfAnyKind /\ w.token \in Nat /\ w.request \in Request
        /\ Known(w)
    BY <2>1, PoolTypes DEF IInv, Pool, Workers
  <2>3. /\ e \in PreflightEvents /\ e.kind = "preflight" /\ e.token = w.token /\ e.request = w.request
    BY <2>2 DEF PreflightReady, PreflightEvents
  <2> HIDE DEF e
  <2>4. /\ e \in EventsOfAnyKind /\ e \notin TerminalEvents /\ w \notin OpenSessions
        /\ w \in Asked(token) <=> e \in Answers(token)
    BY <2>1, <2>2, <2>3 DEF EventsOfAnyKind, TerminalEvents, OpenSessions, Asked, Answers
  <2>5. Pool'
    <3>1. Known(e)
      BY <2>1, <2>2, <2>3 DEF Known, Fits
    <3>2. events' \in Seq(EventsOfAnyKind) /\ Range(events') = Range(events) \cup {e}
      BY <2>1, <2>4, Appending DEF IInv, Pool
    <3>3. IsFiniteSet(active') /\ Cardinality(active') <= MaxThreads
      BY <2>1, ThreadsInUse DEF IInv, Pool
    <3>4. Workers' \subseteq Workers
      BY <2>1 DEF Workers
    <3> QED
      BY <2>1, <3>1, <3>2, <3>3, <3>4, UiKept DEF IInv, Pool
  <2>6. /\ NoAnswer => NoAnswer'
        /\ OneAnswer => OneAnswer'
    <3>1. active' \cap Asked(token) = (active \cap Asked(token)) \ {w}
      BY <2>1
    <3> QED
      BY <2>1, <2>4, <3>1, Posting, UiKept DEF IInv, Pool, NoAnswer, OneAnswer
  <2>7. /\ NoSession => NoSession'
        /\ OneOpenSession => OneOpenSession'
    <3>1. active' \cap OpenSessions = (active \cap OpenSessions) \ {w}
      BY <2>1
    <3> QED
      BY <2>1, <2>4, <3>1, Posting DEF IInv, Pool, NoSession, OneOpenSession
  <2> QED
    BY <2>1, <2>5, <2>6, <2>7, UiKept DEF IInv, Preflights, Sessions
<1>3. ASSUME NEW w \in active, NEW rest \in SUBSET {[w EXCEPT !.done = TRUE]},
             NEW kind \in {"completed", "failed"},
             w.kind = "session", ~w.done, events' = Append(events, Terminal(kind)),
             active' = (active \ {w}) \cup rest, UNCHANGED waiting, UiUnchanged
      PROVE  IInv' /\ (NoAnswer => NoAnswer')
  <2> DEFINE e == Terminal(kind)
  <2>1. e \in TerminalEvents /\ e \in EventsOfAnyKind /\ e.kind # "preflight" /\ e \notin Answers(token)
    BY DEF Terminal, TerminalEvents, EventsOfAnyKind, Answers, PreflightEvents
  <2>2. w \in OpenSessions /\ w \notin Asked(token) /\ w \in WorkersOfAnyKind
    BY <1>3 DEF IInv, Pool, OpenSessions, Asked
  <2>3. \A v \in rest : /\ v \in WorkersOfAnyKind /\ v.kind = "session" /\ v.done
                        /\ v \notin OpenSessions /\ v \notin Asked(token)
    BY <1>3, <2>2 DEF OpenSessions, Asked, WorkersOfAnyKind
  <2> HIDE DEF e
  <2>5. Pool'
    <3>2. events' \in Seq(EventsOfAnyKind) /\ Range(events') = Range(events) \cup {e}
      BY <1>3, <2>1, Appending DEF IInv, Pool, e
    <3>3. IsFiniteSet(active') /\ Cardinality(active') <= MaxThreads
      <4>1. CASE rest = {}
        <5>1. active' = active \ {w}
          BY <1>3, <4>1
        <5> QED
          BY <5>1, ThreadsInUse DEF IInv, Pool
      <4>2. CASE rest = {[w EXCEPT !.done = TRUE]}
        BY <1>3, <4>2, ThreadsInUse DEF IInv, Pool
      <4> QED
        BY <4>1, <4>2
    <3>4. Workers' \subseteq Workers \cup rest
      BY <1>3 DEF Workers
    <3>5. \A x \in (Workers \cup Range(events))' : Known(x)'
      BY <2>1, <2>3, <3>2, <3>4, <1>3, UiKept DEF IInv, Pool, Known
    <3> QED
      BY <1>3, <2>3, <3>2, <3>3, <3>4, <3>5 DEF IInv, Pool, Workers
  <2>6. /\ NoAnswer => NoAnswer'
        /\ OneAnswer => OneAnswer'
    <3>1. active' \cap Asked(token) = (active \cap Asked(token)) \ {w}
      BY <1>3, <2>3
    <3> QED
      BY <1>3, <2>1, <2>2, <3>1, Posting, UiKept DEF IInv, Pool, NoAnswer, OneAnswer, e
  <2>7. /\ NoSession => NoSession'
        /\ OneOpenSession => OneOpenSession'
    <3>1. active' \cap OpenSessions = (active \cap OpenSessions) \ {w}
      BY <1>3, <2>3
    <3> QED
      BY <1>3, <2>1, <2>2, <3>1, Posting DEF IInv, Pool, NoSession, OneOpenSession, e
  <2> QED
    BY <1>3, <2>5, <2>6, <2>7, UiKept DEF IInv, Preflights, Sessions
<1>4. ASSUME NEW w \in active, SessionReturns(w) PROVE IInv' /\ (NoAnswer => NoAnswer')
  <2>1. /\ w.done /\ active' = active \ {w} /\ UNCHANGED <<waiting, events>> /\ UiUnchanged
    BY <1>4 DEF SessionReturns
  <2>2. w \notin OpenSessions /\ w \notin Asked(token)
    BY <2>1 DEF IInv, Pool, Workers, OpenSessions, Asked
  <2>3. IsFiniteSet(active') /\ Cardinality(active') <= MaxThreads
    BY <2>1, ThreadsInUse DEF IInv, Pool
  <2>4. Workers' \subseteq Workers
    BY <2>1 DEF Workers
  <2>5. Pool'
    BY <2>1, <2>3, <2>4, UiKept DEF IInv, Pool
  <2>6. /\ active' \cap OpenSessions = active \cap OpenSessions
        /\ active' \cap Asked(token) = active \cap Asked(token)
    BY <2>1, <2>2
  <2>7. /\ NoAnswer => NoAnswer'
        /\ OneAnswer => OneAnswer'
        /\ NoSession => NoSession'
        /\ OneOpenSession => OneOpenSession'
    BY <2>1, <2>2, <2>6, UiKept DEF NoAnswer, OneAnswer, NoSession, OneOpenSession, None, One
  <2> QED
    BY <2>1, <2>5, <2>7, UiKept DEF IInv, Preflights, Sessions
<1>5. ASSUME NEW w \in active, SessionCompletes(w) PROVE IInv' /\ (NoAnswer => NoAnswer')
  BY <1>3, <1>5 DEF SessionCompletes
<1>6. ASSUME NEW w \in active, SessionFails(w) PROVE IInv' /\ (NoAnswer => NoAnswer')
  <2>1. active' = (active \ {w}) \cup {}
    BY <1>6 DEF SessionFails
  <2> QED
    BY <1>3, <1>6, <2>1 DEF SessionFails
<1> QED
  BY <1>1, <1>2, <1>4, <1>5, <1>6 DEF Threads

\* A handler takes the first of the posted events.
LEMMA TakingAnEvent ==
  ASSUME IInv, HandlePreflight \/ HandleCompleted \/ HandleFailed
  PROVE  /\ Event \in EventsOfAnyKind /\ Event \in Range(events)
         /\ events' \in Seq(EventsOfAnyKind) /\ Range(events') \subseteq Range(events)
         /\ \A W, E : /\ None(waiting, active, events, W, E)
                           => Event \notin E /\ None(waiting, active, events', W, E)
                      /\ One(waiting, active, events, W, E) /\ Event \notin E
                           => One(waiting, active, events', W, E)
                      /\ One(waiting, active, events, W, E) /\ Event \in E
                           => None(waiting, active, events', W, E)
<1>1. /\ events # <<>> /\ events' = Tail(events) /\ Event = Head(events)
      /\ events \in Seq(EventsOfAnyKind)
  BY DEF HandlePreflight, HandleCompleted, HandleFailed, Handles, Event, IInv, Pool
<1>2. /\ Event \in EventsOfAnyKind /\ Event \in Range(events)
      /\ events' \in Seq(EventsOfAnyKind) /\ Range(events') \subseteq Range(events)
  BY <1>1, Taking
<1>3. ASSUME NEW W, NEW E
      PROVE  /\ None(waiting, active, events, W, E)
                  => Event \notin E /\ None(waiting, active, events', W, E)
             /\ One(waiting, active, events, W, E) /\ Event \notin E
                  => One(waiting, active, events', W, E)
             /\ One(waiting, active, events, W, E) /\ Event \in E
                  => None(waiting, active, events', W, E)
  BY <1>1, Handling
<1> QED
  BY <1>2, <1>3

LEMMA HandlersKeepIInv ==
  ASSUME IInv, Handlers
  PROVE  IInv'
<1>1. ASSUME DebounceExpires PROVE IInv'
  <2>1. None(waiting, active, events, Asked(token), Answers(token)) /\ phase \in AppPhase \ {"IDLE"}
    BY <1>1 DEF DebounceExpires, IInv, Preflights, NoAnswer, Settings
  <2>2. token \in Nat /\ token >= token /\ pending \in BOOLEAN
    BY DEF IInv, Settings
  <2> QED
    BY <1>1, <2>1, <2>2, DispatchKeepsIInv DEF DebounceExpires, IInv
<1>e. ASSUME HandlePreflight \/ HandleCompleted \/ HandleFailed
      PROVE  /\ Event \in EventsOfAnyKind /\ Event \in Range(events)
             /\ events' \in Seq(EventsOfAnyKind) /\ Range(events') \subseteq Range(events)
             /\ \A W, E : /\ None(waiting, active, events, W, E)
                               => Event \notin E /\ None(waiting, active, events', W, E)
                          /\ One(waiting, active, events, W, E) /\ Event \notin E
                               => One(waiting, active, events', W, E)
                          /\ One(waiting, active, events, W, E) /\ Event \in E
                               => None(waiting, active, events', W, E)
  BY <1>e, TakingAnEvent
<1>2. ASSUME HandlePreflight PROVE IInv'
  <2>1. /\ Event \in PreflightEvents /\ Event \notin TerminalEvents /\ Known(Event) /\ Event.kind = "preflight"
        /\ Event.request \in Request
    BY <1>2, <1>e, PoolTypes DEF HandlePreflight, Handles, EventsOfAnyKind, TerminalEvents, IInv, Pool
  <2>2. UNCHANGED <<mode, files, dry, token, pending, timer, running, dialog, waiting, active, aside, sessions>>
    BY <1>2 DEF HandlePreflight, pool
  <2>3. Event \in Answers(token) <=> Event.token = token
    BY <2>1 DEF Answers
  <2>4. Sessions'
    BY <1>2, <1>e, <2>1, <2>2 DEF IInv, Sessions, NoSession, OneOpenSession
  <2>5. CASE Event.token # token
    <3>1. UNCHANGED <<drives, selected, shown, phase>> /\ Targets' = Targets
      BY <1>2, <2>2, <2>5 DEF HandlePreflight, Awaited, Targets
    <3>2. Settings' /\ (ReadyMeansCurrent)'
      BY <2>2, <3>1 DEF IInv, Settings, ReadyMeansCurrent
    <3>3. \A x : Known(x) => Known(x)'
      BY <2>2, <3>1 DEF Known, Fits
    <3>4. Pool'
      BY <1>2, <1>e, <2>2, <3>3 DEF HandlePreflight, IInv, Pool, Workers
    <3>5. (NoAnswer => NoAnswer') /\ (OneAnswer => OneAnswer')
      BY <1>2, <1>e, <2>2, <2>3, <2>5 DEF NoAnswer, OneAnswer
    <3> QED
      BY <2>2, <2>4, <3>1, <3>2, <3>4, <3>5 DEF IInv, Preflights
  <2>6. CASE Event.token = token
    <3>1. PICK result \in PreflightResults(Event.request) :
            /\ IF result.inventory.held THEN SetDrives(result.inventory.disks)
                                        ELSE UNCHANGED <<drives, selected>>
            /\ shown' = Event.request
            /\ phase' = IF result.errors THEN "ERROR"
                        ELSE IF running THEN "RUNNING" ELSE "IDLE"
      BY <1>2, <2>6 DEF HandlePreflight, Awaited
    <3>2. /\ result.inventory \in Snapshots /\ result.inventory.disks \subseteq Disks
          /\ ~result.errors => ~Errors(Event.request, result.inventory)
      <4>1. ASSUME NEW i \in Snapshots PROVE i.disks \subseteq Disks
        <5>1. i = NoSnapshot \/ i \in [held : {TRUE}, disks : SUBSET Disks]
          BY DEF Snapshots
        <5>2. NoSnapshot.disks = {}
          BY DEF NoSnapshot
        <5> QED
          BY <5>1, <5>2
      <4>2. result.inventory \in Snapshots /\ (~result.errors => ~Errors(Event.request, result.inventory))
        <5>1. CASE \E s \in Snapshots :
                     result = [inventory |-> s, errors |-> Errors(Event.request, s)]
          <6>1. PICK s \in Snapshots :
                  result = [inventory |-> s, errors |-> Errors(Event.request, s)]
            BY <5>1
          <6>2. result.inventory = s /\ result.errors = Errors(Event.request, s)
            BY <6>1
          <6> QED
            BY <6>1, <6>2
        <5>2. CASE result = [inventory |-> NoSnapshot, errors |-> TRUE]
          BY <5>2 DEF Snapshots
        <5> QED
          BY <3>1, <5>1, <5>2 DEF PreflightResults
      <4> QED
        BY <4>1, <4>2
    <3>3. Settings'
      <4>1. drives' \subseteq Disks /\ selected' \subseteq drives'
        BY <3>1, <3>2 DEF SetDrives, IInv, Settings
      <4>2. phase' \in AppPhase /\ shown' \in Request
        BY <2>1, <3>1 DEF AppPhase
      <4> QED
        BY <2>2, <4>1, <4>2 DEF IInv, Settings
    <3>4. NoAnswer' /\ ~timer
      <4>1. OneAnswer /\ ~timer
        BY <1>2, <1>e, <2>3, <2>6 DEF IInv, Preflights, NoAnswer
      <4> QED
        BY <1>2, <1>e, <2>2, <2>3, <2>6, <4>1 DEF NoAnswer, OneAnswer
    <3>5. Pool'
      <4>1. ASSUME NEW x \in (Workers \cup Range(events))' PROVE Known(x)'
        <5>1. x \in Workers \cup Range(events) /\ (x.kind = "preflight" => x.token <= token)
          BY <1>2, <1>e, <2>2 DEF HandlePreflight, IInv, Pool, Workers, Known
        <5>2. CASE x \in Workers'
          BY <2>2, <3>4, <5>1, <5>2, PoolTypes
          DEF NoAnswer, None, Lacks, Asked, Known, Fits, Workers, Range, IInv
        <5>3. CASE x \in Range(events')
          BY <2>2, <3>4, <5>1, <5>3, <1>2, <1>e
          DEF NoAnswer, None, Lacks, Answers, EventsOfAnyKind, TerminalEvents, Known, Fits, Range, HandlePreflight
        <5> QED
          BY <5>2, <5>3
      <4> QED
        BY <1>2, <1>e, <2>2, <4>1 DEF HandlePreflight, IInv, Pool, Workers
    <3>6. (ReadyMeansCurrent)'
      <4> SUFFICES ASSUME phase' = "IDLE"
                   PROVE  /\ shown'.mode = mode' /\ shown'.dry = dry'
                          /\ shown'.targets = Targets' \/ (aside' /\ mode' = "DRIVE_SANITIZE")
        BY DEF ReadyMeansCurrent
      <4>1. ~Errors(Event.request, result.inventory)
        BY <3>1, <3>2
      <4>2. /\ Event.request.mode = mode /\ Event.request.dry = dry
            /\ Event.request.targets = Targets \/ (aside /\ mode = "DRIVE_SANITIZE")
        BY <2>1, <2>6 DEF Known, Fits
      <4>3. CASE mode = "DRIVE_SANITIZE"
        <5>1. result.inventory.held /\ Event.request.targets \subseteq result.inventory.disks
          BY <4>1, <4>2, <4>3 DEF Errors
        <5>2. selected' = selected \cap result.inventory.disks
          BY <3>1, <5>1 DEF SetDrives
        <5> QED
          BY <2>2, <3>1, <4>2, <4>3, <5>1, <5>2 DEF Targets
      <4>4. CASE mode # "DRIVE_SANITIZE"
        BY <2>2, <3>1, <4>2, <4>4 DEF Targets, IInv, Settings, OperationMode
      <4> QED
        BY <4>3, <4>4
    <3>7. Preflights'
      BY <2>2, <3>1, <3>4 DEF IInv, Preflights
    <3> QED
      BY <2>4, <3>3, <3>5, <3>6, <3>7 DEF IInv
  <2> QED
    BY <2>5, <2>6
<1>3. ASSUME HandleCompleted \/ HandleFailed PROVE IInv'
  <2>1. /\ Event \in TerminalEvents /\ Event \notin Answers(token)
        /\ UNCHANGED <<mode, files, drives, selected, dry, shown, waiting, active, aside, sessions>>
        /\ ~running' /\ Targets' = Targets
    BY <1>3, <1>e DEF HandleCompleted, HandleFailed, Handles, SchedulePreflight, EventsOfAnyKind,
                      PreflightEvents, TerminalEvents, Answers, view, pool, Targets
  <2>2. NoSession'
    BY <1>3, <1>e, <2>1 DEF IInv, Sessions, NoSession, OneOpenSession
  <2>3. CASE HandleCompleted
    <3>1. /\ token' = token + 1 /\ timer' = TRUE /\ phase' = "PREFLIGHT" /\ pending' = TRUE
          /\ UNCHANGED dialog
      BY <2>3 DEF HandleCompleted, SchedulePreflight, Pending, StartTimer
    <3>2. Settings'
      <4>1. running' = FALSE
        BY <2>3 DEF HandleCompleted
      <4>2. token' \in Nat \ {0} /\ pending' \in BOOLEAN /\ timer' \in BOOLEAN /\ running' \in BOOLEAN
        <5>1. token' \in Nat \ {0}
          BY <3>1 DEF IInv, Settings
        <5> QED
          BY <3>1, <4>1, <5>1
      <4> QED
        BY <2>1, <3>1, <4>1, <4>2 DEF IInv, Settings, AppPhase
    <3>3. ASSUME NEW x \in (Workers \cup Range(events))' PROVE Known(x)'
      <4>1. x \in Workers \cup Range(events)
        BY <1>e, <2>1, <2>3 DEF HandleCompleted, Workers
      <4> QED
        BY <3>1, <4>1, PoolTypes DEF IInv, Settings, Pool, Known, Fits
    <3>4. Pool'
      BY <1>e, <2>1, <2>3, <3>3 DEF HandleCompleted, IInv, Pool, Workers
    <3>5. NoAnswer'
      <4>1. None(waiting, active, events, Asked(token + 1), Answers(token + 1))
        BY NothingForLaterRequests DEF IInv, Settings
      <4> QED
        BY <1>e, <2>1, <2>3, <3>1, <4>1 DEF NoAnswer
    <3> QED
      BY <2>1, <2>2, <3>1, <3>2, <3>4, <3>5 DEF IInv, Preflights, Sessions, ReadyMeansCurrent
  <2>4. CASE HandleFailed
    <3>1. /\ UNCHANGED <<token, timer, pending>> /\ phase' = "ERROR" /\ running' = FALSE
          /\ dialog' = [kind |-> "message", targets |-> {}]
      BY <2>4 DEF HandleFailed
    <3>2. Settings'
      BY <2>1, <3>1 DEF IInv, Settings, AppPhase
    <3>3. \A x : Known(x) => Known(x)'
      BY <2>1, <3>1 DEF Known, Fits
    <3>4. Pool'
      BY <1>e, <2>1, <2>4, <3>3 DEF HandleFailed, IInv, Pool, Workers
    <3>5. (NoAnswer => NoAnswer') /\ (OneAnswer => OneAnswer')
      BY <1>e, <2>1, <2>4, <3>1 DEF NoAnswer, OneAnswer
    <3> QED
      BY <2>1, <2>2, <3>1, <3>2, <3>4, <3>5 DEF IInv, Preflights, Sessions, ReadyMeansCurrent
  <2> QED
    BY <1>3, <2>3, <2>4
<1> QED
  BY <1>1, <1>2, <1>3 DEF Handlers

LEMMA UserKeepsIInv ==
  ASSUME IInv, User
  PROVE  IInv'
<1>1. ASSUME SetMode \/ ToggleDryRun \/ AddFiles \/ RemoveSelectedFiles \/ ClearSelection \/ ToggleClickedDrive
      PROVE  IInv'
  <2>1. SchedulePreflight(FALSE) /\ Unchanged /\ drives' = drives
    BY <1>1 DEF SetMode, ToggleDryRun, AddFiles, RemoveSelectedFiles, ClearSelection, ToggleClickedDrive
  <2>2. mode' \in OperationMode /\ dry' \in BOOLEAN /\ files' \subseteq Files /\ selected' \subseteq drives
    <3>1. CASE SetMode
      BY <3>1 DEF SetMode, IInv, Settings
    <3>2. CASE ToggleDryRun
      BY <3>2 DEF ToggleDryRun, IInv, Settings
    <3>3. CASE AddFiles \/ RemoveSelectedFiles
      BY <3>3 DEF AddFiles, RemoveSelectedFiles, AddPaths, RemoveRows, IInv, Settings
    <3>4. CASE ClearSelection
      BY <3>4 DEF ClearSelection, IInv, Settings
    <3>5. CASE ToggleClickedDrive
      BY <3>5 DEF ToggleClickedDrive, IInv, Settings
    <3> QED
      BY <1>1, <3>1, <3>2, <3>3, <3>4, <3>5
  <2> QED
    BY <2>1, <2>2, SchedulingKeepsIInv
<1>2. ASSUME DelegateSetsData PROVE IInv'
  <2>1. /\ UNCHANGED <<phase, mode, files, drives, dry, token, pending, timer, waiting, active,
                       running, dialog, shown, events, sessions>>
        /\ aside' = TRUE /\ selected' \subseteq drives
    BY <1>2 DEF DelegateSetsData, Unchanged, pool, IInv, Settings
  <2>2. Settings'
    BY <2>1 DEF IInv, Settings
  <2>3. \A x : Known(x) => Known(x)'
    BY <2>1 DEF IInv, Settings, Known, Fits, Targets, OperationMode
  <2>4. Pool'
    BY <2>1, <2>3 DEF IInv, Pool, Workers
  <2>5. (ReadyMeansCurrent)'
    BY <2>1 DEF IInv, Settings, ReadyMeansCurrent, Targets, OperationMode
  <2> QED
    BY <2>1, <2>2, <2>4, <2>5 DEF IInv, Preflights, Sessions, NoAnswer, OneAnswer, NoSession, OneOpenSession
<1>3. ASSUME RefreshDrives PROVE IInv'
  <2>1. /\ DispatchPreflight(token + 1, TRUE) /\ token' = token + 1 /\ timer' = FALSE
        /\ phase' = "PREFLIGHT" /\ UNCHANGED <<view, running, dialog, shown, events, sessions>>
    BY <1>3 DEF RefreshDrives, SchedulePreflightNow, Unchanged
  <2>2. token + 1 \in Nat /\ token + 1 >= token /\ token + 1 > token
    BY DEF IInv, Settings
  <2>3. None(waiting, active, events, Asked(token + 1), Answers(token + 1))
    BY <2>2, NothingForLaterRequests DEF IInv
  <2>4. phase' \in AppPhase \ {"IDLE"}
    BY <2>1 DEF AppPhase
  <2> QED
    BY <2>1, <2>2, <2>3, <2>4, DispatchKeepsIInv DEF IInv
<1>t. Targets \subseteq Files \cup Disks /\ dialog.targets \subseteq Files \cup Disks
  BY DEF IInv, Settings, Targets
<1>4. ASSUME StartExecution PROVE IInv'
  <2>1. CASE dry
    <3>1. Begin(Targets) /\ UNCHANGED dialog /\ ~running /\ sessions < MaxSessions /\ dialog.kind = "none"
      BY <1>4, <2>1 DEF StartExecution, MayStart, NoDialog
    <3> QED
      BY <1>t, <3>1, BeginKeepsIInv DEF IInv, Settings
  <2>2. CASE ~dry
    <3>1. /\ UNCHANGED <<phase, mode, files, drives, selected, dry, token, pending, timer, running,
                         shown, waiting, active, events, aside, sessions>>
          /\ dialog' = [kind |-> "question", targets |-> Targets]
          /\ ~running /\ sessions < MaxSessions
      BY <1>4, <2>2 DEF StartExecution, MayStart, view, pool
    <3>2. Settings'
      BY <1>t, <3>1 DEF IInv, Settings
    <3>3. (ReadyMeansCurrent)' /\ \A x : Known(x) => Known(x)'
      BY <3>1 DEF IInv, ReadyMeansCurrent, Known, Fits, Targets
    <3>4. Pool'
      BY <3>1, <3>3 DEF IInv, Pool, Workers
    <3> QED
      BY <3>1, <3>2, <3>3, <3>4
      DEF IInv, Preflights, Sessions, NoAnswer, OneAnswer, NoSession, OneOpenSession
  <2> QED
    BY <2>1, <2>2
<1>5. ASSUME Answer PROVE IInv'
  <2>1. /\ dialog' = [kind |-> "none", targets |-> {}]
        /\ dialog' \in [kind : {"none", "question", "message"}, targets : SUBSET (Files \cup Disks)]
        /\ dialog'.kind # "question"
    BY <1>5 DEF Answer
  <2>2. CASE dialog.kind = "question" /\ Begin(dialog.targets)
    BY <1>t, <2>1, <2>2, BeginKeepsIInv DEF IInv, Settings
  <2>3. CASE UNCHANGED <<phase, view, token, pending, timer, running, shown, pool, events, aside, sessions>>
    <3>1. UNCHANGED <<phase, mode, files, drives, selected, dry, token, pending, timer, running,
                      shown, waiting, active, events, aside, sessions>>
      BY <2>3 DEF view, pool
    <3>2. Settings'
      BY <2>1, <3>1 DEF IInv, Settings
    <3>3. (ReadyMeansCurrent)' /\ \A x : Known(x) => Known(x)'
      BY <3>1 DEF IInv, ReadyMeansCurrent, Known, Fits, Targets
    <3>4. Pool'
      BY <3>1, <3>3 DEF IInv, Pool, Workers
    <3> QED
      BY <3>1, <3>2, <3>3, <3>4
      DEF IInv, Preflights, Sessions, NoAnswer, OneAnswer, NoSession, OneOpenSession
  <2> QED
    BY <1>5, <2>2, <2>3 DEF Answer
<1> QED
  BY <1>1, <1>2, <1>3, <1>4, <1>5 DEF User

LEMMA StepKeepsIInv == IInv /\ [Next]_vars => IInv'
<1> SUFFICES ASSUME IInv, [Next]_vars PROVE IInv'
  OBVIOUS
<1>1. CASE UNCHANGED vars
  <2>1. UNCHANGED <<phase, mode, files, drives, selected, dry, token, pending, timer, running, dialog,
                    shown, waiting, active, events, aside, sessions>>
    BY <1>1 DEF vars, view, pool
  <2>2. Settings' /\ (ReadyMeansCurrent)' /\ \A x : Known(x) => Known(x)'
    BY <2>1 DEF IInv, Settings, ReadyMeansCurrent, Known, Fits, Targets
  <2>3. Pool'
    BY <2>1, <2>2 DEF IInv, Pool, Workers
  <2> QED
    BY <2>1, <2>2, <2>3
    DEF IInv, Preflights, Sessions, NoAnswer, OneAnswer, NoSession, OneOpenSession
<1> QED
  BY <1>1, UserKeepsIInv, ThreadsKeepIInv, HandlersKeepIInv DEF Next

\* The invariant holds in every state of every behaviour.
THEOREM SpecKeepsIInv == Spec => []IInv
<1> QED
  BY InitEstablishesIInv, StepKeepsIInv, PTL DEF Spec

-----------------------------------------------------------------------------
(* What follows from it.                                                   *)

\* Type correctness: every variable has its type, no preflight worker has a
\* token from the future, and no more workers run than the pool has threads.
THEOREM TypeCorrect == Spec => []TypeOK
<1>1. IInv => TypeOK
  <2> SUFFICES ASSUME IInv PROVE TypeOK
    OBVIOUS
  <2>1. Workers \subseteq WorkersOfAnyKind /\ \A w \in Workers : w.kind = "preflight" => w.token <= token
    BY PoolTypes DEF IInv, Pool, Known
  <2>2. {pending, timer, running, aside} \subseteq BOOLEAN /\ selected \subseteq Disks
    BY DEF IInv, Settings
  <2> QED
    BY <2>1, <2>2 DEF IInv, Settings, Pool, TypeOK
<1> QED
  BY <1>1, SpecKeepsIInv, PTL

\* The drive list shows every selected disk, whatever snapshots replace it.
THEOREM SelectedDisksAreShown == Spec => []SelectionIsVisible
<1>1. IInv => SelectionIsVisible
  BY DEF IInv, Settings, SelectionIsVisible
<1> QED
  BY <1>1, SpecKeepsIInv, PTL

\* The window never waits for a preflight that nobody is going to deliver.
THEOREM AnswerIsOnItsWay == Spec => []PreflightIsUnderWay
<1>1. IInv => PreflightIsUnderWay
  <2> SUFFICES ASSUME IInv, OneAnswer
               PROVE  \E w \in Workers \cup Range(events) : w.kind = "preflight" /\ w.token = token
    BY DEF IInv, Preflights, PreflightIsUnderWay
  <2>1. CASE HoldsOne(waiting, Asked(token))
    BY <2>1 DEF HoldsOne, Asked, Workers, Range
  <2>2. CASE \E w \in active : active \cap Asked(token) = {w}
    BY <2>2 DEF Asked, Workers
  <2>3. CASE HoldsOne(events, Answers(token))
    BY <2>3 DEF HoldsOne, Answers, PreflightEvents, Range
  <2> QED
    BY <2>1, <2>2, <2>3 DEF OneAnswer, One
<1> QED
  BY <1>1, SpecKeepsIInv, PTL

\* "Preflight is ready" is about what is selected now, in whatever order the
\* answers of any number of overlapping workers arrive.
THEOREM ReadinessIsCurrent == Spec => []ReadyMeansCurrent
<1>1. IInv => ReadyMeansCurrent
  BY DEF IInv
<1> QED
  BY <1>1, SpecKeepsIInv, PTL

\* The open session is a worker in the queue or on a thread, or its event.
LEMMA SessionsAreOne == IInv => OneSession
<1> SUFFICES ASSUME IInv PROVE OneSession
  OBVIOUS
<1>t. Workers \subseteq WorkersOfAnyKind /\ waiting \in Seq(WorkersOfAnyKind) /\ events \in Seq(EventsOfAnyKind)
  BY PoolTypes DEF IInv, Pool
<1>1. /\ Undecided = {w \in Workers : w \in OpenSessions}
      /\ Posted = {i \in DOMAIN events : events[i] \in TerminalEvents}
  <2>1. \A w \in Workers : w \in OpenSessions <=> w.kind = "session" /\ ~w.done
    BY <1>t DEF OpenSessions
  <2>2. \A e \in EventsOfAnyKind : e \in TerminalEvents <=> e.kind \in {"completed", "failed"}
    BY DEF EventsOfAnyKind, TerminalEvents, PreflightEvents
  <2>3. \A i \in DOMAIN events : events[i] \in EventsOfAnyKind
    BY <1>t
  <2>4. Undecided = {w \in Workers : w \in OpenSessions}
    BY <2>1 DEF Undecided
  <2> QED
    BY <2>2, <2>3, <2>4 DEF Posted
<1>2. /\ Lacks(waiting, OpenSessions) /\ active \cap OpenSessions = {} => Undecided = {}
      /\ Lacks(events, TerminalEvents) => Posted = {}
  BY <1>1 DEF Lacks, Workers, Range
<1>3. ASSUME Lacks(waiting, OpenSessions), NEW w \in active, active \cap OpenSessions = {w}
      PROVE  Undecided = {w} /\ w \in Workers
  BY <1>1, <1>3 DEF Lacks, Workers, Range
<1>4. ASSUME HoldsOne(waiting, OpenSessions), active \cap OpenSessions = {}
      PROVE  \E w \in Workers : Undecided = {w}
  <2>1. PICK i \in DOMAIN waiting :
          waiting[i] \in OpenSessions /\ \A j \in DOMAIN waiting : waiting[j] \in OpenSessions => j = i
    BY <1>4 DEF HoldsOne
  <2>2. waiting[i] \in Workers /\ Undecided = {waiting[i]}
    BY <1>1, <1>4, <2>1 DEF Workers, Range
  <2> QED
    BY <2>2
<1>5. ASSUME HoldsOne(events, TerminalEvents)
      PROVE  \E i \in DOMAIN events : Posted = {i}
  BY <1>1, <1>5 DEF HoldsOne
<1>6. CASE ~running
  BY <1>2, <1>6 DEF IInv, Sessions, NoSession, None, OneSession
<1>7. CASE running
  BY <1>2, <1>3, <1>4, <1>5, <1>7 DEF IInv, Sessions, OneOpenSession, One, OneSession
<1> QED
  BY <1>6, <1>7

\* There is one session at a time, and _session_running stands for it.
THEOREM SessionsExclude == Spec => []OneSession
<1>1. IInv => OneSession
  BY SessionsAreOne
<1> QED
  BY <1>1, SpecKeepsIInv, PTL

\* The refresh that a session's end asks for is carried to the queue by
\* whichever dispatch comes first.
THEOREM RefreshIsCarried == Spec => RefreshIsNotForgotten
<1> DEFINE Carried == pending => \/ pending' /\ timer'
                                 \/ \E w \in Range(waiting') : w.force /\ w.token = token'
<1>1. IInv /\ [Next]_vars => [Carried]_vars
  <2> SUFFICES ASSUME IInv, Next, pending PROVE Carried
    OBVIOUS
  <2>1. timer /\ token \in Nat /\ pending \in BOOLEAN
    BY DEF IInv, Preflights, Settings
  <2>2. ASSUME NEW n \in Nat, DispatchPreflight(n, TRUE), token' = n PROVE Carried
    <3> DEFINE new == Preflight(n, CurrentRequest, TRUE)
    <3>1. new \in WorkersOfAnyKind /\ new.force = TRUE /\ new.token = n
      BY NewWorkers DEF IInv, Asked
    <3> HIDE DEF new
    <3>2. new \in Range(waiting')
      <4>1. waiting' = Append(waiting, new)
        BY <2>2 DEF DispatchPreflight, new
      <4> QED
        BY <3>1, <4>1, Appending DEF IInv, Pool
    <3> QED
      BY <2>2, <3>1, <3>2
  <2>3. ASSUME NEW force \in BOOLEAN, SchedulePreflight(force) PROVE Carried
    BY <2>3 DEF SchedulePreflight, Pending, StartTimer
  <2>4. CASE DebounceExpires
    <3>1. DispatchPreflight(token, TRUE) /\ token' = token
      BY <2>1, <2>4 DEF DebounceExpires
    <3> QED
      BY <2>1, <2>2, <3>1
  <2>5. CASE RefreshDrives
    <3>1. DispatchPreflight(token + 1, TRUE) /\ token' = token + 1
      BY <2>5 DEF RefreshDrives, SchedulePreflightNow
    <3>2. token + 1 \in Nat
      BY <2>1
    <3> QED
      BY <2>2, <3>1, <3>2
  <2>6. ASSUME UNCHANGED <<pending, timer>> PROVE Carried
    BY <2>1, <2>6
  <2>7. CASE User
    <3>1. CASE SetMode \/ ToggleDryRun \/ AddFiles \/ RemoveSelectedFiles \/ ClearSelection \/ ToggleClickedDrive
      BY <2>3, <3>1 DEF SetMode, ToggleDryRun, AddFiles, RemoveSelectedFiles, ClearSelection, ToggleClickedDrive
    <3>2. CASE DelegateSetsData \/ StartExecution \/ Answer
      BY <2>6, <3>2 DEF DelegateSetsData, StartExecution, Answer, Begin
    <3> QED
      BY <2>5, <2>7, <3>1, <3>2 DEF User
  <2>8. CASE Threads
    BY <2>6, <2>8 DEF Threads, StartWorker, PreflightEmits, SessionCompletes, SessionReturns,
                      SessionFails, UiUnchanged
  <2>9. CASE Handlers
    BY <2>3, <2>4, <2>6, <2>9 DEF Handlers, HandlePreflight, HandleCompleted, HandleFailed
  <2> QED
    BY <2>7, <2>8, <2>9 DEF Next
<1> QED
  BY <1>1, SpecKeepsIInv, PTL DEF Spec, RefreshIsNotForgotten

-----------------------------------------------------------------------------
(* JInv is inductive: the open question.                                   *)

LEMMA UserKeepsAsking ==
  ASSUME Asking, User
  PROVE  Asking'
<1>1. CASE \/ SetMode \/ ToggleDryRun \/ AddFiles \/ RemoveSelectedFiles \/ ClearSelection
           \/ ToggleClickedDrive \/ DelegateSetsData \/ RefreshDrives
  <2>1. dialog.kind = "none" /\ UNCHANGED dialog
    BY <1>1 DEF SetMode, ToggleDryRun, AddFiles, RemoveSelectedFiles, ClearSelection,
                ToggleClickedDrive, DelegateSetsData, RefreshDrives, UserMay, NoDialog, Unchanged
  <2> QED
    BY <2>1 DEF Asking
<1>2. CASE StartExecution
  <2>1. CASE dry
    BY <1>2, <2>1 DEF StartExecution, NoDialog, Asking
  <2>2. CASE ~dry
    <3>1. /\ dialog' = [kind |-> "question", targets |-> Targets] /\ Targets # {}
          /\ UNCHANGED <<mode, files, selected>>
      BY <1>2, <2>2 DEF StartExecution, MayStart, view
    <3> QED
      BY <3>1 DEF Asking, Targets
  <2> QED
    BY <2>1, <2>2
<1>3. CASE Answer
  BY <1>3 DEF Answer, Asking
<1> QED
  BY <1>1, <1>2, <1>3 DEF User

\* An awaited answer that reports no error fits the selection before it and
\* after it.
LEMMA HandlersKeepAsking ==
  ASSUME IInv, IInv', Asking, Handlers
  PROVE  Asking'
<1> SUFFICES ASSUME dialog'.kind = "question"
             PROVE  /\ dialog'.targets # {}
                    /\ \/ dialog'.targets = Targets'
                       \/ NoAnswer' /\ ~timer' /\ (phase' = "IDLE" => aside' /\ mode' = "DRIVE_SANITIZE")
  BY DEF Asking
<1>1. ASSUME UNCHANGED dialog
      PROVE  /\ ~running /\ NoSession /\ dialog.targets # {} /\ dialog'.targets = dialog.targets
             /\ \/ dialog.targets = Targets
                \/ NoAnswer /\ ~timer /\ (phase = "IDLE" => aside /\ mode = "DRIVE_SANITIZE")
  BY <1>1 DEF IInv, Settings, Sessions, Asking
<1>2. CASE DebounceExpires
  <2>1. timer /\ UNCHANGED <<mode, files, drives, selected, dry, dialog>> /\ Targets' = Targets
    BY <1>2 DEF DebounceExpires, view, Targets
  <2> QED
    BY <1>1, <2>1
<1>3. CASE HandleCompleted
  <2>1. UNCHANGED dialog /\ Event \in TerminalEvents
    BY <1>3, TakingAnEvent
    DEF HandleCompleted, Handles, EventsOfAnyKind, PreflightEvents, TerminalEvents
  <2>2. Event \notin TerminalEvents
    BY <1>1, <1>3, <2>1, TakingAnEvent DEF NoSession
  <2> QED
    BY <2>1, <2>2
<1>4. CASE HandleFailed
  BY <1>4 DEF HandleFailed
<1>5. CASE HandlePreflight
  <2>1. /\ UNCHANGED <<mode, files, dry, token, timer, dialog, waiting, active, aside>>
        /\ Event \in PreflightEvents /\ Event.kind = "preflight" /\ Known(Event)
    BY <1>5, TakingAnEvent
    DEF HandlePreflight, Handles, EventsOfAnyKind, PreflightEvents, TerminalEvents, IInv, Pool, pool
  <2>2. Event \in Answers(token) <=> Event.token = token
    BY <2>1 DEF Answers
  <2>3. CASE Event.token # token
    <3>1. UNCHANGED <<drives, selected, phase>> /\ Targets' = Targets
      BY <1>5, <2>1, <2>3 DEF HandlePreflight, Awaited, Targets
    <3>2. NoAnswer => NoAnswer'
      BY <1>5, <2>1, TakingAnEvent DEF NoAnswer
    <3> QED
      BY <1>1, <2>1, <3>1, <3>2
  <2>4. CASE Event.token = token
    <3>1. ~NoAnswer /\ OneAnswer
      BY <1>5, <2>2, <2>4, TakingAnEvent DEF NoAnswer, IInv, Preflights
    <3>2. NoAnswer' /\ ~timer'
      BY <1>5, <2>1, <2>2, <2>4, <3>1, TakingAnEvent DEF NoAnswer, OneAnswer, IInv, Preflights
    <3>3. dialog.targets = Targets
      BY <1>1, <2>1, <3>1
    <3>4. ASSUME phase' = "IDLE", ~(aside' /\ mode' = "DRIVE_SANITIZE")
          PROVE  Targets' = Targets
      <4>1. Event.request.targets = Targets
        BY <2>1, <2>4, <3>4 DEF Known, Fits
      <4>2. shown' = Event.request
        BY <1>5, <2>4 DEF HandlePreflight, Awaited
      <4>3. shown'.targets = Targets'
        BY <3>4 DEF IInv, ReadyMeansCurrent
      <4> QED
        BY <4>1, <4>2, <4>3
    <3> QED
      BY <1>1, <2>1, <3>2, <3>3, <3>4
  <2> QED
    BY <2>3, <2>4
<1> QED
  BY <1>2, <1>3, <1>4, <1>5 DEF Handlers

LEMMA StepKeepsAsking == IInv /\ IInv' /\ Asking /\ [Next]_vars => Asking'
<1> SUFFICES ASSUME IInv, IInv', Asking, [Next]_vars PROVE Asking'
  OBVIOUS
<1>1. ASSUME UNCHANGED <<phase, view, token, timer, dialog, aside>>, NoAnswer => NoAnswer'
      PROVE  Asking'
  BY <1>1 DEF Asking, Targets, view
<1>2. CASE UNCHANGED vars
  BY <1>1, <1>2 DEF vars, view, pool, NoAnswer
<1>3. CASE Threads
  <2>1. UiUnchanged
    BY <1>3 DEF Threads, StartWorker, PreflightEmits, SessionCompletes, SessionReturns, SessionFails
  <2> QED
    BY <1>1, <1>3, <2>1, ThreadsKeepIInv DEF UiUnchanged
<1> QED
  BY <1>2, <1>3, UserKeepsAsking, HandlersKeepAsking DEF Next

-----------------------------------------------------------------------------
(* JInv is inductive: the session workers.                                 *)

\* What a step does to the session workers.
Stays == SessionWorkers' = SessionWorkers /\ sessions' = sessions
Begins(new) ==
  /\ ~running /\ new.kind = "session" /\ ~new.done
  /\ new.token = sessions + 1 /\ new.request \in Contract!Arguments
  /\ SessionWorkers' = SessionWorkers \cup {new}
  /\ sessions < MaxSessions /\ sessions' = sessions + 1
Ends(w, rest) ==
  /\ w \in SessionWorkers /\ ~w.done
  /\ rest = {} \/ rest = {[w EXCEPT !.done = TRUE]}
  /\ SessionWorkers' = (SessionWorkers \ {w}) \cup rest /\ sessions' = sessions
Leaves(w) ==
  /\ w \in SessionWorkers /\ w.done
  /\ SessionWorkers' = SessionWorkers \ {w} /\ sessions' = sessions

Moves ==
  /\ \A w \in Range(waiting') : ~w.done
  /\ \/ Stays
     \/ \E new \in WorkersOfAnyKind : Begins(new)
     \/ \E w \in WorkersOfAnyKind : \E rest \in SUBSET {[w EXCEPT !.done = TRUE]} : Ends(w, rest)
     \/ \E w \in WorkersOfAnyKind : Leaves(w)

LEMMA BeginMoves ==
  ASSUME IInv, Numbered, ~running, sessions < MaxSessions,
         NEW targets \in SUBSET (Files \cup Disks), targets # {}, Begin(targets)
  PROVE  Moves
<1> DEFINE request == [CurrentRequest EXCEPT !.targets = targets]
           new == Session(sessions + 1, request)
<1>1. new \in WorkersOfAnyKind
  <2>1. Settings /\ sessions + 1 \in Nat /\ TRUE \in BOOLEAN
    BY DEF IInv, Settings
  <2>2. new \in OpenSessions
    BY <2>1, NewWorkers
  <2> QED
    BY <2>2 DEF OpenSessions
<1>2. request = [mode |-> mode, targets |-> targets, dry |-> dry]
  BY DEF CurrentRequest
<1>3. request \in Contract!Arguments
  BY <1>2 DEF IInv, Settings, Contract!Arguments, Contract!OperationMode, OperationMode
<1>4. new.kind = "session" /\ ~new.done /\ new.token = sessions + 1 /\ new.request \in Contract!Arguments
  BY <1>3 DEF Session
<1>5. waiting' = Append(waiting, new) /\ UNCHANGED active /\ sessions' = sessions + 1
  BY DEF Begin
<1> HIDE DEF new
<1>6. Range(waiting') = Range(waiting) \cup {new}
  BY <1>1, <1>5, Appending DEF IInv, Pool
<1>7. SessionWorkers' = SessionWorkers \cup {new}
  BY <1>4, <1>5, <1>6 DEF SessionWorkers, Workers
<1>8. \A w \in Range(waiting') : ~w.done
  BY <1>4, <1>6 DEF Numbered
<1> QED
  BY <1>1, <1>4, <1>5, <1>7, <1>8 DEF Moves, Begins

LEMMA DispatchMoves ==
  ASSUME IInv, Numbered, NEW n \in Nat, NEW force \in BOOLEAN,
         DispatchPreflight(n, force), UNCHANGED sessions
  PROVE  Moves
<1> DEFINE new == Preflight(n, CurrentRequest, force)
<1>1. new \in WorkersOfAnyKind /\ new.kind = "preflight" /\ ~new.done
  BY NewWorkers DEF IInv, Asked
<1>2. waiting' = Append(waiting, new) /\ UNCHANGED active
  BY DEF DispatchPreflight
<1> HIDE DEF new
<1>3. Range(waiting') = Range(waiting) \cup {new}
  BY <1>1, <1>2, Appending DEF IInv, Pool
<1>4. SessionWorkers' = SessionWorkers
  BY <1>1, <1>2, <1>3 DEF SessionWorkers, Workers
<1>5. \A w \in Range(waiting') : ~w.done
  BY <1>1, <1>3 DEF Numbered
<1> QED
  BY <1>4, <1>5 DEF Moves, Stays

LEMMA ThreadsMove ==
  ASSUME IInv, Numbered, Threads
  PROVE  Moves
<1>q. \A w \in Range(waiting) : ~w.done
  BY DEF Numbered
<1>w. active \subseteq WorkersOfAnyKind
  BY DEF IInv, Pool
<1>1. CASE StartWorker
  <2>1. /\ waiting # <<>> /\ waiting' = Tail(waiting) /\ active' = active \cup {Head(waiting)}
        /\ UNCHANGED sessions
    BY <1>1 DEF StartWorker, UiUnchanged
  <2>2. Range(waiting) = Range(waiting') \cup {Head(waiting)}
    BY <2>1, Taking DEF IInv, Pool
  <2>3. SessionWorkers' = SessionWorkers
    BY <2>1, <2>2 DEF SessionWorkers, Workers
  <2> QED
    BY <1>q, <2>1, <2>2, <2>3 DEF Moves, Stays
<1>2. ASSUME NEW w \in active, PreflightEmits(w) PROVE Moves
  <2>1. w.kind = "preflight" /\ active' = active \ {w} /\ UNCHANGED <<waiting, sessions>>
    BY <1>2 DEF PreflightEmits, UiUnchanged
  <2>2. SessionWorkers' = SessionWorkers
    BY <2>1 DEF SessionWorkers, Workers
  <2> QED
    BY <1>q, <2>1, <2>2 DEF Moves, Stays
<1>3. ASSUME NEW w \in active, NEW rest \in SUBSET {[w EXCEPT !.done = TRUE]},
             w.kind = "session", ~w.done, active' = (active \ {w}) \cup rest,
             UNCHANGED <<waiting, sessions>>
      PROVE  Moves
  <2>1. w \in OpenSessions
    BY <1>3, <1>w DEF OpenSessions
  <2>2. Lacks(waiting, OpenSessions)
    BY <2>1 DEF IInv, Sessions, NoSession, OneOpenSession, None, One
  <2>3. w \notin Range(waiting)
    BY <2>1, <2>2 DEF Lacks, Range
  <2>4. \A v \in rest : v.kind = "session"
    BY <1>3, <1>w DEF WorkersOfAnyKind
  <2>5. SessionWorkers' = (SessionWorkers \ {w}) \cup rest
    BY <1>3, <2>3, <2>4 DEF SessionWorkers, Workers
  <2>6. Ends(w, rest)
    BY <1>3, <2>5 DEF Ends, SessionWorkers, Workers
  <2> QED
    BY <1>3, <1>q, <1>w, <2>6 DEF Moves
<1>4. ASSUME NEW w \in active, SessionReturns(w) PROVE Moves
  <2>1. w.done /\ active' = active \ {w} /\ UNCHANGED <<waiting, sessions>>
    BY <1>4 DEF SessionReturns, UiUnchanged
  <2>2. w \notin Range(waiting) /\ w.kind = "session"
    BY <1>q, <2>1 DEF IInv, Pool, Workers
  <2>3. SessionWorkers' = SessionWorkers \ {w} /\ w \in SessionWorkers
    BY <2>1, <2>2 DEF SessionWorkers, Workers
  <2> QED
    BY <1>q, <1>w, <2>1, <2>3 DEF Moves, Leaves
<1>5. ASSUME NEW w \in active, SessionCompletes(w) PROVE Moves
  BY <1>3, <1>5 DEF SessionCompletes, UiUnchanged
<1>6. ASSUME NEW w \in active, SessionFails(w) PROVE Moves
  <2>1. active' = (active \ {w}) \cup {}
    BY <1>6 DEF SessionFails
  <2> QED
    BY <1>3, <1>6, <2>1 DEF SessionFails, UiUnchanged
<1> QED
  BY <1>1, <1>2, <1>4, <1>5, <1>6 DEF Threads

LEMMA StepMoves == IInv /\ JInv /\ [Next]_vars => Moves
<1> SUFFICES ASSUME IInv, Asking, Numbered, [Next]_vars PROVE Moves
  BY DEF JInv
<1>1. ASSUME UNCHANGED <<waiting, active, sessions>> PROVE Moves
  BY <1>1 DEF Moves, Stays, SessionWorkers, Workers, Numbered
<1>2. CASE UNCHANGED vars
  BY <1>1, <1>2 DEF vars, pool
<1>3. CASE \/ SetMode \/ ToggleDryRun \/ AddFiles \/ RemoveSelectedFiles \/ ClearSelection
           \/ ToggleClickedDrive \/ DelegateSetsData
  BY <1>1, <1>3 DEF SetMode, ToggleDryRun, AddFiles, RemoveSelectedFiles, ClearSelection,
              ToggleClickedDrive, DelegateSetsData, Unchanged, SchedulePreflight, pool
<1>4. CASE RefreshDrives
  <2>1. DispatchPreflight(token + 1, TRUE) /\ UNCHANGED sessions
    BY <1>4 DEF RefreshDrives, SchedulePreflightNow, Unchanged
  <2>2. token + 1 \in Nat
    BY DEF IInv, Settings
  <2> QED
    BY <2>1, <2>2, DispatchMoves
<1>t. Targets \subseteq Files \cup Disks /\ dialog.targets \subseteq Files \cup Disks
  BY DEF IInv, Settings, Targets
<1>5. CASE StartExecution
  <2>1. CASE dry
    BY <1>5, <1>t, <2>1, BeginMoves DEF StartExecution, MayStart
  <2>2. CASE ~dry
    BY <1>1, <1>5, <2>2 DEF StartExecution, pool
  <2> QED
    BY <2>1, <2>2
<1>6. CASE Answer
  <2>1. CASE dialog.kind = "question" /\ Begin(dialog.targets)
    BY <1>t, <2>1, BeginMoves DEF IInv, Settings, Asking
  <2>2. CASE UNCHANGED <<phase, view, token, pending, timer, running, shown, pool, events, aside, sessions>>
    BY <1>1, <2>2 DEF pool
  <2> QED
    BY <1>6, <2>1, <2>2 DEF Answer
<1>7. CASE DebounceExpires
  <2>1. DispatchPreflight(token, pending) /\ UNCHANGED sessions /\ token \in Nat /\ pending \in BOOLEAN
    BY <1>7 DEF DebounceExpires, IInv, Settings
  <2> QED
    BY <2>1, DispatchMoves
<1>8. CASE HandlePreflight \/ HandleCompleted \/ HandleFailed
  BY <1>1, <1>8 DEF HandlePreflight, HandleCompleted, HandleFailed, SchedulePreflight, pool
<1> QED
  BY <1>2, <1>3, <1>4, <1>5, <1>6, <1>7, <1>8, ThreadsMove DEF Next, User, Handlers

LEMMA StepKeepsNumbered == IInv /\ JInv /\ [Next]_vars => Numbered'
<1> SUFFICES ASSUME IInv, Numbered, Moves PROVE Numbered'
  BY StepMoves DEF JInv
<1>n. sessions \in Nat
  BY DEF IInv, Settings
<1>o. ASSUME NEW v \in SessionWorkers, NEW w \in SessionWorkers, ~v.done, ~w.done PROVE v = w
  BY <1>o DEF Numbered
<1>1. CASE Stays
  BY <1>1 DEF Moves, Stays, Numbered
<1>2. ASSUME NEW new \in WorkersOfAnyKind, Begins(new) PROVE Numbered'
  <2>1. \A w \in SessionWorkers : w.done
    BY <1>2, SessionsAreOne DEF Begins, OneSession, Undecided, SessionWorkers
  <2> QED
    BY <1>2, <1>n, <2>1 DEF Moves, Begins, Numbered
<1>3. ASSUME NEW w \in WorkersOfAnyKind, NEW rest \in SUBSET {[w EXCEPT !.done = TRUE]}, Ends(w, rest)
      PROVE  Numbered'
  <2>1. \A v \in rest : v.token = w.token /\ v.request = w.request /\ v.done /\ v = [w EXCEPT !.done = TRUE]
    BY <1>3 DEF WorkersOfAnyKind
  <2>2. \A v \in SessionWorkers' : v \in SessionWorkers \ {w} \/ v \in rest
    BY <1>3 DEF Ends
  <2>3. \A v \in SessionWorkers \ {w} : v.done /\ v.token # w.token
    BY <1>3, <1>o DEF Ends, Numbered
  <2> QED
    BY <1>3, <2>1, <2>2, <2>3 DEF Moves, Ends, Numbered
<1>4. ASSUME NEW w \in WorkersOfAnyKind, Leaves(w) PROVE Numbered'
  BY <1>4 DEF Moves, Leaves, Numbered
<1> QED
  BY <1>1, <1>2, <1>3, <1>4 DEF Moves

LEMMA InitEstablishesJInv == Init => JInv
<1> SUFFICES ASSUME Init PROVE JInv
  OBVIOUS
<1> DEFINE first == Preflight(1, CurrentRequest, TRUE)
<1>1. first.kind = "preflight" /\ ~first.done
  BY DEF Preflight
<1>f. waiting = <<first>> /\ active = {} /\ dialog.kind = "none"
  BY DEF Init
<1> HIDE DEF first
<1>2. Range(waiting) = {first}
  BY <1>f DEF Range
<1> QED
  BY <1>1, <1>2, <1>f DEF JInv, Asking, Numbered, SessionWorkers, Workers

\* The second invariant holds as well.
THEOREM SpecKeepsJInv == Spec => []JInv
<1>1. IInv /\ IInv' /\ JInv /\ [Next]_vars => JInv'
  BY StepKeepsAsking, StepKeepsNumbered DEF JInv
<1> QED
  BY <1>1, InitEstablishesJInv, SpecKeepsIInv, PTL DEF Spec

-----------------------------------------------------------------------------
(* What follows for the sessions that the window begins.                   *)

\* A session begun under "Preflight is ready" is the session that was shown, even
\* if preflights are answered and drives pruned while the question is open.
THEOREM ReadyIsWhatIsBegun == Spec => ReadySessionsWereReviewed
<1>1. ASSUME IInv, NEW targets \in SUBSET (Files \cup Disks), Begin(targets), targets = Targets,
             phase = "IDLE", ~(aside /\ mode = "DRIVE_SANITIZE")
      PROVE  Last(waiting').request = shown
  <2> DEFINE request == [CurrentRequest EXCEPT !.targets = targets]
             new == Session(sessions + 1, request)
  <2>1. new \in WorkersOfAnyKind /\ new.request = request
    <3>1. Settings /\ sessions + 1 \in Nat /\ TRUE \in BOOLEAN
      BY <1>1 DEF IInv, Settings
    <3>2. new \in OpenSessions
      BY <3>1, NewWorkers
    <3> QED
      BY <3>2 DEF OpenSessions, Session
  <2>2. request = shown
    <3>1. request = [mode |-> mode, targets |-> Targets, dry |-> dry]
      BY <1>1 DEF CurrentRequest
    <3>2. shown.mode = mode /\ shown.dry = dry /\ shown.targets = Targets /\ shown \in Request
      BY <1>1 DEF IInv, ReadyMeansCurrent, Settings
    <3> QED
      BY <3>1, <3>2 DEF Request
  <2> HIDE DEF new
  <2>3. waiting' = Append(waiting, new)
    BY <1>1 DEF Begin, new
  <2>4. Last(waiting') = new
    BY <1>1, <2>1, <2>3, AppendProperties DEF IInv, Pool, Last
  <2> QED
    BY <2>1, <2>2, <2>4
<1>2. ASSUME IInv, JInv, Next, ~running, running', phase = "IDLE", ~(aside /\ mode = "DRIVE_SANITIZE")
      PROVE  Last(waiting').request = shown
  <2>t. Targets \subseteq Files \cup Disks
    BY <1>2 DEF IInv, Settings, Targets
  <2>1. ~Threads /\ ~Handlers
    BY <1>2 DEF Threads, StartWorker, PreflightEmits, SessionCompletes, SessionReturns, SessionFails,
                UiUnchanged, Handlers, DebounceExpires, HandlePreflight, HandleCompleted, HandleFailed
  <2>2. StartExecution \/ Answer
    BY <1>2, <2>1 DEF Next, User, SetMode, ToggleDryRun, AddFiles, RemoveSelectedFiles, ClearSelection,
                      ToggleClickedDrive, DelegateSetsData, RefreshDrives, Unchanged
  <2>3. CASE StartExecution
    <3>1. Begin(Targets)
      BY <1>2, <2>3 DEF StartExecution
    <3> QED
      BY <1>1, <1>2, <2>t, <3>1
  <2>4. CASE Answer
    <3>1. dialog.kind = "question" /\ Begin(dialog.targets)
      BY <1>2, <2>4 DEF Answer
    <3>2. dialog.targets = Targets
      BY <1>2, <3>1 DEF JInv, Asking
    <3> QED
      BY <1>1, <1>2, <2>t, <3>1, <3>2
  <2> QED
    BY <2>2, <2>3, <2>4
<1>3. IInv /\ JInv /\ [Next]_vars
        => [~running /\ running' /\ phase = "IDLE" /\ ~(aside /\ mode = "DRIVE_SANITIZE")
              => Last(waiting').request = shown]_vars
  BY <1>2
<1> QED
  BY <1>3, SpecKeepsIInv, SpecKeepsJInv, PTL DEF Spec, ReadySessionsWereReviewed

-----------------------------------------------------------------------------
(* MainWindow implements SessionContract.                                  *)

\* The request of the refinement mapping, and the numbers of those that have yet
\* to return, for a set of session workers.
Requested(open) == IF open = {} THEN NoRequest ELSE (CHOOSE w \in open : TRUE).request
Open(workers) == {w \in workers : ~w.done}
Returning(workers) == {w.token : w \in {v \in workers : v.done}}

LEMMA RequestedIs == Requested({}) = NoRequest /\ \A w : Requested({w}) = w.request
BY DEF Requested

\* The mapping depends on the session workers alone.
Mapping ==
  /\ Undecided = Open(SessionWorkers)
  /\ {w.token : w \in {v \in active : v.done}} = Returning(SessionWorkers)

LEMMA MappingIs == IInv /\ JInv => Mapping
<1> SUFFICES ASSUME IInv, JInv PROVE Mapping
  OBVIOUS
<1>1. Undecided = Open(SessionWorkers)
  BY DEF Undecided, Open, SessionWorkers
<1>2. {v \in active : v.done} = {v \in SessionWorkers : v.done}
  BY DEF IInv, Pool, JInv, Numbered, SessionWorkers, Workers
<1> QED
  BY <1>1, <1>2 DEF Mapping, Returning

LEMMA MappingIsNext == IInv' /\ JInv' => Mapping'
BY MappingIs, PTL

LEMMA StepRefines == IInv /\ IInv' /\ JInv /\ JInv' /\ [Next]_vars => [Contract!Next]_(Contract!vars)
<1> SUFFICES ASSUME IInv, IInv', JInv, JInv', Moves PROVE [Contract!Next]_(Contract!vars)
  BY StepMoves
<1>m. /\ (IF Undecided = {} THEN NoRequest ELSE (CHOOSE w \in Undecided : TRUE).request)
           = Requested(Open(SessionWorkers))
      /\ (IF Undecided = {} THEN NoRequest ELSE (CHOOSE w \in Undecided : TRUE).request)'
           = Requested(Open(SessionWorkers'))
      /\ {w.token : w \in {v \in active : v.done}} = Returning(SessionWorkers)
      /\ {w.token : w \in {v \in active : v.done}}' = Returning(SessionWorkers')
  BY MappingIs, MappingIsNext DEF Mapping, Requested
<1>c. Contract!NoRequest = NoRequest /\ NoRequest \notin Contract!Arguments
  BY DEF Contract!NoRequest, NoRequest, Contract!Arguments
<1>n. Numbered
  BY DEF JInv
<1>o. Undecided = Open(SessionWorkers)
  BY MappingIs DEF Mapping
<1>1. CASE Stays
  BY <1>1, <1>m DEF Stays, Contract!vars
<1>2. ASSUME NEW new \in WorkersOfAnyKind, Begins(new) PROVE Contract!Begin
  <2>1. Open(SessionWorkers) = {}
    BY <1>2, <1>o, SessionsAreOne DEF Begins, OneSession
  <2>2. Open(SessionWorkers') = {new} /\ Returning(SessionWorkers') = Returning(SessionWorkers)
    BY <1>2, <2>1 DEF Begins, Open, Returning
  <2> QED
    BY <1>2, <1>c, <1>m, <2>1, <2>2, RequestedIs DEF Begins, Contract!Begin
<1>3. ASSUME NEW w \in WorkersOfAnyKind, NEW rest \in SUBSET {[w EXCEPT !.done = TRUE]}, Ends(w, rest)
      PROVE  Contract!Complete \/ Contract!Fail
  <2>1. Open(SessionWorkers) = {w} /\ w.token = sessions /\ w.request \in Contract!Arguments
    <3>1. w \in Open(SessionWorkers) /\ w.token = sessions /\ w.request \in Contract!Arguments
      BY <1>3, <1>n DEF Ends, Open, Numbered
    <3>2. Open(SessionWorkers) = {} \/ \E v : Open(SessionWorkers) = {v}
      BY <1>o, SessionsAreOne DEF OneSession
    <3> QED
      BY <3>1, <3>2
  <2>2. \A v \in rest : v.done /\ v.token = sessions
    BY <2>1 DEF WorkersOfAnyKind
  <2>3. Open(SessionWorkers') = {}
    BY <1>3, <2>1, <2>2 DEF Ends, Open
  <2>4. Contract!End
    BY <1>3, <1>c, <1>m, <2>1, <2>3, RequestedIs DEF Ends, Contract!End
  <2>5. CASE rest = {}
    <3>1. Returning(SessionWorkers') = Returning(SessionWorkers)
      BY <1>3, <2>5 DEF Ends, Returning
    <3> QED
      BY <1>m, <2>4, <3>1 DEF Contract!Fail
  <2>6. CASE rest = {[w EXCEPT !.done = TRUE]}
    <3>1. Returning(SessionWorkers') = Returning(SessionWorkers) \cup {sessions}
      <4>1. {v \in SessionWorkers' : v.done} = {v \in SessionWorkers : v.done} \cup rest
        BY <1>3, <2>2 DEF Ends
      <4>2. {v.token : v \in rest} = {sessions}
        BY <2>2, <2>6
      <4> QED
        BY <4>1, <4>2 DEF Returning
    <3> QED
      BY <1>m, <2>4, <3>1 DEF Contract!Complete
  <2> QED
    BY <1>3, <2>5, <2>6 DEF Ends
<1>4. ASSUME NEW w \in WorkersOfAnyKind, Leaves(w) PROVE Contract!Return
  <2>1. Open(SessionWorkers') = Open(SessionWorkers)
    BY <1>4 DEF Leaves, Open
  <2>2. Returning(SessionWorkers') = Returning(SessionWorkers) \ {w.token}
    BY <1>4, <1>n DEF Leaves, Returning, Numbered
  <2>3. w.token \in Returning(SessionWorkers)
    BY <1>4 DEF Leaves, Returning
  <2> QED
    BY <1>4, <1>m, <2>1, <2>2, <2>3 DEF Leaves, Contract!Return
<1> QED
  BY <1>1, <1>2, <1>3, <1>4 DEF Moves, Contract!Next

\* The window begins sessions as their contract wants it, however many dialogs,
\* timers and events come in between: one at a time, each with targets.
THEOREM WindowKeepsItsContract == Spec => ImplementsContract
<1>1. Init => Contract!Init
  <2> SUFFICES ASSUME Init PROVE Contract!Init
    OBVIOUS
  <2>1. Mapping /\ SessionWorkers = {}
    <3>1. IInv /\ JInv
      BY InitEstablishesIInv, InitEstablishesJInv
    <3>2. Undecided = {}
      BY <3>1, SessionsAreOne DEF OneSession, Init
    <3>3. \A w \in SessionWorkers : w.token \in 1..0
      BY <3>1 DEF JInv, Numbered, Init
    <3> QED
      BY <3>1, <3>3, MappingIs
  <2>2. Undecided = {} /\ {w.token : w \in {v \in active : v.done}} = {}
    BY <2>1 DEF Mapping, Open, Returning
  <2> QED
    BY <2>2 DEF Init, Contract!Init, Contract!NoRequest, NoRequest
<1>2. IInv /\ IInv' /\ JInv /\ JInv' /\ [Next]_vars => [Contract!Next]_(Contract!vars)
  BY StepRefines
<1> QED
  BY <1>1, <1>2, SpecKeepsIInv, SpecKeepsJInv, PTL DEF Spec, ImplementsContract, Contract!Spec
=============================================================================
