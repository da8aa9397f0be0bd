-------------------------- MODULE ExecutionProofs --------------------------
(***************************************************************************)
(* Any number of sessions of any number of targets, one after another: the *)
(* type invariant, the safety properties that MCExecution checks on two    *)
(* sessions, and the age of the snapshots that sessions plan with.         *)
(***************************************************************************)
EXTENDS Execution, FiniteSetTheorems, TLAPS

-----------------------------------------------------------------------------
(* The inductive invariant.                                                *)

\* A session that runs has targets.  The locals of execute() are empty before
\* planning and after the end.
Shape ==
  /\ pc # "idle" => session \in 1..MaxSessions /\ request.targets # {}
  /\ pc = "idle" => request = NoRequest
  /\ pc \in {"idle", "preflight"} => plans = <<>> /\ results = <<>>

\* One plan for a target of the request, in their order.
PlansOfTheRequest ==
  pc \notin {"idle", "preflight"} =>
    /\ \A i, j \in DOMAIN plans : i < j => plans[i].target < plans[j].target
    /\ {plans[i].target : i \in DOMAIN plans} \subseteq request.targets
    /\ request.mode = "FILE_SANITIZE" => {plans[i].target : i \in DOMAIN plans} = request.targets

\* The claims of a list of answers are true.
True(answers) ==
  \A i \in DOMAIN answers :
    answers[i].result.assurance_achieved \in ErasureClaims => data[answers[i].target] = "erased"

HonestAnswers == True(results) /\ \A s \in 0..MaxSecond, a \in Artifact : True(reports[s][a].results)

\* Where the session is among its artifacts.
Position == IF pc = "written" THEN Len(Artifacts) + 1
            ELSE IF pc \in Artifact THEN CHOOSE i \in DOMAIN Artifacts : Artifacts[i] = pc
            ELSE 1

\* What the session has written is in its directory.
Written == \A i \in DOMAIN Artifacts :
             i < Position => reports[dir][Artifacts[i]] = Content(session, results, TRUE)

\* The slot holds nothing from before the end of a completed session, but for
\* the two windows that FreshInventoryAfterCompletion names.
Fresh(slot) ==
  \A n \in 1..Ended :
    terminal[n] = <<"SessionCompleted">> /\ n \notin leaving
      => slot.after >= n \/ slot.stored >= n

FutureSessions == \A n \in 1..MaxSessions : n > session => terminal[n] = <<>>

IInv == /\ TypeOK /\ Shape /\ PlansOfTheRequest /\ ResultsFollowThePlans /\ HonestAnswers /\ Written
        /\ OneTerminalEvent /\ FutureSessions /\ (cache.held => Fresh(cache))

-----------------------------------------------------------------------------
(* Facts about the constants and about sequences.                          *)

\* The artifacts and their order.
LEMMA ArtifactsAre ==
  /\ Len(Artifacts) = 5 /\ DOMAIN Artifacts = 1..5
  /\ Artifacts[1] = "jsonl" /\ Artifacts[2] = "csv" /\ Artifacts[3] = "html"
  /\ Artifacts[4] = "pdf" /\ Artifacts[5] = "bundle"
  /\ Artifact = {"jsonl", "csv", "html", "pdf", "bundle"}
<1>1. /\ Len(Artifacts) = 5 /\ DOMAIN Artifacts = 1..5
      /\ Artifacts[1] = "jsonl" /\ Artifacts[2] = "csv" /\ Artifacts[3] = "html"
      /\ Artifacts[4] = "pdf" /\ Artifacts[5] = "bundle"
  BY DEF Artifacts
<1>2. DOMAIN Artifacts = {1, 2, 3, 4, 5}
  BY <1>1
<1> QED
  BY <1>1, <1>2 DEF Artifact

\* The position is that of the artifact the session is at.
LEMMA PositionIs ==
  /\ pc = "written" => Position = 6
  /\ pc = "jsonl" => Position = 1 
  /\ pc = "csv" => Position = 2
  /\ pc = "html" => Position = 3
  /\ pc = "pdf" => Position = 4
  /\ pc = "bundle" => Position = 5
  /\ pc \in {"idle", "preflight", "engines"} => Position = 1
BY ArtifactsAre DEF Position

\* The slot's possible contents.
LEMMA SlotTypes ==
  ASSUME TypeOK, Shape
  PROVE  /\ Ended \in 0..MaxSessions
         /\ \A begun \in 0..Ended : Query(begun) \in Slot /\ Query(begun).stored = Ended
         /\ EmptySlot \in Slot /\ ~EmptySlot.held
         /\ Snapshot \subseteq Slot
<1>1. Ended \in 0..MaxSessions
  BY SessionAssumption DEF TypeOK, Shape, Ended
<1>2. /\ \A begun \in 0..Ended : Query(begun) \in Slot /\ Query(begun).stored = Ended
      /\ EmptySlot \in Slot /\ ~EmptySlot.held
  BY <1>1, SessionAssumption DEF Query, Slot, EmptySlot
<1>3. Query(Ended) \in Slot
  BY <1>1, <1>2
<1> QED
  BY <1>1, <1>2, <1>3 DEF Snapshot, TypeOK

\* The results that the loop appends.
LEMMA AnswerTypes ==
  ASSUME TypeOK, Busy
  PROVE  /\ Current \in Plan /\ Current.target \in Targets
         /\ Current = plans[Len(results) + 1]
         /\ Failure \in Result /\ Failure.assurance_achieved \notin ErasureClaims
         /\ \A r \in Result : /\ Answered(r) \in Seq(Answers)
                              /\ Len(Answered(r)) = Len(results) + 1
                              /\ \A i \in DOMAIN results : Answered(r)[i] = results[i]
                              /\ Answered(r)[Len(results) + 1] = [target |-> Current.target, result |-> r]
<1>1. Current \in Plan /\ Current = plans[Len(results) + 1]
  BY DEF TypeOK, Busy, Current
<1>2. Current.target \in Targets
  BY <1>1 DEF Plan
<1>3. Failure \in Result /\ Failure.assurance_achieved \notin ErasureClaims
  BY SessionAssumption DEF Failure, Result, ErasureClaims
<1>4. ASSUME NEW r \in Result
      PROVE  /\ Answered(r) \in Seq(Answers)
             /\ Len(Answered(r)) = Len(results) + 1
             /\ \A i \in DOMAIN results : Answered(r)[i] = results[i]
             /\ Answered(r)[Len(results) + 1] = [target |-> Current.target, result |-> r]
  <2>1. [target |-> Current.target, result |-> r] \in Answers
    BY <1>2, <1>4 DEF Answers
  <2> QED
    BY <2>1 DEF Answered, TypeOK
<1> QED
  BY <1>1, <1>2, <1>3, <1>4

\* The plans of a preflight.
LEMMA PlannedTypes ==
  ASSUME TypeOK, BuildPreflight
  PROVE  plans' \in Seq(Plan)
<1>1. PICK inventory \in Snapshot :
        \E targets \in Planned(inventory) : plans' \in [1..Cardinality(targets) -> Plan]
  BY DEF BuildPreflight
<1>p. PICK targets \in Planned(inventory) : plans' \in [1..Cardinality(targets) -> Plan]
  BY <1>1
<1>2. targets \subseteq Targets
  BY <1>p DEF Planned, TypeOK, Requests
<1>3. Cardinality(targets) \in Nat
  BY <1>2, SessionAssumption, FS_Subset, FS_CardinalityType
<1> QED
  BY <1>p, <1>3

-----------------------------------------------------------------------------
(* IInv is inductive.                                                      *)

LEMMA InitEstablishesIInv == Init => IInv
<1> SUFFICES ASSUME Init PROVE IInv
  OBVIOUS
<1>1. TypeOK
  <2>1. Absent \in Contents
    BY SessionAssumption DEF Absent, Content, Contents
  <2>2. cache \in Slot /\ request \in Requests /\ plans \in Seq(Plan) /\ results \in Seq(Answers)
    BY SessionAssumption DEF Init, Slot, EmptySlot, Requests, NoRequest, OperationMode
  <2> QED
    BY <2>1, <2>2, SessionAssumption DEF Init, TypeOK, DataState
<1>2. Position = 1
  BY PositionIs DEF Init
<1>3. HonestAnswers
  BY DEF Init, HonestAnswers, True, Absent, Content
<1> QED
  BY <1>1, <1>2, <1>3, ArtifactsAre
  DEF Init, IInv, Shape, NoRequest, PlansOfTheRequest, ResultsFollowThePlans, Written, OneTerminalEvent, FutureSessions, EmptySlot

LEMMA StepKeepsTypeOK == IInv /\ [Next]_vars => TypeOK'
<1> SUFFICES ASSUME IInv, [Next]_vars PROVE TypeOK'
  OBVIOUS
<1>t. TypeOK /\ Shape
  BY DEF IInv
<1>a. Artifact = {"jsonl", "csv", "html", "pdf", "bundle"} /\ DOMAIN Artifacts = 1..5
  BY ArtifactsAre
<1>n. NoRequest \in Requests /\ <<>> \in Seq(Plan) /\ <<>> \in Seq(Answers)
  BY DEF NoRequest, Requests, OperationMode
<1>s. Snapshot \subseteq Slot /\ EmptySlot \in Slot
  BY <1>t, SlotTypes
<1>e. ASSUME NEW e \in {"SessionCompleted", "SessionFailed"}, Emit(e), pc # "idle"
      PROVE  terminal' \in [1..MaxSessions -> Seq({"SessionCompleted", "SessionFailed"})]
  <2>1. session \in 1..MaxSessions
    BY <1>e, <1>t DEF Shape
  <2>2. Append(terminal[session], e) \in Seq({"SessionCompleted", "SessionFailed"})
    BY <2>1, <1>t DEF TypeOK
  <2> QED
    BY <1>e, <2>1, <2>2, <1>t DEF Emit, TypeOK
<1>c. ASSUME NEW answers \in Seq(Answers), NEW b \in BOOLEAN, NEW a \in Artifact,
             reports' = [reports EXCEPT ![dir][a] = Content(session, answers, b)]
      PROVE  reports' \in [0..MaxSecond -> [Artifact -> Contents]]
  <2>1. Content(session, answers, b) \in Contents
    BY <1>t DEF TypeOK, Content, Contents
  <2>2. reports[dir] \in [Artifact -> Contents]
    BY <1>t DEF TypeOK
  <2>3. [reports[dir] EXCEPT ![a] = Content(session, answers, b)] \in [Artifact -> Contents]
    BY <2>1, <2>2
  <2> QED
    BY <1>c, <2>3, <1>t DEF TypeOK
<1>1. CASE UNCHANGED vars
  BY <1>1, <1>t DEF vars, TypeOK
<1>2. CASE Review
  BY <1>2, <1>t, SlotTypes DEF Review, TypeOK
<1>3. ASSUME NEW m \in OperationMode, NEW targets \in SUBSET Targets, NEW d \in BOOLEAN,
             Execute(m, targets, d)
      PROVE  TypeOK'
  <2>1. session' \in 0..MaxSessions /\ request' \in Requests
    BY <1>3, <1>t, SessionAssumption DEF Execute, TypeOK, Requests
  <2> QED
    BY <1>3, <2>1, <1>t, <1>n DEF Execute, TypeOK
<1>4. CASE BuildPreflight
  <2>1. plans' \in Seq(Plan)
    BY <1>4, <1>t, PlannedTypes
  <2>2. cache' \in Slot
    BY <1>4, <1>s DEF BuildPreflight
  <2> QED
    BY <1>4, <2>1, <2>2, <1>t DEF BuildPreflight, TypeOK
<1>5. CASE PreflightRaises
  BY <1>5, <1>t, <1>n, <1>s, <1>e DEF PreflightRaises, Leave, TypeOK
<1>6. CASE EngineReturns \/ EngineRaises
  <2>1. results' \in Seq(Answers)
    BY <1>6, <1>t, AnswerTypes DEF EngineReturns, EngineRaises, BuildFailureResult
  <2> QED
    BY <1>6, <2>1, <1>t DEF EngineReturns, EngineRaises, TypeOK
<1>7. CASE EngineTouches
  <2>1. data' \in [Targets -> DataState]
    BY <1>7, <1>t, AnswerTypes DEF EngineTouches, TypeOK, DataState
  <2> QED
    BY <1>7, <2>1, <1>t DEF EngineTouches, TypeOK
<1>8. CASE OpenSessionDir
  BY <1>8, <1>t, <1>a, ArtifactsAre, SessionAssumption DEF OpenSessionDir, TypeOK
<1>9. ASSUME NEW i \in DOMAIN Artifacts, WriteArtifact(i) PROVE TypeOK'
  <2>1. pc = Artifacts[i] /\ Artifacts[i] \in Artifact /\ AfterArtifact(i) \in Artifact \cup {"written"}
    BY <1>9, <1>a, ArtifactsAre DEF WriteArtifact, AfterArtifact
  <2>2. reports' \in [0..MaxSecond -> [Artifact -> Contents]]
    BY <1>9, <2>1, <1>c, <1>t DEF WriteArtifact, TypeOK
  <2> QED
    BY <1>9, <2>1, <2>2, <1>t DEF WriteArtifact, TypeOK
<1>10. CASE ReportRaises
  <2>1. reports' \in [0..MaxSecond -> [Artifact -> Contents]]
    BY <1>10, <1>c, <1>n, <1>t DEF ReportRaises, TypeOK
  <2>2. terminal' \in [1..MaxSessions -> Seq({"SessionCompleted", "SessionFailed"})]
    BY <1>10, <1>e, <1>a DEF ReportRaises
  <2> QED
    BY <1>10, <2>1, <2>2, <1>t, <1>n DEF ReportRaises, Leave, TypeOK
<1>11. CASE Complete
  <2>1. session \in 1..MaxSessions
    BY <1>11, <1>t DEF Complete, Shape
  <2> QED
    BY <1>11, <2>1, <1>t, <1>n, <1>e DEF Complete, Leave, TypeOK
<1>12. ASSUME NEW n \in leaving, Invalidate(n) PROVE TypeOK'
  BY <1>12, <1>t, <1>s DEF Invalidate, TypeOK
<1> QED
  BY <1>1, <1>2, <1>3, <1>4, <1>5, <1>6, <1>7, <1>8, <1>9, <1>10, <1>11, <1>12 DEF Next, Work

\* The locals, the results' targets and the directories.
LEMMA StepKeepsTheSession ==
  IInv /\ [Next]_vars => Shape' /\ ResultsFollowThePlans'
<1> SUFFICES ASSUME IInv, [Next]_vars PROVE Shape' /\ ResultsFollowThePlans'
  OBVIOUS
<1>t. TypeOK /\ Shape /\ ResultsFollowThePlans
  BY DEF IInv
<1>a. Artifact = {"jsonl", "csv", "html", "pdf", "bundle"} /\ DOMAIN Artifacts = 1..5
  BY ArtifactsAre
<1>1. CASE UNCHANGED vars \/ Review \/ EngineTouches \/ \E n \in leaving : Invalidate(n)
  BY <1>1, <1>t DEF vars, Review, EngineTouches, Invalidate, Shape, ResultsFollowThePlans
<1>2. CASE \E m \in OperationMode, targets \in SUBSET Targets, d \in BOOLEAN : Execute(m, targets, d)
  BY <1>2, <1>t, SessionAssumption DEF Execute, Shape, ResultsFollowThePlans, TypeOK
<1>3. CASE BuildPreflight
  <2>1. plans' \in Seq(Plan) /\ results' = <<>>
    BY <1>3, <1>t, PlannedTypes DEF BuildPreflight, Shape
  <2> QED
    BY <1>3, <1>t, <2>1 DEF BuildPreflight, Shape, ResultsFollowThePlans
<1>4. CASE PreflightRaises \/ ReportRaises \/ Complete
  <2>1. pc' = "idle" /\ request' = NoRequest /\ plans' = <<>> /\ results' = <<>>
    BY <1>4 DEF PreflightRaises, ReportRaises, Complete, Leave
  <2> QED
    BY <2>1 DEF Shape, ResultsFollowThePlans
<1>5. CASE EngineReturns \/ EngineRaises
  <2>1. PICK r \in Result : results' = Answered(r)
    BY <1>5, <1>t, AnswerTypes DEF EngineReturns, EngineRaises, BuildFailureResult
  <2>2. Busy /\ UNCHANGED <<pc, session, request, plans>>
    BY <1>5 DEF EngineReturns, EngineRaises
  <2>3. /\ results' \in Seq(Answers) /\ Len(results') = Len(results) + 1
        /\ \A i \in DOMAIN results : results'[i].target = results[i].target
        /\ results'[Len(results) + 1].target = plans[Len(results) + 1].target
    <3>1. /\ Answered(r) \in Seq(Answers)
          /\ Len(Answered(r)) = Len(results) + 1
          /\ \A i \in DOMAIN results : Answered(r)[i] = results[i]
          /\ Answered(r)[Len(results) + 1] = [target |-> Current.target, result |-> r]
          /\ Current = plans[Len(results) + 1]
      BY <2>2, <1>t, AnswerTypes
    <3> QED
      BY <2>1, <3>1
  <2>4. ASSUME NEW i \in DOMAIN results' PROVE results'[i].target = plans'[i].target
    <3>1. i \in DOMAIN results \/ i = Len(results) + 1
      BY <2>3, <1>t DEF TypeOK
    <3> QED
      BY <3>1, <2>2, <2>3, <1>t DEF ResultsFollowThePlans
  <2>5. Len(results') <= Len(plans') /\ pc' = "engines"
    BY <2>2, <2>3, <1>t DEF Busy, TypeOK
  <2> QED
    BY <2>2, <2>4, <2>5, <1>t DEF Shape, ResultsFollowThePlans
<1>6. CASE OpenSessionDir
  BY <1>6, <1>t, <1>a, ArtifactsAre DEF OpenSessionDir, Shape, ResultsFollowThePlans
<1>7. ASSUME NEW i \in DOMAIN Artifacts, WriteArtifact(i) PROVE Shape' /\ ResultsFollowThePlans'
  <2>1. pc \in Artifact /\ pc' \in Artifact \cup {"written"}
    BY <1>7, <1>a, ArtifactsAre DEF WriteArtifact, AfterArtifact
  <2> QED
    BY <1>7, <2>1, <1>t, <1>a DEF WriteArtifact, Shape, ResultsFollowThePlans
<1> QED
  BY <1>1, <1>2, <1>3, <1>4, <1>5, <1>6, <1>7 DEF Next, Work

\* The plans are made once and stay.
LEMMA StepKeepsThePlans == IInv /\ [Next]_vars => PlansOfTheRequest'
<1> SUFFICES ASSUME IInv, [Next]_vars PROVE PlansOfTheRequest'
  OBVIOUS
<1>a. "idle" \notin Artifact /\ "preflight" \notin Artifact
  BY ArtifactsAre
<1>1. CASE pc' \in {"idle", "preflight"}
  BY <1>1 DEF PlansOfTheRequest
<1>2. CASE pc \notin {"idle", "preflight"} /\ UNCHANGED <<request, plans>>
  BY <1>2 DEF IInv, PlansOfTheRequest
<1>3. CASE BuildPreflight
  <2>i. PICK inventory \in Snapshot :
          \E targets \in Planned(inventory) : {plans'[i].target : i \in DOMAIN plans'} = targets
    BY <1>3 DEF BuildPreflight
  <2>1. PICK targets \in Planned(inventory) : {plans'[i].target : i \in DOMAIN plans'} = targets
    BY <2>i
  <2>2. targets \subseteq request.targets /\ (request.mode = "FILE_SANITIZE" => targets = request.targets)
    BY <2>1 DEF Planned
  <2>3. /\ \A i, j \in DOMAIN plans' : i < j => plans'[i].target < plans'[j].target
        /\ UNCHANGED request
    BY <1>3 DEF BuildPreflight
  <2> QED
    BY <2>1, <2>2, <2>3 DEF PlansOfTheRequest
<1>4. CASE \E m \in OperationMode, targets \in SUBSET Targets, d \in BOOLEAN : Execute(m, targets, d)
  BY <1>1, <1>4 DEF Execute
<1>5. CASE PreflightRaises \/ ReportRaises \/ Complete
  BY <1>1, <1>5 DEF PreflightRaises, ReportRaises, Complete, Leave
<1>6. CASE EngineReturns \/ EngineRaises \/ EngineTouches \/ OpenSessionDir
  BY <1>2, <1>6 DEF EngineReturns, EngineRaises, EngineTouches, OpenSessionDir, Busy
<1>7. ASSUME NEW i \in DOMAIN Artifacts, WriteArtifact(i) PROVE PlansOfTheRequest'
  <2>1. pc \in Artifact /\ UNCHANGED <<request, plans>>
    BY <1>7 DEF WriteArtifact, Artifact
  <2> QED
    BY <1>2, <1>a, <2>1
<1>8. CASE UNCHANGED vars \/ Review \/ \E n \in leaving : Invalidate(n)
  BY <1>8 DEF vars, Review, Invalidate, IInv, PlansOfTheRequest
<1> QED
  BY <1>3, <1>4, <1>5, <1>6, <1>7, <1>8 DEF Next, Work

\* Claims stay true: what is erased stays erased, an engine's answer is honest,
\* a failure result claims nothing, and the artifacts hold what the list holds.
LEMMA StepKeepsHonesty == IInv /\ [Next]_vars => HonestAnswers'
<1> SUFFICES ASSUME IInv, [Next]_vars PROVE HonestAnswers'
  OBVIOUS
<1>t. TypeOK /\ Shape /\ HonestAnswers
  BY DEF IInv
<1>a. Artifact = {"jsonl", "csv", "html", "pdf", "bundle"} /\ DOMAIN Artifacts = 1..5
  BY ArtifactsAre
<1>d. ASSUME NEW answers \in Seq(Answers), True(answers), UNCHANGED data PROVE True(answers)'
  BY <1>d DEF True
<1>r. \A s \in 0..MaxSecond, a \in Artifact : reports[s][a].results \in Seq(Answers)
  BY <1>t DEF TypeOK, Contents
<1>e. True(<<>>)
  BY DEF True
<1>k. ASSUME UNCHANGED <<data, reports>>, results' = results \/ results' = <<>>
      PROVE  HonestAnswers'
  BY <1>k, <1>t, <1>d, <1>r, <1>e DEF HonestAnswers, True
<1>w. ASSUME NEW answers, True(answers), NEW b \in BOOLEAN, NEW a \in Artifact,
             reports' = [reports EXCEPT ![dir][a] = Content(session, answers, b)],
             UNCHANGED data, results' = results \/ results' = <<>>
      PROVE  HonestAnswers'
  <2>1. ASSUME NEW s \in 0..MaxSecond, NEW c \in Artifact
        PROVE  reports'[s][c].results = answers \/ reports'[s][c].results = reports[s][c].results
    <3>1. reports \in [0..MaxSecond -> [Artifact -> Contents]]
      BY <1>t DEF TypeOK
    <3>2. reports'[s][c] = Content(session, answers, b) \/ reports'[s][c] = reports[s][c]
      BY <1>w, <3>1
    <3> QED
      BY <3>2 DEF Content
  <2>2. \A s \in 0..MaxSecond, c \in Artifact : True(reports'[s][c].results)
    BY <1>w, <1>t, <2>1 DEF HonestAnswers
  <2>3. True(results')
    BY <1>w, <1>t, <1>e DEF HonestAnswers
  <2> QED
    BY <1>w, <2>2, <2>3 DEF HonestAnswers, True
<1>1. CASE UNCHANGED vars \/ Review \/ \E n \in leaving : Invalidate(n)
  BY <1>1, <1>k DEF vars, Review, Invalidate
<1>2. CASE \E m \in OperationMode, targets \in SUBSET Targets, d \in BOOLEAN : Execute(m, targets, d)
  BY <1>2, <1>k DEF Execute
<1>3. CASE BuildPreflight \/ PreflightRaises \/ OpenSessionDir \/ Complete
  BY <1>3, <1>k DEF BuildPreflight, PreflightRaises, OpenSessionDir, Complete, Leave
<1>4. CASE EngineReturns \/ EngineRaises
  <2>1. PICK r \in Result :
          /\ results' = Answered(r)
          /\ r.assurance_achieved \in ErasureClaims => data[Current.target] = "erased"
    <3>1. CASE EngineReturns
      BY <3>1 DEF EngineReturns, Engine!Honest, Engine!ErasureClaims, ErasureClaims
    <3>2. CASE EngineRaises
      BY <3>2, <1>t, AnswerTypes DEF EngineRaises, BuildFailureResult
    <3> QED
      BY <1>4, <3>1, <3>2
  <2>2. Busy /\ UNCHANGED <<data, reports>>
    BY <1>4 DEF EngineReturns, EngineRaises
  <2>3. /\ results' \in Seq(Answers) /\ Len(results') = Len(results) + 1
        /\ \A i \in DOMAIN results : results'[i] = results[i]
        /\ results'[Len(results) + 1] = [target |-> Current.target, result |-> r]
    BY <2>1, <2>2, <1>t, AnswerTypes
  <2>4. True(results')
    <3> SUFFICES ASSUME NEW i \in DOMAIN results',
                        results'[i].result.assurance_achieved \in ErasureClaims
                 PROVE  data[results'[i].target] = "erased"
      BY DEF True
    <3>1. i \in DOMAIN results \/ i = Len(results) + 1
      BY <2>3, <1>t DEF TypeOK
    <3> QED
      BY <3>1, <2>1, <2>3, <1>t DEF HonestAnswers, True
  <2> QED
    BY <2>2, <2>4, <1>t DEF HonestAnswers, True
<1>5. CASE EngineTouches
  <2>1. \A t \in Targets : data[t] = "erased" => data'[t] = "erased"
    BY <1>5, <1>t, AnswerTypes DEF EngineTouches, TypeOK
  <2>2. ASSUME NEW answers \in Seq(Answers), True(answers) PROVE True(answers)'
    <3> SUFFICES ASSUME NEW i \in DOMAIN answers,
                        answers[i].result.assurance_achieved \in ErasureClaims
                 PROVE  data'[answers[i].target] = "erased"
      BY DEF True
    <3>1. answers[i] \in Answers
      OBVIOUS
    <3>2. answers[i].target \in Targets
      BY <3>1 DEF Answers
    <3> QED
      BY <2>1, <2>2, <3>2 DEF True
  <2> QED
    BY <1>5, <1>t, <1>r, <2>2 DEF EngineTouches, HonestAnswers, True, TypeOK
<1>6. ASSUME NEW i \in DOMAIN Artifacts, WriteArtifact(i) PROVE HonestAnswers'
  <2>1. Artifacts[i] \in Artifact /\ True(results)
    BY <1>a, <1>t, ArtifactsAre DEF HonestAnswers
  <2> QED
    BY <1>6, <2>1, <1>w DEF WriteArtifact
<1>7. CASE ReportRaises
  <2>1. UNCHANGED data /\ results' = <<>>
    BY <1>7 DEF ReportRaises, Leave
  <2>2. CASE UNCHANGED reports
    BY <2>1, <2>2, <1>k
  <2>3. CASE pc \in Artifact /\ reports' = [reports EXCEPT ![dir][pc] = Content(session, <<>>, FALSE)]
    BY <2>1, <2>3, <1>w, <1>e
  <2> QED
    BY <1>7, <2>2, <2>3 DEF ReportRaises
<1> QED
  BY <1>1, <1>2, <1>3, <1>4, <1>5, <1>6, <1>7 DEF Next, Work

\* What is written stays written while the session is at its report.
LEMMA StepKeepsWritten == IInv /\ [Next]_vars => Written'
<1> SUFFICES ASSUME IInv, [Next]_vars PROVE Written'
  OBVIOUS
<1>t. TypeOK /\ Shape /\ Written
  BY DEF IInv
<1>a. /\ Artifact = {"jsonl", "csv", "html", "pdf", "bundle"} /\ DOMAIN Artifacts = 1..5
      /\ Artifacts[1] = "jsonl" /\ Artifacts[2] = "csv" /\ Artifacts[3] = "html"
      /\ Artifacts[4] = "pdf" /\ Artifacts[5] = "bundle" /\ Len(Artifacts) = 5
  BY ArtifactsAre
<1>p. pc' \in {"idle", "preflight", "engines", "jsonl"} => Position' = 1
  BY <1>a DEF Position
<1>0. Position' = 1 => Written'
  BY <1>a DEF Written
<1>1. CASE UNCHANGED <<pc, session, results, dir, reports>>
  BY <1>1, <1>t DEF Written, Position
<1>2. CASE pc' \in {"idle", "preflight", "engines", "jsonl"}
  BY <1>2, <1>p, <1>0
<1>3. ASSUME NEW i \in DOMAIN Artifacts, WriteArtifact(i) PROVE Written'
  <2>1. /\ pc = Artifacts[i] /\ UNCHANGED <<session, results, dir>>
        /\ reports' = [reports EXCEPT ![dir][Artifacts[i]] = Content(session, results, TRUE)]
        /\ pc' = AfterArtifact(i)
    BY <1>3 DEF WriteArtifact
  <2>2. Position = i
    BY <2>1, <1>a, PositionIs
  <2>3. Position' = i + 1
    <3>1. i = 5 => pc' = "written"
      BY <2>1, <1>a DEF AfterArtifact
    <3>2. i < 5 => pc' = Artifacts[i + 1]
      BY <2>1, <1>a DEF AfterArtifact
    <3>3. CASE i = 5
      BY <3>1, <3>3, <1>a DEF Position
    <3>4. CASE i < 5
      <4>1. Artifacts[i + 1] \in Artifact /\ i + 1 \in DOMAIN Artifacts
        BY <3>4, <1>a
      <4>2. \A j \in DOMAIN Artifacts : Artifacts[j] = Artifacts[i + 1] => j = i + 1
        BY <3>4, <1>a
      <4>3. pc' \in Artifact /\ pc' # "written"
        BY <3>2, <3>4, <4>1, <1>a
      <4> QED
        BY <3>2, <3>4, <4>1, <4>2, <4>3 DEF Position
    <3> QED
      BY <3>3, <3>4, <1>a
  <2>4. ASSUME NEW j \in DOMAIN Artifacts, j < i + 1
        PROVE  reports'[dir][Artifacts[j]] = Content(session, results, TRUE)
    <3>1. reports \in [0..MaxSecond -> [Artifact -> Contents]] /\ dir \in 0..MaxSecond
      BY <1>t DEF TypeOK
    <3>2. Artifacts[j] \in Artifact /\ Artifacts[i] \in Artifact
      BY <1>a
    <3>3. CASE j = i
      BY <2>1, <3>1, <3>2, <3>3
    <3>4. CASE j < i
      <4>1. reports[dir][Artifacts[j]] = Content(session, results, TRUE)
        BY <3>4, <2>2, <1>t DEF Written
      <4> QED
        BY <2>1, <3>1, <3>2, <4>1
    <3> QED
      <4>1. i \in 1..5 /\ j \in 1..5
        BY <1>a
      <4>2. j = i \/ j < i
        BY <2>4, <4>1
      <4> QED
        BY <4>2, <3>3, <3>4
  <2> QED
    BY <2>1, <2>3, <2>4 DEF Written
<1>4. CASE UNCHANGED vars \/ Review \/ EngineTouches \/ \E n \in leaving : Invalidate(n)
  BY <1>4, <1>1 DEF vars, Review, EngineTouches, Invalidate
<1>5. CASE \E m \in OperationMode, targets \in SUBSET Targets, d \in BOOLEAN : Execute(m, targets, d)
  BY <1>5, <1>2 DEF Execute
<1>6. CASE BuildPreflight \/ PreflightRaises \/ OpenSessionDir \/ Complete \/ ReportRaises
           \/ EngineReturns \/ EngineRaises
  BY <1>6, <1>2, <1>a DEF BuildPreflight, PreflightRaises, OpenSessionDir, Complete, ReportRaises,
                          EngineReturns, EngineRaises, Busy, Leave
<1> QED
  BY <1>3, <1>4, <1>5, <1>6 DEF Next, Work

\* Terminal events and the age of the slot.
LEMMA StepKeepsTheEvents ==
  IInv /\ [Next]_vars => OneTerminalEvent' /\ FutureSessions' /\ (cache'.held => Fresh(cache)')
<1> SUFFICES ASSUME IInv, [Next]_vars
             PROVE  OneTerminalEvent' /\ FutureSessions' /\ (cache'.held => Fresh(cache)')
  OBVIOUS
<1> DEFINE Goal == OneTerminalEvent' /\ FutureSessions' /\ (cache'.held => Fresh(cache)')
<1>t. /\ TypeOK /\ Shape /\ OneTerminalEvent /\ FutureSessions /\ (cache.held => Fresh(cache))
      /\ session \in 0..MaxSessions /\ MaxSessions \in Nat
  BY SessionAssumption DEF IInv, TypeOK
<1>s. /\ Ended \in 0..MaxSessions
      /\ \A begun \in 0..Ended : Query(begun).stored = Ended
      /\ ~EmptySlot.held
  BY <1>t, SlotTypes
<1>q. \A begun \in 0..Ended : Fresh(Query(begun))
  BY <1>s DEF Fresh
<1>n. \A slot \in Snapshot : slot.held => Fresh(slot)
  BY <1>s, <1>q, <1>t DEF Snapshot
<1>k. ASSUME UNCHANGED <<pc, session, terminal, leaving>>, cache'.held => Fresh(cache') PROVE Goal
  BY <1>k, <1>t DEF OneTerminalEvent, FutureSessions, Fresh, Ended
<1>b. ASSUME UNCHANGED <<session, terminal, leaving>>, pc # "idle", pc' # "idle",
             cache'.held => Fresh(cache')
      PROVE  Goal
  BY <1>b, <1>t DEF OneTerminalEvent, FutureSessions, Fresh, Ended
<1>f. ASSUME NEW e \in {"SessionCompleted", "SessionFailed"}, Emit(e), pc # "idle", pc' = "idle",
             session' = session, cache'.held => Fresh(cache'),
             leaving \subseteq leaving',
             e = "SessionCompleted" => session \in leaving'
      PROVE  Goal
  <2>1. session \in 1..MaxSessions /\ Len(terminal[session]) = 0
    BY <1>f, <1>t DEF Shape, OneTerminalEvent
  <2>2. terminal[session] \in Seq({"SessionCompleted", "SessionFailed"})
    BY <2>1, <1>t DEF TypeOK
  <2>3. /\ terminal'[session] = Append(terminal[session], e)
        /\ \A n \in 1..MaxSessions \ {session} : terminal'[n] = terminal[n]
    BY <1>f, <2>1, <1>t DEF Emit, TypeOK
  <2>4. Len(terminal'[session]) = 1 /\ terminal'[session][1] = e
    BY <2>1, <2>2, <2>3
  <2>5. OneTerminalEvent'
    <3> SUFFICES ASSUME NEW n \in 1..session PROVE Len(terminal'[n]) = 1
      BY <1>f DEF OneTerminalEvent
    <3>1. CASE n = session
      BY <2>4, <3>1
    <3>2. CASE n # session
      <4>1. Len(terminal[n]) = 1
        BY <1>t, <3>2 DEF OneTerminalEvent
      <4>2. n \in 1..MaxSessions \ {session}
        BY <1>t, <2>1, <3>2
      <4> QED
        BY <2>3, <4>1, <4>2
    <3> QED
      BY <3>1, <3>2
  <2>6. FutureSessions'
    BY <1>f, <1>t, <2>1, <2>3 DEF FutureSessions
  <2>7. ASSUME cache'.held, NEW n \in 1..session,
               terminal'[n] = <<"SessionCompleted">>, n \notin leaving'
        PROVE  cache'.after >= n \/ cache'.stored >= n
    <3>1. CASE n = session
      <4>1. e = "SessionCompleted"
        BY <2>4, <2>7, <3>1
      <4> QED
        BY <4>1, <1>f, <2>7, <3>1
    <3>2. CASE n # session
      <4>1. n \in 1..Ended /\ terminal'[n] = terminal[n] /\ n \notin leaving
        BY <1>f, <1>t, <2>3, <2>7, <3>2 DEF Ended
      <4> QED
        BY <4>1, <1>f, <2>7 DEF Fresh
    <3> QED
      BY <3>1, <3>2
  <2>8. cache'.held => Fresh(cache)'
    BY <1>f, <2>7 DEF Fresh, Ended
  <2> QED
    BY <2>5, <2>6, <2>8
<1>1. CASE UNCHANGED vars
  BY <1>1, <1>t, <1>k DEF vars
<1>2. CASE Review
  BY <1>2, <1>k, <1>q DEF Review
<1>3. CASE \E m \in OperationMode, targets \in SUBSET Targets, d \in BOOLEAN : Execute(m, targets, d)
  <2>1. /\ pc = "idle" /\ pc' = "preflight" /\ session' = session + 1 /\ session < MaxSessions
        /\ UNCHANGED <<cache, terminal, leaving>>
    BY <1>3 DEF Execute
  <2>2. Ended' = Ended
    BY <2>1, <1>t DEF Ended
  <2>3. terminal[session + 1] = <<>>
    BY <2>1, <1>t DEF FutureSessions
  <2>4. OneTerminalEvent'
    <3> SUFFICES ASSUME NEW n \in 1..session + 1
                 PROVE  Len(terminal[n]) = IF n = session + 1 THEN 0 ELSE 1
      BY <2>1 DEF OneTerminalEvent
    <3>1. CASE n = session + 1
      BY <2>3, <3>1
    <3>2. CASE n # session + 1
      BY <2>1, <1>t, <3>2 DEF OneTerminalEvent
    <3> QED
      BY <3>1, <3>2
  <2>5. FutureSessions'
    BY <2>1, <1>t DEF FutureSessions
  <2> QED
    BY <2>1, <2>2, <2>4, <2>5, <1>t DEF Fresh
<1>4. CASE BuildPreflight
  BY <1>4, <1>b, <1>n DEF BuildPreflight
<1>5. CASE PreflightRaises
  BY <1>5, <1>f, <1>n DEF PreflightRaises, Leave
<1>6. CASE EngineReturns \/ EngineRaises \/ EngineTouches
  BY <1>6, <1>k, <1>t DEF EngineReturns, EngineRaises, EngineTouches
<1>7. CASE OpenSessionDir
  BY <1>7, <1>b, <1>t, ArtifactsAre DEF OpenSessionDir
<1>8. ASSUME NEW i \in DOMAIN Artifacts, WriteArtifact(i) PROVE Goal
  <2>1. pc \in Artifact /\ pc' \in Artifact \cup {"written"}
    BY <1>8, ArtifactsAre DEF WriteArtifact, AfterArtifact
  <2> QED
    BY <1>8, <2>1, <1>b, <1>t, ArtifactsAre DEF WriteArtifact
<1>9. CASE ReportRaises
  <2>1. pc # "idle"
    BY <1>9, ArtifactsAre DEF ReportRaises
  <2> QED
    BY <1>9, <2>1, <1>f, <1>t DEF ReportRaises, Leave
<1>10. CASE Complete
  BY <1>10, <1>f, <1>t DEF Complete, Leave
<1>11. ASSUME NEW n \in leaving, Invalidate(n) PROVE Goal
  <2>1. UNCHANGED <<pc, session, terminal>> /\ ~cache'.held
    BY <1>11, <1>s DEF Invalidate
  <2> QED
    BY <2>1, <1>t DEF OneTerminalEvent, FutureSessions
<1> QED
  BY <1>1, <1>2, <1>3, <1>4, <1>5, <1>6, <1>7, <1>8, <1>9, <1>10, <1>11 DEF Next, Work

LEMMA StepPreservesIInv == IInv /\ [Next]_vars => IInv'
BY StepKeepsTypeOK, StepKeepsTheSession, StepKeepsThePlans, StepKeepsHonesty, StepKeepsWritten, StepKeepsTheEvents
DEF IInv

-----------------------------------------------------------------------------
(* What follows for the program.                                           *)

\* The inductive invariant holds throughout.
THEOREM SpecKeepsIInv == Spec => []IInv
BY InitEstablishesIInv, StepPreservesIInv, PTL DEF Spec

\* Every variable keeps its type: plans, answers and artifacts are well-formed.
THEOREM TypeCorrect == Spec => []TypeOK
<1>1. IInv => TypeOK
  BY DEF IInv
<1> QED
  BY <1>1, SpecKeepsIInv, PTL

\* execution.py answers every plan, in order, whatever the engines raise.
THEOREM ResultsAreComplete == Spec => []ResultsFollowThePlans
<1>1. IInv => ResultsFollowThePlans
  BY DEF IInv
<1> QED
  BY <1>1, SpecKeepsIInv, PTL

\* A completed session has answered what it was asked, each target once, and in
\* file mode all of them.
THEOREM RequestIsAnswered == Spec => []ResultsAnswerTheRequest
<1>1. ASSUME IInv, pc = "written"
      PROVE  /\ \A i, j \in DOMAIN results : results[i].target = results[j].target => i = j
             /\ {results[i].target : i \in DOMAIN results} = {plans[i].target : i \in DOMAIN plans}
  <2>1. plans \in Seq(Plan) /\ results \in Seq(Answers) /\ Len(results) = Len(plans)
    BY <1>1 DEF IInv, TypeOK, ResultsFollowThePlans
  <2>2. DOMAIN results = DOMAIN plans /\ DOMAIN plans \subseteq Nat
    BY <2>1
  <2>3. \A i \in DOMAIN results : results[i].target = plans[i].target
    BY <1>1 DEF IInv, ResultsFollowThePlans
  <2>4. ASSUME NEW i \in DOMAIN plans PROVE plans[i].target \in Nat
    <3>1. plans[i] \in Plan
      BY <2>1
    <3> QED
      BY <3>1, SessionAssumption DEF Plan
  <2>5. ASSUME NEW i \in DOMAIN plans, NEW j \in DOMAIN plans, i # j
        PROVE  plans[i].target # plans[j].target
    <3>1. i < j \/ j < i
      BY <2>2, <2>5
    <3>2. plans[i].target < plans[j].target \/ plans[j].target < plans[i].target
      BY <1>1, <3>1 DEF IInv, PlansOfTheRequest
    <3> QED
      BY <2>4, <3>2
  <2> QED
    BY <2>2, <2>3, <2>5
<1>2. IInv => ResultsAnswerTheRequest
  BY <1>1 DEF ResultsAnswerTheRequest, IInv, PlansOfTheRequest
<1> QED
  BY <1>2, SpecKeepsIInv, PTL

\* No artifact that audit.py ever wrote claims an erasure that did not happen,
\* as long as the engines keep their contract.
THEOREM ReportsTellTheTruth == Spec => []ReportsAreHonest
<1>1. IInv => ReportsAreHonest
  BY DEF IInv, HonestAnswers, True, ReportsAreHonest
<1> QED
  BY <1>1, SpecKeepsIInv, PTL

\* The paths in SessionCompleted lead to that session's complete report.
THEOREM ReportsAreComplete == Spec => []CompletedSessionsAreReported
<1>1. ASSUME IInv, pc = "written", NEW a \in Artifact
      PROVE  reports[dir][a] = Content(session, results, TRUE)
  <2>1. Position = 6
    BY <1>1, PositionIs
  <2>2. PICK i \in DOMAIN Artifacts : a = Artifacts[i]
    BY DEF Artifact
  <2>3. i < 6
    BY ArtifactsAre
  <2> QED
    BY <1>1, <2>1, <2>2, <2>3 DEF IInv, Written
<1>2. IInv => CompletedSessionsAreReported
  BY <1>1 DEF CompletedSessionsAreReported
<1> QED
  BY <1>2, SpecKeepsIInv, PTL

\* SessionCompleted and SessionFailed exclude each other, and one of them comes.
THEOREM SessionsAnnounceTheirEnd == Spec => []OneTerminalEvent
<1>1. IInv => OneTerminalEvent
  BY DEF IInv
<1> QED
  BY <1>1, SpecKeepsIInv, PTL

\* orchestrator.py:117: a later session plans with nothing that was in the slot
\* when a completed one ended, outside the two windows the property names.
THEOREM LaterSessionsPlanAfresh == Spec => FreshInventoryAfterCompletion
<1>1. ASSUME IInv, BuildPreflight, cache'.held, NEW n \in 1..session - 1,
             terminal[n] = <<"SessionCompleted">>, n \notin leaving
      PROVE  cache'.after >= n \/ cache'.stored >= n
  <2>1. TypeOK /\ Shape /\ (cache.held => Fresh(cache)) /\ Ended = session - 1
    BY <1>1 DEF IInv, Ended, BuildPreflight
  <2>2. cache' \in Snapshot
    BY <1>1 DEF BuildPreflight
  <2>3. CASE cache' = cache
    BY <1>1, <2>1, <2>3 DEF Fresh
  <2>4. CASE cache' = Query(Ended)
    <3>1. Ended \in 0..MaxSessions
      BY <2>1, SlotTypes
    <3>2. Query(Ended).stored = Ended
      BY <2>1, <3>1, SlotTypes
    <3> QED
      BY <1>1, <2>1, <2>4, <3>1, <3>2
  <2>5. cache' # EmptySlot
    BY <1>1 DEF EmptySlot
  <2> QED
    BY <2>2, <2>3, <2>4, <2>5 DEF Snapshot
<1>2. ASSUME IInv, [Next]_vars, pc = "preflight", pc' = "engines" PROVE BuildPreflight
  <2>1. /\ "preflight" \notin Artifact /\ pc' # pc
    BY <1>2, ArtifactsAre
  <2>2. ASSUME NEW i \in DOMAIN Artifacts PROVE ~WriteArtifact(i)
    <3>1. Artifacts[i] \in Artifact
      BY DEF Artifact
    <3> QED
      BY <1>2, <2>1, <3>1 DEF WriteArtifact
  <2>3. ~(EngineReturns \/ EngineRaises \/ EngineTouches \/ OpenSessionDir \/ Complete)
    BY <1>2 DEF EngineReturns, EngineRaises, EngineTouches, OpenSessionDir, Complete, Busy
  <2>4. ~(PreflightRaises \/ ReportRaises)
    BY <1>2 DEF PreflightRaises, ReportRaises, Leave
  <2>5. ~UNCHANGED vars /\ ~Review /\ \A n \in leaving : ~Invalidate(n)
    BY <2>1 DEF vars, Review, Invalidate
  <2>6. \A m \in OperationMode, targets \in SUBSET Targets, d \in BOOLEAN : ~Execute(m, targets, d)
    BY <1>2 DEF Execute
  <2> QED
    BY <1>2, <2>2, <2>3, <2>4, <2>5, <2>6 DEF Next, Work
<1>3. IInv /\ [Next]_vars
        => [pc = "preflight" /\ pc' = "engines" /\ cache'.held =>
              \A n \in 1..session - 1 :
                terminal[n] = <<"SessionCompleted">> /\ n \notin leaving
                  => cache'.after >= n \/ cache'.stored >= n]_vars
  BY <1>1, <1>2
<1> QED
  BY <1>3, SpecKeepsIInv, PTL DEF Spec, FreshInventoryAfterCompletion

-----------------------------------------------------------------------------
(* Execution implements SessionContract.                                   *)

\* The request of the refinement mapping is the arguments of execute().
Asked == IF session = 0 \/ Len(terminal[session]) > 0 THEN NoRequest ELSE request
AskedIsTheRequest == Asked = request

LEMMA RequestIs == IInv => AskedIsTheRequest
<1> SUFFICES ASSUME IInv PROVE Asked = request
  BY DEF AskedIsTheRequest
<1>1. session \in 0..MaxSessions /\ MaxSessions \in Nat
  BY SessionAssumption DEF IInv, TypeOK
<1>2. CASE pc = "idle"
  <2>1. session = 0 \/ Len(terminal[session]) = 1
    BY <1>1, <1>2 DEF IInv, OneTerminalEvent
  <2> QED
    BY <1>2, <2>1 DEF IInv, Shape, Asked
<1>3. CASE pc # "idle"
  <2>1. session \in 1..MaxSessions /\ Len(terminal[session]) = 0
    BY <1>1, <1>3 DEF IInv, Shape, OneTerminalEvent
  <2> QED
    BY <1>1, <2>1 DEF Asked
<1> QED
  BY <1>2, <1>3

LEMMA RequestIsNext == IInv' => AskedIsTheRequest'
BY RequestIs, PTL

LEMMA StepRefines == IInv /\ IInv' /\ [Next]_vars => [Contract!Next]_(Contract!vars)
<1> SUFFICES ASSUME IInv, IInv', [Next]_vars PROVE [Contract!Next]_(Contract!vars)
  OBVIOUS
<1>r. /\ (IF session = 0 \/ Len(terminal[session]) > 0 THEN NoRequest ELSE request) = request
      /\ (IF session = 0 \/ Len(terminal[session]) > 0 THEN NoRequest ELSE request)' = request'
  BY RequestIs, RequestIsNext DEF AskedIsTheRequest, Asked
<1>t. TypeOK /\ Shape
  BY DEF IInv
<1>a. "idle" \notin Artifact
  BY ArtifactsAre
<1>n. pc # "idle" => request # NoRequest
  BY <1>t DEF Shape, NoRequest
<1>c. Contract!NoRequest = NoRequest
  BY DEF Contract!NoRequest, NoRequest
<1>1. ASSUME UNCHANGED <<session, request, leaving>> PROVE UNCHANGED Contract!vars
  BY <1>1, <1>r DEF Contract!vars
<1>2. ASSUME NEW m \in OperationMode, NEW targets \in SUBSET Targets, NEW d \in BOOLEAN,
             Execute(m, targets, d)
      PROVE  Contract!Begin
  <2>1. request' \in Contract!Arguments
    BY <1>2 DEF Execute, Contract!Arguments, Contract!OperationMode, OperationMode
  <2> QED
    BY <1>2, <1>c, <1>r, <1>t, <2>1 DEF Execute, Shape, Contract!Begin
<1>3. CASE PreflightRaises \/ ReportRaises
  <2>1. pc # "idle" /\ request' = NoRequest /\ UNCHANGED <<session, leaving>>
    BY <1>3, <1>a DEF PreflightRaises, ReportRaises, Leave
  <2> QED
    BY <1>c, <1>n, <1>r, <2>1 DEF Contract!Fail, Contract!End, Contract!Next
<1>4. CASE Complete
  <2>1. /\ pc # "idle" /\ request' = NoRequest /\ UNCHANGED session
        /\ leaving' = leaving \cup {session}
    BY <1>4 DEF Complete, Leave
  <2> QED
    BY <1>c, <1>n, <1>r, <2>1 DEF Contract!Complete, Contract!End, Contract!Next
<1>5. ASSUME NEW n \in leaving, Invalidate(n) PROVE Contract!Return
  BY <1>5, <1>r DEF Invalidate, Contract!Return
<1>6. CASE \/ UNCHANGED vars \/ Review \/ BuildPreflight \/ EngineReturns \/ EngineRaises
           \/ EngineTouches \/ OpenSessionDir \/ \E i \in DOMAIN Artifacts : WriteArtifact(i)
  <2>1. UNCHANGED <<session, request, leaving>>
    BY <1>6 DEF vars, Review, BuildPreflight, EngineReturns, EngineRaises, EngineTouches,
                OpenSessionDir, WriteArtifact
  <2> QED
    BY <1>1, <2>1
<1> QED
  BY <1>2, <1>3, <1>4, <1>5, <1>6 DEF Next, Work, Contract!Next

\* Whatever raises, a session is to the window what SessionContract says: it
\* keeps its arguments until it announces its one end, and returns at most once.
THEOREM SessionsKeepTheirContract == Spec => ImplementsContract
<1>1. Init => Contract!Init
  BY DEF Init, Contract!Init, Contract!NoRequest, NoRequest
<1>2. IInv /\ IInv' /\ [Next]_vars => [Contract!Next]_(Contract!vars)
  BY StepRefines
<1> QED
  BY <1>1, <1>2, SpecKeepsIInv, PTL DEF Spec, ImplementsContract, Contract!Spec

-----------------------------------------------------------------------------
(* Every step of a session's thread uses up one of a bounded number.       *)

\* StepsLeft at each place.
StepsLeftAre ==
  /\ pc = "idle" => StepsLeft = 0
  /\ pc = "preflight" => StepsLeft = 8 + Cardinality(request.targets)
  /\ pc = "engines" => StepsLeft = 7 + Len(plans) - Len(results)
  /\ pc = "jsonl" => StepsLeft = 6
  /\ pc = "csv" => StepsLeft = 5
  /\ pc = "html" => StepsLeft = 4
  /\ pc = "pdf" => StepsLeft = 3
  /\ pc = "bundle" => StepsLeft = 2
  /\ pc = "written" => StepsLeft = 1

LEMMA StepsLeftIs == StepsLeftAre
BY ArtifactsAre DEF StepsLeftAre, StepsLeft

LEMMA StepsLeftIsNext == StepsLeftAre'
BY StepsLeftIs, PTL

\* There are no more plans than targets, in either mode.
LEMMA PlansAreBounded ==
  ASSUME TypeOK, BuildPreflight
  PROVE  /\ Len(plans') \in Nat /\ Cardinality(request.targets) \in Nat
         /\ Len(plans') <= Cardinality(request.targets)
<1>1. PICK inventory \in Snapshot :
        \E targets \in Planned(inventory) : plans' \in [1..Cardinality(targets) -> Plan]
  BY DEF BuildPreflight
<1>2. PICK targets \in Planned(inventory) : plans' \in [1..Cardinality(targets) -> Plan]
  BY <1>1
<1>3. targets \subseteq request.targets /\ request.targets \subseteq Targets
  BY <1>2 DEF Planned, TypeOK, Requests
<1>4. IsFiniteSet(request.targets)
  BY <1>3, SessionAssumption, FS_Subset
<1>5. /\ Cardinality(targets) \in Nat /\ Cardinality(request.targets) \in Nat
      /\ Cardinality(targets) <= Cardinality(request.targets)
  BY <1>3, <1>4, FS_Subset, FS_CardinalityType
<1> QED
  BY <1>2, <1>5

\* A session of any number of targets comes to its end: its thread has a bounded
\* number of steps to take, and nothing that raises or runs beside it adds one.
THEOREM SessionsAreBounded == Spec => EveryStepCounts
<1>a. /\ Artifact = {"jsonl", "csv", "html", "pdf", "bundle"} /\ DOMAIN Artifacts = 1..5
      /\ Artifacts[1] = "jsonl" /\ Artifacts[2] = "csv" /\ Artifacts[3] = "html"
      /\ Artifacts[4] = "pdf" /\ Artifacts[5] = "bundle" /\ Len(Artifacts) = 5
  BY ArtifactsAre
<1>1. ASSUME IInv, IInv', Work PROVE StepsLeft' \in 0..StepsLeft - 1
  <2>t. TypeOK /\ Shape /\ ResultsFollowThePlans /\ ResultsFollowThePlans'
    BY <1>1 DEF IInv
  <2>l. /\ Len(plans) \in Nat /\ Len(results) \in Nat /\ Len(results) <= Len(plans)
        /\ Len(plans') \in Nat /\ Len(results') \in Nat /\ Len(results') <= Len(plans')
    BY <1>1 DEF IInv, TypeOK, ResultsFollowThePlans
  <2>s. StepsLeftAre /\ StepsLeftAre'
    BY StepsLeftIs, StepsLeftIsNext
  <2>1. CASE BuildPreflight
    <3>1. pc = "preflight" /\ pc' = "engines"
      BY <2>1 DEF BuildPreflight
    <3>2. Len(plans') <= Cardinality(request.targets) /\ Cardinality(request.targets) \in Nat
      BY <2>1, <2>t, PlansAreBounded
    <3> QED
      BY <2>l, <2>s, <3>1, <3>2 DEF StepsLeftAre
  <2>2. CASE PreflightRaises \/ ReportRaises \/ Complete
    <3>1. /\ pc \in {"preflight", "engines", "written"} \cup Artifact /\ pc' = "idle"
          /\ pc = "preflight" => Cardinality(request.targets) \in Nat
      <4>1. request.targets \subseteq Targets
        BY <2>t DEF TypeOK, Requests
      <4>2. Cardinality(request.targets) \in Nat
        BY <4>1, SessionAssumption, FS_Subset, FS_CardinalityType
      <4> QED
        BY <2>2, <4>2 DEF PreflightRaises, ReportRaises, Complete, Leave
    <3> QED
      BY <1>a, <2>l, <2>s, <3>1 DEF StepsLeftAre
  <2>3. CASE EngineReturns \/ EngineRaises
    <3>1. PICK r \in Result : results' = Answered(r)
      BY <2>3, <2>t, AnswerTypes DEF EngineReturns, EngineRaises, BuildFailureResult
    <3>2. Busy /\ UNCHANGED <<pc, plans>>
      BY <2>3 DEF EngineReturns, EngineRaises
    <3>3. Len(results') = Len(results) + 1
      BY <2>t, <3>1, <3>2, AnswerTypes
    <3> QED
      BY <2>l, <2>s, <3>2, <3>3 DEF StepsLeftAre, Busy
  <2>4. CASE OpenSessionDir
    BY <1>a, <2>l, <2>s, <2>4 DEF OpenSessionDir, StepsLeftAre
  <2>5. ASSUME NEW i \in DOMAIN Artifacts, WriteArtifact(i) PROVE StepsLeft' \in 0..StepsLeft - 1
    <3>1. i \in {1, 2, 3, 4, 5}
      BY <1>a
    <3> QED
      BY <1>a, <2>s, <2>5, <3>1 DEF WriteArtifact, AfterArtifact, StepsLeftAre
  <2> QED
    BY <1>1, <2>1, <2>2, <2>3, <2>4, <2>5 DEF Work
<1>2. ASSUME Next, ~Work, pc # "idle" PROVE StepsLeft' = StepsLeft
  <2>1. UNCHANGED <<pc, request, plans, results>>
    BY <1>2 DEF Next, EngineTouches, Invalidate, Review, Execute
  <2> QED
    BY <2>1 DEF StepsLeft
<1>3. IInv /\ IInv' /\ [Next]_vars
        => [pc # "idle" => IF Work THEN StepsLeft' \in 0..StepsLeft - 1
                                   ELSE StepsLeft' = StepsLeft]_vars
  BY <1>1, <1>2
<1> QED
  BY <1>3, SpecKeepsIInv, PTL DEF Spec, EveryStepCounts
=============================================================================
