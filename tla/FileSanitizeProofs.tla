------------------------- MODULE FileSanitizeProofs -------------------------
(***************************************************************************)
(* The file engine for files of every size: its type invariant, the        *)
(* safety properties that MCFileSanitize checks on three chunks, and that  *)
(* every behaviour of the engine is one of the contract SanitizeEngine.    *)
(* What depends on GetLastError telling a failure as one is stated under   *)
(* the assumption ~StaleLastError; the rest holds without it.              *)
(***************************************************************************)
EXTENDS FileSanitize, SequenceTheorems, TLAPS

Admitted == plan.executable /\ ~plan.dry_run

NativePCs == {"native", "n_size", "n_zero", "n_random", "n_truncate", "n_cleanup",
              "n_delete", "n_return"}
Trusting == {"p_random", "p_rename", "p_truncate", "p_delete", "p_check"}

-----------------------------------------------------------------------------
(* The inductive invariant.                                                *)

\* Only an admitted plan gets to work.
Admission ==
  /\ pc \notin {"start", "returned"} => Admitted
  /\ ~Admitted => Untouched

\* The native passes go over the whole file, one chunk after the other.
NativePasses ==
  /\ pc \in {"start", "native", "n_size"} => ~truncated
  /\ pc \in {"n_zero", "n_random", "n_truncate"} => ~truncated /\ size = Len(content)
  /\ pc \in {"n_zero", "n_random"} => pos = size - remaining
  /\ pc = "n_zero" => \A k \in 1..pos : content[k] # "data"
  /\ pc = "n_random" \/ pc = "n_truncate" => Overwritten
  /\ pc \in NativePCs \cup {"start"} => path = "target" \/ pc = "n_return"

\* What the fallback knows before it removes anything.
Verification ==
  /\ pc \in {"p_zero", "p_verify", "p_random"} => size = FileSize
  /\ pc \in Trusting => verified
  /\ pc \in NativePCs \cup {"start", "python", "p_zero", "p_verify"} => ~verified
  /\ truncated \/ verified \/ path = "renamed" => Overwritten

Results ==
  /\ pc # "returned" => result = NoResult
  /\ pc = "returned" =>
       IF plan.dry_run THEN result = DryRunResult
       ELSE result = Failure \/ (result = Success /\ Admitted)
  /\ FallbackSuccessLeavesNothing

IInv == TypeOK /\ Admission /\ NativePasses /\ Verification /\ Results

\* What code 0 means while a failure never leaves it at 0.
CodeIsTrue ==
  /\ pc \in {"n_cleanup", "n_return"} => (code = 0 => truncated)
  /\ pc = "n_delete" => truncated
  /\ pc = "returned" /\ result = Success => truncated \/ verified
  /\ ReleasedOnlyWhenOverwritten

-----------------------------------------------------------------------------
(* Facts about plans and about one write.                                  *)

\* The fields of a file plan are what the engine takes them for.
LEMMA FilePlanFields ==
  ASSUME NEW p \in FilePlans
  PROVE  p.dry_run \in BOOLEAN /\ p.executable \in BOOLEAN /\ p.is_ads \in BOOLEAN
<1>1. PICK q \in PathFacts, d \in BOOLEAN : p = CreateFilePlan(q, d)
  BY DEF FilePlans
<1>2. q.is_ads \in BOOLEAN /\ FileAllowed(q) \in BOOLEAN
  BY DEF PathFacts, FileAllowed
<1> QED
  BY <1>1, <1>2 DEF CreateFilePlan

\* A write replaces one chunk of the file and leaves its length alone; it
\* never brings data back.
LEMMA PutKeepsTheFile ==
  ASSUME TypeOK, remaining > 0, NEW v \in {"zero", "random"}, Put(v),
         UNCHANGED <<truncated, path>>
  PROVE  /\ content' \in Seq(Blocks) /\ Len(content') = Len(content)
         /\ pos + 1 \in 1..Len(content)
         /\ \A k \in 1..Len(content) : content'[k] = IF k = pos + 1 THEN v ELSE content[k]
         /\ Overwritten => Overwritten'
         /\ ~Untouched'
<1>1. pos + 1 \in 1..Len(content) /\ Len(content) \in Nat
  BY BlocksAssumption DEF TypeOK
<1>2. v \in Blocks /\ v # "data"
  BY DEF Blocks
<1>3. content' = [content EXCEPT ![pos + 1] = v]
  BY DEF Put
<1>4. /\ content' \in Seq(Blocks) /\ Len(content') = Len(content)
      /\ \A k \in 1..Len(content) : content'[k] = IF k = pos + 1 THEN v ELSE content[k]
  BY <1>1, <1>2, <1>3, ExceptSeq DEF TypeOK
<1>5. DOMAIN content = 1..Len(content) /\ DOMAIN content' = 1..Len(content)
  BY <1>4, LenProperties DEF TypeOK
<1>6. Overwritten => Overwritten'
  BY <1>2, <1>4, <1>5 DEF Overwritten
<1>7. ~Untouched'
  BY <1>1, <1>2, <1>4, <1>5 DEF Untouched
<1> QED
  BY <1>1, <1>4, <1>6, <1>7

\* What is unchanged with the file.
LEMMA FileUnchanged ==
  ASSUME UNCHANGED file
  PROVE  /\ content' = content /\ truncated' = truncated /\ path' = path
         /\ Overwritten' = Overwritten /\ Untouched' = Untouched
         /\ FileSize' = FileSize
BY DEF file, Overwritten, Untouched, FileSize

-----------------------------------------------------------------------------
(* IInv is inductive.                                                      *)

LEMMA InitEstablishesIInv == Init => IInv
<1> SUFFICES ASSUME Init PROVE IInv
  OBVIOUS
<1>1. PICK n \in 0..MaxBlocks : content = [k \in 1..n |-> "data"]
  BY DEF Init
<1>2. content \in Seq(Blocks) /\ Len(content) = n /\ DOMAIN content = 1..n
  BY <1>1, BlocksAssumption DEF Blocks
<1>3. TypeOK
  <2>1. NoResult \in ExecutionResult
    BY DEF NoResult, ExecutionResult, AssuranceLevel
  <2>2. content \in Seq(Blocks) /\ Len(content) <= MaxBlocks /\ 0 \in 0..Len(content)
    BY <1>2, BlocksAssumption
  <2>3. /\ plan \in FilePlans /\ native \in BOOLEAN /\ pc = "start" /\ ~truncated
        /\ truncated \in BOOLEAN /\ path = "target" /\ size = 0 /\ remaining = 0 /\ pos = 0
        /\ code = 0 /\ verified \in BOOLEAN /\ result = NoResult
    BY DEF Init
  <2> QED
    BY <2>1, <2>2, <2>3 DEF TypeOK, PCs
<1>4. Untouched
  BY <1>1, <1>2 DEF Init, Untouched
<1>5. Admission /\ NativePasses
  BY <1>4 DEF Init, Admission, NativePasses, NativePCs
<1>6. Verification /\ Results
  BY DEF Init, Verification, Results, FallbackSuccessLeavesNothing, NativePCs, Trusting
<1> QED
  BY <1>3, <1>5, <1>6 DEF IInv

LEMMA StepPreservesIInv == IInv /\ [Next]_vars => IInv'
<1> SUFFICES ASSUME IInv, [Next]_vars PROVE IInv'
  OBVIOUS
<1> USE BlocksAssumption DEF NativePCs, Trusting
<1>p. plan.dry_run \in BOOLEAN /\ plan.executable \in BOOLEAN /\ plan.is_ads \in BOOLEAN
  BY FilePlanFields DEF IInv, TypeOK
<1>t. /\ Success \in ExecutionResult /\ Failure \in ExecutionResult
      /\ DryRunResult \in ExecutionResult
  BY DEF Success, Failure, DryRunResult, ExecutionResult, AssuranceLevel
<1>l. Len(content) \in Nat /\ DOMAIN content = 1..Len(content)
  BY LenProperties DEF IInv, TypeOK
<1>z. /\ FileSize \in Nat /\ FileSize <= Len(content)
      /\ ~truncated => FileSize = Len(content)
  BY <1>l DEF IInv, TypeOK, FileSize
<1>u. UNCHANGED loop => UNCHANGED <<size, remaining, pos>>
  BY DEF loop
<1>1. CASE DryRun \/ Refuse \/ Begin
  BY <1>1, <1>p, <1>t, <1>u, FileUnchanged
  DEF DryRun, Refuse, Begin, IInv, TypeOK, PCs, Admission, Admitted, NativePasses,
      Verification, Results, FallbackSuccessLeavesNothing
<1>2. CASE Native
  <2>1. CASE NativeOpen \/ NativeOpenFails \/ NativeSizeFails \/ NativeWriteFails
             \/ NativeFlushFails \/ NativeTruncateFails \/ NativeCleanup \/ NativeDeleteFails
    <3>1. SetError \subseteq {0, 1} /\ UnsetError \subseteq {0, 1}
      BY DEF SetError, UnsetError
    <3>2. /\ UNCHANGED <<plan, native, file, size, remaining, pos, verified, result>>
          /\ pc \in NativePCs \ {"n_return"}
          /\ \/ pc = "native" /\ pc' = "n_size"
             \/ pc' \in {"n_cleanup", "n_delete", "n_return"}
          /\ code' \in {0, 1}
      BY <2>1, <3>1, <1>u
      DEF NativeOpen, NativeOpenFails, NativeSizeFails, NativeWriteFails, NativeFlushFails,
          NativeTruncateFails, NativeCleanup, NativeDeleteFails, NativeFail, IInv, TypeOK
    <3>3. TypeOK' /\ Admission'
      BY <3>2, FileUnchanged DEF IInv, TypeOK, PCs, Admission, Admitted
    <3>4. NativePasses' /\ Verification' /\ Results'
      BY <3>2, FileUnchanged
      DEF IInv, NativePasses, Verification, Results, FallbackSuccessLeavesNothing
    <3> QED
      BY <3>3, <3>4 DEF IInv
  <2>2. CASE NativeSize
    BY <2>2, <1>z, <1>l, FileUnchanged
    DEF NativeSize, BeginPass, IInv, TypeOK, PCs, Admission, Admitted, NativePasses,
        Verification, Results, FallbackSuccessLeavesNothing
  <2>3. CASE NativeWrite
    <3>1. PICK v \in {"zero", "random"} :
            Put(v) /\ pc = IF v = "zero" THEN "n_zero" ELSE "n_random"
      BY <2>3 DEF NativeWrite
    <3>2. /\ content' \in Seq(Blocks) /\ Len(content') = Len(content)
          /\ pos + 1 \in 1..Len(content)
          /\ \A k \in 1..Len(content) : content'[k] = IF k = pos + 1 THEN v ELSE content[k]
          /\ Overwritten => Overwritten'
          /\ ~Untouched'
      BY <2>3, <3>1, PutKeepsTheFile DEF NativeWrite, IInv
    <3>3. TypeOK'
      BY <2>3, <3>1, <3>2, <1>l DEF NativeWrite, Put, IInv, TypeOK, NativePasses
    <3>4. NativePasses'
      BY <2>3, <3>1, <3>2, <1>l DEF NativeWrite, Put, IInv, TypeOK, NativePasses
    <3>5. Admission' /\ Verification' /\ Results'
      BY <2>3, <3>1, <3>2
      DEF NativeWrite, IInv, TypeOK, Admission, Admitted, Verification, Results,
          FallbackSuccessLeavesNothing
    <3> QED
      BY <3>3, <3>4, <3>5 DEF IInv
  <2>4. CASE NativeFlush
    <3>1. pc = "n_zero" => Overwritten
      BY <2>4, <1>l DEF NativeFlush, IInv, TypeOK, NativePasses, Overwritten
    <3>2. TypeOK' /\ Admission'
      BY <2>4, <1>l, <1>u, FileUnchanged
      DEF NativeFlush, BeginPass, IInv, TypeOK, PCs, Admission, Admitted
    <3>3. NativePasses'
      <4>1. UNCHANGED file /\ ~truncated /\ size = Len(content) /\ path = "target" /\ Overwritten
        BY <2>4, <3>1 DEF NativeFlush, IInv, NativePasses
      <4>2. CASE pc = "n_zero"
        BY <2>4, <4>1, <4>2, <1>l, FileUnchanged
        DEF NativeFlush, BeginPass, IInv, TypeOK, NativePasses
      <4>3. CASE pc = "n_random"
        BY <2>4, <4>1, <4>3, <1>u, FileUnchanged DEF NativeFlush, NativePasses
      <4> QED
        BY <2>4, <4>2, <4>3 DEF NativeFlush
    <3>4. Verification' /\ Results'
      BY <2>4, FileUnchanged
      DEF NativeFlush, IInv, Verification, Results, FallbackSuccessLeavesNothing
    <3> QED
      BY <3>2, <3>3, <3>4 DEF IInv
  <2>5. CASE NativeTruncate \/ NativeDelete
    <3>1. (Overwritten' = Overwritten /\ ~Untouched') \/ UNCHANGED file
      BY <2>5 DEF NativeTruncate, NativeDelete, Overwritten, Untouched, file, IInv, NativePasses
    <3>2. TypeOK' /\ Admission'
      BY <2>5, <3>1, <1>u, FileUnchanged
      DEF NativeTruncate, NativeDelete, IInv, TypeOK, PCs, Admission, Admitted
    <3>3. NativePasses' /\ Verification' /\ Results'
      BY <2>5, <3>1, <1>u, FileUnchanged
      DEF NativeTruncate, NativeDelete, IInv, NativePasses, Verification, Results,
          FallbackSuccessLeavesNothing
    <3> QED
      BY <3>2, <3>3 DEF IInv
  <2>6. CASE NativeReturn
    BY <2>6, <1>t, <1>u, FileUnchanged
    DEF NativeReturn, IInv, TypeOK, PCs, Admission, Admitted, NativePasses,
        Verification, Results, FallbackSuccessLeavesNothing
  <2> QED
    BY <1>2, <2>1, <2>2, <2>3, <2>4, <2>5, <2>6 DEF Native
<1>3. CASE Python
  <2>1. CASE PythonOpen
    <3>0. /\ size' \in 0..Len(content) /\ remaining' \in 0..size'
          /\ pos' \in 0..(size' - remaining')
      <4>1. PICK n \in Nat : n = FileSize /\ n <= Len(content)
        BY <1>z
      <4>2. size' = n /\ remaining' = n /\ pos' = 0
        BY <2>1, <4>1 DEF PythonOpen, BeginPass
      <4> QED
        BY <4>1, <4>2, <1>l
    <3>1. TypeOK' /\ Admission'
      BY <2>1, <3>0, FileUnchanged DEF PythonOpen, IInv, TypeOK, PCs, Admission, Admitted
    <3>2. NativePasses' /\ Verification' /\ Results'
      BY <2>1, FileUnchanged
      DEF PythonOpen, BeginPass, IInv, NativePasses, Verification, Results,
          FallbackSuccessLeavesNothing
    <3> QED
      BY <3>1, <3>2 DEF IInv
  <2>2. CASE PythonWrite
    <3>1. CASE UNCHANGED <<content, pos>>
      <4>1. UNCHANGED file
        BY <2>2, <3>1 DEF PythonWrite, file
      <4> QED
        BY <2>2, <3>1, <4>1, FileUnchanged
        DEF PythonWrite, IInv, TypeOK, Admission, Admitted, NativePasses, Verification,
            Results, FallbackSuccessLeavesNothing
    <3>2. CASE \E v \in {"zero", "random"} : Put(v)
      <4>1. PICK v \in {"zero", "random"} : Put(v)
        BY <3>2
      <4>2. /\ content' \in Seq(Blocks) /\ Len(content') = Len(content)
            /\ pos + 1 \in 1..Len(content)
            /\ Overwritten => Overwritten'
            /\ ~Untouched'
        BY <2>2, <4>1, PutKeepsTheFile DEF PythonWrite, IInv
      <4>3. TypeOK'
        BY <2>2, <4>1, <4>2, <1>l DEF PythonWrite, Put, IInv, TypeOK
      <4>4. FileSize' = FileSize
        BY <2>2, <4>2 DEF PythonWrite, FileSize
      <4>5. Admission' /\ NativePasses' /\ Verification' /\ Results'
        BY <2>2, <4>2, <4>4
        DEF PythonWrite, IInv, TypeOK, Admission, Admitted, NativePasses, Verification,
            Results, FallbackSuccessLeavesNothing
      <4> QED
        BY <4>3, <4>5 DEF IInv
    <3> QED
      BY <2>2, <3>1, <3>2 DEF PythonWrite
  <2>3. CASE PythonFlushZero \/ PythonVerifyFails \/ PythonFlushRandom \/ PythonRaises
             \/ PythonCheckFails
    BY <2>3, <1>p, <1>u, FileUnchanged
    DEF PythonFlushZero, PythonVerifyFails, PythonFlushRandom, PythonRaises,
        PythonCheckFails, IInv, TypeOK, PCs, Admission, Admitted, NativePasses,
        Verification, Results, FallbackSuccessLeavesNothing
  <2>4. CASE PythonVerify
    <3>1. Overwritten
      <4>1. CASE truncated
        BY <4>1 DEF IInv, Verification
      <4>2. CASE ~truncated
        BY <2>4, <4>2, <1>z, <1>l DEF PythonVerify, ReadsZero, Overwritten
      <4> QED
        BY <4>1, <4>2 DEF IInv, TypeOK
    <3> QED
      BY <2>4, <3>1, <1>l, FileUnchanged
      DEF PythonVerify, BeginPass, IInv, TypeOK, PCs, Admission, Admitted, NativePasses,
          Verification, Results, FallbackSuccessLeavesNothing
  <2>5. CASE PythonRename \/ PythonTruncate \/ PythonDelete
    <3>1. Overwritten' = Overwritten
      BY <2>5 DEF PythonRename, PythonTruncate, PythonDelete, Overwritten
    <3> QED
      BY <2>5, <3>1, <1>u
      DEF PythonRename, PythonTruncate, PythonDelete, IInv, TypeOK, PCs, Admission,
          Admitted, NativePasses, Verification, Results, FallbackSuccessLeavesNothing
  <2>6. CASE PythonCheck
    BY <2>6, <1>t, <1>u, FileUnchanged
    DEF PythonCheck, IInv, TypeOK, PCs, Admission, Admitted, NativePasses,
        Verification, Results, FallbackSuccessLeavesNothing
  <2> QED
    BY <1>3, <2>1, <2>2, <2>3, <2>4, <2>5, <2>6 DEF Python
<1>4. CASE UNCHANGED vars
  BY <1>4, <1>u, FileUnchanged
  DEF vars, IInv, TypeOK, Admission, Admitted, NativePasses, Verification, Results,
      FallbackSuccessLeavesNothing
<1> QED
  BY <1>1, <1>2, <1>3, <1>4 DEF Next, Execute, Done

THEOREM SpecKeepsIInv == Spec => []IInv
<1> QED
  BY InitEstablishesIInv, StepPreservesIInv, PTL DEF Spec

\* Every variable stays in its type.
THEOREM TypeCorrect == Spec => []TypeOK
<1>1. IInv => TypeOK
  BY DEF IInv
<1> QED
  BY <1>1, SpecKeepsIInv, PTL

-----------------------------------------------------------------------------
(* What holds whatever GetLastError returns.                               *)

\* What is hidden under a random name holds no original data.
THEOREM RenamedIsOverwritten == Spec => []RenamedHoldsNoData
<1>1. IInv => RenamedHoldsNoData
  BY DEF IInv, Verification, RenamedHoldsNoData
<1> QED
  BY <1>1, SpecKeepsIInv, PTL

\* A success of the fallback leaves neither data nor a name.
THEOREM FallbackSuccessIsComplete == Spec => []FallbackSuccessLeavesNothing
<1>1. IInv => FallbackSuccessLeavesNothing
  BY DEF IInv, Results
<1> QED
  BY <1>1, SpecKeepsIInv, PTL

\* The fallback renames, truncates and deletes only what it has read back.
THEOREM RemovalFollowsVerification == Spec => PythonRemovesOnlyVerified
<1>1. IInv /\ [Next]_vars =>
        [(pc \in {"p_rename", "p_truncate", "p_delete"} /\ file' # file) => verified]_vars
  BY DEF IInv, Verification, Trusting
<1> QED
  BY <1>1, SpecKeepsIInv, PTL DEF Spec, PythonRemovesOnlyVerified

-----------------------------------------------------------------------------
(* Every step of execute uses up one of a bounded number.                  *)

\* StepsLeft place by place, for a file of a given number of chunks.
StepsLeftAre(whole) ==
  /\ whole = Len(content) /\ whole \in Nat /\ FileSize \in 0..whole
  /\ size \in 0..whole /\ remaining \in 0..size
  /\ pc \in {"returned", "raised"} => StepsLeft = 0
  /\ pc = "p_check" => StepsLeft = 1
  /\ pc = "p_delete" => StepsLeft = 2
  /\ pc = "p_truncate" => StepsLeft = 3
  /\ pc = "p_rename" => StepsLeft = 4
  /\ pc = "p_random" => StepsLeft = 5 + remaining
  /\ pc = "p_verify" => StepsLeft = 6 + size
  /\ pc = "p_zero" => StepsLeft = 7 + size + remaining
  /\ pc = "python" => StepsLeft = 8 + 2 * whole
  /\ pc = "n_return" => StepsLeft = 9 + 2 * whole
  /\ pc = "n_delete" => StepsLeft = 10 + 2 * whole
  /\ pc = "n_cleanup" => StepsLeft = 11 + 2 * whole
  /\ pc = "n_truncate" => StepsLeft = 12 + 2 * whole
  /\ pc = "n_random" => StepsLeft = 13 + 2 * whole + remaining
  /\ pc = "n_zero" => StepsLeft = 14 + 2 * whole + size + remaining
  /\ pc = "n_size" => StepsLeft = 15 + 4 * whole
  /\ pc = "native" => StepsLeft = 16 + 4 * whole
  /\ pc = "start" => StepsLeft = 17 + 4 * whole

LEMMA StepsLeftIs == IInv => StepsLeftAre(Len(content))
<1> SUFFICES ASSUME IInv PROVE StepsLeftAre(Len(content))
  OBVIOUS
<1>1. Len(content) \in Nat /\ size \in 0..Len(content) /\ remaining \in 0..size
  BY DEF IInv, TypeOK
<1>2. FileSize \in 0..Len(content)
  BY <1>1 DEF FileSize
<1> QED
  BY <1>1, <1>2 DEF StepsLeftAre, StepsLeft

LEMMA StepsLeftIsNext == IInv' => StepsLeftAre(Len(content))'
BY StepsLeftIs, PTL

\* Both implementations, one after the other, have a bounded number of steps for
\* a file of any size, whatever code a failing call leaves.
THEOREM ExecuteIsBounded == Spec => EveryStepCounts
<1>1. ASSUME IInv, IInv', Execute PROVE StepsLeft' \in 0..StepsLeft - 1
  <2>1. Len(content') = Len(content)
    <3>1. CASE UNCHANGED content
      BY <3>1
    <3>2. CASE NativeWrite \/ PythonWrite
      <4>1. UNCHANGED content \/ \E v \in {"zero", "random"} : Put(v)
        BY <3>2 DEF NativeWrite, PythonWrite
      <4>2. remaining > 0 /\ UNCHANGED <<truncated, path>>
        BY <3>2 DEF NativeWrite, PythonWrite
      <4> QED
        BY <1>1, <3>1, <4>1, <4>2, PutKeepsTheFile DEF IInv
    <3> QED
      BY <1>1, <3>1, <3>2 DEF Execute, DryRun, Refuse, Begin, Native, NativeOpen, NativeOpenFails,
         NativeSize, NativeSizeFails, NativeWriteFails, NativeFlush, NativeFlushFails,
         NativeTruncate, NativeTruncateFails, NativeCleanup, NativeDelete, NativeDeleteFails,
         NativeReturn, NativeFail, Python, PythonOpen, PythonFlushZero, PythonVerify,
         PythonVerifyFails, PythonFlushRandom, PythonRename, PythonTruncate, PythonDelete,
         PythonCheck, PythonCheckFails, PythonRaises, file
  <2> DEFINE whole == Len(content)
  <2>2. StepsLeftAre(whole) /\ StepsLeftAre(whole)'
    BY <1>1, StepsLeftIs, StepsLeftIsNext
  <2>3. whole' = whole
    BY <2>1
  <2> HIDE DEF whole
  <2> USE <2>2, <2>3 DEF StepsLeftAre
  <2>4. CASE DryRun \/ Refuse \/ Begin
    BY <2>4 DEF DryRun, Refuse, Begin
  <2>5. CASE NativeOpen \/ NativeOpenFails \/ NativeSize \/ NativeSizeFails
    BY <2>5 DEF NativeOpen, NativeOpenFails, NativeSize, NativeSizeFails, NativeFail, BeginPass
  <2>6. CASE NativeWrite \/ NativeWriteFails
    BY <2>6 DEF NativeWrite, NativeWriteFails, NativeFail, loop
  <2>7. CASE NativeFlush \/ NativeFlushFails
    BY <2>7 DEF NativeFlush, NativeFlushFails, NativeFail, BeginPass, loop
  <2>8. CASE NativeTruncate \/ NativeTruncateFails \/ NativeCleanup \/ NativeDelete \/ NativeDeleteFails
               \/ NativeReturn
    BY <2>8 DEF NativeTruncate, NativeTruncateFails, NativeCleanup, NativeDelete,
                NativeDeleteFails, NativeReturn, NativeFail
  <2>9. CASE PythonOpen \/ PythonFlushZero \/ PythonVerify \/ PythonVerifyFails
    BY <2>9 DEF PythonOpen, PythonFlushZero, PythonVerify, PythonVerifyFails, BeginPass, loop
  <2>10. CASE PythonWrite \/ PythonFlushRandom
    BY <2>10 DEF PythonWrite, PythonFlushRandom, loop
  <2>11. CASE PythonRename \/ PythonTruncate \/ PythonDelete \/ PythonCheck \/ PythonCheckFails
                \/ PythonRaises
    BY <2>11 DEF PythonRename, PythonTruncate, PythonDelete, PythonCheck, PythonCheckFails,
                 PythonRaises
  <2> QED
    BY <1>1, <2>4, <2>5, <2>6, <2>7, <2>8, <2>9, <2>10, <2>11 DEF Execute, Native, Python
<1>2. IInv /\ IInv' /\ [Next]_vars => [StepsLeft' \in 0..StepsLeft - 1]_vars
  BY <1>1 DEF Next, Done
<1> QED
  BY <1>2, SpecKeepsIInv, PTL DEF Spec, EveryStepCounts

-----------------------------------------------------------------------------
(* What needs a failure to leave its error code.                           *)

LEMMA InitEstablishesCodeIsTrue == Init => CodeIsTrue
BY DEF Init, CodeIsTrue, ReleasedOnlyWhenOverwritten

LEMMA StepPreservesCodeIsTrue ==
  ASSUME ~StaleLastError
  PROVE  IInv /\ IInv' /\ CodeIsTrue /\ [Next]_vars => CodeIsTrue'
<1> SUFFICES ASSUME IInv, IInv', CodeIsTrue, [Next]_vars PROVE CodeIsTrue'
  OBVIOUS
<1>s. SetError = {1} /\ UnsetError = {1}
  BY DEF SetError, UnsetError
<1>r. Success # Failure /\ Success # DryRunResult /\ Success # NoResult
  BY DEF Success, Failure, DryRunResult, NoResult
<1>g. path' = "gone" => path = "gone" \/ pc \in {"n_delete", "p_delete"}
  BY DEF Next, Execute, DryRun, Refuse, Begin, Native, NativeOpen, NativeOpenFails,
         NativeSize, NativeSizeFails, NativeWrite, NativeWriteFails, NativeFlush,
         NativeFlushFails, NativeTruncate, NativeTruncateFails, NativeCleanup,
         NativeDelete, NativeDeleteFails, NativeReturn, NativeFail, Python, PythonOpen,
         PythonWrite, PythonFlushZero, PythonVerify, PythonVerifyFails,
         PythonFlushRandom, PythonRename, PythonTruncate, PythonDelete, PythonCheck,
         PythonCheckFails, PythonRaises, Done, vars, file
<1>k. Overwritten => Overwritten'
  <2>1. CASE UNCHANGED content
    BY <2>1 DEF Overwritten
  <2>2. CASE NativeWrite \/ PythonWrite
    <3>1. UNCHANGED content \/ \E v \in {"zero", "random"} : Put(v)
      BY <2>2 DEF NativeWrite, PythonWrite
    <3>2. remaining > 0 /\ UNCHANGED <<truncated, path>>
      BY <2>2 DEF NativeWrite, PythonWrite
    <3> QED
      BY <2>1, <3>1, <3>2, PutKeepsTheFile DEF IInv
  <2>3. UNCHANGED content \/ NativeWrite \/ PythonWrite
    BY DEF Next, Execute, DryRun, Refuse, Begin, Native, NativeOpen, NativeOpenFails,
         NativeSize, NativeSizeFails, NativeWriteFails, NativeFlush,
         NativeFlushFails, NativeTruncate, NativeTruncateFails, NativeCleanup,
         NativeDelete, NativeDeleteFails, NativeReturn, NativeFail, Python, PythonOpen,
         PythonFlushZero, PythonVerify, PythonVerifyFails,
         PythonFlushRandom, PythonRename, PythonTruncate, PythonDelete, PythonCheck,
         PythonCheckFails, PythonRaises, Done, vars, file
  <2> QED
    BY <2>1, <2>2, <2>3
<1>o. truncated \/ verified => Overwritten
  BY DEF IInv, Verification
<1>1. ReleasedOnlyWhenOverwritten'
  <2>1. truncated' \/ path' = "renamed" => Overwritten'
    BY DEF IInv, Verification
  <2>4. path' \in {"target", "renamed", "gone"}
    BY DEF IInv, TypeOK
  <2>2. pc \in {"n_delete", "p_delete"} => Overwritten
    BY <1>o DEF CodeIsTrue, IInv, Verification, Trusting
  <2>3. path = "gone" => Overwritten
    BY DEF CodeIsTrue, ReleasedOnlyWhenOverwritten
  <2> QED
    BY <1>g, <1>k, <2>1, <2>2, <2>3, <2>4 DEF ReleasedOnlyWhenOverwritten
<1>2. /\ pc' \in {"n_cleanup", "n_return"} => (code' = 0 => truncated')
      /\ pc' = "n_delete" => truncated'
      /\ pc' = "returned" /\ result' = Success => truncated' \/ verified'
  <2>1. CASE DryRun \/ Refuse \/ Begin \/ Done \/ UNCHANGED vars
    BY <2>1, <1>r, FileUnchanged
    DEF DryRun, Refuse, Begin, Done, vars, file, CodeIsTrue, IInv, Results
  <2>2. CASE Native
    BY <2>2, <1>s, <1>r
    DEF Native, NativeOpen, NativeOpenFails, NativeSize, NativeSizeFails, NativeWrite,
        NativeWriteFails, NativeFlush, NativeFlushFails, NativeTruncate,
        NativeTruncateFails, NativeCleanup, NativeDelete, NativeDeleteFails,
        NativeReturn, NativeFail, file, CodeIsTrue, IInv, Results
  <2>3. CASE Python
    BY <2>3, <1>r
    DEF Python, PythonOpen, PythonWrite, PythonFlushZero, PythonVerify,
        PythonVerifyFails, PythonFlushRandom, PythonRename, PythonTruncate,
        PythonDelete, PythonCheck, PythonCheckFails, PythonRaises, file, IInv,
        Verification, Trusting
  <2> QED
    BY <2>1, <2>2, <2>3 DEF Next, Execute
<1> QED
  BY <1>1, <1>2 DEF CodeIsTrue

LEMMA SpecKeepsCodeIsTrue ==
  ASSUME ~StaleLastError
  PROVE  Spec => [](IInv /\ CodeIsTrue)
<1>1. Init => IInv /\ CodeIsTrue
  BY InitEstablishesIInv, InitEstablishesCodeIsTrue
<1>2. (IInv /\ CodeIsTrue) /\ [Next]_vars => (IInv /\ CodeIsTrue)'
  BY StepPreservesIInv, StepPreservesCodeIsTrue
<1> QED
  BY <1>1, <1>2, PTL DEF Spec

\* Clusters are given back, and the name is, only when every chunk has been
\* overwritten.
THEOREM ReleaseFollowsOverwrite ==
  ASSUME ~StaleLastError
  PROVE  Spec => []ReleasedOnlyWhenOverwritten
<1>1. IInv /\ CodeIsTrue => ReleasedOnlyWhenOverwritten
  BY DEF CodeIsTrue
<1> QED
  BY <1>1, SpecKeepsCodeIsTrue, PTL

\* The sentence of API_CONTRACT.md:41 that a violation run refutes is true as far
\* as GetLastError goes: where every failing native call leaves a code other than
\* 0, a result that claims erasure is about a file that was overwritten.
THEOREM FailuresKeepTheirCode ==
  ASSUME ~StaleLastError
  PROVE  Spec => []FailuresAreNotSuccess
<1>1. IInv /\ CodeIsTrue => FailuresAreNotSuccess
  <2> SUFFICES ASSUME IInv, CodeIsTrue, pc = "returned", result.assurance_achieved \in ErasureClaims
               PROVE  Overwritten
    BY DEF FailuresAreNotSuccess
  <2>1. result # Failure /\ result # DryRunResult
    BY DEF Failure, DryRunResult, ErasureClaims
  <2>2. result = Success
    BY <2>1 DEF IInv, Results
  <2>3. truncated \/ verified
    BY <2>2 DEF CodeIsTrue
  <2> QED
    BY <2>3 DEF IInv, Verification
<1> QED
  BY <1>1, SpecKeepsCodeIsTrue, PTL

-----------------------------------------------------------------------------
(* The engine implements its contract.                                     *)

\* The contract's data and answer seen from the engine.
Data == IF Untouched THEN "intact" ELSE IF Overwritten THEN "erased" ELSE "undefined"
Answer == IF pc = "returned" THEN result ELSE IF pc = "raised" THEN Failure ELSE NoResult

LEMMA InitMapsToContract == Init => Contract!Init
<1> SUFFICES ASSUME Init PROVE Contract!Init
  OBVIOUS
<1>1. IInv
  BY InitEstablishesIInv
<1>2. plan.dry_run \in BOOLEAN /\ plan.executable \in BOOLEAN
  BY FilePlanFields DEF Init
<1>3. PICK n \in 0..MaxBlocks : content = [k \in 1..n |-> "data"]
  BY DEF Init
<1>4. Untouched
  BY <1>3 DEF Init, Untouched
<1> QED
  BY <1>2, <1>4 DEF Init, Contract!Init, Answered, NoResult, Contract!NoResult

\* What one step may do to the file and to the answer.
LEMMA StepOnTheFile ==
  ASSUME IInv, [Next]_vars
  PROVE  /\ UNCHANGED plan
         /\ \/ UNCHANGED file
            \/ /\ ~Answered /\ ~Answered' /\ Admitted
               /\ Overwritten => Overwritten'
               /\ ~Untouched'
         /\ Answered => UNCHANGED <<pc, result>>
         /\ Answered' /\ ~Answered => UNCHANGED file
<1>1. CASE UNCHANGED file
  BY <1>1 DEF Next, Execute, DryRun, Refuse, Begin, Native, NativeOpen, NativeOpenFails,
         NativeSize, NativeSizeFails, NativeWrite, NativeWriteFails, NativeFlush,
         NativeFlushFails, NativeTruncate, NativeTruncateFails, NativeCleanup,
         NativeDelete, NativeDeleteFails, NativeReturn, NativeFail, Python, PythonOpen,
         PythonWrite, PythonFlushZero, PythonVerify, PythonVerifyFails,
         PythonFlushRandom, PythonRename, PythonTruncate, PythonDelete, PythonCheck,
         PythonCheckFails, PythonRaises, Done, vars, Answered
<1>2. CASE ~UNCHANGED file
  <2>1. NativeWrite \/ NativeTruncate \/ NativeDelete
          \/ PythonWrite \/ PythonRename \/ PythonTruncate \/ PythonDelete
    BY <1>2 DEF Next, Execute, DryRun, Refuse, Begin, Native, NativeOpen, NativeOpenFails,
         NativeSize, NativeSizeFails, NativeWriteFails, NativeFlush, NativeFlushFails,
         NativeTruncateFails, NativeCleanup, NativeDeleteFails, NativeReturn, NativeFail,
         Python, PythonOpen, PythonFlushZero, PythonVerify, PythonVerifyFails,
         PythonFlushRandom, PythonCheck, PythonCheckFails, PythonRaises, Done, vars
  <2>2. UNCHANGED plan /\ ~Answered /\ ~Answered' /\ Admitted
    BY <2>1 DEF NativeWrite, NativeTruncate, NativeDelete, PythonWrite, PythonRename,
         PythonTruncate, PythonDelete, Answered, IInv, Admission
  <2>3. CASE NativeWrite \/ PythonWrite
    <3>1. UNCHANGED <<content, truncated, path>> \/ \E v \in {"zero", "random"} : Put(v)
      BY <2>3 DEF NativeWrite, PythonWrite
    <3>2. remaining > 0 /\ UNCHANGED <<truncated, path>>
      BY <2>3 DEF NativeWrite, PythonWrite
    <3> QED
      BY <1>2, <2>2, <3>1, <3>2, PutKeepsTheFile DEF IInv, file
  <2>4. CASE NativeTruncate \/ NativeDelete \/ PythonRename \/ PythonTruncate \/ PythonDelete
    BY <1>2, <2>2, <2>4
    DEF NativeTruncate, NativeDelete, PythonRename, PythonTruncate, PythonDelete,
        file, Overwritten, Untouched
  <2> QED
    BY <2>1, <2>3, <2>4
<1> QED
  BY <1>1, <1>2

LEMMA StepMapsToContract ==
  ASSUME ~StaleLastError
  PROVE  (IInv /\ CodeIsTrue) /\ IInv' /\ CodeIsTrue' /\ [Next]_vars
            => [Contract!Next]_(Contract!vars)
<1> SUFFICES ASSUME IInv, CodeIsTrue, IInv', CodeIsTrue', [Next]_vars
             PROVE  [Contract!Next]_(Contract!vars)
  OBVIOUS
<1>p. plan.dry_run \in BOOLEAN /\ plan.executable \in BOOLEAN
  BY FilePlanFields DEF IInv, TypeOK
<1>f. /\ UNCHANGED plan
      /\ \/ UNCHANGED file
         \/ /\ ~Answered /\ ~Answered' /\ Admitted
            /\ Overwritten => Overwritten'
            /\ ~Untouched'
      /\ Answered => UNCHANGED <<pc, result>>
      /\ Answered' /\ ~Answered => UNCHANGED file
  BY StepOnTheFile
<1>1. CASE UNCHANGED file /\ (Answered \/ ~Answered')
  BY <1>1, <1>f, FileUnchanged DEF Contract!vars, Answered
<1>2. CASE ~UNCHANGED file
  <2>1. Data' \in {"undefined", "erased"} /\ (Data = "erased" => Data' = "erased")
    BY <1>2, <1>f DEF Data
  <2>2. ~Answered /\ ~Answered' /\ Admitted /\ UNCHANGED plan
    BY <1>2, <1>f
  <2>3. CASE Data = "erased"
    BY <2>1, <2>2, <2>3 DEF Data, Contract!vars, Answered
  <2>4. CASE Data # "erased"
    BY <2>1, <2>2, <2>4
    DEF Data, Contract!vars, Contract!Next, Contract!Touch, Answered, Admitted
  <2> QED
    BY <2>3, <2>4
<1>3. CASE UNCHANGED file /\ ~Answered /\ Answered'
  <2>1. Answer' \in {DryRunResult, Failure, Success}
    BY <1>3 DEF Answer, Answered, IInv, Results
  <2>2. /\ {DryRunResult, Failure, Success} \subseteq Contract!ExecutionResult
        /\ DryRunResult.success /\ ~Failure.success /\ Success.success
        /\ Failure.assurance_achieved = "UNSUPPORTED"
        /\ Success.assurance_achieved # "UNSUPPORTED"
        /\ DryRunResult.assurance_achieved \notin Contract!ErasureClaims
        /\ Failure.assurance_achieved \notin Contract!ErasureClaims
    BY DEF DryRunResult, Failure, Success, Contract!ExecutionResult,
           Contract!AssuranceLevel, Contract!ErasureClaims
  <2>3. plan.dry_run => Answer' = DryRunResult
    BY <1>3, <1>p, <1>f DEF Answer, Answered, IInv, Results, Admission, Admitted
  <2>4. Answer' = Success => Admitted /\ Data' = "erased"
    <3>1. Success # Failure /\ Success # DryRunResult
      BY DEF Success, Failure, DryRunResult
    <3> SUFFICES ASSUME Answer' = Success PROVE Admitted /\ Data' = "erased"
      OBVIOUS
    <3>2. pc' = "returned" /\ result' = Success
      BY <1>3, <3>1 DEF Answer, Answered
    <3>3. Admitted
      BY <1>f, <3>1, <3>2 DEF IInv, Results, Admitted
    <3>4. truncated' \/ verified'
      BY <3>2 DEF CodeIsTrue
    <3>5. Overwritten' /\ ~Untouched'
      BY <3>2, <3>4 DEF IInv, Verification, Results, FallbackSuccessLeavesNothing, Untouched
    <3> QED
      BY <3>3, <3>5 DEF Data
  <2>5. Data' = Data
    BY <1>3, FileUnchanged DEF Data
  <2>6. Contract!Honest(Answer')
    <3>1. Contract!DryRunResult = DryRunResult
      BY DEF Contract!DryRunResult, DryRunResult
    <3>2. /\ Answer' \in Contract!ExecutionResult
          /\ Answer'.success => plan.dry_run \/ Admitted
          /\ ~Answer'.success => Answer'.assurance_achieved = "UNSUPPORTED"
          /\ Answer'.assurance_achieved \in Contract!ErasureClaims => Data = "erased"
      <4>1. CASE Answer' = DryRunResult
        BY <1>3, <1>p, <1>f, <2>2, <4>1 DEF Answer, Answered, IInv, Results, DryRunResult, Failure, Success
      <4>2. CASE Answer' = Failure
        BY <2>2, <4>2
      <4>3. CASE Answer' = Success
        BY <2>2, <2>4, <2>5, <4>3
      <4> QED
        BY <2>1, <4>1, <4>2, <4>3
    <3> QED
      BY <2>3, <3>1, <3>2 DEF Contract!Honest, Data, Admitted
  <2>7. Answer' \in Contract!ExecutionResult
    BY <2>1, <2>2
  <2>8. ~Answered /\ Answered' /\ UNCHANGED plan
    BY <1>3, <1>f
  <2> QED
    BY <2>5, <2>6, <2>7, <2>8
    DEF Contract!Next, Contract!Answer, Answer, Data
<1> QED
  BY <1>1, <1>2, <1>3

\* Every behaviour of the file engine is a behaviour of its contract.
THEOREM EngineImplementsContract ==
  ASSUME ~StaleLastError
  PROVE  Spec => ImplementsContract
<1> QED
  BY InitMapsToContract, StepMapsToContract, SpecKeepsCodeIsTrue, PTL
  DEF Spec, ImplementsContract, Contract!Spec
=============================================================================
