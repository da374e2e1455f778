--------------------------- MODULE PipelineProofs ---------------------------
(***************************************************************************)
(* Proofs about Pipeline, for any number of runs, of steps and of undos.   *)
(***************************************************************************)
EXTENDS Pipeline, SequenceTheorems, TLAPS

(* Removing the newest undo leaves a list of undos, empty only if it was   *)
(* the last one.                                                           *)
LEMMA PopUndo ==
    ASSUME NEW q \in Seq(DeferSteps), q # <<>>
    PROVE  SubSeq(q, 1, Len(q) - 1) \in Seq(DeferSteps)
<1>1. Len(q) \in Nat /\ Len(q) > 0
  BY EmptySeq, LenProperties
<1>2. \A i \in 1..(Len(q) - 1) : q[i] \in DeferSteps
  BY <1>1, ElementOfSeq
<1> QED BY <1>1, <1>2, SubSeqProperties

-----------------------------------------------------------------------------
(* The operators the actions are made of keep the types of what they set.  *)
LEMMA GotoType ==
    ASSUME NEW r \in Runs, NEW there \in PCs, pc \in [Runs -> PCs], Goto(r, there)
    PROVE  pc' \in [Runs -> PCs]
BY DEF Goto

LEMMA EmitType ==
    ASSUME NEW r \in Runs, NEW ok \in BOOLEAN, NEW kind \in S!Kinds, SinkTypeOK,
           Emit(r, kind, ok)
    PROVE  SinkTypeOK'
BY DEF SinkTypeOK, Emit

LEMMA FailType ==
    ASSUME NEW r \in Runs, NEW why \in Codes, NEW s \in 0..NumSteps, ErrorTypeOK,
           Fail(r, why, s)
    PROVE  ErrorTypeOK'
BY DEF ErrorTypeOK, Fail

LEMMA FailedStepType ==
    ASSUME NEW r \in Runs, ErrorTypeOK PROVE failedStep[r] \in 0..NumSteps
BY DEF ErrorTypeOK

LEMMA SucceedType == ErrorTypeOK /\ Succeed => ErrorTypeOK'
BY DEF ErrorTypeOK, Succeed

LEMMA ProceedType ==
    ASSUME NEW r \in Runs, NEW ok \in BOOLEAN, NEW there \in PCs,
           NEW s \in 0..NumSteps, ErrorTypeOK, pc \in [Runs -> PCs],
           Proceed(r, ok, there, s)
    PROVE  ErrorTypeOK' /\ pc' \in [Runs -> PCs]
<1>1. CASE ok
  BY <1>1, GotoType, SucceedType DEF Proceed
<1>2. CASE ~ok
  BY <1>2, GotoType, FailType DEF Proceed, PCs, Codes
<1> QED BY <1>1, <1>2

(* Every variable keeps its type.                                          *)
THEOREM TypeCorrect == Spec => []TypeOK
<1> USE StepsAssumption
<1>1. Init => TypeOK
  BY DEF Init, TypeOK, SinkTypeOK, ErrorTypeOK, PCs, Codes, S!Kinds
<1>2. TypeOK /\ [Next]_vars => TypeOK'
  <2> SUFFICES ASSUME TypeOK, [Next]_vars PROVE TypeOK'
    OBVIOUS
  <2>0. CASE UNCHANGED vars
    BY <2>0 DEF vars, TypeOK, SinkTypeOK, ErrorTypeOK
  <2>1. ASSUME NEW r \in Runs, NEW ok \in BOOLEAN, Begin(r, ok) PROVE TypeOK'
    <3>1. SinkTypeOK'
      BY <2>1, EmitType DEF Begin, TypeOK, S!Kinds, S!Running, S!Terminal
    <3>2. ErrorTypeOK' /\ pc' \in [Runs -> PCs]
      BY SMTT(30), <2>1, ProceedType DEF Begin, TypeOK, PCs
    <3> QED BY <2>1, <3>1, <3>2 DEF Begin, TypeOK
  <2>2. ASSUME NEW r \in Runs, NEW ok \in BOOLEAN, DeprecationWarning(r, ok) PROVE TypeOK'
    <3>1. SinkTypeOK'
      BY <2>2, EmitType DEF DeprecationWarning, TypeOK, S!Kinds, S!Running, S!Terminal
    <3>2. ErrorTypeOK' /\ pc' \in [Runs -> PCs]
      BY SMTT(30), <2>2, ProceedType DEF DeprecationWarning, TypeOK, PCs
    <3> QED BY <2>2, <3>1, <3>2 DEF DeprecationWarning, TypeOK
  <2>3. ASSUME NEW r \in Runs, TakeLock(r) PROVE TypeOK'
    <3>1. pc' \in [Runs -> PCs]
      BY <2>3, GotoType DEF TakeLock, TypeOK, PCs
    <3> QED BY <2>3, <3>1 DEF TakeLock, TypeOK, SinkTypeOK, ErrorTypeOK
  <2>4. ASSUME NEW r \in Runs, RefuseLock(r) PROVE TypeOK'
    <3>1. ErrorTypeOK'
      BY <2>4, FailType DEF RefuseLock, TypeOK, Codes
    <3>2. pc' \in [Runs -> PCs]
      BY <2>4, GotoType DEF RefuseLock, TypeOK, PCs
    <3> QED BY <2>4, <3>1, <3>2 DEF RefuseLock, TypeOK, SinkTypeOK
  <2>5. ASSUME NEW r \in Runs, SkipLock(r) PROVE TypeOK'
    <3>1. pc' \in [Runs -> PCs]
      BY <2>5, GotoType DEF SkipLock, TypeOK, PCs
    <3> QED BY <2>5, <3>1 DEF SkipLock, TypeOK, SinkTypeOK, ErrorTypeOK
  <2>6. ASSUME NEW r \in Runs, NEW ok \in BOOLEAN, StartStep(r, ok) PROVE TypeOK'
    <3>0. step[r] + 1 \in 0..NumSteps
      BY <2>6 DEF StartStep, TypeOK
    <3>1. SinkTypeOK'
      BY <2>6, EmitType DEF StartStep, TypeOK, S!Kinds, S!Running, S!Terminal
    <3>2. ErrorTypeOK' /\ pc' \in [Runs -> PCs]
      BY <2>6, <3>0, ProceedType DEF StartStep, TypeOK, PCs
    <3>4. step' \in [Runs -> 0..NumSteps]
      BY <2>6, <3>0 DEF StartStep, TypeOK
    <3>5. index' \in [Runs -> 0..NumSteps]
      BY <2>6, <3>0 DEF StartStep, TypeOK
    <3> QED BY <2>6, <3>1, <3>2, <3>4, <3>5 DEF StartStep, TypeOK
  <2>7. ASSUME NEW r \in Runs, NEW ok \in BOOLEAN, SkipStep(r, ok) PROVE TypeOK'
    <3>1. SinkTypeOK'
      BY <2>7, EmitType DEF SkipStep, TypeOK, S!Kinds, S!Running, S!Terminal
    <3>2. ErrorTypeOK' /\ pc' \in [Runs -> PCs]
      BY <2>7, ProceedType DEF SkipStep, TypeOK, PCs
    <3> QED BY <2>7, <3>1, <3>2 DEF SkipStep, TypeOK
  <2>8. ASSUME NEW r \in Runs, NEW ok \in BOOLEAN, StepEmits(r, ok) PROVE TypeOK'
    <3>1. SinkTypeOK'
      BY <2>8, EmitType DEF StepEmits, TypeOK, S!Kinds, S!Running, S!Terminal
    <3> QED BY <2>8, <3>1 DEF StepEmits, TypeOK, ErrorTypeOK
  <2>9. ASSUME NEW r \in Runs, StepDefers(r) PROVE TypeOK'
    <3>1. Append(stack[r], step[r]) \in Seq(DeferSteps)
      BY <2>9 DEF StepDefers, TypeOK
    <3>2. stack' \in [Runs -> Seq(DeferSteps)]
      BY <2>9, <3>1 DEF StepDefers, TypeOK
    <3> QED BY <2>9, <3>2 DEF StepDefers, TypeOK, SinkTypeOK, ErrorTypeOK
  <2>10. ASSUME NEW r \in Runs, StepAddsSummary(r) PROVE TypeOK'
    BY <2>10 DEF StepAddsSummary, TypeOK, SinkTypeOK, ErrorTypeOK
  <2>11. ASSUME NEW r \in Runs, NEW ok \in BOOLEAN, StepReturns(r, ok) PROVE TypeOK'
    <3>1. ErrorTypeOK'
      BY <2>11, FailType, SucceedType DEF StepReturns, TypeOK, Codes
    <3>2. pc' \in [Runs -> PCs]
      BY <2>11, GotoType DEF StepReturns, TypeOK, PCs
    <3> QED BY <2>11, <3>1, <3>2 DEF StepReturns, TypeOK, SinkTypeOK
  <2>12. ASSUME NEW r \in Runs, StepsDone(r) PROVE TypeOK'
    <3>1. pc' \in [Runs -> PCs]
      BY <2>12, GotoType DEF StepsDone, TypeOK, PCs
    <3> QED BY <2>12, <3>1 DEF StepsDone, TypeOK, SinkTypeOK, ErrorTypeOK
  <2>13. ASSUME NEW r \in Runs, NEW ok \in BOOLEAN, Undo(r, ok) PROVE TypeOK'
    <3>1. SubSeq(stack[r], 1, Len(stack[r]) - 1) \in Seq(DeferSteps)
      BY <2>13, PopUndo DEF Undo, TypeOK
    <3>2. stack' \in [Runs -> Seq(DeferSteps)]
      BY <2>13, <3>1 DEF Undo, TypeOK
    <3>3. fails' \in [Runs -> Nat]
      BY <2>13 DEF Undo, TypeOK
    <3> QED BY <2>13, <3>2, <3>3 DEF Undo, TypeOK, SinkTypeOK, ErrorTypeOK
  <2>14. ASSUME NEW r \in Runs, Unwound(r) PROVE TypeOK'
    <3>1. pc' \in [Runs -> PCs]
      BY <2>14, GotoType DEF Unwound, TypeOK, PCs
    <3> QED BY <2>14, <3>1 DEF Unwound, TypeOK, SinkTypeOK, ErrorTypeOK
  <2>15. ASSUME NEW r \in Runs, NEW ok \in BOOLEAN, WarnCleanup(r, ok) PROVE TypeOK'
    <3>1. SinkTypeOK'
      BY <2>15, EmitType DEF WarnCleanup, TypeOK, S!Kinds, S!Running, S!Terminal
    <3>2. ErrorTypeOK'
      BY <2>15, FailedStepType, FailType DEF WarnCleanup, TypeOK, Codes
    <3>3. warned' \in [Runs -> Nat]
      BY <2>15 DEF WarnCleanup, TypeOK
    <3> QED BY <2>15, <3>1, <3>2, <3>3 DEF WarnCleanup, TypeOK
  <2>16. ASSUME NEW r \in Runs, ReleaseLock(r) PROVE TypeOK'
    <3>1. ErrorTypeOK'
      BY <2>16, FailedStepType, FailType, SucceedType DEF ReleaseLock, TypeOK, Codes
    <3>2. pc' \in [Runs -> PCs]
      BY <2>16, GotoType DEF ReleaseLock, TypeOK, PCs
    <3> QED BY <2>16, <3>1, <3>2 DEF ReleaseLock, TypeOK, SinkTypeOK
  <2>17. ASSUME NEW r \in Runs, NEW ok \in BOOLEAN, EmitSummary(r, ok) PROVE TypeOK'
    <3>1. SinkTypeOK'
      BY <2>17, EmitType DEF EmitSummary, TypeOK, S!Kinds, S!Running, S!Terminal, SinkTypeOK
    <3>2. ErrorTypeOK'
      BY <2>17, FailedStepType, FailType, SucceedType DEF EmitSummary, TypeOK, Codes
    <3>3. pc' \in [Runs -> PCs]
      BY <2>17, GotoType DEF EmitSummary, TypeOK, PCs
    <3> QED BY <2>17, <3>1, <3>2, <3>3 DEF EmitSummary, TypeOK
  <2>18. ASSUME NEW r \in Runs, NEW ok \in BOOLEAN, EmitVerdict(r, ok) PROVE TypeOK'
    <3>1. SinkTypeOK'
      BY <2>18, EmitType DEF EmitVerdict, TypeOK, S!Kinds, S!Running, S!Terminal
    <3>2. ErrorTypeOK'
      BY <2>18, FailType, SucceedType DEF EmitVerdict, TypeOK, Codes
    <3>3. pc' \in [Runs -> PCs]
      BY <2>18, GotoType DEF EmitVerdict, TypeOK, PCs
    <3> QED BY <2>18, <3>1, <3>2, <3>3 DEF EmitVerdict, TypeOK
  <2>19. ASSUME NEW r \in Runs, Crash(r) PROVE TypeOK'
    <3>1. pc' \in [Runs -> PCs]
      BY <2>19, GotoType DEF Crash, TypeOK, PCs
    <3> QED BY <2>19, <3>1 DEF Crash, TypeOK, SinkTypeOK, ErrorTypeOK
  <2>20. ASSUME NEW r \in Runs, OrphanExits(r) PROVE TypeOK'
    BY <2>20 DEF OrphanExits, TypeOK, SinkTypeOK, ErrorTypeOK
  <2> QED
    BY <2>0, <2>1, <2>2, <2>3, <2>4, <2>5, <2>6, <2>7, <2>8, <2>9, <2>10,
       <2>11, <2>12, <2>13, <2>14, <2>15, <2>16, <2>17, <2>18, <2>19, <2>20
    DEF Next, Progress, StepBody
<1> QED BY <1>1, <1>2, PTL DEF Spec

-----------------------------------------------------------------------------
(* Why the lock covers the disk.  A run that is executing steps holds the  *)
(* lock unless it is a dry run; it gives the lock back only when it owes   *)
(* no undo; and a dry run, which has no lock, executes no step that could  *)
(* register one.                                                           *)
LockInv ==
    \A q \in Runs :
       /\ pc[q] \in {"steps", "run"} /\ q \notin dry => lock = q
       /\ lock = q => pc[q] \in {"steps", "run", "unwind", "report"}
       /\ stack[q] # <<>> /\ pc[q] # "crashed" => lock = q
       /\ pc[q] \in {"idle", "started", "report", "summary", "verdict",
                     "returned"} => stack[q] = <<>>
       /\ q \in dry => lock # q /\ stack[q] = <<>> /\ q \notin orphan

LEMMA LockInvInit == Init => LockInv
BY NoneAssumption DEF Init, LockInv

LEMMA LockInvNext == TypeOK /\ LockInv /\ [Next]_vars => LockInv'
<1> SUFFICES ASSUME TypeOK, LockInv, [Next]_vars PROVE LockInv'
  OBVIOUS
<1> USE NoneAssumption, StepsAssumption DEF Goto
<1>0. CASE UNCHANGED vars
  BY <1>0 DEF vars, LockInv
<1>1. ASSUME NEW r \in Runs, NEW ok \in BOOLEAN, Begin(r, ok) PROVE LockInv'
  BY <1>1 DEF Begin, TypeOK, LockInv, Proceed
<1>2. ASSUME NEW r \in Runs, NEW ok \in BOOLEAN, DeprecationWarning(r, ok) PROVE LockInv'
  BY <1>2 DEF DeprecationWarning, TypeOK, LockInv, Proceed
<1>3. ASSUME NEW r \in Runs, TakeLock(r) PROVE LockInv'
  BY <1>3 DEF TakeLock, TypeOK, LockInv
<1>4. ASSUME NEW r \in Runs, RefuseLock(r) PROVE LockInv'
  BY <1>4 DEF RefuseLock, TypeOK, LockInv
<1>5. ASSUME NEW r \in Runs, SkipLock(r) PROVE LockInv'
  BY <1>5 DEF SkipLock, TypeOK, LockInv
<1>6. ASSUME NEW r \in Runs, NEW ok \in BOOLEAN, StartStep(r, ok) PROVE LockInv'
  BY SMTT(30), <1>6 DEF StartStep, TypeOK, LockInv, Proceed
<1>7. ASSUME NEW r \in Runs, NEW ok \in BOOLEAN, SkipStep(r, ok) PROVE LockInv'
  BY <1>7 DEF SkipStep, TypeOK, LockInv, Proceed, Executes, Preflight
<1>8. ASSUME NEW r \in Runs, NEW ok \in BOOLEAN, StepEmits(r, ok) PROVE LockInv'
  BY <1>8 DEF StepEmits, TypeOK, LockInv
<1>9. ASSUME NEW r \in Runs, StepDefers(r) PROVE LockInv'
  BY <1>9 DEF StepDefers, TypeOK, LockInv, Executes, Preflight
<1>10. ASSUME NEW r \in Runs, StepAddsSummary(r) PROVE LockInv'
  BY <1>10 DEF StepAddsSummary, TypeOK, LockInv
<1>11. ASSUME NEW r \in Runs, NEW ok \in BOOLEAN, StepReturns(r, ok) PROVE LockInv'
  BY <1>11 DEF StepReturns, TypeOK, LockInv
<1>12. ASSUME NEW r \in Runs, StepsDone(r) PROVE LockInv'
  BY <1>12 DEF StepsDone, TypeOK, LockInv
<1>13. ASSUME NEW r \in Runs, NEW ok \in BOOLEAN, Undo(r, ok) PROVE LockInv'
  BY <1>13 DEF Undo, TypeOK, LockInv
<1>14. ASSUME NEW r \in Runs, Unwound(r) PROVE LockInv'
  BY <1>14 DEF Unwound, TypeOK, LockInv
<1>15. ASSUME NEW r \in Runs, NEW ok \in BOOLEAN, WarnCleanup(r, ok) PROVE LockInv'
  BY <1>15 DEF WarnCleanup, TypeOK, LockInv
<1>16. ASSUME NEW r \in Runs, ReleaseLock(r) PROVE LockInv'
  BY <1>16 DEF ReleaseLock, TypeOK, LockInv
<1>17. ASSUME NEW r \in Runs, NEW ok \in BOOLEAN, EmitSummary(r, ok) PROVE LockInv'
  BY <1>17 DEF EmitSummary, TypeOK, LockInv
<1>18. ASSUME NEW r \in Runs, NEW ok \in BOOLEAN, EmitVerdict(r, ok) PROVE LockInv'
  BY <1>18 DEF EmitVerdict, TypeOK, LockInv
<1>19. ASSUME NEW r \in Runs, Crash(r) PROVE LockInv'
  BY <1>19 DEF Crash, TypeOK, LockInv, Writing
<1>20. ASSUME NEW r \in Runs, OrphanExits(r) PROVE LockInv'
  BY <1>20 DEF OrphanExits, TypeOK, LockInv
<1> QED
  BY <1>0, <1>1, <1>2, <1>3, <1>4, <1>5, <1>6, <1>7, <1>8, <1>9, <1>10,
     <1>11, <1>12, <1>13, <1>14, <1>15, <1>16, <1>17, <1>18, <1>19, <1>20
  DEF Next, Progress, StepBody

(* The install lock is held whenever a run can touch the disk, and until   *)
(* it owes no more undos: two live runs never write at once.               *)
THEOREM LockCovers == Spec => []LockCoversDisk
<1>1. LockInv => LockCoversDisk
  BY DEF LockInv, LockCoversDisk, Writing
<1> QED BY <1>1, TypeCorrect, LockInvInit, LockInvNext, PTL DEF Spec

(* A dry run never holds the lock, acquires nothing and leaves no command  *)
(* behind.                                                                 *)
THEOREM DryRunSafe == Spec => []DryRunIsHarmless
<1>1. LockInv => DryRunIsHarmless
  BY DEF LockInv, DryRunIsHarmless
<1> QED BY <1>1, TypeCorrect, LockInvInit, LockInvNext, PTL DEF Spec

-----------------------------------------------------------------------------
(* Why a refused run touched nothing: the refusal is decided before the    *)
(* first step, and nothing after it can start one.                         *)
RefusalInv ==
    \A q \in Runs :
       /\ q \notin err => code[q] = "none"
       /\ pc[q] \in {"idle", "started", "steps", "run"} => q \notin err
       /\ pc[q] \in {"idle", "started"} =>
             step[q] = 0 /\ stack[q] = <<>> /\ fails[q] = 0
       /\ code[q] = "install_in_progress" =>
             /\ step[q] = 0 /\ failedStep[q] = 0
             /\ stack[q] = <<>> /\ fails[q] = 0 /\ lock # q

LEMMA RefusalInvInit == Init => RefusalInv
BY NoneAssumption DEF Init, RefusalInv

LEMMA RefusalInvNext == TypeOK /\ LockInv /\ RefusalInv /\ [Next]_vars => RefusalInv'
<1> SUFFICES ASSUME TypeOK, LockInv, RefusalInv, [Next]_vars PROVE RefusalInv'
  OBVIOUS
<1> USE NoneAssumption, StepsAssumption DEF TypeOK, ErrorTypeOK, LockInv, Goto
<1>0. CASE UNCHANGED vars
  BY <1>0 DEF vars, RefusalInv
<1>1. ASSUME NEW r \in Runs, NEW ok \in BOOLEAN, Begin(r, ok) PROVE RefusalInv'
  <2>1. CASE ok
    BY SMTT(30), <1>1, <2>1 DEF Begin, RefusalInv, Proceed, Succeed
  <2>2. CASE ~ok
    BY SMTT(30), <1>1, <2>2 DEF Begin, RefusalInv, Proceed, Fail
  <2> QED BY <2>1, <2>2
<1>2. ASSUME NEW r \in Runs, NEW ok \in BOOLEAN, DeprecationWarning(r, ok) PROVE RefusalInv'
  <2>1. CASE ok
    BY SMTT(30), <1>2, <2>1 DEF DeprecationWarning, RefusalInv, Proceed, Succeed
  <2>2. CASE ~ok
    BY SMTT(30), <1>2, <2>2 DEF DeprecationWarning, RefusalInv, Proceed, Fail
  <2> QED BY <2>1, <2>2
<1>3. ASSUME NEW r \in Runs, TakeLock(r) PROVE RefusalInv'
  BY <1>3 DEF TakeLock, RefusalInv
<1>4. ASSUME NEW r \in Runs, RefuseLock(r) PROVE RefusalInv'
  <2>1. CASE lock # None /\ Fail(r, "install_in_progress", 0)
    BY <1>4, <2>1 DEF RefuseLock, RefusalInv, Fail
  <2>2. CASE Fail(r, "step_failed", 0)
    BY <1>4, <2>2 DEF RefuseLock, RefusalInv, Fail
  <2> QED BY <1>4, <2>1, <2>2 DEF RefuseLock
<1>5. ASSUME NEW r \in Runs, SkipLock(r) PROVE RefusalInv'
  BY <1>5 DEF SkipLock, RefusalInv
<1>6. ASSUME NEW r \in Runs, NEW ok \in BOOLEAN, StartStep(r, ok) PROVE RefusalInv'
  <2>1. CASE ok
    BY SMTT(30), <1>6, <2>1 DEF StartStep, RefusalInv, Proceed, Succeed
  <2>2. CASE ~ok
    <3>1. r \notin err /\ code' = [code EXCEPT ![r] = "step_failed"]
      BY <1>6, <2>2 DEF StartStep, RefusalInv, Proceed, Fail
    <3>2. err' = err \cup {r} /\ pc' = [pc EXCEPT ![r] = "unwind"]
      BY <1>6, <2>2 DEF StartStep, Proceed, Fail
    <3>3. \A q \in Runs \ {r} : step'[q] = step[q] /\ failedStep'[q] = failedStep[q]
      BY <1>6, <2>2 DEF StartStep, Proceed, Fail
    <3> QED BY <1>6, <3>1, <3>2, <3>3 DEF StartStep, RefusalInv
  <2> QED BY <2>1, <2>2
<1>7. ASSUME NEW r \in Runs, NEW ok \in BOOLEAN, SkipStep(r, ok) PROVE RefusalInv'
  <2>1. CASE ok
    BY SMTT(30), <1>7, <2>1 DEF SkipStep, RefusalInv, Proceed, Succeed
  <2>2. CASE ~ok
    <3>1. r \notin err /\ code' = [code EXCEPT ![r] = "step_failed"]
      BY <1>7, <2>2 DEF SkipStep, RefusalInv, Proceed, Fail
    <3>2. err' = err \cup {r} /\ pc' = [pc EXCEPT ![r] = "unwind"]
      BY <1>7, <2>2 DEF SkipStep, Proceed, Fail
    <3>3. \A q \in Runs \ {r} : step'[q] = step[q] /\ failedStep'[q] = failedStep[q]
      BY <1>7, <2>2 DEF SkipStep, Proceed, Fail
    <3> QED BY <1>7, <3>1, <3>2, <3>3 DEF SkipStep, RefusalInv
  <2> QED BY <2>1, <2>2
<1>8. ASSUME NEW r \in Runs, NEW ok \in BOOLEAN, StepEmits(r, ok) PROVE RefusalInv'
  BY <1>8 DEF StepEmits, RefusalInv
<1>9. ASSUME NEW r \in Runs, StepDefers(r) PROVE RefusalInv'
  BY <1>9 DEF StepDefers, RefusalInv
<1>10. ASSUME NEW r \in Runs, StepAddsSummary(r) PROVE RefusalInv'
  BY <1>10 DEF StepAddsSummary, RefusalInv
<1>11. ASSUME NEW r \in Runs, NEW ok \in BOOLEAN, StepReturns(r, ok) PROVE RefusalInv'
  <2>1. CASE Goto(r, "steps") /\ Succeed
    BY <1>11, <2>1 DEF StepReturns, RefusalInv, Succeed
  <2>2. ASSUME NEW why \in {"step_failed", "coded"}, Goto(r, "unwind"),
               Fail(r, why, step[r])
        PROVE  RefusalInv'
    BY <1>11, <2>2 DEF StepReturns, RefusalInv, Fail
  <2> QED BY <1>11, <2>1, <2>2 DEF StepReturns
<1>12. ASSUME NEW r \in Runs, StepsDone(r) PROVE RefusalInv'
  BY <1>12 DEF StepsDone, RefusalInv
<1>13. ASSUME NEW r \in Runs, NEW ok \in BOOLEAN, Undo(r, ok) PROVE RefusalInv'
  BY <1>13 DEF Undo, RefusalInv
<1>14. ASSUME NEW r \in Runs, Unwound(r) PROVE RefusalInv'
  BY <1>14 DEF Unwound, RefusalInv
<1>15. ASSUME NEW r \in Runs, NEW ok \in BOOLEAN, WarnCleanup(r, ok) PROVE RefusalInv'
  BY <1>15 DEF WarnCleanup, RefusalInv, Fail
<1>16. ASSUME NEW r \in Runs, ReleaseLock(r) PROVE RefusalInv'
  BY <1>16 DEF ReleaseLock, RefusalInv, Fail, Succeed
<1>17. ASSUME NEW r \in Runs, NEW ok \in BOOLEAN, EmitSummary(r, ok) PROVE RefusalInv'
  <2>1. CASE Succeed
    BY <1>17, <2>1 DEF EmitSummary, RefusalInv, Succeed
  <2>2. CASE Fail(r, "step_failed", failedStep[r])
    BY <1>17, <2>2 DEF EmitSummary, RefusalInv, Fail
  <2> QED BY <1>17, <2>1, <2>2 DEF EmitSummary
<1>18. ASSUME NEW r \in Runs, NEW ok \in BOOLEAN, EmitVerdict(r, ok) PROVE RefusalInv'
  <2>1. CASE Succeed
    BY <1>18, <2>1 DEF EmitVerdict, RefusalInv, Succeed
  <2>2. CASE r \notin err /\ Fail(r, "step_failed", 0)
    BY <1>18, <2>2 DEF EmitVerdict, RefusalInv, Fail
  <2> QED BY <1>18, <2>1, <2>2 DEF EmitVerdict
<1>19. ASSUME NEW r \in Runs, Crash(r) PROVE RefusalInv'
  BY <1>19 DEF Crash, RefusalInv
<1>20. ASSUME NEW r \in Runs, OrphanExits(r) PROVE RefusalInv'
  BY <1>20 DEF OrphanExits, RefusalInv
<1> QED
  BY <1>0, <1>1, <1>2, <1>3, <1>4, <1>5, <1>6, <1>7, <1>8, <1>9, <1>10,
     <1>11, <1>12, <1>13, <1>14, <1>15, <1>16, <1>17, <1>18, <1>19, <1>20
  DEF Next, Progress, StepBody

(* A run told that another install is in progress has touched nothing.     *)
THEOREM RefusalSafe == Spec => []RefusedTouchesNothing
<1>1. RefusalInv => RefusedTouchesNothing
  BY DEF RefusalInv, RefusedTouchesNothing
<1> QED
  BY <1>1, TypeCorrect, LockInvInit, LockInvNext, RefusalInvInit, RefusalInvNext,
     PTL DEF Spec

-----------------------------------------------------------------------------
(* Why the verdict is honest: a run without an error has had no trouble so *)
(* far, with a step, with an undo or with the sink; and no terminal event  *)
(* is sent before the verdict.                                             *)
Honest(q) ==
    /\ pc[q] \in {"idle", "started", "steps", "run"} =>
          q \notin err /\ fails[q] = 0 /\ warned[q] = 0
    /\ pc[q] \in {"idle", "started", "steps"} => q \notin emitErr
    /\ pc[q] = "run" /\ ~Executes(q) => q \notin emitErr
    /\ pc[q] \in {"unwind", "report", "summary", "verdict", "returned"}
          /\ q \notin err => step[q] = NumSteps /\ q \notin emitErr
    /\ warned[q] # 0 => q \in err
    /\ pc[q] \in {"summary", "verdict", "returned"} => warned[q] = fails[q]
    /\ last[q] \in S!Terminal => pc[q] = "returned"
    /\ pc[q] = "returned" =>
          /\ q \notin err <=> last[q] = "done"
          /\ q \in err /\ q \notin emitErr <=> last[q] = "error"

VerdictInv == \A q \in Runs : Honest(q)

LEMMA VerdictInvInit == Init => VerdictInv
BY DEF Init, VerdictInv, Honest, S!Terminal

LEMMA VerdictInvNext == TypeOK /\ VerdictInv /\ [Next]_vars => VerdictInv'
<1> SUFFICES ASSUME TypeOK, VerdictInv, [Next]_vars PROVE VerdictInv'
  OBVIOUS
<1> USE StepsAssumption DEF TypeOK, SinkTypeOK, ErrorTypeOK, Goto, S!Terminal,
           VerdictInv, Honest, Executes
<1>0. CASE UNCHANGED vars
  BY <1>0 DEF vars
<1>1. ASSUME NEW r \in Runs, NEW ok \in BOOLEAN, Begin(r, ok) PROVE VerdictInv'
  <2>1. CASE ok
    BY SMTT(30), <1>1, <2>1 DEF Begin, Proceed, Succeed, Emit
  <2>2. CASE ~ok
    <3>1. err' = err \cup {r} /\ pc' = [pc EXCEPT ![r] = "unwind"] /\ last' = last
      BY <1>1, <2>2 DEF Begin, Proceed, Fail, Emit
    <3>2. emitErr' = emitErr \cup {r}
      BY <1>1, <2>2 DEF Begin, Emit
    <3> QED BY <1>1, <3>1, <3>2 DEF Begin
  <2> QED BY <2>1, <2>2
<1>2. ASSUME NEW r \in Runs, NEW ok \in BOOLEAN, DeprecationWarning(r, ok) PROVE VerdictInv'
  <2>1. CASE ok
    BY <1>2, <2>1 DEF DeprecationWarning, Proceed, Succeed, Emit
  <2>2. CASE ~ok
    BY SMTT(30), <1>2, <2>2 DEF DeprecationWarning, Proceed, Fail, Emit
  <2> QED BY <2>1, <2>2
<1>3. ASSUME NEW r \in Runs, TakeLock(r) PROVE VerdictInv'
  BY <1>3 DEF TakeLock
<1>4. ASSUME NEW r \in Runs, RefuseLock(r) PROVE VerdictInv'
  BY SMTT(30), <1>4 DEF RefuseLock, Fail
<1>5. ASSUME NEW r \in Runs, SkipLock(r) PROVE VerdictInv'
  BY <1>5 DEF SkipLock
<1>6. ASSUME NEW r \in Runs, NEW ok \in BOOLEAN, StartStep(r, ok) PROVE VerdictInv'
  <2>1. CASE ok
    BY SMTT(30), <1>6, <2>1 DEF StartStep, Proceed, Succeed, Emit
  <2>2. CASE ~ok
    <3>1. err' = err \cup {r} /\ pc' = [pc EXCEPT ![r] = "unwind"] /\ last' = last
      BY <1>6, <2>2 DEF StartStep, Proceed, Fail, Emit
    <3>2. \A q \in Runs \ {r} : step'[q] = step[q] /\ (q \in emitErr' <=> q \in emitErr)
      BY <1>6, <2>2 DEF StartStep, Emit
    <3> QED BY <1>6, <3>1, <3>2 DEF StartStep
  <2> QED BY <2>1, <2>2
<1>7. ASSUME NEW r \in Runs, NEW ok \in BOOLEAN, SkipStep(r, ok) PROVE VerdictInv'
  <2>1. CASE ok
    <3>1. err' = err /\ emitErr' = emitErr /\ pc' = [pc EXCEPT ![r] = "steps"]
      BY <1>7, <2>1 DEF SkipStep, Proceed, Succeed, Emit
    <3>2. last'[r] \in {last[r], "body"} /\ \A q \in Runs \ {r} : last'[q] = last[q]
      BY <1>7, <2>1 DEF SkipStep, Emit
    <3>3. pc[r] = "run" /\ ~Executes(r) /\ UNCHANGED <<dry, step, fails, warned>>
      BY <1>7 DEF SkipStep
    <3>4. Honest(r)
      BY DEF VerdictInv
    <3>5. ASSUME NEW q \in Runs \ {r} PROVE Honest(q)'
      BY <3>1, <3>2, <3>3, <3>5
    <3>6. Honest(r)'
      BY <3>1, <3>2, <3>3, <3>4
    <3> QED BY <3>5, <3>6
  <2>2. CASE ~ok
    BY SMTT(30), <1>7, <2>2 DEF SkipStep, Proceed, Fail, Emit
  <2> QED BY <2>1, <2>2
<1>8. ASSUME NEW r \in Runs, NEW ok \in BOOLEAN, StepEmits(r, ok) PROVE VerdictInv'
  BY <1>8 DEF StepEmits, Emit
<1>9. ASSUME NEW r \in Runs, StepDefers(r) PROVE VerdictInv'
  BY <1>9 DEF StepDefers
<1>10. ASSUME NEW r \in Runs, StepAddsSummary(r) PROVE VerdictInv'
  BY <1>10 DEF StepAddsSummary
<1>11. ASSUME NEW r \in Runs, NEW ok \in BOOLEAN, StepReturns(r, ok) PROVE VerdictInv'
  BY SMTT(30), <1>11 DEF StepReturns, Fail, Succeed
<1>12. ASSUME NEW r \in Runs, StepsDone(r) PROVE VerdictInv'
  BY <1>12 DEF StepsDone
<1>13. ASSUME NEW r \in Runs, NEW ok \in BOOLEAN, Undo(r, ok) PROVE VerdictInv'
  BY <1>13 DEF Undo
<1>14. ASSUME NEW r \in Runs, Unwound(r) PROVE VerdictInv'
  BY <1>14 DEF Unwound
<1>15. ASSUME NEW r \in Runs, NEW ok \in BOOLEAN, WarnCleanup(r, ok) PROVE VerdictInv'
  BY <1>15 DEF WarnCleanup, Fail, Emit
<1>16. ASSUME NEW r \in Runs, ReleaseLock(r) PROVE VerdictInv'
  BY <1>16 DEF ReleaseLock, Fail, Succeed
<1>17. ASSUME NEW r \in Runs, NEW ok \in BOOLEAN, EmitSummary(r, ok) PROVE VerdictInv'
  <2>1. pc' = [pc EXCEPT ![r] = "verdict"] /\ pc[r] = "summary"
    BY <1>17 DEF EmitSummary
  <2>2. last'[r] \in {last[r], "summary"} /\ \A q \in Runs \ {r} : last'[q] = last[q]
    BY <1>17 DEF EmitSummary, Emit
  <2>3. \/ err' = err /\ emitErr' = emitErr
        \/ err' = err \cup {r} /\ emitErr' = emitErr \cup {r}
    BY <1>17 DEF EmitSummary, Emit, Succeed, Fail
  <2>4. ASSUME NEW q \in Runs \ {r} PROVE Honest(q)'
    BY <1>17, <2>1, <2>2, <2>3 DEF EmitSummary
  <2>5. Honest(r)'
    BY <1>17, <2>1, <2>2, <2>3 DEF EmitSummary
  <2> QED BY <2>4, <2>5
<1>18. ASSUME NEW r \in Runs, NEW ok \in BOOLEAN, EmitVerdict(r, ok) PROVE VerdictInv'
  BY SMTT(30), <1>18 DEF EmitVerdict, Fail, Succeed, Emit
<1>19. ASSUME NEW r \in Runs, Crash(r) PROVE VerdictInv'
  BY <1>19 DEF Crash
<1>20. ASSUME NEW r \in Runs, OrphanExits(r) PROVE VerdictInv'
  BY <1>20 DEF OrphanExits
<1> QED
  BY <1>0, <1>1, <1>2, <1>3, <1>4, <1>5, <1>6, <1>7, <1>8, <1>9, <1>10,
     <1>11, <1>12, <1>13, <1>14, <1>15, <1>16, <1>17, <1>18, <1>19, <1>20
  DEF Next, Progress, StepBody

(* Done, nil and success are the same thing, and so are Error, an error    *)
(* and failure, as far as the sink can still tell.                         *)
THEOREM VerdictHonest == Spec => []VerdictIsHonest
<1>1. TypeOK /\ VerdictInv => VerdictIsHonest
  BY DEF VerdictInv, Honest, VerdictIsHonest, TypeOK
<1> QED
  BY <1>1, TypeCorrect, VerdictInvInit, VerdictInvNext, PTL DEF Spec

-----------------------------------------------------------------------------
(* A sink that failed stays failed for the run: nothing reaches the        *)
(* consumer any more, and no step is started.                              *)
LEMMA EmitIsMute ==
    ASSUME SinkTypeOK, NEW r \in Runs, NEW kind, NEW ok, Emit(r, kind, ok)
    PROVE  \A q \in emitErr : last'[q] = last[q]
BY DEF SinkTypeOK, Emit

THEOREM MuteOnceFailed == Spec => MuteAfterSinkFailure
<1>1. ASSUME TypeOK, VerdictInv, [Next]_vars, NEW q \in Runs, q \in emitErr
      PROVE  last'[q] = last[q] /\ step'[q] = step[q]
  <2>0. SinkTypeOK
    BY <1>1 DEF TypeOK
  <2>1. pc[q] # "steps"
    BY <1>1 DEF VerdictInv, Honest
  <2>2. step'[q] = step[q]
    <3>1. CASE \E r \in Runs, ok \in BOOLEAN : StartStep(r, ok)
      BY <1>1, <2>1, <3>1 DEF StartStep, TypeOK
    <3> QED
      BY <1>1, <3>1 DEF Next, Progress, StepBody, vars, Begin, DeprecationWarning,
         TakeLock, RefuseLock, SkipLock, SkipStep, StepEmits, StepDefers,
         StepAddsSummary, StepReturns, StepsDone, Undo, Unwound, WarnCleanup,
         ReleaseLock, EmitSummary, EmitVerdict, Crash, OrphanExits
  <2>3. last'[q] = last[q]
    <3>1. CASE \E r \in Runs, kind \in S!Kinds, ok \in BOOLEAN : Emit(r, kind, ok)
      BY <1>1, <2>0, <3>1, EmitIsMute
    <3>2. CASE UNCHANGED last
      BY <3>2
    <3>3. (\E r \in Runs, kind \in S!Kinds, ok \in BOOLEAN : Emit(r, kind, ok))
             \/ UNCHANGED last
      BY <1>1 DEF Next, Progress, StepBody, vars, Begin, DeprecationWarning,
         TakeLock, RefuseLock, SkipLock, StartStep, SkipStep, StepEmits, StepDefers,
         StepAddsSummary, StepReturns, StepsDone, Undo, Unwound, WarnCleanup,
         ReleaseLock, EmitSummary, EmitVerdict, Crash, OrphanExits,
         S!Kinds, S!Running, S!Terminal
    <3> QED BY <3>1, <3>2, <3>3
  <2> QED BY <2>2, <2>3
<1>2. TypeOK /\ VerdictInv /\ [Next]_vars =>
         [\A r \in Runs : r \in emitErr => last'[r] = last[r] /\ step'[r] = step[r]]_vars
  BY <1>1
<1> QED
  BY <1>2, TypeCorrect, VerdictInvInit, VerdictInvNext, PTL DEF Spec, MuteAfterSinkFailure

-----------------------------------------------------------------------------
(* Why the stream is legal: where a run stands decides what it can have    *)
(* sent last, a run without an error has announced every step it started,  *)
(* and only a run that got past its start event can owe an undo.           *)
InOrder(q) ==
    /\ pc[q] = "idle" => last[q] = "none" /\ stack[q] = <<>>
    /\ pc[q] \in {"started", "steps", "run"} => last[q] \in S!Running
    /\ pc[q] = "unwind" /\ (q \notin emitErr \/ stack[q] # <<>>) =>
          last[q] \in S!Running
    /\ pc[q] \in {"report", "summary"} /\ q \notin emitErr =>
          last[q] \in S!Running \cup {"cleanup"}
    /\ pc[q] = "verdict" /\ q \notin emitErr =>
          last[q] \in S!Running \cup {"cleanup", "summary"}
    /\ q \notin err => index[q] = step[q] /\ last[q] # "cleanup"

StreamInv == \A q \in Runs : InOrder(q)

LEMMA StreamInvInit == Init => StreamInv
BY DEF Init, StreamInv, InOrder

LEMMA StreamInvNext == TypeOK /\ VerdictInv /\ StreamInv /\ [Next]_vars => StreamInv'
<1> SUFFICES ASSUME TypeOK, VerdictInv, StreamInv, [Next]_vars PROVE StreamInv'
  OBVIOUS
<1>a. \A q \in Runs : Honest(q) /\ InOrder(q)
  BY DEF VerdictInv, StreamInv
<1> USE StepsAssumption DEF TypeOK, SinkTypeOK, ErrorTypeOK, Goto, S!Running,
           StreamInv, InOrder
<1>0. CASE UNCHANGED vars
  BY <1>0 DEF vars
<1>1. ASSUME NEW r \in Runs, NEW ok \in BOOLEAN, Begin(r, ok) PROVE StreamInv'
  BY <1>1, <1>a DEF Begin, Honest, Proceed, Succeed, Fail, Emit
<1>2. ASSUME NEW r \in Runs, NEW ok \in BOOLEAN, DeprecationWarning(r, ok) PROVE StreamInv'
  BY <1>2, <1>a DEF DeprecationWarning, Honest, Proceed, Succeed, Fail, Emit
<1>3. ASSUME NEW r \in Runs, TakeLock(r) PROVE StreamInv'
  BY <1>3, <1>a DEF TakeLock, Honest
<1>4. ASSUME NEW r \in Runs, RefuseLock(r) PROVE StreamInv'
  BY <1>4, <1>a DEF RefuseLock, Honest, Fail
<1>5. ASSUME NEW r \in Runs, SkipLock(r) PROVE StreamInv'
  BY <1>5, <1>a DEF SkipLock, Honest
<1>6. ASSUME NEW r \in Runs, NEW ok \in BOOLEAN, StartStep(r, ok) PROVE StreamInv'
  BY <1>6, <1>a DEF StartStep, Honest, Proceed, Succeed, Fail, Emit
<1>7. ASSUME NEW r \in Runs, NEW ok \in BOOLEAN, SkipStep(r, ok) PROVE StreamInv'
  BY SMTT(30), <1>7, <1>a DEF SkipStep, Honest, Proceed, Succeed, Fail, Emit
<1>8. ASSUME NEW r \in Runs, NEW ok \in BOOLEAN, StepEmits(r, ok) PROVE StreamInv'
  BY <1>8, <1>a DEF StepEmits, Honest, Emit
<1>9. ASSUME NEW r \in Runs, StepDefers(r) PROVE StreamInv'
  BY <1>9, <1>a DEF StepDefers, Honest
<1>10. ASSUME NEW r \in Runs, StepAddsSummary(r) PROVE StreamInv'
  BY <1>10, <1>a DEF StepAddsSummary, Honest
<1>11. ASSUME NEW r \in Runs, NEW ok \in BOOLEAN, StepReturns(r, ok) PROVE StreamInv'
  BY <1>11, <1>a DEF StepReturns, Honest, Succeed, Fail
<1>12. ASSUME NEW r \in Runs, StepsDone(r) PROVE StreamInv'
  BY <1>12, <1>a DEF StepsDone, Honest
<1>13. ASSUME NEW r \in Runs, NEW ok \in BOOLEAN, Undo(r, ok) PROVE StreamInv'
  BY <1>13, <1>a DEF Undo, Honest
<1>14. ASSUME NEW r \in Runs, Unwound(r) PROVE StreamInv'
  BY <1>14, <1>a DEF Unwound, Honest
<1>15. ASSUME NEW r \in Runs, NEW ok \in BOOLEAN, WarnCleanup(r, ok) PROVE StreamInv'
  BY <1>15, <1>a DEF WarnCleanup, Honest, Fail, Emit
<1>16. ASSUME NEW r \in Runs, ReleaseLock(r) PROVE StreamInv'
  BY <1>16, <1>a DEF ReleaseLock, Honest, Fail, Succeed
<1>17. ASSUME NEW r \in Runs, NEW ok \in BOOLEAN, EmitSummary(r, ok) PROVE StreamInv'
  <2>1. /\ pc[r] = "summary" /\ pc' = [pc EXCEPT ![r] = "verdict"]
        /\ UNCHANGED <<step, stack, index>>
    BY <1>17 DEF EmitSummary
  <2>2. last'[r] \in {last[r], "summary"} /\ \A q \in Runs \ {r} : last'[q] = last[q]
    BY <1>17 DEF EmitSummary, Emit
  <2>3. err \subseteq err' /\ emitErr \subseteq emitErr'
    BY <1>17 DEF EmitSummary, Emit, Succeed, Fail
  <2>4. ASSUME NEW q \in Runs \ {r} PROVE InOrder(q)'
    BY <1>a, <2>1, <2>2, <2>3, <2>4
  <2>5. InOrder(r)'
    BY <1>a, <2>1, <2>2, <2>3
  <2> QED BY <2>4, <2>5
<1>18. ASSUME NEW r \in Runs, NEW ok \in BOOLEAN, EmitVerdict(r, ok) PROVE StreamInv'
  <2>1. /\ pc[r] = "verdict" /\ pc' = [pc EXCEPT ![r] = "returned"]
        /\ UNCHANGED <<step, stack, index>>
    BY <1>18 DEF EmitVerdict
  <2>2. /\ last'[r] \in {last[r], "error", "done"}
        /\ \A q \in Runs \ {r} : last'[q] = last[q]
    BY <1>18 DEF EmitVerdict, Emit
  <2>3. err \subseteq err' /\ emitErr \subseteq emitErr'
    BY <1>18 DEF EmitVerdict, Emit, Succeed, Fail
  <2>4. ASSUME NEW q \in Runs \ {r} PROVE InOrder(q)'
    BY <1>a, <2>1, <2>2, <2>3, <2>4
  <2>5. InOrder(r)'
    BY <1>a, <2>1, <2>2, <2>3
  <2> QED BY <2>4, <2>5
<1>19. ASSUME NEW r \in Runs, Crash(r) PROVE StreamInv'
  BY <1>19, <1>a DEF Crash, Honest
<1>20. ASSUME NEW r \in Runs, OrphanExits(r) PROVE StreamInv'
  BY <1>20, <1>a DEF OrphanExits, Honest
<1> QED
  BY <1>0, <1>1, <1>2, <1>3, <1>4, <1>5, <1>6, <1>7, <1>8, <1>9, <1>10, <1>11,
     <1>12, <1>13, <1>14, <1>15, <1>16, <1>17, <1>18, <1>19, <1>20
  DEF Next, Progress, StepBody

(* Every step of the engine is an event the consumer may receive next, the *)
(* failure of an undo, or invisible.                                       *)
LEMMA StreamSimulation ==
    TypeOK /\ VerdictInv /\ StreamInv /\ [Next]_vars => [S!StreamNext]_(S!streamVars)
<1> SUFFICES ASSUME TypeOK, VerdictInv, StreamInv, [Next]_vars
             PROVE  S!StreamNext \/ UNCHANGED S!streamVars
  OBVIOUS
<1>a. \A q \in Runs : Honest(q) /\ InOrder(q)
  BY DEF VerdictInv, StreamInv
<1> USE StepsAssumption DEF S!StreamNext, S!StreamStep, S!streamVars, S!Receive
<1>e. \A r \in Runs, kind \in S!Kinds, ok \in BOOLEAN :
         Emit(r, kind, ok) => UNCHANGED last \/ (ok /\ last' = [last EXCEPT ![r] = kind])
  BY DEF TypeOK, SinkTypeOK, Emit
<1>0. CASE UNCHANGED <<last, index, fails>>
  BY <1>0
<1>1. ASSUME NEW r \in Runs, NEW ok \in BOOLEAN, Begin(r, ok)
      PROVE  S!StreamNext \/ UNCHANGED S!streamVars
  BY <1>1, <1>a, <1>e DEF Begin, InOrder, S!Start, S!Kinds, S!Running, S!Terminal
<1>2. ASSUME NEW r \in Runs, NEW ok \in BOOLEAN, DeprecationWarning(r, ok)
      PROVE  S!StreamNext \/ UNCHANGED S!streamVars
  BY <1>2, <1>a, <1>e DEF DeprecationWarning, InOrder, S!Body, S!Kinds, S!Running, S!Terminal
<1>3. ASSUME NEW r \in Runs, NEW ok \in BOOLEAN, StartStep(r, ok)
      PROVE  S!StreamNext \/ UNCHANGED S!streamVars
  <2>1. r \notin emitErr /\ last[r] \in S!Running /\ index[r] = step[r] /\ fails' = fails
    BY <1>3, <1>a DEF StartStep, InOrder, Honest
  <2>2. CASE ~ok
    BY <1>0, <1>3, <2>1, <2>2 DEF StartStep, Emit, TypeOK, SinkTypeOK
  <2>3. CASE ok
    <3>1. last' = [last EXCEPT ![r] = "step_start"]
      BY <1>3, <2>1, <2>3 DEF StartStep, Emit
    <3>2. index[r] + 1 \in (index[r] + 1)..NumSteps
      BY <1>3, <2>1 DEF StartStep, TypeOK
    <3>3. index' = [index EXCEPT ![r] = index[r] + 1]
      BY <1>3, <2>1, <2>3 DEF StartStep
    <3>4. S!StepStart(r)
      BY <2>1, <3>1, <3>2, <3>3 DEF S!StepStart
    <3> QED BY <3>4
  <2> QED BY <2>2, <2>3
<1>4. ASSUME NEW r \in Runs, NEW ok \in BOOLEAN, SkipStep(r, ok)
      PROVE  S!StreamNext \/ UNCHANGED S!streamVars
  BY <1>4, <1>a, <1>e DEF SkipStep, InOrder, S!Body, S!Kinds, S!Running, S!Terminal
<1>5. ASSUME NEW r \in Runs, NEW ok \in BOOLEAN, StepEmits(r, ok)
      PROVE  S!StreamNext \/ UNCHANGED S!streamVars
  BY <1>5, <1>a, <1>e DEF StepEmits, InOrder, S!Body, S!Kinds, S!Running, S!Terminal
<1>6. ASSUME NEW r \in Runs, NEW ok \in BOOLEAN, Undo(r, ok)
      PROVE  S!StreamNext \/ UNCHANGED S!streamVars
  <2>1. last[r] \in S!Running /\ UNCHANGED <<last, index>>
    BY <1>6, <1>a DEF Undo, InOrder
  <2>2. CASE ok
    BY <1>0, <1>6, <2>1, <2>2 DEF Undo, TypeOK
  <2>3. CASE ~ok
    <3>1. /\ fails' \in [Runs -> Nat] /\ fails'[r] > 0
          /\ \A q \in Runs \ {r} : fails'[q] = fails[q]
      BY SMTT(30), <1>6, <2>3 DEF Undo, TypeOK
    <3>2. {q \in Runs : fails'[q] > 0} = {q \in Runs : fails[q] > 0} \cup {r}
      BY <3>1 DEF TypeOK
    <3>3. S!UndoFails(r)
      BY <2>1, <3>2 DEF S!UndoFails
    <3> QED BY <3>3
  <2> QED BY <2>2, <2>3
<1>7. ASSUME NEW r \in Runs, NEW ok \in BOOLEAN, WarnCleanup(r, ok)
      PROVE  S!StreamNext \/ UNCHANGED S!streamVars
  <2>1. pc[r] = "report" /\ UNCHANGED <<index, fails>> /\ r \in {q \in Runs : fails[q] > 0}
    BY <1>7 DEF WarnCleanup, TypeOK
  <2>2. CASE UNCHANGED last
    BY <1>0, <2>1, <2>2
  <2>3. CASE ~ UNCHANGED last
    <3>1. r \notin emitErr /\ last' = [last EXCEPT ![r] = "cleanup"]
      BY <1>7, <2>3 DEF WarnCleanup, Emit, TypeOK, SinkTypeOK
    <3>2. last[r] \in S!Running \cup {"cleanup"}
      BY <1>a, <2>1, <3>1 DEF InOrder
    <3>3. S!CleanupWarning(r)
      BY <2>1, <3>1, <3>2 DEF S!CleanupWarning
    <3> QED BY <3>3
  <2> QED BY <2>2, <2>3
<1>8. ASSUME NEW r \in Runs, NEW ok \in BOOLEAN, EmitSummary(r, ok)
      PROVE  S!StreamNext \/ UNCHANGED S!streamVars
  <2>1. pc[r] = "summary" /\ UNCHANGED <<index, fails>>
    BY <1>8 DEF EmitSummary
  <2>2. CASE UNCHANGED last
    BY <1>0, <2>1, <2>2
  <2>3. CASE ~ UNCHANGED last
    <3>1. r \notin emitErr /\ last' = [last EXCEPT ![r] = "summary"]
      BY <1>8, <2>3 DEF EmitSummary, Emit, TypeOK, SinkTypeOK
    <3>2. last[r] \in S!Running \cup {"cleanup"}
      BY <1>a, <2>1, <3>1 DEF InOrder
    <3>3. S!Summary(r)
      BY <2>1, <3>1, <3>2 DEF S!Summary
    <3> QED BY <3>3
  <2> QED BY <2>2, <2>3
<1>9. ASSUME NEW r \in Runs, NEW ok \in BOOLEAN, EmitVerdict(r, ok)
      PROVE  S!StreamNext \/ UNCHANGED S!streamVars
  <2>1. pc[r] = "verdict" /\ UNCHANGED <<index, fails>>
    BY <1>9 DEF EmitVerdict
  <2>2. CASE UNCHANGED last
    BY <1>0, <2>1, <2>2
  <2>3. CASE ~ UNCHANGED last
    <3>1. /\ r \notin emitErr
          /\ \/ r \in err /\ last' = [last EXCEPT ![r] = "error"]
             \/ r \notin err /\ last' = [last EXCEPT ![r] = "done"]
      BY <1>9, <2>3 DEF EmitVerdict, Emit, TypeOK, SinkTypeOK
    <3>2. last[r] \in S!Running \cup {"cleanup", "summary"}
      BY <1>a, <2>1, <3>1 DEF InOrder
    <3>3. CASE r \in err
      BY <2>1, <3>1, <3>2, <3>3 DEF S!Error
    <3>4. CASE r \notin err
      <4>1. step[r] = NumSteps /\ warned[r] = fails[r] /\ warned[r] = 0
        BY <1>a, <2>1, <3>4 DEF Honest
      <4>2. last[r] # "cleanup" /\ index[r] = step[r]
        BY <1>a, <3>4 DEF InOrder
      <4>3. r \notin {q \in Runs : fails[q] > 0} /\ index[r] = NumSteps
        <5>1. fails[r] = 0
          BY <4>1
        <5>2. ~(fails[r] > 0)
          BY <5>1
        <5> QED BY <4>1, <4>2, <5>2
      <4>4. last[r] \in S!Running \cup {"summary"}
        BY <3>2, <4>2
      <4>5. S!Done(r)
        BY <2>1, <3>1, <3>4, <4>3, <4>4 DEF S!Done
      <4> QED BY <4>5
    <3> QED BY <3>3, <3>4
  <2> QED BY <2>2, <2>3
<1>10. CASE \E r \in Runs :
          \/ TakeLock(r) \/ RefuseLock(r) \/ SkipLock(r) \/ StepDefers(r)
          \/ StepAddsSummary(r) \/ StepsDone(r) \/ Unwound(r) \/ ReleaseLock(r)
          \/ Crash(r) \/ OrphanExits(r) \/ \E ok \in BOOLEAN : StepReturns(r, ok)
  BY <1>0, <1>10 DEF TakeLock, RefuseLock, SkipLock, StepDefers, StepAddsSummary,
     StepReturns, StepsDone, Unwound, ReleaseLock, Crash, OrphanExits
<1>11. CASE UNCHANGED vars
  BY <1>0, <1>11 DEF vars
<1> QED
  BY <1>1, <1>2, <1>3, <1>4, <1>5, <1>6, <1>7, <1>8, <1>9, <1>10, <1>11
  DEF Next, Progress, StepBody

(* The engine implements the event stream its consumers are promised.      *)
THEOREM StreamLegal == Spec => StreamIsLegal
<1>1. Init => S!StreamInit
  BY DEF Init, S!StreamInit
<1> QED
  BY <1>1, TypeCorrect, VerdictInvInit, VerdictInvNext, StreamInvInit, StreamInvNext,
     StreamSimulation, PTL DEF Spec, StreamIsLegal, S!StreamSpec
=============================================================================
