--------------------------- MODULE JobEngine_proofs ---------------------------
(***************************************************************************)
(* Theorems about JobEngine, for every set of jobs and of process lives,   *)
(* overlapping or not, with or without database errors.                    *)
(*                                                                         *)
(* The argument: a job is handed to a background task once in its life.    *)
(* Only Submit queues a task for a job nobody has seen, and the recovery   *)
(* never queues one, because a job it requeued has no generation yet and   *)
(* no checkpoint payload holds its source.  So a claim happens at retry    *)
(* count 0, everything a task writes is written by that one task, and the  *)
(* rows recovery holds on to are rows no worker can still claim.           *)
(***************************************************************************)
EXTENDS JobEngine, TLAPS

Settled(j) == status[j] \in {"orphaned", "completed", "failed"} \/ retryCount[j] > 0

\* A job that was never submitted has no task and no progress.
Untouched ==
    \A j \in Jobs : status[j] = "absent" =>
        checkpoint[j] = None /\ \A p \in Procs : stage[p][j] = "idle"

\* A job is claimed, and orphaned, only before its first retry.
FirstTry ==
    \A j \in Jobs :
        status[j] \in {"absent", "processing", "orphaned"} => retryCount[j] = 0

\* A task that has not claimed its job is the task of a fresh submission.
FreshQueue ==
    \A p \in Procs, j \in Jobs : stage[p][j] = "queued" =>
        status[j] = "pending" /\ retryCount[j] = 0

\* A job has had at most one task since it was submitted.
OneTask ==
    \A p, q \in Procs, j \in Jobs :
        stage[p][j] # "idle" /\ stage[q][j] # "idle" => p = q

\* A row that some recovery still holds can no longer be claimed.
ChosenSettled ==
    \A p \in Procs, j \in Jobs : j \in todo[p] \/ cursor[p] = j => Settled(j)

\* A requeue is attempted only if at least one retry is allowed.
RequeueAllowed == \A p \in Procs : phase[p] = "requeue" => 0 < MAX_STARTUP_RETRIES

\* The generation is linked by the last write of the only task.
LinkedAtEnd ==
    \A j \in Jobs : generationId[j] # None =>
        /\ status[j] \in Terminal
        /\ \A p \in Procs : stage[p][j] \in {"idle", "over", "raised"}

\* How far the task is agrees with the checkpoint and the generation row.
StageMatches ==
    \A p \in Procs, j \in Jobs :
        /\ stage[p][j] \in {"queued", "claimed"} => checkpoint[j] = None
        /\ stage[p][j] \in {"analyzed", "created", "running", "generated"} =>
               checkpoint[j] = "ANALYZED"
        /\ stage[p][j] \in {"responded", "scored"} => checkpoint[j] = "LLM_RESPONDED"
        /\ stage[p][j] = "tested" => checkpoint[j] = "SANDBOX_TESTED"
        /\ stage[p][j] \in {"generated", "responded", "scored", "tested"} =>
               gen[p][j] \in {"completed", "failed"}

IInv ==
    /\ TypeOK
    /\ Untouched
    /\ FirstTry
    /\ FreshQueue
    /\ OneTask
    /\ ChosenSettled
    /\ RequeueAllowed
    /\ LinkedAtEnd
    /\ StageMatches
    /\ RetryBound
    /\ CompletedHasResult

-----------------------------------------------------------------------------
(* Type correctness.                                                       *)

\* The columns of an empty table have their types.
LEMMA InitTyped == Init => TypeOK
BY JobEngineAssumption
DEF Init, TypeOK, JobStatus, Checkpoint, Payload, GenStatus, Stage, Phase

\* No statement of the engine writes a value of another type.
LEMMA NextTyped == TypeOK /\ [Next]_vars => TypeOK'
<1> SUFFICES ASSUME TypeOK, [Next]_vars PROVE TypeOK'
  OBVIOUS
<1> USE DEF TypeOK, columns, recovery, JobStatus, Checkpoint, Payload, GenStatus, Stage, Phase
<1>0. CASE UNCHANGED vars
  BY <1>0 DEF vars
<1>1. ASSUME NEW p \in Procs, Start(p)
      PROVE  TypeOK'
  BY <1>1 DEF Start
<1>2. ASSUME NEW p \in Procs, Crash(p)
      PROVE  TypeOK'
  BY <1>2 DEF Crash, Forget
<1>3. ASSUME NEW p \in Procs, MarkOrphanedJobs(p)
      PROVE  TypeOK'
  BY <1>3 DEF MarkOrphanedJobs, AtStartup
<1>4. ASSUME NEW p \in Procs, ListOrphans(p)
      PROVE  TypeOK'
  BY <1>4 DEF ListOrphans
<1>5. ASSUME NEW p \in Procs, NEW j \in Jobs, VisitOrphan(p, j)
      PROVE  TypeOK'
  BY <1>5 DEF VisitOrphan, SeenRetryCount
<1>6. ASSUME NEW p \in Procs, NEW j \in Jobs, ClaimForRetry(p, j)
      PROVE  TypeOK'
  <2>1. /\ phase[p] = "requeue"
        /\ cursor[p] = j
        /\ fresh' = [fresh EXCEPT ![p] = FALSE]
        /\ cursor' = [cursor EXCEPT ![p] = None]
        /\ phase' = [phase EXCEPT ![p] = "visiting"]
        /\ UNCHANGED <<checkpoint, payload, generationId, gen, stage, todo, loaded>>
    BY <1>6 DEF ClaimForRetry
  <2>2. \/ /\ status[j] = "orphaned"
           /\ status' = [status EXCEPT ![j] = "pending"]
           /\ retryCount' = [retryCount EXCEPT ![j] = @ + 1]
           /\ requeued' = [requeued EXCEPT ![p] = TRUE]
        \/ UNCHANGED <<status, retryCount, requeued>>
    BY <1>6 DEF ClaimForRetry, ClaimableForRetry
  <2>3. CASE /\ status[j] = "orphaned"
             /\ status' = [status EXCEPT ![j] = "pending"]
             /\ retryCount' = [retryCount EXCEPT ![j] = @ + 1]
             /\ requeued' = [requeued EXCEPT ![p] = TRUE]
    BY <2>1, <2>3
  <2>4. CASE UNCHANGED <<status, retryCount, requeued>>
    BY <2>1, <2>4
  <2>5. QED
    BY <2>2, <2>3, <2>4
<1>7. ASSUME NEW p \in Procs, NEW j \in Jobs, FailExhausted(p, j)
      PROVE  TypeOK'
  BY <1>7 DEF FailExhausted
<1>8. ASSUME NEW p \in Procs, FinishRecovery(p)
      PROVE  TypeOK'
  BY <1>8 DEF FinishRecovery, Forget
<1>9. ASSUME NEW p \in Procs, ScheduleRecoveryJobs(p)
      PROVE  TypeOK'
  BY <1>9 DEF ScheduleRecoveryJobs, Resumable
<1>10. ASSUME NEW p \in Procs, Serve(p)
      PROVE  TypeOK'
  BY <1>10 DEF Serve
<1>11. ASSUME NEW p \in Procs, RecoveryRaises(p)
      PROVE  TypeOK'
  BY <1>11 DEF RecoveryRaises, Forget
<1>12. ASSUME NEW p \in Procs, NEW j \in Jobs, Submit(p, j)
      PROVE  TypeOK'
  BY <1>12 DEF Submit, Goto
<1>13. ASSUME NEW p \in Procs, NEW j \in Jobs, AtomicClaim(p, j)
      PROVE  TypeOK'
  <2>1. /\ stage[p][j] = "queued"
        /\ UNCHANGED <<retryCount, checkpoint, payload, generationId, gen, phase, recovery>>
    BY <1>13 DEF AtomicClaim
  <2>2. \/ /\ status[j] = "pending"
           /\ status' = [status EXCEPT ![j] = "processing"]
           /\ stage' = [stage EXCEPT ![p][j] = "claimed"]
        \/ UNCHANGED status
           /\ stage' = [stage EXCEPT ![p][j] = "over"]
    BY <1>13 DEF AtomicClaim, Goto, Claimable
  <2>3. CASE /\ status[j] = "pending"
             /\ status' = [status EXCEPT ![j] = "processing"]
             /\ stage' = [stage EXCEPT ![p][j] = "claimed"]
    BY <2>1, <2>3
  <2>4. CASE /\ UNCHANGED status
             /\ stage' = [stage EXCEPT ![p][j] = "over"]
    BY <2>1, <2>4
  <2>5. QED
    BY <2>2, <2>3, <2>4
<1>14. ASSUME NEW p \in Procs, NEW j \in Jobs, SaveAnalyzed(p, j)
      PROVE  TypeOK'
  BY <1>14 DEF SaveAnalyzed, Goto, SaveCheckpoint
<1>15. ASSUME NEW p \in Procs, NEW j \in Jobs, CreateGeneration(p, j)
      PROVE  TypeOK'
  <2>1. /\ stage[p][j] = "analyzed"
        /\ UNCHANGED <<columns, phase, recovery>>
    BY <1>15 DEF CreateGeneration
  <2>2. \/ /\ stage' = [stage EXCEPT ![p][j] = "raised"]
           /\ UNCHANGED gen
        \/ /\ gen' = [gen EXCEPT ![p][j] = "pending"]
           /\ stage' = [stage EXCEPT ![p][j] = "created"]
    BY <1>15 DEF CreateGeneration, Goto
  <2>3. CASE /\ stage' = [stage EXCEPT ![p][j] = "raised"]
             /\ UNCHANGED gen
    BY <2>1, <2>3
  <2>4. CASE /\ gen' = [gen EXCEPT ![p][j] = "pending"]
             /\ stage' = [stage EXCEPT ![p][j] = "created"]
    BY <2>1, <2>4
  <2>5. QED
    BY <2>2, <2>3, <2>4
<1>16. ASSUME NEW p \in Procs, NEW j \in Jobs, StartGeneration(p, j)
      PROVE  TypeOK'
  BY <1>16 DEF StartGeneration, Goto
<1>17. ASSUME NEW p \in Procs, NEW j \in Jobs, FinishGeneration(p, j)
      PROVE  TypeOK'
  BY <1>17 DEF FinishGeneration, Goto
<1>18. ASSUME NEW p \in Procs, NEW j \in Jobs, SaveLlmResponded(p, j)
      PROVE  TypeOK'
  BY <1>18 DEF SaveLlmResponded, Goto, SaveCheckpoint
<1>19. ASSUME NEW p \in Procs, NEW j \in Jobs, HealAndScore(p, j)
      PROVE  TypeOK'
  BY <1>19 DEF HealAndScore, Goto
<1>20. ASSUME NEW p \in Procs, NEW j \in Jobs, SaveSandboxTested(p, j)
      PROVE  TypeOK'
  BY <1>20 DEF SaveSandboxTested, Goto, SaveCheckpoint
<1>21. ASSUME NEW p \in Procs, NEW j \in Jobs, MarkCompleted(p, j)
      PROVE  TypeOK'
  <2>1. /\ stage[p][j] = "tested"
        /\ status' = [status EXCEPT ![j] = "completed"]
        /\ generationId' = [generationId EXCEPT ![j] = p]
        /\ UNCHANGED <<retryCount, checkpoint, payload, gen, phase, recovery>>
    BY <1>21 DEF MarkCompleted
  <2>2. \/ /\ stage' = [stage EXCEPT ![p][j] = "over"]
        \/ /\ stage' = [stage EXCEPT ![p][j] = "raised"]
    BY <1>21 DEF MarkCompleted, Goto
  <2>3. CASE stage' = [stage EXCEPT ![p][j] = "over"]
    BY <2>1, <2>3
  <2>4. CASE stage' = [stage EXCEPT ![p][j] = "raised"]
    BY <2>1, <2>4
  <2>5. QED
    BY <2>2, <2>3, <2>4
<1>22. ASSUME NEW p \in Procs, NEW j \in Jobs, MarkFailed(p, j)
      PROVE  TypeOK'
  <2>1. /\ stage[p][j] = "raised"
        /\ stage' = [stage EXCEPT ![p][j] = "over"]
        /\ UNCHANGED <<retryCount, checkpoint, payload, generationId, gen, phase, recovery>>
    BY <1>22 DEF MarkFailed, Goto
  <2>2. \/ /\ status' = [status EXCEPT ![j] = "failed"]
        \/ UNCHANGED status
    BY <1>22 DEF MarkFailed, Goto
  <2>3. CASE status' = [status EXCEPT ![j] = "failed"]
    BY <2>1, <2>3
  <2>4. CASE UNCHANGED status
    BY <2>1, <2>4
  <2>5. QED
    BY <2>2, <2>3, <2>4
<1>23. ASSUME NEW p \in Procs, NEW j \in Jobs, TaskRaises(p, j)
      PROVE  TypeOK'
  BY <1>23 DEF TaskRaises, Goto, Active
<1>24. QED
  BY <1>0, <1>1, <1>2, <1>3, <1>4, <1>5, <1>6, <1>7, <1>8, <1>9, <1>10, <1>11, <1>12, <1>13, <1>14, <1>15, <1>16, <1>17, <1>18, <1>19, <1>20, <1>21, <1>22, <1>23
  DEF Next, RecoveryStep, TaskStep, AllDead

\* Every variable keeps its type, and the columns hold only the values the
\* code writes, whatever fails and however many processes run.
THEOREM TypeCorrect == Spec => []TypeOK
BY InitTyped, NextTyped, PTL DEF Spec

-----------------------------------------------------------------------------
(* The inductive invariant.                                                *)

\* It holds before the first process starts.
LEMMA InitInvariant == Init => IInv
BY InitTyped, JobEngineAssumption
DEF Init, IInv, Untouched, FirstTry, FreshQueue, OneTask, ChosenSettled, RequeueAllowed,
    LinkedAtEnd, StageMatches, RetryBound, CompletedHasResult

\* A requeued job has no generation yet, and no payload holds source code.
LEMMA NothingToResume == IInv => NothingResumable
BY JobEngineAssumption
DEF IInv, TypeOK, Payload, LinkedAtEnd, NothingResumable, Resumable, SourceKnown, Terminal

\* Every statement of the engine preserves it.
LEMMA NextInvariant == IInv /\ [Next]_vars => IInv'
<1> SUFFICES ASSUME IInv, [Next]_vars PROVE IInv'
  OBVIOUS
<1>t. TypeOK'
  BY NextTyped DEF IInv
<1> USE JobEngineAssumption DEF IInv, TypeOK, columns, recovery
<1>0. CASE UNCHANGED vars
  BY <1>0, <1>t DEF vars, Untouched, FirstTry, FreshQueue, OneTask, ChosenSettled, RequeueAllowed, LinkedAtEnd, StageMatches, RetryBound, CompletedHasResult, Settled
<1>1. ASSUME NEW p \in Procs, Start(p)
      PROVE  IInv'
  <2>1. RequeueAllowed'
    BY <1>t, <1>1 DEF Start, RequeueAllowed
  <2>2. QED
    BY <1>t, <1>1, <2>1
    DEF Start, Untouched, FirstTry, FreshQueue, OneTask, ChosenSettled, LinkedAtEnd, StageMatches, RetryBound, CompletedHasResult, Settled
<1>2. ASSUME NEW p \in Procs, Crash(p)
      PROVE  IInv'
  <2>1. Untouched'
    BY <1>t, <1>2 DEF Crash, Untouched
  <2>2. FreshQueue'
    BY <1>t, <1>2 DEF Crash, FreshQueue
  <2>3. OneTask'
    BY <1>t, <1>2 DEF Crash, OneTask
  <2>4. RequeueAllowed'
    BY <1>t, <1>2 DEF Crash, RequeueAllowed
  <2>5. LinkedAtEnd'
    BY <1>t, <1>2 DEF Crash, LinkedAtEnd, Terminal
  <2>6. StageMatches'
    BY <1>t, <1>2 DEF Crash, StageMatches
  <2>7. ChosenSettled'
    BY <1>t, <1>2, JobEngineAssumption DEF Crash, Forget, ChosenSettled, Settled
  <2>8. QED
    BY <1>t, <1>2, <2>1, <2>2, <2>3, <2>4, <2>5, <2>6, <2>7
    DEF Crash, FirstTry, RetryBound, CompletedHasResult
<1>3. ASSUME NEW p \in Procs, MarkOrphanedJobs(p)
      PROVE  IInv'
  <2>1. Untouched'
    BY <1>t, <1>3 DEF MarkOrphanedJobs, AtStartup, Untouched
  <2>2. FirstTry'
    BY <1>t, <1>3 DEF MarkOrphanedJobs, AtStartup, FirstTry
  <2>3. FreshQueue'
    BY <1>t, <1>3 DEF MarkOrphanedJobs, AtStartup, FreshQueue
  <2>4. ChosenSettled'
    BY <1>t, <1>3 DEF MarkOrphanedJobs, AtStartup, ChosenSettled, Settled
  <2>5. RequeueAllowed'
    BY <1>t, <1>3 DEF MarkOrphanedJobs, AtStartup, RequeueAllowed
  <2>6. LinkedAtEnd'
    BY <1>t, <1>3 DEF MarkOrphanedJobs, AtStartup, LinkedAtEnd, Terminal
  <2>7. CompletedHasResult'
    BY <1>t, <1>3 DEF MarkOrphanedJobs, AtStartup, CompletedHasResult
  <2>8. QED
    BY <1>t, <1>3, <2>1, <2>2, <2>3, <2>4, <2>5, <2>6, <2>7
    DEF MarkOrphanedJobs, AtStartup, OneTask, StageMatches, RetryBound
<1>4. ASSUME NEW p \in Procs, ListOrphans(p)
      PROVE  IInv'
  <2>1. ChosenSettled'
    BY <1>t, <1>4 DEF ListOrphans, ChosenSettled, Settled
  <2>2. RequeueAllowed'
    BY <1>t, <1>4 DEF ListOrphans, RequeueAllowed
  <2>3. QED
    BY <1>t, <1>4, <2>1, <2>2
    DEF ListOrphans, Untouched, FirstTry, FreshQueue, OneTask, LinkedAtEnd, StageMatches, RetryBound, CompletedHasResult
<1>5. ASSUME NEW p \in Procs, NEW j \in Jobs, VisitOrphan(p, j)
      PROVE  IInv'
  <2>1. ChosenSettled'
    BY <1>t, <1>5 DEF VisitOrphan, SeenRetryCount, ChosenSettled, Settled
  <2>2. RequeueAllowed'
    BY <1>t, <1>5 DEF VisitOrphan, SeenRetryCount, RequeueAllowed
  <2>3. QED
    BY <1>t, <1>5, <2>1, <2>2
    DEF VisitOrphan, SeenRetryCount, Untouched, FirstTry, FreshQueue, OneTask, LinkedAtEnd, StageMatches, RetryBound, CompletedHasResult
<1>6. ASSUME NEW p \in Procs, NEW j \in Jobs, ClaimForRetry(p, j)
      PROVE  IInv'
  <2>1. /\ phase[p] = "requeue"
        /\ cursor[p] = j
        /\ fresh' = [fresh EXCEPT ![p] = FALSE]
        /\ cursor' = [cursor EXCEPT ![p] = None]
        /\ phase' = [phase EXCEPT ![p] = "visiting"]
        /\ UNCHANGED <<checkpoint, payload, generationId, gen, stage, todo, loaded>>
    BY <1>6 DEF ClaimForRetry
  <2>2. \/ /\ status[j] = "orphaned"
           /\ status' = [status EXCEPT ![j] = "pending"]
           /\ retryCount' = [retryCount EXCEPT ![j] = @ + 1]
           /\ requeued' = [requeued EXCEPT ![p] = TRUE]
        \/ UNCHANGED <<status, retryCount, requeued>>
    BY <1>6 DEF ClaimForRetry, ClaimableForRetry
  <2>3. CASE /\ status[j] = "orphaned"
             /\ status' = [status EXCEPT ![j] = "pending"]
             /\ retryCount' = [retryCount EXCEPT ![j] = @ + 1]
             /\ requeued' = [requeued EXCEPT ![p] = TRUE]
    <3>1. Untouched'
      BY <1>t, <2>1, <2>3 DEF Untouched
    <3>2. FirstTry'
      BY <1>t, <2>1, <2>3 DEF FirstTry
    <3>3. FreshQueue'
      BY <1>t, <2>1, <2>3 DEF FreshQueue
    <3>4. ChosenSettled'
      BY <1>t, <2>1, <2>3 DEF ChosenSettled, Settled
    <3>5. RequeueAllowed'
      BY <1>t, <2>1, <2>3 DEF RequeueAllowed
    <3>6. LinkedAtEnd'
      BY <1>t, <2>1, <2>3 DEF LinkedAtEnd, Terminal
    <3>7. RetryBound'
      BY <1>t, <2>1, <2>3 DEF RetryBound, FirstTry, RequeueAllowed
    <3>8. CompletedHasResult'
      BY <1>t, <2>1, <2>3 DEF CompletedHasResult
    <3>9. QED
      BY <1>t, <2>1, <2>3, <3>1, <3>2, <3>3, <3>4, <3>5, <3>6, <3>7, <3>8
      DEF OneTask, StageMatches
  <2>4. CASE UNCHANGED <<status, retryCount, requeued>>
    <3>1. Untouched'
      BY <1>t, <2>1, <2>4 DEF Untouched
    <3>2. FirstTry'
      BY <1>t, <2>1, <2>4 DEF FirstTry
    <3>3. FreshQueue'
      BY <1>t, <2>1, <2>4 DEF FreshQueue
    <3>4. ChosenSettled'
      BY <1>t, <2>1, <2>4 DEF ChosenSettled, Settled
    <3>5. RequeueAllowed'
      BY <1>t, <2>1, <2>4 DEF RequeueAllowed
    <3>6. LinkedAtEnd'
      BY <1>t, <2>1, <2>4 DEF LinkedAtEnd, Terminal
    <3>7. RetryBound'
      BY <1>t, <2>1, <2>4 DEF RetryBound, FirstTry, RequeueAllowed
    <3>8. CompletedHasResult'
      BY <1>t, <2>1, <2>4 DEF CompletedHasResult
    <3>9. QED
      BY <1>t, <2>1, <2>4, <3>1, <3>2, <3>3, <3>4, <3>5, <3>6, <3>7, <3>8
      DEF OneTask, StageMatches
  <2>5. QED
    BY <2>2, <2>3, <2>4
<1>7. ASSUME NEW p \in Procs, NEW j \in Jobs, FailExhausted(p, j)
      PROVE  IInv'
  <2>1. Untouched'
    BY <1>t, <1>7 DEF FailExhausted, Untouched
  <2>2. FirstTry'
    BY <1>t, <1>7 DEF FailExhausted, FirstTry
  <2>3. FreshQueue'
    <3> SUFFICES ASSUME NEW q \in Procs, NEW k \in Jobs, stage'[q][k] = "queued"
                 PROVE  status'[k] = "pending" /\ retryCount'[k] = 0
      BY DEF FreshQueue
    <3>1. stage[q][k] = "queued" /\ retryCount' = retryCount
      BY <1>7 DEF FailExhausted
    <3>2. status[k] = "pending" /\ retryCount[k] = 0
      BY <3>1 DEF FreshQueue
    <3>3. Settled(j)
      BY <1>7 DEF FailExhausted, ChosenSettled
    <3>4. k # j
      BY <3>2, <3>3 DEF Settled
    <3>5. QED
      BY <1>7, <3>1, <3>2, <3>4 DEF FailExhausted
  <2>4. ChosenSettled'
    BY <1>t, <1>7 DEF FailExhausted, ChosenSettled, Settled
  <2>5. RequeueAllowed'
    BY <1>t, <1>7 DEF FailExhausted, RequeueAllowed
  <2>6. LinkedAtEnd'
    BY <1>t, <1>7 DEF FailExhausted, LinkedAtEnd, Terminal
  <2>7. CompletedHasResult'
    BY <1>t, <1>7 DEF FailExhausted, CompletedHasResult
  <2>8. QED
    BY <1>t, <1>7, <2>1, <2>2, <2>3, <2>4, <2>5, <2>6, <2>7
    DEF FailExhausted, OneTask, StageMatches, RetryBound
<1>8. ASSUME NEW p \in Procs, FinishRecovery(p)
      PROVE  IInv'
  <2>1. RequeueAllowed'
    BY <1>t, <1>8 DEF FinishRecovery, RequeueAllowed
  <2>2. ChosenSettled'
    BY <1>t, <1>8, JobEngineAssumption DEF FinishRecovery, Forget, ChosenSettled, Settled
  <2>3. QED
    BY <1>t, <1>8, <2>1, <2>2
    DEF FinishRecovery, Untouched, FirstTry, FreshQueue, OneTask, LinkedAtEnd, StageMatches, RetryBound, CompletedHasResult
<1>9. ASSUME NEW p \in Procs, ScheduleRecoveryJobs(p)
      PROVE  IInv'
  <2>1. stage' = stage
    BY <1>9, NothingToResume DEF ScheduleRecoveryJobs, NothingResumable
  <2>2. phase' = [phase EXCEPT ![p] = "await"] /\ UNCHANGED <<columns, gen, recovery>>
    BY <1>9 DEF ScheduleRecoveryJobs
  <2>3. QED
    BY <1>t, <2>1, <2>2 DEF Untouched, FirstTry, FreshQueue, OneTask, ChosenSettled, RequeueAllowed, LinkedAtEnd, StageMatches, RetryBound, CompletedHasResult, Settled
<1>10. ASSUME NEW p \in Procs, Serve(p)
      PROVE  IInv'
  <2>1. RequeueAllowed'
    BY <1>t, <1>10 DEF Serve, RequeueAllowed
  <2>2. QED
    BY <1>t, <1>10, <2>1
    DEF Serve, Untouched, FirstTry, FreshQueue, OneTask, ChosenSettled, LinkedAtEnd, StageMatches, RetryBound, CompletedHasResult, Settled
<1>11. ASSUME NEW p \in Procs, RecoveryRaises(p)
      PROVE  IInv'
  <2>1. RequeueAllowed'
    BY <1>t, <1>11 DEF RecoveryRaises, RequeueAllowed
  <2>2. ChosenSettled'
    BY <1>t, <1>11, JobEngineAssumption DEF RecoveryRaises, Forget, ChosenSettled, Settled
  <2>3. QED
    BY <1>t, <1>11, <2>1, <2>2
    DEF RecoveryRaises, Untouched, FirstTry, FreshQueue, OneTask, LinkedAtEnd, StageMatches, RetryBound, CompletedHasResult
<1>12. ASSUME NEW p \in Procs, NEW j \in Jobs, Submit(p, j)
      PROVE  IInv'
  <2>1. Untouched'
    BY <1>t, <1>12 DEF Submit, Goto, Untouched
  <2>2. FirstTry'
    BY <1>t, <1>12 DEF Submit, Goto, FirstTry
  <2>3. FreshQueue'
    BY <1>t, <1>12 DEF Submit, Goto, FreshQueue, Untouched, FirstTry
  <2>4. OneTask'
    BY <1>t, <1>12 DEF Submit, Goto, OneTask, Untouched
  <2>5. ChosenSettled'
    BY <1>t, <1>12 DEF Submit, Goto, ChosenSettled, Settled, FirstTry
  <2>6. LinkedAtEnd'
    BY <1>t, <1>12 DEF Submit, Goto, LinkedAtEnd, Terminal
  <2>7. StageMatches'
    BY <1>t, <1>12 DEF Submit, Goto, StageMatches, Untouched
  <2>8. CompletedHasResult'
    BY <1>t, <1>12 DEF Submit, Goto, CompletedHasResult
  <2>9. QED
    BY <1>t, <1>12, <2>1, <2>2, <2>3, <2>4, <2>5, <2>6, <2>7, <2>8
    DEF Submit, Goto, RequeueAllowed, RetryBound
<1>13. ASSUME NEW p \in Procs, NEW j \in Jobs, AtomicClaim(p, j)
      PROVE  IInv'
  <2>sole. \A q \in Procs : q # p => stage[q][j] = "idle"
    BY <1>13 DEF AtomicClaim, OneTask
  <2>1. /\ stage[p][j] = "queued"
        /\ UNCHANGED <<retryCount, checkpoint, payload, generationId, gen, phase, recovery>>
    BY <1>13 DEF AtomicClaim
  <2>2. \/ /\ status[j] = "pending"
           /\ status' = [status EXCEPT ![j] = "processing"]
           /\ stage' = [stage EXCEPT ![p][j] = "claimed"]
        \/ UNCHANGED status
           /\ stage' = [stage EXCEPT ![p][j] = "over"]
    BY <1>13 DEF AtomicClaim, Goto, Claimable
  <2>3. CASE /\ status[j] = "pending"
             /\ status' = [status EXCEPT ![j] = "processing"]
             /\ stage' = [stage EXCEPT ![p][j] = "claimed"]
    <3>1. Untouched'
      BY <1>t, <2>1, <2>3 DEF Untouched
    <3>2. FirstTry'
      BY <1>t, <2>1, <2>3 DEF FirstTry, FreshQueue
    <3>3. FreshQueue'
      BY <1>t, <2>sole, <2>1, <2>3 DEF FreshQueue
    <3>4. OneTask'
      BY <1>t, <2>1, <2>3 DEF OneTask
    <3>5. ChosenSettled'
      BY <1>t, <2>1, <2>3 DEF ChosenSettled, Settled, FreshQueue
    <3>6. LinkedAtEnd'
      BY <1>t, <2>1, <2>3 DEF LinkedAtEnd, Terminal
    <3>7. StageMatches'
      BY <1>t, <2>1, <2>3 DEF StageMatches
    <3>8. CompletedHasResult'
      BY <1>t, <2>1, <2>3 DEF CompletedHasResult
    <3>9. QED
      BY <1>t, <2>1, <2>3, <3>1, <3>2, <3>3, <3>4, <3>5, <3>6, <3>7, <3>8
      DEF RequeueAllowed, RetryBound
  <2>4. CASE /\ UNCHANGED status
             /\ stage' = [stage EXCEPT ![p][j] = "over"]
    <3>1. Untouched'
      BY <1>t, <2>1, <2>4 DEF Untouched
    <3>2. FirstTry'
      BY <1>t, <2>1, <2>4 DEF FirstTry, FreshQueue
    <3>3. FreshQueue'
      BY <1>t, <2>sole, <2>1, <2>4 DEF FreshQueue
    <3>4. OneTask'
      BY <1>t, <2>1, <2>4 DEF OneTask
    <3>5. ChosenSettled'
      BY <1>t, <2>1, <2>4 DEF ChosenSettled, Settled, FreshQueue
    <3>6. LinkedAtEnd'
      BY <1>t, <2>1, <2>4 DEF LinkedAtEnd, Terminal
    <3>7. StageMatches'
      BY <1>t, <2>1, <2>4 DEF StageMatches
    <3>8. CompletedHasResult'
      BY <1>t, <2>1, <2>4 DEF CompletedHasResult
    <3>9. QED
      BY <1>t, <2>1, <2>4, <3>1, <3>2, <3>3, <3>4, <3>5, <3>6, <3>7, <3>8
      DEF RequeueAllowed, RetryBound
  <2>5. QED
    BY <2>2, <2>3, <2>4
<1>14. ASSUME NEW p \in Procs, NEW j \in Jobs, SaveAnalyzed(p, j)
      PROVE  IInv'
  <2>sole. \A q \in Procs : q # p => stage[q][j] = "idle"
    BY <1>14 DEF SaveAnalyzed, OneTask
  <2>1. Untouched'
    BY <1>t, <1>14 DEF SaveAnalyzed, Goto, SaveCheckpoint, Untouched
  <2>2. FreshQueue'
    BY <1>t, <1>14 DEF SaveAnalyzed, Goto, SaveCheckpoint, FreshQueue
  <2>3. OneTask'
    BY <1>t, <1>14 DEF SaveAnalyzed, Goto, SaveCheckpoint, OneTask
  <2>4. LinkedAtEnd'
    BY <1>t, <1>14 DEF SaveAnalyzed, Goto, SaveCheckpoint, LinkedAtEnd, Terminal
  <2>5. StageMatches'
    BY <1>t, <2>sole, <1>14 DEF SaveAnalyzed, Goto, SaveCheckpoint, StageMatches
  <2>6. CompletedHasResult'
    BY <1>t, <1>14 DEF SaveAnalyzed, Goto, SaveCheckpoint, CompletedHasResult, LinkedAtEnd
  <2>7. QED
    BY <1>t, <1>14, <2>1, <2>2, <2>3, <2>4, <2>5, <2>6
    DEF SaveAnalyzed, Goto, SaveCheckpoint, FirstTry, ChosenSettled, RequeueAllowed, RetryBound, Settled
<1>15. ASSUME NEW p \in Procs, NEW j \in Jobs, CreateGeneration(p, j)
      PROVE  IInv'
  <2>1. /\ stage[p][j] = "analyzed"
        /\ UNCHANGED <<columns, phase, recovery>>
    BY <1>15 DEF CreateGeneration
  <2>2. \/ /\ stage' = [stage EXCEPT ![p][j] = "raised"]
           /\ UNCHANGED gen
        \/ /\ gen' = [gen EXCEPT ![p][j] = "pending"]
           /\ stage' = [stage EXCEPT ![p][j] = "created"]
    BY <1>15 DEF CreateGeneration, Goto
  <2>3. CASE /\ stage' = [stage EXCEPT ![p][j] = "raised"]
             /\ UNCHANGED gen
    <3>1. Untouched'
      BY <1>t, <2>1, <2>3 DEF Untouched
    <3>2. FreshQueue'
      BY <1>t, <2>1, <2>3 DEF FreshQueue
    <3>3. OneTask'
      BY <1>t, <2>1, <2>3 DEF OneTask
    <3>4. LinkedAtEnd'
      BY <1>t, <2>1, <2>3 DEF LinkedAtEnd, Terminal
    <3>5. StageMatches'
      BY <1>t, <2>1, <2>3 DEF StageMatches
    <3>6. CompletedHasResult'
      BY <1>t, <2>1, <2>3 DEF CompletedHasResult, LinkedAtEnd, StageMatches
    <3>7. QED
      BY <1>t, <2>1, <2>3, <3>1, <3>2, <3>3, <3>4, <3>5, <3>6
      DEF FirstTry, ChosenSettled, RequeueAllowed, RetryBound, Settled
  <2>4. CASE /\ gen' = [gen EXCEPT ![p][j] = "pending"]
             /\ stage' = [stage EXCEPT ![p][j] = "created"]
    <3>1. Untouched'
      BY <1>t, <2>1, <2>4 DEF Untouched
    <3>2. FreshQueue'
      BY <1>t, <2>1, <2>4 DEF FreshQueue
    <3>3. OneTask'
      BY <1>t, <2>1, <2>4 DEF OneTask
    <3>4. LinkedAtEnd'
      BY <1>t, <2>1, <2>4 DEF LinkedAtEnd, Terminal
    <3>5. StageMatches'
      BY <1>t, <2>1, <2>4 DEF StageMatches
    <3>6. CompletedHasResult'
      BY <1>t, <2>1, <2>4 DEF CompletedHasResult, LinkedAtEnd, StageMatches
    <3>7. QED
      BY <1>t, <2>1, <2>4, <3>1, <3>2, <3>3, <3>4, <3>5, <3>6
      DEF FirstTry, ChosenSettled, RequeueAllowed, RetryBound, Settled
  <2>5. QED
    BY <2>2, <2>3, <2>4
<1>16. ASSUME NEW p \in Procs, NEW j \in Jobs, StartGeneration(p, j)
      PROVE  IInv'
  <2>1. Untouched'
    BY <1>t, <1>16 DEF StartGeneration, Goto, Untouched
  <2>2. FreshQueue'
    BY <1>t, <1>16 DEF StartGeneration, Goto, FreshQueue
  <2>3. OneTask'
    BY <1>t, <1>16 DEF StartGeneration, Goto, OneTask
  <2>4. LinkedAtEnd'
    BY <1>t, <1>16 DEF StartGeneration, Goto, LinkedAtEnd, Terminal
  <2>5. StageMatches'
    BY <1>t, <1>16 DEF StartGeneration, Goto, StageMatches
  <2>6. CompletedHasResult'
    BY <1>t, <1>16 DEF StartGeneration, Goto, CompletedHasResult, LinkedAtEnd, StageMatches
  <2>7. QED
    BY <1>t, <1>16, <2>1, <2>2, <2>3, <2>4, <2>5, <2>6
    DEF StartGeneration, Goto, FirstTry, ChosenSettled, RequeueAllowed, RetryBound, Settled
<1>17. ASSUME NEW p \in Procs, NEW j \in Jobs, FinishGeneration(p, j)
      PROVE  IInv'
  <2>1. Untouched'
    BY <1>t, <1>17 DEF FinishGeneration, Goto, Untouched
  <2>2. FreshQueue'
    BY <1>t, <1>17 DEF FinishGeneration, Goto, FreshQueue
  <2>3. OneTask'
    BY <1>t, <1>17 DEF FinishGeneration, Goto, OneTask
  <2>4. LinkedAtEnd'
    BY <1>t, <1>17 DEF FinishGeneration, Goto, LinkedAtEnd, Terminal
  <2>5. StageMatches'
    BY <1>t, <1>17 DEF FinishGeneration, Goto, StageMatches
  <2>6. CompletedHasResult'
    BY <1>t, <1>17 DEF FinishGeneration, Goto, CompletedHasResult, LinkedAtEnd, StageMatches
  <2>7. QED
    BY <1>t, <1>17, <2>1, <2>2, <2>3, <2>4, <2>5, <2>6
    DEF FinishGeneration, Goto, FirstTry, ChosenSettled, RequeueAllowed, RetryBound, Settled
<1>18. ASSUME NEW p \in Procs, NEW j \in Jobs, SaveLlmResponded(p, j)
      PROVE  IInv'
  <2>sole. \A q \in Procs : q # p => stage[q][j] = "idle"
    BY <1>18 DEF SaveLlmResponded, OneTask
  <2>1. Untouched'
    BY <1>t, <1>18 DEF SaveLlmResponded, Goto, SaveCheckpoint, Untouched
  <2>2. FreshQueue'
    BY <1>t, <1>18 DEF SaveLlmResponded, Goto, SaveCheckpoint, FreshQueue
  <2>3. OneTask'
    BY <1>t, <1>18 DEF SaveLlmResponded, Goto, SaveCheckpoint, OneTask
  <2>4. LinkedAtEnd'
    BY <1>t, <1>18 DEF SaveLlmResponded, Goto, SaveCheckpoint, LinkedAtEnd, Terminal
  <2>5. StageMatches'
    BY <1>t, <2>sole, <1>18 DEF SaveLlmResponded, Goto, SaveCheckpoint, StageMatches
  <2>6. CompletedHasResult'
    BY <1>t, <1>18 DEF SaveLlmResponded, Goto, SaveCheckpoint, CompletedHasResult, LinkedAtEnd
  <2>7. QED
    BY <1>t, <1>18, <2>1, <2>2, <2>3, <2>4, <2>5, <2>6
    DEF SaveLlmResponded, Goto, SaveCheckpoint, FirstTry, ChosenSettled, RequeueAllowed, RetryBound, Settled
<1>19. ASSUME NEW p \in Procs, NEW j \in Jobs, HealAndScore(p, j)
      PROVE  IInv'
  <2>1. Untouched'
    BY <1>t, <1>19 DEF HealAndScore, Goto, Untouched
  <2>2. FreshQueue'
    BY <1>t, <1>19 DEF HealAndScore, Goto, FreshQueue
  <2>3. OneTask'
    BY <1>t, <1>19 DEF HealAndScore, Goto, OneTask
  <2>4. LinkedAtEnd'
    BY <1>t, <1>19 DEF HealAndScore, Goto, LinkedAtEnd, Terminal
  <2>5. StageMatches'
    BY <1>t, <1>19 DEF HealAndScore, Goto, StageMatches
  <2>6. QED
    BY <1>t, <1>19, <2>1, <2>2, <2>3, <2>4, <2>5
    DEF HealAndScore, Goto, FirstTry, ChosenSettled, RequeueAllowed, RetryBound, CompletedHasResult, Settled
<1>20. ASSUME NEW p \in Procs, NEW j \in Jobs, SaveSandboxTested(p, j)
      PROVE  IInv'
  <2>sole. \A q \in Procs : q # p => stage[q][j] = "idle"
    BY <1>20 DEF SaveSandboxTested, OneTask
  <2>1. Untouched'
    BY <1>t, <1>20 DEF SaveSandboxTested, Goto, SaveCheckpoint, Untouched
  <2>2. FreshQueue'
    BY <1>t, <1>20 DEF SaveSandboxTested, Goto, SaveCheckpoint, FreshQueue
  <2>3. OneTask'
    BY <1>t, <1>20 DEF SaveSandboxTested, Goto, SaveCheckpoint, OneTask
  <2>4. LinkedAtEnd'
    BY <1>t, <1>20 DEF SaveSandboxTested, Goto, SaveCheckpoint, LinkedAtEnd, Terminal
  <2>5. StageMatches'
    BY <1>t, <2>sole, <1>20 DEF SaveSandboxTested, Goto, SaveCheckpoint, StageMatches
  <2>6. CompletedHasResult'
    BY <1>t, <1>20 DEF SaveSandboxTested, Goto, SaveCheckpoint, CompletedHasResult, LinkedAtEnd
  <2>7. QED
    BY <1>t, <1>20, <2>1, <2>2, <2>3, <2>4, <2>5, <2>6
    DEF SaveSandboxTested, Goto, SaveCheckpoint, FirstTry, ChosenSettled, RequeueAllowed, RetryBound, Settled
<1>21. ASSUME NEW p \in Procs, NEW j \in Jobs, MarkCompleted(p, j)
      PROVE  IInv'
  <2>sole. \A q \in Procs : q # p => stage[q][j] = "idle"
    BY <1>21 DEF MarkCompleted, OneTask
  <2>1. /\ stage[p][j] = "tested"
        /\ status' = [status EXCEPT ![j] = "completed"]
        /\ generationId' = [generationId EXCEPT ![j] = p]
        /\ UNCHANGED <<retryCount, checkpoint, payload, gen, phase, recovery>>
    BY <1>21 DEF MarkCompleted
  <2>2. \/ /\ stage' = [stage EXCEPT ![p][j] = "over"]
        \/ /\ stage' = [stage EXCEPT ![p][j] = "raised"]
    BY <1>21 DEF MarkCompleted, Goto
  <2>3. CASE stage' = [stage EXCEPT ![p][j] = "over"]
    <3>1. Untouched'
      BY <1>t, <2>1, <2>3 DEF Untouched
    <3>2. FirstTry'
      BY <1>t, <2>1, <2>3 DEF FirstTry
    <3>3. FreshQueue'
      BY <1>t, <2>sole, <2>1, <2>3 DEF FreshQueue
    <3>4. OneTask'
      BY <1>t, <2>1, <2>3 DEF OneTask
    <3>5. ChosenSettled'
      BY <1>t, <2>1, <2>3 DEF ChosenSettled, Settled
    <3>6. LinkedAtEnd'
      BY <1>t, <2>sole, <2>1, <2>3 DEF LinkedAtEnd, Terminal
    <3>7. StageMatches'
      BY <1>t, <2>1, <2>3 DEF StageMatches
    <3>8. CompletedHasResult'
      BY <1>t, <2>1, <2>3 DEF CompletedHasResult, StageMatches
    <3>9. QED
      BY <1>t, <2>1, <2>3, <3>1, <3>2, <3>3, <3>4, <3>5, <3>6, <3>7, <3>8
      DEF RequeueAllowed, RetryBound
  <2>4. CASE stage' = [stage EXCEPT ![p][j] = "raised"]
    <3>1. Untouched'
      BY <1>t, <2>1, <2>4 DEF Untouched
    <3>2. FirstTry'
      BY <1>t, <2>1, <2>4 DEF FirstTry
    <3>3. FreshQueue'
      BY <1>t, <2>sole, <2>1, <2>4 DEF FreshQueue
    <3>4. OneTask'
      BY <1>t, <2>1, <2>4 DEF OneTask
    <3>5. ChosenSettled'
      BY <1>t, <2>1, <2>4 DEF ChosenSettled, Settled
    <3>6. LinkedAtEnd'
      BY <1>t, <2>sole, <2>1, <2>4 DEF LinkedAtEnd, Terminal
    <3>7. StageMatches'
      BY <1>t, <2>1, <2>4 DEF StageMatches
    <3>8. CompletedHasResult'
      BY <1>t, <2>1, <2>4 DEF CompletedHasResult, StageMatches
    <3>9. QED
      BY <1>t, <2>1, <2>4, <3>1, <3>2, <3>3, <3>4, <3>5, <3>6, <3>7, <3>8
      DEF RequeueAllowed, RetryBound
  <2>5. QED
    BY <2>2, <2>3, <2>4
<1>22. ASSUME NEW p \in Procs, NEW j \in Jobs, MarkFailed(p, j)
      PROVE  IInv'
  <2>sole. \A q \in Procs : q # p => stage[q][j] = "idle"
    BY <1>22 DEF MarkFailed, OneTask
  <2>1. /\ stage[p][j] = "raised"
        /\ stage' = [stage EXCEPT ![p][j] = "over"]
        /\ UNCHANGED <<retryCount, checkpoint, payload, generationId, gen, phase, recovery>>
    BY <1>22 DEF MarkFailed, Goto
  <2>2. \/ /\ status' = [status EXCEPT ![j] = "failed"]
        \/ UNCHANGED status
    BY <1>22 DEF MarkFailed, Goto
  <2>3. CASE status' = [status EXCEPT ![j] = "failed"]
    <3>1. Untouched'
      BY <1>t, <2>1, <2>3 DEF Untouched
    <3>2. FirstTry'
      BY <1>t, <2>1, <2>3 DEF FirstTry
    <3>3. FreshQueue'
      BY <1>t, <2>sole, <2>1, <2>3 DEF FreshQueue
    <3>4. OneTask'
      BY <1>t, <2>1, <2>3 DEF OneTask
    <3>5. ChosenSettled'
      BY <1>t, <2>1, <2>3 DEF ChosenSettled, Settled
    <3>6. LinkedAtEnd'
      BY <1>t, <2>1, <2>3 DEF LinkedAtEnd, Terminal
    <3>7. StageMatches'
      BY <1>t, <2>1, <2>3 DEF StageMatches
    <3>8. CompletedHasResult'
      BY <1>t, <2>1, <2>3 DEF CompletedHasResult
    <3>9. QED
      BY <1>t, <2>1, <2>3, <3>1, <3>2, <3>3, <3>4, <3>5, <3>6, <3>7, <3>8
      DEF RequeueAllowed, RetryBound
  <2>4. CASE UNCHANGED status
    <3>1. Untouched'
      BY <1>t, <2>1, <2>4 DEF Untouched
    <3>2. FirstTry'
      BY <1>t, <2>1, <2>4 DEF FirstTry
    <3>3. FreshQueue'
      BY <1>t, <2>sole, <2>1, <2>4 DEF FreshQueue
    <3>4. OneTask'
      BY <1>t, <2>1, <2>4 DEF OneTask
    <3>5. ChosenSettled'
      BY <1>t, <2>1, <2>4 DEF ChosenSettled, Settled
    <3>6. LinkedAtEnd'
      BY <1>t, <2>1, <2>4 DEF LinkedAtEnd, Terminal
    <3>7. StageMatches'
      BY <1>t, <2>1, <2>4 DEF StageMatches
    <3>8. CompletedHasResult'
      BY <1>t, <2>1, <2>4 DEF CompletedHasResult
    <3>9. QED
      BY <1>t, <2>1, <2>4, <3>1, <3>2, <3>3, <3>4, <3>5, <3>6, <3>7, <3>8
      DEF RequeueAllowed, RetryBound
  <2>5. QED
    BY <2>2, <2>3, <2>4
<1>23. ASSUME NEW p \in Procs, NEW j \in Jobs, TaskRaises(p, j)
      PROVE  IInv'
  <2>1. Untouched'
    BY <1>t, <1>23 DEF TaskRaises, Goto, Active, Untouched
  <2>2. FreshQueue'
    BY <1>t, <1>23 DEF TaskRaises, Goto, Active, FreshQueue
  <2>3. OneTask'
    BY <1>t, <1>23 DEF TaskRaises, Goto, Active, OneTask
  <2>4. LinkedAtEnd'
    BY <1>t, <1>23 DEF TaskRaises, Goto, Active, LinkedAtEnd, Terminal
  <2>5. StageMatches'
    BY <1>t, <1>23 DEF TaskRaises, Goto, Active, StageMatches
  <2>6. QED
    BY <1>t, <1>23, <2>1, <2>2, <2>3, <2>4, <2>5
    DEF TaskRaises, Goto, Active, FirstTry, ChosenSettled, RequeueAllowed, RetryBound, CompletedHasResult, Settled
<1>24. QED
  BY <1>0, <1>1, <1>2, <1>3, <1>4, <1>5, <1>6, <1>7, <1>8, <1>9, <1>10, <1>11, <1>12, <1>13, <1>14, <1>15, <1>16, <1>17, <1>18, <1>19, <1>20, <1>21, <1>22, <1>23
  DEF Next, RecoveryStep, TaskStep, AllDead

\* What the safety theorems below rest on, in every reachable state.
THEOREM Invariant == Spec => []IInv
BY InitInvariant, NextInvariant, PTL DEF Spec

-----------------------------------------------------------------------------
(* Safety.                                                                 *)

\* However many processes and threads race for a job, one at most executes it:
\* atomic_claim() together with the single task of each submission.
THEOREM OneWorker == Spec => []OneWorkerPerJob
<1>1. IInv => OneWorkerPerJob
  BY DEF IInv, OneTask, OneWorkerPerJob, Active
<1>2. QED
  BY <1>1, Invariant, PTL

\* startup_recovery() requeues a job at most MAX_STARTUP_RETRIES times, even
\* when several processes recover at the same time.
THEOREM RetriesBounded == Spec => []RetryBound
<1>1. IInv => RetryBound
  BY DEF IInv
<1>2. QED
  BY <1>1, Invariant, PTL

\* A COMPLETED job is linked to a generation row in a final state and has
\* passed every checkpoint.
THEOREM CompletedIsBacked == Spec => []CompletedHasResult
<1>1. IInv => CompletedHasResult
  BY DEF IInv
<1>2. QED
  BY <1>1, Invariant, PTL

\* schedule_recovery_jobs() never finds a job it can execute.
THEOREM RecoveryExecutesNothing == Spec => []NothingResumable
BY NothingToResume, Invariant, PTL

\* Each save_checkpoint() finds the checkpoint before its own in the row.
LEMMA StepKeepsProgress ==
    ASSUME IInv, [Next]_vars
    PROVE  \A j \in Jobs : CheckpointRank(checkpoint'[j]) >= CheckpointRank(checkpoint[j])
<1> SUFFICES ASSUME NEW k \in Jobs
             PROVE  CheckpointRank(checkpoint'[k]) >= CheckpointRank(checkpoint[k])
  OBVIOUS
<1>1. \A c \in Checkpoint : CheckpointRank(c) \in 0..3
  BY JobEngineAssumption DEF Checkpoint, CheckpointRank
<1>2. /\ CheckpointRank(None) = 0
      /\ CheckpointRank("ANALYZED") = 1
      /\ CheckpointRank("LLM_RESPONDED") = 2
      /\ CheckpointRank("SANDBOX_TESTED") = 3
  BY JobEngineAssumption DEF CheckpointRank
<1>3. checkpoint \in [Jobs -> Checkpoint]
  BY DEF IInv, TypeOK
<1>4. CASE checkpoint' = checkpoint
  BY <1>1, <1>3, <1>4
<1>5. ASSUME NEW p \in Procs, NEW j \in Jobs, SaveAnalyzed(p, j)
      PROVE  CheckpointRank(checkpoint'[k]) >= CheckpointRank(checkpoint[k])
  <2>1. checkpoint[j] = None /\ checkpoint' = [checkpoint EXCEPT ![j] = "ANALYZED"]
    BY <1>5 DEF SaveAnalyzed, SaveCheckpoint, IInv, StageMatches
  <2>2. QED
    BY <1>1, <1>2, <1>3, <2>1
<1>6. ASSUME NEW p \in Procs, NEW j \in Jobs, SaveLlmResponded(p, j)
      PROVE  CheckpointRank(checkpoint'[k]) >= CheckpointRank(checkpoint[k])
  <2>1. checkpoint[j] = "ANALYZED" /\ checkpoint' = [checkpoint EXCEPT ![j] = "LLM_RESPONDED"]
    BY <1>6 DEF SaveLlmResponded, SaveCheckpoint, IInv, StageMatches
  <2>2. QED
    BY <1>1, <1>2, <1>3, <2>1
<1>7. ASSUME NEW p \in Procs, NEW j \in Jobs, SaveSandboxTested(p, j)
      PROVE  CheckpointRank(checkpoint'[k]) >= CheckpointRank(checkpoint[k])
  <2>1. checkpoint[j] = "LLM_RESPONDED" /\ checkpoint' = [checkpoint EXCEPT ![j] = "SANDBOX_TESTED"]
    BY <1>7 DEF SaveSandboxTested, SaveCheckpoint, IInv, StageMatches
  <2>2. QED
    BY <1>1, <1>2, <1>3, <2>1
<1>8. \/ checkpoint' = checkpoint
      \/ \E p \in Procs, j \in Jobs :
             SaveAnalyzed(p, j) \/ SaveLlmResponded(p, j) \/ SaveSandboxTested(p, j)
  BY DEF Next, RecoveryStep, TaskStep, AllDead, vars, columns, Start, Crash, MarkOrphanedJobs,
         ListOrphans, VisitOrphan, ClaimForRetry, FailExhausted, FinishRecovery,
         RecoveryRaises, ScheduleRecoveryJobs, Serve, Submit, AtomicClaim, CreateGeneration,
         StartGeneration, FinishGeneration, HealAndScore, MarkCompleted, TaskRaises, MarkFailed
<1>9. QED
  BY <1>4, <1>5, <1>6, <1>7, <1>8

\* last_checkpoint only moves forward, whatever recovery does meanwhile.
THEOREM ProgressIsKept == Spec => CheckpointNeverRegresses
<1>1. IInv /\ [Next]_vars =>
        [\A j \in Jobs : CheckpointRank(checkpoint'[j]) >= CheckpointRank(checkpoint[j])]_vars
  BY StepKeepsProgress
<1>2. QED
  BY <1>1, Invariant, PTL DEF Spec, CheckpointNeverRegresses

-----------------------------------------------------------------------------
(* One process at a time, a database that answers.                         *)

\* One life at a time.
OneLife == \A p, q \in Procs : Alive(p) /\ Alive(q) => p = q

\* Only a process that serves requests has tasks: recovery resumes none.
TasksServe == \A p \in Procs, j \in Jobs : stage[p][j] # "idle" => phase[p] = "up"

\* A task that has claimed its job keeps it PROCESSING, and once a process has
\* marked what its predecessor left, every PROCESSING job has such a task.
TaskHolds ==
    \A p \in Procs, j \in Jobs :
        /\ stage[p][j] \in Active => status[j] = "processing"
        /\ phase[p] \notin {"down", "boot", "dead"} /\ status[j] = "processing" =>
               stage[p][j] \in Active

\* The ORPHANED rows are those the recovery has still to visit.
OrphansListed ==
    \A p \in Procs, j \in Jobs :
        /\ j \in todo[p] => phase[p] \in {"visiting", "requeue", "exhaust"} /\ status[j] = "orphaned"
        /\ cursor[p] = j => phase[p] \in {"requeue", "exhaust"} /\ status[j] = "orphaned" /\ j \notin todo[p]
        /\ phase[p] \in {"visiting", "requeue", "exhaust"} /\ status[j] = "orphaned" =>
               j \in todo[p] \/ cursor[p] = j
        /\ phase[p] \in {"schedule", "await", "up"} => status[j] # "orphaned"

\* Every orphan is one for the first time, so only a bound of 0 is exhausted.
NoCountLoaded ==
    \A p \in Procs : /\ \A j \in Jobs : loaded[p][j] = 0
                     /\ phase[p] = "exhaust" => MAX_STARTUP_RETRIES = 0

Solo == IInv /\ OneLife /\ TasksServe /\ TaskHolds /\ OrphansListed /\ NoCountLoaded

\* It holds where every deployment begins.
LEMMA InitSolo == Init => Solo
BY InitInvariant, JobEngineAssumption
DEF Init, Solo, OneLife, Alive, Booting, Recovering, TasksServe, TaskHolds, OrphansListed, NoCountLoaded, Active, Stage

\* Every step of such a deployment preserves it.
LEMMA NextSolo ==
    ASSUME ~Overlap, ~DBErrors, Solo, [Next]_vars
    PROVE  Solo'
<1>i. IInv /\ IInv' /\ Resumable = {}
  BY NextInvariant, NothingToResume DEF Solo, NothingResumable
<1>t. TypeOK /\ TypeOK'
  BY <1>i DEF IInv
<1> USE JobEngineAssumption DEF Solo, TypeOK, columns, recovery
<1>0. CASE UNCHANGED vars
  BY <1>i, <1>0 DEF vars, OneLife, Alive, TasksServe, TaskHolds, OrphansListed, NoCountLoaded
<1>1. ASSUME NEW p \in Procs, Start(p) PROVE Solo'
  <2>1. OneLife'
    BY <1>t, <1>i, <1>1 DEF Start, OneLife, Alive, Booting, Recovering
  <2>2. TasksServe'
    BY <1>t, <1>i, <1>1 DEF Start, TasksServe, OneLife, Alive, Booting, Recovering, TaskHolds, Active, Stage
  <2>3. TaskHolds'
    BY <1>t, <1>i, <1>1 DEF Start, TaskHolds, Active, Stage, OneLife, Alive, Booting, Recovering, TasksServe
  <2>4. OrphansListed'
    BY <1>t, <1>i, <1>1 DEF Start, OrphansListed, OneLife, Alive, Booting, Recovering, TasksServe, Active, Stage
  <2>5. NoCountLoaded'
    BY <1>t, <1>i, <1>1 DEF Start, NoCountLoaded, OrphansListed, IInv, FirstTry, RequeueAllowed
  <2> QED BY <1>i, <2>1, <2>2, <2>3, <2>4, <2>5
<1>2. ASSUME NEW p \in Procs, Crash(p) PROVE Solo'
  <2>1. OneLife'
    BY <1>t, <1>i, <1>2 DEF Crash, Forget, OneLife, Alive, Booting, Recovering
  <2>2. TasksServe'
    BY <1>t, <1>i, <1>2 DEF Crash, Forget, TasksServe, OneLife, Alive, Booting, Recovering, TaskHolds, Active, Stage
  <2>3. TaskHolds'
    BY <1>t, <1>i, <1>2 DEF Crash, Forget, TaskHolds, Active, Stage, OneLife, Alive, Booting, Recovering, TasksServe
  <2>4. OrphansListed'
    BY <1>t, <1>i, <1>2 DEF Crash, Forget, OrphansListed, OneLife, Alive, Booting, Recovering, TasksServe, Active, Stage
  <2>5. NoCountLoaded'
    BY <1>t, <1>i, <1>2 DEF Crash, Forget, NoCountLoaded, OrphansListed, IInv, FirstTry, RequeueAllowed
  <2> QED BY <1>i, <2>1, <2>2, <2>3, <2>4, <2>5
<1>3. ASSUME NEW p \in Procs, MarkOrphanedJobs(p) PROVE Solo'
  <2>1. OneLife'
    BY <1>t, <1>i, <1>3 DEF MarkOrphanedJobs, AtStartup, OneLife, Alive, Booting, Recovering
  <2>2. TasksServe'
    BY <1>t, <1>i, <1>3 DEF MarkOrphanedJobs, AtStartup, TasksServe, OneLife, Alive, Booting, Recovering, TaskHolds, Active, Stage
  <2>3. TaskHolds'
    BY <1>t, <1>i, <1>3 DEF MarkOrphanedJobs, AtStartup, TaskHolds, Active, Stage, OneLife, Alive, Booting, Recovering, TasksServe
  <2>4. OrphansListed'
    BY <1>t, <1>i, <1>3 DEF MarkOrphanedJobs, AtStartup, OrphansListed, OneLife, Alive, Booting, Recovering, TasksServe, Active, Stage
  <2>5. NoCountLoaded'
    BY <1>t, <1>i, <1>3 DEF MarkOrphanedJobs, AtStartup, NoCountLoaded, OrphansListed, IInv, FirstTry, RequeueAllowed
  <2> QED BY <1>i, <2>1, <2>2, <2>3, <2>4, <2>5
<1>4. ASSUME NEW p \in Procs, ListOrphans(p) PROVE Solo'
  <2>1. OneLife'
    BY <1>t, <1>i, <1>4 DEF ListOrphans, OneLife, Alive, Booting, Recovering
  <2>2. TasksServe'
    BY <1>t, <1>i, <1>4 DEF ListOrphans, TasksServe, OneLife, Alive, Booting, Recovering, TaskHolds, Active, Stage
  <2>3. TaskHolds'
    BY <1>t, <1>i, <1>4 DEF ListOrphans, TaskHolds, Active, Stage, OneLife, Alive, Booting, Recovering, TasksServe
  <2>4. OrphansListed'
    BY <1>t, <1>i, <1>4 DEF ListOrphans, OrphansListed, OneLife, Alive, Booting, Recovering, TasksServe, Active, Stage
  <2>5. NoCountLoaded'
    BY <1>t, <1>i, <1>4 DEF ListOrphans, NoCountLoaded, OrphansListed, IInv, FirstTry, RequeueAllowed
  <2> QED BY <1>i, <2>1, <2>2, <2>3, <2>4, <2>5
<1>5. ASSUME NEW p \in Procs, NEW j \in Jobs, VisitOrphan(p, j) PROVE Solo'
  <2>1. OneLife'
    BY <1>t, <1>i, <1>5 DEF VisitOrphan, SeenRetryCount, OneLife, Alive, Booting, Recovering
  <2>2. TasksServe'
    BY <1>t, <1>i, <1>5 DEF VisitOrphan, SeenRetryCount, TasksServe, OneLife, Alive, Booting, Recovering, TaskHolds, Active, Stage
  <2>3. TaskHolds'
    BY <1>t, <1>i, <1>5 DEF VisitOrphan, SeenRetryCount, TaskHolds, Active, Stage, OneLife, Alive, Booting, Recovering, TasksServe
  <2>4. OrphansListed'
    BY <1>t, <1>i, <1>5 DEF VisitOrphan, SeenRetryCount, OrphansListed, OneLife, Alive, Booting, Recovering, TasksServe, Active, Stage
  <2>5. NoCountLoaded'
    BY <1>t, <1>i, <1>5 DEF VisitOrphan, SeenRetryCount, NoCountLoaded, OrphansListed, IInv, FirstTry, RequeueAllowed
  <2> QED BY <1>i, <2>1, <2>2, <2>3, <2>4, <2>5
<1>6. ASSUME NEW p \in Procs, NEW j \in Jobs, ClaimForRetry(p, j) PROVE Solo'
  <2>0. /\ phase[p] = "requeue" /\ cursor[p] = j /\ status[j] = "orphaned"
        /\ status' = [status EXCEPT ![j] = "pending"]
        /\ cursor' = [cursor EXCEPT ![p] = None] /\ phase' = [phase EXCEPT ![p] = "visiting"]
        /\ UNCHANGED <<stage, todo, loaded>>
    BY <1>t, <1>i, <1>6 DEF ClaimForRetry, ClaimableForRetry, OrphansListed
  <2>others. \A q \in Procs : q # p => phase[q] \in {"down", "dead"}
    BY <1>t, <2>0 DEF OneLife, Alive, Booting, Recovering, Phase
  <2>1. OneLife'
    BY <1>t, <1>i, <2>0, <2>others DEF OneLife, Alive, Booting, Recovering
  <2>2. TasksServe'
    BY <1>t, <1>i, <2>0, <2>others DEF TasksServe, OneLife, Alive, Booting, Recovering, TaskHolds, Active, Stage
  <2>3. TaskHolds'
    BY <1>t, <1>i, <2>0, <2>others DEF TaskHolds, Active, Stage, OneLife, Alive, Booting, Recovering, TasksServe
  <2>4. OrphansListed'
    <3>1. SUFFICES ASSUME NEW q \in Procs, NEW k \in Jobs
                   PROVE  /\ k \in todo'[q] => phase'[q] \in {"visiting", "requeue", "exhaust"} /\ status'[k] = "orphaned"
                          /\ cursor'[q] = k => phase'[q] \in {"requeue", "exhaust"} /\ status'[k] = "orphaned" /\ k \notin todo'[q]
                          /\ phase'[q] \in {"visiting", "requeue", "exhaust"} /\ status'[k] = "orphaned" =>
                                 k \in todo'[q] \/ cursor'[q] = k
                          /\ phase'[q] \in {"schedule", "await", "up"} => status'[k] # "orphaned"
      BY DEF OrphansListed
    <3>2. CASE q = p
      <4>1. j \notin todo[p]
        BY <2>0 DEF OrphansListed
      <4>2. phase'[q] = "visiting" /\ todo'[q] = todo[p] /\ cursor'[q] = None /\ None # k
        BY <1>t, <2>0, <3>2
      <4>3. status'[k] = IF k = j THEN "pending" ELSE status[k]
        BY <1>t, <2>0
      <4> QED BY <2>0, <3>2, <4>1, <4>2, <4>3 DEF OrphansListed
    <3>3. CASE q # p
      <4>1. phase'[q] = phase[q] /\ phase[q] \in {"down", "dead"} /\ todo'[q] = todo[q] /\ cursor'[q] = cursor[q]
        BY <1>t, <2>0, <2>others, <3>3
      <4> QED BY <4>1 DEF OrphansListed
    <3> QED BY <3>2, <3>3
  <2>5. NoCountLoaded'
    BY <1>t, <1>i, <2>0, <2>others DEF NoCountLoaded, OrphansListed, IInv, FirstTry, RequeueAllowed
  <2> QED BY <1>i, <2>1, <2>2, <2>3, <2>4, <2>5
<1>7. ASSUME NEW p \in Procs, NEW j \in Jobs, FailExhausted(p, j) PROVE Solo'
  <2>0. /\ phase[p] = "exhaust" /\ cursor[p] = j /\ status[j] = "orphaned"
        /\ status' = [status EXCEPT ![j] = "failed"]
        /\ cursor' = [cursor EXCEPT ![p] = None] /\ phase' = [phase EXCEPT ![p] = "visiting"]
        /\ UNCHANGED <<stage, todo, loaded>>
    BY <1>t, <1>i, <1>7 DEF FailExhausted, OrphansListed
  <2>others. \A q \in Procs : q # p => phase[q] \in {"down", "dead"}
    BY <1>t, <2>0 DEF OneLife, Alive, Booting, Recovering, Phase
  <2>1. OneLife'
    BY <1>t, <1>i, <2>0, <2>others DEF OneLife, Alive, Booting, Recovering
  <2>2. TasksServe'
    BY <1>t, <1>i, <2>0, <2>others DEF TasksServe, OneLife, Alive, Booting, Recovering, TaskHolds, Active, Stage
  <2>3. TaskHolds'
    BY <1>t, <1>i, <2>0, <2>others DEF TaskHolds, Active, Stage, OneLife, Alive, Booting, Recovering, TasksServe
  <2>4. OrphansListed'
    <3>1. SUFFICES ASSUME NEW q \in Procs, NEW k \in Jobs
                   PROVE  /\ k \in todo'[q] => phase'[q] \in {"visiting", "requeue", "exhaust"} /\ status'[k] = "orphaned"
                          /\ cursor'[q] = k => phase'[q] \in {"requeue", "exhaust"} /\ status'[k] = "orphaned" /\ k \notin todo'[q]
                          /\ phase'[q] \in {"visiting", "requeue", "exhaust"} /\ status'[k] = "orphaned" =>
                                 k \in todo'[q] \/ cursor'[q] = k
                          /\ phase'[q] \in {"schedule", "await", "up"} => status'[k] # "orphaned"
      BY DEF OrphansListed
    <3>2. CASE q = p
      <4>1. j \notin todo[p]
        BY <2>0 DEF OrphansListed
      <4>2. phase'[q] = "visiting" /\ todo'[q] = todo[p] /\ cursor'[q] = None /\ None # k
        BY <1>t, <2>0, <3>2
      <4>3. status'[k] = IF k = j THEN "failed" ELSE status[k]
        BY <1>t, <2>0
      <4> QED BY <2>0, <3>2, <4>1, <4>2, <4>3 DEF OrphansListed
    <3>3. CASE q # p
      <4>1. phase'[q] = phase[q] /\ phase[q] \in {"down", "dead"} /\ todo'[q] = todo[q] /\ cursor'[q] = cursor[q]
        BY <1>t, <2>0, <2>others, <3>3
      <4> QED BY <4>1 DEF OrphansListed
    <3> QED BY <3>2, <3>3
  <2>5. NoCountLoaded'
    BY <1>t, <1>i, <2>0, <2>others DEF NoCountLoaded, OrphansListed, IInv, FirstTry, RequeueAllowed
  <2> QED BY <1>i, <2>1, <2>2, <2>3, <2>4, <2>5
<1>8. ASSUME NEW p \in Procs, FinishRecovery(p) PROVE Solo'
  <2>1. OneLife'
    BY <1>t, <1>i, <1>8 DEF FinishRecovery, Forget, OneLife, Alive, Booting, Recovering
  <2>2. TasksServe'
    BY <1>t, <1>i, <1>8 DEF FinishRecovery, Forget, TasksServe, OneLife, Alive, Booting, Recovering, TaskHolds, Active, Stage
  <2>3. TaskHolds'
    BY <1>t, <1>i, <1>8 DEF FinishRecovery, Forget, TaskHolds, Active, Stage, OneLife, Alive, Booting, Recovering, TasksServe
  <2>4. OrphansListed'
    BY <1>t, <1>i, <1>8 DEF FinishRecovery, Forget, OrphansListed, OneLife, Alive, Booting, Recovering, TasksServe, Active, Stage
  <2>5. NoCountLoaded'
    BY <1>t, <1>i, <1>8 DEF FinishRecovery, Forget, NoCountLoaded, OrphansListed, IInv, FirstTry, RequeueAllowed
  <2> QED BY <1>i, <2>1, <2>2, <2>3, <2>4, <2>5
<1>9. ASSUME NEW p \in Procs, ScheduleRecoveryJobs(p) PROVE Solo'
  <2>1. OneLife'
    BY <1>t, <1>i, <1>9 DEF ScheduleRecoveryJobs, OneLife, Alive, Booting, Recovering
  <2>2. TasksServe'
    BY <1>t, <1>i, <1>9 DEF ScheduleRecoveryJobs, TasksServe, OneLife, Alive, Booting, Recovering, TaskHolds, Active, Stage
  <2>3. TaskHolds'
    BY <1>t, <1>i, <1>9 DEF ScheduleRecoveryJobs, TaskHolds, Active, Stage, OneLife, Alive, Booting, Recovering, TasksServe
  <2>4. OrphansListed'
    BY <1>t, <1>i, <1>9 DEF ScheduleRecoveryJobs, OrphansListed, OneLife, Alive, Booting, Recovering, TasksServe, Active, Stage
  <2>5. NoCountLoaded'
    BY <1>t, <1>i, <1>9 DEF ScheduleRecoveryJobs, NoCountLoaded, OrphansListed, IInv, FirstTry, RequeueAllowed
  <2> QED BY <1>i, <2>1, <2>2, <2>3, <2>4, <2>5
<1>10. ASSUME NEW p \in Procs, Serve(p) PROVE Solo'
  <2>1. OneLife'
    BY <1>t, <1>i, <1>10 DEF Serve, OneLife, Alive, Booting, Recovering
  <2>2. TasksServe'
    BY <1>t, <1>i, <1>10 DEF Serve, TasksServe, OneLife, Alive, Booting, Recovering, TaskHolds, Active, Stage
  <2>3. TaskHolds'
    BY <1>t, <1>i, <1>10 DEF Serve, TaskHolds, Active, Stage, OneLife, Alive, Booting, Recovering, TasksServe
  <2>4. OrphansListed'
    BY <1>t, <1>i, <1>10 DEF Serve, OrphansListed, OneLife, Alive, Booting, Recovering, TasksServe, Active, Stage
  <2>5. NoCountLoaded'
    BY <1>t, <1>i, <1>10 DEF Serve, NoCountLoaded, OrphansListed, IInv, FirstTry, RequeueAllowed
  <2> QED BY <1>i, <2>1, <2>2, <2>3, <2>4, <2>5
<1>11. ASSUME NEW p \in Procs, NEW j \in Jobs, Submit(p, j) PROVE Solo'
  <2>1. OneLife'
    BY <1>t, <1>i, <1>11 DEF Submit, Goto, OneLife, Alive, Booting, Recovering
  <2>2. TasksServe'
    BY <1>t, <1>i, <1>11 DEF Submit, Goto, TasksServe, OneLife, Alive, Booting, Recovering, TaskHolds, Active, Stage
  <2>3. TaskHolds'
    BY <1>t, <1>i, <1>11 DEF Submit, Goto, TaskHolds, Active, Stage, OneLife, Alive, Booting, Recovering, TasksServe
  <2>4. OrphansListed'
    BY <1>t, <1>i, <1>11 DEF Submit, Goto, OrphansListed, OneLife, Alive, Booting, Recovering, TasksServe, Active, Stage
  <2>5. NoCountLoaded'
    BY <1>t, <1>i, <1>11 DEF Submit, Goto, NoCountLoaded, OrphansListed, IInv, FirstTry, RequeueAllowed
  <2> QED BY <1>i, <2>1, <2>2, <2>3, <2>4, <2>5
<1>12. ASSUME NEW p \in Procs, NEW j \in Jobs, AtomicClaim(p, j) PROVE Solo'
  <2>0. /\ phase[p] = "up" /\ stage[p][j] = "queued" /\ status[j] = "pending"
        /\ status' = [status EXCEPT ![j] = "processing"]
        /\ stage' = [stage EXCEPT ![p][j] = "claimed"]
        /\ UNCHANGED <<phase, todo, cursor, loaded>>
    BY <1>t, <1>i, <1>12 DEF AtomicClaim, Claimable, Goto, IInv, FreshQueue, TasksServe
  <2>others. \A q \in Procs : q # p => phase[q] \in {"down", "dead"}
    BY <1>t, <2>0 DEF OneLife, Alive, Booting, Recovering, Phase
  <2>1. OneLife'
    BY <1>t, <1>i, <2>0, <2>others DEF OneLife, Alive, Booting, Recovering
  <2>2. TasksServe'
    BY <1>t, <1>i, <2>0, <2>others DEF TasksServe, OneLife, Alive, Booting, Recovering, TaskHolds, Active, Stage
  <2>3. TaskHolds'
    BY <1>t, <1>i, <2>0, <2>others DEF TaskHolds, Active, Stage, OneLife, Alive, Booting, Recovering, TasksServe
  <2>4. OrphansListed'
    BY <1>t, <1>i, <2>0, <2>others DEF OrphansListed, OneLife, Alive, Booting, Recovering, TasksServe, Active, Stage
  <2>5. NoCountLoaded'
    BY <1>t, <1>i, <2>0, <2>others DEF NoCountLoaded, OrphansListed, IInv, FirstTry, RequeueAllowed
  <2> QED BY <1>i, <2>1, <2>2, <2>3, <2>4, <2>5
<1>13. ASSUME NEW p \in Procs, NEW j \in Jobs, SaveAnalyzed(p, j) PROVE Solo'
  <2>1. OneLife'
    BY <1>t, <1>i, <1>13 DEF SaveAnalyzed, Goto, SaveCheckpoint, OneLife, Alive, Booting, Recovering
  <2>2. TasksServe'
    BY <1>t, <1>i, <1>13 DEF SaveAnalyzed, Goto, SaveCheckpoint, TasksServe, OneLife, Alive, Booting, Recovering, TaskHolds, Active, Stage
  <2>3. TaskHolds'
    BY <1>t, <1>i, <1>13 DEF SaveAnalyzed, Goto, SaveCheckpoint, TaskHolds, Active, Stage, OneLife, Alive, Booting, Recovering, TasksServe
  <2>4. OrphansListed'
    BY <1>t, <1>i, <1>13 DEF SaveAnalyzed, Goto, SaveCheckpoint, OrphansListed, OneLife, Alive, Booting, Recovering, TasksServe, Active, Stage
  <2>5. NoCountLoaded'
    BY <1>t, <1>i, <1>13 DEF SaveAnalyzed, Goto, SaveCheckpoint, NoCountLoaded, OrphansListed, IInv, FirstTry, RequeueAllowed
  <2> QED BY <1>i, <2>1, <2>2, <2>3, <2>4, <2>5
<1>14. ASSUME NEW p \in Procs, NEW j \in Jobs, CreateGeneration(p, j) PROVE Solo'
  <2>0. /\ phase[p] = "up" /\ stage[p][j] = "analyzed"
        /\ \E s \in {"raised", "created"} : stage' = [stage EXCEPT ![p][j] = s]
        /\ UNCHANGED <<status, phase, todo, cursor, loaded>>
    BY <1>t, <1>i, <1>14 DEF CreateGeneration, Goto, TasksServe
  <2>others. \A q \in Procs : q # p => phase[q] \in {"down", "dead"}
    BY <1>t, <2>0 DEF OneLife, Alive, Booting, Recovering, Phase
  <2>1. OneLife'
    BY <1>t, <1>i, <2>0, <2>others DEF OneLife, Alive, Booting, Recovering
  <2>2. TasksServe'
    BY <1>t, <1>i, <2>0, <2>others DEF TasksServe, OneLife, Alive, Booting, Recovering, TaskHolds, Active, Stage
  <2>3. TaskHolds'
    BY <1>t, <1>i, <2>0, <2>others DEF TaskHolds, Active, Stage, OneLife, Alive, Booting, Recovering, TasksServe
  <2>4. OrphansListed'
    BY <1>t, <1>i, <2>0, <2>others DEF OrphansListed, OneLife, Alive, Booting, Recovering, TasksServe, Active, Stage
  <2>5. NoCountLoaded'
    BY <1>t, <1>i, <2>0, <2>others DEF NoCountLoaded, OrphansListed, IInv, FirstTry, RequeueAllowed
  <2> QED BY <1>i, <2>1, <2>2, <2>3, <2>4, <2>5
<1>15. ASSUME NEW p \in Procs, NEW j \in Jobs, StartGeneration(p, j) PROVE Solo'
  <2>1. OneLife'
    BY <1>t, <1>i, <1>15 DEF StartGeneration, Goto, OneLife, Alive, Booting, Recovering
  <2>2. TasksServe'
    BY <1>t, <1>i, <1>15 DEF StartGeneration, Goto, TasksServe, OneLife, Alive, Booting, Recovering, TaskHolds, Active, Stage
  <2>3. TaskHolds'
    BY <1>t, <1>i, <1>15 DEF StartGeneration, Goto, TaskHolds, Active, Stage, OneLife, Alive, Booting, Recovering, TasksServe
  <2>4. OrphansListed'
    BY <1>t, <1>i, <1>15 DEF StartGeneration, Goto, OrphansListed, OneLife, Alive, Booting, Recovering, TasksServe, Active, Stage
  <2>5. NoCountLoaded'
    BY <1>t, <1>i, <1>15 DEF StartGeneration, Goto, NoCountLoaded, OrphansListed, IInv, FirstTry, RequeueAllowed
  <2> QED BY <1>i, <2>1, <2>2, <2>3, <2>4, <2>5
<1>16. ASSUME NEW p \in Procs, NEW j \in Jobs, FinishGeneration(p, j) PROVE Solo'
  <2>1. OneLife'
    BY <1>t, <1>i, <1>16 DEF FinishGeneration, Goto, OneLife, Alive, Booting, Recovering
  <2>2. TasksServe'
    BY <1>t, <1>i, <1>16 DEF FinishGeneration, Goto, TasksServe, OneLife, Alive, Booting, Recovering, TaskHolds, Active, Stage
  <2>3. TaskHolds'
    BY <1>t, <1>i, <1>16 DEF FinishGeneration, Goto, TaskHolds, Active, Stage, OneLife, Alive, Booting, Recovering, TasksServe
  <2>4. OrphansListed'
    BY <1>t, <1>i, <1>16 DEF FinishGeneration, Goto, OrphansListed, OneLife, Alive, Booting, Recovering, TasksServe, Active, Stage
  <2>5. NoCountLoaded'
    BY <1>t, <1>i, <1>16 DEF FinishGeneration, Goto, NoCountLoaded, OrphansListed, IInv, FirstTry, RequeueAllowed
  <2> QED BY <1>i, <2>1, <2>2, <2>3, <2>4, <2>5
<1>17. ASSUME NEW p \in Procs, NEW j \in Jobs, SaveLlmResponded(p, j) PROVE Solo'
  <2>1. OneLife'
    BY <1>t, <1>i, <1>17 DEF SaveLlmResponded, Goto, SaveCheckpoint, OneLife, Alive, Booting, Recovering
  <2>2. TasksServe'
    BY <1>t, <1>i, <1>17 DEF SaveLlmResponded, Goto, SaveCheckpoint, TasksServe, OneLife, Alive, Booting, Recovering, TaskHolds, Active, Stage
  <2>3. TaskHolds'
    BY <1>t, <1>i, <1>17 DEF SaveLlmResponded, Goto, SaveCheckpoint, TaskHolds, Active, Stage, OneLife, Alive, Booting, Recovering, TasksServe
  <2>4. OrphansListed'
    BY <1>t, <1>i, <1>17 DEF SaveLlmResponded, Goto, SaveCheckpoint, OrphansListed, OneLife, Alive, Booting, Recovering, TasksServe, Active, Stage
  <2>5. NoCountLoaded'
    BY <1>t, <1>i, <1>17 DEF SaveLlmResponded, Goto, SaveCheckpoint, NoCountLoaded, OrphansListed, IInv, FirstTry, RequeueAllowed
  <2> QED BY <1>i, <2>1, <2>2, <2>3, <2>4, <2>5
<1>18. ASSUME NEW p \in Procs, NEW j \in Jobs, HealAndScore(p, j) PROVE Solo'
  <2>1. OneLife'
    BY <1>t, <1>i, <1>18 DEF HealAndScore, Goto, OneLife, Alive, Booting, Recovering
  <2>2. TasksServe'
    BY <1>t, <1>i, <1>18 DEF HealAndScore, Goto, TasksServe, OneLife, Alive, Booting, Recovering, TaskHolds, Active, Stage
  <2>3. TaskHolds'
    BY <1>t, <1>i, <1>18 DEF HealAndScore, Goto, TaskHolds, Active, Stage, OneLife, Alive, Booting, Recovering, TasksServe
  <2>4. OrphansListed'
    BY <1>t, <1>i, <1>18 DEF HealAndScore, Goto, OrphansListed, OneLife, Alive, Booting, Recovering, TasksServe, Active, Stage
  <2>5. NoCountLoaded'
    BY <1>t, <1>i, <1>18 DEF HealAndScore, Goto, NoCountLoaded, OrphansListed, IInv, FirstTry, RequeueAllowed
  <2> QED BY <1>i, <2>1, <2>2, <2>3, <2>4, <2>5
<1>19. ASSUME NEW p \in Procs, NEW j \in Jobs, SaveSandboxTested(p, j) PROVE Solo'
  <2>1. OneLife'
    BY <1>t, <1>i, <1>19 DEF SaveSandboxTested, Goto, SaveCheckpoint, OneLife, Alive, Booting, Recovering
  <2>2. TasksServe'
    BY <1>t, <1>i, <1>19 DEF SaveSandboxTested, Goto, SaveCheckpoint, TasksServe, OneLife, Alive, Booting, Recovering, TaskHolds, Active, Stage
  <2>3. TaskHolds'
    BY <1>t, <1>i, <1>19 DEF SaveSandboxTested, Goto, SaveCheckpoint, TaskHolds, Active, Stage, OneLife, Alive, Booting, Recovering, TasksServe
  <2>4. OrphansListed'
    BY <1>t, <1>i, <1>19 DEF SaveSandboxTested, Goto, SaveCheckpoint, OrphansListed, OneLife, Alive, Booting, Recovering, TasksServe, Active, Stage
  <2>5. NoCountLoaded'
    BY <1>t, <1>i, <1>19 DEF SaveSandboxTested, Goto, SaveCheckpoint, NoCountLoaded, OrphansListed, IInv, FirstTry, RequeueAllowed
  <2> QED BY <1>i, <2>1, <2>2, <2>3, <2>4, <2>5
<1>20. ASSUME NEW p \in Procs, NEW j \in Jobs, MarkCompleted(p, j) PROVE Solo'
  <2>0. /\ phase[p] = "up" /\ stage[p][j] = "tested"
        /\ status' = [status EXCEPT ![j] = "completed"]
        /\ stage' = [stage EXCEPT ![p][j] = "over"]
        /\ UNCHANGED <<phase, todo, cursor, loaded>>
    BY <1>t, <1>i, <1>20 DEF MarkCompleted, Goto, TasksServe
  <2>others. \A q \in Procs : q # p => phase[q] \in {"down", "dead"}
    BY <1>t, <2>0 DEF OneLife, Alive, Booting, Recovering, Phase
  <2>1. OneLife'
    BY <1>t, <1>i, <2>0, <2>others DEF OneLife, Alive, Booting, Recovering
  <2>2. TasksServe'
    BY <1>t, <1>i, <2>0, <2>others DEF TasksServe, OneLife, Alive, Booting, Recovering, TaskHolds, Active, Stage
  <2>3. TaskHolds'
    BY <1>t, <1>i, <2>0, <2>others DEF TaskHolds, Active, Stage, OneLife, Alive, Booting, Recovering, TasksServe
  <2>4. OrphansListed'
    BY <1>t, <1>i, <2>0, <2>others DEF OrphansListed, OneLife, Alive, Booting, Recovering, TasksServe, Active, Stage
  <2>5. NoCountLoaded'
    BY <1>t, <1>i, <2>0, <2>others DEF NoCountLoaded, OrphansListed, IInv, FirstTry, RequeueAllowed
  <2> QED BY <1>i, <2>1, <2>2, <2>3, <2>4, <2>5
<1>21. ASSUME NEW p \in Procs, NEW j \in Jobs, MarkFailed(p, j) PROVE Solo'
  <2>0. /\ phase[p] = "up" /\ stage[p][j] = "raised"
        /\ status' = [status EXCEPT ![j] = "failed"]
        /\ stage' = [stage EXCEPT ![p][j] = "over"]
        /\ UNCHANGED <<phase, todo, cursor, loaded>>
    BY <1>t, <1>i, <1>21 DEF MarkFailed, Goto, TasksServe
  <2>others. \A q \in Procs : q # p => phase[q] \in {"down", "dead"}
    BY <1>t, <2>0 DEF OneLife, Alive, Booting, Recovering, Phase
  <2>1. OneLife'
    BY <1>t, <1>i, <2>0, <2>others DEF OneLife, Alive, Booting, Recovering
  <2>2. TasksServe'
    BY <1>t, <1>i, <2>0, <2>others DEF TasksServe, OneLife, Alive, Booting, Recovering, TaskHolds, Active, Stage
  <2>3. TaskHolds'
    BY <1>t, <1>i, <2>0, <2>others DEF TaskHolds, Active, Stage, OneLife, Alive, Booting, Recovering, TasksServe
  <2>4. OrphansListed'
    BY <1>t, <1>i, <2>0, <2>others DEF OrphansListed, OneLife, Alive, Booting, Recovering, TasksServe, Active, Stage
  <2>5. NoCountLoaded'
    BY <1>t, <1>i, <2>0, <2>others DEF NoCountLoaded, OrphansListed, IInv, FirstTry, RequeueAllowed
  <2> QED BY <1>i, <2>1, <2>2, <2>3, <2>4, <2>5
<1>22. ASSUME NEW p \in Procs, RecoveryRaises(p) \/ \E j \in Jobs : TaskRaises(p, j) PROVE FALSE
  BY <1>22 DEF RecoveryRaises, TaskRaises
<1> QED
  BY <1>0, <1>1, <1>2, <1>3, <1>4, <1>5, <1>6, <1>7, <1>8, <1>9, <1>10, <1>11, <1>12, <1>13, <1>14, <1>15, <1>16, <1>17, <1>18, <1>19, <1>20, <1>21, <1>22
  DEF Next, RecoveryStep, TaskStep, AllDead

LEMMA SpecSolo == ASSUME ~Overlap, ~DBErrors PROVE Spec => []Solo
<1>1. Solo /\ [Next]_vars => Solo'
  BY NextSolo
<1> QED BY <1>1, InitSolo, PTL DEF Spec

\* While a process serves requests it leaves no row of an earlier life behind:
\* every PROCESSING job is in its hands and no job is ORPHANED.
THEOREM NothingLeftOver == ASSUME ~Overlap, ~DBErrors PROVE Spec => []NoLeftovers
<1>1. Solo => NoLeftovers
  BY DEF Solo, TaskHolds, OrphansListed, NoLeftovers
<1> QED BY <1>1, SpecSolo, PTL

\* Every statement of the engine is a step of the documented state machine, or
\* changes neither the status nor the retry count.
LEMMA StepIsLifecycle ==
    ASSUME ~Overlap, ~DBErrors, Solo, [Next]_vars
    PROVE  [Lifecycle!Next]_<<status, retryCount>>
<1>t. TypeOK
  BY DEF Solo, IInv
<1> USE DEF Lifecycle!Next
<1>1. ASSUME NEW p \in Procs, MarkOrphanedJobs(p) PROVE Lifecycle!Next
  <2>1. Lifecycle!Orphan
    BY <1>1 DEF MarkOrphanedJobs, AtStartup, Lifecycle!Orphan
  <2> QED BY <2>1
<1>2. ASSUME NEW p \in Procs, NEW j \in Jobs, ClaimForRetry(p, j) PROVE Lifecycle!Next
  <2>1. status[j] = "orphaned" /\ retryCount[j] = 0 /\ 0 < MAX_STARTUP_RETRIES
    BY <1>2 DEF ClaimForRetry, Solo, OrphansListed, IInv, FirstTry, RequeueAllowed
  <2>2. Lifecycle!Retry(j)
    BY <1>2, <2>1 DEF ClaimForRetry, ClaimableForRetry, Lifecycle!Retry, Lifecycle!Move
  <2> QED BY <2>2
<1>3. ASSUME NEW p \in Procs, NEW j \in Jobs, FailExhausted(p, j) PROVE Lifecycle!Next
  <2>1. status[j] = "orphaned" /\ retryCount[j] = 0 /\ MAX_STARTUP_RETRIES = 0
    BY <1>3 DEF FailExhausted, Solo, OrphansListed, NoCountLoaded, IInv, FirstTry
  <2>2. Lifecycle!GiveUp(j)
    BY <1>3, <2>1 DEF FailExhausted, Lifecycle!GiveUp, Lifecycle!Move
  <2> QED BY <2>2
<1>4. ASSUME NEW p \in Procs, NEW j \in Jobs, Submit(p, j) PROVE Lifecycle!Next
  <2>1. Lifecycle!Accept(j)
    BY <1>4 DEF Submit, Lifecycle!Accept, Lifecycle!Move
  <2> QED BY <2>1
<1>5. ASSUME NEW p \in Procs, NEW j \in Jobs, AtomicClaim(p, j)
      PROVE  Lifecycle!Next \/ UNCHANGED <<status, retryCount>>
  <2>1. CASE Claimable(j)
    <3>1. Lifecycle!Claim(j)
      BY <1>5, <2>1 DEF AtomicClaim, Claimable, Lifecycle!Claim, Lifecycle!Move
    <3> QED BY <3>1
  <2>2. CASE ~Claimable(j)
    BY <1>5, <2>2 DEF AtomicClaim
  <2> QED BY <2>1, <2>2
<1>6. ASSUME NEW p \in Procs, NEW j \in Jobs, MarkCompleted(p, j) PROVE Lifecycle!Next
  <2>1. status[j] = "processing"
    BY <1>6 DEF MarkCompleted, Solo, TaskHolds, Active, Stage
  <2>2. Lifecycle!Complete(j)
    BY <1>6, <2>1 DEF MarkCompleted, Lifecycle!Complete, Lifecycle!Move
  <2> QED BY <2>2
<1>7. ASSUME NEW p \in Procs, NEW j \in Jobs, MarkFailed(p, j) PROVE Lifecycle!Next
  <2>1. status[j] = "processing"
    BY <1>7 DEF MarkFailed, Solo, TaskHolds, Active, Stage
  <2>2. Lifecycle!Fail(j)
    BY <1>7, <2>1 DEF MarkFailed, Lifecycle!Fail, Lifecycle!Move
  <2> QED BY <2>2
<1>8. CASE UNCHANGED <<status, retryCount>>
  BY <1>8
<1> QED
  BY <1>1, <1>2, <1>3, <1>4, <1>5, <1>6, <1>7, <1>8
  DEF Next, RecoveryStep, TaskStep, AllDead, vars, columns, Start, Crash, ListOrphans, VisitOrphan,
      FinishRecovery, RecoveryRaises, ScheduleRecoveryJobs, Serve, SaveAnalyzed, CreateGeneration,
      StartGeneration, FinishGeneration, SaveLlmResponded, HealAndScore, SaveSandboxTested, TaskRaises

\* One process at a time and a database that answers: the engine implements the
\* state machine of job_engine.py:18-28, crashes and restarts included.
THEOREM EngineIsLifecycle == ASSUME ~Overlap, ~DBErrors PROVE Spec => ImplementsLifecycle
<1>1. Init => Lifecycle!Init
  BY DEF Init, Lifecycle!Init
<1>2. Solo /\ [Next]_vars => [Lifecycle!Next]_<<status, retryCount>>
  BY StepIsLifecycle
<1> QED BY <1>1, <1>2, SpecSolo, PTL DEF Spec, ImplementsLifecycle, Lifecycle!Spec
=============================================================================
