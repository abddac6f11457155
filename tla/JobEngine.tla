------------------------------ MODULE JobEngine ------------------------------
(***************************************************************************)
(* The asynchronous job engine: the generation_jobs table, the background  *)
(* task that executes each job, and the recovery every server process runs *)
(* when it starts (backend/app/services/job_engine.py, together with       *)
(* job_repository.py, repositories/base.py, api/v2/jobs.py, main.py and    *)
(* the record keeping of generation_service.py).                           *)
(*                                                                         *)
(* Every action is one committed statement of the code, so another process *)
(* or a crash can fall between any two of them.  A process is one LIFE of  *)
(* a server: it starts once and dies once; a restart is another process.   *)
(***************************************************************************)
EXTENDS Naturals, FiniteSets

CONSTANTS
    Jobs,                 \* ids of the jobs clients may submit
    Procs,                \* lives of the server process
    None,                 \* SQL NULL
    MAX_STARTUP_RETRIES,  \* job_engine.py:69
    Overlap,              \* TRUE: several lives may run at the same time
    DBErrors              \* TRUE: any database call may raise

ASSUME JobEngineAssumption ==
    /\ None \notin Procs \cup Jobs
    /\ None \notin {"ANALYZED", "LLM_RESPONDED", "SANDBOX_TESTED", "generation_id", "source_code"}
    /\ MAX_STARTUP_RETRIES \in Nat
    /\ Overlap \in BOOLEAN
    /\ DBErrors \in BOOLEAN

-----------------------------------------------------------------------------
VARIABLES
    \* The columns of generation_jobs the engine reads or writes.
    status,         \* "absent" before the row is inserted
    retryCount,
    checkpoint,     \* last_checkpoint
    payload,        \* which keys checkpoint_payload holds
    generationId,   \* the generation row, named by the process that made it
    \* The generations table: gen[p][j] is the row p's execution of j creates.
    gen,
    \* The background task of job j in process p.
    stage,
    \* startup_recovery() of each process.
    phase,
    todo,           \* ORPHANED jobs it has still to visit
    loaded,         \* retry counts its session loaded with that list
    fresh,          \* FALSE once a commit has expired what was loaded
    cursor,         \* the job it is about to write
    requeued        \* retried_count > 0

columns == <<status, retryCount, checkpoint, payload, generationId>>
recovery == <<todo, loaded, fresh, cursor, requeued>>
vars == <<columns, gen, stage, phase, recovery>>

JobStatus == {"absent", "pending", "processing", "orphaned", "completed", "failed"}
Terminal == {"completed", "failed"}
Checkpoint == {None, "ANALYZED", "LLM_RESPONDED", "SANDBOX_TESTED"}
Payload == {None, "generation_id"}
GenStatus == {"absent", "pending", "processing", "completed", "failed"}

\* Stages of _run_job_sync between two commits; "idle" is no task at all.
Stage == {"idle", "queued", "claimed", "analyzed", "created", "running",
          "generated", "responded", "scored", "tested", "raised", "over"}
Active == Stage \ {"idle", "queued", "over"}

Phase == {"down", "boot", "listing", "visiting", "requeue", "exhaust",
          "schedule", "await", "up", "dead"}
Recovering == {"boot", "listing", "visiting", "requeue", "exhaust"}
Booting == Recovering \cup {"schedule", "await"}

Alive(p) == phase[p] \in Booting \cup {"up"}

TypeOK ==
    /\ status \in [Jobs -> JobStatus]
    /\ retryCount \in [Jobs -> Nat]
    /\ checkpoint \in [Jobs -> Checkpoint]
    /\ payload \in [Jobs -> Payload]
    /\ generationId \in [Jobs -> Procs \cup {None}]
    /\ gen \in [Procs -> [Jobs -> GenStatus]]
    /\ stage \in [Procs -> [Jobs -> Stage]]
    /\ phase \in [Procs -> Phase]
    /\ todo \in [Procs -> SUBSET Jobs]
    /\ loaded \in [Procs -> [Jobs -> Nat]]
    /\ fresh \in [Procs -> BOOLEAN]
    /\ cursor \in [Procs -> Jobs \cup {None}]
    /\ requeued \in [Procs -> BOOLEAN]

Init ==
    /\ status = [j \in Jobs |-> "absent"]
    /\ retryCount = [j \in Jobs |-> 0]
    /\ checkpoint = [j \in Jobs |-> None]
    /\ payload = [j \in Jobs |-> None]
    /\ generationId = [j \in Jobs |-> None]
    /\ gen = [p \in Procs |-> [j \in Jobs |-> "absent"]]
    /\ stage = [p \in Procs |-> [j \in Jobs |-> "idle"]]
    /\ phase = [p \in Procs |-> "down"]
    /\ todo = [p \in Procs |-> {}]
    /\ loaded = [p \in Procs |-> [j \in Jobs |-> 0]]
    /\ fresh = [p \in Procs |-> FALSE]
    /\ cursor = [p \in Procs |-> None]
    /\ requeued = [p \in Procs |-> FALSE]

-----------------------------------------------------------------------------
(* Seeded faults: wrong forms of operators below, each put in place of the *)
(* right one to see that the property it would break notices.  No action   *)
(* uses them.                                                              *)
FaultAtStartupForgetsCrash(s) == s
FaultSeenOneTooMany(p, j) == retryCount[j] + 1
FaultClaimForRetryUnguarded(j) == TRUE
FaultSourceNotChecked(j) == TRUE
FaultAnyPayloadIsSource(j) == payload[j] # None \/ generationId[j] # None
FaultOnlyRetriesClaimed(j) == status[j] = "pending" /\ retryCount[j] > 0
FaultCheckpointLost(j, name, keys) == UNCHANGED <<checkpoint, payload>>

-----------------------------------------------------------------------------
(* Process lifetime.                                                       *)

\* lifespan() begins.
Start(p) ==
    /\ phase[p] = "down"
    /\ Overlap \/ \A q \in Procs : ~Alive(q)
    /\ phase' = [phase EXCEPT ![p] = "boot"]
    /\ UNCHANGED <<columns, gen, stage, recovery>>

\* startup_recovery() is over: its local variables and its session are gone.
Forget(p) ==
    /\ todo' = [todo EXCEPT ![p] = {}]
    /\ loaded' = [loaded EXCEPT ![p] = [j \in Jobs |-> 0]]
    /\ fresh' = [fresh EXCEPT ![p] = FALSE]
    /\ cursor' = [cursor EXCEPT ![p] = None]
    /\ requeued' = [requeued EXCEPT ![p] = FALSE]

\* The process is killed: its threads and its BackgroundTasks queue are gone,
\* the database keeps what was committed.
Crash(p) ==
    /\ Alive(p)
    /\ phase' = [phase EXCEPT ![p] = "dead"]
    /\ stage' = [stage EXCEPT ![p] = [j \in Jobs |-> "idle"]]
    /\ Forget(p)
    /\ UNCHANGED <<columns, gen>>

-----------------------------------------------------------------------------
(* Startup recovery.                                                       *)

\* mark_orphaned_jobs(): one UPDATE over every PROCESSING row.
AtStartup(s) == IF s = "processing" THEN "orphaned" ELSE s

MarkOrphanedJobs(p) ==
    /\ phase[p] = "boot"
    /\ status' = [j \in Jobs |-> AtStartup(status[j])]
    /\ phase' = [phase EXCEPT ![p] = "listing"]
    /\ UNCHANGED <<retryCount, checkpoint, payload, generationId, gen, stage, recovery>>

\* get_jobs_by_status(ORPHANED): the rows, with their retry counts, are
\* loaded into the session.
ListOrphans(p) ==
    /\ phase[p] = "listing"
    /\ todo' = [todo EXCEPT ![p] = {j \in Jobs : status[j] = "orphaned"}]
    /\ loaded' = [loaded EXCEPT ![p] = [j \in Jobs |-> IF status[j] = "orphaned"
                                                       THEN retryCount[j] ELSE 0]]
    /\ fresh' = [fresh EXCEPT ![p] = TRUE]
    /\ phase' = [phase EXCEPT ![p] = "visiting"]
    /\ UNCHANGED <<columns, gen, stage, cursor, requeued>>

\* The retry count startup_recovery() compares: the loaded one, or, once a
\* commit has expired the session's objects, the row as it is now.
SeenRetryCount(p, j) == IF fresh[p] THEN loaded[p][j] ELSE retryCount[j]

VisitOrphan(p, j) ==
    /\ phase[p] = "visiting"
    /\ j \in todo[p]
    /\ todo' = [todo EXCEPT ![p] = @ \ {j}]
    /\ cursor' = [cursor EXCEPT ![p] = j]
    /\ phase' = [phase EXCEPT ![p] =
                    IF SeenRetryCount(p, j) < MAX_STARTUP_RETRIES
                    THEN "requeue" ELSE "exhaust"]
    /\ UNCHANGED <<columns, gen, stage, loaded, fresh, requeued>>

\* claim_for_retry(): guarded by status = 'orphaned'.
ClaimableForRetry(j) == status[j] = "orphaned"

ClaimForRetry(p, j) ==
    /\ phase[p] = "requeue"
    /\ cursor[p] = j
    /\ IF ClaimableForRetry(j)
       THEN /\ status' = [status EXCEPT ![j] = "pending"]
            /\ retryCount' = [retryCount EXCEPT ![j] = @ + 1]
            /\ requeued' = [requeued EXCEPT ![p] = TRUE]
       ELSE UNCHANGED <<status, retryCount, requeued>>
    /\ fresh' = [fresh EXCEPT ![p] = FALSE]
    /\ cursor' = [cursor EXCEPT ![p] = None]
    /\ phase' = [phase EXCEPT ![p] = "visiting"]
    /\ UNCHANGED <<checkpoint, payload, generationId, gen, stage, todo, loaded>>

\* job_repo.update(FAILED, STARTUP_RETRY_EXHAUSTED): no guard on the status.
FailExhausted(p, j) ==
    /\ phase[p] = "exhaust"
    /\ cursor[p] = j
    /\ status' = [status EXCEPT ![j] = "failed"]
    /\ fresh' = [fresh EXCEPT ![p] = FALSE]
    /\ cursor' = [cursor EXCEPT ![p] = None]
    /\ phase' = [phase EXCEPT ![p] = "visiting"]
    /\ UNCHANGED <<retryCount, checkpoint, payload, generationId, gen, stage, todo,
                   loaded, requeued>>

\* startup_recovery() returns; main.py schedules only when it requeued a job.
FinishRecovery(p) ==
    /\ phase[p] = "visiting"
    /\ todo[p] = {}
    /\ phase' = [phase EXCEPT ![p] = IF requeued[p] THEN "schedule" ELSE "up"]
    /\ Forget(p)
    /\ UNCHANGED <<columns, gen, stage>>

\* startup_recovery() raises: it reports 0 jobs and the server starts anyway.
RecoveryRaises(p) ==
    /\ DBErrors
    /\ phase[p] \in Recovering
    /\ phase' = [phase EXCEPT ![p] = "up"]
    /\ Forget(p)
    /\ UNCHANGED <<columns, gen, stage>>

\* schedule_recovery_jobs() can only run a job whose source code it finds in
\* the checkpoint payload or through the row's generation.
SourceKnown(j) == payload[j] = "source_code" \/ generationId[j] # None

Resumable == {j \in Jobs : status[j] = "pending" /\ retryCount[j] > 0 /\ SourceKnown(j)}

\* Its loop: jobs without source are skipped, the others are executed.  The
\* code awaits them one after the other; here they run side by side.
ScheduleRecoveryJobs(p) ==
    /\ phase[p] = "schedule"
    /\ stage' = [stage EXCEPT ![p] = [j \in Jobs |-> IF j \in Resumable THEN "queued"
                                                                       ELSE @[j]]]
    /\ phase' = [phase EXCEPT ![p] = "await"]
    /\ UNCHANGED <<columns, gen, recovery>>

\* lifespan() yields: requests are served once every awaited job is over.
Serve(p) ==
    /\ phase[p] = "await"
    /\ \A j \in Jobs : stage[p][j] \in {"idle", "over"}
    /\ phase' = [phase EXCEPT ![p] = "up"]
    /\ UNCHANGED <<columns, gen, stage, recovery>>

-----------------------------------------------------------------------------
(* Submission and execution of one job.                                    *)

Goto(p, j, s) == stage' = [stage EXCEPT ![p][j] = s]

\* POST /jobs/generate: insert the PENDING row, add the background task.
Submit(p, j) ==
    /\ phase[p] = "up"
    /\ status[j] = "absent"
    /\ status' = [status EXCEPT ![j] = "pending"]
    /\ Goto(p, j, "queued")
    /\ UNCHANGED <<retryCount, checkpoint, payload, generationId, gen, phase, recovery>>

\* atomic_claim(): UPDATE ... WHERE status = 'pending'; a loser returns.
Claimable(j) == status[j] = "pending"

AtomicClaim(p, j) ==
    /\ stage[p][j] = "queued"
    /\ IF Claimable(j)
       THEN /\ status' = [status EXCEPT ![j] = "processing"]
            /\ Goto(p, j, "claimed")
       ELSE /\ Goto(p, j, "over")
            /\ UNCHANGED status
    /\ UNCHANGED <<retryCount, checkpoint, payload, generationId, gen, phase, recovery>>

\* save_checkpoint(): overwrites checkpoint and payload whatever the status is.
SaveCheckpoint(j, name, keys) ==
    /\ checkpoint' = [checkpoint EXCEPT ![j] = name]
    /\ payload' = [payload EXCEPT ![j] = keys]

SaveAnalyzed(p, j) ==
    /\ stage[p][j] = "claimed"
    /\ SaveCheckpoint(j, "ANALYZED", None)
    /\ Goto(p, j, "analyzed")
    /\ UNCHANGED <<status, retryCount, generationId, gen, phase, recovery>>

\* generate() refuses an oversized input, or inserts the generation row.
CreateGeneration(p, j) ==
    /\ stage[p][j] = "analyzed"
    /\ \/ /\ Goto(p, j, "raised")
          /\ UNCHANGED gen
       \/ /\ gen' = [gen EXCEPT ![p][j] = "pending"]
          /\ Goto(p, j, "created")
    /\ UNCHANGED <<columns, phase, recovery>>

StartGeneration(p, j) ==
    /\ stage[p][j] = "created"
    /\ gen' = [gen EXCEPT ![p][j] = "processing"]
    /\ Goto(p, j, "running")
    /\ UNCHANGED <<columns, phase, recovery>>

\* The pipeline ends; generate() turns every exception of it into a failed
\* generation row and returns that row like any other.
FinishGeneration(p, j) ==
    /\ stage[p][j] = "running"
    /\ \E outcome \in {"completed", "failed"} :
           gen' = [gen EXCEPT ![p][j] = outcome]
    /\ Goto(p, j, "generated")
    /\ UNCHANGED <<columns, phase, recovery>>

SaveLlmResponded(p, j) ==
    /\ stage[p][j] = "generated"
    /\ SaveCheckpoint(j, "LLM_RESPONDED", "generation_id")
    /\ Goto(p, j, "responded")
    /\ UNCHANGED <<status, retryCount, generationId, gen, phase, recovery>>

\* Self-healing and quality evaluation: they write columns of the generation
\* row other than its status (modelled in detail elsewhere).
HealAndScore(p, j) ==
    /\ stage[p][j] = "responded"
    /\ Goto(p, j, "scored")
    /\ UNCHANGED <<columns, gen, phase, recovery>>

SaveSandboxTested(p, j) ==
    /\ stage[p][j] = "scored"
    /\ SaveCheckpoint(j, "SANDBOX_TESTED", None)
    /\ Goto(p, j, "tested")
    /\ UNCHANGED <<status, retryCount, generationId, gen, phase, recovery>>

\* update(COMPLETED, generation_id): no guard on the status.  The refresh that
\* follows the commit may still raise.
MarkCompleted(p, j) ==
    /\ stage[p][j] = "tested"
    /\ status' = [status EXCEPT ![j] = "completed"]
    /\ generationId' = [generationId EXCEPT ![j] = p]
    /\ \/ Goto(p, j, "over")
       \/ DBErrors /\ Goto(p, j, "raised")
    /\ UNCHANGED <<retryCount, checkpoint, payload, gen, phase, recovery>>

\* Any database call of the task raises.
TaskRaises(p, j) ==
    /\ DBErrors
    /\ stage[p][j] \in (Active \cup {"queued"}) \ {"raised"}
    /\ Goto(p, j, "raised")
    /\ UNCHANGED <<columns, gen, phase, recovery>>

\* The except clause: best-effort update(FAILED), no guard on the status.
MarkFailed(p, j) ==
    /\ stage[p][j] = "raised"
    /\ \/ status' = [status EXCEPT ![j] = "failed"]
       \/ DBErrors /\ UNCHANGED status
    /\ Goto(p, j, "over")
    /\ UNCHANGED <<retryCount, checkpoint, payload, generationId, gen, phase, recovery>>

-----------------------------------------------------------------------------
RecoveryStep(p) ==
    \/ MarkOrphanedJobs(p)
    \/ ListOrphans(p)
    \/ \E j \in Jobs : VisitOrphan(p, j) \/ ClaimForRetry(p, j) \/ FailExhausted(p, j)
    \/ FinishRecovery(p)
    \/ ScheduleRecoveryJobs(p)
    \/ Serve(p)

TaskStep(p, j) ==
    \/ AtomicClaim(p, j)
    \/ SaveAnalyzed(p, j)
    \/ CreateGeneration(p, j)
    \/ StartGeneration(p, j)
    \/ FinishGeneration(p, j)
    \/ SaveLlmResponded(p, j)
    \/ HealAndScore(p, j)
    \/ SaveSandboxTested(p, j)
    \/ MarkCompleted(p, j)
    \/ MarkFailed(p, j)

\* Every modelled life has ended: nothing is left to happen.
AllDead ==
    /\ \A p \in Procs : phase[p] = "dead"
    /\ UNCHANGED vars

Next ==
    \/ \E p \in Procs :
          \/ Start(p)
          \/ Crash(p)
          \/ RecoveryStep(p)
          \/ RecoveryRaises(p)
          \/ \E j \in Jobs : Submit(p, j) \/ TaskStep(p, j) \/ TaskRaises(p, j)
    \/ AllDead

Spec == Init /\ [][Next]_vars

\* A live process keeps executing its startup code and its worker threads.
\* Nothing promises that clients submit, that errors happen, that a process
\* dies or that anyone starts it again.
Fairness ==
    /\ \A p \in Procs : WF_vars(RecoveryStep(p))
    /\ \A p \in Procs, j \in Jobs : WF_vars(TaskStep(p, j))

FairSpec == Spec /\ Fairness
-----------------------------------------------------------------------------
(* What must hold whatever the deployment: any number of processes at a    *)
(* time, any database error.                                               *)

\* No two threads, of one process or of several, execute the same job at the
\* same time (job_repository.py:43-45, "exactly one worker wins the race").
OneWorkerPerJob ==
    \A p, q \in Procs, j \in Jobs :
        stage[p][j] \in Active /\ stage[q][j] \in Active => p = q

\* Recovery gives a job at most MAX_STARTUP_RETRIES further tries, although
\* the count it compares and the row it then updates are read apart.
RetryBound == \A j \in Jobs : retryCount[j] <= MAX_STARTUP_RETRIES

\* A COMPLETED job points to a generation row that has reached its final
\* state, and its checkpoint is that of a finished pipeline.
CompletedHasResult ==
    \A j \in Jobs : status[j] = "completed" =>
        /\ generationId[j] # None
        /\ gen[generationId[j]][j] \in {"completed", "failed"}
        /\ checkpoint[j] = "SANDBOX_TESTED"

CheckpointRank(c) ==
    CASE c = None -> 0
      [] c = "ANALYZED" -> 1
      [] c = "LLM_RESPONDED" -> 2
      [] c = "SANDBOX_TESTED" -> 3

\* The progress a client reads in last_checkpoint never goes backwards, not
\* even when a job is orphaned and requeued while it is being executed.
CheckpointNeverRegresses ==
    [][\A j \in Jobs : CheckpointRank(checkpoint'[j]) >= CheckpointRank(checkpoint[j])]_vars

\* schedule_recovery_jobs() never finds the source code of a job that
\* startup_recovery() requeued: the job stays PENDING.
NothingResumable == Resumable = {}

-----------------------------------------------------------------------------
(* What holds when one process runs at a time and the database answers.    *)

\* While requests are served no row is left over from an earlier life: a
\* PROCESSING job is in the hands of the serving process, none is ORPHANED.
NoLeftovers ==
    \A p \in Procs, j \in Jobs : phase[p] = "up" =>
        /\ status[j] # "orphaned"
        /\ status[j] = "processing" => stage[p][j] \in Active

\* The engine implements the documented state machine of a job.
Lifecycle == INSTANCE JobLifecycle
ImplementsLifecycle == Lifecycle!Spec

\* A task the process lives to run brings its job to a terminal status.
TaskSettles ==
    \A p \in Procs, j \in Jobs :
        stage[p][j] = "queued" ~> status[j] \in Terminal \/ phase[p] = "dead"

-----------------------------------------------------------------------------
(* What the code's own words claim and its behaviour refutes.              *)

\* job_engine.py:587 "Re-execute PENDING recovery jobs that startup_recovery()
\* re-queued": such a job is executed unless its process dies.
RequeuedIsExecuted ==
    \A p \in Procs, j \in Jobs :
        phase[p] = "schedule" /\ status[j] = "pending" /\ retryCount[j] > 0
            ~> status[j] \in {"processing"} \cup Terminal \/ phase[p] = "dead"

\* The state machine of job_engine.py:18-28 has no way out of COMPLETED.
CompletedIsFinal ==
    [][\A j \in Jobs : status[j] = "completed" => status'[j] = "completed"]_vars
=============================================================================
