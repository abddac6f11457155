---------------------------- MODULE JobLifecycle ----------------------------
(***************************************************************************)
(* What the job engine promises about a job's status: the state machine in *)
(* the header of job_engine.py (lines 18-28), with the pass through        *)
(* RETRYING folded into one step because claim_for_retry() goes from       *)
(* ORPHANED straight to PENDING.                                           *)
(***************************************************************************)
EXTENDS Naturals

CONSTANTS Jobs, MAX_STARTUP_RETRIES

VARIABLES status, retryCount

Init ==
    /\ status = [j \in Jobs |-> "absent"]
    /\ retryCount = [j \in Jobs |-> 0]

Move(j, from, to) ==
    /\ status[j] = from
    /\ status' = [status EXCEPT ![j] = to]

Accept(j)   == Move(j, "absent", "pending") /\ UNCHANGED retryCount
Claim(j)    == Move(j, "pending", "processing") /\ UNCHANGED retryCount
Complete(j) == Move(j, "processing", "completed") /\ UNCHANGED retryCount
Fail(j)     == Move(j, "processing", "failed") /\ UNCHANGED retryCount

\* A starting process orphans every job its predecessor was executing.
Orphan ==
    /\ status' = [j \in Jobs |-> IF status[j] = "processing" THEN "orphaned"
                                                            ELSE status[j]]
    /\ UNCHANGED retryCount

\* An orphan is tried again while it has retries left, and fails after that.
Retry(j) ==
    /\ retryCount[j] < MAX_STARTUP_RETRIES
    /\ Move(j, "orphaned", "pending")
    /\ retryCount' = [retryCount EXCEPT ![j] = @ + 1]

GiveUp(j) ==
    /\ retryCount[j] >= MAX_STARTUP_RETRIES
    /\ Move(j, "orphaned", "failed")
    /\ UNCHANGED retryCount

Next ==
    \/ Orphan
    \/ \E j \in Jobs : Accept(j) \/ Claim(j) \/ Complete(j) \/ Fail(j) \/ Retry(j) \/ GiveUp(j)

Spec == Init /\ [][Next]_<<status, retryCount>>
=============================================================================
