------------------------------- MODULE JobStore -------------------------------
(***************************************************************************)
(* The browser's side of a job: stores/useJobStore.js with the services it *)
(* calls, and the two places of the user interface that drive it, the      *)
(* hook useGenerate() and the panel of results.  JavaScript runs one       *)
(* callback at a time; what interleaves are clicks, timers and the answers *)
(* of requests, which are kept here as sets of what is outstanding.        *)
(*                                                                         *)
(* A job is named by the number of the submission that created it; its     *)
(* generation has the same name.  That a completed job has a generation is *)
(* shown of the server in JobEngine (CompletedHasResult).                  *)
(***************************************************************************)
EXTENDS Integers, FiniteSets

CONSTANTS
    MAX_SUBMITS,  \* bound on the submissions of one session
    MAX_POLLS,    \* polls that fit in VITE_POLL_TIMEOUT_MS
    Failures,     \* the ways a request may fail
    None

Submissions == 1..MAX_SUBMITS

FailureKinds == {"cancelled", "timeout", "401", "403", "422", "502", "503", "other_status",
                 "no_answer", "unsent"}

ASSUME BoundsAssumption ==
    /\ MAX_SUBMITS \in Nat \ {0} /\ MAX_POLLS \in Nat \ {0}
    /\ Failures \subseteq FailureKinds
    /\ None \notin Nat

VARIABLES
    jobId, jobStatus,   \* the job the store is about and what it knows of it
    isSubmitting, isPolling, isLoadingResult,
    result,             \* the generation shown
    error,              \* code of the error shown, or None
    _cancelPoll         \* the poller that reset() would cancel, or None

VARIABLES
    submits,   \* submissions whose answer is outstanding
    pollers,   \* pollers started: what each is at, by the job it polls
    loads,     \* generations whose load is outstanding
    submitted, \* number of submissions made
    server     \* status of each job on the server, "none" before it exists

store == <<jobId, jobStatus, isSubmitting, isPolling, isLoadingResult, result, error, _cancelPoll>>
vars == <<store, submits, pollers, loads, submitted, server>>

\* api/jobService.js
TERMINAL_STATES == {"completed", "failed", "cancelled"}

ServerStatuses == {"none", "pending", "processing"} \cup TERMINAL_STATES

\* normalizeError() of api/client.js: a failure, as the code the stores get.
ErrorCode(kind) ==
    CASE kind = "cancelled" -> "REQUEST_CANCELLED"
      [] kind = "timeout" -> "TIMEOUT"
      [] kind = "401" -> "UNAUTHORIZED"
      [] kind = "403" -> "FORBIDDEN"
      [] kind = "422" -> "VALIDATION_ERROR"
      [] kind = "502" -> "LLM_UNAVAILABLE"
      [] kind = "503" -> "SERVICE_UNAVAILABLE"
      [] kind = "other_status" -> "HTTP_STATUS"
      [] kind = "no_answer" -> "NETWORK_ERROR"
      [] OTHER -> "UNKNOWN_ERROR"

ErrorCodes == {ErrorCode(k) : k \in FailureKinds} \cup {"POLL_TIMEOUT", "JOB_FAILED", "JOB_CANCELLED"}

\* The poller of a job: its tick() waits for an answer or its timer runs.
Idle == [at |-> "over", polls |-> 0, cancelled |-> FALSE]
Live(p) == ~p.cancelled /\ p.at # "over"

selectIsActive == isSubmitting \/ isPolling \/ isLoadingResult
isActive == selectIsActive

Init ==
    /\ jobId = None /\ jobStatus = None
    /\ isSubmitting = FALSE /\ isPolling = FALSE /\ isLoadingResult = FALSE
    /\ result = None /\ error = None /\ _cancelPoll = None
    /\ submits = {} /\ loads = {} /\ submitted = 0
    /\ pollers = [j \in Submissions |-> Idle]
    /\ server = [j \in Submissions |-> "none"]

-----------------------------------------------------------------------------
\* cancel(): the flag is set and the timer cleared; an answer is still awaited.
Cancelled(p) == [p EXCEPT !.cancelled = TRUE, !.at = IF @ = "timer" THEN "over" ELSE @]

\* The part of reset() that submitJob() does not overwrite at once.
Clear ==
    /\ pollers' = IF _cancelPoll = None THEN pollers
                  ELSE [pollers EXCEPT ![_cancelPoll] = Cancelled(@)]
    /\ jobId' = None /\ jobStatus' = None
    /\ isPolling' = FALSE /\ isLoadingResult' = FALSE
    /\ result' = None /\ error' = None /\ _cancelPoll' = None

\* Fault: the button looks at the submission and the polling only.
FaultGuard == isSubmitting \/ isPolling

\* What useGenerate() looks at before it submits.
Busy == isActive

\* The button, Ctrl+Enter or "retry" of the alert: useGenerate() lets it through
\* unless something is under way; submitJob() resets the store and posts.
Generate ==
    /\ ~Busy
    /\ submitted < MAX_SUBMITS
    /\ submitted' = submitted + 1
    /\ submits' = submits \cup {submitted + 1}
    /\ Clear
    /\ isSubmitting' = TRUE
    /\ UNCHANGED <<loads, server>>

\* "Try again" of the panel that a failed job shows.
Reset ==
    /\ ~isActive /\ result = None
    /\ jobStatus # None /\ jobStatus.status \in {"failed", "cancelled"}
    /\ Clear
    /\ isSubmitting' = FALSE
    /\ UNCHANGED <<submits, loads, submitted, server>>

ClearError ==
    /\ error # None
    /\ error' = None
    /\ UNCHANGED <<jobId, jobStatus, isSubmitting, isPolling, isLoadingResult, result,
                   _cancelPoll, submits, pollers, loads, submitted, server>>

\* The job is created on the server, whether or not the browser hears of it.
Create(n) ==
    /\ n \in submits /\ server[n] = "none"
    /\ server' = [server EXCEPT ![n] = "pending"]
    /\ UNCHANGED <<store, submits, pollers, loads, submitted>>

\* The answer of the POST: startPolling() with a first tick().
SubmitAnswered(n) ==
    /\ n \in submits /\ server[n] # "none"
    /\ submits' = submits \ {n}
    /\ jobId' = n
    /\ jobStatus' = [job |-> n, status |-> "pending"]
    /\ isSubmitting' = FALSE /\ isPolling' = TRUE
    /\ _cancelPoll' = n
    /\ pollers' = [pollers EXCEPT ![n] = [at |-> "request", polls |-> 1, cancelled |-> FALSE]]
    /\ UNCHANGED <<isLoadingResult, result, error, loads, submitted, server>>

\* Fault: a submission that failed leaves its flag up.
FaultKeepsSpinner(n) ==
    /\ n \in submits
    /\ submits' = submits \ {n}
    /\ \E k \in Failures : error' = ErrorCode(k)
    /\ UNCHANGED <<jobId, jobStatus, isSubmitting, isPolling, isLoadingResult, result, _cancelPoll,
                   pollers, loads, submitted, server>>

SubmitFailed(n) ==
    /\ n \in submits
    /\ submits' = submits \ {n}
    /\ isSubmitting' = FALSE
    /\ \E k \in Failures : error' = ErrorCode(k)
    /\ UNCHANGED <<jobId, jobStatus, isPolling, isLoadingResult, result, _cancelPoll,
                   pollers, loads, submitted, server>>

-----------------------------------------------------------------------------
At(j, what) == pollers' = [pollers EXCEPT ![j].at = what]

\* Fault: any status but a failure is followed by another poll.
FaultMissesEnd(status) == status \in {"failed", "cancelled"}

\* Whether a status ends the polling.
Ends(status) == status \in TERMINAL_STATES

\* The answer to a poll: a cancelled poller drops it; a terminal status ends the
\* polling, loads the result or shows the error; any other sets the timer.
PollAnswered(j) ==
    /\ pollers[j].at = "request"
    /\ IF pollers[j].cancelled
       THEN /\ At(j, "over")
            /\ UNCHANGED <<jobStatus, isPolling, isLoadingResult, error, loads>>
       ELSE LET status == server[j] IN
            /\ jobStatus' = [job |-> j, status |-> status]
            /\ At(j, IF Ends(status) THEN "over" ELSE "timer")
            /\ isPolling' = IF Ends(status) THEN FALSE ELSE isPolling
            /\ loads' = IF status = "completed" THEN loads \cup {j} ELSE loads
            /\ isLoadingResult' = IF status = "completed" THEN TRUE ELSE isLoadingResult
            /\ error' = CASE status = "failed" -> "JOB_FAILED"
                          [] status = "cancelled" -> "JOB_CANCELLED"
                          [] OTHER -> error
    /\ UNCHANGED <<jobId, isSubmitting, result, _cancelPoll, submits, submitted, server>>

PollFailed(j) ==
    /\ pollers[j].at = "request"
    /\ At(j, "over")
    /\ IF pollers[j].cancelled THEN UNCHANGED <<isPolling, error>>
       ELSE isPolling' = FALSE /\ \E k \in Failures : error' = ErrorCode(k)
    /\ UNCHANGED <<jobId, jobStatus, isSubmitting, isLoadingResult, result, _cancelPoll,
                   submits, loads, submitted, server>>

\* The timer: tick() gives up when the time is over and polls again otherwise.
Timer(j) ==
    /\ pollers[j].at = "timer"
    /\ \/ /\ isPolling' = FALSE /\ error' = "POLL_TIMEOUT"
          /\ At(j, "over")
       \/ /\ pollers[j].polls < MAX_POLLS
          /\ pollers' = [pollers EXCEPT ![j].at = "request", ![j].polls = @ + 1]
          /\ UNCHANGED <<isPolling, error>>
    /\ UNCHANGED <<jobId, jobStatus, isSubmitting, isLoadingResult, result, _cancelPoll,
                   submits, loads, submitted, server>>

\* loadResult(): its answer is stored whatever has become of the job meanwhile.
Loaded(j) ==
    /\ j \in loads
    /\ loads' = loads \ {j}
    /\ isLoadingResult' = FALSE
    /\ \/ result' = j /\ UNCHANGED error
       \/ (\E k \in Failures : error' = ErrorCode(k)) /\ UNCHANGED result
    /\ UNCHANGED <<jobId, jobStatus, isSubmitting, isPolling, _cancelPoll,
                   submits, pollers, submitted, server>>

\* The job goes on at the server, at its own pace.
ServerStep(j) ==
    /\ \/ server[j] = "pending" /\ server' = [server EXCEPT ![j] = "processing"]
       \/ /\ server[j] = "processing"
          /\ \E s \in TERMINAL_STATES : server' = [server EXCEPT ![j] = s]
    /\ UNCHANGED <<store, submits, pollers, loads, submitted>>

-----------------------------------------------------------------------------
Answers(j) == SubmitAnswered(j) \/ SubmitFailed(j) \/ PollAnswered(j) \/ PollFailed(j) \/ Loaded(j)

Next ==
    \/ Generate \/ Reset \/ ClearError
    \/ \E j \in Submissions : Create(j) \/ Answers(j) \/ Timer(j) \/ ServerStep(j)

Spec == Init /\ [][Next]_vars

\* axios ends every request (client.js:79, :89) and timers fire; neither the user
\* nor the server need do anything.
FairSpec == Spec /\ \A j \in Submissions : WF_vars(Answers(j)) /\ WF_vars(Timer(j))

-----------------------------------------------------------------------------
(* Types. *)
TypeOK ==
    /\ jobId \in Submissions \cup {None}
    /\ jobStatus \in [job : Submissions, status : ServerStatuses \ {"none"}] \cup {None}
    /\ isSubmitting \in BOOLEAN /\ isPolling \in BOOLEAN /\ isLoadingResult \in BOOLEAN
    /\ result \in Submissions \cup {None}
    /\ error \in ErrorCodes \cup {None}
    /\ _cancelPoll \in Submissions \cup {None}
    /\ submits \subseteq Submissions /\ loads \subseteq Submissions
    /\ pollers \in [Submissions -> [at : {"over", "request", "timer"}, polls : 0..MAX_POLLS,
                                    cancelled : BOOLEAN]]
    /\ submitted \in 0..MAX_SUBMITS
    /\ server \in [Submissions -> ServerStatuses]

(* The three flags, which the user interface takes for the truth, tell what is
   outstanding: at most one request or timer at any time, of the kind that is
   flagged, for the job that is shown, and none when no flag is up.  reset()
   cancels a poller but neither a submission nor a load, so this hangs on the
   guard of useGenerate().                                                     *)
FlagsTellWhatIsOutstanding ==
    LET polling == {j \in Submissions : Live(pollers[j])} IN
    /\ isSubmitting <=> submits # {}
    /\ isPolling <=> polling # {}
    /\ isLoadingResult <=> loads # {}
    /\ polling \cup loads \subseteq {jobId}
    /\ Cardinality(submits) + Cardinality(polling) + Cardinality(loads) <= 1

(* The generation shown is that of the job shown, and that job is completed: no
   answer that belongs to an earlier submission gets there.                    *)
ResultIsOfTheJobShown ==
    result # None => jobStatus = [job |-> result, status |-> "completed"]

(* Whatever was begun comes to rest: the spinner does not stay, even if the job
   never ends at the server.                                                   *)
ComesToRest == isActive ~> ~isActive

=============================================================================
