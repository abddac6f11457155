---------------------------- MODULE Flows_proofs ----------------------------
(***************************************************************************)
(* Theorems about the four flows, for all values of their constants.  A    *)
(* behaviour of MCFlows is one of each flow, of which all but one rest     *)
(* (FlowsAreFlows), so a flow's invariant is one of FlowsSpec.             *)
(*                                                                         *)
(* The job store: it is about one thing at a time.  Because the button     *)
(* does nothing while a flag is up, a submission starts when nothing is    *)
(* outstanding, its answer starts the only poller, and the last answer of  *)
(* that poller starts the only load; so no poller is ever cancelled with   *)
(* its request under way, and no answer is of an earlier job.              *)
(*                                                                         *)
(* The stream: as long as it runs, what was delivered is what was          *)
(* accumulated.                                                            *)
(*                                                                         *)
(* The agents: an agent that is done has left its product and no other     *)
(* has; the mapper of a repair keeps names apart, loses none and logs what *)
(* it changes.                                                             *)
(***************************************************************************)
EXTENDS MCFlows, FiniteSetTheorems, SequenceTheorems, TLAPS

Polling == {j \in Submissions : Live(pollers[j])}

\* What is outstanding is of the last submission, or of the job shown.
OneAtATime ==
    /\ submits \subseteq {submitted}
    /\ Polling \subseteq {jobId} /\ loads \subseteq {jobId}
    /\ submits = {} \/ Polling = {}
    /\ submits = {} \/ loads = {}
    /\ Polling = {} \/ loads = {}

FlagsAgree ==
    /\ isSubmitting <=> submits # {}
    /\ isPolling <=> Polling # {}
    /\ isLoadingResult <=> loads # {}

\* A poller that is cancelled was over before.
CancelledIsOver == \A j \in Submissions : pollers[j].cancelled => pollers[j].at = "over"

\* Who polls asks about a job that exists.
PolledExists == \A j \in Polling : server[j] # "none"

\* While something is outstanding no result is shown, and a load is of a completed job.
ResultAgrees ==
    /\ result # None => submits = {} /\ Polling = {} /\ loads = {}
    /\ loads # {} => jobStatus = [job |-> jobId, status |-> "completed"]
    /\ ResultIsOfTheJobShown

IInv ==
    /\ TypeOK
    /\ OneAtATime
    /\ FlagsAgree
    /\ CancelledIsOver
    /\ PolledExists
    /\ ResultAgrees

Poller == [at : {"over", "request", "timer"}, polls : 0..MAX_POLLS, cancelled : BOOLEAN]

-----------------------------------------------------------------------------
\* A failure is shown by a code of the list.
LEMMA ErrorIsCode == \A k \in Failures : ErrorCode(k) \in ErrorCodes
BY BoundsAssumption DEF ErrorCodes

\* An empty store.
LEMMA InitInv == Init => IInv
<1> SUFFICES ASSUME Init PROVE IInv
  OBVIOUS
<1>1. Polling = {}
  BY DEF Init, Polling, Live, Idle
<1>2. TypeOK
  <2>1. Idle \in Poller /\ 0 \in 0..MAX_SUBMITS
    BY BoundsAssumption DEF Idle, Poller
  <2>2. pollers \in [Submissions -> Poller]
    BY <2>1 DEF Init
  <2>3. QED
    BY <2>1, <2>2 DEF Init, TypeOK, Poller, ServerStatuses
<1>3. QED
  BY <1>1, <1>2
  DEF Init, IInv, OneAtATime, FlagsAgree, CancelledIsOver, PolledExists, ResultAgrees,
      ResultIsOfTheJobShown, Idle

\* What reset() clears while nothing is outstanding: no poller that lives is touched.
LEMMA ClearKeeps ==
    ASSUME IInv, Clear, ~isActive
    PROVE  /\ submits = {} /\ Polling = {} /\ loads = {} /\ Polling' = {}
           /\ pollers' \in [Submissions -> Poller]
           /\ CancelledIsOver'
<1>1. submits = {} /\ Polling = {} /\ loads = {}
  BY DEF IInv, FlagsAgree, isActive, selectIsActive
<1>2. ASSUME NEW j \in Submissions
      PROVE  /\ pollers[j] \in Poller /\ pollers[j].at = "over"
             /\ Cancelled(pollers[j]) \in Poller /\ Cancelled(pollers[j]).at = "over"
  <2>1. pollers[j] \in Poller /\ pollers[j].at = "over"
    BY <1>1 DEF IInv, TypeOK, CancelledIsOver, Polling, Live, Poller
  <2>2. QED
    BY <2>1 DEF Cancelled, Poller
<1>3. \A j \in Submissions : pollers'[j] \in Poller /\ pollers'[j].at = "over"
  BY <1>2 DEF Clear, IInv, TypeOK
<1>4. pollers' \in [Submissions -> Poller]
  BY <1>3 DEF Clear, IInv, TypeOK
<1>5. Polling' = {}
  BY <1>3 DEF Polling, Live
<1>6. QED
  BY <1>1, <1>3, <1>4, <1>5 DEF CancelledIsOver

\* A submission starts when nothing is outstanding.
LEMMA GenerateInv == ASSUME IInv, Generate PROVE IInv'
<1>1. Clear /\ ~isActive
  BY DEF Generate, Busy
<1>2. submits = {} /\ loads = {} /\ Polling' = {} /\ pollers' \in [Submissions -> Poller]
      /\ CancelledIsOver'
  BY <1>1, ClearKeeps
<1>3. submitted' = submitted + 1 /\ submits' = {submitted'} /\ submitted' \in Submissions
  BY <1>2, BoundsAssumption DEF Generate, IInv, TypeOK, Submissions
<1>4. TypeOK'
  <2>1. submitted' \in 0..MAX_SUBMITS
    BY <1>3, BoundsAssumption DEF Submissions
  <2>2. submits' \subseteq Submissions
    BY <1>3
  <2>3. QED
    BY <1>2, <2>1, <2>2 DEF IInv, TypeOK, Generate, Clear, Poller
<1>5. QED
  BY <1>2, <1>3, <1>4
  DEF IInv, Generate, Clear, OneAtATime, FlagsAgree, PolledExists, ResultAgrees,
      ResultIsOfTheJobShown

\* Nor is anything when the panel is reset.
LEMMA ResetInv == ASSUME IInv, Reset PROVE IInv'
<1>1. Clear /\ ~isActive
  BY DEF Reset
<1>2. submits = {} /\ loads = {} /\ Polling' = {} /\ pollers' \in [Submissions -> Poller]
      /\ CancelledIsOver'
  BY <1>1, ClearKeeps
<1>3. TypeOK'
  BY <1>2 DEF IInv, TypeOK, Reset, Clear, Poller
<1>4. QED
  BY <1>2, <1>3
  DEF IInv, Reset, Clear, OneAtATime, FlagsAgree, PolledExists, ResultAgrees,
      ResultIsOfTheJobShown

\* The error shown is nothing the other variables depend on.
LEMMA ClearErrorInv == ASSUME IInv, ClearError PROVE IInv'
<1>1. Polling' = Polling
  BY DEF ClearError, Polling
<1>2. QED
  BY <1>1
  DEF IInv, ClearError, TypeOK, OneAtATime, FlagsAgree, CancelledIsOver, PolledExists,
      ResultAgrees, ResultIsOfTheJobShown

\* A job that is created exists.
LEMMA CreateInv == ASSUME IInv, NEW n \in Submissions, Create(n) PROVE IInv'
<1>1. Polling' = Polling
  BY DEF Create, Polling
<1>2. TypeOK'
  BY DEF IInv, TypeOK, Create, store, ServerStatuses
<1>3. \A j \in Submissions : server[j] # "none" => server'[j] # "none"
  BY DEF IInv, TypeOK, Create
<1>4. PolledExists'
  BY <1>1, <1>3 DEF IInv, PolledExists, Polling
<1>5. QED
  BY <1>1, <1>2, <1>4
  DEF IInv, Create, store, OneAtATime, FlagsAgree, CancelledIsOver, ResultAgrees,
      ResultIsOfTheJobShown

\* The answer of the only submission starts the only poller.
LEMMA SubmitAnsweredInv == ASSUME IInv, NEW n \in Submissions, SubmitAnswered(n) PROVE IInv'
<1>1. n = submitted /\ submits = {n} /\ Polling = {} /\ loads = {} /\ submits' = {}
      /\ result = None
  BY DEF IInv, OneAtATime, SubmitAnswered, ResultAgrees
<1>2. pollers'[n] = [at |-> "request", polls |-> 1, cancelled |-> FALSE]
      /\ \A j \in Submissions \ {n} : pollers'[j] = pollers[j]
  BY DEF IInv, TypeOK, SubmitAnswered
<1>3. Polling' = {n}
  BY <1>1, <1>2 DEF Polling, Live
<1>4. TypeOK'
  <2>1. pollers'[n] \in Poller
    BY <1>2, BoundsAssumption DEF Poller
  <2>2. pollers' \in [Submissions -> Poller]
    BY <1>2, <2>1 DEF IInv, TypeOK, SubmitAnswered, Poller
  <2>3. jobStatus' = [job |-> n, status |-> "pending"]
        /\ jobStatus' \in [job : Submissions, status : ServerStatuses \ {"none"}]
    BY DEF SubmitAnswered, ServerStatuses
  <2>4. QED
    BY <1>1, <2>2, <2>3 DEF IInv, TypeOK, SubmitAnswered, Poller
<1>5. CancelledIsOver'
  BY <1>2 DEF IInv, CancelledIsOver
<1>6. QED
  BY <1>1, <1>3, <1>4, <1>5
  DEF IInv, SubmitAnswered, OneAtATime, FlagsAgree, PolledExists, ResultAgrees,
      ResultIsOfTheJobShown

\* A refused submission leaves nothing outstanding.
LEMMA SubmitFailedInv == ASSUME IInv, NEW n \in Submissions, SubmitFailed(n) PROVE IInv'
<1>1. submits' = {} /\ Polling' = Polling
  BY DEF IInv, OneAtATime, SubmitFailed, Polling
<1>2. error' \in ErrorCodes
  BY ErrorIsCode DEF SubmitFailed
<1>3. TypeOK'
  BY <1>1, <1>2 DEF IInv, TypeOK, SubmitFailed
<1>4. QED
  BY <1>1, <1>3
  DEF IInv, SubmitFailed, OneAtATime, FlagsAgree, CancelledIsOver, PolledExists,
      ResultAgrees, ResultIsOfTheJobShown

\* Who waits for an answer or for the timer is the poller of the job shown.
LEMMA OnlyPoller ==
    ASSUME IInv, NEW j \in Submissions, pollers[j].at # "over"
    PROVE  /\ ~pollers[j].cancelled /\ j = jobId /\ Polling = {j}
           /\ submits = {} /\ loads = {} /\ result = None
           /\ isPolling /\ ~isSubmitting /\ ~isLoadingResult /\ server[j] # "none"
<1>1. j \in Polling
  BY DEF IInv, CancelledIsOver, Polling, Live, TypeOK
<1>2. QED
  BY <1>1 DEF IInv, OneAtATime, FlagsAgree, PolledExists, ResultAgrees, CancelledIsOver, TypeOK

\* What a step at one poller leaves of the set of those that live.
LEMMA PollingAfter ==
    ASSUME IInv, NEW j \in Submissions, Polling = {j}, NEW p \in Poller,
           pollers' = [pollers EXCEPT ![j] = p], ~p.cancelled
    PROVE  /\ Polling' = IF p.at = "over" THEN {} ELSE {j}
           /\ pollers' \in [Submissions -> Poller]
           /\ CancelledIsOver'
<1>1. pollers'[j] = p /\ \A i \in Submissions \ {j} : pollers'[i] = pollers[i]
  BY DEF IInv, TypeOK
<1>2. \A i \in Submissions \ {j} : ~Live(pollers[i])
  BY DEF Polling
<1>3. Polling' = IF p.at = "over" THEN {} ELSE {j}
  BY <1>1, <1>2 DEF Polling, Live
<1>4. pollers' \in [Submissions -> Poller]
  BY DEF IInv, TypeOK, Poller
<1>5. CancelledIsOver'
  BY <1>1 DEF IInv, CancelledIsOver
<1>6. QED
  BY <1>3, <1>4, <1>5

\* An answer keeps the poller, or ends it; if the job is completed the load takes over.
LEMMA PollAnsweredInv == ASSUME IInv, NEW j \in Submissions, PollAnswered(j) PROVE IInv'
<1> DEFINE status == server[j]
           p == [pollers[j] EXCEPT !.at = IF Ends(status) THEN "over" ELSE "timer"]
<1>1. /\ ~pollers[j].cancelled /\ j = jobId /\ Polling = {j}
      /\ submits = {} /\ loads = {} /\ result = None
      /\ isPolling /\ ~isSubmitting /\ ~isLoadingResult /\ status # "none"
  BY OnlyPoller DEF PollAnswered
<1>2. /\ jobStatus' = [job |-> j, status |-> status]
      /\ isPolling' = IF Ends(status) THEN FALSE ELSE isPolling
      /\ loads' = IF status = "completed" THEN {j} ELSE {}
      /\ isLoadingResult' = IF status = "completed" THEN TRUE ELSE isLoadingResult
      /\ error' \in {"JOB_FAILED", "JOB_CANCELLED", error}
      /\ UNCHANGED <<jobId, isSubmitting, result, _cancelPoll, submits, submitted, server>>
  BY <1>1 DEF PollAnswered
<1>3. p \in Poller /\ ~p.cancelled /\ pollers' = [pollers EXCEPT ![j] = p]
  BY <1>1 DEF PollAnswered, At, IInv, TypeOK, Poller
<1>4. Polling' = (IF p.at = "over" THEN {} ELSE {j}) /\ pollers' \in [Submissions -> Poller]
      /\ CancelledIsOver'
  BY <1>1, <1>3, PollingAfter
<1>5. p.at = IF Ends(status) THEN "over" ELSE "timer"
  BY DEF IInv, TypeOK
<1>6. TypeOK'
  BY <1>1, <1>2, <1>4 DEF IInv, TypeOK, Poller, ErrorCodes
<1>7. status = "completed" => Ends(status)
  BY DEF Ends, TERMINAL_STATES
<1>8. QED
  BY <1>1, <1>2, <1>4, <1>5, <1>6, <1>7
  DEF IInv, OneAtATime, FlagsAgree, PolledExists, ResultAgrees, ResultIsOfTheJobShown

\* A poll that fails ends the poller.
LEMMA PollFailedInv == ASSUME IInv, NEW j \in Submissions, PollFailed(j) PROVE IInv'
<1> DEFINE p == [pollers[j] EXCEPT !.at = "over"]
<1>1. /\ ~pollers[j].cancelled /\ j = jobId /\ Polling = {j}
      /\ submits = {} /\ loads = {} /\ result = None
      /\ isPolling /\ ~isSubmitting /\ ~isLoadingResult
  BY OnlyPoller DEF PollFailed
<1>2. isPolling' = FALSE /\ error' \in ErrorCodes
  BY <1>1, ErrorIsCode DEF PollFailed
<1>3. p \in Poller /\ ~p.cancelled /\ p.at = "over" /\ pollers' = [pollers EXCEPT ![j] = p]
  BY <1>1 DEF PollFailed, At, IInv, TypeOK, Poller
<1>4. Polling' = {} /\ pollers' \in [Submissions -> Poller] /\ CancelledIsOver'
  BY <1>1, <1>3, PollingAfter
<1>5. TypeOK'
  BY <1>2, <1>4 DEF IInv, TypeOK, Poller, PollFailed
<1>6. QED
  BY <1>1, <1>2, <1>4, <1>5
  DEF IInv, PollFailed, OneAtATime, FlagsAgree, PolledExists, ResultAgrees,
      ResultIsOfTheJobShown

\* The timer gives the polling up, or polls again.
LEMMA TimerInv == ASSUME IInv, NEW j \in Submissions, Timer(j) PROVE IInv'
<1>1. /\ ~pollers[j].cancelled /\ j = jobId /\ Polling = {j}
      /\ submits = {} /\ loads = {} /\ result = None
      /\ isPolling /\ ~isSubmitting /\ ~isLoadingResult /\ server[j] # "none"
  BY OnlyPoller DEF Timer
<1>2. CASE isPolling' = FALSE /\ error' = "POLL_TIMEOUT" /\ At(j, "over")
  <2> DEFINE p == [pollers[j] EXCEPT !.at = "over"]
  <2>1. p \in Poller /\ ~p.cancelled /\ p.at = "over" /\ pollers' = [pollers EXCEPT ![j] = p]
    BY <1>1, <1>2 DEF At, IInv, TypeOK, Poller
  <2>2. Polling' = {} /\ pollers' \in [Submissions -> Poller] /\ CancelledIsOver'
    BY <1>1, <2>1, PollingAfter
  <2>3. TypeOK'
    BY <1>2, <2>2 DEF IInv, TypeOK, Poller, Timer, ErrorCodes
  <2>4. QED
    BY <1>1, <1>2, <2>2, <2>3
    DEF IInv, Timer, OneAtATime, FlagsAgree, PolledExists, ResultAgrees,
        ResultIsOfTheJobShown
<1>3. CASE /\ pollers[j].polls < MAX_POLLS
           /\ pollers' = [pollers EXCEPT ![j].at = "request", ![j].polls = @ + 1]
           /\ UNCHANGED <<isPolling, error>>
  <2> DEFINE p == [pollers[j] EXCEPT !.at = "request", !.polls = @ + 1]
  <2>1. p \in Poller /\ ~p.cancelled /\ p.at = "request" /\ pollers' = [pollers EXCEPT ![j] = p]
    BY <1>1, <1>3, BoundsAssumption DEF IInv, TypeOK, Poller
  <2>2. Polling' = {j} /\ pollers' \in [Submissions -> Poller] /\ CancelledIsOver'
    BY <1>1, <2>1, PollingAfter
  <2>3. TypeOK'
    BY <1>3, <2>2 DEF IInv, TypeOK, Poller, Timer
  <2>4. QED
    BY <1>1, <1>3, <2>2, <2>3
    DEF IInv, Timer, OneAtATime, FlagsAgree, PolledExists, ResultAgrees,
        ResultIsOfTheJobShown
<1>4. QED
  BY <1>2, <1>3 DEF Timer

\* The only load is of the job shown, which is completed.
LEMMA LoadedInv == ASSUME IInv, NEW j \in Submissions, Loaded(j) PROVE IInv'
<1>1. /\ j = jobId /\ loads' = {} /\ submits = {} /\ Polling = {} /\ Polling' = {}
      /\ jobStatus = [job |-> j, status |-> "completed"] /\ result = None
  BY DEF IInv, OneAtATime, Loaded, ResultAgrees, Polling
<1>2. error' \in ErrorCodes \cup {error} /\ result' \in {None, j}
  BY <1>1, ErrorIsCode DEF Loaded
<1>3. TypeOK'
  BY <1>1, <1>2 DEF IInv, TypeOK, Loaded
<1>4. QED
  BY <1>1, <1>2, <1>3
  DEF IInv, Loaded, OneAtATime, FlagsAgree, CancelledIsOver, PolledExists, ResultAgrees,
      ResultIsOfTheJobShown

\* A job that exists goes on existing.
LEMMA ServerStepInv == ASSUME IInv, NEW j \in Submissions, ServerStep(j) PROVE IInv'
<1>1. Polling' = Polling
  BY DEF ServerStep, Polling
<1>2. server' \in [Submissions -> ServerStatuses]
      /\ \A i \in Submissions : server[i] # "none" => server'[i] # "none"
  BY DEF IInv, TypeOK, ServerStep, ServerStatuses, TERMINAL_STATES
<1>3. TypeOK'
  BY <1>2 DEF IInv, TypeOK, ServerStep, store
<1>4. PolledExists'
  BY <1>1, <1>2 DEF IInv, PolledExists, Polling
<1>5. QED
  BY <1>1, <1>3, <1>4
  DEF IInv, ServerStep, store, OneAtATime, FlagsAgree, CancelledIsOver, ResultAgrees,
      ResultIsOfTheJobShown

\* Every step keeps the invariant.
LEMMA NextInv == IInv /\ [Next]_vars => IInv'
<1> SUFFICES ASSUME IInv, [Next]_vars PROVE IInv'
  OBVIOUS
<1>1. CASE Generate
  BY <1>1, GenerateInv
<1>2. CASE Reset
  BY <1>2, ResetInv
<1>3. CASE ClearError
  BY <1>3, ClearErrorInv
<1>4. ASSUME NEW j \in Submissions, Create(j) PROVE IInv'
  BY <1>4, CreateInv
<1>5. ASSUME NEW j \in Submissions, Answers(j) PROVE IInv'
  BY <1>5, SubmitAnsweredInv, SubmitFailedInv, PollAnsweredInv, PollFailedInv, LoadedInv
  DEF Answers
<1>6. ASSUME NEW j \in Submissions, Timer(j) PROVE IInv'
  BY <1>6, TimerInv
<1>7. ASSUME NEW j \in Submissions, ServerStep(j) PROVE IInv'
  BY <1>7, ServerStepInv
<1>8. CASE UNCHANGED vars
  <2>1. Polling' = Polling
    BY <1>8 DEF vars, Polling
  <2>2. QED
    BY <1>8, <2>1
    DEF IInv, vars, store, TypeOK, OneAtATime, FlagsAgree, CancelledIsOver, PolledExists,
        ResultAgrees, ResultIsOfTheJobShown
<1>9. QED
  BY <1>1, <1>2, <1>3, <1>4, <1>5, <1>6, <1>7, <1>8 DEF Next

\* The invariant that the theorems rest on.
THEOREM Invariant == Spec => []IInv
BY InitInv, NextInv, PTL DEF Spec

\* Types, for any values of the constants.
THEOREM TypeCorrect == Spec => []TypeOK
<1>1. IInv => TypeOK
  BY DEF IInv
<1>2. QED
  BY <1>1, Invariant, PTL

\* A set within a set of one has at most one element.
LEMMA AtMostOne ==
    ASSUME NEW S, NEW x, S \subseteq {x}
    PROVE  Cardinality(S) \in {0, 1} /\ (S = {} => Cardinality(S) = 0)
<1>1. CASE S = {}
  BY <1>1, FS_EmptySet
<1>2. CASE S = {x}
  BY <1>2, FS_Singleton
<1>3. QED
  BY <1>1, <1>2

\* The flags of the store tell what is outstanding, and that is one thing at most.
THEOREM FlagsAreTrue == Spec => []FlagsTellWhatIsOutstanding
<1>1. ASSUME IInv PROVE FlagsTellWhatIsOutstanding
  <2>1. OneAtATime /\ FlagsAgree
    BY <1>1 DEF IInv
  <2>2. /\ Cardinality(submits) \in {0, 1} /\ (submits = {} => Cardinality(submits) = 0)
        /\ Cardinality(Polling) \in {0, 1} /\ (Polling = {} => Cardinality(Polling) = 0)
        /\ Cardinality(loads) \in {0, 1} /\ (loads = {} => Cardinality(loads) = 0)
    BY <2>1, AtMostOne DEF OneAtATime
  <2>3. Cardinality(submits) + Cardinality(Polling) + Cardinality(loads) <= 1
    BY <2>1, <2>2 DEF OneAtATime
  <2>4. QED
    BY <2>1, <2>3 DEF FlagsTellWhatIsOutstanding, Polling, OneAtATime, FlagsAgree
<1>2. QED
  BY <1>1, Invariant, PTL

\* No answer of an earlier submission is ever shown as the result of the job.
THEOREM ResultsAreOfTheJob == Spec => []ResultIsOfTheJobShown
<1>1. IInv => ResultIsOfTheJobShown
  BY DEF IInv, ResultAgrees
<1>2. QED
  BY <1>1, Invariant, PTL
-----------------------------------------------------------------------------
(* The composition: a behaviour of the flows is one of each of them.         *)

LEMMA FlowsStep ==
    ASSUME [FlowsNext]_flows
    PROVE  /\ [Next]_vars /\ [Page!Next]_(Page!vars)
           /\ [Stream!Next]_(Stream!vars) /\ [Agent!Next]_(Agent!vars)
  <1>1. CASE Next /\ Of("job store", <<historyPage, stream, agents>>)
    BY <1>1 DEF Of, historyPage, stream, agents, Page!vars, Page!list, Page!opened,
                Stream!vars, Agent!vars, Agent!context
  <1>2. CASE Page!Next /\ Of("history page", <<vars, stream, agents>>)
    BY <1>2 DEF Of, stream, agents, Stream!vars, Agent!vars, Agent!context
  <1>3. CASE Stream!Next /\ Of("stream", <<vars, historyPage, agents>>)
    BY <1>3 DEF Of, historyPage, agents, Page!vars, Page!list, Page!opened,
                Agent!vars, Agent!context
  <1>4. CASE Agent!Next /\ Of("agents", <<vars, historyPage, stream>>)
    BY <1>4 DEF Of, historyPage, stream, Page!vars, Page!list, Page!opened, Stream!vars
  <1>5. CASE UNCHANGED flows
    BY <1>5 DEF flows, historyPage, stream, agents, Page!vars, Page!list, Page!opened,
                Stream!vars, Agent!vars, Agent!context
  <1> QED
    BY <1>1, <1>2, <1>3, <1>4, <1>5 DEF FlowsNext

\* Running one of the flows beside the others that rest is running each of them.
THEOREM FlowsAreFlows == FlowsSpec => Spec /\ Page!Spec /\ Stream!Spec /\ Agent!Spec
  <1>1. FlowsInit => Init /\ Page!Init /\ Stream!Init /\ Agent!Init
    BY DEF FlowsInit
  <1>2. [FlowsNext]_flows => /\ [Next]_vars /\ [Page!Next]_(Page!vars)
                             /\ [Stream!Next]_(Stream!vars) /\ [Agent!Next]_(Agent!vars)
    BY FlowsStep
  <1> QED
    BY <1>1, <1>2, PTL DEF FlowsSpec, Spec, Page!Spec, Stream!Spec, Agent!Spec

-----------------------------------------------------------------------------
(* The history page.                                                         *)

\* The rows on show are those of the page that is named, whatever order the answers
\* come in (useHistoryStore.js, fetchHistory).
THEOREM PageShowsItsRows == FlowsSpec => []RowsAreOfThePage
  <1>1. Page!Init => RowsAreOfThePage
    BY DEF Page!Init, RowsAreOfThePage, Page!RowsAreOfThePage
  <1>2. RowsAreOfThePage /\ [Page!Next]_(Page!vars) => RowsAreOfThePage'
    <2> SUFFICES ASSUME RowsAreOfThePage, [Page!Next]_(Page!vars) PROVE RowsAreOfThePage'
      OBVIOUS
    <2> USE DEF RowsAreOfThePage, Page!RowsAreOfThePage
    <2>1. ASSUME NEW p, Page!fetchHistory(p) PROVE RowsAreOfThePage'
      BY <2>1 DEF Page!fetchHistory
    <2>2. CASE Page!Mount \/ Page!refresh \/ \E p \in Pages : Page!setPage(p)
      BY <2>1, <2>2 DEF Page!Mount, Page!refresh, Page!setPage
    <2>3. ASSUME NEW f \in fetches, Page!Fetched(f) \/ Page!FetchFailed(f)
          PROVE  RowsAreOfThePage'
      BY <2>3 DEF Page!Fetched, Page!FetchFailed
    <2>4. CASE \/ \E g \in Rows : Page!handleOpen(g)
               \/ \E l \in opens : Page!Opened(l)
      BY <2>4 DEF Page!handleOpen, Page!Opened, Page!list
    <2>5. CASE UNCHANGED Page!vars
      BY <2>5 DEF Page!vars, Page!list
    <2> QED
      BY <2>2, <2>3, <2>4, <2>5 DEF Page!Next
  <1> QED
    BY <1>1, <1>2, FlowsAreFlows, PTL DEF Page!Spec

-----------------------------------------------------------------------------
(* The stream: while the vendor's stream runs, what was delivered last is what  *)
(* was accumulated, and all of it is the vendor's; a replacement comes whole.  *)

Piece == [delta : Seq(Stream!Generations), accumulated : Seq(Stream!Generations),
          is_final : BOOLEAN]

Delivered == Stream!collect_stream = accumulated

StreamInv ==
    /\ chunks \in Seq(Piece)
    /\ accumulated \in Seq({"native"})
    /\ pc # "ended" => Delivered
    /\ pc = "ended" =>
           /\ chunks # <<>>
           /\ chunks[Len(chunks)].is_final
           /\ Stream!collect_stream \in {accumulated, <<"vendor">>, <<"rerouted">>}

\* What is yielded is what a consumer has collected.
LEMMA YieldCollects ==
    ASSUME chunks \in Seq(Piece), NEW d \in Seq(Stream!Generations),
           NEW text \in Seq(Stream!Generations), NEW final \in BOOLEAN,
           Stream!Yield(d, text, final)
    PROVE  /\ chunks' \in Seq(Piece) /\ chunks' # <<>>
           /\ chunks'[Len(chunks')].is_final = final
           /\ (Stream!collect_stream)' = text
  <1> DEFINE p == [delta |-> d, accumulated |-> text, is_final |-> final]
  <1>1. p \in Piece /\ p.is_final = final /\ p.accumulated = text
    BY DEF Piece
  <1>2. chunks' = Append(chunks, p)
    BY DEF Stream!Yield
  <1> HIDE DEF p
  <1>3. chunks' \in Seq(Piece) /\ chunks' # <<>> /\ chunks'[Len(chunks')] = p
    BY <1>1, <1>2
  <1> QED
    BY <1>1, <1>3 DEF Stream!collect_stream, Stream!Last

LEMMA StreamBegins == Stream!Init => StreamInv
  BY DEF Stream!Init, StreamInv, Delivered, Stream!collect_stream

\* What a step of the stream does to the text that is collected.
LEMMA StreamStep ==
    ASSUME StreamInv, [Stream!Next]_(Stream!vars)
    PROVE  /\ StreamInv'
           /\ \/ \E d \in {<<>>, <<"native">>} :
                     (Stream!collect_stream)' = Stream!collect_stream \o d
              \/ /\ pc' = "ended" /\ Delivered
                 /\ (Stream!collect_stream)' \in {<<"vendor">>, <<"rerouted">>}
  <1>a. chunks \in Seq(Piece) /\ accumulated \in Seq({"native"})
    BY DEF StreamInv
  <1>b. /\ accumulated \in Seq(Stream!Generations) /\ accumulated \o <<>> = accumulated
        /\ \A d \in {<<>>, <<"native">>} :
               /\ d \in Seq(Stream!Generations)
               /\ accumulated \o d \in Seq({"native"})
               /\ accumulated \o d \in Seq(Stream!Generations)
    BY <1>a DEF Stream!Generations
  <1>c. /\ <<"vendor">> \in Seq(Stream!Generations) /\ <<"rerouted">> \in Seq(Stream!Generations)
        /\ <<>> \in Seq(Stream!Generations)
    BY DEF Stream!Generations
  <1>d. Delivered => Stream!collect_stream = Stream!collect_stream \o <<>>
    BY <1>b DEF Delivered
  <1>1. CASE Stream!SelectProvider
    BY <1>1, <1>a, <1>d DEF Stream!SelectProvider, StreamInv, Delivered, Stream!collect_stream
  <1>2. CASE Stream!NativeChunk \/ Stream!FinishChunk
    <2>1. PICK d \in {<<>>, <<"native">>}, final \in BOOLEAN :
              accumulated' = accumulated \o d /\ Stream!Yield(d, accumulated', final)
      BY <1>2 DEF Stream!NativeChunk, Stream!FinishChunk
    <2>2. /\ pc # "ended" /\ pc' # "ended"
      BY <1>2 DEF Stream!NativeChunk, Stream!FinishChunk
    <2>3. chunks' \in Seq(Piece) /\ (Stream!collect_stream)' = accumulated'
      BY <1>a, <1>b, <2>1, YieldCollects
    <2> QED
      BY <1>b, <2>1, <2>2, <2>3 DEF StreamInv, Delivered
  <1>3. CASE Stream!FinalChunk
    <2>1. Stream!Yield(<<>>, accumulated, TRUE) /\ accumulated' = accumulated
      BY <1>3 DEF Stream!FinalChunk
    <2>2. pc # "ended" /\ pc' = "ended"
      BY <1>3 DEF Stream!FinalChunk
    <2>3. /\ chunks' \in Seq(Piece) /\ chunks' # <<>>
          /\ chunks'[Len(chunks')].is_final
          /\ (Stream!collect_stream)' = accumulated
      BY <1>a, <1>b, <1>c, <2>1, YieldCollects
    <2> QED
      BY <1>a, <1>b, <2>1, <2>2, <2>3 DEF StreamInv, Delivered
  <1>4. ASSUME NEW g \in {"vendor", "rerouted"}, Stream!WholeResponse(accumulated, g),
               pc # "ended", pc' = "ended", accumulated' = accumulated
        PROVE  /\ StreamInv'
               /\ pc' = "ended" /\ Delivered
               /\ (Stream!collect_stream)' \in {<<"vendor">>, <<"rerouted">>}
    <2>1. /\ chunks' \in Seq(Piece) /\ chunks' # <<>>
          /\ chunks'[Len(chunks')].is_final
          /\ (Stream!collect_stream)' = <<g>>
      BY <1>4, <1>a, <1>c, YieldCollects DEF Stream!WholeResponse
    <2> QED
      BY <1>4, <1>a, <2>1 DEF StreamInv
  <1>5. CASE Stream!VendorGenerates
    BY <1>4, <1>5 DEF Stream!VendorGenerates
  <1>6. CASE Stream!Reroute /\ Stream!WholeResponse(accumulated, "rerouted") /\ pc' = "ended"
    BY <1>4, <1>6 DEF Stream!Reroute
  <1>7. CASE \/ Stream!StreamBreaks \/ Stream!VendorRaises \/ Stream!Close
             \/ Stream!Reroute /\ UNCHANGED chunks /\ pc' = "failed"
    <2>1. /\ pc # "ended" /\ pc' # "ended"
          /\ UNCHANGED <<accumulated, chunks>>
      BY <1>7 DEF Stream!StreamBreaks, Stream!VendorRaises, Stream!Close, Stream!Reroute
    <2> QED
      BY <1>a, <1>d, <2>1 DEF StreamInv, Delivered, Stream!collect_stream
  <1>8. CASE UNCHANGED Stream!vars
    <2>1. UNCHANGED <<pc, accumulated, chunks>>
      BY <1>8 DEF Stream!vars
    <2>2. Stream!collect_stream \in Seq(Stream!Generations)
      BY <1>a, <1>b, <1>c DEF StreamInv, Delivered
    <2>3. Stream!collect_stream = Stream!collect_stream \o <<>>
      BY <2>2
    <2>4. (Stream!collect_stream)' = Stream!collect_stream
      BY <2>1 DEF Stream!collect_stream
    <2> QED
      BY <2>1, <2>3, <2>4 DEF StreamInv, Delivered
  <1> QED
    BY <1>1, <1>2, <1>3, <1>5, <1>6, <1>7, <1>8
    DEF Stream!Next, Stream!Advance, Stream!Done, Stream!Reroute

\* What a stream has delivered and what it has accumulated stay in step.
THEOREM StreamInvariant == FlowsSpec => []StreamInv
  <1>1. StreamInv /\ [Stream!Next]_(Stream!vars) => StreamInv'
    BY StreamStep
  <1> QED
    BY <1>1, StreamBegins, FlowsAreFlows, PTL DEF Stream!Spec

\* Who collects a stream that ended has the text of one generation, all of it
\* (streaming.py, collect_stream; the vendors' stream_generate).
THEOREM StreamIsOneAnswer == FlowsSpec => []CollectsOneAnswer
  <1>1. ASSUME StreamInv
        PROVE  CollectsOneAnswer
    <2> SUFFICES ASSUME pc = "ended"
                 PROVE  /\ chunks # <<>>
                        /\ Stream!Last(chunks).is_final
                        /\ Stream!collect_stream \in {accumulated, <<"vendor">>, <<"rerouted">>}
                        /\ \A i, k \in DOMAIN Stream!collect_stream :
                               Stream!collect_stream[i] = Stream!collect_stream[k]
      BY DEF CollectsOneAnswer, Stream!CollectsOneAnswer
    <2>1. /\ chunks # <<>> /\ Stream!Last(chunks).is_final
          /\ Stream!collect_stream \in {accumulated, <<"vendor">>, <<"rerouted">>}
      BY <1>1 DEF StreamInv, Stream!Last
    <2>2. ASSUME NEW text \in {accumulated, <<"vendor">>, <<"rerouted">>}
          PROVE  \A i, k \in DOMAIN text : text[i] = text[k]
      <3>1. CASE text = accumulated
        <4>1. \A i \in DOMAIN accumulated : accumulated[i] = "native"
          BY <1>1 DEF StreamInv
        <4> QED
          BY <3>1, <4>1
      <3>2. CASE text = <<"vendor">> \/ text = <<"rerouted">>
        BY <3>2
      <3> QED
        BY <3>1, <3>2
    <2> QED
      BY <2>1, <2>2
  <1> QED
    BY <1>1, StreamInvariant, PTL

\* Delivered text is only ever added to, or replaced as a whole at the end.
THEOREM StreamGrowsOrRestarts == FlowsSpec => TextGrowsOrRestarts
  <1> DEFINE text == Stream!collect_stream
             Step == \/ Stream!IsPrefix(text, text')
                     \/ /\ pc' = "ended"
                        /\ Len(text') = 1
                        /\ ~Stream!Contains(text, Head(text'))
  <1>1. ASSUME StreamInv, [Stream!Next]_(Stream!vars)
        PROVE  Step
    <2>1. CASE \E d \in {<<>>, <<"native">>} : text' = text \o d
      <3>1. PICK d \in {<<>>, <<"native">>} : text' = text \o d
        BY <2>1
      <3>2. text \in Seq({"native", "vendor", "rerouted"}) /\ d \in Seq({"native", "vendor", "rerouted"})
        <4>1. accumulated \in Seq({"native", "vendor", "rerouted"})
          BY <1>1 DEF StreamInv
        <4>2. text \in {accumulated, <<"vendor">>, <<"rerouted">>}
          BY <1>1 DEF StreamInv, Delivered
        <4>3. /\ <<"vendor">> \in Seq({"native", "vendor", "rerouted"})
              /\ <<"rerouted">> \in Seq({"native", "vendor", "rerouted"})
          OBVIOUS
        <4>4. /\ <<>> \in Seq({"native", "vendor", "rerouted"})
              /\ <<"native">> \in Seq({"native", "vendor", "rerouted"})
          OBVIOUS
        <4> HIDE DEF text
        <4> QED
          BY <3>1, <4>1, <4>2, <4>3, <4>4
      <3> HIDE DEF text
      <3>3. /\ Len(text) <= Len(text \o d)
            /\ SubSeq(text, 1, Len(text)) = SubSeq(text \o d, 1, Len(text))
        BY <3>2
      <3>4. Stream!IsPrefix(text, text \o d)
        BY <3>3 DEF Stream!IsPrefix
      <3> QED
        BY <3>1, <3>4
    <2>2. CASE pc' = "ended" /\ Delivered /\ text' \in {<<"vendor">>, <<"rerouted">>}
      <3>1. text = accumulated /\ accumulated \in Seq({"native"})
        BY <1>1, <2>2 DEF Delivered, StreamInv
      <3>2. Len(text') = 1 /\ Head(text') \in {"vendor", "rerouted"}
        BY <2>2
      <3>3. \A i \in 1..Len(text) : text[i] = "native"
        BY <3>1
      <3>4. ~Stream!Contains(text, Head(text'))
        BY <3>2, <3>3 DEF Stream!Contains
      <3> QED
        BY <2>2, <3>2, <3>4
    <2> QED
      BY <1>1, <2>1, <2>2, StreamStep
  <1>2. StreamInv /\ [Stream!Next]_(Stream!vars) => [Step]_(Stream!vars)
    BY <1>1
  <1> QED
    BY <1>2, StreamInvariant, FlowsAreFlows, PTL
    DEF Stream!Spec, TextGrowsOrRestarts, Stream!TextGrowsOrRestarts

-----------------------------------------------------------------------------
(* The agents' request.  First what the mapper of a repair makes of tests and   *)
(* entries: names stay distinct, no name is lost and every change is accounted.  *)

KeepsEachOnce(s, I) ==
    \E m \in Nat : \E f \in [1..m -> I] :
        /\ Agent!Kept(s, I) = [n \in 1..m |-> s[f[n]]]
        /\ \A n, k \in 1..m : f[n] = f[k] => n = k
        /\ \A i \in I : \E n \in 1..m : f[n] = i

\* Elements are kept in a sequence of their own: each of them once.
LEMMA KeptAreThose ==
    ASSUME NEW T, NEW s \in Seq(T), NEW I \in SUBSET (DOMAIN s)
    PROVE  KeepsEachOnce(s, I)
  <1> DEFINE m == Cardinality(I)
             Upto(i) == {k \in I : k <= i}
             pos == [i \in I |-> Cardinality(Upto(i))]
             f == [n \in 1..m |-> CHOOSE i \in I : Cardinality(Upto(i)) = n]
  <1>1. IsFiniteSet(I) /\ m \in Nat /\ I \subseteq Nat
    <2>1. DOMAIN s = 1..Len(s) /\ Len(s) \in Nat
      OBVIOUS
    <2>2. IsFiniteSet(1..Len(s))
      BY <2>1, FS_Interval
    <2>3. IsFiniteSet(I)
      BY <2>1, <2>2, FS_Subset
    <2> QED
      BY <2>1, <2>3, FS_CardinalityType
  <1>2. \A i \in I : IsFiniteSet(Upto(i)) /\ Cardinality(Upto(i)) \in 1..m
    <2> SUFFICES ASSUME NEW i \in I
                 PROVE  IsFiniteSet(Upto(i)) /\ Cardinality(Upto(i)) \in 1..m
      OBVIOUS
    <2>1. Upto(i) \in SUBSET I /\ i \in Upto(i)
      BY <1>1
    <2>2. IsFiniteSet(Upto(i)) /\ Cardinality(Upto(i)) <= m
      BY <1>1, <2>1, FS_Subset
    <2>3. Cardinality(Upto(i)) \in Nat /\ Cardinality(Upto(i)) # 0
      BY <2>1, <2>2, FS_CardinalityType, FS_EmptySet
    <2> QED
      BY <1>1, <2>2, <2>3
  <1>3. \A i, k \in I : Cardinality(Upto(i)) = Cardinality(Upto(k)) => i = k
    <2>1. ASSUME NEW i \in I, NEW k \in I, i < k
          PROVE  Cardinality(Upto(i)) # Cardinality(Upto(k))
      <3>1. Upto(i) \in SUBSET Upto(k) /\ Upto(i) # Upto(k)
        <4>1. k \in Upto(k) /\ k \notin Upto(i) /\ Upto(i) \subseteq Upto(k)
          BY <1>1, <2>1
        <4> QED
          BY <4>1
      <3> QED
        BY <1>2, <3>1, FS_Subset
    <2>2. \A i, k \in I : i = k \/ i < k \/ k < i
      BY <1>1
    <2> HIDE DEF Upto
    <2> QED
      BY <2>1, <2>2
  <1>4. \A n \in 1..m : \E i \in I : Cardinality(Upto(i)) = n
    <2> HIDE DEF m, Upto
    <2>1. pos \in Injection(I, 1..m)
      BY <1>2, <1>3 DEF Injection, IsInjective
    <2>2. IsFiniteSet(1..m) /\ Cardinality(1..m) = m
      BY <1>1, FS_Interval
    <2> HIDE DEF pos
    <2>3. pos \in Surjection(I, 1..m)
      BY <1>1, <2>1, <2>2, FS_Injection DEF m
    <2>4. \A n \in 1..m : \E i \in I : pos[i] = n
      BY <2>3 DEF Surjection
    <2> QED
      BY <2>4 DEF pos
  <1>5. \A n \in 1..m : f[n] \in I /\ Cardinality(Upto(f[n])) = n
    <2> HIDE DEF m, Upto
    <2> QED
      BY <1>4
  <1>6. Agent!Kept(s, I) = [n \in 1..m |-> s[f[n]]]
    <2>1. \A n \in 1..m : f[n] = CHOOSE i \in I : Cardinality({k \in I : k <= i}) = n
      OBVIOUS
    <2>2. Agent!Kept(s, I)
              = [n \in 1..m |-> s[CHOOSE i \in I : Cardinality({k \in I : k <= i}) = n]]
      BY DEF Agent!Kept, Agent!Cardinality, Cardinality
    <2> HIDE DEF f, m
    <2> QED
      BY <2>1, <2>2
  <1> HIDE DEF f, m, Upto
  <1>7. f \in [1..m -> I]
    BY <1>5 DEF f
  <1>8. \A n, k \in 1..m : f[n] = f[k] => n = k
    BY <1>5
  <1>9. \A i \in I : \E n \in 1..m : f[n] = i
    BY <1>2, <1>3, <1>5
  <1> QED
    BY <1>1, <1>6, <1>7, <1>8, <1>9 DEF KeepsEachOnce

Distinct(s) == \A i, k \in DOMAIN s : s[i].name = s[k].name => i = k

\* A test of the result is one of the old, or logged with what it replaced.
Accounted(t, old, log) ==
    \/ t \in Agent!Range(old)
    \/ \E h \in Agent!Range(log) :
           /\ h.repaired = t
           /\ IF Agent!Named(old, t.name) = {} THEN h.original = None
              ELSE h.original \in Agent!Named(old, t.name)

Action == [original : Agent!Test \cup {None}, repaired : Agent!Test]

\* The positions in a sequence that consists of two.
LEMMA Joined ==
    ASSUME NEW T, NEW p \in Seq(T), NEW q \in Seq(T)
    PROVE  /\ p \o q \in Seq(T)
           /\ Len(p \o q) = Len(p) + Len(q)
           /\ \A i \in DOMAIN p : i \in DOMAIN (p \o q) /\ (p \o q)[i] = p[i]
           /\ \A i \in DOMAIN q : /\ Len(p) + i \in DOMAIN (p \o q)
                                  /\ (p \o q)[Len(p) + i] = q[i]
           /\ \A i \in DOMAIN (p \o q) :
                  i \in DOMAIN p \/ \E k \in DOMAIN q : i = Len(p) + k
  <1>1. DOMAIN p = 1..Len(p) /\ DOMAIN q = 1..Len(q) /\ Len(p) \in Nat /\ Len(q) \in Nat
    OBVIOUS
  <1>2. p \o q \in Seq(T) /\ Len(p \o q) = Len(p) + Len(q)
    OBVIOUS
  <1>3. DOMAIN (p \o q) = 1..(Len(p) + Len(q))
    BY <1>1, <1>2
  <1>4. \A i \in DOMAIN p : i \in DOMAIN (p \o q) /\ (p \o q)[i] = p[i]
    BY <1>1, <1>3
  <1>5. \A i \in DOMAIN q : Len(p) + i \in DOMAIN (p \o q) /\ (p \o q)[Len(p) + i] = q[i]
    BY <1>1, <1>3
  <1>6. ASSUME NEW i \in DOMAIN (p \o q), i \notin DOMAIN p
        PROVE  \E k \in DOMAIN q : i = Len(p) + k
    <2>1. i - Len(p) \in DOMAIN q /\ i = Len(p) + (i - Len(p))
      BY <1>1, <1>3, <1>6
    <2> QED
      BY <2>1
  <1> QED
    BY <1>2, <1>4, <1>5, <1>6

\* Entries of a valid answer are tests.
LEMMA ValidAreTests ==
    ASSUME NEW body \in Agent!Bodies, Agent!Valid(body)
    PROVE  body \in Seq(Agent!Test) /\ Distinct(body) /\ body # <<>>
  <1>1. PICK n \in 0..MAX_TESTS : body \in [1..n -> Agent!Entry]
    BY DEF Agent!Bodies
  <1>2. \A i \in 1..n : body[i] \in Agent!Test
    BY <1>1 DEF Agent!Valid, Agent!Entry, Agent!Test
  <1>3. n \in Nat /\ body \in [1..n -> Agent!Test]
    BY <1>1, <1>2, FlowsAssumption DEF Agent!PipelineAssumption
  <1>4. body \in Seq(Agent!Test)
    BY <1>3
  <1> QED
    BY <1>4 DEF Agent!Valid, Distinct

LEMMA RepairAccounts ==
    ASSUME NEW old \in Seq(Agent!Test), NEW body \in Seq(Agent!Test),
           Distinct(old), Distinct(body), body # <<>>
    PROVE  /\ Agent!Repaired(old, body) \in Seq(Agent!Test)
           /\ Distinct(Agent!Repaired(old, body))
           /\ \A i \in DOMAIN old : \E k \in DOMAIN Agent!Repaired(old, body) :
                  Agent!Repaired(old, body)[k].name = old[i].name
           /\ Agent!RepairActions(old, body) \in Seq(Action)
           /\ Agent!RepairActions(old, body) # <<>>
           /\ \A i \in DOMAIN Agent!Repaired(old, body) :
                  Accounted(Agent!Repaired(old, body)[i], old, Agent!RepairActions(old, body))
  <1> DEFINE met == Agent!Met(old, body)
             new == Agent!New(old, body)
             p == [i \in DOMAIN old |-> IF i \in met
                                        THEN Agent!Replacement(body, old[i]) ELSE old[i]]
             q == Agent!Kept(body, new)
             was == Agent!Kept(old, met)
             pa == [i \in DOMAIN was |-> [original |-> was[i],
                                          repaired |-> Agent!Replacement(body, was[i])]]
             qa == [i \in DOMAIN q |-> [original |-> None, repaired |-> q[i]]]
             R == Agent!Repaired(old, body)
             H == Agent!RepairActions(old, body)
  <1>1. R = p \o q /\ H = pa \o qa
    BY DEF Agent!Repaired, Agent!RepairActions
  <1>2. /\ met \in SUBSET (DOMAIN old) /\ new \in SUBSET (DOMAIN body)
        /\ \A i \in DOMAIN old : i \in met <=> \E k \in DOMAIN body : body[k].name = old[i].name
        /\ \A k \in DOMAIN body : k \in new <=> \A i \in DOMAIN old : old[i].name # body[k].name
    BY DEF Agent!Met, Agent!New, Agent!Named, Agent!Range
  <1>3. \A i \in met : /\ Agent!Replacement(body, old[i]) \in Agent!Test
                       /\ Agent!Replacement(body, old[i]).name = old[i].name
    BY DEF Agent!Met, Agent!Replacement, Agent!Named, Agent!Range
  <1>4. PICK m \in Nat : \E f \in [1..m -> new] :
            /\ q = [n \in 1..m |-> body[f[n]]]
            /\ \A n, k \in 1..m : f[n] = f[k] => n = k
            /\ \A i \in new : \E n \in 1..m : f[n] = i
    <2>1. KeepsEachOnce(body, new)
      BY <1>2, KeptAreThose
    <2> QED
      BY <2>1 DEF KeepsEachOnce
  <1>5. PICK f \in [1..m -> new] :
            /\ q = [n \in 1..m |-> body[f[n]]]
            /\ \A n, k \in 1..m : f[n] = f[k] => n = k
            /\ \A i \in new : \E n \in 1..m : f[n] = i
    BY <1>4
  <1>6. PICK l \in Nat : \E g \in [1..l -> met] :
            /\ was = [n \in 1..l |-> old[g[n]]]
            /\ \A n, k \in 1..l : g[n] = g[k] => n = k
            /\ \A i \in met : \E n \in 1..l : g[n] = i
    <2>1. KeepsEachOnce(old, met)
      BY <1>2, KeptAreThose
    <2> QED
      BY <2>1 DEF KeepsEachOnce
  <1>7. PICK g \in [1..l -> met] :
            /\ was = [n \in 1..l |-> old[g[n]]]
            /\ \A n, k \in 1..l : g[n] = g[k] => n = k
            /\ \A i \in met : \E n \in 1..l : g[n] = i
    BY <1>6
  <1>8. /\ p \in Seq(Agent!Test) /\ DOMAIN p = DOMAIN old
        /\ \A i \in DOMAIN p : p[i].name = old[i].name
    <2>1. \A i \in DOMAIN old : p[i] \in Agent!Test /\ p[i].name = old[i].name
      BY <1>3
    <2>2. DOMAIN old = 1..Len(old) /\ Len(old) \in Nat
      OBVIOUS
    <2> QED
      BY <2>1, <2>2
  <1>9. /\ q \in Seq(Agent!Test) /\ DOMAIN q = 1..m
        /\ \A n \in DOMAIN q : q[n] = body[f[n]] /\ f[n] \in new
    <2>1. \A n \in 1..m : body[f[n]] \in Agent!Test /\ f[n] \in new
      BY <1>2, <1>5
    <2> HIDE DEF q, new
    <2> QED
      BY <1>5, <2>1
  <1>10. /\ pa \in Seq(Action) /\ DOMAIN pa = 1..l
         /\ \A n \in 1..l : /\ g[n] \in met
                            /\ pa[n] = [original |-> old[g[n]], repaired |-> p[g[n]]]
    <2>1. /\ DOMAIN was = 1..l
          /\ \A n \in 1..l : was[n] = old[g[n]] /\ g[n] \in met
      BY <1>7
    <2>2. \A n \in 1..l : g[n] \in DOMAIN old /\ old[g[n]] \in Agent!Test
      BY <1>2, <2>1
    <2>3. \A n \in 1..l : p[g[n]] = Agent!Replacement(body, was[n]) /\ p[g[n]] \in Agent!Test
      BY <1>3, <2>1, <2>2
    <2>4. DOMAIN pa = 1..l
      BY <2>1
    <2>5. \A n \in 1..l : pa[n] = [original |-> old[g[n]], repaired |-> p[g[n]]]
      BY <2>1, <2>3
    <2>6. pa = [n \in 1..l |-> pa[n]]
      BY <2>4
    <2> HIDE DEF pa, p, was
    <2>7. ASSUME NEW n \in 1..l
          PROVE  pa[n] \in Action
      <3>1. old[g[n]] \in Agent!Test /\ p[g[n]] \in Agent!Test
        BY <2>2, <2>3
      <3>2. pa[n] = [original |-> old[g[n]], repaired |-> p[g[n]]]
        BY <2>5
      <3> QED
        BY <3>1, <3>2 DEF Action
    <2>8. pa \in Seq(Action)
      <3>1. pa \in [1..l -> Action]
        BY <2>6, <2>7, Zenon
      <3> QED
        BY <3>1
    <2> QED
      BY <2>1, <2>4, <2>5, <2>8
  <1>11. /\ qa \in Seq(Action) /\ DOMAIN qa = 1..m
         /\ \A n \in 1..m : qa[n] = [original |-> None, repaired |-> q[n]]
    <2>1. \A n \in 1..m : q[n] \in Agent!Test
      BY <1>9
    <2> HIDE DEF q
    <2> QED
      BY <1>9, <2>1 DEF Action
  <1> HIDE DEF p, q, was, pa, qa
  <1>12. R \in Seq(Agent!Test) /\ H \in Seq(Action)
    BY <1>1, <1>8, <1>9, <1>10, <1>11, Joined
  <1>13. \A i \in DOMAIN R : \/ i \in DOMAIN p /\ R[i] = p[i]
                             \/ \E k \in DOMAIN q : i = Len(p) + k /\ R[i] = q[k]
    <2>1. \A i \in DOMAIN p : (p \o q)[i] = p[i]
      BY <1>8, <1>9, Joined
    <2>2. \A k \in DOMAIN q : (p \o q)[Len(p) + k] = q[k]
      BY <1>8, <1>9, Joined
    <2>3. \A i \in DOMAIN (p \o q) : i \in DOMAIN p \/ \E k \in DOMAIN q : i = Len(p) + k
      BY <1>8, <1>9, Joined
    <2> HIDE DEF R
    <2> QED
      BY <1>1, <2>1, <2>2, <2>3
  <1>14. \A i \in DOMAIN old : \A k \in DOMAIN q : p[i].name # q[k].name
    BY <1>2, <1>8, <1>9
  <1>15. Distinct(R)
    <2> SUFFICES ASSUME NEW i \in DOMAIN R, NEW k \in DOMAIN R, R[i].name = R[k].name
                 PROVE  i = k
      BY DEF Distinct
    <2>1. CASE /\ i \in DOMAIN p /\ R[i] = p[i]
               /\ k \in DOMAIN p /\ R[k] = p[k]
      BY <1>8, <2>1 DEF Distinct
    <2>2. ASSUME NEW a \in DOMAIN q, NEW b \in DOMAIN q,
                 i = Len(p) + a, R[i] = q[a], k = Len(p) + b, R[k] = q[b]
          PROVE  i = k
      <3>1. f[a] \in DOMAIN body /\ f[b] \in DOMAIN body /\ body[f[a]].name = body[f[b]].name
        BY <1>2, <1>9, <2>2
      <3>2. a = b
        BY <1>5, <1>9, <3>1 DEF Distinct
      <3> QED
        BY <2>2, <3>2
    <2> QED
      BY <1>8, <1>13, <1>14, <2>1, <2>2
  <1>16. ASSUME NEW i \in DOMAIN old
         PROVE  i \in DOMAIN R /\ R[i].name = old[i].name
    BY <1>1, <1>8, <1>9, <1>16, Joined
  <1>17. /\ \A n \in 1..l : pa[n] \in Agent!Range(H)
         /\ \A n \in 1..m : qa[n] \in Agent!Range(H)
    <2>1. /\ \A n \in 1..l : n \in DOMAIN H /\ H[n] = pa[n]
          /\ \A n \in 1..m : Len(pa) + n \in DOMAIN H /\ H[Len(pa) + n] = qa[n]
      BY <1>1, <1>10, <1>11, Joined
    <2> QED
      BY <2>1 DEF Agent!Range
  <1>18. H # <<>>
    <2>1. 1 \in DOMAIN body
      OBVIOUS
    <2>2. new # {} \/ met # {}
      BY <1>2, <2>1
    <2>3. (\E n : n \in 1..l) \/ (\E n : n \in 1..m)
      BY <1>5, <1>7, <2>2
    <2>4. Agent!Range(H) # {}
      BY <1>17, <2>3
    <2> QED
      BY <2>4 DEF Agent!Range
  <1>19. ASSUME NEW i \in DOMAIN R
         PROVE  Accounted(R[i], old, H)
    <2>1. CASE i \in DOMAIN p /\ R[i] = p[i] /\ i \notin met
      <3>1. R[i] = old[i] /\ i \in DOMAIN old
        BY <1>8, <2>1 DEF p
      <3> QED
        BY <3>1 DEF Accounted, Agent!Range
    <2>2. CASE i \in DOMAIN p /\ R[i] = p[i] /\ i \in met
      <3>1. PICK n \in 1..l : g[n] = i
        BY <1>7, <2>2
      <3>2. pa[n] \in Agent!Range(H) /\ pa[n].repaired = R[i] /\ pa[n].original = old[i]
        BY <1>10, <1>17, <2>2, <3>1
      <3>3. old[i] \in Agent!Named(old, R[i].name)
        BY <1>8, <2>2 DEF Agent!Named, Agent!Range
      <3> QED
        BY <3>2, <3>3 DEF Accounted
    <2>3. ASSUME NEW k \in DOMAIN q, R[i] = q[k]
          PROVE  Accounted(R[i], old, H)
      <3>1. qa[k] \in Agent!Range(H) /\ qa[k].repaired = R[i] /\ qa[k].original = None
        BY <1>9, <1>11, <1>17, <2>3
      <3>2. Agent!Named(old, R[i].name) = {}
        BY <1>8, <1>14, <2>3 DEF Agent!Named, Agent!Range
      <3> QED
        BY <3>1, <3>2 DEF Accounted
    <2> QED
      BY <1>13, <2>1, <2>2, <2>3
  <1> HIDE DEF R, H
  <1> QED
    BY <1>12, <1>15, <1>16, <1>18, <1>19 DEF R, H

-----------------------------------------------------------------------------
(* The request itself.  While it is at work, each agent that is done has left its *)
(* product and no other has; a result accounts for its tests from the repair on.  *)

\* The agent k is done.
AgentDone(k) == agent > k \/ (agent = k /\ attempt = 0)

\* What the result will say of its tests is true of them.
Reported ==
    /\ review.approved => history = <<>> /\ tests = review.of
    /\ ~review.approved => history # <<>>
    /\ \A i \in DOMAIN review.of : \E k \in DOMAIN tests : tests[k].name = review.of[i].name
    /\ \A i \in DOMAIN tests : Accounted(tests[i], review.of, history)

AtWork ==
    /\ state = IF agent = 0 THEN "INITIALIZED" ELSE Agent!Agents[agent]
    /\ agent = 0 => attempt = 0
    /\ planned <=> AgentDone(1)
    /\ tests # <<>> <=> AgentDone(2)
    /\ review # None <=> AgentDone(3)
    /\ ~AgentDone(4) => history = <<>>
    /\ AgentDone(3) => review \in [approved : BOOLEAN, of : Seq(Agent!Test)]
    /\ AgentDone(3) /\ ~AgentDone(4) => review.of = tests
    /\ AgentDone(4) => Reported

AgentInv ==
    /\ agent \in 0..4 /\ attempt \in 0..2
    /\ planned \in BOOLEAN
    /\ tests \in Seq(Agent!Test) /\ Distinct(tests)
    /\ history \in Seq(Action)
    /\ response = None => AtWork
    /\ response # None => attempt = 0 /\ FailureIsExplained /\ ResultIsAccountedFor

\* The agents by their numbers.
LEMMA AgentsInOrder ==
    /\ Agent!Agents[1] = "PLANNING" /\ Agent!Agents[2] = "GENERATING"
    /\ Agent!Agents[3] = "REVIEWING" /\ Agent!Agents[4] = "REPAIRING"
    /\ Len(Agent!Agents) = 4
  BY DEF Agent!Agents

\* None is no response and no review.
LEMMA NoneIsNone ==
    /\ None \notin {200, 422, 500}
    /\ None \notin [approved : BOOLEAN, of : Seq(Agent!Test)]
  BY FlowsAssumption DEF Agent!PipelineAssumption, Agent!Test

LEMMA AgentsBegin == Agent!Init => AgentInv
  <1> SUFFICES ASSUME Agent!Init PROVE AgentInv
    OBVIOUS
  <1>1. /\ state = "INITIALIZED" /\ agent = 0 /\ attempt = 0 /\ planned = FALSE
        /\ tests = <<>> /\ review = None /\ history = <<>> /\ response = None
    BY DEF Agent!Init
  <1>2. ~AgentDone(1) /\ ~AgentDone(2) /\ ~AgentDone(3) /\ ~AgentDone(4)
    BY <1>1 DEF AgentDone
  <1>3. AtWork
    BY <1>1, <1>2 DEF AtWork
  <1>4. tests \in Seq(Agent!Test) /\ history \in Seq(Action)
    BY <1>1
  <1>5. Distinct(tests)
    BY <1>1 DEF Distinct
  <1>6. agent \in 0..4 /\ attempt \in 0..2
    BY <1>1
  <1>7. planned \in BOOLEAN
    BY <1>1
  <1> QED
    BY <1>1, <1>3, <1>4, <1>5, <1>6, <1>7 DEF AgentInv

\* An error: the agent at work has left no product.
LEMMA FailingIsExplained ==
    ASSUME AgentInv, Agent!AgentFails, attempt # 0, response = None
    PROVE  AgentInv'
  <1>1. /\ agent \in 1..4 /\ AtWork /\ ~AgentDone(agent)
        /\ ~(<<planned, tests # <<>>, review # None, history # <<>> >>)[agent]
    <2>1. AtWork /\ agent \in 1..4 /\ ~AgentDone(agent)
      BY DEF AgentInv, AtWork, AgentDone
    <2>2. CASE agent = 1
      BY <2>1, <2>2 DEF AtWork
    <2>3. CASE agent = 2
      BY <2>1, <2>3 DEF AtWork
    <2>4. CASE agent = 3
      BY <2>1, <2>4 DEF AtWork
    <2>5. CASE agent = 4
      BY <2>1, <2>5 DEF AtWork
    <2> QED
      BY <2>1, <2>2, <2>3, <2>4, <2>5
  <1>2. /\ state' = "FAILED" /\ attempt' = 0 /\ response' = 500
        /\ UNCHANGED <<agent, nulls, planned, tests, review, history>>
    BY DEF Agent!AgentFails, Agent!context
  <1>3. FailureIsExplained'
    BY <1>1, <1>2 DEF FailureIsExplained, Agent!FailureIsExplained
  <1>4. ResultIsAccountedFor'
    BY <1>2 DEF ResultIsAccountedFor, Agent!ResultIsAccountedFor
  <1>5. response' # None
    BY <1>2, NoneIsNone
  <1>6. Distinct(tests)'
    BY <1>2 DEF AgentInv, Distinct
  <1> QED
    BY <1>2, <1>3, <1>4, <1>5, <1>6 DEF AgentInv

\* What a result shows.
Shown ==
    /\ \A i, k \in DOMAIN tests : tests[i].name = tests[k].name => i = k
    /\ {t.name : t \in Agent!Range(review.of)} \subseteq {t.name : t \in Agent!Range(tests)}
    /\ \A t \in Agent!Range(tests) : Accounted(t, review.of, history)
    /\ review.approved => history = <<>> /\ tests = review.of
    /\ ~review.approved => history # <<>>

LEMMA ReportedIsShown ==
    ASSUME Reported, Distinct(tests)
    PROVE  Shown
  <1>1. \A i, k \in DOMAIN tests : tests[i].name = tests[k].name => i = k
    BY DEF Distinct
  <1>2. {t.name : t \in Agent!Range(review.of)} \subseteq {t.name : t \in Agent!Range(tests)}
    BY DEF Reported, Agent!Range
  <1>3. \A t \in Agent!Range(tests) : Accounted(t, review.of, history)
    BY DEF Reported, Agent!Range
  <1>4. /\ review.approved => history = <<>> /\ tests = review.of
        /\ ~review.approved => history # <<>>
    BY DEF Reported
  <1> QED
    BY <1>1, <1>2, <1>3, <1>4 DEF Shown

LEMMA AgentStep ==
    ASSUME AgentInv, [Agent!Next]_(Agent!vars)
    PROVE  AgentInv'
  <1>a. /\ agent \in 0..4 /\ attempt \in 0..2 /\ planned \in BOOLEAN
        /\ tests \in Seq(Agent!Test) /\ Distinct(tests) /\ history \in Seq(Action)
        /\ response = None => AtWork
    BY DEF AgentInv
  <1>1. CASE Agent!RefuseRequest
    <2>1. /\ response' = 422 /\ response = None /\ state = "INITIALIZED"
          /\ UNCHANGED <<state, agent, attempt, nulls, planned, tests, review, history>>
      BY <1>1 DEF Agent!RefuseRequest, Agent!context
    <2>2. agent = 0 /\ attempt = 0
      BY <1>a, <2>1, AgentsInOrder DEF AtWork
    <2>3. FailureIsExplained' /\ ResultIsAccountedFor'
      BY <2>1, <2>2 DEF FailureIsExplained, Agent!FailureIsExplained,
                        ResultIsAccountedFor, Agent!ResultIsAccountedFor
    <2> QED
      BY <1>a, <2>1, <2>2, <2>3, NoneIsNone DEF AgentInv, Distinct
  <1>2. CASE Agent!EnterAgent
    <2>1. /\ response = None /\ attempt = 0 /\ agent < 4
          /\ state' = Agent!Agents[agent + 1] /\ agent' = agent + 1 /\ attempt' = 1
          /\ UNCHANGED <<nulls, planned, tests, review, history, response>>
      BY <1>2, AgentsInOrder DEF Agent!EnterAgent, Agent!context
    <2>2. /\ AgentDone(1)' <=> AgentDone(1)
          /\ AgentDone(2)' <=> AgentDone(2)
          /\ AgentDone(3)' <=> AgentDone(3)
      BY <1>a, <2>1 DEF AgentDone
    <2>3. ~AgentDone(4) /\ ~AgentDone(4)' /\ agent' # 0
      BY <1>a, <2>1 DEF AgentDone
    <2>a. AtWork
      BY <1>a, <2>1
    <2>b. state' = IF agent' = 0 THEN "INITIALIZED" ELSE Agent!Agents[agent']
      BY <2>1, <2>3
    <2>c. planned' <=> AgentDone(1)'
      BY <2>a, <2>1, <2>2 DEF AtWork
    <2>d. tests' # <<>> <=> AgentDone(2)'
      BY <2>a, <2>1, <2>2 DEF AtWork
    <2>e. review' # None <=> AgentDone(3)'
      BY <2>a, <2>1, <2>2 DEF AtWork
    <2>f. AgentDone(3)' => review' \in [approved : BOOLEAN, of : Seq(Agent!Test)]
      BY <2>a, <2>1, <2>2 DEF AtWork
    <2>g. history' = <<>>
      BY <2>a, <2>1, <2>3 DEF AtWork
    <2>h. AgentDone(3)' => review'.of = tests'
      BY <2>a, <2>1, <2>2, <2>3 DEF AtWork
    <2>4. AtWork'
      BY <2>b, <2>c, <2>d, <2>e, <2>f, <2>g, <2>h, <2>3 DEF AtWork
    <2> QED
      BY <1>a, <2>1, <2>4 DEF AgentInv, Distinct
  <1>3. CASE Agent!SkipRepair
    <2>1. /\ attempt # 0 /\ Agent!Agents[agent] = "REPAIRING"
          /\ review = None \/ review.approved
          /\ attempt' = 0
          /\ UNCHANGED <<state, agent, nulls, planned, tests, review, history, response>>
      BY <1>3 DEF Agent!SkipRepair, Agent!Skips, Agent!Runs, Agent!context
    <2>2. response = None /\ agent = 4
      BY <1>a, <2>1, AgentsInOrder DEF AgentInv, AtWork
    <2>3. AgentDone(3) /\ ~AgentDone(4) /\ \A k \in 1..4 : AgentDone(k)'
      BY <2>1, <2>2 DEF AgentDone
    <2>4. AgentDone(1) /\ AgentDone(2)
      BY <2>2 DEF AgentDone
    <2>5. review.approved /\ review.of = tests /\ history = <<>>
      BY <1>a, <2>1, <2>2, <2>3, NoneIsNone DEF AtWork
    <2>6. Reported
      BY <2>5 DEF Reported, Accounted, Agent!Range
    <2>7. Reported'
      BY <2>1, <2>6 DEF Reported, Accounted
    <2>8. AtWork
      BY <1>a, <2>2
    <2>9. AtWork'
      BY <2>1, <2>2, <2>3, <2>4, <2>7, <2>8 DEF AtWork
    <2> QED
      BY <1>a, <2>1, <2>2, <2>9 DEF AgentInv, Distinct
  <1>4. CASE Agent!ProviderRaises \/ Agent!AnswerBreaksValidator
    <2>1. attempt # 0 /\ Agent!AgentFails
      BY <1>4 DEF Agent!ProviderRaises, Agent!AnswerBreaksValidator, Agent!Asks, Agent!Runs
    <2> QED
      BY <2>1, FailingIsExplained DEF AgentInv
  <1>5. CASE Agent!AnswerInvalid
    <2>1. CASE attempt = 1 /\ attempt' = 2 /\ UNCHANGED <<state, agent, Agent!context, response>>
      <3>1. UNCHANGED <<state, agent, nulls, planned, tests, review, history, response>>
        BY <2>1 DEF Agent!context
      <3>2. response = None /\ \A k \in 1..4 : AgentDone(k)' <=> AgentDone(k)
        BY <1>a, <2>1, <3>1 DEF AgentDone, AgentInv
      <3>3. AtWork'
        <4>1. AtWork /\ agent # 0
          BY <1>a, <2>1, <3>2 DEF AtWork
        <4>2. /\ AgentDone(1)' <=> AgentDone(1)
              /\ AgentDone(2)' <=> AgentDone(2)
              /\ AgentDone(3)' <=> AgentDone(3)
              /\ AgentDone(4)' <=> AgentDone(4)
          BY <3>2
        <4>3. Reported' <=> Reported
          BY <3>1 DEF Reported, Accounted
        <4> QED
          BY <3>1, <4>1, <4>2, <4>3 DEF AtWork
      <3> QED
        BY <1>a, <2>1, <3>1, <3>2, <3>3 DEF AgentInv, Distinct
    <2>2. CASE attempt = 2 /\ Agent!AgentFails
      BY <2>2, FailingIsExplained DEF AgentInv
    <2> QED
      BY <1>5, <2>1, <2>2 DEF Agent!AnswerInvalid
  <1>6. ASSUME NEW a, NEW k \in 1..4, Agent!Agents[k] = a, Agent!Accept(a)
        PROVE  /\ agent = k /\ attempt # 0 /\ attempt' = 0
               /\ UNCHANGED <<state, agent, response>>
               /\ response = None
               /\ \A i \in 1..4 : AgentDone(i)' <=> (AgentDone(i) \/ i = k)
               /\ \A i \in 1..4 : AgentDone(i) <=> i < k
    <2>1. /\ attempt # 0 /\ Agent!Agents[agent] = a /\ attempt' = 0
          /\ UNCHANGED <<state, agent, response>>
      BY <1>6 DEF Agent!Accept, Agent!Runs
    <2>2. response = None /\ agent \in 1..4
      BY <1>a, <2>1 DEF AgentInv, AtWork
    <2>3. agent = k
      BY <1>6, <2>1, <2>2, AgentsInOrder
    <2> QED
      BY <1>a, <2>1, <2>2, <2>3 DEF AgentDone
  <1>7. CASE Agent!AnswerPlan
    <2>1. /\ Agent!Accept("PLANNING") /\ planned' = TRUE
          /\ UNCHANGED <<tests, review, history>>
      BY <1>7 DEF Agent!AnswerPlan
    <2>2. /\ agent = 1 /\ attempt' = 0 /\ response = None
          /\ UNCHANGED <<state, agent, response>>
          /\ \A i \in 1..4 : AgentDone(i)' <=> (AgentDone(i) \/ i = 1)
          /\ \A i \in 1..4 : AgentDone(i) <=> i < 1
      BY <1>6, <2>1, AgentsInOrder
    <2>3. AtWork'
      BY <1>a, <2>1, <2>2 DEF AtWork
    <2> QED
      BY <1>a, <2>1, <2>2, <2>3 DEF AgentInv, Distinct
  <1>8. CASE Agent!AnswerTests
    <2>1. PICK body \in Agent!Bodies : Agent!Valid(body) /\ tests' = body
      BY <1>8 DEF Agent!AnswerTests
    <2>2. Agent!Accept("GENERATING") /\ UNCHANGED <<planned, review, history>>
      BY <1>8 DEF Agent!AnswerTests
    <2>3. /\ agent = 2 /\ attempt' = 0 /\ response = None
          /\ UNCHANGED <<state, agent, response>>
          /\ \A i \in 1..4 : AgentDone(i)' <=> (AgentDone(i) \/ i = 2)
          /\ \A i \in 1..4 : AgentDone(i) <=> i < 2
      BY <1>6, <2>2, AgentsInOrder
    <2>4. tests' \in Seq(Agent!Test) /\ Distinct(tests') /\ tests' # <<>>
      BY <2>1, ValidAreTests
    <2>5. AtWork'
      BY <1>a, <2>2, <2>3, <2>4 DEF AtWork
    <2> QED
      BY <1>a, <2>2, <2>3, <2>4, <2>5 DEF AgentInv, Distinct
  <1>9. CASE Agent!AnswerReview
    <2>1. PICK approved \in BOOLEAN : review' = [approved |-> approved, of |-> tests]
      BY <1>9 DEF Agent!AnswerReview
    <2>2. Agent!Accept("REVIEWING") /\ UNCHANGED <<planned, tests, history>>
      BY <1>9 DEF Agent!AnswerReview
    <2>3. /\ agent = 3 /\ attempt' = 0 /\ response = None
          /\ UNCHANGED <<state, agent, response>>
          /\ \A i \in 1..4 : AgentDone(i)' <=> (AgentDone(i) \/ i = 3)
          /\ \A i \in 1..4 : AgentDone(i) <=> i < 3
      BY <1>6, <2>2, AgentsInOrder
    <2>4. /\ review' \in [approved : BOOLEAN, of : Seq(Agent!Test)]
          /\ review'.of = tests /\ review' # None
      BY <1>a, <2>1, NoneIsNone
    <2>5. AtWork'
      BY <1>a, <2>2, <2>3, <2>4 DEF AtWork
    <2> QED
      BY <1>a, <2>2, <2>3, <2>5 DEF AgentInv, Distinct
  <1>10. CASE Agent!AnswerRepair
    <2>1. PICK body \in Agent!Bodies :
              /\ Agent!Valid(body)
              /\ tests' = Agent!Repaired(tests, body)
              /\ history' = history \o Agent!RepairActions(tests, body)
      BY <1>10 DEF Agent!AnswerRepair
    <2>2. Agent!Accept("REPAIRING") /\ UNCHANGED <<planned, review, nulls>>
      BY <1>10 DEF Agent!AnswerRepair
    <2>3. /\ agent = 4 /\ attempt' = 0 /\ response = None /\ attempt # 0
          /\ UNCHANGED <<state, agent, response>>
          /\ \A i \in 1..4 : AgentDone(i)' <=> (AgentDone(i) \/ i = 4)
          /\ \A i \in 1..4 : AgentDone(i) <=> i < 4
      BY <1>6, <2>2, AgentsInOrder
    <2>4. /\ review # None /\ review.of = tests /\ history = <<>> /\ tests # <<>>
          /\ review \in [approved : BOOLEAN, of : Seq(Agent!Test)]
      BY <1>a, <2>3 DEF AtWork
    <2>5. review.approved = FALSE
      <3>1. ~Agent!Skips /\ Agent!Runs("REPAIRING")
        BY <2>2 DEF Agent!Accept, Agent!Asks
      <3> QED
        BY <2>4, <3>1 DEF Agent!Skips
    <2>6. /\ tests' \in Seq(Agent!Test) /\ Distinct(tests')
          /\ \A i \in DOMAIN tests : \E k \in DOMAIN tests' : tests'[k].name = tests[i].name
          /\ Agent!RepairActions(tests, body) \in Seq(Action)
          /\ Agent!RepairActions(tests, body) # <<>>
          /\ \A i \in DOMAIN tests' :
                 Accounted(tests'[i], tests, Agent!RepairActions(tests, body))
      BY <1>a, <2>1, ValidAreTests, RepairAccounts
    <2>7. history' = Agent!RepairActions(tests, body)
      BY <2>1, <2>4, <2>6
    <2>8. Reported'
      BY <2>2, <2>4, <2>5, <2>6, <2>7 DEF Reported, Accounted
    <2>9. tests' # <<>>
      BY <1>a, <2>4, <2>6
    <2>10. AtWork'
      BY <1>a, <2>2, <2>3, <2>8, <2>9 DEF AtWork
    <2> QED
      BY <1>a, <2>2, <2>3, <2>6, <2>7, <2>10 DEF AgentInv, Distinct
  <1>11. CASE Agent!Complete
    <2>1. /\ response = None /\ attempt = 0 /\ agent = 4 /\ state' = "COMPLETED"
          /\ response' = IF nulls = {} THEN 200 ELSE 500
          /\ UNCHANGED <<agent, attempt, nulls, planned, tests, review, history>>
      BY <1>11, AgentsInOrder DEF Agent!Complete, Agent!context
    <2>2. Reported /\ Distinct(tests)
      BY <1>a, <2>1 DEF AtWork, AgentDone
    <2>3. Reported' /\ Distinct(tests)'
      BY <2>1, <2>2 DEF Reported, Accounted, Distinct
    <2>4. FailureIsExplained' /\ response' # None
      BY <2>1, NoneIsNone DEF FailureIsExplained, Agent!FailureIsExplained
    <2>5. ResultIsAccountedFor'
      <3>1. Shown
        BY <2>2, ReportedIsShown
      <3>2. Shown'
        BY <2>1, <3>1 DEF Shown, Accounted
      <3> QED
        BY <3>2 DEF Shown, ResultIsAccountedFor, Agent!ResultIsAccountedFor, Accounted
    <2>6. agent' \in 0..4 /\ attempt' \in 0..2 /\ attempt' = 0
      BY <2>1
    <2>7. planned' \in BOOLEAN /\ tests' \in Seq(Agent!Test) /\ history' \in Seq(Action)
      BY <1>a, <2>1
    <2> QED
      BY <2>3, <2>4, <2>5, <2>6, <2>7 DEF AgentInv
  <1>12. CASE Agent!Answered \/ UNCHANGED Agent!vars
    <2>1. UNCHANGED <<state, agent, attempt, nulls, planned, tests, review, history, response>>
      BY <1>12 DEF Agent!Answered, Agent!vars, Agent!context
    <2>2. FailureIsExplained' <=> FailureIsExplained
      BY <2>1 DEF FailureIsExplained, Agent!FailureIsExplained
    <2>3. ResultIsAccountedFor' <=> ResultIsAccountedFor
      BY <2>1 DEF ResultIsAccountedFor, Agent!ResultIsAccountedFor
    <2>4. Reported' <=> Reported
      BY <2>1 DEF Reported, Accounted
    <2>5. \A k \in 1..4 : AgentDone(k)' <=> AgentDone(k)
      BY <2>1 DEF AgentDone
    <2>6. AtWork' <=> AtWork
      BY <2>1, <2>4, <2>5 DEF AtWork
    <2>7. Distinct(tests)' <=> Distinct(tests)
      BY <2>1 DEF Distinct
    <2> QED
      BY <2>1, <2>2, <2>3, <2>6, <2>7 DEF AgentInv
  <1> QED
    BY <1>1, <1>2, <1>3, <1>4, <1>5, <1>7, <1>8, <1>9, <1>10, <1>11, <1>12
    DEF Agent!Next, Agent!Advance

\* What the agents have reported is kept apart, complete and logged in every state.
THEOREM AgentInvariant == FlowsSpec => []AgentInv
  <1>1. AgentInv /\ [Agent!Next]_(Agent!vars) => AgentInv'
    BY AgentStep
  <1> QED
    BY <1>1, AgentsBegin, FlowsAreFlows, PTL DEF Agent!Spec

\* Every test of a result is one the reviewer saw or its logged repair, no reviewed
\* test is lost and no name is there twice (repair_schema.py, map_json_to_repaired_tests;
\* v23_pipeline.py, _build_result).
THEOREM ResultsAreAccountedFor == FlowsSpec => []ResultIsAccountedFor
  <1>1. AgentInv => ResultIsAccountedFor
    <2> SUFFICES ASSUME AgentInv, response = None PROVE ResultIsAccountedFor
      BY DEF AgentInv
    <2> QED
      BY NoneIsNone DEF ResultIsAccountedFor, Agent!ResultIsAccountedFor
  <1> QED
    BY <1>1, AgentInvariant, PTL

\* A request fails by the agent that was at work, before it left a product, or by a
\* null that validation let through (agent_workflow.py, execute_workflow).
THEOREM FailuresAreExplained == FlowsSpec => []FailureIsExplained
  <1>1. AgentInv => FailureIsExplained
    <2> SUFFICES ASSUME AgentInv, response = None PROVE FailureIsExplained
      BY DEF AgentInv
    <2> QED
      BY NoneIsNone DEF FailureIsExplained, Agent!FailureIsExplained
  <1> QED
    BY <1>1, AgentInvariant, PTL
=============================================================================
