--------------------------- MODULE ProviderFailover ---------------------------
(***************************************************************************)
(* The LLM provider router with retry and fail-over, and the health and    *)
(* cost bookkeeping its calls share (infrastructure/providers/router.py,   *)
(* failover.py, health_monitor.py, evaluator.py).                          *)
(*                                                                         *)
(* A call is one execute_prompt() in a thread of its own.  A step ends     *)
(* where another thread may run between two accesses to shared state: the  *)
(* health monitor and the cost tracker each take their own lock, the last  *)
(* error message is written outside of it.  Latencies, back-off times and  *)
(* prices are left out.                                                    *)
(***************************************************************************)
EXTENDS Naturals, Sequences, FiniteSets, FiniteSetsExt

CONSTANTS
    Calls,
    Registry,       \* the router's providers, in the order of registration
    Keyed,          \* those whose health_check() passes: an API key is set
    MAX_RETRIES,    \* settings.MAX_PROVIDER_RETRIES
    COUNT_LIMIT,    \* where the model stops counting requests (no limit in the code)
    Raised,         \* the errors the vendors produce in the instance
    None

Providers == {Registry[i] : i \in DOMAIN Registry}

\* The three provider errors worth a retry; all errors: those, a rejected key,
\* a plain ProviderError and any other exception.
Retryable == {"timeout", "rate_limit", "unavailable"}
Errors == Retryable \cup {"authentication", "provider_error", "unexpected"}

ASSUME ProviderFailoverAssumption ==
    /\ Registry \in Seq(Providers) /\ Registry # <<>>
    /\ \A i, k \in DOMAIN Registry : Registry[i] = Registry[k] => i = k
    /\ Keyed \subseteq Providers
    /\ MAX_RETRIES \in Nat /\ COUNT_LIMIT \in Nat
    /\ Raised \subseteq Errors
    /\ None \notin Providers \cup Errors \cup {"ok"}

VARIABLES
    pc,         \* where each call is
    current,    \* the provider it is using
    left,       \* the providers it has not given up, the current one included
    attempt,    \* retries made on the current one
    got,        \* what provider.generate() last returned or raised
    answer,     \* whose response the caller received
    stats,      \* ProviderHealthMonitor
    lastError,  \* last_error_message of each provider, as its error type
    requests,   \* ProviderCostTracker: requests charged to each provider
    tries,      \* history: generate() calls of each call on each provider
    refused     \* history: providers whose error must not be retried

local == <<current, left, attempt, got, answer>>
history == <<tries, refused>>
vars == <<pc, local, stats, lastError, requests, history>>

Control == {"new", "calling", "recording", "charging", "noting", "answered", "failed"}

Count == 0..COUNT_LIMIT
Add(n, yes) == IF yes /\ n < COUNT_LIMIT THEN n + 1 ELSE n

Counters ==
    [total : Count, ok : Count, failed : Count, timeouts : Count, auth : Count, rate : Count]

TypeOK ==
    /\ pc \in [Calls -> Control]
    /\ current \in [Calls -> Providers \cup {None}]
    /\ left \in [Calls -> SUBSET Keyed]
    /\ attempt \in [Calls -> 0..MAX_RETRIES]
    /\ got \in [Calls -> Errors \cup {"ok", None}]
    /\ answer \in [Calls -> Keyed \cup {None}]
    /\ stats \in [Providers -> Counters]
    /\ lastError \in [Providers -> Errors \cup {None}]
    /\ requests \in [Providers -> Count]
    /\ tries \in [Calls -> [Providers -> Count]]
    /\ refused \in [Calls -> SUBSET Providers]

Init ==
    /\ pc = [c \in Calls |-> "new"]
    /\ current = [c \in Calls |-> None]
    /\ left = [c \in Calls |-> {}]
    /\ attempt = [c \in Calls |-> 0]
    /\ got = [c \in Calls |-> None]
    /\ answer = [c \in Calls |-> None]
    /\ stats = [p \in Providers |->
                    [total |-> 0, ok |-> 0, failed |-> 0, timeouts |-> 0, auth |-> 0, rate |-> 0]]
    /\ lastError = [p \in Providers |-> None]
    /\ requests = [p \in Providers |-> 0]
    /\ tries = [c \in Calls |-> [p \in Providers |-> 0]]
    /\ refused = [c \in Calls |-> {}]

-----------------------------------------------------------------------------
(* Seeded faults (see JobEngine). *)
FaultRetriesAnything(c) == attempt[c] < MAX_RETRIES
FaultOneRetryTooMany(c) == got[c] \in Retryable /\ attempt[c] <= MAX_RETRIES
FaultAnySuccessIsAFailure(s, o) ==
    [s EXCEPT !.total = Add(@, TRUE), !.failed = Add(@, TRUE)]
-----------------------------------------------------------------------------
\* The strategy selects one of the configured providers, or one of all
\* providers when none has a key.  Which one depends on scores that the model
\* leaves out.
Candidates == IF Keyed = {} THEN Providers ELSE Keyed

\* After the selected provider, the others follow as they were registered.
FirstOf(S) == IF S = {} THEN None ELSE Registry[Min({i \in DOMAIN Registry : Registry[i] \in S})]

Proceed(c) == pc' = [pc EXCEPT ![c] = IF left'[c] = {} THEN "failed" ELSE "calling"]

\* A seeded fault (see JobEngine).
FaultKeepsUnkeyed(c) ==
    /\ pc[c] = "new"
    /\ \E s \in Candidates : current' = [current EXCEPT ![c] = s]
    /\ left' = [left EXCEPT ![c] = Providers]
    /\ Proceed(c)
    /\ UNCHANGED <<attempt, got, answer, stats, lastError, requests, history>>

\* execute_prompt() up to the fail-over loop: providers without a key are dropped.
Route(c) ==
    /\ pc[c] = "new"
    /\ \E s \in Candidates : current' = [current EXCEPT ![c] = s]
    /\ left' = [left EXCEPT ![c] = Keyed]
    /\ Proceed(c)
    /\ UNCHANGED <<attempt, got, answer, stats, lastError, requests, history>>

\* provider.generate() of the current provider returns or raises.
CallProvider(c) ==
    /\ pc[c] = "calling"
    /\ \E o \in Raised \cup {"ok"} :
           /\ got' = [got EXCEPT ![c] = o]
           /\ refused' = IF o \in Errors \ Retryable
                         THEN [refused EXCEPT ![c] = @ \cup {current[c]}]
                         ELSE refused
    /\ tries' = [tries EXCEPT ![c][current[c]] = Add(@, TRUE)]
    /\ pc' = [pc EXCEPT ![c] = "recording"]
    /\ UNCHANGED <<current, left, attempt, answer, stats, lastError, requests>>

\* _ProviderStats.record(), under the lock of the provider's bucket.
Counted(s, o) ==
    [total    |-> Add(s.total, TRUE),
     ok       |-> Add(s.ok, o = "ok"),
     failed   |-> Add(s.failed, o # "ok"),
     timeouts |-> Add(s.timeouts, o = "timeout"),
     auth     |-> Add(s.auth, o = "authentication"),
     rate     |-> Add(s.rate, o = "rate_limit")]

\* A seeded fault (see JobEngine).
FaultAwaitsSuccess(c) ==
    /\ pc[c] = "recording"
    /\ stats' = [stats EXCEPT ![current[c]] = Counted(@, got[c])]
    /\ pc' = [pc EXCEPT ![c] = IF got[c] = "ok" THEN "charging" ELSE "recording"]
    /\ UNCHANGED <<local, lastError, requests, history>>

RecordHealth(c) ==
    /\ pc[c] = "recording"
    /\ stats' = [stats EXCEPT ![current[c]] = Counted(@, got[c])]
    /\ pc' = [pc EXCEPT ![c] = IF got[c] = "ok" THEN "charging" ELSE "noting"]
    /\ UNCHANGED <<local, lastError, requests, history>>

\* cost_tracker.record(), and the response is returned.
ChargeCost(c) ==
    /\ pc[c] = "charging"
    /\ requests' = [requests EXCEPT ![current[c]] = Add(@, TRUE)]
    /\ answer' = [answer EXCEPT ![c] = current[c]]
    /\ pc' = [pc EXCEPT ![c] = "answered"]
    /\ UNCHANGED <<current, left, attempt, got, stats, lastError, history>>

MayRetry(c) == got[c] \in Retryable /\ attempt[c] < MAX_RETRIES

GiveUpOn(c) ==
    /\ left' = [left EXCEPT ![c] = @ \ {current[c]}]
    /\ current' = [current EXCEPT ![c] = FirstOf(left'[c])]

\* The message is stored, and the manager sleeps and tries again ...
Retry(c) ==
    /\ pc[c] = "noting"
    /\ MayRetry(c)
    /\ lastError' = [lastError EXCEPT ![current[c]] = got[c]]
    /\ attempt' = [attempt EXCEPT ![c] = @ + 1]
    /\ pc' = [pc EXCEPT ![c] = "calling"]
    /\ UNCHANGED <<current, left, got, answer, stats, requests, history>>

\* ... or goes on to the next provider, if there is one.
Escalate(c) ==
    /\ pc[c] = "noting"
    /\ ~MayRetry(c)
    /\ lastError' = [lastError EXCEPT ![current[c]] = got[c]]
    /\ GiveUpOn(c)
    /\ attempt' = [attempt EXCEPT ![c] = 0]
    /\ Proceed(c)
    /\ UNCHANGED <<got, answer, stats, requests, history>>

CallStep(c) ==
    \/ Route(c)
    \/ CallProvider(c)
    \/ RecordHealth(c)
    \/ ChargeCost(c)
    \/ Retry(c)
    \/ Escalate(c)

Done == pc \in [Calls -> {"answered", "failed"}] /\ UNCHANGED vars

Next == (\E c \in Calls : CallStep(c)) \/ Done

Spec == Init /\ [][Next]_vars

\* A thread runs on, and every provider call returns or raises in the end
\* (the SDK clients time out).
Fairness == \A c \in Calls : WF_vars(CallStep(c))

FairSpec == Spec /\ Fairness
-----------------------------------------------------------------------------
\* Health and cost agree on what was asked of a provider, although each is
\* updated under its own lock: every generate() is counted once, as a success
\* or a failure of one kind at most, and every success is charged once.  The
\* last error, written outside of the lock, is one of those counted.
AccountsAgree ==
    \A p \in Providers :
        LET At(state) == Cardinality({c \in Calls : pc[c] = state /\ current[c] = p})
            asked == MapThenSumSet(LAMBDA c : tries[c][p], Calls)
        IN  /\ stats[p].total = stats[p].ok + stats[p].failed
            /\ stats[p].total + At("recording") = asked
            /\ stats[p].ok = requests[p] + At("charging")
            /\ stats[p].timeouts + stats[p].auth + stats[p].rate <= stats[p].failed
            /\ lastError[p] = "timeout" => stats[p].timeouts > 0
            /\ lastError[p] = None => stats[p].failed = At("noting")

\* A provider is tried MAX_RETRIES + 1 times at most, over the whole call.
RetryBudget == \A c \in Calls, p \in Providers : tries[c][p] <= MAX_RETRIES + 1

\* A provider that answered with an error that must not be retried is not
\* asked again by the same call (failover.py:6-7, 204-224).
RefusalIsFinal ==
    [][\A c \in Calls, p \in Providers :
           tries'[c][p] > tries[c][p] => p \notin refused[c]]_vars

\* The caller sees what ProviderRouting promises.
Routing ==
    INSTANCE ProviderRouting WITH
        Configured <- Keyed, Pending <- None, Error <- "error",
        gaveUp <- [c \in Calls |->
                      IF pc[c] = "new" THEN {}
                      ELSE Keyed \ left[c]],
        result <- [c \in Calls |-> IF pc[c] = "failed" THEN "error" ELSE answer[c]]
ImplementsRouting == Routing!Spec

\* Every call ends: with a response, or with the error of all providers.
CallEnds == \A c \in Calls : <>(pc[c] \in {"answered", "failed"})
=============================================================================
