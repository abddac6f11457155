----------------------------- MODULE HealthRouting -----------------------------
(***************************************************************************)
(* How a provider is chosen for a call: the counters of the health monitor *)
(* (infrastructure/providers/health_monitor.py), the router's reading of   *)
(* them (router.py), the evaluator and the ten routing strategies          *)
(* (routing_strategies/*.py) over the registry of capabilities.            *)
(*                                                                         *)
(* The router reads one provider after the other, each under its own lock, *)
(* while other calls record their outcomes.  Rates and scores are in       *)
(* ten-thousandths, latencies in milliseconds.                             *)
(***************************************************************************)
EXTENDS Integers, Sequences, Functions

CONSTANTS
    Threads,
    Registered,      \* the router's providers, in the order of its dictionary
    Keyed,           \* those whose health_check() passes
    Strategies,      \* the strategies that calls may name
    Latencies,       \* how long a call may take
    MAX_SAMPLES,     \* _MAX_LATENCY_SAMPLES
    MAX_RECORDS,     \* bound on the outcomes recorded
    None

\* provider_metadata.py: latency in ms, input cost in $ per 100 million tokens,
\* quality in hundredths, and whether the model reasons.
Capability(latency, cost, quality, reasoning) ==
    [typical_latency_ms |-> latency, estimated_input_cost |-> cost,
     quality_score |-> quality, supports_reasoning |-> reasoning]

PROVIDER_METADATA ==
    [Gemini     |-> Capability(800, 15, 88, TRUE),
     OpenAI     |-> Capability(1200, 250, 92, TRUE),
     Claude     |-> Capability(1500, 300, 94, TRUE),
     Groq       |-> Capability(250, 59, 82, FALSE),
     OpenRouter |-> Capability(2000, 55, 86, TRUE)]

Providers == Range(Registered)

AllStrategies ==
    {"Cost", "Quality", "Balanced", "Latency", "Research", "Fastest", "LowestCost",
     "HighestQuality", "Reasoning", "HealthAware"}

\* Assumed by the module that gives the constants their values.
HealthRoutingAssumption ==
    /\ Registered \in Seq(DOMAIN PROVIDER_METADATA) \ {<<>>} /\ IsInjective(Registered)
    /\ Keyed \subseteq Providers
    /\ Strategies \subseteq AllStrategies
    /\ Latencies \subseteq Nat
    /\ MAX_SAMPLES \in Nat \ {0} /\ MAX_RECORDS \in Nat
    /\ None \notin Providers \cup AllStrategies

VARIABLES
    stats,      \* _ProviderStats of each provider
    pc,         \* of each call: "idle", "reading", "chosen"
    strategy,   \* the one it was made with
    read,       \* how many providers it has read
    metrics,    \* what it has read of them
    chosen,     \* selected_provider of its decision
    seen,       \* history: every value the metrics of a provider had meanwhile
    records     \* number of outcomes recorded

call == <<pc, strategy, read, metrics, chosen, seen>>
vars == <<stats, call, records>>

-----------------------------------------------------------------------------
(* The monitor.                                                            *)

\* snapshot() of the counters, all under one acquisition of the lock.
Snapshot(s) ==
    LET total == s.ok + s.failed
        average == IF s.latencies = <<>> THEN 0 ELSE SumFunction(s.latencies) \div Len(s.latencies)
        uptime == IF total = 0 THEN 10000 ELSE (10000 * s.ok) \div total
        swiftness == IF average > 5000 THEN 0 ELSE 10000 - 2 * average
    IN  [average_latency_ms |-> average,
         failure_rate |-> IF total = 0 THEN 0 ELSE (10000 * s.failed) \div total,
         health_score |-> (7 * uptime + 3 * swiftness) \div 10]

\* record(): the counters, and the rolling window of latencies.
Recorded(s, success, latency) ==
    LET window == Append(s.latencies, latency)
    IN  [ok |-> s.ok + (IF success THEN 1 ELSE 0),
         failed |-> s.failed + (IF success THEN 0 ELSE 1),
         latencies |-> IF Len(window) > MAX_SAMPLES THEN Tail(window) ELSE window]

NoStats == [ok |-> 0, failed |-> 0, latencies |-> <<>>]

Unread == [p \in Providers |-> Snapshot(NoStats)]

-----------------------------------------------------------------------------
(* The strategies.  The available providers are listed in the router's     *)
(* order, so a set of them stands for the list.                            *)

\* The first of a list that is in a set.
First(list, set) ==
    list[CHOOSE i \in DOMAIN list : list[i] \in set /\ \A k \in 1..i - 1 : list[k] \notin set]

\* The first of a fixed order that is available, else the first available.
InOrder(order, available) ==
    First(IF Range(order) \cap available = {} THEN Registered ELSE order, available)

CostOrder == <<"Gemini", "OpenAI", "Claude">>
QualityOrder == <<"Claude", "OpenAI", "Gemini">>
BalancedOrder == <<"Gemini">>
LatencyOrder == <<"Gemini", "OpenAI", "Claude">>

\* rank_by() and eligible.sort() are stable: of equals the first comes first.
Lowest(available, value) ==
    First(Registered, {p \in available : \A q \in available : value[p] <= value[q]})
Highest(available, value) ==
    First(Registered, {p \in available : \A q \in available : value[p] >= value[q]})

Fastest(available) ==
    Lowest(available, [p \in Providers |-> PROVIDER_METADATA[p].typical_latency_ms])
LowestCost(available) ==
    Lowest(available, [p \in Providers |-> PROVIDER_METADATA[p].estimated_input_cost])
HighestQuality(available) ==
    Highest(available, [p \in Providers |-> PROVIDER_METADATA[p].quality_score])

\* filter_capable(require_reasoning=True)
Capable(available) == {p \in available : PROVIDER_METADATA[p].supports_reasoning}

Reasoning(available) ==
    HighestQuality(IF Capable(available) = {} THEN available ELSE Capable(available))

\* The thresholds of HealthAwareStrategy.
WithinThresholds(m) == m.failure_rate <= 5000 /\ m.average_latency_ms <= 10000

\* Fault: the best score wins, whatever the thresholds say.
FaultIgnoresThresholds(available, m) ==
    Highest(available, [p \in Providers |-> m[p].health_score])

HealthAware(available, m) ==
    LET within == {p \in available : WithinThresholds(m[p])}
    IN  Highest(IF within = {} THEN available ELSE within,
                [p \in Providers |-> m[p].health_score])

SelectProvider(s, available, m) ==
    CASE s = "Cost" -> InOrder(CostOrder, available)
      [] s = "Quality" -> InOrder(QualityOrder, available)
      [] s = "Balanced" -> InOrder(BalancedOrder, available)
      [] s = "Latency" -> InOrder(LatencyOrder, available)
      [] s = "Research" -> First(Registered, available)
      [] s = "Fastest" -> Fastest(available)
      [] s = "LowestCost" -> LowestCost(available)
      [] s = "HighestQuality" -> HighestQuality(available)
      [] s = "Reasoning" -> Reasoning(available)
      [] s = "HealthAware" -> HealthAware(available, m)

\* The healthy providers, or all of them when there is none.
Available == IF Keyed = {} THEN Providers ELSE Keyed

-----------------------------------------------------------------------------
Init ==
    /\ stats = [p \in Providers |-> NoStats]
    /\ pc = [t \in Threads |-> "idle"]
    /\ strategy = [t \in Threads |-> None]
    /\ read = [t \in Threads |-> 0]
    /\ metrics = [t \in Threads |-> Unread]
    /\ chosen = [t \in Threads |-> None]
    /\ seen = [t \in Threads |-> [p \in Providers |-> {}]]
    /\ records = 0

\* execute_prompt() begins to build the metrics.
Begin(t) ==
    /\ pc[t] = "idle"
    /\ pc' = [pc EXCEPT ![t] = "reading"]
    /\ seen' = [seen EXCEPT ![t] = [p \in Providers |-> {Snapshot(stats[p])}]]
    /\ UNCHANGED <<stats, strategy, read, metrics, chosen, records>>

\* get_summary() of the next provider.
ReadMetrics(t) ==
    /\ pc[t] = "reading" /\ read[t] < Len(Registered)
    /\ LET p == Registered[read[t] + 1] IN
           metrics' = [metrics EXCEPT ![t][p] = Snapshot(stats[p])]
    /\ read' = [read EXCEPT ![t] = @ + 1]
    /\ UNCHANGED <<stats, pc, strategy, chosen, seen, records>>

\* The strategy of the call decides.
Select(t) ==
    /\ pc[t] = "reading" /\ read[t] = Len(Registered)
    /\ \E s \in Strategies :
           /\ strategy' = [strategy EXCEPT ![t] = s]
           /\ chosen' = [chosen EXCEPT ![t] = SelectProvider(s, Available, metrics[t])]
    /\ pc' = [pc EXCEPT ![t] = "chosen"]
    /\ UNCHANGED <<stats, read, metrics, seen, records>>

\* The call is over, and its variables with it.
Return(t) ==
    /\ pc' = [pc EXCEPT ![t] = "idle"]
    /\ strategy' = [strategy EXCEPT ![t] = None]
    /\ read' = [read EXCEPT ![t] = 0]
    /\ metrics' = [metrics EXCEPT ![t] = Unread]
    /\ chosen' = [chosen EXCEPT ![t] = None]

\* An outcome: of the provider chosen or, after it has failed, of another that
\* is configured (module ProviderFailover has the order and the number).
RecordOutcome(t, p, success, latency) ==
    /\ pc[t] = "chosen" /\ records < MAX_RECORDS
    /\ p \in Keyed
    /\ stats' = [stats EXCEPT ![p] = Recorded(@, success, latency)]
    /\ records' = records + 1
    /\ IF success THEN Return(t) ELSE UNCHANGED <<pc, strategy, read, metrics, chosen>>
    /\ seen' = [u \in Threads |->
                   IF pc[u] = "reading"
                   THEN [seen[u] EXCEPT ![p] = @ \cup {Snapshot(stats'[p])}]
                   ELSE IF pc'[u] = "idle" THEN [q \in Providers |-> {}] ELSE seen[u]]

\* All have failed, or none has a key.
GiveUp(t) ==
    /\ pc[t] = "chosen"
    /\ Return(t)
    /\ seen' = [seen EXCEPT ![t] = [p \in Providers |-> {}]]
    /\ UNCHANGED <<stats, records>>

Next ==
    \E t \in Threads :
        \/ Begin(t)
        \/ ReadMetrics(t)
        \/ Select(t)
        \/ \E p \in Providers, success \in BOOLEAN, latency \in Latencies :
               RecordOutcome(t, p, success, latency)
        \/ GiveUp(t)

Spec == Init /\ [][Next]_vars

-----------------------------------------------------------------------------
Counters == [ok : Nat, failed : Nat, latencies : Seq(Nat)]
Metrics == [average_latency_ms : Nat, failure_rate : 0..10000, health_score : 0..10000]

(* Types. *)
TypeOK ==
    /\ stats \in [Providers -> Counters]
    /\ pc \in [Threads -> {"idle", "reading", "chosen"}]
    /\ strategy \in [Threads -> Strategies \cup {None}]
    /\ read \in [Threads -> 0..Len(Registered)]
    /\ metrics \in [Threads -> [Providers -> Metrics]]
    /\ chosen \in [Threads -> Providers \cup {None}]
    /\ seen \in [Threads -> [Providers -> SUBSET Metrics]]
    /\ records \in 0..MAX_RECORDS

\* HealthAwareStrategy prefers metrics m to n.
Better(m, n) ==
    IF WithinThresholds(m) = WithinThresholds(n) THEN m.health_score > n.health_score
    ELSE WithinThresholds(m)

(* Although the providers are read one by one while other calls record their
   outcomes, a choice that is just made is not absurd: a health-aware call never
   takes a provider when another was better than it, by its thresholds and its
   score, at all times from the beginning of the reading to its end.  And no strategy
   takes, of what was read, a provider without a key while there is one with.    *)
SelectionIsSound ==
    \A t \in Threads : pc[t] = "chosen" =>
        /\ Keyed # {} => \A s \in AllStrategies : SelectProvider(s, Available, metrics[t]) \in Keyed
        /\ strategy[t] = "HealthAware" =>
             \A p \in Available :
                 \E m \in seen[t][p], n \in seen[t][chosen[t]] : ~Better(m, n)

=============================================================================
