------------------------------ MODULE MCServices ------------------------------
(* Model-checking instance of four parts of the server that share no state: the
   tables of accounts and keys, the cost tracker, the routing strategies with the
   health monitor, and a request to the generation pipeline.  A behaviour is one of
   the part that part names; the others stay where they begin.                    *)
EXTENDS Auth, Sequences, TLC

CONSTANTS Threads, Billed, Workflows, Costs, DAYS_PER_MONTH, LAST_DAY, MAX_HISTORY
CONSTANTS Keyed, Strategies, Latencies, MAX_SAMPLES, MAX_RECORDS
CONSTANTS MAX_RETRIES, Usages

VARIABLES today, call, cumulative, requests, daily, monthly, workflows, dailyDate,
          monthlyMonth, history, booked
VARIABLES stats, pc, strategy, read, metrics, chosen, seen, records
VARIABLES stage, input, row, cache, session, response, attempt, last_usage, answer,
          suite, error, asked
VARIABLE part

Registered == <<"OpenRouter", "Gemini", "Groq">>

Costing == INSTANCE CostTracker
Routing == INSTANCE HealthRouting
Pipeline == INSTANCE GenerationPipeline

ASSUME ServicesAssumption ==
    /\ Costing!CostTrackerAssumption
    /\ Routing!HealthRoutingAssumption
    /\ Pipeline!GenerationPipelineAssumption

costing == <<today, call, cumulative, requests, daily, monthly, workflows, dailyDate,
             monthlyMonth, history, booked>>
routing == <<stats, pc, strategy, read, metrics, chosen, seen, records>>
pipeline == <<stage, input, row, cache, session, response, attempt, last_usage, answer,
              suite, error, asked>>

Parts == {"auth", "costing", "routing", "pipeline"}

\* The initial states of a part that is at rest are reduced to one.
ServicesInit ==
    /\ part \in Parts
    /\ Init /\ (part # "auth" => ENABLE_AUTH)
    /\ Costing!Init
    /\ Routing!Init
    /\ Pipeline!Init
    /\ part # "pipeline" =>
         cache = None /\ input = [small |-> TRUE, source |-> "function", framework |-> "pytest"]

ServicesNext ==
    \/ /\ part = "auth" /\ Next
       /\ UNCHANGED <<part, costing, routing, pipeline>>
    \/ /\ part = "costing" /\ Costing!Next
       /\ UNCHANGED <<part, vars, routing, pipeline>>
    \/ /\ part = "routing" /\ Routing!Next
       /\ UNCHANGED <<part, vars, costing, pipeline>>
    \/ /\ part = "pipeline" /\ Pipeline!Next
       /\ UNCHANGED <<part, vars, costing, routing>>

ServicesSpec == ServicesInit /\ [][ServicesNext]_<<part, vars, costing, routing, pipeline>>

Symmetry == Permutations(Requests) \cup Permutations(Threads)

(* The types of the part that runs. *)
AllTypesOK ==
    /\ part = "auth" => TypeOK
    /\ part = "costing" => Costing!TypeOK
    /\ part = "routing" => Routing!TypeOK
    /\ part = "pipeline" => Pipeline!TypeOK

(* Costing: the total of the day is within that of the month and of all time, none
   holds a cost of another date, and the history is the end of what was booked.   *)
BooksAgree == part = "costing" => Costing!TotalsAreNested /\ Costing!HistoryIsNewest

(* Costing: the totals of day and month are complete unless a record was booked late. *)
DayIsComplete == part = "costing" => Costing!DayIsComplete

(* Routing: what each strategy selects among the capable, for the metrics it read. *)
SelectionIsSound == part = "routing" => Routing!SelectionIsSound

(* Pipeline: a completed row holds the tests of a finished answer and a failed one
   none; 201 tells of a final row, 500 of a refused write; and a row stays between
   the two only for a request that is at work, was refused a write, or died.      *)
OutcomeIsTold == part = "pipeline" => Pipeline!RowTellsTheOutcome /\ Pipeline!ReplyTellsTheRow

=============================================================================
