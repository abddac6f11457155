----------------------------- MODULE HealAndScore -----------------------------
(***************************************************************************)
(* What one job does with the tests it generated: the sandbox run of the   *)
(* pipeline, the self-healing pass (_self_heal() in                        *)
(* services/job_engine.py, domain/failure_classifier.py) and the quality   *)
(* step with its mutation campaign (services/quality_pipeline.py,          *)
(* services/mutation_execution/docker_executor.py).  It is the step        *)
(* HealAndScore of module JobEngine, seen from inside.                     *)
(*                                                                         *)
(* Every run of the sandbox may give any response, also for tests that ran *)
(* before: tests are flaky and the sidecar is not always there.  A         *)
(* response is its exit code and what its output shows.                    *)
(***************************************************************************)
EXTENDS Naturals, Sequences, FiniteSets, FiniteSetsExt, Functions

CONSTANTS
    Settings,       \* the ENABLE_* settings to consider
    Mutants,        \* the mutants of the source code
    None

ASSUME HealAndScoreAssumption ==
    /\ Settings \subseteq [{"sandbox", "self_heal", "quality", "mutation"} -> BOOLEAN]
    /\ IsFiniteSet(Mutants)

VARIABLES
    settings,
    pc,
    row,            \* the generation's row, as committed
    initial,        \* initial_result of _self_heal()
    candidate,      \* the repaired code once it is validated
    campaign,       \* status of each mutant of the campaign
    asked,          \* history: repairs asked of the LLM
    unrun           \* history: mutants the sandbox ran no test for

vars == <<settings, pc, row, initial, candidate, campaign, asked, unrun>>

\* The sidecar's SANDBOX_UNAVAILABLE_EXIT_CODE is -1.
Exit == {"passed", "failed", "killed_137", "unavailable"}

\* What the classifier looks for: the words of its first three patterns, of the
\* TypeErrors and names, of the errors the engine's documentation lists
\* (SyntaxError, IndentationError, ModuleNotFoundError), and AssertionError.
Shown == {"infrastructure", "invocation", "syntax", "assertion"}

Response == [exit : Exit, shows : SUBSET Shown, timeout : BOOLEAN, ran : BOOLEAN]

\* The tests pass, fail or are killed for their memory, with any output; they
\* are stopped by the executor's timeout; docker or the sidecar reports an error
\* (exit code 125, HTTP status other than 200), or there is no answer.
SandboxRun ==
    {r \in Response :
        \/ r.ran /\ r.exit = "passed" /\ r.shows = {} /\ ~r.timeout
        \/ r.ran /\ r.exit \in {"failed", "killed_137"}
        \/ r.ran /\ r.exit = "unavailable" /\ r.shows = {"infrastructure"} /\ r.timeout
        \/ /\ ~r.ran /\ ~r.timeout
           /\ r.exit \in {"failed", "unavailable"} /\ r.shows \subseteq {"infrastructure"}}

\* A seeded fault (see JobEngine).
FaultInfrastructureLast ==
    << <<"invocation", TRUE>>, <<"syntax", TRUE>>,
       <<"assertion", FALSE>>, <<"infrastructure", FALSE>> >>

\* _PATTERNS in their order: what shows, and whether it is repairable.
Rules ==
    << <<"infrastructure", FALSE>>, <<"invocation", TRUE>>,
       <<"syntax", TRUE>>, <<"assertion", FALSE>> >>

\* classify_sandbox_failure(): the first rule that matches.
Classify(r) ==
    LET hits == {i \in DOMAIN Rules : Rules[i][1] \in r.shows}
    IN  IF r.exit = "passed" \/ hits = {} THEN <<"unknown", FALSE>> ELSE Rules[Min(hits)]

Category(r) == Classify(r)[1]
IsRepairable(r) == Classify(r)[2]

Statuses == {"SURVIVED", "TIMEOUT", "ERROR", "KILLED"}
Code == {"generated", "repaired"}

TypeOK ==
    /\ settings \in Settings
    /\ pc \in {"pipeline", "heal", "repair", "rerun", "score", "campaign",
               "persist_quality", "done", "raised"}
    /\ row \in [code : Code, exit : Exit \cup {None}, result_of : Code \cup {None},
                coverage_of : Code \cup {None}, repair_attempted : BOOLEAN,
                repair_success : BOOLEAN, repair_count : 0..1,
                failure : Shown \cup {"unknown", None},
                scored : Code \cup {None}, mutation : [Statuses -> 0..Cardinality(Mutants)]]
    /\ initial \in Response \cup {None}
    /\ candidate \in Code \cup {None}
    /\ DOMAIN campaign \subseteq Mutants
    /\ \A m \in DOMAIN campaign : campaign[m] \in Statuses \cup {"UNTESTED"}
    /\ asked \in 0..1
    /\ unrun \subseteq DOMAIN campaign

NoCampaign == [m \in {} |-> "UNTESTED"]

Init ==
    /\ settings \in Settings
    /\ pc = "pipeline"
    /\ row = [code |-> "generated", exit |-> None, result_of |-> None,
              coverage_of |-> None, repair_attempted |-> FALSE,
              repair_success |-> FALSE, repair_count |-> 0, failure |-> None,
              scored |-> None, mutation |-> [s \in Statuses |-> 0]]
    /\ initial = None
    /\ candidate = None
    /\ campaign = NoCampaign
    /\ asked = 0
    /\ unrun = {}

\* Seeded faults (see JobEngine).
FaultKeepsOldResult(result) ==
    [row EXCEPT !.code = candidate, !.repair_attempted = TRUE, !.repair_count = 1,
                !.failure = Category(initial), !.repair_success = result.exit = "passed"]
FaultAwaitsSandbox(result, attempted) ==
    /\ pc' = IF result.exit = "unavailable" THEN "heal" ELSE "score"
    /\ UNCHANGED row
FaultDropsErrors(status) ==
    IF status = "ERROR" THEN 0 ELSE Cardinality({m \in DOMAIN campaign : campaign[m] = status})
-----------------------------------------------------------------------------
\* Stage 7 of the pipeline and the commit of its result, with coverage if the
\* report can be parsed.  (A pipeline that fails leaves no tests, and nothing of
\* what follows happens.)
RunPipelineSandbox ==
    /\ pc = "pipeline"
    /\ IF settings.sandbox
       THEN \E r \in SandboxRun :
                /\ \E coverage \in {"generated", None} :
                       /\ coverage # None => r.ran /\ r.exit # "unavailable"
                       /\ row' = [row EXCEPT !.exit = r.exit, !.result_of = "generated",
                                             !.coverage_of = coverage]
       ELSE UNCHANGED row
    /\ pc' = IF settings.sandbox /\ settings.self_heal THEN "heal" ELSE "score"
    /\ UNCHANGED <<settings, initial, candidate, campaign, asked, unrun>>

\* No repair: what was found out about the failure is persisted.
Unrepaired(result, attempted) ==
    /\ row' = [row EXCEPT !.repair_attempted = attempted,
                          !.repair_count = IF attempted THEN 1 ELSE 0,
                          !.failure = IF result.exit \in {"passed", "unavailable"} THEN None
                                      ELSE Category(result)]
    /\ pc' = "score"

\* _self_heal() runs the tests once more, and gives up unless they fail in a
\* way that can be repaired.
CheckInitial ==
    /\ pc = "heal"
    /\ \E r \in SandboxRun :
           /\ initial' = r
           /\ IF r.exit \in {"passed", "unavailable"} \/ ~IsRepairable(r)
              THEN Unrepaired(r, FALSE)
              ELSE pc' = "repair" /\ UNCHANGED row
    /\ UNCHANGED <<settings, candidate, campaign, asked, unrun>>

\* The LLM is asked for a repair.  No prompt, an error of the LLM or code that
\* does not parse leave the tests as they are.
AskForRepair ==
    /\ pc = "repair"
    /\ \/ /\ Unrepaired(initial, TRUE)
          /\ asked' \in {asked, asked + 1}
          /\ UNCHANGED candidate
       \/ /\ candidate' = "repaired"
          /\ asked' = asked + 1
          /\ pc' = "rerun"
          /\ UNCHANGED row
    /\ UNCHANGED <<settings, initial, campaign, unrun>>

RepairedRow(result) ==
    [row EXCEPT !.code = candidate, !.exit = result.exit, !.result_of = candidate,
                !.repair_attempted = TRUE, !.repair_count = 1,
                !.failure = Category(initial),
                !.repair_success = result.exit = "passed"]

\* The repaired tests run once and are kept, whatever the result.
PersistRepair(result) ==
    /\ row' = RepairedRow(result)
    /\ pc' = "score"
    /\ UNCHANGED candidate

Rerun ==
    /\ pc = "rerun"
    /\ \E result \in SandboxRun : PersistRepair(result)
    /\ UNCHANGED <<settings, initial, campaign, asked, unrun>>

\* The update of the row raises, and with it the job fails (see JobEngine).
UpdateRaises ==
    /\ pc \in {"heal", "repair", "rerun"}
    /\ pc' = "raised"
    /\ UNCHANGED <<settings, row, initial, candidate, campaign, asked, unrun>>

\* run_pipeline() starts; the mutants are those that generate_mutants() finds.
\* Without a sandbox client none of them is run.
StartQuality ==
    /\ pc = "score"
    /\ IF ~settings.quality
       THEN pc' = "done" /\ UNCHANGED campaign
       ELSE \E ms \in SUBSET Mutants :
                /\ ms = {} \/ (settings.mutation /\ settings.sandbox)
                /\ campaign' = [m \in ms |-> "UNTESTED"]
                /\ pc' = "campaign"
    /\ UNCHANGED <<settings, row, initial, candidate, asked, unrun>>

\* execute_mutant(), its classification of a response.
StatusOf(r) ==
    IF r.exit = "passed" THEN "SURVIVED"
    ELSE IF r.exit = "killed_137" \/ r.timeout THEN "TIMEOUT"
    ELSE IF r.exit = "unavailable" THEN "ERROR"
    ELSE "KILLED"

ExecuteMutant(m) ==
    /\ pc = "campaign"
    /\ m \in DOMAIN campaign /\ campaign[m] = "UNTESTED"
    /\ \E r \in SandboxRun :
           /\ campaign' = [campaign EXCEPT ![m] = StatusOf(r)]
           /\ unrun' = IF r.ran THEN unrun ELSE unrun \cup {m}
    /\ UNCHANGED <<settings, pc, row, initial, candidate, asked>>

Count(status) == Cardinality({m \in DOMAIN campaign : campaign[m] = status})

\* The summary and the score are persisted; an exception on the way leaves the
\* row alone.
PersistQuality ==
    /\ pc = "campaign"
    /\ \A m \in DOMAIN campaign : campaign[m] # "UNTESTED"
    /\ \/ row' = [row EXCEPT !.scored = row.code, !.mutation = [s \in Statuses |-> Count(s)]]
       \/ UNCHANGED row
    /\ pc' = "done"
    /\ UNCHANGED <<settings, initial, candidate, campaign, asked, unrun>>

Work ==
    \/ RunPipelineSandbox
    \/ CheckInitial
    \/ AskForRepair
    \/ Rerun
    \/ UpdateRaises
    \/ StartQuality
    \/ \E m \in Mutants : ExecuteMutant(m)
    \/ PersistQuality

Done == pc \in {"done", "raised"} /\ UNCHANGED vars

Next == Work \/ Done

Spec == Init /\ [][Next]_vars

\* The worker thread goes on, and every call of the sandbox and the LLM returns.
FairSpec == Spec /\ WF_vars(Work)
-----------------------------------------------------------------------------
\* The row's sandbox result is of the tests stored beside it, also after a
\* repair; a repair is a success exactly if the repaired tests were stored and
\* passed; and the tests are only ever replaced by a repair that is accounted for.
StoredResultIsOfStoredTests ==
    /\ row.result_of \in {row.code, None}
    /\ row.repair_success <=> row.code = "repaired" /\ row.exit = "passed"
    /\ row.code = "repaired" => row.repair_attempted /\ row.repair_count = 1 /\ asked = 1
    /\ asked = 1 /\ pc \in {"score", "campaign", "done"} => row.repair_count = 1

\* The LLM is asked for a repair once at most, and never for tests that have
\* just passed, that got no answer, that failed with an assertion only or beside
\* a failure of the infrastructure.
RepairsOnlyBrokenCode ==
    [][asked' # asked =>
           /\ asked = 0
           /\ initial.ran /\ initial.exit \notin {"passed", "unavailable"}
           /\ "infrastructure" \notin initial.shows
           /\ initial.shows \cap {"invocation", "syntax"} # {}]_vars

\* The persisted mutation metrics are of the tests stored beside them, and every
\* mutant of the campaign is counted in one of them.
QualityIsOfStoredTests ==
    row.scored # None =>
        /\ row.scored = row.code
        /\ SumFunction(row.mutation) = Cardinality(DOMAIN campaign)
        /\ campaign # NoCampaign => settings.mutation /\ settings.sandbox

\* Healing and scoring come to an end.
Settles == <>(pc \in {"done", "raised"})

-----------------------------------------------------------------------------
(* What the code's own words claim and its behaviour refutes.              *)

\* docker_executor.py:90, "Container / sidecar error -> ERROR".
SidecarErrorIsError == \A m \in unrun : campaign[m] = "ERROR"
=============================================================================
