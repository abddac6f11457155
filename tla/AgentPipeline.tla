----------------------------- MODULE AgentPipeline -----------------------------
(***************************************************************************)
(* One request to POST /api/v2/generate-tests: the endpoint, V23Pipeline   *)
(* (workflows/v23_pipeline.py), AgentWorkflow with its state machine       *)
(* (agent_workflow.py, states.py) and the four agents (agents/*.py) with   *)
(* the validators and mappers of their answers (domain/*_schema.py).       *)
(*                                                                         *)
(* The agents run one after the other in the handler's thread.  Each asks  *)
(* the router (module ProviderFailover) for a JSON object, asks once more  *)
(* when the first answer is not valid, and adds its product to the context *)
(* that is passed on.  A test is its name and its code.                    *)
(***************************************************************************)
EXTENDS Naturals, Sequences, FiniteSets, SequencesExt

CONSTANTS
    Names,          \* names a test may have
    Codes,          \* bodies a test may have
    Blank,          \* a body of white space
    MAX_TESTS,      \* bound on the entries of one answer
    None

\* Assumed by the module that gives the constants their values.
PipelineAssumption ==
    /\ Blank \notin Codes /\ None \notin Codes \cup {Blank}
    /\ None \notin {200, 422, 500} \cup [approved : BOOLEAN, of : Seq([name : Names, code : Codes])]
    /\ MAX_TESTS \in Nat \ {0}

VALID_TRANSITIONS ==
    [INITIALIZED |-> {"PLANNING", "FAILED"},
     PLANNING    |-> {"GENERATING", "COMPLETED", "FAILED"},
     GENERATING  |-> {"REVIEWING", "COMPLETED", "FAILED"},
     REVIEWING   |-> {"REPAIRING", "COMPLETED", "FAILED"},
     REPAIRING   |-> {"REVIEWING", "COMPLETED", "FAILED"},
     COMPLETED   |-> {},
     FAILED      |-> {}]

\* The agents' target states, in the order of V23Pipeline.
Agents == <<"PLANNING", "GENERATING", "REVIEWING", "REPAIRING">>

Entry == [name : Names, code : Codes \cup {Blank}]
Test == [name : Names, code : Codes]

VARIABLES
    state,          \* the state machine's
    agent,          \* how many agents have been started
    attempt,        \* 0: between agents; 1: before the answer to the prompt;
                    \* 2: before the answer to the repair prompt
    nulls,          \* agents whose answer has null for a list it may leave out
    planned,        \* there is a context.test_plan
    tests,          \* context.generated_tests
    review,         \* context.review_report, with the tests that were shown
    history,        \* context.repair_history
    response        \* the endpoint's, None before it

context == <<nulls, planned, tests, review, history>>
vars == <<state, agent, attempt, context, response>>

TypeOK ==
    /\ state \in DOMAIN VALID_TRANSITIONS
    /\ agent \in 0..Len(Agents)
    /\ attempt \in 0..2
    /\ nulls \subseteq Range(Agents)
    /\ planned \in BOOLEAN
    /\ \A i \in DOMAIN tests : tests[i] \in Test
    /\ review = None \/ /\ review.approved \in BOOLEAN
                        /\ \A i \in DOMAIN review.of : review.of[i] \in Test
    /\ \A i \in DOMAIN history :
           history[i] \in [original : Test \cup {None}, repaired : Test]
    /\ response \in {None, 200, 422, 500}

Init ==
    /\ state = "INITIALIZED"
    /\ agent = 0
    /\ attempt = 0
    /\ nulls = {}
    /\ planned = FALSE
    /\ tests = <<>>
    /\ review = None
    /\ history = <<>>
    /\ response = None

-----------------------------------------------------------------------------
(* The answers of a provider, and what the validators make of them.        *)

\* The answers of the generator and of the repairer that are JSON objects with
\* the required keys.
Bodies == UNION {[1..n -> Entry] : n \in 0..MAX_TESTS}

Named(entries, n) == {e \in Range(entries) : e.name = n}

\* Fault: the duplicate check is missing.
FaultDuplicates(body) == body # <<>> /\ \A i \in DOMAIN body : body[i].code # Blank

\* validate_generator_json and validate_repair_json: a list that is not empty,
\* without a name twice and without a blank body.
Valid(body) ==
    /\ body # <<>>
    /\ \A i, k \in DOMAIN body : body[i].name = body[k].name => i = k
    /\ \A i \in DOMAIN body : body[i].code # Blank

\* The elements of s at the positions I, in their order.
Kept(s, I) ==
    [n \in 1..Cardinality(I) |-> s[CHOOSE i \in I : Cardinality({k \in I : k <= i}) = n]]

\* The positions of the entries that are no test's, and of the tests with an entry.
New(existing, entries) == {i \in DOMAIN entries : Named(existing, entries[i].name) = {}}
Met(existing, entries) == {i \in DOMAIN existing : Named(entries, existing[i].name) # {}}

Replacement(entries, t) == CHOOSE e \in Named(entries, t.name) : TRUE

\* map_json_to_repaired_tests: the entries replace the tests of their name, in
\* the tests' order, and entries of other names follow.
Repaired(existing, entries) ==
    [i \in DOMAIN existing |-> IF i \in Met(existing, entries)
                               THEN Replacement(entries, existing[i]) ELSE existing[i]]
    \o Kept(entries, New(existing, entries))

\* Its second result: one action for each entry, with the code it replaces.
RepairActions(existing, entries) ==
    LET met == Kept(existing, Met(existing, entries))
        new == Kept(entries, New(existing, entries))
    IN  [i \in DOMAIN met |-> [original |-> met[i], repaired |-> Replacement(entries, met[i])]]
        \o [i \in DOMAIN new |-> [original |-> None, repaired |-> new[i]]]

-----------------------------------------------------------------------------
(* The endpoint and the workflow.                                          *)

\* A source of less than ten characters does not reach the handler.
RefuseRequest ==
    /\ state = "INITIALIZED" /\ response = None
    /\ response' = 422
    /\ UNCHANGED <<state, agent, attempt, context>>

\* The next agent: transition_to() its target state.
EnterAgent ==
    /\ response = None
    /\ attempt = 0 /\ agent < Len(Agents)
    /\ Agents[agent + 1] \in VALID_TRANSITIONS[state]
    /\ state' = Agents[agent + 1]
    /\ agent' = agent + 1
    /\ attempt' = 1
    /\ UNCHANGED <<context, response>>

Runs(a) == attempt # 0 /\ Agents[agent] = a

\* The repairer has nothing to do: the review is missing or approves the tests.
Skips == Runs("REPAIRING") /\ (review = None \/ review.approved)

SkipRepair ==
    /\ Skips
    /\ attempt' = 0
    /\ UNCHANGED <<state, agent, context, response>>

\* execute() is waiting for the answer to its prompt or to its repair prompt.
Asks == attempt # 0 /\ ~Skips

\* It raises: AgentExecutionError, WorkflowExecutionError, and the pipeline's
\* result has status failed.
AgentFails ==
    /\ state' = "FAILED"
    /\ attempt' = 0
    /\ response' = 500
    /\ UNCHANGED <<agent, context>>

\* The router finds no provider that answers.
ProviderRaises == Asks /\ AgentFails

\* A severity that is no string raises an exception that is no ValidationError:
\* no repair prompt.
AnswerBreaksValidator == Runs("REVIEWING") /\ AgentFails

\* The answer is no JSON object, lacks a key or is not valid: the first is
\* followed by one repair prompt, after the second the error is raised.
AnswerInvalid ==
    /\ Asks
    /\ \/ attempt = 1 /\ attempt' = 2 /\ UNCHANGED <<state, agent, context, response>>
       \/ attempt = 2 /\ AgentFails

\* A valid answer ends the agent.
Accept(a) ==
    /\ Runs(a) /\ Asks
    /\ attempt' = 0
    /\ UNCHANGED <<state, agent, response>>

\* The lists the validator does not look at may be null.
OptionalLists(a) == nulls' \in {nulls, nulls \cup {a}}

AnswerPlan ==
    /\ Accept("PLANNING") /\ OptionalLists("PLANNING")
    /\ planned' = TRUE
    /\ UNCHANGED <<tests, review, history>>

AnswerTests ==
    /\ Accept("GENERATING") /\ OptionalLists("GENERATING")
    /\ \E body \in Bodies : Valid(body) /\ tests' = body
    /\ UNCHANGED <<planned, review, history>>

AnswerReview ==
    /\ Accept("REVIEWING") /\ OptionalLists("REVIEWING")
    /\ \E approved \in BOOLEAN : review' = [approved |-> approved, of |-> tests]
    /\ UNCHANGED <<planned, tests, history>>

\* The lists of repaired tests are those of the originals, or the defaults.
AnswerRepair ==
    /\ Accept("REPAIRING") /\ UNCHANGED nulls
    /\ \E body \in Bodies :
           /\ Valid(body)
           /\ tests' = Repaired(tests, body)
           /\ history' = history \o RepairActions(tests, body)
    /\ UNCHANGED <<planned, review>>

\* Fault: the request of a failed agent is answered like any other.
FaultAnswersAnyway ==
    /\ response = None
    /\ attempt = 0 /\ agent = Len(Agents)
    /\ state' = "COMPLETED"
    /\ response' = 200
    /\ UNCHANGED <<agent, attempt, context>>

\* All agents have run.  _build_result() copies the lists and raises when one of
\* them is null; the endpoint answers that with 500.
Complete ==
    /\ response = None
    /\ attempt = 0 /\ agent = Len(Agents)
    /\ "COMPLETED" \in VALID_TRANSITIONS[state]
    /\ state' = "COMPLETED"
    /\ response' = IF nulls = {} THEN 200 ELSE 500
    /\ UNCHANGED <<agent, attempt, context>>

Advance ==
    \/ RefuseRequest
    \/ EnterAgent
    \/ SkipRepair
    \/ ProviderRaises
    \/ AnswerBreaksValidator
    \/ AnswerInvalid
    \/ AnswerPlan
    \/ AnswerTests
    \/ AnswerReview
    \/ AnswerRepair
    \/ Complete

Answered == response # None /\ UNCHANGED vars

Next == Advance \/ Answered

Spec == Init /\ [][Next]_vars

\* The handler's thread goes on, and every call of the router comes back.
FairSpec == Spec /\ WF_vars(Advance)

-----------------------------------------------------------------------------
\* A result that is returned accounts for its tests.  No name is there twice.
\* The verdict it shows is about the tests the reviewer saw: when it approves,
\* these are the tests returned; when it does not, there was a repair, no test of
\* the reviewed ones is lost, and every test that differs from them has its
\* repair action, with the code it had and the code it has.
ResultIsAccountedFor ==
    response = 200 =>
        /\ \A i, k \in DOMAIN tests : tests[i].name = tests[k].name => i = k
        /\ review.approved => history = <<>> /\ tests = review.of
        /\ ~review.approved => history # <<>>
        /\ {t.name : t \in Range(review.of)} \subseteq {t.name : t \in Range(tests)}
        /\ \A t \in Range(tests) :
               \/ t \in Range(review.of)
               \/ \E h \in Range(history) :
                      /\ h.repaired = t
                      /\ IF Named(review.of, t.name) = {} THEN h.original = None
                         ELSE h.original \in Named(review.of, t.name)

\* A request is refused before the first agent; it fails after the last one only
\* by a null that validation let through, and otherwise by the agent whose state
\* the workflow was in, which leaves no product.
FailureIsExplained ==
    /\ response = 422 => agent = 0
    /\ response = 500 =>
        \/ state = "COMPLETED" /\ nulls # {}
        \/ state = "FAILED" /\ ~(<<planned, tests # <<>>, review # None, history # <<>> >>)[agent]
    /\ response = 200 => state = "COMPLETED" /\ nulls = {}

\* Every request is answered.
EveryRequestIsAnswered == <>(response # None)
=============================================================================
