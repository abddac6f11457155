-------------------------- MODULE GenerationPipeline --------------------------
(***************************************************************************)
(* One request to POST /api/v1/generate: GenerationService.generate() with *)
(* the row it keeps, the Gemini provider it asks and the stages that turn  *)
(* a raw answer into tests.  The service, its provider and its database    *)
(* session are made for the request, so requests meet only in the cache,   *)
(* whose two tiers are in CacheTiers.  The vendor's SDK is external: it    *)
(* answers or raises as it likes.  The process may die between two steps,  *)
(* and the database may refuse any write.                                  *)
(***************************************************************************)
EXTENDS Naturals

CONSTANTS
    MAX_RETRIES,   \* GEMINI_MAX_RETRIES
    Usages,        \* what the SDK may report as token counts
    None

\* Assumed by the module that gives the constants their values.
GenerationPipelineAssumption ==
    MAX_RETRIES \in Nat \ {0} /\ None \notin Usages \cup {201, 422, 500}

VARIABLES
    stage,            \* where generate() is
    input,         \* the request: sizes, source code and framework
    row,           \* the row of table generations, or None
    cache,         \* what the cache holds for the request's key, or None
    session,       \* "usable", or "broken" after a flush that failed
    response       \* status code of the answer, or None

VARIABLES
    attempt,       \* of the provider's loop
    last_usage,    \* the provider's record of its last call
    answer,        \* the last answer of the SDK
    suite,         \* the tests as parsed and rendered
    error,         \* the class of the exception that is handled
    asked          \* history: number of SDK calls

provider == <<attempt, last_usage, answer, asked>>
vars == <<stage, input, row, cache, session, response, provider, suite, error>>

Usage == Usages \cup {None}

\* A raw answer, by what the stages make of it.  json: the object that is found in
\* the text parses at once, after one stray bracket is removed, or never; shaped: its
\* fields have the types of TestSuite and TestCase; cases: whether tests have names.
Texts == [json : {"object", "stray bracket", "none"}, shaped : BOOLEAN,
          function_name : {"name", ""}, cases : SUBSET {"named", "unnamed"}]
Answers == [finish_reason : {"STOP", "MAX_TOKENS", "UNKNOWN"}, text : Texts \cup {None}, usage : Usage]
Errors == {"timed out", "deadline exceeded", "transient", "refused"}

Suites == [function_name : {"name", ""}, cases : SUBSET {"named", "unnamed"},
           assertions : {"answered", "rebuilt"}]
Inputs == [small : BOOLEAN, source : {"function", "other"}, framework : {"pytest", "unknown"}]

Rows == [status : {"pending", "processing", "completed", "failed"}, tokens : Usage,
         json : Suites \cup {None}, code : Suites \cup {None}]

NewRow(status, tests) == [status |-> status, tokens |-> None, json |-> tests, code |-> tests]

Init ==
    /\ stage = "validate"
    /\ input \in Inputs
    /\ row = None
    /\ cache \in {None, [function_name |-> "name", cases |-> {"named"}, assertions |-> "rebuilt"]}
    /\ session = "usable"
    /\ response = None
    /\ attempt = 1 /\ last_usage = None /\ answer = None /\ asked = 0
    /\ suite = None
    /\ error = None

Reply(code) == stage' = "done" /\ response' = code
Raise(class) == stage' = "handle" /\ error' = class

-----------------------------------------------------------------------------
(* Before the pipeline. *)

\* _validate_input_sizes(): the exception's own handler answers.
ValidateInputSizes ==
    /\ stage = "validate"
    /\ IF input.small THEN stage' = "look up" /\ UNCHANGED response ELSE Reply(422)
    /\ UNCHANGED <<input, row, cache, session, provider, suite, error>>

\* A hit is stored as a completed row, a miss as a pending one.
Create ==
    /\ stage = "look up"
    /\ IF cache # None
       THEN row' = NewRow("completed", cache) /\ Reply(201)
       ELSE row' = NewRow("pending", None) /\ stage' = "claim" /\ UNCHANGED response
    /\ UNCHANGED <<input, cache, session, provider, suite, error>>

StartProcessing ==
    /\ stage = "claim"
    /\ row' = [row EXCEPT !.status = "processing"]
    /\ stage' = "analyse"
    /\ UNCHANGED <<input, cache, session, response, provider, suite, error>>

\* analyse() wants Python code with a function in it.
Analyse ==
    /\ stage = "analyse"
    /\ IF input.source = "function" THEN stage' = "ask" /\ UNCHANGED error ELSE Raise("validation")
    /\ UNCHANGED <<input, row, cache, session, response, provider, suite>>

-----------------------------------------------------------------------------
(* GeminiProvider.generate(). *)

IsTimeout(e) == e \in {"timed out", "deadline exceeded"}
IsRetryable(e) == e \in {"transient", "deadline exceeded"}

\* The SDK answers.  An answer without text breaks the log statement that takes its
\* length, which ends the loop and drops its usage.
Ask ==
    /\ stage = "ask"
    /\ answer' \in Answers
    /\ asked' = asked + 1
    /\ last_usage' = IF answer'.text = None THEN None ELSE answer'.usage
    /\ IF answer'.text = None THEN Raise("llm")
       ELSE /\ stage' = IF answer'.finish_reason = "STOP" THEN "parse" ELSE "ask again"
            /\ UNCHANGED error
    /\ UNCHANGED <<input, row, cache, session, response, attempt, suite>>

\* It raises: a timeout is final and keeps the usage, a transient error is tried again.
AskRaises ==
    /\ stage = "ask"
    /\ asked' = asked + 1
    /\ \E e \in Errors :
         \/ /\ IsTimeout(e)
            /\ Raise("llm") /\ UNCHANGED <<attempt, last_usage>>
         \/ /\ ~IsTimeout(e) /\ IsRetryable(e) /\ attempt < MAX_RETRIES
            /\ attempt' = attempt + 1 /\ UNCHANGED <<stage, error, last_usage>>
         \/ /\ ~IsTimeout(e) /\ ~(IsRetryable(e) /\ attempt < MAX_RETRIES)
            /\ Raise("llm") /\ last_usage' = None /\ UNCHANGED attempt
    /\ UNCHANGED <<input, row, cache, session, response, answer, suite>>

\* Fault: the second answer is taken as it is.
FaultTakesTheSecond ==
    /\ stage = "ask again"
    /\ answer' \in Answers
    /\ asked' = asked + 1
    /\ last_usage' = answer'.usage
    /\ IF answer'.text # None THEN stage' = "parse" /\ UNCHANGED error ELSE Raise("llm")
    /\ UNCHANGED <<input, row, cache, session, response, attempt, suite>>

\* _retry_incomplete(): one more call, whose answer must be complete.
AskAgain ==
    /\ stage = "ask again"
    /\ answer' \in Answers
    /\ asked' = asked + 1
    /\ last_usage' = answer'.usage
    /\ IF answer'.text # None /\ answer'.finish_reason = "STOP"
       THEN stage' = "parse" /\ UNCHANGED error ELSE Raise("llm")
    /\ UNCHANGED <<input, row, cache, session, response, attempt, suite>>

AskAgainRaises ==
    /\ stage = "ask again"
    /\ asked' = asked + 1
    /\ Raise("llm")
    /\ UNCHANGED <<input, row, cache, session, response, attempt, last_usage, answer, suite>>

-----------------------------------------------------------------------------
(* From the answer to tests. *)

\* parse(): the object is found, repaired and converted; a missing function name
\* becomes "unknown".
Parsed(text) ==
    IF text.json = "none" \/ ~text.shaped THEN None
    ELSE [function_name |-> text.function_name, cases |-> text.cases, assertions |-> "answered"]

\* The schema validator refuses; the other two only warn.
Valid(s) == s.function_name # "" /\ s.cases # {} /\ "unnamed" \notin s.cases

\* The code generator rewrites the assertions in place, before the JSON is stored.
Rebuilt(s) == [s EXCEPT !.assertions = "rebuilt"]

\* Stages 4 to 6.  There is a template for pytest only.
ParseAndRender ==
    /\ stage = "parse"
    /\ LET s == Parsed(answer.text) IN
         IF s = None THEN Raise("validation") /\ UNCHANGED suite
         ELSE IF ~Valid(s) THEN Raise("validation") /\ UNCHANGED suite
         ELSE IF input.framework # "pytest" THEN Raise("other") /\ UNCHANGED suite
         ELSE stage' = "persist" /\ suite' = Rebuilt(s) /\ UNCHANGED error
    /\ UNCHANGED <<input, row, cache, session, response, provider>>

-----------------------------------------------------------------------------
(* What is kept, and what is told. *)

Persist ==
    /\ stage = "persist"
    /\ row' = [status |-> "completed", tokens |-> last_usage, json |-> suite, code |-> suite]
    /\ stage' = "store"
    /\ UNCHANGED <<input, cache, session, response, provider, suite, error>>

\* CacheManager.set(): the first tier always takes the value; that the second does
\* not is swallowed, and leaves the session broken.
Store ==
    /\ stage = "store"
    /\ cache' = suite
    /\ session' \in {"usable", "broken"}
    /\ stage' = "return"
    /\ UNCHANGED <<input, row, response, provider, suite, error>>

\* The except clauses.  Only that of the provider's errors stores the usage.
Handle ==
    /\ stage = "handle" /\ session = "usable"
    /\ row' = [row EXCEPT !.status = "failed", !.tokens = IF error = "llm" THEN last_usage ELSE @]
    /\ stage' = "return"
    /\ UNCHANGED <<input, cache, session, response, provider, suite, error>>

\* A write is refused, and with it all that follow in the session.
WriteFails ==
    /\ stage \in {"look up", "claim", "persist", "handle"}
    /\ session' = "broken"
    /\ IF stage = "persist" THEN Raise("other") /\ UNCHANGED response ELSE Reply(500) /\ UNCHANGED error
    /\ UNCHANGED <<input, row, cache, provider, suite>>

\* The row is read again for the answer.
Return ==
    /\ stage = "return"
    /\ Reply(IF session = "usable" THEN 201 ELSE 500)
    /\ UNCHANGED <<input, row, cache, session, provider, suite, error>>

\* The process dies; the cache's first tier goes with it and the row stays.
Die ==
    /\ stage \notin {"done", "dead"}
    /\ stage' = "dead" /\ cache' = None
    /\ UNCHANGED <<input, row, session, response, provider, suite, error>>

Next ==
    \/ ValidateInputSizes \/ Create \/ StartProcessing \/ Analyse
    \/ Ask \/ AskRaises \/ AskAgain \/ AskAgainRaises
    \/ ParseAndRender \/ Persist \/ Store \/ Handle \/ WriteFails \/ Return
    \/ Die

Spec == Init /\ [][Next]_vars

-----------------------------------------------------------------------------
Stages == {"validate", "look up", "claim", "analyse", "ask", "ask again", "parse",
           "persist", "store", "handle", "return", "done", "dead"}

(* Types, and the number of calls to the vendor: one per attempt and one more. *)
TypeOK ==
    /\ stage \in Stages
    /\ input \in Inputs
    /\ row \in Rows \cup {None}
    /\ cache \in Suites \cup {None}
    /\ session \in {"usable", "broken"}
    /\ response \in {None, 201, 422, 500}
    /\ attempt \in 1..MAX_RETRIES /\ last_usage \in Usage
    /\ answer \in Answers \cup {None} /\ asked \in 0..MAX_RETRIES + 1
    /\ suite \in Suites \cup {None}
    /\ error \in {None, "validation", "llm", "other"}

(* A completed row holds tests that are fit to run, JSON and code of one suite, made
   from an answer the vendor finished, with that answer's usage; or it is a copy from
   the cache, and the vendor was not asked.  A failed row holds no tests, and what
   usage it holds is that of the last answer.                                    *)
RowTellsTheOutcome ==
    row # None =>
        /\ row.status = "completed" =>
             /\ row.json = row.code /\ Valid(row.json) /\ row.json.assertions = "rebuilt"
             /\ \/ asked = 0 /\ row.tokens = None
                \/ /\ answer.finish_reason = "STOP" /\ answer.usage = row.tokens
                   /\ row.json = Rebuilt(Parsed(answer.text))
        /\ row.status = "failed" =>
             /\ row.json = None /\ row.code = None
             /\ row.tokens # None => row.tokens = answer.usage

(* The caller of generate() is told the truth: 201 is answered with a row in a final
   status, and 500 only if the database refused a write.  A row that is neither
   completed nor failed belongs to a request at work, to a process that died, or to a
   request whose write was refused, and to nobody else.                          *)
ReplyTellsTheRow ==
    /\ response = 201 => row.status \in {"completed", "failed"}
    /\ response = 500 => session = "broken"
    /\ (row # None /\ row.status \in {"pending", "processing"} /\ stage = "done") => response = 500

=============================================================================
