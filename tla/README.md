# Verification of TestGenAI

TLA+ models of the TestGenAI backend and frontend state logic, the TLC runs that
check them on small instances, and TLAPS proofs about them. All paths are
relative to the repository.

## 1. Inventory of the system

| Component | State it keeps | Operations | Talks to | What is hard |
|---|---|---|---|---|
| **Job engine** (`backend/app/services/job_engine.py`, `repositories/job_repository.py`, `api/v2/jobs.py`, `main.py`) | rows of `generation_jobs`: status, retry count, checkpoint and payload, link to the generation; FastAPI's in-memory background queue | submit, claim, checkpoint, complete, fail, orphan, requeue, reschedule | generation service (same DB session), sandbox, quality pipeline; other server processes through the database | crash between two commits, several processes over one table, stale ORM rows, best-effort error handling |
| **Self-healing** (`_self_heal` in `job_engine.py`, `domain/failure_classifier.py`, `domain/self_healing.py`) and **mutation campaign** (`services/quality_pipeline.py`, `mutation_runner.py`, `mutation_execution/*`) | the generated test code and its last sandbox result; repair counters; mutation counts | classify a failure, ask the LLM for a repair, run it again; run mutants, count, persist | provider router, sandbox client, generation row | code, result and metrics of the row must be of one version over several attempts, each of which may fail |
| **Generation service** (`services/generation_service.py`, `ai/providers/gemini_provider.py`, `ai/parsers/*`, `ai/validators/*`, `repositories/generation_repository.py`) | rows of `generations` | create, process, complete/fail, cache hit | cache, LLM vendor, database session | which errors end in a failed row and which escape; an unfinished answer asked for again |
| **Provider layer** (`infrastructure/providers/*`, `infrastructure/routing_strategies/*`) | counters, latency window and costs per provider | select, call, retry with back-off, fail over, record, stream | vendor APIs | shared mutable state across worker threads, retry classification, midnight, text of two generations after a failed stream |
| **Cache** (`app/cache/*`, `repositories/cache_repository.py`) | L1: bounded in-process LRU with TTL; L2: table rows with expiry | get, set, invalidate, purge | generation service; other processes through L2 | two tiers without a common transaction, expiry, repopulation racing invalidation |
| **Sandbox** (`backend/sandbox/executor.py`, `app/sandbox/client.py`) | semaphore of slots, table of containers, reaper | execute, kill on timeout, reap | Docker, job engine, mutation executor | a timeout racing the answer, a kill that fails or comes too early, the reaper and the handler at one container |
| **Agents** (`agents/*`, `workflows/*`, `domain/*_schema.py`, `api/v2/generate_tests.py`) | the state and the context of one workflow | plan, generate, review, repair | provider layer | errors and malformed answers at any of eight calls; what the result says about tests that were repaired after the review |
| **Authentication** (`api/v2/auth.py`, `app/auth/*`, user and API-key repositories) | users, API keys, issued tokens | register, login, admit by token or key, create/list/revoke keys | database | check-then-insert and check-then-update with other requests in between |
| **Frontend** (`frontend/src/stores`, `frontend/src/hooks`) | current job, poller, loaded result; page of the history | submit, poll, cancel, load; turn pages, open a generation | REST API | answers that arrive late or in another order, two pollers, flags that stay up |
| **Prompts, indexers, validators, schemas, benchmark, confidence, smells, score** | none that outlives a call | pure transformations and reports | | content, not control |

What makes each part correct:

* job engine: one worker per job, bounded retries, a COMPLETED job has its result,
  progress never goes backwards, the documented state machine, every started task
  settles, nothing is left over after a restart;
* self-healing and campaign: what is stored about the tests is about the tests that
  are stored; only broken code is repaired, once; every mutant is counted once;
* generation service: row, usage and status code tell the same story as the answer;
* provider layer: the answer is that of one configured provider or an error after
  all gave up; a bounded number of tries; books that agree; one text per stream; a
  selection that is right for the metrics that were read;
* cost: totals of the right day and month, nothing lost, nothing counted twice;
* cache: an answer is a finished result for the key asked, of a bounded age; an
  invalidated value is gone;
* sandbox: every path gives its slot back, no container runs unwatched, the reaper
  spares runs that somebody waits for, a run without end is stopped;
* agents: every test of the result was reviewed or is the logged repair of one; a
  failure is explained by the agent that was at work;
* authentication: an account is that of the one registration that was confirmed; who
  is let in has an account, and nobody with a key that was said to be revoked;
* frontend: flags are up exactly while something is outstanding; the result shown is
  of the job shown, the rows are those of the page named.

## 2. How the project is built

The order of the work was that of the damage a defect would do.

| Module | Models | Composed with / implements | Checked in | Proofs |
|---|---|---|---|---|
| `JobEngine` | job table, workers, recovery | implements `JobLifecycle` (documented state machine) | `job_*` | `JobEngine_proofs` |
| `ProviderFailover` | one `execute_prompt()` per thread | implements `ProviderRouting` (what a caller relies on) | `failover` | `ProviderFailover_proofs` |
| `HealAndScore` | what a job does with its tests | the step of that name in `JobEngine` | `heal*` | `HealAndScore_proofs` |
| `CacheTiers` | both tiers and their users | used by `FinishGeneration` of `JobEngine` and by `GenerationPipeline` | `cache*` | `CacheTiers_proofs` |
| `Sandbox` | sidecar, reaper, docker, client | its responses are those `HealAndScore` starts from | `sandbox` | `Sandbox_proofs` |
| `CostTracker` | `record()` around midnight | its `Book` is what `ChargeCost` of `ProviderFailover` calls | `services` | `Services_proofs` |
| `HealthRouting` | health monitor, strategies | its choice is `Route` of `ProviderFailover` | `services` | `Services_proofs` |
| `Auth` | accounts, tokens, keys | | `services` | `Services_proofs` |
| `GenerationPipeline` | one V1 request with its vendor | its row is the one of `JobEngine` | `services` | `Services_proofs` |
| `ProviderStream` | one streamed call | its action `Reroute` is one call of `ProviderFailover` | `flows` | `Flows_proofs` |
| `AgentPipeline` | one `/generate-tests` request | each of its calls is one of `ProviderFailover` | `flows` | `Flows_proofs` |
| `JobStore` | browser side of a job | polls what `JobEngine` stores | `flows` | `Flows_proofs` |
| `HistoryStore` | browser's history page | | `flows` | `Flows_proofs` |
| `Sums` | nothing of the program: what the sums of the community modules are, for every finite set | | | itself |

Components meet in two ways. Where one implements the promise of another, the promise
is a module and the run checks the refinement (`ImplementsLifecycle`,
`ImplementsRouting`). Where one calls another, the caller has a single step with every
result the callee's module shows to be possible.

`MCServices` and `MCFlows` put parts that share no state into one run: a variable, `part` or
`flow`, is chosen in `Init` and names the part whose steps are taken, the others stay
where they begin. This is a set of small instances in one state graph, not a
composition; there is nothing between these parts to interleave.

## 3. Modules and code

**`JobEngine`.** Variables are the columns of `generation_jobs` that matter
(`models/job.py`), the status of generation rows, the stage of each background task,
and the local variables of `startup_recovery()`. A process is one *life* of a server:
`Start`, then the recovery (`MarkOrphanedJobs`, `ListOrphans`, `VisitOrphan`,
`ClaimForRetry` or `FailExhausted`, `FinishRecovery`, `ScheduleRecoveryJobs`, `Serve`),
then requests (`Submit`) and tasks (`AtomicClaim` to `MarkCompleted` or `MarkFailed`),
until `Crash`. Each action is one committed statement, so that another process or a
crash may come between any two. `DBErrors` makes every database call fallible,
`Overlap` lets several lives run at once: several workers, or the old server still
finishing while the new one starts. Two simplifications: RETRYING, which
`claim_for_retry()` sets and replaces by PENDING before its commit, is folded into that
step; and the jobs that `schedule_recovery_jobs()` awaits one after the other run side
by side, which allows more behaviours. Neither matters today, because no job
is ever resumable.

**`JobLifecycle`.** The state machine in the docstring of `job_engine.py`: five
statuses, its arrows, nothing else.

**`ProviderFailover`.** One `execute_prompt()` per call, each in a thread of its own:
route, call the vendor, record the outcome in the health monitor, charge the cost or
note the error, retry or go on to the next provider. A step ends where another thread
may get hold of shared state. The code's list of providers to try and its index are
`current`, the provider in use, and `left`, those not given up; the next one is the
first of `left` in the registry's order (`FirstOf`). The job engine and the pipeline
build a router of their own (`job_engine.py:137`, `v23_pipeline.py:40`); the container's
router (`container.py:47`) is shared by all who ask for it, which is the case modelled.
The strategy's choice is any candidate here. Counters saturate at `COUNT_LIMIT`, which no
behaviour of the instance exceeds.

**`ProviderRouting`.** What a caller may rely on: the answer of a provider that has not
given up, or an error when all have.

**`HealthRouting`.** Which provider the strategy chooses: counters and latency window of
the health monitor, the router's reading of all providers one after the other, each
under its own lock, while other calls record outcomes; the evaluator and the ten
strategies over the registry of capabilities. Rates and scores are integers in
ten-thousandths. A call under the strategy `HealthAware`, the only one that reads what
others write, is stepped through; that all ten select soundly is evaluated for the
metrics every such call has read.

**`ProviderStream`.** One streamed call with its two fall-backs: the vendor's blocking
call, then the router's. A piece of text is named for the generation it is part of.
Streaming is reached by the router's public interface and by tests; no page or route of
the application uses it yet.

**`CostTracker`.** `record()` in two steps, for the clock is read before the lock is
taken, with midnight and the end of a month anywhere in between. `reset()`, which only
tests call, and token counts are left out.

**`CacheTiers`.** Any number of processes with an L1 each, shared by the request threads
of that process (the v1 route is a plain function and runs in the thread pool), over one
L2 table. A request is one `generate()` or one `invalidate()`; its steps are critical
sections of L1 and database statements. A key with two misses in flight makes the
INSERT of the second fail. `MAX_CALL` bounds how long one call of the cache may take,
in ticks, which the bound on the age of an answer depends on.

**`HealAndScore`.** What one job does with its tests: the sandbox run of the pipeline,
`_self_heal()` and its classifier, the persistence of the result, the mutation campaign
and the persistence of its counts. Every sandbox run may give any response. A crash is a
stutter here: the row only holds committed values, so every invariant speaks of what a
crash would leave. `GenerationWorkflow`, which nothing in the application uses, is not
modelled.

**`GenerationPipeline`.** `generate()` of the V1 service from the size check to the
answer: look-up, row, the Gemini provider with its retries and its second call for an
answer that was cut short, parsing, validation, rendering, the final write and the cache.
The vendor answers or raises as it likes, the database may refuse any write, and the
process may die between two steps. Resuming from a checkpoint is left out: no caller can
reach it (`NothingResumable` of `JobEngine`).

**`AgentPipeline`.** One request to `/generate-tests`: the workflow's transition table,
four agents in their order with one repair prompt each, the validators and mappers of
their answers, and the result. A test is a name and a body; a repair replaces tests by
name and adds others. Prompts, reasoning traces and the analytics of the result decide
nothing and are left out.

**`Sandbox`.** The `/execute` handler never awaits, so the event loop runs one at a time
and requests queue before it; a container is driven by a `docker run` process; the table of
containers is shared with the reaper thread; the client has a timeout of its own. Docker is
external: a container is created, started and ended in steps that need not come, and a
kill may raise or find nothing that runs. The sidecar may die and restart; containers
survive it. Time is in ticks, and no tick passes over a deadline the code is to act on.
Temporary files and `/health` are left out.

**`Auth`.** Registration, login, admission by token or by API key, and the creation,
listing and revocation of keys, each statement a step, with tokens that expire, accounts
that are disabled and restarts that switch `ENABLE_AUTH`. Hashes and signatures are
library code: a password is right or wrong, a token is its payload.

**`JobStore`.** `useJobStore.js` as the button, the keyboard and the result panel drive
it. Answers, failures and timers come in any order; the guard on `isActive` in
`useGenerate` is part of the model. **`HistoryStore`.** The history page with its
pagination, and the opening of an old generation.

`Fault...` operators in the modules are wrong forms of definitions; no action uses them.
Each stands for one plausible mistake and is put in place of the right definition to
see that a property notices.

## 4. Runs

| Run | Question | Instance, and why it is enough |
|---|---|---|
| `job_single` | one server at a time: does the engine implement its state machine, clean up and settle? | 2 jobs, 2 lives, 1 retry: a crash at any point of either job, a recovery that sees 0, 1 or 2 orphans |
| `job_overlap` | overlapping servers and a failing database: safety | 2 jobs, 3 lives, 1 retry: one life submits and executes while two recover at once; both orphans in one list, so that the second is judged by a count read again after the first one's commit |
| `job_requeued` (refuted) | is a requeued job executed? | 1 job, 2 lives |
| `job_final` (refuted) | is COMPLETED final? | 2 jobs, 3 lives: the second job's commit expires the loaded retry count of the first |
| `failover` | books, retry budget, routing, termination | 2 calls in parallel, 3 providers of which one has no key, 2 retries, an error of each class: retryable, known and not retryable, unknown |
| `cache` | what may be answered, and how old | 2 processes, 3 requests of which 2 in flight, 2 keys that compete for an L1 of size 1; 5 ticks, one more than the oldest answer allowed |
| `cache_broken` (refuted) | does an L2 failure spare the caller? | two misses of one key |
| `heal` | row, repair and counts agree; the job gets to its end | every combination of the four settings, every response of every run, 2 mutants |
| `heal_sidecar` (refuted) | is a sidecar error counted as an error? | the same |
| `sandbox` | slots, watched containers, the reaper's patience, every run reclaimed | 2 requests, each with the usual timeout or one beyond the reaper's cutoff, 1 crash: one request runs while the other queues and its client gives up |
| `services` | cost books, selection, accounts and admission, what a V1 request tells | see below |
| `flows` | flags, results, rows, streams, agents; everything ends | see below |

In `services`: the cost tracker has 2 threads, 3 days of which the last begins a new
month, and a history of 2 that overflows; all costs are 1, since what matters
is which records a total holds. Routing has 2 threads, 3 providers of which one has no key, 3 recorded outcomes and a
window of 2 latencies, one on each side of the threshold. Authentication has 2 handlers, 2
addresses, 2 passwords, one key, tokens that expire, one restart: every race is one of two
handlers over one address or one key. The pipeline has a retry limit of 2 and 2 different usages,
so that the usage of the first answer can be told from that of the second.

In `flows`: the job store has 3 submissions, so that there is one before and one after
the one looked at, with 2 polls each and two kinds of failure; the history page has 3 pages and 4 requests; the stream has a vendor
that marks its last piece, one that does not and one in mock mode, with up to 4 pieces and
a failure at each; the agents have up to 2 tests over 2 names and 2 bodies, so that a
repair may replace, add, or do both.

The named bounds are those of the configurations: `MAX_...`, `LAST_...` and the sizes of
sets. They bound what an environment does (requests, days, crashes, polls), never what the
code does in answer.

Fairness is weak throughout and only of what the code or its scheduler keeps doing:

* `JobEngine`: a live process executes its start-up code and its worker threads; nothing
  promises that a client submits, that a crashed server is started again, or that errors
  happen or do not.
* `ProviderFailover`, `ProviderStream`, `AgentPipeline`, `HealAndScore`: a thread runs on,
  and every call of a vendor or of the sandbox returns or raises, as their clients have
  timeouts; a consumer of a stream pulls on or closes it.
* `JobStore`: requests are answered or fail (axios has a timeout) and timers fire. The
  server need not ever finish a job.
* `Sandbox`: the handler goes on, time passes, and clients give up when their time is over.
  Tests need not end and docker need not make progress: the deadline of
  `subprocess.run()` is what ends a run.

`CostTracker`, `CacheTiers`, `HealthRouting`, `Auth` and `GenerationPipeline` have safety
properties only. Deadlock is checked in the runs whose instances cannot come to rest other
than by ending (`job_*`, `failover`, `heal*`); in the others the clock stops, or the
requests of the instance are used up. Symmetry is used in safety runs only.

## 5. Proofs

Eight modules hold theorems, for every value of the constants that the named assumptions
allow. All have the same shape: a strengthened invariant (`IInv`, or one per part), a lemma
that the initial states satisfy it, one per action (or group of actions) that it is
preserved, and the theorems a reader wants follow from it. Every safety invariant and every
action property of the passing runs is a theorem.

| Module | Theorems | Holds for |
|---|---|---|
| `JobEngine_proofs` | `TypeCorrect`, `OneWorker`, `RetriesBounded`, `CompletedIsBacked`, `RecoveryExecutesNothing`, `ProgressIsKept` | any jobs and lives, any retry limit, overlapping or not, with or without database errors |
| | `NothingLeftOver`, `EngineIsLifecycle` (the refinement) | the same, but one life at a time and a database that answers |
| `ProviderFailover_proofs` | `TypeCorrect`, `BudgetIsKept`, `RefusalsAreFinal`, `RoutingIsImplemented` (the refinement) | any calls, registry, retry limit and errors |
| | `TheAccountsAgree` | finitely many calls, whose tries the counters have room for (`Room`) |
| `CacheTiers_proofs` | `SpecTypeOK`, `SpecAnswerIsGenuine`, `SpecInvalidatedIsGone` | any processes, requests, keys, sizes and times to live, with either tier off |
| `HealAndScore_proofs` | `TypeCorrect`, `ResultsAreOfTheTests`, `RepairsAreWarranted`, `QualityIsOfTheTests` | any settings and any finite set of mutants |
| `Sandbox_proofs` | `TypeCorrect`, `SlotsBalance`, `NoneStrays`, `ReaperIsPatient` | any clients, slots, crashes, and timeouts with a greatest one |
| `Services_proofs` | `TypeCorrect`, `AccountsAreWarranted`, `AdmissionsAreWarranted` | any handlers, addresses, keys, lifetime of tokens, restarts |
| | `OutcomesAreTold` | any retry limit and usages |
| | `TheBooksAgree`, `TheDayIsComplete` | any threads, costs, days, history size, length of a month |
| | `SelectionsAreSound` | any threads, outcomes, latencies and window; the router of `MCServices` |
| | `AllTypesAreOK`, `ServicesAreServices` | all of these |
| `Flows_proofs` | `TypeCorrect`, `FlagsAreTrue`, `ResultsAreOfTheJob` | any number of submissions and polls, any failures |
| | `PageShowsItsRows` | any pages, requests and failures |
| | `StreamIsOneAnswer`, `StreamGrowsOrRestarts` | any vendors, texts of any length |
| | `ResultsAreAccountedFor`, `FailuresAreExplained` | any names and bodies, answers with any number of tests |
| | `FlowsAreFlows` | all of these |
| `Sums` | lemmas only | any finite set and any function to the naturals |

**Job engine.** Assumed: NULL is none of the values stored, the retry limit is a natural
number, the two switches are Booleans (`JobEngineAssumption`). `IInv` adds what the
properties rest on:

* a job has at most one task over all lives (`OneTask`), and that task was queued by the
  submission (`FreshQueue`); the recovery never queues one, for a requeued job has no
  linked generation (`LinkedAtEnd`) and no checkpoint payload holds its source;
* so a job is claimed and orphaned at retry count 0 only (`FirstTry`), and a row on a
  recovery's list can no longer be claimed by anyone (`ChosenSettled`): whatever stale
  count a recovery compares, the guard of `claim_for_retry()` lets one requeue pass;
* the checkpoint and the generation row follow the stage of the only task
  (`StageMatches`), hence a COMPLETED row is backed, and a late worker whose job was
  orphaned and requeued meanwhile still only moves the checkpoint forward.

The argument shows something about the code: that two workers never meet, and that no
job is retried beyond its limit, holds *because* recovery executes nothing
(`NothingResumable`, which `job_requeued` shows to be a defect). With the source code in
the payload, as the docstring of `schedule_recovery_jobs()` assumes, the seeded fault
`FaultSourceNotChecked` shows two live workers on one job. A repair of the first defect
has to come with a guard on the writes of `MarkCompleted`, `MarkFailed` and
`save_checkpoint()`.

`NothingLeftOver` and `EngineIsLifecycle` are about one life at a time and a database that
answers, as `job_single` is: a second process orphans the jobs of the first (section 6), and a
recovery whose statement raises leaves its rows as they are. `Solo` adds to `IInv` that one life
at most is alive (`OneLife`), that tasks exist only while it serves (`TasksServe`) and each
holds its job in the status its stage says (`TaskHolds`), and that an orphan is on the list of
the recovery under way (`OrphansListed`) and there for the first time (`NoCountLoaded`), so that
the count it judges a job by is the true one. The refinement maps each row to its status; each
step is an arrow of `JobLifecycle` or changes no status.

**Fail-over.** The providers a call has not given up are untried but for the current one
(`Untried`), and how often that one was asked is told by the number of retries (`Told`): so the
budget is kept per provider although the counter is shared. An error that must not be
retried is still in the call's hands when it decides (`Judged`), and it gives the provider up.
The refinement maps the outcome of each call and the set of providers it gave up; every
step is one of `ProviderRouting` or changes neither.

The books agree in every state, not only when all is done (`Books`): the health monitor
lacks exactly the calls that are on their way to it (`At("recording")`), the cost tracker
those and the successes that are still to be charged, the error notes those still to be
noted. One lemma per action says what it adds to which sum; each such sum over the
calls is taken apart with the lemmas of `Sums`. The counters saturate only in the model, so `Room`
asks that all calls together cannot reach `COUNT_LIMIT`.

**Cache.** An entry of L1 and a row of L2 hold what a pipeline completed for their own key, and
expire a bounded time after that was (`GoodEntry`, `GoodRow`); so does the row a request has
loaded and not yet copied (`LoadedGenuine`). A hit may be copied from L2 to L1 at the end of its life
there and live once more, so the oldest answer is of the age `L1_TTL + L2_TTL` and the time of
the calls in between. For the invalidation: what a process retired is in no L1 of its own, in
no row and in no request's hands (`L1Retired`, `L2Retired`, `LoadedRetired`). An `invalidate()` is two
steps, and between them a row may refill L1; that nothing else is in flight meanwhile
(`AloneIsAlone`, `DroppedIsGone`) is the precondition the property names and the proof needs.

**Self-healing.** Until a repair is stored the row is that of the generated tests
(`Untouched`); who asks the LLM holds a response whose first matching rule is a repairable
one (`AskedOnce`). That rests on a fact about the sidecar: the response of a run that did not
take place matches no rule but that of the infrastructure (`SandboxResponds`). The campaign counts
each mutant it has run under one status, so the counts add up to what was run, and to all
mutants when it is stored; whatever was scored was scored for the tests in the row, for
the campaign begins after the last repair.

**Sandbox.** A `docker run` process is the handler's or outlived the sidecar
(`CliIsWatched`), and what runs is waited for or was given up by a kill that raised
(`RunningIsWatched`). No run gets older than its timeout and one kill (`AgeBound`), which is
below the reaper's cutoff as long as a kill takes less time than the reaper's grace; this is
an assumption on two constants of the code (5 s and 10 s).

**Authentication.** What a handler has read of a key stays true while it waits for its next
statement, because rows are only added, revoked and disabled (`Sound`). So a request that
is let in by a key found it when nobody had yet been told that it is revoked. The address is
unique by the table, not by the check before it.

**Generation pipeline.** Until its last write the row is the empty one that was claimed
(`RowFollows`); the provider's record of usage is that of the answer at hand, and each attempt has
asked once (`RecordIsOfAnswer`); what is about to be written is made from that answer, or was so when
it was cached (`SuiteIsFit`); a session is broken by a refused write only, and the reply is the last
step (`SessionFollows`).

**Cost tracker.** Each total is the sum of the records at some positions of the book
(`TotalsAreOfTheBooked`). Those of the day are the longest end of the book that is all of the
current date, which is what "cleared when the date changes" amounts to (`Since`), and likewise for the
month; `TheDayIsComplete` follows because without a late record the records of a date are such
an end. That the day's total is within the month's rests on the month being a monotone
function of the day, and on sums growing with the set.

**Routing.** What a call has read of a provider is what that provider was at some time since the
reading began (`Knows`), however the outcomes of others fall in between. The rest is about
operators: every strategy selects an available provider for *any* metrics, also where no
rule of its own applies, and scores stay within a hundred percent. `Registered`, the router's
list, is a definition of `MCServices`; the proof uses of it only that it is not empty, names no provider
twice and names known ones.

**Job store.** The store is about one thing at a time (`OneAtATime`): since the button does
nothing while a flag is up, a submission starts when nothing is outstanding, its answer
starts the only poller, and the last answer of that poller the only load. No poller is ever
cancelled with its request under way (`CancelledIsOver`). The guard is in `useGenerate`, outside
the store; with a weaker one (the seeded fault `FaultGuard`) `ResultsAreOfTheJob` is false.

**History page.** An answer assigns the rows together with the page they are of, and nothing else
assigns either, so the property is inductive as it stands: answers may overtake each other, and what
is shown is of one page, though perhaps not of the one asked for last.

**Stream.** While a stream runs, what a consumer has collected is what the router has
accumulated, and all of it is of the vendor's own stream; a replacement is delivered whole and
last (`StreamInv`). So who joins the pieces never mixes two generations, for texts of any
length.

**Agents.** An agent that is done has left its product, and no other has (`AtWork`); a request that
fails does so at the agent whose turn it is. The mapper of a repair keeps names apart, loses none, and
logs what it replaces or adds; these are lemmas about its operators for sequences of any
length, and with them the result accounts for every test (`Reported`).

**Compositions.** A behaviour of `MCServices` or `MCFlows` is one of each of its parts, of which
all but one rest (`ServicesAreServices`, `FlowsAreFlows`), so an invariant proved of a part holds of
the composition, and with `part = ...` or `flow = ...` in the properties nothing is asked of parts at rest.

**Sums.** A fold of the community modules over a finite set takes the elements in an order that
`CHOOSE` gives. The library's theorems on induction take an operator as a parameter, which no
installed prover can instantiate; `SetInduction` goes over a *set* of good subsets instead, among
the others of which one would be minimal (`WFMin` of `WellFoundedInduction`). From it follow
what is needed: one element more adds its value, sums over disjoint sets add, a larger set or
larger values have a larger sum, and a sum of ones is a cardinality.

Only model-checked: liveness (`TaskSettles`, `CallEnds`, `Settles`, `EveryRunIsReclaimed`,
`EverythingEnds`) and with it enabledness, which the prover does not handle.

## 6. Where text and code differ

Four refuted sentences have a run (`PROJECT.json`, findings). Met while modelling, and
without a run of their own:

* `app/repositories/job_repository.py:130` "A job still in PROCESSING at startup means
  the previous process crashed mid-execution": a second process that starts orphans the
  jobs that are being executed by the first. Its worker goes on and overwrites the status.
* `app/api/v2/jobs.py:101`, a completed job's generation "can be used to retrieve the
  full generation result": `generate()` turns every error of the pipeline into a failed
  row, and the job that links to it is COMPLETED all the same.
* A job whose process dies between its insertion and its claim stays PENDING with retry
  count 0, which neither half of the recovery looks at.
* `infrastructure/providers/failover.py:11` "unknown -> YES retry (default safe)": three
  exception types are retried; a plain `ProviderError`, which is what vendor modules raise
  for what they do not know, is not.
* `failover.py:73` "Records every attempt to HealthMonitor and CostTracker": failed
  attempts are not given to the cost tracker.
* `infrastructure/providers/streaming.py:33` "True only on the last chunk": OpenAI, Groq
  and OpenRouter mark the chunk with the SDK's finish reason, and another final chunk follows.
* `streaming.py:26` "Full text accumulated so far": after a stream that broke the whole
  text of another generation follows in a chunk that leaves out what was delivered before.
* `infrastructure/providers/cost_tracker.py:37` "Thread-safe" and `:118` "today's cost":
  a record that read the clock before midnight and is booked after one of the new day
  clears the new day's total, and the next clears it again (the precondition of
  `DayIsComplete`); and totals are reset by the next record only, never by the clock.
* `cache/manager.py:12` "both tiers are written atomically": two misses of a key may leave
  another value in L1 than in L2. `:165` "Remove an entry from both cache tiers": a hit that
  overlaps refills L1 with what was removed (the precondition of `InvalidatedIsGone`).
* `services/job_engine.py:31-32` lists three errors as fixable: the classifier also has
  TypeErrors and names repaired.

Frontend:

* `frontend/src/hooks/useAutosave.js` subscribes to one field of a store that is not made with
  `subscribeWithSelector`, so its drafts are never saved.
* `HistoryTable.jsx` toasts "Generation restored." when the load failed as well, and
  `ResultPanel` shows `jobResult ?? v1Result`: a generation opened from the history stays
  hidden behind the result of a job.
* `useGenerationStore.js` speaks of an AbortController that "ensures only ONE active request";
  `loadGeneration` has none.
* `useJobPolling` keeps one `isCancelledRef` for all its effects (`hooks/useJobPolling.ts:88`): if
  the job of a mounted dashboard were changed, an answer about the former job would pass for one
  about the new, and start a second chain of polls. Nothing in the application changes it; React's
  StrictMode runs the effect twice in development and does start two chains.

Generation and agents:

* The V1 Gemini provider has a "Configured request timeout" that it never gives to the SDK, and
  builds a response schema that it never passes. "deadline exceeded" is listed as transient and
  treated as a timeout before that list is looked at; "500" anywhere in an error text makes it
  retryable.
* When a truncated answer is asked for again, the tokens of the first are lost if the second is
  complete; an answer without text is paid and not counted. The schema says of token counts
  "null on failure", but a failure after unfinished answers stores them.
* A generation row that is pending or processing when the process dies stays so for ever; a
  failed cache write leaves the session broken, and a request is answered 500 although its row
  is completed (the cause of `cache_broken`).
* The result of the agents reports verdict, issues and score of the review before the repair.
  Cost and provider are those of the last agent's first call, although
  `v23_generation_result.py:26` calls them aggregated.
* A list of an agent's answer may be null: the validators let it through, and building the
  result raises after all calls were paid (`v23_pipeline.py:161`). The handler is `async` and
  blocks the event loop for up to eight LLM calls.
* The coverage columns stay those of the tests before a repair (`job_engine.py:245`).

Providers:

* `settings.ROUTING_STRATEGY` and the `HEALTH_*` settings are read by nobody. `HealthAwareStrategy`
  speaks of recent failures; the counters are of all time, and a provider that is excluded by
  them is never tried first again.
* Gemini's mapping of exceptions looks for "rate" in the text, which "generate" contains.
* Without any key every vendor is a mock and its health check passes.

Sandbox and authentication:

* `sandbox/executor.py:21` "Requests beyond the limit receive 503 immediately (no queuing)": the
  handler never awaits, so requests queue in front of the event loop and the semaphore is never
  found taken.
* Two concurrent revocations of a key are both confirmed, although a repeated one is refused; the
  loser of two concurrent registrations gets a 500, not the validation error of the check.
* Keys made while `ENABLE_AUTH` is off belong to nobody and open nothing once it is on.

## 7. Not modelled

* The weights of the quality score, the smell patterns, the percentiles and analytics of the
  health monitor and the rounding of costs: floating-point arithmetic or patterns over text. On
  scaled integers a property would only restate the formula.
* Prompts, indexers, parsers of languages, AST mutation, reports, the golden dataset and the
  benchmark: pure transformations of text that decide nothing for another component.
* Request formats of the vendors' SDKs, Docker, the database engine, hashes and signatures:
  external. They appear as what may come back from them.
* Of modelled components: `delete_by_prompt_hash()`, `clear()` and the statistics of the cache,
  `reset()` of cost tracker and monitor (tests only), temporary files and `/health` of the
  sidecar, resuming a generation from its checkpoint (unreachable), `GenerationWorkflow` (unused).
* Views, local preferences and one-shot requests of the front end; the quality dashboard with
  its hooks `useJobPolling` and `useQualityData`, which poll one job that is fixed while the
  dashboard is mounted; `useJobPoller`, which nothing uses.

Two hazards of `PROJECT.json` have no property, and say why: a job whose process dies before its
claim, and the coverage columns after a repair.
