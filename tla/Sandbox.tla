------------------------------- MODULE Sandbox -------------------------------
(***************************************************************************)
(* The sandbox sidecar (sandbox/executor.py) and the client that calls it  *)
(* (app/sandbox/client.py).  The handler of /execute is a coroutine that   *)
(* never awaits, so the event loop serves one request at a time and the    *)
(* others wait in front of it.  A container is driven by a `docker run`    *)
(* process of the handler; the table _active_containers is shared with a   *)
(* reaper thread.  Docker and the operating system are external.           *)
(*                                                                         *)
(* Time is counted in ticks.  A tick is disabled while a step that the     *)
(* code has put a deadline on is due.                                      *)
(***************************************************************************)
EXTENDS Integers, FiniteSets, Sequences

CONSTANTS
    Clients,          \* calls of SandboxClient.execute(), one request each
    Timeouts,         \* the timeout_seconds a request may carry
    SANDBOX_TIMEOUT,  \* SANDBOX_TIMEOUT_SECONDS of both programs
    CLIENT_BUFFER,    \* what the client adds to it (2 s)
    REAPER_GRACE,     \* what the reaper adds to it (10 s)
    KILL_TIMEOUT,     \* how long one docker kill may take (5 s)
    MAX_CONCURRENT,   \* SANDBOX_MAX_CONCURRENT_CONTAINERS
    MAX_CRASHES,      \* bound: how often the sidecar dies
    None

ASSUME TimesAssumption ==
    /\ {SANDBOX_TIMEOUT, CLIENT_BUFFER, REAPER_GRACE, KILL_TIMEOUT} \subseteq Nat
    /\ Timeouts \subseteq Nat \ {0}
    /\ \E t \in Timeouts : \A u \in Timeouts : u <= t
    /\ KILL_TIMEOUT < REAPER_GRACE
ASSUME LimitAssumption == MAX_CONCURRENT \in Nat \ {0} /\ MAX_CRASHES \in Nat
ASSUME NoneAssumption == None \notin Clients

VARIABLES
    config,      \* SANDBOX_TRUSTED_MODE, and whether both programs have one secret
    stage,       \* of the caller: "idle", "sent", "done"
    timeout,     \* the timeout_seconds of its request
    waited,      \* how long it has waited for the answer
    reply        \* what execute() has returned to it

VARIABLES
    up,          \* the sidecar runs
    crashes,     \* how often it has died
    queue,       \* requests that wait for the event loop
    handler,     \* the request the event loop executes, or None
    pc,          \* where its handler is
    response,    \* the response it is going to return
    slots,       \* the value of _semaphore
    tracked,     \* keys of _active_containers
    stale,       \* what the reaper has found and not dealt with
    shot         \* those of stale whose docker kill has returned

VARIABLES
    container,   \* what docker knows of the container of a request
    cli,         \* requests whose `docker run` process is alive
    age,         \* time since the handler noted the start
    abandoned,   \* history: a docker kill of this container has raised
    forgotten,   \* history: it was alive when the sidecar died
    reaped       \* history: the reaper has killed it while it was running

callers == <<stage, timeout, waited, reply>>
loop == <<queue, handler, pc, response, slots>>
docker == <<container, cli, age>>
history == <<abandoned, forgotten, reaped>>
vars == <<config, callers, up, crashes, loop, tracked, stale, shot, docker, history>>

Alive == {"created", "running"}
Longest == CHOOSE t \in Timeouts : \A u \in Timeouts : u <= t
AgeLimit == Longest + KILL_TIMEOUT

-----------------------------------------------------------------------------
(* Responses.  exit is the exit code: that of the tests, that of docker, 137
   for a killed container, or one of the codes the two programs make up.     *)

R(exit, error, coverage) == [exit |-> exit, error |-> error, coverage |-> coverage]

TimedOut == R("-1", "TIMEOUT", None)
Unavailable == R("-1", "SANDBOX_UNAVAILABLE", None)
HttpError == R("1", "RUNTIME_ERROR", None)

\* What the tests have printed: whether both delimiters are there, whether JSON
\* is between them, and the files of the report in their order.
Outputs == [delimited : BOOLEAN, json : BOOLEAN,
            files : {<<>>, <<"test">>, <<"test", "target">>, <<"other", "target">>, <<"test", "other">>}]

\* The first file of the report that satisfies the test, if there is one.
FirstOf(files, wanted) ==
    LET hits == {i \in DOMAIN files : files[i] \in wanted}
    IN  IF hits = {} THEN None ELSE files[CHOOSE i \in hits : \A j \in hits : i <= j]

\* Fault: the fall-back does not skip the files of the tests.
FaultAnyFile(out) ==
    IF ~out.delimited \/ ~out.json THEN None
    ELSE FirstOf(out.files, {"target", "test", "other"})

\* _extract_coverage_metrics(): the target, else the first file that is no test.
Metrics(out) ==
    IF ~out.delimited \/ ~out.json THEN None
    ELSE IF FirstOf(out.files, {"target"}) # None THEN "target"
    ELSE FirstOf(out.files, {"target", "other"})

Responses == {R(e, None, m) : e \in {"tests", "125", "137"}, m \in {"target", "other", None}}
             \cup {TimedOut, Unavailable, HttpError}

-----------------------------------------------------------------------------
Init ==
    /\ config \in [trusted : BOOLEAN, same_secret : BOOLEAN]
    /\ stage = [c \in Clients |-> "idle"]
    /\ timeout = [c \in Clients |-> Longest]
    /\ waited = [c \in Clients |-> 0]
    /\ reply = [c \in Clients |-> None]
    /\ up = TRUE /\ crashes = 0
    /\ queue = <<>> /\ handler = None /\ pc = "idle" /\ response = None
    /\ slots = MAX_CONCURRENT
    /\ tracked = {} /\ stale = {} /\ shot = {}
    /\ container = [c \in Clients |-> "none"]
    /\ cli = {}
    /\ age = [c \in Clients |-> 0]
    /\ abandoned = {} /\ forgotten = {} /\ reaped = {}

(* --- the client ---------------------------------------------------------- *)

\* The caller of c gets r, unless it has given up.
Answer(c, r) ==
    /\ stage' = [stage EXCEPT ![c] = "done"]
    /\ reply' = IF stage[c] = "sent" THEN [reply EXCEPT ![c] = r] ELSE reply
    /\ waited' = [waited EXCEPT ![c] = 0]
    /\ UNCHANGED timeout

\* The client posts its request; a sidecar that is down refuses the connection.
Post(c, t) ==
    /\ stage[c] = "idle"
    /\ timeout' = [timeout EXCEPT ![c] = t]
    /\ IF up
       THEN /\ stage' = [stage EXCEPT ![c] = "sent"]
            /\ queue' = Append(queue, c)
            /\ UNCHANGED reply
       ELSE /\ stage' = [stage EXCEPT ![c] = "done"]
            /\ reply' = [reply EXCEPT ![c] = Unavailable]
            /\ UNCHANGED queue
    /\ UNCHANGED <<config, waited, up, crashes, handler, pc, response, slots,
                   tracked, stale, shot, docker, history>>

ClientTimeout == SANDBOX_TIMEOUT + CLIENT_BUFFER

\* httpx.TimeoutException: the request stays where it is.
GiveUp(c) ==
    /\ stage[c] = "sent"
    /\ waited[c] = ClientTimeout
    /\ Answer(c, TimedOut)
    /\ UNCHANGED <<config, up, crashes, loop, tracked, stale, shot, docker, history>>

(* --- the handler of /execute --------------------------------------------- *)

\* The loop takes the next request: wrong secret, no slot, or a run.
Accept ==
    /\ up /\ handler = None /\ queue # <<>>
    /\ queue' = Tail(queue)
    /\ LET c == Head(queue) IN
       IF ~config.same_secret
       THEN Answer(c, HttpError) /\ UNCHANGED <<handler, pc, slots, age>>
       ELSE IF slots = 0
       THEN Answer(c, Unavailable) /\ UNCHANGED <<handler, pc, slots, age>>
       ELSE /\ handler' = c
            /\ pc' = IF config.trusted THEN "trusted" ELSE "start"
            /\ slots' = slots - 1
            /\ age' = [age EXCEPT ![c] = 0]
            /\ UNCHANGED callers
    /\ UNCHANGED <<config, up, crashes, response, tracked, stale, shot,
                   container, cli, history>>

\* A request whose client has gone may be dropped when its connection is read.
Discard ==
    /\ up /\ handler = None /\ queue # <<>>
    /\ stage[Head(queue)] = "done"
    /\ queue' = Tail(queue)
    /\ UNCHANGED <<config, callers, up, crashes, handler, pc, response, slots,
                   tracked, stale, shot, docker, history>>

\* The handler goes on with r to its finally blocks.
Conclude(r) == response' = r /\ pc' = "finish"

\* _run_trusted(): a local pytest, which may end, be stopped, or not start.
RunTrusted ==
    /\ pc = "trusted"
    /\ \/ Conclude(R("tests", None, None))
       \/ age[handler] = timeout[handler] /\ Conclude(TimedOut)
       \/ age[handler] = 0 /\ Conclude(HttpError)
    /\ UNCHANGED <<config, callers, up, crashes, queue, handler, slots,
                   tracked, stale, shot, docker, history>>

\* The container is entered in the table, the files are written, docker is run.
StartRun ==
    /\ pc = "start"
    /\ tracked' = tracked \cup {handler}
    /\ pc' = "run"
    /\ UNCHANGED <<config, callers, up, crashes, queue, handler, response, slots,
                   stale, shot, docker, history>>

Spawn ==
    /\ pc = "run"
    /\ \/ pc' = "wait" /\ cli' = cli \cup {handler} /\ UNCHANGED response
       \/ Conclude(Unavailable) /\ UNCHANGED cli
    /\ UNCHANGED <<config, callers, up, crashes, queue, handler, slots,
                   tracked, stale, shot, container, age, history>>

\* docker run has returned: with an error of its own, or the container is over.
Collect ==
    /\ pc = "wait"
    /\ CASE container[handler] = "ended" ->
              \E out \in Outputs : Conclude(R("tests", None, Metrics(out)))
         [] container[handler] = "killed" -> Conclude(R("137", None, None))
         [] OTHER -> container[handler] # "running" /\ Conclude(R("125", None, None))
    /\ container' = [container EXCEPT ![handler] = IF @ = "created" THEN "none" ELSE @]
    /\ cli' = cli \ {handler}
    /\ UNCHANGED <<config, callers, up, crashes, queue, handler, slots,
                   tracked, stale, shot, age, history>>

\* Fault: docker is run without a timeout.
FaultWaitsForever == FALSE /\ UNCHANGED vars

\* TimeoutExpired: subprocess.run() has killed the docker process.
RunExpires ==
    /\ pc = "wait"
    /\ age[handler] >= timeout[handler]
    /\ cli' = cli \ {handler}
    /\ pc' = "kill"
    /\ UNCHANGED <<config, callers, up, crashes, queue, handler, response, slots,
                   tracked, stale, shot, container, age, history>>

\* docker kill stops what runs and nothing else.
Stop(c) == container' = [container EXCEPT ![c] = IF @ = "running" THEN "killed" ELSE @]

\* Fault: only the docker process is stopped, not the container.
FaultKillsClientOnly ==
    /\ pc = "kill"
    /\ Conclude(TimedOut)
    /\ UNCHANGED <<config, callers, up, crashes, queue, handler, slots,
                   tracked, stale, shot, docker, history>>

Kill ==
    /\ pc = "kill"
    /\ \/ Stop(handler) /\ UNCHANGED abandoned
       \/ abandoned' = abandoned \cup {handler} /\ UNCHANGED container
    /\ Conclude(TimedOut)
    /\ UNCHANGED <<config, callers, up, crashes, queue, handler, slots,
                   tracked, stale, shot, cli, age, forgotten, reaped>>

\* Fault: the slot is given back only if docker has answered.
FaultKeepsSlot ==
    /\ pc = "finish"
    /\ tracked' = tracked \ {handler}
    /\ slots' = IF response = Unavailable THEN slots ELSE slots + 1
    /\ Answer(handler, response)
    /\ handler' = None /\ pc' = "idle" /\ response' = None
    /\ UNCHANGED <<config, up, crashes, queue, stale, shot, docker, history>>

\* The finally blocks: out of the table, slot given back, response returned.
Finish ==
    /\ pc = "finish"
    /\ tracked' = tracked \ {handler}
    /\ slots' = slots + 1
    /\ Answer(handler, response)
    /\ handler' = None /\ pc' = "idle" /\ response' = None
    /\ UNCHANGED <<config, up, crashes, queue, stale, shot, docker, history>>

(* --- the reaper ---------------------------------------------------------- *)

\* Fault: the reaper forgets how long a kill may take.
FaultNoGrace == SANDBOX_TIMEOUT

Cutoff == SANDBOX_TIMEOUT + REAPER_GRACE

Reap ==
    /\ up /\ stale = {}
    /\ stale' = {c \in tracked : age[c] > Cutoff}
    /\ stale' # {}
    /\ UNCHANGED <<config, callers, up, crashes, loop, tracked, shot, docker, history>>

\* The entry leaves the table, whatever became of the container.
Drop(c) == stale' = stale \ {c} /\ tracked' = tracked \ {c} /\ shot' = shot \ {c}

ReapKill(c) ==
    /\ c \in stale \ shot
    /\ \/ /\ Stop(c)
          /\ shot' = shot \cup {c}
          /\ reaped' = IF container[c] = "running" THEN reaped \cup {c} ELSE reaped
          /\ UNCHANGED <<tracked, stale, abandoned>>
       \/ /\ abandoned' = abandoned \cup {c}
          /\ Drop(c)
          /\ UNCHANGED <<container, reaped>>
    /\ UNCHANGED <<config, callers, up, crashes, loop, cli, age, forgotten>>

ReapRemove(c) ==
    /\ c \in shot
    /\ \/ container' = [container EXCEPT ![c] = IF @ \in Alive THEN "killed" ELSE @]
       \/ UNCHANGED container
    /\ Drop(c)
    /\ UNCHANGED <<config, callers, up, crashes, loop, cli, age, history>>

(* --- docker, time, crashes ----------------------------------------------- *)

\* `docker run` creates the container and starts it.
Docker(c) ==
    /\ c \in cli
    /\ \/ container[c] = "none" /\ container' = [container EXCEPT ![c] = "created"]
       \/ container[c] = "created" /\ container' = [container EXCEPT ![c] = "running"]
    /\ UNCHANGED <<config, callers, up, crashes, loop, tracked, stale, shot, cli, age, history>>

\* The tests come to their end; they need not.
TestsEnd(c) ==
    /\ container[c] = "running"
    /\ container' = [container EXCEPT ![c] = "ended"]
    /\ UNCHANGED <<config, callers, up, crashes, loop, tracked, stale, shot, cli, age, history>>

Tick ==
    /\ \A c \in Clients : stage[c] = "sent" => waited[c] < ClientTimeout
    /\ CASE pc = "idle" -> \E c \in Clients : stage[c] = "sent"
         [] pc \in {"trusted", "wait"} -> age[handler] < timeout[handler]
         [] pc = "kill" -> age[handler] < timeout[handler] + KILL_TIMEOUT
         [] OTHER -> FALSE
    /\ waited' = [c \in Clients |-> IF stage[c] = "sent" THEN waited[c] + 1 ELSE waited[c]]
    /\ age' = [c \in Clients |-> IF c = handler THEN age[c] + 1 ELSE age[c]]
    /\ UNCHANGED <<config, stage, timeout, reply, up, crashes, loop, tracked, stale, shot,
                   container, cli, history>>

\* The table, the semaphore and the requests die with the process; containers,
\* and the docker processes that drive them, do not.
Crash ==
    /\ up /\ crashes < MAX_CRASHES
    /\ up' = FALSE
    /\ crashes' = crashes + 1
    /\ stage' = [c \in Clients |-> IF stage[c] = "sent" THEN "done" ELSE stage[c]]
    /\ reply' = [c \in Clients |-> IF stage[c] = "sent" THEN Unavailable ELSE reply[c]]
    /\ waited' = [c \in Clients |-> 0]
    /\ queue' = <<>> /\ handler' = None /\ pc' = "idle" /\ response' = None
    /\ slots' = MAX_CONCURRENT
    /\ tracked' = {} /\ stale' = {} /\ shot' = {}
    /\ forgotten' = forgotten \cup {c \in Clients : container[c] \in Alive \/ c \in cli}
    /\ UNCHANGED <<config, timeout, docker, abandoned, reaped>>

Restart ==
    /\ ~up
    /\ up' = TRUE
    /\ UNCHANGED <<config, callers, crashes, loop, tracked, stale, shot, docker, history>>

-----------------------------------------------------------------------------
Handle == RunTrusted \/ StartRun \/ Spawn \/ Collect \/ Kill \/ RunExpires \/ Finish

Next ==
    \/ \E c \in Clients :
         \/ \E t \in Timeouts : Post(c, t)
         \/ GiveUp(c) \/ ReapKill(c) \/ ReapRemove(c) \/ Docker(c) \/ TestsEnd(c)
    \/ Accept \/ Discard \/ Handle \/ Reap \/ Tick \/ Crash \/ Restart

Spec == Init /\ [][Next]_vars

\* The sidecar and its threads run, time passes; the tests need not end and
\* docker need not make progress with a container.
FairSpec ==
    /\ Spec
    /\ WF_vars(Accept \/ Discard)
    /\ WF_vars(RunTrusted) /\ WF_vars(StartRun) /\ WF_vars(Spawn)
    /\ WF_vars(RunExpires) /\ WF_vars(Kill) /\ WF_vars(Finish)
    /\ WF_vars(Tick)
    /\ \A c \in Clients : WF_vars(GiveUp(c))

-----------------------------------------------------------------------------
(* Types. *)
TypeOK ==
    /\ config \in [trusted : BOOLEAN, same_secret : BOOLEAN]
    /\ stage \in [Clients -> {"idle", "sent", "done"}]
    /\ timeout \in [Clients -> Timeouts]
    /\ waited \in [Clients -> 0..ClientTimeout]
    /\ reply \in [Clients -> Responses \cup {None}]
    /\ up \in BOOLEAN /\ crashes \in 0..MAX_CRASHES
    /\ queue \in Seq(Clients)
    /\ handler \in Clients \cup {None}
    /\ pc \in {"idle", "trusted", "start", "run", "wait", "kill", "finish"}
    /\ response \in Responses \cup {None}
    /\ slots \in 0..MAX_CONCURRENT
    /\ tracked \subseteq Clients /\ stale \subseteq Clients /\ shot \subseteq Clients
    /\ container \in [Clients -> Alive \cup {"none", "ended", "killed"}]
    /\ cli \subseteq Clients
    /\ age \in [Clients -> 0..AgeLimit]
    /\ abandoned \subseteq Clients /\ forgotten \subseteq Clients /\ reaped \subseteq Clients

(* The semaphore counts the handler that is at work and nothing else, so every
   error path gives its slot back; and since the loop runs one handler at a time,
   the limit on containers is never what a request meets.                      *)
SlotsAreBalanced ==
    slots = MAX_CONCURRENT - (IF handler = None THEN 0 ELSE 1)

(* A container that runs is waited for by its handler or in the table, where the
   reaper finds it, except after the two events the code has no answer to: a docker
   kill that raised (executor.py:381, :215), and a restart, which starts with an
   empty table.  (The table alone is not enough: the reaper drops an entry also
   when its container has not started yet.)                                     *)
NoStrayContainer ==
    \A c \in Clients : container[c] = "running" =>
        c \in {handler} \cup tracked \cup abandoned \cup forgotten

(* The reaper never shoots a container whose handler is still waiting for it,
   unless the request asked for more time than the reaper's own setting: the
   handler's kill, however slow, comes before the reaper's cutoff.              *)
ReaperSparesOrdinaryRuns ==
    \A c \in reaped : timeout[c] > SANDBOX_TIMEOUT

(* Tests that never end are stopped: a running container is eventually over, save
   after the same two events.                                                   *)
EveryRunIsReclaimed ==
    \A c \in Clients :
        container[c] = "running" ~>
            (container[c] # "running" \/ c \in abandoned \cup forgotten)

=============================================================================
