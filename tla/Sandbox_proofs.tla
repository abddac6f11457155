---------------------------- MODULE Sandbox_proofs ----------------------------
(***************************************************************************)
(* Theorems about Sandbox, for any number of clients, slots and crashes    *)
(* and any times that respect the order of their settings.                 *)
(*                                                                         *)
(* The argument: a container runs only while a docker process drives it,   *)
(* and such a process is the handler's or one that outlived the sidecar.   *)
(* The handler ends with its container over, or with a docker kill that    *)
(* raised.  And no container gets older, by the handler's clock, than its  *)
(* timeout and one docker kill, which is less than the reaper waits for.   *)
(***************************************************************************)
EXTENDS Sandbox, SequenceTheorems, TLAPS

Handler == handler # None => pc # "idle"
NoHandler == handler = None => pc = "idle"

\* A docker process that is alive is the handler's, or outlived the sidecar.
CliIsWatched ==
    \A c \in cli : c \in forgotten \/ (c = handler /\ pc = "wait")

\* So is a running container, unless a docker kill of it raised.
RunningIsWatched ==
    \A c \in Clients : container[c] = "running" =>
        \/ c \in abandoned \cup forgotten
        \/ c = handler /\ pc \in {"wait", "kill"}

\* Who has a handler, an entry or a place in the queue has posted its request.
Posted(c) == stage[c] # "idle"

PostedFirst ==
    /\ \A i \in 1..Len(queue) : Posted(queue[i])
    /\ handler # None => Posted(handler)
    /\ \A c \in tracked \cup stale \cup reaped : Posted(c)

\* No run is older than its timeout and the time one docker kill may take.
AgeBound ==
    \A c \in Clients :
        IF Posted(c) THEN age[c] <= timeout[c] + KILL_TIMEOUT ELSE age[c] = 0

\* What the reaper finds, or has killed, had asked for more time than usual.
StaleIsLong == \A c \in stale \cup reaped : timeout[c] > SANDBOX_TIMEOUT

IInv ==
    /\ TypeOK
    /\ Handler /\ NoHandler
    /\ SlotsAreBalanced
    /\ CliIsWatched
    /\ RunningIsWatched
    /\ PostedFirst
    /\ AgeBound
    /\ StaleIsLong

-----------------------------------------------------------------------------
(* Constants and responses. *)

\* The longest timeout is one, and there is no longer one.
LEMMA LongestIsLongest == Longest \in Timeouts /\ \A u \in Timeouts : u <= Longest
BY TimesAssumption DEF Longest

\* The report's file is a wanted one, or none.
LEMMA FirstOfWanted ==
    ASSUME NEW out \in Outputs, NEW wanted
    PROVE  FirstOf(out.files, wanted) \in wanted \cup {None}
<1> DEFINE hits == {i \in DOMAIN out.files : out.files[i] \in wanted}
<1>1. hits \subseteq {1, 2}
  BY DEF Outputs
<1>2. CASE hits = {}
  BY <1>2 DEF FirstOf
<1>3. CASE hits # {}
  <2>1. \E i \in hits : \A j \in hits : i <= j
    <3>1. CASE 1 \in hits
      BY <1>1, <3>1
    <3>2. CASE 1 \notin hits
      <4>1. hits = {2}
        BY <1>1, <1>3, <3>2
      <4>2. QED
        BY <4>1
    <3>3. QED
      BY <3>1, <3>2
  <2>2. (CHOOSE i \in hits : \A j \in hits : i <= j) \in hits
    BY <2>1
  <2>3. QED
    BY <1>3, <2>2 DEF FirstOf
<1>4. QED
  BY <1>2, <1>3

\* Every way the handler may come to an end gives one of the responses.
LEMMA ResponsesTyped ==
    /\ TimedOut \in Responses /\ Unavailable \in Responses /\ HttpError \in Responses
    /\ R("tests", None, None) \in Responses
    /\ R("125", None, None) \in Responses /\ R("137", None, None) \in Responses
    /\ \A out \in Outputs : R("tests", None, Metrics(out)) \in Responses
<1>1. ASSUME NEW out \in Outputs PROVE Metrics(out) \in {"target", "other", None}
  <2>1. FirstOf(out.files, {"target"}) \in {"target"} \cup {None}
        /\ FirstOf(out.files, {"target", "other"}) \in {"target", "other"} \cup {None}
    BY FirstOfWanted
  <2>2. QED
    BY <2>1 DEF Metrics
<1>2. \A e \in {"tests", "125", "137"}, m \in {"target", "other", None} : R(e, None, m) \in Responses
  BY DEF Responses
<1>3. TimedOut \in Responses /\ Unavailable \in Responses /\ HttpError \in Responses
  BY DEF Responses
<1>4. QED
  BY <1>1, <1>2, <1>3

\* Ages and waiting times may be 0.
LEMMA InitialAges ==
    /\ AgeLimit \in Nat /\ ClientTimeout \in Nat
    /\ 0 \in 0..AgeLimit /\ 0 \in 0..ClientTimeout
<1>1. Longest \in Nat /\ {SANDBOX_TIMEOUT, CLIENT_BUFFER, KILL_TIMEOUT} \subseteq Nat
  BY TimesAssumption, LongestIsLongest
<1>2. QED
  BY <1>1 DEF AgeLimit, ClientTimeout

\* A sidecar that has just started and callers that have not called.
LEMMA InitInv == Init => IInv
<1> SUFFICES ASSUME Init PROVE IInv
  OBVIOUS
<1>1. 0 \in 0..MAX_CRASHES /\ MAX_CONCURRENT \in 0..MAX_CONCURRENT
      /\ 0 \in 0..AgeLimit /\ 0 \in 0..ClientTimeout
  BY LimitAssumption, InitialAges
<1>2. TypeOK
  BY <1>1, LongestIsLongest DEF Init, TypeOK, Alive
<1>3. SlotsAreBalanced
  BY LimitAssumption DEF Init, SlotsAreBalanced
<1>4. QED
  BY <1>2, <1>3 DEF Init, IInv, Handler, NoHandler, CliIsWatched, RunningIsWatched,
        PostedFirst, Posted, AgeBound, StaleIsLong

\* A client that posts has had no run, so its timeout is free.
LEMMA PostInv == ASSUME IInv, NEW c \in Clients, NEW t \in Timeouts, Post(c, t) PROVE IInv'
<1>8. \A d \in Clients : Posted(d) => Posted(d)'
  BY DEF Post, IInv, TypeOK, Posted
<1>9. queue' = queue \/ (queue' = Append(queue, c) /\ stage' = [stage EXCEPT ![c] = "sent"])
  BY DEF Post
<1>10. \A i \in 1..Len(queue) : queue[i] \in Clients /\ Posted(queue[i])
  BY ElementOfSeq DEF IInv, TypeOK, PostedFirst
<1>11. queue \in Seq(Clients)
  BY DEF IInv, TypeOK
<1>1. TypeOK'
  <2>1. queue' \in Seq(Clients)
    BY <1>9, <1>11, AppendProperties
  <2>2. timeout' \in [Clients -> Timeouts] /\ stage' \in [Clients -> {"idle", "sent", "done"}]
        /\ reply' \in [Clients -> Responses \cup {None}]
    <3>1. Unavailable \in Responses
      BY ResponsesTyped
    <3>2. timeout' \in [Clients -> Timeouts]
      BY DEF Post, IInv, TypeOK
    <3>3. \E s \in {"sent", "done"} : stage' = [stage EXCEPT ![c] = s]
      BY DEF Post
    <3>4. reply' = reply \/ reply' = [reply EXCEPT ![c] = Unavailable]
      BY DEF Post
    <3>5. stage' \in [Clients -> {"idle", "sent", "done"}]
      BY <3>3 DEF IInv, TypeOK
    <3>6. reply' \in [Clients -> Responses \cup {None}]
      BY <3>1, <3>4 DEF IInv, TypeOK
    <3>7. QED
      BY <3>2, <3>5, <3>6
  <2>3. QED
    BY <2>1, <2>2 DEF Post, IInv, TypeOK, docker, history
<1>2. Handler' /\ NoHandler' /\ SlotsAreBalanced'
  BY DEF IInv, Handler, NoHandler, SlotsAreBalanced, Post
<1>3. CliIsWatched' /\ RunningIsWatched'
  BY DEF IInv, CliIsWatched, RunningIsWatched, Post, docker, history
<1>4. PostedFirst'
  <2>1. ASSUME NEW i \in 1..Len(queue') PROVE Posted(queue[i])'
    <3>1. CASE queue' = queue
      BY <1>8, <1>10, <2>1, <3>1 DEF Posted
    <3>2. CASE queue' = Append(queue, c) /\ stage' = [stage EXCEPT ![c] = "sent"]
      <4>1. Len(queue') = Len(queue) + 1 /\ queue'[Len(queue) + 1] = c
            /\ \A k \in 1..Len(queue) : queue'[k] = queue[k]
        BY <1>11, <3>2, AppendProperties
      <4>2. CASE i \in 1..Len(queue)
        BY <1>8, <1>10, <4>1, <4>2 DEF Posted
      <4>3. CASE i = Len(queue) + 1
        BY <3>2, <4>1, <4>3 DEF IInv, TypeOK, Posted
      <4>4. Len(queue) \in Nat
        BY <1>11, LenProperties
      <4>5. QED
        BY <2>1, <4>1, <4>2, <4>3, <4>4
    <3>3. QED
      BY <1>9, <3>1, <3>2
  <2>2. /\ handler' # None => Posted(handler)'
        /\ \A d \in tracked' \cup stale' \cup reaped' : Posted(d)'
    BY <1>8 DEF Post, IInv, TypeOK, PostedFirst, history
  <2>3. QED
    BY <2>1, <2>2 DEF PostedFirst
<1>5. AgeBound'
  BY TimesAssumption, LimitAssumption DEF IInv, TypeOK, Posted, AgeBound, NoHandler, Post,
        docker, history
<1>6. StaleIsLong'
  BY DEF IInv, PostedFirst, Posted, StaleIsLong, Post, history
<1>7. QED
  BY <1>1, <1>2, <1>3, <1>4, <1>5, <1>6 DEF IInv

\* A client that gives up takes nothing with it.
LEMMA GiveUpInv == ASSUME IInv, NEW c \in Clients, GiveUp(c) PROVE IInv'
<1>1. TypeOK'
  BY ResponsesTyped DEF IInv, TypeOK, GiveUp, Answer, loop, docker, history
<1>2. Handler' /\ NoHandler' /\ SlotsAreBalanced'
  BY DEF IInv, Handler, NoHandler, SlotsAreBalanced, GiveUp, loop
<1>3. CliIsWatched' /\ RunningIsWatched'
  BY DEF IInv, CliIsWatched, RunningIsWatched, GiveUp, loop, docker, history
<1>4. PostedFirst'
  <2>1. \A d \in Clients : Posted(d) => Posted(d)'
    BY DEF GiveUp, Answer, IInv, TypeOK, Posted
  <2>2. QED
    BY <2>1 DEF GiveUp, IInv, TypeOK, PostedFirst, loop, history
<1>5. AgeBound'
  BY DEF IInv, Posted, AgeBound, GiveUp, Answer, docker
<1>6. StaleIsLong'
  BY DEF IInv, StaleIsLong, GiveUp, Answer, history
<1>7. QED
  BY <1>1, <1>2, <1>3, <1>4, <1>5, <1>6 DEF IInv

\* The handler begins with a slot, and no docker process is left of another.
LEMMA AcceptInv == ASSUME IInv, Accept PROVE IInv'
<1> DEFINE c == Head(queue)
<1>9. /\ c \in Clients /\ c = queue[1] /\ Len(queue) >= 1
      /\ Tail(queue) \in Seq(Clients) /\ Len(Tail(queue)) = Len(queue) - 1
      /\ \A i \in 1..Len(queue) - 1 : Tail(queue)[i] = queue[i + 1]
  BY HeadTailProperties DEF Accept, IInv, TypeOK
<1>1. TypeOK'
  <2>1. 0 \in 0..AgeLimit /\ 0 \in 0..ClientTimeout
    BY InitialAges
  <2>2. slots' \in 0..MAX_CONCURRENT
    BY LimitAssumption DEF Accept, IInv, TypeOK
  <2>3. /\ stage' \in [Clients -> {"idle", "sent", "done"}]
        /\ reply' \in [Clients -> Responses \cup {None}]
        /\ waited' \in [Clients -> 0..ClientTimeout]
    <3>1. \/ UNCHANGED callers
          \/ \E r \in {HttpError, Unavailable} : Answer(c, r)
      BY DEF Accept
    <3>2. CASE UNCHANGED callers
      BY <3>2 DEF callers, IInv, TypeOK
    <3>3. ASSUME NEW r \in {HttpError, Unavailable}, Answer(c, r)
          PROVE  /\ stage' \in [Clients -> {"idle", "sent", "done"}]
                 /\ reply' \in [Clients -> Responses \cup {None}]
                 /\ waited' \in [Clients -> 0..ClientTimeout]
      <4>1. r \in Responses
        BY ResponsesTyped
      <4>2. QED
        BY <1>9, <2>1, <3>3, <4>1 DEF Answer, IInv, TypeOK
    <3>4. QED
      BY <3>1, <3>2, <3>3
  <2>4. age' \in [Clients -> 0..AgeLimit]
    <3>1. age' = age \/ age' = [age EXCEPT ![c] = 0]
      BY DEF Accept
    <3>2. age \in [Clients -> 0..AgeLimit]
      BY DEF IInv, TypeOK
    <3>3. QED
      BY <2>1, <3>1, <3>2
  <2>5. handler' \in Clients \cup {None} /\ pc' \in {"idle", "trusted", "start"} /\ timeout' = timeout
    BY <1>9 DEF Accept, Answer, callers, IInv, TypeOK, NoHandler
  <2>6. QED
    BY <1>9, <2>2, <2>3, <2>4, <2>5 DEF Accept, IInv, TypeOK, history
<1>2. Handler' /\ NoHandler' /\ SlotsAreBalanced'
  <2>1. handler = None /\ slots = MAX_CONCURRENT /\ MAX_CONCURRENT \in Nat
    BY LimitAssumption DEF Accept, IInv, SlotsAreBalanced
  <2>2. \/ UNCHANGED <<handler, pc, slots>>
        \/ handler' = c /\ pc' \in {"trusted", "start"} /\ slots' = slots - 1
    BY DEF Accept
  <2>3. CASE UNCHANGED <<handler, pc, slots>>
    BY <2>3 DEF IInv, Handler, NoHandler, SlotsAreBalanced
  <2>4. CASE handler' = c /\ pc' \in {"trusted", "start"} /\ slots' = slots - 1
    BY <2>1, <2>4, <1>9, NoneAssumption DEF Handler, NoHandler, SlotsAreBalanced
  <2>5. QED
    BY <2>2, <2>3, <2>4
<1>3. CliIsWatched' /\ RunningIsWatched'
  BY DEF IInv, NoHandler, CliIsWatched, RunningIsWatched, Accept, history
<1>4. PostedFirst'
  <2>1. Posted(c) /\ \A i \in 1..Len(queue') : queue'[i] = queue[i + 1] /\ Posted(queue'[i])
    BY <1>9 DEF Accept, IInv, TypeOK, PostedFirst
  <2>2. \A d \in Clients : Posted(d) => Posted(d)'
    BY <1>9 DEF Accept, Answer, callers, IInv, TypeOK, Posted
  <2>3. \A i \in 1..Len(queue') : queue'[i] \in Clients
    BY <1>9 DEF Accept
  <2>4. QED
    BY <1>9, <2>1, <2>2, <2>3 DEF Accept, IInv, TypeOK, PostedFirst, Posted, history
<1>5. AgeBound'
  <2>1. Posted(c)
    BY <1>9 DEF IInv, TypeOK, PostedFirst
  <2>2. timeout' = timeout /\ timeout[c] \in Nat /\ (age' = age \/ age' = [age EXCEPT ![c] = 0])
    BY <1>9, TimesAssumption DEF Accept, Answer, callers, IInv, TypeOK
  <2>3. \A d \in Clients : Posted(d)' <=> Posted(d)
    BY <1>9, <2>1 DEF Accept, Answer, callers, IInv, TypeOK, Posted
  <2>4. 0 <= timeout[c] + KILL_TIMEOUT
    BY <2>2, TimesAssumption
  <2>5. QED
    BY <1>9, <2>1, <2>2, <2>3, <2>4 DEF IInv, TypeOK, AgeBound
<1>6. StaleIsLong'
  BY DEF IInv, StaleIsLong, Accept, Answer, callers, history
<1>7. QED
  BY <1>1, <1>2, <1>3, <1>4, <1>5, <1>6 DEF IInv

\* A request that is dropped had no run.
LEMMA DiscardInv == ASSUME IInv, Discard PROVE IInv'
<1>1. TypeOK'
  <2>1. queue' \in Seq(Clients)
    BY HeadTailProperties DEF Discard, IInv, TypeOK
  <2>2. QED
    BY <2>1 DEF Discard, IInv, TypeOK, callers, docker, history
<1>2. Handler' /\ NoHandler' /\ SlotsAreBalanced'
  BY DEF IInv, Handler, NoHandler, SlotsAreBalanced, Discard
<1>3. CliIsWatched' /\ RunningIsWatched'
  BY DEF IInv, CliIsWatched, RunningIsWatched, Discard, docker, history
<1>4. PostedFirst'
  BY DEF IInv, PostedFirst, Posted, Discard, callers, history
<1>5. AgeBound'
  BY DEF IInv, Posted, AgeBound, Discard, callers, docker
<1>6. StaleIsLong'
  BY DEF IInv, StaleIsLong, Discard, callers, history
<1>7. QED
  BY <1>1, <1>2, <1>3, <1>4, <1>5, <1>6 DEF IInv

\* A trusted run has no container.
LEMMA RunTrustedInv == ASSUME IInv, RunTrusted PROVE IInv'
<1>1. TypeOK'
  BY ResponsesTyped DEF IInv, TypeOK, RunTrusted, Conclude, callers, docker, history
<1>2. Handler' /\ NoHandler' /\ SlotsAreBalanced'
  BY DEF IInv, Handler, NoHandler, SlotsAreBalanced, RunTrusted, Conclude
<1>3. CliIsWatched' /\ RunningIsWatched'
  BY DEF IInv, CliIsWatched, RunningIsWatched, RunTrusted, Conclude, docker, history
<1>4. PostedFirst'
  BY DEF IInv, PostedFirst, Posted, RunTrusted, callers, history
<1>5. AgeBound'
  BY DEF IInv, Posted, AgeBound, RunTrusted, callers, docker
<1>6. StaleIsLong'
  BY DEF IInv, StaleIsLong, RunTrusted, callers, history
<1>7. QED
  BY <1>1, <1>2, <1>3, <1>4, <1>5, <1>6 DEF IInv

\* The entry is of the request that is handled.
LEMMA StartRunInv == ASSUME IInv, StartRun PROVE IInv'
<1>1. TypeOK'
  BY DEF IInv, TypeOK, NoHandler, StartRun, callers, docker, history
<1>2. Handler' /\ NoHandler' /\ SlotsAreBalanced'
  BY DEF IInv, Handler, NoHandler, SlotsAreBalanced, StartRun
<1>3. CliIsWatched' /\ RunningIsWatched'
  BY DEF IInv, CliIsWatched, RunningIsWatched, StartRun, docker, history
<1>4. PostedFirst'
  BY DEF IInv, PostedFirst, Posted, NoHandler, StartRun, callers, history
<1>5. AgeBound'
  BY DEF IInv, Posted, AgeBound, StartRun, callers, docker
<1>6. StaleIsLong'
  BY DEF IInv, StaleIsLong, StartRun, callers, history
<1>7. QED
  BY <1>1, <1>2, <1>3, <1>4, <1>5, <1>6 DEF IInv

\* The docker process is the handler's.
LEMMA SpawnInv == ASSUME IInv, Spawn PROVE IInv'
<1>1. TypeOK'
  BY ResponsesTyped DEF IInv, TypeOK, NoHandler, Spawn, Conclude, callers, history
<1>2. Handler' /\ NoHandler' /\ SlotsAreBalanced'
  BY DEF IInv, Handler, NoHandler, SlotsAreBalanced, Spawn, Conclude
<1>3. CliIsWatched' /\ RunningIsWatched'
  BY DEF IInv, CliIsWatched, RunningIsWatched, Spawn, history
<1>4. PostedFirst'
  BY DEF IInv, PostedFirst, Posted, Spawn, callers, history
<1>5. AgeBound'
  BY DEF IInv, Posted, AgeBound, Spawn, callers
<1>6. StaleIsLong'
  BY DEF IInv, StaleIsLong, Spawn, callers, history
<1>7. QED
  BY <1>1, <1>2, <1>3, <1>4, <1>5, <1>6 DEF IInv

\* docker run returns when its container does not run.
LEMMA CollectInv == ASSUME IInv, Collect PROVE IInv'
<1>1. TypeOK'
  <2>1. response' \in Responses /\ pc' = "finish"
    BY ResponsesTyped DEF Collect, Conclude
  <2>2. container' \in [Clients -> Alive \cup {"none", "ended", "killed"}]
    BY DEF Collect, IInv, TypeOK
  <2>3. cli' \subseteq Clients
    BY DEF Collect, IInv, TypeOK
  <2>4. QED
    BY <2>1, <2>2, <2>3 DEF Collect, callers, history, IInv, TypeOK
<1>2. Handler' /\ NoHandler' /\ SlotsAreBalanced'
  BY DEF IInv, Handler, NoHandler, SlotsAreBalanced, Collect, Conclude
<1>3. CliIsWatched' /\ RunningIsWatched'
  BY DEF IInv, CliIsWatched, RunningIsWatched, Collect, history
<1>4. PostedFirst'
  BY DEF IInv, PostedFirst, Posted, Collect, callers, history
<1>5. AgeBound'
  BY DEF IInv, Posted, AgeBound, Collect, callers
<1>6. StaleIsLong'
  BY DEF IInv, StaleIsLong, Collect, callers, history
<1>7. QED
  BY <1>1, <1>2, <1>3, <1>4, <1>5, <1>6 DEF IInv

\* The docker process is stopped, the container still runs.
LEMMA RunExpiresInv == ASSUME IInv, RunExpires PROVE IInv'
<1>1. TypeOK'
  BY DEF IInv, TypeOK, RunExpires, callers, history
<1>2. Handler' /\ NoHandler' /\ SlotsAreBalanced'
  BY DEF IInv, Handler, NoHandler, SlotsAreBalanced, RunExpires
<1>3. CliIsWatched' /\ RunningIsWatched'
  BY DEF IInv, CliIsWatched, RunningIsWatched, RunExpires, history
<1>4. PostedFirst'
  BY DEF IInv, PostedFirst, Posted, RunExpires, callers, history
<1>5. AgeBound'
  BY DEF IInv, Posted, AgeBound, RunExpires, callers
<1>6. StaleIsLong'
  BY DEF IInv, StaleIsLong, RunExpires, callers, history
<1>7. QED
  BY <1>1, <1>2, <1>3, <1>4, <1>5, <1>6 DEF IInv

\* docker kill stops the container, or raises.
LEMMA KillInv == ASSUME IInv, Kill PROVE IInv'
<1>1. TypeOK'
  <2>1. response' \in Responses /\ pc' = "finish"
    BY ResponsesTyped DEF Kill, Conclude
  <2>2. handler \in Clients
    BY DEF Kill, IInv, TypeOK, NoHandler
  <2>3. /\ container' \in [Clients -> Alive \cup {"none", "ended", "killed"}]
        /\ abandoned' \subseteq Clients
    <3>1. CASE Stop(handler) /\ UNCHANGED abandoned
      BY <2>2, <3>1 DEF Stop, IInv, TypeOK, Alive
    <3>2. CASE abandoned' = abandoned \cup {handler} /\ UNCHANGED container
      BY <2>2, <3>2 DEF IInv, TypeOK
    <3>3. QED
      BY <3>1, <3>2 DEF Kill
  <2>4. QED
    BY <2>1, <2>2, <2>3 DEF Kill, callers, IInv, TypeOK
<1>2. Handler' /\ NoHandler' /\ SlotsAreBalanced'
  BY DEF IInv, Handler, NoHandler, SlotsAreBalanced, Kill, Conclude
<1>3. CliIsWatched' /\ RunningIsWatched'
  BY DEF IInv, TypeOK, CliIsWatched, RunningIsWatched, Kill, Stop
<1>4. PostedFirst'
  BY DEF IInv, PostedFirst, Posted, Kill, callers
<1>5. AgeBound'
  BY DEF IInv, Posted, AgeBound, Kill, callers
<1>6. StaleIsLong'
  BY DEF IInv, StaleIsLong, Kill, callers
<1>7. QED
  BY <1>1, <1>2, <1>3, <1>4, <1>5, <1>6 DEF IInv

\* The handler ends, and its container does not run, or its kill raised.
LEMMA FinishInv == ASSUME IInv, Finish PROVE IInv'
<1>1. TypeOK'
  <2>1. slots' \in 0..MAX_CONCURRENT
    BY LimitAssumption DEF Finish, IInv, TypeOK, NoHandler, SlotsAreBalanced
  <2>2. handler \in Clients
    BY DEF Finish, IInv, TypeOK, NoHandler
  <2>3. /\ stage' \in [Clients -> {"idle", "sent", "done"}]
        /\ reply' \in [Clients -> Responses \cup {None}]
        /\ waited' \in [Clients -> 0..ClientTimeout]
    BY <2>2, InitialAges DEF Finish, Answer, IInv, TypeOK
  <2>4. QED
    BY <2>1, <2>3 DEF Finish, Answer, IInv, TypeOK, docker, history
<1>2. Handler' /\ NoHandler' /\ SlotsAreBalanced'
  BY TimesAssumption, LimitAssumption DEF IInv, Handler, NoHandler, SlotsAreBalanced,
        Finish
<1>3. CliIsWatched' /\ RunningIsWatched'
  BY DEF IInv, CliIsWatched, RunningIsWatched, Finish, docker, history
<1>4. PostedFirst'
  BY DEF IInv, PostedFirst, Posted, Finish, Answer, history
<1>5. AgeBound'
  BY DEF IInv, PostedFirst, Posted, AgeBound, NoHandler, Finish, Answer, docker
<1>6. StaleIsLong'
  BY DEF IInv, StaleIsLong, Finish, Answer, history
<1>7. QED
  BY <1>1, <1>2, <1>3, <1>4, <1>5, <1>6 DEF IInv

\* A container that is old by the reaper's clock had asked for more time.
LEMMA ReapInv == ASSUME IInv, Reap PROVE IInv'
<1>1. TypeOK'
  BY DEF IInv, TypeOK, Reap, callers, loop, docker, history
<1>2. Handler' /\ NoHandler' /\ SlotsAreBalanced'
  BY DEF IInv, Handler, NoHandler, SlotsAreBalanced, Reap, loop
<1>3. CliIsWatched' /\ RunningIsWatched'
  BY DEF IInv, CliIsWatched, RunningIsWatched, Reap, loop, docker, history
<1>4. PostedFirst'
  BY DEF IInv, PostedFirst, Posted, Reap, callers, loop, history
<1>5. AgeBound'
  BY DEF IInv, Posted, AgeBound, Reap, callers, docker
<1>6. StaleIsLong'
  <2>1. ASSUME NEW c \in tracked, age[c] > Cutoff PROVE timeout[c] > SANDBOX_TIMEOUT
    <3>1. c \in Clients /\ age[c] <= timeout[c] + KILL_TIMEOUT
      BY <2>1 DEF IInv, TypeOK, PostedFirst, AgeBound
    <3>2. timeout[c] \in Nat /\ age[c] \in Nat
      <4>1. timeout[c] \in Timeouts /\ age[c] \in 0..AgeLimit
        BY <3>1 DEF IInv, TypeOK
      <4>2. timeout[c] \in Nat
        BY <4>1, TimesAssumption
      <4>3. QED
        BY <4>1, <4>2, InitialAges
    <3>3. QED
      BY <2>1, <3>1, <3>2, TimesAssumption DEF Cutoff
  <2>2. QED
    BY <2>1 DEF Reap, IInv, StaleIsLong, callers, history
<1>7. QED
  BY <1>1, <1>2, <1>3, <1>4, <1>5, <1>6 DEF IInv

\* The reaper stops what it has found.
LEMMA ReapKillInv == ASSUME IInv, NEW c \in Clients, ReapKill(c) PROVE IInv'
<1>1. TypeOK'
  <2>1. container' \in [Clients -> Alive \cup {"none", "ended", "killed"}]
    <3>1. UNCHANGED container \/ Stop(c)
      BY DEF ReapKill
    <3>2. CASE UNCHANGED container
      BY <3>2 DEF IInv, TypeOK
    <3>3. CASE Stop(c)
      BY <3>3 DEF Stop, IInv, TypeOK, Alive
    <3>4. QED
      BY <3>1, <3>2, <3>3
  <2>2. /\ tracked' \subseteq Clients /\ stale' \subseteq Clients /\ shot' \subseteq Clients
        /\ abandoned' \subseteq Clients /\ reaped' \subseteq Clients
    BY DEF ReapKill, Drop, IInv, TypeOK
  <2>3. QED
    BY <2>1, <2>2 DEF ReapKill, IInv, TypeOK, callers, loop
<1>2. Handler' /\ NoHandler' /\ SlotsAreBalanced'
  BY DEF IInv, Handler, NoHandler, SlotsAreBalanced, ReapKill, loop
<1>3. CliIsWatched' /\ RunningIsWatched'
  BY DEF IInv, TypeOK, CliIsWatched, RunningIsWatched, ReapKill, Stop, loop
<1>4. PostedFirst'
  BY DEF IInv, PostedFirst, Posted, ReapKill, Drop, callers, loop
<1>5. AgeBound'
  BY DEF IInv, Posted, AgeBound, ReapKill, callers
<1>6. StaleIsLong'
  BY DEF IInv, StaleIsLong, ReapKill, Drop, callers
<1>7. QED
  BY <1>1, <1>2, <1>3, <1>4, <1>5, <1>6 DEF IInv

\* It drops the entry in any case.
LEMMA ReapRemoveInv == ASSUME IInv, NEW c \in Clients, ReapRemove(c) PROVE IInv'
<1>1. TypeOK'
  BY DEF IInv, TypeOK, ReapRemove, Drop, Alive, callers, loop, history
<1>2. Handler' /\ NoHandler' /\ SlotsAreBalanced'
  BY DEF IInv, Handler, NoHandler, SlotsAreBalanced, ReapRemove, loop
<1>3. CliIsWatched' /\ RunningIsWatched'
  BY DEF IInv, TypeOK, CliIsWatched, RunningIsWatched, ReapRemove, loop, docker, history
<1>4. PostedFirst'
  BY DEF IInv, PostedFirst, Posted, ReapRemove, Drop, callers, loop, history
<1>5. AgeBound'
  BY DEF IInv, Posted, AgeBound, ReapRemove, callers
<1>6. StaleIsLong'
  BY DEF IInv, StaleIsLong, ReapRemove, Drop, callers, history
<1>7. QED
  BY <1>1, <1>2, <1>3, <1>4, <1>5, <1>6 DEF IInv

\* A container starts while a docker process drives it.
LEMMA DockerInv == ASSUME IInv, NEW c \in Clients, Docker(c) PROVE IInv'
<1>1. TypeOK'
  BY DEF IInv, TypeOK, Docker, Alive, callers, loop, history
<1>2. Handler' /\ NoHandler' /\ SlotsAreBalanced'
  BY DEF IInv, Handler, NoHandler, SlotsAreBalanced, Docker, loop
<1>3. CliIsWatched' /\ RunningIsWatched'
  BY LimitAssumption DEF IInv, TypeOK, CliIsWatched, RunningIsWatched, Docker, loop,
        history
<1>4. PostedFirst'
  BY DEF IInv, PostedFirst, Posted, Docker, callers, loop, history
<1>5. AgeBound'
  BY DEF IInv, Posted, AgeBound, Docker, callers
<1>6. StaleIsLong'
  BY DEF IInv, StaleIsLong, Docker, callers, history
<1>7. QED
  BY <1>1, <1>2, <1>3, <1>4, <1>5, <1>6 DEF IInv

\* Tests that end are over.
LEMMA TestsEndInv == ASSUME IInv, NEW c \in Clients, TestsEnd(c) PROVE IInv'
<1>1. TypeOK'
  BY DEF IInv, TypeOK, TestsEnd, callers, loop, history
<1>2. Handler' /\ NoHandler' /\ SlotsAreBalanced'
  BY DEF IInv, Handler, NoHandler, SlotsAreBalanced, TestsEnd, loop
<1>3. CliIsWatched' /\ RunningIsWatched'
  BY DEF IInv, CliIsWatched, RunningIsWatched, TestsEnd, loop, history
<1>4. PostedFirst'
  BY DEF IInv, PostedFirst, Posted, TestsEnd, callers, loop, history
<1>5. AgeBound'
  BY DEF IInv, Posted, AgeBound, TestsEnd, callers
<1>6. StaleIsLong'
  BY DEF IInv, StaleIsLong, TestsEnd, callers, history
<1>7. QED
  BY <1>1, <1>2, <1>3, <1>4, <1>5, <1>6 DEF IInv

\* Time passes while the handler has time left.
LEMMA TickInv == ASSUME IInv, Tick PROVE IInv'
<1>1. TypeOK'
  <2>1. waited' \in [Clients -> 0..ClientTimeout]
    BY InitialAges DEF Tick, IInv, TypeOK
  <2>2. ASSUME NEW c \in Clients PROVE age'[c] \in 0..AgeLimit
    <3>1. timeout[c] \in Timeouts /\ age[c] \in 0..AgeLimit
      BY DEF IInv, TypeOK
    <3>2. timeout[c] + KILL_TIMEOUT <= AgeLimit /\ timeout[c] <= AgeLimit
      <4>1. timeout[c] <= Longest /\ timeout[c] \in Nat /\ Longest \in Nat /\ KILL_TIMEOUT \in Nat
        BY <3>1, TimesAssumption, LongestIsLongest
      <4>2. QED
        BY <4>1 DEF AgeLimit
    <3>3. age'[c] \in {age[c], age[c] + 1}
          /\ (age'[c] = age[c] + 1 => c = handler)
      BY DEF Tick, IInv, TypeOK
    <3>4. c = handler => age[c] < timeout[c] + KILL_TIMEOUT
      BY <3>1, NoneAssumption, TimesAssumption DEF Tick, IInv, Handler
    <3>5. timeout[c] \in Nat /\ age[c] \in Nat
      <4>1. timeout[c] \in Nat
        BY <3>1, TimesAssumption
      <4>2. QED
        BY <3>1, <4>1, InitialAges
    <3>6. QED
      BY <3>1, <3>2, <3>3, <3>4, <3>5, TimesAssumption, InitialAges
  <2>3. age' \in [Clients -> 0..AgeLimit]
    BY <2>2 DEF Tick
  <2>4. QED
    BY <2>1, <2>3 DEF Tick, IInv, TypeOK, loop, history
<1>2. Handler' /\ NoHandler' /\ SlotsAreBalanced'
  BY DEF IInv, Handler, NoHandler, SlotsAreBalanced, Tick, loop
<1>3. CliIsWatched' /\ RunningIsWatched'
  BY DEF IInv, CliIsWatched, RunningIsWatched, Tick, loop, history
<1>4. PostedFirst'
  BY DEF IInv, PostedFirst, Posted, Tick, loop, history
<1>5. AgeBound'
  <2>1. SUFFICES ASSUME NEW c \in Clients
                 PROVE  IF Posted(c)' THEN age'[c] <= timeout'[c] + KILL_TIMEOUT
                                      ELSE age'[c] = 0
    BY DEF AgeBound
  <2>2. /\ age[c] \in Nat /\ timeout[c] \in Nat /\ KILL_TIMEOUT \in Nat
        /\ timeout'[c] = timeout[c] /\ (Posted(c)' <=> Posted(c))
        /\ IF Posted(c) THEN age[c] <= timeout[c] + KILL_TIMEOUT ELSE age[c] = 0
    BY TimesAssumption DEF Tick, Posted, IInv, TypeOK, AgeBound
  <2>3. CASE c # handler
    <3>1. age'[c] = age[c]
      BY <2>3 DEF Tick
    <3>2. QED
      BY <2>2, <3>1
  <2>4. CASE c = handler
    <3>1. age'[c] = age[c] + 1 /\ pc # "idle" /\ Posted(c)
      BY <2>4, NoneAssumption DEF Tick, IInv, Handler, PostedFirst
    <3>2. age[c] < timeout[c] + KILL_TIMEOUT
      <4>1. \/ age[c] < timeout[c]
            \/ age[c] < timeout[c] + KILL_TIMEOUT
        BY <2>4, <3>1 DEF Tick
      <4>2. QED
        BY <2>2, <4>1
    <3>3. QED
      BY <2>2, <3>1, <3>2
  <2>5. QED
    BY <2>3, <2>4
<1>6. StaleIsLong'
  BY DEF IInv, StaleIsLong, Tick, history
<1>7. QED
  BY <1>1, <1>2, <1>3, <1>4, <1>5, <1>6 DEF IInv

\* What is alive when the sidecar dies is noted.
LEMMA CrashInv == ASSUME IInv, Crash PROVE IInv'
<1>1. TypeOK'
  <2>1. slots' \in 0..MAX_CONCURRENT /\ crashes' \in 0..MAX_CRASHES
    BY LimitAssumption DEF Crash, IInv, TypeOK
  <2>2. /\ stage' \in [Clients -> {"idle", "sent", "done"}]
        /\ reply' \in [Clients -> Responses \cup {None}]
        /\ waited' \in [Clients -> 0..ClientTimeout]
    BY InitialAges, ResponsesTyped DEF Crash, IInv, TypeOK
  <2>3. queue' \in Seq(Clients)
    BY DEF Crash
  <2>4. QED
    BY <2>1, <2>2, <2>3 DEF Crash, IInv, TypeOK, docker
<1>2. Handler' /\ NoHandler' /\ SlotsAreBalanced'
  BY TimesAssumption, LimitAssumption DEF Handler, NoHandler, SlotsAreBalanced, Crash
<1>3. CliIsWatched' /\ RunningIsWatched'
  BY DEF IInv, TypeOK, CliIsWatched, RunningIsWatched, Crash, docker
<1>4. PostedFirst'
  BY DEF IInv, TypeOK, PostedFirst, Posted, Crash
<1>5. AgeBound'
  BY DEF IInv, Posted, AgeBound, Crash, docker
<1>6. StaleIsLong'
  BY DEF IInv, StaleIsLong, Crash
<1>7. QED
  BY <1>1, <1>2, <1>3, <1>4, <1>5, <1>6 DEF IInv

\* The table is empty when it starts.
LEMMA RestartInv == ASSUME IInv, Restart PROVE IInv'
<1>1. TypeOK'
  BY DEF IInv, TypeOK, Restart, callers, loop, docker, history
<1>2. Handler' /\ NoHandler' /\ SlotsAreBalanced'
  BY DEF IInv, Handler, NoHandler, SlotsAreBalanced, Restart, loop
<1>3. CliIsWatched' /\ RunningIsWatched'
  BY DEF IInv, CliIsWatched, RunningIsWatched, Restart, loop, docker, history
<1>4. PostedFirst'
  BY DEF IInv, PostedFirst, Posted, Restart, callers, loop, history
<1>5. AgeBound'
  BY DEF IInv, Posted, AgeBound, Restart, callers, docker
<1>6. StaleIsLong'
  BY DEF IInv, StaleIsLong, Restart, callers, history
<1>7. QED
  BY <1>1, <1>2, <1>3, <1>4, <1>5, <1>6 DEF IInv

\* Every step keeps the invariant.
LEMMA NextInv == IInv /\ [Next]_vars => IInv'
<1> SUFFICES ASSUME IInv, [Next]_vars PROVE IInv'
  OBVIOUS
<1>1. ASSUME NEW c \in Clients, NEW t \in Timeouts, Post(c, t) PROVE IInv'
  BY <1>1, PostInv
<1>2. ASSUME NEW c \in Clients, GiveUp(c) PROVE IInv'
  BY <1>2, GiveUpInv
<1>3. ASSUME NEW c \in Clients, ReapKill(c) PROVE IInv'
  BY <1>3, ReapKillInv
<1>4. ASSUME NEW c \in Clients, ReapRemove(c) PROVE IInv'
  BY <1>4, ReapRemoveInv
<1>5. ASSUME NEW c \in Clients, Docker(c) PROVE IInv'
  BY <1>5, DockerInv
<1>6. ASSUME NEW c \in Clients, TestsEnd(c) PROVE IInv'
  BY <1>6, TestsEndInv
<1>7. CASE Accept
  BY <1>7, AcceptInv
<1>8. CASE Discard
  BY <1>8, DiscardInv
<1>9. CASE Handle
  BY <1>9, RunTrustedInv, StartRunInv, SpawnInv, CollectInv, KillInv, RunExpiresInv,
        FinishInv DEF Handle
<1>10. CASE Reap
  BY <1>10, ReapInv
<1>11. CASE Tick
  BY <1>11, TickInv
<1>12. CASE Crash
  BY <1>12, CrashInv
<1>13. CASE Restart
  BY <1>13, RestartInv
<1>14. CASE UNCHANGED vars
  BY <1>14
  DEF vars, callers, loop, docker, history, IInv, TypeOK, Handler, NoHandler,
      SlotsAreBalanced, CliIsWatched, RunningIsWatched, PostedFirst, Posted, AgeBound,
      StaleIsLong
<1>15. QED
  BY <1>1, <1>2, <1>3, <1>4, <1>5, <1>6, <1>7, <1>8, <1>9, <1>10, <1>11, <1>12, <1>13,
     <1>14 DEF Next

\* The invariant that the theorems rest on.
THEOREM Invariant == Spec => []IInv
BY InitInv, NextInv, PTL DEF Spec

\* Types, with the bounds on waiting and on age, for any values of the constants.
THEOREM TypeCorrect == Spec => []TypeOK
<1>1. IInv => TypeOK
  BY DEF IInv
<1>2. QED
  BY <1>1, Invariant, PTL

\* Every path of the handler gives its slot back.
THEOREM SlotsBalance == Spec => []SlotsAreBalanced
<1>1. IInv => SlotsAreBalanced
  BY DEF IInv
<1>2. QED
  BY <1>1, Invariant, PTL

\* No container runs unwatched but after a docker kill that raised or a restart.
THEOREM NoneStrays == Spec => []NoStrayContainer
<1>1. IInv => NoStrayContainer
  BY DEF IInv, RunningIsWatched, NoStrayContainer
<1>2. QED
  BY <1>1, Invariant, PTL

\* The reaper's cutoff is after the handler's own kill, for every ordinary timeout.
THEOREM ReaperIsPatient == Spec => []ReaperSparesOrdinaryRuns
<1>1. IInv => ReaperSparesOrdinaryRuns
  BY DEF IInv, StaleIsLong, ReaperSparesOrdinaryRuns
<1>2. QED
  BY <1>1, Invariant, PTL

=============================================================================
