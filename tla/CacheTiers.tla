------------------------------ MODULE CacheTiers ------------------------------
(***************************************************************************)
(* The two-tier cache of generation results (app/cache/l1_cache.py,        *)
(* app/cache/manager.py, app/repositories/cache_repository.py) as          *)
(* GenerationService.generate() uses it.                                   *)
(*                                                                         *)
(* Every server process has an L1 of its own, shared by its request        *)
(* threads; L2 is a table.  A request is one generate() or one             *)
(* invalidate().  A step is one critical section of L1's lock or one       *)
(* database statement or commit, so the steps of requests interleave       *)
(* between the tiers and between the read and the commit of an upsert.     *)
(* A value is named by the request whose pipeline generated it.            *)
(***************************************************************************)
EXTENDS Naturals, Sequences, FiniteSets, SequencesExt, Functions

CONSTANTS
    Procs,
    Requests,
    Keys,
    ENABLE_L1_CACHE, ENABLE_L2_CACHE,
    L1_MAX_SIZE, L1_TTL, L2_TTL,
    MAX_IN_FLIGHT,      \* requests served at the same time
    MAX_CALL,           \* ticks that pass during one call of the cache at most
    LAST_TICK,          \* bound on the clock
    None

ASSUME CacheTiersAssumption ==
    /\ ENABLE_L1_CACHE \in BOOLEAN /\ ENABLE_L2_CACHE \in BOOLEAN
    /\ L1_MAX_SIZE \in Nat \ {0} /\ L1_TTL \in Nat \ {0} /\ L2_TTL \in Nat \ {0}
    /\ MAX_IN_FLIGHT \in Nat /\ MAX_CALL \in Nat /\ LAST_TICK \in Nat
    /\ None \notin Procs \cup Keys \cup Requests \cup Nat

VARIABLES
    now,
    l1,         \* each process's OrderedDict, the least recently used entry first
    l2,         \* the table cache_entries, by its unique cache_key
    proc,       \* the process that serves each request
    pc, key,
    spent,      \* ticks the request's current call of the cache has taken
    row,        \* the row its session has loaded
    due,        \* the expires_at it is about to write
    answer,     \* the value generate() returns
    broken,     \* sessions whose flush has failed: every use raises
    age,        \* history: how old the answer was
    born,       \* history: when the pipeline finished
    alone,      \* history: the last request, if no other has overlapped it
    retired,    \* history: values that each process has invalidated, alone
    banned      \* history: values its process had retired when the request
                \* began, or for an invalidate(), those it is to retire

tiers == <<l1, l2>>
history == <<age, born, alone, retired, banned>>
vars == <<now, tiers, proc, pc, key, spent, row, due, answer, broken, history>>

Rest == {"idle", "done", "failed", "raised"}
Calling == {"look_l1", "look_l2", "fill_l1", "write_l1", "find_row", "commit_row", "drop_l1", "drop_l2"}
Control == Rest \cup Calling \cup {"pipeline", "finish"}

Time == 0..LAST_TICK
Expiry == 0..LAST_TICK + L1_TTL + L2_TTL
L1Entry == [key : Keys, value : Requests, expires : Expiry]
Row == [id : Requests, value : Requests, expires : Expiry]

TypeOK ==
    /\ now \in Time
    /\ l1 \in [Procs -> Seq(L1Entry)]
    /\ \A p \in Procs :
           /\ Len(l1[p]) <= L1_MAX_SIZE
           /\ IsInjective([i \in DOMAIN l1[p] |-> l1[p][i].key])
    /\ l2 \in [Keys -> Row \cup {None}]
    /\ pc \in [Requests -> Control]
    /\ key \in [Requests -> Keys \cup {None}]
    /\ spent \in [Requests -> 0..MAX_CALL] /\ born \in [Requests -> Time \cup {None}]
    /\ row \in [Requests -> Row \cup {None}]
    /\ due \in [Requests -> Expiry]
    /\ answer \in [Requests -> Requests \cup {None}] /\ age \in [Requests -> Time]
    /\ proc \in [Requests -> Procs \cup {None}]
    /\ broken \subseteq Requests /\ alone \subseteq Requests
    /\ retired \in [Procs -> SUBSET Requests]
    /\ banned \in [Requests -> SUBSET Requests]

Init ==
    /\ now = 0
    /\ l1 = [p \in Procs |-> <<>>]
    /\ l2 = [k \in Keys |-> None]
    /\ pc = [r \in Requests |-> "idle"]
    /\ key = [r \in Requests |-> None]
    /\ proc = [r \in Requests |-> None]
    /\ spent = [r \in Requests |-> 0]
    /\ row = [r \in Requests |-> None]
    /\ due = [r \in Requests |-> 0]
    /\ answer = [r \in Requests |-> None]
    /\ broken = {}
    /\ age = [r \in Requests |-> 0]
    /\ born = [r \in Requests |-> None]
    /\ alone = {}
    /\ retired = [p \in Procs |-> {}]
    /\ banned = [r \in Requests |-> {}]

Has(cache, k) == \E i \in DOMAIN cache : cache[i].key = k
Place(cache, k) == CHOOSE i \in DOMAIN cache : cache[i].key = k
Entry(cache, k) == cache[Place(cache, k)]
Without(cache, k) == IF Has(cache, k) THEN RemoveAt(cache, Place(cache, k)) ELSE cache
InFlight == {r \in Requests : pc[r] \notin Rest}

\* History: invalidate() returns, and no other request has overlapped it.
Retire(r) ==
    retired' = IF r \in alone THEN [retired EXCEPT ![proc[r]] = @ \cup banned[r]] ELSE retired

-----------------------------------------------------------------------------
(* Seeded faults (see JobEngine). *)
FaultEvictLate(cache, e) ==
    Append(IF Len(cache) > L1_MAX_SIZE THEN Tail(cache) ELSE Without(cache, e.key), e)
FaultNoExpiry(r) == l2[key[r]] # None
FaultOnlyL1(r) ==
    /\ pc[r] = "drop_l2"
    /\ Retire(r)
    /\ pc' = [pc EXCEPT ![r] = "done"]
    /\ UNCHANGED <<now, tiers, proc, key, spent, row, due, answer, broken, age, born, alone, banned>>

-----------------------------------------------------------------------------
(* The operations of L1, each under its lock. *)

\* L1Cache.set()
L1Set(cache, e) ==
    IF Has(cache, e.key) THEN Append(Without(cache, e.key), e)
    ELSE Append(IF Len(cache) >= L1_MAX_SIZE THEN Tail(cache) ELSE cache, e)

SetL1(r, value) ==
    l1' = IF ENABLE_L1_CACHE
          THEN [l1 EXCEPT ![proc[r]] =
                    L1Set(@, [key |-> key[r], value |-> value, expires |-> now + L1_TTL])]
          ELSE l1

\* L1Cache.purge_expired(): the entries whose time has not passed stay, in order.
PurgeExpired(p) ==
    /\ \E n \in 0..Len(l1[p]) : \E kept \in [1..n -> DOMAIN l1[p]] :
           /\ Range(kept) = {i \in DOMAIN l1[p] : now <= l1[p][i].expires}
           /\ \A i, j \in 1..n : i < j => kept[i] < kept[j]
           /\ l1' = [l1 EXCEPT ![p] = [i \in 1..n |-> l1[p][kept[i]]]]
    /\ l1' # l1
    /\ UNCHANGED <<now, l2, proc, pc, key, spent, row, due, answer, broken, history>>

\* CacheRepository.delete_expired()
DeleteExpired ==
    /\ l2' = [k \in Keys |-> IF l2[k] # None /\ l2[k].expires < now THEN None ELSE l2[k]]
    /\ l2' # l2
    /\ UNCHANGED <<now, l1, proc, pc, key, spent, row, due, answer, broken, history>>

\* Time passes, but no call of the cache takes for ever.
Tick ==
    /\ now < LAST_TICK
    /\ \A r \in Requests : pc[r] \in Calling => spent[r] < MAX_CALL
    /\ now' = now + 1
    /\ spent' = [r \in Requests |-> IF pc[r] \in Calling THEN spent[r] + 1 ELSE 0]
    /\ UNCHANGED <<tiers, proc, pc, key, row, due, answer, broken, history>>

-----------------------------------------------------------------------------
(* generate(), and the cache manager under it. *)

\* A request arrives: generate() or invalidate() of some key.
Begin(r) ==
    /\ pc[r] = "idle"
    /\ Cardinality(InFlight) < MAX_IN_FLIGHT
    /\ alone' = IF InFlight = {} THEN {r} ELSE {}
    /\ \E k \in Keys, p \in Procs :
           /\ proc' = [proc EXCEPT ![r] = p]
           /\ key' = [key EXCEPT ![r] = k]
           /\ \/ /\ pc' = [pc EXCEPT ![r] = "look_l1"]
                 /\ banned' = [banned EXCEPT ![r] = retired[p]]
              \/ /\ pc' = [pc EXCEPT ![r] = "drop_l1"]
                 /\ banned' = [banned EXCEPT ![r] =
                                   {v \in Requests : pc[v] = "done" /\ key[v] = k /\ born[v] # None}]
    /\ spent' = [spent EXCEPT ![r] = 0]
    /\ UNCHANGED <<now, tiers, row, due, answer, broken, age, born, retired>>

\* The request is answered with a value out of the cache.
ServeHit(r, value) ==
    /\ answer' = [answer EXCEPT ![r] = value]
    /\ age' = [age EXCEPT ![r] = now - born[value]]
    /\ pc' = [pc EXCEPT ![r] = "done"]

\* get(), L1: an entry that is found moves to the end, an expired one is removed.
LookInL1(r) ==
    /\ pc[r] = "look_l1"
    /\ LET cache == l1[proc[r]]
           k == key[r]
       IN  IF ENABLE_L1_CACHE /\ Has(cache, k)
           THEN LET e == Entry(cache, k) IN
                IF now <= e.expires
                THEN /\ l1' = [l1 EXCEPT ![proc[r]] = Append(Without(cache, k), e)]
                     /\ ServeHit(r, e.value)
                ELSE /\ l1' = [l1 EXCEPT ![proc[r]] = Without(cache, k)]
                     /\ pc' = [pc EXCEPT ![r] = "look_l2"]
                     /\ UNCHANGED <<answer, age>>
           ELSE /\ pc' = [pc EXCEPT ![r] = "look_l2"]
                /\ UNCHANGED <<l1, answer, age>>
    /\ UNCHANGED <<now, l2, proc, key, spent, row, due, broken, born, alone, retired, banned>>

FreshRow(r) == l2[key[r]] # None /\ now <= l2[key[r]].expires

\* get(), L2: the row is read and its expiry checked.
LookInL2(r) ==
    /\ pc[r] = "look_l2"
    /\ IF ENABLE_L2_CACHE /\ FreshRow(r)
       THEN /\ row' = [row EXCEPT ![r] = l2[key[r]]]
            /\ pc' = [pc EXCEPT ![r] = "fill_l1"]
       ELSE /\ pc' = [pc EXCEPT ![r] = "pipeline"]
            /\ UNCHANGED row
    /\ UNCHANGED <<now, tiers, proc, key, spent, due, answer, broken, history>>

\* get(), L2 hit: L1 is populated, for another L1_TTL.  (The hit count of the
\* row, which nothing reads, is left out.)
FillL1(r) ==
    /\ pc[r] = "fill_l1"
    /\ SetL1(r, row[r].value)
    /\ ServeHit(r, row[r].value)
    /\ row' = [row EXCEPT ![r] = None]
    /\ UNCHANGED <<now, l2, proc, key, spent, due, broken, born, alone, retired, banned>>

\* The pipeline of a miss ends and its result is handed to set(); a pipeline
\* that fails leaves the cache alone.
RunPipeline(r) ==
    /\ pc[r] = "pipeline"
    /\ \/ /\ pc' = [pc EXCEPT ![r] = "write_l1"]
          /\ born' = [born EXCEPT ![r] = now]
          /\ spent' = [spent EXCEPT ![r] = 0]
       \/ /\ pc' = [pc EXCEPT ![r] = "failed"]
          /\ UNCHANGED <<born, spent>>
    /\ UNCHANGED <<now, tiers, proc, key, row, due, answer, broken, age, alone, retired, banned>>

\* set(), L1
WriteL1(r) ==
    /\ pc[r] = "write_l1"
    /\ SetL1(r, r)
    /\ pc' = [pc EXCEPT ![r] = IF ENABLE_L2_CACHE THEN "find_row" ELSE "finish"]
    /\ UNCHANGED <<now, l2, proc, key, spent, row, due, answer, broken, history>>

\* upsert(): the SELECT ...
FindRow(r) ==
    /\ pc[r] = "find_row"
    /\ row' = [row EXCEPT ![r] = l2[key[r]]]
    /\ due' = [due EXCEPT ![r] = now + L2_TTL]
    /\ pc' = [pc EXCEPT ![r] = "commit_row"]
    /\ UNCHANGED <<now, tiers, proc, key, spent, answer, broken, history>>

\* The row the flush addresses is as it was found: still absent, or still there.
SameRow(r) ==
    IF row[r] = None THEN l2[key[r]] = None
    ELSE l2[key[r]] # None /\ l2[key[r]].id = row[r].id

RowToWrite(r) ==
    [id |-> IF row[r] = None THEN r ELSE row[r].id, value |-> r, expires |-> due[r]]

\* ... and the INSERT or UPDATE.  When the key was inserted, or the row deleted,
\* in between, the flush raises; set() swallows the error without a rollback.
CommitRow(r) ==
    /\ pc[r] = "commit_row"
    /\ IF SameRow(r)
       THEN /\ l2' = [l2 EXCEPT ![key[r]] = RowToWrite(r)]
            /\ UNCHANGED broken
       ELSE /\ broken' = broken \cup {r}
            /\ UNCHANGED l2
    /\ row' = [row EXCEPT ![r] = None] /\ due' = [due EXCEPT ![r] = 0]
    /\ pc' = [pc EXCEPT ![r] = "finish"]
    /\ UNCHANGED <<now, l1, proc, key, spent, answer, history>>

\* generate() loads the record it returns in the same session.
Finish(r) ==
    /\ pc[r] = "finish"
    /\ IF r \in broken
       THEN pc' = [pc EXCEPT ![r] = "raised"] /\ UNCHANGED answer
       ELSE pc' = [pc EXCEPT ![r] = "done"] /\ answer' = [answer EXCEPT ![r] = r]
    /\ UNCHANGED <<now, tiers, proc, key, spent, row, due, broken, history>>

\* invalidate(), L1 ...
DropL1(r) ==
    /\ pc[r] = "drop_l1"
    /\ l1' = IF ENABLE_L1_CACHE
             THEN [l1 EXCEPT ![proc[r]] = Without(@, key[r])]
             ELSE l1
    /\ pc' = [pc EXCEPT ![r] = "drop_l2"]
    /\ UNCHANGED <<now, l2, proc, key, spent, row, due, answer, broken, history>>

\* ... and L2.
DropL2(r) ==
    /\ pc[r] = "drop_l2"
    /\ l2' = IF ENABLE_L2_CACHE THEN [l2 EXCEPT ![key[r]] = None] ELSE l2
    /\ Retire(r)
    /\ pc' = [pc EXCEPT ![r] = "done"]
    /\ UNCHANGED <<now, l1, proc, key, spent, row, due, answer, broken, age, born, alone, banned>>

RequestStep(r) ==
    \/ Begin(r)
    \/ LookInL1(r)
    \/ LookInL2(r)
    \/ FillL1(r)
    \/ RunPipeline(r)
    \/ WriteL1(r)
    \/ FindRow(r)
    \/ CommitRow(r)
    \/ Finish(r)
    \/ DropL1(r)
    \/ DropL2(r)

Next ==
    \/ Tick
    \/ DeleteExpired
    \/ \E p \in Procs : PurgeExpired(p)
    \/ \E r \in Requests : RequestStep(r)

Spec == Init /\ [][Next]_vars
-----------------------------------------------------------------------------
\* Whatever overlaps, a request is answered with a value for its own key that a
\* pipeline completed, and no older than both times to live together: an L2 hit
\* is good for another L1_TTL, but an L1 entry is never written back to L2.
\* (Twice MAX_CALL: the expiry is computed after the pipeline, and L1 filled
\* after the expiry was checked.)
AnswerIsGenuine ==
    \A r \in Requests :
        answer[r] # None =>
            /\ key[answer[r]] = key[r]
            /\ born[answer[r]] # None
            /\ age[r] <= L1_TTL + L2_TTL + 2 * MAX_CALL

\* A request that begins after invalidate(key) has returned in its process, with
\* no other request in flight meanwhile, is not answered with a value that was
\* generated before: neither out of L1, nor of L2, nor of an L1 refilled from L2.
\* (An overlapping hit may refill L1 between the two halves of invalidate(), and
\* the L1 of another process keeps the value until it expires.)
InvalidatedIsGone == \A r \in Requests : answer[r] \notin banned[r]

-----------------------------------------------------------------------------
(* What the code's own words claim and its behaviour refutes.              *)

\* manager.py:161 "L2 write failure must never break the caller".
L2FailureIsHarmless == \A r \in Requests : pc[r] # "raised"
=============================================================================
