-------------------------- MODULE CacheTiers_proofs --------------------------
(***************************************************************************)
(* What TLAPS proves of CacheTiers, for every set of processes, requests   *)
(* and keys, every size and time to live, and both settings of each tier.  *)
(***************************************************************************)
EXTENDS CacheTiers, SequenceTheorems, TLAPS

(***************************************************************************)
(* The inductive invariant.                                                *)
(***************************************************************************)

\* How far a request has come, and what it has by then.
Progress ==
    \A r \in Requests :
        /\ pc[r] # "idle" => key[r] # None /\ proc[r] # None
        /\ pc[r] \in {"idle", "look_l1", "look_l2", "fill_l1", "pipeline"} => born[r] = None
        /\ pc[r] \in {"write_l1", "find_row", "commit_row"} =>
               born[r] # None /\ now = born[r] + spent[r]
        /\ pc[r] = "commit_row" => due[r] <= born[r] + MAX_CALL + L2_TTL
        /\ pc[r] = "finish" => born[r] # None
        /\ born[r] # None => born[r] <= now
        /\ pc[r] # "done" => answer[r] = None /\ age[r] = 0

\* An entry or a row holds what a pipeline completed for its key, and its time
\* is bounded from when that was.
OfKey(v, k) == key[v] = k /\ born[v] # None
GoodEntry(e) == OfKey(e.value, e.key) /\ e.expires <= born[e.value] + L1_TTL + L2_TTL + 2 * MAX_CALL
GoodRow(k, x) == OfKey(x.value, k) /\ x.expires <= born[x.value] + L2_TTL + MAX_CALL

L1Genuine == \A p \in Procs : \A i \in DOMAIN l1[p] : GoodEntry(l1[p][i])
L2Genuine == \A k \in Keys : l2[k] # None => GoodRow(k, l2[k])
LoadedGenuine ==
    \A r \in Requests :
        pc[r] = "fill_l1" =>
            row[r] # None /\ GoodRow(key[r], row[r]) /\ now <= row[r].expires + spent[r]

\* A tier that is switched off stays empty.
TiersOff ==
    /\ ~ENABLE_L1_CACHE => \A p \in Procs : l1[p] = <<>>
    /\ ~ENABLE_L2_CACHE => /\ \A k \in Keys : l2[k] = None
                           /\ \A r \in Requests : pc[r] \notin {"find_row", "commit_row"}

\* What a process has retired is in no place it can be served from.
L1Retired == \A p \in Procs : \A i \in DOMAIN l1[p] : l1[p][i].value \notin retired[p]
L2Retired == \A k \in Keys, p \in Procs : l2[k] # None => l2[k].value \notin retired[p]
LoadedRetired == \A r \in Requests : pc[r] = "fill_l1" => row[r].value \notin retired[proc[r]]

Over(v) == pc[v] = "done" /\ born[v] # None
RetiredIsOver == \A p \in Procs : \A v \in retired[p] : Over(v)

\* A generate() knows of what was retired when it began, an invalidate() of the
\* finished values of its key.
BannedIsRetired ==
    \A r \in Requests :
        /\ pc[r] \in {"look_l1", "look_l2", "fill_l1", "pipeline", "write_l1",
                      "find_row", "commit_row", "finish"} => banned[r] \subseteq retired[proc[r]]
        /\ pc[r] \in {"drop_l1", "drop_l2"} =>
               \A v \in banned[r] : Over(v) /\ key[v] = key[r]

\* While a request is alone nobody else is in flight, so between the two halves
\* of its invalidate() nobody refills L1.
AloneIsAlone == \A r \in alone, q \in Requests : pc[q] \notin Rest => q = r
DroppedIsGone ==
    \A r \in alone :
        pc[r] = "drop_l2" => \A i \in DOMAIN l1[proc[r]] : l1[proc[r]][i].key # key[r]

IInv ==
    /\ TypeOK
    /\ Progress
    /\ L1Genuine /\ L2Genuine /\ LoadedGenuine
    /\ TiersOff
    /\ L1Retired /\ L2Retired /\ LoadedRetired
    /\ RetiredIsOver /\ BannedIsRetired
    /\ AloneIsAlone /\ DroppedIsGone
    /\ AnswerIsGenuine /\ InvalidatedIsGone

-----------------------------------------------------------------------------
(* The operators on one L1.                                                *)

Distinct(cache) == \A i, j \in DOMAIN cache : cache[i].key = cache[j].key => i = j
IsL1(cache) == cache \in Seq(L1Entry) /\ Len(cache) <= L1_MAX_SIZE /\ Distinct(cache)
Within(new, old) == \A i \in DOMAIN new : \E j \in DOMAIN old : new[i] = old[j]

\* TypeOK says of each L1 what IsL1 does.
LEMMA TypeIsL1 ==
    ASSUME l1 \in [Procs -> Seq(L1Entry)]
    PROVE  (\A p \in Procs : /\ Len(l1[p]) <= L1_MAX_SIZE
                              /\ IsInjective([i \in DOMAIN l1[p] |-> l1[p][i].key]))
           <=> \A p \in Procs : IsL1(l1[p])
<1>1. ASSUME NEW p \in Procs
      PROVE  IsInjective([i \in DOMAIN l1[p] |-> l1[p][i].key]) <=> Distinct(l1[p])
  BY DEF IsInjective, Distinct
<1> QED BY <1>1 DEF IsL1

LEMMA PlaceFacts ==
    ASSUME NEW cache, NEW k, Has(cache, k)
    PROVE  Place(cache, k) \in DOMAIN cache /\ cache[Place(cache, k)].key = k
BY DEF Has, Place

\* RemoveAt takes one place out and closes the gap.
LEMMA RemoveAtFacts ==
    ASSUME NEW S, NEW s \in Seq(S), NEW n \in DOMAIN s
    PROVE  /\ RemoveAt(s, n) \in Seq(S)
           /\ Len(RemoveAt(s, n)) = Len(s) - 1
           /\ \A i \in 1..Len(s) - 1 : RemoveAt(s, n)[i] = IF i < n THEN s[i] ELSE s[i + 1]
<1> DEFINE a == SubSeq(s, 1, n - 1)
           b == SubSeq(s, n + 1, Len(s))
<1>0. n \in 1..Len(s) /\ Len(s) \in Nat
  BY LenProperties
<1>1. a \in Seq(S) /\ Len(a) = n - 1 /\ \A i \in 1..n - 1 : a[i] = s[i]
  BY <1>0, SubSeqProperties
<1>2. b \in Seq(S) /\ Len(b) = Len(s) - n /\ \A i \in 1..Len(s) - n : b[i] = s[n + i]
  BY <1>0, SubSeqProperties
<1> HIDE DEF a, b
<1>3. a \o b \in Seq(S) /\ Len(a \o b) = Len(s) - 1
  BY <1>0, <1>1, <1>2, ConcatProperties
<1>4. ASSUME NEW i \in 1..Len(s) - 1
      PROVE  (a \o b)[i] = IF i < n THEN s[i] ELSE s[i + 1]
  <2>1. (a \o b)[i] = IF i <= Len(a) THEN a[i] ELSE b[i - Len(a)]
    BY <1>0, <1>1, <1>2, ConcatProperties
  <2>2. CASE i < n
    BY <2>1, <2>2, <1>0, <1>1
  <2>3. CASE ~(i < n)
    BY <2>1, <2>3, <1>0, <1>1, <1>2
  <2> QED BY <2>2, <2>3
<1> QED BY <1>3, <1>4 DEF RemoveAt, a, b

\* An entry is dropped: what is left is an L1, and has no entry of the key.
LEMMA WithoutFacts ==
    ASSUME NEW cache, IsL1(cache), NEW k
    PROVE  /\ IsL1(Without(cache, k)) /\ Within(Without(cache, k), cache)
           /\ \A i \in DOMAIN Without(cache, k) : Without(cache, k)[i].key # k
           /\ Has(cache, k) => Len(Without(cache, k)) = Len(cache) - 1
<1>1. CASE ~Has(cache, k)
  BY <1>1 DEF Without, Has, Within
<1>2. CASE Has(cache, k)
  <2> DEFINE n == Place(cache, k)
             w == RemoveAt(cache, n)
  <2>1. n \in 1..Len(cache) /\ n \in DOMAIN cache /\ cache[n].key = k /\ cache \in Seq(L1Entry)
        /\ Len(cache) \in Nat
    BY <1>2, PlaceFacts, LenProperties DEF IsL1
  <2> HIDE DEF n
  <2>2. /\ w \in Seq(L1Entry) /\ Len(w) = Len(cache) - 1
        /\ \A i \in 1..Len(cache) - 1 : w[i] = IF i < n THEN cache[i] ELSE cache[i + 1]
    BY <2>1, RemoveAtFacts
  <2> HIDE DEF w
  <2>3. DOMAIN w = 1..Len(cache) - 1 /\ DOMAIN cache = 1..Len(cache)
    BY <2>1, <2>2, LenProperties
  <2> DEFINE from(i) == IF i < n THEN i ELSE i + 1
  <2>4. \A i \in DOMAIN w : from(i) \in DOMAIN cache /\ from(i) # n /\ w[i] = cache[from(i)]
    BY <2>1, <2>2, <2>3
  <2>5. \A i, j \in DOMAIN w : from(i) = from(j) => i = j
    BY <2>1, <2>3
  <2> HIDE DEF from
  <2>6. Distinct(cache) /\ Len(cache) <= L1_MAX_SIZE
    BY DEF IsL1
  <2>7. Distinct(w)
    BY <2>4, <2>5, <2>6 DEF Distinct
  <2>8. \A i \in DOMAIN w : w[i].key # k
    BY <2>1, <2>4, <2>6 DEF Distinct
  <2>9. Len(w) <= L1_MAX_SIZE
    BY <2>1, <2>2, <2>6, CacheTiersAssumption
  <2>10. Without(cache, k) = w
    BY <1>2 DEF Without, w, n
  <2> QED BY <2>2, <2>4, <2>7, <2>8, <2>9, <2>10 DEF IsL1, Within
<1> QED BY <1>1, <1>2

\* The least recently used entry is evicted.
LEMMA TailFacts ==
    ASSUME NEW cache, IsL1(cache), cache # <<>>
    PROVE  /\ IsL1(Tail(cache)) /\ Within(Tail(cache), cache)
           /\ Len(Tail(cache)) = Len(cache) - 1
<1>1. /\ Tail(cache) \in Seq(L1Entry) /\ Len(Tail(cache)) = Len(cache) - 1
      /\ \A i \in 1..Len(Tail(cache)) : Tail(cache)[i] = cache[i + 1]
      /\ Len(cache) \in Nat
  BY HeadTailProperties, LenProperties DEF IsL1
<1>2. DOMAIN Tail(cache) = 1..Len(cache) - 1 /\ DOMAIN cache = 1..Len(cache)
  BY <1>1, LenProperties DEF IsL1
<1>3. Distinct(Tail(cache))
  BY <1>1, <1>2 DEF IsL1, Distinct
<1>4. Len(Tail(cache)) <= L1_MAX_SIZE
  BY <1>1, CacheTiersAssumption DEF IsL1
<1>5. \A i \in DOMAIN Tail(cache) : Tail(cache)[i] = cache[i + 1] /\ i + 1 \in DOMAIN cache
  BY <1>1, <1>2
<1> QED BY <1>1, <1>3, <1>4, <1>5 DEF IsL1, Within

\* An entry of a key that has none is put at the end.
LEMMA AppendFacts ==
    ASSUME NEW cache, IsL1(cache), Len(cache) < L1_MAX_SIZE, NEW e \in L1Entry,
           \A i \in DOMAIN cache : cache[i].key # e.key
    PROVE  /\ IsL1(Append(cache, e))
           /\ \A i \in DOMAIN Append(cache, e) :
                  Append(cache, e)[i] = e \/ \E j \in DOMAIN cache : Append(cache, e)[i] = cache[j]
<1> DEFINE n == Append(cache, e)
<1>1. cache \in Seq(L1Entry) /\ Len(cache) \in Nat /\ DOMAIN cache = 1..Len(cache)
  BY LenProperties DEF IsL1
<1>2. n \in Seq(L1Entry) /\ Len(n) = Len(cache) + 1 /\ DOMAIN n = 1..Len(cache) + 1
  BY <1>1, AppendProperties, LenProperties
<1>3. \A i \in DOMAIN n : n[i] = IF i \in DOMAIN cache THEN cache[i] ELSE e
  BY <1>1, <1>2, AppendProperties
<1>4. \A i \in DOMAIN n : i \in DOMAIN cache \/ i = Len(cache) + 1
  BY <1>1, <1>2
<1> HIDE DEF n
<1>5. Distinct(n)
  BY <1>3, <1>4 DEF Distinct, IsL1
<1>6. Len(n) <= L1_MAX_SIZE
  BY <1>1, <1>2, CacheTiersAssumption
<1> QED BY <1>2, <1>3, <1>5, <1>6 DEF IsL1, n

\* L1Cache.set() keeps the size, one entry a key, and adds nothing but the entry.
LEMMA L1SetFacts ==
    ASSUME NEW cache, IsL1(cache), NEW e \in L1Entry
    PROVE  /\ IsL1(L1Set(cache, e))
           /\ \A i \in DOMAIN L1Set(cache, e) :
                  L1Set(cache, e)[i] = e \/ \E j \in DOMAIN cache : L1Set(cache, e)[i] = cache[j]
<1>0. Len(cache) \in Nat /\ Len(cache) <= L1_MAX_SIZE /\ L1_MAX_SIZE \in Nat \ {0}
  BY LenProperties, CacheTiersAssumption DEF IsL1
<1>1. CASE Has(cache, e.key)
  <2> DEFINE w == Without(cache, e.key)
  <2>1. IsL1(w) /\ Within(w, cache) /\ Len(w) < L1_MAX_SIZE /\ \A i \in DOMAIN w : w[i].key # e.key
    BY <1>0, <1>1, WithoutFacts
  <2>2. L1Set(cache, e) = Append(w, e)
    BY <1>1 DEF L1Set
  <2> HIDE DEF w
  <2> QED BY <2>1, <2>2, AppendFacts DEF Within
<1>2. CASE ~Has(cache, e.key) /\ Len(cache) >= L1_MAX_SIZE
  <2> DEFINE w == Tail(cache)
  <2>1. IsL1(w) /\ Within(w, cache) /\ Len(w) < L1_MAX_SIZE
    <3>1. cache # <<>>
      BY <1>0, <1>2, EmptySeq
    <3> QED BY <1>0, <3>1, TailFacts
  <2>2. L1Set(cache, e) = Append(w, e)
    BY <1>2 DEF L1Set
  <2> HIDE DEF w
  <2>3. \A i \in DOMAIN w : w[i].key # e.key
    BY <1>2, <2>1 DEF Has, Within
  <2> QED BY <2>1, <2>2, <2>3, AppendFacts DEF Within
<1>3. CASE ~Has(cache, e.key) /\ ~(Len(cache) >= L1_MAX_SIZE)
  <2>1. L1Set(cache, e) = Append(cache, e) /\ Len(cache) < L1_MAX_SIZE
    BY <1>0, <1>3 DEF L1Set
  <2> QED BY <1>3, <2>1, AppendFacts DEF Has
<1> QED BY <1>1, <1>2, <1>3

-----------------------------------------------------------------------------
(* What a step may do to an L1, and to L2.                                 *)

\* An entry that FillL1 or WriteL1 puts into the L1 of process p.
Filled(p, e) ==
    \E r \in Requests :
        /\ p = proc[r] /\ e.key = key[r] /\ e.expires = now + L1_TTL
        /\ \/ pc[r] = "fill_l1" /\ e.value = row[r].value
           \/ pc[r] = "write_l1" /\ e.value = r

L1Changes ==
    /\ l1' \in [Procs -> Seq(L1Entry)]
    /\ \A p \in Procs :
           /\ IsL1(l1'[p])
           /\ \A i \in DOMAIN l1'[p] :
                  Filled(p, l1'[p][i]) \/ \E j \in DOMAIN l1[p] : l1'[p][i] = l1[p][j]

\* Where one process's cache is replaced.
LEMMA L1Replaced ==
    ASSUME TypeOK, NEW p \in Procs, NEW new, l1' = [l1 EXCEPT ![p] = new], IsL1(new),
           \A i \in DOMAIN new :
               Filled(p, new[i]) \/ \E j \in DOMAIN l1[p] : new[i] = l1[p][j]
    PROVE  L1Changes
<1>1. l1 \in [Procs -> Seq(L1Entry)] /\ \A q \in Procs : IsL1(l1[q])
  BY TypeIsL1 DEF TypeOK
<1>2. l1' \in [Procs -> Seq(L1Entry)] /\ l1'[p] = new
  BY <1>1 DEF IsL1
<1>3. \A q \in Procs : q # p => l1'[q] = l1[q]
  BY <1>1
<1>4. ASSUME NEW q \in Procs
      PROVE  /\ IsL1(l1'[q])
             /\ \A i \in DOMAIN l1'[q] :
                    Filled(q, l1'[q][i]) \/ \E j \in DOMAIN l1[q] : l1'[q][i] = l1[q][j]
  <2>1. CASE q = p
    BY <1>2, <2>1
  <2>2. CASE q # p
    BY <1>1, <1>3, <2>2
  <2> QED BY <2>1, <2>2
<1> QED BY <1>2, <1>4 DEF L1Changes

LEMMA L1Unchanged == ASSUME TypeOK, UNCHANGED l1 PROVE L1Changes
<1>1. l1 \in [Procs -> Seq(L1Entry)] /\ \A q \in Procs : IsL1(l1[q])
  BY TypeIsL1 DEF TypeOK
<1> QED BY <1>1 DEF L1Changes

\* Both writers of L1.
LEMMA SetL1Changes ==
    ASSUME TypeOK, NEW r \in Requests, proc[r] # None, key[r] # None, NEW v \in Requests,
           \/ pc[r] = "fill_l1" /\ v = row[r].value
           \/ pc[r] = "write_l1" /\ v = r,
           SetL1(r, v)
    PROVE  L1Changes
<1>1. CASE ENABLE_L1_CACHE
  <2> DEFINE e == [key |-> key[r], value |-> v, expires |-> now + L1_TTL]
  <2>1. proc[r] \in Procs /\ key[r] \in Keys /\ now \in Time
    BY DEF TypeOK
  <2>2. now + L1_TTL \in Expiry
    BY <2>1, CacheTiersAssumption DEF Time, Expiry
  <2>3. e \in L1Entry
    BY <2>1, <2>2 DEF L1Entry
  <2>4. Filled(proc[r], e)
    BY DEF Filled
  <2>5. l1' = [l1 EXCEPT ![proc[r]] = L1Set(l1[proc[r]], e)]
    BY <1>1 DEF SetL1
  <2>6. IsL1(l1[proc[r]])
    BY <2>1, TypeIsL1 DEF TypeOK
  <2> HIDE DEF e
  <2> DEFINE new == L1Set(l1[proc[r]], e)
  <2>7. /\ IsL1(new)
        /\ \A i \in DOMAIN new : new[i] = e \/ \E j \in DOMAIN l1[proc[r]] : new[i] = l1[proc[r]][j]
    BY <2>3, <2>6, L1SetFacts
  <2> HIDE DEF new
  <2>8. l1' = [l1 EXCEPT ![proc[r]] = new]
    BY <2>5 DEF new
  <2> QED BY <2>1, <2>4, <2>7, <2>8, L1Replaced
<1>2. CASE ~ENABLE_L1_CACHE
  BY <1>2, L1Unchanged DEF SetL1
<1> QED BY <1>1, <1>2

LEMMA L1Step == ASSUME IInv, [Next]_vars PROVE L1Changes
<1> USE DEF IInv
<1>1. CASE UNCHANGED l1
  BY <1>1, L1Unchanged
<1>2. ASSUME NEW p \in Procs, PurgeExpired(p) PROVE L1Changes
  <2>1. PICK n \in 0..Len(l1[p]) : \E kept \in [1..n -> DOMAIN l1[p]] :
            /\ \A i, j \in 1..n : i < j => kept[i] < kept[j]
            /\ l1' = [l1 EXCEPT ![p] = [i \in 1..n |-> l1[p][kept[i]]]]
    BY <1>2 DEF PurgeExpired
  <2>2. PICK kept \in [1..n -> DOMAIN l1[p]] :
            /\ \A i, j \in 1..n : i < j => kept[i] < kept[j]
            /\ l1' = [l1 EXCEPT ![p] = [i \in 1..n |-> l1[p][kept[i]]]]
    BY <2>1
  <2> DEFINE new == [i \in 1..n |-> l1[p][kept[i]]]
  <2>3. IsL1(l1[p]) /\ l1[p] \in Seq(L1Entry) /\ Len(l1[p]) \in Nat
        /\ DOMAIN l1[p] = 1..Len(l1[p])
    <3>1. IsL1(l1[p])
      BY TypeIsL1 DEF TypeOK
    <3> QED BY <3>1, LenProperties DEF IsL1
  <2>4. n \in Nat /\ n <= Len(l1[p])
    BY <2>3
  <2>5. \A i \in 1..n : l1[p][kept[i]] \in L1Entry
    BY <2>3, ElementOfSeq
  <2>6. new \in Seq(L1Entry)
    BY <2>4, <2>5, IsASeq
  <2>7. DOMAIN new = 1..n /\ Len(new) = n
    BY <2>4, <2>6, LenProperties
  <2>8. \A i, j \in 1..n : kept[i] = kept[j] => i = j
    <3> SUFFICES ASSUME NEW i \in 1..n, NEW j \in 1..n, kept[i] = kept[j], i < j PROVE FALSE
      OBVIOUS
    <3>1. kept[i] < kept[j] /\ kept[i] \in Nat
      BY <2>2, <2>3
    <3> QED BY <3>1
  <2>9. Distinct(new)
    <3> SUFFICES ASSUME NEW i \in 1..n, NEW j \in 1..n, new[i].key = new[j].key PROVE i = j
      BY <2>7 DEF Distinct
    <3>1. kept[i] \in DOMAIN l1[p] /\ kept[j] \in DOMAIN l1[p] /\ l1[p][kept[i]].key = l1[p][kept[j]].key
      OBVIOUS
    <3>2. kept[i] = kept[j]
      BY <2>3, <3>1 DEF IsL1, Distinct
    <3> QED BY <2>8, <3>2
  <2>10. Len(new) <= L1_MAX_SIZE
    BY <2>3, <2>4, <2>7, CacheTiersAssumption DEF IsL1
  <2>11. \A i \in DOMAIN new : \E j \in DOMAIN l1[p] : new[i] = l1[p][j]
    BY <2>7
  <2>12. l1' = [l1 EXCEPT ![p] = new]
    BY <2>2
  <2> HIDE DEF new
  <2> QED BY <2>6, <2>9, <2>10, <2>11, <2>12, L1Replaced DEF IsL1
<1>3. ASSUME NEW r \in Requests, LookInL1(r) PROVE L1Changes
  <2> DEFINE p == proc[r]
             k == key[r]
             w == Without(l1[p], k)
  <2>1. p \in Procs /\ pc[r] = "look_l1"
    BY <1>3 DEF LookInL1, TypeOK, Progress
  <2>2. IsL1(l1[p])
    BY <2>1, TypeIsL1 DEF TypeOK
  <2>3. /\ IsL1(w) /\ Within(w, l1[p]) /\ \A i \in DOMAIN w : w[i].key # k
        /\ Has(l1[p], k) => Len(w) = Len(l1[p]) - 1
    BY <2>2, WithoutFacts
  <2> HIDE DEF w
  <2>4. CASE l1' = [l1 EXCEPT ![p] = w]
    BY <2>1, <2>3, <2>4, L1Replaced DEF Within
  <2>5. CASE Has(l1[p], k) /\ l1' = [l1 EXCEPT ![p] = Append(w, Entry(l1[p], k))]
    <3> DEFINE e == Entry(l1[p], k)
               new == Append(w, e)
    <3>1. Place(l1[p], k) \in DOMAIN l1[p] /\ e.key = k
      BY <2>5, PlaceFacts DEF Entry
    <3>2. \E j \in DOMAIN l1[p] : e = l1[p][j]
      BY <3>1 DEF Entry
    <3>3. e \in L1Entry
      BY <2>2, <3>2, ElementOfSeq DEF IsL1
    <3>4. Len(w) < L1_MAX_SIZE
      BY <2>2, <2>3, <2>5, LenProperties, CacheTiersAssumption DEF IsL1
    <3> HIDE DEF e
    <3>5. /\ IsL1(new)
          /\ \A i \in DOMAIN new : new[i] = e \/ \E j \in DOMAIN w : new[i] = w[j]
      BY <2>3, <3>1, <3>3, <3>4, AppendFacts
    <3>6. l1' = [l1 EXCEPT ![p] = new]
      BY <2>5 DEF e
    <3> HIDE DEF new
    <3>7. \A i \in DOMAIN new : \E j \in DOMAIN l1[p] : new[i] = l1[p][j]
      BY <2>3, <3>2, <3>5 DEF Within
    <3> QED BY <2>1, <3>5, <3>6, <3>7, L1Replaced
  <2> QED BY <1>1, <1>3, <2>4, <2>5 DEF LookInL1, w
<1>4. ASSUME NEW r \in Requests, FillL1(r) PROVE L1Changes
  <2>1. pc[r] = "fill_l1" /\ row[r] \in Row /\ SetL1(r, row[r].value)
    BY <1>4 DEF FillL1, LoadedGenuine, TypeOK
  <2> QED BY <2>1, SetL1Changes DEF Progress, Row
<1>5. ASSUME NEW r \in Requests, WriteL1(r) PROVE L1Changes
  BY <1>5, SetL1Changes DEF WriteL1, Progress
<1>6. ASSUME NEW r \in Requests, DropL1(r) PROVE L1Changes
  <2>1. proc[r] \in Procs
    BY <1>6 DEF DropL1, TypeOK, Progress
  <2>2. CASE ENABLE_L1_CACHE
    <3> DEFINE new == Without(l1[proc[r]], key[r])
    <3>1. IsL1(new) /\ Within(new, l1[proc[r]])
      BY <2>1, TypeIsL1, WithoutFacts DEF TypeOK
    <3>2. l1' = [l1 EXCEPT ![proc[r]] = new]
      BY <1>6, <2>2 DEF DropL1
    <3> HIDE DEF new
    <3> QED BY <2>1, <3>1, <3>2, L1Replaced DEF Within
  <2> QED BY <1>1, <1>6, <2>2 DEF DropL1
<1> QED BY <1>1, <1>2, <1>3, <1>4, <1>5, <1>6
      DEF Next, RequestStep, vars, tiers, Tick, DeleteExpired, Begin, LookInL2, RunPipeline,
          FindRow, CommitRow, Finish, DropL2

\* A row that CommitRow writes.
L2Changes ==
    /\ l2' \in [Keys -> Row \cup {None}]
    /\ \A k \in Keys :
           \/ l2'[k] \in {None, l2[k]}
           \/ \E r \in Requests :
                  pc[r] = "commit_row" /\ key[r] = k /\ l2'[k].value = r /\ l2'[k].expires = due[r]

LEMMA L2Step == ASSUME IInv, [Next]_vars PROVE L2Changes
<1> USE DEF IInv
<1>1. CASE UNCHANGED l2
  BY <1>1 DEF L2Changes, TypeOK
<1>2. CASE DeleteExpired
  BY <1>2 DEF DeleteExpired, L2Changes, TypeOK
<1>3. ASSUME NEW r \in Requests, CommitRow(r) PROVE L2Changes
  <2>1. CASE SameRow(r)
    <3>1. l2' = [l2 EXCEPT ![key[r]] = RowToWrite(r)] /\ pc[r] = "commit_row" /\ key[r] \in Keys
      BY <1>3, <2>1 DEF CommitRow, TypeOK, Progress
    <3>2. RowToWrite(r) \in Row /\ RowToWrite(r).value = r /\ RowToWrite(r).expires = due[r]
      BY DEF RowToWrite, Row, TypeOK
    <3> HIDE DEF IInv
    <3>3. l2 \in [Keys -> Row \cup {None}]
      BY DEF IInv, TypeOK
    <3> QED BY <3>1, <3>2, <3>3 DEF L2Changes
  <2> QED BY <1>1, <1>3, <2>1 DEF CommitRow
<1>4. ASSUME NEW r \in Requests, DropL2(r) PROVE L2Changes
  BY <1>4 DEF DropL2, L2Changes, TypeOK
<1> QED BY <1>1, <1>2, <1>3, <1>4
      DEF Next, RequestStep, vars, tiers, Tick, PurgeExpired, Begin, LookInL1, LookInL2, FillL1,
          RunPipeline, WriteL1, FindRow, Finish, DropL1

-----------------------------------------------------------------------------
(* What no step does to a finished value.                                  *)

LEMMA ValuesStay ==
    ASSUME IInv, [Next]_vars, NEW v \in Requests, born[v] # None
    PROVE  /\ born'[v] = born[v] /\ key'[v] = key[v]
           /\ pc[v] = "done" => pc'[v] = "done"
<1>0. born \in [Requests -> Time \cup {None}] /\ key \in [Requests -> Keys \cup {None}]
      /\ pc \in [Requests -> Control]
  BY DEF IInv, TypeOK
<1>1. pc[v] \notin {"idle", "pipeline"}
  BY DEF IInv, Progress
<1>2. ASSUME NEW r \in Requests, Begin(r)
      PROVE  r # v /\ born' = born /\ key'[v] = key[v] /\ pc'[v] = pc[v]
  BY <1>0, <1>1, <1>2 DEF Begin
<1>3. ASSUME NEW r \in Requests, RunPipeline(r)
      PROVE  r # v /\ born'[v] = born[v] /\ key' = key /\ pc'[v] = pc[v]
  BY <1>0, <1>1, <1>3 DEF RunPipeline
<1>4. ASSUME NEW r \in Requests, RequestStep(r), ~Begin(r), ~RunPipeline(r)
      PROVE  born' = born /\ key' = key /\ (pc[v] = "done" => pc'[v] = pc[v])
  BY <1>0, <1>4 DEF RequestStep, LookInL1, LookInL2, FillL1, ServeHit, WriteL1, FindRow, CommitRow,
                    Finish, DropL1, DropL2, history
<1>5. CASE UNCHANGED vars \/ Tick \/ DeleteExpired \/ \E p \in Procs : PurgeExpired(p)
  BY <1>5 DEF vars, history, Tick, DeleteExpired, PurgeExpired
<1> QED BY <1>2, <1>3, <1>4, <1>5 DEF Next

-----------------------------------------------------------------------------
(* Types.                                                                  *)

\* TypeOK without the two tiers.
RequestTypes ==
    /\ now \in Time
    /\ pc \in [Requests -> Control]
    /\ key \in [Requests -> Keys \cup {None}]
    /\ spent \in [Requests -> 0..MAX_CALL] /\ born \in [Requests -> Time \cup {None}]
    /\ row \in [Requests -> Row \cup {None}]
    /\ due \in [Requests -> Expiry]
    /\ answer \in [Requests -> Requests \cup {None}] /\ age \in [Requests -> Time]
    /\ proc \in [Requests -> Procs \cup {None}]
    /\ broken \subseteq Requests /\ alone \subseteq Requests
    /\ retired \in [Procs -> SUBSET Requests]
    /\ banned \in [Requests -> SUBSET Requests]

LEMMA RequestTypesStep == ASSUME IInv, [Next]_vars PROVE RequestTypes'
<1> USE DEF IInv
<1>0. RequestTypes /\ l2 \in [Keys -> Row \cup {None}]
  BY DEF TypeOK, RequestTypes
<1>a. ASSUME NEW v \in Requests, born[v] # None PROVE now - born[v] \in Time
  BY <1>0, <1>a, CacheTiersAssumption DEF Progress, RequestTypes, Time
<1>b. 0 \in Time
  BY CacheTiersAssumption DEF Time
<1>1. ASSUME NEW r \in Requests, proc[r] # None, Retire(r)
      PROVE  retired' \in [Procs -> SUBSET Requests]
  BY <1>0, <1>1 DEF Retire, RequestTypes
<1>2. CASE UNCHANGED vars
  BY <1>0, <1>2 DEF RequestTypes, vars, history
<1>3. CASE Tick
  <2>1. now' \in Time /\ spent' \in [Requests -> 0..MAX_CALL]
    BY <1>0, <1>3, CacheTiersAssumption DEF Tick, RequestTypes, Time
  <2> QED BY <1>0, <1>3, <2>1 DEF Tick, RequestTypes, history
<1>4. CASE DeleteExpired
  BY <1>0, <1>4 DEF RequestTypes, DeleteExpired, history
<1>5. ASSUME NEW p \in Procs, PurgeExpired(p) PROVE RequestTypes'
  BY <1>0, <1>5 DEF RequestTypes, PurgeExpired, history
<1>6. ASSUME NEW r \in Requests, Begin(r) PROVE RequestTypes'
  <2>1. PICK k \in Keys, p \in Procs :
            /\ proc' = [proc EXCEPT ![r] = p] /\ key' = [key EXCEPT ![r] = k]
            /\ \/ /\ pc' = [pc EXCEPT ![r] = "look_l1"]
                  /\ banned' = [banned EXCEPT ![r] = retired[p]]
               \/ /\ pc' = [pc EXCEPT ![r] = "drop_l1"]
                  /\ banned' = [banned EXCEPT ![r] =
                                    {v \in Requests : pc[v] = "done" /\ key[v] = k /\ born[v] # None}]
    BY <1>6 DEF Begin
  <2>2. banned' \in [Requests -> SUBSET Requests] /\ pc' \in [Requests -> Control]
    <3>1. {v \in Requests : pc[v] = "done" /\ key[v] = k /\ born[v] # None} \in SUBSET Requests
      OBVIOUS
    <3>2. banned' \in [Requests -> SUBSET Requests]
      BY <1>0, <2>1, <3>1 DEF RequestTypes
    <3>3. \E c \in {"look_l1", "drop_l1"} : pc' = [pc EXCEPT ![r] = c]
      BY <2>1
    <3> QED BY <1>0, <3>2, <3>3 DEF RequestTypes, Control, Calling
  <2>3. spent' \in [Requests -> 0..MAX_CALL]
    BY <1>0, <1>6, CacheTiersAssumption DEF Begin, RequestTypes
  <2>4. proc' \in [Requests -> Procs \cup {None}] /\ key' \in [Requests -> Keys \cup {None}]
    BY <1>0, <2>1 DEF RequestTypes
  <2>5. alone' \subseteq Requests
    BY <1>6 DEF Begin
  <2> QED BY <1>0, <1>6, <2>2, <2>3, <2>4, <2>5 DEF RequestTypes, Begin
<1>7. ASSUME NEW r \in Requests, LookInL1(r) PROVE RequestTypes'
  <2>1. pc' \in [Requests -> Control]
    <3>1. pc' = [pc EXCEPT ![r] = "done"] \/ pc' = [pc EXCEPT ![r] = "look_l2"]
      BY <1>7, Zenon DEF LookInL1, ServeHit
    <3> QED BY <1>0, <3>1 DEF RequestTypes, Control, Calling, Rest
  <2>2. answer' \in [Requests -> Requests \cup {None}] /\ age' \in [Requests -> Time]
    <3>1. proc[r] \in Procs
      BY <1>7 DEF LookInL1, Progress, TypeOK
    <3>2. l1[proc[r]] \in Seq(L1Entry)
      BY <3>1 DEF TypeOK
    <3>3. Has(l1[proc[r]], key[r]) => Entry(l1[proc[r]], key[r]) \in L1Entry
      BY <3>2, PlaceFacts, ElementOfSeq DEF Entry
    <3>4. Has(l1[proc[r]], key[r]) =>
              LET v == Entry(l1[proc[r]], key[r]).value IN v \in Requests /\ born[v] # None
      BY <3>1, <3>3, PlaceFacts DEF L1Entry, Entry, L1Genuine, GoodEntry, OfKey
    <3>5. \/ UNCHANGED <<answer, age>>
          \/ \E v \in Requests :
                 /\ born[v] # None /\ answer' = [answer EXCEPT ![r] = v]
                 /\ age' = [age EXCEPT ![r] = now - born[v]]
      BY <1>7, <3>4, Zenon DEF LookInL1, ServeHit
    <3> QED BY <1>0, <1>a, <3>5 DEF RequestTypes
  <2> QED BY <1>0, <1>7, <2>1, <2>2 DEF RequestTypes, LookInL1
<1>8. ASSUME NEW r \in Requests, LookInL2(r) PROVE RequestTypes'
  <2>1. key[r] \in Keys
    BY <1>8 DEF LookInL2, Progress, TypeOK
  <2>2. pc' \in [Requests -> Control] /\ row' \in [Requests -> Row \cup {None}]
    BY <1>0, <1>8, <2>1 DEF LookInL2, RequestTypes, Control, Calling
  <2> QED BY <1>0, <1>8, <2>2 DEF RequestTypes, LookInL2, history
<1>9. ASSUME NEW r \in Requests, FillL1(r) PROVE RequestTypes'
  <2>1. row[r] \in Row
    BY <1>9 DEF FillL1, LoadedGenuine, TypeOK
  <2>2. row[r].value \in Requests
    BY <2>1 DEF Row
  <2>3. pc' \in [Requests -> Control] /\ row' \in [Requests -> Row \cup {None}]
        /\ answer' \in [Requests -> Requests \cup {None}]
    BY <1>0, <1>9, <2>2 DEF FillL1, ServeHit, RequestTypes, Control, Rest
  <2>4. age' \in [Requests -> Time]
    <3>1. GoodRow(key[r], row[r])
      BY <1>9 DEF FillL1, LoadedGenuine
    <3> QED BY <1>0, <1>9, <1>a, <2>2, <3>1 DEF FillL1, ServeHit, GoodRow, OfKey, RequestTypes
  <2> QED BY <1>0, <1>9, <2>3, <2>4 DEF RequestTypes, FillL1
<1>10. ASSUME NEW r \in Requests, RunPipeline(r) PROVE RequestTypes'
  <2>1. pc' \in [Requests -> Control] /\ born' \in [Requests -> Time \cup {None}]
    BY <1>0, <1>10 DEF RunPipeline, RequestTypes, Control, Rest, Calling
  <2>2. spent' \in [Requests -> 0..MAX_CALL]
    BY <1>0, <1>10, CacheTiersAssumption DEF RunPipeline, RequestTypes
  <2> QED BY <1>0, <1>10, <2>1, <2>2 DEF RequestTypes, RunPipeline
<1>11. ASSUME NEW r \in Requests, WriteL1(r) PROVE RequestTypes'
  BY <1>0, <1>11 DEF RequestTypes, WriteL1, Control, Calling, history
<1>12. ASSUME NEW r \in Requests, FindRow(r) PROVE RequestTypes'
  <2>1. key[r] \in Keys
    BY <1>12 DEF FindRow, Progress, TypeOK
  <2>2. row' \in [Requests -> Row \cup {None}] /\ pc' \in [Requests -> Control]
    BY <1>0, <1>12, <2>1 DEF FindRow, RequestTypes, Control, Calling
  <2>3. now + L2_TTL \in Expiry
    BY <1>0, CacheTiersAssumption DEF RequestTypes, Time, Expiry
  <2>4. due' \in [Requests -> Expiry]
    BY <1>0, <1>12, <2>3 DEF FindRow, RequestTypes
  <2> QED BY <1>0, <1>12, <2>2, <2>4 DEF RequestTypes, FindRow, history
<1>13. ASSUME NEW r \in Requests, CommitRow(r) PROVE RequestTypes'
  <2>1. 0 \in Expiry
    BY CacheTiersAssumption DEF Expiry
  <2>2. row' \in [Requests -> Row \cup {None}] /\ pc' \in [Requests -> Control]
        /\ due' \in [Requests -> Expiry] /\ broken' \subseteq Requests
    BY <1>0, <1>13, <2>1 DEF CommitRow, RequestTypes, Control
  <2> QED BY <1>0, <1>13, <2>2 DEF RequestTypes, CommitRow, history
<1>14. ASSUME NEW r \in Requests, Finish(r) PROVE RequestTypes'
  <2>1. pc' \in [Requests -> Control] /\ answer' \in [Requests -> Requests \cup {None}]
    BY <1>0, <1>14 DEF Finish, RequestTypes, Control, Rest
  <2> QED BY <1>0, <1>14, <2>1 DEF RequestTypes, Finish, history
<1>15. ASSUME NEW r \in Requests, DropL1(r) PROVE RequestTypes'
  BY <1>0, <1>15 DEF RequestTypes, DropL1, Control, Calling, history
<1>16. ASSUME NEW r \in Requests, DropL2(r) PROVE RequestTypes'
  <2>1. retired' \in [Procs -> SUBSET Requests]
    BY <1>1, <1>16 DEF DropL2, Progress
  <2>2. pc' \in [Requests -> Control]
    BY <1>0, <1>16 DEF DropL2, RequestTypes, Control, Rest
  <2> QED BY <1>0, <1>16, <2>1, <2>2 DEF RequestTypes, DropL2
<1> QED BY <1>2, <1>3, <1>4, <1>5, <1>6, <1>7, <1>8, <1>9, <1>10, <1>11, <1>12, <1>13, <1>14,
           <1>15, <1>16 DEF Next, RequestStep

LEMMA TypeStep == ASSUME IInv, [Next]_vars PROVE TypeOK'
<1>1. L1Changes /\ L2Changes /\ RequestTypes'
  BY L1Step, L2Step, RequestTypesStep
<1>2. ASSUME NEW p \in Procs
      PROVE  /\ Len(l1'[p]) <= L1_MAX_SIZE
             /\ IsInjective([i \in DOMAIN l1'[p] |-> l1'[p][i].key])
  BY <1>1 DEF L1Changes, IsL1, IsInjective, Distinct
<1> QED BY <1>1, <1>2 DEF TypeOK, L1Changes, L2Changes, RequestTypes

-----------------------------------------------------------------------------
(* How far the requests have come.                                         *)

LEMMA ProgressStep == ASSUME IInv, [Next]_vars PROVE Progress'
<1>0. RequestTypes /\ Progress
  BY DEF IInv, TypeOK, RequestTypes
<1>1. CASE UNCHANGED vars
  BY <1>0, <1>1 DEF Progress, vars, history
<1>2. CASE Tick
  BY <1>0, <1>2, CacheTiersAssumption DEF Progress, RequestTypes, Tick, Calling, Time, history
<1>3. CASE DeleteExpired
  BY <1>0, <1>3 DEF Progress, DeleteExpired, history
<1>4. ASSUME NEW p \in Procs, PurgeExpired(p) PROVE Progress'
  BY <1>0, <1>4 DEF Progress, PurgeExpired, history
<1>5. ASSUME NEW r \in Requests, Begin(r) PROVE Progress'
  <2>1. PICK k \in Keys, p \in Procs :
            /\ proc' = [proc EXCEPT ![r] = p] /\ key' = [key EXCEPT ![r] = k]
            /\ \/ pc' = [pc EXCEPT ![r] = "look_l1"]
               \/ pc' = [pc EXCEPT ![r] = "drop_l1"]
    BY <1>5 DEF Begin
  <2>2. k # None /\ p # None
    BY CacheTiersAssumption
  <2>3. pc[r] = "idle" /\ spent' = [spent EXCEPT ![r] = 0]
        /\ UNCHANGED <<now, due, answer, age, born>>
    BY <1>5 DEF Begin
  <2>4. ASSUME NEW q \in Requests, q # r
        PROVE  /\ pc'[q] = pc[q] /\ key'[q] = key[q] /\ proc'[q] = proc[q] /\ spent'[q] = spent[q]
    BY <1>0, <2>1, <2>3, <2>4 DEF RequestTypes
  <2>5. /\ pc'[r] \in {"look_l1", "drop_l1"} /\ key'[r] = k /\ proc'[r] = p
        /\ born[r] = None /\ answer[r] = None /\ age[r] = 0
    BY <1>0, <2>1, <2>3 DEF RequestTypes, Progress
  <2> QED BY <1>0, <2>2, <2>3, <2>4, <2>5 DEF Progress
<1>6. ASSUME NEW r \in Requests, LookInL1(r) PROVE Progress'
  <2>1. /\ pc[r] = "look_l1" /\ UNCHANGED <<now, key, proc, spent, due, born>>
        /\ \/ /\ pc' = [pc EXCEPT ![r] = "look_l2"] /\ UNCHANGED <<answer, age>>
           \/ /\ pc' = [pc EXCEPT ![r] = "done"]
              /\ \E v, n : answer' = [answer EXCEPT ![r] = v] /\ age' = [age EXCEPT ![r] = n]
    BY <1>6, Zenon DEF LookInL1, ServeHit
  <2>2. ASSUME NEW q \in Requests, q # r
        PROVE  pc'[q] = pc[q] /\ answer'[q] = answer[q] /\ age'[q] = age[q]
    BY <1>0, <2>1, <2>2 DEF RequestTypes
  <2>3. \/ pc'[r] = "done"
        \/ pc'[r] = "look_l2" /\ answer'[r] = answer[r] /\ age'[r] = age[r]
    BY <1>0, <2>1 DEF RequestTypes
  <2> QED BY <1>0, <2>1, <2>2, <2>3 DEF Progress
<1>7. ASSUME NEW r \in Requests, LookInL2(r) PROVE Progress'
  BY <1>0, <1>7 DEF Progress, RequestTypes, LookInL2, history
<1>8. ASSUME NEW r \in Requests, FillL1(r) PROVE Progress'
  BY <1>0, <1>8 DEF Progress, RequestTypes, FillL1, ServeHit
<1>9. ASSUME NEW r \in Requests, RunPipeline(r) PROVE Progress'
  <2>1. now # None /\ now = now + 0 /\ now <= now
    BY <1>0, CacheTiersAssumption DEF RequestTypes, Time
  <2>2. pc[r] = "pipeline" /\ UNCHANGED <<now, key, proc, due, answer, age>>
    BY <1>9 DEF RunPipeline
  <2>3. ASSUME NEW q \in Requests, q # r
        PROVE  pc'[q] = pc[q] /\ born'[q] = born[q] /\ spent'[q] = spent[q]
    BY <1>0, <1>9, <2>3 DEF RunPipeline, RequestTypes
  <2>4. \/ pc'[r] = "failed" /\ born'[r] = born[r]
        \/ pc'[r] = "write_l1" /\ born'[r] = now /\ spent'[r] = 0
    BY <1>0, <1>9 DEF RunPipeline, RequestTypes
  <2> QED BY <1>0, <2>1, <2>2, <2>3, <2>4 DEF Progress
<1>10. ASSUME NEW r \in Requests, WriteL1(r) PROVE Progress'
  BY <1>0, <1>10 DEF Progress, RequestTypes, WriteL1, history
<1>11. ASSUME NEW r \in Requests, FindRow(r) PROVE Progress'
  <2>1. pc[r] = "find_row" /\ born[r] # None /\ now = born[r] + spent[r]
    BY <1>0, <1>11 DEF FindRow, Progress
  <2>2. now + L2_TTL <= born[r] + MAX_CALL + L2_TTL
    BY <1>0, <2>1, CacheTiersAssumption DEF RequestTypes, Time
  <2> QED BY <1>0, <1>11, <2>1, <2>2 DEF Progress, RequestTypes, FindRow, history
<1>12. ASSUME NEW r \in Requests, CommitRow(r) PROVE Progress'
  <2>1. /\ pc[r] = "commit_row" /\ pc' = [pc EXCEPT ![r] = "finish"]
        /\ UNCHANGED <<now, proc, key, spent, answer, age, born>>
        /\ due' = [due EXCEPT ![r] = 0]
    BY <1>12 DEF CommitRow, history
  <2> QED BY <1>0, <2>1 DEF Progress, RequestTypes
<1>13. ASSUME NEW r \in Requests, Finish(r) PROVE Progress'
  BY <1>0, <1>13 DEF Progress, RequestTypes, Finish, history
<1>14. ASSUME NEW r \in Requests, DropL1(r) PROVE Progress'
  BY <1>0, <1>14 DEF Progress, RequestTypes, DropL1, history
<1>15. ASSUME NEW r \in Requests, DropL2(r) PROVE Progress'
  BY <1>0, <1>15 DEF Progress, RequestTypes, DropL2
<1> QED BY <1>1, <1>2, <1>3, <1>4, <1>5, <1>6, <1>7, <1>8, <1>9, <1>10, <1>11, <1>12, <1>13,
           <1>14, <1>15 DEF Next, RequestStep

-----------------------------------------------------------------------------
(* What the tiers hold is genuine.                                         *)

LEMMA L1GenuineStep == ASSUME IInv, [Next]_vars PROVE L1Genuine'
<1>1. SUFFICES ASSUME NEW p \in Procs, NEW i \in DOMAIN l1'[p], NEW e, e = l1'[p][i]
               PROVE  /\ key'[e.value] = e.key /\ born'[e.value] # None
                      /\ e.expires <= born'[e.value] + L1_TTL + L2_TTL + 2 * MAX_CALL
  BY DEF L1Genuine, GoodEntry, OfKey
<1>0. RequestTypes /\ TypeOK /\ Progress
  BY DEF IInv, TypeOK, RequestTypes
<1>2. Filled(p, e) \/ \E j \in DOMAIN l1[p] : e = l1[p][j]
  BY <1>1, L1Step DEF L1Changes
<1>3. CASE \E j \in DOMAIN l1[p] : e = l1[p][j]
  <2>1. PICK j \in DOMAIN l1[p] : e = l1[p][j]
    BY <1>3
  <2>2. e \in L1Entry
    BY <1>0, <1>1, <2>1, ElementOfSeq DEF TypeOK
  <2>3. GoodEntry(e)
    BY <2>1 DEF IInv, L1Genuine
  <2> QED BY <2>2, <2>3, ValuesStay DEF GoodEntry, OfKey, L1Entry
<1>4. CASE Filled(p, e)
  <2>1. PICK r \in Requests :
            /\ e.key = key[r] /\ e.expires = now + L1_TTL
            /\ \/ pc[r] = "fill_l1" /\ e.value = row[r].value
               \/ pc[r] = "write_l1" /\ e.value = r
    BY <1>4 DEF Filled
  <2>2. CASE pc[r] = "fill_l1" /\ e.value = row[r].value
    <3>1. row[r] \in Row /\ GoodRow(key[r], row[r]) /\ now <= row[r].expires + spent[r]
      BY <1>0, <2>2 DEF IInv, LoadedGenuine, TypeOK
    <3>2. row[r].value \in Requests /\ row[r].expires \in Expiry
      BY <3>1 DEF Row
    <3> DEFINE v == row[r].value
               x == row[r].expires
    <3>3. key[v] = key[r] /\ born[v] # None /\ x <= born[v] + L2_TTL + MAX_CALL
      BY <3>1 DEF GoodRow, OfKey
    <3>4. born[v] \in Nat /\ x \in Nat /\ spent[r] \in 0..MAX_CALL /\ now \in Nat
      BY <1>0, <3>2, <3>3, CacheTiersAssumption DEF RequestTypes, Time, Expiry
    <3> HIDE DEF v, x
    <3>5. now + L1_TTL <= born[v] + L1_TTL + L2_TTL + 2 * MAX_CALL
      BY <3>1, <3>3, <3>4, CacheTiersAssumption DEF x
    <3>6. key'[v] = key[v] /\ born'[v] = born[v]
      BY <3>2, <3>3, ValuesStay DEF v
    <3> QED BY <2>1, <2>2, <3>3, <3>5, <3>6 DEF v
  <2>3. CASE pc[r] = "write_l1" /\ e.value = r
    <3>1. born[r] # None /\ now = born[r] + spent[r]
      BY <1>0, <2>3 DEF Progress
    <3>2. born[r] \in Nat /\ spent[r] \in 0..MAX_CALL
      BY <1>0, <3>1, CacheTiersAssumption DEF RequestTypes, Time
    <3>3. now + L1_TTL <= born[r] + L1_TTL + L2_TTL + 2 * MAX_CALL
      BY <3>1, <3>2, CacheTiersAssumption
    <3> QED BY <2>1, <2>3, <3>1, <3>3, ValuesStay
  <2> QED BY <2>1, <2>2, <2>3
<1> QED BY <1>2, <1>3, <1>4

LEMMA L2GenuineStep == ASSUME IInv, [Next]_vars PROVE L2Genuine'
<1>1. SUFFICES ASSUME NEW k \in Keys, l2'[k] # None, NEW x, x = l2'[k]
               PROVE  /\ key'[x.value] = k /\ born'[x.value] # None
                      /\ x.expires <= born'[x.value] + L2_TTL + MAX_CALL
  BY DEF L2Genuine, GoodRow, OfKey
<1>0. RequestTypes /\ TypeOK /\ Progress
  BY DEF IInv, TypeOK, RequestTypes
<1>2. CASE x = l2[k]
  <2>1. x \in Row /\ GoodRow(k, x)
    BY <1>0, <1>1, <1>2 DEF IInv, L2Genuine, TypeOK
  <2> QED BY <2>1, ValuesStay DEF GoodRow, OfKey, Row
<1>3. CASE \E r \in Requests :
               pc[r] = "commit_row" /\ key[r] = k /\ x.value = r /\ x.expires = due[r]
  <2>1. PICK r \in Requests : pc[r] = "commit_row" /\ key[r] = k /\ x.value = r /\ x.expires = due[r]
    BY <1>3
  <2>2. born[r] # None /\ due[r] <= born[r] + MAX_CALL + L2_TTL
    BY <1>0, <2>1 DEF Progress
  <2>3. born[r] \in Nat
    BY <1>0, <2>2 DEF RequestTypes, Time
  <2>4. due[r] <= born[r] + L2_TTL + MAX_CALL
    BY <2>2, <2>3, CacheTiersAssumption
  <2> QED BY <2>1, <2>2, <2>4, ValuesStay
<1> QED BY <1>1, <1>2, <1>3, L2Step DEF L2Changes

\* Only LookInL2 loads the row of a hit.
LEMMA LoadedStep ==
    ASSUME IInv, [Next]_vars, NEW r \in Requests, pc'[r] = "fill_l1"
    PROVE  /\ key'[r] = key[r] /\ proc'[r] = proc[r]
           /\ \/ /\ pc[r] = "fill_l1" /\ row'[r] = row[r]
                 /\ now' - spent'[r] = now - spent[r]
              \/ /\ pc[r] = "look_l2" /\ l2[key[r]] # None /\ row'[r] = l2[key[r]]
                 /\ now <= l2[key[r]].expires /\ UNCHANGED <<now, spent>>
<1>0. RequestTypes
  BY DEF IInv, TypeOK, RequestTypes
<1>1. CASE UNCHANGED vars
  BY <1>1 DEF vars
<1>2. CASE Tick
  <2>1. pc[r] = "fill_l1" /\ pc[r] \in Calling /\ spent'[r] = spent[r] + 1 /\ now' = now + 1
    BY <1>2 DEF Tick, Calling
  <2>2. now \in Nat /\ spent[r] \in Nat
    BY <1>0, CacheTiersAssumption DEF RequestTypes, Time
  <2> QED BY <1>2, <2>1, <2>2 DEF Tick
<1>3. CASE DeleteExpired
  BY <1>3 DEF DeleteExpired
<1>4. ASSUME NEW p \in Procs, PurgeExpired(p)
      PROVE  UNCHANGED <<pc, key, proc, row, now, spent>>
  BY <1>4 DEF PurgeExpired
<1>5. CASE LookInL2(r)
  <2>1. key'[r] = key[r] /\ proc'[r] = proc[r] /\ UNCHANGED <<now, spent>> /\ pc[r] = "look_l2"
    BY <1>5 DEF LookInL2
  <2>2. FreshRow(r) /\ row' = [row EXCEPT ![r] = l2[key[r]]]
    BY <1>0, <1>5 DEF LookInL2, RequestTypes
  <2>3. row'[r] = l2[key[r]]
    BY <1>0, <2>2 DEF RequestTypes
  <2> QED BY <2>1, <2>2, <2>3 DEF FreshRow
<1>6. ASSUME NEW q \in Requests, RequestStep(q), q # r
      PROVE  UNCHANGED <<pc[r], key[r], proc[r], row[r], now, spent[r]>>
  <2>1. CASE LookInL1(q)
    <3>1. pc' = [pc EXCEPT ![q] = "done"] \/ pc' = [pc EXCEPT ![q] = "look_l2"]
      BY <2>1, Zenon DEF LookInL1, ServeHit
    <3> QED BY <1>0, <1>6, <2>1, <3>1 DEF LookInL1, RequestTypes
  <2>2. CASE ~LookInL1(q)
    BY <1>0, <1>6, <2>2 DEF RequestTypes, RequestStep, Begin, LookInL2, FillL1, ServeHit, RunPipeline,
         WriteL1, FindRow, CommitRow, Finish, DropL1, DropL2
  <2> QED BY <2>1, <2>2
<1>7. CASE RequestStep(r) /\ ~LookInL2(r)
  <2>1. CASE LookInL1(r)
    <3>1. pc' = [pc EXCEPT ![r] = "done"] \/ pc' = [pc EXCEPT ![r] = "look_l2"]
      BY <2>1, Zenon DEF LookInL1, ServeHit
    <3> QED BY <1>0, <3>1 DEF RequestTypes
  <2>2. CASE ~LookInL1(r)
    BY <1>0, <1>7, <2>2 DEF RequestTypes, RequestStep, Begin, FillL1, ServeHit, RunPipeline,
         WriteL1, FindRow, CommitRow, Finish, DropL1, DropL2
  <2> QED BY <2>1, <2>2
<1>8. CASE UNCHANGED <<pc[r], key[r], proc[r], row[r], now, spent[r]>>
  BY <1>8
<1> QED BY <1>1, <1>2, <1>3, <1>4, <1>5, <1>6, <1>7, <1>8 DEF Next

LEMMA LoadedGenuineStep == ASSUME IInv, [Next]_vars PROVE LoadedGenuine'
<1>1. SUFFICES ASSUME NEW r \in Requests, pc'[r] = "fill_l1", NEW x, x = row'[r]
               PROVE  /\ x # None
                      /\ key'[x.value] = key'[r] /\ born'[x.value] # None
                      /\ x.expires <= born'[x.value] + L2_TTL + MAX_CALL
                      /\ now' <= x.expires + spent'[r]
  BY DEF LoadedGenuine, GoodRow, OfKey
<1>0. RequestTypes /\ TypeOK /\ RequestTypes'
  BY RequestTypesStep DEF IInv, TypeOK, RequestTypes
<1>2. now \in Nat /\ spent[r] \in Nat /\ now' \in Nat /\ spent'[r] \in Nat
  BY <1>0, CacheTiersAssumption DEF RequestTypes, Time
<1>3. CASE /\ pc[r] = "fill_l1" /\ row'[r] = row[r]
           /\ now' - spent'[r] = now - spent[r]
  <2>1. x \in Row /\ GoodRow(key[r], x) /\ now <= x.expires + spent[r]
    BY <1>0, <1>1, <1>3 DEF IInv, LoadedGenuine, TypeOK
  <2>2. x.value \in Requests /\ x.expires \in Nat
    BY <2>1, CacheTiersAssumption DEF Row, Expiry
  <2>3. now' <= x.expires + spent'[r]
    BY <1>2, <1>3, <2>1, <2>2
  <2>4. x # None
    BY <1>0, <1>1, <1>3 DEF IInv, LoadedGenuine
  <2> QED BY <1>1, <2>1, <2>2, <2>3, <2>4, LoadedStep, ValuesStay DEF GoodRow, OfKey
<1>4. CASE /\ pc[r] = "look_l2" /\ l2[key[r]] # None /\ row'[r] = l2[key[r]]
           /\ now <= l2[key[r]].expires /\ UNCHANGED <<now, spent>>
  <2>1. key[r] \in Keys
    BY <1>0, <1>4 DEF IInv, Progress, TypeOK
  <2>2. x \in Row /\ GoodRow(key[r], x) /\ now <= x.expires /\ x # None
    BY <1>0, <1>1, <1>4, <2>1 DEF IInv, L2Genuine, TypeOK
  <2>3. x.value \in Requests /\ x.expires \in Nat
    BY <2>2, CacheTiersAssumption DEF Row, Expiry
  <2>4. now' <= x.expires + spent'[r]
    BY <1>2, <1>4, <2>2, <2>3
  <2> QED BY <1>1, <2>2, <2>3, <2>4, LoadedStep, ValuesStay DEF GoodRow, OfKey
<1> QED BY <1>1, <1>3, <1>4, LoadedStep

LEMMA TiersOffStep == ASSUME IInv, [Next]_vars PROVE TiersOff'
<1>0. RequestTypes /\ TypeOK /\ Progress /\ TiersOff
  BY DEF IInv, TypeOK, RequestTypes
<1>1. ASSUME ~ENABLE_L1_CACHE, NEW p \in Procs PROVE l1'[p] = <<>>
  <2>1. l1[p] = <<>> /\ l1 \in [Procs -> Seq(L1Entry)]
    BY <1>0, <1>1 DEF TiersOff, TypeOK
  <2>2. CASE l1' = l1
    BY <2>1, <2>2
  <2>3. ASSUME NEW q \in Procs, PurgeExpired(q) PROVE l1'[p] = <<>>
    <3>1. CASE p = q
      <4>1. PICK n \in 0..Len(l1[p]) : \E kept \in [1..n -> DOMAIN l1[p]] :
                l1' = [l1 EXCEPT ![p] = [i \in 1..n |-> l1[p][kept[i]]]]
        <5>1. PurgeExpired(p)
          BY <2>3, <3>1
        <5> QED BY <5>1 DEF PurgeExpired
      <4>2. n = 0
        BY <2>1
      <4>3. PICK kept : l1'[p] = [i \in 1..n |-> l1[p][kept[i]]]
        BY <2>1, <4>1
      <4> QED BY <4>2, <4>3
    <3>2. CASE p # q
      BY <2>1, <2>3, <3>2 DEF PurgeExpired
    <3> QED BY <3>1, <3>2
  <2>4. ASSUME NEW r \in Requests, RequestStep(r) PROVE l1' = l1
    BY <1>1, <2>4 DEF RequestStep, Begin, LookInL1, LookInL2, FillL1, SetL1, RunPipeline, WriteL1,
       FindRow, CommitRow, Finish, DropL1, DropL2, tiers
  <2> QED BY <2>2, <2>3, <2>4 DEF Next, vars, tiers, Tick, DeleteExpired
<1>2. ASSUME ~ENABLE_L2_CACHE, NEW k \in Keys PROVE l2'[k] = None
  BY <1>0, <1>2, L2Step DEF L2Changes, TiersOff
<1>3. ASSUME ~ENABLE_L2_CACHE, NEW r \in Requests PROVE pc'[r] \notin {"find_row", "commit_row"}
  <2>1. pc[r] \notin {"find_row", "commit_row"}
    BY <1>0, <1>3 DEF TiersOff
  <2>2. ASSUME NEW q \in Requests, LookInL1(q) PROVE pc'[r] \notin {"find_row", "commit_row"}
    <3>1. pc' = [pc EXCEPT ![q] = "done"] \/ pc' = [pc EXCEPT ![q] = "look_l2"]
      BY <2>2, Zenon DEF LookInL1, ServeHit
    <3> QED BY <1>0, <2>1, <3>1 DEF RequestTypes
  <2>3. ASSUME NEW q \in Requests, RequestStep(q), ~LookInL1(q)
        PROVE  pc'[r] \notin {"find_row", "commit_row"}
    <3>1. pc[q] # "find_row" /\ pc[q] # "commit_row"
      BY <1>0, <1>3 DEF TiersOff
    <3> QED BY <1>0, <1>3, <2>1, <2>3, <3>1 DEF RequestTypes, RequestStep, Begin, LookInL2, FillL1, ServeHit,
         RunPipeline, WriteL1, FindRow, CommitRow, Finish, DropL1, DropL2
  <2> QED BY <2>1, <2>2, <2>3 DEF Next, vars, Tick, DeleteExpired, PurgeExpired
<1> QED BY <1>1, <1>2, <1>3 DEF TiersOff

-----------------------------------------------------------------------------
(* What is retired stays out of every place it can be served from.         *)

LEMMA RetiredStep ==
    ASSUME IInv, [Next]_vars, NEW p \in Procs
    PROVE  \/ retired'[p] = retired[p]
           \/ \E r \in alone :
                  pc[r] = "drop_l2" /\ p = proc[r] /\ DropL2(r) /\ retired'[p] = retired[p] \cup banned[r]
<1>0. RequestTypes
  BY DEF IInv, TypeOK, RequestTypes
<1>1. ASSUME NEW r \in Requests, DropL2(r) PROVE
         \/ retired'[p] = retired[p]
         \/ r \in alone /\ pc[r] = "drop_l2" /\ p = proc[r] /\ retired'[p] = retired[p] \cup banned[r]
  BY <1>0, <1>1 DEF DropL2, Retire, RequestTypes
<1>2. CASE UNCHANGED retired
  BY <1>2
<1> QED BY <1>1, <1>2 DEF Next, RequestStep, vars, history, Tick, DeleteExpired, PurgeExpired, Begin,
        LookInL1, LookInL2, FillL1, RunPipeline, WriteL1, FindRow, CommitRow, Finish, DropL1

LEMMA L1RetiredStep == ASSUME IInv, [Next]_vars PROVE L1Retired'
<1>1. SUFFICES ASSUME NEW p \in Procs, NEW i \in DOMAIN l1'[p], NEW e, e = l1'[p][i]
               PROVE  e.value \notin retired'[p]
  BY DEF L1Retired
<1>0. TypeOK
  BY DEF IInv
<1>2. CASE retired'[p] = retired[p]
  <2>1. CASE \E j \in DOMAIN l1[p] : e = l1[p][j]
    BY <1>2, <2>1 DEF IInv, L1Retired
  <2>2. CASE Filled(p, e)
    <3>1. PICK r \in Requests :
              /\ p = proc[r]
              /\ \/ pc[r] = "fill_l1" /\ e.value = row[r].value
                 \/ pc[r] = "write_l1" /\ e.value = r
      BY <2>2 DEF Filled
    <3>2. CASE pc[r] = "fill_l1" /\ e.value = row[r].value
      BY <1>2, <3>1, <3>2 DEF IInv, LoadedRetired
    <3>3. CASE pc[r] = "write_l1" /\ e.value = r
      BY <1>2, <3>3 DEF IInv, RetiredIsOver, Over
    <3> QED BY <3>1, <3>2, <3>3
  <2> QED BY <1>1, <2>1, <2>2, L1Step DEF L1Changes
<1>3. ASSUME NEW r \in alone, pc[r] = "drop_l2", p = proc[r], DropL2(r),
             retired'[p] = retired[p] \cup banned[r]
      PROVE  e.value \notin retired'[p]
  <2>1. i \in DOMAIN l1[p] /\ e = l1[p][i] /\ r \in Requests
    BY <1>0, <1>1, <1>3 DEF DropL2, TypeOK
  <2>2. e.value \notin retired[p] /\ key[e.value] = e.key
    BY <2>1 DEF IInv, L1Retired, L1Genuine, GoodEntry, OfKey
  <2>3. e.key # key[r]
    BY <1>3, <2>1 DEF IInv, DroppedIsGone
  <2>4. e.value \notin banned[r]
    BY <1>3, <2>1, <2>2, <2>3 DEF IInv, BannedIsRetired
  <2> QED BY <1>3, <2>2, <2>4
<1> QED BY <1>2, <1>3, RetiredStep

LEMMA L2RetiredStep == ASSUME IInv, [Next]_vars PROVE L2Retired'
<1>1. SUFFICES ASSUME NEW k \in Keys, NEW p \in Procs, l2'[k] # None
               PROVE  l2'[k].value \notin retired'[p]
  BY DEF L2Retired
<1>0. TypeOK
  BY DEF IInv
<1>2. CASE retired'[p] = retired[p]
  <2>1. CASE l2'[k] = l2[k]
    BY <1>1, <1>2, <2>1 DEF IInv, L2Retired
  <2>2. ASSUME NEW r \in Requests, pc[r] = "commit_row", l2'[k].value = r
        PROVE  l2'[k].value \notin retired'[p]
    BY <1>2, <2>2 DEF IInv, RetiredIsOver, Over
  <2> QED BY <1>1, <2>1, <2>2, L2Step DEF L2Changes
<1>3. ASSUME NEW r \in alone, pc[r] = "drop_l2", p = proc[r], DropL2(r),
             retired'[p] = retired[p] \cup banned[r]
      PROVE  l2'[k].value \notin retired'[p]
  <2>1. r \in Requests
    BY <1>0 DEF TypeOK
  <2>2. l2'[k] = l2[k] /\ k # key[r]
    BY <1>0, <1>1, <1>3 DEF DropL2, IInv, TiersOff, TypeOK
  <2>3. l2[k].value \notin retired[p] /\ key[l2[k].value] = k
    BY <1>1, <2>2 DEF IInv, L2Retired, L2Genuine, GoodRow, OfKey
  <2>4. l2[k].value \notin banned[r]
    BY <1>3, <2>1, <2>2, <2>3 DEF IInv, BannedIsRetired
  <2> QED BY <1>3, <2>2, <2>3, <2>4
<1> QED BY <1>2, <1>3, RetiredStep

LEMMA LoadedRetiredStep == ASSUME IInv, [Next]_vars PROVE LoadedRetired'
<1>1. SUFFICES ASSUME NEW r \in Requests, pc'[r] = "fill_l1"
               PROVE  row'[r].value \notin retired'[proc'[r]]
  BY DEF LoadedRetired
<1>0. TypeOK /\ Progress
  BY DEF IInv
<1>2. /\ proc'[r] = proc[r] /\ pc[r] \in {"fill_l1", "look_l2"}
      /\ row'[r].value \notin retired[proc[r]]
  <2>1. CASE pc[r] = "fill_l1" /\ row'[r] = row[r] /\ proc'[r] = proc[r]
    BY <2>1 DEF IInv, LoadedRetired
  <2>2. CASE /\ pc[r] = "look_l2" /\ l2[key[r]] # None /\ row'[r] = l2[key[r]]
             /\ proc'[r] = proc[r]
    <3>1. key[r] \in Keys /\ proc[r] \in Procs
      BY <1>0, <2>2 DEF TypeOK, Progress
    <3> QED BY <2>2, <3>1 DEF IInv, L2Retired
  <2> QED BY <1>1, <2>1, <2>2, LoadedStep
<1>3. proc[r] \in Procs
  BY <1>0, <1>2 DEF TypeOK, Progress
<1>4. ASSUME NEW q \in alone, pc[q] = "drop_l2" PROVE FALSE
  <2>1. pc[r] \notin Rest /\ q # r
    BY <1>2, <1>4 DEF Rest
  <2> QED BY <2>1 DEF IInv, AloneIsAlone
<1>5. retired'[proc[r]] = retired[proc[r]]
  BY <1>3, <1>4, RetiredStep
<1> QED BY <1>2, <1>5

LEMMA RetiredIsOverStep == ASSUME IInv, [Next]_vars PROVE RetiredIsOver'
<1>1. SUFFICES ASSUME NEW p \in Procs, NEW v \in retired'[p]
               PROVE  pc'[v] = "done" /\ born'[v] # None
  BY DEF RetiredIsOver, Over
<1>0. TypeOK
  BY DEF IInv
<1>2. v \in Requests /\ Over(v)
  <2>1. CASE v \in retired[p]
    BY <1>0, <2>1 DEF IInv, RetiredIsOver, TypeOK
  <2>2. ASSUME NEW r \in alone, pc[r] = "drop_l2", v \in banned[r] PROVE v \in Requests /\ Over(v)
    BY <1>0, <2>2 DEF IInv, BannedIsRetired, TypeOK
  <2> QED BY <1>1, <2>1, <2>2, RetiredStep
<1> QED BY <1>2, ValuesStay DEF Over

-----------------------------------------------------------------------------
(* What a request keeps between its steps.                                 *)

Generating == {"look_l1", "look_l2", "fill_l1", "pipeline", "write_l1", "find_row", "commit_row", "finish"}

LEMMA RequestFrame ==
    ASSUME IInv, [Next]_vars, NEW r \in Requests, ~Begin(r)
    PROVE  /\ banned'[r] = banned[r] /\ proc'[r] = proc[r] /\ key'[r] = key[r]
           /\ pc'[r] \in Generating => pc[r] \in Generating
           /\ pc'[r] = "drop_l1" => pc[r] = "drop_l1"
           /\ pc'[r] = "drop_l2" => pc[r] = "drop_l2" \/ DropL1(r)
           /\ pc'[r] \notin Rest => pc[r] \notin Rest
<1>0. RequestTypes
  BY DEF IInv, TypeOK, RequestTypes
<1>1. CASE UNCHANGED vars \/ Tick \/ DeleteExpired \/ \E p \in Procs : PurgeExpired(p)
  BY <1>1 DEF vars, history, Tick, DeleteExpired, PurgeExpired
<1>2. ASSUME NEW q \in Requests, RequestStep(q), q # r
      PROVE  UNCHANGED <<banned[r], proc[r], key[r], pc[r]>>
  <2>1. CASE LookInL1(q)
    <3>1. pc' = [pc EXCEPT ![q] = "done"] \/ pc' = [pc EXCEPT ![q] = "look_l2"]
      BY <2>1, Zenon DEF LookInL1, ServeHit
    <3> QED BY <1>0, <1>2, <2>1, <3>1 DEF LookInL1, RequestTypes
  <2>2. CASE ~LookInL1(q)
    BY <1>0, <1>2, <2>2 DEF RequestTypes, RequestStep, Begin, LookInL2, FillL1, ServeHit, RunPipeline,
         WriteL1, FindRow, CommitRow, Finish, DropL1, DropL2, history
  <2> QED BY <2>1, <2>2
<1>3. CASE LookInL1(r)
  <2>1. pc[r] = "look_l1" /\ (pc' = [pc EXCEPT ![r] = "done"] \/ pc' = [pc EXCEPT ![r] = "look_l2"])
    BY <1>3, Zenon DEF LookInL1, ServeHit
  <2>2. UNCHANGED <<banned, proc, key>>
    BY <1>3 DEF LookInL1
  <2> QED BY <1>0, <2>1, <2>2 DEF RequestTypes, Generating, Rest
<1>4. CASE RequestStep(r) /\ ~LookInL1(r)
  <2>1. UNCHANGED <<banned, proc, key>>
    BY <1>4 DEF RequestStep, LookInL2, FillL1, RunPipeline,
         WriteL1, FindRow, CommitRow, Finish, DropL1, DropL2, history
  <2>2. \/ pc[r] \in {"look_l2", "fill_l1", "pipeline", "write_l1", "find_row", "commit_row", "finish"}
        \/ pc[r] = "drop_l1" /\ DropL1(r)
        \/ pc[r] = "drop_l2" /\ pc'[r] = "done"
    BY <1>0, <1>4 DEF RequestTypes, RequestStep, LookInL2, FillL1, RunPipeline,
         WriteL1, FindRow, CommitRow, Finish, DropL1, DropL2
  <2>3. pc[r] \in Generating => pc'[r] \in Generating \cup Rest
    BY <1>0, <1>4 DEF RequestTypes, RequestStep, LookInL2, FillL1, ServeHit, RunPipeline,
         WriteL1, FindRow, CommitRow, Finish, DropL1, DropL2, Generating, Rest
  <2>4. DropL1(r) => pc'[r] = "drop_l2"
    BY <1>0 DEF DropL1, RequestTypes
  <2> QED BY <2>1, <2>2, <2>3, <2>4 DEF Generating, Rest
<1> QED BY <1>1, <1>2, <1>3, <1>4 DEF Next

LEMMA BannedIsRetiredStep == ASSUME IInv, [Next]_vars PROVE BannedIsRetired'
<1>0. RequestTypes
  BY DEF IInv, TypeOK, RequestTypes
<1>1. SUFFICES ASSUME NEW r \in Requests
               PROVE  /\ pc'[r] \in Generating => banned'[r] \subseteq retired'[proc'[r]]
                      /\ pc'[r] \in {"drop_l1", "drop_l2"} =>
                             \A v \in banned'[r] : pc'[v] = "done" /\ born'[v] # None /\ key'[v] = key'[r]
  BY DEF BannedIsRetired, Over, Generating
<1>2. CASE Begin(r)
  <2>1. PICK k \in Keys, p \in Procs :
            /\ proc' = [proc EXCEPT ![r] = p] /\ key' = [key EXCEPT ![r] = k]
            /\ \/ /\ pc' = [pc EXCEPT ![r] = "look_l1"]
                  /\ banned' = [banned EXCEPT ![r] = retired[p]]
               \/ /\ pc' = [pc EXCEPT ![r] = "drop_l1"]
                  /\ banned' = [banned EXCEPT ![r] =
                                    {v \in Requests : pc[v] = "done" /\ key[v] = k /\ born[v] # None}]
    BY <1>2 DEF Begin
  <2>2. proc'[r] = p /\ key'[r] = k /\ retired' = retired
    BY <1>0, <1>2, <2>1 DEF Begin, RequestTypes
  <2>3. CASE pc'[r] = "look_l1" /\ banned'[r] = retired[p]
    BY <2>2, <2>3
  <2>4. CASE /\ pc'[r] = "drop_l1"
             /\ banned'[r] = {v \in Requests : pc[v] = "done" /\ key[v] = k /\ born[v] # None}
    BY <2>2, <2>4, ValuesStay DEF Generating
  <2> QED BY <1>0, <2>1, <2>3, <2>4 DEF RequestTypes
<1>3. CASE ~Begin(r)
  <2>1. banned'[r] = banned[r] /\ proc'[r] = proc[r] /\ key'[r] = key[r]
    BY <1>3, RequestFrame
  <2>2. ASSUME pc'[r] \in Generating PROVE banned'[r] \subseteq retired'[proc'[r]]
    <3>1. pc[r] \in Generating
      BY <1>3, <2>2, RequestFrame
    <3>2. banned[r] \subseteq retired[proc[r]]
      BY <3>1 DEF IInv, BannedIsRetired, Generating
    <3>3. proc[r] \in Procs
      BY <1>0, <3>1 DEF IInv, Progress, Generating, RequestTypes
    <3>4. retired[proc[r]] \subseteq retired'[proc[r]]
      BY <3>3, RetiredStep
    <3> QED BY <2>1, <3>2, <3>4
  <2>3. ASSUME pc'[r] \in {"drop_l1", "drop_l2"}, NEW v \in banned'[r]
        PROVE  pc'[v] = "done" /\ born'[v] # None /\ key'[v] = key'[r]
    <3>1. pc[r] \in {"drop_l1", "drop_l2"}
      BY <1>3, <2>3, RequestFrame DEF DropL1
    <3>2. v \in Requests /\ Over(v) /\ key[v] = key[r]
      BY <1>0, <2>1, <2>3, <3>1 DEF IInv, BannedIsRetired, RequestTypes
    <3> QED BY <2>1, <3>2, ValuesStay DEF Over
  <2> QED BY <2>2, <2>3
<1> QED BY <1>2, <1>3

\* Who is alone is decided when a request begins.
LEMMA AloneStep ==
    ASSUME IInv, [Next]_vars
    PROVE  \/ alone' = alone /\ \A r \in Requests : ~Begin(r)
           \/ \E r \in Requests : Begin(r) /\ alone' = IF InFlight = {} THEN {r} ELSE {}
<1>1. ASSUME NEW r \in Requests, Begin(r) PROVE alone' = IF InFlight = {} THEN {r} ELSE {}
  BY <1>1 DEF Begin
<1>2. CASE \A r \in Requests : ~Begin(r)
  <2>1. alone' = alone
    BY <1>2 DEF Next, RequestStep, vars, history, Tick, DeleteExpired, PurgeExpired,
       LookInL1, LookInL2, FillL1, RunPipeline, WriteL1, FindRow, CommitRow, Finish, DropL1, DropL2
  <2> QED BY <1>2, <2>1
<1> QED BY <1>1, <1>2

LEMMA AloneIsAloneStep == ASSUME IInv, [Next]_vars PROVE AloneIsAlone'
<1>0. RequestTypes
  BY DEF IInv, TypeOK, RequestTypes
<1>1. SUFFICES ASSUME NEW r \in alone', NEW q \in Requests, pc'[q] \notin Rest PROVE q = r
  BY DEF AloneIsAlone
<1>2. CASE alone' = alone /\ \A s \in Requests : ~Begin(s)
  BY <1>1, <1>2, RequestFrame DEF IInv, AloneIsAlone
<1>3. ASSUME NEW s \in Requests, Begin(s), alone' = IF InFlight = {} THEN {s} ELSE {} PROVE q = r
  <2>1. r = s /\ InFlight = {}
    BY <1>1, <1>3
  <2>2. q # s => pc'[q] = pc[q]
    BY <1>0, <1>3 DEF Begin, RequestTypes
  <2> QED BY <1>1, <2>1, <2>2 DEF InFlight
<1> QED BY <1>2, <1>3, AloneStep

LEMMA DroppedIsGoneStep == ASSUME IInv, [Next]_vars PROVE DroppedIsGone'
<1>0. RequestTypes /\ TypeOK /\ Progress
  BY DEF IInv, TypeOK, RequestTypes
<1>1. SUFFICES ASSUME NEW r \in alone', pc'[r] = "drop_l2", NEW i \in DOMAIN l1'[proc'[r]]
               PROVE  l1'[proc'[r]][i].key # key'[r]
  BY DEF DroppedIsGone
<1>2. ASSUME NEW s \in Requests, Begin(s), alone' = IF InFlight = {} THEN {s} ELSE {} PROVE FALSE
  BY <1>0, <1>1, <1>2 DEF Begin, RequestTypes
<1>3. r \in alone /\ r \in Requests /\ ~Begin(r)
  BY <1>0, <1>1, <1>2, AloneStep DEF RequestTypes
<1>4. proc'[r] = proc[r] /\ key'[r] = key[r] /\ (pc[r] = "drop_l2" \/ DropL1(r))
  BY <1>1, <1>3, RequestFrame
<1>5. proc[r] \in Procs
  BY <1>0, <1>3, <1>4 DEF DropL1, Progress, RequestTypes
<1>6. CASE pc[r] = "drop_l2"
  <2>1. ASSUME NEW e, Filled(proc[r], e) PROVE FALSE
    <3>1. PICK q \in Requests : pc[q] \in {"fill_l1", "write_l1"}
      BY <2>1 DEF Filled
    <3>2. q # r /\ pc[q] \notin Rest
      BY <1>6, <3>1 DEF Rest
    <3> QED BY <1>3, <3>2 DEF IInv, AloneIsAlone
  <2>2. \E j \in DOMAIN l1[proc[r]] : l1'[proc[r]][i] = l1[proc[r]][j]
    BY <1>1, <1>4, <1>5, <2>1, L1Step DEF L1Changes
  <2> QED BY <1>3, <1>4, <1>6, <2>2 DEF IInv, DroppedIsGone
<1>7. CASE DropL1(r)
  <2>1. CASE ENABLE_L1_CACHE
    <3> DEFINE w == Without(l1[proc[r]], key[r])
    <3>1. l1'[proc[r]] = w
      BY <1>0, <1>5, <1>7, <2>1 DEF DropL1, TypeOK
    <3>2. \A j \in DOMAIN w : w[j].key # key[r]
      BY <1>0, <1>5, TypeIsL1, WithoutFacts DEF TypeOK
    <3> HIDE DEF w
    <3> QED BY <1>1, <1>4, <3>1, <3>2
  <2>2. CASE ~ENABLE_L1_CACHE
    <3>1. l1'[proc[r]] = <<>>
      BY <1>5, <2>2, TiersOffStep DEF TiersOff
    <3> QED BY <1>1, <1>4, <3>1
  <2> QED BY <2>1, <2>2
<1> QED BY <1>4, <1>6, <1>7

-----------------------------------------------------------------------------
(* What a request is answered with.                                        *)

LEMMA AnswerStep ==
    ASSUME IInv, [Next]_vars, NEW r \in Requests
    PROVE  \/ answer'[r] = answer[r] /\ age'[r] = age[r]
           \/ /\ pc[r] = "look_l1" /\ age'[r] = now - born[answer'[r]]
              /\ \E i \in DOMAIN l1[proc[r]] :
                     LET e == l1[proc[r]][i]
                     IN  e.key = key[r] /\ e.value = answer'[r] /\ now <= e.expires
           \/ /\ pc[r] = "fill_l1" /\ age'[r] = now - born[answer'[r]]
              /\ answer'[r] = row[r].value
           \/ /\ pc[r] = "finish" /\ answer'[r] = r /\ age'[r] = age[r]
<1>0. RequestTypes
  BY DEF IInv, TypeOK, RequestTypes
<1>1. CASE LookInL1(r)
  <2>1. \/ UNCHANGED <<answer, age>>
        \/ LET e == Entry(l1[proc[r]], key[r])
           IN  /\ Has(l1[proc[r]], key[r]) /\ now <= e.expires
               /\ answer' = [answer EXCEPT ![r] = e.value]
               /\ age' = [age EXCEPT ![r] = now - born[e.value]]
    BY <1>1, Zenon DEF LookInL1, ServeHit
  <2>2. pc[r] = "look_l1"
    BY <1>1 DEF LookInL1
  <2> QED BY <1>0, <2>1, <2>2, PlaceFacts DEF Entry, RequestTypes
<1>2. CASE FillL1(r)
  BY <1>0, <1>2 DEF FillL1, ServeHit, RequestTypes
<1>3. CASE Finish(r)
  BY <1>0, <1>3 DEF Finish, RequestTypes, history
<1>4. ASSUME NEW q \in Requests, q # r, LookInL1(q) PROVE answer'[r] = answer[r] /\ age'[r] = age[r]
  <2>1. \/ UNCHANGED <<answer, age>>
        \/ \E v, n : answer' = [answer EXCEPT ![q] = v] /\ age' = [age EXCEPT ![q] = n]
    BY <1>4, Zenon DEF LookInL1, ServeHit
  <2> QED BY <1>0, <1>4, <2>1 DEF RequestTypes
<1>5. ASSUME NEW q \in Requests, q # r, FillL1(q) \/ Finish(q)
      PROVE  answer'[r] = answer[r] /\ age'[r] = age[r]
  BY <1>0, <1>5 DEF RequestTypes, FillL1, ServeHit, Finish, history
<1>6. ASSUME NEW q \in Requests, RequestStep(q), ~LookInL1(q), ~FillL1(q), ~Finish(q)
      PROVE  UNCHANGED <<answer, age>>
  BY <1>6 DEF RequestStep, Begin, LookInL2, RunPipeline, WriteL1, FindRow, CommitRow, DropL1, DropL2,
              history
<1>7. CASE UNCHANGED vars \/ Tick \/ DeleteExpired \/ \E p \in Procs : PurgeExpired(p)
  BY <1>7 DEF vars, history, Tick, DeleteExpired, PurgeExpired
<1>8. CASE UNCHANGED <<answer, age>>
  BY <1>8
<1> QED BY <1>1, <1>2, <1>3, <1>4, <1>5, <1>6, <1>7, <1>8 DEF Next

LEMMA GenuineStep == ASSUME IInv, [Next]_vars PROVE AnswerIsGenuine'
<1>0. RequestTypes /\ TypeOK /\ Progress
  BY DEF IInv, TypeOK, RequestTypes
<1> DEFINE limit == L1_TTL + L2_TTL + 2 * MAX_CALL
<1>1. SUFFICES ASSUME NEW r \in Requests, NEW v, v = answer'[r], v # None
               PROVE  key'[v] = key'[r] /\ born'[v] # None /\ age'[r] <= limit
  BY DEF AnswerIsGenuine
<1>2. v \in Requests
  BY <1>1, RequestTypesStep DEF RequestTypes
<1>3. ASSUME key[v] = key[r], born[v] # None, age'[r] <= limit, pc[r] # "idle"
      PROVE  key'[v] = key'[r] /\ born'[v] # None /\ age'[r] <= limit
  <2>1. ~Begin(r)
    BY <1>3 DEF Begin
  <2> QED BY <1>2, <1>3, <2>1, ValuesStay, RequestFrame
<1>4. ASSUME born[v] # None, NEW until \in Nat, now <= until, until <= born[v] + limit
      PROVE  now - born[v] <= limit
  <2>1. born[v] \in Nat /\ now \in Nat /\ limit \in Nat
    BY <1>0, <1>2, <1>4, CacheTiersAssumption DEF RequestTypes, Time
  <2> HIDE DEF limit
  <2> QED BY <1>4, <2>1
<1>5. CASE answer'[r] = answer[r] /\ age'[r] = age[r]
  <2>1. key[v] = key[r] /\ born[v] # None /\ age'[r] <= limit
    BY <1>1, <1>5 DEF IInv, AnswerIsGenuine
  <2>2. pc[r] # "idle"
    BY <1>0, <1>1, <1>5 DEF Progress
  <2> HIDE DEF limit
  <2> QED BY <1>3, <2>1, <2>2
<1>6. ASSUME pc[r] = "look_l1", age'[r] = now - born[v],
             NEW i \in DOMAIN l1[proc[r]], NEW e, e = l1[proc[r]][i],
             e.key = key[r], e.value = v, now <= e.expires
      PROVE  key[v] = key[r] /\ born[v] # None /\ age'[r] <= limit
  <2>1. proc[r] \in Procs
    BY <1>0, <1>6 DEF Progress, TypeOK
  <2>2. GoodEntry(e) /\ e \in L1Entry
    BY <1>0, <1>6, <2>1, ElementOfSeq DEF IInv, L1Genuine, TypeOK
  <2>3. e.expires \in Nat /\ born[v] # None /\ key[v] = key[r]
        /\ e.expires <= born[v] + L1_TTL + L2_TTL + 2 * MAX_CALL
    BY <1>6, <2>2, CacheTiersAssumption DEF GoodEntry, OfKey, L1Entry, Expiry
  <2>4. born[v] \in Nat
    BY <1>0, <1>2, <2>3 DEF RequestTypes, Time
  <2>5. e.expires <= born[v] + limit
    BY <2>3, <2>4, CacheTiersAssumption
  <2> HIDE DEF limit
  <2> QED BY <1>4, <1>6, <2>3, <2>5
<1>7. CASE pc[r] = "fill_l1" /\ age'[r] = now - born[v] /\ v = row[r].value
  <2>1. row[r] \in Row /\ GoodRow(key[r], row[r]) /\ now <= row[r].expires + spent[r]
    BY <1>0, <1>7 DEF IInv, LoadedGenuine, TypeOK
  <2>2. row[r].expires \in Nat /\ spent[r] \in 0..MAX_CALL /\ born[v] # None /\ key[v] = key[r]
        /\ row[r].expires <= born[v] + L2_TTL + MAX_CALL
    BY <1>0, <1>7, <2>1, CacheTiersAssumption DEF GoodRow, OfKey, Row, Expiry, RequestTypes
  <2>3. born[v] \in Nat
    BY <1>0, <1>2, <2>2 DEF RequestTypes, Time
  <2>4. /\ row[r].expires + spent[r] \in Nat
        /\ row[r].expires + spent[r] <= born[v] + limit
    BY <2>2, <2>3, CacheTiersAssumption
  <2> HIDE DEF limit
  <2>5. now - born[v] <= limit
    BY <1>4, <2>1, <2>2, <2>4
  <2> QED BY <1>3, <1>7, <2>2, <2>5
<1>8. CASE pc[r] = "finish" /\ v = r /\ age'[r] = age[r]
  <2>1. born[r] # None /\ age[r] = 0
    BY <1>0, <1>8 DEF Progress
  <2>2. 0 <= limit
    BY CacheTiersAssumption
  <2> HIDE DEF limit
  <2> QED BY <1>3, <1>8, <2>1, <2>2
<1> HIDE DEF limit
<1>9. CASE /\ pc[r] = "look_l1" /\ age'[r] = now - born[answer'[r]]
           /\ \E i \in DOMAIN l1[proc[r]] :
                  LET e == l1[proc[r]][i]
                  IN  e.key = key[r] /\ e.value = answer'[r] /\ now <= e.expires
  BY <1>1, <1>3, <1>6, <1>9
<1> QED BY <1>1, <1>5, <1>7, <1>8, <1>9, AnswerStep

LEMMA GoneStep == ASSUME IInv, [Next]_vars PROVE InvalidatedIsGone'
<1>0. RequestTypes /\ TypeOK /\ Progress
  BY DEF IInv, TypeOK, RequestTypes
<1>1. SUFFICES ASSUME NEW r \in Requests PROVE answer'[r] \notin banned'[r]
  BY DEF InvalidatedIsGone
<1>2. CASE answer'[r] = None
  <2>1. banned'[r] \subseteq Requests
    BY RequestTypesStep DEF RequestTypes
  <2> QED BY <1>2, <2>1, CacheTiersAssumption
<1>3. ASSUME answer'[r] # None PROVE answer'[r] \notin banned'[r]
  <2>1. pc[r] # "idle"
    BY <1>0, <1>3, AnswerStep DEF Progress
  <2>2. banned'[r] = banned[r]
    BY <2>1, RequestFrame DEF Begin
  <2>3. CASE answer'[r] = answer[r]
    BY <2>2, <2>3 DEF IInv, InvalidatedIsGone
  <2>4. CASE pc[r] \in {"look_l1", "fill_l1", "finish"} /\ answer'[r] \notin retired[proc[r]]
    BY <2>2, <2>4 DEF IInv, BannedIsRetired
  <2>5. proc[r] \in Procs
    BY <1>0, <2>1 DEF Progress, TypeOK
  <2>6. CASE pc[r] = "look_l1" /\ \E i \in DOMAIN l1[proc[r]] : l1[proc[r]][i].value = answer'[r]
    BY <2>4, <2>5, <2>6 DEF IInv, L1Retired
  <2>7. CASE pc[r] = "fill_l1" /\ answer'[r] = row[r].value
    BY <2>4, <2>7 DEF IInv, LoadedRetired
  <2>8. CASE pc[r] = "finish" /\ answer'[r] = r
    BY <2>4, <2>5, <2>8 DEF IInv, RetiredIsOver, Over
  <2> QED BY <2>3, <2>6, <2>7, <2>8, AnswerStep
<1> QED BY <1>2, <1>3

-----------------------------------------------------------------------------
(* The theorems.                                                           *)

LEMMA InitIInv == Init => IInv
<1> SUFFICES ASSUME Init PROVE IInv
  OBVIOUS
<1>1. \A p \in Procs : IsL1(l1[p]) /\ l1[p] = <<>>
  BY EmptySeq, CacheTiersAssumption DEF Init, IsL1, Distinct
<1>2. l1 \in [Procs -> Seq(L1Entry)]
  BY <1>1 DEF Init, IsL1
<1>3. RequestTypes
  <2>1. 0 \in Time /\ 0 \in Expiry /\ 0 \in 0..MAX_CALL
    BY CacheTiersAssumption DEF Time, Expiry
  <2> QED BY <2>1 DEF Init, RequestTypes, Control, Rest
<1>4. TypeOK
  <2>1. \A p \in Procs : /\ Len(l1[p]) <= L1_MAX_SIZE
                         /\ IsInjective([i \in DOMAIN l1[p] |-> l1[p][i].key])
    BY <1>1, <1>2, TypeIsL1
  <2>2. l2 \in [Keys -> Row \cup {None}]
    BY DEF Init
  <2> QED BY <1>2, <1>3, <2>1, <2>2 DEF TypeOK, RequestTypes
<1>5. Progress /\ LoadedGenuine /\ LoadedRetired /\ BannedIsRetired /\ AloneIsAlone /\ DroppedIsGone
  BY DEF Init, Progress, LoadedGenuine, LoadedRetired, BannedIsRetired, AloneIsAlone, DroppedIsGone
<1>6. L1Genuine /\ L2Genuine /\ TiersOff /\ L1Retired /\ L2Retired /\ RetiredIsOver
  BY <1>1 DEF Init, L1Genuine, L2Genuine, TiersOff, L1Retired, L2Retired, RetiredIsOver
<1>7. AnswerIsGenuine /\ InvalidatedIsGone
  BY DEF Init, AnswerIsGenuine, InvalidatedIsGone
<1> QED BY <1>4, <1>5, <1>6, <1>7 DEF IInv

LEMMA NextIInv == IInv /\ [Next]_vars => IInv'
BY TypeStep, ProgressStep, L1GenuineStep, L2GenuineStep, LoadedGenuineStep, TiersOffStep,
   L1RetiredStep, L2RetiredStep, LoadedRetiredStep, RetiredIsOverStep, BannedIsRetiredStep,
   AloneIsAloneStep, DroppedIsGoneStep, GenuineStep, GoneStep
   DEF IInv

LEMMA SpecIInv == Spec => []IInv
BY InitIInv, NextIInv, PTL DEF Spec

\* The variables keep their types: no L1 of any process ever holds more than
\* L1_MAX_SIZE entries or two entries of one key.
THEOREM SpecTypeOK == Spec => []TypeOK
<1>1. IInv => TypeOK
  BY DEF IInv
<1> QED BY <1>1, SpecIInv, PTL

\* Whatever overlaps and whenever the tiers expire, an answer is a value that a
\* pipeline completed for the request's own key, and no older than both times to
\* live and two calls of the cache.
THEOREM SpecAnswerIsGenuine == Spec => []AnswerIsGenuine
<1>1. IInv => AnswerIsGenuine
  BY DEF IInv
<1> QED BY <1>1, SpecIInv, PTL

\* What an invalidate() with nothing else in flight removed is not served again
\* by its process: neither out of L1, nor of L2, nor of an L1 refilled from L2.
THEOREM SpecInvalidatedIsGone == Spec => []InvalidatedIsGone
<1>1. IInv => InvalidatedIsGone
  BY DEF IInv
<1> QED BY <1>1, SpecIInv, PTL
=============================================================================
