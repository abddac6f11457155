------------------------ MODULE ProviderFailover_proofs ------------------------
(***************************************************************************)
(* Theorems about ProviderFailover, for every set of calls and providers,  *)
(* every number of retries and every set of errors the vendors raise.      *)
(*                                                                         *)
(* The argument: the providers a call has not given up, the current one    *)
(* apart, are untried, and what it did ask the current one is told by the  *)
(* number of its retries.  A refusal that must not be repeated is still    *)
(* in the call's hands when it decides, and it then gives the provider up. *)
(***************************************************************************)
EXTENDS ProviderFailover, Sums, WellFoundedInduction, TLAPS

Waiting == {"recording", "charging", "noting"}

\* A call that was not routed has asked nobody.
Fresh ==
    \A c \in Calls : pc[c] = "new" =>
        left[c] = {} /\ refused[c] = {} /\ \A p \in Providers : tries[c][p] = 0

\* A call in the loops uses one of the providers it has not given up.
InUse == \A c \in Calls : pc[c] \in Waiting \cup {"calling"} => current[c] \in left[c]

\* The others are still to be asked for the first time.
Untried ==
    \A c \in Calls : \A p \in left[c] : p # current[c] => tries[c][p] = 0

\* The retries tell how often the current provider was asked.
Told ==
    \A c \in Calls :
        /\ pc[c] = "calling" => tries[c][current[c]] <= attempt[c]
        /\ pc[c] \in Waiting => tries[c][current[c]] <= attempt[c] + 1

\* A provider that must not be asked again is given up, or its answer is at hand.
Judged ==
    \A c \in Calls : \A p \in left[c] : p \in refused[c] =>
        pc[c] \in Waiting /\ p = current[c] /\ got[c] \notin Retryable \cup {"ok"}

\* The outcome matches the stage, and only an answered call has an answer.
Outcome ==
    \A c \in Calls :
        /\ pc[c] # "answered" => answer[c] = None
        /\ pc[c] = "recording" => got[c] # None
        /\ pc[c] = "noting" => got[c] \in Errors
        /\ pc[c] = "charging" => got[c] = "ok"

IInv ==
    /\ TypeOK
    /\ Fresh
    /\ InUse
    /\ Untried
    /\ Told
    /\ Judged
    /\ Outcome
    /\ RetryBudget
-----------------------------------------------------------------------------
\* The next provider is one of those that are left (router.py:291-302).
LEMMA FirstIsOneOfThem ==
    ASSUME NEW S \in SUBSET Providers, S # {}
    PROVE  FirstOf(S) \in S
  <1> DEFINE I == {i \in DOMAIN Registry : Registry[i] \in S}
             Less == {ss \in Nat \X Nat : ss[1] < ss[2]}
  <1>1. I \subseteq Nat /\ I # {}
    BY ProviderFailoverAssumption DEF Providers
  <1>2. IsWellFoundedOn(Less, Nat)
    BY NatLessThanWellFounded DEF OpToRel
  <1>3. PICK m \in I : \A k \in I : <<k, m>> \notin Less
    <2> HIDE DEF I, Less
    <2> QED
      BY <1>1, <1>2, WFMin
  <1>4. \A k \in I : m <= k
    <2> SUFFICES ASSUME NEW k \in I PROVE m <= k
      OBVIOUS
    <2>1. k \in Nat /\ m \in Nat /\ <<k, m>> \notin Less
      BY <1>1, <1>3
    <2> QED
      BY <2>1
  <1>5. Min(I) \in I
    BY <1>3, <1>4 DEF Min
  <1> QED
    BY <1>5 DEF FirstOf
\* Counting stays within the bound, and counts one at most.
LEMMA AddCounts ==
    ASSUME NEW n \in Count, NEW yes \in BOOLEAN
    PROVE  Add(n, yes) \in Count /\ Add(n, yes) <= n + 1 /\ n <= Add(n, yes)
  BY ProviderFailoverAssumption DEF Count, Add

\* The books of a provider stay books (health_monitor.py:43-68).
LEMMA CountedCounts ==
    ASSUME NEW s \in Counters, NEW o
    PROVE  Counted(s, o) \in Counters
  <1>1. \A n \in Count, yes \in BOOLEAN : Add(n, yes) \in Count
    BY AddCounts
  <1>2. /\ Add(s.total, TRUE) \in Count
        /\ Add(s.ok, o = "ok") \in Count
        /\ Add(s.failed, o # "ok") \in Count
        /\ Add(s.timeouts, o = "timeout") \in Count
        /\ Add(s.auth, o = "authentication") \in Count
        /\ Add(s.rate, o = "rate_limit") \in Count
    BY <1>1 DEF Counters
  <1> QED
    BY <1>2 DEF Counted, Counters

\* A call that goes on to the next provider has one to ask, or has failed.
LEMMA NextIsLeft ==
    ASSUME NEW S \in SUBSET Providers
    PROVE  FirstOf(S) \in Providers \cup {None} /\ (S # {} => FirstOf(S) \in S)
  BY FirstIsOneOfThem DEF FirstOf

LEMMA InitEstablishes == Init => IInv
  BY ProviderFailoverAssumption
  DEF Init, IInv, TypeOK, Fresh, InUse, Untried, Told, Judged, Outcome, RetryBudget,
      Control, Count, Counters, Waiting

\* Routing asks nobody yet.
LEMMA RoutePreserves ==
    ASSUME IInv, NEW c \in Calls, Route(c)
    PROVE  IInv'
  <1>c. /\ left' = [left EXCEPT ![c] = Keyed]
        /\ \E s \in Providers : current' = [current EXCEPT ![c] = s]
        /\ Keyed # {} => current'[c] \in Keyed
        /\ pc' = [pc EXCEPT ![c] = IF Keyed = {} THEN "failed" ELSE "calling"]
        /\ pc[c] = "new" /\ Keyed \subseteq Providers
        /\ UNCHANGED <<attempt, got, answer, stats, lastError, requests, tries, refused>>
    BY ProviderFailoverAssumption DEF IInv, TypeOK, Route, Proceed, Candidates, history
  <1>1. TypeOK'
    BY <1>c DEF IInv, TypeOK, Control
  <1>2. Fresh'
    BY <1>c, ProviderFailoverAssumption
    DEF IInv, TypeOK, Fresh, InUse, Untried, Told, Judged, Outcome, RetryBudget, Count, Waiting
  <1>3. InUse'
    BY <1>c, ProviderFailoverAssumption
    DEF IInv, TypeOK, Fresh, InUse, Untried, Told, Judged, Outcome, RetryBudget, Count, Waiting
  <1>4. Untried'
    BY <1>c, ProviderFailoverAssumption
    DEF IInv, TypeOK, Fresh, InUse, Untried, Told, Judged, Outcome, RetryBudget, Count, Waiting
  <1>5. Told'
    BY <1>c, ProviderFailoverAssumption
    DEF IInv, TypeOK, Fresh, InUse, Untried, Told, Judged, Outcome, RetryBudget, Count, Waiting
  <1>6. Judged'
    BY <1>c, ProviderFailoverAssumption
    DEF IInv, TypeOK, Fresh, InUse, Untried, Told, Judged, Outcome, RetryBudget, Count, Waiting
  <1>7. Outcome'
    BY <1>c, ProviderFailoverAssumption
    DEF IInv, TypeOK, Fresh, InUse, Untried, Told, Judged, Outcome, RetryBudget, Count, Waiting
  <1>8. RetryBudget'
    BY <1>c, ProviderFailoverAssumption
    DEF IInv, TypeOK, Fresh, InUse, Untried, Told, Judged, Outcome, RetryBudget, Count, Waiting
  <1> QED
    BY <1>1, <1>2, <1>3, <1>4, <1>5, <1>6, <1>7, <1>8 DEF IInv

\* The current provider is asked once more, within its retries.
LEMMA CallProviderPreserves ==
    ASSUME IInv, NEW c \in Calls, CallProvider(c)
    PROVE  IInv'
  <1>a. /\ current[c] \in Keyed /\ current[c] \in left[c] /\ current[c] \in Providers
        /\ tries[c][current[c]] \in Count /\ tries[c][current[c]] <= attempt[c]
        /\ attempt[c] \in 0..MAX_RETRIES /\ pc[c] = "calling"
    BY ProviderFailoverAssumption DEF IInv, TypeOK, InUse, Told, CallProvider
  <1>r. current[c] \notin refused[c]
    BY <1>a DEF IInv, Judged, Waiting
  <1>b. PICK n \in Count :
            /\ n <= tries[c][current[c]] + 1
            /\ tries' = [tries EXCEPT ![c] = [tries[c] EXCEPT ![current[c]] = n]]
    BY <1>a, AddCounts DEF IInv, TypeOK, CallProvider
  <1>c. /\ tries' \in [Calls -> [Providers -> Count]]
        /\ tries'[c][current[c]] = n
        /\ \A d \in Calls, p \in Providers :
               d # c \/ p # current[c] => tries'[d][p] = tries[d][p]
    BY <1>a, <1>b DEF IInv, TypeOK
  <1>d. PICK e \in Errors \cup {"ok"} :
            /\ got' = [got EXCEPT ![c] = e]
            /\ refused' = IF e \in Errors \ Retryable
                          THEN [refused EXCEPT ![c] = @ \cup {current[c]}]
                          ELSE refused
    BY ProviderFailoverAssumption DEF CallProvider
  <1>e. /\ refused' \in [Calls -> SUBSET Providers]
        /\ \A d \in Calls : d # c => refused'[d] = refused[d]
        /\ refused'[c] \subseteq refused[c] \cup {current[c]}
        /\ current[c] \in refused'[c] => e \notin Retryable \cup {"ok"}
    BY <1>a, <1>r, <1>d DEF IInv, TypeOK, Errors
  <1>f. /\ pc' = [pc EXCEPT ![c] = "recording"]
        /\ got' = [got EXCEPT ![c] = e] /\ e \in Errors \cup {"ok"} /\ e # None
        /\ UNCHANGED <<current, left, attempt, answer, stats, lastError, requests>>
    BY <1>d, ProviderFailoverAssumption DEF CallProvider
  <1>1. TypeOK'
    BY <1>a, <1>c, <1>e, <1>f DEF IInv, TypeOK, Control
  <1>2. Fresh'
    BY <1>a, <1>c, <1>e, <1>f, ProviderFailoverAssumption
    DEF IInv, TypeOK, Fresh, InUse, Untried, Told, Judged, Outcome, RetryBudget, Count, Waiting
  <1>3. InUse'
    BY <1>a, <1>c, <1>e, <1>f, ProviderFailoverAssumption
    DEF IInv, TypeOK, Fresh, InUse, Untried, Told, Judged, Outcome, RetryBudget, Count, Waiting
  <1>4. Untried'
    <2> SUFFICES ASSUME NEW d \in Calls, NEW p \in left[d], p # current[d]
                 PROVE  tries'[d][p] = 0
      BY <1>f DEF Untried
    <2>1. tries[d][p] = 0 /\ p \in Providers
      BY ProviderFailoverAssumption DEF IInv, TypeOK, Untried
    <2> QED
      BY <1>c, <2>1
  <1>5. Told'
    <2> SUFFICES ASSUME NEW d \in Calls
                 PROVE  /\ pc'[d] = "calling" => tries'[d][current[d]] <= attempt[d]
                        /\ pc'[d] \in Waiting => tries'[d][current[d]] <= attempt[d] + 1
      BY <1>f DEF Told
    <2>1. CASE d = c
      BY <1>a, <1>b, <1>c, <1>f, <2>1, ProviderFailoverAssumption
      DEF IInv, TypeOK, Count, Waiting
    <2>2. CASE d # c
      <3>1. pc'[d] = pc[d]
        BY <1>f, <2>2 DEF IInv, TypeOK
      <3>2. pc[d] \in Waiting \cup {"calling"} => tries'[d][current[d]] = tries[d][current[d]]
        BY <1>c, <2>2, ProviderFailoverAssumption DEF IInv, TypeOK, InUse
      <3> QED
        BY <3>1, <3>2 DEF IInv, Told
    <2> QED
      BY <2>1, <2>2
  <1>6. Judged'
    <2> SUFFICES ASSUME NEW d \in Calls, NEW p \in left[d], p \in refused'[d]
                 PROVE  /\ pc'[d] \in Waiting /\ p = current[d]
                        /\ got'[d] \notin Retryable \cup {"ok"}
      BY <1>f DEF Judged
    <2>1. CASE d = c
      <3>1. p = current[c]
        BY <1>a, <1>e, <2>1 DEF IInv, Judged, Waiting
      <3> QED
        BY <1>e, <1>f, <2>1, <3>1 DEF IInv, TypeOK, Waiting
    <2>2. CASE d # c
      BY <1>e, <1>f, <2>2 DEF IInv, TypeOK, Judged
    <2> QED
      BY <2>1, <2>2
  <1>7. Outcome'
    BY <1>a, <1>c, <1>e, <1>f, ProviderFailoverAssumption
    DEF IInv, TypeOK, Fresh, InUse, Untried, Told, Judged, Outcome, RetryBudget, Count, Waiting
  <1>8. RetryBudget'
    <2> SUFFICES ASSUME NEW d \in Calls, NEW p \in Providers
                 PROVE  tries'[d][p] <= MAX_RETRIES + 1
      BY DEF RetryBudget
    <2>1. CASE d = c /\ p = current[c]
      BY <1>a, <1>b, <1>c, <2>1, ProviderFailoverAssumption DEF Count
    <2>2. CASE ~ (d = c /\ p = current[c])
      BY <1>c, <2>2 DEF IInv, RetryBudget
    <2> QED
      BY <2>1, <2>2
  <1> QED
    BY <1>1, <1>2, <1>3, <1>4, <1>5, <1>6, <1>7, <1>8 DEF IInv

\* The outcome is booked; what was asked of whom stays.
LEMMA RecordHealthPreserves ==
    ASSUME IInv, NEW c \in Calls, RecordHealth(c)
    PROVE  IInv'
  <1>a. current[c] \in Providers /\ current[c] \in left[c]
    BY ProviderFailoverAssumption DEF IInv, TypeOK, InUse, RecordHealth, Waiting
  <1>b. stats' \in [Providers -> Counters]
    BY <1>a, CountedCounts DEF IInv, TypeOK, RecordHealth
  <1>c. /\ pc[c] = "recording"
        /\ pc' = [pc EXCEPT ![c] = IF got[c] = "ok" THEN "charging" ELSE "noting"]
        /\ UNCHANGED <<current, left, attempt, got, answer, lastError, requests, tries, refused>>
    BY DEF RecordHealth, local, history
  <1>1. TypeOK'
    BY <1>a, <1>b, <1>c DEF IInv, TypeOK, Control
  <1>2. Fresh'
    BY <1>a, <1>b, <1>c, ProviderFailoverAssumption
    DEF IInv, TypeOK, Fresh, InUse, Untried, Told, Judged, Outcome, RetryBudget, Count, Waiting
  <1>3. InUse'
    BY <1>a, <1>b, <1>c, ProviderFailoverAssumption
    DEF IInv, TypeOK, Fresh, InUse, Untried, Told, Judged, Outcome, RetryBudget, Count, Waiting
  <1>4. Untried'
    BY <1>a, <1>b, <1>c, ProviderFailoverAssumption
    DEF IInv, TypeOK, Fresh, InUse, Untried, Told, Judged, Outcome, RetryBudget, Count, Waiting
  <1>5. Told'
    BY <1>a, <1>b, <1>c, ProviderFailoverAssumption
    DEF IInv, TypeOK, Fresh, InUse, Untried, Told, Judged, Outcome, RetryBudget, Count, Waiting
  <1>6. Judged'
    BY <1>a, <1>b, <1>c, ProviderFailoverAssumption
    DEF IInv, TypeOK, Fresh, InUse, Untried, Told, Judged, Outcome, RetryBudget, Count, Waiting
  <1>7. Outcome'
    BY <1>a, <1>b, <1>c, ProviderFailoverAssumption, SMTT(30)
    DEF IInv, TypeOK, Fresh, InUse, Untried, Told, Judged, Outcome, RetryBudget, Count, Waiting
  <1>8. RetryBudget'
    BY <1>a, <1>b, <1>c, ProviderFailoverAssumption
    DEF IInv, TypeOK, Fresh, InUse, Untried, Told, Judged, Outcome, RetryBudget, Count, Waiting
  <1> QED
    BY <1>1, <1>2, <1>3, <1>4, <1>5, <1>6, <1>7, <1>8 DEF IInv

\* A success is charged and handed to the caller.
LEMMA ChargeCostPreserves ==
    ASSUME IInv, NEW c \in Calls, ChargeCost(c)
    PROVE  IInv'
  <1>a. current[c] \in Keyed /\ current[c] \in left[c] /\ current[c] \in Providers
    BY ProviderFailoverAssumption DEF IInv, TypeOK, InUse, ChargeCost, Waiting
  <1>b. requests' \in [Providers -> Count]
    BY <1>a, AddCounts DEF IInv, TypeOK, ChargeCost
  <1>c. /\ pc[c] = "charging" /\ pc' = [pc EXCEPT ![c] = "answered"]
        /\ answer' = [answer EXCEPT ![c] = current[c]]
        /\ UNCHANGED <<current, left, attempt, got, stats, lastError, tries, refused>>
    BY DEF ChargeCost, history
  <1>1. TypeOK'
    BY <1>a, <1>b, <1>c DEF IInv, TypeOK, Control
  <1>2. Fresh'
    BY <1>a, <1>b, <1>c, ProviderFailoverAssumption, SMTT(30)
    DEF IInv, TypeOK, Fresh, InUse, Untried, Told, Judged, Outcome, RetryBudget, Count, Waiting
  <1>3. InUse'
    BY <1>a, <1>b, <1>c, ProviderFailoverAssumption
    DEF IInv, TypeOK, Fresh, InUse, Untried, Told, Judged, Outcome, RetryBudget, Count, Waiting
  <1>4. Untried'
    BY <1>a, <1>b, <1>c, ProviderFailoverAssumption
    DEF IInv, TypeOK, Fresh, InUse, Untried, Told, Judged, Outcome, RetryBudget, Count, Waiting
  <1>5. Told'
    BY <1>a, <1>b, <1>c, ProviderFailoverAssumption
    DEF IInv, TypeOK, Fresh, InUse, Untried, Told, Judged, Outcome, RetryBudget, Count, Waiting
  <1>6. Judged'
    BY <1>a, <1>b, <1>c, ProviderFailoverAssumption
    DEF IInv, TypeOK, Fresh, InUse, Untried, Told, Judged, Outcome, RetryBudget, Count, Waiting
  <1>7. Outcome'
    BY <1>a, <1>b, <1>c, ProviderFailoverAssumption
    DEF IInv, TypeOK, Fresh, InUse, Untried, Told, Judged, Outcome, RetryBudget, Count, Waiting
  <1>8. RetryBudget'
    BY <1>a, <1>b, <1>c, ProviderFailoverAssumption
    DEF IInv, TypeOK, Fresh, InUse, Untried, Told, Judged, Outcome, RetryBudget, Count, Waiting
  <1> QED
    BY <1>1, <1>2, <1>3, <1>4, <1>5, <1>6, <1>7, <1>8 DEF IInv

\* A retry is one of an error worth it, and there is room for it.
LEMMA RetryPreserves ==
    ASSUME IInv, NEW c \in Calls, Retry(c)
    PROVE  IInv'
  <1>a. current[c] \in Keyed /\ current[c] \in left[c] /\ current[c] \in Providers
    BY ProviderFailoverAssumption DEF IInv, TypeOK, InUse, Retry, Waiting
  <1>b. got[c] \in Errors /\ got[c] \in Retryable /\ attempt[c] < MAX_RETRIES
    BY DEF IInv, Outcome, Retry, MayRetry
  <1>c. /\ pc[c] = "noting" /\ pc' = [pc EXCEPT ![c] = "calling"]
        /\ lastError' = [lastError EXCEPT ![current[c]] = got[c]]
        /\ attempt' = [attempt EXCEPT ![c] = attempt[c] + 1]
        /\ attempt[c] \in Nat /\ attempt[c] + 1 \in 0..MAX_RETRIES
        /\ UNCHANGED <<current, left, got, answer, stats, requests, tries, refused>>
    BY <1>b, ProviderFailoverAssumption DEF IInv, TypeOK, Retry, history
  <1>1. TypeOK'
    BY <1>a, <1>b, <1>c DEF IInv, TypeOK, Control
  <1>2. Fresh'
    BY <1>a, <1>b, <1>c, ProviderFailoverAssumption
    DEF IInv, TypeOK, Fresh, InUse, Untried, Told, Judged, Outcome, RetryBudget, Count, Waiting
  <1>3. InUse'
    BY <1>a, <1>b, <1>c, ProviderFailoverAssumption
    DEF IInv, TypeOK, Fresh, InUse, Untried, Told, Judged, Outcome, RetryBudget, Count, Waiting
  <1>4. Untried'
    BY <1>a, <1>b, <1>c, ProviderFailoverAssumption
    DEF IInv, TypeOK, Fresh, InUse, Untried, Told, Judged, Outcome, RetryBudget, Count, Waiting
  <1>5. Told'
    BY <1>a, <1>b, <1>c, ProviderFailoverAssumption
    DEF IInv, TypeOK, Fresh, InUse, Untried, Told, Judged, Outcome, RetryBudget, Count, Waiting
  <1>6. Judged'
    BY <1>a, <1>b, <1>c, ProviderFailoverAssumption
    DEF IInv, TypeOK, Fresh, InUse, Untried, Told, Judged, Outcome, RetryBudget, Count, Waiting
  <1>7. Outcome'
    BY <1>a, <1>b, <1>c, ProviderFailoverAssumption
    DEF IInv, TypeOK, Fresh, InUse, Untried, Told, Judged, Outcome, RetryBudget, Count, Waiting
  <1>8. RetryBudget'
    BY <1>a, <1>b, <1>c, ProviderFailoverAssumption
    DEF IInv, TypeOK, Fresh, InUse, Untried, Told, Judged, Outcome, RetryBudget, Count, Waiting
  <1> QED
    BY <1>1, <1>2, <1>3, <1>4, <1>5, <1>6, <1>7, <1>8 DEF IInv

\* Giving a provider up takes its refusal out of the call's hands.
LEMMA EscalatePreserves ==
    ASSUME IInv, NEW c \in Calls, Escalate(c)
    PROVE  IInv'
  <1> DEFINE rest == left[c] \ {current[c]}
  <1>a. current[c] \in Keyed /\ current[c] \in left[c] /\ current[c] \in Providers
    BY ProviderFailoverAssumption DEF IInv, TypeOK, InUse, Escalate, Waiting
  <1>b. /\ rest \in SUBSET Keyed /\ FirstOf(rest) \in Providers \cup {None}
        /\ rest # {} => FirstOf(rest) \in rest
    BY ProviderFailoverAssumption, NextIsLeft DEF IInv, TypeOK
  <1>c. /\ pc[c] = "noting" /\ got[c] \in Errors
        /\ pc' = [pc EXCEPT ![c] = IF rest = {} THEN "failed" ELSE "calling"]
        /\ left' = [left EXCEPT ![c] = rest]
        /\ current' = [current EXCEPT ![c] = FirstOf(rest)]
        /\ lastError' = [lastError EXCEPT ![current[c]] = got[c]]
        /\ attempt' = [attempt EXCEPT ![c] = 0]
        /\ 0 \in 0..MAX_RETRIES
        /\ UNCHANGED <<got, answer, stats, requests, tries, refused>>
    BY ProviderFailoverAssumption DEF IInv, TypeOK, Outcome, Escalate, GiveUpOn, Proceed, history
  <1> HIDE DEF rest
  <1>1. TypeOK'
    BY <1>a, <1>b, <1>c DEF IInv, TypeOK, Control
  <1>2. Fresh'
    BY <1>a, <1>b, <1>c, ProviderFailoverAssumption, SMTT(30)
    DEF IInv, TypeOK, Fresh, InUse, Untried, Told, Judged, Outcome, RetryBudget, Count, Waiting, rest
  <1>3. InUse'
    BY <1>a, <1>b, <1>c, ProviderFailoverAssumption
    DEF IInv, TypeOK, Fresh, InUse, Untried, Told, Judged, Outcome, RetryBudget, Count, Waiting, rest
  <1>4. Untried'
    BY <1>a, <1>b, <1>c, ProviderFailoverAssumption
    DEF IInv, TypeOK, Fresh, InUse, Untried, Told, Judged, Outcome, RetryBudget, Count, Waiting, rest
  <1>5. Told'
    <2> SUFFICES ASSUME NEW d \in Calls
                 PROVE  /\ pc'[d] = "calling" => tries[d][current'[d]] <= attempt'[d]
                        /\ pc'[d] \in Waiting => tries[d][current'[d]] <= attempt'[d] + 1
      BY <1>c DEF Told
    <2>1. CASE d = c
      <3>1. pc'[c] # "failed" => rest # {} /\ tries[c][FirstOf(rest)] = 0
        BY <1>b, <1>c DEF IInv, TypeOK, Untried, rest
      <3> QED
        BY <1>c, <2>1, <3>1 DEF IInv, TypeOK, Waiting
    <2>2. CASE d # c
      BY <1>c, <2>2 DEF IInv, TypeOK, Told
    <2> QED
      BY <2>1, <2>2
  <1>6. Judged'
    BY <1>a, <1>b, <1>c, ProviderFailoverAssumption
    DEF IInv, TypeOK, Fresh, InUse, Untried, Told, Judged, Outcome, RetryBudget, Count, Waiting, rest
  <1>7. Outcome'
    BY <1>a, <1>b, <1>c, ProviderFailoverAssumption
    DEF IInv, TypeOK, Fresh, InUse, Untried, Told, Judged, Outcome, RetryBudget, Count, Waiting, rest
  <1>8. RetryBudget'
    BY <1>a, <1>b, <1>c, ProviderFailoverAssumption
    DEF IInv, TypeOK, Fresh, InUse, Untried, Told, Judged, Outcome, RetryBudget, Count, Waiting, rest
  <1> QED
    BY <1>1, <1>2, <1>3, <1>4, <1>5, <1>6, <1>7, <1>8 DEF IInv

\* Every step of every call keeps the invariant.
LEMMA NextPreserves == IInv /\ [Next]_vars => IInv'
  <1> SUFFICES ASSUME IInv, [Next]_vars PROVE IInv'
    OBVIOUS
  <1>1. ASSUME NEW c \in Calls, CallStep(c) PROVE IInv'
    BY <1>1, RoutePreserves, CallProviderPreserves, RecordHealthPreserves,
       ChargeCostPreserves, RetryPreserves, EscalatePreserves DEF CallStep
  <1>2. CASE UNCHANGED vars
    BY <1>2
    DEF vars, local, history, IInv, TypeOK, Fresh, InUse, Untried, Told, Judged, Outcome,
        RetryBudget
  <1> QED
    BY <1>1, <1>2 DEF Next, Done

\* The strengthened invariant holds in every state of every behaviour.
THEOREM Invariant == Spec => []IInv
  BY InitEstablishes, NextPreserves, PTL DEF Spec
-----------------------------------------------------------------------------
\* Every variable keeps its type, at every number of calls and providers.
THEOREM TypeCorrect == Spec => []TypeOK
  <1>1. IInv => TypeOK
    BY DEF IInv
  <1> QED
    BY <1>1, Invariant, PTL

\* No provider is asked more than MAX_RETRIES + 1 times by one call, whatever
\* the order in which the vendors fail (failover.py:157-252).
THEOREM BudgetIsKept == Spec => []RetryBudget
  <1>1. IInv => RetryBudget
    BY DEF IInv
  <1> QED
    BY <1>1, Invariant, PTL

\* A provider whose answer forbids a retry is not asked again by the same call
\* (failover.py:6-7, 204-224).
THEOREM RefusalsAreFinal == Spec => RefusalIsFinal
  <1> DEFINE Asked(c, p) == tries'[c][p] > tries[c][p]
  <1>1. ASSUME IInv, [Next]_vars
        PROVE  [\A c \in Calls, p \in Providers : Asked(c, p) => p \notin refused[c]]_vars
    <2> SUFFICES ASSUME NEW c \in Calls, NEW p \in Providers, Asked(c, p)
                 PROVE  p \notin refused[c]
      OBVIOUS
    <2>0. tries[c][p] \in Nat
      BY <1>1 DEF IInv, TypeOK, Count
    <2>1. tries' # tries
      BY <2>0
    <2>2. PICK d \in Calls : CallProvider(d)
      BY <1>1, <2>1
      DEF Next, CallStep, Done, vars, history, Route, RecordHealth, ChargeCost, Retry, Escalate
    <2>3. pc[d] = "calling" /\ current[d] \in left[d] /\ current[d] \notin refused[d]
      BY <1>1, <2>2 DEF IInv, InUse, Judged, CallProvider, Waiting
    <2>4. c = d /\ p = current[d]
      <3>1. tries'[c] # tries[c] /\ tries'[c][p] # tries[c][p]
        BY <2>0
      <3>2. \E n : tries' = [tries EXCEPT ![d] = [tries[d] EXCEPT ![current[d]] = n]]
        BY <1>1, <2>2 DEF IInv, TypeOK, CallProvider
      <3>3. tries \in [Calls -> [Providers -> Count]]
        BY <1>1 DEF IInv, TypeOK
      <3>4. c = d
        BY <3>1, <3>2, <3>3
      <3>5. \E n : tries'[c] = [tries[c] EXCEPT ![current[c]] = n]
        BY <3>2, <3>3, <3>4
      <3> QED
        BY <3>1, <3>3, <3>4, <3>5
    <2> QED
      BY <2>3, <2>4
  <1> QED
    BY <1>1, Invariant, PTL DEF Spec, RefusalIsFinal
-----------------------------------------------------------------------------
\* What the abstract router sees of the state.
GaveUp == [c \in Calls |-> IF pc[c] = "new" THEN {} ELSE Keyed \ left[c]]
Result == [c \in Calls |-> IF pc[c] = "failed" THEN "error" ELSE answer[c]]

\* A step of a call is a step of the abstract router or a stutter.
LEMMA StepMaps ==
    ASSUME IInv, [Next]_vars
    PROVE  [Routing!Next]_<<GaveUp, Result>>
  <1> USE DEF IInv, TypeOK, GaveUp, Result
  <1>1. ASSUME NEW c \in Calls, Route(c)
        PROVE  Routing!Refuse(c) \/ UNCHANGED <<GaveUp, Result>>
    <2>1. /\ pc[c] = "new" /\ answer[c] = None /\ answer' = answer
          /\ left' = [left EXCEPT ![c] = Keyed]
          /\ pc' = [pc EXCEPT ![c] = IF Keyed = {} THEN "failed" ELSE "calling"]
      BY <1>1 DEF Route, Proceed, Outcome
    <2>2. GaveUp' = GaveUp
      BY <2>1
    <2>3. CASE Keyed = {}
      BY <2>1, <2>2, <2>3 DEF Routing!Refuse
    <2>4. CASE Keyed # {}
      BY <2>1, <2>2, <2>4
    <2> QED
      BY <2>3, <2>4
  <1>2. ASSUME NEW c \in Calls, CallProvider(c) \/ RecordHealth(c) \/ Retry(c)
        PROVE  UNCHANGED <<GaveUp, Result>>
    BY <1>2, ZenonT(60) DEF CallProvider, RecordHealth, Retry, local
  <1>3. ASSUME NEW c \in Calls, ChargeCost(c)
        PROVE  \E p \in Keyed : Routing!Answer(c, p)
    <2>1. /\ current[c] \in left[c] /\ current[c] \in Keyed /\ answer[c] = None
          /\ pc[c] = "charging" /\ pc' = [pc EXCEPT ![c] = "answered"]
          /\ answer' = [answer EXCEPT ![c] = current[c]] /\ left' = left
      BY <1>3 DEF ChargeCost, InUse, Outcome, Waiting
    <2>2. GaveUp' = GaveUp /\ Result' = [Result EXCEPT ![c] = current[c]]
      BY <2>1
    <2> QED
      BY <2>1, <2>2 DEF Routing!Answer
  <1>4. ASSUME NEW c \in Calls, Escalate(c)
        PROVE  Routing!Fail(c) \/ \E p \in Keyed : Routing!GiveUp(c, p)
    <2> DEFINE rest == left[c] \ {current[c]}
    <2>1. /\ current[c] \in left[c] /\ current[c] \in Keyed /\ answer[c] = None
          /\ pc[c] = "noting" /\ answer' = answer /\ left' = [left EXCEPT ![c] = rest]
          /\ pc' = [pc EXCEPT ![c] = IF rest = {} THEN "failed" ELSE "calling"]
      BY <1>4 DEF Escalate, GiveUpOn, Proceed, InUse, Outcome, Waiting
    <2>2. /\ GaveUp[c] = Keyed \ left[c] /\ Result[c] = None
          /\ GaveUp' = [GaveUp EXCEPT ![c] = Keyed \ rest]
          /\ Keyed \ rest = GaveUp[c] \cup {current[c]}
      BY <2>1
    <2>3. CASE rest = {}
      <3>1. Result' = [Result EXCEPT ![c] = "error"]
        BY <2>1, <2>3
      <3> QED
        BY <2>1, <2>2, <2>3, <3>1 DEF Routing!Fail
    <2>4. CASE rest # {}
      <3>1. Result' = Result
        BY <2>1, <2>4
      <3> QED
        BY <2>1, <2>2, <2>4, <3>1 DEF Routing!GiveUp
    <2> QED
      BY <2>3, <2>4
  <1>5. CASE UNCHANGED vars
    BY <1>5 DEF vars, local
  <1> QED
    BY <1>1, <1>2, <1>3, <1>4, <1>5 DEF Next, Done, CallStep, Routing!Next

\* The caller sees the answer of one configured provider that had not given
\* up, or the error of all of them (failover.py:121-146, router.py:291-305).
THEOREM RoutingIsImplemented == Spec => ImplementsRouting
  <1>1. Init => Routing!Init
    BY DEF Init, Routing!Init
  <1>2. ASSUME IInv, [Next]_vars
        PROVE  [Routing!Next]_<<GaveUp, Result>>
    BY <1>2, StepMaps
  <1> QED
    BY <1>1, <1>2, Invariant, PTL DEF Spec, ImplementsRouting, Routing!Spec, GaveUp, Result
-----------------------------------------------------------------------------
(* The accounts.  Calls meet in them, each under a lock of its own, so that a *)
(* provider's books are complete only together with the calls on their way:   *)
(* to the health monitor, to the cost tracker, to the last error's message.   *)

\* The calls that are at a stage with provider p.
At(s, p) == Cardinality({c \in Calls : pc[c] = s /\ current[c] = p})

\* What the calls of T asked of p.
AskedIn(T, p) == MapThenSumSet(LAMBDA c : T[c][p], Calls)

Books(p) ==
    /\ stats[p].total = stats[p].ok + stats[p].failed
    /\ stats[p].total + At("recording", p) = AskedIn(tries, p)
    /\ stats[p].ok = requests[p] + At("charging", p)
    /\ stats[p].timeouts + stats[p].auth + stats[p].rate <= stats[p].failed
    /\ lastError[p] = "timeout" => stats[p].timeouts > 0
    /\ lastError[p] = None => stats[p].failed = At("noting", p)

\* A timeout whose message is still to be noted was counted before.
Noted ==
    \A c \in Calls : pc[c] = "noting" /\ got[c] = "timeout" => stats[current[c]].timeouts > 0

Accounts == Noted /\ \A p \in Providers : Books(p)

\* COUNT_LIMIT leaves room for all that the calls may ask of a provider: the
\* model does not stop counting before they end.
Room == IsFiniteSet(Calls) /\ Cardinality(Calls) * (MAX_RETRIES + 1) <= COUNT_LIMIT

LEMMA BooksAgree == AccountsAgree <=> \A p \in Providers : Books(p)
  BY DEF AccountsAgree, Books, At, AskedIn

\* What was asked of a provider is a total over the calls.
LEMMA AskedIsTotal ==
    ASSUME IsFiniteSet(Calls), NEW T \in [Calls -> [Providers -> Nat]], NEW p \in Providers
    PROVE  AskedIn(T, p) = Total([c \in Calls |-> T[c][p]], Calls)
  <1> DEFINE g == [c \in Calls |-> T[c][p]]
             Is(h) == h = [s \in SUBSET Calls |->
                              IF s = {} THEN 0 ELSE T[Pick(s)][p] + h[s \ {Pick(s)}]]
             h == CHOOSE h : Is(h)
  <1>1. ASSUME NEW k
        PROVE  IsSumOf(k, g, Calls) <=> Is(k)
    <2>1. \A s \in SUBSET Calls : s # {} => g[Pick(s)] = T[Pick(s)][p]
      BY PickIsElement
    <2>2. [s \in SUBSET Calls |-> IF s = {} THEN 0 ELSE g[Pick(s)] + k[s \ {Pick(s)}]]
          = [s \in SUBSET Calls |-> IF s = {} THEN 0 ELSE T[Pick(s)][p] + k[s \ {Pick(s)}]]
      BY <2>1
    <2> QED
      BY <2>2 DEF IsSumOf
  <1>2. g \in [Calls -> Nat]
    OBVIOUS
  <1>3. Is(h)
    <2>1. PICK k : IsSumOf(k, g, Calls)
      BY <1>2, SumExists
    <2>2. Is(k)
      BY <1>1, <2>1
    <2> HIDE DEF Is
    <2> QED
      BY <2>2
  <1>4. AskedIn(T, p) = h[Calls]
    BY DEF AskedIn, MapThenSumSet, MapThenFoldSet, Pick
  <1> HIDE DEF h, Is, g
  <1>5. h[Calls] = Total(g, Calls)
    BY <1>1, <1>2, <1>3, TotalIsSum
  <1> QED
    BY <1>4, <1>5 DEF g

\* Asking once more is one more ...
LEMMA AskedChanges ==
    ASSUME IsFiniteSet(Calls), NEW T \in [Calls -> [Providers -> Nat]],
           NEW U \in [Calls -> [Providers -> Nat]], NEW p \in Providers, NEW c \in Calls,
           \A d \in Calls : d # c => U[d][p] = T[d][p]
    PROVE  AskedIn(U, p) + T[c][p] = AskedIn(T, p) + U[c][p]
  <1> DEFINE f == [d \in Calls |-> T[d][p]]
             g == [d \in Calls |-> U[d][p]]
  <1>1. AskedIn(T, p) = Total(f, Calls) /\ AskedIn(U, p) = Total(g, Calls)
    BY AskedIsTotal
  <1>2. /\ f \in [Calls -> Nat] /\ f[c] = T[c][p]
        /\ g \in [Calls -> Nat] /\ g[c] = U[c][p]
        /\ SameBut(f, g, Calls, c)
    BY DEF SameBut
  <1> HIDE DEF f, g
  <1>3. Total(g, Calls) + f[c] = Total(f, Calls) + g[c]
    BY <1>2, TotalChanges
  <1> QED
    BY <1>1, <1>2, <1>3

\* ... and there is a bound on it.
LEMMA AskedIsBounded ==
    ASSUME IsFiniteSet(Calls), NEW T \in [Calls -> [Providers -> Nat]], NEW p \in Providers,
           NEW k \in Nat, \A c \in Calls : T[c][p] <= k
    PROVE  AskedIn(T, p) \in Nat /\ AskedIn(T, p) <= Cardinality(Calls) * k
  <1> DEFINE g == [c \in Calls |-> T[c][p]]
  <1>1. AskedIn(T, p) = Total(g, Calls)
    BY AskedIsTotal
  <1>2. g \in [Calls -> 0..k]
    OBVIOUS
  <1> HIDE DEF g
  <1> QED
    BY <1>1, <1>2, TotalIsBounded

\* A call that moves leaves one stage and enters one; the others stay.
LEMMA AtChanges ==
    ASSUME IsFiniteSet(Calls), NEW c \in Calls, NEW s, NEW p,
           \A d \in Calls : d # c => pc'[d] = pc[d] /\ current'[d] = current[d]
    PROVE  /\ At(s, p) \in Nat /\ At(s, p)' \in Nat
           /\ pc[c] = s /\ current[c] = p => At(s, p) > 0
           /\ At(s, p)' + (IF pc[c] = s /\ current[c] = p THEN 1 ELSE 0)
              = At(s, p) + (IF pc'[c] = s /\ current'[c] = p THEN 1 ELSE 0)
  <1> DEFINE A == {d \in Calls : pc[d] = s /\ current[d] = p}
             B == {d \in Calls : pc'[d] = s /\ current'[d] = p}
             O == A \ {c}
  <1>1. IsFiniteSet(A) /\ IsFiniteSet(B) /\ IsFiniteSet(O)
    BY FS_Subset
  <1>2. B \ {c} = O /\ c \notin O
    OBVIOUS
  <1>3. A = IF pc[c] = s /\ current[c] = p THEN O \cup {c} ELSE O
    OBVIOUS
  <1>4. B = IF pc'[c] = s /\ current'[c] = p THEN O \cup {c} ELSE O
    BY <1>2
  <1>5. Cardinality(O) \in Nat /\ Cardinality(O \cup {c}) = Cardinality(O) + 1
    BY <1>1, <1>2, FS_CardinalityType, FS_AddElement
  <1>6. At(s, p) = Cardinality(A) /\ At(s, p)' = Cardinality(B)
    BY DEF At
  <1> HIDE DEF A, B, O
  <1> QED
    BY <1>3, <1>4, <1>5, <1>6
\* The books as a call finds them: numbers, and none at the limit.
LEMMA BooksAreOpen ==
    ASSUME Room, IInv, Accounts, NEW p \in Providers
    PROVE  /\ stats[p] \in Counters /\ requests[p] \in Nat
           /\ AskedIn(tries, p) \in Nat /\ AskedIn(tries, p) <= COUNT_LIMIT
           /\ tries \in [Calls -> [Providers -> Nat]]
           /\ COUNT_LIMIT \in Nat /\ MAX_RETRIES \in Nat
  <1>1. /\ tries \in [Calls -> [Providers -> Nat]] /\ MAX_RETRIES \in Nat /\ COUNT_LIMIT \in Nat
        /\ stats[p] \in Counters /\ requests[p] \in Nat
    BY ProviderFailoverAssumption DEF IInv, TypeOK, Count
  <1>2. \A c \in Calls : tries[c][p] <= MAX_RETRIES + 1
    BY DEF IInv, RetryBudget
  <1>3. IsFiniteSet(Calls) /\ MAX_RETRIES + 1 \in Nat
    BY <1>1 DEF Room
  <1>4. /\ AskedIn(tries, p) \in Nat
        /\ AskedIn(tries, p) <= Cardinality(Calls) * (MAX_RETRIES + 1)
    <2> DEFINE k == MAX_RETRIES + 1
    <2> HIDE DEF k
    <2>1. k \in Nat /\ \A c \in Calls : tries[c][p] <= k
      BY <1>2, <1>3 DEF k
    <2>2. AskedIn(tries, p) \in Nat /\ AskedIn(tries, p) <= Cardinality(Calls) * k
      BY <1>1, <1>3, <2>1, AskedIsBounded
    <2> QED
      BY <2>2 DEF k
  <1>5. Cardinality(Calls) * (MAX_RETRIES + 1) \in Nat
    BY <1>1, <1>3, FS_CardinalityType
  <1> QED
    BY <1>1, <1>4, <1>5 DEF Room

\* One call of a set of calls leaves room for its retries.
LEMMA RoomForRetries ==
    ASSUME Room, NEW c \in Calls
    PROVE  MAX_RETRIES + 1 <= COUNT_LIMIT
  <1> DEFINE n == Cardinality(Calls)
  <1>1. n \in Nat /\ n # 0
    BY FS_CardinalityType, FS_EmptySet DEF Room
  <1>2. MAX_RETRIES \in Nat /\ COUNT_LIMIT \in Nat
    BY ProviderFailoverAssumption
  <1>3. n * (MAX_RETRIES + 1) <= COUNT_LIMIT
    BY DEF Room
  <1> HIDE DEF n
  <1>4. PICK m \in Nat : n = m + 1
    <2>1. n - 1 \in Nat /\ n = (n - 1) + 1
      BY <1>1
    <2> QED
      BY <2>1
  <1>5. n * (MAX_RETRIES + 1) = m * (MAX_RETRIES + 1) + (MAX_RETRIES + 1)
    BY <1>2, <1>4
  <1>6. m * (MAX_RETRIES + 1) \in Nat
    BY <1>2, <1>4
  <1> QED
    BY <1>2, <1>3, <1>5, <1>6

LEMMA AccountsBegin ==
    ASSUME Room, Init
    PROVE  Accounts
  <1>1. Noted
    BY DEF Init, Noted
  <1>2. ASSUME NEW p \in Providers
        PROVE  Books(p)
    <2>1. \A s \in {"recording", "charging", "noting"} : At(s, p) = 0
      <3> SUFFICES ASSUME NEW s \in {"recording", "charging", "noting"} PROVE At(s, p) = 0
        OBVIOUS
      <3>1. {c \in Calls : pc[c] = s /\ current[c] = p} = {}
        BY DEF Init
      <3> QED
        BY <3>1, FS_EmptySet DEF At
    <2>2. tries \in [Calls -> [Providers -> Nat]] /\ \A c \in Calls : tries[c][p] <= 0
      BY DEF Init
    <2>3. AskedIn(tries, p) \in Nat /\ AskedIn(tries, p) <= Cardinality(Calls) * 0
      BY <2>2, AskedIsBounded DEF Room
    <2>4. Cardinality(Calls) * 0 = 0
      BY FS_CardinalityType DEF Room
    <2>5. AskedIn(tries, p) = 0
      BY <2>3, <2>4
    <2> QED
      <3>1. lastError[p] = None /\ None # "timeout"
        BY ProviderFailoverAssumption DEF Init, Errors, Retryable
      <3>2. /\ stats[p].total = 0 /\ stats[p].ok = 0 /\ stats[p].failed = 0
            /\ stats[p].timeouts = 0 /\ stats[p].auth = 0 /\ stats[p].rate = 0
            /\ requests[p] = 0
        BY DEF Init
      <3> QED
        BY <2>1, <2>5, <3>1, <3>2 DEF Books
  <1> QED
    BY <1>1, <1>2 DEF Accounts

\* A call that is not at the books yet, or no more, leaves them alone.
LEMMA BooksStay ==
    ASSUME Room, IInv, Accounts, NEW c \in Calls, Route(c)
    PROVE  Accounts'
  <1>1. /\ pc[c] = "new" /\ pc'[c] \in {"failed", "calling"}
        /\ \A d \in Calls : d # c => pc'[d] = pc[d] /\ current'[d] = current[d]
        /\ UNCHANGED <<got, stats, lastError, requests, tries>>
    BY DEF Route, Proceed, history, IInv, TypeOK
  <1>2. Noted'
    BY <1>1 DEF Noted, Accounts
  <1>3. ASSUME NEW p \in Providers
        PROVE  Books(p)'
    <2>1. \A s \in {"recording", "charging", "noting"} :
              At(s, p)' + 0 = At(s, p) + 0 /\ At(s, p) \in Nat /\ At(s, p)' \in Nat
      <3> SUFFICES ASSUME NEW s \in {"recording", "charging", "noting"}
                   PROVE  /\ At(s, p)' + 0 = At(s, p) + 0
                          /\ At(s, p) \in Nat /\ At(s, p)' \in Nat
        OBVIOUS
      <3> QED
        BY <1>1, AtChanges DEF Room
    <2>2. \A s \in {"recording", "charging", "noting"} : At(s, p)' = At(s, p)
      BY <2>1
    <2> QED
      BY <1>1, <2>2 DEF Books, Accounts
  <1> QED
    BY <1>2, <1>3 DEF Accounts

\* What is asked is on its way to the books.
LEMMA BooksAwait ==
    ASSUME Room, IInv, Accounts, NEW c \in Calls, CallProvider(c)
    PROVE  Accounts'
  <1>1. /\ pc[c] = "calling" /\ pc'[c] = "recording" /\ current[c] \in Providers
        /\ \A d \in Calls : d # c => pc'[d] = pc[d] /\ got'[d] = got[d]
        /\ UNCHANGED <<current, stats, lastError, requests>>
    BY ProviderFailoverAssumption DEF CallProvider, IInv, TypeOK, InUse
  <1>2. /\ tries[c][current[c]] \in Nat /\ tries[c][current[c]] < COUNT_LIMIT
        /\ tries \in [Calls -> [Providers -> Nat]]
    <2>1. tries[c][current[c]] <= attempt[c] /\ attempt[c] <= MAX_RETRIES
      BY <1>1 DEF IInv, TypeOK, Told
    <2>2. /\ attempt[c] \in Nat /\ MAX_RETRIES \in Nat /\ COUNT_LIMIT \in Nat
          /\ tries \in [Calls -> [Providers -> Nat]]
      BY ProviderFailoverAssumption DEF IInv, TypeOK, Count
    <2>3. tries[c][current[c]] \in Nat
      BY <1>1, <2>2
    <2> QED
      BY <2>1, <2>2, <2>3, RoomForRetries
  <1>3. tries' = [tries EXCEPT ![c] = [tries[c] EXCEPT ![current[c]] = tries[c][current[c]] + 1]]
    BY <1>1, <1>2 DEF CallProvider, Add
  <1>4. /\ tries' \in [Calls -> [Providers -> Nat]]
        /\ \A d \in Calls : d # c => tries'[d] = tries[d]
        /\ tries'[c][current[c]] = tries[c][current[c]] + 1
        /\ \A p \in Providers : p # current[c] => tries'[c][p] = tries[c][p]
    BY <1>1, <1>2, <1>3
  <1>5. Noted'
    BY <1>1 DEF Noted, Accounts
  <1>6. ASSUME NEW p \in Providers
        PROVE  Books(p)'
    <2> DEFINE one == IF current[c] = p THEN 1 ELSE 0
    <2>1. /\ At("recording", p)' = At("recording", p) + one
          /\ At("charging", p)' = At("charging", p)
          /\ At("noting", p)' = At("noting", p)
          /\ At("recording", p) \in Nat
      <3>1. /\ At("recording", p) \in Nat /\ At("recording", p)' \in Nat
            /\ At("recording", p)' + 0 = At("recording", p) + one
        BY <1>1, AtChanges DEF Room
      <3>2. /\ At("charging", p) \in Nat /\ At("charging", p)' \in Nat
            /\ At("charging", p)' + 0 = At("charging", p) + 0
        BY <1>1, AtChanges DEF Room
      <3>3. /\ At("noting", p) \in Nat /\ At("noting", p)' \in Nat
            /\ At("noting", p)' + 0 = At("noting", p) + 0
        BY <1>1, AtChanges DEF Room
      <3> QED
        BY <3>1, <3>2, <3>3
    <2>2. AskedIn(tries', p) = AskedIn(tries, p) + one /\ AskedIn(tries, p) \in Nat
      <3>1. AskedIn(tries', p) + tries[c][p] = AskedIn(tries, p) + tries'[c][p]
        BY <1>2, <1>4, AskedChanges DEF Room
      <3>2. tries[c][p] \in Nat /\ tries'[c][p] = tries[c][p] + one
        BY <1>2, <1>4
      <3>3. AskedIn(tries, p) \in Nat /\ AskedIn(tries', p) \in Nat
        <4>1. AskedIn(tries, p) \in Nat
          BY BooksAreOpen
        <4>2. MAX_RETRIES + 1 \in Nat /\ \A d \in Calls : tries'[d][p] <= MAX_RETRIES + 1
          BY CallProviderPreserves, ProviderFailoverAssumption DEF IInv, RetryBudget
        <4>3. AskedIn(tries', p) \in Nat
          BY <1>4, <4>2, AskedIsBounded DEF Room
        <4> QED
          BY <4>1, <4>3
      <3> QED
        BY <3>1, <3>2, <3>3
    <2>3. stats[p].total \in Nat
      BY DEF IInv, TypeOK, Counters, Count
    <2> HIDE DEF one
    <2>4. one \in Nat
      BY DEF one
    <2>5. (AskedIn(tries, p))' = AskedIn(tries', p)
      BY DEF AskedIn, MapThenSumSet, MapThenFoldSet
    <2> QED
      BY <1>1, <2>1, <2>2, <2>3, <2>4, <2>5 DEF Books, Accounts
  <1> QED
    BY <1>5, <1>6 DEF Accounts
\* What counting one outcome adds to books that are not full (health_monitor.py:43-68).
LEMMA CountedAdds ==
    ASSUME NEW s \in Counters, NEW o, s.total < COUNT_LIMIT,
           s.total = s.ok + s.failed, s.timeouts + s.auth + s.rate <= s.failed
    PROVE  /\ Counted(s, o).total = s.total + 1
           /\ Counted(s, o).ok = s.ok + (IF o = "ok" THEN 1 ELSE 0)
           /\ Counted(s, o).failed = s.failed + (IF o = "ok" THEN 0 ELSE 1)
           /\ Counted(s, o).timeouts = s.timeouts + (IF o = "timeout" THEN 1 ELSE 0)
           /\ Counted(s, o).timeouts + Counted(s, o).auth + Counted(s, o).rate
              <= Counted(s, o).failed
  <1>1. /\ s.total \in Nat /\ s.ok \in Nat /\ s.failed \in Nat
        /\ s.timeouts \in Nat /\ s.auth \in Nat /\ s.rate \in Nat /\ COUNT_LIMIT \in Nat
    BY ProviderFailoverAssumption DEF Counters, Count
  <1>2. /\ s.ok < COUNT_LIMIT /\ s.failed < COUNT_LIMIT
        /\ s.timeouts < COUNT_LIMIT /\ s.auth < COUNT_LIMIT /\ s.rate < COUNT_LIMIT
    BY <1>1
  <1>3. /\ Counted(s, o).total = Add(s.total, TRUE)
        /\ Counted(s, o).ok = Add(s.ok, o = "ok")
        /\ Counted(s, o).failed = Add(s.failed, o # "ok")
        /\ Counted(s, o).timeouts = Add(s.timeouts, o = "timeout")
        /\ Counted(s, o).auth = Add(s.auth, o = "authentication")
        /\ Counted(s, o).rate = Add(s.rate, o = "rate_limit")
    BY DEF Counted
  <1>4. /\ Counted(s, o).total = s.total + 1
        /\ Counted(s, o).ok = s.ok + (IF o = "ok" THEN 1 ELSE 0)
        /\ Counted(s, o).failed = s.failed + (IF o = "ok" THEN 0 ELSE 1)
        /\ Counted(s, o).timeouts = s.timeouts + (IF o = "timeout" THEN 1 ELSE 0)
        /\ Counted(s, o).auth = s.auth + (IF o = "authentication" THEN 1 ELSE 0)
        /\ Counted(s, o).rate = s.rate + (IF o = "rate_limit" THEN 1 ELSE 0)
    BY <1>1, <1>2, <1>3 DEF Add
  <1> QED
    BY <1>1, <1>4

\* The health monitor counts what was on its way, once.
LEMMA BooksRecord ==
    ASSUME Room, IInv, Accounts, NEW c \in Calls, RecordHealth(c)
    PROVE  Accounts'
  <1> DEFINE o == got[c]
             r == current[c]
  <1>1. /\ pc[c] = "recording" /\ r \in Providers
        /\ pc' = [pc EXCEPT ![c] = IF o = "ok" THEN "charging" ELSE "noting"]
        /\ UNCHANGED <<current, got, lastError, requests, tries>>
        /\ stats' = [stats EXCEPT ![r] = Counted(stats[r], o)]
        /\ stats \in [Providers -> Counters]
    BY ProviderFailoverAssumption DEF RecordHealth, local, history, IInv, TypeOK, InUse, Waiting
  <1>2. /\ pc'[c] = IF o = "ok" THEN "charging" ELSE "noting"
        /\ \A d \in Calls : d # c => pc'[d] = pc[d] /\ current'[d] = current[d]
    BY <1>1 DEF IInv, TypeOK
  <1>3. /\ stats'[r] = Counted(stats[r], o)
        /\ \A p \in Providers : p # r => stats'[p] = stats[p]
    BY <1>1
  <1>4. /\ At("recording", r) > 0 /\ At("recording", r) \in Nat
        /\ stats[r].total \in Nat /\ stats[r].total + At("recording", r) = AskedIn(tries, r)
        /\ AskedIn(tries, r) <= COUNT_LIMIT /\ COUNT_LIMIT \in Nat
        /\ stats[r].total = stats[r].ok + stats[r].failed
        /\ stats[r].timeouts + stats[r].auth + stats[r].rate <= stats[r].failed
        /\ stats[r] \in Counters
    <2>1. At("recording", r) > 0 /\ At("recording", r) \in Nat
      BY <1>1, <1>2, AtChanges DEF Room
    <2>2. Books(r)
      BY <1>1 DEF Accounts
    <2>3. AskedIn(tries, r) <= COUNT_LIMIT /\ COUNT_LIMIT \in Nat /\ stats[r] \in Counters
      BY <1>1, BooksAreOpen
    <2>4. stats[r].total \in Nat
      BY <2>3 DEF Counters, Count
    <2> QED
      BY <2>1, <2>2, <2>3, <2>4 DEF Books
  <1>5. stats[r].total < COUNT_LIMIT
    <2> HIDE DEF r
    <2> QED
      BY <1>4
  <1>6. /\ stats'[r].total = stats[r].total + 1
        /\ stats'[r].ok = stats[r].ok + (IF o = "ok" THEN 1 ELSE 0)
        /\ stats'[r].failed = stats[r].failed + (IF o = "ok" THEN 0 ELSE 1)
        /\ stats'[r].timeouts = stats[r].timeouts + (IF o = "timeout" THEN 1 ELSE 0)
        /\ stats'[r].timeouts + stats'[r].auth + stats'[r].rate <= stats'[r].failed
    <2> HIDE DEF r, o
    <2> QED
      BY <1>3, <1>4, <1>5, CountedAdds
  <1>t. \A p \in Providers : /\ stats[p].timeouts \in Nat /\ stats'[p].timeouts \in Nat
                              /\ stats'[p].timeouts >= stats[p].timeouts
    <2>1. \A p \in Providers : stats[p].timeouts \in Nat
      BY <1>1 DEF Counters, Count
    <2> HIDE DEF r, o
    <2> QED
      BY <1>1, <1>3, <1>6, <2>1
  <1>7. Noted'
    <2> SUFFICES ASSUME NEW d \in Calls, pc'[d] = "noting", got[d] = "timeout"
                 PROVE  stats'[current[d]].timeouts > 0
      BY <1>1 DEF Noted
    <2>1. CASE d = c
      <3>1. stats'[r].timeouts = stats[r].timeouts + 1 /\ stats[r].timeouts \in Nat
        BY <1>1, <1>6, <1>t, <2>1
      <3> QED
        BY <2>1, <3>1
    <2>2. CASE d # c
      <3>1. pc[d] = "noting" /\ current[d] \in Providers
        BY <1>2, <2>2, ProviderFailoverAssumption DEF IInv, TypeOK, InUse, Waiting
      <3>2. stats[current[d]].timeouts > 0
        BY <3>1 DEF Noted, Accounts
      <3> QED
        BY <1>t, <3>1, <3>2
    <2> QED
      BY <2>1, <2>2
  <1>8. ASSUME NEW p \in Providers
        PROVE  Books(p)'
    <2> DEFINE one == IF r = p THEN 1 ELSE 0
               fine == IF o = "ok" /\ r = p THEN 1 ELSE 0
               bad == IF o # "ok" /\ r = p THEN 1 ELSE 0
    <2>1. /\ At("recording", p)' + one = At("recording", p)
          /\ At("charging", p)' = At("charging", p) + fine
          /\ At("noting", p)' = At("noting", p) + bad
          /\ At("recording", p)' \in Nat /\ At("charging", p) \in Nat /\ At("noting", p) \in Nat
      <3>1. /\ At("recording", p) \in Nat /\ At("recording", p)' \in Nat
            /\ At("recording", p)' + one = At("recording", p) + 0
        BY <1>1, <1>2, AtChanges DEF Room
      <3>2. /\ At("charging", p) \in Nat /\ At("charging", p)' \in Nat
            /\ At("charging", p)' + 0 = At("charging", p) + fine
        BY <1>1, <1>2, AtChanges DEF Room
      <3>3. /\ At("noting", p) \in Nat /\ At("noting", p)' \in Nat
            /\ At("noting", p)' + 0 = At("noting", p) + bad
        BY <1>1, <1>2, AtChanges DEF Room
      <3> HIDE DEF one, fine, bad
      <3> QED
        BY <3>1, <3>2, <3>3 DEF one, fine, bad
    <2>2. Books(p) /\ stats[p] \in Counters /\ requests[p] \in Nat /\ AskedIn(tries, p) \in Nat
      BY BooksAreOpen DEF Accounts
    <2>3. /\ stats[p].total \in Nat /\ stats[p].ok \in Nat /\ stats[p].failed \in Nat
          /\ stats[p].timeouts \in Nat
      BY <2>2 DEF Counters, Count
    <2>4. (AskedIn(tries, p))' = AskedIn(tries, p)
      BY <1>1 DEF AskedIn, MapThenSumSet, MapThenFoldSet
    <2> HIDE DEF r, o
    <2>5. CASE p = r
      BY <1>1, <1>6, <2>1, <2>2, <2>3, <2>4, <2>5 DEF Books
    <2>6. CASE p # r
      BY <1>1, <1>3, <2>1, <2>2, <2>3, <2>4, <2>6 DEF Books
    <2> QED
      BY <2>5, <2>6
  <1> QED
    BY <1>7, <1>8 DEF Accounts

\* The cost tracker counts a success that the monitor counted before.
LEMMA BooksCharge ==
    ASSUME Room, IInv, Accounts, NEW c \in Calls, ChargeCost(c)
    PROVE  Accounts'
  <1> DEFINE r == current[c]
  <1>1. /\ pc[c] = "charging" /\ r \in Providers
        /\ pc'[c] = "answered"
        /\ \A d \in Calls : d # c => pc'[d] = pc[d] /\ current'[d] = current[d]
        /\ UNCHANGED <<current, got, lastError, stats, tries>>
        /\ requests' = [requests EXCEPT ![r] = Add(requests[r], TRUE)]
        /\ requests \in [Providers -> Count]
    BY ProviderFailoverAssumption DEF ChargeCost, local, history, IInv, TypeOK, InUse, Waiting
  <1>2. requests'[r] = requests[r] + 1 /\ \A p \in Providers : p # r => requests'[p] = requests[p]
    <2>1. At("charging", r) > 0 /\ At("charging", r) \in Nat
      BY <1>1, AtChanges DEF Room
    <2>2. stats[r].ok = requests[r] + At("charging", r)
      BY <1>1 DEF Accounts, Books
    <2>3. stats[r].ok \in Nat /\ stats[r].ok <= COUNT_LIMIT /\ COUNT_LIMIT \in Nat /\ requests[r] \in Nat
      BY <1>1, ProviderFailoverAssumption DEF IInv, TypeOK, Counters, Count
    <2> HIDE DEF r
    <2>4. requests[r] < COUNT_LIMIT
      BY <2>1, <2>2, <2>3
    <2> QED
      BY <1>1, <2>4 DEF Add
  <1>3. Noted'
    BY <1>1 DEF Noted, Accounts
  <1>4. ASSUME NEW p \in Providers
        PROVE  Books(p)'
    <2> DEFINE one == IF r = p THEN 1 ELSE 0
    <2>1. /\ At("recording", p)' = At("recording", p)
          /\ At("charging", p)' + one = At("charging", p)
          /\ At("noting", p)' = At("noting", p)
          /\ At("charging", p)' \in Nat
      <3>1. /\ At("recording", p) \in Nat /\ At("recording", p)' \in Nat
            /\ At("recording", p)' + 0 = At("recording", p) + 0
        BY <1>1, AtChanges DEF Room
      <3>2. /\ At("charging", p) \in Nat /\ At("charging", p)' \in Nat
            /\ At("charging", p)' + one = At("charging", p) + 0
        BY <1>1, AtChanges DEF Room
      <3>3. /\ At("noting", p) \in Nat /\ At("noting", p)' \in Nat
            /\ At("noting", p)' + 0 = At("noting", p) + 0
        BY <1>1, AtChanges DEF Room
      <3> HIDE DEF one
      <3> QED
        BY <3>1, <3>2, <3>3 DEF one
    <2>2. Books(p) /\ requests[p] \in Nat
      BY BooksAreOpen DEF Accounts
    <2>4. (AskedIn(tries, p))' = AskedIn(tries, p)
      BY <1>1 DEF AskedIn, MapThenSumSet, MapThenFoldSet
    <2> HIDE DEF r
    <2>5. CASE p = r
      <3>1. At("charging", p)' + 1 = At("charging", p) /\ requests'[p] = requests[p] + 1
        BY <1>2, <2>1, <2>5
      <3>2. requests'[p] + At("charging", p)' = requests[p] + At("charging", p)
        BY <2>1, <2>2, <3>1
      <3> QED
        BY <1>1, <2>1, <2>2, <2>4, <3>2 DEF Books
    <2>6. CASE p # r
      <3>1. At("charging", p)' = At("charging", p) /\ requests'[p] = requests[p]
        BY <1>2, <2>1, <2>6
      <3> QED
        BY <1>1, <2>1, <2>2, <2>4, <3>1 DEF Books
    <2> QED
      BY <2>5, <2>6
  <1> QED
    BY <1>3, <1>4 DEF Accounts

\* The last error's message is of a failure that was counted.
LEMMA BooksNote ==
    ASSUME Room, IInv, Accounts, NEW c \in Calls, Retry(c) \/ Escalate(c)
    PROVE  Accounts'
  <1> DEFINE r == current[c]
  <1>1. /\ pc[c] = "noting" /\ r \in Providers /\ got[c] \in Errors
        /\ pc'[c] \notin {"recording", "charging", "noting"}
        /\ \A d \in Calls : d # c => pc'[d] = pc[d] /\ current'[d] = current[d]
        /\ UNCHANGED <<got, stats, tries, requests>>
        /\ lastError' = [lastError EXCEPT ![r] = got[c]]
        /\ lastError \in [Providers -> Errors \cup {None}]
    <2>1. /\ pc[c] = "noting" /\ r \in Providers /\ got[c] \in Errors
          /\ lastError \in [Providers -> Errors \cup {None}]
      BY ProviderFailoverAssumption DEF Retry, Escalate, IInv, TypeOK, InUse, Outcome, Waiting
    <2>2. CASE Retry(c)
      BY <2>1, <2>2 DEF Retry, history, IInv, TypeOK
    <2>3. CASE Escalate(c)
      BY <2>1, <2>3 DEF Escalate, GiveUpOn, Proceed, history, IInv, TypeOK
    <2> QED
      BY <2>2, <2>3
  <1>2. /\ lastError'[r] = got[c] /\ lastError'[r] # None
        /\ \A p \in Providers : p # r => lastError'[p] = lastError[p]
    BY <1>1, ProviderFailoverAssumption
  <1>3. Noted'
    BY <1>1 DEF Noted, Accounts
  <1>4. got[c] = "timeout" => stats[r].timeouts > 0
    BY <1>1 DEF Noted, Accounts
  <1>5. ASSUME NEW p \in Providers
        PROVE  Books(p)'
    <2> DEFINE one == IF r = p THEN 1 ELSE 0
    <2>1. /\ At("recording", p)' = At("recording", p)
          /\ At("charging", p)' = At("charging", p)
          /\ At("noting", p)' + one = At("noting", p)
          /\ At("noting", p)' \in Nat
      <3>1. /\ At("recording", p) \in Nat /\ At("recording", p)' \in Nat
            /\ At("recording", p)' + 0 = At("recording", p) + 0
        BY <1>1, AtChanges DEF Room
      <3>2. /\ At("charging", p) \in Nat /\ At("charging", p)' \in Nat
            /\ At("charging", p)' + 0 = At("charging", p) + 0
        BY <1>1, AtChanges DEF Room
      <3>3. /\ At("noting", p) \in Nat /\ At("noting", p)' \in Nat
            /\ At("noting", p)' + one = At("noting", p) + 0
        BY <1>1, AtChanges DEF Room
      <3> HIDE DEF one
      <3> QED
        BY <3>1, <3>2, <3>3 DEF one
    <2>2. Books(p)
      BY DEF Accounts
    <2>4. (AskedIn(tries, p))' = AskedIn(tries, p)
      BY <1>1 DEF AskedIn, MapThenSumSet, MapThenFoldSet
    <2> HIDE DEF r
    <2>5. CASE p = r
      BY <1>1, <1>2, <1>4, <2>1, <2>2, <2>4, <2>5 DEF Books
    <2>6. CASE p # r
      BY <1>1, <1>2, <2>1, <2>2, <2>4, <2>6 DEF Books
    <2> QED
      BY <2>5, <2>6
  <1> QED
    BY <1>3, <1>5 DEF Accounts

\* The accounts of the health monitor and the cost tracker agree, at every
\* interleaving of the calls (health_monitor.py:43-68, evaluator.py, failover.py:157-252).
THEOREM TheAccountsAgree ==
    ASSUME Room
    PROVE  Spec => []AccountsAgree
  <1>1. Init => Accounts
    BY AccountsBegin
  <1>2. IInv /\ Accounts /\ [Next]_vars => Accounts'
    <2> SUFFICES ASSUME IInv, Accounts, [Next]_vars PROVE Accounts'
      OBVIOUS
    <2>1. ASSUME NEW c \in Calls, CallStep(c) PROVE Accounts'
      BY <2>1, BooksStay, BooksAwait, BooksRecord, BooksCharge, BooksNote DEF CallStep
    <2>2. CASE UNCHANGED vars
      <3>1. ASSUME NEW p \in Providers PROVE Books(p)'
        <4>1. (AskedIn(tries, p))' = AskedIn(tries, p)
          BY <2>2 DEF AskedIn, MapThenSumSet, MapThenFoldSet, vars, history
        <4>2. \A s : At(s, p)' = At(s, p)
          BY <2>2 DEF At, vars, local
        <4> QED
          BY <2>2, <4>1, <4>2 DEF Accounts, Books, vars
      <3>2. Noted'
        BY <2>2 DEF Noted, Accounts, vars, local
      <3> QED
        BY <3>1, <3>2 DEF Accounts
    <2> QED
      BY <2>1, <2>2 DEF Next, Done
  <1>3. Accounts => AccountsAgree
    BY BooksAgree DEF Accounts
  <1> QED
    BY <1>1, <1>2, <1>3, Invariant, PTL DEF Spec
=============================================================================
