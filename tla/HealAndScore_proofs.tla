-------------------------- MODULE HealAndScore_proofs --------------------------
(***************************************************************************)
(* Theorems about HealAndScore, for every setting and every set of mutants.*)
(*                                                                         *)
(* The argument: until the repair is stored the row is that of the         *)
(* generated tests, and whoever asks the LLM holds a response of the       *)
(* sandbox whose first matching rule is one of the repairable ones.        *)
(***************************************************************************)
EXTENDS HealAndScore, Sums, FiniteSetTheorems, TLAPS

RowType ==
    [code : Code, exit : Exit \cup {None}, result_of : Code \cup {None},
     coverage_of : Code \cup {None}, repair_attempted : BOOLEAN,
     repair_success : BOOLEAN, repair_count : 0..1,
     failure : Shown \cup {"unknown", None},
     scored : Code \cup {None}, mutation : [Statuses -> 0..Cardinality(Mutants)]]

\* A response worth a repair: the tests ran, and what failed is their code.
Broken(r) ==
    /\ r.ran /\ r.exit \notin {"passed", "unavailable"}
    /\ "infrastructure" \notin r.shows
    /\ r.shows \cap {"invocation", "syntax"} # {}

\* No repair has touched the row before one is stored.
Untouched ==
    pc \in {"pipeline", "heal", "repair", "rerun", "raised"} =>
        row.code = "generated" /\ ~row.repair_success

\* The LLM is asked in one place, about a response worth it.
AskedOnce ==
    /\ pc \in {"pipeline", "heal", "repair"} => asked = 0
    /\ pc = "repair" => Broken(initial)
    /\ pc = "rerun" => asked = 1 /\ candidate = "repaired"
    /\ pc \in {"repair", "rerun"} => initial \in Response

\* The mutants of a campaign are run in the sandbox, and scored at its end.
Scored ==
    /\ pc # "done" => row.scored = None
    /\ pc \notin {"campaign", "done"} => DOMAIN campaign = {} /\ unrun = {}
    /\ row.scored # None => row.scored = row.code

IInv ==
    /\ TypeOK
    /\ Untouched
    /\ AskedOnce
    /\ Scored
    /\ StoredResultIsOfStoredTests
-----------------------------------------------------------------------------
\* What the sandbox may answer is a response; only an error of the sidecar or
\* of docker shows when the tests did not run.
LEMMA SandboxResponds ==
    ASSUME NEW r \in SandboxRun
    PROVE  r \in Response /\ (~r.ran => r.shows \subseteq {"infrastructure"})
  BY DEF SandboxRun, Response

\* The least of some of the four patterns.
LEMMA FirstHit ==
    ASSUME NEW H \in SUBSET (1..4), H # {}
    PROVE  Min(H) \in H /\ \A h \in H : Min(H) <= h
  <1>1. \E m \in H : \A h \in H : m <= h
    <2>1. CASE 1 \in H
      BY <2>1
    <2>2. CASE 1 \notin H /\ 2 \in H
      BY <2>2
    <2>3. CASE 1 \notin H /\ 2 \notin H /\ 3 \in H
      BY <2>3
    <2>4. CASE 1 \notin H /\ 2 \notin H /\ 3 \notin H
      <3>1. PICK m \in H : TRUE
        OBVIOUS
      <3>2. m = 4 /\ \A h \in H : h = 4
        BY <2>4
      <3> QED
        BY <3>2
    <2> QED
      BY <2>1, <2>2, <2>3, <2>4
  <1> QED
    BY <1>1 DEF Min

LEMMA RulesAre ==
    /\ DOMAIN Rules = 1..4
    /\ Rules[1][1] = "infrastructure" /\ Rules[1][2] = FALSE
    /\ Rules[2][1] = "invocation" /\ Rules[2][2] = TRUE
    /\ Rules[3][1] = "syntax" /\ Rules[3][2] = TRUE
    /\ Rules[4][1] = "assertion" /\ Rules[4][2] = FALSE
  <1>1. DOMAIN Rules = 1..4
    BY DEF Rules
  <1>2. Rules[1] = <<"infrastructure", FALSE>> /\ Rules[2] = <<"invocation", TRUE>>
    BY DEF Rules
  <1>3. Rules[3] = <<"syntax", TRUE>> /\ Rules[4] = <<"assertion", FALSE>>
    BY DEF Rules
  <1> QED
    BY <1>1, <1>2, <1>3

\* A category is one of the patterns', or unknown (failure_classifier.py).
LEMMA CategoryIsKnown ==
    ASSUME NEW r \in Response
    PROVE  Category(r) \in Shown \cup {"unknown"}
  <1> DEFINE hits == {i \in DOMAIN Rules : Rules[i][1] \in r.shows}
  <1>1. hits \in SUBSET (1..4)
    BY RulesAre
  <1>2. \A i \in 1..4 : Rules[i][1] \in Shown
    BY RulesAre DEF Shown
  <1>3. CASE r.exit = "passed" \/ hits = {}
    BY <1>3 DEF Category, Classify
  <1>4. CASE ~ (r.exit = "passed" \/ hits = {})
    <2>1. Min(hits) \in 1..4
      BY <1>1, <1>4, FirstHit
    <2>2. Classify(r) = Rules[Min(hits)]
      BY <1>4 DEF Classify
    <2> QED
      BY <1>2, <2>1, <2>2 DEF Category
  <1> QED
    BY <1>3, <1>4

\* What is repairable is worth a repair: the order of the patterns sees to it.
LEMMA RepairableIsBroken ==
    ASSUME NEW r \in SandboxRun, r.exit \notin {"passed", "unavailable"}, IsRepairable(r)
    PROVE  Broken(r)
  <1> DEFINE hits == {i \in DOMAIN Rules : Rules[i][1] \in r.shows}
  <1>1. hits \in SUBSET (1..4)
    BY RulesAre
  <1>2. hits # {} /\ Classify(r) = Rules[Min(hits)]
    BY DEF IsRepairable, Classify
  <1>3. Min(hits) \in hits /\ \A h \in hits : Min(hits) <= h
    BY <1>1, <1>2, FirstHit
  <1>4. Min(hits) \in {2, 3}
    BY <1>1, <1>2, <1>3, RulesAre DEF IsRepairable
  <1>5. 1 \notin hits
    BY <1>3, <1>4
  <1>6. "infrastructure" \notin r.shows
    BY <1>5, RulesAre
  <1>7. r.shows \cap {"invocation", "syntax"} # {}
    BY <1>3, <1>4, RulesAre
  <1>8. r.ran
    BY <1>6, <1>7, SandboxResponds
  <1> QED
    BY <1>6, <1>7, <1>8 DEF Broken
\* A campaign counts no more mutants than there are.
LEMMA CountIsBounded ==
    ASSUME DOMAIN campaign \subseteq Mutants, NEW s
    PROVE  Count(s) \in 0..Cardinality(Mutants)
  <1> DEFINE those == {m \in DOMAIN campaign : campaign[m] = s}
  <1>1. IsFiniteSet(those) /\ Cardinality(those) <= Cardinality(Mutants)
    BY HealAndScoreAssumption, FS_Subset
  <1>2. Cardinality(those) \in Nat /\ Cardinality(Mutants) \in Nat
    BY <1>1, HealAndScoreAssumption, FS_CardinalityType
  <1> QED
    BY <1>1, <1>2 DEF Count

LEMMA InitEstablishes == Init => IInv
  <1> SUFFICES ASSUME Init PROVE IInv
    OBVIOUS
  <1>1. Cardinality(Mutants) \in Nat
    BY HealAndScoreAssumption, FS_CardinalityType
  <1> QED
    BY <1>1
    DEF Init, NoCampaign, IInv, TypeOK, Untouched, AskedOnce, Scored,
        StoredResultIsOfStoredTests, Code, Statuses

\* The first result and coverage are of the generated tests.
LEMMA RunPipelineSandboxPreserves ==
    ASSUME IInv, RunPipelineSandbox
    PROVE  IInv'
  <1>a. /\ pc = "pipeline" /\ pc' \in {"heal", "score"}
        /\ UNCHANGED <<settings, initial, candidate, campaign, asked, unrun>>
    BY DEF RunPipelineSandbox
  <1>b. \/ row' = row
        \/ \E e \in Exit, coverage \in {"generated", None} :
               row' = [row EXCEPT !.exit = e, !.result_of = "generated",
                                  !.coverage_of = coverage]
    BY SandboxResponds DEF RunPipelineSandbox, Response
  <1>1. TypeOK'
    BY <1>a, <1>b, ZenonT(60)
    DEF IInv, TypeOK, Untouched, AskedOnce, Scored, StoredResultIsOfStoredTests, Code
  <1>2. Untouched'
    BY <1>a, <1>b
    DEF IInv, TypeOK, Untouched, AskedOnce, Scored, StoredResultIsOfStoredTests, Code
  <1>3. AskedOnce'
    BY <1>a, <1>b
    DEF IInv, TypeOK, Untouched, AskedOnce, Scored, StoredResultIsOfStoredTests, Code
  <1>4. Scored'
    BY <1>a, <1>b
    DEF IInv, TypeOK, Untouched, AskedOnce, Scored, StoredResultIsOfStoredTests, Code
  <1>5. StoredResultIsOfStoredTests'
    <2>1. row.code = "generated" /\ row.repair_success = FALSE /\ asked = 0
      BY <1>a DEF IInv, TypeOK, Untouched, AskedOnce
    <2>2. /\ row'.code = "generated" /\ row'.repair_success = FALSE
          /\ row'.result_of \in {"generated", None}
      BY <1>b, <2>1 DEF IInv, TypeOK, StoredResultIsOfStoredTests
    <2> QED
      BY <1>a, <2>1, <2>2 DEF StoredResultIsOfStoredTests
  <1> QED
    BY <1>1, <1>2, <1>3, <1>4, <1>5 DEF IInv

\* Tests that need no repair keep their row, but for the failure's name.
LEMMA CheckInitialPreserves ==
    ASSUME IInv, CheckInitial
    PROVE  IInv'
  <1>a. /\ pc = "heal" /\ asked = 0
        /\ UNCHANGED <<settings, candidate, campaign, asked, unrun>>
    BY DEF CheckInitial, IInv, AskedOnce
  <1>b. PICK r \in SandboxRun :
            /\ initial' = r
            /\ IF r.exit \in {"passed", "unavailable"} \/ ~IsRepairable(r)
               THEN Unrepaired(r, FALSE)
               ELSE pc' = "repair" /\ UNCHANGED row
    BY DEF CheckInitial
  <1>c. r \in Response /\ Category(r) \in Shown \cup {"unknown"}
    BY SandboxResponds, CategoryIsKnown
  <1>d. \/ /\ pc' = "score"
           /\ \E f \in Shown \cup {"unknown", None} :
                  row' = [row EXCEPT !.repair_attempted = FALSE, !.repair_count = 0,
                                     !.failure = f]
        \/ pc' = "repair" /\ row' = row /\ Broken(r)
    BY <1>b, <1>c, RepairableIsBroken DEF Unrepaired
  <1>1. TypeOK'
    BY <1>a, <1>b, <1>c, <1>d, ZenonT(60)
    DEF IInv, TypeOK, Untouched, AskedOnce, Scored, StoredResultIsOfStoredTests, Code
  <1>2. Untouched'
    BY <1>a, <1>b, <1>c, <1>d
    DEF IInv, TypeOK, Untouched, AskedOnce, Scored, StoredResultIsOfStoredTests, Code
  <1>3. AskedOnce'
    BY <1>a, <1>b, <1>c, <1>d
    DEF IInv, TypeOK, Untouched, AskedOnce, Scored, StoredResultIsOfStoredTests, Code
  <1>4. Scored'
    BY <1>a, <1>b, <1>c, <1>d
    DEF IInv, TypeOK, Untouched, AskedOnce, Scored, StoredResultIsOfStoredTests, Code
  <1>5. StoredResultIsOfStoredTests'
    BY <1>a, <1>b, <1>c, <1>d
    DEF IInv, TypeOK, Untouched, AskedOnce, Scored, StoredResultIsOfStoredTests, Code
  <1> QED
    BY <1>1, <1>2, <1>3, <1>4, <1>5 DEF IInv

\* The row once a repair was asked for without one to store.
Attempted(n, f) == [row EXCEPT !.repair_attempted = TRUE, !.repair_count = n, !.failure = f]

LEMMA AttemptedIsRow ==
    ASSUME row \in RowType, NEW n \in 0..1, NEW f \in Shown \cup {"unknown", None}
    PROVE  Attempted(n, f) \in RowType
  BY DEF RowType, Attempted

\* The one question to the LLM is accounted for, or its answer still to be run.
LEMMA AskForRepairPreserves ==
    ASSUME IInv, AskForRepair
    PROVE  IInv'
  <1>a. /\ pc = "repair" /\ asked = 0 /\ initial \in Response
        /\ Category(initial) \in Shown \cup {"unknown"}
        /\ UNCHANGED <<settings, initial, campaign, unrun>>
    BY CategoryIsKnown DEF AskForRepair, IInv, AskedOnce
  <1>b. \/ /\ pc' = "score" /\ asked' \in 0..1 /\ candidate' = candidate
           /\ \E f \in Shown \cup {"unknown", None} : row' = Attempted(1, f)
        \/ /\ pc' = "rerun" /\ asked' = 1 /\ candidate' = "repaired" /\ row' = row
    <2>1. CASE /\ Unrepaired(initial, TRUE)
               /\ asked' \in {asked, asked + 1} /\ candidate' = candidate
      <3> DEFINE f == IF initial.exit \in {"passed", "unavailable"} THEN None
                      ELSE Category(initial)
      <3>1. row' = Attempted(1, f)
        BY <2>1 DEF Unrepaired, Attempted
      <3>2. f \in Shown \cup {"unknown", None}
        BY <1>a
      <3>3. pc' = "score" /\ asked' \in 0..1 /\ candidate' = candidate
        BY <1>a, <2>1 DEF Unrepaired
      <3> HIDE DEF f
      <3> QED
        BY <3>1, <3>2, <3>3
    <2>2. CASE /\ candidate' = "repaired" /\ asked' = asked + 1
               /\ pc' = "rerun" /\ UNCHANGED row
      BY <1>a, <2>2
    <2> QED
      BY <2>1, <2>2 DEF AskForRepair
  <1>1. TypeOK'
    <2>0. asked' \in 0..1 /\ pc' \in {"score", "rerun"}
      BY <1>b
    <2>1. settings' \in Settings /\ initial' \in Response \cup {None}
      BY <1>a DEF IInv, TypeOK
    <2>2. candidate' \in Code \cup {None}
      BY <1>b DEF IInv, TypeOK, Code
    <2>3. /\ DOMAIN campaign' \subseteq Mutants /\ unrun' \subseteq DOMAIN campaign'
          /\ \A m \in DOMAIN campaign' : campaign'[m] \in Statuses \cup {"UNTESTED"}
      BY <1>a DEF IInv, TypeOK
    <2>4. row' \in RowType
      <3>1. row \in RowType
        BY DEF IInv, TypeOK, RowType
      <3>2. CASE row' # row
        <4>1. PICK f \in Shown \cup {"unknown", None} : row' = Attempted(1, f)
          BY <1>b, <3>2
        <4>2. 1 \in 0..1
          OBVIOUS
        <4> QED
          BY <3>1, <4>1, <4>2, AttemptedIsRow
      <3> QED
        BY <3>1, <3>2
    <2> QED
      BY <2>0, <2>1, <2>2, <2>3, <2>4 DEF TypeOK, RowType
  <1>2. Untouched'
    BY <1>a, <1>b
    DEF IInv, TypeOK, Untouched, AskedOnce, Scored, StoredResultIsOfStoredTests, Code, Attempted
  <1>3. AskedOnce'
    BY <1>a, <1>b
    DEF IInv, TypeOK, Untouched, AskedOnce, Scored, StoredResultIsOfStoredTests, Code, Attempted
  <1>4. Scored'
    BY <1>a, <1>b
    DEF IInv, TypeOK, Untouched, AskedOnce, Scored, StoredResultIsOfStoredTests, Code, Attempted
  <1>5. StoredResultIsOfStoredTests'
    BY <1>a, <1>b
    DEF IInv, TypeOK, Untouched, AskedOnce, Scored, StoredResultIsOfStoredTests, Code, Attempted
  <1> QED
    BY <1>1, <1>2, <1>3, <1>4, <1>5 DEF IInv

\* The repaired tests are stored with their own result.
LEMMA RerunPreserves ==
    ASSUME IInv, Rerun
    PROVE  IInv'
  <1>a. /\ pc = "rerun" /\ asked = 1 /\ candidate = "repaired" /\ pc' = "score"
        /\ Category(initial) \in Shown \cup {"unknown"}
        /\ UNCHANGED <<settings, initial, candidate, campaign, asked, unrun>>
    BY CategoryIsKnown DEF Rerun, PersistRepair, IInv, AskedOnce
  <1>b. PICK e \in Exit :
            row' = [row EXCEPT !.code = "repaired", !.exit = e, !.result_of = "repaired",
                               !.repair_attempted = TRUE, !.repair_count = 1,
                               !.failure = Category(initial),
                               !.repair_success = e = "passed"]
    BY <1>a, SandboxResponds DEF Rerun, PersistRepair, RepairedRow, Response
  <1>1. TypeOK'
    BY <1>a, <1>b, ZenonT(60)
    DEF IInv, TypeOK, Untouched, AskedOnce, Scored, StoredResultIsOfStoredTests, Code
  <1>2. Untouched'
    BY <1>a, <1>b
    DEF IInv, TypeOK, Untouched, AskedOnce, Scored, StoredResultIsOfStoredTests, Code
  <1>3. AskedOnce'
    BY <1>a, <1>b
    DEF IInv, TypeOK, Untouched, AskedOnce, Scored, StoredResultIsOfStoredTests, Code
  <1>4. Scored'
    BY <1>a, <1>b
    DEF IInv, TypeOK, Untouched, AskedOnce, Scored, StoredResultIsOfStoredTests, Code
  <1>5. StoredResultIsOfStoredTests'
    BY <1>a, <1>b
    DEF IInv, TypeOK, Untouched, AskedOnce, Scored, StoredResultIsOfStoredTests, Code
  <1> QED
    BY <1>1, <1>2, <1>3, <1>4, <1>5 DEF IInv

\* A write that raises leaves the row of the generated tests.
LEMMA UpdateRaisesPreserves ==
    ASSUME IInv, UpdateRaises
    PROVE  IInv'
  <1>1. TypeOK'
    BY
    DEF UpdateRaises, IInv, TypeOK, Untouched, AskedOnce, Scored, StoredResultIsOfStoredTests, Code
  <1>2. Untouched'
    BY
    DEF UpdateRaises, IInv, TypeOK, Untouched, AskedOnce, Scored, StoredResultIsOfStoredTests, Code
  <1>3. AskedOnce'
    BY
    DEF UpdateRaises, IInv, TypeOK, Untouched, AskedOnce, Scored, StoredResultIsOfStoredTests, Code
  <1>4. Scored'
    BY
    DEF UpdateRaises, IInv, TypeOK, Untouched, AskedOnce, Scored, StoredResultIsOfStoredTests, Code
  <1>5. StoredResultIsOfStoredTests'
    BY
    DEF UpdateRaises, IInv, TypeOK, Untouched, AskedOnce, Scored, StoredResultIsOfStoredTests, Code
  <1> QED
    BY <1>1, <1>2, <1>3, <1>4, <1>5 DEF IInv

\* A campaign starts from nothing.
LEMMA StartQualityPreserves ==
    ASSUME IInv, StartQuality
    PROVE  IInv'
  <1>a. /\ pc = "score" /\ pc' \in {"done", "campaign"}
        /\ unrun = {} /\ DOMAIN campaign' \subseteq Mutants
        /\ \A m \in DOMAIN campaign' : campaign'[m] \in Statuses \cup {"UNTESTED"}
        /\ UNCHANGED <<settings, row, initial, candidate, asked, unrun>>
    <2>1. pc = "score" /\ unrun = {} /\ DOMAIN campaign = {}
      BY DEF StartQuality, IInv, Scored
    <2>2. CASE pc' = "done" /\ UNCHANGED campaign
      BY <2>1, <2>2 DEF StartQuality
    <2>3. CASE ~ (pc' = "done" /\ UNCHANGED campaign)
      <3>1. PICK ms \in SUBSET Mutants : campaign' = [m \in ms |-> "UNTESTED"] /\ pc' = "campaign"
        BY <2>3 DEF StartQuality
      <3> QED
        BY <2>1, <3>1 DEF StartQuality
    <2> QED
      BY <2>2, <2>3
  <1>1. TypeOK'
    BY <1>a
    DEF IInv, TypeOK, Untouched, AskedOnce, Scored, StoredResultIsOfStoredTests, Code
  <1>2. Untouched'
    BY <1>a
    DEF IInv, TypeOK, Untouched, AskedOnce, Scored, StoredResultIsOfStoredTests, Code
  <1>3. AskedOnce'
    BY <1>a
    DEF IInv, TypeOK, Untouched, AskedOnce, Scored, StoredResultIsOfStoredTests, Code
  <1>4. Scored'
    BY <1>a
    DEF IInv, TypeOK, Untouched, AskedOnce, Scored, StoredResultIsOfStoredTests, Code
  <1>5. StoredResultIsOfStoredTests'
    BY <1>a
    DEF IInv, TypeOK, Untouched, AskedOnce, Scored, StoredResultIsOfStoredTests, Code
  <1> QED
    BY <1>1, <1>2, <1>3, <1>4, <1>5 DEF IInv

\* Running a mutant touches the campaign alone.
LEMMA ExecuteMutantPreserves ==
    ASSUME IInv, NEW m \in Mutants, ExecuteMutant(m)
    PROVE  IInv'
  <1>a. /\ DOMAIN campaign' = DOMAIN campaign
        /\ \A k \in DOMAIN campaign : campaign'[k] \in Statuses \cup {"UNTESTED"}
        /\ unrun' \subseteq DOMAIN campaign
        /\ UNCHANGED <<settings, pc, row, initial, candidate, asked>>
    BY DEF ExecuteMutant, StatusOf, Statuses, IInv, TypeOK
  <1>1. TypeOK'
    BY <1>a
    DEF IInv, TypeOK, Untouched, AskedOnce, Scored, StoredResultIsOfStoredTests, Code
  <1>2. Untouched'
    BY <1>a
    DEF IInv, TypeOK, Untouched, AskedOnce, Scored, StoredResultIsOfStoredTests, Code
  <1>3. AskedOnce'
    BY <1>a
    DEF IInv, TypeOK, Untouched, AskedOnce, Scored, StoredResultIsOfStoredTests, Code
  <1>4. Scored'
    BY <1>a
    DEF IInv, TypeOK, Untouched, AskedOnce, Scored, StoredResultIsOfStoredTests, Code
  <1>5. StoredResultIsOfStoredTests'
    BY <1>a
    DEF IInv, TypeOK, Untouched, AskedOnce, Scored, StoredResultIsOfStoredTests, Code
  <1> QED
    BY <1>1, <1>2, <1>3, <1>4, <1>5 DEF IInv

\* The score is of the tests that are stored.
LEMMA PersistQualityPreserves ==
    ASSUME IInv, PersistQuality
    PROVE  IInv'
  <1>a. /\ pc = "campaign" /\ pc' = "done"
        /\ UNCHANGED <<settings, initial, candidate, campaign, asked, unrun>>
    BY DEF PersistQuality
  <1>b. \/ row' = row
        \/ \E f \in [Statuses -> 0..Cardinality(Mutants)] :
               row' = [row EXCEPT !.scored = row.code, !.mutation = f]
    <2>1. [s \in Statuses |-> Count(s)] \in [Statuses -> 0..Cardinality(Mutants)]
      BY CountIsBounded DEF IInv, TypeOK
    <2> QED
      BY <2>1 DEF PersistQuality
  <1>1. TypeOK'
    BY <1>a, <1>b, ZenonT(60)
    DEF IInv, TypeOK, Untouched, AskedOnce, Scored, StoredResultIsOfStoredTests, Code
  <1>2. Untouched'
    BY <1>a, <1>b
    DEF IInv, TypeOK, Untouched, AskedOnce, Scored, StoredResultIsOfStoredTests, Code
  <1>3. AskedOnce'
    BY <1>a, <1>b
    DEF IInv, TypeOK, Untouched, AskedOnce, Scored, StoredResultIsOfStoredTests, Code
  <1>4. Scored'
    BY <1>a, <1>b
    DEF IInv, TypeOK, Untouched, AskedOnce, Scored, StoredResultIsOfStoredTests, Code
  <1>5. StoredResultIsOfStoredTests'
    BY <1>a, <1>b, ZenonT(60)
    DEF IInv, TypeOK, Untouched, AskedOnce, Scored, StoredResultIsOfStoredTests, Code
  <1> QED
    BY <1>1, <1>2, <1>3, <1>4, <1>5 DEF IInv

LEMMA NextPreserves == IInv /\ [Next]_vars => IInv'
  <1> SUFFICES ASSUME IInv, [Next]_vars PROVE IInv'
    OBVIOUS
  <1>1. CASE Work
    BY <1>1, RunPipelineSandboxPreserves, CheckInitialPreserves, AskForRepairPreserves,
       RerunPreserves, UpdateRaisesPreserves, StartQualityPreserves,
       ExecuteMutantPreserves, PersistQualityPreserves DEF Work
  <1>2. CASE UNCHANGED vars
    BY <1>2 DEF vars, IInv, TypeOK, Untouched, AskedOnce, Scored, StoredResultIsOfStoredTests
  <1> QED
    BY <1>1, <1>2 DEF Next, Done

\* The strengthened invariant holds in every state of every behaviour.
THEOREM Invariant == Spec => []IInv
  BY InitEstablishes, NextPreserves, PTL DEF Spec
-----------------------------------------------------------------------------
\* Every variable keeps its type, however many mutants there are.
THEOREM TypeCorrect == Spec => []TypeOK
  <1>1. IInv => TypeOK
    BY DEF IInv
  <1> QED
    BY <1>1, Invariant, PTL

\* The row's result is always of the tests beside it, and a repair that was
\* asked for is accounted for (job_engine.py, _self_heal).
THEOREM ResultsAreOfTheTests == Spec => []StoredResultIsOfStoredTests
  <1>1. IInv => StoredResultIsOfStoredTests
    BY DEF IInv
  <1> QED
    BY <1>1, Invariant, PTL

\* The LLM is asked once at most, and only about code that is broken
\* (job_engine.py, _self_heal; failure_classifier.py).
THEOREM RepairsAreWarranted == Spec => RepairsOnlyBrokenCode
  <1>1. ASSUME IInv, [Next]_vars
        PROVE  [asked' # asked =>
                   /\ asked = 0
                   /\ initial.ran /\ initial.exit \notin {"passed", "unavailable"}
                   /\ "infrastructure" \notin initial.shows
                   /\ initial.shows \cap {"invocation", "syntax"} # {}]_vars
    <2> SUFFICES ASSUME asked' # asked PROVE asked = 0 /\ Broken(initial)
      BY DEF Broken
    <2>1. pc = "repair"
      BY <1>1
      DEF Next, Done, Work, vars, RunPipelineSandbox, CheckInitial, AskForRepair, Rerun,
          UpdateRaises, StartQuality, ExecuteMutant, PersistQuality
    <2> QED
      BY <1>1, <2>1 DEF IInv, AskedOnce
  <1> QED
    BY <1>1, Invariant, PTL DEF Spec, RepairsOnlyBrokenCode
-----------------------------------------------------------------------------
\* The metrics of a scored row add up, and mutants are run where they may be.
Measured ==
    /\ row.scored # None => SumFunction(row.mutation) = Cardinality(DOMAIN campaign)
    /\ campaign # NoCampaign => settings.mutation /\ settings.sandbox

\* A finished campaign counts every mutant once (docker_executor.py, the summary).
LEMMA CampaignIsCounted ==
    ASSUME TypeOK, \A m \in DOMAIN campaign : campaign[m] # "UNTESTED"
    PROVE  SumFunction([s \in Statuses |-> Count(s)]) = Cardinality(DOMAIN campaign)
  <1> DEFINE D == DOMAIN campaign
             f == [m \in D |-> campaign[m]]
  <1>1. IsFiniteSet(D)
    BY HealAndScoreAssumption, FS_Subset DEF TypeOK
  <1>2. IsFiniteSet(Statuses)
    <2>1. /\ Statuses = (({"SURVIVED"} \cup {"TIMEOUT"}) \cup {"ERROR"}) \cup {"KILLED"}
          /\ IsFiniteSet({"SURVIVED"})
      BY FS_Singleton DEF Statuses
    <2>2. IsFiniteSet({"SURVIVED"} \cup {"TIMEOUT"})
      BY <2>1, FS_AddElement
    <2>3. IsFiniteSet(({"SURVIVED"} \cup {"TIMEOUT"}) \cup {"ERROR"})
      BY <2>2, FS_AddElement
    <2> QED
      BY <2>1, <2>3, FS_AddElement
  <1>3. f \in [D -> Statuses]
    BY DEF TypeOK
  <1>4. \A v \in Statuses : Count(v) = Cardinality({m \in D : f[m] = v})
    <2> SUFFICES ASSUME NEW v \in Statuses
                 PROVE  Count(v) = Cardinality({m \in D : f[m] = v})
      OBVIOUS
    <2>1. {m \in D : f[m] = v} = {m \in D : campaign[m] = v}
      OBVIOUS
    <2> QED
      BY <2>1 DEF Count
  <1>5. [v \in Statuses |-> Count(v)] = [v \in Statuses |-> Cardinality({m \in D : f[m] = v})]
    BY <1>4
  <1> HIDE DEF D, f
  <1>6. SumFunction([v \in Statuses |-> Cardinality({m \in D : f[m] = v})]) = Cardinality(D)
    BY <1>1, <1>2, <1>3, SumFunctionCounts
  <1> QED
    BY <1>5, <1>6 DEF D

\* Only the quality step writes metrics, and only it starts a campaign.
LEMMA MeasuredStays ==
    ASSUME IInv, Measured, [Next]_vars
    PROVE  Measured'
  <1>t. TypeOK /\ (pc # "done" => row.scored = None)
    BY DEF IInv, Scored
  <1>1. ASSUME UNCHANGED <<campaign, settings>>, row'.scored = row.scored,
               row'.mutation = row.mutation
        PROVE  Measured'
    BY <1>1 DEF Measured
  <1>2. CASE RunPipelineSandbox
    <2>1. UNCHANGED <<campaign, settings>> /\ row'.scored = row.scored
          /\ row'.mutation = row.mutation
      BY <1>2, <1>t DEF RunPipelineSandbox, TypeOK
    <2> QED
      BY <1>1, <2>1
  <1>3. ASSUME NEW result, NEW attempted, Unrepaired(result, attempted)
        PROVE  row'.scored = row.scored /\ row'.mutation = row.mutation
    BY <1>3, <1>t DEF Unrepaired, TypeOK
  <1>4. CASE CheckInitial
    <2>1. UNCHANGED <<campaign, settings>> /\ row'.scored = row.scored
          /\ row'.mutation = row.mutation
      BY <1>3, <1>4 DEF CheckInitial
    <2> QED
      BY <1>1, <2>1
  <1>5. CASE AskForRepair
    <2>1. UNCHANGED <<campaign, settings>> /\ row'.scored = row.scored
          /\ row'.mutation = row.mutation
      BY <1>3, <1>5 DEF AskForRepair
    <2> QED
      BY <1>1, <2>1
  <1>6. CASE Rerun
    <2>a. PICK result \in SandboxRun : row' = RepairedRow(result)
      BY <1>6 DEF Rerun, PersistRepair
    <2>b. UNCHANGED <<campaign, settings>>
      BY <1>6 DEF Rerun
    <2>1. row'.scored = row.scored /\ row'.mutation = row.mutation
      BY <2>a, <1>t DEF RepairedRow, TypeOK
    <2> QED
      BY <1>1, <2>b, <2>1
  <1>7. CASE UpdateRaises \/ UNCHANGED vars
    BY <1>1, <1>7 DEF UpdateRaises, vars
  <1>8. CASE StartQuality
    <2>1. row' = row /\ settings' = settings /\ row.scored = None
      BY <1>8, <1>t DEF StartQuality
    <2>2. campaign' = campaign \/ campaign' = NoCampaign
          \/ (settings.mutation /\ settings.sandbox)
      BY <1>8 DEF StartQuality, NoCampaign
    <2> QED
      BY <2>1, <2>2 DEF Measured
  <1>9. ASSUME NEW m \in Mutants, ExecuteMutant(m)
        PROVE  Measured'
    <2>1. row' = row /\ settings' = settings /\ row.scored = None
      BY <1>9, <1>t DEF ExecuteMutant
    <2>2. campaign # NoCampaign
      BY <1>9 DEF ExecuteMutant, NoCampaign
    <2> QED
      BY <2>1, <2>2 DEF Measured
  <1>10. CASE PersistQuality
    <2>1. CASE row' = [row EXCEPT !.scored = row.code,
                                  !.mutation = [s \in Statuses |-> Count(s)]]
      <3>1. row'.mutation = [s \in Statuses |-> Count(s)]
        BY <1>t, <2>1 DEF TypeOK
      <3>2. SumFunction(row'.mutation) = Cardinality(DOMAIN campaign)
        BY <1>10, <1>t, <3>1, CampaignIsCounted DEF PersistQuality
      <3> QED
        BY <1>10, <3>2 DEF PersistQuality, Measured
    <2>2. CASE row' = row
      BY <1>1, <1>10, <2>2 DEF PersistQuality
    <2> QED
      BY <1>10, <2>1, <2>2 DEF PersistQuality
  <1> QED
    BY <1>2, <1>4, <1>5, <1>6, <1>7, <1>8, <1>9, <1>10 DEF Next, Done, Work

\* The metrics of a scored row are of the tests that are stored, and count every
\* mutant of the campaign once (quality_pipeline.py; docker_executor.py).
THEOREM QualityIsOfTheTests == Spec => []QualityIsOfStoredTests
  <1>1. Init => Measured
    BY DEF Init, Measured
  <1>2. IInv /\ Measured /\ [Next]_vars => Measured'
    BY MeasuredStays
  <1>3. IInv /\ Measured => QualityIsOfStoredTests
    BY DEF IInv, Scored, Measured, QualityIsOfStoredTests
  <1> QED
    BY <1>1, <1>2, <1>3, Invariant, PTL DEF Spec
=============================================================================
