--------------------------------- MODULE Sums ---------------------------------
(***************************************************************************)
(* What the sums of the community modules are (SumFunction(),              *)
(* MapThenSumSet()), for every finite set: the facts about them that the   *)
(* proofs about counters need.  Nothing here is about the program.         *)
(*                                                                         *)
(* The library's induction theorems cannot be used, because they take an   *)
(* operator as a parameter.  Induction is over a set of good sets instead: *)
(* among the subsets that are not good one would be minimal.               *)
(***************************************************************************)
EXTENDS Naturals, FiniteSetsExt, Functions, FiniteSetTheorems, WellFoundedInduction, TLAPS

\* The element a fold takes first.
Pick(s) == CHOOSE x \in s : TRUE

\* h gives the sum of g over each subset of S, the way a fold computes it.
IsSumOf(h, g, S) ==
    h = [s \in SUBSET S |-> IF s = {} THEN 0 ELSE g[Pick(s)] + h[s \ {Pick(s)}]]

LEMMA PickIsElement ==
    ASSUME NEW s, s # {}
    PROVE  Pick(s) \in s
  BY DEF Pick

\* Induction over the subsets of a finite set.
LEMMA SetInduction ==
    ASSUME NEW S, IsFiniteSet(S), NEW Good, {} \in Good,
           \A s \in SUBSET S : s # {} /\ s \ {Pick(s)} \in Good => s \in Good
    PROVE  SUBSET S \subseteq Good
  <1> DEFINE Bad == (SUBSET S) \ Good
  <1>1. SUFFICES ASSUME Bad # {} PROVE FALSE
    OBVIOUS
  <1>2. FiniteSubsetsOf(S) = SUBSET S
    BY FS_FiniteSubsetsOfFinite
  <1>3. IsWellFoundedOn(StrictSubsetOrdering(S), SUBSET S)
    BY <1>2, FS_StrictSubsetOrderingWellFounded
  <1>4. PICK s \in Bad : \A t \in Bad : <<t, s>> \notin StrictSubsetOrdering(S)
    <2> HIDE DEF Bad
    <2>1. Bad \subseteq SUBSET S
      BY DEF Bad
    <2> QED
      BY <1>1, <1>3, <2>1, WFMin
  <1>5. s \in SUBSET S /\ s # {} /\ s \notin Good
    BY <1>4
  <1>6. Pick(s) \in s
    BY <1>5, PickIsElement
  <1>7. s \ {Pick(s)} \in SUBSET S /\ s \ {Pick(s)} # s
    BY <1>5, <1>6
  <1>8. s \ {Pick(s)} \in Bad
    BY <1>5, <1>7
  <1>9. <<s \ {Pick(s)}, s>> \in StrictSubsetOrdering(S)
    BY <1>5, <1>6, <1>7 DEF StrictSubsetOrdering
  <1> QED
    BY <1>4, <1>8, <1>9

\* There is such a sum.
LEMMA SumExists ==
    ASSUME NEW S, IsFiniteSet(S), NEW g \in [S -> Nat]
    PROVE  \E h : IsSumOf(h, g, S)
  <1> DEFINE Step(h, s) == IF s = {} THEN 0 ELSE g[Pick(s)] + h[s \ {Pick(s)}]
             \* h is a sum as far as the subsets of n elements.
             UpTo(n) == \E h \in [SUBSET S -> Nat] :
                            \A s \in SUBSET S : Cardinality(s) <= n => h[s] = Step(h, s)
             Bad == {n \in Nat : ~UpTo(n)}
             Less == {ss \in Nat \X Nat : ss[1] < ss[2]}
  <1>a. \A s \in SUBSET S : s # {} => Pick(s) \in s /\ Pick(s) \in S /\ s \ {Pick(s)} \in SUBSET S
    BY PickIsElement
  <1>b. \A s \in SUBSET S : Cardinality(s) \in Nat
    BY FS_Subset, FS_CardinalityType
  <1>c. \A s \in SUBSET S : s # {} => Cardinality(s \ {Pick(s)}) = Cardinality(s) - 1
    BY <1>a, FS_Subset, FS_RemoveElement
  <1>d. \A h \in [SUBSET S -> Nat], s \in SUBSET S : Step(h, s) \in Nat
    BY <1>a
  <1>1. UpTo(0)
    <2> DEFINE h == [s \in SUBSET S |-> 0]
    <2>1. \A s \in SUBSET S : Cardinality(s) <= 0 => s = {}
      BY <1>b, FS_Subset, FS_EmptySet
    <2>2. \A s \in SUBSET S : Cardinality(s) <= 0 => h[s] = Step(h, s)
      BY <2>1
    <2>3. h \in [SUBSET S -> Nat]
      OBVIOUS
    <2> HIDE DEF h, Step
    <2> QED
      BY <2>2, <2>3
  <1>2. ASSUME NEW n \in Nat, UpTo(n)
        PROVE  UpTo(n + 1)
    <2>1. PICK h \in [SUBSET S -> Nat] :
              \A s \in SUBSET S : Cardinality(s) <= n => h[s] = Step(h, s)
      BY <1>2
    <2> DEFINE k == [s \in SUBSET S |-> Step(h, s)]
    <2>2. k \in [SUBSET S -> Nat]
      BY <1>d
    <2>3. ASSUME NEW s \in SUBSET S, Cardinality(s) <= n + 1
          PROVE  Step(h, s) = Step(k, s)
      <3>1. CASE s = {}
        BY <3>1
      <3>2. CASE s # {}
        <4> DEFINE t == s \ {Pick(s)}
        <4>1. t \in SUBSET S /\ Cardinality(t) <= n
          BY <1>a, <1>b, <1>c, <2>3, <3>2
        <4>2. h[t] = Step(h, t)
          BY <2>1, <4>1
        <4>3. k[t] = h[t]
          BY <4>1, <4>2
        <4> QED
          BY <3>2, <4>3
      <3> QED
        BY <3>1, <3>2
    <2>4. \A s \in SUBSET S : Cardinality(s) <= n + 1 => k[s] = Step(k, s)
      BY <2>3
    <2> HIDE DEF k, Step
    <2> QED
      BY <2>2, <2>4
  <1>3. \A n \in Nat : UpTo(n)
    <2>1. SUFFICES ASSUME Bad # {} PROVE FALSE
      OBVIOUS
    <2>2. Bad \subseteq Nat
      OBVIOUS
    <2>3. IsWellFoundedOn(Less, Nat)
      BY NatLessThanWellFounded DEF OpToRel
    <2>4. PICK m \in Bad : \A i \in Bad : <<i, m>> \notin Less
      <3> HIDE DEF Bad, Less
      <3> QED
        BY <2>1, <2>2, <2>3, WFMin
    <2> HIDE DEF UpTo
    <2>5. m \in Nat /\ m # 0 /\ ~UpTo(m)
      BY <1>1
    <2>6. m - 1 \in Nat /\ <<m - 1, m>> \in Less /\ (m - 1) + 1 = m
      BY <2>5
    <2>7. UpTo(m - 1)
      BY <2>4, <2>6
    <2> QED
      BY <1>2, <2>5, <2>6, <2>7
  <1>4. PICK h \in [SUBSET S -> Nat] :
            \A s \in SUBSET S : Cardinality(s) <= Cardinality(S) => h[s] = Step(h, s)
    <2>1. UpTo(Cardinality(S))
      BY <1>3, FS_CardinalityType
    <2> QED
      BY <2>1
  <1>5. \A s \in SUBSET S : h[s] = Step(h, s)
    BY <1>4, FS_Subset
  <1>6. h = [s \in SUBSET S |-> Step(h, s)]
    <2> HIDE DEF Step
    <2> QED
      BY <1>5
  <1>7. IsSumOf(h, g, S)
    BY <1>6 DEF IsSumOf
  <1> QED
    BY <1>7

\* A fold takes one element, and sums the others.
LEMMA SumTakesOne ==
    ASSUME NEW S, NEW g, NEW h, IsSumOf(h, g, S), NEW s \in SUBSET S, s # {}
    PROVE  /\ Pick(s) \in s /\ Pick(s) \in S /\ s \ {Pick(s)} \in SUBSET S
           /\ h[s] = g[Pick(s)] + h[s \ {Pick(s)}]
  <1>1. Pick(s) \in s
    BY PickIsElement
  <1>2. \A t \in SUBSET S : h[t] = IF t = {} THEN 0 ELSE g[Pick(t)] + h[t \ {Pick(t)}]
    BY DEF IsSumOf
  <1> QED
    BY <1>1, <1>2

\* The sum of naturals over a subset is a natural.
LEMMA SumIsNatural ==
    ASSUME NEW S, IsFiniteSet(S), NEW g \in [S -> Nat], NEW h, IsSumOf(h, g, S)
    PROVE  h \in [SUBSET S -> Nat] /\ h[{}] = 0
  <1> DEFINE Good == {s \in SUBSET S : h[s] \in Nat}
  <1>1. h[{}] = 0
    BY DEF IsSumOf
  <1>2. SUBSET S \subseteq Good
    <2>1. {} \in Good
      BY <1>1
    <2>2. \A s \in SUBSET S : s # {} /\ s \ {Pick(s)} \in Good => s \in Good
      BY SumTakesOne
    <2> HIDE DEF Good
    <2> QED
      BY <2>1, <2>2, SetInduction
  <1>3. h = [s \in SUBSET S |-> h[s]]
    BY DEF IsSumOf
  <1> QED
    BY <1>1, <1>2, <1>3

\* There is only one.
LEMMA SumIsUnique ==
    ASSUME NEW S, IsFiniteSet(S), NEW g \in [S -> Nat],
           NEW h, IsSumOf(h, g, S), NEW k, IsSumOf(k, g, S)
    PROVE  h[S] = k[S]
  <1> DEFINE Good == {s \in SUBSET S : h[s] = k[s]}
  <1>1. {} \in Good
    BY DEF IsSumOf
  <1>2. \A s \in SUBSET S : s # {} /\ s \ {Pick(s)} \in Good => s \in Good
    BY SumTakesOne
  <1>3. S \in Good
    <2> HIDE DEF Good
    <2> QED
      BY <1>1, <1>2, SetInduction
  <1> QED
    BY <1>3

Total(g, S) == (CHOOSE h : IsSumOf(h, g, S))[S]

LEMMA TotalIsSum ==
    ASSUME NEW S, IsFiniteSet(S), NEW g \in [S -> Nat], NEW h, IsSumOf(h, g, S)
    PROVE  h[S] = Total(g, S) /\ h[S] \in Nat
  <1> DEFINE k == CHOOSE k : IsSumOf(k, g, S)
  <1>1. IsSumOf(k, g, S)
    OBVIOUS
  <1>2. k[S] = Total(g, S)
    BY DEF Total
  <1> HIDE DEF k
  <1>3. h[S] = k[S]
    BY <1>1, SumIsUnique
  <1>4. h \in [SUBSET S -> Nat]
    BY SumIsNatural
  <1> QED
    BY <1>2, <1>3, <1>4

\* The summands are the same, but for one.
SameBut(g, g2, S, x) == \A y \in S : y # x => g2[y] = g[y]

\* A total changes by what one of its summands changes.
LEMMA TotalChanges ==
    ASSUME NEW S, IsFiniteSet(S), NEW x \in S,
           NEW g \in [S -> Nat], NEW g2 \in [S -> Nat], SameBut(g, g2, S, x)
    PROVE  Total(g2, S) + g[x] = Total(g, S) + g2[x]
  <1>a. \A y \in S : y # x => g2[y] = g[y]
    BY DEF SameBut
  <1>b. PICK h : IsSumOf(h, g, S)
    BY SumExists
  <1>c. PICK h2 : IsSumOf(h2, g2, S)
    BY <1>a, SumExists
  <1>d. h[S] = Total(g, S) /\ h2[S] = Total(g2, S)
    BY <1>a, <1>b, <1>c, TotalIsSum
  <1> DEFINE Good == {s \in SUBSET S : IF x \in s THEN h2[s] + g[x] = h[s] + g2[x]
                                                  ELSE h2[s] = h[s]}
  <1>1. /\ h \in [SUBSET S -> Nat] /\ h[{}] = 0
    BY <1>b, SumIsNatural
  <1>e. h2 \in [SUBSET S -> Nat] /\ h2[{}] = 0
    BY <1>a, <1>c, SumIsNatural
  <1>2. {} \in Good
    BY <1>1, <1>e
  <1>3. ASSUME NEW s \in SUBSET S, s # {}, s \ {Pick(s)} \in Good
        PROVE  s \in Good
    <2> DEFINE p == Pick(s)
               t == s \ {p}
    <2>1. /\ p \in s /\ p \in S /\ t \in SUBSET S
          /\ h[s] = g[p] + h[t]
      BY <1>3, <1>b, SumTakesOne
    <2>2. h2[s] = g2[p] + h2[t]
      BY <1>3, <1>c, SumTakesOne
    <2>3. t \in Good
      BY <1>3
    <2> HIDE DEF p
    <2>4. /\ g[p] \in Nat /\ g2[p] \in Nat /\ g[x] \in Nat /\ g2[x] \in Nat
          /\ h[t] \in Nat /\ h2[t] \in Nat /\ h[s] \in Nat /\ h2[s] \in Nat
      BY <1>1, <1>a, <1>e, <2>1
    <2>5. CASE p = x
      <3>1. x \in s /\ x \notin t
        BY <2>1, <2>5
      <3>2. h2[t] = h[t]
        BY <2>3, <3>1
      <3>3. h2[s] + g[x] = h[s] + g2[x]
        BY <2>1, <2>2, <2>4, <2>5, <3>2
      <3> QED
        BY <3>1, <3>3
    <2>6. CASE p # x /\ x \in s
      <3>1. x \in t /\ g2[p] = g[p]
        BY <1>a, <2>1, <2>6
      <3>2. h2[t] + g[x] = h[t] + g2[x]
        BY <2>3, <3>1
      <3>3. h2[s] + g[x] = h[s] + g2[x]
        BY <2>1, <2>2, <2>4, <3>1, <3>2
      <3> QED
        BY <2>6, <3>3
    <2>7. CASE p # x /\ x \notin s
      <3>1. x \notin t /\ g2[p] = g[p]
        BY <1>a, <2>1, <2>7
      <3>2. h2[t] = h[t]
        BY <2>3, <3>1
      <3> QED
        BY <2>1, <2>2, <2>7, <3>1, <3>2
    <2> QED
      BY <2>5, <2>6, <2>7
  <1>4. S \in Good
    <2> HIDE DEF Good
    <2> QED
      BY <1>2, <1>3, SetInduction
  <1> QED
    BY <1>4, <1>a, <1>d

\* A total of n summands none of which exceeds k is n * k at most.
LEMMA TotalIsBounded ==
    ASSUME NEW S, IsFiniteSet(S), NEW k \in Nat, NEW g \in [S -> 0..k]
    PROVE  Total(g, S) \in Nat /\ Total(g, S) <= Cardinality(S) * k
  <1>a. g \in [S -> Nat] /\ \A x \in S : g[x] <= k
    OBVIOUS
  <1>b. PICK h : IsSumOf(h, g, S)
    BY <1>a, SumExists
  <1> DEFINE Good == {s \in SUBSET S : h[s] <= Cardinality(s) * k}
  <1>1. h \in [SUBSET S -> Nat] /\ h[{}] = 0
    BY <1>a, <1>b, SumIsNatural
  <1>2. {} \in Good
    BY <1>1, FS_EmptySet
  <1>3. ASSUME NEW s \in SUBSET S, s # {}, s \ {Pick(s)} \in Good
        PROVE  s \in Good
    <2> DEFINE p == Pick(s)
               t == s \ {p}
    <2>1. p \in s /\ p \in S /\ t \in SUBSET S /\ h[s] = g[p] + h[t]
      BY <1>3, <1>b, SumTakesOne
    <2>2. IsFiniteSet(s) /\ IsFiniteSet(t)
      BY <2>1, FS_Subset
    <2>3. t \in Good
      BY <1>3
    <2> HIDE DEF p
    <2>4. Cardinality(s) = Cardinality(t) + 1 /\ Cardinality(t) \in Nat
      <3>1. Cardinality(s) \in Nat /\ Cardinality(t) \in Nat
        BY <2>2, FS_CardinalityType
      <3>2. Cardinality(t) = Cardinality(s) - 1
        BY <2>1, <2>2, FS_RemoveElement
      <3> QED
        BY <3>1, <3>2
    <2>5. g[p] \in Nat /\ g[p] <= k /\ h[t] \in Nat /\ h[t] <= Cardinality(t) * k
      BY <1>a, <1>1, <2>1, <2>3
    <2>6. (Cardinality(t) + 1) * k = Cardinality(t) * k + k /\ Cardinality(t) * k \in Nat
      BY <2>4
    <2>7. h[s] <= Cardinality(s) * k
      BY <2>1, <2>4, <2>5, <2>6
    <2> QED
      BY <2>7
  <1>4. S \in Good
    <2> HIDE DEF Good
    <2> QED
      BY <1>2, <1>3, SetInduction
  <1> QED
    BY <1>4, <1>a, <1>b, TotalIsSum

\* Counting the elements of a set by their kind misses none, and counts none twice.
LEMMA TotalOfKinds ==
    ASSUME NEW D, IsFiniteSet(D), NEW R, IsFiniteSet(R), NEW f \in [D -> R],
           NEW g, g = [v \in R |-> Cardinality({d \in D : f[d] = v})]
    PROVE  g \in [R -> Nat] /\ Total(g, R) = Cardinality(D)
  <1>0. g \in [R -> Nat]
    <2>1. \A v \in R : Cardinality({d \in D : f[d] = v}) \in Nat
      <3> SUFFICES ASSUME NEW v \in R PROVE Cardinality({d \in D : f[d] = v}) \in Nat
        OBVIOUS
      <3>1. {d \in D : f[d] = v} \in SUBSET D
        OBVIOUS
      <3> QED
        BY <3>1, FS_Subset, FS_CardinalityType
    <2> QED
      BY <2>1
  <1>b. PICK h : IsSumOf(h, g, R)
    BY <1>0, SumExists
  <1> DEFINE Of(s) == {d \in D : f[d] \in s}
             Good == {s \in SUBSET R : h[s] = Cardinality(Of(s))}
  <1>1. h \in [SUBSET R -> Nat] /\ h[{}] = 0
    BY <1>0, <1>b, SumIsNatural
  <1>2. {} \in Good
    <2>1. Of({}) = {}
      OBVIOUS
    <2> QED
      BY <1>1, <2>1, FS_EmptySet
  <1>3. ASSUME NEW s \in SUBSET R, s # {}, s \ {Pick(s)} \in Good
        PROVE  s \in Good
    <2> DEFINE p == Pick(s)
               t == s \ {p}
               Those == {d \in D : f[d] = p}
    <2>1. p \in s /\ p \in R /\ t \in SUBSET R /\ h[s] = g[p] + h[t]
      BY <1>0, <1>b, <1>3, SumTakesOne
    <2>2. h[t] = Cardinality(Of(t))
      BY <1>3
    <2> HIDE DEF p
    <2>3. Of(s) = Those \cup Of(t) /\ Those \cap Of(t) = {}
      BY <2>1
    <2>4. Those \in SUBSET D /\ Of(t) \in SUBSET D
      OBVIOUS
    <2>5. IsFiniteSet(Those) /\ IsFiniteSet(Of(t))
      BY <2>4, FS_Subset
    <2>6. Cardinality(Of(s)) = Cardinality(Those) + Cardinality(Of(t)) - Cardinality({})
      BY <2>3, <2>5, FS_Union
    <2>7. Cardinality(Those) \in Nat /\ Cardinality(Of(t)) \in Nat /\ Cardinality({}) = 0
      BY <2>5, FS_CardinalityType, FS_EmptySet
    <2>8. g[p] = Cardinality(Those)
      BY <2>1
    <2>9. h[s] = Cardinality(Of(s))
      BY <2>1, <2>2, <2>6, <2>7, <2>8
    <2> QED
      BY <2>9
  <1>4. R \in Good
    <2> HIDE DEF Good
    <2> QED
      BY <1>2, <1>3, SetInduction
  <1>5. Of(R) = D
    OBVIOUS
  <1> QED
    BY <1>0, <1>b, <1>4, <1>5, TotalIsSum

\* It does not matter which element is taken first.
LEMMA SumTakesAny ==
    ASSUME NEW S, IsFiniteSet(S), NEW g \in [S -> Nat], NEW h, IsSumOf(h, g, S),
           NEW s \in SUBSET S, NEW x \in s
    PROVE  h[s] = g[x] + h[s \ {x}]
  <1> DEFINE Good == {t \in SUBSET S : \A y \in t : h[t] = g[y] + h[t \ {y}]}
             Bad == (SUBSET S) \ Good
  <1>1. h \in [SUBSET S -> Nat]
    BY SumIsNatural
  <1>2. ASSUME Bad # {} PROVE FALSE
    <2>1. FiniteSubsetsOf(S) = SUBSET S
      BY FS_FiniteSubsetsOfFinite
    <2>2. IsWellFoundedOn(StrictSubsetOrdering(S), SUBSET S)
      BY <2>1, FS_StrictSubsetOrderingWellFounded
    <2>3. PICK t \in Bad : \A u \in Bad : <<u, t>> \notin StrictSubsetOrdering(S)
      <3> HIDE DEF Bad
      <3>1. Bad \subseteq SUBSET S
        BY DEF Bad
      <3> QED
        BY <1>2, <2>2, <3>1, WFMin
    <2>4. t \in SUBSET S /\ t \notin Good
      OBVIOUS
    <2>5. PICK y \in t : h[t] # g[y] + h[t \ {y}]
      BY <2>4
    <2> DEFINE p == Pick(t)
    <2>6. p \in t /\ p \in S /\ h[t] = g[p] + h[t \ {p}]
      BY <2>4, <2>5, SumTakesOne
    <2> HIDE DEF p
    <2>7. p # y
      BY <2>5, <2>6
    <2>8. ASSUME NEW z \in t PROVE t \ {z} \in Good
      <3>1. t \ {z} \in SUBSET S /\ <<t \ {z}, t>> \in StrictSubsetOrdering(S)
        BY <2>4 DEF StrictSubsetOrdering
      <3>2. t \ {z} \notin Bad
        BY <2>3, <3>1
      <3> QED
        BY <3>1, <3>2
    <2> DEFINE r == (t \ {p}) \ {y}
    <2>9. r = (t \ {y}) \ {p} /\ r \in SUBSET S /\ t \ {y} \in SUBSET S /\ t \ {p} \in SUBSET S
      BY <2>4
    <2>10. h[t \ {p}] = g[y] + h[r]
      BY <2>6, <2>7, <2>8
    <2>11. h[t \ {y}] = g[p] + h[r]
      BY <2>6, <2>7, <2>8, <2>9
    <2> HIDE DEF r, Bad, Good
    <2>12. g[p] \in Nat /\ g[y] \in Nat /\ h[r] \in Nat
      BY <1>1, <2>4, <2>6, <2>9
    <2>13. h[t] = g[y] + h[t \ {y}]
      BY <2>6, <2>10, <2>11, <2>12
    <2> QED
      BY <2>5, <2>13
  <1> QED
    BY <1>2

\* The sum over a part is that of the function on the part.
LEMMA TotalOfPart ==
    ASSUME NEW S, IsFiniteSet(S), NEW g \in [S -> Nat], NEW h, IsSumOf(h, g, S),
           NEW T \in SUBSET S
    PROVE  Total([x \in T |-> g[x]], T) = h[T]
  <1> DEFINE f == [x \in T |-> g[x]]
             k == [s \in SUBSET T |-> h[s]]
  <1>1. IsFiniteSet(T) /\ f \in [T -> Nat]
    BY FS_Subset
  <1>2. ASSUME NEW s \in SUBSET T
        PROVE  k[s] = IF s = {} THEN 0 ELSE f[Pick(s)] + k[s \ {Pick(s)}]
    <2>1. CASE s = {}
      BY <2>1, SumIsNatural
    <2>2. CASE s # {}
      <3>1. /\ Pick(s) \in s /\ Pick(s) \in T /\ s \ {Pick(s)} \in SUBSET T
            /\ h[s] = g[Pick(s)] + h[s \ {Pick(s)}]
        <4>1. s \in SUBSET S
          OBVIOUS
        <4>2. Pick(s) \in s
          BY <2>2, PickIsElement
        <4>3. h[s] = g[Pick(s)] + h[s \ {Pick(s)}]
          BY <2>2, <4>1, SumTakesOne
        <4> QED
          BY <4>2, <4>3
      <3> QED
        BY <2>2, <3>1
    <2> QED
      BY <2>1, <2>2
  <1>3. k = [s \in SUBSET T |-> IF s = {} THEN 0 ELSE f[Pick(s)] + k[s \ {Pick(s)}]]
    <2>1. k = [s \in SUBSET T |-> k[s]]
      OBVIOUS
    <2> HIDE DEF k, f
    <2> QED
      BY <1>2, <2>1
  <1>4. k[T] = h[T]
    OBVIOUS
  <1> HIDE DEF k, f
  <1>5. IsSumOf(k, f, T)
    BY <1>3 DEF IsSumOf
  <1>6. k[T] = Total(f, T)
    BY <1>1, <1>5, TotalIsSum
  <1> QED
    BY <1>4, <1>6 DEF f

\* SumFunction() gives the total.
LEMMA SumFunctionIsTotal ==
    ASSUME NEW S, IsFiniteSet(S), NEW g \in [S -> Nat]
    PROVE  SumFunction(g) = Total(g, S)
  <1> DEFINE Is(h) == h = [s \in SUBSET S |-> IF s = {} THEN 0 ELSE g[Pick(s)] + h[s \ {Pick(s)}]]
             h == CHOOSE h : Is(h)
  <1>1. Is(h)
    <2>1. PICK k : IsSumOf(k, g, S)
      BY SumExists
    <2>2. Is(k)
      BY <2>1 DEF IsSumOf
    <2> HIDE DEF Is
    <2> QED
      BY <2>2
  <1>2. SumFunction(g) = h[S]
    BY DEF SumFunction, SumFunctionOnSet, FoldFunctionOnSet, MapThenFoldSet, Pick
  <1> HIDE DEF h
  <1>3. IsSumOf(h, g, S)
    BY <1>1 DEF IsSumOf
  <1> QED
    BY <1>2, <1>3, TotalIsSum

LEMMA SumFunctionCounts ==
    ASSUME NEW D, IsFiniteSet(D), NEW R, IsFiniteSet(R), NEW f \in [D -> R]
    PROVE  SumFunction([v \in R |-> Cardinality({d \in D : f[d] = v})]) = Cardinality(D)
  <1> DEFINE g == [v \in R |-> Cardinality({d \in D : f[d] = v})]
  <1> HIDE DEF g
  <1>1. g \in [R -> Nat] /\ Total(g, R) = Cardinality(D)
    BY TotalOfKinds DEF g
  <1>2. SumFunction(g) = Cardinality(D)
    BY <1>1, SumFunctionIsTotal
  <1> QED
    BY <1>2 DEF g

\* A sum over more is a larger sum; over nothing it is zero.
LEMMA SumFunctionGrows ==
    ASSUME NEW S, IsFiniteSet(S), NEW g \in [S -> Nat], NEW T \in SUBSET S
    PROVE  /\ SumFunction([x \in T |-> g[x]]) \in Nat
           /\ SumFunction([x \in T |-> g[x]]) <= SumFunction(g)
           /\ T = {} => SumFunction([x \in T |-> g[x]]) = 0
  <1> DEFINE f == [x \in T |-> g[x]]
  <1>a. PICK h : IsSumOf(h, g, S)
    BY SumExists
  <1>b. h \in [SUBSET S -> Nat] /\ h[{}] = 0
    BY <1>a, SumIsNatural
  <1>c. IsFiniteSet(T) /\ f \in [T -> Nat]
    BY FS_Subset
  <1> HIDE DEF f
  <1>1. SumFunction(f) = Total(f, T)
    BY <1>c, SumFunctionIsTotal
  <1>2. Total(f, T) = h[T]
    BY <1>a, TotalOfPart DEF f
  <1>3. SumFunction(g) = h[S]
    BY <1>a, SumFunctionIsTotal, TotalIsSum
  <1> DEFINE Good == {s \in SUBSET S : \A t \in SUBSET s : h[t] <= h[s]}
  <1>4. {} \in Good
    <2>1. h[{}] <= h[{}]
      BY <1>b
    <2>2. \A t \in SUBSET {} : t = {}
      OBVIOUS
    <2> QED
      BY <2>1, <2>2
  <1>5. ASSUME NEW s \in SUBSET S, s # {}, s \ {Pick(s)} \in Good
        PROVE  s \in Good
    <2> DEFINE p == Pick(s)
               r == s \ {p}
    <2>1. p \in s /\ p \in S /\ r \in SUBSET S /\ h[s] = g[p] + h[r]
      BY <1>5, <1>a, SumTakesOne
    <2> HIDE DEF p
    <2>2. g[p] \in Nat /\ h[r] \in Nat
      BY <1>b, <2>1
    <2>3. ASSUME NEW t \in SUBSET s PROVE h[t] <= h[s]
      <3>0. h[t] \in Nat
        BY <1>b, <2>3
      <3>1. CASE p \notin t
        <4>1. t \in SUBSET r
          BY <3>1
        <4>2. h[t] <= h[r]
          BY <1>5, <4>1 DEF p
        <4> QED
          BY <2>1, <2>2, <3>0, <4>2
      <3>2. CASE p \in t
        <4>1. t \in SUBSET S
          BY <2>3
        <4>2. h[t] = g[p] + h[t \ {p}]
          BY <1>a, <3>2, <4>1, SumTakesAny
        <4>3. t \ {p} \in SUBSET r
          OBVIOUS
        <4>4. h[t \ {p}] <= h[r]
          BY <1>5, <4>3 DEF p
        <4>5. h[t \ {p}] \in Nat
          BY <1>b, <4>1
        <4> QED
          BY <2>1, <2>2, <4>2, <4>4, <4>5
      <3> QED
        BY <3>1, <3>2
    <2> QED
      BY <2>3
  <1>6. S \in Good
    <2> HIDE DEF Good
    <2> QED
      BY <1>4, <1>5, SetInduction
  <1>7. h[T] <= h[S] /\ h[T] \in Nat
    BY <1>b, <1>6
  <1>8. T = {} => h[T] = 0
    BY <1>b
  <1> QED
    BY <1>1, <1>2, <1>3, <1>7, <1>8 DEF f

LEMMA SumTakesThis ==
    ASSUME NEW S, IsFiniteSet(S), NEW x \in S, NEW g \in [S -> Nat],
           NEW h, IsSumOf(h, g, S)
    PROVE  h[S] = g[x] + h[S \ {x}]
  <1>1. PICK s \in SUBSET S : s = S
    OBVIOUS
  <1>2. x \in s
    BY <1>1
  <1>3. h[s] = g[x] + h[s \ {x}]
    BY <1>2, SumTakesAny
  <1> QED
    BY <1>1, <1>3

\* One more summand is added.
LEMMA SumFunctionAdds ==
    ASSUME NEW S, IsFiniteSet(S), NEW x \in S, NEW g \in [S -> Nat],
           NEW T, T = S \ {x}
    PROVE  SumFunction(g) = SumFunction([y \in T |-> g[y]]) + g[x]
  <1> DEFINE f == [y \in T |-> g[y]]
  <1>a. PICK h : IsSumOf(h, g, S)
    BY SumExists
  <1>c. IsFiniteSet(T) /\ f \in [T -> Nat] /\ T \in SUBSET S
    BY FS_Subset
  <1> HIDE DEF f
  <1>1. SumFunction(f) = Total(f, T)
    BY <1>c, SumFunctionIsTotal
  <1>2. Total(f, T) = h[T]
    BY <1>a, <1>c, TotalOfPart DEF f
  <1>3. SumFunction(g) = h[S]
    BY <1>a, SumFunctionIsTotal, TotalIsSum
  <1>4. h[S] = g[x] + h[T]
    BY <1>a, SumTakesThis
  <1>5. g[x] \in Nat /\ h[T] \in Nat
    <2>1. h \in [SUBSET S -> Nat]
      BY <1>a, SumIsNatural
    <2> QED
      BY <1>c, <2>1
  <1> QED
    BY <1>1, <1>2, <1>3, <1>4, <1>5 DEF f

=============================================================================
