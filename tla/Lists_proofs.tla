---------------------------- MODULE Lists_proofs ----------------------------
(***************************************************************************)
(* Lemmas about lists that the proofs of the commands share: what a loop   *)
(* over a list of any length computes, that distinct keys have one order,  *)
(* and, from the former, the two aggregations of Verdicts.                 *)
(*                                                                         *)
(* A loop is a fold.  A fold unfolds to a function over the sets of        *)
(* indices, chosen by its equation; FoldSolution shows that there is one,  *)
(* and Induction, over a set in place of a formula, what it says of        *)
(* prefixes.                                                               *)
(***************************************************************************)
EXTENDS Verdicts, FiniteSetTheorems, NaturalsInduction, WellFoundedInduction,
        TLAPS

\* A set of natural numbers that is not empty has a least one.
LEMMA LeastNumber ==
  ASSUME NEW T \in SUBSET Nat, T # {}
  PROVE  \E n \in T : \A m \in T : n <= m
<1> DEFINE Less == {ss \in Nat \X Nat : ss[1] < ss[2]}
<1>1. IsWellFoundedOn(Less, Nat)
  BY NatLessThanWellFounded DEF OpToRel
<1>2. PICK n \in T : \A m \in T : <<m, n>> \notin Less
  BY <1>1, WFMin
<1>3. ASSUME NEW m \in T
      PROVE  n <= m
  <2>1. <<m, n>> \in Nat \X Nat /\ <<m, n>> \notin Less
    BY <1>2
  <2>2. ~ (m < n)
    BY <2>1
  <2>3. QED
    BY <2>2
<1>4. QED
  BY <1>3

\* Induction up to n, for membership in a set.
LEMMA Induction ==
  ASSUME NEW n \in Nat, NEW T,
         0 \in T, \A k \in 0..(n - 1) : k \in T => k + 1 \in T
  PROVE  \A k \in 0..n : k \in T
<1> DEFINE Missing == {k \in 0..n : k \notin T}
<1>1. SUFFICES ASSUME Missing # {}
               PROVE  FALSE
  OBVIOUS
<1>2. PICK k \in Missing : \A m \in Missing : k <= m
  <2>1. Missing \in SUBSET Nat
    OBVIOUS
  <2>2. QED
    BY ONLY <1>1, <2>1, LeastNumber
<1>3. k \in 0..n /\ k # 0 /\ k \notin T
  BY <1>2
<1>4. k - 1 \in 0..(n - 1) /\ k - 1 \in 0..n /\ ~ (k <= k - 1) /\ k = (k - 1) + 1
  BY <1>3
<1>5. k - 1 \in T
  BY <1>2, <1>4
<1>6. QED
  BY <1>3, <1>4, <1>5

----------------------------------------------------------------------------
\* Folds over a sequence of length n.

\* The last index of a prefix.
LEMMA LastOfPrefix ==
  ASSUME NEW k \in Nat, NEW S, S \subseteq 1..k, k \in S
  PROVE  Max(S) = k
<1>1. \A y \in S : k >= y
  OBVIOUS
<1>2. \A x \in S : (\A y \in S : x >= y) => x = k
  OBVIOUS
<1>3. QED
  BY <1>1, <1>2 DEF Max

LEMMA SetHasMax ==
  ASSUME NEW n \in Nat, NEW S \in SUBSET (1..n), S # {}
  PROVE  Max(S) \in S
<1>1. PICK x \in S : \A y \in S : x >= y
  <2> DEFINE Below == {n - y : y \in S}
  <2>1. PICK m \in Below : \A k \in Below : m <= k
    <3>1. Below \in SUBSET Nat /\ Below # {}
      <4>1. \A y \in S : n - y \in Nat
        OBVIOUS
      <4>2. QED
        BY <4>1
    <3> HIDE DEF Below
    <3>2. QED
      BY <3>1, LeastNumber
  <2>2. PICK x \in S : m = n - x
    BY <2>1
  <2>3. \A y \in S : n - x <= n - y
    BY <2>1, <2>2
  <2>4. QED
    BY <2>3
<1>2. QED
  BY <1>1 DEF Max

\* h is the fold of a sequence of n elements; step[i] applies element i.
IsFold(h, n, base, step) ==
  \A S \in SUBSET (1..n) :
    h[S] = IF S = {} THEN base ELSE step[Max(S)][h[S \ {Max(S)}]]

\* There is one, and one with values in D.
LEMMA FoldSolution ==
  ASSUME NEW n \in Nat, NEW D, NEW base \in D,
         NEW step \in [1..n -> [D -> D]]
  PROVE  \E h \in [SUBSET (1..n) -> D] : IsFold(h, n, base, step)
<1> DEFINE Solvable(k) == \E h \in [SUBSET (1..k) -> D] : IsFold(h, k, base, step)
           T == {k \in 0..n : Solvable(k)}
<1>1. Solvable(0)
  <2> DEFINE h == [S \in SUBSET (1..0) |-> base]
  <2>1. h \in [SUBSET (1..0) -> D] /\ \A S \in SUBSET (1..0) : S = {}
    OBVIOUS
  <2>2. IsFold(h, 0, base, step)
    BY <2>1 DEF IsFold
  <2> HIDE DEF h
  <2>3. QED
    BY <2>1, <2>2
<1>2. ASSUME NEW k \in 0..(n - 1), Solvable(k)
      PROVE  Solvable(k + 1)
  <2>1. PICK h \in [SUBSET (1..k) -> D] : IsFold(h, k, base, step)
    BY <1>2
  <2> DEFINE g == [S \in SUBSET (1..(k + 1)) |->
                     IF k + 1 \in S THEN step[k + 1][h[S \ {k + 1}]] ELSE h[S]]
  <2>2. ASSUME NEW S \in SUBSET (1..(k + 1))
        PROVE  /\ k + 1 \in S => S \ {k + 1} \in SUBSET (1..k)
               /\ k + 1 \notin S => S \in SUBSET (1..k)
    OBVIOUS
  <2>3. k + 1 \in 1..n
    OBVIOUS
  <2>4. g \in [SUBSET (1..(k + 1)) -> D]
    <3>1. ASSUME NEW S \in SUBSET (1..(k + 1))
          PROVE  g[S] \in D
      BY <2>1, <2>2, <2>3
    <3>2. QED
      BY <3>1
  <2>5. ASSUME NEW S \in SUBSET (1..(k + 1))
        PROVE  g[S] = IF S = {} THEN base
                      ELSE step[Max(S)][g[S \ {Max(S)}]]
    <3>1. CASE k + 1 \in S
      <4>1. Max(S) = k + 1
        <5>1. k + 1 \in Nat /\ S \subseteq 1..(k + 1)
          OBVIOUS
        <5>2. QED
          BY ONLY <3>1, <5>1, LastOfPrefix
      <4>2. /\ S \ {k + 1} \in SUBSET (1..(k + 1))
            /\ k + 1 \notin S \ {k + 1}
        OBVIOUS
      <4>3. g[S \ {k + 1}] = h[S \ {k + 1}]
        BY <4>2
      <4>4. g[S] = step[k + 1][h[S \ {k + 1}]]
        BY <3>1
      <4>5. QED
        BY <3>1, <4>1, <4>3, <4>4
    <3>2. CASE k + 1 \notin S
      <4>1. S \in SUBSET (1..k) /\ g[S] = h[S]
        BY <2>2, <3>2
      <4>2. S \ {Max(S)} \in SUBSET (1..(k + 1)) /\ k + 1 \notin S \ {Max(S)}
        BY <3>2
      <4>3. g[S \ {Max(S)}] = h[S \ {Max(S)}]
        BY <4>2
      <4>4. QED
        BY <2>1, <4>1, <4>3 DEF IsFold
    <3>3. QED
      BY <3>1, <3>2
  <2>6. IsFold(g, k + 1, base, step)
    BY <2>5 DEF IsFold
  <2> HIDE DEF g
  <2>7. QED
    BY <2>4, <2>6
<1>3. n \in T
  <2> HIDE DEF Solvable
  <2>1. 0 \in T /\ \A k \in 0..(n - 1) : k \in T => k + 1 \in T
    BY <1>1, <1>2
  <2> HIDE DEF T
  <2>2. QED
    <3>1. \A k \in 0..n : k \in T
      BY ONLY <2>1, n \in Nat, Induction
    <3>2. QED
      BY <3>1
<1>4. QED
  BY <1>3, Zenon

\* The prefixes of 1..n, one index after the other.
LEMMA PrefixAt ==
  ASSUME NEW n \in Nat, NEW k \in 1..n
  PROVE  /\ 1..k \in SUBSET (1..n)
         /\ 1..k # {}
         /\ Max(1..k) = k
         /\ (1..k) \ {k} = 1..(k - 1)
<1>1. k \in Nat
  OBVIOUS
<1>2. k \in 1..k
  OBVIOUS
<1>3. Max(1..k) = k
  BY <1>1, <1>2, LastOfPrefix
<1>4. 1..k \in SUBSET (1..n)
  OBVIOUS
<1>5. (1..k) \ {k} = 1..(k - 1)
  OBVIOUS
<1>6. QED
  BY <1>2, <1>3, <1>4, <1>5

----------------------------------------------------------------------------
\* Orders of distinct numbers, for sort.Slice and sort.Strings.

\* An injection of 1..n into itself reaches every index.
LEMMA Reaches ==
  ASSUME NEW n \in Nat, NEW f \in [1..n -> 1..n],
         \A i, j \in 1..n : f[i] = f[j] => i = j
  PROVE  \A k \in 1..n : \E i \in 1..n : f[i] = k
<1>1. f \in Injection(1..n, 1..n)
  BY DEF Injection, IsInjective
<1>2. IsFiniteSet(1..n)
  BY FS_Interval
<1>3. f \in Surjection(1..n, 1..n)
  BY ONLY <1>1, <1>2, FS_Injection
<1>4. QED
  BY <1>3 DEF Surjection

\* A sequence of distinct numbers can be put in order.
LEMMA OrderExists ==
  ASSUME NEW n \in Nat, NEW key \in [1..n -> Int],
         \A i, j \in 1..n : key[i] = key[j] => i = j
  PROVE  \E order \in SetToSeqs(1..n) :
           \A i, j \in 1..n : i < j => key[order[i]] <= key[order[j]]
<1> DEFINE Below(i) == {j \in 1..n : key[j] < key[i]}
           rank == [i \in 1..n |-> Cardinality(Below(i)) + 1]
           order == [k \in 1..n |-> CHOOSE i \in 1..n : rank[i] = k]
<1>1. IsFiniteSet(1..n) /\ Cardinality(1..n) = n
  BY FS_Interval
<1>2. ASSUME NEW i \in 1..n
      PROVE  /\ IsFiniteSet(Below(i)) /\ Cardinality(Below(i)) \in Nat
             /\ Cardinality(Below(i)) <= n - 1
  <2>1. /\ IsFiniteSet((1..n) \ {i})
        /\ Cardinality((1..n) \ {i}) = n - 1
    BY <1>1, FS_RemoveElement
  <2>2. Below(i) \in SUBSET ((1..n) \ {i})
    OBVIOUS
  <2>3. /\ IsFiniteSet(Below(i))
        /\ Cardinality(Below(i)) <= Cardinality((1..n) \ {i})
    BY ONLY <2>1, <2>2, FS_Subset
  <2>4. Cardinality(Below(i)) \in Nat
    BY ONLY <2>3, FS_CardinalityType
  <2>5. QED
    BY <2>1, <2>3, <2>4
<1>3. rank \in [1..n -> 1..n]
  <2> HIDE DEF Below
  <2>1. QED
    BY <1>2
<1>4. ASSUME NEW i \in 1..n, NEW j \in 1..n, key[i] < key[j]
      PROVE  rank[i] < rank[j]
  <2>1. Below(i) \cup {i} \in SUBSET Below(j) /\ i \notin Below(i)
    BY <1>4
  <2>2. Cardinality(Below(i) \cup {i}) = Cardinality(Below(i)) + 1
    BY <1>2, <2>1, FS_AddElement
  <2>3. Cardinality(Below(i) \cup {i}) <= Cardinality(Below(j))
    BY <1>2, <2>1, FS_Subset
  <2>4. Cardinality(Below(i)) \in Nat /\ Cardinality(Below(j)) \in Nat
    BY <1>2
  <2> HIDE DEF Below
  <2>5. QED
    BY <2>2, <2>3, <2>4
<1> HIDE DEF rank
<1>5. \A i, j \in 1..n : rank[i] = rank[j] => i = j
  <2>1. SUFFICES ASSUME NEW i \in 1..n, NEW j \in 1..n, rank[i] = rank[j]
                 PROVE  i = j
    OBVIOUS
  <2>2. ~ (key[i] < key[j]) /\ ~ (key[j] < key[i])
    BY <1>3, <1>4, <2>1
  <2>3. QED
    BY <2>2
<1>6. \A k \in 1..n : order[k] \in 1..n /\ rank[order[k]] = k
  <2>1. \A k \in 1..n : \E i \in 1..n : rank[i] = k
    BY ONLY <1>3, <1>5, n \in Nat, Reaches
  <2>2. QED
    BY <2>1
<1> HIDE DEF order
<1>7. order \in SetToSeqs(1..n)
  <2>1. order \in [1..n -> 1..n]
    BY <1>6 DEF order
  <2>2. \A i, j \in 1..n : i # j => order[i] # order[j]
    BY <1>6
  <2>3. QED
    BY <1>1, <2>1, <2>2 DEF SetToSeqs
<1>8. ASSUME NEW i \in 1..n, NEW j \in 1..n, i < j
      PROVE  key[order[i]] <= key[order[j]]
  <2>1. ~ (key[order[j]] < key[order[i]])
    <3>1. ~ (rank[order[j]] < rank[order[i]])
      BY <1>6, <1>8
    <3>2. QED
      BY <1>4, <1>6, <3>1
  <2>2. QED
    BY <1>6, <2>1
<1>9. QED
  BY <1>7, <1>8

\* Two increasing sequences of the same numbers are the same.
LEMMA OrderUnique ==
  ASSUME NEW n \in Nat, NEW a \in [1..n -> Int], NEW b \in [1..n -> Int],
         \A i, j \in 1..n : i < j => a[i] < a[j],
         \A i, j \in 1..n : i < j => b[i] < b[j],
         \A i \in 1..n : \E j \in 1..n : a[i] = b[j],
         \A i \in 1..n : \E j \in 1..n : b[i] = a[j]
  PROVE  \A i \in 1..n : a[i] = b[i]
<1> DEFINE Differ == {i \in 1..n : a[i] # b[i]}
<1>1. SUFFICES ASSUME Differ # {}
               PROVE  FALSE
  OBVIOUS
<1>2. PICK k \in Differ : \A m \in Differ : k <= m
  <2>1. Differ \in SUBSET Nat
    OBVIOUS
  <2>2. QED
    BY ONLY <1>1, <2>1, LeastNumber
<1>3. k \in 1..n /\ \A m \in 1..n : m < k => a[m] = b[m]
  BY <1>2
<1>4. CASE a[k] < b[k]
  <2>1. PICK m \in 1..n : a[k] = b[m]
    BY <1>3
  <2>2. m < k
    <3>1. b[m] < b[k] /\ b[m] \in Int /\ b[k] \in Int
      BY <1>3, <1>4, <2>1
    <3>2. ~ (k < m) /\ m # k
      <4>1. k < m => b[k] < b[m]
        BY <1>3
      <4>2. m # k
        BY <3>1
      <4>3. ~ (k < m)
        BY <3>1, <4>1
      <4>4. QED
        BY <4>2, <4>3
    <3>3. QED
      BY <1>3, <3>2
  <2>3. QED
    BY <1>3, <2>1, <2>2
<1>5. CASE b[k] < a[k]
  <2>1. PICK m \in 1..n : b[k] = a[m]
    BY <1>3
  <2>2. m < k
    <3>1. a[m] < a[k] /\ a[m] \in Int /\ a[k] \in Int
      BY <1>3, <1>5, <2>1
    <3>2. ~ (k < m) /\ m # k
      <4>1. k < m => a[k] < a[m]
        BY <1>3
      <4>2. m # k
        BY <3>1
      <4>3. ~ (k < m)
        BY <3>1, <4>1
      <4>4. QED
        BY <4>2, <4>3
    <3>3. QED
      BY <1>3, <3>2
  <2>3. QED
    BY <1>3, <2>1, <2>2
<1>6. QED
  BY <1>2, <1>3, <1>4, <1>5

----------------------------------------------------------------------------
\* evidence.Aggregate and report.aggregateReportState.

\* The run of the loop of evidence.Aggregate.
LEMMA AggregateRun ==
  ASSUME NEW s, NEW n \in Nat, DOMAIN s = 1..n
  PROVE  \E f \in [0..n -> State] :
           /\ f[0] = "PASS"
           /\ \A k \in 1..n : f[k] = AggregateStep(f[k - 1], s[k])
           /\ FoldLeft(AggregateStep, "PASS", s) = f[n]
<1> DEFINE Equation(h) ==
             h = [S \in SUBSET (DOMAIN s) |->
                    IF S = {} THEN "PASS"
                    ELSE LET x == Max(S)
                         IN  AggregateStep(h[S \ {x}], s[x])]
           fold == CHOOSE h : Equation(h)
           step == [i \in 1..n |->
                      [d \in State |-> AggregateStep(d, s[i])]]
           f == [k \in 0..n |-> fold[1..k]]
<1>1. FoldLeft(AggregateStep, "PASS", s) = fold[1..n]
  BY Zenon DEF FoldLeft, MapThenFoldSet
<1>2. \A d, x : AggregateStep(d, x) \in State \cup {d}
  BY DEF AggregateStep, State
<1>3. \E h : Equation(h)
  <2>1. step \in [1..n -> [State -> State]]
    BY <1>2
  <2>2. PICK h \in [SUBSET (1..n) -> State] : IsFold(h, n, "PASS", step)
    <3>1. "PASS" \in State
      BY DEF State
    <3> HIDE DEF step
    <3>2. QED
      BY <2>1, <3>1, FoldSolution
  <2>3. ASSUME NEW S \in SUBSET (1..n), S # {}
        PROVE  h[S] = AggregateStep(h[S \ {Max(S)}], s[Max(S)])
    <3>1. Max(S) \in 1..n /\ h[S \ {Max(S)}] \in State
      BY <2>3, SetHasMax
    <3>2. QED
      BY <2>2, <2>3, <3>1 DEF IsFold
  <2>4. Equation(h)
    BY <2>2, <2>3 DEF IsFold
  <2>5. QED
    BY <2>4
<1>4. Equation(fold)
  <2> HIDE DEF Equation
  <2>1. QED
    BY <1>3
<1> HIDE DEF fold
<1>5. fold[{}] = "PASS" /\ f[0] = fold[1..0] /\ 1..0 = {}
  BY <1>4
<1>6. ASSUME NEW k \in 1..n
      PROVE  f[k] = AggregateStep(f[k - 1], s[k])
  <2>1. fold[1..k] = AggregateStep(fold[(1..k) \ {Max(1..k)}], s[Max(1..k)])
    BY <1>4, PrefixAt
  <2>2. k \in 0..n /\ k - 1 \in 0..n
    OBVIOUS
  <2>3. f[k] = fold[1..k] /\ f[k - 1] = fold[1..(k - 1)]
    BY <2>2
  <2>4. Max(1..k) = k /\ (1..k) \ {k} = 1..(k - 1)
    BY PrefixAt
  <2>5. QED
    BY <2>1, <2>3, <2>4
<1>7. f \in [0..n -> State]
  <2> DEFINE T == {k \in 0..n : f[k] \in State}
  <2>1. 0 \in T
    BY <1>5 DEF State
  <2>2. ASSUME NEW k \in 0..(n - 1), k \in T
        PROVE  k + 1 \in T
    <3>1. k + 1 \in 1..n /\ (k + 1) - 1 = k
      OBVIOUS
    <3>2. f[k + 1] = AggregateStep(f[k], s[k + 1])
      BY <1>6, <3>1
    <3>3. QED
      BY <1>2, <2>2, <3>1, <3>2
  <2>3. \A k \in 0..n : k \in T
    <3> HIDE DEF T
    <3>1. QED
      BY ONLY <2>1, <2>2, n \in Nat, Induction
  <2>4. QED
    BY <2>3
<1>8. f[0] = "PASS" /\ f[n] = fold[1..n]
  BY <1>5
<1> HIDE DEF f
<1>9. QED
  BY <1>1, <1>6, <1>7, <1>8

\* What evidence.Aggregate computes: PASS when every state is, FAIL when some
\* state is and none is inconclusive or unknown, else INCONCLUSIVE.
LEMMA AggregateIs ==
  ASSUME NEW X, NEW s \in Seq(X), s # << >>
  PROVE  /\ Aggregate(s) \in State
         /\ Aggregate(s) = "PASS" <=> \A i \in DOMAIN s : s[i] = "PASS"
         /\ Aggregate(s) = "FAIL" <=>
              /\ \A i \in DOMAIN s : s[i] \in {"PASS", "FAIL"}
              /\ \E i \in DOMAIN s : s[i] = "FAIL"
<1> DEFINE n == Len(s)
           Clean(k) == \A i \in 1..k : s[i] \in {"PASS", "FAIL"}
           Failed(k) == \E i \in 1..k : s[i] = "FAIL"
<1>1. n \in Nat \ {0} /\ DOMAIN s = 1..n
  OBVIOUS
<1> HIDE DEF n
<1>2. PICK f \in [0..n -> State] :
        /\ f[0] = "PASS"
        /\ \A k \in 1..n : f[k] = AggregateStep(f[k - 1], s[k])
        /\ FoldLeft(AggregateStep, "PASS", s) = f[n]
  BY <1>1, AggregateRun
<1> DEFINE Right(k) ==
             f[k] = IF ~Clean(k) THEN "INCONCLUSIVE"
                    ELSE IF Failed(k) THEN "FAIL" ELSE "PASS"
           T == {k \in 0..n : Right(k)}
<1>3. Right(0)
  BY <1>2
<1>4. ASSUME NEW k \in 0..(n - 1), Right(k)
      PROVE  Right(k + 1)
  <2>1. k + 1 \in 1..n /\ (k + 1) - 1 = k
    BY <1>1
  <2>2. f[k + 1] = AggregateStep(f[k], s[k + 1])
    BY <1>2, <2>1
  <2>3. /\ Clean(k + 1) <=> Clean(k) /\ s[k + 1] \in {"PASS", "FAIL"}
        /\ Failed(k + 1) <=> Failed(k) \/ s[k + 1] = "FAIL"
    <3>1. 1..(k + 1) = 1..k \cup {k + 1}
      BY <1>1
    <3>2. QED
      BY <3>1
  <2> HIDE DEF Clean, Failed
  <2>4. QED
    BY <1>4, <2>2, <2>3 DEF AggregateStep
<1>5. Right(n)
  <2> HIDE DEF Right
  <2>1. 0 \in T /\ \A k \in 0..(n - 1) : k \in T => k + 1 \in T
    BY <1>1, <1>3, <1>4
  <2>2. \A k \in 0..n : k \in T
    <3> HIDE DEF T
    <3>1. QED
      BY ONLY <1>1, <2>1, Induction
  <2>3. QED
    BY <1>1, <2>2
<1>6. Aggregate(s) = f[n]
  BY <1>2 DEF Aggregate
<1>7. QED
  BY <1>1, <1>5, <1>6 DEF State

\* What aggregateReportState can return.
Answers == State \cup {"ERROR"}

\* The run of the loop of report.aggregateReportState.
LEMMA ReportRun ==
  ASSUME NEW s, NEW n \in Nat, DOMAIN s = 1..n
  PROVE  \E f \in [0..n -> Answers] :
           /\ f[0] = "PASS"
           /\ \A k \in 1..n : f[k] = ReportStep(f[k - 1], s[k])
           /\ FoldLeft(ReportStep, "PASS", s) = f[n]
<1> DEFINE Equation(h) ==
             h = [S \in SUBSET (DOMAIN s) |->
                    IF S = {} THEN "PASS"
                    ELSE LET x == Max(S)
                         IN  ReportStep(h[S \ {x}], s[x])]
           fold == CHOOSE h : Equation(h)
           step == [i \in 1..n |->
                      [d \in Answers |-> ReportStep(d, s[i])]]
           f == [k \in 0..n |-> fold[1..k]]
<1>1. FoldLeft(ReportStep, "PASS", s) = fold[1..n]
  BY Zenon DEF FoldLeft, MapThenFoldSet
<1>2. \A d, x : ReportStep(d, x) \in Answers \cup {d}
  BY DEF ReportStep, Answers
<1>3. \E h : Equation(h)
  <2>1. step \in [1..n -> [Answers -> Answers]]
    BY <1>2
  <2>2. PICK h \in [SUBSET (1..n) -> Answers] : IsFold(h, n, "PASS", step)
    <3>1. "PASS" \in Answers
      BY DEF Answers, State
    <3> HIDE DEF step
    <3>2. QED
      BY <2>1, <3>1, FoldSolution
  <2>3. ASSUME NEW S \in SUBSET (1..n), S # {}
        PROVE  h[S] = ReportStep(h[S \ {Max(S)}], s[Max(S)])
    <3>1. Max(S) \in 1..n /\ h[S \ {Max(S)}] \in Answers
      BY <2>3, SetHasMax
    <3>2. QED
      BY <2>2, <2>3, <3>1 DEF IsFold
  <2>4. Equation(h)
    BY <2>2, <2>3 DEF IsFold
  <2>5. QED
    BY <2>4
<1>4. Equation(fold)
  <2> HIDE DEF Equation
  <2>1. QED
    BY <1>3
<1> HIDE DEF fold
<1>5. fold[{}] = "PASS" /\ f[0] = fold[1..0] /\ 1..0 = {}
  BY <1>4
<1>6. ASSUME NEW k \in 1..n
      PROVE  f[k] = ReportStep(f[k - 1], s[k])
  <2>1. fold[1..k] = ReportStep(fold[(1..k) \ {Max(1..k)}], s[Max(1..k)])
    BY <1>4, PrefixAt
  <2>2. k \in 0..n /\ k - 1 \in 0..n
    OBVIOUS
  <2>3. f[k] = fold[1..k] /\ f[k - 1] = fold[1..(k - 1)]
    BY <2>2
  <2>4. Max(1..k) = k /\ (1..k) \ {k} = 1..(k - 1)
    BY PrefixAt
  <2>5. QED
    BY <2>1, <2>3, <2>4
<1>7. f \in [0..n -> Answers]
  <2> DEFINE T == {k \in 0..n : f[k] \in Answers}
  <2>1. 0 \in T
    BY <1>5 DEF Answers, State
  <2>2. ASSUME NEW k \in 0..(n - 1), k \in T
        PROVE  k + 1 \in T
    <3>1. k + 1 \in 1..n /\ (k + 1) - 1 = k
      OBVIOUS
    <3>2. f[k + 1] = ReportStep(f[k], s[k + 1])
      BY <1>6, <3>1
    <3>3. QED
      BY <1>2, <2>2, <3>1, <3>2
  <2>3. \A k \in 0..n : k \in T
    <3> HIDE DEF T
    <3>1. QED
      BY ONLY <2>1, <2>2, n \in Nat, Induction
  <2>4. QED
    BY <2>3
<1>8. f[0] = "PASS" /\ f[n] = fold[1..n]
  BY <1>5
<1> HIDE DEF f
<1>9. QED
  BY <1>1, <1>6, <1>7, <1>8

\* On states it computes the same, in another way: there INCONCLUSIVE is sticky
\* and the loop goes on to reject what is not a state.
LEMMA ReportIs ==
  ASSUME NEW X, NEW s \in Seq(X), s # << >>
  PROVE  AggregateReportState(s) =
           IF \A i \in DOMAIN s : s[i] \in State THEN Aggregate(s) ELSE "ERROR"
<1> DEFINE n == Len(s)
           Known(k) == \A i \in 1..k : s[i] \in State
           Clean(k) == \A i \in 1..k : s[i] \in {"PASS", "FAIL"}
           Failed(k) == \E i \in 1..k : s[i] = "FAIL"
<1>1. n \in Nat \ {0} /\ DOMAIN s = 1..n
  OBVIOUS
<1> HIDE DEF n
<1>2. PICK f \in [0..n -> Answers] :
        /\ f[0] = "PASS"
        /\ \A k \in 1..n : f[k] = ReportStep(f[k - 1], s[k])
        /\ FoldLeft(ReportStep, "PASS", s) = f[n]
  BY <1>1, ReportRun
<1> DEFINE Right(k) ==
             f[k] = IF ~Known(k) THEN "ERROR"
                    ELSE IF ~Clean(k) THEN "INCONCLUSIVE"
                    ELSE IF Failed(k) THEN "FAIL" ELSE "PASS"
           T == {k \in 0..n : Right(k)}
<1>3. Right(0)
  BY <1>2
<1>4. ASSUME NEW k \in 0..(n - 1), Right(k)
      PROVE  Right(k + 1)
  <2>1. k + 1 \in 1..n /\ (k + 1) - 1 = k
    BY <1>1
  <2>2. f[k + 1] = ReportStep(f[k], s[k + 1])
    BY <1>2, <2>1
  <2>3. /\ Clean(k + 1) <=> Clean(k) /\ s[k + 1] \in {"PASS", "FAIL"}
        /\ Failed(k + 1) <=> Failed(k) \/ s[k + 1] = "FAIL"
        /\ Known(k + 1) <=> Known(k) /\ s[k + 1] \in State
    <3>1. 1..(k + 1) = 1..k \cup {k + 1}
      BY <1>1
    <3>2. QED
      BY <3>1
  <2> HIDE DEF Known, Clean, Failed
  <2>4. QED
    BY <1>4, <2>2, <2>3 DEF ReportStep, State
<1>5. Right(n)
  <2> HIDE DEF Right
  <2>1. 0 \in T /\ \A k \in 0..(n - 1) : k \in T => k + 1 \in T
    BY <1>1, <1>3, <1>4
  <2>2. \A k \in 0..n : k \in T
    <3> HIDE DEF T
    <3>1. QED
      BY ONLY <1>1, <2>1, Induction
  <2>3. QED
    BY <1>1, <2>2
<1>6. AggregateReportState(s) = f[n]
  BY <1>2 DEF AggregateReportState
<1>7. /\ Aggregate(s) \in State
      /\ Aggregate(s) = "PASS" <=> Clean(n) /\ ~Failed(n)
      /\ Aggregate(s) = "FAIL" <=> Clean(n) /\ Failed(n)
  BY <1>1, AggregateIs
<1>8. Known(n) <=> \A i \in DOMAIN s : s[i] \in State
  BY <1>1
<1> HIDE DEF Known, Clean, Failed
<1>9. QED
  BY <1>5, <1>6, <1>7, <1>8 DEF State
=============================================================================
