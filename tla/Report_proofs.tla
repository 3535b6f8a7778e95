---------------------------- MODULE Report_proofs ----------------------------
(***************************************************************************)
(* Proofs about Report, for every set of contracts, consumers and verdicts:*)
(* what Build makes of a verdict (it forgets the order of the results, and *)
(* reports each of them once, with its consumers), and what the two outputs*)
(* hold when the command ends.                                             *)
(*                                                                         *)
(* Build is a fold over sorted results.  ByIdOrders says what the sorting  *)
(* is when requirements are distinct, which Accepts ensures by counting;   *)
(* DrawRun unfolds the fold, BuildIs says what it has drawn.               *)
(***************************************************************************)
EXTENDS Report, Lists_proofs

----------------------------------------------------------------------------
\* The sorted results.

Distinct(checks) ==
  \A i, j \in DOMAIN checks : checks[i].id = checks[j].id => i = j

LEMMA CheckIds == \A c \in Check : c.id \in Int
<1>1. \A i \in Ids : i \in Int
  BY ReportAssumption
<1>2. \A c \in Check : c.id \in Ids
  BY DEF Check
<1>3. QED
  BY <1>1, <1>2, Zenon

\* Results of distinct requirements have one order, which keeps all of them.
LEMMA ByIdOrders ==
  ASSUME NEW n \in Nat, NEW s \in [1..n -> Check], Distinct(s)
  PROVE  \E order \in [1..n -> 1..n] :
           /\ ById(s) = Permuted(s, order)
           /\ \A i, j \in 1..n : order[i] = order[j] => i = j
           /\ \A i, j \in 1..n : i < j => s[order[i]].id < s[order[j]].id
<1> DEFINE key == [i \in 1..n |-> s[i].id]
           chosen == CHOOSE order \in SetToSeqs(1..n) : Sorted(Permuted(s, order))
<1>1. \A i \in 1..n : s[i].id \in Int
  BY CheckIds
<1>2. \A i, j \in 1..n : key[i] = key[j] => i = j
  BY DEF Distinct
<1>3. IsFiniteSet(1..n) /\ Cardinality(1..n) = n
  BY FS_Interval
<1>4. SetToSeqs(1..n)
        = {f \in [1..n -> 1..n] : \A i, j \in 1..n : i # j => f[i] # f[j]}
  BY <1>3 DEF SetToSeqs
<1>5. \E order \in SetToSeqs(1..n) : Sorted(Permuted(s, order))
  <2>1. key \in [1..n -> Int]
    BY <1>1
  <2>2. PICK order \in SetToSeqs(1..n) :
          \A i, j \in 1..n : i < j => key[order[i]] <= key[order[j]]
    <3> HIDE DEF key
    <3>1. QED
      BY <1>2, <2>1, OrderExists
  <2>3. order \in [1..n -> 1..n]
    BY <1>4
  <2>4. Sorted(Permuted(s, order))
    BY <2>2, <2>3 DEF Sorted, Permuted
  <2>5. QED
    BY <2>4
<1>6. chosen \in SetToSeqs(1..n) /\ Sorted(Permuted(s, chosen))
  BY <1>5
<1>7. ById(s) = Permuted(s, chosen)
  BY DEF ById
<1> HIDE DEF chosen
<1>8. chosen \in [1..n -> 1..n]
  BY <1>4, <1>6
<1>9. \A i, j \in 1..n : chosen[i] = chosen[j] => i = j
  BY <1>4, <1>6
<1>10. ASSUME NEW i \in 1..n, NEW j \in 1..n, i < j
       PROVE  s[chosen[i]].id < s[chosen[j]].id
  <2>1. s[chosen[i]].id <= s[chosen[j]].id
    BY <1>6, <1>8, <1>10 DEF Sorted, Permuted
  <2>2. s[chosen[i]].id # s[chosen[j]].id
    BY <1>2, <1>8, <1>9, <1>10
  <2>3. QED
    BY <1>1, <1>8, <2>1, <2>2
<1>11. QED
  BY <1>7, <1>8, <1>9, <1>10

\* They are the same results as before.
LEMMA ByIdKeeps ==
  ASSUME NEW n \in Nat, NEW s \in [1..n -> Check], Distinct(s)
  PROVE  /\ ById(s) \in [1..n -> Check]
         /\ \A i \in 1..n : \E k \in 1..n : ById(s)[k] = s[i]
         /\ \A k \in 1..n : \E i \in 1..n : ById(s)[k] = s[i]
<1>1. PICK order \in [1..n -> 1..n] :
        /\ ById(s) = Permuted(s, order)
        /\ \A i, j \in 1..n : order[i] = order[j] => i = j
  BY ByIdOrders
<1>2. \A i \in 1..n : \E k \in 1..n : order[k] = i
  BY <1>1, Reaches
<1>3. ById(s) = [k \in 1..n |-> s[order[k]]]
  BY <1>1 DEF Permuted
<1>4. \A k \in 1..n : ById(s)[k] = s[order[k]] /\ order[k] \in 1..n
  BY <1>3
<1>5. ASSUME NEW i \in 1..n
      PROVE  \E k \in 1..n : ById(s)[k] = s[i]
  <2>1. PICK k \in 1..n : order[k] = i
    BY <1>2
  <2>2. ById(s)[k] = s[order[k]]
    BY <1>4
  <2>3. QED
    BY <2>1, <2>2
<1>6. ById(s) \in [1..n -> Check]
  BY <1>3
<1>7. QED
  BY <1>4, <1>5, <1>6

\* The order they were listed in does not matter.
LEMMA ByIdForgets ==
  ASSUME NEW n \in Nat, NEW s \in [1..n -> Check], Distinct(s),
         NEW p \in [1..n -> 1..n],
         \A i, j \in 1..n : p[i] = p[j] => i = j
  PROVE  Distinct(Permuted(s, p)) /\ ById(Permuted(s, p)) = ById(s)
<1> DEFINE t == Permuted(s, p)
<1>1. t \in [1..n -> Check] /\ \A i \in 1..n : t[i] = s[p[i]]
  BY DEF Permuted
<1>2. Distinct(t)
  BY <1>1 DEF Distinct
<1> HIDE DEF t
<1>3. PICK a \in [1..n -> 1..n] :
        /\ ById(s) = Permuted(s, a)
        /\ \A i, j \in 1..n : a[i] = a[j] => i = j
        /\ \A i, j \in 1..n : i < j => s[a[i]].id < s[a[j]].id
  BY ByIdOrders
<1>4. PICK b \in [1..n -> 1..n] :
        /\ ById(t) = Permuted(t, b)
        /\ \A i, j \in 1..n : b[i] = b[j] => i = j
        /\ \A i, j \in 1..n : i < j => t[b[i]].id < t[b[j]].id
  BY <1>1, <1>2, ByIdOrders
<1> DEFINE first == [k \in 1..n |-> s[a[k]].id]
           second == [k \in 1..n |-> s[p[b[k]]].id]
<1>5. first \in [1..n -> Int] /\ second \in [1..n -> Int]
  <2>1. \A k \in 1..n : s[a[k]].id \in Int /\ s[p[b[k]]].id \in Int
    BY CheckIds
  <2>2. QED
    BY <2>1
<1>6. /\ \A i, j \in 1..n : i < j => first[i] < first[j]
      /\ \A i, j \in 1..n : i < j => second[i] < second[j]
  <2>1. \A k \in 1..n : first[k] = s[a[k]].id /\ second[k] = t[b[k]].id
    BY <1>1
  <2> HIDE DEF first, second
  <2>2. QED
    BY <1>3, <1>4, <2>1
<1>7. \A i \in 1..n : \E j \in 1..n : a[i] = p[b[j]]
  <2>1. \A i \in 1..n : \E j \in 1..n : p[j] = a[i]
    <3>1. \A i \in 1..n : \E j \in 1..n : p[j] = i
      BY Reaches
    <3>2. QED
      BY <3>1
  <2>2. \A i \in 1..n : \E j \in 1..n : b[j] = i
    BY <1>4, Reaches
  <2>3. QED
    BY <2>1, <2>2
<1>8. \A i \in 1..n : \E j \in 1..n : p[b[i]] = a[j]
  <2>1. \A i \in 1..n : \E j \in 1..n : a[j] = i
    BY <1>3, Reaches
  <2>2. QED
    BY <2>1
<1>9. \A k \in 1..n : first[k] = second[k]
  <2>1. \A i \in 1..n : \E j \in 1..n : first[i] = second[j]
    BY <1>7
  <2>2. \A i \in 1..n : \E j \in 1..n : second[i] = first[j]
    BY <1>8
  <2> HIDE DEF first, second
  <2>3. QED
    BY <1>5, <1>6, <2>1, <2>2, OrderUnique
<1>10. ASSUME NEW k \in 1..n
       PROVE  s[a[k]] = t[b[k]]
  <2>1. s[a[k]].id = s[p[b[k]]].id
    BY <1>9
  <2>2. a[k] = p[b[k]]
    BY <2>1 DEF Distinct
  <2>3. QED
    BY <1>1, <2>2
<1>11. ById(s) = ById(t)
  <2>1. ById(s) = [k \in 1..n |-> s[a[k]]]
    BY <1>3 DEF Permuted
  <2>2. ById(t) = [k \in 1..n |-> t[b[k]]]
    BY <1>1, <1>4 DEF Permuted
  <2>3. QED
    BY <1>10, <2>1, <2>2
<1>12. QED
  BY <1>2, <1>11 DEF t

----------------------------------------------------------------------------
\* The accepted verdicts.

LEMMA VerdictChecks ==
  ASSUME NEW v \in Verdict
  PROVE  \E n \in Nat : /\ v.checks \in [1..n -> Check]
                        /\ Len(v.checks) = n /\ v.checks \in Seq(Check)
<1>1. PICK n \in 0..MaxChecks : v.checks \in [1..n -> Check]
  BY DEF Verdict
<1>2. n \in Nat
  BY ReportAssumption
<1>3. v.checks \in Seq(Check) /\ Len(v.checks) = n
  BY <1>1, <1>2
<1>4. QED
  BY <1>1, <1>2, <1>3

\* As many results as requirements, and all of them: each has one result.
LEMMA OncePerRequirement ==
  ASSUME NEW n \in Nat, NEW s \in [1..n -> Check], NEW known,
         n = Cardinality(Required(known)),
         {s[i].id : i \in DOMAIN s} = Required(known)
  PROVE  Distinct(s)
<1> DEFINE id == [i \in 1..n |-> s[i].id]
<1>1. id \in Surjection(1..n, Required(known))
  BY DEF Surjection
<1>2. IsFiniteSet(1..n) /\ Cardinality(1..n) = n
  BY FS_Interval
<1>3. id \in Injection(1..n, Required(known))
  <2> HIDE DEF id
  <2>1. QED
    BY ONLY <1>1, <1>2, n = Cardinality(Required(known)), FS_Surjection
<1>4. QED
  BY <1>3 DEF Injection, IsInjective, Distinct

\* Accepts and Build do not look at the order of the results.
LEMMA BuildForgets ==
  ASSUME NEW known, NEW v \in Verdict, NEW n \in Nat,
         v.checks \in [1..n -> Check], Len(v.checks) = n, Accepts(known, v),
         NEW p \in [1..n -> 1..n],
         \A i, j \in 1..n : p[i] = p[j] => i = j,
         NEW w, w = [v EXCEPT !.checks = Permuted(@, p)]
  PROVE  Accepts(known, w) /\ Build(known, w) = Build(known, v)
<1> DEFINE s == v.checks
           t == Permuted(s, p)
<1>1. w.checks = t /\ w.overall = v.overall
  BY DEF Verdict
<1>2. /\ t \in [1..n -> Check] /\ DOMAIN t = 1..n /\ DOMAIN s = 1..n
      /\ \A i \in 1..n : t[i] = s[p[i]]
  BY DEF Permuted
<1>3. Len(t) = n
  BY <1>2
<1>4. Distinct(s)
  BY OncePerRequirement DEF Accepts
<1>5. ById(t) = ById(s)
  BY <1>4, ByIdForgets
<1>6. \A i \in 1..n : \E k \in 1..n : p[k] = i
  BY Reaches
<1> HIDE DEF t
<1>7. {t[i].id : i \in DOMAIN t} = {s[i].id : i \in DOMAIN s}
  <2>1. ASSUME NEW i \in 1..n
        PROVE  \E k \in 1..n : s[i].id = t[k].id
    <3>1. PICK k \in 1..n : p[k] = i
      BY <1>6
    <3>2. t[k] = s[i]
      BY <1>2, <3>1
    <3> HIDE DEF s
    <3>3. QED
      BY <3>2
  <2>2. ASSUME NEW k \in 1..n
        PROVE  \E i \in 1..n : t[k].id = s[i].id
    <3>1. t[k] = s[p[k]] /\ p[k] \in 1..n
      BY <1>2
    <3> HIDE DEF s
    <3>2. QED
      BY <3>1
  <2>3. DOMAIN t = 1..n /\ DOMAIN s = 1..n
    BY <1>2
  <2> HIDE DEF s
  <2>4. {t[i].id : i \in 1..n} = {s[i].id : i \in 1..n}
    <3>1. ASSUME NEW x \in {t[i].id : i \in 1..n}
          PROVE  x \in {s[i].id : i \in 1..n}
      <4>1. PICK k \in 1..n : x = t[k].id
        OBVIOUS
      <4>2. QED
        BY <4>1, <2>2
    <3>2. ASSUME NEW x \in {s[i].id : i \in 1..n}
          PROVE  x \in {t[i].id : i \in 1..n}
      <4>1. PICK k \in 1..n : x = s[k].id
        OBVIOUS
      <4>2. QED
        BY <4>1, <2>1
    <3>3. QED
      BY ONLY <3>1, <3>2
  <2>5. QED
    BY <2>3, <2>4
<1>8. ASSUME NEW i \in DOMAIN t, t[i].state # "PASS"
      PROVE  Reached(known, t[i]) \subseteq known.consumers
  <2>1. p[i] \in 1..n /\ t[i] = s[p[i]]
    BY <1>2
  <2>2. \A k \in DOMAIN s :
          s[k].state # "PASS" => Reached(known, s[k]) \subseteq known.consumers
    BY DEF Accepts
  <2> HIDE DEF s
  <2>3. QED
    BY <1>2, <1>8, <2>1, <2>2, Zenon
<1>9. Accepts(known, w)
  <2>1. /\ v.overall \in State
        /\ n = Cardinality(Required(known))
        /\ AggregateReportState(States(ById(s))) = v.overall
        /\ {s[i].id : i \in DOMAIN s} = Required(known)
    BY DEF Accepts
  <2> HIDE DEF s
  <2>2. /\ w.overall \in State
        /\ Len(w.checks) = Cardinality(Required(known))
    BY <1>1, <1>3, <2>1
  <2>3. AggregateReportState(States(ById(w.checks))) = w.overall
    BY <1>1, <1>5, <2>1
  <2>4. {w.checks[i].id : i \in DOMAIN w.checks} = Required(known)
    <3>1. {t[i].id : i \in DOMAIN t} = Required(known)
      BY <1>7, <2>1
    <3>2. w.checks = t
      BY <1>1
    <3>3. QED
      BY ONLY <3>1, <3>2, Zenon
  <2>5. \A i \in DOMAIN w.checks :
          w.checks[i].state # "PASS" => Reached(known, w.checks[i]) \subseteq known.consumers
    BY ONLY <1>1, <1>8
  <2>6. QED
    BY ONLY <2>2, <2>3, <2>4, <2>5 DEF Accepts
<1>10. Build(known, w) = Build(known, v)
  BY <1>1, <1>5, Zenon DEF Build
<1>11. QED
  BY <1>9, <1>10

----------------------------------------------------------------------------
\* What Build draws.

\* The documents that n results can build.
AllNodes(known, s) == UNION {DrawnNodes(known, s[i]) : i \in DOMAIN s}
AllEdges(known, s) == UNION {DrawnEdges(known, s[i]) : i \in DOMAIN s}
CheckStates == State \cup {"OTHER"}
Documents(known, s, overall) ==
  [state: {overall},
   nodes: UNION {[N -> CheckStates] : N \in SUBSET AllNodes(known, s)},
   edges: SUBSET AllEdges(known, s),
   evidence: Seq(Check)]

LEMMA BlankIsDocument ==
  ASSUME NEW known, NEW s, NEW overall
  PROVE  Blank(overall) \in Documents(known, s, overall)
<1>1. << >> \in [{} -> CheckStates]
  OBVIOUS
<1>2. << >> \in UNION {[N -> CheckStates] : N \in SUBSET AllNodes(known, s)}
  BY <1>1
<1>3. << >> \in Seq(Check)
  OBVIOUS
<1>4. QED
  BY <1>2, <1>3 DEF Blank, Documents

\* AddCheck, field by field.
Adds(known, d, check, e) ==
  /\ e.evidence = Append(d.evidence, check)
  /\ check.state = "PASS" => e.nodes = d.nodes /\ e.edges = d.edges
  /\ check.state # "PASS" =>
       /\ DOMAIN e.nodes = DOMAIN d.nodes \cup DrawnNodes(known, check)
       /\ e.edges = d.edges \cup DrawnEdges(known, check)

LEMMA AddCheckAdds ==
  ASSUME NEW known, NEW n \in Nat, NEW s \in [1..n -> Check], NEW i \in 1..n,
         NEW overall, NEW d \in Documents(known, s, overall),
         NEW e, e = AddCheck(known, d, s[i])
  PROVE  e \in Documents(known, s, overall) /\ Adds(known, d, s[i], e)
<1> DEFINE drawn == DrawnNodes(known, s[i])
           added == AddNodes(d.nodes, drawn, s[i].state)
<1>1. /\ d = [state |-> d.state, nodes |-> d.nodes, edges |-> d.edges,
              evidence |-> d.evidence]
      /\ d.state = overall /\ d.evidence \in Seq(Check)
      /\ d.edges \in SUBSET AllEdges(known, s)
      /\ d.nodes \in UNION {[N -> CheckStates] : N \in SUBSET AllNodes(known, s)}
  BY DEF Documents
<1>2. s[i] \in Check /\ s[i].state \in CheckStates
  BY DEF Check, CheckStates
<1>3. /\ DrawnNodes(known, s[i]) \subseteq AllNodes(known, s)
      /\ DrawnEdges(known, s[i]) \subseteq AllEdges(known, s)
  <2>1. i \in DOMAIN s
    OBVIOUS
  <2>2. QED
    BY <2>1, Zenon DEF AllNodes, AllEdges
<1>4. /\ DOMAIN added = DOMAIN d.nodes \cup drawn
      /\ added \in UNION {[N -> CheckStates] : N \in SUBSET AllNodes(known, s)}
  <2>1. PICK N \in SUBSET AllNodes(known, s) : d.nodes \in [N -> CheckStates]
    BY <1>1
  <2>2. added \in [N \cup drawn -> CheckStates]
    <3> HIDE DEF drawn
    <3>1. QED
      BY <1>2, <2>1 DEF AddNodes
  <2>3. N \cup drawn \in SUBSET AllNodes(known, s)
    BY <1>3
  <2> HIDE DEF drawn, added
  <2>4. QED
    BY <2>1, <2>2, <2>3
<1>5. CASE s[i].state = "PASS"
  <2>1. e = [d EXCEPT !.evidence = Append(@, s[i])]
    BY <1>5 DEF AddCheck
  <2>2. e = [state |-> d.state, nodes |-> d.nodes, edges |-> d.edges,
             evidence |-> Append(d.evidence, s[i])]
    BY <1>1, <2>1
  <2>3. QED
    BY <1>1, <1>2, <1>5, <2>2 DEF Documents, Adds
<1>6. CASE s[i].state # "PASS"
  <2>1. e = [[d EXCEPT !.evidence = Append(@, s[i])] EXCEPT
               !.nodes = AddNodes(@, DrawnNodes(known, s[i]), s[i].state),
               !.edges = @ \cup DrawnEdges(known, s[i])]
    BY <1>6 DEF AddCheck
  <2>2. e = [state |-> d.state, nodes |-> added,
             edges |-> d.edges \cup DrawnEdges(known, s[i]),
             evidence |-> Append(d.evidence, s[i])]
    <3> HIDE DEF drawn
    <3>1. QED
      BY <1>1, <2>1 DEF drawn
  <2>3. /\ e.nodes = added /\ e.edges = d.edges \cup DrawnEdges(known, s[i])
        /\ e.evidence = Append(d.evidence, s[i])
    <3> HIDE DEF added
    <3>1. QED
      BY ONLY <2>2
  <2>4. Append(d.evidence, s[i]) \in Seq(Check)
    BY <1>1, <1>2
  <2>5. d.edges \cup DrawnEdges(known, s[i]) \in SUBSET AllEdges(known, s)
    BY <1>1, <1>3
  <2> HIDE DEF added
  <2>6. e \in Documents(known, s, overall)
    BY ONLY <1>1, <1>4, <2>2, <2>4, <2>5 DEF Documents
  <2>7. DOMAIN e.nodes = DOMAIN d.nodes \cup DrawnNodes(known, s[i])
    BY <1>4, <2>3
  <2> HIDE DEF drawn
  <2>8. QED
    BY ONLY <1>6, <2>3, <2>6, <2>7 DEF Adds
<1>7. QED
  BY <1>5, <1>6

Drawing(known, s, overall) ==
  FoldLeft(LAMBDA d, check : AddCheck(known, d, check), Blank(overall), s)

\* The run of the loop of Build.
DrawsInto(f, known, s, overall, n) ==
  /\ f[0] = Blank(overall)
  /\ \A k \in 1..n : f[k] = AddCheck(known, f[k - 1], s[k])
  /\ Drawing(known, s, overall) = f[n]

LEMMA DrawRun ==
  ASSUME NEW known, NEW n \in Nat, NEW s \in [1..n -> Check], NEW overall
  PROVE  \E f \in [0..n -> Documents(known, s, overall)] :
           DrawsInto(f, known, s, overall, n)
<1> DEFINE D == Documents(known, s, overall)
           Equation(h) ==
             h = [S \in SUBSET (DOMAIN s) |->
                    IF S = {} THEN Blank(overall)
                    ELSE LET x == Max(S)
                         IN  AddCheck(known, h[S \ {x}], s[x])]
           fold == CHOOSE h : Equation(h)
           step == [i \in 1..n |->
                      [d \in D |-> AddCheck(known, d, s[i])]]
           f == [k \in 0..n |-> fold[1..k]]
<1>1. Drawing(known, s, overall) = fold[1..n]
  <2>1. DOMAIN s = 1..n
    OBVIOUS
  <2>2. QED
    BY <2>1, Zenon DEF Drawing, FoldLeft, MapThenFoldSet
<1>2. \A i \in 1..n : \A d \in D : AddCheck(known, d, s[i]) \in D
  BY AddCheckAdds
<1>3. \E h : Equation(h)
  <2>1. step \in [1..n -> [D -> D]]
    <3> HIDE DEF D
    <3>1. QED
      BY <1>2
  <2>2. PICK h \in [SUBSET (1..n) -> D] : IsFold(h, n, Blank(overall), step)
    <3>1. Blank(overall) \in D
      BY BlankIsDocument
    <3> HIDE DEF step, D
    <3>2. QED
      BY <2>1, <3>1, FoldSolution
  <2> HIDE DEF D
  <2>3. ASSUME NEW S \in SUBSET (1..n), S # {}
        PROVE  h[S] = AddCheck(known, h[S \ {Max(S)}], s[Max(S)])
    <3>1. Max(S) \in 1..n /\ h[S \ {Max(S)}] \in D
      BY <2>3, SetHasMax
    <3>2. QED
      BY <2>2, <2>3, <3>1 DEF IsFold
  <2>4. Equation(h)
    BY <2>2, <2>3 DEF IsFold
  <2>5. QED
    BY <2>4
<1>4. Equation(fold)
  <2> HIDE DEF Equation
  <2>1. QED
    BY <1>3
<1> HIDE DEF fold
<1>5. fold[{}] = Blank(overall) /\ f[0] = fold[1..0] /\ 1..0 = {}
  BY <1>4
<1>6. ASSUME NEW k \in 1..n
      PROVE  f[k] = AddCheck(known, f[k - 1], s[k])
  <2>1. fold[1..k] = AddCheck(known, fold[(1..k) \ {Max(1..k)}], s[Max(1..k)])
    BY <1>4, PrefixAt
  <2>2. k \in 0..n /\ k - 1 \in 0..n
    OBVIOUS
  <2>3. f[k] = fold[1..k] /\ f[k - 1] = fold[1..(k - 1)]
    BY <2>2
  <2>4. Max(1..k) = k /\ (1..k) \ {k} = 1..(k - 1)
    BY PrefixAt
  <2>5. QED
    BY <2>1, <2>3, <2>4
<1>7. f \in [0..n -> D]
  <2> DEFINE T == {k \in 0..n : f[k] \in D}
  <2>1. 0 \in T
    BY <1>5, BlankIsDocument
  <2>2. ASSUME NEW k \in 0..(n - 1), k \in T
        PROVE  k + 1 \in T
    <3>1. k + 1 \in 1..n /\ (k + 1) - 1 = k
      OBVIOUS
    <3>2. f[k + 1] = AddCheck(known, f[k], s[k + 1])
      BY <1>6, <3>1
    <3> HIDE DEF f, D
    <3>3. QED
      BY <1>2, <2>2, <3>1, <3>2
  <2>3. \A k \in 0..n : k \in T
    <3> HIDE DEF T
    <3>1. QED
      BY ONLY <2>1, <2>2, n \in Nat, Induction
  <2> HIDE DEF D
  <2>4. QED
    BY <2>3
<1>8. f[0] = Blank(overall) /\ f[n] = fold[1..n]
  BY <1>5
<1> HIDE DEF f
<1>9. QED
  BY <1>1, <1>6, <1>7, <1>8 DEF DrawsInto

\* What Build draws of n sorted results: all of them, and what each one that did
\* not pass draws.
Shows(doc, known, s, n, overall) ==
  /\ doc.state = overall
  /\ doc.evidence \in Seq(Check) /\ Len(doc.evidence) = n
  /\ \A i \in 1..n : doc.evidence[i] = s[i]
  /\ \A e : e \in doc.edges <=>
       \E i \in 1..n : s[i].state # "PASS" /\ e \in DrawnEdges(known, s[i])
  /\ \A m : m \in DOMAIN doc.nodes <=>
       \E i \in 1..n : s[i].state # "PASS" /\ m \in DrawnNodes(known, s[i])

LEMMA BuildIs ==
  ASSUME NEW known, NEW v, NEW n \in Nat, NEW s \in [1..n -> Check],
         s = ById(v.checks), NEW doc, doc = Build(known, v)
  PROVE  Shows(doc, known, s, n, v.overall)
<1>1. PICK f \in [0..n -> Documents(known, s, v.overall)] :
        DrawsInto(f, known, s, v.overall, n)
  BY DrawRun
<1>2. doc = f[n]
  <2>1. doc = Drawing(known, s, v.overall)
    BY Zenon DEF Build, Drawing
  <2>2. QED
    BY <1>1, <2>1 DEF DrawsInto
<1> DEFINE Listed(k) == /\ Len(f[k].evidence) = k
                        /\ \A i \in 1..k : f[k].evidence[i] = s[i]
           Linked(k) == \A e : e \in f[k].edges <=>
             \E i \in 1..k : s[i].state # "PASS" /\ e \in DrawnEdges(known, s[i])
           Drawn(k) == \A m : m \in DOMAIN f[k].nodes <=>
             \E i \in 1..k : s[i].state # "PASS" /\ m \in DrawnNodes(known, s[i])
           T == {k \in 0..n : Listed(k) /\ Linked(k) /\ Drawn(k)}
<1>3. \A k \in 0..n : /\ f[k] \in Documents(known, s, v.overall)
                      /\ f[k].evidence \in Seq(Check) /\ f[k].state = v.overall
  BY <1>1 DEF Documents
<1>4. 0 \in T
  <2>1. /\ f[0].evidence = << >> /\ f[0].edges = {} /\ f[0].nodes = << >>
        /\ DOMAIN << >> = {} /\ 1..0 = {}
    <3>1. f[0].evidence = << >> /\ f[0].edges = {} /\ f[0].nodes = << >>
      <4>1. f[0] = [state |-> v.overall, nodes |-> << >>, edges |-> {},
                    evidence |-> << >>]
        BY <1>1, Zenon DEF Blank, DrawsInto
      <4>2. QED
        BY ONLY <4>1
    <3>2. DOMAIN << >> = {} /\ 1..0 = {}
      OBVIOUS
    <3>3. QED
      BY <3>1, <3>2
  <2>2. Listed(0) /\ Linked(0) /\ Drawn(0)
    BY <2>1
  <2> HIDE DEF Listed, Linked, Drawn
  <2>3. QED
    BY <2>2
<1>5. ASSUME NEW k \in 0..(n - 1), k \in T
      PROVE  k + 1 \in T
  <2>1. /\ k \in 0..n /\ k + 1 \in 1..n /\ k + 1 \in 0..n /\ (k + 1) - 1 = k
        /\ 1..(k + 1) = 1..k \cup {k + 1} /\ k \in Nat /\ k + 1 \notin 1..k
    OBVIOUS
  <2>2. Adds(known, f[k], s[k + 1], f[k + 1])
    <3>1. f[k + 1] = AddCheck(known, f[k], s[k + 1])
      BY <1>1, <2>1 DEF DrawsInto
    <3>2. f[k] \in Documents(known, s, v.overall)
      BY <1>3, <2>1
    <3> HIDE DEF Listed, Linked, Drawn, T
    <3>3. QED
      BY <2>1, <3>1, <3>2, AddCheckAdds, Zenon
  <2>3. Listed(k + 1)
    BY <1>3, <1>5, <2>1, <2>2 DEF Adds
  <2>4. Linked(k + 1)
    <3>1. Linked(k)
      BY <1>5
    <3>2. QED
      BY ONLY <2>1, <2>2, <3>1 DEF Adds
  <2>5. Drawn(k + 1)
    <3>1. Drawn(k)
      BY <1>5
    <3>2. QED
      BY ONLY <2>1, <2>2, <3>1 DEF Adds
  <2> HIDE DEF Listed, Linked, Drawn
  <2>6. QED
    BY <2>1, <2>3, <2>4, <2>5
<1>6. Listed(n) /\ Linked(n) /\ Drawn(n)
  <2> HIDE DEF Listed, Linked, Drawn
  <2>1. \A k \in 0..n : k \in T
    <3> HIDE DEF T
    <3>1. QED
      BY ONLY <1>4, <1>5, n \in Nat, Induction
  <2>2. QED
    BY <2>1
<1>7. doc.state = v.overall /\ doc.evidence \in Seq(Check)
  BY <1>2, <1>3
<1>8. QED
  BY <1>2, <1>6, <1>7 DEF Shows

----------------------------------------------------------------------------
\* What an accepted verdict says.

LEMMA ContractFacts ==
  ASSUME NEW known \in Contracts
  PROVE  /\ Required(known) # {}
         /\ \A id \in Required(known) :
              known.needs[id] # {} /\ known.needs[id] \subseteq known.consumers
BY ReportAssumption

LEMMA StatesAre ==
  ASSUME NEW n \in Nat, NEW s \in [1..n -> Check]
  PROVE  /\ States(s) \in Seq(CheckStates) /\ DOMAIN States(s) = 1..n
         /\ \A i \in 1..n : States(s)[i] = s[i].state
         /\ n # 0 => States(s) # << >>
<1>1. \A i \in 1..n : s[i].state \in CheckStates
  BY DEF Check, CheckStates
<1>2. DOMAIN s = 1..n
  OBVIOUS
<1>3. /\ States(s) \in [1..n -> CheckStates]
      /\ \A i \in 1..n : States(s)[i] = s[i].state
  BY <1>1, <1>2 DEF States
<1>4. n # 0 => States(s) # << >>
  BY <1>3
<1>5. QED
  BY <1>3, <1>4

\* Sorted or not, the results aggregate to the same state.
LEMMA AggregateForgets ==
  ASSUME NEW n \in Nat, n # 0, NEW s \in [1..n -> Check], Distinct(s)
  PROVE  /\ Aggregate(States(ById(s))) = Aggregate(States(s))
         /\ AggregateReportState(States(ById(s))) =
              IF \A i \in 1..n : s[i].state \in State THEN Aggregate(States(s))
              ELSE "ERROR"
<1> DEFINE t == ById(s)
<1>1. /\ t \in [1..n -> Check]
      /\ \A i \in 1..n : \E k \in 1..n : t[k] = s[i]
      /\ \A k \in 1..n : \E i \in 1..n : t[k] = s[i]
  BY ByIdKeeps
<1> HIDE DEF t
<1>2. /\ States(s) \in Seq(CheckStates) /\ DOMAIN States(s) = 1..n
      /\ \A i \in 1..n : States(s)[i] = s[i].state
      /\ States(s) # << >>
  BY StatesAre
<1>3. /\ States(t) \in Seq(CheckStates) /\ DOMAIN States(t) = 1..n
      /\ \A i \in 1..n : States(t)[i] = t[i].state
      /\ States(t) # << >>
  BY <1>1, StatesAre
<1>4. /\ Aggregate(States(s)) \in State
      /\ Aggregate(States(s)) = "PASS" <=> \A i \in 1..n : s[i].state = "PASS"
      /\ Aggregate(States(s)) = "FAIL" <=>
           /\ \A i \in 1..n : s[i].state \in {"PASS", "FAIL"}
           /\ \E i \in 1..n : s[i].state = "FAIL"
  BY <1>2, AggregateIs
<1>5. /\ Aggregate(States(t)) \in State
      /\ Aggregate(States(t)) = "PASS" <=> \A i \in 1..n : t[i].state = "PASS"
      /\ Aggregate(States(t)) = "FAIL" <=>
           /\ \A i \in 1..n : t[i].state \in {"PASS", "FAIL"}
           /\ \E i \in 1..n : t[i].state = "FAIL"
  BY <1>3, AggregateIs
<1>6. \A S : (\A i \in 1..n : t[i].state \in S) <=> (\A i \in 1..n : s[i].state \in S)
  BY ONLY <1>1
<1>7. /\ (\A i \in 1..n : t[i].state = "PASS") <=> (\A i \in 1..n : s[i].state = "PASS")
      /\ (\E i \in 1..n : t[i].state = "FAIL") <=> (\E i \in 1..n : s[i].state = "FAIL")
  <2>1. (\A i \in 1..n : t[i].state \in {"PASS"})
          <=> (\A i \in 1..n : s[i].state \in {"PASS"})
    BY ONLY <1>6, Zenon
  <2>2. ASSUME NEW i \in 1..n, t[i].state = "FAIL"
        PROVE  \E k \in 1..n : s[k].state = "FAIL"
    BY ONLY <1>1, <2>2, Zenon
  <2>3. ASSUME NEW i \in 1..n, s[i].state = "FAIL"
        PROVE  \E k \in 1..n : t[k].state = "FAIL"
    BY ONLY <1>1, <2>3, Zenon
  <2>4. (\A i \in 1..n : t[i].state = "PASS") <=> (\A i \in 1..n : s[i].state = "PASS")
    BY ONLY <2>1
  <2>5. QED
    BY ONLY <2>2, <2>3, <2>4
<1>8. Aggregate(States(t)) = Aggregate(States(s))
  BY <1>4, <1>5, <1>6, <1>7 DEF State
<1>9. AggregateReportState(States(t)) =
        IF \A i \in 1..n : t[i].state \in State THEN Aggregate(States(t))
        ELSE "ERROR"
  <2>1. (\A i \in DOMAIN States(t) : States(t)[i] \in State)
          <=> (\A i \in 1..n : t[i].state \in State)
    BY <1>3
  <2>2. QED
    BY <1>3, <2>1, ReportIs
<1>10. QED
  BY <1>6, <1>8, <1>9 DEF t

LEMMA AcceptedStates ==
  ASSUME NEW known \in Contracts, NEW v \in Verdict, Accepts(known, v),
         NEW n \in Nat, v.checks \in [1..n -> Check], Len(v.checks) = n
  PROVE  /\ Distinct(v.checks) /\ n # 0
         /\ \A i \in 1..n : v.checks[i].state \in State
         /\ v.overall = Aggregate(States(v.checks))
<1> DEFINE s == v.checks
<1>1. Distinct(s) /\ DOMAIN s = 1..n
  BY OncePerRequirement DEF Accepts
<1>2. n # 0
  <2>1. PICK id \in Required(known) : TRUE
    BY ContractFacts
  <2>2. id \in {s[i].id : i \in DOMAIN s}
    BY <2>1 DEF Accepts
  <2>3. QED
    BY <1>1, <2>2
<1>3. /\ AggregateReportState(States(ById(s))) \in State
      /\ AggregateReportState(States(ById(s))) = v.overall
  BY DEF Accepts
<1>4. "ERROR" \notin State
  BY DEF State
<1>5. QED
  BY <1>1, <1>2, <1>3, <1>4, AggregateForgets

\* An overall PASS or FAIL hides no result.
LEMMA OverallIs ==
  ASSUME NEW n \in Nat, n # 0, NEW s \in [1..n -> Check]
  PROVE  /\ Aggregate(States(s)) \in State
         /\ Aggregate(States(s)) = "PASS" <=> \A i \in 1..n : s[i].state = "PASS"
         /\ Aggregate(States(s)) = "FAIL" =>
              \A i \in 1..n : s[i].state \in {"PASS", "FAIL"}
<1>1. /\ States(s) \in Seq(CheckStates) /\ DOMAIN States(s) = 1..n
      /\ \A i \in 1..n : States(s)[i] = s[i].state
      /\ States(s) # << >>
  BY StatesAre
<1>2. QED
  BY <1>1, AggregateIs

\* What Verify publishes is accepted.
LEMMA VerifiedAccepted ==
  ASSUME NEW known \in Contracts, NEW v \in Verdict, OfVerify(known, v)
  PROVE  Accepts(known, v)
<1>1. PICK n \in Nat : v.checks \in [1..n -> Check] /\ Len(v.checks) = n
  BY VerdictChecks
<1> DEFINE s == v.checks
<1>2. /\ n = Cardinality(Required(known))
      /\ {s[i].id : i \in DOMAIN s} = Required(known)
      /\ \A i \in 1..n : s[i].state \in State /\ s[i].affected = known.needs[s[i].id]
      /\ v.overall = Aggregate(States(s)) /\ DOMAIN s = 1..n
  BY <1>1 DEF OfVerify
<1>3. Distinct(s)
  BY <1>1, <1>2, OncePerRequirement
<1>4. n # 0
  <2>1. PICK id \in Required(known) : TRUE
    BY ContractFacts
  <2>2. id \in {s[i].id : i \in DOMAIN s}
    BY <1>2, <2>1
  <2>3. QED
    BY <1>2, <2>2
<1>5. AggregateReportState(States(ById(s))) = v.overall
  BY <1>1, <1>2, <1>3, <1>4, AggregateForgets
<1>6. v.overall \in State
  BY <1>1, <1>2, <1>4, OverallIs
<1>7. \A i \in 1..n : Reached(known, s[i]) \subseteq known.consumers
  <2>1. ASSUME NEW i \in 1..n
        PROVE  Reached(known, s[i]) \subseteq known.consumers
    <3>1. s[i].id \in Required(known)
      BY <1>2
    <3>2. Reached(known, s[i]) = known.needs[s[i].id]
      BY <1>2 DEF Reached
    <3>3. QED
      BY <3>1, <3>2, ContractFacts
  <2>2. QED
    BY <2>1
<1>8. QED
  BY <1>1, <1>2, <1>5, <1>6, <1>7 DEF Accepts

----------------------------------------------------------------------------
\* The graph of a result that did not pass.

\* Of the edges of a consumer, one starts at a requirement.
LEMMA ImpactEdge ==
  ASSUME NEW c, NEW check, NEW e
  PROVE  (e \in ConsumerEdges(c, check) /\ e.from.kind = "requirement")
           <=> e = Edge(RequirementNode(check.id), ConsumerNode(c),
                        Relationship(check.state))
<1> DEFINE req == RequirementNode(check.id)
           con == ConsumerNode(c)
           dash == DashboardNode(c)
           rel == Relationship(check.state)
<1>1. req.kind = "requirement" /\ con.kind = "consumer"
  BY DEF RequirementNode, ConsumerNode, Node
<1> HIDE DEF req, con, dash, rel
<1>2. \A from, to, label : Edge(from, to, label).from = from
  BY DEF Edge
<1>3. e \in ConsumerEdges(c, check)
        <=> \/ e = Edge(con, req, "REQUIRED_BY") \/ e = Edge(req, con, rel)
            \/ Dashboard[c] # NoDashboard /\ e = Edge(con, dash, "PART_OF")
  BY DEF ConsumerEdges, req, con, dash, rel
<1>4. (e \in ConsumerEdges(c, check) /\ e.from.kind = "requirement")
        <=> e = Edge(req, con, rel)
  BY ONLY <1>1, <1>2, <1>3
<1>5. QED
  BY <1>4 DEF req, con, rel

\* The edges of a consumer join its nodes and the requirement's.
LEMMA EdgeEnds ==
  ASSUME NEW c, NEW check, NEW m
  PROVE  (\E e \in ConsumerEdges(c, check) : m = e.from \/ m = e.to)
           <=> m = RequirementNode(check.id) \/ m \in ConsumerNodes(c)
<1> DEFINE req == RequirementNode(check.id)
           con == ConsumerNode(c)
           dash == DashboardNode(c)
           rel == Relationship(check.state)
<1> HIDE DEF req, con, dash, rel
<1>1. \A from, to, label : /\ Edge(from, to, label).from = from
                           /\ Edge(from, to, label).to = to
  BY DEF Edge
<1>2. \A e : e \in ConsumerEdges(c, check)
        <=> \/ e = Edge(con, req, "REQUIRED_BY") \/ e = Edge(req, con, rel)
            \/ Dashboard[c] # NoDashboard /\ e = Edge(con, dash, "PART_OF")
  BY DEF ConsumerEdges, req, con, dash, rel
<1>3. m \in ConsumerNodes(c)
        <=> m = con \/ (Dashboard[c] # NoDashboard /\ m = dash)
  BY DEF ConsumerNodes, con, dash
<1>4. (\E e \in ConsumerEdges(c, check) : m = e.from \/ m = e.to)
        <=> m = req \/ m = con \/ (Dashboard[c] # NoDashboard /\ m = dash)
  BY ONLY <1>1, <1>2
<1>5. QED
  BY <1>3, <1>4 DEF req

LEMMA DrawnEnds ==
  ASSUME NEW known, NEW check, Reached(known, check) # {}, NEW m
  PROVE  (\E e \in DrawnEdges(known, check) : m = e.from \/ m = e.to)
           <=> m \in DrawnNodes(known, check)
<1>1. (\E e \in DrawnEdges(known, check) : m = e.from \/ m = e.to)
        <=> \E c \in Reached(known, check) :
              \E e \in ConsumerEdges(c, check) : m = e.from \/ m = e.to
  BY Zenon DEF DrawnEdges
<1>2. \A c : (\E e \in ConsumerEdges(c, check) : m = e.from \/ m = e.to)
        <=> m = RequirementNode(check.id) \/ m \in ConsumerNodes(c)
  BY EdgeEnds
<1>3. m \in DrawnNodes(known, check)
        <=> \/ m = RequirementNode(check.id)
            \/ \E c \in Reached(known, check) : m \in ConsumerNodes(c)
  BY Zenon DEF DrawnNodes
<1>4. QED
  BY <1>1, <1>2, <1>3

LEMMA DrawnSomething ==
  ASSUME NEW known, NEW check, Reached(known, check) # {}
  PROVE  DrawnEdges(known, check) # {}
<1>1. PICK c \in Reached(known, check) : TRUE
  OBVIOUS
<1>2. \E e : e \in ConsumerEdges(c, check)
  BY ImpactEdge
<1>3. QED
  BY <1>1, <1>2, Zenon DEF DrawnEdges

\* The edge that reports a violation of a consumer.
Violation(r, c) == Edge(RequirementNode(r.id), ConsumerNode(c),
                        IF r.state = "FAIL" THEN "BREAKS" ELSE "UNRESOLVED")

\* What Build makes of any verdict, in terms of the consumers that it reaches.
IsComplete(doc, known, v) ==
  /\ {doc.evidence[i].id : i \in DOMAIN doc.evidence} = Required(known)
  /\ Len(doc.evidence) = Cardinality(Required(known))
  /\ {e \in doc.edges : e.from.kind = "requirement"} =
       UNION {{Violation(r, c) : c \in Reached(known, r)} :
                r \in {q \in {v.checks[i] : i \in DOMAIN v.checks} :
                         q.state # "PASS"}}
  /\ DOMAIN doc.nodes = {e.from : e \in doc.edges} \cup {e.to : e \in doc.edges}
  /\ doc.state = "PASS" <=> doc.edges = {}

LEMMA ImpactOfBuild ==
  ASSUME NEW known \in Contracts, NEW v \in Verdict, Accepts(known, v),
         NEW doc, doc = Build(known, v)
  PROVE  IsComplete(doc, known, v)
<1> DEFINE checks == v.checks
           s == ById(checks)
           results == {checks[i] : i \in DOMAIN checks}
<1>1. PICK n \in Nat : checks \in [1..n -> Check] /\ Len(checks) = n
  BY VerdictChecks
<1>2. /\ Distinct(checks) /\ n # 0
      /\ \A i \in 1..n : checks[i].state \in State
      /\ v.overall = Aggregate(States(checks))
  BY <1>1, AcceptedStates
<1>3. /\ n = Cardinality(Required(known))
      /\ {checks[i].id : i \in DOMAIN checks} = Required(known)
      /\ DOMAIN checks = 1..n
  BY <1>1 DEF Accepts
<1> HIDE DEF checks
<1>4. /\ s \in [1..n -> Check]
      /\ \A i \in 1..n : \E k \in 1..n : s[k] = checks[i]
      /\ \A k \in 1..n : \E i \in 1..n : s[k] = checks[i]
  BY <1>1, <1>2, ByIdKeeps
<1>5. /\ doc.state = v.overall
      /\ doc.evidence \in Seq(Check) /\ Len(doc.evidence) = n
      /\ \A i \in 1..n : doc.evidence[i] = s[i]
      /\ \A e : e \in doc.edges <=>
           \E i \in 1..n : s[i].state # "PASS" /\ e \in DrawnEdges(known, s[i])
      /\ \A m : m \in DOMAIN doc.nodes <=>
           \E i \in 1..n : s[i].state # "PASS" /\ m \in DrawnNodes(known, s[i])
  <2>1. s = ById(v.checks)
    BY DEF checks
  <2> HIDE DEF s
  <2>2. Shows(doc, known, s, n, v.overall)
    BY <1>4, <2>1, BuildIs
  <2>3. QED
    BY <2>2 DEF Shows
<1> HIDE DEF s
<1>6. \A r : r \in results <=> \E k \in 1..n : r = s[k]
  <2>1. \A r : r \in results <=> \E i \in 1..n : r = checks[i]
    BY <1>3
  <2> HIDE DEF results
  <2>2. ASSUME NEW r \in results
        PROVE  \E k \in 1..n : r = s[k]
    <3>1. PICK i \in 1..n : r = checks[i]
      BY <2>1
    <3>2. PICK k \in 1..n : s[k] = checks[i]
      BY <1>4
    <3>3. QED
      BY <3>1, <3>2
  <2>3. ASSUME NEW k \in 1..n
        PROVE  s[k] \in results
    BY <1>4, <2>1
  <2>4. QED
    BY ONLY <2>2, <2>3
<1>7. \A i \in 1..n : s[i].id \in Required(known) /\ s[i].state \in State
  <2>1. \A i \in 1..n : checks[i].id \in Required(known)
    BY <1>3, Zenon
  <2>2. QED
    BY <1>2, <1>4, <2>1
<1>8. \A i \in 1..n : Reached(known, s[i]) # {}
  BY <1>7, ContractFacts DEF Reached
<1>9. {doc.evidence[i].id : i \in DOMAIN doc.evidence} = Required(known)
  <2>1. DOMAIN doc.evidence = 1..n
    BY <1>5
  <2>2. ASSUME NEW id \in Required(known)
        PROVE  \E i \in 1..n : id = doc.evidence[i].id
    <3>1. PICK i \in 1..n : id = checks[i].id
      BY <1>3
    <3>2. PICK k \in 1..n : s[k] = checks[i]
      BY <1>4
    <3>3. QED
      BY <1>5, <3>1, <3>2
  <2>3. \A i \in 1..n : doc.evidence[i].id \in Required(known)
    BY <1>5, <1>7
  <2>4. {doc.evidence[i].id : i \in 1..n} = Required(known)
    BY ONLY <2>2, <2>3
  <2>5. QED
    BY <2>1, <2>4
<1>10. \A e : e \in {x \in doc.edges : x.from.kind = "requirement"} <=>
         \E k \in 1..n : /\ s[k].state # "PASS"
                         /\ \E c \in Reached(known, s[k]) : e = Violation(s[k], c)
  <2>1. \A r, c, e : r.state \in State /\ r.state # "PASS" =>
          ((e \in ConsumerEdges(c, r) /\ e.from.kind = "requirement")
             <=> e = Violation(r, c))
    <3>1. \A r : r.state \in State /\ r.state # "PASS" =>
            Relationship(r.state)
              = IF r.state = "FAIL" THEN "BREAKS" ELSE "UNRESOLVED"
      BY DEF State, Relationship
    <3>2. QED
      BY <3>1, ImpactEdge DEF Violation
  <2>2. \A k, e : e \in DrawnEdges(known, s[k]) <=>
          \E c \in Reached(known, s[k]) : e \in ConsumerEdges(c, s[k])
    BY Zenon DEF DrawnEdges
  <2>3. ASSUME NEW e \in doc.edges, e.from.kind = "requirement"
        PROVE  \E k \in 1..n : /\ s[k].state # "PASS"
                               /\ \E c \in Reached(known, s[k]) : e = Violation(s[k], c)
    <3>1. PICK k \in 1..n : s[k].state # "PASS" /\ e \in DrawnEdges(known, s[k])
      BY <1>5
    <3>2. PICK c \in Reached(known, s[k]) : e \in ConsumerEdges(c, s[k])
      BY <2>2, <3>1
    <3>3. e = Violation(s[k], c)
      BY <1>7, <2>1, <2>3, <3>1, <3>2
    <3>4. QED
      BY <3>1, <3>3
  <2>4. ASSUME NEW e, NEW k \in 1..n, s[k].state # "PASS",
               NEW c \in Reached(known, s[k]), e = Violation(s[k], c)
        PROVE  e \in doc.edges /\ e.from.kind = "requirement"
    <3>1. e \in ConsumerEdges(c, s[k]) /\ e.from.kind = "requirement"
      BY <1>7, <2>1, <2>4
    <3>2. e \in DrawnEdges(known, s[k])
      BY <2>2, <3>1
    <3>3. QED
      BY <1>5, <2>4, <3>1, <3>2
  <2>5. QED
    BY ONLY <2>3, <2>4
<1>11. \A e : e \in UNION {{Violation(r, c) : c \in Reached(known, r)} :
                             r \in {q \in results : q.state # "PASS"}} <=>
         \E k \in 1..n : /\ s[k].state # "PASS"
                         /\ \E c \in Reached(known, s[k]) : e = Violation(s[k], c)
  <2> HIDE DEF results
  <2>1. \A e : e \in UNION {{Violation(r, c) : c \in Reached(known, r)} :
                              r \in {q \in results : q.state # "PASS"}} <=>
          \E r \in results : /\ r.state # "PASS"
                             /\ \E c \in Reached(known, r) : e = Violation(r, c)
    OBVIOUS
  <2>2. ASSUME NEW e, NEW r \in results, r.state # "PASS",
               NEW c \in Reached(known, r), e = Violation(r, c)
        PROVE  \E k \in 1..n : /\ s[k].state # "PASS"
                               /\ \E b \in Reached(known, s[k]) : e = Violation(s[k], b)
    <3>1. PICK k \in 1..n : r = s[k]
      BY <1>6
    <3>2. QED
      BY <2>2, <3>1
  <2>3. \A k \in 1..n : s[k] \in results
    BY <1>6
  <2>4. QED
    BY ONLY <2>1, <2>2, <2>3
<1>12. {e \in doc.edges : e.from.kind = "requirement"} =
         UNION {{Violation(r, c) : c \in Reached(known, r)} :
                  r \in {q \in results : q.state # "PASS"}}
  <2> HIDE DEF results
  <2>1. QED
    BY ONLY <1>10, <1>11
<1>13. DOMAIN doc.nodes = {e.from : e \in doc.edges} \cup {e.to : e \in doc.edges}
  <2>1. \A m : m \in {e.from : e \in doc.edges} \cup {e.to : e \in doc.edges}
          <=> \E e \in doc.edges : m = e.from \/ m = e.to
    OBVIOUS
  <2>2. \A i \in 1..n : \A m :
          (\E e \in DrawnEdges(known, s[i]) : m = e.from \/ m = e.to)
            <=> m \in DrawnNodes(known, s[i])
    BY <1>8, DrawnEnds
  <2>3. \A m : m \in DOMAIN doc.nodes <=>
          m \in {e.from : e \in doc.edges} \cup {e.to : e \in doc.edges}
    <3>1. ASSUME NEW m \in DOMAIN doc.nodes
          PROVE  \E e \in doc.edges : m = e.from \/ m = e.to
      <4>1. PICK i \in 1..n :
              s[i].state # "PASS" /\ m \in DrawnNodes(known, s[i])
        BY <1>5
      <4>2. PICK e \in DrawnEdges(known, s[i]) : m = e.from \/ m = e.to
        BY <2>2, <4>1
      <4>3. e \in doc.edges
        BY <1>5, <4>1
      <4>4. QED
        BY <4>2, <4>3
    <3>2. ASSUME NEW m, NEW e \in doc.edges, m = e.from \/ m = e.to
          PROVE  m \in DOMAIN doc.nodes
      <4>1. PICK i \in 1..n :
              s[i].state # "PASS" /\ e \in DrawnEdges(known, s[i])
        BY <1>5
      <4>2. m \in DrawnNodes(known, s[i])
        BY <2>2, <3>2, <4>1
      <4>3. QED
        BY <1>5, <4>1, <4>2
    <3>3. QED
      BY ONLY <2>1, <3>1, <3>2
  <2>4. QED
    BY ONLY <2>3
<1>14. doc.state = "PASS" <=> doc.edges = {}
  <2>1. doc.state = "PASS" <=> \A i \in 1..n : checks[i].state = "PASS"
    BY <1>1, <1>2, <1>5, OverallIs
  <2>2. (\A i \in 1..n : checks[i].state = "PASS")
          <=> (\A k \in 1..n : s[k].state = "PASS")
    BY ONLY <1>4
  <2>3. (\A k \in 1..n : s[k].state = "PASS") <=> doc.edges = {}
    <3>1. \A k \in 1..n : DrawnEdges(known, s[k]) # {}
      BY <1>8, DrawnSomething
    <3>2. QED
      BY ONLY <1>5, <3>1
  <2>4. QED
    BY ONLY <2>1, <2>2, <2>3
<1>15. QED
  BY <1>3, <1>5, <1>9, <1>12, <1>13, <1>14 DEF checks, IsComplete

----------------------------------------------------------------------------
\* What the command has built.

\* The document is Build's, of an accepted verdict; it is there while the
\* outputs are written.
BuiltInv ==
  /\ contract \in Contracts /\ verdict \in Verdict
  /\ Built => Accepts(contract, verdict) /\ document = Build(contract, verdict)
  /\ pc \in {"render", "openReport", "writeReport", "openSummary",
             "writeSummary", "written"} => Built

LEMMA BuildState ==
  ASSUME NEW known \in Contracts, NEW v \in Verdict, Accepts(known, v)
  PROVE  Build(known, v).state = v.overall /\ Build(known, v) # NoDocument
<1>1. PICK n \in Nat : v.checks \in [1..n -> Check] /\ Len(v.checks) = n
  BY VerdictChecks
<1>2. Distinct(v.checks)
  BY <1>1, AcceptedStates
<1>3. PICK s \in [1..n -> Check] : s = ById(v.checks)
  BY <1>1, <1>2, ByIdKeeps
<1>4. Shows(Build(known, v), known, s, n, v.overall)
  BY <1>3, BuildIs
<1>5. Build(known, v).state = v.overall
  BY <1>4 DEF Shows
<1>6. v.overall \in State
  BY DEF Accepts
<1>7. NoDocument.state \notin State
  BY DEF NoDocument, State
<1>8. QED
  BY <1>5, <1>6, <1>7

LEMMA BuiltInit == Init => BuiltInv
BY DEF Init, BuiltInv, Built

LEMMA BuiltStep ==
  ASSUME BuiltInv, [Next]_vars
  PROVE  BuiltInv'
<1>1. contract' = contract /\ verdict' = verdict
  BY DEF Next, vars, RejectInputs, RejectVerdict, BuildDocument, Render,
         OpenReport, WriteReport, OpenSummary, WriteSummary, OutputFails,
         Succeed, Kill, Stopped
<1>2. CASE BuildDocument
  <2>1. /\ Accepts(contract, verdict) /\ document' = Build(contract, verdict)
        /\ contract \in Contracts /\ verdict \in Verdict
    BY <1>2 DEF BuildDocument, BuiltInv
  <2>2. document' # NoDocument
    BY <2>1, BuildState
  <2>3. QED
    BY <1>1, <2>1, <2>2 DEF BuiltInv, Built
<1>3. ASSUME document' = document,
             pc' \in {"render", "openReport", "writeReport", "openSummary",
                      "writeSummary", "written"} => Built
      PROVE  BuiltInv'
  <2>1. Built' <=> Built
    BY <1>3 DEF Built
  <2>2. QED
    BY <1>1, <1>3, <2>1 DEF BuiltInv
<1>4. CASE RejectInputs \/ RejectVerdict \/ OutputFails \/ Succeed \/ Kill
  BY <1>3, <1>4
  DEF RejectInputs, RejectVerdict, OutputFails, Succeed, Kill, Exit
<1>5. CASE Render \/ OpenReport \/ WriteReport \/ OpenSummary \/ WriteSummary
  BY <1>3, <1>5
  DEF Render, OpenReport, WriteReport, OpenSummary, WriteSummary, BuiltInv
<1>6. CASE UNCHANGED vars
  BY <1>3, <1>6 DEF vars, BuiltInv
<1>7. QED
  BY <1>2, <1>4, <1>5, <1>6 DEF Next, Stopped

LEMMA BuiltAlways == Spec => []BuiltInv
BY BuiltInit, BuiltStep, PTL DEF Spec

LEMMA ImpactFollows ==
  ASSUME BuiltInv
  PROVE  ImpactIsComplete
<1>1. SUFFICES ASSUME Built
               PROVE  ImpactIsComplete
  BY DEF ImpactIsComplete
<1>2. /\ contract \in Contracts /\ verdict \in Verdict
      /\ Accepts(contract, verdict) /\ document = Build(contract, verdict)
  BY <1>1 DEF BuiltInv
<1>3. IsComplete(document, contract, verdict)
  BY <1>2, ImpactOfBuild
<1> DEFINE impact == {e \in document.edges : e.from.kind = "requirement"}
           Named(r) == Reached(contract, r)
<1>4. PICK n \in Nat : verdict.checks \in [1..n -> Check] /\ Len(verdict.checks) = n
  BY <1>2, VerdictChecks
<1>5. \A r : r \in Violated(verdict) <=>
               \E i \in 1..n : r = verdict.checks[i] /\ r.state # "PASS"
  BY <1>4 DEF Violated
<1>6. impact = UNION {{Violation(r, c) : c \in Named(r)} : r \in Violated(verdict)}
  <2>1. {q \in {verdict.checks[i] : i \in DOMAIN verdict.checks} : q.state # "PASS"}
          = Violated(verdict)
    BY <1>4, <1>5
  <2>2. QED
    BY <1>3, <2>1 DEF IsComplete
<1>7. ASSUME NEW r \in Violated(verdict)
      PROVE  /\ r.id \in Required(contract)
             /\ Named(r) # {} /\ Named(r) \subseteq contract.consumers
             /\ OfVerify(contract, verdict) => Named(r) = contract.needs[r.id]
  <2>1. PICK i \in 1..n : r = verdict.checks[i] /\ r.state # "PASS"
    BY <1>5, <1>7
  <2>2. i \in DOMAIN verdict.checks
    BY <1>4, <2>1
  <2>3. r.id \in Required(contract)
    <3>1. {verdict.checks[j].id : j \in DOMAIN verdict.checks} = Required(contract)
      BY <1>2 DEF Accepts
    <3>2. QED
      BY <2>1, <2>2, <3>1, Zenon
  <2>4. contract.needs[r.id] # {}
    BY <1>2, <2>3, ContractFacts
  <2>5. Named(r) # {} /\ Named(r) \subseteq contract.consumers
    BY <1>2, <2>1, <2>2, <2>4 DEF Accepts, Reached
  <2>6. OfVerify(contract, verdict) => Named(r) = contract.needs[r.id]
    BY <2>1, <2>2, <2>4 DEF OfVerify, Reached
  <2>7. QED
    BY <2>3, <2>5, <2>6
<1>8. \A r, some : Violations(r, some) = {Violation(r, c) : c \in some}
  BY Zenon DEF Violations, Violation
<1>9. \A r, c : Violation(r, c).from.id = r.id
  BY DEF Violation, Edge, RequirementNode, Node
<1> HIDE DEF impact, Named
<1>10. OfVerify(contract, verdict) =>
         impact = UNION {Violations(r, contract.needs[r.id]) : r \in Violated(verdict)}
  <2>1. SUFFICES ASSUME OfVerify(contract, verdict)
                 PROVE  impact = UNION {Violations(r, contract.needs[r.id]) :
                                          r \in Violated(verdict)}
    OBVIOUS
  <2>2. ASSUME NEW r \in Violated(verdict)
        PROVE  {Violation(r, c) : c \in Named(r)}
                 = Violations(r, contract.needs[r.id])
    <3>1. Named(r) = contract.needs[r.id]
      BY <1>7, <2>1
    <3>2. Violations(r, Named(r)) = {Violation(r, c) : c \in Named(r)}
      BY <1>8
    <3>3. QED
      BY <3>1, <3>2
  <2>3. ASSUME NEW e
        PROVE  e \in impact <=>
                 e \in UNION {Violations(r, contract.needs[r.id]) :
                               r \in Violated(verdict)}
    <3>1. e \in impact <=> \E r \in Violated(verdict) :
                              e \in {Violation(r, c) : c \in Named(r)}
      BY ONLY <1>6
    <3>2. e \in UNION {Violations(r, contract.needs[r.id]) :
                        r \in Violated(verdict)}
            <=> \E r \in Violated(verdict) :
                  e \in Violations(r, contract.needs[r.id])
      OBVIOUS
    <3>3. QED
      BY ONLY <2>2, <3>1, <3>2
  <2>4. QED
    BY ONLY <2>3
<1>11. impact \subseteq
         UNION {Violations(r, contract.consumers) : r \in Violated(verdict)}
  <2>1. \A r \in Violated(verdict) :
          {Violation(r, c) : c \in Named(r)} \subseteq Violations(r, contract.consumers)
    BY <1>7, <1>8
  <2>2. QED
    BY ONLY <1>6, <2>1
<1>12. ASSUME NEW r \in Violated(verdict)
       PROVE  \E e \in impact : e.from.id = r.id
  <2>1. PICK c \in Named(r) : TRUE
    BY <1>7
  <2>2. Violation(r, c) \in impact
    BY <1>6, <2>1
  <2>3. QED
    BY <1>9, <2>2
<1>13. QED
  BY <1>3, <1>10, <1>11, <1>12, Zenon DEF ImpactIsComplete, IsComplete, impact

LEMMA OrderFollows ==
  ASSUME BuiltInv
  PROVE  OrderIndependent
<1>1. SUFFICES ASSUME Built, NEW order \in SetToSeqs(DOMAIN verdict.checks)
               PROVE  LET reordered ==
                            [verdict EXCEPT !.checks = Permuted(@, order)]
                      IN /\ Accepts(contract, reordered)
                         /\ Build(contract, reordered) = document
  BY DEF OrderIndependent
<1> DEFINE reordered == [verdict EXCEPT !.checks = Permuted(@, order)]
<1>2. /\ verdict \in Verdict
      /\ Accepts(contract, verdict) /\ document = Build(contract, verdict)
  BY <1>1 DEF BuiltInv
<1>3. PICK n \in Nat : verdict.checks \in [1..n -> Check] /\ Len(verdict.checks) = n
  BY <1>2, VerdictChecks
<1>4. DOMAIN verdict.checks = 1..n /\ IsFiniteSet(1..n) /\ Cardinality(1..n) = n
  BY <1>3, FS_Interval
<1>5. /\ order \in [1..n -> 1..n]
      /\ \A i, j \in 1..n : order[i] = order[j] => i = j
  BY <1>1, <1>4 DEF SetToSeqs
<1>6. Accepts(contract, reordered) /\ Build(contract, reordered) = Build(contract, verdict)
  BY <1>2, <1>3, <1>5, BuildForgets
<1>7. QED
  BY <1>2, <1>6

LEMMA VerifiedFollows ==
  ASSUME BuiltInv
  PROVE  VerifiedIsReported
<1>1. OfVerify(contract, verdict) => Accepts(contract, verdict)
  BY VerifiedAccepted DEF BuiltInv
<1>2. ASSUME Built, NEW i \in DOMAIN verdict.checks
      PROVE  /\ document.state = "PASS" => verdict.checks[i].state = "PASS"
             /\ document.state = "FAIL" =>
                  verdict.checks[i].state # "INCONCLUSIVE"
  <2>1. /\ contract \in Contracts /\ verdict \in Verdict
        /\ Accepts(contract, verdict) /\ document = Build(contract, verdict)
    BY <1>2 DEF BuiltInv
  <2>2. PICK n \in Nat :
          verdict.checks \in [1..n -> Check] /\ Len(verdict.checks) = n
    BY <2>1, VerdictChecks
  <2>3. n # 0 /\ verdict.overall = Aggregate(States(verdict.checks))
    BY <2>1, <2>2, AcceptedStates
  <2>4. document.state = verdict.overall
    BY <2>1, BuildState
  <2>5. /\ verdict.overall = "PASS" => \A k \in 1..n : verdict.checks[k].state = "PASS"
        /\ verdict.overall = "FAIL" =>
             \A k \in 1..n : verdict.checks[k].state \in {"PASS", "FAIL"}
    BY <2>2, <2>3, OverallIs
  <2>6. i \in 1..n
    BY <2>2
  <2>7. QED
    BY <2>4, <2>5, <2>6
<1>3. QED
  BY <1>1, <1>2 DEF VerifiedIsReported

\* The report lists all the results; of a verdict about this contract it draws
\* the impact of those that did not pass on all the consumers that the contract
\* gives them and no other, and of any verdict only on consumers that the
\* contract declares (Build).
THEOREM ImpactIsReported == Spec => []ImpactIsComplete
BY BuiltAlways, ImpactFollows, PTL

\* Accepts and Build give the same for the same results in any order.
THEOREM OrderDoesNotMatter == Spec => []OrderIndependent
BY BuiltAlways, OrderFollows, PTL

\* A verdict of Verify is rendered, and no document hides a result (Build).
THEOREM VerdictsAreReported == Spec => []VerifiedIsReported
BY BuiltAlways, VerifiedFollows, PTL

----------------------------------------------------------------------------
\* What the outputs hold.

Untouched(file) == file \in {Absent, Earlier}
Shown(file) == file = File(document, TRUE)

\* The report is whole before the summary is opened, and both, as far as they
\* are asked for, before the command succeeds.
WritingInv ==
  /\ pc = "load" => Untouched(html)
  /\ pc \in {"load", "render", "openReport", "writeReport", "openSummary"} =>
       Untouched(summary)
  /\ pc \in {"openSummary", "writeSummary", "written"} => Shown(html)
  /\ pc = "written" /\ withSummary => Shown(summary)
  /\ pc # "exited" => code = NoCode

OutputInv == WritingInv /\ OutputsFollowExitCode

LEMMA CodesDiffer == NoCode # 0 /\ NoCode # 3 /\ 2 # 0 /\ 2 # 3 /\ 3 # 0
BY DEF NoCode

\* A command that has not ended only has to keep the outputs in their order.
LEMMA OpenFollows ==
  ASSUME code' = NoCode,
         summary' \in {Absent, Earlier} \/ html' = File(document', TRUE)
  PROVE  OutputsFollowExitCode'
BY CodesDiffer DEF OutputsFollowExitCode

LEMMA OutputInit == Init => OutputInv
<1> SUFFICES ASSUME Init PROVE OutputInv
  OBVIOUS
<1>1. /\ pc = "load" /\ code = NoCode
      /\ html \in {Absent, Earlier} /\ summary \in {Absent, Earlier}
  BY DEF Init
<1>2. WritingInv
  BY <1>1 DEF WritingInv, Untouched
<1>3. OutputsFollowExitCode
  BY <1>1, CodesDiffer DEF OutputsFollowExitCode
<1>4. QED
  BY <1>2, <1>3 DEF OutputInv

LEMMA OutputStep ==
  ASSUME OutputInv, [Next]_vars
  PROVE  OutputInv'
<1>1. CASE RejectInputs \/ RejectVerdict
  <2>1. /\ pc = "load" /\ pc' = "exited" /\ code' = 3
        /\ UNCHANGED <<document, withSummary, html, summary>>
    BY <1>1 DEF RejectInputs, RejectVerdict, Exit
  <2>2. Untouched(html) /\ Untouched(summary)
    BY <2>1 DEF OutputInv, WritingInv
  <2>3. OutputsFollowExitCode'
    BY <2>1, <2>2, CodesDiffer DEF OutputsFollowExitCode, Untouched
  <2>4. QED
    BY <2>1, <2>3 DEF OutputInv, WritingInv
<1>2. CASE BuildDocument
  <2>1. /\ pc = "load" /\ pc' = "render" /\ code' = code
        /\ UNCHANGED <<withSummary, html, summary>>
    BY <1>2 DEF BuildDocument
  <2>2. WritingInv'
    BY <2>1 DEF OutputInv, WritingInv, Untouched
  <2>3. QED
    BY <2>1, <2>2, OpenFollows DEF OutputInv, WritingInv, Untouched
<1>3. CASE Render
  <2>1. /\ pc = "render" /\ pc' = "openReport"
        /\ UNCHANGED <<document, code, withSummary, html, summary>>
    BY <1>3 DEF Render
  <2>2. QED
    BY <2>1 DEF OutputInv, WritingInv, Untouched, OutputsFollowExitCode
<1>4. CASE OpenReport
  <2>1. /\ pc = "openReport" /\ pc' = "writeReport"
        /\ UNCHANGED <<document, code, withSummary, summary>>
    BY <1>4 DEF OpenReport
  <2>2. WritingInv'
    BY <2>1 DEF OutputInv, WritingInv, Untouched
  <2>3. QED
    BY <2>1, <2>2, OpenFollows DEF OutputInv, WritingInv, Untouched
<1>5. CASE WriteReport
  <2>1. /\ pc = "writeReport" /\ pc' \in {"openSummary", "written"}
        /\ pc' = "written" => ~withSummary
        /\ html' = File(document, TRUE)
        /\ UNCHANGED <<document, code, withSummary, summary>>
    BY <1>5 DEF WriteReport
  <2>2. WritingInv'
    BY <2>1 DEF OutputInv, WritingInv, Untouched, Shown
  <2>3. QED
    BY <2>1, <2>2, OpenFollows DEF OutputInv, WritingInv
<1>6. CASE OpenSummary
  <2>1. /\ pc = "openSummary" /\ pc' = "writeSummary"
        /\ UNCHANGED <<document, code, withSummary, html>>
    BY <1>6 DEF OpenSummary
  <2>2. WritingInv'
    BY <2>1 DEF OutputInv, WritingInv, Shown
  <2>3. QED
    BY <2>1, <2>2, OpenFollows DEF OutputInv, WritingInv, Shown
<1>7. CASE WriteSummary
  <2>1. /\ pc = "writeSummary" /\ pc' = "written"
        /\ summary' = File(document, TRUE)
        /\ UNCHANGED <<document, code, withSummary, html>>
    BY <1>7 DEF WriteSummary
  <2>2. WritingInv'
    BY <2>1 DEF OutputInv, WritingInv, Shown
  <2>3. QED
    BY <2>1, <2>2, OpenFollows DEF OutputInv, WritingInv, Shown
<1>8. CASE OutputFails
  <2>1. /\ pc' = "exited" /\ code' = 2
        /\ UNCHANGED <<document, withSummary, html, summary>>
    BY <1>8 DEF OutputFails, Exit
  <2>2. OutputsFollowExitCode'
    BY <2>1, CodesDiffer DEF OutputInv, OutputsFollowExitCode
  <2>3. QED
    BY <2>1, <2>2 DEF OutputInv, WritingInv
<1>9. CASE Succeed
  <2>1. /\ pc = "written" /\ pc' = "exited" /\ code' = 0
        /\ UNCHANGED <<document, withSummary, html, summary>>
    BY <1>9 DEF Succeed, Exit
  <2>2. Shown(html) /\ (withSummary => Shown(summary))
    BY <2>1 DEF OutputInv, WritingInv
  <2>3. OutputsFollowExitCode'
    BY <2>1, <2>2, CodesDiffer DEF OutputsFollowExitCode, Shown
  <2>4. QED
    BY <2>1, <2>3 DEF OutputInv, WritingInv
<1>10. CASE Kill
  <2>1. /\ pc # "exited" /\ pc' = "killed"
        /\ UNCHANGED <<document, code, withSummary, html, summary>>
    BY <1>10 DEF Kill, Ended
  <2>2. QED
    BY <2>1 DEF OutputInv, WritingInv, OutputsFollowExitCode
<1>11. CASE UNCHANGED vars
  BY <1>11
  DEF vars, OutputInv, WritingInv, Untouched, Shown, OutputsFollowExitCode
<1>12. QED
  BY <1>1, <1>2, <1>3, <1>4, <1>5, <1>6, <1>7, <1>8, <1>9, <1>10, <1>11
  DEF Next, Stopped

\* Exit code 0 stands for whole outputs of this verdict, exit code 3 for
\* untouched ones, and no new summary lies beside an older report (runReport).
THEOREM OutputsAreSound == Spec => []OutputsFollowExitCode
<1>1. OutputInv => OutputsFollowExitCode
  BY DEF OutputInv
<1>2. OutputInv /\ [Next]_vars => OutputInv'
  BY OutputStep
<1>3. QED
  BY OutputInit, <1>1, <1>2, PTL DEF Spec

----------------------------------------------------------------------------
\* The types.

LEMMA TypeInit == Init => TypeOK
BY DEF Init, TypeOK, Built

LEMMA TypeStep ==
  ASSUME TypeOK, BuiltInv, BuiltInv', WritingInv, [Next]_vars
  PROVE  TypeOK'
<1>1. contract' \in Contracts /\ verdict' \in Verdict
  BY DEF BuiltInv
<1>2. Built' => document'.state \in State
  <2>1. SUFFICES ASSUME Built'
                 PROVE  document'.state \in State
    OBVIOUS
  <2>2. /\ contract' \in Contracts /\ verdict' \in Verdict
        /\ Accepts(contract', verdict') /\ document' = Build(contract', verdict')
    BY <2>1 DEF BuiltInv
  <2>3. document'.state = verdict'.overall
    BY <2>2, BuildState
  <2>4. verdict'.overall \in State
    BY <2>2 DEF Accepts
  <2>5. QED
    BY <2>3, <2>4
<1> DEFINE Fine(file, d) ==
             \/ file \in {Absent, Earlier}
             \/ d # NoDocument /\ file \in {File(d, w) : w \in BOOLEAN}
<1>3. Fine(html, document) /\ Fine(summary, document)
  BY DEF TypeOK, Built
<1>4. ASSUME /\ pc' \in {"load", "render", "openReport", "writeReport",
                         "openSummary", "writeSummary", "written", "exited",
                         "killed"}
             /\ code' \in {0, 2, 3, NoCode} /\ withSummary' = withSummary,
             Fine(html', document'), Fine(summary', document')
      PROVE  TypeOK'
  <2>1. withSummary' \in BOOLEAN
    BY <1>4 DEF TypeOK
  <2>2. \A file \in {html', summary'} :
          \/ file \in {Absent, Earlier}
          \/ Built' /\ file \in {File(document', w) : w \in BOOLEAN}
    BY <1>4 DEF Built
  <2>3. QED
    BY <1>1, <1>2, <1>4, <2>1, <2>2 DEF TypeOK
<1>5. CASE BuildDocument
  <2>1. Fine(html', document') /\ Fine(summary', document')
    BY <1>5 DEF BuildDocument, WritingInv, Untouched
  <2>2. QED
    BY <1>4, <1>5, <2>1 DEF BuildDocument, TypeOK
<1>6. ASSUME document' = document,
             \/ html' = html
             \/ Built /\ \E w \in BOOLEAN : html' = File(document, w),
             \/ summary' = summary
             \/ Built /\ \E w \in BOOLEAN : summary' = File(document, w)
      PROVE  Fine(html', document') /\ Fine(summary', document')
  <2>1. Built <=> document # NoDocument
    BY DEF Built
  <2>2. QED
    BY <1>3, <1>6, <2>1
<1>7. CASE \/ RejectInputs \/ RejectVerdict \/ OutputFails \/ Succeed \/ Kill
           \/ Render
  <2> HIDE DEF Fine
  <2>1. /\ document' = document /\ html' = html /\ summary' = summary
        /\ withSummary' = withSummary /\ code' \in {0, 2, 3, code}
        /\ pc' \in {"exited", "killed", "openReport"}
    BY <1>7
    DEF RejectInputs, RejectVerdict, OutputFails, Succeed, Kill, Render, Exit
  <2>2. Fine(html', document') /\ Fine(summary', document')
    BY <1>6, <2>1
  <2>3. QED
    BY <1>4, <2>1, <2>2 DEF TypeOK
<1>8. CASE OpenReport \/ WriteReport \/ OpenSummary \/ WriteSummary
  <2> HIDE DEF Fine
  <2>1. /\ document' = document /\ withSummary' = withSummary /\ code' = code
        /\ pc \in {"openReport", "writeReport", "openSummary", "writeSummary"}
        /\ pc' \in {"writeReport", "openSummary", "writeSummary", "written"}
        /\ html' = html \/ \E w \in BOOLEAN : html' = File(document, w)
        /\ summary' = summary \/ \E w \in BOOLEAN : summary' = File(document, w)
    BY <1>8 DEF OpenReport, WriteReport, OpenSummary, WriteSummary
  <2>2. Built
    BY <2>1 DEF BuiltInv
  <2>3. Fine(html', document') /\ Fine(summary', document')
    BY <1>6, <2>1, <2>2
  <2>4. QED
    BY <1>4, <2>1, <2>3 DEF TypeOK
<1>9. CASE UNCHANGED vars
  <2> HIDE DEF Fine
  <2>1. Fine(html', document') /\ Fine(summary', document')
    BY <1>6, <1>9 DEF vars
  <2>2. QED
    BY <1>4, <1>9, <2>1 DEF vars, TypeOK
<1>10. QED
  BY <1>5, <1>7, <1>8, <1>9 DEF Next, Stopped

\* The type invariant; a file on disk is an older one or shows the document.
THEOREM TypeCorrect == Spec => []TypeOK
<1>1. TypeOK /\ BuiltInv /\ BuiltInv' /\ OutputInv /\ [Next]_vars => TypeOK'
  BY TypeStep DEF OutputInv
<1>2. OutputInv /\ [Next]_vars => OutputInv'
  BY OutputStep
<1>3. QED
  BY TypeInit, BuiltAlways, OutputInit, <1>1, <1>2, PTL DEF Spec

=============================================================================
