---------------------------- MODULE Miner_proofs ----------------------------
(***************************************************************************)
(* Proofs about Miner and Contract, for every set of dashboards and alert  *)
(* rules: the contract that is mined is canonical and valid, asks what the *)
(* queries ask and no more, and is read back from its file as it was mined *)
(* or not at all.                                                          *)
(*                                                                         *)
(* The inductive invariant has three parts: ReadInv (what was read),       *)
(* CollectInv (what was collected from it) and FileInv (the contract that  *)
(* was written, and what became of its file).                              *)
(***************************************************************************)
EXTENDS Miner, Lists_proofs

----------------------------------------------------------------------------
\* The queries.

\* A list of one.
LEMMA OnlyOne ==
  ASSUME NEW s, IsList(s), Only(s)
  PROVE  /\ DOMAIN s = {1} /\ Head(s) = s[1] /\ ToSet(s) = {s[1]} /\ s = <<s[1]>>
<1>1. s \in Seq(ToSet(s)) /\ Len(s) = 1
  BY DEF IsList, Only
<1> DEFINE S == ToSet(s)
<1>2. DOMAIN s = 1..1 /\ 1..1 = {1}
  BY <1>1
<1>3. ToSet(s) = {s[1]}
  BY <1>2 DEF ToSet
<1>4. s = <<s[1]>> /\ Head(s) = s[1]
  <2> HIDE DEF S
  <2>1. s \in Seq(S) /\ Len(s) = 1
    BY <1>1 DEF S
  <2>2. QED
    BY ONLY <2>1
<1>5. QED
  BY <1>2, <1>3, <1>4

\* The adapter maps a list one to one.
LEMMA MappedOnly ==
  ASSUME NEW s, IsList(s), NEW t, DOMAIN t = DOMAIN s, t = [i \in DOMAIN s |-> t[i]],
         Only(t)
  PROVE  Only(s) /\ Head(t) = t[1]
<1>1. s \in Seq(ToSet(s)) /\ Len(t) = 1
  BY DEF IsList, Only
<1>2. DOMAIN s = 1..Len(s) /\ Len(s) \in Nat
  BY ONLY <1>1
<1>3. t \in Seq({t[i] : i \in 1..Len(s)}) /\ Len(t) = Len(s)
  BY <1>2
<1>4. QED
  BY <1>1, <1>2, <1>3 DEF Only

LEMMA Singleton ==
  ASSUME NEW f, DOMAIN f = {1}, f = [i \in DOMAIN f |-> f[i]]
  PROVE  f = <<f[1]>>
<1>1. f = [i \in 1..1 |-> f[i]]
  <2>1. {1} = 1..1
    OBVIOUS
  <2>2. QED
    BY <2>1
<1>2. QED
  BY <1>1

LEMMA FirstOfTwo ==
  ASSUME NEW a, NEW b
  PROVE  FirstNonEmpty(<<a, b>>) \in {"", a, b}
<1> DEFINE values == <<a, b>>
           given == {i \in DOMAIN values : values[i] # ""}
           first == CHOOSE i \in given : \A j \in given : i <= j
<1>1. DOMAIN values = {1, 2} /\ values[1] = a /\ values[2] = b
  OBVIOUS
<1>2. CASE given = {}
  BY <1>2, Zenon DEF FirstNonEmpty
<1>3. CASE given # {}
  <2>1. \E i \in given : \A j \in given : i <= j
    <3>1. given \in SUBSET Nat
      <4>1. given \subseteq {1, 2}
        BY ONLY <1>1
      <4>2. {1, 2} \subseteq Nat
        OBVIOUS
      <4>3. QED
        BY ONLY <4>1, <4>2
    <3>2. QED
      BY <1>3, <3>1, LeastNumber
  <2>2. first \in {1, 2}
    BY <1>1, <2>1
  <2>3. FirstNonEmpty(values) = values[first]
    BY <1>3, Zenon DEF FirstNonEmpty
  <2>4. QED
    BY <1>1, <2>2, <2>3
<1>4. QED
  BY <1>2, <1>3

\* A query that is its traces and its one aggregation, and nothing else.
LEMMA SpecIsAlone ==
  ASSUME NEW spec, WireSpec(spec), Decodes(spec), NEW expression,
         NEW mapped, mapped = MapQuerySpec(spec),
         mapped.unsupported = {}, ~mapped.disabled,
         {mapped.signal, mapped.dataSource} \ {""} = {"traces"},
         Only(mapped.aggregations),
         Head(mapped.aggregations).expression = expression
  PROVE  Alone(spec, expression)
<1> DEFINE list == [i \in DOMAIN spec.aggregations |->
                      MapAggregation(spec.aggregations[i])]
<1>1. /\ mapped.signal = spec.signal /\ mapped.disabled = spec.disabled
      /\ mapped.dataSource = FirstNonEmpty(<<spec.dataSource, spec.source>>)
      /\ mapped.unsupported = UnsupportedNodes(spec)
      /\ mapped.aggregations = list
  BY DEF MapQuerySpec
<1>2. spec.lists = {} /\ spec.having \in EmptyForms
  BY <1>1 DEF UnsupportedNodes, HasJSONContent
<1>3. IsList(spec.aggregations)
  BY DEF WireSpec
<1>4. Only(spec.aggregations) /\ Head(list) = list[1]
  <2>1. DOMAIN list = DOMAIN spec.aggregations /\ Only(list)
        /\ list = [i \in DOMAIN spec.aggregations |-> list[i]]
    BY <1>1
  <2> HIDE DEF list
  <2>2. QED
    BY <1>3, <2>1, MappedOnly
<1>5. DOMAIN spec.aggregations = {1}
  BY <1>3, <1>4, OnlyOne
<1>6. spec.aggregations[1].expression = expression
  <2>1. list[1] = MapAggregation(spec.aggregations[1])
    BY <1>5
  <2>2. MapAggregation(spec.aggregations[1]).expression
          = spec.aggregations[1].expression
    BY DEF MapAggregation
  <2>3. QED
    BY <1>1, <1>4, <2>1, <2>2
<1>7. [i \in DOMAIN spec.aggregations |-> spec.aggregations[i].expression]
        = <<expression>>
  <2> DEFINE texts == [i \in DOMAIN spec.aggregations |->
                         spec.aggregations[i].expression]
  <2>1. DOMAIN texts = {1} /\ texts[1] = expression
    BY <1>5, <1>6
  <2>2. texts = [i \in DOMAIN texts |-> texts[i]]
    OBVIOUS
  <2>3. texts = <<expression>>
    <3> HIDE DEF texts
    <3>1. QED
      BY <2>1, <2>2, Singleton
  <2>4. QED
    BY <2>3
<1>8. QED
  BY <1>1, <1>2, <1>7 DEF Alone, Decodes

LEMMA PanelIsAlone ==
  ASSUME NEW widget \in Widgets, DecodesQuery(widget.query),
         SupportedPanel(MapPanelQuery(widget.query))
  PROVE  /\ widget.query.queryType = "builder"
         /\ widget.query.lists = {} /\ ~widget.query.unknown
         /\ Only(widget.query.queryData)
         /\ \A spec \in ToSet(widget.query.queryData) :
              /\ Alone(spec, "sum(cart.value)")
              /\ Scoped(spec.filter, PanelFields)
<1> DEFINE query == widget.query
           list == [i \in DOMAIN query.queryData |-> MapQuerySpec(query.queryData[i])]
           mapped == MapPanelQuery(query)
<1>1. /\ mapped.queryType = query.queryType /\ mapped.queryData = list
      /\ mapped.unsupported = query.lists
  BY DEF MapPanelQuery
<1>2. /\ query.queryType = "builder" /\ query.lists = {} /\ Only(list)
  BY <1>1 DEF SupportedPanel
<1>3. IsList(query.queryData)
      /\ \A spec \in ToSet(query.queryData) : WireSpec(spec)
  BY WireAssumption
<1>4. Only(query.queryData) /\ Head(list) = list[1]
  <2>1. DOMAIN list = DOMAIN query.queryData
        /\ list = [i \in DOMAIN query.queryData |-> list[i]]
    OBVIOUS
  <2> HIDE DEF list, query
  <2>2. QED
    BY <1>2, <1>3, <2>1, MappedOnly
<1>5. DOMAIN query.queryData = {1} /\ ToSet(query.queryData) = {query.queryData[1]}
  <2> HIDE DEF query
  <2>1. QED
    BY <1>3, <1>4, OnlyOne
<1> DEFINE spec == query.queryData[1]
           only == MapQuerySpec(spec)
<1>6. Head(mapped.queryData) = only
  BY <1>1, <1>4, <1>5
<1>7. /\ only.unsupported = {} /\ ~only.disabled
      /\ only.signal \in {"", "traces"} /\ only.dataSource = "traces"
      /\ Only(only.aggregations)
      /\ Head(only.aggregations).expression = "sum(cart.value)"
      /\ Scoped(only.filter, PanelFields)
  <2> HIDE DEF only, mapped
  <2>1. SupportedPanel(mapped)
    BY DEF mapped
  <2>2. QED
    BY <1>6, <2>1 DEF SupportedPanel
<1>8. only.filter = spec.filter
  BY DEF MapQuerySpec
<1>9. WireSpec(spec) /\ Decodes(spec) /\ ~query.unknown
  BY <1>3, <1>5 DEF DecodesQuery, Decodes
<1>10. Alone(spec, "sum(cart.value)")
  <2>1. {only.signal, only.dataSource} \ {""} = {"traces"}
    BY <1>7
  <2>2. only = MapQuerySpec(spec)
    OBVIOUS
  <2> HIDE DEF only, spec
  <2>3. QED
    BY <1>7, <1>9, <2>1, <2>2, SpecIsAlone
<1>11. QED
  BY <1>2, <1>4, <1>5, <1>7, <1>8, <1>9, <1>10

LEMMA ConditionIsAlone ==
  ASSUME NEW rule \in Rules, DecodesCondition(rule.condition),
         SupportedCondition(MapCondition(rule.condition))
  PROVE  /\ ~rule.condition.unknown /\ Only(rule.condition.queries)
         /\ \A query \in ToSet(rule.condition.queries) :
              /\ query.type = "builder_query"
              /\ Alone(query.spec, "count()")
              /\ Scoped(query.spec.filter, AlertFields)
              /\ rule.condition.selectedQueryName \in
                   {"", query.spec.name, query.spec.queryName}
<1> DEFINE condition == rule.condition
           list == [i \in DOMAIN condition.queries |->
                      [nodeType |-> condition.queries[i].type,
                       spec |-> MapQuerySpec(condition.queries[i].spec)]]
           mapped == MapCondition(condition)
<1>1. /\ mapped.queries = list
      /\ mapped.selectedQueryName = condition.selectedQueryName
  BY DEF MapCondition
<1>2. Only(list)
  BY <1>1 DEF SupportedCondition
<1>3. IsList(condition.queries)
      /\ \A query \in ToSet(condition.queries) : WireSpec(query.spec)
  BY WireAssumption
<1>4. Only(condition.queries) /\ Head(list) = list[1]
  <2>1. DOMAIN list = DOMAIN condition.queries
        /\ list = [i \in DOMAIN condition.queries |-> list[i]]
    OBVIOUS
  <2> HIDE DEF list, condition
  <2>2. QED
    BY <1>2, <1>3, <2>1, MappedOnly
<1>5. /\ DOMAIN condition.queries = {1}
      /\ ToSet(condition.queries) = {condition.queries[1]}
  <2> HIDE DEF condition
  <2>1. QED
    BY <1>3, <1>4, OnlyOne
<1> DEFINE query == condition.queries[1]
           spec == query.spec
           only == MapQuerySpec(spec)
<1>6. Head(mapped.queries) = [nodeType |-> query.type, spec |-> only]
  BY <1>1, <1>4, <1>5
<1>7. /\ query.type = "builder_query"
      /\ only.unsupported = {} /\ ~only.disabled
      /\ only.signal = "traces" /\ only.dataSource \in {"", "traces"}
      /\ Only(only.aggregations)
      /\ Head(only.aggregations).expression = "count()"
      /\ Scoped(only.filter, AlertFields)
      /\ condition.selectedQueryName \in {"", only.name}
  <2>1. SupportedCondition(mapped)
    OBVIOUS
  <2>2. Head(mapped.queries).nodeType = query.type /\ Head(mapped.queries).spec = only
    BY <1>6
  <2> HIDE DEF only, mapped, query
  <2>3. QED
    BY <1>1, <2>1, <2>2 DEF SupportedCondition
<1>8. /\ only.filter = spec.filter
      /\ only.name = FirstNonEmpty(<<spec.name, spec.queryName>>)
  BY DEF MapQuerySpec
<1>9. WireSpec(spec) /\ Decodes(spec) /\ ~condition.unknown
  BY <1>3, <1>5 DEF DecodesCondition, Decodes
<1>10. Alone(spec, "count()")
  <2>1. {only.signal, only.dataSource} \ {""} = {"traces"}
    BY <1>7
  <2>2. only = MapQuerySpec(spec)
    OBVIOUS
  <2> HIDE DEF only, spec
  <2>3. QED
    BY <1>7, <1>9, <2>1, <2>2, SpecIsAlone
<1>11. condition.selectedQueryName \in {"", spec.name, spec.queryName}
  <2> HIDE DEF only, condition, spec
  <2>1. QED
    BY <1>7, <1>8, FirstOfTwo
<1>12. QED
  BY <1>4, <1>5, <1>7, <1>8, <1>9, <1>10, <1>11

----------------------------------------------------------------------------
\* Lists without duplicates, and their orders.

Lists(u, S) ==
  /\ u \in Seq(S)
  /\ \A i, j \in 1..Len(u) : u[i] = u[j] => i = j
  /\ \A x \in S : \E i \in 1..Len(u) : u[i] = x

Ordered(u, S, rank) ==
  /\ Lists(u, S)
  /\ \A i, j \in 1..Len(u) : i < j => rank[u[i]] < rank[u[j]]

LEMMA ListLength ==
  ASSUME NEW S, NEW u, Lists(u, S)
  PROVE  Cardinality(S) = Len(u)
<1>1. u \in [1..Len(u) -> S] /\ Len(u) \in Nat
  BY DEF Lists
<1>2. u \in Bijection(1..Len(u), S)
  BY <1>1 DEF Lists, Bijection, Injection, Surjection, IsInjective
<1>3. ExistsBijection(1..Len(u), S)
  BY <1>2 DEF ExistsBijection
<1>4. QED
  BY ONLY <1>1, <1>3, FS_CountingElements

\* A sort on keys that are distinct.
LEMMA SortOrders ==
  ASSUME NEW S, NEW u, Lists(u, S), NEW rank \in [S -> Int],
         \A x, y \in S : rank[x] = rank[y] => x = y,
         NEW key, key = [i \in DOMAIN u |-> rank[u[i]]]
  PROVE  Ordered(Sort(u, key), S, rank) /\ Len(Sort(u, key)) = Len(u)
<1>1. PICK n \in Nat : n = Len(u) /\ u \in [1..n -> S] /\ DOMAIN u = 1..n
  BY DEF Lists
<1> DEFINE InOrder(o) == \A i, j \in DOMAIN u : i < j => key[o[i]] <= key[o[j]]
           order == CHOOSE o \in SetToSeqs(DOMAIN u) : InOrder(o)
           sorted == [i \in 1..n |-> u[order[i]]]
<1>2. key \in [1..n -> Int] /\ \A i \in 1..n : key[i] = rank[u[i]]
  BY <1>1
<1>3. \A i, j \in 1..n : key[i] = key[j] => i = j
  BY <1>1, <1>2 DEF Lists
<1>4. SetToSeqs(1..n)
        = {f \in [1..n -> 1..n] : \A i, j \in 1..n : i # j => f[i] # f[j]}
  <2>1. Cardinality(1..n) = n
    BY FS_Interval
  <2>2. QED
    BY <2>1 DEF SetToSeqs
<1>5. order \in SetToSeqs(1..n) /\ InOrder(order)
  <2>1. \E o \in SetToSeqs(1..n) :
          \A i, j \in 1..n : i < j => key[o[i]] <= key[o[j]]
    BY ONLY <1>1, <1>2, <1>3, OrderExists
  <2>2. \E o \in SetToSeqs(DOMAIN u) : InOrder(o)
    BY <1>1, <2>1
  <2> HIDE DEF InOrder
  <2>3. QED
    BY <1>1, <2>2
<1>6. Sort(u, key) = sorted
  <2>1. Sort(u, key) = [i \in DOMAIN u |-> u[order[i]]]
    BY Zenon DEF Sort
  <2>2. QED
    BY <1>1, <2>1
<1> HIDE DEF order
<1>7. /\ order \in [1..n -> 1..n]
      /\ \A i, j \in 1..n : order[i] = order[j] => i = j
  BY <1>4, <1>5
<1>8. \A k \in 1..n : \E i \in 1..n : order[i] = k
  BY <1>1, <1>7, Reaches
<1>9. /\ sorted \in Seq(S) /\ Len(sorted) = n
      /\ \A i \in 1..n : sorted[i] = u[order[i]]
  BY <1>1, <1>7
<1>0. /\ \A i, j \in 1..n : u[i] = u[j] => i = j
      /\ \A x \in S : \E i \in 1..n : u[i] = x
  BY <1>1 DEF Lists
<1>13. \A i, j \in 1..n : i < j => key[order[i]] <= key[order[j]]
  BY <1>1, <1>5
<1> HIDE DEF sorted, InOrder
<1>10. Lists(sorted, S)
  <2>1. \A i, j \in 1..n : sorted[i] = sorted[j] => i = j
    <3>1. ASSUME NEW i \in 1..n, NEW j \in 1..n, sorted[i] = sorted[j]
          PROVE  i = j
      <4>1. order[i] \in 1..n /\ order[j] \in 1..n
        BY <1>7
      <4>2. u[order[i]] = u[order[j]]
        BY <1>9, <3>1
      <4>3. order[i] = order[j]
        BY <1>0, <4>1, <4>2
      <4>4. QED
        BY <1>7, <4>3
    <3>2. QED
      BY <3>1
  <2>2. \A x \in S : \E i \in 1..n : sorted[i] = x
    <3>1. ASSUME NEW x \in S
          PROVE  \E i \in 1..n : sorted[i] = x
      <4>1. PICK k \in 1..n : u[k] = x
        BY <1>0
      <4>2. PICK i \in 1..n : order[i] = k
        BY <1>8
      <4>3. QED
        BY <1>9, <4>1, <4>2
    <3>2. QED
      BY <3>1
  <2>3. QED
    BY <1>9, <2>1, <2>2 DEF Lists
<1>11. ASSUME NEW i \in 1..n, NEW j \in 1..n, i < j
       PROVE  rank[sorted[i]] < rank[sorted[j]]
  <2>1. key[order[i]] <= key[order[j]] /\ key[order[i]] # key[order[j]]
    <3>1. order[i] # order[j]
      BY <1>7, <1>11
    <3>2. order[i] \in 1..n /\ order[j] \in 1..n
      BY <1>7
    <3>3. QED
      BY <1>3, <1>11, <1>13, <3>1, <3>2
  <2>2. key[order[i]] \in Int /\ key[order[j]] \in Int
    BY <1>2, <1>7
  <2>3. key[order[i]] < key[order[j]]
    BY <2>1, <2>2
  <2>4. QED
    BY <1>2, <1>7, <1>9, <2>3
<1>12. QED
  BY <1>1, <1>6, <1>9, <1>10, <1>11 DEF Ordered

\* There is one ordered list of a set.
LEMMA OrderedOnce ==
  ASSUME NEW S, NEW rank \in [S -> Int],
         \A x, y \in S : rank[x] = rank[y] => x = y,
         NEW u, NEW v, Ordered(u, S, rank), Ordered(v, S, rank)
  PROVE  u = v
<1>0. PICK n \in Nat : n = Len(u)
  BY DEF Ordered, Lists
<1> DEFINE a == [i \in 1..n |-> rank[u[i]]]
           b == [i \in 1..n |-> rank[v[i]]]
<1>1. Lists(u, S) /\ Lists(v, S)
  BY DEF Ordered
<1>2. Len(v) = n
  <2>1. Cardinality(S) = Len(u) /\ Cardinality(S) = Len(v)
    BY ONLY <1>1, ListLength
  <2>2. QED
    BY <1>0, <2>1
<1>3. /\ \A i \in 1..n : u[i] \in S /\ v[i] \in S
      /\ u = [i \in 1..n |-> u[i]] /\ v = [i \in 1..n |-> v[i]]
  <2>1. u \in [1..n -> S] /\ v \in [1..n -> S]
    BY <1>0, <1>1, <1>2 DEF Lists
  <2>2. QED
    BY <2>1
<1>4. a \in [1..n -> Int] /\ b \in [1..n -> Int]
  BY <1>3
<1>5. /\ \A i, j \in 1..n : i < j => a[i] < a[j]
      /\ \A i, j \in 1..n : i < j => b[i] < b[j]
  BY <1>0, <1>2, <1>3 DEF Ordered
<1>6. /\ \A i \in 1..n : \E j \in 1..n : a[i] = b[j]
      /\ \A i \in 1..n : \E j \in 1..n : b[i] = a[j]
  <2>1. /\ \A i \in 1..n : \E j \in 1..n : v[j] = u[i]
        /\ \A i \in 1..n : \E j \in 1..n : u[j] = v[i]
    BY <1>0, <1>1, <1>2, <1>3 DEF Lists
  <2>2. QED
    BY <2>1
<1>7. \A i \in 1..n : a[i] = b[i]
  <2> HIDE DEF a, b
  <2>1. QED
    BY <1>4, <1>5, <1>6, OrderUnique
<1>8. \A i \in 1..n : u[i] = v[i]
  BY <1>3, <1>7
<1>9. QED
  BY <1>3, <1>8

\* unique: the first occurrence of each value is kept.
Keep(kept, v) == IF Contains(kept, v) THEN kept ELSE Append(kept, v)

LEMMA KeepAdds ==
  ASSUME NEW S, NEW A \in SUBSET S, NEW kept, Lists(kept, A), NEW v \in S
  PROVE  Lists(Keep(kept, v), A \cup {v})
<1>1. PICK n \in Nat : n = Len(kept) /\ kept \in [1..n -> A] /\ kept \in Seq(A)
  BY DEF Lists
<1>2. /\ \A i, j \in 1..n : kept[i] = kept[j] => i = j
      /\ \A x \in A : \E i \in 1..n : kept[i] = x
  BY <1>1 DEF Lists
<1>3. CASE Contains(kept, v)
  <2>1. v \in A
    BY <1>1, <1>3 DEF Contains
  <2>2. A \cup {v} = A /\ Keep(kept, v) = kept
    BY <1>3, <2>1 DEF Keep
  <2>3. QED
    BY <2>2
<1>4. CASE ~Contains(kept, v)
  <2> DEFINE added == Append(kept, v)
  <2>1. /\ added \in Seq(A \cup {v}) /\ Len(added) = n + 1
        /\ \A i \in 1..n : added[i] = kept[i]
        /\ added[n + 1] = v
    <3>1. kept \in Seq(A \cup {v})
      BY <1>1
    <3>2. QED
      BY <1>1, <3>1
  <2>2. \A i \in 1..n : kept[i] # v
    BY <1>1, <1>4 DEF Contains
  <2> HIDE DEF added
  <2>3. \A i \in 1..(n + 1) : i \in 1..n \/ i = n + 1
    OBVIOUS
  <2>4. ASSUME NEW i \in 1..(n + 1), NEW j \in 1..(n + 1), added[i] = added[j]
        PROVE  i = j
    <3>1. CASE i \in 1..n /\ j \in 1..n
      BY <1>2, <2>1, <2>4, <3>1
    <3>2. CASE i = n + 1 /\ j \in 1..n
      BY <2>1, <2>2, <2>4, <3>2
    <3>3. CASE j = n + 1 /\ i \in 1..n
      BY <2>1, <2>2, <2>4, <3>3
    <3>4. QED
      BY <2>3, <3>1, <3>2, <3>3
  <2>5. ASSUME NEW x \in A \cup {v}
        PROVE  \E i \in 1..(n + 1) : added[i] = x
    <3>1. CASE x = v
      <4>1. n + 1 \in 1..(n + 1)
        OBVIOUS
      <4>2. QED
        BY <2>1, <3>1, <4>1
    <3>2. CASE x \in A
      <4>1. PICK i \in 1..n : kept[i] = x
        BY <1>2, <3>2
      <4>2. i \in 1..(n + 1)
        OBVIOUS
      <4>3. QED
        BY <2>1, <4>1, <4>2
    <3>3. QED
      BY <3>1, <3>2
  <2>6. Lists(added, A \cup {v})
    BY <2>1, <2>4, <2>5 DEF Lists
  <2>7. QED
    BY <1>4, <2>6 DEF Keep, added
<1>5. QED
  BY <1>3, <1>4

LEMMA KeepTyped ==
  ASSUME NEW S, NEW kept \in Seq(S), NEW v \in S
  PROVE  Keep(kept, v) \in Seq(S)
BY DEF Keep

LEMMA UniqueRun ==
  ASSUME NEW S, NEW n \in Nat, NEW s \in [1..n -> S]
  PROVE  \E f \in [0..n -> Seq(S)] :
           /\ f[0] = << >>
           /\ \A k \in 1..n : f[k] = Keep(f[k - 1], s[k])
           /\ Unique(s) = f[n]
<1> DEFINE Equation(h) ==
             h = [T \in SUBSET (DOMAIN s) |->
                    IF T = {} THEN << >>
                    ELSE LET x == Max(T)
                         IN  IF Contains(h[T \ {x}], s[x]) THEN h[T \ {x}]
                             ELSE Append(h[T \ {x}], s[x])]
           fold == CHOOSE h : Equation(h)
           step == [i \in 1..n |-> [d \in Seq(S) |-> Keep(d, s[i])]]
           f == [k \in 0..n |-> fold[1..k]]
<1>1. Unique(s) = fold[1..n]
  <2>1. DOMAIN s = 1..n
    OBVIOUS
  <2>2. QED
    BY <2>1, Zenon DEF Unique, FoldLeft, MapThenFoldSet
<1>2. \A i \in 1..n : \A d \in Seq(S) : Keep(d, s[i]) \in Seq(S)
  BY KeepTyped
<1>3. \E h : Equation(h)
  <2>1. step \in [1..n -> [Seq(S) -> Seq(S)]]
    BY <1>2
  <2>2. PICK h \in [SUBSET (1..n) -> Seq(S)] : IsFold(h, n, << >>, step)
    <3>1. << >> \in Seq(S)
      OBVIOUS
    <3> HIDE DEF step
    <3>2. QED
      BY <2>1, <3>1, FoldSolution
  <2>3. ASSUME NEW T \in SUBSET (1..n), T # {}
        PROVE  h[T] = Keep(h[T \ {Max(T)}], s[Max(T)])
    <3>1. Max(T) \in 1..n /\ h[T \ {Max(T)}] \in Seq(S)
      BY <2>3, SetHasMax
    <3>2. QED
      BY <2>2, <2>3, <3>1 DEF IsFold
  <2>4. Equation(h)
    <3>1. ASSUME NEW T \in SUBSET (1..n)
          PROVE  h[T] = IF T = {} THEN << >>
                        ELSE IF Contains(h[T \ {Max(T)}], s[Max(T)])
                             THEN h[T \ {Max(T)}]
                             ELSE Append(h[T \ {Max(T)}], s[Max(T)])
      BY <2>2, <2>3 DEF IsFold, Keep
    <3>2. QED
      BY <3>1
  <2>5. QED
    BY <2>4
<1>4. Equation(fold)
  <2> HIDE DEF Equation
  <2>1. QED
    BY <1>3
<1> HIDE DEF fold
<1>5. fold[{}] = << >> /\ f[0] = fold[1..0] /\ 1..0 = {}
  BY <1>4
<1>6. ASSUME NEW k \in 1..n
      PROVE  f[k] = Keep(f[k - 1], s[k])
  <2>1. fold[1..k] = Keep(fold[(1..k) \ {Max(1..k)}], s[Max(1..k)])
    BY <1>4, PrefixAt DEF Keep
  <2>2. k \in 0..n /\ k - 1 \in 0..n
    OBVIOUS
  <2>3. f[k] = fold[1..k] /\ f[k - 1] = fold[1..(k - 1)]
    BY <2>2
  <2>4. Max(1..k) = k /\ (1..k) \ {k} = 1..(k - 1)
    BY PrefixAt
  <2>5. QED
    BY <2>1, <2>3, <2>4
<1>7. f \in [0..n -> Seq(S)]
  <2> DEFINE T == {k \in 0..n : f[k] \in Seq(S)}
  <2>1. 0 \in T
    <3>1. 0 \in 0..n /\ f[0] = << >> /\ << >> \in Seq(S)
      BY <1>5
    <3> HIDE DEF f
    <3>2. QED
      BY <3>1
  <2>2. ASSUME NEW k \in 0..(n - 1), k \in T
        PROVE  k + 1 \in T
    <3>1. k + 1 \in 1..n /\ (k + 1) - 1 = k
      OBVIOUS
    <3>2. f[k + 1] = Keep(f[k], s[k + 1])
      BY <1>6, <3>1
    <3> HIDE DEF f
    <3>3. QED
      BY <1>2, <2>2, <3>1, <3>2
  <2>3. \A k \in 0..n : k \in T
    <3> HIDE DEF T
    <3>1. QED
      BY ONLY <2>1, <2>2, n \in Nat, Induction
  <2>4. QED
    BY <2>3
<1>8. f[0] = << >> /\ f[n] = fold[1..n]
  BY <1>5
<1> HIDE DEF f
<1>9. QED
  BY <1>1, <1>6, <1>7, <1>8

LEMMA UniqueLists ==
  ASSUME NEW S, NEW s \in Seq(S)
  PROVE  Lists(Unique(s), ToSet(s))
<1>1. PICK n \in Nat : n = Len(s) /\ s \in [1..n -> S] /\ DOMAIN s = 1..n
  OBVIOUS
<1>2. PICK f \in [0..n -> Seq(S)] :
        /\ f[0] = << >>
        /\ \A k \in 1..n : f[k] = Keep(f[k - 1], s[k])
        /\ Unique(s) = f[n]
  BY <1>1, UniqueRun
<1> DEFINE First(k) == {s[i] : i \in 1..k}
           T == {k \in 0..n : Lists(f[k], First(k))}
<1>3. 0 \in T
  <2>1. First(0) = {} /\ f[0] = << >>
    BY <1>2
  <2>2. Lists(<< >>, {})
    BY DEF Lists
  <2>3. Lists(f[0], First(0)) /\ 0 \in 0..n
    <3> HIDE DEF First
    <3>1. 0 \in 0..n
      OBVIOUS
    <3>2. QED
      BY ONLY <2>1, <2>2, <3>1, Zenon
  <2> HIDE DEF First
  <2>4. QED
    BY <2>3
<1>4. ASSUME NEW k \in 0..(n - 1), k \in T
      PROVE  k + 1 \in T
  <2>1. k + 1 \in 1..n /\ (k + 1) - 1 = k /\ k + 1 \in 0..n
    OBVIOUS
  <2>2. f[k + 1] = Keep(f[k], s[k + 1])
    BY <1>2, <2>1
  <2>3. First(k) \in SUBSET S /\ s[k + 1] \in S
    BY <1>1, <2>1
  <2>4. First(k + 1) = First(k) \cup {s[k + 1]}
    <3>1. \A i \in 1..(k + 1) : i \in 1..k \/ i = k + 1
      OBVIOUS
    <3>2. 1..k \subseteq 1..(k + 1) /\ k + 1 \in 1..(k + 1)
      OBVIOUS
    <3>3. QED
      BY <3>1, <3>2
  <2>5. Lists(f[k], First(k))
    BY <1>4
  <2> HIDE DEF First
  <2>6. Lists(Keep(f[k], s[k + 1]), First(k) \cup {s[k + 1]})
    BY ONLY <2>3, <2>5, KeepAdds
  <2>7. QED
    BY <2>1, <2>2, <2>4, <2>6
<1>5. \A k \in 0..n : k \in T
  <2> HIDE DEF T
  <2>1. QED
    BY ONLY <1>3, <1>4, n \in Nat, Induction
<1>6. Lists(f[n], First(n))
  BY <1>5
<1>7. First(n) = ToSet(s)
  BY <1>1 DEF ToSet
<1>8. QED
  BY <1>2, <1>6, <1>7

----------------------------------------------------------------------------
\* The collector.

Wants == [id : RequirementIds, path : Positive, filter : Filters, alert : Nat]
Known == UNION {[ids -> CheckRecord] : ids \in SUBSET RequirementIds}

Of(D, id) == {d \in D : d.id = id}
PathsOf(D) == {d.path : d \in D}
ConsumersOf(D) == {d.consumer : d \in D}
AskedBy(D) == {d.filter : d \in D} \ {NoFilter}

\* A collected requirement says what the demands D for it say.
Gathers(check, id, D, alertName) ==
  /\ check.id = id
  /\ check.alert = (IF id = AlertMustFire THEN alertName ELSE 0)
  /\ {check.path} \cup ToSet(check.paths) = PathsOf(D)
  /\ ({check.filter} \cup ToSet(check.filters)) \ {NoFilter} = AskedBy(D)
  /\ NoFilter \notin ToSet(check.filters)
  /\ Lists(check.consumers, ConsumersOf(D))

\* The collector knows the demands D, and no others.
Gathered(known, D, alertName) ==
  /\ known \in Known
  /\ \A id : id \in DOMAIN known <=> \E d \in D : d.id = id
  /\ \A id \in DOMAIN known : Gathers(known[id], id, Of(D, id), alertName)

LEMMA NoFilterIsFilter == NoFilter \in Filters
BY DEF NoFilter, Filters

LEMMA GivenIs ==
  ASSUME NEW S, NEW v \in S, NEW none
  PROVE  Given(v, none) \in Seq(S) /\ ToSet(Given(v, none)) = {v} \ {none}
<1>1. CASE v = none
  BY <1>1 DEF Given, ToSet
<1>2. CASE v # none
  <2>1. Given(v, none) = <<v>>
    BY <1>2 DEF Given
  <2>2. DOMAIN <<v>> = {1} /\ <<v>>[1] = v /\ <<v>> \in Seq(S)
    OBVIOUS
  <2>3. QED
    BY <1>2, <2>1, <2>2 DEF ToSet
<1>3. QED
  BY <1>1, <1>2

LEMMA ToSetAppend ==
  ASSUME NEW S, NEW s \in Seq(S), NEW v \in S
  PROVE  Append(s, v) \in Seq(S) /\ ToSet(Append(s, v)) = ToSet(s) \cup {v}
<1>1. PICK n \in Nat : n = Len(s) /\ DOMAIN s = 1..n
  OBVIOUS
<1>2. /\ DOMAIN Append(s, v) = 1..(n + 1) /\ Append(s, v)[n + 1] = v
      /\ \A i \in 1..n : Append(s, v)[i] = s[i]
      /\ Append(s, v) \in Seq(S)
  BY <1>1
<1>3. 1..(n + 1) = (1..n) \cup {n + 1}
  OBVIOUS
<1>4. QED
  BY <1>1, <1>2, <1>3 DEF ToSet

LEMMA ToSetConcat ==
  ASSUME NEW S, NEW s \in Seq(S), NEW t \in Seq(S)
  PROVE  s \o t \in Seq(S) /\ ToSet(s \o t) = ToSet(s) \cup ToSet(t)
<1>1. PICK n \in Nat : n = Len(s) /\ DOMAIN s = 1..n
  OBVIOUS
<1>2. PICK m \in Nat : m = Len(t) /\ DOMAIN t = 1..m
  OBVIOUS
<1>3. /\ s \o t \in Seq(S) /\ Len(s \o t) = n + m
      /\ \A i \in 1..n : (s \o t)[i] = s[i]
      /\ \A i \in 1..(n + m) : i \in 1..n \/ (s \o t)[i] = t[i - n]
  BY <1>1, <1>2
<1>4. DOMAIN (s \o t) = 1..(n + m)
  BY <1>3
<1>5. ASSUME NEW x \in ToSet(s \o t)
      PROVE  x \in ToSet(s) \cup ToSet(t)
  <2>1. PICK i \in 1..(n + m) : x = (s \o t)[i]
    BY <1>4 DEF ToSet
  <2>2. CASE i \in 1..n
    BY <1>1, <1>3, <2>1, <2>2 DEF ToSet
  <2>3. CASE i \notin 1..n
    <3>1. i - n \in 1..m
      BY <2>3
    <3>2. QED
      BY <1>2, <1>3, <2>1, <2>3, <3>1 DEF ToSet
  <2>4. QED
    BY <2>2, <2>3
<1>6. ASSUME NEW x \in ToSet(s)
      PROVE  x \in ToSet(s \o t)
  <2>1. PICK i \in 1..n : x = s[i]
    BY <1>1 DEF ToSet
  <2>2. i \in 1..(n + m)
    OBVIOUS
  <2>3. QED
    BY <1>3, <1>4, <2>1, <2>2 DEF ToSet
<1>7. ASSUME NEW x \in ToSet(t)
      PROVE  x \in ToSet(s \o t)
  <2>1. PICK i \in 1..m : x = t[i]
    BY <1>2 DEF ToSet
  <2>2. i + n \in 1..(n + m) /\ i + n \notin 1..n /\ (i + n) - n = i
    OBVIOUS
  <2>3. (s \o t)[i + n] = t[i]
    BY <1>3, <2>2
  <2>4. QED
    BY <1>4, <2>1, <2>2, <2>3 DEF ToSet
<1>8. QED
  BY <1>3, <1>5, <1>6, <1>7

LEMMA CollectTyped ==
  ASSUME NEW known \in Known, NEW consumer \in Positive, NEW r \in Wants
  PROVE  Collect(known, consumer, r) \in Known
<1>1. PICK ids \in SUBSET RequirementIds : known \in [ids -> CheckRecord]
  BY DEF Known
<1> DEFINE all == ids \cup {r.id}
           after == Collect(known, consumer, r)
<1>2. r.id \in RequirementIds /\ all \in SUBSET RequirementIds
  BY DEF Wants
<1>3. New(consumer, r) \in CheckRecord
  <2>1. <<consumer>> \in Seq(Positive) /\ << >> \in Seq(Positive)
        /\ << >> \in Seq(Filters)
    OBVIOUS
  <2>2. QED
    BY <2>1 DEF New, CheckRecord, Wants
<1>4. ASSUME NEW check \in CheckRecord
      PROVE  Merged(check, consumer, r) \in CheckRecord
  <2>1. /\ check.paths \in Seq(Positive) /\ check.consumers \in Seq(Positive)
        /\ check.filters \in Seq(Filters) /\ r.path \in Positive
        /\ r.filter \in Filters
    BY DEF CheckRecord, Wants
  <2>2. Given(r.filter, NoFilter) \in Seq(Filters)
    BY <2>1, GivenIs
  <2>3. /\ Append(check.paths, r.path) \in Seq(Positive)
        /\ Append(check.consumers, consumer) \in Seq(Positive)
        /\ check.filters \o Given(r.filter, NoFilter) \in Seq(Filters)
    BY <2>1, <2>2
  <2>4. QED
    BY <2>3 DEF Merged, CheckRecord
<1>5. DOMAIN known = ids
  BY <1>1
<1>6. DOMAIN after = all /\ after = [id \in all |-> after[id]]
  BY <1>5 DEF Collect
<1>7. ASSUME NEW id \in all
      PROVE  after[id] \in CheckRecord
  <2>1. /\ id # r.id => after[id] = known[id] /\ id \in ids
        /\ id = r.id /\ id \in ids => after[id] = Merged(known[id], consumer, r)
        /\ id = r.id /\ id \notin ids => after[id] = New(consumer, r)
    BY <1>5 DEF Collect
  <2>2. id \in ids => known[id] \in CheckRecord
    BY <1>1
  <2>3. QED
    BY <1>3, <1>4, <2>1, <2>2
<1>8. after \in [all -> CheckRecord]
  <2> HIDE DEF after, all
  <2>1. QED
    BY <1>6, <1>7
<1>9. QED
  <2> HIDE DEF after, all
  <2>1. after \in Known
    BY <1>2, <1>8 DEF Known
  <2>2. QED
    BY <2>1 DEF after

\* The first consumer of a requirement.
LEMMA NewGathers ==
  ASSUME NEW r \in Wants, NEW consumer \in Positive, NEW alertName,
         r.alert = (IF r.id = AlertMustFire THEN alertName ELSE 0),
         NEW d, d = Demand(consumer, r.id, r.path, r.filter)
  PROVE  Gathers(New(consumer, r), r.id, {d}, alertName)
<1> DEFINE check == New(consumer, r)
<1>1. /\ check.id = r.id /\ check.path = r.path /\ check.paths = << >>
      /\ check.filter = r.filter /\ check.filters = << >>
      /\ check.consumers = <<consumer>> /\ check.alert = r.alert
  BY DEF New
<1>2. ToSet(<< >>) = {}
  BY DEF ToSet
<1>3. /\ d.path = r.path /\ d.consumer = consumer /\ d.filter = r.filter
  BY DEF Demand
<1>4. /\ PathsOf({d}) = {r.path} /\ ConsumersOf({d}) = {consumer}
      /\ AskedBy({d}) = {r.filter} \ {NoFilter}
  BY <1>3 DEF PathsOf, ConsumersOf, AskedBy
<1>5. Lists(<<consumer>>, {consumer})
  BY DEF Lists
<1> HIDE DEF check
<1>6. QED
  BY <1>1, <1>2, <1>4, <1>5 DEF Gathers, check

\* A further one.
LEMMA MergedGathers ==
  ASSUME NEW r \in Wants, NEW consumer \in Positive, NEW alertName,
         NEW check \in CheckRecord, NEW D,
         ConsumersOf(D) \subseteq Positive, consumer \notin ConsumersOf(D),
         Gathers(check, r.id, D, alertName),
         NEW d, d = Demand(consumer, r.id, r.path, r.filter)
  PROVE  Gathers(Merged(check, consumer, r), r.id, D \cup {d}, alertName)
<1> DEFINE after == Merged(check, consumer, r)
           given == Given(r.filter, NoFilter)
<1>1. /\ check.paths \in Seq(Positive) /\ check.consumers \in Seq(Positive)
      /\ check.filters \in Seq(Filters) /\ r.path \in Positive
      /\ r.filter \in Filters
  BY DEF CheckRecord, Wants
<1>2. /\ after.id = check.id /\ after.path = check.path
      /\ after.filter = check.filter /\ after.alert = check.alert
      /\ after.paths = Append(check.paths, r.path)
      /\ after.consumers = Append(check.consumers, consumer)
      /\ after.filters = check.filters \o given
  BY DEF Merged, CheckRecord
<1>3. d.path = r.path /\ d.consumer = consumer /\ d.filter = r.filter
  BY DEF Demand
<1>4. ToSet(after.paths) = ToSet(check.paths) \cup {r.path}
  BY <1>1, <1>2, ToSetAppend
<1>5. given \in Seq(Filters) /\ ToSet(given) = {r.filter} \ {NoFilter}
  BY <1>1, GivenIs
<1>6. ToSet(after.filters) = ToSet(check.filters) \cup ({r.filter} \ {NoFilter})
  <2> HIDE DEF given
  <2>1. ToSet(check.filters \o given) = ToSet(check.filters) \cup ToSet(given)
    BY <1>1, <1>5, ToSetConcat
  <2> HIDE DEF after
  <2>2. QED
    BY <1>2, <1>5, <2>1
<1>7. /\ PathsOf(D \cup {d}) = PathsOf(D) \cup {r.path}
      /\ ConsumersOf(D \cup {d}) = ConsumersOf(D) \cup {consumer}
  BY <1>3 DEF PathsOf, ConsumersOf
<1>8. AskedBy(D \cup {d}) = AskedBy(D) \cup ({r.filter} \ {NoFilter})
  BY <1>3 DEF AskedBy
<1>9. Lists(after.consumers, ConsumersOf(D) \cup {consumer})
  <2>1. Lists(check.consumers, ConsumersOf(D))
    BY DEF Gathers
  <2>2. Keep(check.consumers, consumer) = Append(check.consumers, consumer)
    <3>1. ~Contains(check.consumers, consumer)
      <4>1. check.consumers \in Seq(ConsumersOf(D))
        BY <2>1 DEF Lists
      <4>2. \A i \in 1..Len(check.consumers) : check.consumers[i] \in ConsumersOf(D)
        BY <4>1
      <4>3. QED
        BY <4>2 DEF Contains
    <3>2. QED
      BY <3>1 DEF Keep
  <2>3. Lists(Keep(check.consumers, consumer), ConsumersOf(D) \cup {consumer})
    BY ONLY <2>1, ConsumersOf(D) \subseteq Positive, consumer \in Positive, KeepAdds
  <2> HIDE DEF after
  <2>4. QED
    BY <1>2, <2>2, <2>3
<1> HIDE DEF after
<1>10. /\ check.id = r.id
       /\ check.alert = (IF r.id = AlertMustFire THEN alertName ELSE 0)
       /\ {check.path} \cup ToSet(check.paths) = PathsOf(D)
       /\ ({check.filter} \cup ToSet(check.filters)) \ {NoFilter} = AskedBy(D)
       /\ NoFilter \notin ToSet(check.filters)
  BY DEF Gathers
<1>11. {after.path} \cup ToSet(after.paths) = PathsOf(D \cup {d})
  BY <1>2, <1>4, <1>7, <1>10
<1>12. /\ ({after.filter} \cup ToSet(after.filters)) \ {NoFilter}
            = AskedBy(D \cup {d})
       /\ NoFilter \notin ToSet(after.filters)
  BY <1>2, <1>6, <1>8, <1>10
<1>13. QED
  BY <1>2, <1>7, <1>9, <1>10, <1>11, <1>12 DEF Gathers, after

LEMMA CollectGathers ==
  ASSUME NEW known, NEW D, NEW alertName, Gathered(known, D, alertName),
         NEW r \in Wants, NEW consumer \in Positive,
         r.alert = (IF r.id = AlertMustFire THEN alertName ELSE 0),
         \A e \in D : e.consumer \in Positive,
         \A e \in D : e.id = r.id => e.consumer # consumer,
         NEW d, d = Demand(consumer, r.id, r.path, r.filter)
  PROVE  Gathered(Collect(known, consumer, r), D \cup {d}, alertName)
<1> DEFINE after == Collect(known, consumer, r)
           E == D \cup {d}
<1>1. known \in Known /\ after \in Known
  BY CollectTyped DEF Gathered
<1>2. d.id = r.id
  BY DEF Demand
<1>3. /\ DOMAIN after = DOMAIN known \cup {r.id}
      /\ \A id \in DOMAIN known : id # r.id => after[id] = known[id]
      /\ after[r.id] = IF r.id \in DOMAIN known
                       THEN Merged(known[r.id], consumer, r) ELSE New(consumer, r)
  BY DEF Collect
<1> HIDE DEF after
<1>4. \A id : id \in DOMAIN after <=> \E e \in E : e.id = id
  BY <1>2, <1>3 DEF Gathered
<1>5. ASSUME NEW id \in DOMAIN after, id # r.id
      PROVE  Gathers(after[id], id, Of(E, id), alertName)
  <2>1. Of(E, id) = Of(D, id)
    BY <1>2, <1>5 DEF Of
  <2>2. id \in DOMAIN known /\ after[id] = known[id]
    BY <1>3, <1>5
  <2>3. QED
    BY <2>1, <2>2 DEF Gathered
<1>6. Of(E, r.id) = Of(D, r.id) \cup {d}
  BY <1>2 DEF Of
<1>7. Gathers(after[r.id], r.id, Of(E, r.id), alertName)
  <2>1. CASE r.id \in DOMAIN known
    <3>1. known[r.id] \in CheckRecord
      BY <1>1, <2>1 DEF Known
    <3>2. Gathers(known[r.id], r.id, Of(D, r.id), alertName)
      BY <2>1 DEF Gathered
    <3>3. /\ ConsumersOf(Of(D, r.id)) \subseteq Positive
          /\ consumer \notin ConsumersOf(Of(D, r.id))
      BY DEF ConsumersOf, Of
    <3>4. Gathers(Merged(known[r.id], consumer, r), r.id, Of(D, r.id) \cup {d},
                  alertName)
      BY <3>1, <3>2, <3>3, MergedGathers
    <3>5. QED
      BY <1>3, <1>6, <2>1, <3>4
  <2>2. CASE r.id \notin DOMAIN known
    <3>1. Of(D, r.id) = {}
      BY <2>2 DEF Gathered, Of
    <3>2. Of(E, r.id) = {d}
      BY <1>6, <3>1
    <3>3. Gathers(New(consumer, r), r.id, {d}, alertName)
      BY NewGathers
    <3>4. QED
      BY <1>3, <2>2, <3>2, <3>3
  <2>3. QED
    BY <2>1, <2>2
<1>8. QED
  BY <1>1, <1>4, <1>5, <1>7 DEF Gathered, after

\* The requirements of one consumer, one after the other.
DemandsOf(consumer, required) ==
  {Demand(consumer, r.id, r.path, r.filter) : r \in ToSet(required)}

CollectsInto(f, n, known, consumer, s) ==
  /\ f[0] = known
  /\ \A k \in 1..n : f[k] = Collect(f[k - 1], consumer, s[k])
  /\ CollectAll(known, consumer, s) = f[n]

LEMMA CollectAllRun ==
  ASSUME NEW known \in Known, NEW consumer \in Positive,
         NEW n \in Nat, NEW s \in [1..n -> Wants]
  PROVE  \E f \in [0..n -> Known] : CollectsInto(f, n, known, consumer, s)
<1> DEFINE Equation(h) ==
             h = [T \in SUBSET (DOMAIN s) |->
                    IF T = {} THEN known
                    ELSE LET x == Max(T)
                         IN  Collect(h[T \ {x}], consumer, s[x])]
           fold == CHOOSE h : Equation(h)
           step == [i \in 1..n |-> [d \in Known |-> Collect(d, consumer, s[i])]]
           f == [k \in 0..n |-> fold[1..k]]
<1>1. CollectAll(known, consumer, s) = fold[1..n]
  <2>1. DOMAIN s = 1..n
    OBVIOUS
  <2>2. QED
    BY <2>1, Zenon DEF CollectAll, FoldLeft, MapThenFoldSet
<1>2. \A i \in 1..n : \A d \in Known : Collect(d, consumer, s[i]) \in Known
  BY CollectTyped
<1>3. \E h : Equation(h)
  <2>1. step \in [1..n -> [Known -> Known]]
    BY <1>2
  <2>2. PICK h \in [SUBSET (1..n) -> Known] : IsFold(h, n, known, step)
    <3> HIDE DEF step
    <3>2. QED
      BY <2>1, FoldSolution
  <2>3. ASSUME NEW T \in SUBSET (1..n), T # {}
        PROVE  h[T] = Collect(h[T \ {Max(T)}], consumer, s[Max(T)])
    <3>1. Max(T) \in 1..n /\ h[T \ {Max(T)}] \in Known
      BY <2>3, SetHasMax
    <3>2. QED
      BY <2>2, <2>3, <3>1 DEF IsFold
  <2>4. Equation(h)
    <3>1. ASSUME NEW T \in SUBSET (1..n)
          PROVE  h[T] = IF T = {} THEN known
                        ELSE Collect(h[T \ {Max(T)}], consumer, s[Max(T)])
      BY <2>2, <2>3 DEF IsFold
    <3>2. QED
      BY <3>1
  <2>5. QED
    BY <2>4
<1>4. Equation(fold)
  <2> HIDE DEF Equation
  <2>1. QED
    BY <1>3
<1> HIDE DEF fold
<1>5. fold[{}] = known /\ f[0] = fold[1..0] /\ 1..0 = {}
  BY <1>4
<1>6. ASSUME NEW k \in 1..n
      PROVE  f[k] = Collect(f[k - 1], consumer, s[k])
  <2>1. fold[1..k] = Collect(fold[(1..k) \ {Max(1..k)}], consumer, s[Max(1..k)])
    BY <1>4, PrefixAt
  <2>2. k \in 0..n /\ k - 1 \in 0..n
    OBVIOUS
  <2>3. f[k] = fold[1..k] /\ f[k - 1] = fold[1..(k - 1)]
    BY <2>2
  <2>4. Max(1..k) = k /\ (1..k) \ {k} = 1..(k - 1)
    BY PrefixAt
  <2>5. QED
    BY <2>1, <2>3, <2>4
<1>7. f \in [0..n -> Known]
  <2> DEFINE T == {k \in 0..n : f[k] \in Known}
  <2>1. 0 \in T
    <3>1. 0 \in 0..n /\ f[0] = known
      BY <1>5
    <3> HIDE DEF f
    <3>2. QED
      BY <3>1
  <2>2. ASSUME NEW k \in 0..(n - 1), k \in T
        PROVE  k + 1 \in T
    <3>1. k + 1 \in 1..n /\ (k + 1) - 1 = k /\ k + 1 \in 0..n
      OBVIOUS
    <3>2. f[k + 1] = Collect(f[k], consumer, s[k + 1])
      BY <1>6, <3>1
    <3> HIDE DEF f
    <3>3. QED
      BY <1>2, <2>2, <3>1, <3>2
  <2>3. \A k \in 0..n : k \in T
    <3> HIDE DEF T
    <3>1. QED
      BY ONLY <2>1, <2>2, n \in Nat, Induction
  <2>4. QED
    BY <2>3
<1>8. f[0] = known /\ f[n] = fold[1..n]
  BY <1>5
<1> HIDE DEF f
<1>9. CollectsInto(f, n, known, consumer, s)
  BY <1>1, <1>6, <1>8 DEF CollectsInto
<1>10. QED
  BY <1>7, <1>9

LEMMA CollectAllGathers ==
  ASSUME NEW known, NEW D, NEW alertName, Gathered(known, D, alertName),
         NEW consumer \in Positive,
         \A e \in D : e.consumer \in Positive \ {consumer},
         NEW s \in Seq(Wants),
         \A i \in 1..Len(s) :
           s[i].alert = (IF s[i].id = AlertMustFire THEN alertName ELSE 0),
         \A i, j \in 1..Len(s) : s[i].id = s[j].id => i = j
  PROVE  Gathered(CollectAll(known, consumer, s), D \cup DemandsOf(consumer, s),
                  alertName)
<1>1. PICK n \in Nat : n = Len(s) /\ s \in [1..n -> Wants] /\ DOMAIN s = 1..n
  OBVIOUS
<1>2. known \in Known
  BY DEF Gathered
<1>3. PICK f \in [0..n -> Known] : CollectsInto(f, n, known, consumer, s)
  BY <1>1, <1>2, CollectAllRun
<1> DEFINE Asked(i) == Demand(consumer, s[i].id, s[i].path, s[i].filter)
           First(k) == {Asked(i) : i \in 1..k}
           T == {k \in 0..n : Gathered(f[k], D \cup First(k), alertName)}
<1>4. 0 \in T
  <2>1. First(0) = {} /\ 0 \in 0..n
    OBVIOUS
  <2>2. D \cup First(0) = D /\ f[0] = known
    BY <1>3, <2>1 DEF CollectsInto
  <2> HIDE DEF First
  <2>3. QED
    BY <2>1, <2>2
<1>5. ASSUME NEW k \in 0..(n - 1), k \in T
      PROVE  k + 1 \in T
  <2>1. k + 1 \in 1..n /\ (k + 1) - 1 = k /\ k + 1 \in 0..n
    OBVIOUS
  <2>2. f[k + 1] = Collect(f[k], consumer, s[k + 1])
    BY <1>3, <2>1 DEF CollectsInto
  <2>3. PICK r \in Wants : r = s[k + 1]
    BY <1>1, <2>1
  <2>4. First(k + 1) = First(k) \cup {Asked(k + 1)}
    <3>1. \A i \in 1..(k + 1) : i \in 1..k \/ i = k + 1
      OBVIOUS
    <3>2. 1..k \subseteq 1..(k + 1) /\ k + 1 \in 1..(k + 1)
      OBVIOUS
    <3> HIDE DEF Asked
    <3>3. QED
      BY <3>1, <3>2
  <2>5. \A e \in First(k) : e.consumer = consumer /\ e.id # r.id
    <3>1. ASSUME NEW i \in 1..k
          PROVE  s[i].id # r.id
      BY <1>1, <2>1, <2>3
    <3>2. QED
      BY <3>1 DEF Demand
  <2>6. /\ \A e \in D \cup First(k) : e.consumer \in Positive
        /\ \A e \in D \cup First(k) : e.id = r.id => e.consumer # consumer
    <3> HIDE DEF First
    <3>1. QED
      BY <2>5
  <2>7. r.alert = (IF r.id = AlertMustFire THEN alertName ELSE 0)
    BY <1>1, <2>1, <2>3
  <2>8. Gathered(f[k], D \cup First(k), alertName)
    BY <1>5
  <2>9. Asked(k + 1) = Demand(consumer, r.id, r.path, r.filter)
    BY <2>3
  <2> HIDE DEF First, Asked
  <2>10. Gathered(Collect(f[k], consumer, r), (D \cup First(k)) \cup {Asked(k + 1)},
                  alertName)
    BY ONLY <2>6, <2>7, <2>8, <2>9, consumer \in Positive, r \in Wants, CollectGathers
  <2>11. (D \cup First(k)) \cup {Asked(k + 1)} = D \cup First(k + 1)
    BY <2>4
  <2>12. QED
    BY <2>1, <2>2, <2>3, <2>10, <2>11
<1>6. \A k \in 0..n : k \in T
  <2> HIDE DEF T
  <2>1. QED
    BY ONLY <1>4, <1>5, n \in Nat, Induction
<1>7. Gathered(f[n], D \cup First(n), alertName)
  BY <1>6
<1>8. First(n) = DemandsOf(consumer, s)
  BY <1>1 DEF DemandsOf, ToSet
<1>9. f[n] = CollectAll(known, consumer, s)
  BY <1>3 DEF CollectsInto
<1>10. QED
  BY <1>7, <1>8, <1>9

----------------------------------------------------------------------------
\* What was read.

Past == {"collected", "write", "written", "loaded", "rejected", "accepted",
         "refused", "invalid"}
States == {"getDashboard", "getAlert", "panels", "failed"} \cup Past

ReadType ==
  /\ pc \in States
  /\ dashboard \in Dashboards \cup {<< >>} /\ dashboard \in Seq(Widgets)
  /\ alert \in Rules \cup {NoRule} /\ next \in 1..Len(dashboard) + 1
  /\ whole \in BOOLEAN

\* A resource that has been read decodes, and a panel that the collector went
\* past, and the rule, are supported.
ReadInv ==
  /\ ReadType
  /\ pc \in {"getDashboard", "getAlert"} => next = 1
  /\ pc \notin {"getDashboard", "failed"} => ValidDashboard(dashboard)
  /\ pc \in {"panels"} \cup Past =>
       alert \in Rules /\ DecodesCondition(alert.condition) /\ alert.name # ""
  /\ pc # "failed" =>
       \A w \in 1..(next - 1) : SupportedPanel(MapPanelQuery(dashboard[w].query))
  /\ pc \in Past =>
       /\ next = Len(dashboard) + 1
       /\ SupportedCondition(MapCondition(alert.condition)) /\ alert.identity # 0

Resources == <<dashboard, alert, next>>

LEMMA ReadAtInit == Init => ReadInv
<1> SUFFICES ASSUME Init PROVE ReadInv
  OBVIOUS
<1>1. << >> \in Seq(Widgets) /\ Len(<< >>) = 0
  OBVIOUS
<1>2. ReadType
  <2>1. dashboard \in Seq(Widgets) /\ next \in 1..Len(dashboard) + 1
    BY <1>1 DEF Init
  <2>2. /\ pc \in States /\ dashboard \in {<< >>} /\ alert \in {NoRule}
        /\ whole \in BOOLEAN
    BY DEF Init, States
  <2>3. QED
    BY <2>1, <2>2 DEF ReadType
<1>3. QED
  BY <1>2 DEF Init, ReadInv, Past

LEMMA PastMoves ==
  ASSUME ReadInv, UNCHANGED Resources, pc \in Past,
         pc' \in Past \cup {"failed"}, whole' \in BOOLEAN
  PROVE  ReadInv'
<1>1. ReadType'
  BY DEF ReadInv, ReadType, Resources, States
<1>2. pc' \notin {"getDashboard", "getAlert", "panels"}
  BY DEF Past
<1>3. QED
  BY <1>1, <1>2 DEF ReadInv, Resources, Past

LEMMA FailMoves ==
  ASSUME ReadInv, Fail
  PROVE  ReadInv'
<1>1. ReadType'
  BY DEF ReadInv, ReadType, Fail, States
<1>2. pc' = "failed"
  BY DEF Fail
<1>3. QED
  BY <1>1, <1>2 DEF ReadInv, Past

LEMMA ReadStep == ReadInv /\ [Next]_vars => ReadInv'
<1> SUFFICES ASSUME ReadInv, [Next]_vars PROVE ReadInv'
  OBVIOUS
<1> USE DEF States
<1>0. ReadType
  BY DEF ReadInv
<1>1. CASE GetDashboard
  <2>1. PICK panels \in Dashboards : ValidDashboard(panels) /\ dashboard' = panels
    BY <1>1 DEF GetDashboard
  <2>2. /\ pc = "getDashboard" /\ pc' = "getAlert"
        /\ UNCHANGED <<alert, next, whole>>
    BY <1>1 DEF GetDashboard
  <2>3. next = 1
    BY <2>2 DEF ReadInv
  <2>4. dashboard' \in Seq(Widgets) /\ Len(dashboard') \in Nat
    BY <2>1, WireAssumption
  <2>5. ReadType'
    BY <1>0, <2>1, <2>2, <2>3, <2>4 DEF ReadType
  <2>6. QED
    BY <2>1, <2>2, <2>3, <2>5 DEF ReadInv, Past
<1>2. CASE GetAlert
  <2>1. PICK rule \in Rules : /\ DecodesCondition(rule.condition) /\ rule.name # ""
                             /\ alert' = rule
    BY <1>2 DEF GetAlert
  <2>2. /\ pc = "getAlert" /\ pc' = "panels"
        /\ UNCHANGED <<dashboard, next, whole>>
    BY <1>2 DEF GetAlert
  <2>3. ReadType'
    BY <1>0, <2>1, <2>2 DEF ReadType
  <2>4. QED
    BY <2>1, <2>2, <2>3 DEF ReadInv, Past
<1>3. CASE ReadWidget
  <2>1. /\ pc = "panels" /\ next <= Len(dashboard) /\ ReadableWidget
        /\ pc' \in {"panels", "failed"} /\ next' = next + 1
        /\ UNCHANGED <<dashboard, alert, whole>>
    BY <1>3 DEF ReadWidget, Add
  <2>2. ReadType'
    BY <1>0, <2>1 DEF ReadType
  <2>3. ASSUME NEW w \in 1..(next' - 1)
        PROVE  SupportedPanel(MapPanelQuery(dashboard[w].query))
    <3>1. w \in 1..(next - 1) \/ w = next
      BY <1>0, <2>1 DEF ReadType
    <3>2. CASE w \in 1..(next - 1)
      BY <2>1, <3>2 DEF ReadInv
    <3>3. CASE w = next
      BY <2>1, <3>3 DEF ReadableWidget, Widget
    <3>4. QED
      BY <3>1, <3>2, <3>3
  <2>4. QED
    BY <2>1, <2>2, <2>3 DEF ReadInv, Past
<1>4. CASE ReadAlert
  <2>1. /\ pc = "panels" /\ next = Len(dashboard) + 1 /\ ReadableAlert
        /\ pc' \in {"collected", "failed"}
        /\ UNCHANGED <<dashboard, alert, next, whole>>
    BY <1>4 DEF ReadAlert, Add, PanelsRead
  <2>2. ReadType'
    BY <1>0, <2>1 DEF ReadType, Past
  <2>3. QED
    BY <2>1, <2>2 DEF ReadInv, ReadableAlert, Past
<1>5. CASE ResourceFails \/ RefuseWidget \/ RefuseAlert \/ OperationMissing
  BY <1>5, FailMoves DEF ResourceFails, RefuseWidget, RefuseAlert, OperationMissing
<1>6. CASE Assemble
  BY <1>0, <1>6, PastMoves DEF Assemble, ReadType, Resources, Past
<1>7. CASE WriteFile \/ WriteBreaks
  BY <1>0, <1>7, PastMoves DEF WriteFile, WriteBreaks, ReadType, Resources, Past
<1>8. CASE Load \/ CheckCanonical
  BY <1>0, <1>8, PastMoves DEF Load, CheckCanonical, ReadType, Resources, Past
<1>9. CASE UNCHANGED vars
  BY <1>9 DEF ReadInv, ReadType, vars
<1>10. QED
  BY <1>1, <1>2, <1>3, <1>4, <1>5, <1>6, <1>7, <1>8, <1>9 DEF Next, Stopped

LEMMA ReadHolds == Spec => []ReadInv
BY ReadAtInit, ReadStep, PTL DEF Spec

LEMMA PastIsAlone ==
  ASSUME ReadInv
  PROVE  NothingIsDropped
<1> SUFFICES ASSUME Mined PROVE NothingIsDropped
  BY DEF NothingIsDropped
<1>1. pc \in Past
  BY DEF Mined, Past
<1>2. /\ ReadType /\ ValidDashboard(dashboard)
      /\ alert \in Rules /\ DecodesCondition(alert.condition)
      /\ next = Len(dashboard) + 1
      /\ SupportedCondition(MapCondition(alert.condition))
      /\ \A w \in 1..(next - 1) : SupportedPanel(MapPanelQuery(dashboard[w].query))
  BY <1>1 DEF ReadInv, Past
<1>3. ASSUME NEW widget \in ToSet(dashboard)
      PROVE  /\ widget.query.queryType = "builder"
             /\ widget.query.lists = {} /\ ~widget.query.unknown
             /\ \A spec \in ToSet(widget.query.queryData) :
                  Alone(spec, "sum(cart.value)")
  <2>1. dashboard \in Seq(Widgets)
    BY <1>2 DEF ReadType
  <2>2. PICK w \in 1..Len(dashboard) : widget = dashboard[w]
    BY <2>1 DEF ToSet
  <2>3. widget \in Widgets
    BY <2>1, <2>2
  <2>4. DecodesQuery(widget.query)
    BY <1>2 DEF ValidDashboard
  <2>5. SupportedPanel(MapPanelQuery(widget.query))
    <3>1. w \in 1..(next - 1)
      BY <1>2, <2>1
    <3>2. QED
      BY <1>2, <2>2, <3>1
  <2>6. QED
    BY <2>3, <2>4, <2>5, PanelIsAlone
<1>4. /\ ~alert.condition.unknown
      /\ \A query \in ToSet(alert.condition.queries) :
           /\ query.type = "builder_query"
           /\ Alone(query.spec, "count()")
           /\ alert.condition.selectedQueryName \in
                {"", query.spec.name, query.spec.queryName}
  BY <1>2, ConditionIsAlone
<1>5. QED
  BY <1>3, <1>4 DEF NothingIsDropped

\* A query that is mined is, in its wire form, what the contract says of it.
THEOREM QueriesAreWhole == Spec => []NothingIsDropped
BY ReadHolds, PastIsAlone, PTL

----------------------------------------------------------------------------
\* What a panel and the rule require.

LEMMA FilterTyped ==
  ASSUME NEW spec, WireSpec(spec), NEW fields, Scoped(spec.filter, fields),
         "service.name" \in fields
  PROVE  /\ ScopedFilter(spec.filter) \in Filters
         /\ ScopedFilter(spec.filter).service = spec.filter["service.name"]
         /\ ScopedFilter(spec.filter).service # 0
         /\ ScopedFilter(spec.filter).error = ("error.type" \in fields)
<1> DEFINE filter == ScopedFilter(spec.filter)
           asked == "error.type" \in fields
<1>1. /\ DOMAIN spec.filter = fields /\ spec.filter["service.name"] \in Nat
      /\ spec.filter["service.name"] # 0
  BY DEF Scoped, WireSpec
<1>2. filter = [service |-> spec.filter["service.name"], error |-> asked]
  BY <1>1 DEF ScopedFilter
<1>3. asked \in BOOLEAN
  OBVIOUS
<1> HIDE DEF asked, filter
<1>4. filter \in Filters
  BY <1>1, <1>2, <1>3 DEF Filters
<1>5. filter.service = spec.filter["service.name"] /\ filter.error = asked
  BY <1>2
<1>6. QED
  BY <1>1, <1>4, <1>5 DEF filter, asked

\* A panel that the collector accepts.
LEMMA PanelFilter ==
  ASSUME NEW widget \in Widgets, DecodesQuery(widget.query),
         SupportedPanel(MapPanelQuery(widget.query))
  PROVE  /\ ScopedFilter(FilterOf(widget)) \in Filters
         /\ ScopedFilter(FilterOf(widget)).service
              = FilterOf(widget)["service.name"]
         /\ ScopedFilter(FilterOf(widget)).service # 0
         /\ ScopedFilter(FilterOf(widget)).error = FALSE
<1> DEFINE list == widget.query.queryData
<1>1. IsList(list) /\ \A spec \in ToSet(list) : WireSpec(spec)
  BY WireAssumption
<1>2. Only(list) /\ \A spec \in ToSet(list) : Scoped(spec.filter, PanelFields)
  BY PanelIsAlone
<1>3. Head(list) = list[1] /\ ToSet(list) = {list[1]}
  <2> HIDE DEF list
  <2>1. QED
    BY <1>1, <1>2, OnlyOne
<1>4. FilterOf(widget) = list[1].filter
  BY <1>3 DEF FilterOf
<1>5. WireSpec(list[1]) /\ Scoped(list[1].filter, PanelFields)
  BY <1>1, <1>2, <1>3
<1>6. "service.name" \in PanelFields /\ ("error.type" \in PanelFields) = FALSE
  BY DEF PanelFields
<1> DEFINE spec == list[1]
           filter == ScopedFilter(spec.filter)
<1> HIDE DEF list, spec
<1>7. /\ filter \in Filters /\ filter.service = spec.filter["service.name"]
      /\ filter.service # 0 /\ filter.error = ("error.type" \in PanelFields)
  BY <1>5, <1>6, FilterTyped DEF spec
<1>8. filter.error = FALSE
  BY <1>6, <1>7, Zenon
<1>9. filter = ScopedFilter(FilterOf(widget))
  BY <1>4 DEF spec
<1>10. QED
  BY <1>4, <1>7, <1>8, <1>9 DEF spec

LEMMA RuleFilter ==
  ASSUME NEW rule \in Rules, DecodesCondition(rule.condition),
         SupportedCondition(MapCondition(rule.condition))
  PROVE  /\ ScopedFilter(FilterOfRule(rule)) \in Filters
         /\ ScopedFilter(FilterOfRule(rule)).service
              = FilterOfRule(rule)["service.name"]
         /\ ScopedFilter(FilterOfRule(rule)).service # 0
         /\ ScopedFilter(FilterOfRule(rule)).error = TRUE
<1> DEFINE list == rule.condition.queries
<1>1. IsList(list) /\ \A query \in ToSet(list) : WireSpec(query.spec)
  BY WireAssumption
<1>2. /\ Only(list)
      /\ \A query \in ToSet(list) : Scoped(query.spec.filter, AlertFields)
  BY ConditionIsAlone
<1>3. Head(list) = list[1] /\ ToSet(list) = {list[1]}
  <2> HIDE DEF list
  <2>1. QED
    BY <1>1, <1>2, OnlyOne
<1>4. FilterOfRule(rule) = list[1].spec.filter
  BY <1>3 DEF FilterOfRule
<1>5. WireSpec(list[1].spec) /\ Scoped(list[1].spec.filter, AlertFields)
  BY <1>1, <1>2, <1>3
<1>6. "service.name" \in AlertFields /\ "error.type" \in AlertFields
  BY DEF AlertFields, PanelFields
<1> HIDE DEF list
<1>7. QED
  BY <1>4, <1>5, <1>6, FilterTyped

PanelSum(w) ==
  Requirement(CartValue, WidgetSumPath(w), ScopedFilter(FilterOf(dashboard[w])), 0)
PanelText(w) == Requirement(Operation, WidgetTextPath(w), NoFilter, 0)
RuleCount ==
  Requirement(ErrorType, AlertFilterPath, ScopedFilter(FilterOfRule(alert)), 0)
RuleFires == Requirement(AlertMustFire, AlertNamePath, NoFilter, alert.identity)
RuleText == Requirement(Operation, AlertTextPath, NoFilter, 0)

PanelReadable(w) ==
  /\ dashboard[w] \in Widgets /\ DecodesQuery(dashboard[w].query)
  /\ SupportedPanel(MapPanelQuery(dashboard[w].query))
RuleReadable ==
  /\ alert \in Rules /\ DecodesCondition(alert.condition)
  /\ SupportedCondition(MapCondition(alert.condition)) /\ alert.identity # 0

\* What a list of requirements must be to be collected.
Collectable(s, alertName) ==
  /\ s \in Seq(Wants) /\ s # << >>
  /\ \A i \in 1..Len(s) :
       s[i].alert = (IF s[i].id = AlertMustFire THEN alertName ELSE 0)
  /\ \A i, j \in 1..Len(s) : s[i].id = s[j].id => i = j

LEMMA ConcatOne ==
  ASSUME NEW S, NEW s \in Seq(S), NEW x \in S
  PROVE  s \o <<x>> = Append(s, x) /\ s \o << >> = s
<1>1. /\ <<x>> \in Seq(S) /\ << >> \in Seq(S)
      /\ Len(<<x>>) = 1 /\ Len(<< >>) = 0 /\ <<x>>[1] = x
  OBVIOUS
<1>2. \A t \in Seq(S) : /\ s \o t \in Seq(S) /\ Len(s \o t) = Len(s) + Len(t)
                        /\ \A i \in 1..Len(s) : (s \o t)[i] = s[i]
                        /\ \A i \in 1..Len(t) : (s \o t)[Len(s) + i] = t[i]
  OBVIOUS
<1>3. PICK t \in Seq(S) : t = s \o <<x>>
  BY <1>1, <1>2
<1>4. /\ Len(t) = Len(s) + 1 /\ t[Len(s) + 1] = x
      /\ \A i \in 1..Len(s) : t[i] = s[i]
  BY <1>1, <1>2, <1>3
<1>5. t = Append(s, x)
  BY <1>4
<1>6. PICK u \in Seq(S) : u = s \o << >>
  BY <1>1, <1>2
<1>7. Len(u) = Len(s) /\ \A i \in 1..Len(s) : u[i] = s[i]
  BY <1>1, <1>2, <1>6
<1>8. u = s
  BY <1>7
<1>9. QED
  BY <1>3, <1>5, <1>6, <1>8

LEMMA AppendPair ==
  ASSUME NEW S, NEW s \in Seq(S), NEW a, NEW b \in S, Len(s) = 1, s[1] = a
  PROVE  Append(s, b) = <<a, b>>
<1> DEFINE t == Append(s, b)
<1>1. PICK n \in Nat : n = Len(s)
  OBVIOUS
<1>2. /\ t \in Seq(S) /\ Len(t) = n + 1 /\ t[n + 1] = b
      /\ \A i \in 1..n : t[i] = s[i]
  BY ONLY s \in Seq(S), b \in S, n \in Nat, <1>1
<1> HIDE DEF t
<1>3. Len(t) = 2 /\ t[1] = a /\ t[2] = b
  BY <1>1, <1>2
<1>4. t \in Seq(S)
  BY <1>2
<1>5. t = <<a, b>>
  BY ONLY <1>3, <1>4
<1>6. QED
  BY <1>5 DEF t

LEMMA AppendTriple ==
  ASSUME NEW S, NEW s \in Seq(S), NEW a, NEW b, NEW c \in S,
         Len(s) = 2, s[1] = a, s[2] = b
  PROVE  Append(s, c) = <<a, b, c>>
<1> DEFINE t == Append(s, c)
<1>1. PICK n \in Nat : n = Len(s)
  OBVIOUS
<1>2. /\ t \in Seq(S) /\ Len(t) = n + 1 /\ t[n + 1] = c
      /\ \A i \in 1..n : t[i] = s[i]
  BY ONLY s \in Seq(S), c \in S, n \in Nat, <1>1
<1> HIDE DEF t
<1>3. Len(t) = 3 /\ t[1] = a /\ t[2] = b /\ t[3] = c
  BY <1>1, <1>2
<1>4. t \in Seq(S)
  BY <1>2
<1>5. t = <<a, b, c>>
  BY ONLY <1>3, <1>4
<1>6. QED
  BY <1>5 DEF t

LEMMA ConcatTwo ==
  ASSUME NEW a, NEW b
  PROVE  <<a>> \o <<b>> = <<a, b>> /\ <<a>> \o << >> = <<a>>
<1> DEFINE S == {a, b}
<1>1. <<a>> \in Seq(S) /\ b \in S /\ Len(<<a>>) = 1 /\ <<a>>[1] = a
  OBVIOUS
<1> HIDE DEF S
<1>2. PICK s \in Seq(S) : s = <<a>>
  BY <1>1
<1>3. Len(s) = 1 /\ s[1] = a
  BY <1>1, <1>2
<1>4. Append(s, b) = <<a, b>>
  BY <1>1, <1>3, AppendPair
<1>5. s \o <<b>> = Append(s, b) /\ s \o << >> = s
  BY <1>1, ConcatOne
<1>6. QED
  BY <1>2, <1>4, <1>5

LEMMA ConcatThree ==
  ASSUME NEW a, NEW b, NEW c
  PROVE  <<a, b>> \o <<c>> = <<a, b, c>> /\ <<a, b>> \o << >> = <<a, b>>
<1> DEFINE S == {a, b, c}
<1>1. /\ <<a, b>> \in Seq(S) /\ c \in S /\ Len(<<a, b>>) = 2
      /\ <<a, b>>[1] = a /\ <<a, b>>[2] = b
  OBVIOUS
<1> HIDE DEF S
<1>2. PICK s \in Seq(S) : s = <<a, b>>
  BY <1>1
<1>3. Len(s) = 2 /\ s[1] = a /\ s[2] = b
  BY <1>1, <1>2
<1>4. Append(s, c) = <<a, b, c>>
  BY <1>1, <1>3, AppendTriple
<1>5. s \o <<c>> = Append(s, c) /\ s \o << >> = s
  BY <1>1, ConcatOne
<1>6. QED
  BY <1>2, <1>4, <1>5

LEMMA PanelCollectable ==
  ASSUME NEW w \in Nat, PanelReadable(w)
  PROVE  /\ PanelRequirements(w) = IF dashboard[w].describes
                                   THEN <<PanelSum(w), PanelText(w)>>
                                   ELSE <<PanelSum(w)>>
         /\ \A alertName : Collectable(PanelRequirements(w), alertName)
<1> DEFINE a == PanelSum(w)
           b == PanelText(w)
<1>1. PanelRequirements(w) = IF dashboard[w].describes THEN <<a, b>> ELSE <<a>>
  <2>1. PanelRequirements(w)
          = <<a>> \o (IF dashboard[w].describes THEN <<b>> ELSE << >>)
    BY DEF PanelRequirements, PanelSum, PanelText
  <2>2. <<a>> \o <<b>> = <<a, b>> /\ <<a>> \o << >> = <<a>>
    BY ConcatTwo
  <2> HIDE DEF a, b
  <2>3. QED
    BY <2>1, <2>2
<1>2. /\ a.id = CartValue /\ a.alert = 0 /\ b.id = Operation /\ b.alert = 0
      /\ a \in Wants /\ b \in Wants
  <2>1. ScopedFilter(FilterOf(dashboard[w])) \in Filters
    BY PanelFilter DEF PanelReadable
  <2>2. WidgetSumPath(w) \in Positive /\ WidgetTextPath(w) \in Positive
    BY DEF WidgetSumPath, WidgetTextPath, Positive
  <2>3. NoFilter \in Filters
    BY NoFilterIsFilter
  <2> HIDE DEF a, b
  <2>4. /\ a = [id |-> CartValue, path |-> WidgetSumPath(w),
                filter |-> ScopedFilter(FilterOf(dashboard[w])), alert |-> 0]
        /\ b = [id |-> Operation, path |-> WidgetTextPath(w),
                filter |-> NoFilter, alert |-> 0]
    BY DEF a, b, PanelSum, PanelText, Requirement
  <2>5. CartValue \in RequirementIds /\ Operation \in RequirementIds
    BY DEF CartValue, Operation, RequirementIds
  <2>6. QED
    BY <2>1, <2>2, <2>3, <2>4, <2>5 DEF Wants
<1>3. CartValue # Operation /\ CartValue # AlertMustFire /\ Operation # AlertMustFire
  BY DEF CartValue, Operation, AlertMustFire
<1> HIDE DEF a, b
<1>4. \A alertName : Collectable(<<a, b>>, alertName) /\ Collectable(<<a>>, alertName)
  BY <1>2, <1>3 DEF Collectable
<1>5. QED
  BY <1>1, <1>4 DEF a, b

LEMMA RuleCollectable ==
  ASSUME RuleReadable
  PROVE  /\ AlertRequirements = IF alert.describes
                                THEN <<RuleCount, RuleFires, RuleText>>
                                ELSE <<RuleCount, RuleFires>>
         /\ Collectable(AlertRequirements, alert.identity)
<1> DEFINE a == RuleCount
           b == RuleFires
           c == RuleText
<1>1. AlertRequirements = IF alert.describes THEN <<a, b, c>> ELSE <<a, b>>
  <2>1. AlertRequirements
          = <<a, b>> \o (IF alert.describes THEN <<c>> ELSE << >>)
    BY DEF AlertRequirements, RuleCount, RuleFires, RuleText
  <2>2. <<a, b>> \o <<c>> = <<a, b, c>> /\ <<a, b>> \o << >> = <<a, b>>
    BY ConcatThree
  <2> HIDE DEF a, b, c
  <2>3. QED
    BY <2>1, <2>2
<1>2. /\ a.id = ErrorType /\ a.alert = 0 /\ b.id = AlertMustFire
      /\ b.alert = alert.identity /\ c.id = Operation /\ c.alert = 0
      /\ a \in Wants /\ b \in Wants /\ c \in Wants
  <2>1. ScopedFilter(FilterOfRule(alert)) \in Filters
    BY RuleFilter DEF RuleReadable
  <2>2. /\ AlertFilterPath \in Positive /\ AlertNamePath \in Positive
        /\ AlertTextPath \in Positive
    BY DEF AlertFilterPath, AlertNamePath, AlertTextPath, Positive
  <2>3. NoFilter \in Filters /\ alert.identity \in Nat
    BY NoFilterIsFilter, MinerAssumption DEF RuleReadable
  <2>4. /\ a = [id |-> ErrorType, path |-> AlertFilterPath,
                filter |-> ScopedFilter(FilterOfRule(alert)), alert |-> 0]
        /\ b = [id |-> AlertMustFire, path |-> AlertNamePath,
                filter |-> NoFilter, alert |-> alert.identity]
        /\ c = [id |-> Operation, path |-> AlertTextPath,
                filter |-> NoFilter, alert |-> 0]
    BY DEF RuleCount, RuleFires, RuleText, Requirement
  <2>5. /\ ErrorType \in RequirementIds /\ AlertMustFire \in RequirementIds
        /\ Operation \in RequirementIds
    BY DEF ErrorType, AlertMustFire, Operation, RequirementIds
  <2> HIDE DEF a, b, c
  <2>6. QED
    BY <2>1, <2>2, <2>3, <2>4, <2>5 DEF Wants
<1>3. ErrorType # Operation /\ ErrorType # AlertMustFire /\ Operation # AlertMustFire
  BY DEF ErrorType, Operation, AlertMustFire
<1> HIDE DEF a, b, c
<1>4. Collectable(<<a, b, c>>, alert.identity) /\ Collectable(<<a, b>>, alert.identity)
  BY <1>2, <1>3 DEF Collectable
<1>5. QED
  BY <1>1, <1>4 DEF a, b, c

----------------------------------------------------------------------------
\* What was collected.

PanelConsumer(w) ==
  [id |-> dashboard[w].panel, name |-> dashboard[w].name,
   requires |-> References(PanelRequirements(w))]
RuleConsumer ==
  [id |-> AlertConsumer, name |-> alert.name,
   requires |-> References(AlertRequirements)]

PanelDemands(n) ==
  UNION {DemandsOf(dashboard[w].panel, PanelRequirements(w)) : w \in 1..n}
DemandsRead ==
  PanelDemands(next - 1)
  \cup IF pc \in Past THEN DemandsOf(AlertConsumer, AlertRequirements) ELSE {}

\* The consumers are the panels up to the next one, and the rule once all of them
\* are read; the requirements say what these demand.
Collected ==
  /\ consumers \in Seq(ConsumerRecord) /\ DistinctIds(consumers)
  /\ Len(consumers) = IF pc \in Past THEN next ELSE next - 1
  /\ \A w \in 1..(next - 1) : consumers[w] = PanelConsumer(w)
  /\ pc \in Past => consumers[next] = RuleConsumer
  /\ Gathered(requirements, DemandsRead, alert.identity)

Typed(known) ==
  /\ known \in Known
  /\ \A id \in DOMAIN known :
       known[id].id = id /\ NoFilter \notin ToSet(known[id].filters)

CollectInv ==
  /\ consumers \in Seq(ConsumerRecord) /\ Typed(requirements)
  /\ pc \in {"getDashboard", "getAlert"} =>
       consumers = << >> /\ requirements = << >>
  /\ pc # "failed" => Collected

LEMMA GatheredIds ==
  ASSUME NEW known, NEW D, NEW alertName, Gathered(known, D, alertName)
  PROVE  Typed(known)
BY DEF Gathered, Gathers, Typed

LEMMA NothingGathered ==
  ASSUME NEW alertName
  PROVE  Gathered(<< >>, {}, alertName)
<1>1. << >> \in [{} -> CheckRecord] /\ DOMAIN << >> = {}
  OBVIOUS
<1>2. << >> \in Known
  BY <1>1 DEF Known
<1>3. QED
  BY <1>1, <1>2 DEF Gathered

\* Before the first panel is read.
LEMMA NothingCollected ==
  ASSUME ReadInv', pc' \in {"getDashboard", "getAlert", "panels"}, next' = 1,
         consumers' = << >>, requirements' = << >>
  PROVE  CollectInv'
<1>1. pc' \notin Past
  BY DEF Past
<1>2. DemandsRead' = {}
  BY <1>1 DEF DemandsRead, PanelDemands
<1>3. Gathered(requirements', DemandsRead', alert.identity')
  BY <1>2, NothingGathered
<1>4. << >> \in Seq(ConsumerRecord) /\ Len(<< >>) = 0 /\ DOMAIN << >> = {}
  OBVIOUS
<1>5. Collected'
  <2>1. /\ consumers' \in Seq(ConsumerRecord) /\ DistinctIds(consumers')
        /\ Len(consumers') = next' - 1
    BY <1>4 DEF DistinctIds
  <2>2. \A w \in 1..(next' - 1) : FALSE
    OBVIOUS
  <2>3. QED
    BY <1>1, <1>3, <2>1, <2>2 DEF Collected
<1>6. Typed(requirements')
  BY <1>3, GatheredIds
<1>7. QED
  BY <1>4, <1>5, <1>6 DEF CollectInv

LEMMA AppendDistinct ==
  ASSUME NEW S, NEW s \in Seq(S), DistinctIds(s), NEW c \in S,
         c.id \notin IdsOf(s)
  PROVE  /\ Append(s, c) \in Seq(S) /\ DistinctIds(Append(s, c))
         /\ Len(Append(s, c)) = Len(s) + 1 /\ Append(s, c)[Len(s) + 1] = c
         /\ \A i \in 1..Len(s) : Append(s, c)[i] = s[i]
<1> DEFINE t == Append(s, c)
<1>1. PICK n \in Nat : n = Len(s) /\ DOMAIN s = 1..n
  OBVIOUS
<1>2. /\ t \in Seq(S) /\ Len(t) = n + 1 /\ t[n + 1] = c
      /\ \A i \in 1..n : t[i] = s[i]
  BY ONLY s \in Seq(S), c \in S, n \in Nat, <1>1
<1> HIDE DEF t
<1>3. DOMAIN t = 1..(n + 1)
  BY <1>2
<1>4. ASSUME NEW i \in 1..(n + 1), NEW j \in 1..(n + 1), t[i].id = t[j].id
      PROVE  i = j
  <2>1. \A k \in 1..(n + 1) : k \in 1..n \/ k = n + 1
    OBVIOUS
  <2>2. \A k \in 1..n : s[k].id # c.id
    BY <1>1 DEF IdsOf
  <2>3. CASE i \in 1..n /\ j \in 1..n
    BY <1>1, <1>2, <1>4, <2>3 DEF DistinctIds
  <2>4. CASE i = n + 1 /\ j \in 1..n
    BY <1>2, <1>4, <2>2, <2>4
  <2>5. CASE j = n + 1 /\ i \in 1..n
    BY <1>2, <1>4, <2>2, <2>5
  <2>6. QED
    BY <2>1, <2>3, <2>4, <2>5
<1>5. DistinctIds(t)
  BY <1>3, <1>4 DEF DistinctIds
<1>6. QED
  BY <1>1, <1>2, <1>5 DEF t

LEMMA ReferencesTyped ==
  ASSUME NEW s \in Seq(Wants)
  PROVE  /\ References(s) \in Seq(Refs) /\ Len(References(s)) = Len(s)
         /\ \A i \in 1..Len(s) : References(s)[i] = [id |-> s[i].id, path |-> s[i].path]
<1>1. PICK n \in Nat : n = Len(s) /\ DOMAIN s = 1..n
  OBVIOUS
<1>2. References(s) = [i \in 1..n |-> [id |-> s[i].id, path |-> s[i].path]]
  BY <1>1 DEF References
<1>3. ASSUME NEW i \in 1..n
      PROVE  [id |-> s[i].id, path |-> s[i].path] \in Refs
  <2>1. PICK r \in Wants : r = s[i]
    BY <1>1
  <2>2. r.id \in RequirementIds /\ r.path \in Positive
    BY DEF Wants
  <2>3. QED
    BY <2>1, <2>2 DEF Refs
<1>4. QED
  BY <1>1, <1>2, <1>3

\* All consumers of the demands so far are among the consumers.
LEMMA DemandersAreConsumers ==
  ASSUME ReadType, Collected, pc \notin Past
  PROVE  \A d \in DemandsRead : d.consumer \in Positive \cap IdsOf(consumers)
<1> SUFFICES ASSUME NEW d \in DemandsRead
             PROVE  d.consumer \in Positive \cap IdsOf(consumers)
  OBVIOUS
<1>1. PICK w \in 1..(next - 1) :
        d \in DemandsOf(dashboard[w].panel, PanelRequirements(w))
  BY DEF DemandsRead, PanelDemands
<1>2. d.consumer = dashboard[w].panel
  BY <1>1 DEF DemandsOf, Demand
<1>3. consumers[w].id = dashboard[w].panel
  BY DEF Collected, PanelConsumer
<1>4. /\ consumers \in Seq(ConsumerRecord) /\ Len(consumers) = next - 1
      /\ w \in 1..Len(consumers)
  BY DEF Collected
<1>5. w \in DOMAIN consumers /\ consumers[w] \in ConsumerRecord
  BY <1>4
<1>6. QED
  BY <1>2, <1>3, <1>5 DEF IdsOf, ConsumerRecord

\* The collector takes a consumer.
LEMMA AddCollects ==
  ASSUME NEW id \in Positive, NEW name \in DOMAIN ReadBack, NEW s, NEW then,
         ReadType, Collected, pc \notin Past,
         Collectable(s, alert.identity), id \notin IdsOf(consumers),
         consumers' = Append(consumers,
           [id |-> id, name |-> name, requires |-> References(s)]),
         requirements' = CollectAll(requirements, id, s)
  PROVE  /\ consumers' \in Seq(ConsumerRecord) /\ DistinctIds(consumers')
         /\ Len(consumers') = next
         /\ \A w \in 1..(next - 1) : consumers'[w] = PanelConsumer(w)
         /\ consumers'[next] = [id |-> id, name |-> name, requires |-> References(s)]
         /\ Gathered(requirements', DemandsRead \cup DemandsOf(id, s), alert.identity)
<1> DEFINE c == [id |-> id, name |-> name, requires |-> References(s)]
<1>1. s \in Seq(Wants)
  BY DEF Collectable
<1>2. c \in ConsumerRecord /\ c.id = id
  BY <1>1, ReferencesTyped DEF ConsumerRecord
<1>3. consumers \in Seq(ConsumerRecord) /\ DistinctIds(consumers)
      /\ Len(consumers) = next - 1 /\ next \in Nat
  BY DEF Collected, ReadType
<1>4. consumers' = Append(consumers, c)
  OBVIOUS
<1> HIDE DEF c
<1>5. /\ consumers' \in Seq(ConsumerRecord) /\ DistinctIds(consumers')
      /\ Len(consumers') = Len(consumers) + 1
      /\ consumers'[Len(consumers) + 1] = c
      /\ \A i \in 1..Len(consumers) : consumers'[i] = consumers[i]
  BY <1>2, <1>3, <1>4, AppendDistinct
<1>6. Gathered(requirements', DemandsRead \cup DemandsOf(id, s), alert.identity)
  <2>1. \A e \in DemandsRead : e.consumer \in Positive \ {id}
    BY DemandersAreConsumers
  <2>2. Gathered(requirements, DemandsRead, alert.identity)
    BY DEF Collected
  <2>3. /\ \A i \in 1..Len(s) :
             s[i].alert = (IF s[i].id = AlertMustFire THEN alert.identity ELSE 0)
        /\ \A i, j \in 1..Len(s) : s[i].id = s[j].id => i = j
    BY DEF Collectable
  <2>4. QED
    BY <1>1, <2>1, <2>2, <2>3, CollectAllGathers
<1>7. (next - 1) + 1 = next
  BY <1>3
<1>8. \A w \in 1..(next - 1) : consumers'[w] = PanelConsumer(w)
  BY <1>3, <1>5 DEF Collected
<1>9. QED
  BY <1>3, <1>5, <1>6, <1>7, <1>8 DEF c

LEMMA PanelsAreReadable ==
  ASSUME ReadInv, pc # "failed", NEW w \in 1..(next - 1)
  PROVE  w \in 1..Len(dashboard) /\ PanelReadable(w)
<1>1. /\ dashboard \in Seq(Widgets) /\ next \in 1..(Len(dashboard) + 1)
      /\ Len(dashboard) \in Nat
  <2>1. dashboard \in Seq(Widgets) /\ next \in 1..(Len(dashboard) + 1)
    BY DEF ReadInv, ReadType
  <2>2. QED
    BY ONLY <2>1
<1>2. w \in 1..Len(dashboard) /\ pc # "getDashboard"
  <2>1. pc = "getDashboard" => next = 1
    BY DEF ReadInv
  <2>2. QED
    BY <1>1, <2>1
<1>3. dashboard[w] \in Widgets /\ dashboard[w] \in ToSet(dashboard)
  BY <1>1, <1>2 DEF ToSet
<1>4. DecodesQuery(dashboard[w].query)
  BY <1>2, <1>3 DEF ReadInv, ValidDashboard
<1>5. SupportedPanel(MapPanelQuery(dashboard[w].query))
  BY DEF ReadInv
<1>6. QED
  BY <1>2, <1>3, <1>4, <1>5 DEF PanelReadable

\* All panels are read.
LEMMA PastRead ==
  ASSUME ReadInv, pc \in Past
  PROVE  /\ dashboard \in Seq(Widgets) /\ next = Len(dashboard) + 1
         /\ DOMAIN dashboard = 1..(next - 1) /\ pc # "failed"
<1>1. dashboard \in Seq(Widgets) /\ next = Len(dashboard) + 1
  BY DEF ReadInv, ReadType
<1>2. pc # "failed"
  BY DEF Past
<1>3. DOMAIN dashboard = 1..Len(dashboard) /\ Len(dashboard) \in Nat
  BY ONLY <1>1
<1>4. QED
  BY ONLY <1>1, <1>2, <1>3

LEMMA RuleIsReadable ==
  ASSUME ReadInv, pc \in Past
  PROVE  RuleReadable
BY DEF ReadInv, RuleReadable, Past

\* Who a panel becomes as a consumer.
LEMMA PanelIdentity ==
  ASSUME ReadInv, pc \notin {"getDashboard", "failed"},
         NEW w \in 1..Len(dashboard)
  PROVE  /\ dashboard[w].panel \in Positive \ {AlertConsumer}
         /\ dashboard[w].name \in DOMAIN ReadBack
<1>1. dashboard \in Seq(Widgets) /\ ValidDashboard(dashboard)
  BY DEF ReadInv, ReadType
<1>2. dashboard[w] \in Widgets /\ dashboard[w] \in ToSet(dashboard)
  BY <1>1 DEF ToSet
<1>3. dashboard[w].panel # 0 /\ dashboard[w].name # ""
  BY <1>1, <1>2 DEF ValidDashboard
<1>4. /\ dashboard[w].panel \in Nat \ {1}
      /\ dashboard[w].name \in DOMAIN ReadBack \cup {""}
  BY <1>2, MinerAssumption
<1>5. QED
  BY <1>3, <1>4 DEF Positive, AlertConsumer

Kept == UNCHANGED <<dashboard, alert, next, consumers, requirements>>

\* Nothing is collected any more, or the mining has failed.
LEMMA CollectedKept ==
  ASSUME CollectInv, Kept,
         \/ pc' = "failed"
         \/ pc \in Past /\ pc' \in Past
  PROVE  CollectInv'
<1>1. consumers' \in Seq(ConsumerRecord) /\ Typed(requirements')
  BY DEF CollectInv, Kept
<1>2. pc' \notin {"getDashboard", "getAlert"}
  BY DEF Past
<1>3. ASSUME pc' # "failed"
      PROVE  Collected'
  <2>1. pc \in Past /\ pc' \in Past /\ pc # "failed"
    BY <1>3 DEF Past
  <2>2. Collected
    BY <2>1 DEF CollectInv
  <2>3. DemandsRead' = DemandsRead
    BY <2>1 DEF Kept, DemandsRead, PanelDemands, PanelRequirements,
                AlertRequirements
  <2>4. /\ \A w : PanelConsumer(w)' = PanelConsumer(w)
        /\ RuleConsumer' = RuleConsumer
    BY DEF Kept, PanelConsumer, RuleConsumer, PanelRequirements, AlertRequirements
  <2>5. QED
    BY <2>1, <2>2, <2>3, <2>4 DEF Collected, Kept
<1>4. QED
  BY <1>1, <1>2, <1>3 DEF CollectInv

LEMMA CollectReadWidget ==
  ASSUME ReadInv, CollectInv, ReadWidget
  PROVE  CollectInv'
<1>1. /\ pc = "panels" /\ next <= Len(dashboard) /\ ReadableWidget
      /\ next' = next + 1 /\ UNCHANGED <<dashboard, alert>>
  BY DEF ReadWidget
<1>2. ReadType /\ pc \notin Past /\ Collected
  BY <1>1 DEF ReadInv, CollectInv, Past
<1>3. CASE pc' = "failed"
  <2>1. UNCHANGED <<consumers, requirements>>
    BY <1>3 DEF ReadWidget, Add
  <2>2. QED
    BY <1>3, <2>1 DEF CollectInv
<1>4. CASE pc' # "failed"
  <2>1. /\ pc' = "panels" /\ Widget.panel \notin IdsOf(consumers)
        /\ consumers' = Append(consumers,
             [id |-> Widget.panel, name |-> Widget.name,
              requires |-> References(PanelRequirements(next))])
        /\ requirements' = CollectAll(requirements, Widget.panel,
                                      PanelRequirements(next))
    BY <1>4 DEF ReadWidget, Add
  <2>2. next \in 1..Len(dashboard) /\ next \in Nat
    BY <1>1, <1>2 DEF ReadType
  <2>3. Widget.panel \in Positive /\ Widget.name \in DOMAIN ReadBack
    BY <1>1, <2>2, PanelIdentity DEF Widget
  <2>4. PanelReadable(next)
    <3>1. dashboard[next] \in Widgets /\ dashboard[next] \in ToSet(dashboard)
      BY <1>2, <2>2 DEF ReadType, ToSet
    <3>2. QED
      BY <1>1, <3>1 DEF PanelReadable, ReadableWidget, Widget, ReadInv,
                        ValidDashboard
  <2>5. Collectable(PanelRequirements(next), alert.identity)
    BY <2>2, <2>4, PanelCollectable
  <2>6. /\ consumers' \in Seq(ConsumerRecord) /\ DistinctIds(consumers')
        /\ Len(consumers') = next
        /\ \A w \in 1..(next - 1) : consumers'[w] = PanelConsumer(w)
        /\ consumers'[next] = [id |-> Widget.panel, name |-> Widget.name,
                               requires |-> References(PanelRequirements(next))]
        /\ Gathered(requirements',
             DemandsRead \cup DemandsOf(Widget.panel, PanelRequirements(next)),
             alert.identity)
    <3> DEFINE id == Widget.panel
               name == Widget.name
               s == PanelRequirements(next)
    <3> HIDE DEF id, name, s
    <3>1. id \in Positive /\ name \in DOMAIN ReadBack /\ id \notin IdsOf(consumers)
          /\ Collectable(s, alert.identity)
      BY <2>1, <2>3, <2>5 DEF id, name, s
    <3>2. /\ consumers' = Append(consumers,
               [id |-> id, name |-> name, requires |-> References(s)])
          /\ requirements' = CollectAll(requirements, id, s)
      BY <2>1 DEF id, name, s
    <3>3. /\ consumers' \in Seq(ConsumerRecord) /\ DistinctIds(consumers')
          /\ Len(consumers') = next
          /\ \A w \in 1..(next - 1) : consumers'[w] = PanelConsumer(w)
          /\ consumers'[next] = [id |-> id, name |-> name,
                                 requires |-> References(s)]
          /\ Gathered(requirements', DemandsRead \cup DemandsOf(id, s), alert.identity)
      BY ONLY <1>2, <3>1, <3>2, AddCollects
    <3>4. QED
      BY <3>3 DEF id, name, s
  <2>7. \A w : /\ PanelConsumer(w)' = PanelConsumer(w)
               /\ PanelRequirements(w)' = PanelRequirements(w)
    BY <1>1 DEF PanelConsumer, PanelRequirements
  <2>8. \A w \in 1..(next' - 1) : w \in 1..(next - 1) \/ w = next
    BY <1>1, <2>2
  <2>9. \A w \in 1..(next' - 1) : consumers'[w] = PanelConsumer(w)'
    <3>1. PanelConsumer(next)
            = [id |-> Widget.panel, name |-> Widget.name,
               requires |-> References(PanelRequirements(next))]
      BY DEF PanelConsumer, Widget
    <3>2. QED
      BY <2>6, <2>7, <2>8, <3>1
  <2>10. DemandsRead'
           = DemandsRead \cup DemandsOf(Widget.panel, PanelRequirements(next))
    <3> DEFINE Of1(w) == DemandsOf(dashboard[w].panel, PanelRequirements(w))
    <3>1. DemandsRead = UNION {Of1(w) : w \in 1..(next - 1)}
      BY <1>2 DEF DemandsRead, PanelDemands
    <3>2. pc' \notin Past
      BY <2>1 DEF Past
    <3>3. DemandsRead' = UNION {Of1(w) : w \in 1..(next' - 1)}
      BY <1>1, <2>7, <3>2 DEF DemandsRead, PanelDemands
    <3>4. 1..(next' - 1) = (1..(next - 1)) \cup {next}
      BY <1>1, <2>2
    <3>5. Of1(next) = DemandsOf(Widget.panel, PanelRequirements(next))
      BY DEF Widget
    <3> HIDE DEF Of1
    <3>6. UNION {Of1(w) : w \in (1..(next - 1)) \cup {next}}
            = (UNION {Of1(w) : w \in 1..(next - 1)}) \cup Of1(next)
      OBVIOUS
    <3>7. QED
      BY <3>1, <3>3, <3>4, <3>5, <3>6
  <2>11. Gathered(requirements', DemandsRead', alert.identity')
    BY <1>1, <2>6, <2>10
  <2>12. Collected'
    <3>1. pc' \notin Past /\ Len(consumers') = next' - 1
      BY <1>1, <2>1, <2>2, <2>6 DEF Past
    <3>2. QED
      BY <2>6, <2>9, <2>11, <3>1 DEF Collected
  <2>13. QED
    BY <2>1, <2>6, <2>11, <2>12, GatheredIds DEF CollectInv
<1>5. QED
  BY <1>3, <1>4

LEMMA CollectReadAlert ==
  ASSUME ReadInv, CollectInv, ReadAlert
  PROVE  CollectInv'
<1>1. /\ pc = "panels" /\ next = Len(dashboard) + 1 /\ ReadableAlert
      /\ UNCHANGED <<dashboard, alert, next>>
  BY DEF ReadAlert, PanelsRead
<1>2. ReadType /\ pc \notin Past /\ Collected
  BY <1>1 DEF ReadInv, CollectInv, Past
<1>3. CASE pc' = "failed"
  <2>1. UNCHANGED <<consumers, requirements>>
    BY <1>3 DEF ReadAlert, Add
  <2>2. QED
    BY <1>3, <2>1 DEF CollectInv
<1>4. CASE pc' # "failed"
  <2>1. /\ pc' = "collected" /\ AlertConsumer \notin IdsOf(consumers)
        /\ consumers' = Append(consumers,
             [id |-> AlertConsumer, name |-> alert.name,
              requires |-> References(AlertRequirements)])
        /\ requirements' = CollectAll(requirements, AlertConsumer,
                                      AlertRequirements)
    BY <1>4 DEF ReadAlert, Add
  <2>2. AlertConsumer \in Positive /\ alert.name \in DOMAIN ReadBack
    <3>1. alert \in Rules /\ alert.name # ""
      BY <1>1 DEF ReadInv
    <3>2. \A rule \in Rules : rule.name \in DOMAIN ReadBack \cup {""}
      BY ONLY MinerAssumption DEF MinerAssumption
    <3>3. AlertConsumer \in Positive
      BY DEF AlertConsumer, Positive
    <3>4. QED
      BY ONLY <3>1, <3>2, <3>3
  <2>3. RuleReadable
    BY <1>1 DEF ReadInv, RuleReadable, ReadableAlert
  <2>4. Collectable(AlertRequirements, alert.identity)
    BY <2>3, RuleCollectable
  <2>5. /\ consumers' \in Seq(ConsumerRecord) /\ DistinctIds(consumers')
        /\ Len(consumers') = next
        /\ \A w \in 1..(next - 1) : consumers'[w] = PanelConsumer(w)
        /\ consumers'[next] = RuleConsumer
        /\ Gathered(requirements',
             DemandsRead \cup DemandsOf(AlertConsumer, AlertRequirements),
             alert.identity)
    BY ONLY <1>2, <2>1, <2>2, <2>4, AddCollects DEF RuleConsumer
  <2>6. pc' \in Past
    BY <2>1 DEF Past
  <2>7. /\ \A w : PanelConsumer(w)' = PanelConsumer(w)
        /\ RuleConsumer' = RuleConsumer
    BY <1>1 DEF PanelConsumer, RuleConsumer, PanelRequirements, AlertRequirements
  <2>8. DemandsRead'
          = DemandsRead \cup DemandsOf(AlertConsumer, AlertRequirements)
    BY <1>1, <1>2, <2>6 DEF DemandsRead, PanelDemands, PanelRequirements,
                            AlertRequirements
  <2>9. Gathered(requirements', DemandsRead', alert.identity')
    BY <1>1, <2>5, <2>8
  <2>10. Collected'
    BY <1>1, <2>5, <2>6, <2>7, <2>9 DEF Collected
  <2>11. QED
    BY <2>1, <2>5, <2>9, <2>10, GatheredIds DEF CollectInv
<1>5. QED
  BY <1>3, <1>4

LEMMA CollectStep == ReadInv /\ ReadInv' /\ CollectInv /\ [Next]_vars => CollectInv'
<1> SUFFICES ASSUME ReadInv, ReadInv', CollectInv, [Next]_vars
             PROVE  CollectInv'
  OBVIOUS
<1>1. CASE GetDashboard
  BY <1>1, NothingCollected DEF GetDashboard, ReadInv, CollectInv
<1>2. CASE GetAlert
  BY <1>2, NothingCollected DEF GetAlert, ReadInv, CollectInv
<1>3. CASE ResourceFails \/ RefuseWidget \/ RefuseAlert \/ OperationMissing
  BY <1>3, CollectedKept DEF ResourceFails, RefuseWidget, RefuseAlert,
                             OperationMissing, Fail, Kept
<1>4. CASE ReadWidget
  BY <1>4, CollectReadWidget
<1>5. CASE ReadAlert
  BY <1>5, CollectReadAlert
<1>6. CASE Assemble
  BY <1>6, CollectedKept DEF Assemble, Kept, Past
<1>7. CASE WriteFile \/ WriteBreaks
  BY <1>7, CollectedKept DEF WriteFile, WriteBreaks, Kept, Past
<1>8. CASE Load \/ CheckCanonical
  BY <1>8, CollectedKept DEF Load, CheckCanonical, Kept, Past
<1>9. CASE UNCHANGED vars
  BY <1>9 DEF vars, CollectInv, Collected, DemandsRead, PanelDemands,
     PanelRequirements, AlertRequirements, PanelConsumer, RuleConsumer
<1>10. QED
  BY <1>1, <1>2, <1>3, <1>4, <1>5, <1>6, <1>7, <1>8, <1>9 DEF Next, Stopped

LEMMA CollectAtInit == Init => CollectInv
<1> SUFFICES ASSUME Init PROVE CollectInv
  OBVIOUS
<1>1. /\ pc = "getDashboard" /\ next = 1
      /\ consumers = << >> /\ requirements = << >>
  BY DEF Init
<1>2. DemandsRead = {}
  BY <1>1 DEF DemandsRead, PanelDemands, Past
<1>3. Gathered(requirements, DemandsRead, alert.identity)
  BY <1>1, <1>2, NothingGathered
<1>4. << >> \in Seq(ConsumerRecord) /\ Len(<< >>) = 0 /\ DOMAIN << >> = {}
  OBVIOUS
<1>5. Collected
  BY <1>1, <1>3, <1>4 DEF Collected, DistinctIds, Past
<1>6. QED
  BY <1>1, <1>3, <1>5, GatheredIds DEF CollectInv

MinedInv == ReadInv /\ CollectInv

LEMMA MinedHolds == Spec => []MinedInv
<1>1. Init => MinedInv
  BY ReadAtInit, CollectAtInit DEF MinedInv
<1>2. MinedInv /\ [Next]_vars => MinedInv'
  BY ReadStep, CollectStep DEF MinedInv
<1>3. QED
  BY <1>1, <1>2, PTL DEF Spec

----------------------------------------------------------------------------
\* What Normalize makes of a contract.

Itself(S) == [x \in S |-> x]
Services(S) == [f \in S |-> f.service]
Ids(S) == [r \in S |-> r.id]

LEMMA AscendingOrders ==
  ASSUME NEW S \in SUBSET Int, NEW u, Lists(u, S)
  PROVE  Ordered(Ascending(u), S, Itself(S)) /\ Len(Ascending(u)) = Len(u)
<1>1. u \in Seq(S)
  BY DEF Lists
<1>2. \A i \in DOMAIN u : Itself(S)[u[i]] = u[i]
  BY <1>1 DEF Itself
<1>3. u = [i \in DOMAIN u |-> Itself(S)[u[i]]]
  BY <1>1, <1>2
<1>4. Itself(S) \in [S -> Int] /\ \A x, y \in S : Itself(S)[x] = Itself(S)[y] => x = y
  BY DEF Itself
<1>5. QED
  BY <1>3, <1>4, SortOrders DEF Ascending

\* Records with distinct identifiers, by their identifiers.
LEMMA IdsRank ==
  ASSUME NEW X, NEW r \in Seq(X), \A x \in X : x.id \in Int, DistinctIds(r)
  PROVE  /\ Lists(r, ToSet(r)) /\ Ids(ToSet(r)) \in [ToSet(r) -> Int]
         /\ \A x, y \in ToSet(r) : Ids(ToSet(r))[x] = Ids(ToSet(r))[y] => x = y
         /\ ToSet(r) \subseteq X
<1> DEFINE S == ToSet(r)
<1>1. DOMAIN r = 1..Len(r) /\ \A i \in 1..Len(r) : r[i] \in X /\ r[i] \in S
  BY DEF ToSet
<1>2. S \subseteq X /\ \A x \in S : \E i \in 1..Len(r) : r[i] = x
  BY <1>1 DEF ToSet
<1>3. r \in Seq(S)
  BY <1>1
<1>4. \A i, j \in 1..Len(r) : r[i].id = r[j].id => i = j
  BY <1>1 DEF DistinctIds
<1>5. Lists(r, S)
  <2> HIDE DEF S
  <2>1. QED
    BY <1>2, <1>3, <1>4 DEF Lists
<1>6. Ids(S) \in [S -> Int]
  BY <1>2 DEF Ids
<1>7. \A x, y \in S : Ids(S)[x] = Ids(S)[y] => x = y
  <2>1. ASSUME NEW x \in S, NEW y \in S, x.id = y.id
        PROVE  x = y
    <3>1. PICK i \in 1..Len(r) : r[i] = x
      BY <1>2
    <3>2. PICK j \in 1..Len(r) : r[j] = y
      BY <1>2
    <3>3. i = j
      BY <1>4, <2>1, <3>1, <3>2
    <3>4. QED
      BY <3>1, <3>2, <3>3
  <2> HIDE DEF S
  <2>2. QED
    BY <2>1 DEF Ids
<1>8. QED
  BY <1>2, <1>5, <1>6, <1>7

LEMMA ByIdOrders ==
  ASSUME NEW X, NEW r \in Seq(X), \A x \in X : x.id \in Int, DistinctIds(r)
  PROVE  Ordered(ById(r), ToSet(r), Ids(ToSet(r))) /\ Len(ById(r)) = Len(r)
<1> DEFINE S == ToSet(r)
           key == [i \in DOMAIN r |-> r[i].id]
<1>1. /\ Lists(r, S) /\ Ids(S) \in [S -> Int]
      /\ \A x, y \in S : Ids(S)[x] = Ids(S)[y] => x = y
  BY IdsRank
<1>2. key = [i \in DOMAIN r |-> Ids(S)[r[i]]]
  <2>1. \A i \in DOMAIN r : Ids(S)[r[i]] = r[i].id
    BY DEF Ids, ToSet
  <2>2. QED
    BY <2>1
<1> HIDE DEF S, key
<1>3. Ordered(Sort(r, key), S, Ids(S)) /\ Len(Sort(r, key)) = Len(r)
  BY <1>1, <1>2, SortOrders
<1>4. QED
  BY <1>3 DEF S, key, ById

\* A requirement of the contract, in its normal form.
IsNormal(n, id, D, alertName) ==
  /\ n \in CheckRecord /\ n.id = id
  /\ n.alert = (IF id = AlertMustFire THEN alertName ELSE 0)
  /\ Ordered(n.paths, PathsOf(D), Itself(PathsOf(D))) /\ n.paths # << >>
  /\ n.path = n.paths[1]
  /\ Ordered(n.filters, AskedBy(D), Services(AskedBy(D)))
  /\ n.filter = (IF Len(n.filters) = 1 THEN n.filters[1] ELSE NoFilter)
  /\ Ordered(n.consumers, ConsumersOf(D), Itself(ConsumersOf(D)))

OneService(D) ==
  \A f, g \in AskedBy(D) : f.service = g.service => f = g

LEMMA PathsList ==
  ASSUME NEW check \in CheckRecord, NEW D, NEW id, NEW alertName,
         Gathers(check, id, D, alertName)
  PROVE  /\ PathsOf(D) \subseteq Positive /\ check.path \in PathsOf(D)
         /\ Lists(Paths(check), PathsOf(D))
<1>1. check.path \in Positive /\ check.paths \in Seq(Positive)
  BY DEF CheckRecord
<1>2. /\ Given(check.path, 0) \in Seq(Positive)
      /\ ToSet(Given(check.path, 0)) = {check.path}
  <2>1. check.path # 0
    BY <1>1 DEF Positive
  <2>2. QED
    BY <1>1, <2>1, GivenIs
<1> DEFINE s == Given(check.path, 0) \o check.paths
<1>3. s \in Seq(Positive) /\ ToSet(s) = {check.path} \cup ToSet(check.paths)
  BY <1>1, <1>2, ToSetConcat
<1>4. {check.path} \cup ToSet(check.paths) = PathsOf(D)
  BY DEF Gathers
<1>5. ToSet(check.paths) \subseteq Positive
  BY <1>1 DEF ToSet
<1> HIDE DEF s
<1>6. Lists(Unique(s), PathsOf(D))
  BY <1>3, <1>4, UniqueLists
<1>7. QED
  BY <1>1, <1>4, <1>5, <1>6 DEF Paths, s

LEMMA FiltersList ==
  ASSUME NEW check \in CheckRecord, NEW D, NEW id, NEW alertName,
         Gathers(check, id, D, alertName)
  PROVE  AskedBy(D) \subseteq Filters /\ Lists(FiltersOf(check), AskedBy(D))
<1>1. check.filter \in Filters /\ check.filters \in Seq(Filters)
  BY DEF CheckRecord
<1> DEFINE given == Given(check.filter, NoFilter)
           s == given \o check.filters
<1>2. given \in Seq(Filters) /\ ToSet(given) = {check.filter} \ {NoFilter}
  BY <1>1, GivenIs
<1> HIDE DEF given
<1>3. s \in Seq(Filters) /\ ToSet(s) = ToSet(given) \cup ToSet(check.filters)
  BY <1>1, <1>2, ToSetConcat
<1>4. /\ ({check.filter} \cup ToSet(check.filters)) \ {NoFilter} = AskedBy(D)
      /\ NoFilter \notin ToSet(check.filters)
  BY DEF Gathers
<1>5. ToSet(check.filters) \subseteq Filters
  BY <1>1 DEF ToSet
<1> HIDE DEF s
<1>6. ToSet(s) = AskedBy(D)
  BY <1>2, <1>3, <1>4
<1>7. Lists(Unique(s), AskedBy(D))
  BY <1>3, <1>6, UniqueLists
<1>8. AskedBy(D) \subseteq Filters
  BY <1>1, <1>4, <1>5
<1>9. QED
  BY <1>7, <1>8 DEF FiltersOf, s, given

LEMMA NormalCheckIs ==
  ASSUME NEW check \in CheckRecord, NEW D, NEW id, NEW alertName,
         Gathers(check, id, D, alertName), OneService(D)
  PROVE  IsNormal(NormalCheck(check), id, D, alertName)
<1> DEFINE n == NormalCheck(check)
           paths == Ascending(Paths(check))
           unsorted == FiltersOf(check)
           key == [i \in DOMAIN unsorted |-> unsorted[i].service]
           filters == Sort(unsorted, key)
<1>1. /\ PathsOf(D) \subseteq Positive /\ check.path \in PathsOf(D)
      /\ Lists(Paths(check), PathsOf(D))
  BY PathsList
<1>2. AskedBy(D) \subseteq Filters /\ Lists(unsorted, AskedBy(D))
  BY FiltersList
<1>3. check.consumers \in Seq(Positive) /\ Lists(check.consumers, ConsumersOf(D))
  BY DEF CheckRecord, Gathers
<1>4. ConsumersOf(D) \subseteq Positive
  <2>1. \A x \in ConsumersOf(D) : \E i \in 1..Len(check.consumers) :
          check.consumers[i] = x
    BY <1>3 DEF Lists
  <2>2. QED
    BY <1>3, <2>1
<1>5. \A S \in SUBSET Positive : S \in SUBSET Int
  BY DEF Positive
<1>6. Ordered(paths, PathsOf(D), Itself(PathsOf(D)))
  BY <1>1, <1>5, AscendingOrders
<1>7. Ordered(Ascending(check.consumers), ConsumersOf(D), Itself(ConsumersOf(D)))
  BY <1>3, <1>4, <1>5, AscendingOrders
<1>8. Ordered(filters, AskedBy(D), Services(AskedBy(D)))
  <2> DEFINE S == AskedBy(D)
  <2>1. Services(S) \in [S -> Int]
    BY <1>2 DEF Services, Filters
  <2>2. \A x, y \in S : Services(S)[x] = Services(S)[y] => x = y
    BY DEF Services, OneService
  <2>3. key = [i \in DOMAIN unsorted |-> Services(S)[unsorted[i]]]
    <3>1. unsorted \in Seq(S)
      BY <1>2 DEF Lists
    <3>2. \A i \in DOMAIN unsorted : Services(S)[unsorted[i]] = unsorted[i].service
      <4> HIDE DEF unsorted, S
      <4>1. QED
        BY <3>1 DEF Services
    <3>3. QED
      BY <3>2
  <2> HIDE DEF S, unsorted, key
  <2>4. QED
    BY <1>2, <2>1, <2>2, <2>3, SortOrders DEF S
<1> HIDE DEF paths, filters, unsorted, key
<1> DEFINE sorted == Ascending(check.consumers)
           path == IF paths = << >> THEN check.path ELSE Head(paths)
           filter == IF Len(filters) = 1 THEN Head(filters) ELSE NoFilter
<1>9. n = [id |-> check.id, path |-> path, paths |-> paths, filter |-> filter,
           filters |-> filters, consumers |-> sorted, alert |-> check.alert]
  <2>1. n = [check EXCEPT !.path = path, !.paths = paths, !.filter = filter,
                          !.filters = filters, !.consumers = sorted]
    BY DEF NormalCheck, paths, filters, unsorted, key
  <2> HIDE DEF n, path, filter, sorted
  <2>2. QED
    BY <2>1 DEF CheckRecord
<1>10. /\ paths \in Seq(Positive) /\ filters \in Seq(Filters)
       /\ sorted \in Seq(Positive)
  <2>1. /\ paths \in Seq(PathsOf(D)) /\ filters \in Seq(AskedBy(D))
        /\ sorted \in Seq(ConsumersOf(D))
    BY <1>6, <1>7, <1>8 DEF Ordered, Lists
  <2> HIDE DEF sorted
  <2>2. paths \in Seq(Positive)
    BY <1>1, <2>1
  <2>3. filters \in Seq(Filters)
    BY <1>2, <2>1
  <2>4. sorted \in Seq(Positive)
    BY <1>4, <2>1
  <2>5. QED
    BY <2>2, <2>3, <2>4
<1>11. paths # << >>
  <2>1. \E i \in 1..Len(paths) : paths[i] = check.path
    BY <1>1, <1>6 DEF Ordered, Lists
  <2>2. QED
    BY <1>10, <2>1
<1>12. Head(paths) = paths[1] /\ Head(paths) \in Positive
  <2>1. Head(paths) = paths[1]
    OBVIOUS
  <2>2. Len(paths) \in Nat /\ Len(paths) # 0
    BY <1>10, <1>11
  <2>3. 1 \in 1..Len(paths)
    BY <2>2
  <2>4. paths[1] \in Positive
    BY <1>10, <2>3
  <2>5. QED
    BY <2>1, <2>4
<1>13. Len(filters) = 1 => Head(filters) = filters[1] /\ Head(filters) \in Filters
  <2>1. Head(filters) = filters[1]
    OBVIOUS
  <2>2. ASSUME Len(filters) = 1
        PROVE  filters[1] \in Filters
    <3>1. 1 \in 1..Len(filters)
      BY <2>2
    <3>2. QED
      BY <1>10, <3>1
  <2>3. QED
    BY <2>1, <2>2
<1> HIDE DEF n
<1>14. n \in CheckRecord
  <2>1. check.id \in RequirementIds /\ check.alert \in Nat
    BY DEF CheckRecord
  <2>2. n.filter \in Filters /\ n.path \in Positive
    BY <1>9, <1>11, <1>12, <1>13, NoFilterIsFilter
  <2>3. QED
    BY <1>9, <1>10, <2>1, <2>2 DEF CheckRecord
<1>15. check.id = id /\ check.alert = (IF id = AlertMustFire THEN alertName ELSE 0)
  BY DEF Gathers
<1>16. n.path = n.paths[1] /\ n.paths # << >>
       /\ n.filter = (IF Len(n.filters) = 1 THEN n.filters[1] ELSE NoFilter)
  BY <1>9, <1>11, <1>12, <1>13
<1>17. IsNormal(n, id, D, alertName)
  BY <1>6, <1>7, <1>8, <1>9, <1>14, <1>15, <1>16 DEF IsNormal
<1>18. QED
  BY <1>17 DEF n

LEMMA ListSet ==
  ASSUME NEW u, NEW S, Lists(u, S)
  PROVE  ToSet(u) = S /\ DOMAIN u = 1..Len(u) /\ Len(u) \in Nat
<1>1. u \in Seq(S) /\ DOMAIN u = 1..Len(u)
  BY DEF Lists
<1>2. \A x \in S : \E i \in 1..Len(u) : u[i] = x
  BY DEF Lists
<1>3. \A i \in 1..Len(u) : u[i] \in S
  BY <1>1
<1>4. QED
  BY <1>1, <1>2, <1>3 DEF ToSet

LEMMA NormalTyped ==
  ASSUME NEW n, NEW id, NEW D, NEW alertName, IsNormal(n, id, D, alertName)
  PROVE  /\ PathsOf(D) \subseteq Positive /\ ConsumersOf(D) \subseteq Positive
         /\ AskedBy(D) \subseteq Filters
         /\ ToSet(n.paths) = PathsOf(D) /\ ToSet(n.filters) = AskedBy(D)
         /\ ToSet(n.consumers) = ConsumersOf(D)
         /\ n.path \in PathsOf(D)
<1>1. /\ n.paths \in Seq(Positive) /\ n.consumers \in Seq(Positive)
      /\ n.filters \in Seq(Filters)
  BY DEF IsNormal, CheckRecord
<1>2. /\ Lists(n.paths, PathsOf(D)) /\ Lists(n.filters, AskedBy(D))
      /\ Lists(n.consumers, ConsumersOf(D))
  BY DEF IsNormal, Ordered
<1>3. /\ ToSet(n.paths) = PathsOf(D) /\ ToSet(n.filters) = AskedBy(D)
      /\ ToSet(n.consumers) = ConsumersOf(D)
  BY <1>2, ListSet
<1>4. /\ ToSet(n.paths) \subseteq Positive /\ ToSet(n.consumers) \subseteq Positive
      /\ ToSet(n.filters) \subseteq Filters
  BY <1>1 DEF ToSet
<1>5. n.path \in ToSet(n.paths)
  <2>1. Len(n.paths) \in Nat /\ Len(n.paths) # 0
    BY <1>1 DEF IsNormal
  <2>2. 1 \in DOMAIN n.paths
    BY <1>1, <2>1
  <2>3. QED
    BY <2>2 DEF IsNormal, ToSet
<1>6. QED
  BY <1>3, <1>4, <1>5

\* There is one normal form.
LEMMA NormalOnce ==
  ASSUME NEW id, NEW D, NEW alertName, OneService(D),
         NEW m, IsNormal(m, id, D, alertName),
         NEW n, IsNormal(n, id, D, alertName)
  PROVE  m = n
<1>1. /\ PathsOf(D) \subseteq Positive /\ ConsumersOf(D) \subseteq Positive
      /\ AskedBy(D) \subseteq Filters
  BY NormalTyped
<1>2. ASSUME NEW S \in SUBSET Positive, NEW u, NEW v,
             Ordered(u, S, Itself(S)), Ordered(v, S, Itself(S))
      PROVE  u = v
  <2>1. /\ Itself(S) \in [S -> Int]
        /\ \A x, y \in S : Itself(S)[x] = Itself(S)[y] => x = y
    BY DEF Itself, Positive
  <2>2. QED
    BY <1>2, <2>1, OrderedOnce
<1>3. m.paths = n.paths /\ m.consumers = n.consumers
  BY <1>1, <1>2 DEF IsNormal
<1>4. m.filters = n.filters
  <2> DEFINE S == AskedBy(D)
  <2>1. /\ Services(S) \in [S -> Int]
        /\ \A x, y \in S : Services(S)[x] = Services(S)[y] => x = y
    BY <1>1 DEF Services, Filters, OneService
  <2>2. Ordered(m.filters, S, Services(S)) /\ Ordered(n.filters, S, Services(S))
    BY DEF IsNormal
  <2> HIDE DEF S
  <2>3. QED
    BY <2>1, <2>2, OrderedOnce
<1>5. m.id = n.id /\ m.alert = n.alert /\ m.path = n.path /\ m.filter = n.filter
  BY <1>3, <1>4 DEF IsNormal
<1>6. m \in CheckRecord /\ n \in CheckRecord
  BY DEF IsNormal
<1>7. \A c \in CheckRecord :
        c = [id |-> c.id, path |-> c.path, paths |-> c.paths,
             filter |-> c.filter, filters |-> c.filters,
             consumers |-> c.consumers, alert |-> c.alert]
  BY DEF CheckRecord
<1>8. QED
  BY <1>3, <1>4, <1>5, <1>6, <1>7

LEMMA NormalGathers ==
  ASSUME NEW n, NEW id, NEW D, NEW alertName, IsNormal(n, id, D, alertName)
  PROVE  n \in CheckRecord /\ Gathers(n, id, D, alertName)
<1>1. /\ ToSet(n.paths) = PathsOf(D) /\ ToSet(n.filters) = AskedBy(D)
      /\ n.path \in PathsOf(D) /\ AskedBy(D) \subseteq Filters
  BY NormalTyped
<1>2. /\ n.filters \in Seq(Filters)
      /\ n.filter = (IF Len(n.filters) = 1 THEN n.filters[1] ELSE NoFilter)
  BY DEF IsNormal, CheckRecord
<1>3. n.filter \in ToSet(n.filters) \cup {NoFilter}
  <2>1. CASE Len(n.filters) = 1
    <3>1. 1 \in DOMAIN n.filters
      BY <1>2, <2>1
    <3>2. QED
      BY <1>2, <2>1, <3>1 DEF ToSet
  <2>2. CASE Len(n.filters) # 1
    BY <1>2, <2>2
  <2>3. QED
    BY <2>1, <2>2
<1>4. NoFilter \notin AskedBy(D)
  BY DEF AskedBy
<1>5. Lists(n.consumers, ConsumersOf(D))
  BY DEF IsNormal, Ordered
<1>6. n \in CheckRecord /\ n.id = id
      /\ n.alert = (IF id = AlertMustFire THEN alertName ELSE 0)
  BY DEF IsNormal
<1>7. QED
  BY <1>1, <1>3, <1>4, <1>5, <1>6 DEF Gathers

\* The file says the same.
LEMMA WrittenGathers ==
  ASSUME NEW n, NEW id, NEW D, NEW alertName, IsNormal(n, id, D, alertName)
  PROVE  /\ WrittenCheck(n) \in CheckRecord
         /\ Gathers(WrittenCheck(n), id, D, alertName)
<1> DEFINE w == WrittenCheck(n)
           listed == FiltersOf(n)
           paths == IF Len(n.paths) > 1 THEN n.paths ELSE << >>
           filter == IF Len(listed) = 1 THEN Head(listed) ELSE NoFilter
           filters == IF Len(listed) > 1 THEN listed ELSE << >>
<1>1. n \in CheckRecord /\ Gathers(n, id, D, alertName)
  BY NormalGathers
<1>2. Lists(listed, AskedBy(D)) /\ AskedBy(D) \subseteq Filters
  BY <1>1, FiltersList
<1>3. /\ ToSet(n.paths) = PathsOf(D) /\ n.path \in PathsOf(D)
  BY NormalTyped
<1> HIDE DEF listed
<1>4. w = [id |-> n.id, path |-> n.path, paths |-> paths, filter |-> filter,
           filters |-> filters, consumers |-> n.consumers, alert |-> n.alert]
  <2>1. w = [n EXCEPT !.paths = paths, !.filter = filter, !.filters = filters]
    BY DEF WrittenCheck, listed
  <2> HIDE DEF w, paths, filter, filters
  <2>2. QED
    BY <1>1, <2>1 DEF CheckRecord
<1>5. listed \in Seq(Filters) /\ ToSet(listed) = AskedBy(D)
      /\ DOMAIN listed = 1..Len(listed) /\ Len(listed) \in Nat
  <2>1. listed \in Seq(AskedBy(D))
    BY <1>2 DEF Lists
  <2>2. listed \in Seq(Filters)
    BY <1>2, <2>1
  <2>3. QED
    BY <1>2, <2>2, ListSet
<1>6. n.paths \in Seq(Positive) /\ n.paths # << >> /\ n.path = n.paths[1]
  BY DEF IsNormal, CheckRecord
<1>7. paths \in Seq(Positive) /\ {n.path} \cup ToSet(paths) = PathsOf(D)
  <2>1. CASE Len(n.paths) > 1
    <3>1. paths = n.paths
      BY <2>1
    <3> HIDE DEF paths
    <3>2. QED
      BY <1>3, <1>6, <3>1
  <2>2. CASE ~(Len(n.paths) > 1)
    <3>1. Len(n.paths) = 1
      <4>1. Len(n.paths) \in Nat
        BY <1>6
      <4>2. Len(n.paths) # 0
        BY <1>6
      <4>3. PICK k \in Nat : k = Len(n.paths)
        BY <4>1
      <4>4. ~(k > 1) /\ k # 0
        BY <2>2, <4>2, <4>3
      <4>5. k = 1
        BY <4>4
      <4>6. QED
        BY <4>3, <4>5
    <3>2. DOMAIN n.paths = {1}
      BY <1>6, <3>1
    <3>3. ToSet(n.paths) = {n.path}
      BY <1>6, <3>2 DEF ToSet
    <3>4. paths = << >> /\ ToSet(<< >>) = {} /\ << >> \in Seq(Positive)
      BY <2>2 DEF ToSet
    <3> HIDE DEF paths
    <3>5. QED
      BY <1>3, <3>3, <3>4
  <2>3. QED
    BY <2>1, <2>2
<1>8. /\ filter \in Filters /\ filters \in Seq(Filters)
      /\ NoFilter \notin ToSet(filters)
      /\ ({filter} \cup ToSet(filters)) \ {NoFilter} = AskedBy(D)
  <2>1. NoFilter \in Filters /\ NoFilter \notin AskedBy(D)
    BY NoFilterIsFilter DEF AskedBy
  <2>2. << >> \in Seq(Filters) /\ ToSet(<< >>) = {}
    BY DEF ToSet
  <2>3. CASE Len(listed) = 0
    <3>1. ToSet(listed) = {}
      BY <1>5, <2>3 DEF ToSet
    <3>2. filter = NoFilter /\ filters = << >>
      BY <2>3
    <3> HIDE DEF filter, filters
    <3>3. QED
      BY <1>5, <2>1, <2>2, <3>1, <3>2
  <2>4. CASE Len(listed) = 1
    <3>1. DOMAIN listed = {1}
      BY <1>5, <2>4
    <3>2. ToSet(listed) = {listed[1]} /\ Head(listed) = listed[1]
      BY <3>1 DEF ToSet
    <3>3. filter = listed[1] /\ filters = << >>
      BY <2>4, <3>2
    <3> HIDE DEF filter, filters
    <3>4. listed[1] \in AskedBy(D)
      BY <1>5, <3>2
    <3>5. QED
      BY <1>2, <1>5, <2>1, <2>2, <3>2, <3>3, <3>4
  <2>5. CASE Len(listed) > 1
    <3>1. filter = NoFilter /\ filters = listed
      BY <2>5, <1>5
    <3> HIDE DEF filter, filters
    <3>2. QED
      BY <1>5, <2>1, <3>1
  <2>6. QED
    BY <1>5, <2>3, <2>4, <2>5
<1>9. /\ n.id \in RequirementIds /\ n.path \in Positive
      /\ n.consumers \in Seq(Positive) /\ n.alert \in Nat
  BY <1>1 DEF CheckRecord
<1> HIDE DEF paths, filter, filters, w
<1>10. w \in CheckRecord
  BY <1>4, <1>7, <1>8, <1>9 DEF CheckRecord
<1>11. /\ n.id = id /\ n.alert = (IF id = AlertMustFire THEN alertName ELSE 0)
       /\ Lists(n.consumers, ConsumersOf(D))
  BY <1>1 DEF Gathers
<1>12. Gathers(w, id, D, alertName)
  BY <1>4, <1>7, <1>8, <1>11 DEF Gathers
<1>13. QED
  BY <1>10, <1>12 DEF w

IncreasingIds(r) == \A i, j \in 1..Len(r) : i < j => r[i].id < r[j].id

LEMMA ByIdSorts ==
  ASSUME NEW X, NEW r \in Seq(X), \A x \in X : x.id \in Int, DistinctIds(r)
  PROVE  /\ ById(r) \in Seq(X) /\ Len(ById(r)) = Len(r)
         /\ IncreasingIds(ById(r)) /\ ToSet(ById(r)) = ToSet(r)
<1> DEFINE s == ById(r)
           S == ToSet(r)
<1>1. Ordered(s, S, Ids(S)) /\ Len(s) = Len(r)
  BY ByIdOrders
<1>2. S \subseteq X
  BY IdsRank
<1> HIDE DEF s, S
<1>3. Lists(s, S) /\ s \in Seq(S)
  BY <1>1 DEF Ordered, Lists
<1>4. ToSet(s) = S
  BY <1>3, ListSet
<1>5. IncreasingIds(s)
  <2>1. \A i \in 1..Len(s) : s[i] \in S /\ Ids(S)[s[i]] = s[i].id
    BY <1>3 DEF Ids
  <2>2. QED
    BY <1>1, <2>1 DEF Ordered, IncreasingIds
<1>6. s \in Seq(X)
  BY <1>2, <1>3
<1>7. QED
  BY <1>1, <1>4, <1>5, <1>6 DEF s, S

LEMMA IncreasingAreDistinct ==
  ASSUME NEW X, NEW r \in Seq(X), \A x \in X : x.id \in Int, IncreasingIds(r)
  PROVE  DistinctIds(r)
<1>1. PICK n \in Nat : n = Len(r) /\ DOMAIN r = 1..n
  OBVIOUS
<1>2. ASSUME NEW i \in 1..n, NEW j \in 1..n, r[i].id = r[j].id
      PROVE  i = j
  <2>1. r[i].id \in Int /\ r[j].id \in Int
    BY <1>1
  <2>2. ~(r[i].id < r[j].id) /\ ~(r[j].id < r[i].id)
    BY <1>2, <2>1
  <2>3. ~(i < j) /\ ~(j < i)
    BY <1>1, <2>2 DEF IncreasingIds
  <2>4. QED
    BY <2>3
<1>3. QED
  BY <1>1, <1>2 DEF DistinctIds

\* A sorted list stays as it is.
LEMMA ByIdKeeps ==
  ASSUME NEW X, NEW r \in Seq(X), \A x \in X : x.id \in Int, IncreasingIds(r)
  PROVE  ById(r) = r
<1> DEFINE s == ById(r)
           S == ToSet(r)
<1>1. DistinctIds(r)
  BY IncreasingAreDistinct
<1>2. /\ Lists(r, S) /\ Ids(S) \in [S -> Int]
      /\ \A x, y \in S : Ids(S)[x] = Ids(S)[y] => x = y
  BY <1>1, IdsRank
<1>3. Ordered(s, S, Ids(S))
  BY <1>1, ByIdOrders
<1> HIDE DEF s, S
<1>4. Ordered(r, S, Ids(S))
  <2>1. \A i \in 1..Len(r) : r[i] \in S /\ Ids(S)[r[i]] = r[i].id
    BY <1>2 DEF Lists, Ids
  <2>2. QED
    BY <1>2, <2>1 DEF Ordered, IncreasingIds
<1>5. s = r
  BY <1>2, <1>3, <1>4, OrderedOnce
<1>6. QED
  BY <1>5 DEF s

\* The consumers; read back from the file, a name may be empty.
NameKinds == DOMAIN ReadBack \cup {""}
Someone == [id : Positive, name : NameKinds, requires : Seq(Refs)]
NormalConsumer(c) == [c EXCEPT !.requires = ById(@)]
NormalConsumers(v) ==
  /\ v \in Seq(Someone) /\ IncreasingIds(v)
  /\ \A i \in 1..Len(v) : IncreasingIds(v[i].requires)

LEMMA NormalConsumerIs ==
  ASSUME NEW c \in Someone, DistinctIds(c.requires)
  PROVE  LET n == NormalConsumer(c)
         IN  /\ n \in Someone /\ n.id = c.id /\ n.name = c.name
             /\ n.requires = ById(c.requires)
             /\ IncreasingIds(n.requires) /\ ToSet(n.requires) = ToSet(c.requires)
             /\ Len(n.requires) = Len(c.requires)
<1>1. c.id \in Positive /\ c.name \in NameKinds
      /\ c.requires \in Seq(Refs)
  BY DEF Someone
<1>2. \A x \in Refs : x.id \in Int
  BY DEF Refs, RequirementIds
<1> DEFINE sorted == ById(c.requires)
<1>3. /\ sorted \in Seq(Refs) /\ Len(sorted) = Len(c.requires)
      /\ IncreasingIds(sorted) /\ ToSet(sorted) = ToSet(c.requires)
  BY <1>1, <1>2, ByIdSorts
<1> HIDE DEF sorted
<1>4. NormalConsumer(c) = [id |-> c.id, name |-> c.name, requires |-> sorted]
  <2>1. NormalConsumer(c) = [c EXCEPT !.requires = sorted]
    BY DEF NormalConsumer, sorted
  <2>2. QED
    BY <2>1 DEF Someone
<1>5. NormalConsumer(c) \in Someone
  BY <1>1, <1>3, <1>4 DEF Someone
<1>6. QED
  BY <1>3, <1>4, <1>5 DEF sorted

LEMMA NormalConsumerKeeps ==
  ASSUME NEW c \in Someone, IncreasingIds(c.requires)
  PROVE  NormalConsumer(c) = c
<1>1. c.requires \in Seq(Refs)
  BY DEF Someone
<1>2. \A x \in Refs : x.id \in Int
  BY DEF Refs, RequirementIds
<1>3. ById(c.requires) = c.requires
  BY <1>1, <1>2, ByIdKeeps
<1>4. QED
  BY <1>3 DEF NormalConsumer, Someone

SortedConsumers(v) == ById([i \in DOMAIN v |-> NormalConsumer(v[i])])

LEMMA ConsumersSorted ==
  ASSUME NEW v \in Seq(Someone), DistinctIds(v),
         \A i \in 1..Len(v) : DistinctIds(v[i].requires)
  PROVE  /\ NormalConsumers(SortedConsumers(v))
         /\ Len(SortedConsumers(v)) = Len(v)
         /\ ToSet(SortedConsumers(v)) = {NormalConsumer(v[i]) : i \in 1..Len(v)}
<1> DEFINE u == [i \in DOMAIN v |-> NormalConsumer(v[i])]
<1>1. PICK n \in Nat : n = Len(v) /\ DOMAIN v = 1..n
  OBVIOUS
<1>2. \A i \in 1..n : v[i] \in Someone /\ DistinctIds(v[i].requires)
  BY <1>1
<1>3. \A i \in 1..n : /\ NormalConsumer(v[i]) \in Someone
                      /\ NormalConsumer(v[i]).id = v[i].id
                      /\ IncreasingIds(NormalConsumer(v[i]).requires)
  BY <1>2, NormalConsumerIs
<1>4. u \in Seq(Someone) /\ Len(u) = n /\ DOMAIN u = 1..n
  BY <1>1, <1>3
<1>5. \A i \in 1..n : u[i] = NormalConsumer(v[i])
  BY <1>1
<1> HIDE DEF u
<1>6. DistinctIds(u)
  <2>1. ASSUME NEW i \in 1..n, NEW j \in 1..n, u[i].id = u[j].id
        PROVE  i = j
    <3>1. v[i].id = v[j].id
      BY <1>3, <1>5, <2>1
    <3>2. QED
      BY <1>1, <3>1 DEF DistinctIds
  <2>2. QED
    BY <1>4, <2>1 DEF DistinctIds
<1>7. \A x \in Someone : x.id \in Int
  BY DEF Someone, Positive
<1> DEFINE s == ById(u)
<1>8. /\ s \in Seq(Someone) /\ Len(s) = Len(u) /\ IncreasingIds(s)
      /\ ToSet(s) = ToSet(u)
  BY <1>4, <1>6, <1>7, ByIdSorts
<1>9. s = SortedConsumers(v)
  BY DEF SortedConsumers, u
<1> HIDE DEF s
<1>10. ToSet(u) = {NormalConsumer(v[i]) : i \in 1..n}
  BY <1>4, <1>5 DEF ToSet
<1>11. \A i \in 1..Len(s) : IncreasingIds(s[i].requires)
  <2>1. ASSUME NEW i \in 1..Len(s)
        PROVE  IncreasingIds(s[i].requires)
    <3>1. s[i] \in ToSet(s)
      BY <1>8 DEF ToSet
    <3>2. PICK k \in 1..n : s[i] = NormalConsumer(v[k])
      BY <1>8, <1>10, <3>1
    <3>3. QED
      BY <1>3, <3>2
  <2>2. QED
    BY <2>1
<1>12. QED
  BY <1>1, <1>4, <1>8, <1>9, <1>10, <1>11 DEF NormalConsumers

LEMMA ConsumersKept ==
  ASSUME NEW v, NormalConsumers(v)
  PROVE  SortedConsumers(v) = v
<1>1. v \in Seq(Someone) /\ IncreasingIds(v)
  BY DEF NormalConsumers
<1>2. \A i \in DOMAIN v : NormalConsumer(v[i]) = v[i]
  <2>1. \A i \in 1..Len(v) : v[i] \in Someone /\ IncreasingIds(v[i].requires)
    BY <1>1 DEF NormalConsumers
  <2>2. QED
    BY <1>1, <2>1, NormalConsumerKeeps
<1>3. [i \in DOMAIN v |-> NormalConsumer(v[i])] = v
  <2>1. v = [i \in DOMAIN v |-> v[i]]
    BY <1>1
  <2>2. QED
    BY <1>2, <2>1, Zenon
<1>4. \A x \in Someone : x.id \in Int
  BY DEF Someone, Positive
<1>5. ById(v) = v
  BY <1>1, <1>4, ByIdKeeps
<1>6. QED
  BY <1>3, <1>5 DEF SortedConsumers

Canon == <<CartValue, ErrorType, Operation, AlertMustFire>>

\* The four requirements in the order of the contract, in normal form.
NormalChecks(r, D, alertName) ==
  /\ r \in Seq(CheckRecord) /\ Len(r) = 4
  /\ \A i \in 1..4 : IsNormal(r[i], Canon[i], Of(D, Canon[i]), alertName)

\* The same in any order and form.
Stated(cs, D, alertName) ==
  /\ cs \in [1..4 -> CheckRecord]
  /\ \A i, j \in 1..4 : cs[i].id = cs[j].id => i = j
  /\ \A i \in 1..4 : Gathers(cs[i], cs[i].id, Of(D, cs[i].id), alertName)

OneServiceEach(D) == \A id : OneService(Of(D, id))

SortedChecks(cs) ==
  Sort([i \in DOMAIN cs |-> NormalCheck(cs[i])],
       [i \in DOMAIN cs |-> CheckRank[cs[i].id]])

LEMMA RankIs ==
  /\ CheckRank[CartValue] = 10 /\ CheckRank[ErrorType] = 20
  /\ CheckRank[Operation] = 30 /\ CheckRank[AlertMustFire] = 40
  /\ RequirementIds = {CartValue, ErrorType, Operation, AlertMustFire}
  /\ \A id \in RequirementIds : CheckRank[id] \in Int
  /\ \A x, y \in RequirementIds : CheckRank[x] = CheckRank[y] => x = y
<1>1. /\ CartValue = 2 /\ ErrorType = 3 /\ Operation = 4 /\ AlertMustFire = 1
      /\ RequirementIds = 1..4
  BY DEF CartValue, ErrorType, Operation, AlertMustFire, RequirementIds
<1>2. \A id \in 1..4 : id = 1 \/ id = 2 \/ id = 3 \/ id = 4
  OBVIOUS
<1>3. \A id \in 1..4 : CheckRank[id] =
        (CASE id = 2 -> 10 [] id = 3 -> 20 [] id = 4 -> 30 [] id = 1 -> 40)
  BY <1>1 DEF CheckRank
<1>4. /\ CheckRank[2] = 10 /\ CheckRank[3] = 20
      /\ CheckRank[4] = 30 /\ CheckRank[1] = 40
  BY <1>3
<1>5. \A id \in 1..4 : CheckRank[id] \in Int
  BY <1>2, <1>4
<1>6. \A x, y \in 1..4 : CheckRank[x] = CheckRank[y] => x = y
  BY <1>2, <1>4
<1>7. 1..4 = {2, 3, 4, 1}
  BY <1>2
<1>8. QED
  BY <1>1, <1>4, <1>5, <1>6, <1>7

LEMMA CanonIs ==
  /\ Canon[1] = CartValue /\ Canon[2] = ErrorType
  /\ Canon[3] = Operation /\ Canon[4] = AlertMustFire
  /\ \A i \in 1..4 : Canon[i] \in RequirementIds
  /\ \A id \in RequirementIds : \E i \in 1..4 : Canon[i] = id
<1>1. \A i \in 1..4 : i = 1 \/ i = 2 \/ i = 3 \/ i = 4
  OBVIOUS
<1>2. /\ Canon[1] = CartValue /\ Canon[2] = ErrorType
      /\ Canon[3] = Operation /\ Canon[4] = AlertMustFire
  BY DEF Canon
<1>3. RequirementIds = {CartValue, ErrorType, Operation, AlertMustFire}
  BY RankIs
<1>4. 1 \in 1..4 /\ 2 \in 1..4 /\ 3 \in 1..4 /\ 4 \in 1..4
  OBVIOUS
<1>5. QED
  BY <1>1, <1>2, <1>3, <1>4

LEMMA ChecksSorted ==
  ASSUME NEW D, NEW alertName, NEW cs, Stated(cs, D, alertName), OneServiceEach(D)
  PROVE  NormalChecks(SortedChecks(cs), D, alertName)
<1> DEFINE u == [i \in 1..4 |-> NormalCheck(cs[i])]
           key == [i \in 1..4 |-> CheckRank[cs[i].id]]
           S == {NormalCheck(cs[i]) : i \in 1..4}
           rank == [x \in S |-> CheckRank[x.id]]
           r == Sort(u, key)
<1>1. DOMAIN cs = 1..4 /\ \A i \in 1..4 : cs[i] \in CheckRecord
  BY DEF Stated
<1>2. r = SortedChecks(cs)
  BY <1>1 DEF SortedChecks
<1>3. ASSUME NEW i \in 1..4
      PROVE  /\ cs[i].id \in RequirementIds /\ NormalCheck(cs[i]).id = cs[i].id
             /\ IsNormal(NormalCheck(cs[i]), cs[i].id, Of(D, cs[i].id), alertName)
  <2>1. cs[i] \in CheckRecord /\ Gathers(cs[i], cs[i].id, Of(D, cs[i].id), alertName)
    BY <1>1 DEF Stated
  <2>2. OneService(Of(D, cs[i].id))
    BY DEF OneServiceEach
  <2>3. IsNormal(NormalCheck(cs[i]), cs[i].id, Of(D, cs[i].id), alertName)
    BY <2>1, <2>2, NormalCheckIs
  <2>4. QED
    BY <2>1, <2>3 DEF IsNormal, CheckRecord
<1>4. ASSUME NEW x \in S
      PROVE  /\ x.id \in RequirementIds /\ x \in CheckRecord
             /\ IsNormal(x, x.id, Of(D, x.id), alertName)
             /\ rank[x] = CheckRank[x.id]
  <2>1. PICK i \in 1..4 : x = NormalCheck(cs[i])
    OBVIOUS
  <2>2. QED
    BY <1>3, <2>1 DEF IsNormal
<1>5. Lists(u, S)
  <2>1. u \in Seq(S) /\ Len(u) = 4 /\ \A i \in 1..4 : u[i] = NormalCheck(cs[i])
    <3>1. 4 \in Nat /\ \A i \in 1..4 : NormalCheck(cs[i]) \in S
      OBVIOUS
    <3> HIDE DEF S
    <3>2. QED
      BY <3>1
  <2>2. ASSUME NEW i \in 1..4, NEW j \in 1..4, u[i] = u[j]
        PROVE  i = j
    <3>1. cs[i].id = cs[j].id
      BY <1>3, <2>1, <2>2
    <3>2. QED
      BY <3>1 DEF Stated
  <2>3. \A x \in S : \E i \in 1..4 : u[i] = x
    BY <2>1
  <2> HIDE DEF S, u
  <2>4. QED
    BY <2>1, <2>2, <2>3 DEF Lists
<1>6. rank \in [S -> Int]
  BY <1>4, RankIs
<1>7. ASSUME NEW x \in S, NEW y \in S, rank[x] = rank[y]
      PROVE  x = y
  <2>1. x.id = y.id
    BY <1>4, <1>7, RankIs
  <2>2. PICK i \in 1..4 : x = NormalCheck(cs[i])
    OBVIOUS
  <2>3. PICK j \in 1..4 : y = NormalCheck(cs[j])
    OBVIOUS
  <2>4. cs[i].id = cs[j].id
    BY <1>3, <2>1, <2>2, <2>3
  <2>5. i = j
    BY <2>4 DEF Stated
  <2>6. QED
    BY <2>2, <2>3, <2>5
<1>8. key = [i \in DOMAIN u |-> rank[u[i]]]
  <2>1. DOMAIN u = 1..4 /\ \A i \in 1..4 : u[i] = NormalCheck(cs[i]) /\ u[i] \in S
    OBVIOUS
  <2>2. \A i \in 1..4 : rank[u[i]] = CheckRank[cs[i].id]
    <3> HIDE DEF u, S, rank
    <3>1. QED
      BY <1>3, <1>4, <2>1
  <2>3. QED
    BY <2>1, <2>2
<1> HIDE DEF u, key, S, rank
<1>9. Ordered(r, S, rank) /\ Len(r) = 4
  <2>1. Ordered(r, S, rank) /\ Len(r) = Len(u)
    BY <1>5, <1>6, <1>7, <1>8, SortOrders
  <2>2. Len(u) = 4
    BY DEF u
  <2>3. QED
    BY <2>1, <2>2
<1> HIDE DEF r
<1>10. r \in Seq(S) /\ \A i \in 1..4 : r[i] \in S
  <2>1. r \in Seq(S)
    BY <1>9 DEF Ordered, Lists
  <2>2. \A i \in 1..Len(r) : r[i] \in S
    BY <2>1
  <2>3. QED
    BY <1>9, <2>1, <2>2
<1>11. \A i \in 1..4 : r[i].id = Canon[i]
  <2>1. 1 \in 1..4 /\ 2 \in 1..4 /\ 3 \in 1..4 /\ 4 \in 1..4
    OBVIOUS
  <2> DEFINE place(i) == CheckRank[r[i].id]
  <2>2. /\ rank[r[1]] < rank[r[2]] /\ rank[r[2]] < rank[r[3]]
        /\ rank[r[3]] < rank[r[4]]
    BY <1>9, <2>1 DEF Ordered
  <2>3. place(1) < place(2) /\ place(2) < place(3) /\ place(3) < place(4)
    BY <1>4, <1>10, <2>1, <2>2
  <2>4. \A id \in RequirementIds : CheckRank[id] \in {10, 20, 30, 40}
    BY RankIs
  <2>5. \A i \in 1..4 : place(i) \in {10, 20, 30, 40} /\ r[i].id \in RequirementIds
    BY <1>4, <1>10, <2>4
  <2>6. /\ place(1) \in {10, 20, 30, 40} /\ place(2) \in {10, 20, 30, 40}
        /\ place(3) \in {10, 20, 30, 40} /\ place(4) \in {10, 20, 30, 40}
    BY <2>1, <2>5
  <2>7. place(1) = 10 /\ place(2) = 20 /\ place(3) = 30 /\ place(4) = 40
    <3> HIDE DEF place
    <3>1. QED
      BY <2>3, <2>6
  <2>8. /\ r[1].id = CartValue /\ r[2].id = ErrorType
        /\ r[3].id = Operation /\ r[4].id = AlertMustFire
    <3>1. /\ CartValue \in RequirementIds /\ ErrorType \in RequirementIds
          /\ Operation \in RequirementIds /\ AlertMustFire \in RequirementIds
      BY RankIs
    <3>2. \A x, y \in RequirementIds : CheckRank[x] = CheckRank[y] => x = y
      BY RankIs
    <3>3. /\ CheckRank[CartValue] = 10 /\ CheckRank[ErrorType] = 20
          /\ CheckRank[Operation] = 30 /\ CheckRank[AlertMustFire] = 40
      BY RankIs
    <3>4. QED
      BY <2>1, <2>5, <2>7, <3>1, <3>2, <3>3
  <2>9. \A i \in 1..4 : i = 1 \/ i = 2 \/ i = 3 \/ i = 4
    OBVIOUS
  <2>10. QED
    BY <2>8, <2>9, CanonIs
<1>12. r \in Seq(CheckRecord)
  <2>1. S \subseteq CheckRecord
    BY <1>4
  <2>2. QED
    BY <1>10, <2>1
<1>13. \A i \in 1..4 : IsNormal(r[i], Canon[i], Of(D, Canon[i]), alertName)
  BY <1>4, <1>10, <1>11
<1>14. QED
  BY <1>2, <1>9, <1>12, <1>13 DEF NormalChecks

\* There is one such list.
LEMMA ChecksOnce ==
  ASSUME NEW D, NEW alertName, OneServiceEach(D),
         NEW r, NormalChecks(r, D, alertName),
         NEW q, NormalChecks(q, D, alertName)
  PROVE  r = q
<1>1. \A i \in 1..4 : r[i] = q[i]
  BY NormalOnce DEF NormalChecks, OneServiceEach
<1>2. r \in Seq(CheckRecord) /\ q \in Seq(CheckRecord) /\ Len(r) = 4 /\ Len(q) = 4
  BY DEF NormalChecks
<1>3. QED
  BY <1>1, <1>2

LEMMA NormalAreStated ==
  ASSUME NEW D, NEW alertName, NEW r, NormalChecks(r, D, alertName)
  PROVE  Stated(r, D, alertName)
<1>1. r \in [1..4 -> CheckRecord]
  <2>1. r \in Seq(CheckRecord)
    BY DEF NormalChecks
  <2>2. r \in [1..Len(r) -> CheckRecord]
    BY <2>1
  <2>3. QED
    BY <2>2 DEF NormalChecks
<1>2. \A i \in 1..4 : r[i].id = Canon[i]
  BY DEF NormalChecks, IsNormal
<1>3. \A i \in 1..4 : Gathers(r[i], r[i].id, Of(D, r[i].id), alertName)
  BY <1>2, NormalGathers DEF NormalChecks
<1>4. \A i, j \in 1..4 : Canon[i] = Canon[j] => i = j
  BY DEF Canon, CartValue, ErrorType, Operation, AlertMustFire
<1>5. QED
  BY <1>1, <1>2, <1>3, <1>4 DEF Stated

\* The file states the same.
LEMMA WrittenAreStated ==
  ASSUME NEW D, NEW alertName, NEW r, NormalChecks(r, D, alertName)
  PROVE  Stated([i \in DOMAIN r |-> WrittenCheck(r[i])], D, alertName)
<1> DEFINE w == [i \in DOMAIN r |-> WrittenCheck(r[i])]
<1>1. DOMAIN r = 1..4 /\ \A i \in 1..4 : w[i] = WrittenCheck(r[i])
  BY DEF NormalChecks
<1>2. \A i \in 1..4 :
        w[i] \in CheckRecord /\ Gathers(w[i], Canon[i], Of(D, Canon[i]), alertName)
  BY <1>1, WrittenGathers DEF NormalChecks
<1>3. w \in [1..4 -> CheckRecord]
  BY <1>1, <1>2
<1>4. \A i \in 1..4 : w[i].id = Canon[i]
  BY <1>2 DEF Gathers
<1>5. \A i, j \in 1..4 : Canon[i] = Canon[j] => i = j
  BY DEF Canon, CartValue, ErrorType, Operation, AlertMustFire
<1> HIDE DEF w
<1>6. Stated(w, D, alertName)
  BY <1>2, <1>3, <1>4, <1>5 DEF Stated
<1>7. QED
  BY <1>6 DEF w

----------------------------------------------------------------------------
\* What the dashboard and the rule demand.

LEMMA DemandsOfOne ==
  ASSUME NEW consumer, NEW a
  PROVE  DemandsOf(consumer, <<a>>) = {Demand(consumer, a.id, a.path, a.filter)}
<1>1. DOMAIN <<a>> = {1} /\ <<a>>[1] = a
  OBVIOUS
<1>2. ToSet(<<a>>) = {a}
  BY <1>1 DEF ToSet
<1>3. QED
  BY <1>2 DEF DemandsOf

LEMMA DemandsOfTwo ==
  ASSUME NEW consumer, NEW a, NEW b
  PROVE  DemandsOf(consumer, <<a, b>>)
           = {Demand(consumer, a.id, a.path, a.filter),
              Demand(consumer, b.id, b.path, b.filter)}
<1>1. DOMAIN <<a, b>> = {1, 2} /\ <<a, b>>[1] = a /\ <<a, b>>[2] = b
  OBVIOUS
<1>2. ToSet(<<a, b>>) = {a, b}
  BY <1>1 DEF ToSet
<1>3. QED
  BY <1>2 DEF DemandsOf

LEMMA DemandsOfThree ==
  ASSUME NEW consumer, NEW a, NEW b, NEW c
  PROVE  DemandsOf(consumer, <<a, b, c>>)
           = {Demand(consumer, a.id, a.path, a.filter),
              Demand(consumer, b.id, b.path, b.filter),
              Demand(consumer, c.id, c.path, c.filter)}
<1>1. /\ DOMAIN <<a, b, c>> = {1, 2, 3} /\ <<a, b, c>>[1] = a
      /\ <<a, b, c>>[2] = b /\ <<a, b, c>>[3] = c
  <2>1. DOMAIN <<a, b, c>> = 1..3 /\ 1..3 = {1, 2, 3}
    OBVIOUS
  <2>2. QED
    BY <2>1
<1>2. ToSet(<<a, b, c>>) = {a, b, c}
  BY <1>1 DEF ToSet
<1>3. QED
  BY <1>2 DEF DemandsOf

SumDemand(w) ==
  Demand(dashboard[w].panel, CartValue, WidgetSumPath(w),
         ScopedFilter(FilterOf(dashboard[w])))
TextDemand(w) ==
  Demand(dashboard[w].panel, Operation, WidgetTextPath(w), NoFilter)
CountDemand ==
  Demand(AlertConsumer, ErrorType, AlertFilterPath,
         ScopedFilter(FilterOfRule(alert)))
FireDemand == Demand(AlertConsumer, AlertMustFire, AlertNamePath, NoFilter)
RuleTextDemand == Demand(AlertConsumer, Operation, AlertTextPath, NoFilter)

LEMMA PanelDemandsAre ==
  ASSUME NEW w \in Nat, PanelReadable(w)
  PROVE  DemandsOf(dashboard[w].panel, PanelRequirements(w))
           = IF dashboard[w].describes THEN {SumDemand(w), TextDemand(w)}
                                       ELSE {SumDemand(w)}
<1> DEFINE p == dashboard[w].panel
           a == PanelSum(w)
           b == PanelText(w)
<1>1. PanelRequirements(w) = IF dashboard[w].describes THEN <<a, b>> ELSE <<a>>
  BY PanelCollectable
<1>2. /\ Demand(p, a.id, a.path, a.filter) = SumDemand(w)
      /\ Demand(p, b.id, b.path, b.filter) = TextDemand(w)
  BY DEF PanelSum, PanelText, SumDemand, TextDemand, Requirement
<1> HIDE DEF p, a, b
<1>3. /\ DemandsOf(p, <<a, b>>) = {SumDemand(w), TextDemand(w)}
      /\ DemandsOf(p, <<a>>) = {SumDemand(w)}
  BY <1>2, DemandsOfOne, DemandsOfTwo
<1>4. QED
  BY <1>1, <1>3 DEF p

LEMMA RuleDemandsAre ==
  ASSUME RuleReadable
  PROVE  DemandsOf(AlertConsumer, AlertRequirements)
           = IF alert.describes THEN {CountDemand, FireDemand, RuleTextDemand}
                                ELSE {CountDemand, FireDemand}
<1> DEFINE p == AlertConsumer
           a == RuleCount
           b == RuleFires
           c == RuleText
<1>1. AlertRequirements = IF alert.describes THEN <<a, b, c>> ELSE <<a, b>>
  BY RuleCollectable
<1>2. /\ Demand(p, a.id, a.path, a.filter) = CountDemand
      /\ Demand(p, b.id, b.path, b.filter) = FireDemand
      /\ Demand(p, c.id, c.path, c.filter) = RuleTextDemand
  BY DEF RuleCount, RuleFires, RuleText, CountDemand, FireDemand,
         RuleTextDemand, Requirement
<1> HIDE DEF p, a, b, c
<1>3. /\ DemandsOf(p, <<a, b, c>>) = {CountDemand, FireDemand, RuleTextDemand}
      /\ DemandsOf(p, <<a, b>>) = {CountDemand, FireDemand}
  BY <1>2, DemandsOfThree, DemandsOfTwo
<1>4. QED
  BY <1>1, <1>3 DEF p

LEMMA DemandsAreRead ==
  ASSUME ReadInv, pc \in Past
  PROVE  DemandsRead = Demands
<1>1. /\ dashboard \in Seq(Widgets) /\ next = Len(dashboard) + 1
      /\ DOMAIN dashboard = 1..(next - 1) /\ pc # "failed"
  BY PastRead
<1>2. RuleReadable
  BY RuleIsReadable
<1>3. \A w \in DOMAIN dashboard :
        DemandsOf(dashboard[w].panel, PanelRequirements(w))
          = IF dashboard[w].describes THEN {SumDemand(w), TextDemand(w)}
                                      ELSE {SumDemand(w)}
  <2>1. ASSUME NEW w \in 1..(next - 1)
        PROVE  w \in Nat /\ PanelReadable(w)
    BY <1>1, PanelsAreReadable
  <2>2. QED
    BY <1>1, <2>1, PanelDemandsAre
<1> DEFINE sums == {SumDemand(w) : w \in DOMAIN dashboard}
           texts == {TextDemand(w) :
                       w \in {v \in DOMAIN dashboard : dashboard[v].describes}}
           rule == DemandsOf(AlertConsumer, AlertRequirements)
           panels == UNION {DemandsOf(dashboard[w].panel, PanelRequirements(w)) :
                              w \in DOMAIN dashboard}
<1>4. DemandsRead = panels \cup rule
  BY <1>1 DEF DemandsRead, PanelDemands
<1>5. panels = sums \cup texts
  <2>1. ASSUME NEW d \in panels
        PROVE  d \in sums \cup texts
    <3>1. PICK w \in DOMAIN dashboard :
            d \in DemandsOf(dashboard[w].panel, PanelRequirements(w))
      OBVIOUS
    <3>2. d = SumDemand(w) \/ (d = TextDemand(w) /\ dashboard[w].describes)
      BY <1>3, <3>1
    <3>3. QED
      BY <3>2
  <2>2. ASSUME NEW d \in sums
        PROVE  d \in panels
    <3>1. PICK w \in DOMAIN dashboard : d = SumDemand(w)
      OBVIOUS
    <3>2. d \in DemandsOf(dashboard[w].panel, PanelRequirements(w))
      BY <1>3, <3>1
    <3>3. QED
      BY <3>2
  <2>3. ASSUME NEW d \in texts
        PROVE  d \in panels
    <3>1. PICK w \in DOMAIN dashboard : d = TextDemand(w) /\ dashboard[w].describes
      OBVIOUS
    <3>2. d \in DemandsOf(dashboard[w].panel, PanelRequirements(w))
      BY <1>3, <3>1
    <3>3. QED
      BY <3>2
  <2> HIDE DEF panels, sums, texts
  <2>4. QED
    BY <2>1, <2>2, <2>3
<1>6. Demands = sums \cup texts \cup {CountDemand, FireDemand}
                \cup (IF alert.describes THEN {RuleTextDemand} ELSE {})
  BY DEF Demands, SumDemand, TextDemand, CountDemand, FireDemand, RuleTextDemand
<1>7. rule = {CountDemand, FireDemand}
             \cup (IF alert.describes THEN {RuleTextDemand} ELSE {})
  BY <1>2, RuleDemandsAre
<1> HIDE DEF sums, texts, rule, panels
<1>8. QED
  BY <1>4, <1>5, <1>6, <1>7

LEMMA DemandKinds ==
  ASSUME ReadInv, pc \in Past, NEW d \in Demands
  PROVE  \/ \E w \in DOMAIN dashboard : d = SumDemand(w)
         \/ \E w \in DOMAIN dashboard : d = TextDemand(w)
         \/ d \in {CountDemand, FireDemand, RuleTextDemand}
BY DEF Demands, SumDemand, TextDemand, CountDemand, FireDemand, RuleTextDemand

LEMMA DemandFields ==
  /\ \A w : /\ SumDemand(w).id = CartValue
            /\ SumDemand(w).filter = ScopedFilter(FilterOf(dashboard[w]))
            /\ TextDemand(w).id = Operation /\ TextDemand(w).filter = NoFilter
  /\ CountDemand.id = ErrorType
  /\ CountDemand.filter = ScopedFilter(FilterOfRule(alert))
  /\ FireDemand.id = AlertMustFire /\ FireDemand.filter = NoFilter
  /\ FireDemand.consumer = AlertConsumer /\ CountDemand.consumer = AlertConsumer
  /\ RuleTextDemand.id = Operation /\ RuleTextDemand.filter = NoFilter
BY DEF Demand, SumDemand, TextDemand, CountDemand, FireDemand, RuleTextDemand

LEMMA IdsDiffer ==
  /\ CartValue # ErrorType /\ CartValue # Operation /\ CartValue # AlertMustFire
  /\ ErrorType # Operation /\ ErrorType # AlertMustFire
  /\ Operation # AlertMustFire
BY DEF CartValue, ErrorType, Operation, AlertMustFire

\* The filters of a requirement: those of the panels or that of the rule.
LEMMA FiltersAsked ==
  ASSUME ReadInv, pc \in Past
  PROVE  /\ AskedBy(Of(Demands, CartValue))
              = {ScopedFilter(FilterOf(dashboard[w])) : w \in DOMAIN dashboard}
         /\ AskedBy(Of(Demands, ErrorType)) = {ScopedFilter(FilterOfRule(alert))}
         /\ AskedBy(Of(Demands, Operation)) = {}
         /\ AskedBy(Of(Demands, AlertMustFire)) = {}
         /\ \A w \in DOMAIN dashboard :
              /\ ScopedFilter(FilterOf(dashboard[w])) \in Filters
              /\ ScopedFilter(FilterOf(dashboard[w])).error = FALSE
              /\ ScopedFilter(FilterOf(dashboard[w])).service
                   = FilterOf(dashboard[w])["service.name"]
         /\ ScopedFilter(FilterOfRule(alert)) \in Filters
         /\ ScopedFilter(FilterOfRule(alert)).error = TRUE
         /\ ScopedFilter(FilterOfRule(alert)).service
              = FilterOfRule(alert)["service.name"]
<1>1. RuleReadable
  BY RuleIsReadable
<1>2. DOMAIN dashboard = 1..(next - 1) /\ pc # "failed"
  BY PastRead
<1>3. \A w \in DOMAIN dashboard : PanelReadable(w)
  BY <1>2, PanelsAreReadable
<1>4. \A w \in DOMAIN dashboard :
        /\ ScopedFilter(FilterOf(dashboard[w])) \in Filters
        /\ ScopedFilter(FilterOf(dashboard[w])).error = FALSE
        /\ ScopedFilter(FilterOf(dashboard[w])).service
             = FilterOf(dashboard[w])["service.name"]
        /\ ScopedFilter(FilterOf(dashboard[w])).service # 0
  BY <1>3, PanelFilter DEF PanelReadable
<1>5. /\ ScopedFilter(FilterOfRule(alert)) \in Filters
      /\ ScopedFilter(FilterOfRule(alert)).error = TRUE
      /\ ScopedFilter(FilterOfRule(alert)).service
           = FilterOfRule(alert)["service.name"]
      /\ ScopedFilter(FilterOfRule(alert)).service # 0
  BY <1>1, RuleFilter DEF RuleReadable
<1>6. NoFilter.service = 0
  BY DEF NoFilter
<1>7. /\ \A w \in DOMAIN dashboard : ScopedFilter(FilterOf(dashboard[w])) # NoFilter
      /\ ScopedFilter(FilterOfRule(alert)) # NoFilter
  BY <1>4, <1>5, <1>6
<1>8. /\ \A w \in DOMAIN dashboard : SumDemand(w) \in Demands
      /\ CountDemand \in Demands
  BY DEF Demands, SumDemand, CountDemand
<1>9. \A d \in Demands :
        \/ \E w \in DOMAIN dashboard : d = SumDemand(w)
        \/ \E w \in DOMAIN dashboard : d = TextDemand(w)
        \/ d = CountDemand \/ d = FireDemand \/ d = RuleTextDemand
  BY DemandKinds
<1>10. AskedBy(Of(Demands, CartValue))
         = {ScopedFilter(FilterOf(dashboard[w])) : w \in DOMAIN dashboard}
  BY <1>7, <1>8, <1>9, DemandFields, IdsDiffer DEF AskedBy, Of
<1>11. AskedBy(Of(Demands, ErrorType)) = {ScopedFilter(FilterOfRule(alert))}
  BY <1>7, <1>8, <1>9, DemandFields, IdsDiffer DEF AskedBy, Of
<1>12. AskedBy(Of(Demands, Operation)) = {}
  BY <1>9, DemandFields, IdsDiffer DEF AskedBy, Of
<1>13. AskedBy(Of(Demands, AlertMustFire)) = {}
  BY <1>9, DemandFields, IdsDiffer DEF AskedBy, Of
<1>14. QED
  BY <1>4, <1>5, <1>10, <1>11, <1>12, <1>13

LEMMA FiltersByService ==
  ASSUME ReadInv, pc \in Past
  PROVE  OneServiceEach(Demands)
<1> SUFFICES ASSUME NEW id, NEW f \in AskedBy(Of(Demands, id)),
                    NEW g \in AskedBy(Of(Demands, id)), f.service = g.service
             PROVE  f = g
  BY DEF OneServiceEach, OneService
<1>1. id \in {CartValue, ErrorType, Operation, AlertMustFire}
  <2>1. PICK d \in Demands : d.id = id
    BY DEF AskedBy, Of
  <2>2. QED
    BY <2>1, DemandKinds, DemandFields
<1>2. CASE id = CartValue
  <2>1. f \in Filters /\ g \in Filters /\ f.error = FALSE /\ g.error = FALSE
    BY <1>2, FiltersAsked
  <2>2. QED
    BY <2>1 DEF Filters
<1>3. CASE id = ErrorType
  BY <1>3, FiltersAsked
<1>4. CASE id \in {Operation, AlertMustFire}
  BY <1>4, FiltersAsked
<1>5. QED
  BY <1>1, <1>2, <1>3, <1>4

----------------------------------------------------------------------------
\* The consumers of the contract.

Asks(v) ==
  UNION {{<<c.id, ref.id, ref.path>> : ref \in ToSet(c.requires)} : c \in ToSet(v)}

\* The consumers v stand for the demands D.
ConsumersStand(v, D) ==
  /\ NormalConsumers(v) /\ v # << >>
  /\ \A c \in ToSet(v) : c.requires # << >>
  /\ IdsOf(v) = ConsumersOf(D)
  /\ Asks(v) = {<<d.consumer, d.id, d.path>> : d \in D}

\* A consumer, and what it requires.
Requiring(c, id, s) ==
  /\ c.id = id /\ c.requires = References(s)
  /\ \E alertName : Collectable(s, alertName)

LEMMA RequiringIs ==
  ASSUME NEW c \in ConsumerRecord, NEW id, NEW s, Requiring(c, id, s)
  PROVE  /\ DistinctIds(c.requires) /\ c.requires # << >>
         /\ {<<c.id, ref.id, ref.path>> : ref \in ToSet(c.requires)}
              = {<<d.consumer, d.id, d.path>> : d \in DemandsOf(id, s)}
         /\ ConsumersOf(DemandsOf(id, s)) = {id}
<1>1. /\ s \in Seq(Wants) /\ s # << >> /\ c.id = id /\ c.requires = References(s)
      /\ \A i, j \in 1..Len(s) : s[i].id = s[j].id => i = j
  BY DEF Requiring, Collectable
<1> DEFINE r == References(s)
<1>2. /\ r \in Seq(Refs) /\ Len(r) = Len(s)
      /\ \A i \in 1..Len(s) : r[i] = [id |-> s[i].id, path |-> s[i].path]
  BY <1>1, ReferencesTyped
<1> HIDE DEF r
<1>3. DOMAIN r = 1..Len(s) /\ DOMAIN s = 1..Len(s) /\ Len(s) \in Nat
  BY <1>1, <1>2
<1>4. DistinctIds(r)
  BY <1>1, <1>2, <1>3 DEF DistinctIds
<1>5. 1 \in 1..Len(s)
  <2>1. Len(s) # 0
    BY <1>1
  <2>2. QED
    BY <1>3, <2>1
<1>6. r # << >>
  <2>1. DOMAIN r # {}
    BY <1>3, <1>5
  <2>2. DOMAIN << >> = {}
    OBVIOUS
  <2>3. QED
    BY <2>1, <2>2
<1>7. ToSet(r) = {r[i] : i \in 1..Len(s)} /\ ToSet(s) = {s[i] : i \in 1..Len(s)}
  BY <1>3 DEF ToSet
<1>8. {<<id, ref.id, ref.path>> : ref \in ToSet(r)}
        = {<<id, s[i].id, s[i].path>> : i \in 1..Len(s)}
  <2>1. \A i \in 1..Len(s) : r[i].id = s[i].id /\ r[i].path = s[i].path
    <3>1. \A i \in 1..Len(s) : r[i] = [id |-> s[i].id, path |-> s[i].path]
      BY <1>2
    <3>2. ASSUME NEW i \in 1..Len(s)
          PROVE  r[i].id = s[i].id /\ r[i].path = s[i].path
      <4> DEFINE a == s[i].id
                 b == s[i].path
      <4>1. r[i] = [id |-> a, path |-> b]
        BY <3>1
      <4> HIDE DEF a, b
      <4>2. r[i].id = a /\ r[i].path = b
        BY ONLY <4>1
      <4>3. QED
        BY <4>2 DEF a, b
    <3>3. QED
      BY <3>2
  <2> DEFINE A == {<<id, ref.id, ref.path>> : ref \in ToSet(r)}
             B == {<<id, s[i].id, s[i].path>> : i \in 1..Len(s)}
  <2>2. ASSUME NEW x \in A
        PROVE  x \in B
    <3>1. PICK ref \in ToSet(r) : x = <<id, ref.id, ref.path>>
      OBVIOUS
    <3>2. PICK i \in 1..Len(s) : ref = r[i]
      BY <1>7, <3>1
    <3>3. x = <<id, s[i].id, s[i].path>>
      BY <2>1, <3>1, <3>2
    <3>4. QED
      BY <3>3
  <2>3. ASSUME NEW i \in 1..Len(s)
        PROVE  <<id, s[i].id, s[i].path>> \in A
    <3>1. r[i] \in ToSet(r)
      BY <1>7
    <3>2. <<id, r[i].id, r[i].path>> \in A
      BY <3>1
    <3>3. <<id, r[i].id, r[i].path>> = <<id, s[i].id, s[i].path>>
      BY <2>1
    <3>4. QED
      BY ONLY <3>2, <3>3
  <2>4. \A x \in B : x \in A
    BY <2>3
  <2> HIDE DEF A, B
  <2>5. A = B
    BY <2>2, <2>4
  <2>6. QED
    BY <2>5 DEF A, B
<1>9. DemandsOf(id, s)
        = {Demand(id, s[i].id, s[i].path, s[i].filter) : i \in 1..Len(s)}
  BY <1>7 DEF DemandsOf
<1>10. {<<d.consumer, d.id, d.path>> : d \in DemandsOf(id, s)}
         = {<<id, s[i].id, s[i].path>> : i \in 1..Len(s)}
  <2> DEFINE A == {<<d.consumer, d.id, d.path>> : d \in DemandsOf(id, s)}
             B == {<<id, s[i].id, s[i].path>> : i \in 1..Len(s)}
  <2>1. ASSUME NEW x \in A
        PROVE  x \in B
    <3>1. PICK d \in DemandsOf(id, s) : x = <<d.consumer, d.id, d.path>>
      OBVIOUS
    <3>2. PICK i \in 1..Len(s) :
            d = Demand(id, s[i].id, s[i].path, s[i].filter)
      BY <1>9, <3>1
    <3>3. x = <<id, s[i].id, s[i].path>>
      BY <3>1, <3>2 DEF Demand
    <3>4. QED
      BY <3>3
  <2>2. ASSUME NEW i \in 1..Len(s)
        PROVE  <<id, s[i].id, s[i].path>> \in A
    <3> DEFINE d == Demand(id, s[i].id, s[i].path, s[i].filter)
    <3>1. d \in DemandsOf(id, s)
      BY <1>9
    <3>2. d.consumer = id /\ d.id = s[i].id /\ d.path = s[i].path
      BY DEF Demand
    <3> HIDE DEF d
    <3>3. <<d.consumer, d.id, d.path>> \in A
      BY <3>1
    <3>4. QED
      BY <3>2, <3>3
  <2>3. \A x \in B : x \in A
    BY <2>2
  <2> HIDE DEF A, B
  <2>4. A = B
    BY <2>1, <2>3
  <2>5. QED
    BY <2>4 DEF A, B
<1>11. ConsumersOf(DemandsOf(id, s)) = {id}
  <2>1. \A d \in DemandsOf(id, s) : d.consumer = id
    BY <1>9 DEF Demand
  <2>2. DemandsOf(id, s) # {}
    BY <1>5, <1>9
  <2>3. QED
    BY <2>1, <2>2 DEF ConsumersOf
<1>12. QED
  BY <1>1, <1>4, <1>6, <1>8, <1>10, <1>11 DEF r

\* Who asked, panel by panel and then the rule.
Asker(w) == IF w = next THEN AlertConsumer ELSE dashboard[w].panel
AskedOf(w) == IF w = next THEN AlertRequirements ELSE PanelRequirements(w)

LEMMA Askers ==
  ASSUME ReadInv, CollectInv, pc \in Past
  PROVE  /\ consumers \in Seq(ConsumerRecord) /\ DistinctIds(consumers)
         /\ next \in Nat /\ next > 1
         /\ Len(consumers) = next /\ DOMAIN consumers = 1..next
         /\ \A w \in 1..next : /\ consumers[w] \in ConsumerRecord
                               /\ Requiring(consumers[w], Asker(w), AskedOf(w))
         /\ Demands = UNION {DemandsOf(Asker(w), AskedOf(w)) : w \in 1..next}
<1>1. /\ dashboard \in Seq(Widgets) /\ next = Len(dashboard) + 1
      /\ ValidDashboard(dashboard) /\ pc # "failed"
  BY DEF ReadInv, ReadType, Past
<1>2. Collected
  BY <1>1 DEF CollectInv
<1>3. /\ consumers \in Seq(ConsumerRecord) /\ DistinctIds(consumers)
      /\ Len(consumers) = next
  BY <1>2 DEF Collected
<1>4. next \in Nat /\ next > 1
  <2>1. dashboard # << >>
    BY <1>1 DEF ValidDashboard
  <2>2. \A X : \A s \in Seq(X) : Len(s) \in Nat /\ (s # << >> => Len(s) # 0)
    OBVIOUS
  <2>3. Len(dashboard) \in Nat /\ Len(dashboard) # 0
    BY <1>1, <2>1, <2>2
  <2>4. QED
    BY <1>1, <2>3
<1>5. ASSUME NEW w \in 1..next
      PROVE  Requiring(consumers[w], Asker(w), AskedOf(w))
  <2>1. CASE w = next
    <3>1. Collectable(AlertRequirements, alert.identity)
      BY RuleIsReadable, RuleCollectable
    <3>2. consumers[w] = RuleConsumer
      BY <1>2, <2>1 DEF Collected
    <3>3. QED
      BY <2>1, <3>1, <3>2 DEF Requiring, RuleConsumer, Asker, AskedOf
  <2>2. CASE w # next
    <3>1. w \in 1..(next - 1) /\ w \in Nat
      BY <1>4, <2>2
    <3>2. PanelReadable(w)
      BY <1>1, <3>1, PanelsAreReadable
    <3>3. Collectable(PanelRequirements(w), 0)
      BY <3>1, <3>2, PanelCollectable
    <3>4. consumers[w] = PanelConsumer(w)
      BY <1>2, <3>1 DEF Collected
    <3>5. QED
      BY <2>2, <3>3, <3>4 DEF Requiring, PanelConsumer, Asker, AskedOf
  <2>3. QED
    BY <2>1, <2>2
<1>6. Demands = UNION {DemandsOf(Asker(w), AskedOf(w)) : w \in 1..next}
  <2> DEFINE part(w) == DemandsOf(Asker(w), AskedOf(w))
             before == 1..(next - 1)
  <2>1. DemandsRead = (UNION {DemandsOf(dashboard[w].panel, PanelRequirements(w)) :
                                w \in before})
                      \cup DemandsOf(AlertConsumer, AlertRequirements)
    BY DEF DemandsRead, PanelDemands
  <2>2. \A w \in before : w # next
    BY <1>4
  <2>3. \A w \in before :
          part(w) = DemandsOf(dashboard[w].panel, PanelRequirements(w))
    BY <2>2 DEF Asker, AskedOf
  <2>4. part(next) = DemandsOf(AlertConsumer, AlertRequirements)
    BY DEF Asker, AskedOf
  <2>5. 1..next = before \cup {next}
    BY <1>4
  <2> HIDE DEF part, before
  <2>6. DemandsRead = (UNION {part(w) : w \in before}) \cup part(next)
    BY <2>1, <2>3, <2>4
  <2>7. UNION {part(w) : w \in before \cup {next}}
          = (UNION {part(w) : w \in before}) \cup part(next)
    OBVIOUS
  <2>8. DemandsRead = UNION {part(w) : w \in 1..next}
    BY <2>5, <2>6, <2>7
  <2>9. QED
    BY <2>8, DemandsAreRead DEF part
<1>7. \A w \in 1..next : consumers[w] \in ConsumerRecord
  BY <1>3
<1>8. QED
  BY <1>3, <1>4, <1>5, <1>6, <1>7

LEMMA ConsumersDoStand ==
  ASSUME ReadInv, CollectInv, pc \in Past
  PROVE  /\ ConsumersStand(SortedConsumers(consumers), Demands)
         /\ \A c \in ToSet(SortedConsumers(consumers)) : c.name \in DOMAIN ReadBack
<1> DEFINE v == SortedConsumers(consumers)
<1>1. /\ consumers \in Seq(ConsumerRecord) /\ DistinctIds(consumers)
      /\ next \in Nat /\ next > 1 /\ Len(consumers) = next
      /\ DOMAIN consumers = 1..next
      /\ \A w \in 1..next : /\ consumers[w] \in ConsumerRecord
                            /\ Requiring(consumers[w], Asker(w), AskedOf(w))
      /\ Demands = UNION {DemandsOf(Asker(w), AskedOf(w)) : w \in 1..next}
  BY Askers
<1>2. ConsumerRecord \subseteq Someone
  BY DEF ConsumerRecord, Someone, NameKinds
<1>3. consumers \in Seq(Someone)
  BY <1>1, <1>2
<1>4. \A w \in 1..next :
        /\ DistinctIds(consumers[w].requires) /\ consumers[w].requires # << >>
        /\ {<<consumers[w].id, ref.id, ref.path>> :
              ref \in ToSet(consumers[w].requires)}
             = {<<d.consumer, d.id, d.path>> : d \in DemandsOf(Asker(w), AskedOf(w))}
        /\ ConsumersOf(DemandsOf(Asker(w), AskedOf(w))) = {Asker(w)}
  BY <1>1, RequiringIs
<1>5. /\ NormalConsumers(v) /\ Len(v) = next
      /\ ToSet(v) = {NormalConsumer(consumers[w]) : w \in 1..next}
  BY <1>1, <1>3, <1>4, ConsumersSorted
<1> HIDE DEF v
<1>6. ASSUME NEW w \in 1..next
      PROVE  /\ NormalConsumer(consumers[w]).id = consumers[w].id
             /\ NormalConsumer(consumers[w]).name = consumers[w].name
             /\ ToSet(NormalConsumer(consumers[w]).requires)
                  = ToSet(consumers[w].requires)
             /\ NormalConsumer(consumers[w]).requires # << >>
             /\ consumers[w].name \in DOMAIN ReadBack
             /\ consumers[w].id = Asker(w)
  <2> DEFINE c == consumers[w]
             n == NormalConsumer(c)
  <2>1. c \in Someone /\ c \in ConsumerRecord /\ DistinctIds(c.requires)
        /\ c.requires # << >> /\ c.id = Asker(w)
    BY <1>1, <1>2, <1>4 DEF Requiring
  <2>2. /\ n.id = c.id /\ n.name = c.name /\ ToSet(n.requires) = ToSet(c.requires)
        /\ Len(n.requires) = Len(c.requires)
    <3> HIDE DEF c
    <3>1. QED
      BY <2>1, NormalConsumerIs
  <2>3. c.requires \in Seq(Refs) /\ c.name \in DOMAIN ReadBack
    BY <2>1 DEF ConsumerRecord
  <2> HIDE DEF c, n
  <2>4. Len(c.requires) # 0
    BY <2>1, <2>3
  <2>5. n.requires # << >>
    <3>1. Len(<< >>) = 0
      OBVIOUS
    <3>2. QED
      BY <2>2, <2>4, <3>1
  <2>6. QED
    BY <2>1, <2>2, <2>3, <2>5 DEF c, n
<1>7. v # << >>
  BY <1>1, <1>5
<1>8. \A c \in ToSet(v) : c.requires # << >> /\ c.name \in DOMAIN ReadBack
  BY <1>5, <1>6
<1>9. IdsOf(v) = ConsumersOf(Demands)
  <2>1. IdsOf(v) = {c.id : c \in ToSet(v)}
    BY DEF IdsOf, ToSet
  <2>2. IdsOf(v) = {Asker(w) : w \in 1..next}
    BY <1>5, <1>6, <2>1
  <2>3. ASSUME NEW x \in ConsumersOf(Demands)
        PROVE  x \in {Asker(w) : w \in 1..next}
    <3>1. PICK d \in Demands : x = d.consumer
      BY DEF ConsumersOf
    <3>2. PICK w \in 1..next : d \in DemandsOf(Asker(w), AskedOf(w))
      BY <1>1
    <3>3. x \in ConsumersOf(DemandsOf(Asker(w), AskedOf(w)))
      BY <3>1, <3>2 DEF ConsumersOf
    <3>4. QED
      BY <1>4, <3>3
  <2>4. ASSUME NEW w \in 1..next
        PROVE  Asker(w) \in ConsumersOf(Demands)
    <3>1. PICK d \in DemandsOf(Asker(w), AskedOf(w)) : Asker(w) = d.consumer
      BY <1>4 DEF ConsumersOf
    <3>2. d \in Demands
      BY <1>1, <3>1
    <3>3. QED
      BY <3>1, <3>2 DEF ConsumersOf
  <2>5. QED
    BY <2>2, <2>3, <2>4
<1>10. Asks(v) = {<<d.consumer, d.id, d.path>> : d \in Demands}
  <2> DEFINE asks(c) == {<<c.id, ref.id, ref.path>> : ref \in ToSet(c.requires)}
             wanted(w) == {<<d.consumer, d.id, d.path>> :
                             d \in DemandsOf(Asker(w), AskedOf(w))}
  <2>1. \A w \in 1..next : asks(NormalConsumer(consumers[w])) = wanted(w)
    BY <1>4, <1>6
  <2>2. Asks(v) = UNION {asks(c) : c \in ToSet(v)}
    BY DEF Asks
  <2>3. Asks(v) = UNION {wanted(w) : w \in 1..next}
    <3> HIDE DEF asks, wanted
    <3>1. QED
      BY <1>5, <2>1, <2>2
  <2>4. {<<d.consumer, d.id, d.path>> : d \in Demands}
          = UNION {wanted(w) : w \in 1..next}
    <3>1. ASSUME NEW d \in Demands
          PROVE  <<d.consumer, d.id, d.path>> \in UNION {wanted(w) : w \in 1..next}
      <4>1. PICK w \in 1..next : d \in DemandsOf(Asker(w), AskedOf(w))
        BY <1>1
      <4>2. <<d.consumer, d.id, d.path>> \in wanted(w)
        BY <4>1
      <4> HIDE DEF wanted
      <4>3. QED
        BY <4>2
    <3>2. ASSUME NEW w \in 1..next, NEW t \in wanted(w)
          PROVE  t \in {<<d.consumer, d.id, d.path>> : d \in Demands}
      <4>1. PICK d \in DemandsOf(Asker(w), AskedOf(w)) :
              t = <<d.consumer, d.id, d.path>>
        OBVIOUS
      <4>2. d \in Demands
        BY <1>1
      <4>3. QED
        BY <4>1, <4>2
    <3> HIDE DEF wanted
    <3>3. QED
      BY <3>1, <3>2
  <2>5. QED
    BY <2>3, <2>4
<1>11. ConsumersStand(v, Demands)
  BY <1>5, <1>7, <1>8, <1>9, <1>10 DEF ConsumersStand
<1>12. QED
  BY <1>8, <1>11 DEF v

----------------------------------------------------------------------------
\* The contract.

LEMMA NoNilList ==
  ASSUME NEW X, NEW s \in Seq(X)
  PROVE  /\ Len(s) \in Nat /\ DOMAIN s = 1..Len(s)
         /\ s # << >> <=> Len(s) # 0
         /\ s # << >> <=> ToSet(s) # {}
         /\ \A i \in DOMAIN s : s[i] \in X
<1>1. Len(s) \in Nat /\ DOMAIN s = 1..Len(s)
  OBVIOUS
<1>2. s # << >> <=> Len(s) # 0
  OBVIOUS
<1>3. Len(s) # 0 <=> 1..Len(s) # {}
  <2>1. PICK n \in Nat : n = Len(s)
    BY <1>1
  <2>2. n # 0 <=> 1..n # {}
    <3>1. ASSUME n # 0 PROVE 1 \in 1..n
      BY <3>1
    <3>2. ASSUME n = 0, NEW i \in 1..n PROVE FALSE
      BY <3>2
    <3>3. QED
      BY <3>1, <3>2
  <2>3. QED
    BY <2>1, <2>2
<1>4. ToSet(s) # {} <=> DOMAIN s # {}
  BY DEF ToSet
<1>5. \A i \in DOMAIN s : s[i] \in X
  OBVIOUS
<1>6. QED
  BY <1>1, <1>2, <1>3, <1>4, <1>5

\* A normal list of checks, as the other side of the consumers.
LEMMA NormalChecksAre ==
  ASSUME NEW k, NEW D, NEW alertName, NormalChecks(k, D, alertName)
  PROVE  /\ k # << >> /\ DOMAIN k = 1..4 /\ DistinctIds(k) /\ IdsOf(k) = RequirementIds
         /\ \A i \in 1..4 :
              /\ k[i].id = Canon[i]
              /\ Paths(k[i]) # << >> /\ 0 \notin ToSet(Paths(k[i]))
              /\ k[i].consumers # << >>
              /\ ToSet(k[i].consumers) = ConsumersOf(Of(D, Canon[i]))
              /\ NoFilter \notin ToSet(FiltersOf(k[i]))
<1>1. k \in Seq(CheckRecord) /\ Len(k) = 4 /\ DOMAIN k = 1..4 /\ k # << >>
  <2>1. k \in Seq(CheckRecord) /\ Len(k) = 4
    BY DEF NormalChecks
  <2>2. k # << >> <=> Len(k) # 0
    BY ONLY <2>1, NoNilList
  <2>3. k # << >>
    BY ONLY <2>1, <2>2
  <2>4. QED
    BY <2>1, <2>3
<1>2. ASSUME NEW i \in 1..4
      PROVE  /\ k[i].id = Canon[i]
             /\ Paths(k[i]) # << >> /\ 0 \notin ToSet(Paths(k[i]))
             /\ k[i].consumers # << >>
             /\ ToSet(k[i].consumers) = ConsumersOf(Of(D, Canon[i]))
             /\ NoFilter \notin ToSet(FiltersOf(k[i]))
  <2> DEFINE n == k[i]
             E == Of(D, Canon[i])
  <2>1. IsNormal(n, Canon[i], E, alertName)
    BY DEF NormalChecks
  <2> HIDE DEF n, E
  <2>2. n \in CheckRecord /\ n.id = Canon[i]
    BY <2>1 DEF IsNormal
  <2>3. Gathers(n, Canon[i], E, alertName)
    BY <2>1, NormalGathers
  <2>4. /\ ToSet(n.consumers) = ConsumersOf(E)
        /\ n.path \in PathsOf(E) /\ PathsOf(E) \subseteq Positive
    BY <2>1, NormalTyped
  <2>5. Lists(Paths(n), PathsOf(E))
    BY <2>2, <2>3, PathsList
  <2>6. Lists(FiltersOf(n), AskedBy(E))
    BY <2>2, <2>3, FiltersList
  <2>7. ToSet(Paths(n)) = PathsOf(E) /\ ToSet(FiltersOf(n)) = AskedBy(E)
    BY <2>5, <2>6, ListSet
  <2>8. Paths(n) # << >>
    <3>1. Paths(n) \in Seq(PathsOf(E))
      BY <2>5 DEF Lists
    <3>2. QED
      BY <2>4, <2>7, <3>1, NoNilList
  <2>9. 0 \notin ToSet(Paths(n))
    BY <2>4, <2>7 DEF Positive
  <2>10. n.consumers # << >>
    <3>1. n.consumers \in Seq(Positive)
      BY <2>2 DEF CheckRecord
    <3>2. ConsumersOf(E) # {}
      BY <2>4 DEF PathsOf, ConsumersOf
    <3>3. QED
      BY <2>4, <3>1, <3>2, NoNilList
  <2>11. NoFilter \notin ToSet(FiltersOf(n))
    BY <2>7 DEF AskedBy
  <2>12. QED
    BY <2>2, <2>4, <2>8, <2>9, <2>10, <2>11 DEF n, E
<1>3. \A i, j \in 1..4 : Canon[i] = Canon[j] => i = j
  BY DEF Canon, CartValue, ErrorType, Operation, AlertMustFire
<1>4. DistinctIds(k)
  BY <1>1, <1>2, <1>3 DEF DistinctIds
<1>5. IdsOf(k) = RequirementIds
  <2>1. \A id \in IdsOf(k) : id \in RequirementIds
    BY <1>1, <1>2, CanonIs DEF IdsOf
  <2>2. ASSUME NEW id \in RequirementIds PROVE id \in IdsOf(k)
    <3>1. PICK i \in 1..4 : Canon[i] = id
      BY CanonIs
    <3>2. QED
      BY <1>1, <1>2, <3>1 DEF IdsOf
  <2>3. QED
    BY <2>1, <2>2
<1>6. QED
  BY <1>1, <1>2, <1>4, <1>5

LEMMA SomeoneIs ==
  \A x \in Someone : x.id \in Int /\ x.id # 0 /\ x.requires \in Seq(Refs)
<1>1. Positive \subseteq Int /\ 0 \notin Positive
  BY DEF Positive
<1>2. QED
  BY <1>1 DEF Someone

LEMMA RefIs ==
  \A x \in Refs : /\ x.id \in Int /\ x.id # 0 /\ x.path # 0
                  /\ x.id \in RequirementIds
<1>1. RequirementIds \subseteq Int /\ 0 \notin RequirementIds
  BY DEF RequirementIds
<1>2. 0 \notin Positive
  BY DEF Positive
<1>3. QED
  BY <1>1, <1>2 DEF Refs

\* Consumers and checks that stand for the same demands are a valid contract.
LEMMA StandingIsValid ==
  ASSUME NEW v, NEW k, NEW D, NEW alertName,
         ConsumersStand(v, D), NormalChecks(k, D, alertName),
         \A c \in ToSet(v) : c.name # ""
  PROVE  Validate([consumers |-> v, checks |-> k])
<1>1. /\ k # << >> /\ DOMAIN k = 1..4 /\ DistinctIds(k) /\ IdsOf(k) = RequirementIds
      /\ \A i \in 1..4 :
           /\ k[i].id = Canon[i]
           /\ Paths(k[i]) # << >> /\ 0 \notin ToSet(Paths(k[i]))
           /\ k[i].consumers # << >>
           /\ ToSet(k[i].consumers) = ConsumersOf(Of(D, Canon[i]))
           /\ NoFilter \notin ToSet(FiltersOf(k[i]))
  BY NormalChecksAre
<1>2. /\ v \in Seq(Someone) /\ IncreasingIds(v) /\ v # << >>
      /\ \A i \in 1..Len(v) : IncreasingIds(v[i].requires)
      /\ \A c \in ToSet(v) : c.requires # << >>
      /\ IdsOf(v) = ConsumersOf(D)
  BY DEF ConsumersStand, NormalConsumers
<1>3. \A x \in Someone : x.id \in Int /\ x.id # 0 /\ x.requires \in Seq(Refs)
  BY SomeoneIs
<1>4. DistinctIds(v)
  <2>1. \A x \in Someone : x.id \in Int
    BY SomeoneIs
  <2>2. QED
    BY <1>2, <2>1, IncreasingAreDistinct
<1>5. ASSUME NEW c \in ToSet(v)
      PROVE  /\ c.id # 0 /\ c.name # "" /\ c.requires # << >>
             /\ DistinctIds(c.requires)
             /\ \A ref \in ToSet(c.requires) : ref.id # 0 /\ ref.path # 0
             /\ IdsOf(c.requires) \subseteq RequirementIds
  <2>1. PICK i \in 1..Len(v) : c = v[i]
    <3>1. DOMAIN v = 1..Len(v)
      BY <1>2, NoNilList
    <3>2. QED
      BY <3>1, Zenon DEF ToSet
  <2>2. c \in Someone /\ IncreasingIds(c.requires)
    <3>1. v[i] \in Someone
      BY ONLY <1>2, <2>1
    <3>2. QED
      BY <1>2, <2>1, <3>1
  <2>3. c.id # 0 /\ c.requires \in Seq(Refs)
    BY <1>3, <2>2
  <2>4. \A x \in Refs : /\ x.id \in Int /\ x.id # 0 /\ x.path # 0
                        /\ x.id \in RequirementIds
    BY RefIs
  <2>5. DistinctIds(c.requires)
    <3>1. \A x \in Refs : x.id \in Int
      BY RefIs
    <3> DEFINE r == c.requires
    <3>2. r \in Seq(Refs) /\ IncreasingIds(r)
      BY <2>2, <2>3
    <3> HIDE DEF r
    <3>3. DistinctIds(r)
      BY ONLY <3>1, <3>2, IncreasingAreDistinct
    <3>4. QED
      BY <3>3 DEF r
  <2>6. /\ \A ref \in ToSet(c.requires) : ref \in Refs
        /\ \A id \in IdsOf(c.requires) : \E ref \in Refs : id = ref.id
    <3> DEFINE r == c.requires
    <3>1. r \in Seq(Refs)
      BY <2>3
    <3> HIDE DEF r
    <3>2. \A j \in DOMAIN r : r[j] \in Refs
      BY ONLY <3>1, NoNilList
    <3>3. /\ \A ref \in ToSet(r) : ref \in Refs
          /\ \A id \in IdsOf(r) : \E ref \in Refs : id = ref.id
      BY <3>2 DEF ToSet, IdsOf
    <3>4. QED
      BY <3>3 DEF r
  <2>7. IdsOf(c.requires) \subseteq RequirementIds
    BY <2>4, <2>6
  <2>8. QED
    BY <1>2, <2>3, <2>4, <2>5, <2>6, <2>7
<1>6. ASSUME NEW check \in ToSet(k)
      PROVE  /\ Paths(check) # << >> /\ 0 \notin ToSet(Paths(check))
             /\ check.consumers # << >>
             /\ ToSet(check.consumers) \subseteq IdsOf(v)
             /\ NoFilter \notin ToSet(FiltersOf(check))
  <2>1. PICK i \in 1..4 : check = k[i]
    BY <1>1 DEF ToSet
  <2>2. ConsumersOf(Of(D, Canon[i])) \subseteq ConsumersOf(D)
    BY DEF ConsumersOf, Of
  <2>3. QED
    BY <1>1, <1>2, <2>1, <2>2
<1> DEFINE c == [consumers |-> v, checks |-> k]
<1>7. c.consumers = v /\ c.checks = k
  OBVIOUS
<1> HIDE DEF c
<1>8. Validate(c)
  BY <1>1, <1>2, <1>4, <1>5, <1>6, <1>7 DEF Validate
<1>9. QED
  BY <1>8 DEF c

\* All four requirements are collected when the operation is.
LEMMA AllCollected ==
  ASSUME ReadInv, CollectInv, pc \in Past, Operation \in DOMAIN requirements
  PROVE  /\ DOMAIN requirements = RequirementIds
         /\ Gathered(requirements, Demands, alert.identity)
         /\ requirements \in [RequirementIds -> CheckRecord]
<1>1. pc # "failed" /\ Collected
  <2>1. pc # "failed"
    BY DEF Past
  <2>2. QED
    BY <2>1 DEF CollectInv
<1>2. Gathered(requirements, Demands, alert.identity)
  BY <1>1, DemandsAreRead DEF Collected
<1>3. requirements \in Known
  BY <1>2 DEF Gathered
<1>4. DOMAIN requirements \subseteq RequirementIds
      /\ requirements \in [DOMAIN requirements -> CheckRecord]
  BY <1>3 DEF Known
<1>5. SumDemand(1) \in Demands /\ CountDemand \in Demands /\ FireDemand \in Demands
  <2>1. 1 \in DOMAIN dashboard
    <3>1. dashboard \in Seq(Widgets) /\ ValidDashboard(dashboard)
      BY DEF ReadInv, ReadType, Past
    <3>2. dashboard # << >>
      BY <3>1 DEF ValidDashboard
    <3>3. Len(dashboard) \in Nat /\ Len(dashboard) # 0
          /\ DOMAIN dashboard = 1..Len(dashboard)
      BY <3>1, <3>2, NoNilList
    <3>4. QED
      BY <3>3
  <2>2. QED
    BY <2>1 DEF Demands, SumDemand, CountDemand, FireDemand
<1>6. \A id \in {CartValue, ErrorType, AlertMustFire} : \E d \in Demands : d.id = id
  BY <1>5, DemandFields
<1>7. \A id \in {CartValue, ErrorType, AlertMustFire} : id \in DOMAIN requirements
  BY <1>2, <1>6 DEF Gathered
<1>8. DOMAIN requirements = RequirementIds
  BY <1>4, <1>7, RankIs
<1>9. QED
  BY <1>2, <1>4, <1>8

LEMMA AnyOrderIsStated ==
  ASSUME ReadInv, CollectInv, pc \in Past, Operation \in DOMAIN requirements,
         NEW order \in SetToSeqs(DOMAIN requirements)
  PROVE  Stated([i \in DOMAIN order |-> requirements[order[i]]], Demands, alert.identity)
<1> DEFINE cs == [i \in DOMAIN order |-> requirements[order[i]]]
<1>1. /\ DOMAIN requirements = 1..4
      /\ Gathered(requirements, Demands, alert.identity)
      /\ requirements \in [1..4 -> CheckRecord]
  BY AllCollected DEF RequirementIds
<1>2. order \in [1..4 -> 1..4] /\ \A i, j \in 1..4 : order[i] = order[j] => i = j
  <2>1. Cardinality(1..4) = 4
    <3>1. PICK n \in Nat : n = 4
      OBVIOUS
    <3>2. Cardinality(1..n) = n
      BY FS_Interval
    <3>3. QED
      BY <3>1, <3>2
  <2>2. SetToSeqs(1..4)
          = {f \in [1..4 -> 1..4] : \A i, j \in 1..4 : i # j => f[i] # f[j]}
    BY <2>1 DEF SetToSeqs
  <2>3. QED
    BY <1>1, <2>2
<1>3. ASSUME NEW i \in 1..4
      PROVE  /\ cs[i] = requirements[order[i]] /\ cs[i].id = order[i]
             /\ cs[i] \in CheckRecord
             /\ Gathers(cs[i], cs[i].id, Of(Demands, cs[i].id), alert.identity)
  <2>1. cs[i] = requirements[order[i]] /\ order[i] \in 1..4
    BY <1>2
  <2> HIDE DEF cs
  <2>2. Gathers(cs[i], order[i], Of(Demands, order[i]), alert.identity)
    BY <1>1, <2>1 DEF Gathered
  <2>3. cs[i].id = order[i]
    BY <2>2 DEF Gathers
  <2>4. QED
    BY <1>1, <2>1, <2>2, <2>3
<1>4. DOMAIN cs = 1..4 /\ cs = [i \in 1..4 |-> cs[i]]
  BY <1>2
<1> HIDE DEF cs
<1>5. cs \in [1..4 -> CheckRecord]
  BY <1>3, <1>4
<1>6. Stated(cs, Demands, alert.identity)
  BY <1>2, <1>3, <1>5 DEF Stated
<1>7. QED
  BY <1>6 DEF cs

\* What Normalize makes of it all.
LEMMA NormalizeIs ==
  ASSUME NEW v, NEW cs
  PROVE  Normalize([consumers |-> v, checks |-> cs])
           = [consumers |-> SortedConsumers(v), checks |-> SortedChecks(cs)]
<1>1. [i \in DOMAIN v |-> [v[i] EXCEPT !.requires = ById(@)]]
        = [i \in DOMAIN v |-> NormalConsumer(v[i])]
  BY Zenon DEF NormalConsumer
<1> DEFINE c == [consumers |-> v, checks |-> cs]
<1>2. c.consumers = v /\ c.checks = cs
  OBVIOUS
<1> HIDE DEF c
<1>3. Normalize(c) = [consumers |-> SortedConsumers(v), checks |-> SortedChecks(cs)]
  BY <1>1, <1>2, Zenon DEF Normalize, SortedConsumers, SortedChecks
<1>4. QED
  BY <1>3 DEF c

\* From its assembly on, the contract states the demands in its normal form.
ContractInv ==
  IF pc \in Past \ {"collected"}
  THEN /\ pc # "invalid"
       /\ contract = [consumers |-> SortedConsumers(consumers),
                      checks |-> contract.checks]
       /\ NormalChecks(contract.checks, Demands, alert.identity)
  ELSE contract = Empty

LEMMA AssembleIs ==
  ASSUME MinedInv, Assemble
  PROVE  ContractInv'
<1>1. /\ pc = "collected" /\ Operation \in DOMAIN requirements
      /\ UNCHANGED <<dashboard, alert, next, consumers, requirements>>
      /\ pc' = IF Validate(contract') THEN "write" ELSE "invalid"
  BY DEF Assemble
<1>2. pc \in Past /\ ReadInv /\ CollectInv
  BY <1>1 DEF Past, MinedInv
<1>3. PICK order \in SetToSeqs(DOMAIN requirements) :
        contract' = Normalize(
          [consumers |-> consumers,
           checks |-> [i \in DOMAIN order |-> requirements[order[i]]]])
  BY DEF Assemble
<1> DEFINE v == SortedConsumers(consumers)
           k == SortedChecks([i \in DOMAIN order |-> requirements[order[i]]])
<1>4. contract' = [consumers |-> v, checks |-> k]
  BY <1>3, NormalizeIs
<1>5. NormalChecks(k, Demands, alert.identity)
  BY <1>1, <1>2, AnyOrderIsStated, FiltersByService, ChecksSorted
<1>6. /\ ConsumersStand(v, Demands)
      /\ \A c \in ToSet(v) : c.name \in DOMAIN ReadBack
  BY <1>2, ConsumersDoStand
<1>7. "" \notin DOMAIN ReadBack
  BY DEF ReadBack
<1>8. Demands' = Demands
  BY <1>1 DEF Demands
<1>9. v = SortedConsumers(consumers)'
  BY <1>1
<1> HIDE DEF v, k
<1>10. Validate(contract')
  BY <1>4, <1>5, <1>6, <1>7, StandingIsValid
<1>11. contract'.checks = k
  BY <1>4
<1>12. pc' = "write" /\ pc' \in Past \ {"collected"} /\ pc' # "invalid"
  BY <1>1, <1>10 DEF Past
<1>13. NormalChecks(contract.checks, Demands, alert.identity)'
  BY <1>1, <1>5, <1>8, <1>11
<1>14. contract' = [consumers |-> SortedConsumers(consumers)',
                   checks |-> contract'.checks]
  BY ONLY <1>4, <1>9, <1>11
<1>15. QED
  BY ONLY <1>12, <1>13, <1>14 DEF ContractInv

LEMMA ContractStep == MinedInv /\ ContractInv /\ [Next]_vars => ContractInv'
<1> SUFFICES ASSUME MinedInv, ContractInv, [Next]_vars PROVE ContractInv'
  OBVIOUS
<1>1. CASE GetDashboard \/ GetAlert \/ ReadWidget \/ ReadAlert
  <2>1. /\ pc \in {"getDashboard", "getAlert", "panels"} /\ UNCHANGED contract
        /\ pc' \in {"getAlert", "panels", "collected", "failed"}
    BY <1>1 DEF GetDashboard, GetAlert, ReadWidget, ReadAlert, Add, PanelsRead
  <2>2. QED
    BY <2>1 DEF ContractInv, Past
<1>2. CASE ResourceFails \/ RefuseWidget \/ RefuseAlert \/ OperationMissing
  <2>1. /\ pc \in {"getDashboard", "getAlert", "panels", "collected"}
        /\ pc' = "failed" /\ UNCHANGED contract
    BY <1>2 DEF ResourceFails, RefuseWidget, RefuseAlert, OperationMissing,
                Fail, PanelsRead
  <2>2. QED
    BY <2>1 DEF ContractInv, Past
<1>3. CASE Assemble
  BY <1>3, AssembleIs
<1>4. CASE WriteFile \/ WriteBreaks \/ Load \/ CheckCanonical \/ UNCHANGED vars
  <2>1. /\ UNCHANGED <<dashboard, alert, consumers, contract>>
        /\ \/ pc' = pc
           \/ /\ pc \in {"write", "written", "loaded"}
              /\ pc' \in Past \ {"collected", "invalid"}
    BY <1>4 DEF WriteFile, WriteBreaks, Load, CheckCanonical,
               Past, vars
  <2>2. Demands' = Demands
    BY <2>1 DEF Demands
  <2>3. CASE pc \in Past \ {"collected"}
    <3>1. /\ pc # "invalid"
          /\ contract = [consumers |-> SortedConsumers(consumers),
                         checks |-> contract.checks]
          /\ NormalChecks(contract.checks, Demands, alert.identity)
      BY <2>3 DEF ContractInv
    <3>2. pc' \in Past \ {"collected"} /\ pc' # "invalid"
      BY <2>1, <2>3, <3>1
    <3>3. /\ contract' = [consumers |-> SortedConsumers(consumers)',
                          checks |-> contract'.checks]
          /\ NormalChecks(contract.checks, Demands, alert.identity)'
      BY <2>1, <2>2, <3>1
    <3>4. QED
      BY ONLY <3>2, <3>3 DEF ContractInv
  <2>4. CASE pc \notin Past \ {"collected"}
    <3>1. contract = Empty
      BY <2>4 DEF ContractInv
    <3>2. pc' = pc
      BY <2>1, <2>4 DEF Past
    <3>3. QED
      BY <2>1, <2>4, <3>1, <3>2 DEF ContractInv
  <2>5. QED
    BY <2>3, <2>4
<1>5. QED
  BY <1>1, <1>2, <1>3, <1>4 DEF Next, Stopped

LEMMA ContractHolds == Spec => [](MinedInv /\ ContractInv)
<1>1. Init => ContractInv
  BY DEF Init, ContractInv, Past
<1>2. MinedInv /\ ContractInv /\ [Next]_vars => ContractInv'
  BY ContractStep
<1>3. QED
  BY <1>1, <1>2, MinedHolds, PTL DEF Spec

\* Whatever the collector accepts is a valid contract.
THEOREM MinedIsValid == Spec => []CollectedIsValid
<1>1. ContractInv => CollectedIsValid
  BY DEF ContractInv, CollectedIsValid, Past
<1>2. QED
  BY <1>1, ContractHolds, PTL

LEMMA OrderedIncrease ==
  ASSUME NEW S \in SUBSET Int, NEW u, Ordered(u, S, Itself(S))
  PROVE  Increasing(u)
<1>1. u \in Seq(S) /\ \A i, j \in 1..Len(u) : i < j => Itself(S)[u[i]] < Itself(S)[u[j]]
  BY DEF Ordered, Lists
<1>2. DOMAIN u = 1..Len(u) /\ \A i \in DOMAIN u : u[i] \in S
  BY <1>1, NoNilList
<1>3. \A i \in DOMAIN u : Itself(S)[u[i]] = u[i]
  BY <1>2 DEF Itself
<1>4. ASSUME NEW i \in DOMAIN u, NEW j \in DOMAIN u, i < j
      PROVE  u[i] < u[j]
  <2>1. Itself(S)[u[i]] < Itself(S)[u[j]]
    BY <1>1, <1>2, <1>4
  <2>2. QED
    BY <1>3, <2>1
<1>5. QED
  BY <1>4 DEF Increasing

LEMMA NormalIsCanonical ==
  ASSUME ContractInv, MinedInv, Mined
  PROVE  ContractIsCanonical
<1> DEFINE v == contract.consumers
           k == contract.checks
<1>1. pc \in Past \ {"collected"} /\ pc \in Past
  BY DEF Mined, Past
<1>2. /\ contract = [consumers |-> SortedConsumers(consumers), checks |-> k]
      /\ NormalChecks(k, Demands, alert.identity)
  BY <1>1 DEF ContractInv
<1>3. v = SortedConsumers(consumers)
  <2> DEFINE c == SortedConsumers(consumers)
             t == k
  <2>1. contract = [consumers |-> c, checks |-> t]
    BY <1>2
  <2> HIDE DEF c, t
  <2>2. contract.consumers = c
    BY <2>1
  <2>3. QED
    BY <2>2 DEF c
<1>4. ConsumersStand(v, Demands)
  BY <1>1, <1>3, ConsumersDoStand DEF MinedInv
<1> HIDE DEF v, k
<1>5. /\ DOMAIN k = 1..4
      /\ \A i \in 1..4 : k[i].id = Canon[i]
  BY <1>2, NormalChecksAre
<1>6. [i \in DOMAIN k |-> k[i].id] = <<CartValue, ErrorType, Operation, AlertMustFire>>
  <2> DEFINE ids == [i \in 1..4 |-> k[i].id]
  <2>1. ids = [i \in 1..4 |-> Canon[i]]
    BY <1>5
  <2>2. Canon = [i \in 1..4 |-> Canon[i]]
    BY DEF Canon
  <2>3. ids = Canon
    BY <2>1, <2>2
  <2>4. QED
    BY <1>5, <2>3 DEF Canon
<1>7. Increasing([i \in DOMAIN v |-> v[i].id])
  <2>1. v \in Seq(Someone) /\ IncreasingIds(v)
    BY <1>4 DEF ConsumersStand, NormalConsumers
  <2>2. DOMAIN v = 1..Len(v)
    BY <2>1, NoNilList
  <2>3. QED
    BY <2>1, <2>2 DEF IncreasingIds, Increasing
<1>8. ASSUME NEW check \in ToSet(k)
      PROVE  LET mine == {d \in Demands : d.id = check.id}
             IN /\ Increasing(check.consumers) /\ Increasing(check.paths)
                /\ ToSet(check.consumers) = {d.consumer : d \in mine}
                /\ ToSet(check.paths) = {d.path : d \in mine}
                /\ ToSet(check.filters) = {d.filter : d \in mine} \ {NoFilter}
  <2>1. PICK i \in 1..4 : check = k[i]
    BY <1>5 DEF ToSet
  <2> DEFINE E == Of(Demands, Canon[i])
  <2>2. E = {d \in Demands : d.id = check.id}
    BY <1>5, <2>1 DEF Of
  <2>3. IsNormal(check, Canon[i], E, alert.identity)
    BY <1>2, <2>1 DEF NormalChecks
  <2> HIDE DEF E
  <2>4. /\ PathsOf(E) \subseteq Positive /\ ConsumersOf(E) \subseteq Positive
        /\ ToSet(check.paths) = PathsOf(E) /\ ToSet(check.filters) = AskedBy(E)
        /\ ToSet(check.consumers) = ConsumersOf(E)
    BY <2>3, NormalTyped
  <2>5. PathsOf(E) \in SUBSET Int /\ ConsumersOf(E) \in SUBSET Int
    <3>1. Positive \subseteq Int
      BY DEF Positive
    <3>2. QED
      BY <2>4, <3>1
  <2>6. /\ Ordered(check.paths, PathsOf(E), Itself(PathsOf(E)))
        /\ Ordered(check.consumers, ConsumersOf(E), Itself(ConsumersOf(E)))
    BY <2>3 DEF IsNormal
  <2>7. Increasing(check.paths) /\ Increasing(check.consumers)
    BY <2>5, <2>6, OrderedIncrease
  <2>8. QED
    BY <2>2, <2>4, <2>7, Zenon DEF PathsOf, ConsumersOf, AskedBy
<1>9. Asks(v) = {<<d.consumer, d.id, d.path>> : d \in Demands}
  BY <1>4 DEF ConsumersStand
<1>10. QED
  BY <1>6, <1>7, <1>8, <1>9 DEF ContractIsCanonical, Asks, v, k

\* The contract says what the dashboard and the alert demand, in both directions
\* and in one order, whatever order the map of the collector is read in.
THEOREM MinedIsCanonical == Spec => []ContractIsCanonical
<1>1. MinedInv /\ ContractInv => ContractIsCanonical
  <2>1. ~Mined => ContractIsCanonical
    BY DEF ContractIsCanonical
  <2>2. QED
    BY <2>1, NormalIsCanonical
<1>2. QED
  BY <1>1, ContractHolds, PTL

----------------------------------------------------------------------------
\* The file, written and read back.

WrittenChecks(k) == [i \in DOMAIN k |-> WrittenCheck(k[i])]

LEMMA LoadedAre ==
  ASSUME NEW v, NEW cs
  PROVE  Loaded([consumers |-> v, checks |-> cs])
           = [consumers |-> SortedConsumers(Renamed(v)), checks |-> SortedChecks(cs)]
<1> DEFINE f == [consumers |-> v, checks |-> cs]
           named == Renamed(v)
<1>1. f.consumers = v
  OBVIOUS
<1>2. [f EXCEPT !.consumers = named] = [consumers |-> named, checks |-> cs]
  <2> HIDE DEF named
  <2>1. QED
    OBVIOUS
<1>3. Loaded(f) = Normalize([f EXCEPT !.consumers = Renamed(f.consumers)])
  BY Zenon DEF Loaded
<1>4. Loaded(f) = Normalize([consumers |-> named, checks |-> cs])
  <2> HIDE DEF f
  <2>1. QED
    BY <1>1, <1>2, <1>3
<1>5. QED
  BY <1>4, NormalizeIs

\* A contract in its normal form stays as it is.
LEMMA NormalStays ==
  ASSUME NEW v, NEW k, NEW D, NEW alertName, NormalConsumers(v),
         NormalChecks(k, D, alertName), OneServiceEach(D)
  PROVE  /\ Normalize([consumers |-> v, checks |-> k])
              = [consumers |-> v, checks |-> k]
         /\ Written([consumers |-> v, checks |-> k])
              = [consumers |-> v, checks |-> WrittenChecks(k)]
         /\ SortedChecks(WrittenChecks(k)) = k
<1>1. SortedConsumers(v) = v
  BY ConsumersKept
<1>2. SortedChecks(k) = k
  BY NormalAreStated, ChecksSorted, ChecksOnce
<1>3. SortedChecks(WrittenChecks(k)) = k
  BY WrittenAreStated, ChecksSorted, ChecksOnce DEF WrittenChecks
<1> DEFINE c == [consumers |-> v, checks |-> k]
           n == Normalize(c)
<1>4. n = c
  BY <1>1, <1>2, NormalizeIs
<1>5. Written(c) = [c EXCEPT !.checks = WrittenChecks(k)]
  <2>1. Written(c) = [n EXCEPT !.checks = [i \in DOMAIN @ |-> WrittenCheck(@[i])]]
    BY Zenon DEF Written
  <2>2. c.checks = k
    OBVIOUS
  <2> HIDE DEF c, n
  <2>3. Written(c) = [c EXCEPT !.checks = [i \in DOMAIN c.checks |-> WrittenCheck(c.checks[i])]]
    BY <1>4, <2>1
  <2>4. QED
    BY <2>2, <2>3 DEF WrittenChecks
<1>6. [c EXCEPT !.checks = WrittenChecks(k)]
        = [consumers |-> v, checks |-> WrittenChecks(k)]
  <2> DEFINE w == WrittenChecks(k)
  <2> HIDE DEF w
  <2>1. [c EXCEPT !.checks = w] = [consumers |-> v, checks |-> w]
    OBVIOUS
  <2>2. QED
    BY <2>1 DEF w
<1>7. QED
  BY <1>3, <1>4, <1>5, <1>6

LEMMA RenamedStand ==
  ASSUME NEW v, NEW D, ConsumersStand(v, D),
         \A c \in ToSet(v) : c.name \in DOMAIN ReadBack
  PROVE  /\ ConsumersStand(Renamed(v), D)
         /\ SortedConsumers(Renamed(v)) = Renamed(v)
         /\ Renamed(v) \in Seq(Someone) /\ Len(Renamed(v)) = Len(v)
         /\ \A i \in 1..Len(v) : /\ Renamed(v)[i].name = ReadBack[v[i].name]
                                 /\ Renamed(v)[i].id = v[i].id
                                 /\ Renamed(v)[i].requires = v[i].requires
<1> DEFINE w == Renamed(v)
<1>1. /\ v \in Seq(Someone) /\ IncreasingIds(v) /\ v # << >>
      /\ \A i \in 1..Len(v) : IncreasingIds(v[i].requires)
      /\ \A c \in ToSet(v) : c.requires # << >>
      /\ IdsOf(v) = ConsumersOf(D)
      /\ Asks(v) = {<<d.consumer, d.id, d.path>> : d \in D}
  BY DEF ConsumersStand, NormalConsumers
<1>2. PICK n \in Nat : n = Len(v) /\ DOMAIN v = 1..n
  BY <1>1, NoNilList
<1>3. \A name \in DOMAIN ReadBack : ReadBack[name] \in NameKinds
  <2>1. DOMAIN ReadBack = {"plain", "quoted", "null", "padded"}
    BY DEF ReadBack
  <2>2. /\ ReadBack["plain"] = "plain" /\ ReadBack["quoted"] = "quoted"
        /\ ReadBack["null"] = "" /\ ReadBack["padded"] = "plain"
    BY DEF ReadBack
  <2>3. QED
    BY <2>1, <2>2 DEF NameKinds
<1>4. ASSUME NEW i \in 1..n
      PROVE  /\ w[i] \in Someone /\ w[i].id = v[i].id
             /\ w[i].name = ReadBack[v[i].name] /\ w[i].requires = v[i].requires
             /\ v[i] \in ToSet(v)
  <2> DEFINE c == v[i]
             name == ReadBack[c.name]
  <2>1. c \in Someone /\ c \in ToSet(v)
    BY <1>1, <1>2 DEF ToSet
  <2>2. w[i] = [c EXCEPT !.name = name]
    BY <1>2 DEF Renamed
  <2>3. name \in NameKinds
    BY <1>3, <2>1
  <2> HIDE DEF c, name, w
  <2>4. /\ w[i].id = c.id /\ w[i].name = name /\ w[i].requires = c.requires
        /\ w[i] \in Someone
    BY <2>1, <2>2, <2>3 DEF Someone
  <2>5. QED
    BY <2>1, <2>4 DEF c, name
<1>5. DOMAIN w = 1..n /\ w = [i \in 1..n |-> w[i]]
  BY <1>2 DEF Renamed
<1> HIDE DEF w
<1>6. w \in Seq(Someone) /\ Len(w) = n
  BY <1>4, <1>5
<1>7. IncreasingIds(w) /\ \A i \in 1..Len(w) : IncreasingIds(w[i].requires)
  BY <1>1, <1>2, <1>4, <1>6 DEF IncreasingIds
<1>8. NormalConsumers(w)
  BY <1>6, <1>7 DEF NormalConsumers
<1>9. /\ ToSet(w) = {w[i] : i \in 1..n} /\ ToSet(v) = {v[i] : i \in 1..n}
      /\ IdsOf(w) = {w[i].id : i \in 1..n} /\ IdsOf(v) = {v[i].id : i \in 1..n}
  BY <1>2, <1>5 DEF ToSet, IdsOf
<1>10. w # << >>
  <2>1. Len(w) # 0
    BY <1>1, <1>2, <1>6, NoNilList
  <2>2. QED
    BY <1>6, <2>1, NoNilList
<1>11. \A c \in ToSet(w) : c.requires # << >>
  BY <1>1, <1>4, <1>9
<1>12. IdsOf(w) = IdsOf(v)
  BY <1>4, <1>9
<1>13. Asks(w) = Asks(v)
  <2> DEFINE asks(c) == {<<c.id, ref.id, ref.path>> : ref \in ToSet(c.requires)}
  <2>1. \A i \in 1..n : asks(w[i]) = asks(v[i])
    BY <1>4
  <2>2. /\ Asks(w) = UNION {asks(c) : c \in ToSet(w)}
        /\ Asks(v) = UNION {asks(c) : c \in ToSet(v)}
    BY DEF Asks
  <2> HIDE DEF asks
  <2>3. QED
    BY <1>9, <2>1, <2>2
<1>14. ConsumersStand(w, D)
  BY <1>1, <1>8, <1>10, <1>11, <1>12, <1>13 DEF ConsumersStand
<1>15. SortedConsumers(w) = w
  BY <1>8, ConsumersKept
<1>16. QED
  BY <1>2, <1>4, <1>6, <1>14, <1>15 DEF w

\* The names that the file gives back.
LEMMA RenamedSame ==
  ASSUME NEW v \in Seq(Someone), \A c \in ToSet(v) : ReadBack[c.name] = c.name
  PROVE  Renamed(v) = v
<1>1. DOMAIN v = 1..Len(v) /\ \A i \in DOMAIN v : v[i] \in Someone
  BY NoNilList
<1>2. ASSUME NEW i \in DOMAIN v
      PROVE  [v[i] EXCEPT !.name = ReadBack[@]] = v[i]
  <2> DEFINE c == v[i]
             name == ReadBack[c.name]
  <2>1. c \in Someone /\ name = c.name
    BY <1>1 DEF ToSet
  <2> HIDE DEF c, name
  <2>2. [c EXCEPT !.name = name] = c
    BY <2>1 DEF Someone
  <2>3. QED
    BY <2>2 DEF c, name
<1>3. Renamed(v) = [i \in DOMAIN v |-> v[i]]
  BY <1>2, Zenon DEF Renamed
<1>4. v = [i \in DOMAIN v |-> v[i]]
  OBVIOUS
<1>5. QED
  BY <1>3, <1>4

\* Checks in any number, with distinct identifiers.
LEMMA SomeChecksSorted ==
  ASSUME NEW n \in Nat, NEW q, DOMAIN q = 1..n,
         \A i \in 1..n : NormalCheck(q[i]).id = q[i].id /\ q[i].id \in RequirementIds,
         \A i, j \in 1..n : q[i].id = q[j].id => i = j
  PROVE  ToSet(SortedChecks(q)) = {NormalCheck(q[i]) : i \in 1..n}
<1> DEFINE u == [i \in 1..n |-> NormalCheck(q[i])]
           key == [i \in 1..n |-> CheckRank[q[i].id]]
           S == {NormalCheck(q[i]) : i \in 1..n}
           rank == [x \in S |-> CheckRank[x.id]]
           r == Sort(u, key)
<1>1. r = SortedChecks(q)
  BY DEF SortedChecks
<1>2. \A i \in 1..n : u[i] = NormalCheck(q[i]) /\ u[i] \in S
  OBVIOUS
<1>3. \A x \in S : \E i \in 1..n : x = u[i]
  BY <1>2
<1>4. u \in Seq(S) /\ Len(u) = n /\ DOMAIN u = 1..n
  <2>1. \A i \in 1..n : NormalCheck(q[i]) \in S
    OBVIOUS
  <2> HIDE DEF S
  <2>2. QED
    BY <2>1
<1>5. \A x \in S : x.id \in RequirementIds /\ rank[x] = CheckRank[x.id]
  BY <1>2, <1>3
<1>6. rank \in [S -> Int]
  BY <1>5, RankIs
<1>7. key = [i \in DOMAIN u |-> rank[u[i]]]
  <2>1. \A i \in 1..n : rank[u[i]] = CheckRank[q[i].id]
    <3> HIDE DEF u, S, rank
    <3>1. QED
      BY <1>2, <1>5
  <2>2. QED
    BY <1>4, <2>1
<1> HIDE DEF u, key, S, rank
<1>8. \A i, j \in 1..n : u[i].id = u[j].id => i = j
  BY <1>2
<1>9. Lists(u, S)
  BY <1>3, <1>4, <1>8 DEF Lists
<1>10. ASSUME NEW x \in S, NEW y \in S, rank[x] = rank[y]
       PROVE  x = y
  <2>1. x.id = y.id
    BY <1>5, <1>10, RankIs
  <2>2. PICK i \in 1..n : x = u[i]
    BY <1>3
  <2>3. PICK j \in 1..n : y = u[j]
    BY <1>3
  <2>4. QED
    BY <1>8, <2>1, <2>2, <2>3
<1>11. Ordered(r, S, rank)
  BY <1>6, <1>7, <1>9, <1>10, SortOrders
<1>12. ToSet(r) = S
  BY <1>11, ListSet DEF Ordered
<1>13. QED
  BY <1>1, <1>12 DEF S

\* Neither a sort nor a normal form loses or adds an entry.
LEMMA NothingSorted ==
  ASSUME NEW key
  PROVE  Sort(<< >>, key) = << >>
<1> DEFINE u == << >>
           order == CHOOSE o \in SetToSeqs(DOMAIN u) :
                      \A i, j \in DOMAIN u : i < j => key[o[i]] <= key[o[j]]
<1>1. DOMAIN u = {}
  OBVIOUS
<1> HIDE DEF u
<1>2. Sort(u, key) = [i \in DOMAIN u |-> u[order[i]]]
  BY Zenon DEF Sort
<1> HIDE DEF order
<1>3. [i \in DOMAIN u |-> u[order[i]]] = u
  BY <1>1 DEF u
<1>4. QED
  BY <1>2, <1>3 DEF u

LEMMA NoChecksSorted == SortedChecks(<< >>) = << >>
<1>1. [i \in DOMAIN << >> |-> NormalCheck(<< >>[i])] = << >>
  OBVIOUS
<1>2. QED
  BY <1>1, NothingSorted, Zenon DEF SortedChecks

LEMMA NormalCheckFields ==
  ASSUME NEW check \in CheckRecord
  PROVE  /\ NormalCheck(check).id = check.id
         /\ check.consumers = << >> => NormalCheck(check).consumers = << >>
<1> DEFINE paths == Ascending(Paths(check))
           unsorted == FiltersOf(check)
           filters == Sort(unsorted, [i \in DOMAIN unsorted |-> unsorted[i].service])
           path == IF paths = << >> THEN check.path ELSE Head(paths)
           filter == IF Len(filters) = 1 THEN Head(filters) ELSE NoFilter
           sorted == Ascending(check.consumers)
           n == NormalCheck(check)
<1>1. n = [check EXCEPT !.path = path, !.paths = paths, !.filter = filter,
                        !.filters = filters, !.consumers = sorted]
  BY DEF NormalCheck
<1>2. check.consumers = << >> => sorted = << >>
  <2>1. Ascending(<< >>) = << >>
    BY NothingSorted, Zenon DEF Ascending
  <2>2. QED
    BY <2>1
<1> HIDE DEF paths, filters, path, filter, sorted, n
<1>3. n.id = check.id /\ n.consumers = sorted
  BY <1>1 DEF CheckRecord
<1>4. QED
  BY <1>2, <1>3 DEF n

\* What a check of the file keeps of the contract's.
LEMMA WrittenFields ==
  ASSUME NEW check \in CheckRecord
  PROVE  /\ WrittenCheck(check).id = check.id
         /\ WrittenCheck(check).consumers = check.consumers
<1> DEFINE listed == FiltersOf(check)
           paths == IF Len(check.paths) > 1 THEN check.paths ELSE << >>
           filter == IF Len(listed) = 1 THEN Head(listed) ELSE NoFilter
           filters == IF Len(listed) > 1 THEN listed ELSE << >>
           w == WrittenCheck(check)
<1>1. w = [check EXCEPT !.paths = paths, !.filter = filter, !.filters = filters]
  BY DEF WrittenCheck
<1> HIDE DEF listed, paths, filter, filters, w
<1>2. w.id = check.id /\ w.consumers = check.consumers
  BY <1>1 DEF CheckRecord
<1>3. QED
  BY <1>2 DEF w

LEMMA ListOf ==
  ASSUME NEW n \in Nat, NEW X, NEW w \in [1..n -> X]
  PROVE  w \in Seq(X) /\ Len(w) = n
OBVIOUS

\* The list w up to its entry m, which becomes t.
LEMMA CutList ==
  ASSUME NEW X, NEW w \in Seq(X), NEW m \in 1..Len(w), NEW t \in X,
         NEW q, q = Append(SubSeq(w, 1, m - 1), t)
  PROVE  /\ q \in Seq(X) /\ Len(q) = m /\ DOMAIN q = 1..m /\ q[m] = t
         /\ \A i \in 1..(m - 1) : q[i] = w[i]
         /\ m = Len(w) /\ t = w[m] => q = w
<1>1. PICK n \in Nat : n = Len(w)
  OBVIOUS
<1>2. m \in 1..n /\ m - 1 \in Nat
  BY <1>1
<1> DEFINE p == SubSeq(w, 1, m - 1)
<1>3. p \in Seq(X) /\ Len(p) = m - 1 /\ \A i \in 1..(m - 1) : p[i] = w[i]
  BY <1>1, <1>2
<1>9. q = Append(p, t)
  OBVIOUS
<1> HIDE DEF p
<1>4. /\ q \in Seq(X) /\ Len(q) = m - 1 + 1 /\ q[m - 1 + 1] = t
      /\ \A i \in 1..(m - 1) : q[i] = p[i]
  BY <1>2, <1>3, <1>9
<1>5. Len(q) = m /\ q[m] = t
  BY <1>2, <1>4
<1>6. DOMAIN q = 1..m
  BY <1>4, <1>5
<1>7. ASSUME m = n, t = w[m]
      PROVE  q = w
  <2>1. \A i \in 1..m : i \in 1..(m - 1) \/ i = m
    BY <1>2
  <2>2. \A i \in 1..m : q[i] = w[i]
    BY <1>3, <1>4, <1>5, <1>7, <2>1
  <2>3. DOMAIN w = 1..m
    BY <1>1, <1>7
  <2>4. q = [i \in 1..m |-> q[i]] /\ w = [i \in 1..m |-> w[i]]
    BY <1>4, <1>6, <2>3
  <2>5. QED
    BY <2>2, <2>4
<1>8. QED
  BY <1>1, <1>3, <1>4, <1>5, <1>6, <1>7

\* A beginning of the file that is a valid contract is the whole file: the rule
\* requires its own firing, which is the last check, and is its only consumer.
LEMMA ValidBeginningIsWhole ==
  ASSUME NEW v, NEW k, NEW D, NEW alertName, NEW x,
         ConsumersStand(v, D), NormalChecks(k, D, alertName), OneServiceEach(D),
         \A c \in ToSet(v) : c.name \in DOMAIN ReadBack,
         ConsumersOf(Of(D, AlertMustFire)) = {x},
         NEW f \in Beginnings([consumers |-> v, checks |-> WrittenChecks(k)]),
         Validate(Loaded(f))
  PROVE  f = [consumers |-> v, checks |-> WrittenChecks(k)]
<1> DEFINE w == WrittenChecks(k)
           full == [consumers |-> v, checks |-> w]
<1>1. full.consumers = v /\ full.checks = w
  OBVIOUS
<1>2. /\ k \in Seq(CheckRecord) /\ Len(k) = 4 /\ DOMAIN k = 1..4
      /\ \A i \in 1..4 : k[i] \in CheckRecord /\ k[i].id = Canon[i]
      /\ ToSet(k[4].consumers) = {x}
  <2>1. k \in Seq(CheckRecord) /\ Len(k) = 4
    BY DEF NormalChecks
  <2>2. /\ DOMAIN k = 1..4
        /\ \A i \in 1..4 : /\ k[i].id = Canon[i]
                           /\ ToSet(k[i].consumers) = ConsumersOf(Of(D, Canon[i]))
    BY NormalChecksAre
  <2>3. \A i \in DOMAIN k : k[i] \in CheckRecord
    BY <2>1, NoNilList
  <2>4. ToSet(k[4].consumers) = {x}
    BY <2>2, CanonIs
  <2>5. QED
    BY <2>1, <2>2, <2>3, <2>4
<1>3. Stated(w, D, alertName)
  BY WrittenAreStated DEF WrittenChecks
<1>4. /\ w \in [1..4 -> CheckRecord] /\ DOMAIN w = 1..4
      /\ \A i \in 1..4 : /\ w[i] \in CheckRecord /\ w[i].id = Canon[i]
                         /\ w[i].consumers = k[i].consumers
  <2>1. w \in [1..4 -> CheckRecord]
    BY <1>3 DEF Stated
  <2>2. \A i \in 1..4 : w[i] = WrittenCheck(k[i])
    BY <1>2 DEF WrittenChecks
  <2>3. \A i \in 1..4 : w[i].id = Canon[i] /\ w[i].consumers = k[i].consumers
    BY <1>2, <2>2, WrittenFields
  <2>4. QED
    BY <2>1, <2>3
<1>5. w \in Seq(CheckRecord) /\ Len(w) = 4
  <2> HIDE DEF w
  <2>1. 4 \in Nat
    OBVIOUS
  <2>2. w \in [1..4 -> CheckRecord]
    BY <1>4
  <2>3. QED
    BY ONLY <2>1, <2>2, ListOf, Zenon
<1>6. Len(k[4].consumers) = 1 /\ k[4].consumers \in Seq(Positive)
  <2>1. IsNormal(k[4], Canon[4], Of(D, Canon[4]), alertName)
    BY DEF NormalChecks
  <2>2. Lists(k[4].consumers, {x})
    BY <2>1, CanonIs DEF IsNormal, Ordered
  <2>3. Cardinality({x}) = 1
    BY FS_Singleton
  <2>4. Len(k[4].consumers) = 1
    BY <2>2, <2>3, ListLength
  <2>5. k[4] \in CheckRecord
    BY <1>2
  <2>6. QED
    BY <2>4, <2>5 DEF CheckRecord
<1> HIDE DEF w
<1> DEFINE sv == SortedConsumers(Renamed(v))
<1> DEFINE part(m, j) == Append(SubSeq(w, 1, m - 1), Cut(w[m], j))
<1>7. \/ f \in {[consumers |-> SubSeq(v, 1, n), checks |-> << >>] : n \in 0..Len(v)}
      \/ \E m \in 1..4 : \E j \in 0..Len(w[m].consumers) :
           f = [consumers |-> v, checks |-> part(m, j)]
  <2> HIDE DEF full
  <2>1. f \in Beginnings(full)
    BY DEF full, w
  <2>2. QED
    BY <1>1, <1>4, <2>1 DEF Beginnings
<1>8. CASE f \in {[consumers |-> SubSeq(v, 1, n), checks |-> << >>] : n \in 0..Len(v)}
  <2>1. PICK n : f = [consumers |-> SubSeq(v, 1, n), checks |-> << >>]
    BY <1>8
  <2> DEFINE s == SortedConsumers(Renamed(SubSeq(v, 1, n)))
  <2>2. Loaded(f) = [consumers |-> s, checks |-> << >>]
    BY <2>1, LoadedAre, NoChecksSorted
  <2> HIDE DEF s
  <2>3. Loaded(f).checks = << >>
    BY <2>2
  <2>4. QED
    BY <2>3 DEF Validate
<1>9. CASE \E m \in 1..4 : \E j \in 0..Len(w[m].consumers) :
            f = [consumers |-> v, checks |-> part(m, j)]
  <2>0. PICK m \in 1..4 : \E j \in 0..Len(w[m].consumers) :
          f = [consumers |-> v, checks |-> part(m, j)]
    BY <1>9
  <2>1. PICK j \in 0..Len(w[m].consumers) :
          f = [consumers |-> v, checks |-> part(m, j)]
    BY <2>0
  <2> DEFINE cut == SubSeq(w[m].consumers, 1, j)
             t == Cut(w[m], j)
             q == part(m, j)
  <2>2. f = [consumers |-> v, checks |-> q] /\ q = Append(SubSeq(w, 1, m - 1), t)
    BY <2>1
  <2>3. w[m] \in CheckRecord /\ w[m].consumers \in Seq(Positive)
    <3>1. w[m] \in CheckRecord
      BY <1>4
    <3>2. QED
      BY <3>1 DEF CheckRecord
  <2>4. /\ cut \in Seq(Positive)
        /\ j = 0 => cut = << >>
        /\ j = Len(w[m].consumers) => cut = w[m].consumers
    <3> DEFINE s == w[m].consumers
    <3>1. s \in Seq(Positive) /\ Len(s) \in Nat /\ j \in 0..Len(s)
      BY <2>3
    <3> HIDE DEF s
    <3>2. /\ SubSeq(s, 1, j) \in Seq(Positive)
          /\ j = 0 => SubSeq(s, 1, j) = << >>
          /\ j = Len(s) => SubSeq(s, 1, j) = s
      BY ONLY <3>1
    <3>3. QED
      BY <3>2 DEF s
  <2> HIDE DEF cut
  <2>5. t \in CheckRecord /\ t.id = Canon[m] /\ t.consumers = cut
        /\ (cut = w[m].consumers => t = w[m])
    <3>1. w[m].id = Canon[m]
      BY <1>4
    <3>2. t = [w[m] EXCEPT !.consumers = cut]
      BY DEF Cut, cut
    <3>3. QED
      BY <2>3, <2>4, <3>1, <3>2 DEF CheckRecord
  <2> HIDE DEF t, q
  <2>6. /\ q \in Seq(CheckRecord) /\ Len(q) = m /\ DOMAIN q = 1..m /\ q[m] = t
        /\ \A i \in 1..(m - 1) : q[i] = w[i]
        /\ m = Len(w) /\ t = w[m] => q = w
    <3>1. m \in 1..Len(w)
      BY <1>5
    <3>2. w \in Seq(CheckRecord) /\ t \in CheckRecord
      BY <1>5, <2>5
    <3>3. q = Append(SubSeq(w, 1, m - 1), t)
      BY <2>2
    <3>4. QED
      BY ONLY <3>1, <3>2, <3>3, CutList, SMTT(30)
  <2>7. \A i \in 1..m : q[i] \in CheckRecord /\ q[i].id = Canon[i]
    <3>1. \A i \in 1..m : i \in 1..(m - 1) \/ i = m
      OBVIOUS
    <3>2. \A i \in 1..(m - 1) : i \in 1..4
      OBVIOUS
    <3>3. QED
      BY <1>4, <2>5, <2>6, <3>1, <3>2
  <2>8. ToSet(SortedChecks(q)) = {NormalCheck(q[i]) : i \in 1..m}
    <3>1. \A i \in 1..m : i \in 1..4
      OBVIOUS
    <3>2. \A i \in 1..m : NormalCheck(q[i]).id = q[i].id /\ q[i].id \in RequirementIds
      BY <2>7, <3>1, NormalCheckFields, CanonIs
    <3>3. \A i1, i2 \in 1..4 : Canon[i1] = Canon[i2] => i1 = i2
      BY DEF Canon, CartValue, ErrorType, Operation, AlertMustFire
    <3>4. \A i1, i2 \in 1..m : q[i1].id = q[i2].id => i1 = i2
      BY <2>7, <3>1, <3>3
    <3>5. m \in Nat
      OBVIOUS
    <3>6. QED
      BY <2>6, <3>2, <3>4, <3>5, SomeChecksSorted
  <2> DEFINE sc == SortedChecks(q)
  <2>9. Loaded(f) = [consumers |-> sv, checks |-> sc]
    BY <2>2, LoadedAre
  <2>10. sv = Renamed(v) /\ ConsumersStand(sv, D)
    BY RenamedStand
  <2> HIDE DEF sv, sc
  <2>11. Loaded(f).consumers = sv /\ Loaded(f).checks = sc
    BY <2>9
  <2>12. PICK c \in ToSet(sv) : \E ref \in ToSet(c.requires) : ref.id = AlertMustFire
    <3>1. PICK d \in D : d.id = AlertMustFire
      BY DEF ConsumersOf, Of
    <3>2. <<d.consumer, d.id, d.path>> \in Asks(sv)
      BY <2>10 DEF ConsumersStand
    <3>3. PICK c \in ToSet(sv) :
            <<d.consumer, d.id, d.path>> \in
              {<<c.id, ref.id, ref.path>> : ref \in ToSet(c.requires)}
      BY <3>2 DEF Asks
    <3>4. PICK ref \in ToSet(c.requires) :
            <<d.consumer, d.id, d.path>> = <<c.id, ref.id, ref.path>>
      BY <3>3
    <3>5. ref.id = AlertMustFire
      BY <3>1, <3>4
    <3>6. QED
      BY <3>5
  <2>13. AlertMustFire \in IdsOf(sc)
    <3>1. AlertMustFire \in IdsOf(c.requires)
      <4>1. PICK ref \in ToSet(c.requires) : ref.id = AlertMustFire
        BY <2>12
      <4>2. QED
        BY <4>1 DEF IdsOf, ToSet
    <3>2. QED
      BY <2>11, <3>1 DEF Validate
  <2>14. PICK i \in 1..m : NormalCheck(q[i]).id = AlertMustFire
    <3>1. PICK check \in ToSet(sc) : check.id = AlertMustFire
      BY <2>13 DEF IdsOf, ToSet
    <3>2. QED
      BY <2>8, <3>1 DEF sc
  <2>15. m = 4
    <3>1. Canon[i] = AlertMustFire
      BY <2>7, <2>14, NormalCheckFields
    <3>2. i \in 1..4
      OBVIOUS
    <3>3. i = 4
      BY <3>1, <3>2 DEF Canon, CartValue, ErrorType, Operation, AlertMustFire
    <3>4. QED
      BY <3>3
  <2>16. j # 0
    <3>1. NormalCheck(t) \in ToSet(sc)
      BY <2>6, <2>8 DEF sc
    <3>2. NormalCheck(t).consumers # << >>
      BY <2>11, <3>1 DEF Validate
    <3>3. t.consumers # << >>
      BY <2>5, <3>2, NormalCheckFields
    <3>4. QED
      BY <2>4, <2>5, <3>3
  <2>17. j = Len(w[m].consumers)
    <3>1. w[m].consumers = k[4].consumers
      BY <1>4, <2>15
    <3>2. j \in 0..1
      BY <1>6, <3>1
    <3>3. \A n \in 0..1 : n # 0 => n = 1
      OBVIOUS
    <3>4. j = 1
      BY <2>16, <3>2, <3>3
    <3>5. QED
      BY <1>6, <3>1, <3>4
  <2>18. q = w
    BY <1>5, <2>4, <2>5, <2>6, <2>15, <2>17
  <2>19. QED
    BY <2>2, <2>18 DEF w
<1>10. QED
  BY <1>7, <1>8, <1>9

----------------------------------------------------------------------------
\* What `guardian verify' gets.

Filed == {"written", "loaded", "rejected", "accepted", "refused"}

\* The file is the mined contract or the beginning of it, and the answers are
\* those about this file.
FileInv ==
  /\ IF pc \in Filed
     THEN file \in {Written(contract)} \cup Beginnings(Written(contract))
     ELSE file = Empty
  /\ whole => pc \in Filed /\ file = Written(contract)
  /\ pc \in {"loaded", "accepted", "refused"} => Validate(Loaded(file))
  /\ pc = "rejected" => ~Validate(Loaded(file))
  /\ pc = "accepted" => ValidateChecks(Service, Loaded(file).checks)
  /\ pc = "refused" => ~ValidateChecks(Service, Loaded(file).checks)

LEMMA FileAtInit == Init => FileInv
BY DEF Init, FileInv, Filed

LEMMA FileStep == FileInv /\ [Next]_vars => FileInv'
<1> SUFFICES ASSUME FileInv, [Next]_vars PROVE FileInv'
  OBVIOUS
<1>1. CASE GetDashboard \/ GetAlert \/ ReadWidget \/ ReadAlert \/ Assemble
  <2>1. /\ pc \notin Filed /\ UNCHANGED <<file, whole>>
        /\ pc' \in {"getAlert", "panels", "collected", "failed", "write", "invalid"}
    BY <1>1 DEF GetDashboard, GetAlert, ReadWidget, ReadAlert, Assemble, Add,
                PanelsRead, Filed
  <2>2. QED
    BY <2>1 DEF FileInv, Filed
<1>2. CASE ResourceFails \/ RefuseWidget \/ RefuseAlert \/ OperationMissing
  <2>1. pc \notin Filed /\ UNCHANGED <<file, whole>> /\ pc' = "failed"
    BY <1>2 DEF ResourceFails, RefuseWidget, RefuseAlert, OperationMissing, Fail,
                PanelsRead, Filed
  <2>2. QED
    BY <2>1 DEF FileInv, Filed
<1>3. CASE WriteFile
  BY <1>3 DEF WriteFile, FileInv, Filed
<1>4. CASE WriteBreaks
  BY <1>4 DEF WriteBreaks, FileInv, Filed
<1>5. CASE Load
  BY <1>5 DEF Load, FileInv, Filed
<1>6. CASE CheckCanonical
  BY <1>6 DEF CheckCanonical, FileInv, Filed
<1>7. CASE UNCHANGED vars
  BY <1>7 DEF FileInv, vars
<1>8. QED
  BY <1>1, <1>2, <1>3, <1>4, <1>5, <1>6, <1>7 DEF Next, Stopped

FileMinedInv == MinedInv /\ ContractInv /\ FileInv

LEMMA FileHolds == Spec => []FileMinedInv
<1>1. Spec => []FileInv
  BY FileAtInit, FileStep, PTL DEF Spec
<1>2. QED
  BY <1>1, ContractHolds, PTL DEF FileMinedInv

\* The contract that was filed.
LEMMA FiledIs ==
  ASSUME FileMinedInv, pc \in Filed
  PROVE  /\ ReadInv /\ CollectInv /\ pc \in Past
         /\ OneServiceEach(Demands)
         /\ contract = [consumers |-> contract.consumers,
                        checks |-> contract.checks]
         /\ contract.consumers = SortedConsumers(consumers)
         /\ ConsumersStand(contract.consumers, Demands)
         /\ \A c \in ToSet(contract.consumers) : c.name \in DOMAIN ReadBack
         /\ NormalChecks(contract.checks, Demands, alert.identity)
         /\ Written(contract) = [consumers |-> contract.consumers,
                                 checks |-> WrittenChecks(contract.checks)]
         /\ SortedChecks(WrittenChecks(contract.checks)) = contract.checks
<1>1. pc \in Past /\ pc \in Past \ {"collected"}
  BY DEF Filed, Past
<1>2. ReadInv /\ CollectInv
  BY DEF FileMinedInv, MinedInv
<1> DEFINE v == SortedConsumers(consumers)
           k == contract.checks
<1>3. /\ contract = [consumers |-> v, checks |-> k]
      /\ NormalChecks(k, Demands, alert.identity)
  BY <1>1 DEF FileMinedInv, ContractInv
<1>4. /\ ConsumersStand(v, Demands)
      /\ \A c \in ToSet(v) : c.name \in DOMAIN ReadBack
  BY <1>1, <1>2, ConsumersDoStand
<1>5. OneServiceEach(Demands)
  BY <1>1, <1>2, FiltersByService
<1> HIDE DEF v, k
<1>6. /\ Written(contract) = [consumers |-> v, checks |-> WrittenChecks(k)]
      /\ SortedChecks(WrittenChecks(k)) = k
  <2>1. NormalConsumers(v)
    BY <1>4 DEF ConsumersStand
  <2>2. QED
    BY <1>3, <1>5, <2>1, NormalStays
<1>7. contract.consumers = v
  BY <1>3
<1>8. QED
  BY <1>1, <1>2, <1>3, <1>4, <1>5, <1>6, <1>7 DEF v, k

\* The types of the documents.

LEMMA BeginningsTyped ==
  ASSUME NEW full \in Documents, NEW f \in Beginnings(full)
  PROVE  f \in Documents
<1> DEFINE v == full.consumers
           k == full.checks
<1>1. v \in Seq(ConsumerRecord) /\ k \in Seq(CheckRecord)
  BY DEF Documents
<1>2. ASSUME NEW n \in 0..Len(v),
             f = [consumers |-> SubSeq(v, 1, n), checks |-> << >>]
      PROVE  f \in Documents
  <2>1. SubSeq(v, 1, n) \in Seq(ConsumerRecord)
    BY <1>1, <1>2
  <2>2. << >> \in Seq(CheckRecord)
    OBVIOUS
  <2>3. QED
    BY <1>2, <2>1, <2>2 DEF Documents
<1>3. ASSUME NEW n \in DOMAIN k, NEW m \in 0..Len(k[n].consumers),
             f = [consumers |-> v,
                  checks |-> Append(SubSeq(k, 1, n - 1), Cut(k[n], m))]
      PROVE  f \in Documents
  <2>1. n \in 1..Len(k) /\ k[n] \in CheckRecord
    BY <1>1
  <2>2. Cut(k[n], m) \in CheckRecord
    <3> DEFINE c == k[n]
               s == SubSeq(c.consumers, 1, m)
    <3>1. c \in CheckRecord /\ c.consumers \in Seq(Positive)
      BY <2>1 DEF CheckRecord
    <3>2. m \in 0..Len(c.consumers)
      OBVIOUS
    <3> HIDE DEF c
    <3>3. s \in Seq(Positive)
      BY <3>1, <3>2
    <3>4. Cut(c, m) = [c EXCEPT !.consumers = s]
      BY DEF Cut
    <3> HIDE DEF s
    <3>5. Cut(c, m) \in CheckRecord
      BY <3>1, <3>3, <3>4 DEF CheckRecord
    <3>6. QED
      BY <3>5 DEF c
  <2> DEFINE last == Cut(k[n], m)
             before == SubSeq(k, 1, n - 1)
  <2>3. before \in Seq(CheckRecord)
    BY <1>1, <2>1
  <2> HIDE DEF last, before
  <2>4. Append(before, last) \in Seq(CheckRecord)
    BY <2>2, <2>3 DEF last
  <2>5. QED
    BY <1>1, <1>3, <2>4 DEF Documents, last, before
<1>4. QED
  BY <1>2, <1>3 DEF Beginnings

LEMMA ContractTyped ==
  ASSUME FileMinedInv, pc \in Past \ {"collected"}
  PROVE  contract \in Documents /\ Written(contract) \in Documents
<1> DEFINE v == SortedConsumers(consumers)
           k == contract.checks
<1>1. /\ ReadInv /\ CollectInv /\ contract = [consumers |-> v, checks |-> k]
      /\ NormalChecks(k, Demands, alert.identity)
  BY DEF FileMinedInv, MinedInv, ContractInv
<1>2. /\ ConsumersStand(v, Demands)
      /\ \A c \in ToSet(v) : c.name \in DOMAIN ReadBack
  BY <1>1, ConsumersDoStand
<1>3. OneServiceEach(Demands)
  BY <1>1, FiltersByService
<1> HIDE DEF v, k
<1>4. v \in Seq(ConsumerRecord)
  <2>1. v \in Seq(Someone)
    BY <1>2 DEF ConsumersStand, NormalConsumers
  <2>2. \A i \in 1..Len(v) : v[i] \in Someone /\ v[i] \in ToSet(v)
    BY <2>1 DEF ToSet
  <2>3. \A i \in 1..Len(v) : v[i] \in ConsumerRecord
    BY <1>2, <2>2 DEF Someone, ConsumerRecord
  <2>4. QED
    BY <2>1, <2>3
<1>5. k \in Seq(CheckRecord) /\ Len(k) = 4
  BY <1>1 DEF NormalChecks
<1>6. WrittenChecks(k) \in Seq(CheckRecord)
  <2>1. Stated(WrittenChecks(k), Demands, alert.identity)
    BY <1>1, WrittenAreStated DEF WrittenChecks
  <2>2. WrittenChecks(k) \in [1..4 -> CheckRecord]
    BY <2>1 DEF Stated
  <2>3. 4 \in Nat
    OBVIOUS
  <2>4. QED
    BY ONLY <2>2, <2>3, ListOf, Zenon
<1>7. Written(contract) = [consumers |-> v, checks |-> WrittenChecks(k)]
  BY <1>1, <1>2, <1>3, NormalStays DEF ConsumersStand
<1>8. QED
  BY <1>1, <1>4, <1>5, <1>6, <1>7 DEF Documents

\* What is collected, written and read is made of records that a contract has:
\* every consumer and reference has an identity, every name is one that a file
\* can hold, no requirement lists an empty filter, and the beginning of a file
\* is a document as well.
THEOREM TypeCorrect == Spec => []TypeOK
<1>1. FileMinedInv => TypeOK
  <2> SUFFICES ASSUME FileMinedInv PROVE TypeOK
    OBVIOUS
  <2>1. /\ ReadType /\ consumers \in Seq(ConsumerRecord) /\ Typed(requirements)
    BY DEF FileMinedInv, MinedInv, ReadInv, CollectInv
  <2>2. /\ DOMAIN requirements \subseteq RequirementIds
        /\ \A id \in DOMAIN requirements : requirements[id] \in CheckRecord
    BY <2>1 DEF Typed, Known
  <2>3. Empty \in Documents
    <3>1. << >> \in Seq(ConsumerRecord) /\ << >> \in Seq(CheckRecord)
      OBVIOUS
    <3>2. QED
      BY <3>1 DEF Empty, Documents
  <2>4. contract \in Documents
    <3>1. CASE pc \in Past \ {"collected"}
      BY <3>1, ContractTyped
    <3>2. CASE pc \notin Past \ {"collected"}
      BY <2>3, <3>2 DEF FileMinedInv, ContractInv
    <3>3. QED
      BY <3>1, <3>2
  <2>5. file \in Documents
    <3>1. CASE pc \in Filed
      <4>1. Written(contract) \in Documents
        BY <3>1, ContractTyped DEF Filed, Past
      <4>2. file \in {Written(contract)} \cup Beginnings(Written(contract))
        BY <3>1 DEF FileMinedInv, FileInv
      <4>3. QED
        BY <4>1, <4>2, BeginningsTyped
    <3>2. CASE pc \notin Filed
      BY <2>3, <3>2 DEF FileMinedInv, FileInv
    <3>3. QED
      BY <3>1, <3>2
  <2>6. QED
    BY <2>1, <2>2, <2>4, <2>5 DEF TypeOK, ReadType, States, Past, Typed
<1>2. QED
  BY <1>1, FileHolds, PTL

\* The rule alone asks for its own firing.
LEMMA OnlyTheRuleFires ==
  ASSUME ReadInv, pc \in Past
  PROVE  ConsumersOf(Of(Demands, AlertMustFire)) = {AlertConsumer}
<1>1. FireDemand \in Demands /\ FireDemand.id = AlertMustFire
      /\ FireDemand.consumer = AlertConsumer
  <2>1. FireDemand \in Demands
    BY DEF Demands, FireDemand
  <2>2. QED
    BY <2>1, DemandFields
<1>2. ASSUME NEW d \in Demands, d.id = AlertMustFire
      PROVE  d.consumer = AlertConsumer
  <2>1. \/ \E w \in DOMAIN dashboard : d = SumDemand(w)
        \/ \E w \in DOMAIN dashboard : d = TextDemand(w)
        \/ d = CountDemand \/ d = FireDemand \/ d = RuleTextDemand
    BY DemandKinds
  <2>2. d = FireDemand
    BY <1>2, <2>1, DemandFields, IdsDiffer
  <2>3. QED
    BY <1>1, <2>2
<1>3. QED
  BY <1>1, <1>2 DEF ConsumersOf, Of

\* A file that is loaded gives the requirements that were mined.
LEMMA ValidFileIsWhole ==
  ASSUME FileMinedInv, pc \in Filed, Validate(Loaded(file))
  PROVE  file = Written(contract)
<1> DEFINE v == contract.consumers
           k == contract.checks
<1>1. /\ ReadInv /\ CollectInv /\ pc \in Past
      /\ OneServiceEach(Demands) /\ ConsumersStand(v, Demands)
      /\ \A c \in ToSet(v) : c.name \in DOMAIN ReadBack
      /\ NormalChecks(k, Demands, alert.identity)
      /\ Written(contract) = [consumers |-> v, checks |-> WrittenChecks(k)]
  BY FiledIs
<1>2. file \in {Written(contract)} \cup Beginnings(Written(contract))
  BY DEF FileMinedInv, FileInv
<1>3. ConsumersOf(Of(Demands, AlertMustFire)) = {AlertConsumer}
  BY <1>1, OnlyTheRuleFires
<1> HIDE DEF v, k
<1>4. CASE file \in Beginnings(Written(contract))
  <2>1. file \in Beginnings([consumers |-> v, checks |-> WrittenChecks(k)])
    BY <1>1, <1>4
  <2>2. file = [consumers |-> v, checks |-> WrittenChecks(k)]
    BY <1>1, <1>3, <2>1, ValidBeginningIsWhole
  <2>3. QED
    BY <1>1, <2>2
<1>5. QED
  BY <1>2, <1>4

LEMMA LoadedIs ==
  ASSUME FileMinedInv, pc \in Filed, file = Written(contract)
  PROVE  Loaded(file) = [consumers |-> Renamed(contract.consumers),
                         checks |-> contract.checks]
<1> DEFINE v == contract.consumers
           k == contract.checks
<1>1. /\ ConsumersStand(v, Demands)
      /\ \A c \in ToSet(v) : c.name \in DOMAIN ReadBack
      /\ Written(contract) = [consumers |-> v, checks |-> WrittenChecks(k)]
      /\ SortedChecks(WrittenChecks(k)) = k
  BY FiledIs
<1>2. SortedConsumers(Renamed(v)) = Renamed(v)
  BY <1>1, RenamedStand
<1> HIDE DEF v, k
<1>3. Loaded(file) = [consumers |-> Renamed(v), checks |-> k]
  BY <1>1, <1>2, LoadedAre
<1>4. QED
  BY <1>3 DEF v, k

----------------------------------------------------------------------------
\* The verifier's own check.

LEMMA ListOfNone ==
  ASSUME NEW u, Lists(u, {})
  PROVE  u = << >>
<1>1. u \in Seq({}) /\ ToSet(u) = {}
  BY ListSet DEF Lists
<1>2. QED
  BY <1>1, NoNilList

LEMMA ListOfOne ==
  ASSUME NEW u, NEW S, Lists(u, S), NEW f
  PROVE  u = <<f>> <=> S = {f}
<1>1. u \in Seq(S) /\ Len(u) \in Nat /\ ToSet(u) = S /\ DOMAIN u = 1..Len(u)
  BY ListSet DEF Lists
<1>2. ASSUME u = <<f>> PROVE S = {f}
  <2>1. DOMAIN <<f>> = {1} /\ <<f>>[1] = f
    OBVIOUS
  <2>2. ToSet(<<f>>) = {f}
    BY <2>1 DEF ToSet
  <2>3. QED
    BY <1>1, <1>2, <2>2
<1>3. ASSUME S = {f} PROVE u = <<f>>
  <2>1. Cardinality({f}) = 1
    BY FS_Singleton
  <2>2. Len(u) = 1
    BY <1>3, <2>1, ListLength
  <2>3. \A i \in DOMAIN u : u[i] = f
    BY <1>1, <1>3 DEF ToSet
  <2>4. DOMAIN u = {1}
    BY <1>1, <2>2
  <2>5. u \in Seq({f})
    BY <1>1, <1>3
  <2>6. QED
    BY <2>2, <2>3, <2>4, <2>5
<1>4. QED
  BY <1>2, <1>3

LEMMA FilterIs ==
  ASSUME NEW f \in Filters, NEW service, NEW error
  PROVE  f = [service |-> service, error |-> error]
           <=> f.service = service /\ f.error = error
<1>1. f = [service |-> f.service, error |-> f.error]
  BY DEF Filters
<1>2. ASSUME f = [service |-> service, error |-> error]
      PROVE  f.service = service /\ f.error = error
  BY <1>2
<1>3. ASSUME f.service = service, f.error = error
      PROVE  f = [service |-> service, error |-> error]
  BY <1>1, <1>3
<1>4. QED
  BY <1>2, <1>3

LEMMA CanonicalIsAboutService ==
  ASSUME ReadInv, pc \in Past, NEW k, NormalChecks(k, Demands, alert.identity)
  PROVE  ValidateChecks(Service, k) <=>
           /\ \A w \in DOMAIN dashboard :
                FilterOf(dashboard[w])["service.name"] = Service
           /\ FilterOfRule(alert)["service.name"] = Service
           /\ alert.identity = PaymentTimeout
<1>1. /\ k \in Seq(CheckRecord) /\ Len(k) = 4 /\ DOMAIN k = 1..4
      /\ IdsOf(k) = RequirementIds
      /\ \A i \in 1..4 : k[i].id = Canon[i]
  <2>1. k \in Seq(CheckRecord) /\ Len(k) = 4
    BY DEF NormalChecks
  <2>2. QED
    BY <2>1, NormalChecksAre
<1>2. ASSUME NEW i \in 1..4
      PROVE  /\ Lists(FiltersOf(k[i]), AskedBy(Of(Demands, Canon[i])))
             /\ k[i].alert = (IF Canon[i] = AlertMustFire THEN alert.identity ELSE 0)
  <2>1. IsNormal(k[i], Canon[i], Of(Demands, Canon[i]), alert.identity)
    BY DEF NormalChecks
  <2>2. /\ k[i] \in CheckRecord
        /\ Gathers(k[i], Canon[i], Of(Demands, Canon[i]), alert.identity)
    BY <2>1, NormalGathers
  <2>3. Lists(FiltersOf(k[i]), AskedBy(Of(Demands, Canon[i])))
    BY <2>2, FiltersList
  <2>4. QED
    BY <2>1, <2>3 DEF IsNormal
<1> DEFINE sum == [service |-> Service, error |-> FALSE]
           count == [service |-> Service, error |-> TRUE]
<1>3. /\ Lists(FiltersOf(k[1]),
               {ScopedFilter(FilterOf(dashboard[w])) : w \in DOMAIN dashboard})
      /\ Lists(FiltersOf(k[2]), {ScopedFilter(FilterOfRule(alert))})
      /\ Lists(FiltersOf(k[3]), {}) /\ Lists(FiltersOf(k[4]), {})
      /\ k[4].alert = alert.identity
  <2>1. 1 \in 1..4 /\ 2 \in 1..4 /\ 3 \in 1..4 /\ 4 \in 1..4
    OBVIOUS
  <2>2. QED
    BY <1>2, <2>1, CanonIs, FiltersAsked
<1>4. /\ \A w \in DOMAIN dashboard :
           ScopedFilter(FilterOf(dashboard[w])) = sum
             <=> FilterOf(dashboard[w])["service.name"] = Service
      /\ ScopedFilter(FilterOfRule(alert)) = count
           <=> FilterOfRule(alert)["service.name"] = Service
  <2>1. ASSUME NEW f \in Filters
        PROVE  /\ f.error = FALSE => (f = sum <=> f.service = Service)
               /\ f.error = TRUE => (f = count <=> f.service = Service)
    <3>1. /\ f = [service |-> Service, error |-> FALSE] <=>
                f.service = Service /\ f.error = FALSE
          /\ f = [service |-> Service, error |-> TRUE] <=>
                f.service = Service /\ f.error = TRUE
      BY FilterIs
    <3> HIDE DEF sum, count
    <3>2. /\ f = sum <=> f.service = Service /\ f.error = FALSE
          /\ f = count <=> f.service = Service /\ f.error = TRUE
      BY <3>1 DEF sum, count
    <3>3. QED
      BY <3>2, Zenon
  <2> HIDE DEF sum, count
  <2>2. ASSUME NEW w \in DOMAIN dashboard
        PROVE  ScopedFilter(FilterOf(dashboard[w])) = sum
                 <=> FilterOf(dashboard[w])["service.name"] = Service
    <3> DEFINE f == ScopedFilter(FilterOf(dashboard[w]))
    <3>1. /\ f \in Filters /\ f.error = FALSE
          /\ f.service = FilterOf(dashboard[w])["service.name"]
      BY FiltersAsked
    <3> HIDE DEF f
    <3>2. f = sum <=> f.service = Service
      BY <2>1, <3>1
    <3>3. QED
      BY <3>1, <3>2 DEF f
  <2>3. ScopedFilter(FilterOfRule(alert)) = count
          <=> FilterOfRule(alert)["service.name"] = Service
    <3> DEFINE f == ScopedFilter(FilterOfRule(alert))
    <3>1. /\ f \in Filters /\ f.error = TRUE
          /\ f.service = FilterOfRule(alert)["service.name"]
      BY FiltersAsked
    <3> HIDE DEF f
    <3>2. f = count <=> f.service = Service
      BY <2>1, <3>1
    <3>3. QED
      BY <3>1, <3>2 DEF f
  <2>4. QED
    BY <2>2, <2>3
<1>5. FiltersOf(k[1]) = <<sum>> <=>
        \A w \in DOMAIN dashboard :
          FilterOf(dashboard[w])["service.name"] = Service
  <2> DEFINE S == {ScopedFilter(FilterOf(dashboard[w])) : w \in DOMAIN dashboard}
  <2>1. FiltersOf(k[1]) = <<sum>> <=> S = {sum}
    BY <1>3, ListOfOne
  <2>2. DOMAIN dashboard # {}
    <3>1. dashboard \in Seq(Widgets) /\ ValidDashboard(dashboard)
      BY DEF ReadInv, ReadType, Past
    <3>2. dashboard # << >>
      BY <3>1 DEF ValidDashboard
    <3>3. ToSet(dashboard) # {}
      BY <3>1, <3>2, NoNilList
    <3>4. QED
      BY <3>3 DEF ToSet
  <2>3. S = {sum} <=>
          \A w \in DOMAIN dashboard : ScopedFilter(FilterOf(dashboard[w])) = sum
    <3> HIDE DEF sum
    <3>1. QED
      BY <2>2
  <2>4. (\A w \in DOMAIN dashboard : ScopedFilter(FilterOf(dashboard[w])) = sum)
          <=> \A w \in DOMAIN dashboard :
                FilterOf(dashboard[w])["service.name"] = Service
    <3> HIDE DEF sum
    <3>1. QED
      BY <1>4, Zenon
  <2> HIDE DEF S, sum
  <2>5. QED
    BY <2>1, <2>3, <2>4
<1>6. FiltersOf(k[2]) = <<count>> <=> FilterOfRule(alert)["service.name"] = Service
  <2> DEFINE f == ScopedFilter(FilterOfRule(alert))
  <2>0. Lists(FiltersOf(k[2]), {f})
    BY <1>3
  <2> HIDE DEF f, count
  <2>1. FiltersOf(k[2]) = <<count>> <=> {f} = {count}
    BY ONLY <2>0, ListOfOne
  <2>2. {f} = {count} <=> f = count
    OBVIOUS
  <2>3. QED
    BY <1>4, <2>1, <2>2 DEF f
<1>7. FiltersOf(k[3]) = << >> /\ FiltersOf(k[4]) = << >>
  BY <1>3, ListOfNone
<1> HIDE DEF sum, count
<1>8. /\ k[1].id = CartValue /\ k[2].id = ErrorType
      /\ k[3].id = Operation /\ k[4].id = AlertMustFire
      /\ ToSet(k) = {k[1], k[2], k[3], k[4]}
  <2>1. 1 \in 1..4 /\ 2 \in 1..4 /\ 3 \in 1..4 /\ 4 \in 1..4
    OBVIOUS
  <2>2. \A i \in 1..4 : i = 1 \/ i = 2 \/ i = 3 \/ i = 4
    OBVIOUS
  <2>3. ToSet(k) = {k[1], k[2], k[3], k[4]}
    BY <1>1, <2>1, <2>2 DEF ToSet
  <2>4. QED
    BY <1>1, <2>1, <2>3, CanonIs
<1> DEFINE fits(check) ==
      CASE check.id = CartValue -> FiltersOf(check) = <<sum>>
        [] check.id = ErrorType -> FiltersOf(check) = <<count>>
        [] check.id = Operation -> FiltersOf(check) = << >>
        [] check.id = AlertMustFire ->
             FiltersOf(check) = << >> /\ check.alert = PaymentTimeout
<1>9. ValidateChecks(Service, k) <=> \A check \in ToSet(k) : fits(check)
  BY <1>1 DEF ValidateChecks, CanonicalFilter, sum, count
<1>10. /\ fits(k[1]) <=> FiltersOf(k[1]) = <<sum>>
       /\ fits(k[2]) <=> FiltersOf(k[2]) = <<count>>
       /\ fits(k[3]) <=> FiltersOf(k[3]) = << >>
       /\ fits(k[4]) <=> FiltersOf(k[4]) = << >> /\ k[4].alert = PaymentTimeout
  BY <1>8, IdsDiffer
<1> HIDE DEF fits
<1>11. QED
  BY <1>3, <1>5, <1>6, <1>7, <1>8, <1>9, <1>10

\* The verifier, which parses the filters again, takes exactly the contracts that
\* were mined from panels and a rule about this service and from the payment
\* timeout alert, whatever became of the file on the way.
THEOREM VerifiedContracts == Spec => []VerifiedIsAboutService
<1>1. FileMinedInv => VerifiedIsAboutService
  <2> SUFFICES ASSUME FileMinedInv, pc \in {"accepted", "refused"}
               PROVE  VerifiedIsAboutService
    BY DEF VerifiedIsAboutService
  <2>1. pc \in Filed /\ Validate(Loaded(file))
    BY DEF Filed, FileMinedInv, FileInv
  <2>2. file = Written(contract)
    BY <2>1, ValidFileIsWhole
  <2>3. Loaded(file).checks = contract.checks
    <3> DEFINE v == Renamed(contract.consumers)
               k == contract.checks
    <3>1. Loaded(file) = [consumers |-> v, checks |-> k]
      BY <2>1, <2>2, LoadedIs
    <3> HIDE DEF v, k
    <3>2. Loaded(file).checks = k
      BY <3>1
    <3>3. QED
      BY <3>2 DEF k
  <2>4. /\ ReadInv /\ pc \in Past
        /\ NormalChecks(contract.checks, Demands, alert.identity)
    BY <2>1, FiledIs
  <2>5. pc = "accepted" <=> ValidateChecks(Service, contract.checks)
    BY <2>3 DEF FileMinedInv, FileInv
  <2>6. QED
    BY <2>4, <2>5, CanonicalIsAboutService DEF VerifiedIsAboutService
<1>2. QED
  BY <1>1, FileHolds, PTL

----------------------------------------------------------------------------
\* The names in the file.

\* The titles of the panels and the names of the rules.
NamesAreKept ==
  \A named \in Widgets \cup Rules :
    named.name # "" => ReadBack[named.name] = named.name

LEMMA NamesStay ==
  ASSUME NamesAreKept, ReadInv, CollectInv, pc \in Past
  PROVE  \A c \in ToSet(SortedConsumers(consumers)) : ReadBack[c.name] = c.name
<1>1. /\ consumers \in Seq(ConsumerRecord) /\ DistinctIds(consumers)
      /\ next \in Nat /\ next > 1 /\ Len(consumers) = next
      /\ DOMAIN consumers = 1..next
      /\ \A w \in 1..next : /\ consumers[w] \in ConsumerRecord
                            /\ Requiring(consumers[w], Asker(w), AskedOf(w))
  BY Askers
<1>2. pc # "failed" /\ Collected
  <2>1. pc # "failed"
    BY DEF Past
  <2>2. QED
    BY <2>1 DEF CollectInv
<1>3. ASSUME NEW w \in 1..next
      PROVE  ReadBack[consumers[w].name] = consumers[w].name
  <2>1. CASE w = next
    <3>1. consumers[w].name = alert.name
      BY <1>2, <2>1 DEF Collected, RuleConsumer
    <3>2. alert \in Rules /\ alert.name # ""
      BY <1>2 DEF ReadInv
    <3>3. QED
      BY <3>1, <3>2 DEF NamesAreKept
  <2>2. CASE w # next
    <3>1. w \in 1..(next - 1)
      BY <1>1, <2>2
    <3>2. consumers[w].name = dashboard[w].name
      <4>1. consumers[w] = PanelConsumer(w)
        BY <1>2, <3>1 DEF Collected
      <4>2. PanelConsumer(w).name = dashboard[w].name
        BY DEF PanelConsumer
      <4>3. QED
        BY <4>1, <4>2
    <3>3. dashboard[w] \in Widgets /\ dashboard[w].name # ""
      <4>1. dashboard \in Seq(Widgets) /\ ValidDashboard(dashboard)
        BY <1>2 DEF ReadInv, ReadType, Past
      <4>2. w \in 1..Len(dashboard)
        BY <1>2, <3>1, PanelsAreReadable
      <4>3. DOMAIN dashboard = 1..Len(dashboard)
            /\ \A i \in DOMAIN dashboard : dashboard[i] \in Widgets
        BY <4>1, NoNilList
      <4>4. dashboard[w] \in ToSet(dashboard)
        BY <4>2, <4>3 DEF ToSet
      <4>5. QED
        BY <4>1, <4>2, <4>3, <4>4 DEF ValidDashboard
    <3>4. QED
      BY <3>2, <3>3 DEF NamesAreKept
  <2>3. QED
    BY <2>1, <2>2
<1>4. ConsumerRecord \subseteq Someone
  BY DEF ConsumerRecord, Someone, NameKinds
<1>5. consumers \in Seq(Someone)
  BY <1>1, <1>4
<1>6. \A w \in 1..next : DistinctIds(consumers[w].requires)
  BY <1>1, RequiringIs
<1>7. ToSet(SortedConsumers(consumers))
        = {NormalConsumer(consumers[w]) : w \in 1..next}
  BY <1>1, <1>5, <1>6, ConsumersSorted
<1>8. \A w \in 1..next : NormalConsumer(consumers[w]).name = consumers[w].name
  BY <1>1, <1>4, <1>6, NormalConsumerIs
<1>9. QED
  BY <1>3, <1>7, <1>8

\* Where the names survive the file, a file that was written to its end is
\* accepted, and whatever file `guardian verify' gets to see and accepts is the
\* mined contract, broken writes included.
THEOREM LoadedContracts ==
  ASSUME NamesAreKept
  PROVE  Spec => []LoadedIsMined
<1>1. FileMinedInv => LoadedIsMined
  <2> SUFFICES ASSUME FileMinedInv PROVE LoadedIsMined
    OBVIOUS
  <2>1. ASSUME pc \in Filed, file = Written(contract)
        PROVE  Loaded(file) = contract /\ Validate(contract)
    <3> DEFINE v == contract.consumers
               k == contract.checks
    <3>1. /\ ReadInv /\ CollectInv /\ pc \in Past
          /\ contract = [consumers |-> v, checks |-> k]
          /\ v = SortedConsumers(consumers) /\ ConsumersStand(v, Demands)
          /\ \A c \in ToSet(v) : c.name \in DOMAIN ReadBack
          /\ NormalChecks(k, Demands, alert.identity)
      BY <2>1, FiledIs
    <3>2. Loaded(file) = [consumers |-> Renamed(v), checks |-> k]
      BY <2>1, LoadedIs
    <3>3. \A c \in ToSet(v) : ReadBack[c.name] = c.name
      BY <3>1, NamesStay
    <3>4. v \in Seq(Someone)
      BY <3>1 DEF ConsumersStand, NormalConsumers
    <3> HIDE DEF v, k
    <3>5. Renamed(v) = v
      BY <3>3, <3>4, RenamedSame
    <3>6. \A c \in ToSet(v) : c.name # ""
      BY <3>1 DEF ReadBack
    <3>7. Validate(contract)
      BY <3>1, <3>6, StandingIsValid
    <3>8. QED
      BY <3>1, <3>2, <3>5, <3>7
  <2>2. whole => pc # "rejected"
    <3> SUFFICES ASSUME whole, pc = "rejected" PROVE FALSE
      OBVIOUS
    <3>1. pc \in Filed /\ file = Written(contract) /\ ~Validate(Loaded(file))
      BY DEF FileMinedInv, FileInv
    <3>2. QED
      BY <2>1, <3>1
  <2>3. pc = "loaded" => Loaded(file) = contract
    <3> SUFFICES ASSUME pc = "loaded" PROVE Loaded(file) = contract
      OBVIOUS
    <3>1. pc \in Filed /\ Validate(Loaded(file))
      BY DEF Filed, FileMinedInv, FileInv
    <3>2. QED
      BY <2>1, <3>1, ValidFileIsWhole
  <2>4. QED
    BY <2>2, <2>3 DEF LoadedIsMined
<1>2. QED
  BY <1>1, FileHolds, PTL

=============================================================================
