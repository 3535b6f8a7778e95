------------------------------ MODULE Contract ------------------------------
(***************************************************************************)
(* The contract document (internal/contracts) and what the verifier asks   *)
(* of it (validateChecks, internal/verifier/verifier.go), as operators.    *)
(*                                                                         *)
(* Identifiers and JSON paths are numbers in the order in which the code   *)
(* sorts the strings, 0 the empty string.  The four requirement types have *)
(* one identifier each, so that the identifier stands for the definition   *)
(* (type, signal, field, operation, timeout).  A filter is what its terms  *)
(* say: which service, and whether error.type = 'payment_timeout' is asked *)
(* for, next to run.id = '__RUN_ID__'.  Names are kinds of YAML scalars.   *)
(***************************************************************************)
EXTENDS Naturals, Sequences, SequencesExt

AlertMustFire == 1
CartValue == 2
ErrorType == 3
Operation == 4
RequirementIds == 1..4

NoFilter == [service |-> 0, error |-> FALSE]

\* What a name is, read back from the file: yamlScalar quotes whatever is not
\* made of letters, digits and a few signs, blanks among them; the decoder takes
\* an unquoted null for no value and drops the blanks around a plain scalar.
ReadBack == [plain |-> "plain", quoted |-> "quoted", null |-> "",
             padded |-> "plain"]

\* The records of a document.  A reference, a path and a consumer are never
\* empty in what the miner writes, and a name is one that a file can hold.
Positive == Nat \ {0}
Filters == [service : Nat, error : BOOLEAN]
Refs == [id : RequirementIds, path : Positive]
ConsumerRecord ==
  [id : Positive, name : DOMAIN ReadBack, requires : Seq(Refs)]
CheckRecord ==
  [id : RequirementIds, path : Positive, paths : Seq(Positive),
   filter : Filters, filters : Seq(Filters), consumers : Seq(Positive),
   alert : Nat]
Documents == [consumers : Seq(ConsumerRecord), checks : Seq(CheckRecord)]

Unique(values) ==
  FoldLeft(LAMBDA kept, v : IF Contains(kept, v) THEN kept ELSE Append(kept, v),
           << >>, values)

Given(value, none) == IF value = none THEN << >> ELSE <<value>>
Paths(check) == Unique(Given(check.path, 0) \o check.paths)
FiltersOf(check) == Unique(Given(check.filter, NoFilter) \o check.filters)

----------------------------------------------------------------------------
\* Normalize.

\* sort.Slice, by a key of each position.
Sort(values, key) ==
  LET order == CHOOSE o \in SetToSeqs(DOMAIN values) :
                 \A i, j \in DOMAIN values : i < j => key[o[i]] <= key[o[j]]
  IN [i \in DOMAIN values |-> values[order[i]]]

Ascending(values) == Sort(values, values)
ById(records) == Sort(records, [i \in DOMAIN records |-> records[i].id])
CheckRank == [id \in RequirementIds |->
  CASE id = CartValue -> 10 [] id = ErrorType -> 20
    [] id = Operation -> 30 [] id = AlertMustFire -> 40]

NormalCheck(check) ==
  LET paths == Ascending(Paths(check))
      unsorted == FiltersOf(check)
      filters == Sort(unsorted, [i \in DOMAIN unsorted |-> unsorted[i].service])
  IN [check EXCEPT
        !.path = IF paths = << >> THEN @ ELSE Head(paths),
        !.paths = paths,
        !.filter = IF Len(filters) = 1 THEN Head(filters) ELSE NoFilter,
        !.filters = filters,
        !.consumers = Ascending(@)]

\* Mutant: the checks stay in the order in which they were collected.
NormalizeUnranked(c) ==
  [consumers |-> ById([i \in DOMAIN c.consumers |->
                         [c.consumers[i] EXCEPT !.requires = ById(@)]]),
   checks |-> [i \in DOMAIN c.checks |-> NormalCheck(c.checks[i])]]

Normalize(c) ==
  [consumers |-> ById([i \in DOMAIN c.consumers |->
                         [c.consumers[i] EXCEPT !.requires = ById(@)]]),
   checks |-> Sort([i \in DOMAIN c.checks |-> NormalCheck(c.checks[i])],
                   [i \in DOMAIN c.checks |-> CheckRank[c.checks[i].id]])]

----------------------------------------------------------------------------
\* Validate.

IdsOf(records) == {records[i].id : i \in DOMAIN records}
DistinctIds(records) ==
  \A i, j \in DOMAIN records : records[i].id = records[j].id => i = j

\* Mutant: a reference to a requirement without a check is not noticed.
ValidateOneWay(c) ==
  /\ c.consumers # << >> /\ c.checks # << >>
  /\ DistinctIds(c.consumers) /\ DistinctIds(c.checks)
  /\ \A consumer \in ToSet(c.consumers) :
       consumer.name # "" /\ consumer.requires # << >>
  /\ \A check \in ToSet(c.checks) :
       /\ check.consumers # << >>
       /\ ToSet(check.consumers) \subseteq IdsOf(c.consumers)

Validate(c) ==
  /\ c.consumers # << >> /\ c.checks # << >>
  /\ DistinctIds(c.consumers) /\ DistinctIds(c.checks)
  /\ \A consumer \in ToSet(c.consumers) :
       /\ consumer.id # 0 /\ consumer.name # ""
       /\ consumer.requires # << >> /\ DistinctIds(consumer.requires)
       /\ \A ref \in ToSet(consumer.requires) : ref.id # 0 /\ ref.path # 0
       /\ IdsOf(consumer.requires) \subseteq IdsOf(c.checks)
  /\ \A check \in ToSet(c.checks) :
       /\ Paths(check) # << >> /\ 0 \notin ToSet(Paths(check))
       /\ check.consumers # << >>
       /\ ToSet(check.consumers) \subseteq IdsOf(c.consumers)
       /\ NoFilter \notin ToSet(FiltersOf(check))

----------------------------------------------------------------------------
\* MarshalYAML and LoadYAML.

\* What the file says of a normal check: the list of paths only when there are
\* several, one filter or the list of filters.
WrittenCheck(check) ==
  LET filters == FiltersOf(check)
  IN [check EXCEPT
        !.paths = IF Len(@) > 1 THEN @ ELSE << >>,
        !.filter = IF Len(filters) = 1 THEN Head(filters) ELSE NoFilter,
        !.filters = IF Len(filters) > 1 THEN filters ELSE << >>]

Written(c) ==
  LET n == Normalize(c)
  IN [n EXCEPT !.checks = [i \in DOMAIN @ |-> WrittenCheck(@[i])]]

Renamed(consumers) ==
  [i \in DOMAIN consumers |-> [consumers[i] EXCEPT !.name = ReadBack[@]]]

\* LoadYAML accepts a file when the normalised document is valid.
Loaded(file) == Normalize([file EXCEPT !.consumers = Renamed(@)])

----------------------------------------------------------------------------
\* What `guardian verify` insists on before it asks SigNoz anything.

\* Mutant: a filter is enough, whatever it says.
CanonicalFilterAny(check, wanted) == FiltersOf(check) # << >>

CanonicalFilter(check, wanted) == FiltersOf(check) = <<wanted>>

\* The alert of the requirement, by its logical identity.
PaymentTimeout == 1

ValidateChecks(service, checks) ==
  /\ Len(checks) = 4 /\ IdsOf(checks) = RequirementIds
  /\ \A check \in ToSet(checks) :
       CASE check.id = CartValue ->
              CanonicalFilter(check, [service |-> service, error |-> FALSE])
         [] check.id = ErrorType ->
              CanonicalFilter(check, [service |-> service, error |-> TRUE])
         [] check.id = Operation -> FiltersOf(check) = << >>
         [] check.id = AlertMustFire ->
              FiltersOf(check) = << >> /\ check.alert = PaymentTimeout

=============================================================================
