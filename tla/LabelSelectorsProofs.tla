------------------------- MODULE LabelSelectorsProofs -------------------------
(***************************************************************************)
(* Proofs about LabelSelectors, for any keys and values and for selectors  *)
(* of any size: that the order in which the conditions of a selector were  *)
(* written does not matter to what it selects.                             *)
(***************************************************************************)
EXTENDS LabelSelectors, FiniteSetTheorems, TLAPS

\* A sequence that has each element of a finite set once has them all.
LEMMA OrderHasAll ==
  ASSUME NEW S, IsFiniteSet(S), NEW t \in SetToSeqs(S)
  PROVE  Range(t) = S
<1> DEFINE n == Cardinality(S)
<1>1. n \in Nat
  BY FS_CardinalityType
<1>2. t \in [1 .. n -> S] /\ \A i, j \in 1 .. n : i # j => t[i] # t[j]
  BY DEF SetToSeqs
<1>3. IsFiniteSet(1 .. n) /\ Cardinality(1 .. n) = n
  BY <1>1, FS_Interval
<1> HIDE DEF n
<1>4. t \in Injection(1 .. n, S)
  BY <1>2 DEF Injection, IsInjective
<1>5. t \in Surjection(1 .. n, S)
  BY <1>3, <1>4, FS_Injection DEF n
<1> QED
  BY <1>2, <1>5 DEF Surjection, Range

\* The conditions of a selector are finitely many.
LEMMA FiniteConditions ==
  ASSUME NEW f, IsFiniteSet(DOMAIN f)
  PROVE  IsFiniteSet({<<k, f[k]>> : k \in DOMAIN f})
<1> DEFINE S == {<<k, f[k]>> : k \in DOMAIN f}
           g == [k \in DOMAIN f |-> <<k, f[k]>>]
<1>1. g \in Surjection(DOMAIN f, S)
  BY DEF Surjection
<1> QED
  BY <1>1, FS_Surjection

\* In whatever order the conditions of a selector are written, meeting them is
\* having all that the selector requires.
LEMMA AnyOrderMeets ==
  ASSUME NEW f, IsFiniteSet(DOMAIN f), NEW t \in Strings(f), NEW given
  PROVE  Meets(t, given) <=> HasAll(f, given)
<1>1. Range(t) = {<<k, f[k]>> : k \in DOMAIN f}
  BY FiniteConditions, OrderHasAll DEF Strings
<1>2. Meets(t, given) <=>
        \A k \in DOMAIN f : <<k, f[k]>>[1] \in DOMAIN given
                              /\ given[<<k, f[k]>>[1]] = <<k, f[k]>>[2]
  BY <1>1, Zenon DEF Meets
<1>3. \A k, v : <<k, v>>[1] = k /\ <<k, v>>[2] = v
  OBVIOUS
<1> QED
  BY <1>2, <1>3, Zenon DEF HasAll

\* The options of a list that a query becomes.
LEMMA OptionsOfQuery ==
  /\ \A t : LET options == QueryToListOptions([NoOptions EXCEPT !.labelSelector = t])
            IN  options.labelSelector = t /\ options.fieldSelector = <<>>
  /\ \A t : LET options == QueryToListOptions([NoOptions EXCEPT !.fieldSelector = t])
            IN  options.fieldSelector = t /\ options.labelSelector = <<>>
  BY DEF QueryToListOptions, NoOptions

\* No condition is met by all.
LEMMA NoCondition == \A given : Meets(<<>>, given)
  BY DEF Meets, Range

\* Following a query made from a selector finds all that the selector selects, also
\* when the selector has expressions, which are left out of the query.
THEOREM LabelsFindAll ==
  ASSUME NEW s, IsFiniteSet(DOMAIN s.matchLabels),
         NEW options \in LabelSelectorToQuery(s), NEW objects
  PROVE  {o \in objects : Matches(s, o.labels)}
           \subseteq Listed(QueryToListOptions(options), objects)
<1>1. PICK t \in Strings(s.matchLabels) : options = [NoOptions EXCEPT !.labelSelector = t]
  BY DEF LabelSelectorToQuery
<1>2. /\ QueryToListOptions(options).labelSelector = t
      /\ QueryToListOptions(options).fieldSelector = <<>>
  BY <1>1, OptionsOfQuery
<1>3. \A o : Matches(s, o.labels) => Meets(t, o.labels)
  BY AnyOrderMeets DEF Matches
<1> QED
  BY <1>2, <1>3, NoCondition DEF Listed

\* Following a query made from a selector that only lists labels finds exactly what
\* the selector selects, whichever order its conditions were written in.
THEOREM LabelsSelect ==
  ASSUME NEW s, IsFiniteSet(DOMAIN s.matchLabels), s.matchExpressions = {},
         NEW options \in LabelSelectorToQuery(s), NEW objects
  PROVE  Listed(QueryToListOptions(options), objects)
           = {o \in objects : Matches(s, o.labels)}
<1>1. PICK t \in Strings(s.matchLabels) : options = [NoOptions EXCEPT !.labelSelector = t]
  BY DEF LabelSelectorToQuery
<1>2. /\ QueryToListOptions(options).labelSelector = t
      /\ QueryToListOptions(options).fieldSelector = <<>>
  BY <1>1, OptionsOfQuery
<1>3. \A o : Matches(s, o.labels) <=> Meets(t, o.labels)
  BY AnyOrderMeets DEF Matches
<1> QED
  BY <1>2, <1>3, NoCondition DEF Listed

\* Following a query for the name of an object finds the objects of a namespace
\* that have the name and no others.
THEOREM FieldsSelect ==
  ASSUME NEW name, NEW ns, NEW options \in FieldSelectorToQuery(Fields(name, ns))
  PROVE  Listed(QueryToListOptions(options), Objects(ns))
           = {o \in Objects(ns) : o.fields = Fields(name, ns)}
<1>1. PICK t \in Strings(Fields(name, ns)) : options = [NoOptions EXCEPT !.fieldSelector = t]
  BY DEF FieldSelectorToQuery
<1>2. /\ QueryToListOptions(options).fieldSelector = t
      /\ QueryToListOptions(options).labelSelector = <<>>
  BY <1>1, OptionsOfQuery
<1>3. DOMAIN Fields(name, ns) = {"metadata.name", "metadata.namespace"}
        /\ IsFiniteSet(DOMAIN Fields(name, ns))
  <2>1. DOMAIN Fields(name, ns) = {"metadata.name"} \cup {"metadata.namespace"}
    BY DEF Fields
  <2>2. IsFiniteSet({"metadata.name"}) /\ IsFiniteSet({"metadata.namespace"})
    BY FS_Singleton
  <2> QED
    BY <2>1, <2>2, FS_Union
<1>4. \A given : Meets(t, given) <=> HasAll(Fields(name, ns), given)
  BY <1>3, AnyOrderMeets
<1>5. \A n : HasAll(Fields(name, ns), Fields(n, ns)) <=> Fields(n, ns) = Fields(name, ns)
  BY DEF HasAll, Fields
<1>6. \A o \in Objects(ns) : \E n \in Name : o.fields = Fields(n, ns)
  BY DEF Objects
<1> QED
  BY <1>2, <1>4, <1>5, <1>6, NoCondition DEF Listed

===============================================================================
