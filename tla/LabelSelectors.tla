---------------------------- MODULE LabelSelectors ----------------------------
(***************************************************************************)
(* Selectors as SEARCH queries (sources/shared_util.go).  The selector of  *)
(* a resource becomes the text of a query when a link is made, and the     *)
(* text becomes the options of a list when the link is followed.  A        *)
(* selector in ListOptions is a sequence of conditions "key=value", in the *)
(* order in which the map happened to be traversed.                        *)
(*                                                                         *)
(* External: what Kubernetes takes a selector to mean (Matches), and which *)
(* objects it lists for given options (Listed).                            *)
(***************************************************************************)
EXTENDS Integers, Sequences, FiniteSets, SequencesExt

CONSTANTS
  Key, Value,  \* the keys and values of labels
  Name         \* the names of objects

\* A set of labels: at most one value for a key.
LabelSets == UNION {[keys -> Value] : keys \in {ks \in SUBSET Key : IsFiniteSet(ks)}}

Operators == {"In", "NotIn", "Exists", "DoesNotExist"}
Expressions ==
  {e \in [key : Key, op : Operators, values : SUBSET Value] :
     (e.op \in {"In", "NotIn"}) <=> e.values # {}}

Selectors ==
  [matchLabels : LabelSets,
   matchExpressions : {es \in SUBSET Expressions : Cardinality(es) <= 1}]

Holds(e, labels) ==
  LET has == e.key \in DOMAIN labels
  IN  CASE e.op = "In"           -> has /\ labels[e.key] \in e.values
        [] e.op = "NotIn"        -> has => labels[e.key] \notin e.values
        [] e.op = "Exists"       -> has
        [] e.op = "DoesNotExist" -> ~has

HasAll(required, given) ==
  \A k \in DOMAIN required : k \in DOMAIN given /\ given[k] = required[k]

Matches(s, labels) ==
  HasAll(s.matchLabels, labels) /\ \A e \in s.matchExpressions : Holds(e, labels)

\* The objects of a namespace, with their labels and fields.
Fields(name, ns) == [field \in {"metadata.name", "metadata.namespace"} |->
                       IF field = "metadata.name" THEN name ELSE ns]
Objects(ns) == [labels : LabelSets, fields : {Fields(name, ns) : name \in Name}]

Meets(conditions, given) ==
  \A c \in Range(conditions) : c[1] \in DOMAIN given /\ given[c[1]] = c[2]

Listed(options, objects) ==
  {o \in objects : /\ Meets(options.labelSelector, o.labels)
                   /\ Meets(options.fieldSelector, o.fields)}

-------------------------------------------------------------------------------
\* Selector.String: the conditions in any order.
Strings(selector) == SetToSeqs({<<k, selector[k]>> : k \in DOMAIN selector})

NoOptions == [labelSelector |-> <<>>, fieldSelector |-> <<>>, watch |-> FALSE]

\* Faulty variant for the mutants: the first condition only.
FirstCondition(s) ==
  {[NoOptions EXCEPT !.labelSelector = IF t = <<>> THEN t ELSE <<Head(t)>>] :
     t \in Strings(s.matchLabels)}

\* The queries that a selector may become.
LabelSelectorToQuery(s) ==
  {[NoOptions EXCEPT !.labelSelector = t] : t \in Strings(s.matchLabels)}
FieldSelectorToQuery(fields) ==
  {[NoOptions EXCEPT !.fieldSelector = t] : t \in Strings(fields)}

QueryToListOptions(query) == [query EXCEPT !.watch = FALSE]

===============================================================================
