------------------------------ MODULE ScopeProofs ------------------------------
(***************************************************************************)
(* Proofs about Scope, for texts of any length over any alphabet.          *)
(***************************************************************************)
EXTENDS Scope, SequenceTheorems, TLAPS

\* A text is its first sections and its last one.
LEMMA WithoutLast ==
  ASSUME NEW S, NEW t \in Seq(S), NEW s \in S
  PROVE  /\ SubSeq(Append(t, s), 1, Len(Append(t, s)) - 1) = t
         /\ LastSection(Append(t, s)) = s
         /\ Len(Append(t, s)) = Len(t) + 1
  BY DEF LastSection

\* All sections of a text are the text.
LEMMA AllSections ==
  ASSUME NEW S, NEW t \in Seq(S)
  PROVE  SubSeq(t, 1, Len(t)) = t
  OBVIOUS

\* One section and another are enough for a namespace.
LEMMA TwoSections == \A n \in Nat \ {0} : ~(n + 1 < SectionsNeeded)
  BY DEF SectionsNeeded

\* The scope of a namespaced source names its cluster and its namespace, for
\* every name of a cluster: ParseScope undoes String.
THEOREM NamespacedRoundTrip ==
  ASSUME NEW Section, NEW cluster \in Seq(Section), cluster # <<>>,
         cluster # EmptyText, NEW ns \in Section, ns # ""
  PROVE  ParseScope(String(Scoped(cluster, ns)), TRUE) = Scoped(cluster, ns)
<1> DEFINE t == Append(cluster, ns)
<1>1. String(Scoped(cluster, ns)) = t
  BY DEF String, Scoped
<1>2. Len(t) = Len(cluster) + 1
  BY WithoutLast
<1>3. SubSeq(t, 1, Len(t) - 1) = cluster /\ LastSection(t) = ns
  BY WithoutLast
<1> HIDE DEF t
<1>4. Len(cluster) \in Nat \ {0}
  BY EmptySeq
<1>5. ~(Len(t) < SectionsNeeded)
  BY <1>2, <1>4, TwoSections
<1>6. ParseScope(t, TRUE) = Scoped(cluster, ns)
  BY <1>3, <1>5 DEF ParseScope
<1> QED
  BY <1>1, <1>6

\* The scope of a source of the whole cluster is the cluster's name.
THEOREM ClusterRoundTrip ==
  ASSUME NEW Section, NEW cluster \in Seq(Section), cluster # <<>>,
         cluster # EmptyText
  PROVE  ParseScope(String(Scoped(cluster, "")), FALSE) = Scoped(cluster, "")
<1>1. String(Scoped(cluster, "")) = cluster
  BY DEF String, Scoped
<1> QED
  BY <1>1, AllSections DEF ParseScope, EmptyText

===============================================================================
