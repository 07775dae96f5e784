--------------------------------- MODULE Scope ---------------------------------
(***************************************************************************)
(* Scopes (sources/shared_util.go): "{clusterName}.{namespace}" for what   *)
(* lives in a namespace and "{clusterName}" for the rest.  A text is       *)
(* represented by the sequence of its sections between dots, so that the   *)
(* empty text is <<"">> and a cluster name may have several sections.  The *)
(* name of a namespace has one: Kubernetes allows it no dot.               *)
(***************************************************************************)
EXTENDS Sequences, Integers

IsText(t) == t # <<>>
EmptyText == <<"">>

Scoped(cluster, ns) == [ClusterName |-> cluster, Namespace |-> ns]
NoScope == Scoped(EmptyText, "")

\* Faulty variants for the mutants.
FirstSection(sections) == Head(sections)
OneSection == 1

\* ScopeDetails.String
String(sd) ==
  IF sd.Namespace = "" THEN sd.ClusterName
                       ELSE Append(sd.ClusterName, sd.Namespace)

LastSection(sections) == sections[Len(sections)]
SectionsNeeded == 2

\* ParseScope: what it returns, or NoScope for an error.
ParseScope(sections, namespaced) ==
  LET clusterEnd == IF namespaced THEN Len(sections) - 1 ELSE Len(sections)
      cluster    == SubSeq(sections, 1, clusterEnd)
  IN  IF \/ namespaced /\ Len(sections) < SectionsNeeded
         \/ cluster = EmptyText
      THEN NoScope
      ELSE Scoped(cluster, IF namespaced THEN LastSection(sections) ELSE "")

Parses(sections, namespaced) == ParseScope(sections, namespaced) # NoScope

===============================================================================
