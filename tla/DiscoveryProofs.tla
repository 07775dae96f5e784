---------------------------- MODULE DiscoveryProofs ----------------------------
(***************************************************************************)
(* Proofs about Discovery: how a source reads the scope of a request, for  *)
(* texts of any length, and where links lead, for every name of a cluster  *)
(* and any namespaces.                                                     *)
(***************************************************************************)
EXTENDS Discovery, ScopeProofs, LabelSelectorsProofs

\* A request is made with one of the texts.
Asks == Requested => query.scope \in Texts

LEMMA RequestAsks == Request => query'.scope \in Texts
<1> SUFFICES ASSUME NEW s \in LoadAllSources, NEW text \in Texts,
                    query' = Get(s.type, text, "")
             PROVE  query'.scope \in Texts
  BY DEF Request
<1> QED
  BY DEF Get, Link

LEMMA AsksAlways == Spec => []Asks
<1> USE DEF Asks, Requested
<1>1. Init => Asks
  BY DEF Init
<1>2. Asks /\ [Next]_vars => Asks'
  <2> SUFFICES ASSUME Asks, [Next]_vars, Requested'
               PROVE  query'.scope \in Texts
    OBVIOUS
  <2>1. CASE Request
    BY <2>1, RequestAsks
  <2>2. CASE Answer
    BY <2>2 DEF Answer
  <2>3. CASE Choose
    BY <2>3 DEF Choose
  <2>4. CASE Follow
    BY <2>4 DEF Follow, Done
  <2>5. CASE Discard
    BY <2>5 DEF Discard, Done
  <2>6. CASE UNCHANGED vars
    BY <2>6 DEF vars
  <2> QED
    BY <2>1, <2>2, <2>3, <2>4, <2>5, <2>6 DEF Next
<1> QED
  BY <1>1, <1>2, PTL DEF Spec

\* A source finds the namespace and the cluster of each scope that it offers,
\* whatever dots the name of the cluster contains.
THEOREM ScopesAreReadBack == Spec => []RoundTrip
<1>1. Asks => RoundTrip
  <2> SUFFICES ASSUME Asks, Requested, query.scope # EmptyText
               PROVE  /\ ParseScope(String(Scoped(query.scope, "")), FALSE)
                           = Scoped(query.scope, "")
                      /\ \A ns \in Namespaces :
                           ParseScope(String(Scoped(query.scope, ns)), TRUE)
                             = Scoped(query.scope, ns)
    BY DEF RoundTrip
  <2>1. query.scope \in Seq(STRING) /\ query.scope # <<>>
    BY DiscoveryAssumption DEF Asks
  <2>2. \A ns \in Namespaces : ns \in STRING /\ ns # ""
    BY LinksAssumption
  <2> QED
    BY <2>1, <2>2, ClusterRoundTrip, NamespacedRoundTrip
<1> QED
  BY <1>1, AsksAlways, PTL

\* A text is all sections but the last one, and the last.
LEMMA Split ==
  ASSUME NEW S, NEW t \in Seq(S), t # <<>>
  PROVE  /\ Len(t) \in Nat \ {0}
         /\ LastSection(t) \in S
         /\ Append(SubSeq(t, 1, Len(t) - 1), LastSection(t)) = t
<1>1. Len(t) \in Nat \ {0}
  BY EmptySeq
<1>2. LastSection(t) \in S
  BY <1>1 DEF LastSection
<1>3. SubSeq(t, 1, Len(t) - 1) \in Seq(S) /\ Len(SubSeq(t, 1, Len(t) - 1)) = Len(t) - 1
  BY <1>1
<1> QED
  BY <1>1, <1>2, <1>3 DEF LastSection

\* What ParseScope does with a text.
LEMMA ParsedText ==
  ASSUME NEW t \in Seq(STRING), t # <<>>, NEW namespaced \in BOOLEAN
  PROVE  /\ Parses(t, namespaced) <=>
              IF namespaced THEN Len(t) > 1 /\ SubSeq(t, 1, Len(t) - 1) # EmptyText
                            ELSE t # EmptyText
         /\ Parses(t, namespaced) =>
              \/ String(ParseScope(t, namespaced)) = t
              \/ namespaced /\ Append(String(ParseScope(t, namespaced)), "") = t
<1>1. \A c, ns : c # EmptyText => Scoped(c, ns) # NoScope
  BY DEF NoScope, Scoped
<1>2. CASE ~namespaced
  <2>1. ParseScope(t, namespaced) = IF t = EmptyText THEN NoScope ELSE Scoped(t, "")
    BY <1>2, AllSections DEF ParseScope
  <2>2. String(Scoped(t, "")) = t
    BY DEF String, Scoped
  <2> QED
    BY <1>1, <1>2, <2>1, <2>2 DEF Parses
<1>3. CASE namespaced
  <2> DEFINE c == SubSeq(t, 1, Len(t) - 1)
             n == LastSection(t)
  <2>1. Len(t) \in Nat \ {0} /\ Append(c, n) = t
    BY Split
  <2>2. ParseScope(t, namespaced) =
          IF Len(t) < SectionsNeeded \/ c = EmptyText THEN NoScope ELSE Scoped(c, n)
    BY <1>3 DEF ParseScope
  <2>3. Len(t) < SectionsNeeded <=> ~(Len(t) > 1)
    BY <2>1 DEF SectionsNeeded
  <2>4. String(Scoped(c, n)) = IF n = "" THEN c ELSE t
    BY <2>1 DEF String, Scoped
  <2> HIDE DEF c, n
  <2>5. Parses(t, namespaced) <=> Len(t) > 1 /\ c # EmptyText
    BY <1>1, <2>2, <2>3 DEF Parses
  <2>6. Parses(t, namespaced) =>
              \/ String(ParseScope(t, namespaced)) = t
              \/ Append(String(ParseScope(t, namespaced)), "") = t
    BY <1>1, <2>1, <2>2, <2>3, <2>4, <2>5
  <2> QED
    BY <1>3, <2>5, <2>6 DEF c
<1> QED
  BY <1>2, <1>3

\* A source refuses exactly the texts that leave no name for the cluster, and what
\* it accepts is written back as it was but for a trailing dot.
THEOREM AcceptsAllItShould == Spec => []AcceptsExactly
<1>1. Asks => AcceptsExactly
  <2> SUFFICES ASSUME Asks, Requested
               PROVE  AcceptsExactly
    BY DEF AcceptsExactly
  <2>1. query.scope \in Seq(STRING) /\ query.scope # <<>>
    BY DiscoveryAssumption DEF Asks
  <2> QED
    BY <2>1, ParsedText DEF AcceptsExactly
<1> QED
  BY <1>1, AsksAlways, PTL

-------------------------------------------------------------------------------
(* Where links lead. *)

ClusterTypes ==
  {"ClusterRole", "ClusterRoleBinding", "Node", "PersistentVolume", "PriorityClass",
   "StorageClass", "VolumeAttachment"}
NamespacedTypes ==
  {"ConfigMap", "CronJob", "DaemonSet", "Deployment", "Endpoints", "EndpointSlice",
   "HorizontalPodAutoscaler", "Ingress", "Job", "LimitRange", "NetworkPolicy",
   "PersistentVolumeClaim", "PodDisruptionBudget", "Pod", "ReplicaSet",
   "ReplicationController", "ResourceQuota", "Role", "RoleBinding", "Secret",
   "Service", "ServiceAccount", "StatefulSet"}

\* The sources, by their types.
LEMMA SourcesAre ==
  LoadAllSources = {Namespaced(t) : t \in NamespacedTypes} \cup {ClusterWide(t) : t \in ClusterTypes}
  BY DEF LoadAllSources, NamespacedTypes, ClusterTypes,
        newClusterRoleSource, newClusterRoleBindingSource, newNodeSource,
        newPersistentVolumeSource, newPriorityClassSource, newStorageClassSource,
        newVolumeAttachmentSource, newConfigMapSource, newCronJobSource,
        newDaemonSetSource, newDeploymentSource, newEndpointsSource,
        newEndpointSliceSource, newHorizontalPodAutoscalerSource, newIngressSource,
        newJobSource, newLimitRangeSource, newNetworkPolicySource,
        newPersistentVolumeClaimSource, newPodDisruptionBudgetSource, newPodSource,
        newReplicaSetSource, newReplicationControllerSource, newResourceQuotaSource,
        newRoleSource, newRoleBindingSource, newSecretSource, newServiceSource,
        newServiceAccountSource, newStatefulSetSource

\* A type, and the namespace of an object of it.
Lives(t, ns) == \/ t \in NamespacedTypes /\ ns \in Namespaces
                \/ t \in ClusterTypes /\ ns = ""

\* The items, by their types.
LEMMA ItemsAre == \A i : i \in Items <=> \E t, ns : Lives(t, ns) /\ i = Item(t, ns)
<1>1. \A t : Namespaced(t).type = t /\ Homes(Namespaced(t)) = Namespaces
  BY DEF Namespaced, Homes
<1>2. \A t : ClusterWide(t).type = t /\ Homes(ClusterWide(t)) = {""}
  BY DEF ClusterWide, Homes
<1>3. \A i : i \in Items <=> \E s \in LoadAllSources : \E ns \in Homes(s) : i = Item(s.type, ns)
  BY DEF Items
<1>4. \A s : s \in LoadAllSources <=> \/ \E t \in NamespacedTypes : s = Namespaced(t)
                                      \/ \E t \in ClusterTypes : s = ClusterWide(t)
  BY SourcesAre
<1>5. ASSUME NEW i, i \in Items
      PROVE  \E t, ns : Lives(t, ns) /\ i = Item(t, ns)
  <2>1. PICK s \in LoadAllSources : \E ns \in Homes(s) : i = Item(s.type, ns)
    BY <1>3, <1>5
  <2>2. PICK ns \in Homes(s) : i = Item(s.type, ns)
    BY <2>1
  <2>3. CASE \E t \in NamespacedTypes : s = Namespaced(t)
    <3>1. PICK t \in NamespacedTypes : s = Namespaced(t)
      BY <2>3
    <3>2. s.type = t /\ ns \in Namespaces
      BY <3>1, <1>1
    <3> QED
      BY <2>2, <3>2 DEF Lives
  <2>4. CASE \E t \in ClusterTypes : s = ClusterWide(t)
    <3>1. PICK t \in ClusterTypes : s = ClusterWide(t)
      BY <2>4
    <3>2. s.type = t /\ ns = ""
      BY <3>1, <1>2
    <3> QED
      BY <2>2, <3>2 DEF Lives
  <2> QED
    BY <1>4, <2>3, <2>4
<1>6. ASSUME NEW t, NEW ns, Lives(t, ns)
      PROVE  Item(t, ns) \in Items
  <2>1. CASE t \in NamespacedTypes /\ ns \in Namespaces
    BY <2>1, <1>1, <1>3, <1>4
  <2>2. CASE t \in ClusterTypes /\ ns = ""
    BY <2>2, <1>2, <1>3, <1>4
  <2> QED
    BY <1>6, <2>1, <2>2 DEF Lives
<1> QED
  BY <1>5, <1>6

\* The scopes that the sources offer, and how an extractor reads them.
LEMMA OfferedScopes ==
  /\ ScopeOf("") = Cluster
  /\ \A m, n \in Namespaces \cup {""} : ScopeOf(m) = ScopeOf(n) => m = n
  /\ \A ns \in Namespaces : ParseScope(ScopeOf(ns), TRUE) = Scoped(Cluster, ns)
  /\ ParseScope(Cluster, FALSE) = Scoped(Cluster, "")
  /\ \A ns : String(Scoped(Cluster, ns)) = ScopeOf(ns)
<1>1. ScopeOf("") = Cluster /\ \A ns : ns # "" => ScopeOf(ns) = Append(Cluster, ns)
  BY DEF ScopeOf, String, Scoped
<1>2. Cluster \in Seq(STRING) /\ Cluster # <<>> /\ Cluster # EmptyText
  BY LinksAssumption DEF IsText
<1>3. \A ns \in Namespaces : ns \in STRING /\ ns # ""
  BY LinksAssumption
<1>4. \A ns \in Namespaces : ParseScope(ScopeOf(ns), TRUE) = Scoped(Cluster, ns)
  BY <1>2, <1>3, NamespacedRoundTrip DEF ScopeOf
<1>5. ParseScope(Cluster, FALSE) = Scoped(Cluster, "")
  BY <1>1, <1>2, ClusterRoundTrip DEF ScopeOf
<1>6. \A ns : Scoped(Cluster, ns).Namespace = ns
  BY DEF Scoped
<1>7. \A ns : ns \in STRING => Len(Append(Cluster, ns)) = Len(Cluster) + 1 /\ Append(Cluster, ns) # Cluster
  <2> SUFFICES ASSUME NEW ns \in STRING
               PROVE  Len(Append(Cluster, ns)) = Len(Cluster) + 1 /\ Append(Cluster, ns) # Cluster
    OBVIOUS
  <2>1. Len(Append(Cluster, ns)) = Len(Cluster) + 1
    BY <1>2, WithoutLast
  <2>2. Len(Cluster) + 1 # Len(Cluster)
    BY <1>2
  <2> DEFINE longer == Append(Cluster, ns)
  <2> HIDE DEF longer
  <2>3. Len(longer) = Len(Cluster) + 1
    BY <2>1 DEF longer
  <2>4. longer # Cluster
    BY <2>2, <2>3
  <2> QED
    BY <2>1, <2>4 DEF longer
<1>8. ASSUME NEW m \in Namespaces \cup {""}, NEW n \in Namespaces \cup {""}, ScopeOf(m) = ScopeOf(n)
      PROVE  m = n
  <2>1. CASE m = "" \/ n = ""
    BY <2>1, <1>1, <1>3, <1>7, <1>8
  <2>2. CASE m # "" /\ n # ""
    <3>1. m \in Namespaces /\ n \in Namespaces
      BY <2>2
    <3>2. Scoped(Cluster, m) = Scoped(Cluster, n)
      BY <3>1, <1>4, <1>8
    <3> QED
      BY <3>2 DEF Scoped
  <2> QED
    BY <2>1, <2>2
<1> QED
  BY <1>1, <1>4, <1>5, <1>8 DEF ScopeOf

\* The types that have a source, and the kinds of the cluster.
LEMMA TypesAre ==
  /\ SourceTypes = NamespacedTypes \cup ClusterTypes
  /\ ClusterKinds = ClusterTypes
  /\ NamespacedTypes \cap ClusterTypes = {}
<1>1. \A t : /\ Namespaced(t).type = t /\ Namespaced(t).namespaced = TRUE
             /\ ClusterWide(t).type = t /\ ClusterWide(t).namespaced = FALSE
  BY DEF Namespaced, ClusterWide
<1>2. \A s : s \in LoadAllSources <=> \/ \E t \in NamespacedTypes : s = Namespaced(t)
                                      \/ \E t \in ClusterTypes : s = ClusterWide(t)
  BY SourcesAre
<1>3. SourceTypes = NamespacedTypes \cup ClusterTypes
  <2>1. ASSUME NEW t \in SourceTypes
        PROVE  t \in NamespacedTypes \cup ClusterTypes
    <3>1. PICK s \in LoadAllSources : s.type = t
      BY <2>1, Zenon DEF SourceTypes
    <3> QED
      BY <1>1, <1>2, <3>1
  <2>2. ASSUME NEW t \in NamespacedTypes \cup ClusterTypes
        PROVE  t \in SourceTypes
    <3>1. PICK s \in LoadAllSources : s.type = t
      BY <1>1, <1>2, <2>2
    <3> QED
      BY <3>1, Zenon DEF SourceTypes
  <2> QED
    BY <2>1, <2>2
<1>4. ClusterKinds = ClusterTypes
  <2>1. ASSUME NEW t \in ClusterKinds
        PROVE  t \in ClusterTypes
    <3>1. PICK s \in LoadAllSources : s.type = t /\ ~s.namespaced
      BY <2>1, Zenon DEF ClusterKinds
    <3>2. \A u \in NamespacedTypes : s # Namespaced(u)
      BY <1>1, <3>1, Zenon
    <3>3. PICK u \in ClusterTypes : s = ClusterWide(u)
      BY <1>2, <3>1, <3>2, Zenon
    <3>4. u = t
      BY <1>1, <3>1, <3>3, Zenon
    <3> QED
      BY <3>4
  <2>2. ASSUME NEW t \in ClusterTypes
        PROVE  t \in ClusterKinds
    <3>1. ClusterWide(t) \in LoadAllSources
      BY <1>2, <2>2, Zenon
    <3>2. ClusterWide(t).type = t /\ ~ClusterWide(t).namespaced
      BY <1>1, Zenon
    <3> QED
      BY <3>1, <3>2, Zenon DEF ClusterKinds
  <2> QED
    BY <2>1, <2>2
<1>5. NamespacedTypes \cap ClusterTypes = {}
  BY DEF NamespacedTypes, ClusterTypes
<1> QED
  BY <1>3, <1>4, <1>5

\* What a link says.
LEMMA LinksSay ==
  \A type, method, scope, by, home :
    \A link : link = Link(type, method, scope, by, home) =>
      /\ link.type = type /\ link.method = method /\ link.scope = scope
      /\ link.by = by /\ link.home = home
  BY DEF Link

LEMMA GetsSay ==
  \A type, scope, home : /\ Get(type, scope, home).type = type
                         /\ Get(type, scope, home).scope = scope
                         /\ Get(type, scope, home).home = home
                         /\ Get(type, scope, home).method = "GET"
  BY DEF Get, Link

\* The scopes of links, and a link that names one and asks for something that its
\* method can find.
Scopes == {<<"*">>, <<"global">>} \cup {ScopeOf(ns) : ns \in Namespaces \cup {""}}
Asked(method, by) == method = "SEARCH" => by \in {"labels", "fields", "address"}
Sane(q) == q.scope \in Scopes /\ Asked(q.method, q.by)

LEMMA OwnScopes ==
  /\ \A ns \in Namespaces \cup {""} : ScopeOf(ns) \in Scopes
  /\ \A type, ns : Lives(type, ns) => ScopeOf(ns) \in Scopes
  BY DEF Lives, Scopes

\* How an extractor reads the scope of its item.
LEMMA ScopesRead ==
  \A ns \in Namespaces : /\ ParseScope(ScopeOf(ns), TRUE).ClusterName = ScopeOf("")
                         /\ ParseScope(ScopeOf(ns), TRUE).Namespace = ns
<1>1. \A ns : Scoped(Cluster, ns).ClusterName = Cluster /\ Scoped(Cluster, ns).Namespace = ns
  BY DEF Scoped
<1> QED
  BY <1>1, OfferedScopes

\* A link that names the scope of the object it is for, and one that names another.
Found(q) == Lives(q.type, q.home) /\ q.scope = ScopeOf(q.home)
Lost(q)  == \A m : Lives(q.type, m) => ScopeOf(m) # q.scope

LEMMA NamesOfItems == \A t, ns : Item(t, ns).type = t /\ Item(t, ns).ns = ns
  BY DEF Item

LEMMA FoundItems ==
  ASSUME NEW q
  PROVE  /\ Found(q) => Targets(q) = IF Answerable(q) THEN {Item(q.type, q.home)} ELSE {}
         /\ Lost(q) => Targets(q) = {}
<1>1. \A i : i \in Targets(q) <=>
               /\ Answerable(q)
               /\ \E ns : Lives(q.type, ns) /\ i = Item(q.type, ns) /\ ScopeOf(ns) = q.scope
  <2>1. \A i : i \in Targets(q) <=>
                 Answerable(q) /\ i \in Items /\ i.type = q.type /\ ScopeOf(i.ns) = q.scope
    BY DEF Targets
  <2> QED
    BY <2>1, ItemsAre, NamesOfItems
<1>2. \A t, ns : Lives(t, ns) => ns \in Namespaces \cup {""}
  BY DEF Lives
<1>3. ASSUME Found(q), Answerable(q)
      PROVE  Targets(q) = {Item(q.type, q.home)}
  <2>1. ASSUME NEW i \in Targets(q)
        PROVE  i = Item(q.type, q.home)
    <3>1. PICK ns : Lives(q.type, ns) /\ i = Item(q.type, ns) /\ ScopeOf(ns) = q.scope
      BY <1>1, <2>1
    <3>2. ns = q.home
      BY <1>2, <1>3, <3>1, OfferedScopes DEF Found
    <3> QED
      BY <3>1, <3>2
  <2>2. Item(q.type, q.home) \in Targets(q)
    BY <1>1, <1>3 DEF Found
  <2> QED
    BY <2>1, <2>2
<1>4. ~Answerable(q) \/ Lost(q) => Targets(q) = {}
  BY <1>1 DEF Lost
<1> QED
  BY <1>3, <1>4

\* Where a link of an object in a namespace leads: to what it is for, or nowhere,
\* and that only if it names the scope of its own object for one that lives
\* elsewhere.
Leads(ns, q) ==
  /\ Sane(q)
  /\ q.type \in SourceTypes =>
       Found(q) \/ (Lost(q) /\ q.home # ns /\ q.scope = ScopeOf(ns))

\* Links to what no source of the process has.
IsForeign(q) == q.type \notin SourceTypes /\ Sane(q)

LEMMA ForeignLeads ==
  ASSUME NEW ns, NEW q, IsForeign(q)
  PROVE  Leads(ns, q)
  BY DEF IsForeign, Leads

LEMMA ForeignLinks ==
  /\ IsForeign(Ip) /\ IsForeign(Dns) /\ IsForeign(DnsByGet)
  /\ IsForeign(Remote("ec2-volume")) /\ IsForeign(Remote("efs-access-point"))
<1>1. ASSUME NEW type, type \notin SourceTypes, NEW method, NEW scope \in Scopes, NEW by, NEW home,
             Asked(method, by)
      PROVE  IsForeign(Link(type, method, scope, by, home))
  BY <1>1, LinksSay DEF IsForeign, Sane
<1>2. PICK scope \in Scopes : /\ Ip = Link("ip", "GET", scope, "address", "")
                              /\ Dns = Link("dns", "SEARCH", scope, "address", "")
                              /\ DnsByGet = Link("dns", "GET", scope, "address", "")
  BY Zenon DEF Ip, Dns, DnsByGet, Scopes
<1>3. PICK any \in Scopes : \A type : Remote(type) = Link(type, "GET", any, "name", "")
  BY Zenon DEF Remote, Get, Scopes
<1>4. Asked("GET", "address") /\ Asked("SEARCH", "address") /\ Asked("GET", "name")
  BY DEF Asked
<1>5. \A type \in {"ip", "dns", "ec2-volume", "efs-access-point"} : type \notin SourceTypes
  BY TypesAre DEF NamespacedTypes, ClusterTypes
<1> QED
  BY <1>1, <1>2, <1>3, <1>4, <1>5

\* A link that names the scope of the object it is for leads there.
LEMMA FoundLeads ==
  ASSUME NEW ns, NEW other, NEW method, NEW by, NEW home, Lives(other, home), Asked(method, by)
  PROVE  Leads(ns, Link(other, method, ScopeOf(home), by, home))
<1> DEFINE q == Link(other, method, ScopeOf(home), by, home)
<1> HIDE DEF q
<1>1. q.type = other /\ q.method = method /\ q.scope = ScopeOf(home) /\ q.by = by /\ q.home = home
  BY LinksSay, SMT DEF q
<1>2. Found(q) /\ Sane(q)
  BY <1>1, OwnScopes DEF Found, Sane
<1>3. Leads(ns, q)
  BY <1>2, Zenon DEF Leads
<1> QED
  BY <1>3 DEF q

LEMMA GetsLead ==
  ASSUME NEW ns, NEW other, NEW home, Lives(other, home)
  PROVE  Leads(ns, Get(other, ScopeOf(home), home))
  BY FoundLeads DEF Get, Asked

LEMMA SearchesLead ==
  ASSUME NEW ns, NEW other, NEW home, Lives(other, home)
  PROVE  Leads(ns, Search(other, ScopeOf(home), home))
  BY FoundLeads DEF Search, Asked

\* A link to a type that has no source is asked for in vain.
LEMMA OthersLead ==
  ASSUME NEW ns, NEW other, other \notin SourceTypes, NEW scope \in Scopes, NEW home
  PROVE  Leads(ns, Get(other, scope, home))
  BY LinksSay DEF Leads, Sane, Asked, Get

\* A link that names the scope of its own object for one that lives elsewhere.
LEMMA LostLeads ==
  ASSUME NEW ns, NEW other, NEW home, home # ns, ScopeOf(ns) \in Scopes,
         \A m : Lives(other, m) => ScopeOf(m) # ScopeOf(ns)
  PROVE  Leads(ns, Get(other, ScopeOf(ns), home))
<1> DEFINE q == Get(other, ScopeOf(ns), home)
<1> HIDE DEF q
<1>1. q.type = other /\ q.scope = ScopeOf(ns) /\ q.home = home /\ q.method = "GET"
  BY GetsSay DEF q
<1>2. Lost(q) /\ Sane(q)
  BY <1>1 DEF Lost, Sane, Asked
<1>3. Leads(ns, q)
  BY <1>1, <1>2 DEF Leads
<1> QED
  BY <1>3 DEF q

\* A reference without a namespace leads to the object beside the item, and to one
\* of the cluster only from an item of the cluster.
LEMMA LocalsLead ==
  ASSUME NEW ns \in Namespaces \cup {""}, NEW kind, ns = "" => kind \notin NamespacedTypes
  PROVE  Leads(ns, Get(kind, ScopeOf(ns), HomeIn(kind, ns)))
<1>1. CASE kind \in NamespacedTypes
  <2>1. Lives(kind, ns) /\ HomeIn(kind, ns) = ns
    BY <1>1, TypesAre DEF Lives, HomeIn
  <2> QED
    BY <2>1, GetsLead
<1>2. CASE kind \in ClusterTypes
  <2>1. HomeIn(kind, ns) = "" /\ Lives(kind, "")
    BY <1>2, TypesAre DEF HomeIn, Lives
  <2>2. CASE ns = ""
    BY <2>1, <2>2, GetsLead
  <2>3. CASE ns # ""
    <3>1. \A m : Lives(kind, m) => m = ""
      BY <1>2, TypesAre DEF Lives
    <3>2. ScopeOf("") # ScopeOf(ns)
      BY <2>3, OfferedScopes
    <3>3. \A m : Lives(kind, m) => ScopeOf(m) # ScopeOf(ns)
      BY <3>1, <3>2
    <3>4. Leads(ns, Get(kind, ScopeOf(ns), ""))
      BY <2>3, <3>3, OwnScopes, LostLeads
    <3> QED
      BY <2>1, <3>4
  <2> QED
    BY <2>2, <2>3
<1>3. CASE kind \notin NamespacedTypes \cup ClusterTypes
  BY <1>3, TypesAre, OwnScopes, OthersLead
<1> QED
  BY <1>1, <1>2, <1>3

LEMMA LocalLinks ==
  ASSUME NEW ns \in Namespaces, NEW q \in Local(ScopeOf(ns), ns)
  PROVE  Leads(ns, q)
<1>1. PICK kind \in Kinds : q = Get(kind, ScopeOf(ns), HomeIn(kind, ns))
  BY DEF Local
<1>2. ns # ""
  BY LinksAssumption
<1> QED
  BY <1>1, <1>2, LocalsLead

\* A reference that names a namespace, or none for what has none, leads to the
\* object, whoever has it.
LEMMA ReferencesLead ==
  ASSUME NEW ns, NEW ref \in References \cup Subjects
  PROVE  Leads(ns, Get(ref.type, ScopeOf(ref.ns), ref.ns))
<1>1. CASE \E t, m : Lives(t, m) /\ ref = Item(t, m)
  <2>1. PICK t, m : Lives(t, m) /\ ref = Item(t, m)
    BY <1>1
  <2>2. Leads(ns, Get(t, ScopeOf(m), m))
    BY <2>1, GetsLead
  <2> QED
    BY <2>1, <2>2, NamesOfItems
<1>2. CASE \E t \in {"CustomResource", "User", "Group"} :
             \E m \in Namespaces \cup {""} : ref = Item(t, m)
  <2>1. PICK t \in {"CustomResource", "User", "Group"} :
               \E m \in Namespaces \cup {""} : ref = Item(t, m)
    BY <1>2
  <2>2. PICK m \in Namespaces \cup {""} : ref = Item(t, m)
    BY <2>1
  <2>3. t \notin SourceTypes
    BY TypesAre DEF NamespacedTypes, ClusterTypes
  <2>4. Leads(ns, Get(t, ScopeOf(m), m))
    BY <2>3, OwnScopes, OthersLead
  <2> QED
    BY <2>2, <2>4, NamesOfItems
<1>3. \A m \in Namespaces : Lives("ServiceAccount", m)
  BY DEF Lives, NamespacedTypes
<1>4. ref \in Items => \E t, m : Lives(t, m) /\ ref = Item(t, m)
  BY ItemsAre
<1>5. ref \in References => \/ ref \in Items
                            \/ \E m \in Namespaces \cup {""} : ref = Item("CustomResource", m)
  BY DEF References
<1>6. ref \in Subjects => \/ \E m \in Namespaces : ref = Item("ServiceAccount", m)
                          \/ \E m \in Namespaces \cup {""} : ref = Item("User", m)
                          \/ \E m \in Namespaces \cup {""} : ref = Item("Group", m)
  BY DEF Subjects
<1> QED
  BY <1>1, <1>2, <1>3, <1>4, <1>5, <1>6

\* The query for such a reference, by the scope of the one that has it.
LEMMA ReferencesRead ==
  /\ \A ref : \A ns \in Namespaces :
       ObjectReferenceToQuery(ref, ParseScope(ScopeOf(ns), TRUE))
         = Get(ref.type, ScopeOf(ref.ns), ref.ns)
  /\ \A ref : ObjectReferenceToQuery(ref, ParseScope(ScopeOf(""), FALSE))
               = Get(ref.type, ScopeOf(ref.ns), ref.ns)
  /\ ParseScope(ScopeOf(""), FALSE).ClusterName = ScopeOf("")
<1>1. \A ns : Scoped(Cluster, ns).ClusterName = Cluster
  BY DEF Scoped
<1>2. \A ref, sd : sd.ClusterName = Cluster =>
        ObjectReferenceToQuery(ref, sd) = Get(ref.type, ScopeOf(ref.ns), ref.ns)
  BY OfferedScopes, Zenon DEF ObjectReferenceToQuery
<1>3. /\ \A ns \in Namespaces : ParseScope(ScopeOf(ns), TRUE).ClusterName = Cluster
      /\ ParseScope(ScopeOf(""), FALSE).ClusterName = Cluster
      /\ ScopeOf("") = Cluster
  BY <1>1, OfferedScopes, Zenon
<1> QED
  BY <1>2, <1>3, Zenon

\* The links of each extractor lead where they should.
LEMMA PodLinks ==
  ASSUME NEW ns \in Namespaces, NEW q \in PodExtractor(ScopeOf(ns), ns)
  PROVE  Leads(ns, q)
<1> DEFINE used == {"ServiceAccount", "PersistentVolumeClaim", "Secret", "ConfigMap"}
<1>1. \/ \E type \in used : q = Get(type, ScopeOf(ns), ns)
      \/ q = Get("PriorityClass", ScopeOf(""), "")
      \/ IsForeign(q)
  BY ScopesRead, ForeignLinks DEF PodExtractor
<1>2. /\ \A type \in used : Leads(ns, Get(type, ScopeOf(ns), ns))
      /\ Leads(ns, Get("PriorityClass", ScopeOf(""), ""))
  BY GetsLead DEF Lives, NamespacedTypes, ClusterTypes
<1> QED
  BY <1>1, <1>2, ForeignLeads

LEMMA ServiceLinks ==
  ASSUME NEW ns \in Namespaces, NEW q \in serviceExtractor(ScopeOf(ns), ns)
  PROVE  Leads(ns, q)
<1>1. \/ q = Search("Pod", ScopeOf(ns), ns)
      \/ q = Get("Endpoint", ScopeOf(ns), ns)
      \/ IsForeign(q)
  BY ForeignLinks DEF serviceExtractor
<1>2. Leads(ns, Search("Pod", ScopeOf(ns), ns))
  BY SearchesLead DEF Lives, NamespacedTypes
<1>3. Leads(ns, Get("Endpoint", ScopeOf(ns), ns))
  <2>1. "Endpoint" \notin SourceTypes
    BY TypesAre DEF NamespacedTypes, ClusterTypes
  <2> QED
    BY <2>1, OwnScopes, OthersLead
<1> QED
  BY <1>1, <1>2, <1>3, ForeignLeads

LEMMA IngressLinks ==
  ASSUME NEW ns \in Namespaces, NEW q \in ingressExtractor(ScopeOf(ns), ns)
  PROVE  Leads(ns, q)
<1>1. \/ q \in Local(ScopeOf(ns), ns)
      \/ q = Get("IngressClass", ScopeOf(ns), "")
      \/ q = Get("Service", ScopeOf(ns), ns)
      \/ IsForeign(q)
  BY ForeignLinks DEF ingressExtractor
<1>2. Leads(ns, Get("IngressClass", ScopeOf(ns), ""))
  <2>1. "IngressClass" \notin SourceTypes
    BY TypesAre DEF NamespacedTypes, ClusterTypes
  <2> QED
    BY <2>1, OwnScopes, OthersLead
<1>3. Leads(ns, Get("Service", ScopeOf(ns), ns))
  BY GetsLead DEF Lives, NamespacedTypes
<1> QED
  BY <1>1, <1>2, <1>3, LocalLinks, ForeignLeads

LEMMA EndpointsLinks ==
  ASSUME NEW ns \in Namespaces, NEW q \in EndpointsExtractor(ScopeOf(ns), ns)
  PROVE  Leads(ns, q)
<1>1. \/ q = Get("Node", ScopeOf(""), "")
      \/ \E ref \in References : q = Get(ref.type, ScopeOf(ref.ns), ref.ns)
      \/ IsForeign(q)
  BY ScopesRead, ReferencesRead, ForeignLinks DEF EndpointsExtractor
<1>2. Leads(ns, Get("Node", ScopeOf(""), ""))
  BY GetsLead DEF Lives, ClusterTypes
<1> QED
  BY <1>1, <1>2, ReferencesLead, ForeignLeads

LEMMA EndpointSliceLinks ==
  ASSUME NEW ns \in Namespaces, NEW q \in endpointSliceExtractor(ScopeOf(ns), ns)
  PROVE  Leads(ns, q)
<1>1. \/ q = Get("Node", ScopeOf(""), "")
      \/ \E ref \in References : q = Get(ref.type, ScopeOf(ref.ns), ref.ns)
      \/ IsForeign(q)
  BY ScopesRead, ReferencesRead, ForeignLinks DEF endpointSliceExtractor
<1>2. Leads(ns, Get("Node", ScopeOf(""), ""))
  BY GetsLead DEF Lives, ClusterTypes
<1> QED
  BY <1>1, <1>2, ReferencesLead, ForeignLeads

LEMMA DeploymentLinks ==
  ASSUME NEW ns \in Namespaces, NEW q \in deploymentExtractor(ScopeOf(ns), ns)
  PROVE  Leads(ns, q)
  BY GetsLead DEF deploymentExtractor, Lives, NamespacedTypes

LEMMA ServiceAccountLinks ==
  ASSUME NEW ns \in Namespaces, NEW q \in serviceAccountExtractor(ScopeOf(ns), ns)
  PROVE  Leads(ns, q)
  BY GetsLead DEF serviceAccountExtractor, Lives, NamespacedTypes

LEMMA AutoscalerLinks ==
  ASSUME NEW ns \in Namespaces, NEW q \in horizontalPodAutoscalerExtractor(ScopeOf(ns), ns)
  PROVE  Leads(ns, q)
  BY LocalLinks DEF horizontalPodAutoscalerExtractor

LEMMA ReplicaSetLinks ==
  ASSUME NEW ns \in Namespaces, NEW q \in replicaSetExtractor(ScopeOf(ns), ns)
  PROVE  Leads(ns, q)
  BY SearchesLead DEF replicaSetExtractor, Lives, NamespacedTypes

LEMMA ReplicationControllerLinks ==
  ASSUME NEW ns \in Namespaces, NEW q \in replicationControllerExtractor(ScopeOf(ns), ns)
  PROVE  Leads(ns, q)
  BY SearchesLead DEF replicationControllerExtractor, Lives, NamespacedTypes

LEMMA JobLinks ==
  ASSUME NEW ns \in Namespaces, NEW q \in jobExtractor(ScopeOf(ns), ns)
  PROVE  Leads(ns, q)
  BY SearchesLead DEF jobExtractor, Lives, NamespacedTypes

LEMMA DisruptionBudgetLinks ==
  ASSUME NEW ns \in Namespaces, NEW q \in podDisruptionBudgetExtractor(ScopeOf(ns), ns)
  PROVE  Leads(ns, q)
  BY SearchesLead DEF podDisruptionBudgetExtractor, Lives, NamespacedTypes

LEMMA StatefulSetLinks ==
  ASSUME NEW ns \in Namespaces, NEW q \in statefulSetExtractor(ScopeOf(ns), ns)
  PROVE  Leads(ns, q)
<1>1. \/ \E type \in {"Pod", "PersistentVolumeClaim"} : q = Search(type, ScopeOf(ns), ns)
      \/ q = Link("Service", "SEARCH", ScopeOf(ns), "fields", ns)
  BY DEF statefulSetExtractor
<1>2. \A type \in {"Pod", "PersistentVolumeClaim"} : Leads(ns, Search(type, ScopeOf(ns), ns))
  BY SearchesLead DEF Lives, NamespacedTypes
<1>3. Leads(ns, Link("Service", "SEARCH", ScopeOf(ns), "fields", ns))
  BY FoundLeads DEF Lives, NamespacedTypes, Asked
<1> QED
  BY <1>1, <1>2, <1>3

LEMMA VolumeLinks ==
  ASSUME NEW q \in PersistentVolumeExtractor(ScopeOf(""))
  PROVE  Leads("", q)
<1>1. \/ q = Get("StorageClass", ScopeOf(""), "")
      \/ \E ref \in References : q = Get(ref.type, ScopeOf(ref.ns), ref.ns)
      \/ IsForeign(q)
  BY ReferencesRead, ForeignLinks DEF PersistentVolumeExtractor
<1>2. Leads("", Get("StorageClass", ScopeOf(""), ""))
  BY GetsLead DEF Lives, ClusterTypes
<1> QED
  BY <1>1, <1>2, ReferencesLead, ForeignLeads

\* Its link names the scope of the claim, in which no volume is.
LEMMA ClaimLinks ==
  ASSUME NEW ns \in Namespaces, NEW q \in PersistentVolumeClaimExtractor(ScopeOf(ns))
  PROVE  Leads(ns, q)
<1>1. "PersistentVolume" \in ClusterKinds
  BY TypesAre DEF ClusterTypes
<1>2. HomeIn("PersistentVolume", ns) = ""
  BY <1>1 DEF HomeIn
<1>3. ns # ""
  BY LinksAssumption
<1>4. Leads(ns, Get("PersistentVolume", ScopeOf(ns), ""))
  BY <1>2, <1>3, LocalsLead
<1> QED
  BY <1>4 DEF PersistentVolumeClaimExtractor

LEMMA NodeLinks ==
  ASSUME NEW q \in linkedItemExtractor
  PROVE  Leads("", q)
  BY ForeignLinks, ForeignLeads DEF linkedItemExtractor

LEMMA PolicyLinks ==
  ASSUME NEW ns \in Namespaces, NEW q \in NetworkPolicyExtractor(ScopeOf(ns), ns)
  PROVE  Leads(ns, q)
<1>1. Leads(ns, Search("Pod", ScopeOf(ns), ns))
  BY SearchesLead DEF Lives, NamespacedTypes
<1>2. Leads(ns, Link("Pod", "GET", ScopeOf(ns), "labels", ns))
  BY FoundLeads DEF Lives, NamespacedTypes, Asked
<1> QED
  BY <1>1, <1>2 DEF NetworkPolicyExtractor

LEMMA RoleBindingLinks ==
  ASSUME NEW ns \in Namespaces, NEW q \in roleBindingExtractor(ScopeOf(ns))
  PROVE  Leads(ns, q)
<1>1. \/ \E s \in Subjects : q = Get(s.type, ScopeOf(s.ns), s.ns)
      \/ q = Get("Role", ScopeOf(ns), ns)
      \/ q = Get("ClusterRole", ScopeOf(""), "")
  <2> DEFINE sd == ParseScope(ScopeOf(ns), TRUE)
  <2>1. sd.ClusterName = Cluster /\ sd.Namespace = ns
    BY ScopesRead, OfferedScopes
  <2>2. RoleNamespace("Role", sd) = ns /\ RoleNamespace("ClusterRole", sd) = ""
    BY <2>1 DEF RoleNamespace
  <2>3. \A n : String(Scoped(sd.ClusterName, n)) = ScopeOf(n)
    BY <2>1, OfferedScopes
  <2> HIDE DEF sd
  <2>4. \/ \E s \in Subjects : q = Get(s.type, String(Scoped(sd.ClusterName, s.ns)), s.ns)
        \/ q = Get("Role", String(Scoped(sd.ClusterName, RoleNamespace("Role", sd))),
                   sd.Namespace)
        \/ q = Get("ClusterRole",
                   String(Scoped(sd.ClusterName, RoleNamespace("ClusterRole", sd))), "")
    BY DEF roleBindingExtractor, sd
  <2> QED
    BY <2>1, <2>2, <2>3, <2>4
<1>2. /\ Leads(ns, Get("Role", ScopeOf(ns), ns))
      /\ Leads(ns, Get("ClusterRole", ScopeOf(""), ""))
  BY GetsLead DEF Lives, NamespacedTypes, ClusterTypes
<1> QED
  BY <1>1, <1>2, ReferencesLead

LEMMA ClusterRoleBindingLinks ==
  ASSUME NEW q \in clusterRoleBindingExtractor(ScopeOf(""))
  PROVE  Leads("", q)
<1>1. \/ \E s \in Subjects : q = Get(s.type, ScopeOf(s.ns), s.ns)
      \/ q = Get("ClusterRole", ScopeOf(""), "")
  <2>1. \A n : String(Scoped(ScopeOf(""), n)) = ScopeOf(n)
    BY OfferedScopes
  <2> QED
    BY <2>1 DEF clusterRoleBindingExtractor
<1>2. Leads("", Get("ClusterRole", ScopeOf(""), ""))
  BY GetsLead DEF Lives, ClusterTypes
<1> QED
  BY <1>1, <1>2, ReferencesLead

LEMMA AttachmentLinks ==
  ASSUME NEW q \in volumeAttachmentExtractor(ScopeOf(""))
  PROVE  Leads("", q)
  BY GetsLead DEF volumeAttachmentExtractor, Lives, ClusterTypes

\* The links to owners.
LEMMA OwnersLinks ==
  ASSUME NEW type, NEW ns, Lives(type, ns), NEW q \in ownerLinks(ScopeOf(ns), ns)
  PROVE  Leads(ns, q)
<1>1. PICK kind \in Kinds : q = Get(kind, ScopeOf(ns), HomeIn(kind, ns))
  BY DEF ownerLinks, Local
<1>2. q.type = kind
  BY <1>1, LinksSay DEF Get
<1>3. ns = "" => kind \in ClusterKinds \cup {"CustomResource"}
  BY <1>2 DEF ownerLinks
<1>4. "CustomResource" \notin NamespacedTypes
  BY DEF NamespacedTypes
<1>5. ns = "" => kind \notin NamespacedTypes
  BY <1>3, <1>4, TypesAre
<1>6. ns \in Namespaces \cup {""}
  BY DEF Lives
<1> QED
  BY <1>1, <1>5, <1>6, LocalsLead

LEMMA ExtractedLinks ==
  ASSUME NEW type, NEW ns, Lives(type, ns),
         NEW q \in LinkedItemQueryExtractor(type, ScopeOf(ns), ns)
  PROVE  Leads(ns, q)
<1>1. /\ type \in NamespacedTypes => ns \in Namespaces
      /\ type \in ClusterTypes => ns = ""
  BY DEF Lives, NamespacedTypes, ClusterTypes
<1> USE DEF NamespacedTypes, ClusterTypes
<1>2. CASE type = "Pod"
  BY <1>2, <1>1, PodLinks DEF LinkedItemQueryExtractor
<1>3. CASE type = "Service"
  BY <1>3, <1>1, ServiceLinks DEF LinkedItemQueryExtractor
<1>4. CASE type = "Ingress"
  BY <1>4, <1>1, IngressLinks DEF LinkedItemQueryExtractor
<1>5. CASE type = "Endpoints"
  BY <1>5, <1>1, EndpointsLinks DEF LinkedItemQueryExtractor
<1>6. CASE type = "EndpointSlice"
  BY <1>6, <1>1, EndpointSliceLinks DEF LinkedItemQueryExtractor
<1>7. CASE type = "Deployment"
  BY <1>7, <1>1, DeploymentLinks DEF LinkedItemQueryExtractor
<1>8. CASE type = "StatefulSet"
  BY <1>8, <1>1, StatefulSetLinks DEF LinkedItemQueryExtractor
<1>9. CASE type = "PersistentVolume"
  BY <1>9, <1>1, VolumeLinks DEF LinkedItemQueryExtractor
<1>10. CASE type = "PersistentVolumeClaim"
  BY <1>10, <1>1, ClaimLinks DEF LinkedItemQueryExtractor
<1>11. CASE type = "Node"
  BY <1>11, <1>1, NodeLinks DEF LinkedItemQueryExtractor
<1>12. CASE type = "NetworkPolicy"
  BY <1>12, <1>1, PolicyLinks DEF LinkedItemQueryExtractor
<1>13. CASE type = "RoleBinding"
  BY <1>13, <1>1, RoleBindingLinks DEF LinkedItemQueryExtractor
<1>14. CASE type = "ClusterRoleBinding"
  BY <1>14, <1>1, ClusterRoleBindingLinks DEF LinkedItemQueryExtractor
<1>15. CASE type = "VolumeAttachment"
  BY <1>15, <1>1, AttachmentLinks DEF LinkedItemQueryExtractor
<1>16. CASE type = "ServiceAccount"
  BY <1>16, <1>1, ServiceAccountLinks DEF LinkedItemQueryExtractor
<1>17. CASE type = "HorizontalPodAutoscaler"
  BY <1>17, <1>1, AutoscalerLinks DEF LinkedItemQueryExtractor
<1>18. CASE type = "ReplicaSet"
  BY <1>18, <1>1, ReplicaSetLinks DEF LinkedItemQueryExtractor
<1>19. CASE type = "ReplicationController"
  BY <1>19, <1>1, ReplicationControllerLinks DEF LinkedItemQueryExtractor
<1>20. CASE type = "Job"
  BY <1>20, <1>1, JobLinks DEF LinkedItemQueryExtractor
<1>21. CASE type = "PodDisruptionBudget"
  BY <1>21, <1>1, DisruptionBudgetLinks DEF LinkedItemQueryExtractor
<1>22. CASE type \notin {"Pod", "Service", "Ingress", "Endpoints",
                            "EndpointSlice", "Deployment", "StatefulSet", "PersistentVolume",
                            "PersistentVolumeClaim", "Node", "NetworkPolicy", "RoleBinding",
                            "ClusterRoleBinding", "VolumeAttachment", "ServiceAccount", "HorizontalPodAutoscaler",
                            "ReplicaSet", "ReplicationController", "Job", "PodDisruptionBudget"}
  BY <1>22 DEF LinkedItemQueryExtractor
<1> QED
  BY <1>2, <1>3, <1>4, <1>5, <1>6, <1>7, <1>8, <1>9,
     <1>10, <1>11, <1>12, <1>13, <1>14, <1>15, <1>16, <1>17,
     <1>18, <1>19, <1>20, <1>21, <1>22

\* Every link of every item leads where it should.
LEMMA AllLinks ==
  ASSUME NEW i \in Items, NEW q \in LinkedItemQueries(i)
  PROVE  Leads(i.ns, q)
<1>1. PICK type, ns : Lives(type, ns) /\ i = Item(type, ns)
  BY ItemsAre
<1>2. i.type = type /\ i.ns = ns
  BY <1>1, NamesOfItems
<1>3. \A l \in ExtractLinksFromAttributes : IsForeign(l)
  BY ForeignLinks DEF ExtractLinksFromAttributes
<1>4. \/ q \in ownerLinks(ScopeOf(ns), ns)
      \/ q \in LinkedItemQueryExtractor(type, ScopeOf(ns), ns)
      \/ q \in ExtractLinksFromAttributes
  BY <1>2 DEF LinkedItemQueries
<1>5. Leads(ns, q)
  BY <1>1, <1>3, <1>4, OwnersLinks, ExtractedLinks, ForeignLeads
<1> QED
  BY <1>2, <1>5

-------------------------------------------------------------------------------
(* Discoveries. *)

\* A discovery is at an item of the cluster, and follows links of that item.
Follows ==
  /\ item \in Items \cup {NoItem}
  /\ Linked => item \in Items /\ query \in LinkedItemQueries(item)

LEMMA FollowsAlways == Spec => []Follows
<1>1. Init => Follows
  BY DEF Init, Follows, Linked
<1>2. Follows /\ [Next]_vars => Follows'
  <2> SUFFICES ASSUME Follows, [Next]_vars
               PROVE  Follows'
    OBVIOUS
  <2>1. CASE Request
    BY <2>1 DEF Request, Follows, Linked
  <2>2. CASE Answer
    BY <2>2 DEF Answer, Targets, Follows, Linked
  <2>3. CASE Choose
    <3>1. query' \in LinkedItemQueries(item) /\ UNCHANGED item /\ item # NoItem
      BY <2>3 DEF Choose
    <3> QED
      BY <3>1 DEF Follows, Linked
  <2>4. CASE Follow
    BY <2>4 DEF Follow, Done, Targets, Follows, Linked
  <2>5. CASE Discard
    BY <2>5 DEF Discard, Done, Follows, Linked
  <2>6. CASE UNCHANGED vars
    BY <2>6 DEF vars, Follows, Linked
  <2> QED
    BY <2>1, <2>2, <2>3, <2>4, <2>5, <2>6 DEF Next
<1> QED
  BY <1>1, <1>2, PTL DEF Spec

\* What is looked for along a link.
LooksFor ==
  /\ selector \in Selectors /\ options.watch = FALSE
  /\ Linked /\ query.by = "labels" => options \in LabelSelectorToQuery(selector)
  /\ Linked /\ query.by = "fields" =>
       \E name \in Name : options \in FieldSelectorToQuery(Fields(name, item.ns))

LEMMA NothingSelected == NoSelector \in Selectors
<1>1. <<>> \in LabelSets
  <2>1. {} \in SUBSET Key /\ IsFiniteSet({})
    BY FS_EmptySet
  <2>2. <<>> \in [{} -> Value]
    OBVIOUS
  <2> QED
    BY <2>1, <2>2 DEF LabelSets
<1>2. {} \in {es \in SUBSET Expressions : Cardinality(es) <= 1}
  BY FS_EmptySet
<1> QED
  BY <1>1, <1>2 DEF Selectors, NoSelector

LEMMA NothingWatched ==
  /\ NoOptions.watch = FALSE
  /\ \A s : \A o \in LabelSelectorToQuery(s) : o.watch = FALSE
  /\ \A f : \A o \in FieldSelectorToQuery(f) : o.watch = FALSE
<1>1. NoOptions.watch = FALSE
  BY DEF NoOptions
<1>2. /\ \A t : [NoOptions EXCEPT !.labelSelector = t].watch = NoOptions.watch
      /\ \A t : [NoOptions EXCEPT !.fieldSelector = t].watch = NoOptions.watch
  BY DEF NoOptions
<1> QED
  BY <1>1, <1>2, Zenon DEF LabelSelectorToQuery, FieldSelectorToQuery

LEMMA LooksForAlways == Spec => []LooksFor
<1>1. Init => LooksFor
  <2> SUFFICES ASSUME Init
               PROVE  LooksFor
    OBVIOUS
  <2>1. item = NoItem /\ options = NoOptions /\ selector = NoSelector
    BY DEF Init
  <2>2. ~Linked
    BY <2>1 DEF Linked
  <2>3. options.watch = FALSE
    BY <2>1, NothingWatched, Zenon
  <2> QED
    BY <2>1, <2>2, <2>3, NothingSelected, Zenon DEF LooksFor
<1>2. LooksFor /\ [Next]_vars => LooksFor'
  <2> SUFFICES ASSUME LooksFor, [Next]_vars
               PROVE  LooksFor'
    OBVIOUS
  <2>1. CASE Request
    <3>1. UNCHANGED <<item, options, selector>> /\ ~Linked'
      BY <2>1 DEF Request, Linked
    <3> QED
      BY <3>1, Zenon DEF LooksFor
  <2>2. CASE Answer
    <3>1. UNCHANGED <<options, selector>> /\ ~Linked'
      BY <2>2 DEF Answer, Linked
    <3> QED
      BY <3>1, Zenon DEF LooksFor
  <2>3. CASE Choose
    <3>1. PICK link : /\ query' = link
                      /\ LinkByName(link) \/ LinkByLabels(link) \/ LinkByFields(link)
      BY <2>3, Zenon DEF Choose
    <3>2. UNCHANGED item
      BY <2>3, Zenon DEF Choose
    <3>3. CASE LinkByName(link)
      <4>1. UNCHANGED <<options, selector>> /\ link.by # "labels" /\ link.by # "fields"
        BY <3>3 DEF LinkByName
      <4> QED
        BY <3>1, <3>2, <4>1, Zenon DEF LooksFor
    <3>4. CASE LinkByLabels(link)
      <4>1. /\ selector' \in Selectors /\ options' \in LabelSelectorToQuery(selector')
            /\ link.by # "fields"
        BY <3>4 DEF LinkByLabels
      <4> QED
        BY <3>1, <3>2, <4>1, NothingWatched, Zenon DEF LooksFor
    <3>5. CASE LinkByFields(link)
      <4>1. /\ UNCHANGED selector /\ link.by # "labels"
            /\ \E name \in Name : options' \in FieldSelectorToQuery(Fields(name, item.ns))
        BY <3>5 DEF LinkByFields
      <4> QED
        BY <3>1, <3>2, <4>1, NothingWatched, Zenon DEF LooksFor
    <3> QED
      BY <3>1, <3>3, <3>4, <3>5
  <2>4. CASE Follow \/ Discard
    <3>1. Done
      BY <2>4 DEF Follow, Discard
    <3>2. options' = NoOptions /\ selector' = NoSelector /\ ~Linked'
      BY <3>1 DEF Done, Linked
    <3> QED
      BY <3>2, NothingSelected, NothingWatched, Zenon DEF LooksFor
  <2>5. CASE UNCHANGED vars
    BY <2>5, Zenon DEF vars, LooksFor, Linked
  <2> QED
    BY <2>1, <2>2, <2>3, <2>4, <2>5 DEF Next
<1> QED
  BY <1>1, <1>2, PTL DEF Spec

\* A discovery is at an item of the cluster; a link that it follows names a scope
\* that a source offers, or one that is not the cluster's; and no search that it
\* makes asks for a watch.
THEOREM TypeCorrect == Spec => []TypeOK
<1>1. Follows /\ LooksFor => TypeOK
  <2> SUFFICES ASSUME Follows, LooksFor
               PROVE  TypeOK
    OBVIOUS
  <2>1. Linked => query.scope \in Scopes
    <3>1. Linked => item \in Items /\ query \in LinkedItemQueries(item)
      BY DEF Follows, Linked
    <3> QED
      BY <3>1, AllLinks DEF Leads, Sane
  <2>2. item \in Items \cup {NoItem}
    BY DEF Follows
  <2> QED
    BY <2>1, <2>2, Zenon DEF TypeOK, LooksFor, Scopes
<1> QED
  BY <1>1, FollowsAlways, LooksForAlways, PTL

\* Following a link that searches finds all the objects that are meant, and no others
\* unless the selector has expressions, in whatever order its conditions were
\* written, for any keys and values of labels and any names.
THEOREM SearchesFind == Spec => []SearchesFindWhatIsMeant
<1>1. Follows /\ LooksFor => SearchesFindWhatIsMeant
  <2> SUFFICES ASSUME Follows, LooksFor, Linked, query.method = "SEARCH", query.by # "address"
               PROVE  SearchesFindWhatIsMeant
    BY DEF SearchesFindWhatIsMeant
  <2> DEFINE objects == Objects(item.ns)
             found   == Listed(QueryToListOptions(options), objects)
  <2>1. query.by = "labels" \/ query.by = "fields"
    <3>1. item \in Items /\ query \in LinkedItemQueries(item)
      BY DEF Follows, Linked
    <3> QED
      BY <3>1, AllLinks DEF Leads, Sane, Asked
  <2>2. query.by = "fields" =>
          \E name \in Name : found = {o \in objects : o.fields = Fields(name, item.ns)}
    <3> SUFFICES ASSUME query.by = "fields"
                 PROVE  \E name \in Name : found = {o \in objects : o.fields = Fields(name, item.ns)}
      OBVIOUS
    <3>1. PICK name \in Name : options \in FieldSelectorToQuery(Fields(name, item.ns))
      BY Zenon DEF LooksFor
    <3>2. found = {o \in objects : o.fields = Fields(name, item.ns)}
      BY <3>1, FieldsSelect, Zenon
    <3> QED
      BY <3>2, Zenon
  <2> DEFINE meant == {o \in objects : Matches(selector, o.labels)}
  <2>3. query.by = "labels" =>
          meant \subseteq found /\ (selector.matchExpressions = {} => found = meant)
    <3>1. IsFiniteSet(DOMAIN selector.matchLabels)
      <4>1. selector.matchLabels \in LabelSets
        BY DEF LooksFor, Selectors
      <4> QED
        BY <4>1 DEF LabelSets
    <3>2. query.by = "labels" => options \in LabelSelectorToQuery(selector)
      BY DEF LooksFor
    <3>3. query.by = "labels" => meant \subseteq found
      BY <3>1, <3>2, LabelsFindAll, Zenon
    <3>4. query.by = "labels" /\ selector.matchExpressions = {} => found = meant
      BY <3>1, <3>2, LabelsSelect, Zenon
    <3> QED
      BY <3>3, <3>4
  <2> HIDE DEF objects, found, meant
  <2>4. IF query.by = "fields"
        THEN \E name \in Name : found = {o \in objects : o.fields = Fields(name, item.ns)}
        ELSE meant \subseteq found /\ (selector.matchExpressions = {} => found = meant)
    BY <2>1, <2>2, <2>3
  <2> QED
    BY <2>4, Zenon DEF SearchesFindWhatIsMeant, objects, found, meant
<1> QED
  BY <1>1, FollowsAlways, LooksForAlways, PTL

\* A link of any item leads to the object that the reference means or nowhere, and
\* there if it can be answered and names a scope of its own or an object beside the
\* item, whatever the cluster's name and its namespaces.
THEOREM LinksReach == Spec => []LinksReachTheirObjects
<1>1. Follows => LinksReachTheirObjects
  <2> SUFFICES ASSUME Follows, Linked, query.type \in SourceTypes
               PROVE  /\ Targets(query) \subseteq {Item(query.type, query.home)}
                      /\ Answerable(query) /\ (query.home = item.ns \/ query.scope # ScopeOf(item.ns))
                           => Targets(query) # {}
    BY DEF LinksReachTheirObjects
  <2>1. Leads(item.ns, query)
    BY AllLinks DEF Follows
  <2>2. CASE Found(query)
    BY <2>2, FoundItems
  <2>3. CASE Lost(query) /\ query.home # item.ns /\ query.scope = ScopeOf(item.ns)
    BY <2>3, FoundItems
  <2> QED
    BY <2>1, <2>2, <2>3 DEF Leads
<1> QED
  BY <1>1, FollowsAlways, PTL

===============================================================================
