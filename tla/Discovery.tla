------------------------------- MODULE Discovery -------------------------------
(***************************************************************************)
(* A discovery of the cluster, which composes scopes (Scope), links        *)
(* (Links) and selectors (LabelSelectors).  It begins with a request for   *)
(* an item, whose scope is any text, and goes on from item to item along   *)
(* their links.                                                            *)
(*                                                                         *)
(* External: the engine hands a query to the source that has its type and  *)
(* offers its scope, and which of the links it follows is its own choice.  *)
(***************************************************************************)
EXTENDS Links, LabelSelectors

CONSTANT Texts  \* the scopes that requests are made with

ASSUME DiscoveryAssumption == Texts \subseteq Seq(STRING) \ {<<>>}

VARIABLES
  item,     \* the item that the discovery has come to, or NoItem
  query,    \* the query under way, or NoQuery
  options,  \* the options of a search
  selector  \* the selector of the resource that the search is for

vars == <<item, query, options, selector>>

NoItem     == [type |-> "none"]
NoQuery    == [type |-> "none"]
NoSelector == [matchLabels |-> <<>>, matchExpressions |-> {}]

\* GET takes a name and SEARCH a selector: a query that gives the other finds
\* nothing.
Answerable(q) == q.method = "SEARCH" <=> q.by \in {"labels", "fields"}

\* The items that are found, by a source of the type that offers the scope.
Targets(q) ==
  IF Answerable(q) THEN {i \in Items : i.type = q.type /\ ScopeOf(i.ns) = q.scope} ELSE {}

Init ==
  /\ item = NoItem /\ query = NoQuery
  /\ options = NoOptions /\ selector = NoSelector

Request ==
  /\ item = NoItem /\ query = NoQuery
  /\ \E s \in LoadAllSources, text \in Texts : query' = Get(s.type, text, "")
  /\ UNCHANGED <<item, options, selector>>

Answer ==
  /\ item = NoItem /\ query # NoQuery
  /\ item' \in Targets(query)
  /\ query' = NoQuery
  /\ UNCHANGED <<options, selector>>

\* A link by name, by the labels that the resource selects, or by fields.
LinkByName(link) == link.by \in {"name", "address"} /\ UNCHANGED <<options, selector>>
LinkByLabels(link) ==
  /\ link.by = "labels"
  /\ \E s \in Selectors : selector' = s /\ options' \in LabelSelectorToQuery(s)
LinkByFields(link) ==
  /\ link.by = "fields"
  /\ \E name \in Name : options' \in FieldSelectorToQuery(Fields(name, item.ns))
  /\ UNCHANGED selector

Choose ==
  /\ item # NoItem /\ query = NoQuery
  /\ \E link \in LinkedItemQueries(item) :
       /\ query' = link
       /\ LinkByName(link) \/ LinkByLabels(link) \/ LinkByFields(link)
  /\ UNCHANGED item

Done == query' = NoQuery /\ options' = NoOptions /\ selector' = NoSelector

Follow ==
  /\ item # NoItem /\ query # NoQuery
  /\ item' \in Targets(query)
  /\ Done

Discard ==
  /\ query # NoQuery /\ Targets(query) = {}
  /\ Done /\ UNCHANGED item

Next == Request \/ Answer \/ Choose \/ Follow \/ Discard
Spec == Init /\ [][Next]_vars

-------------------------------------------------------------------------------
(* Properties. *)

Requested == item = NoItem /\ query # NoQuery
Linked    == item # NoItem /\ query # NoQuery

TypeOK ==
  /\ item \in Items \cup {NoItem}
  /\ Linked => query.scope \in {<<"*">>, <<"global">>}
                                 \cup {ScopeOf(ns) : ns \in Namespaces \cup {""}}
  /\ options.watch = FALSE
  /\ selector \in Selectors

\* A scope written by String is parsed back to the same details, in both forms:
\* a source finds the namespace of each scope that it offers, whatever dots the
\* name of the cluster contains.
RoundTrip ==
  Requested /\ query.scope # EmptyText =>
    /\ ParseScope(String(Scoped(query.scope, "")), FALSE) = Scoped(query.scope, "")
    /\ \A ns \in Namespaces :
         ParseScope(String(Scoped(query.scope, ns)), TRUE) = Scoped(query.scope, ns)

\* A text is refused exactly when it leaves no name for the cluster, and what is
\* accepted is written back as it was, but for a trailing dot: that stands for
\* the empty namespace, which String leaves out.
AcceptsExactly ==
  Requested =>
    \A namespaced \in BOOLEAN :
      LET text == query.scope
          sd   == ParseScope(text, namespaced)
      IN  /\ Parses(text, namespaced) <=>
               IF namespaced THEN Len(text) > 1 /\ SubSeq(text, 1, Len(text) - 1) # EmptyText
                             ELSE text # EmptyText
          /\ Parses(text, namespaced) =>
               \/ String(sd) = text
               \/ namespaced /\ Append(String(sd), "") = text

\* A link leads to the object that the reference means or nowhere, whatever dots
\* the name of the cluster has and whichever object of whichever kind may be
\* referred to.  It does lead there if it can be answered and the object is beside
\* the item, or the link has a scope of its own: references across namespaces, to
\* kinds without one and from them name the right scope.
LinksReachTheirObjects ==
  Linked /\ query.type \in SourceTypes =>
    /\ Targets(query) \subseteq {Item(query.type, query.home)}
    /\ Answerable(query) /\ (query.home = item.ns \/ query.scope # ScopeOf(item.ns)) =>
         Targets(query) # {}

\* The links that the annotations "+overmind:link" of the sources promise, but for
\* those to types that no source of the process has.
DocumentedLinks ==
  {<<from, "Pod">> : from \in {"DaemonSet", "Endpoints", "EndpointSlice", "Job", "NetworkPolicy",
                              "PodDisruptionBudget", "ReplicaSet", "ReplicationController",
                              "Service", "StatefulSet"}}
    \cup {<<from, "Node">> : from \in {"Endpoints", "EndpointSlice", "VolumeAttachment"}}
    \cup {<<from, "Service">> : from \in {"Ingress", "StatefulSet"}}
    \cup {<<from, "Secret">> : from \in {"Pod", "ServiceAccount"}}
    \cup {<<from, "ClusterRole">> : from \in {"ClusterRoleBinding", "RoleBinding"}}
    \cup {<<from, "PersistentVolumeClaim">> : from \in {"Pod", "StatefulSet"}}
    \cup {<<from, "PersistentVolume">> : from \in {"PersistentVolumeClaim", "VolumeAttachment"}}
    \cup {<<from, "ServiceAccount">> : from \in {"ClusterRoleBinding", "Pod", "RoleBinding"}}
    \cup {<<"HorizontalPodAutoscaler", to>> : to \in {"DaemonSet", "Deployment", "StatefulSet"}}
    \cup {<<"Pod", "ConfigMap">>, <<"Pod", "PriorityClass">>, <<"Deployment", "ReplicaSet">>,
          <<"RoleBinding", "Role">>, <<"PersistentVolume", "StorageClass">>}

\* "+overmind:link": every such link that an extractor makes finds something.
DocumentedLinksReach ==
  Linked /\ query \in LinkedItemQueryExtractor(item.type, ScopeOf(item.ns), item.ns) =>
    (<<item.type, query.type>> \in DocumentedLinks => Targets(query) # {})

\* Following the link of a selector, or of the name of a service, finds all the
\* objects that are meant, in whatever order the conditions were written, and no
\* others unless the selector has expressions: these are left out of the query.
SearchesFindWhatIsMeant ==
  Linked /\ query.method = "SEARCH" /\ query.by # "address" =>
    LET objects == Objects(item.ns)
        found   == Listed(QueryToListOptions(options), objects)
        meant   == {o \in objects : Matches(selector, o.labels)}
    IN  IF query.by = "fields"
        THEN \E name \in Name : found = {o \in objects : o.fields = Fields(name, item.ns)}
        ELSE meant \subseteq found /\ (selector.matchExpressions = {} => found = meant)

===============================================================================
