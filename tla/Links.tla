--------------------------------- MODULE Links ---------------------------------
(***************************************************************************)
(* The sources of the process and the links between their items            *)
(* (sources/*.go).  An item links to others with queries: a type, a        *)
(* method, a scope and what to ask for.                                    *)
(*                                                                         *)
(* A link carries the namespace in which the object it is for lives        *)
(* ("home"), which Kubernetes defines: the one that the reference gives,   *)
(* that of the referring object for a local reference, none for a kind     *)
(* that has none.                                                          *)
(***************************************************************************)
EXTENDS Integers, Sequences, Scope

CONSTANTS
  Cluster,    \* the cluster's name: a text
  Namespaces  \* its namespaces

ASSUME LinksAssumption ==
  /\ Cluster \in Seq(STRING) /\ IsText(Cluster) /\ Cluster # EmptyText
  /\ Namespaces \in SUBSET STRING /\ Namespaces # {} /\ "" \notin Namespaces

-------------------------------------------------------------------------------
(* The sources: the kinds that live in a namespace, and the rest. *)

Namespaced(type)  == [type |-> type, namespaced |-> TRUE]
ClusterWide(type) == [type |-> type, namespaced |-> FALSE]

newClusterRoleSource           == ClusterWide("ClusterRole")
newClusterRoleBindingSource    == ClusterWide("ClusterRoleBinding")
newNodeSource                  == ClusterWide("Node")
newPersistentVolumeSource      == ClusterWide("PersistentVolume")
newPriorityClassSource         == ClusterWide("PriorityClass")
newStorageClassSource          == ClusterWide("StorageClass")
newVolumeAttachmentSource      == ClusterWide("VolumeAttachment")
newConfigMapSource             == Namespaced("ConfigMap")
newCronJobSource               == Namespaced("CronJob")
newDaemonSetSource             == Namespaced("DaemonSet")
newDeploymentSource            == Namespaced("Deployment")
newEndpointsSource             == Namespaced("Endpoints")
newEndpointSliceSource         == Namespaced("EndpointSlice")
newHorizontalPodAutoscalerSource == Namespaced("HorizontalPodAutoscaler")
newIngressSource               == Namespaced("Ingress")
newJobSource                   == Namespaced("Job")
newLimitRangeSource            == Namespaced("LimitRange")
newNetworkPolicySource         == Namespaced("NetworkPolicy")
newPersistentVolumeClaimSource == Namespaced("PersistentVolumeClaim")
newPodDisruptionBudgetSource   == Namespaced("PodDisruptionBudget")
newPodSource                   == Namespaced("Pod")
newReplicaSetSource            == Namespaced("ReplicaSet")
newReplicationControllerSource == Namespaced("ReplicationController")
newResourceQuotaSource         == Namespaced("ResourceQuota")
newRoleSource                  == Namespaced("Role")
newRoleBindingSource           == Namespaced("RoleBinding")
newSecretSource                == Namespaced("Secret")
newServiceSource               == Namespaced("Service")
newServiceAccountSource        == Namespaced("ServiceAccount")
newStatefulSetSource           == Namespaced("StatefulSet")

LoadAllSources ==
  {newClusterRoleSource, newClusterRoleBindingSource, newNodeSource,
   newPersistentVolumeSource, newPriorityClassSource, newStorageClassSource,
   newVolumeAttachmentSource, newConfigMapSource, newCronJobSource,
   newDaemonSetSource, newDeploymentSource, newEndpointsSource,
   newEndpointSliceSource, newHorizontalPodAutoscalerSource, newIngressSource,
   newJobSource, newLimitRangeSource, newNetworkPolicySource,
   newPersistentVolumeClaimSource, newPodDisruptionBudgetSource, newPodSource,
   newReplicaSetSource, newReplicationControllerSource, newResourceQuotaSource,
   newRoleSource, newRoleBindingSource, newSecretSource, newServiceSource,
   newServiceAccountSource, newStatefulSetSource}

ScopeOf(ns)    == String(Scoped(Cluster, ns))
Homes(s)       == IF s.namespaced THEN Namespaces ELSE {""}
Item(type, ns) == [type |-> type, ns |-> ns]
Items          == UNION {{Item(s.type, ns) : ns \in Homes(s)} : s \in LoadAllSources}

\* What references may name: the kinds of the sources, and one that has none.
SourceTypes   == {s.type : s \in LoadAllSources}
ClusterKinds  == {s.type : s \in {t \in LoadAllSources : ~t.namespaced}}
Kinds         == SourceTypes \cup {"CustomResource"}
HomeIn(kind, ns) == IF kind \in ClusterKinds THEN "" ELSE ns
References    == Items \cup {Item("CustomResource", ns) : ns \in Namespaces \cup {""}}

-------------------------------------------------------------------------------
(* Links.  by is what is asked for: a name, the labels of a selector, the      *)
(* fields of one, or an address.                                               *)

Link(type, method, scope, by, home) ==
  [type |-> type, method |-> method, scope |-> scope, by |-> by, home |-> home]
Get(type, scope, home)    == Link(type, "GET", scope, "name", home)
Search(type, scope, home) == Link(type, "SEARCH", scope, "labels", home)

\* A reference without a namespace, to any kind: to an object beside the item, or
\* to one of the cluster.
Local(scope, ns) == {Get(kind, scope, HomeIn(kind, ns)) : kind \in Kinds}

\* Types of other programs.
Ip           == Link("ip", "GET", <<"global">>, "address", "")
Dns          == Link("dns", "SEARCH", <<"global">>, "address", "")
DnsByGet     == Link("dns", "GET", <<"global">>, "address", "")
Remote(type) == Get(type, <<"*">>, "")

\* Faulty variants for the mutants.
ObjectInParentScope(ref, parent) == Get(ref.type, String(parent), ref.ns)
ObjectBelowParent(ref, parent) == Get(ref.type, Append(String(parent), ref.ns), ref.ns)

ObjectReferenceToQuery(ref, parent) ==
  Get(ref.type, String(Scoped(parent.ClusterName, ref.ns)), ref.ns)

\* What an RBAC subject may be: a service account of any namespace, or a user or
\* a group, which have none.
Subjects ==
  {Item("ServiceAccount", ns) : ns \in Namespaces} \cup {Item("User", ""), Item("Group", "")}

\* The extractors: all the links that the fields of a resource may give.  ns is
\* its namespace and scope that of its item.
PodExtractor(scope, ns) ==
  {Get(type, scope, ns) :
     type \in {"ServiceAccount", "PersistentVolumeClaim", "Secret", "ConfigMap"}}
    \cup {Get("PriorityClass", ParseScope(scope, TRUE).ClusterName, ""),
          Remote("ec2-volume"), Ip, Dns}

serviceExtractor(scope, ns) ==
  {Search("Pod", scope, ns), Get("Endpoint", scope, ns), Ip, Dns}

\* The backend of an ingress is a service or an object of any kind.
ingressExtractor(scope, ns) ==
  Local(scope, ns) \cup {Get("IngressClass", scope, ""), Get("Service", scope, ns), Dns}

\* The target of an address is any object.
EndpointsExtractor(scope, ns) ==
  LET sd == ParseScope(scope, TRUE)
  IN  {DnsByGet, Ip, Get("Node", sd.ClusterName, "")}
        \cup {ObjectReferenceToQuery(ref, sd) : ref \in References}

endpointSliceExtractor(scope, ns) ==
  LET sd == ParseScope(scope, TRUE)
  IN  {Dns, Ip, Get("Node", sd.ClusterName, "")}
        \cup {ObjectReferenceToQuery(ref, sd) : ref \in References}

deploymentExtractor(scope, ns) == {Get("ReplicaSet", scope, ns)}

statefulSetExtractor(scope, ns) ==
  {Search(type, scope, ns) : type \in {"Pod", "PersistentVolumeClaim"}}
    \cup {Link("Service", "SEARCH", scope, "fields", ns)}

PersistentVolumeExtractor(scope) ==
  LET sd == ParseScope(scope, FALSE)
  IN  {Remote("ec2-volume"), Remote("efs-access-point"), Get("StorageClass", sd.ClusterName, "")}
        \cup {ObjectReferenceToQuery(ref, sd) : ref \in References}

PersistentVolumeClaimExtractor(scope) == {Get("PersistentVolume", scope, "")}

linkedItemExtractor == {Dns, Ip, Remote("ec2-volume")}

NetworkPolicyExtractor(scope, ns) ==
  {Search("Pod", scope, ns), Link("Pod", "GET", scope, "labels", ns)}

\* The namespace of the role that a binding refers to.
RoleNamespace(kind, sd) == IF kind = "Role" THEN sd.Namespace ELSE ""

roleBindingExtractor(scope) ==
  LET sd == ParseScope(scope, TRUE)
      Role(kind, home) == Get(kind, String(Scoped(sd.ClusterName, RoleNamespace(kind, sd))), home)
  IN  {Get(s.type, String(Scoped(sd.ClusterName, s.ns)), s.ns) : s \in Subjects}
        \cup {Role("Role", sd.Namespace), Role("ClusterRole", "")}

clusterRoleBindingExtractor(scope) ==
  {Get("ClusterRole", scope, "")}
    \cup {Get(s.type, String(Scoped(scope, s.ns)), s.ns) : s \in Subjects}

volumeAttachmentExtractor(scope) == {Get("PersistentVolume", scope, ""), Get("Node", scope, "")}

serviceAccountExtractor(scope, ns) == {Get("Secret", scope, ns)}

\* What is scaled is an object of any kind.
horizontalPodAutoscalerExtractor(scope, ns) == Local(scope, ns)

replicaSetExtractor(scope, ns)            == {Search("Pod", scope, ns)}
replicationControllerExtractor(scope, ns) == {Search("Pod", scope, ns)}
jobExtractor(scope, ns)                   == {Search("Pod", scope, ns)}
podDisruptionBudgetExtractor(scope, ns)   == {Search("Pod", scope, ns)}

\* The extractor that the source of each type is given; some have none.
LinkedItemQueryExtractor(type, scope, ns) ==
  CASE type = "Pod"                     -> PodExtractor(scope, ns)
    [] type = "Service"                 -> serviceExtractor(scope, ns)
    [] type = "Ingress"                 -> ingressExtractor(scope, ns)
    [] type = "Endpoints"               -> EndpointsExtractor(scope, ns)
    [] type = "EndpointSlice"           -> endpointSliceExtractor(scope, ns)
    [] type = "Deployment"              -> deploymentExtractor(scope, ns)
    [] type = "StatefulSet"             -> statefulSetExtractor(scope, ns)
    [] type = "PersistentVolume"        -> PersistentVolumeExtractor(scope)
    [] type = "PersistentVolumeClaim"   -> PersistentVolumeClaimExtractor(scope)
    [] type = "Node"                    -> linkedItemExtractor
    [] type = "NetworkPolicy"           -> NetworkPolicyExtractor(scope, ns)
    [] type = "RoleBinding"             -> roleBindingExtractor(scope)
    [] type = "ClusterRoleBinding"      -> clusterRoleBindingExtractor(scope)
    [] type = "VolumeAttachment"        -> volumeAttachmentExtractor(scope)
    [] type = "ServiceAccount"          -> serviceAccountExtractor(scope, ns)
    [] type = "HorizontalPodAutoscaler" -> horizontalPodAutoscalerExtractor(scope, ns)
    [] type = "ReplicaSet"              -> replicaSetExtractor(scope, ns)
    [] type = "ReplicationController"   -> replicationControllerExtractor(scope, ns)
    [] type = "Job"                     -> jobExtractor(scope, ns)
    [] type = "PodDisruptionBudget"     -> podDisruptionBudgetExtractor(scope, ns)
    [] OTHER                            -> {}

\* An object may have owners of any kind, in its namespace or without one; those
\* of an object that has no namespace have none either.
ownerLinks(scope, ns) ==
  {link \in Local(scope, ns) : ns = "" => link.type \in ClusterKinds \cup {"CustomResource"}}

\* External: what is found in the attributes of an item.
ExtractLinksFromAttributes == {Ip, Dns}
AutoQueryExtract ==
  {"ConfigMap", "CronJob", "DaemonSet", "Deployment", "Job", "Pod", "ReplicaSet",
   "ReplicationController", "StatefulSet"}

\* resourceToItem: the links of an item.
LinkedItemQueries(i) ==
  ownerLinks(ScopeOf(i.ns), i.ns)
    \cup LinkedItemQueryExtractor(i.type, ScopeOf(i.ns), i.ns)
    \cup (IF i.type \in AutoQueryExtract THEN ExtractLinksFromAttributes ELSE {})

===============================================================================
