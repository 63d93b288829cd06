----------------------------- MODULE ResourceMap -----------------------------
(***************************************************************************)
(* The monitored resource of a series, from the names of its labels and of *)
(* the labels its target was discovered with: retrieval/resource_map.go    *)
(* and getResource of retrieval/series_cache.go.  The values, which are    *)
(* only copied and reformatted, are left out.                              *)
(***************************************************************************)
EXTENDS Naturals, Sequences
LOCAL INSTANCE SequencesExt

CONSTANTS UseGKE,      \* useGkeResource
          StaticLabels \* added to those of every target by
                       \* targetsWithDiscoveredLabels

Project == "_stackdriver_project_id"
Kubernetes == {Project, "_kubernetes_location", "_kubernetes_cluster_name"}
Apigee == {Project, "_kubernetes_location", "__meta_kubernetes_pod_label_org",
           "__meta_kubernetes_pod_label_env", "__meta_kubernetes_pod_name"}

\* A MatchLabel ("" for none), and the Prometheus labels of the LabelMap, which
\* are mapped to different labels of the resource.
Map(match, labels) == [match |-> match, labels |-> labels]

GKEResourceMap ==
    Map("", Kubernetes \cup {"__meta_kubernetes_namespace", "__meta_kubernetes_node_name",
                             "__meta_kubernetes_pod_name",
                             "__meta_kubernetes_pod_container_name"})

ResourceMappings ==
    << Map("__meta_kubernetes_pod_label_type_proxy", Apigee \cup {"proxy_name", "revision"}),
       Map("__meta_kubernetes_pod_label_type_devapp", Apigee \cup {"api_product_name"}),
       \* k8s_container, k8s_pod, k8s_node
       Map("", Kubernetes \cup {"__meta_kubernetes_namespace", "__meta_kubernetes_pod_name",
                                "__meta_kubernetes_pod_container_name"}),
       Map("", Kubernetes \cup {"__meta_kubernetes_namespace", "__meta_kubernetes_pod_name"}),
       Map("", Kubernetes \cup {"__meta_kubernetes_node_name"}),
       \* aws_ec2_instance, gce_instance
       Map("", {Project, "__meta_ec2_instance_id", "__meta_ec2_availability_zone",
                "__meta_ec2_owner_id"}),
       Map("", {"__meta_gce_project", "__meta_gce_instance_id", "__meta_gce_zone"}),
       \* generic_task
       Map("", {Project, "_generic_location", "_generic_namespace", "job", "instance"}) >>

\* tryTranslate and Translate: every label of the map is there.
Translates(map, discovered, entryLabels) ==
    /\ map.match \in {""} \cup discovered
    /\ map.labels \subseteq discovered \cup entryLabels

\* targetsWithDiscoveredLabels.Get
WithDiscoveredLabels(target) == target \cup StaticLabels

\* getResource: the map that is used, none if the resource is unknown.  The
\* labels of the map are taken away from those of the series.
\* BestEffortTranslate fills what is missing.
GetResource(target, entryLabels) ==
    LET discovered == WithDiscoveredLabels(target)
        first == SelectInSeq(ResourceMappings,
                             LAMBDA m : Translates(m, discovered, entryLabels))
    IN IF UseGKE THEN {GKEResourceMap}
       ELSE IF first = 0 THEN {} ELSE {ResourceMappings[first]}
==============================================================================
