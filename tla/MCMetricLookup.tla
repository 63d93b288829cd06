--------------------------- MODULE MCMetricLookup ---------------------------
(***************************************************************************)
(* Two jobs that expose the same metric with different types; the target   *)
(* of one has an additional label, was at first discovered without what    *)
(* makes it a pod, and its series have the suffix _total.                  *)
(***************************************************************************)
EXTENDS MetricLookup

MCKeys == {"j1", "j2"}
MCPod == {"__meta_kubernetes_namespace", "__meta_kubernetes_pod_name"}
MCTargets == {<<"j1", "a", MCPod>>, <<"j1", "a", {}>>, <<"j2", None, MCPod>>}
MCMetrics == {"m", "m_total", "up"}
MCOffered == {<<"j1", "m", "counter">>, <<"j2", "m", "gauge">>}
MCSeries == {<<"j1", "a", "m_total", {}>>, <<"j2", "b", "m", {"code"}>>}
MCBase == [m \in MCMetrics |-> IF m = "m_total" THEN "m" ELSE m]
MCStaticLabels == Kubernetes
==============================================================================
