---------------------------- MODULE MetricLookup ----------------------------
(***************************************************************************)
(* How the reader finds out what a series is: refresh of                   *)
(* retrieval/series_cache.go asks the cache of targets for the target of   *)
(* the series, then the cache of metadata for the metric, by its name and  *)
(* by its name without a suffix such as _total or _bucket.  Samples of a   *)
(* series are dropped until a lookup has found both.  Prometheus changes   *)
(* its targets and their metadata meanwhile and is at times out of reach.  *)
(***************************************************************************)
EXTENDS Naturals, TargetCache, MetadataCache, ResourceMap

CONSTANTS MaxChanges, \* bound on what happens to Prometheus
          Series, \* the series in the log: <<key, additional label, metric name,
                  \* names of further labels>>
          MaxLabelCount, \* maxLabelCount
          Base    \* stripComplexMetricSuffix: the name without its suffix, or
                  \* the name itself if it has none

ASSUME LookupAssumption ==
    /\ Jobs = Keys \* one instance per job
    /\ \A r \in Series : r[1] \in Keys /\ r[3] \in Metrics
    /\ Base \in [Metrics -> Metrics]

VARIABLES changes, \* of Prometheus so far
          cur,     \* the series that is looked up, or None
          pc       \* where refresh is; "found" if it has ended with both known

vars == <<changes, promVars, targetVars, described, metadataVars, cur, pc>>

Init ==
    /\ TargetInit /\ MetadataInit
    /\ changes = 0 /\ cur = None /\ pc = "idle"

\* set calls refresh for a new entry, get for one without data (shouldRefresh).
Refresh(r) ==
    /\ pc \in {"idle", "found"}
    /\ cur' = r /\ pc' = "target"
    /\ UNCHANGED <<changes, promVars, targetVars, described, metadataVars>>

\* refresh goes on, or ends without having found the series.
GoTo(label) == pc' = label /\ cur' = IF label = "idle" THEN None ELSE cur

EntryLabels(r) == {"job", "instance", "label"} \cup r[4]
TargetLabels(t) == {"job", "instance"} \cup (IF t[2] = None THEN {} ELSE {"label"})

\* What refresh does with the target: the resource must be known, and there may
\* be MaxLabelCount labels besides those of the resource and the target.
Usable(t, r) ==
    \E map \in GetResource(t[3], EntryLabels(r)) :
      Cardinality((EntryLabels(r) \ map.labels) \ TargetLabels(t)) <= MaxLabelCount

\* targets.Get
FindTarget ==
    /\ pc = "target"
    /\ \/ (GetRequest(cur[1]) \/ GetApply) /\ GoTo("target")
       \/ \E t \in Targets \cup {None} :
            /\ GetReturn(cur[1], cur[2], t)
            /\ GoTo(IF t # None /\ Usable(t, cur) THEN "metadata" ELSE "idle")
       \/ GetError(cur[1]) /\ GoTo("idle")
    /\ UNCHANGED <<changes, described, metadataVars>>

\* metadata.Get for a name; where refresh goes on if it returns nil.
FindMetadata(name, otherwise) ==
    /\ \/ /\ GetCached(name) \/ (reachable /\ (GetBatch(cur[1], name) \/ GetMetric(cur[1], name)))
          /\ GoTo(IF Described(name, metadata') THEN "found" ELSE otherwise)
       \/ /\ ~Cached(name) /\ ~reachable
          /\ GoTo("idle")
          /\ UNCHANGED <<described, metadataVars>>
    /\ UNCHANGED <<changes, promVars, targetVars>>

FindName ==
    /\ pc = "metadata"
    /\ FindMetadata(cur[3], IF Base[cur[3]] = cur[3] THEN "idle" ELSE "base")

FindBase == pc = "base" /\ FindMetadata(Base[cur[3]], "idle")

ReaderStep == FindTarget \/ FindName \/ FindBase

Environment ==
    /\ changes < MaxChanges /\ changes' = changes + 1
    /\ \/ (\E t \in Targets : TargetChange(t)) /\ UNCHANGED <<described, metadataVars>>
       \/ ReachableChange /\ UNCHANGED <<described, metadataVars>>
       \/ (\E o \in Offered : DescribedChange(o)) /\ UNCHANGED <<promVars, targetVars>>
    /\ UNCHANGED <<cur, pc>>

Ask == RunRequest /\ UNCHANGED <<changes, described, metadataVars, cur, pc>>
Apply == RunApply /\ UNCHANGED <<changes, described, metadataVars, cur, pc>>
Retry(m) == RetryIntervalPasses(m) /\ UNCHANGED <<changes, promVars, targetVars, cur, pc>>

Next ==
    \/ \E r \in Series : Refresh(r)
    \/ ReaderStep
    \/ Ask \/ Apply
    \/ \E m \in Metrics : Retry(m)
    \/ Environment

Spec == Init /\ [][Next]_vars

\* Run's ticker keeps firing, the clock goes on, the reader does not stop in the
\* middle of a lookup and comes back to every series, whose samples keep coming.
FairSpec ==
    /\ Spec
    /\ WF_vars(ReaderStep) /\ WF_vars(Ask) /\ WF_vars(Apply)
    /\ \A m \in Metrics : WF_vars(Retry(m))
    /\ \A r \in Series : SF_vars(Refresh(r))

-----------------------------------------------------------------------------
(* Properties *)

\* Prometheus has a target for the series, with a resource, and the cache does
\* not hold it as it was discovered earlier.
HasTarget(r) ==
    /\ \E t \in active : t[1] = r[1] /\ Matches(t, r[2])
    /\ \A t \in active : t[1] = r[1] /\ Matches(t, r[2]) =>
         /\ Usable(t, r)
         /\ targets[t[1]] = None \/ \A u \in targets[t[1]] : Labels(u) = Labels(t) => u = t

\* Prometheus answers, has the target of the series, and every job with series
\* of its metric has the metadata of it, by the full name or without suffix.
Findable(r) ==
    /\ reachable /\ HasTarget(r)
    /\ \E name \in {r[3], Base[r[3]]} :
         \A s \in Series : name \in {s[3], Base[s[3]]} => Known(s[1], name) # {}

\* A series that Prometheus lastingly knows target and metadata of is found
\* again and again, whatever the caches hold about it from before: stale and
\* negative entries of both are replaced (targets/cache.go refresh and Get,
\* metadata/cache.go shouldRefetch).
LookupSucceeds ==
    \A r \in Series : <>[]Findable(r) => []<>(pc = "found" /\ cur = r)

\* Once the targets of Prometheus no longer change the cache holds exactly
\* those, up to the labels they were discovered with, although an answer to an
\* earlier request may be applied after one to a later request
\* (targets/cache.go refresh, called by Run and by Get).
CacheCurrent ==
    \A k \in Keys :
      LET found == {Labels(t) : t \in {u \in active : u[1] = k}}
      IN IF found = {} THEN targets[k] \in {None, {}}
         ELSE targets[k] # None /\ {Labels(t) : t \in targets[k]} = found

TargetsConverge == <>[](reachable) /\ <>[][active' = active]_vars => <>[]CacheCurrent

\* A job and instance that Get has not found stays recorded as such until an
\* answer has a target for it, however refreshes of Run and of Get follow each
\* other: Get does not ask Prometheus at every sample of its series.
NegativeKept ==
    [][\A k \in Keys : targets[k] = {} => targets'[k] # None]_vars

\* The type of a metric does not change once it is known, whatever later
\* requests for other jobs say: the series already sent keep their kind.
TypeFixed ==
    [][\A m \in Metrics : Found(metadata[m]) => metadata'[m] = metadata[m]]_vars
==============================================================================
