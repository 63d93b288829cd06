---------------------------- MODULE MetadataCache ----------------------------
(***************************************************************************)
(* The cache of metric metadata of metadata/cache.go, used by the reader   *)
(* alone.  A request is made for all metrics of a target when its job is   *)
(* seen for the first time, later for single metrics.  Entries are kept    *)
(* by the name of the metric, whichever job they came from.                *)
(***************************************************************************)
EXTENDS FiniteSets

CONSTANTS Jobs,     \* jobs, with one instance each
          Metrics,  \* metric names
          Offered,  \* the metadata there may be: triples of a job, a metric and
                    \* its type
          Internal, \* the internalMetrics, which no target has metadata of
          Static,   \* the metrics with static metadata
          Rules     \* names with a colon

ASSUME MetadataAssumption ==
    /\ Internal \cup Static \cup Rules \subseteq Metrics
    /\ \A o \in Offered : o[1] \in Jobs /\ o[2] \in Metrics \ Internal

VARIABLES
    described, \* Prometheus (external): the metadata its targets have; one type
               \* per job and metric
    metadata,  \* c.metadata: NoEntry, a missing entry (Stale once it is older
               \* than retryInterval), or the type
    seenJobs

metadataVars == <<metadata, seenJobs>>

NoEntry == "no entry"
Missing == "missing"
Stale == "stale"
Found(md) == md \notin {NoEntry, Missing, Stale}

\* The type of the internal metrics, and of metrics named like a rule.
Gauge == "gauge"

OneType(d) == \A o, p \in d : o[1] = p[1] /\ o[2] = p[2] => o = p

MetadataInit ==
    /\ described \in {d \in SUBSET Offered : OneType(d)}
    /\ metadata = [m \in Metrics |-> NoEntry] /\ seenJobs = {}

\* Prometheus scrapes the target of a job with other metadata than before.
DescribedChange(o) ==
    /\ described' = IF o \in described THEN described \ {o}
                    ELSE {p \in described : <<p[1], p[2]>> # <<o[1], o[2]>>} \cup {o}
    /\ UNCHANGED metadataVars

RetryIntervalPasses(m) ==
    /\ metadata[m] = Missing
    /\ metadata' = [metadata EXCEPT ![m] = Stale]
    /\ UNCHANGED <<described, seenJobs>>

-----------------------------------------------------------------------------

\* The answer of the API about one metric of a job's target.
Known(j, m) == {o \in described : o[1] = j /\ o[2] = m}
Type(j, m) == (CHOOSE o \in Known(j, m) : TRUE)[3]

\* fetchMetric: a not-found entry if there is no data.
FetchMetric(j, m) == IF Known(j, m) = {} THEN Missing ELSE Type(j, m)

\* fetchBatch: what the API has for the target, and the internal metrics;
\* nothing at all if it has nothing ("not_found").
FetchBatch(j, m) ==
    IF \A n \in Metrics : Known(j, n) = {} THEN NoEntry
    ELSE IF m \in Internal THEN Gauge
    ELSE IF Known(j, m) = {} THEN NoEntry ELSE Type(j, m)

\* Mutant: shouldRefetch is never true.
CachedForGood(m) == m \in Static \/ metadata[m] # NoEntry

\* Get finds static metadata, or an entry that need not be fetched again.
Cached(m) == m \in Static \/ metadata[m] \notin {NoEntry, Stale}

\* Mutant: the batch sets every metric it has.
GetBatchOverwrites(j, m) ==
    /\ ~Cached(m) /\ j \notin seenJobs
    /\ metadata' = [n \in Metrics |-> IF FetchBatch(j, n) # NoEntry
                                      THEN FetchBatch(j, n) ELSE metadata[n]]
    /\ seenJobs' = seenJobs \cup {j}
    /\ UNCHANGED described

\* The batch only sets metrics that have not been seen before.
GetBatch(j, m) ==
    /\ ~Cached(m) /\ j \notin seenJobs
    /\ metadata' = [n \in Metrics |-> IF metadata[n] = NoEntry
                                      THEN FetchBatch(j, n) ELSE metadata[n]]
    /\ seenJobs' = seenJobs \cup {j}
    /\ UNCHANGED described

GetMetric(j, m) ==
    /\ ~Cached(m) /\ j \in seenJobs
    /\ metadata' = [metadata EXCEPT ![m] = FetchMetric(j, m)]
    /\ UNCHANGED <<described, seenJobs>>

GetCached(m) == Cached(m) /\ UNCHANGED <<described, metadataVars>>

\* What Get returns is not nil: the static metadata comes before the server's,
\* and a name with a colon passes for a gauge.
Described(m, md) == m \in Static \cup Rules \/ Found(md[m])
==============================================================================
