-------------------------- MODULE MetricLookupProofs --------------------------
(***************************************************************************)
(* TLAPS proofs about MetricLookup: what the caches of targets and of      *)
(* metadata never forget, for any number of jobs, targets and metrics,     *)
(* however the refreshes of Run and of Get overlap.                        *)
(***************************************************************************)
EXTENDS MetricLookup, TLAPS

-----------------------------------------------------------------------------
(* The inductive invariant. *)

\* What Prometheus can answer: targets, at most one with given labels.
Answers == {T \in SUBSET Targets : Distinct(T)}

\* Prometheus and the answers that are to be applied.  Get, back from its
\* request, has one.
AnswersOK ==
    /\ active \in Answers
    /\ DOMAIN response = Refreshers
    /\ \A w \in Refreshers : response[w] = None \/ response[w] \in Answers
    /\ getter = "refresh" => response["get"] # None

\* An entry of the map has targets of its job and instance alone, at most one
\* with given labels: never two versions of a target that was discovered with
\* other labels in the meantime.
EntriesOwn ==
    \A k \in Keys : targets[k] = None \/
      (targets[k] \in Answers /\ (\A t \in targets[k] : t[1] = k))

TargetsOK == AnswersOK /\ DOMAIN targets = Keys /\ EntriesOwn

\* Every metric has an entry, be it NoEntry.
MetadataOK == metadata = [m \in Metrics |-> metadata[m]]

IInv == TargetsOK /\ MetadataOK

-----------------------------------------------------------------------------
(* refresh. *)

\* The target that refresh keeps for one of an answer is a target with the same
\* labels.
LEMMA KeptLabels ==
    ASSUME TargetsOK, NEW t \in Targets
    PROVE  Kept(t) \in Targets /\ Labels(Kept(t)) = Labels(t)
<1> DEFINE same == IF targets[t[1]] = None THEN {}
                   ELSE {p \in targets[t[1]] : Labels(p) = Labels(t)}
<1>1. Kept(t) = IF same = {} THEN t ELSE CHOOSE p \in same : TRUE
  BY DEF Kept
<1>2. t[1] \in Keys
  BY TargetAssumption
<1>3. \A p \in same : p \in Targets /\ Labels(p) = Labels(t)
  BY <1>2 DEF TargetsOK, EntriesOwn, Answers
<1> HIDE DEF same
<1>4. CASE same = {}
  BY <1>1, <1>4
<1>5. CASE same # {}
  <2>1. (CHOOSE p \in same : TRUE) \in same
    BY <1>5
  <2>. QED
    BY <1>1, <1>3, <1>5, <2>1
<1>. QED
  BY <1>4, <1>5

\* What the map gets for a job and instance from an answer is an entry of it.
LEMMA FoundOwn ==
    ASSUME TargetsOK, NEW answer \in Answers, NEW k \in Keys
    PROVE  /\ FoundIn(answer, k) \in Answers
           /\ \A t \in FoundIn(answer, k) : t[1] = k
<1>1. \A t \in answer : t \in Targets
  BY DEF Answers
<1>2. \A p \in FoundIn(answer, k) : \E t \in answer : t[1] = k /\ p = Kept(t)
  BY DEF FoundIn
<1>3. \A t \in answer : Kept(t) \in Targets /\ Labels(Kept(t)) = Labels(t)
  BY <1>1, KeptLabels
<1>4. \A p \in FoundIn(answer, k) : p \in Targets /\ p[1] = k
  BY <1>2, <1>3 DEF Labels
<1>5. \A t, u \in answer : Labels(t) = Labels(u) => t = u
  BY DEF Answers, Distinct
<1>6. Distinct(FoundIn(answer, k))
  <2>1. SUFFICES ASSUME NEW p \in FoundIn(answer, k), NEW q \in FoundIn(answer, k),
                        Labels(p) = Labels(q)
                 PROVE  p = q
    BY DEF Distinct
  <2>2. PICK t \in answer : p = Kept(t)
    BY <1>2
  <2>3. PICK u \in answer : q = Kept(u)
    BY <1>2
  <2>4. Labels(t) = Labels(u)
    BY <1>3, <2>1, <2>2, <2>3
  <2>. QED
    BY <1>5, <2>2, <2>3, <2>4
<1>. QED
  BY <1>4, <1>6 DEF Answers

\* refresh keeps the map well-formed and every negative entry an entry.
LEMMA RefreshedOwn ==
    ASSUME TargetsOK, NEW answer \in Answers, targets' = Refreshed(answer)
    PROVE  /\ DOMAIN targets' = Keys
           /\ EntriesOwn'
           /\ \A k \in Keys : targets[k] = {} => targets'[k] # None
<1>1. DOMAIN targets' = Keys
  BY DEF Refreshed
<1>2. \A k \in Keys :
        targets'[k] = IF FoundIn(answer, k) = {} /\ targets[k] # {} THEN None
                      ELSE FoundIn(answer, k)
  BY DEF Refreshed
<1>3. \A k \in Keys : /\ FoundIn(answer, k) \in Answers
                      /\ \A t \in FoundIn(answer, k) : t[1] = k
  BY FoundOwn
<1>4. EntriesOwn'
  <2>1. SUFFICES ASSUME NEW k \in Keys
                 PROVE  targets'[k] = None \/
                          (targets'[k] \in Answers /\ (\A t \in targets'[k] : t[1] = k))
    BY DEF EntriesOwn, Answers
  <2>2. CASE targets'[k] = None
    BY <2>2
  <2>3. CASE targets'[k] = FoundIn(answer, k)
    BY <1>3, <2>3
  <2>. QED
    BY <1>2, <2>2, <2>3
<1>5. \A T \in Answers : T # None
  BY TargetAssumption DEF Answers
<1>6. \A k \in Keys : targets[k] = {} => targets'[k] # None
  BY <1>2, <1>3, <1>5
<1>. QED
  BY <1>1, <1>4, <1>6

-----------------------------------------------------------------------------
(* The steps of the cache of targets. *)

\* What the steps of the cache of targets preserve of it.
NegativesStay == \A k \in Keys : targets[k] = {} => targets'[k] # None

\* Prometheus changes.
LEMMA PrometheusStep ==
    ASSUME TargetsOK,
           (\E t \in Targets : TargetChange(t)) \/ ReachableChange
    PROVE  TargetsOK' /\ NegativesStay
<1>1. UNCHANGED <<targets, response, getter>>
  BY DEF TargetChange, ReachableChange, targetVars
<1>2. active' \in Answers
  <2>1. CASE ReachableChange
    BY <2>1 DEF ReachableChange, TargetsOK, AnswersOK
  <2>2. ASSUME NEW t \in Targets, TargetChange(t)
        PROVE  active' \in Answers
    <3>1. active \in SUBSET Targets /\ (\A u, v \in active : Labels(u) = Labels(v) => u = v)
      BY DEF TargetsOK, AnswersOK, Answers, Distinct
    <3>2. CASE t \in active
      BY <2>2, <3>1, <3>2 DEF TargetChange, Answers, Distinct
    <3>3. CASE t \notin active
      <4>1. active' = {u \in active : Labels(u) # Labels(t)} \cup {t}
        BY <2>2, <3>3 DEF TargetChange
      <4>. QED
        BY <3>1, <4>1 DEF Answers, Distinct
    <3>. QED
      BY <3>2, <3>3
  <2>. QED
    BY <2>1, <2>2
<1>3. TargetsOK'
  BY <1>1, <1>2 DEF TargetsOK, AnswersOK, EntriesOwn, Answers
<1>4. \A T \in SUBSET Targets : T # None
  BY TargetAssumption
<1>5. NegativesStay
  BY <1>1, <1>4 DEF NegativesStay
<1>. QED
  BY <1>3, <1>5

\* A goroutine asks Prometheus.
LEMMA RequestStep ==
    ASSUME TargetsOK,
           RunRequest \/ (\E k : GetRequest(k))
    PROVE  TargetsOK' /\ NegativesStay
<1>1. UNCHANGED <<active, targets>>
  BY DEF RunRequest, GetRequest, promVars
<1>2. \A T \in SUBSET Targets : T # None
  BY TargetAssumption
<1>3. active \in Answers /\ active # None
  BY <1>2 DEF TargetsOK, AnswersOK, Answers
<1>4. \E w \in Refreshers : /\ response' = [response EXCEPT ![w] = active]
                            /\ \/ w = "get"
                               \/ w = "run" /\ getter' = getter
  BY DEF RunRequest, GetRequest, Refreshers
<1>5. PICK w \in Refreshers : /\ response' = [response EXCEPT ![w] = active]
                              /\ \/ w = "get"
                                 \/ w = "run" /\ getter' = getter
  BY <1>4
<1>6. DOMAIN response' = Refreshers
  BY <1>5 DEF TargetsOK, AnswersOK
<1>7. \A v \in Refreshers : response'[v] = IF v = w THEN active ELSE response[v]
  BY <1>5 DEF TargetsOK, AnswersOK
<1>8. \A v \in Refreshers : response'[v] = None \/ response'[v] \in Answers
  BY <1>3, <1>7 DEF TargetsOK, AnswersOK
<1>9. getter' = "refresh" => response'["get"] # None
  BY <1>3, <1>5, <1>7 DEF TargetsOK, AnswersOK, Refreshers
<1>10. TargetsOK'
  BY <1>1, <1>3, <1>6, <1>8, <1>9 DEF TargetsOK, AnswersOK, EntriesOwn, Answers
<1>11. NegativesStay
  BY <1>1, <1>2 DEF NegativesStay
<1>. QED
  BY <1>10, <1>11

\* A goroutine applies the answer it has, however old that is.
LEMMA ApplyStep ==
    ASSUME TargetsOK, RunApply \/ GetApply
    PROVE  TargetsOK' /\ NegativesStay
<1>1. active' = active
  BY DEF RunApply, GetApply, promVars
<1>2. \E w \in Refreshers : /\ response[w] # None
                            /\ targets' = Refreshed(response[w])
                            /\ response' = [response EXCEPT ![w] = None]
                            /\ \/ w = "get" /\ getter' = "relock"
                               \/ w = "run" /\ getter' = getter
  BY DEF RunApply, GetApply, Refreshers, TargetsOK, AnswersOK
<1>3. PICK w \in Refreshers : /\ response[w] # None
                              /\ targets' = Refreshed(response[w])
                              /\ response' = [response EXCEPT ![w] = None]
                              /\ \/ w = "get" /\ getter' = "relock"
                                 \/ w = "run" /\ getter' = getter
  BY <1>2
<1>4. response[w] \in Answers
  BY <1>3 DEF TargetsOK, AnswersOK
<1>5. DOMAIN targets' = Keys /\ EntriesOwn' /\ NegativesStay
  BY <1>3, <1>4, RefreshedOwn DEF NegativesStay
<1>6. DOMAIN response' = Refreshers
  BY <1>3 DEF TargetsOK, AnswersOK
<1>7. \A v \in Refreshers : response'[v] = IF v = w THEN None ELSE response[v]
  BY <1>3 DEF TargetsOK, AnswersOK
<1>8. \A v \in Refreshers : response'[v] = None \/ response'[v] \in Answers
  BY <1>7 DEF TargetsOK, AnswersOK
<1>9. getter' = "refresh" => response'["get"] # None
  BY <1>3, <1>7 DEF TargetsOK, AnswersOK, Refreshers
<1>10. AnswersOK'
  BY <1>1, <1>6, <1>8, <1>9 DEF TargetsOK, AnswersOK, Answers
<1>. QED
  BY <1>5, <1>10 DEF TargetsOK

\* Get returns, and sets a negative entry if there is none.
LEMMA ReturnStep ==
    ASSUME TargetsOK, NEW k, NEW label, NEW t, GetReturn(k, label, t)
    PROVE  TargetsOK' /\ NegativesStay
<1>1. UNCHANGED <<active, response>> /\ getter' = "idle"
  BY DEF GetReturn, promVars
<1>2. targets' = [targets EXCEPT ![k] = IF targets[k] = None THEN {} ELSE targets[k]]
  BY DEF GetReturn
<1>3. DOMAIN targets' = Keys
  BY <1>2 DEF TargetsOK
<1>4. \A j \in Keys : targets'[j] = IF j = k /\ targets[j] = None THEN {} ELSE targets[j]
  BY <1>2 DEF TargetsOK
<1>5. {} \in Answers /\ {} # None
  BY TargetAssumption DEF Answers, Distinct
<1>6. EntriesOwn'
  <2>1. SUFFICES ASSUME NEW j \in Keys
                 PROVE  targets'[j] = None \/
                          (targets'[j] \in Answers /\ (\A u \in targets'[j] : u[1] = j))
    BY DEF EntriesOwn, Answers
  <2>2. CASE targets'[j] = {}
    BY <1>5, <2>2
  <2>3. CASE targets'[j] = targets[j]
    BY <2>3 DEF TargetsOK, EntriesOwn
  <2>. QED
    BY <1>4, <2>2, <2>3
<1>7. NegativesStay
  BY <1>4, <1>5 DEF NegativesStay
<1>8. AnswersOK'
  BY <1>1 DEF TargetsOK, AnswersOK, Answers
<1>. QED
  BY <1>3, <1>6, <1>7, <1>8 DEF TargetsOK

\* The cache of targets is left alone.
LEMMA TargetStutter ==
    ASSUME TargetsOK, UNCHANGED <<promVars, targetVars>>
    PROVE  TargetsOK' /\ NegativesStay
<1>1. \A T \in SUBSET Targets : T # None
  BY TargetAssumption
<1>. QED
  BY <1>1 DEF TargetsOK, AnswersOK, EntriesOwn, Answers, NegativesStay, promVars, targetVars

-----------------------------------------------------------------------------
(* The steps of the cache of metadata. *)

\* No step of it replaces a type that is known.
TypesStay == \A m \in Metrics : Found(metadata[m]) => metadata'[m] = metadata[m]

\* Get of a metric that is not cached, and a retry interval that passes.
LEMMA MetadataStep ==
    ASSUME MetadataOK,
           (\E j, n : GetBatch(j, n) \/ GetMetric(j, n)) \/ (\E n : RetryIntervalPasses(n))
    PROVE  MetadataOK' /\ TypesStay
<1>1. CASE \E j, n : GetBatch(j, n)
  <2>1. PICK j, n : GetBatch(j, n)
    BY <1>1
  <2>2. metadata' = [m \in Metrics |-> IF metadata[m] = NoEntry
                                       THEN FetchBatch(j, m) ELSE metadata[m]]
    BY <2>1 DEF GetBatch
  <2>. QED
    BY <2>2 DEF MetadataOK, TypesStay, Found
<1>2. CASE (\E j, n : GetMetric(j, n)) \/ (\E n : RetryIntervalPasses(n))
  <2>1. \E n, md : ~Found(metadata[n]) /\ metadata' = [metadata EXCEPT ![n] = md]
    BY <1>2 DEF GetMetric, RetryIntervalPasses, Cached, Found
  <2>2. PICK n, md : ~Found(metadata[n]) /\ metadata' = [metadata EXCEPT ![n] = md]
    BY <2>1
  <2>. QED
    BY <2>2 DEF MetadataOK, TypesStay
<1>. QED
  BY <1>1, <1>2

\* The cache of metadata is left alone.
LEMMA MetadataStutter ==
    ASSUME MetadataOK, UNCHANGED metadata
    PROVE  MetadataOK' /\ TypesStay
  BY DEF MetadataOK, TypesStay

-----------------------------------------------------------------------------
(* The specification. *)

\* The initial states satisfy the invariant.
LEMMA InitOK == Init => IInv
<1>1. SUFFICES ASSUME Init PROVE IInv
  OBVIOUS
<1>2. AnswersOK
  BY <1>1 DEF Init, TargetInit, AnswersOK, Answers
<1>3. DOMAIN targets = Keys /\ EntriesOwn
  BY <1>1 DEF Init, TargetInit, EntriesOwn
<1>4. MetadataOK
  BY <1>1 DEF Init, MetadataInit, MetadataOK
<1>. QED
  BY <1>2, <1>3, <1>4 DEF IInv, TargetsOK

\* Every step preserves it, and neither cache forgets.
LEMMA StepOK ==
    IInv /\ [Next]_vars => IInv' /\ NegativesStay /\ TypesStay
<1>1. SUFFICES ASSUME IInv, [Next]_vars
               PROVE  IInv' /\ NegativesStay /\ TypesStay
  OBVIOUS
<1>2. TargetsOK /\ MetadataOK
  BY <1>1 DEF IInv
<1>3. CASE UNCHANGED vars
  BY <1>2, <1>3, TargetStutter, MetadataStutter DEF vars, metadataVars, IInv
<1>4. ASSUME NEW r \in Series, Refresh(r)
      PROVE  IInv' /\ NegativesStay /\ TypesStay
  BY <1>2, <1>4, TargetStutter, MetadataStutter DEF Refresh, metadataVars, IInv
<1>5. CASE FindTarget
  <2>1. UNCHANGED metadata
    BY <1>5 DEF FindTarget, metadataVars
  <2>2. \/ GetRequest(cur[1])
        \/ GetApply
        \/ \E t : GetReturn(cur[1], cur[2], t)
        \/ UNCHANGED <<promVars, targetVars>>
    BY <1>5 DEF FindTarget, GetError
  <2>. QED
    BY <1>2, <2>1, <2>2, RequestStep, ApplyStep, ReturnStep, TargetStutter,
       MetadataStutter DEF IInv
<1>6. CASE FindName \/ FindBase
  <2>1. \E name, otherwise : FindMetadata(name, otherwise)
    BY <1>6 DEF FindName, FindBase
  <2>2. PICK name, otherwise : FindMetadata(name, otherwise)
    BY <2>1
  <2>3. UNCHANGED <<promVars, targetVars>>
    BY <2>2 DEF FindMetadata
  <2>4. \/ GetBatch(cur[1], name) \/ GetMetric(cur[1], name)
        \/ UNCHANGED metadata
    BY <2>2 DEF FindMetadata, GetCached, metadataVars
  <2>5. MetadataOK' /\ TypesStay
    BY <1>2, <2>4, MetadataStep, MetadataStutter
  <2>. QED
    BY <1>2, <2>3, <2>5, TargetStutter DEF IInv
<1>7. CASE Ask
  BY <1>2, <1>7, RequestStep, MetadataStutter DEF Ask, metadataVars, IInv
<1>8. CASE Apply
  BY <1>2, <1>8, ApplyStep, MetadataStutter DEF Apply, metadataVars, IInv
<1>9. ASSUME NEW m \in Metrics, Retry(m)
      PROVE  IInv' /\ NegativesStay /\ TypesStay
  BY <1>2, <1>9, MetadataStep, TargetStutter DEF Retry, IInv
<1>10. CASE Environment
  <2>1. UNCHANGED metadata
    BY <1>10 DEF Environment, DescribedChange, metadataVars
  <2>2. \/ (\E t \in Targets : TargetChange(t)) \/ ReachableChange
        \/ UNCHANGED <<promVars, targetVars>>
    BY <1>10 DEF Environment
  <2>. QED
    BY <1>2, <2>1, <2>2, PrometheusStep, TargetStutter, MetadataStutter DEF IInv
<1>. QED
  BY <1>1, <1>3, <1>4, <1>5, <1>6, <1>7, <1>8, <1>9, <1>10 DEF Next, ReaderStep

\* The caches stay well-formed: whichever of the answers to Run and to Get is
\* applied first or last, an entry of the map has targets of its own job and
\* instance alone, one per set of labels.
THEOREM Invariance == Spec => []IInv
<1>1. Init => IInv
  BY InitOK
<1>2. IInv /\ [Next]_vars => IInv'
  BY StepOK
<1>. QED
  BY <1>1, <1>2, PTL DEF Spec

\* A negative entry stays an entry under any order of the refreshes of Run and
\* Get, for any number of jobs and targets.
THEOREM NegativeKeptHolds == Spec => NegativeKept
<1>1. IInv /\ [Next]_vars => [\A k \in Keys : targets[k] = {} => targets'[k] # None]_vars
  BY StepOK DEF NegativesStay
<1>. QED
  BY Invariance, <1>1, PTL DEF Spec, NegativeKept

\* The type of a metric that is known is kept whatever is asked later for
\* whichever job.
THEOREM TypeFixedHolds == Spec => TypeFixed
<1>1. IInv /\ [Next]_vars
        => [\A m \in Metrics : Found(metadata[m]) => metadata'[m] = metadata[m]]_vars
  BY StepOK DEF TypesStay
<1>. QED
  BY Invariance, <1>1, PTL DEF Spec, TypeFixed
==============================================================================
