---------------------------- MODULE SampleBuilder ----------------------------
(***************************************************************************)
(* What becomes of the samples of a scrape: sampleBuilder.next and         *)
(* buildDistribution of retrieval/transform.go, called by the reader until *)
(* a record is used up, with the reset handling and the sample intervals   *)
(* of retrieval/series_cache.go and the counter tracker of                 *)
(* retrieval/aggregator.go that they call.                                 *)
(*                                                                         *)
(* The processes that Prometheus scrapes are part of the model, so that    *)
(* what is reported can be compared with what happened: a process observes *)
(* events of several sizes, and starts again from 0 when it restarts.      *)
(***************************************************************************)
EXTENDS Integers, Sequences, FiniteSets, FiniteSetsExt, SequencesExt

CONSTANTS Targets,   \* scraped processes
          Hashes,    \* Stackdriver series
          Layouts,   \* what the targets expose: functions from target to a
                     \* sequence of series, in the order of the exposition
          Sizes,     \* event sizes 1..n; n is also the bound +Inf
          MaxTime,   \* bound: timestamps
          MaxEvents, \* bound: events of all processes
          MaxChanges \* bound: entries set again, collected or due for a lookup

\* A series.  kind is the metric type that decides how next treats it: the
\* _sum and _count of a summary are counters, its quantiles and metrics of
\* unknown type are gauges.  part is what follows a histogram's base name, le
\* the bound of a bucket; "other" is a name that merely begins with the base
\* name, of which the bare name is a case.  metric tells histograms and their
\* label sets (without le) apart.
Series == [kind : {"counter", "gauge", "histogram"},
           part : {"bucket", "badle", "sum", "count", "other", "none"},
           le : 0..Sizes, metric : 0..Sizes, hash : Hashes,
           exported : BOOLEAN, tracked : BOOLEAN]

ASSUME BuilderAssumption ==
    /\ Sizes \in Nat /\ MaxTime \in Nat /\ MaxEvents \in Nat /\ MaxChanges \in Nat
    /\ \A l \in Layouts : l \in [Targets -> Seq(Series)]
    /\ IsFiniteSet(Targets)

VARIABLES
    layout,   \* the input
    events,   \* events of at most each size in the process of a target, ever
    base,     \* events before the process' last start
    entry,    \* the cache entries
    interval, \* c.intervals
    samples,  \* what the reader has left of the record
    \* history
    scrapes,  \* the scrapes of a target: time, events and base then
    changes,  \* entries set again, collected or due for a lookup so far
    handled,  \* samples of the record that getResetAdjusted was called for
    steady,   \* targets all of whose series were known at all their scrapes
    fed,      \* what the tracker of a series recorded, and since when
    sent      \* points produced for each hash

inputVars == <<layout, events, base>>
vars == <<inputVars, entry, interval, samples, scrapes, changes, handled,
          steady, fed, sent>>

Refs == UNION {{<<p, i>> : i \in DOMAIN layout[p]} : p \in Targets}
SeriesOf(r) == layout[r[1]][r[2]]

NoInterval == [start |-> 0, end |-> -1]

\* A new seriesCacheEntry with a new counterTracker.  lookup is the state of
\* its target and metadata: "none" stands for no entry at all.
NewEntry(lookup) ==
    [lookup |-> lookup, hasReset |-> FALSE, resetValue |-> 0,
     resetTimestamp |-> 0, lastTimestamp |-> 0, lastValue |-> 0]

NotFed == [since |-> 0, total |-> 0]

Init ==
    /\ layout \in Layouts
    /\ events = [p \in Targets |-> [z \in 0..Sizes |-> 0]] /\ base = events
    /\ \E lookup \in [Refs -> {"populated", "waiting"}] :
         entry = [r \in Refs |-> NewEntry(lookup[r])]
    /\ interval = [h \in Hashes |-> NoInterval]
    /\ samples = <<>> /\ scrapes = [p \in Targets |-> <<>>]
    /\ changes = 0 /\ handled = {} /\ steady = Targets
    /\ fed = [r \in Refs |-> NotFed] /\ sent = [h \in Hashes |-> <<>>]

-----------------------------------------------------------------------------
(* The scraped processes (external).  What happens while the reader works  *)
(* on a record concerns later scrapes only, so it may as well wait.  Sizes *)
(* matter where a bucket bound tells them apart.                           *)

AllEvents == FoldFunctionOnSet(+, 0, [p \in Targets |-> events[p][Sizes]], Targets)

Observe(p, z) ==
    /\ samples = <<>> /\ AllEvents < MaxEvents /\ layout[p] # <<>>
    /\ z = Sizes \/ \E i \in DOMAIN layout[p] : layout[p][i].le = z
    /\ events' = [events EXCEPT ![p] =
                    [y \in 0..Sizes |-> IF y >= z THEN @[y] + 1 ELSE @[y]]]
    /\ UNCHANGED <<layout, base, entry, interval, samples, scrapes, changes,
                   handled, steady, fed, sent>>

\* A restart before any event cannot be told from none.
Restart(p) ==
    /\ samples = <<>> /\ base[p] # events[p]
    /\ base' = [base EXCEPT ![p] = events[p]]
    /\ UNCHANGED <<layout, events, entry, interval, samples, scrapes, changes, handled,
                   steady, fed, sent>>

\* Of the events counted, those that a series is about.
Seen(count, s) == count[IF s.part = "bucket" THEN s.le ELSE Sizes]

\* The value of a series in a scrape.
Value(scrape, s) == Seen(scrape.events, s) - Seen(scrape.base, s)

\* Prometheus scrapes p and logs a record.  A client may expose a histogram
\* with two timestamps at once (transform.go:229-232).
Scrape(p, t, n) ==
    /\ samples = <<>> /\ layout[p] # <<>>
    /\ \A u \in Targets : scrapes[u] # <<>> =>
          t >= Last(scrapes[u]).time + (IF u = p THEN 1 ELSE 0)
    /\ t + n - 1 <= MaxTime
    /\ n > 1 => \E i \in DOMAIN layout[p] : layout[p][i].kind = "histogram"
    /\ LET k == Len(layout[p])
           now(d) == [time |-> t + d, events |-> events[p], base |-> base[p]]
       IN /\ samples' = [i \in 1..(n * k) |->
               LET j == ((i - 1) % k) + 1
                   d == (i - 1) \div k
               IN [ref |-> <<p, j>>, time |-> t + d,
                   value |-> Value(now(d), layout[p][j])]]
          /\ scrapes' = [scrapes EXCEPT ![p] = @ \o [i \in 1..n |-> now(i - 1)]]
    /\ handled' = {}
    /\ steady' = IF \E r \in Refs : r[1] = p /\ entry[r].lookup # "populated"
                 THEN steady \ {p} ELSE steady
    /\ UNCHANGED <<inputVars, entry, interval, changes, fed, sent>>

-----------------------------------------------------------------------------
(* The series cache between records: entries are set when the series is    *)
(* read from the log (Init stands for the first time), again when it is    *)
(* logged again, garbage collected, and become due for another lookup.     *)

Change == samples = <<>> /\ changes < MaxChanges /\ changes' = changes + 1

Replace(r, e) ==
    /\ Change /\ scrapes[r[1]] # <<>>
    /\ entry' = [entry EXCEPT ![r] = e]
    /\ fed' = [fed EXCEPT ![r] = NotFed]
    /\ steady' = steady \ {r[1]}
    /\ UNCHANGED <<inputVars, interval, samples, scrapes, handled, sent>>

\* refresh in set finds target and metadata, or does not: errors are ignored.
SetSeries(r, lookup) == Replace(r, NewEntry(lookup))

GarbageCollect(r) == entry[r].lookup # "none" /\ Replace(r, NewEntry("none"))

\* Timing assumption: refreshInterval (3 min) is longer than the retries of
\* a record.
RefreshIsDue(r) ==
    /\ Change /\ entry[r].lookup = "waiting"
    /\ entry' = [entry EXCEPT ![r].lookup = "due"]
    /\ UNCHANGED <<inputVars, interval, samples, scrapes, handled, steady, fed, sent>>

-----------------------------------------------------------------------------
(* What the builder calls. *)

\* Mutant: the first value is not taken as the starting point.
ResetAdjustedFromZero(e, t, v) ==
    IF ~e.hasReset
    THEN [e EXCEPT !.hasReset = TRUE, !.resetTimestamp = t, !.resetValue = 0]
    ELSE IF v < e.resetValue
         THEN [e EXCEPT !.resetValue = 0, !.resetTimestamp = t - 1]
         ELSE e

\* getResetAdjusted's effect on the entry; the adjusted sample is
\* <<resetTimestamp, v - resetValue>> of the result, and is to be dropped
\* when the entry had no reset timestamp before.
ResetAdjusted(e, t, v) ==
    IF ~e.hasReset
    THEN [e EXCEPT !.hasReset = TRUE, !.resetTimestamp = t, !.resetValue = v]
    ELSE IF v < e.resetValue
         THEN [e EXCEPT !.resetValue = 0, !.resetTimestamp = t - 1]
         ELSE e

\* Mutant: only the beginnings are compared.
AcceptsLaterStart(iv, start, end) ==
    \/ iv = NoInterval
    \/ start = iv.start /\ end > iv.end
    \/ start > iv.start

\* sampleInterval.accepts, or there is no interval yet.
Accepts(iv, start, end) ==
    \/ iv = NoInterval
    \/ start = iv.start /\ end > iv.end
    \/ start > iv.start /\ start >= iv.end

\* updateSampleInterval, and the sample is returned for Append if it succeeds.
Produce(h, point) ==
    IF Accepts(interval[h], point.start, point.end)
    THEN /\ interval' = [interval EXCEPT ![h] =
                           [start |-> point.start, end |-> point.end]]
         /\ sent' = [sent EXCEPT ![h] = Append(@, point)]
    ELSE UNCHANGED <<interval, sent>>

\* Mutant: the value before a reset is counted again.
DeltaAfterReset(e, v) == IF v < e.lastValue THEN e.lastValue ELSE v - e.lastValue

\* What counterTracker.newPoint records for a point that is not the first.
Delta(e, v) == IF v < e.lastValue THEN v ELSE v - e.lastValue

\* newPoint: the first point only sets the starting value, an older one is
\* ignored.
NewPoint(e, t, v) ==
    IF t < e.lastTimestamp THEN e
                           ELSE [e EXCEPT !.lastTimestamp = t, !.lastValue = v]

Feed(f, e, t, v) ==
    IF e.lastTimestamp = 0 THEN [since |-> t, total |-> 0]
    ELSE IF t < e.lastTimestamp THEN f
    ELSE [f EXCEPT !.total = @ + Delta(e, v)]

\* Answers of a lookup that is due; any other entry is not looked up.
Answer == {"found", "lacks", "fails"}
Answers == [{r \in Refs : entry[r].lookup = "due"} -> Answer]

\* Mutant: lastRefresh is not set.
LookedUntimed(answer, r) ==
    IF entry[r].lookup = "due" /\ answer[r] = "found" THEN "populated"
                                                     ELSE entry[r].lookup

\* get: the entry's lookup afterwards, and whether it fails.
Looked(answer, r) ==
    IF entry[r].lookup # "due" THEN entry[r].lookup
    ELSE IF answer[r] = "found" THEN "populated" ELSE "waiting"
Fails(answer, r) == entry[r].lookup = "due" /\ answer[r] = "fails"

-----------------------------------------------------------------------------
(* sampleBuilder.next, by the kind of the first sample. *)

First == Head(samples)
FirstSeries == SeriesOf(First.ref)

\* next finds the entry populated and calls its tracker.
Tracked(answer) ==
    LET e == [entry[First.ref] EXCEPT !.lookup = Looked(answer, First.ref)]
    IN IF FirstSeries.tracked THEN NewPoint(e, First.time, First.value) ELSE e

FeedTracker ==
    fed' = IF FirstSeries.tracked
           THEN [fed EXCEPT ![First.ref] = Feed(@, entry[First.ref], First.time,
                                                First.value)]
           ELSE fed

\* The lookup fails: all samples are kept and the reader calls next again.
NextFails(answer) ==
    /\ Fails(answer, First.ref)
    /\ entry' = [entry EXCEPT ![First.ref].lookup = Looked(answer, First.ref)]
    /\ UNCHANGED <<inputVars, interval, samples, scrapes, changes, handled, steady, fed, sent>>

\* No entry, or one without target or metadata.
NextUnknown(answer) ==
    /\ ~Fails(answer, First.ref) /\ Looked(answer, First.ref) # "populated"
    /\ entry' = [entry EXCEPT ![First.ref].lookup = Looked(answer, First.ref)]
    /\ samples' = Tail(samples)
    /\ UNCHANGED <<inputVars, interval, scrapes, changes, handled, steady, fed, sent>>

NextUnexported(answer) ==
    /\ Looked(answer, First.ref) = "populated" /\ ~FirstSeries.exported
    /\ entry' = [entry EXCEPT ![First.ref] = Tracked(answer)] /\ FeedTracker
    /\ samples' = Tail(samples)
    /\ UNCHANGED <<inputVars, interval, scrapes, changes, handled, steady, sent>>

NextGauge(answer) ==
    /\ Looked(answer, First.ref) = "populated" /\ FirstSeries.exported
    /\ FirstSeries.kind = "gauge"
    /\ entry' = [entry EXCEPT ![First.ref] = Tracked(answer)] /\ FeedTracker
    /\ samples' = Tail(samples)
    /\ Produce(FirstSeries.hash,
               [ref |-> First.ref, start |-> 0, end |-> First.time,
                value |-> First.value, buckets |-> <<>>, again |-> FALSE])
    /\ UNCHANGED <<inputVars, scrapes, changes, handled, steady>>

NextCounter(answer) ==
    /\ Looked(answer, First.ref) = "populated" /\ FirstSeries.exported
    /\ FirstSeries.kind = "counter"
    /\ LET e == Tracked(answer)
           f == ResetAdjusted(e, First.time, First.value)
       IN /\ entry' = [entry EXCEPT ![First.ref] = f]
          /\ IF e.hasReset
             THEN Produce(FirstSeries.hash,
                    [ref |-> First.ref, start |-> f.resetTimestamp,
                     end |-> First.time, value |-> First.value - f.resetValue,
                     buckets |-> <<>>, again |-> First \in handled])
             ELSE UNCHANGED <<interval, sent>>
    /\ FeedTracker
    /\ samples' = Tail(samples) /\ handled' = handled \cup {First}
    /\ UNCHANGED <<inputVars, scrapes, changes, steady>>

-----------------------------------------------------------------------------
(* buildDistribution.  Its loop runs over the samples up to the first one  *)
(* that does not belong to the histogram; what it does to an entry depends *)
(* on no other entry, so the loop is a set of samples rather than a fold.  *)

\* Same base name or one that extends it, and same labels aside from le.
SameMetric(r) == SeriesOf(r).metric = FirstSeries.metric

\* The k-th sample ends the loop.
Ends(answer, k) ==
    LET s == samples[k]
    IN \/ Fails(answer, s.ref)
       \/ /\ Looked(answer, s.ref) = "populated"
          /\ \/ ~SameMetric(s.ref)
             \/ s.time # First.time
             \/ SeriesOf(s.ref).part \in {"other", "none"}

\* Mutant: Less is the wrong way round.
BucketCountsDescending(dist) ==
    [b \in DOMAIN dist |->
       LET above == {c \in DOMAIN dist : c > b}
       IN dist[b] - (IF above = {} THEN 0 ELSE dist[Min(above)])]

\* sort.Sort puts the buckets in the order of their bounds; each then counts
\* what the one before it does not.
BucketCounts(dist) ==
    [b \in DOMAIN dist |->
       LET below == {c \in DOMAIN dist : c < b}
       IN dist[b] - (IF below = {} THEN 0 ELSE dist[Max(below)])]

NextHistogram(answer) ==
    /\ Looked(answer, First.ref) = "populated" /\ FirstSeries.exported
    /\ FirstSeries.kind = "histogram"
    /\ LET stop == Min({k \in DOMAIN samples : Ends(answer, k)}
                       \cup {Len(samples) + 1})
           failed == stop <= Len(samples) /\ Fails(answer, samples[stop].ref)
           before(r) == IF r = First.ref THEN Tracked(answer) ELSE
                        [entry[r] EXCEPT !.lookup = Looked(answer, r)]
           known(K) == {k \in K : Looked(answer, samples[k].ref) = "populated"}
           run == known(1..(stop - 1))
           \* getResetAdjusted is called before the suffix is looked at.
           adjusted == run \cup {k \in known({stop} \cap DOMAIN samples) :
                                    /\ SameMetric(samples[k].ref)
                                    /\ samples[k].time = First.time}
           after(k) == ResetAdjusted(before(samples[k].ref), samples[k].time,
                                     samples[k].value)
           of(part) == {k \in run : SeriesOf(samples[k].ref).part = part}
           skip == \E k \in run \ of("badle") : ~before(samples[k].ref).hasReset
           value(k) == samples[k].value - after(k).resetValue
           dist == [b \in {SeriesOf(samples[k].ref).le : k \in of("bucket")} |->
                      value(CHOOSE k \in of("bucket") :
                              SeriesOf(samples[k].ref).le = b)]
       IN /\ entry' = [r \in Refs |->
                IF \E k \in adjusted : samples[k].ref = r
                THEN after(CHOOSE k \in adjusted : samples[k].ref = r)
                ELSE IF \E k \in 1..stop : k \in DOMAIN samples /\ samples[k].ref = r
                THEN before(r) ELSE entry[r]]
          /\ handled' = handled \cup {samples[k] : k \in adjusted}
          /\ samples' = IF failed THEN samples
                        ELSE SubSeq(samples, stop, Len(samples))
          /\ IF failed \/ skip \/ of("count") = {}
             THEN UNCHANGED <<interval, sent>>
             ELSE LET c == Max(of("count"))
                  IN Produce(FirstSeries.hash,
                       [ref |-> samples[c].ref,
                        start |-> after(c).resetTimestamp,
                        end |-> First.time, value |-> value(c),
                        buckets |-> BucketCounts(dist),
                        again |-> samples[c] \in handled])
    /\ FeedTracker
    /\ UNCHANGED <<inputVars, scrapes, changes, steady>>

BuildNext(answer) ==
    \/ NextFails(answer) \/ NextUnknown(answer) \/ NextUnexported(answer)
    \/ NextGauge(answer) \/ NextCounter(answer) \/ NextHistogram(answer)

\* The reader's loop over the samples of a record.
ReaderStep == samples # <<>> /\ \E answer \in Answers : BuildNext(answer)

\* No record is left, and the world beyond the bounds is at rest.
Idle == samples = <<>> /\ UNCHANGED vars

Next ==
    \/ ReaderStep \/ Idle
    \/ \E p \in Targets :
         \/ Restart(p)
         \/ \E z \in 1..Sizes : Observe(p, z)
         \/ \E t \in 1..MaxTime, n \in 1..2 : Scrape(p, t, n)
    \/ \E r \in Refs :
         \/ GarbageCollect(r) \/ RefreshIsDue(r)
         \/ \E lookup \in {"populated", "waiting"} : SetSeries(r, lookup)

Spec == Init /\ [][Next]_vars
FairSpec == Spec /\ WF_vars(ReaderStep)

-----------------------------------------------------------------------------
(* Properties *)

\* The last scrape of p at or before t.
ScrapeAt(p, t) ==
    scrapes[p][Max({i \in DOMAIN scrapes[p] : scrapes[p][i].time <= t})]

\* Events between the scrapes of p that two times stand for, and whether the
\* process ran all the time.
Happened(p, s, t) == [z \in 0..Sizes |-> ScrapeAt(p, t).events[z] - ScrapeAt(p, s).events[z]]

NoRestart(p, s, t) == ScrapeAt(p, s).base = ScrapeAt(p, t).base

Cumulative(point) == SeriesOf(point.ref).kind # "gauge"

(***************************************************************************)
(* Stackdriver accepts the points of a cumulative series only if any two   *)
(* intervals either begin together or do not overlap, and none is empty.   *)
(* So it is for each hash, although series come and go and share hashes    *)
(* (updateSampleInterval, series_cache.go:264-281).  An interval is empty  *)
(* only if getResetAdjusted has been called before for the same sample: on *)
(* behalf of a histogram whose name the series' name extends, or in a call *)
(* of next that failed after it.                                           *)
(***************************************************************************)
IntervalsLegal ==
    \A h \in Hashes : \A i, j \in DOMAIN sent[h] :
        LET p == sent[h][i]
            q == sent[h][j]
        IN /\ p.start < p.end \/ (p.start = p.end /\ p.again)
           /\ i < j => \/ p.start = q.start /\ p.end < q.end
                       \/ p.end <= q.start

(***************************************************************************)
(* A point never reports events that did not happen since the scrape its   *)
(* reset timestamp stands for, whichever restarts go unnoticed: neither    *)
(* next nor buildDistribution adds to a counter what was counted before    *)
(* (getResetAdjusted, series_cache.go:283-312).                            *)
(***************************************************************************)
NeverOvercounts ==
    \A h \in Hashes : \A i \in DOMAIN sent[h] :
        LET p == sent[h][i]
        IN Cumulative(p) =>
             p.value <= Seen(Happened(p.ref[1], p.start, p.end), SeriesOf(p.ref))

(***************************************************************************)
(* A distribution is the histogram of what the process observed since the  *)
(* reset timestamp, bucket by bucket: samples of different histograms and  *)
(* scrapes are not mixed, in whatever order the buckets come.  Provided    *)
(* the process did not restart and the cache knew all series all the time: *)
(* a series that is learnt late starts from a later value than the others. *)
(***************************************************************************)
Bounds(point) ==
    {layout[point.ref[1]][i].le : i \in
        {i \in DOMAIN layout[point.ref[1]] :
           /\ layout[point.ref[1]][i].metric = SeriesOf(point.ref).metric
           /\ layout[point.ref[1]][i].part = "bucket"}}

DistributionTrue ==
    \A h \in Hashes : \A i \in DOMAIN sent[h] :
        LET p == sent[h][i]
            n == Happened(p.ref[1], p.start, p.end)
        IN /\ SeriesOf(p.ref).kind = "histogram" /\ p.ref[1] \in steady
           /\ NoRestart(p.ref[1], p.start, p.end)
           => /\ p.value = n[Sizes]
              /\ p.buckets = [b \in Bounds(p) |->
                                n[b] - n[Max({c \in Bounds(p) : c < b} \cup {0})]]

(***************************************************************************)
(* The aggregated counter never counts an event twice, counts all between  *)
(* two samples of a process that did not restart, and gets every sample of *)
(* a series the cache knows ("newPoint gets called on each new sample",    *)
(* aggregator.go:126) but those that buildDistribution consumes.           *)
(***************************************************************************)
Parts == {"bucket", "badle", "sum", "count"}

\* A histogram that is exported has the name and the labels of r.
OfHistogram(r) ==
    \E i \in DOMAIN layout[r[1]] :
        LET s == layout[r[1]][i]
        IN s.kind = "histogram" /\ s.exported /\ s.metric = SeriesOf(r).metric

FedByNext(r) ==
    SeriesOf(r).tracked /\ ~(SeriesOf(r).part \in Parts /\ OfHistogram(r))

AggregateTrue ==
    \A r \in Refs :
        LET p == r[1]
            t == entry[r].lastTimestamp
            seen == Seen(Happened(p, fed[r].since, t), SeriesOf(r))
        IN /\ fed[r].since # 0 =>
                /\ fed[r].total <= seen
                /\ NoRestart(p, fed[r].since, t) => fed[r].total = seen
           /\ FedByNext(r) /\ samples = <<>> /\ p \in steady /\ scrapes[p] # <<>>
              => t = Last(scrapes[p]).time

(***************************************************************************)
(* A call of next shortens the reader's samples, or it fails and leaves    *)
(* one lookup less to fail: refresh sets lastRefresh before it asks        *)
(* (series_cache.go:340).  Hence a record is used up after finitely many   *)
(* calls, whatever fails in the middle of a histogram.                     *)
(***************************************************************************)
Due == {r \in Refs : entry[r].lookup = "due"}

NextProgresses ==
    [][samples # <<>> => \/ Len(samples') < Len(samples)
                         \/ Cardinality(Due') < Cardinality(Due)]_vars

(***************************************************************************)
(* "next extracts the next sample from the TSDB input sample list and      *)
(* returns the remainder of the input" (transform.go:38-39), so that the   *)
(* reader gets through every record, whatever its series are called.       *)
(***************************************************************************)
RecordConsumed == samples # <<>> ~> samples = <<>>
==============================================================================
