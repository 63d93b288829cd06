# A TLA+ development of the Stackdriver Prometheus sidecar

The sidecar runs next to a Prometheus server. It follows the server's write
ahead log (WAL), turns the samples it finds there into Stackdriver time series,
and sends them in batches. It keeps no data of its own but a small progress
file. This directory models the parts of it in which goroutines, failures and
restarts meet, checks them with TLC on small instances, and proves the most
important results with TLAPS for every value of the constants.

## 1. Inventory

| Part | Source | State | Operations | Hard behaviour |
|---|---|---|---|---|
| Queue manager | `stackdriver/queue_manager.go` | shard collection behind an RWMutex, channels, pending batches, `numShards`, `quit` | `Append`, `Start`, `Stop`, `updateShardsLoop`, `reshardLoop`, `reshard`, `runShard`, `sendSamplesWithBackoff` | shards are replaced while samples arrive, are batched and retried; shutdown races with all of it |
| Storage client | `stackdriver/client.go` | connection, per-call error channel and wait group | `getConnection`, `Store`, `Close` | concurrent requests, partial failures, a channel nobody drains before the end |
| WAL tailer | `tail/tail.go` | open segment, `nextSegment`, offset | `Tail`, `Read`, `Size`, `Offset`, `CurrentSegment`, `Close` | the directory changes while it is listed and read; no notification, only polling |
| Prometheus reader | `retrieval/manager.go` | start offset, progress file | `Run`, `ReadProgressFile`, `SaveProgressFile` | crashes and restarts, samples that live in memory only |
| Series cache | `retrieval/series_cache.go` | entries, reset values, intervals, `lastCheckpoint` | `set`, `get`, `refresh`, `garbageCollect`, `getResetAdjusted`, `updateSampleInterval` | the lock is not held across a refresh; the collector judges entries by a checkpoint while the reader lags |
| Sample builder | `retrieval/transform.go` | none | `next`, `buildDistribution` | resets, histograms whose series are partly unknown, lookups that fail in the middle and are retried |
| Counter aggregator | `retrieval/aggregator.go` | last value and timestamp per series | `getTracker`, `newPoint` | restarts of the counted process |
| Resource map | `retrieval/resource_map.go` | none | `Translate`, `BestEffortTranslate` | none of its own; it decides whether a target is of use |
| Metadata cache | `metadata/cache.go` | metadata by metric name, `seenJobs` | `Get`, `fetchBatch`, `fetchMetric` | negative entries that expire, batches of several jobs that disagree |
| Target cache | `targets/cache.go` | targets by job and instance | `Run`, `refresh`, `Get` | two goroutines ask without the lock and apply the answers in any order; negative entries |
| Process | `cmd/stackdriver-prometheus-sidecar/main.go` | run group, contexts | five actors and their interrupts | the order of the interrupts, an actor that fails at once |
| Rates | `stackdriver/ewma.go` | events since the last tick, the average | `incr`, `tick`, `rate` | they close a feedback loop through the number of shards |
| File writer, hash, status page, uname | the remaining small files | none worth modelling | | |

How they interact: the **tailer** is an `io.Reader` under the WAL reader of the
**Prometheus reader**. For a series record the reader calls `set` of the
**series cache**; for each sample it calls the **sample builder**, which asks the
cache, the **counter aggregator** and, through a refresh, the **target** and
**metadata caches** (HTTP calls to Prometheus). The result goes to
`Append` of the **queue manager**, which blocks when a shard's channel is full;
that is the only back pressure there is. Each shard calls `Store` of its own
**client**. The queue manager's updater reads `Size` and `Offset` of the tailer.
**main** starts and interrupts all of it in one run group. Prometheus, the
Stackdriver API and the scraped processes are the environment.

What makes each part correct:

* queue manager: samples of a series are delivered in order, none is lost or
  doubled, a request has one point per series, `Stop` flushes and returns;
* client: a batch is partitioned into requests, what is counted as sent was
  stored, no goroutine blocks or outlives `Store`;
* tailer: nothing is skipped, offsets advance with what is read and, in a
  segment, stay within `Size`;
* reader: whatever the crashes, samples are resolved or still buffered;
* series cache: no series that is still needed is forgotten, obsolete ones are;
* sample builder: intervals are legal for Stackdriver, values are never inflated,
  distributions are those of the process, every call gets on;
* lookups: a series that Prometheus knows is found whatever was cached before, a
  known type does not change;
* shards: their number settles at what the load needs;
* process: a shutdown ends, and what was accepted has been sent by then.

## 2. Modules

| Module | Models | Variables and actions |
|---|---|---|
| `QueueManager` | `queue_manager.go` | One program counter per thread (`appender`, `starter`, `stopper`, `updater`, `resharder`, `runner[s]`). The lock is its writer half; the only reader, `Append`, holds the read lock exactly at `"send"`. `"cur"` is `t.shards` and `"old"` is the collection that `reshard` drains. A sample is its number in the order of the `Append` calls. |
| `InOrderDelivery` | what the queue manager promises | A batch is any set of samples each of which is the oldest unresolved one of its series. |
| `Sidecar` | the run group of `main.go` | EXTENDS `QueueManager` and adds the five actors, their interrupts in order, and the reader that calls `Append`. |
| `StorageClient` | `client.go` with `sendSamplesWithBackoff` | The sender's and every request goroutine's program counter, the errors channel, what the backend has written. |
| `Tailer` | `tail.go` | The directory (`first..last`, lengths, checkpoints) that Prometheus changes, and the steps of `Tail` and `Read` between two file system calls. |
| `Reader` | `manager.go`, the progress file, the start of the reader actor in `main.go` | The log as a sequence of records, the file, the reader's position, what the queue manager holds, and crashes. |
| `SeriesCache` | entries and garbage collection of `series_cache.go` | Entry states `none`, `due`, `waiting`, `populated`; `refresh` in its two halves; the collector in three steps. |
| `SampleBuilder` | `next`, `buildDistribution`, `getResetAdjusted`, `updateSampleInterval`, `newPoint`, the reader's loop over a record | The scraped processes (their events counted cumulatively by size, as buckets do, and how many of them were before the last start), the record that is worked on, the entries, and what was produced. One action per outcome of `next`. `MCSampleBuilder` says what the targets expose. |
| `TargetCache` | `targets/cache.go` | `targets`, the answer that each of the two refreshers has yet to apply, where `Get` is. `None` is no entry, `{}` the nil entry of a negative lookup. |
| `MetadataCache` | `metadata/cache.go` | `metadata` by metric name (no entry, missing, missing and older than `retryInterval`, or the type), `seenJobs`. |
| `ResourceMap` | `resource_map.go`, `getResource` | Operators over label names: the maps in their order and which of them fits. |
| `MetricLookup` | `refresh` of `series_cache.go` up to the metadata | EXTENDS the three modules above: asks for the target, its resource, the metadata by full and by base name. `MCMetricLookup` gives two jobs whose metadata disagrees. |
| `ShardUpdate` | `calculateDesiredShards`, `ewma.go` | The five rates in fixed point with the events since their last tick, the log, what is queued, and the number of shards that acts back on them. An interval of `shardUpdateDuration` is two steps: `Interval` up to the point where `Size` and `Offset` are read, `Calculate` from the ticks on, with `Slip` for what happens in between. |
| `QueueManagerProofs` (of `QueueManager` and `Sidecar`), `ReaderProofs`, `StorageClientProofs`, `TailerProofs`, `SeriesCacheProofs`, `ShardUpdateProofs`, `SampleBuilderProofs`, `MetricLookupProofs` | | the inductive invariants, theorems and proofs |

Composition: `Sidecar` uses the actions of `QueueManager` unchanged and replaces
only its usage assumption (`MayAppend`, `MayStop`) by what `main.go` really
does. `StorageClient` justifies that `QueueManager` takes `Store` as one step:
`QuietBetweenStores` and `SucceededIsStored` are what that abstraction uses.
`Reader` assumes of the queue manager only that it resolves what it holds
(`EventuallyResolved`), in any order. `QueueManager` leaves the number of shards
open, `ShardUpdate` chooses it. `SeriesCache` and `SampleBuilder` leave the answer
of a lookup open, `MetricLookup` has the lookup. `SeriesCache` assumes of the tailer only
that `CurrentSegment` is at or after the segment of the record at hand.

Abstractions worth knowing:

* In `QueueManager` the result of `calculateDesiredShards` is any number in
  `1..MaxShards`, and no change as long as nothing was sent.
* In `ShardUpdate` rates are integers in units of `1/Unit` and numbers of shards
  hundredths; averages are rounded away from 0, since a floating-point average
  that has been positive does not come down to 0. A shard sends `PerShard` samples
  in an interval, or none while its sends are retried, and then counts the time of
  all retries; a sample may be sent in the interval it is read in or any number of
  intervals later. The tailer's checkpoint appears as the `Excess` bytes by which
  it is longer than a segment. `lastSize` where `Size` fails is the constant
  `LogSize`.
* In `Reader` a record has one series or one sample, offsets count records, and
  the margin of 512 KiB is a number of records. The log is neither truncated nor
  checkpointed: samples that Prometheus truncates before they are read, and records
  that have another offset after a restart because a checkpoint holds them, are
  outside this module.
* In `Tailer` data is counted in units. A checkpoint has any length up to
  `MaxCheckpoint`, which is not tied to the size of a segment.
* In `SampleBuilder` values are small natural numbers, so rounding and NaN play no
  part; the mean and the deviation of a distribution are left out. A name that
  extends a histogram's name has its base name as metric. Entries change between
  records only: an entry that is collected while its own record is worked on, which
  makes `getResetAdjusted` drop the sample, is left out.
* In `MetadataCache` a job has one instance, and in `ResourceMap` label values are
  left out. That several targets match is a choice of one of them.
* In `SeriesCache` Prometheus behaves as the vendored `tsdb` does: a series that
  left the head stays in checkpoints until the segment that was current then is
  truncated (`deleted`). References are not reused. A checkpoint may cover any
  number of segments, not just a third. The collector lists, opens and reads a
  checkpoint in one step against its deletion; in the code `RemoveAll` of an old
  checkpoint of several segments may be half done when it is listed.

Definitions marked *Mutant* are alternatives of the definition that follows
them, each with one plausible bug; they are not used by the specifications, and
serve to show that the properties notice the bug.

## 3. Runs

| Run | Bounds | What it shows |
|---|---|---|
| `queue_manager` | 3 series on 2 shards (two of them share one), 3 samples, channels of 2, batches of 2 | safety of the queue manager, its refinement of `InOrderDelivery`; every sample is resolved without another one arriving; `Stop` returns |
| `sidecar` | 2 series, 2 samples, channels of 1 | flushed at shutdown but for the sample in `Append`'s hands; at most one late `Append`; the group ends if `Start` had returned when `Stop` was called |
| `sidecar_late_append` | the same | *violation*: a send on a closed channel |
| `tailer` | 3 segments of 2 units, a checkpoint of up to 5 | no skip except by one race, the offset goes back only after a long checkpoint, progress, cancellation |
| `tailer_race` | 4 segments of 2 units | *violation*: data is skipped |
| `reader` | 2 series, 4 records in every order Prometheus can write, margin 1, 2 restarts | loss only by overrunning the margin; eventually everything else is resolved |
| `storage_client` | requests of 2, batches of 1 to 5, 2 batches, 1 retry | `Store` and the retry loop |
| `series_cache` | 2 references, one of them exported, 2 records, 4 segments | live series and unread samples keep their entry, a lookup fails only behind the checkpoint, obsolete entries are collected, the reader gets on |
| `sample_builder` | 7 expositions (a counter of two targets with one hash, aggregated and exported counters, a gauge, histograms with buckets out of order, with a foreign counter or a second histogram behind them, with a bad bound), 3 timestamps, 2 events, 1 change of an entry | intervals, values, distributions, aggregate; every call of `next` consumes a sample or uses up a lookup |
| `sample_builder_bare` | one series with a histogram's own name | *violation*: the record is never used up |
| `metric_lookup` | 2 jobs with metadata of different types for one metric, 3 targets of which two differ in their discovered labels only, 2 changes of Prometheus | lookups succeed, targets converge, negative entries, types |
| `shard_update` | loads of 0, 3 and 7 samples per interval, 1 sample per shard, channels of 2, at most 5 shards, a backlog of up to 8, 2 disturbances | the offset rate is positive where it is divided by, but for two named cases; the number of shards fits the load in the end |

Why the bounds are enough for the cases that matter: three samples of three
series, two of which may be the same one, fill one batch, force a send by a
repeated series, leave an entry set aside, and still have one to append while a
reshard is under way; two shards are the fewest between which samples can move.
One retry tells a recoverable error from the final answer, and batches of five
with requests of two have one, two and three requests, with and without a
shorter last one. Three segments give the tailer a first, a next and one to be
truncated behind it. Two restarts let a crash happen during the replay after a
crash. A series disappears from checkpoints at the third one after it was
deleted, hence four segments for the series cache. Three scrapes are the fewest
after which a counter has two points; two events and a restart between any of
them cover detected and undetected resets, and let two buckets differ. Two
changes of Prometheus let a target go and come back, or the API fail and return,
while an answer waits to be applied. The loads are
nothing, what some and more than what all of five shards carry; two disturbances
let a failure of `Size` or an interval of retries follow a change of the load, and
are what it takes to read and leave a long checkpoint. Five units are more than
two segments of the tailer.

Deadlock is checked except in `Sidecar`, where a `Stop` before `Start` leaves
everybody waiting (see below). In the other modules the end of the bounded
input is an explicit stuttering step with a guard (`Terminated`, `Done`,
`AllRead`, `Idle`, `Quiet`), so that any other halt is reported.

### Fairness and timing

* Weak fairness of every goroutine: the Go scheduler starves none.
* Strong fairness of `AppendRLock`: a `sync.RWMutex` lets the readers that wait
  proceed before the next writer.
* `StoreResolve`: some `Store` call eventually ends other than with a recoverable
  error. The code retries without limit, so without this assumption no sample
  need ever be resolved and `Stop` need never return.
* Nothing is assumed of Prometheus, of signals, of ticks that change the number
  of shards, or of crashes.
* `Sidecar!ReaderWait`: `Start` is done when the reader has waited its minute for
  the first scrapes. Nothing in the code enforces it; `MayAppend` states the
  same for `QueueManager` alone.
* `SeriesCache!RefreshIsDue`: `refreshInterval` (3 min) is longer than a probe and
  the backoff after it.
* `Reader`: the supervisor starts the sidecar again.
* `MetricLookup`: the ticker of `Run` keeps firing, `retryInterval` passes, and the
  reader does not stop within a lookup (weak fairness). Strong fairness of
  `Refresh` for each series: its samples keep coming, and each makes `get` refresh
  an entry without data once `refreshInterval` is over.
* `ShardUpdate`: the ticker of `updateShardsLoop` keeps firing, and `reshardLoop` is
  back at its receive at some tick (weak fairness of the undisturbed steps); sends
  are not retried for ever.
* `SampleBuilder`: the reader keeps calling `next`. `NextProgresses` needs no
  fairness.

### What the violations show

Each of these is a sentence in the repository that the code does not keep.

1. `sidecar_late_append`: interrupting the reader only cancels its context. An
   `Append` past its check meets the channels that `Stop` closes, and panics.
2. `tailer_race`: the EOF of a segment is seen before the directory is listed;
   what is written in between is skipped.
3. `sample_builder_bare`: for a series of type histogram without a histogram's
   suffix, `buildDistribution` stops at the first sample with nothing consumed, and
   `next` returns the samples it was given and no error. The reader calls it again
   without pause, for ever. As metadata is cached by the metric's name, it takes
   two jobs that use one name for different types.

More weaknesses are bounded by a passing property, which names the exception,
rather than shown by a run of their own:

* A checkpoint longer than a segment makes `Offset` run ahead while it is read, and
  jump back when it is left (`tail.go:151`). `OffsetInStep` names the place. The
  average of the differences may then be 0 or negative for some ticks while samples
  are sent, and so is the desired number of shards: all but one are given up.
  `DivisionDefined` excepts it, `ShardsFit` says that the number recovers.
* When an actor of the run group fails at once, `Stop` may run before `Start` holds
  the lock. It waits for shards that have no goroutine while `Start` waits for the
  lock. `ShutdownEnds` speaks of shutdowns after `Start`.
* `getResetAdjusted` is called before a series is known to belong to the histogram,
  and again by `next`, or after a failed lookup, for the same sample, which then
  becomes a point with an empty interval. `IntervalsLegal` says that this is the
  only case.
* A target is taken over from the old map with the discovered labels it had
  (`targets/cache.go:115-117`): one that becomes a known resource later is not
  noticed as such. `TargetsConverge` compares labels only, `HasTarget` excludes it.
* A missing metric is recorded by name: a series of a job without its metadata
  may be the one that asks again each time and keeps the entry missing for all
  jobs. `Findable` asks for metadata in every job with such a series. Internal
  metrics are only learnt from a batch, so they stay unknown if the first batch
  of every job was empty.
* Values are compared with the first value (0 after a reset), not with the
  previous one, so most restarts of a process go unnoticed (`series_cache.go:303`).
  What is reported is then too small, never too large (`NeverOvercounts`).
* A histogram whose series are learnt at different scrapes has buckets that begin
  at different values for good (`DistributionTrue`).
* `Offset` is read at `queue_manager.go:255`, `samplesOut` ticks at line 266: samples
  read and sent in between may meet an offset rate of 0. `DivisionDefined` names
  the case, in which the bytes are counted at the next call.
* A single failure of `Size` puts minus the size of the log into the average: the
  desired number jumps to `MaxShards` and takes many ticks to come back
  (`ShardsFit` says that it does).
* `metadata.Get` prefers static metadata, where its comment has it as the last
  resort; `targets.Get` requires all labels of the target, not those "in common".
* The margin of the progress file is a fixed amount of log, while a shard may
  retry one batch for as long as it takes and the reader goes on with other
  series: a crash then loses samples. `LossOnlyByOverrun` says that nothing else
  does, in a log that is neither truncated nor checkpointed meanwhile. Likewise
  `ProgressForward` speaks of an offset that moves on: after a long checkpoint the
  tailer's goes back, and what is saved with it.
* The write at start-up subtracts the margin from an offset from which it has
  been subtracted (`main.go:550`), so every start moves the file back by another
  512 KiB. Samples are then sent again, none is lost.
* `refresh` looks the entry up a second time and does not expect it to be gone
  (`series_cache.go:337-340`). `PanicOnlyIfTruncated` says that this takes a
  reader that is still in segments Prometheus has truncated.

## 4. Proofs

Every theorem holds for all values of the constants that satisfy the assumption
named in its component's module. Each component has one inductive invariant, the sample
builder four that build on each other; TLC
has checked it on the instance of the component's run, and it is proved with one
lemma per conjunct or group of conjuncts and one case per action. The table lists
the properties of the runs that follow.

| Module | Assumption | Proved |
|---|---|---|
| `QueueManagerProofs` | sizes and numbers are positive | types, `BatchesWellFormed`, `NothingLost`, `NothingTwice`, `StopFlushes`, `QueueLengthExact`, `DeliveredInOrder`, the refinement of `InOrderDelivery` |
| `QueueManagerProofs`, of `Sidecar` | the same | `ShutdownFlushes`, `AtMostOneLateAppend`; `NothingLost`, `NothingTwice`, `BatchesWellFormed`, `QueueLengthExact` and the refinement once more, now of the whole process |
| `ReaderProofs` | margin, bounds and log of any size | `LossOnlyByOverrun`, `ProgressForward` |
| `StorageClientProofs` | requests and batches of positive size | `RequestsPartition`, `ErrorsNeverBlock`, `SucceededIsStored`, `QuietBetweenStores` |
| `TailerProofs` | any number and size of segments, checkpoints of any length | `SkipsOnlyByRace`, `OffsetInStep` |
| `SeriesCacheProofs` | any references and segments | `LiveSeriesKept`, `UnreadSamplesKept`, `PanicOnlyIfTruncated` |
| `ShardUpdateProofs` | capacities and sizes are positive, any loads | `DivisionDefined` |
| `SampleBuilderProofs` | finitely many targets | `IntervalsLegal`, `AggregateTrue`; `NextProgresses` if no series has a histogram's own name; `NeverOvercounts` if a histogram is exported as a whole; `DistributionTrue` if its series are sequential besides |
| `MetricLookupProofs` | `None` is not a set of targets | `NegativeKept`, `TypeFixed` |

**Queue manager.** `IInv` is `Core /\ UseOK`. `Core` holds however the manager is
called, `UseOK` says what `MayAppend` and `MayStop` add. In `Core`

* `LocksOK` relates the holder of the lock to the program counters; from it the
  threads exclude each other where they must;
* `CollectionsOK` says that only one collection holds samples: the new one is
  empty while the old one is drained, and the old one is gone before the new
  one has goroutines. This is the reason for the order in `reshard`;
* `PlacementOK` puts each sample in the shard its hash selects and nowhere
  else, `OrderOK` orders the samples along a shard's way (channel, set aside,
  batch), and `SentOK` says that the storage has seen nothing newer than what
  is unresolved. Neither is inductive without the other two: in-order delivery
  follows because the batch is the front of its shard (`BatchIsFront`) and a
  series lives in one shard only (`OneShardPerSeries`);
* `ShardsOK` and `SizesOK` describe batches, marks and room.

The refinement maps each `Store` answer to `Deliver` of the batch and everything
else to `Accept` or a stuttering step. `QueueLengthExact` is inductive relative to
`Core`: a step that counts moves exactly one sample in or out of the queued ones,
and that it is not there before, or not elsewhere as well, is `PlacementOK`.

**Sidecar.** The lemmas about the queue manager are stated for `AnyNext`, the steps
of `QueueManager` with the callers' guards taken away as far as `Sidecar` does so:
`Append` and `Stop` may come whenever a run group can make them. `NextIsAny` and
`SidecarUse` show that the steps of both specifications are among them, so that
`Core`, with in-order delivery and the refinement, holds through a shutdown in
which `Append` meets `Stop`. What the run group adds is `GroupOK` (`Stop` is called
after the reader's context is cancelled; the reader appends nothing before `Start`
has returned, so that when `Stop` is done waiting while an `Append` is still to come,
`reshardLoop` has ended and will not begin later) and `LateOK` (the one late `Append` is the one the reader was about to
make). The panic that `sidecar_late_append` shows is part of this specification:
the theorems say that nothing else goes wrong with it.

**Reader.** The invariant adds to `LossOnlyByOverrun` `SavedOK` (what the next start
will skip is resolved, or was left behind by a save) and `RunOK` (the same for the
current start offset; every series read is in the cache, so that samples are
skipped for no other reason; the saved offset is a margin behind).

**Storage client.** `Slices`: the requests begun lie side by side and are as many as
the position of the loop divided by the limit, which makes the requests a partition
and, with the capacity computed by a division of its own, gives a place in the
channel to each. `Room`: the errors reported and the goroutines still to report
together are no more than the requests. `Written`: without an error, what is done is
written. `Clean`: nothing is left from the last `Store`.

**Tailer.** `Position` ties `nextSegment` to the segment that is open, `Counted` the
offset to what was read of it (nothing is said of a checkpoint, whose length is not
bounded), `ReadToEnd` says that between its EOF and the next open a
segment has been read to its end unless it was written to. `WalOK` is about
Prometheus: the last segment is never deleted, so that the next one that is found
is the one wanted or an error.

**Series cache.** The argument goes through a set that is out of date. `CheckpointOK`:
the last checkpoint has every series logged up to it that is not gone; `CollectorOK`:
a series logged up to the checkpoint that was scanned and absent from the scan is
gone, and stays so, however late the collector acts; `KeptOK`: what is gone has no
records behind the last checkpoint; `EntriesOK`: a series that was set has an entry,
or is gone. `LogOK` (a series is logged once, before its samples) is what Prometheus
guarantees, `ReaderOK` where the reader is.

**Shards.** `calculateDesiredShards` tests `samplesOut` and divides by the offset rate.
`Read` says that as soon as a sample is queued or was ever sent, `Offset` has moved by
bytes that are in the rate, wait for its tick, or are still to be measured; it does
not matter how late a sample is sent, only that it was read before. `Forward` says
that nothing takes these bytes away again before a long checkpoint is left, and the
moving average of what is positive stays positive (`AverageSign`). `Fresh` says that a
tick leaves nothing waiting, so that at a calculation the bytes are in the rate or
were read after `Offset()`: what `DivisionDefined` excepts.

**Sample builder.** `RecordOK` orders the samples of a record, `ResetsOK` keeps the
reset timestamp of an entry before the samples that are left of its series, but for
a sample that `getResetAdjusted` has seen already, and `PointsOK` ties the intervals
of the cache to the points sent. `IntervalsLegal` is part of it. `NextProgresses`
needs the hypothesis `NoBareNames`, which is what `sample_builder_bare` lacks; the
run of `SampleBuilder` satisfies it.

What is said of the values rests on three more invariants, each on top of the ones
before it. A scrape records how many events of at most each size there were, and how
many of them before the last start, so that what happened between two scrapes is a
difference rather than a sum over the scrapes between.

* `TrackInv`: `HistoryOK` says that the counts of a target grow from scrape to
  scrape, and that the base of a scrape is at most its count and at least the count
  of any scrape before a restart; `SamplesOK` that the value of a sample is that of
  its series in the scrape of its time; `FedOK` that a tracker has the value of the
  scrape of its timestamp, and that its total is at most what happened since its
  first, exactly so without a restart; `SteadyOK` that the trackers of a target
  whose series were always known are up to date. `AggregateTrue` follows, without
  a hypothesis.
* `ResetInv`: `StartsOK` says that the reset value of an entry is the value in the
  scrape of its reset timestamp, or 0 with a timestamp one before that of a scrape
  after a restart; `LaterLeft` that while a sample is left, so are those of the
  later scrapes of its target. `NotOverOK`, and with it `NeverOvercounts`, follows
  under `ExportedWhole`: with a filter that exports only some series of a
  histogram, `buildDistribution` adjusts the others only in the records where
  it gets to them, and a reset noticed late has a timestamp that is too late for
  what it counts.
* `HistogramInv`: `InOrder` keeps the record in the order of the exposition,
  `BoundaryOK` says that the rest of a record does not begin in the middle of a
  histogram, `BeginOK` that all series of a target that was known all the time
  begin with its first scrape or after a restart, `DistributedOK` that the points produced are what `DistributionTrue`
  says. It needs `Sequential`, the assumption that `buildDistribution` states itself
  ("All series belonging to a histogram are sequential", `transform.go:214`), and
  `HistogramsWhole`: the parts of an exported histogram are histograms (metadata is
  looked up by base name) and exported.

The expositions of the run satisfy `ExportedWhole`, `HistogramsWhole` and
`Sequential`, and TLC has checked the three and all conjuncts above on that instance.

**Lookups.** `AnswersOK`: answers that wait to be applied have one target for each
set of labels; `EntriesOwn`: so has every entry of the map, with targets of its own
job and instance only, although `refresh` mixes the targets of the old map with
those of the answer.

Only model-checked: the liveness properties. Fairness and `ENABLED` are beyond the
prover. Every invariant and every action property of the passing runs is stated by a
theorem.

## 5. Plan

Done, in this order: `QueueManager` with its abstract specification and proofs,
`Sidecar`, `Tailer`, `Reader` with proofs, `StorageClient`, `SeriesCache`,
`SampleBuilder`, `TargetCache`, `MetadataCache` and `ResourceMap` composed in
`MetricLookup`, `ShardUpdate`; then the proofs of all safety properties, those
about values last. Left:

* safety that the liveness properties rest on: that a thread of the queue manager
  that waits is waited for by nobody it waits for (no cycle of waiting after
  `Start` has returned), and that a series that is due is looked up at its next
  sample.

## 6. Not modelled

Flags, the configuration file and the wiring in `main.go` (sequential, over
before the run group starts); the file writer client (a debugging aid); the
series hash, the status page, logging and exported metrics other than
`queue_length`; label values and the formatting of points; the vendored
libraries, of which the run group is part of `Sidecar`, and `tsdb`, as it runs inside
Prometheus, appears as environment like the Prometheus API.

Details of modelled parts that are left out: NaN values
inside a histogram (`transform.go:44` tests the first sample of a call only); the
write to the target map under the read lock (`targets/cache.go:167`; the reader is
the only caller of `Get`); the error of a checkpoint scan, which wraps a nil error
(`series_cache.go:226`) and is only logged.
