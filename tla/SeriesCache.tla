----------------------------- MODULE SeriesCache -----------------------------
(***************************************************************************)
(* The entries of retrieval/series_cache.go: the reader sets and looks up  *)
(* entries and refreshes those that lack a target or metadata, while a     *)
(* goroutine collects entries that the last checkpoint of the log no       *)
(* longer has.  The lock c.mtx is held only to look at the map, not across *)
(* a refresh.                                                              *)
(***************************************************************************)
EXTENDS Integers, Sequences

CONSTANTS Refs,       \* series references, never reused by Prometheus
          Exported,   \* those that a filter or a counter tracker wants
          NumRecords, \* bound: records in the log
          MaxSegment  \* bound: segments are numbered 0..MaxSegment

ASSUME CacheAssumption == /\ NumRecords \in Nat /\ MaxSegment \in Nat
                          /\ Exported \subseteq Refs

VARIABLES
    \* Prometheus (external)
    log,        \* the records, each with its segment
    last,       \* the last segment
    live,       \* series in Prometheus' head
    deleted,    \* the segment up to which a series that left the head is kept
    checkpoint, \* the last checkpoint: its number and the series in it
    \* the reader
    reader,     \* where it is; lookup and probe are in refresh
    pos,        \* records it is done with
    via,        \* the caller of refresh: set or get
    cacheEntry, \* c.entries: none, or due for a refresh, or waiting, or populated
    maxSegment, \* entry.maxSegment
    \* the garbage collector
    collector, cpNum, exists, lastCheckpoint

walVars == <<log, last, live, deleted, checkpoint>>
gcVars == <<collector, cpNum, exists, lastCheckpoint>>
readerVars == <<reader, pos, via>>
vars == <<walVars, readerVars, cacheEntry, maxSegment, gcVars>>

Segment == 0..MaxSegment
NotDeleted == -1
Logged(r) == \E i \in DOMAIN log : log[i].ref = r

Init ==
    /\ log = <<>> /\ last = 0 /\ live = {}
    /\ deleted = [r \in Refs |-> NotDeleted]
    /\ checkpoint = [num |-> -1, series |-> {}]
    /\ reader = "next" /\ pos = 0 /\ via = "set"
    /\ cacheEntry = [r \in Refs |-> "none"]
    /\ maxSegment = [r \in Refs |-> 0]
    /\ collector = "idle" /\ cpNum = 0 /\ exists = {} /\ lastCheckpoint = 0

-----------------------------------------------------------------------------
(* Prometheus *)

LogRecord(kind, r) ==
    /\ Len(log) < NumRecords
    /\ log' = Append(log, [kind |-> kind, ref |-> r, segment |-> last])
    /\ UNCHANGED <<last, deleted, checkpoint, readerVars, cacheEntry, maxSegment, gcVars>>

NewSeries(r) == ~Logged(r) /\ live' = live \cup {r} /\ LogRecord("series", r)

NewSample(r) == r \in live /\ LogRecord("sample", r) /\ UNCHANGED live

\* All its samples are in blocks: the head forgets the series, but the last
\* segment may have samples of it.
DropSeries(r) ==
    /\ r \in live /\ live' = live \ {r}
    /\ deleted' = [deleted EXCEPT ![r] = last]
    /\ UNCHANGED <<log, last, checkpoint, readerVars, cacheEntry, maxSegment, gcVars>>

Cut ==
    /\ last < MaxSegment /\ last' = last + 1
    /\ UNCHANGED <<log, live, deleted, checkpoint, readerVars, cacheEntry, maxSegment, gcVars>>

\* A checkpoint of the segments up to k, which are then truncated.  It has the
\* series that are live or kept; those deleted before the first segment are no
\* longer kept afterwards.
Checkpoint(k) ==
    /\ checkpoint.num < k /\ k < last
    /\ checkpoint' = [num |-> k,
                      series |-> {r \in Refs :
                                    /\ r \in live \/ deleted[r] # NotDeleted
                                    /\ \E i \in DOMAIN log :
                                         /\ log[i].kind = "series" /\ log[i].ref = r
                                         /\ log[i].segment <= k}]
    /\ deleted' = [r \in Refs |-> IF deleted[r] <= checkpoint.num
                                  THEN NotDeleted ELSE deleted[r]]
    /\ UNCHANGED <<log, last, live, readerVars, cacheEntry, maxSegment, gcVars>>

-----------------------------------------------------------------------------
(* The reader *)

Record == log[pos + 1]

\* A filter set matches the series, or an aggregated counter tracks it.
Wanted(r) == r \in Exported

\* set: a new entry that refresh is to look up; CurrentSegment may be ahead
\* of the record.
SetEntry ==
    /\ reader = "next" /\ pos < Len(log) /\ Record.kind = "series"
    /\ Wanted(Record.ref)
    /\ cacheEntry' = [cacheEntry EXCEPT ![Record.ref] = "due"]
    /\ \E n \in Record.segment..last :
         maxSegment' = [maxSegment EXCEPT ![Record.ref] = n]
    /\ reader' = "lookup" /\ via' = "set" /\ UNCHANGED pos
    /\ UNCHANGED <<walVars, gcVars>>

\* set returns early: nothing is kept of a series that nobody wants.
SetFiltered ==
    /\ reader = "next" /\ pos < Len(log) /\ Record.kind = "series"
    /\ ~Wanted(Record.ref)
    /\ pos' = pos + 1
    /\ UNCHANGED <<walVars, reader, via, cacheEntry, maxSegment, gcVars>>

\* get: nothing to do, or no entry, or one that is not populated and was
\* tried less than refreshInterval ago: the sample is used, or dropped.
GetEntry ==
    /\ reader \in {"next", "retry"} /\ pos < Len(log) /\ Record.kind = "sample"
    /\ cacheEntry[Record.ref] # "due"
    /\ pos' = pos + 1 /\ reader' = "next"
    /\ UNCHANGED <<walVars, via, cacheEntry, maxSegment, gcVars>>

GetEntryDue ==
    /\ reader \in {"next", "retry"} /\ pos < Len(log) /\ Record.kind = "sample"
    /\ cacheEntry[Record.ref] = "due"
    /\ reader' = "lookup" /\ via' = "get" /\ UNCHANGED pos
    /\ UNCHANGED <<walVars, cacheEntry, maxSegment, gcVars>>

\* Mutant: lastRefresh is not set.
RefreshLookupUntimed ==
    /\ reader = "lookup"
    /\ reader' = IF cacheEntry[Record.ref] = "none" THEN "panic" ELSE "probe"
    /\ UNCHANGED <<walVars, pos, via, cacheEntry, maxSegment, gcVars>>

\* refresh looks the entry up again; a nil entry is dereferenced.
RefreshLookup ==
    /\ reader = "lookup"
    /\ IF cacheEntry[Record.ref] = "none"
       THEN reader' = "panic" /\ UNCHANGED cacheEntry
       ELSE /\ reader' = "probe"
            /\ cacheEntry' = [cacheEntry EXCEPT ![Record.ref] = "waiting"]
    /\ UNCHANGED <<walVars, pos, via, maxSegment, gcVars>>

\* Target and metadata are there: the entry is populated, in the map or not.
RefreshPopulates ==
    /\ reader = "probe"
    /\ cacheEntry' = [cacheEntry EXCEPT ![Record.ref] =
                        IF @ = "none" THEN @ ELSE "populated"]
    /\ reader' = "next" /\ pos' = pos + 1 /\ via' = "set"
    /\ UNCHANGED <<walVars, maxSegment, gcVars>>

\* One is missing, or (failed) cannot be had: then the builder returns the
\* error and the sample is looked at again after a backoff; set ignores it.
RefreshLacks(failed) ==
    /\ reader = "probe"
    /\ IF failed /\ via = "get" THEN reader' = "retry" /\ UNCHANGED pos
                                ELSE reader' = "next" /\ pos' = pos + 1
    /\ via' = "set"
    /\ UNCHANGED <<walVars, cacheEntry, maxSegment, gcVars>>

\* refreshInterval has passed since lastRefresh.  Timing assumption: it is
\* longer than a probe and the backoff (2 s) after it.
RefreshIsDue(r) ==
    /\ cacheEntry[r] = "waiting"
    /\ ~(reader \in {"probe", "retry"} /\ Record.ref = r)
    /\ cacheEntry' = [cacheEntry EXCEPT ![r] = "due"]
    /\ UNCHANGED <<walVars, readerVars, maxSegment, gcVars>>

-----------------------------------------------------------------------------
(* garbageCollect *)

FindCheckpoint ==
    /\ collector = "idle" /\ checkpoint.num > lastCheckpoint
    /\ collector' = "scan" /\ cpNum' = checkpoint.num
    /\ UNCHANGED <<walVars, readerVars, cacheEntry, maxSegment, exists, lastCheckpoint>>

\* Opening fails when a newer checkpoint has replaced this one.  Listing, opening
\* and reading its segments are one step: it is deleted before or after them.
ScanCheckpoint ==
    /\ collector = "scan"
    /\ IF checkpoint.num = cpNum
       THEN collector' = "delete" /\ exists' = checkpoint.series
            /\ UNCHANGED cpNum
       ELSE collector' = "idle" /\ cpNum' = 0 /\ UNCHANGED exists
    /\ UNCHANGED <<walVars, readerVars, cacheEntry, maxSegment, lastCheckpoint>>

\* Mutant: the segment the series was logged in is not looked at.
DeleteEntriesAll ==
    /\ collector = "delete"
    /\ cacheEntry' = [r \in Refs |-> IF r \in exists THEN cacheEntry[r] ELSE "none"]
    /\ collector' = "idle" /\ lastCheckpoint' = cpNum
    /\ cpNum' = 0 /\ exists' = {}
    /\ UNCHANGED <<walVars, readerVars, maxSegment>>

\* Mutant: the last segment of the checkpoint is left out.
DeleteEntriesBelow ==
    /\ collector = "delete"
    /\ cacheEntry' = [r \in Refs |-> IF r \notin exists /\ maxSegment[r] < cpNum
                                     THEN "none" ELSE cacheEntry[r]]
    /\ collector' = "idle" /\ lastCheckpoint' = cpNum
    /\ cpNum' = 0 /\ exists' = {}
    /\ UNCHANGED <<walVars, readerVars, maxSegment>>

DeleteEntries ==
    /\ collector = "delete"
    /\ cacheEntry' = [r \in Refs |-> IF r \notin exists /\ maxSegment[r] <= cpNum
                                     THEN "none" ELSE cacheEntry[r]]
    /\ collector' = "idle" /\ lastCheckpoint' = cpNum
    /\ cpNum' = 0 /\ exists' = {}
    /\ UNCHANGED <<walVars, readerVars, maxSegment>>

-----------------------------------------------------------------------------

Prometheus == Cut \/ (\E k \in Segment : Checkpoint(k))
              \/ \E r \in Refs : NewSeries(r) \/ NewSample(r) \/ DropSeries(r)
Reader == SetEntry \/ SetFiltered \/ GetEntry \/ GetEntryDue \/ RefreshLookup
          \/ RefreshPopulates \/ \E failed \in BOOLEAN : RefreshLacks(failed)
Collector == FindCheckpoint \/ ScanCheckpoint \/ DeleteEntries

\* A panic takes the process down; otherwise everything may be quiet.
Down == reader = "panic" /\ UNCHANGED vars
Quiet == reader = "next" /\ pos = Len(log) /\ UNCHANGED vars

Next == \/ reader # "panic" /\ (Prometheus \/ Reader \/ Collector
                                \/ \E r \in Refs : RefreshIsDue(r))
        \/ Down \/ Quiet

Spec == Init /\ [][Next]_vars

Alive == reader # "panic"
FairSpec == Spec /\ WF_vars(Alive /\ Reader) /\ WF_vars(Alive /\ Collector)

-----------------------------------------------------------------------------
(* Properties *)

\* The series record of r has been read.
Known(r) == \E i \in 1..pos : log[i].kind = "series" /\ log[i].ref = r

(***************************************************************************)
(* The cache never forgets a series that Prometheus still has, however the *)
(* reader lags and whatever happens while a checkpoint is scanned: its     *)
(* samples would be dropped silently.  (Series filtered out aside.)        *)
(***************************************************************************)
LiveSeriesKept == \A r \in live \cap Exported : Known(r) => cacheEntry[r] # "none"

(***************************************************************************)
(* An entry is not deleted while samples of its series are left to read in *)
(* the segments after the checkpoint, even if Prometheus itself has        *)
(* dropped the series (series_cache.go:105-110).                           *)
(***************************************************************************)
UnreadSamplesKept ==
    \A i \in pos + 1..Len(log) :
        /\ log[i].kind = "sample" /\ log[i].ref \in Exported
        /\ Known(log[i].ref) /\ log[i].segment > checkpoint.num
        => cacheEntry[log[i].ref] # "none"

(***************************************************************************)
(* The second lookup in refresh (series_cache.go:337-340) finds no entry,  *)
(* and panics, only for a reader that is still in segments Prometheus has  *)
(* truncated: "we can safely delete a series entry" (108-110) holds for    *)
(* one that is not.                                                        *)
(***************************************************************************)
PanicOnlyIfTruncated == reader = "panic" => Record.segment <= checkpoint.num

(***************************************************************************)
(* The cache does not leak: an entry that a new checkpoint shows to be     *)
(* obsolete is eventually collected (unless a still newer checkpoint       *)
(* supersedes that one, or the process panics).                            *)
(***************************************************************************)
Obsolete(r) ==
    /\ cacheEntry[r] # "none" /\ r \notin checkpoint.series
    /\ maxSegment[r] <= checkpoint.num /\ checkpoint.num > lastCheckpoint

ObsoleteCollected ==
    \A r \in Refs : Obsolete(r) ~> (cacheEntry[r] = "none" \/ ~Alive)

(***************************************************************************)
(* The reader gets on: a series whose target or metadata cannot be had is  *)
(* tried again at most once per refreshInterval, it does not hold up the   *)
(* samples of all others.                                                  *)
(***************************************************************************)
ReaderProceeds ==
    \A i \in 1..NumRecords :
        (Len(log) >= i) ~> (pos >= i \/ ~Alive)
==============================================================================
