-------------------------- MODULE SeriesCacheProofs --------------------------
(***************************************************************************)
(* TLAPS proofs about SeriesCache: what the garbage collector may delete   *)
(* under the reader, for any set of series and any length of the log.      *)
(***************************************************************************)
EXTENDS SeriesCache, TLAPS

-----------------------------------------------------------------------------
(* The inductive invariant. *)

Records == [kind : {"series", "sample"}, ref : Refs, segment : Segment]

\* Every variable has its type (but via, which no property depends on).
TypeOK ==
    /\ log \in Seq(Records) /\ last \in Segment /\ live \in SUBSET Refs
    /\ deleted \in [Refs -> {NotDeleted} \cup Segment]
    /\ checkpoint \in [num : {-1} \cup Segment, series : SUBSET Refs]
    /\ reader \in {"next", "lookup", "probe", "retry", "panic"} /\ pos \in Nat
    /\ cacheEntry \in [Refs -> {"none", "due", "waiting", "populated"}]
    /\ maxSegment \in [Refs -> Segment]
    /\ collector \in {"idle", "scan", "delete"}
    /\ cpNum \in {-1} \cup Segment /\ exists \in SUBSET Refs

\* A series record of r, and a series of which the head has dropped all, the
\* mark that keeps it in checkpoints included.
IsSeries(i) == log[i].kind = "series"
Gone(r) == r \notin live /\ deleted[r] = NotDeleted

\* A series is logged once, before its samples.
LogOK ==
    /\ \A i \in DOMAIN log : log[i].segment <= last
    /\ \A i, j \in DOMAIN log :
         IsSeries(i) /\ IsSeries(j) /\ log[i].ref = log[j].ref => i = j
    /\ \A j \in DOMAIN log : ~IsSeries(j) =>
         \E i \in DOMAIN log : i < j /\ IsSeries(i) /\ log[i].ref = log[j].ref
    /\ \A r \in live : \E i \in DOMAIN log : IsSeries(i) /\ log[i].ref = r

\* The records of a series that left the head end with the segment it is kept
\* for, or before the last checkpoint once it is no longer kept.
KeptOK ==
    \A i \in DOMAIN log :
        \/ log[i].ref \in live
        \/ IF deleted[log[i].ref] = NotDeleted
           THEN log[i].segment <= checkpoint.num
           ELSE log[i].segment <= deleted[log[i].ref]

\* The last checkpoint has every series logged up to it that is not gone.
CheckpointOK ==
    /\ checkpoint.num < last
    /\ \A i \in DOMAIN log :
         (IsSeries(i) /\ log[i].segment <= checkpoint.num /\ ~Gone(log[i].ref))
         => log[i].ref \in checkpoint.series

\* The set that was scanned, however old it is when the collector uses it.
CollectorOK ==
    collector = "delete" =>
        /\ cpNum <= checkpoint.num
        /\ \A i \in DOMAIN log :
             (IsSeries(i) /\ log[i].segment <= cpNum /\ log[i].ref \notin exists)
             => Gone(log[i].ref)

\* Where the reader is: in refresh it has a record of a series that is wanted.
ReaderOK ==
    /\ pos <= Len(log)
    /\ reader \in {"lookup", "probe", "panic"} =>
         pos < Len(log) /\ Record.ref \in Exported
    /\ reader = "panic" => Gone(Record.ref)
    /\ \A r \in Refs : cacheEntry[r] # "none" => r \in Exported

\* The series record i has been set in the cache.
IsSet(i) ==
    /\ IsSeries(i)
    /\ i <= pos \/ (i = pos + 1 /\ reader \in {"lookup", "probe", "panic"})

\* A series that was set has an entry with its segment, or is gone.
EntriesOK ==
    \A i \in DOMAIN log :
        IsSet(i) /\ log[i].ref \in Exported =>
            /\ log[i].segment <= maxSegment[log[i].ref]
            /\ cacheEntry[log[i].ref] # "none" \/ Gone(log[i].ref)

IInv == TypeOK /\ LogOK /\ KeptOK /\ CheckpointOK /\ CollectorOK /\ ReaderOK /\ EntriesOK

-----------------------------------------------------------------------------
(* The invariant holds initially and is preserved by every step. *)

\* The initial state satisfies the invariant.
LEMMA InvInit == Init => IInv
  <1> SUFFICES ASSUME Init PROVE IInv
    OBVIOUS
  <1> USE CacheAssumption DEF CacheAssumption
  <1>1. log = <<>> /\ DOMAIN log = {} /\ Len(log) = 0 /\ log \in Seq(Records)
    BY DEF Init
  <1>2. TypeOK
    <2>1. /\ deleted \in [Refs -> {NotDeleted} \cup Segment]
          /\ maxSegment \in [Refs -> Segment]
      BY DEF Init, Segment
    <2>2. cacheEntry \in [Refs -> {"none", "due", "waiting", "populated"}]
      BY DEF Init
    <2>3. checkpoint \in [num : {-1} \cup Segment, series : SUBSET Refs]
      BY DEF Init
    <2>4. live \in SUBSET Refs /\ exists \in SUBSET Refs
      BY DEF Init
    <2>5. pos \in Nat /\ last \in Segment /\ cpNum \in {-1} \cup Segment
      BY DEF Init, Segment
    <2>6. reader = "next" /\ collector = "idle"
      BY DEF Init
    <2> QED BY <1>1, <2>1, <2>2, <2>3, <2>4, <2>5, <2>6 DEF TypeOK
  <1>3. LogOK /\ KeptOK /\ EntriesOK /\ CollectorOK
    BY <1>1 DEF Init, LogOK, KeptOK, EntriesOK, CollectorOK
  <1>4. CheckpointOK
    BY <1>1 DEF Init, CheckpointOK
  <1>5. ReaderOK
    BY <1>1 DEF Init, ReaderOK
  <1> QED BY <1>2, <1>3, <1>4, <1>5 DEF IInv

\* What appending a record does to the log.
LEMMA LogAppend ==
  ASSUME NEW q \in Seq(Records), NEW rec \in Records
  PROVE  /\ Append(q, rec) \in Seq(Records)
         /\ DOMAIN q = 1..Len(q) /\ Len(q) \in Nat
         /\ DOMAIN Append(q, rec) = 1..(Len(q) + 1)
         /\ Len(Append(q, rec)) = Len(q) + 1
         /\ \A i \in 1..Len(q) : Append(q, rec)[i] = q[i] /\ q[i] \in Records
         /\ Append(q, rec)[Len(q) + 1] = rec
  OBVIOUS

\* A new record: of a new series, which becomes live, or of a live one.
LEMMA LogRecordInv ==
  ASSUME IInv, NEW r \in Refs, NEW kind \in {"series", "sample"},
         LogRecord(kind, r), live' = live \cup {r},
         (kind = "series" /\ ~Logged(r)) \/ (kind = "sample" /\ r \in live)
  PROVE  IInv'
  <1> USE CacheAssumption DEF CacheAssumption
  <1> DEFINE rec == [kind |-> kind, ref |-> r, segment |-> last]
             n == Len(log) + 1
  <1>1. /\ log' = Append(log, rec)
        /\ UNCHANGED <<last, deleted, checkpoint>> /\ UNCHANGED <<reader, pos>>
        /\ UNCHANGED <<cacheEntry, maxSegment>> /\ UNCHANGED <<collector, cpNum, exists>>
    BY DEF LogRecord, readerVars, gcVars
  <1>2. /\ rec \in Records /\ log \in Seq(Records)
        /\ rec.kind = kind /\ rec.ref = r /\ rec.segment = last
    BY DEF IInv, TypeOK, Records
  <1> HIDE DEF rec
  <1>3. /\ log' \in Seq(Records) /\ DOMAIN log = 1..Len(log) /\ Len(log) \in Nat
        /\ DOMAIN log' = 1..n /\ Len(log') = n
        /\ \A i \in DOMAIN log : log'[i] = log[i] /\ log[i] \in Records
        /\ log'[n] = rec
    BY <1>1, <1>2, LogAppend
  <1>4. /\ DOMAIN log' = DOMAIN log \cup {n} /\ n \in Nat
        /\ \A i \in DOMAIN log : i \in Nat /\ i < n
    BY <1>3
  <1>5. /\ last \in Nat /\ pos \in Nat
        /\ \A i \in DOMAIN log : log[i].segment \in Nat /\ log[i].ref \in Refs
    BY <1>3 DEF IInv, TypeOK, Segment, Records
  <1>6. \A i \in DOMAIN log : log[i].ref \in live' <=> log[i].ref \in live
    BY DEF Logged
  <1>7. TypeOK'
    BY <1>1, <1>3 DEF IInv, TypeOK, Segment
  <1>8. LogOK'
    <2>1. \A i \in DOMAIN log' : log'[i].segment <= last
      BY <1>2, <1>3, <1>4, <1>5 DEF IInv, LogOK
    <2>2. ASSUME NEW i \in DOMAIN log', NEW j \in DOMAIN log',
                 log'[i].kind = "series", log'[j].kind = "series",
                 log'[i].ref = log'[j].ref
          PROVE  i = j
      <3>1. CASE kind = "series"
        <4>1. \A m \in DOMAIN log : log[m].ref # r
          BY <3>1 DEF Logged
        <4> QED BY <1>2, <1>3, <1>4, <2>2, <4>1 DEF IInv, LogOK, IsSeries
      <3>2. CASE kind = "sample"
        BY <1>2, <1>3, <1>4, <2>2, <3>2 DEF IInv, LogOK, IsSeries
      <3> QED BY <3>1, <3>2
    <2>3. ASSUME NEW j \in DOMAIN log', log'[j].kind # "series"
          PROVE  \E i \in DOMAIN log' : /\ i < j /\ log'[i].kind = "series"
                                        /\ log'[i].ref = log'[j].ref
      <3>1. CASE j = n
        <4>1. kind = "sample" /\ r \in live
          BY <1>2, <1>3, <2>3, <3>1
        <4> QED BY <1>2, <1>3, <1>4, <3>1, <4>1 DEF IInv, LogOK, IsSeries
      <3>2. CASE j \in DOMAIN log
        <4>1. PICK i \in DOMAIN log : i < j /\ IsSeries(i) /\ log[i].ref = log[j].ref
          BY <1>3, <2>3, <3>2 DEF IInv, LogOK, IsSeries
        <4> QED BY <1>3, <1>4, <3>2, <4>1 DEF IsSeries
      <3> QED BY <1>4, <3>1, <3>2
    <2>4. ASSUME NEW s \in live'
          PROVE  \E i \in DOMAIN log' : log'[i].kind = "series" /\ log'[i].ref = s
      <3>1. CASE s \in live
        BY <1>3, <1>4, <3>1 DEF IInv, LogOK, IsSeries
      <3>2. CASE s \notin live
        <4>1. s = r /\ kind = "series"
          BY <3>2
        <4> QED BY <1>2, <1>3, <1>4, <4>1
      <3> QED BY <3>1, <3>2
    <2> QED BY <1>1, <2>1, <2>2, <2>3, <2>4 DEF LogOK, IsSeries
  <1>9. KeptOK'
    BY <1>1, <1>2, <1>3, <1>4, <1>6 DEF IInv, KeptOK, Gone
  <1>10. CheckpointOK'
    <2>1. checkpoint.num \in Int /\ checkpoint.num < last
      BY DEF IInv, TypeOK, CheckpointOK, Segment
    <2>2. ~(log'[n].segment <= checkpoint.num)
      BY <1>2, <1>3, <1>5, <2>1
    <2> QED BY <1>1, <1>3, <1>4, <1>6, <2>1, <2>2
        DEF IInv, CheckpointOK, Gone, IsSeries
  <1>11. CollectorOK'
    <2> SUFFICES ASSUME collector = "delete" PROVE CollectorOK'
      BY <1>1 DEF CollectorOK
    <2>1. /\ checkpoint.num \in Int /\ checkpoint.num < last /\ cpNum \in Int
          /\ cpNum <= checkpoint.num
      BY DEF IInv, TypeOK, CheckpointOK, CollectorOK, Segment
    <2>2. ~(log'[n].segment <= cpNum)
      BY <1>2, <1>3, <1>5, <2>1
    <2> QED BY <1>1, <1>3, <1>4, <1>6, <2>1, <2>2
        DEF IInv, CollectorOK, Gone, IsSeries
  <1>12. ReaderOK'
    <2>1. pos <= Len(log')
      BY <1>3, <1>5 DEF IInv, ReaderOK
    <2>2. pos < Len(log) =>
            pos + 1 \in DOMAIN log /\ log'[pos + 1] = log[pos + 1] /\ pos < Len(log')
      BY <1>3, <1>5
    <2> QED BY <1>1, <1>6, <2>1, <2>2 DEF IInv, ReaderOK, Record, Gone
  <1>13. EntriesOK'
    <2>1. pos \in Nat /\ ~(n <= pos)
          /\ ~(n = pos + 1 /\ reader \in {"lookup", "probe", "panic"})
      BY <1>3, <1>5 DEF IInv, ReaderOK
    <2> QED BY <1>1, <1>3, <1>4, <1>6, <2>1 DEF IInv, EntriesOK, IsSet, IsSeries, Gone
  <1> QED BY <1>7, <1>8, <1>9, <1>10, <1>11, <1>12, <1>13 DEF IInv

\* The segments the invariant compares are numbers.
LEMMA Numbers ==
  ASSUME TypeOK
  PROVE  /\ DOMAIN log = 1..Len(log) /\ Len(log) \in Nat /\ pos \in Nat
         /\ last \in Nat /\ last <= MaxSegment
         /\ checkpoint.num \in Int /\ checkpoint.num >= -1 /\ cpNum \in Int
         /\ \A i \in DOMAIN log : /\ log[i] \in Records /\ log[i].ref \in Refs
                                  /\ log[i].segment \in Nat
         /\ \A r \in Refs : deleted[r] \in Int /\ deleted[r] >= NotDeleted
  <1> USE CacheAssumption DEF CacheAssumption
  <1>1. /\ DOMAIN log = 1..Len(log) /\ Len(log) \in Nat
        /\ \A i \in DOMAIN log : log[i] \in Records
    BY DEF TypeOK
  <1>2. \A i \in DOMAIN log : log[i].ref \in Refs /\ log[i].segment \in Nat
    BY <1>1 DEF Records, Segment
  <1>3. \A r \in Refs : deleted[r] \in Int /\ deleted[r] >= NotDeleted
    BY DEF TypeOK, Segment, NotDeleted
  <1> QED BY <1>1, <1>2, <1>3 DEF TypeOK, Segment

\* A series leaves the head, and is marked with the last segment.
LEMMA DropSeriesInv ==
  ASSUME IInv, NEW r \in Refs, DropSeries(r)
  PROVE  IInv'
  <1> USE CacheAssumption DEF CacheAssumption
  <1>1. /\ r \in live /\ live' = live \ {r}
        /\ deleted' = [deleted EXCEPT ![r] = last]
        /\ UNCHANGED <<log, last, checkpoint>> /\ UNCHANGED <<reader, pos>>
        /\ UNCHANGED <<cacheEntry, maxSegment>> /\ UNCHANGED <<collector, cpNum, exists>>
    BY DEF DropSeries, readerVars, gcVars
  <1>2. TypeOK
    BY DEF IInv
  <1>3. /\ deleted' \in [Refs -> {NotDeleted} \cup Segment]
        /\ deleted'[r] = last /\ last # NotDeleted
        /\ \A s \in Refs \ {r} : deleted'[s] = deleted[s]
    BY <1>1, <1>2, Numbers DEF TypeOK, NotDeleted
  <1>4. TypeOK'
    BY <1>1, <1>3 DEF IInv, TypeOK, Segment
  <1>5. LogOK'
    BY <1>1 DEF IInv, LogOK, IsSeries
  <1>6. \A s \in Refs : Gone(s) <=> (s \notin live' /\ deleted'[s] = NotDeleted)
    BY <1>1, <1>3 DEF Gone
  <1>7. KeptOK'
    BY <1>1, <1>2, <1>3, Numbers DEF IInv, LogOK, KeptOK
  <1>8. CheckpointOK'
    BY <1>1, <1>2, <1>6, Numbers DEF IInv, CheckpointOK, Gone, IsSeries
  <1>9. CollectorOK'
    BY <1>1, <1>2, <1>6, Numbers DEF IInv, CollectorOK, Gone, IsSeries
  <1>10. ReaderOK'
    <2>1. pos < Len(log) => log[pos + 1].ref \in Refs
      BY <1>2, Numbers
    <2> QED BY <1>1, <1>6, <2>1 DEF IInv, ReaderOK, Record, Gone
  <1>11. EntriesOK'
    BY <1>1, <1>2, <1>6, Numbers DEF IInv, EntriesOK, IsSet, Gone, IsSeries
  <1> QED BY <1>4, <1>5, <1>7, <1>8, <1>9, <1>10, <1>11 DEF IInv

\* A segment is cut.
LEMMA CutInv ==
  ASSUME IInv, Cut
  PROVE  IInv'
  <1> USE CacheAssumption DEF CacheAssumption
  <1>1. /\ last < MaxSegment /\ last' = last + 1
        /\ UNCHANGED <<log, live, deleted, checkpoint>> /\ UNCHANGED <<reader, pos>>
        /\ UNCHANGED <<cacheEntry, maxSegment>> /\ UNCHANGED <<collector, cpNum, exists>>
    BY DEF Cut, readerVars, gcVars
  <1>2. TypeOK
    BY DEF IInv
  <1>3. TypeOK'
    BY <1>1, <1>2, Numbers DEF TypeOK, Segment
  <1>4. LogOK' /\ CheckpointOK'
    BY <1>1, <1>2, Numbers DEF IInv, LogOK, CheckpointOK, IsSeries, Gone
  <1>5. KeptOK' /\ CollectorOK'
    BY <1>1 DEF IInv, KeptOK, CollectorOK, IsSeries, Gone
  <1>6. ReaderOK' /\ EntriesOK'
    BY <1>1 DEF IInv, ReaderOK, EntriesOK, IsSet, IsSeries, Gone, Record
  <1> QED BY <1>3, <1>4, <1>5, <1>6 DEF IInv

\* A checkpoint: the marks it takes back belong to series whose records are
\* all before the checkpoint there was.
LEMMA CheckpointInv ==
  ASSUME IInv, NEW k \in Segment, Checkpoint(k)
  PROVE  IInv'
  <1> USE CacheAssumption DEF CacheAssumption
  <1> DEFINE S == {r \in Refs : /\ r \in live \/ deleted[r] # NotDeleted
                                /\ \E i \in DOMAIN log :
                                     /\ log[i].kind = "series" /\ log[i].ref = r
                                     /\ log[i].segment <= k}
  <1>1. /\ checkpoint.num < k /\ k < last
        /\ checkpoint' = [num |-> k, series |-> S]
        /\ deleted' = [r \in Refs |-> IF deleted[r] <= checkpoint.num
                                      THEN NotDeleted ELSE deleted[r]]
        /\ UNCHANGED <<log, last, live>> /\ UNCHANGED <<reader, pos>>
        /\ UNCHANGED <<cacheEntry, maxSegment>> /\ UNCHANGED <<collector, cpNum, exists>>
    BY DEF Checkpoint, readerVars, gcVars
  <1>2. TypeOK /\ k \in Nat
    BY DEF IInv, Segment
  <1>3. S \in SUBSET Refs /\ \A i \in DOMAIN log :
          IsSeries(i) /\ log[i].segment <= k /\ ~Gone(log[i].ref) => log[i].ref \in S
    BY <1>2, Numbers DEF IsSeries, Gone
  <1> HIDE DEF S
  <1>4. checkpoint'.num = k /\ checkpoint'.series = S
        /\ checkpoint' \in [num : {-1} \cup Segment, series : SUBSET Refs]
    BY <1>1, <1>3
  <1>5. /\ deleted' \in [Refs -> {NotDeleted} \cup Segment]
        /\ \A r \in Refs : deleted'[r] = IF deleted[r] <= checkpoint.num
                                         THEN NotDeleted ELSE deleted[r]
    BY <1>1, <1>2 DEF TypeOK
  <1>6. \A r \in Refs : Gone(r) => r \notin live' /\ deleted'[r] = NotDeleted
    BY <1>1, <1>5 DEF Gone
  <1>7. TypeOK'
    BY <1>1, <1>4, <1>5 DEF IInv, TypeOK, Segment
  <1>8. LogOK'
    BY <1>1 DEF IInv, LogOK, IsSeries
  <1>9. KeptOK'
    <2> SUFFICES ASSUME NEW i \in DOMAIN log, log[i].ref \notin live
                 PROVE  IF deleted'[log[i].ref] = NotDeleted
                        THEN log[i].segment <= k
                        ELSE log[i].segment <= deleted'[log[i].ref]
      BY <1>1, <1>4 DEF KeptOK
    <2>1. /\ log[i].ref \in Refs /\ log[i].segment \in Nat
          /\ checkpoint.num \in Int /\ deleted[log[i].ref] \in Int
      BY <1>2, Numbers
    <2>2. CASE deleted[log[i].ref] = NotDeleted
      <3>1. log[i].segment <= checkpoint.num
        BY <2>2 DEF IInv, KeptOK
      <3>2. deleted'[log[i].ref] = NotDeleted
        BY <1>5, <2>1, <2>2
      <3> QED BY <1>1, <1>2, <2>1, <3>1, <3>2
    <2>3. CASE deleted[log[i].ref] # NotDeleted
      <3>1. log[i].segment <= deleted[log[i].ref]
        BY <2>3 DEF IInv, KeptOK
      <3> QED BY <1>1, <1>2, <1>5, <2>1, <2>3, <3>1
    <2> QED BY <2>2, <2>3
  <1>10. CheckpointOK'
    <2>1. \A i \in DOMAIN log :
            ~(log[i].ref \notin live' /\ deleted'[log[i].ref] = NotDeleted)
              => ~Gone(log[i].ref)
      BY <1>2, <1>6, Numbers
    <2> QED BY <1>1, <1>3, <1>4, <2>1 DEF CheckpointOK, IsSeries, Gone
  <1>11. CollectorOK'
    <2> SUFFICES ASSUME collector = "delete" PROVE CollectorOK'
      BY <1>1 DEF CollectorOK
    <2>1. cpNum <= k
      BY <1>1, <1>2, Numbers DEF IInv, CollectorOK
    <2> QED BY <1>1, <1>2, <1>4, <1>6, <2>1, Numbers
        DEF IInv, CollectorOK, IsSeries, Gone
  <1>12. ReaderOK'
    <2>1. pos < Len(log) => log[pos + 1].ref \in Refs
      BY <1>2, Numbers
    <2> QED BY <1>1, <1>6, <2>1 DEF IInv, ReaderOK, Record, Gone
  <1>13. EntriesOK'
    BY <1>1, <1>2, <1>6, Numbers DEF IInv, EntriesOK, IsSet, IsSeries, Gone
  <1> QED BY <1>7, <1>8, <1>9, <1>10, <1>11, <1>12, <1>13 DEF IInv

\* A step of the reader or the collector leaves what the log says alone.
LEMMA WalFrame ==
  ASSUME IInv, UNCHANGED walVars
  PROVE  /\ UNCHANGED <<log, last, live, deleted, checkpoint>>
         /\ LogOK' /\ KeptOK' /\ CheckpointOK'
         /\ UNCHANGED gcVars => CollectorOK'
  <1>1. UNCHANGED <<log, last, live, deleted, checkpoint>>
    BY DEF walVars
  <1>2. LogOK' /\ KeptOK'
    BY <1>1 DEF IInv, LogOK, KeptOK, IsSeries
  <1>3. CheckpointOK'
    BY <1>1 DEF IInv, CheckpointOK, IsSeries, Gone
  <1>4. ASSUME UNCHANGED gcVars PROVE CollectorOK'
    BY <1>1, <1>4 DEF IInv, CollectorOK, IsSeries, Gone, gcVars
  <1> QED BY <1>1, <1>2, <1>3, <1>4

\* A record that nobody wants, or a sample that needs no refresh, is passed.
LEMMA PassInv ==
  ASSUME IInv, SetFiltered \/ GetEntry
  PROVE  IInv'
  <1> USE CacheAssumption DEF CacheAssumption
  <1>1. /\ UNCHANGED walVars /\ UNCHANGED gcVars
        /\ UNCHANGED <<cacheEntry, maxSegment>> /\ UNCHANGED <<collector, cpNum, exists>>
        /\ pos < Len(log) /\ pos' = pos + 1 /\ reader' \in {"next", "retry"}
        /\ log[pos + 1].kind = "series" => log[pos + 1].ref \notin Exported
    BY DEF SetFiltered, GetEntry, gcVars, Record, Wanted
  <1>2. /\ UNCHANGED <<log, last, live, deleted, checkpoint>>
        /\ LogOK' /\ KeptOK' /\ CheckpointOK' /\ CollectorOK'
    BY <1>1, WalFrame
  <1>3. TypeOK
    BY DEF IInv
  <1>4. TypeOK'
    BY <1>1, <1>2 DEF IInv, TypeOK, Segment
  <1>5. ReaderOK'
    BY <1>1, <1>2, <1>3, Numbers DEF IInv, ReaderOK
  <1>6. EntriesOK'
    <2>1. \A i \in DOMAIN log : i <= pos + 1 => i <= pos \/ i = pos + 1
      BY <1>3, Numbers
    <2> QED BY <1>1, <1>2, <2>1 DEF IInv, EntriesOK, IsSet, IsSeries, Gone
  <1> QED BY <1>2, <1>4, <1>5, <1>6 DEF IInv

\* A new entry: it is the first of its series, and its segment is not before
\* that of the record.
LEMMA SetEntryInv ==
  ASSUME IInv, SetEntry
  PROVE  IInv'
  <1> USE CacheAssumption DEF CacheAssumption
  <1> DEFINE ref == log[pos + 1].ref
  <1>1. /\ UNCHANGED walVars /\ UNCHANGED gcVars
        /\ UNCHANGED <<collector, cpNum, exists>>
        /\ pos < Len(log) /\ pos' = pos /\ reader' = "lookup"
        /\ log[pos + 1].kind = "series" /\ ref \in Exported
        /\ cacheEntry' = [cacheEntry EXCEPT ![ref] = "due"]
    BY DEF SetEntry, gcVars, Record, Wanted
  <1>2. /\ UNCHANGED <<log, last, live, deleted, checkpoint>>
        /\ LogOK' /\ KeptOK' /\ CheckpointOK' /\ CollectorOK'
    BY <1>1, WalFrame
  <1>3. PICK n \in log[pos + 1].segment..last :
          maxSegment' = [maxSegment EXCEPT ![ref] = n]
    BY DEF SetEntry, Record
  <1>4. TypeOK /\ pos + 1 \in DOMAIN log
    BY <1>1, Numbers DEF IInv
  <1>5. ref \in Refs /\ n \in Segment /\ log[pos + 1].segment <= n
    BY <1>4, Numbers DEF Segment
  <1> HIDE DEF ref
  <1>6. /\ cacheEntry' \in [Refs -> {"none", "due", "waiting", "populated"}]
        /\ cacheEntry'[ref] = "due"
        /\ \A r \in Refs \ {ref} : cacheEntry'[r] = cacheEntry[r]
    BY <1>1, <1>4, <1>5 DEF TypeOK
  <1>7. /\ maxSegment' \in [Refs -> Segment] /\ maxSegment'[ref] = n
        /\ \A r \in Refs \ {ref} : maxSegment'[r] = maxSegment[r]
    BY <1>3, <1>4, <1>5 DEF TypeOK
  <1>8. TypeOK'
    BY <1>1, <1>2, <1>6, <1>7 DEF IInv, TypeOK, Segment
  <1>9. ReaderOK'
    BY <1>1, <1>2, <1>6 DEF IInv, ReaderOK, Record, ref
  <1>10. EntriesOK'
    <2> SUFFICES ASSUME NEW i \in DOMAIN log, log[i].kind = "series",
                        i <= pos \/ i = pos + 1, log[i].ref \in Exported
                 PROVE  /\ log[i].segment <= maxSegment'[log[i].ref]
                        /\ \/ cacheEntry'[log[i].ref] # "none"
                           \/ log[i].ref \notin live /\ deleted[log[i].ref] = NotDeleted
      BY <1>1, <1>2 DEF EntriesOK, IsSet, IsSeries, Gone
    <2>1. CASE i = pos + 1
      BY <1>5, <1>6, <1>7, <2>1 DEF ref
    <2>2. CASE i # pos + 1
      <3>1. log[i].ref # ref
        BY <1>1, <1>4, <2>2 DEF IInv, LogOK, IsSeries, ref
      <3>2. log[i].ref \in Refs
        BY <1>4, Numbers
      <3> QED BY <1>6, <1>7, <2>2, <3>1, <3>2 DEF IInv, EntriesOK, IsSet, IsSeries, Gone
    <2> QED BY <2>1, <2>2
  <1> QED BY <1>2, <1>8, <1>9, <1>10 DEF IInv

\* get finds an entry that is due for a refresh.
LEMMA GetEntryDueInv ==
  ASSUME IInv, GetEntryDue
  PROVE  IInv'
  <1>1. /\ UNCHANGED walVars /\ UNCHANGED gcVars
        /\ UNCHANGED <<collector, cpNum, exists>> /\ UNCHANGED <<cacheEntry, maxSegment>>
        /\ pos < Len(log) /\ pos' = pos /\ reader' = "lookup"
        /\ log[pos + 1].kind = "sample" /\ cacheEntry[log[pos + 1].ref] = "due"
    BY DEF GetEntryDue, gcVars, Record
  <1>2. /\ UNCHANGED <<log, last, live, deleted, checkpoint>>
        /\ LogOK' /\ KeptOK' /\ CheckpointOK' /\ CollectorOK'
    BY <1>1, WalFrame
  <1>3. TypeOK'
    BY <1>1, <1>2 DEF IInv, TypeOK, Segment
  <1>4. ReaderOK'
    <2>1. log[pos + 1].ref \in Refs
      BY <1>1, Numbers DEF IInv
    <2> QED BY <1>1, <1>2, <2>1 DEF IInv, ReaderOK, Record
  <1>5. EntriesOK'
    BY <1>1, <1>2 DEF IInv, EntriesOK, IsSet, IsSeries, Gone
  <1> QED BY <1>2, <1>3, <1>4, <1>5 DEF IInv

\* The series record of the present record, or of the sample's series, is set.
LEMMA LookedUpIsSet ==
  ASSUME IInv, reader \in {"lookup", "probe", "panic"}
  PROVE  \E i \in DOMAIN log : IsSet(i) /\ log[i].ref = log[pos + 1].ref
  <1>1. pos + 1 \in DOMAIN log /\ pos \in Nat /\ DOMAIN log = 1..Len(log)
        /\ Len(log) \in Nat
    BY Numbers DEF IInv, ReaderOK
  <1>2. CASE IsSeries(pos + 1)
    BY <1>1, <1>2 DEF IsSet
  <1>3. CASE ~IsSeries(pos + 1)
    <2>1. PICK i \in DOMAIN log :
            i < pos + 1 /\ IsSeries(i) /\ log[i].ref = log[pos + 1].ref
      BY <1>1, <1>3 DEF IInv, LogOK
    <2>2. i <= pos
      BY <1>1, <2>1
    <2> QED BY <2>1, <2>2 DEF IsSet
  <1> QED BY <1>2, <1>3

\* refresh looks the entry up; it is missing only for a series that is gone.
LEMMA RefreshLookupInv ==
  ASSUME IInv, RefreshLookup
  PROVE  IInv'
  <1> DEFINE ref == log[pos + 1].ref
  <1>1. /\ UNCHANGED walVars /\ UNCHANGED gcVars /\ reader = "lookup"
        /\ UNCHANGED <<collector, cpNum, exists>> /\ maxSegment' = maxSegment
        /\ pos' = pos
        /\ IF cacheEntry[ref] = "none"
           THEN reader' = "panic" /\ cacheEntry' = cacheEntry
           ELSE reader' = "probe" /\ cacheEntry' = [cacheEntry EXCEPT ![ref] = "waiting"]
    BY DEF RefreshLookup, gcVars, Record
  <1>2. /\ UNCHANGED <<log, last, live, deleted, checkpoint>>
        /\ LogOK' /\ KeptOK' /\ CheckpointOK' /\ CollectorOK'
    BY <1>1, WalFrame
  <1>3. /\ pos < Len(log) /\ ref \in Refs /\ ref \in Exported
    BY <1>1, Numbers DEF IInv, ReaderOK, Record
  <1>4. CASE cacheEntry[ref] = "none"
    <2>1. Gone(ref)
      BY <1>1, <1>3, <1>4, LookedUpIsSet DEF IInv, EntriesOK
    <2>2. TypeOK'
      BY <1>1, <1>2, <1>4 DEF IInv, TypeOK, Segment
    <2>3. ReaderOK'
      BY <1>1, <1>2, <1>3, <1>4, <2>1 DEF IInv, ReaderOK, Record, Gone
    <2>4. EntriesOK'
      BY <1>1, <1>2, <1>4 DEF IInv, EntriesOK, IsSet, IsSeries, Gone
    <2> QED BY <1>2, <2>2, <2>3, <2>4 DEF IInv
  <1>5. CASE cacheEntry[ref] # "none"
    <2>1. reader' = "probe" /\ cacheEntry' = [cacheEntry EXCEPT ![ref] = "waiting"]
      BY <1>1, <1>5
    <2> HIDE DEF ref
    <2>2. /\ cacheEntry' \in [Refs -> {"none", "due", "waiting", "populated"}]
          /\ \A r \in Refs : cacheEntry'[r] # "none" <=> cacheEntry[r] # "none"
      BY <1>3, <1>5, <2>1 DEF IInv, TypeOK
    <2>3. TypeOK'
      BY <1>1, <1>2, <2>1, <2>2 DEF IInv, TypeOK, Segment
    <2>4. ReaderOK'
      BY <1>1, <1>2, <1>3, <2>1, <2>2 DEF IInv, ReaderOK, Record, ref
    <2>5. EntriesOK'
      BY <1>1, <1>2, <2>1, <2>2, Numbers DEF IInv, EntriesOK, IsSet, IsSeries, Gone
    <2> QED BY <1>2, <2>3, <2>4, <2>5 DEF IInv
  <1> QED BY <1>4, <1>5

\* refresh ends, with or without what it looked for, and no entry comes or goes.
LEMMA RefreshEndsInv ==
  ASSUME IInv, RefreshPopulates \/ \E failed \in BOOLEAN : RefreshLacks(failed)
  PROVE  IInv'
  <1>1. /\ UNCHANGED walVars /\ UNCHANGED gcVars /\ reader = "probe"
        /\ UNCHANGED <<collector, cpNum, exists>> /\ maxSegment' = maxSegment
        /\ (pos' = pos + 1 /\ reader' = "next") \/ (pos' = pos /\ reader' = "retry")
    BY DEF RefreshPopulates, RefreshLacks, gcVars
  <1>2. /\ UNCHANGED <<log, last, live, deleted, checkpoint>>
        /\ LogOK' /\ KeptOK' /\ CheckpointOK' /\ CollectorOK'
    BY <1>1, WalFrame
  <1>3. TypeOK /\ pos < Len(log) /\ pos \in Nat /\ log[pos + 1].ref \in Refs
        /\ Len(log) \in Nat /\ DOMAIN log = 1..Len(log)
    BY <1>1, Numbers DEF IInv, ReaderOK
  <1>4. /\ cacheEntry' \in [Refs -> {"none", "due", "waiting", "populated"}]
        /\ \A r \in Refs : cacheEntry'[r] # "none" <=> cacheEntry[r] # "none"
    <2>1. CASE RefreshPopulates
      BY <1>3, <2>1 DEF RefreshPopulates, Record, TypeOK
    <2>2. CASE \E failed \in BOOLEAN : RefreshLacks(failed)
      BY <1>3, <2>2 DEF RefreshLacks, TypeOK
    <2> QED BY <2>1, <2>2
  <1>5. TypeOK'
    BY <1>1, <1>2, <1>3, <1>4 DEF TypeOK, Segment
  <1>6. ReaderOK'
    BY <1>1, <1>2, <1>3, <1>4 DEF IInv, ReaderOK
  <1>7. EntriesOK'
    <2>1. \A i \in DOMAIN log : i <= pos + 1 => i <= pos \/ i = pos + 1
      BY <1>3
    <2>2. \A i \in DOMAIN log : log[i].ref \in Refs
      BY <1>3, Numbers
    <2> QED BY <1>1, <1>2, <1>4, <2>1, <2>2 DEF IInv, EntriesOK, IsSet, IsSeries, Gone
  <1> QED BY <1>2, <1>5, <1>6, <1>7 DEF IInv

\* The refresh interval of an entry has passed.
LEMMA RefreshIsDueInv ==
  ASSUME IInv, NEW r \in Refs, RefreshIsDue(r)
  PROVE  IInv'
  <1>1. /\ UNCHANGED walVars /\ UNCHANGED gcVars /\ UNCHANGED <<reader, pos>>
        /\ UNCHANGED <<collector, cpNum, exists>> /\ maxSegment' = maxSegment
    BY DEF RefreshIsDue, gcVars, readerVars
  <1>2. /\ UNCHANGED <<log, last, live, deleted, checkpoint>>
        /\ LogOK' /\ KeptOK' /\ CheckpointOK' /\ CollectorOK'
    BY <1>1, WalFrame
  <1>3. /\ cacheEntry' \in [Refs -> {"none", "due", "waiting", "populated"}]
        /\ \A s \in Refs : cacheEntry'[s] # "none" <=> cacheEntry[s] # "none"
    BY DEF RefreshIsDue, IInv, TypeOK
  <1>4. TypeOK'
    BY <1>1, <1>2, <1>3 DEF IInv, TypeOK, Segment
  <1>5. ReaderOK'
    BY <1>1, <1>2, <1>3 DEF IInv, ReaderOK, Record, Gone
  <1>6. EntriesOK'
    BY <1>1, <1>2, <1>3, Numbers DEF IInv, EntriesOK, IsSet, IsSeries, Gone
  <1> QED BY <1>2, <1>4, <1>5, <1>6 DEF IInv

\* The collector finds a checkpoint and scans it: what it does not find there
\* and was logged before is gone.
LEMMA ScanInv ==
  ASSUME IInv, FindCheckpoint \/ ScanCheckpoint
  PROVE  IInv'
  <1>1. /\ UNCHANGED walVars /\ UNCHANGED <<reader, pos>>
        /\ UNCHANGED <<cacheEntry, maxSegment>>
    BY DEF FindCheckpoint, ScanCheckpoint, readerVars
  <1>2. /\ UNCHANGED <<log, last, live, deleted, checkpoint>>
        /\ LogOK' /\ KeptOK' /\ CheckpointOK'
    BY <1>1, WalFrame
  <1>3. TypeOK /\ 0 \in Segment
    BY CacheAssumption DEF IInv, CacheAssumption, Segment
  <1>4. /\ collector' \in {"idle", "scan", "delete"}
        /\ cpNum' \in {-1} \cup Segment /\ exists' \in SUBSET Refs
        /\ collector' = "delete" => cpNum' = checkpoint.num /\ exists' = checkpoint.series
    BY <1>3 DEF FindCheckpoint, ScanCheckpoint, TypeOK
  <1>5. TypeOK'
    BY <1>1, <1>2, <1>3, <1>4 DEF TypeOK, Segment
  <1>6. CollectorOK'
    <2>1. checkpoint.num <= checkpoint.num
      BY <1>3, Numbers
    <2> QED BY <1>2, <1>4, <2>1 DEF IInv, CheckpointOK, CollectorOK, IsSeries, Gone
  <1>7. ReaderOK' /\ EntriesOK'
    BY <1>1, <1>2 DEF IInv, ReaderOK, Record, EntriesOK, IsSet, IsSeries, Gone
  <1> QED BY <1>2, <1>5, <1>6, <1>7 DEF IInv

\* The collector deletes: an entry that was set for a series record goes only
\* if that series is gone.
LEMMA DeleteEntriesInv ==
  ASSUME IInv, DeleteEntries
  PROVE  IInv'
  <1>1. /\ UNCHANGED walVars /\ UNCHANGED <<reader, pos>> /\ maxSegment' = maxSegment
        /\ cacheEntry' = [r \in Refs |-> IF r \notin exists /\ maxSegment[r] <= cpNum
                                         THEN "none" ELSE cacheEntry[r]]
        /\ collector = "delete" /\ collector' = "idle" /\ cpNum' = 0 /\ exists' = {}
    BY DEF DeleteEntries, readerVars
  <1>2. /\ UNCHANGED <<log, last, live, deleted, checkpoint>>
        /\ LogOK' /\ KeptOK' /\ CheckpointOK'
    BY <1>1, WalFrame
  <1>3. TypeOK /\ 0 \in Segment
    BY CacheAssumption DEF IInv, CacheAssumption, Segment
  <1>4. /\ cacheEntry' \in [Refs -> {"none", "due", "waiting", "populated"}]
        /\ \A r \in Refs : cacheEntry'[r] = IF r \notin exists /\ maxSegment[r] <= cpNum
                                            THEN "none" ELSE cacheEntry[r]
    BY <1>1, <1>3 DEF TypeOK
  <1>5. TypeOK'
    BY <1>1, <1>2, <1>3, <1>4 DEF TypeOK, Segment
  <1>6. CollectorOK'
    BY <1>1 DEF CollectorOK
  <1>7. ReaderOK'
    BY <1>1, <1>2, <1>4 DEF IInv, ReaderOK, Record, Gone
  <1>8. EntriesOK'
    <2> SUFFICES ASSUME NEW i \in DOMAIN log, IsSet(i), log[i].ref \in Exported
                 PROVE  /\ log[i].segment <= maxSegment[log[i].ref]
                        /\ cacheEntry'[log[i].ref] # "none" \/ Gone(log[i].ref)
      BY <1>1, <1>2 DEF EntriesOK, IsSet, IsSeries, Gone
    <2>1. /\ log[i].segment <= maxSegment[log[i].ref]
          /\ cacheEntry[log[i].ref] # "none" \/ Gone(log[i].ref)
      BY DEF IInv, EntriesOK
    <2>2. /\ log[i].ref \in Refs /\ log[i].segment \in Nat /\ cpNum \in Int
          /\ maxSegment[log[i].ref] \in Nat
      BY <1>3, Numbers, CacheAssumption DEF TypeOK, Segment, CacheAssumption
    <2>3. CASE log[i].ref \notin exists /\ maxSegment[log[i].ref] <= cpNum
      <3>1. log[i].segment <= cpNum
        BY <2>1, <2>2, <2>3
      <3> QED BY <1>1, <2>1, <2>3, <3>1 DEF IInv, CollectorOK, IsSet
    <2>4. CASE ~(log[i].ref \notin exists /\ maxSegment[log[i].ref] <= cpNum)
      BY <1>4, <2>1, <2>2, <2>4
    <2> QED BY <2>3, <2>4
  <1> QED BY <1>2, <1>5, <1>6, <1>7, <1>8 DEF IInv

\* Every step preserves the invariant.
LEMMA InvNext == IInv /\ [Next]_vars => IInv'
  <1> SUFFICES ASSUME IInv, [Next]_vars PROVE IInv'
    OBVIOUS
  <1>1. CASE Prometheus
    <2>1. CASE Cut
      BY <2>1, CutInv
    <2>2. CASE \E k \in Segment : Checkpoint(k)
      BY <2>2, CheckpointInv
    <2>3. ASSUME NEW r \in Refs, NewSeries(r) PROVE IInv'
      BY <2>3, LogRecordInv DEF NewSeries
    <2>4. ASSUME NEW r \in Refs, NewSample(r) PROVE IInv'
      <3>1. live' = live \cup {r} /\ r \in live /\ LogRecord("sample", r)
        BY <2>4 DEF NewSample
      <3> QED BY <3>1, LogRecordInv
    <2>5. ASSUME NEW r \in Refs, DropSeries(r) PROVE IInv'
      BY <2>5, DropSeriesInv
    <2> QED BY <1>1, <2>1, <2>2, <2>3, <2>4, <2>5 DEF Prometheus
  <1>2. CASE Reader
    BY <1>2, SetEntryInv, PassInv, GetEntryDueInv, RefreshLookupInv, RefreshEndsInv
    DEF Reader
  <1>3. CASE Collector
    BY <1>3, ScanInv, DeleteEntriesInv DEF Collector
  <1>4. CASE \E r \in Refs : RefreshIsDue(r)
    BY <1>4, RefreshIsDueInv
  <1>5. CASE UNCHANGED vars
    <2>1. /\ UNCHANGED walVars /\ UNCHANGED gcVars /\ UNCHANGED <<reader, pos>>
          /\ UNCHANGED <<cacheEntry, maxSegment>> /\ UNCHANGED <<collector, cpNum, exists>>
      BY <1>5 DEF vars, readerVars, gcVars
    <2>2. /\ UNCHANGED <<log, last, live, deleted, checkpoint>>
          /\ LogOK' /\ KeptOK' /\ CheckpointOK' /\ CollectorOK'
      BY <2>1, WalFrame
    <2>3. TypeOK' /\ ReaderOK' /\ EntriesOK'
      BY <2>1, <2>2 DEF IInv, TypeOK, ReaderOK, Record, EntriesOK, IsSet, IsSeries, Gone,
                        Segment
    <2> QED BY <2>2, <2>3 DEF IInv
  <1> QED BY <1>1, <1>2, <1>3, <1>4, <1>5 DEF Next, Down, Quiet

\* Every reachable state satisfies the invariant.
THEOREM Invariance == Spec => []IInv
  BY InvInit, InvNext, PTL DEF Spec

-----------------------------------------------------------------------------
(* What it implies. *)

\* A series whose record was read and that is wanted is in the cache or gone.
LEMMA KnownIsKept ==
  ASSUME IInv, NEW r \in Exported, Known(r)
  PROVE  cacheEntry[r] # "none" \/ Gone(r)
  <1>1. PICK i \in 1..pos : log[i].kind = "series" /\ log[i].ref = r
    BY DEF Known
  <1>2. i \in DOMAIN log /\ i <= pos
    BY <1>1, Numbers DEF IInv, ReaderOK
  <1> QED BY <1>1, <1>2 DEF IInv, EntriesOK, IsSet, IsSeries

\* All records of a series that is gone are before the last checkpoint.
LEMMA GoneIsTruncated ==
  ASSUME IInv, NEW i \in DOMAIN log, Gone(log[i].ref)
  PROVE  log[i].segment <= checkpoint.num
  BY DEF IInv, KeptOK, Gone

\* The cache never forgets a series that Prometheus still has.
THEOREM LiveSeriesKeptHolds == Spec => []LiveSeriesKept
  <1>1. IInv => LiveSeriesKept
    BY KnownIsKept DEF LiveSeriesKept, Gone
  <1> QED BY <1>1, Invariance, PTL

\* No entry goes while samples of its series after the checkpoint are unread.
THEOREM UnreadSamplesKeptHolds == Spec => []UnreadSamplesKept
  <1>1. IInv => UnreadSamplesKept
    <2> SUFFICES ASSUME IInv, NEW i \in pos + 1..Len(log),
                        log[i].ref \in Exported, Known(log[i].ref),
                        log[i].segment > checkpoint.num
                 PROVE  cacheEntry[log[i].ref] # "none"
      BY DEF UnreadSamplesKept
    <2>1. i \in DOMAIN log
      BY Numbers DEF IInv
    <2>2. log[i].segment \in Nat /\ checkpoint.num \in Int
      BY <2>1, Numbers DEF IInv
    <2>3. ~(log[i].segment <= checkpoint.num)
      BY <2>2
    <2> QED BY <2>1, <2>3, KnownIsKept, GoneIsTruncated
  <1> QED BY <1>1, Invariance, PTL

\* refresh panics only for a record that Prometheus has truncated.
THEOREM PanicOnlyIfTruncatedHolds == Spec => []PanicOnlyIfTruncated
  <1>1. IInv => PanicOnlyIfTruncated
    <2> SUFFICES ASSUME IInv, reader = "panic"
                 PROVE  Record.segment <= checkpoint.num
      BY DEF PanicOnlyIfTruncated
    <2>1. pos + 1 \in DOMAIN log
      BY Numbers DEF IInv, ReaderOK
    <2> QED BY <2>1, GoneIsTruncated DEF IInv, ReaderOK, Record
  <1> QED BY <1>1, Invariance, PTL
==============================================================================
