------------------------- MODULE SampleBuilderProofs -------------------------
(***************************************************************************)
(* TLAPS proofs about SampleBuilder, for any number of targets, series and *)
(* scrapes, whatever the targets expose:                                   *)
(*                                                                         *)
(*   - the intervals of the points of a Stackdriver series are legal;      *)
(*   - next makes progress;                                                *)
(*   - the counter tracker is fed what happened (aggregator.go);           *)
(*   - no point counts more than what happened (getResetAdjusted);         *)
(*   - a distribution is the histogram of what happened                    *)
(*     (buildDistribution).                                                *)
(*                                                                         *)
(* Progress and the last two need hypotheses about what the targets        *)
(* expose: NoBareNames, ExportedWhole, HistogramsWhole and Sequential.     *)
(***************************************************************************)
EXTENDS SampleBuilder, SequenceTheorems, FiniteSetTheorems, WellFoundedInduction, TLAPS

-----------------------------------------------------------------------------
(* The inductive invariant. *)

\* A sequence, whatever its elements are: what intervals and progress rest on
\* does not depend on the values of samples.
IsSeq(s) == s \in Seq(Range(s))

\* A record with the fields of a seriesCacheEntry.
IsEntry(e) ==
    /\ e = [lookup |-> e.lookup, hasReset |-> e.hasReset, resetValue |-> e.resetValue,
            resetTimestamp |-> e.resetTimestamp, lastTimestamp |-> e.lastTimestamp,
            lastValue |-> e.lastValue]
    /\ e.hasReset \in BOOLEAN

\* The shape of the variables other than the points.
TypeOK ==
    /\ layout \in Layouts
    /\ entry = [r \in Refs |-> entry[r]] /\ \A r \in Refs : IsEntry(entry[r])
    /\ scrapes = [p \in Targets |-> scrapes[p]]
    /\ \A p \in Targets : IsSeq(scrapes[p])
    /\ IsSeq(samples)

\* A scrape has happened, and it was at t or later.
ScrapedBy(p, t) ==
    scrapes[p] # <<>> /\ Last(scrapes[p]).time \in Nat /\ t <= Last(scrapes[p]).time

\* The record: the samples are in the order of their times, those of a series
\* at different times, none later than the last scrape of the target.
RecordOK ==
    /\ \A p \in Targets : scrapes[p] # <<>> => Last(scrapes[p]).time \in Nat
    /\ \A k \in DOMAIN samples :
         /\ samples[k].ref \in Refs /\ samples[k].time \in Nat \ {0}
         /\ ScrapedBy(samples[k].ref[1], samples[k].time)
    /\ \A k, l \in DOMAIN samples : k < l =>
         /\ samples[k].time <= samples[l].time
         /\ samples[k].ref = samples[l].ref => samples[k].time < samples[l].time

\* The reset timestamp of an entry is not later than the target's last scrape,
\* and before every sample that is left of the series, unless getResetAdjusted
\* has been called for that sample.
ResetsOK ==
    /\ \A r \in Refs : entry[r].hasReset =>
         entry[r].resetTimestamp \in Int /\ ScrapedBy(r[1], entry[r].resetTimestamp)
    /\ \A k \in DOMAIN samples :
         LET e == entry[samples[k].ref]
         IN e.hasReset => \/ e.resetTimestamp < samples[k].time
                          \/ e.resetTimestamp = samples[k].time /\ samples[k] \in handled

\* c.intervals has the interval of the last point of each hash.
IntervalsOK ==
    \A h \in Hashes :
      /\ \A i \in DOMAIN sent[h] : sent[h][i].start \in Int /\ sent[h][i].end \in Int
      /\ interval[h] = IF sent[h] = <<>> THEN NoInterval
                       ELSE [start |-> Last(sent[h]).start, end |-> Last(sent[h]).end]

\* The part of the invariant that is about points.
PointsOK ==
    /\ interval \in [Hashes -> [start : Int, end : Int]]
    /\ sent = [h \in Hashes |-> sent[h]] /\ \A h \in Hashes : IsSeq(sent[h])
    /\ IntervalsOK /\ IntervalsLegal

IInv == TypeOK /\ RecordOK /\ ResetsOK /\ PointsOK

-----------------------------------------------------------------------------
(* Sequences and numbers. *)

\* A sequence over any set is one over its elements.
LEMMA SeqIsSeq ==
  ASSUME NEW S, NEW s \in Seq(S)
  PROVE  IsSeq(s) /\ Len(s) \in Nat /\ DOMAIN s = 1..Len(s)
  <1>1. Len(s) \in Nat /\ DOMAIN s = 1..Len(s) /\ s \in [1..Len(s) -> S]
    BY LenProperties
  <1>2. s \in [1..Len(s) -> Range(s)]
    BY <1>1 DEF Range
  <1>3. s \in Seq(Range(s))
    BY <1>1, <1>2, SeqDef
  <1> QED BY <1>1, <1>3 DEF IsSeq

\* What the proofs use of a sequence.
LEMMA SeqShape ==
  ASSUME NEW s, IsSeq(s)
  PROVE  /\ Len(s) \in Nat /\ DOMAIN s = 1..Len(s)
         /\ s # <<>> => Len(s) >= 1 /\ Head(s) = s[1]
         /\ s = <<>> => Len(s) = 0
  <1>1. s \in Seq(Range(s))
    BY DEF IsSeq
  <1>2. Len(s) \in Nat /\ DOMAIN s = 1..Len(s)
    BY <1>1, LenProperties
  <1>3. s # <<>> => Len(s) \in Nat \ {0}
    BY <1>1, EmptySeq
  <1> QED BY <1>1, <1>2, <1>3

\* A function on 1..n.
LEMMA FunctionIsSeq ==
  ASSUME NEW n \in Nat, NEW f, DOMAIN f = 1..n, f = [i \in 1..n |-> f[i]]
  PROVE  IsSeq(f) /\ Len(f) = n
  <1>1. f \in [1..n -> Range(f)]
    BY DEF Range
  <1>2. f \in Seq(Range(f))
    BY <1>1, SeqDef
  <1>3. Len(f) \in Nat /\ 1..Len(f) = 1..n
    BY <1>2, LenProperties
  <1>4. Len(f) = n
    BY <1>3
  <1> QED BY <1>2, <1>4 DEF IsSeq

\* Append.
LEMMA AppendIsSeq ==
  ASSUME NEW s, IsSeq(s), NEW x
  PROVE  /\ IsSeq(Append(s, x)) /\ Append(s, x) # <<>>
         /\ Len(Append(s, x)) = Len(s) + 1 /\ DOMAIN Append(s, x) = 1..(Len(s) + 1)
         /\ \A i \in 1..Len(s) : Append(s, x)[i] = s[i]
         /\ Append(s, x)[Len(s) + 1] = x
  <1> DEFINE S == Range(s) \cup {x}
  <1>1. s \in Seq(S) /\ x \in S
    BY SeqMonotonic DEF IsSeq
  <1> HIDE DEF S
  <1>2. /\ Append(s, x) \in Seq(S) /\ Append(s, x) # <<>>
        /\ Len(Append(s, x)) = Len(s) + 1
        /\ \A i \in 1..Len(s) : Append(s, x)[i] = s[i]
        /\ Append(s, x)[Len(s) + 1] = x
    BY <1>1, AppendProperties
  <1>3. IsSeq(Append(s, x)) /\ DOMAIN Append(s, x) = 1..Len(Append(s, x))
    BY <1>2, SeqIsSeq
  <1> QED BY <1>2, <1>3

\* Concatenation with a non-empty sequence.
LEMMA ConcatIsSeq ==
  ASSUME NEW s, IsSeq(s), NEW t, IsSeq(t), t # <<>>
  PROVE  /\ IsSeq(s \o t) /\ s \o t # <<>>
         /\ Last(s \o t) = Last(t)
  <1> DEFINE S == Range(s) \cup Range(t)
  <1>1. s \in Seq(S) /\ t \in Seq(S)
    BY SeqMonotonic DEF IsSeq
  <1> HIDE DEF S
  <1>2. /\ s \o t \in Seq(S)
        /\ Len(s \o t) = Len(s) + Len(t)
        /\ \A i \in 1..(Len(s) + Len(t)) : (s \o t)[i] =
              IF i <= Len(s) THEN s[i] ELSE t[i - Len(s)]
    BY <1>1, ConcatProperties
  <1>3. Len(s) \in Nat /\ Len(t) \in Nat \ {0}
    BY <1>1, LenProperties, EmptySeq
  <1>4. s \o t # <<>>
    BY <1>2, <1>3, EmptySeq
  <1>5. PICK m \in Nat, n \in Nat \ {0} : m = Len(s) /\ n = Len(t)
    BY <1>3
  <1>6. (s \o t)[m + n] = t[n]
    <2>1. m + n \in 1..(m + n) /\ ~(m + n <= m) /\ m + n - m = n
      BY <1>5
    <2> QED BY <1>2, <1>5, <2>1
  <1> QED BY <1>2, <1>4, <1>5, <1>6, SeqIsSeq DEF Last

\* What is left of a sequence.
LEMMA RestIsSeq ==
  ASSUME NEW s, IsSeq(s), NEW m \in 1..(Len(s) + 1)
  PROVE  LET t == SubSeq(s, m, Len(s))
         IN /\ IsSeq(t) /\ Len(t) = Len(s) + 1 - m /\ DOMAIN t = 1..(Len(s) + 1 - m)
            /\ \A i \in DOMAIN t : i + m - 1 \in DOMAIN s /\ t[i] = s[i + m - 1]
  <1>1. Len(s) \in Nat /\ DOMAIN s = 1..Len(s)
    BY SeqShape
  <1>2. PICK n \in Nat : n = Len(s)
    BY <1>1
  <1>3. \A i \in m..n : s[i] \in Range(s)
    BY <1>1, <1>2 DEF Range
  <1>4. /\ SubSeq(s, m, n) \in Seq(Range(s))
        /\ Len(SubSeq(s, m, n)) = IF m <= n THEN n - m + 1 ELSE 0
        /\ \A i \in 1..(n - m + 1) : SubSeq(s, m, n)[i] = s[m + i - 1]
    BY <1>2, <1>3, SubSeqProperties
  <1>5. Len(SubSeq(s, m, n)) = n + 1 - m
    BY <1>2, <1>4
  <1>6. IsSeq(SubSeq(s, m, n)) /\ DOMAIN SubSeq(s, m, n) = 1..(n + 1 - m)
    BY <1>4, <1>5, SeqIsSeq
  <1>7. \A i \in 1..(n + 1 - m) : i + m - 1 \in 1..n /\ SubSeq(s, m, n)[i] = s[i + m - 1]
    <2> SUFFICES ASSUME NEW i \in 1..(n + 1 - m)
                 PROVE  i + m - 1 \in 1..n /\ SubSeq(s, m, n)[i] = s[i + m - 1]
      OBVIOUS
    <2>1. i \in 1..(n - m + 1) /\ m + i - 1 = i + m - 1 /\ i + m - 1 \in 1..n
      BY <1>2
    <2> QED BY <1>4, <2>1
  <1> QED BY <1>1, <1>2, <1>5, <1>6, <1>7

\* Tail.
LEMMA TailIsRest ==
  ASSUME NEW s, IsSeq(s), s # <<>>
  PROVE  Tail(s) = SubSeq(s, 2, Len(s)) /\ 2 \in 1..(Len(s) + 1)
  <1>1. Tail(s) = SubSeq(s, 2, Len(s))
    BY TailIsSubSeq DEF IsSeq
  <1> QED BY <1>1, SeqShape

\* A set of natural numbers has a least element.
LEMMA LeastNumber ==
  ASSUME NEW T \in SUBSET Nat, T # {}
  PROVE  Min(T) \in T /\ \A n \in T : Min(T) <= n
  <1> DEFINE R == OpToRel(<, Nat)
  <1>1. IsWellFoundedOn(R, Nat)
    BY NatLessThanWellFounded
  <1>2. \A x, y \in Nat : y < x => <<y, x>> \in R
    BY DEF OpToRel
  <1> HIDE DEF R
  <1>3. PICK m \in T : \A n \in T : ~(<<n, m>> \in R)
    BY <1>1, WFMin
  <1>4. \A n \in T : ~(n < m)
    BY <1>2, <1>3
  <1>5. \A n \in T : m <= n
    BY <1>4
  <1> QED BY <1>5 DEF Min

\* Max of a bounded set of natural numbers is in it.
LEMMA MaxIsElement ==
  ASSUME NEW T, NEW b \in Nat, T \subseteq 0..b, T # {}
  PROVE  Max(T) \in T /\ \A n \in T : Max(T) >= n
  <1> DEFINE U == {b - n : n \in T}
  <1>1. U \in SUBSET Nat /\ U # {}
    <2>1. \A n \in T : b - n \in Nat
      OBVIOUS
    <2> QED BY <2>1
  <1> HIDE DEF U
  <1>2. Min(U) \in U /\ \A v \in U : Min(U) <= v
    BY <1>1, LeastNumber
  <1>3. PICK m \in T : Min(U) = b - m
    BY <1>2 DEF U
  <1>4. ASSUME NEW n \in T PROVE m >= n
    <2>1. Min(U) <= b - n
      BY <1>2 DEF U
    <2> QED BY <1>3, <2>1
  <1> QED BY <1>4 DEF Max

\* Quotient and remainder.
LEMMA Quotient ==
  ASSUME NEW a \in Nat, NEW k \in Nat \ {0}
  PROVE  \E q \in Nat, r \in 0..(k - 1) : /\ q = a \div k /\ r = a % k
                                         /\ a = k * q + r
  OBVIOUS

\* The quotient is monotone, strictly where the remainders are equal, and below
\* n for numbers below k * n.
LEMMA QuotientMonotone ==
  ASSUME NEW k \in Nat \ {0}, NEW a \in Nat, NEW b \in Nat, a < b
  PROVE  /\ a \div k <= b \div k
         /\ a % k = b % k => a \div k < b \div k
  <1>1. PICK q \in Nat, r \in 0..(k - 1) : q = a \div k /\ r = a % k /\ a = k * q + r
    BY Quotient
  <1>2. PICK p \in Nat, s \in 0..(k - 1) : p = b \div k /\ s = b % k /\ b = k * p + s
    BY Quotient
  <1>3. ASSUME p < q PROVE FALSE
    <2>1. PICK d \in Nat : q = p + 1 + d
      BY <1>3, q - p - 1 \in Nat
    <2>2. k * q = k * p + k + k * d /\ k * d \in Nat /\ k * p \in Nat
      BY <2>1
    <2> QED BY <1>1, <1>2, <2>2
  <1>4. ASSUME p = q, r = s PROVE FALSE
    BY <1>1, <1>2, <1>4
  <1> QED BY <1>1, <1>2, <1>3, <1>4

-----------------------------------------------------------------------------
(* The operators of the model. *)

\* The series of a reference.
LEMMA SeriesType ==
  ASSUME layout \in Layouts, NEW r \in Refs
  PROVE  /\ r[1] \in Targets /\ r[2] \in DOMAIN layout[r[1]]
         /\ SeriesOf(r) \in Series /\ SeriesOf(r).hash \in Hashes
  <1>1. PICK p \in Targets : \E i \in DOMAIN layout[p] : r = <<p, i>>
    BY DEF Refs
  <1>0. PICK i \in DOMAIN layout[p] : r = <<p, i>>
    BY <1>1
  <1>2. layout[p] \in Seq(Series)
    BY BuilderAssumption DEF BuilderAssumption
  <1>3. layout[p][i] \in Series
    BY <1>2, LenProperties, ElementOfSeq
  <1>4. SeriesOf(r) = layout[p][i]
    BY <1>0 DEF SeriesOf
  <1> QED BY <1>0, <1>3, <1>4 DEF Series

\* The references depend on the layout alone.
LEMMA RefsSame ==
  ASSUME layout' = layout
  PROVE  Refs' = Refs
  BY DEF Refs

\* What an entry becomes when its lookup is set.
LEMMA LookupFields ==
  ASSUME NEW e, IsEntry(e), NEW l
  PROVE  LET f == [e EXCEPT !.lookup = l]
         IN /\ IsEntry(f) /\ f.lookup = l /\ f.hasReset = e.hasReset
            /\ f.resetTimestamp = e.resetTimestamp /\ f.resetValue = e.resetValue
            /\ f.lastTimestamp = e.lastTimestamp /\ f.lastValue = e.lastValue
  <1>1. PICK a, b, c, d, g, h : e = [lookup |-> a, hasReset |-> b, resetValue |-> c,
            resetTimestamp |-> d, lastTimestamp |-> g, lastValue |-> h]
    BY DEF IsEntry
  <1>2. [e EXCEPT !.lookup = l] = [lookup |-> l, hasReset |-> b, resetValue |-> c,
            resetTimestamp |-> d, lastTimestamp |-> g, lastValue |-> h]
    BY <1>1
  <1>3. e.hasReset \in BOOLEAN /\ e.hasReset = b /\ e.resetTimestamp = d
        /\ e.resetValue = c /\ e.lastTimestamp = g /\ e.lastValue = h
    BY <1>1 DEF IsEntry
  <1> QED BY <1>2, <1>3 DEF IsEntry

\* newPoint leaves the reset alone.
LEMMA NewPointFields ==
  ASSUME NEW e, IsEntry(e), NEW t, NEW v
  PROVE  LET f == NewPoint(e, t, v)
         IN /\ IsEntry(f) /\ f.lookup = e.lookup /\ f.hasReset = e.hasReset
            /\ f.resetTimestamp = e.resetTimestamp /\ f.resetValue = e.resetValue
            /\ f.lastTimestamp = IF t < e.lastTimestamp THEN e.lastTimestamp ELSE t
            /\ f.lastValue = IF t < e.lastTimestamp THEN e.lastValue ELSE v
  <1>1. PICK a, b, c, d, g, h : e = [lookup |-> a, hasReset |-> b, resetValue |-> c,
            resetTimestamp |-> d, lastTimestamp |-> g, lastValue |-> h]
    BY DEF IsEntry
  <1>2. [e EXCEPT !.lastTimestamp = t, !.lastValue = v]
          = [lookup |-> a, hasReset |-> b, resetValue |-> c,
             resetTimestamp |-> d, lastTimestamp |-> t, lastValue |-> v]
    <2>1. [e EXCEPT !.lastTimestamp = t]
            = [lookup |-> a, hasReset |-> b, resetValue |-> c,
               resetTimestamp |-> d, lastTimestamp |-> t, lastValue |-> h]
      BY <1>1
    <2>2. [e EXCEPT !.lastTimestamp = t, !.lastValue = v]
            = [[e EXCEPT !.lastTimestamp = t] EXCEPT !.lastValue = v]
      OBVIOUS
    <2>3. PICK x : x = [e EXCEPT !.lastTimestamp = t]
      OBVIOUS
    <2>4. x = [lookup |-> a, hasReset |-> b, resetValue |-> c,
               resetTimestamp |-> d, lastTimestamp |-> t, lastValue |-> h]
      BY <2>1, <2>3
    <2>5. [x EXCEPT !.lastValue = v]
            = [lookup |-> a, hasReset |-> b, resetValue |-> c,
               resetTimestamp |-> d, lastTimestamp |-> t, lastValue |-> v]
      BY ONLY <2>4
    <2> QED BY <2>2, <2>3, <2>5
  <1>3. e.hasReset \in BOOLEAN /\ e.hasReset = b /\ e.resetTimestamp = d /\ e.lookup = a
        /\ e.resetValue = c
    BY <1>1 DEF IsEntry
  <1>5. CASE t < e.lastTimestamp
    BY <1>5 DEF NewPoint
  <1>6. CASE ~(t < e.lastTimestamp)
    <2> DEFINE f == NewPoint(e, t, v)
    <2>1. f = [lookup |-> a, hasReset |-> b, resetValue |-> c,
               resetTimestamp |-> d, lastTimestamp |-> t, lastValue |-> v]
      BY <1>2, <1>6 DEF NewPoint
    <2> HIDE DEF f
    <2>2. IsEntry(f) /\ f.lookup = e.lookup /\ f.hasReset = e.hasReset
          /\ f.resetTimestamp = e.resetTimestamp /\ f.resetValue = e.resetValue
          /\ f.lastTimestamp = t /\ f.lastValue = v
      BY <1>3, <2>1 DEF IsEntry
    <2> QED BY <1>6, <2>2 DEF f
  <1> QED BY <1>5, <1>6

\* getResetAdjusted: the reset timestamp is the sample's time for the first
\* sample, and just before it where the value has fallen.
LEMMA ResetFields ==
  ASSUME NEW e, IsEntry(e), NEW t \in Int, NEW v
  PROVE  LET f == ResetAdjusted(e, t, v)
         IN /\ IsEntry(f) /\ f.lookup = e.lookup /\ f.hasReset
            /\ f.lastTimestamp = e.lastTimestamp /\ f.lastValue = e.lastValue
            /\ ~e.hasReset => f.resetTimestamp = t /\ f.resetValue = v
            /\ e.hasReset /\ v < e.resetValue => f.resetTimestamp = t - 1 /\ f.resetValue = 0
            /\ e.hasReset /\ ~(v < e.resetValue) =>
                 f.resetTimestamp = e.resetTimestamp /\ f.resetValue = e.resetValue
            /\ e.hasReset => f.resetTimestamp \in {t - 1, e.resetTimestamp}
  <1>1. PICK a, b, c, d, g, h : e = [lookup |-> a, hasReset |-> b, resetValue |-> c,
            resetTimestamp |-> d, lastTimestamp |-> g, lastValue |-> h]
    BY DEF IsEntry
  <1>2. e.hasReset \in BOOLEAN /\ e.hasReset = b /\ e.resetTimestamp = d /\ e.lookup = a
        /\ e.lastTimestamp = g /\ e.lastValue = h
    BY <1>1 DEF IsEntry
  <1> DEFINE f == ResetAdjusted(e, t, v)
  <1>3. CASE ~e.hasReset
    <2>1. f = [e EXCEPT !.hasReset = TRUE, !.resetTimestamp = t, !.resetValue = v]
      BY <1>3 DEF ResetAdjusted
    <2>2. f = [lookup |-> a, hasReset |-> TRUE, resetValue |-> v,
               resetTimestamp |-> t, lastTimestamp |-> g, lastValue |-> h]
      BY <1>1, <2>1
    <2> HIDE DEF f
    <2>3. IsEntry(f) /\ f.lookup = e.lookup /\ f.hasReset /\ f.resetTimestamp = t
          /\ f.resetValue = v /\ f.lastTimestamp = e.lastTimestamp /\ f.lastValue = e.lastValue
      BY <1>2, <2>2 DEF IsEntry
    <2> QED BY <1>3, <2>3 DEF f
  <1>4. CASE e.hasReset /\ ~(v < e.resetValue)
    <2>1. f = e
      BY <1>4 DEF ResetAdjusted
    <2> QED BY <1>4, <2>1
  <1>5. CASE e.hasReset /\ v < e.resetValue
    <2>1. f = [e EXCEPT !.resetValue = 0, !.resetTimestamp = t - 1]
      BY <1>5 DEF ResetAdjusted
    <2>2. f = [lookup |-> a, hasReset |-> b, resetValue |-> 0,
               resetTimestamp |-> t - 1, lastTimestamp |-> g, lastValue |-> h]
      BY <1>1, <2>1
    <2> HIDE DEF f
    <2>3. IsEntry(f) /\ f.lookup = e.lookup /\ f.hasReset /\ f.resetTimestamp = t - 1
          /\ f.resetValue = 0 /\ f.lastTimestamp = e.lastTimestamp /\ f.lastValue = e.lastValue
      BY <1>2, <1>5, <2>2 DEF IsEntry
    <2> QED BY <1>5, <2>3 DEF f
  <1> QED BY <1>2, <1>3, <1>4, <1>5

\* next's own part of what happens to the entry of the first sample.
LEMMA TrackedFields ==
  ASSUME NEW answer, IsEntry(entry[First.ref])
  PROVE  LET e == entry[First.ref]
             f == Tracked(answer)
         IN /\ IsEntry(f) /\ f.lookup = Looked(answer, First.ref)
            /\ f.hasReset = e.hasReset /\ f.resetTimestamp = e.resetTimestamp
            /\ f.resetValue = e.resetValue
            /\ IF FirstSeries.tracked /\ ~(First.time < e.lastTimestamp)
               THEN f.lastTimestamp = First.time /\ f.lastValue = First.value
               ELSE f.lastTimestamp = e.lastTimestamp /\ f.lastValue = e.lastValue
  <1> DEFINE e == [entry[First.ref] EXCEPT !.lookup = Looked(answer, First.ref)]
             n == NewPoint(e, First.time, First.value)
  <1>1. /\ IsEntry(e) /\ e.lookup = Looked(answer, First.ref)
        /\ e.hasReset = entry[First.ref].hasReset
        /\ e.resetTimestamp = entry[First.ref].resetTimestamp
        /\ e.resetValue = entry[First.ref].resetValue
        /\ e.lastTimestamp = entry[First.ref].lastTimestamp
        /\ e.lastValue = entry[First.ref].lastValue
    BY LookupFields
  <1>2. Tracked(answer) = IF FirstSeries.tracked THEN n ELSE e
    BY DEF Tracked
  <1> HIDE DEF e
  <1>3. /\ IsEntry(n) /\ n.lookup = e.lookup /\ n.hasReset = e.hasReset
        /\ n.resetTimestamp = e.resetTimestamp /\ n.resetValue = e.resetValue
        /\ n.lastTimestamp = IF First.time < e.lastTimestamp THEN e.lastTimestamp ELSE First.time
        /\ n.lastValue = IF First.time < e.lastTimestamp THEN e.lastValue ELSE First.value
    BY <1>1, NewPointFields
  <1> HIDE DEF n
  <1> QED BY <1>1, <1>2, <1>3

-----------------------------------------------------------------------------
(* Points. *)

\* What IntervalsLegal says of two points.
Follows(p, q) == (p.start = q.start /\ p.end < q.end) \/ p.end <= q.start
Nonempty(p) == p.start < p.end \/ (p.start = p.end /\ p.again)

\* A point whose interval is accepted after the last one follows all.
LEMMA AcceptedFollows ==
  ASSUME NEW s, IsSeq(s), s # <<>>,
         \A i \in DOMAIN s : s[i].start \in Int /\ s[i].end \in Int /\ Nonempty(s[i]),
         \A i, j \in DOMAIN s : i < j => Follows(s[i], s[j]),
         NEW x, x.start \in Int, x.end \in Int,
         Accepts([start |-> Last(s).start, end |-> Last(s).end], x.start, x.end)
  PROVE  \A i \in DOMAIN s : Follows(s[i], x)
  <1>1. Len(s) \in Nat /\ Len(s) >= 1 /\ DOMAIN s = 1..Len(s)
    BY SeqShape
  <1>2. PICK a \in Int, b \in Int : a = s[Len(s)].start /\ b = s[Len(s)].end /\ a <= b
    BY <1>1 DEF Nonempty
  <1>3. PICK c \in Int, d \in Int : c = x.start /\ d = x.end
    OBVIOUS
  <1>4. (a = c /\ d > b) \/ (c > a /\ c >= b) \/ [start |-> a, end |-> b] = NoInterval
    BY <1>2, <1>3 DEF Accepts, Last
  <1>5. [start |-> a, end |-> b] # NoInterval
    <2>1. ASSUME [start |-> a, end |-> b] = NoInterval PROVE FALSE
      <3>1. [start |-> a, end |-> b].start = [start |-> 0, end |-> -1].start
        BY <2>1 DEF NoInterval
      <3>2. [start |-> a, end |-> b].end = [start |-> 0, end |-> -1].end
        BY <2>1 DEF NoInterval
      <3> QED BY <1>2, <3>1, <3>2
    <2> QED BY <2>1
  <1>6. ASSUME NEW i \in DOMAIN s PROVE Follows(s[i], x)
    <2>1. PICK e \in Int, f \in Int : e = s[i].start /\ f = s[i].end
      OBVIOUS
    <2>2. i = Len(s) \/ i < Len(s)
      BY <1>1
    <2>3. (e = a /\ f = b) \/ (e = a /\ f < b) \/ f <= a
      BY <1>1, <1>2, <2>1, <2>2 DEF Follows
    <2>4. (e = c /\ f < d) \/ f <= c
      BY <1>2, <1>4, <1>5, <2>3
    <2> QED BY <1>3, <2>1, <2>4 DEF Follows
  <1> QED BY <1>6

\* IntervalsLegal, point by point.
LEMMA LegalIs ==
  IntervalsLegal <=>
    \A h \in Hashes : /\ \A i \in DOMAIN sent[h] : Nonempty(sent[h][i])
                      /\ \A i, j \in DOMAIN sent[h] : i < j => Follows(sent[h][i], sent[h][j])
  BY DEF IntervalsLegal, Nonempty, Follows

\* updateSampleInterval keeps the points of all hashes legal.
LEMMA ProduceLegal ==
  ASSUME PointsOK, NEW h \in Hashes, NEW x, x.start \in Int, x.end \in Int,
         Nonempty(x), Produce(h, x)
  PROVE  PointsOK'
  <1>1. CASE ~Accepts(interval[h], x.start, x.end)
    <2>1. interval' = interval /\ sent' = sent
      BY <1>1 DEF Produce
    <2> QED BY <2>1 DEF PointsOK, IntervalsOK, IntervalsLegal
  <1>2. CASE Accepts(interval[h], x.start, x.end)
    <2>1. /\ interval' = [interval EXCEPT ![h] = [start |-> x.start, end |-> x.end]]
          /\ sent' = [sent EXCEPT ![h] = Append(@, x)]
      BY <1>2 DEF Produce
    <2>2. interval \in [Hashes -> [start : Int, end : Int]] /\ sent = [g \in Hashes |-> sent[g]]
      BY DEF PointsOK
    <2>3. /\ interval' \in [Hashes -> [start : Int, end : Int]]
          /\ interval'[h] = [start |-> x.start, end |-> x.end]
          /\ \A g \in Hashes \ {h} : interval'[g] = interval[g]
      BY <2>1, <2>2
    <2>4. /\ sent' = [g \in Hashes |-> sent'[g]]
          /\ sent'[h] = Append(sent[h], x)
          /\ \A g \in Hashes \ {h} : sent'[g] = sent[g]
      BY <2>1, <2>2
    <2> DEFINE s == sent[h]
               t == Append(s, x)
    <2>5. IsSeq(s)
      BY DEF PointsOK
    <2>6. Len(s) \in Nat /\ DOMAIN s = 1..Len(s) /\ (s = <<>> => Len(s) = 0)
      BY <2>5, SeqShape
    <2>7. /\ IsSeq(t) /\ t # <<>> /\ Len(t) = Len(s) + 1 /\ DOMAIN t = 1..(Len(s) + 1)
          /\ \A i \in 1..Len(s) : t[i] = s[i]
          /\ t[Len(s) + 1] = x
      BY <2>5, AppendIsSeq
    <2>8. /\ \A i \in DOMAIN s : s[i].start \in Int /\ s[i].end \in Int /\ Nonempty(s[i])
          /\ \A i, j \in DOMAIN s : i < j => Follows(s[i], s[j])
      BY LegalIs DEF PointsOK, IntervalsOK
    <2>9. \A i \in DOMAIN s : Follows(s[i], x)
      <3>1. CASE s = <<>>
        BY <2>6, <3>1
      <3>2. CASE s # <<>>
        <4>1. interval[h] = [start |-> Last(s).start, end |-> Last(s).end]
          BY <3>2 DEF PointsOK, IntervalsOK
        <4>2. Accepts([start |-> Last(s).start, end |-> Last(s).end], x.start, x.end)
          BY <1>2, <4>1
        <4> HIDE DEF s
        <4> QED BY <2>5, <2>8, <3>2, <4>2, AcceptedFollows
      <3> QED BY <3>1, <3>2
    <2> HIDE DEF s, t
    <2>10. \A i \in DOMAIN t : (i \in DOMAIN s /\ t[i] = s[i]) \/ (i = Len(s) + 1 /\ t[i] = x)
      BY <2>6, <2>7
    <2>11. \A i \in DOMAIN t : t[i].start \in Int /\ t[i].end \in Int /\ Nonempty(t[i])
      BY <2>8, <2>10
    <2>12. \A i, j \in DOMAIN t : i < j => Follows(t[i], t[j])
      <3> SUFFICES ASSUME NEW i \in DOMAIN t, NEW j \in DOMAIN t, i < j
                   PROVE  Follows(t[i], t[j])
        OBVIOUS
      <3>1. i \in DOMAIN s /\ t[i] = s[i]
        BY <2>6, <2>7
      <3> QED BY <2>8, <2>9, <2>10, <3>1
    <2>13. Last(t) = x
      BY <2>7 DEF Last
    <2>14. ASSUME NEW g \in Hashes
           PROVE  /\ IsSeq(sent'[g])
                  /\ \A i \in DOMAIN sent'[g] :
                       sent'[g][i].start \in Int /\ sent'[g][i].end \in Int
                  /\ interval'[g] = IF sent'[g] = <<>> THEN NoInterval
                       ELSE [start |-> Last(sent'[g]).start, end |-> Last(sent'[g]).end]
                  /\ \A i \in DOMAIN sent'[g] : Nonempty(sent'[g][i])
                  /\ \A i, j \in DOMAIN sent'[g] : i < j => Follows(sent'[g][i], sent'[g][j])
      <3>1. CASE g = h
        <4>1. sent'[g] = t /\ interval'[g] = [start |-> x.start, end |-> x.end]
          BY <2>3, <2>4, <3>1 DEF s, t
        <4> QED BY <2>7, <2>11, <2>12, <2>13, <4>1
      <3>2. CASE g # h
        <4>1. sent'[g] = sent[g] /\ interval'[g] = interval[g]
          BY <2>3, <2>4, <3>2
        <4> QED BY <4>1, LegalIs DEF PointsOK, IntervalsOK
      <3> QED BY <3>1, <3>2
    <2>15. IntervalsLegal'
      BY <2>14 DEF IntervalsLegal, Nonempty, Follows
    <2>16. IntervalsOK'
      BY <2>14 DEF IntervalsOK
    <2> QED BY <2>3, <2>4, <2>14, <2>15, <2>16 DEF PointsOK
  <1> QED BY <1>1, <1>2

-----------------------------------------------------------------------------
(* The record and the entries. *)

\* A call of next leaves the reset of an entry alone, or getResetAdjusted is
\* called for a sample of the series that has the time of the first sample.
KeepsReset(r) ==
    /\ entry'[r].hasReset = entry[r].hasReset
    /\ entry'[r].resetTimestamp = entry[r].resetTimestamp

SetsReset(r) ==
    \E k \in DOMAIN samples :
      /\ samples[k].ref = r /\ samples[k].time = First.time /\ samples[k] \in handled'
      /\ entry'[r].resetTimestamp \in Int /\ entry'[r].resetTimestamp <= First.time

\* The first sample of the record.
LEMMA FirstOK ==
  ASSUME TypeOK, RecordOK, samples # <<>>
  PROVE  /\ 1 \in DOMAIN samples /\ First = samples[1]
         /\ First.ref \in Refs /\ First.time \in Nat \ {0}
         /\ IsEntry(entry[First.ref])
         /\ FirstSeries \in Series /\ FirstSeries.hash \in Hashes
         /\ \A k \in DOMAIN samples : First.time <= samples[k].time
  <1>1. Len(samples) \in Nat /\ Len(samples) >= 1 /\ DOMAIN samples = 1..Len(samples)
        /\ First = samples[1]
    BY SeqShape DEF TypeOK, First
  <1>2. 1 \in DOMAIN samples
    BY <1>1
  <1>3. First.ref \in Refs /\ First.time \in Nat \ {0}
    BY <1>1, <1>2 DEF RecordOK
  <1>4. FirstSeries \in Series /\ FirstSeries.hash \in Hashes /\ IsEntry(entry[First.ref])
    BY <1>3, SeriesType DEF FirstSeries, TypeOK
  <1>5. ASSUME NEW k \in DOMAIN samples PROVE First.time <= samples[k].time
    <2>1. k = 1 \/ 1 < k
      BY <1>1
    <2> QED BY <1>1, <1>2, <1>3, <2>1 DEF RecordOK
  <1> QED BY <1>1, <1>2, <1>3, <1>4, <1>5

\* What a call of next leaves of the record, and the entries, keep their part of
\* the invariant.
LEMMA NextKeeps ==
  ASSUME TypeOK, RecordOK, ResetsOK, samples # <<>>,
         layout' = layout, scrapes' = scrapes, handled \subseteq handled',
         NEW m \in 1..(Len(samples) + 1), samples' = SubSeq(samples, m, Len(samples)),
         entry' = [r \in Refs |-> entry'[r]],
         \A r \in Refs : IsEntry(entry'[r]) /\ (KeepsReset(r) \/ SetsReset(r))
  PROVE  TypeOK' /\ RecordOK' /\ ResetsOK'
  <1>1. Refs' = Refs
    BY RefsSame
  <1>2. IsSeq(samples) /\ DOMAIN samples = 1..Len(samples) /\ Len(samples) \in Nat
    BY SeqShape DEF TypeOK
  <1>3. /\ IsSeq(samples') /\ DOMAIN samples' = 1..(Len(samples) + 1 - m)
        /\ \A i \in DOMAIN samples' : i + m - 1 \in DOMAIN samples
                                    /\ samples'[i] = samples[i + m - 1]
    BY <1>2, RestIsSeq
  <1>4. TypeOK'
    BY <1>1, <1>3 DEF TypeOK
  <1>5. \A p, t : ScrapedBy(p, t)' <=> ScrapedBy(p, t)
    BY DEF ScrapedBy
  <1>6. RecordOK'
    <2>1. \A p \in Targets : scrapes'[p] # <<>> => Last(scrapes'[p]).time \in Nat
      BY DEF RecordOK
    <2>2. ASSUME NEW k \in DOMAIN samples'
          PROVE  /\ samples'[k].ref \in Refs /\ samples'[k].time \in Nat \ {0}
                 /\ ScrapedBy(samples'[k].ref[1], samples'[k].time)
      BY <1>3 DEF RecordOK
    <2>3. ASSUME NEW k \in DOMAIN samples', NEW l \in DOMAIN samples', k < l
          PROVE  /\ samples'[k].time <= samples'[l].time
                 /\ samples'[k].ref = samples'[l].ref => samples'[k].time < samples'[l].time
      <3>1. k + m - 1 < l + m - 1
        BY <1>2, <1>3, <2>3
      <3> QED BY <1>3, <3>1 DEF RecordOK
    <2>4. \A k \in DOMAIN samples' : ScrapedBy(samples[k].ref[1], samples[k].time)'
      BY <2>2 DEF ScrapedBy
    <2> QED BY <1>1, <2>1, <2>2, <2>3, <2>4 DEF RecordOK
  <1>7. ASSUME NEW r \in Refs, entry'[r].hasReset
        PROVE  entry'[r].resetTimestamp \in Int /\ ScrapedBy(r[1], entry'[r].resetTimestamp)
    <2>1. CASE KeepsReset(r)
      BY <1>7, <2>1 DEF KeepsReset, ResetsOK
    <2>2. CASE SetsReset(r)
      <3>1. PICK k \in DOMAIN samples :
              /\ samples[k].ref = r /\ samples[k].time = First.time
              /\ entry'[r].resetTimestamp \in Int /\ entry'[r].resetTimestamp <= First.time
        BY <2>2 DEF SetsReset
      <3>2. ScrapedBy(r[1], First.time) /\ First.time \in Nat
        BY <3>1 DEF RecordOK
      <3> QED BY <3>1, <3>2 DEF ScrapedBy
    <2> QED BY <2>1, <2>2
  <1>8. ASSUME NEW j \in DOMAIN samples, entry'[samples[j].ref].hasReset
        PROVE  \/ entry'[samples[j].ref].resetTimestamp < samples[j].time
               \/ /\ entry'[samples[j].ref].resetTimestamp = samples[j].time
                  /\ samples[j] \in handled'
    <2>0. samples[j].ref \in Refs /\ samples[j].time \in Nat /\ First.time <= samples[j].time
      BY FirstOK DEF RecordOK
    <2>1. CASE KeepsReset(samples[j].ref)
      BY <1>8, <2>1 DEF KeepsReset, ResetsOK
    <2>2. CASE SetsReset(samples[j].ref)
      <3>1. PICK k \in DOMAIN samples :
              /\ samples[k].ref = samples[j].ref /\ samples[k].time = First.time
              /\ samples[k] \in handled'
              /\ entry'[samples[j].ref].resetTimestamp \in Int
              /\ entry'[samples[j].ref].resetTimestamp <= First.time
        BY <2>2 DEF SetsReset
      <3>2. First.time \in Nat
        BY FirstOK
      <3>3. j < k \/ j = k \/ k < j
        BY <1>2
      <3>4. CASE j < k
        BY <2>0, <3>1, <3>2, <3>4 DEF RecordOK
      <3>5. CASE j = k
        BY <3>1, <3>2, <3>5
      <3>6. CASE k < j
        <4>1. First.time < samples[j].time
          BY <3>1, <3>6 DEF RecordOK
        <4> QED BY <2>0, <3>1, <3>2, <4>1
      <3> QED BY <3>3, <3>4, <3>5, <3>6
    <2> QED BY <2>0, <2>1, <2>2
  <1>9. ResetsOK'
    <2>1. \A r \in Refs : entry'[r].hasReset =>
            entry'[r].resetTimestamp \in Int /\ ScrapedBy(r[1], entry[r].resetTimestamp)'
      BY <1>7 DEF ScrapedBy
    <2>2. \A k \in DOMAIN samples' : entry'[samples'[k].ref].hasReset =>
            \/ entry'[samples'[k].ref].resetTimestamp < samples'[k].time
            \/ /\ entry'[samples'[k].ref].resetTimestamp = samples'[k].time
               /\ samples'[k] \in handled'
      BY <1>3, <1>8
    <2> QED BY <1>1, <2>1, <2>2 DEF ResetsOK
  <1> QED BY <1>4, <1>6, <1>9

\* One entry is replaced by another.
LEMMA EntryReplaced ==
  ASSUME TypeOK, NEW r \in Refs, NEW f, IsEntry(f), entry' = [entry EXCEPT ![r] = f]
  PROVE  /\ entry' = [q \in Refs |-> entry'[q]] /\ entry'[r] = f
         /\ \A q \in Refs : IsEntry(entry'[q])
         /\ \A q \in Refs \ {r} : entry'[q] = entry[q] /\ KeepsReset(q)
  <1>1. entry = [q \in Refs |-> entry[q]]
    BY DEF TypeOK
  <1>2. /\ entry' = [q \in Refs |-> entry'[q]] /\ entry'[r] = f
        /\ \A q \in Refs \ {r} : entry'[q] = entry[q]
    BY <1>1
  <1>3. \A q \in Refs \ {r} : KeepsReset(q) /\ IsEntry(entry'[q])
    BY <1>2 DEF KeepsReset, TypeOK
  <1> QED BY <1>2, <1>3

\* getResetAdjusted for a sample with the time of the first: the interval that
\* begins at the reset timestamp is not empty, unless it was called before.
LEMMA AdjustedOK ==
  ASSUME TypeOK, RecordOK, ResetsOK, samples # <<>>,
         NEW k \in DOMAIN samples, samples[k].time = First.time,
         NEW e, IsEntry(e), e.hasReset = entry[samples[k].ref].hasReset,
         e.resetTimestamp = entry[samples[k].ref].resetTimestamp
  PROVE  LET f == ResetAdjusted(e, samples[k].time, samples[k].value)
         IN /\ IsEntry(f) /\ f.lookup = e.lookup
            /\ f.resetTimestamp \in Int /\ f.resetTimestamp <= First.time
            /\ e.hasReset => \/ f.resetTimestamp < First.time
                             \/ f.resetTimestamp = First.time /\ samples[k] \in handled
  <1> DEFINE f == ResetAdjusted(e, samples[k].time, samples[k].value)
  <1>1. PICK t \in Nat : t = First.time /\ samples[k].time = t
    BY FirstOK
  <1>2. /\ IsEntry(f) /\ f.lookup = e.lookup
        /\ ~e.hasReset => f.resetTimestamp = t
        /\ e.hasReset => f.resetTimestamp \in {t - 1, e.resetTimestamp}
    BY <1>1, ResetFields
  <1> HIDE DEF f
  <1>3. CASE ~e.hasReset
    BY <1>1, <1>2, <1>3 DEF f
  <1>4. CASE e.hasReset
    <2>1. e.resetTimestamp \in Int /\ (e.resetTimestamp < t \/
             (e.resetTimestamp = t /\ samples[k] \in handled))
      <3>1. samples[k].ref \in Refs
        BY DEF RecordOK
      <3> QED BY <1>1, <1>4, <3>1 DEF ResetsOK
    <2>2. CASE f.resetTimestamp = t - 1
      BY <1>1, <1>2, <2>2 DEF f
    <2>3. CASE f.resetTimestamp = e.resetTimestamp
      BY <1>1, <1>2, <2>1, <2>3 DEF f
    <2> QED BY <1>2, <1>4, <2>2, <2>3
  <1>5. e.hasReset \in BOOLEAN
    BY DEF IsEntry
  <1> QED BY <1>3, <1>4, <1>5

\* The points are not touched.
LEMMA PointsSame ==
  ASSUME PointsOK, interval' = interval, sent' = sent
  PROVE  PointsOK'
  BY DEF PointsOK, IntervalsOK, IntervalsLegal

-----------------------------------------------------------------------------
(* The actions of next. *)

\* A lookup fails.
LEMMA NextFailsIInv ==
  ASSUME IInv, samples # <<>>, NEW answer, NextFails(answer)
  PROVE  IInv'
  <1>0. TypeOK /\ RecordOK /\ ResetsOK /\ PointsOK
    BY DEF IInv
  <1>1. /\ layout' = layout /\ scrapes' = scrapes /\ handled' = handled
        /\ samples' = samples /\ interval' = interval /\ sent' = sent
        /\ entry' = [entry EXCEPT ![First.ref] =
                       [entry[First.ref] EXCEPT !.lookup = Looked(answer, First.ref)]]
    BY DEF NextFails, inputVars
  <1> DEFINE f == [entry[First.ref] EXCEPT !.lookup = Looked(answer, First.ref)]
  <1>2. First.ref \in Refs /\ IsEntry(entry[First.ref])
    BY <1>0, FirstOK
  <1>3. /\ IsEntry(f) /\ f.hasReset = entry[First.ref].hasReset
        /\ f.resetTimestamp = entry[First.ref].resetTimestamp
    BY <1>2, LookupFields
  <1> HIDE DEF f
  <1>4. /\ entry' = [r \in Refs |-> entry'[r]] /\ entry'[First.ref] = f
        /\ \A r \in Refs : IsEntry(entry'[r])
        /\ \A r \in Refs \ {First.ref} : KeepsReset(r)
    BY <1>0, <1>1, <1>2, <1>3, EntryReplaced DEF f
  <1>5. \A r \in Refs : KeepsReset(r)
    BY <1>3, <1>4 DEF KeepsReset
  <1>6. /\ samples = SubSeq(samples, 1, Len(samples)) /\ 1 \in 1..(Len(samples) + 1)
    BY <1>0, SubSeqFull, SeqShape DEF TypeOK, IsSeq
  <1>7. samples' = SubSeq(samples, 1, Len(samples))
    BY <1>1, <1>6
  <1>8. TypeOK' /\ RecordOK' /\ ResetsOK'
    BY <1>0, <1>1, <1>4, <1>5, <1>6, <1>7, NextKeeps
  <1> QED BY <1>0, <1>1, <1>8, PointsSame DEF IInv

\* The first sample is used up, and nothing but its lookup and its tracker
\* changes in its entry.
LEMMA FirstUsedUp ==
  ASSUME IInv, samples # <<>>, samples' = Tail(samples), layout' = layout,
         scrapes' = scrapes, handled' = handled,
         NEW f, IsEntry(f), f.hasReset = entry[First.ref].hasReset,
         f.resetTimestamp = entry[First.ref].resetTimestamp,
         entry' = [entry EXCEPT ![First.ref] = f]
  PROVE  TypeOK' /\ RecordOK' /\ ResetsOK'
  <1>0. TypeOK /\ RecordOK /\ ResetsOK
    BY DEF IInv
  <1>1. First.ref \in Refs
    BY <1>0, FirstOK
  <1>2. /\ entry' = [r \in Refs |-> entry'[r]] /\ entry'[First.ref] = f
        /\ \A r \in Refs : IsEntry(entry'[r])
        /\ \A r \in Refs \ {First.ref} : KeepsReset(r)
    BY <1>0, <1>1, EntryReplaced
  <1>3. \A r \in Refs : KeepsReset(r)
    BY <1>2 DEF KeepsReset
  <1>4. samples' = SubSeq(samples, 2, Len(samples)) /\ 2 \in 1..(Len(samples) + 1)
    BY <1>0, TailIsRest DEF TypeOK
  <1> QED BY <1>0, <1>2, <1>3, <1>4, NextKeeps

\* The series is not known, or not exported.
LEMMA NextDroppedIInv ==
  ASSUME IInv, samples # <<>>, NEW answer, NextUnknown(answer) \/ NextUnexported(answer)
  PROVE  IInv'
  <1>0. TypeOK /\ RecordOK /\ ResetsOK /\ PointsOK
    BY DEF IInv
  <1>1. /\ layout' = layout /\ scrapes' = scrapes /\ handled' = handled
        /\ samples' = Tail(samples) /\ interval' = interval /\ sent' = sent
    BY DEF NextUnknown, NextUnexported, inputVars
  <1> DEFINE f == [entry[First.ref] EXCEPT !.lookup = Looked(answer, First.ref)]
             g == Tracked(answer)
  <1>2. entry' = [entry EXCEPT ![First.ref] = f] \/ entry' = [entry EXCEPT ![First.ref] = g]
    BY DEF NextUnknown, NextUnexported
  <1>3. IsEntry(entry[First.ref])
    BY <1>0, FirstOK
  <1>4. /\ IsEntry(f) /\ f.hasReset = entry[First.ref].hasReset
        /\ f.resetTimestamp = entry[First.ref].resetTimestamp
    BY <1>3, LookupFields
  <1>5. /\ IsEntry(g) /\ g.hasReset = entry[First.ref].hasReset
        /\ g.resetTimestamp = entry[First.ref].resetTimestamp
    BY <1>3, TrackedFields
  <1> HIDE DEF f, g
  <1>6. TypeOK' /\ RecordOK' /\ ResetsOK'
    BY <1>1, <1>2, <1>4, <1>5, FirstUsedUp
  <1> QED BY <1>0, <1>1, <1>6, PointsSame DEF IInv

\* A gauge: its interval begins at 0, before any sample.
LEMMA NextGaugeIInv ==
  ASSUME IInv, samples # <<>>, NEW answer, NextGauge(answer)
  PROVE  IInv'
  <1>0. TypeOK /\ RecordOK /\ ResetsOK /\ PointsOK
    BY DEF IInv
  <1> DEFINE g == Tracked(answer)
             x == [ref |-> First.ref, start |-> 0, end |-> First.time,
                   value |-> First.value, buckets |-> <<>>, again |-> FALSE]
  <1>1. /\ layout' = layout /\ scrapes' = scrapes /\ handled' = handled
        /\ samples' = Tail(samples)
        /\ entry' = [entry EXCEPT ![First.ref] = g]
        /\ Produce(FirstSeries.hash, x)
    BY DEF NextGauge, inputVars
  <1>2. /\ IsEntry(entry[First.ref]) /\ First.time \in Nat \ {0}
        /\ FirstSeries.hash \in Hashes
    BY <1>0, FirstOK
  <1>3. /\ IsEntry(g) /\ g.hasReset = entry[First.ref].hasReset
        /\ g.resetTimestamp = entry[First.ref].resetTimestamp
    BY <1>2, TrackedFields
  <1>4. x.start = 0 /\ x.end = First.time
    OBVIOUS
  <1> HIDE DEF g, x
  <1>5. TypeOK' /\ RecordOK' /\ ResetsOK'
    BY <1>1, <1>3, FirstUsedUp
  <1>6. x.start \in Int /\ x.end \in Int /\ Nonempty(x)
    BY <1>2, <1>4 DEF Nonempty
  <1>7. PointsOK'
    BY <1>0, <1>1, <1>2, <1>6, ProduceLegal
  <1> QED BY <1>5, <1>7 DEF IInv

\* A counter: the first sample only sets the reset timestamp.
LEMMA NextCounterIInv ==
  ASSUME IInv, samples # <<>>, NEW answer, NextCounter(answer)
  PROVE  IInv'
  <1>0. TypeOK /\ RecordOK /\ ResetsOK /\ PointsOK
    BY DEF IInv
  <1> DEFINE e == Tracked(answer)
             f == ResetAdjusted(e, First.time, First.value)
             x == [ref |-> First.ref, start |-> f.resetTimestamp,
                   end |-> First.time, value |-> First.value - f.resetValue,
                   buckets |-> <<>>, again |-> First \in handled]
  <1>1. /\ layout' = layout /\ scrapes' = scrapes /\ handled' = handled \cup {First}
        /\ samples' = Tail(samples)
        /\ entry' = [entry EXCEPT ![First.ref] = f]
        /\ IF e.hasReset THEN Produce(FirstSeries.hash, x)
           ELSE interval' = interval /\ sent' = sent
    BY DEF NextCounter, inputVars
  <1>2. /\ IsEntry(entry[First.ref]) /\ First.time \in Nat \ {0}
        /\ FirstSeries.hash \in Hashes /\ First.ref \in Refs
        /\ 1 \in DOMAIN samples /\ First = samples[1]
    BY <1>0, FirstOK
  <1>3. /\ IsEntry(e) /\ e.hasReset = entry[First.ref].hasReset
        /\ e.resetTimestamp = entry[First.ref].resetTimestamp
    BY <1>2, TrackedFields
  <1>4. /\ x.start = f.resetTimestamp /\ x.end = First.time
        /\ First \in handled => x.again
    OBVIOUS
  <1> HIDE DEF e, x
  <1>5. /\ IsEntry(f)
        /\ f.resetTimestamp \in Int /\ f.resetTimestamp <= First.time
        /\ e.hasReset => \/ f.resetTimestamp < First.time
                         \/ f.resetTimestamp = First.time /\ First \in handled
    BY <1>0, <1>2, <1>3, AdjustedOK
  <1> HIDE DEF f
  <1>6. TypeOK' /\ RecordOK' /\ ResetsOK'
    <2>1. /\ entry' = [r \in Refs |-> entry'[r]] /\ entry'[First.ref] = f
          /\ \A r \in Refs : IsEntry(entry'[r])
          /\ \A r \in Refs \ {First.ref} : KeepsReset(r)
      BY <1>0, <1>1, <1>2, <1>5, EntryReplaced
    <2>2. SetsReset(First.ref)
      BY <1>1, <1>2, <1>5, <2>1 DEF SetsReset
    <2>3. \A r \in Refs : IsEntry(entry'[r]) /\ (KeepsReset(r) \/ SetsReset(r))
      BY <2>1, <2>2
    <2>4. samples' = SubSeq(samples, 2, Len(samples)) /\ 2 \in 1..(Len(samples) + 1)
      BY <1>0, <1>1, TailIsRest DEF TypeOK
    <2>5. handled \subseteq handled'
      BY <1>1
    <2> QED BY <1>0, <1>1, <2>1, <2>3, <2>4, <2>5, NextKeeps
  <1>7. PointsOK'
    <2>1. CASE e.hasReset
      <3>0. \/ x.start < x.end
            \/ x.start = x.end /\ First \in handled
        BY <1>4, <1>5, <2>1
      <3>1. x.start \in Int /\ x.end \in Int /\ Nonempty(x)
        BY <1>2, <1>4, <1>5, <3>0 DEF Nonempty
      <3> QED BY <1>0, <1>1, <1>2, <2>1, <3>1, ProduceLegal
    <2>2. CASE ~e.hasReset
      BY <1>0, <1>1, <2>2, PointsSame
    <2> QED BY <2>1, <2>2
  <1> QED BY <1>6, <1>7 DEF IInv

\* Where the loop of buildDistribution stops.
StopOf(answer) == Min({k \in DOMAIN samples : Ends(answer, k)} \cup {Len(samples) + 1})

\* No sample before it ends the loop.
LEMMA StopIs ==
  ASSUME TypeOK, NEW answer
  PROVE  /\ StopOf(answer) \in 1..(Len(samples) + 1)
         /\ \A k \in 1..(StopOf(answer) - 1) : k \in DOMAIN samples /\ ~Ends(answer, k)
         /\ StopOf(answer) <= Len(samples) => Ends(answer, StopOf(answer))
  <1> DEFINE T == {k \in DOMAIN samples : Ends(answer, k)} \cup {Len(samples) + 1}
  <1>1. Len(samples) \in Nat /\ DOMAIN samples = 1..Len(samples)
    BY SeqShape DEF TypeOK
  <1>2. PICK n \in Nat : n = Len(samples)
    BY <1>1
  <1>3. T \in SUBSET Nat /\ T # {}
    BY <1>1, <1>2
  <1>4. Min(T) \in T /\ \A k \in T : Min(T) <= k
    BY <1>3, LeastNumber
  <1>5. PICK m \in 1..(n + 1) : m = Min(T)
    <2>1. \A k \in T : k \in 1..(n + 1)
      BY <1>1, <1>2
    <2> HIDE DEF T
    <2> QED BY <1>4, <2>1
  <1>6. \A k \in 1..(m - 1) : k \in DOMAIN samples /\ ~Ends(answer, k)
    <2> SUFFICES ASSUME NEW k \in 1..(m - 1)
                 PROVE  k \in DOMAIN samples /\ ~Ends(answer, k)
      OBVIOUS
    <2>1. k \in DOMAIN samples
      BY <1>1, <1>2
    <2>2. k \notin T
      <3>1. ~(m <= k)
        OBVIOUS
      <3> HIDE DEF T
      <3> QED BY <1>4, <1>5, <3>1
    <2> QED BY <2>1, <2>2
  <1>7. m <= n => Ends(answer, m)
    BY <1>2, <1>4, <1>5
  <1>8. StopOf(answer) = m
    BY <1>5 DEF StopOf
  <1> QED BY <1>2, <1>6, <1>7, <1>8

\* A histogram.  The loop adjusts only samples with the time of the first, and
\* the distribution begins at the reset timestamp of the _count.
LEMMA NextHistogramIInv ==
  ASSUME IInv, samples # <<>>, NEW answer, NextHistogram(answer)
  PROVE  IInv'
  <1>0. TypeOK /\ RecordOK /\ ResetsOK /\ PointsOK
    BY DEF IInv
  <1> DEFINE stop == StopOf(answer)
             failed == stop <= Len(samples) /\ Fails(answer, samples[stop].ref)
             before(r) == IF r = First.ref THEN Tracked(answer) ELSE
                          [entry[r] EXCEPT !.lookup = Looked(answer, r)]
             known(K) == {k \in K : Looked(answer, samples[k].ref) = "populated"}
             run == known(1..(stop - 1))
             adjusted == run \cup {k \in known({stop} \cap DOMAIN samples) :
                                      /\ SameMetric(samples[k].ref)
                                      /\ samples[k].time = First.time}
             after(k) == ResetAdjusted(before(samples[k].ref), samples[k].time,
                                       samples[k].value)
             of(part) == {k \in run : SeriesOf(samples[k].ref).part = part}
             skip == \E k \in run \ of("badle") : ~before(samples[k].ref).hasReset
             value(k) == samples[k].value - after(k).resetValue
             dist == [b \in {SeriesOf(samples[k].ref).le : k \in of("bucket")} |->
                        value(CHOOSE k \in of("bucket") :
                                SeriesOf(samples[k].ref).le = b)]
             c == Max(of("count"))
             x == [ref |-> samples[c].ref, start |-> after(c).resetTimestamp,
                   end |-> First.time, value |-> value(c),
                   buckets |-> BucketCounts(dist), again |-> samples[c] \in handled]
  <1>1. /\ layout' = layout /\ scrapes' = scrapes
        /\ handled' = handled \cup {samples[k] : k \in adjusted}
        /\ samples' = IF failed THEN samples ELSE SubSeq(samples, stop, Len(samples))
    BY DEF NextHistogram, inputVars, StopOf
  <1>2. entry' = [r \in Refs |->
                IF \E k \in adjusted : samples[k].ref = r
                THEN after(CHOOSE k \in adjusted : samples[k].ref = r)
                ELSE IF \E k \in 1..stop : k \in DOMAIN samples /\ samples[k].ref = r
                THEN before(r) ELSE entry[r]]
    BY DEF NextHistogram, StopOf
  <1>3. \/ interval' = interval /\ sent' = sent
        \/ ~skip /\ of("count") # {} /\ Produce(FirstSeries.hash, x)
    BY DEF NextHistogram, StopOf
  <1>4. /\ stop \in 1..(Len(samples) + 1) /\ Len(samples) \in Nat
        /\ DOMAIN samples = 1..Len(samples)
        /\ \A k \in 1..(stop - 1) : k \in DOMAIN samples /\ ~Ends(answer, k)
    BY <1>0, StopIs, SeqShape DEF TypeOK
  <1>5. \A r \in Refs : /\ IsEntry(before(r))
                        /\ before(r).hasReset = entry[r].hasReset
                        /\ before(r).resetTimestamp = entry[r].resetTimestamp
    <2> SUFFICES ASSUME NEW r \in Refs
                 PROVE  /\ IsEntry(before(r))
                        /\ before(r).hasReset = entry[r].hasReset
                        /\ before(r).resetTimestamp = entry[r].resetTimestamp
      OBVIOUS
    <2>1. IsEntry(entry[r])
      BY <1>0 DEF TypeOK
    <2>2. CASE r = First.ref
      BY <2>1, <2>2, TrackedFields
    <2>3. CASE r # First.ref
      BY <2>1, <2>3, LookupFields
    <2> QED BY <2>2, <2>3
  <1> HIDE DEF before, stop
  <1>6. \A k \in adjusted : k \in DOMAIN samples /\ samples[k].time = First.time
    BY <1>4 DEF Ends
  <1>7. \A k \in adjusted :
          /\ IsEntry(after(k))
          /\ after(k).resetTimestamp \in Int /\ after(k).resetTimestamp <= First.time
          /\ before(samples[k].ref).hasReset =>
               \/ after(k).resetTimestamp < First.time
               \/ after(k).resetTimestamp = First.time /\ samples[k] \in handled
    <2> HIDE DEF adjusted
    <2> SUFFICES ASSUME NEW k \in adjusted
                 PROVE  /\ IsEntry(after(k))
                        /\ after(k).resetTimestamp \in Int
                        /\ after(k).resetTimestamp <= First.time
                        /\ before(samples[k].ref).hasReset =>
                             \/ after(k).resetTimestamp < First.time
                             \/ after(k).resetTimestamp = First.time /\ samples[k] \in handled
      OBVIOUS
    <2>1. k \in DOMAIN samples /\ samples[k].time = First.time /\ samples[k].ref \in Refs
      BY <1>0, <1>6 DEF RecordOK
    <2> QED BY <1>0, <1>5, <2>1, AdjustedOK
  <1> HIDE DEF after
  <1>8. TypeOK' /\ RecordOK' /\ ResetsOK'
    <2> HIDE DEF adjusted
    <2>1. ASSUME NEW r \in Refs
          PROVE  IsEntry(entry'[r]) /\ (KeepsReset(r) \/ SetsReset(r))
      <3>1. CASE \E k \in adjusted : samples[k].ref = r
        <4>1. PICK k \in adjusted : samples[k].ref = r /\ entry'[r] = after(k)
          BY <1>2, <3>1
        <4>2. samples[k] \in handled'
          BY <1>1
        <4>3. SetsReset(r)
          BY <1>6, <1>7, <4>1, <4>2 DEF SetsReset
        <4> QED BY <1>7, <4>1, <4>3
      <3>2. CASE ~\E k \in adjusted : samples[k].ref = r
        <4>1. entry'[r] = before(r) \/ entry'[r] = entry[r]
          BY <1>2, <3>2
        <4> QED BY <1>0, <1>5, <4>1 DEF KeepsReset, TypeOK
      <3> QED BY <3>1, <3>2
    <2>2. entry' = [r \in Refs |-> entry'[r]]
      BY <1>2
    <2>3. samples = SubSeq(samples, 1, Len(samples)) /\ 1 \in 1..(Len(samples) + 1)
      BY <1>0, SubSeqFull, SeqShape DEF TypeOK, IsSeq
    <2>4. PICK m \in 1..(Len(samples) + 1) : samples' = SubSeq(samples, m, Len(samples))
      BY <1>1, <1>4, <2>3
    <2>5. handled \subseteq handled'
      BY <1>1
    <2> QED BY <1>0, <1>1, <2>1, <2>2, <2>4, <2>5, NextKeeps
  <1>9. PointsOK'
    <2>1. CASE interval' = interval /\ sent' = sent
      BY <1>0, <2>1, PointsSame
    <2>2. CASE ~skip /\ of("count") # {} /\ Produce(FirstSeries.hash, x)
      <3>1. c \in of("count")
        <4>1. of("count") \subseteq 0..Len(samples)
          BY <1>4
        <4> QED BY <1>4, <2>2, <4>1, MaxIsElement
      <3>2. c \in adjusted /\ before(samples[c].ref).hasReset
        <4>1. c \in run /\ SeriesOf(samples[c].ref).part = "count"
          BY <3>1
        <4>2. c \notin of("badle")
          BY <4>1
        <4> QED BY <2>2, <4>1, <4>2
      <3>3. x.start = after(c).resetTimestamp /\ x.end = First.time
            /\ (samples[c] \in handled => x.again)
        OBVIOUS
      <3> HIDE DEF x, c, adjusted
      <3>4. \/ x.start < x.end
            \/ x.start = x.end /\ samples[c] \in handled
        BY <1>7, <3>2, <3>3
      <3>5. x.start \in Int /\ x.end \in Int /\ Nonempty(x)
        <4>1. First.time \in Nat
          BY <1>0, FirstOK
        <4> QED BY <1>7, <3>2, <3>3, <3>4, <4>1 DEF Nonempty
      <3>6. FirstSeries.hash \in Hashes
        BY <1>0, FirstOK
      <3> QED BY <1>0, <2>2, <3>5, <3>6, ProduceLegal
    <2> QED BY <1>3, <2>1, <2>2
  <1> QED BY <1>8, <1>9 DEF IInv

-----------------------------------------------------------------------------
(* The other actions. *)

\* The times and references of the samples of a scrape: n expositions of k
\* series, one after the other.
LEMMA RecordOrder ==
  ASSUME NEW k \in Nat \ {0}, NEW n \in 1..2, NEW i \in 1..(n * k)
  PROVE  /\ ((i - 1) % k) + 1 \in 1..k
         /\ (i - 1) \div k \in 0..(n - 1)
         /\ \A j \in 1..(n * k) : i < j =>
              /\ (i - 1) \div k <= (j - 1) \div k
              /\ ((i - 1) % k) + 1 = ((j - 1) % k) + 1 => (i - 1) \div k < (j - 1) \div k
  <1>1. PICK a \in Nat : a = i - 1 /\ a < n * k
    <2>1. n * k \in Nat
      OBVIOUS
    <2> QED BY <2>1
  <1>2. PICK q \in Nat, r \in 0..(k - 1) : q = a \div k /\ r = a % k /\ a = k * q + r
    BY Quotient
  <1>3. q <= n - 1
    <2>1. ASSUME q >= n PROVE FALSE
      <3>1. PICK d \in Nat : q = n + d
        BY <2>1, q - n \in Nat
      <3>2. k * q = n * k + k * d /\ k * d \in Nat /\ n * k \in Nat
        BY <3>1
      <3> QED BY <1>1, <1>2, <3>2
    <2> QED BY <2>1
  <1>4. ASSUME NEW j \in 1..(n * k), i < j
        PROVE  /\ (i - 1) \div k <= (j - 1) \div k
               /\ ((i - 1) % k) + 1 = ((j - 1) % k) + 1 => (i - 1) \div k < (j - 1) \div k
    <2>0. n * k \in Nat
      OBVIOUS
    <2>1. PICK b \in Nat : b = j - 1 /\ a < b
      BY <1>1, <1>4, <2>0
    <2>2. a \div k <= b \div k /\ (a % k = b % k => a \div k < b \div k)
      BY <2>1, QuotientMonotone
    <2>3. PICK p \in Nat, s \in 0..(k - 1) : p = b \div k /\ s = b % k
      BY Quotient
    <2>4. r + 1 = s + 1 => r = s
      OBVIOUS
    <2> QED BY <1>1, <1>2, <2>1, <2>2, <2>3, <2>4
  <1>5. r + 1 \in 1..k
    OBVIOUS
  <1> QED BY <1>1, <1>2, <1>3, <1>4, <1>5

\* A scrape is later than all of the target before, so later than any reset.
LEMMA ScrapeIInv ==
  ASSUME IInv, NEW p \in Targets, NEW t \in 1..MaxTime, NEW n \in 1..2, Scrape(p, t, n)
  PROVE  IInv'
  <1>0. TypeOK /\ RecordOK /\ ResetsOK /\ PointsOK
    BY DEF IInv
  <1>1. PICK k \in Nat \ {0} : k = Len(layout[p]) /\ DOMAIN layout[p] = 1..k
    <2>1. layout[p] \in Seq(Series) /\ layout[p] # <<>>
      BY <1>0, BuilderAssumption DEF BuilderAssumption, TypeOK, Scrape
    <2> QED BY <2>1, EmptySeq, LenProperties
  <1> DEFINE now(d) == [time |-> t + d, events |-> events[p], base |-> base[p]]
             new == [i \in 1..n |-> now(i - 1)]
             val(i) == Value(now((i - 1) \div k), layout[p][((i - 1) % k) + 1])
  <1>2. /\ layout' = layout /\ entry' = entry /\ interval' = interval /\ sent' = sent
        /\ scrapes' = [scrapes EXCEPT ![p] = @ \o new]
    BY DEF Scrape, inputVars
  <1>3. samples' = [i \in 1..(n * k) |-> [ref |-> <<p, ((i - 1) % k) + 1>>,
                                          time |-> t + ((i - 1) \div k), value |-> val(i)]]
    BY <1>1 DEF Scrape
  <1>4. scrapes[p] # <<>> => t >= Last(scrapes[p]).time + 1
    BY DEF Scrape
  <1>5. t \in Nat \ {0} /\ n * k \in Nat
    BY BuilderAssumption DEF BuilderAssumption
  <1>6. /\ IsSeq(samples') /\ DOMAIN samples' = 1..(n * k)
        /\ \A i \in 1..(n * k) : samples'[i].ref = <<p, ((i - 1) % k) + 1>>
                               /\ samples'[i].time = t + ((i - 1) \div k)
    <2>1. DOMAIN samples' = 1..(n * k) /\ samples' = [i \in 1..(n * k) |-> samples'[i]]
      BY <1>3
    <2>2. IsSeq(samples')
      BY <1>5, <2>1, FunctionIsSeq
    <2> QED BY <1>3, <2>1, <2>2
  <1>7. IsSeq(new) /\ new # <<>> /\ Last(new).time = t + n - 1
    <2>1. DOMAIN new = 1..n /\ new = [i \in 1..n |-> new[i]] /\ new[n].time = t + (n - 1)
      OBVIOUS
    <2>0. t + (n - 1) = t + n - 1
      BY <1>5
    <2> HIDE DEF new
    <2>2. IsSeq(new) /\ Len(new) = n
      BY <2>1, FunctionIsSeq
    <2>3. new # <<>>
      BY <2>2, SeqShape
    <2> QED BY <2>0, <2>1, <2>2, <2>3 DEF Last
  <1> HIDE DEF now, new, val
  <1>8. /\ scrapes' = [q \in Targets |-> scrapes'[q]]
        /\ scrapes'[p] = scrapes[p] \o new
        /\ \A q \in Targets \ {p} : scrapes'[q] = scrapes[q]
    BY <1>0, <1>2 DEF TypeOK
  <1>9. IsSeq(scrapes'[p]) /\ scrapes'[p] # <<>> /\ Last(scrapes'[p]).time = t + n - 1
    BY <1>0, <1>7, <1>8, ConcatIsSeq DEF TypeOK
  <1>10. Refs' = Refs
    BY <1>2, RefsSame
  <1>11. TypeOK'
    <2>1. \A q \in Targets : IsSeq(scrapes'[q])
      BY <1>0, <1>8, <1>9 DEF TypeOK
    <2> QED BY <1>0, <1>2, <1>6, <1>8, <1>10, <2>1 DEF TypeOK
  <1>12. t + n - 1 \in Nat
    BY <1>5
  <1>13. ASSUME NEW i \in DOMAIN samples'
         PROVE  /\ samples'[i].ref \in Refs /\ samples'[i].ref[1] = p
                /\ samples'[i].time \in Nat \ {0} /\ t <= samples'[i].time
                /\ samples'[i].time <= t + n - 1
    <2>1. PICK j \in 1..k : j = ((i - 1) % k) + 1
      BY <1>6, RecordOrder
    <2>2. PICK d \in 0..(n - 1) : d = (i - 1) \div k
      BY <1>6, RecordOrder
    <2>3. samples'[i].ref = <<p, j>> /\ samples'[i].time = t + d
      BY <1>6, <2>1, <2>2
    <2>4. <<p, j>> \in Refs
      BY <1>1 DEF Refs
    <2>5. t + d \in Nat \ {0} /\ t <= t + d /\ t + d <= t + n - 1
      BY <1>5
    <2> QED BY <2>3, <2>4, <2>5
  <1>14. RecordOK'
    <2>1. \A q \in Targets : scrapes'[q] # <<>> => Last(scrapes'[q]).time \in Nat
      BY <1>0, <1>8, <1>9, <1>12 DEF RecordOK
    <2>2. ASSUME NEW i \in DOMAIN samples'
          PROVE  ScrapedBy(samples[i].ref[1], samples[i].time)'
      BY <1>9, <1>12, <1>13 DEF ScrapedBy
    <2>3. ASSUME NEW i \in DOMAIN samples', NEW j \in DOMAIN samples', i < j
          PROVE  /\ samples'[i].time <= samples'[j].time
                 /\ samples'[i].ref = samples'[j].ref => samples'[i].time < samples'[j].time
      <3>1. PICK d \in 0..(n - 1), u \in 1..k : d = (i - 1) \div k /\ u = ((i - 1) % k) + 1
        BY <1>6, RecordOrder
      <3>2. PICK e \in 0..(n - 1), v \in 1..k : e = (j - 1) \div k /\ v = ((j - 1) % k) + 1
        BY <1>6, RecordOrder
      <3>3. d <= e /\ (u = v => d < e)
        BY <1>6, <2>3, <3>1, <3>2, RecordOrder
      <3>4. /\ samples'[i].ref = <<p, u>> /\ samples'[i].time = t + d
            /\ samples'[j].ref = <<p, v>> /\ samples'[j].time = t + e
        BY <1>6, <3>1, <3>2
      <3>5. t + d <= t + e /\ (d < e => t + d < t + e)
        BY <1>5, <3>3
      <3> QED BY <3>3, <3>4, <3>5
    <2> QED BY <1>10, <1>13, <2>1, <2>2, <2>3 DEF RecordOK
  <1>15. ASSUME NEW r \in Refs, entry[r].hasReset
         PROVE  /\ entry[r].resetTimestamp \in Int
                /\ ScrapedBy(r[1], entry[r].resetTimestamp)'
                /\ r[1] = p => entry[r].resetTimestamp < t
    <2>1. /\ entry[r].resetTimestamp \in Int /\ scrapes[r[1]] # <<>> /\ r[1] \in Targets
          /\ Last(scrapes[r[1]]).time \in Nat
          /\ entry[r].resetTimestamp <= Last(scrapes[r[1]]).time
      BY <1>0, <1>15, SeriesType DEF ResetsOK, ScrapedBy, TypeOK
    <2>2. r[1] = p => entry[r].resetTimestamp < t
      BY <1>4, <1>5, <2>1
    <2>3. CASE r[1] = p
      <3>1. entry'[r].resetTimestamp = entry[r].resetTimestamp
        BY <1>2
      <3>2. entry[r].resetTimestamp <= t + n - 1
        BY <1>5, <2>1, <2>2, <2>3
      <3> QED BY <1>9, <1>12, <2>1, <2>2, <2>3, <3>1, <3>2 DEF ScrapedBy
    <2>4. CASE r[1] # p
      BY <1>2, <1>8, <2>1, <2>4 DEF ScrapedBy
    <2> QED BY <2>1, <2>2, <2>3, <2>4
  <1>16. ResetsOK'
    <2>1. \A r \in Refs' : entry'[r].hasReset =>
            entry'[r].resetTimestamp \in Int /\ ScrapedBy(r[1], entry[r].resetTimestamp)'
      BY <1>2, <1>10, <1>15
    <2>2. ASSUME NEW i \in DOMAIN samples', entry'[samples'[i].ref].hasReset
          PROVE  entry'[samples'[i].ref].resetTimestamp < samples'[i].time
      <3>1. PICK r \in Refs : r = samples'[i].ref /\ r[1] = p
        BY <1>13
      <3>2. entry[r].resetTimestamp \in Int /\ entry[r].resetTimestamp < t
        BY <1>2, <1>15, <2>2, <3>1
      <3>3. PICK u \in Nat : u = samples'[i].time /\ t <= u
        BY <1>13
      <3>4. entry[r].resetTimestamp < u
        BY <1>5, <3>2, <3>3
      <3> QED BY <1>2, <3>1, <3>3, <3>4
    <2> QED BY <2>1, <2>2 DEF ResetsOK
  <1> QED BY <1>0, <1>2, <1>11, <1>14, <1>16, PointsSame DEF IInv

\* A change of the cache between records.
LEMMA ReplaceIInv ==
  ASSUME IInv, NEW r \in Refs, NEW e, IsEntry(e),
         ~e.hasReset \/ (e.hasReset = entry[r].hasReset
                         /\ e.resetTimestamp = entry[r].resetTimestamp),
         samples = <<>>, entry' = [entry EXCEPT ![r] = e], samples' = samples,
         layout' = layout, scrapes' = scrapes, handled' = handled,
         interval' = interval, sent' = sent
  PROVE  IInv'
  <1>0. TypeOK /\ RecordOK /\ ResetsOK /\ PointsOK
    BY DEF IInv
  <1>1. Refs' = Refs
    BY RefsSame
  <1>2. /\ entry' = [q \in Refs |-> entry'[q]] /\ entry'[r] = e
        /\ \A q \in Refs : IsEntry(entry'[q])
        /\ \A q \in Refs \ {r} : entry'[q] = entry[q]
    BY <1>0, EntryReplaced
  <1>3. TypeOK'
    BY <1>0, <1>1, <1>2 DEF TypeOK
  <1>4. DOMAIN samples = {}
    BY <1>0, SeqShape DEF TypeOK
  <1>5. RecordOK'
    <2>1. \A q \in Targets : scrapes'[q] # <<>> => Last(scrapes'[q]).time \in Nat
      BY <1>0 DEF RecordOK
    <2> QED BY <1>4, <2>1 DEF RecordOK
  <1>6. ResetsOK'
    <2>1. ASSUME NEW q \in Refs, entry'[q].hasReset
          PROVE  entry'[q].resetTimestamp \in Int /\ ScrapedBy(q[1], entry'[q].resetTimestamp)
      <3>1. entry'[q].hasReset = entry[q].hasReset
            /\ entry'[q].resetTimestamp = entry[q].resetTimestamp
        BY <1>2, <2>1
      <3> QED BY <1>0, <2>1, <3>1 DEF ResetsOK
    <2>2. \A q \in Refs : entry'[q].hasReset =>
            entry'[q].resetTimestamp \in Int /\ ScrapedBy(q[1], entry[q].resetTimestamp)'
      BY <2>1 DEF ScrapedBy
    <2> QED BY <1>1, <1>4, <2>2 DEF ResetsOK
  <1> QED BY <1>0, <1>3, <1>5, <1>6, PointsSame DEF IInv

-----------------------------------------------------------------------------
(* The invariant is inductive. *)

\* Nothing that the invariant is about changes.
LEMMA UnchangedIInv ==
  ASSUME IInv, layout' = layout, entry' = entry, interval' = interval,
         samples' = samples, scrapes' = scrapes, handled' = handled, sent' = sent
  PROVE  IInv'
  <1>1. TypeOK /\ RecordOK /\ ResetsOK /\ PointsOK
    BY DEF IInv
  <1>2. Refs' = Refs /\ PointsOK'
    BY <1>1, RefsSame, PointsSame
  <1>3. TypeOK'
    BY <1>1, <1>2 DEF TypeOK
  <1>4. RecordOK'
    BY <1>1, <1>2 DEF RecordOK, ScrapedBy
  <1>5. ResetsOK'
    BY <1>1, <1>2 DEF ResetsOK, ScrapedBy
  <1> QED BY <1>2, <1>3, <1>4, <1>5 DEF IInv

\* It holds initially.
LEMMA InitIInv == Init => IInv
  <1> SUFFICES ASSUME Init PROVE IInv
    OBVIOUS
  <1>1. IsSeq(<<>>) /\ DOMAIN <<>> = {}
    <2>1. \A S : <<>> \in Seq(S)
      BY EmptySeq
    <2> QED BY <2>1 DEF IsSeq
  <1>2. \A l : IsEntry(NewEntry(l)) /\ ~NewEntry(l).hasReset
    BY DEF IsEntry, NewEntry
  <1>3. /\ entry = [r \in Refs |-> entry[r]]
        /\ \A r \in Refs : IsEntry(entry[r]) /\ ~entry[r].hasReset
    BY <1>2 DEF Init
  <1>4. TypeOK
    BY <1>1, <1>3 DEF Init, TypeOK
  <1>5. RecordOK
    BY <1>1 DEF Init, RecordOK
  <1>6. ResetsOK
    BY <1>1, <1>3 DEF Init, ResetsOK
  <1>7. PointsOK
    <2>1. NoInterval \in [start : Int, end : Int]
      BY DEF NoInterval
    <2>2. interval \in [Hashes -> [start : Int, end : Int]]
      BY <2>1 DEF Init
    <2>3. \A h \in Hashes : sent[h] = <<>> /\ interval[h] = NoInterval
      BY DEF Init
    <2>4. sent = [h \in Hashes |-> sent[h]]
      BY DEF Init
    <2> QED BY <1>1, <2>2, <2>3, <2>4 DEF PointsOK, IntervalsOK, IntervalsLegal
  <1> QED BY <1>4, <1>5, <1>6, <1>7 DEF IInv

\* Every step preserves it.
LEMMA NextIInv == IInv /\ [Next]_vars => IInv'
  <1> SUFFICES ASSUME IInv, [Next]_vars PROVE IInv'
    OBVIOUS
  <1>1. ASSUME ReaderStep PROVE IInv'
    <2>1. PICK answer \in Answers : samples # <<>> /\ BuildNext(answer)
      BY <1>1 DEF ReaderStep
    <2> QED BY <2>1, NextFailsIInv, NextDroppedIInv, NextGaugeIInv, NextCounterIInv,
               NextHistogramIInv DEF BuildNext
  <1>2. ASSUME Idle \/ UNCHANGED vars PROVE IInv'
    <2>1. UNCHANGED vars
      BY <1>2 DEF Idle
    <2> QED BY <2>1, UnchangedIInv DEF vars, inputVars
  <1>3. ASSUME NEW p \in Targets, Restart(p) PROVE IInv'
    BY <1>3, UnchangedIInv DEF Restart
  <1>4. ASSUME NEW p \in Targets, NEW z \in 1..Sizes, Observe(p, z) PROVE IInv'
    BY <1>4, UnchangedIInv DEF Observe
  <1>5. ASSUME NEW p \in Targets, NEW t \in 1..MaxTime, NEW n \in 1..2, Scrape(p, t, n)
        PROVE  IInv'
    BY <1>5, ScrapeIInv
  <1>6. ASSUME NEW r \in Refs, NEW l, Replace(r, NewEntry(l)) PROVE IInv'
    <2>1. IsEntry(NewEntry(l)) /\ ~NewEntry(l).hasReset
      BY DEF IsEntry, NewEntry
    <2>2. /\ samples = <<>> /\ entry' = [entry EXCEPT ![r] = NewEntry(l)]
          /\ samples' = samples /\ layout' = layout /\ scrapes' = scrapes
          /\ handled' = handled /\ interval' = interval /\ sent' = sent
      BY <1>6 DEF Replace, Change, inputVars
    <2> QED BY <2>1, <2>2, ReplaceIInv
  <1>7. ASSUME NEW r \in Refs, RefreshIsDue(r) PROVE IInv'
    <2> DEFINE e == [entry[r] EXCEPT !.lookup = "due"]
    <2>1. /\ samples = <<>> /\ entry' = [entry EXCEPT ![r] = e]
          /\ samples' = samples /\ layout' = layout /\ scrapes' = scrapes
          /\ handled' = handled /\ interval' = interval /\ sent' = sent
      BY <1>7 DEF RefreshIsDue, Change, inputVars
    <2>2. IsEntry(entry[r])
      BY DEF IInv, TypeOK
    <2>3. /\ IsEntry(e) /\ e.hasReset = entry[r].hasReset
          /\ e.resetTimestamp = entry[r].resetTimestamp
      BY <2>2, LookupFields
    <2> HIDE DEF e
    <2> QED BY <2>1, <2>3, ReplaceIInv
  <1> QED BY <1>1, <1>2, <1>3, <1>4, <1>5, <1>6, <1>7
          DEF Next, GarbageCollect, SetSeries

\* The inductive invariant holds in every reachable state.
THEOREM Invariance == Spec => []IInv
  BY InitIInv, NextIInv, PTL DEF Spec

\* The intervals of the points of every Stackdriver series are legal, for any
\* number of targets, series and scrapes, whatever the targets expose and
\* however often they restart and the cache changes (updateSampleInterval).
THEOREM IntervalsLegalHolds == Spec => []IntervalsLegal
  <1>1. IInv => IntervalsLegal
    BY DEF IInv, PointsOK
  <1> QED BY <1>1, Invariance, PTL

-----------------------------------------------------------------------------
(* Progress of next. *)

\* The targets expose finitely many series.
LEMMA RefsFinite ==
  ASSUME layout \in Layouts
  PROVE  IsFiniteSet(Refs)
  <1> DEFINE of(p) == {<<p, i>> : i \in DOMAIN layout[p]}
             f == [p \in Targets |-> of(p)]
             S == {of(p) : p \in Targets}
  <1>1. IsFiniteSet(Targets)
    BY BuilderAssumption DEF BuilderAssumption
  <1>2. f \in Surjection(Targets, S)
    BY DEF Surjection
  <1>3. IsFiniteSet(S)
    BY <1>1, <1>2, FS_Surjection
  <1>4. ASSUME NEW p \in Targets PROVE IsFiniteSet(of(p))
    <2> DEFINE g == [i \in DOMAIN layout[p] |-> <<p, i>>]
    <2>1. layout[p] \in Seq(Series)
      BY BuilderAssumption DEF BuilderAssumption
    <2>2. Len(layout[p]) \in Nat /\ DOMAIN layout[p] = 1..Len(layout[p])
      BY <2>1, LenProperties
    <2>3. IsFiniteSet(DOMAIN layout[p])
      BY <2>2, FS_Interval
    <2>4. g \in Surjection(DOMAIN layout[p], of(p))
      BY DEF Surjection
    <2> QED BY <2>3, <2>4, FS_Surjection
  <1>5. \A T \in S : IsFiniteSet(T)
    BY <1>4
  <1>6. Refs = UNION S
    BY DEF Refs
  <1> HIDE DEF S
  <1> QED BY <1>3, <1>5, <1>6, FS_UNION

\* One lookup less is due if no entry becomes due and one that was no longer is.
LEMMA FewerDue ==
  ASSUME TypeOK, layout' = layout, NEW r \in Due,
         entry'[r].lookup # "due",
         \A q \in Refs : entry'[q].lookup = "due" => entry[q].lookup = "due"
  PROVE  Cardinality(Due') < Cardinality(Due)
  <1>1. Refs' = Refs
    BY RefsSame
  <1>2. IsFiniteSet(Due)
    <2>1. Due \in SUBSET Refs
      BY DEF Due
    <2> QED BY <2>1, RefsFinite, FS_Subset DEF TypeOK
  <1>3. Due' \in SUBSET Due /\ Due' # Due
    BY <1>1 DEF Due
  <1>4. Cardinality(Due') <= Cardinality(Due) /\ Cardinality(Due') # Cardinality(Due)
    BY <1>2, <1>3, FS_Subset
  <1>5. Cardinality(Due') \in Nat /\ Cardinality(Due) \in Nat
    BY <1>2, <1>3, FS_Subset, FS_CardinalityType
  <1> QED BY <1>4, <1>5

\* Every series that the metadata calls a histogram is a part of one: its name
\* is not the bare name, or one that merely begins with it.
NoBareNames ==
    \A l \in Layouts, p \in Targets : \A i \in DOMAIN l[p] :
      l[p][i].kind = "histogram" /\ l[p][i].exported => l[p][i].part \notin {"other", "none"}

\* buildDistribution uses up a sample, or has asked for what was due.
LEMMA HistogramProgresses ==
  ASSUME NoBareNames, TypeOK, RecordOK, samples # <<>>, NEW answer, NextHistogram(answer)
  PROVE  Len(samples') < Len(samples) \/ Cardinality(Due') < Cardinality(Due)
  <1> DEFINE stop == StopOf(answer)
             failed == stop <= Len(samples) /\ Fails(answer, samples[stop].ref)
             before(r) == IF r = First.ref THEN Tracked(answer) ELSE
                          [entry[r] EXCEPT !.lookup = Looked(answer, r)]
             known(K) == {k \in K : Looked(answer, samples[k].ref) = "populated"}
             run == known(1..(stop - 1))
             adjusted == run \cup {k \in known({stop} \cap DOMAIN samples) :
                                      /\ SameMetric(samples[k].ref)
                                      /\ samples[k].time = First.time}
             after(k) == ResetAdjusted(before(samples[k].ref), samples[k].time,
                                       samples[k].value)
  <1>1. /\ layout' = layout
        /\ samples' = IF failed THEN samples ELSE SubSeq(samples, stop, Len(samples))
    BY DEF NextHistogram, inputVars, StopOf
  <1>2. entry' = [r \in Refs |->
                IF \E k \in adjusted : samples[k].ref = r
                THEN after(CHOOSE k \in adjusted : samples[k].ref = r)
                ELSE IF \E k \in 1..stop : k \in DOMAIN samples /\ samples[k].ref = r
                THEN before(r) ELSE entry[r]]
    BY DEF NextHistogram, StopOf
  <1>3. /\ stop \in 1..(Len(samples) + 1) /\ Len(samples) \in Nat
        /\ DOMAIN samples = 1..Len(samples)
        /\ \A k \in 1..(stop - 1) : k \in DOMAIN samples
        /\ stop <= Len(samples) => Ends(answer, stop)
    BY StopIs, SeqShape DEF TypeOK
  <1>4. \A r \in Refs : IsEntry(before(r)) /\ before(r).lookup = Looked(answer, r)
    <2> SUFFICES ASSUME NEW r \in Refs
                 PROVE  IsEntry(before(r)) /\ before(r).lookup = Looked(answer, r)
      OBVIOUS
    <2>1. IsEntry(entry[r])
      BY DEF TypeOK
    <2>2. CASE r = First.ref
      BY <2>1, <2>2, TrackedFields
    <2>3. CASE r # First.ref
      BY <2>1, <2>3, LookupFields
    <2> QED BY <2>2, <2>3
  <1> HIDE DEF before, stop
  <1>5. \A k \in adjusted : k \in DOMAIN samples /\ Looked(answer, samples[k].ref) = "populated"
    BY <1>3
  <1>6. \A k \in adjusted : after(k).lookup = "populated"
    <2> HIDE DEF adjusted
    <2> SUFFICES ASSUME NEW k \in adjusted PROVE after(k).lookup = "populated"
      OBVIOUS
    <2>1. samples[k].ref \in Refs /\ samples[k].time \in Int
      BY <1>5 DEF RecordOK
    <2> QED BY <1>4, <1>5, <2>1, ResetFields
  <1> HIDE DEF adjusted, after
  <1>7. CASE failed
    <2> DEFINE s == samples[stop].ref
    <2>1. stop \in DOMAIN samples /\ Fails(answer, s)
      BY <1>3, <1>7
    <2>2. s \in Refs /\ entry[s].lookup = "due" /\ answer[s] = "fails"
      BY <2>1 DEF RecordOK, Fails
    <2>3. Looked(answer, s) = "waiting"
      BY <2>2 DEF Looked
    <2>4. ~\E k \in adjusted : samples[k].ref = s
      BY <1>5, <2>3
    <2>5. entry'[s].lookup = "waiting"
      <3>1. stop \in 1..stop
        BY <1>3
      <3>2. entry'[s] = before(s)
        BY <1>2, <2>1, <2>2, <2>4, <3>1
      <3> QED BY <1>4, <2>2, <2>3, <3>2
    <2>6. ASSUME NEW q \in Refs, entry'[q].lookup = "due" PROVE entry[q].lookup = "due"
      <3>1. CASE \E k \in adjusted : samples[k].ref = q
        <4>1. PICK k \in adjusted : entry'[q] = after(k)
          BY <1>2, <3>1
        <4> QED BY <1>6, <2>6, <4>1
      <3>2. CASE ~\E k \in adjusted : samples[k].ref = q
        <4>1. entry'[q] = before(q) \/ entry'[q] = entry[q]
          BY <1>2, <3>2
        <4>2. Looked(answer, q) # "due"
          BY DEF Looked
        <4> QED BY <1>4, <2>6, <4>1, <4>2
      <3> QED BY <3>1, <3>2
    <2>7. s \in Due
      BY <2>2 DEF Due
    <2> QED BY <1>1, <2>5, <2>6, <2>7, FewerDue
  <1>8. CASE ~failed
    <2>1. stop # 1
      <3>1. SUFFICES ASSUME stop = 1 PROVE FALSE
        OBVIOUS
      <3>2. 1 \in DOMAIN samples /\ First = samples[1] /\ First.ref \in Refs
        BY FirstOK
      <3>3. 1 <= Len(samples) /\ Ends(answer, 1) /\ ~Fails(answer, First.ref)
        BY <1>3, <1>8, <3>1, <3>2
      <3>4. FirstSeries.part \in {"other", "none"}
        BY <3>2, <3>3 DEF Ends, SameMetric, FirstSeries
      <3>5. FirstSeries.kind = "histogram" /\ FirstSeries.exported
        BY DEF NextHistogram
      <3>6. /\ First.ref[1] \in Targets /\ First.ref[2] \in DOMAIN layout[First.ref[1]]
            /\ FirstSeries = layout[First.ref[1]][First.ref[2]] /\ layout \in Layouts
        BY <3>2, SeriesType DEF TypeOK, FirstSeries, SeriesOf
      <3> QED BY <3>4, <3>5, <3>6 DEF NoBareNames
    <2>2. samples' = SubSeq(samples, stop, Len(samples))
      BY <1>1, <1>8
    <2>3. Len(samples') = Len(samples) + 1 - stop
      BY <1>3, <2>2, RestIsSeq DEF TypeOK
    <2> QED BY <1>3, <2>1, <2>3
  <1> QED BY <1>7, <1>8

\* So does every call of next.
LEMMA StepProgresses ==
  ASSUME NoBareNames, IInv, samples # <<>>, Next
  PROVE  Len(samples') < Len(samples) \/ Cardinality(Due') < Cardinality(Due)
  <1>0. TypeOK /\ RecordOK
    BY DEF IInv
  <1>1. PICK answer \in Answers : BuildNext(answer)
    BY DEF Next, ReaderStep, Idle, Restart, Observe, Scrape, GarbageCollect, RefreshIsDue,
           SetSeries, Replace, Change
  <1>2. CASE samples' = Tail(samples)
    <2>1. IsSeq(samples)
      BY <1>0 DEF TypeOK
    <2>2. Len(samples') = Len(samples) + 1 - 2 /\ Len(samples) \in Nat
      BY <1>2, <2>1, TailIsRest, RestIsSeq, SeqShape
    <2> QED BY <2>2
  <1>3. CASE NextFails(answer)
    <2> DEFINE f == [entry[First.ref] EXCEPT !.lookup = Looked(answer, First.ref)]
    <2>1. /\ layout' = layout /\ Fails(answer, First.ref)
          /\ entry' = [entry EXCEPT ![First.ref] = f]
      BY <1>3 DEF NextFails, inputVars
    <2>2. First.ref \in Refs /\ IsEntry(entry[First.ref])
      BY <1>0, FirstOK
    <2>3. IsEntry(f) /\ f.lookup = Looked(answer, First.ref)
      BY <2>2, LookupFields
    <2> HIDE DEF f
    <2>4. /\ entry'[First.ref] = f
          /\ \A q \in Refs \ {First.ref} : entry'[q] = entry[q]
      BY <1>0, <2>1, <2>2, <2>3, EntryReplaced
    <2>5. First.ref \in Due /\ Looked(answer, First.ref) = "waiting"
      BY <2>1, <2>2 DEF Fails, Looked, Due
    <2> QED BY <1>0, <2>1, <2>3, <2>4, <2>5, FewerDue
  <1>4. CASE NextHistogram(answer)
    BY <1>0, <1>4, HistogramProgresses
  <1> QED BY <1>1, <1>2, <1>3, <1>4
          DEF BuildNext, NextUnknown, NextUnexported, NextGauge, NextCounter

\* A call of next shortens the record or leaves one lookup less to fail, where
\* the targets expose no series with a histogram's own name: the condition is
\* the one that the run about RecordConsumed shows to be needed.
THEOREM NextProgressesHolds ==
  ASSUME NoBareNames
  PROVE  Spec => NextProgresses
  <1>1. IInv /\ [Next]_vars =>
          [samples # <<>> => \/ Len(samples') < Len(samples)
                             \/ Cardinality(Due') < Cardinality(Due)]_vars
    BY StepProgresses
  <1> QED BY <1>1, Invariance, PTL DEF Spec, NextProgresses

-----------------------------------------------------------------------------
(* What the scrapes saw. *)

\* Counts of events of at most each size.
Counts == [0..Sizes -> Nat]
AtMost(c, d) == \A z \in 0..Sizes : c[z] <= d[z]

\* What a process had counted, ever and before its last start.
ProcessOK(x) ==
    /\ x.events \in Counts /\ x.base \in Counts
    /\ AtMost(x.base, x.events) /\ x.events[0] = 0

\* The same process later: a restart puts everything seen before it into the base.
Later(x, y) ==
    /\ AtMost(x.events, y.events) /\ AtMost(x.base, y.base)
    /\ x.base = y.base \/ AtMost(x.events, y.base)

Now(p) == [events |-> events[p], base |-> base[p]]

\* The scrapes are in the order of their times, and each saw the process at a
\* later moment than the one before.
HistoryOK ==
    /\ events = [p \in Targets |-> events[p]] /\ base = [p \in Targets |-> base[p]]
    /\ \A p \in Targets : ProcessOK(Now(p))
    /\ \A p \in Targets : \A i \in DOMAIN scrapes[p] :
         /\ scrapes[p][i].time \in Nat \ {0}
         /\ ProcessOK(scrapes[p][i]) /\ Later(scrapes[p][i], Now(p))
    /\ \A p \in Targets : \A i, j \in DOMAIN scrapes[p] : i < j =>
         scrapes[p][i].time < scrapes[p][j].time /\ Later(scrapes[p][i], scrapes[p][j])

\* The samples of a record are of one target, and each has the value of its
\* series in the scrape at its time.
SampledAt(k, j) ==
    LET x == scrapes[samples[k].ref[1]][j]
    IN samples[k].time = x.time /\ samples[k].value = Value(x, SeriesOf(samples[k].ref))

SamplesOK ==
    /\ \A k \in DOMAIN samples : \E j \in DOMAIN scrapes[samples[k].ref[1]] : SampledAt(k, j)
    /\ \A k, l \in DOMAIN samples : samples[k].ref[1] = samples[l].ref[1]

\* A sample of r with time t is left of the record.
Left(r, t) == \E k \in DOMAIN samples : samples[k].ref = r /\ samples[k].time = t

-----------------------------------------------------------------------------
(* The trackers. *)

\* r was fed from the a-th to the b-th scrape.
FedBetween(r, a, b) ==
    LET x == scrapes[r[1]][a]
        y == scrapes[r[1]][b]
        s == SeriesOf(r)
        seen == Seen(y.events, s) - Seen(x.events, s)
    IN /\ fed[r].since = x.time /\ entry[r].lastTimestamp = y.time
       /\ entry[r].lastValue = Value(y, s)
       /\ fed[r].total \in Int /\ fed[r].total <= seen
       /\ x.base = y.base => fed[r].total = seen

FedOK ==
    /\ fed = [r \in Refs |-> fed[r]]
    /\ \A r \in Refs :
        /\ fed[r] = [since |-> fed[r].since, total |-> fed[r].total]
        /\ \/ fed[r].since = 0 /\ entry[r].lastTimestamp = 0
           \/ \E a, b \in DOMAIN scrapes[r[1]] : a <= b /\ FedBetween(r, a, b)

\* All series of a target that was known all the time are known, and next has
\* fed them the last scrape or is about to.
SteadyOK ==
    \A r \in Refs : r[1] \in steady /\ scrapes[r[1]] # <<>> =>
        /\ entry[r].lookup = "populated"
        /\ FedByNext(r) => LET t == Last(scrapes[r[1]]).time
                           IN entry[r].lastTimestamp = t \/ Left(r, t)

-----------------------------------------------------------------------------
(* Resets. *)

\* The reset value is that of the a-th scrape, or 0 since a restart after it.
FromScrape(r, e, a) ==
    /\ e.resetTimestamp = scrapes[r[1]][a].time
    /\ e.resetValue = Value(scrapes[r[1]][a], SeriesOf(r))

AfterRestart(r, e, a) ==
    /\ a + 1 \in DOMAIN scrapes[r[1]]
    /\ e.resetTimestamp = scrapes[r[1]][a + 1].time - 1
    /\ e.resetValue = 0
    /\ scrapes[r[1]][a].base # scrapes[r[1]][a + 1].base
    /\ ~Left(r, scrapes[r[1]][a].time)

StartsAt(r, e, a) == FromScrape(r, e, a) \/ AfterRestart(r, e, a)

\* The value has not been seen below the reset value since.
NotBelow(r, e, a) ==
    \A j \in DOMAIN scrapes[r[1]] : a <= j /\ ~Left(r, scrapes[r[1]][j].time) =>
        Value(scrapes[r[1]][j], SeriesOf(r)) >= e.resetValue

\* next reports its points, or would.
Reported(r) == SeriesOf(r).exported /\ SeriesOf(r).kind # "gauge"

\* Every reset value is about some scrape.
StartsOK ==
    \A r \in Refs :
      /\ entry[r].hasReset => entry[r].lookup = "populated"
      /\ Reported(r) /\ entry[r].hasReset =>
           \E a \in DOMAIN scrapes[r[1]] : StartsAt(r, entry[r], a) /\ NotBelow(r, entry[r], a)

\* The a-th scrape of p is the last one at or before t.
LastAt(p, t, a) ==
    /\ t \in Int /\ \E j \in DOMAIN scrapes[p] : t <= scrapes[p][j].time
    /\ \A j \in DOMAIN scrapes[p] : scrapes[p][j].time <= t <=> j <= a

\* A point counts at most what happened between the two scrapes.
NotOver(x) ==
    \E a, b \in DOMAIN scrapes[x.ref[1]] :
      LET s == SeriesOf(x.ref)
          y == scrapes[x.ref[1]][b]
          z == scrapes[x.ref[1]][a]
      IN /\ LastAt(x.ref[1], x.start, a) /\ LastAt(x.ref[1], x.end, b)
         /\ x.value <= Seen(y.events, s) - Seen(z.events, s)

NotOverOK ==
    \A h \in Hashes : \A i \in DOMAIN sent[h] :
      sent[h][i].ref \in Refs /\ (Cumulative(sent[h][i]) => NotOver(sent[h][i]))

-----------------------------------------------------------------------------
(* Histograms. *)

\* The series of an exposition are in the record in their order.
Placed(k) ==
    LET p == samples[k].ref[1]
        i == samples[k].ref[2]
    IN /\ \A j \in DOMAIN layout[p] : j >= i =>
            /\ k + j - i \in DOMAIN samples /\ samples[k + j - i].ref = <<p, j>>
            /\ samples[k + j - i].time = samples[k].time
       /\ i = Len(layout[p]) /\ k + 1 \in DOMAIN samples =>
            samples[k + 1].ref = <<p, 1>> /\ samples[k + 1].time # samples[k].time

InOrder == \A k \in DOMAIN samples : Placed(k)

\* In a target that was known all the time, all series of a histogram begin with
\* the first scrape.
BeginOK ==
    \A r \in Refs : r[1] \in steady /\ scrapes[r[1]] # <<>> /\ Reported(r) =>
      IF entry[r].hasReset
      THEN FromScrape(r, entry[r], 1) \/ \E a \in DOMAIN scrapes[r[1]] : AfterRestart(r, entry[r], a)
      ELSE Left(r, scrapes[r[1]][1].time)

IsPart(p, i, m) == layout[p][i].part \in Parts /\ layout[p][i].metric = m

\* No part of the c-th sample's histogram comes before it.
NothingBefore(c) ==
    LET p == samples[c].ref[1]
        s == SeriesOf(samples[c].ref)
    IN p \in steady /\ s.part \in Parts /\ s.kind = "histogram" /\ s.exported =>
         \A i \in DOMAIN layout[p] : IsPart(p, i, s.metric) => samples[c].ref[2] <= i

BoundaryOK == samples # <<>> => NothingBefore(1)

\* The distribution of a point is what happened between two scrapes.
Increase(x, y) == [c \in 0..Sizes |-> y.events[c] - x.events[c]]

\* Of the events of at most each size, those between neighbouring bounds.
InBuckets(n, B) == [c \in B |-> n[c] - n[Max({d \in B : d < c} \cup {0})]]

DistributedBetween(x, a, b) ==
    LET y == scrapes[x.ref[1]][a]
        z == scrapes[x.ref[1]][b]
        n == Increase(y, z)
    IN y.base = z.base =>
         /\ x.value = n[Sizes]
         /\ x.buckets = InBuckets(n, Bounds(x))

Distributed(x) ==
    \E a, b \in DOMAIN scrapes[x.ref[1]] :
      /\ LastAt(x.ref[1], x.start, a) /\ LastAt(x.ref[1], x.end, b)
      /\ DistributedBetween(x, a, b)

DistributedOK ==
    \A h \in Hashes : \A i \in DOMAIN sent[h] :
      /\ sent[h][i].ref \in Refs
      /\ SeriesOf(sent[h][i].ref).kind = "histogram" /\ sent[h][i].ref[1] \in steady
           => Distributed(sent[h][i])

\* The parts of a histogram that is exported are exported, too.
ExportedWhole ==
    \A l \in Layouts, p \in Targets : \A i, j \in DOMAIN l[p] :
      /\ l[p][i].kind = "histogram" /\ l[p][i].exported
      /\ l[p][j].part \in Parts /\ l[p][j].metric = l[p][i].metric
      => l[p][j].exported

-----------------------------------------------------------------------------
(* The history. *)

\* What two states of a process mean for a series.
LEMMA SeenOf ==
  ASSUME NEW x, NEW y, ProcessOK(x), ProcessOK(y), Later(x, y), NEW s \in Series
  PROVE  \E e, b, f, c \in Nat :
           /\ e = Seen(x.events, s) /\ b = Seen(x.base, s)
           /\ f = Seen(y.events, s) /\ c = Seen(y.base, s)
           /\ b <= e /\ c <= f /\ e <= f /\ b <= c
           /\ x.base = y.base \/ e <= c
           /\ x.base = y.base => b = c
  <1>1. PICK z \in 0..Sizes : z = IF s.part = "bucket" THEN s.le ELSE Sizes
    BY BuilderAssumption DEF BuilderAssumption, Series
  <1>2. /\ Seen(x.events, s) = x.events[z] /\ Seen(x.base, s) = x.base[z]
        /\ Seen(y.events, s) = y.events[z] /\ Seen(y.base, s) = y.base[z]
    BY <1>1 DEF Seen
  <1>3. x.events[z] \in Nat /\ x.base[z] \in Nat /\ y.events[z] \in Nat /\ y.base[z] \in Nat
    BY DEF ProcessOK, Counts
  <1>4. /\ x.base[z] <= x.events[z] /\ y.base[z] <= y.events[z]
        /\ x.events[z] <= y.events[z] /\ x.base[z] <= y.base[z]
        /\ x.base = y.base \/ x.events[z] <= y.base[z]
    BY DEF ProcessOK, Later, AtMost
  <1> QED BY <1>2, <1>3, <1>4

\* Nothing happens in no time.
LEMMA LaterSame ==
  ASSUME NEW x, ProcessOK(x)
  PROVE  Later(x, x)
  <1>1. \A z \in 0..Sizes : x.events[z] \in Nat /\ x.base[z] \in Nat
    BY DEF ProcessOK, Counts
  <1>2. \A z \in 0..Sizes : x.events[z] <= x.events[z] /\ x.base[z] <= x.base[z]
    BY <1>1
  <1> QED BY <1>2 DEF Later, AtMost

\* Values are natural numbers.
LEMMA ValueType ==
  ASSUME NEW x, ProcessOK(x), NEW s \in Series
  PROVE  Value(x, s) \in Nat
  <1>1. Later(x, x)
    BY LaterSame
  <1>2. PICK e, b, f, c \in Nat : e = Seen(x.events, s) /\ b = Seen(x.base, s) /\ b <= e
    BY <1>1, SeenOf
  <1> QED BY <1>2 DEF Value

\* The scrapes of a target, in their order.
LEMMA LaterAt ==
  ASSUME TypeOK, HistoryOK, NEW p \in Targets,
         NEW i \in DOMAIN scrapes[p], NEW j \in DOMAIN scrapes[p], i <= j
  PROVE  /\ ProcessOK(scrapes[p][i]) /\ ProcessOK(scrapes[p][j])
         /\ Later(scrapes[p][i], scrapes[p][j])
         /\ scrapes[p][i].time \in Nat \ {0} /\ scrapes[p][j].time \in Nat \ {0}
         /\ scrapes[p][i].time <= scrapes[p][j].time
         /\ i < j => scrapes[p][i].time < scrapes[p][j].time
  <1>0. i \in Nat /\ j \in Nat
    BY SeqShape DEF TypeOK
  <1>1. /\ ProcessOK(scrapes[p][i]) /\ ProcessOK(scrapes[p][j])
        /\ scrapes[p][i].time \in Nat \ {0} /\ scrapes[p][j].time \in Nat \ {0}
    BY DEF HistoryOK
  <1>2. CASE i < j
    <2>1. scrapes[p][i].time < scrapes[p][j].time /\ Later(scrapes[p][i], scrapes[p][j])
      BY <1>2 DEF HistoryOK
    <2> QED BY <1>1, <2>1
  <1>3. CASE i = j
    <2>1. Later(scrapes[p][i], scrapes[p][j])
      BY <1>1, <1>3, LaterSame
    <2>2. ~(i < j)
      BY <1>0, <1>3
    <2> QED BY <1>1, <1>3, <2>1, <2>2
  <1> QED BY <1>0, <1>2, <1>3

\* The base does not change and change back.
LEMMA BaseBetween ==
  ASSUME NEW x, NEW y, NEW z, ProcessOK(x), ProcessOK(y), ProcessOK(z),
         Later(x, y), Later(y, z), x.base = z.base
  PROVE  x.base = y.base
  <1>1. PICK a, b \in Counts : a = x.base /\ b = y.base
    BY DEF ProcessOK
  <1>2. AtMost(a, b) /\ AtMost(b, a)
    BY <1>1 DEF Later
  <1>3. \A c \in 0..Sizes : a[c] = b[c]
    BY <1>2 DEF AtMost, Counts
  <1>4. a = [c \in 0..Sizes |-> a[c]] /\ b = [c \in 0..Sizes |-> b[c]]
    BY DEF Counts
  <1>5. a = b
    BY <1>3, <1>4
  <1> QED BY <1>1, <1>5

\* The scrapes so far stay, and new ones are later.
Extends(q) ==
    /\ \A i \in DOMAIN scrapes[q] : i \in DOMAIN scrapes'[q] /\ scrapes'[q][i] = scrapes[q][i]
    /\ \A j \in DOMAIN scrapes'[q] \ DOMAIN scrapes[q] :
         /\ scrapes'[q][j].time \in Nat /\ j \in Nat
         /\ \A i \in DOMAIN scrapes[q] : i < j /\ scrapes[q][i].time < scrapes'[q][j].time

\* Concatenation.
LEMMA ConcatElements ==
  ASSUME NEW s, IsSeq(s), NEW t, IsSeq(t), NEW y, y = s \o t
  PROVE  /\ Len(y) = Len(s) + Len(t) /\ DOMAIN y = 1..(Len(s) + Len(t))
         /\ \A i \in 1..Len(s) : y[i] = s[i]
         /\ \A i \in 1..Len(t) : y[Len(s) + i] = t[i]
  <1> DEFINE S == Range(s) \cup Range(t)
  <1>1. s \in Seq(S) /\ t \in Seq(S)
    BY SeqMonotonic DEF IsSeq
  <1> HIDE DEF S
  <1>2. /\ s \o t \in Seq(S)
        /\ Len(s \o t) = Len(s) + Len(t)
        /\ \A i \in 1..(Len(s) + Len(t)) : (s \o t)[i] =
              IF i <= Len(s) THEN s[i] ELSE t[i - Len(s)]
    BY <1>1, ConcatProperties
  <1>3. DOMAIN (s \o t) = 1..Len(s \o t) /\ IsSeq(s \o t)
    BY <1>2, SeqIsSeq
  <1>4. PICK m \in Nat, n \in Nat : m = Len(s) /\ n = Len(t)
    BY <1>1, LenProperties
  <1>5. \A i \in 1..m : (s \o t)[i] = s[i]
    BY <1>2, <1>4
  <1>6. ASSUME NEW i \in 1..n PROVE (s \o t)[m + i] = t[i]
    <2>1. m + i \in 1..(m + n) /\ ~(m + i <= m) /\ m + i - m = i
      OBVIOUS
    <2> QED BY <1>2, <1>4, <2>1
  <1> QED BY <1>2, <1>3, <1>4, <1>5, <1>6

\* A scrape of p at u.
Shot(p, u) == [time |-> u, events |-> events[p], base |-> base[p]]

\* What n expositions of k series from time t on add to the record, and to the
\* m scrapes of p before.
Adds(p, t, n, k, m) ==
    /\ k = Len(layout[p]) /\ DOMAIN layout[p] = 1..k
    /\ m = Len(scrapes[p]) /\ DOMAIN scrapes[p] = 1..m
    /\ DOMAIN samples' = 1..(n * k)
    /\ \A i \in 1..(n * k) :
         /\ samples'[i].ref = <<p, ((i - 1) % k) + 1>>
         /\ samples'[i].time = t + ((i - 1) \div k)
         /\ samples'[i].value = Value(Shot(p, t + ((i - 1) \div k)),
                                      layout[p][((i - 1) % k) + 1])
    /\ \A q \in Targets \ {p} : scrapes'[q] = scrapes[q]
    /\ DOMAIN scrapes'[p] = 1..(m + n) /\ Len(scrapes'[p]) = m + n
    /\ \A i \in 1..m : scrapes'[p][i] = scrapes[p][i] /\ scrapes[p][i].time < t
    /\ \A d \in 0..(n - 1) : scrapes'[p][m + 1 + d] = Shot(p, t + d)

\* A scrape adds its samples to the record and itself to the history.
LEMMA ScrapeAdds ==
  ASSUME IInv, HistoryOK, NEW p \in Targets, NEW t \in 1..MaxTime, NEW n \in 1..2,
         Scrape(p, t, n)
  PROVE  \E k \in Nat \ {0}, m \in Nat : Adds(p, t, n, k, m)
  <1>0. TypeOK /\ RecordOK
    BY DEF IInv
  <1>1. PICK k \in Nat \ {0} : k = Len(layout[p]) /\ DOMAIN layout[p] = 1..k
    <2>1. layout[p] \in Seq(Series) /\ layout[p] # <<>>
      BY <1>0, BuilderAssumption DEF BuilderAssumption, TypeOK, Scrape
    <2> QED BY <2>1, EmptySeq, LenProperties
  <1>2. PICK m \in Nat : m = Len(scrapes[p]) /\ DOMAIN scrapes[p] = 1..m /\ IsSeq(scrapes[p])
    BY <1>0, SeqShape DEF TypeOK
  <1> DEFINE new == [i \in 1..n |-> Shot(p, t + (i - 1))]
  <1>3. samples' = [i \in 1..(n * k) |->
           [ref |-> <<p, ((i - 1) % k) + 1>>, time |-> t + ((i - 1) \div k),
            value |-> Value(Shot(p, t + ((i - 1) \div k)), layout[p][((i - 1) % k) + 1])]]
    BY <1>1 DEF Scrape, Shot
  <1>4. scrapes' = [scrapes EXCEPT ![p] = @ \o new]
    BY DEF Scrape, Shot
  <1>5. IsSeq(new) /\ Len(new) = n
    <2>1. DOMAIN new = 1..n /\ new = [i \in 1..n |-> new[i]]
      OBVIOUS
    <2> HIDE DEF new
    <2> QED BY <2>1, FunctionIsSeq
  <1>6. \A d \in 0..(n - 1) : d + 1 \in 1..n /\ new[d + 1] = Shot(p, t + d)
    <2> SUFFICES ASSUME NEW d \in 0..(n - 1) PROVE d + 1 \in 1..n /\ new[d + 1] = Shot(p, t + d)
      OBVIOUS
    <2>1. d + 1 \in 1..n /\ (d + 1) - 1 = d
      OBVIOUS
    <2> QED BY <2>1
  <1> HIDE DEF new
  <1>7. /\ scrapes'[p] = scrapes[p] \o new
        /\ \A q \in Targets \ {p} : scrapes'[q] = scrapes[q]
    BY <1>0, <1>4 DEF TypeOK
  <1>8. /\ DOMAIN scrapes'[p] = 1..(m + n) /\ Len(scrapes'[p]) = m + n
        /\ \A i \in 1..m : scrapes'[p][i] = scrapes[p][i]
        /\ \A i \in 1..n : scrapes'[p][m + i] = new[i]
    <2>1. PICK a, b : a = scrapes[p] /\ b = new
      OBVIOUS
    <2>2. IsSeq(a) /\ IsSeq(b) /\ Len(a) = m /\ Len(b) = n
      BY <1>2, <1>5, <2>1
    <2>3. PICK y : y = a \o b
      OBVIOUS
    <2>4. scrapes'[p] = y
      BY <1>7, <2>1, <2>3
    <2>5. /\ Len(y) = Len(a) + Len(b) /\ DOMAIN y = 1..(Len(a) + Len(b))
          /\ \A i \in 1..Len(a) : y[i] = a[i]
          /\ \A i \in 1..Len(b) : y[Len(a) + i] = b[i]
      BY ONLY <2>2, <2>3, ConcatElements
    <2>6. /\ DOMAIN y = 1..(m + n) /\ Len(y) = m + n
          /\ \A i \in 1..m : y[i] = a[i]
          /\ \A i \in 1..n : y[m + i] = b[i]
      BY <2>2, <2>5
    <2> QED BY <2>1, <2>4, <2>6
  <1>9. \A d \in 0..(n - 1) : scrapes'[p][m + 1 + d] = Shot(p, t + d)
    <2> SUFFICES ASSUME NEW d \in 0..(n - 1) PROVE scrapes'[p][m + 1 + d] = Shot(p, t + d)
      OBVIOUS
    <2>1. m + (d + 1) = m + 1 + d
      OBVIOUS
    <2> QED BY <1>6, <1>8, <2>1
  <1>10. ASSUME NEW i \in 1..m PROVE scrapes[p][i].time < t
    <2>1. scrapes[p] # <<>> /\ m \in DOMAIN scrapes[p] /\ i \in DOMAIN scrapes[p]
      BY <1>2, SeqShape
    <2>2. t >= scrapes[p][m].time + 1
      BY <1>2, <2>1 DEF Scrape, Last
    <2>3. i = m \/ i < m
      OBVIOUS
    <2>4. PICK u, v \in Nat : u = scrapes[p][m].time /\ v = scrapes[p][i].time /\ v <= u
      BY <2>1, <2>3 DEF HistoryOK
    <2> QED BY <2>2, <2>4
  <1>11. /\ DOMAIN samples' = 1..(n * k)
         /\ \A i \in 1..(n * k) :
                /\ samples'[i].ref = <<p, ((i - 1) % k) + 1>>
                /\ samples'[i].time = t + ((i - 1) \div k)
                /\ samples'[i].value = Value(Shot(p, t + ((i - 1) \div k)),
                                             layout[p][((i - 1) % k) + 1])
    BY <1>3
  <1> QED BY <1>1, <1>2, <1>7, <1>8, <1>9, <1>10, <1>11 DEF Adds

\* A scrape's record of the process.
LEMMA ShotIs ==
  ASSUME NEW p, NEW u
  PROVE  Shot(p, u).time = u /\ Shot(p, u).events = events[p] /\ Shot(p, u).base = base[p]
  BY DEF Shot

\* What was seen before is not later than what is seen now.
LEMMA LaterThan ==
  ASSUME NEW x, NEW y, NEW z, Later(x, y), z.events = y.events, z.base = y.base
  PROVE  Later(x, z)
  BY DEF Later

\* Initially.
LEMMA HistoryInit == Init => HistoryOK
  <1> SUFFICES ASSUME Init PROVE HistoryOK
    OBVIOUS
  <1>1. \A p \in Targets : events[p] = [z \in 0..Sizes |-> 0] /\ base[p] = events[p]
    BY DEF Init
  <1>2. \A p \in Targets : scrapes[p] = <<>> /\ DOMAIN scrapes[p] = {}
    BY DEF Init
  <1>3. ASSUME NEW p \in Targets PROVE ProcessOK(Now(p))
    <2>1. Now(p).events = events[p] /\ Now(p).base = base[p]
      BY DEF Now
    <2>2. 0 \in 0..Sizes
      BY BuilderAssumption DEF BuilderAssumption
    <2>3. /\ events[p] \in Counts /\ base[p] \in Counts /\ events[p][0] = 0
          /\ \A z \in 0..Sizes : base[p][z] = 0 /\ events[p][z] = 0
      <3>1. PICK c : c = [z \in 0..Sizes |-> 0]
        OBVIOUS
      <3>2. c \in [0..Sizes -> Nat] /\ c[0] = 0 /\ \A z \in 0..Sizes : c[z] = 0
        BY <2>2, <3>1
      <3> QED BY <1>1, <3>1, <3>2 DEF Counts
    <2> QED BY <2>1, <2>3 DEF ProcessOK, AtMost
  <1>4. events = [p \in Targets |-> events[p]] /\ base = [p \in Targets |-> base[p]]
    BY DEF Init
  <1> QED BY <1>2, <1>3, <1>4 DEF HistoryOK

\* The process observes an event or starts again.
LEMMA ProcessSteps ==
  ASSUME HistoryOK, NEW p \in Targets, scrapes' = scrapes,
         Restart(p) \/ \E z \in 1..Sizes : Observe(p, z)
  PROVE  HistoryOK'
  <1>1. /\ events = [q \in Targets |-> events[q]] /\ base = [q \in Targets |-> base[q]]
        /\ events[p] \in Counts /\ base[p] \in Counts
        /\ AtMost(base[p], events[p]) /\ events[p][0] = 0
    BY DEF HistoryOK, ProcessOK, Now
  <1>0. Sizes \in Nat
    BY BuilderAssumption DEF BuilderAssumption
  <1>2. /\ events' = [q \in Targets |-> events'[q]] /\ base' = [q \in Targets |-> base'[q]]
        /\ \A q \in Targets \ {p} : events'[q] = events[q] /\ base'[q] = base[q]
        /\ events'[p] \in Counts /\ base'[p] \in Counts
        /\ AtMost(base'[p], events'[p]) /\ events'[p][0] = 0
        /\ AtMost(events[p], events'[p])
        /\ base'[p] = base[p] \/ base'[p] = events[p]
    <2>0. \A z \in 0..Sizes : events[p][z] \in Nat /\ base[p][z] \in Nat
      BY <1>1 DEF Counts
    <2>1. CASE Restart(p)
      <3>1. base'[p] = events[p] /\ events' = events
            /\ base' = [q \in Targets |-> base'[q]]
            /\ \A q \in Targets \ {p} : base'[q] = base[q]
        BY <1>1, <2>1 DEF Restart
      <3>2. \A z \in 0..Sizes : events[p][z] <= events[p][z]
        BY <2>0
      <3> QED BY <1>1, <3>1, <3>2 DEF AtMost
    <2>2. CASE \E z \in 1..Sizes : Observe(p, z)
      <3>1. PICK z \in 1..Sizes : Observe(p, z)
        BY <2>2
      <3>2. /\ base' = base
            /\ events'[p] = [y \in 0..Sizes |-> IF y >= z THEN events[p][y] + 1 ELSE events[p][y]]
            /\ events' = [q \in Targets |-> events'[q]]
            /\ \A q \in Targets \ {p} : events'[q] = events[q]
        BY <1>1, <3>1 DEF Observe
      <3>3. \A y \in 0..Sizes : /\ events'[p][y] \in Nat /\ events[p][y] <= events'[p][y]
                                /\ base[p][y] <= events'[p][y]
        BY <1>1, <2>0, <3>2 DEF AtMost
      <3>4. events'[p] \in Counts
        BY <3>2, <3>3 DEF Counts
      <3>5. events'[p][0] = 0
        <4>1. 0 \in 0..Sizes /\ ~(0 >= z)
          BY <1>0
        <4> QED BY <1>1, <3>2, <4>1
      <3> QED BY <1>1, <3>2, <3>3, <3>4, <3>5 DEF AtMost
    <2> QED BY <2>1, <2>2
  <1>3. ASSUME NEW q \in Targets PROVE ProcessOK(Now(q)')
    <2>1. Now(q)'.events = events'[q] /\ Now(q)'.base = base'[q]
      BY DEF Now
    <2>2. CASE q = p
      BY <1>2, <2>1, <2>2 DEF ProcessOK
    <2>3. CASE q # p
      <3>1. Now(q).events = events[q] /\ Now(q).base = base[q] /\ ProcessOK(Now(q))
        BY DEF Now, HistoryOK
      <3> QED BY <1>2, <2>1, <2>3, <3>1 DEF ProcessOK
    <2> QED BY <2>2, <2>3
  <1>4. ASSUME NEW q \in Targets, NEW i \in DOMAIN scrapes[q]
        PROVE  Later(scrapes[q][i], Now(q)')
    <2>1. Now(q)'.events = events'[q] /\ Now(q)'.base = base'[q]
      BY DEF Now
    <2>2. /\ Later(scrapes[q][i], Now(q)) /\ ProcessOK(scrapes[q][i])
          /\ Now(q).events = events[q] /\ Now(q).base = base[q]
      BY DEF HistoryOK, Now
    <2>3. CASE q # p
      BY <1>2, <2>1, <2>2, <2>3, LaterThan
    <2>4. CASE q = p
      <3> DEFINE x == scrapes[q][i]
      <3>1. /\ AtMost(x.events, events[p]) /\ AtMost(x.base, base[p])
            /\ x.base = base[p] \/ AtMost(x.events, base[p])
        BY <2>2, <2>4 DEF Later
      <3>2. x.events \in Counts /\ x.base \in Counts
        BY <2>2 DEF ProcessOK
      <3> HIDE DEF x
      <3>3. \A z \in 0..Sizes : /\ x.events[z] \in Nat /\ x.base[z] \in Nat
                                /\ events[p][z] \in Nat /\ base[p][z] \in Nat
                                /\ events'[p][z] \in Nat
        BY <1>1, <1>2, <3>2 DEF Counts
      <3>4. AtMost(x.events, events'[p])
        BY <1>2, <3>1, <3>3 DEF AtMost
      <3>5. CASE base'[p] = base[p]
        BY <2>1, <2>4, <3>1, <3>4, <3>5 DEF Later, x
      <3>6. CASE base'[p] = events[p]
        <4>1. AtMost(x.base, events[p])
          BY <1>1, <3>1, <3>3 DEF AtMost
        <4> QED BY <2>1, <2>4, <3>1, <3>4, <3>6, <4>1 DEF Later, x
      <3> QED BY <1>2, <3>5, <3>6
    <2> QED BY <2>3, <2>4
  <1> QED BY <1>2, <1>3, <1>4 DEF HistoryOK

\* The process that is scraped.
LEMMA ScrapeHistory ==
  ASSUME IInv, HistoryOK, NEW p \in Targets, NEW t \in 1..MaxTime, NEW n \in 1..2,
         Scrape(p, t, n)
  PROVE  HistoryOK' /\ \A q \in Targets : Extends(q)
  <1>0. t \in Nat \ {0}
    BY BuilderAssumption DEF BuilderAssumption
  <1>a. PICK k \in Nat \ {0}, m \in Nat : Adds(p, t, n, k, m)
    BY ScrapeAdds
  <1>1. /\ DOMAIN scrapes[p] = 1..m
        /\ \A q \in Targets \ {p} : scrapes'[q] = scrapes[q]
        /\ DOMAIN scrapes'[p] = 1..(m + n)
        /\ \A i \in 1..m : scrapes'[p][i] = scrapes[p][i] /\ scrapes[p][i].time < t
        /\ \A d \in 0..(n - 1) : scrapes'[p][m + 1 + d] = Shot(p, t + d)
    BY <1>a DEF Adds
  <1>2. events' = events /\ base' = base
    BY DEF Scrape, inputVars
  <1>3. ASSUME NEW j \in 1..(m + n)
        PROVE  \/ j \in 1..m
               \/ /\ j \in (m + 1)..(m + n) /\ j - m - 1 \in 0..(n - 1)
                  /\ scrapes'[p][j] = Shot(p, t + (j - m - 1))
    <2>1. j \in 1..m \/ (j \in (m + 1)..(m + n) /\ j - m - 1 \in 0..(n - 1) /\ m + 1 + (j - m - 1) = j)
      OBVIOUS
    <2> QED BY <1>1, <2>1
  <1>4. ProcessOK(Now(p)) /\ Now(p).events = events[p] /\ Now(p).base = base[p]
    BY DEF HistoryOK, Now
  <1>5. \A u : ProcessOK(Shot(p, u)) /\ Later(Shot(p, u), Now(p)) /\ \A v : Later(Shot(p, u), Shot(p, v))
    <2> SUFFICES ASSUME NEW u, NEW v
                 PROVE  ProcessOK(Shot(p, u)) /\ Later(Shot(p, u), Now(p)) /\ Later(Shot(p, u), Shot(p, v))
      OBVIOUS
    <2>1. \A z \in 0..Sizes : events[p][z] \in Nat /\ base[p][z] \in Nat
      BY <1>4 DEF ProcessOK, Counts
    <2>2. AtMost(events[p], events[p]) /\ AtMost(base[p], base[p])
      BY <2>1 DEF AtMost
    <2>3. ProcessOK(Shot(p, u))
      BY <1>4, ShotIs DEF ProcessOK
    <2>4. Later(Shot(p, u), Now(p)) /\ Later(Shot(p, u), Shot(p, v))
      BY <1>4, <2>2, ShotIs DEF Later
    <2> QED BY <2>3, <2>4
  <1>6. \A q : Now(q)' = Now(q)
    BY <1>2 DEF Now
  <1>7. ASSUME NEW q \in Targets, NEW i \in DOMAIN scrapes'[q]
        PROVE  /\ scrapes'[q][i].time \in Nat \ {0}
               /\ ProcessOK(scrapes'[q][i]) /\ Later(scrapes'[q][i], Now(q)')
    <2>1. CASE q # p \/ i \in 1..m
      <3>1. i \in DOMAIN scrapes[q] /\ scrapes'[q][i] = scrapes[q][i]
        BY <1>1, <1>7, <2>1
      <3> QED BY <1>6, <3>1 DEF HistoryOK
    <2>2. CASE q = p /\ ~(i \in 1..m)
      <3>1. i - m - 1 \in 0..(n - 1) /\ scrapes'[p][i] = Shot(p, t + (i - m - 1))
        BY <1>1, <1>3, <1>7, <2>2
      <3>2. t + (i - m - 1) \in Nat \ {0}
        BY <1>0, <3>1
      <3> QED BY <1>5, <1>6, <2>2, <3>1, <3>2, ShotIs
    <2> QED BY <2>1, <2>2
  <1>8. ASSUME NEW q \in Targets, NEW i \in DOMAIN scrapes'[q], NEW j \in DOMAIN scrapes'[q], i < j
        PROVE  scrapes'[q][i].time < scrapes'[q][j].time /\ Later(scrapes'[q][i], scrapes'[q][j])
    <2>1. CASE q # p \/ j \in 1..m
      <3>1. /\ i \in DOMAIN scrapes[q] /\ scrapes'[q][i] = scrapes[q][i]
            /\ j \in DOMAIN scrapes[q] /\ scrapes'[q][j] = scrapes[q][j]
        <4>1. CASE q # p
          BY <1>1, <1>8, <4>1
        <4>2. CASE q = p /\ j \in 1..m
          <5>1. i \in 1..m
            BY <1>1, <1>8, <4>2
          <5> QED BY <1>1, <4>2, <5>1
        <4> QED BY <2>1, <4>1, <4>2
      <3> QED BY <1>8, <3>1 DEF HistoryOK
    <2>2. CASE q = p /\ ~(j \in 1..m)
      <3>1. j - m - 1 \in 0..(n - 1) /\ scrapes'[p][j] = Shot(p, t + (j - m - 1))
        BY <1>1, <1>3, <1>8, <2>2
      <3>2. CASE i \in 1..m
        <4>1. /\ scrapes'[p][i] = scrapes[p][i] /\ scrapes[p][i].time < t
              /\ scrapes[p][i].time \in Nat /\ Later(scrapes[p][i], Now(p))
          BY <1>1, <3>2 DEF HistoryOK
        <4>2. scrapes[p][i].time < t + (j - m - 1)
          BY <1>0, <3>1, <4>1
        <4>3. Later(scrapes[p][i], Shot(p, t + (j - m - 1)))
          BY <1>4, <4>1, LaterThan, ShotIs
        <4> QED BY <2>2, <3>1, <4>1, <4>2, <4>3, ShotIs
      <3>3. CASE ~(i \in 1..m)
        <4>1. i - m - 1 \in 0..(n - 1) /\ scrapes'[p][i] = Shot(p, t + (i - m - 1))
          BY <1>1, <1>3, <1>8, <2>2, <3>3
        <4>2. t + (i - m - 1) < t + (j - m - 1)
          BY <1>0, <1>1, <1>8, <2>2
        <4> QED BY <1>5, <2>2, <3>1, <4>1, <4>2, ShotIs
      <3> QED BY <3>2, <3>3
    <2> QED BY <2>1, <2>2
  <1>9. HistoryOK'
    BY <1>2, <1>6, <1>7, <1>8 DEF HistoryOK
  <1>10. ASSUME NEW q \in Targets PROVE Extends(q)
    <2>1. CASE q # p
      BY <1>1, <2>1 DEF Extends
    <2>2. CASE q = p
      <3>1. \A i \in DOMAIN scrapes[p] : i \in DOMAIN scrapes'[p] /\ scrapes'[p][i] = scrapes[p][i]
        BY <1>1
      <3>2. ASSUME NEW j \in DOMAIN scrapes'[p] \ DOMAIN scrapes[p]
            PROVE  /\ scrapes'[p][j].time \in Nat /\ j \in Nat
                   /\ \A i \in DOMAIN scrapes[p] : i < j /\ scrapes[p][i].time < scrapes'[p][j].time
        <4>1. j \in Nat /\ \A i \in DOMAIN scrapes[p] : i < j
          BY <1>1, <3>2
        <4>2. \A i \in DOMAIN scrapes[p] : scrapes[p][i].time < scrapes'[p][j].time
          BY <1>8, <3>1, <4>1
        <4> QED BY <1>7, <4>1, <4>2
      <3> QED BY <2>2, <3>1, <3>2 DEF Extends
    <2> QED BY <2>1, <2>2
  <1> QED BY <1>9, <1>10

\* The history is only added to.
LEMMA HistoryStep ==
  ASSUME IInv, HistoryOK, [Next]_vars
  PROVE  HistoryOK' /\ \A q \in Targets : Extends(q)
  <1>1. ASSUME NEW p \in Targets, NEW t \in 1..MaxTime, NEW n \in 1..2, Scrape(p, t, n)
        PROVE  HistoryOK' /\ \A q \in Targets : Extends(q)
    BY <1>1, ScrapeHistory
  <1>2. ASSUME scrapes' = scrapes PROVE \A q \in Targets : Extends(q)
    BY <1>2 DEF Extends
  <1>3. ASSUME NEW p \in Targets, Restart(p) \/ \E z \in 1..Sizes : Observe(p, z)
        PROVE  HistoryOK' /\ \A q \in Targets : Extends(q)
    <2>1. scrapes' = scrapes
      BY <1>3 DEF Restart, Observe
    <2> QED BY <1>2, <1>3, <2>1, ProcessSteps
  <1>4. ASSUME scrapes' = scrapes, events' = events, base' = base
        PROVE  HistoryOK' /\ \A q \in Targets : Extends(q)
    BY <1>2, <1>4 DEF HistoryOK, Now
  <1>5. ASSUME NEW answer \in Answers, BuildNext(answer)
        PROVE  scrapes' = scrapes /\ events' = events /\ base' = base
    BY <1>5 DEF BuildNext, NextFails, NextUnknown, NextUnexported, NextGauge, NextCounter,
                NextHistogram, inputVars
  <1>6. ASSUME ReaderStep \/ Idle \/ UNCHANGED vars
        PROVE  scrapes' = scrapes /\ events' = events /\ base' = base
    BY <1>5, <1>6 DEF ReaderStep, Idle, vars, inputVars
  <1>7. ASSUME NEW r \in Refs,
               \/ GarbageCollect(r) \/ RefreshIsDue(r)
               \/ \E lookup \in {"populated", "waiting"} : SetSeries(r, lookup)
        PROVE  scrapes' = scrapes /\ events' = events /\ base' = base
    BY <1>7 DEF GarbageCollect, RefreshIsDue, SetSeries, Replace, inputVars
  <1> QED BY <1>1, <1>3, <1>4, <1>6, <1>7 DEF Next

-----------------------------------------------------------------------------
(* What a call of next does. *)

\* The samples from the m-th on are left.
Rest(m) ==
    /\ m \in 1..(Len(samples) + 1) /\ DOMAIN samples' = 1..(Len(samples) + 1 - m)
    /\ \A i \in DOMAIN samples' : i + m - 1 \in DOMAIN samples
                                /\ samples'[i] = samples[i + m - 1]

\* getResetAdjusted is not called for r, or is called for the k-th sample.
ValueKept(r) ==
    /\ entry'[r].hasReset = entry[r].hasReset
    /\ entry'[r].resetTimestamp = entry[r].resetTimestamp
    /\ entry'[r].resetValue = entry[r].resetValue

Adjusts(r, k) ==
    /\ samples[k].ref = r /\ samples[k].time = First.time
    /\ entry'[r].hasReset /\ entry'[r].lookup = "populated"
    /\ ~entry[r].hasReset =>
         entry'[r].resetTimestamp = First.time /\ entry'[r].resetValue = samples[k].value
    /\ entry[r].hasReset /\ samples[k].value < entry[r].resetValue =>
         entry'[r].resetTimestamp = First.time - 1 /\ entry'[r].resetValue = 0
    /\ entry[r].hasReset /\ ~(samples[k].value < entry[r].resetValue) =>
         /\ entry'[r].resetTimestamp = entry[r].resetTimestamp
         /\ entry'[r].resetValue = entry[r].resetValue

\* The tracker of r is left alone, or that of the first sample is called.
TrackerKept(r) ==
    /\ fed'[r] = fed[r] /\ entry'[r].lastTimestamp = entry[r].lastTimestamp
    /\ entry'[r].lastValue = entry[r].lastValue

TrackerCalled ==
    LET r == First.ref
    IN /\ fed'[r] = Feed(fed[r], entry[r], First.time, First.value)
       /\ IF First.time < entry[r].lastTimestamp
          THEN /\ entry'[r].lastTimestamp = entry[r].lastTimestamp
               /\ entry'[r].lastValue = entry[r].lastValue
          ELSE entry'[r].lastTimestamp = First.time /\ entry'[r].lastValue = First.value

Calls(m) ==
    /\ layout' = layout /\ scrapes' = scrapes /\ steady' = steady /\ Rest(m)
    /\ fed' = [r \in Refs |-> fed'[r]]
    /\ \A r \in Refs :
         /\ entry[r].lookup = "populated" => entry'[r].lookup = "populated"
         /\ ValueKept(r) \/ \E k \in DOMAIN samples : Adjusts(r, k)
         /\ TrackerKept(r) \/ (r = First.ref /\ TrackerCalled)
    /\ \A k \in 1..(m - 1) :
         /\ Reported(samples[k].ref) =>
              entry'[samples[k].ref].lookup # "populated" \/ Adjusts(samples[k].ref, k)
         /\ entry[samples[k].ref].lookup = "populated" /\ FedByNext(samples[k].ref)
              => k = 1 /\ TrackerCalled

\* What is left, by the number of samples used up.
LEMMA RestIs ==
  ASSUME TypeOK, NEW m \in 1..(Len(samples) + 1), samples' = SubSeq(samples, m, Len(samples))
  PROVE  Rest(m)
  BY RestIsSeq DEF TypeOK, Rest

\* The tracker's part of an action.
LEMMA FeedTrackerIs ==
  ASSUME TypeOK, RecordOK, samples # <<>>, fed = [r \in Refs |-> fed[r]], FeedTracker
  PROVE  /\ fed' = [r \in Refs |-> fed'[r]]
         /\ \A r \in Refs \ {First.ref} : fed'[r] = fed[r]
         /\ fed'[First.ref] = IF FirstSeries.tracked
              THEN Feed(fed[First.ref], entry[First.ref], First.time, First.value)
              ELSE fed[First.ref]
  <1>1. First.ref \in Refs
    BY FirstOK
  <1>2. PICK g : g = Feed(fed[First.ref], entry[First.ref], First.time, First.value)
    OBVIOUS
  <1>3. fed' = IF FirstSeries.tracked THEN [fed EXCEPT ![First.ref] = g] ELSE fed
    BY <1>2 DEF FeedTracker
  <1> QED BY <1>1, <1>2, <1>3

\* An action of next that uses up the first sample and changes no other entry.
LEMMA FirstCalls ==
  ASSUME TypeOK, RecordOK, samples # <<>>, fed = [r \in Refs |-> fed[r]],
         layout' = layout, scrapes' = scrapes, steady' = steady, samples' = Tail(samples),
         NEW f, IsEntry(f), entry' = [entry EXCEPT ![First.ref] = f],
         entry[First.ref].lookup = "populated" => f.lookup = "populated",
         \/ /\ f.hasReset = entry[First.ref].hasReset
            /\ f.resetTimestamp = entry[First.ref].resetTimestamp
            /\ f.resetValue = entry[First.ref].resetValue
         \/ Adjusts(First.ref, 1),
         Reported(First.ref) => f.lookup # "populated" \/ Adjusts(First.ref, 1),
         fed' = [r \in Refs |-> fed'[r]], \A r \in Refs \ {First.ref} : fed'[r] = fed[r],
         TrackerKept(First.ref) \/ TrackerCalled,
         entry[First.ref].lookup = "populated" /\ FirstSeries.tracked => TrackerCalled
  PROVE  Calls(2)
  <1>1. /\ First.ref \in Refs /\ First = samples[1] /\ 1 \in DOMAIN samples
        /\ FirstSeries = SeriesOf(First.ref)
    BY FirstOK DEF FirstSeries
  <1>2. Rest(2)
    BY TailIsRest, RestIs DEF TypeOK
  <1>3. entry'[First.ref] = f /\ \A q \in Refs \ {First.ref} : entry'[q] = entry[q]
    BY <1>1, EntryReplaced
  <1>4. ASSUME NEW r \in Refs
        PROVE  /\ entry[r].lookup = "populated" => entry'[r].lookup = "populated"
               /\ ValueKept(r) \/ \E k \in DOMAIN samples : Adjusts(r, k)
               /\ TrackerKept(r) \/ (r = First.ref /\ TrackerCalled)
    <2>1. CASE r = First.ref
      <3>1. ValueKept(r) \/ Adjusts(r, 1)
        BY <1>3, <2>1 DEF ValueKept
      <3> QED BY <1>1, <1>3, <2>1, <3>1
    <2>2. CASE r # First.ref
      BY <1>3, <2>2 DEF ValueKept, TrackerKept
    <2> QED BY <2>1, <2>2
  <1>5. ASSUME NEW k \in 1..(2 - 1)
        PROVE  /\ Reported(samples[k].ref) =>
                    entry'[samples[k].ref].lookup # "populated" \/ Adjusts(samples[k].ref, k)
               /\ entry[samples[k].ref].lookup = "populated" /\ FedByNext(samples[k].ref)
                    => k = 1 /\ TrackerCalled
    <2>1. k = 1 /\ samples[k].ref = First.ref
      BY <1>1
    <2> QED BY <1>1, <1>3, <2>1 DEF FedByNext
  <1> QED BY <1>2, <1>4, <1>5 DEF Calls

\* The tracker's fields, as next leaves them.
LEMMA TrackedCalls ==
  ASSUME TypeOK, RecordOK, samples # <<>>, fed = [r \in Refs |-> fed[r]], FeedTracker,
         NEW answer, entry'[First.ref].lastTimestamp = Tracked(answer).lastTimestamp,
         entry'[First.ref].lastValue = Tracked(answer).lastValue
  PROVE  /\ TrackerKept(First.ref) \/ TrackerCalled
         /\ FirstSeries.tracked => TrackerCalled
  <1>1. IsEntry(entry[First.ref])
    BY FirstOK
  <1>2. /\ IF FirstSeries.tracked /\ ~(First.time < entry[First.ref].lastTimestamp)
           THEN entry'[First.ref].lastTimestamp = First.time /\ entry'[First.ref].lastValue = First.value
           ELSE /\ entry'[First.ref].lastTimestamp = entry[First.ref].lastTimestamp
                /\ entry'[First.ref].lastValue = entry[First.ref].lastValue
        /\ fed'[First.ref] = IF FirstSeries.tracked
              THEN Feed(fed[First.ref], entry[First.ref], First.time, First.value)
              ELSE fed[First.ref]
    BY <1>1, TrackedFields, FeedTrackerIs
  <1> QED BY <1>2 DEF TrackerKept, TrackerCalled

\* next for a sample that is no histogram's.
LEMMA PlainCalls ==
  ASSUME TypeOK, RecordOK, samples # <<>>, fed = [r \in Refs |-> fed[r]], NEW answer,
         NextUnknown(answer) \/ NextUnexported(answer) \/ NextGauge(answer) \/ NextCounter(answer)
  PROVE  Calls(2)
  <1>1. /\ First.ref \in Refs /\ First = samples[1] /\ 1 \in DOMAIN samples
        /\ FirstSeries = SeriesOf(First.ref) /\ IsEntry(entry[First.ref]) /\ First.time \in Int
    BY FirstOK DEF FirstSeries
  <1>2. layout' = layout /\ scrapes' = scrapes /\ steady' = steady /\ samples' = Tail(samples)
    BY DEF NextUnknown, NextUnexported, NextGauge, NextCounter, inputVars
  <1>3. entry[First.ref].lookup = "populated" => Looked(answer, First.ref) = "populated"
    BY DEF Looked
  <1>4. CASE NextUnknown(answer)
    <2> DEFINE f == [entry[First.ref] EXCEPT !.lookup = Looked(answer, First.ref)]
    <2>1. /\ entry' = [entry EXCEPT ![First.ref] = f] /\ fed' = fed
          /\ Looked(answer, First.ref) # "populated"
      BY <1>4 DEF NextUnknown
    <2>2. /\ IsEntry(f) /\ f.lookup = Looked(answer, First.ref)
          /\ f.hasReset = entry[First.ref].hasReset
          /\ f.resetTimestamp = entry[First.ref].resetTimestamp
          /\ f.resetValue = entry[First.ref].resetValue
          /\ f.lastTimestamp = entry[First.ref].lastTimestamp
          /\ f.lastValue = entry[First.ref].lastValue
      BY <1>1, LookupFields
    <2> HIDE DEF f
    <2>3. entry'[First.ref] = f
      BY <1>1, <2>1, <2>2, EntryReplaced
    <2>4. TrackerKept(First.ref)
      BY <2>1, <2>2, <2>3 DEF TrackerKept
    <2> QED BY <1>2, <1>3, <2>1, <2>2, <2>4, FirstCalls
  <1>5. CASE NextUnexported(answer) \/ NextGauge(answer)
    <2> DEFINE f == Tracked(answer)
    <2>1. /\ entry' = [entry EXCEPT ![First.ref] = f] /\ FeedTracker
          /\ ~Reported(First.ref)
      BY <1>1, <1>5 DEF NextUnexported, NextGauge, Reported
    <2>2. /\ IsEntry(f) /\ f.lookup = Looked(answer, First.ref)
          /\ f.hasReset = entry[First.ref].hasReset
          /\ f.resetTimestamp = entry[First.ref].resetTimestamp
          /\ f.resetValue = entry[First.ref].resetValue
      BY <1>1, TrackedFields
    <2>3. entry'[First.ref] = f
      BY <1>1, <2>1, <2>2, EntryReplaced
    <2>4. /\ TrackerKept(First.ref) \/ TrackerCalled
          /\ FirstSeries.tracked => TrackerCalled
      BY <2>1, <2>3, TrackedCalls
    <2>5. /\ fed' = [r \in Refs |-> fed'[r]]
          /\ \A r \in Refs \ {First.ref} : fed'[r] = fed[r]
      BY <2>1, FeedTrackerIs
    <2> HIDE DEF f
    <2> QED BY <1>2, <1>3, <2>1, <2>2, <2>4, <2>5, FirstCalls
  <1>6. CASE NextCounter(answer)
    <2> DEFINE e == Tracked(answer)
               f == ResetAdjusted(e, First.time, First.value)
    <2>1. /\ entry' = [entry EXCEPT ![First.ref] = f] /\ FeedTracker
          /\ Looked(answer, First.ref) = "populated"
      BY <1>6 DEF NextCounter
    <2>2. /\ IsEntry(e) /\ e.lookup = Looked(answer, First.ref)
          /\ e.hasReset = entry[First.ref].hasReset
          /\ e.resetTimestamp = entry[First.ref].resetTimestamp
          /\ e.resetValue = entry[First.ref].resetValue
      BY <1>1, TrackedFields
    <2>3. /\ IsEntry(f) /\ f.lookup = e.lookup /\ f.hasReset
          /\ f.lastTimestamp = e.lastTimestamp /\ f.lastValue = e.lastValue
          /\ ~e.hasReset => f.resetTimestamp = First.time /\ f.resetValue = First.value
          /\ e.hasReset /\ First.value < e.resetValue =>
               f.resetTimestamp = First.time - 1 /\ f.resetValue = 0
          /\ e.hasReset /\ ~(First.value < e.resetValue) =>
               f.resetTimestamp = e.resetTimestamp /\ f.resetValue = e.resetValue
      <3> HIDE DEF e
      <3> QED BY <1>1, <2>2, ResetFields
    <2>4. entry'[First.ref] = f
      <3> HIDE DEF f
      <3> QED BY <1>1, <2>1, <2>3, EntryReplaced
    <2>5. /\ TrackerKept(First.ref) \/ TrackerCalled
          /\ FirstSeries.tracked => TrackerCalled
      <3>1. /\ entry'[First.ref].lastTimestamp = Tracked(answer).lastTimestamp
            /\ entry'[First.ref].lastValue = Tracked(answer).lastValue
        BY <2>3, <2>4
      <3> QED BY <2>1, <3>1, TrackedCalls
    <2>6. /\ fed' = [r \in Refs |-> fed'[r]]
          /\ \A r \in Refs \ {First.ref} : fed'[r] = fed[r]
      BY <2>1, FeedTrackerIs
    <2> HIDE DEF e, f
    <2>7. Adjusts(First.ref, 1)
      BY <1>1, <2>1, <2>2, <2>3, <2>4 DEF Adjusts
    <2>8. f.lookup = "populated"
      BY <2>1, <2>2, <2>3
    <2> QED BY <1>2, <2>1, <2>3, <2>5, <2>6, <2>7, <2>8, FirstCalls
  <1> QED BY <1>4, <1>5, <1>6

\* A lookup fails.
LEMMA FailsCalls ==
  ASSUME TypeOK, RecordOK, samples # <<>>, fed = [r \in Refs |-> fed[r]], NEW answer,
         NextFails(answer)
  PROVE  Calls(1)
  <1>1. First.ref \in Refs /\ IsEntry(entry[First.ref])
    BY FirstOK
  <1> DEFINE f == [entry[First.ref] EXCEPT !.lookup = Looked(answer, First.ref)]
  <1>2. /\ entry' = [entry EXCEPT ![First.ref] = f] /\ fed' = fed
        /\ layout' = layout /\ scrapes' = scrapes /\ steady' = steady /\ samples' = samples
        /\ entry[First.ref].lookup = "due"
    BY DEF NextFails, inputVars, Fails
  <1>3. /\ IsEntry(f) /\ f.hasReset = entry[First.ref].hasReset
        /\ f.resetTimestamp = entry[First.ref].resetTimestamp
        /\ f.resetValue = entry[First.ref].resetValue
        /\ f.lastTimestamp = entry[First.ref].lastTimestamp
        /\ f.lastValue = entry[First.ref].lastValue
    BY <1>1, LookupFields
  <1> HIDE DEF f
  <1>4. entry'[First.ref] = f /\ \A q \in Refs \ {First.ref} : entry'[q] = entry[q]
    BY <1>1, <1>2, <1>3, EntryReplaced
  <1>5. samples = SubSeq(samples, 1, Len(samples)) /\ 1 \in 1..(Len(samples) + 1)
    BY SubSeqFull, SeqShape DEF TypeOK, IsSeq
  <1>6. Rest(1)
    BY <1>2, <1>5, RestIs
  <1>7. ASSUME NEW r \in Refs
        PROVE  /\ entry[r].lookup = "populated" => entry'[r].lookup = "populated"
               /\ ValueKept(r) /\ TrackerKept(r)
    BY <1>2, <1>3, <1>4 DEF ValueKept, TrackerKept
  <1>8. 1..(1 - 1) = {}
    OBVIOUS
  <1> QED BY <1>2, <1>6, <1>7, <1>8 DEF Calls

\* The local definitions of NextHistogram.
Broken(answer) ==
    StopOf(answer) <= Len(samples) /\ Fails(answer, samples[StopOf(answer)].ref)
Before(answer, r) ==
    IF r = First.ref THEN Tracked(answer) ELSE [entry[r] EXCEPT !.lookup = Looked(answer, r)]
Known(answer, K) == {k \in K : Looked(answer, samples[k].ref) = "populated"}
Run(answer) == Known(answer, 1..(StopOf(answer) - 1))
Adjusted(answer) ==
    Run(answer) \cup {k \in Known(answer, {StopOf(answer)} \cap DOMAIN samples) :
                         SameMetric(samples[k].ref) /\ samples[k].time = First.time}
After(answer, k) ==
    ResetAdjusted(Before(answer, samples[k].ref), samples[k].time, samples[k].value)
OfPart(answer, part) == {k \in Run(answer) : SeriesOf(samples[k].ref).part = part}
Skips(answer) ==
    \E k \in Run(answer) \ OfPart(answer, "badle") : ~Before(answer, samples[k].ref).hasReset
ValueOf(answer, k) == samples[k].value - After(answer, k).resetValue
Dist(answer) ==
    [b \in {SeriesOf(samples[k].ref).le : k \in OfPart(answer, "bucket")} |->
       ValueOf(answer, CHOOSE k \in OfPart(answer, "bucket") : SeriesOf(samples[k].ref).le = b)]
HistogramPoint(answer) ==
    LET c == Max(OfPart(answer, "count"))
    IN [ref |-> samples[c].ref, start |-> After(answer, c).resetTimestamp,
        end |-> First.time, value |-> ValueOf(answer, c),
        buckets |-> BucketCounts(Dist(answer)), again |-> samples[c] \in handled]

\* buildDistribution in these terms.
LEMMA HistogramIs ==
  ASSUME NEW answer, NextHistogram(answer)
  PROVE  /\ Looked(answer, First.ref) = "populated"
         /\ FirstSeries.exported /\ FirstSeries.kind = "histogram"
         /\ layout' = layout /\ scrapes' = scrapes /\ steady' = steady /\ FeedTracker
         /\ samples' = IF Broken(answer) THEN samples
                       ELSE SubSeq(samples, StopOf(answer), Len(samples))
         /\ \A r \in Refs :
              LET adj == \E k \in Adjusted(answer) : samples[k].ref = r
                  got == \E k \in 1..StopOf(answer) : k \in DOMAIN samples /\ samples[k].ref = r
              IN /\ adj => entry'[r] = After(answer, CHOOSE k \in Adjusted(answer) : samples[k].ref = r)
                 /\ ~adj /\ got => entry'[r] = Before(answer, r)
                 /\ ~adj /\ ~got => entry'[r] = entry[r]
         /\ \/ interval' = interval /\ sent' = sent
            \/ /\ ~Broken(answer) /\ ~Skips(answer) /\ OfPart(answer, "count") # {}
               /\ Produce(FirstSeries.hash, HistogramPoint(answer))
  <1>1. entry' = [r \in Refs |->
          IF \E k \in Adjusted(answer) : samples[k].ref = r
          THEN After(answer, CHOOSE k \in Adjusted(answer) : samples[k].ref = r)
          ELSE IF \E k \in 1..StopOf(answer) : k \in DOMAIN samples /\ samples[k].ref = r
          THEN Before(answer, r) ELSE entry[r]]
    BY DEF NextHistogram, StopOf, Before, Known, Run, Adjusted, After
  <1>2. ASSUME NEW r \in Refs
        PROVE  LET adj == \E k \in Adjusted(answer) : samples[k].ref = r
                   got == \E k \in 1..StopOf(answer) : k \in DOMAIN samples /\ samples[k].ref = r
               IN /\ adj => entry'[r] = After(answer, CHOOSE k \in Adjusted(answer) : samples[k].ref = r)
                  /\ ~adj /\ got => entry'[r] = Before(answer, r)
                  /\ ~adj /\ ~got => entry'[r] = entry[r]
    BY <1>1
  <1>3. /\ Looked(answer, First.ref) = "populated"
        /\ FirstSeries.exported /\ FirstSeries.kind = "histogram"
        /\ layout' = layout /\ scrapes' = scrapes /\ steady' = steady /\ FeedTracker
        /\ samples' = IF Broken(answer) THEN samples
                      ELSE SubSeq(samples, StopOf(answer), Len(samples))
        /\ \/ interval' = interval /\ sent' = sent
           \/ /\ ~Broken(answer) /\ ~Skips(answer) /\ OfPart(answer, "count") # {}
              /\ Produce(FirstSeries.hash, HistogramPoint(answer))
    BY DEF NextHistogram, inputVars, StopOf, Broken, Before, Known, Run, Adjusted, After,
           OfPart, Skips, ValueOf, Dist, HistogramPoint
  <1> QED BY <1>2, <1>3

\* What the loop does to an entry.
LEMMA BeforeFields ==
  ASSUME TypeOK, NEW answer, NEW r \in Refs
  PROVE  LET e == entry[r]
             f == Before(answer, r)
         IN /\ IsEntry(f) /\ f.lookup = Looked(answer, r)
            /\ f.hasReset = e.hasReset /\ f.resetTimestamp = e.resetTimestamp
            /\ f.resetValue = e.resetValue
            /\ r # First.ref => f.lastTimestamp = e.lastTimestamp /\ f.lastValue = e.lastValue
            /\ r = First.ref => f = Tracked(answer)
  <1>1. IsEntry(entry[r])
    BY DEF TypeOK
  <1>2. CASE r = First.ref
    BY <1>1, <1>2, TrackedFields DEF Before
  <1>3. CASE r # First.ref
    BY <1>1, <1>3, LookupFields DEF Before
  <1> QED BY <1>2, <1>3

\* The samples that the loop adjusts: those before the one that ends it, and that
\* one at most.
LEMMA AdjustedIs ==
  ASSUME TypeOK, RecordOK, samples # <<>>, NEW answer
  PROVE  /\ \A k \in Adjusted(answer) :
              /\ k \in DOMAIN samples /\ samples[k].time = First.time
              /\ samples[k].ref \in Refs /\ Looked(answer, samples[k].ref) = "populated"
              /\ SameMetric(samples[k].ref)
         /\ \A k \in Run(answer) :
              /\ k \in Adjusted(answer) /\ k \in 1..(StopOf(answer) - 1)
              /\ SeriesOf(samples[k].ref).part \in Parts
         /\ \A k, l \in Adjusted(answer) : samples[k].ref = samples[l].ref => k = l
         /\ \A k \in 1..(StopOf(answer) - 1) :
              k \in DOMAIN samples /\ (Looked(answer, samples[k].ref) = "populated" => k \in Run(answer))
  <1>1. /\ StopOf(answer) \in 1..(Len(samples) + 1) /\ Len(samples) \in Nat
        /\ DOMAIN samples = 1..Len(samples)
        /\ \A k \in 1..(StopOf(answer) - 1) : k \in DOMAIN samples /\ ~Ends(answer, k)
    BY StopIs, SeqShape DEF TypeOK
  <1>2. ASSUME NEW k \in Run(answer)
        PROVE  /\ k \in DOMAIN samples /\ samples[k].time = First.time /\ SameMetric(samples[k].ref)
               /\ Looked(answer, samples[k].ref) = "populated"
               /\ k \in 1..(StopOf(answer) - 1) /\ SeriesOf(samples[k].ref).part \in Parts
    <2>1. k \in 1..(StopOf(answer) - 1) /\ Looked(answer, samples[k].ref) = "populated"
      BY DEF Run, Known
    <2>2. k \in DOMAIN samples /\ ~Ends(answer, k)
      BY <1>1, <2>1
    <2>3. SeriesOf(samples[k].ref) \in Series
      BY <2>2, SeriesType DEF TypeOK, RecordOK
    <2>4. /\ SameMetric(samples[k].ref) /\ samples[k].time = First.time
          /\ SeriesOf(samples[k].ref).part \notin {"other", "none"}
      BY <2>1, <2>2 DEF Ends
    <2> QED BY <2>1, <2>2, <2>3, <2>4 DEF Series, Parts
  <1>3. ASSUME NEW k \in Adjusted(answer)
        PROVE  /\ k \in DOMAIN samples /\ samples[k].time = First.time
               /\ samples[k].ref \in Refs /\ Looked(answer, samples[k].ref) = "populated"
               /\ SameMetric(samples[k].ref)
    BY <1>2 DEF Adjusted, Known, RecordOK
  <1>4. ASSUME NEW k \in Adjusted(answer), NEW l \in Adjusted(answer),
               samples[k].ref = samples[l].ref
        PROVE  k = l
    <2>1. k \in DOMAIN samples /\ l \in DOMAIN samples /\ samples[k].time = samples[l].time
          /\ samples[k].time \in Nat
      BY <1>3 DEF RecordOK
    <2>2. k < l \/ l < k \/ k = l
      BY <1>1, <2>1
    <2> QED BY <1>4, <2>1, <2>2 DEF RecordOK
  <1>5. \A k \in 1..(StopOf(answer) - 1) :
          k \in DOMAIN samples /\ (Looked(answer, samples[k].ref) = "populated" => k \in Run(answer))
    BY <1>1 DEF Run, Known
  <1> QED BY <1>2, <1>3, <1>4, <1>5 DEF Adjusted

\* The entry of an adjusted sample.
LEMMA AfterAdjusts ==
  ASSUME TypeOK, RecordOK, samples # <<>>, NEW answer, NextHistogram(answer),
         NEW k \in Adjusted(answer)
  PROVE  /\ entry'[samples[k].ref] = After(answer, k) /\ Adjusts(samples[k].ref, k)
         /\ entry'[samples[k].ref].lastTimestamp = Before(answer, samples[k].ref).lastTimestamp
         /\ entry'[samples[k].ref].lastValue = Before(answer, samples[k].ref).lastValue
  <1> DEFINE r == samples[k].ref
             e == Before(answer, r)
             f == After(answer, k)
  <1>1. /\ k \in DOMAIN samples /\ samples[k].time = First.time
        /\ r \in Refs /\ Looked(answer, r) = "populated" /\ First.time \in Int
    BY AdjustedIs, FirstOK
  <1>2. /\ IsEntry(e) /\ e.lookup = Looked(answer, r)
        /\ e.hasReset = entry[r].hasReset /\ e.resetTimestamp = entry[r].resetTimestamp
        /\ e.resetValue = entry[r].resetValue
    BY <1>1, BeforeFields
  <1>3. entry'[r] = f
    <2>1. PICK l : l = CHOOSE j \in Adjusted(answer) : samples[j].ref = r
      OBVIOUS
    <2>2. l \in Adjusted(answer) /\ samples[l].ref = r
      BY <2>1
    <2>3. l = k
      BY <2>2, AdjustedIs
    <2>4. entry'[r] = After(answer, CHOOSE m \in Adjusted(answer) : samples[m].ref = r)
      BY <1>1, HistogramIs
    <2> QED BY <2>1, <2>3, <2>4
  <1>4. f = ResetAdjusted(e, First.time, samples[k].value)
    BY <1>1 DEF After
  <1> HIDE DEF e, f
  <1>5. /\ f.lookup = e.lookup /\ f.hasReset
        /\ f.lastTimestamp = e.lastTimestamp /\ f.lastValue = e.lastValue
        /\ ~e.hasReset => f.resetTimestamp = First.time /\ f.resetValue = samples[k].value
        /\ e.hasReset /\ samples[k].value < e.resetValue =>
             f.resetTimestamp = First.time - 1 /\ f.resetValue = 0
        /\ e.hasReset /\ ~(samples[k].value < e.resetValue) =>
             f.resetTimestamp = e.resetTimestamp /\ f.resetValue = e.resetValue
    BY <1>1, <1>2, <1>4, ResetFields
  <1>6. Adjusts(r, k)
    BY <1>1, <1>2, <1>3, <1>5 DEF Adjusts
  <1> QED BY <1>3, <1>5, <1>6 DEF e, f

\* The other entries.
LEMMA OtherEntries ==
  ASSUME TypeOK, RecordOK, samples # <<>>, NEW answer, NextHistogram(answer),
         NEW r \in Refs, ~\E k \in Adjusted(answer) : samples[k].ref = r
  PROVE  /\ entry'[r] = Before(answer, r) \/ (r # First.ref /\ entry'[r] = entry[r])
         /\ entry[r].lookup = "populated" => entry'[r].lookup = "populated"
         /\ ValueKept(r)
         /\ \A k \in 1..(StopOf(answer) - 1) : samples[k].ref = r => entry'[r].lookup # "populated"
  <1>1. \/ entry'[r] = Before(answer, r)
        \/ entry'[r] = entry[r] /\ ~\E k \in 1..StopOf(answer) : k \in DOMAIN samples /\ samples[k].ref = r
    BY HistogramIs
  <1>2. /\ Before(answer, r).lookup = Looked(answer, r)
        /\ Before(answer, r).hasReset = entry[r].hasReset
        /\ Before(answer, r).resetTimestamp = entry[r].resetTimestamp
        /\ Before(answer, r).resetValue = entry[r].resetValue
    BY BeforeFields
  <1>3. entry[r].lookup = "populated" => Looked(answer, r) = "populated"
    BY DEF Looked
  <1>4. StopOf(answer) \in Nat /\ 1 \in 1..StopOf(answer) /\ 1 \in DOMAIN samples /\ First = samples[1]
    BY StopIs, FirstOK, SeqShape DEF TypeOK
  <1>5. ASSUME NEW k \in 1..(StopOf(answer) - 1), samples[k].ref = r
        PROVE  entry'[r].lookup # "populated"
    <2>1. Looked(answer, r) # "populated" /\ k \in DOMAIN samples
      BY <1>5, AdjustedIs
    <2>2. k \in 1..StopOf(answer)
      BY <1>4
    <2> QED BY <1>1, <1>2, <1>5, <2>1, <2>2
  <1>6. r = First.ref => entry'[r] = Before(answer, r)
    BY <1>1, <1>4
  <1> QED BY <1>1, <1>2, <1>3, <1>5, <1>6 DEF ValueKept

\* A histogram.
LEMMA HistogramCalls ==
  ASSUME TypeOK, RecordOK, SamplesOK, samples # <<>>, fed = [r \in Refs |-> fed[r]], NEW answer,
         NextHistogram(answer)
  PROVE  Calls(IF Broken(answer) THEN 1 ELSE StopOf(answer))
  <1> DEFINE m == IF Broken(answer) THEN 1 ELSE StopOf(answer)
  <1>1. /\ StopOf(answer) \in 1..(Len(samples) + 1) /\ Len(samples) \in Nat
        /\ DOMAIN samples = 1..Len(samples)
    BY StopIs, SeqShape DEF TypeOK
  <1>2. samples = SubSeq(samples, 1, Len(samples)) /\ 1 \in 1..(Len(samples) + 1)
    BY SubSeqFull, SeqShape DEF TypeOK, IsSeq
  <1>3. m \in 1..(Len(samples) + 1) /\ samples' = SubSeq(samples, m, Len(samples))
    BY <1>1, <1>2, HistogramIs
  <1>4. \A k \in 1..(m - 1) : k \in 1..(StopOf(answer) - 1)
    BY <1>1
  <1> HIDE DEF m
  <1>5. Rest(m)
    BY <1>3, RestIs
  <1>6. /\ First.ref \in Refs /\ First = samples[1] /\ 1 \in DOMAIN samples
        /\ FirstSeries = SeriesOf(First.ref)
    BY FirstOK DEF FirstSeries
  <1>7. /\ fed' = [r \in Refs |-> fed'[r]]
        /\ \A r \in Refs \ {First.ref} : fed'[r] = fed[r]
    BY HistogramIs, FeedTrackerIs
  <1>8. ASSUME NEW r \in Refs
        PROVE  /\ \/ /\ entry'[r].lastTimestamp = Before(answer, r).lastTimestamp
                     /\ entry'[r].lastValue = Before(answer, r).lastValue
                  \/ r # First.ref /\ entry'[r] = entry[r]
               /\ entry[r].lookup = "populated" => entry'[r].lookup = "populated"
               /\ ValueKept(r) \/ \E k \in DOMAIN samples : Adjusts(r, k)
    <2>1. CASE \E k \in Adjusted(answer) : samples[k].ref = r
      <3>1. PICK k \in Adjusted(answer) : samples[k].ref = r
        BY <2>1
      <3>2. /\ entry'[r].lastTimestamp = Before(answer, r).lastTimestamp
            /\ entry'[r].lastValue = Before(answer, r).lastValue
            /\ Adjusts(r, k) /\ k \in DOMAIN samples
        BY <3>1, AfterAdjusts, AdjustedIs
      <3> QED BY <3>2 DEF Adjusts
    <2>2. CASE ~\E k \in Adjusted(answer) : samples[k].ref = r
      BY <2>2, OtherEntries
    <2> QED BY <2>1, <2>2
  <1>9. /\ TrackerKept(First.ref) \/ TrackerCalled
        /\ FirstSeries.tracked => TrackerCalled
    <2>1. /\ entry'[First.ref].lastTimestamp = Tracked(answer).lastTimestamp
          /\ entry'[First.ref].lastValue = Tracked(answer).lastValue
      BY <1>6, <1>8, BeforeFields
    <2> QED BY <2>1, HistogramIs, TrackedCalls
  <1>10. ASSUME NEW r \in Refs PROVE TrackerKept(r) \/ (r = First.ref /\ TrackerCalled)
    <2>1. CASE r = First.ref
      BY <1>9, <2>1
    <2>2. CASE r # First.ref
      BY <1>7, <1>8, <2>2, BeforeFields DEF TrackerKept
    <2> QED BY <2>1, <2>2
  <1>11. ASSUME NEW k \in 1..(m - 1)
         PROVE  /\ Reported(samples[k].ref) =>
                     entry'[samples[k].ref].lookup # "populated" \/ Adjusts(samples[k].ref, k)
                /\ entry[samples[k].ref].lookup = "populated" /\ FedByNext(samples[k].ref)
                     => k = 1 /\ TrackerCalled
    <2>1. k \in 1..(StopOf(answer) - 1) /\ k \in DOMAIN samples /\ samples[k].ref \in Refs
      BY <1>4, AdjustedIs DEF RecordOK
    <2>2. entry'[samples[k].ref].lookup # "populated" \/ Adjusts(samples[k].ref, k)
      <3>1. CASE \E l \in Adjusted(answer) : samples[l].ref = samples[k].ref
        <4>1. PICK l \in Adjusted(answer) : samples[l].ref = samples[k].ref
          BY <3>1
        <4>2. Looked(answer, samples[k].ref) = "populated"
          BY <4>1, AdjustedIs
        <4>3. k \in Adjusted(answer)
          BY <2>1, <4>2, AdjustedIs
        <4> QED BY <4>3, AfterAdjusts
      <3>2. CASE ~\E l \in Adjusted(answer) : samples[l].ref = samples[k].ref
        BY <2>1, <3>2, OtherEntries
      <3> QED BY <3>1, <3>2
    <2>3. ASSUME entry[samples[k].ref].lookup = "populated", FedByNext(samples[k].ref)
          PROVE  FALSE
      <3> DEFINE r == samples[k].ref
      <3>1. Looked(answer, r) = "populated"
        BY <2>3 DEF Looked
      <3>2. SameMetric(r) /\ SeriesOf(r).part \in Parts
        BY <2>1, <3>1, AdjustedIs
      <3>3. r[1] = First.ref[1] /\ First.ref[2] \in DOMAIN layout[First.ref[1]]
        BY <1>6, <2>1, SeriesType DEF SamplesOK, TypeOK
      <3>4. OfHistogram(r)
        BY <1>6, <3>2, <3>3, HistogramIs DEF OfHistogram, SameMetric, FirstSeries, SeriesOf
      <3> QED BY <2>3, <3>2, <3>4 DEF FedByNext
    <2> QED BY <2>2, <2>3
  <1>12. layout' = layout /\ scrapes' = scrapes /\ steady' = steady
    BY HistogramIs
  <1> QED BY <1>5, <1>7, <1>8, <1>10, <1>11, <1>12 DEF Calls, m

\* Every call of next.
LEMMA NextCalls ==
  ASSUME TypeOK, RecordOK, SamplesOK, samples # <<>>, fed = [r \in Refs |-> fed[r]], NEW answer,
         BuildNext(answer)
  PROVE  \E m \in Nat : Calls(m)
  <1>1. 1 \in Nat /\ 2 \in Nat
    OBVIOUS
  <1>2. (IF Broken(answer) THEN 1 ELSE StopOf(answer)) \in Nat
    BY StopIs, SeqShape DEF TypeOK
  <1> QED BY <1>1, <1>2, PlainCalls, FailsCalls, HistogramCalls DEF BuildNext

\* Nothing that the values depend on changes.
SameValues == UNCHANGED <<layout, entry, samples, scrapes, steady, fed, sent>>

\* The steps, as the values see them.
LEMMA StepKinds ==
  ASSUME TypeOK, RecordOK, SamplesOK, fed = [r \in Refs |-> fed[r]], [Next]_vars
  PROVE  \/ SameValues
         \/ \E answer \in Answers : samples # <<>> /\ BuildNext(answer) /\ \E m \in Nat : Calls(m)
         \/ \E p \in Targets, t \in 1..MaxTime, n \in 1..2 : Scrape(p, t, n)
         \/ \E r \in Refs : RefreshIsDue(r)
         \/ \E r \in Refs : \E l : Replace(r, NewEntry(l))
  <1>1. ASSUME Idle \/ UNCHANGED vars PROVE SameValues
    BY <1>1 DEF Idle, vars, inputVars, SameValues
  <1>2. ASSUME NEW p \in Targets, Restart(p) \/ \E z \in 1..Sizes : Observe(p, z)
        PROVE  SameValues
    BY <1>2 DEF Restart, Observe, SameValues
  <1>3. ASSUME ReaderStep
        PROVE  \E answer \in Answers : samples # <<>> /\ BuildNext(answer) /\ \E m \in Nat : Calls(m)
    BY <1>3, NextCalls DEF ReaderStep
  <1>4. ASSUME NEW r \in Refs,
               \/ GarbageCollect(r) \/ \E lookup \in {"populated", "waiting"} : SetSeries(r, lookup)
        PROVE  \E l : Replace(r, NewEntry(l))
    BY <1>4 DEF GarbageCollect, SetSeries
  <1> QED BY <1>1, <1>2, <1>3, <1>4 DEF Next

\* The records between two calls: a scrape logs its samples, a call of next uses
\* some up.
LEMMA SamplesStep ==
  ASSUME IInv, HistoryOK, SamplesOK, fed = [r \in Refs |-> fed[r]], [Next]_vars
  PROVE  SamplesOK'
  <1>0. TypeOK /\ RecordOK
    BY DEF IInv
  <1>1. ASSUME samples' = samples, scrapes' = scrapes, layout' = layout PROVE SamplesOK'
    BY <1>1 DEF SamplesOK, SampledAt, SeriesOf
  <1>2. ASSUME NEW m \in Nat, Calls(m) PROVE SamplesOK'
    <2>1. /\ layout' = layout /\ scrapes' = scrapes
          /\ \A i \in DOMAIN samples' : i + m - 1 \in DOMAIN samples
                                      /\ samples'[i] = samples[i + m - 1]
      BY <1>2 DEF Calls, Rest
    <2>2. ASSUME NEW i \in DOMAIN samples'
          PROVE  \E j \in DOMAIN scrapes'[samples'[i].ref[1]] : SampledAt(i, j)'
      <3>1. PICK k \in DOMAIN samples : samples'[i] = samples[k]
        BY <2>1
      <3>2. PICK j \in DOMAIN scrapes[samples[k].ref[1]] : SampledAt(k, j)
        BY DEF SamplesOK
      <3> QED BY <2>1, <3>1, <3>2 DEF SampledAt, SeriesOf
    <2>3. \A k, l \in DOMAIN samples' : samples'[k].ref[1] = samples'[l].ref[1]
      BY <2>1 DEF SamplesOK
    <2> QED BY <2>2, <2>3 DEF SamplesOK
  <1>3. ASSUME NEW p \in Targets, NEW t \in 1..MaxTime, NEW n \in 1..2, Scrape(p, t, n)
        PROVE  SamplesOK'
    <2>1. PICK k \in Nat \ {0}, m \in Nat : Adds(p, t, n, k, m)
      BY <1>3, ScrapeAdds
    <2>2. layout' = layout
      BY <1>3 DEF Scrape, inputVars
    <2>3. DOMAIN samples' = 1..(n * k) /\ DOMAIN scrapes'[p] = 1..(m + n)
      BY <2>1 DEF Adds
    <2>4. ASSUME NEW i \in DOMAIN samples'
          PROVE  /\ samples'[i].ref[1] = p
                 /\ \E j \in DOMAIN scrapes'[p] : SampledAt(i, j)'
      <3>1. PICK d \in 0..(n - 1), u \in 1..k : d = (i - 1) \div k /\ u = ((i - 1) % k) + 1
        BY <2>3, RecordOrder
      <3>2. /\ samples'[i].ref = <<p, u>> /\ samples'[i].time = t + d
            /\ samples'[i].value = Value(Shot(p, t + d), layout[p][u])
            /\ scrapes'[p][m + 1 + d] = Shot(p, t + d)
        BY <2>1, <2>3, <3>1 DEF Adds
      <3>3. m + 1 + d \in 1..(m + n)
        OBVIOUS
      <3>4. SeriesOf(samples[i].ref)' = layout[p][u]
        BY <2>2, <3>2 DEF SeriesOf
      <3>5. SampledAt(i, m + 1 + d)'
        BY <3>2, <3>4, ShotIs DEF SampledAt
      <3> QED BY <2>3, <3>2, <3>3, <3>5
    <2> QED BY <2>4 DEF SamplesOK
  <1>4. ASSUME NEW r \in Refs, RefreshIsDue(r) \/ \E l : Replace(r, NewEntry(l))
        PROVE  samples' = samples /\ scrapes' = scrapes /\ layout' = layout
    BY <1>4 DEF RefreshIsDue, Replace, inputVars
  <1> QED BY <1>0, <1>1, <1>2, <1>3, <1>4, StepKinds DEF SameValues

\* What is left of a record.
LEMMA LeftBefore ==
  ASSUME TypeOK, NEW m \in Nat, Rest(m), NEW r, NEW t
  PROVE  /\ Left(r, t)' => Left(r, t)
         /\ Left(r, t) => \/ Left(r, t)'
                          \/ \E k \in 1..(m - 1) : samples[k].ref = r /\ samples[k].time = t
  <1>1. /\ m \in 1..(Len(samples) + 1) /\ DOMAIN samples' = 1..(Len(samples) + 1 - m)
        /\ \A i \in DOMAIN samples' : i + m - 1 \in DOMAIN samples
                                    /\ samples'[i] = samples[i + m - 1]
    BY DEF Rest
  <1>2. Left(r, t)' => Left(r, t)
    BY <1>1 DEF Left
  <1>3. ASSUME NEW k \in DOMAIN samples, samples[k].ref = r, samples[k].time = t
        PROVE  Left(r, t)' \/ \E j \in 1..(m - 1) : samples[j].ref = r /\ samples[j].time = t
    <2>1. Len(samples) \in Nat /\ DOMAIN samples = 1..Len(samples)
      BY SeqShape DEF TypeOK
    <2>2. CASE k < m
      BY <1>3, <2>1, <2>2
    <2>3. CASE ~(k < m)
      <3>1. k - m + 1 \in DOMAIN samples' /\ (k - m + 1) + m - 1 = k
        BY <1>1, <2>1, <2>3
      <3>2. samples'[k - m + 1] = samples[k]
        BY <1>1, <3>1
      <3> QED BY <1>3, <3>1, <3>2 DEF Left
    <2> QED BY <2>2, <2>3
  <1> QED BY <1>2, <1>3 DEF Left

-----------------------------------------------------------------------------
(* The trackers are told the truth. *)

\* newPoint adds what happened since the last point, or less.
LEMMA FeedAdds ==
  ASSUME NEW x, NEW y, NEW z, NEW s \in Series, ProcessOK(x), ProcessOK(y), ProcessOK(z),
         Later(x, y), Later(y, z), Later(x, z), NEW total \in Int,
         total <= Seen(y.events, s) - Seen(x.events, s),
         x.base = y.base => total = Seen(y.events, s) - Seen(x.events, s)
  PROVE  LET d == IF Value(z, s) < Value(y, s) THEN Value(z, s) ELSE Value(z, s) - Value(y, s)
             seen == Seen(z.events, s) - Seen(x.events, s)
         IN /\ total + d \in Int /\ total + d <= seen
            /\ x.base = z.base => total + d = seen
  <1>1. PICK ex, bx, ey, by \in Nat :
           /\ ex = Seen(x.events, s) /\ bx = Seen(x.base, s)
           /\ ey = Seen(y.events, s) /\ by = Seen(y.base, s)
           /\ bx <= ex /\ by <= ey /\ ex <= ey /\ bx <= by
           /\ x.base = y.base => bx = by
    BY SeenOf
  <1>2. PICK e2, b2, ez, bz \in Nat :
           /\ e2 = Seen(y.events, s) /\ b2 = Seen(y.base, s)
           /\ ez = Seen(z.events, s) /\ bz = Seen(z.base, s)
           /\ b2 <= e2 /\ bz <= ez /\ e2 <= ez /\ b2 <= bz
           /\ y.base = z.base \/ e2 <= bz
           /\ y.base = z.base => b2 = bz
    BY SeenOf
  <1>3. x.base = z.base => x.base = y.base /\ y.base = z.base
    BY BaseBetween
  <1>4. Value(y, s) = ey - by /\ Value(z, s) = ez - bz /\ e2 = ey /\ b2 = by
    BY <1>1, <1>2 DEF Value
  <1>5. CASE ez - bz < ey - by
    <2>1. y.base # z.base /\ ey <= bz
      BY <1>1, <1>2, <1>4, <1>5
    <2>2. total + (ez - bz) \in Int /\ total + (ez - bz) <= ez - ex
      BY <1>1, <1>2, <2>1
    <2> QED BY <1>1, <1>2, <1>3, <1>4, <1>5, <2>1, <2>2
  <1>6. CASE ~(ez - bz < ey - by)
    <2>1. /\ total + ((ez - bz) - (ey - by)) \in Int
          /\ total + ((ez - bz) - (ey - by)) <= ez - ex
      BY <1>1, <1>2, <1>4
    <2>2. x.base = z.base => total + ((ez - bz) - (ey - by)) = ez - ex
      BY <1>1, <1>2, <1>3, <1>4
    <2> QED BY <1>1, <1>2, <1>4, <1>6, <2>1, <2>2
  <1> QED BY <1>5, <1>6

\* What is known of the tracker of r.
TrackerOK(r) ==
    /\ fed[r] = [since |-> fed[r].since, total |-> fed[r].total]
    /\ \/ fed[r].since = 0 /\ entry[r].lastTimestamp = 0
       \/ \E a, b \in DOMAIN scrapes[r[1]] : a <= b /\ FedBetween(r, a, b)

\* The scrapes of a target are numbered.
LEMMA ScrapeIndex ==
  ASSUME TypeOK, NEW p \in Targets
  PROVE  /\ Len(scrapes[p]) \in Nat /\ DOMAIN scrapes[p] = 1..Len(scrapes[p])
         /\ \A i \in DOMAIN scrapes[p] : i \in Nat
         /\ scrapes[p] # <<>> => /\ 1 \in DOMAIN scrapes[p] /\ Len(scrapes[p]) \in DOMAIN scrapes[p]
                                 /\ Last(scrapes[p]) = scrapes[p][Len(scrapes[p])]
         /\ scrapes[p] = <<>> => DOMAIN scrapes[p] = {}
  <1>1. /\ Len(scrapes[p]) \in Nat /\ DOMAIN scrapes[p] = 1..Len(scrapes[p])
        /\ scrapes[p] # <<>> => Len(scrapes[p]) >= 1
        /\ scrapes[p] = <<>> => Len(scrapes[p]) = 0
    BY SeqShape DEF TypeOK
  <1>2. scrapes[p] # <<>> => 1 \in DOMAIN scrapes[p] /\ Len(scrapes[p]) \in DOMAIN scrapes[p]
    BY <1>1
  <1>3. scrapes[p] = <<>> => DOMAIN scrapes[p] = {}
    BY <1>1
  <1> QED BY <1>1, <1>2, <1>3 DEF Last

\* A tracker stays right when there are more scrapes.
LEMMA TrackerStays ==
  ASSUME NEW r \in Refs, TrackerOK(r), r[1] \in Targets, Extends(r[1]), layout' = layout,
         fed'[r] = fed[r], entry'[r].lastTimestamp = entry[r].lastTimestamp,
         entry'[r].lastValue = entry[r].lastValue
  PROVE  TrackerOK(r)'
  <1>1. CASE fed[r].since = 0 /\ entry[r].lastTimestamp = 0
    BY <1>1 DEF TrackerOK
  <1>2. CASE \E a, b \in DOMAIN scrapes[r[1]] : a <= b /\ FedBetween(r, a, b)
    <2>1. PICK a, b \in DOMAIN scrapes[r[1]] : a <= b /\ FedBetween(r, a, b)
      BY <1>2
    <2>2. /\ a \in DOMAIN scrapes'[r[1]] /\ scrapes'[r[1]][a] = scrapes[r[1]][a]
          /\ b \in DOMAIN scrapes'[r[1]] /\ scrapes'[r[1]][b] = scrapes[r[1]][b]
      BY DEF Extends
    <2>3. FedBetween(r, a, b)'
      BY <2>1, <2>2 DEF FedBetween, SeriesOf
    <2> QED BY <2>1, <2>2, <2>3 DEF TrackerOK
  <1> QED BY <1>1, <1>2 DEF TrackerOK

\* A sample is fed.
LEMMA TrackerFed ==
  ASSUME IInv, HistoryOK, SamplesOK, samples # <<>>, layout' = layout, scrapes' = scrapes,
         NEW r, r = First.ref, TrackerOK(r), TrackerCalled
  PROVE  TrackerOK(r)'
  <1> DEFINE p == r[1]
             s == SeriesOf(r)
             sc == scrapes[p]
  <1>0. TypeOK /\ RecordOK
    BY DEF IInv
  <1>1. /\ r \in Refs /\ First = samples[1] /\ 1 \in DOMAIN samples /\ First.time \in Nat \ {0}
        /\ p \in Targets /\ s \in Series
    BY <1>0, FirstOK, SeriesType DEF TypeOK
  <1>2. PICK j \in DOMAIN sc : First.time = sc[j].time /\ First.value = Value(sc[j], s)
    BY <1>1 DEF SamplesOK, SampledAt
  <1>3. /\ fed'[r] = Feed(fed[r], entry[r], First.time, First.value)
        /\ First.time < entry[r].lastTimestamp =>
             /\ entry'[r].lastTimestamp = entry[r].lastTimestamp
             /\ entry'[r].lastValue = entry[r].lastValue
        /\ ~(First.time < entry[r].lastTimestamp) =>
             entry'[r].lastTimestamp = First.time /\ entry'[r].lastValue = First.value
    BY DEF TrackerCalled
  <1>4. fed[r] = [since |-> fed[r].since, total |-> fed[r].total]
    BY DEF TrackerOK
  <1>5. \A i \in DOMAIN sc : i \in Nat
    BY <1>0, <1>1, ScrapeIndex
  <1>6. SeriesOf(r)' = s
    BY DEF SeriesOf
  <1>7. CASE fed[r].since = 0 /\ entry[r].lastTimestamp = 0
    <2>1. fed'[r] = [since |-> First.time, total |-> 0]
      BY <1>3, <1>7 DEF Feed
    <2>2. fed'[r].since = First.time /\ fed'[r].total = 0
      BY <2>1
    <2>3. entry'[r].lastTimestamp = First.time /\ entry'[r].lastValue = First.value
      BY <1>1, <1>3, <1>7
    <2>4. j <= j /\ Seen(sc[j].events, s) \in Nat
      <3>1. ProcessOK(sc[j]) /\ Later(sc[j], sc[j])
        BY <1>0, <1>1, <1>5, LaterAt
      <3> QED BY <1>1, <1>5, <3>1, SeenOf
    <2>5. FedBetween(r, j, j)'
      BY <1>2, <1>6, <2>2, <2>3, <2>4 DEF FedBetween
    <2> QED BY <2>1, <2>2, <2>4, <2>5 DEF TrackerOK
  <1>8. CASE \E a, b \in DOMAIN sc : a <= b /\ FedBetween(r, a, b)
    <2>1. PICK a, b \in DOMAIN sc : a <= b /\ FedBetween(r, a, b)
      BY <1>8
    <2> DEFINE x == sc[a]
               y == sc[b]
               z == sc[j]
    <2>2. /\ fed[r].since = x.time /\ entry[r].lastTimestamp = y.time
          /\ entry[r].lastValue = Value(y, s)
          /\ fed[r].total \in Int /\ fed[r].total <= Seen(y.events, s) - Seen(x.events, s)
          /\ x.base = y.base => fed[r].total = Seen(y.events, s) - Seen(x.events, s)
      BY <2>1 DEF FedBetween
    <2>3. /\ ProcessOK(x) /\ ProcessOK(y) /\ Later(x, y)
          /\ y.time \in Nat \ {0} /\ x.time \in Nat \ {0}
      BY <1>0, <1>1, <2>1, LaterAt
    <2>4. CASE First.time < y.time
      <3>1. fed'[r] = fed[r]
        BY <1>3, <2>2, <2>3, <2>4 DEF Feed
      <3>2. FedBetween(r, a, b)'
        BY <1>3, <1>6, <2>2, <2>4, <3>1 DEF FedBetween
      <3> QED BY <1>4, <2>1, <3>1, <3>2 DEF TrackerOK
    <2>5. CASE ~(First.time < y.time)
      <3>1. b <= j
        <4>1. SUFFICES ASSUME j < b PROVE FALSE
          BY <1>5
        <4>2. z.time < y.time
          BY <1>1, <4>1 DEF HistoryOK
        <4> QED BY <1>2, <2>5, <4>2
      <3>2. a <= j
        BY <1>5, <2>1, <3>1
      <3>3. ProcessOK(z) /\ Later(y, z) /\ Later(x, z)
        BY <1>0, <1>1, <3>1, <3>2, LaterAt
      <3> DEFINE d == IF Value(z, s) < Value(y, s) THEN Value(z, s) ELSE Value(z, s) - Value(y, s)
                 seen == Seen(z.events, s) - Seen(x.events, s)
      <3>4. /\ fed[r].total + d \in Int /\ fed[r].total + d <= seen
            /\ x.base = z.base => fed[r].total + d = seen
        <4> HIDE DEF x, y, z, s
        <4> QED BY <1>1, <2>2, <2>3, <3>3, FeedAdds
      <3>5. fed'[r] = [fed[r] EXCEPT !.total = fed[r].total + d]
        BY <1>2, <1>3, <2>2, <2>3, <2>5 DEF Feed, Delta
      <3>6. fed'[r] = [since |-> fed[r].since, total |-> fed[r].total + d]
        <4> HIDE DEF d
        <4> QED BY <1>4, <3>5
      <3>7. fed'[r].since = x.time /\ fed'[r].total = fed[r].total + d
        BY <2>2, <3>6
      <3>8. entry'[r].lastTimestamp = z.time /\ entry'[r].lastValue = Value(z, s)
        BY <1>2, <1>3, <2>2, <2>5
      <3> HIDE DEF d
      <3>9. FedBetween(r, a, j)'
        BY <1>6, <3>4, <3>7, <3>8 DEF FedBetween
      <3>10. fed'[r] = [since |-> fed'[r].since, total |-> fed'[r].total]
        BY <2>2, <3>6, <3>7
      <3> QED BY <3>2, <3>9, <3>10 DEF TrackerOK
    <2> QED BY <2>4, <2>5
  <1> QED BY <1>7, <1>8 DEF TrackerOK

\* FedOK, tracker by tracker.
LEMMA FedOKIs == FedOK <=> fed = [r \in Refs |-> fed[r]] /\ \A r \in Refs : TrackerOK(r)
  BY DEF FedOK, TrackerOK

\* Initially.
LEMMA FedInit == Init => FedOK /\ SamplesOK /\ SteadyOK
  <1> SUFFICES ASSUME Init PROVE FedOK /\ SamplesOK /\ SteadyOK
    OBVIOUS
  <1>1. IInv
    BY InitIInv
  <1>2. ASSUME NEW r \in Refs PROVE TrackerOK(r)
    <2>1. fed[r] = NotFed /\ \E l : entry[r] = NewEntry(l)
      BY DEF Init
    <2> QED BY <2>1 DEF NotFed, NewEntry, TrackerOK
  <1>3. FedOK
    BY <1>2, FedOKIs DEF Init
  <1>4. samples = <<>> /\ DOMAIN samples = {} /\ \A p \in Targets : scrapes[p] = <<>>
    BY DEF Init
  <1>5. \A r \in Refs : scrapes[r[1]] = <<>>
    BY <1>1, <1>4, SeriesType DEF IInv, TypeOK
  <1> QED BY <1>3, <1>4, <1>5 DEF SamplesOK, SteadyOK

\* Every step.
LEMMA FedStep ==
  ASSUME IInv, HistoryOK, SamplesOK, FedOK, [Next]_vars
  PROVE  FedOK'
  <1>0. TypeOK /\ RecordOK /\ fed = [r \in Refs |-> fed[r]] /\ \A r \in Refs : TrackerOK(r)
    BY FedOKIs DEF IInv
  <1>1. \A r \in Refs : r[1] \in Targets /\ Extends(r[1])
    BY <1>0, SeriesType, HistoryStep DEF TypeOK
  <1>2. layout' = layout /\ Refs' = Refs
    <2>1. layout' = layout
      BY <1>0, StepKinds DEF SameValues, Calls, Scrape, RefreshIsDue, Replace, inputVars
    <2> QED BY <2>1, RefsSame
  <1>3. SUFFICES fed' = [r \in Refs |-> fed'[r]] /\ \A r \in Refs : TrackerOK(r)'
    <2>1. FedOK' <=> fed' = [r \in Refs' |-> fed'[r]] /\ \A r \in Refs' : TrackerOK(r)'
      BY DEF FedOK, TrackerOK
    <2> QED BY <1>2, <2>1
  <1>4. ASSUME fed' = fed, entry' = entry
        PROVE  fed' = [r \in Refs |-> fed'[r]] /\ \A r \in Refs : TrackerOK(r)'
    BY <1>0, <1>1, <1>2, <1>4, TrackerStays
  <1>5. CASE SameValues \/ \E p \in Targets, t \in 1..MaxTime, n \in 1..2 : Scrape(p, t, n)
    BY <1>4, <1>5 DEF SameValues, Scrape
  <1>6. CASE \E answer \in Answers : samples # <<>> /\ BuildNext(answer) /\ \E m \in Nat : Calls(m)
    <2>1. PICK m \in Nat : Calls(m) /\ samples # <<>>
      BY <1>6
    <2>2. /\ scrapes' = scrapes /\ fed' = [r \in Refs |-> fed'[r]]
          /\ \A r \in Refs : TrackerKept(r) \/ (r = First.ref /\ TrackerCalled)
      BY <2>1 DEF Calls
    <2>3. ASSUME NEW r \in Refs PROVE TrackerOK(r)'
      <3>1. CASE TrackerKept(r)
        BY <1>0, <1>1, <1>2, <3>1, TrackerStays DEF TrackerKept
      <3>2. CASE r = First.ref /\ TrackerCalled
        BY <1>0, <1>2, <2>1, <2>2, <3>2, TrackerFed
      <3> QED BY <2>2, <3>1, <3>2
    <2> QED BY <2>2, <2>3
  <1>7. CASE \E q \in Refs : RefreshIsDue(q)
    <2>1. PICK q \in Refs : RefreshIsDue(q)
      BY <1>7
    <2> DEFINE f == [entry[q] EXCEPT !.lookup = "due"]
    <2>2. entry' = [entry EXCEPT ![q] = f] /\ fed' = fed
      BY <2>1 DEF RefreshIsDue
    <2>3. /\ IsEntry(f) /\ f.lastTimestamp = entry[q].lastTimestamp
          /\ f.lastValue = entry[q].lastValue
      BY <1>0, LookupFields DEF TypeOK
    <2> HIDE DEF f
    <2>4. entry'[q] = f /\ \A r \in Refs \ {q} : entry'[r] = entry[r]
      BY <1>0, <2>2, <2>3, EntryReplaced
    <2>5. ASSUME NEW r \in Refs PROVE TrackerOK(r)'
      <3>1. /\ entry'[r].lastTimestamp = entry[r].lastTimestamp
            /\ entry'[r].lastValue = entry[r].lastValue
        BY <2>3, <2>4
      <3> QED BY <1>0, <1>1, <1>2, <2>2, <3>1, TrackerStays
    <2> QED BY <1>0, <2>2, <2>5
  <1>8. CASE \E q \in Refs : \E l : Replace(q, NewEntry(l))
    <2>1. PICK q \in Refs : \E l : Replace(q, NewEntry(l))
      BY <1>8
    <2>2. PICK l : Replace(q, NewEntry(l))
      BY <2>1
    <2>3. entry' = [entry EXCEPT ![q] = NewEntry(l)] /\ fed' = [fed EXCEPT ![q] = NotFed]
      BY <2>2 DEF Replace
    <2>4. IsEntry(NewEntry(l)) /\ NewEntry(l).lastTimestamp = 0
      BY DEF IsEntry, NewEntry
    <2>5. entry'[q] = NewEntry(l) /\ \A r \in Refs \ {q} : entry'[r] = entry[r]
      BY <1>0, <2>3, <2>4, EntryReplaced
    <2>6. /\ fed' = [r \in Refs |-> fed'[r]] /\ fed'[q] = NotFed
          /\ \A r \in Refs \ {q} : fed'[r] = fed[r]
      BY <1>0, <2>3
    <2>7. TrackerOK(q)'
      BY <2>4, <2>5, <2>6 DEF TrackerOK, NotFed
    <2>8. ASSUME NEW r \in Refs \ {q} PROVE TrackerOK(r)'
      BY <1>0, <1>1, <1>2, <2>5, <2>6, TrackerStays
    <2> QED BY <2>6, <2>7, <2>8
  <1> QED BY <1>0, <1>5, <1>6, <1>7, <1>8, StepKinds

\* No scrape is later than the last.
LEMMA LastIsLatest ==
  ASSUME TypeOK, HistoryOK, NEW p \in Targets, NEW j \in DOMAIN scrapes[p]
  PROVE  /\ scrapes[p] # <<>> /\ scrapes[p][j].time \in Nat \ {0}
         /\ Last(scrapes[p]).time \in Nat \ {0} /\ scrapes[p][j].time <= Last(scrapes[p]).time
  <1>1. /\ Len(scrapes[p]) \in Nat /\ DOMAIN scrapes[p] = 1..Len(scrapes[p])
        /\ scrapes[p] # <<>> /\ Len(scrapes[p]) \in DOMAIN scrapes[p]
        /\ Last(scrapes[p]) = scrapes[p][Len(scrapes[p])]
    BY ScrapeIndex
  <1>2. j <= Len(scrapes[p])
    BY <1>1
  <1> QED BY <1>1, <1>2, LaterAt

\* Where the sample of the u-th series in the d-th exposition is in the record.
InExposition(i, k, u, d) == i = k * d + u /\ (i - 1) % k = u - 1 /\ (i - 1) \div k = d

\* Every series of every exposition has its place in the record.
LEMMA Position ==
  ASSUME NEW k \in Nat \ {0}, NEW n \in 1..2, NEW u \in 1..k, NEW d \in 0..(n - 1)
  PROVE  \E i \in 1..(n * k) : InExposition(i, k, u, d)
  <1>1. PICK c \in Nat : c = k * d /\ (d = 0 => c = 0) /\ (d = 1 => c = k)
    OBVIOUS
  <1>2. c + u \in 1..(n * k)
    <2>1. CASE n = 1
      BY <1>1, <2>1
    <2>2. CASE n = 2
      BY <1>1, <2>2
    <2> QED BY <2>1, <2>2
  <1>3. PICK a \in Nat : a = (c + u) - 1
    OBVIOUS
  <1>4. PICK q \in Nat, r \in 0..(k - 1) : q = a \div k /\ r = a % k /\ a = k * q + r
    BY Quotient
  <1>5. ASSUME d < q PROVE FALSE
    <2>1. PICK e \in Nat : q = d + 1 + e
      BY <1>5, q - d - 1 \in Nat
    <2>2. k * q = k * d + k + k * e /\ k * e \in Nat
      BY <2>1
    <2> QED BY <1>1, <1>3, <1>4, <2>2
  <1>6. ASSUME q < d PROVE FALSE
    <2>1. PICK e \in Nat : d = q + 1 + e
      BY <1>6, d - q - 1 \in Nat
    <2>2. k * d = k * q + k + k * e /\ k * e \in Nat /\ k * q \in Nat
      BY <2>1
    <2> QED BY <1>1, <1>3, <1>4, <2>2
  <1>7. q = d
    BY <1>5, <1>6
  <1>8. r = u - 1
    BY <1>1, <1>3, <1>4, <1>7
  <1>9. PICK i \in 1..(n * k) : i = c + u
    BY <1>2
  <1>10. i = k * d + u /\ (i - 1) % k = u - 1 /\ (i - 1) \div k = d
    BY <1>1, <1>3, <1>4, <1>7, <1>8, <1>9
  <1> QED BY <1>10 DEF InExposition

\* After a scrape, a sample of every series at each of its times is left.
LEMMA ScrapeLeaves ==
  ASSUME IInv, HistoryOK, NEW p \in Targets, NEW t \in 1..MaxTime, NEW n \in 1..2,
         Scrape(p, t, n), NEW r \in Refs, r[1] = p,
         NEW j \in DOMAIN scrapes'[p] \ DOMAIN scrapes[p],
         NEW v, v = scrapes'[p][j].time
  PROVE  Left(r, v)'
  <1>1. PICK k \in Nat \ {0}, m \in Nat : Adds(p, t, n, k, m)
    BY ScrapeAdds
  <1>2. PICK u \in 1..k : r = <<p, u>>
    <2>1. DOMAIN layout[p] = 1..k
      BY <1>1 DEF Adds
    <2>2. PICK q \in Targets : \E i \in DOMAIN layout[q] : r = <<q, i>>
      BY DEF Refs
    <2> QED BY <2>1, <2>2
  <1>3. PICK d \in 0..(n - 1) : j = m + 1 + d
    <2>1. DOMAIN scrapes[p] = 1..m /\ DOMAIN scrapes'[p] = 1..(m + n)
      BY <1>1 DEF Adds
    <2>2. j - m - 1 \in 0..(n - 1) /\ j = m + 1 + (j - m - 1)
      BY <2>1
    <2> QED BY <2>2
  <1>4. v = t + d
    <2>1. scrapes'[p][m + 1 + d] = Shot(p, t + d)
      BY <1>1 DEF Adds
    <2> QED BY <1>3, <2>1, ShotIs
  <1>5. PICK i \in 1..(n * k) : InExposition(i, k, u, d)
    BY Position
  <1>6. (u - 1) + 1 = u
    OBVIOUS
  <1>7. DOMAIN samples' = 1..(n * k) /\ samples'[i].ref = <<p, ((i - 1) % k) + 1>>
        /\ samples'[i].time = t + ((i - 1) \div k)
    BY <1>1 DEF Adds
  <1>8. i \in DOMAIN samples' /\ samples'[i].ref = r /\ samples'[i].time = v
    BY <1>2, <1>4, <1>5, <1>6, <1>7 DEF InExposition
  <1> QED BY <1>8 DEF Left

\* Which series are fed by next depends on the layout alone.
LEMMA FedByNextSame ==
  ASSUME layout' = layout, NEW r
  PROVE  FedByNext(r)' = FedByNext(r)
  BY DEF FedByNext, OfHistogram, SeriesOf

\* The last point that a tracker got is not later than the last scrape.
LEMMA TrackedSoFar ==
  ASSUME TypeOK, HistoryOK, NEW r \in Refs, TrackerOK(r), r[1] \in Targets, scrapes[r[1]] # <<>>
  PROVE  /\ Last(scrapes[r[1]]).time \in Nat \ {0}
         /\ entry[r].lastTimestamp \in Nat /\ entry[r].lastTimestamp <= Last(scrapes[r[1]]).time
  <1>1. Last(scrapes[r[1]]).time \in Nat \ {0}
    BY ScrapeIndex, LastIsLatest
  <1>2. CASE entry[r].lastTimestamp = 0
    BY <1>1, <1>2
  <1>3. CASE \E a, b \in DOMAIN scrapes[r[1]] : a <= b /\ FedBetween(r, a, b)
    BY <1>3, LastIsLatest DEF FedBetween
  <1> QED BY <1>2, <1>3 DEF TrackerOK

\* Every step keeps what is known of a target all of whose series are known.
LEMMA SteadyStep ==
  ASSUME IInv, HistoryOK, SamplesOK, FedOK, SteadyOK, [Next]_vars
  PROVE  SteadyOK'
  <1>0. TypeOK /\ RecordOK /\ fed = [r \in Refs |-> fed[r]] /\ \A r \in Refs : TrackerOK(r)
    BY FedOKIs DEF IInv
  <1>2. layout' = layout /\ Refs' = Refs
    <2>1. layout' = layout
      BY <1>0, StepKinds DEF SameValues, Calls, Scrape, RefreshIsDue, Replace, inputVars
    <2> QED BY <2>1, RefsSame
  <1>3. SUFFICES ASSUME NEW r \in Refs, r[1] \in steady', scrapes'[r[1]] # <<>>,
                        NEW v, v = Last(scrapes'[r[1]]).time
                 PROVE  /\ entry'[r].lookup = "populated"
                        /\ FedByNext(r) => entry'[r].lastTimestamp = v \/ Left(r, v)'
    <2>1. \A r \in Refs : FedByNext(r)' = FedByNext(r)
      BY <1>2, FedByNextSame
    <2> QED BY <1>2, <1>3, <2>1 DEF SteadyOK, Left
  <1> DEFINE p == r[1]
             t == Last(scrapes[p]).time
  <1>1. p \in Targets
    BY <1>0, SeriesType DEF TypeOK
  <1>4. ASSUME p \in steady, scrapes[p] # <<>>
        PROVE  /\ entry[r].lookup = "populated"
               /\ FedByNext(r) => entry[r].lastTimestamp = t \/ Left(r, t)
               /\ t \in Nat /\ entry[r].lastTimestamp \in Nat /\ entry[r].lastTimestamp <= t
    BY <1>0, <1>1, <1>4, TrackedSoFar DEF SteadyOK
  <1>5. CASE SameValues
    <2>1. p \in steady /\ scrapes[p] # <<>> /\ scrapes' = scrapes /\ entry' = entry /\ samples' = samples
      BY <1>3, <1>5 DEF SameValues
    <2>2. v = t /\ (Left(r, v)' <=> Left(r, t))
      BY <1>3, <2>1 DEF Left
    <2> QED BY <1>4, <2>1, <2>2
  <1>6. CASE \E answer \in Answers : samples # <<>> /\ BuildNext(answer) /\ \E m \in Nat : Calls(m)
    <2>1. PICK m \in Nat : Calls(m) /\ samples # <<>>
      BY <1>6
    <2>2. /\ scrapes' = scrapes /\ steady' = steady /\ Rest(m)
          /\ entry[r].lookup = "populated" => entry'[r].lookup = "populated"
          /\ TrackerKept(r) \/ (r = First.ref /\ TrackerCalled)
      BY <2>1 DEF Calls
    <2>3. p \in steady /\ scrapes[p] # <<>> /\ v = t
      BY <1>3, <2>2
    <2>4. First = samples[1] /\ First.time \in Nat
      BY <1>0, <2>1, FirstOK
    <2>5. ASSUME FedByNext(r), entry[r].lastTimestamp = t PROVE entry'[r].lastTimestamp = t
      <3>1. CASE TrackerKept(r)
        BY <2>5, <3>1 DEF TrackerKept
      <3>2. CASE r = First.ref /\ TrackerCalled
        <4>1. ScrapedBy(p, First.time)
          BY <1>0, <2>1, <3>2, FirstOK DEF RecordOK
        <4>2. First.time <= t
          BY <4>1 DEF ScrapedBy
        <4>3. /\ First.time < entry[r].lastTimestamp => entry'[r].lastTimestamp = entry[r].lastTimestamp
              /\ ~(First.time < entry[r].lastTimestamp) => entry'[r].lastTimestamp = First.time
          BY <3>2 DEF TrackerCalled
        <4> QED BY <1>4, <2>3, <2>4, <2>5, <4>2, <4>3
      <3> QED BY <2>2, <3>1, <3>2
    <2>6. ASSUME FedByNext(r), Left(r, v), ~Left(r, v)' PROVE entry'[r].lastTimestamp = t
      <3>1. PICK k \in 1..(m - 1) : samples[k].ref = r /\ samples[k].time = v
        BY <1>0, <2>2, <2>6, LeftBefore
      <3>2. k = 1 /\ TrackerCalled
        BY <1>4, <2>1, <2>3, <2>6, <3>1 DEF Calls
      <3>3. r = First.ref /\ First.time = t
        BY <2>3, <2>4, <3>1, <3>2
      <3>4. ~(First.time < entry[r].lastTimestamp) => entry'[r].lastTimestamp = First.time
        BY <3>2, <3>3 DEF TrackerCalled
      <3> QED BY <1>4, <2>3, <3>3, <3>4
    <2> QED BY <1>4, <2>2, <2>3, <2>5, <2>6
  <1>7. CASE \E q \in Targets, u \in 1..MaxTime, n \in 1..2 : Scrape(q, u, n)
    <2>1. PICK q \in Targets, u \in 1..MaxTime, n \in 1..2 : Scrape(q, u, n)
      BY <1>7
    <2>2. PICK k \in Nat \ {0}, m \in Nat : Adds(q, u, n, k, m)
      BY <2>1, ScrapeAdds
    <2>3. /\ entry' = entry /\ samples = <<>>
          /\ steady' = IF \E x \in Refs : x[1] = q /\ entry[x].lookup # "populated"
                       THEN steady \ {q} ELSE steady
      BY <2>1 DEF Scrape
    <2>4. CASE p = q
      <3>1. entry'[r].lookup = "populated"
        BY <1>3, <2>3, <2>4
      <3>2. /\ DOMAIN scrapes'[p] = 1..(m + n) /\ Len(scrapes'[p]) = m + n
            /\ DOMAIN scrapes[p] = 1..m
        BY <2>2, <2>4 DEF Adds
      <3>3. m + n \in DOMAIN scrapes'[p] \ DOMAIN scrapes[p]
        BY <3>2
      <3>4. v = scrapes'[p][m + n].time
        BY <1>3, <3>2 DEF Last
      <3>5. Left(r, v)'
        BY <2>1, <2>4, <3>3, <3>4, ScrapeLeaves
      <3> QED BY <3>1, <3>5
    <2>5. CASE p # q
      <3>1. scrapes'[p] = scrapes[p] /\ p \in steady
        BY <1>1, <1>3, <2>2, <2>3, <2>5 DEF Adds
      <3>2. DOMAIN samples = {}
        BY <1>0, <2>3, SeqShape DEF TypeOK
      <3>3. ~Left(r, t)
        BY <3>2 DEF Left
      <3>4. v = t
        BY <1>3, <3>1
      <3> QED BY <1>3, <1>4, <2>3, <3>1, <3>3, <3>4
    <2> QED BY <2>4, <2>5
  <1>8. CASE \E q \in Refs : RefreshIsDue(q)
    <2>1. PICK q \in Refs : RefreshIsDue(q)
      BY <1>8
    <2> DEFINE f == [entry[q] EXCEPT !.lookup = "due"]
    <2>2. /\ entry' = [entry EXCEPT ![q] = f] /\ samples' = samples /\ scrapes' = scrapes
          /\ steady' = steady /\ entry[q].lookup = "waiting"
      BY <2>1 DEF RefreshIsDue
    <2>3. IsEntry(f)
      BY <1>0, LookupFields DEF TypeOK
    <2> HIDE DEF f
    <2>4. \A x \in Refs \ {q} : entry'[x] = entry[x]
      BY <1>0, <2>2, <2>3, EntryReplaced
    <2>5. p \in steady /\ scrapes[p] # <<>> /\ v = t /\ (Left(r, v)' <=> Left(r, t))
      BY <1>3, <2>2 DEF Left
    <2>6. r # q
      BY <1>4, <2>2, <2>5
    <2> QED BY <1>4, <2>4, <2>5, <2>6
  <1>9. CASE \E q \in Refs : \E l : Replace(q, NewEntry(l))
    <2>1. PICK q \in Refs : \E l : Replace(q, NewEntry(l))
      BY <1>9
    <2>2. PICK l : Replace(q, NewEntry(l))
      BY <2>1
    <2>3. /\ entry' = [entry EXCEPT ![q] = NewEntry(l)] /\ samples' = samples /\ scrapes' = scrapes
          /\ steady' = steady \ {q[1]}
      BY <2>2 DEF Replace
    <2>4. IsEntry(NewEntry(l))
      BY DEF IsEntry, NewEntry
    <2>5. \A x \in Refs \ {q} : entry'[x] = entry[x]
      BY <1>0, <2>3, <2>4, EntryReplaced
    <2>6. /\ p \in steady /\ scrapes[p] # <<>> /\ r # q
          /\ v = t /\ (Left(r, v)' <=> Left(r, t))
      BY <1>3, <2>3 DEF Left
    <2> QED BY <1>4, <2>5, <2>6
  <1> QED BY <1>0, <1>5, <1>6, <1>7, <1>8, <1>9, StepKinds

\* The last scrape at or before t, where it is known.
LEMMA ScrapeAtIs ==
  ASSUME TypeOK, NEW p \in Targets, NEW t \in Int, NEW a \in DOMAIN scrapes[p],
         \A j \in DOMAIN scrapes[p] : scrapes[p][j].time <= t <=> j <= a
  PROVE  ScrapeAt(p, t) = scrapes[p][a]
  <1> DEFINE T == {i \in DOMAIN scrapes[p] : scrapes[p][i].time <= t}
  <1>1. Len(scrapes[p]) \in Nat /\ DOMAIN scrapes[p] = 1..Len(scrapes[p])
    BY ScrapeIndex
  <1>2. PICK n \in Nat : n = Len(scrapes[p]) /\ a \in 1..n
    BY <1>1
  <1>3. a <= a
    BY <1>2
  <1>4. a \in T /\ \A i \in T : i <= a
    BY <1>3
  <1>5. T \subseteq 0..n /\ T # {}
    BY <1>1, <1>2, <1>4
  <1>6. \E m \in T : \A i \in T : m >= i
    <2>1. \A i \in T : a >= i
      BY <1>2, <1>4, <1>5
    <2> QED BY <1>4, <2>1
  <1> HIDE DEF T
  <1>7. Max(T) \in T /\ \A i \in T : Max(T) >= i
    BY <1>6 DEF Max
  <1>8. Max(T) = a
    <2>0. Max(T) \in 0..n
      BY <1>5, <1>7
    <2>1. PICK b \in Nat : b = Max(T)
      BY <2>0
    <2>2. b <= a /\ b >= a
      BY <1>4, <1>7, <2>1 DEF T
    <2>3. b = a
      BY <1>2, <2>2
    <2> QED BY <2>1, <2>3
  <1> QED BY <1>8 DEF ScrapeAt, T

\* A scrape is the last one at or before its own time.
LEMMA AtItsTime ==
  ASSUME TypeOK, HistoryOK, NEW p \in Targets, NEW a \in DOMAIN scrapes[p]
  PROVE  /\ \A j \in DOMAIN scrapes[p] : scrapes[p][j].time <= scrapes[p][a].time <=> j <= a
         /\ ScrapeAt(p, scrapes[p][a].time) = scrapes[p][a]
  <1>1. \A i \in DOMAIN scrapes[p] : i \in Nat /\ scrapes[p][i].time \in Nat
    BY ScrapeIndex DEF HistoryOK
  <1>2. ASSUME NEW j \in DOMAIN scrapes[p]
        PROVE  scrapes[p][j].time <= scrapes[p][a].time <=> j <= a
    <2>1. j < a \/ j = a \/ a < j
      BY <1>1
    <2>2. j < a => scrapes[p][j].time < scrapes[p][a].time
      BY DEF HistoryOK
    <2>3. a < j => scrapes[p][a].time < scrapes[p][j].time
      BY DEF HistoryOK
    <2> QED BY <1>1, <2>1, <2>2, <2>3
  <1>3. PICK t \in Int : t = scrapes[p][a].time
    BY <1>1
  <1>4. \A j \in DOMAIN scrapes[p] : scrapes[p][j].time <= t <=> j <= a
    BY <1>2, <1>3
  <1>5. ScrapeAt(p, t) = scrapes[p][a]
    BY <1>4, ScrapeAtIs
  <1> QED BY <1>2, <1>3, <1>5

\* The history and the trackers.
TrackInv == HistoryOK /\ SamplesOK /\ FedOK /\ SteadyOK

\* It holds in every reachable state.
LEMMA TrackInvHolds == Spec => []TrackInv
  <1>1. Init => TrackInv
    BY HistoryInit, FedInit DEF TrackInv
  <1>2. IInv /\ TrackInv /\ [Next]_vars => TrackInv'
    <2> SUFFICES ASSUME IInv, TrackInv, [Next]_vars PROVE TrackInv'
      OBVIOUS
    <2>1. HistoryOK /\ SamplesOK /\ FedOK /\ SteadyOK /\ fed = [r \in Refs |-> fed[r]]
      BY DEF TrackInv, FedOK
    <2> QED BY <2>1, HistoryStep, SamplesStep, FedStep, SteadyStep DEF TrackInv
  <1> QED BY <1>1, <1>2, Invariance, PTL DEF Spec

\* The aggregated counter never counts an event twice, counts all between two
\* samples of a process that did not restart, and gets every sample of a known
\* series that buildDistribution does not consume, for any number of targets,
\* series and scrapes, whatever the targets expose and however often they
\* restart and the cache changes (newPoint, aggregator.go).
THEOREM AggregateTrueHolds == Spec => []AggregateTrue
  <1>1. IInv /\ TrackInv => AggregateTrue
    <2> SUFFICES ASSUME IInv, TrackInv PROVE AggregateTrue
      OBVIOUS
    <2>0. /\ TypeOK /\ RecordOK /\ HistoryOK /\ SteadyOK /\ \A r \in Refs : TrackerOK(r)
      BY FedOKIs DEF IInv, TrackInv
    <2>1. SUFFICES ASSUME NEW r \in Refs
                   PROVE  LET p == r[1]
                              t == entry[r].lastTimestamp
                              seen == Seen(Happened(p, fed[r].since, t), SeriesOf(r))
                          IN /\ fed[r].since # 0 =>
                                  /\ fed[r].total <= seen
                                  /\ NoRestart(p, fed[r].since, t) => fed[r].total = seen
                             /\ FedByNext(r) /\ samples = <<>> /\ p \in steady /\ scrapes[p] # <<>>
                                => t = Last(scrapes[p]).time
      BY DEF AggregateTrue
    <2> DEFINE p == r[1]
               s == SeriesOf(r)
               t == entry[r].lastTimestamp
    <2>2. p \in Targets /\ s \in Series
      BY <2>0, SeriesType DEF TypeOK
    <2>3. ASSUME fed[r].since # 0
          PROVE  /\ fed[r].total <= Seen(Happened(p, fed[r].since, t), s)
                 /\ NoRestart(p, fed[r].since, t) => fed[r].total = Seen(Happened(p, fed[r].since, t), s)
      <3>1. PICK a, b \in DOMAIN scrapes[p] : a <= b /\ FedBetween(r, a, b)
        BY <2>0, <2>3 DEF TrackerOK
      <3> DEFINE x == scrapes[p][a]
                 y == scrapes[p][b]
      <3>2. /\ fed[r].since = x.time /\ t = y.time
            /\ fed[r].total <= Seen(y.events, s) - Seen(x.events, s)
            /\ x.base = y.base => fed[r].total = Seen(y.events, s) - Seen(x.events, s)
        BY <3>1 DEF FedBetween
      <3>3. ScrapeAt(p, fed[r].since) = x /\ ScrapeAt(p, t) = y
        BY <2>0, <2>2, <3>2, AtItsTime
      <3>4. Seen(Happened(p, fed[r].since, t), s) = Seen(y.events, s) - Seen(x.events, s)
        <4>1. PICK z \in 0..Sizes : z = IF s.part = "bucket" THEN s.le ELSE Sizes
          BY <2>2, BuilderAssumption DEF BuilderAssumption, Series
        <4>2. Happened(p, fed[r].since, t)[z] = y.events[z] - x.events[z]
          BY <3>3 DEF Happened
        <4> QED BY <4>1, <4>2 DEF Seen
      <3> QED BY <3>2, <3>3, <3>4 DEF NoRestart
    <2>4. ASSUME FedByNext(r), samples = <<>>, p \in steady, scrapes[p] # <<>>
          PROVE  t = Last(scrapes[p]).time
      <3>1. DOMAIN samples = {}
        BY <2>0, <2>4, SeqShape DEF TypeOK
      <3>2. t = Last(scrapes[p]).time \/ Left(r, Last(scrapes[p]).time)
        BY <2>0, <2>4 DEF SteadyOK
      <3> QED BY <3>1, <3>2 DEF Left
    <2> QED BY <2>3, <2>4
  <1> QED BY <1>1, Invariance, TrackInvHolds, PTL

-----------------------------------------------------------------------------
(* Resets are about scrapes. *)

\* The samples of a scrape are later than all scrapes before.
LEMMA ScrapeIsLater ==
  ASSUME IInv, HistoryOK, NEW p \in Targets, NEW t \in 1..MaxTime, NEW n \in 1..2,
         Scrape(p, t, n), NEW i \in DOMAIN samples'
  PROVE  /\ samples'[i].ref[1] = p /\ samples'[i].time \in Nat
         /\ \A j \in DOMAIN scrapes[p] : scrapes[p][j].time < samples'[i].time
  <1>1. PICK k \in Nat \ {0}, m \in Nat : Adds(p, t, n, k, m)
    BY ScrapeAdds
  <1>2. DOMAIN samples' = 1..(n * k)
    BY <1>1 DEF Adds
  <1>3. PICK d \in 0..(n - 1) : d = (i - 1) \div k
    BY <1>2, RecordOrder
  <1>4. samples'[i].ref = <<p, ((i - 1) % k) + 1>> /\ samples'[i].time = t + d
    BY <1>1, <1>2, <1>3 DEF Adds
  <1>5. t + d \in Nat /\ t \in Nat /\ t <= t + d
    BY BuilderAssumption DEF BuilderAssumption
  <1>6. ASSUME NEW j \in DOMAIN scrapes[p] PROVE scrapes[p][j].time < t + d
    <2>1. scrapes[p][j].time < t /\ scrapes[p][j].time \in Nat
      BY <1>1 DEF Adds, HistoryOK
    <2> QED BY <1>5, <2>1
  <1> QED BY <1>4, <1>5, <1>6

\* The samples of later scrapes of the same target come later in the record.
LaterLeft ==
    \A k \in DOMAIN samples : \A r \in Refs : r[1] = samples[k].ref[1] =>
      \A j \in DOMAIN scrapes[r[1]] :
        samples[k].time < scrapes[r[1]][j].time => Left(r, scrapes[r[1]][j].time)

\* Every step keeps it so.
LEMMA LaterLeftStep ==
  ASSUME IInv, HistoryOK, SamplesOK, fed = [r \in Refs |-> fed[r]], LaterLeft, [Next]_vars
  PROVE  LaterLeft'
  <1>0. TypeOK /\ RecordOK
    BY DEF IInv
  <1>2. layout' = layout /\ Refs' = Refs
    <2>1. layout' = layout
      BY <1>0, StepKinds DEF SameValues, Calls, Scrape, RefreshIsDue, Replace, inputVars
    <2> QED BY <2>1, RefsSame
  <1>3. SUFFICES ASSUME NEW k \in DOMAIN samples', NEW r \in Refs, r[1] = samples'[k].ref[1],
                        NEW j \in DOMAIN scrapes'[r[1]], NEW v, v = scrapes'[r[1]][j].time,
                        samples'[k].time < v
                 PROVE  Left(r, v)'
    BY <1>2 DEF LaterLeft, Left
  <1>1. r[1] \in Targets
    BY <1>0, SeriesType DEF TypeOK
  <1>4. ASSUME samples' = samples, scrapes' = scrapes PROVE Left(r, v)'
    <2>1. Left(r, v)
      BY <1>3, <1>4 DEF LaterLeft
    <2> QED BY <1>4, <2>1 DEF Left
  <1>5. ASSUME NEW m \in Nat, Calls(m) PROVE Left(r, v)'
    <2>1. scrapes' = scrapes /\ Rest(m)
      BY <1>5 DEF Calls
    <2>2. PICK c : c = k + m - 1
      OBVIOUS
    <2>3. /\ c \in DOMAIN samples /\ samples'[k] = samples[c] /\ m <= c /\ c \in Nat /\ m \in Nat
      <3>1. /\ c \in DOMAIN samples /\ samples'[k] = samples[c] /\ k \in 1..(Len(samples) + 1 - m)
            /\ m \in 1..(Len(samples) + 1)
        BY <2>1, <2>2 DEF Rest
      <3>2. Len(samples) \in Nat /\ DOMAIN samples = 1..Len(samples)
        BY <1>0, SeqShape DEF TypeOK
      <3> QED BY <2>2, <3>1, <3>2
    <2>4. Left(r, v)
      BY <1>3, <2>1, <2>3 DEF LaterLeft
    <2>5. ASSUME NEW l \in 1..(m - 1), samples[l].time = v PROVE FALSE
      <3>1. l < c /\ l \in DOMAIN samples
        <4>1. Len(samples) \in Nat /\ DOMAIN samples = 1..Len(samples)
          BY <1>0, SeqShape DEF TypeOK
        <4> QED BY <2>3, <4>1
      <3>2. samples[l].time <= samples[c].time /\ samples[l].time \in Nat /\ samples[c].time \in Nat
        BY <1>0, <2>3, <3>1 DEF RecordOK
      <3> QED BY <1>3, <2>3, <2>5, <3>2
    <2> QED BY <1>0, <2>1, <2>4, <2>5, LeftBefore
  <1>6. ASSUME NEW p \in Targets, NEW t \in 1..MaxTime, NEW n \in 1..2, Scrape(p, t, n)
        PROVE  Left(r, v)'
    <2>1. /\ r[1] = p /\ samples'[k].time \in Nat
          /\ \A i \in DOMAIN scrapes[p] : scrapes[p][i].time < samples'[k].time
      BY <1>3, <1>6, ScrapeIsLater
    <2>2. Extends(p) /\ HistoryOK'
      BY <1>6, ScrapeHistory
    <2>3. j \notin DOMAIN scrapes[p]
      <3> SUFFICES ASSUME j \in DOMAIN scrapes[p] PROVE FALSE
        OBVIOUS
      <3>1. v = scrapes[p][j].time /\ scrapes[p][j].time \in Nat
        BY <1>3, <2>1, <2>2 DEF Extends, HistoryOK
      <3> QED BY <1>3, <2>1, <3>1
    <2> QED BY <1>3, <1>6, <2>1, <2>3, ScrapeLeaves
  <1>7. ASSUME NEW q \in Refs, RefreshIsDue(q) \/ \E l : Replace(q, NewEntry(l))
        PROVE  samples' = samples /\ scrapes' = scrapes
    BY <1>7 DEF RefreshIsDue, Replace
  <1> QED BY <1>0, <1>4, <1>5, <1>6, <1>7, StepKinds DEF SameValues

\* A sample is that of one scrape only.
LEMMA SampleOf ==
  ASSUME IInv, HistoryOK, SamplesOK, NEW k \in DOMAIN samples, NEW r \in Refs, samples[k].ref = r,
         NEW j \in DOMAIN scrapes[r[1]], SampledAt(k, j)
  PROVE  /\ j \in Nat /\ samples[k].time = scrapes[r[1]][j].time /\ samples[k].time \in Nat \ {0}
         /\ samples[k].value = Value(scrapes[r[1]][j], SeriesOf(r)) /\ samples[k].value \in Nat
         /\ \A i \in DOMAIN scrapes[r[1]] :
              /\ scrapes[r[1]][i].time = samples[k].time => i = j
              /\ scrapes[r[1]][i].time <= samples[k].time <=> i <= j
              /\ scrapes[r[1]][i].time < samples[k].time <=> i < j
              /\ samples[k].time < scrapes[r[1]][i].time <=> j < i
  <1>0. TypeOK /\ r[1] \in Targets /\ SeriesOf(r) \in Series
    BY SeriesType DEF IInv, TypeOK
  <1>2. /\ samples[k].time = scrapes[r[1]][j].time
        /\ samples[k].value = Value(scrapes[r[1]][j], SeriesOf(r))
    BY DEF SampledAt
  <1>3. /\ scrapes[r[1]][j].time \in Nat \ {0} /\ ProcessOK(scrapes[r[1]][j])
        /\ \A i \in DOMAIN scrapes[r[1]] : i \in Nat /\ scrapes[r[1]][i].time \in Nat
    BY <1>0, ScrapeIndex DEF HistoryOK
  <1>4. Value(scrapes[r[1]][j], SeriesOf(r)) \in Nat
    BY <1>0, <1>3, ValueType
  <1>5. ASSUME NEW i \in DOMAIN scrapes[r[1]]
        PROVE  /\ scrapes[r[1]][i].time = scrapes[r[1]][j].time => i = j
               /\ scrapes[r[1]][i].time <= scrapes[r[1]][j].time <=> i <= j
               /\ scrapes[r[1]][i].time < scrapes[r[1]][j].time <=> i < j
               /\ scrapes[r[1]][j].time < scrapes[r[1]][i].time <=> j < i
    <2>1. j < i => scrapes[r[1]][j].time < scrapes[r[1]][i].time
      BY <1>0 DEF HistoryOK
    <2>2. i < j => scrapes[r[1]][i].time < scrapes[r[1]][j].time
      BY <1>0 DEF HistoryOK
    <2> QED BY <1>3, <2>1, <2>2
  <1> QED BY <1>2, <1>3, <1>4, <1>5

\* What is known of a restart stays known.
LEMMA RestartKept ==
  ASSUME TypeOK, NEW m \in Nat, Rest(m), scrapes' = scrapes, NEW r, NEW a,
         entry'[r].resetTimestamp = entry[r].resetTimestamp,
         entry'[r].resetValue = entry[r].resetValue, AfterRestart(r, entry[r], a)
  PROVE  AfterRestart(r, entry[r], a)'
  <1>1. PICK v : v = scrapes[r[1]][a].time
    OBVIOUS
  <1>2. ~Left(r, v)
    BY <1>1 DEF AfterRestart
  <1>3. ~Left(r, v)'
    BY <1>2, LeftBefore
  <1>4. ~Left(r, scrapes[r[1]][a].time)'
    BY <1>1, <1>3 DEF Left
  <1> QED BY <1>4 DEF AfterRestart

\* A reset value stays what it is, and the value has still not been below it.
LEMMA StartKept ==
  ASSUME IInv, HistoryOK, SamplesOK, NEW m \in Nat, Calls(m), NEW r \in Refs, Reported(r),
         entry[r].hasReset, entry'[r].lookup = "populated",
         entry'[r].resetTimestamp = entry[r].resetTimestamp,
         entry'[r].resetValue = entry[r].resetValue,
         NEW a \in DOMAIN scrapes[r[1]], StartsAt(r, entry[r], a), NotBelow(r, entry[r], a)
  PROVE  /\ FromScrape(r, entry[r], a) => FromScrape(r, entry[r], a)'
         /\ AfterRestart(r, entry[r], a) => AfterRestart(r, entry[r], a)'
         /\ NotBelow(r, entry[r], a)'
  <1>0. TypeOK /\ r[1] \in Targets /\ SeriesOf(r) \in Series
    BY SeriesType DEF IInv, TypeOK
  <1>1. scrapes' = scrapes /\ layout' = layout /\ Rest(m)
    BY DEF Calls
  <1>2. SeriesOf(r)' = SeriesOf(r)
    BY <1>1 DEF SeriesOf
  <1>3. FromScrape(r, entry[r], a) => FromScrape(r, entry[r], a)'
    BY <1>1, <1>2 DEF FromScrape
  <1>4. ASSUME AfterRestart(r, entry[r], a) PROVE AfterRestart(r, entry[r], a)'
    BY <1>0, <1>1, <1>4, RestartKept
  <1>5. entry[r].resetValue \in Nat
    <2>1. ProcessOK(scrapes[r[1]][a])
      BY <1>0 DEF HistoryOK
    <2>2. Value(scrapes[r[1]][a], SeriesOf(r)) \in Nat
      BY <1>0, <2>1, ValueType
    <2> QED BY <2>2 DEF StartsAt, FromScrape, AfterRestart
  <1>6. ASSUME NEW j \in DOMAIN scrapes[r[1]], a <= j, NEW v, v = scrapes[r[1]][j].time,
               ~Left(r, v)'
        PROVE  Value(scrapes[r[1]][j], SeriesOf(r)) >= entry[r].resetValue
    <2>1. CASE ~Left(r, v)
      BY <1>6, <2>1 DEF NotBelow
    <2>2. CASE Left(r, v)
      <3>1. PICK k \in 1..(m - 1) : samples[k].ref = r /\ samples[k].time = v
        BY <1>0, <1>1, <1>6, <2>2, LeftBefore
      <3>2. k \in DOMAIN samples
        <4>1. Len(samples) \in Nat /\ DOMAIN samples = 1..Len(samples) /\ m \in 1..(Len(samples) + 1)
          BY <1>0, <1>1, SeqShape DEF TypeOK, Rest
        <4> QED BY <4>1
      <3>3. Adjusts(r, k)
        BY <3>1 DEF Calls
      <3>4. samples[k].value = Value(scrapes[r[1]][j], SeriesOf(r)) /\ samples[k].value \in Nat
        <4>1. PICK i \in DOMAIN scrapes[r[1]] : SampledAt(k, i)
          BY <3>1, <3>2 DEF SamplesOK
        <4>2. /\ samples[k].value = Value(scrapes[r[1]][i], SeriesOf(r)) /\ samples[k].value \in Nat
              /\ \A h \in DOMAIN scrapes[r[1]] : scrapes[r[1]][h].time = samples[k].time => h = i
          BY ONLY <3>1, <3>2, <4>1, IInv, HistoryOK, SamplesOK, SampleOf
        <4>3. j = i
          BY <1>6, <3>1, <4>2
        <4> QED BY <4>2, <4>3
      <3>5. ~(samples[k].value < entry[r].resetValue)
        <4>1. samples[k].value < entry[r].resetValue => entry[r].resetValue = 0
          BY <3>3 DEF Adjusts
        <4> QED BY <1>5, <3>4, <4>1
      <3> QED BY <1>5, <3>4, <3>5
    <2> QED BY <2>1, <2>2
  <1>7. NotBelow(r, entry[r], a)'
    BY <1>1, <1>2, <1>6 DEF NotBelow, Left
  <1> QED BY <1>3, <1>4, <1>7

\* The reset value of r is about the j-th scrape or an earlier one.
Begins(r, a, j) ==
    \/ FromScrape(r, entry[r], a) /\ a <= j
    \/ AfterRestart(r, entry[r], a) /\ a < j

\* A value below the reset value tells that the process has started again since
\* the scrape before.
LEMMA ResetNoticed ==
  ASSUME IInv, HistoryOK, SamplesOK, NEW r \in Refs, NEW k \in DOMAIN samples, samples[k].ref = r,
         samples[k].time = First.time, entry[r].hasReset, NEW j \in DOMAIN scrapes[r[1]],
         SampledAt(k, j), NEW a \in DOMAIN scrapes[r[1]], StartsAt(r, entry[r], a),
         NotBelow(r, entry[r], a), samples[k].value < entry[r].resetValue
  PROVE  /\ j - 1 \in DOMAIN scrapes[r[1]] /\ j \in Nat /\ a < j
         /\ scrapes[r[1]][j - 1].base # scrapes[r[1]][j].base
         /\ ~Left(r, scrapes[r[1]][j - 1].time)
  <1> DEFINE p == r[1]
             s == SeriesOf(r)
  <1>0. /\ TypeOK /\ RecordOK /\ p \in Targets /\ s \in Series /\ samples # <<>>
    <2>1. samples # <<>>
      BY SeqShape DEF IInv, TypeOK
    <2> QED BY <2>1, SeriesType DEF IInv, TypeOK
  <1>1. /\ j \in Nat /\ samples[k].time = scrapes[p][j].time /\ samples[k].time \in Nat
        /\ samples[k].value = Value(scrapes[p][j], s) /\ samples[k].value \in Nat
        /\ \A i \in DOMAIN scrapes[p] : scrapes[p][i].time <= samples[k].time <=> i <= j
        /\ \A i \in DOMAIN scrapes[p] : i < j => scrapes[p][i].time < samples[k].time
    BY SampleOf
  <1>2. FromScrape(r, entry[r], a)
    BY <1>1 DEF StartsAt, AfterRestart
  <1>3. entry[r].resetValue = Value(scrapes[p][a], s) /\ entry[r].resetTimestamp = scrapes[p][a].time
    BY <1>2 DEF FromScrape
  <1>4. scrapes[p][a].time \in Nat /\ a \in Nat /\ ProcessOK(scrapes[p][a])
    BY <1>0, ScrapeIndex DEF HistoryOK
  <1>5. scrapes[p][a].time <= samples[k].time
    <2>1. \/ entry[r].resetTimestamp < samples[k].time
          \/ entry[r].resetTimestamp = samples[k].time
      BY DEF IInv, ResetsOK
    <2> QED BY <1>1, <1>3, <1>4, <2>1
  <1>6. a # j
    BY <1>1, <1>3
  <1>7. a < j
    BY <1>1, <1>4, <1>5, <1>6
  <1>8. PICK b \in DOMAIN scrapes[p] : b = j - 1 /\ a <= b /\ b < j /\ b <= j
    <2>1. DOMAIN scrapes[p] = 1..Len(scrapes[p]) /\ Len(scrapes[p]) \in Nat
      BY <1>0, ScrapeIndex
    <2>2. j - 1 \in DOMAIN scrapes[p] /\ a <= j - 1 /\ j - 1 < j /\ j - 1 <= j
      BY <1>7, <2>1
    <2> QED BY <2>2
  <1>9. ~Left(r, scrapes[p][b].time)
    <2>1. scrapes[p][b].time < First.time /\ scrapes[p][b].time \in Nat /\ First.time \in Nat
      BY <1>0, <1>1, <1>8 DEF HistoryOK
    <2>2. \A l \in DOMAIN samples : First.time <= samples[l].time /\ samples[l].time \in Nat
      BY <1>0, FirstOK DEF RecordOK
    <2>3. \A l \in DOMAIN samples : samples[l].time # scrapes[p][b].time
      BY <2>1, <2>2
    <2> QED BY <2>3 DEF Left
  <1>10. Value(scrapes[p][b], s) >= entry[r].resetValue
    BY <1>8, <1>9 DEF NotBelow
  <1>11. scrapes[p][b].base # scrapes[p][j].base
    <2>1. ProcessOK(scrapes[p][b]) /\ ProcessOK(scrapes[p][j]) /\ Later(scrapes[p][b], scrapes[p][j])
      BY <1>0, <1>8, LaterAt
    <2>2. PICK e, c, f, d \in Nat :
             /\ e = Seen(scrapes[p][b].events, s) /\ c = Seen(scrapes[p][b].base, s)
             /\ f = Seen(scrapes[p][j].events, s) /\ d = Seen(scrapes[p][j].base, s)
             /\ e <= f /\ (scrapes[p][b].base = scrapes[p][j].base => c = d)
      BY <1>0, <2>1, SeenOf
    <2>3. Value(scrapes[p][b], s) = e - c /\ Value(scrapes[p][j], s) = f - d
      BY <2>2 DEF Value
    <2>4. Value(scrapes[p][a], s) \in Nat
      BY <1>0, <1>4, ValueType
    <2> QED BY <1>1, <1>3, <1>10, <2>2, <2>3, <2>4
  <1> QED BY <1>1, <1>7, <1>8, <1>9, <1>11

\* The reset value of a series is about no later scrape than the sample that is left.
LEMMA StartsBefore ==
  ASSUME IInv, HistoryOK, SamplesOK, NEW r \in Refs, NEW k \in DOMAIN samples, samples[k].ref = r,
         entry[r].hasReset, NEW j \in DOMAIN scrapes[r[1]], SampledAt(k, j),
         NEW a \in DOMAIN scrapes[r[1]]
  PROVE  /\ FromScrape(r, entry[r], a) => a <= j
         /\ AfterRestart(r, entry[r], a) => a < j
  <1> DEFINE p == r[1]
  <1>0. TypeOK /\ p \in Targets
    BY SeriesType DEF IInv, TypeOK
  <1>1. /\ j \in Nat /\ samples[k].time = scrapes[p][j].time /\ samples[k].time \in Nat
        /\ \A i \in DOMAIN scrapes[p] : samples[k].time < scrapes[p][i].time <=> j < i
    BY SampleOf
  <1>2. entry[r].resetTimestamp \in Int /\ entry[r].resetTimestamp <= samples[k].time
    <2>1. \/ entry[r].resetTimestamp < samples[k].time
          \/ entry[r].resetTimestamp = samples[k].time
      BY DEF IInv, ResetsOK
    <2>2. entry[r].resetTimestamp \in Int
      BY DEF IInv, ResetsOK
    <2> QED BY <1>1, <2>1, <2>2
  <1>3. scrapes[p][a].time \in Nat /\ a \in Nat
    BY <1>0, ScrapeIndex DEF HistoryOK
  <1>4. ASSUME FromScrape(r, entry[r], a) PROVE a <= j
    <2>1. ~(samples[k].time < scrapes[p][a].time)
      BY <1>1, <1>2, <1>3, <1>4 DEF FromScrape
    <2> QED BY <1>1, <1>3, <2>1
  <1>5. ASSUME AfterRestart(r, entry[r], a) PROVE a < j
    <2>1. /\ a + 1 \in DOMAIN scrapes[p] /\ entry[r].resetTimestamp = scrapes[p][a + 1].time - 1
          /\ ~Left(r, scrapes[p][a].time)
      BY <1>5 DEF AfterRestart
    <2>2. a < a + 1
      BY <1>3
    <2>3. scrapes[p][a].time < scrapes[p][a + 1].time /\ scrapes[p][a + 1].time \in Nat
      BY <1>0, <2>1, <2>2 DEF HistoryOK
    <2>4. ~(samples[k].time < scrapes[p][a].time)
      BY <1>1, <1>2, <1>3, <2>1, <2>3
    <2>5. a # j
      BY <1>1, <2>1 DEF Left
    <2> QED BY <1>1, <1>3, <2>4, <2>5
  <1> QED BY <1>4, <1>5

\* What getResetAdjusted leaves when the value has fallen.
LEMMA RestartNoticed ==
  ASSUME IInv, HistoryOK, SamplesOK, StartsOK, NEW m \in Nat, Calls(m),
         NEW r \in Refs, Reported(r), NEW k \in DOMAIN samples, Adjusts(r, k), entry[r].hasReset,
         samples[k].value < entry[r].resetValue, NEW j \in DOMAIN scrapes[r[1]], SampledAt(k, j)
  PROVE  \E a \in DOMAIN scrapes[r[1]] : a < j /\ AfterRestart(r, entry[r], a)'
  <1> DEFINE p == r[1]
  <1>0. TypeOK /\ p \in Targets
    BY SeriesType DEF IInv, TypeOK
  <1>1. scrapes' = scrapes /\ Rest(m)
    BY DEF Calls
  <1>2. /\ samples[k].ref = r /\ samples[k].time = First.time
        /\ entry'[r].resetTimestamp = First.time - 1 /\ entry'[r].resetValue = 0
    BY DEF Adjusts
  <1>3. j \in Nat /\ samples[k].time = scrapes[p][j].time
    BY <1>2, SampleOf
  <1>4. PICK a \in DOMAIN scrapes[p] : StartsAt(r, entry[r], a) /\ NotBelow(r, entry[r], a)
    BY DEF StartsOK
  <1>5. PICK b \in DOMAIN scrapes[p] :
           /\ b = j - 1 /\ scrapes[p][b].base # scrapes[p][j].base /\ ~Left(r, scrapes[p][b].time)
    BY <1>2, <1>4, ResetNoticed
  <1>6. b + 1 = j /\ b < j
    BY <1>3, <1>5
  <1>7. ~Left(r, scrapes[p][b].time)'
    <2>1. PICK w : w = scrapes[p][b].time
      OBVIOUS
    <2>2. ~Left(r, w)'
      BY <1>0, <1>1, <1>5, <2>1, LeftBefore
    <2> QED BY <1>1, <2>1, <2>2 DEF Left
  <1>8. AfterRestart(r, entry[r], b)'
    BY <1>1, <1>2, <1>3, <1>5, <1>6, <1>7 DEF AfterRestart
  <1> QED BY <1>6, <1>8

\* What getResetAdjusted leaves for a sample of the j-th scrape.
LEMMA Begun ==
  ASSUME IInv, HistoryOK, SamplesOK, LaterLeft, StartsOK, NEW m \in Nat, Calls(m), samples # <<>>,
         NEW r \in Refs, Reported(r), NEW k \in DOMAIN samples, Adjusts(r, k),
         NEW j \in DOMAIN scrapes[r[1]], SampledAt(k, j)
  PROVE  \E a \in DOMAIN scrapes[r[1]] : Begins(r, a, j)' /\ NotBelow(r, entry[r], a)'
  <1> DEFINE p == r[1]
             s == SeriesOf(r)
             v == samples[k].value
  <1>0. TypeOK /\ RecordOK /\ p \in Targets /\ s \in Series
    BY SeriesType DEF IInv, TypeOK
  <1>1. scrapes' = scrapes /\ layout' = layout /\ Rest(m) /\ SeriesOf(r)' = s
    BY DEF Calls, SeriesOf
  <1>2. samples[k].ref = r /\ samples[k].time = First.time /\ entry'[r].lookup = "populated"
    BY DEF Adjusts
  <1>3. /\ j \in Nat /\ samples[k].time = scrapes[p][j].time /\ samples[k].time \in Nat
        /\ v = Value(scrapes[p][j], s) /\ v \in Nat
        /\ \A i \in DOMAIN scrapes[p] : samples[k].time < scrapes[p][i].time <=> j < i
    BY <1>2, SampleOf
  <1>4. \A i \in DOMAIN scrapes[p] : i \in Nat /\ Value(scrapes[p][i], s) \in Nat
    BY <1>0, ScrapeIndex, ValueType DEF HistoryOK
  <1>5. CASE ~entry[r].hasReset
    <2>1. entry'[r].resetTimestamp = First.time /\ entry'[r].resetValue = v
      BY <1>5 DEF Adjusts
    <2>2. FromScrape(r, entry[r], j)' /\ j <= j
      <3>1. /\ entry'[r].resetTimestamp = scrapes'[r[1]][j].time
            /\ entry'[r].resetValue = Value(scrapes'[r[1]][j], SeriesOf(r)')
        BY <1>1, <1>2, <1>3, <2>1
      <3> QED BY <1>3, <3>1 DEF FromScrape
    <2>3. ASSUME NEW i \in DOMAIN scrapes[p], j <= i, NEW w, w = scrapes[p][i].time, ~Left(r, w)'
          PROVE  i = j
      <3> SUFFICES ASSUME i # j PROVE FALSE
        OBVIOUS
      <3>1. samples[k].time < w /\ w \in Nat
        BY <1>0, <1>3, <1>4, <2>3 DEF HistoryOK
      <3>2. Left(r, w)
        BY <1>2, <2>3, <3>1 DEF LaterLeft
      <3>3. PICK l \in 1..(m - 1) : samples[l].ref = r /\ samples[l].time = w
        BY <1>0, <1>1, <2>3, <3>2, LeftBefore
      <3>4. Adjusts(r, l)
        BY <1>2, <3>3 DEF Calls
      <3> QED BY <1>2, <1>3, <3>1, <3>3, <3>4 DEF Adjusts
    <2>4. NotBelow(r, entry[r], j)'
      <3>1. ASSUME NEW i \in DOMAIN scrapes[p], j <= i, NEW w, w = scrapes[p][i].time, ~Left(r, w)'
            PROVE  Value(scrapes[p][i], s) >= v
        BY <1>3, <2>3, <3>1
      <3> QED BY <1>1, <2>1, <3>1 DEF NotBelow, Left
    <2> QED BY <2>2, <2>4 DEF Begins
  <1>6. CASE entry[r].hasReset
    <2>1. PICK a \in DOMAIN scrapes[p] : StartsAt(r, entry[r], a) /\ NotBelow(r, entry[r], a)
      BY <1>6 DEF StartsOK
    <2>2. CASE v < entry[r].resetValue
      <3>1. PICK b \in DOMAIN scrapes[p] : b < j /\ AfterRestart(r, entry[r], b)'
        BY <1>6, <2>2, <1>3, RestartNoticed
      <3>2. NotBelow(r, entry[r], b)'
        <4>1. \A i \in DOMAIN scrapes[p] : Value(scrapes[p][i], s) >= 0
          BY <1>4
        <4>2. entry'[r].resetValue = 0
          BY <3>1 DEF AfterRestart
        <4> QED BY <1>1, <4>1, <4>2 DEF NotBelow
      <3> QED BY <3>1, <3>2 DEF Begins
    <2>3. CASE ~(v < entry[r].resetValue)
      <3>1. /\ entry'[r].resetTimestamp = entry[r].resetTimestamp
            /\ entry'[r].resetValue = entry[r].resetValue
        BY <1>6, <2>3 DEF Adjusts
      <3>2. /\ FromScrape(r, entry[r], a) => FromScrape(r, entry[r], a)'
            /\ AfterRestart(r, entry[r], a) => AfterRestart(r, entry[r], a)'
            /\ NotBelow(r, entry[r], a)'
        BY <1>2, <1>6, <2>1, <3>1, StartKept
      <3>3. /\ FromScrape(r, entry[r], a) => a <= j
            /\ AfterRestart(r, entry[r], a) => a < j
        BY <1>2, <1>6, StartsBefore
      <3> QED BY <2>1, <3>2, <3>3 DEF Begins, StartsAt
    <2> QED BY <2>2, <2>3
  <1> QED BY <1>5, <1>6

\* The reset values.
StartOK(r) ==
    /\ entry[r].hasReset => entry[r].lookup = "populated"
    /\ Reported(r) /\ entry[r].hasReset =>
         \E a \in DOMAIN scrapes[r[1]] : StartsAt(r, entry[r], a) /\ NotBelow(r, entry[r], a)

\* They stay right as long as the entry does.
LEMMA StartStays ==
  ASSUME NEW r \in Refs, StartOK(r), layout' = layout, samples' = samples, scrapes' = scrapes,
         entry'[r] = entry[r]
  PROVE  StartOK(r)'
  BY DEF StartOK, StartsAt, FromScrape, AfterRestart, NotBelow, Left, Reported, SeriesOf

\* Every step keeps them right.
LEMMA StartsStep ==
  ASSUME IInv, HistoryOK, SamplesOK, fed = [r \in Refs |-> fed[r]], LaterLeft, StartsOK, [Next]_vars
  PROVE  StartsOK'
  <1>0. TypeOK /\ RecordOK /\ \A r \in Refs : StartOK(r)
    BY DEF IInv, StartsOK, StartOK
  <1>2. layout' = layout /\ Refs' = Refs
    <2>1. layout' = layout
      BY <1>0, StepKinds DEF SameValues, Calls, Scrape, RefreshIsDue, Replace, inputVars
    <2> QED BY <2>1, RefsSame
  <1>3. SUFFICES ASSUME NEW r \in Refs PROVE StartOK(r)'
    BY <1>2 DEF StartsOK, StartOK
  <1> DEFINE p == r[1]
  <1>1. p \in Targets
    BY <1>0, SeriesType DEF TypeOK
  <1>4. CASE SameValues
    BY <1>0, <1>4, StartStays DEF SameValues
  <1>5. CASE \E answer \in Answers : samples # <<>> /\ BuildNext(answer) /\ \E m \in Nat : Calls(m)
    <2>1. PICK m \in Nat : Calls(m) /\ samples # <<>>
      BY <1>5
    <2>2. /\ scrapes' = scrapes /\ Reported(r)' = Reported(r)
          /\ entry[r].lookup = "populated" => entry'[r].lookup = "populated"
          /\ ValueKept(r) \/ \E k \in DOMAIN samples : Adjusts(r, k)
      BY <2>1 DEF Calls, Reported, SeriesOf
    <2>3. CASE ValueKept(r)
      <3>1. entry'[r].hasReset = entry[r].hasReset
        BY <2>3 DEF ValueKept
      <3>2. ASSUME Reported(r), entry[r].hasReset
            PROVE  \E a \in DOMAIN scrapes[p] : StartsAt(r, entry[r], a)' /\ NotBelow(r, entry[r], a)'
        <4>1. PICK a \in DOMAIN scrapes[p] : StartsAt(r, entry[r], a) /\ NotBelow(r, entry[r], a)
          BY <1>0, <3>2 DEF StartOK
        <4>2. entry'[r].lookup = "populated"
          BY <1>0, <2>2, <3>2 DEF StartOK
        <4>3. /\ FromScrape(r, entry[r], a) => FromScrape(r, entry[r], a)'
              /\ AfterRestart(r, entry[r], a) => AfterRestart(r, entry[r], a)'
              /\ NotBelow(r, entry[r], a)'
          BY <2>1, <2>3, <3>2, <4>1, <4>2, StartKept DEF ValueKept
        <4> QED BY <4>1, <4>3 DEF StartsAt
      <3> QED BY <1>0, <2>2, <3>1, <3>2 DEF StartOK
    <2>4. CASE \E k \in DOMAIN samples : Adjusts(r, k)
      <3>1. PICK k \in DOMAIN samples : Adjusts(r, k)
        BY <2>4
      <3>2. samples[k].ref = r /\ entry'[r].lookup = "populated"
        BY <3>1 DEF Adjusts
      <3>3. PICK j \in DOMAIN scrapes[p] : SampledAt(k, j)
        BY <3>2 DEF SamplesOK
      <3>4. Reported(r) => \E a \in DOMAIN scrapes[p] : Begins(r, a, j)' /\ NotBelow(r, entry[r], a)'
        BY <2>1, <3>1, <3>3, Begun
      <3> QED BY <2>2, <3>2, <3>4 DEF StartOK, Begins, StartsAt
    <2> QED BY <2>2, <2>3, <2>4
  <1>6. CASE \E q \in Targets, t \in 1..MaxTime, n \in 1..2 : Scrape(q, t, n)
    <2>1. PICK q \in Targets, t \in 1..MaxTime, n \in 1..2 : Scrape(q, t, n)
      BY <1>6
    <2>2. entry' = entry /\ samples = <<>>
      BY <2>1 DEF Scrape
    <2>3. Extends(p) /\ HistoryOK'
      BY <1>1, <2>1, ScrapeHistory
    <2>4. SUFFICES ASSUME Reported(r), entry[r].hasReset
                   PROVE  \E a \in DOMAIN scrapes'[p] : StartsAt(r, entry[r], a)' /\ NotBelow(r, entry[r], a)'
      BY <1>0, <1>2, <2>2 DEF StartOK, Reported, SeriesOf
    <2>5. PICK a \in DOMAIN scrapes[p] : StartsAt(r, entry[r], a) /\ NotBelow(r, entry[r], a)
      BY <1>0, <2>4 DEF StartOK
    <2>6. SeriesOf(r)' = SeriesOf(r)
      BY <1>2 DEF SeriesOf
    <2>7. /\ \A i \in DOMAIN scrapes[p] : i \in DOMAIN scrapes'[p] /\ scrapes'[p][i] = scrapes[p][i]
      BY <2>3 DEF Extends
    <2>8. ASSUME NEW i \in DOMAIN scrapes[p], NEW w, w = scrapes[p][i].time PROVE ~Left(r, w)'
      <3> SUFFICES ASSUME NEW l \in DOMAIN samples', samples'[l].ref = r, samples'[l].time = w PROVE FALSE
        BY DEF Left
      <3>1. /\ p = q /\ samples'[l].time \in Nat
            /\ \A h \in DOMAIN scrapes[q] : scrapes[q][h].time < samples'[l].time
        BY <2>1, ScrapeIsLater
      <3>2. w < w /\ w \in Nat
        BY <2>8, <3>1
      <3> QED BY <3>2
    <2>9. StartsAt(r, entry[r], a)'
      <3>1. CASE FromScrape(r, entry[r], a)
        BY <2>2, <2>6, <2>7, <3>1 DEF StartsAt, FromScrape
      <3>2. CASE AfterRestart(r, entry[r], a)
        <4>1. ~Left(r, scrapes[p][a].time)'
          BY <2>7, <2>8 DEF Left
        <4> QED BY <2>2, <2>7, <3>2, <4>1 DEF StartsAt, AfterRestart
      <3> QED BY <2>5, <3>1, <3>2 DEF StartsAt
    <2>10. DOMAIN samples = {}
      BY <1>0, <2>2, SeqShape DEF TypeOK
    <2>11. ASSUME NEW i \in DOMAIN scrapes'[p], a <= i, NEW w, w = scrapes'[p][i].time, ~Left(r, w)'
           PROVE  Value(scrapes'[p][i], SeriesOf(r)) >= entry[r].resetValue
      <3>1. CASE i \in DOMAIN scrapes[p]
        <4>1. ~Left(r, scrapes[p][i].time)
          BY <2>10 DEF Left
        <4> QED BY <2>5, <2>7, <2>11, <3>1, <4>1 DEF NotBelow
      <3>2. CASE i \notin DOMAIN scrapes[p]
        <4>1. CASE p = q
          <5>1. Left(r, w)'
            BY <2>1, <2>11, <3>2, <4>1, ScrapeLeaves
          <5> QED BY <2>11, <5>1
        <4>2. CASE p # q
          <5>1. PICK k \in Nat \ {0}, m \in Nat : Adds(q, t, n, k, m)
            BY <2>1, ScrapeAdds
          <5>2. scrapes'[p] = scrapes[p]
            BY <1>1, <4>2, <5>1 DEF Adds
          <5> QED BY <3>2, <5>2
        <4> QED BY <4>1, <4>2
      <3> QED BY <3>1, <3>2
    <2>12. NotBelow(r, entry[r], a)'
      BY <2>2, <2>6, <2>11 DEF NotBelow, Left
    <2> QED BY <2>7, <2>9, <2>12
  <1>7. CASE \E q \in Refs : RefreshIsDue(q)
    <2>1. PICK q \in Refs : RefreshIsDue(q)
      BY <1>7
    <2> DEFINE f == [entry[q] EXCEPT !.lookup = "due"]
    <2>2. /\ entry' = [entry EXCEPT ![q] = f] /\ samples' = samples /\ scrapes' = scrapes
          /\ entry[q].lookup = "waiting"
      BY <2>1 DEF RefreshIsDue
    <2>3. IsEntry(f) /\ f.hasReset = entry[q].hasReset
      BY <1>0, LookupFields DEF TypeOK
    <2> HIDE DEF f
    <2>4. entry'[q] = f /\ \A x \in Refs \ {q} : entry'[x] = entry[x]
      BY <1>0, <2>2, <2>3, EntryReplaced
    <2>5. r = q => ~entry'[r].hasReset
      BY <1>0, <2>2, <2>3, <2>4 DEF StartOK
    <2>6. r # q => StartOK(r)'
      BY <1>0, <1>2, <2>2, <2>4, StartStays
    <2> QED BY <2>5, <2>6 DEF StartOK
  <1>8. CASE \E q \in Refs : \E l : Replace(q, NewEntry(l))
    <2>1. PICK q \in Refs : \E l : Replace(q, NewEntry(l))
      BY <1>8
    <2>2. PICK l : Replace(q, NewEntry(l))
      BY <2>1
    <2>3. /\ entry' = [entry EXCEPT ![q] = NewEntry(l)] /\ samples' = samples /\ scrapes' = scrapes
      BY <2>2 DEF Replace
    <2>4. IsEntry(NewEntry(l)) /\ ~NewEntry(l).hasReset
      BY DEF IsEntry, NewEntry
    <2>5. entry'[q] = NewEntry(l) /\ \A x \in Refs \ {q} : entry'[x] = entry[x]
      BY <1>0, <2>3, <2>4, EntryReplaced
    <2>6. r = q => ~entry'[r].hasReset
      BY <2>4, <2>5
    <2>7. r # q => StartOK(r)'
      BY <1>0, <1>2, <2>3, <2>5, StartStays
    <2> QED BY <2>6, <2>7 DEF StartOK
  <1> QED BY <1>0, <1>4, <1>5, <1>6, <1>7, <1>8, StepKinds

-----------------------------------------------------------------------------
(* The points that are sent. *)

\* x is appended to the points of some hash.
Sends(x) == \E h \in Hashes : sent' = [sent EXCEPT ![h] = Append(@, x)]

\* x reports the k-th sample.
Reports(x, k) ==
    /\ samples[k].ref = x.ref /\ x.end = First.time
    /\ entry[x.ref].hasReset /\ Adjusts(x.ref, k)
    /\ x.start = entry'[x.ref].resetTimestamp
    /\ x.value = samples[k].value - entry'[x.ref].resetValue

\* updateSampleInterval.
LEMMA ProduceSends ==
  ASSUME NEW h \in Hashes, NEW x, Produce(h, x)
  PROVE  sent' = sent \/ Sends(x)
  BY DEF Produce, Sends

\* Counters.
LEMMA CounterSends ==
  ASSUME TypeOK, RecordOK, samples # <<>>, NEW answer, NextCounter(answer)
  PROVE  sent' = sent \/ \E x : /\ Sends(x) /\ x.ref = First.ref /\ Reports(x, 1)
                                /\ Reported(x.ref)
                                /\ SeriesOf(x.ref).kind = "counter"
  <1> DEFINE e == Tracked(answer)
             f == ResetAdjusted(e, First.time, First.value)
             x == [ref |-> First.ref, start |-> f.resetTimestamp,
                   end |-> First.time, value |-> First.value - f.resetValue,
                   buckets |-> <<>>, again |-> First \in handled]
  <1>1. /\ entry' = [entry EXCEPT ![First.ref] = f]
        /\ IF e.hasReset THEN Produce(FirstSeries.hash, x) ELSE sent' = sent
        /\ FirstSeries.exported /\ FirstSeries.kind = "counter"
        /\ Looked(answer, First.ref) = "populated"
    BY DEF NextCounter
  <1>2. /\ IsEntry(entry[First.ref]) /\ First.time \in Int
        /\ FirstSeries.hash \in Hashes /\ First.ref \in Refs
        /\ First = samples[1] /\ FirstSeries = SeriesOf(First.ref)
    BY FirstOK DEF FirstSeries
  <1>3. /\ IsEntry(e) /\ e.hasReset = entry[First.ref].hasReset
        /\ e.resetTimestamp = entry[First.ref].resetTimestamp
        /\ e.resetValue = entry[First.ref].resetValue
        /\ e.lookup = "populated"
    BY <1>1, <1>2, TrackedFields
  <1>4. /\ x.start = f.resetTimestamp /\ x.end = First.time /\ x.ref = First.ref
        /\ x.value = First.value - f.resetValue
    OBVIOUS
  <1> HIDE DEF e, x
  <1>5. /\ IsEntry(f) /\ f.hasReset /\ f.lookup = e.lookup
        /\ e.hasReset /\ First.value < e.resetValue =>
             f.resetTimestamp = First.time - 1 /\ f.resetValue = 0
        /\ e.hasReset /\ ~(First.value < e.resetValue) =>
             f.resetTimestamp = e.resetTimestamp /\ f.resetValue = e.resetValue
    BY <1>2, <1>3, ResetFields
  <1> HIDE DEF f
  <1>6. entry'[First.ref] = f
    BY <1>1, <1>2, <1>5, EntryReplaced
  <1>7. ASSUME e.hasReset PROVE Reports(x, 1) /\ Reported(x.ref)
    <2>1. Adjusts(x.ref, 1)
      BY <1>2, <1>3, <1>4, <1>5, <1>6, <1>7 DEF Adjusts
    <2> QED BY <1>1, <1>2, <1>3, <1>4, <1>6, <1>7, <2>1 DEF Reports, Reported
  <1>8. CASE ~e.hasReset
    BY <1>1, <1>8
  <1>9. CASE e.hasReset
    <2>1. sent' = sent \/ Sends(x)
      BY <1>1, <1>2, <1>9, ProduceSends
    <2> QED BY <1>1, <1>2, <1>4, <1>7, <1>9, <2>1
  <1> QED BY <1>8, <1>9

\* The point of a histogram: that of its last _count.
LEMMA HistogramSends ==
  ASSUME TypeOK, RecordOK, SamplesOK, samples # <<>>, NEW answer, NextHistogram(answer)
  PROVE  \/ sent' = sent
         \/ \E c \in OfPart(answer, "count") :
              LET x == HistogramPoint(answer)
              IN /\ Sends(x) /\ ~Broken(answer) /\ ~Skips(answer)
                 /\ c \in DOMAIN samples /\ x.ref = samples[c].ref /\ Reports(x, c)
                 /\ x.buckets = BucketCounts(Dist(answer))
                 /\ ExportedWhole => SeriesOf(x.ref).exported
  <1>1. CASE interval' = interval /\ sent' = sent
    BY <1>1
  <1>2. CASE /\ ~Broken(answer) /\ ~Skips(answer) /\ OfPart(answer, "count") # {}
             /\ Produce(FirstSeries.hash, HistogramPoint(answer))
    <2> DEFINE T == OfPart(answer, "count")
               x == HistogramPoint(answer)
    <2>1. PICK c : c = Max(T)
      OBVIOUS
    <2>2. c \in T
      <3>1. Len(samples) \in Nat /\ DOMAIN samples = 1..Len(samples)
        BY SeqShape DEF TypeOK
      <3>2. T \subseteq 0..Len(samples) /\ T # {}
        BY <1>2, <3>1, AdjustedIs DEF OfPart
      <3> QED BY <2>1, <3>1, <3>2, MaxIsElement
    <2>3. /\ c \in Run(answer) /\ SeriesOf(samples[c].ref).part = "count"
          /\ c \in Adjusted(answer) /\ c \in DOMAIN samples /\ samples[c].ref \in Refs
          /\ SameMetric(samples[c].ref)
      BY <2>2, AdjustedIs DEF OfPart
    <2>4. /\ x.ref = samples[c].ref /\ x.start = After(answer, c).resetTimestamp
          /\ x.end = First.time /\ x.value = ValueOf(answer, c)
          /\ x.buckets = BucketCounts(Dist(answer))
      BY <2>1 DEF HistogramPoint
    <2> HIDE DEF x, T
    <2>5. entry'[x.ref] = After(answer, c) /\ Adjusts(x.ref, c)
      BY <2>3, <2>4, AfterAdjusts
    <2>6. entry[x.ref].hasReset
      <3>1. c \notin OfPart(answer, "badle")
        BY <2>3 DEF OfPart
      <3>2. Before(answer, samples[c].ref).hasReset
        BY <1>2, <2>3, <3>1 DEF Skips
      <3> QED BY <2>3, <2>4, <3>2, BeforeFields
    <2>7. Reports(x, c)
      BY <2>4, <2>5, <2>6 DEF Reports, ValueOf
    <2>8. FirstSeries.hash \in Hashes
      BY FirstOK
    <2>9. sent' = sent \/ Sends(x)
      BY <1>2, <2>8, ProduceSends DEF x
    <2>10. ASSUME ExportedWhole PROVE SeriesOf(x.ref).exported
      <3>1. /\ First.ref \in Refs /\ FirstSeries = SeriesOf(First.ref)
            /\ First = samples[1] /\ 1 \in DOMAIN samples
        BY FirstOK DEF FirstSeries
      <3>2. PICK p \in Targets : p = First.ref[1] /\ p = x.ref[1]
        BY <2>3, <2>4, <3>1, SeriesType DEF SamplesOK, TypeOK
      <3>3. First.ref[2] \in DOMAIN layout[p] /\ x.ref[2] \in DOMAIN layout[p] /\ layout \in Layouts
        BY <2>3, <2>4, <3>1, <3>2, SeriesType DEF TypeOK
      <3>4. /\ FirstSeries = layout[p][First.ref[2]] /\ SeriesOf(x.ref) = layout[p][x.ref[2]]
        BY <3>1, <3>2 DEF SeriesOf
      <3>5. FirstSeries.kind = "histogram" /\ FirstSeries.exported
        BY HistogramIs
      <3>6. SeriesOf(x.ref).part \in Parts /\ SeriesOf(x.ref).metric = FirstSeries.metric
        BY <2>3, <2>4 DEF Parts, SameMetric
      <3> QED BY <2>10, <3>2, <3>3, <3>4, <3>5, <3>6 DEF ExportedWhole
    <2> QED BY <1>2, <2>2, <2>3, <2>4, <2>7, <2>9, <2>10 DEF x, T
  <1> QED BY <1>1, <1>2, HistogramIs

\* What a call of next sends.
LEMMA NextSends ==
  ASSUME ExportedWhole, TypeOK, RecordOK, SamplesOK, samples # <<>>, NEW answer, BuildNext(answer)
  PROVE  \/ sent' = sent
         \/ \E x : /\ Sends(x) /\ x.ref \in Refs
                   /\ Cumulative(x) => \E k \in DOMAIN samples : Reports(x, k) /\ Reported(x.ref)
  <1>1. First.ref \in Refs /\ FirstSeries.hash \in Hashes /\ 1 \in DOMAIN samples
    BY FirstOK
  <1>2. CASE NextFails(answer) \/ NextUnknown(answer) \/ NextUnexported(answer)
    BY <1>2 DEF NextFails, NextUnknown, NextUnexported
  <1>3. CASE NextGauge(answer)
    <2> DEFINE x == [ref |-> First.ref, start |-> 0, end |-> First.time,
                     value |-> First.value, buckets |-> <<>>, again |-> FALSE]
    <2>1. Produce(FirstSeries.hash, x) /\ FirstSeries.kind = "gauge"
      BY <1>3 DEF NextGauge
    <2>2. x.ref = First.ref
      OBVIOUS
    <2> HIDE DEF x
    <2>3. sent' = sent \/ Sends(x)
      BY <1>1, <2>1, ProduceSends
    <2>4. ~Cumulative(x)
      BY <2>1, <2>2 DEF Cumulative, FirstSeries
    <2> QED BY <1>1, <2>2, <2>3, <2>4
  <1>4. CASE NextCounter(answer)
    BY <1>1, <1>4, CounterSends
  <1>5. CASE NextHistogram(answer)
    <2>1. CASE sent' = sent
      BY <2>1
    <2>2. CASE sent' # sent
      <3>1. PICK c \in OfPart(answer, "count") :
              LET x == HistogramPoint(answer)
              IN /\ Sends(x) /\ c \in DOMAIN samples /\ x.ref = samples[c].ref /\ Reports(x, c)
                 /\ SeriesOf(x.ref).exported
        BY <1>5, <2>2, HistogramSends
      <3>2. PICK x : x = HistogramPoint(answer)
        OBVIOUS
      <3>3. /\ Sends(x) /\ c \in DOMAIN samples /\ x.ref = samples[c].ref /\ Reports(x, c)
            /\ SeriesOf(x.ref).exported
        BY <3>1, <3>2
      <3> QED BY <3>3 DEF RecordOK, Cumulative, Reported
    <2> QED BY <2>1, <2>2
  <1> QED BY <1>2, <1>3, <1>4, <1>5 DEF BuildNext

\* The last scrape at or before a time is the same when there are more.
LEMMA LastAtStays ==
  ASSUME TypeOK, HistoryOK, NEW p \in Targets, Extends(p), NEW t, NEW a \in DOMAIN scrapes[p],
         LastAt(p, t, a)
  PROVE  LastAt(p, t, a)' /\ a \in DOMAIN scrapes'[p] /\ scrapes'[p][a] = scrapes[p][a]
  <1>1. /\ t \in Int /\ \A j \in DOMAIN scrapes[p] : scrapes[p][j].time <= t <=> j <= a
    BY DEF LastAt
  <1>2. PICK i \in DOMAIN scrapes[p] : t <= scrapes[p][i].time
    BY DEF LastAt
  <1>3. /\ \A j \in DOMAIN scrapes[p] : j \in DOMAIN scrapes'[p] /\ scrapes'[p][j] = scrapes[p][j]
        /\ scrapes[p][i].time \in Nat /\ a \in Nat
    BY ScrapeIndex DEF Extends, HistoryOK
  <1>4. ASSUME NEW j \in DOMAIN scrapes'[p]
        PROVE  scrapes'[p][j].time <= t <=> j <= a
    <2>1. CASE j \in DOMAIN scrapes[p]
      BY <1>1, <1>3, <2>1
    <2>2. CASE j \notin DOMAIN scrapes[p]
      <3>1. scrapes'[p][j].time \in Nat /\ j \in Nat /\ a < j /\ scrapes[p][i].time < scrapes'[p][j].time
        BY <2>2 DEF Extends
      <3> QED BY <1>1, <1>2, <1>3, <3>1
    <2> QED BY <2>1, <2>2
  <1>5. \E j \in DOMAIN scrapes'[p] : t <= scrapes'[p][j].time
    BY <1>2, <1>3
  <1> QED BY <1>1, <1>3, <1>4, <1>5 DEF LastAt

\* A point that counts no more than what happened.
LEMMA NotOverStays ==
  ASSUME TypeOK, HistoryOK, NEW x, x.ref[1] \in Targets, Extends(x.ref[1]), layout' = layout,
         NotOver(x)
  PROVE  NotOver(x)'
  <1>1. PICK p \in Targets : p = x.ref[1]
    OBVIOUS
  <1>2. PICK a, b \in DOMAIN scrapes[p] :
           /\ LastAt(p, x.start, a) /\ LastAt(p, x.end, b)
           /\ x.value <= Seen(scrapes[p][b].events, SeriesOf(x.ref))
                         - Seen(scrapes[p][a].events, SeriesOf(x.ref))
    BY <1>1 DEF NotOver
  <1>3. /\ LastAt(p, x.start, a)' /\ a \in DOMAIN scrapes'[p] /\ scrapes'[p][a] = scrapes[p][a]
        /\ LastAt(p, x.end, b)' /\ b \in DOMAIN scrapes'[p] /\ scrapes'[p][b] = scrapes[p][b]
    BY <1>1, <1>2, LastAtStays
  <1>4. SeriesOf(x.ref)' = SeriesOf(x.ref)
    BY DEF SeriesOf
  <1> QED BY <1>1, <1>2, <1>3, <1>4 DEF NotOver

\* The scrape before the one after a time.
LEMMA JustBefore ==
  ASSUME TypeOK, HistoryOK, NEW p \in Targets, NEW a \in DOMAIN scrapes[p],
         a + 1 \in DOMAIN scrapes[p]
  PROVE  LastAt(p, scrapes[p][a + 1].time - 1, a)
  <1>1. \A i \in DOMAIN scrapes[p] : i \in Nat /\ scrapes[p][i].time \in Nat
    BY ScrapeIndex DEF HistoryOK
  <1>2. PICK t \in Nat : t = scrapes[p][a + 1].time
    BY <1>1
  <1>3. ASSUME NEW j \in DOMAIN scrapes[p] PROVE scrapes[p][j].time <= t - 1 <=> j <= a
    <2>1. j < a + 1 \/ j = a + 1 \/ a + 1 < j
      BY <1>1
    <2>2. j < a + 1 => scrapes[p][j].time < t
      BY <1>2 DEF HistoryOK
    <2>3. a + 1 < j => t < scrapes[p][j].time
      BY <1>2 DEF HistoryOK
    <2> QED BY <1>1, <1>2, <2>1, <2>2, <2>3
  <1>4. t - 1 \in Int /\ t - 1 <= t
    OBVIOUS
  <1> QED BY <1>2, <1>3, <1>4 DEF LastAt

\* The time of a scrape.
LEMMA LastAtTime ==
  ASSUME TypeOK, HistoryOK, NEW p \in Targets, NEW a \in DOMAIN scrapes[p]
  PROVE  LastAt(p, scrapes[p][a].time, a)
  <1>1. scrapes[p][a].time \in Nat
    BY DEF HistoryOK
  <1>2. scrapes[p][a].time <= scrapes[p][a].time /\ scrapes[p][a].time \in Int
    BY <1>1
  <1> QED BY <1>2, AtItsTime DEF LastAt

\* The point that reports a sample counts no more than what happened.
LEMMA PointNotOver ==
  ASSUME IInv, HistoryOK, SamplesOK, LaterLeft, StartsOK, NEW m \in Nat, Calls(m), samples # <<>>,
         NEW x, x.ref \in Refs, NEW k \in DOMAIN samples, Reports(x, k), Reported(x.ref)
  PROVE  NotOver(x)'
  <1>1. PICK r \in Refs : r = x.ref
    OBVIOUS
  <1> DEFINE p == r[1]
             s == SeriesOf(r)
  <1>0. TypeOK /\ p \in Targets /\ s \in Series
    BY SeriesType DEF IInv, TypeOK
  <1>2. /\ samples[k].ref = r /\ x.end = First.time /\ samples[k].time = First.time
        /\ Adjusts(r, k) /\ x.start = entry'[r].resetTimestamp
        /\ x.value = samples[k].value - entry'[r].resetValue
    BY <1>1 DEF Reports, Adjusts
  <1>3. PICK j \in DOMAIN scrapes[p] : SampledAt(k, j)
    BY <1>2 DEF SamplesOK
  <1>4. scrapes' = scrapes /\ layout' = layout /\ SeriesOf(r)' = s
    BY DEF Calls, SeriesOf
  <1>5. PICK a \in DOMAIN scrapes[p] : Begins(r, a, j)'
    BY <1>1, <1>2, <1>3, Begun
  <1>6. x.end = scrapes[p][j].time /\ samples[k].value = Value(scrapes[p][j], s) /\ j \in Nat
    BY <1>2, <1>3, SampleOf
  <1>7. LastAt(p, x.end, j)
    BY <1>0, <1>6, LastAtTime
  <1>8. a \in Nat
    BY <1>0, ScrapeIndex
  <1>9. CASE FromScrape(r, entry[r], a)' /\ a <= j
    <2>1. x.start = scrapes[p][a].time /\ entry'[r].resetValue = Value(scrapes[p][a], s)
      BY <1>2, <1>4, <1>9 DEF FromScrape
    <2>2. LastAt(p, x.start, a)
      BY <1>0, <2>1, LastAtTime
    <2>3. ProcessOK(scrapes[p][a]) /\ ProcessOK(scrapes[p][j]) /\ Later(scrapes[p][a], scrapes[p][j])
      BY <1>0, <1>9, LaterAt
    <2>4. PICK e, b, f, c \in Nat :
             /\ e = Seen(scrapes[p][a].events, s) /\ b = Seen(scrapes[p][a].base, s)
             /\ f = Seen(scrapes[p][j].events, s) /\ c = Seen(scrapes[p][j].base, s)
             /\ b <= c
      BY <1>0, <2>3, SeenOf
    <2>5. x.value = (f - c) - (e - b)
      BY <1>2, <1>6, <2>1, <2>4 DEF Value
    <2>6. x.value <= f - e
      BY <2>4, <2>5
    <2> QED BY <1>1, <1>4, <1>7, <2>2, <2>4, <2>6 DEF NotOver, LastAt
  <1>10. CASE AfterRestart(r, entry[r], a)' /\ a < j
    <2>1. /\ x.start = scrapes[p][a + 1].time - 1 /\ entry'[r].resetValue = 0
          /\ a + 1 \in DOMAIN scrapes[p] /\ scrapes[p][a].base # scrapes[p][a + 1].base
      BY <1>2, <1>4, <1>10 DEF AfterRestart
    <2>2. LastAt(p, x.start, a)
      BY <1>0, <2>1, JustBefore
    <2>3. a <= a + 1 /\ a + 1 <= j
      BY <1>6, <1>8, <1>10
    <2>4. /\ ProcessOK(scrapes[p][a]) /\ ProcessOK(scrapes[p][a + 1]) /\ ProcessOK(scrapes[p][j])
          /\ Later(scrapes[p][a], scrapes[p][a + 1]) /\ Later(scrapes[p][a + 1], scrapes[p][j])
      BY <1>0, <2>1, <2>3, LaterAt
    <2>5. PICK y, z : y = scrapes[p][a + 1] /\ z = scrapes[p][a]
      OBVIOUS
    <2>10. s \in Series /\ ProcessOK(z) /\ ProcessOK(y) /\ Later(z, y)
      BY <1>0, <2>4, <2>5
    <2> HIDE DEF s
    <2>11. PICK e, b, f, c \in Nat :
              /\ e = Seen(z.events, s) /\ b = Seen(z.base, s)
              /\ f = Seen(y.events, s) /\ c = Seen(y.base, s)
              /\ b <= e /\ c <= f /\ e <= f /\ b <= c
              /\ z.base = y.base \/ e <= c
              /\ z.base = y.base => b = c
      BY ONLY <2>10, SeenOf
    <2>6. /\ e = Seen(scrapes[p][a].events, s) /\ b = Seen(scrapes[p][a].base, s)
          /\ f = Seen(y.events, s) /\ c = Seen(y.base, s)
          /\ scrapes[p][a].base = y.base \/ e <= c
      BY <2>5, <2>11
    <2> USE DEF s
    <2>7. PICK g, d, h, i \in Nat :
             /\ g = Seen(y.events, s) /\ d = Seen(y.base, s)
             /\ h = Seen(scrapes[p][j].events, s) /\ i = Seen(scrapes[p][j].base, s)
             /\ d <= i
      BY <1>0, <2>4, <2>5, SeenOf
    <2>8. x.value = (h - i) - 0
      BY <1>2, <1>6, <2>1, <2>7 DEF Value
    <2>9. x.value <= h - e
      BY <2>1, <2>5, <2>6, <2>7, <2>8
    <2> QED BY <1>1, <1>4, <1>7, <2>2, <2>6, <2>7, <2>9 DEF NotOver, LastAt
  <1> QED BY <1>5, <1>9, <1>10 DEF Begins

\* Which points there are after one more.
LEMMA SentAfter ==
  ASSUME PointsOK, NEW x, Sends(x), NEW h \in Hashes, NEW i \in DOMAIN sent'[h]
  PROVE  (i \in DOMAIN sent[h] /\ sent'[h][i] = sent[h][i]) \/ sent'[h][i] = x
  <1>1. PICK g \in Hashes : sent' = [sent EXCEPT ![g] = Append(@, x)]
    BY DEF Sends
  <1>2. sent = [f \in Hashes |-> sent[f]] /\ IsSeq(sent[h])
    BY DEF PointsOK
  <1>3. CASE g # h
    BY <1>1, <1>2, <1>3
  <1>4. CASE g = h
    <2>1. sent'[h] = Append(sent[h], x)
      BY <1>1, <1>2, <1>4
    <2>2. PICK s : s = sent[h]
      OBVIOUS
    <2>3. /\ Len(s) \in Nat /\ DOMAIN s = 1..Len(s) /\ DOMAIN Append(s, x) = 1..(Len(s) + 1)
          /\ \A j \in 1..Len(s) : Append(s, x)[j] = s[j]
          /\ Append(s, x)[Len(s) + 1] = x
      BY <1>2, <2>2, SeqShape, AppendIsSeq
    <2>4. i \in 1..Len(s) \/ i = Len(s) + 1
      BY <2>1, <2>2, <2>3
    <2> QED BY <2>1, <2>2, <2>3, <2>4
  <1> QED BY <1>3, <1>4

\* Every step keeps all points so.
LEMMA NotOverStep ==
  ASSUME ExportedWhole, IInv, HistoryOK, SamplesOK, fed = [r \in Refs |-> fed[r]], LaterLeft, StartsOK,
         NotOverOK, [Next]_vars
  PROVE  NotOverOK'
  <1>0. TypeOK /\ RecordOK /\ PointsOK
    BY DEF IInv
  <1>1. layout' = layout /\ Refs' = Refs
    <2>1. layout' = layout
      BY <1>0, StepKinds DEF SameValues, Calls, Scrape, RefreshIsDue, Replace, inputVars
    <2> QED BY <2>1, RefsSame
  <1>2. \A y : Cumulative(y)' = Cumulative(y)
    BY <1>1 DEF Cumulative, SeriesOf
  <1>3. ASSUME NEW y, y.ref \in Refs, Cumulative(y) => NotOver(y)
        PROVE  Cumulative(y) => NotOver(y)'
    <2>1. y.ref[1] \in Targets
      BY <1>0, <1>3, SeriesType DEF TypeOK
    <2>2. Extends(y.ref[1])
      BY <2>1, HistoryStep
    <2> QED BY <1>0, <1>1, <1>3, <2>1, <2>2, NotOverStays
  <1>4. ASSUME sent' = sent PROVE NotOverOK'
    <2> SUFFICES ASSUME NEW h \in Hashes, NEW i \in DOMAIN sent[h]
                 PROVE  sent[h][i].ref \in Refs /\ (Cumulative(sent[h][i]) => NotOver(sent[h][i])')
      BY <1>1, <1>2, <1>4 DEF NotOverOK
    <2>1. PICK y : y = sent[h][i]
      OBVIOUS
    <2>2. y.ref \in Refs /\ (Cumulative(y) => NotOver(y))
      BY <2>1 DEF NotOverOK
    <2>3. Cumulative(y) => NotOver(y)'
      BY <1>3, <2>2
    <2> QED BY <1>4, <2>1, <2>2, <2>3
  <1>5. ASSUME NEW answer \in Answers, samples # <<>>, BuildNext(answer), NEW m \in Nat, Calls(m)
        PROVE  NotOverOK'
    <2>1. CASE sent' = sent
      BY <1>4, <2>1
    <2>2. CASE sent' # sent
      <3>1. PICK x : /\ Sends(x) /\ x.ref \in Refs
                     /\ Cumulative(x) => \E k \in DOMAIN samples : Reports(x, k) /\ Reported(x.ref)
        BY <1>0, <1>5, <2>2, NextSends
      <3>2. Cumulative(x) => NotOver(x)'
        BY <1>5, <3>1, PointNotOver
      <3>3. ASSUME NEW h \in Hashes, NEW i \in DOMAIN sent'[h], NEW z, z = sent'[h][i]
            PROVE  z.ref \in Refs /\ (Cumulative(z) => NotOver(z)')
        <4>1. CASE z = x
          BY <3>1, <3>2, <4>1
        <4>2. CASE i \in DOMAIN sent[h] /\ z = sent[h][i]
          <5>1. z.ref \in Refs /\ (Cumulative(z) => NotOver(z))
            BY <4>2 DEF NotOverOK
          <5> QED BY <1>3, <5>1
        <4> QED BY <1>0, <3>1, <3>3, <4>1, <4>2, SentAfter
      <3> QED BY <1>1, <1>2, <3>3 DEF NotOverOK
    <2> QED BY <2>1, <2>2
  <1>6. ASSUME NEW p \in Targets, NEW t \in 1..MaxTime, NEW n \in 1..2, Scrape(p, t, n)
        PROVE  sent' = sent
    BY <1>6 DEF Scrape
  <1>7. ASSUME NEW r \in Refs, RefreshIsDue(r) \/ \E l : Replace(r, NewEntry(l))
        PROVE  sent' = sent
    BY <1>7 DEF RefreshIsDue, Replace
  <1> QED BY <1>0, <1>4, <1>5, <1>6, <1>7, StepKinds DEF SameValues

-----------------------------------------------------------------------------
(* The values that are reported. *)

\* The inductive invariant about resets.
ResetInv == LaterLeft /\ StartsOK

\* Reset values and timestamps are those of scrapes, for all layouts.
LEMMA ResetInvHolds == Spec => []ResetInv
  <1>1. Init => ResetInv
    <2> SUFFICES ASSUME Init PROVE ResetInv
      OBVIOUS
    <2>1. samples = <<>> /\ layout \in Layouts
      BY DEF Init
    <2>2. DOMAIN samples = {}
      BY <2>1
    <2>3. PICK lookup \in [Refs -> {"populated", "waiting"}] :
             entry = [r \in Refs |-> NewEntry(lookup[r])]
      BY DEF Init
    <2>4. \A r \in Refs : ~entry[r].hasReset
      BY <2>3 DEF NewEntry
    <2> QED BY <2>2, <2>4 DEF ResetInv, LaterLeft, StartsOK
  <1>2. IInv /\ TrackInv /\ ResetInv /\ [Next]_vars => ResetInv'
    <2> SUFFICES ASSUME IInv, TrackInv, ResetInv, [Next]_vars PROVE ResetInv'
      OBVIOUS
    <2>1. HistoryOK /\ SamplesOK /\ fed = [r \in Refs |-> fed[r]] /\ LaterLeft /\ StartsOK
      BY DEF TrackInv, FedOK, ResetInv
    <2> QED BY <2>1, LaterLeftStep, StartsStep DEF ResetInv
  <1> QED BY <1>1, <1>2, Invariance, TrackInvHolds, PTL DEF Spec

\* A point never counts more than what happened between the scrapes that its
\* interval stands for, whichever restarts go unnoticed, where a histogram that
\* is exported is exported as a whole (getResetAdjusted, series_cache.go).
THEOREM NeverOvercountsHolds ==
  ASSUME ExportedWhole
  PROVE  Spec => []NeverOvercounts
  <1>1. Init => NotOverOK
    <2> SUFFICES ASSUME Init PROVE NotOverOK
      OBVIOUS
    <2>1. \A h \in Hashes : sent[h] = <<>>
      BY DEF Init
    <2>2. \A h \in Hashes : DOMAIN sent[h] = {}
      BY <2>1
    <2> QED BY <2>2 DEF NotOverOK
  <1>2. IInv /\ TrackInv /\ ResetInv /\ NotOverOK /\ [Next]_vars => NotOverOK'
    <2> SUFFICES ASSUME IInv, TrackInv, ResetInv, NotOverOK, [Next]_vars PROVE NotOverOK'
      OBVIOUS
    <2>1. HistoryOK /\ SamplesOK /\ fed = [r \in Refs |-> fed[r]] /\ LaterLeft /\ StartsOK
      BY DEF TrackInv, FedOK, ResetInv
    <2> QED BY <2>1, NotOverStep
  <1>3. IInv /\ NotOverOK => NeverOvercounts
    <2> SUFFICES ASSUME IInv, NotOverOK, NEW h \in Hashes, NEW i \in DOMAIN sent[h],
                        NEW x, x = sent[h][i], Cumulative(x)
                 PROVE  x.value <= Seen(Happened(x.ref[1], x.start, x.end), SeriesOf(x.ref))
      BY DEF NeverOvercounts
    <2>1. x.ref \in Refs /\ NotOver(x)
      BY DEF NotOverOK
    <2>2. PICK p \in Targets, s \in Series : p = x.ref[1] /\ s = SeriesOf(x.ref)
      BY <2>1, SeriesType DEF IInv, TypeOK
    <2>3. PICK a, b \in DOMAIN scrapes[p] :
             /\ LastAt(p, x.start, a) /\ LastAt(p, x.end, b)
             /\ x.value <= Seen(scrapes[p][b].events, s) - Seen(scrapes[p][a].events, s)
      BY <2>1, <2>2 DEF NotOver
    <2>4. ScrapeAt(p, x.start) = scrapes[p][a] /\ ScrapeAt(p, x.end) = scrapes[p][b]
      BY <2>3, ScrapeAtIs DEF IInv, LastAt
    <2>5. PICK z \in 0..Sizes : z = IF s.part = "bucket" THEN s.le ELSE Sizes
      BY BuilderAssumption DEF BuilderAssumption, Series
    <2>6. Happened(p, x.start, x.end)[z] = scrapes[p][b].events[z] - scrapes[p][a].events[z]
      BY <2>4 DEF Happened
    <2> QED BY <2>2, <2>3, <2>5, <2>6 DEF Seen
  <1> QED BY <1>1, <1>2, <1>3, Invariance, TrackInvHolds, ResetInvHolds, PTL DEF Spec

-----------------------------------------------------------------------------
(* Distributions. *)

\* The parts of a histogram that is exported are histograms and exported, too.
HistogramsWhole ==
    \A l \in Layouts, p \in Targets : \A i, j \in DOMAIN l[p] :
      /\ l[p][i].kind = "histogram" /\ l[p][i].exported
      /\ l[p][j].part \in Parts /\ l[p][j].metric = l[p][i].metric
      => l[p][j].kind = "histogram" /\ l[p][j].exported

\* All series belonging to a histogram are sequential (transform.go:214).
Sequential ==
    \A l \in Layouts, p \in Targets : \A i, j, k \in DOMAIN l[p] :
      /\ i < j /\ j < k /\ l[p][i].metric = l[p][k].metric
      /\ l[p][i].part \in Parts /\ l[p][k].part \in Parts
      => l[p][j].part \in Parts /\ l[p][j].metric = l[p][i].metric

\* Where a sample of a new record is in its exposition.
LEMMA ExpositionOf ==
  ASSUME NEW k \in Nat \ {0}, NEW n \in 1..2, NEW i \in 1..(n * k)
  PROVE  \E d \in 0..(n - 1), u \in 1..k : InExposition(i, k, u, d)
  <1>1. PICK a \in Nat : a = i - 1
    OBVIOUS
  <1>2. PICK q \in Nat, r \in 0..(k - 1) : q = a \div k /\ r = a % k /\ a = k * q + r
    BY Quotient
  <1>3. (i - 1) \div k \in 0..(n - 1)
    BY RecordOrder
  <1>4. PICK u \in 1..k : u = r + 1
    OBVIOUS
  <1>5. i = k * q + u /\ (i - 1) % k = u - 1 /\ (i - 1) \div k = q
    BY <1>1, <1>2, <1>4
  <1>6. q \in 0..(n - 1)
    BY <1>3, <1>5
  <1> QED BY <1>5, <1>6 DEF InExposition

\* The samples at such places.
Exposes(p, t, n, k) ==
    \A i \in 1..(n * k), u \in 1..k, d \in Nat : InExposition(i, k, u, d) =>
      i \in DOMAIN samples' /\ samples'[i].ref = <<p, u>> /\ samples'[i].time = t + d

\* A scrape adds them.
LEMMA AddsAt ==
  ASSUME NEW p \in Targets, NEW t \in 1..MaxTime, NEW n \in 1..2, NEW k \in Nat \ {0}, NEW m \in Nat,
         Adds(p, t, n, k, m)
  PROVE  Exposes(p, t, n, k)
  <1> SUFFICES ASSUME NEW i \in 1..(n * k), NEW u \in 1..k, NEW d \in Nat, InExposition(i, k, u, d)
               PROVE  i \in DOMAIN samples' /\ samples'[i].ref = <<p, u>> /\ samples'[i].time = t + d
    BY DEF Exposes
  <1>1. /\ DOMAIN samples' = 1..(n * k) /\ samples'[i].ref = <<p, ((i - 1) % k) + 1>>
        /\ samples'[i].time = t + ((i - 1) \div k)
    BY DEF Adds
  <1>2. (i - 1) % k = u - 1 /\ (i - 1) \div k = d /\ (u - 1) + 1 = u
    BY DEF InExposition
  <1> QED BY <1>1, <1>2

\* A new record is in the order of the exposition.
LEMMA ScrapeInOrder ==
  ASSUME IInv, HistoryOK, NEW p \in Targets, NEW t \in 1..MaxTime, NEW n \in 1..2, Scrape(p, t, n)
  PROVE  InOrder'
  <1>1. PICK K \in Nat \ {0}, m \in Nat : Adds(p, t, n, K, m)
    BY ScrapeAdds
  <1>2. layout' = layout /\ DOMAIN samples' = 1..(n * K) /\ DOMAIN layout[p] = 1..K /\ Len(layout[p]) = K
    BY <1>1 DEF Scrape, inputVars, Adds
  <1>4. \A i \in 1..(n * K), u \in 1..K, d \in Nat : InExposition(i, K, u, d) =>
           i \in DOMAIN samples' /\ samples'[i].ref = <<p, u>> /\ samples'[i].time = t + d
    <2>1. Exposes(p, t, n, K)
      BY <1>1, AddsAt
    <2> QED BY <2>1 DEF Exposes
  <1>3. ASSUME NEW k \in 1..(n * K) PROVE Placed(k)'
    <2>1. PICK d \in 0..(n - 1), u \in 1..K : InExposition(k, K, u, d)
      BY ExpositionOf
    <2>2. k \in DOMAIN samples' /\ samples'[k].ref = <<p, u>> /\ samples'[k].time = t + d
      BY <1>4, <2>1
    <2>3. samples'[k].ref[1] = p /\ samples'[k].ref[2] = u
      BY <2>2
    <2>4. PICK c \in Nat : c = K * d /\ (d = 0 => c = 0) /\ (d = 1 => c = K)
      OBVIOUS
    <2>5. k = c + u /\ d \in 0..1 /\ t \in Nat
      BY <2>1, <2>4, BuilderAssumption DEF InExposition, BuilderAssumption
    <2>6. ASSUME NEW j \in 1..K, j >= u
          PROVE  /\ k + j - u \in DOMAIN samples' /\ samples'[k + j - u].ref = <<p, j>>
                 /\ samples'[k + j - u].time = samples'[k].time
      <3>1. PICK l \in 1..(n * K) : InExposition(l, K, j, d)
        BY Position
      <3>2. l \in DOMAIN samples' /\ samples'[l].ref = <<p, j>> /\ samples'[l].time = t + d
        BY <1>4, <3>1
      <3>3. l = k + j - u
        BY <2>4, <2>5, <3>1 DEF InExposition
      <3> QED BY <2>2, <3>2, <3>3
    <2>7. ASSUME u = K, k + 1 \in DOMAIN samples'
          PROVE  samples'[k + 1].ref = <<p, 1>> /\ samples'[k + 1].time # samples'[k].time
      <3>1. PICK l \in 1..(n * K) : l = k + 1
        BY <1>2, <2>7
      <3>2. PICK e \in 0..(n - 1), w \in 1..K : InExposition(l, K, w, e)
        BY ExpositionOf
      <3>3. PICK b \in Nat : b = K * e /\ (e = 0 => b = 0) /\ (e = 1 => b = K)
        OBVIOUS
      <3>4. l = b + w /\ e \in 0..1
        BY <3>2, <3>3 DEF InExposition
      <3>5. w = 1 /\ e = d + 1
        BY <2>4, <2>5, <2>7, <3>1, <3>3, <3>4
      <3>6. samples'[l].ref = <<p, w>> /\ samples'[l].time = t + e
        BY <1>4, <3>2
      <3>7. t + e # t + d
        BY <2>5, <3>4, <3>5
      <3> QED BY <2>2, <3>1, <3>5, <3>6, <3>7
    <2> QED BY <1>2, <2>3, <2>6, <2>7 DEF Placed
  <1> QED BY <1>2, <1>3 DEF InOrder

\* The sample at c stays.
LEMMA RestAt ==
  ASSUME TypeOK, NEW m \in Nat, Rest(m), NEW c \in DOMAIN samples, c >= m
  PROVE  /\ c - m + 1 \in DOMAIN samples' /\ samples'[c - m + 1] = samples[c]
  <1>1. /\ m \in 1..(Len(samples) + 1) /\ DOMAIN samples' = 1..(Len(samples) + 1 - m)
        /\ \A i \in DOMAIN samples' : samples'[i] = samples[i + m - 1]
    BY DEF Rest
  <1>2. Len(samples) \in Nat /\ DOMAIN samples = 1..Len(samples)
    BY SeqShape DEF TypeOK
  <1>3. c - m + 1 \in DOMAIN samples' /\ (c - m + 1) + m - 1 = c
    BY <1>1, <1>2
  <1> QED BY <1>1, <1>3

\* What is left of a record is in order.
LEMMA RestInOrder ==
  ASSUME TypeOK, RecordOK, InOrder, NEW m \in Nat, Rest(m), layout' = layout
  PROVE  InOrder'
  <1>1. Len(samples) \in Nat /\ DOMAIN samples = 1..Len(samples)
    BY SeqShape DEF TypeOK
  <1>2. /\ m \in 1..(Len(samples) + 1) /\ DOMAIN samples' = 1..(Len(samples) + 1 - m)
        /\ \A i \in DOMAIN samples' : i + m - 1 \in DOMAIN samples /\ samples'[i] = samples[i + m - 1]
    BY DEF Rest
  <1>3. ASSUME NEW k \in DOMAIN samples' PROVE Placed(k)'
    <2>0. PICK c \in DOMAIN samples : c = k + m - 1 /\ samples'[k] = samples[c] /\ c \in Nat /\ k \in Nat
      BY <1>1, <1>2
    <2>1. PICK p, i : p = samples[c].ref[1] /\ i = samples[c].ref[2]
      OBVIOUS
    <2>2. p \in Targets /\ i \in DOMAIN layout[p] /\ Placed(c)
      BY <2>0, <2>1, SeriesType DEF TypeOK, RecordOK, InOrder
    <2>3. \A j \in DOMAIN layout[p] : j \in Nat
      <3>1. layout[p] \in Seq(Series)
        BY <2>2, BuilderAssumption DEF TypeOK, BuilderAssumption
      <3> QED BY <3>1, LenProperties
    <2>4. ASSUME NEW j \in DOMAIN layout[p], j >= i
          PROVE  /\ k + j - i \in DOMAIN samples' /\ samples'[k + j - i].ref = <<p, j>>
                 /\ samples'[k + j - i].time = samples'[k].time
      <3>1. PICK l \in DOMAIN samples :
               l = c + j - i /\ samples[l].ref = <<p, j>> /\ samples[l].time = samples[c].time
        BY <2>1, <2>2, <2>4 DEF Placed
      <3>2. l >= m /\ l - m + 1 = k + j - i
        BY <1>1, <1>2, <2>0, <2>2, <2>3, <2>4, <3>1
      <3>3. l - m + 1 \in DOMAIN samples' /\ samples'[l - m + 1] = samples[l]
        BY <3>2, RestAt
      <3> QED BY <2>0, <3>1, <3>2, <3>3
    <2>5. ASSUME i = Len(layout[p]), k + 1 \in DOMAIN samples'
          PROVE  samples'[k + 1].ref = <<p, 1>> /\ samples'[k + 1].time # samples'[k].time
      <3>1. (k + 1) + m - 1 = c + 1
        BY <2>0
      <3>2. c + 1 \in DOMAIN samples /\ samples'[k + 1] = samples[c + 1]
        BY <1>2, <2>5, <3>1
      <3> QED BY <2>0, <2>1, <2>2, <2>5, <3>2 DEF Placed
    <2>6. samples'[k].ref[1] = p /\ samples'[k].ref[2] = i
      BY <2>0, <2>1
    <2> QED BY <2>4, <2>5, <2>6 DEF Placed
  <1> QED BY <1>3 DEF InOrder

\* Every step keeps the record in order.
LEMMA InOrderStep ==
  ASSUME IInv, HistoryOK, SamplesOK, fed = [r \in Refs |-> fed[r]], InOrder, [Next]_vars
  PROVE  InOrder'
  <1>0. TypeOK /\ RecordOK
    BY DEF IInv
  <1>1. ASSUME samples' = samples, layout' = layout PROVE InOrder'
    BY <1>1 DEF InOrder, Placed
  <1>2. ASSUME NEW m \in Nat, Calls(m) PROVE InOrder'
    BY <1>0, <1>2, RestInOrder DEF Calls
  <1>3. ASSUME NEW r \in Refs, RefreshIsDue(r) \/ \E l : Replace(r, NewEntry(l))
        PROVE  samples' = samples /\ layout' = layout
    BY <1>3 DEF RefreshIsDue, Replace, inputVars
  <1> QED BY <1>0, <1>1, <1>2, <1>3, ScrapeInOrder, StepKinds DEF SameValues

\* In a target all of whose series were known, resets are about the first scrape
\* or a restart.
LEMMA SteadyBegun ==
  ASSUME IInv, HistoryOK, SamplesOK, StartsOK, NEW m \in Nat, Calls(m), NEW r \in Refs, Reported(r),
         NEW k \in DOMAIN samples, Adjusts(r, k), entry[r].hasReset,
         NEW j \in DOMAIN scrapes[r[1]], SampledAt(k, j),
         FromScrape(r, entry[r], 1) \/ \E a \in DOMAIN scrapes[r[1]] : AfterRestart(r, entry[r], a)
  PROVE  \/ FromScrape(r, entry[r], 1)'
         \/ \E a \in DOMAIN scrapes[r[1]] : a < j /\ AfterRestart(r, entry[r], a)'
  <1>1. /\ TypeOK /\ scrapes' = scrapes /\ Rest(m) /\ SeriesOf(r)' = SeriesOf(r)
        /\ samples[k].ref = r
    BY DEF IInv, Calls, SeriesOf, Adjusts
  <1>2. CASE samples[k].value < entry[r].resetValue
    BY <1>2, RestartNoticed
  <1>3. CASE ~(samples[k].value < entry[r].resetValue)
    <2>1. /\ entry'[r].resetTimestamp = entry[r].resetTimestamp
          /\ entry'[r].resetValue = entry[r].resetValue
      BY <1>3 DEF Adjusts
    <2>2. CASE FromScrape(r, entry[r], 1)
      BY <1>1, <2>1, <2>2 DEF FromScrape
    <2>3. CASE \E a \in DOMAIN scrapes[r[1]] : AfterRestart(r, entry[r], a)
      <3>1. PICK a \in DOMAIN scrapes[r[1]] : AfterRestart(r, entry[r], a)
        BY <2>3
      <3>2. a < j
        BY <1>1, <3>1, StartsBefore
      <3>3. AfterRestart(r, entry[r], a)'
        BY <1>1, <2>1, <3>1, RestartKept
      <3> QED BY <3>2, <3>3
    <2> QED BY <2>2, <2>3
  <1> QED BY <1>2, <1>3

\* Every step keeps them so.
LEMMA BeginStep ==
  ASSUME IInv, HistoryOK, SamplesOK, FedOK, SteadyOK, LaterLeft, StartsOK, BeginOK, [Next]_vars
  PROVE  BeginOK'
  <1>0. TypeOK /\ RecordOK /\ fed = [r \in Refs |-> fed[r]]
    BY DEF IInv, FedOK
  <1>2. layout' = layout /\ Refs' = Refs
    <2>1. layout' = layout
      BY <1>0, StepKinds DEF SameValues, Calls, Scrape, RefreshIsDue, Replace, inputVars
    <2> QED BY <2>1, RefsSame
  <1>3. SUFFICES ASSUME NEW r \in Refs, r[1] \in steady', scrapes'[r[1]] # <<>>, Reported(r),
                        NEW v, v = scrapes'[r[1]][1].time
                 PROVE  /\ entry'[r].hasReset =>
                             \/ FromScrape(r, entry[r], 1)'
                             \/ \E a \in DOMAIN scrapes'[r[1]] : AfterRestart(r, entry[r], a)'
                        /\ ~entry'[r].hasReset => Left(r, v)'
    <2>1. \A r \in Refs : Reported(r)' = Reported(r)
      BY <1>2 DEF Reported, SeriesOf
    <2>2. SUFFICES ASSUME NEW r \in Refs, r[1] \in steady', scrapes'[r[1]] # <<>>, Reported(r)
                   PROVE  IF entry'[r].hasReset
                          THEN \/ FromScrape(r, entry[r], 1)'
                               \/ \E a \in DOMAIN scrapes'[r[1]] : AfterRestart(r, entry[r], a)'
                          ELSE Left(r, scrapes[r[1]][1].time)'
      BY <1>2, <2>1 DEF BeginOK
    <2>3. PICK v : v = scrapes'[r[1]][1].time
      OBVIOUS
    <2>4. /\ entry'[r].hasReset => \/ FromScrape(r, entry[r], 1)'
                                   \/ \E a \in DOMAIN scrapes'[r[1]] : AfterRestart(r, entry[r], a)'
          /\ ~entry'[r].hasReset => Left(r, v)'
      BY <1>3, <2>2, <2>3
    <2> QED BY <2>3, <2>4 DEF Left
  <1> DEFINE p == r[1]
  <1>1. p \in Targets
    BY <1>0, SeriesType DEF TypeOK
  <1>4. ASSUME p \in steady, scrapes[p] # <<>>
        PROVE  /\ entry[r].lookup = "populated" /\ 1 \in DOMAIN scrapes[p]
               /\ entry[r].hasReset => \/ FromScrape(r, entry[r], 1)
                                       \/ \E a \in DOMAIN scrapes[p] : AfterRestart(r, entry[r], a)
               /\ ~entry[r].hasReset => Left(r, scrapes[p][1].time)
    BY <1>0, <1>1, <1>3, <1>4, ScrapeIndex DEF SteadyOK, BeginOK
  <1>5. ASSUME p \in steady, samples' = samples, scrapes' = scrapes, entry'[r] = entry[r]
        PROVE  /\ entry'[r].hasReset =>
                    \/ FromScrape(r, entry[r], 1)'
                    \/ \E a \in DOMAIN scrapes'[r[1]] : AfterRestart(r, entry[r], a)'
               /\ ~entry'[r].hasReset => Left(r, v)'
    <2>1. SeriesOf(r)' = SeriesOf(r)
      BY <1>2 DEF SeriesOf
    <2> QED BY <1>3, <1>4, <1>5, <2>1 DEF FromScrape, AfterRestart, Left
  <1>6. CASE SameValues
    BY <1>3, <1>5, <1>6 DEF SameValues
  <1>7. CASE \E answer \in Answers : samples # <<>> /\ BuildNext(answer) /\ \E m \in Nat : Calls(m)
    <2>1. PICK m \in Nat : Calls(m) /\ samples # <<>>
      BY <1>7
    <2>2. /\ scrapes' = scrapes /\ steady' = steady /\ Rest(m) /\ SeriesOf(r)' = SeriesOf(r)
          /\ entry[r].lookup = "populated" => entry'[r].lookup = "populated"
          /\ ValueKept(r) \/ \E k \in DOMAIN samples : Adjusts(r, k)
      BY <2>1 DEF Calls, SeriesOf
    <2>3. p \in steady /\ scrapes[p] # <<>> /\ v = scrapes[p][1].time
      BY <1>3, <2>2
    <2>4. CASE ValueKept(r) /\ entry[r].hasReset
      <3>1. /\ FromScrape(r, entry[r], 1) => FromScrape(r, entry[r], 1)'
            /\ \A a \in DOMAIN scrapes[p] : AfterRestart(r, entry[r], a) => AfterRestart(r, entry[r], a)'
        BY <1>0, <2>2, <2>4, RestartKept DEF ValueKept, FromScrape
      <3> QED BY <1>4, <2>2, <2>3, <2>4, <3>1 DEF ValueKept
    <2>5. CASE ValueKept(r) /\ ~entry[r].hasReset
      <3>1. ~entry'[r].hasReset /\ Left(r, v)
        BY <1>4, <2>3, <2>5 DEF ValueKept
      <3>2. ASSUME NEW k \in 1..(m - 1), samples[k].ref = r PROVE FALSE
        <4>1. Adjusts(r, k)
          BY <1>3, <1>4, <2>1, <2>2, <2>3, <3>2 DEF Calls
        <4> QED BY <3>1, <4>1 DEF Adjusts
      <3>3. Left(r, v)'
        BY <1>0, <2>2, <3>1, <3>2, LeftBefore
      <3> QED BY <3>1, <3>3
    <2>6. CASE \E k \in DOMAIN samples : Adjusts(r, k)
      <3>1. PICK k \in DOMAIN samples : Adjusts(r, k)
        BY <2>6
      <3>2. samples[k].ref = r /\ samples[k].time = First.time /\ entry'[r].hasReset
        BY <3>1 DEF Adjusts
      <3>3. PICK j \in DOMAIN scrapes[p] : SampledAt(k, j)
        BY <3>2 DEF SamplesOK
      <3>4. CASE entry[r].hasReset
        BY <1>3, <1>4, <2>1, <2>2, <2>3, <3>1, <3>2, <3>3, <3>4, SteadyBegun
      <3>5. CASE ~entry[r].hasReset
        <4>1. PICK l \in DOMAIN samples : samples[l].ref = r /\ samples[l].time = v
          BY <1>4, <2>3, <3>5 DEF Left
        <4>2. First.time <= v
          BY <1>0, <2>1, <4>1, FirstOK
        <4>3. /\ j \in Nat /\ samples[k].value = Value(scrapes[p][j], SeriesOf(r))
              /\ samples[k].time = scrapes[p][j].time /\ samples[k].time \in Nat
              /\ \A i \in DOMAIN scrapes[p] : scrapes[p][i].time < samples[k].time <=> i < j
          BY <3>2, <3>3, SampleOf
        <4>4. 1 \in DOMAIN scrapes[p] /\ v \in Nat /\ j >= 1
          <5>1. DOMAIN scrapes[p] = 1..Len(scrapes[p]) /\ 1 \in DOMAIN scrapes[p]
            BY <1>0, <1>1, <2>3, ScrapeIndex
          <5> QED BY <1>1, <2>3, <4>3, <5>1 DEF HistoryOK
        <4>5. ~(v < samples[k].time)
          BY <3>2, <4>2, <4>3, <4>4
        <4>6. j = 1
          BY <2>3, <4>3, <4>4, <4>5
        <4>7. entry'[r].resetTimestamp = First.time /\ entry'[r].resetValue = samples[k].value
          BY <3>1, <3>5 DEF Adjusts
        <4>8. FromScrape(r, entry[r], 1)'
          <5>1. /\ entry'[r].resetTimestamp = scrapes'[r[1]][1].time
                /\ entry'[r].resetValue = Value(scrapes'[r[1]][1], SeriesOf(r)')
            BY <2>2, <3>2, <4>3, <4>6, <4>7
          <5> QED BY <5>1 DEF FromScrape
        <4> QED BY <3>2, <4>8
      <3> QED BY <3>4, <3>5
    <2> QED BY <2>2, <2>4, <2>5, <2>6
  <1>8. CASE \E q \in Targets, t \in 1..MaxTime, n \in 1..2 : Scrape(q, t, n)
    <2>1. PICK q \in Targets, t \in 1..MaxTime, n \in 1..2 : Scrape(q, t, n)
      BY <1>8
    <2>2. /\ entry' = entry /\ samples = <<>> /\ p \in steady
      BY <1>3, <2>1 DEF Scrape
    <2>3. Extends(p) /\ SeriesOf(r)' = SeriesOf(r)
      BY <1>1, <1>2, <2>1, ScrapeHistory DEF SeriesOf
    <2>4. DOMAIN samples = {}
      BY <1>0, <2>2, SeqShape DEF TypeOK
    <2>5. CASE scrapes[p] = <<>>
      <3>1. DOMAIN scrapes[p] = {}
        BY <1>0, <1>1, <2>5, ScrapeIndex
      <3>2. ~entry[r].hasReset
        BY <1>3, <3>1 DEF StartsOK
      <3>3. PICK k \in Nat \ {0}, m \in Nat : Adds(q, t, n, k, m)
        BY <2>1, ScrapeAdds
      <3>4. p = q
        BY <1>1, <1>3, <2>5, <3>3 DEF Adds
      <3>5. 1 \in DOMAIN scrapes'[p]
        <4>1. DOMAIN scrapes'[p] = 1..(m + n)
          BY <3>3, <3>4 DEF Adds
        <4> QED BY <4>1
      <3>6. Left(r, v)'
        BY <1>3, <2>1, <3>1, <3>4, <3>5, ScrapeLeaves
      <3> QED BY <2>2, <3>2, <3>6
    <2>6. CASE scrapes[p] # <<>>
      <3>1. entry[r].hasReset
        BY <1>4, <2>2, <2>4, <2>6 DEF Left
      <3>2. \A i \in DOMAIN scrapes[p] : i \in DOMAIN scrapes'[p] /\ scrapes'[p][i] = scrapes[p][i]
        BY <2>3 DEF Extends
      <3>3. FromScrape(r, entry[r], 1) => FromScrape(r, entry[r], 1)'
        BY <1>4, <2>2, <2>3, <2>6, <3>2 DEF FromScrape
      <3>4. ASSUME NEW a \in DOMAIN scrapes[p], AfterRestart(r, entry[r], a)
            PROVE  AfterRestart(r, entry[r], a)'
        <4>1. ~Left(r, scrapes[p][a].time)'
          <5>1. ASSUME NEW l \in DOMAIN samples', samples'[l].ref = r, samples'[l].time = scrapes'[p][a].time
                PROVE  FALSE
            <6>1. /\ p = q /\ samples'[l].time \in Nat
                  /\ \A h \in DOMAIN scrapes[q] : scrapes[q][h].time < samples'[l].time
              BY <2>1, <5>1, ScrapeIsLater
            <6> QED BY <3>2, <5>1, <6>1
          <5> QED BY <5>1 DEF Left
        <4> QED BY <2>2, <3>2, <3>4, <4>1 DEF AfterRestart
      <3> QED BY <1>4, <2>2, <2>6, <3>1, <3>2, <3>3, <3>4
    <2> QED BY <2>5, <2>6
  <1>9. CASE \E q \in Refs : RefreshIsDue(q)
    <2>1. PICK q \in Refs : RefreshIsDue(q)
      BY <1>9
    <2> DEFINE f == [entry[q] EXCEPT !.lookup = "due"]
    <2>2. /\ entry' = [entry EXCEPT ![q] = f] /\ samples' = samples /\ scrapes' = scrapes
          /\ steady' = steady /\ entry[q].lookup = "waiting"
      BY <2>1 DEF RefreshIsDue
    <2>3. IsEntry(f)
      BY <1>0, LookupFields DEF TypeOK
    <2> HIDE DEF f
    <2>4. \A x \in Refs \ {q} : entry'[x] = entry[x]
      BY <1>0, <2>2, <2>3, EntryReplaced
    <2>5. r # q
      BY <1>3, <1>4, <2>2
    <2> QED BY <1>3, <1>5, <2>2, <2>4, <2>5
  <1>10. CASE \E q \in Refs : \E l : Replace(q, NewEntry(l))
    <2>1. PICK q \in Refs : \E l : Replace(q, NewEntry(l))
      BY <1>10
    <2>2. PICK l : Replace(q, NewEntry(l))
      BY <2>1
    <2>3. /\ entry' = [entry EXCEPT ![q] = NewEntry(l)] /\ samples' = samples /\ scrapes' = scrapes
          /\ steady' = steady \ {q[1]}
      BY <2>2 DEF Replace
    <2>4. IsEntry(NewEntry(l))
      BY DEF IsEntry, NewEntry
    <2>5. \A x \in Refs \ {q} : entry'[x] = entry[x]
      BY <1>0, <2>3, <2>4, EntryReplaced
    <2>6. p \in steady /\ r # q
      BY <1>3, <2>3
    <2> QED BY <1>5, <2>3, <2>5, <2>6
  <1> QED BY <1>0, <1>6, <1>7, <1>8, <1>9, <1>10, StepKinds

\* Everything in the record of a target that was known all the time is known.
LEMMA SteadyKnown ==
  ASSUME IInv, SamplesOK, SteadyOK, samples # <<>>, First.ref[1] \in steady,
         NEW k \in DOMAIN samples, NEW answer
  PROVE  /\ samples[k].ref \in Refs /\ samples[k].ref[1] = First.ref[1]
         /\ Looked(answer, samples[k].ref) = "populated" /\ ~Fails(answer, samples[k].ref)
  <1>1. TypeOK /\ RecordOK
    BY DEF IInv
  <1>2. 1 \in DOMAIN samples /\ First = samples[1]
    BY <1>1, FirstOK
  <1>3. samples[k].ref[1] = First.ref[1]
    BY <1>2 DEF SamplesOK
  <1>4. samples[k].ref \in Refs /\ scrapes[samples[k].ref[1]] # <<>>
    BY <1>1 DEF RecordOK, ScrapedBy
  <1>5. entry[samples[k].ref].lookup = "populated"
    BY <1>3, <1>4 DEF SteadyOK
  <1> QED BY <1>3, <1>4, <1>5 DEF Looked, Fails

\* The sample before one that does not begin an exposition.
LEMMA Predecessor ==
  ASSUME TypeOK, RecordOK, InOrder, NEW c \in DOMAIN samples, c + 1 \in DOMAIN samples,
         samples[c + 1].ref[2] > 1
  PROVE  /\ samples[c + 1].ref[1] = samples[c].ref[1]
         /\ samples[c + 1].ref[2] = samples[c].ref[2] + 1
         /\ samples[c + 1].time = samples[c].time
  <1>1. PICK p, i : p = samples[c].ref[1] /\ i = samples[c].ref[2]
    OBVIOUS
  <1>2. p \in Targets /\ i \in DOMAIN layout[p] /\ Placed(c)
    BY <1>1, SeriesType DEF TypeOK, RecordOK, InOrder
  <1>3. layout[p] \in Seq(Series)
    BY <1>2, BuilderAssumption DEF TypeOK, BuilderAssumption
  <1>4. Len(layout[p]) \in Nat /\ DOMAIN layout[p] = 1..Len(layout[p])
    BY <1>3, LenProperties
  <1>5. i # Len(layout[p])
    <2> SUFFICES ASSUME i = Len(layout[p]) PROVE FALSE
      OBVIOUS
    <2>1. samples[c + 1].ref = <<p, 1>>
      BY <1>1, <1>2 DEF Placed
    <2>2. samples[c + 1].ref[2] = 1
      BY <2>1
    <2> QED BY <2>2
  <1>6. PICK j \in DOMAIN layout[p] : j = i + 1 /\ j >= i
    BY <1>2, <1>4, <1>5
  <1>7. c \in Nat
    BY SeqShape DEF TypeOK
  <1>8. c + j - i = c + 1
    BY <1>2, <1>4, <1>6, <1>7
  <1>9. samples[c + 1].ref = <<p, j>> /\ samples[c + 1].time = samples[c].time
    BY <1>1, <1>2, <1>6, <1>8 DEF Placed
  <1>10. samples[c + 1].ref[1] = p /\ samples[c + 1].ref[2] = j
    BY <1>9
  <1> QED BY <1>1, <1>6, <1>9, <1>10

\* If a part of its histogram comes before a sample, then the sample before is
\* one, from the same scrape.
LEMMA PartBefore ==
  ASSUME HistogramsWhole, Sequential, TypeOK, RecordOK, InOrder,
         NEW c \in DOMAIN samples, NEW b \in DOMAIN samples, b = c + 1, ~NothingBefore(b)
  PROVE  /\ samples[b].ref[1] = samples[c].ref[1] /\ samples[c].ref[1] \in steady
         /\ samples[b].time = samples[c].time
         /\ SeriesOf(samples[b].ref).part \in Parts
         /\ SeriesOf(samples[b].ref).metric = SeriesOf(samples[c].ref).metric
         /\ SeriesOf(samples[c].ref).kind = "histogram" /\ SeriesOf(samples[c].ref).exported
  <1>1. PICK p, u : p = samples[b].ref[1] /\ u = samples[b].ref[2]
    OBVIOUS
  <1>2. PICK s : s = SeriesOf(samples[b].ref)
    OBVIOUS
  <1>3. /\ p \in steady /\ s.part \in Parts /\ s.kind = "histogram" /\ s.exported
        /\ \E i \in DOMAIN layout[p] : IsPart(p, i, s.metric) /\ ~(u <= i)
    BY <1>1, <1>2 DEF NothingBefore
  <1>4. PICK i \in DOMAIN layout[p] : IsPart(p, i, s.metric) /\ ~(u <= i)
    BY <1>3
  <1>5. p \in Targets /\ u \in DOMAIN layout[p] /\ layout \in Layouts
    BY <1>1, SeriesType DEF TypeOK, RecordOK
  <1>6. Len(layout[p]) \in Nat /\ DOMAIN layout[p] = 1..Len(layout[p])
    <2>1. layout[p] \in Seq(Series)
      BY <1>5, BuilderAssumption DEF BuilderAssumption
    <2> QED BY <2>1, LenProperties
  <1>7. i \in Nat /\ u \in Nat /\ i < u /\ u > 1
    BY <1>4, <1>5, <1>6
  <1>8. /\ samples[b].ref[1] = samples[c].ref[1] /\ u = samples[c].ref[2] + 1
        /\ samples[b].time = samples[c].time
    BY <1>1, <1>7, Predecessor
  <1>9. PICK w \in DOMAIN layout[p] : w = samples[c].ref[2]
    BY <1>1, <1>8, SeriesType DEF TypeOK, RecordOK
  <1>10. w \in Nat /\ w < u /\ (i = w \/ i < w)
    BY <1>6, <1>7, <1>8, <1>9
  <1>11. s = layout[p][u] /\ SeriesOf(samples[c].ref) = layout[p][w]
    BY <1>1, <1>2, <1>8, <1>9 DEF SeriesOf
  <1>12. layout[p][w].part \in Parts /\ layout[p][w].metric = s.metric
    <2>1. layout[p][i].part \in Parts /\ layout[p][i].metric = s.metric
      BY <1>4 DEF IsPart
    <2>2. CASE i = w
      BY <2>1, <2>2
    <2>3. CASE i < w
      BY <1>3, <1>5, <1>10, <1>11, <2>1, <2>3 DEF Sequential
    <2> QED BY <1>10, <2>2, <2>3
  <1>13. layout[p][w].kind = "histogram" /\ layout[p][w].exported
    BY <1>3, <1>5, <1>11, <1>12 DEF HistogramsWhole
  <1> QED BY <1>1, <1>2, <1>3, <1>8, <1>11, <1>12, <1>13

\* What is left of the record begins with a sample of which nothing comes before.
LEMMA RestBoundary ==
  ASSUME TypeOK, TypeOK', BoundaryOK, layout' = layout, steady' = steady, NEW m \in Nat, Rest(m),
         samples # <<>>, m > 1 /\ m \in DOMAIN samples => NothingBefore(m)
  PROVE  BoundaryOK'
  <1> SUFFICES ASSUME samples' # <<>> PROVE NothingBefore(1)'
    BY DEF BoundaryOK
  <1>1. 1 \in DOMAIN samples'
    <2>1. IsSeq(samples')
      BY DEF TypeOK, IsSeq
    <2> QED BY <2>1, SeqShape
  <1>2. m \in DOMAIN samples /\ samples'[1] = samples[m] /\ m >= 1
    <2>1. 1 + m - 1 = m /\ m \in 1..(Len(samples) + 1) /\ Len(samples) \in Nat
      BY SeqShape DEF Rest, TypeOK
    <2> QED BY <1>1, <2>1 DEF Rest
  <1>3. NothingBefore(m)
    <2>1. m > 1 \/ m = 1
      BY <1>2
    <2> QED BY <1>2, <2>1 DEF BoundaryOK
  <1> QED BY <1>2, <1>3 DEF NothingBefore, SeriesOf, IsPart

\* A call of next consumes a histogram to its end.
LEMMA BoundaryCall ==
  ASSUME HistogramsWhole, Sequential, IInv, IInv', SamplesOK, fed = [r \in Refs |-> fed[r]], SteadyOK,
         InOrder, BoundaryOK, samples # <<>>, NEW answer, BuildNext(answer)
  PROVE  BoundaryOK'
  <1>0. TypeOK /\ RecordOK /\ TypeOK'
    BY DEF IInv
  <1>1. Len(samples) \in Nat /\ DOMAIN samples = 1..Len(samples)
    BY <1>0, SeqShape DEF TypeOK
  <1>2. 1 \in DOMAIN samples /\ First = samples[1] /\ FirstSeries = SeriesOf(samples[1].ref)
    BY <1>0, FirstOK DEF FirstSeries
  <1>3. CASE NextFails(answer)
    <2>1. Calls(1)
      BY <1>0, <1>3, FailsCalls
    <2> QED BY <1>0, <2>1, RestBoundary DEF Calls
  <1>4. CASE NextUnknown(answer) \/ NextUnexported(answer) \/ NextGauge(answer) \/ NextCounter(answer)
    <2>1. Calls(2)
      BY <1>0, <1>4, PlainCalls
    <2>2. ASSUME 2 \in DOMAIN samples PROVE NothingBefore(2)
      <3> SUFFICES ASSUME ~NothingBefore(2) PROVE FALSE
        OBVIOUS
      <3>1. FirstSeries.kind = "histogram" /\ FirstSeries.exported /\ First.ref[1] \in steady
        BY <1>0, <1>2, <2>2, PartBefore, 2 = 1 + 1
      <3>2. Looked(answer, First.ref) = "populated"
        BY <1>2, <3>1, SteadyKnown
      <3> QED BY <1>4, <3>1, <3>2 DEF NextUnknown, NextUnexported, NextGauge, NextCounter
    <2> QED BY <1>0, <2>1, <2>2, RestBoundary DEF Calls
  <1>5. CASE NextHistogram(answer)
    <2>1. PICK m : m = IF Broken(answer) THEN 1 ELSE StopOf(answer)
      OBVIOUS
    <2>2. Calls(m)
      BY <1>0, <1>5, <2>1, HistogramCalls
    <2>3. m \in Nat /\ Rest(m) /\ layout' = layout /\ steady' = steady
      BY <1>1, <2>2 DEF Calls, Rest
    <2>4. ASSUME m > 1, m \in DOMAIN samples PROVE NothingBefore(m)
      <3> SUFFICES ASSUME ~NothingBefore(m) PROVE FALSE
        OBVIOUS
      <3>1. m = StopOf(answer) /\ Ends(answer, m)
        BY <1>0, <1>1, <2>1, <2>4, StopIs
      <3>2. PICK c \in DOMAIN samples : m = c + 1 /\ c \in 1..(m - 1)
        <4>1. m - 1 \in DOMAIN samples /\ m = (m - 1) + 1 /\ m - 1 \in 1..(m - 1)
          BY <1>1, <2>3, <2>4
        <4> QED BY <4>1
      <3>3. /\ samples[m].ref[1] = samples[c].ref[1] /\ samples[c].ref[1] \in steady
            /\ samples[m].time = samples[c].time
            /\ SeriesOf(samples[m].ref).part \in Parts
            /\ SeriesOf(samples[m].ref).metric = SeriesOf(samples[c].ref).metric
        BY <1>0, <2>4, <3>2, PartBefore
      <3>4. First.ref[1] \in steady
        BY <1>2, <3>2, <3>3 DEF SamplesOK
      <3>5. Looked(answer, samples[c].ref) = "populated" /\ ~Fails(answer, samples[m].ref)
        BY <2>4, <3>2, <3>4, SteadyKnown
      <3>6. SameMetric(samples[c].ref) /\ samples[c].time = First.time
        BY <1>0, <3>1, <3>2, <3>5, AdjustedIs
      <3>7. SameMetric(samples[m].ref) /\ samples[m].time = First.time
        BY <3>3, <3>6 DEF SameMetric
      <3>8. SeriesOf(samples[m].ref).part \notin {"other", "none"}
        BY <3>3 DEF Parts
      <3> QED BY <3>1, <3>5, <3>7, <3>8 DEF Ends
    <2> QED BY <1>0, <2>3, <2>4, RestBoundary
  <1> QED BY <1>3, <1>4, <1>5 DEF BuildNext

\* Every step keeps the record beginning with a whole histogram.
LEMMA BoundaryStep ==
  ASSUME HistogramsWhole, Sequential, IInv, IInv', HistoryOK, SamplesOK, fed = [r \in Refs |-> fed[r]],
         SteadyOK, InOrder, BoundaryOK, [Next]_vars
  PROVE  BoundaryOK'
  <1>0. TypeOK /\ RecordOK
    BY DEF IInv
  <1>1. CASE SameValues
    BY <1>1 DEF SameValues, BoundaryOK, NothingBefore, IsPart, SeriesOf
  <1>2. CASE \E answer \in Answers : samples # <<>> /\ BuildNext(answer) /\ \E m \in Nat : Calls(m)
    BY <1>2, BoundaryCall
  <1>3. ASSUME NEW p \in Targets, NEW t \in 1..MaxTime, NEW n \in 1..2, Scrape(p, t, n)
        PROVE  BoundaryOK'
    <2>1. PICK k \in Nat \ {0}, m \in Nat : Adds(p, t, n, k, m)
      BY <1>3, ScrapeAdds
    <2>2. layout' = layout /\ DOMAIN layout[p] = 1..k
      BY <1>3, <2>1 DEF Scrape, inputVars, Adds
    <2>3. 1 \in 1..k /\ 0 \in 0..(n - 1)
      OBVIOUS
    <2>4. PICK i \in 1..(n * k) : InExposition(i, k, 1, 0)
      BY <2>3, Position
    <2>5. i = 1
      BY <2>4 DEF InExposition
    <2>6. samples'[1].ref = <<p, 1>>
      <3>1. Exposes(p, t, n, k)
        BY <2>1, AddsAt
      <3> QED BY <2>3, <2>4, <2>5, <3>1 DEF Exposes
    <2>7. samples'[1].ref[1] = p /\ samples'[1].ref[2] = 1
      BY <2>6
    <2>8. \A j \in DOMAIN layout'[p] : 1 <= j
      BY <2>2
    <2> QED BY <2>7, <2>8 DEF BoundaryOK, NothingBefore
  <1>4. CASE \E r \in Refs : RefreshIsDue(r) \/ \E l : Replace(r, NewEntry(l))
    <2>1. samples' = samples /\ samples = <<>>
      BY <1>4 DEF RefreshIsDue, Replace, Change
    <2> QED BY <2>1 DEF BoundaryOK
  <1> QED BY <1>0, <1>1, <1>2, <1>3, <1>4, StepKinds

\* All parts of the histogram that the record begins with are in the run.
LEMMA PartInRun ==
  ASSUME Sequential, IInv, SamplesOK, SteadyOK, InOrder, BoundaryOK, samples # <<>>,
         NEW answer, NextHistogram(answer), NEW p \in Targets, p = First.ref[1], p \in steady,
         FirstSeries.part \in Parts,
         NEW i \in DOMAIN layout[p], IsPart(p, i, FirstSeries.metric)
  PROVE  \E k \in Run(answer) : samples[k].ref = <<p, i>>
  <1>0. TypeOK /\ RecordOK
    BY DEF IInv
  <1>1. Len(samples) \in Nat /\ DOMAIN samples = 1..Len(samples)
    BY <1>0, SeqShape DEF TypeOK
  <1>2. /\ 1 \in DOMAIN samples /\ First = samples[1] /\ FirstSeries = SeriesOf(samples[1].ref)
        /\ First.ref \in Refs
    BY <1>0, FirstOK DEF FirstSeries
  <1>3. FirstSeries.kind = "histogram" /\ FirstSeries.exported
    BY HistogramIs
  <1>4. PICK u \in DOMAIN layout[p] : u = First.ref[2]
    BY <1>0, <1>2, SeriesType DEF TypeOK
  <1>5. /\ Len(layout[p]) \in Nat /\ DOMAIN layout[p] = 1..Len(layout[p]) /\ layout \in Layouts
    <2>1. layout \in Layouts
      BY <1>0 DEF TypeOK
    <2>2. layout[p] \in Seq(Series)
      BY <2>1, BuilderAssumption DEF BuilderAssumption
    <2> QED BY <2>1, <2>2, LenProperties
  <1>6. u <= i
    <2>1. NothingBefore(1)
      BY DEF BoundaryOK
    <2> QED BY <1>2, <1>3, <1>4, <2>1 DEF NothingBefore
  <1>7. Placed(1)
    BY <1>2 DEF InOrder
  <1>8. ASSUME NEW j \in DOMAIN layout[p], u <= j
        PROVE  /\ 1 + j - u \in DOMAIN samples /\ samples[1 + j - u].ref = <<p, j>>
               /\ samples[1 + j - u].time = First.time
    <2>1. j >= samples[1].ref[2] /\ p = samples[1].ref[1] /\ u = samples[1].ref[2]
      BY <1>2, <1>4, <1>5, <1>8
    <2> QED BY <1>2, <1>7, <2>1 DEF Placed
  <1>9. PICK k \in DOMAIN samples : k = 1 + i - u /\ samples[k].ref = <<p, i>>
    BY <1>6, <1>8
  <1>10. PICK stop : stop = StopOf(answer)
    OBVIOUS
  <1>11. /\ stop \in 1..(Len(samples) + 1) /\ (stop <= Len(samples) => Ends(answer, stop))
    BY <1>0, <1>10, StopIs
  <1>12. k \in 1..(stop - 1)
    <2> SUFFICES ASSUME stop <= k PROVE FALSE
      BY <1>1, <1>11
    <2>1. stop <= Len(samples) /\ stop \in DOMAIN samples
      BY <1>1, <1>11
    <2>2. PICK j \in DOMAIN layout[p] : j = u + stop - 1 /\ u <= j /\ j <= i
      <3>1. u + stop - 1 \in DOMAIN layout[p] /\ u <= u + stop - 1 /\ u + stop - 1 <= i
        BY <1>1, <1>4, <1>5, <1>9, <1>11
      <3> QED BY <3>1
    <2>3. 1 + j - u = stop
      BY <1>4, <1>5, <1>11, <2>2
    <2>4. samples[stop].ref = <<p, j>> /\ samples[stop].time = First.time
      BY <1>8, <2>2, <2>3
    <2>5. SeriesOf(samples[stop].ref) = layout[p][j]
      BY <2>4 DEF SeriesOf
    <2>6. FirstSeries = layout[p][u]
      BY <1>4 DEF FirstSeries, SeriesOf
    <2>7. layout[p][j].part \in Parts /\ layout[p][j].metric = FirstSeries.metric
      <3>1. u = j \/ j = i \/ (u < j /\ j < i)
        BY <1>4, <1>5, <2>2
      <3>2. layout[p][i].part \in Parts /\ layout[p][i].metric = FirstSeries.metric
        BY DEF IsPart
      <3>3. CASE u < j /\ j < i
        BY <1>5, <2>6, <3>2, <3>3 DEF Sequential
      <3> QED BY <2>6, <3>1, <3>2, <3>3
    <2>8. SameMetric(samples[stop].ref) /\ SeriesOf(samples[stop].ref).part \notin {"other", "none"}
      BY <2>5, <2>7 DEF SameMetric, Parts
    <2>9. ~Fails(answer, samples[stop].ref)
      BY <2>1, SteadyKnown
    <2> QED BY <1>11, <2>1, <2>4, <2>8, <2>9 DEF Ends
  <1>13. Looked(answer, samples[k].ref) = "populated"
    BY SteadyKnown
  <1>14. k \in Run(answer)
    BY <1>0, <1>10, <1>12, <1>13, AdjustedIs
  <1> QED BY <1>9, <1>14

\* The part of a sample of the run.
LEMMA RunPart ==
  ASSUME HistogramsWhole, IInv, SamplesOK, samples # <<>>, NEW answer, NextHistogram(answer),
         NEW k \in Run(answer), NEW r, r = samples[k].ref
  PROVE  /\ k \in DOMAIN samples /\ r \in Refs /\ r[1] = First.ref[1] /\ samples[k].time = First.time
         /\ r[1] \in Targets /\ r[2] \in DOMAIN layout[r[1]] /\ SeriesOf(r) \in Series
         /\ SeriesOf(r).part \in Parts /\ SeriesOf(r).metric = FirstSeries.metric
         /\ Reported(r) /\ SeriesOf(r).kind = "histogram" /\ Adjusts(r, k)
         /\ ValueOf(answer, k) = samples[k].value - entry'[r].resetValue
         /\ ~Skips(answer) /\ SeriesOf(r).part # "badle" => entry[r].hasReset
  <1>0. TypeOK /\ RecordOK
    BY DEF IInv
  <1>1. /\ k \in Adjusted(answer) /\ SeriesOf(r).part \in Parts
        /\ k \in DOMAIN samples /\ r \in Refs /\ samples[k].time = First.time
        /\ SeriesOf(r).metric = FirstSeries.metric
    BY <1>0, AdjustedIs DEF SameMetric
  <1>2. entry'[r] = After(answer, k) /\ Adjusts(r, k)
    BY <1>0, <1>1, AfterAdjusts
  <1>3. 1 \in DOMAIN samples /\ First = samples[1] /\ First.ref \in Refs
    BY <1>0, FirstOK
  <1>4. r[1] = First.ref[1]
    BY <1>1, <1>3 DEF SamplesOK
  <1>5. /\ r[1] \in Targets /\ r[2] \in DOMAIN layout[r[1]] /\ layout \in Layouts
        /\ First.ref[2] \in DOMAIN layout[r[1]] /\ SeriesOf(r) \in Series
    BY <1>0, <1>1, <1>3, <1>4, SeriesType DEF TypeOK
  <1>6. FirstSeries = layout[r[1]][First.ref[2]] /\ SeriesOf(r) = layout[r[1]][r[2]]
    BY <1>4 DEF FirstSeries, SeriesOf
  <1>7. SeriesOf(r).kind = "histogram" /\ SeriesOf(r).exported
    <2>1. PICK p \in Targets : p = r[1]
      BY <1>5
    <2>2. PICK i, j \in DOMAIN layout[p] : i = First.ref[2] /\ j = r[2]
      BY <1>5, <2>1
    <2>3. FirstSeries.kind = "histogram" /\ FirstSeries.exported
      BY HistogramIs
    <2>4. FirstSeries = layout[p][i] /\ SeriesOf(r) = layout[p][j]
      BY <1>6, <2>1, <2>2
    <2> QED BY <1>1, <1>5, <2>2, <2>3, <2>4 DEF HistogramsWhole
  <1>8. ASSUME ~Skips(answer), SeriesOf(r).part # "badle" PROVE entry[r].hasReset
    <2>1. k \notin OfPart(answer, "badle")
      BY <1>8 DEF OfPart
    <2>2. Before(answer, r).hasReset
      BY <1>8, <2>1 DEF Skips
    <2> QED BY <1>0, <1>1, <2>2, BeforeFields
  <1>9. ValueOf(answer, k) = samples[k].value - entry'[r].resetValue
    BY <1>2 DEF ValueOf
  <1> QED BY <1>1, <1>2, <1>4, <1>5, <1>7, <1>8, <1>9 DEF Reported

\* Restarts between two scrapes show in the bases of the first and a later one.
LEMMA RestartShows ==
  ASSUME TypeOK, HistoryOK, NEW p \in Targets, NEW a \in DOMAIN scrapes[p], a + 1 \in DOMAIN scrapes[p],
         scrapes[p][a].base # scrapes[p][a + 1].base,
         NEW i \in DOMAIN scrapes[p], i <= a, NEW j \in DOMAIN scrapes[p], a < j
  PROVE  scrapes[p][i].base # scrapes[p][j].base
  <1>1. PICK b \in DOMAIN scrapes[p] : b = a + 1
    OBVIOUS
  <1>2. i \in Nat /\ a \in Nat /\ j \in Nat
    BY ScrapeIndex
  <1>3. a <= b /\ b <= j /\ i <= b
    BY <1>1, <1>2
  <1>4. /\ ProcessOK(scrapes[p][i]) /\ ProcessOK(scrapes[p][a])
        /\ ProcessOK(scrapes[p][b]) /\ ProcessOK(scrapes[p][j])
        /\ Later(scrapes[p][i], scrapes[p][a]) /\ Later(scrapes[p][a], scrapes[p][b])
        /\ Later(scrapes[p][b], scrapes[p][j]) /\ Later(scrapes[p][i], scrapes[p][b])
    BY <1>3, LaterAt
  <1> SUFFICES ASSUME scrapes[p][i].base = scrapes[p][j].base PROVE FALSE
    OBVIOUS
  <1>5. scrapes[p][i].base = scrapes[p][b].base
    BY <1>4, BaseBetween
  <1>6. scrapes[p][i].base = scrapes[p][a].base
    BY <1>4, <1>5, BaseBetween
  <1> QED BY <1>1, <1>5, <1>6

\* What a sample of the run counts in a target that was known all the time, if
\* the process has not restarted since the first scrape.
LEMMA PartCounts ==
  ASSUME HistogramsWhole, IInv, HistoryOK, SamplesOK, StartsOK, BeginOK, samples # <<>>,
         NEW answer, NextHistogram(answer), NEW m \in Nat, Calls(m), ~Skips(answer),
         NEW k \in Run(answer), NEW r, r = samples[k].ref, r[1] \in steady,
         SeriesOf(r).part # "badle", NEW j \in DOMAIN scrapes[r[1]], SampledAt(k, j)
  PROVE  \/ \E a \in DOMAIN scrapes[r[1]] : a < j /\ AfterRestart(r, entry[r], a)'
         \/ /\ FromScrape(r, entry[r], 1)' /\ 1 \in DOMAIN scrapes[r[1]]
            /\ scrapes[r[1]][1].base = scrapes[r[1]][j].base =>
                 ValueOf(answer, k) = Seen(scrapes[r[1]][j].events, SeriesOf(r))
                                      - Seen(scrapes[r[1]][1].events, SeriesOf(r))
  <1>0. TypeOK /\ RecordOK
    BY DEF IInv
  <1>1. /\ k \in DOMAIN samples /\ r \in Refs /\ r[1] \in Targets /\ SeriesOf(r) \in Series
        /\ Reported(r) /\ Adjusts(r, k) /\ entry[r].hasReset
        /\ ValueOf(answer, k) = samples[k].value - entry'[r].resetValue
    BY RunPart
  <1>2. scrapes[r[1]] # <<>> /\ 1 \in DOMAIN scrapes[r[1]] /\ 1 <= j
    <2>1. scrapes[r[1]] # <<>>
      BY <1>0, <1>1, ScrapeIndex
    <2> QED BY <1>0, <1>1, <2>1, ScrapeIndex
  <1>3. FromScrape(r, entry[r], 1) \/ \E a \in DOMAIN scrapes[r[1]] : AfterRestart(r, entry[r], a)
    BY <1>1, <1>2 DEF BeginOK
  <1>4. \/ FromScrape(r, entry[r], 1)'
        \/ \E a \in DOMAIN scrapes[r[1]] : a < j /\ AfterRestart(r, entry[r], a)'
    BY <1>1, <1>3, SteadyBegun
  <1>5. CASE FromScrape(r, entry[r], 1)'
    <2>1. scrapes' = scrapes /\ SeriesOf(r)' = SeriesOf(r)
      BY DEF Calls, SeriesOf
    <2>2. entry'[r].resetValue = Value(scrapes[r[1]][1], SeriesOf(r))
      BY <1>5, <2>1 DEF FromScrape
    <2>3. samples[k].value = Value(scrapes[r[1]][j], SeriesOf(r))
      BY DEF SampledAt
    <2>4. ASSUME scrapes[r[1]][1].base = scrapes[r[1]][j].base
          PROVE  ValueOf(answer, k) = Seen(scrapes[r[1]][j].events, SeriesOf(r))
                                      - Seen(scrapes[r[1]][1].events, SeriesOf(r))
      <3>1. PICK x, y, s : x = scrapes[r[1]][1] /\ y = scrapes[r[1]][j] /\ s = SeriesOf(r)
        OBVIOUS
      <3>2. ProcessOK(x) /\ ProcessOK(y) /\ Later(x, y) /\ s \in Series /\ x.base = y.base
        BY <1>0, <1>1, <1>2, <2>4, <3>1, LaterAt
      <3>3. PICK e, b, f, c \in Nat :
               /\ e = Seen(x.events, s) /\ b = Seen(x.base, s)
               /\ f = Seen(y.events, s) /\ c = Seen(y.base, s)
               /\ b <= e /\ c <= f /\ e <= f /\ b <= c
               /\ x.base = y.base \/ e <= c
               /\ x.base = y.base => b = c
        BY ONLY <3>2, SeenOf
      <3>4. Value(x, s) = e - b /\ Value(y, s) = f - c
        BY <3>3 DEF Value
      <3>5. ValueOf(answer, k) = (f - c) - (e - b)
        BY <1>1, <2>2, <2>3, <3>1, <3>4
      <3>6. ValueOf(answer, k) = f - e
        BY <3>2, <3>3, <3>5
      <3> QED BY <3>1, <3>3, <3>6
    <2> QED BY <1>2, <1>5, <2>4
  <1> QED BY <1>4, <1>5

\* The greatest element.
LEMMA MaxIs ==
  ASSUME NEW T, NEW b \in Nat, T \subseteq 0..b, NEW n \in T, \A c \in T : c <= n
  PROVE  Max(T) = n
  <1>1. \A c \in T : c \in Nat /\ n >= c
    OBVIOUS
  <1>2. PICK y : y = Max(T)
    OBVIOUS
  <1>3. y \in T /\ \A c \in T : y >= c
    BY <1>1, <1>2 DEF Max
  <1>4. y = n
    BY <1>1, <1>3
  <1> QED BY <1>2, <1>4

\* Sorting and subtracting gives the counts between the bounds.
LEMMA BucketsAre ==
  ASSUME NEW B, B \subseteq 0..Sizes, NEW n, n[0] = 0, \A c \in 0..Sizes : n[c] \in Int,
         NEW D, D = [c \in B |-> n[c]]
  PROVE  BucketCounts(D) = InBuckets(n, B)
  <1>0. Sizes \in Nat
    BY BuilderAssumption DEF BuilderAssumption
  <1>1. ASSUME NEW c \in B
        PROVE  LET below == {d \in DOMAIN D : d < c}
               IN D[c] - (IF below = {} THEN 0 ELSE D[Max(below)])
                    = n[c] - n[Max({d \in B : d < c} \cup {0})]
    <2> DEFINE S == {d \in B : d < c}
    <2>1. {d \in DOMAIN D : d < c} = S /\ D[c] = n[c] /\ S \subseteq 0..Sizes /\ n[c] \in Int
      OBVIOUS
    <2>2. S \subseteq B
      OBVIOUS
    <2> HIDE DEF S
    <2>3. CASE S = {}
      <3>1. S \cup {0} = {0}
        BY <2>3
      <3>2. Max({0}) = 0
        BY <1>0, MaxIs
      <3> QED BY <2>1, <2>3, <3>1, <3>2 DEF S
    <2>4. CASE S # {}
      <3>1. PICK d : d = Max(S)
        OBVIOUS
      <3>2. d \in S /\ \A e \in S : d >= e
        BY <1>0, <2>1, <2>4, <3>1, MaxIsElement
      <3>3. \A e \in S : e <= d
        BY <1>0, <2>1, <3>2
      <3>4. Max(S \cup {0}) = d
        <4>1. S \cup {0} \subseteq 0..Sizes /\ d \in S \cup {0} /\ \A e \in S \cup {0} : e <= d
          BY <1>0, <2>1, <3>2, <3>3
        <4> QED BY <1>0, <4>1, MaxIs
      <3>5. D[d] = n[d]
        BY <2>2, <3>2
      <3> QED BY <2>1, <2>4, <3>1, <3>4, <3>5 DEF S
    <2> QED BY <2>3, <2>4
  <1> QED BY <1>1 DEF BucketCounts, InBuckets

\* A distribution that is what happened.
LEMMA DistributedStays ==
  ASSUME TypeOK, HistoryOK, NEW x, x.ref[1] \in Targets, Extends(x.ref[1]), layout' = layout,
         Distributed(x)
  PROVE  Distributed(x)'
  <1>1. PICK p \in Targets : p = x.ref[1]
    OBVIOUS
  <1>2. PICK a, b \in DOMAIN scrapes[p] :
           LastAt(p, x.start, a) /\ LastAt(p, x.end, b) /\ DistributedBetween(x, a, b)
    BY <1>1 DEF Distributed
  <1>3. /\ LastAt(p, x.start, a)' /\ a \in DOMAIN scrapes'[p] /\ scrapes'[p][a] = scrapes[p][a]
        /\ LastAt(p, x.end, b)' /\ b \in DOMAIN scrapes'[p] /\ scrapes'[p][b] = scrapes[p][b]
    BY <1>1, <1>2, LastAtStays
  <1>4. Bounds(x)' = Bounds(x)
    BY DEF Bounds, SeriesOf
  <1>5. DistributedBetween(x, a, b)'
    BY <1>1, <1>2, <1>3, <1>4 DEF DistributedBetween
  <1> QED BY <1>1, <1>3, <1>5 DEF Distributed

\* The point of a histogram of a target that was known all the time.
LEMMA HistogramDistributed ==
  ASSUME HistogramsWhole, Sequential, IInv, HistoryOK, SamplesOK, SteadyOK, StartsOK, BeginOK,
         InOrder, BoundaryOK, samples # <<>>, NEW answer, NextHistogram(answer),
         NEW m \in Nat, Calls(m), ~Skips(answer), NEW x, NEW c \in OfPart(answer, "count"),
         x.ref = samples[c].ref, Reports(x, c), x.buckets = BucketCounts(Dist(answer)),
         x.ref[1] \in steady
  PROVE  Distributed(x)
  <1>0. TypeOK /\ RecordOK
    BY DEF IInv
  <1>1. PICK r : r = x.ref
    OBVIOUS
  <1>2. PICK p : p = r[1]
    OBVIOUS
  <1>3. c \in Run(answer) /\ SeriesOf(r).part = "count" /\ r = samples[c].ref
    BY <1>1 DEF OfPart
  <1>4. /\ c \in DOMAIN samples /\ r \in Refs /\ p = First.ref[1] /\ samples[c].time = First.time
        /\ p \in Targets /\ SeriesOf(r).metric = FirstSeries.metric
    BY <1>2, <1>3, RunPart
  <1>5. PICK j \in DOMAIN scrapes[p] : SampledAt(c, j)
    BY <1>2, <1>3, <1>4 DEF SamplesOK
  <1>6. /\ j \in Nat /\ samples[c].time = scrapes[p][j].time
        /\ \A i \in DOMAIN scrapes[p] : scrapes[p][i].time = samples[c].time => i = j
    <2>1. j \in DOMAIN scrapes[r[1]] /\ samples[c].ref = r /\ r \in Refs /\ c \in DOMAIN samples
      BY <1>2, <1>3, <1>4
    <2>2. /\ j \in Nat /\ samples[c].time = scrapes[r[1]][j].time
          /\ \A i \in DOMAIN scrapes[r[1]] : scrapes[r[1]][i].time = samples[c].time => i = j
      BY ONLY <1>5, <2>1, IInv, HistoryOK, SamplesOK, SampleOf
    <2> QED BY <1>2, <2>2
  <1>7. /\ x.end = scrapes[p][j].time /\ x.start = entry'[r].resetTimestamp
        /\ x.value = samples[c].value - entry'[r].resetValue
    BY <1>1, <1>4, <1>6 DEF Reports
  <1>8. LastAt(p, x.end, j)
    BY <1>0, <1>4, <1>7, LastAtTime
  <1>9. scrapes' = scrapes
    BY DEF Calls
  <1>10. \/ \E a \in DOMAIN scrapes[p] : a < j /\ AfterRestart(r, entry[r], a)'
         \/ /\ FromScrape(r, entry[r], 1)' /\ 1 \in DOMAIN scrapes[p]
            /\ scrapes[p][1].base = scrapes[p][j].base =>
                 ValueOf(answer, c) = Seen(scrapes[p][j].events, SeriesOf(r))
                                      - Seen(scrapes[p][1].events, SeriesOf(r))
    BY <1>1, <1>2, <1>3, <1>5, PartCounts
  <1>11. CASE \E a \in DOMAIN scrapes[p] : a < j /\ AfterRestart(r, entry[r], a)'
    <2>1. PICK a \in DOMAIN scrapes[p] : a < j /\ AfterRestart(r, entry[r], a)'
      BY <1>11
    <2>2. /\ a + 1 \in DOMAIN scrapes[p] /\ x.start = scrapes[p][a + 1].time - 1
          /\ scrapes[p][a].base # scrapes[p][a + 1].base
      BY <1>2, <1>7, <1>9, <2>1 DEF AfterRestart
    <2>3. LastAt(p, x.start, a)
      BY <1>0, <1>4, <2>2, JustBefore
    <2>4. a <= a
      BY <1>0, <1>4, ScrapeIndex
    <2>5. scrapes[p][a].base # scrapes[p][j].base
      BY <1>0, <1>4, <2>1, <2>2, <2>4, RestartShows
    <2>6. DistributedBetween(x, a, j)
      BY <1>1, <1>2, <2>5 DEF DistributedBetween
    <2> QED BY <1>1, <1>2, <1>8, <2>3, <2>6 DEF Distributed
  <1>12. CASE /\ FromScrape(r, entry[r], 1)' /\ 1 \in DOMAIN scrapes[p]
              /\ scrapes[p][1].base = scrapes[p][j].base =>
                   ValueOf(answer, c) = Seen(scrapes[p][j].events, SeriesOf(r))
                                        - Seen(scrapes[p][1].events, SeriesOf(r))
    <2>1. x.start = scrapes[p][1].time
      BY <1>2, <1>7, <1>9, <1>12 DEF FromScrape
    <2>2. LastAt(p, x.start, 1)
      BY <1>0, <1>4, <1>12, <2>1, LastAtTime
    <2>3. ASSUME scrapes[p][1].base = scrapes[p][j].base,
                 NEW n, n = Increase(scrapes[p][1], scrapes[p][j])
          PROVE  /\ x.value = n[Sizes]
                 /\ x.buckets = InBuckets(n, Bounds(x))
      <3>0. Sizes \in Nat /\ Sizes \in 0..Sizes /\ 0 \in 0..Sizes
        BY BuilderAssumption DEF BuilderAssumption
      <3>1. 1 <= j
        BY <1>0, <1>4, ScrapeIndex
      <3>2. /\ ProcessOK(scrapes[p][1]) /\ ProcessOK(scrapes[p][j])
        BY <1>0, <1>4, <1>12, <3>1, LaterAt
      <3>3. /\ \A d \in 0..Sizes : n[d] = scrapes[p][j].events[d] - scrapes[p][1].events[d]
            /\ \A d \in 0..Sizes : n[d] \in Int
            /\ n[0] = 0
        <4>1. \A d \in 0..Sizes : n[d] = scrapes[p][j].events[d] - scrapes[p][1].events[d]
          BY <2>3 DEF Increase
        <4>2. \A d \in 0..Sizes : scrapes[p][j].events[d] \in Nat /\ scrapes[p][1].events[d] \in Nat
          BY <3>2 DEF ProcessOK, Counts
        <4>3. scrapes[p][j].events[0] = 0 /\ scrapes[p][1].events[0] = 0
          BY <3>2 DEF ProcessOK
        <4> QED BY <3>0, <4>1, <4>2, <4>3
      <3>4. x.value = n[Sizes]
        <4>1. ValueOf(answer, c) = x.value
          BY <1>2, <1>3, <1>7, RunPart
        <4>2. /\ Seen(scrapes[p][j].events, SeriesOf(r)) = scrapes[p][j].events[Sizes]
              /\ Seen(scrapes[p][1].events, SeriesOf(r)) = scrapes[p][1].events[Sizes]
          BY <1>3 DEF Seen
        <4> QED BY <1>12, <2>3, <3>0, <3>3, <4>1, <4>2
      <3>5. ASSUME NEW k \in OfPart(answer, "bucket")
            PROVE  ValueOf(answer, k) = n[SeriesOf(samples[k].ref).le]
        <4>1. PICK q : q = samples[k].ref
          OBVIOUS
        <4>2. k \in Run(answer) /\ SeriesOf(q).part = "bucket"
          BY <4>1 DEF OfPart
        <4>3. /\ k \in DOMAIN samples /\ q[1] = p /\ samples[k].time = First.time /\ q \in Refs
              /\ SeriesOf(q) \in Series
          BY <1>4, <4>1, <4>2, RunPart
        <4>4. PICK i \in DOMAIN scrapes[p] : SampledAt(k, i)
          BY <4>1, <4>3 DEF SamplesOK
        <4>5. scrapes[p][i].time = samples[c].time
          BY <1>4, <4>1, <4>3, <4>4 DEF SampledAt
        <4>6. i = j /\ SampledAt(k, j)
          BY <1>6, <4>4, <4>5
        <4>7. \/ \E a \in DOMAIN scrapes[p] : a < j /\ AfterRestart(q, entry[q], a)'
              \/ /\ scrapes[p][1].base = scrapes[p][j].base =>
                      ValueOf(answer, k) = Seen(scrapes[p][j].events, SeriesOf(q))
                                           - Seen(scrapes[p][1].events, SeriesOf(q))
          BY <1>1, <1>2, <4>1, <4>2, <4>3, <4>6, PartCounts
        <4>8. ASSUME NEW a \in DOMAIN scrapes[p], a < j, AfterRestart(q, entry[q], a)' PROVE FALSE
          <5>1. a + 1 \in DOMAIN scrapes[p] /\ scrapes[p][a].base # scrapes[p][a + 1].base
            BY <1>9, <4>3, <4>8 DEF AfterRestart
          <5>2. 1 <= a
            BY <1>0, <1>4, ScrapeIndex
          <5>3. scrapes[p][1].base # scrapes[p][j].base
            BY <1>0, <1>4, <1>12, <4>8, <5>1, <5>2, RestartShows
          <5> QED BY <2>3, <5>3
        <4>9. SeriesOf(q).le \in 0..Sizes
          BY <4>3 DEF Series
        <4>10. /\ Seen(scrapes[p][j].events, SeriesOf(q)) = scrapes[p][j].events[SeriesOf(q).le]
               /\ Seen(scrapes[p][1].events, SeriesOf(q)) = scrapes[p][1].events[SeriesOf(q).le]
          BY <4>2 DEF Seen
        <4> QED BY <2>3, <3>3, <4>1, <4>7, <4>8, <4>9, <4>10
      <3>6. {SeriesOf(samples[k].ref).le : k \in OfPart(answer, "bucket")} = Bounds(x)
        <4>1. ASSUME NEW k \in OfPart(answer, "bucket") PROVE SeriesOf(samples[k].ref).le \in Bounds(x)
          <5>1. PICK q : q = samples[k].ref
            OBVIOUS
          <5>2. k \in Run(answer) /\ SeriesOf(q).part = "bucket"
            BY <5>1 DEF OfPart
          <5>3. q[1] = p /\ q[2] \in DOMAIN layout[p] /\ SeriesOf(q).metric = SeriesOf(r).metric
            BY <1>4, <5>1, <5>2, RunPart
          <5>4. SeriesOf(q) = layout[p][q[2]]
            BY <5>3 DEF SeriesOf
          <5> QED BY <1>1, <1>2, <5>1, <5>2, <5>3, <5>4 DEF Bounds
        <4>2. ASSUME NEW i \in DOMAIN layout[p], layout[p][i].metric = SeriesOf(r).metric,
                     layout[p][i].part = "bucket"
              PROVE  \E k \in OfPart(answer, "bucket") : layout[p][i].le = SeriesOf(samples[k].ref).le
          <5>1. IsPart(p, i, FirstSeries.metric)
            BY <1>4, <4>2 DEF IsPart, Parts
          <5>2. FirstSeries.part \in Parts
            <6>1. 1 \in DOMAIN samples /\ First = samples[1] /\ FirstSeries = SeriesOf(samples[1].ref)
              BY <1>0, FirstOK DEF FirstSeries
            <6>2. Looked(answer, samples[1].ref) = "populated"
              BY <6>1, HistogramIs
            <6>3. 1 \in 1..(StopOf(answer) - 1)
              <7>1. c \in 1..(StopOf(answer) - 1) /\ StopOf(answer) \in 1..(Len(samples) + 1)
                BY <1>0, <1>3, AdjustedIs, StopIs
              <7>2. Len(samples) \in Nat
                BY <1>0, SeqShape DEF TypeOK
              <7> QED BY <7>1, <7>2
            <6>4. 1 \in Run(answer)
              BY <1>0, <6>2, <6>3, AdjustedIs
            <6> QED BY <1>0, <6>1, <6>4, AdjustedIs
          <5>3. PICK k \in Run(answer) : samples[k].ref = <<p, i>>
            BY <1>1, <1>2, <1>4, <5>1, <5>2, PartInRun
          <5>4. SeriesOf(samples[k].ref) = layout[p][i]
            BY <5>3 DEF SeriesOf
          <5> QED BY <4>2, <5>4 DEF OfPart
        <4>3. Bounds(x) = {layout[p][i].le : i \in
                {i \in DOMAIN layout[p] : layout[p][i].metric = SeriesOf(r).metric
                                          /\ layout[p][i].part = "bucket"}}
          BY <1>1, <1>2 DEF Bounds
        <4> QED BY <4>1, <4>2, <4>3
      <3>7. Dist(answer) = [b \in Bounds(x) |-> n[b]]
        <4>1. ASSUME NEW b \in Bounds(x)
              PROVE  ValueOf(answer, CHOOSE k \in OfPart(answer, "bucket") : SeriesOf(samples[k].ref).le = b)
                       = n[b]
          <5>1. \E k \in OfPart(answer, "bucket") : SeriesOf(samples[k].ref).le = b
            BY <3>6
          <5>2. PICK k : k = CHOOSE l \in OfPart(answer, "bucket") : SeriesOf(samples[l].ref).le = b
            OBVIOUS
          <5>3. k \in OfPart(answer, "bucket") /\ SeriesOf(samples[k].ref).le = b
            BY <5>1, <5>2
          <5> QED BY <3>5, <5>2, <5>3
        <4> QED BY <3>6, <4>1 DEF Dist
      <3>8. Bounds(x) \subseteq 0..Sizes
        <4>1. ASSUME NEW k \in OfPart(answer, "bucket") PROVE SeriesOf(samples[k].ref).le \in 0..Sizes
          <5>1. k \in Run(answer)
            BY DEF OfPart
          <5>2. SeriesOf(samples[k].ref) \in Series
            BY <5>1, RunPart
          <5> QED BY <5>2 DEF Series
        <4> QED BY <3>6, <4>1
      <3>9. BucketCounts(Dist(answer)) = InBuckets(n, Bounds(x))
        <4>1. PICK B, D : B = Bounds(x) /\ D = Dist(answer)
          OBVIOUS
        <4>2. B \subseteq 0..Sizes /\ D = [b \in B |-> n[b]]
          BY <3>7, <3>8, <4>1
        <4>3. n[0] = 0 /\ \A d \in 0..Sizes : n[d] \in Int
          BY <3>3
        <4>4. BucketCounts(D) = InBuckets(n, B)
          BY ONLY <4>2, <4>3, BucketsAre
        <4> QED BY <4>1, <4>4
      <3> QED BY <3>4, <3>9
    <2>4. DistributedBetween(x, 1, j)
      <3>1. PICK n : n = Increase(scrapes[p][1], scrapes[p][j])
        OBVIOUS
      <3> QED BY <1>1, <1>2, <2>3, <3>1 DEF DistributedBetween
    <2> QED BY <1>1, <1>2, <1>8, <1>12, <2>2, <2>4 DEF Distributed
  <1> QED BY <1>10, <1>11, <1>12

\* What a call of next sends for a histogram of a target known all the time.
LEMMA NextDistributes ==
  ASSUME HistogramsWhole, Sequential, IInv, HistoryOK, SamplesOK, SteadyOK, StartsOK, BeginOK,
         InOrder, BoundaryOK, samples # <<>>, NEW answer, BuildNext(answer), NEW m \in Nat, Calls(m)
  PROVE  \/ sent' = sent
         \/ \E x : /\ Sends(x) /\ x.ref \in Refs
                   /\ SeriesOf(x.ref).kind = "histogram" /\ x.ref[1] \in steady => Distributed(x)
  <1>0. TypeOK /\ RecordOK
    BY DEF IInv
  <1>1. /\ First.ref \in Refs /\ FirstSeries.hash \in Hashes /\ 1 \in DOMAIN samples
        /\ FirstSeries = SeriesOf(First.ref)
    BY <1>0, FirstOK DEF FirstSeries
  <1>2. CASE NextFails(answer) \/ NextUnknown(answer) \/ NextUnexported(answer)
    BY <1>2 DEF NextFails, NextUnknown, NextUnexported
  <1>3. CASE NextGauge(answer)
    <2> DEFINE x == [ref |-> First.ref, start |-> 0, end |-> First.time,
                     value |-> First.value, buckets |-> <<>>, again |-> FALSE]
    <2>1. Produce(FirstSeries.hash, x) /\ FirstSeries.kind = "gauge"
      BY <1>3 DEF NextGauge
    <2>2. x.ref = First.ref
      OBVIOUS
    <2> HIDE DEF x
    <2>3. sent' = sent \/ Sends(x)
      BY <1>1, <2>1, ProduceSends
    <2> QED BY <1>1, <2>1, <2>2, <2>3
  <1>4. CASE NextCounter(answer)
    BY <1>0, <1>1, <1>4, CounterSends
  <1>5. CASE NextHistogram(answer)
    <2>1. CASE sent' = sent
      BY <2>1
    <2>2. CASE sent' # sent
      <3>1. PICK c \in OfPart(answer, "count") :
              LET x == HistogramPoint(answer)
              IN /\ Sends(x) /\ ~Skips(answer) /\ c \in DOMAIN samples /\ x.ref = samples[c].ref
                 /\ Reports(x, c) /\ x.buckets = BucketCounts(Dist(answer))
        BY <1>0, <1>5, <2>2, HistogramSends
      <3>2. PICK x : x = HistogramPoint(answer)
        OBVIOUS
      <3>3. /\ Sends(x) /\ ~Skips(answer) /\ c \in DOMAIN samples /\ x.ref = samples[c].ref
            /\ Reports(x, c) /\ x.buckets = BucketCounts(Dist(answer))
        BY <3>1, <3>2
      <3>4. x.ref \in Refs
        BY <1>0, <3>3 DEF RecordOK
      <3>5. x.ref[1] \in steady => Distributed(x)
        BY <1>5, <3>1, <3>3, HistogramDistributed
      <3> QED BY <3>3, <3>4, <3>5
    <2> QED BY <2>1, <2>2
  <1> QED BY <1>2, <1>3, <1>4, <1>5 DEF BuildNext

\* Every step keeps all distributions so.
LEMMA DistributedStep ==
  ASSUME HistogramsWhole, Sequential, IInv, HistoryOK, SamplesOK, fed = [r \in Refs |-> fed[r]],
         SteadyOK, StartsOK, BeginOK, InOrder, BoundaryOK, DistributedOK, [Next]_vars
  PROVE  DistributedOK'
  <1>0. TypeOK /\ RecordOK /\ PointsOK
    BY DEF IInv
  <1>1. layout' = layout /\ Refs' = Refs /\ steady' \subseteq steady
    <2>1. layout' = layout /\ steady' \subseteq steady
      BY <1>0, StepKinds DEF SameValues, Calls, Scrape, RefreshIsDue, Replace, inputVars
    <2> QED BY <2>1, RefsSame
  <1>2. \A r : SeriesOf(r)' = SeriesOf(r)
    BY <1>1 DEF SeriesOf
  <1>3. ASSUME NEW y, y.ref \in Refs, Distributed(y)
        PROVE  Distributed(y)'
    <2>1. y.ref[1] \in Targets
      BY <1>0, <1>3, SeriesType DEF TypeOK
    <2>2. Extends(y.ref[1])
      BY <2>1, HistoryStep
    <2> QED BY <1>0, <1>1, <1>3, <2>1, <2>2, DistributedStays
  <1>4. ASSUME NEW h \in Hashes, NEW i \in DOMAIN sent[h], NEW y, y = sent[h][i]
        PROVE  /\ y.ref \in Refs
               /\ SeriesOf(y.ref).kind = "histogram" /\ y.ref[1] \in steady => Distributed(y)
    BY <1>4 DEF DistributedOK
  <1>5. ASSUME sent' = sent PROVE DistributedOK'
    <2>1. ASSUME NEW h \in Hashes, NEW i \in DOMAIN sent[h], NEW y, y = sent[h][i]
          PROVE  /\ y.ref \in Refs
                 /\ SeriesOf(y.ref).kind = "histogram" /\ y.ref[1] \in steady' => Distributed(y)'
      BY <1>1, <1>3, <1>4, <2>1
    <2> QED BY <1>1, <1>2, <1>5, <2>1 DEF DistributedOK
  <1>6. ASSUME NEW answer \in Answers, samples # <<>>, BuildNext(answer), NEW m \in Nat, Calls(m)
        PROVE  DistributedOK'
    <2>1. CASE sent' = sent
      BY <1>5, <2>1
    <2>2. CASE sent' # sent
      <3>1. PICK x : /\ Sends(x) /\ x.ref \in Refs
                     /\ SeriesOf(x.ref).kind = "histogram" /\ x.ref[1] \in steady => Distributed(x)
        BY <1>6, <2>2, NextDistributes
      <3>2. ASSUME NEW h \in Hashes, NEW i \in DOMAIN sent'[h], NEW z, z = sent'[h][i]
            PROVE  /\ z.ref \in Refs
                   /\ SeriesOf(z.ref).kind = "histogram" /\ z.ref[1] \in steady' => Distributed(z)'
        <4>1. CASE z = x
          BY <1>1, <1>3, <3>1, <4>1
        <4>2. CASE i \in DOMAIN sent[h] /\ z = sent[h][i]
          BY <1>1, <1>3, <1>4, <4>2
        <4> QED BY <1>0, <3>1, <3>2, <4>1, <4>2, SentAfter
      <3> QED BY <1>1, <1>2, <3>2 DEF DistributedOK
    <2> QED BY <2>1, <2>2
  <1>7. ASSUME NEW p \in Targets, NEW t \in 1..MaxTime, NEW n \in 1..2, Scrape(p, t, n)
        PROVE  sent' = sent
    BY <1>7 DEF Scrape
  <1>8. ASSUME NEW r \in Refs, RefreshIsDue(r) \/ \E l : Replace(r, NewEntry(l))
        PROVE  sent' = sent
    BY <1>8 DEF RefreshIsDue, Replace
  <1> QED BY <1>0, <1>5, <1>6, <1>7, <1>8, StepKinds DEF SameValues

\* The inductive invariant about histograms.
HistogramInv == InOrder /\ BeginOK /\ BoundaryOK /\ DistributedOK

\* A distribution is the histogram of what the process observed since the reset
\* timestamp, bucket by bucket, where the process did not restart and the cache
\* knew all series all the time, for any number of bounds, in whatever order the
\* buckets come (buildDistribution, transform.go).  As the code does, this takes
\* the series of a histogram to be exported as a whole and in sequence.
THEOREM DistributionTrueHolds ==
  ASSUME HistogramsWhole, Sequential
  PROVE  Spec => []DistributionTrue
  <1>1. Init => HistogramInv
    <2> SUFFICES ASSUME Init PROVE HistogramInv
      OBVIOUS
    <2>1. samples = <<>> /\ DOMAIN samples = {}
      BY DEF Init
    <2>2. \A h \in Hashes : sent[h] = <<>>
      BY DEF Init
    <2>3. \A h \in Hashes : DOMAIN sent[h] = {}
      BY <2>2
    <2>4. layout \in Layouts /\ \A p \in Targets : scrapes[p] = <<>>
      BY DEF Init
    <2>5. \A r \in Refs : scrapes[r[1]] = <<>>
      BY <2>4, SeriesType
    <2> QED BY <2>1, <2>3, <2>5 DEF HistogramInv, InOrder, BeginOK, BoundaryOK, DistributedOK
  <1>2. IInv /\ IInv' /\ TrackInv /\ ResetInv /\ HistogramInv /\ [Next]_vars => HistogramInv'
    <2> SUFFICES ASSUME IInv, IInv', TrackInv, ResetInv, HistogramInv, [Next]_vars PROVE HistogramInv'
      OBVIOUS
    <2>1. /\ HistoryOK /\ SamplesOK /\ FedOK /\ SteadyOK /\ LaterLeft /\ StartsOK
          /\ InOrder /\ BeginOK /\ BoundaryOK /\ DistributedOK
      BY DEF TrackInv, ResetInv, HistogramInv
    <2>2. fed = [r \in Refs |-> fed[r]]
      BY <2>1 DEF FedOK
    <2>3. InOrder'
      BY <2>1, <2>2, InOrderStep
    <2>4. BeginOK'
      BY <2>1, BeginStep
    <2>5. BoundaryOK'
      BY <2>1, <2>2, BoundaryStep
    <2>6. DistributedOK'
      BY <2>1, <2>2, DistributedStep
    <2> QED BY <2>3, <2>4, <2>5, <2>6 DEF HistogramInv
  <1>3. IInv /\ HistogramInv => DistributionTrue
    <2> SUFFICES ASSUME IInv, DistributedOK, NEW h \in Hashes, NEW i \in DOMAIN sent[h],
                        NEW x, x = sent[h][i], SeriesOf(x.ref).kind = "histogram", x.ref[1] \in steady,
                        NoRestart(x.ref[1], x.start, x.end),
                        NEW n, n = Happened(x.ref[1], x.start, x.end)
                 PROVE  /\ x.value = n[Sizes]
                        /\ x.buckets = [b \in Bounds(x) |->
                                          n[b] - n[Max({c \in Bounds(x) : c < b} \cup {0})]]
      BY DEF HistogramInv, DistributionTrue
    <2>1. x.ref \in Refs /\ Distributed(x)
      BY DEF DistributedOK
    <2>2. PICK p \in Targets : p = x.ref[1]
      BY <2>1, SeriesType DEF IInv, TypeOK
    <2>3. PICK a, b \in DOMAIN scrapes[p] :
             LastAt(p, x.start, a) /\ LastAt(p, x.end, b) /\ DistributedBetween(x, a, b)
      BY <2>1, <2>2 DEF Distributed
    <2>4. ScrapeAt(p, x.start) = scrapes[p][a] /\ ScrapeAt(p, x.end) = scrapes[p][b]
      BY <2>3, ScrapeAtIs DEF IInv, LastAt
    <2>5. n = Increase(scrapes[p][a], scrapes[p][b])
      BY <2>2, <2>4 DEF Happened, Increase
    <2>6. scrapes[p][a].base = scrapes[p][b].base
      BY <2>2, <2>4 DEF NoRestart
    <2>7. x.value = n[Sizes] /\ x.buckets = InBuckets(n, Bounds(x))
      BY <2>2, <2>3, <2>5, <2>6 DEF DistributedBetween
    <2> QED BY <2>7 DEF InBuckets
  <1> QED BY <1>1, <1>2, <1>3, Invariance, TrackInvHolds, ResetInvHolds, PTL DEF Spec
==============================================================================
