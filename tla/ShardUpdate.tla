----------------------------- MODULE ShardUpdate -----------------------------
(***************************************************************************)
(* How the queue manager chooses the number of shards:                     *)
(* calculateDesiredShards of stackdriver/queue_manager.go with the moving  *)
(* averages of stackdriver/ewma.go, in a loop with what it controls, the   *)
(* rate at which the log is read and sent.  Time is counted in intervals   *)
(* of shardUpdateDuration.  QueueManager has the concurrency of resharding *)
(* and leaves the chosen number open; this module has the choice.          *)
(***************************************************************************)
EXTENDS Integers, FiniteSetsExt

CONSTANTS Loads,          \* samples that Prometheus may write in an interval
          PerShard,       \* samples that a shard sends in an interval
          Capacity,       \* samples that a shard queues
          BytesPerSample, \* in the log
          LogSize,        \* Size() when it fails: bytes in the log by then
          Excess,         \* bytes of the tailer's checkpoint beyond a segment
          MaxShards,      \* cfg.MaxShards
          MaxBacklog,     \* bound on the samples not yet read
          MaxChanges,     \* bound on what disturbs the loop: see Next
          Unit            \* the floating-point rates are in units of 1/Unit

ASSUME ShardUpdateAssumption ==
    /\ Loads \subseteq Nat
    /\ {PerShard, Capacity, BytesPerSample, LogSize, MaxShards, Unit} \subseteq Nat \ {0}
    /\ {Excess, MaxBacklog, MaxChanges} \subseteq Nat

VARIABLES
    load, backlog,   \* the log: samples per interval, samples not yet read
    checkpoint,      \* whether Offset is "ahead" by the excess of a checkpoint
    queued,          \* samples read but not yet sent
    held,            \* time that batches have been retried, see Work
    grown, moved,    \* Size() - lastSize and Offset() - lastOffset
    newEvents, rate, \* newEvents and lastRate of each ewmaRate
    init,            \* init of the ewmaRates, which are ticked together
    numShards,
    pc,              \* updateShardsLoop waits for the "ticker", or has "measured"
                     \* Size and Offset, or has "failed" to
    changes

envVars == <<load, backlog, checkpoint, queued, held>>
vars == <<envVars, grown, moved, newEvents, rate, init, numShards, pc, changes>>

Rates == {"samplesIn", "samplesOut", "samplesOutDuration", "walSize", "walOffset"}

Init ==
    /\ load \in Loads /\ backlog \in {0, MaxBacklog} /\ checkpoint = "unread"
    /\ queued = 0 /\ held = 0 /\ grown = backlog * BytesPerSample /\ moved = 0
    /\ newEvents = [r \in Rates |-> 0] /\ rate = newEvents /\ init = FALSE
    /\ numShards = 1 /\ pc = "ticker" /\ changes = 0

-----------------------------------------------------------------------------
(* What happens to the samples, while Prometheus writes new ones and the   *)
(* shards have the capacity to send so many.                               *)

Sent(new, capacity) == Min({queued + backlog + new, capacity})

\* Append blocks the reader when the queues are full.
Taken(new, capacity) ==
    Min({backlog + new, Sent(new, capacity) + Max({0, numShards * Capacity - queued})})

\* A sample may be sent in the interval in which it is read, or much later: a
\* recoverable error keeps the shards retrying.  Both counters of a batch are
\* incremented when its send ends, its duration then has all the retries.
Work(new, capacity) ==
    LET t == Taken(new, capacity)
        s == Sent(new, capacity)
    IN /\ backlog' = Min({MaxBacklog, backlog + new - t})
       /\ queued' = queued + t - s
       /\ held' = IF s = 0 THEN held + PerShard * Min({numShards, queued + t}) ELSE 0

\* The time a shard takes for a sample is the unit of samplesOutDuration.
Duration(s) == IF s = 0 THEN 0 ELSE s + held

\* An average over 5 ticks, away from 0: a floating-point average that has been
\* positive, or negative, does not come down to 0.
Average(x) == IF x >= 0 THEN (x + 4) \div 5 ELSE -((4 - x) \div 5)

\* ewmaRate.tick, with ewmaWeight = 0.2.
Ticked ==
    [r \in Rates |-> IF init THEN Average(4 * rate[r] + newEvents[r] * Unit)
                             ELSE newEvents[r] * Unit]

\* More shards if the log grows faster than it is read, to read it as fast, and
\* if it is read faster, to work down the backlog.
Adjusted(shards, size, offset) ==
    LET num == IF offset < 0 THEN -size ELSE size
        den == IF offset < 0 THEN -offset ELSE offset
    IN IF size >= offset THEN (shards * num) \div den
       ELSE shards + (3 * shards * (den - num)) \div (2 * den)

\* In hundredths: the time per sample, in intervals, times 1.5, times samplesIn.
\* samplesOutDuration counts in the time that a shard takes for a sample.
DesiredShards(r) ==
    Adjusted((150 * r["samplesOutDuration"] * r["samplesIn"])
                \div (Unit * PerShard * r["samplesOut"]),
             r["walSize"], r["walOffset"])

\* Mutant: no lower bound for the decrease.
SignificantUpOnly(d) == d > 110 * numShards

Significant(d) == d < 70 * numShards \/ d > 110 * numShards

\* math.Ceil, and the limits.
Limited(d) == Max({1, Min({MaxShards, (d + 99) \div 100})})

\* The numbers a calculation may arrive at.  With an offset rate of 0 the
\* desired number is infinite or not a number, and its conversion to an
\* integer differs between platforms.
Calculated(r) ==
    IF r["samplesOut"] = 0 THEN {numShards}
    ELSE IF r["walOffset"] = 0 THEN {1, MaxShards}
    ELSE LET d == DesiredShards(r)
         IN {IF Significant(d) THEN Limited(d) ELSE numShards}

\* Bytes that Offset is ahead of the position in the log: in a checkpoint it
\* counts on from the start of a segment (see OffsetInStep of Tailer).
Ahead == [c \in {"unread", "ahead", "left"} |-> IF c = "ahead" THEN Excess ELSE 0]

\* Mutant: the error of Size is handled before the increments, but lastSize and
\* lastOffset are set all the same.
MeasureForgetting(fails, size, offset, t, s) ==
    /\ newEvents' = [r \in Rates |->
         CASE r = "samplesIn" -> t
           [] r = "samplesOut" -> s
           [] r = "samplesOutDuration" -> Duration(s)
           [] r = "walSize" -> IF fails THEN 0 ELSE size
           [] r = "walOffset" -> IF fails THEN 0 ELSE offset]
    /\ grown' = 0 /\ moved' = 0

\* Size and Offset are read and what they have moved is counted.  lastSize and
\* lastOffset are set unless Size fails: the same bytes are then counted again.
Measure(fails, size, offset, t, s) ==
    /\ newEvents' = [r \in Rates |->
         CASE r = "samplesIn" -> t
           [] r = "samplesOut" -> s
           [] r = "samplesOutDuration" -> Duration(s)
           [] r = "walSize" -> IF fails THEN -LogSize ELSE size
           [] r = "walOffset" -> offset]
    /\ grown' = IF fails THEN size ELSE 0
    /\ moved' = IF fails THEN offset ELSE 0

\* An interval, and calculateDesiredShards up to the increments at its end.
Interval(capacity, c, fails) ==
    /\ pc = "ticker" /\ pc' = IF fails THEN "failed" ELSE "measured"
    /\ Work(load, capacity) /\ checkpoint' = c
    /\ Measure(fails, grown + load * BytesPerSample,
               moved + Taken(load, capacity) * BytesPerSample + Ahead[c] - Ahead[checkpoint],
               Taken(load, capacity), Sent(load, capacity))
    /\ UNCHANGED <<load, rate, init, numShards>>

\* A sample is written and one is sent after Offset was read and before the
\* rates are ticked.
Slip ==
    /\ pc # "ticker"
    /\ Work(1, 1)
    /\ newEvents' = [newEvents EXCEPT !["samplesIn"] = @ + Taken(1, 1),
                                      !["samplesOut"] = @ + Sent(1, 1),
                                      !["samplesOutDuration"] = @ + Duration(Sent(1, 1))]
    /\ grown' = grown + BytesPerSample
    /\ moved' = moved + Taken(1, 1) * BytesPerSample
    /\ UNCHANGED <<load, checkpoint, rate, init, numShards, pc>>

\* The rest of calculateDesiredShards.  The number is kept if reshardLoop is not
\* ready to receive another.
Calculate(ready) ==
    /\ pc # "ticker" /\ pc' = "ticker"
    /\ rate' = Ticked /\ init' = TRUE /\ newEvents' = [r \in Rates |-> 0]
    /\ \E n \in Calculated(rate') :
         numShards' = IF pc = "failed" \/ ~ready THEN numShards ELSE n
    /\ UNCHANGED <<envVars, grown, moved>>

LoadChange(l) ==
    /\ pc = "ticker" /\ l # load /\ load' = l
    /\ UNCHANGED <<backlog, checkpoint, queued, held, grown, moved, newEvents, rate, init,
                   numShards, pc>>

Usual == Interval(numShards * PerShard, checkpoint, FALSE) \/ Calculate(TRUE)

\* Every send is retried for an interval, Size fails, a checkpoint that is longer
\* than a segment is read and left, reshardLoop is busy.
Disturbance ==
    \/ Interval(0, checkpoint, FALSE)
    \/ Interval(numShards * PerShard, checkpoint, TRUE)
    \/ checkpoint = "unread" /\ Interval(numShards * PerShard, "ahead", FALSE)
    \/ checkpoint = "ahead" /\ Interval(numShards * PerShard, "left", FALSE)
    \/ Slip
    \/ Calculate(FALSE)
    \/ \E l \in Loads : LoadChange(l)

Next ==
    \/ Usual /\ UNCHANGED changes
    \/ changes < MaxChanges /\ changes' = changes + 1 /\ Disturbance

\* The ticker keeps firing, and reshardLoop comes back to its receive.
Spec == Init /\ [][Next]_vars /\ WF_vars(Usual /\ UNCHANGED changes)

-----------------------------------------------------------------------------
(* Properties *)

\* Although calculateDesiredShards tests samplesOut alone, the offset rate that
\* it divides by is positive, however long sends are retried and whether or not
\* Size fails meanwhile.  The two exceptions are a checkpoint longer than a
\* segment that has been left, and bytes that were read after Offset() and that
\* the next call will count.
DivisionDefined ==
    pc = "ticker" /\ rate["samplesOut"] > 0 =>
        rate["walOffset"] > 0 \/ checkpoint = "left" \/ moved > 0

\* Once the load is steady the number of shards becomes and stays enough for it,
\* as far as MaxShards allows, and not more than about twice as many, whatever
\* backlog, earlier load, retries, failures of Size and long checkpoint there were
\* ("we have a feedback loop that keeps growing shards on subsequent calculations
\* until further increase does not increase the throughput anymore").  Only where
\* nothing is written any more may an offset rate of exactly 0 stay, see
\* Calculated.
Enough == numShards * PerShard >= Min({load, MaxShards * PerShard})
NotTooMany == numShards <= 1 + (15 * load) \div (7 * PerShard)

ShardsFit == <>[]((Enough /\ NotTooMany) \/ (load = 0 /\ rate["walOffset"] = 0))
==============================================================================
