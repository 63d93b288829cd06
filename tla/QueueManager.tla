---------------------------- MODULE QueueManager ----------------------------
(***************************************************************************)
(* The queue manager of stackdriver/queue_manager.go: the reader appends   *)
(* samples, a collection of shards batches them and sends the batches, and *)
(* two loops replace the collection by one of another size while the       *)
(* reader keeps appending.                                                 *)
(*                                                                         *)
(* Threads: the caller of Append (the Prometheus reader, one goroutine),   *)
(* the caller of Start, the caller of Stop, updateShardsLoop, reshardLoop, *)
(* and one runShard goroutine per shard.  A sample is known by its number  *)
(* in the order of the Append calls; hash gives the series of each.        *)
(***************************************************************************)
EXTENDS Integers, Sequences, FiniteSets, FiniteSetsExt, SequencesExt, Functions

CONSTANTS Hashes,            \* the series hashes that occur
          NumSamples,        \* bound: number of Append calls
          Capacity,          \* cfg.Capacity, the length of a shard's channel
          MaxSamplesPerSend, \* cfg.MaxSamplesPerSend
          MaxShards          \* cfg.MaxShards

ASSUME ConstantsAssumption ==
    /\ Hashes \subseteq Nat
    /\ NumSamples \in Nat
    /\ Capacity \in Nat \ {0}
    /\ MaxSamplesPerSend \in Nat \ {0}
    /\ MaxShards \in Nat \ {0}

VARIABLES
    hash,        \* the input: hash[n] is the hash passed to the n-th Append
    \* the caller of Append
    appended,    \* number of Append calls begun
    appender,    \* where the current call is
    queueLength, \* the queue_length gauge
    \* QueueManager
    shardsMtx,   \* writer half of the RWMutex: "free" or who locks it
    numShards,   \* t.numShards, written by the updater
    target,      \* the n handed to reshard over reshardChan
    quit,        \* quit is closed
    starter, stopper, updater, resharder,
    samplesOut,  \* samplesOut was incremented: the rate is not 0
    \* the shard collections: "cur" is t.shards, "old" reshard's oldShards
    size,        \* len(shards)
    closed,      \* the collections whose queues are closed
    queue,       \* the channels
    pending,     \* pendingSamples, as a set: the order in a batch is idle
    carry,       \* the entry that forced a send because its series was seen
    seen,        \* shard.seen
    armed,       \* the shards whose batch deadline timer runs or has fired
    runner,      \* where runShard is
    \* what the storage saw
    lastSent,    \* lastSent[h]: last sample of series h passed to Store
    succeeded,   \* samples counted by succeededSamplesTotal
    failed       \* samples counted by failedSamplesTotal

threadVars == <<starter, stopper, updater, resharder>>
managerVars == <<shardsMtx, numShards, target, quit>>
collectionVars == <<size, closed>>
shardVars == <<queue, pending, carry, seen, armed, runner>>
storeVars == <<lastSent, succeeded, failed, samplesOut>>
appendVars == <<appended, appender, queueLength>>
vars == <<hash, appendVars, managerVars, threadVars, collectionVars,
          shardVars, storeVars>>

Sample == 1..NumSamples
Gen == {"cur", "old"}
Index == 0..(MaxShards - 1)
Shard == Gen \X Index

-----------------------------------------------------------------------------
(* Helpers. *)

HashesOf(B) == {hash[n] : n \in B}

\* Everything a shard holds: batched, set aside, or still in its channel.
Contents(s) == pending[s] \cup carry[s] \cup ToSet(queue[s])

resolved == succeeded \cup failed

\* enqueue's shardIndex, in the collection g.
ShardOf(g, h) == <<g, h % size[g]>>

\* s.wg.Wait() returns: newShardCollection adds one per shard, started or not.
AllExited(g) == \A s \in Shard :
                  s[1] = g /\ s[2] < size[g] => runner[s] = "exited"

\* The shards of t.shards, each to be given a goroutine by start().
Startable(s) == s[1] = "cur" /\ s[2] < size["cur"]

\* shardCollection.start(): every shard gets its runShard goroutine.
StartCollection ==
    /\ runner' = [s \in Shard |-> IF Startable(s) THEN "select" ELSE runner[s]]
    /\ armed' = armed \cup {s \in Shard : Startable(s)}
    /\ seen' = [s \in Shard |-> IF Startable(s) THEN {} ELSE seen[s]]
    /\ UNCHANGED <<queue, pending, carry>>

-----------------------------------------------------------------------------
(* NewQueueManager: one shard, not started. *)

Init ==
    /\ hash \in [Sample -> Hashes]
    /\ appended = 0 /\ appender = "idle" /\ queueLength = 0
    /\ shardsMtx = "free" /\ numShards = 1 /\ target = 1 /\ quit = FALSE
    /\ starter = "init" /\ stopper = "init"
    /\ updater = "none" /\ resharder = "none"
    /\ size = [g \in Gen |-> IF g = "cur" THEN 1 ELSE 0]
    /\ closed = {}
    /\ queue = [s \in Shard |-> <<>>]
    /\ pending = [s \in Shard |-> {}]
    /\ carry = [s \in Shard |-> {}]
    /\ seen = [s \in Shard |-> {}]
    /\ armed = {}
    /\ runner = [s \in Shard |-> "none"]
    /\ lastSent = [h \in Hashes |-> 0]
    /\ succeeded = {} /\ failed = {} /\ samplesOut = FALSE

-----------------------------------------------------------------------------
(* Append: the gauge, RLock, the blocking channel send, RUnlock.  The      *)
(* appender holds the read lock exactly while it is at "send".             *)

AppendCall ==
    /\ appender = "idle" /\ appended < NumSamples
    /\ appended' = appended + 1
    /\ queueLength' = queueLength + 1
    /\ appender' = "rlock"
    /\ UNCHANGED <<hash, managerVars, threadVars, collectionVars, shardVars,
                   storeVars>>

AppendRLock ==
    /\ appender = "rlock" /\ shardsMtx = "free"
    /\ appender' = "send"
    /\ UNCHANGED <<hash, appended, queueLength, managerVars, threadVars,
                   collectionVars, shardVars, storeVars>>

AppendSend ==
    /\ appender = "send" /\ "cur" \notin closed
    /\ LET s == ShardOf("cur", hash[appended])
       IN /\ Len(queue[s]) < Capacity
          /\ queue' = [queue EXCEPT ![s] = Append(@, appended)]
    /\ appender' = "idle"
    /\ UNCHANGED <<hash, appended, queueLength, managerVars, threadVars,
                   collectionVars, pending, carry, seen, armed, runner,
                   storeVars>>

\* A send on a closed channel panics, and takes the process down.
AppendPanic ==
    /\ appender = "send" /\ "cur" \in closed
    /\ appender' = "panic"
    /\ UNCHANGED <<hash, appended, queueLength, managerVars, threadVars,
                   collectionVars, shardVars, storeVars>>

-----------------------------------------------------------------------------
(* Start *)

StartLoops ==
    /\ starter = "init"
    /\ starter' = "lock" /\ updater' = "loop" /\ resharder' = "select"
    /\ UNCHANGED <<hash, appendVars, managerVars, stopper, collectionVars,
                   shardVars, storeVars>>

\* Lock announces the writer (no new reader gets in) and waits for readers.
StartLock ==
    /\ starter = "lock" /\ shardsMtx = "free"
    /\ shardsMtx' = "start"
    /\ UNCHANGED <<hash, appendVars, numShards, target, quit, threadVars,
                   collectionVars, shardVars, storeVars>>

StartShards ==
    /\ shardsMtx = "start" /\ appender # "send"
    /\ StartCollection
    /\ shardsMtx' = "free" /\ starter' = "done"
    /\ UNCHANGED <<hash, appendVars, numShards, target, quit, stopper,
                   updater, resharder, collectionVars, storeVars>>

-----------------------------------------------------------------------------
(* updateShardsLoop and calculateDesiredShards.  The desired number is any *)
(* number in 1..MaxShards: it depends on measured rates (ShardUpdate has   *)
(* the choice).  Nothing happens while samplesOut is 0, when the number is *)
(* the present one, or when reshardLoop is not at its receive (the         *)
(* select's default branch).                                               *)

DesiredShards == 1..MaxShards

CalculateDesiredShards(n) ==
    /\ updater = "loop" /\ samplesOut
    /\ n # numShards
    /\ resharder = "select"
    /\ resharder' = "lock" /\ target' = n /\ numShards' = n
    /\ UNCHANGED <<hash, appendVars, shardsMtx, quit, starter, stopper,
                   updater, collectionVars, shardVars, storeVars>>

UpdateShardsLoopExit ==
    /\ updater = "loop" /\ quit
    /\ updater' = "exited"
    /\ UNCHANGED <<hash, appendVars, managerVars, starter, stopper, resharder,
                   collectionVars, shardVars, storeVars>>

-----------------------------------------------------------------------------
(* reshardLoop and reshard *)

ReshardLoopExit ==
    /\ resharder = "select" /\ quit
    /\ resharder' = "exited"
    /\ UNCHANGED <<hash, appendVars, managerVars, starter, stopper, updater,
                   collectionVars, shardVars, storeVars>>

ReshardLock ==
    /\ resharder = "lock" /\ shardsMtx = "free"
    /\ shardsMtx' = "reshard" /\ resharder' = "swap"
    /\ UNCHANGED <<hash, appendVars, numShards, target, quit, starter,
                   stopper, updater, collectionVars, shardVars, storeVars>>

\* With the lock held: the collections are swapped and the old queues closed.
ReshardSwap ==
    /\ resharder = "swap" /\ appender # "send"
    /\ resharder' = "drain"
    /\ size' = [g \in Gen |-> IF g = "old" THEN size["cur"] ELSE target]
    /\ closed' = {"old"}
    /\ queue' = [s \in Shard |->
                   IF s[1] = "old" THEN queue[<<"cur", s[2]>>] ELSE <<>>]
    /\ pending' = [s \in Shard |->
                     IF s[1] = "old" THEN pending[<<"cur", s[2]>>] ELSE {}]
    /\ carry' = [s \in Shard |->
                   IF s[1] = "old" THEN carry[<<"cur", s[2]>>] ELSE {}]
    /\ seen' = [s \in Shard |->
                  IF s[1] = "old" THEN seen[<<"cur", s[2]>>] ELSE {}]
    /\ armed' = {s \in Shard : s[1] = "old" /\ <<"cur", s[2]>> \in armed}
    /\ runner' = [s \in Shard |->
                    IF s[1] = "old" THEN runner[<<"cur", s[2]>>] ELSE "none"]
    /\ UNCHANGED <<hash, appendVars, managerVars, starter, stopper, updater,
                   storeVars>>

\* Mutant: stop() does not wait, the old shards keep running.
ReshardUnlockEarly ==
    /\ resharder = "drain"
    /\ resharder' = "start" /\ shardsMtx' = "free"
    /\ UNCHANGED <<hash, appendVars, numShards, target, quit, starter,
                   stopper, updater, collectionVars, shardVars, storeVars>>

\* stop() has seen every old shard exit; oldShards goes out of scope.
ReshardUnlock ==
    /\ resharder = "drain" /\ AllExited("old")
    /\ resharder' = "start" /\ shardsMtx' = "free"
    /\ size' = [size EXCEPT !["old"] = 0]
    /\ closed' = closed \ {"old"}
    /\ armed' = {s \in armed : s[1] # "old"}
    /\ runner' = [s \in Shard |-> IF s[1] = "old" THEN "none" ELSE runner[s]]
    /\ UNCHANGED <<hash, appendVars, numShards, target, quit, starter,
                   stopper, updater, queue, pending, carry, seen, storeVars>>

\* Mutant: the new shards are not started once quit is closed.
ReshardStartUnlessQuit ==
    /\ resharder = "start"
    /\ IF quit THEN UNCHANGED shardVars ELSE StartCollection
    /\ resharder' = "select"
    /\ UNCHANGED <<hash, appendVars, managerVars, starter, stopper, updater,
                   collectionVars, storeVars>>

\* newShards.start(), outside the lock.
ReshardStart ==
    /\ resharder = "start"
    /\ StartCollection
    /\ resharder' = "select"
    /\ UNCHANGED <<hash, appendVars, managerVars, starter, stopper, updater,
                   collectionVars, storeVars>>

-----------------------------------------------------------------------------
(* Stop *)

StopCall ==
    /\ stopper = "init"
    /\ stopper' = "wait" /\ quit' = TRUE
    /\ UNCHANGED <<hash, appendVars, shardsMtx, numShards, target, starter,
                   updater, resharder, collectionVars, shardVars, storeVars>>

\* t.wg.Wait(): no loop is running (a Start that has not begun added none).
StopWait ==
    /\ stopper = "wait"
    /\ updater \in {"none", "exited"} /\ resharder \in {"none", "exited"}
    /\ stopper' = "lock"
    /\ UNCHANGED <<hash, appendVars, managerVars, starter, updater, resharder,
                   collectionVars, shardVars, storeVars>>

StopLock ==
    /\ stopper = "lock" /\ shardsMtx = "free"
    /\ shardsMtx' = "stop" /\ stopper' = "close"
    /\ UNCHANGED <<hash, appendVars, numShards, target, quit, starter,
                   updater, resharder, collectionVars, shardVars, storeVars>>

StopClose ==
    /\ stopper = "close" /\ appender # "send"
    /\ stopper' = "drain"
    /\ closed' = closed \cup {"cur"}
    /\ UNCHANGED <<hash, appendVars, managerVars, starter, updater, resharder,
                   size, shardVars, storeVars>>

StopDone ==
    /\ stopper = "drain" /\ AllExited("cur")
    /\ stopper' = "done" /\ shardsMtx' = "free"
    /\ UNCHANGED <<hash, appendVars, numShards, target, quit, starter,
                   updater, resharder, collectionVars, shardVars, storeVars>>

-----------------------------------------------------------------------------
(* runShard *)

\* The received entry e joins the batch.  If its series is in the batch
\* already (dup), the batch is sent first and e, kept in carry meanwhile,
\* starts the next one.
TakeEntry(s, e, dup) ==
    LET batch == IF dup THEN pending[s] ELSE pending[s] \cup {e}
        full == Cardinality(batch) >= MaxSamplesPerSend
    IN /\ pending' = [pending EXCEPT ![s] = batch]
       /\ carry' = [carry EXCEPT ![s] = IF dup THEN {e} ELSE {}]
       /\ seen' = [seen EXCEPT ![s] = @ \cup {hash[e]}]
       /\ runner' = [runner EXCEPT ![s] = IF dup \/ full THEN "send" ELSE @]

Dequeue(s) ==
    /\ runner[s] = "select" /\ queue[s] # <<>>
    /\ queue' = [queue EXCEPT ![s] = Tail(@)]
    /\ UNCHANGED <<hash, appended, appender, managerVars, threadVars,
                   collectionVars, armed, storeVars>>

\* Mutant: the seen check is missing.
ReceiveUnchecked(s) ==
    /\ Dequeue(s)
    /\ TakeEntry(s, Head(queue[s]), FALSE)
    /\ queueLength' = queueLength - 1

\* Mutant: the gauge is decremented only for entries that extend the batch.
ReceiveUncounted(s) ==
    /\ Dequeue(s)
    /\ TakeEntry(s, Head(queue[s]), hash[Head(queue[s])] \in seen[s])
    /\ queueLength' = IF hash[Head(queue[s])] \in seen[s]
                      THEN queueLength ELSE queueLength - 1

Receive(s) ==
    /\ Dequeue(s)
    /\ TakeEntry(s, Head(queue[s]), hash[Head(queue[s])] \in seen[s])
    /\ queueLength' = queueLength - 1

\* Mutant: return without flushing.
ReceiveClosedUnflushed(s) ==
    /\ runner[s] = "select" /\ queue[s] = <<>> /\ s[1] \in closed
    /\ runner' = [runner EXCEPT ![s] = "exited"]
    /\ UNCHANGED <<hash, appendVars, managerVars, threadVars, collectionVars,
                   queue, pending, carry, seen, armed, storeVars>>

\* The closed channel is empty: flush what is pending and return.
ReceiveClosed(s) ==
    /\ runner[s] = "select" /\ queue[s] = <<>> /\ s[1] \in closed
    /\ runner' = [runner EXCEPT ![s] =
                    IF pending[s] # {} THEN "final" ELSE "exited"]
    /\ UNCHANGED <<hash, appendVars, managerVars, threadVars, collectionVars,
                   queue, pending, carry, seen, armed, storeVars>>

\* <-timer.C.  With nothing pending the timer is only reset.
Deadline(s) ==
    /\ runner[s] = "select" /\ s \in armed /\ pending[s] # {}
    /\ runner' = [runner EXCEPT ![s] = "send"]
    /\ armed' = armed \ {s}
    /\ UNCHANGED <<hash, appendVars, managerVars, threadVars, collectionVars,
                   queue, pending, carry, seen, storeVars>>

\* The requests the storage gets from one Store call with batch B.
Sent(B) == [h \in Hashes |-> IF \E n \in B : hash[n] = h
                             THEN CHOOSE n \in B : hash[n] = h
                             ELSE lastSent[h]]

\* sendSamplesWithBackoff: a recoverable error, the same batch is sent again.
StoreRetry(s) ==
    /\ runner[s] \in {"send", "final"}
    /\ lastSent' = Sent(pending[s])
    /\ UNCHANGED <<hash, appendVars, managerVars, threadVars, collectionVars,
                   shardVars, succeeded, failed, samplesOut>>

\* sendSamples returns: the batch is stored (ok) or given up.
Answer(s, ok) ==
    /\ runner[s] \in {"send", "final"}
    /\ lastSent' = Sent(pending[s])
    /\ succeeded' = IF ok THEN succeeded \cup pending[s] ELSE succeeded
    /\ failed' = IF ok THEN failed ELSE failed \cup pending[s]
    /\ samplesOut' = TRUE
    /\ UNCHANGED <<hash, appendVars, managerVars, threadVars, collectionVars,
                   queue>>

\* runShard goes on with a new batch, or returns after the final flush.
Resume(s, batch, marks, timers) ==
    /\ pending' = [pending EXCEPT ![s] = batch]
    /\ carry' = [carry EXCEPT ![s] = {}]
    /\ seen' = [seen EXCEPT ![s] = marks]
    /\ armed' = timers
    /\ runner' = [runner EXCEPT ![s] =
                    IF @ = "final" THEN "exited" ELSE "select"]

\* Mutant: the entry that forced the send is dropped.
StoreResolveDropping(s, ok) ==
    Answer(s, ok) /\ Resume(s, {}, {}, armed \cup {s})

\* Mutant: the batch is not emptied.
StoreResolveKeeping(s, ok) ==
    /\ Answer(s, ok)
    /\ Resume(s, pending[s] \cup carry[s], HashesOf(carry[s]), armed \cup {s})

\* Mutant: the entry set aside is not marked as seen.
StoreResolveUnmarked(s, ok) ==
    Answer(s, ok) /\ Resume(s, carry[s], {}, armed \cup {s})

\* Mutant: the timer is not reset.
StoreResolveUnarmed(s, ok) ==
    Answer(s, ok) /\ Resume(s, carry[s], HashesOf(carry[s]), armed)

\* A new batch with the entry set aside, resetSeen, timer.Reset.
StoreResolve(s, ok) ==
    Answer(s, ok) /\ Resume(s, carry[s], HashesOf(carry[s]), armed \cup {s})

-----------------------------------------------------------------------------
(* The next-state relation.                                                *)

AppendStep == AppendRLock \/ AppendSend
StartStep == StartLock \/ StartShards
UpdateStep == (\E n \in DesiredShards : CalculateDesiredShards(n))
              \/ UpdateShardsLoopExit
ReshardStep == ReshardLoopExit \/ ReshardLock \/ ReshardSwap \/ ReshardUnlock
               \/ ReshardStart
StopStep == StopWait \/ StopLock \/ StopClose \/ StopDone
RunShard(s) == \/ Receive(s) \/ ReceiveClosed(s) \/ Deadline(s)
               \/ StoreRetry(s) \/ \E ok \in BOOLEAN : StoreResolve(s, ok)

\* Everything but the calls of Append, Start and Stop.
Internal == AppendStep \/ StartStep \/ UpdateStep \/ ReshardStep \/ StopStep
            \/ \E s \in Shard : RunShard(s)

\* How the manager may be used: samples appended before Start must fit the
\* one channel there is (an Append blocked on it holds the lock Start needs),
\* Stop comes after Start, and no Append is under way then or comes later.
MayAppend == stopper = "init" /\ (starter = "done" \/ appended < Capacity)
MayStop == starter = "done" /\ appender = "idle"

Terminated == stopper = "done" /\ UNCHANGED vars

Next == \/ MayAppend /\ AppendCall
        \/ StartLoops
        \/ MayStop /\ StopCall
        \/ Internal
        \/ Terminated

\* The process has not been taken down by a panic (possible in Sidecar only).
Alive == appender # "panic"

\* Goroutines are scheduled (weak fairness), and an RWMutex that a writer
\* unlocks goes to the readers that wait for it before the next writer
\* (strong fairness of RLock).  Every Store ends some day with an answer that
\* is not a recoverable error.  Nothing forces a tick to change the shards.
Fairness ==
    /\ WF_vars(Alive /\ StartLoops) /\ WF_vars(Alive /\ StartStep)
    /\ SF_vars(Alive /\ AppendRLock) /\ WF_vars(Alive /\ AppendSend)
    /\ WF_vars(Alive /\ UpdateShardsLoopExit)
    /\ WF_vars(Alive /\ ReshardStep)
    /\ WF_vars(Alive /\ StopStep)
    /\ \A s \in Shard :
         /\ WF_vars(Alive /\ (Receive(s) \/ ReceiveClosed(s)))
         /\ WF_vars(Alive /\ Deadline(s))
         /\ WF_vars(Alive /\ \E ok \in BOOLEAN : StoreResolve(s, ok))

Spec == Init /\ [][Next]_vars

FairSpec == Spec /\ Fairness

-----------------------------------------------------------------------------
(* Properties *)

TypeOK ==
    /\ hash \in [Sample -> Hashes]
    /\ appended \in 0..NumSamples
    /\ appender \in {"idle", "rlock", "send", "panic"}
    /\ appender # "idle" => appended >= 1
    /\ queueLength \in Int
    /\ shardsMtx \in {"free", "start", "reshard", "stop"}
    /\ numShards \in 1..MaxShards /\ target \in 1..MaxShards
    /\ quit \in BOOLEAN /\ samplesOut \in BOOLEAN
    /\ starter \in {"init", "lock", "done"}
    /\ stopper \in {"init", "wait", "lock", "close", "drain", "done"}
    /\ updater \in {"none", "loop", "exited"}
    /\ resharder \in {"none", "select", "lock", "swap", "drain", "start",
                      "exited"}
    /\ size \in [Gen -> 0..MaxShards] /\ size["cur"] >= 1
    /\ closed \subseteq Gen
    /\ queue \in [Shard -> Seq(Sample)]
    /\ pending \in [Shard -> SUBSET Sample]
    /\ carry \in [Shard -> SUBSET Sample]
    /\ seen \in [Shard -> SUBSET Hashes]
    /\ armed \subseteq Shard
    /\ runner \in [Shard -> {"none", "select", "send", "final", "exited"}]
    /\ lastSent \in [Hashes -> 0..NumSamples]
    /\ succeeded \subseteq Sample /\ failed \subseteq Sample

(***************************************************************************)
(* "to guarantee we only every deliver samples in order"                   *)
(* (queue_manager.go:367-369): no Store call sends a sample of a series    *)
(* older than one sent before, whatever the reshards, retries and flushes. *)
(***************************************************************************)
DeliveredInOrder ==
    [][\A h \in Hashes : lastSent[h] <= lastSent'[h]]_vars

(***************************************************************************)
(* "prevents adding two points for the same time series to a single        *)
(* request, which Stackdriver rejects" (queue_manager.go:476-481), and     *)
(* "batches of at most MaxSamplesPerSend samples" (444).  A batch is sent  *)
(* by Store from the states "send" and "final", and is never empty.        *)
(***************************************************************************)
BatchesWellFormed ==
    \A s \in Shard : runner[s] \in {"send", "final"} =>
        /\ \A m, n \in pending[s] : hash[m] = hash[n] => m = n
        /\ Cardinality(pending[s]) \in 1..MaxSamplesPerSend

(***************************************************************************)
(* No sample is lost or processed twice: each sample appended is either    *)
(* in the hands of Append, or at exactly one place in exactly one shard,   *)
(* or counted exactly once, as succeeded or as failed.                     *)
(***************************************************************************)
Appending == IF appender = "idle" THEN {} ELSE {appended}

NothingLost ==
    1..appended \subseteq
        Appending \cup resolved \cup UNION {Contents(s) : s \in Shard}

NothingTwice ==
    /\ succeeded \cap failed = {}
    /\ \A s \in Shard :
         /\ Contents(s) \cap (resolved \cup Appending) = {}
         /\ pending[s] \cap carry[s] = {}
         /\ (pending[s] \cup carry[s]) \cap ToSet(queue[s]) = {}
         /\ IsInjective(queue[s])
         /\ \A r \in Shard : r # s => Contents(r) \cap Contents(s) = {}

(***************************************************************************)
(* Stop "waits for pending sends to complete" (queue_manager.go:218-219):  *)
(* when it returns, every sample ever appended was stored or given up, and *)
(* no goroutine is left that could still send.                             *)
(***************************************************************************)
StopFlushes ==
    stopper = "done" =>
        /\ 1..appended = resolved
        /\ \A s \in Shard : runner[s] \in {"none", "exited"}

(***************************************************************************)
(* The queue_length gauge is the number of samples queued, one under way   *)
(* in Append included: across reshards no queued sample is uncounted.  (A  *)
(* sample is in one queue, once: NothingTwice.)                            *)
(***************************************************************************)
Queued == Appending \cup UNION {ToSet(queue[s]) : s \in Shard}

QueueLengthExact == queueLength = Cardinality(Queued)

(***************************************************************************)
(* Every sample appended is eventually stored or given up, without any     *)
(* further sample arriving: the batch deadline flushes short batches.      *)
(***************************************************************************)
EventuallyResolved ==
    \A n \in Sample : (appended >= n) ~> (n \in resolved)

\* Stop, once called, returns: it is not kept waiting by a reshard under way.
StopReturns == (stopper = "wait") ~> (stopper = "done")

-----------------------------------------------------------------------------
(* The inductive invariant, in parts. *)

Increasing(q) == \A i, j \in DOMAIN q : i < j => q[i] < q[j]

\* Who holds the lock, and what the threads exclude in each other.  A Stop that
\* does not wait for Start may find no reshardLoop to wait for; no sample has
\* been appended then, so that none that starts later will reshard.
LocksOK ==
    /\ shardsMtx = "reshard" <=> resharder \in {"swap", "drain"}
    /\ shardsMtx = "stop" <=> stopper \in {"close", "drain"}
    /\ shardsMtx = "start" => starter = "lock"
    /\ appender = "send" => resharder # "drain"
    /\ stopper # "init" /\ starter = "init" => appended = 0
    /\ stopper \in {"lock", "close", "drain", "done"} =>
         resharder = "exited" \/ (resharder \in {"none", "select"} /\ appended = 0)
    /\ starter # "done" =>
         ~samplesOut /\ resharder \in {"none", "select", "exited"}
    /\ starter = "init" <=> resharder = "none"
    /\ samplesOut => appended >= 1
    /\ quit => stopper # "init"

\* The two collections: only one of them can hold samples.
CollectionsOK ==
    /\ "cur" \in closed <=> stopper \in {"drain", "done"}
    /\ "old" \in closed <=> resharder = "drain"
    /\ size["old"] > 0 <=> resharder = "drain"
    /\ \A s \in Shard :
         /\ s[1] = "old" /\ resharder # "drain" =>
              queue[s] = <<>> /\ runner[s] = "none"
         /\ s[1] = "cur" /\ resharder = "drain" => queue[s] = <<>>
         /\ s[1] = "cur" /\ resharder \in {"drain", "start"} =>
              runner[s] = "none"
         /\ starter # "done" => runner[s] = "none"
         /\ s[2] >= size[s[1]] => runner[s] = "none"
    /\ stopper = "done" => AllExited("cur")

\* Each shard: its batch, the marks of the batch, its goroutine.
ShardsOK ==
    \A s \in Shard :
        /\ seen[s] = HashesOf(pending[s])
        /\ \A m, n \in pending[s] : hash[m] = hash[n] => m = n
        /\ \A m, n \in carry[s] : m = n
        /\ carry[s] # {} => runner[s] = "send"
        /\ runner[s] \in {"none", "exited"} => pending[s] = {}
        /\ runner[s] \in {"send", "final"} => pending[s] # {}
        /\ runner[s] \in {"final", "exited"} => queue[s] = <<>> /\ s[1] \in closed

\* Within a shard, older samples are further on their way.
OrderOK ==
    \A s \in Shard :
        /\ Increasing(queue[s])
        /\ \A n \in pending[s], m \in carry[s] : n < m
        /\ \A n \in pending[s] \cup carry[s], m \in ToSet(queue[s]) : n < m

\* Samples are where they belong: the shard their hash selects, not beyond
\* what was appended, not in Append's hands, not resolved.
PlacementOK ==
    \A s \in Shard : \A n \in Contents(s) :
        /\ s = ShardOf(s[1], hash[n])
        /\ n \in 1..appended
        /\ n \notin Appending
        /\ n \notin resolved

\* The storage has seen nothing newer than what it is still to be sent.
SentOK ==
    /\ resolved \subseteq 1..appended
    /\ resolved \cap Appending = {}
    /\ \A h \in Hashes : lastSent[h] <= appended
    /\ \A n \in 1..appended \ resolved : lastSent[hash[n]] <= n

\* A batch that is being filled has room for one more sample.
SizesOK ==
    \A s \in Shard :
        /\ runner[s] \in {"none", "select"} =>
             Cardinality(pending[s]) < MaxSamplesPerSend
        /\ runner[s] \in {"send", "final"} =>
             Cardinality(pending[s]) <= MaxSamplesPerSend
        /\ carry[s] # {} => MaxSamplesPerSend >= 2

\* What holds however Append, Start and Stop are called by Sidecar.
Core == /\ TypeOK /\ LocksOK /\ CollectionsOK /\ ShardsOK /\ OrderOK
        /\ PlacementOK /\ SentOK /\ NothingLost /\ succeeded \cap failed = {}
        /\ SizesOK

\* What holds if they are called as MayAppend and MayStop say.
UseOK == /\ appender # "panic"
         /\ stopper # "init" => appender = "idle" /\ starter = "done"

IInv == Core /\ UseOK

(***************************************************************************)
(* The manager implements the abstract specification: each request holds   *)
(* the oldest unresolved sample of each of its series and nothing else.    *)
(***************************************************************************)
Abstract == INSTANCE InOrderDelivery WITH accepted <- appended

ImplementsInOrderDelivery == Abstract!Spec
=============================================================================
