---------------------------- MODULE StorageClient ----------------------------
(***************************************************************************)
(* stackdriver/client.go under the retry loop of queue_manager.go: the     *)
(* goroutine of one shard sends batches with sendSamplesWithBackoff; Store *)
(* cuts each into requests that run concurrently and report their errors   *)
(* over a buffered channel.  QueueManager takes Store as one step: what is *)
(* checked here is what that rests on.                                     *)
(***************************************************************************)
EXTENDS Integers, Sequences, FiniteSets, FiniteSetsExt

CONSTANTS MaxTimeseriesesPerRequest,
          MaxBatch,   \* bound: samples in a batch
          MaxBatches, \* bound: batches sent
          MaxRetries  \* bound: recoverable failures before another answer

ASSUME ClientAssumption ==
    /\ MaxTimeseriesesPerRequest \in Nat \ {0}
    /\ MaxBatch \in Nat /\ MaxBatches \in Nat /\ MaxRetries \in Nat

VARIABLES
    sender,  \* where sendSamplesWithBackoff and Store are
    batches, \* number of batches begun
    size,    \* len(tss)
    next,    \* i, the beginning of the next request
    conn,    \* c.conn is set
    begun,   \* the beginnings of the requests of this Store
    worker,  \* where the goroutine of the request beginning at b is
    errors,  \* the channel
    stored,  \* samples of the batch the backend has written
    retries,
    result   \* "succeeded" or "failed": the counter increased last

vars == <<sender, batches, size, next, conn, begun, worker, errors, stored,
          retries, result>>

Begin == 0..(MaxBatch - 1)
Errors == {"recoverable", "unrecoverable"}

\* Mutant: the capacity forgets the last, shorter request.
CapacityWhole(n) == n \div MaxTimeseriesesPerRequest

\* The capacity of the channel for a batch of n samples.
Capacity(n) == n \div MaxTimeseriesesPerRequest + 1

\* Mutant: end is not cut down to the batch.
EndUncut(b) == b + MaxTimeseriesesPerRequest

End(b) == Min({b + MaxTimeseriesesPerRequest, size})

\* req.TimeSeries[begin:end]
Request(b) == (b + 1)..End(b)

\* The errors a call may end with.
Failure == {err \in Errors : err = "recoverable" => retries < MaxRetries}

Init ==
    /\ sender = "idle" /\ batches = 0 /\ size = 0 /\ next = 0
    /\ conn = FALSE /\ begun = {} /\ worker = [b \in Begin |-> "none"] /\ errors = <<>>
    /\ stored = {} /\ retries = 0 /\ result = "none"

-----------------------------------------------------------------------------
(* sendSamplesWithBackoff.  The samples are a batch of the queue manager,  *)
(* never empty.                                                            *)

SendSamples(n) ==
    /\ sender = "idle" /\ batches < MaxBatches
    /\ batches' = batches + 1 /\ size' = n
    /\ sender' = "connect" /\ stored' = {} /\ retries' = 0
    /\ result' = "none"
    /\ UNCHANGED <<next, conn, begun, worker, errors>>

\* Store has returned err ("nil" for none).
StoreReturns(err) ==
    /\ retries' = IF err = "recoverable" THEN retries + 1 ELSE retries
    /\ sender' = IF err = "recoverable" THEN "connect" ELSE "idle"
    /\ result' = CASE err = "nil" -> "succeeded"
                   [] err = "unrecoverable" -> "failed"
                   [] OTHER -> result
    /\ begun' = {} /\ errors' = <<>> /\ next' = 0

-----------------------------------------------------------------------------
(* Store *)

\* getConnection: the connection there is, or a new one.  Dialing fails with
\* the deadline (recoverable), the credentials with any other error.
GetConnection ==
    /\ sender = "connect"
    /\ \/ /\ sender' = "spawn" /\ conn' = TRUE
          /\ UNCHANGED <<begun, errors, next, retries, result>>
       \/ /\ ~conn
          /\ \E err \in Failure : StoreReturns(err)
          /\ UNCHANGED conn
    /\ UNCHANGED <<batches, size, worker, stored>>

Spawn ==
    /\ sender = "spawn"
    /\ IF next < size
       THEN /\ worker' = [worker EXCEPT ![next] = "call"]
            /\ begun' = begun \cup {next}
            /\ next' = next + MaxTimeseriesesPerRequest
            /\ UNCHANGED sender
       ELSE sender' = "wait" /\ UNCHANGED <<begun, worker, next>>
    /\ UNCHANGED <<batches, size, conn, errors, stored, retries, result>>

\* Mutant: the errors are looked at without waiting.
StoreDoneEarly ==
    /\ sender = "wait"
    /\ StoreReturns(IF errors = <<>> THEN "nil" ELSE Head(errors))
    /\ UNCHANGED <<batches, size, conn, worker, stored>>

\* wg.Wait(), close(errors), and the first error, if any.
StoreDone ==
    /\ sender = "wait" /\ \A b \in Begin : worker[b] \in {"none", "done"}
    /\ StoreReturns(IF errors = <<>> THEN "nil" ELSE Head(errors))
    /\ UNCHANGED <<batches, size, conn, worker, stored>>

-----------------------------------------------------------------------------
(* The goroutine of a request. *)

CreateTimeSeriesOK(b) ==
    /\ worker[b] = "call"
    /\ stored' = stored \cup Request(b)
    /\ worker' = [worker EXCEPT ![b] = "done"]
    /\ UNCHANGED <<sender, batches, size, next, conn, begun, errors, retries, result>>

\* DeadlineExceeded and Unavailable are recoverable.  Any part of the request
\* may have been written: points fail one by one, and a deadline tells
\* nothing of the backend.
CreateTimeSeriesFails(b, err) ==
    /\ worker[b] = "call"
    /\ \E part \in SUBSET Request(b) : stored' = stored \cup part
    /\ worker' = [worker EXCEPT ![b] = err]
    /\ UNCHANGED <<sender, batches, size, next, conn, begun, errors, retries,
                   result>>

\* Mutant: wg.Done() is not deferred and skipped after an error.
ReportErrorUndone(b) ==
    /\ worker[b] \in Errors /\ Len(errors) < Capacity(size)
    /\ errors' = Append(errors, worker[b])
    /\ worker' = [worker EXCEPT ![b] = "stuck"]
    /\ UNCHANGED <<sender, batches, size, next, conn, begun, stored, retries, result>>

\* errors <- err, then the deferred wg.Done().
ReportError(b) ==
    /\ worker[b] \in Errors /\ Len(errors) < Capacity(size)
    /\ errors' = Append(errors, worker[b])
    /\ worker' = [worker EXCEPT ![b] = "done"]
    /\ UNCHANGED <<sender, batches, size, next, conn, begun, stored, retries, result>>

Store == GetConnection \/ Spawn \/ StoreDone
Worker(b) == \/ CreateTimeSeriesOK(b)
             \/ \E err \in Failure : CreateTimeSeriesFails(b, err)
             \/ ReportError(b)

Idle == sender = "idle" /\ UNCHANGED vars

Next == \/ \E n \in 1..MaxBatch : SendSamples(n)
        \/ Store
        \/ \E b \in Begin : Worker(b)
        \/ Idle

Spec == Init /\ [][Next]_vars

\* Every call ends, at the latest with the timeout of the context.
FairSpec == Spec /\ WF_vars(Store) /\ \A b \in Begin : WF_vars(Worker(b))
-----------------------------------------------------------------------------
(* Properties *)

(***************************************************************************)
(* The requests of a Store cover its batch, no two share a sample, and     *)
(* none has more than MaxTimeseriesesPerRequest (client.go:183-188).       *)
(***************************************************************************)
RequestsPartition ==
    sender = "wait" =>
        /\ UNION {Request(b) : b \in begun} = 1..size
        /\ \A b \in begun :
             /\ Cardinality(Request(b)) \in 1..MaxTimeseriesesPerRequest
             /\ \A c \in begun \ {b} : Request(b) \cap Request(c) = {}

(***************************************************************************)
(* The errors channel has room for every request that fails: nobody        *)
(* receives from it before all goroutines are done (client.go:181, 242).   *)
(***************************************************************************)
ErrorsNeverBlock ==
    \A b \in Begin : worker[b] \in Errors => Len(errors) < Capacity(size)

(***************************************************************************)
(* Samples are counted as succeeded only if the backend wrote every one of *)
(* them, whatever the requests, retries and partial failures before.       *)
(***************************************************************************)
SucceededIsStored == result = "succeeded" => stored = 1..size

(***************************************************************************)
(* When Store returns no request of it is under way.  In-order delivery    *)
(* rests on it: the next batch, which may have newer samples of the same   *)
(* series, and a retry cannot overtake a request.                          *)
(***************************************************************************)
QuietBetweenStores ==
    sender \in {"idle", "connect"} =>
        \A b \in Begin : worker[b] \in {"none", "done"}

\* Every batch is answered: sendSamplesWithBackoff returns.
SendReturns == (sender = "connect") ~> (sender = "idle")
==============================================================================
