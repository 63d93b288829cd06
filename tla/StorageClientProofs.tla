------------------------- MODULE StorageClientProofs -------------------------
(***************************************************************************)
(* TLAPS proofs about StorageClient: its four safety invariants, for every *)
(* batch size and every limit of a request.                                *)
(***************************************************************************)
EXTENDS StorageClient, FiniteSetTheorems, TLAPS

-----------------------------------------------------------------------------
(* The inductive invariant. *)

\* Every variable has its type; only samples of the batch are stored.
TypeOK ==
    /\ sender \in {"idle", "connect", "spawn", "wait"}
    /\ batches \in Nat /\ size \in 0..MaxBatch /\ next \in Nat
    /\ conn \in BOOLEAN /\ begun \in SUBSET Begin
    /\ worker \in [Begin -> {"none", "call", "done"} \cup Errors]
    /\ errors \in Seq(Errors)
    /\ stored \in SUBSET (1..size)
    /\ retries \in Nat /\ result \in {"none", "succeeded", "failed"}

\* The loop of Store: the requests begun so far are next / Max many, lie side
\* by side below next, and leave no sample below next out.
Slices ==
    /\ IsFiniteSet(begun)
    /\ next = MaxTimeseriesesPerRequest * Cardinality(begun)
    /\ next < size + MaxTimeseriesesPerRequest
    /\ \A b \in begun : b < size /\ b + MaxTimeseriesesPerRequest <= next
    /\ \A b, c \in begun : \/ b = c
                           \/ b + MaxTimeseriesesPerRequest <= c
                           \/ c + MaxTimeseriesesPerRequest <= b
    /\ \A k \in 1..size : k <= next =>
         \E b \in begun : b < k /\ k <= b + MaxTimeseriesesPerRequest
    /\ sender = "wait" => size <= next

\* Outside Store nothing is left of the last one.
Clean == sender \in {"idle", "connect"} => begun = {} /\ errors = <<>> /\ next = 0

\* The requests whose goroutine has not come to wg.Done().
Pending == {b \in begun : worker[b] # "done"}

\* Only a request of this Store has a goroutine, and there is a place in the
\* channel for every one that may still report.
Room ==
    /\ \A b \in Begin : worker[b] \notin {"none", "done"} => b \in begun
    /\ Len(errors) + Cardinality(Pending) <= Cardinality(begun)

\* A request that is done has written all its samples, or some request has
\* reported an error.  Success is counted with all samples written, and the
\* next batch is not begun yet.
Written ==
    /\ errors = <<>> =>
         \A b \in begun : worker[b] = "done" => Request(b) \subseteq stored
    /\ \A b \in begun : worker[b] # "none"
    /\ result = "succeeded" => sender = "idle" /\ stored = 1..size

IInv == TypeOK /\ Slices /\ Clean /\ Room /\ Written

-----------------------------------------------------------------------------
(* Lemmas about the operators. *)

\* The smaller of two numbers.
LEMMA MinOfTwo ==
  ASSUME NEW m \in Int, NEW n \in Int
  PROVE  Min({m, n}) = IF m <= n THEN m ELSE n
  <1>1. Min({m, n}) \in {m, n} /\ \A k \in {m, n} : Min({m, n}) <= k
    <2>1. \E x \in {m, n} : \A y \in {m, n} : x <= y
      OBVIOUS
    <2> QED BY <2>1 DEF Min
  <1> QED BY <1>1

\* A request is the slice from its beginning, cut down to the limit of a
\* request and to the batch.
LEMMA RequestIs ==
  ASSUME ClientAssumption, size \in Nat, NEW b \in Nat
  PROVE  Request(b) = {k \in 1..size : b < k /\ k <= b + MaxTimeseriesesPerRequest}
  <1>1. End(b) = IF b + MaxTimeseriesesPerRequest <= size
                 THEN b + MaxTimeseriesesPerRequest ELSE size
    BY MinOfTwo, b + MaxTimeseriesesPerRequest \in Int, size \in Int
    DEF End, ClientAssumption
  <1> QED BY <1>1 DEF Request, ClientAssumption

\* As many requests as whole limits fit below size + limit fit in the channel.
LEMMA CapacitySuffices ==
  ASSUME ClientAssumption, NEW n \in Nat, NEW c \in Nat,
         MaxTimeseriesesPerRequest * c < n + MaxTimeseriesesPerRequest
  PROVE  c <= Capacity(n)
  <1> DEFINE M == MaxTimeseriesesPerRequest
             q == n \div M
  <1>1. M \in Nat \ {0}
    BY DEF ClientAssumption
  <1>2. q \in Nat /\ n < M * q + M
    BY <1>1
  <1>3. M * c < M * q + M + M
    BY <1>1, <1>2
  <1> HIDE DEF M, q
  <1>4. ASSUME c >= q + 2 PROVE FALSE
    <2>1. PICK d \in Nat : c = q + 2 + d
      BY <1>2, <1>4, c - q - 2 \in Nat
    <2>2. M * c = M * q + M + M + M * d /\ M * d \in Nat
      BY <1>1, <1>2, <2>1
    <2> QED BY <1>1, <1>2, <1>3, <2>2
  <1>5. c <= q + 1
    BY <1>2, <1>4
  <1> QED BY <1>5 DEF Capacity, M, q

\* Before the first request next is 0 and below the limit.
LEMMA NoRequest ==
  ASSUME NEW n \in Nat
  PROVE  /\ 0 = MaxTimeseriesesPerRequest * 0
         /\ 0 < n + MaxTimeseriesesPerRequest
  BY ClientAssumption DEF ClientAssumption

\* The goroutines that may still report are some of those begun.
LEMMA PendingFinite ==
  ASSUME IsFiniteSet(begun)
  PROVE  /\ IsFiniteSet(Pending) /\ Cardinality(Pending) \in Nat
         /\ Cardinality(begun) \in Nat
  BY FS_Subset, FS_CardinalityType DEF Pending

-----------------------------------------------------------------------------
(* The invariant holds initially and is preserved by every step. *)

\* The initial state satisfies the invariant.
LEMMA InvInit == Init => IInv
  <1> SUFFICES ASSUME Init PROVE IInv
    OBVIOUS
  <1> USE ClientAssumption
  <1>1. IsFiniteSet(begun) /\ Cardinality(begun) = 0
    BY FS_EmptySet DEF Init
  <1>2. Pending = {}
    BY DEF Init, Pending
  <1>3. Cardinality(Pending) = 0
    BY <1>2, FS_EmptySet
  <1>4. TypeOK
    <2>1. worker \in [Begin -> {"none", "call", "done"} \cup Errors]
      BY DEF Init
    <2>2. begun \in SUBSET Begin /\ stored \in SUBSET (1..size)
      BY DEF Init
    <2>3. /\ sender = "idle" /\ batches = 0 /\ size = 0 /\ next = 0
          /\ retries = 0 /\ result = "none" /\ errors = <<>>
      BY DEF Init
    <2>4. conn \in BOOLEAN
      BY DEF Init
    <2> QED BY <2>1, <2>2, <2>3, <2>4 DEF TypeOK, ClientAssumption
  <1>5. Slices
    BY <1>1 DEF Init, Slices, ClientAssumption
  <1>6. Room
    BY <1>1, <1>3 DEF Init, Room
  <1>7. Clean /\ Written
    BY DEF Init, Clean, Written
  <1> QED BY <1>4, <1>5, <1>6, <1>7 DEF IInv

\* A Store that has returned leaves the state of a fresh one: no request, no
\* error, and nothing pending.
LEMMA CleanAfter ==
  ASSUME begun' = {}, errors' = <<>>, next' = 0, size' \in Nat,
         sender' # "wait",
         \A b \in Begin : worker'[b] \in {"none", "done"},
         result' = "succeeded" => sender' = "idle" /\ stored' = 1..size'
  PROVE  Slices' /\ Clean' /\ Room' /\ Written'
  <1> USE ClientAssumption
  <1>1. IsFiniteSet(begun') /\ Cardinality(begun') = 0
    BY FS_EmptySet
  <1>2. Pending' = {}
    BY DEF Pending
  <1>3. Cardinality(Pending') = 0
    BY <1>2, FS_EmptySet
  <1>4. Slices'
    <2>1. /\ 0 = MaxTimeseriesesPerRequest * 0
          /\ next' < size' + MaxTimeseriesesPerRequest
      BY NoRequest
    <2>2. \A k \in 1..size' : ~(k <= next')
      OBVIOUS
    <2> QED BY <1>1, <2>1, <2>2 DEF Slices
  <1>5. Room'
    BY <1>1, <1>3 DEF Room, Begin
  <1>6. Clean' /\ Written'
    BY DEF Clean, Written
  <1> QED BY <1>4, <1>5, <1>6

\* Between two Stores no goroutine runs.
LEMMA Quiet ==
  ASSUME TypeOK, Clean, Room, sender \in {"idle", "connect"}
  PROVE  \A b \in Begin : worker[b] \in {"none", "done"}
  BY DEF Clean, Room

\* With all goroutines done and no error every sample of the batch is written.
LEMMA AllWritten ==
  ASSUME IInv, sender = "wait", errors = <<>>,
         \A b \in Begin : worker[b] \in {"none", "done"}
  PROVE  stored = 1..size
  <1> SUFFICES ASSUME NEW k \in 1..size PROVE k \in stored
    BY DEF IInv, TypeOK
  <1>1. size \in Nat /\ next \in Nat /\ k <= next
    BY ClientAssumption DEF IInv, TypeOK, Slices, ClientAssumption
  <1>2. PICK b \in begun : b < k /\ k <= b + MaxTimeseriesesPerRequest
    BY <1>1 DEF IInv, Slices
  <1>3. b \in Begin /\ b \in Nat
    BY ClientAssumption DEF IInv, TypeOK, Begin, ClientAssumption
  <1>4. Request(b) \subseteq stored
    BY <1>3 DEF IInv, Written
  <1> QED BY <1>1, <1>2, <1>3, <1>4, RequestIs, ClientAssumption

\* The end of a Store preserves the invariant.
LEMMA StoreReturnsInv ==
  ASSUME IInv, NEW err \in {"nil", "recoverable", "unrecoverable"},
         StoreReturns(err), size' = size, batches' = batches,
         worker' = worker, stored' = stored, conn' \in BOOLEAN,
         \A b \in Begin : worker[b] \in {"none", "done"},
         sender # "idle", err = "nil" => stored = 1..size
  PROVE  IInv'
  <1> USE ClientAssumption
  <1>1. begun' = {} /\ errors' = <<>> /\ next' = 0
    BY DEF StoreReturns
  <1>2. /\ retries' = IF err = "recoverable" THEN retries + 1 ELSE retries
        /\ sender' = IF err = "recoverable" THEN "connect" ELSE "idle"
    BY DEF StoreReturns
  <1>3. result' \in {"none", "succeeded", "failed"}
    BY DEF StoreReturns, IInv, TypeOK
  <1>4. result' = "succeeded" => sender' = "idle" /\ stored' = 1..size'
    BY DEF StoreReturns, IInv, Written
  <1> HIDE DEF StoreReturns
  <1>5. TypeOK'
    <2>1. retries' \in Nat /\ sender' \in {"idle", "connect"}
      BY <1>2 DEF IInv, TypeOK
    <2> QED BY <1>1, <1>3, <2>1 DEF IInv, TypeOK, Begin
  <1>6. size' \in Nat /\ sender' # "wait"
    BY <1>2 DEF IInv, TypeOK, ClientAssumption
  <1> QED BY <1>1, <1>4, <1>5, <1>6, CleanAfter DEF IInv

\* A new batch.
LEMMA SendSamplesInv ==
  ASSUME IInv, NEW n \in 1..MaxBatch, SendSamples(n)
  PROVE  IInv'
  <1> USE ClientAssumption
  <1>1. TypeOK'
    <2>1. stored' \in SUBSET (1..size') /\ size' \in 0..MaxBatch
      BY DEF SendSamples, ClientAssumption
    <2> QED BY <2>1 DEF SendSamples, IInv, TypeOK, Begin
  <1>2. \A b \in Begin : worker'[b] \in {"none", "done"}
    BY Quiet DEF SendSamples, IInv
  <1>3. /\ begun' = {} /\ errors' = <<>> /\ next' = 0 /\ size' \in Nat
        /\ sender' # "wait" /\ result' # "succeeded"
    BY DEF SendSamples, IInv, Clean, ClientAssumption
  <1> QED BY <1>1, <1>2, <1>3, CleanAfter DEF IInv

\* getConnection, with and without success.
LEMMA GetConnectionInv ==
  ASSUME IInv, GetConnection
  PROVE  IInv'
  <1> USE ClientAssumption
  <1>1. /\ \A b \in Begin : worker[b] \in {"none", "done"}
        /\ sender = "connect" /\ result # "succeeded"
    BY Quiet DEF GetConnection, IInv, Written
  <1>2. CASE sender' = "spawn" /\ conn' = TRUE
             /\ UNCHANGED <<begun, errors, next, retries, result>>
    <2>1. UNCHANGED <<batches, size, worker, stored>>
      BY DEF GetConnection
    <2>2. TypeOK'
      BY <1>2, <2>1 DEF IInv, TypeOK, Begin
    <2>3. /\ begun' = {} /\ errors' = <<>> /\ next' = 0 /\ size' \in Nat
          /\ sender' # "wait" /\ result' # "succeeded"
      BY <1>1, <1>2, <2>1 DEF IInv, TypeOK, Clean, ClientAssumption
    <2> QED BY <1>1, <2>1, <2>2, <2>3, CleanAfter DEF IInv
  <1>3. CASE /\ \E err \in Failure : StoreReturns(err)
             /\ UNCHANGED conn
    <2>1. PICK err \in Failure : StoreReturns(err)
      BY <1>3
    <2>2. err \in {"nil", "recoverable", "unrecoverable"} /\ err # "nil"
      BY DEF Failure, Errors
    <2>3. /\ size' = size /\ batches' = batches /\ worker' = worker
          /\ stored' = stored /\ conn' = conn
      BY <1>3 DEF GetConnection
    <2>4. conn' \in BOOLEAN
      BY <2>3 DEF IInv, TypeOK
    <2> QED BY <1>1, <2>1, <2>2, <2>3, <2>4, StoreReturnsInv
  <1> QED BY <1>2, <1>3 DEF GetConnection

\* wg.Wait() and the first error.
LEMMA StoreDoneInv ==
  ASSUME IInv, StoreDone
  PROVE  IInv'
  <1> DEFINE err == IF errors = <<>> THEN "nil" ELSE Head(errors)
  <1>1. err \in {"nil", "recoverable", "unrecoverable"}
    <2>1. errors # <<>> => Head(errors) \in Errors
      BY DEF IInv, TypeOK
    <2> QED BY <2>1 DEF Errors
  <1>2. err = "nil" => stored = 1..size
    <2>1. errors # <<>> => Head(errors) \in Errors
      BY DEF IInv, TypeOK
    <2> QED BY <2>1, AllWritten DEF StoreDone, Errors
  <1>3. /\ StoreReturns(err) /\ sender # "idle"
        /\ size' = size /\ batches' = batches /\ worker' = worker
        /\ stored' = stored /\ conn' = conn
        /\ \A b \in Begin : worker[b] \in {"none", "done"}
    BY DEF StoreDone
  <1>4. conn' \in BOOLEAN
    BY <1>3 DEF IInv, TypeOK
  <1> HIDE DEF err
  <1> QED BY <1>1, <1>2, <1>3, <1>4, StoreReturnsInv

\* Another request begins: it lies right of all others and takes a place in
\* the channel.
LEMMA SpawnInv ==
  ASSUME IInv, Spawn
  PROVE  IInv'
  <1> USE ClientAssumption
  <1> DEFINE M == MaxTimeseriesesPerRequest
  <1>1. M \in Nat \ {0} /\ size \in Nat /\ next \in Nat /\ begun \subseteq Nat
    BY DEF IInv, TypeOK, Begin, ClientAssumption
  <1>2. /\ UNCHANGED <<batches, size, errors, stored, retries, result>>
        /\ conn' = conn /\ sender = "spawn"
    BY DEF Spawn
  <1>3. conn' \in BOOLEAN
    BY <1>2 DEF IInv, TypeOK
  <1>4. CASE next < size
    <2>1. /\ worker' = [worker EXCEPT ![next] = "call"]
          /\ begun' = begun \cup {next} /\ next' = next + M /\ sender' = sender
      BY <1>4 DEF Spawn
    <2>2. next \in Begin /\ next \notin begun
      BY <1>1, <1>4 DEF IInv, TypeOK, Slices, Begin, ClientAssumption
    <2>3. /\ worker'[next] = "call"
          /\ \A b \in Begin \ {next} : worker'[b] = worker[b]
      BY <2>1, <2>2 DEF IInv, TypeOK
    <2>4. TypeOK'
      <3>1. worker' \in [Begin -> {"none", "call", "done"} \cup Errors]
        BY <2>1, <2>2 DEF IInv, TypeOK
      <3> QED BY <1>1, <1>2, <1>3, <2>1, <2>2, <3>1 DEF IInv, TypeOK, Begin
    <2>5. IsFiniteSet(begun) /\ Cardinality(begun) \in Nat
      BY PendingFinite DEF IInv, Slices
    <2>6. IsFiniteSet(begun') /\ Cardinality(begun') = Cardinality(begun) + 1
      BY <2>1, <2>2, <2>5, FS_AddElement
    <2>7. Slices'
      <3>1. next' = M * Cardinality(begun')
        <4>1. next = M * Cardinality(begun)
          BY DEF IInv, Slices
        <4>2. M * (Cardinality(begun) + 1) = M * Cardinality(begun) + M
          BY <1>1, <2>5
        <4> QED BY <2>1, <2>6, <4>1, <4>2
      <3>2. next' < size' + M /\ \A b \in begun' : b < size' /\ b + M <= next'
        BY <1>1, <1>2, <1>4, <2>1 DEF IInv, Slices
      <3>3. \A b, c \in begun' : b = c \/ b + M <= c \/ c + M <= b
        BY <1>1, <2>1 DEF IInv, Slices
      <3>4. ASSUME NEW k \in 1..size', k <= next'
            PROVE  \E b \in begun' : b < k /\ k <= b + M
        <4>1. CASE k <= next
          BY <1>1, <1>2, <2>1, <4>1 DEF IInv, Slices
        <4>2. CASE next < k
          BY <1>1, <2>1, <3>4, <4>2
        <4> QED BY <1>1, <1>2, <4>1, <4>2
      <3> QED BY <1>2, <2>1, <2>6, <3>1, <3>2, <3>3, <3>4 DEF Slices
    <2>8. Clean'
      BY <1>2, <2>1 DEF Clean
    <2>9. Room'
      <3>1. Pending' = Pending \cup {next}
        BY <2>1, <2>2, <2>3 DEF Pending, IInv, TypeOK
      <3>2. next \notin Pending
        BY <2>2 DEF Pending
      <3>3. Cardinality(Pending') = Cardinality(Pending) + 1
        BY <2>5, <3>1, <3>2, PendingFinite, FS_AddElement
      <3>4. \A b \in Begin : worker'[b] \notin {"none", "done"} => b \in begun'
        BY <2>1, <2>3 DEF IInv, Room
      <3>5. Len(errors) \in Nat
        BY DEF IInv, TypeOK
      <3> QED BY <1>2, <2>5, <2>6, <3>3, <3>4, <3>5, PendingFinite
          DEF IInv, Room, Begin
    <2>10. Written'
      <3>1. \A b \in begun' : Request(b)' = Request(b)
        BY <1>2 DEF Request, End
      <3>2. result # "succeeded"
        BY <1>2 DEF IInv, Written
      <3> QED BY <1>2, <2>1, <2>2, <2>3, <3>1, <3>2 DEF IInv, TypeOK, Written
    <2> QED BY <2>4, <2>7, <2>8, <2>9, <2>10 DEF IInv
  <1>5. CASE ~(next < size)
    <2>1. sender' = "wait" /\ UNCHANGED <<begun, worker, next>>
      BY <1>5 DEF Spawn
    <2>2. TypeOK'
      BY <1>2, <1>3, <2>1 DEF IInv, TypeOK, Begin
    <2>3. Slices' /\ Clean'
      BY <1>1, <1>2, <1>5, <2>1 DEF IInv, Slices, Clean
    <2>4. Room'
      BY <1>2, <2>1 DEF IInv, Room, Pending, Begin
    <2>5. Written'
      BY <1>2, <2>1 DEF IInv, Written, Request, End
    <2> QED BY <2>2, <2>3, <2>4, <2>5 DEF IInv
  <1> QED BY <1>4, <1>5

\* A step of the goroutine of a request: it changes only its own place, what
\* is stored, and the channel.
LEMMA WorkerFrame ==
  ASSUME IInv, NEW b \in Begin, NEW s \in {"done"} \cup Errors,
         worker[b] \notin {"none", "done"},
         worker' = [worker EXCEPT ![b] = s],
         sender' = sender, batches' = batches, size' = size, next' = next,
         conn' = conn, begun' = begun, retries' = retries, result' = result,
         errors' \in Seq(Errors), stored' \in SUBSET (1..size)
  PROVE  /\ TypeOK' /\ Slices' /\ Clean'
         /\ b \in begun /\ sender \in {"spawn", "wait"}
         /\ worker'[b] = s /\ \A c \in Begin \ {b} : worker'[c] = worker[c]
         /\ result # "succeeded"
         /\ \A c \in Begin : worker'[c] \notin {"none", "done"} => c \in begun'
         /\ \A c \in begun' : worker'[c] # "none"
  <1>1. /\ worker'[b] = s /\ \A c \in Begin \ {b} : worker'[c] = worker[c]
        /\ worker' \in [Begin -> {"none", "call", "done"} \cup Errors]
    BY DEF IInv, TypeOK
  <1>2. b \in begun /\ sender \in {"spawn", "wait"} /\ begun \subseteq Begin
    BY DEF IInv, TypeOK, Room, Clean
  <1>3. TypeOK'
    <2>1. conn' \in BOOLEAN
      BY DEF IInv, TypeOK
    <2> QED BY <1>1, <2>1 DEF IInv, TypeOK, Begin
  <1>4. Slices' /\ Clean'
    BY <1>2 DEF IInv, Slices, Clean
  <1>5. result # "succeeded"
    BY <1>2 DEF IInv, Written
  <1>6. \A c \in Begin : worker'[c] \notin {"none", "done"} => c \in begun'
    BY <1>1, <1>2 DEF IInv, Room
  <1>7. \A c \in begun' : worker'[c] # "none"
    BY <1>1, <1>2 DEF IInv, Written, Errors
  <1> QED BY <1>1, <1>2, <1>3, <1>4, <1>5, <1>6, <1>7

\* One goroutine comes to its end: one fewer is pending.
LEMMA PendingDone ==
  ASSUME IsFiniteSet(begun), NEW b \in begun, begun' = begun,
         worker[b] # "done", worker'[b] = "done",
         \A c \in begun \ {b} : worker'[c] = worker[c]
  PROVE  Cardinality(Pending') = Cardinality(Pending) - 1
  <1>1. Pending' = Pending \ {b} /\ b \in Pending
    BY DEF Pending
  <1> QED BY <1>1, PendingFinite, FS_RemoveElement

\* A request succeeds.
LEMMA CreateTimeSeriesOKInv ==
  ASSUME IInv, NEW b \in Begin, CreateTimeSeriesOK(b)
  PROVE  IInv'
  <1> USE ClientAssumption
  <1>1. /\ worker[b] \notin {"none", "done"}
        /\ worker' = [worker EXCEPT ![b] = "done"]
        /\ stored' = stored \cup Request(b) /\ errors' = errors
        /\ sender' = sender /\ batches' = batches /\ size' = size
        /\ next' = next /\ conn' = conn /\ begun' = begun
        /\ retries' = retries /\ result' = result
    BY DEF CreateTimeSeriesOK
  <1>2. b \in Nat /\ size \in Nat
    BY DEF IInv, TypeOK, Begin, ClientAssumption
  <1>3. stored' \in SUBSET (1..size) /\ errors' \in Seq(Errors)
    BY <1>1, <1>2, RequestIs DEF IInv, TypeOK
  <1>4. /\ TypeOK' /\ Slices' /\ Clean' /\ b \in begun
        /\ worker'[b] = "done" /\ \A c \in Begin \ {b} : worker'[c] = worker[c]
        /\ result # "succeeded"
        /\ \A c \in Begin : worker'[c] \notin {"none", "done"} => c \in begun'
        /\ \A c \in begun' : worker'[c] # "none"
    BY <1>1, <1>3, WorkerFrame
  <1>5. begun \subseteq Begin /\ IsFiniteSet(begun) /\ Len(errors) \in Nat
    BY DEF IInv, TypeOK, Slices
  <1>6. Room'
    <2>1. Cardinality(Pending') = Cardinality(Pending) - 1
      BY <1>1, <1>4, <1>5, PendingDone
    <2> QED BY <1>1, <1>4, <1>5, <2>1, PendingFinite DEF IInv, Room, Begin
  <1>7. Written'
    <2>1. \A c \in begun : Request(c)' = Request(c)
      BY <1>1 DEF Request, End
    <2> QED BY <1>1, <1>4, <1>5, <2>1 DEF IInv, Written
  <1> QED BY <1>4, <1>6, <1>7 DEF IInv

\* A request fails; its error is still to be reported.
LEMMA CreateTimeSeriesFailsInv ==
  ASSUME IInv, NEW b \in Begin, NEW err \in Failure, CreateTimeSeriesFails(b, err)
  PROVE  IInv'
  <1> USE ClientAssumption
  <1>1. /\ worker[b] = "call"
        /\ worker' = [worker EXCEPT ![b] = err] /\ errors' = errors
        /\ sender' = sender /\ batches' = batches /\ size' = size
        /\ next' = next /\ conn' = conn /\ begun' = begun
        /\ retries' = retries /\ result' = result
    BY DEF CreateTimeSeriesFails
  <1>2. PICK part \in SUBSET Request(b) : stored' = stored \cup part
    BY DEF CreateTimeSeriesFails
  <1>3. b \in Nat /\ size \in Nat /\ err \in Errors
    BY DEF IInv, TypeOK, Begin, Failure, ClientAssumption
  <1>4. stored' \in SUBSET (1..size) /\ errors' \in Seq(Errors)
    BY <1>1, <1>2, <1>3, RequestIs DEF IInv, TypeOK
  <1>5. /\ TypeOK' /\ Slices' /\ Clean' /\ b \in begun
        /\ worker'[b] = err /\ \A c \in Begin \ {b} : worker'[c] = worker[c]
        /\ result # "succeeded"
        /\ \A c \in Begin : worker'[c] \notin {"none", "done"} => c \in begun'
        /\ \A c \in begun' : worker'[c] # "none"
    BY <1>1, <1>3, <1>4, WorkerFrame
  <1>6. begun \subseteq Begin
    BY DEF IInv, TypeOK
  <1>7. Room'
    <2>1. Pending' = Pending
      BY <1>1, <1>3, <1>5, <1>6 DEF Pending, Errors
    <2> QED BY <1>1, <1>5, <2>1 DEF IInv, Room, Begin
  <1>8. Written'
    <2>1. \A c \in begun : Request(c)' = Request(c)
      BY <1>1 DEF Request, End
    <2> QED BY <1>1, <1>2, <1>3, <1>5, <1>6, <2>1 DEF IInv, Written, Errors
  <1> QED BY <1>5, <1>7, <1>8 DEF IInv

\* An error is reported and the goroutine ends: the place it takes in the
\* channel was kept for it.
LEMMA ReportErrorInv ==
  ASSUME IInv, NEW b \in Begin, ReportError(b)
  PROVE  IInv'
  <1> USE ClientAssumption
  <1>1. /\ worker[b] \in Errors
        /\ worker' = [worker EXCEPT ![b] = "done"] /\ stored' = stored
        /\ errors' = Append(errors, worker[b])
        /\ sender' = sender /\ batches' = batches /\ size' = size
        /\ next' = next /\ conn' = conn /\ begun' = begun
        /\ retries' = retries /\ result' = result
    BY DEF ReportError
  <1>2. errors \in Seq(Errors) /\ stored' \in SUBSET (1..size)
    BY <1>1 DEF IInv, TypeOK
  <1>3. /\ errors' \in Seq(Errors) /\ errors' # <<>>
        /\ Len(errors') = Len(errors) + 1 /\ Len(errors) \in Nat
    BY <1>1, <1>2
  <1>4. /\ TypeOK' /\ Slices' /\ Clean' /\ b \in begun
        /\ worker'[b] = "done" /\ \A c \in Begin \ {b} : worker'[c] = worker[c]
        /\ result # "succeeded"
        /\ \A c \in Begin : worker'[c] \notin {"none", "done"} => c \in begun'
        /\ \A c \in begun' : worker'[c] # "none"
    <2>1. worker[b] \notin {"none", "done"}
      BY <1>1 DEF Errors
    <2> QED BY <1>1, <1>2, <1>3, <2>1, WorkerFrame
  <1>5. begun \subseteq Begin /\ IsFiniteSet(begun) /\ worker[b] # "done"
    BY <1>1 DEF IInv, TypeOK, Slices, Errors
  <1>6. Room'
    <2>1. Cardinality(Pending') = Cardinality(Pending) - 1
      BY <1>1, <1>4, <1>5, PendingDone
    <2> QED BY <1>1, <1>3, <1>4, <1>5, <2>1, PendingFinite DEF IInv, Room, Begin
  <1>7. Written'
    BY <1>1, <1>3, <1>4 DEF Written
  <1> QED BY <1>4, <1>6, <1>7 DEF IInv

\* Every step preserves the invariant.
LEMMA InvNext == IInv /\ [Next]_vars => IInv'
  <1> SUFFICES ASSUME IInv, [Next]_vars PROVE IInv'
    OBVIOUS
  <1>1. CASE \E n \in 1..MaxBatch : SendSamples(n)
    BY <1>1, SendSamplesInv
  <1>2. CASE Store
    BY <1>2, GetConnectionInv, SpawnInv, StoreDoneInv DEF Store
  <1>3. CASE \E b \in Begin : Worker(b)
    BY <1>3, CreateTimeSeriesOKInv, CreateTimeSeriesFailsInv, ReportErrorInv
    DEF Worker
  <1>4. CASE UNCHANGED vars
    BY <1>4 DEF vars, IInv, TypeOK, Slices, Clean, Room, Pending, Written, Begin,
                Request, End
  <1> QED BY <1>1, <1>2, <1>3, <1>4 DEF Next, Idle

\* Every reachable state satisfies the invariant.
THEOREM Invariance == Spec => []IInv
  BY InvInit, InvNext, PTL DEF Spec

-----------------------------------------------------------------------------
(* What it implies. *)

\* The requests of a Store cut its batch into disjoint slices that cover it
\* and respect the limit, for every batch size and limit.
THEOREM RequestsPartitionHolds == Spec => []RequestsPartition
  <1>1. IInv => RequestsPartition
    <2> SUFFICES ASSUME IInv, sender = "wait"
                 PROVE  /\ UNION {Request(b) : b \in begun} = 1..size
                        /\ \A b \in begun :
                             /\ Cardinality(Request(b)) \in 1..MaxTimeseriesesPerRequest
                             /\ \A c \in begun \ {b} : Request(b) \cap Request(c) = {}
      BY DEF RequestsPartition
    <2> USE ClientAssumption
    <2> DEFINE M == MaxTimeseriesesPerRequest
    <2>1. M \in Nat \ {0} /\ size \in Nat /\ next \in Nat /\ begun \subseteq Nat
      BY DEF IInv, TypeOK, Begin, ClientAssumption
    <2>2. \A b \in begun : Request(b) = {k \in 1..size : b < k /\ k <= b + M}
      BY <2>1, RequestIs
    <2>3. UNION {Request(b) : b \in begun} = 1..size
      <3>1. \A k \in 1..size : \E b \in begun : k \in Request(b)
        BY <2>1, <2>2 DEF IInv, Slices
      <3> QED BY <2>2, <3>1
    <2>4. ASSUME NEW b \in begun
          PROVE  Cardinality(Request(b)) \in 1..M
      <3>1. b < size /\ b \in Nat
        BY <2>1 DEF IInv, Slices
      <3>2. End(b) = IF b + M <= size THEN b + M ELSE size
        BY <2>1, <3>1, MinOfTwo, b + M \in Int, size \in Int DEF End
      <3>3. Cardinality((b + 1)..End(b)) = End(b) - (b + 1) + 1
        BY <2>1, <3>1, <3>2, FS_Interval, b + 1 \in Int, End(b) \in Int
      <3> QED BY <2>1, <3>1, <3>2, <3>3 DEF Request
    <2>5. ASSUME NEW b \in begun, NEW c \in begun \ {b}
          PROVE  Request(b) \cap Request(c) = {}
      BY <2>1, <2>2 DEF IInv, Slices
    <2> QED BY <2>3, <2>4, <2>5
  <1> QED BY <1>1, Invariance, PTL

\* A goroutine that has an error to report finds room in the channel.
THEOREM ErrorsNeverBlockHolds == Spec => []ErrorsNeverBlock
  <1>1. IInv => ErrorsNeverBlock
    <2> SUFFICES ASSUME IInv, NEW b \in Begin, worker[b] \in Errors
                 PROVE  Len(errors) < Capacity(size)
      BY DEF ErrorsNeverBlock
    <2>1. b \in Pending /\ IsFiniteSet(begun)
      BY DEF IInv, Room, Slices, Pending, Errors
    <2>2. /\ IsFiniteSet(Pending) /\ Cardinality(Pending) \in Nat
          /\ Cardinality(begun) \in Nat /\ Cardinality(Pending) # 0
      BY <2>1, PendingFinite, FS_EmptySet
    <2>3. Cardinality(begun) <= Capacity(size)
      BY <2>2, CapacitySuffices, ClientAssumption
      DEF IInv, TypeOK, Slices, ClientAssumption
    <2>4. Len(errors) \in Nat /\ Capacity(size) \in Int
      BY ClientAssumption DEF IInv, TypeOK, Capacity, ClientAssumption
    <2> QED BY <2>2, <2>3, <2>4 DEF IInv, Room
  <1> QED BY <1>1, Invariance, PTL

\* A batch counted as succeeded is stored in full.
THEOREM SucceededIsStoredHolds == Spec => []SucceededIsStored
  <1>1. IInv => SucceededIsStored
    BY DEF IInv, Written, SucceededIsStored
  <1> QED BY <1>1, Invariance, PTL

\* No request is under way when Store has returned.
THEOREM QuietBetweenStoresHolds == Spec => []QuietBetweenStores
  <1>1. IInv => QuietBetweenStores
    BY Quiet DEF IInv, QuietBetweenStores
  <1> QED BY <1>1, Invariance, PTL
==============================================================================
