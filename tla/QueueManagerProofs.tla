------------------------- MODULE QueueManagerProofs -------------------------
(***************************************************************************)
(* TLAPS proofs about QueueManager, and about Sidecar, which calls it in   *)
(* ways that MayAppend and MayStop exclude.                                *)
(***************************************************************************)
EXTENDS Sidecar, FiniteSetTheorems, TLAPS

-----------------------------------------------------------------------------
(* Lemmas about the channels, as sequences. *)

\* An empty channel holds no sample.
LEMMA EmptyQueue == ToSet(<<>>) = {} /\ Increasing(<<>>)
  BY DEF ToSet, Increasing

\* A channel that holds no sample is empty.
LEMMA NoSampleNoEntry ==
  ASSUME NEW S, NEW q \in Seq(S), ToSet(q) = {}
  PROVE  q = <<>>
  <1> SUFFICES ASSUME q # <<>> PROVE FALSE
    OBVIOUS
  <1>1. 1 \in DOMAIN q
    OBVIOUS
  <1> QED BY <1>1 DEF ToSet

\* What a receive takes and leaves.
LEMMA TailOfQueue ==
  ASSUME NEW S \in SUBSET Int, NEW q \in Seq(S), q # <<>>
  PROVE  /\ Head(q) \in S
         /\ Tail(q) \in Seq(S)
         /\ ToSet(q) = {Head(q)} \cup ToSet(Tail(q))
         /\ Increasing(q) => /\ Increasing(Tail(q))
                             /\ \A n \in ToSet(Tail(q)) : Head(q) < n
  <1>1. /\ Len(q) \in Nat \ {0} /\ DOMAIN q = 1..Len(q)
        /\ Head(q) = q[1] /\ Head(q) \in S
        /\ Tail(q) \in Seq(S) /\ Len(Tail(q)) = Len(q) - 1
        /\ DOMAIN Tail(q) = 1..(Len(q) - 1)
        /\ \A i \in 1..(Len(q) - 1) : Tail(q)[i] = q[i + 1]
    OBVIOUS
  <1>2. ASSUME NEW i \in 1..Len(q)
        PROVE  q[i] \in {Head(q)} \cup ToSet(Tail(q))
    <2>1. CASE i = 1
      BY <1>1, <2>1
    <2>2. CASE i # 1
      <3>1. i - 1 \in 1..(Len(q) - 1) /\ Tail(q)[i - 1] = q[i]
        BY <1>1, <2>2
      <3> QED BY <1>1, <3>1 DEF ToSet
    <2> QED BY <2>1, <2>2
  <1>3. ToSet(q) \subseteq {Head(q)} \cup ToSet(Tail(q))
    BY <1>1, <1>2 DEF ToSet
  <1>4. ToSet(Tail(q)) \subseteq ToSet(q) /\ Head(q) \in ToSet(q)
    BY <1>1 DEF ToSet
  <1>5. Increasing(q) => /\ Increasing(Tail(q))
                         /\ \A n \in ToSet(Tail(q)) : Head(q) < n
    BY <1>1 DEF Increasing, ToSet
  <1> QED BY <1>1, <1>3, <1>4, <1>5

\* What a send adds.
LEMMA AppendToQueue ==
  ASSUME NEW S \in SUBSET Int, NEW q \in Seq(S), NEW e \in S
  PROVE  /\ Append(q, e) \in Seq(S)
         /\ ToSet(Append(q, e)) = ToSet(q) \cup {e}
         /\ Increasing(q) /\ (\A n \in ToSet(q) : n < e)
              => Increasing(Append(q, e))
  <1>1. /\ Len(q) \in Nat /\ DOMAIN q = 1..Len(q)
        /\ Append(q, e) \in Seq(S)
        /\ DOMAIN Append(q, e) = 1..(Len(q) + 1)
        /\ \A i \in 1..Len(q) : Append(q, e)[i] = q[i]
        /\ Append(q, e)[Len(q) + 1] = e
    OBVIOUS
  <1>2. ToSet(Append(q, e)) = ToSet(q) \cup {e}
    <2>1. ToSet(Append(q, e)) \subseteq ToSet(q) \cup {e}
      BY <1>1 DEF ToSet
    <2>2. ToSet(q) \cup {e} \subseteq ToSet(Append(q, e))
      BY <1>1 DEF ToSet
    <2> QED BY <2>1, <2>2
  <1>3. ASSUME Increasing(q), \A n \in ToSet(q) : n < e
        PROVE  Increasing(Append(q, e))
    BY <1>1, <1>3 DEF Increasing, ToSet
  <1> QED BY <1>1, <1>2, <1>3

-----------------------------------------------------------------------------
(* What both specifications do with the manager. *)

\* When Append may be called: once Stop is done waiting, only if reshardLoop has
\* ended, not if it has yet to begin.
CanAppend == \/ stopper = "init"
             \/ starter = "done" /\ (stopper = "wait" \/ resharder = "exited")

\* When Stop may be called: before Start only if there is nothing to send.
CanStop == starter = "init" => appended = 0

\* The steps of the manager under these conditions, a panic included.
AnyNext == \/ CanAppend /\ AppendCall
           \/ StartLoops
           \/ CanStop /\ StopCall
           \/ Internal
           \/ AppendPanic
           \/ UNCHANGED vars

\* MayAppend and MayStop are narrower.
LEMMA NextIsAny == [Next]_vars => AnyNext
  BY DEF Next, AnyNext, MayAppend, CanAppend, MayStop, CanStop, Terminated

-----------------------------------------------------------------------------
(* Type correctness. *)

\* A Store call records samples of the batch, each under its own series.
LEMMA SentType ==
  ASSUME TypeOK, NEW B \in SUBSET Sample
  PROVE  /\ Sent(B) \in [Hashes -> 0..NumSamples]
         /\ \A h \in Hashes :
              IF \E n \in B : hash[n] = h
              THEN Sent(B)[h] \in B /\ hash[Sent(B)[h]] = h
              ELSE Sent(B)[h] = lastSent[h]
  <1> DEFINE c(h) == CHOOSE n \in B : hash[n] = h
  <1>1. ASSUME NEW h \in Hashes, \E n \in B : hash[n] = h
        PROVE  c(h) \in B /\ hash[c(h)] = h
    BY <1>1
  <1> HIDE DEF c
  <1>2. Sent(B) = [h \in Hashes |-> IF \E n \in B : hash[n] = h
                                    THEN c(h) ELSE lastSent[h]]
    BY DEF Sent, c
  <1>3. B \subseteq 0..NumSamples /\ lastSent \in [Hashes -> 0..NumSamples]
    BY ConstantsAssumption DEF TypeOK, Sample
  <1>4. \A h \in Hashes : Sent(B)[h] = IF \E n \in B : hash[n] = h
                                       THEN c(h) ELSE lastSent[h]
    BY <1>2
  <1>5. ASSUME NEW h \in Hashes PROVE Sent(B)[h] \in 0..NumSamples
    <2>1. CASE \E n \in B : hash[n] = h
      BY <1>1, <1>3, <1>4, <2>1
    <2>2. CASE ~ \E n \in B : hash[n] = h
      BY <1>3, <1>4, <2>2
    <2> QED BY <2>1, <2>2
  <1>6. Sent(B) \in [Hashes -> 0..NumSamples]
    BY <1>5 DEF Sent
  <1> QED BY <1>1, <1>4, <1>6

\* The initial state is well typed.
LEMMA TypeInit == Init => TypeOK
  <1> SUFFICES ASSUME Init PROVE TypeOK
    OBVIOUS
  <1>1. queue \in [Shard -> Seq(Sample)]
    BY DEF Init
  <1>2. size \in [Gen -> 0..MaxShards] /\ size["cur"] >= 1
    BY ConstantsAssumption DEF Init, Gen
  <1>3. /\ pending \in [Shard -> SUBSET Sample]
        /\ carry \in [Shard -> SUBSET Sample]
        /\ seen \in [Shard -> SUBSET Hashes]
        /\ runner \in [Shard -> {"none", "select", "send", "final", "exited"}]
        /\ lastSent \in [Hashes -> 0..NumSamples]
    BY ConstantsAssumption DEF Init
  <1>4. /\ closed \subseteq Gen /\ armed \subseteq Shard
        /\ succeeded \subseteq Sample /\ failed \subseteq Sample
    BY DEF Init
  <1>5. /\ appended \in 0..NumSamples /\ queueLength \in Int
        /\ numShards \in 1..MaxShards /\ target \in 1..MaxShards
    BY ConstantsAssumption DEF Init
  <1> QED BY <1>1, <1>2, <1>3, <1>4, <1>5 DEF Init, TypeOK

\* Every step keeps the types.
LEMMA TypeNext == TypeOK /\ AnyNext => TypeOK'
  <1> SUFFICES ASSUME TypeOK, AnyNext PROVE TypeOK'
    OBVIOUS
  <1> USE ConstantsAssumption
  <1>1. CASE AppendCall
    BY <1>1 DEF AppendCall, TypeOK, managerVars, threadVars, collectionVars,
                shardVars, storeVars, Sample
  <1>2. CASE AppendRLock
    BY <1>2 DEF AppendRLock, TypeOK, managerVars, threadVars, collectionVars,
                shardVars, storeVars
  <1>3. CASE AppendSend
    <2>1. appended \in Sample /\ Sample \in SUBSET Int
      BY <1>3 DEF AppendSend, TypeOK, Sample
    <2>2. queue' \in [Shard -> Seq(Sample)]
      BY <1>3, <2>1, AppendToQueue DEF AppendSend, TypeOK
    <2> QED BY <1>3, <2>2 DEF AppendSend, TypeOK, managerVars, threadVars,
                collectionVars, storeVars
  <1>4. CASE StartLoops
    BY <1>4 DEF StartLoops, TypeOK, appendVars, managerVars, collectionVars,
                shardVars, storeVars
  <1>5. CASE StartStep
    <2>1. CASE StartLock
      BY <2>1 DEF StartLock, TypeOK,
                appendVars, threadVars, collectionVars, shardVars, storeVars
    <2>2. CASE StartShards
      BY <2>2 DEF StartShards, StartCollection, TypeOK,
                appendVars, collectionVars, storeVars
    <2> QED BY <1>5, <2>1, <2>2 DEF StartStep
  <1>6. CASE UpdateStep
    BY <1>6 DEF UpdateStep, CalculateDesiredShards, DesiredShards,
                UpdateShardsLoopExit, TypeOK, appendVars, managerVars,
                collectionVars, shardVars, storeVars
  <1>7. CASE ReshardLoopExit \/ ReshardLock \/ ReshardUnlock \/ ReshardStart
    <2>1. CASE ReshardLoopExit
      BY <2>1 DEF ReshardLoopExit, TypeOK, appendVars, managerVars,
                collectionVars, shardVars, storeVars
    <2>2. CASE ReshardLock
      BY <2>2 DEF ReshardLock, TypeOK, appendVars,
                collectionVars, shardVars, storeVars
    <2>3. CASE ReshardUnlock
      BY <2>3 DEF ReshardUnlock, TypeOK, appendVars, storeVars, Gen
    <2>4. CASE ReshardStart
      BY <2>4 DEF ReshardStart, StartCollection, TypeOK, appendVars,
                managerVars, collectionVars, storeVars
    <2> QED BY <1>7, <2>1, <2>2, <2>3, <2>4
  <1>8. CASE ReshardSwap
    <2>1. \A s \in Shard : <<"cur", s[2]>> \in Shard
      BY DEF Shard, Gen
    <2> QED BY <1>8, <2>1 DEF ReshardSwap, TypeOK, appendVars, managerVars,
                storeVars, Gen
  <1>9. CASE StopCall \/ StopStep
    <2>1. CASE StopCall
      BY <2>1 DEF StopCall, TypeOK, appendVars,
                collectionVars, shardVars, storeVars
    <2>4. CASE StopWait
      BY <2>4 DEF StopWait, TypeOK, appendVars, managerVars,
                collectionVars, shardVars, storeVars
    <2>2. CASE StopLock \/ StopDone
      BY <2>2 DEF StopLock, StopDone, TypeOK, appendVars,
                collectionVars, shardVars, storeVars
    <2>3. CASE StopClose
      BY <2>3 DEF StopClose, TypeOK, appendVars, managerVars, shardVars,
                storeVars, Gen
    <2> QED BY <1>9, <2>1, <2>2, <2>3, <2>4 DEF StopStep
  <1>10. ASSUME NEW s \in Shard, RunShard(s) PROVE TypeOK'
    <2>1. CASE Receive(s)
      <3>1. /\ queue[s] # <<>> /\ Head(queue[s]) \in Sample
            /\ Tail(queue[s]) \in Seq(Sample)
        <4>1. Sample \in SUBSET Int
          BY DEF Sample
        <4> QED BY <2>1, <4>1, TailOfQueue DEF Receive, Dequeue, TypeOK
      <3> QED BY <2>1, <3>1 DEF Receive, Dequeue, TakeEntry, TypeOK,
                managerVars, threadVars, collectionVars, storeVars
    <2>2. CASE ReceiveClosed(s)
      BY <2>2 DEF ReceiveClosed, TypeOK, appendVars, managerVars,
                threadVars, collectionVars, storeVars
    <2>5. CASE Deadline(s)
      BY <2>5 DEF Deadline, TypeOK, appendVars, managerVars,
                threadVars, collectionVars, storeVars
    <2>3. CASE StoreRetry(s)
      <3>1. lastSent' \in [Hashes -> 0..NumSamples]
        BY <2>3, SentType DEF StoreRetry, TypeOK
      <3> QED BY <2>3, <3>1 DEF StoreRetry, TypeOK, appendVars, managerVars,
                threadVars, collectionVars, shardVars
    <2>4. ASSUME NEW ok \in BOOLEAN, StoreResolve(s, ok) PROVE TypeOK'
      <3>1. lastSent' \in [Hashes -> 0..NumSamples]
        BY <2>4, SentType DEF StoreResolve, Answer, TypeOK
      <3>2. HashesOf(carry[s]) \in SUBSET Hashes
        BY DEF HashesOf, TypeOK
      <3> QED BY <2>4, <3>1, <3>2 DEF StoreResolve, Answer, Resume, TypeOK,
                appendVars, managerVars, threadVars, collectionVars
    <2> QED BY <1>10, <2>1, <2>2, <2>3, <2>4, <2>5 DEF RunShard
  <1>11. CASE UNCHANGED vars
    BY <1>11 DEF vars, TypeOK, appendVars, managerVars, threadVars,
                collectionVars, shardVars, storeVars
  <1>12. CASE AppendPanic
    BY <1>12 DEF AppendPanic, TypeOK, managerVars, threadVars, collectionVars,
                shardVars, storeVars
  <1> QED BY <1>1, <1>2, <1>3, <1>4, <1>5, <1>6, <1>7, <1>8, <1>9, <1>10,
             <1>11, <1>12 DEF AnyNext, Internal, AppendStep, ReshardStep

-----------------------------------------------------------------------------
(* The inductive invariant. *)

\* The initial state satisfies the inductive invariant.
LEMMA CoreInit == Init => Core
  <1> SUFFICES ASSUME Init PROVE Core
    OBVIOUS
  <1>1. TypeOK
    BY TypeInit
  <1>2. LocksOK
    BY DEF Init, LocksOK
  <1>3. \A s \in Shard : /\ Contents(s) = {} /\ queue[s] = <<>>
                         /\ pending[s] = {} /\ carry[s] = {} /\ seen[s] = {}
                         /\ runner[s] = "none"
    BY EmptyQueue DEF Init, Contents
  <1>4. CollectionsOK
    BY <1>3 DEF Init, CollectionsOK, Gen
  <1>5. ShardsOK
    BY <1>3 DEF ShardsOK, HashesOf
  <1>6. OrderOK /\ PlacementOK
    BY <1>3, EmptyQueue DEF OrderOK, PlacementOK
  <1>7. SentOK /\ NothingLost /\ succeeded \cap failed = {}
    BY DEF Init, SentOK, NothingLost, resolved
  <1>8. SizesOK
    <2>1. Cardinality({}) = 0
      BY FS_EmptySet
    <2>2. MaxSamplesPerSend \in Nat \ {0}
      BY ConstantsAssumption
    <2>3. \A s \in Shard : Cardinality(pending[s]) = 0
      BY <1>3, <2>1
    <2>4. \A s \in Shard : runner[s] = "none" /\ carry[s] = {}
      BY <1>3
    <2> QED BY <2>2, <2>3, <2>4 DEF SizesOK
  <1> QED BY <1>1, <1>2, <1>4, <1>5, <1>6, <1>7, <1>8 DEF Core

\* The steps that move no sample preserve what is said of the samples.
LEMMA Frame ==
  ASSUME Core, UNCHANGED <<hash, appended, collectionVars, shardVars,
                           lastSent, succeeded, failed>>,
         Appending' = Appending
  PROVE  /\ ShardsOK' /\ OrderOK' /\ PlacementOK' /\ SentOK' /\ NothingLost'
         /\ (succeeded \cap failed = {})'
  <1> USE DEF Core, collectionVars, shardVars
  <1>1. \A s \in Shard : Contents(s)' = Contents(s)
    BY DEF Contents
  <1>2. resolved' = resolved
    BY DEF resolved
  <1>3. ShardsOK'
    BY DEF ShardsOK, HashesOf
  <1>4. OrderOK'
    BY DEF OrderOK, Increasing
  <1>5. PlacementOK'
    BY <1>1, <1>2 DEF PlacementOK, ShardOf
  <1>6. SentOK'
    BY <1>2 DEF SentOK
  <1>7. NothingLost'
    <2>1. (UNION {Contents(s) : s \in Shard})' = UNION {Contents(s) : s \in Shard}
      BY <1>1
    <2> QED BY <1>2, <2>1 DEF NothingLost
  <1> QED BY <1>3, <1>4, <1>5, <1>6, <1>7

\* The threads exclude each other as LocksOK says.
LEMMA LocksNext == Core /\ AnyNext => LocksOK'
  <1> SUFFICES ASSUME Core, AnyNext PROVE LocksOK'
    OBVIOUS
  <1> USE DEF Core, LocksOK, TypeOK
  <1>1. CASE CanAppend /\ AppendCall
    BY <1>1 DEF CanAppend, AppendCall, managerVars, threadVars, storeVars
  <1>2. CASE AppendRLock
    BY <1>2 DEF AppendRLock, managerVars, threadVars, storeVars
  <1>3. CASE AppendSend
    BY <1>3 DEF AppendSend, managerVars, threadVars, storeVars
  <1>4. CASE StartLoops
    BY <1>4 DEF StartLoops, appendVars, managerVars, storeVars
  <1>5. CASE StartLock
    BY <1>5 DEF StartLock, appendVars, threadVars, storeVars
  <1>6. CASE StartShards
    BY <1>6 DEF StartShards, appendVars, storeVars
  <1>7. CASE UpdateStep
    BY <1>7 DEF UpdateStep, CalculateDesiredShards, UpdateShardsLoopExit,
                appendVars, managerVars, storeVars
  <1>8. CASE ReshardLoopExit
    BY <1>8 DEF ReshardLoopExit, appendVars, managerVars, storeVars
  <1>9. CASE ReshardLock
    BY <1>9 DEF ReshardLock, appendVars, storeVars
  <1>10. CASE ReshardSwap
    BY <1>10 DEF ReshardSwap, appendVars, managerVars, storeVars
  <1>11. CASE ReshardUnlock
    BY <1>11 DEF ReshardUnlock, appendVars, storeVars
  <1>12. CASE ReshardStart
    BY <1>12 DEF ReshardStart, appendVars, managerVars, storeVars
  <1>13. CASE CanStop /\ StopCall
    BY <1>13 DEF CanStop, StopCall, appendVars, storeVars
  <1>14. CASE StopWait
    BY <1>14 DEF StopWait, appendVars, managerVars, storeVars
  <1>15. CASE StopLock
    BY <1>15 DEF StopLock, appendVars, storeVars
  <1>16. CASE StopClose
    BY <1>16 DEF StopClose, appendVars, managerVars, storeVars
  <1>17. CASE StopDone
    BY <1>17 DEF StopDone, appendVars, storeVars
  <1>18. ASSUME NEW s \in Shard, RunShard(s) PROVE LocksOK'
    <2>1. CASE Receive(s)
      BY <2>1 DEF Receive, Dequeue, managerVars, threadVars, storeVars
    <2>2. CASE ReceiveClosed(s)
      BY <2>2 DEF ReceiveClosed, appendVars, managerVars, threadVars, storeVars
    <2>3. CASE Deadline(s)
      BY <2>3 DEF Deadline, appendVars, managerVars, threadVars, storeVars
    <2>4. CASE StoreRetry(s)
      BY <2>4 DEF StoreRetry, appendVars, managerVars, threadVars, storeVars
    <2>5. ASSUME NEW ok \in BOOLEAN, StoreResolve(s, ok) PROVE LocksOK'
      <3>1. starter = "done"
        BY <2>5 DEF CollectionsOK, StoreResolve, Answer
      <3>2. pending[s] # {}
        BY <2>5 DEF ShardsOK, StoreResolve, Answer
      <3>3. \A n \in pending[s] : n \in 1..appended
        BY DEF PlacementOK, Contents
      <3>4. appended >= 1
        BY <3>2, <3>3
      <3> QED BY <2>5, <3>1, <3>4 DEF StoreResolve, Answer, appendVars, managerVars,
                                threadVars
    <2> QED BY <1>18, <2>1, <2>2, <2>3, <2>4, <2>5 DEF RunShard
  <1>19. CASE UNCHANGED vars
    BY <1>19 DEF vars, appendVars, managerVars, threadVars, storeVars
  <1>20. CASE AppendPanic
    BY <1>20 DEF AppendPanic, managerVars, threadVars, storeVars
  <1> QED BY <1>1, <1>2, <1>3, <1>4, <1>5, <1>6, <1>7, <1>8, <1>9, <1>10,
             <1>11, <1>12, <1>13, <1>14, <1>15, <1>16, <1>17, <1>18, <1>19,
             <1>20
          DEF AnyNext, Internal, AppendStep, StartStep, ReshardStep, StopStep

\* The two collections stay as CollectionsOK says.
LEMMA CollectionsNext == Core /\ AnyNext => CollectionsOK'
  <1> SUFFICES ASSUME Core, AnyNext PROVE CollectionsOK'
    OBVIOUS
  <1> USE DEF Core, CollectionsOK, TypeOK, LocksOK
  <1>0. \A s \in Shard : s[1] \in Gen /\ s[2] \in Index /\ s[2] \in Int
    BY ConstantsAssumption DEF Shard, Index
  <1>1. CASE CanAppend /\ AppendCall
    BY <1>1 DEF AppendCall, managerVars, threadVars, collectionVars, shardVars,
                AllExited
  <1>2. CASE AppendRLock
    BY <1>2 DEF AppendRLock, managerVars, threadVars, collectionVars,
                shardVars, AllExited
  <1>3. CASE AppendSend
    <2>1. \A s \in Shard : s[1] = "old" => queue'[s] = queue[s]
      BY <1>3 DEF AppendSend, ShardOf
    <2> QED BY <1>3, <2>1 DEF AppendSend, managerVars, threadVars,
                collectionVars, AllExited
  <1>4. CASE StartLoops
    BY <1>4 DEF StartLoops, managerVars, collectionVars, shardVars, AllExited
  <1>5. CASE StartLock
    BY <1>5 DEF StartLock, threadVars, collectionVars, shardVars, AllExited
  <1>6. CASE StartShards
    BY <1>0, <1>6 DEF StartShards, StartCollection, Startable, collectionVars,
                      AllExited
  <1>7. CASE UpdateStep
    BY <1>7 DEF UpdateStep, CalculateDesiredShards, UpdateShardsLoopExit,
                managerVars, collectionVars, shardVars, AllExited
  <1>8. CASE ReshardLoopExit
    BY <1>8 DEF ReshardLoopExit, managerVars, collectionVars, shardVars,
                AllExited
  <1>9. CASE ReshardLock
    BY <1>9 DEF ReshardLock, collectionVars, shardVars, AllExited
  <1>10. CASE ReshardSwap
    <2>1. \A s \in Shard : <<"cur", s[2]>> \in Shard
      BY DEF Shard, Gen
    <2>2. stopper \notin {"drain", "done"} /\ starter = "done"
      BY <1>10 DEF ReshardSwap
    <2>3. /\ closed' = {"old"} /\ stopper' = stopper /\ starter' = starter
          /\ resharder' = "drain" /\ size'["old"] = size["cur"]
          /\ size'["cur"] = target /\ size["cur"] > 0
      BY <1>10 DEF ReshardSwap, Gen
    <2>4. \A s \in Shard : s[1] = "cur" => queue'[s] = <<>> /\ runner'[s] = "none"
      BY <1>10 DEF ReshardSwap
    <2>5. \A s \in Shard : s[1] = "old" => runner'[s] = runner[<<"cur", s[2]>>]
      BY <1>10 DEF ReshardSwap
    <2>6. ASSUME NEW s \in Shard, s[2] >= size'[s[1]] PROVE runner'[s] = "none"
      <3>1. CASE s[1] = "old"
        <4> DEFINE r == <<"cur", s[2]>>
        <4>1. r \in Shard /\ r[1] = "cur" /\ r[2] = s[2]
          BY <2>1
        <4>2. r[2] >= size[r[1]]
          BY <2>3, <2>6, <3>1, <4>1
        <4>3. runner[r] = "none"
          BY <4>1, <4>2
        <4> QED BY <2>5, <3>1, <4>3
      <3> QED BY <1>0, <2>4, <3>1 DEF Gen
    <2> QED BY <2>2, <2>3, <2>4, <2>6
  <1>11. CASE ReshardUnlock
    <2>1. /\ closed' = closed \ {"old"} /\ stopper' = stopper
          /\ starter' = starter /\ resharder' = "start" /\ size'["old"] = 0
          /\ size'["cur"] = size["cur"] /\ queue' = queue
          /\ stopper # "done" /\ starter = "done"
      BY <1>11 DEF ReshardUnlock, Gen
    <2>2. \A s \in Shard : runner'[s] = IF s[1] = "old" THEN "none" ELSE runner[s]
      BY <1>11 DEF ReshardUnlock
    <2>3. \A s \in Shard : s[1] = "old" => queue[s] = <<>>
      <3> SUFFICES ASSUME NEW s \in Shard, s[1] = "old" PROVE queue[s] = <<>>
        OBVIOUS
      <3>1. CASE s[2] < size["old"]
        <4>1. runner[s] = "exited"
          BY <1>11, <3>1 DEF ReshardUnlock, AllExited
        <4> QED BY <4>1 DEF ShardsOK
      <3>2. CASE s[2] >= size["old"]
        <4>1. Contents(s) = {}
          <5> SUFFICES ASSUME NEW n \in Contents(s) PROVE FALSE
            OBVIOUS
          <5>1. s[2] = hash[n] % size["old"]
            BY DEF PlacementOK, ShardOf
          <5>2. n \in Sample
            BY ConstantsAssumption DEF PlacementOK, Sample
          <5>3. hash[n] \in Nat
            BY <5>2, ConstantsAssumption
          <5>4. size["old"] \in Nat \ {0}
            BY <1>11, ConstantsAssumption DEF ReshardUnlock, Gen
          <5> QED BY <5>3, <5>4, <1>0, <3>2, <5>1, <5>2
        <4>2. queue[s] \in Seq(Sample) /\ Sample \in SUBSET Int
          BY DEF Sample
        <4>3. ToSet(queue[s]) = {}
          BY <4>1 DEF Contents
        <4> QED BY <4>2, <4>3, NoSampleNoEntry
      <3> QED BY <1>0, <3>1, <3>2 DEF Gen
    <2>4. \A s \in Shard : s[2] >= size'[s[1]] => runner'[s] = "none"
      BY <1>0, <2>1, <2>2 DEF Gen
    <2>5. \A s \in Shard :
            /\ s[1] = "old" => queue'[s] = <<>> /\ runner'[s] = "none"
            /\ s[1] = "cur" => runner'[s] = "none"
      BY <1>11, <2>1, <2>2, <2>3 DEF ReshardUnlock
    <2>6. /\ "cur" \in closed' <=> stopper' \in {"drain", "done"}
          /\ "old" \notin closed'
      BY <2>1
    <2> QED BY <2>1, <2>4, <2>5, <2>6
  <1>12. CASE ReshardStart
    BY <1>0, <1>12 DEF ReshardStart, StartCollection, Startable, managerVars,
                collectionVars, AllExited, Gen
  <1>13. CASE CanStop /\ StopCall
    BY <1>13 DEF StopCall, collectionVars, shardVars, AllExited
  <1>14. CASE StopWait
    BY <1>14 DEF StopWait, managerVars, collectionVars, shardVars, AllExited
  <1>15. CASE StopLock
    BY <1>15 DEF StopLock, collectionVars, shardVars, AllExited
  <1>16. CASE StopClose
    BY <1>16 DEF StopClose, managerVars, shardVars, AllExited
  <1>17. CASE StopDone
    BY <1>17 DEF StopDone, collectionVars, shardVars, AllExited
  <1>18. ASSUME NEW s \in Shard, RunShard(s) PROVE CollectionsOK'
    <2>a. runner[s] \in {"select", "send", "final"}
      BY <1>18 DEF RunShard, Receive, Dequeue, ReceiveClosed, Deadline,
                   StoreRetry, StoreResolve, Answer
    <2>b. stopper # "done"
      <3> SUFFICES ASSUME stopper = "done" PROVE FALSE
        OBVIOUS
      <3>1. s[1] = "cur"
        BY <1>0, <2>a DEF Gen
      <3>2. s[2] < size["cur"]
        <4>1. size["cur"] \in Int /\ s[2] \in Int
          BY <1>0 DEF Gen
        <4>2. ~(s[2] >= size[s[1]])
          BY <2>a
        <4> QED BY <3>1, <4>1, <4>2
      <3> QED BY <2>a, <3>1, <3>2 DEF AllExited
    <2>0. runner[s] \notin {"none", "exited"} /\ stopper # "done"
      BY <2>a, <2>b
    <2>1. CASE Receive(s)
      BY <2>0, <2>1 DEF Receive, Dequeue, TakeEntry, managerVars, threadVars,
                        collectionVars
    <2>2. CASE ReceiveClosed(s)
      BY <2>0, <2>2 DEF ReceiveClosed, managerVars, threadVars, collectionVars
    <2>3. CASE Deadline(s)
      BY <2>0, <2>3 DEF Deadline, managerVars, threadVars, collectionVars
    <2>4. CASE StoreRetry(s)
      BY <2>0, <2>4 DEF StoreRetry, managerVars, threadVars, collectionVars,
                        shardVars
    <2>5. ASSUME NEW ok \in BOOLEAN, StoreResolve(s, ok) PROVE CollectionsOK'
      BY <2>0, <2>5 DEF StoreResolve, Answer, Resume, managerVars, threadVars,
                        collectionVars
    <2> QED BY <1>18, <2>1, <2>2, <2>3, <2>4, <2>5 DEF RunShard
  <1>19. CASE UNCHANGED vars
    BY <1>19 DEF vars, managerVars, threadVars, collectionVars, shardVars,
                 AllExited
  <1>20. CASE AppendPanic
    BY <1>20 DEF AppendPanic, managerVars, threadVars, collectionVars,
                 shardVars, AllExited
  <1> QED BY <1>1, <1>2, <1>3, <1>4, <1>5, <1>6, <1>7, <1>8, <1>9, <1>10,
             <1>11, <1>12, <1>13, <1>14, <1>15, <1>16, <1>17, <1>18, <1>19,
             <1>20
          DEF AnyNext, Internal, AppendStep, StartStep, ReshardStep, StopStep

-----------------------------------------------------------------------------
(* Where samples are. *)

\* A shard without goroutine and with an empty channel holds nothing.
LEMMA IdleShardEmpty ==
  ASSUME Core, NEW s \in Shard, runner[s] = "none", queue[s] = <<>>
  PROVE  Contents(s) = {} /\ pending[s] = {} /\ carry[s] = {}
  BY EmptyQueue DEF Core, ShardsOK, Contents

\* What a shard holds are samples appended, hence with a hash.
LEMMA ContentsType ==
  ASSUME Core, NEW s \in Shard, NEW n \in Contents(s)
  PROVE  /\ n \in Sample /\ n \in 1..appended /\ n \in Int
         /\ hash[n] \in Hashes /\ hash[n] \in Nat
  <1>1. n \in 1..appended
    BY DEF Core, PlacementOK
  <1>2. n \in Sample /\ n \in Int
    BY <1>1, ConstantsAssumption DEF Core, TypeOK, Sample
  <1>3. hash[n] \in Hashes
    BY <1>2 DEF Core, TypeOK
  <1> QED BY <1>1, <1>2, <1>3, ConstantsAssumption

\* All samples of a series that are in the shards are in one shard, also
\* while a reshard replaces the shards.
LEMMA OneShardPerSeries ==
  ASSUME Core, NEW r \in Shard, NEW s \in Shard,
         NEW m \in Contents(r), NEW n \in Contents(s), hash[m] = hash[n]
  PROVE  r = s
  <1>1. r = ShardOf(r[1], hash[m]) /\ s = ShardOf(s[1], hash[n])
    BY DEF Core, PlacementOK
  <1>2. r[1] \in Gen /\ s[1] \in Gen
    BY DEF Shard
  <1>3. ASSUME NEW q \in Shard, Contents(q) # {}, q[1] = "old"
        PROVE  resharder = "drain"
    BY <1>3, IdleShardEmpty DEF Core, CollectionsOK
  <1>4. ASSUME NEW q \in Shard, Contents(q) # {}, q[1] = "cur"
        PROVE  resharder # "drain"
    BY <1>4, IdleShardEmpty DEF Core, CollectionsOK
  <1>5. r[1] = s[1]
    BY <1>2, <1>3, <1>4 DEF Gen
  <1> QED BY <1>1, <1>5

\* A batch holds the oldest unresolved sample of each of its series.
LEMMA BatchIsFront ==
  ASSUME Core, NEW s \in Shard, NEW n \in pending[s],
         NEW m \in 1..appended \ resolved, hash[m] = hash[n]
  PROVE  n <= m
  <1>1. n \in Contents(s) /\ n \in 1..appended
    BY DEF Contents, Core, PlacementOK
  <1>2. CASE m \in Appending
    BY <1>1, <1>2 DEF Appending
  <1>3. ASSUME NEW r \in Shard, m \in Contents(r) PROVE n <= m
    <2>1. r = s
      BY <1>1, <1>3, OneShardPerSeries
    <2>2. CASE m \in pending[s]
      BY <1>1, <2>2 DEF Core, ShardsOK
    <2>3. CASE m \in carry[s] \cup ToSet(queue[s])
      BY <1>1, <2>3 DEF Core, OrderOK
    <2> QED BY <1>3, <2>1, <2>2, <2>3 DEF Contents
  <1> QED BY <1>2, <1>3 DEF Core, NothingLost

-----------------------------------------------------------------------------
(* What the steps that move samples preserve. *)

SamplesOK == /\ ShardsOK /\ OrderOK /\ PlacementOK /\ SentOK /\ NothingLost
             /\ succeeded \cap failed = {}

\* The call of Append takes the next sample in hand.
LEMMA AppendCallSamples ==
  ASSUME Core, AppendCall PROVE SamplesOK'
  <1> USE DEF Core
  <1>1. /\ appended \in 0..NumSamples /\ appended' = appended + 1
        /\ Appending = {} /\ Appending' = {appended + 1}
        /\ resolved' = resolved /\ hash' = hash /\ lastSent' = lastSent
        /\ UNCHANGED <<size, closed, queue, pending, carry, seen, runner>>
    BY DEF AppendCall, Appending, TypeOK, resolved, collectionVars, shardVars,
           storeVars
  <1>2. \A s \in Shard : Contents(s)' = Contents(s)
    BY <1>1 DEF Contents
  <1>3. ShardsOK' /\ OrderOK'
    BY <1>1 DEF ShardsOK, OrderOK, HashesOf
  <1>4. PlacementOK'
    <2> SUFFICES ASSUME NEW s \in Shard, NEW n \in Contents(s)
                 PROVE  /\ s = ShardOf(s[1], hash[n])'
                        /\ n \in 1..appended' /\ n \notin Appending'
                        /\ n \notin resolved'
      BY <1>2 DEF PlacementOK
    <2>1. s = ShardOf(s[1], hash[n]) /\ n \in 1..appended /\ n \notin resolved
      BY DEF PlacementOK
    <2>2. s = ShardOf(s[1], hash[n])'
      BY <1>1, <2>1 DEF ShardOf
    <2> QED BY <1>1, <2>1, <2>2
  <1>5. SentOK'
    <2>1. resolved \subseteq 1..appended /\ \A h \in Hashes : lastSent[h] <= appended
      BY DEF SentOK
    <2>2. \A h \in Hashes : lastSent[h] \in Int
      BY DEF TypeOK
    <2>3. \A h \in Hashes : lastSent[h] <= appended + 1
      BY <1>1, <2>1, <2>2
    <2>4. ASSUME NEW n \in 1..(appended + 1) \ resolved
          PROVE  lastSent[hash[n]] <= n
      <3>1. CASE n \in 1..appended
        BY <2>4, <3>1 DEF SentOK
      <3>2. CASE n = appended + 1
        <4>1. hash[n] \in Hashes
          BY <1>1, <3>2, ConstantsAssumption DEF TypeOK, Sample, AppendCall
        <4> QED BY <2>3, <3>2, <4>1
      <3> QED BY <1>1, <2>4, <3>1, <3>2
    <2> QED BY <1>1, <2>1, <2>3, <2>4 DEF SentOK
  <1>6. NothingLost'
    <2>1. (UNION {Contents(s) : s \in Shard})' = UNION {Contents(s) : s \in Shard}
      BY <1>2
    <2>2. 1..(appended + 1) = 1..appended \cup {appended + 1}
      BY <1>1
    <2> QED BY <1>1, <2>1, <2>2 DEF NothingLost
  <1>7. (succeeded \cap failed = {})'
    BY DEF AppendCall, storeVars
  <1> QED BY <1>3, <1>4, <1>5, <1>6, <1>7 DEF SamplesOK

\* The shard that a sample is sent to exists.
LEMMA SendsToShard ==
  ASSUME Core, AppendSend
  PROVE  ShardOf("cur", hash[appended]) \in Shard
  <1>1. appended \in Sample /\ hash[appended] \in Hashes
    BY ConstantsAssumption DEF AppendSend, Core, TypeOK, Sample
  <1>2. /\ hash[appended] \in Nat /\ size["cur"] \in Nat \ {0}
        /\ size["cur"] <= MaxShards /\ MaxShards \in Nat
    <2>1. size["cur"] \in 0..MaxShards /\ size["cur"] >= 1
      BY DEF Core, TypeOK, Gen
    <2>2. hash[appended] \in Nat
      BY <1>1, ConstantsAssumption
    <2>3. MaxShards \in Nat
      BY ConstantsAssumption
    <2> QED BY <2>1, <2>2, <2>3
  <1>3. hash[appended] % size["cur"] \in 0..(size["cur"] - 1)
    BY <1>2
  <1>4. hash[appended] % size["cur"] \in Index
    BY <1>2, <1>3 DEF Index
  <1> QED BY <1>4 DEF ShardOf, Shard, Gen

\* The channel send puts the sample behind the older ones of its shard.
LEMMA AppendSendSamples ==
  ASSUME Core, AppendSend PROVE SamplesOK'
  <1> USE DEF Core
  <1> DEFINE s0 == ShardOf("cur", hash[appended])
  <1>1. /\ appended \in Sample /\ appended \in Nat /\ hash[appended] \in Hashes
        /\ Appending = {appended} /\ Appending' = {}
    BY ConstantsAssumption DEF AppendSend, TypeOK, Sample, Appending
  <1>2. s0 \in Shard /\ s0[1] = "cur"
    BY SendsToShard DEF ShardOf
  <1> HIDE DEF s0
  <1>3. /\ queue' = [queue EXCEPT ![s0] = Append(@, appended)]
        /\ resolved' = resolved /\ "cur" \notin closed
        /\ UNCHANGED <<hash, appended, size, closed, pending, carry, seen,
                       runner, lastSent, succeeded, failed>>
    BY DEF AppendSend, s0, resolved, collectionVars, storeVars
  <1>4. queue[s0] \in Seq(Sample) /\ Sample \in SUBSET Int
    BY <1>2 DEF TypeOK, Sample
  <1>5. queue'[s0] = Append(queue[s0], appended)
    BY <1>2, <1>3 DEF TypeOK
  <1>6. \A s \in Shard : s # s0 => queue'[s] = queue[s]
    BY <1>3 DEF TypeOK
  <1>7. \A s \in Shard : ToSet(queue'[s]) = IF s = s0
                           THEN ToSet(queue[s]) \cup {appended}
                           ELSE ToSet(queue[s])
    BY <1>1, <1>4, <1>5, <1>6, AppendToQueue
  <1>8. \A s \in Shard : Contents(s)' = IF s = s0
                           THEN Contents(s) \cup {appended} ELSE Contents(s)
    <2> SUFFICES ASSUME NEW s \in Shard
                 PROVE  Contents(s)' = IF s = s0
                           THEN Contents(s) \cup {appended} ELSE Contents(s)
      OBVIOUS
    <2>1. Contents(s)' = pending[s] \cup carry[s] \cup ToSet(queue'[s])
      BY <1>3 DEF Contents
    <2> QED BY <1>7, <2>1 DEF Contents
  <1>9. \A s \in Shard : \A n \in Contents(s) : n \in Int /\ n < appended
    BY <1>1, ContentsType DEF PlacementOK
  <1>10. ShardsOK'
    <2>1. runner[s0] \notin {"final", "exited"}
      BY <1>2, <1>3 DEF ShardsOK
    <2> QED BY <1>3, <1>6, <2>1 DEF ShardsOK, HashesOf
  <1>11. OrderOK'
    <2>1. \A s \in Shard : Increasing(queue'[s])
      <3>1. Increasing(queue[s0]) /\ \A n \in ToSet(queue[s0]) : n < appended
        BY <1>2, <1>9 DEF OrderOK, Contents
      <3>2. Increasing(queue'[s0])
        BY <1>1, <1>4, <1>5, <3>1, AppendToQueue
      <3> QED BY <1>6, <3>2 DEF OrderOK
    <2>2. ASSUME NEW s \in Shard, NEW n \in pending[s] \cup carry[s],
                 NEW m \in ToSet(queue'[s])
          PROVE  n < m
      BY <1>7, <1>9 DEF OrderOK, Contents
    <2>3. \A s \in Shard : \A n \in pending[s], m \in carry[s] : n < m
      BY DEF OrderOK
    <2> QED BY <1>3, <2>1, <2>2, <2>3 DEF OrderOK
  <1>12. PlacementOK'
    <2> SUFFICES ASSUME NEW s \in Shard, NEW n \in Contents(s)'
                 PROVE  /\ s = ShardOf(s[1], hash[n])'
                        /\ n \in 1..appended' /\ n \notin Appending'
                        /\ n \notin resolved'
      BY DEF PlacementOK
    <2>1. CASE n \in Contents(s)
      <3>1. s = ShardOf(s[1], hash[n]) /\ n \in 1..appended /\ n \notin resolved
        BY <2>1 DEF PlacementOK
      <3>2. s = ShardOf(s[1], hash[n])'
        BY <1>3, <3>1 DEF ShardOf
      <3> QED BY <1>1, <1>3, <3>1, <3>2
    <2>2. CASE s = s0 /\ n = appended
      <3>1. s = ShardOf(s[1], hash[n])'
        BY <1>2, <1>3, <2>2 DEF ShardOf, s0
      <3>2. n \notin resolved
        BY <1>1, <2>2 DEF SentOK
      <3> QED BY <1>1, <1>3, <2>2, <3>1, <3>2 DEF Sample
    <2> QED BY <1>8, <2>1, <2>2
  <1>13. SentOK'
    BY <1>1, <1>3 DEF SentOK
  <1>14. NothingLost'
    <2> SUFFICES ASSUME NEW n \in 1..appended
                 PROVE  n \in resolved \/ \E s \in Shard : n \in Contents(s)'
      BY <1>1, <1>3 DEF NothingLost
    <2>1. n = appended \/ n \in resolved \/ \E s \in Shard : n \in Contents(s)
      BY <1>1 DEF NothingLost
    <2> QED BY <1>2, <1>8, <2>1
  <1> QED BY <1>3, <1>10, <1>11, <1>12, <1>13, <1>14 DEF SamplesOK

\* start() finds the shards it starts with an empty batch.
LEMMA StartSamples ==
  ASSUME Core, StartCollection,
         \A s \in Shard : Startable(s) => runner[s] = "none",
         UNCHANGED <<hash, appended, appender, size, closed, lastSent,
                     succeeded, failed>>
  PROVE  SamplesOK'
  <1> USE DEF Core
  <1>1. UNCHANGED <<queue, pending, carry>> /\ resolved' = resolved
        /\ Appending' = Appending
    BY DEF StartCollection, resolved, Appending
  <1>2. \A s \in Shard : Contents(s)' = Contents(s)
    BY <1>1 DEF Contents
  <1>3. ShardsOK'
    <2> SUFFICES ASSUME NEW s \in Shard
                 PROVE  /\ seen'[s] = HashesOf(pending[s])
                        /\ carry[s] # {} => runner'[s] = "send"
                        /\ runner'[s] \in {"none", "exited"} => pending[s] = {}
                        /\ runner'[s] \in {"send", "final"} => pending[s] # {}
                        /\ runner'[s] \in {"final", "exited"} =>
                             queue[s] = <<>> /\ s[1] \in closed
      BY <1>1 DEF ShardsOK, HashesOf
    <2>1. CASE Startable(s)
      <3>1. runner[s] = "none" /\ pending[s] = {} /\ carry[s] = {}
        BY <2>1 DEF ShardsOK
      <3>2. runner'[s] = "select" /\ seen'[s] = {}
        BY <2>1 DEF StartCollection
      <3> QED BY <3>1, <3>2 DEF HashesOf
    <2>2. CASE ~Startable(s)
      <3>1. runner'[s] = runner[s] /\ seen'[s] = seen[s]
        BY <2>2 DEF StartCollection
      <3> QED BY <3>1 DEF ShardsOK
    <2> QED BY <2>1, <2>2
  <1>4. OrderOK'
    BY <1>1 DEF OrderOK
  <1>5. PlacementOK'
    BY <1>1, <1>2 DEF PlacementOK, ShardOf
  <1>6. SentOK'
    BY <1>1 DEF SentOK
  <1>7. NothingLost'
    <2>1. (UNION {Contents(s) : s \in Shard})' = UNION {Contents(s) : s \in Shard}
      BY <1>2
    <2> QED BY <1>1, <2>1 DEF NothingLost
  <1> QED BY <1>3, <1>4, <1>5, <1>6, <1>7 DEF SamplesOK

\* The swap moves the shards and all they hold to the old collection.
LEMMA ReshardSwapSamples ==
  ASSUME Core, ReshardSwap PROVE SamplesOK'
  <1> USE DEF Core
  <1> DEFINE c(s) == <<"cur", s[2]>>
             o(s) == <<"old", s[2]>>
  <1>1. \A s \in Shard : /\ c(s) \in Shard /\ c(s)[1] = "cur" /\ c(s)[2] = s[2]
                         /\ o(s) \in Shard /\ o(s)[1] = "old" /\ o(s)[2] = s[2]
                         /\ s[1] \in Gen /\ s = <<s[1], s[2]>>
    BY DEF Shard, Gen
  <1>2. \A s \in Shard : s[1] = "old" => c(o(s)) = c(s) /\ o(c(s)) = s
    BY <1>1
  <1>3. \A s \in Shard : s[1] = "cur" => c(o(s)) = s
    BY <1>1
  <1> HIDE DEF c, o
  <1>4. /\ UNCHANGED <<hash, appended, appender, lastSent, succeeded, failed>>
        /\ resolved' = resolved /\ Appending' = Appending
        /\ closed' = {"old"} /\ size'["old"] = size["cur"]
        /\ "cur" \notin closed
    BY DEF ReshardSwap, appendVars, storeVars, resolved, Appending, Gen,
           CollectionsOK, LocksOK
  <1>5. \A s \in Shard : s[1] = "old" =>
          /\ queue'[s] = queue[c(s)] /\ pending'[s] = pending[c(s)]
          /\ carry'[s] = carry[c(s)] /\ seen'[s] = seen[c(s)]
          /\ runner'[s] = runner[c(s)]
    BY DEF ReshardSwap, c
  <1>6. \A s \in Shard : s[1] = "cur" =>
          /\ queue'[s] = <<>> /\ pending'[s] = {}
          /\ carry'[s] = {} /\ seen'[s] = {} /\ runner'[s] = "none"
    BY DEF ReshardSwap
  <1>7. \A s \in Shard : s[1] = "old" => Contents(s)' = Contents(c(s))
    BY <1>5 DEF Contents
  <1>8. \A s \in Shard : s[1] = "cur" => Contents(s)' = {}
    BY <1>6, EmptyQueue DEF Contents
  <1>9. \A s \in Shard : s[1] = "old" => Contents(s) = {}
    <2>1. resharder # "drain"
      BY DEF ReshardSwap
    <2> QED BY <2>1, IdleShardEmpty DEF CollectionsOK
  <1>10. ShardsOK'
    <2> SUFFICES ASSUME NEW s \in Shard
                 PROVE  /\ seen'[s] = HashesOf(pending'[s])
                        /\ \A m, n \in pending'[s] : hash[m] = hash[n] => m = n
                        /\ \A m, n \in carry'[s] : m = n
                        /\ carry'[s] # {} => runner'[s] = "send"
                        /\ runner'[s] \in {"none", "exited"} => pending'[s] = {}
                        /\ runner'[s] \in {"send", "final"} => pending'[s] # {}
                        /\ runner'[s] \in {"final", "exited"} =>
                             queue'[s] = <<>> /\ s[1] \in closed'
      BY <1>4 DEF ShardsOK, HashesOf
    <2>1. CASE s[1] = "old"
      BY <1>1, <1>4, <1>5, <2>1 DEF ShardsOK
    <2>2. CASE s[1] = "cur"
      BY <1>6, <2>2 DEF HashesOf
    <2> QED BY <1>1, <2>1, <2>2 DEF Gen
  <1>11. OrderOK'
    <2> SUFFICES ASSUME NEW s \in Shard
                 PROVE  /\ Increasing(queue'[s])
                        /\ \A n \in pending'[s], m \in carry'[s] : n < m
                        /\ \A n \in pending'[s] \cup carry'[s],
                              m \in ToSet(queue'[s]) : n < m
      BY DEF OrderOK
    <2>1. CASE s[1] = "old"
      BY <1>1, <1>5, <2>1 DEF OrderOK
    <2>2. CASE s[1] = "cur"
      BY <1>6, <2>2, EmptyQueue
    <2> QED BY <1>1, <2>1, <2>2 DEF Gen
  <1>12. PlacementOK'
    <2> SUFFICES ASSUME NEW s \in Shard, NEW n \in Contents(s)'
                 PROVE  /\ s = ShardOf(s[1], hash[n])'
                        /\ n \in 1..appended' /\ n \notin Appending'
                        /\ n \notin resolved'
      BY DEF PlacementOK
    <2>1. s[1] = "old" /\ n \in Contents(c(s)) /\ c(s) \in Shard
      BY <1>1, <1>7, <1>8 DEF Gen
    <2>2. c(s) = ShardOf("cur", hash[n])
      BY <1>1, <2>1 DEF PlacementOK
    <2>3. s[2] = hash[n] % size["cur"]
      BY <1>1, <2>2 DEF ShardOf
    <2>4. s = ShardOf(s[1], hash[n])'
      BY <1>1, <1>4, <2>1, <2>3 DEF ShardOf
    <2> QED BY <1>4, <2>1, <2>4 DEF PlacementOK
  <1>13. SentOK'
    BY <1>4 DEF SentOK
  <1>14. NothingLost'
    <2> SUFFICES ASSUME NEW n \in 1..appended, n \notin Appending,
                        n \notin resolved
                 PROVE  \E s \in Shard : n \in Contents(s)'
      BY <1>4 DEF NothingLost
    <2>1. PICK r \in Shard : n \in Contents(r)
      BY DEF NothingLost
    <2>2. r[1] = "cur"
      BY <1>1, <1>9, <2>1 DEF Gen
    <2>3. Contents(o(r))' = Contents(r)
      BY <1>1, <1>3, <1>7, <2>2
    <2> QED BY <1>1, <2>1, <2>3
  <1> QED BY <1>4, <1>10, <1>11, <1>12, <1>13, <1>14 DEF SamplesOK

\* When the lock is released the old collection is empty.
LEMMA ReshardUnlockSamples ==
  ASSUME Core, ReshardUnlock, CollectionsOK' PROVE SamplesOK'
  <1> USE DEF Core
  <1>1. /\ UNCHANGED <<hash, appended, appender, lastSent, succeeded, failed,
                       queue, pending, carry, seen>>
        /\ resolved' = resolved /\ Appending' = Appending
        /\ resharder = "drain" /\ resharder' = "start"
        /\ size'["cur"] = size["cur"]
    BY DEF ReshardUnlock, appendVars, storeVars, resolved, Appending, TypeOK, Gen
  <1>2. \A s \in Shard : s[1] \in Gen /\ Contents(s)' = Contents(s)
    BY <1>1 DEF Contents, Shard
  <1>3. \A s \in Shard : runner'[s] = "none"
    BY <1>1, <1>2 DEF CollectionsOK, Gen
  <1>4. \A s \in Shard : pending[s] = {} /\ carry[s] = {}
    <2> SUFFICES ASSUME NEW s \in Shard PROVE pending[s] = {} /\ carry[s] = {}
      OBVIOUS
    <2>1. CASE s[1] = "cur"
      BY <1>1, <2>1 DEF CollectionsOK, ShardsOK
    <2>2. CASE s[1] = "old"
      <3>1. s[2] \in Int /\ size["old"] \in Int
        BY DEF Shard, Index, TypeOK, Gen
      <3>2. CASE s[2] < size["old"]
        BY <2>2, <3>2 DEF ReshardUnlock, AllExited, ShardsOK
      <3>3. CASE s[2] >= size["old"]
        BY <2>2, <3>3 DEF CollectionsOK, ShardsOK
      <3> QED BY <3>1, <3>2, <3>3
    <2> QED BY <1>2, <2>1, <2>2 DEF Gen
  <1>5. \A s \in Shard : Contents(s) = {}
    <2>1. \A s \in Shard : queue[s] = <<>>
      BY <1>1, <1>2 DEF CollectionsOK, Gen
    <2> QED BY <1>4, <2>1, EmptyQueue DEF Contents
  <1>6. ShardsOK'
    BY <1>1, <1>3, <1>4 DEF ShardsOK, HashesOf
  <1>7. OrderOK' /\ PlacementOK'
    BY <1>1, <1>2, <1>5 DEF OrderOK, PlacementOK
  <1>8. SentOK' /\ NothingLost'
    BY <1>1, <1>2, <1>5 DEF SentOK, NothingLost
  <1> QED BY <1>1, <1>6, <1>7, <1>8 DEF SamplesOK

\* A receive moves the oldest queued sample of the shard to the batch.
LEMMA ReceiveSamples ==
  ASSUME Core, NEW s0 \in Shard, Receive(s0) PROVE SamplesOK'
  <1> USE DEF Core
  <1> DEFINE e == Head(queue[s0])
             dup == hash[e] \in seen[s0]
  <1>1. /\ runner[s0] = "select" /\ queue[s0] # <<>>
        /\ queue[s0] \in Seq(Sample) /\ Sample \in SUBSET Int
    BY DEF Receive, Dequeue, TypeOK, Sample
  <1>2. /\ e \in Sample /\ Tail(queue[s0]) \in Seq(Sample)
        /\ ToSet(queue[s0]) = {e} \cup ToSet(Tail(queue[s0]))
        /\ Increasing(Tail(queue[s0]))
        /\ \A n \in ToSet(Tail(queue[s0])) : e < n
    BY <1>1, TailOfQueue DEF OrderOK
  <1>3. carry[s0] = {} /\ seen[s0] = HashesOf(pending[s0])
    BY <1>1 DEF ShardsOK
  <1> HIDE DEF e, dup
  <1>4. /\ UNCHANGED <<hash, appended, appender, size, closed, lastSent,
                       succeeded, failed>>
        /\ resolved' = resolved /\ Appending' = Appending
    BY DEF Receive, Dequeue, resolved, Appending, collectionVars, storeVars
  <1>5. /\ queue'[s0] = Tail(queue[s0])
        /\ pending'[s0] = IF dup THEN pending[s0] ELSE pending[s0] \cup {e}
        /\ carry'[s0] = IF dup THEN {e} ELSE {}
        /\ seen'[s0] = seen[s0] \cup {hash[e]}
        /\ runner'[s0] \in {"select", "send"}
        /\ dup => runner'[s0] = "send"
    BY <1>1 DEF Receive, Dequeue, TakeEntry, TypeOK, e, dup
  <1>6. \A s \in Shard : s # s0 =>
          /\ queue'[s] = queue[s] /\ pending'[s] = pending[s]
          /\ carry'[s] = carry[s] /\ seen'[s] = seen[s]
          /\ runner'[s] = runner[s]
    BY DEF Receive, Dequeue, TakeEntry, TypeOK
  <1>7. \A s \in Shard : Contents(s)' = Contents(s)
    <2>1. Contents(s0)' = Contents(s0)
      BY <1>2, <1>3, <1>5 DEF Contents
    <2> QED BY <1>6, <2>1 DEF Contents
  <1>8. \A n \in pending[s0] : n < e
    BY <1>2 DEF OrderOK
  <1>9. ShardsOK'
    <2> SUFFICES ASSUME NEW s \in Shard
                 PROVE  /\ seen'[s] = HashesOf(pending'[s])
                        /\ \A m, n \in pending'[s] : hash[m] = hash[n] => m = n
                        /\ \A m, n \in carry'[s] : m = n
                        /\ carry'[s] # {} => runner'[s] = "send"
                        /\ runner'[s] \in {"none", "exited"} => pending'[s] = {}
                        /\ runner'[s] \in {"send", "final"} => pending'[s] # {}
                        /\ runner'[s] \in {"final", "exited"} =>
                             queue'[s] = <<>> /\ s[1] \in closed
      BY <1>4 DEF ShardsOK, HashesOf
    <2>1. CASE s # s0
      BY <1>6, <2>1 DEF ShardsOK
    <2>2. CASE s = s0 /\ dup
      <3>1. pending[s0] # {} /\ hash[e] \in seen[s0]
        BY <1>3, <2>2 DEF dup, HashesOf
      <3>2. seen'[s0] = HashesOf(pending'[s0])
        BY <1>3, <1>5, <2>2, <3>1
      <3> QED BY <1>5, <2>2, <3>1, <3>2 DEF ShardsOK
    <2>3. CASE s = s0 /\ ~dup
      <3>1. hash[e] \notin HashesOf(pending[s0])
        BY <1>3, <2>3 DEF dup
      <3>2. seen'[s0] = HashesOf(pending'[s0])
        BY <1>3, <1>5, <2>3 DEF HashesOf
      <3>3. \A m, n \in pending'[s0] : hash[m] = hash[n] => m = n
        BY <1>5, <2>3, <3>1 DEF HashesOf, ShardsOK
      <3> QED BY <1>5, <2>3, <3>2, <3>3
    <2> QED BY <2>1, <2>2, <2>3
  <1>10. OrderOK'
    <2> SUFFICES ASSUME NEW s \in Shard
                 PROVE  /\ Increasing(queue'[s])
                        /\ \A n \in pending'[s], m \in carry'[s] : n < m
                        /\ \A n \in pending'[s] \cup carry'[s],
                              m \in ToSet(queue'[s]) : n < m
      BY DEF OrderOK
    <2>1. CASE s # s0
      BY <1>6, <2>1 DEF OrderOK
    <2>2. CASE s = s0
      <3>1. \A n \in pending[s0] \cup {e}, m \in ToSet(Tail(queue[s0])) : n < m
        BY <1>2 DEF OrderOK
      <3>2. pending'[s0] \cup carry'[s0] = pending[s0] \cup {e}
        BY <1>5
      <3>3. \A n \in pending'[s0], m \in carry'[s0] : n < m
        BY <1>5, <1>8
      <3> QED BY <1>2, <1>5, <2>2, <3>1, <3>2, <3>3
    <2> QED BY <2>1, <2>2
  <1>11. PlacementOK'
    BY <1>4, <1>7 DEF PlacementOK, ShardOf
  <1>12. SentOK'
    BY <1>4 DEF SentOK
  <1>13. NothingLost'
    <2>1. (UNION {Contents(s) : s \in Shard})' = UNION {Contents(s) : s \in Shard}
      BY <1>7
    <2> QED BY <1>4, <2>1 DEF NothingLost
  <1> QED BY <1>4, <1>9, <1>10, <1>11, <1>12, <1>13 DEF SamplesOK

\* Steps of a shard that only change its place, and the closing of queues.
LEMMA RunnerSamples ==
  ASSUME Core,
         UNCHANGED <<hash, appended, appender, size, queue, pending, carry,
                     seen, lastSent, succeeded, failed>>,
         closed \subseteq closed',
         \A s \in Shard : \/ runner'[s] = runner[s]
                          \/ /\ runner[s] = "select" /\ pending[s] # {}
                             /\ \/ runner'[s] = "send"
                                \/ /\ runner'[s] = "final"
                                   /\ queue[s] = <<>> /\ s[1] \in closed
                          \/ /\ runner[s] = "select" /\ pending[s] = {}
                             /\ runner'[s] = "exited"
                             /\ queue[s] = <<>> /\ s[1] \in closed
  PROVE  SamplesOK'
  <1> USE DEF Core
  <1>1. resolved' = resolved /\ Appending' = Appending
    BY DEF resolved, Appending
  <1>2. \A s \in Shard : Contents(s)' = Contents(s)
    BY DEF Contents
  <1>3. ShardsOK'
    BY DEF ShardsOK, HashesOf
  <1>4. OrderOK' /\ SentOK'
    BY <1>1 DEF OrderOK, SentOK
  <1>5. PlacementOK'
    BY <1>1, <1>2 DEF PlacementOK, ShardOf
  <1>6. NothingLost'
    <2>1. (UNION {Contents(s) : s \in Shard})' = UNION {Contents(s) : s \in Shard}
      BY <1>2
    <2> QED BY <1>1, <2>1 DEF NothingLost
  <1> QED BY <1>3, <1>4, <1>5, <1>6 DEF SamplesOK

\* A Store call of a batch: what the storage has seen stays behind what it is
\* still to see, and only moves forward.
LEMMA StoreCall ==
  ASSUME Core, NEW s \in Shard, lastSent' = Sent(pending[s])
  PROVE  /\ \A h \in Hashes : lastSent[h] <= lastSent'[h] /\ lastSent'[h] <= appended
         /\ \A n \in 1..appended \ resolved : lastSent'[hash[n]] <= n
  <1> USE DEF Core
  <1>1. pending[s] \in SUBSET Sample /\ appended \in Int
    BY DEF TypeOK
  <1>2. \A h \in Hashes : IF \E n \in pending[s] : hash[n] = h
                          THEN lastSent'[h] \in pending[s] /\ hash[lastSent'[h]] = h
                          ELSE lastSent'[h] = lastSent[h]
    BY <1>1, SentType
  <1>3. \A n \in pending[s] : n \in 1..appended \ resolved
    BY DEF PlacementOK, Contents
  <1>4. ASSUME NEW h \in Hashes
        PROVE  lastSent[h] <= lastSent'[h] /\ lastSent'[h] <= appended
    <2>1. CASE \E n \in pending[s] : hash[n] = h
      <3>1. lastSent'[h] \in 1..appended \ resolved /\ hash[lastSent'[h]] = h
        BY <1>2, <1>3, <2>1
      <3> QED BY <1>1, <3>1 DEF SentOK
    <2>2. CASE ~ \E n \in pending[s] : hash[n] = h
      <3>1. lastSent'[h] = lastSent[h]
        BY <1>2, <2>2
      <3>2. lastSent[h] \in Int
        BY DEF TypeOK
      <3> QED BY <3>1, <3>2 DEF SentOK
    <2> QED BY <2>1, <2>2
  <1>5. ASSUME NEW n \in 1..appended \ resolved PROVE lastSent'[hash[n]] <= n
    <2>1. hash[n] \in Hashes
      BY ConstantsAssumption DEF TypeOK, Sample
    <2>2. CASE \E k \in pending[s] : hash[k] = hash[n]
      <3>1. lastSent'[hash[n]] \in pending[s] /\ hash[lastSent'[hash[n]]] = hash[n]
        BY <1>2, <2>1, <2>2
      <3> QED BY <3>1, BatchIsFront
    <2>3. CASE ~ \E k \in pending[s] : hash[k] = hash[n]
      <3>1. lastSent'[hash[n]] = lastSent[hash[n]]
        BY <1>2, <2>1, <2>3
      <3> QED BY <3>1 DEF SentOK
    <2> QED BY <2>2, <2>3
  <1> QED BY <1>4, <1>5

\* A retry moves nothing.
LEMMA StoreRetrySamples ==
  ASSUME Core, NEW s0 \in Shard, StoreRetry(s0) PROVE SamplesOK'
  <1> USE DEF Core
  <1>1. /\ UNCHANGED <<hash, appended, appender, size, closed, queue, pending,
                       carry, seen, runner, succeeded, failed>>
        /\ lastSent' = Sent(pending[s0])
        /\ resolved' = resolved /\ Appending' = Appending
    BY DEF StoreRetry, appendVars, collectionVars, shardVars, resolved, Appending
  <1>2. \A s \in Shard : Contents(s)' = Contents(s)
    BY <1>1 DEF Contents
  <1>3. ShardsOK' /\ OrderOK'
    BY <1>1 DEF ShardsOK, OrderOK, HashesOf
  <1>4. PlacementOK'
    BY <1>1, <1>2 DEF PlacementOK, ShardOf
  <1>5. SentOK'
    BY <1>1, StoreCall DEF SentOK
  <1>6. NothingLost'
    <2>1. (UNION {Contents(s) : s \in Shard})' = UNION {Contents(s) : s \in Shard}
      BY <1>2
    <2> QED BY <1>1, <2>1 DEF NothingLost
  <1> QED BY <1>1, <1>3, <1>4, <1>5, <1>6 DEF SamplesOK

\* A resolved batch leaves its shard, and no older sample stays behind.
LEMMA StoreResolveSamples ==
  ASSUME Core, NEW s0 \in Shard, NEW ok \in BOOLEAN, StoreResolve(s0, ok)
  PROVE  SamplesOK'
  <1> USE DEF Core
  <1>1. /\ UNCHANGED <<hash, appended, appender, size, closed, queue>>
        /\ lastSent' = Sent(pending[s0]) /\ Appending' = Appending
        /\ runner[s0] \in {"send", "final"}
    BY DEF StoreResolve, Answer, appendVars, collectionVars, Appending
  <1>2. /\ resolved' = resolved \cup pending[s0]
        /\ \/ succeeded' = succeeded \cup pending[s0] /\ failed' = failed
           \/ succeeded' = succeeded /\ failed' = failed \cup pending[s0]
    BY DEF StoreResolve, Answer, resolved
  <1>3. /\ pending'[s0] = carry[s0] /\ carry'[s0] = {}
        /\ seen'[s0] = HashesOf(carry[s0])
        /\ runner'[s0] = IF runner[s0] = "final" THEN "exited" ELSE "select"
    BY DEF StoreResolve, Resume, TypeOK
  <1>4. \A s \in Shard : s # s0 =>
          /\ pending'[s] = pending[s] /\ carry'[s] = carry[s]
          /\ seen'[s] = seen[s] /\ runner'[s] = runner[s]
    BY DEF StoreResolve, Resume, TypeOK
  <1>5. \A n \in pending[s0] : /\ n \in Contents(s0) /\ n \in 1..appended
                               /\ n \notin resolved /\ n \notin Appending
                               /\ n \in Int
    BY DEF Contents, PlacementOK
  <1>6. Contents(s0)' = carry[s0] \cup ToSet(queue[s0])
    BY <1>1, <1>3 DEF Contents
  <1>7. \A s \in Shard : s # s0 => Contents(s)' = Contents(s)
    BY <1>1, <1>4 DEF Contents
  <1>8. \A n \in carry[s0] \cup ToSet(queue[s0]) :
          n \notin pending[s0] /\ n \in Contents(s0)
    BY <1>5 DEF OrderOK, Contents
  <1>9. \A s \in Shard : s # s0 => \A n \in Contents(s) : n \notin pending[s0]
    BY <1>5, OneShardPerSeries
  <1>10. ShardsOK'
    <2> SUFFICES ASSUME NEW s \in Shard
                 PROVE  /\ seen'[s] = HashesOf(pending'[s])
                        /\ \A m, n \in pending'[s] : hash[m] = hash[n] => m = n
                        /\ \A m, n \in carry'[s] : m = n
                        /\ carry'[s] # {} => runner'[s] = "send"
                        /\ runner'[s] \in {"none", "exited"} => pending'[s] = {}
                        /\ runner'[s] \in {"send", "final"} => pending'[s] # {}
                        /\ runner'[s] \in {"final", "exited"} =>
                             queue'[s] = <<>> /\ s[1] \in closed'
      BY <1>1 DEF ShardsOK, HashesOf
    <2>1. CASE s # s0
      BY <1>1, <1>4, <2>1 DEF ShardsOK
    <2>2. CASE s = s0
      BY <1>1, <1>3, <2>2 DEF ShardsOK
    <2> QED BY <2>1, <2>2
  <1>11. OrderOK'
    <2> SUFFICES ASSUME NEW s \in Shard
                 PROVE  /\ Increasing(queue'[s])
                        /\ \A n \in pending'[s], m \in carry'[s] : n < m
                        /\ \A n \in pending'[s] \cup carry'[s],
                              m \in ToSet(queue'[s]) : n < m
      BY DEF OrderOK
    <2>1. CASE s # s0
      BY <1>1, <1>4, <2>1 DEF OrderOK
    <2>2. CASE s = s0
      BY <1>1, <1>3, <2>2 DEF OrderOK
    <2> QED BY <2>1, <2>2
  <1>12. PlacementOK'
    <2> SUFFICES ASSUME NEW s \in Shard, NEW n \in Contents(s)'
                 PROVE  /\ s = ShardOf(s[1], hash[n])'
                        /\ n \in 1..appended' /\ n \notin Appending'
                        /\ n \notin resolved'
      BY DEF PlacementOK
    <2>1. n \in Contents(s) /\ n \notin pending[s0]
      BY <1>6, <1>7, <1>8, <1>9
    <2>2. s = ShardOf(s[1], hash[n])'
      BY <1>1, <2>1 DEF PlacementOK, ShardOf
    <2> QED BY <1>1, <1>2, <2>1, <2>2 DEF PlacementOK
  <1>13. SentOK'
    <2>1. resolved' \subseteq 1..appended /\ resolved' \cap Appending = {}
      BY <1>2, <1>5 DEF SentOK
    <2>2. /\ \A h \in Hashes : lastSent'[h] <= appended
          /\ \A n \in 1..appended \ resolved : lastSent'[hash[n]] <= n
      BY <1>1, StoreCall
    <2> QED BY <1>1, <1>2, <2>1, <2>2 DEF SentOK
  <1>14. NothingLost'
    <2> SUFFICES ASSUME NEW n \in 1..appended, n \notin Appending,
                        n \notin resolved'
                 PROVE  \E s \in Shard : n \in Contents(s)'
      BY <1>1 DEF NothingLost
    <2>1. n \notin resolved /\ n \notin pending[s0]
      BY <1>2
    <2>2. PICK r \in Shard : n \in Contents(r)
      BY <2>1 DEF NothingLost
    <2>3. CASE r = s0
      <3>1. n \in Contents(s0)'
        BY <1>6, <2>1, <2>2, <2>3 DEF Contents
      <3> QED BY <3>1
    <2>4. CASE r # s0
      BY <1>7, <2>2, <2>4
    <2> QED BY <2>3, <2>4
  <1>15. (succeeded \cap failed = {})'
    BY <1>2, <1>5 DEF resolved
  <1> QED BY <1>10, <1>11, <1>12, <1>13, <1>14, <1>15 DEF SamplesOK

\* Every step preserves what is said of the samples.
LEMMA SamplesNext == Core /\ AnyNext => SamplesOK'
  <1> SUFFICES ASSUME Core, AnyNext PROVE SamplesOK'
    OBVIOUS
  <1>1. CASE CanAppend /\ AppendCall
    BY <1>1, AppendCallSamples
  <1>2. CASE AppendSend
    BY <1>2, AppendSendSamples
  <1>3. CASE StartShards
    <2>1. \A s \in Shard : runner[s] = "none"
      BY <1>3 DEF StartShards, Core, LocksOK, CollectionsOK
    <2> QED BY <1>3, <2>1, StartSamples DEF StartShards, appendVars,
               collectionVars, storeVars
  <1>4. CASE ReshardStart
    <2>1. \A s \in Shard : Startable(s) => runner[s] = "none"
      BY <1>4 DEF ReshardStart, Core, CollectionsOK, Startable
    <2> QED BY <1>4, <2>1, StartSamples DEF ReshardStart, appendVars,
               collectionVars, storeVars
  <1>5. CASE ReshardSwap
    BY <1>5, ReshardSwapSamples
  <1>6. CASE ReshardUnlock
    BY <1>6, CollectionsNext, ReshardUnlockSamples
  <1>7. CASE StopClose
    BY <1>7, RunnerSamples DEF StopClose, appendVars, shardVars, storeVars
  <1>8. ASSUME NEW s \in Shard, RunShard(s) PROVE SamplesOK'
    <2>1. CASE Receive(s)
      BY <2>1, ReceiveSamples
    <2>2. CASE ReceiveClosed(s)
      BY <2>2, RunnerSamples DEF ReceiveClosed, appendVars, collectionVars,
                                 storeVars, Core, TypeOK
    <2>3. CASE Deadline(s)
      BY <2>3, RunnerSamples DEF Deadline, appendVars, collectionVars,
                                 storeVars, Core, TypeOK
    <2>4. CASE StoreRetry(s)
      BY <2>4, StoreRetrySamples
    <2>5. ASSUME NEW ok \in BOOLEAN, StoreResolve(s, ok) PROVE SamplesOK'
      BY <2>5, StoreResolveSamples
    <2> QED BY <1>8, <2>1, <2>2, <2>3, <2>4, <2>5 DEF RunShard
  <1>9. CASE AppendRLock
    BY <1>9, Frame DEF AppendRLock, Appending, storeVars, SamplesOK
  <1>10. CASE StartLoops \/ StartLock \/ UpdateStep
    BY <1>10, Frame DEF StartLoops, StartLock, UpdateStep, Appending,
         CalculateDesiredShards, UpdateShardsLoopExit, appendVars, storeVars,
         SamplesOK
  <1>11. CASE ReshardLoopExit \/ ReshardLock
    BY <1>11, Frame DEF ReshardLoopExit, ReshardLock, Appending, appendVars,
         storeVars, SamplesOK
  <1>12. CASE StopCall \/ StopWait \/ StopLock \/ StopDone
    BY <1>12, Frame DEF StopCall, StopWait, StopLock, StopDone, Appending,
         appendVars, storeVars, SamplesOK
  <1>13. CASE UNCHANGED vars
    BY <1>13, Frame DEF vars, Appending, appendVars, storeVars, SamplesOK
  <1>14. CASE AppendPanic
    BY <1>14, Frame DEF AppendPanic, Appending, storeVars, SamplesOK
  <1> QED BY <1>1, <1>2, <1>3, <1>4, <1>5, <1>6, <1>7, <1>8, <1>9, <1>10,
             <1>11, <1>12, <1>13, <1>14
          DEF AnyNext, Internal, AppendStep, StartStep, ReshardStep, StopStep

-----------------------------------------------------------------------------
(* The size of the batches. *)

\* A batch is a finite set.
LEMMA BatchFinite ==
  ASSUME TypeOK, NEW s \in Shard
  PROVE  IsFiniteSet(pending[s]) /\ Cardinality(pending[s]) \in Nat
  <1>1. IsFiniteSet(Sample)
    BY FS_Interval, ConstantsAssumption DEF Sample
  <1>2. pending[s] \in SUBSET Sample
    BY DEF TypeOK
  <1>3. IsFiniteSet(pending[s])
    BY <1>1, <1>2, FS_Subset
  <1> QED BY <1>3, FS_CardinalityType

\* Every step keeps the batches within MaxSamplesPerSend.
LEMMA SizesNext == Core /\ AnyNext => SizesOK'
  <1> SUFFICES ASSUME Core, AnyNext PROVE SizesOK'
    OBVIOUS
  <1> USE DEF Core
  <1>1. MaxSamplesPerSend \in Nat \ {0} /\ Cardinality({}) = 0
    BY ConstantsAssumption, FS_EmptySet
  <1>2. ASSUME StartCollection,
               \A s \in Shard : Startable(s) => runner[s] = "none"
        PROVE  SizesOK'
    <2>1. \A s \in Shard : /\ pending'[s] = pending[s] /\ carry'[s] = carry[s]
                           /\ \/ runner'[s] = runner[s]
                              \/ runner'[s] = "select" /\ runner[s] = "none"
      BY <1>2 DEF StartCollection
    <2> QED BY <2>1 DEF SizesOK
  <1>3. CASE StartShards
    <2>1. \A s \in Shard : runner[s] = "none"
      BY <1>3 DEF StartShards, LocksOK, CollectionsOK
    <2> QED BY <1>2, <1>3, <2>1 DEF StartShards
  <1>4. CASE ReshardStart
    <2>1. \A s \in Shard : Startable(s) => runner[s] = "none"
      BY <1>4 DEF ReshardStart, CollectionsOK, Startable
    <2> QED BY <1>2, <1>4, <2>1 DEF ReshardStart
  <1>5. CASE ReshardSwap
    <2> SUFFICES ASSUME NEW s \in Shard
                 PROVE  /\ runner'[s] \in {"none", "select"} =>
                             Cardinality(pending'[s]) < MaxSamplesPerSend
                        /\ runner'[s] \in {"send", "final"} =>
                             Cardinality(pending'[s]) <= MaxSamplesPerSend
                        /\ carry'[s] # {} => MaxSamplesPerSend >= 2
      BY DEF SizesOK
    <2>1. CASE s[1] = "old"
      <3> DEFINE r == <<"cur", s[2]>>
      <3>1. r \in Shard
        BY DEF Shard, Gen
      <3>2. /\ pending'[s] = pending[r] /\ carry'[s] = carry[r]
            /\ runner'[s] = runner[r]
        BY <1>5, <2>1 DEF ReshardSwap
      <3> QED BY <3>1, <3>2 DEF SizesOK
    <2>2. CASE s[1] # "old"
      <3>1. pending'[s] = {} /\ carry'[s] = {} /\ runner'[s] = "none"
        BY <1>5, <2>2 DEF ReshardSwap
      <3> QED BY <1>1, <3>1
    <2> QED BY <2>1, <2>2
  <1>6. CASE ReshardUnlock
    <2> SUFFICES ASSUME NEW s \in Shard
                 PROVE  /\ runner'[s] \in {"none", "select"} =>
                             Cardinality(pending[s]) < MaxSamplesPerSend
                        /\ runner'[s] \in {"send", "final"} =>
                             Cardinality(pending[s]) <= MaxSamplesPerSend
                        /\ carry[s] # {} => MaxSamplesPerSend >= 2
      BY <1>6 DEF SizesOK, ReshardUnlock
    <2>1. CASE s[1] = "old"
      <3>1. runner'[s] = "none"
        BY <1>6, <2>1 DEF ReshardUnlock
      <3>2. pending'[s] = {} /\ pending' = pending
        BY <1>6, <3>1, SamplesNext DEF SamplesOK, ShardsOK, ReshardUnlock
      <3> QED BY <1>1, <3>1, <3>2 DEF SizesOK
    <2>2. CASE s[1] # "old"
      BY <1>6, <2>2 DEF ReshardUnlock, SizesOK
    <2> QED BY <2>1, <2>2
  <1>7. ASSUME NEW s \in Shard, RunShard(s) PROVE SizesOK'
    <2>1. ASSUME \A r \in Shard : r # s => /\ pending'[r] = pending[r]
                                           /\ carry'[r] = carry[r]
                                           /\ runner'[r] = runner[r],
                 /\ runner'[s] \in {"none", "select"} =>
                      Cardinality(pending'[s]) < MaxSamplesPerSend
                 /\ runner'[s] \in {"send", "final"} =>
                      Cardinality(pending'[s]) <= MaxSamplesPerSend
                 /\ carry'[s] # {} => MaxSamplesPerSend >= 2
          PROVE  SizesOK'
      BY <2>1 DEF SizesOK
    <2>2. IsFiniteSet(pending[s]) /\ Cardinality(pending[s]) \in Nat
      BY BatchFinite
    <2>3. CASE Receive(s)
      <3> DEFINE e == Head(queue[s])
                 dup == hash[e] \in seen[s]
                 batch == IF dup THEN pending[s] ELSE pending[s] \cup {e}
                 full == Cardinality(batch) >= MaxSamplesPerSend
      <3>1. /\ pending'[s] = batch /\ carry'[s] = IF dup THEN {e} ELSE {}
            /\ runner'[s] = IF dup \/ full THEN "send" ELSE "select"
            /\ Cardinality(pending[s]) < MaxSamplesPerSend
        BY <2>3 DEF Receive, Dequeue, TakeEntry, TypeOK, SizesOK
      <3>2. \A r \in Shard : r # s => /\ pending'[r] = pending[r]
                                      /\ carry'[r] = carry[r]
                                      /\ runner'[r] = runner[r]
        BY <2>3 DEF Receive, TakeEntry, TypeOK
      <3>3. /\ Cardinality(pending[s] \cup {e}) \in Nat
            /\ Cardinality(pending[s] \cup {e}) <= Cardinality(pending[s]) + 1
        <4>1. Cardinality(pending[s] \cup {e}) =
                IF e \in pending[s] THEN Cardinality(pending[s])
                                    ELSE Cardinality(pending[s]) + 1
          BY <2>2, FS_AddElement, Zenon
        <4> QED BY <2>2, <4>1
      <3>4. dup => pending[s] # {}
        BY DEF ShardsOK, HashesOf
      <3>5. pending[s] # {} => Cardinality(pending[s]) >= 1
        BY <2>2, FS_EmptySet
      <3> HIDE DEF e, dup
      <3>6. /\ runner'[s] \in {"none", "select"} =>
                 Cardinality(pending'[s]) < MaxSamplesPerSend
            /\ runner'[s] \in {"send", "final"} =>
                 Cardinality(pending'[s]) <= MaxSamplesPerSend
        <4>1. CASE dup
          BY <1>1, <2>2, <3>1, <4>1
        <4>2. CASE ~dup
          BY <1>1, <2>2, <3>1, <3>3, <4>2
        <4> QED BY <4>1, <4>2
      <3>7. carry'[s] # {} => MaxSamplesPerSend >= 2
        BY <1>1, <2>2, <3>1, <3>4, <3>5
      <3> QED BY <2>1, <3>2, <3>6, <3>7
    <2>4. CASE ReceiveClosed(s)
      BY <1>1, <2>2, <2>4 DEF ReceiveClosed, TypeOK, SizesOK
    <2>5. CASE Deadline(s)
      BY <1>1, <2>2, <2>5 DEF Deadline, TypeOK, SizesOK
    <2>6. CASE StoreRetry(s)
      BY <2>6 DEF StoreRetry, shardVars, SizesOK
    <2>7. ASSUME NEW ok \in BOOLEAN, StoreResolve(s, ok) PROVE SizesOK'
      <3>1. /\ pending'[s] = carry[s] /\ carry'[s] = {}
            /\ runner'[s] \in {"select", "exited"}
        BY <2>7 DEF StoreResolve, Resume, TypeOK
      <3>2. \A r \in Shard : r # s => /\ pending'[r] = pending[r]
                                      /\ carry'[r] = carry[r]
                                      /\ runner'[r] = runner[r]
        BY <2>7 DEF StoreResolve, Resume, TypeOK
      <3>3. Cardinality(carry[s]) < MaxSamplesPerSend
        <4>1. CASE carry[s] = {}
          BY <1>1, <4>1
        <4>2. CASE carry[s] # {}
          <5>1. PICK n : n \in carry[s]
            BY <4>2
          <5>2. carry[s] = {n}
            BY <5>1 DEF ShardsOK
          <5>3. Cardinality(carry[s]) = 1
            BY <5>2, FS_Singleton
          <5> QED BY <1>1, <4>2, <5>3 DEF SizesOK
        <4> QED BY <4>1, <4>2
      <3> QED BY <2>1, <3>1, <3>2, <3>3
    <2> QED BY <1>7, <2>3, <2>4, <2>5, <2>6, <2>7 DEF RunShard
  <1>8. CASE UNCHANGED <<pending, carry, runner>>
    BY <1>8 DEF SizesOK
  <1> QED BY <1>3, <1>4, <1>5, <1>6, <1>7, <1>8
          DEF AnyNext, Internal, AppendStep, StartStep, ReshardStep, StopStep,
              UpdateStep, AppendCall, AppendRLock, AppendSend,
              AppendPanic, StartLoops, StartLock, CalculateDesiredShards,
              UpdateShardsLoopExit, ReshardLoopExit, ReshardLock, StopCall,
              StopWait, StopLock, StopClose, StopDone, vars, shardVars

-----------------------------------------------------------------------------
(* The core of the inductive invariant. *)

\* Every step preserves the core of the inductive invariant.
LEMMA CoreNext == Core /\ AnyNext => Core'
  <1> SUFFICES ASSUME Core, AnyNext PROVE Core'
    OBVIOUS
  <1>1. TypeOK'
    BY TypeNext DEF Core
  <1> QED BY <1>1, LocksNext, CollectionsNext, SamplesNext, SizesNext
          DEF Core, SamplesOK

-----------------------------------------------------------------------------
(* What follows from the core. *)

\* Every batch that is sent is as it should be.
LEMMA CoreBatches == Core => BatchesWellFormed
  <1> SUFFICES ASSUME Core, NEW s \in Shard, runner[s] \in {"send", "final"}
               PROVE  /\ \A m, n \in pending[s] : hash[m] = hash[n] => m = n
                      /\ Cardinality(pending[s]) \in 1..MaxSamplesPerSend
    BY DEF BatchesWellFormed
  <1>1. IsFiniteSet(pending[s]) /\ Cardinality(pending[s]) \in Nat
    BY BatchFinite DEF Core
  <1>2. pending[s] # {} /\ \A m, n \in pending[s] : hash[m] = hash[n] => m = n
    BY DEF Core, ShardsOK
  <1>3. Cardinality(pending[s]) # 0
    BY <1>1, <1>2, FS_EmptySet
  <1>4. Cardinality(pending[s]) <= MaxSamplesPerSend
    BY DEF Core, SizesOK
  <1> QED BY <1>1, <1>2, <1>3, <1>4, ConstantsAssumption

\* Every sample is at one place.
LEMMA CoreOnce == Core => NothingTwice
  <1> SUFFICES ASSUME Core, NEW s \in Shard
               PROVE  /\ Contents(s) \cap (resolved \cup Appending) = {}
                      /\ pending[s] \cap carry[s] = {}
                      /\ (pending[s] \cup carry[s]) \cap ToSet(queue[s]) = {}
                      /\ IsInjective(queue[s])
                      /\ \A r \in Shard : r # s =>
                           Contents(r) \cap Contents(s) = {}
    BY DEF NothingTwice, Core
  <1>1. Contents(s) \cap (resolved \cup Appending) = {}
    BY DEF Core, PlacementOK
  <1>2. \A n \in Contents(s) : n \in Int
    BY ContentsType
  <1>3. pending[s] \cap carry[s] = {}
    BY <1>2 DEF Core, OrderOK, Contents
  <1>4. (pending[s] \cup carry[s]) \cap ToSet(queue[s]) = {}
    BY <1>2 DEF Core, OrderOK, Contents
  <1>5. IsInjective(queue[s])
    <2>1. queue[s] \in Seq(Sample) /\ Increasing(queue[s])
      BY DEF Core, TypeOK, OrderOK
    <2> DEFINE q == queue[s]
    <2>2. q \in Seq(Sample) /\ Increasing(q)
      BY <2>1
    <2> HIDE DEF q
    <2>3. DOMAIN q = 1..Len(q) /\ Len(q) \in Nat
      BY <2>2
    <2>4. \A i \in 1..Len(q) : q[i] \in Sample
      BY <2>2
    <2>5. Sample \subseteq Int
      BY DEF Sample
    <2>6. \A i, j \in 1..Len(q) : q[i] = q[j] => i = j
      <3> SUFFICES ASSUME NEW i \in 1..Len(q), NEW j \in 1..Len(q),
                          q[i] = q[j], i # j
                   PROVE  FALSE
        OBVIOUS
      <3>1. q[i] \in Int /\ q[j] \in Int
        BY <2>4, <2>5
      <3>2. i < j \/ j < i
        BY <2>3
      <3>3. q[i] < q[j] \/ q[j] < q[i]
        BY <2>2, <2>3, <3>2 DEF Increasing
      <3> QED BY <3>1, <3>3
    <2> QED BY <2>3, <2>6 DEF IsInjective, q
  <1>6. \A r \in Shard : r # s => Contents(r) \cap Contents(s) = {}
    BY OneShardPerSeries
  <1> QED BY <1>1, <1>3, <1>4, <1>5, <1>6

\* A Stop that has returned has left no sample in a shard, and no goroutine.
LEMMA CoreFlushed ==
  Core /\ stopper = "done" =>
    /\ 1..appended \ resolved \subseteq Appending
    /\ \A s \in Shard : runner[s] \in {"none", "exited"}
  <1> SUFFICES ASSUME Core, stopper = "done"
               PROVE  /\ 1..appended \ resolved \subseteq Appending
                      /\ \A s \in Shard : runner[s] \in {"none", "exited"}
    OBVIOUS
  <1>1. resharder # "drain" /\ AllExited("cur")
    BY DEF Core, LocksOK, CollectionsOK
  <1>2. \A s \in Shard : /\ runner[s] \in {"none", "exited"}
                         /\ s[2] < size[s[1]] \/ runner[s] = "none"
                         /\ s[1] = "old" => Contents(s) = {}
    <2> SUFFICES ASSUME NEW s \in Shard
                 PROVE  /\ runner[s] \in {"none", "exited"}
                        /\ s[2] < size[s[1]] \/ runner[s] = "none"
                        /\ s[1] = "old" => Contents(s) = {}
      OBVIOUS
    <2>1. s[1] \in Gen /\ s[2] \in Int /\ size[s[1]] \in Int
      BY DEF Shard, Index, Core, TypeOK
    <2>2. CASE s[1] = "old"
      BY <1>1, <2>2, IdleShardEmpty DEF Core, CollectionsOK
    <2>3. CASE s[1] = "cur"
      BY <1>1, <2>1, <2>3 DEF AllExited, Core, CollectionsOK
    <2> QED BY <2>1, <2>2, <2>3 DEF Gen
  <1>3. \A s \in Shard : Contents(s) = {}
    <2> SUFFICES ASSUME NEW s \in Shard, NEW n \in Contents(s) PROVE FALSE
      OBVIOUS
    <2>1. s[1] = "cur"
      BY <1>2 DEF Shard, Gen
    <2>2. s[2] = hash[n] % size["cur"] /\ hash[n] \in Nat
      BY <2>1, ContentsType DEF Core, PlacementOK, ShardOf
    <2>3. size["cur"] \in Nat \ {0}
      <3>1. size["cur"] \in 0..MaxShards /\ size["cur"] >= 1
        BY DEF Core, TypeOK, Gen
      <3> QED BY <3>1, ConstantsAssumption
    <2>4. s[2] < size["cur"]
      BY <2>2, <2>3
    <2>5. runner[s] = "exited"
      BY <1>1, <2>1, <2>4 DEF AllExited
    <2>6. queue[s] = <<>> /\ pending[s] = {} /\ carry[s] = {}
      BY <2>5 DEF Core, ShardsOK
    <2> QED BY <2>6, EmptyQueue DEF Contents
  <1>4. 1..appended \subseteq Appending \cup resolved
    BY <1>3 DEF Core, NothingLost
  <1> QED BY <1>2, <1>4

\* No step sends an older sample of a series after a younger one.
LEMMA CoreInOrder ==
  Core /\ AnyNext => \A h \in Hashes : lastSent[h] <= lastSent'[h]
  <1> SUFFICES ASSUME Core, AnyNext
               PROVE  \A h \in Hashes : lastSent[h] <= lastSent'[h]
    OBVIOUS
  <1>1. \A h \in Hashes : lastSent[h] \in Int
    BY DEF Core, TypeOK
  <1>2. CASE lastSent' = lastSent
    BY <1>1, <1>2
  <1>3. ASSUME NEW s \in Shard, RunShard(s)
        PROVE  \A h \in Hashes : lastSent[h] <= lastSent'[h]
    <2>1. lastSent' = lastSent \/ lastSent' = Sent(pending[s])
      BY <1>3 DEF RunShard, Receive, Dequeue, ReceiveClosed, Deadline,
                  StoreRetry, StoreResolve, Answer, storeVars
    <2> QED BY <1>2, <2>1, StoreCall
  <1> QED BY <1>2, <1>3
        DEF AnyNext, Internal, AppendStep, StartStep, ReshardStep, StopStep,
            UpdateStep, AppendCall, AppendRLock, AppendSend, AppendPanic,
            StartLoops, StartLock, StartShards, CalculateDesiredShards,
            UpdateShardsLoopExit, ReshardLoopExit, ReshardLock, ReshardSwap,
            ReshardUnlock, ReshardStart, StopCall, StopWait, StopLock,
            StopClose, StopDone, vars, storeVars

\* Every step is one of the abstract specification, or leaves its state alone.
LEMMA CoreDelivers == Core /\ AnyNext => [Abstract!Next]_(Abstract!vars)
  <1> SUFFICES ASSUME Core, AnyNext
               PROVE  Abstract!Next \/ UNCHANGED Abstract!vars
    OBVIOUS
  <1>1. CASE UNCHANGED <<hash, appended, lastSent, succeeded, failed>>
    BY <1>1 DEF Abstract!vars, resolved
  <1>2. CASE AppendCall
    BY <1>2 DEF AppendCall, Abstract!Next, Abstract!Accept, resolved, storeVars
  <1>3. ASSUME NEW s \in Shard, lastSent' = Sent(pending[s]),
               resolved' \in {resolved, resolved \cup pending[s]},
               UNCHANGED <<hash, appended>>
        PROVE  Abstract!Next
    <2>1. pending[s] \in SUBSET (1..NumSamples)
      BY DEF Core, TypeOK, Sample
    <2>2. pending[s] \subseteq Abstract!Unresolved
      BY DEF Core, PlacementOK, Contents, Abstract!Unresolved
    <2>3. \A n \in pending[s], m \in Abstract!Unresolved :
            hash[m] = hash[n] => n <= m
      BY BatchIsFront DEF Abstract!Unresolved
    <2>4. Abstract!IsFront(pending[s])
      BY <2>2, <2>3 DEF Abstract!IsFront
    <2>5. Abstract!Deliver(pending[s])
      BY <1>3, <2>4 DEF Abstract!Deliver, Sent
    <2> QED BY <2>1, <2>5 DEF Abstract!Next
  <1>4. ASSUME NEW s \in Shard, RunShard(s)
        PROVE  Abstract!Next \/ UNCHANGED Abstract!vars
    <2>1. CASE Receive(s) \/ ReceiveClosed(s) \/ Deadline(s)
      BY <1>1, <2>1 DEF Receive, Dequeue, ReceiveClosed, Deadline, appendVars,
                        storeVars
    <2>2. CASE StoreRetry(s)
      BY <1>3, <2>2 DEF StoreRetry, appendVars, resolved
    <2>3. ASSUME NEW ok \in BOOLEAN, StoreResolve(s, ok) PROVE Abstract!Next
      <3>1. resolved' = resolved \cup pending[s]
        BY <2>3 DEF StoreResolve, Answer, resolved
      <3> QED BY <1>3, <2>3, <3>1 DEF StoreResolve, Answer, appendVars
    <2> QED BY <1>4, <2>1, <2>2, <2>3 DEF RunShard
  <1> QED BY <1>1, <1>2, <1>4
        DEF AnyNext, Internal, AppendStep, StartStep, ReshardStep, StopStep,
            UpdateStep, AppendRLock, AppendSend, AppendPanic,
            StartLoops, StartLock, StartShards, CalculateDesiredShards,
            UpdateShardsLoopExit, ReshardLoopExit, ReshardLock, ReshardSwap,
            ReshardUnlock, ReshardStart, StopCall, StopWait, StopLock,
            StopClose, StopDone, vars, storeVars, appendVars

\* What is queued are samples that were appended.
LEMMA QueuedFinite ==
  ASSUME Core
  PROVE  /\ Queued \subseteq 1..appended
         /\ IsFiniteSet(Queued) /\ Cardinality(Queued) \in Nat
  <1>1. appended \in 0..NumSamples /\ (appender # "idle" => appended >= 1)
    BY DEF Core, TypeOK
  <1>2. Appending \subseteq 1..appended
    BY <1>1, ConstantsAssumption DEF Appending
  <1>3. \A s \in Shard : ToSet(queue[s]) \subseteq 1..appended
    BY ContentsType DEF Contents
  <1>4. Queued \subseteq 1..appended
    BY <1>2, <1>3 DEF Queued
  <1>5. IsFiniteSet(1..appended)
    BY <1>1, FS_Interval, ConstantsAssumption
  <1>6. IsFiniteSet(Queued)
    BY <1>4, <1>5, FS_Subset
  <1> QED BY <1>4, <1>6, FS_CardinalityType

\* A sample is counted when it comes into the hands of Append, and counted off
\* when a shard receives it; a reshard moves queues and changes no count.
LEMMA CoreGauge == Core /\ QueueLengthExact /\ AnyNext => QueueLengthExact'
  <1> SUFFICES ASSUME Core, QueueLengthExact, AnyNext PROVE QueueLengthExact'
    OBVIOUS
  <1>0. \A n : /\ n \in Queued <=>
                   (n \in Appending \/ (\E s \in Shard : n \in ToSet(queue[s])))
               /\ n \in Queued' <=>
                   (n \in Appending' \/ (\E s \in Shard : n \in ToSet(queue'[s])))
    BY DEF Queued
  <1>1. CASE Queued' = Queued /\ queueLength' = queueLength
    BY <1>1 DEF QueueLengthExact
  <1>2. CASE AppendCall
    <2>1. /\ Appending = {} /\ Appending' = {appended + 1} /\ queue' = queue
          /\ queueLength' = queueLength + 1
      BY <1>2 DEF AppendCall, Appending, shardVars
    <2>2. Queued' = Queued \cup {appended + 1}
      BY <2>1 DEF Queued
    <2>3. appended + 1 \notin Queued
      <3>1. appended \in Int
        BY DEF Core, TypeOK
      <3>2. appended + 1 \notin 1..appended
        BY <3>1
      <3> QED BY <3>2, QueuedFinite
    <2>4. Cardinality(Queued \cup {appended + 1}) = Cardinality(Queued) + 1
      BY <2>3, QueuedFinite, FS_AddElement
    <2> QED BY <2>1, <2>2, <2>4 DEF QueueLengthExact
  <1>3. CASE AppendSend
    <2> DEFINE s0 == ShardOf("cur", hash[appended])
    <2>1. /\ queue' = [queue EXCEPT ![s0] = Append(queue[s0], appended)]
          /\ Appending = {appended} /\ Appending' = {} /\ queueLength' = queueLength
      BY <1>3 DEF AppendSend, Appending
    <2>2. s0 \in Shard
      BY <1>3, SendsToShard
    <2> HIDE DEF s0
    <2>3. /\ queue \in [Shard -> Seq(Sample)] /\ Sample \in SUBSET Int
          /\ appended \in Sample
      BY <1>3, ConstantsAssumption DEF Core, TypeOK, Sample, AppendSend
    <2>4. ToSet(Append(queue[s0], appended)) = ToSet(queue[s0]) \cup {appended}
      BY <2>2, <2>3, AppendToQueue
    <2>5. \A s \in Shard : ToSet(queue'[s]) = IF s = s0
                             THEN ToSet(queue[s]) \cup {appended}
                             ELSE ToSet(queue[s])
      BY <2>1, <2>2, <2>3, <2>4
    <2>6. ASSUME NEW n PROVE n \in Queued' <=> n \in Queued
      <3>1. Appending = {appended} /\ Appending' = {}
        BY <2>1
      <3>2. (\E s \in Shard : n \in ToSet(queue'[s])) <=>
              (n = appended \/ (\E s \in Shard : n \in ToSet(queue[s])))
        BY <2>2, <2>5
      <3> QED BY <1>0, <3>1, <3>2, Zenon
    <2> QED BY <1>1, <2>1, <2>6
  <1>4. CASE ReshardSwap
    <2>1. /\ Appending' = Appending /\ queueLength' = queueLength
          /\ resharder # "drain"
      BY <1>4 DEF ReshardSwap, Appending, appendVars
    <2>2. \A s \in Shard : s[1] = "old" => ToSet(queue[s]) = {}
      BY <2>1, EmptyQueue DEF Core, CollectionsOK
    <2>3. \A s \in Shard : /\ s[1] = "old" => queue'[s] = queue[<<"cur", s[2]>>]
                           /\ s[1] # "old" => queue'[s] = <<>>
      BY <1>4 DEF ReshardSwap
    <2>4. \A s \in Shard : /\ <<"cur", s[2]>> \in Shard /\ <<"old", s[2]>> \in Shard
                           /\ s[1] = "cur" => s = <<"cur", s[2]>>
                           /\ s[1] \in {"cur", "old"}
      BY DEF Shard, Gen
    <2>5. ASSUME NEW s \in Shard, NEW n \in ToSet(queue'[s])
          PROVE  \E r \in Shard : n \in ToSet(queue[r])
      BY <2>3, <2>4, <2>5, EmptyQueue
    <2>6. ASSUME NEW s \in Shard, NEW n \in ToSet(queue[s])
          PROVE  \E r \in Shard : n \in ToSet(queue'[r])
      <3>1. s[1] = "cur" /\ s = <<"cur", s[2]>>
        BY <2>2, <2>4
      <3> DEFINE r == <<"old", s[2]>>
      <3>2. r \in Shard /\ r[1] = "old" /\ <<"cur", r[2]>> = s
        BY <2>4, <3>1
      <3> QED BY <2>3, <3>2
    <2>7. Queued' = Queued
      BY <2>1, <2>5, <2>6 DEF Queued
    <2> QED BY <1>1, <2>1, <2>7
  <1>5. ASSUME NEW s0 \in Shard, Receive(s0) PROVE QueueLengthExact'
    <2> DEFINE e == Head(queue[s0])
    <2>1. /\ queue[s0] # <<>> /\ queue' = [queue EXCEPT ![s0] = Tail(queue[s0])]
          /\ Appending' = Appending /\ queueLength' = queueLength - 1
      BY <1>5 DEF Receive, Dequeue, Appending
    <2>2. queue \in [Shard -> Seq(Sample)] /\ Sample \in SUBSET Int
      BY DEF Core, TypeOK, Sample
    <2>3. /\ ToSet(queue[s0]) = {e} \cup ToSet(Tail(queue[s0]))
          /\ \A n \in ToSet(Tail(queue[s0])) : e < n
          /\ e \in Int
      BY <2>1, <2>2, TailOfQueue DEF Core, OrderOK
    <2> HIDE DEF e
    <2>4. e \notin ToSet(Tail(queue[s0]))
      BY <2>3
    <2>5. e \in Contents(s0) /\ e \notin Appending
      BY <2>3 DEF Contents, Core, PlacementOK
    <2>6. \A s \in Shard : s # s0 => e \notin ToSet(queue[s])
      BY <2>5, OneShardPerSeries DEF Contents
    <2>7. \A s \in Shard : queue'[s] = IF s = s0 THEN Tail(queue[s]) ELSE queue[s]
      BY <2>1, <2>2
    <2>8. \A s \in Shard : ToSet(queue'[s]) = ToSet(queue[s]) \ {e}
      BY <2>3, <2>4, <2>6, <2>7
    <2>9. Queued' = Queued \ {e} /\ e \in Queued
      <3>1. ASSUME NEW n PROVE n \in Queued' <=> (n \in Queued /\ n # e)
        <4>1. Appending' = Appending /\ e \notin Appending
          BY <2>1, <2>5
        <4>2. (\E s \in Shard : n \in ToSet(queue'[s])) <=>
                (n # e /\ (\E s \in Shard : n \in ToSet(queue[s])))
          BY <2>8
        <4> QED BY <1>0, <4>1, <4>2, Zenon
      <3>2. e \in Queued
        BY <1>0, <2>3
      <3> QED BY <3>1, <3>2
    <2>10. Cardinality(Queued \ {e}) = Cardinality(Queued) - 1
      BY <2>9, QueuedFinite, FS_RemoveElement
    <2> QED BY <2>1, <2>9, <2>10 DEF QueueLengthExact
  <1>6. CASE UNCHANGED <<queue, queueLength>> /\ Appending' = Appending
    BY <1>1, <1>6 DEF Queued
  <1>7. CASE AppendRLock \/ AppendPanic
    BY <1>6, <1>7 DEF AppendRLock, AppendPanic, Appending, shardVars
  <1>8. CASE UNCHANGED <<queue, appendVars>>
    BY <1>6, <1>8 DEF appendVars, Appending
  <1> QED BY <1>2, <1>3, <1>4, <1>5, <1>7, <1>8
          DEF AnyNext, Internal, AppendStep, StartStep, ReshardStep, StopStep,
              UpdateStep, RunShard, ReceiveClosed, Deadline, StoreRetry,
              StoreResolve, Answer, StartLoops, StartLock, StartShards,
              StartCollection, CalculateDesiredShards, UpdateShardsLoopExit,
              ReshardLoopExit, ReshardLock, ReshardUnlock, ReshardStart,
              StopCall, StopWait, StopLock, StopClose, StopDone, vars, shardVars

-----------------------------------------------------------------------------
(* The theorems about the queue manager used as MayAppend and MayStop say. *)

\* MayAppend and MayStop keep Append away from a Stop.
LEMMA UseNext == IInv /\ [Next]_vars => UseOK'
  <1> SUFFICES ASSUME IInv, [Next]_vars PROVE UseOK'
    OBVIOUS
  <1> USE DEF IInv, UseOK
  <1>1. CASE MayAppend /\ AppendCall
    BY <1>1 DEF MayAppend, AppendCall, threadVars
  <1>2. CASE AppendStep
    BY <1>2 DEF AppendStep, AppendRLock, AppendSend, threadVars
  <1>3. CASE StartLoops \/ StartStep
    BY <1>3 DEF StartLoops, StartStep, StartLock, StartShards, appendVars,
                threadVars, Core, LocksOK
  <1>4. CASE MayStop /\ StopCall
    BY <1>4 DEF MayStop, StopCall, appendVars
  <1>5. CASE UNCHANGED <<appender, starter>> /\ (stopper = "init" => stopper' = "init")
    BY <1>5
  <1>6. CASE UpdateStep \/ ReshardStep \/ StopStep
    BY <1>5, <1>6 DEF UpdateStep, CalculateDesiredShards, UpdateShardsLoopExit,
         ReshardStep, ReshardLoopExit, ReshardLock, ReshardSwap, ReshardUnlock,
         ReshardStart, StopStep, StopWait, StopLock, StopClose, StopDone,
         appendVars, threadVars
  <1>7. ASSUME NEW s \in Shard, RunShard(s) PROVE UseOK'
    BY <1>5, <1>7 DEF RunShard, Receive, Dequeue, ReceiveClosed, Deadline,
         StoreRetry, StoreResolve, Answer, appendVars, threadVars
  <1>8. CASE UNCHANGED vars
    BY <1>5, <1>8 DEF vars, appendVars, threadVars
  <1> QED BY <1>1, <1>2, <1>3, <1>4, <1>6, <1>7, <1>8
          DEF Next, Internal, Terminated

(***************************************************************************)
(* The inductive invariant holds in every reachable state of the queue     *)
(* manager, for any number of samples, series and shards and any capacity  *)
(* and batch size.                                                         *)
(***************************************************************************)
THEOREM Invariance == Spec => []IInv
  <1>1. Init => IInv
    BY CoreInit DEF Init, IInv, UseOK
  <1>2. IInv /\ [Next]_vars => IInv'
    BY NextIsAny, CoreNext, UseNext DEF IInv
  <1> QED BY <1>1, <1>2, PTL DEF Spec

(***************************************************************************)
(* Every variable keeps its type; in particular the shard index of a       *)
(* sample always exists.                                                   *)
(***************************************************************************)
THEOREM TypeCorrect == Spec => []TypeOK
  <1>1. IInv => TypeOK
    BY DEF IInv, Core
  <1> QED BY <1>1, Invariance, PTL

(***************************************************************************)
(* runShard never sends an empty batch, more than MaxSamplesPerSend        *)
(* samples, or two points of one series in one request.                    *)
(***************************************************************************)
THEOREM BatchesAreWellFormed == Spec => []BatchesWellFormed
  <1>1. IInv => BatchesWellFormed
    BY CoreBatches DEF IInv
  <1> QED BY <1>1, Invariance, PTL

(***************************************************************************)
(* No sample is lost by batching, resharding or stopping.                  *)
(***************************************************************************)
THEOREM NothingIsLost == Spec => []NothingLost
  <1>1. IInv => NothingLost
    BY DEF IInv, Core
  <1> QED BY <1>1, Invariance, PTL

(***************************************************************************)
(* No sample is at two places, sent twice after it was resolved, or        *)
(* counted twice.                                                          *)
(***************************************************************************)
THEOREM NothingIsTwice == Spec => []NothingTwice
  <1>1. IInv => NothingTwice
    BY CoreOnce DEF IInv
  <1> QED BY <1>1, Invariance, PTL

(***************************************************************************)
(* When Stop returns, every sample appended has been stored or given up    *)
(* and no runShard goroutine is left.                                      *)
(***************************************************************************)
THEOREM StopHasFlushed == Spec => []StopFlushes
  <1>1. IInv => StopFlushes
    <2> SUFFICES ASSUME IInv, stopper = "done"
                 PROVE  /\ 1..appended = resolved
                        /\ \A s \in Shard : runner[s] \in {"none", "exited"}
      BY DEF StopFlushes
    <2>1. Appending = {}
      BY DEF IInv, UseOK, Appending
    <2>2. /\ 1..appended \ resolved \subseteq Appending
          /\ \A s \in Shard : runner[s] \in {"none", "exited"}
      BY CoreFlushed DEF IInv
    <2>3. resolved \subseteq 1..appended
      BY DEF IInv, Core, SentOK
    <2> QED BY <2>1, <2>2, <2>3
  <1> QED BY <1>1, Invariance, PTL

\* Before anything is appended the gauge is 0 and no sample is queued.
LEMMA GaugeInit == Init => QueueLengthExact
  <1> SUFFICES ASSUME Init PROVE QueueLengthExact
    OBVIOUS
  <1>1. Queued = {}
    BY EmptyQueue DEF Init, Queued, Appending
  <1> QED BY <1>1, FS_EmptySet DEF Init, QueueLengthExact

(***************************************************************************)
(* The gauge queue_length is exact, across reshards too.                   *)
(***************************************************************************)
THEOREM QueueLengthIsExact == Spec => []QueueLengthExact
  <1>1. Init => QueueLengthExact
    BY GaugeInit
  <1>2. IInv /\ QueueLengthExact /\ [Next]_vars => QueueLengthExact'
    BY NextIsAny, CoreGauge DEF IInv
  <1> QED BY <1>1, <1>2, Invariance, PTL DEF Spec

(***************************************************************************)
(* The samples of a series reach the storage in the order in which they    *)
(* were appended, through every reshard, retry and flush.                  *)
(***************************************************************************)
THEOREM DeliversInOrder == Spec => DeliveredInOrder
  <1>1. IInv /\ [Next]_vars => [\A h \in Hashes : lastSent[h] <= lastSent'[h]]_vars
    BY NextIsAny, CoreInOrder DEF IInv
  <1> QED BY <1>1, Invariance, PTL DEF Spec, DeliveredInOrder

(***************************************************************************)
(* The queue manager, with all its shards, locks and goroutines,           *)
(* implements the abstract specification InOrderDelivery.                  *)
(***************************************************************************)
THEOREM Refinement == Spec => ImplementsInOrderDelivery
  <1>1. Init => Abstract!Init
    BY DEF Init, Abstract!Init, Sample, resolved
  <1>2. IInv /\ [Next]_vars => [Abstract!Next]_(Abstract!vars)
    BY NextIsAny, CoreDelivers DEF IInv
  <1> QED BY <1>1, <1>2, Invariance, PTL
          DEF Spec, ImplementsInOrderDelivery, Abstract!Spec

-----------------------------------------------------------------------------
(* The theorems about the sidecar: the reader, and the run group that      *)
(* stops it and the manager.                                               *)

\* The sidecar uses the manager in one of the ways that keep the core.
LEMMA SidecarUse == SidecarInv /\ [SidecarNext]_allVars => AnyNext
  <1> SUFFICES ASSUME SidecarInv, [SidecarNext]_allVars PROVE AnyNext
    OBVIOUS
  <1>1. CASE ReaderAppend
    <2>1. reader = "append" /\ AppendCall
      BY <1>1 DEF ReaderAppend
    <2>2. starter = "done" /\ (stopper \in {"init", "wait"} \/ resharder = "exited")
      BY <2>1 DEF SidecarInv, GroupOK
    <2> QED BY <2>1, <2>2 DEF AnyNext, CanAppend
  <1>2. CASE Interrupt
    <2>1. UNCHANGED vars \/ StopCall
      BY <1>2 DEF Interrupt
    <2>2. CanStop
      BY DEF CanStop, SidecarInv, GroupOK
    <2> QED BY <2>1, <2>2 DEF AnyNext
  <1>3. CASE UNCHANGED vars
    BY <1>3 DEF AnyNext
  <1>4. CASE StartLoops \/ Internal \/ AppendPanic
    BY <1>4 DEF AnyNext
  <1> QED BY <1>1, <1>2, <1>3, <1>4
          DEF SidecarNext, ActorStep, GroupStep, SidecarTerminated, allVars,
              TargetsReturn, SignalReturn, ServerReturn, QueueReturn, ReaderSave,
              ReaderWait, ReaderCheck, FirstReturn, Join

\* A step of the manager's own goroutines begins neither Append nor Stop, does
\* not undo Start, and lets Stop go past reshardLoop only once that has exited.
LEMMA InternalProgress ==
  ASSUME Core, StartLoops \/ Internal \/ AppendPanic
  PROVE  /\ appended' = appended
         /\ stopper = "init" => stopper' = "init"
         /\ starter = "done" => starter' = "done"
         /\ starter = "done" /\ (stopper \in {"init", "wait"} \/ resharder = "exited")
              => stopper' \in {"init", "wait"} \/ resharder' = "exited"
  <1>1. CASE StartLoops \/ AppendPanic
    BY <1>1 DEF StartLoops, AppendPanic, appendVars, threadVars, Core, LocksOK
  <1>2. CASE AppendStep \/ StartStep
    BY <1>2 DEF AppendStep, AppendRLock, AppendSend, StartStep, StartLock,
         StartShards, appendVars, threadVars
  <1>3. CASE UpdateStep \/ ReshardStep \/ StopStep
    BY <1>3 DEF UpdateStep, CalculateDesiredShards, UpdateShardsLoopExit,
         ReshardStep, ReshardLoopExit, ReshardLock, ReshardSwap, ReshardUnlock,
         ReshardStart, StopStep, StopWait, StopLock, StopClose, StopDone,
         appendVars, threadVars, Core, LocksOK
  <1>4. ASSUME NEW s \in Shard, RunShard(s)
        PROVE  UNCHANGED <<appended, threadVars>>
    BY <1>4 DEF RunShard, Receive, Dequeue, ReceiveClosed, Deadline,
         StoreRetry, StoreResolve, Answer, appendVars
  <1> QED BY <1>1, <1>2, <1>3, <1>4 DEF Internal, threadVars

\* Every step keeps the order in which the group stops reader and manager.
LEMMA GroupNext == SidecarInv /\ [SidecarNext]_allVars => GroupOK'
  <1> SUFFICES ASSUME SidecarInv, [SidecarNext]_allVars PROVE GroupOK'
    OBVIOUS
  <1> USE DEF GroupOK
  <1>1. GroupOK /\ Core /\ appended \in Nat
    BY DEF SidecarInv, Core, TypeOK
  <1>2. CASE TargetsReturn \/ SignalReturn \/ ServerReturn \/ QueueReturn
    BY <1>1, <1>2 DEF TargetsReturn, SignalReturn, ServerReturn, QueueReturn,
         vars, appendVars, threadVars
  <1>3. CASE ReaderSave \/ ReaderWait
    BY <1>1, <1>3 DEF ReaderSave, ReaderWait, vars, appendVars, threadVars
  <1>4. CASE ReaderCheck
    BY <1>1, <1>4 DEF ReaderCheck, vars, appendVars, threadVars
  <1>5. CASE ReaderAppend
    BY <1>1, <1>5 DEF ReaderAppend, AppendCall, threadVars
  <1>6. CASE FirstReturn \/ Join
    BY <1>1, <1>6 DEF FirstReturn, Join, vars, appendVars, threadVars
  <1>7. CASE Interrupt
    <2>0. /\ ctxDone' \in BOOLEAN /\ (ctxDone => ctxDone')
          /\ Actors[group] = "reader" => ctxDone'
      BY <1>7, Zenon DEF Interrupt
    <2>1. /\ group \in 1..5 /\ UNCHANGED reader
          /\ \/ /\ UNCHANGED vars /\ group' = group + 1
             \/ /\ StopCall /\ group' = group /\ Actors[group] = "queue"
      BY <1>7 DEF Interrupt
    <2>2. /\ Actors[1] = "targets" /\ Actors[2] = "signal" /\ Actors[3] = "reader"
          /\ Actors[4] = "queue" /\ Actors[5] = "server"
      BY DEF Actors
    <2>3. CASE UNCHANGED vars /\ group' = group + 1
      <3>1. UNCHANGED <<appended, starter, stopper, resharder>>
        BY <2>3 DEF vars, appendVars, threadVars
      <3>2. group' >= 4 => group >= 4 \/ group = 3
        BY <2>1, <2>3
      <3>3. group' >= 4 => ctxDone'
        BY <1>1, <2>0, <2>2, <3>2
      <3>4. stopper' # "init" => group' >= 4
        BY <1>1, <2>1, <2>3, <3>1
      <3>5. group' \in 0..7
        BY <2>1, <2>3
      <3> QED BY <1>1, <2>0, <2>1, <3>1, <3>3, <3>4, <3>5
    <2>4. CASE StopCall /\ group' = group /\ Actors[group] = "queue"
      <3>1. group = 4
        BY <2>1, <2>2, <2>4
      <3>2. UNCHANGED <<appended, starter, resharder>> /\ stopper' = "wait"
        BY <2>4 DEF StopCall, appendVars
      <3>3. ctxDone' /\ group' = 4
        BY <1>1, <2>0, <2>4, <3>1
      <3> QED BY <1>1, <2>0, <2>1, <3>2, <3>3
    <2> QED BY <2>1, <2>3, <2>4
  <1>8. CASE (StartLoops \/ Internal \/ AppendPanic) /\ UNCHANGED sidecarVars
    BY <1>1, <1>8, InternalProgress DEF sidecarVars
  <1>9. CASE UNCHANGED allVars
    BY <1>1, <1>9 DEF allVars, sidecarVars, vars, appendVars, threadVars
  <1> QED BY <1>2, <1>3, <1>4, <1>5, <1>6, <1>7, <1>8, <1>9
          DEF SidecarNext, ActorStep, GroupStep, SidecarTerminated

\* Only the Append that the reader was about to make is late.
LEMMA LateNext == SidecarInv /\ [SidecarNext]_allVars => LateOK'
  <1> SUFFICES ASSUME SidecarInv, [SidecarNext]_allVars PROVE LateOK'
    OBVIOUS
  <1> USE DEF LateOK
  <1>1. LateOK /\ ctxDone \in BOOLEAN
    BY DEF SidecarInv, GroupOK
  <1>2. CASE ReaderAppend
    BY <1>1, <1>2 DEF ReaderAppend
  <1>3. CASE ReaderCheck
    BY <1>1, <1>3 DEF ReaderCheck
  <1>4. CASE ReaderSave \/ ReaderWait
    BY <1>1, <1>4 DEF ReaderSave, ReaderWait
  <1>5. CASE Interrupt
    BY <1>1, <1>5 DEF Interrupt
  <1>6. CASE UNCHANGED <<reader, ctxDone, late>>
    BY <1>1, <1>6
  <1> QED BY <1>2, <1>3, <1>4, <1>5, <1>6
          DEF SidecarNext, ActorStep, GroupStep, SidecarTerminated, allVars,
              sidecarVars, TargetsReturn, SignalReturn, ServerReturn,
              QueueReturn, FirstReturn, Join

(***************************************************************************)
(* In the life of the process, where Stop may be called before Start has   *)
(* returned and while the reader is in Append, the core of the queue       *)
(* manager's invariant holds still.                                        *)
(***************************************************************************)
THEOREM SidecarInvariance == SidecarSpec => []SidecarInv
  <1>1. SidecarInit => SidecarInv
    <2> SUFFICES ASSUME SidecarInit PROVE SidecarInv
      OBVIOUS
    <2>1. Core
      BY CoreInit DEF SidecarInit
    <2>2. /\ reader = "save" /\ group = 0 /\ late = 0
          /\ stopper = "init" /\ appended = 0 /\ ctxDone \in BOOLEAN
      BY Zenon DEF SidecarInit, Init
    <2>3. GroupOK /\ LateOK
      BY <2>2 DEF GroupOK, LateOK
    <2> QED BY <2>1, <2>3 DEF SidecarInv
  <1>2. SidecarInv /\ [SidecarNext]_allVars => SidecarInv'
    <2>1. SidecarInv => Core
      BY DEF SidecarInv
    <2> QED BY <2>1, SidecarUse, CoreNext, GroupNext, LateNext DEF SidecarInv
  <1> QED BY <1>1, <1>2, PTL DEF SidecarSpec

(***************************************************************************)
(* However the shutdown interleaves with the reader and with reshards,     *)
(* when Stop has returned only the sample in the hands of Append is        *)
(* neither stored nor given up.                                            *)
(***************************************************************************)
THEOREM ShutdownHasFlushed == SidecarSpec => []ShutdownFlushes
  <1>1. SidecarInv => ShutdownFlushes
    BY CoreFlushed DEF SidecarInv, ShutdownFlushes, Appending
  <1> QED BY <1>1, SidecarInvariance, PTL

(***************************************************************************)
(* The reader begins at most one Append after its context is cancelled.    *)
(***************************************************************************)
THEOREM OneLateAppend == SidecarSpec => []AtMostOneLateAppend
  <1>1. SidecarInv => AtMostOneLateAppend
    BY DEF SidecarInv, LateOK, AtMostOneLateAppend
  <1> QED BY <1>1, SidecarInvariance, PTL

(***************************************************************************)
(* In a shutdown, too, no sample is lost and none is at two places, and    *)
(* the requests are as they should be.                                     *)
(***************************************************************************)
THEOREM SidecarKeepsSamples ==
    SidecarSpec => [](NothingLost /\ NothingTwice /\ BatchesWellFormed)
  <1>1. SidecarInv => NothingLost /\ NothingTwice /\ BatchesWellFormed
    BY CoreOnce, CoreBatches DEF SidecarInv, Core
  <1> QED BY <1>1, SidecarInvariance, PTL

(***************************************************************************)
(* Through the shutdown the gauge queue_length is exact: the sample that   *)
(* Append holds when it meets a closed channel stays counted.              *)
(***************************************************************************)
THEOREM SidecarQueueLength == SidecarSpec => []QueueLengthExact
  <1>1. SidecarInit => QueueLengthExact
    BY GaugeInit DEF SidecarInit
  <1>2. SidecarInv /\ QueueLengthExact /\ [SidecarNext]_allVars => QueueLengthExact'
    BY SidecarUse, CoreGauge DEF SidecarInv
  <1> QED BY <1>1, <1>2, SidecarInvariance, PTL DEF SidecarSpec

(***************************************************************************)
(* The process as a whole, from its start to the end of its shutdown,      *)
(* implements InOrderDelivery: what it sends, it sends in order.           *)
(***************************************************************************)
THEOREM SidecarRefinement == SidecarSpec => ImplementsInOrderDelivery
  <1>1. SidecarInit => Abstract!Init
    BY DEF SidecarInit, Init, Abstract!Init, Sample, resolved
  <1>2. SidecarInv /\ [SidecarNext]_allVars => [Abstract!Next]_(Abstract!vars)
    BY SidecarUse, CoreDelivers DEF SidecarInv
  <1> QED BY <1>1, <1>2, SidecarInvariance, PTL
          DEF SidecarSpec, ImplementsInOrderDelivery, Abstract!Spec
=============================================================================
