--------------------------- MODULE InOrderDelivery ---------------------------
(***************************************************************************)
(* What the queue manager promises the rest of the sidecar, without its    *)
(* shards, queues, locks and goroutines: samples are accepted one by one,  *)
(* and are handed to the storage in batches that hold at most one point of *)
(* each series, always the oldest one of that series that has not been     *)
(* resolved yet.  A batch may be handed over again (a retry) until it is   *)
(* resolved: stored, or dropped after an unrecoverable error.              *)
(***************************************************************************)
EXTENDS Naturals

CONSTANTS Hashes,            \* the series, known by the hash of their labels
          NumSamples         \* bound: how many samples the reader produces

VARIABLES hash,      \* hash[n] is the series of the n-th sample
          accepted,  \* number of samples accepted so far
          lastSent,  \* lastSent[h]: the last sample of series h sent, or 0
          resolved   \* samples stored or given up

vars == <<hash, accepted, lastSent, resolved>>

Init == /\ hash \in [1..NumSamples -> Hashes]
        /\ accepted = 0
        /\ lastSent = [h \in Hashes |-> 0]
        /\ resolved = {}

Accept == /\ accepted < NumSamples
          /\ accepted' = accepted + 1
          /\ UNCHANGED <<hash, lastSent, resolved>>

Unresolved == 1..accepted \ resolved

(***************************************************************************)
(* A set that may be sent in one request: every member is the oldest       *)
(* unresolved sample of its series, hence no two are of the same series.   *)
(***************************************************************************)
IsFront(B) == /\ B \subseteq Unresolved
              /\ \A n \in B, m \in Unresolved : hash[m] = hash[n] => n <= m

Deliver(B) == /\ IsFront(B)
              /\ lastSent' = [h \in Hashes |->
                                IF \E n \in B : hash[n] = h
                                THEN CHOOSE n \in B : hash[n] = h
                                ELSE lastSent[h]]
              /\ resolved' \in {resolved, resolved \cup B}
              /\ UNCHANGED <<hash, accepted>>

Next == Accept \/ \E B \in SUBSET (1..NumSamples) : Deliver(B)

Spec == Init /\ [][Next]_vars
=============================================================================
