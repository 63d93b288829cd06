---------------------------- MODULE TailerProofs ----------------------------
(***************************************************************************)
(* TLAPS proofs about Tailer: what the tailer can skip, and how its Offset *)
(* moves, for any number and size of segments.                             *)
(***************************************************************************)
EXTENDS Tailer, WellFoundedInduction, TLAPS

-----------------------------------------------------------------------------
(* The inductive invariant. *)

\* Every variable of the tailer and of the history has its type.
TypeOK ==
    /\ state \in {"tail", "checkpoint", "read", "eof", "open", "closed", "failed"}
    /\ found \in Int /\ found >= -1 /\ cur \in {-1} \cup Segment
    /\ left \in Nat /\ nextSegment \in Nat /\ offset \in Nat
    /\ got \in [Segment -> Nat] /\ raced \in {"no", "maybe", "yes"}

\* The directory: the last segment always exists, so a checkpoint covers only
\* earlier ones, and nothing is written beyond the last.
WalOK ==
    /\ len \in [Segment -> 0..SegmentSize]
    /\ last \in Segment /\ first \in 0..last
    /\ checkpoints \in SUBSET (0..(last - 1))

\* nextSegment is the one after the segment, or the checkpoint, that is read.
Position ==
    /\ nextSegment = 1 + (IF cur = -1 THEN found ELSE cur)
    /\ cur # -1 => found < cur /\ cur <= last
    /\ state \in {"tail", "checkpoint"} => cur = -1 /\ offset = 0 /\ left = 0
    /\ state = "tail" => found = -1

\* The offset counts what was read of the present segment, or of the
\* checkpoint; nothing of later segments has been read.
Counted ==
    /\ \A n \in Segment : got[n] <= len[n]
    /\ \A n \in Segment : n > cur => got[n] = 0
    /\ cur # -1 => offset = got[cur]

\* Between its EOF and the next open the present segment has been read to the
\* end, unless it was written to meanwhile.
ReadToEnd ==
    state \in {"eof", "open"} /\ cur # -1 /\ raced = "no" => got[cur] = len[cur]

IInv == TypeOK /\ WalOK /\ Position /\ Counted /\ ReadToEnd /\ SkipsOnlyByRace

-----------------------------------------------------------------------------
(* Lemmas about numbers. *)

\* A set of natural numbers has a least element.
LEMMA LeastNumber ==
  ASSUME NEW T \in SUBSET Nat, T # {}
  PROVE  \E m \in T : \A n \in T : m <= n
  <1> DEFINE R == OpToRel(<, Nat)
  <1>1. IsWellFoundedOn(R, Nat)
    BY NatLessThanWellFounded
  <1>2. \A x, y \in Nat : y < x => <<y, x>> \in R
    BY DEF OpToRel
  <1> HIDE DEF R
  <1>3. PICK m \in T : \A n \in T : ~(<<n, m>> \in R)
    BY <1>1, WFMin
  <1>4. \A n \in T : ~(n < m)
    BY <1>2, <1>3
  <1>5. \A n \in T : m <= n
    BY <1>4
  <1> QED BY <1>5

\* Max of a bounded set of natural numbers is in it and above all others.
LEMMA MaxIsGreatest ==
  ASSUME NEW T, NEW b \in Nat, T \subseteq 0..b, T # {}
  PROVE  Max(T) \in T /\ \A n \in T : n <= Max(T)
  <1> DEFINE U == {b - n : n \in T}
  <1>1. U \in SUBSET Nat /\ U # {}
    OBVIOUS
  <1> HIDE DEF U
  <1>2. PICK u \in U : \A v \in U : u <= v
    BY <1>1, LeastNumber
  <1>3. PICK m \in T : u = b - m
    BY DEF U
  <1>4. ASSUME NEW n \in T PROVE m >= n
    <2>1. u <= b - n
      BY <1>2 DEF U
    <2> QED BY <1>3, <2>1
  <1>5. \E x \in T : \A y \in T : x >= y
    BY <1>4
  <1>6. Max(T) \in T /\ \A y \in T : Max(T) >= y
    BY <1>5 DEF Max
  <1> QED BY <1>6

\* The newest checkpoint covers segments before the last.
LEMMA NewestCheckpoint ==
  ASSUME TailerAssumption, WalOK, checkpoints # {}
  PROVE  Max(checkpoints) \in checkpoints /\ Max(checkpoints) \in 0..(last - 1)
  <1>1. last \in Nat
    BY DEF WalOK, Segment, TailerAssumption
  <1>2. checkpoints \subseteq 0..(last - 1)
    BY DEF WalOK
  <1>3. last - 1 \in Nat
    <2>1. PICK c \in checkpoints : c \in 0..(last - 1)
      BY <1>2
    <2> QED BY <1>1, <2>1
  <1> QED BY <1>2, <1>3, MaxIsGreatest

-----------------------------------------------------------------------------
(* The invariant holds initially and is preserved by every step. *)

\* The initial state satisfies the invariant.
LEMMA InvInit == Init => IInv
  <1> SUFFICES ASSUME Init PROVE IInv
    OBVIOUS
  <1> USE TailerAssumption DEF TailerAssumption
  <1>1. TypeOK
    BY DEF Init, TypeOK, Segment
  <1>2. WalOK
    <2>1. last \in Nat /\ first \in 0..last
      BY DEF Init, Segment
    <2>2. checkpoints \subseteq 0..(last - 1)
      BY <2>1 DEF Init
    <2> QED BY <2>1, <2>2 DEF Init, WalOK
  <1>3. Position /\ ReadToEnd
    BY DEF Init, Position, ReadToEnd
  <1>4. Counted
    BY DEF Init, Counted
  <1>5. SkipsOnlyByRace
    BY DEF Init, SkipsOnlyByRace, NothingSkipped
  <1> QED BY <1>1, <1>2, <1>3, <1>4, <1>5 DEF IInv

\* A write reaches the last segment only: what was left behind stays complete,
\* and a write to a segment at its EOF is marked.
LEMMA WriteInv ==
  ASSUME IInv, Write
  PROVE  IInv'
  <1> USE TailerAssumption DEF TailerAssumption
  <1>1. /\ len' = [len EXCEPT ![last] = @ + 1] /\ len[last] < SegmentSize
        /\ raced' = IF raced = "no" /\ cur = last /\ state \in {"eof", "open"}
                    THEN "maybe" ELSE raced
        /\ UNCHANGED <<first, last, checkpoints>>
        /\ UNCHANGED <<state, found, cur, left, nextSegment, offset, got>>
    BY DEF Write, tailVars
  <1>2. /\ len \in [Segment -> 0..SegmentSize] /\ last \in Segment
        /\ len' \in [Segment -> 0..SegmentSize]
        /\ len'[last] = len[last] + 1
        /\ \A n \in Segment \ {last} : len'[n] = len[n]
    BY <1>1 DEF IInv, WalOK
  <1>3. TypeOK'
    BY <1>1 DEF IInv, TypeOK, Segment
  <1>4. WalOK'
    BY <1>1, <1>2 DEF IInv, WalOK, Segment
  <1>5. Position'
    BY <1>1 DEF IInv, Position
  <1>6. Counted'
    <2>1. ASSUME NEW n \in Segment PROVE got[n] <= len'[n]
      <3>1. got[n] \in Nat /\ len[n] \in Nat /\ got[n] <= len[n]
        BY <1>2 DEF IInv, TypeOK, Counted
      <3> QED BY <1>2, <3>1
    <2> QED BY <1>1, <2>1 DEF IInv, Counted, Segment
  <1>7. ReadToEnd'
    BY <1>1, <1>2 DEF IInv, TypeOK, ReadToEnd
  <1>8. SkipsOnlyByRace'
    <2>1. CASE raced = "yes"
      BY <1>1, <2>1 DEF SkipsOnlyByRace
    <2>2. CASE NothingSkipped
      <3>1. ASSUME NEW n \in (found + 1)..(cur - 1)
            PROVE  n \in Segment \ {last}
        BY DEF IInv, TypeOK, WalOK, Position, Segment
      <3>2. \A n \in (found + 1)..(cur - 1) : got[n] = len'[n]
        BY <1>2, <2>2, <3>1 DEF NothingSkipped
      <3> QED BY <1>1, <3>2 DEF SkipsOnlyByRace, NothingSkipped
    <2> QED BY <2>1, <2>2 DEF IInv, SkipsOnlyByRace
  <1> QED BY <1>3, <1>4, <1>5, <1>6, <1>7, <1>8 DEF IInv

\* The other steps of Prometheus change the directory only, and never the data
\* of a segment.
LEMMA DirectoryInv ==
  ASSUME IInv, Cut \/ Truncate \/ DeleteCheckpoints
                \/ \E k \in Segment : Checkpoint(k)
  PROVE  IInv'
  <1> USE TailerAssumption DEF TailerAssumption
  <1>1. /\ UNCHANGED <<state, found, cur, left, nextSegment, offset, got>>
        /\ raced' = raced /\ len' = len
    BY DEF Cut, Truncate, DeleteCheckpoints, Checkpoint, tailVars
  <1>2. last \in Nat /\ last <= MaxSegment /\ first \in 0..last
        /\ checkpoints \subseteq 0..(last - 1)
    BY DEF IInv, WalOK, Segment
  <1>3. /\ last' \in Segment /\ last <= last' /\ first' \in 0..last'
        /\ checkpoints' \subseteq 0..(last' - 1)
    <2>1. CASE Cut
      BY <1>2, <2>1 DEF Cut, Segment
    <2>2. CASE Truncate
      BY <1>2, <2>2, NewestCheckpoint DEF Truncate, IInv, Segment
    <2>3. CASE DeleteCheckpoints
      BY <1>2, <2>3, NewestCheckpoint DEF DeleteCheckpoints, IInv, Segment
    <2>4. CASE \E k \in Segment : Checkpoint(k)
      BY <1>2, <2>4 DEF Checkpoint, Segment
    <2> QED BY <2>1, <2>2, <2>3, <2>4
  <1>4. TypeOK' /\ WalOK' /\ Counted' /\ ReadToEnd'
    BY <1>1, <1>3 DEF IInv, TypeOK, WalOK, Counted, ReadToEnd, Segment
  <1>5. Position'
    BY <1>1, <1>2, <1>3 DEF IInv, TypeOK, Position, Segment
  <1>6. SkipsOnlyByRace'
    BY <1>1 DEF IInv, SkipsOnlyByRace, NothingSkipped
  <1> QED BY <1>4, <1>5, <1>6 DEF IInv

\* Tail finds the newest checkpoint and opens it.
LEMMA TailInv ==
  ASSUME IInv, TailFind \/ TailOpen
  PROVE  IInv'
  <1> USE TailerAssumption DEF TailerAssumption
  <1>1. /\ UNCHANGED <<len, first, last, checkpoints>>
        /\ UNCHANGED <<cur, offset, got, raced>>
    BY DEF TailFind, TailOpen, walVars
  <1>2. /\ cur = -1 /\ offset = 0 /\ left = 0 /\ nextSegment = 1 + found
        /\ found \in Int /\ found >= -1
    BY DEF IInv, TypeOK, Position, TailFind, TailOpen, Segment
  <1>3. \E f \in Int, d \in 0..MaxCheckpoint :
          /\ f >= -1 /\ found' = f /\ nextSegment' = 1 + f /\ left' = d
          /\ \/ state' = "checkpoint" /\ d = 0
             \/ state' \in {"read", "failed"}
    <2>1. CASE TailFind
      <3>1. left' = 0
        BY <1>2, <2>1 DEF TailFind
      <3>2. CASE checkpoints = {}
        BY <1>2, <2>1, <3>1, <3>2 DEF TailFind
      <3>3. CASE checkpoints # {}
        BY <1>2, <2>1, <3>1, <3>3, NewestCheckpoint DEF TailFind, IInv, WalOK, Segment
      <3> QED BY <3>2, <3>3
    <2>2. CASE TailOpen
      BY <1>2, <2>2 DEF TailOpen
    <2> QED BY <2>1, <2>2
  <1>4. PICK f \in Int, d \in 0..MaxCheckpoint :
          /\ f >= -1 /\ found' = f /\ nextSegment' = 1 + f /\ left' = d
          /\ \/ state' = "checkpoint" /\ d = 0
             \/ state' \in {"read", "failed"}
    BY <1>3
  <1>5. TypeOK'
    BY <1>1, <1>4 DEF IInv, TypeOK, Segment
  <1>6. WalOK'
    BY <1>1 DEF IInv, WalOK, Segment
  <1>7. Position' /\ ReadToEnd'
    BY <1>1, <1>2, <1>4 DEF Position, ReadToEnd
  <1>8. Counted'
    BY <1>1, <1>2, <1>4 DEF IInv, Counted, Segment
  <1>9. SkipsOnlyByRace'
    <2>1. (f + 1)..(cur - 1) = {}
      BY <1>2, <1>4
    <2> QED BY <1>1, <1>4, <2>1 DEF SkipsOnlyByRace, NothingSkipped
  <1> QED BY <1>5, <1>6, <1>7, <1>8, <1>9 DEF IInv

\* Data is read of the checkpoint or of the present segment.
LEMMA ReadDataInv ==
  ASSUME IInv, ReadData
  PROVE  IInv'
  <1> USE TailerAssumption DEF TailerAssumption
  <1>1. /\ UNCHANGED <<len, first, last, checkpoints>>
        /\ UNCHANGED <<state, found, cur, nextSegment, raced>>
        /\ state = "read" /\ offset' = offset + 1
    BY DEF ReadData, walVars
  <1>2. WalOK' /\ ReadToEnd'
    BY <1>1 DEF IInv, WalOK, ReadToEnd, Segment
  <1>3. Position'
    BY <1>1 DEF IInv, Position
  <1>4. CASE cur = -1
    <2>1. left > 0 /\ left' = left - 1 /\ got' = got
      BY <1>4 DEF ReadData
    <2>2. TypeOK'
      BY <1>1, <2>1 DEF IInv, TypeOK, Segment
    <2>3. Counted'
      BY <1>1, <1>4, <2>1 DEF IInv, TypeOK, Counted, Segment
    <2>4. SkipsOnlyByRace'
      BY <1>1, <2>1 DEF IInv, SkipsOnlyByRace, NothingSkipped
    <2> QED BY <1>2, <1>3, <2>2, <2>3, <2>4 DEF IInv
  <1>5. CASE cur # -1
    <2>1. /\ got[cur] < len[cur] /\ got' = [got EXCEPT ![cur] = @ + 1]
          /\ left' = left
      BY <1>5 DEF ReadData
    <2>2. /\ cur \in Segment /\ got \in [Segment -> Nat] /\ got[cur] \in Nat
          /\ len[cur] \in Nat
      BY <1>5 DEF IInv, TypeOK, WalOK
    <2>3. /\ got'[cur] = got[cur] + 1 /\ \A n \in Segment \ {cur} : got'[n] = got[n]
          /\ got' \in [Segment -> Nat]
      BY <2>1, <2>2
    <2>4. TypeOK'
      BY <1>1, <2>1, <2>3 DEF IInv, TypeOK, Segment
    <2>5. Counted'
      <3>1. \A n \in Segment : got'[n] <= len[n]
        BY <2>1, <2>2, <2>3 DEF IInv, Counted
      <3>2. \A n \in Segment : n > cur => got'[n] = 0
        BY <2>2, <2>3 DEF IInv, Counted, Segment
      <3>3. offset' = got'[cur]
        BY <1>1, <1>5, <2>2, <2>3 DEF IInv, Counted
      <3> QED BY <1>1, <1>5, <3>1, <3>2, <3>3 DEF Counted
    <2>6. SkipsOnlyByRace'
      <3>1. \A n \in (found + 1)..(cur - 1) : n \in Segment \ {cur}
        BY <2>2 DEF IInv, TypeOK, Segment
      <3> QED BY <1>1, <2>3, <3>1 DEF IInv, SkipsOnlyByRace, NothingSkipped
    <2> QED BY <1>2, <1>3, <2>4, <2>5, <2>6 DEF IInv
  <1> QED BY <1>4, <1>5

\* EOF is met, and the directory is listed.
LEMMA ListInv ==
  ASSUME IInv, ReadEOF \/ OpenSegment
  PROVE  IInv'
  <1> USE TailerAssumption DEF TailerAssumption
  <1>1. /\ UNCHANGED <<len, first, last, checkpoints>>
        /\ UNCHANGED <<found, cur, left, nextSegment, offset, got>>
    BY DEF ReadEOF, OpenSegment, walVars
  <1>2. /\ state \in {"read", "eof"}
        /\ state' \in {"eof", "closed", "read", "failed", "open"}
        /\ state' \in {"eof", "open"} => raced' = raced
        /\ state = "read" => raced' = raced /\ (cur # -1 => got[cur] = len[cur])
        /\ raced' \in {raced, "no"} /\ (raced = "yes" => raced' = "yes")
    <2>1. CASE ReadEOF
      BY <2>1 DEF ReadEOF
    <2>2. CASE OpenSegment
      <3>1. state = "eof"
        BY <2>2 DEF OpenSegment
      <3>2. CASE nextSegment > last
        BY <2>2, <3>1, <3>2 DEF OpenSegment
      <3>3. CASE ~(nextSegment > last)
        BY <2>2, <3>1, <3>3 DEF OpenSegment
      <3> QED BY <3>2, <3>3
    <2> QED BY <2>1, <2>2
  <1>3. TypeOK' /\ WalOK'
    BY <1>1, <1>2 DEF IInv, TypeOK, WalOK, Segment
  <1>4. Position' /\ Counted'
    BY <1>1, <1>2 DEF IInv, Position, Counted, Segment
  <1>5. ReadToEnd'
    BY <1>1, <1>2 DEF IInv, ReadToEnd
  <1>6. SkipsOnlyByRace'
    BY <1>1, <1>2 DEF IInv, SkipsOnlyByRace, NothingSkipped
  <1> QED BY <1>3, <1>4, <1>5, <1>6 DEF IInv

\* The next segment is opened: the one left is complete or was written to.
LEMMA OpenReadSegmentInv ==
  ASSUME IInv, OpenReadSegment
  PROVE  IInv'
  <1> USE TailerAssumption DEF TailerAssumption
  <1>1. /\ UNCHANGED <<len, first, last, checkpoints>>
        /\ UNCHANGED <<found, left, got>> /\ state = "open"
    BY DEF OpenReadSegment, walVars
  <1>2. WalOK'
    BY <1>1 DEF IInv, WalOK, Segment
  <1>3. CASE ~Exists(nextSegment)
    <2>1. state' = "failed" /\ UNCHANGED <<cur, nextSegment, offset, raced>>
      BY <1>3 DEF OpenReadSegment
    <2>2. TypeOK' /\ Position' /\ Counted' /\ ReadToEnd'
      BY <1>1, <2>1 DEF IInv, TypeOK, Position, Counted, ReadToEnd, Segment
    <2>3. SkipsOnlyByRace'
      BY <1>1, <2>1 DEF IInv, SkipsOnlyByRace, NothingSkipped
    <2> QED BY <1>2, <2>2, <2>3 DEF IInv
  <1>4. CASE Exists(nextSegment)
    <2>1. /\ state' = "read" /\ cur' = nextSegment
          /\ nextSegment' = nextSegment + 1 /\ offset' = 0
          /\ raced' = IF raced = "maybe" THEN "yes" ELSE raced
      BY <1>4 DEF OpenReadSegment, Leave
    <2>2. /\ nextSegment \in Segment /\ nextSegment <= last
          /\ found \in Int /\ found >= -1 /\ cur \in Int
          /\ nextSegment = 1 + (IF cur = -1 THEN found ELSE cur)
          /\ found < nextSegment /\ cur < nextSegment
      BY <1>4 DEF Exists, IInv, TypeOK, WalOK, Position, Segment
    <2>3. TypeOK'
      BY <1>1, <2>1, <2>2 DEF IInv, TypeOK, Segment
    <2>4. Position' /\ ReadToEnd'
      BY <1>1, <2>1, <2>2 DEF Position, ReadToEnd, Segment
    <2>5. Counted'
      BY <1>1, <2>1, <2>2 DEF IInv, Counted, Segment
    <2>6. SkipsOnlyByRace'
      <3>1. CASE raced = "no"
        <4>1. NothingSkipped
          BY <3>1 DEF IInv, SkipsOnlyByRace
        <4>2. ASSUME NEW n \in (found + 1)..(nextSegment - 1)
              PROVE  got[n] = len[n]
          <5>1. CASE cur = -1
            BY <2>2, <5>1
          <5>2. CASE cur # -1
            <6>1. n \in (found + 1)..(cur - 1) \/ n = cur
              BY <2>2, <5>2
            <6> QED BY <1>1, <3>1, <4>1, <5>2, <6>1 DEF NothingSkipped, IInv, ReadToEnd
          <5> QED BY <5>1, <5>2
        <4> QED BY <1>1, <2>1, <4>2 DEF SkipsOnlyByRace, NothingSkipped
      <3>2. CASE raced # "no"
        BY <2>1, <3>2 DEF IInv, TypeOK, SkipsOnlyByRace
      <3> QED BY <3>1, <3>2
    <2> QED BY <1>2, <2>3, <2>4, <2>5, <2>6 DEF IInv
  <1> QED BY <1>3, <1>4

\* A step that changes no variable of the invariant.
LEMMA StutterInv ==
  ASSUME IInv, Cancel \/ UNCHANGED vars
  PROVE  IInv'
  <1>1. /\ UNCHANGED <<len, first, last, checkpoints>>
        /\ UNCHANGED <<state, found, cur, left, nextSegment, offset, got, raced>>
    BY DEF Cancel, vars, walVars, tailVars
  <1> QED BY <1>1 DEF IInv, TypeOK, WalOK, Position, Counted, ReadToEnd,
                      SkipsOnlyByRace, NothingSkipped, Segment

\* Every step preserves the invariant.
LEMMA InvNext == IInv /\ [Next]_vars => IInv'
  <1> SUFFICES ASSUME IInv, [Next]_vars PROVE IInv'
    OBVIOUS
  <1>1. CASE Wal
    BY <1>1, WriteInv, DirectoryInv DEF Wal
  <1>2. CASE TailFind \/ TailOpen
    BY <1>2, TailInv
  <1>3. CASE Read
    BY <1>3, ReadDataInv, ListInv, OpenReadSegmentInv DEF Read
  <1>4. CASE Cancel \/ UNCHANGED vars
    BY <1>4, StutterInv
  <1> QED BY <1>1, <1>2, <1>3, <1>4 DEF Next

\* Every reachable state satisfies the invariant.
THEOREM Invariance == Spec => []IInv
  BY InvInit, InvNext, PTL DEF Spec

\* The tailer skips data of a segment only by a write between the EOF of the
\* segment and the open of the next, whatever Prometheus truncates.
THEOREM SkipsOnlyByRaceHolds == Spec => []SkipsOnlyByRace
  <1>1. IInv => SkipsOnlyByRace
    BY DEF IInv
  <1> QED BY <1>1, Invariance, PTL

-----------------------------------------------------------------------------
(* Size and Offset. *)

\* Products with the size of a segment, in the two forms used below.
LEMMA SegmentTimes ==
  ASSUME TailerAssumption, NEW m \in Nat
  PROVE  /\ m * SegmentSize \in Nat
         /\ (m + 1) * SegmentSize = m * SegmentSize + SegmentSize
         /\ \A n \in Nat : m < n => (m + 1) * SegmentSize <= n * SegmentSize
  <1>1. SegmentSize \in Nat
    BY DEF TailerAssumption
  <1>2. m * SegmentSize \in Nat /\ (m + 1) * SegmentSize = m * SegmentSize + SegmentSize
    BY <1>1
  <1>3. ASSUME NEW n \in Nat, m < n PROVE (m + 1) * SegmentSize <= n * SegmentSize
    <2>1. PICK d \in Nat : n = (m + 1) + d
      BY <1>3, n - (m + 1) \in Nat
    <2>2. d * SegmentSize \in Nat
          /\ n * SegmentSize = (m + 1) * SegmentSize + d * SegmentSize
      BY <1>1, <2>1
    <2> QED BY <1>1, <2>2
  <1> QED BY <1>2, <1>3

\* In a segment the offset is exact and not beyond the end of the log.
LEMMA OffsetExact ==
  IInv /\ cur # -1 => Offset = cur * SegmentSize + got[cur] /\ Offset <= Size
  <1> SUFFICES ASSUME IInv, cur # -1
               PROVE  Offset = cur * SegmentSize + got[cur] /\ Offset <= Size
    OBVIOUS
  <1> USE TailerAssumption DEF TailerAssumption
  <1>1. /\ cur \in Nat /\ cur \in Segment /\ last \in Nat /\ cur <= last
        /\ nextSegment = cur + 1 /\ offset = got[cur] /\ got[cur] \in Nat
        /\ got[cur] <= len[cur] /\ len[cur] \in 0..SegmentSize
        /\ len[last] \in 0..SegmentSize
    BY DEF IInv, TypeOK, WalOK, Position, Counted, Segment
  <1>2. Offset = cur * SegmentSize + got[cur]
    BY <1>1 DEF Offset
  <1>3. CASE cur = last
    BY <1>1, <1>2, <1>3, SegmentTimes DEF Size
  <1>4. CASE cur < last
    <2>1. (cur + 1) * SegmentSize <= last * SegmentSize
      BY <1>1, <1>4, SegmentTimes
    <2>2. /\ (cur + 1) * SegmentSize = cur * SegmentSize + SegmentSize
          /\ cur * SegmentSize \in Nat /\ last * SegmentSize \in Nat
      BY <1>1, SegmentTimes
    <2> HIDE DEF TailerAssumption
    <2>3. Size = last * SegmentSize + len[last]
      BY DEF Size
    <2>4. SegmentSize \in Nat
      BY DEF TailerAssumption
    <2> QED BY <1>1, <1>2, <2>1, <2>2, <2>3, <2>4
  <1> QED BY <1>1, <1>2, <1>3, <1>4

\* The offset does not go back: at a new segment it is at the end of the one
\* before, of which no more than SegmentSize can have been read; of a checkpoint
\* that may be more, and then it goes back when the checkpoint is left.
LEMMA OffsetGrows ==
  ASSUME IInv, Next, state # "tail", ~LeavesLongCheckpoint
  PROVE  Offset <= Offset'
  <1> USE TailerAssumption DEF TailerAssumption
  <1>1. /\ nextSegment \in Nat /\ offset \in Nat /\ Offset \in Nat
        /\ cur # -1 => offset <= SegmentSize
    <2>1. nextSegment \in Nat /\ offset \in Nat
      BY DEF IInv, TypeOK
    <2>2. ASSUME cur # -1 PROVE offset <= SegmentSize
      <3>1. /\ offset = got[cur] /\ got[cur] <= len[cur]
            /\ len[cur] \in 0..SegmentSize
        BY <2>2 DEF IInv, TypeOK, WalOK, Counted
      <3> QED BY <2>1, <3>1
    <2>3. nextSegment # 0 => (nextSegment - 1) * SegmentSize \in Nat
      BY <2>1, nextSegment # 0 => nextSegment - 1 \in Nat, SegmentTimes
    <2> QED BY <2>1, <2>2, <2>3 DEF Offset
  <1>2. CASE nextSegment' = nextSegment /\ offset' = offset
    BY <1>1, <1>2 DEF Offset
  <1>3. CASE nextSegment' = nextSegment /\ offset' = offset + 1
    <2>1. CASE nextSegment = 0
      BY <1>3, <2>1 DEF Offset
    <2>2. CASE nextSegment # 0
      <3>1. (nextSegment - 1) * SegmentSize \in Nat
        BY <1>1, <2>2, nextSegment - 1 \in Nat, SegmentTimes
      <3>2. /\ Offset = (nextSegment - 1) * SegmentSize + offset
            /\ Offset' = (nextSegment - 1) * SegmentSize + (offset + 1)
        BY <1>3, <2>2 DEF Offset
      <3> QED BY <1>1, <3>1, <3>2
    <2> QED BY <2>1, <2>2
  <1>4. CASE nextSegment' = nextSegment + 1 /\ offset' = 0 /\ offset <= SegmentSize
    <2>1. Offset' = nextSegment * SegmentSize /\ nextSegment * SegmentSize \in Nat
      <3>1. /\ nextSegment' # 0 /\ nextSegment' - 1 = nextSegment
            /\ nextSegment * SegmentSize \in Nat
        BY <1>1, <1>4, SegmentTimes
      <3>2. Offset' = (nextSegment' - 1) * SegmentSize + offset'
        BY <3>1 DEF Offset
      <3> QED BY <1>4, <3>1, <3>2
    <2>2. CASE nextSegment = 0
      BY <2>1, <2>2 DEF Offset
    <2>3. CASE nextSegment # 0
      <3>1. /\ Offset = (nextSegment - 1) * SegmentSize + offset
            /\ (nextSegment - 1) * SegmentSize \in Nat
            /\ nextSegment * SegmentSize = (nextSegment - 1) * SegmentSize + SegmentSize
        BY <1>1, <2>3, nextSegment - 1 \in Nat, (nextSegment - 1) + 1 = nextSegment,
           SegmentTimes DEF Offset
      <3> QED BY <1>1, <1>4, <2>1, <3>1
    <2> QED BY <2>2, <2>3
  <1>5. CASE Wal \/ Cancel \/ UNCHANGED vars
    BY <1>2, <1>5 DEF Wal, Write, Cut, Checkpoint, Truncate, DeleteCheckpoints,
                      Cancel, vars, tailVars
  <1>6. CASE TailOpen \/ ReadData \/ ReadEOF \/ OpenSegment
    BY <1>2, <1>3, <1>6 DEF TailOpen, ReadData, ReadEOF, OpenSegment
  <1>7. CASE OpenReadSegment
    <2>1. CASE Exists(nextSegment)
      <3>1. cur' # -1
        BY <1>1, <1>7, <2>1 DEF OpenReadSegment
      <3>2. offset <= SegmentSize
        BY <1>1, <3>1 DEF LeavesLongCheckpoint
      <3> QED BY <1>4, <1>7, <2>1, <3>2 DEF OpenReadSegment
    <2>2. CASE ~Exists(nextSegment)
      BY <1>2, <1>7, <2>2 DEF OpenReadSegment
    <2> QED BY <2>1, <2>2
  <1> QED BY <1>5, <1>6, <1>7 DEF Next, Read, TailFind

\* In a segment Offset is exact and not beyond Size, and it goes back only where
\* a checkpoint longer than a segment is left, for checkpoints of any length.
THEOREM OffsetInStepHolds == Spec => OffsetInStep
  <1> DEFINE Step == state # "tail" =>
                       /\ Offset <= Offset' \/ LeavesLongCheckpoint
                       /\ cur' # -1 => /\ Offset' = cur' * SegmentSize + got'[cur']
                                       /\ Offset' <= Size'
  <1>1. IInv /\ IInv' /\ (IInv /\ cur # -1 => Offset = cur * SegmentSize + got[cur]
                                            /\ Offset <= Size)'
          /\ [Next]_vars => [Step]_vars
    BY OffsetGrows
  <1> QED BY <1>1, Invariance, OffsetExact, PTL DEF Spec, OffsetInStep
=============================================================================
