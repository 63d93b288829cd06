------------------------------- MODULE Tailer -------------------------------
(***************************************************************************)
(* tail/tail.go: the tailer follows Prometheus' write ahead log, a         *)
(* directory of numbered segments, while Prometheus appends to the last    *)
(* segment, cuts new ones, and replaces the oldest by a checkpoint.  Data  *)
(* is counted in units; a unit is known by its segment and position.       *)
(***************************************************************************)
EXTENDS Integers, FiniteSets, FiniteSetsExt

CONSTANTS MaxSegment,  \* bound: segments are numbered 0..MaxSegment
          SegmentSize, \* units a segment can hold (const segmentSize)
          MaxCheckpoint \* bound: units in a checkpoint, which is a directory of
                        \* segments itself and may be longer than one

ASSUME TailerAssumption ==
    MaxSegment \in Nat /\ SegmentSize \in Nat \ {0} /\ MaxCheckpoint \in Nat

Segment == 0..MaxSegment

VARIABLES
    \* the directory, written by Prometheus
    len,         \* units written to each segment
    first, last, \* the segments that exist: first..last
    checkpoints, \* the checkpoints that exist, by the last segment covered
    \* the tailer
    state,       \* where Tail or Read is
    found,       \* Tail: the checkpoint found, or -1
    cur,         \* the segment being read; -1 for the checkpoint, or nothing
    left,        \* units left to read in the checkpoint
    nextSegment, offset, ctxDone,
    \* history
    got,         \* units read of each segment
    raced        \* data was added to cur between its EOF and the next open:
                 \* no, maybe (the open is yet to come), or yes

walVars == <<len, first, last, checkpoints>>
tailVars == <<state, found, cur, left, nextSegment, offset, got>>
vars == <<walVars, tailVars, ctxDone, raced>>

Exists(n) == n \in first..last

\* A WAL that may have been checkpointed before the tailer starts.
Init ==
    /\ len \in [Segment -> 0..SegmentSize]
    /\ last \in Segment /\ first \in 0..last
    /\ \A n \in Segment : n > last => len[n] = 0
    /\ checkpoints = IF first > 0 THEN {first - 1} ELSE {}
    /\ state = "tail" /\ found = -1 /\ cur = -1 /\ left = 0
    /\ nextSegment = 0 /\ offset = 0 /\ ctxDone = FALSE
    /\ got = [n \in Segment |-> 0] /\ raced = "no"

-----------------------------------------------------------------------------
(* Prometheus (external). *)

Write ==
    /\ len[last] < SegmentSize
    /\ len' = [len EXCEPT ![last] = @ + 1]
    /\ raced' = IF raced = "no" /\ cur = last /\ state \in {"eof", "open"}
                THEN "maybe" ELSE raced
    /\ UNCHANGED <<first, last, checkpoints, tailVars, ctxDone>>

Cut ==
    /\ last < MaxSegment
    /\ last' = last + 1
    /\ UNCHANGED <<len, first, checkpoints, tailVars, ctxDone, raced>>

\* Never the last segment, and the new checkpoint is complete before the
\* segments it covers, and older checkpoints, are deleted.
Checkpoint(k) ==
    /\ k \in first..(last - 1)
    /\ checkpoints' = checkpoints \cup {k}
    /\ UNCHANGED <<len, first, last, tailVars, ctxDone, raced>>

Truncate ==
    /\ checkpoints # {} /\ Max(checkpoints) >= first
    /\ first' = Max(checkpoints) + 1
    /\ UNCHANGED <<len, last, checkpoints, tailVars, ctxDone, raced>>

DeleteCheckpoints ==
    /\ checkpoints # {} /\ Max(checkpoints) < first
    /\ Cardinality(checkpoints) > 1
    /\ checkpoints' = {Max(checkpoints)}
    /\ UNCHANGED <<len, first, last, tailVars, ctxDone, raced>>

Cancel ==
    /\ ~ctxDone /\ ctxDone' = TRUE
    /\ UNCHANGED <<walVars, tailVars, raced>>

-----------------------------------------------------------------------------
(* Tail *)

\* LastCheckpoint; without one the tailer begins with segment 0.
TailFind ==
    /\ state = "tail"
    /\ IF checkpoints = {}
       THEN state' = "read" /\ UNCHANGED <<found, nextSegment>>
       ELSE /\ state' = "checkpoint" /\ found' = Max(checkpoints)
            /\ nextSegment' = Max(checkpoints) + 1
    /\ UNCHANGED <<walVars, cur, left, offset, got, ctxDone, raced>>

\* wal.NewSegmentsReader, which fails when the checkpoint is gone meanwhile.
\* All of its segments are read as one.
TailOpen ==
    /\ state = "checkpoint"
    /\ IF found \in checkpoints
       THEN state' = "read" /\ left' \in 0..MaxCheckpoint
       ELSE state' = "failed" /\ UNCHANGED left
    /\ UNCHANGED <<walVars, found, cur, nextSegment, offset, got, ctxDone, raced>>

-----------------------------------------------------------------------------
(* Read *)

\* t.cur.Read returns data.  A deleted file stays readable while it is open.
ReadData ==
    /\ state = "read"
    /\ IF cur = -1
       THEN left > 0 /\ left' = left - 1 /\ UNCHANGED got
       ELSE got[cur] < len[cur] /\ got' = [got EXCEPT ![cur] = @ + 1]
            /\ UNCHANGED left
    /\ offset' = offset + 1
    /\ UNCHANGED <<walVars, state, found, cur, nextSegment, ctxDone, raced>>

\* io.EOF: return it when cancelled, else look for the next segment.
ReadEOF ==
    /\ state = "read"
    /\ IF cur = -1 THEN left = 0 ELSE got[cur] = len[cur]
    /\ state' = IF ctxDone THEN "closed" ELSE "eof"
    /\ UNCHANGED <<walVars, found, cur, left, nextSegment, offset, got,
                   ctxDone, raced>>

\* Mutant: while waiting for the next segment the present one is not read.
OpenSegmentWaiting ==
    /\ state = "eof"
    /\ state' = CASE nextSegment > last -> "eof"
                  [] nextSegment < first -> "failed"
                  [] OTHER -> "open"
    /\ UNCHANGED <<walVars, found, cur, left, nextSegment, offset, got,
                   ctxDone, raced>>

\* openSegment lists the directory.  Nothing from nextSegment on: back off
\* and read again (or return EOF, cancelled during the backoff); only later
\* segments: an error.
OpenSegment ==
    /\ state = "eof"
    /\ state' \in CASE nextSegment > last ->
                         IF ctxDone THEN {"read", "closed"} ELSE {"read"}
                    [] nextSegment < first -> {"failed"}
                    [] OTHER -> {"open"}
    /\ raced' = IF raced = "maybe" /\ nextSegment > last THEN "no" ELSE raced
    /\ UNCHANGED <<walVars, found, cur, left, nextSegment, offset, got,
                   ctxDone>>

\* The present segment is left for good.
Leave == raced' = IF raced = "maybe" THEN "yes" ELSE raced

\* Mutant: the oldest segment there is will do.
OpenReadSegmentAny ==
    /\ state = "open"
    /\ state' = "read" /\ cur' = Max({nextSegment, first})
    /\ nextSegment' = cur' + 1 /\ offset' = 0 /\ Leave
    /\ UNCHANGED <<walVars, found, left, got, ctxDone>>

\* Mutant: incNextSegment does not reset the offset.
OpenReadSegmentKeeping ==
    /\ state = "open" /\ Exists(nextSegment)
    /\ state' = "read" /\ cur' = nextSegment /\ nextSegment' = nextSegment + 1
    /\ Leave
    /\ UNCHANGED <<walVars, found, left, offset, got, ctxDone>>

\* The file is opened, t.cur is replaced and incNextSegment counts on; an
\* error if the file was deleted since it was listed.
OpenReadSegment ==
    /\ state = "open"
    /\ IF Exists(nextSegment)
       THEN /\ state' = "read" /\ cur' = nextSegment
            /\ nextSegment' = nextSegment + 1 /\ offset' = 0 /\ Leave
       ELSE state' = "failed" /\ UNCHANGED <<cur, nextSegment, offset, raced>>
    /\ UNCHANGED <<walVars, found, left, got, ctxDone>>

Wal == Write \/ Cut \/ Truncate \/ DeleteCheckpoints
       \/ \E k \in Segment : Checkpoint(k)
Read == ReadData \/ ReadEOF \/ OpenSegment \/ OpenReadSegment

Done == state \in {"failed", "closed"}

Next == Wal \/ Cancel \/ TailFind \/ TailOpen \/ Read
        \/ (Done /\ UNCHANGED vars)

Spec == Init /\ [][Next]_vars

\* The tailer is scheduled; Prometheus need not do anything.
FairSpec == Spec /\ WF_vars(TailFind \/ TailOpen \/ Read)

-----------------------------------------------------------------------------
(* Size and Offset *)

Size == last * SegmentSize + len[last]

Offset == IF nextSegment = 0 THEN 0 ELSE (nextSegment - 1) * SegmentSize + offset

-----------------------------------------------------------------------------
(* Properties *)

\* All of every segment from the tailer's start up to the present one is read.
NothingSkipped ==
    \A n \in (found + 1)..(cur - 1) : got[n] = len[n]

(***************************************************************************)
(* tail.go:184-185: "Check if the next segment already exists. Then the    *)
(* current one is really done."  The tailer leaves a segment only when all *)
(* that was ever written to it has been read.                              *)
(***************************************************************************)
LeavesOnlyDoneSegments == NothingSkipped

(***************************************************************************)
(* The only way to skip data silently is a write to the segment between    *)
(* the EOF and the listing that finds the next one: truncation by          *)
(* Prometheus, however it interleaves, never makes the tailer jump.        *)
(***************************************************************************)
SkipsOnlyByRace == raced = "yes" \/ NothingSkipped

(***************************************************************************)
(* "Offset returns the approximate current position of the tailer in the   *)
(* WAL with respect to Size()" (tail.go:141-142).  calculateDesiredShards  *)
(* and the progress file take it for a position that moves on.  In a       *)
(* segment it is exact and never beyond Size, whatever Prometheus writes,  *)
(* cuts and deletes meanwhile; and it goes back in one place only, where   *)
(* a checkpoint of which more than a segment's worth was read is left for  *)
(* the first segment.                                                      *)
(***************************************************************************)
LeavesLongCheckpoint == cur = -1 /\ cur' # -1 /\ offset > SegmentSize

OffsetInStep ==
    [][state # "tail" =>
         /\ Offset <= Offset' \/ LeavesLongCheckpoint
         /\ cur' # -1 => Offset' = cur' * SegmentSize + got'[cur'] /\ Offset' <= Size']_vars

(***************************************************************************)
(* Data written to a segment is read, or the tailer has reported an error, *)
(* was cancelled, or the race above happened.  (Data covered by the        *)
(* checkpoint the tailer started from is read from there.)                 *)
(***************************************************************************)
DataIsRead ==
    \A n \in Segment, u \in 1..SegmentSize :
        (len[n] >= u) ~> (got[n] >= u \/ n <= found \/ Done \/ ctxDone
                           \/ raced = "yes")

\* Once cancelled, Read ends: it does not sit in its backoff for ever.
CancelEnds == ctxDone ~> Done
=============================================================================
