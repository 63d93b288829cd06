------------------------------- MODULE Reader -------------------------------
(***************************************************************************)
(* retrieval/manager.go: the Prometheus reader and its progress file,      *)
(* across restarts of the sidecar.  The reader reads the write ahead log   *)
(* from its beginning after every start, learns the series, skips samples  *)
(* before the offset saved in the progress file, and hands the others to   *)
(* the queue manager, which sends them later and keeps them in memory only.*)
(* What is saved is the reader's offset less a fixed margin.               *)
(*                                                                         *)
(* A record has one series or one sample; the tailer's offset after record *)
(* n is n.  The log is neither truncated nor replaced by a checkpoint: no  *)
(* record goes before it is read, or has another offset after a restart.   *)
(***************************************************************************)
EXTENDS Integers, FiniteSets

CONSTANTS Refs,        \* series references
          NumRecords,  \* bound: records Prometheus writes
          Margin,      \* progressBufferMargin, in records
          QueueBound,  \* samples the queue manager can hold
          MaxRestarts  \* bound: times the sidecar ends

ASSUME ReaderAssumption ==
    /\ NumRecords \in Nat /\ Margin \in Nat
    /\ QueueBound \in Nat \ {0} /\ MaxRestarts \in Nat

Record == 1..NumRecords

VARIABLES
    rec,      \* the input: the kind and the series of each record
    written,  \* number of records Prometheus has written
    saved,    \* offset in the progress file, 0 when there is none
    state,    \* where the reader is
    start,    \* startOffset
    pos,      \* records read: the tailer's offset
    cache,    \* series references in the series cache
    inflight, \* samples accepted by the queue manager and not resolved
    done,     \* samples stored, rejected, or dropped on purpose, ever
    restarts, \* number of times the sidecar ended
    behind    \* history: samples a save left unresolved behind the margin

vars == <<rec, written, saved, state, start, pos, cache, inflight, done,
          restarts, behind>>

IsSample(n) == rec[n].kind = "samples"

\* Prometheus writes a series before the first sample of it.
ValidWAL(r) ==
    \A n \in Record : r[n].kind = "samples" =>
        \E m \in 1..(n - 1) : r[m] = [kind |-> "series", ref |-> r[n].ref]

Init ==
    /\ rec \in [Record -> [kind : {"series", "samples"}, ref : Refs]]
    /\ ValidWAL(rec)
    /\ written = 0 /\ saved = 0 /\ state = "down" /\ start = 0 /\ pos = 0
    /\ cache = {} /\ inflight = {} /\ done = {}
    /\ restarts = 0 /\ behind = {}

\* Prometheus (external).
Write ==
    /\ written < NumRecords
    /\ written' = written + 1
    /\ UNCHANGED <<rec, saved, state, start, pos, cache, inflight, done,
                   restarts, behind>>

-----------------------------------------------------------------------------
(* The reader actor of main.go *)

\* Mutant: without a readable file the reader starts at the end of the log.
ReadProgressFileAtEnd ==
    /\ state = "down"
    /\ state' = "save" /\ start' \in {saved, written}
    /\ pos' = 0 /\ cache' = {}
    /\ UNCHANGED <<rec, written, saved, inflight, done, restarts, behind>>

\* A file that cannot be read or parsed counts as offset 0.
ReadProgressFile ==
    /\ state = "down"
    /\ state' = "save" /\ start' \in {saved, 0}
    /\ pos' = 0 /\ cache' = {}
    /\ UNCHANGED <<rec, written, saved, inflight, done, restarts, behind>>

\* SaveProgressFile writes a temporary file and renames it.
SaveProgressFile(offset) == saved' = offset - Margin

\* The file is written again; the actor returns if that is not permitted.
RewriteProgressFile ==
    /\ state = "save"
    /\ \/ /\ SaveProgressFile(start) /\ state' = "next"
          /\ UNCHANGED restarts
       \/ /\ restarts < MaxRestarts /\ restarts' = restarts + 1
          /\ state' = "down" /\ UNCHANGED saved
    /\ UNCHANGED <<rec, written, start, pos, cache, inflight, done, behind>>

-----------------------------------------------------------------------------
(* PrometheusReader.Run *)

LeftBehind(offset) ==
    {n \in Record : IsSample(n) /\ n < offset - Margin /\ n \notin done}

Advance ==
    /\ state = "next" /\ pos < written
    /\ pos' = pos + 1 /\ state' = "record"
    /\ UNCHANGED <<rec, written, start, cache, inflight, done, restarts>>

\* Mutant: progress is saved also while samples are still skipped.
NextRecordSaving ==
    /\ Advance
    /\ \/ SaveProgressFile(pos + 1)
          /\ behind' = behind \cup LeftBehind(pos + 1)
       \/ UNCHANGED <<saved, behind>>

\* reader.Next() and, at most once per interval and beyond startOffset, a
\* save, which may fail.
NextRecord ==
    /\ Advance
    /\ \/ pos + 1 > start /\ SaveProgressFile(pos + 1)
          /\ behind' = behind \cup LeftBehind(pos + 1)
       \/ UNCHANGED <<saved, behind>>

\* Mutant: all records before startOffset are skipped.
SeriesRecordSkipped ==
    /\ state = "record" /\ ~IsSample(pos)
    /\ state' = "next"
    /\ cache' = IF pos < start THEN cache ELSE cache \cup {rec[pos].ref}
    /\ UNCHANGED <<rec, written, saved, start, pos, inflight, done, restarts,
                   behind>>

SeriesRecord ==
    /\ state = "record" /\ ~IsSample(pos)
    /\ state' = "next"
    /\ cache' = cache \cup {rec[pos].ref}
    /\ UNCHANGED <<rec, written, saved, start, pos, inflight, done, restarts,
                   behind>>

\* Before startOffset, or of a series the cache does not have.
SampleSkipped ==
    /\ state = "record" /\ IsSample(pos)
    /\ pos < start \/ rec[pos].ref \notin cache
    /\ state' = "next"
    /\ UNCHANGED <<rec, written, saved, start, pos, cache, inflight, done,
                   restarts, behind>>

\* builder.next yields nothing for it: filtered, stale, or an error, logged.
\* (When the series cannot be looked up it is tried again after a backoff.)
SampleDropped ==
    /\ state = "record" /\ IsSample(pos)
    /\ pos >= start /\ rec[pos].ref \in cache
    /\ state' = "next" /\ done' = done \cup {pos}
    /\ UNCHANGED <<rec, written, saved, start, pos, cache, inflight, restarts,
                   behind>>

\* Append, blocked while the queues are full.
SampleAppended ==
    /\ state = "record" /\ IsSample(pos)
    /\ pos >= start /\ rec[pos].ref \in cache
    /\ Cardinality(inflight) < QueueBound
    /\ state' = "next" /\ inflight' = inflight \cup {pos}
    /\ UNCHANGED <<rec, written, saved, start, pos, cache, done, restarts,
                   behind>>

\* The queue manager stores a sample or gives it up, in any order here.
Resolve(n) ==
    /\ n \in inflight
    /\ inflight' = inflight \ {n} /\ done' = done \cup {n}
    /\ UNCHANGED <<rec, written, saved, state, start, pos, cache, restarts,
                   behind>>

-----------------------------------------------------------------------------
(* The process ends: what is queued dies with it, or is flushed by Stop. *)

End(lost) ==
    /\ state # "down" /\ restarts < MaxRestarts
    /\ state' = "down" /\ restarts' = restarts + 1
    /\ inflight' = {} /\ done' = done \cup (inflight \ lost)
    /\ UNCHANGED <<rec, written, saved, start, pos, cache, behind>>

Crash == End(inflight)
Shutdown == End({})

Run == NextRecord \/ SeriesRecord \/ SampleSkipped \/ SampleDropped
       \/ SampleAppended

\* Everything was read and resolved: Prometheus is silent (the bound).
AllRead == /\ state = "next" /\ pos = NumRecords /\ inflight = {}
           /\ UNCHANGED vars

Next == \/ Write \/ ReadProgressFile \/ RewriteProgressFile \/ Run
        \/ \E n \in Record : Resolve(n)
        \/ Crash \/ Shutdown
        \/ AllRead

Spec == Init /\ [][Next]_vars

\* The supervisor restarts the sidecar, the reader is scheduled and the queue
\* manager resolves what it holds (QueueManager!EventuallyResolved).
FairSpec ==
    /\ Spec
    /\ WF_vars(ReadProgressFile \/ RewriteProgressFile \/ Run)
    /\ \A n \in Record : WF_vars(Resolve(n))

-----------------------------------------------------------------------------
(* Properties *)

TypeOK ==
    /\ rec \in [Record -> [kind : {"series", "samples"}, ref : Refs]]
    /\ written \in 0..NumRecords
    /\ saved \in Int /\ start \in Int
    /\ state \in {"down", "save", "next", "record"}
    /\ pos \in 0..written
    /\ cache \subseteq Refs
    /\ inflight \subseteq Record /\ done \subseteq Record
    /\ restarts \in 0..MaxRestarts
    /\ behind \subseteq Record

\* Record n has gone through the loop of Run since the last start.
Processed(n) == n < pos \/ (n = pos /\ state = "next")

(***************************************************************************)
(* manager.go:296-297: "Adjust offset to account for buffered records that *)
(* possibly haven't been written yet."  A sample the running reader is     *)
(* past is lost only if, at some save, the queue manager still held it     *)
(* further back than the margin: neither crashes nor shutdowns, nor an     *)
(* unreadable progress file, nor the series learnt anew lose any other.    *)
(***************************************************************************)
LossOnlyByOverrun ==
    state # "down" =>
        \A n \in Record :
            IsSample(n) /\ Processed(n) => n \in done \cup inflight \cup behind

(***************************************************************************)
(* Between starts the saved offset only moves on: replaying the log from   *)
(* its beginning ("offset > startOffset", manager.go:189) does not reset   *)
(* it, so that a crash during the replay costs no progress.  (The offset   *)
(* moves on here; see OffsetInStep of Tailer for where it does not.)       *)
(***************************************************************************)
ProgressForward ==
    [][(state \in {"next", "record"}) => saved <= saved']_vars

(***************************************************************************)
(* Whatever the restarts, every sample written is eventually resolved,     *)
(* except those a save left behind the margin.                             *)
(***************************************************************************)
EventuallyDone ==
    \A n \in Record :
        (written >= n /\ IsSample(n)) ~> (n \in done \cup behind)

-----------------------------------------------------------------------------
(* The inductive invariant *)

\* What the next start will skip is resolved, or was left behind.
SavedOK ==
    \A n \in Record : IsSample(n) /\ n < saved => n \in done \cup behind

\* What the running reader relies on.
RunOK ==
    /\ state = "down" => inflight = {}
    /\ state = "save" => pos = 0 /\ inflight = {}
    /\ state = "record" => pos >= 1
    /\ state \in {"next", "record"} =>
         saved <= start - Margin \/ saved <= pos - Margin
    /\ state # "down" =>
         \A n \in Record :
             /\ IsSample(n) /\ n < start => n \in done \cup behind
             /\ ~IsSample(n) /\ Processed(n) => rec[n].ref \in cache

IInv == TypeOK /\ ValidWAL(rec) /\ SavedOK /\ RunOK /\ LossOnlyByOverrun
=============================================================================
