---------------------------- MODULE ReaderProofs ----------------------------
(***************************************************************************)
(* Proofs about the Prometheus reader and its progress file: for every     *)
(* margin, queue bound and number of restarts, samples are lost only when  *)
(* a save overran the margin, and the saved offset moves forward.          *)
(***************************************************************************)
EXTENDS Reader, TLAPS

\* The initial states satisfy the invariant.
LEMMA InitIInv == Init => IInv
  BY ReaderAssumption DEF Init, IInv, TypeOK, SavedOK, RunOK,
     LossOnlyByOverrun, Record, Processed

\* Types are preserved by every step of the reader, of Prometheus, of the
\* queue manager and of the supervisor.
LEMMA NextTypeOK == IInv /\ [Next]_vars => TypeOK'
  <1> SUFFICES ASSUME IInv, [Next]_vars PROVE TypeOK'
    OBVIOUS
  <1> USE ReaderAssumption DEF IInv, TypeOK, Record
  <1>1. CASE Write BY <1>1 DEF Write
  <1>2. CASE ReadProgressFile BY <1>2 DEF ReadProgressFile
  <1>3. CASE RewriteProgressFile
    BY <1>3 DEF RewriteProgressFile, SaveProgressFile
  <1>4. CASE NextRecord
    <2>1. behind' \subseteq Record
      BY <1>4 DEF NextRecord, LeftBehind
    <2>2. saved' \in Int
      BY <1>4 DEF NextRecord, SaveProgressFile
    <2> QED BY <1>4, <2>1, <2>2 DEF NextRecord, Advance
  <1>5. CASE SeriesRecord
    <2>1. pos \in Record
      BY <1>5 DEF SeriesRecord, RunOK
    <2> QED BY <1>5, <2>1 DEF SeriesRecord
  <1>6. CASE SampleSkipped BY <1>6 DEF SampleSkipped
  <1>7. CASE SampleDropped
    BY <1>7 DEF SampleDropped, RunOK
  <1>8. CASE SampleAppended
    BY <1>8 DEF SampleAppended, RunOK
  <1>9. CASE \E n \in Record : Resolve(n) BY <1>9 DEF Resolve
  <1>10. CASE Crash BY <1>10 DEF Crash, End
  <1>11. CASE Shutdown BY <1>11 DEF Shutdown, End
  <1>12. CASE AllRead \/ UNCHANGED vars BY <1>12 DEF AllRead, vars
  <1> QED
    BY <1>1, <1>2, <1>3, <1>4, <1>5, <1>6, <1>7, <1>8, <1>9, <1>10, <1>11,
       <1>12 DEF Next, Run

\* The input does not change, resolved samples stay resolved, and the samples
\* left behind are remembered.
LEMMA StepMonotone ==
    IInv /\ [Next]_vars => rec' = rec /\ done \subseteq done' /\ behind \subseteq behind'
  <1> SUFFICES ASSUME IInv, [Next]_vars
      PROVE rec' = rec /\ done \subseteq done' /\ behind \subseteq behind'
    OBVIOUS
  <1>1. CASE Write \/ ReadProgressFile \/ RewriteProgressFile
    BY <1>1 DEF Write, ReadProgressFile, RewriteProgressFile
  <1>2. CASE Run
    BY <1>2 DEF Run, NextRecord, Advance, SeriesRecord, SampleSkipped,
       SampleDropped, SampleAppended
  <1>3. CASE (\E n \in Record : Resolve(n)) \/ Crash \/ Shutdown
    BY <1>3 DEF Resolve, Crash, Shutdown, End
  <1>4. CASE AllRead \/ UNCHANGED vars BY <1>4 DEF AllRead, vars
  <1> QED BY <1>1, <1>2, <1>3, <1>4 DEF Next

\* The samples the next start will skip are resolved, or left behind by the
\* save that made it skip them.
LEMMA NextSavedOK == IInv /\ [Next]_vars => SavedOK'
  <1> SUFFICES ASSUME IInv, [Next]_vars,
                      NEW n \in Record, IsSample(n)', n < saved'
      PROVE n \in done' \cup behind'
    BY DEF SavedOK, Record
  <1> USE ReaderAssumption DEF IInv, TypeOK, Record
  <1>0. rec' = rec /\ done \subseteq done' /\ behind \subseteq behind' /\ IsSample(n)
    BY StepMonotone DEF IsSample
  <1>1. CASE saved' = saved BY <1>0, <1>1 DEF SavedOK
  <1>2. CASE RewriteProgressFile /\ saved' # saved
    <2>1. n < start
      BY <1>2 DEF RewriteProgressFile, SaveProgressFile
    <2> QED BY <1>0, <1>2, <2>1 DEF RewriteProgressFile, RunOK
  <1>3. CASE NextRecord /\ saved' # saved
    <2>1. behind' = behind \cup LeftBehind(pos + 1) /\ saved' = pos + 1 - Margin
      BY <1>3, <1>0 DEF NextRecord, SaveProgressFile
    <2> QED BY <2>1, <1>0 DEF LeftBehind
  <1>4. saved' = saved \/ RewriteProgressFile \/ NextRecord
    BY DEF Next, Write, ReadProgressFile, Run, SeriesRecord, SampleSkipped,
       SampleDropped, SampleAppended, Resolve, Crash, Shutdown, End, AllRead,
       vars
  <1> QED BY <1>1, <1>2, <1>3, <1>4
\* What the running reader relies on is preserved: every start reads the
\* log from its beginning, so the series of all records passed are known.
LEMMA NextRunOK == IInv /\ [Next]_vars => RunOK'
  <1> SUFFICES ASSUME IInv, [Next]_vars PROVE RunOK'
    OBVIOUS
  <1> USE ReaderAssumption DEF IInv, TypeOK, RunOK, Record, Processed, IsSample
  <1>1. CASE Write BY <1>1 DEF Write
  <1>2. CASE ReadProgressFile BY <1>2 DEF ReadProgressFile, SavedOK
  <1>3. CASE RewriteProgressFile
    BY <1>3 DEF RewriteProgressFile, SaveProgressFile
  <1>4. CASE NextRecord
    <2>1. behind \subseteq behind' /\ saved' \in {saved, pos' - Margin}
      BY <1>4 DEF NextRecord, Advance, SaveProgressFile
    <2>2. saved' <= start' - Margin \/ saved' <= pos' - Margin
      BY <1>4, <2>1 DEF NextRecord, Advance
    <2> QED BY <1>4, <2>1, <2>2 DEF NextRecord, Advance
  <1>5. CASE SeriesRecord BY <1>5 DEF SeriesRecord
  <1>6. CASE SampleSkipped BY <1>6 DEF SampleSkipped
  <1>7. CASE SampleDropped BY <1>7 DEF SampleDropped
  <1>8. CASE SampleAppended BY <1>8 DEF SampleAppended
  <1>9. CASE \E n \in Record : Resolve(n) BY <1>9 DEF Resolve
  <1>10. CASE Crash \/ Shutdown BY <1>10 DEF Crash, Shutdown, End
  <1>11. CASE AllRead \/ UNCHANGED vars BY <1>11 DEF AllRead, vars
  <1> QED
    BY <1>1, <1>2, <1>3, <1>4, <1>5, <1>6, <1>7, <1>8, <1>9, <1>10, <1>11
    DEF Next, Run

\* A sample the reader passes is resolved, queued or left behind; the series
\* cache knows its series, which the log has before the sample.
LEMMA NextLossOnlyByOverrun == IInv /\ [Next]_vars => LossOnlyByOverrun'
  <1> SUFFICES ASSUME IInv, [Next]_vars PROVE LossOnlyByOverrun'
    OBVIOUS
  <1> USE ReaderAssumption DEF IInv, TypeOK, LossOnlyByOverrun, Record,
          Processed, IsSample
  <1>1. CASE Write BY <1>1 DEF Write
  <1>2. CASE ReadProgressFile BY <1>2 DEF ReadProgressFile
  <1>3. CASE RewriteProgressFile BY <1>3 DEF RewriteProgressFile, RunOK
  <1>4. CASE NextRecord
    <2>1. behind \subseteq behind'
      BY <1>4 DEF NextRecord
    <2> QED BY <1>4, <2>1 DEF NextRecord, Advance
  <1>5. CASE SeriesRecord BY <1>5 DEF SeriesRecord
  <1>6. CASE SampleSkipped
    <2>1. pos \in Record BY <1>6 DEF SampleSkipped, RunOK
    <2>2. rec[pos].ref \in cache
      <3>1. PICK m \in 1..(pos - 1) :
                rec[m] = [kind |-> "series", ref |-> rec[pos].ref]
        BY <1>6, <2>1 DEF SampleSkipped, ValidWAL
      <3>2. m \in Record /\ ~IsSample(m) /\ Processed(m)
        BY <2>1, <3>1
      <3> QED BY <1>6, <3>1, <3>2 DEF SampleSkipped, RunOK
    <2>3. pos \in done \cup behind
      BY <1>6, <2>1, <2>2 DEF SampleSkipped, RunOK
    <2> QED BY <1>6, <2>3 DEF SampleSkipped
  <1>7. CASE SampleDropped BY <1>7 DEF SampleDropped
  <1>8. CASE SampleAppended BY <1>8 DEF SampleAppended
  <1>9. CASE \E n \in Record : Resolve(n) BY <1>9 DEF Resolve
  <1>10. CASE Crash \/ Shutdown BY <1>10 DEF Crash, Shutdown, End
  <1>11. CASE AllRead \/ UNCHANGED vars BY <1>11 DEF AllRead, vars
  <1> QED
    BY <1>1, <1>2, <1>3, <1>4, <1>5, <1>6, <1>7, <1>8, <1>9, <1>10, <1>11
    DEF Next, Run

\* The invariant is inductive: it holds in every state of every behaviour of
\* the reader, whatever the crashes and restarts.
THEOREM ReaderInvariance == Spec => []IInv
  <1>1. IInv /\ [Next]_vars => IInv'
    <2> SUFFICES ASSUME IInv, [Next]_vars PROVE IInv'
      OBVIOUS
    <2>1. ValidWAL(rec)'
      <3>1. rec' = rec BY StepMonotone
      <3> QED BY <3>1 DEF IInv, ValidWAL
    <2> QED
      BY <2>1, NextTypeOK, NextSavedOK, NextRunOK, NextLossOnlyByOverrun
      DEF IInv
  <1> QED BY InitIInv, <1>1, PTL DEF Spec

\* For every margin, queue bound and number of restarts: a sample is lost by
\* the reader only if a save of the progress file left it behind the margin.
THEOREM LosesOnlyByOverrun == Spec => []LossOnlyByOverrun
  BY ReaderInvariance, PTL DEF IInv

\* While the reader runs, saves of the progress file only advance the offset.
THEOREM ProgressMovesForward == Spec => ProgressForward
  <1>1. IInv /\ [Next]_vars =>
            [(state \in {"next", "record"}) => saved <= saved']_vars
    <2> SUFFICES ASSUME IInv, [Next]_vars, state \in {"next", "record"}
        PROVE saved <= saved'
      OBVIOUS
    <2> USE ReaderAssumption DEF IInv, TypeOK
    <2>1. CASE NextRecord
      BY <2>1 DEF NextRecord, Advance, SaveProgressFile, RunOK
    <2>2. CASE ~NextRecord
      <3>1. saved' = saved
        BY <2>2 DEF Next, Write, ReadProgressFile, RewriteProgressFile, Run,
           SeriesRecord, SampleSkipped, SampleDropped, SampleAppended,
           Resolve, Crash, Shutdown, End, AllRead, vars
      <3> QED BY <3>1
    <2> QED BY <2>1, <2>2
  <1> QED BY ReaderInvariance, <1>1, PTL DEF Spec, ProgressForward
=============================================================================
