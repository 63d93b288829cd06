------------------------------- MODULE Sidecar -------------------------------
(***************************************************************************)
(* The life of the process: the run group of main.go around the queue      *)
(* manager.  Five actors run concurrently: the target cache, the signal    *)
(* handler, the Prometheus reader, the queue manager and the web server.   *)
(* When the first returns, the group interrupts all of them, one after the *)
(* other in the order they were added, and then waits for all to return.   *)
(* Interrupting does not wait for the actor: the reader may be running     *)
(* while queueManager.Stop() closes the queues it appends to.              *)
(***************************************************************************)
EXTENDS QueueManager

VARIABLES
    reader,   \* where the reader actor is
    group,    \* where Group.Run is: the actor whose interrupt is next
    returned, \* the actors that returned
    ctxDone,  \* the context of reader and tailer is cancelled
    late      \* number of Append calls begun after that

sidecarVars == <<reader, group, returned, ctxDone, late>>
allVars == <<vars, sidecarVars>>

Actors == <<"targets", "signal", "reader", "queue", "server">>

SidecarInit ==
    /\ Init
    /\ reader = "save" /\ group = 0 /\ returned = {}
    /\ ctxDone = FALSE /\ late = 0

Interrupted(a) == \E i \in 1..5 : i < group /\ Actors[i] = a

Return(a) == returned' = returned \cup {a}

-----------------------------------------------------------------------------
(* The actors *)

\* The target cache runs until its context is cancelled.
TargetsReturn ==
    /\ "targets" \notin returned /\ Interrupted("targets")
    /\ Return("targets")
    /\ UNCHANGED <<vars, reader, group, ctxDone, late>>

\* SIGTERM at any time, or the interrupt.
SignalReturn ==
    /\ "signal" \notin returned
    /\ Return("signal")
    /\ UNCHANGED <<vars, reader, group, ctxDone, late>>

\* The port is taken, the listener fails, or Shutdown was called.
ServerReturn ==
    /\ "server" \notin returned
    /\ Return("server")
    /\ UNCHANGED <<vars, reader, group, ctxDone, late>>

\* Start() has returned and the actor was released by close(cancel).
QueueReturn ==
    /\ "queue" \notin returned /\ starter = "done" /\ Interrupted("queue")
    /\ Return("queue")
    /\ UNCHANGED <<vars, reader, group, ctxDone, late>>

\* The progress file is written again; without permission the actor returns.
ReaderSave ==
    /\ reader = "save"
    /\ \/ reader' = "wait" /\ UNCHANGED returned
       \/ reader' = "exited" /\ Return("reader")
    /\ UNCHANGED <<vars, group, ctxDone, late>>

\* waitForPrometheus and the minute for the first scrapes, or cancellation.
\* Timing assumption: Start, under way since the group started, is done by
\* the end of that minute.
ReaderWait ==
    /\ reader = "wait"
    /\ \/ reader' = "run" /\ starter = "done" /\ UNCHANGED returned
       \/ reader' = "exited" /\ ctxDone /\ Return("reader")
    /\ UNCHANGED <<vars, group, ctxDone, late>>

\* Mutant: the context is not looked at between samples.
ReaderCheckNever ==
    /\ reader = "run" /\ appender = "idle"
    /\ \/ reader' = "append" /\ appended < NumSamples /\ UNCHANGED returned
       \/ reader' = "exited" /\ ctxDone /\ Return("reader")
    /\ UNCHANGED <<vars, group, ctxDone, late>>

\* PrometheusReader.Run before each sample: break Outer when cancelled.
\* The WAL may end (EOF from the tailer once cancelled) or be corrupt.
ReaderCheck ==
    /\ reader = "run" /\ appender = "idle"
    /\ \/ reader' = "append" /\ ~ctxDone /\ appended < NumSamples
          /\ UNCHANGED returned
       \/ reader' = "exited" /\ Return("reader")
    /\ UNCHANGED <<vars, group, ctxDone, late>>

ReaderAppend ==
    /\ reader = "append"
    /\ AppendCall
    /\ reader' = "run"
    /\ late' = IF ctxDone THEN late + 1 ELSE late
    /\ UNCHANGED <<group, returned, ctxDone>>

-----------------------------------------------------------------------------
(* Group.Run *)

FirstReturn ==
    /\ group = 0 /\ returned # {}
    /\ group' = 1
    /\ UNCHANGED <<vars, reader, returned, ctxDone, late>>

\* cancel() or close(cancel); Stop() for the queue manager, synchronously.
Interrupt ==
    /\ group \in 1..5
    /\ LET a == Actors[group]
       IN /\ ctxDone' = (ctxDone \/ a = "reader")
          /\ \/ a # "queue" /\ group' = group + 1 /\ UNCHANGED vars
             \/ a = "queue" /\ stopper = "init" /\ StopCall /\ UNCHANGED group
             \/ a = "queue" /\ stopper = "done" /\ group' = group + 1
                /\ UNCHANGED vars
    /\ UNCHANGED <<reader, returned, late>>

Join ==
    /\ group = 6 /\ \A i \in 1..5 : Actors[i] \in returned
    /\ group' = 7
    /\ UNCHANGED <<vars, reader, returned, ctxDone, late>>

-----------------------------------------------------------------------------

ActorStep == TargetsReturn \/ SignalReturn \/ ServerReturn \/ QueueReturn
             \/ ReaderSave \/ ReaderWait \/ ReaderCheck \/ ReaderAppend
GroupStep == FirstReturn \/ Interrupt \/ Join

SidecarTerminated == (group = 7 \/ ~Alive) /\ UNCHANGED allVars

SidecarNext ==
    \/ Alive /\ (ActorStep \/ GroupStep)
    \/ Alive /\ (StartLoops \/ Internal \/ AppendPanic) /\ UNCHANGED sidecarVars
    \/ SidecarTerminated

SidecarSpec == SidecarInit /\ [][SidecarNext]_allVars

\* No actor is starved; nobody has to send a signal before the interrupt.
SidecarFairness ==
    /\ Fairness
    /\ WF_vars(Alive /\ AppendPanic)
    /\ WF_allVars(Alive /\ GroupStep)
    /\ WF_allVars(Alive /\ (ReaderSave \/ ReaderWait \/ ReaderCheck \/ ReaderAppend))
    /\ WF_allVars(Alive /\ (TargetsReturn \/ QueueReturn))
    /\ WF_allVars(Alive /\ Interrupted("signal") /\ SignalReturn)
    /\ WF_allVars(Alive /\ Interrupted("server") /\ ServerReturn)

SidecarFairSpec == SidecarSpec /\ SidecarFairness

-----------------------------------------------------------------------------
(* Properties *)

(***************************************************************************)
(* However the shutdown interleaves with the reader, once Stop has         *)
(* returned every sample whose Append had returned is stored or given up;  *)
(* only the sample still in the hands of Append can be missing.            *)
(***************************************************************************)
ShutdownFlushes ==
    stopper = "done" =>
        1..appended \ resolved \subseteq IF appender = "idle" THEN {}
                                                              ELSE {appended}

(***************************************************************************)
(* The reader notices the cancellation between two samples: it begins at   *)
(* most one Append afterwards.                                             *)
(***************************************************************************)
AtMostOneLateAppend == late <= 1

(***************************************************************************)
(* If Start had returned when Stop was called, Group.Run returns: nobody   *)
(* waits for ever on a reshard, on the reader, or on the lock (unless the  *)
(* process panics, see NoAppendAfterClose).                                *)
(***************************************************************************)
ShutdownEnds ==
    (stopper = "wait" /\ starter = "done") ~> (group = 7 \/ ~Alive)

(***************************************************************************)
(* main.go:565-566: "Prometheus reader needs to be stopped before closing  *)
(* the TSDB so that it doesn't try to write samples to a closed storage."  *)
(* The reader never sends on a closed queue.                               *)
(***************************************************************************)
NoAppendAfterClose == ~(appender = "send" /\ "cur" \in closed)

-----------------------------------------------------------------------------
(* The inductive invariant, beyond the Core of the queue manager. *)

\* Group.Run calls Stop after the context of the reader has been cancelled, and
\* the reader appends nothing before Start has returned.  If it is about to when
\* Stop is done waiting, then reshardLoop has ended and did not begin later.
GroupOK ==
    /\ group \in 0..7 /\ ctxDone \in BOOLEAN
    /\ reader \in {"save", "wait", "run", "append", "exited"}
    /\ group >= 4 => ctxDone
    /\ stopper # "init" => group >= 4
    /\ reader \in {"run", "append"} => starter = "done"
    /\ starter # "done" => appended = 0
    /\ reader = "append" => stopper \in {"init", "wait"} \/ resharder = "exited"

\* The late Append is the one that the reader was about to make.
LateOK == late \in {0, 1} /\ (late = 1 => ctxDone /\ reader # "append")

SidecarInv == Core /\ GroupOK /\ LateOK
==============================================================================
