--------------------------- MODULE MCSampleBuilder ---------------------------
(* What the targets of the runs of SampleBuilder expose. *)
EXTENDS SampleBuilder

CONSTANTS t1, t2, h1, h2

OneTarget(l) == [t \in Targets |-> IF t = t1 THEN l ELSE <<>>]

Plain(kind, exported) ==
    [kind |-> kind, part |-> "none", le |-> 0, metric |-> 0, hash |-> h1,
     exported |-> exported, tracked |-> kind = "counter"]

Part(part, le, metric) ==
    [kind |-> "histogram", part |-> part, le |-> le, metric |-> metric,
     hash |-> IF metric = 1 THEN h1 ELSE h2, exported |-> TRUE, tracked |-> FALSE]

\* A counter whose name begins with that of the histogram before it.
Sibling == [Plain("counter", TRUE) EXCEPT !.part = "other", !.metric = 1, !.hash = h2]

\* Two targets whose counters become one Stackdriver series.
SharedCounter == [t \in Targets |-> <<[Plain("counter", TRUE) EXCEPT !.tracked = FALSE]>>]

PassLayouts ==
    {SharedCounter,
     OneTarget(<<Plain("counter", FALSE), [Plain("gauge", TRUE) EXCEPT !.hash = h2]>>),
     OneTarget(<<Plain("counter", TRUE)>>),
     OneTarget(<<Part("bucket", 2, 1), Part("bucket", 1, 1), Part("count", 0, 1)>>),
     OneTarget(<<Part("bucket", 2, 1), Part("count", 0, 1), Sibling>>),
     OneTarget(<<Part("count", 0, 1), Part("sum", 0, 1), Part("badle", 0, 1)>>),
     OneTarget(<<Part("count", 0, 1), Part("bucket", 2, 2), Part("count", 0, 2)>>)}

\* A series with a histogram's own name, for example a quantile of another
\* job's summary: the metadata cache knows one type per name.
BareLayouts == {OneTarget(<<Part("other", 0, 1)>>)}
==============================================================================
