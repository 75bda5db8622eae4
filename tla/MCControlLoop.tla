----------------------------- MODULE MCControlLoop -----------------------------
\* Two loops, each on its own point: they share the queues of writes, responses
\* and reports.
EXTENDS ControlLoop, TLC

CONSTANTS l1, l2, p1, p2

mcPointOf == (l1 :> p1) @@ (l2 :> p2)
=============================================================================
