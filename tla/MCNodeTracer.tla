---------------------------- MODULE MCNodeTracer ----------------------------
EXTENDS NodeTracer

\* One span for each level that matters: a trace, and children while a request is in flight.
MCSpan == 1..2
=============================================================================
