------------------------- MODULE MCMaterialization -------------------------
(* Traces of one edge between two nodes.                                    *)
EXTENDS Materialization, TLC

CONSTANTS a, b, e

MCFrom == [x \in {e} |-> a]
MCTo   == [x \in {e} |-> b]

Span(v, t) == <<v, 0>> :> t[1] @@ <<v, 1>> :> t[2]
Open(v, t) == <<v, 0>> :> t

\* The edge's end is newer than the lookback reaches from its start; a node's is;
\* everything is within the lookback, the edge stamped before the node it leads to.
LongEdge == Open(a, 1) @@ Open(b, 2) @@ Span(e, <<2, 5>>)
LongNode == Open(a, 1) @@ Span(b, <<2, 5>>) @@ Open(e, 2)
Skewed   == Open(a, 1) @@ Span(b, <<2, 3>>) @@ Open(e, 1)
MCSchedules == {LongEdge, LongNode, Skewed}
=============================================================================
