------------------------------ MODULE FlowOrder ------------------------------
(***************************************************************************)
(* computeFlowOrder (flowOrder.ts): Kahn's algorithm with a priority queue *)
(* on start time and id, which forces every node that is left into the     *)
(* queue when a cycle keeps it empty.  A rebuild calls it with the nodes   *)
(* and edges it has folded; it runs without a wait, one turn of its loop   *)
(* at a time here.                                                         *)
(*                                                                         *)
(* The in-degree of a node is kept as the set of edges it counts.          *)
(***************************************************************************)
EXTENDS Naturals, FiniteSets, Sequences

CONSTANTS
  Node,      \* node ids, compared as strings in the code, as numbers here
  Edge,      \* edge ids
  From, To   \* the ends of each edge: nodes, or ids no node has

ASSUME FlowOrderAssumption == Node \subseteq Nat /\ IsFiniteSet(Edge)

VARIABLES
  busy,        \* a call is running
  nodes,       \* the call's nodes
  edges,       \* the call's edges
  startedAt,   \* start times of the nodes
  blocking,    \* inDegree: per node, the incoming edges not yet discounted
  candidates,  \* the priority queue
  order,       \* the nodes in the order given so far: flowOrder is the index, from 0
  cycles       \* diagCycles

orderVars == <<busy, nodes, edges, startedAt, blocking, candidates, order, cycles>>

-----------------------------------------------------------------------------
(* Helpers *)

\* An edge with an end outside the call's nodes is an orphan and counts for nothing.
Known(ns, es) == {e \in es : From[e] \in ns /\ To[e] \in ns}
Loops(ns, es) == {e \in Known(ns, es) : From[e] = To[e]}

processed == {order[i] : i \in 1 .. Len(order)}

Before(n, m) == startedAt[n] < startedAt[m] \/ (startedAt[n] = startedAt[m] /\ n < m)

First(n) == n \in candidates /\ \A m \in candidates \ {n} : Before(n, m)

Outgoing(n) == {e \in Known(nodes, edges) : From[e] = n}

-----------------------------------------------------------------------------
InitIdle ==
  /\ busy = FALSE
  /\ nodes = {} /\ edges = {}
  /\ startedAt = [n \in Node |-> 0]
  /\ blocking = [n \in Node |-> {}]
  /\ candidates = {} /\ order = <<>> /\ cycles = 0

\* Mutant: edges are counted at their source.
Call_Source(ns, es, times) ==
  /\ ~busy /\ busy' = TRUE
  /\ nodes' = ns /\ edges' = es /\ startedAt' = times
  /\ blocking' = [n \in Node |-> {e \in Known(ns, es) : From[e] = n}]
  /\ candidates' = {n \in ns : \A e \in Known(ns, es) : From[e] /= n}
  /\ order' = <<>> /\ cycles' = Cardinality(Loops(ns, es))

\* The adjacency list, the in-degrees and the first candidates.
Call(ns, es, times) ==
  /\ ~busy /\ busy' = TRUE
  /\ nodes' = ns /\ edges' = es /\ startedAt' = times
  /\ blocking' = [n \in Node |-> {e \in Known(ns, es) : To[e] = n}]
  /\ candidates' = {n \in ns : \A e \in Known(ns, es) : To[e] /= n}
  /\ order' = <<>> /\ cycles' = Cardinality(Loops(ns, es))

\* The queue is empty and nodes are left: a cycle, broken by queueing all of them.
Break ==
  /\ busy /\ candidates = {} /\ processed /= nodes
  /\ cycles' = cycles + 1
  /\ candidates' = nodes \ processed
  /\ UNCHANGED <<busy, nodes, edges, startedAt, blocking, order>>

\* The first candidate gets the next number and frees those it blocked.
Take(n) ==
  /\ busy /\ First(n) /\ n \notin processed
  /\ order' = Append(order, n)
  /\ blocking' = [m \in Node |-> blocking[m] \ Outgoing(n)]
  /\ candidates' = (candidates \ {n}) \cup
                     {m \in nodes : blocking[m] \cap Outgoing(n) /= {} /\ blocking'[m] = {}}
  /\ UNCHANGED <<busy, nodes, edges, startedAt, cycles>>

\* A node that a broken cycle queued early comes out again when its last edge is discounted.
Skip(n) ==
  /\ busy /\ First(n) /\ n \in processed
  /\ candidates' = candidates \ {n}
  /\ UNCHANGED <<busy, nodes, edges, startedAt, blocking, order, cycles>>

Return ==
  /\ busy /\ candidates = {} /\ processed = nodes
  /\ busy' = FALSE
  /\ UNCHANGED <<nodes, edges, startedAt, blocking, candidates, order, cycles>>

Turn == Break \/ Return \/ \E n \in Node : Take(n) \/ Skip(n)

\* The algorithm on its own: any calls, one after the other.
FlowNext ==
  \/ Turn
  \/ \E ns \in SUBSET Node, es \in SUBSET Edge, times \in [Node -> Nat] : Call(ns, es, times)

FlowSpec == InitIdle /\ [][FlowNext]_orderVars

-----------------------------------------------------------------------------
(* Properties *)

OrderTypeOK ==
  /\ busy \in BOOLEAN
  /\ nodes \subseteq Node /\ edges \subseteq Edge
  /\ startedAt \in [Node -> Nat]
  /\ blocking \in [Node -> SUBSET Edge]
  /\ candidates \subseteq Node
  /\ order \in Seq(Node)
  /\ cycles \in Nat

\* No node gets two numbers, and a call that returned has numbered all its nodes.
AllOrdered ==
  /\ \A i, j \in 1 .. Len(order) : order[i] = order[j] => i = j
  /\ processed \subseteq nodes
  /\ ~busy => processed = nodes

\* Unless a cycle was counted, an edge between known nodes goes forward: its target has
\* a number only when its source has a lower one.
EdgesGoForward ==
  cycles = 0 =>
    \A e \in Known(nodes, edges), j \in 1 .. Len(order) :
      order[j] = To[e] => \E i \in 1 .. j - 1 : order[i] = From[e]

\* Unless a cycle was counted, of two neighbours in the order the first starts first (or has
\* the smaller id), or the second is its effect.
EarliestFirst ==
  cycles = 0 =>
    \A i \in 1 .. Len(order) - 1 :
      \/ Before(order[i], order[i + 1])
      \/ \E e \in Outgoing(order[i]) : To[e] = order[i + 1]

\* A cycle is counted only if there is one: a set of nodes none of which can be first,
\* for each has an edge from another of them or from itself.
CyclesAreReal ==
  cycles > 0 =>
    \E S \in (SUBSET nodes) \ {{}} :
      \A n \in S : \E e \in Known(nodes, edges) : To[e] = n /\ From[e] \in S

\* What the readers of flowOrder rely on (flowOrder.ts:83-111): a numbering of all nodes
\* in which causes come first and, where they leave a choice, what started first; except
\* across cycles, and diagCycles tells of one only if the trace has one.  A discount missed
\* or made twice on any path of the queue breaks it.
OrderSound == AllOrdered /\ EdgesGoForward /\ EarliestFirst /\ CyclesAreReal
=============================================================================
