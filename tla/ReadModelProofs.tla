--------------------------- MODULE ReadModelProofs ---------------------------
(***************************************************************************)
(* Theorems about FlowOrder, for any nodes, edges and start times, and     *)
(* about ReadModel, for any traces, page sizes and number of failures:     *)
(* its rebuilds keep to what FlowOrder may be called with, so every flow   *)
(* order they save is sound; what they save is a numbering without gaps,   *)
(* and a walk that is not disturbed is given all of it.  About             *)
(* FlowProjection, for any view: what it makes of a page, disturbed or     *)
(* not, accounts for all nodes and edges.  The lemmas about FlowOrder's    *)
(* actions ask nothing of the times, for a rebuild calls it with whatever  *)
(* it folds.                                                               *)
(***************************************************************************)
EXTENDS FlowProjection, FiniteSetTheorems, WellFoundedInduction, TLAPS

-----------------------------------------------------------------------------
(* The inductive invariant.                                                *)

\* The types of what the algorithm itself writes.
FlowTypes ==
  /\ busy \in BOOLEAN
  /\ nodes \subseteq Node /\ edges \subseteq Edge
  /\ blocking \in [Node -> SUBSET Edge]
  /\ candidates \subseteq nodes
  /\ order \in Seq(Node)
  /\ cycles \in Nat

\* An edge blocks its target as long as its source has no number.
BlockingCounts ==
  \A m \in Node : blocking[m] = {e \in Known(nodes, edges) : To[e] = m /\ From[e] \notin processed}

\* Without a cycle the queue holds exactly the nodes that are free and have no number.
QueueIsFree ==
  cycles = 0 => \A m \in nodes : blocking[m] = {} <=> m \in candidates \cup processed

\* Without a cycle what is queued starts after the last node taken, or is its effect.
QueueFollows ==
  cycles = 0 /\ order /= <<>> =>
    \A m \in candidates :
      Before(order[Len(order)], m) \/ \E e \in Outgoing(order[Len(order)]) : To[e] = m

FlowInv == FlowTypes /\ BlockingCounts /\ QueueIsFree /\ QueueFollows /\ OrderSound

-----------------------------------------------------------------------------
\* What appending to the order does.
LEMMA AppendOrder ==
  ASSUME FlowTypes, NEW n \in Node, order' = Append(order, n)
  PROVE  /\ Len(order) \in Nat
         /\ order' \in Seq(Node)
         /\ Len(order') = Len(order) + 1
         /\ order'[Len(order) + 1] = n
         /\ \A i \in 1 .. Len(order) : order'[i] = order[i]
         /\ processed' = processed \cup {n}
<1>0. order \in Seq(Node)
  BY DEF FlowTypes
<1>1. Len(order) \in Nat /\ order' \in Seq(Node) /\ Len(order') = Len(order) + 1
  BY <1>0
<1>2. order'[Len(order) + 1] = n /\ \A i \in 1 .. Len(order) : order'[i] = order[i]
  BY <1>0
<1>3. 1 .. Len(order') = 1 .. Len(order) \cup {Len(order) + 1}
  BY <1>1
<1>4. processed' = processed \cup {n}
  BY <1>1, <1>2, <1>3 DEF processed
<1> QED BY <1>1, <1>2, <1>4

\* Nodes, edges and times do not change during a call.
LEMMA Same ==
  ASSUME nodes' = nodes, edges' = edges, startedAt' = startedAt
  PROVE  /\ Known(nodes, edges)' = Known(nodes, edges)
         /\ \A a, b : Before(a, b)' <=> Before(a, b)
         /\ \A a : Outgoing(a)' = Outgoing(a)
BY DEF Known, Before, Outgoing

\* The invariant holds between calls.
LEMMA InitFlowInv == InitIdle => FlowInv
<1> SUFFICES ASSUME InitIdle PROVE FlowInv
  OBVIOUS
<1> USE DEF InitIdle
<1>1. FlowTypes
  <2>1. order \in Seq(Node) /\ blocking \in [Node -> SUBSET Edge]
    OBVIOUS
  <2>2. nodes \subseteq Node /\ edges \subseteq Edge /\ candidates \subseteq nodes /\ cycles \in Nat
    OBVIOUS
  <2> QED BY <2>1, <2>2 DEF FlowTypes
<1>2. processed = {} /\ Known(nodes, edges) = {}
  BY DEF processed, Known
<1>3. BlockingCounts /\ QueueIsFree /\ QueueFollows
  BY <1>2 DEF BlockingCounts, QueueIsFree, QueueFollows
<1>4. OrderSound
  BY <1>2 DEF OrderSound, AllOrdered, EdgesGoForward, EarliestFirst, CyclesAreReal
<1> QED BY <1>1, <1>3, <1>4 DEF FlowInv

\* A call may be made with any nodes, edges and times.
LEMMA CallFlowInv ==
  ASSUME NEW ns \in SUBSET Node, NEW es \in SUBSET Edge, NEW times, Call(ns, es, times)
  PROVE  FlowInv'
<1> USE DEF Call
<1>1. Known(ns, es) \subseteq Edge /\ IsFiniteSet(Loops(ns, es))
  BY FlowOrderAssumption, FS_Subset DEF Known, Loops
<1>2. Cardinality(Loops(ns, es)) \in Nat
  BY <1>1, FS_CardinalityType
<1>3. FlowTypes'
  BY <1>1, <1>2 DEF FlowTypes
<1>4. processed' = {} /\ Known(ns, es)' = Known(ns, es)
  BY DEF processed, Known
<1>5. BlockingCounts'
  BY <1>4 DEF BlockingCounts, Known
<1>6. QueueIsFree' /\ QueueFollows'
  BY <1>4 DEF QueueIsFree, QueueFollows, Known
<1>7. AllOrdered' /\ EdgesGoForward' /\ EarliestFirst'
  BY <1>4 DEF AllOrdered, EdgesGoForward, EarliestFirst
<1>8. CyclesAreReal'
  <2> SUFFICES ASSUME Loops(ns, es) /= {}
               PROVE  \E S \in (SUBSET ns) \ {{}} :
                        \A n \in S : \E e \in Known(ns, es) : To[e] = n /\ From[e] \in S
    BY <1>1, FS_EmptySet DEF CyclesAreReal, Known
  <2>1. PICK e \in Loops(ns, es) : TRUE
    OBVIOUS
  <2>2. e \in Known(ns, es) /\ From[e] \in ns /\ To[e] = From[e]
    BY DEF Loops, Known
  <2>3. {From[e]} \in (SUBSET ns) \ {{}}
    BY <2>2
  <2> QED BY <2>2, <2>3
<1> QED BY <1>3, <1>5, <1>6, <1>7, <1>8 DEF FlowInv, OrderSound

\* A broken cycle: the nodes that are left block each other.
LEMMA BreakFlowInv == ASSUME FlowInv, Break PROVE FlowInv'
<1> USE DEF FlowInv, Break
<1>1. FlowTypes'
  BY DEF FlowTypes
<1>2. processed' = processed /\ Known(nodes, edges)' = Known(nodes, edges) /\ cycles' > 0
  BY DEF processed, Known, FlowTypes
<1>3. BlockingCounts' /\ QueueIsFree' /\ QueueFollows'
  BY <1>2 DEF BlockingCounts, QueueIsFree, QueueFollows, FlowTypes
<1>4. AllOrdered' /\ EdgesGoForward' /\ EarliestFirst'
  BY <1>2 DEF OrderSound, AllOrdered, EdgesGoForward, EarliestFirst, FlowTypes
<1>5. CyclesAreReal'
  <2>1. CASE cycles > 0
    BY <2>1, <1>2 DEF OrderSound, CyclesAreReal
  <2>2. CASE cycles = 0
    <3> DEFINE S == nodes \ processed
    <3>1. S \in (SUBSET nodes) \ {{}}
      <4>1. processed \subseteq nodes /\ processed /= nodes
        BY DEF OrderSound, AllOrdered
      <4> QED BY <4>1
    <3>2. ASSUME NEW n \in S PROVE \E e \in Known(nodes, edges) : To[e] = n /\ From[e] \in S
      <4>1. n \in Node /\ blocking[n] /= {}
        BY <2>2 DEF QueueIsFree, FlowTypes
      <4>2. PICK e \in Known(nodes, edges) : To[e] = n /\ From[e] \notin processed
        BY <4>1 DEF BlockingCounts
      <4> QED BY <4>2 DEF Known
    <3> QED BY <3>1, <3>2, <1>2 DEF CyclesAreReal
  <2> QED BY <2>1, <2>2 DEF FlowTypes
<1> QED BY <1>1, <1>3, <1>4, <1>5 DEF OrderSound

\* The first candidate gets the next number.
LEMMA TakeFlowInv == ASSUME FlowInv, NEW n \in Node, Take(n) PROVE FlowInv'
<1> USE DEF FlowInv, Take
<1> DEFINE K == Known(nodes, edges)
           out == Outgoing(n)
           freed == {m \in nodes : blocking[m] \cap out /= {} /\ blocking'[m] = {}}
<1>1. /\ Len(order) \in Nat /\ order' \in Seq(Node) /\ Len(order') = Len(order) + 1
      /\ order'[Len(order) + 1] = n
      /\ \A i \in 1 .. Len(order) : order'[i] = order[i]
      /\ processed' = processed \cup {n}
  BY AppendOrder
<1>2. n \in candidates /\ n \in nodes /\ n \notin processed
  BY DEF First, FlowTypes
<1>3. Known(nodes, edges)' = K /\ out = {e \in K : From[e] = n} /\ nodes' = nodes
  BY DEF Known, Outgoing
<1>4. FlowTypes'
  BY <1>1 DEF FlowTypes
<1>5. BlockingCounts'
  <2>1. ASSUME NEW m \in Node
        PROVE  blocking'[m] = {e \in K : To[e] = m /\ From[e] \notin processed \cup {n}}
    BY <1>3 DEF BlockingCounts
  <2> QED BY <2>1, <1>1, <1>3 DEF BlockingCounts
<1>6. QueueIsFree'
  <2> SUFFICES ASSUME cycles = 0, NEW m \in nodes
               PROVE  blocking'[m] = {} <=> m \in candidates' \cup processed'
    BY <1>3 DEF QueueIsFree
  <2>1. m \in Node /\ blocking'[m] = blocking[m] \ out
    BY DEF FlowTypes
  <2>2. blocking[m] = {} <=> m \in candidates \cup processed
    BY DEF QueueIsFree
  <2>3. candidates' = (candidates \ {n}) \cup freed
    OBVIOUS
  <2> QED BY <2>1, <2>2, <2>3, <1>1, <1>2
<1>7. QueueFollows'
  <2> SUFFICES ASSUME cycles = 0, NEW m \in candidates'
               PROVE  Before(n, m) \/ \E e \in out : To[e] = m
    <3>1. order'[Len(order')] = n
      BY <1>1
    <3> QED BY <3>1, <1>3, Same DEF QueueFollows
  <2>1. CASE m \in candidates \ {n}
    BY <2>1 DEF First
  <2>2. CASE m \in freed
    <3>1. m \in Node
      BY <2>2 DEF FlowTypes
    <3>2. PICK e \in out : e \in blocking[m]
      BY <2>2
    <3> QED BY <3>1, <3>2 DEF BlockingCounts
  <2> QED BY <2>1, <2>2
<1>8. AllOrdered'
  <2>1. processed' \subseteq nodes'
    BY <1>1, <1>2, <1>3 DEF OrderSound, AllOrdered
  <2>2. ASSUME NEW i \in 1 .. Len(order'), NEW j \in 1 .. Len(order'), order'[i] = order'[j]
        PROVE  i = j
    <3>1. \A k \in 1 .. Len(order) : order'[k] /= n
      BY <1>1, <1>2 DEF processed
    <3>2. ASSUME NEW k \in 1 .. Len(order') PROVE k \in 1 .. Len(order) \/ k = Len(order) + 1
      BY <1>1
    <3> QED BY <2>2, <3>1, <3>2, <1>1 DEF OrderSound, AllOrdered
  <2> QED BY <2>1, <2>2 DEF AllOrdered
<1>9. EdgesGoForward'
  <2> SUFFICES ASSUME cycles = 0, NEW e \in K, NEW j \in 1 .. Len(order'), order'[j] = To[e]
               PROVE  \E i \in 1 .. j - 1 : order'[i] = From[e]
    BY <1>3 DEF EdgesGoForward
  <2>1. CASE j \in 1 .. Len(order)
    <3>1. PICK i \in 1 .. j - 1 : order[i] = From[e]
      BY <2>1, <1>1 DEF OrderSound, EdgesGoForward
    <3>2. i \in 1 .. Len(order)
      BY <2>1, <1>1
    <3> QED BY <3>1, <3>2, <1>1
  <2>2. CASE j = Len(order) + 1
    <3>1. To[e] = n /\ blocking[n] = {}
      BY <2>2, <1>1, <1>2 DEF QueueIsFree
    <3>2. From[e] \in processed
      BY <3>1 DEF BlockingCounts
    <3>3. PICK i \in 1 .. Len(order) : order[i] = From[e]
      BY <3>2 DEF processed
    <3> QED BY <2>2, <3>3, <1>1
  <2> QED BY <2>1, <2>2, <1>1
<1>10. EarliestFirst'
  <2> SUFFICES ASSUME cycles = 0, NEW i \in 1 .. Len(order') - 1
               PROVE  \/ Before(order'[i], order'[i + 1])
                      \/ \E e \in Outgoing(order'[i]) : To[e] = order'[i + 1]
    BY Same DEF EarliestFirst
  <2>1. CASE i \in 1 .. Len(order) - 1
    <3>1. order'[i] = order[i] /\ order'[i + 1] = order[i + 1]
      BY <2>1, <1>1
    <3> QED BY <2>1, <3>1 DEF OrderSound, EarliestFirst
  <2>2. CASE i = Len(order)
    <3>1. order /= <<>> /\ order'[i] = order[Len(order)] /\ order'[i + 1] = n
      BY <2>2, <1>1
    <3> QED BY <3>1, <1>2 DEF QueueFollows
  <2> QED BY <2>1, <2>2, <1>1
<1>11. CyclesAreReal'
  BY <1>3 DEF OrderSound, CyclesAreReal
<1> QED BY <1>4, <1>5, <1>6, <1>7, <1>8, <1>9, <1>10, <1>11 DEF OrderSound

\* A node that comes out of the queue again changes nothing else; it does so only after a cycle
\* was broken.
LEMMA SkipFlowInv == ASSUME FlowInv, NEW n \in Node, Skip(n) PROVE FlowInv'
<1> USE DEF FlowInv, Skip
<1>1. processed' = processed /\ Known(nodes, edges)' = Known(nodes, edges)
  BY DEF processed, Known
<1>2. FlowTypes' /\ BlockingCounts' /\ QueueIsFree'
  BY <1>1 DEF FlowTypes, BlockingCounts, QueueIsFree
<1>3. QueueFollows'
  BY Same DEF QueueFollows
<1>4. AllOrdered'
  BY <1>1 DEF OrderSound, AllOrdered
<1>5. EdgesGoForward' /\ CyclesAreReal'
  BY <1>1 DEF OrderSound, EdgesGoForward, CyclesAreReal
<1>6. EarliestFirst'
  BY Same DEF OrderSound, EarliestFirst
<1> QED BY <1>2, <1>3, <1>4, <1>5, <1>6 DEF OrderSound

\* The end of a call, and steps that have nothing to do with it.
LEMMA IdleFlowInv ==
  ASSUME FlowInv, Return \/ UNCHANGED orderVars
  PROVE  FlowInv'
<1> USE DEF FlowInv
<1>0. /\ UNCHANGED <<nodes, edges, startedAt, blocking, candidates, order, cycles>>
      /\ busy' \in BOOLEAN /\ (busy' = busy \/ processed = nodes)
  <2>1. CASE Return
    BY <2>1 DEF Return
  <2>2. CASE UNCHANGED orderVars
    BY <2>2 DEF orderVars, FlowTypes
  <2> QED BY <2>1, <2>2
<1>1. processed' = processed /\ Known(nodes, edges)' = Known(nodes, edges)
  BY <1>0 DEF processed, Known
<1>2. FlowTypes' /\ BlockingCounts' /\ QueueIsFree'
  BY <1>0, <1>1 DEF FlowTypes, BlockingCounts, QueueIsFree
<1>3. QueueFollows'
  BY <1>0, Same DEF QueueFollows
<1>4. AllOrdered'
  BY <1>0, <1>1 DEF OrderSound, AllOrdered
<1>5. EdgesGoForward' /\ CyclesAreReal'
  BY <1>0, <1>1 DEF OrderSound, EdgesGoForward, CyclesAreReal
<1>6. EarliestFirst'
  BY <1>0, Same DEF OrderSound, EarliestFirst
<1> QED BY <1>2, <1>3, <1>4, <1>5, <1>6 DEF OrderSound

\* One turn of the loop.
LEMMA TurnFlowInv == ASSUME FlowInv, Turn PROVE FlowInv'
BY BreakFlowInv, IdleFlowInv, TakeFlowInv, SkipFlowInv DEF Turn

-----------------------------------------------------------------------------
\* Through any sequence of calls the types hold, an edge blocks its target exactly as long as its
\* source has no number, and without a cycle the nodes that nothing blocks are exactly those that
\* have a number or wait in the queue: Kahn's algorithm misses none and queues none too early.
THEOREM QueueHoldsTheFree == FlowSpec => [](OrderTypeOK /\ BlockingCounts /\ QueueIsFree)
<1>1. InitIdle => FlowInv /\ OrderTypeOK
  <2> SUFFICES ASSUME InitIdle PROVE FlowInv /\ OrderTypeOK
    OBVIOUS
  <2>1. FlowInv /\ startedAt \in [Node -> Nat]
    BY InitFlowInv DEF InitIdle
  <2> QED BY <2>1 DEF FlowInv, FlowTypes, OrderTypeOK
<1>2. FlowInv /\ OrderTypeOK /\ [FlowNext]_orderVars => (FlowInv /\ OrderTypeOK)'
  <2> SUFFICES ASSUME FlowInv, OrderTypeOK, [FlowNext]_orderVars PROVE (FlowInv /\ OrderTypeOK)'
    OBVIOUS
  <2>1. FlowInv' /\ startedAt' \in [Node -> Nat]
    <3>1. CASE Turn
      BY <3>1, TurnFlowInv DEF Turn, Break, Take, Skip, Return, OrderTypeOK
    <3>2. ASSUME NEW ns \in SUBSET Node, NEW es \in SUBSET Edge, NEW times \in [Node -> Nat],
                 Call(ns, es, times)
          PROVE  FlowInv' /\ startedAt' \in [Node -> Nat]
      BY <3>2, CallFlowInv DEF Call
    <3>3. CASE UNCHANGED orderVars
      BY <3>3, IdleFlowInv DEF orderVars, OrderTypeOK
    <3> QED BY <3>1, <3>2, <3>3 DEF FlowNext
  <2> QED BY <2>1 DEF FlowInv, FlowTypes, OrderTypeOK
<1>3. FlowInv /\ OrderTypeOK => OrderTypeOK /\ BlockingCounts /\ QueueIsFree
  BY DEF FlowInv
<1> QED BY <1>1, <1>2, <1>3, PTL DEF FlowSpec

\* Whatever the calls, every order given is sound: all nodes are numbered once, causes first and
\* else by their starts, except across cycles, and cycles are counted only where there are some.
THEOREM OrdersAreSound == FlowSpec => []OrderSound
<1>1. InitIdle => FlowInv
  BY InitFlowInv
<1>2. FlowInv /\ [FlowNext]_orderVars => FlowInv'
  BY CallFlowInv, TurnFlowInv, IdleFlowInv DEF FlowNext
<1>3. FlowInv => OrderSound
  BY DEF FlowInv
<1> QED BY <1>1, <1>2, <1>3, PTL DEF FlowSpec
-----------------------------------------------------------------------------
(* The rebuilds.                                                           *)

\* What is loaded, saved and about to be saved is of the right types and in the raw tables, and a
\* running rebuild has a trigger to answer.
RebuildTypes ==
  /\ trace \in Traces /\ arrived \in 0 .. Len(trace.batches) /\ faults \in 0 .. MaxFaults
  /\ requests \in 0 .. arrived + faults /\ (job.step /= "idle" => requests > 0)
  /\ rows \in [Node -> Seq(Value)] /\ Present \subseteq raw
  /\ saved \subseteq raw \cap Edge
  /\ torn \in BOOLEAN
  /\ DOMAIN job = DOMAIN IdleJob
  /\ job.step \in {"idle", "order", "correct", "rows", "checkpoint"}
  /\ DOMAIN job.values \subseteq raw \cap Node /\ job.edges \subseteq raw \cap Edge
  /\ \A n \in DOMAIN job.values : job.values[n] \in Value
  /\ DOMAIN walk = DOMAIN NoWalk
  /\ walk.step \in {"none", "nodes", "edges", "page", "done", "conflict"}

\* A rebuild orders, corrects and saves the nodes it folded, in the order it found: what is left
\* of them is the end of the order.
CallInv ==
  /\ startedAt \in [Node -> Nat]
  /\ busy => job.step = "order"
  /\ job.step \in {"order", "correct", "rows"} =>
       DOMAIN job.values = nodes /\ job.edges = Known(nodes, edges)
  /\ job.step \in {"correct", "rows"} =>
       /\ job.left \in Seq(Node) /\ Len(job.left) <= Len(order)
       /\ \A j \in 1 .. Len(job.left) : job.left[j] = order[Len(order) - Len(job.left) + j]

Corrected == {order[i] : i \in 1 .. Len(order) - Len(job.left)}

\* The nodes corrected so far have the starts they will be saved with.
CorrectInv ==
  /\ job.step = "correct" /\ cycles = 0 =>
       \A n \in Corrected : job.values[n].start = StartOf(n)
  /\ CorrectionIsCausal

RebuildInv == FlowInv /\ RebuildTypes /\ CallInv /\ CorrectInv

LEMMA TraceFacts ==
  ASSUME trace \in Traces
  PROVE  /\ trace.start \in [Node -> Nat] /\ trace.end \in [Node -> Nat] /\ trace.made \in [Edge -> Nat]
         /\ trace.batches \in Seq(SUBSET (Node \cup Edge)) /\ MaxFaults \in Nat
         /\ Node \subseteq Nat
BY ReadModelAssumption, FlowOrderAssumption

LEMMA MinOf ==
  ASSUME NEW S \in SUBSET Nat, S /= {}
  PROVE  Min(S) \in S /\ \A y \in S : Min(S) <= y
<1>1. PICK x \in S : \A y \in S : ~ (<<y, x>> \in OpToRel(<, Nat))
  <2>1. IsWellFoundedOn(OpToRel(<, Nat), Nat)
    BY NatLessThanWellFounded
  <2> QED BY <2>1, WFMin
<1>2. OpToRel(<, Nat) = {ss \in Nat \X Nat : ss[1] < ss[2]}
  BY Zenon DEF OpToRel
<1>3. \A y \in S : x <= y
  <2> DEFINE less == OpToRel(<, Nat)
  <2>1. \A y \in S : ~ (<<y, x>> \in less)
    BY <1>1
  <2>2. less = {ss \in Nat \X Nat : ss[1] < ss[2]}
    BY <1>2
  <2> HIDE DEF less
  <2> SUFFICES ASSUME NEW y \in S PROVE x <= y
    OBVIOUS
  <2>3. <<y, x>> \notin {ss \in Nat \X Nat : ss[1] < ss[2]}
    BY <2>1, <2>2
  <2>4. y \in Nat /\ x \in Nat
    OBVIOUS
  <2> QED BY <2>3, <2>4
<1> QED BY <1>3 DEF Min

\* One turn of the correction changes the node it is for, and no other.
LEMMA Corrects ==
  ASSUME NEW values, NEW n \in DOMAIN values, \A m \in DOMAIN values : values[m] \in Value,
         trace.start[n] \in Nat, Parents(n) \subseteq DOMAIN values
  PROVE  /\ DOMAIN Correct(values, n) = DOMAIN values
         /\ \A m \in DOMAIN values : Correct(values, n)[m] \in Value
         /\ \A m \in DOMAIN values \ {n} : Correct(values, n)[m] = values[m]
         /\ n \notin Parents(n) =>
              LET earliest == Min({values[p].start : p \in Parents(n)})
              IN  Correct(values, n)[n].start =
                    IF Parents(n) = {} \/ trace.start[n] >= earliest THEN trace.start[n]
                    ELSE earliest + 1
<1> DEFINE reset == [values EXCEPT ![n].start = trace.start[n]]
           starts == {reset[p].start : p \in Parents(n)}
           earliest == Min(starts)
           delta == earliest + 1 - trace.start[n]
           shifted == [reset EXCEPT ![n].start = @ + delta, ![n].end = @ + delta]
<1>1. /\ DOMAIN reset = DOMAIN values
      /\ \A m \in DOMAIN values \ {n} : reset[m] = values[m]
      /\ reset[n] \in Value /\ reset[n].start = trace.start[n]
  BY DEF Value
<1>2. Correct(values, n) = IF Parents(n) = {} \/ trace.start[n] >= earliest THEN reset ELSE shifted
  BY DEF Correct
<1>3. starts \in SUBSET Nat
  BY <1>1 DEF Value
<1>4. n \notin Parents(n) => starts = {values[p].start : p \in Parents(n)}
  BY <1>1
<1> HIDE DEF reset
<1>5. ASSUME Parents(n) /= {}, ~(trace.start[n] >= earliest)
      PROVE  /\ DOMAIN shifted = DOMAIN values
             /\ \A m \in DOMAIN values \ {n} : shifted[m] = values[m]
             /\ shifted[n] \in Value /\ shifted[n].start = earliest + 1
  <2>1. starts /= {}
    BY <1>5
  <2> HIDE DEF starts
  <2>2. earliest \in Nat
    BY <1>3, <2>1, MinOf
  <2> HIDE DEF earliest
  <2>3. delta \in Nat /\ trace.start[n] + delta = earliest + 1
    BY <1>5, <2>2
  <2> HIDE DEF delta
  <2>4. reset[n].start + delta = earliest + 1 /\ reset[n].start + delta \in Nat /\ reset[n].end + delta \in Nat
    BY <1>1, <2>2, <2>3 DEF Value
  <2>5. shifted[n] = [reset[n] EXCEPT !.start = reset[n].start + delta, !.end = reset[n].end + delta]
    BY <1>1 DEF Value
  <2>6. DOMAIN shifted = DOMAIN values /\ \A m \in DOMAIN values \ {n} : shifted[m] = values[m]
    BY <1>1
  <2> HIDE DEF shifted
  <2>7. shifted[n] \in Value /\ shifted[n].start = earliest + 1
    BY <1>1, <2>4, <2>5 DEF Value
  <2> QED BY <2>6, <2>7
<1> HIDE DEF starts, earliest, shifted
<1>6. CASE Parents(n) = {} \/ trace.start[n] >= earliest
  <2>1. Correct(values, n) = reset
    BY <1>2, <1>6
  <2>2. \A m \in DOMAIN values : reset[m] \in Value
    BY <1>1
  <2> QED BY <1>1, <1>4, <1>6, <2>1, <2>2 DEF earliest
<1>7. CASE ~(Parents(n) = {} \/ trace.start[n] >= earliest)
  <2>1. Correct(values, n) = shifted
    BY <1>2, <1>7
  <2>2. /\ DOMAIN shifted = DOMAIN values
        /\ \A m \in DOMAIN values \ {n} : shifted[m] = values[m]
        /\ shifted[n] \in Value /\ shifted[n].start = earliest + 1
    BY <1>5, <1>7
  <2>3. \A m \in DOMAIN values : shifted[m] \in Value
    BY <2>2
  <2> QED BY <1>4, <1>7, <2>1, <2>2, <2>3 DEF earliest
<1> QED BY <1>6, <1>7

LEMMA LargerOfTwo ==
  ASSUME NEW x \in Nat, NEW y \in Nat
  PROVE  Max({x, y}) \in Nat /\ Max({x, y}) >= x /\ Max({x, y}) >= y
<1> DEFINE m == IF x >= y THEN x ELSE y
<1>1. m \in {x, y} /\ \A z \in {x, y} : m >= z
  OBVIOUS
<1> QED BY <1>1 DEF Max

\* The raw tables only grow.
LEMMA RawGrows ==
  ASSUME trace' = trace, arrived \in Nat, arrived' \in Nat, arrived <= arrived'
  PROVE  raw \subseteq raw'
<1>1. 1 .. arrived \subseteq 1 .. arrived'
  OBVIOUS
<1> QED BY <1>1 DEF raw

LEMMA InitRebuildInv == Init => RebuildInv
<1> SUFFICES ASSUME Init PROVE RebuildInv
  OBVIOUS
<1>1. FlowInv /\ busy = FALSE /\ startedAt \in [Node -> Nat]
  BY InitFlowInv DEF Init, InitIdle
<1>2. job = IdleJob /\ IdleJob.step = "idle" /\ IdleJob.edges = {} /\ DOMAIN IdleJob.values = {}
  BY DEF Init, IdleJob
<1>3. walk = NoWalk /\ NoWalk.step = "none"
  BY DEF Init, NoWalk
<1>4. rows \in [Node -> Seq(Value)] /\ Present = {}
  BY DEF Init, Present
<1>5. Len(trace.batches) \in Nat /\ MaxFaults \in Nat /\ trace \in Traces
  BY TraceFacts DEF Init
<1> HIDE DEF IdleJob, NoWalk
<1>6. RebuildTypes
  <2>1. arrived = 0 /\ faults = 0 /\ requests = 0 /\ saved = {} /\ torn = FALSE
    BY DEF Init
  <2>2. /\ arrived \in 0 .. Len(trace.batches) /\ faults \in 0 .. MaxFaults
        /\ requests \in 0 .. arrived + faults
    BY <1>5, <2>1
  <2> QED BY <1>2, <1>3, <1>4, <1>5, <2>1, <2>2 DEF RebuildTypes
<1>7. CallInv /\ CorrectInv
  BY <1>1, <1>2 DEF CallInv, CorrectInv, CorrectionIsCausal
<1> QED BY <1>1, <1>6, <1>7 DEF RebuildInv

\* A step beside the computation: the rebuild and its call of computeFlowOrder stay as they are.
LEMMA BesideRebuildInv ==
  ASSUME RebuildInv, UNCHANGED orderVars, job' = job, trace' = trace
  PROVE  FlowInv' /\ CallInv' /\ CorrectInv'
<1>1. FlowInv'
  BY IdleFlowInv DEF RebuildInv
<1>2. UNCHANGED <<busy, nodes, edges, startedAt, order, cycles>>
  BY DEF orderVars
<1>3. CallInv'
  BY <1>2 DEF RebuildInv, CallInv
<1>4. CorrectInv'
  <2>1. Corrected' = Corrected /\ \A n : StartOf(n)' = StartOf(n)
    BY <1>2 DEF Corrected, StartOf, Parents
  <2> QED BY <1>2, <2>1 DEF RebuildInv, CorrectInv, CorrectionIsCausal
<1> QED BY <1>1, <1>3, <1>4

LEMMA ArrivalRebuildInv ==
  ASSUME RebuildInv, Ingest \/ Redeliver
  PROVE  RebuildInv'
<1>1. /\ UNCHANGED orderVars /\ job' = job /\ trace' = trace
      /\ UNCHANGED <<rows, saved, torn, walk>> /\ requests' = requests + 1
      /\ \/ arrived < Len(trace.batches) /\ arrived' = arrived + 1 /\ faults' = faults
         \/ arrived' = arrived /\ faults < MaxFaults /\ faults' = faults + 1
  BY DEF Ingest, Redeliver, Fault, db
<1>2. RebuildTypes
  BY DEF RebuildInv
<1>3. /\ Len(trace.batches) \in Nat /\ arrived \in 0 .. Len(trace.batches) /\ faults \in 0 .. MaxFaults
      /\ MaxFaults \in Nat /\ requests \in 0 .. arrived + faults
  BY <1>2, TraceFacts DEF RebuildTypes
<1>4. /\ arrived' \in 0 .. Len(trace.batches) /\ faults' \in 0 .. MaxFaults
      /\ requests' \in 0 .. arrived' + faults' /\ requests' > 0
  BY <1>1, <1>3
<1>5. raw \subseteq raw' /\ Present' = Present
  BY <1>1, <1>3, RawGrows DEF Present
<1>6. RebuildTypes'
  BY <1>1, <1>2, <1>4, <1>5 DEF RebuildTypes
<1> QED BY <1>1, <1>6, BesideRebuildInv DEF RebuildInv

\* What FoldNode makes of a row, and Begin of the rebuild.
LEMMA BeginEffect ==
  ASSUME RebuildTypes, Begin
  PROVE  \E ns \in SUBSET (raw \cap Node), es \in SUBSET (raw \cap Edge), times \in [Node -> Nat] :
           /\ Call(ns, es, times)
           /\ job'.step = "order" /\ DOMAIN job' = DOMAIN IdleJob
           /\ DOMAIN job'.values = ns /\ job'.edges = Known(ns, es)
           /\ \A n \in ns : job'.values[n] \in Value
<1> DEFINE ns == Present \cup StartsLoaded
           es == saved \cup EdgesLoaded
           row(old, n) == FoldNode(n, IF n \in Present THEN old[n] ELSE [start |-> 0, end |-> 0])
           values(old) == [n \in ns |-> row(old, n)]
           times(old) == [n \in Node |-> IF n \in ns THEN values(old)[n].start ELSE 0]
<1>1. ns \in SUBSET (raw \cap Node) /\ es \in SUBSET (raw \cap Edge)
  BY DEF Present, StartsLoaded, EdgesLoaded, RebuildTypes
<1>2. PICK old : /\ \A n \in Present : old[n] \in Range(rows[n])
                 /\ job' = [IdleJob EXCEPT !.step = "order", !.values = values(old),
                                           !.touched = ns \cap EndsLoaded,
                                           !.edges = Known(ns, es), !.next = Reached]
                 /\ Call(ns, es, times(old))
  BY Zenon DEF Begin
<1>3. ASSUME NEW n \in ns PROVE values(old)[n] \in Value
  <2>1. values(old)[n] = row(old, n)
    OBVIOUS
  <2>2. n \in Node /\ trace.start[n] \in Nat /\ trace.end[n] \in Nat
    BY <1>1, TraceFacts DEF RebuildTypes
  <2>3. CASE n \in Present
    <3>1. rows[n] \in Seq(Value) /\ old[n] \in Range(rows[n])
      BY <1>2, <2>2, <2>3 DEF RebuildTypes
    <3>2. old[n] \in Value
      BY <3>1 DEF Range
    <3> QED BY <2>1, <2>2, <2>3, <3>2 DEF FoldNode, Value
  <2>4. CASE n \notin Present
    BY <2>1, <2>2, <2>4 DEF FoldNode, Value
  <2> QED BY <2>3, <2>4
<1>4. times(old) \in [Node -> Nat]
  <2>1. \A n \in ns : values(old)[n].start \in Nat
    BY <1>3 DEF Value
  <2> HIDE DEF values
  <2> QED BY <2>1
<1>5. DOMAIN values(old) = ns
  OBVIOUS
<1> HIDE DEF ns, es, values, times
<1>6. /\ job'.step = "order" /\ DOMAIN job' = DOMAIN IdleJob
      /\ job'.values = values(old) /\ job'.edges = Known(ns, es)
  BY <1>2 DEF IdleJob
<1> QED BY <1>1, <1>2, <1>3, <1>4, <1>5, <1>6

LEMMA BeginRebuildInv == ASSUME RebuildInv, Begin PROVE RebuildInv'
<1>1. PICK ns \in SUBSET (raw \cap Node), es \in SUBSET (raw \cap Edge), times \in [Node -> Nat] :
           /\ Call(ns, es, times)
           /\ job'.step = "order" /\ DOMAIN job' = DOMAIN IdleJob
           /\ DOMAIN job'.values = ns /\ job'.edges = Known(ns, es)
           /\ \A n \in ns : job'.values[n] \in Value
  BY BeginEffect DEF RebuildInv
<1>2. /\ UNCHANGED <<trace, arrived, requests, faults, rows, saved, torn, walk>> /\ requests > 0
      /\ nodes' = ns /\ edges' = es /\ startedAt' = times
  BY <1>1 DEF Begin, Call, env, db
<1>3. FlowInv'
  BY <1>1, CallFlowInv
<1>4. Known(ns, es) \subseteq es
  BY DEF Known
<1>5. raw' = raw /\ Present' = Present
  BY <1>2 DEF raw, Present
<1>6. RebuildTypes'
  BY <1>1, <1>2, <1>4, <1>5 DEF RebuildTypes, RebuildInv
<1>7. CallInv' /\ CorrectInv'
  BY <1>1, <1>2 DEF CallInv, CorrectInv, CorrectionIsCausal
<1> QED BY <1>3, <1>6, <1>7 DEF RebuildInv

LEMMA FlowStepRebuildInv == ASSUME RebuildInv, FlowStep PROVE RebuildInv'
<1>1. /\ UNCHANGED <<trace, arrived, requests, faults, rows, saved, torn, walk, job>>
      /\ UNCHANGED <<nodes, edges, startedAt>> /\ busy
  BY DEF FlowStep, env, db, Turn, Break, Take, Skip, Return
<1>2. FlowInv'
  BY TurnFlowInv DEF FlowStep, RebuildInv
<1>3. job.step = "order"
  BY <1>1 DEF RebuildInv, CallInv
<1>4. RebuildTypes'
  BY <1>1 DEF RebuildTypes, RebuildInv, raw, Present
<1>5. CallInv' /\ CorrectInv'
  BY <1>1, <1>3 DEF RebuildInv, CallInv, CorrectInv, CorrectionIsCausal
<1> QED BY <1>2, <1>4, <1>5 DEF RebuildInv

\* A step that changes nothing but the rebuild.
LEMMA ComputesTypes ==
  ASSUME RebuildTypes, UNCHANGED <<env, db, walk>>,
         job.step /= "idle", DOMAIN job' = DOMAIN job, job'.step \in {"correct", "rows"},
         DOMAIN job'.values = DOMAIN job.values, job'.edges = job.edges,
         \A n \in DOMAIN job.values : job'.values[n] \in Value
  PROVE  RebuildTypes'
<1>1. UNCHANGED <<trace, arrived, requests, faults, rows, saved, torn>>
  BY DEF env, db
<1> QED BY <1>1 DEF RebuildTypes, raw, Present

LEMMA ApplyFlowOrderRebuildInv == ASSUME RebuildInv, ApplyFlowOrder PROVE RebuildInv'
<1> DEFINE number(n) == (CHOOSE i \in DOMAIN order : order[i] = n) - 1
           numbered == [n \in nodes |-> [job.values[n] EXCEPT !.order = number(n)]]
<1>1. /\ job.step = "order" /\ ~busy /\ UNCHANGED orderVars /\ UNCHANGED <<env, db, walk>>
      /\ job' = [job EXCEPT !.step = "correct", !.values = numbered, !.left = order]
  BY DEF ApplyFlowOrder
<1>2. RebuildTypes /\ CallInv /\ FlowInv
  BY DEF RebuildInv
<1>3. /\ order \in Seq(Node) /\ Len(order) \in Nat /\ DOMAIN order = 1 .. Len(order)
      /\ processed = nodes /\ DOMAIN job.values = nodes
  BY <1>1, <1>2 DEF FlowInv, FlowTypes, OrderSound, AllOrdered, CallInv
<1>4. ASSUME NEW n \in nodes PROVE numbered[n] \in Value
  <2>1. \E i \in DOMAIN order : order[i] = n
    BY <1>3 DEF processed
  <2>2. number(n) \in Nat
    BY <1>3, <2>1
  <2> HIDE DEF number
  <2>3. job.values[n] \in Value
    BY <1>2, <1>3 DEF RebuildTypes
  <2> QED BY <2>2, <2>3 DEF Value
<1>5. DOMAIN numbered = nodes
  OBVIOUS
<1> HIDE DEF numbered
<1>6. /\ DOMAIN job' = DOMAIN job /\ job'.step = "correct" /\ job'.values = numbered
      /\ job'.left = order /\ job'.edges = job.edges
  BY <1>1, <1>2 DEF RebuildTypes, IdleJob
<1>7. RebuildTypes'
  BY <1>1, <1>2, <1>3, <1>4, <1>5, <1>6, ComputesTypes
<1>8. UNCHANGED <<busy, nodes, edges, startedAt, order, cycles>> /\ FlowInv'
  BY <1>1, <1>2, IdleFlowInv DEF orderVars
<1>9. CallInv'
  BY <1>1, <1>2, <1>3, <1>5, <1>6, <1>8 DEF CallInv
<1>10. CorrectInv'
  <2>1. Corrected' = {}
    BY <1>3, <1>6, <1>8 DEF Corrected
  <2> QED BY <1>6, <2>1 DEF CorrectInv, CorrectionIsCausal
<1> QED BY <1>7, <1>8, <1>9, <1>10 DEF RebuildInv

\* The parents of a node stand before it in the order, if no cycle was counted.
LEMMA ParentsFirst ==
  ASSUME FlowInv, CallInv, job.step \in {"correct", "rows"}, cycles = 0,
         NEW j \in 1 .. Len(order), NEW p \in Parents(order[j])
  PROVE  \E i \in 1 .. j - 1 : order[i] = p
<1>1. PICK e \in Known(nodes, edges) : To[e] = order[j] /\ p = From[e]
  BY DEF Parents, CallInv
<1> QED BY <1>1 DEF FlowInv, OrderSound, EdgesGoForward

\* The next node gets its start from parents that keep theirs.
LEMMA CorrectNodeRebuildInv == ASSUME RebuildInv, CorrectNode PROVE RebuildInv'
<1> DEFINE k == Len(order) - Len(job.left)
           n == Head(job.left)
<1>1. /\ job.step = "correct" /\ job.left /= <<>> /\ UNCHANGED orderVars /\ UNCHANGED <<env, db, walk>>
      /\ job' = [job EXCEPT !.values = Correct(job.values, n), !.left = Tail(job.left)]
  BY DEF CorrectNode
<1>2. RebuildTypes /\ CallInv /\ FlowInv /\ CorrectInv
  BY DEF RebuildInv
<1>3. /\ order \in Seq(Node) /\ Len(order) \in Nat /\ DOMAIN job.values = nodes
      /\ job.left \in Seq(Node) /\ Len(job.left) \in Nat /\ Len(job.left) <= Len(order)
      /\ \A j \in 1 .. Len(job.left) : job.left[j] = order[k + j]
      /\ processed \subseteq nodes
      /\ \A i, j \in 1 .. Len(order) : order[i] = order[j] => i = j
  BY <1>1, <1>2 DEF FlowInv, FlowTypes, OrderSound, AllOrdered, CallInv
<1>4. /\ Len(job.left) >= 1 /\ k \in 0 .. Len(order) - 1 /\ n = order[k + 1]
      /\ Tail(job.left) \in Seq(Node) /\ Len(Tail(job.left)) = Len(job.left) - 1
      /\ \A j \in 1 .. Len(job.left) - 1 : Tail(job.left)[j] = job.left[j + 1]
  <2>1. Len(job.left) >= 1
    BY <1>1, <1>3
  <2>2. n = job.left[1] /\ job.left[1] = order[k + 1]
    <3>1. n = job.left[1] /\ 1 \in 1 .. Len(job.left)
      BY <1>3, <2>1
    <3> HIDE DEF n, k
    <3> QED BY <1>3, <3>1
  <2>3. /\ Tail(job.left) \in Seq(Node) /\ Len(Tail(job.left)) = Len(job.left) - 1
        /\ \A j \in 1 .. Len(job.left) - 1 : Tail(job.left)[j] = job.left[j + 1]
    BY <1>3, <2>1
  <2>4. k \in 0 .. Len(order) - 1
    BY <1>3, <2>1
  <2> HIDE DEF n, k
  <2> QED BY <2>1, <2>2, <2>3, <2>4
<1> HIDE DEF k, n
<1>5. n \in nodes
  BY <1>3, <1>4 DEF processed
<1>6. Parents(n) \subseteq nodes
  BY <1>1, <1>2 DEF Parents, CallInv, Known
<1>7. trace.start[n] \in Nat
  BY <1>2, <1>5, TraceFacts DEF RebuildTypes, FlowInv, FlowTypes
<1> DEFINE values == Correct(job.values, n)
<1>8. /\ DOMAIN values = nodes /\ \A m \in nodes : values[m] \in Value
      /\ \A m \in nodes \ {n} : values[m] = job.values[m]
      /\ n \notin Parents(n) => values[n].start = StartOf(n)
  <2>1. \A m \in DOMAIN job.values : job.values[m] \in Value
    BY <1>2 DEF RebuildTypes
  <2>2. n \in DOMAIN job.values /\ Parents(n) \subseteq DOMAIN job.values
    BY <1>3, <1>5, <1>6
  <2>3. /\ DOMAIN values = DOMAIN job.values /\ \A m \in DOMAIN job.values : values[m] \in Value
        /\ \A m \in DOMAIN job.values \ {n} : values[m] = job.values[m]
        /\ n \notin Parents(n) =>
             LET earliest == Min({job.values[p].start : p \in Parents(n)})
             IN  values[n].start = IF Parents(n) = {} \/ trace.start[n] >= earliest THEN trace.start[n]
                                   ELSE earliest + 1
    BY <1>7, <2>1, <2>2, Corrects
  <2> HIDE DEF values
  <2> QED BY <1>3, <2>3 DEF StartOf
<1> HIDE DEF values
<1>9. /\ DOMAIN job' = DOMAIN job /\ job'.step = "correct" /\ job'.values = values
      /\ job'.left = Tail(job.left) /\ job'.edges = job.edges
  BY <1>1, <1>2 DEF RebuildTypes, IdleJob, values
<1>10. RebuildTypes'
  BY <1>1, <1>2, <1>3, <1>8, <1>9, ComputesTypes
<1>11. UNCHANGED <<busy, nodes, edges, startedAt, order, cycles, trace>> /\ FlowInv'
  BY <1>1, <1>2, IdleFlowInv DEF orderVars, env
<1>14. Len(order) - Len(job'.left) = k + 1
  <2>1. Len(job'.left) = Len(job.left) - 1
    BY <1>4, <1>9
  <2>2. Len(order) \in Nat /\ Len(job.left) \in Nat
    BY <1>3
  <2> QED BY <2>1, <2>2 DEF k
<1>12. CallInv'
  <2>2. \A j \in 1 .. Len(job'.left) : job'.left[j] = order[k + 1 + j]
    <3> SUFFICES ASSUME NEW j \in 1 .. Len(job.left) - 1 PROVE job.left[j + 1] = order[k + 1 + j]
      BY <1>4, <1>9
    <3>1. j + 1 \in 1 .. Len(job.left) /\ k + (j + 1) = k + 1 + j
      BY <1>3, <1>4
    <3> QED BY <1>3, <3>1
  <2>3. job'.left \in Seq(Node) /\ Len(job'.left) <= Len(order)
    BY <1>3, <1>4, <1>9
  <2> QED BY <1>1, <1>2, <1>8, <1>9, <1>11, <1>14, <2>2, <2>3 DEF CallInv
<1>13. CorrectInv'
  <2> SUFFICES ASSUME cycles = 0 PROVE \A m \in Corrected' : values[m].start = StartOf(m)'
    BY <1>9, <1>11 DEF CorrectInv, CorrectionIsCausal
  <2>1. Corrected = {order[i] : i \in 1 .. k} /\ Corrected' = {order[i] : i \in 1 .. k + 1}
    BY <1>11, <1>14 DEF Corrected, k
  <2>2. ASSUME NEW i \in 1 .. k + 1
        PROVE  /\ order[i] \in nodes /\ Parents(order[i]) \subseteq Corrected
               /\ order[i] \notin Parents(order[i]) /\ n \notin Parents(order[i])
    <3>1. i \in 1 .. Len(order) /\ k + 1 \in 1 .. Len(order)
      BY <1>3, <1>4
    <3>2. ASSUME NEW p \in Parents(order[i])
          PROVE  p \in Corrected /\ p /= order[i] /\ p /= n
      <4>1. PICK h \in 1 .. i - 1 : order[h] = p
        BY <1>1, <1>2, <3>1, ParentsFirst
      <4>2. h \in 1 .. k /\ h \in 1 .. Len(order) /\ h /= i /\ h /= k + 1
        BY <1>4, <3>1
      <4> QED BY <1>3, <1>4, <2>1, <3>1, <4>1, <4>2
    <3> QED BY <1>3, <3>1, <3>2 DEF processed
  <2>3. ASSUME NEW m \in Corrected' PROVE StartOf(m)' = StartOf(m)
    <3>1. PICK i \in 1 .. k + 1 : m = order[i]
      BY <2>1
    <3>2. Parents(m)' = Parents(m)
      BY <1>9, <1>11 DEF Parents
    <3>3. Parents(m) \subseteq nodes \ {n}
      <4>1. Corrected \subseteq nodes
        BY <1>3, <1>4, <2>1 DEF processed
      <4> QED BY <2>2, <3>1, <4>1
    <3>4. {job'.values[p].start : p \in Parents(m)} = {job.values[p].start : p \in Parents(m)}
      BY <1>8, <1>9, <3>3
    <3> QED BY <1>11, <3>2, <3>4 DEF StartOf
  <2>4. ASSUME NEW i \in 1 .. k + 1 PROVE values[order[i]].start = StartOf(order[i])
    <3>1. CASE i = k + 1
      BY <1>4, <1>8, <2>2, <3>1
    <3>2. CASE i /= k + 1
      <4>1. i \in 1 .. k /\ i \in 1 .. Len(order) /\ k + 1 \in 1 .. Len(order)
        BY <1>3, <1>4, <3>2
      <4>2. order[i] /= n /\ order[i] \in nodes
        BY <1>3, <1>4, <2>2, <3>2, <4>1
      <4>3. job.values[order[i]].start = StartOf(order[i])
        BY <1>1, <1>2, <2>1, <4>1 DEF CorrectInv
      <4> QED BY <1>8, <4>2, <4>3
    <3> QED BY <3>1, <3>2
  <2> QED BY <2>1, <2>3, <2>4
<1> QED BY <1>10, <1>11, <1>12, <1>13 DEF RebuildInv

\* All nodes are corrected, and the edges are put behind the nodes they leave.
LEMMA AlignEdgesRebuildInv == ASSUME RebuildInv, AlignEdges PROVE RebuildInv'
<1> DEFINE aligned == [e \in job.edges |-> Aligned(e)]
<1>1. /\ job.step = "correct" /\ job.left = <<>> /\ UNCHANGED orderVars /\ UNCHANGED <<env, db, walk>>
      /\ job' = [job EXCEPT !.step = "rows", !.left = order, !.aligned = aligned]
  BY DEF AlignEdges
<1>2. RebuildTypes /\ CallInv /\ FlowInv /\ CorrectInv
  BY DEF RebuildInv
<1>3. /\ order \in Seq(Node) /\ Len(order) \in Nat /\ DOMAIN job.values = nodes
      /\ processed = nodes /\ job.edges = Known(nodes, edges)
  BY <1>1, <1>2 DEF FlowInv, FlowTypes, OrderSound, AllOrdered, CallInv
<1>4. ASSUME NEW e \in job.edges PROVE aligned[e] >= job.values[From[e]].start
  <2>1. aligned[e] = Max({trace.made[e], job.values[From[e]].start})
    BY DEF Aligned
  <2>2. trace.made[e] \in Nat
    BY <1>2, TraceFacts DEF RebuildTypes
  <2>3. From[e] \in DOMAIN job.values
    BY <1>3 DEF Known
  <2>4. job.values[From[e]].start \in Nat
    BY <1>2, <2>3 DEF RebuildTypes, Value
  <2> HIDE DEF aligned
  <2> QED BY <2>1, <2>2, <2>4, LargerOfTwo
<1> HIDE DEF aligned
<1>5. /\ DOMAIN job' = DOMAIN job /\ job'.step = "rows" /\ job'.left = order
      /\ job'.aligned = aligned /\ job'.values = job.values /\ job'.edges = job.edges
  BY <1>1, <1>2 DEF RebuildTypes, IdleJob
<1>6. RebuildTypes'
  <2>1. \A n \in DOMAIN job.values : job'.values[n] \in Value
    BY <1>2, <1>5 DEF RebuildTypes
  <2> QED BY <1>1, <1>2, <1>5, <2>1, ComputesTypes
<1>7. UNCHANGED <<busy, nodes, edges, startedAt, order, cycles, trace>> /\ FlowInv'
  BY <1>1, <1>2, IdleFlowInv DEF orderVars, env
<1>8. CallInv'
  BY <1>1, <1>2, <1>3, <1>5, <1>7 DEF CallInv
<1>9. CorrectInv'
  <2>1. Corrected = nodes
    <3>1. Len(order) - Len(job.left) = Len(order)
      BY <1>1, <1>3
    <3> QED BY <1>3, <3>1 DEF Corrected, processed
  <2>2. \A n : StartOf(n)' = StartOf(n)
    BY <1>5, <1>7 DEF StartOf, Parents
  <2>3. cycles = 0 => \A n \in nodes : job.values[n].start = StartOf(n)
    BY <1>1, <1>2, <2>1 DEF CorrectInv
  <2> QED BY <1>3, <1>4, <1>5, <1>7, <2>2, <2>3 DEF CorrectInv, CorrectionIsCausal
<1> QED BY <1>6, <1>7, <1>8, <1>9 DEF RebuildInv

\* A rebuild that saves keeps what it computed.
LEMMA SavingCallInv ==
  ASSUME FlowInv, CallInv, CorrectInv, UNCHANGED orderVars, trace' = trace, job.step = "rows",
         job'.step = "rows", job'.values = job.values, job'.edges = job.edges,
         job'.aligned = job.aligned, job'.left \in Seq(Node), Len(job'.left) <= Len(order),
         \A j \in 1 .. Len(job'.left) : job'.left[j] = order[Len(order) - Len(job'.left) + j]
  PROVE  FlowInv' /\ CallInv' /\ CorrectInv'
<1>1. UNCHANGED <<busy, nodes, edges, startedAt, order, cycles>> /\ FlowInv'
  BY IdleFlowInv DEF orderVars
<1>2. CallInv'
  BY <1>1 DEF CallInv
<1>3. CorrectInv'
  <2>1. \A n : StartOf(n)' = StartOf(n)
    BY <1>1 DEF StartOf, Parents
  <2> QED BY <1>1, <2>1 DEF CorrectInv, CorrectionIsCausal
<1> QED BY <1>1, <1>2, <1>3

LEMMA SaveRowRebuildInv == ASSUME RebuildInv, SaveRow PROVE RebuildInv'
<1> DEFINE n == Head(job.left)
           left == Tail(job.left)
<1>1. /\ job.step = "rows" /\ job.left /= <<>> /\ UNCHANGED orderVars /\ UNCHANGED <<env, saved, progress>>
      /\ rows' = [rows EXCEPT ![n] = SavedRow(n)] /\ torn' = TRUE
      /\ job' = [job EXCEPT !.left = left]
      /\ walk' = [walk EXCEPT !.moved = @ \/ (rows'[n] /= rows[n] /\ walk.step /= "none")]
  BY DEF SaveRow, Moves
<1>2. RebuildTypes /\ CallInv /\ FlowInv /\ CorrectInv
  BY DEF RebuildInv
<1>3. /\ order \in Seq(Node) /\ Len(order) \in Nat /\ DOMAIN job.values = nodes
      /\ job.left \in Seq(Node) /\ Len(job.left) \in Nat /\ Len(job.left) <= Len(order)
      /\ \A j \in 1 .. Len(job.left) : job.left[j] = order[Len(order) - Len(job.left) + j]
      /\ processed = nodes
  BY <1>1, <1>2 DEF FlowInv, FlowTypes, OrderSound, AllOrdered, CallInv
<1>4. /\ Len(job.left) >= 1 /\ n = job.left[1]
      /\ left \in Seq(Node) /\ Len(left) = Len(job.left) - 1
      /\ \A j \in 1 .. Len(job.left) - 1 : left[j] = job.left[j + 1]
  BY <1>1, <1>3
<1> HIDE DEF n, left
<1>5. n \in nodes
  <2>1. 1 \in 1 .. Len(job.left) /\ Len(order) - Len(job.left) + 1 \in 1 .. Len(order)
    BY <1>3, <1>4
  <2>2. n = order[Len(order) - Len(job.left) + 1]
    BY <1>3, <1>4, <2>1
  <2> QED BY <1>3, <2>1, <2>2 DEF processed
<1>6. /\ DOMAIN job' = DOMAIN job /\ job'.step = "rows" /\ job'.left = left
      /\ job'.aligned = job.aligned /\ job'.values = job.values /\ job'.edges = job.edges
  BY <1>1, <1>2 DEF RebuildTypes, IdleJob
<1>7. FlowInv' /\ CallInv' /\ CorrectInv'
  <2>1. left \in Seq(Node) /\ Len(left) <= Len(order)
    BY <1>3, <1>4
  <2>2. ASSUME NEW j \in 1 .. Len(left) PROVE left[j] = order[Len(order) - Len(left) + j]
    <3>1. j + 1 \in 1 .. Len(job.left) /\ j \in 1 .. Len(job.left) - 1
      BY <1>3, <1>4
    <3>2. Len(order) - Len(job.left) + (j + 1) = Len(order) - Len(left) + j
      BY <1>3, <1>4
    <3> QED BY <1>3, <1>4, <3>1, <3>2
  <2>3. trace' = trace
    BY <1>1 DEF env
  <2> QED BY <1>1, <1>2, <1>6, <2>1, <2>2, <2>3, SavingCallInv
<1>8. RebuildTypes'
  <2>1. n \in Node /\ n \in raw /\ job.values[n] \in Value /\ rows[n] \in Seq(Value)
    BY <1>2, <1>3, <1>5 DEF RebuildTypes
  <2>2. SavedRow(n) \in Seq(Value)
    BY <2>1 DEF SavedRow
  <2>3. rows' \in [Node -> Seq(Value)]
    BY <1>1, <1>2, <2>2 DEF RebuildTypes
  <2>4. raw' = raw /\ UNCHANGED <<trace, arrived, requests, faults, saved>>
    BY <1>1 DEF raw, env
  <2>5. \A m \in Node : m /= n => rows'[m] = rows[m]
    BY <1>1, <1>2 DEF RebuildTypes
  <2>6. Present' \subseteq raw'
    BY <1>2, <2>1, <2>4, <2>5 DEF Present, RebuildTypes
  <2>7. DOMAIN walk' = DOMAIN walk /\ walk'.step = walk.step
    BY <1>1, <1>2 DEF RebuildTypes, NoWalk
  <2> QED BY <1>1, <1>2, <1>6, <2>3, <2>4, <2>6, <2>7 DEF RebuildTypes
<1> QED BY <1>7, <1>8 DEF RebuildInv

\* A step that leaves the computation behind: the rebuild saves its edges, or is over.
LEMMA LeavingRebuildInv ==
  ASSUME FlowInv, CallInv, UNCHANGED orderVars, job.step \in {"rows", "checkpoint"},
         job'.step \in {"idle", "checkpoint"}
  PROVE  FlowInv' /\ CallInv' /\ CorrectInv'
<1>1. UNCHANGED <<busy, startedAt>> /\ FlowInv'
  BY IdleFlowInv DEF orderVars
<1>2. ~busy
  BY DEF CallInv
<1>3. CallInv'
  BY <1>1, <1>2 DEF CallInv
<1>4. CorrectInv'
  BY DEF CorrectInv, CorrectionIsCausal
<1> QED BY <1>1, <1>3, <1>4

LEMMA SaveEdgesRebuildInv == ASSUME RebuildInv, SaveEdges PROVE RebuildInv'
<1>1. /\ job.step = "rows" /\ UNCHANGED orderVars /\ UNCHANGED <<env, rows>>
      /\ saved' = saved \cup job.edges /\ torn' = FALSE
      /\ job' = [job EXCEPT !.step = "checkpoint"]
      /\ walk' = [walk EXCEPT !.moved = @ \/ (saved' /= saved /\ walk.step /= "none")]
  BY DEF SaveEdges, SavedEdges, Moves
<1>2. RebuildTypes /\ CallInv /\ FlowInv
  BY DEF RebuildInv
<1>3. /\ DOMAIN job' = DOMAIN job /\ job'.step = "checkpoint"
      /\ job'.values = job.values /\ job'.edges = job.edges
  BY <1>1, <1>2 DEF RebuildTypes, IdleJob
<1>4. FlowInv' /\ CallInv' /\ CorrectInv'
  BY <1>1, <1>2, <1>3, LeavingRebuildInv
<1>5. raw' = raw /\ Present' = Present /\ UNCHANGED <<trace, arrived, requests, faults, rows>>
  BY <1>1 DEF raw, Present, env
<1>6. DOMAIN walk' = DOMAIN walk /\ walk'.step = walk.step
  BY <1>1, <1>2 DEF RebuildTypes, NoWalk
<1>7. RebuildTypes'
  BY <1>1, <1>2, <1>3, <1>5, <1>6 DEF RebuildTypes
<1> QED BY <1>4, <1>7 DEF RebuildInv

\* The end of a rebuild, well or badly.
LEMMA EndRebuildInv == ASSUME RebuildInv, SaveCheckpoint \/ Fail PROVE RebuildInv'
<1>1. /\ job.step \in {"rows", "checkpoint"} /\ UNCHANGED orderVars
      /\ UNCHANGED <<trace, arrived, rows, saved, torn, walk>> /\ job' = IdleJob
      /\ \/ requests' = requests - 1 /\ faults' = faults
         \/ requests' = requests /\ faults < MaxFaults /\ faults' = faults + 1
  BY DEF SaveCheckpoint, Fail, Fault, db
<1>2. RebuildTypes /\ CallInv /\ FlowInv
  BY DEF RebuildInv
<1>3. IdleJob.step = "idle" /\ IdleJob.edges = {} /\ DOMAIN IdleJob.values = {}
  BY DEF IdleJob
<1>4. FlowInv' /\ CallInv' /\ CorrectInv'
  BY <1>1, <1>2, <1>3, LeavingRebuildInv
<1>5. /\ Len(trace.batches) \in Nat /\ arrived \in 0 .. Len(trace.batches) /\ faults \in 0 .. MaxFaults
      /\ MaxFaults \in Nat /\ requests \in 0 .. arrived + faults /\ requests > 0
  BY <1>1, <1>2, TraceFacts DEF RebuildTypes
<1>6. faults' \in 0 .. MaxFaults /\ requests' \in 0 .. arrived + faults'
  BY <1>1, <1>5
<1>7. raw' = raw /\ Present' = Present
  BY <1>1 DEF raw, Present
<1> HIDE DEF IdleJob
<1>8. RebuildTypes'
  BY <1>1, <1>2, <1>3, <1>5, <1>6, <1>7 DEF RebuildTypes
<1> QED BY <1>4, <1>8 DEF RebuildInv

LEMMA MergeRebuildInv == ASSUME RebuildInv, NEW n \in Node, Merge(n) PROVE RebuildInv'
<1>1. /\ Len(rows[n]) > 1 /\ rows' = [rows EXCEPT ![n] = <<Last(rows[n])>>]
      /\ UNCHANGED orderVars /\ UNCHANGED <<trace, arrived, requests, faults, saved, torn, job, walk>>
  BY DEF Merge, env
<1>2. RebuildTypes
  BY DEF RebuildInv
<1>3. rows[n] \in Seq(Value)
  BY <1>2 DEF RebuildTypes
<1>4. Last(rows[n]) \in Value /\ rows[n] /= <<>>
  BY <1>1, <1>3 DEF Last
<1>5. rows' \in [Node -> Seq(Value)] /\ \A m \in Node : m /= n => rows'[m] = rows[m]
  BY <1>1, <1>2, <1>4 DEF RebuildTypes
<1>6. raw' = raw
  BY <1>1 DEF raw
<1>7. Present' \subseteq raw'
  BY <1>2, <1>4, <1>5, <1>6 DEF Present, RebuildTypes
<1>8. RebuildTypes'
  BY <1>1, <1>2, <1>5, <1>6, <1>7 DEF RebuildTypes
<1> QED BY <1>1, <1>8, BesideRebuildInv DEF RebuildInv

LEMMA WalkRebuildInv == ASSUME RebuildInv, Walk \/ UNCHANGED vars PROVE RebuildInv'
<1>1. RebuildTypes
  BY DEF RebuildInv
<1>2. UNCHANGED orderVars /\ UNCHANGED <<env, db, job>>
  BY DEF Walk, OpenFlow, ReadNodes, ReadEdges, NextPage, RejectCursor, vars
<1>3. DOMAIN walk' = DOMAIN NoWalk /\ walk'.step \in {"none", "nodes", "edges", "page", "done", "conflict"}
  <2>1. DOMAIN walk = DOMAIN NoWalk /\ walk.step \in {"none", "nodes", "edges", "page", "done", "conflict"}
    BY <1>1 DEF RebuildTypes
  <2>2. ASSUME NEW limit \in Limits, OpenFlow(limit)
        PROVE  DOMAIN walk' = DOMAIN NoWalk /\ walk'.step = "nodes"
    BY <2>2 DEF OpenFlow, NoWalk
  <2>3. CASE ReadNodes
    <3>1. PICK page, more : walk' = [walk EXCEPT !.step = "edges", !.page = page, !.more = more]
      BY <2>3 DEF ReadNodes
    <3> QED BY <2>1, <3>1 DEF NoWalk
  <2>4. CASE ReadEdges
    <3>1. PICK step \in {"page", "done"} :
            \E page, given, shown, omitted, steady :
              walk' = [walk EXCEPT !.step = step, !.page = page, !.nodes = given, !.shown = shown,
                                   !.omitted = omitted, !.steady = steady]
      BY <2>4 DEF ReadEdges
    <3> QED BY <2>1, <3>1 DEF NoWalk
  <2>5. CASE NextPage
    BY <2>1, <2>5 DEF NextPage, NoWalk
  <2>6. CASE RejectCursor
    BY <2>6 DEF RejectCursor, NoWalk
  <2>7. CASE UNCHANGED vars
    BY <2>1, <2>7 DEF vars
  <2> QED BY <2>2, <2>3, <2>4, <2>5, <2>6, <2>7 DEF Walk
<1>4. UNCHANGED <<trace, arrived, requests, faults, rows, saved, torn>> /\ raw' = raw /\ Present' = Present
  BY <1>2 DEF env, db, raw, Present
<1>5. RebuildTypes'
  BY <1>1, <1>2, <1>3, <1>4 DEF RebuildTypes
<1> QED BY <1>2, <1>4, <1>5, BesideRebuildInv DEF RebuildInv

LEMMA NextRebuildInv == RebuildInv /\ [Next]_vars => RebuildInv'
BY ArrivalRebuildInv, BeginRebuildInv, FlowStepRebuildInv, ApplyFlowOrderRebuildInv,
   CorrectNodeRebuildInv, AlignEdgesRebuildInv, SaveRowRebuildInv, SaveEdgesRebuildInv,
   EndRebuildInv, MergeRebuildInv, WalkRebuildInv DEF Next

-----------------------------------------------------------------------------
\* Rows, rebuilds and walks have their types, whatever versions of the rows are read.
THEOREM ReadModelTypes == Spec => []TypeOK
<1>1. RebuildInv => TypeOK
  <2> SUFFICES ASSUME RebuildInv PROVE TypeOK
    OBVIOUS
  <2>1. OrderTypeOK
    BY DEF RebuildInv, FlowInv, FlowTypes, CallInv, OrderTypeOK
  <2>2. \A n \in Node : \A i \in DOMAIN rows[n] : rows[n][i] \in Value
    <3> SUFFICES ASSUME NEW n \in Node, NEW i \in DOMAIN rows[n] PROVE rows[n][i] \in Value
      OBVIOUS
    <3>1. rows[n] \in Seq(Value)
      BY DEF RebuildInv, RebuildTypes
    <3> QED BY <3>1
  <2> QED BY <2>1, <2>2 DEF RebuildInv, RebuildTypes, TypeOK
<1> QED BY <1>1, InitRebuildInv, NextRebuildInv, PTL DEF Spec

\* Rebuilds keep to what computeFlowOrder may be called with, so every flow order they save is
\* sound.
THEOREM RebuildsOrderSoundly == Spec => []OrderSound
<1>1. RebuildInv => OrderSound
  BY DEF RebuildInv, FlowInv
<1> QED BY <1>1, InitRebuildInv, NextRebuildInv, PTL DEF Spec

\* The starts a rebuild saves are those the raw times define, whatever versions of its rows it
\* read and whatever earlier rebuilds made of them.
THEOREM CorrectionsAreCausal == Spec => []CorrectionIsCausal
<1>1. RebuildInv => CorrectionIsCausal
  BY DEF RebuildInv, CorrectInv
<1> QED BY <1>1, InitRebuildInv, NextRebuildInv, PTL DEF Spec
-----------------------------------------------------------------------------
(* The checkpoint.                                                         *)

\* A finite set of naturals has a greatest element: a least subset without one has one element
\* more than a subset that has one.
LEMMA MaxOf ==
  ASSUME NEW S \in SUBSET Nat, IsFiniteSet(S), S /= {}
  PROVE  Max(S) \in S /\ \A y \in S : Max(S) >= y
<1> DEFINE HasMax(T) == \E x \in T : \A y \in T : x >= y
           bad == {T \in SUBSET S : T /= {} /\ ~HasMax(T)}
<1>1. bad = {}
  <2> SUFFICES ASSUME bad /= {} PROVE FALSE
    OBVIOUS
  <2>1. bad \subseteq FiniteSubsetsOf(S)
    BY FS_FiniteSubsetsOfFinite
  <2>2. PICK T \in bad : \A U \in bad : ~ (<<U, T>> \in StrictSubsetOrdering(S))
    <3> HIDE DEF bad
    <3> QED BY <2>1, FS_StrictSubsetOrderingWellFounded, WFMin
  <2>3. PICK x \in T : TRUE
    OBVIOUS
  <2> DEFINE U == T \ {x}
  <2>4. \A V \in SUBSET S : V \subseteq T /\ V /= T => V \notin bad
    BY <2>2 DEF StrictSubsetOrdering
  <2>5. U \notin bad
    BY <2>3, <2>4
  <2>6. CASE U = {}
    <3>1. T = {x} /\ x \in Nat
      BY <2>3, <2>6
    <3> QED BY <3>1
  <2>7. CASE U /= {}
    <3>1. PICK m \in U : \A y \in U : m >= y
      BY <2>5, <2>7
    <3>2. x \in Nat /\ T \subseteq Nat /\ m \in Nat
      BY <2>3
    <3>3. CASE m >= x
      BY <3>1, <3>2, <3>3
    <3>4. CASE ~(m >= x)
      <4>1. \A y \in T : x >= y
        BY <3>1, <3>2, <3>4
      <4> QED BY <2>3, <4>1
    <3> QED BY <3>3, <3>4
  <2> QED BY <2>6, <2>7
<1>2. HasMax(S)
  BY <1>1
<1> HIDE DEF bad
<1> QED BY <1>2 DEF Max

\* What has arrived is finite.
LEMMA RawIsFinite ==
  ASSUME trace \in Traces, arrived \in 0 .. Len(trace.batches)
  PROVE  IsFiniteSet(raw)
<1> DEFINE first(k) == UNION {trace.batches[i] : i \in 1 .. k}
           bad == {k \in 0 .. Len(trace.batches) : ~IsFiniteSet(first(k))}
<1>1. /\ Len(trace.batches) \in Nat
      /\ \A i \in 1 .. Len(trace.batches) : IsFiniteSet(trace.batches[i])
  BY ReadModelAssumption
<1>2. bad = {}
  <2> SUFFICES ASSUME bad /= {} PROVE FALSE
    OBVIOUS
  <2> DEFINE k == Min(bad)
  <2>1. k \in bad /\ \A j \in bad : k <= j
    <3>1. bad \subseteq Nat
      BY <1>1
    <3> HIDE DEF bad
    <3> QED BY <3>1, MinOf
  <2> HIDE DEF k
  <2>2. CASE k = 0
    <3>1. first(0) = {}
      OBVIOUS
    <3> QED BY <2>1, <2>2, <3>1, FS_EmptySet
  <2>3. CASE k /= 0
    <3>1. k - 1 \in 0 .. Len(trace.batches) /\ k \in 1 .. Len(trace.batches) /\ ~(k <= k - 1)
      BY <1>1, <2>1, <2>3
    <3>2. IsFiniteSet(first(k - 1)) /\ IsFiniteSet(trace.batches[k])
      BY <1>1, <2>1, <3>1
    <3>3. 1 .. k = 1 .. (k - 1) \cup {k}
      BY <3>1
    <3>4. first(k) = first(k - 1) \cup trace.batches[k]
      BY <3>3
    <3> HIDE DEF first
    <3> QED BY <2>1, <3>2, <3>4, FS_Union
  <2> QED BY <2>2, <2>3
<1> QED BY <1>2 DEF raw

\* The checkpoint's time of the last node event is a time.
CheckpointInv == progress.node \in Nat /\ job.next.node \in Nat

LEMMA ReachedIsTime ==
  ASSUME RebuildTypes, CheckpointInv
  PROVE  Reached.node \in Nat
<1> DEFINE starts == {trace.start[n] : n \in StartsLoaded}
           ends == {trace.end[n] : n \in EndsLoaded}
           times == {progress.node} \cup starts \cup ends
<1>1. IsFiniteSet(raw)
  BY RawIsFinite DEF RebuildTypes
<1>2. StartsLoaded \in SUBSET raw /\ EndsLoaded \in SUBSET raw
  BY DEF StartsLoaded, EndsLoaded
<1>3. IsFiniteSet(StartsLoaded) /\ IsFiniteSet(EndsLoaded)
  BY <1>1, <1>2, FS_Subset
<1>4. IsFiniteSet(starts)
  <2>1. [n \in StartsLoaded |-> trace.start[n]] \in Surjection(StartsLoaded, starts)
    BY DEF Surjection
  <2> QED BY <1>3, <2>1, FS_Surjection
<1>5. IsFiniteSet(ends)
  <2>1. [n \in EndsLoaded |-> trace.end[n]] \in Surjection(EndsLoaded, ends)
    BY DEF Surjection
  <2> QED BY <1>3, <2>1, FS_Surjection
<1>6. times \subseteq Nat
  BY TraceFacts DEF RebuildTypes, CheckpointInv, StartsLoaded, EndsLoaded
<1>7. IsFiniteSet(times) /\ times /= {}
  <2>1. IsFiniteSet({progress.node})
    BY FS_Singleton
  <2> HIDE DEF starts, ends
  <2> QED BY <1>4, <1>5, <2>1, FS_Union
<1>8. Reached.node = Max(times)
  BY DEF Reached
<1> HIDE DEF times
<1> QED BY <1>6, <1>7, <1>8, MaxOf

LEMMA NextCheckpointInv ==
  ASSUME RebuildTypes, CheckpointInv, [Next]_vars
  PROVE  CheckpointInv'
<1>1. CASE Begin
  <2>1. progress' = progress
    BY <1>1 DEF Begin, db
  <2>2. job'.next = Reached
    <3>1. PICK values, touched, es :
            job' = [IdleJob EXCEPT !.step = "order", !.values = values, !.touched = touched,
                                   !.edges = es, !.next = Reached]
      BY <1>1, Zenon DEF Begin
    <3> QED BY <3>1 DEF IdleJob
  <2> QED BY <2>1, <2>2, ReachedIsTime DEF CheckpointInv
<1>2. CASE ApplyFlowOrder \/ CorrectNode \/ AlignEdges \/ SaveRow \/ SaveEdges
  <2>1. progress' = progress /\ DOMAIN job = DOMAIN IdleJob
    BY <1>2 DEF ApplyFlowOrder, CorrectNode, AlignEdges, SaveRow, SaveEdges, db, RebuildTypes
  <2>2. job'.next = job.next
    <3> USE <2>1 DEF IdleJob
    <3>1. CASE ApplyFlowOrder
      <4>1. PICK values : job' = [job EXCEPT !.step = "correct", !.values = values, !.left = order]
        BY <3>1, Zenon DEF ApplyFlowOrder
      <4> QED BY <4>1
    <3>2. CASE CorrectNode
      BY <3>2 DEF CorrectNode
    <3>3. CASE AlignEdges
      <4>1. PICK aligned : job' = [job EXCEPT !.step = "rows", !.left = order, !.aligned = aligned]
        BY <3>3, Zenon DEF AlignEdges
      <4> QED BY <4>1
    <3>4. CASE SaveRow \/ SaveEdges
      BY <3>4 DEF SaveRow, SaveEdges
    <3> QED BY <1>2, <3>1, <3>2, <3>3, <3>4
  <2> QED BY <2>1, <2>2 DEF CheckpointInv
<1>3. CASE SaveCheckpoint \/ Fail
  <2>1. job'.next.node = 0 /\ (progress' = progress \/ progress' = job.next)
    BY <1>3 DEF SaveCheckpoint, Fail, IdleJob, db
  <2> QED BY <2>1 DEF CheckpointInv
<1>4. CASE UNCHANGED <<progress, job>>
  BY <1>4 DEF CheckpointInv
<1>5. Ingest \/ Redeliver \/ FlowStep \/ (\E n \in Node : Merge(n)) \/ Walk \/ UNCHANGED vars
        => UNCHANGED <<progress, job>>
  BY DEF Ingest, Redeliver, FlowStep, Merge, Walk, OpenFlow, ReadNodes, ReadEdges, NextPage,
         RejectCursor, vars, db
<1> QED BY <1>1, <1>2, <1>3, <1>4, <1>5 DEF Next

-----------------------------------------------------------------------------
(* The numbers of the rows.                                                *)

\* The rows in flow order: the last version of the i-th has the number i - 1.
Numbered(at) == Range(at) = Present /\ \A i \in 1 .. Len(at) : Last(rows[at[i]]).order = i - 1

\* Unless a save is half done the rows are numbered without gap or repetition, and what a save has
\* done of it is the beginning of the order it found; it leaves out no row, for those without new
\* events were in the read model before; and the ends of the saved edges are rows.
RowsInv ==
  /\ \A e \in saved : {From[e], To[e]} \subseteq Present
  /\ job.step \in {"order", "correct", "rows"} =>
       Present \subseteq DOMAIN job.values /\ DOMAIN job.values \ job.touched \subseteq Present
  /\ job.step \in {"correct", "rows"} =>
       \A i \in 1 .. Len(order) : job.values[order[i]].order = i - 1
  /\ job.step = "rows" =>
       \A i \in 1 .. Len(order) - Len(job.left) :
         order[i] \in Present /\ Last(rows[order[i]]).order = i - 1
  /\ ~torn => \E at \in Seq(Node) : Numbered(at)

LEMMA InitRowsInv == Init => RowsInv
<1> SUFFICES ASSUME Init PROVE RowsInv
  OBVIOUS
<1>1. rows = [n \in Node |-> <<>>] /\ saved = {} /\ job.step = "idle"
  BY DEF Init, IdleJob
<1>2. Present = {}
  BY <1>1 DEF Present
<1>3. Numbered(<<>>)
  BY <1>2 DEF Numbered, Range
<1>4. \E at \in Seq(Node) : Numbered(at)
  <2>1. <<>> \in Seq(Node)
    OBVIOUS
  <2> QED BY <1>3, <2>1
<1> QED BY <1>1, <1>4 DEF RowsInv

\* Steps beside the rebuild, and its end.
LEMMA BesideRowsInv ==
  ASSUME RowsInv, UNCHANGED <<rows, saved, torn>>,
         UNCHANGED <<order, job>> \/ job'.step \in {"idle", "checkpoint"}
  PROVE  RowsInv'
<1>1. Present' = Present /\ \A at : Numbered(at)' <=> Numbered(at)
  BY DEF Present, Numbered
<1>2. ~torn' => \E at \in Seq(Node) : Numbered(at)'
  BY <1>1 DEF RowsInv
<1>3. CASE UNCHANGED <<order, job>>
  BY <1>1, <1>2, <1>3 DEF RowsInv
<1>4. CASE job'.step \in {"idle", "checkpoint"}
  BY <1>1, <1>2, <1>4 DEF RowsInv
<1> QED BY <1>3, <1>4

\* Whoever loads a start loads the end, which is not older.
LEMMA StartsWithEnds ==
  ASSUME RebuildTypes, CheckpointInv
  PROVE  StartsLoaded \subseteq EndsLoaded
<1> SUFFICES ASSUME NEW n \in StartsLoaded PROVE n \in EndsLoaded
  OBVIOUS
<1>1. n \in raw \cap Node /\ trace.start[n] >= Since(progress.node)
  BY DEF StartsLoaded
<1>2. trace.start[n] <= trace.end[n] /\ trace.start[n] \in Nat /\ trace.end[n] \in Nat
  BY <1>1, ReadModelAssumption DEF RebuildTypes
<1>3. progress.node \in Nat /\ Lookback \in Nat
  BY ReadModelAssumption DEF CheckpointInv
<1> QED BY <1>1, <1>2, <1>3 DEF EndsLoaded, Since

\* A rebuild folds every row there is, and a node that it sees for the first time with its end.
LEMMA BeginRowsInv == ASSUME RebuildTypes, CheckpointInv, RowsInv, Begin PROVE RowsInv'
<1> DEFINE ns == Present \cup StartsLoaded
<1>1. UNCHANGED <<rows, saved, torn>>
  BY DEF Begin, db
<1>2. PICK values, es, next : job' = [IdleJob EXCEPT !.step = "order", !.values = [n \in ns |-> values[n]],
                                       !.touched = ns \cap EndsLoaded, !.edges = es, !.next = next]
  <2>1. PICK old : job' = [IdleJob EXCEPT !.step = "order",
                              !.values = [n \in ns |-> FoldNode(n, IF n \in Present THEN old[n]
                                                                   ELSE [start |-> 0, end |-> 0])],
                              !.touched = ns \cap EndsLoaded, !.edges = Known(ns, saved \cup EdgesLoaded),
                              !.next = Reached]
    BY Zenon DEF Begin
  <2> DEFINE folded == [n \in ns |-> FoldNode(n, IF n \in Present THEN old[n] ELSE [start |-> 0, end |-> 0])]
  <2>2. folded = [n \in ns |-> folded[n]]
    OBVIOUS
  <2>3. job' = [IdleJob EXCEPT !.step = "order", !.values = folded, !.touched = ns \cap EndsLoaded,
                              !.edges = Known(ns, saved \cup EdgesLoaded), !.next = Reached]
    BY <2>1
  <2> HIDE DEF ns, folded
  <2> QED BY <2>2, <2>3
<1>3. job'.step = "order" /\ DOMAIN job'.values = ns /\ job'.touched = ns \cap EndsLoaded
  <2> HIDE DEF ns
  <2> QED BY <1>2 DEF IdleJob
<1>4. StartsLoaded \subseteq EndsLoaded
  BY StartsWithEnds
<1>5. Present' = Present /\ \A at : Numbered(at)' <=> Numbered(at)
  BY <1>1 DEF Present, Numbered
<1> QED BY <1>1, <1>3, <1>4, <1>5 DEF RowsInv

\* A step of the ordering loop.
LEMMA FlowStepRowsInv == ASSUME RebuildInv, RowsInv, FlowStep PROVE RowsInv'
<1>1. UNCHANGED <<rows, saved, torn, job>> /\ job.step = "order"
  BY DEF FlowStep, db, RebuildInv, CallInv, Turn, Break, Take, Skip, Return
<1>2. Present' = Present /\ \A at : Numbered(at)' <=> Numbered(at)
  BY <1>1 DEF Present, Numbered
<1> QED BY <1>1, <1>2 DEF RowsInv

\* The numbers are the places in the order.
LEMMA ApplyFlowOrderRowsInv == ASSUME RebuildInv, RowsInv, ApplyFlowOrder PROVE RowsInv'
<1> DEFINE number(n) == (CHOOSE i \in DOMAIN order : order[i] = n) - 1
           numbered == [n \in nodes |-> [job.values[n] EXCEPT !.order = number(n)]]
<1>1. /\ job.step = "order" /\ ~busy /\ order' = order /\ UNCHANGED <<rows, saved, torn>>
      /\ job' = [job EXCEPT !.step = "correct", !.values = numbered, !.left = order]
  BY DEF ApplyFlowOrder, orderVars, db
<1>2. RebuildTypes /\ CallInv /\ FlowInv
  BY DEF RebuildInv
<1>3. /\ order \in Seq(Node) /\ Len(order) \in Nat /\ DOMAIN order = 1 .. Len(order)
      /\ processed = nodes /\ DOMAIN job.values = nodes
      /\ \A i, j \in 1 .. Len(order) : order[i] = order[j] => i = j
  BY <1>1, <1>2 DEF FlowInv, FlowTypes, OrderSound, AllOrdered, CallInv
<1>4. ASSUME NEW i \in 1 .. Len(order) PROVE numbered[order[i]].order = i - 1
  <2>1. order[i] \in nodes
    BY <1>3 DEF processed
  <2>2. number(order[i]) = i - 1
    BY <1>3
  <2> HIDE DEF number
  <2>3. job.values[order[i]] \in Value
    BY <1>2, <1>3, <2>1 DEF RebuildTypes
  <2>4. numbered[order[i]] = [job.values[order[i]] EXCEPT !.order = number(order[i])]
    BY <2>1
  <2> QED BY <2>2, <2>3, <2>4 DEF Value
<1>5. DOMAIN numbered = nodes
  OBVIOUS
<1> HIDE DEF numbered
<1>6. /\ job'.step = "correct" /\ job'.values = numbered /\ job'.touched = job.touched
      /\ job'.left = order
  BY <1>1, <1>2 DEF RebuildTypes, IdleJob
<1>7. Present' = Present /\ \A at : Numbered(at)' <=> Numbered(at)
  BY <1>1 DEF Present, Numbered
<1> QED BY <1>1, <1>3, <1>4, <1>5, <1>6, <1>7 DEF RowsInv

\* The correction changes times only.
LEMMA CorrectKeepsOrder ==
  ASSUME NEW values, NEW n \in DOMAIN values, NEW m \in DOMAIN values,
         \A k \in DOMAIN values : values[k] \in Value
  PROVE  Correct(values, n)[m].order = values[m].order /\ DOMAIN Correct(values, n) = DOMAIN values
<1> DEFINE reset == [values EXCEPT ![n].start = trace.start[n]]
           delta == Min({reset[p].start : p \in Parents(n)}) + 1 - trace.start[n]
<1>1. DOMAIN reset = DOMAIN values /\ DOMAIN reset[n] = {"start", "end", "order"}
  BY DEF Value
<1>2. \A k \in DOMAIN values : reset[k].order = values[k].order
  BY DEF Value
<1>3. \/ Correct(values, n) = reset
      \/ Correct(values, n) = [reset EXCEPT ![n].start = @ + delta, ![n].end = @ + delta]
  BY DEF Correct
<1> HIDE DEF reset, delta
<1> QED BY <1>1, <1>2, <1>3

LEMMA CorrectNodeRowsInv == ASSUME RebuildInv, RowsInv, CorrectNode PROVE RowsInv'
<1> DEFINE n == Head(job.left)
           values == Correct(job.values, n)
<1>1. /\ job.step = "correct" /\ job.left /= <<>> /\ order' = order /\ UNCHANGED <<rows, saved, torn>>
      /\ job' = [job EXCEPT !.values = values, !.left = Tail(@)]
  BY DEF CorrectNode, orderVars, db
<1>2. RebuildTypes /\ CallInv /\ FlowInv
  BY DEF RebuildInv
<1>3. /\ order \in Seq(Node) /\ Len(order) \in Nat /\ DOMAIN job.values = nodes
      /\ processed = nodes /\ job.left \in Seq(Node) /\ Len(job.left) <= Len(order)
      /\ \A j \in 1 .. Len(job.left) : job.left[j] = order[Len(order) - Len(job.left) + j]
  BY <1>1, <1>2 DEF FlowInv, FlowTypes, OrderSound, AllOrdered, CallInv
<1>4. n \in DOMAIN job.values
  <2>1. Len(job.left) \in Nat /\ Len(job.left) >= 1 /\ n = job.left[1]
    BY <1>1, <1>3
  <2>2. 1 \in 1 .. Len(job.left) /\ Len(order) - Len(job.left) + 1 \in 1 .. Len(order)
    BY <1>3, <2>1
  <2> QED BY <1>3, <2>1, <2>2 DEF processed
<1>5. /\ DOMAIN values = DOMAIN job.values
      /\ \A m \in DOMAIN job.values : values[m].order = job.values[m].order
  BY <1>2, <1>4, CorrectKeepsOrder DEF RebuildTypes
<1> HIDE DEF values, n
<1>6. job'.step = "correct" /\ job'.values = values /\ job'.touched = job.touched
  BY <1>1, <1>2 DEF RebuildTypes, IdleJob
<1>7. \A i \in 1 .. Len(order) : order[i] \in DOMAIN job.values
  BY <1>3 DEF processed
<1>8. Present' = Present /\ \A at : Numbered(at)' <=> Numbered(at)
  BY <1>1 DEF Present, Numbered
<1> QED BY <1>1, <1>5, <1>6, <1>7, <1>8 DEF RowsInv

LEMMA AlignEdgesRowsInv == ASSUME RebuildInv, RowsInv, AlignEdges PROVE RowsInv'
<1> DEFINE aligned == [e \in job.edges |-> Aligned(e)]
<1>1. /\ job.step = "correct" /\ order' = order /\ UNCHANGED <<rows, saved, torn>>
      /\ job' = [job EXCEPT !.step = "rows", !.left = order, !.aligned = aligned]
  BY DEF AlignEdges, orderVars, db
<1> HIDE DEF aligned
<1>2. DOMAIN job = DOMAIN IdleJob /\ Len(order) \in Nat
  BY DEF RebuildInv, RebuildTypes, FlowInv, FlowTypes
<1>3. /\ job'.step = "rows" /\ job'.values = job.values /\ job'.touched = job.touched
      /\ job'.left = order
  BY <1>1, <1>2 DEF IdleJob
<1>4. Present' = Present /\ \A at : Numbered(at)' <=> Numbered(at)
  BY <1>1 DEF Present, Numbered
<1> QED BY <1>1, <1>2, <1>3, <1>4 DEF RowsInv

\* A row that is saved is the last version of it that readers may see.
LEMMA SaveRowRowsInv == ASSUME RebuildInv, RowsInv, SaveRow PROVE RowsInv'
<1> DEFINE n == Head(job.left)
           k == Len(order) - Len(job.left)
<1>1. /\ job.step = "rows" /\ job.left /= <<>> /\ order' = order /\ saved' = saved /\ torn' = TRUE
      /\ rows' = [rows EXCEPT ![n] = SavedRow(n)]
      /\ job' = [job EXCEPT !.left = Tail(@)]
  BY DEF SaveRow, orderVars
<1>2. RebuildTypes /\ CallInv /\ FlowInv
  BY DEF RebuildInv
<1>3. /\ order \in Seq(Node) /\ Len(order) \in Nat /\ DOMAIN job.values = nodes
      /\ processed = nodes /\ job.left \in Seq(Node) /\ Len(job.left) <= Len(order)
      /\ \A j \in 1 .. Len(job.left) : job.left[j] = order[Len(order) - Len(job.left) + j]
      /\ \A i, j \in 1 .. Len(order) : order[i] = order[j] => i = j
  BY <1>1, <1>2 DEF FlowInv, FlowTypes, OrderSound, AllOrdered, CallInv
<1>4. /\ Len(job.left) \in Nat /\ Len(job.left) >= 1 /\ n = job.left[1]
      /\ Len(Tail(job.left)) = Len(job.left) - 1
  BY <1>1, <1>3
<1>5. k \in Nat /\ k + 1 \in 1 .. Len(order) /\ n = order[k + 1] /\ n \in nodes /\ n \in Node
  <2>1. 1 \in 1 .. Len(job.left) /\ k + 1 \in 1 .. Len(order) /\ k \in Nat
    BY <1>3, <1>4
  <2>2. n = order[k + 1]
    BY <1>3, <1>4, <2>1
  <2> HIDE DEF n, k
  <2>3. order[k + 1] \in processed /\ order[k + 1] \in Node
    BY <1>3, <2>1 DEF processed
  <2> QED BY <1>3, <2>1, <2>2, <2>3
<1>6. Len(order) - Len(Tail(job.left)) = k + 1
  <2> DEFINE l == Len(Tail(job.left))
             b == Len(job.left)
  <2>1. l = b - 1 /\ b \in Nat
    BY <1>4
  <2> HIDE DEF n, l, b
  <2>2. Len(order) - l = (Len(order) - b) + 1
    BY <1>3, <2>1
  <2> QED BY <2>2 DEF l, b
<1>7. /\ job'.step = "rows" /\ job'.values = job.values /\ job'.touched = job.touched
      /\ job'.left = Tail(job.left)
  BY <1>1, <1>2 DEF RebuildTypes, IdleJob
<1> HIDE DEF n, k
<1>8. SavedRow(n) /= <<>> /\ Last(SavedRow(n)) = job.values[n]
  <2>1. rows[n] \in Seq(Value) /\ job.values[n] \in Value
    BY <1>2, <1>3, <1>5 DEF RebuildTypes
  <2>2. CASE n \in job.touched
    BY <2>2 DEF SavedRow, Last
  <2>3. CASE n \notin job.touched /\ Last(rows[n]) = job.values[n]
    <3>1. rows[n] /= <<>>
      BY <1>1, <1>3, <1>5, <2>3 DEF RowsInv, Present
    <3> QED BY <2>3, <3>1 DEF SavedRow
  <2>4. CASE n \notin job.touched /\ Last(rows[n]) /= job.values[n]
    <3>1. SavedRow(n) = Append(rows[n], job.values[n])
      BY <2>4 DEF SavedRow
    <3> QED BY <2>1, <3>1 DEF Last
  <2> QED BY <2>2, <2>3, <2>4
<1>9. rows'[n] = SavedRow(n) /\ \A m \in Node : m /= n => rows'[m] = rows[m]
  BY <1>1, <1>2, <1>5 DEF RebuildTypes
<1>10. Present' = Present \cup {n}
  BY <1>5, <1>8, <1>9 DEF Present
<1>11. ASSUME NEW i \in 1 .. k + 1
       PROVE  order[i] \in Present' /\ Last(rows'[order[i]]).order = i - 1
  <2>1. i \in 1 .. Len(order) /\ order[i] \in Node
    BY <1>3, <1>5
  <2>2. CASE i = k + 1
    <3>1. job.values[n].order = i - 1
      BY <1>1, <1>5, <2>1, <2>2 DEF RowsInv
    <3> QED BY <1>5, <1>8, <1>9, <1>10, <2>2, <3>1
  <2>3. CASE i /= k + 1
    <3>1. i \in 1 .. k /\ order[i] /= n
      BY <1>3, <1>5, <2>1, <2>3
    <3>2. order[i] \in Present /\ Last(rows[order[i]]).order = i - 1
      BY <1>1, <3>1 DEF RowsInv, k
    <3> QED BY <1>9, <1>10, <2>1, <3>1, <3>2
  <2> QED BY <2>2, <2>3
<1>12. \A e \in saved : {From[e], To[e]} \subseteq Present'
  BY <1>10 DEF RowsInv
<1>13. Present' \subseteq DOMAIN job.values /\ DOMAIN job.values \ job.touched \subseteq Present'
  BY <1>1, <1>3, <1>5, <1>10 DEF RowsInv
<1>14. \A i \in 1 .. Len(order) : job.values[order[i]].order = i - 1
  BY <1>1 DEF RowsInv
<1> QED BY <1>1, <1>6, <1>7, <1>11, <1>12, <1>13, <1>14 DEF RowsInv

\* When the last row is saved all rows have their new numbers.
LEMMA SaveEdgesRowsInv == ASSUME RebuildInv, RowsInv, SaveEdges PROVE RowsInv'
<1>1. /\ job.step = "rows" /\ job.left = <<>> /\ order' = order /\ rows' = rows
      /\ saved' = saved \cup job.edges /\ job' = [job EXCEPT !.step = "checkpoint"]
  BY DEF SaveEdges, SavedEdges, orderVars
<1>2. RebuildTypes /\ CallInv /\ FlowInv
  BY DEF RebuildInv
<1>3. /\ order \in Seq(Node) /\ Len(order) \in Nat /\ DOMAIN order = 1 .. Len(order)
      /\ DOMAIN job.values = nodes /\ processed = nodes /\ job.edges = Known(nodes, edges)
  BY <1>1, <1>2 DEF FlowInv, FlowTypes, OrderSound, AllOrdered, CallInv
<1>4. Len(order) - Len(job.left) = Len(order)
  BY <1>1, <1>3
<1>5. \A i \in 1 .. Len(order) : order[i] \in Present /\ Last(rows[order[i]]).order = i - 1
  BY <1>1, <1>4 DEF RowsInv
<1>6. Present = nodes /\ Range(order) = nodes
  BY <1>1, <1>3, <1>5 DEF RowsInv, Range, processed
<1>7. Present' = Present /\ \A at : Numbered(at)' <=> Numbered(at)
  BY <1>1 DEF Present, Numbered
<1>8. \E at \in Seq(Node) : Numbered(at)
  BY <1>3, <1>5, <1>6 DEF Numbered
<1>9. \A e \in saved' : {From[e], To[e]} \subseteq Present
  BY <1>1, <1>3, <1>6 DEF RowsInv, Known
<1>10. job'.step = "checkpoint"
  BY <1>1, <1>2 DEF RebuildTypes, IdleJob
<1> QED BY <1>7, <1>8, <1>9, <1>10 DEF RowsInv

\* A merge keeps the last version.
LEMMA MergeRowsInv == ASSUME RebuildInv, RowsInv, NEW n \in Node, Merge(n) PROVE RowsInv'
<1>1. /\ Len(rows[n]) > 1 /\ rows' = [rows EXCEPT ![n] = <<Last(rows[n])>>]
      /\ UNCHANGED <<order, saved, torn, job>>
  BY DEF Merge, orderVars
<1>2. rows \in [Node -> Seq(Value)]
  BY DEF RebuildInv, RebuildTypes
<1>3. \A m \in Node : Last(rows'[m]) = Last(rows[m]) /\ (rows'[m] = <<>> <=> rows[m] = <<>>)
  <2> SUFFICES ASSUME NEW m \in Node
               PROVE  Last(rows'[m]) = Last(rows[m]) /\ (rows'[m] = <<>> <=> rows[m] = <<>>)
    OBVIOUS
  <2>1. CASE m = n
    <3>1. rows'[n] = <<Last(rows[n])>> /\ rows[n] /= <<>>
      BY <1>1, <1>2
    <3> QED BY <2>1, <3>1 DEF Last
  <2>2. CASE m /= n
    BY <1>1, <1>2, <2>2
  <2> QED BY <2>1, <2>2
<1>4. Present' = Present
  BY <1>3 DEF Present
<1>5. ASSUME NEW at \in Seq(Node), Numbered(at) PROVE Numbered(at)'
  BY <1>3, <1>4, <1>5 DEF Numbered
<1>6. Present \subseteq Node
  BY DEF Present
<1> QED BY <1>1, <1>3, <1>4, <1>5, <1>6 DEF RowsInv

LEMMA NextRowsInv ==
  ASSUME RebuildInv, CheckpointInv, RowsInv, [Next]_vars
  PROVE  RowsInv'
<1>1. Ingest \/ Redeliver \/ Walk \/ UNCHANGED vars => UNCHANGED <<rows, saved, torn, order, job>>
  BY DEF Ingest, Redeliver, Walk, OpenFlow, ReadNodes, ReadEdges, NextPage, RejectCursor, vars,
         db, orderVars
<1>2. SaveCheckpoint \/ Fail => UNCHANGED <<rows, saved, torn>> /\ job'.step = "idle"
  BY DEF SaveCheckpoint, Fail, db, IdleJob
<1> QED BY <1>1, <1>2, BesideRowsInv, BeginRowsInv, FlowStepRowsInv, ApplyFlowOrderRowsInv,
           CorrectNodeRowsInv, AlignEdgesRowsInv, SaveRowRowsInv, SaveEdgesRowsInv, MergeRowsInv
        DEF Next, RebuildInv
-----------------------------------------------------------------------------
(* Durations.                                                              *)

\* No end is before the original one, and a node that is corrected or saved lasts as long as it did.
DurationInv ==
  /\ \A n \in DOMAIN job.values : job.values[n].end >= trace.end[n]
  /\ job.step = "correct" => \A n \in Corrected : LastsAsLong(job.values[n], n)
  /\ job.step = "rows" => \A n \in DOMAIN job.values : LastsAsLong(job.values[n], n)
  /\ \A n \in Node : \A i \in DOMAIN rows[n] :
       rows[n][i].end >= trace.end[n] /\ LastsAsLong(rows[n][i], n)

\* A turn of the correction moves the start to where it was or later, and the end with it.
LEMMA CorrectLasts ==
  ASSUME NEW values, NEW n \in DOMAIN values, \A m \in DOMAIN values : values[m] \in Value,
         trace.start[n] \in Nat, trace.end[n] \in Nat, Parents(n) \subseteq DOMAIN values,
         values[n].end >= trace.end[n]
  PROVE  Correct(values, n)[n].end >= trace.end[n] /\ LastsAsLong(Correct(values, n)[n], n)
<1> DEFINE reset == [values EXCEPT ![n].start = trace.start[n]]
           starts == {reset[p].start : p \in Parents(n)}
           earliest == Min(starts)
           delta == earliest + 1 - trace.start[n]
           shifted == [reset EXCEPT ![n].start = @ + delta, ![n].end = @ + delta]
<1>1. /\ DOMAIN reset = DOMAIN values /\ \A m \in DOMAIN values : reset[m] \in Value
      /\ reset[n].start = trace.start[n] /\ reset[n].end = values[n].end
  BY DEF Value
<1>2. Correct(values, n) = IF Parents(n) = {} \/ trace.start[n] >= earliest THEN reset ELSE shifted
  BY DEF Correct
<1>3. starts \in SUBSET Nat
  BY <1>1 DEF Value
<1>4. values[n].end \in Nat /\ values[n].start \in Nat
  BY DEF Value
<1> HIDE DEF reset
<1>5. CASE Parents(n) = {} \/ trace.start[n] >= earliest
  BY <1>1, <1>2, <1>4, <1>5 DEF LastsAsLong
<1>6. CASE ~(Parents(n) = {} \/ trace.start[n] >= earliest)
  <2>1. starts /= {}
    BY <1>6
  <2> HIDE DEF starts
  <2>2. earliest \in Nat
    BY <1>3, <2>1, MinOf
  <2> HIDE DEF earliest
  <2>3. delta \in Nat
    BY <1>6, <2>2
  <2> HIDE DEF delta
  <2>4. shifted[n] = [reset[n] EXCEPT !.start = reset[n].start + delta, !.end = reset[n].end + delta]
    BY <1>1 DEF Value
  <2>5. shifted[n].start = trace.start[n] + delta /\ shifted[n].end = values[n].end + delta
    BY <1>1, <2>4 DEF Value
  <2> HIDE DEF shifted
  <2>6. Correct(values, n)[n] = shifted[n]
    BY <1>2, <1>6
  <2> QED BY <1>4, <2>3, <2>5, <2>6 DEF LastsAsLong
<1> QED BY <1>5, <1>6

LEMMA InitDurationInv == Init => DurationInv
<1> SUFFICES ASSUME Init PROVE DurationInv
  OBVIOUS
<1>1. rows = [n \in Node |-> <<>>] /\ job.step = "idle" /\ DOMAIN job.values = {}
  BY DEF Init, IdleJob
<1> QED BY <1>1 DEF DurationInv

\* Steps beside the correction, and the end of a rebuild.
LEMMA BesideDurationInv ==
  ASSUME DurationInv, UNCHANGED <<trace, rows>>,
         \/ UNCHANGED <<order, job>>
         \/ UNCHANGED job /\ job.step = "order"
         \/ job'.step = "checkpoint" /\ job'.values = job.values
         \/ job'.step = "idle" /\ DOMAIN job'.values = {}
  PROVE  DurationInv'
BY DEF DurationInv, Corrected, LastsAsLong

\* A fold takes the original end or that of a row.
LEMMA BeginDurationInv == ASSUME RebuildTypes, CheckpointInv, DurationInv, Begin PROVE DurationInv'
<1> DEFINE ns == Present \cup StartsLoaded
           row(old, n) == FoldNode(n, IF n \in Present THEN old[n] ELSE [start |-> 0, end |-> 0])
           values(old) == [n \in ns |-> row(old, n)]
<1>1. UNCHANGED <<trace, rows>>
  BY DEF Begin, db, env
<1>2. PICK old : /\ \A n \in Present : old[n] \in Range(rows[n])
                 /\ job' = [IdleJob EXCEPT !.step = "order", !.values = values(old),
                                           !.touched = ns \cap EndsLoaded,
                                           !.edges = Known(ns, saved \cup EdgesLoaded), !.next = Reached]
  BY Zenon DEF Begin
<1>3. ASSUME NEW n \in ns PROVE values(old)[n].end >= trace.end[n]
  <2>1. values(old)[n] = row(old, n) /\ n \in Node
    BY DEF Present, StartsLoaded
  <2>2. trace.end[n] \in Nat
    BY <2>1, TraceFacts DEF RebuildTypes
  <2>3. CASE n \in EndsLoaded
    BY <2>1, <2>2, <2>3 DEF FoldNode
  <2>4. CASE n \notin EndsLoaded
    <3>1. n \in Present
      BY <2>4, StartsWithEnds
    <3>2. rows[n] \in Seq(Value) /\ old[n] \in Range(rows[n])
      BY <1>2, <2>1, <3>1 DEF RebuildTypes
    <3>3. PICK i \in DOMAIN rows[n] : old[n] = rows[n][i]
      BY <3>2 DEF Range
    <3>4. old[n].end >= trace.end[n]
      BY <2>1, <3>3 DEF DurationInv
    <3> QED BY <2>1, <2>4, <3>1, <3>4 DEF FoldNode
  <2> QED BY <2>3, <2>4
<1>4. DOMAIN values(old) = ns
  OBVIOUS
<1> HIDE DEF ns, values
<1>5. job'.step = "order" /\ job'.values = values(old)
  BY <1>2 DEF IdleJob
<1> QED BY <1>1, <1>3, <1>4, <1>5 DEF DurationInv, LastsAsLong

\* Numbers change no time, and no node is corrected yet.
LEMMA ApplyFlowOrderDurationInv == ASSUME RebuildInv, DurationInv, ApplyFlowOrder PROVE DurationInv'
<1> DEFINE number(n) == (CHOOSE i \in DOMAIN order : order[i] = n) - 1
           numbered == [n \in nodes |-> [job.values[n] EXCEPT !.order = number(n)]]
<1>1. /\ job.step = "order" /\ ~busy /\ order' = order /\ UNCHANGED <<trace, rows>>
      /\ job' = [job EXCEPT !.step = "correct", !.values = numbered, !.left = order]
  BY DEF ApplyFlowOrder, orderVars, db, env
<1>2. RebuildTypes /\ CallInv /\ FlowInv
  BY DEF RebuildInv
<1>3. Len(order) \in Nat /\ DOMAIN job.values = nodes
  BY <1>1, <1>2 DEF FlowInv, FlowTypes, CallInv
<1>4. ASSUME NEW n \in nodes PROVE numbered[n].end = job.values[n].end
  <2>1. job.values[n] \in Value
    BY <1>2, <1>3 DEF RebuildTypes
  <2> HIDE DEF number
  <2> QED BY <2>1 DEF Value
<1>5. DOMAIN numbered = nodes
  OBVIOUS
<1> HIDE DEF numbered
<1>6. job'.step = "correct" /\ job'.values = numbered /\ job'.left = order
  BY <1>1, <1>2 DEF RebuildTypes, IdleJob
<1>7. Corrected' = {}
  BY <1>1, <1>3, <1>6 DEF Corrected
<1> QED BY <1>1, <1>3, <1>4, <1>5, <1>6, <1>7 DEF DurationInv, LastsAsLong

\* The corrected node lasts as long as it did, and the others are left alone.
LEMMA CorrectNodeDurationInv == ASSUME RebuildInv, DurationInv, CorrectNode PROVE DurationInv'
<1> DEFINE n == Head(job.left)
           k == Len(order) - Len(job.left)
           values == Correct(job.values, n)
<1>1. /\ job.step = "correct" /\ job.left /= <<>> /\ order' = order /\ UNCHANGED <<trace, rows>>
      /\ job' = [job EXCEPT !.values = values, !.left = Tail(@)]
  BY DEF CorrectNode, orderVars, db, env
<1>2. RebuildTypes /\ CallInv /\ FlowInv
  BY DEF RebuildInv
<1>3. /\ order \in Seq(Node) /\ Len(order) \in Nat /\ DOMAIN job.values = nodes
      /\ processed = nodes /\ job.left \in Seq(Node) /\ Len(job.left) <= Len(order)
      /\ \A j \in 1 .. Len(job.left) : job.left[j] = order[k + j]
      /\ nodes \subseteq Node
  BY <1>1, <1>2 DEF FlowInv, FlowTypes, OrderSound, AllOrdered, CallInv
<1>4. /\ Len(job.left) \in Nat /\ Len(job.left) >= 1 /\ n = job.left[1]
      /\ Len(Tail(job.left)) = Len(job.left) - 1
  BY <1>1, <1>3
<1>5. k \in Nat /\ k + 1 \in 1 .. Len(order) /\ n = order[k + 1] /\ n \in nodes
  <2>1. 1 \in 1 .. Len(job.left) /\ k + 1 \in 1 .. Len(order) /\ k \in Nat
    BY <1>3, <1>4
  <2>2. n = order[k + 1]
    BY <1>3, <1>4, <2>1
  <2> HIDE DEF n, k
  <2>3. order[k + 1] \in processed
    BY <2>1 DEF processed
  <2> QED BY <1>3, <2>1, <2>2, <2>3
<1>6. Len(order) - Len(Tail(job.left)) = k + 1
  <2> DEFINE l == Len(Tail(job.left))
             b == Len(job.left)
  <2>1. l = b - 1 /\ b \in Nat
    BY <1>4
  <2> HIDE DEF n, l, b
  <2>2. Len(order) - l = (Len(order) - b) + 1
    BY <1>3, <2>1
  <2> QED BY <2>2 DEF l, b
<1>7. Parents(n) \subseteq nodes
  BY <1>1, <1>2 DEF Parents, CallInv, Known
<1>8. trace.start[n] \in Nat /\ trace.end[n] \in Nat
  BY <1>2, <1>3, <1>5, TraceFacts DEF RebuildTypes
<1>9. values[n].end >= trace.end[n] /\ LastsAsLong(values[n], n)
  <2>1. \A m \in DOMAIN job.values : job.values[m] \in Value
    BY <1>2 DEF RebuildTypes
  <2>2. n \in DOMAIN job.values /\ Parents(n) \subseteq DOMAIN job.values
    BY <1>3, <1>5, <1>7
  <2>3. job.values[n].end >= trace.end[n]
    BY <2>2 DEF DurationInv
  <2> QED BY <1>8, <2>1, <2>2, <2>3, CorrectLasts
<1>10. DOMAIN values = nodes /\ \A m \in nodes \ {n} : values[m] = job.values[m]
  BY <1>2, <1>3, <1>5, <1>7, <1>8, Corrects DEF RebuildTypes
<1> HIDE DEF values, n, k
<1>11. job'.step = "correct" /\ job'.values = values /\ job'.left = Tail(job.left)
  BY <1>1, <1>2 DEF RebuildTypes, IdleJob
<1>12. Corrected = {order[i] : i \in 1 .. k} /\ Corrected' = {order[i] : i \in 1 .. k + 1}
  BY <1>1, <1>6, <1>11 DEF Corrected, k
<1>13. ASSUME NEW m \in Corrected' PROVE LastsAsLong(values[m], m)
  <2>1. CASE m = n
    BY <1>9, <2>1
  <2>2. CASE m /= n
    <3>1. PICK i \in 1 .. k + 1 : m = order[i]
      BY <1>12
    <3>2. i \in 1 .. k /\ i \in 1 .. Len(order)
      BY <1>3, <1>5, <2>2, <3>1
    <3>3. m \in nodes /\ m \in Corrected
      BY <1>3, <1>12, <3>1, <3>2 DEF processed
    <3>4. LastsAsLong(job.values[m], m)
      BY <1>1, <3>3 DEF DurationInv
    <3> QED BY <1>10, <2>2, <3>3, <3>4
  <2> QED BY <2>1, <2>2
<1>14. \A m \in nodes : values[m].end >= trace.end[m]
  BY <1>3, <1>9, <1>10 DEF DurationInv
<1> QED BY <1>1, <1>10, <1>11, <1>13, <1>14 DEF DurationInv, LastsAsLong

\* All nodes are corrected.
LEMMA AlignEdgesDurationInv == ASSUME RebuildInv, DurationInv, AlignEdges PROVE DurationInv'
<1> DEFINE aligned == [e \in job.edges |-> Aligned(e)]
<1>1. /\ job.step = "correct" /\ job.left = <<>> /\ UNCHANGED <<trace, rows>>
      /\ job' = [job EXCEPT !.step = "rows", !.left = order, !.aligned = aligned]
  BY DEF AlignEdges, db, env
<1> HIDE DEF aligned
<1>2. RebuildTypes /\ CallInv /\ FlowInv
  BY DEF RebuildInv
<1>3. Len(order) \in Nat /\ processed = nodes /\ DOMAIN job.values = nodes
  BY <1>1, <1>2 DEF FlowInv, FlowTypes, OrderSound, AllOrdered, CallInv
<1>4. Corrected = nodes
  <2>1. Len(order) - Len(job.left) = Len(order)
    BY <1>1, <1>3
  <2> QED BY <1>3, <2>1 DEF Corrected, processed
<1>5. job'.step = "rows" /\ job'.values = job.values
  BY <1>1, <1>2 DEF RebuildTypes, IdleJob
<1> QED BY <1>1, <1>3, <1>4, <1>5 DEF DurationInv, LastsAsLong

\* A row that is saved is one of before or the one the rebuild corrected.
LEMMA SaveRowDurationInv == ASSUME RebuildInv, DurationInv, SaveRow PROVE DurationInv'
<1> DEFINE n == Head(job.left)
<1>1. /\ job.step = "rows" /\ job.left /= <<>> /\ trace' = trace
      /\ rows' = [rows EXCEPT ![n] = SavedRow(n)]
      /\ job' = [job EXCEPT !.left = Tail(@)]
  BY DEF SaveRow, env
<1>2. RebuildTypes /\ CallInv /\ FlowInv
  BY DEF RebuildInv
<1>3. n \in DOMAIN job.values /\ n \in Node
  <2>1. /\ order \in Seq(Node) /\ Len(order) \in Nat /\ DOMAIN job.values = nodes
        /\ processed = nodes /\ job.left \in Seq(Node) /\ Len(job.left) <= Len(order)
        /\ \A j \in 1 .. Len(job.left) : job.left[j] = order[Len(order) - Len(job.left) + j]
    BY <1>1, <1>2 DEF FlowInv, FlowTypes, OrderSound, AllOrdered, CallInv
  <2>2. Len(job.left) \in Nat /\ Len(job.left) >= 1 /\ n = job.left[1]
    BY <1>1, <2>1
  <2> DEFINE k == Len(order) - Len(job.left) + 1
  <2>3. 1 \in 1 .. Len(job.left) /\ k \in 1 .. Len(order)
    BY <2>1, <2>2
  <2>4. n = order[k]
    BY <2>1, <2>2, <2>3
  <2> HIDE DEF n, k
  <2>5. order[k] \in processed
    BY <2>1, <2>3 DEF processed
  <2>6. nodes \subseteq Node
    BY <1>2 DEF FlowInv, FlowTypes
  <2> QED BY <2>1, <2>4, <2>5, <2>6
<1> HIDE DEF n
<1>4. job'.step = "rows" /\ job'.values = job.values
  BY <1>1, <1>2 DEF RebuildTypes, IdleJob
<1>5. rows'[n] = SavedRow(n) /\ \A m \in Node : m /= n => rows'[m] = rows[m]
  BY <1>1, <1>2, <1>3 DEF RebuildTypes
<1>6. \A i \in DOMAIN SavedRow(n) :
        SavedRow(n)[i] = job.values[n] \/ (i \in DOMAIN rows[n] /\ SavedRow(n)[i] = rows[n][i])
  <2>1. rows[n] \in Seq(Value) /\ job.values[n] \in Value
    BY <1>2, <1>3 DEF RebuildTypes
  <2>2. CASE n \in job.touched
    <3>1. SavedRow(n) = <<job.values[n]>>
      BY <2>2 DEF SavedRow
    <3> QED BY <3>1
  <2>3. CASE n \notin job.touched /\ Last(rows[n]) = job.values[n]
    BY <2>3 DEF SavedRow
  <2>4. CASE n \notin job.touched /\ Last(rows[n]) /= job.values[n]
    <3>1. SavedRow(n) = Append(rows[n], job.values[n])
      BY <2>4 DEF SavedRow
    <3> HIDE DEF Last
    <3> QED BY <2>1, <3>1
  <2> QED BY <2>2, <2>3, <2>4
<1>7. job.values[n].end >= trace.end[n] /\ LastsAsLong(job.values[n], n)
  BY <1>1, <1>3 DEF DurationInv
<1>8. ASSUME NEW m \in Node, NEW i \in DOMAIN rows'[m]
      PROVE  rows'[m][i].end >= trace.end[m] /\ LastsAsLong(rows'[m][i], m)
  BY <1>5, <1>6, <1>7 DEF DurationInv
<1> QED BY <1>1, <1>4, <1>8 DEF DurationInv, LastsAsLong

\* A merge keeps one of the versions.
LEMMA MergeDurationInv == ASSUME RebuildInv, DurationInv, NEW n \in Node, Merge(n) PROVE DurationInv'
<1>1. /\ Len(rows[n]) > 1 /\ rows' = [rows EXCEPT ![n] = <<Last(rows[n])>>]
      /\ UNCHANGED <<trace, order, job>>
  BY DEF Merge, orderVars, env
<1>2. rows \in [Node -> Seq(Value)]
  BY DEF RebuildInv, RebuildTypes
<1>3. /\ \A i \in DOMAIN rows'[n] : rows'[n][i] = rows[n][Len(rows[n])]
      /\ Len(rows[n]) \in DOMAIN rows[n]
      /\ \A m \in Node : m /= n => rows'[m] = rows[m]
  BY <1>1, <1>2 DEF Last
<1>4. ASSUME NEW m \in Node, NEW i \in DOMAIN rows'[m]
      PROVE  rows'[m][i].end >= trace.end[m] /\ LastsAsLong(rows'[m][i], m)
  BY <1>3 DEF DurationInv
<1> QED BY <1>1, <1>4 DEF DurationInv, LastsAsLong, Corrected

LEMMA NextDurationInv ==
  ASSUME RebuildInv, CheckpointInv, DurationInv, [Next]_vars
  PROVE  DurationInv'
<1>1. Ingest \/ Redeliver \/ Walk \/ UNCHANGED vars => UNCHANGED <<trace, rows, order, job>>
  BY DEF Ingest, Redeliver, Walk, OpenFlow, ReadNodes, ReadEdges, NextPage, RejectCursor, vars,
         env, db, orderVars
<1>2. FlowStep => UNCHANGED <<trace, rows, job>> /\ job.step = "order"
  BY DEF FlowStep, env, db, RebuildInv, CallInv, Turn, Break, Take, Skip, Return
<1>3. SaveEdges => UNCHANGED <<trace, rows>> /\ job'.step = "checkpoint" /\ job'.values = job.values
  BY DEF SaveEdges, env, RebuildInv, RebuildTypes, IdleJob
<1>4. SaveCheckpoint \/ Fail => UNCHANGED <<trace, rows>> /\ job'.step = "idle" /\ DOMAIN job'.values = {}
  BY DEF SaveCheckpoint, Fail, db, IdleJob
<1> QED BY <1>1, <1>2, <1>3, <1>4, BesideDurationInv, BeginDurationInv, ApplyFlowOrderDurationInv,
           CorrectNodeDurationInv, AlignEdgesDurationInv, SaveRowDurationInv, MergeDurationInv
        DEF Next, RebuildInv

\* No version of a row ends before it starts.
RowsGoForward ==
  \A n \in Node : \A i \in DOMAIN rows[n] : rows[n][i].start <= rows[n][i].end

\* The times that are saved are sound, for any trace, skew, lookback and number of rebuilds: the
\* starts are those the raw times define, and although a rebuild may make a node longer than it was,
\* none makes it shorter, and so no row ends before it starts.
THEOREM CorrectionsAreSound == Spec => [](CorrectionIsSound /\ RowsGoForward)
<1>1. Init => RebuildInv /\ CheckpointInv /\ DurationInv
  <2>1. Init => CheckpointInv
    BY DEF Init, IdleJob, CheckpointInv
  <2> QED BY <2>1, InitRebuildInv, InitDurationInv
<1>2. RebuildInv /\ CheckpointInv /\ DurationInv /\ [Next]_vars
        => (RebuildInv /\ CheckpointInv /\ DurationInv)'
  BY NextRebuildInv, NextCheckpointInv, NextDurationInv DEF RebuildInv
<1>3. RebuildInv /\ DurationInv => CorrectionIsSound
  BY DEF RebuildInv, CorrectInv, DurationInv, CorrectionIsSound, NothingShrinks
<1>4. RebuildInv /\ DurationInv => RowsGoForward
  <2> SUFFICES ASSUME RebuildInv, DurationInv, NEW n \in Node, NEW i \in DOMAIN rows[n]
               PROVE  rows[n][i].start <= rows[n][i].end
    BY DEF RowsGoForward
  <2>1. rows[n] \in Seq(Value)
    BY DEF RebuildInv, RebuildTypes
  <2>2. rows[n][i].start \in Nat /\ rows[n][i].end \in Nat
    <3>1. rows[n][i] \in Value
      BY <2>1
    <3> QED BY <3>1 DEF Value
  <2>3. trace.start[n] \in Nat /\ trace.end[n] \in Nat /\ trace.start[n] <= trace.end[n]
    BY ReadModelAssumption DEF RebuildInv, RebuildTypes
  <2>4. rows[n][i].end - rows[n][i].start >= trace.end[n] - trace.start[n]
    BY DEF DurationInv, LastsAsLong
  <2> QED BY <2>2, <2>3, <2>4
<1>5. RebuildInv /\ CheckpointInv /\ DurationInv => CorrectionIsSound /\ RowsGoForward
  BY <1>3, <1>4
<1> QED BY <1>1, <1>2, <1>5, PTL DEF Spec
-----------------------------------------------------------------------------
(* A page.                                                                 *)

LEMMA FunctionIsSeq ==
  ASSUME NEW R, NEW k \in Nat, NEW s \in [1 .. k -> R]
  PROVE  s \in Seq(R) /\ Len(s) = k
OBVIOUS

\* An increasing numbering by all of an interval is the identity: at the first place where it is not,
\* a number would come twice or be left out.
LEMMA IncreasingIsIdentity ==
  ASSUME NEW b \in Nat, NEW k \in Nat, NEW o \in [1 .. k -> b .. b + k - 1],
         \A i, j \in 1 .. k : i < j => o[i] < o[j],
         \A v \in b .. b + k - 1 : \E i \in 1 .. k : o[i] = v
  PROVE  \A i \in 1 .. k : o[i] = b + i - 1
<1> DEFINE bad == {i \in 1 .. k : o[i] /= b + i - 1}
<1> SUFFICES ASSUME bad /= {} PROVE FALSE
  OBVIOUS
<1> DEFINE i == Min(bad)
<1>1. i \in bad /\ \A j \in bad : i <= j
  <2>1. bad \in SUBSET Nat
    OBVIOUS
  <2> HIDE DEF bad
  <2> QED BY <2>1, MinOf
<1> HIDE DEF i
<1>2. i \in 1 .. k /\ o[i] \in b .. b + k - 1 /\ o[i] /= b + i - 1
  BY <1>1
<1>3. \A j \in 1 .. k : j < i => o[j] = b + j - 1
  BY <1>1
<1>4. CASE o[i] < b + i - 1
  <2> DEFINE v == o[i]
             j == v - b + 1
  <2>1. v \in b .. b + k - 1 /\ v < b + i - 1
    BY <1>2, <1>4
  <2> HIDE DEF v
  <2>2. j \in 1 .. k /\ j < i /\ b + j - 1 = v
    BY <1>2, <2>1
  <2> HIDE DEF j
  <2>3. o[j] = o[i] /\ o[j] < o[i]
    BY <1>2, <1>3, <2>2 DEF v
  <2> QED BY <1>2, <2>3
<1>5. CASE o[i] > b + i - 1
  <2>1. b + i - 1 \in b .. b + k - 1
    BY <1>2
  <2>2. PICK j \in 1 .. k : o[j] = b + i - 1
    BY <2>1
  <2>3. j /= i /\ ~(j < i)
    <3>1. b + i - 1 /= o[i]
      BY <1>2
    <3>2. ASSUME j < i PROVE FALSE
      <4>1. o[j] = b + j - 1
        BY <1>3, <3>2
      <4> QED BY <1>2, <2>2, <3>2, <4>1
    <3> QED BY <2>2, <3>1, <3>2
  <2>4. o[i] < o[j]
    BY <1>2, <2>3
  <2> QED BY <1>2, <1>5, <2>2, <2>4
<1> QED BY <1>2, <1>4, <1>5

\* Of rows that are numbered without gap or repetition a window is the end.
LEMMA WindowIsEnd ==
  ASSUME NEW at \in Seq(Node), Range(at) = Present, NEW seen,
         \A i \in 1 .. Len(at) : seen[at[i]].order = i - 1,
         NEW offset \in Nat, offset <= Len(at)
  PROVE  /\ Window(seen, offset) \in Seq([id : Node, order : Nat])
         /\ Len(Window(seen, offset)) = Len(at) - offset
         /\ \A i \in 1 .. Len(at) - offset : Window(seen, offset)[i].id = at[offset + i]
<1> DEFINE ids == {n \in Present : seen[n].order >= offset}
           Sooner(n, m) == \/ seen[n].order < seen[m].order
                           \/ seen[n].order = seen[m].order /\ n < m
           Sorted(s) == \A i, j \in DOMAIN s : i < j => Sooner(s[i], s[j])
           sorted == CHOOSE s \in SetToSeqs(ids) : Sorted(s)
           k == Len(at) - offset
           end == [i \in 1 .. k |-> at[offset + i]]
<1>1. Window(seen, offset) = [i \in DOMAIN sorted |-> [id |-> sorted[i], order |-> seen[sorted[i]].order]]
  BY DEF Window
<1>2. /\ k \in Nat /\ \A i \in 1 .. k : offset + i \in 1 .. Len(at)
      /\ \A i \in 1 .. Len(at) : i > offset => i - offset \in 1 .. k
  OBVIOUS
<1>3. \A n \in Present : \E i \in 1 .. Len(at) : n = at[i] /\ seen[n].order = i - 1
  BY DEF Range
<1>4. \A i \in 1 .. Len(at) : at[i] \in Present /\ seen[at[i]].order = i - 1
  BY DEF Range
<1> HIDE DEF k, sorted
<1>5. end \in Bijection(1 .. k, ids)
  <2>1. ASSUME NEW i \in 1 .. k
        PROVE  end[i] \in ids /\ seen[end[i]].order = offset + i - 1
    <3>1. offset + i \in 1 .. Len(at) /\ (offset + i) - 1 >= offset
      <4>1. offset + i \in 1 .. Len(at)
        BY <1>2
      <4>2. i \in Nat /\ i >= 1
        BY <1>2
      <4> QED BY <4>1, <4>2
    <3>2. end[i] = at[offset + i]
      OBVIOUS
    <3>3. end[i] \in Present /\ seen[end[i]].order = (offset + i) - 1
      BY <1>4, <3>1, <3>2
    <3> HIDE DEF end
    <3> QED BY <3>1, <3>3
  <2>2. \A i, j \in 1 .. k : end[i] = end[j] => i = j
    <3> SUFFICES ASSUME NEW i \in 1 .. k, NEW j \in 1 .. k, end[i] = end[j] PROVE i = j
      OBVIOUS
    <3>1. offset + i - 1 = offset + j - 1
      BY <2>1
    <3> QED BY <1>2, <3>1
  <2>3. ASSUME NEW n \in ids PROVE \E i \in 1 .. k : end[i] = n
    <3>1. PICK i \in 1 .. Len(at) : n = at[i] /\ seen[n].order = i - 1
      BY <1>3
    <3>2. i - offset \in 1 .. k /\ offset + (i - offset) = i
      BY <1>2, <3>1
    <3>3. end[i - offset] = n
      BY <3>1, <3>2
    <3> QED BY <3>2, <3>3
  <2>4. end \in [1 .. k -> ids]
    BY <2>1
  <2> HIDE DEF end, ids
  <2> QED BY <2>2, <2>3, <2>4 DEF Bijection, Injection, Surjection, IsInjective
<1>6. Cardinality(ids) = k /\ IsFiniteSet(ids)
  <2>1. ExistsBijection(1 .. k, ids)
    BY <1>5 DEF ExistsBijection
  <2>2. IsFiniteSet(1 .. k)
    BY <1>2, FS_Interval
  <2> HIDE DEF ids
  <2> QED BY <1>2, <2>1, <2>2, FS_CountingElements, FS_Bijection
<1>7. end \in SetToSeqs(ids) /\ Sorted(end)
  <2>1. end \in [1 .. k -> ids] /\ \A i, j \in 1 .. k : i /= j => end[i] /= end[j]
    BY <1>5 DEF Bijection, Injection, IsInjective
  <2>2. \A i, j \in 1 .. k : i < j => Sooner(end[i], end[j])
    <3> SUFFICES ASSUME NEW i \in 1 .. k, NEW j \in 1 .. k, i < j
                 PROVE  seen[end[i]].order < seen[end[j]].order
      OBVIOUS
    <3>1. seen[end[i]].order = offset + i - 1 /\ seen[end[j]].order = offset + j - 1
      BY <1>2, <1>4
    <3> QED BY <1>2, <3>1
  <2> HIDE DEF end, ids, Sooner
  <2> QED BY <1>6, <2>1, <2>2 DEF SetToSeqs
<1>8. sorted \in SetToSeqs(ids) /\ Sorted(sorted)
  <2> HIDE DEF Sorted, ids, end
  <2> QED BY <1>7 DEF sorted
<1>9. /\ sorted \in [1 .. k -> ids]
      /\ \A i, j \in 1 .. k : i /= j => sorted[i] /= sorted[j]
      /\ \A i, j \in 1 .. k : i < j => Sooner(sorted[i], sorted[j])
  <2> HIDE DEF ids, Sooner
  <2> QED BY <1>6, <1>8 DEF SetToSeqs
<1>10. \A n \in ids : \E i \in 1 .. k : sorted[i] = n
  <2>1. sorted \in Injection(1 .. k, ids)
    <3> HIDE DEF ids
    <3> QED BY <1>9 DEF Injection, IsInjective
  <2>2. Cardinality(1 .. k) = k /\ IsFiniteSet(1 .. k)
    BY <1>2, FS_Interval
  <2> HIDE DEF ids
  <2>3. sorted \in Surjection(1 .. k, ids)
    BY <1>6, <2>1, <2>2, FS_Injection
  <2> QED BY <2>3 DEF Surjection
<1> DEFINE o == [i \in 1 .. k |-> seen[sorted[i]].order]
<1>11. ASSUME NEW i \in 1 .. k
       PROVE  sorted[i] \in Node /\ o[i] \in offset .. offset + k - 1 /\ sorted[i] = at[o[i] + 1]
  <2>1. sorted[i] \in Present /\ seen[sorted[i]].order >= offset
    BY <1>9
  <2>2. PICK j \in 1 .. Len(at) : sorted[i] = at[j] /\ seen[sorted[i]].order = j - 1
    BY <1>3, <2>1
  <2>3. o[i] = j - 1
    BY <2>2
  <2>4. j - 1 \in offset .. offset + k - 1 /\ (j - 1) + 1 = j
    BY <1>2, <2>1, <2>2 DEF k
  <2> HIDE DEF o
  <2> QED BY <2>2, <2>3, <2>4
<1>12. \A i, j \in 1 .. k : i < j => o[i] < o[j]
  <2> SUFFICES ASSUME NEW i \in 1 .. k, NEW j \in 1 .. k, i < j PROVE o[i] < o[j]
    OBVIOUS
  <2>1. sorted[i] /= sorted[j] /\ Sooner(sorted[i], sorted[j])
    BY <1>9
  <2>2. o[i] < o[j] \/ o[i] = o[j]
    BY <2>1
  <2>3. o[i] /= o[j]
    BY <1>11, <2>1
  <2> QED BY <2>2, <2>3
<1>13. ASSUME NEW v \in offset .. offset + k - 1 PROVE \E i \in 1 .. k : o[i] = v
  <2>1. v + 1 \in 1 .. Len(at) /\ (v + 1) - 1 = v /\ v >= offset
    BY DEF k
  <2>2. at[v + 1] \in Present /\ seen[at[v + 1]].order = v
    BY <1>4, <2>1
  <2>3. PICK i \in 1 .. k : sorted[i] = at[v + 1]
    BY <1>10, <2>1, <2>2
  <2> QED BY <2>2, <2>3
<1>14. \A i \in 1 .. k : o[i] = offset + i - 1
  <2>1. o \in [1 .. k -> offset .. offset + k - 1]
    BY <1>11
  <2> HIDE DEF o
  <2> QED BY <1>2, <1>12, <1>13, <2>1, IncreasingIsIdentity
<1>15. \A i \in 1 .. k : sorted[i] \in Node /\ o[i] \in Nat /\ sorted[i] = at[offset + i]
  <2> SUFFICES ASSUME NEW i \in 1 .. k
               PROVE  sorted[i] \in Node /\ o[i] \in Nat /\ sorted[i] = at[offset + i]
    OBVIOUS
  <2>1. o[i] = offset + i - 1 /\ o[i] + 1 = offset + i /\ o[i] \in Nat
    <3>1. o[i] = offset + i - 1
      BY <1>14
    <3> HIDE DEF o
    <3> QED BY <1>2, <3>1
  <2> HIDE DEF o
  <2> QED BY <1>11, <2>1
<1>16. Window(seen, offset) = [i \in 1 .. k |-> [id |-> sorted[i], order |-> o[i]]]
  BY <1>1, <1>9
<1> HIDE DEF o
<1> DEFINE window == [i \in 1 .. k |-> [id |-> sorted[i], order |-> o[i]]]
<1>17. \A i \in 1 .. k : window[i] \in [id : Node, order : Nat] /\ window[i].id = at[offset + i]
  BY <1>15
<1>18. DOMAIN window = 1 .. k
  OBVIOUS
<1> HIDE DEF window
<1>19. window \in Seq([id : Node, order : Nat]) /\ Len(window) = k
  <2>1. window \in [1 .. k -> [id : Node, order : Nat]]
    BY <1>16, <1>17, <1>18 DEF window
  <2> QED BY <1>2, <2>1, FunctionIsSeq
<1> QED BY <1>16, <1>17, <1>19 DEF window, k

\* The first rows of a window.
LEMMA PageOfWindow ==
  ASSUME NEW R, NEW window \in Seq(R), walk.limit \in Nat
  PROVE  /\ Page(window) \in Seq(R)
         /\ Len(Page(window)) = IF Len(window) > walk.limit THEN walk.limit ELSE Len(window)
         /\ \A i \in 1 .. Len(Page(window)) : Page(window)[i] = window[i]
<1> DEFINE m == IF Len(window) > walk.limit THEN walk.limit ELSE Len(window)
<1>1. Len(window) \in Nat /\ m \in Nat /\ m <= Len(window)
  OBVIOUS
<1>2. Min({Len(window), walk.limit}) = m
  <2> DEFINE S == {Len(window), walk.limit}
  <2>1. Min(S) \in S /\ \A y \in S : Min(S) <= y
    <3>1. S \in SUBSET Nat /\ S /= {}
      BY <1>1
    <3> HIDE DEF S
    <3> QED BY <3>1, MinOf
  <2> DEFINE min == Min(S)
  <2> HIDE DEF min
  <2>2. min \in {Len(window), walk.limit} /\ min <= Len(window) /\ min <= walk.limit
    BY <2>1 DEF min
  <2>3. min = m
    BY <1>1, <2>2
  <2> QED BY <2>3 DEF min
<1>3. Page(window) = SubSeq(window, 1, m)
  BY <1>2 DEF Page
<1> HIDE DEF m
<1>4. SubSeq(window, 1, m) \in Seq(R) /\ Len(SubSeq(window, 1, m)) = m
  BY <1>1
<1>5. \A i \in 1 .. m : SubSeq(window, 1, m)[i] = window[i]
  BY <1>1
<1> QED BY <1>3, <1>4, <1>5 DEF m
-----------------------------------------------------------------------------
(* The walk.                                                               *)

\* A walk over rows that have not changed since it began, when nothing was half saved.
Steady == walk.settled /\ ~walk.moved /\ walk.step \in {"nodes", "edges", "page", "done"}

OneVersion == \A n \in Node : Len(rows[n]) <= 1

\* It has been given the first of the rows, up to the page it is about to ask for, and that page is
\* the rows that come next.
Progress(at) ==
  /\ walk.limit \in Nat \ {0} /\ walk.offset \in Nat
  /\ walk.nodes \in Seq(Node) /\ Len(walk.nodes) <= Len(at)
  /\ \A i \in 1 .. Len(walk.nodes) : walk.nodes[i] = at[i]
  /\ walk.step \in {"nodes", "edges"} => Len(walk.nodes) = walk.offset
  /\ walk.step = "edges" =>
       /\ walk.page \in Seq([id : Node, order : Nat])
       /\ Len(walk.page) = IF walk.more THEN walk.limit ELSE Len(at) - walk.offset
       /\ walk.more => Len(at) - walk.offset > walk.limit
       /\ \A i \in 1 .. Len(walk.page) : walk.page[i].id = at[walk.offset + i]
  /\ walk.step = "page" =>
       Len(walk.nodes) = walk.offset + walk.limit /\ Len(walk.nodes) < Len(at)
  /\ walk.step = "done" => Len(walk.nodes) = Len(at)

\* What it has been told of an edge, once it has been given both its ends, one or none.
Told(given, shown, omitted) ==
  \A e \in saved :
    /\ {From[e], To[e]} \subseteq given =>
         (e \in shown /\ omitted[e] = 0) \/ (e \notin shown /\ omitted[e] = 2)
    /\ ~ ({From[e], To[e]} \subseteq given) =>
         e \notin shown /\ omitted[e] = IF {From[e], To[e]} \cap given = {} THEN 0 ELSE 1

WalkInv ==
  Steady =>
    /\ OneVersion
    /\ walk.omitted \in [Edge -> Nat] /\ Told(Range(walk.nodes), walk.shown, walk.omitted)
    /\ \E at \in Seq(Node) : Numbered(at) /\ Progress(at)

LEMMA InitWalkInv == Init => WalkInv
BY DEF Init, NoWalk, WalkInv, Steady

\* A step the walk does not see.
LEMMA UnseenWalkInv ==
  ASSUME WalkInv, UNCHANGED <<rows, saved>>,
         walk' = walk \/ (DOMAIN walk = DOMAIN NoWalk /\ \E moved : walk' = [walk EXCEPT !.moved = walk.moved \/ moved])
  PROVE  WalkInv'
<1>1. /\ walk'.settled = walk.settled /\ (~walk'.moved => ~walk.moved) /\ walk'.step = walk.step
      /\ walk'.omitted = walk.omitted /\ walk'.shown = walk.shown /\ walk'.nodes = walk.nodes
      /\ walk'.limit = walk.limit /\ walk'.offset = walk.offset /\ walk'.page = walk.page
      /\ walk'.more = walk.more
  BY DEF NoWalk
<1>2. Steady' => Steady
  BY <1>1 DEF Steady
<1>3. \A at : (Numbered(at)' <=> Numbered(at)) /\ (Progress(at)' <=> Progress(at))
  BY <1>1 DEF Numbered, Present, Progress
<1>4. Told(Range(walk.nodes), walk.shown, walk.omitted)
        => Told(Range(walk.nodes), walk.shown, walk.omitted)'
  BY <1>1 DEF Told
<1> QED BY <1>1, <1>2, <1>3, <1>4 DEF WalkInv, OneVersion

\* A save that changes a row or the edges moves the trace under the walk.
LEMMA SaveWalkInv ==
  ASSUME RebuildInv, WalkInv, SaveRow \/ SaveEdges
  PROVE  WalkInv'
<1>1. DOMAIN walk = DOMAIN NoWalk /\ rows \in [Node -> Seq(Value)]
  BY DEF RebuildInv, RebuildTypes
<1>2. PICK changed \in BOOLEAN :
        /\ walk' = [walk EXCEPT !.moved = walk.moved \/ (changed /\ walk.step /= "none")]
        /\ changed \/ UNCHANGED <<rows, saved>>
  <2>1. CASE SaveRow
    <3> DEFINE n == Head(job.left)
               changed == rows'[n] /= rows[n]
    <3>1. /\ rows' = [rows EXCEPT ![n] = SavedRow(n)] /\ saved' = saved
          /\ walk' = [walk EXCEPT !.moved = walk.moved \/ (changed /\ walk.step /= "none")]
      BY <2>1 DEF SaveRow, Moves
    <3>2. ~changed => rows' = rows
      BY <1>1, <3>1
    <3>3. changed \in BOOLEAN
      OBVIOUS
    <3> HIDE DEF changed
    <3> QED BY <3>1, <3>2, <3>3
  <2>2. CASE SaveEdges
    BY <2>2 DEF SaveEdges, Moves
  <2> QED BY <2>1, <2>2
<1>3. CASE UNCHANGED <<rows, saved>>
  BY <1>1, <1>2, <1>3, UnseenWalkInv
<1>4. CASE changed
  <2>1. walk'.step = walk.step /\ (walk.step /= "none" => walk'.moved)
    BY <1>1, <1>2, <1>4 DEF NoWalk
  <2> QED BY <2>1 DEF WalkInv, Steady
<1> QED BY <1>2, <1>3, <1>4

\* There is nothing to merge under such a walk.
LEMMA MergeWalkInv == ASSUME RebuildInv, WalkInv, NEW n \in Node, Merge(n) PROVE WalkInv'
<1>1. walk' = walk /\ Len(rows[n]) > 1 /\ rows[n] \in Seq(Value)
  BY DEF Merge, RebuildInv, RebuildTypes
<1>2. ~Steady
  BY <1>1 DEF WalkInv, OneVersion
<1> QED BY <1>1, <1>2 DEF WalkInv, Steady

LEMMA OpenFlowWalkInv ==
  ASSUME RebuildInv, RowsInv, NEW limit \in Limits, OpenFlow(limit)
  PROVE  WalkInv'
<1>1. /\ walk' = [NoWalk EXCEPT !.step = "nodes", !.limit = limit, !.stamp = Stamp, !.settled = Settled]
      /\ UNCHANGED <<rows, saved>> /\ limit \in Nat \ {0}
  BY ReadModelAssumption DEF OpenFlow, db
<1>2. /\ walk'.step = "nodes" /\ walk'.limit = limit /\ walk'.settled = Settled /\ walk'.offset = 0
      /\ walk'.nodes = <<>> /\ walk'.shown = {} /\ walk'.omitted = [e \in Edge |-> 0]
  BY <1>1 DEF NoWalk
<1> SUFFICES ASSUME Settled PROVE WalkInv'
  BY <1>2 DEF WalkInv, Steady
<1>3. OneVersion'
  BY <1>1 DEF Settled, OneVersion
<1>4. PICK at \in Seq(Node) : Numbered(at)
  BY DEF Settled, RowsInv
<1>5. Numbered(at)'
  BY <1>1, <1>4 DEF Numbered, Present
<1>6. Progress(at)'
  <2>1. walk'.nodes \in Seq(Node) /\ Len(walk'.nodes) = 0 /\ Len(at) \in Nat
    BY <1>2
  <2>2. 1 .. Len(walk'.nodes) = {} /\ Len(walk'.nodes) <= Len(at)
    BY <2>1
  <2> QED BY <1>1, <1>2, <2>1, <2>2 DEF Progress
<1>7. Told(Range(walk.nodes), walk.shown, walk.omitted)'
  <2>1. Range(walk'.nodes) = {}
    BY <1>2 DEF Range
  <2>2. \A e \in saved : walk'.omitted[e] = 0
    BY <1>2 DEF RebuildInv, RebuildTypes
  <2> QED BY <1>1, <1>2, <2>1, <2>2 DEF Told
<1>8. walk'.omitted \in [Edge -> Nat]
  BY <1>2
<1> QED BY <1>3, <1>5, <1>6, <1>7, <1>8 DEF WalkInv

\* The rows of the page come from one version each, so it is the next part of the order.
LEMMA ReadNodesWalkInv == ASSUME RebuildInv, WalkInv, ReadNodes PROVE WalkInv'
<1>1. PICK seen :
        /\ \A n \in Present : seen[n] \in Range(rows[n])
        /\ walk' = [walk EXCEPT !.step = "edges", !.page = Page(Window(seen, walk.offset)),
                                !.more = Len(Window(seen, walk.offset)) > walk.limit]
  BY Zenon DEF ReadNodes
<1> DEFINE window == Window(seen, walk.offset)
           page == Page(window)
<1>2. /\ DOMAIN walk = DOMAIN NoWalk /\ rows \in [Node -> Seq(Value)] /\ UNCHANGED <<rows, saved>>
      /\ walk.step = "nodes"
  BY DEF RebuildInv, RebuildTypes, ReadNodes, db
<1>3. /\ walk'.step = "edges" /\ walk'.page = page /\ walk'.more = (Len(window) > walk.limit)
      /\ walk'.settled = walk.settled /\ walk'.moved = walk.moved /\ walk'.limit = walk.limit
      /\ walk'.offset = walk.offset /\ walk'.nodes = walk.nodes /\ walk'.shown = walk.shown
      /\ walk'.omitted = walk.omitted
  BY <1>1, <1>2 DEF NoWalk
<1> SUFFICES ASSUME Steady' PROVE WalkInv'
  BY DEF WalkInv
<1>4. /\ OneVersion /\ walk.omitted \in [Edge -> Nat]
      /\ Told(Range(walk.nodes), walk.shown, walk.omitted)
  BY <1>2, <1>3 DEF WalkInv, Steady
<1>5. PICK at \in Seq(Node) : Numbered(at) /\ Progress(at)
  BY <1>2, <1>3 DEF WalkInv, Steady
<1>6. ASSUME NEW i \in 1 .. Len(at) PROVE seen[at[i]].order = i - 1
  <2>1. at[i] \in Present /\ Last(rows[at[i]]).order = i - 1
    BY <1>5 DEF Numbered, Range
  <2>2. rows[at[i]] \in Seq(Value) /\ rows[at[i]] /= <<>> /\ Len(rows[at[i]]) <= 1
    BY <1>2, <1>4, <2>1 DEF Present, OneVersion
  <2>3. Len(rows[at[i]]) = 1
    <3> DEFINE k == Len(rows[at[i]])
    <3>1. k \in Nat /\ k /= 0 /\ k <= 1
      BY <2>2
    <3> HIDE DEF k
    <3>2. k = 1
      BY <3>1
    <3> QED BY <3>2 DEF k
  <2>4. Range(rows[at[i]]) = {Last(rows[at[i]])}
    BY <2>2, <2>3 DEF Range, Last
  <2> QED BY <1>1, <2>1, <2>4
<1>7. /\ walk.offset \in Nat /\ walk.offset <= Len(at) /\ Range(at) = Present /\ walk.limit \in Nat \ {0}
      /\ Len(walk.nodes) = walk.offset
  BY <1>2, <1>5 DEF Progress, Numbered
<1>8. /\ window \in Seq([id : Node, order : Nat]) /\ Len(window) = Len(at) - walk.offset
      /\ \A i \in 1 .. Len(at) - walk.offset : window[i].id = at[walk.offset + i]
  BY <1>6, <1>7, WindowIsEnd
<1> HIDE DEF window
<1>9. /\ page \in Seq([id : Node, order : Nat])
      /\ Len(page) = IF Len(window) > walk.limit THEN walk.limit ELSE Len(window)
      /\ \A i \in 1 .. Len(page) : page[i] = window[i]
  BY <1>7, <1>8, PageOfWindow
<1> HIDE DEF page
<1>10. Progress(at)'
  <2>1. /\ Len(page) = IF walk'.more THEN walk.limit ELSE Len(at) - walk.offset
        /\ walk'.more => Len(at) - walk.offset > walk.limit
        /\ Len(page) <= Len(at) - walk.offset /\ Len(page) \in Nat /\ Len(at) \in Nat
    <3> DEFINE w == Len(window)
               p == Len(page)
               a == Len(at)
               f == walk.offset
               l == walk.limit
    <3>1. a \in Nat
      OBVIOUS
    <3>2. /\ w = a - f /\ f \in Nat /\ f <= a /\ l \in Nat /\ (walk'.more <=> w > l)
          /\ p = IF w > l THEN l ELSE w
      BY <1>3, <1>7, <1>8, <1>9
    <3> HIDE DEF w, p, a, f, l
    <3>3. /\ p = IF walk'.more THEN l ELSE a - f
          /\ walk'.more => a - f > l
          /\ p <= a - f /\ p \in Nat
      <4>1. CASE w > l
        BY <3>1, <3>2, <4>1
      <4>2. CASE ~(w > l)
        <5>1. p = a - f /\ ~walk'.more
          BY <3>2, <4>2
        <5> QED BY <3>1, <3>2, <5>1
      <4> QED BY <4>1, <4>2
    <3> QED BY <3>1, <3>3 DEF p, a, f, l
  <2>2. ASSUME NEW i \in 1 .. Len(page) PROVE page[i].id = at[walk.offset + i]
    <3>1. i \in 1 .. Len(at) - walk.offset
      BY <1>7, <2>1
    <3> QED BY <1>8, <1>9, <3>1
  <2>3. /\ walk.nodes \in Seq(Node) /\ Len(walk.nodes) <= Len(at)
        /\ \A i \in 1 .. Len(walk.nodes) : walk.nodes[i] = at[i]
    BY <1>5 DEF Progress
  <2> QED BY <1>3, <1>7, <1>9, <2>1, <2>2, <2>3 DEF Progress
<1>11. Numbered(at)' /\ OneVersion'
  BY <1>2, <1>4, <1>5 DEF Numbered, Present, OneVersion
<1>12. Told(Range(walk.nodes), walk.shown, walk.omitted)'
  BY <1>2, <1>3, <1>4 DEF Told
<1> QED BY <1>3, <1>4, <1>10, <1>11, <1>12 DEF WalkInv

\* The edges a page shows, and the times edges were omitted once it is returned.
Shows(on) == {e \in Touching(on) : {From[e], To[e]} \subseteq on}
Omits(on, omitted) ==
  [e \in Edge |-> IF e \in Touching(on) \ Shows(on) THEN omitted[e] + 1 ELSE omitted[e]]

\* What a page tells of the edges, when its nodes have not been given before.
LEMMA PageTells ==
  ASSUME NEW given, NEW on, given \cap on = {}, NEW shown, NEW omitted \in [Edge -> Nat],
         saved \subseteq Edge, Told(given, shown, omitted)
  PROVE  /\ Omits(on, omitted) \in [Edge -> Nat]
         /\ Told(given \cup on, shown \cup Shows(on), Omits(on, omitted))
<1> DEFINE both == Shows(on)
           more == Omits(on, omitted)
<1>1. more \in [Edge -> Nat]
  BY DEF Omits
<1>2. Told(given \cup on, shown \cup both, more)
  <2> SUFFICES ASSUME NEW e \in saved
               PROVE  /\ {From[e], To[e]} \subseteq given \cup on =>
                           \/ e \in shown \cup both /\ more[e] = 0
                           \/ e \notin shown \cup both /\ more[e] = 2
                      /\ ~({From[e], To[e]} \subseteq given \cup on) =>
                           /\ e \notin shown \cup both
                           /\ more[e] = IF {From[e], To[e]} \cap (given \cup on) = {} THEN 0 ELSE 1
    BY DEF Told
  <2>1. /\ e \in both <=> From[e] \in on /\ To[e] \in on
        /\ e \in Touching(on) <=> From[e] \in on \/ To[e] \in on
    BY DEF Touching, Shows
  <2>2. more[e] = IF e \in Touching(on) \ both THEN omitted[e] + 1 ELSE omitted[e]
    BY DEF Omits
  <2>3. /\ {From[e], To[e]} \subseteq given =>
             (e \in shown /\ omitted[e] = 0) \/ (e \notin shown /\ omitted[e] = 2)
        /\ ~ ({From[e], To[e]} \subseteq given) =>
             e \notin shown /\ omitted[e] = IF {From[e], To[e]} \cap given = {} THEN 0 ELSE 1
    BY DEF Told
  <2> HIDE DEF both, more
  <2>4. CASE From[e] \in on /\ To[e] \in on
    <3>1. more[e] = omitted[e] /\ e \in both /\ From[e] \notin given /\ To[e] \notin given
      BY <2>1, <2>2, <2>4
    <3>2. omitted[e] = 0
      BY <2>3, <3>1
    <3> QED BY <2>4, <3>1, <3>2
  <2>5. CASE ~(From[e] \in on) /\ ~(To[e] \in on)
    <3>1. more[e] = omitted[e] /\ e \notin both
      BY <2>1, <2>2, <2>5
    <3> QED BY <2>3, <2>5, <3>1
  <2>6. CASE ~(From[e] \in on <=> To[e] \in on)
    <3>1. more[e] = omitted[e] + 1 /\ e \notin both /\ ~ ({From[e], To[e]} \subseteq given)
      BY <2>1, <2>2, <2>6
    <3>2. e \notin shown /\ omitted[e] = IF {From[e], To[e]} \cap given = {} THEN 0 ELSE 1
      BY <2>3, <3>1
    <3>3. CASE {From[e], To[e]} \cap given = {}
      <4>1. ~({From[e], To[e]} \subseteq given \cup on) /\ {From[e], To[e]} \cap (given \cup on) /= {}
        BY <2>6, <3>3
      <4>2. more[e] = 1
        BY <3>1, <3>2, <3>3
      <4> QED BY <3>1, <3>2, <4>1, <4>2
    <3>4. CASE {From[e], To[e]} \cap given /= {}
      <4>1. {From[e], To[e]} \subseteq given \cup on
        BY <2>6, <3>4
      <4>2. more[e] = 2
        BY <3>1, <3>2, <3>4
      <4> QED BY <3>1, <3>2, <4>1, <4>2
    <3> QED BY <3>3, <3>4
  <2> QED BY <2>4, <2>5, <2>6
<1> QED BY <1>1, <1>2

LEMMA Concatenated ==
  ASSUME NEW R, NEW s \in Seq(R), NEW t \in Seq(R)
  PROVE  /\ s \o t \in Seq(R) /\ Len(s \o t) = Len(s) + Len(t)
         /\ \A i \in 1 .. Len(s) : (s \o t)[i] = s[i]
         /\ \A i \in 1 .. Len(t) : (s \o t)[Len(s) + i] = t[i]
OBVIOUS

\* The page goes to the client, behind what it was given before.
LEMMA ReadEdgesWalkInv == ASSUME RebuildInv, WalkInv, ReadEdges PROVE WalkInv'
<1> DEFINE on == PageNodes(walk.page)
           ids == [i \in DOMAIN walk.page |-> walk.page[i].id]
           given == walk.nodes \o ids
<1>1. walk' = [walk EXCEPT !.step = IF walk.more THEN "page" ELSE "done", !.page = <<>>,
                           !.nodes = given, !.shown = walk.shown \cup Shows(on),
                           !.omitted = Omits(on, walk.omitted),
                           !.steady = IF walk.offset = 0 THEN walk.settled /\ ~walk.moved
                                                         ELSE walk.steady]
  BY Zenon DEF ReadEdges, Shows, Omits
<1>2. /\ DOMAIN walk = DOMAIN NoWalk /\ rows \in [Node -> Seq(Value)] /\ UNCHANGED <<rows, saved>>
      /\ walk.step = "edges" /\ saved \subseteq Edge
  BY DEF RebuildInv, RebuildTypes, ReadEdges, db
<1> HIDE DEF given
<1>3. /\ walk'.step = (IF walk.more THEN "page" ELSE "done")
      /\ walk'.settled = walk.settled /\ walk'.moved = walk.moved /\ walk'.limit = walk.limit
      /\ walk'.offset = walk.offset /\ walk'.nodes = given /\ walk'.shown = walk.shown \cup Shows(on)
      /\ walk'.omitted = Omits(on, walk.omitted)
  BY <1>1, <1>2 DEF NoWalk
<1> SUFFICES ASSUME Steady' PROVE WalkInv'
  BY DEF WalkInv
<1>4. /\ OneVersion /\ walk.omitted \in [Edge -> Nat]
      /\ Told(Range(walk.nodes), walk.shown, walk.omitted)
  BY <1>2, <1>3 DEF WalkInv, Steady
<1>5. PICK at \in Seq(Node) : Numbered(at) /\ Progress(at)
  BY <1>2, <1>3 DEF WalkInv, Steady
<1> DEFINE m == Len(walk.page)
           f == walk.offset
           a == Len(at)
<1>6. /\ f \in Nat /\ a \in Nat /\ m \in Nat /\ f <= a /\ f + m <= a
      /\ walk.more => m = walk.limit /\ f + m < a
      /\ ~walk.more => f + m = a
  <2>1. /\ walk.offset \in Nat /\ walk.limit \in Nat \ {0} /\ Len(walk.nodes) = walk.offset
        /\ Len(walk.nodes) <= a /\ walk.page \in Seq([id : Node, order : Nat])
        /\ m = IF walk.more THEN walk.limit ELSE a - walk.offset
        /\ walk.more => a - walk.offset > walk.limit
    BY <1>2, <1>5 DEF Progress
  <2>2. a \in Nat /\ m \in Nat
    BY <2>1
  <2> HIDE DEF m, a
  <2> DEFINE l == walk.limit
             n == Len(walk.nodes)
  <2>3. n = f /\ n <= a
    BY <2>1
  <2> HIDE DEF n
  <2>4. /\ f \in Nat /\ l \in Nat /\ f <= a /\ m = (IF walk.more THEN l ELSE a - f)
        /\ walk.more => a - f > l
    BY <2>1, <2>3
  <2> HIDE DEF m, f, a, l
  <2>5. CASE walk.more
    BY <2>2, <2>4, <2>5 DEF l
  <2>6. CASE ~walk.more
    BY <2>2, <2>4, <2>6
  <2> QED BY <2>5, <2>6
<1>7. /\ walk.nodes \in Seq(Node) /\ Len(walk.nodes) = f
      /\ \A i \in 1 .. f : walk.nodes[i] = at[i]
  BY <1>2, <1>5 DEF Progress
<1>8. /\ ids \in Seq(Node) /\ Len(ids) = m /\ on = {at[f + i] : i \in 1 .. m}
      /\ \A i \in 1 .. m : ids[i] = at[f + i]
  <2>1. /\ walk.page \in Seq([id : Node, order : Nat])
        /\ \A i \in 1 .. m : walk.page[i].id = at[f + i]
    BY <1>2, <1>5 DEF Progress
  <2>2. DOMAIN walk.page = 1 .. m /\ \A i \in 1 .. m : walk.page[i].id \in Node
    <3> DEFINE R == [id : Node, order : Nat]
    <3>1. walk.page \in Seq(R) /\ \A r \in R : r.id \in Node
      BY <2>1
    <3> HIDE DEF R
    <3>2. DOMAIN walk.page = 1 .. m /\ \A i \in 1 .. m : walk.page[i] \in R
      BY <3>1
    <3> QED BY <3>1, <3>2
  <2>3. ids \in [1 .. m -> Node]
    BY <2>2
  <2>4. ids \in Seq(Node) /\ Len(ids) = m
    <3> HIDE DEF ids, m
    <3> QED BY <1>6, <2>3, FunctionIsSeq
  <2>5. on = {at[f + i] : i \in 1 .. m}
    <3> HIDE DEF m, f
    <3> QED BY <2>1, <2>2 DEF PageNodes
  <2> QED BY <2>1, <2>2, <2>4, <2>5
<1> HIDE DEF on, ids, m, f, a
<1>9. /\ given \in Seq(Node) /\ Len(given) = f + m
      /\ \A i \in 1 .. f + m : given[i] = at[i]
  <2>1. given \in Seq(Node) /\ Len(given) = f + m
    <3>1. given \in Seq(Node) /\ Len(given) = Len(walk.nodes) + Len(ids)
      <4>1. walk.nodes \in Seq(Node) /\ ids \in Seq(Node)
        BY <1>7, <1>8
      <4>2. walk.nodes \o ids \in Seq(Node) /\ Len(walk.nodes \o ids) = Len(walk.nodes) + Len(ids)
        BY <4>1, Concatenated
      <4> QED BY <4>2 DEF given
    <3> QED BY <1>7, <1>8, <3>1
  <2>2. ASSUME NEW i \in 1 .. f + m PROVE given[i] = at[i]
    <3>1. CASE i <= f
      <4>1. i \in 1 .. f
        BY <1>6, <3>1
      <4>2. given[i] = walk.nodes[i]
        BY <1>7, <1>8, <4>1, Concatenated DEF given
      <4> QED BY <1>7, <4>1, <4>2
    <3>2. CASE ~(i <= f)
      <4>1. i - f \in 1 .. m /\ f + (i - f) = i
        BY <1>6, <3>2
      <4>2. given[i] = ids[i - f]
        BY <1>7, <1>8, <4>1, Concatenated DEF given
      <4> QED BY <1>8, <4>1, <4>2
    <3> QED BY <3>1, <3>2
  <2> QED BY <2>1, <2>2
<1>10. Range(given) = Range(walk.nodes) \cup on /\ Range(walk.nodes) \cap on = {}
  <2>1. /\ Range(walk.nodes) = {at[i] : i \in 1 .. f}
        /\ Range(given) = {at[i] : i \in 1 .. f + m}
    <3>1. DOMAIN walk.nodes = 1 .. f /\ DOMAIN given = 1 .. f + m
      BY <1>7, <1>9
    <3> QED BY <1>7, <1>9, <3>1 DEF Range
  <2>2. \A i \in 1 .. f + m : i \in 1 .. f \/ (i - f \in 1 .. m /\ f + (i - f) = i)
    BY <1>6
  <2>3. \A i \in 1 .. m : f + i \in 1 .. f + m
    BY <1>6
  <2>4. \A i \in 1 .. f : i \in 1 .. f + m
    BY <1>6
  <2>5. ASSUME NEW i \in 1 .. f, NEW j \in 1 .. m, at[i] = at[f + j] PROVE FALSE
    <3>1. i \in 1 .. a /\ f + j \in 1 .. a /\ i - 1 /= (f + j) - 1
      BY <1>6
    <3>2. \A k \in 1 .. a : Last(rows[at[k]]).order = k - 1
      BY <1>5 DEF Numbered, a
    <3>3. Last(rows[at[i]]).order = i - 1 /\ Last(rows[at[f + j]]).order = (f + j) - 1
      BY <3>1, <3>2
    <3> QED BY <2>5, <3>1, <3>3
  <2>6. Range(given) = Range(walk.nodes) \cup on
    BY <1>8, <2>1, <2>2, <2>3, <2>4
  <2>7. Range(walk.nodes) \cap on = {}
    BY <1>8, <2>1, <2>5
  <2> QED BY <2>6, <2>7
<1>11. /\ Told(Range(given), walk.shown \cup Shows(on), Omits(on, walk.omitted))
       /\ Omits(on, walk.omitted) \in [Edge -> Nat]
  <2> DEFINE R == Range(walk.nodes)
  <2>1. R \cap on = {} /\ Told(R, walk.shown, walk.omitted) /\ Range(given) = R \cup on
    BY <1>4, <1>10
  <2> HIDE DEF R
  <2>2. /\ Told(R \cup on, walk.shown \cup Shows(on), Omits(on, walk.omitted))
        /\ Omits(on, walk.omitted) \in [Edge -> Nat]
    BY <1>2, <1>4, <2>1, PageTells
  <2> QED BY <2>1, <2>2
<1>12. Told(Range(walk.nodes), walk.shown, walk.omitted)'
  BY <1>2, <1>3, <1>11 DEF Told
<1>13. Progress(at)'
  <2>1. walk.limit \in Nat \ {0}
    BY <1>5 DEF Progress
  <2>2. CASE walk.more
    BY <1>3, <1>6, <1>9, <2>1, <2>2 DEF Progress, f, a
  <2>3. CASE ~walk.more
    BY <1>3, <1>6, <1>9, <2>1, <2>3 DEF Progress, f, a
  <2> QED BY <2>2, <2>3
<1>14. Numbered(at)' /\ OneVersion'
  BY <1>2, <1>4, <1>5 DEF Numbered, Present, OneVersion
<1> QED BY <1>3, <1>11, <1>12, <1>13, <1>14 DEF WalkInv

\* The next page begins where the last one ended.
LEMMA NextPageWalkInv == ASSUME RebuildInv, WalkInv, NextPage PROVE WalkInv'
<1>1. /\ DOMAIN walk = DOMAIN NoWalk /\ UNCHANGED <<rows, saved>> /\ walk.step = "page"
      /\ walk' = [walk EXCEPT !.step = "nodes", !.offset = walk.offset + walk.limit]
  BY DEF RebuildInv, RebuildTypes, NextPage, NextOffset, db
<1>2. /\ walk'.step = "nodes" /\ walk'.offset = walk.offset + walk.limit
      /\ walk'.settled = walk.settled /\ walk'.moved = walk.moved /\ walk'.limit = walk.limit
      /\ walk'.nodes = walk.nodes /\ walk'.shown = walk.shown /\ walk'.omitted = walk.omitted
  BY <1>1 DEF NoWalk
<1> SUFFICES ASSUME Steady' PROVE WalkInv'
  BY DEF WalkInv
<1>3. /\ OneVersion /\ walk.omitted \in [Edge -> Nat]
      /\ Told(Range(walk.nodes), walk.shown, walk.omitted)
  BY <1>1, <1>2 DEF WalkInv, Steady
<1>4. PICK at \in Seq(Node) : Numbered(at) /\ Progress(at)
  BY <1>1, <1>2 DEF WalkInv, Steady
<1>5. Numbered(at)' /\ OneVersion'
  BY <1>1, <1>3, <1>4 DEF Numbered, Present, OneVersion
<1>6. Progress(at)'
  BY <1>1, <1>2, <1>4 DEF Progress
<1>7. Told(Range(walk.nodes), walk.shown, walk.omitted)'
  BY <1>1, <1>2, <1>3 DEF Told
<1> QED BY <1>2, <1>3, <1>5, <1>6, <1>7 DEF WalkInv

LEMMA NextWalkInv == ASSUME RebuildInv, RowsInv, WalkInv, [Next]_vars PROVE WalkInv'
<1>1. Ingest \/ Redeliver \/ Begin \/ FlowStep \/ ApplyFlowOrder \/ CorrectNode \/ AlignEdges
        \/ SaveCheckpoint \/ Fail \/ UNCHANGED vars
      => WalkInv'
  <2>1. Ingest \/ Redeliver \/ Begin \/ FlowStep \/ ApplyFlowOrder \/ CorrectNode \/ AlignEdges
          \/ SaveCheckpoint \/ Fail \/ UNCHANGED vars
        => UNCHANGED <<rows, saved, walk>>
    BY DEF Ingest, Redeliver, Begin, FlowStep, ApplyFlowOrder, CorrectNode, AlignEdges,
           SaveCheckpoint, Fail, vars, db
  <2> QED BY <2>1, UnseenWalkInv
<1>2. RejectCursor => WalkInv'
  BY DEF RejectCursor, NoWalk, WalkInv, Steady
<1> QED BY <1>1, <1>2, SaveWalkInv, MergeWalkInv, OpenFlowWalkInv, ReadNodesWalkInv,
           ReadEdgesWalkInv, NextPageWalkInv DEF Next, Walk

\* A walk that begins when nothing is half saved and is not moved under gives every node once, in
\* flow order, and tells of every edge, with both its nodes or on the page of each, whatever the
\* page size and the number of pages, nodes and edges.
THEOREM SteadyWalksTile == Spec => []SteadyWalkTiles
<1>1. Init => RebuildInv /\ CheckpointInv /\ RowsInv /\ WalkInv
  <2>1. Init => CheckpointInv
    BY DEF Init, IdleJob, CheckpointInv
  <2> QED BY <2>1, InitRebuildInv, InitRowsInv, InitWalkInv
<1>2. RebuildInv /\ CheckpointInv /\ RowsInv /\ WalkInv /\ [Next]_vars
        => (RebuildInv /\ CheckpointInv /\ RowsInv /\ WalkInv)'
  BY NextRebuildInv, NextCheckpointInv, NextRowsInv, NextWalkInv DEF RebuildInv
<1>3. RebuildInv /\ RowsInv /\ WalkInv => SteadyWalkTiles
  <2> SUFFICES ASSUME RebuildInv, RowsInv, WalkInv, walk.step = "done", walk.settled, ~walk.moved
               PROVE  /\ walk.nodes = [i \in DOMAIN walk.nodes |-> CHOOSE n \in Present : rows[n][1].order = i - 1]
                      /\ Range(walk.nodes) = Present
                      /\ \A e \in saved : \/ e \in walk.shown /\ walk.omitted[e] = 0
                                          \/ e \notin walk.shown /\ walk.omitted[e] = 2
    BY Zenon DEF SteadyWalkTiles
  <2>1. OneVersion /\ Told(Range(walk.nodes), walk.shown, walk.omitted)
    BY DEF WalkInv, Steady
  <2>2. PICK at \in Seq(Node) : Numbered(at) /\ Progress(at)
    BY DEF WalkInv, Steady
  <2>3. walk.nodes = at
    <3>1. /\ walk.nodes \in Seq(Node) /\ Len(walk.nodes) = Len(at)
          /\ \A i \in 1 .. Len(at) : walk.nodes[i] = at[i]
      BY <2>2 DEF Progress
    <3> QED BY <3>1
  <2>4. Range(at) = Present /\ \A i \in 1 .. Len(at) : at[i] \in Present
    BY <2>2 DEF Numbered, Range
  <2>5. ASSUME NEW n \in Present PROVE rows[n][1] = Last(rows[n])
    <3> DEFINE k == Len(rows[n])
    <3>1. rows[n] \in Seq(Value) /\ rows[n] /= <<>> /\ k <= 1
      BY <2>1 DEF Present, OneVersion, RebuildInv, RebuildTypes
    <3>2. k \in Nat /\ k /= 0
      BY <3>1
    <3> HIDE DEF k
    <3>3. k = 1
      BY <3>1, <3>2
    <3> QED BY <3>3 DEF k, Last
  <2>6. ASSUME NEW i \in 1 .. Len(at)
        PROVE  at[i] = CHOOSE n \in Present : rows[n][1].order = i - 1
    <3>1. at[i] \in Present /\ rows[at[i]][1].order = i - 1
      BY <2>2, <2>4, <2>5 DEF Numbered
    <3>2. ASSUME NEW n \in Present, rows[n][1].order = i - 1 PROVE n = at[i]
      <4>1. PICK j \in 1 .. Len(at) : n = at[j]
        BY <2>4 DEF Range
      <4>2. rows[n][1].order = j - 1
        BY <2>2, <2>5, <4>1 DEF Numbered
      <4>3. i = j
        BY <3>2, <4>2
      <4> QED BY <4>1, <4>3
    <3> QED BY <3>1, <3>2
  <2>7. \A e \in saved : {From[e], To[e]} \subseteq Range(walk.nodes)
    BY <2>3, <2>4 DEF RowsInv
  <2>8. \A e \in saved : \/ e \in walk.shown /\ walk.omitted[e] = 0
                         \/ e \notin walk.shown /\ walk.omitted[e] = 2
    BY <2>1, <2>7 DEF Told
  <2>9. walk.nodes = [i \in DOMAIN walk.nodes |-> CHOOSE n \in Present : rows[n][1].order = i - 1]
    <3>1. DOMAIN at = 1 .. Len(at) /\ at = [i \in 1 .. Len(at) |-> at[i]]
      OBVIOUS
    <3> QED BY <2>3, <2>6, <3>1
  <2> QED BY <2>3, <2>4, <2>8, <2>9
<1> QED BY <1>1, <1>2, <1>3, PTL DEF Spec
-----------------------------------------------------------------------------
(* The projection of a page.                                               *)

Row == [id : Node, order : Nat]

\* What project is called with: rows of nodes, each node once.
IsPage(page) ==
  /\ page \in Seq(Row)
  /\ \A i, j \in DOMAIN page : page[i].id = page[j].id => i = j

Hidden(view, page) == {i \in DOMAIN page : IsHidden(page[i].id, view, page)}
Ids(page, a, b) == {page[i].id : i \in a .. b}

Names(view, page) ==
  {Target(n, view, page) : n \in Node} \cup {<<"ghost", a, b>> : a \in Nat, b \in Nat}
Spot(view, page) == [id : Names(view, page), members : SUBSET Node]

\* A name and what it stands for: the first s rows are placed, each once.
Named(placed) ==
  /\ \A q \in DOMAIN placed : placed[q].id[1] = "normal" =>
       \E n \in Node : placed[q].id = <<"normal", n>> /\ placed[q].members = {n}
  /\ \A q, r \in DOMAIN placed : placed[q].id[1] /= "ghost" /\ placed[q].id = placed[r].id => q = r

GhostsNamed(placed, s, view, page) ==
  \A q \in DOMAIN placed : placed[q].id[1] = "ghost" =>
    \E a \in Hidden(view, page) : /\ a <= s /\ placed[q].id[2] = page[a].order
                                  /\ page[a].id \in placed[q].members

Together(placed, page, i, j) ==
  \E q \in DOMAIN placed : page[i].id \in placed[q].members /\ page[j].id \in placed[q].members

Runs(placed, s, view, page) ==
  \A i, j \in Hidden(view, page) : i < j /\ j <= s =>
    (Together(placed, page, i, j) <=> i .. j \subseteq Hidden(view, page))

EachOnce(placed, s, page) ==
  /\ \A q \in DOMAIN placed : placed[q].members \subseteq Ids(page, 1, s)
  /\ \A i \in 1 .. s : \E q \in DOMAIN placed : page[i].id \in placed[q].members
  /\ \A q, r \in DOMAIN placed : \A n \in placed[q].members \cap placed[r].members : q = r

PlacedInv(placed, s, view, page) ==
  /\ placed \in Seq(Spot(view, page))
  /\ EachOnce(placed, s, page) /\ Named(placed)
  /\ GhostsNamed(placed, s, view, page) /\ Runs(placed, s, view, page)

\* The rows after s are hidden and not placed yet.
OpenRun(run, s, k, view, page) ==
  /\ run \in Seq(Row) /\ s + Len(run) = k
  /\ \A x \in 1 .. Len(run) : run[x] = page[s + x]
  /\ s + 1 .. k \subseteq Hidden(view, page)
  /\ s \notin Hidden(view, page)

ScanInv(acc, k, view, page) ==
  /\ acc = [placed |-> acc.placed, run |-> acc.run]
  /\ \E s \in 0 .. k : PlacedInv(acc.placed, s, view, page) /\ OpenRun(acc.run, s, k, view, page)

-----------------------------------------------------------------------------
\* A node becomes itself unless it goes into a layer or a group.
LEMMA TargetKinds ==
  ASSUME NEW n, NEW view, NEW page
  PROVE  /\ Target(n, view, page)[1] \in {"layer", "group", "normal"}
         /\ Target(n, view, page)[1] = "normal" => Target(n, view, page) = <<"normal", n>>
<1>1. Target(n, view, page) \in {<<"layer", LayerOf[n]>>, <<"group", CollapsedGroup(n, view, page)>>,
                                 <<"normal", n>>}
  BY DEF Target
<1> QED BY <1>1

\* There are four kinds of names.
LEMMA NameKinds ==
  ASSUME NEW view, NEW page, NEW name \in Names(view, page)
  PROVE  name[1] \in {"layer", "group", "normal", "ghost"}
BY TargetKinds DEF Names

\* The rows of a page, and its nodes.
LEMMA PageRows ==
  ASSUME NEW page, IsPage(page)
  PROVE  /\ Len(page) \in Nat /\ DOMAIN page = 1 .. Len(page)
         /\ \A i \in 1 .. Len(page) : page[i] \in Row /\ page[i].id \in Node /\ page[i].order \in Nat
<1>1. page \in Seq(Row)
  BY DEF IsPage
<1>2. /\ Len(page) \in Nat /\ DOMAIN page = 1 .. Len(page)
      /\ \A i \in 1 .. Len(page) : page[i] \in Row
  BY <1>1
<1>3. \A r \in Row : r.id \in Node /\ r.order \in Nat
  BY DEF Row
<1> QED BY <1>2, <1>3

\* No node has two rows on a page.
LEMMA PageIds ==
  ASSUME NEW page, IsPage(page), NEW i \in 1 .. Len(page), NEW a \in Nat, NEW b \in Nat,
         1 <= a, b <= Len(page)
  PROVE  /\ page[i].id \in Ids(page, a, b) <=> i \in a .. b
         /\ Ids(page, a, b) \subseteq Node
<1>1. a .. b \subseteq 1 .. Len(page)
  BY PageRows
<1> QED BY <1>1, PageRows DEF Ids, IsPage

\* A new placeholder for the rows after s up to k: a run of hidden rows that is as long as it
\* can be, or one row that is not hidden.
LEMMA AppendSpot ==
  ASSUME NEW view, NEW page, IsPage(page), NEW s \in Nat, NEW k \in Nat, s < k, k <= Len(page),
         NEW placed, PlacedInv(placed, s, view, page),
         NEW p \in Spot(view, page), p.members = Ids(page, s + 1, k),
         p.id[1] = "normal" => \E n \in Node : p.id = <<"normal", n>> /\ p.members = {n},
         p.id[1] /= "ghost" => \A q \in DOMAIN placed : placed[q].id /= p.id,
         p.id[1] = "ghost" => p.id[2] = page[s + 1].order /\ s + 1 \in Hidden(view, page),
         \/ s + 1 .. k \subseteq Hidden(view, page) /\ s \notin Hidden(view, page)
         \/ k = s + 1 /\ k \notin Hidden(view, page)
  PROVE  PlacedInv(Append(placed, p), k, view, page)
<1> DEFINE m == Len(placed)
           more == Append(placed, p)
<1>1. /\ m \in Nat /\ DOMAIN placed = 1 .. m /\ more \in Seq(Spot(view, page))
      /\ DOMAIN more = 1 .. m + 1 /\ more[m + 1] = p
      /\ \A q \in 1 .. m : more[q] = placed[q] /\ q \in 1 .. m + 1 /\ q /= m + 1
      /\ \A q \in 1 .. m + 1 : q \in 1 .. m \/ q = m + 1
  BY DEF PlacedInv
<1> HIDE DEF more, m
<1>2. /\ Len(page) \in Nat /\ DOMAIN page = 1 .. Len(page)
      /\ 1 .. k \subseteq 1 .. Len(page) /\ 1 .. s \subseteq 1 .. k /\ s + 1 \in 1 .. k
      /\ s + 1 .. k \subseteq 1 .. k
      /\ \A i \in 1 .. k : i \in 1 .. s \/ i \in s + 1 .. k
      /\ \A i \in 1 .. s : i \notin s + 1 .. k
      /\ Hidden(view, page) \subseteq 1 .. Len(page)
  BY PageRows DEF Hidden
<1>3. \A i \in 1 .. Len(page) : /\ page[i].id \in Ids(page, s + 1, k) <=> i \in s + 1 .. k
                                /\ page[i].id \in Ids(page, 1, s) <=> i \in 1 .. s
                                /\ page[i].id \in Ids(page, 1, k) <=> i \in 1 .. k
  BY PageIds, PageRows
<1>4. /\ Ids(page, 1, s) \subseteq Ids(page, 1, k) /\ Ids(page, s + 1, k) \subseteq Ids(page, 1, k)
      /\ Ids(page, 1, s) \cap Ids(page, s + 1, k) = {}
  BY <1>2, <1>3 DEF Ids
<1>5. EachOnce(more, k, page)
  <2>1. \A q \in 1 .. m + 1 : more[q].members \subseteq Ids(page, 1, k)
    BY <1>1, <1>4 DEF PlacedInv, EachOnce
  <2>2. \A i \in 1 .. k : \E q \in 1 .. m + 1 : page[i].id \in more[q].members
    <3> SUFFICES ASSUME NEW i \in 1 .. k PROVE \E q \in 1 .. m + 1 : page[i].id \in more[q].members
      OBVIOUS
    <3>1. CASE i \in 1 .. s
      <4>1. PICK q \in 1 .. m : page[i].id \in placed[q].members
        BY <1>1, <3>1 DEF PlacedInv, EachOnce
      <4> QED BY <1>1, <4>1
    <3>2. CASE i \in s + 1 .. k
      <4>1. page[i].id \in more[m + 1].members /\ m + 1 \in 1 .. m + 1
        BY <1>1, <1>2, <1>3, <3>2
      <4> QED BY <4>1
    <3> QED BY <1>2, <3>1, <3>2
  <2>3. \A q, r \in 1 .. m + 1 : \A n \in more[q].members \cap more[r].members : q = r
    <3>1. \A q, r \in 1 .. m : \A n \in more[q].members \cap more[r].members : q = r
      BY <1>1 DEF PlacedInv, EachOnce
    <3>2. \A q \in 1 .. m : more[q].members \cap more[m + 1].members = {}
      BY <1>1, <1>4 DEF PlacedInv, EachOnce
    <3> QED BY <1>1, <3>1, <3>2
  <2> QED BY <1>1, <2>1, <2>2, <2>3 DEF EachOnce
<1>6. Named(more)
  <2>1. Named(placed)
    BY DEF PlacedInv
  <2> QED BY <1>1, <2>1 DEF Named
<1>7. GhostsNamed(more, k, view, page)
  <2> SUFFICES ASSUME NEW q \in 1 .. m + 1, more[q].id[1] = "ghost"
               PROVE  \E a \in Hidden(view, page) :
                        /\ a <= k /\ more[q].id[2] = page[a].order /\ page[a].id \in more[q].members
    BY <1>1 DEF GhostsNamed
  <2>1. CASE q \in 1 .. m
    <3>1. PICK a \in Hidden(view, page) :
            /\ a <= s /\ placed[q].id[2] = page[a].order /\ page[a].id \in placed[q].members
      BY <1>1, <2>1 DEF PlacedInv, GhostsNamed
    <3>2. a <= k
      BY <1>2, <3>1
    <3> QED BY <1>1, <2>1, <3>1, <3>2
  <2>2. CASE q = m + 1
    <3>1. page[s + 1].id \in p.members /\ s + 1 <= k
      BY <1>2, <1>3
    <3> QED BY <1>1, <2>2, <3>1
  <2> QED BY <1>1, <2>1, <2>2
<1>8. Runs(more, k, view, page)
  <2> SUFFICES ASSUME NEW i \in Hidden(view, page), NEW j \in Hidden(view, page), i < j, j <= k
               PROVE  Together(more, page, i, j) <=> i .. j \subseteq Hidden(view, page)
    BY DEF Runs
  <2>1. i \in 1 .. k /\ j \in 1 .. k /\ i \in 1 .. Len(page) /\ j \in 1 .. Len(page)
    BY <1>2
  <2>2. CASE j \in 1 .. s
    <3>1. j <= s /\ i \in 1 .. s
      BY <2>1, <2>2
    <3>2. Together(placed, page, i, j) <=> i .. j \subseteq Hidden(view, page)
      BY <3>1 DEF PlacedInv, Runs
    <3>3. page[i].id \notin p.members
      BY <1>2, <1>3, <2>1, <3>1
    <3>4. Together(more, page, i, j) <=> Together(placed, page, i, j)
      BY <1>1, <3>3 DEF Together
    <3> QED BY <3>2, <3>4
  <2>3. CASE j \in s + 1 .. k
    <3>1. page[j].id \in p.members /\ page[j].id \notin Ids(page, 1, s)
      BY <1>2, <1>3, <2>1, <2>3
    <3>2. Together(more, page, i, j) <=> page[i].id \in p.members
      <4>1. \A q \in 1 .. m : page[j].id \notin more[q].members
        <5>1. \A q \in 1 .. m : placed[q].members \subseteq Ids(page, 1, s)
          BY <1>1 DEF PlacedInv, EachOnce
        <5> QED BY <1>1, <3>1, <5>1
      <4>2. m + 1 \in 1 .. m + 1
        BY <1>1
      <4> QED BY <1>1, <3>1, <4>1, <4>2 DEF Together
    <3>3. s + 1 .. k \subseteq Hidden(view, page) /\ s \notin Hidden(view, page)
      BY <2>3
    <3>4. page[i].id \in p.members <=> i \in s + 1 .. k
      BY <1>3, <2>1
    <3>5. CASE i \in s + 1 .. k
      <4>1. i .. j \subseteq s + 1 .. k
        BY <2>3, <3>5
      <4> QED BY <3>2, <3>3, <3>4, <3>5, <4>1
    <3>6. CASE i \in 1 .. s
      <4>1. s \in i .. j /\ i \notin s + 1 .. k
        BY <2>3, <3>6
      <4> QED BY <3>2, <3>3, <3>4, <4>1
    <3> QED BY <1>2, <2>1, <3>5, <3>6
  <2> QED BY <1>2, <2>1, <2>2, <2>3
<1> QED BY <1>1, <1>5, <1>6, <1>7, <1>8 DEF PlacedInv, more

\* A row joins the placeholder that has its name already.
LEMMA JoinSpot ==
  ASSUME NEW view, NEW page, IsPage(page), NEW s \in Nat, s < Len(page),
         NEW placed, PlacedInv(placed, s, view, page), s + 1 \notin Hidden(view, page),
         NEW at, at \subseteq DOMAIN placed, at /= {},
         \A q \in at : placed[q].id \in {Target(page[s + 1].id, view, page)},
         NEW more, more = [q \in DOMAIN placed |->
                             IF q \in at THEN AddNodeToCollapsed(placed[q], page[s + 1].id) ELSE placed[q]]
  PROVE  PlacedInv(more, s + 1, view, page)
<1> DEFINE m == Len(placed)
           n == page[s + 1].id
           name == Target(n, view, page)
           k == s + 1
<1>1. /\ m \in Nat /\ DOMAIN placed = 1 .. m /\ k \in Nat /\ k \in 1 .. Len(page) /\ n \in Node
      /\ Len(page) \in Nat /\ k \in 1 .. k /\ k \notin 1 .. s
      /\ 1 .. k \subseteq 1 .. Len(page) /\ 1 .. s \subseteq 1 .. k
      /\ \A i \in 1 .. k : i \in 1 .. s \/ i = k
      /\ Hidden(view, page) \subseteq 1 .. Len(page)
  BY PageRows DEF PlacedInv, Hidden
<1>2. \A q \in 1 .. m : placed[q] \in Spot(view, page)
  BY <1>1 DEF PlacedInv
<1>3. PICK q0 \in at : q0 \in 1 .. m /\ placed[q0].id = name
  BY <1>1
<1>4. name[1] \in {"layer", "group", "normal"} /\ (name[1] = "normal" => name = <<"normal", n>>)
  BY TargetKinds
<1>5. EachOnce(placed, s, page) /\ Named(placed) /\ GhostsNamed(placed, s, view, page)
      /\ Runs(placed, s, view, page)
  BY DEF PlacedInv
<1>6. at = {q0}
  <2>1. \A q \in at : placed[q0].id[1] /= "ghost" /\ placed[q0].id = placed[q].id /\ q \in DOMAIN placed
    BY <1>1, <1>3, <1>4
  <2> QED BY <1>1, <1>3, <1>5, <2>1 DEF Named
<1>7. /\ n \notin Ids(page, 1, s)
      /\ \A i \in 1 .. Len(page) : page[i].id = n => i = k
      /\ Ids(page, 1, k) = Ids(page, 1, s) \cup {n}
  <2>1. \A i \in 1 .. Len(page) : page[i].id = n => i = k
    BY <1>1, PageRows DEF IsPage
  <2> QED BY <1>1, <2>1 DEF Ids
<1>8. placed[q0].id[1] /= "normal"
  <2> SUFFICES ASSUME placed[q0].id[1] = "normal" PROVE FALSE
    OBVIOUS
  <2>1. placed[q0].id = <<"normal", n>>
    BY <1>3, <1>4
  <2>2. PICK o \in Node : placed[q0].id = <<"normal", o>> /\ placed[q0].members = {o}
    BY <1>1, <1>3, <1>5 DEF Named
  <2>3. n \in placed[q0].members
    BY <2>1, <2>2
  <2> QED BY <1>1, <1>3, <1>5, <1>7, <2>3 DEF EachOnce
<1>9. /\ DOMAIN more = 1 .. m
      /\ \A q \in 1 .. m : more[q] \in Spot(view, page)
      /\ \A q \in 1 .. m : more[q].id = placed[q].id
      /\ \A q \in 1 .. m : q /= q0 => more[q].members = placed[q].members
      /\ more[q0].members = placed[q0].members \cup {n}
  <2>1. /\ DOMAIN more = 1 .. m
        /\ \A q \in 1 .. m : q /= q0 => more[q] = placed[q]
        /\ more[q0] = [placed[q0] EXCEPT !.members = @ \cup {n}]
    BY <1>1, <1>3, <1>6 DEF AddNodeToCollapsed
  <2>2. ASSUME NEW p \in Spot(view, page)
        PROVE  /\ [p EXCEPT !.members = @ \cup {n}] \in Spot(view, page)
               /\ [p EXCEPT !.members = @ \cup {n}].id = p.id
               /\ [p EXCEPT !.members = @ \cup {n}].members = p.members \cup {n}
    BY <1>1, <2>2 DEF Spot
  <2>3. /\ more[q0] \in Spot(view, page) /\ more[q0].id = placed[q0].id
        /\ more[q0].members = placed[q0].members \cup {n}
    BY <1>2, <1>3, <2>1, <2>2
  <2> HIDE DEF n
  <2>4. ASSUME NEW q \in 1 .. m
        PROVE  /\ more[q] \in Spot(view, page) /\ more[q].id = placed[q].id
               /\ q /= q0 => more[q].members = placed[q].members
    BY <1>2, <2>1, <2>3
  <2> QED BY <2>1, <2>3, <2>4
<1>10. more \in Seq(Spot(view, page))
  <2>1. more \in [1 .. m -> Spot(view, page)]
    BY <1>9
  <2> QED BY <1>1, <2>1, FunctionIsSeq
<1> HIDE DEF m, n, name, k
<1>11. EachOnce(more, k, page)
  <2>1. \A q \in 1 .. m : more[q].members \subseteq Ids(page, 1, k)
    <3>1. \A q \in 1 .. m : placed[q].members \subseteq Ids(page, 1, s)
      BY <1>1, <1>5 DEF EachOnce
    <3> QED BY <1>7, <1>9, <3>1
  <2>2. ASSUME NEW i \in 1 .. k PROVE \E q \in 1 .. m : page[i].id \in more[q].members
    <3>1. CASE i \in 1 .. s
      <4>1. PICK q \in 1 .. m : page[i].id \in placed[q].members
        BY <1>1, <1>5, <3>1 DEF EachOnce
      <4> QED BY <1>9, <4>1
    <3>2. CASE i = k
      BY <1>3, <1>9, <3>2 DEF n, k
    <3> QED BY <1>1, <3>1, <3>2
  <2>3. ASSUME NEW q \in 1 .. m, NEW r \in 1 .. m, NEW o \in more[q].members \cap more[r].members
        PROVE  q = r
    <3>1. \A t \in 1 .. m : n \notin placed[t].members
      BY <1>1, <1>5, <1>7 DEF EachOnce
    <3>2. CASE o = n
      BY <1>9, <3>1, <3>2
    <3>3. CASE o /= n
      <4>1. o \in placed[q].members \cap placed[r].members
        <5>1. \A t \in 1 .. m : o \in more[t].members => o \in placed[t].members
          BY <1>9, <3>3
        <5> QED BY <5>1
      <4> QED BY <1>1, <1>5, <4>1 DEF EachOnce
    <3> QED BY <3>2, <3>3
  <2> QED BY <1>9, <2>1, <2>2, <2>3 DEF EachOnce
<1>12. Named(more)
  <2>1. \A q \in 1 .. m : more[q].id[1] = "normal" => more[q].members = placed[q].members
    BY <1>8, <1>9
  <2> QED BY <1>1, <1>5, <1>9, <2>1 DEF Named
<1>13. GhostsNamed(more, k, view, page)
  <2> SUFFICES ASSUME NEW q \in 1 .. m, more[q].id[1] = "ghost"
               PROVE  \E a \in Hidden(view, page) :
                        /\ a <= k /\ more[q].id[2] = page[a].order /\ page[a].id \in more[q].members
    BY <1>9 DEF GhostsNamed
  <2>1. PICK a \in Hidden(view, page) :
          /\ a <= s /\ placed[q].id[2] = page[a].order /\ page[a].id \in placed[q].members
    BY <1>1, <1>5, <1>9 DEF GhostsNamed
  <2>2. a <= k
    BY <1>1, <2>1 DEF k
  <2> QED BY <1>9, <2>1, <2>2
<1>14. Runs(more, k, view, page)
  <2> SUFFICES ASSUME NEW i \in Hidden(view, page), NEW j \in Hidden(view, page), i < j, j <= k
               PROVE  Together(more, page, i, j) <=> i .. j \subseteq Hidden(view, page)
    BY DEF Runs
  <2>1. i \in 1 .. Len(page) /\ j \in 1 .. Len(page) /\ j <= s /\ i /= k /\ j /= k
    <3>1. i /= k /\ j /= k
      BY DEF k
    <3> QED BY <1>1, <3>1 DEF k
  <2>2. Together(placed, page, i, j) <=> i .. j \subseteq Hidden(view, page)
    BY <1>5, <2>1 DEF Runs
  <2>3. page[i].id /= n /\ page[j].id /= n
    BY <1>7, <2>1
  <2>4. Together(more, page, i, j) <=> Together(placed, page, i, j)
    BY <1>1, <1>9, <2>3 DEF Together
  <2> QED BY <2>2, <2>4
<1> QED BY <1>10, <1>11, <1>12, <1>13, <1>14 DEF PlacedInv, k

\* The open run becomes a ghost: all rows read are placed.
LEMMA FinalizePlaces ==
  ASSUME NEW view, NEW page, IsPage(page), NEW k \in 0 .. Len(page),
         NEW acc, ScanInv(acc, k, view, page)
  PROVE  /\ FinalizeHiddenRun(acc) = [placed |-> FinalizeHiddenRun(acc).placed, run |-> <<>>]
         /\ PlacedInv(FinalizeHiddenRun(acc).placed, k, view, page)
<1> DEFINE run == acc.run
           placed == acc.placed
           w == Len(run)
<1>1. PICK s \in 0 .. k : PlacedInv(placed, s, view, page) /\ OpenRun(run, s, k, view, page)
  BY DEF ScanInv
<1>2. acc = [placed |-> placed, run |-> run]
  BY DEF ScanInv
<1>3. run \in Seq(Row) /\ w \in Nat /\ s + w = k /\ s \in Nat /\ k \in Nat /\ k <= Len(page)
  <2>1. run \in Seq(Row) /\ w \in Nat /\ s + w = k
    BY <1>1 DEF OpenRun
  <2> QED BY <1>1, <2>1, PageRows
<1> HIDE DEF run, placed
<1>4. CASE run = <<>>
  <2>1. w = 0
    BY <1>4
  <2>2. s = k
    BY <1>3, <2>1
  <2>3. FinalizeHiddenRun(acc) = acc
    BY <1>4 DEF FinalizeHiddenRun, run
  <2> QED BY <1>1, <1>2, <1>4, <2>2, <2>3 DEF placed
<1>5. CASE run /= <<>>
  <2> DEFINE p == [id |-> <<"ghost", Head(run).order, Last(run).order>>, members |-> PageNodes(run)]
  <2>1. FinalizeHiddenRun(acc) = [placed |-> Append(placed, p), run |-> <<>>]
    BY <1>5 DEF FinalizeHiddenRun, run, placed
  <2>2. /\ Head(run) = run[1] /\ Last(run) = run[w] /\ DOMAIN run = 1 .. w /\ w /= 0
        /\ \A x \in 1 .. w : run[x] = page[s + x]
    BY <1>1, <1>3, <1>5 DEF OpenRun, Last
  <2> HIDE DEF w
  <2>3. /\ 1 \in 1 .. w /\ w \in 1 .. w /\ s < k
        /\ \A x \in 1 .. w : s + x \in s + 1 .. k
        /\ \A i \in s + 1 .. k : i - s \in 1 .. w /\ s + (i - s) = i
    BY <1>3, <2>2
  <2>4. PageNodes(run) = Ids(page, s + 1, k)
    <3>1. \A x \in 1 .. w : run[x].id \in Ids(page, s + 1, k)
      BY <2>2, <2>3 DEF Ids
    <3>2. \A i \in s + 1 .. k : page[i].id \in PageNodes(run)
      BY <2>2, <2>3 DEF PageNodes
    <3> QED BY <2>2, <3>1, <3>2 DEF Ids, PageNodes
  <2>5. Head(run).order = page[s + 1].order
    BY <2>2, <2>3
  <2>6. /\ s + 1 \in 1 .. Len(page) /\ k \in 1 .. Len(page) /\ s + 1 \in s + 1 .. k
        /\ 1 <= s + 1 /\ s + 1 \in Nat
    BY <1>3, <2>3, PageRows
  <2>7. p \in Spot(view, page)
    <3>1. Head(run).order \in Nat
      BY <2>5, <2>6, PageRows
    <3>2. Last(run).order \in Nat
      BY <1>3, <2>2, <2>3, <2>6, PageRows
    <3>3. PageNodes(run) \subseteq Node
      BY <1>3, <2>4, <2>6, PageIds
    <3> QED BY <3>1, <3>2, <3>3 DEF Spot, Names
  <2>8. p.id[1] = "ghost" /\ p.id[2] = page[s + 1].order /\ p.members = Ids(page, s + 1, k)
    BY <2>4, <2>5
  <2>9. s + 1 .. k \subseteq Hidden(view, page) /\ s \notin Hidden(view, page)
    BY <1>1 DEF OpenRun
  <2> HIDE DEF p
  <2>10. PlacedInv(Append(placed, p), k, view, page)
    BY <1>1, <1>3, <2>3, <2>6, <2>7, <2>8, <2>9, AppendSpot
  <2> QED BY <2>1, <2>10
<1> QED BY <1>4, <1>5

\* What Put makes of placed nodes behind which no run is open.
LEMMA Puts ==
  ASSUME NEW placed, NEW name, NEW n, NEW at, at = {q \in DOMAIN placed : placed[q].id = name}
  PROVE  Put([placed |-> placed, run |-> <<>>], name, n) =
           [placed |-> IF at = {} THEN Append(placed, [id |-> name, members |-> {n}])
                       ELSE [q \in DOMAIN placed |->
                               IF q \in at THEN AddNodeToCollapsed(placed[q], n) ELSE placed[q]],
            run |-> <<>>]
<1> DEFINE acc == [placed |-> placed, run |-> <<>>]
           more == [q \in DOMAIN placed |->
                      IF q \in at THEN AddNodeToCollapsed(placed[q], n) ELSE placed[q]]
<1>1. acc.placed = placed
  OBVIOUS
<1>2. \A new : [acc EXCEPT !.placed = new] = [placed |-> new, run |-> <<>>]
  OBVIOUS
<1> HIDE DEF acc
<1>3. CASE at = {}
  <2>1. Put(acc, name, n) = [acc EXCEPT !.placed = Append(placed, [id |-> name, members |-> {n}])]
    BY <1>1, <1>3 DEF Put
  <2>2. Put(acc, name, n) = [placed |-> Append(placed, [id |-> name, members |-> {n}]), run |-> <<>>]
    BY <1>2, <2>1
  <2> QED BY <1>3, <2>2 DEF acc
<1>4. CASE at /= {}
  <2>1. Put(acc, name, n) = [acc EXCEPT !.placed = more]
    BY <1>1, <1>4 DEF Put
  <2> HIDE DEF more
  <2>2. Put(acc, name, n) = [placed |-> more, run |-> <<>>]
    BY <1>2, <2>1
  <2> QED BY <1>4, <2>2 DEF acc, more
<1> QED BY <1>3, <1>4

\* One turn of the loop.
LEMMA PlaceScans ==
  ASSUME NEW view, NEW page, IsPage(page), NEW k \in Nat, k < Len(page),
         NEW acc, ScanInv(acc, k, view, page)
  PROVE  ScanInv(Place(acc, page[k + 1], view, page), k + 1, view, page)
<1> DEFINE row == page[k + 1]
           n == row.id
           next == Place(acc, row, view, page)
<1>1. /\ k + 1 \in 1 .. Len(page) /\ row \in Row /\ n \in Node /\ k \in 0 .. Len(page)
      /\ Len(page) \in Nat /\ DOMAIN page = 1 .. Len(page)
      /\ k + 1 \in Hidden(view, page) <=> IsHidden(n, view, page)
  BY PageRows DEF Hidden
<1>2. CASE IsHidden(n, view, page)
  <2>1. PICK s \in 0 .. k : PlacedInv(acc.placed, s, view, page) /\ OpenRun(acc.run, s, k, view, page)
    BY DEF ScanInv
  <2>2. next.placed = acc.placed /\ next.run = Append(acc.run, row)
        /\ next = [placed |-> next.placed, run |-> next.run]
    BY <1>2 DEF Place, ScanInv
  <2> DEFINE w == Len(acc.run)
             run == Append(acc.run, row)
  <2>3. /\ run \in Seq(Row) /\ Len(run) = w + 1 /\ w \in Nat /\ run[w + 1] = row
        /\ \A x \in 1 .. w : run[x] = acc.run[x]
    BY <1>1, <2>1 DEF OpenRun
  <2>4. s + w = k /\ \A x \in 1 .. w : acc.run[x] = page[s + x]
    BY <2>1 DEF OpenRun
  <2> HIDE DEF w, run, n
  <2>5. s \in Nat /\ s + (w + 1) = k + 1 /\ s \in 0 .. k + 1
    BY <2>1, <2>3, <2>4
  <2>6. \A x \in 1 .. w + 1 : run[x] = page[s + x]
    <3>1. \A x \in 1 .. w + 1 : x \in 1 .. w \/ x = w + 1
      BY <2>3
    <3> QED BY <2>3, <2>4, <2>5, <3>1
  <2>7. s + 1 .. k + 1 \subseteq Hidden(view, page) /\ s \notin Hidden(view, page)
    <3>1. s + 1 .. k \subseteq Hidden(view, page) /\ s \notin Hidden(view, page)
      BY <2>1 DEF OpenRun
    <3>2. \A i \in s + 1 .. k + 1 : i \in s + 1 .. k \/ i = k + 1
      BY <2>5
    <3> QED BY <1>1, <1>2, <3>1, <3>2
  <2>8. OpenRun(run, s, k + 1, view, page)
    BY <2>3, <2>5, <2>6, <2>7 DEF OpenRun
  <2> HIDE DEF next
  <2>9. next.run = run
    BY <2>2 DEF run
  <2> QED BY <2>1, <2>2, <2>5, <2>8, <2>9 DEF ScanInv, next
<1>3. CASE ~IsHidden(n, view, page)
  <2> DEFINE placed == FinalizeHiddenRun(acc).placed
             name == Target(n, view, page)
             at == {q \in DOMAIN placed : placed[q].id = name}
             p == [id |-> name, members |-> {n}]
  <2>1. /\ FinalizeHiddenRun(acc) = [placed |-> placed, run |-> <<>>]
        /\ PlacedInv(placed, k, view, page)
    BY <1>1, FinalizePlaces
  <2>2. next = Put(FinalizeHiddenRun(acc), name, n)
    BY <1>3 DEF Place
  <2>3. k + 1 \notin Hidden(view, page)
    BY <1>1, <1>3
  <2>11. next = Put([placed |-> placed, run |-> <<>>], name, n)
    <3> HIDE DEF placed, name, next
    <3> QED BY <2>1, <2>2
  <2> HIDE DEF placed, name, next
  <2>12. next = [placed |-> IF at = {} THEN Append(placed, p)
                            ELSE [q \in DOMAIN placed |->
                                    IF q \in at THEN AddNodeToCollapsed(placed[q], n) ELSE placed[q]],
                 run |-> <<>>]
    <3>1. at = {q \in DOMAIN placed : placed[q].id = name}
      OBVIOUS
    <3> HIDE DEF at
    <3>2. Put([placed |-> placed, run |-> <<>>], name, n) =
            [placed |-> IF at = {} THEN Append(placed, p)
                        ELSE [q \in DOMAIN placed |->
                                IF q \in at THEN AddNodeToCollapsed(placed[q], n) ELSE placed[q]],
             run |-> <<>>]
      BY <3>1, Puts
    <3> QED BY <2>11, <3>2
  <2>4. CASE at = {}
    <3>1. next = [placed |-> Append(placed, p), run |-> <<>>]
      BY <2>4, <2>12
    <3>2. Ids(page, k + 1, k + 1) = {n}
      <4>1. k + 1 .. k + 1 = {k + 1}
        BY <1>1
      <4> QED BY <4>1 DEF Ids
    <3>3. p \in Spot(view, page) /\ p.members = Ids(page, k + 1, k + 1) /\ p.id = name
      BY <1>1, <3>2 DEF Spot, Names, name
    <3>4. name[1] /= "ghost" /\ (name[1] = "normal" => name = <<"normal", n>>)
      BY TargetKinds DEF name
    <3>5. p.id[1] = "normal" => \E o \in Node : p.id = <<"normal", o>> /\ p.members = {o}
      BY <1>1, <3>4
    <3>6. \A q \in DOMAIN placed : placed[q].id /= p.id
      BY <2>4
    <3>7. k < k + 1 /\ k + 1 <= Len(page) /\ k + 1 \in Nat
      BY <1>1
    <3>8. p.id[1] /= "ghost"
      BY <3>3, <3>4
    <3> HIDE DEF p, at
    <3>9. PlacedInv(Append(placed, p), k + 1, view, page)
      BY <2>1, <2>3, <3>3, <3>5, <3>6, <3>7, <3>8, AppendSpot
    <3>10. OpenRun(<<>>, k + 1, k + 1, view, page)
      BY <1>1, <2>3 DEF OpenRun
    <3> QED BY <3>1, <3>7, <3>9, <3>10 DEF ScanInv, next
  <2>5. CASE at /= {}
    <3> DEFINE more == [q \in DOMAIN placed |->
                          IF q \in at THEN AddNodeToCollapsed(placed[q], n) ELSE placed[q]]
    <3>1. next = [placed |-> more, run |-> <<>>]
      BY <2>5, <2>12
    <3>2. k < Len(page) /\ at \subseteq DOMAIN placed /\ \A q \in at : placed[q].id \in {name}
      OBVIOUS
    <3> HIDE DEF at
    <3>3. PlacedInv(more, k + 1, view, page)
      BY <2>1, <2>3, <2>5, <3>2, JoinSpot DEF name
    <3>4. OpenRun(<<>>, k + 1, k + 1, view, page)
      BY <1>1, <2>3 DEF OpenRun
    <3>5. k + 1 \in 0 .. k + 1
      BY <1>1
    <3> HIDE DEF more
    <3> QED BY <3>1, <3>3, <3>4, <3>5 DEF ScanInv, next
  <2> QED BY <2>4, <2>5
<1> QED BY <1>2, <1>3

\* The scan is defined: as far as any row of the page a function obeys its equation.
LEMMA ScanStep ==
  ASSUME NEW view, NEW page, Len(page) \in Nat
  PROVE  /\ Scan(view, page)[0] = [placed |-> <<>>, run |-> <<>>]
         /\ \A k \in 1 .. Len(page) :
              Scan(view, page)[k] = Place(Scan(view, page)[k - 1], page[k], view, page)
<1> DEFINE len == Len(page)
           start == [placed |-> <<>>, run |-> <<>>]
           Step(acc, k) == Place(acc, page[k], view, page)
           Obeys(f, b) == f[0] = start /\ \A k \in 1 .. b : f[k] = Step(f[k - 1], k)
           bad == {b \in 0 .. len : ~ \E f : Obeys(f, b)}
           acc[k \in 0 .. len] == IF k = 0 THEN start ELSE Step(acc[k - 1], k)
<1> HIDE DEF start, Step
<1>1. bad = {}
  <2> SUFFICES ASSUME bad /= {} PROVE FALSE
    OBVIOUS
  <2> DEFINE b == Min(bad)
  <2>1. b \in bad /\ \A j \in bad : b <= j
    <3>1. bad \subseteq Nat
      OBVIOUS
    <3> HIDE DEF bad
    <3> QED BY <3>1, MinOf
  <2> HIDE DEF b
  <2>2. b \in 0 .. len /\ ~ \E f : Obeys(f, b)
    BY <2>1
  <2>3. CASE b = 0
    <3>1. Obeys([k \in {0} |-> start], 0)
      OBVIOUS
    <3> HIDE DEF Obeys
    <3> QED BY <2>2, <2>3, <3>1
  <2>4. CASE b /= 0
    <3>1. b - 1 \in 0 .. len /\ ~(b <= b - 1) /\ b \in Nat
      BY <2>2, <2>4
    <3>2. b - 1 \notin bad
      BY <2>1, <3>1
    <3>3. PICK f : Obeys(f, b - 1)
      BY <3>1, <3>2
    <3> DEFINE g == [k \in 0 .. b |-> IF k = b THEN Step(f[b - 1], b) ELSE f[k]]
    <3>4. Obeys(g, b)
      <4>1. g[0] = start
        BY <3>1, <3>3, <2>4
      <4>2. ASSUME NEW k \in 1 .. b PROVE g[k] = Step(g[k - 1], k)
        <5>1. k \in 0 .. b /\ k - 1 \in 0 .. b /\ k - 1 /= b /\ (k /= b => k \in 1 .. b - 1)
          BY <3>1
        <5>2. g[k - 1] = f[k - 1]
          BY <5>1
        <5>3. g[k] = IF k = b THEN Step(f[b - 1], b) ELSE f[k]
          BY <5>1
        <5> HIDE DEF g
        <5> QED BY <3>3, <5>1, <5>2, <5>3
      <4> HIDE DEF g
      <4> QED BY <4>1, <4>2
    <3> HIDE DEF Obeys, g
    <3> QED BY <2>2, <3>4
  <2> QED BY <2>3, <2>4
<1>2. PICK f : Obeys(f, len)
  BY <1>1
<1> DEFINE h == [k \in 0 .. len |-> f[k]]
<1>3. h = [k \in 0 .. len |-> IF k = 0 THEN start ELSE Step(h[k - 1], k)]
  <2>1. ASSUME NEW k \in 0 .. len PROVE f[k] = IF k = 0 THEN start ELSE Step(h[k - 1], k)
    <3>1. k /= 0 => k \in 1 .. len /\ k - 1 \in 0 .. len
      OBVIOUS
    <3>2. k /= 0 => h[k - 1] = f[k - 1]
      BY <3>1
    <3> HIDE DEF h
    <3> QED BY <1>2, <3>1, <3>2
  <2> QED BY <2>1
<1>4. acc = [k \in 0 .. len |-> IF k = 0 THEN start ELSE Step(acc[k - 1], k)]
  <2> HIDE <1>2
  <2> HIDE DEF h
  <2> QED BY <1>3 DEF acc
<1>5. Scan(view, page) = acc
  BY DEF Scan, Step, start
<1> HIDE DEF acc
<1>6. acc[0] = start /\ \A k \in 1 .. len : acc[k] = Step(acc[k - 1], k)
  BY <1>4
<1> QED BY <1>5, <1>6 DEF Step, start

\* After the last row, and the last run, every row is placed.
LEMMA ProjectedPlaces ==
  ASSUME NEW view, NEW page, IsPage(page)
  PROVE  PlacedInv(Projected(view, page), Len(page), view, page)
<1> DEFINE acc == Scan(view, page)
           bad == {k \in 0 .. Len(page) : ~ScanInv(acc[k], k, view, page)}
<1>1. /\ Len(page) \in Nat /\ acc[0] = [placed |-> <<>>, run |-> <<>>]
      /\ \A k \in 1 .. Len(page) : acc[k] = Place(acc[k - 1], page[k], view, page)
  BY PageRows, ScanStep
<1> HIDE DEF acc
<1>2. ScanInv(acc[0], 0, view, page)
  <2>1. 0 \notin Hidden(view, page) /\ 0 \in 0 .. 0 /\ 1 .. 0 = {} /\ \A j : j \in Hidden(view, page) => ~(j <= 0)
    BY PageRows DEF Hidden
  <2>2. PlacedInv(<<>>, 0, view, page)
    BY <2>1 DEF PlacedInv, EachOnce, Named, GhostsNamed, Runs
  <2>3. OpenRun(<<>>, 0, 0, view, page)
    BY <2>1 DEF OpenRun
  <2> QED BY <1>1, <2>1, <2>2, <2>3 DEF ScanInv
<1>3. bad = {}
  <2> SUFFICES ASSUME bad /= {} PROVE FALSE
    OBVIOUS
  <2> DEFINE b == Min(bad)
  <2>1. b \in bad /\ \A j \in bad : b <= j
    <3>1. bad \subseteq Nat
      OBVIOUS
    <3> HIDE DEF bad
    <3> QED BY <3>1, MinOf
  <2> HIDE DEF b
  <2>2. b \in 0 .. Len(page) /\ ~ScanInv(acc[b], b, view, page) /\ b /= 0
    BY <1>2, <2>1
  <2> DEFINE k == b - 1
  <2>3. k \in 0 .. Len(page) /\ k \in Nat /\ k < Len(page) /\ ~(b <= k) /\ k + 1 = b /\ b \in 1 .. Len(page)
    BY <1>1, <2>2
  <2>4. k \notin bad
    BY <2>1, <2>3
  <2>5. ScanInv(acc[k], k, view, page)
    BY <2>3, <2>4
  <2>6. acc[b] = Place(acc[k], page[b], view, page)
    BY <1>1, <2>3
  <2> HIDE DEF k
  <2>7. ScanInv(Place(acc[k], page[k + 1], view, page), k + 1, view, page)
    BY <2>3, <2>5, PlaceScans
  <2> QED BY <2>2, <2>3, <2>6, <2>7
<1>4. ScanInv(acc[Len(page)], Len(page), view, page) /\ Len(page) \in 0 .. Len(page)
  BY <1>1, <1>3
<1>5. PlacedInv(FinalizeHiddenRun(acc[Len(page)]).placed, Len(page), view, page)
  BY <1>4, FinalizePlaces
<1> QED BY <1>5 DEF Projected, acc

\* A page has as many nodes as rows.
LEMMA AllNodes ==
  ASSUME NEW page, IsPage(page)
  PROVE  /\ PageNodes(page) = Ids(page, 1, Len(page)) /\ PageNodes(page) \subseteq Node
         /\ IsFiniteSet(PageNodes(page)) /\ Cardinality(PageNodes(page)) = Len(page)
<1>1. PageNodes(page) = Ids(page, 1, Len(page)) /\ PageNodes(page) \subseteq Node
  BY PageRows DEF PageNodes, Ids
<1> DEFINE f == [i \in 1 .. Len(page) |-> page[i].id]
<1>2. f \in Surjection(1 .. Len(page), PageNodes(page))
  BY PageRows DEF Surjection, PageNodes
<1>3. f \in Injection(1 .. Len(page), PageNodes(page))
  <2>1. f \in [1 .. Len(page) -> PageNodes(page)]
    BY PageRows DEF PageNodes
  <2>2. \A i, j \in 1 .. Len(page) : f[i] = f[j] => i = j
    BY PageRows DEF IsPage
  <2> HIDE DEF f
  <2> QED BY <2>1, <2>2 DEF Injection, IsInjective
<1>4. IsFiniteSet(1 .. Len(page)) /\ Cardinality(1 .. Len(page)) = Len(page) /\ Len(page) \in Nat
  BY PageRows, FS_Interval
<1> HIDE DEF f
<1> QED BY <1>1, <1>2, <1>3, <1>4, FS_Surjection

\* Every node in one placeholder, ghosts as long as they can be, names of their own.
LEMMA NodesAreAccounted ==
  ASSUME NEW view, NEW page, IsPage(page), NEW placed, PlacedInv(placed, Len(page), view, page)
  PROVE  NodesAccounted(placed, Hidden(view, page), page)
<1> DEFINE in == [i \in DOMAIN page |-> {k \in DOMAIN placed : page[i].id \in placed[k].members}]
<1>1. /\ Len(page) \in Nat /\ DOMAIN page = 1 .. Len(page) /\ Hidden(view, page) \subseteq 1 .. Len(page)
      /\ EachOnce(placed, Len(page), page) /\ Named(placed)
      /\ GhostsNamed(placed, Len(page), view, page) /\ Runs(placed, Len(page), view, page)
  BY PageRows DEF PlacedInv, Hidden
<1>2. ASSUME NEW i \in 1 .. Len(page) PROVE \E q \in DOMAIN placed : in[i] = {q}
  <2>1. PICK q \in DOMAIN placed : page[i].id \in placed[q].members
    BY <1>1 DEF EachOnce
  <2>2. \A r \in DOMAIN placed : page[i].id \in placed[r].members => r = q
    BY <1>1, <2>1 DEF EachOnce
  <2>3. in[i] = {q}
    BY <1>1, <2>1, <2>2
  <2> QED BY <2>3
<1>3. ASSUME NEW i \in DOMAIN page PROVE Cardinality(in[i]) = 1
  <2> HIDE DEF in
  <2> QED BY <1>1, <1>2, FS_Singleton
<1>4. ASSUME NEW i \in Hidden(view, page), NEW j \in Hidden(view, page), i < j
      PROVE  in[i] = in[j] <=> i .. j \subseteq Hidden(view, page)
  <2>1. i \in 1 .. Len(page) /\ j \in 1 .. Len(page) /\ j <= Len(page)
    BY <1>1
  <2>2. Together(placed, page, i, j) <=> i .. j \subseteq Hidden(view, page)
    BY <1>1, <1>4, <2>1 DEF Runs
  <2>3. \A q : /\ q \in in[i] <=> q \in DOMAIN placed /\ page[i].id \in placed[q].members
               /\ q \in in[j] <=> q \in DOMAIN placed /\ page[j].id \in placed[q].members
    BY <1>1, <2>1
  <2>4. (\E q \in DOMAIN placed : in[i] = {q}) /\ (\E q \in DOMAIN placed : in[j] = {q})
    BY <1>2, <2>1
  <2> HIDE DEF in
  <2>5. in[i] = in[j] <=> Together(placed, page, i, j)
    BY <2>3, <2>4 DEF Together
  <2> QED BY <2>2, <2>5
<1>5. ASSUME \A i, j \in DOMAIN page : page[i].order = page[j].order => i = j,
             NEW q \in DOMAIN placed, NEW r \in DOMAIN placed, placed[q].id = placed[r].id
      PROVE  q = r
  <2>1. CASE placed[q].id[1] /= "ghost"
    BY <1>1, <1>5, <2>1 DEF Named
  <2>2. CASE placed[q].id[1] = "ghost"
    <3>1. PICK a \in Hidden(view, page) :
            placed[q].id[2] = page[a].order /\ page[a].id \in placed[q].members
      BY <1>1, <2>2 DEF GhostsNamed
    <3>2. PICK b \in Hidden(view, page) :
            placed[r].id[2] = page[b].order /\ page[b].id \in placed[r].members
      BY <1>1, <1>5, <2>2 DEF GhostsNamed
    <3>3. a \in DOMAIN page /\ b \in DOMAIN page /\ page[a].order = page[b].order
      BY <1>1, <1>5, <3>1, <3>2
    <3>4. a = b
      BY <1>5, <3>3
    <3> QED BY <1>1, <3>1, <3>2, <3>4 DEF EachOnce
  <2> QED BY <2>1, <2>2
<1> HIDE DEF in
<1> QED BY <1>3, <1>4, <1>5 DEF NodesAccounted, in

\* The size of four sets that share nothing.
Parts(S, A, B, C, D) ==
  /\ S = A \cup B \cup C \cup D
  /\ A \cap B = {} /\ A \cap C = {} /\ A \cap D = {} /\ B \cap C = {} /\ B \cap D = {} /\ C \cap D = {}

LEMMA FourParts ==
  ASSUME NEW S, IsFiniteSet(S), NEW A, NEW B, NEW C, NEW D, Parts(S, A, B, C, D)
  PROVE  /\ Cardinality(S) = Cardinality(A) + Cardinality(B) + Cardinality(C) + Cardinality(D)
         /\ Cardinality(A) \in Nat /\ Cardinality(B) \in Nat
         /\ Cardinality(C) \in Nat /\ Cardinality(D) \in Nat
<1>0. /\ S = A \cup B \cup C \cup D
      /\ A \cap B = {} /\ A \cap C = {} /\ A \cap D = {} /\ B \cap C = {} /\ B \cap D = {} /\ C \cap D = {}
  BY DEF Parts
<1>1. IsFiniteSet(A) /\ IsFiniteSet(B) /\ IsFiniteSet(C) /\ IsFiniteSet(D)
  BY <1>0, FS_Subset
<1>2. \A X, Y : IsFiniteSet(X) /\ IsFiniteSet(Y) /\ X \cap Y = {} =>
        /\ IsFiniteSet(X \cup Y) /\ Cardinality(X \cup Y) = Cardinality(X) + Cardinality(Y)
        /\ Cardinality(X) \in Nat /\ Cardinality(Y) \in Nat
  <2> SUFFICES ASSUME NEW X, NEW Y, IsFiniteSet(X), IsFiniteSet(Y), X \cap Y = {}
               PROVE  /\ IsFiniteSet(X \cup Y) /\ Cardinality(X \cup Y) = Cardinality(X) + Cardinality(Y)
                      /\ Cardinality(X) \in Nat /\ Cardinality(Y) \in Nat
    OBVIOUS
  <2>1. /\ IsFiniteSet(X \cup Y)
        /\ Cardinality(X \cup Y) = Cardinality(X) + Cardinality(Y) - Cardinality(X \cap Y)
    BY FS_Union
  <2>2. Cardinality(X \cap Y) = 0 /\ Cardinality(X) \in Nat /\ Cardinality(Y) \in Nat
    BY FS_EmptySet, FS_CardinalityType
  <2> QED BY <2>1, <2>2
<1>3. /\ IsFiniteSet(A \cup B) /\ Cardinality(A \cup B) = Cardinality(A) + Cardinality(B)
      /\ IsFiniteSet(C \cup D) /\ Cardinality(C \cup D) = Cardinality(C) + Cardinality(D)
      /\ Cardinality(A) \in Nat /\ Cardinality(B) \in Nat
      /\ Cardinality(C) \in Nat /\ Cardinality(D) \in Nat
  BY <1>0, <1>1, <1>2
<1>4. (A \cup B) \cap (C \cup D) = {} /\ S = (A \cup B) \cup (C \cup D)
  BY <1>0
<1>5. Cardinality(S) = Cardinality(A \cup B) + Cardinality(C \cup D)
  BY <1>2, <1>3, <1>4
<1> QED BY <1>3, <1>5

\* What a node of the page became: the name of the placeholder it is in.
LEMMA Projects ==
  ASSUME NEW view, NEW page, IsPage(page), NEW placed, PlacedInv(placed, Len(page), view, page),
         NEW n \in PageNodes(page)
  PROVE  \E q \in DOMAIN placed : /\ n \in placed[q].members /\ ProjectionOf(placed, n) = placed[q].id
                                 /\ placed[q] \in Range(placed)
<1>1. EachOnce(placed, Len(page), page)
  BY DEF PlacedInv
<1>2. PICK i \in 1 .. Len(page) : page[i].id = n
  BY PageRows DEF PageNodes
<1>3. PICK q \in DOMAIN placed : n \in placed[q].members
  BY <1>1, <1>2 DEF EachOnce
<1>4. placed[q] \in Range(placed) /\ \A p \in Range(placed) : n \in p.members => p = placed[q]
  BY <1>1, <1>3 DEF EachOnce, Range
<1> DEFINE p == CHOOSE p \in Range(placed) : n \in p.members
<1>5. p = placed[q]
  BY <1>3, <1>4
<1> HIDE DEF p
<1>6. ProjectionOf(placed, n) = p.id
  BY DEF ProjectionOf, p
<1> QED BY <1>3, <1>4, <1>5, <1>6

\* The edges between two nodes of the page that are aggregated; those whose ends became one
\* placeholder; those whose ends are one visible node.
Across(es, placed, page) ==
  {e \in es \ Omitted(es, page) : ProjectionOf(placed, From[e]) /= ProjectionOf(placed, To[e])}
Within(es, placed, page) ==
  {e \in es \ Omitted(es, page) : /\ ProjectionOf(placed, From[e]) = ProjectionOf(placed, To[e])
                                  /\ ProjectionOf(placed, From[e])[1] /= "normal"}
Around(es, placed, page) ==
  {e \in es \ Omitted(es, page) : /\ ProjectionOf(placed, From[e]) = ProjectionOf(placed, To[e])
                                  /\ ProjectionOf(placed, From[e])[1] = "normal"}

\* The projected edges share no edge, and there are no more of them than edges they stand for.
LEMMA AggregatedEdges ==
  ASSUME NEW es, IsFiniteSet(es), NEW placed, NEW page
  PROVE  /\ UNION Aggregated(es, placed, page) = Across(es, placed, page)
         /\ IsFiniteSet(Aggregated(es, placed, page))
         /\ Cardinality(Aggregated(es, placed, page)) <= Cardinality(Across(es, placed, page))
<1> DEFINE ends == [e \in es \ Omitted(es, page) |->
                      <<ProjectionOf(placed, From[e]), ProjectionOf(placed, To[e])>>]
           kept == {e \in DOMAIN ends : ends[e][1] /= ends[e][2]}
           of(e) == {f \in kept : ends[f] = ends[e]}
           f == [e \in kept |-> of(e)]
           all == {of(e) : e \in kept}
<1>1. Aggregated(es, placed, page) = all
  BY DEF Aggregated
<1>2. kept = Across(es, placed, page)
  BY DEF Across
<1>3. IsFiniteSet(kept)
  <2>1. kept \subseteq es
    OBVIOUS
  <2> HIDE DEF kept
  <2> QED BY <2>1, FS_Subset
<1> HIDE DEF ends, kept
<1>4. UNION all = kept
  <2>1. \A e \in kept : e \in of(e) /\ of(e) \in all /\ of(e) \subseteq kept
    OBVIOUS
  <2> HIDE DEF of
  <2> QED BY <2>1
<1> HIDE DEF of
<1>5. f \in Surjection(kept, all)
  BY DEF Surjection
<1> HIDE DEF f, all
<1>6. IsFiniteSet(all) /\ Cardinality(all) <= Cardinality(kept)
  BY <1>3, <1>5, FS_Surjection
<1> QED BY <1>1, <1>2, <1>4, <1>6

\* An edge is one of these, or omitted.
LEMMA EdgesAreSplit ==
  ASSUME NEW es, IsFiniteSet(es), NEW placed, NEW page
  PROVE  /\ Cardinality(es) = Cardinality(Across(es, placed, page)) + Cardinality(Within(es, placed, page))
                                + Cardinality(Omitted(es, page)) + Cardinality(Around(es, placed, page))
         /\ Cardinality(Across(es, placed, page)) \in Nat /\ Cardinality(Within(es, placed, page)) \in Nat
         /\ Cardinality(Omitted(es, page)) \in Nat /\ Cardinality(Around(es, placed, page)) \in Nat
<1> DEFINE a == Across(es, placed, page)
           w == Within(es, placed, page)
           o == Omitted(es, page)
           r == Around(es, placed, page)
<1>1. Parts(es, a, w, o, r)
  <2>1. o \subseteq es
    BY DEF Omitted
  <2> HIDE DEF o
  <2>2. /\ es = a \cup w \cup o \cup r
        /\ a \cap w = {} /\ a \cap o = {} /\ a \cap r = {}
        /\ w \cap o = {} /\ w \cap r = {} /\ o \cap r = {}
    BY <2>1 DEF Across, Within, Around, o
  <2> QED BY <2>2 DEF Parts
<1> HIDE DEF a, w, o, r
<1> QED BY <1>1, FourParts DEF a, w, o, r

\* Every edge told of once.
LEMMA EdgesAreAccounted ==
  ASSUME NEW view, NEW page, IsPage(page), NEW placed, PlacedInv(placed, Len(page), view, page),
         NEW es, IsFiniteSet(es), NEW m, m.omittedEdges = Cardinality(Omitted(es, page))
  PROVE  EdgesAccounted(placed, page, es, m)
<1> DEFINE kept == Aggregated(es, placed, page)
           inside == {Inside(es, placed, page, p) : p \in Range(placed)}
           loops == {e \in es : From[e] = To[e] /\ \E p \in Range(placed) : p.id = <<"normal", From[e]>>}
<1>1. UNION kept = Across(es, placed, page)
  BY AggregatedEdges
<1>2. \A e \in es \ Omitted(es, page) : From[e] \in PageNodes(page) /\ To[e] \in PageNodes(page)
  BY DEF Omitted
<1>3. UNION inside = Within(es, placed, page)
  <2>1. ASSUME NEW p \in Range(placed), NEW e \in Inside(es, placed, page, p)
        PROVE  e \in Within(es, placed, page)
    BY <2>1 DEF Inside, Within
  <2>2. ASSUME NEW e \in Within(es, placed, page) PROVE e \in UNION inside
    <3>1. e \in es \ Omitted(es, page)
      BY DEF Within
    <3>2. PICK q \in DOMAIN placed : ProjectionOf(placed, From[e]) = placed[q].id /\ placed[q] \in Range(placed)
      BY <1>2, <3>1, Projects
    <3>3. e \in Inside(es, placed, page, placed[q])
      BY <3>1, <3>2 DEF Within, Inside
    <3> QED BY <3>2, <3>3
  <2> QED BY <2>1, <2>2
<1>4. loops = Around(es, placed, page)
  <2>1. Named(placed) /\ EachOnce(placed, Len(page), page)
    BY DEF PlacedInv
  <2>2. ASSUME NEW e \in Around(es, placed, page) PROVE e \in loops
    <3>1. e \in es \ Omitted(es, page) /\ ProjectionOf(placed, From[e]) = ProjectionOf(placed, To[e])
          /\ ProjectionOf(placed, From[e])[1] = "normal"
      BY DEF Around
    <3>2. PICK q \in DOMAIN placed : /\ ProjectionOf(placed, From[e]) = placed[q].id
                                     /\ placed[q] \in Range(placed) /\ From[e] \in placed[q].members
      BY <1>2, <3>1, Projects
    <3>3. PICK r \in DOMAIN placed : /\ ProjectionOf(placed, To[e]) = placed[r].id
                                     /\ To[e] \in placed[r].members
      BY <1>2, <3>1, Projects
    <3>4. q = r
      BY <2>1, <3>1, <3>2, <3>3 DEF Named
    <3>5. PICK n \in Node : placed[q].id = <<"normal", n>> /\ placed[q].members = {n}
      BY <2>1, <3>1, <3>2 DEF Named
    <3>6. From[e] = n /\ To[e] = n
      BY <3>2, <3>3, <3>4, <3>5
    <3> QED BY <3>1, <3>2, <3>5, <3>6
  <2>3. ASSUME NEW e \in loops PROVE e \in Around(es, placed, page)
    <3>1. e \in es /\ From[e] = To[e]
      OBVIOUS
    <3>2. PICK q \in DOMAIN placed : placed[q].id = <<"normal", From[e]>>
      BY DEF Range
    <3>3. placed[q].id[1] = "normal"
      BY <3>2
    <3>4. PICK n \in Node : placed[q].id = <<"normal", n>> /\ placed[q].members = {n}
      BY <2>1, <3>3 DEF Named
    <3>5. From[e] = n /\ n \in placed[q].members
      BY <3>2, <3>4
    <3>6. From[e] \in PageNodes(page)
      BY <2>1, <3>5, AllNodes DEF EachOnce
    <3>7. e \in es \ Omitted(es, page)
      BY <3>1, <3>6 DEF Omitted
    <3>8. PICK r \in DOMAIN placed : /\ ProjectionOf(placed, From[e]) = placed[r].id
                                     /\ From[e] \in placed[r].members
      BY <3>6, Projects
    <3>9. q = r
      BY <2>1, <3>5, <3>8 DEF EachOnce
    <3> QED BY <3>1, <3>3, <3>7, <3>8, <3>9 DEF Around
  <2> QED BY <2>2, <2>3
<1> HIDE DEF kept, inside, loops
<1>5. Total(kept) + Total(inside) + m.omittedEdges + Cardinality(loops) = Cardinality(es)
  BY <1>1, <1>3, <1>4, EdgesAreSplit DEF Total
<1> QED BY <1>5 DEF EdgesAccounted, kept, inside, loops

OfKind(placed, kind) == {k \in DOMAIN placed : placed[k].id[1] = kind}

\* The placeholders by kind.
LEMMA KindsAreSplit ==
  ASSUME NEW placed, IsFiniteSet(DOMAIN placed),
         \A q \in DOMAIN placed : placed[q].id[1] \in {"layer", "group", "normal", "ghost"}
  PROVE  /\ Cardinality(DOMAIN placed) =
              Cardinality(OfKind(placed, "normal")) + Cardinality(OfKind(placed, "ghost"))
              + Cardinality(OfKind(placed, "group")) + Cardinality(OfKind(placed, "layer"))
         /\ IsFiniteSet(OfKind(placed, "normal"))
<1> DEFINE all == DOMAIN placed
           a == OfKind(placed, "normal")
           b == OfKind(placed, "ghost")
           c == OfKind(placed, "group")
           d == OfKind(placed, "layer")
<1>1. Parts(all, a, b, c, d)
  BY DEF OfKind, Parts
<1>2. IsFiniteSet(a)
  <2>1. a \subseteq all
    BY DEF OfKind
  <2> HIDE DEF a, all
  <2> QED BY <2>1, FS_Subset DEF all
<1> HIDE DEF all, a, b, c, d
<1>3. IsFiniteSet(all)
  BY DEF all
<1>4. Cardinality(all) = Cardinality(a) + Cardinality(b) + Cardinality(c) + Cardinality(d)
  BY <1>1, <1>3, FourParts
<1> QED BY <1>2, <1>4 DEF all, a, b, c, d

\* The counts.
LEMMA CountsDoAgree ==
  ASSUME NEW view, NEW page, IsPage(page), NEW placed, PlacedInv(placed, Len(page), view, page),
         NEW es, IsFiniteSet(es)
  PROVE  CountsAgree(placed, page, es, Metadata(placed, page, es))
<1> DEFINE m == Metadata(placed, page, es)
           inPlaceholders == UNION {placed[k].members : k \in {j \in DOMAIN placed : placed[j].id[1] /= "normal"}}
           visible == OfKind(placed, "normal")
           shown == UNION {placed[k].members : k \in visible}
<1>1. /\ m.returnedNodes = Len(placed) /\ m.visible = Cardinality(visible)
      /\ m.ghosts = Cardinality(OfKind(placed, "ghost")) /\ m.groups = Cardinality(OfKind(placed, "group"))
      /\ m.layers = Cardinality(OfKind(placed, "layer"))
      /\ m.returnedEdges = Cardinality(Aggregated(es, placed, page))
      /\ m.omittedEdges = Cardinality(Omitted(es, page))
  BY DEF Metadata, OfKind
<1> HIDE DEF m
<1>2. EachOnce(placed, Len(page), page) /\ Named(placed) /\ placed \in Seq(Spot(view, page))
  BY DEF PlacedInv
<1>3. m.visible + m.ghosts + m.groups + m.layers = m.returnedNodes /\ IsFiniteSet(visible)
  <2>1. DOMAIN placed = 1 .. Len(placed) /\ Len(placed) \in Nat
    BY <1>2
  <2>2. IsFiniteSet(DOMAIN placed) /\ Cardinality(DOMAIN placed) = Len(placed)
    <3> DEFINE w == Len(placed)
    <3>1. DOMAIN placed = 1 .. w /\ w \in Nat
      BY <2>1
    <3> HIDE DEF w
    <3>2. IsFiniteSet(1 .. w) /\ Cardinality(1 .. w) = w
      BY <3>1, FS_Interval
    <3> QED BY <3>1, <3>2 DEF w
  <2>3. ASSUME NEW q \in DOMAIN placed PROVE placed[q].id[1] \in {"layer", "group", "normal", "ghost"}
    <3>1. placed[q] \in Spot(view, page)
      BY <1>2
    <3>2. placed[q].id \in Names(view, page)
      BY <3>1 DEF Spot
    <3> QED BY <3>2, NameKinds
  <2>4. Len(placed) = Cardinality(visible) + Cardinality(OfKind(placed, "ghost"))
                      + Cardinality(OfKind(placed, "group")) + Cardinality(OfKind(placed, "layer"))
        /\ IsFiniteSet(visible)
    BY <2>2, <2>3, KindsAreSplit
  <2> QED BY <1>1, <2>4
<1>4. /\ PageNodes(page) = shown \cup inPlaceholders /\ shown \cap inPlaceholders = {}
      /\ IsFiniteSet(PageNodes(page))
  <2>1. \A q \in DOMAIN placed : placed[q].members \subseteq PageNodes(page)
    BY <1>2, AllNodes DEF EachOnce
  <2>2. \A n \in PageNodes(page) : \E q \in DOMAIN placed : n \in placed[q].members
    BY Projects
  <2>3. \A q \in DOMAIN placed : q \in visible <=> placed[q].id[1] = "normal"
    BY DEF OfKind
  <2>4. visible \subseteq DOMAIN placed
    BY DEF OfKind
  <2>5. \A q, r \in DOMAIN placed : \A n \in placed[q].members \cap placed[r].members : q = r
    BY <1>2 DEF EachOnce
  <2> HIDE DEF visible
  <2>6. IsFiniteSet(PageNodes(page))
    BY AllNodes
  <2> QED BY <2>1, <2>2, <2>3, <2>4, <2>5, <2>6
<1>5. Cardinality(visible) = Cardinality(shown)
  <2> DEFINE f == [q \in visible |-> CHOOSE n \in placed[q].members : TRUE]
  <2>1. ASSUME NEW q \in visible PROVE placed[q].members = {f[q]} /\ q \in DOMAIN placed
    <3>1. q \in DOMAIN placed /\ placed[q].id[1] = "normal"
      BY DEF OfKind
    <3>2. PICK n \in Node : placed[q].members = {n}
      BY <1>2, <3>1 DEF Named
    <3> QED BY <3>1, <3>2
  <2> HIDE DEF visible
  <2>2. f \in [visible -> shown] /\ \A n \in shown : \E q \in visible : f[q] = n
    <3>1. \A q \in visible : f[q] \in shown
      BY <2>1
    <3>2. \A n \in shown : \E q \in visible : f[q] = n
      BY <2>1
    <3>3. f = [q \in visible |-> f[q]]
      OBVIOUS
    <3> HIDE DEF f
    <3> QED BY <3>1, <3>2, <3>3
  <2>3. \A q, r \in visible : f[q] = f[r] => q = r
    <3> HIDE DEF f
    <3> QED BY <1>2, <2>1 DEF EachOnce
  <2> HIDE DEF f, shown
  <2>4. f \in Surjection(visible, shown) /\ f \in Injection(visible, shown)
    BY <2>2, <2>3 DEF Surjection, Injection, IsInjective
  <2> QED BY <1>3, <2>4, FS_Surjection
<1>6. m.visible + Cardinality(inPlaceholders) = Cardinality(PageNodes(page))
  <2> HIDE DEF shown, inPlaceholders, visible
  <2>1. IsFiniteSet(shown) /\ IsFiniteSet(inPlaceholders)
    BY <1>4, FS_Subset
  <2>2. Cardinality(shown \cap inPlaceholders) = 0
    BY <1>4, FS_EmptySet
  <2>3. Cardinality(PageNodes(page)) =
          Cardinality(shown) + Cardinality(inPlaceholders) - Cardinality(shown \cap inPlaceholders)
    BY <1>4, <2>1, FS_Union
  <2>4. Cardinality(shown) \in Nat /\ Cardinality(inPlaceholders) \in Nat
    BY <2>1, FS_CardinalityType
  <2> QED BY <1>1, <1>5, <2>2, <2>3, <2>4
<1>7. m.returnedEdges + m.omittedEdges <= Cardinality(es)
  <2>1. Cardinality(Aggregated(es, placed, page)) \in Nat
    BY AggregatedEdges, FS_CardinalityType
  <2> QED BY <1>1, <2>1, AggregatedEdges, EdgesAreSplit
<1> HIDE DEF inPlaceholders
<1> QED BY <1>3, <1>6, <1>7 DEF CountsAgree, m, inPlaceholders

\* A page, whatever the view and the edges.
LEMMA PagesAreAccounted ==
  ASSUME NEW view, NEW page, IsPage(page), NEW es, IsFiniteSet(es)
  PROVE  Accounted(view, page, es)
<1> DEFINE placed == Projected(view, page)
           m == Metadata(placed, page, es)
<1>1. PlacedInv(placed, Len(page), view, page)
  BY ProjectedPlaces
<1>2. m.omittedEdges = Cardinality(Omitted(es, page))
  BY DEF Metadata
<1> HIDE DEF placed
<1>3. NodesAccounted(placed, Hidden(view, page), page)
  BY <1>1, NodesAreAccounted
<1>4. CountsAgree(placed, page, es, m)
  BY <1>1, CountsDoAgree
<1> HIDE DEF m
<1>5. EdgesAccounted(placed, page, es, m)
  BY <1>1, <1>2, EdgesAreAccounted
<1> QED BY <1>3, <1>4, <1>5 DEF Accounted, Hidden, placed, m

-----------------------------------------------------------------------------
(* The pages of a walk.                                                    *)

\* Any finite set of nodes can be sorted as a query does: of a least one that cannot, take the
\* row that comes last, and put it behind the others.
LEMMA CanBeSorted ==
  ASSUME NEW ids \in SUBSET Nat, IsFiniteSet(ids), NEW at \in [ids -> Nat]
  PROVE  \E s \in SetToSeqs(ids) :
           \A i, j \in DOMAIN s : i < j => at[s[i]] < at[s[j]] \/ (at[s[i]] = at[s[j]] /\ s[i] < s[j])
<1> DEFINE Sooner(n, m) == at[n] < at[m] \/ (at[n] = at[m] /\ n < m)
           Sorted(s) == \A i, j \in DOMAIN s : i < j => Sooner(s[i], s[j])
           bad == {T \in SUBSET ids : ~ \E s \in SetToSeqs(T) : Sorted(s)}
<1>1. bad = {}
  <2> SUFFICES ASSUME bad /= {} PROVE FALSE
    OBVIOUS
  <2>1. bad \subseteq FiniteSubsetsOf(ids)
    BY FS_FiniteSubsetsOfFinite
  <2>2. PICK T \in bad : \A U \in bad : ~ (<<U, T>> \in StrictSubsetOrdering(ids))
    <3> HIDE DEF bad
    <3> QED BY <2>1, FS_StrictSubsetOrderingWellFounded, WFMin
  <2>3. T \in SUBSET ids /\ IsFiniteSet(T)
    BY FS_Subset
  <2>4. T /= {}
    <3>1. <<>> \in SetToSeqs({}) /\ Sorted(<<>>)
      BY FS_EmptySet DEF SetToSeqs
    <3> QED BY <3>1
  <2> DEFINE times == {at[n] : n \in T}
             latest == Max(times)
             last == {n \in T : at[n] = latest}
             x == Max(last)
  <2>5. latest \in times /\ \A t \in times : latest >= t
    <3>1. times \in SUBSET Nat /\ times /= {}
      BY <2>3, <2>4
    <3>2. [n \in T |-> at[n]] \in Surjection(T, times)
      BY DEF Surjection
    <3>3. IsFiniteSet(times)
      <4> HIDE DEF times
      <4> QED BY <2>3, <3>2, FS_Surjection
    <3> HIDE DEF times
    <3> QED BY <3>1, <3>3, MaxOf
  <2> HIDE DEF latest
  <2>6. x \in last /\ \A n \in last : x >= n
    <3>1. last \in SUBSET Nat /\ last /= {}
      BY <2>3, <2>5
    <3>2. IsFiniteSet(last)
      <4>1. last \subseteq T
        OBVIOUS
      <4> HIDE DEF last
      <4> QED BY <2>3, <4>1, FS_Subset
    <3> HIDE DEF last
    <3> QED BY <3>1, <3>2, MaxOf
  <2> HIDE DEF x
  <2> DEFINE U == T \ {x}
             k == Cardinality(U)
  <2>7. x \in T /\ \A n \in U : Sooner(n, x)
    <3>1. x \in T /\ at[x] = latest /\ x \in Nat /\ latest \in Nat
      BY <2>3, <2>6
    <3>2. ASSUME NEW n \in U PROVE Sooner(n, x)
      <4>1. n \in Nat /\ at[n] \in Nat /\ at[n] <= latest
        BY <2>3, <2>5
      <4>2. CASE at[n] = latest
        <5>1. n \in last /\ n /= x
          BY <4>2
        <5>2. n <= x
          BY <2>6, <5>1
        <5> QED BY <3>1, <4>1, <4>2, <5>1, <5>2
      <4>3. CASE at[n] /= latest
        BY <3>1, <4>1, <4>3
      <4> QED BY <4>2, <4>3
    <3> QED BY <3>1, <3>2
  <2>8. U \in SUBSET ids /\ <<U, T>> \in StrictSubsetOrdering(ids)
    BY <2>3, <2>7 DEF StrictSubsetOrdering
  <2>9. PICK s \in SetToSeqs(U) : Sorted(s)
    BY <2>2, <2>8
  <2>10. k \in Nat /\ Cardinality(T) = k + 1 /\ IsFiniteSet(U)
    <3>1. IsFiniteSet(U) /\ Cardinality(U) = Cardinality(T) - 1 /\ Cardinality(T) \in Nat
      BY <2>3, <2>7, FS_RemoveElement, FS_CardinalityType
    <3>2. Cardinality(U) \in Nat
      BY <3>1, FS_CardinalityType
    <3> QED BY <3>1, <3>2
  <2>11. s \in [1 .. k -> U] /\ \A i, j \in 1 .. k : i /= j => s[i] /= s[j]
    <3> HIDE DEF U
    <3> QED BY DEF SetToSeqs
  <2> DEFINE r == [i \in 1 .. k + 1 |-> IF i = k + 1 THEN x ELSE s[i]]
  <2> HIDE DEF k
  <2>12. \A i \in 1 .. k + 1 : i = k + 1 \/ (i \in 1 .. k /\ i /= k + 1 /\ i < k + 1)
    BY <2>10
  <2>13. \A i \in 1 .. k + 1 : r[i] = IF i = k + 1 THEN x ELSE s[i]
    OBVIOUS
  <2>14. r \in [1 .. k + 1 -> T]
    BY <2>7, <2>11, <2>12
  <2> HIDE DEF r
  <2>15. \A i, j \in 1 .. k + 1 : i /= j => r[i] /= r[j]
    BY <2>11, <2>12, <2>13
  <2>16. r \in SetToSeqs(T)
    BY <2>10, <2>14, <2>15 DEF SetToSeqs
  <2>17. Sorted(r)
    <3> SUFFICES ASSUME NEW i \in 1 .. k + 1, NEW j \in 1 .. k + 1, i < j PROVE Sooner(r[i], r[j])
      BY <2>14
    <3>1. i \in 1 .. k
      BY <2>10
    <3>2. CASE j = k + 1
      <4>1. r[i] \in U /\ r[j] = x
        BY <2>11, <2>12, <2>13, <3>1, <3>2
      <4> QED BY <2>7, <4>1
    <3>3. CASE j \in 1 .. k
      <4>1. r[i] = s[i] /\ r[j] = s[j]
        BY <2>10, <2>12, <2>13, <3>1, <3>3
      <4>2. DOMAIN s = 1 .. k
        BY <2>11
      <4> HIDE DEF Sooner
      <4>3. Sooner(s[i], s[j])
        BY <2>9, <3>1, <3>3, <4>2
      <4> QED BY <4>1, <4>3
    <3> QED BY <2>12, <3>2, <3>3
  <2> HIDE DEF Sorted
  <2> QED BY <2>16, <2>17
<1>2. ids \notin bad
  BY <1>1
<1> QED BY <1>2

\* Whatever versions a query sees, torn rows with one flow order included, it gives each row once.
LEMMA WindowIsPage ==
  ASSUME IsFiniteSet(Present), Node \subseteq Nat, NEW seen, \A n \in Present : seen[n].order \in Nat, NEW offset
  PROVE  IsPage(Window(seen, offset))
<1> DEFINE ids == {n \in Present : seen[n].order >= offset}
           Sooner(n, m) == \/ seen[n].order < seen[m].order
                           \/ seen[n].order = seen[m].order /\ n < m
           Sorted(s) == \A i, j \in DOMAIN s : i < j => Sooner(s[i], s[j])
           sorted == CHOOSE s \in SetToSeqs(ids) : Sorted(s)
           k == Cardinality(ids)
           at == [n \in ids |-> seen[n].order]
<1>1. Window(seen, offset) = [i \in DOMAIN sorted |-> [id |-> sorted[i], order |-> seen[sorted[i]].order]]
  BY DEF Window
<1>2. ids \subseteq Present /\ ids \in SUBSET Nat /\ ids \subseteq Node
  BY DEF Present
<1>3. IsFiniteSet(ids) /\ k \in Nat
  <2> HIDE DEF ids
  <2> QED BY <1>2, FS_Subset, FS_CardinalityType
<1>4. at \in [ids -> Nat] /\ \A n \in ids : at[n] = seen[n].order
  BY <1>2
<1> HIDE DEF ids, at
<1>5. PICK s \in SetToSeqs(ids) :
        \A i, j \in DOMAIN s : i < j => at[s[i]] < at[s[j]] \/ (at[s[i]] = at[s[j]] /\ s[i] < s[j])
  BY <1>2, <1>3, <1>4, CanBeSorted
<1>6. \A t \in SetToSeqs(ids) : /\ t \in [1 .. k -> ids]
                                /\ \A i, j \in 1 .. k : i /= j => t[i] /= t[j]
  BY DEF SetToSeqs
<1>7. Sorted(s)
  <2> SUFFICES ASSUME NEW i \in DOMAIN s, NEW j \in DOMAIN s, i < j PROVE Sooner(s[i], s[j])
    OBVIOUS
  <2>1. s[i] \in ids /\ s[j] \in ids
    BY <1>6
  <2>2. at[s[i]] = seen[s[i]].order /\ at[s[j]] = seen[s[j]].order
    BY <1>4, <2>1
  <2> QED BY <1>5, <2>2
<1>8. sorted \in SetToSeqs(ids)
  <2> HIDE DEF Sorted
  <2> QED BY <1>7
<1> HIDE DEF sorted, k
<1>9. sorted \in [1 .. k -> ids] /\ \A i, j \in 1 .. k : i /= j => sorted[i] /= sorted[j]
  BY <1>6, <1>8
<1> DEFINE window == [i \in 1 .. k |-> [id |-> sorted[i], order |-> seen[sorted[i]].order]]
<1>10. Window(seen, offset) = window
  BY <1>1, <1>9
<1>11. ASSUME NEW i \in 1 .. k PROVE window[i] \in Row /\ window[i].id = sorted[i]
  <2>1. sorted[i] \in Node /\ seen[sorted[i]].order \in Nat
    BY <1>2, <1>9
  <2> QED BY <2>1 DEF Row
<1>12. window \in [1 .. k -> Row]
  <2>1. window = [i \in 1 .. k |-> window[i]]
    OBVIOUS
  <2> HIDE DEF window
  <2> QED BY <1>11, <2>1
<1> HIDE DEF window
<1>13. window \in Seq(Row) /\ DOMAIN window = 1 .. k
  BY <1>3, <1>12, FunctionIsSeq DEF k
<1> QED BY <1>9, <1>10, <1>11, <1>13 DEF IsPage

\* The page a client has been given rows for.
PageInv ==
  /\ walk.limit \in Nat
  /\ walk.step = "edges" => IsPage(walk.page)

\* What a query returns is a page, whichever versions of the rows it sees.
LEMMA ReadNodesPageInv == ASSUME RebuildTypes, PageInv, ReadNodes PROVE PageInv'
<1>1. PICK seen :
        /\ \A n \in Present : seen[n] \in Range(rows[n])
        /\ walk' = [walk EXCEPT !.step = "edges", !.page = Page(Window(seen, walk.offset)),
                                !.more = Len(Window(seen, walk.offset)) > walk.limit]
  BY Zenon DEF ReadNodes
<1> DEFINE window == Window(seen, walk.offset)
           page == Page(window)
<1>2. DOMAIN walk = DOMAIN NoWalk /\ rows \in [Node -> Seq(Value)] /\ Node \subseteq Nat /\ walk.limit \in Nat
  BY FlowOrderAssumption DEF RebuildTypes, PageInv
<1>3. walk'.page = page /\ walk'.limit = walk.limit
  BY <1>1, <1>2 DEF NoWalk
<1>4. IsFiniteSet(Present)
  BY RawIsFinite, FS_Subset DEF RebuildTypes
<1>5. ASSUME NEW n \in Present PROVE seen[n].order \in Nat
  <2>1. seen[n] \in Range(rows[n]) /\ rows[n] \in Seq(Value)
    BY <1>1, <1>2 DEF Present
  <2>2. seen[n] \in Value
    BY <2>1 DEF Range
  <2> QED BY <2>2 DEF Value
<1>6. IsPage(window)
  BY <1>2, <1>4, <1>5, WindowIsPage
<1> HIDE DEF window
<1>7. /\ page \in Seq(Row) /\ Len(page) = IF Len(window) > walk.limit THEN walk.limit ELSE Len(window)
      /\ \A i \in 1 .. Len(page) : page[i] = window[i]
  BY <1>2, <1>6, PageOfWindow DEF IsPage
<1> HIDE DEF page
<1>8. DOMAIN page = 1 .. Len(page) /\ DOMAIN page \subseteq DOMAIN window
  <2> DEFINE p == Len(page)
             w == Len(window)
  <2>1. DOMAIN page = 1 .. p /\ p \in Nat
    BY <1>7
  <2>2. DOMAIN window = 1 .. w /\ w \in Nat
    BY <1>6, PageRows
  <2>3. p = IF w > walk.limit THEN walk.limit ELSE w
    BY <1>7
  <2> HIDE DEF p, w
  <2>4. 1 .. p \subseteq 1 .. w
    BY <1>2, <2>1, <2>2, <2>3
  <2> QED BY <2>1, <2>2, <2>4 DEF p
<1>9. IsPage(page)
  BY <1>6, <1>7, <1>8 DEF IsPage
<1> QED BY <1>2, <1>3, <1>9 DEF PageInv

\* Until its edges are read nothing changes the page.
LEMMA NextPageInv == RebuildTypes /\ PageInv /\ [Next]_vars => PageInv'
<1> SUFFICES ASSUME RebuildTypes, PageInv, [Next]_vars PROVE PageInv'
  OBVIOUS
<1>1. DOMAIN walk = DOMAIN NoWalk
  BY DEF RebuildTypes
<1>2. CASE UNCHANGED walk
  BY <1>2 DEF PageInv
<1>3. CASE SaveRow \/ SaveEdges
  <2>1. \E moved : walk' = [walk EXCEPT !.moved = moved]
    BY <1>3 DEF SaveRow, SaveEdges, Moves
  <2>2. walk'.limit = walk.limit /\ walk'.step = walk.step /\ walk'.page = walk.page
    BY <1>1, <2>1 DEF NoWalk
  <2> QED BY <2>2 DEF PageInv
<1>4. ASSUME NEW limit \in Limits, OpenFlow(limit) PROVE PageInv'
  <2>1. walk'.limit = limit /\ walk'.step = "nodes" /\ limit \in Nat
    BY <1>4, ReadModelAssumption DEF OpenFlow, NoWalk
  <2> QED BY <2>1 DEF PageInv
<1>5. CASE ReadNodes
  BY <1>5, ReadNodesPageInv
<1>6. CASE ReadEdges
  <2>1. walk'.limit = walk.limit /\ walk'.step \in {"page", "done"}
    BY <1>1, <1>6 DEF ReadEdges, NoWalk
  <2> QED BY <2>1 DEF PageInv
<1>7. CASE NextPage
  <2>1. walk'.limit = walk.limit /\ walk'.step = "nodes"
    BY <1>1, <1>7 DEF NextPage, NoWalk
  <2> QED BY <2>1 DEF PageInv
<1>8. CASE RejectCursor
  <2>1. walk'.limit = 1 /\ walk'.step = "conflict"
    BY <1>8 DEF RejectCursor, NoWalk
  <2> QED BY <2>1 DEF PageInv
<1>9. Ingest \/ Redeliver \/ Begin \/ FlowStep \/ ApplyFlowOrder \/ CorrectNode \/ AlignEdges
        \/ SaveCheckpoint \/ Fail \/ (\E n \in Node : Merge(n)) \/ UNCHANGED vars
      => UNCHANGED walk
  BY DEF Ingest, Redeliver, Begin, FlowStep, ApplyFlowOrder, CorrectNode, AlignEdges,
         SaveCheckpoint, Fail, Merge, vars
<1> QED BY <1>2, <1>3, <1>4, <1>5, <1>6, <1>7, <1>8, <1>9 DEF Next, Walk

\* For any nodes, edges, importance, groups, layers and view: what project makes of a page tells of
\* each of its nodes and edges once, and its counts agree with it (ProjectionConserves), though
\* a rebuild may save the rows while they are read.
THEOREM ProjectionsConserve == Spec => []ProjectionConserves
<1>1. Init => RebuildInv /\ PageInv
  <2>1. Init => PageInv
    BY DEF Init, NoWalk, PageInv
  <2> QED BY <2>1, InitRebuildInv
<1>2. RebuildInv /\ PageInv /\ [Next]_vars => (RebuildInv /\ PageInv)'
  BY NextRebuildInv, NextPageInv DEF RebuildInv
<1>3. RebuildInv /\ PageInv => ProjectionConserves
  <2> SUFFICES ASSUME RebuildInv, PageInv, walk.step = "edges", NEW view \in Views
               PROVE  Accounted(view, walk.page, Touching(PageNodes(walk.page)))
    BY DEF ProjectionConserves
  <2>1. Touching(PageNodes(walk.page)) \subseteq raw /\ IsFiniteSet(raw)
    BY RawIsFinite DEF RebuildInv, RebuildTypes, Touching
  <2>2. IsFiniteSet(Touching(PageNodes(walk.page)))
    BY <2>1, FS_Subset
  <2>3. IsPage(walk.page)
    BY DEF PageInv
  <2> QED BY <2>2, <2>3, PagesAreAccounted
<1> QED BY <1>1, <1>2, <1>3, PTL DEF Spec
=============================================================================
